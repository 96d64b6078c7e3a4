----------------------------- MODULE RateLimits -----------------------------
(***************************************************************************)
(* The two rate limits of the API: that of the one-time codes, which all   *)
(* processes keep in a table (AuthService), and that of                    *)
(* POST /optimizations, which each process keeps in memory                 *)
(* (SlidingWindow).  They share nothing.  This module names the            *)
(* parameters, states and properties of the two.                           *)
(***************************************************************************)
EXTENDS AuthService

CONSTANTS Clients, Limit, Window, Second, LimiterTime  \* of SlidingWindow

VARIABLES uptime, deques, log, promised, lastCall

Memory == INSTANCE SlidingWindow WITH now <- uptime, events <- deques, MaxTime <- LimiterTime

ASSUME LimiterAssumption == Memory!WindowAssumption
-----------------------------------------------------------------------------
\* No window has more admissions of a client than the limit, and an idle
\* client takes no memory (consume).
LimitKept == Memory!LimitKept

\* A client that waits as long as Retry-After says is admitted (consume).
HintKept == Memory!HintKept
=============================================================================
