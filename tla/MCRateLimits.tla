---------------------------- MODULE MCRateLimits ----------------------------
(***************************************************************************)
(* Model checking of RateLimits: two clients of one process, and two       *)
(* students behind two addresses whose processes may be killed, without    *)
(* logins.  The initial state picks the limiter that a behaviour is about, *)
(* and the variables of the other one stay as they are.                    *)
(***************************************************************************)
EXTENDS RateLimits, TLC

VARIABLE part

limiter == <<uptime, deques, log, promised, lastCall>>
InMemory == part = "memory" /\ UNCHANGED <<part, vars>>
InTable == part = "table" /\ UNCHANGED <<part, limiter>>

MCInit == part \in {"memory", "table"} /\ Init /\ Memory!Init

MCNext ==
    \/ InMemory /\ Memory!Tick
    \/ \E c \in Clients : InMemory /\ Memory!Admit(c)
    \/ \E c \in Clients : InMemory /\ Memory!Refuse(c)
    \/ InTable /\ Tick
    \/ \E p \in Requests : InTable /\ RequestNext(p)

MCSpec == MCInit /\ [][MCNext]_<<part, limiter, vars>>

Symmetry == Permutations(Clients) \cup Permutations(Students) \cup Permutations(Addresses)
                \cup Permutations(Requests)
=============================================================================
