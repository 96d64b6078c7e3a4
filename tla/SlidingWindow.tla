---------------------------- MODULE SlidingWindow ----------------------------
(***************************************************************************)
(* The limiter of one API process (api/rate_limit.py) in front of          *)
(* POST /optimizations.  consume has no await while its lock is free, and  *)
(* none inside: on the event loop a call is one step.                      *)
(***************************************************************************)
EXTENDS Integers, Sequences, FiniteSets

CONSTANTS
    Clients,
    Limit,       \* optimization_rate_limit
    Window,      \* its window, in ticks of the clock
    Second,      \* ticks in a second: a hint is a number of seconds
    MaxTime      \* bound: the clock stops there

WindowAssumption == {Limit, Window, Second} \subseteq Nat \ {0} /\ MaxTime \in Nat

VARIABLES
    now,         \* the monotonic clock
    events,      \* the deque of each client; a client without a key has none
    log,         \* history: when each client was admitted
    promised,    \* history: when a refused client was told to come back, or Never
    lastCall     \* history: the time of the last call of any client

vars == <<now, events, log, promised, lastCall>>

Never == -1

Init ==
    /\ now = 0
    /\ events = [c \in Clients |-> <<>>]
    /\ log = [c \in Clients |-> <<>>]
    /\ promised = [c \in Clients |-> Never]
    /\ lastCall = 0

\* Mutant: an event expires a tick early.
StaleEarly(e, t) == e < t - Window + 2

Stale(e, t) == e <= t - Window

\* The deque after popleft while its head is stale.
Pruned(values, t) ==
    LET fresh == {i \in DOMAIN values : ~Stale(values[i], t)}
    IN  IF fresh = {} THEN <<>>
        ELSE SubSeq(values, CHOOSE i \in fresh : \A j \in fresh : i <= j, Len(values))

\* Every client's deque is pruned, not only that of the caller.
PruneAll(c, t) == [d \in Clients |-> Pruned(events[d], t)]

\* Mutant: the seconds are rounded down.
HintFloor(head, t) ==
    LET seconds == (head + Window - t) \div Second IN IF seconds < 1 THEN 1 ELSE seconds

\* max(1, ceil(...)) seconds.
Hint(head, t) ==
    LET seconds == (head + Window - t + Second - 1) \div Second
    IN  IF seconds < 1 THEN 1 ELSE seconds

Full(deque) == Len(deque) >= Limit

Admit(c) ==
    LET kept == PruneAll(c, now)
    IN  /\ ~Full(kept[c])
        /\ events' = [kept EXCEPT ![c] = Append(@, now)]
        /\ log' = [log EXCEPT ![c] = Append(@, now)]
        /\ promised' = [promised EXCEPT ![c] = Never]
        /\ lastCall' = now
        /\ UNCHANGED now

\* RateLimitExceededError: 429 with Retry-After.
Refuse(c) ==
    LET kept == PruneAll(c, now)
    IN  /\ Full(kept[c])
        /\ events' = kept
        /\ promised' = [promised EXCEPT ![c] = now + Second * Hint(kept[c][1], now)]
        /\ lastCall' = now
        /\ UNCHANGED <<now, log>>

Tick ==
    /\ now < MaxTime
    /\ now' = now + 1
    /\ UNCHANGED <<events, log, promised, lastCall>>

Next == Tick \/ \E c \in Clients : Admit(c) \/ Refuse(c)

Spec == Init /\ [][Next]_vars
-----------------------------------------------------------------------------
(* Properties. *)

TypeOK ==
    /\ now \in 0..MaxTime
    /\ events \in [Clients -> Seq(0..MaxTime)]
    /\ \A c \in Clients : Len(events[c]) <= Limit
    /\ log \in [Clients -> Seq(0..MaxTime)]
    /\ promised \in [Clients -> Nat \cup {Never}]
    /\ lastCall \in 0..now

\* No window, wherever it begins, has more than Limit admissions of a client,
\* though the limiter keeps only what the calls of all clients have not pruned.
WindowBounded ==
    \A c \in Clients : \A i, j \in DOMAIN log[c] :
        j - i >= Limit => log[c][j] - log[c][i] >= Window

\* A refused client that comes back when Retry-After is over is admitted.
HintKept ==
    [][\A c \in Clients :
          promised'[c] # promised[c] /\ promised'[c] # Never /\ promised[c] # Never =>
              now < promised[c]]_vars

\* "Otherwise a stream of one-shot unique IPs leaves a permanently growing key
\* map": after each call only clients of the last window have a deque.
OnlyRecentKept ==
    \A c \in Clients :
        events[c] # <<>> => ~Stale(events[c][Len(events[c])], lastCall)

\* The limit holds in every window, and the limiter forgets what it may.
LimitKept == WindowBounded /\ OnlyRecentKept
=============================================================================
