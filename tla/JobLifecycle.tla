---------------------------- MODULE JobLifecycle ----------------------------
(***************************************************************************)
(* What the optimisation job queue promises to a client that creates a     *)
(* job, polls it and may cancel it, with no locks, leases, clocks or       *)
(* processes.  Several jobs may move in one step, because one sweep closes *)
(* many rows, but one step starts at most one attempt and admits at most   *)
(* one job.  OptimizationJobs implements this specification.               *)
(***************************************************************************)
EXTENDS Integers, FiniteSets

CONSTANTS Jobs, ActiveLimit, MaxAttempts

VARIABLE life    \* what a client can know of each job

Stages == {"absent", "waiting", "running", "ended", "forgotten"}

Outcomes == {"SOLVED", "TIME_LIMIT", "FAILED", "CANCELLED"}

NoOutcome == "none"

\* answer: the attempt whose solution the job shows, 0 for no solution.
Lives == [stage : Stages, attempts : 0..MaxAttempts, cancelling : BOOLEAN,
          outcome : Outcomes \cup {NoOutcome}, answer : 0..MaxAttempts]

Idle(stage) == [stage |-> stage, attempts |-> 0, cancelling |-> FALSE,
                outcome |-> NoOutcome, answer |-> 0]

Admitted(old, new) == old.stage = "absent" /\ new = Idle("waiting")

\* A first attempt, or another one after a lost worker; never of a job whose
\* cancellation was requested.
Started(old, new) ==
    /\ old.stage \in {"waiting", "running"}
    /\ ~old.cancelling
    /\ old.attempts < MaxAttempts
    /\ new = [old EXCEPT !.stage = "running", !.attempts = @ + 1]

CancelRequested(old, new) ==
    old.stage = "running" /\ new = [old EXCEPT !.cancelling = TRUE]

End(old, outcome, answer) ==
    [old EXCEPT !.stage = "ended", !.outcome = outcome, !.answer = answer]

\* A waiting job ends by its deadline or its cancellation.
Abandoned(old, new) ==
    /\ old.stage = "waiting"
    /\ \E outcome \in {"TIME_LIMIT", "CANCELLED"} : new = End(old, outcome, 0)

\* A running job ends with the answer of its last attempt or with none.
Finished(old, new) ==
    /\ old.stage = "running"
    /\ ~old.cancelling
    /\ \/ \E outcome \in {"SOLVED", "TIME_LIMIT"} : new = End(old, outcome, old.attempts)
       \/ \E outcome \in {"TIME_LIMIT", "FAILED"} : new = End(old, outcome, 0)

CancelHonoured(old, new) ==
    old.stage = "running" /\ old.cancelling /\ new = End(old, "CANCELLED", 0)

Forgotten(old, new) == old.stage = "ended" /\ new = Idle("forgotten")

JobStep(old, new) ==
    \/ Admitted(old, new) \/ Started(old, new) \/ CancelRequested(old, new)
    \/ Abandoned(old, new) \/ Finished(old, new) \/ CancelHonoured(old, new)
    \/ Forgotten(old, new)

AtMostOne(S) == \A j, k \in S : j = k

ActiveJobs(l) == {j \in Jobs : l[j].stage \in {"waiting", "running"}}

Init == life = [j \in Jobs |-> Idle("absent")]

Next ==
    /\ life' = [j \in Jobs |-> life'[j]]
    /\ \A j \in Jobs : life'[j] = life[j] \/ JobStep(life[j], life'[j])
    /\ AtMostOne({j \in Jobs : Admitted(life[j], life'[j])})
    /\ AtMostOne({j \in Jobs : Started(life[j], life'[j])})
    /\ Cardinality(ActiveJobs(life')) <= ActiveLimit

Spec == Init /\ [][Next]_life
=============================================================================
