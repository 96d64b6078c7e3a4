-------------------------- MODULE OptimizationJobs --------------------------
(***************************************************************************)
(* The optimisation job queue: the table optimization_jobs, the operations *)
(* of OptimizationJobStore (jobs/store.py) that the HTTP routes and the    *)
(* optimizer processes run against it, and the loop of those processes     *)
(* (optimizer/worker.py).                                                  *)
(*                                                                         *)
(* An operation that sweeps the table is a PostgreSQL transaction in three *)
(* steps: Begin reads the clock (the code reads it before the transaction  *)
(* and may then wait for locks), Lock takes the row locks of its SELECT    *)
(* ... FOR UPDATE statements and decides, Commit publishes the writes and  *)
(* releases the locks.  What one row lock covers from the first read to    *)
(* the commit (cancel, heartbeat, complete, fail) is one step.             *)
(***************************************************************************)
EXTENDS Integers, FiniteSets

CONSTANTS
    Jobs,          \* identities uuid4 can give to the jobs of a behaviour
    Workers,       \* optimizer processes
    Clients,       \* HTTP requests the API serves at the same time
    NoJob,         \* "no row", not a job
    ActiveLimit,   \* optimization_active_job_limit
    MaxAttempts,   \* max_attempts of claim_next and of the sweeps (3)
    LeaseTime,     \* lease_seconds (30)
    JobWindow,     \* time_limit_seconds + 30, the deadline of a wait and of an attempt
    Retention,     \* optimization_job_retention_hours
    Heartbeats,    \* TRUE: a worker renews its lease; FALSE: run_worker, which never does
    MaxTime,       \* bound: the clock stops there
    MaxLag,        \* bound: the clock ticks of one transaction
    CrashHorizon   \* bound: no process is killed later

ASSUME JobsAssumption == NoJob \notin Jobs /\ IsFiniteSet(Jobs)
ASSUME ActorsAssumption == Workers \cap Clients = {}
ASSUME LimitAssumption == ActiveLimit \in Nat \ {0} /\ MaxAttempts \in Nat \ {0}
ASSUME TimesAssumption ==
    /\ LeaseTime \in Nat \ {0} /\ JobWindow \in Nat /\ JobWindow > LeaseTime
    /\ Retention \in Nat \ {0}
ASSUME BoundsAssumption ==
    /\ MaxTime \in Nat /\ MaxLag \in Nat \ {0} /\ CrashHorizon \in Nat
    /\ Heartbeats \in BOOLEAN

VARIABLES
    now,       \* the clock of the host
    jobs,      \* the table: a row for each identity
    txn,       \* the open transaction of each process
    worker     \* where each optimizer process is in its loop

vars == <<now, jobs, txn, worker>>

Procs == Workers \cup Clients

-----------------------------------------------------------------------------
(* Rows. *)

ActiveStatuses == {"QUEUED", "RUNNING"}

\* "FEASIBLE" stands for OPTIMAL, FEASIBLE and INFEASIBLE: the store treats
\* the three alike.
SolverStatuses == {"FEASIBLE", "TIME_LIMIT"}
TerminalStatuses == SolverStatuses \cup {"FAILED", "CANCELLED"}

\* "NONE": the identity is not in use yet; "DELETED": its row was pruned.
Statuses == ActiveStatuses \cup TerminalStatuses \cup {"NONE", "DELETED"}

Null == -1      \* SQL NULL of a time, a token or a result

\* A row.  The uuid of a lease is the number of the claim it was drawn for,
\* fresh at each claim; the result a row holds is named by the lease of the
\* process that computed it.
Rows == [status : Statuses,
         attempts : 0..MaxAttempts, token : 1..MaxAttempts \cup {Null},
         leasedUntil : 0..MaxTime + LeaseTime \cup {Null},
         deadline : 0..MaxTime + JobWindow \cup {Null}, cancelRequested : BOOLEAN,
         created : 0..MaxTime \cup {Null}, updated : 0..MaxTime \cup {Null},
         result : 1..MaxAttempts \cup {Null}]

NoRow(status) ==
    [status |-> status, attempts |-> 0, token |-> Null, leasedUntil |-> Null,
     deadline |-> Null, cancelRequested |-> FALSE, created |-> Null,
     updated |-> Null, result |-> Null]

NewRow(t) ==
    [NoRow("QUEUED") EXCEPT !.deadline = t + JobWindow, !.created = t, !.updated = t]

Exists(r) == r.status \notin {"NONE", "DELETED"}

ActiveIn(rows) == {j \in Jobs : rows[j].status \in ActiveStatuses}

\* _clear_lease, and the status and time that every caller sets with it.
Closed(r, status, result, t) ==
    [r EXCEPT !.status = status, !.result = result, !.token = Null,
              !.leasedUntil = Null, !.updated = t]

-----------------------------------------------------------------------------
(* _sweep_active. *)

\* A NULL leased_until counts as expired: Null is below every clock value.
LeaseExpired(r, t) == r.status = "RUNNING" /\ r.leasedUntil <= t

\* Mutant: a lease that runs out is not swept.
SweepableQueuedOnly(r, t) ==
    r.status = "QUEUED" /\ (r.deadline <= t \/ r.attempts >= MaxAttempts)

\* The WHERE clause of the sweep.
Sweepable(r, t) ==
    \/ r.status = "QUEUED" /\ (r.deadline <= t \/ r.attempts >= MaxAttempts)
    \/ LeaseExpired(r, t)

\* Mutant: the deadline is looked at before the cancel request.
SweptStatusDeadlineFirst(r, t) ==
    CASE r.deadline <= t -> "TIME_LIMIT"
      [] r.deadline > t /\ LeaseExpired(r, t) /\ r.cancelRequested -> "CANCELLED"
      [] r.deadline > t /\ ~r.cancelRequested /\ r.attempts >= MaxAttempts -> "FAILED"
      [] OTHER -> r.status

\* The status the sweep gives to a row that it has locked.
SweptStatus(r, t) ==
    CASE LeaseExpired(r, t) /\ r.cancelRequested -> "CANCELLED"
      [] ~(LeaseExpired(r, t) /\ r.cancelRequested) /\ r.deadline <= t -> "TIME_LIMIT"
      [] ~(LeaseExpired(r, t) /\ r.cancelRequested) /\ r.deadline > t
            /\ r.attempts >= MaxAttempts -> "FAILED"
      [] OTHER -> r.status

Swept(r, t) ==
    IF Sweepable(r, t) /\ SweptStatus(r, t) # r.status
    THEN Closed(r, SweptStatus(r, t), Null, t)
    ELSE r

SweepRows(t) == {j \in Jobs : Sweepable(jobs[j], t)}

\* Mutant: the retention runs from the creation of the row.
PrunableSinceCreation(r, t) ==
    r.status \in TerminalStatuses /\ r.created < t - Retention

\* The WHERE clause of _prune_terminal; create is its only caller.
Prunable(r, t) == r.status \in TerminalStatuses /\ r.updated < t - Retention

PruneRows(t) == {j \in Jobs : Prunable(jobs[j], t)}

-----------------------------------------------------------------------------
(* Transactions. *)

NoTxn == [op |-> "none", t |-> Null, locked |-> FALSE, held |-> {},
          pick |-> NoJob, full |-> FALSE]

Begun(op) == [NoTxn EXCEPT !.op = op, !.t = now]

Locking(p, op) == txn[p].op = op /\ ~txn[p].locked
Committing(p, op) == txn[p].op = op /\ txn[p].locked

\* No other transaction holds a row lock on a row of S.
Unlocked(p, S) == \A q \in Procs \ {p} : txn[q].held \cap S = {}

\* Mutant: create takes no admission lock.
NoAdmissionLock(p) == TRUE

\* pg_advisory_xact_lock of create: nobody else is between it and its commit.
AdmissionLockFree(p) == \A q \in Procs \ {p} : ~Committing(q, "create")

\* bound: a create begins only while an identity is left for it.
Unused == {j \in Jobs : jobs[j].status = "NONE"}
OpenCreates == {c \in Clients : txn[c].op = "create"}

Init ==
    /\ now = 0
    /\ jobs = [j \in Jobs |-> NoRow("NONE")]
    /\ txn = [p \in Procs |-> NoTxn]
    /\ worker = [w \in Workers |-> [phase |-> "idle", job |-> NoJob, token |-> Null]]

-----------------------------------------------------------------------------
(* The requests of the API: create, get and cancel. *)

BeginCreate(c) ==
    /\ txn[c] = NoTxn
    /\ Cardinality(OpenCreates) < Cardinality(Unused)
    /\ txn' = [txn EXCEPT ![c] = Begun("create")]
    /\ UNCHANGED <<now, jobs, worker>>

\* The table as the transaction of create leaves it before its insert.
Maintained(rows, t) ==
    [j \in Jobs |-> IF Prunable(rows[j], t) THEN NoRow("DELETED") ELSE Swept(rows[j], t)]

\* The admission lock, the sweep, the prune and the count.
LockCreate(c) ==
    LET t == txn[c].t
        rows == SweepRows(t) \cup PruneRows(t)
    IN  /\ Locking(c, "create")
        /\ AdmissionLockFree(c)
        /\ Unlocked(c, rows)
        /\ txn' = [txn EXCEPT
              ![c].locked = TRUE,
              ![c].held = rows,
              ![c].full = Cardinality(ActiveIn(Maintained(jobs, t))) >= ActiveLimit]
        /\ UNCHANGED <<now, jobs, worker>>

\* A full queue still commits the sweep and the prune, then the route
\* answers 503; otherwise the new row is inserted with them.
CommitCreate(c) ==
    LET t == txn[c].t
        maintained == [j \in Jobs |->
            IF j \notin txn[c].held THEN jobs[j] ELSE Maintained(jobs, t)[j]]
    IN  /\ Committing(c, "create")
        /\ \/ txn[c].full /\ jobs' = maintained
           \/ /\ ~txn[c].full
              /\ \E j \in Unused : jobs' = [maintained EXCEPT ![j] = NewRow(t)]
        /\ txn' = [txn EXCEPT ![c] = NoTxn]
        /\ UNCHANGED <<now, worker>>

BeginGet(c) ==
    /\ txn[c] = NoTxn
    /\ \E j \in Jobs : Exists(jobs[j])
    /\ txn' = [txn EXCEPT ![c] = Begun("get")]
    /\ UNCHANGED <<now, jobs, worker>>

\* Every poll of a job sweeps the whole table.
LockGet(c) ==
    LET rows == SweepRows(txn[c].t)
    IN  /\ Locking(c, "get")
        /\ Unlocked(c, rows)
        /\ txn' = [txn EXCEPT ![c].locked = TRUE, ![c].held = rows]
        /\ UNCHANGED <<now, jobs, worker>>

\* The table after the sweep of p, written to the rows it has locked.
SweptByTxn(p) ==
    [j \in Jobs |-> IF j \in txn[p].held THEN Swept(jobs[j], txn[p].t) ELSE jobs[j]]

CommitGet(c) ==
    /\ Committing(c, "get")
    /\ jobs' = SweptByTxn(c)
    /\ txn' = [txn EXCEPT ![c] = NoTxn]
    /\ UNCHANGED <<now, worker>>

\* A deadlock victim, a lost connection or a killed API process: the
\* transaction rolls back and its locks go.
AbortRequest(c) ==
    /\ txn[c] # NoTxn
    /\ txn' = [txn EXCEPT ![c] = NoTxn]
    /\ UNCHANGED <<now, jobs, worker>>

\* updated_at is set whatever the status is, which postpones the prune of
\* a terminal row.
Cancelled(r) ==
    [r EXCEPT !.status = IF @ = "QUEUED" THEN "CANCELLED" ELSE @,
              !.cancelRequested = (r.status = "RUNNING") \/ @,
              !.updated = now]

Cancel(c, j) ==
    /\ txn[c] = NoTxn
    /\ Exists(jobs[j])
    /\ Unlocked(c, {j})
    /\ jobs' = [jobs EXCEPT ![j] = Cancelled(@)]
    /\ UNCHANGED <<now, txn, worker>>

-----------------------------------------------------------------------------
(* The loop of run_worker. *)

IdleWorker == [phase |-> "idle", job |-> NoJob, token |-> Null]

BeginClaim(w) ==
    /\ worker[w].phase = "idle"
    /\ txn[w] = NoTxn
    /\ txn' = [txn EXCEPT ![w] = Begun("claim")]
    /\ UNCHANGED <<now, jobs, worker>>

\* Mutant: a running job is claimed without a look at its lease.
ClaimableWhileLeased(r, t) ==
    /\ ~r.cancelRequested
    /\ r.attempts < MaxAttempts
    /\ r.deadline > t
    /\ r.status \in ActiveStatuses

\* The WHERE clause of claim_next.
Claimable(r, t) ==
    /\ ~r.cancelRequested
    /\ r.attempts < MaxAttempts
    /\ r.deadline > t
    /\ r.status = "QUEUED" \/ (r.status = "RUNNING" /\ r.leasedUntil < t)

\* ORDER BY created_at, id LIMIT 1; the order of two uuids is arbitrary.
Oldest(S) == {j \in S : \A k \in S : jobs[j].created <= jobs[k].created}

\* The sweep waits for the locks of the rows it wants; the pick (FOR UPDATE
\* SKIP LOCKED) passes over the rows that others have locked.
LockClaim(w) ==
    LET t == txn[w].t
        swept == SweepRows(t)
        free == {j \in Jobs : Unlocked(w, {j}) /\ Claimable(Swept(jobs[j], t), t)}
    IN  /\ Locking(w, "claim")
        /\ Unlocked(w, swept)
        /\ \E pick \in IF free = {} THEN {NoJob} ELSE Oldest(free) :
              txn' = [txn EXCEPT ![w].locked = TRUE,
                                 ![w].held = (swept \cup {pick}) \ {NoJob},
                                 ![w].pick = pick]
        /\ UNCHANGED <<now, jobs, worker>>

\* Mutant: the lease is counted from the deadline of the wait.
ClaimedFromDeadline(r, t) ==
    [r EXCEPT !.status = "RUNNING", !.token = r.attempts + 1,
              !.leasedUntil = r.deadline + LeaseTime, !.deadline = t + JobWindow,
              !.attempts = @ + 1, !.updated = t]

Claimed(r, t) ==
    [r EXCEPT !.status = "RUNNING", !.token = r.attempts + 1,
              !.leasedUntil = t + LeaseTime, !.deadline = t + JobWindow,
              !.attempts = @ + 1, !.updated = t]

CommitClaim(w) ==
    LET pick == txn[w].pick
        t == txn[w].t
    IN  /\ Committing(w, "claim")
        /\ jobs' = [j \in Jobs |->
              IF j = pick THEN Claimed(jobs[j], t) ELSE SweptByTxn(w)[j]]
        /\ worker' = [worker EXCEPT ![w] =
              IF pick = NoJob THEN IdleWorker
              ELSE [phase |-> "solving", job |-> pick, token |-> jobs[pick].attempts + 1]]
        /\ txn' = [txn EXCEPT ![w] = NoTxn]
        /\ UNCHANGED now

\* _validate_lease: the time of the lease is not looked at.
ValidLease(r, token) == r.status = "RUNNING" /\ r.token = token

\* Mutant: fail does not look at the cancel request.
SettledFailFirst(r, status, token) ==
    IF r.cancelRequested /\ status # "FAILED" THEN Closed(r, "CANCELLED", Null, now)
    ELSE Closed(r, status, IF status = "FAILED" THEN Null ELSE token, now)

\* complete (a solver status) or fail ("FAILED").
Settled(r, status, token) ==
    IF r.cancelRequested THEN Closed(r, "CANCELLED", Null, now)
    ELSE Closed(r, status, IF status = "FAILED" THEN Null ELSE token, now)

\* The solver has returned and the worker reports its status.  The answer of
\* a report that was committed may be lost, and the lookup of a row that was
\* pruned raises: both lead to the except clause that reports WORKER_ERROR.
Report(w, status) ==
    LET j == worker[w].job
        token == worker[w].token
    IN  /\ worker[w].phase = "solving"
        /\ txn[w] = NoTxn
        /\ Unlocked(w, {j})
        /\ \/ /\ ~Exists(jobs[j])
              /\ worker' = [worker EXCEPT ![w].phase = "failing"]
              /\ UNCHANGED jobs
           \/ /\ Exists(jobs[j]) /\ ~ValidLease(jobs[j], token)
              /\ worker' = [worker EXCEPT ![w] = IdleWorker]
              /\ UNCHANGED jobs
           \/ /\ ValidLease(jobs[j], token)
              /\ jobs' = [jobs EXCEPT ![j] = Settled(@, status, token)]
              /\ \/ worker' = [worker EXCEPT ![w] = IdleWorker]
                 \/ worker' = [worker EXCEPT ![w].phase = "failing"]
        /\ UNCHANGED <<now, txn>>

\* The solver, the translation of its result or the database raised.
SolverError(w) ==
    /\ worker[w].phase = "solving"
    /\ txn[w] = NoTxn
    /\ worker' = [worker EXCEPT ![w].phase = "failing"]
    /\ UNCHANGED <<now, jobs, txn>>

\* The except clause: fail with WORKER_ERROR.  It catches InvalidLeaseError
\* only, so JobNotFoundError ends the process.
ReportError(w) ==
    LET j == worker[w].job
        token == worker[w].token
    IN  /\ worker[w].phase = "failing"
        /\ Unlocked(w, {j})
        /\ \/ /\ ~Exists(jobs[j])
              /\ worker' = [worker EXCEPT ![w] = [IdleWorker EXCEPT !.phase = "aborted"]]
              /\ UNCHANGED jobs
           \/ /\ Exists(jobs[j]) /\ ~ValidLease(jobs[j], token)
              /\ worker' = [worker EXCEPT ![w] = IdleWorker]
              /\ UNCHANGED jobs
           \/ /\ ValidLease(jobs[j], token)
              /\ jobs' = [jobs EXCEPT ![j] = Settled(@, "FAILED", token)]
              /\ worker' = [worker EXCEPT ![w] = IdleWorker]
        /\ UNCHANGED <<now, txn>>

\* heartbeat reads the clock before it waits for the row.
BeginHeartbeat(w) ==
    /\ Heartbeats
    /\ worker[w].phase = "solving"
    /\ txn[w] = NoTxn
    /\ txn' = [txn EXCEPT ![w] = Begun("heartbeat")]
    /\ UNCHANGED <<now, jobs, worker>>

\* A heartbeat whose lease is no longer valid, or whose row is gone, raises
\* and writes nothing.
Heartbeat(w) ==
    LET j == worker[w].job
        t == txn[w].t
    IN  /\ txn[w].op = "heartbeat"
        /\ Unlocked(w, {j})
        /\ \/ /\ ValidLease(jobs[j], worker[w].token)
              /\ jobs' = [jobs EXCEPT ![j].leasedUntil = t + LeaseTime, ![j].updated = t]
           \/ ~ValidLease(jobs[j], worker[w].token) /\ UNCHANGED jobs
        /\ txn' = [txn EXCEPT ![w] = NoTxn]
        /\ UNCHANGED <<now, worker>>

\* The process is killed, or claim_next (outside of the try) raised: an open
\* transaction rolls back, a claimed job keeps its lease.
Crash(w) ==
    /\ worker[w].phase \in {"idle", "solving", "failing"}
    /\ now <= CrashHorizon
    /\ worker' = [worker EXCEPT ![w] = [IdleWorker EXCEPT !.phase = "down"]]
    /\ txn' = [txn EXCEPT ![w] = NoTxn]
    /\ UNCHANGED <<now, jobs>>

\* compose.yaml: restart unless-stopped.
Restart(w) ==
    /\ worker[w].phase \in {"down", "aborted"}
    /\ worker' = [worker EXCEPT ![w] = IdleWorker]
    /\ UNCHANGED <<now, jobs, txn>>

-----------------------------------------------------------------------------
\* bound: the clock waits for a transaction that has lasted MaxLag ticks.
Tick ==
    /\ now < MaxTime
    /\ \A p \in Procs : txn[p] # NoTxn => now < txn[p].t + MaxLag
    /\ now' = now + 1
    /\ UNCHANGED <<jobs, txn, worker>>

ClientNext(c) ==
    \/ BeginCreate(c) \/ LockCreate(c) \/ CommitCreate(c)
    \/ BeginGet(c) \/ LockGet(c) \/ CommitGet(c)
    \/ AbortRequest(c)
    \/ \E j \in Jobs : Cancel(c, j)

WorkerNext(w) ==
    \/ BeginClaim(w) \/ LockClaim(w) \/ CommitClaim(w)
    \/ \E status \in SolverStatuses \cup {"FAILED"} : Report(w, status)
    \/ SolverError(w) \/ ReportError(w)
    \/ BeginHeartbeat(w) \/ Heartbeat(w)
    \/ Crash(w) \/ Restart(w)

Next ==
    \/ Tick
    \/ \E c \in Clients : ClientNext(c)
    \/ \E w \in Workers : WorkerNext(w)

Spec == Init /\ [][Next]_vars

\* The clock runs, an open transaction ends, the lock queues of PostgreSQL
\* are fair, and run_worker keeps polling, solving and being restarted.
Fairness ==
    /\ WF_vars(Tick)
    /\ \A c \in Clients :
          /\ SF_vars(LockCreate(c)) /\ WF_vars(CommitCreate(c))
          /\ SF_vars(LockGet(c)) /\ WF_vars(CommitGet(c))
    /\ \A w \in Workers :
          /\ WF_vars(BeginClaim(w)) /\ SF_vars(LockClaim(w)) /\ WF_vars(CommitClaim(w))
          /\ SF_vars(\E status \in SolverStatuses \cup {"FAILED"} : Report(w, status))
          /\ SF_vars(ReportError(w)) /\ SF_vars(Heartbeat(w))
          /\ WF_vars(Restart(w))

FairSpec == Spec /\ Fairness
-----------------------------------------------------------------------------
(* Properties. *)

TypeOK ==
    /\ now \in 0..MaxTime
    /\ jobs \in [Jobs -> Rows]
    /\ txn \in [Procs -> [op : {"none", "create", "get", "claim", "heartbeat"},
                          t : 0..MaxTime \cup {Null}, locked : BOOLEAN,
                          held : SUBSET Jobs, pick : Jobs \cup {NoJob}, full : BOOLEAN]]
    /\ worker \in [Workers -> [phase : {"idle", "solving", "failing", "down", "aborted"},
                               job : Jobs \cup {NoJob}, token : 1..MaxAttempts \cup {Null}]]

\* However many requests create jobs at the same time, and whatever the
\* workers and the sweeps do meanwhile, the queued and running jobs never
\* exceed the limit (create counts and inserts under the admission lock).
ActiveCapped == Cardinality(ActiveIn(jobs)) <= ActiveLimit

\* A lease exists exactly while a job runs, is the one of its last claim, and
\* every way to leave RUNNING (sweep, complete, fail) clears it.
LeaseIffRunning ==
    \A j \in Jobs :
        LET r == jobs[j]
        IN  /\ r.status = "RUNNING" <=> r.token # Null
            /\ r.status = "RUNNING" <=> r.leasedUntil # Null
            /\ r.status = "RUNNING" => r.token = r.attempts

\* A cancel request that found the job running wins over every way the job
\* can end: the report of its worker, of a later one, and the sweeps, which
\* must look at the request before the deadline and the attempts.
CancelWins ==
    \A j \in Jobs :
        jobs[j].cancelRequested =>
            /\ jobs[j].status \in {"RUNNING", "CANCELLED"}
            /\ jobs[j].result = Null

\* A stored result was computed under the last lease of its job, never by a
\* worker whose job had been claimed again.
ResultFromLastClaim ==
    \A j \in Jobs :
        jobs[j].result # Null =>
            /\ jobs[j].result = jobs[j].attempts
            /\ jobs[j].status \in SolverStatuses

\* What a row says of its job is consistent: lease, cancellation and result.
RowsConsistent == LeaseIffRunning /\ CancelWins /\ ResultFromLastClaim

Holds(w, j) ==
    worker[w].job = j /\ worker[w].token = jobs[j].token /\ jobs[j].status = "RUNNING"

\* A lease that has not expired is authoritative: only a step of the worker
\* that holds it can end it or hand the job on, whatever deadline has passed
\* and however many polls, creates and claims sweep the table.
ValidLeaseRespected ==
    [][\A j \in Jobs :
          jobs[j].leasedUntil > now /\ jobs'[j].token # jobs[j].token =>
              \E w \in Workers : Holds(w, j) /\ worker'[w] # worker[w]]_vars

\* What a client was told of a finished job stays true: status and result
\* never change again, until the prune deletes the row, and a row that was
\* deleted does not come back.
TerminalIsFinal ==
    [][\A j \in Jobs :
          /\ jobs[j].status \in TerminalStatuses =>
                \/ jobs'[j].status = jobs[j].status /\ jobs'[j].result = jobs[j].result
                \/ jobs'[j].status = "DELETED"
          /\ jobs[j].status = "DELETED" => jobs'[j] = jobs[j]]_vars

\* The prune deletes finished jobs only, and none whose row was touched in the
\* last Retention, although it selects the identities before it deletes.
PrunedOnlyWhenOld ==
    [][\A j \in Jobs :
          Exists(jobs[j]) /\ ~Exists(jobs'[j]) =>
              /\ jobs[j].status \in TerminalStatuses
              /\ now - jobs[j].updated > Retention]_vars

\* What clients were told of a finished job lasts as long as it was promised.
OutcomesKept == TerminalIsFinal /\ PrunedOnlyWhenOld

\* Every job ends, whatever its workers do: an answer, the deadline of the
\* queue, a cancellation, or the retries spent.
EveryJobEnds ==
    \A j \in Jobs :
        jobs[j].status \in ActiveStatuses ~> jobs[j].status \notin ActiveStatuses

\* worker.py:222-224 of a worker whose lease was lost to another worker or to
\* a sweep: "discard this stale result without terminating the process".
StaleResultKeepsProcess ==
    \A w \in Workers : worker[w].phase # "aborted"

\* What a client can know of a row.
LifeOf(r) ==
    [stage |-> CASE r.status = "NONE" -> "absent"
                 [] r.status = "QUEUED" -> "waiting"
                 [] r.status = "RUNNING" -> "running"
                 [] r.status = "DELETED" -> "forgotten"
                 [] OTHER -> "ended",
     attempts |-> r.attempts,
     cancelling |-> r.cancelRequested,
     outcome |-> CASE r.status = "FEASIBLE" -> "SOLVED"
                   [] r.status \in {"TIME_LIMIT", "FAILED", "CANCELLED"} -> r.status
                   [] OTHER -> "none",
     answer |-> IF r.result = Null THEN 0 ELSE r.result]

Lifecycle == INSTANCE JobLifecycle WITH life <- [j \in Jobs |-> LifeOf(jobs[j])]

\* The queue implements the life of a job that a client relies on: every
\* step of every process, on every row at once, is one that JobLifecycle
\* allows.
ImplementsLifecycle == Lifecycle!Spec
=============================================================================
