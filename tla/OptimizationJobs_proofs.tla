----------------------- MODULE OptimizationJobs_proofs -----------------------
(***************************************************************************)
(* Proofs about OptimizationJobs, for every set of jobs, workers and       *)
(* requests and every value of the limits and times.                       *)
(*                                                                         *)
(* The inductive invariant has a part for each row (RowOK), one for what   *)
(* an open transaction has read and locked (TxnOK, HeldDisjoint) and one   *)
(* that ties a claim in progress to its worker (WorkerOK).  A row is only  *)
(* ever changed by a few operators, so each has a lemma that it keeps      *)
(* RowOK; the locks then carry what a transaction has read to its commit.  *)
(***************************************************************************)
EXTENDS OptimizationJobs, FiniteSetTheorems, TLAPS

\* What every row satisfies on its own: its type, and the row's part of
\* LeaseIffRunning, CancelWins and ResultFromLastClaim.
RowOK(r) ==
    /\ r \in Rows
    /\ r.status = "RUNNING" <=> r.token # Null
    /\ r.status = "RUNNING" <=> r.leasedUntil # Null
    /\ r.status = "RUNNING" => r.token = r.attempts
    /\ r.cancelRequested => r.status \in {"RUNNING", "CANCELLED"} /\ r.result = Null
    /\ r.result # Null => r.result = r.attempts /\ r.status \in SolverStatuses
    /\ r.status = "QUEUED" => r.attempts = 0

JobsOK == jobs \in [Jobs -> Rows] /\ \A j \in Jobs : RowOK(jobs[j])

TxnType ==
    [op : {"none", "create", "get", "claim", "heartbeat"},
     t : 0..MaxTime \cup {Null}, locked : BOOLEAN,
     held : SUBSET Jobs, pick : Jobs \cup {NoJob}, full : BOOLEAN]

WorkerType ==
    [phase : {"idle", "solving", "failing", "down", "aborted"},
     job : Jobs \cup {NoJob}, token : 1..MaxAttempts \cup {Null}]

\* A transaction never reads a time to come, and the row that a claim has
\* picked is locked and still claimable when the claim commits.
TxnOK ==
    /\ txn \in [Procs -> TxnType]
    /\ \A p \in Procs :
          /\ txn[p].op # "none" => txn[p].t \in 0..now
          /\ \A j \in txn[p].held : jobs[j].status # "NONE"
          /\ txn[p].pick # NoJob =>
                /\ txn[p].op = "claim"
                /\ txn[p].pick \in txn[p].held
                /\ Claimable(jobs[txn[p].pick], txn[p].t)

HeldDisjoint ==
    \A p, q \in Procs : p # q => txn[p].held \cap txn[q].held = {}

WorkerOK ==
    /\ worker \in [Workers -> WorkerType]
    /\ \A w \in Workers :
          /\ txn[w].op = "claim" => worker[w].phase = "idle"
          /\ worker[w].phase \notin {"idle", "solving"} => txn[w] = NoTxn
          /\ worker[w].phase \in {"solving", "failing"} => worker[w].job \in Jobs

IInv == now \in 0..MaxTime /\ JobsOK /\ TxnOK /\ HeldDisjoint /\ WorkerOK

-----------------------------------------------------------------------------
(* What the operators on rows do. *)

USE DEF Null

LEMMA NoRowOK ==
    ASSUME NEW status \in {"NONE", "DELETED"}
    PROVE  RowOK(NoRow(status))
  BY LimitAssumption DEF RowOK, Rows, NoRow, Statuses, ActiveStatuses, TerminalStatuses, SolverStatuses

LEMMA NewRowOK ==
    ASSUME NEW t \in 0..MaxTime
    PROVE  RowOK(NewRow(t)) /\ NewRow(t).status = "QUEUED"
<1>1. t + JobWindow \in 0..MaxTime + JobWindow
  BY TimesAssumption, BoundsAssumption
<1>2. 0 \in 0..MaxAttempts
  BY LimitAssumption
<1> QED
  BY <1>1, <1>2 DEF RowOK, Rows, NewRow, NoRow, Statuses, ActiveStatuses

LEMMA ClosedOK ==
    ASSUME NEW r, RowOK(r), NEW t \in 0..MaxTime,
           NEW status \in TerminalStatuses,
           NEW result \in 1..MaxAttempts \cup {Null},
           r.cancelRequested => status = "CANCELLED" /\ result = Null,
           result # Null => result = r.attempts /\ status \in SolverStatuses
    PROVE  RowOK(Closed(r, status, result, t)) /\ Closed(r, status, result, t).status = status
  BY LimitAssumption, TimesAssumption, BoundsAssumption
     DEF RowOK, Rows, Closed, Statuses, ActiveStatuses, TerminalStatuses, SolverStatuses

\* The sweep leaves a row as it is or closes it, and it never closes a row
\* that the claim of the same transaction may take.
LEMMA SweptOK ==
    ASSUME NEW r, RowOK(r), NEW t \in 0..MaxTime
    PROVE  /\ RowOK(Swept(r, t))
           /\ Swept(r, t) # r => Sweepable(r, t) /\ Swept(r, t).status \in TerminalStatuses
           /\ Claimable(Swept(r, t), t) => Swept(r, t) = r
<1> DEFINE s == SweptStatus(r, t)
<1>1. s # r.status /\ Sweepable(r, t) =>
          s \in TerminalStatuses /\ (r.cancelRequested => s = "CANCELLED")
  BY DEF SweptStatus, Sweepable, LeaseExpired, RowOK, Rows, TerminalStatuses, SolverStatuses
<1>2. CASE Sweepable(r, t) /\ s # r.status
  <2>1. Swept(r, t) = Closed(r, s, Null, t)
    BY <1>2 DEF Swept
  <2>2. RowOK(Closed(r, s, Null, t)) /\ Closed(r, s, Null, t).status = s
    BY <1>1, <1>2, ClosedOK
  <2>3. ~Claimable(Closed(r, s, Null, t), t)
    BY <1>1, <1>2, <2>2 DEF Claimable, TerminalStatuses, SolverStatuses
  <2> QED  BY <1>1, <1>2, <2>1, <2>2, <2>3
<1>3. CASE ~(Sweepable(r, t) /\ s # r.status)
  BY <1>3 DEF Swept
<1> QED  BY <1>2, <1>3

LEMMA MaintainedOK ==
    ASSUME JobsOK, NEW t \in 0..MaxTime, NEW j \in Jobs
    PROVE  RowOK(Maintained(jobs, t)[j])
<1>1. RowOK(Swept(jobs[j], t)) /\ RowOK(NoRow("DELETED"))
  BY SweptOK, NoRowOK DEF JobsOK
<1>2. Maintained(jobs, t)[j] \in {Swept(jobs[j], t), NoRow("DELETED")}
  BY DEF Maintained
<1> QED  BY <1>1, <1>2

LEMMA ClaimedOK ==
    ASSUME NEW r, RowOK(r), NEW t \in 0..MaxTime, Claimable(r, t)
    PROVE  RowOK(Claimed(r, t)) /\ r.attempts + 1 \in 1..MaxAttempts
<1>1. t + LeaseTime \in 0..MaxTime + LeaseTime /\ t + JobWindow \in 0..MaxTime + JobWindow
  BY TimesAssumption, BoundsAssumption
<1>2. r.attempts + 1 \in 1..MaxAttempts /\ r.attempts + 1 \in 0..MaxAttempts
  BY LimitAssumption DEF RowOK, Rows, Claimable
<1>3. r.result = Null /\ ~r.cancelRequested /\ r \in Rows
  BY DEF RowOK, Claimable, SolverStatuses
<1>4. t + LeaseTime # Null /\ r.attempts + 1 # Null
  BY <1>1, <1>2, TimesAssumption
<1>5. Claimed(r, t) \in Rows
  BY <1>1, <1>2, <1>3 DEF Claimed, Rows, Statuses, ActiveStatuses
<1>6. /\ Claimed(r, t).status = "RUNNING" /\ Claimed(r, t).result = Null
      /\ Claimed(r, t).token = r.attempts + 1 /\ Claimed(r, t).attempts = r.attempts + 1
      /\ Claimed(r, t).leasedUntil = t + LeaseTime /\ ~Claimed(r, t).cancelRequested
  BY <1>3 DEF Claimed, Rows
<1> QED
  BY <1>2, <1>4, <1>5, <1>6 DEF RowOK

LEMMA CancelledOK ==
    ASSUME NEW r, RowOK(r), now \in 0..MaxTime
    PROVE  RowOK(Cancelled(r))
<1> DEFINE c == Cancelled(r)
<1>1. r \in Rows /\ r.cancelRequested \in BOOLEAN
  BY DEF RowOK, Rows
<1>2. CASE r.status = "RUNNING"
  <2>1. c = [r EXCEPT !.cancelRequested = TRUE, !.updated = now]
    BY <1>1, <1>2 DEF Cancelled, Rows
  <2> QED  BY <1>2, <2>1 DEF RowOK, Rows, SolverStatuses
<1>3. CASE r.status = "QUEUED"
  <2>1. ~r.cancelRequested
    BY <1>3 DEF RowOK
  <2>2. c = [r EXCEPT !.status = "CANCELLED", !.updated = now]
    BY <1>1, <1>3, <2>1 DEF Cancelled, Rows
  <2> QED
    BY <1>3, <2>1, <2>2
       DEF RowOK, Rows, Statuses, ActiveStatuses, TerminalStatuses, SolverStatuses
<1>4. CASE r.status \notin ActiveStatuses
  <2>1. c = [r EXCEPT !.updated = now]
    BY <1>1, <1>4 DEF Cancelled, Rows, ActiveStatuses
  <2> QED  BY <1>4, <2>1 DEF RowOK, Rows, ActiveStatuses
<1> QED  BY <1>2, <1>3, <1>4 DEF ActiveStatuses

LEMMA SettledOK ==
    ASSUME NEW r, RowOK(r), now \in 0..MaxTime,
           NEW status \in SolverStatuses \cup {"FAILED"},
           NEW token \in 1..MaxAttempts \cup {Null}, ValidLease(r, token)
    PROVE  RowOK(Settled(r, status, token))
<1>1. token = r.attempts /\ status \in TerminalStatuses /\ "CANCELLED" \in TerminalStatuses
  BY DEF ValidLease, RowOK, TerminalStatuses
<1>2. CASE r.cancelRequested
  BY <1>1, <1>2, ClosedOK DEF Settled
<1>3. CASE ~r.cancelRequested /\ status = "FAILED"
  BY <1>1, <1>3, ClosedOK DEF Settled
<1>4. CASE ~r.cancelRequested /\ status # "FAILED"
  BY <1>1, <1>4, ClosedOK DEF Settled
<1> QED  BY <1>2, <1>3, <1>4

LEMMA RenewedOK ==
    ASSUME NEW r, RowOK(r), NEW t \in 0..MaxTime, r.status = "RUNNING"
    PROVE  RowOK([r EXCEPT !.leasedUntil = t + LeaseTime, !.updated = t])
<1>1. t + LeaseTime \in 0..MaxTime + LeaseTime /\ t + LeaseTime # Null
  BY TimesAssumption, BoundsAssumption
<1> QED  BY <1>1 DEF RowOK, Rows

-----------------------------------------------------------------------------
(* What a step of one transaction leaves to the others. *)

LEMMA NoTxnType == NoTxn \in TxnType /\ NoTxn.op = "none" /\ NoTxn.pick = NoJob /\ NoTxn.held = {}
  BY DEF NoTxn, TxnType

\* A step that only opens, advances or ends the transaction of p.
LEMMA TxnStep ==
    ASSUME IInv, NEW p \in Procs, NEW x \in TxnType,
           txn' = [txn EXCEPT ![p] = x], jobs' = jobs, now' = now,
           Unlocked(p, x.held), \A j \in x.held : jobs[j].status # "NONE",
           x.op # "none" => x.t \in 0..now,
           x.pick # NoJob =>
               x.op = "claim" /\ x.pick \in x.held /\ Claimable(jobs[x.pick], x.t)
    PROVE  now' \in 0..MaxTime /\ JobsOK' /\ TxnOK' /\ HeldDisjoint'
<1>1. now' \in 0..MaxTime /\ JobsOK'
  BY DEF IInv, JobsOK
<1>2. txn' \in [Procs -> TxnType]
  BY DEF IInv, TxnOK
<1>3. \A q \in Procs : txn'[q] = IF q = p THEN x ELSE txn[q]
  BY DEF IInv, TxnOK
<1>4. TxnOK'
  BY <1>2, <1>3 DEF IInv, TxnOK, Claimable
<1>5. HeldDisjoint'
  <2> SUFFICES ASSUME NEW q1 \in Procs, NEW q2 \in Procs, q1 # q2
               PROVE  txn'[q1].held \cap txn'[q2].held = {}
    BY DEF HeldDisjoint
  <2>1. CASE q1 = p
    BY <1>3, <2>1 DEF Unlocked
  <2>2. CASE q2 = p
    BY <1>3, <2>2 DEF Unlocked
  <2>3. CASE q1 # p /\ q2 # p
    BY <1>3, <2>3 DEF IInv, HeldDisjoint
  <2> QED  BY <2>1, <2>2, <2>3
<1> QED  BY <1>1, <1>4, <1>5

\* A step that writes rows no other transaction has locked, and ends the
\* transaction of p if it had one.
LEMMA CommitStep ==
    ASSUME IInv, NEW p \in Procs,
           txn' = [txn EXCEPT ![p] = NoTxn], now' = now,
           jobs' = [j \in Jobs |-> jobs'[j]],
           \A j \in Jobs : RowOK(jobs'[j]),
           \A q \in Procs \ {p} : \A j \in txn[q].held : jobs'[j] = jobs[j]
    PROVE  now' \in 0..MaxTime /\ JobsOK' /\ TxnOK' /\ HeldDisjoint'
<1>1. now' \in 0..MaxTime /\ JobsOK'
  BY DEF IInv, JobsOK, RowOK
<1>2. txn' \in [Procs -> TxnType]
  BY NoTxnType DEF IInv, TxnOK
<1>3. \A q \in Procs : txn'[q] = IF q = p THEN NoTxn ELSE txn[q]
  BY DEF IInv, TxnOK
<1>4. TxnOK'
  <2> SUFFICES ASSUME NEW q \in Procs
               PROVE  /\ txn'[q].op # "none" => txn'[q].t \in 0..now'
                      /\ \A j \in txn'[q].held : jobs'[j].status # "NONE"
                      /\ txn'[q].pick # NoJob =>
                            /\ txn'[q].op = "claim"
                            /\ txn'[q].pick \in txn'[q].held
                            /\ Claimable(jobs'[txn'[q].pick], txn'[q].t)
    BY <1>2 DEF TxnOK, Claimable
  <2>1. CASE q = p
    BY <1>3, <2>1, NoTxnType
  <2>2. CASE q # p
    <3>1. txn'[q] = txn[q]
      BY <1>3, <2>2
    <3>2. txn[q].pick # NoJob => jobs'[txn[q].pick] = jobs[txn[q].pick]
      BY <2>2 DEF IInv, TxnOK
    <3>3. \A j \in txn[q].held : jobs'[j] = jobs[j]
      BY <2>2
    <3> QED  BY <3>1, <3>2, <3>3 DEF IInv, TxnOK
  <2> QED  BY <2>1, <2>2
<1>5. HeldDisjoint'
  BY <1>3, NoTxnType DEF IInv, HeldDisjoint
<1> QED  BY <1>1, <1>4, <1>5

-----------------------------------------------------------------------------
(* The inductive invariant. *)

LEMMA InitInv == Init => IInv
<1> SUFFICES ASSUME Init PROVE IInv
  OBVIOUS
<1> USE DEF Init
<1>1. now \in 0..MaxTime
  BY BoundsAssumption
<1>2. JobsOK
  BY NoRowOK DEF JobsOK, RowOK
<1>3. TxnOK /\ HeldDisjoint
  BY NoTxnType DEF TxnOK, HeldDisjoint
<1>4. WorkerOK
  BY NoTxnType DEF WorkerOK, WorkerType, Procs
<1> QED  BY <1>1, <1>2, <1>3, <1>4 DEF IInv

\* Begin, for every operation.
LEMMA BeginKeepsInv ==
    ASSUME IInv, NEW p \in Procs, NEW op \in {"create", "get", "claim", "heartbeat"},
           txn[p] = NoTxn, txn' = [txn EXCEPT ![p] = Begun(op)],
           UNCHANGED <<now, jobs, worker>>,
           p \in Workers => worker[p].phase = IF op = "claim" THEN "idle" ELSE "solving"
    PROVE  IInv'
<1>1. /\ Begun(op) \in TxnType /\ Begun(op).op = op /\ Begun(op).held = {}
      /\ Begun(op).pick = NoJob /\ Begun(op).t = now
  BY DEF Begun, NoTxn, TxnType, IInv
<1>2. Unlocked(p, Begun(op).held) /\ now \in 0..now
  BY <1>1 DEF Unlocked, IInv
<1>3. now' \in 0..MaxTime /\ JobsOK' /\ TxnOK' /\ HeldDisjoint'
  BY <1>1, <1>2, TxnStep
<1>4. WorkerOK'
  BY <1>1 DEF WorkerOK, IInv, TxnOK, Procs
<1> QED  BY <1>3, <1>4 DEF IInv

\* The end of a transaction that wrote nothing.
LEMMA AbortKeepsTables ==
    ASSUME IInv, NEW p \in Procs, txn' = [txn EXCEPT ![p] = NoTxn], UNCHANGED <<now, jobs>>
    PROVE  now' \in 0..MaxTime /\ JobsOK' /\ TxnOK' /\ HeldDisjoint'
<1>1. Unlocked(p, NoTxn.held)
  BY NoTxnType DEF Unlocked
<1> QED  BY <1>1, NoTxnType, TxnStep

LEMMA LockKeepsInv ==
    ASSUME IInv, NEW p \in Procs, NEW held \in SUBSET Jobs, NEW full \in BOOLEAN,
           NEW pick \in held \cup {NoJob},
           txn[p].op # "none", Unlocked(p, held), \A j \in held : jobs[j].status # "NONE",
           txn' = [txn EXCEPT ![p].locked = TRUE, ![p].held = held,
                              ![p].pick = pick, ![p].full = full],
           pick # NoJob => txn[p].op = "claim" /\ Claimable(jobs[pick], txn[p].t),
           UNCHANGED <<now, jobs, worker>>
    PROVE  IInv'
<1> DEFINE x == [txn[p] EXCEPT !.locked = TRUE, !.held = held, !.pick = pick, !.full = full]
<1>1. txn \in [Procs -> TxnType] /\ txn[p] \in TxnType
  BY DEF IInv, TxnOK
<1>2. /\ x \in TxnType /\ x.op = txn[p].op /\ x.t = txn[p].t
      /\ x.held = held /\ x.pick = pick
  BY <1>1 DEF TxnType
<1>3. txn' = [txn EXCEPT ![p] = x]
  BY <1>1
<1>4. txn[p].t \in 0..now
  BY DEF IInv, TxnOK
<1> HIDE DEF x
<1>5. /\ x.op # "none" => x.t \in 0..now
      /\ x.pick # NoJob =>
            x.op = "claim" /\ x.pick \in x.held /\ Claimable(jobs[x.pick], x.t)
      /\ \A j \in x.held : jobs[j].status # "NONE"
      /\ Unlocked(p, x.held) /\ jobs' = jobs /\ now' = now
  BY <1>2, <1>4
<1>6. now' \in 0..MaxTime /\ JobsOK' /\ TxnOK' /\ HeldDisjoint'
  BY <1>2, <1>3, <1>5, TxnStep
<1>7. WorkerOK'
  BY <1>1, <1>2, <1>3, NoTxnType DEF WorkerOK, IInv, Procs
<1> QED  BY <1>6, <1>7 DEF IInv

\* Whatever the transaction of p has locked, no other transaction has.
LEMMA LockedByOne ==
    ASSUME IInv, NEW p \in Procs, NEW q \in Procs \ {p}, NEW j \in txn[q].held
    PROVE  j \in Jobs /\ j \notin txn[p].held
  BY DEF IInv, HeldDisjoint, TxnOK, TxnType

LEMMA SweptByTxnOK ==
    ASSUME IInv, NEW p \in Procs, txn[p].op # "none", NEW j \in Jobs
    PROVE  RowOK(SweptByTxn(p)[j])
<1>1. txn[p].t \in 0..MaxTime /\ RowOK(jobs[j])
  BY BoundsAssumption DEF IInv, TxnOK, JobsOK
<1>2. SweptByTxn(p)[j] \in {Swept(jobs[j], txn[p].t), jobs[j]}
  BY DEF SweptByTxn
<1> QED  BY <1>1, <1>2, SweptOK

LEMMA CommitCreateKeepsInv ==
    ASSUME IInv, NEW c \in Clients, CommitCreate(c)
    PROVE  IInv'
<1> DEFINE t == txn[c].t
           maintained == [j \in Jobs |->
               IF j \notin txn[c].held THEN jobs[j] ELSE Maintained(jobs, t)[j]]
<1>1. c \in Procs /\ c \notin Workers
  BY ActorsAssumption DEF Procs
<1>2. t \in 0..MaxTime
  BY <1>1, BoundsAssumption DEF CommitCreate, Committing, IInv, TxnOK
<1>3. ASSUME NEW j \in Jobs PROVE RowOK(maintained[j])
  <2>1. RowOK(Maintained(jobs, t)[j]) /\ RowOK(jobs[j])
    BY <1>2, MaintainedOK DEF IInv, JobsOK
  <2> QED  BY <2>1
<1>4. ASSUME NEW q \in Procs \ {c}, NEW j \in txn[q].held
      PROVE  maintained[j] = jobs[j]
  BY <1>1, LockedByOne
<1>5. PICK k \in Jobs \cup {NoJob} :
          /\ jobs' = [j \in Jobs |-> IF j = k THEN NewRow(t) ELSE maintained[j]]
          /\ k # NoJob => jobs[k].status = "NONE"
  <2>1. CASE txn[c].full /\ jobs' = maintained
    BY <2>1, JobsAssumption
  <2>2. CASE \E j \in Unused : jobs' = [maintained EXCEPT ![j] = NewRow(t)]
    BY <2>2, JobsAssumption DEF Unused
  <2> QED  BY <2>1, <2>2 DEF CommitCreate
<1>6. RowOK(NewRow(t))
  BY <1>2, NewRowOK
<1>7. jobs' = [j \in Jobs |-> jobs'[j]] /\ \A j \in Jobs : RowOK(jobs'[j])
  BY <1>3, <1>5, <1>6
<1>8. ASSUME NEW q \in Procs \ {c}, NEW j \in txn[q].held
      PROVE  jobs'[j] = jobs[j]
  <2>1. j \in Jobs /\ jobs[j].status # "NONE"
    BY <1>1, LockedByOne DEF IInv, TxnOK
  <2> QED  BY <1>4, <1>5, <2>1, JobsAssumption
<1>9. now' \in 0..MaxTime /\ JobsOK' /\ TxnOK' /\ HeldDisjoint'
  BY <1>1, <1>7, <1>8, CommitStep DEF CommitCreate
<1>10. WorkerOK'
  BY <1>1 DEF CommitCreate, WorkerOK, IInv, TxnOK, Procs
<1> QED  BY <1>9, <1>10 DEF IInv

LEMMA CommitGetKeepsInv ==
    ASSUME IInv, NEW c \in Clients, CommitGet(c)
    PROVE  IInv'
<1>1. c \in Procs /\ c \notin Workers
  BY ActorsAssumption DEF Procs
<1>2. \A j \in Jobs : RowOK(SweptByTxn(c)[j])
  BY <1>1, SweptByTxnOK DEF CommitGet, Committing
<1>3. \A q \in Procs \ {c} : \A j \in txn[q].held : SweptByTxn(c)[j] = jobs[j]
  BY <1>1, LockedByOne DEF SweptByTxn
<1>4. jobs' = [j \in Jobs |-> jobs'[j]]
  BY DEF CommitGet, SweptByTxn
<1>5. now' \in 0..MaxTime /\ JobsOK' /\ TxnOK' /\ HeldDisjoint'
  BY <1>1, <1>2, <1>3, <1>4, CommitStep DEF CommitGet
<1>6. WorkerOK'
  BY <1>1 DEF CommitGet, WorkerOK, IInv, TxnOK, Procs
<1> QED  BY <1>5, <1>6 DEF IInv

LEMMA CommitClaimKeepsInv ==
    ASSUME IInv, NEW w \in Workers, CommitClaim(w)
    PROVE  IInv'
<1> DEFINE pick == txn[w].pick
           t == txn[w].t
<1>1. w \in Procs /\ t \in 0..MaxTime /\ txn[w].op = "claim"
  BY BoundsAssumption DEF Procs, CommitClaim, Committing, IInv, TxnOK
<1>2. pick # NoJob => pick \in Jobs /\ pick \in txn[w].held /\ Claimable(jobs[pick], t)
  BY <1>1 DEF IInv, TxnOK, TxnType
<1>3. pick # NoJob => RowOK(Claimed(jobs[pick], t)) /\ jobs[pick].attempts + 1 \in 1..MaxAttempts
  BY <1>1, <1>2, ClaimedOK DEF IInv, JobsOK
<1>4. jobs' = [j \in Jobs |-> IF j = pick THEN Claimed(jobs[j], t) ELSE SweptByTxn(w)[j]]
  BY DEF CommitClaim
<1>5. \A j \in Jobs : RowOK(jobs'[j])
  BY <1>1, <1>3, <1>4, SweptByTxnOK, JobsAssumption
<1>6. \A q \in Procs \ {w} : \A j \in txn[q].held : jobs'[j] = jobs[j]
  BY <1>1, <1>2, <1>4, LockedByOne, JobsAssumption DEF SweptByTxn
<1>7. now' \in 0..MaxTime /\ JobsOK' /\ TxnOK' /\ HeldDisjoint'
  BY <1>1, <1>4, <1>5, <1>6, CommitStep DEF CommitClaim
<1>8. worker' \in [Workers -> WorkerType]
  BY <1>2, <1>3 DEF CommitClaim, IdleWorker, WorkerOK, IInv, WorkerType
<1>9. WorkerOK'
  BY <1>1, <1>2, <1>8, NoTxnType DEF CommitClaim, IdleWorker, WorkerOK, IInv, TxnOK, Procs, WorkerType
<1> QED  BY <1>7, <1>9 DEF IInv

\* A write of one row under its row lock, by a process with no transaction
\* open or at the end of the one it has.
LEMMA RowWrite ==
    ASSUME IInv, NEW p \in Procs, NEW j \in Jobs, NEW r, RowOK(r),
           Unlocked(p, {j}), jobs' = [jobs EXCEPT ![j] = r],
           txn' = [txn EXCEPT ![p] = NoTxn], now' = now
    PROVE  now' \in 0..MaxTime /\ JobsOK' /\ TxnOK' /\ HeldDisjoint'
<1>1. \A q \in Procs \ {p} : j \notin txn[q].held
  BY DEF Unlocked
<1>2. jobs' = [k \in Jobs |-> jobs'[k]] /\ \A k \in Jobs : RowOK(jobs'[k])
  BY DEF IInv, JobsOK
<1>3. \A q \in Procs \ {p} : \A k \in txn[q].held : jobs'[k] = jobs[k]
  BY <1>1, LockedByOne DEF IInv, JobsOK
<1> QED  BY <1>2, <1>3, CommitStep

LEMMA CancelKeepsInv ==
    ASSUME IInv, NEW c \in Clients, NEW j \in Jobs, Cancel(c, j)
    PROVE  IInv'
<1>1. c \in Procs /\ c \notin Workers /\ RowOK(Cancelled(jobs[j]))
  BY ActorsAssumption, CancelledOK DEF Procs, IInv, JobsOK
<1>2. txn' = [txn EXCEPT ![c] = NoTxn] /\ now' = now
  BY <1>1 DEF Cancel, IInv, TxnOK
<1>3. jobs' = [jobs EXCEPT ![j] = Cancelled(jobs[j])] /\ Unlocked(c, {j})
  BY DEF Cancel
<1>4. now' \in 0..MaxTime /\ JobsOK' /\ TxnOK' /\ HeldDisjoint'
  BY <1>1, <1>2, <1>3, RowWrite
<1>5. WorkerOK'
  BY DEF Cancel, WorkerOK, IInv
<1> QED  BY <1>4, <1>5 DEF IInv

\* The step of a worker that settles its job or finds that it may not.
LEMMA SettleStep ==
    ASSUME IInv, NEW w \in Workers, worker[w].phase \in {"solving", "failing"},
           txn[w] = NoTxn, UNCHANGED <<now, txn>>, Unlocked(w, {worker[w].job}),
           NEW status \in SolverStatuses \cup {"FAILED"},
           \/ UNCHANGED jobs
           \/ /\ ValidLease(jobs[worker[w].job], worker[w].token)
              /\ jobs' = [jobs EXCEPT ![worker[w].job] = Settled(@, status, worker[w].token)]
    PROVE  now' \in 0..MaxTime /\ JobsOK' /\ TxnOK' /\ HeldDisjoint'
<1> DEFINE j == worker[w].job
           token == worker[w].token
<1>1. w \in Procs /\ j \in Jobs /\ token \in 1..MaxAttempts \cup {Null}
  BY DEF Procs, IInv, WorkerOK, WorkerType
<1>2. txn' = [txn EXCEPT ![w] = NoTxn] /\ now' = now
  BY <1>1 DEF IInv, TxnOK
<1>3. CASE UNCHANGED jobs
  BY <1>1, <1>2, <1>3, AbortKeepsTables
<1>4. CASE /\ ValidLease(jobs[j], token)
           /\ jobs' = [jobs EXCEPT ![j] = Settled(jobs[j], status, token)]
  <2>1. RowOK(Settled(jobs[j], status, token))
    BY <1>1, <1>4, SettledOK DEF IInv, JobsOK
  <2> QED  BY <1>1, <1>2, <1>4, <2>1, RowWrite
<1> QED  BY <1>3, <1>4

LEMMA ReportKeepsInv ==
    ASSUME IInv, NEW w \in Workers, NEW status \in SolverStatuses \cup {"FAILED"},
           Report(w, status)
    PROVE  IInv'
<1>1. now' \in 0..MaxTime /\ JobsOK' /\ TxnOK' /\ HeldDisjoint'
  BY SettleStep DEF Report
<1>2. WorkerOK'
  BY NoTxnType DEF Report, WorkerOK, WorkerType, IdleWorker, IInv
<1> QED  BY <1>1, <1>2 DEF IInv

LEMMA ReportErrorKeepsInv ==
    ASSUME IInv, NEW w \in Workers, ReportError(w)
    PROVE  IInv'
<1>1. txn[w] = NoTxn
  BY DEF ReportError, IInv, WorkerOK
<1>2. now' \in 0..MaxTime /\ JobsOK' /\ TxnOK' /\ HeldDisjoint'
  BY <1>1, SettleStep DEF ReportError
<1>3. WorkerOK'
  BY <1>1, NoTxnType DEF ReportError, WorkerOK, WorkerType, IdleWorker, IInv
<1> QED  BY <1>2, <1>3 DEF IInv

LEMMA HeartbeatKeepsInv ==
    ASSUME IInv, NEW w \in Workers, Heartbeat(w)
    PROVE  IInv'
<1> DEFINE j == worker[w].job
           t == txn[w].t
<1>1. w \in Procs /\ t \in 0..MaxTime
  BY BoundsAssumption DEF Procs, Heartbeat, IInv, TxnOK
<1>2. now' \in 0..MaxTime /\ JobsOK' /\ TxnOK' /\ HeldDisjoint'
  <2>1. CASE UNCHANGED jobs
    BY <1>1, <2>1, AbortKeepsTables DEF Heartbeat
  <2>2. CASE j \in Jobs /\ ValidLease(jobs[j], worker[w].token) /\ jobs' # jobs
    <3>1. jobs' = [jobs EXCEPT ![j] = [jobs[j] EXCEPT !.leasedUntil = t + LeaseTime, !.updated = t]]
      BY <2>2 DEF Heartbeat, IInv, JobsOK
    <3>2. RowOK([jobs[j] EXCEPT !.leasedUntil = t + LeaseTime, !.updated = t])
      BY <1>1, <2>2, RenewedOK DEF ValidLease, IInv, JobsOK
    <3> QED  BY <1>1, <2>2, <3>1, <3>2, RowWrite DEF Heartbeat
  <2>3. j \notin Jobs => UNCHANGED jobs
    BY DEF Heartbeat, IInv, JobsOK
  <2> QED  BY <2>1, <2>2, <2>3 DEF Heartbeat
<1>3. WorkerOK'
  BY <1>1, NoTxnType DEF Heartbeat, WorkerOK, IInv, TxnOK, Procs
<1> QED  BY <1>2, <1>3 DEF IInv

LEMMA CrashKeepsInv ==
    ASSUME IInv, NEW w \in Workers, Crash(w)
    PROVE  IInv'
<1>1. w \in Procs
  BY DEF Procs
<1>2. now' \in 0..MaxTime /\ JobsOK' /\ TxnOK' /\ HeldDisjoint'
  BY <1>1, AbortKeepsTables DEF Crash
<1>3. WorkerOK'
  BY <1>1, NoTxnType DEF Crash, IdleWorker, WorkerOK, WorkerType, IInv, TxnOK, Procs
<1> QED  BY <1>2, <1>3 DEF IInv

\* Steps of a worker that touch neither the table nor a transaction.
LEMMA WorkerStep ==
    ASSUME IInv, NEW w \in Workers, SolverError(w) \/ Restart(w)
    PROVE  IInv'
<1>1. UNCHANGED <<now, jobs, txn>>
  BY DEF SolverError, Restart
<1>2. now' \in 0..MaxTime /\ JobsOK' /\ TxnOK' /\ HeldDisjoint'
  BY <1>1 DEF IInv, JobsOK, TxnOK, HeldDisjoint, Claimable
<1>3. WorkerOK'
  BY NoTxnType DEF SolverError, Restart, IdleWorker, WorkerOK, WorkerType, IInv
<1> QED  BY <1>2, <1>3 DEF IInv

LEMMA TickKeepsInv == ASSUME IInv, Tick PROVE IInv'
<1>1. now' \in 0..MaxTime
  BY BoundsAssumption DEF Tick, IInv
<1>2. JobsOK' /\ HeldDisjoint' /\ WorkerOK'
  BY DEF Tick, IInv, JobsOK, HeldDisjoint, WorkerOK
<1>3. \A t : t \in 0..now => t \in 0..now'
  BY DEF Tick, IInv
<1>4. TxnOK'
  BY <1>3 DEF Tick, IInv, TxnOK, Claimable
<1> QED  BY <1>1, <1>2, <1>4 DEF IInv

LEMMA ClientLockKeepsInv ==
    ASSUME IInv, NEW c \in Clients, LockCreate(c) \/ LockGet(c)
    PROVE  IInv'
<1> DEFINE t == txn[c].t
<1>1. c \in Procs /\ txn[c] \in TxnType /\ txn[c].pick = NoJob
      /\ txn \in [Procs -> TxnType]
  BY DEF Procs, LockCreate, LockGet, Locking, IInv, TxnOK
<1>2. \A j \in SweepRows(t) \cup PruneRows(t) : j \in Jobs /\ jobs[j].status # "NONE"
  BY DEF SweepRows, PruneRows, Sweepable, LeaseExpired, Prunable, TerminalStatuses, SolverStatuses
<1>3. CASE LockCreate(c)
  <2> DEFINE held == SweepRows(t) \cup PruneRows(t)
             full == Cardinality(ActiveIn(Maintained(jobs, t))) >= ActiveLimit
  <2>1. txn' = [txn EXCEPT ![c].locked = TRUE, ![c].held = held,
                           ![c].pick = NoJob, ![c].full = full]
    BY <1>1, <1>3 DEF LockCreate, TxnType
  <2>2. txn[c].op # "none" /\ Unlocked(c, held) /\ held \in SUBSET Jobs /\ full \in BOOLEAN
        /\ UNCHANGED <<now, jobs, worker>>
    BY <1>2, <1>3 DEF LockCreate, Locking
  <2> HIDE DEF held, full
  <2>3. \A j \in held : jobs[j].status # "NONE"
    BY <1>2 DEF held
  <2> QED  BY <1>1, <2>1, <2>2, <2>3, LockKeepsInv
<1>4. CASE LockGet(c)
  <2> DEFINE held == SweepRows(t)
             full == txn[c].full
  <2>1. txn' = [txn EXCEPT ![c].locked = TRUE, ![c].held = held,
                           ![c].pick = NoJob, ![c].full = full]
    BY <1>1, <1>4 DEF LockGet, TxnType
  <2>2. txn[c].op # "none" /\ Unlocked(c, held) /\ held \in SUBSET Jobs /\ full \in BOOLEAN
        /\ UNCHANGED <<now, jobs, worker>>
    BY <1>1, <1>2, <1>4 DEF LockGet, Locking, TxnType
  <2> HIDE DEF held, full
  <2>3. \A j \in held : jobs[j].status # "NONE"
    BY <1>2 DEF held
  <2> QED  BY <1>1, <2>1, <2>2, <2>3, LockKeepsInv
<1> QED  BY <1>3, <1>4

LEMMA LockClaimKeepsInv ==
    ASSUME IInv, NEW w \in Workers, LockClaim(w)
    PROVE  IInv'
<1> DEFINE t == txn[w].t
           free == {j \in Jobs : Unlocked(w, {j}) /\ Claimable(Swept(jobs[j], t), t)}
<1>1. w \in Procs /\ txn[w] \in TxnType /\ txn \in [Procs -> TxnType] /\ t \in 0..MaxTime
      /\ txn[w].op = "claim"
  BY BoundsAssumption DEF Procs, LockClaim, Locking, IInv, TxnOK
<1>2. \A j \in free : j \in Jobs /\ Unlocked(w, {j}) /\ Claimable(jobs[j], t)
  BY <1>1, SweptOK DEF IInv, JobsOK
<1>3. PICK pick \in IF free = {} THEN {NoJob} ELSE Oldest(free) :
          txn' = [txn EXCEPT ![w].locked = TRUE,
                             ![w].held = (SweepRows(t) \cup {pick}) \ {NoJob},
                             ![w].pick = pick]
  BY DEF LockClaim
<1>4. pick = NoJob \/ pick \in free
  BY <1>3 DEF Oldest
<1> HIDE DEF free
<1> DEFINE held == (SweepRows(t) \cup {pick}) \ {NoJob}
           full == txn[w].full
<1>5. txn' = [txn EXCEPT ![w].locked = TRUE, ![w].held = held,
                         ![w].pick = pick, ![w].full = full]
  BY <1>1, <1>3 DEF TxnType
<1>6. \A j \in held : j \in Jobs /\ jobs[j].status # "NONE"
  BY <1>2, <1>4 DEF SweepRows, Sweepable, LeaseExpired, Claimable
<1>7. Unlocked(w, held)
  BY <1>2, <1>4 DEF Unlocked, LockClaim
<1>8. pick \in held \cup {NoJob} /\ full \in BOOLEAN /\ held \in SUBSET Jobs
      /\ (pick # NoJob => Claimable(jobs[pick], t))
  BY <1>1, <1>2, <1>4, <1>6 DEF TxnType
<1>9. UNCHANGED <<now, jobs, worker>>
  BY DEF LockClaim
<1> HIDE DEF held, full
<1> QED  BY <1>1, <1>5, <1>6, <1>7, <1>8, <1>9, LockKeepsInv

LEMMA NextKeepsInv == IInv /\ [Next]_vars => IInv'
<1> SUFFICES ASSUME IInv, [Next]_vars PROVE IInv'
  OBVIOUS
<1>1. CASE Tick
  BY <1>1, TickKeepsInv
<1>2. ASSUME NEW c \in Clients, ClientNext(c) PROVE IInv'
  <2>1. c \in Procs /\ c \notin Workers
    BY ActorsAssumption DEF Procs
  <2>2. CASE BeginCreate(c)
    BY <2>1, <2>2, BeginKeepsInv DEF BeginCreate
  <2>3. CASE BeginGet(c)
    BY <2>1, <2>3, BeginKeepsInv DEF BeginGet
  <2>4. CASE LockCreate(c) \/ LockGet(c)
    BY <2>4, ClientLockKeepsInv
  <2>5. CASE CommitCreate(c)
    BY <2>5, CommitCreateKeepsInv
  <2>6. CASE CommitGet(c)
    BY <2>6, CommitGetKeepsInv
  <2>7. CASE AbortRequest(c)
    <3>1. now' \in 0..MaxTime /\ JobsOK' /\ TxnOK' /\ HeldDisjoint'
      BY <2>1, <2>7, AbortKeepsTables DEF AbortRequest
    <3>2. WorkerOK'
      BY <2>1, <2>7 DEF AbortRequest, WorkerOK, IInv, TxnOK, Procs
    <3> QED  BY <3>1, <3>2 DEF IInv
  <2>8. CASE \E j \in Jobs : Cancel(c, j)
    BY <2>8, CancelKeepsInv
  <2> QED  BY <1>2, <2>2, <2>3, <2>4, <2>5, <2>6, <2>7, <2>8 DEF ClientNext
<1>3. ASSUME NEW w \in Workers, WorkerNext(w) PROVE IInv'
  <2>1. w \in Procs
    BY DEF Procs
  <2>2. CASE BeginClaim(w)
    BY <2>1, <2>2, BeginKeepsInv DEF BeginClaim
  <2>3. CASE BeginHeartbeat(w)
    BY <2>1, <2>3, BeginKeepsInv DEF BeginHeartbeat
  <2>4. CASE LockClaim(w)
    BY <2>4, LockClaimKeepsInv
  <2>5. CASE CommitClaim(w)
    BY <2>5, CommitClaimKeepsInv
  <2>6. CASE \E status \in SolverStatuses \cup {"FAILED"} : Report(w, status)
    BY <2>6, ReportKeepsInv
  <2>7. CASE ReportError(w)
    BY <2>7, ReportErrorKeepsInv
  <2>8. CASE Heartbeat(w)
    BY <2>8, HeartbeatKeepsInv
  <2>9. CASE Crash(w)
    BY <2>9, CrashKeepsInv
  <2>10. CASE SolverError(w) \/ Restart(w)
    BY <2>10, WorkerStep
  <2> QED
    BY <1>3, <2>2, <2>3, <2>4, <2>5, <2>6, <2>7, <2>8, <2>9, <2>10 DEF WorkerNext
<1>4. CASE UNCHANGED vars
  BY <1>4 DEF vars, IInv, JobsOK, TxnOK, HeldDisjoint, WorkerOK, Claimable
<1> QED  BY <1>1, <1>2, <1>3, <1>4 DEF Next

\* The invariant holds in every state of every behaviour.
THEOREM Invariance == Spec => []IInv
<1> QED  BY InitInv, NextKeepsInv, PTL DEF Spec

-----------------------------------------------------------------------------
(* The theorems on states. *)

\* Every variable keeps its type; in particular no job is attempted more
\* often than MaxAttempts allows.
THEOREM TypeCorrect == Spec => []TypeOK
<1>1. IInv => TypeOK
  BY DEF IInv, JobsOK, TxnOK, TxnType, WorkerOK, WorkerType, TypeOK
<1> QED  BY <1>1, Invariance, PTL

\* A lease exists exactly while its job runs, whatever the sweeps, the
\* workers and the crashes do.
THEOREM LeaseCorrect == Spec => []LeaseIffRunning
<1>1. IInv => LeaseIffRunning
  BY DEF IInv, JobsOK, RowOK, LeaseIffRunning
<1> QED  BY <1>1, Invariance, PTL

\* No answer, failure or timeout ever beats a cancellation that found the
\* job running.
THEOREM CancelCorrect == Spec => []CancelWins
<1>1. IInv => CancelWins
  BY DEF IInv, JobsOK, RowOK, CancelWins
<1> QED  BY <1>1, Invariance, PTL

\* The result of a worker that lost its lease is never stored.
THEOREM ResultCorrect == Spec => []ResultFromLastClaim
<1>1. IInv => ResultFromLastClaim
  BY DEF IInv, JobsOK, RowOK, ResultFromLastClaim
<1> QED  BY <1>1, Invariance, PTL

\* Lease, cancellation and result of every row agree.
THEOREM RowsCorrect == Spec => []RowsConsistent
<1>1. LeaseIffRunning /\ CancelWins /\ ResultFromLastClaim => RowsConsistent
  BY DEF RowsConsistent
<1> QED  BY <1>1, LeaseCorrect, CancelCorrect, ResultCorrect, PTL

-----------------------------------------------------------------------------
(* What may happen to a row.  RowChange lists the ways in which any step of *)
(* any process changes a row, with the clock values the step acted on; the  *)
(* action properties follow row by row.                                     *)

\* The sweep closed row r, with a clock value of the past.
SweepChange(r, s) ==
    \E t \in 0..now : Sweepable(r, t) /\ s = Swept(r, t)

ClaimChange(r, s) ==
    \E t \in 0..now : Claimable(r, t) /\ s = Claimed(r, t)

PruneChange(r, s) ==
    \E t \in 0..now : Prunable(r, t) /\ s = NoRow("DELETED")

AdmitChange(r, s) ==
    \E t \in 0..now : r.status = "NONE" /\ s = NewRow(t)

\* A worker that holds the lease settled the job, and left it.
SettleChange(r, s, j) ==
    \E w \in Workers, status \in SolverStatuses \cup {"FAILED"} :
        /\ Holds(w, j) /\ worker'[w] # worker[w]
        /\ s = Settled(r, status, worker[w].token)

RenewChange(r, s) ==
    \E t \in 0..now :
        r.status = "RUNNING" /\ s = [r EXCEPT !.leasedUntil = t + LeaseTime, !.updated = t]

RowChange(j) ==
    \/ jobs'[j] = jobs[j]
    \/ SweepChange(jobs[j], jobs'[j])
    \/ ClaimChange(jobs[j], jobs'[j])
    \/ PruneChange(jobs[j], jobs'[j])
    \/ AdmitChange(jobs[j], jobs'[j])
    \/ Exists(jobs[j]) /\ jobs'[j] = Cancelled(jobs[j])
    \/ SettleChange(jobs[j], jobs'[j], j)
    \/ RenewChange(jobs[j], jobs'[j])

LEMMA SweptByTxnChange ==
    ASSUME IInv, NEW p \in Procs, txn[p].op # "none", NEW j \in Jobs
    PROVE  SweptByTxn(p)[j] = jobs[j] \/ SweepChange(jobs[j], SweptByTxn(p)[j])
<1>1. txn[p].t \in 0..now
  BY DEF IInv, TxnOK
<1>2. SweptByTxn(p)[j] \in {jobs[j], Swept(jobs[j], txn[p].t)}
  BY DEF SweptByTxn
<1>3. ~Sweepable(jobs[j], txn[p].t) => Swept(jobs[j], txn[p].t) = jobs[j]
  BY DEF Swept
<1> QED  BY <1>1, <1>2, <1>3 DEF SweepChange

LEMMA CommitCreateChange ==
    ASSUME IInv, NEW c \in Clients, CommitCreate(c), NEW j \in Jobs
    PROVE  RowChange(j)
<1> DEFINE t == txn[c].t
           maintained == [k \in Jobs |->
               IF k \notin txn[c].held THEN jobs[k] ELSE Maintained(jobs, t)[k]]
<1>1. t \in 0..now
  BY DEF Procs, CommitCreate, Committing, IInv, TxnOK
<1>2. maintained[j] \in {jobs[j], NoRow("DELETED"), Swept(jobs[j], t)}
      /\ (maintained[j] = jobs[j] \/ maintained[j] = Swept(jobs[j], t) \/ Prunable(jobs[j], t))
  BY DEF Maintained
<1>3. ~Sweepable(jobs[j], t) => Swept(jobs[j], t) = jobs[j]
  BY DEF Swept
<1>4. \/ maintained[j] = jobs[j]
      \/ SweepChange(jobs[j], maintained[j])
      \/ PruneChange(jobs[j], maintained[j])
  BY <1>1, <1>2, <1>3 DEF SweepChange, PruneChange
<1>5. jobs'[j] = maintained[j] \/ (jobs[j].status = "NONE" /\ jobs'[j] = NewRow(t))
  <2>1. CASE jobs' = maintained
    BY <2>1
  <2>2. CASE \E k \in Unused : jobs' = [maintained EXCEPT ![k] = NewRow(t)]
    BY <2>2 DEF Unused
  <2> QED  BY <2>1, <2>2 DEF CommitCreate
<1> QED  BY <1>1, <1>4, <1>5 DEF RowChange, AdmitChange

LEMMA CommitClaimChange ==
    ASSUME IInv, NEW w \in Workers, CommitClaim(w), NEW j \in Jobs
    PROVE  RowChange(j)
<1>1. w \in Procs /\ txn[w].t \in 0..now /\ txn[w].op # "none"
  BY DEF Procs, CommitClaim, Committing, IInv, TxnOK
<1>2. CASE j = txn[w].pick
  <2>1. Claimable(jobs[j], txn[w].t) /\ jobs'[j] = Claimed(jobs[j], txn[w].t)
    BY <1>1, <1>2, JobsAssumption DEF CommitClaim, IInv, TxnOK
  <2> QED  BY <1>1, <2>1 DEF RowChange, ClaimChange
<1>3. CASE j # txn[w].pick
  BY <1>1, <1>3, SweptByTxnChange DEF CommitClaim, RowChange
<1> QED  BY <1>2, <1>3

\* complete, fail and the fail of the except clause.
LEMMA SettleStepChange ==
    ASSUME IInv, NEW w \in Workers, worker[w].phase \in {"solving", "failing"},
           NEW status \in SolverStatuses \cup {"FAILED"},
           worker'[w] # worker[w], NEW j \in Jobs,
           \/ UNCHANGED jobs
           \/ /\ ValidLease(jobs[worker[w].job], worker[w].token)
              /\ jobs' = [jobs EXCEPT ![worker[w].job] = Settled(@, status, worker[w].token)]
    PROVE  RowChange(j)
<1> DEFINE k == worker[w].job
<1>1. CASE j # k \/ UNCHANGED jobs
  BY <1>1 DEF RowChange, IInv, JobsOK
<1>2. CASE j = k /\ ValidLease(jobs[k], worker[w].token)
           /\ jobs'[k] = Settled(jobs[k], status, worker[w].token)
  <2>1. Holds(w, j)
    BY <1>2 DEF ValidLease, Holds
  <2> QED  BY <1>2, <2>1 DEF RowChange, SettleChange
<1>3. UNCHANGED jobs \/ (ValidLease(jobs[k], worker[w].token)
                          /\ (j = k => jobs'[k] = Settled(jobs[k], status, worker[w].token)))
  BY DEF IInv, JobsOK
<1> QED  BY <1>1, <1>2, <1>3

LEMMA StepChangesRows == IInv /\ [Next]_vars => \A j \in Jobs : RowChange(j)
<1> SUFFICES ASSUME IInv, [Next]_vars, NEW j \in Jobs PROVE RowChange(j)
  OBVIOUS
<1>1. CASE UNCHANGED jobs
  BY <1>1 DEF RowChange
<1>2. ASSUME NEW c \in Clients, ClientNext(c), jobs' # jobs PROVE RowChange(j)
  <2>1. CASE CommitCreate(c)
    BY <2>1, CommitCreateChange
  <2>2. CASE CommitGet(c)
    <3>1. c \in Procs /\ txn[c].op # "none" /\ jobs'[j] = SweptByTxn(c)[j]
      BY <2>2 DEF Procs, CommitGet, Committing
    <3> QED  BY <3>1, SweptByTxnChange DEF RowChange
  <2>3. CASE \E k \in Jobs : Cancel(c, k)
    BY <2>3 DEF Cancel, RowChange, IInv, JobsOK
  <2> QED
    BY <1>2, <2>1, <2>2, <2>3
       DEF ClientNext, BeginCreate, LockCreate, BeginGet, LockGet, AbortRequest
<1>3. ASSUME NEW w \in Workers, WorkerNext(w), jobs' # jobs PROVE RowChange(j)
  <2>1. CASE CommitClaim(w)
    BY <2>1, CommitClaimChange
  <2>2. ASSUME NEW status \in SolverStatuses \cup {"FAILED"}, Report(w, status)
        PROVE  RowChange(j)
    <3>1. worker'[w] # worker[w]
      BY <2>2 DEF Report, IdleWorker, IInv, WorkerOK, WorkerType
    <3> QED  BY <2>2, <3>1, SettleStepChange DEF Report
  <2>3. CASE ReportError(w)
    <3>1. worker'[w] # worker[w]
      BY <2>3 DEF ReportError, IdleWorker, IInv, WorkerOK, WorkerType
    <3> QED  BY <2>3, <3>1, SettleStepChange DEF ReportError
  <2>4. CASE Heartbeat(w)
    <3>1. txn[w].t \in 0..now
      BY <2>4 DEF Procs, Heartbeat, IInv, TxnOK
    <3>2. worker[w].job = j /\ jobs'[j] # jobs[j] =>
              /\ jobs[j].status = "RUNNING"
              /\ jobs'[j] = [jobs[j] EXCEPT !.leasedUntil = txn[w].t + LeaseTime,
                                            !.updated = txn[w].t]
      BY <2>4 DEF Heartbeat, ValidLease, IInv, JobsOK
    <3>3. worker[w].job # j => jobs'[j] = jobs[j]
      BY <2>4 DEF Heartbeat, IInv, JobsOK
    <3> QED  BY <3>1, <3>2, <3>3 DEF RowChange, RenewChange
  <2> QED
    BY <1>3, <2>1, <2>2, <2>3, <2>4
       DEF WorkerNext, BeginClaim, LockClaim, SolverError, BeginHeartbeat, Crash, Restart
<1>4. jobs' # jobs => \/ \E c \in Clients : ClientNext(c)
                      \/ \E w \in Workers : WorkerNext(w)
  BY DEF Next, Tick, vars
<1> QED  BY <1>1, <1>2, <1>3, <1>4

LEMMA RowTimes ==
    ASSUME IInv, NEW j \in Jobs
    PROVE  now \in Nat /\ jobs[j].leasedUntil \in Int /\ jobs[j].updated \in Int
<1>1. jobs[j] \in Rows
  BY DEF IInv, JobsOK
<1>2. jobs[j].leasedUntil \in 0..MaxTime + LeaseTime \cup {Null}
      /\ jobs[j].updated \in 0..MaxTime \cup {Null}
  BY <1>1 DEF Rows
<1> QED  BY <1>2, BoundsAssumption, TimesAssumption DEF IInv

-----------------------------------------------------------------------------

\* An answer a client has seen is never revised, and a deleted job stays
\* deleted.
THEOREM FinalityCorrect == Spec => TerminalIsFinal
<1>1. IInv /\ [Next]_vars =>
        [\A j \in Jobs :
          /\ jobs[j].status \in TerminalStatuses =>
                \/ jobs'[j].status = jobs[j].status /\ jobs'[j].result = jobs[j].result
                \/ jobs'[j].status = "DELETED"
          /\ jobs[j].status = "DELETED" => jobs'[j] = jobs[j]]_vars
  <2> SUFFICES ASSUME IInv, [Next]_vars, NEW j \in Jobs
               PROVE  /\ jobs[j].status \in TerminalStatuses =>
                            \/ jobs'[j].status = jobs[j].status /\ jobs'[j].result = jobs[j].result
                            \/ jobs'[j].status = "DELETED"
                      /\ jobs[j].status = "DELETED" => jobs'[j] = jobs[j]
    OBVIOUS
  <2>1. RowChange(j) /\ jobs[j] \in Rows
    BY StepChangesRows DEF IInv, JobsOK
  <2>2. CASE jobs[j].status \in TerminalStatuses \cup {"DELETED"}
    <3>1. \/ jobs'[j] = jobs[j]
          \/ PruneChange(jobs[j], jobs'[j])
          \/ Exists(jobs[j]) /\ jobs'[j] = Cancelled(jobs[j])
      BY <2>1, <2>2
         DEF RowChange, SweepChange, Sweepable, LeaseExpired, ClaimChange, Claimable,
             AdmitChange, SettleChange, Holds, RenewChange, TerminalStatuses, SolverStatuses
    <3>2. PruneChange(jobs[j], jobs'[j]) =>
              jobs[j].status # "DELETED" /\ jobs'[j].status = "DELETED"
      BY DEF PruneChange, Prunable, NoRow, TerminalStatuses, SolverStatuses
    <3>3. Exists(jobs[j]) /\ jobs'[j] = Cancelled(jobs[j]) =>
              /\ jobs[j].status # "DELETED"
              /\ jobs'[j].status = jobs[j].status /\ jobs'[j].result = jobs[j].result
      BY <2>1, <2>2 DEF Cancelled, Exists, Rows, TerminalStatuses, SolverStatuses
    <3> QED  BY <3>1, <3>2, <3>3
  <2> QED  BY <2>2
<1> QED  BY <1>1, Invariance, PTL DEF Spec, TerminalIsFinal

\* However late a transaction acts on the clock value it has read, the prune
\* takes no unfinished job and none that was touched within the retention.
THEOREM PruneCorrect == Spec => PrunedOnlyWhenOld
<1>1. ASSUME IInv, [Next]_vars, NEW j \in Jobs, Exists(jobs[j]), ~Exists(jobs'[j])
      PROVE  jobs[j].status \in TerminalStatuses /\ now - jobs[j].updated > Retention
  <2>1. RowChange(j) /\ jobs[j] \in Rows /\ now \in 0..MaxTime
    BY <1>1, StepChangesRows DEF IInv, JobsOK
  <2>2. ASSUME NEW t \in 0..now, Sweepable(jobs[j], t), jobs'[j] = Swept(jobs[j], t)
        PROVE  FALSE
    <3>1. t \in 0..MaxTime /\ RowOK(jobs[j])
      BY <1>1, <2>1, <2>2, BoundsAssumption DEF IInv, JobsOK
    <3>2. Swept(jobs[j], t) = jobs[j] \/ Swept(jobs[j], t).status \in TerminalStatuses
      BY <3>1, SweptOK
    <3> QED  BY <1>1, <2>2, <3>2 DEF Exists, TerminalStatuses, SolverStatuses
  <2>3. ~ClaimChange(jobs[j], jobs'[j]) /\ ~RenewChange(jobs[j], jobs'[j])
    BY <1>1, <2>1 DEF ClaimChange, RenewChange, Claimed, Exists, Rows
  <2>4. ~AdmitChange(jobs[j], jobs'[j]) /\ jobs'[j] # Cancelled(jobs[j])
    BY <1>1, <2>1 DEF AdmitChange, Cancelled, Exists, Rows
  <2>5. ~SettleChange(jobs[j], jobs'[j], j)
    BY <1>1, <2>1 DEF SettleChange, Settled, Closed, Exists, Rows, SolverStatuses
  <2>6. PruneChange(jobs[j], jobs'[j])
    BY <1>1, <2>1, <2>2, <2>3, <2>4, <2>5 DEF RowChange, SweepChange
  <2>7. PICK t \in 0..now :
            jobs[j].status \in TerminalStatuses /\ jobs[j].updated < t - Retention
    BY <2>6 DEF PruneChange, Prunable
  <2> QED  BY <1>1, <2>7, RowTimes, TimesAssumption
<1>2. IInv /\ [Next]_vars =>
        [\A j \in Jobs :
          Exists(jobs[j]) /\ ~Exists(jobs'[j]) =>
              /\ jobs[j].status \in TerminalStatuses
              /\ now - jobs[j].updated > Retention]_vars
  BY <1>1
<1> QED  BY <1>2, Invariance, PTL DEF Spec, PrunedOnlyWhenOld

\* While its lease has not run out, a job is out of the reach of every sweep
\* and claim: only its holder ends or hands on the lease.
THEOREM LeaseRespected == Spec => ValidLeaseRespected
<1>1. ASSUME IInv, [Next]_vars, NEW j \in Jobs,
             jobs[j].leasedUntil > now, jobs'[j].token # jobs[j].token
      PROVE  \E w \in Workers : Holds(w, j) /\ worker'[w] # worker[w]
  <2>1. RowChange(j) /\ RowOK(jobs[j]) /\ jobs[j] \in Rows /\ now \in 0..MaxTime
    BY <1>1, StepChangesRows DEF IInv, JobsOK
  <2>2. jobs[j].status = "RUNNING"
    BY <1>1, <2>1, RowTimes DEF RowOK
  <2>3. ~SweepChange(jobs[j], jobs'[j]) /\ ~ClaimChange(jobs[j], jobs'[j])
    BY <1>1, <2>2, RowTimes DEF SweepChange, Sweepable, LeaseExpired, ClaimChange, Claimable
  <2>4. ~PruneChange(jobs[j], jobs'[j]) /\ ~AdmitChange(jobs[j], jobs'[j])
    BY <2>2 DEF PruneChange, Prunable, AdmitChange, TerminalStatuses, SolverStatuses
  <2>5. jobs'[j] # Cancelled(jobs[j]) /\ ~RenewChange(jobs[j], jobs'[j])
    BY <1>1, <2>1 DEF Cancelled, RenewChange, Rows
  <2>6. SettleChange(jobs[j], jobs'[j], j)
    BY <1>1, <2>1, <2>3, <2>4, <2>5 DEF RowChange
  <2> QED  BY <2>6 DEF SettleChange
<1>2. IInv /\ [Next]_vars =>
        [\A j \in Jobs :
          jobs[j].leasedUntil > now /\ jobs'[j].token # jobs[j].token =>
              \E w \in Workers : Holds(w, j) /\ worker'[w] # worker[w]]_vars
  BY <1>1
<1> QED  BY <1>2, Invariance, PTL DEF Spec, ValidLeaseRespected

\* A finished job keeps its outcome, and its row as long as the retention.
THEOREM OutcomesCorrect == Spec => OutcomesKept
<1> QED  BY FinalityCorrect, PruneCorrect, PTL DEF OutcomesKept

-----------------------------------------------------------------------------
(* The admission cap.  create counts the active rows and inserts later, in  *)
(* the same transaction; between the two other processes go on.  The        *)
(* invariant: what a create has counted stays an upper bound until its      *)
(* commit, because only a create inserts and the advisory lock lets one     *)
(* create at a time get past its count.                                     *)

\* The table that the create of c will leave before its insert.
MaintainedBy(c) ==
    [j \in Jobs |-> IF j \notin txn[c].held THEN jobs[j] ELSE Maintained(jobs, txn[c].t)[j]]

CreateAlone ==
    \A c, d \in Clients : Committing(c, "create") /\ Committing(d, "create") => c = d

CountHolds ==
    \A c \in Clients :
        Committing(c, "create") /\ ~txn[c].full =>
            Cardinality(ActiveIn(MaintainedBy(c))) < ActiveLimit

CapInv == IInv /\ ActiveCapped /\ CreateAlone /\ CountHolds

LEMMA ActiveFinite ==
    ASSUME NEW rows
    PROVE  IsFiniteSet(ActiveIn(rows))
  BY JobsAssumption, FS_Subset DEF ActiveIn

LEMMA FewerActive ==
    ASSUME NEW rows, NEW later, ActiveIn(later) \subseteq ActiveIn(rows)
    PROVE  Cardinality(ActiveIn(later)) <= Cardinality(ActiveIn(rows))
  BY ActiveFinite, FS_Subset

LEMMA ActiveCount ==
    ASSUME NEW rows
    PROVE  Cardinality(ActiveIn(rows)) \in Nat
  BY ActiveFinite, FS_CardinalityType

\* Nothing but an insert makes a row active.
LEMMA OnlyInsertActivates ==
    ASSUME IInv, NEW j \in Jobs, RowChange(j), ~AdmitChange(jobs[j], jobs'[j]),
           jobs'[j].status \in ActiveStatuses
    PROVE  jobs[j].status \in ActiveStatuses
<1>1. jobs[j] \in Rows /\ RowOK(jobs[j]) /\ now \in 0..MaxTime
  BY DEF IInv, JobsOK
<1>2. CASE SweepChange(jobs[j], jobs'[j])
  BY <1>2 DEF SweepChange, Sweepable, LeaseExpired, ActiveStatuses
<1>3. CASE ClaimChange(jobs[j], jobs'[j])
  BY <1>3 DEF ClaimChange, Claimable, ActiveStatuses
<1>4. ~PruneChange(jobs[j], jobs'[j])
  BY DEF PruneChange, NoRow, ActiveStatuses
<1>5. CASE jobs'[j] = Cancelled(jobs[j])
  BY <1>1, <1>5 DEF Cancelled, Rows, ActiveStatuses
<1>6. CASE SettleChange(jobs[j], jobs'[j], j)
  BY <1>6 DEF SettleChange, Holds, ActiveStatuses
<1>7. CASE RenewChange(jobs[j], jobs'[j])
  BY <1>7 DEF RenewChange, ActiveStatuses
<1> QED  BY <1>2, <1>3, <1>4, <1>5, <1>6, <1>7 DEF RowChange

\* An insert is the commit of a create that counted a free place.
LEMMA InsertIsCreate ==
    ASSUME IInv, [Next]_vars, NEW j \in Jobs, AdmitChange(jobs[j], jobs'[j])
    PROVE  \E c \in Clients : CommitCreate(c)
<1>1. jobs[j].status = "NONE" /\ jobs'[j].status = "QUEUED" /\ jobs'[j] # jobs[j]
  BY DEF AdmitChange, NewRow, NoRow
<1>2. ASSUME NEW w \in Workers, WorkerNext(w) PROVE FALSE
  <2>1. w \in Procs
    BY DEF Procs
  <2>2. ~CommitClaim(w)
    <3>1. SweptByTxn(w)[j] = jobs[j]
      BY <1>1 DEF SweptByTxn, Swept, Sweepable, LeaseExpired
    <3>2. CommitClaim(w) => j # txn[w].pick
      BY <1>1, <2>1, JobsAssumption DEF CommitClaim, Committing, IInv, TxnOK, Claimable
    <3> QED  BY <1>1, <3>1, <3>2 DEF CommitClaim
  <2>3. ASSUME NEW status \in SolverStatuses \cup {"FAILED"} PROVE ~Report(w, status)
    BY <1>1 DEF Report, ValidLease, IInv, JobsOK
  <2>4. ~ReportError(w) /\ ~Heartbeat(w)
    BY <1>1 DEF ReportError, Heartbeat, ValidLease, IInv, JobsOK
  <2> QED
    BY <1>1, <1>2, <2>2, <2>3, <2>4
       DEF WorkerNext, BeginClaim, LockClaim, SolverError, BeginHeartbeat, Crash, Restart
<1>3. ASSUME NEW c \in Clients, ClientNext(c), ~CommitCreate(c) PROVE FALSE
  <2>1. ~CommitGet(c)
    BY <1>1 DEF CommitGet, SweptByTxn, Swept, Sweepable, LeaseExpired
  <2>2. ASSUME NEW k \in Jobs PROVE ~Cancel(c, k)
    BY <1>1 DEF Cancel, Exists, IInv, JobsOK
  <2> QED
    BY <1>1, <1>3, <2>1, <2>2
       DEF ClientNext, BeginCreate, LockCreate, BeginGet, LockGet, AbortRequest
<1> QED  BY <1>1, <1>2, <1>3 DEF Next, Tick, vars

\* A row stays as it was while a transaction that goes on holds its lock.
LEMMA HeldStable ==
    ASSUME IInv, [Next]_vars, NEW q \in Procs, txn'[q] = txn[q], txn[q] # NoTxn,
           NEW j \in txn[q].held
    PROVE  jobs'[j] = jobs[j]
<1>1. j \in Jobs /\ jobs[j].status # "NONE" /\ txn \in [Procs -> TxnType]
  BY DEF IInv, TxnOK, TxnType
<1>2. ASSUME NEW p \in Procs \ {q} PROVE j \notin txn[p].held
  BY <1>2, LockedByOne
<1>3. ASSUME NEW p \in Procs, txn'[p] # txn[p] \/ txn[p] = NoTxn PROVE p \in Procs \ {q}
  BY <1>3
<1>4. ASSUME NEW p \in Procs \ {q}, NEW k, Unlocked(p, {k}) PROVE j # k
  BY <1>4 DEF Unlocked
<1>5. ASSUME NEW c \in Clients, ClientNext(c) PROVE jobs'[j] = jobs[j]
  <2>1. c \in Procs
    BY DEF Procs
  <2>2. CASE CommitCreate(c)
    <3>1. txn'[c] = NoTxn /\ c # q
      BY <1>1, <2>1, <2>2 DEF CommitCreate
    <3>2. j \notin txn[c].held
      BY <1>2, <2>1, <3>1
    <3> QED  BY <1>1, <2>2, <3>2 DEF CommitCreate, Unused
  <2>3. CASE CommitGet(c)
    <3>1. txn'[c] = NoTxn /\ c # q
      BY <1>1, <2>1, <2>3 DEF CommitGet
    <3> QED  BY <1>1, <1>2, <2>1, <2>3, <3>1 DEF CommitGet, SweptByTxn
  <2>4. ASSUME NEW k \in Jobs, Cancel(c, k) PROVE jobs'[j] = jobs[j]
    <3>1. c # q
      BY <2>4 DEF Cancel
    <3> QED  BY <1>1, <1>4, <2>1, <2>4, <3>1 DEF Cancel, IInv, JobsOK
  <2> QED
    BY <1>5, <2>2, <2>3, <2>4
       DEF ClientNext, BeginCreate, LockCreate, BeginGet, LockGet, AbortRequest
<1>6. ASSUME NEW w \in Workers, WorkerNext(w) PROVE jobs'[j] = jobs[j]
  <2>1. w \in Procs
    BY DEF Procs
  <2>2. CASE CommitClaim(w)
    <3>1. txn'[w] = NoTxn /\ w # q
      BY <1>1, <2>1, <2>2 DEF CommitClaim
    <3>2. j \notin txn[w].held /\ j # txn[w].pick
      BY <1>1, <1>2, <2>1, <3>1, JobsAssumption DEF IInv, TxnOK
    <3> QED  BY <1>1, <2>2, <3>2 DEF CommitClaim, SweptByTxn
  <2>3. ASSUME NEW status \in SolverStatuses \cup {"FAILED"}, Report(w, status)
        PROVE  jobs'[j] = jobs[j]
    <3>1. w # q
      BY <2>3 DEF Report
    <3> QED  BY <1>1, <1>4, <2>1, <2>3, <3>1 DEF Report, IInv, JobsOK
  <2>4. CASE ReportError(w)
    <3>1. w # q
      BY <2>4 DEF ReportError, IInv, WorkerOK
    <3> QED  BY <1>1, <1>4, <2>1, <2>4, <3>1 DEF ReportError, IInv, JobsOK
  <2>5. CASE Heartbeat(w)
    <3>1. txn'[w] = NoTxn /\ w # q
      BY <1>1, <2>1, <2>5 DEF Heartbeat
    <3> QED  BY <1>1, <1>4, <2>1, <2>5, <3>1 DEF Heartbeat, IInv, JobsOK
  <2> QED
    BY <1>6, <2>2, <2>3, <2>4, <2>5
       DEF WorkerNext, BeginClaim, LockClaim, SolverError, BeginHeartbeat, Crash, Restart
<1> QED  BY <1>5, <1>6 DEF Next, Tick, vars

\* The only step after which a create is past its count and was not before.
LEMMA CountIsLock ==
    ASSUME IInv, [Next]_vars, NEW c \in Clients, txn'[c] # txn[c], Committing(c, "create")'
    PROVE  LockCreate(c)
<1>1. c \in Procs /\ c \notin Workers /\ txn \in [Procs -> TxnType]
  BY ActorsAssumption DEF Procs, IInv, TxnOK
<1>2. txn'[c].op = "create" /\ txn'[c].locked
  BY DEF Committing
<1>3. ASSUME NEW d \in Clients, ClientNext(d) PROVE LockCreate(c)
  <2>1. d \in Procs
    BY DEF Procs
  <2>2. d = c
    BY <1>1, <1>3, <2>1
       DEF ClientNext, BeginCreate, LockCreate, CommitCreate, BeginGet, LockGet, CommitGet,
           AbortRequest, Cancel
  <2>3. ~BeginCreate(c) /\ ~BeginGet(c) /\ ~AbortRequest(c) /\ ~CommitCreate(c) /\ ~CommitGet(c)
    <3>1. ~Begun("create").locked /\ ~Begun("get").locked /\ ~NoTxn.locked
      BY DEF Begun, NoTxn
    <3>2. txn'[c] \notin {Begun("create"), Begun("get"), NoTxn}
      BY <1>2, <3>1
    <3> QED
      BY <1>1, <3>2 DEF BeginCreate, BeginGet, AbortRequest, CommitCreate, CommitGet
  <2>4. ~LockGet(c)
    BY <1>1, <1>2 DEF LockGet, Locking, TxnType
  <2>5. \A k \in Jobs : ~Cancel(c, k)
    BY DEF Cancel
  <2> QED  BY <1>3, <2>2, <2>3, <2>4, <2>5 DEF ClientNext
<1>4. ASSUME NEW w \in Workers, WorkerNext(w) PROVE FALSE
  BY <1>1, <1>4
     DEF WorkerNext, BeginClaim, LockClaim, CommitClaim, Report, SolverError, ReportError,
         BeginHeartbeat, Heartbeat, Crash, Restart
<1> QED  BY <1>3, <1>4 DEF Next, Tick, vars

-----------------------------------------------------------------------------

LEMMA CapInit == Init => CapInv
<1> SUFFICES ASSUME Init PROVE CapInv
  OBVIOUS
<1>1. IInv
  BY InitInv
<1>2. ActiveIn(jobs) = {}
  BY DEF Init, ActiveIn, NoRow, ActiveStatuses
<1>3. ActiveCapped
  BY <1>2, FS_EmptySet, LimitAssumption DEF ActiveCapped
<1>4. \A c \in Clients : ~Committing(c, "create")
  BY DEF Init, Committing, NoTxn, Procs
<1> QED  BY <1>1, <1>3, <1>4 DEF CapInv, CreateAlone, CountHolds

LEMMA AloneNext ==
    ASSUME CapInv, [Next]_vars
    PROVE  CreateAlone'
<1> SUFFICES ASSUME NEW c \in Clients, NEW d \in Clients,
                    Committing(c, "create")', Committing(d, "create")', c # d
             PROVE  FALSE
  BY DEF CreateAlone
<1>1. c \in Procs /\ d \in Procs /\ txn \in [Procs -> TxnType]
  BY DEF Procs, CapInv, IInv, TxnOK
<1>2. CASE txn'[c] = txn[c] /\ txn'[d] = txn[d]
  BY <1>2 DEF CapInv, CreateAlone, Committing
<1>3. CASE txn'[c] # txn[c]
  <2>1. LockCreate(c)
    BY <1>3, CountIsLock DEF CapInv
  <2> QED  BY <1>1, <2>1 DEF LockCreate, AdmissionLockFree, Committing
<1>4. CASE txn'[d] # txn[d]
  <2>1. LockCreate(d)
    BY <1>4, CountIsLock DEF CapInv
  <2> QED  BY <1>1, <2>1 DEF LockCreate, AdmissionLockFree, Committing
<1> QED  BY <1>2, <1>3, <1>4

\* The count that LockCreate makes is the one its commit relies on.
LEMMA CountByLock ==
    ASSUME IInv, NEW c \in Clients, LockCreate(c), ~txn'[c].full
    PROVE  Cardinality(ActiveIn(MaintainedBy(c)')) < ActiveLimit
<1> DEFINE t == txn[c].t
           rows == SweepRows(t) \cup PruneRows(t)
<1>1. c \in Procs /\ txn \in [Procs -> TxnType]
  BY DEF Procs, IInv, TxnOK
<1>2. txn'[c].held = rows /\ txn'[c].t = t /\ jobs' = jobs
      /\ txn'[c].full = (Cardinality(ActiveIn(Maintained(jobs, t))) >= ActiveLimit)
  BY <1>1 DEF LockCreate, TxnType
<1>3. ASSUME NEW j \in Jobs, j \notin rows PROVE Maintained(jobs, t)[j] = jobs[j]
  BY <1>3 DEF SweepRows, PruneRows, Maintained, Swept
<1>4. ASSUME NEW j \in Jobs PROVE MaintainedBy(c)'[j] = Maintained(jobs, t)[j]
  BY <1>2, <1>3 DEF MaintainedBy
<1>5. ActiveIn(MaintainedBy(c)') = ActiveIn(Maintained(jobs, t))
  BY <1>4 DEF ActiveIn
<1>6. Cardinality(ActiveIn(Maintained(jobs, t))) \in Nat
  BY ActiveCount
<1>7. ~(Cardinality(ActiveIn(Maintained(jobs, t))) >= ActiveLimit)
  BY <1>2
<1>8. Cardinality(ActiveIn(Maintained(jobs, t))) < ActiveLimit
  BY <1>6, <1>7, LimitAssumption
<1> QED  BY <1>5, <1>8

LEMMA CountNext ==
    ASSUME CapInv, [Next]_vars
    PROVE  CountHolds'
<1> SUFFICES ASSUME NEW c \in Clients, Committing(c, "create")', ~txn'[c].full
             PROVE  Cardinality(ActiveIn(MaintainedBy(c)')) < ActiveLimit
  BY DEF CountHolds, ActiveIn, MaintainedBy
<1>1. c \in Procs /\ txn \in [Procs -> TxnType] /\ IInv
  BY DEF Procs, CapInv, IInv, TxnOK
<1>2. CASE txn'[c] # txn[c]
  BY <1>1, <1>2, CountIsLock, CountByLock
<1>3. CASE txn'[c] = txn[c]
  <2>1. Committing(c, "create") /\ ~txn[c].full /\ txn[c] # NoTxn
    BY <1>3 DEF Committing, NoTxn
  <2>2. ASSUME NEW j \in txn[c].held PROVE jobs'[j] = jobs[j]
    BY <1>1, <1>3, <2>1, HeldStable
  <2>3. ASSUME NEW j \in Jobs PROVE ~AdmitChange(jobs[j], jobs'[j])
    <3>1. SUFFICES ASSUME NEW d \in Clients, CommitCreate(d) PROVE FALSE
      BY <1>1, InsertIsCreate
    <3>2. Committing(d, "create")
      BY <3>1 DEF CommitCreate
    <3>3. d = c
      BY <2>1, <3>2 DEF CapInv, CreateAlone
    <3>4. txn'[c] = NoTxn
      BY <1>1, <3>1, <3>3 DEF CommitCreate
    <3> QED  BY <1>3, <2>1, <3>4
  <2>4. ActiveIn(MaintainedBy(c)') \subseteq ActiveIn(MaintainedBy(c))
    <3> SUFFICES ASSUME NEW j \in Jobs, MaintainedBy(c)'[j].status \in ActiveStatuses
                 PROVE  MaintainedBy(c)[j].status \in ActiveStatuses
      BY DEF ActiveIn
    <3>1. CASE j \in txn[c].held
      <4>1. Maintained(jobs', txn[c].t)[j] = Maintained(jobs, txn[c].t)[j]
        BY <2>2, <3>1 DEF Maintained
      <4> QED  BY <1>3, <3>1, <4>1 DEF MaintainedBy
    <3>2. CASE j \notin txn[c].held
      <4>1. MaintainedBy(c)'[j] = jobs'[j] /\ MaintainedBy(c)[j] = jobs[j]
        BY <1>3, <3>2 DEF MaintainedBy
      <4>2. RowChange(j)
        BY <1>1, StepChangesRows
      <4> QED  BY <1>1, <2>3, <4>1, <4>2, OnlyInsertActivates
    <3> QED  BY <3>1, <3>2
  <2>5. Cardinality(ActiveIn(MaintainedBy(c)')) <= Cardinality(ActiveIn(MaintainedBy(c)))
    BY <2>4, FewerActive
  <2>6. Cardinality(ActiveIn(MaintainedBy(c))) < ActiveLimit
    BY <2>1 DEF CapInv, CountHolds
  <2> QED  BY <2>5, <2>6, ActiveCount, LimitAssumption
<1> QED  BY <1>2, <1>3

LEMMA CapNext ==
    ASSUME CapInv, [Next]_vars
    PROVE  ActiveCapped'
<1>1. IInv /\ Cardinality(ActiveIn(jobs)) <= ActiveLimit
  BY DEF CapInv, ActiveCapped
<1>2. CASE \A j \in Jobs : ~AdmitChange(jobs[j], jobs'[j])
  <2>1. ActiveIn(jobs') \subseteq ActiveIn(jobs)
    BY <1>1, <1>2, StepChangesRows, OnlyInsertActivates DEF ActiveIn
  <2>2. Cardinality(ActiveIn(jobs')) <= Cardinality(ActiveIn(jobs))
    BY <2>1, FewerActive
  <2> QED  BY <1>1, <2>2, ActiveCount, LimitAssumption DEF ActiveCapped, ActiveIn
<1>3. ASSUME NEW j \in Jobs, AdmitChange(jobs[j], jobs'[j]) PROVE ActiveCapped'
  <2>1. PICK c \in Clients : CommitCreate(c)
    BY <1>1, <1>3, InsertIsCreate
  <2>2. Committing(c, "create")
    BY <2>1 DEF CommitCreate
  <2>3. CASE ~txn[c].full
    <3>1. PICK k \in Unused : jobs' = [MaintainedBy(c) EXCEPT ![k] = NewRow(txn[c].t)]
      BY <2>1, <2>3 DEF CommitCreate, MaintainedBy
    <3> DEFINE S == ActiveIn(MaintainedBy(c))
    <3>2. ActiveIn(jobs') \subseteq S \cup {k}
      BY <3>1 DEF ActiveIn, MaintainedBy
    <3>3. IsFiniteSet(S) /\ Cardinality(S) \in Nat /\ Cardinality(S) < ActiveLimit
      BY <2>2, <2>3, ActiveFinite, ActiveCount DEF CapInv, CountHolds
    <3> HIDE DEF S
    <3>4. IsFiniteSet(S \cup {k}) /\ Cardinality(S \cup {k}) <= Cardinality(S) + 1
      <4>1. IsFiniteSet(S \cup {k})
               /\ (Cardinality(S \cup {k}) = Cardinality(S)
                    \/ Cardinality(S \cup {k}) = Cardinality(S) + 1)
        BY <3>3, FS_AddElement
      <4> QED  BY <3>3, <4>1
    <3>5. Cardinality(ActiveIn(jobs')) <= Cardinality(S \cup {k})
      BY <3>2, <3>4, FS_Subset
    <3>6. Cardinality(ActiveIn(jobs')) \in Nat /\ Cardinality(S \cup {k}) \in Nat
      BY <3>4, ActiveCount, FS_CardinalityType
    <3>7. Cardinality(ActiveIn(jobs')) <= ActiveLimit
      BY <3>3, <3>4, <3>5, <3>6, LimitAssumption
    <3> QED  BY <3>7 DEF ActiveCapped, ActiveIn
  <2>4. CASE txn[c].full
    <3>1. jobs' = MaintainedBy(c)
      BY <2>1, <2>4 DEF CommitCreate, MaintainedBy
    <3>2. jobs[j].status = "NONE"
      BY <1>3 DEF AdmitChange
    <3>3. Maintained(jobs, txn[c].t)[j].status # "QUEUED"
      BY <3>2 DEF Maintained, NoRow, Prunable, TerminalStatuses, SolverStatuses, Swept,
                  Sweepable, LeaseExpired
    <3> QED  BY <1>3, <3>1, <3>2, <3>3 DEF MaintainedBy, AdmitChange, NewRow, NoRow
  <2> QED  BY <2>3, <2>4
<1> QED  BY <1>2, <1>3

LEMMA CapKept == CapInv /\ [Next]_vars => CapInv'
  BY NextKeepsInv, AloneNext, CountNext, CapNext DEF CapInv

\* However many requests create jobs at the same time, and whatever workers,
\* sweeps, aborts and crashes come between the count of one and its insert,
\* the active jobs never exceed the limit.
THEOREM CapCorrect == Spec => []ActiveCapped
<1>1. CapInv => ActiveCapped
  BY DEF CapInv
<1> QED  BY CapInit, CapKept, <1>1, PTL DEF Spec
-----------------------------------------------------------------------------
(* The refinement: every change of a row is a step of the life of its job   *)
(* that JobLifecycle allows, or a stutter; a claim is the only step that     *)
(* starts an attempt, and it starts one.                                     *)

LEMMA CardinalityIsSame == ASSUME NEW S PROVE Lifecycle!Cardinality(S) = Cardinality(S)
  BY DEF Lifecycle!Cardinality, Cardinality

Shown == Lifecycle!Outcomes \cup {Lifecycle!NoOutcome}

Life == [stage : Lifecycle!Stages, attempts : Int, cancelling : BOOLEAN,
         outcome : Shown, answer : Int]

LEMMA Shows ==
    /\ {"TIME_LIMIT", "FAILED", "CANCELLED", "SOLVED", "none"} \subseteq Shown
    /\ {"ended", "running"} \subseteq Lifecycle!Stages
  BY DEF Shown, Lifecycle!Outcomes, Lifecycle!NoOutcome, Lifecycle!Stages

LEMMA SameLife ==
    ASSUME NEW l \in Life, NEW m \in Life, l.stage = m.stage, l.attempts = m.attempts,
           l.cancelling = m.cancelling, l.outcome = m.outcome, l.answer = m.answer
    PROVE  l = m
  BY DEF Life

LEMMA LifeType == ASSUME NEW r \in Rows PROVE LifeOf(r) \in Life
<1>1. r.attempts \in Int /\ r.cancelRequested \in BOOLEAN /\ r.result \in Int
  BY LimitAssumption DEF Rows
<1> DEFINE stage == LifeOf(r).stage
           outcome == LifeOf(r).outcome
           answer == LifeOf(r).answer
<1>2. stage \in Lifecycle!Stages
  BY DEF LifeOf, Lifecycle!Stages
<1>3. outcome \in Shown
  BY DEF LifeOf, Shown, Lifecycle!Outcomes, Lifecycle!NoOutcome
<1>4. answer \in Int
  BY <1>1 DEF LifeOf
<1>5. LifeOf(r) = [stage |-> stage, attempts |-> r.attempts,
                   cancelling |-> r.cancelRequested, outcome |-> outcome, answer |-> answer]
  BY Zenon DEF LifeOf
<1> HIDE DEF stage, outcome, answer
<1> QED  BY <1>1, <1>2, <1>3, <1>4, <1>5 DEF Life

\* What the steps of JobLifecycle make of a life.
LEMMA EndedLife ==
    ASSUME NEW l \in Life, NEW o \in Shown, NEW a \in Int
    PROVE  Lifecycle!End(l, o, a) =
               [stage |-> "ended", attempts |-> l.attempts, cancelling |-> l.cancelling,
                outcome |-> o, answer |-> a]
<1> DEFINE e == Lifecycle!End(l, o, a)
           d == [stage |-> "ended", attempts |-> l.attempts, cancelling |-> l.cancelling,
                 outcome |-> o, answer |-> a]
<1>1. e \in Life /\ d \in Life
  BY Shows DEF Lifecycle!End, Life
<1>2. /\ e.stage = "ended" /\ e.attempts = l.attempts /\ e.cancelling = l.cancelling
      /\ e.outcome = o /\ e.answer = a
  BY DEF Lifecycle!End, Life
<1>3. /\ d.stage = "ended" /\ d.attempts = l.attempts /\ d.cancelling = l.cancelling
      /\ d.outcome = o /\ d.answer = a
  OBVIOUS
<1> HIDE DEF e, d
<1>4. e = d
  BY <1>1, <1>2, <1>3, SameLife
<1> QED  BY <1>4 DEF e, d

LEMMA StartedLife ==
    ASSUME NEW l \in Life
    PROVE  [l EXCEPT !.stage = "running", !.attempts = @ + 1] =
               [stage |-> "running", attempts |-> l.attempts + 1, cancelling |-> l.cancelling,
                outcome |-> l.outcome, answer |-> l.answer]
<1> DEFINE n == l.attempts + 1
<1>0. n \in Int
  BY DEF Life
<1> HIDE DEF n
<1> DEFINE e == [l EXCEPT !.stage = "running", !.attempts = n]
           d == [stage |-> "running", attempts |-> n,
                 cancelling |-> l.cancelling, outcome |-> l.outcome, answer |-> l.answer]
<1>1. e \in Life /\ d \in Life
  BY <1>0, Shows DEF Life
<1>2. /\ e.stage = "running" /\ e.attempts = n
      /\ e.cancelling = l.cancelling /\ e.outcome = l.outcome /\ e.answer = l.answer
  BY DEF Life
<1>3. /\ d.stage = "running" /\ d.attempts = n
      /\ d.cancelling = l.cancelling /\ d.outcome = l.outcome /\ d.answer = l.answer
  OBVIOUS
<1> HIDE DEF e, d
<1>4. e = d
  BY <1>1, <1>2, <1>3, SameLife
<1> QED  BY <1>4 DEF n, e, d

LEMMA CancellingLife ==
    ASSUME NEW l \in Life, NEW m \in Life, m.cancelling, l.stage = m.stage,
           l.attempts = m.attempts, l.outcome = m.outcome, l.answer = m.answer
    PROVE  m = [l EXCEPT !.cancelling = TRUE]
<1> DEFINE e == [l EXCEPT !.cancelling = TRUE]
<1>1. /\ e \in Life /\ e.stage = l.stage /\ e.attempts = l.attempts /\ e.cancelling = TRUE
      /\ e.outcome = l.outcome /\ e.answer = l.answer
  BY DEF Life
<1>2. m.cancelling = TRUE
  BY DEF Life
<1> HIDE DEF e
<1>3. m = e
  BY <1>1, <1>2, SameLife
<1> QED  BY <1>3 DEF e

OutcomeOf(status) == IF status = "FEASIBLE" THEN "SOLVED" ELSE status

LEMMA ClosedLife ==
    ASSUME NEW r \in Rows, NEW status \in TerminalStatuses, NEW result \in Int, NEW t
    PROVE  LifeOf(Closed(r, status, result, t)) =
               Lifecycle!End(LifeOf(r), OutcomeOf(status), IF result = Null THEN 0 ELSE result)
<1> DEFINE c == Closed(r, status, result, t)
           o == OutcomeOf(status)
           a == IF result = Null THEN 0 ELSE result
<1>1. /\ c.status = status /\ c.attempts = r.attempts /\ c.result = result
      /\ c.cancelRequested = r.cancelRequested
  BY DEF Closed, Rows
<1> HIDE DEF c
<1>2. LifeOf(c) = [stage |-> "ended", attempts |-> r.attempts,
                   cancelling |-> r.cancelRequested, outcome |-> o, answer |-> a]
  BY <1>1 DEF LifeOf, OutcomeOf, TerminalStatuses, SolverStatuses
<1>3. o \in Shown /\ a \in Int
  BY Shows DEF OutcomeOf, TerminalStatuses, SolverStatuses
<1>4. /\ LifeOf(r) \in Life /\ LifeOf(r).attempts = r.attempts
      /\ LifeOf(r).cancelling = r.cancelRequested
  BY LifeType DEF LifeOf
<1> HIDE DEF o, a
<1>5. Lifecycle!End(LifeOf(r), o, a) = LifeOf(c)
  BY <1>2, <1>3, <1>4, EndedLife
<1> QED  BY <1>5 DEF c, o, a

\* The sweep ends a waiting job by its deadline only, because a waiting job
\* has not used up its attempts.
LEMMA SweepLife ==
    ASSUME NEW r, RowOK(r), NEW t \in Nat, Sweepable(r, t)
    PROVE  \/ LifeOf(Swept(r, t)) = LifeOf(r)
           \/ Lifecycle!Abandoned(LifeOf(r), LifeOf(Swept(r, t)))
           \/ Lifecycle!Finished(LifeOf(r), LifeOf(Swept(r, t)))
           \/ Lifecycle!CancelHonoured(LifeOf(r), LifeOf(Swept(r, t)))
<1> DEFINE s == SweptStatus(r, t)
<1>1. r \in Rows /\ r.result = Null /\ r.status \in ActiveStatuses
  BY DEF RowOK, Sweepable, LeaseExpired, SolverStatuses, ActiveStatuses
<1>2. CASE s = r.status
  BY <1>2 DEF Swept
<1>3. CASE s # r.status
  <2>1. Swept(r, t) = Closed(r, s, Null, t)
    BY <1>3 DEF Swept
  <2>2. CASE r.status = "QUEUED"
    <3>1. s = "TIME_LIMIT"
      BY <1>1, <1>3, <2>2, LimitAssumption DEF SweptStatus, LeaseExpired, RowOK
    <3>2. LifeOf(Closed(r, "TIME_LIMIT", Null, t)) = Lifecycle!End(LifeOf(r), "TIME_LIMIT", 0)
      BY <1>1, ClosedLife DEF OutcomeOf, TerminalStatuses, SolverStatuses
    <3> QED  BY <2>1, <2>2, <3>1, <3>2 DEF Lifecycle!Abandoned, LifeOf
  <2>3. CASE r.status = "RUNNING" /\ r.cancelRequested
    <3>1. s = "CANCELLED"
      BY <1>1, <2>3 DEF SweptStatus, Sweepable
    <3>2. LifeOf(Closed(r, "CANCELLED", Null, t)) = Lifecycle!End(LifeOf(r), "CANCELLED", 0)
      BY <1>1, ClosedLife DEF OutcomeOf, TerminalStatuses, SolverStatuses
    <3> QED  BY <2>1, <2>3, <3>1, <3>2 DEF Lifecycle!CancelHonoured, LifeOf
  <2>4. CASE r.status = "RUNNING" /\ ~r.cancelRequested
    <3>1. s \in {"TIME_LIMIT", "FAILED"}
      BY <1>3, <2>4 DEF SweptStatus
    <3>2. LifeOf(Closed(r, s, Null, t)) = Lifecycle!End(LifeOf(r), s, 0)
      BY <1>1, <3>1, ClosedLife DEF OutcomeOf, TerminalStatuses, SolverStatuses
    <3> QED  BY <2>1, <2>4, <3>1, <3>2 DEF Lifecycle!Finished, LifeOf
  <2> QED  BY <1>1, <2>2, <2>3, <2>4 DEF ActiveStatuses
<1> QED  BY <1>2, <1>3

LEMMA ClaimLife ==
    ASSUME NEW r, RowOK(r), NEW t, Claimable(r, t)
    PROVE  Lifecycle!Started(LifeOf(r), LifeOf(Claimed(r, t)))
<1>1. r \in Rows /\ r.result = Null /\ r.status \in {"QUEUED", "RUNNING"}
      /\ ~r.cancelRequested /\ r.attempts < MaxAttempts
  BY DEF RowOK, Claimable, SolverStatuses
<1>2. LifeOf(Claimed(r, t)) =
          [LifeOf(r) EXCEPT !.stage = "running", !.attempts = @ + 1]
  <2> DEFINE c == Claimed(r, t)
  <2>1. /\ c.status = "RUNNING" /\ c.attempts = r.attempts + 1 /\ c.result = Null
        /\ c.cancelRequested = r.cancelRequested
    BY <1>1 DEF Claimed, Rows
  <2> HIDE DEF c
  <2>2. LifeOf(c) = [stage |-> "running", attempts |-> r.attempts + 1,
                     cancelling |-> r.cancelRequested, outcome |-> "none", answer |-> 0]
    BY <2>1 DEF LifeOf
  <2>3. /\ LifeOf(r) \in Life /\ LifeOf(r).outcome = "none" /\ LifeOf(r).answer = 0
        /\ LifeOf(r).attempts = r.attempts /\ LifeOf(r).cancelling = r.cancelRequested
    BY <1>1, LifeType DEF LifeOf
  <2>4. [LifeOf(r) EXCEPT !.stage = "running", !.attempts = @ + 1] = LifeOf(c)
    BY <2>2, <2>3, StartedLife
  <2> QED  BY <2>4 DEF c
<1> QED  BY <1>1, <1>2 DEF Lifecycle!Started, LifeOf

LEMMA PruneLife ==
    ASSUME NEW r, r.status \in TerminalStatuses
    PROVE  Lifecycle!Forgotten(LifeOf(r), LifeOf(NoRow("DELETED")))
  BY DEF Lifecycle!Forgotten, Lifecycle!Idle, Lifecycle!NoOutcome, LifeOf, NoRow,
         TerminalStatuses, SolverStatuses

LEMMA AdmitLife ==
    ASSUME NEW r, r.status = "NONE", NEW t
    PROVE  Lifecycle!Admitted(LifeOf(r), LifeOf(NewRow(t)))
  BY DEF Lifecycle!Admitted, Lifecycle!Idle, Lifecycle!NoOutcome, LifeOf, NewRow, NoRow

LEMMA CancelLife ==
    ASSUME NEW r, RowOK(r), now \in 0..MaxTime
    PROVE  \/ LifeOf(Cancelled(r)) = LifeOf(r)
           \/ Lifecycle!Abandoned(LifeOf(r), LifeOf(Cancelled(r)))
           \/ Lifecycle!CancelRequested(LifeOf(r), LifeOf(Cancelled(r)))
<1> DEFINE c == Cancelled(r)
<1>1. r \in Rows /\ r.cancelRequested \in BOOLEAN
  BY DEF RowOK, Rows
<1>2. CASE r.status = "RUNNING"
  <2>1. c = [r EXCEPT !.cancelRequested = TRUE, !.updated = now]
    BY <1>1, <1>2 DEF Cancelled, Rows
  <2>2. LifeOf(c) = [LifeOf(r) EXCEPT !.cancelling = TRUE]
    <3>1. /\ c.status = r.status /\ c.attempts = r.attempts /\ c.result = r.result
          /\ c.cancelRequested
      BY <1>1, <2>1 DEF Rows
    <3>2. c \in Rows
      BY <1>1, <2>1, CancelledOK DEF RowOK
    <3>3. LifeOf(r) \in Life /\ LifeOf(c) \in Life
      BY <1>1, <3>2, LifeType
    <3>4. /\ LifeOf(c).cancelling /\ LifeOf(r).stage = LifeOf(c).stage
          /\ LifeOf(r).attempts = LifeOf(c).attempts /\ LifeOf(r).outcome = LifeOf(c).outcome
          /\ LifeOf(r).answer = LifeOf(c).answer
      BY <3>1 DEF LifeOf
    <3> QED  BY <3>3, <3>4, CancellingLife
  <2> QED  BY <1>2, <2>2 DEF Lifecycle!CancelRequested, LifeOf
<1>3. CASE r.status = "QUEUED"
  <2>1. c = [r EXCEPT !.status = "CANCELLED", !.updated = now] /\ r.result = Null
    BY <1>1, <1>3 DEF Cancelled, Rows, RowOK, SolverStatuses
  <2>2. LifeOf(c) = Lifecycle!End(LifeOf(r), "CANCELLED", 0)
    <3>1. c.status = "CANCELLED" /\ c.attempts = r.attempts /\ c.result = Null
          /\ c.cancelRequested = r.cancelRequested
      BY <1>1, <2>1 DEF Rows
    <3>2. LifeOf(c) = [stage |-> "ended", attempts |-> r.attempts,
                       cancelling |-> r.cancelRequested, outcome |-> "CANCELLED", answer |-> 0]
      BY <3>1 DEF LifeOf
    <3>3. /\ LifeOf(r) \in Life /\ LifeOf(r).attempts = r.attempts
          /\ LifeOf(r).cancelling = r.cancelRequested
      BY <1>1, LifeType DEF LifeOf
    <3> QED  BY <3>2, <3>3, EndedLife, Shows
  <2> QED  BY <1>3, <2>2 DEF Lifecycle!Abandoned, LifeOf
<1>4. CASE r.status \notin ActiveStatuses
  <2>1. c = [r EXCEPT !.updated = now]
    BY <1>1, <1>4 DEF Cancelled, Rows, ActiveStatuses
  <2> QED  BY <1>1, <2>1 DEF LifeOf, Rows
<1> QED  BY <1>2, <1>3, <1>4 DEF ActiveStatuses

\* The answer a job shows is the one of its last attempt.
LEMMA SettleLife ==
    ASSUME NEW r, RowOK(r), NEW status \in SolverStatuses \cup {"FAILED"},
           NEW token, ValidLease(r, token)
    PROVE  \/ Lifecycle!Finished(LifeOf(r), LifeOf(Settled(r, status, token)))
           \/ Lifecycle!CancelHonoured(LifeOf(r), LifeOf(Settled(r, status, token)))
<1>1. /\ r \in Rows /\ r.status = "RUNNING" /\ token = r.attempts /\ token # Null
      /\ r.attempts # Null
  BY DEF RowOK, ValidLease, Rows
<1>2. CASE r.cancelRequested
  <2>1. LifeOf(Closed(r, "CANCELLED", Null, now)) = Lifecycle!End(LifeOf(r), "CANCELLED", 0)
    BY <1>1, ClosedLife DEF OutcomeOf, TerminalStatuses, SolverStatuses
  <2> QED  BY <1>1, <1>2, <2>1 DEF Settled, Lifecycle!CancelHonoured, LifeOf
<1>3. CASE ~r.cancelRequested /\ status = "FAILED"
  <2>1. LifeOf(Closed(r, "FAILED", Null, now)) = Lifecycle!End(LifeOf(r), "FAILED", 0)
    BY <1>1, ClosedLife DEF OutcomeOf, TerminalStatuses, SolverStatuses
  <2> QED  BY <1>1, <1>3, <2>1 DEF Settled, Lifecycle!Finished, LifeOf
<1>4. CASE ~r.cancelRequested /\ status \in SolverStatuses
  <2>1. LifeOf(Closed(r, status, token, now)) =
            Lifecycle!End(LifeOf(r), OutcomeOf(status), LifeOf(r).attempts)
    <3>1. LifeOf(r).attempts = token /\ token \in Int /\ status \in TerminalStatuses
      BY <1>1, <1>4, LimitAssumption DEF LifeOf, TerminalStatuses, Rows
    <3>2. LifeOf(Closed(r, status, token, now)) =
            Lifecycle!End(LifeOf(r), OutcomeOf(status), IF token = Null THEN 0 ELSE token)
      BY <1>1, <3>1, ClosedLife
    <3> QED  BY <1>1, <3>1, <3>2
  <2>2. Settled(r, status, token) = Closed(r, status, token, now)
    BY <1>4 DEF Settled, SolverStatuses
  <2>3. OutcomeOf(status) \in {"SOLVED", "TIME_LIMIT"}
    BY <1>4 DEF OutcomeOf, SolverStatuses
  <2> QED  BY <1>1, <1>4, <2>1, <2>2, <2>3 DEF Lifecycle!Finished, LifeOf
<1> QED  BY <1>2, <1>3, <1>4

LEMMA RenewLife ==
    ASSUME NEW r \in Rows, NEW t
    PROVE  LifeOf([r EXCEPT !.leasedUntil = t + LeaseTime, !.updated = t]) = LifeOf(r)
  BY DEF LifeOf, Rows

LEMMA RowChangeLife ==
    ASSUME IInv, NEW j \in Jobs, RowChange(j)
    PROVE  \/ LifeOf(jobs'[j]) = LifeOf(jobs[j])
           \/ Lifecycle!JobStep(LifeOf(jobs[j]), LifeOf(jobs'[j]))
<1>1. RowOK(jobs[j]) /\ jobs[j] \in Rows /\ \A t \in 0..now : t \in Nat
  BY BoundsAssumption DEF IInv, JobsOK
<1>2. CASE SweepChange(jobs[j], jobs'[j])
  BY <1>1, <1>2, SweepLife DEF SweepChange, Lifecycle!JobStep
<1>3. CASE ClaimChange(jobs[j], jobs'[j])
  BY <1>1, <1>3, ClaimLife DEF ClaimChange, Lifecycle!JobStep
<1>4. CASE PruneChange(jobs[j], jobs'[j])
  BY <1>1, <1>4, PruneLife DEF PruneChange, Prunable, Lifecycle!JobStep
<1>5. CASE AdmitChange(jobs[j], jobs'[j])
  BY <1>1, <1>5, AdmitLife DEF AdmitChange, Lifecycle!JobStep
<1>6. CASE jobs'[j] = Cancelled(jobs[j])
  BY <1>1, <1>6, CancelLife DEF IInv, Lifecycle!JobStep
<1>7. CASE SettleChange(jobs[j], jobs'[j], j)
  BY <1>1, <1>7, SettleLife DEF SettleChange, Holds, ValidLease, Lifecycle!JobStep
<1>8. CASE RenewChange(jobs[j], jobs'[j])
  BY <1>1, <1>8, RenewLife DEF RenewChange
<1> QED  BY <1>2, <1>3, <1>4, <1>5, <1>6, <1>7, <1>8 DEF RowChange

\* One create inserts one row.
LEMMA OneInsert ==
    ASSUME IInv, [Next]_vars, NEW j \in Jobs, NEW k \in Jobs,
           jobs[j].status = "NONE", jobs'[j].status = "QUEUED",
           jobs[k].status = "NONE", jobs'[k].status = "QUEUED"
    PROVE  j = k
<1>1. AdmitChange(jobs[j], jobs'[j])
  BY StepChangesRows
     DEF RowChange, SweepChange, Sweepable, LeaseExpired, ClaimChange, Claimable, PruneChange,
         Prunable, SettleChange, Holds, RenewChange, Exists, TerminalStatuses, SolverStatuses
<1>2. PICK c \in Clients : CommitCreate(c)
  BY <1>1, InsertIsCreate
<1>3. ASSUME NEW i \in Jobs, jobs[i].status = "NONE"
      PROVE  MaintainedBy(c)[i].status # "QUEUED"
  BY <1>3 DEF MaintainedBy, Maintained, NoRow, Prunable, TerminalStatuses, SolverStatuses,
              Swept, Sweepable, LeaseExpired
<1>4. PICK i \in Unused : jobs' = [MaintainedBy(c) EXCEPT ![i] = NewRow(txn[c].t)]
  <2>1. jobs' # MaintainedBy(c)
    BY <1>3
  <2> QED  BY <1>2, <2>1 DEF CommitCreate, MaintainedBy
<1>5. j = i /\ k = i
  BY <1>3, <1>4 DEF MaintainedBy
<1> QED  BY <1>5

\* Only the row that a claim has picked is attempted once more.
LEMMA AttemptIsPick ==
    ASSUME IInv, [Next]_vars, NEW j \in Jobs, jobs'[j].attempts = jobs[j].attempts + 1
    PROVE  \E w \in Workers : CommitClaim(w) /\ j = txn[w].pick
<1>1. /\ jobs[j] \in Rows /\ RowOK(jobs[j]) /\ now \in 0..MaxTime
      /\ jobs[j].attempts \in Nat /\ jobs'[j].attempts # jobs[j].attempts
  BY LimitAssumption DEF IInv, JobsOK, Rows
<1>2. ASSUME NEW t PROVE Swept(jobs[j], t).attempts = jobs[j].attempts
  BY <1>1 DEF Swept, Closed, Rows
<1>3. ASSUME NEW c \in Clients, ClientNext(c) PROVE FALSE
  <2>1. ~CommitCreate(c)
    <3>1. NewRow(txn[c].t).attempts = 0 /\ NoRow("DELETED").attempts = 0
      BY DEF NewRow, NoRow
    <3>2. MaintainedBy(c)[j] \in {jobs[j], NoRow("DELETED"), Swept(jobs[j], txn[c].t)}
      BY DEF MaintainedBy, Maintained
    <3>3. CommitCreate(c) => jobs'[j] \in {MaintainedBy(c)[j], NewRow(txn[c].t)}
      BY DEF CommitCreate, MaintainedBy, Unused
    <3> QED  BY <1>1, <1>2, <3>1, <3>2, <3>3
  <2>2. ~CommitGet(c)
    BY <1>1, <1>2 DEF CommitGet, SweptByTxn
  <2>3. ASSUME NEW k \in Jobs PROVE ~Cancel(c, k)
    <3>1. Cancelled(jobs[j]).attempts = jobs[j].attempts
      BY <1>1 DEF Cancelled, Rows
    <3> QED  BY <1>1, <3>1 DEF Cancel, IInv, JobsOK
  <2> QED
    BY <1>1, <1>3, <2>1, <2>2, <2>3
       DEF ClientNext, BeginCreate, LockCreate, BeginGet, LockGet, AbortRequest
<1>4. ASSUME NEW w \in Workers, WorkerNext(w) PROVE CommitClaim(w) /\ j = txn[w].pick
  <2>1. ASSUME NEW status, NEW token PROVE Settled(jobs[j], status, token).attempts = jobs[j].attempts
    BY <1>1 DEF Settled, Closed, Rows
  <2>2. ASSUME NEW status \in SolverStatuses \cup {"FAILED"} PROVE ~Report(w, status)
    BY <1>1, <2>1 DEF Report, IInv, JobsOK
  <2>3. ~ReportError(w)
    BY <1>1, <2>1 DEF ReportError, IInv, JobsOK
  <2>4. ~Heartbeat(w)
    BY <1>1 DEF Heartbeat, IInv, JobsOK, Rows
  <2>5. CommitClaim(w)
    BY <1>1, <1>4, <2>2, <2>3, <2>4
       DEF WorkerNext, BeginClaim, LockClaim, SolverError, BeginHeartbeat, Crash, Restart
  <2>6. SweptByTxn(w)[j].attempts = jobs[j].attempts
    BY <1>2 DEF SweptByTxn
  <2> QED  BY <1>1, <2>5, <2>6 DEF CommitClaim
<1> QED  BY <1>1, <1>3, <1>4 DEF Next, Tick, vars

LEMMA OneStart ==
    ASSUME IInv, [Next]_vars, NEW j \in Jobs, NEW k \in Jobs,
           jobs'[j].attempts = jobs[j].attempts + 1,
           jobs'[k].attempts = jobs[k].attempts + 1
    PROVE  j = k
<1>1. PICK w \in Workers : CommitClaim(w) /\ j = txn[w].pick
  BY AttemptIsPick
<1>2. PICK v \in Workers : CommitClaim(v) /\ k = txn[v].pick
  BY AttemptIsPick
<1>3. v = w
  <2>1. v \in Procs /\ w \in Procs /\ txn \in [Procs -> TxnType]
    BY DEF Procs, IInv, TxnOK
  <2>2. txn[v] # NoTxn
    BY <1>2 DEF CommitClaim, Committing, NoTxn
  <2> QED  BY <1>1, <1>2, <2>1, <2>2 DEF CommitClaim
<1> QED  BY <1>1, <1>2, <1>3

LEMMA StepIsLife ==
    ASSUME CapInv, CapInv', [Next]_vars
    PROVE  Lifecycle!Next
<1> DEFINE before == [j \in Jobs |-> LifeOf(jobs[j])]
           after == [j \in Jobs |-> LifeOf(jobs'[j])]
<1>1. IInv /\ \A j \in Jobs : RowChange(j)
  BY StepChangesRows DEF CapInv
<1>2. \A j \in Jobs : after[j] = before[j] \/ Lifecycle!JobStep(before[j], after[j])
  BY <1>1, RowChangeLife
<1>3. ASSUME NEW j \in Jobs, NEW k \in Jobs,
             Lifecycle!Admitted(before[j], after[j]), Lifecycle!Admitted(before[k], after[k])
      PROVE  j = k
  <2>1. ASSUME NEW i \in Jobs, Lifecycle!Admitted(before[i], after[i])
        PROVE  jobs[i].status = "NONE" /\ jobs'[i].status = "QUEUED"
    <3>1. before[i].stage = "absent" /\ after[i].stage = "waiting"
      BY <2>1 DEF Lifecycle!Admitted, Lifecycle!Idle
    <3> QED  BY <3>1 DEF LifeOf
  <2> QED  BY <1>1, <1>3, <2>1, OneInsert
<1>4. ASSUME NEW j \in Jobs, NEW k \in Jobs,
             Lifecycle!Started(before[j], after[j]), Lifecycle!Started(before[k], after[k])
      PROVE  j = k
  <2>1. ASSUME NEW i \in Jobs, Lifecycle!Started(before[i], after[i])
        PROVE  jobs'[i].attempts = jobs[i].attempts + 1
    BY <2>1 DEF Lifecycle!Started, LifeOf
  <2> QED  BY <1>1, <1>4, <2>1, OneStart
<1>5. Cardinality({j \in Jobs : after[j].stage \in {"waiting", "running"}}) <= ActiveLimit
  <2>1. {j \in Jobs : after[j].stage \in {"waiting", "running"}} = ActiveIn(jobs')
    BY DEF LifeOf, ActiveIn, ActiveStatuses
  <2>2. Cardinality(ActiveIn(jobs')) <= ActiveLimit
    BY DEF CapInv, ActiveCapped, ActiveIn
  <2> QED  BY <2>1, <2>2
<1>6. Lifecycle!Cardinality({j \in Jobs : after[j].stage \in {"waiting", "running"}})
          <= ActiveLimit
  BY <1>5, CardinalityIsSame
<1> QED
  BY <1>2, <1>3, <1>4, <1>6
     DEF Lifecycle!Next, Lifecycle!AtMostOne, Lifecycle!ActiveJobs

\* Whatever processes, locks, clocks and crashes do to the table, a client
\* sees the life of a job that JobLifecycle promises: for any number of jobs,
\* workers and requests, and any limits.
THEOREM LifecycleCorrect == Spec => ImplementsLifecycle
<1> DEFINE life == [j \in Jobs |-> LifeOf(jobs[j])]
<1>1. Init => Lifecycle!Init
  BY DEF Init, Lifecycle!Init, Lifecycle!Idle, Lifecycle!NoOutcome, LifeOf, NoRow
<1>2. CapInv /\ CapInv' /\ [Next]_vars => [Lifecycle!Next]_life
  BY StepIsLife
<1>3. CapInv /\ [Next]_vars => CapInv'
  BY CapKept
<1> QED  BY CapInit, <1>1, <1>2, <1>3, PTL DEF Spec, ImplementsLifecycle, Lifecycle!Spec
=============================================================================
