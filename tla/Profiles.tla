------------------------------ MODULE Profiles ------------------------------
(***************************************************************************)
(* The profile of one account and its privacy consents (api/routes/        *)
(* users.py), one step per statement, with the row locks of PostgreSQL:    *)
(* the INSERT of a consent takes FOR KEY SHARE on the row of the user it   *)
(* refers to, which FOR UPDATE of another transaction waits for.           *)
(***************************************************************************)
EXTENDS Integers, FiniteSets

CONSTANTS
    Requests,
    Fields,        \* the columns a complete profile needs: name, grade, department
    MaxConsents    \* bound: rows ever inserted

ProfileAssumption == Fields # {} /\ MaxConsents \in Nat

VARIABLES
    user,      \* the committed row, or Gone
    consents,  \* how many consents are committed
    req        \* the open requests, their locks and what they have read

vars == <<user, consents, req>>

Gone == [exists |-> FALSE, filled |-> {}, completed |-> FALSE]
NoReq == [op |-> "none", step |-> "idle", lock |-> "none", set |-> {}, unset |-> {},
          agreed |-> FALSE, status |-> 0]

Complete(filled) == filled = Fields

Init ==
    /\ user = [exists |-> TRUE, filled |-> {}, completed |-> FALSE]
    /\ consents = 0
    /\ req = [p \in Requests |-> NoReq]

Idle(p) == req[p].step = "idle"

\* Mutant: the transaction is not closed with the request.
FinishKeepingLocks(p, status) ==
    req' = [req EXCEPT ![p] = [NoReq EXCEPT !.op = req[p].op, !.status = status, !.lock = req[p].lock]]

Finish(p, status) ==
    req' = [req EXCEPT ![p] = [NoReq EXCEPT !.op = req[p].op, !.status = status]]

\* FOR UPDATE waits for every other lock on the row.
Lockable(p) == \A q \in Requests \ {p} : req[q].lock = "none"

\* FOR KEY SHARE waits for FOR UPDATE only.
Shareable(p) == \A q \in Requests \ {p} : req[q].lock # "update"

\* Mutant: the row is read without a lock.
ReadUnlocked(p) == TRUE

\* session.get(User, ..., with_for_update=True) in update_me.
ReadForUpdate(p) == Lockable(p)

(* A change sets some columns and clears others; null and 0 count as empty. *)
BeginUpdate(p, set, unset) ==
    /\ Idle(p) /\ user.exists /\ set \cap unset = {}
    /\ req' = [req EXCEPT ![p] = [NoReq EXCEPT !.op = "update", !.step = "lock",
                                               !.set = set, !.unset = unset]]
    /\ UNCHANGED <<user, consents>>

LockUpdate(p) ==
    /\ req[p].step = "lock" /\ req[p].op = "update" /\ ReadForUpdate(p)
    /\ IF ~user.exists THEN Finish(p, 404)
       ELSE req' = [req EXCEPT ![p].step = "consents", ![p].lock = "update"]
    /\ UNCHANGED <<user, consents>>

ReadConsents(p) ==
    /\ req[p].step = "consents"
    /\ req' = [req EXCEPT ![p].step = "commit", ![p].agreed = consents > 0]
    /\ UNCHANGED <<user, consents>>

CommitUpdate(p) ==
    LET filled == (user.filled \cup req[p].set) \ req[p].unset
    IN  /\ req[p].step = "commit" /\ req[p].op = "update" /\ Shareable(p)
        /\ user' = [user EXCEPT !.filled = filled, !.completed = Complete(filled) /\ req[p].agreed]
        /\ Finish(p, 200)
        /\ UNCHANGED consents

BeginConsent(p, agreed) ==
    /\ Idle(p) /\ user.exists
    /\ req' = [req EXCEPT ![p] = IF agreed THEN [NoReq EXCEPT !.op = "consent", !.step = "insert"]
                                 ELSE [NoReq EXCEPT !.op = "refusal", !.status = 400]]
    /\ UNCHANGED <<user, consents>>

\* The flush before the SELECT inserts the consent; a user that is gone fails it.
InsertConsent(p) ==
    /\ req[p].step = "insert" /\ Shareable(p) /\ consents < MaxConsents
    /\ IF ~user.exists THEN Finish(p, 500)
       ELSE req' = [req EXCEPT ![p].step = "lock", ![p].lock = "share"]
    /\ UNCHANGED <<user, consents>>

LockConsent(p) ==
    /\ req[p].step = "lock" /\ req[p].op = "consent" /\ Lockable(p)
    /\ req' = [req EXCEPT ![p].step = "commit", ![p].lock = "update"]
    /\ UNCHANGED <<user, consents>>

CommitConsent(p) ==
    /\ req[p].step = "commit" /\ req[p].op = "consent"
    /\ consents' = consents + 1
    /\ user' = [user EXCEPT !.completed = @ \/ Complete(user.filled)]
    /\ Finish(p, 201)

\* PostgreSQL aborts one of two transactions that wait for each other.
Waits(p) == req[p].step = "lock" /\ ~Lockable(p)

Deadlocked(p) ==
    /\ Waits(p) /\ req[p].lock # "none"
    /\ \E q \in Requests \ {p} : Waits(q) /\ req[q].lock # "none"

AbortDeadlocked(p) ==
    /\ Deadlocked(p) /\ Finish(p, 500)
    /\ UNCHANGED <<user, consents>>

\* delete_me removes the consents and the user in one transaction.
Leave(p) ==
    /\ Idle(p) /\ user.exists /\ Lockable(p)
    /\ user' = Gone /\ consents' = 0
    /\ req' = [req EXCEPT ![p] = [NoReq EXCEPT !.op = "leave", !.status = 200]]

Begin(p) ==
    \/ \E set, unset \in SUBSET Fields : BeginUpdate(p, set, unset)
    \/ \E agreed \in BOOLEAN : BeginConsent(p, agreed)

Step(p) ==
    \/ LockUpdate(p) \/ ReadConsents(p) \/ CommitUpdate(p)
    \/ InsertConsent(p) \/ LockConsent(p) \/ CommitConsent(p) \/ AbortDeadlocked(p)

Next == \E p \in Requests : Begin(p) \/ Step(p) \/ Leave(p)

Spec == Init /\ [][Next]_vars
-----------------------------------------------------------------------------
(* The committed row says that the profile is complete exactly when all of *)
(* its fields are filled and a consent is committed, though changes and    *)
(* consents each read what the other one writes.                           *)
ProfileTruthful ==
    user.exists => (user.completed <=> Complete(user.filled) /\ consents > 0)

(* What a request waits for: the row for itself, or to be only shared.      *)
WaitsFor(p, q) ==
    \/ req[p].step = "lock" /\ req[q].lock # "none"
    \/ req[p].step = "insert" /\ req[q].lock = "update"
    \/ req[p].step = "commit" /\ req[p].op = "update" /\ req[q].lock = "update"

Blocked(p) == \E q \in Requests \ {p} : WaitsFor(p, q)

(* A request that waits, waits for one that is open and can go on, or that  *)
(* the database aborts: no set of transactions waits in a circle that       *)
(* nobody breaks, and no lock outlives its request.  Two consents do wait   *)
(* for each other, each with a share of the row that it inserted for.       *)
SomeoneGoesOn ==
    \A p \in Requests : Blocked(p) =>
        \E q \in Requests \ {p} : WaitsFor(p, q) /\ ~Idle(q) /\ (Blocked(q) => Deadlocked(q))
=============================================================================
