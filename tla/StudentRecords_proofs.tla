------------------------ MODULE StudentRecords_proofs ------------------------
(***************************************************************************)
(* Proofs about what the server keeps of students: saved timetables and    *)
(* their links, the profile, the reviews and the completed courses, for    *)
(* any number of students, requests, catalogs, bodies, consents and rows.  *)
(***************************************************************************)
EXTENDS StudentRecords, FiniteSetTheorems, TLAPS
-----------------------------------------------------------------------------
(* Saved timetables: the rows keep their types, no row refers to a row     *)
(* that is gone, only its owner changes a row, an edit of the items keeps  *)
(* the rest of the row, and what is saved was allowed by some catalog.     *)
(*                                                                         *)
(* The two transactions of a request are joined by one fact: what the      *)
(* first has found of the owner is still so in the second, because ids are *)
(* never drawn twice and an owner never changes.  A request that is to     *)
(* write knows an id that was drawn, and if the row is still there it is   *)
(* of the student who asks (Entitled).  In the same way the items that the *)
(* first transaction has accepted fit the row in the second, because the   *)
(* semester of a row never changes (Checked).                              *)

Steps == {"idle", "check", "write", "read_share", "read_timetable"}

ArgType == [items : Bodies \cup {<< >>}, semester : Semesters \cup {None},
            version : Versions \cup {None}, name : NameLengths \cup {None},
            favorite : BOOLEAN, expires : {None} \cup 0..MaxTime]

ReqType == [op : Ops \cup {"none"}, step : Steps, user : Users \cup {None}, id : Nat,
            arg : ArgType, row : Row \cup {NoRow}, catalog : DOMAIN Catalogs, status : Nat]

ShareRow == [timetable : Nat, creator : Users, expires : {None} \cup 0..MaxTime]

Drawn == [timetables : 0..MaxTimetables, shares : 0..MaxShares]

(* The tables, and the ids that were drawn.                                *)
TablesOK ==
    /\ users \subseteq Users
    /\ timetables \in [DOMAIN timetables -> Row]
    /\ shares \in [DOMAIN shares -> ShareRow]
    /\ drawn \in Drawn /\ deployed \in DOMAIN Catalogs /\ now \in 0..MaxTime
    /\ \A t \in DOMAIN timetables : t \in 1..drawn.timetables
    /\ \A s \in DOMAIN shares : s \in 1..drawn.shares
                                 /\ shares[s].timetable \in 1..drawn.timetables
    /\ ReferencesHold

(* What a request brings to its next step.                                 *)
Brought(r) ==
    /\ r.catalog \in 1..deployed
    /\ r.step # "idle" => r.op \in Ops /\ r.arg \in Args(r.op)
    /\ r.step # "idle" /\ r.op # "shared_get" => r.user \in Users
    /\ r.step = "write" /\ r.op \in {"copy", "shared_copy"} => r.row \in Row

Entitled(r) ==
    r.step = "write" /\ r.op \in {"sections", "delete", "share"} =>
        /\ r.id \in 1..drawn.timetables
        /\ r.id \in DOMAIN timetables => timetables[r.id].owner = r.user

ReqsOK ==
    /\ req \in [Requests -> ReqType]
    /\ \A p \in Requests : Brought(req[p]) /\ Entitled(req[p])

IInv == TablesOK /\ ReqsOK

(* A step that leaves the owners of the rows it keeps as they are, and     *)
(* gives no row an id that was drawn before.                               *)
OwnersKept ==
    /\ drawn.timetables <= drawn'.timetables /\ deployed <= deployed'
    /\ \A t \in DOMAIN timetables' :
          t \in 1..drawn.timetables =>
              t \in DOMAIN timetables /\ timetables'[t].owner = timetables[t].owner
-----------------------------------------------------------------------------
(* Bodies, statuses and answers have their types.                          *)
LEMMA ArgsTyped == \A op : Args(op) \subseteq ArgType
<1> SUFFICES ASSUME NEW op, NEW a \in Args(op) PROVE a \in ArgType
    OBVIOUS
<1>1. NoArg \in ArgType
    BY TimetableAssumption DEF NoArg, Arg, ArgType
<1>2. CASE op = "create"
  <2>1. PICK b \in Bodies, s \in Semesters, v \in Versions, n \in NameLengths :
           a = Arg(b, s, v, n)
        BY <1>2 DEF Args
  <2> QED BY <1>1, <2>1 DEF ArgType, Arg
<1>3. CASE op = "sections"
  <2>1. PICK b \in Bodies, v \in Versions : a = Arg(b, None, v, None)
        BY <1>3 DEF Args
  <2> QED BY <1>1, <2>1 DEF ArgType, Arg
<1>4. CASE op = "update"
  <2>1. PICK v \in Versions, n \in Names : a = Arg(<< >>, None, v, n)
        BY <1>4 DEF Args
  <2> QED BY <1>1, <2>1 DEF ArgType, Arg, Names
<1>5. CASE op \in {"copy", "shared_copy"}
  <2>1. PICK n \in Names : a = Arg(<< >>, None, None, n)
        BY <1>5 DEF Args
  <2> QED BY <1>1, <2>1 DEF ArgType, Arg, Names
<1>6. CASE op = "favorite"
  <2>1. PICK f \in BOOLEAN : a = [NoArg EXCEPT !.favorite = f]
        BY <1>6 DEF Args
  <2> QED BY <1>1, <2>1 DEF ArgType, Arg
<1>7. CASE op = "share"
  <2>1. PICK e \in {None} \cup 0..MaxTime : a = [NoArg EXCEPT !.expires = e]
        BY <1>7 DEF Args
  <2> QED BY <1>1, <2>1 DEF ArgType, Arg
<1>8. CASE op \notin {"create", "sections", "update", "copy", "shared_copy", "favorite", "share"}
    BY <1>1, <1>8 DEF Args
<1> QED BY <1>2, <1>3, <1>4, <1>5, <1>6, <1>7, <1>8

LEMMA StatusTyped ==
    ASSUME NEW items, NEW semester, NEW version, NEW c
    PROVE  ValidateItems(items, semester, version, c) \in {200, 409, 422}
BY DEF ValidateItems

LEMMA NoReqTyped == NoReq \in ReqType /\ NoReq.step = "idle" /\ NoReq.catalog = 1
<1>1. NoArg \in ArgType
    BY TimetableAssumption DEF NoArg, Arg, ArgType
<1>2. 1 \in DOMAIN Catalogs
    BY TimetableAssumption
<1> QED BY <1>1, <1>2 DEF NoReq, ReqType, Steps

(* A request that takes no step can still take the next one.               *)
LEMMA OthersKeep ==
    ASSUME IInv, TablesOK', OwnersKept, NEW q \in Requests, req'[q] = req[q]
    PROVE  Brought(req[q])' /\ Entitled(req[q])'
<1>1. /\ drawn.timetables \in Nat /\ drawn'.timetables \in Nat
      /\ drawn.timetables <= drawn'.timetables
      /\ deployed \in Nat /\ deployed' \in Nat /\ deployed <= deployed'
    BY TimetableAssumption DEF IInv, TablesOK, Drawn, OwnersKept
<1>2. Brought(req[q]) /\ Entitled(req[q]) /\ req[q] \in ReqType
    BY DEF IInv, ReqsOK
<1>3. Brought(req[q])'
    BY <1>1, <1>2 DEF Brought, ReqType
<1>4. Entitled(req[q])'
    BY <1>1, <1>2 DEF Entitled, OwnersKept, ReqType
<1> QED BY <1>3, <1>4

(* A step that only moves one request along.                               *)
LEMMA MoveKeeps ==
    ASSUME IInv, TablesOK', OwnersKept, NEW p \in Requests, NEW r \in ReqType,
           req' = [req EXCEPT ![p] = r], Brought(req[p])', Entitled(req[p])'
    PROVE  ReqsOK'
<1>1. /\ req' \in [Requests -> ReqType]
      /\ \A q \in Requests \ {p} : req'[q] = req[q]
    BY DEF IInv, ReqsOK
<1>2. ASSUME NEW q \in Requests \ {p}
      PROVE  Brought(req[q])' /\ Entitled(req[q])'
    BY <1>1, <1>2, OthersKeep
<1> QED BY <1>1, <1>2 DEF ReqsOK

LEMMA FinishKeeps ==
    ASSUME IInv, TablesOK', OwnersKept, NEW p \in Requests,
           \E status \in Nat : Finish(p, status)
    PROVE  ReqsOK' /\ req'[p].step = "idle"
<1>1. PICK r : \E status \in Nat : /\ r = [NoReq EXCEPT !.op = req[p].op, !.status = status]
                                   /\ req' = [req EXCEPT ![p] = r]
    BY DEF Finish
<1>2. req[p].op \in Ops \cup {"none"}
    BY DEF IInv, ReqsOK, ReqType
<1>3. r \in ReqType /\ r.step = "idle" /\ r.catalog = 1
    BY <1>1, <1>2, NoReqTyped DEF ReqType
<1>4. req' = [req EXCEPT ![p] = r] /\ req'[p] = r
    BY <1>1 DEF IInv, ReqsOK
<1>5. 1 \in 1..deployed'
    BY TimetableAssumption DEF TablesOK
<1>6. Brought(req[p])' /\ Entitled(req[p])'
    BY <1>3, <1>4, <1>5 DEF Brought, Entitled
<1> QED BY <1>3, <1>4, <1>6, MoveKeeps

LEMMA SameTables ==
    ASSUME IInv, UNCHANGED <<users, timetables, shares, drawn, deployed, now>>
    PROVE  TablesOK' /\ OwnersKept
<1>1. drawn.timetables <= drawn.timetables /\ deployed <= deployed
    BY TimetableAssumption DEF IInv, TablesOK, Drawn
<1> QED BY <1>1 DEF IInv, TablesOK, ReferencesHold, OwnersKept
-----------------------------------------------------------------------------
(* The steps that change no table.                                         *)
LEMMA BeginStep ==
    ASSUME IInv, NEW p \in Requests, NEW u \in Users \cup {None}, NEW op \in Offered,
           NEW id \in IdsFor(op), NEW arg \in Args(op), Begin(p, u, op, id, arg)
    PROVE  IInv'
<1>1. TablesOK' /\ OwnersKept
    BY SameTables DEF Begin
<1>2. PICK c : c = deployed /\ c \in DOMAIN Catalogs /\ c \in 1..c
    BY TimetableAssumption DEF IInv, TablesOK
<1>3. PICK status \in Nat :
          \/ req' = [req EXCEPT ![p] = [NoReq EXCEPT !.op = op, !.status = status]]
          \/ req' = [req EXCEPT ![p] =
                        [NoReq EXCEPT !.op = op, !.user = u, !.id = id, !.arg = arg,
                                      !.step = FirstStep(op), !.catalog = c]]
  <2>1. ValidateItems(arg.items, arg.semester, arg.version, deployed) \in Nat
      BY StatusTyped
  <2> QED BY <1>2, <2>1 DEF Begin
<1>4. op \in Ops /\ arg \in ArgType /\ id \in Nat
  <2>1. id \in Nat
      BY DEF IdsFor, IInv, TablesOK, Drawn
  <2> QED BY <2>1, ArgsTyped, TimetableAssumption
<1>5. deployed' = c /\ 1 \in 1..c
    BY <1>2, TimetableAssumption DEF Begin
<1>6. CASE req' = [req EXCEPT ![p] = [NoReq EXCEPT !.op = op, !.status = status]]
  <2>1. PICK r : r = [NoReq EXCEPT !.op = op, !.status = status]
      OBVIOUS
  <2>2. r \in ReqType /\ r.step = "idle" /\ r.catalog = 1
      BY <1>4, <2>1, NoReqTyped DEF ReqType
  <2>3. req' = [req EXCEPT ![p] = r] /\ req'[p] = r
      BY <1>6, <2>1 DEF IInv, ReqsOK
  <2>4. Brought(req[p])' /\ Entitled(req[p])'
      BY <1>5, <2>2, <2>3 DEF Brought, Entitled
  <2> QED BY <1>1, <2>2, <2>3, <2>4, MoveKeeps DEF IInv
<1>7. CASE req' = [req EXCEPT ![p] =
                      [NoReq EXCEPT !.op = op, !.user = u, !.id = id, !.arg = arg,
                                    !.step = FirstStep(op), !.catalog = c]]
  <2>1. PICK r : r = [NoReq EXCEPT !.op = op, !.user = u, !.id = id, !.arg = arg,
                                   !.step = FirstStep(op), !.catalog = c]
      OBVIOUS
  <2>2. FirstStep(op) \in {"check", "write", "read_share"}
      BY DEF FirstStep
  <2>3. /\ r \in ReqType /\ r.op = op /\ r.user = u /\ r.arg = arg
        /\ r.step = FirstStep(op) /\ r.catalog = c
      BY <1>2, <1>4, <2>1, <2>2, NoReqTyped DEF ReqType, Steps
  <2>4. req' = [req EXCEPT ![p] = r] /\ req'[p] = r
      BY <1>7, <2>1 DEF IInv, ReqsOK
  <2>5. FirstStep(op) = "write" =>
            op \notin {"copy", "shared_copy", "sections", "delete", "share"}
      BY DEF FirstStep, SharedOps
  <2>6. u \in Users \/ op = "shared_get"
      BY DEF Begin, IInv, TablesOK
  <2>7. Brought(req[p])' /\ Entitled(req[p])'
      BY <1>2, <1>4, <1>5, <2>3, <2>4, <2>5, <2>6 DEF Brought, Entitled
  <2> QED BY <1>1, <2>3, <2>4, <2>7, MoveKeeps DEF IInv
<1> QED BY <1>3, <1>6, <1>7

LEMMA CheckOwnedStep ==
    ASSUME IInv, NEW p \in Requests, CheckOwned(p)
    PROVE  IInv'
<1>1. TablesOK' /\ OwnersKept /\ deployed' = deployed
      /\ drawn' = drawn /\ timetables' = timetables
    BY SameTables DEF CheckOwned
<1>2. req[p].step = "check" /\ req[p] \in ReqType /\ Brought(req[p])
    BY DEF CheckOwned, IInv, ReqsOK
<1>3. \/ \E status \in Nat : Finish(p, status)
      \/ /\ OwnedStatus(req[p].id, req[p].user) = 200
         /\ Continue(p, "write", timetables[req[p].id])
  <2>1. OwnedStatus(req[p].id, req[p].user) \in {200, 403, 404}
      BY DEF OwnedStatus
  <2>2. ValidateItems(req[p].arg.items, timetables[req[p].id].semester,
                      req[p].arg.version, req[p].catalog) \in {200, 409, 422}
      BY StatusTyped
  <2>3. \/ Finish(p, OwnedStatus(req[p].id, req[p].user))
        \/ \E status \in {200, 409, 422} : Finish(p, status)
        \/ /\ OwnedStatus(req[p].id, req[p].user) = 200
           /\ Continue(p, "write", timetables[req[p].id])
      BY <2>1, <2>2 DEF CheckOwned
  <2> QED BY <2>1, <2>3
<1>4. CASE \E status \in Nat : Finish(p, status)
    BY <1>1, <1>4, FinishKeeps DEF IInv
<1>5. CASE /\ OwnedStatus(req[p].id, req[p].user) = 200
           /\ Continue(p, "write", timetables[req[p].id])
  <2>1. /\ req[p].id \in DOMAIN timetables
        /\ timetables[req[p].id].owner = req[p].user
      BY <1>5 DEF OwnedStatus
  <2>2. /\ timetables[req[p].id] \in Row /\ req[p].id \in 1..drawn.timetables
        /\ req[p].user \in Users
      BY <2>1 DEF IInv, TablesOK, ReferencesHold
  <2>3. PICK r : r = [req[p] EXCEPT !.step = "write", !.row = timetables[req[p].id]]
      OBVIOUS
  <2>4. /\ r \in ReqType /\ r.step = "write" /\ r.row = timetables[req[p].id]
        /\ r.op = req[p].op /\ r.user = req[p].user /\ r.id = req[p].id
        /\ r.arg = req[p].arg /\ r.catalog = req[p].catalog
      BY <1>2, <2>2, <2>3 DEF ReqType, Steps
  <2>5. req' = [req EXCEPT ![p] = r] /\ req'[p] = r
      BY <1>5, <2>3 DEF Continue, IInv, ReqsOK
  <2>6. Brought(req[p])'
      BY <1>1, <1>2, <2>2, <2>4, <2>5 DEF Brought
  <2>7. Entitled(req[p])'
      BY <1>1, <2>1, <2>2, <2>4, <2>5 DEF Entitled
  <2> QED BY <1>1, <2>4, <2>5, <2>6, <2>7, MoveKeeps DEF IInv
<1> QED BY <1>3, <1>4, <1>5

LEMMA ListStep ==
    ASSUME IInv, NEW p \in Requests, List(p)
    PROVE  IInv'
<1>1. TablesOK' /\ OwnersKept
    BY SameTables DEF List
<1>2. \E status \in Nat : Finish(p, status)
    BY DEF List
<1> QED BY <1>1, <1>2, FinishKeeps DEF IInv

LEMMA ReadShareStep ==
    ASSUME IInv, NEW p \in Requests, ReadShare(p)
    PROVE  IInv'
<1>1. TablesOK' /\ OwnersKept /\ deployed' = deployed
      /\ drawn' = drawn /\ timetables' = timetables
    BY SameTables DEF ReadShare
<1>2. req[p].step = "read_share" /\ req[p] \in ReqType /\ Brought(req[p])
    BY DEF ReadShare, IInv, ReqsOK
<1>3. ShareStatus(req[p].id) \in Nat
    BY DEF ShareStatus
<1>4. CASE Finish(p, ShareStatus(req[p].id))
    BY <1>1, <1>3, <1>4, FinishKeeps DEF IInv
<1>5. CASE /\ ShareStatus(req[p].id) = 200
           /\ req' = [req EXCEPT ![p] = [@ EXCEPT !.step = "read_timetable",
                                                  !.id = shares[req[p].id].timetable]]
  <2>1. shares[req[p].id].timetable \in Nat
      BY <1>5 DEF ShareStatus, IInv, TablesOK, ShareRow
  <2>2. PICK r : r = [req[p] EXCEPT !.step = "read_timetable",
                                    !.id = shares[req[p].id].timetable]
      OBVIOUS
  <2>3. /\ r \in ReqType /\ r.step = "read_timetable" /\ r.op = req[p].op
        /\ r.user = req[p].user
        /\ r.arg = req[p].arg /\ r.catalog = req[p].catalog
      BY <1>2, <2>1, <2>2 DEF ReqType, Steps
  <2>4. req' = [req EXCEPT ![p] = r] /\ req'[p] = r
      BY <1>5, <2>2 DEF IInv, ReqsOK
  <2>5. Brought(req[p])' /\ Entitled(req[p])'
      BY <1>1, <1>2, <2>3, <2>4 DEF Brought, Entitled
  <2> QED BY <1>1, <2>3, <2>4, <2>5, MoveKeeps DEF IInv
<1> QED BY <1>4, <1>5 DEF ReadShare

LEMMA ReadSharedStep ==
    ASSUME IInv, NEW p \in Requests, ReadShared(p)
    PROVE  IInv'
<1>1. TablesOK' /\ OwnersKept /\ deployed' = deployed
      /\ drawn' = drawn /\ timetables' = timetables
    BY SameTables DEF ReadShared
<1>2. req[p].step = "read_timetable" /\ req[p] \in ReqType /\ Brought(req[p])
    BY DEF ReadShared, IInv, ReqsOK
<1>3. CASE \E status \in Nat : Finish(p, status)
    BY <1>1, <1>3, FinishKeeps DEF IInv
<1>4. CASE /\ req[p].id \in DOMAIN timetables /\ req[p].op = "shared_copy"
           /\ Continue(p, "write", timetables[req[p].id])
  <2>1. timetables[req[p].id] \in Row
      BY <1>4 DEF IInv, TablesOK
  <2>2. PICK r : r = [req[p] EXCEPT !.step = "write", !.row = timetables[req[p].id]]
      OBVIOUS
  <2>3. /\ r \in ReqType /\ r.step = "write" /\ r.row = timetables[req[p].id]
        /\ r.op = "shared_copy" /\ r.user = req[p].user
        /\ r.arg = req[p].arg /\ r.catalog = req[p].catalog
      BY <1>2, <1>4, <2>1, <2>2 DEF ReqType, Steps
  <2>4. req' = [req EXCEPT ![p] = r] /\ req'[p] = r
      BY <1>4, <2>2 DEF Continue, IInv, ReqsOK
  <2>5. Brought(req[p])' /\ Entitled(req[p])'
      BY <1>1, <1>2, <1>4, <2>1, <2>3, <2>4 DEF Brought, Entitled
  <2> QED BY <1>1, <2>3, <2>4, <2>5, MoveKeeps DEF IInv
<1> QED BY <1>3, <1>4 DEF ReadShared
-----------------------------------------------------------------------------
(* The steps that write.                                                   *)
WideRow == [owner : Users, name : Nat, semester : Semesters,
            version : Versions \cup {Catalogs[c].version : c \in DOMAIN Catalogs},
            items : Bodies, favorite : BOOLEAN]

LEMMA InsertStep ==
    ASSUME IInv, NEW p \in Requests, NEW row \in WideRow, Insert(p, row),
           drawn.timetables < MaxTimetables,
           UNCHANGED <<users, shares, deployed, now>>
    PROVE  IInv'
<1>1. \E status \in Nat : Finish(p, status)
    BY DEF Insert
<1>2. CASE row.owner \in users /\ row.name <= NameMax
  <2>1. /\ timetables' = Put(timetables, drawn.timetables + 1, row)
        /\ drawn' = [drawn EXCEPT !.timetables = @ + 1]
      BY <1>2 DEF Insert
  <2>2. PICK n \in Nat : n = drawn.timetables /\ n < MaxTimetables
      BY TimetableAssumption DEF IInv, TablesOK, Drawn
  <2>3. /\ drawn' \in Drawn /\ drawn'.timetables = n + 1 /\ drawn'.shares = drawn.shares
      BY <2>1, <2>2, TimetableAssumption DEF IInv, TablesOK, Drawn
  <2>4. /\ DOMAIN timetables' = DOMAIN timetables \cup {n + 1}
        /\ timetables'[n + 1] = row
        /\ \A t \in DOMAIN timetables : t \in 1..n /\ t # n + 1
        /\ \A t \in DOMAIN timetables : timetables'[t] = timetables[t]
    <3>1. \A t \in DOMAIN timetables : t \in 1..n /\ t # n + 1
        BY <2>2 DEF IInv, TablesOK
    <3> QED BY <2>1, <2>2, <3>1 DEF Put
  <2>5. row \in Row
      BY <1>2, TimetableAssumption DEF WideRow, Row
  <2>6. timetables' \in [DOMAIN timetables' -> Row]
    <3>1. timetables' = [t \in DOMAIN timetables' |-> timetables'[t]]
        BY <2>1 DEF Put
    <3>2. \A t \in DOMAIN timetables' : timetables'[t] \in Row
        BY <2>4, <2>5 DEF IInv, TablesOK
    <3> QED BY <3>1, <3>2
  <2>7. ReferencesHold'
      BY <1>2, <2>4 DEF IInv, TablesOK, ReferencesHold
  <2>8. \A t \in DOMAIN timetables' : t \in 1..drawn'.timetables
      BY <2>2, <2>3, <2>4
  <2>9. \A s \in DOMAIN shares' : /\ s \in 1..drawn'.shares
                                  /\ shares'[s].timetable \in 1..drawn'.timetables
      BY <2>2, <2>3 DEF IInv, TablesOK
  <2>10. TablesOK'
      BY <2>3, <2>6, <2>7, <2>8, <2>9 DEF IInv, TablesOK
  <2>11. OwnersKept
    <3>1. drawn.timetables <= drawn'.timetables /\ deployed <= deployed'
        BY <2>2, <2>3, TimetableAssumption DEF IInv, TablesOK
    <3> QED BY <2>2, <2>4, <3>1 DEF OwnersKept
  <2> QED BY <1>1, <2>10, <2>11, FinishKeeps DEF IInv
<1>3. CASE ~(row.owner \in users /\ row.name <= NameMax)
  <2>1. TablesOK' /\ OwnersKept
      BY <1>3, SameTables DEF Insert
  <2> QED BY <1>1, <2>1, FinishKeeps DEF IInv
<1> QED BY <1>2, <1>3

LEMMA CreateStep ==
    ASSUME IInv, NEW p \in Requests, Create(p)
    PROVE  IInv'
<1>1. /\ req[p].step = "write" /\ req[p].op = "create" /\ req[p] \in ReqType
      /\ Brought(req[p]) /\ drawn.timetables < MaxTimetables
      /\ UNCHANGED <<users, shares, deployed, now>>
    BY DEF Create, IInv, ReqsOK
<1>2. req[p].user \in Users /\ req[p].catalog \in DOMAIN Catalogs
    BY <1>1 DEF Brought, ReqType
<1>3. PICK b \in Bodies, s \in Semesters, v \in Versions, n \in NameLengths :
         req[p].arg = Arg(b, s, v, n)
    BY <1>1 DEF Brought, Args
<1>4. PICK row : /\ row = [owner |-> req[p].user, name |-> req[p].arg.name,
                           semester |-> req[p].arg.semester,
                           version |-> IF req[p].arg.version # None THEN req[p].arg.version
                                       ELSE Catalogs[req[p].catalog].version,
                           items |-> req[p].arg.items, favorite |-> FALSE]
                 /\ Insert(p, row)
    BY DEF Create
<1>5. n \in Nat
    BY TimetableAssumption
<1>6. row \in WideRow
    BY <1>2, <1>3, <1>4, <1>5 DEF Arg, WideRow
<1> QED BY <1>1, <1>4, <1>6, InsertStep

LEMMA CopyStep ==
    ASSUME IInv, NEW p \in Requests, Copy(p)
    PROVE  IInv'
<1>1. /\ req[p].step = "write" /\ req[p].op \in {"copy", "shared_copy"} /\ req[p] \in ReqType
      /\ Brought(req[p]) /\ drawn.timetables < MaxTimetables
      /\ UNCHANGED <<users, shares, deployed, now>>
    BY DEF Copy, IInv, ReqsOK
<1>2. req[p].user \in Users /\ req[p].row \in Row
    BY <1>1 DEF Brought
<1>3. PICK n \in Names : req[p].arg = Arg(<< >>, None, None, n)
    BY <1>1 DEF Brought, Args
<1>4. PICK row : /\ row = [req[p].row EXCEPT !.owner = req[p].user,
                                             !.name = CopyName(req[p].arg, req[p].row),
                                             !.favorite = FALSE]
                 /\ Insert(p, row)
    BY DEF Copy
<1>5. CopyName(req[p].arg, req[p].row) \in Nat
  <2>1. req[p].row.name \in Nat /\ req[p].arg.name = n
      BY <1>2, <1>3, TimetableAssumption DEF Row, Arg
  <2>2. n # None => n \in Nat
      BY TimetableAssumption DEF Names
  <2>3. req[p].row.name + CopySuffix \in Nat
      BY <2>1, TimetableAssumption
  <2> QED BY <2>1, <2>2, <2>3 DEF CopyName
<1>6. row \in WideRow
    BY <1>2, <1>4, <1>5 DEF Row, WideRow
<1> QED BY <1>1, <1>4, <1>6, InsertStep

(* A step that rewrites one row and keeps its owner.                       *)
LEMMA RewriteStep ==
    ASSUME IInv, NEW p \in Requests, NEW id \in DOMAIN timetables, NEW row \in Row,
           row.owner = timetables[id].owner,
           timetables' = [timetables EXCEPT ![id] = row],
           \E status \in Nat : Finish(p, status),
           UNCHANGED <<users, shares, drawn, deployed, now>>
    PROVE  IInv'
<1>1. /\ DOMAIN timetables' = DOMAIN timetables
      /\ timetables' \in [DOMAIN timetables' -> Row]
      /\ \A t \in DOMAIN timetables : timetables'[t].owner = timetables[t].owner
    BY DEF IInv, TablesOK
<1>2. TablesOK'
    BY <1>1 DEF IInv, TablesOK, ReferencesHold
<1>3. drawn.timetables <= drawn.timetables /\ deployed <= deployed
    BY TimetableAssumption DEF IInv, TablesOK, Drawn
<1>4. OwnersKept
    BY <1>1, <1>3 DEF OwnersKept
<1> QED BY <1>2, <1>4, FinishKeeps DEF IInv

LEMMA UpdateStep ==
    ASSUME IInv, NEW p \in Requests, Update(p)
    PROVE  IInv'
<1>1. /\ req[p].step = "write" /\ req[p].op \in {"update", "favorite"}
      /\ req[p] \in ReqType /\ Brought(req[p])
      /\ UNCHANGED <<users, shares, drawn, deployed, now>>
    BY DEF Update, IInv, ReqsOK
<1>2. \E status \in Nat : Finish(p, status)
  <2>1. UpdateStatus(p) \in Nat
      BY DEF UpdateStatus, OwnedStatus
  <2> QED BY <2>1 DEF Update
<1>3. CASE UpdateStatus(p) # 200
  <2>1. TablesOK' /\ OwnersKept
      BY <1>3, SameTables DEF Update
  <2> QED BY <1>2, <2>1, FinishKeeps DEF IInv
<1>4. CASE UpdateStatus(p) = 200
  <2>1. PICK id : id = req[p].id /\ id \in DOMAIN timetables
      BY <1>4 DEF UpdateStatus, OwnedStatus
  <2>2. timetables[id] \in Row
      BY <2>1 DEF IInv, TablesOK
  <2>3. PICK row : /\ row = IF req[p].op = "update" THEN Updated(timetables[id], req[p].arg)
                            ELSE [timetables[id] EXCEPT !.favorite = req[p].arg.favorite]
                   /\ timetables' = [timetables EXCEPT ![id] = row]
      BY <1>4, <2>1 DEF Update
  <2>4. CASE req[p].op = "update"
    <3>1. PICK v \in Versions, n \in Names : req[p].arg = Arg(<< >>, None, v, n)
        BY <1>1, <2>4 DEF Brought, Args
    <3>2. n # None
        BY <1>4, <2>4, <3>1 DEF UpdateStatus, Arg
    <3>3. n \in 0..NameMax
        BY <3>2, TimetableAssumption DEF Names
    <3>4. row = [timetables[id] EXCEPT !.name = n, !.version = v]
        BY <2>3, <2>4, <3>1 DEF Updated, Arg
    <3>5. row \in Row /\ row.owner = timetables[id].owner
        BY <2>2, <3>3, <3>4 DEF Row
    <3> QED BY <1>1, <1>2, <2>1, <2>3, <3>5, RewriteStep
  <2>5. CASE req[p].op = "favorite"
    <3>1. PICK f \in BOOLEAN : req[p].arg = [NoArg EXCEPT !.favorite = f]
        BY <1>1, <2>5 DEF Brought, Args
    <3>2. req[p].arg.favorite \in BOOLEAN
        BY <3>1 DEF NoArg, Arg
    <3>3. row \in Row /\ row.owner = timetables[id].owner
        BY <2>2, <2>3, <2>5, <3>2 DEF Row
    <3> QED BY <1>1, <1>2, <2>1, <2>3, <3>3, RewriteStep
  <2> QED BY <1>1, <2>4, <2>5
<1> QED BY <1>3, <1>4

LEMMA UpdateSectionsStep ==
    ASSUME IInv, NEW p \in Requests, UpdateSections(p)
    PROVE  IInv'
<1>1. /\ req[p].step = "write" /\ req[p].op = "sections" /\ req[p] \in ReqType
      /\ Brought(req[p]) /\ UNCHANGED <<users, shares, drawn, deployed, now>>
    BY DEF UpdateSections, IInv, ReqsOK
<1>2. \E status \in Nat : Finish(p, status)
    BY DEF UpdateSections
<1>3. CASE req[p].id \notin DOMAIN timetables
  <2>1. TablesOK' /\ OwnersKept
      BY <1>3, SameTables DEF UpdateSections
  <2> QED BY <1>2, <2>1, FinishKeeps DEF IInv
<1>4. CASE req[p].id \in DOMAIN timetables
  <2>1. PICK id \in DOMAIN timetables : id = req[p].id
      BY <1>4
  <2>2. PICK b \in Bodies, v \in Versions : req[p].arg = Arg(b, None, v, None)
      BY <1>1 DEF Brought, Args
  <2>3. PICK row : /\ row = WithItems(timetables[id], req[p])
                   /\ timetables' = [timetables EXCEPT ![id] = row]
      BY <1>4, <2>1 DEF UpdateSections
  <2>4. timetables[id] \in Row
      BY <2>1 DEF IInv, TablesOK
  <2>5. PICK version : version = IF v # None THEN v ELSE timetables[id].version
      OBVIOUS
  <2>6. row = [timetables[id] EXCEPT !.items = b, !.version = version]
      BY <2>2, <2>3, <2>4, <2>5 DEF WithItems, Arg, Row
  <2>7. row \in Row /\ row.owner = timetables[id].owner
      BY <2>4, <2>5, <2>6 DEF Row
  <2> QED BY <1>1, <1>2, <2>1, <2>3, <2>7, RewriteStep
<1> QED BY <1>3, <1>4

(* A step that deletes rows together with all links to them.               *)
LEMMA RemoveStep ==
    ASSUME IInv, NEW p \in Requests, NEW rows, NEW links, NEW kept \in SUBSET users,
           timetables' = Without(timetables, rows), shares' = Without(shares, links),
           users' = kept,
           \A t \in DOMAIN timetables : t \notin rows => timetables[t].owner \in kept,
           \A s \in DOMAIN shares : s \notin links => shares[s].timetable \notin rows,
           \E status \in Nat : Finish(p, status),
           UNCHANGED <<drawn, deployed, now>>
    PROVE  IInv'
<1>1. /\ DOMAIN timetables' = DOMAIN timetables \ rows
      /\ \A t \in DOMAIN timetables' : timetables'[t] = timetables[t]
      /\ DOMAIN shares' = DOMAIN shares \ links
      /\ \A s \in DOMAIN shares' : shares'[s] = shares[s]
    BY DEF Without
<1>2. timetables' \in [DOMAIN timetables' -> Row]
  <2>1. timetables' = [t \in DOMAIN timetables' |-> timetables'[t]]
      BY DEF Without
  <2>2. \A t \in DOMAIN timetables' : timetables'[t] \in Row
      BY <1>1 DEF IInv, TablesOK
  <2> QED BY <2>1, <2>2
<1>3. shares' \in [DOMAIN shares' -> ShareRow]
  <2>1. shares' = [s \in DOMAIN shares' |-> shares'[s]]
      BY DEF Without
  <2>2. \A s \in DOMAIN shares' : shares'[s] \in ShareRow
      BY <1>1 DEF IInv, TablesOK
  <2> QED BY <2>1, <2>2
<1>4. ReferencesHold'
    BY <1>1 DEF IInv, TablesOK, ReferencesHold
<1>5. /\ \A t \in DOMAIN timetables' : t \in 1..drawn.timetables
      /\ \A s \in DOMAIN shares' : /\ s \in 1..drawn.shares
                                   /\ shares'[s].timetable \in 1..drawn.timetables
    BY <1>1 DEF IInv, TablesOK
<1>6. TablesOK'
    BY <1>2, <1>3, <1>4, <1>5 DEF IInv, TablesOK
<1>7. drawn.timetables <= drawn.timetables /\ deployed <= deployed
    BY TimetableAssumption DEF IInv, TablesOK, Drawn
<1>8. OwnersKept
    BY <1>1, <1>7 DEF OwnersKept
<1> QED BY <1>6, <1>8, FinishKeeps DEF IInv

LEMMA DeleteStep ==
    ASSUME IInv, NEW p \in Requests, Delete(p)
    PROVE  IInv'
<1>1. /\ shares' = Without(shares, SharesOf({req[p].id}))
      /\ timetables' = Without(timetables, {req[p].id})
      /\ users' = users /\ UNCHANGED <<drawn, deployed, now>>
      /\ \E status \in Nat : Finish(p, status)
    BY DEF Delete
<1>2. \A t \in DOMAIN timetables : t \notin {req[p].id} => timetables[t].owner \in users
    BY DEF IInv, TablesOK, ReferencesHold
<1>3. \A s \in DOMAIN shares : s \notin SharesOf({req[p].id}) =>
                                   shares[s].timetable \notin {req[p].id}
    BY DEF SharesOf
<1>4. users \in SUBSET users
    OBVIOUS
<1> QED BY <1>1, <1>2, <1>3, <1>4, RemoveStep

LEMMA LeaveStep ==
    ASSUME IInv, NEW p \in Requests, Leave(p)
    PROVE  IInv'
<1>1. PICK u : u = req[p].user
    OBVIOUS
<1>2. PICK links : links = SharesOf(OwnedBy(u)) \cup {s \in DOMAIN shares : shares[s].creator = u}
    OBVIOUS
<1>3. /\ shares' = Without(shares, links) /\ timetables' = Without(timetables, OwnedBy(u))
      /\ users' = users \ {u} /\ UNCHANGED <<drawn, deployed, now>>
      /\ \E status \in Nat : Finish(p, status)
    BY <1>1, <1>2 DEF Leave
<1>4. \A t \in DOMAIN timetables : t \notin OwnedBy(u) => timetables[t].owner \in users \ {u}
    BY DEF OwnedBy, IInv, TablesOK, ReferencesHold
<1>5. \A s \in DOMAIN shares : s \notin links => shares[s].timetable \notin OwnedBy(u)
    BY <1>2 DEF SharesOf
<1>6. users \ {u} \in SUBSET users
    OBVIOUS
<1> QED BY <1>3, <1>4, <1>5, <1>6, RemoveStep

LEMMA CreateShareStep ==
    ASSUME IInv, NEW p \in Requests, CreateShare(p)
    PROVE  IInv'
<1>1. /\ req[p].step = "write" /\ req[p].op = "share" /\ req[p] \in ReqType
      /\ Brought(req[p]) /\ Entitled(req[p]) /\ drawn.shares < MaxShares
      /\ UNCHANGED <<users, timetables, deployed, now>>
    BY DEF CreateShare, IInv, ReqsOK
<1>2. \E status \in Nat : Finish(p, status)
    BY DEF CreateShare
<1>3. CASE ~LinkReferences(req[p])
  <2>1. TablesOK' /\ OwnersKept
      BY <1>3, SameTables DEF CreateShare
  <2> QED BY <1>2, <2>1, FinishKeeps DEF IInv
<1>4. CASE LinkReferences(req[p])
  <2>1. PICK id : id = req[p].id /\ id \in DOMAIN timetables
      BY <1>4 DEF LinkReferences
  <2>2. req[p].user \in Users /\ timetables[id].owner = req[p].user
        /\ id \in 1..drawn.timetables /\ id \in Nat
      BY <1>1, <2>1 DEF Brought, Entitled, ReqType
  <2>3. req[p].arg.expires \in {None} \cup 0..MaxTime
    <3>1. PICK e \in {None} \cup 0..MaxTime : req[p].arg = [NoArg EXCEPT !.expires = e]
        BY <1>1 DEF Brought, Args
    <3> QED BY <3>1 DEF NoArg, Arg
  <2>4. PICK link : /\ link = [timetable |-> id, creator |-> req[p].user,
                               expires |-> req[p].arg.expires]
                    /\ shares' = Put(shares, drawn.shares + 1, link)
                    /\ drawn' = [drawn EXCEPT !.shares = @ + 1]
      BY <1>4, <2>1 DEF CreateShare
  <2>5. link \in ShareRow /\ link.timetable = id /\ link.creator = timetables[id].owner
      BY <2>2, <2>3, <2>4 DEF ShareRow
  <2>6. PICK n \in Nat : n = drawn.shares /\ n < MaxShares
      BY <1>1, TimetableAssumption DEF IInv, TablesOK, Drawn
  <2>7. drawn' \in Drawn /\ drawn'.shares = n + 1 /\ drawn'.timetables = drawn.timetables
      BY <2>4, <2>6, TimetableAssumption DEF IInv, TablesOK, Drawn
  <2>8. /\ DOMAIN shares' = DOMAIN shares \cup {n + 1}
        /\ shares'[n + 1] = link
        /\ \A s \in DOMAIN shares : s \in 1..n /\ s # n + 1
        /\ \A s \in DOMAIN shares : shares'[s] = shares[s]
    <3>1. \A s \in DOMAIN shares : s \in 1..n /\ s # n + 1
        BY <2>6 DEF IInv, TablesOK
    <3> QED BY <2>4, <2>6, <3>1 DEF Put
  <2>9. shares' \in [DOMAIN shares' -> ShareRow]
    <3>1. shares' = [s \in DOMAIN shares' |-> shares'[s]]
        BY <2>4 DEF Put
    <3>2. \A s \in DOMAIN shares' : shares'[s] \in ShareRow
        BY <2>5, <2>8 DEF IInv, TablesOK
    <3> QED BY <3>1, <3>2
  <2>10. ReferencesHold'
      BY <1>1, <2>1, <2>5, <2>8 DEF IInv, TablesOK, ReferencesHold
  <2>11. \A s \in DOMAIN shares' : /\ s \in 1..drawn'.shares
                                   /\ shares'[s].timetable \in 1..drawn'.timetables
      BY <2>2, <2>5, <2>6, <2>7, <2>8 DEF IInv, TablesOK
  <2>12. TablesOK'
      BY <1>1, <2>7, <2>9, <2>10, <2>11 DEF IInv, TablesOK
  <2>13. OwnersKept
    <3>1. drawn.timetables <= drawn'.timetables /\ deployed <= deployed'
        BY <1>1, <2>7, TimetableAssumption DEF IInv, TablesOK, Drawn
    <3> QED BY <1>1, <3>1 DEF OwnersKept
  <2> QED BY <1>2, <2>12, <2>13, FinishKeeps DEF IInv
<1> QED BY <1>3, <1>4
-----------------------------------------------------------------------------
(* The steps of the surroundings, and the invariant.                       *)
LEMMA WorldStep ==
    ASSUME IInv, Deploy \/ Tick
    PROVE  IInv'
<1>1. UNCHANGED <<users, timetables, shares, drawn, req>>
    BY DEF Deploy, Tick
<1>2. /\ deployed' \in DOMAIN Catalogs /\ deployed <= deployed' /\ now' \in 0..MaxTime
    BY TimetableAssumption DEF Deploy, Tick, IInv, TablesOK
<1>3. TablesOK'
    BY <1>1, <1>2 DEF IInv, TablesOK, ReferencesHold
<1>4. drawn.timetables <= drawn.timetables
    BY TimetableAssumption DEF IInv, TablesOK, Drawn
<1>5. OwnersKept
    BY <1>1, <1>2, <1>4 DEF OwnersKept
<1>6. \A q \in Requests : Brought(req[q])' /\ Entitled(req[q])'
    BY <1>1, <1>3, <1>5, OthersKeep
<1> QED BY <1>1, <1>3, <1>6 DEF IInv, ReqsOK

LEMMA InitOK == Init => IInv
<1> SUFFICES ASSUME Init PROVE IInv
    OBVIOUS
<1>1. 1 \in DOMAIN Catalogs /\ 0 \in 0..MaxTime /\ 0 \in 0..MaxTimetables /\ 0 \in 0..MaxShares
    BY TimetableAssumption
<1>2. TablesOK
    BY <1>1 DEF Init, TablesOK, ReferencesHold, Drawn
<1>3. req \in [Requests -> ReqType] /\ \A p \in Requests : req[p] = NoReq
    BY NoReqTyped DEF Init
<1>4. NoReq.step = "idle" /\ NoReq.catalog \in 1..deployed
    BY NoReqTyped DEF Init
<1>5. \A p \in Requests : Brought(req[p]) /\ Entitled(req[p])
    BY <1>3, <1>4 DEF Brought, Entitled
<1> QED BY <1>2, <1>3, <1>5 DEF IInv, ReqsOK

LEMMA NextOK ==
    ASSUME IInv, [Next]_vars
    PROVE  IInv'
<1>1. CASE UNCHANGED vars
  <2>1. TablesOK' /\ OwnersKept /\ req' = req
      BY <1>1, SameTables DEF vars
  <2>2. \A q \in Requests : Brought(req[q])' /\ Entitled(req[q])'
      BY <2>1, OthersKeep
  <2> QED BY <2>1, <2>2 DEF IInv, ReqsOK
<1>2. CASE BeginAny
    BY <1>2, BeginStep DEF BeginAny
<1>3. ASSUME NEW p \in Requests, Step(p) PROVE IInv'
    BY <1>3, CheckOwnedStep, CreateStep, ListStep, UpdateStep, UpdateSectionsStep, DeleteStep,
       CopyStep, CreateShareStep, ReadShareStep, ReadSharedStep, LeaveStep DEF Step
<1>4. CASE Deploy \/ Tick
    BY <1>4, WorldStep
<1> QED BY <1>1, <1>2, <1>3, <1>4 DEF Next

(* The tables and the requests in progress stay consistent, whatever falls *)
(* between the transactions of api/routes/timetables.py.                   *)
THEOREM Invariance == Spec => []IInv
BY InitOK, NextOK, PTL DEF Spec

(* Every table and every request has its type: a stored name fits its      *)
(* column for any length of names and of the suffix of copies.             *)
THEOREM TypeCorrect == Spec => []TypeOK
<1>1. IInv => TypeOK
  <2> SUFFICES ASSUME IInv PROVE TypeOK
      OBVIOUS
  <2>1. \A s \in DOMAIN shares :
           shares[s] \in [timetable : 1..drawn.timetables, creator : Users,
                          expires : {None} \cup 0..MaxTime]
      BY DEF IInv, TablesOK, ShareRow
  <2>2. ASSUME NEW p \in Requests
        PROVE  /\ req[p].step \in {"idle", "check", "write", "read_share", "read_timetable"}
               /\ req[p].step # "idle" => req[p].op \in Ops
               /\ req[p].row \in Row \cup {NoRow} /\ req[p].catalog \in 1..deployed
      BY DEF IInv, ReqsOK, ReqType, Steps, Brought
  <2> QED BY <2>1, <2>2 DEF TypeOK, IInv, TablesOK, Drawn
<1> QED BY <1>1, Invariance, PTL

(* No row refers to a row that is gone, and every link is by the owner of  *)
(* what it shows, for any number of concurrent requests and deletions.     *)
THEOREM ReferencesCorrect == Spec => []ReferencesHold
<1>1. IInv => ReferencesHold
    BY DEF IInv, TablesOK
<1> QED BY <1>1, Invariance, PTL
-----------------------------------------------------------------------------
(* Who writes.  A step touches rows of one student only, and ends a        *)
(* request of that student.                                                *)
Rows == DOMAIN timetables \cup DOMAIN timetables'

OwnerOf(t) == IF t \in DOMAIN timetables THEN timetables[t].owner ELSE timetables'[t].owner

Same(t) == /\ t \in DOMAIN timetables /\ t \in DOMAIN timetables'
           /\ timetables[t] = timetables'[t]

LEMMA SameRows ==
    ASSUME timetables' = timetables, NEW t \in Rows
    PROVE  Same(t)
BY DEF Rows, Same

LEMMA InsertOwn ==
    ASSUME IInv, NEW p \in Requests, NEW row, row.owner = req[p].user, Insert(p, row),
           NEW t \in Rows
    PROVE  Same(t) \/ OwnerOf(t) = req[p].user
<1>1. CASE timetables' = timetables
    BY <1>1, SameRows
<1>2. CASE timetables' = Put(timetables, drawn.timetables + 1, row)
  <2>1. PICK n \in Nat : n = drawn.timetables
      BY TimetableAssumption DEF IInv, TablesOK, Drawn
  <2>2. \A x \in DOMAIN timetables : x # n + 1
      BY <2>1 DEF IInv, TablesOK
  <2> QED BY <1>2, <2>1, <2>2 DEF Put, Rows, Same, OwnerOf
<1> QED BY <1>1, <1>2 DEF Insert

LEMMA StepOwn ==
    ASSUME IInv, NEW p \in Requests, Step(p), NEW t \in Rows
    PROVE  Same(t) \/ (OwnerOf(t) = req[p].user /\ req[p].step = "write"
                       /\ \E status \in Nat : Finish(p, status))
<1>1. CASE CheckOwned(p) \/ List(p) \/ CreateShare(p) \/ ReadShare(p) \/ ReadShared(p)
  <2>1. timetables' = timetables
      BY <1>1 DEF CheckOwned, List, CreateShare, ReadShare, ReadShared
  <2> QED BY <2>1, SameRows
<1>2. CASE Create(p)
  <2>1. PICK row : row.owner = req[p].user /\ Insert(p, row)
      BY <1>2 DEF Create
  <2>2. req[p].step = "write" /\ \E status \in Nat : Finish(p, status)
      BY <1>2, <2>1 DEF Create, Insert
  <2> QED BY <2>1, <2>2, InsertOwn
<1>3. CASE Copy(p)
  <2>1. req[p].row \in Row
      BY <1>3 DEF Copy, IInv, ReqsOK, Brought
  <2>2. PICK row : row.owner = req[p].user /\ Insert(p, row)
      BY <1>3, <2>1 DEF Copy, Row
  <2>3. req[p].step = "write" /\ \E status \in Nat : Finish(p, status)
      BY <1>3, <2>2 DEF Copy, Insert
  <2> QED BY <2>2, <2>3, InsertOwn
<1>4. CASE Update(p)
  <2>1. UpdateStatus(p) \in Nat
      BY DEF UpdateStatus, OwnedStatus
  <2>2. req[p].step = "write" /\ \E status \in Nat : Finish(p, status)
      BY <1>4, <2>1 DEF Update
  <2>3. CASE UpdateStatus(p) # 200
    <3>1. timetables' = timetables
        BY <1>4, <2>3 DEF Update
    <3> QED BY <3>1, SameRows
  <2>4. CASE UpdateStatus(p) = 200
    <3>1. /\ req[p].id \in DOMAIN timetables
          /\ timetables[req[p].id].owner = req[p].user
        BY <2>4 DEF UpdateStatus, OwnedStatus
    <3>2. \E row : timetables' = [timetables EXCEPT ![req[p].id] = row]
        BY <1>4, <2>4 DEF Update
    <3>3. \A x \in DOMAIN timetables \ {req[p].id} : timetables'[x] = timetables[x]
        BY <3>2
    <3>4. DOMAIN timetables' = DOMAIN timetables
        BY <3>2
    <3> QED BY <2>2, <3>1, <3>3, <3>4 DEF Rows, Same, OwnerOf
  <2> QED BY <2>3, <2>4
<1>5. CASE UpdateSections(p)
  <2>1. /\ req[p].step = "write" /\ req[p].op = "sections"
        /\ \E status \in Nat : Finish(p, status)
      BY <1>5 DEF UpdateSections
  <2>2. CASE req[p].id \notin DOMAIN timetables
      BY <1>5, <2>2, SameRows DEF UpdateSections
  <2>3. CASE req[p].id \in DOMAIN timetables
    <3>1. timetables[req[p].id].owner = req[p].user
        BY <2>1, <2>3 DEF IInv, ReqsOK, Entitled
    <3>2. \E row : timetables' = [timetables EXCEPT ![req[p].id] = row]
        BY <1>5, <2>3 DEF UpdateSections
    <3>3. /\ \A x \in DOMAIN timetables \ {req[p].id} : timetables'[x] = timetables[x]
          /\ DOMAIN timetables' = DOMAIN timetables
        BY <3>2
    <3> QED BY <2>1, <2>3, <3>1, <3>3 DEF Rows, Same, OwnerOf
  <2> QED BY <2>2, <2>3
<1>6. CASE Delete(p)
  <2>1. /\ req[p].step = "write" /\ req[p].op = "delete"
        /\ \E status \in Nat : Finish(p, status)
        /\ timetables' = Without(timetables, {req[p].id})
      BY <1>6 DEF Delete
  <2>2. req[p].id \in DOMAIN timetables => timetables[req[p].id].owner = req[p].user
      BY <2>1 DEF IInv, ReqsOK, Entitled
  <2> QED BY <2>1, <2>2 DEF Without, Rows, Same, OwnerOf
<1>7. CASE Leave(p)
  <2>1. /\ req[p].step = "write" /\ \E status \in Nat : Finish(p, status)
        /\ timetables' = Without(timetables, OwnedBy(req[p].user))
      BY <1>7 DEF Leave
  <2> QED BY <2>1 DEF Without, OwnedBy, Rows, Same, OwnerOf
<1> QED BY <1>1, <1>2, <1>3, <1>4, <1>5, <1>6, <1>7 DEF Step

LEMMA OwnerStep ==
    ASSUME IInv, IInv', [Next]_vars, NEW t \in Rows
    PROVE  Same(t) \/ \E p \in Requests : req[p].step = "write" /\ req'[p].step = "idle"
                                         /\ req[p].user = OwnerOf(t)
<1>1. CASE timetables' = timetables
    BY <1>1, SameRows
<1>2. ASSUME NEW p \in Requests, Step(p)
      PROVE  Same(t) \/ (req[p].step = "write" /\ req'[p].step = "idle"
                         /\ req[p].user = OwnerOf(t))
  <2>1. \/ Same(t)
        \/ OwnerOf(t) = req[p].user /\ req[p].step = "write"
           /\ \E status \in Nat : Finish(p, status)
      BY <1>2, StepOwn
  <2>2. ASSUME \E status \in Nat : Finish(p, status)
        PROVE  req'[p].step = "idle"
    <3>1. \E status \in Nat : req'[p] = [NoReq EXCEPT !.op = req[p].op, !.status = status]
        BY <2>2 DEF Finish, IInv, ReqsOK
    <3> QED BY <3>1 DEF NoReq
  <2> QED BY <2>1, <2>2
<1>3. \/ timetables' = timetables
      \/ \E p \in Requests : Step(p)
    BY DEF Next, vars, BeginAny, Begin, Deploy, Tick
<1> QED BY <1>1, <1>2, <1>3

(* A saved timetable changes, appears or disappears only when a request of *)
(* its owner finishes its write, for any number of concurrent requests.    *)
THEOREM OwnerCorrect == Spec => OnlyOwnerWrites
<1>1. ASSUME IInv, IInv', [Next]_vars
      PROVE  [\A t \in DOMAIN timetables \cup DOMAIN timetables' :
                 LET owner == IF t \in DOMAIN timetables THEN timetables[t].owner
                              ELSE timetables'[t].owner
                     same == t \in DOMAIN timetables /\ t \in DOMAIN timetables'
                             /\ timetables[t] = timetables'[t]
                 IN  same \/ \E p \in Requests : req[p].step = "write"
                                /\ req'[p].step = "idle" /\ req[p].user = owner]_vars
    BY <1>1, OwnerStep DEF Rows, Same, OwnerOf
<1> QED BY <1>1, Invariance, PTL DEF Spec, OnlyOwnerWrites
-----------------------------------------------------------------------------
(* What _validate_items lets through.  It compares sizes of sets and pairs *)
(* of meetings; what it shall ensure is stated by positions and minutes.   *)

(* As many values as places: no value at two places.                       *)
LEMMA SizeDistinct ==
    ASSUME NEW S, NEW T, IsFiniteSet(S), Cardinality(T) = Cardinality(S),
           NEW f \in [S -> T], \A t \in T : \E z \in S : f[z] = t,
           NEW x \in S, NEW y \in S, x # y
    PROVE  f[x] # f[y]
<1>1. f \in Surjection(S, T)
    BY DEF Surjection
<1>2. f \in Injection(S, T)
    BY <1>1, FS_SurjSameCardinalityImpliesInj
<1> QED BY <1>2 DEF Injection, IsInjective

LEMMA UpTo ==
    ASSUME NEW k \in Nat
    PROVE  IsFiniteSet(1..k) /\ Cardinality(1..k) = k
<1>1. 1 \in Int /\ k \in Int
    OBVIOUS
<1>2. IsFiniteSet(1..k) /\ Cardinality(1..k) = IF 1 > k THEN 0 ELSE k - 1 + 1
    BY <1>1, FS_Interval
<1> QED BY <1>2

(* Two sections of which no two meetings clash share no minute.            *)
LEMMA NoClashNoMinute ==
    ASSUME NEW a, NEW b, ~Clash(a, b) \/ ~Clash(b, a),
           \A m \in a.meetings : m.start \in Int /\ m.end \in Int,
           \A m \in b.meetings : m.start \in Int /\ m.end \in Int
    PROVE  MinutesOf(a) \cap MinutesOf(b) = {}
<1> SUFFICES ASSUME NEW x \in MinutesOf(a), x \in MinutesOf(b) PROVE FALSE
    OBVIOUS
<1>1. PICK m \in a.meetings : x \in {<<m.day, t>> : t \in m.start..(m.end - 1)}
    BY DEF MinutesOf
<1>2. PICK n \in b.meetings : x \in {<<n.day, t>> : t \in n.start..(n.end - 1)}
    BY DEF MinutesOf
<1>3. PICK t \in m.start..(m.end - 1) : x = <<m.day, t>>
    BY <1>1
<1>4. PICK s \in n.start..(n.end - 1) : x = <<n.day, s>>
    BY <1>2
<1>5. m.day = n.day /\ s = t
    BY <1>3, <1>4
<1>6. PICK ms \in Int, me \in Int, ns \in Int, ne \in Int :
         ms = m.start /\ me = m.end /\ ns = n.start /\ ne = n.end
    OBVIOUS
<1>7. t \in ms..(me - 1) /\ t \in ns..(ne - 1)
    BY <1>5, <1>6
<1>8. ms < ne /\ ns < me
    BY <1>7
<1>9. Meet(m, n) /\ Meet(n, m)
    BY <1>5, <1>6, <1>8 DEF Meet
<1> QED BY <1>9 DEF Clash

(* A list of items that is accepted can be attended, by the catalog of the *)
(* process that checked it.                                                *)
LEMMA AcceptedIsAttendable ==
    ASSUME NEW items \in Bodies, NEW semester, NEW version, NEW c \in DOMAIN Catalogs,
           ValidateItems(items, semester, version, c) = 200
    PROVE  semester = Catalogs[c].semester /\ Attendable(items, Catalogs[c].sections)
<1> DEFINE sections == Catalogs[c].sections
           active == ActiveSections(c, semester, items)
           shown == {m \in DOMAIN items : IsActive(items[m]) /\ items[m].section \in DOMAIN sections}
           ids == [n \in DOMAIN items |-> items[n].section]
           codes == [n \in shown |-> active[n].course]
<1>1. /\ semester = Catalogs[c].semester
      /\ Cardinality({items[n].section : n \in DOMAIN items}) = Len(items)
      /\ {items[n].section : n \in DOMAIN items} \ DOMAIN sections = {}
      /\ Cardinality({active[n].course : n \in DOMAIN active}) = Cardinality(DOMAIN active)
      /\ Conflicts(active) = {}
    BY DEF ValidateItems
<1>2. active = [n \in shown |-> sections[items[n].section]] /\ DOMAIN active = shown
    BY <1>1 DEF ActiveSections, KnownIn
<1>3. /\ Len(items) \in Nat /\ DOMAIN items = 1..Len(items)
      /\ IsFiniteSet(DOMAIN items) /\ Cardinality(DOMAIN items) = Len(items)
  <2>1. PICK k \in Nat : k = Len(items) /\ DOMAIN items = 1..k
      BY TimetableAssumption
  <2>2. IsFiniteSet(1..k) /\ Cardinality(1..k) = k
      BY UpTo
  <2> QED BY <2>1, <2>2
<1>4. IsFiniteSet(shown)
    BY <1>3, FS_Subset
<1>5. ASSUME NEW i \in DOMAIN items
      PROVE  items[i].section \in DOMAIN sections
    BY <1>1
<1>6. ASSUME NEW i \in DOMAIN items, NEW j \in DOMAIN items, i # j
      PROVE  items[i].section # items[j].section
  <2>1. PICK T : T = {items[n].section : n \in DOMAIN items}
      OBVIOUS
  <2>2. ids \in [DOMAIN items -> T] /\ \A t \in T : \E n \in DOMAIN items : ids[n] = t
      BY <2>1
  <2>3. Cardinality(T) = Cardinality(DOMAIN items)
      BY <1>1, <1>3, <2>1
  <2>4. ids[i] # ids[j]
    <3> HIDE DEF ids
    <3> QED BY <1>3, <1>6, <2>2, <2>3, SizeDistinct
  <2> QED BY <2>4
<1>7. ASSUME NEW i \in shown, NEW j \in shown, i # j
      PROVE  /\ sections[items[i].section].course # sections[items[j].section].course
             /\ MinutesOf(sections[items[i].section]) \cap MinutesOf(sections[items[j].section]) = {}
  <2>1. PICK T : T = {active[n].course : n \in DOMAIN active}
      OBVIOUS
  <2>2. codes \in [shown -> T] /\ \A t \in T : \E n \in shown : codes[n] = t
    <3> HIDE DEF active, shown
    <3> QED BY <1>2, <2>1
  <2>3. Cardinality(T) = Cardinality(shown)
    <3> HIDE DEF active, shown
    <3> QED BY <1>1, <1>2, <2>1
  <2>4. codes[i] # codes[j]
    <3> HIDE DEF codes, shown
    <3> QED BY <1>4, <1>7, <2>2, <2>3, SizeDistinct
  <2>5. sections[items[i].section].course # sections[items[j].section].course
      BY <1>2, <2>4
  <2>6. i < j => ~Clash(active[i], active[j])
    <3> SUFFICES ASSUME i < j, Clash(active[i], active[j]) PROVE FALSE
        OBVIOUS
    <3>1. <<i, j>> \in (DOMAIN active) \X (DOMAIN active)
        BY <1>2
    <3>2. <<i, j>> \in Conflicts(active)
      <4> HIDE DEF active
      <4> QED BY <3>1 DEF Conflicts
    <3> QED BY <1>1, <3>2
  <2>7. j < i => ~Clash(active[j], active[i])
    <3> SUFFICES ASSUME j < i, Clash(active[j], active[i]) PROVE FALSE
        OBVIOUS
    <3>1. <<j, i>> \in (DOMAIN active) \X (DOMAIN active)
        BY <1>2
    <3>2. <<j, i>> \in Conflicts(active)
      <4> HIDE DEF active
      <4> QED BY <3>1 DEF Conflicts
    <3> QED BY <1>1, <3>2
  <2>8. i < j \/ j < i
    <3>1. i \in 1..Len(items) /\ j \in 1..Len(items)
        BY <1>3
    <3> QED BY <1>3, <1>7, <3>1
  <2>9. PICK a, b : a = sections[items[i].section] /\ b = sections[items[j].section]
      OBVIOUS
  <2>10. ~Clash(a, b) \/ ~Clash(b, a)
      BY <1>2, <2>6, <2>7, <2>8, <2>9
  <2>11. /\ \A m \in a.meetings : m.start \in Int /\ m.end \in Int
         /\ \A m \in b.meetings : m.start \in Int /\ m.end \in Int
      BY <2>9, TimetableAssumption
  <2>12. MinutesOf(a) \cap MinutesOf(b) = {}
      BY <2>10, <2>11, NoClashNoMinute
  <2> QED BY <2>5, <2>9, <2>12
<1>8. ASSUME NEW i \in DOMAIN items, NEW j \in DOMAIN items, i # j,
             IsActive(items[i]), IsActive(items[j])
      PROVE  /\ sections[items[i].section].course # sections[items[j].section].course
             /\ MinutesOf(sections[items[i].section]) \cap MinutesOf(sections[items[j].section]) = {}
  <2>1. i \in shown /\ j \in shown
      BY <1>5, <1>8
  <2> HIDE DEF shown
  <2> QED BY <1>7, <1>8, <2>1
<1> HIDE DEF sections, active, shown, ids, codes
<1>9. Attendable(items, sections)
    BY <1>5, <1>6, <1>8 DEF Attendable
<1> QED BY <1>1, <1>9 DEF sections
-----------------------------------------------------------------------------
(* That an accepted list stays one: the semester of a row never changes,   *)
(* so what the first transaction of a request has found of the items it    *)
(* sends, or of the row it copies, still holds in the second one.          *)
Allowed(semester, items, top) ==
    \E c \in 1..top : /\ semester = Catalogs[c].semester
                      /\ Attendable(items, Catalogs[c].sections)

(* What a request that is to write brings was accepted.  A new timetable   *)
(* is checked when its request begins, not by _owned.                      *)
Checked(r) ==
    /\ r.step = "check" => r.op # "create"
    /\ r.step = "write" =>
          /\ r.op = "create" => Allowed(r.arg.semester, r.arg.items, deployed)
          /\ r.op = "sections" /\ r.id \in DOMAIN timetables =>
                Allowed(timetables[r.id].semester, r.arg.items, deployed)
          /\ r.op \in {"copy", "shared_copy"} => Allowed(r.row.semester, r.row.items, deployed)

RowsAllowed ==
    \A t \in DOMAIN timetables : Allowed(timetables[t].semester, timetables[t].items, deployed)

ItemsInv == RowsAllowed /\ \A p \in Requests : Checked(req[p])

(* The rows after a step are allowed and have the semester they had.       *)
RowsStay ==
    /\ RowsAllowed' /\ deployed <= deployed' /\ deployed' \in Nat
    /\ \A t \in DOMAIN timetables' :
          t \in 1..drawn.timetables =>
              t \in DOMAIN timetables /\ timetables'[t].semester = timetables[t].semester

LEMMA AllowedLater ==
    ASSUME NEW semester, NEW items, NEW n \in Nat, NEW m \in Nat, n <= m,
           Allowed(semester, items, n)
    PROVE  Allowed(semester, items, m)
<1>1. \A c \in 1..n : c \in 1..m
    OBVIOUS
<1> QED BY <1>1 DEF Allowed

LEMMA AcceptedIsAllowed ==
    ASSUME IInv, NEW items \in Bodies, NEW semester, NEW version, NEW c \in 1..deployed,
           ValidateItems(items, semester, version, c) = 200
    PROVE  Allowed(semester, items, deployed)
<1>1. c \in DOMAIN Catalogs
    BY TimetableAssumption DEF IInv, TablesOK
<1> QED BY <1>1, AcceptedIsAttendable DEF Allowed

(* A request that takes no step keeps what it was allowed.                 *)
LEMMA OthersChecked ==
    ASSUME IInv, ItemsInv, RowsStay, NEW q \in Requests, req'[q] = req[q]
    PROVE  Checked(req[q])'
<1>1. PICK r : r = req[q]
    OBVIOUS
<1>2. r = req'[q] /\ Checked(r) /\ Entitled(r)
    BY <1>1 DEF ItemsInv, IInv, ReqsOK
<1>3. PICK n \in Nat : n = deployed /\ deployed' \in Nat /\ n <= deployed'
    BY TimetableAssumption DEF IInv, TablesOK, RowsStay
<1>4. ASSUME NEW semester, NEW items, Allowed(semester, items, deployed)
      PROVE  Allowed(semester, items, deployed')
    BY <1>3, <1>4, AllowedLater
<1>5. ASSUME r.step = "write", r.op = "create"
      PROVE  Allowed(r.arg.semester, r.arg.items, deployed')
    BY <1>2, <1>4, <1>5 DEF Checked
<1>6. ASSUME r.step = "write", r.op \in {"copy", "shared_copy"}
      PROVE  Allowed(r.row.semester, r.row.items, deployed')
    BY <1>2, <1>4, <1>6 DEF Checked
<1>7. ASSUME r.step = "write", r.op = "sections", r.id \in DOMAIN timetables'
      PROVE  Allowed(timetables'[r.id].semester, r.arg.items, deployed')
  <2>1. r.id \in 1..drawn.timetables
      BY <1>2, <1>7 DEF Entitled
  <2>2. r.id \in DOMAIN timetables /\ timetables'[r.id].semester = timetables[r.id].semester
      BY <1>7, <2>1 DEF RowsStay
  <2> QED BY <1>2, <1>4, <1>7, <2>2 DEF Checked
<1>8. Checked(r)' =
          /\ r.step = "check" => r.op # "create"
          /\ r.step = "write" =>
                /\ r.op = "create" => Allowed(r.arg.semester, r.arg.items, deployed')
                /\ r.op = "sections" /\ r.id \in DOMAIN timetables' =>
                      Allowed(timetables'[r.id].semester, r.arg.items, deployed')
                /\ r.op \in {"copy", "shared_copy"} =>
                      Allowed(r.row.semester, r.row.items, deployed')
    BY DEF Checked, Allowed
<1>9. r.step = "check" => r.op # "create"
    BY <1>2 DEF Checked
<1> QED BY <1>2, <1>9, <1>5, <1>6, <1>7, <1>8

(* A step that moves one request along and keeps the others.               *)
LEMMA MoveChecked ==
    ASSUME IInv, ItemsInv, RowsStay, NEW p \in Requests, NEW r,
           req' = [req EXCEPT ![p] = r], Checked(req[p])'
    PROVE  ItemsInv'
<1>1. ASSUME NEW q \in Requests, q # p PROVE Checked(req[q])'
  <2>1. req'[q] = req[q]
      BY <1>1 DEF IInv, ReqsOK
  <2> QED BY <2>1, OthersChecked
<1>2. \A q \in Requests : Checked(req[q])'
    BY <1>1
<1> QED BY <1>2 DEF ItemsInv, RowsStay

LEMMA FinishChecked ==
    ASSUME IInv, ItemsInv, RowsStay, NEW p \in Requests, \E status \in Nat : Finish(p, status)
    PROVE  ItemsInv'
<1>1. PICK r : \E status \in Nat : /\ r = [NoReq EXCEPT !.op = req[p].op, !.status = status]
                                   /\ req' = [req EXCEPT ![p] = r]
    BY DEF Finish
<1>2. r.step = "idle" /\ req' = [req EXCEPT ![p] = r] /\ req'[p] = r
    BY <1>1 DEF NoReq, IInv, ReqsOK
<1>3. Checked(req[p])'
    BY <1>2 DEF Checked
<1> QED BY <1>2, <1>3, MoveChecked

LEMMA SameRowsStay ==
    ASSUME IInv, ItemsInv, UNCHANGED timetables, deployed <= deployed', deployed' \in Nat
    PROVE  RowsStay
<1>1. PICK n \in Nat : n = deployed
    BY TimetableAssumption DEF IInv, TablesOK
<1>2. RowsAllowed'
  <2>1. ASSUME NEW t \in DOMAIN timetables
        PROVE  Allowed(timetables[t].semester, timetables[t].items, deployed')
    <3>1. Allowed(timetables[t].semester, timetables[t].items, n)
        BY <1>1 DEF ItemsInv, RowsAllowed
    <3> QED BY <1>1, <3>1, AllowedLater
  <2> QED BY <2>1 DEF RowsAllowed, Allowed
<1> QED BY <1>2 DEF RowsStay

(* A step that changes one row, or adds one under a new id.                *)
LEMMA OneRowStays ==
    ASSUME IInv, ItemsInv, NEW id, NEW row, UNCHANGED deployed,
           Allowed(row.semester, row.items, deployed),
           DOMAIN timetables' = DOMAIN timetables \cup {id}, timetables'[id] = row,
           \A t \in DOMAIN timetables : t # id => timetables'[t] = timetables[t],
           \/ id \in DOMAIN timetables /\ row.semester = timetables[id].semester
           \/ id = drawn.timetables + 1
    PROVE  RowsStay
<1>1. deployed \in Nat
    BY TimetableAssumption DEF IInv, TablesOK
<1>2. RowsAllowed'
  <2>1. ASSUME NEW t \in DOMAIN timetables'
        PROVE  Allowed(timetables'[t].semester, timetables'[t].items, deployed)
      BY DEF ItemsInv, RowsAllowed
  <2> QED BY <2>1 DEF RowsAllowed, Allowed
<1>3. drawn.timetables \in Nat
    BY DEF IInv, TablesOK, Drawn
<1>4. ASSUME NEW t \in DOMAIN timetables', t \in 1..drawn.timetables
      PROVE  t \in DOMAIN timetables /\ timetables'[t].semester = timetables[t].semester
    BY <1>3, <1>4
<1> QED BY <1>1, <1>2, <1>4 DEF RowsStay

LEMMA FewerRowsStay ==
    ASSUME IInv, ItemsInv, NEW gone, timetables' = Without(timetables, gone), UNCHANGED deployed
    PROVE  RowsStay
<1>1. deployed \in Nat
    BY TimetableAssumption DEF IInv, TablesOK
<1>2. /\ DOMAIN timetables' \subseteq DOMAIN timetables
      /\ \A t \in DOMAIN timetables' : timetables'[t] = timetables[t]
    BY DEF Without
<1>3. RowsAllowed'
  <2>1. ASSUME NEW t \in DOMAIN timetables'
        PROVE  Allowed(timetables'[t].semester, timetables'[t].items, deployed)
      BY <1>2 DEF ItemsInv, RowsAllowed
  <2> QED BY <2>1 DEF RowsAllowed, Allowed
<1> QED BY <1>1, <1>2, <1>3 DEF RowsStay
-----------------------------------------------------------------------------
LEMMA BeginChecked ==
    ASSUME IInv, ItemsInv, NEW p \in Requests, NEW u \in Users \cup {None}, NEW op \in Offered,
           NEW id \in IdsFor(op), NEW arg \in Args(op), Begin(p, u, op, id, arg)
    PROVE  ItemsInv'
<1>1. PICK c \in Nat : c = deployed /\ c \in DOMAIN Catalogs /\ c \in 1..c
    BY TimetableAssumption DEF IInv, TablesOK
<1>2. RowsStay
    BY <1>1, SameRowsStay DEF Begin
<1>3. PICK status : status = ValidateItems(arg.items, arg.semester, arg.version, c)
    OBVIOUS
<1>4. \/ \E s \in Nat : req' = [req EXCEPT ![p] = [NoReq EXCEPT !.op = op, !.status = s]]
      \/ /\ op # "create" \/ status = 200
         /\ req' = [req EXCEPT ![p] =
                       [NoReq EXCEPT !.op = op, !.user = u, !.id = id, !.arg = arg,
                                     !.step = FirstStep(op), !.catalog = c]]
  <2>1. status \in Nat
      BY <1>3, StatusTyped
  <2> QED BY <1>1, <1>3, <2>1 DEF Begin
<1>5. CASE \E s \in Nat : req' = [req EXCEPT ![p] = [NoReq EXCEPT !.op = op, !.status = s]]
  <2>1. PICK r : r.step = "idle" /\ req' = [req EXCEPT ![p] = r]
      BY <1>5 DEF NoReq
  <2>2. req'[p] = r
      BY <2>1 DEF IInv, ReqsOK
  <2>3. Checked(req[p])'
      BY <2>1, <2>2 DEF Checked
  <2> QED BY <1>2, <2>1, <2>3, MoveChecked
<1>6. CASE /\ op # "create" \/ status = 200
           /\ req' = [req EXCEPT ![p] =
                         [NoReq EXCEPT !.op = op, !.user = u, !.id = id, !.arg = arg,
                                       !.step = FirstStep(op), !.catalog = c]]
  <2>1. PICK r : r = [NoReq EXCEPT !.op = op, !.user = u, !.id = id, !.arg = arg,
                                   !.step = FirstStep(op), !.catalog = c]
      OBVIOUS
  <2>2. r.op = op /\ r.arg = arg /\ r.step = FirstStep(op)
      BY <2>1 DEF NoReq
  <2>3. req' = [req EXCEPT ![p] = r] /\ req'[p] = r
      BY <1>6, <2>1 DEF IInv, ReqsOK
  <2>4. /\ FirstStep(op) = "write" => op \notin {"copy", "shared_copy", "sections"}
        /\ FirstStep(op) = "check" => op # "create"
      BY DEF FirstStep, SharedOps
  <2>5. ASSUME op = "create" PROVE Allowed(arg.semester, arg.items, deployed')
    <3>1. PICK b \in Bodies, s \in Semesters, v \in Versions, n \in NameLengths :
             arg = Arg(b, s, v, n)
        BY <2>5 DEF Args
    <3>2. arg.items \in Bodies
        BY <3>1 DEF Arg
    <3>3. Allowed(arg.semester, arg.items, deployed)
        BY <1>1, <1>3, <1>6, <2>5, <3>2, AcceptedIsAllowed
    <3> QED BY <3>3 DEF Begin
  <2>6. Checked(req[p])'
      BY <2>2, <2>3, <2>4, <2>5 DEF Checked
  <2> QED BY <1>2, <2>3, <2>6, MoveChecked
<1> QED BY <1>4, <1>5, <1>6

LEMMA CheckOwnedChecked ==
    ASSUME IInv, ItemsInv, NEW p \in Requests, CheckOwned(p)
    PROVE  ItemsInv'
<1>1. /\ UNCHANGED timetables /\ UNCHANGED deployed /\ deployed <= deployed'
      /\ deployed' \in Nat
    BY TimetableAssumption DEF CheckOwned, IInv, TablesOK
<1>2. RowsStay
    BY <1>1, SameRowsStay
<1>3. /\ req[p].step = "check" /\ req[p] \in ReqType /\ Brought(req[p])
    BY DEF CheckOwned, IInv, ReqsOK
<1>4. PICK verdict : verdict = ValidateItems(req[p].arg.items, timetables[req[p].id].semester,
                                             req[p].arg.version, req[p].catalog)
    OBVIOUS
<1>5. \/ \E status \in Nat : Finish(p, status)
      \/ /\ OwnedStatus(req[p].id, req[p].user) = 200
         /\ req[p].op = "sections" => verdict = 200
         /\ Continue(p, "write", timetables[req[p].id])
  <2>1. OwnedStatus(req[p].id, req[p].user) \in {200, 403, 404} /\ verdict \in {200, 409, 422}
      BY <1>4, StatusTyped DEF OwnedStatus
  <2>2. \/ Finish(p, OwnedStatus(req[p].id, req[p].user))
        \/ \E status \in {200, 409, 422} : Finish(p, status)
        \/ /\ OwnedStatus(req[p].id, req[p].user) = 200
           /\ req[p].op = "sections" => verdict = 200
           /\ Continue(p, "write", timetables[req[p].id])
      BY <1>4, <2>1 DEF CheckOwned
  <2> QED BY <2>1, <2>2
<1>6. CASE \E status \in Nat : Finish(p, status)
    BY <1>2, <1>6, FinishChecked
<1>7. CASE /\ OwnedStatus(req[p].id, req[p].user) = 200
           /\ req[p].op = "sections" => verdict = 200
           /\ Continue(p, "write", timetables[req[p].id])
  <2>1. PICK id \in DOMAIN timetables : id = req[p].id
      BY <1>7 DEF OwnedStatus
  <2>2. PICK r : r = [req[p] EXCEPT !.step = "write", !.row = timetables[id]]
      OBVIOUS
  <2>3. /\ r.op = req[p].op /\ r.arg = req[p].arg /\ r.id = id /\ r.row = timetables[id]
        /\ r.step = "write"
      BY <1>3, <2>1, <2>2 DEF ReqType
  <2>4. req' = [req EXCEPT ![p] = r] /\ req'[p] = r
      BY <1>7, <2>1, <2>2 DEF Continue, IInv, ReqsOK
  <2>5. ASSUME r.op = "sections"
        PROVE  Allowed(timetables[id].semester, r.arg.items, deployed)
    <3>1. PICK b \in Bodies, v \in Versions : req[p].arg = Arg(b, None, v, None)
        BY <1>3, <2>3, <2>5 DEF Brought, Args
    <3>2. req[p].arg.items \in Bodies
        BY <3>1 DEF Arg
    <3>3. req[p].catalog \in 1..deployed
        BY <1>3 DEF Brought
    <3> QED BY <1>4, <1>7, <2>1, <2>3, <2>5, <3>2, <3>3, AcceptedIsAllowed
  <2>6. r.op # "create"
      BY <1>3, <2>3 DEF ItemsInv, Checked
  <2>7. Allowed(r.row.semester, r.row.items, deployed)
      BY <2>1, <2>3 DEF ItemsInv, RowsAllowed
  <2>8. Checked(req[p])'
      BY <1>1, <2>3, <2>4, <2>5, <2>6, <2>7 DEF Checked
  <2> QED BY <1>2, <2>4, <2>8, MoveChecked
<1> QED BY <1>5, <1>6, <1>7

LEMMA ReadSharedChecked ==
    ASSUME IInv, ItemsInv, NEW p \in Requests, ReadShared(p)
    PROVE  ItemsInv'
<1>1. /\ UNCHANGED timetables /\ UNCHANGED deployed /\ deployed <= deployed'
      /\ deployed' \in Nat
    BY TimetableAssumption DEF ReadShared, IInv, TablesOK
<1>2. RowsStay
    BY <1>1, SameRowsStay
<1>3. CASE \E status \in Nat : Finish(p, status)
    BY <1>2, <1>3, FinishChecked
<1>4. CASE /\ req[p].id \in DOMAIN timetables /\ req[p].op = "shared_copy"
           /\ Continue(p, "write", timetables[req[p].id])
  <2>1. PICK id \in DOMAIN timetables : id = req[p].id
      BY <1>4
  <2>2. PICK r : r = [req[p] EXCEPT !.step = "write", !.row = timetables[id]]
      OBVIOUS
  <2>3. r.op = "shared_copy" /\ r.step = "write" /\ r.row = timetables[id]
    <3>1. req[p] \in ReqType
        BY DEF IInv, ReqsOK
    <3> QED BY <1>4, <2>2, <3>1 DEF ReqType
  <2>4. req' = [req EXCEPT ![p] = r] /\ req'[p] = r
      BY <1>4, <2>1, <2>2 DEF Continue, IInv, ReqsOK
  <2>5. Allowed(r.row.semester, r.row.items, deployed)
      BY <2>1, <2>3 DEF ItemsInv, RowsAllowed
  <2>6. Checked(req[p])'
      BY <1>1, <2>3, <2>4, <2>5 DEF Checked
  <2> QED BY <1>2, <2>4, <2>6, MoveChecked
<1> QED BY <1>3, <1>4 DEF ReadShared
LEMMA InsertChecked ==
    ASSUME IInv, ItemsInv, NEW p \in Requests, NEW row, Insert(p, row), UNCHANGED deployed,
           Allowed(row.semester, row.items, deployed)
    PROVE  ItemsInv'
<1>1. \E status \in Nat : Finish(p, status)
    BY DEF Insert
<1>2. CASE timetables' = timetables
  <2>1. deployed <= deployed' /\ deployed' \in Nat
      BY TimetableAssumption DEF IInv, TablesOK
  <2> QED BY <1>1, <1>2, <2>1, SameRowsStay, FinishChecked
<1>3. CASE timetables' = Put(timetables, drawn.timetables + 1, row)
  <2>1. PICK n \in Nat : n = drawn.timetables
      BY DEF IInv, TablesOK, Drawn
  <2>2. /\ DOMAIN timetables' = DOMAIN timetables \cup {n + 1}
        /\ timetables'[n + 1] = row
        /\ \A t \in DOMAIN timetables : t # n + 1 => timetables'[t] = timetables[t]
      BY <1>3, <2>1 DEF Put
  <2>3. RowsStay
      BY <2>1, <2>2, OneRowStays
  <2> QED BY <1>1, <2>3, FinishChecked
<1> QED BY <1>2, <1>3 DEF Insert

LEMMA CreateChecked ==
    ASSUME IInv, ItemsInv, NEW p \in Requests, Create(p)
    PROVE  ItemsInv'
<1>1. Allowed(req[p].arg.semester, req[p].arg.items, deployed)
    BY DEF Create, ItemsInv, Checked
<1>2. PICK row : /\ row.semester = req[p].arg.semester /\ row.items = req[p].arg.items
                 /\ Insert(p, row) /\ UNCHANGED deployed
    BY DEF Create
<1> QED BY <1>1, <1>2, InsertChecked

LEMMA CopyChecked ==
    ASSUME IInv, ItemsInv, NEW p \in Requests, Copy(p)
    PROVE  ItemsInv'
<1>1. Allowed(req[p].row.semester, req[p].row.items, deployed) /\ req[p].row \in Row
    BY DEF Copy, ItemsInv, Checked, IInv, ReqsOK, Brought
<1>2. PICK row : /\ row.semester = req[p].row.semester /\ row.items = req[p].row.items
                 /\ Insert(p, row) /\ UNCHANGED deployed
    BY <1>1 DEF Copy, Row
<1> QED BY <1>1, <1>2, InsertChecked

LEMMA UpdateChecked ==
    ASSUME IInv, ItemsInv, NEW p \in Requests, Update(p)
    PROVE  ItemsInv'
<1>1. UpdateStatus(p) \in Nat
    BY DEF UpdateStatus, OwnedStatus
<1>2. (\E status \in Nat : Finish(p, status)) /\ UNCHANGED deployed
    BY <1>1 DEF Update
<1>3. CASE timetables' = timetables
  <2>1. deployed <= deployed' /\ deployed' \in Nat
      BY <1>2, TimetableAssumption DEF IInv, TablesOK
  <2> QED BY <1>2, <1>3, <2>1, SameRowsStay, FinishChecked
<1>4. CASE UpdateStatus(p) = 200
  <2>1. PICK id \in DOMAIN timetables : id = req[p].id
      BY <1>4 DEF UpdateStatus, OwnedStatus
  <2>2. timetables[id] \in Row
      BY DEF IInv, TablesOK
  <2>3. PICK row : /\ row = IF req[p].op = "update" THEN Updated(timetables[id], req[p].arg)
                            ELSE [timetables[id] EXCEPT !.favorite = req[p].arg.favorite]
                   /\ timetables' = [timetables EXCEPT ![id] = row]
      BY <1>4, <2>1 DEF Update
  <2>4. row.semester = timetables[id].semester /\ row.items = timetables[id].items
      BY <2>2, <2>3 DEF Updated, Row
  <2>5. Allowed(row.semester, row.items, deployed)
      BY <2>4 DEF ItemsInv, RowsAllowed
  <2>6. /\ DOMAIN timetables' = DOMAIN timetables \cup {id} /\ timetables'[id] = row
        /\ \A t \in DOMAIN timetables : t # id => timetables'[t] = timetables[t]
      BY <2>3
  <2>7. RowsStay
      BY <1>2, <2>4, <2>5, <2>6, OneRowStays
  <2> QED BY <1>2, <2>7, FinishChecked
<1> QED BY <1>3, <1>4 DEF Update

LEMMA UpdateSectionsChecked ==
    ASSUME IInv, ItemsInv, NEW p \in Requests, UpdateSections(p)
    PROVE  ItemsInv'
<1>1. (\E status \in Nat : Finish(p, status)) /\ UNCHANGED deployed
    BY DEF UpdateSections
<1>2. CASE req[p].id \notin DOMAIN timetables
  <2>1. deployed <= deployed' /\ deployed' \in Nat
      BY <1>1, TimetableAssumption DEF IInv, TablesOK
  <2>2. UNCHANGED timetables
      BY <1>2 DEF UpdateSections
  <2> QED BY <1>1, <2>1, <2>2, SameRowsStay, FinishChecked
<1>3. CASE req[p].id \in DOMAIN timetables
  <2>1. PICK id \in DOMAIN timetables : id = req[p].id
      BY <1>3
  <2>2. timetables[id] \in Row
      BY DEF IInv, TablesOK
  <2>3. PICK row : /\ row = WithItems(timetables[id], req[p])
                   /\ timetables' = [timetables EXCEPT ![id] = row]
      BY <1>3, <2>1 DEF UpdateSections
  <2>4. row.semester = timetables[id].semester /\ row.items = req[p].arg.items
      BY <2>2, <2>3 DEF WithItems, Row
  <2>5. Allowed(row.semester, row.items, deployed)
      BY <2>1, <2>4 DEF UpdateSections, ItemsInv, Checked
  <2>6. /\ DOMAIN timetables' = DOMAIN timetables \cup {id} /\ timetables'[id] = row
        /\ \A t \in DOMAIN timetables : t # id => timetables'[t] = timetables[t]
      BY <2>3
  <2>7. RowsStay
      BY <1>1, <2>4, <2>5, <2>6, OneRowStays
  <2> QED BY <1>1, <2>7, FinishChecked
<1> QED BY <1>2, <1>3

(* The steps that leave the rows they keep as they are.                    *)
LEMMA QuietChecked ==
    ASSUME IInv, ItemsInv, NEW p \in Requests,
           List(p) \/ CreateShare(p) \/ ReadShare(p) \/ Delete(p) \/ Leave(p)
    PROVE  ItemsInv'
<1>1. deployed' = deployed /\ deployed \in Nat /\ deployed <= deployed
    BY TimetableAssumption DEF List, CreateShare, ReadShare, Delete, Leave, IInv, TablesOK
<1>2. RowsStay
  <2>1. CASE UNCHANGED timetables
      BY <1>1, <2>1, SameRowsStay
  <2>2. CASE \E gone : timetables' = Without(timetables, gone)
      BY <1>1, <2>2, FewerRowsStay
  <2> QED BY <2>1, <2>2 DEF List, CreateShare, ReadShare, Delete, Leave
<1>3. CASE \E status \in Nat : Finish(p, status)
    BY <1>2, <1>3, FinishChecked
<1>4. CASE req' = [req EXCEPT ![p] = [@ EXCEPT !.step = "read_timetable",
                                               !.id = shares[req[p].id].timetable]]
  <2>1. PICK r : r = [req[p] EXCEPT !.step = "read_timetable", !.id = shares[req[p].id].timetable]
      OBVIOUS
  <2>2. r.step = "read_timetable"
      BY <2>1 DEF IInv, ReqsOK, ReqType
  <2>3. req' = [req EXCEPT ![p] = r] /\ req'[p] = r
      BY <1>4, <2>1 DEF IInv, ReqsOK
  <2>4. Checked(req[p])'
      BY <2>2, <2>3 DEF Checked
  <2> QED BY <1>2, <2>3, <2>4, MoveChecked
<1>5. ShareStatus(req[p].id) \in Nat
    BY DEF ShareStatus
<1> QED BY <1>3, <1>4, <1>5 DEF List, CreateShare, ReadShare, Delete, Leave

LEMMA WorldChecked ==
    ASSUME IInv, ItemsInv, Deploy \/ Tick \/ UNCHANGED vars
    PROVE  ItemsInv'
<1>1. /\ UNCHANGED timetables /\ UNCHANGED req /\ deployed <= deployed' /\ deployed' \in Nat
    BY TimetableAssumption DEF Deploy, Tick, vars, IInv, TablesOK
<1>2. RowsStay
    BY <1>1, SameRowsStay
<1>3. \A q \in Requests : Checked(req[q])'
    BY <1>1, <1>2, OthersChecked
<1> QED BY <1>2, <1>3 DEF ItemsInv, RowsStay

LEMMA NextChecked ==
    ASSUME IInv, ItemsInv, [Next]_vars
    PROVE  ItemsInv'
<1>1. CASE BeginAny
    BY <1>1, BeginChecked DEF BeginAny
<1>2. ASSUME NEW p \in Requests, Step(p) PROVE ItemsInv'
    BY <1>2, CheckOwnedChecked, CreateChecked, UpdateChecked, UpdateSectionsChecked,
       CopyChecked, ReadSharedChecked, QuietChecked DEF Step
<1> QED BY <1>1, <1>2, WorldChecked DEF Next

(* What is saved was allowed once: some deployed catalog knows all its     *)
(* sections, and by it the active ones are of different courses and share  *)
(* no minute, for any catalogs, bodies and number of requests.             *)
THEOREM ItemsCorrect == Spec => []ItemsEverValid
<1>1. Init => ItemsInv
  <2> SUFFICES ASSUME Init PROVE ItemsInv
      OBVIOUS
  <2>1. timetables = [x \in {} |-> NoRow] /\ \A p \in Requests : req[p] = NoReq
      BY DEF Init
  <2>2. \A t \in DOMAIN timetables : FALSE
      BY <2>1
  <2>3. NoReq.step = "idle"
      BY NoReqTyped
  <2> QED BY <2>1, <2>2, <2>3 DEF ItemsInv, RowsAllowed, Checked
<1>2. ASSUME IInv, ItemsInv, [Next]_vars PROVE ItemsInv'
    BY <1>2, NextChecked
<1>3. ItemsInv => ItemsEverValid
    BY DEF ItemsInv, RowsAllowed, Allowed, ItemsEverValid
<1> QED BY <1>1, <1>2, <1>3, Invariance, PTL DEF Spec
-----------------------------------------------------------------------------
(* What an edit of the items keeps.                                        *)
LEMMA ItemsStep ==
    ASSUME IInv, [Next]_vars, NEW t \in DOMAIN timetables \cap DOMAIN timetables',
           timetables[t].items # timetables'[t].items
    PROVE  timetables'[t] = [timetables[t] EXCEPT !.items = timetables'[t].items,
                                                  !.version = timetables'[t].version]
<1>1. PICK p \in Requests : Step(p)
    BY DEF Next, vars, BeginAny, Begin, Deploy, Tick
<1>2. timetables[t] \in Row
    BY DEF IInv, TablesOK
<1>3. ASSUME NEW row, Insert(p, row) PROVE timetables'[t] = timetables[t]
  <2>1. PICK n \in Nat : n = drawn.timetables
      BY DEF IInv, TablesOK, Drawn
  <2>2. t # n + 1
      BY <2>1 DEF IInv, TablesOK
  <2> QED BY <1>3, <2>1, <2>2 DEF Insert, Put
<1>4. ASSUME Update(p) PROVE timetables'[t].items = timetables[t].items
    BY <1>2, <1>4 DEF Update, Updated, Row
<1>5. UpdateSections(p)
  <2>1. ~Create(p) /\ ~Copy(p)
      BY <1>3 DEF Create, Copy
  <2>2. ~CheckOwned(p) /\ ~List(p) /\ ~CreateShare(p) /\ ~ReadShare(p) /\ ~ReadShared(p)
      BY DEF CheckOwned, List, CreateShare, ReadShare, ReadShared
  <2>3. ~Delete(p) /\ ~Leave(p)
      BY DEF Delete, Leave, Without
  <2> QED BY <1>1, <1>4, <2>1, <2>2, <2>3 DEF Step
<1>6. timetables'[t] = WithItems(timetables[t], req[p])
    BY <1>5 DEF UpdateSections
<1>7. PICK items, version :
         timetables'[t] = [timetables[t] EXCEPT !.items = items, !.version = version]
    BY <1>2, <1>6 DEF WithItems, Row
<1>8. timetables'[t].items = items /\ timetables'[t].version = version
    BY <1>2, <1>7 DEF Row
<1> QED BY <1>7, <1>8

(* Replacing the items of a timetable keeps the favorite mark, the name    *)
(* and the owner, whatever other requests wrote in between.                *)
THEOREM UpdatesKept == Spec => NoLostUpdate
<1>1. ASSUME IInv, [Next]_vars
      PROVE  [\A t \in DOMAIN timetables \cap DOMAIN timetables' :
                timetables[t].items # timetables'[t].items =>
                   timetables'[t] = [timetables[t] EXCEPT !.items = timetables'[t].items,
                                                          !.version = timetables'[t].version]]_vars
    BY <1>1, ItemsStep
<1> QED BY <1>1, Invariance, PTL DEF Spec, NoLostUpdate
-----------------------------------------------------------------------------
(* The profile of an account.  A transaction that is about to commit holds *)
(* the row alone, so that what it has read of the consents is still so;    *)
(* and the account exists as long as anybody holds a lock on its row.      *)
ProfileReq == [op : {"none", "update", "consent", "refusal", "leave"},
               step : {"idle", "lock", "consents", "commit", "insert"},
               lock : {"none", "share", "update"}, set : SUBSET Fields, unset : SUBSET Fields,
               agreed : BOOLEAN, status : Nat]

ProfileRow == [exists : BOOLEAN, filled : SUBSET Fields, completed : BOOLEAN]

HoldsAlone(p) ==
    pReq[p].lock = "update" => \A q \in Requests \ {p} : pReq[q].lock = "none"

Consented == consents > 0

(* What the step of a request says of its locks and its knowledge.         *)
Reading(p) ==
    /\ pReq[p].step \in {"idle", "insert"} => pReq[p].lock = "none"
    /\ pReq[p].step \in {"consents", "commit"} => pReq[p].lock = "update"
    /\ pReq[p].lock # "none" => user.exists
    /\ pReq[p].step = "insert" => pReq[p].op = "consent"
    /\ pReq[p].step = "lock" => \/ pReq[p].op = "update" /\ pReq[p].lock = "none"
                                \/ pReq[p].op = "consent" /\ pReq[p].lock = "share"
    /\ pReq[p].step = "commit" /\ pReq[p].op = "update" =>
          pReq[p].agreed = Consented

ProfileInv ==
    /\ user \in ProfileRow /\ consents \in Nat /\ pReq \in [Requests -> ProfileReq]
    /\ \A p \in Requests : HoldsAlone(p) /\ Reading(p)
    /\ ProfileTruthful

LEMMA ProfileInitOK == Account!Init => ProfileInv
<1> SUFFICES ASSUME Account!Init PROVE ProfileInv
    OBVIOUS
<1>1. Account!NoReq \in ProfileReq /\ Account!NoReq.step = "idle" /\ Account!NoReq.lock = "none"
    BY DEF Account!NoReq, ProfileReq
<1>2. pReq \in [Requests -> ProfileReq] /\ \A p \in Requests : pReq[p] = Account!NoReq
    BY <1>1 DEF Account!Init
<1>3. \A p \in Requests : HoldsAlone(p) /\ Reading(p)
    BY <1>1, <1>2 DEF HoldsAlone, Reading
<1>4. user \in ProfileRow /\ consents \in Nat /\ ~user.completed /\ ~(consents > 0)
    BY DEF Account!Init, ProfileRow
<1>5. ProfileTruthful
    BY <1>4 DEF ProfileTruthful, Account!ProfileTruthful
<1> QED BY <1>2, <1>3, <1>4, <1>5 DEF ProfileInv

LEMMA SameProfile ==
    ASSUME ProfileInv, UNCHANGED <<user, consents>>
    PROVE  user \in ProfileRow /\ consents \in Nat /\ ProfileTruthful'
<1>1. ProfileTruthful /\ user' = user /\ consents' = consents
    BY DEF ProfileInv
<1>2. ProfileTruthful'
    BY <1>1 DEF ProfileTruthful, Account!ProfileTruthful, Account!Complete
<1> QED BY <1>2 DEF ProfileInv

(* A step that replaces the record of one request, and whatever else it    *)
(* changes, keeps what the other requests hold and know.                   *)
LEMMA ProfileMove ==
    ASSUME ProfileInv, NEW p \in Requests, NEW r \in ProfileReq, pReq' = [pReq EXCEPT ![p] = r],
           user' \in ProfileRow, consents' \in Nat, ProfileTruthful',
           \/ r.lock \in {pReq[p].lock, "none"}
           \/ /\ r.lock = "update" /\ \A q \in Requests \ {p} : pReq[q].lock = "none"
           \/ /\ r.lock = "share" /\ \A q \in Requests \ {p} : pReq[q].lock # "update",
           \/ UNCHANGED <<user, consents>>
           \/ (\A q \in Requests \ {p} : pReq[q].lock = "none"),
           r.step \in {"idle", "insert"} => r.lock = "none",
           r.step \in {"consents", "commit"} => r.lock = "update",
           r.lock # "none" => user'.exists,
           r.step = "insert" => r.op = "consent",
           r.step = "lock" => \/ r.op = "update" /\ r.lock = "none"
                              \/ r.op = "consent" /\ r.lock = "share",
           r.step = "commit" /\ r.op = "update" => r.agreed = Consented'
    PROVE  ProfileInv'
<1>1. /\ pReq' \in [Requests -> ProfileReq] /\ pReq'[p] = r
      /\ \A q \in Requests \ {p} : pReq'[q] = pReq[q]
    BY DEF ProfileInv
<1>2. Reading(p)'
    BY <1>1 DEF Reading
<1>3. ASSUME NEW q \in Requests \ {p} PROVE Reading(q)'
    BY <1>1 DEF Reading, ProfileInv, Consented
<1>4. ASSUME NEW q \in Requests PROVE HoldsAlone(q)'
    BY <1>1 DEF HoldsAlone, ProfileInv, ProfileReq
<1> QED BY <1>1, <1>2, <1>3, <1>4 DEF ProfileInv

LEMMA ProfileFinish ==
    ASSUME ProfileInv, NEW p \in Requests, \E status \in Nat : Account!Finish(p, status),
           user' \in ProfileRow, consents' \in Nat, ProfileTruthful',
           \/ UNCHANGED <<user, consents>>
           \/ (\A q \in Requests \ {p} : pReq[q].lock = "none")
    PROVE  ProfileInv'
<1>1. PICK status \in Nat : Account!Finish(p, status)
    OBVIOUS
<1>2. PICK r : /\ r = [Account!NoReq EXCEPT !.op = pReq[p].op, !.status = status]
               /\ pReq' = [pReq EXCEPT ![p] = r]
    BY <1>1 DEF Account!Finish
<1>3. r \in ProfileReq /\ r.step = "idle" /\ r.lock = "none"
    BY <1>2 DEF Account!NoReq, ProfileReq, ProfileInv
<1> QED BY <1>2, <1>3, ProfileMove

LEMMA ProfileBegin ==
    ASSUME ProfileInv, NEW p \in Requests, Account!Begin(p)
    PROVE  ProfileInv'
<1>1. UNCHANGED <<user, consents>> /\ user \in ProfileRow /\ consents \in Nat /\ ProfileTruthful'
    BY SameProfile DEF Account!Begin, Account!BeginUpdate, Account!BeginConsent
<1>2. ASSUME NEW set \in SUBSET Fields, NEW unset \in SUBSET Fields,
             Account!BeginUpdate(p, set, unset)
      PROVE  ProfileInv'
  <2>1. PICK r : /\ r = [Account!NoReq EXCEPT !.op = "update", !.step = "lock",
                                              !.set = set, !.unset = unset]
                 /\ pReq' = [pReq EXCEPT ![p] = r]
      BY <1>2 DEF Account!BeginUpdate
  <2>2. r \in ProfileReq /\ r.lock = "none" /\ r.step = "lock" /\ r.op = "update"
      BY <2>1 DEF Account!NoReq, ProfileReq
  <2> QED BY <1>1, <2>1, <2>2, ProfileMove
<1>3. ASSUME NEW r, r = [Account!NoReq EXCEPT !.op = "consent", !.step = "insert"]
      PROVE  r \in ProfileReq /\ r.lock = "none" /\ r.step = "insert" /\ r.op = "consent"
    BY <1>3 DEF Account!NoReq, ProfileReq
<1>4. ASSUME NEW status \in Nat, NEW r,
             r = [Account!NoReq EXCEPT !.op = "refusal", !.status = status]
      PROVE  r \in ProfileReq /\ r.lock = "none" /\ r.step = "idle"
    BY <1>4 DEF Account!NoReq, ProfileReq
<1>5. ASSUME NEW agreed \in BOOLEAN, Account!BeginConsent(p, agreed)
      PROVE  ProfileInv'
  <2>1. PICK open, refused :
           /\ open = [Account!NoReq EXCEPT !.op = "consent", !.step = "insert"]
           /\ refused = [Account!NoReq EXCEPT !.op = "refusal", !.status = 400]
      OBVIOUS
  <2>2. PICK r \in {open, refused} : pReq' = [pReq EXCEPT ![p] = r]
      BY <1>5, <2>1 DEF Account!BeginConsent
  <2>3. open \in ProfileReq /\ open.lock = "none" /\ open.step = "insert" /\ open.op = "consent"
      BY <1>3, <2>1
  <2>4. refused \in ProfileReq /\ refused.lock = "none" /\ refused.step = "idle"
    <3>1. PICK status \in Nat : status = 400
        OBVIOUS
    <3> QED BY <1>4, <2>1, <3>1
  <2> QED BY <1>1, <2>2, <2>3, <2>4, ProfileMove
<1> QED BY <1>2, <1>5 DEF Account!Begin

LEMMA LockUpdateStep ==
    ASSUME ProfileInv, NEW p \in Requests, Account!LockUpdate(p)
    PROVE  ProfileInv'
<1>1. /\ UNCHANGED <<user, consents>> /\ user \in ProfileRow /\ consents \in Nat
      /\ ProfileTruthful' /\ pReq[p] \in ProfileReq
      /\ pReq[p].step = "lock" /\ pReq[p].op = "update"
      /\ \A q \in Requests \ {p} : pReq[q].lock = "none"
    BY SameProfile DEF Account!LockUpdate, Account!ReadForUpdate, Account!Lockable, ProfileInv
<1>2. CASE Account!Finish(p, 404)
    BY <1>1, <1>2, ProfileFinish
<1>3. CASE user.exists /\ pReq' = [pReq EXCEPT ![p].step = "consents", ![p].lock = "update"]
  <2>1. PICK r : r = [pReq[p] EXCEPT !.step = "consents", !.lock = "update"]
      OBVIOUS
  <2>2. /\ r \in ProfileReq /\ r.step = "consents" /\ r.lock = "update" /\ r.op = "update"
        /\ pReq' = [pReq EXCEPT ![p] = r]
      BY <1>1, <1>3, <2>1 DEF ProfileReq, ProfileInv
  <2> QED BY <1>1, <1>3, <2>2, ProfileMove
<1> QED BY <1>2, <1>3 DEF Account!LockUpdate

LEMMA ReadConsentsStep ==
    ASSUME ProfileInv, NEW p \in Requests, Account!ReadConsents(p)
    PROVE  ProfileInv'
<1>1. /\ UNCHANGED <<user, consents>> /\ user \in ProfileRow /\ consents \in Nat
      /\ ProfileTruthful' /\ pReq[p] \in ProfileReq /\ pReq[p].step = "consents" /\ Reading(p)
    BY SameProfile DEF Account!ReadConsents, ProfileInv
<1>2. Consented \in BOOLEAN
    BY DEF Consented
<1>3. PICK r : r = [pReq[p] EXCEPT !.step = "commit", !.agreed = Consented]
    OBVIOUS
<1>4. /\ r \in ProfileReq /\ r.step = "commit" /\ r.lock = pReq[p].lock /\ r.op = pReq[p].op
      /\ r.agreed = Consented
    BY <1>1, <1>2, <1>3 DEF ProfileReq
<1>5. pReq' = [pReq EXCEPT ![p] = r]
    BY <1>3 DEF Account!ReadConsents, ProfileInv, Consented
<1> QED BY <1>1, <1>4, <1>5, ProfileMove DEF Reading, Consented

LEMMA CommitUpdateStep ==
    ASSUME ProfileInv, NEW p \in Requests, Account!CommitUpdate(p)
    PROVE  ProfileInv'
<1>1. /\ pReq[p] \in ProfileReq /\ pReq[p].step = "commit" /\ pReq[p].op = "update"
      /\ user \in ProfileRow /\ consents \in Nat /\ consents' = consents
    BY DEF Account!CommitUpdate, ProfileInv
<1>2. /\ pReq[p].agreed = Consented
      /\ \A q \in Requests \ {p} : pReq[q].lock = "none"
    BY <1>1 DEF ProfileInv, Reading, HoldsAlone
<1>3. PICK filled \in SUBSET Fields :
         user' = [user EXCEPT !.filled = filled,
                              !.completed = Account!Complete(filled) /\ pReq[p].agreed]
    BY <1>1 DEF Account!CommitUpdate, ProfileReq, ProfileRow
<1>4. PICK completed \in BOOLEAN : completed <=> Account!Complete(filled) /\ pReq[p].agreed
    OBVIOUS
<1>5. /\ user' \in ProfileRow /\ user'.filled = filled
      /\ user'.completed <=> Account!Complete(filled) /\ pReq[p].agreed
    BY <1>1, <1>3, <1>4 DEF ProfileRow, Account!Complete, ProfileReq
<1>6. ProfileTruthful'
    BY <1>1, <1>2, <1>5 DEF ProfileTruthful, Account!ProfileTruthful, Account!Complete, Consented
<1> QED BY <1>1, <1>2, <1>5, <1>6, ProfileFinish DEF Account!CommitUpdate

LEMMA InsertConsentStep ==
    ASSUME ProfileInv, NEW p \in Requests, Account!InsertConsent(p)
    PROVE  ProfileInv'
<1>1. /\ UNCHANGED <<user, consents>> /\ user \in ProfileRow /\ consents \in Nat
      /\ ProfileTruthful' /\ pReq[p] \in ProfileReq /\ pReq[p].step = "insert"
      /\ \A q \in Requests \ {p} : pReq[q].lock # "update"
      /\ pReq[p].op = "consent"
    BY SameProfile DEF Account!InsertConsent, Account!Shareable, ProfileInv, Reading
<1>2. CASE Account!Finish(p, 500)
    BY <1>1, <1>2, ProfileFinish
<1>3. CASE user.exists /\ pReq' = [pReq EXCEPT ![p].step = "lock", ![p].lock = "share"]
  <2>1. PICK r : r = [pReq[p] EXCEPT !.step = "lock", !.lock = "share"]
      OBVIOUS
  <2>2. /\ r \in ProfileReq /\ r.step = "lock" /\ r.lock = "share" /\ r.op = "consent"
        /\ pReq' = [pReq EXCEPT ![p] = r]
      BY <1>1, <1>3, <2>1 DEF ProfileReq, ProfileInv
  <2> QED BY <1>1, <1>3, <2>2, ProfileMove
<1> QED BY <1>2, <1>3 DEF Account!InsertConsent

LEMMA LockConsentStep ==
    ASSUME ProfileInv, NEW p \in Requests, Account!LockConsent(p)
    PROVE  ProfileInv'
<1>1. /\ UNCHANGED <<user, consents>> /\ user \in ProfileRow /\ consents \in Nat
      /\ ProfileTruthful' /\ pReq[p] \in ProfileReq /\ pReq[p].op = "consent"
      /\ \A q \in Requests \ {p} : pReq[q].lock = "none"
    BY SameProfile DEF Account!LockConsent, Account!Lockable, ProfileInv
<1>2. user.exists
    BY DEF Account!LockConsent, ProfileInv, Reading
<1>3. PICK r : r = [pReq[p] EXCEPT !.step = "commit", !.lock = "update"]
    OBVIOUS
<1>4. /\ r \in ProfileReq /\ r.step = "commit" /\ r.lock = "update" /\ r.op = "consent"
      /\ pReq' = [pReq EXCEPT ![p] = r]
    BY <1>1, <1>3 DEF ProfileReq, ProfileInv, Account!LockConsent
<1> QED BY <1>1, <1>2, <1>4, ProfileMove

LEMMA CommitConsentStep ==
    ASSUME ProfileInv, NEW p \in Requests, Account!CommitConsent(p)
    PROVE  ProfileInv'
<1>1. /\ \A q \in Requests \ {p} : pReq[q].lock = "none"
      /\ user \in ProfileRow /\ user.exists
      /\ consents' \in Nat /\ consents' > 0 /\ ProfileTruthful
    BY DEF Account!CommitConsent, ProfileInv, Reading, HoldsAlone
<1>2. PICK completed \in BOOLEAN :
         completed = (user.completed \/ Account!Complete(user.filled))
    BY Zenon
<1>3. user' = [user EXCEPT !.completed = completed]
    BY <1>2 DEF Account!CommitConsent
<1>4. user' \in ProfileRow /\ user'.filled = user.filled /\ user'.completed = completed
    BY <1>1, <1>3 DEF ProfileRow
<1>5. user.completed => Account!Complete(user.filled)
    BY <1>1 DEF ProfileTruthful, Account!ProfileTruthful
<1>6. user'.completed <=> Account!Complete(user'.filled)
    BY <1>1, <1>2, <1>4, <1>5 DEF ProfileRow, Account!Complete
<1>7. ProfileTruthful'
    BY <1>1, <1>6 DEF ProfileTruthful, Account!ProfileTruthful, Account!Complete
<1> QED BY <1>1, <1>4, <1>7, ProfileFinish DEF Account!CommitConsent

LEMMA AbortStep ==
    ASSUME ProfileInv, NEW p \in Requests, Account!AbortDeadlocked(p)
    PROVE  ProfileInv'
<1>1. /\ UNCHANGED <<user, consents>> /\ user \in ProfileRow /\ consents \in Nat
      /\ ProfileTruthful' /\ \E status \in Nat : Account!Finish(p, status)
    BY SameProfile DEF Account!AbortDeadlocked
<1> QED BY <1>1, ProfileFinish

LEMMA ProfileLeave ==
    ASSUME ProfileInv, NEW p \in Requests, Account!Leave(p)
    PROVE  ProfileInv'
<1>1. \A q \in Requests \ {p} : pReq[q].lock = "none"
    BY DEF Account!Leave, Account!Lockable
<1>2. user' \in ProfileRow /\ ~user'.exists /\ consents' \in Nat
    BY DEF Account!Leave, Account!Gone, ProfileRow
<1>3. ProfileTruthful'
    BY <1>2 DEF ProfileTruthful, Account!ProfileTruthful
<1>4. PICK r : /\ r = [Account!NoReq EXCEPT !.op = "leave", !.status = 200]
               /\ pReq' = [pReq EXCEPT ![p] = r]
    BY DEF Account!Leave
<1>5. r \in ProfileReq /\ r.step = "idle" /\ r.lock = "none"
    BY <1>4 DEF Account!NoReq, ProfileReq
<1> QED BY <1>1, <1>2, <1>3, <1>4, <1>5, ProfileMove

LEMMA ProfileNext ==
    ASSUME ProfileInv, [Account!Next]_Account!vars
    PROVE  ProfileInv'
<1>1. CASE UNCHANGED Account!vars
  <2>1. UNCHANGED <<user, consents, pReq>>
      BY <1>1 DEF Account!vars
  <2>2. ProfileTruthful'
      BY <2>1, SameProfile
  <2> QED BY <2>1, <2>2 DEF ProfileInv, HoldsAlone, Reading, Consented
<1>2. CASE Account!Next
  <2>1. PICK p \in Requests : Account!Begin(p) \/ Account!Step(p) \/ Account!Leave(p)
      BY <1>2 DEF Account!Next
  <2> QED BY <2>1, ProfileBegin, ProfileLeave, LockUpdateStep, ReadConsentsStep,
             CommitUpdateStep, InsertConsentStep, LockConsentStep, CommitConsentStep,
             AbortStep DEF Account!Step
<1> QED BY <1>1, <1>2

(* A profile is marked complete exactly when its fields are filled and a   *)
(* consent is committed, for any number of concurrent changes, consents    *)
(* and withdrawals: what a request has read under the lock of the row is   *)
(* still so when it commits.                                               *)
THEOREM ProfileCorrect == Account!Spec => []ProfileTruthful
<1>1. ProfileInv => ProfileTruthful
    BY DEF ProfileInv
<1> QED BY <1>1, ProfileInitOK, ProfileNext, PTL DEF Account!Spec

(* A transaction that holds the row alone waits for nobody.                *)
LEMMA AloneGoesOn ==
    ASSUME ProfileInv, NEW q \in Requests, pReq[q].lock = "update"
    PROVE  ~Account!Idle(q) /\ ~Account!Blocked(q)
<1>1. pReq[q] \in ProfileReq /\ Reading(q) /\ \A r \in Requests \ {q} : pReq[r].lock = "none"
    BY DEF ProfileInv, HoldsAlone
<1>2. pReq[q].step \in {"consents", "commit"}
    BY <1>1 DEF Reading, ProfileReq
<1> QED BY <1>1, <1>2 DEF Account!Idle, Account!Blocked, Account!WaitsFor

(* A transaction with a share of the row goes on, or waits for another one *)
(* with a share, which waits for it.                                       *)
LEMMA SharerGoesOn ==
    ASSUME ProfileInv, NEW q \in Requests, pReq[q].lock = "share"
    PROVE  ~Account!Idle(q) /\ (Account!Blocked(q) => Account!Deadlocked(q))
<1>1. pReq[q] \in ProfileReq /\ pReq[q].step = "lock" /\ pReq[q].op = "consent"
    BY DEF ProfileInv, Reading, ProfileReq
<1>2. ASSUME Account!Blocked(q) PROVE Account!Deadlocked(q)
  <2>1. PICK r \in Requests \ {q} : pReq[r].lock # "none"
      BY <1>1, <1>2 DEF Account!Blocked, Account!WaitsFor
  <2>2. pReq[r].lock = "share"
      BY <2>1 DEF ProfileInv, HoldsAlone, ProfileReq
  <2>3. pReq[r].step = "lock"
      BY <2>2 DEF ProfileInv, Reading, ProfileReq
  <2>4. Account!Waits(q) /\ Account!Waits(r)
      BY <1>1, <2>1, <2>3 DEF Account!Waits, Account!Lockable
  <2> QED BY <2>1, <2>4 DEF Account!Deadlocked
<1>3. ~Account!Idle(q)
    BY <1>1 DEF Account!Idle
<1> QED BY <1>2, <1>3

(* No request on a profile waits for ever: whom it waits for is open and   *)
(* goes on, or is one of two consents that wait for each other, of which   *)
(* the database aborts one.                                                *)
THEOREM ProfilesGoOn == Account!Spec => []SomeoneGoesOn
<1>1. ASSUME ProfileInv PROVE Account!SomeoneGoesOn
  <2>1. ASSUME NEW p \in Requests, Account!Blocked(p)
        PROVE  \E q \in Requests \ {p} : Account!WaitsFor(p, q) /\ ~Account!Idle(q)
                                           /\ (Account!Blocked(q) => Account!Deadlocked(q))
    <3>1. PICK q \in Requests \ {p} : Account!WaitsFor(p, q)
        BY <2>1 DEF Account!Blocked
    <3>2. pReq[q].lock \in {"share", "update"}
        BY <1>1, <3>1 DEF Account!WaitsFor, ProfileInv, ProfileReq
    <3>3. /\ ~Account!Idle(q)
          /\ Account!Blocked(q) => Account!Deadlocked(q)
        BY <1>1, <3>2, AloneGoesOn, SharerGoesOn
    <3> QED BY <3>1, <3>3
  <2> QED BY <2>1, Zenon DEF Account!SomeoneGoesOn
<1>2. ProfileInv => SomeoneGoesOn
    BY <1>1 DEF SomeoneGoesOn
<1> QED BY <1>2, ProfileInitOK, ProfileNext, PTL DEF Account!Spec
-----------------------------------------------------------------------------
(* Reviews.  A review that a student has sent, and one of the table.       *)
Sent == [user : Users \cup {None}, professor : Professors \cup {None}, rating : Ratings \cup {0}]

ReviewReq == [op : ReviewOps \cup {"none"},
              step : {"idle", "check", "owner", "summarise", "write", "insert"},
              user : Users \cup {None}, id : Nat, row : Sent, status : Nat]

ReviewsInv ==
    /\ rDrawn \in Nat
    /\ DOMAIN reviews \subseteq 1..rDrawn /\ reviews \in [DOMAIN reviews -> Sent]
    /\ rReq \in [Requests -> ReviewReq]
    /\ OneReviewPerOffering

LEMMA NoReviewReq == Reviews!NoReq \in ReviewReq
<1>1. Reviews!NoReview \in Sent
    BY DEF Reviews!NoReview, Sent
<1> QED BY <1>1 DEF Reviews!NoReq, ReviewReq

LEMMA ReviewsInitOK == Reviews!Init => ReviewsInv
<1> SUFFICES ASSUME Reviews!Init PROVE ReviewsInv
    OBVIOUS
<1>1. rReq \in [Requests -> ReviewReq]
    BY NoReviewReq DEF Reviews!Init
<1>2. DOMAIN reviews = {} /\ reviews = [x \in {} |-> Reviews!NoReview] /\ rDrawn = 0
    BY DEF Reviews!Init
<1>3. reviews \in [DOMAIN reviews -> Sent]
    BY <1>2
<1>4. OneReviewPerOffering
    BY <1>2 DEF OneReviewPerOffering, Reviews!OneReviewPerOffering
<1> QED BY <1>1, <1>2, <1>3, <1>4 DEF ReviewsInv

(* Every answer, and every step that only moves a request on, leaves the   *)
(* requests well formed.                                                   *)
LEMMA ReviewFinish ==
    ASSUME ReviewsInv, NEW p \in Requests, NEW status \in Nat, Reviews!Finish(p, status)
    PROVE  rReq' \in [Requests -> ReviewReq]
<1>1. PICK op \in ReviewOps \cup {"none"} : op = rReq[p].op
    BY DEF ReviewsInv, ReviewReq
<1>2. PICK r : r = [Reviews!NoReq EXCEPT !.op = op, !.status = status]
    OBVIOUS
<1>3. r \in ReviewReq
    BY <1>2, NoReviewReq DEF ReviewReq
<1>4. rReq' = [rReq EXCEPT ![p] = r]
    BY <1>1, <1>2 DEF Reviews!Finish
<1> QED BY <1>3, <1>4 DEF ReviewsInv

LEMMA ReviewMoves ==
    ASSUME ReviewsInv, NEW p \in Requests, NEW step \in {"insert", "write", "summarise"},
           rReq' = [rReq EXCEPT ![p].step = step]
    PROVE  rReq' \in [Requests -> ReviewReq]
<1>1. PICK r : r = [rReq[p] EXCEPT !.step = step]
    OBVIOUS
<1>2. r \in ReviewReq /\ rReq' = [rReq EXCEPT ![p] = r]
    BY <1>1 DEF ReviewsInv, ReviewReq
<1> QED BY <1>2 DEF ReviewsInv

(* Removing reviews, or changing nothing but their ratings, keeps what     *)
(* holds of the table.                                                     *)
LEMMA FewerReviews ==
    ASSUME ReviewsInv, rReq' \in [Requests -> ReviewReq], rDrawn' = rDrawn,
           DOMAIN reviews' \subseteq DOMAIN reviews, reviews' \in [DOMAIN reviews' -> Sent],
           \A x \in DOMAIN reviews' : /\ reviews'[x].user = reviews[x].user
                                      /\ reviews'[x].professor = reviews[x].professor
    PROVE  ReviewsInv'
<1>1. OneReviewPerOffering'
    BY DEF ReviewsInv, OneReviewPerOffering, Reviews!OneReviewPerOffering
<1>2. DOMAIN reviews' \subseteq 1..rDrawn'
    BY DEF ReviewsInv
<1> QED BY <1>1, <1>2 DEF ReviewsInv

LEMMA SameReviews ==
    ASSUME ReviewsInv, rReq' \in [Requests -> ReviewReq], UNCHANGED <<reviews, rDrawn>>
    PROVE  ReviewsInv'
BY FewerReviews DEF ReviewsInv

LEMMA ReviewBegins ==
    ASSUME ReviewsInv, Reviews!BeginAny
    PROVE  ReviewsInv'
<1>1. PICK p \in Requests, u \in Users, op \in ReviewOps :
         \E id \in Reviews!Ids(op), row \in Reviews!RowsSent(op, u) :
            Reviews!Begin(p, u, op, id, row)
    BY DEF Reviews!BeginAny
<1>2. PICK id \in Reviews!Ids(op), row \in Reviews!RowsSent(op, u) :
         Reviews!Begin(p, u, op, id, row)
    BY <1>1
<1>3. id \in Nat
    BY <1>2 DEF Reviews!Ids, ReviewsInv
<1>4. row \in Sent
    BY <1>2 DEF Reviews!RowsSent, Reviews!NoReview, Sent
<1>5. PICK step \in {"check", "owner", "summarise", "write"} : step = Reviews!FirstStep(op)
    BY DEF Reviews!FirstStep
<1>6. PICK r : r = [Reviews!NoReq EXCEPT !.op = op, !.step = step, !.user = u,
                                         !.id = id, !.row = row]
    OBVIOUS
<1>7. r \in ReviewReq
    BY <1>3, <1>4, <1>6, NoReviewReq DEF ReviewReq
<1>8. rReq' = [rReq EXCEPT ![p] = r] /\ UNCHANGED <<reviews, rDrawn>>
    BY <1>2, <1>5, <1>6 DEF Reviews!Begin
<1>9. rReq' \in [Requests -> ReviewReq]
    BY <1>7, <1>8 DEF ReviewsInv
<1> QED BY <1>8, <1>9, SameReviews

LEMMA DuplicateChecked ==
    ASSUME ReviewsInv, NEW p \in Requests, Reviews!CheckDuplicate(p)
    PROVE  ReviewsInv'
<1>1. \/ rReq' = [rReq EXCEPT ![p].step = "insert"]
      \/ \E status \in Nat : Reviews!Finish(p, status)
    BY DEF Reviews!CheckDuplicate
<1>2. rReq' \in [Requests -> ReviewReq]
    BY <1>1, ReviewFinish, ReviewMoves
<1> QED BY <1>2, SameReviews DEF Reviews!CheckDuplicate

LEMMA ReviewInserted ==
    ASSUME ReviewsInv, NEW p \in Requests, Reviews!Insert(p)
    PROVE  ReviewsInv'
<1>1. PICK row \in Sent : row = rReq[p].row
    BY DEF ReviewsInv, ReviewReq
<1>2. CASE Reviews!Finish(p, 409) /\ UNCHANGED <<reviews, rDrawn>>
    BY <1>2, ReviewFinish, SameReviews
<1>3. CASE /\ ~Reviews!Taken(row)
           /\ rDrawn' = rDrawn + 1
           /\ reviews' = [x \in DOMAIN reviews \cup {rDrawn + 1} |->
                             IF x = rDrawn + 1 THEN row ELSE reviews[x]]
           /\ rReq' = [rReq EXCEPT ![p].step = "summarise"]
  <2>1. rReq' \in [Requests -> ReviewReq]
      BY <1>3, ReviewMoves
  <2>2. /\ rDrawn \in Nat /\ DOMAIN reviews \subseteq 1..rDrawn
        /\ reviews \in [DOMAIN reviews -> Sent] /\ OneReviewPerOffering
      BY DEF ReviewsInv
  <2>3. /\ rDrawn' \in Nat /\ DOMAIN reviews' \subseteq 1..rDrawn'
        /\ reviews' \in [DOMAIN reviews' -> Sent]
        /\ DOMAIN reviews' = DOMAIN reviews \cup {rDrawn + 1}
        /\ reviews'[rDrawn + 1] = row
        /\ \A x \in DOMAIN reviews : x # rDrawn + 1 /\ reviews'[x] = reviews[x]
      BY <1>3, <2>2
  <2>4. \A x \in DOMAIN reviews :
           reviews[x].user = row.user /\ reviews[x].professor = row.professor =>
              row.professor = None
      BY <1>3 DEF Reviews!Taken, Reviews!Duplicates
  <2>5. OneReviewPerOffering'
      BY <2>2, <2>3, <2>4 DEF OneReviewPerOffering, Reviews!OneReviewPerOffering
  <2> QED BY <2>1, <2>3, <2>5 DEF ReviewsInv
<1> QED BY <1>1, <1>2, <1>3 DEF Reviews!Insert

LEMMA ReviewOwnerChecked ==
    ASSUME ReviewsInv, NEW p \in Requests, Reviews!CheckOwner(p)
    PROVE  ReviewsInv'
<1>1. PICK status \in Nat : status = Reviews!OwnerStatus(rReq[p].id, rReq[p].user)
    BY DEF Reviews!OwnerStatus
<1>2. IF status # 200 THEN Reviews!Finish(p, status)
      ELSE rReq' = [rReq EXCEPT ![p].step = "write"]
    BY <1>1, Zenon DEF Reviews!CheckOwner
<1>3. rReq' \in [Requests -> ReviewReq]
    BY <1>2, ReviewFinish, ReviewMoves
<1> QED BY <1>3, SameReviews DEF Reviews!CheckOwner

LEMMA ReviewUpdated ==
    ASSUME ReviewsInv, NEW p \in Requests, Reviews!Update(p)
    PROVE  ReviewsInv'
<1>1. PICK id \in Nat, rating \in Ratings \cup {0} : id = rReq[p].id /\ rating = rReq[p].row.rating
    BY DEF ReviewsInv, ReviewReq, Sent
<1>2. CASE id \notin DOMAIN reviews
  <2>1. reviews' = reviews /\ rDrawn' = rDrawn /\ Reviews!Finish(p, 500)
      BY <1>1, <1>2 DEF Reviews!Update
  <2> QED BY <2>1, ReviewFinish, SameReviews
<1>3. CASE id \in DOMAIN reviews
  <2>1. /\ reviews' = [reviews EXCEPT ![id].rating = rating] /\ rDrawn' = rDrawn
        /\ rReq' = [rReq EXCEPT ![p].step = "summarise"]
      BY <1>1, <1>3 DEF Reviews!Update
  <2>2. PICK row : row = [reviews[id] EXCEPT !.rating = rating]
      OBVIOUS
  <2>3. /\ row \in Sent /\ row.user = reviews[id].user
        /\ row.professor = reviews[id].professor /\ reviews' = [reviews EXCEPT ![id] = row]
      BY <1>3, <2>1, <2>2 DEF ReviewsInv, Sent
  <2>4. /\ DOMAIN reviews' = DOMAIN reviews /\ reviews' \in [DOMAIN reviews' -> Sent]
        /\ \A x \in DOMAIN reviews : reviews'[x] = IF x = id THEN row ELSE reviews[x]
      BY <2>3 DEF ReviewsInv
  <2>5. rReq' \in [Requests -> ReviewReq]
      BY <2>1, ReviewMoves
  <2> QED BY <2>1, <2>3, <2>4, <2>5, FewerReviews
<1> QED BY <1>2, <1>3

(* Deleting a review, and an account with its reviews.                     *)
LEMMA ReviewDeleted ==
    ASSUME ReviewsInv, NEW p \in Requests, Reviews!Delete(p) \/ Reviews!Leave(p)
    PROVE  ReviewsInv'
<1>1. PICK kept \in SUBSET DOMAIN reviews : reviews' = [x \in kept |-> reviews[x]]
    BY DEF Reviews!Delete, Reviews!Leave
<1>2. /\ DOMAIN reviews' \subseteq DOMAIN reviews /\ reviews' \in [DOMAIN reviews' -> Sent]
      /\ \A x \in DOMAIN reviews' : reviews'[x] = reviews[x]
    BY <1>1 DEF ReviewsInv
<1>3. \/ rReq' = [rReq EXCEPT ![p].step = "summarise"]
      \/ \E status \in Nat : Reviews!Finish(p, status)
    BY DEF Reviews!Delete, Reviews!Leave
<1>4. rReq' \in [Requests -> ReviewReq]
    BY <1>3, ReviewFinish, ReviewMoves
<1>5. rDrawn' = rDrawn
    BY DEF Reviews!Delete, Reviews!Leave
<1> QED BY <1>2, <1>4, <1>5, FewerReviews

LEMMA ReviewsSummarised ==
    ASSUME ReviewsInv, NEW p \in Requests, Reviews!Summarise(p)
    PROVE  ReviewsInv'
<1>1. \E status \in Nat : Reviews!Finish(p, status)
    BY DEF Reviews!Summarise
<1>2. rReq' \in [Requests -> ReviewReq]
    BY <1>1, ReviewFinish
<1> QED BY <1>2, SameReviews DEF Reviews!Summarise

LEMMA ReviewsNext ==
    ASSUME ReviewsInv, [Reviews!Next]_Reviews!vars
    PROVE  ReviewsInv'
<1>1. CASE UNCHANGED Reviews!vars
    BY <1>1, SameReviews DEF Reviews!vars, ReviewsInv
<1>2. CASE Reviews!BeginAny
    BY <1>2, ReviewBegins
<1>3. ASSUME NEW p \in Requests, Reviews!Step(p)
      PROVE  ReviewsInv'
    BY <1>3, DuplicateChecked, ReviewInserted, ReviewOwnerChecked, ReviewUpdated,
       ReviewDeleted, ReviewsSummarised DEF Reviews!Step
<1> QED BY <1>1, <1>2, <1>3 DEF Reviews!Next

(* A student has one review of a professor's offering at most, for any     *)
(* number of requests whose checks and inserts overlap: the constraint of  *)
(* the table settles what the check has missed.                            *)
THEOREM ReviewsCorrect == Reviews!Spec => []OneReviewPerOffering
<1>1. ReviewsInv => OneReviewPerOffering
    BY DEF ReviewsInv
<1> QED BY <1>1, ReviewsInitOK, ReviewsNext, PTL DEF Reviews!Spec
-----------------------------------------------------------------------------
(* Completed courses: positions of a list in their order.                  *)
LEMMA SameCounting ==
    /\ \A S : Courses!Cardinality(S) = Cardinality(S)
    /\ \A S : Courses!IsFiniteSet(S) <=> IsFiniteSet(S)
BY DEF Courses!Cardinality, Cardinality, Courses!IsFiniteSet, IsFiniteSet

LEMMA RankType ==
    ASSUME NEW P, IsFiniteSet(P), P \subseteq Nat, NEW n \in P
    PROVE  Courses!Rank(P, n) \in 1..Cardinality(P)
<1> DEFINE below == {m \in P : m <= n}
<1>1. below \in SUBSET P /\ n \in below
    OBVIOUS
<1>2. Courses!Rank(P, n) = Cardinality(below)
    BY SameCounting DEF Courses!Rank
<1> HIDE DEF below
<1>3. IsFiniteSet(below) /\ Cardinality(below) <= Cardinality(P)
    BY <1>1, FS_Subset
<1>4. Cardinality(below) \in Nat /\ Cardinality(P) \in Nat /\ Cardinality(below) # 0
    BY <1>1, <1>3, FS_CardinalityType, FS_EmptySet
<1> QED BY <1>2, <1>3, <1>4

LEMMA RankGrows ==
    ASSUME NEW P, IsFiniteSet(P), P \subseteq Nat, NEW n \in P, NEW m \in P, n < m
    PROVE  Courses!Rank(P, n) # Courses!Rank(P, m)
<1> DEFINE upTo(k) == {x \in P : x <= k}
<1>1. upTo(n) \in SUBSET upTo(m) /\ upTo(m) \in SUBSET P
  <2>1. \A x \in P : x <= n => x <= m
      OBVIOUS
  <2> QED BY <2>1
<1>2. m \in upTo(m) /\ m \notin upTo(n)
    OBVIOUS
<1>3. Courses!Rank(P, n) = Cardinality(upTo(n)) /\ Courses!Rank(P, m) = Cardinality(upTo(m))
    BY SameCounting DEF Courses!Rank
<1> HIDE DEF upTo
<1>4. IsFiniteSet(upTo(m))
    BY <1>1, FS_Subset
<1>5. Cardinality(upTo(n)) # Cardinality(upTo(m))
    BY <1>1, <1>2, <1>4, FS_Subset
<1> QED BY <1>3, <1>5

(* Every number up to the size of the set is the rank of a member.         *)
LEMMA RankReaches ==
    ASSUME NEW P, IsFiniteSet(P), P \subseteq Nat, NEW k \in 1..Cardinality(P)
    PROVE  \E n \in P : Courses!Rank(P, n) = k
<1> DEFINE size == Cardinality(P)
           rank == [n \in P |-> Courses!Rank(P, n)]
<1>1. size \in Nat
    BY FS_CardinalityType
<1>2. IsFiniteSet(1..size) /\ Cardinality(1..size) = size
  <2>1. 1 \in Int /\ size \in Int
      BY <1>1
  <2>2. IsFiniteSet(1..size) /\ Cardinality(1..size) = IF 1 > size THEN 0 ELSE size - 1 + 1
      BY <2>1, FS_Interval
  <2> QED BY <1>1, <2>2
<1>3. rank \in [P -> 1..size]
    BY RankType
<1>4. ASSUME NEW n \in P, NEW m \in P, n # m
      PROVE  rank[n] # rank[m]
  <2>1. n < m \/ m < n
      BY <1>4
  <2> QED BY <2>1, RankGrows
<1> HIDE DEF rank, size
<1>5. rank \in Injection(P, 1..size)
    BY <1>3, <1>4 DEF Injection, IsInjective
<1>6. rank \in Surjection(P, 1..size)
    BY <1>2, <1>5, FS_Injection DEF size
<1>7. PICK n \in P : rank[n] = k
    BY <1>6 DEF Surjection, size
<1> QED BY <1>7 DEF rank

(* What is new of a list comes in its order, once for each key.            *)
OncePerKey(new, wanted, key) ==
    \E size \in Nat :
       /\ DOMAIN new = 1..size
       /\ \A k \in 1..size : new[k] \in wanted
       /\ \A k, l \in 1..size : k # l => key[new[k]] # key[new[l]]

LEMMA NewPositions ==
    ASSUME NEW wanted, IsFiniteSet(wanted), wanted \subseteq Nat, NEW key
    PROVE  OncePerKey(Courses!InOrder(Courses!FirstOfEach(wanted, key)), wanted, key)
<1> DEFINE first == Courses!FirstOfEach(wanted, key)
           size == Cardinality(first)
           new == Courses!InOrder(first)
<1>1. first \in SUBSET wanted
    BY DEF Courses!FirstOfEach
<1>2. \A m, n \in first : m # n => key[m] # key[n]
    BY <1>1 DEF Courses!FirstOfEach
<1> HIDE DEF first
<1>3. IsFiniteSet(first) /\ first \subseteq Nat /\ size \in Nat
    BY <1>1, FS_Subset, FS_CardinalityType
<1>4. new = [k \in 1..size |-> CHOOSE n \in first : Courses!Rank(first, n) = k]
    BY SameCounting DEF Courses!InOrder, new
<1> HIDE DEF size, new
<1>5. ASSUME NEW k \in 1..size
      PROVE  new[k] \in first /\ Courses!Rank(first, new[k]) = k
  <2>1. \E n \in first : Courses!Rank(first, n) = k
      BY <1>3, RankReaches DEF size
  <2>2. new[k] = CHOOSE n \in first : Courses!Rank(first, n) = k
      BY <1>4
  <2> QED BY <2>1, <2>2
<1>6. ASSUME NEW k \in 1..size, NEW l \in 1..size, k # l
      PROVE  key[new[k]] # key[new[l]]
  <2>1. new[k] # new[l]
      BY <1>5, <1>6
  <2> QED BY <1>2, <1>5, <2>1
<1>7. DOMAIN new = 1..size
    BY <1>4
<1>8. OncePerKey(new, wanted, key)
    BY <1>1, <1>3, <1>5, <1>6, <1>7 DEF OncePerKey
<1> QED BY <1>8 DEF new, first

(* A row has its columns, and its area follows its category; two rows are  *)
(* one course when they share a code that nobody set by hand, or an        *)
(* offering of the archive.                                                *)
Columns == {"user", "code", "title", "category", "area", "offering", "status", "named"}

RowOK(row) ==
    /\ DOMAIN row = Columns /\ row.named \in BOOLEAN
    /\ ~row.named => row.area = AreaOf[row.category]

Once(a, b) ==
    /\ a.code = b.code => a.code \in {None} \cup Courses!SetByHand
    /\ a.offering = b.offering => a.offering = None

NewRowsOK(new) ==
    /\ Len(new) \in Nat /\ DOMAIN new = 1..Len(new)
    /\ \A k \in DOMAIN new : RowOK(new[k])

(* What a request will insert registers no course again.                   *)
Fresh(r, table) ==
    /\ \A k \in DOMAIN r.new : r.new[k].user = r.user
    /\ \A k \in DOMAIN r.new, i \in DOMAIN table :
          table[i].user = r.user => Once(r.new[k], table[i])
    /\ \A k, l \in DOMAIN r.new : k # l => Once(r.new[k], r.new[l])

LEMMA OnceIsSymmetric ==
    ASSUME NEW a, NEW b, Once(a, b)
    PROVE  Once(b, a)
BY DEF Once

LEMMA LengthOf ==
    ASSUME NEW size \in Nat, NEW new, new = [k \in DOMAIN new |-> new[k]], DOMAIN new = 1..size
    PROVE  Len(new) = size
<1> DEFINE S == {new[k] : k \in 1..size}
<1>1. new \in [1..size -> S]
    OBVIOUS
<1> HIDE DEF S
<1>2. new \in Seq(S)
    BY <1>1
<1> QED BY <1>1, <1>2

LEMMA ManualRow ==
    ASSUME NEW u, NEW body
    PROVE  LET row == Courses!Manual(u, body)
           IN  /\ RowOK(row) /\ row.user = u /\ row.code = body.code /\ row.offering = None
BY DEF Courses!Manual, Courses!NoRow, RowOK, Columns

LEMMA ArchiveRow ==
    ASSUME NEW u, NEW id, NEW status
    PROVE  LET row == Courses!FromArchive(u, id, status)
           IN  /\ RowOK(row) /\ row.user = u /\ row.code = Archive[id].code
               /\ row.offering = id
BY DEF Courses!FromArchive, RowOK, Columns

LEMMA SectionRow ==
    ASSUME NEW u, NEW section, NEW status
    PROVE  LET row == Courses!FromSection(u, section, status)
           IN  /\ RowOK(row) /\ row.user = u /\ row.code = section.code /\ row.offering = None
BY DEF Courses!FromSection, Courses!NoRow, RowOK, Columns

LEMMA EnteredRows ==
    ASSUME NEW r, r.new = <<Courses!Manual(r.user, r.arg)>>
    PROVE  /\ NewRowsOK(r.new)
           /\ ~Courses!IsDuplicate(Courses!RowsOf(r.user), r.arg) => Fresh(r, courses)
<1> DEFINE row == Courses!Manual(r.user, r.arg)
<1>1. RowOK(row) /\ row.user = r.user /\ row.code = r.arg.code /\ row.offering = None
    BY ManualRow
<1> HIDE DEF row
<1>2. r.new = <<row>>
    BY DEF row
<1>3. Len(r.new) = 1 /\ DOMAIN r.new = 1..1 /\ \A k \in DOMAIN r.new : r.new[k] = row
    BY <1>2
<1>4. NewRowsOK(r.new)
    BY <1>1, <1>3 DEF NewRowsOK
<1>5. ASSUME ~Courses!IsDuplicate(Courses!RowsOf(r.user), r.arg),
             NEW i \in DOMAIN courses, courses[i].user = r.user
      PROVE  Once(row, courses[i])
  <2>1. courses[i] \in Courses!RowsOf(r.user)
      BY <1>5 DEF Courses!RowsOf
  <2>2. r.arg.code = None \/ courses[i].code # r.arg.code
      BY <1>5, <2>1 DEF Courses!IsDuplicate
  <2> QED BY <1>1, <2>2 DEF Once
<1> QED BY <1>1, <1>3, <1>4, <1>5 DEF Fresh

(* A code that was not found among those of the student's rows.            *)
LEMMA NotSeen ==
    ASSUME NEW u, NEW row, row.code \notin Courses!CodesIn(Courses!RowsOf(u)),
           row.offering = None \/ row.offering \notin {a.offering : a \in Courses!RowsOf(u)},
           NEW i \in DOMAIN courses, courses[i].user = u
    PROVE  Once(row, courses[i])
<1>1. courses[i] \in Courses!RowsOf(u)
    BY DEF Courses!RowsOf
<1> QED BY <1>1 DEF Once, Courses!CodesIn

LEMMA ListedRows ==
    ASSUME NEW r, NEW list \in Lists, NEW status,
           r.new = Courses!FromList(r.user, list, status, Courses!RowsOf(r.user))
    PROVE  NewRowsOK(r.new) /\ Fresh(r, courses)
<1> DEFINE rows == Courses!RowsOf(r.user)
           wanted == {n \in DOMAIN list : /\ list[n] \in DOMAIN Archive
                                          /\ list[n] \notin {a.offering : a \in rows}
                                          /\ Archive[list[n]].code \notin Courses!CodesIn(rows)}
           code == [n \in wanted |-> Archive[list[n]].code]
           new == Courses!InOrder(Courses!FirstOfEach(wanted, code))
<1>1. IsFiniteSet(wanted) /\ wanted \subseteq Nat
  <2>1. wanted \in SUBSET DOMAIN list
      OBVIOUS
  <2>2. IsFiniteSet(DOMAIN list) /\ DOMAIN list \subseteq Nat
      BY SameCounting, PartsAssumption DEF Courses!CourseAssumption
  <2> QED BY <2>1, <2>2, FS_Subset
<1>2. r.new = [k \in DOMAIN new |-> Courses!FromArchive(r.user, list[new[k]], status)]
    BY DEF Courses!FromList
<1>3. \A n \in wanted : /\ code[n] = Archive[list[n]].code
                        /\ list[n] \notin {a.offering : a \in rows}
                        /\ code[n] \notin Courses!CodesIn(rows)
    OBVIOUS
<1>0. new = Courses!InOrder(Courses!FirstOfEach(wanted, code))
    OBVIOUS
<1> HIDE DEF new, code, wanted, rows
<1>4. PICK size \in Nat : /\ DOMAIN new = 1..size
                          /\ \A k \in 1..size : new[k] \in wanted
                          /\ \A k, l \in 1..size : k # l => code[new[k]] # code[new[l]]
  <2>1. OncePerKey(new, wanted, code)
      BY <1>0, <1>1, NewPositions
  <2> QED BY <2>1 DEF OncePerKey
<1>5. DOMAIN r.new = 1..size /\ Len(r.new) = size
  <2>1. DOMAIN r.new = 1..size /\ r.new = [k \in DOMAIN r.new |-> r.new[k]]
      BY <1>2, <1>4
  <2> QED BY <2>1, LengthOf
<1>6. ASSUME NEW k \in 1..size
      PROVE  /\ RowOK(r.new[k]) /\ r.new[k].user = r.user
             /\ r.new[k].code = code[new[k]] /\ r.new[k].offering = list[new[k]]
    BY <1>2, <1>3, <1>4, ArchiveRow
<1>7. NewRowsOK(r.new)
    BY <1>5, <1>6 DEF NewRowsOK
<1>8. ASSUME NEW k \in 1..size, NEW i \in DOMAIN courses, courses[i].user = r.user
      PROVE  Once(r.new[k], courses[i])
    BY <1>3, <1>4, <1>6, <1>8, NotSeen DEF rows
<1>9. ASSUME NEW k \in 1..size, NEW l \in 1..size, k # l
      PROVE  Once(r.new[k], r.new[l])
  <2>1. code[new[k]] # code[new[l]]
      BY <1>4, <1>9
  <2>2. list[new[k]] # list[new[l]]
      BY <1>3, <1>4, <2>1
  <2> QED BY <1>6, <2>1, <2>2 DEF Once
<1> QED BY <1>5, <1>6, <1>7, <1>8, <1>9 DEF Fresh

LEMMA PlannedRows ==
    ASSUME NEW r, NEW plan \in DOMAIN Plans, NEW status,
           r.new = Courses!FromTimetable(r.user, Plans[plan].items, status,
                                         Courses!RowsOf(r.user))
    PROVE  NewRowsOK(r.new) /\ Fresh(r, courses)
<1> DEFINE items == Plans[plan].items
           rows == Courses!RowsOf(r.user)
           wanted == {n \in DOMAIN items : /\ items[n].active /\ items[n].known
                                           /\ items[n].code \notin Courses!CodesIn(rows)}
           code == [n \in wanted |-> items[n].code]
           new == Courses!InOrder(Courses!FirstOfEach(wanted, code))
<1>1. IsFiniteSet(wanted) /\ wanted \subseteq Nat
  <2>1. wanted \in SUBSET DOMAIN items
      OBVIOUS
  <2>2. IsFiniteSet(DOMAIN items) /\ DOMAIN items \subseteq Nat
      BY SameCounting, PartsAssumption DEF Courses!CourseAssumption
  <2> QED BY <2>1, <2>2, FS_Subset
<1>2. r.new = [k \in DOMAIN new |-> Courses!FromSection(r.user, items[new[k]], status)]
    BY DEF Courses!FromTimetable
<1>3. \A n \in wanted : code[n] = items[n].code /\ code[n] \notin Courses!CodesIn(rows)
    OBVIOUS
<1>0. new = Courses!InOrder(Courses!FirstOfEach(wanted, code))
    OBVIOUS
<1> HIDE DEF new, code, wanted, rows, items
<1>4. PICK size \in Nat : /\ DOMAIN new = 1..size
                          /\ \A k \in 1..size : new[k] \in wanted
                          /\ \A k, l \in 1..size : k # l => code[new[k]] # code[new[l]]
  <2>1. OncePerKey(new, wanted, code)
      BY <1>0, <1>1, NewPositions
  <2> QED BY <2>1 DEF OncePerKey
<1>5. DOMAIN r.new = 1..size /\ Len(r.new) = size
  <2>1. DOMAIN r.new = 1..size /\ r.new = [k \in DOMAIN r.new |-> r.new[k]]
      BY <1>2, <1>4
  <2> QED BY <2>1, LengthOf
<1>6. ASSUME NEW k \in 1..size
      PROVE  /\ RowOK(r.new[k]) /\ r.new[k].user = r.user
             /\ r.new[k].code = code[new[k]] /\ r.new[k].offering = None
    BY <1>2, <1>3, <1>4, SectionRow
<1>7. NewRowsOK(r.new)
    BY <1>5, <1>6 DEF NewRowsOK
<1>8. ASSUME NEW k \in 1..size, NEW i \in DOMAIN courses, courses[i].user = r.user
      PROVE  Once(r.new[k], courses[i])
    BY <1>3, <1>4, <1>6, <1>8, NotSeen DEF rows
<1>9. ASSUME NEW k \in 1..size, NEW l \in 1..size, k # l
      PROVE  Once(r.new[k], r.new[l])
    BY <1>4, <1>6, <1>9 DEF Once
<1> QED BY <1>5, <1>6, <1>7, <1>8, <1>9 DEF Fresh
(* What holds of every request in progress, and of the whole table.        *)
ReqOK(r) ==
    /\ DOMAIN r = {"op", "step", "user", "arg", "new", "status"}
    /\ r.step # "idle" => r.user # None
    /\ r.op = "update" => r.arg.change \in Changes
    /\ r.op = "import_history" => r.arg.list \in Lists
    /\ r.step = "read" => r.op \in {"create", "import_timetable", "import_history", "list"}
    /\ r.step = "insert" => NewRowsOK(r.new)

TableOK ==
    /\ cDrawn \in Nat /\ DOMAIN courses \subseteq 1..cDrawn
    /\ \A i \in DOMAIN courses : RowOK(courses[i])
    /\ DOMAIN cReq = CourseRequests
    /\ \A p \in CourseRequests : ReqOK(cReq[p])

(* A student has one request in progress, and what it is about to insert   *)
(* is still new.                                                           *)
OnceOK ==
    /\ \A i, j \in DOMAIN courses :
          i # j /\ courses[i].user = courses[j].user => Once(courses[i], courses[j])
    /\ \A p, q \in CourseRequests :
          p # q => cReq[p].user = None \/ cReq[p].user # cReq[q].user
    /\ \A p \in CourseRequests : cReq[p].step = "insert" => Fresh(cReq[p], courses)

CoursesInv == TableOK /\ (Serial => OnceOK)

LEMMA NoCourseReq ==
    /\ ReqOK(Courses!NoReq) /\ Courses!NoReq.user = None /\ Courses!NoReq.step = "idle"
    /\ Courses!NoReq.op = "none"
BY DEF Courses!NoReq, ReqOK

LEMMA CoursesInitOK == Courses!Init => CoursesInv
<1> SUFFICES ASSUME Courses!Init PROVE CoursesInv
    OBVIOUS
<1>1. DOMAIN courses = {} /\ cDrawn = 0 /\ cReq = [p \in CourseRequests |-> Courses!NoReq]
    BY DEF Courses!Init
<1> QED BY <1>1, NoCourseReq DEF CoursesInv, TableOK, OnceOK

(* A step that replaces the record of one request and changes the table.   *)
LEMMA TableChange ==
    ASSUME TableOK, NEW p \in CourseRequests, NEW r, ReqOK(r), cReq' = [cReq EXCEPT ![p] = r],
           cDrawn' \in Nat, DOMAIN courses' \subseteq 1..cDrawn',
           \A i \in DOMAIN courses' : RowOK(courses'[i])
    PROVE  TableOK'
<1>1. \A q \in CourseRequests : cReq'[q] = IF q = p THEN r ELSE cReq[q]
    BY DEF TableOK
<1> QED BY <1>1 DEF TableOK

(* Rows may go, and those that stay may differ only so that they are no    *)
(* other course's.                                                         *)
LEMMA OnceChange ==
    ASSUME TableOK, OnceOK, NEW p \in CourseRequests, NEW r, cReq' = [cReq EXCEPT ![p] = r],
           DOMAIN courses' \subseteq DOMAIN courses,
           \A i \in DOMAIN courses' : courses'[i].user = courses[i].user,
           \A i \in DOMAIN courses' : \A x : Once(x, courses[i]) => Once(x, courses'[i]),
           r.user = None \/ (\A q \in CourseRequests \ {p} : cReq[q].user # r.user),
           r.step = "insert" => Fresh(r, courses)
    PROVE  OnceOK'
<1>1. \A q \in CourseRequests : cReq'[q] = IF q = p THEN r ELSE cReq[q]
    BY DEF TableOK
<1>2. ASSUME NEW i \in DOMAIN courses', NEW j \in DOMAIN courses', i # j,
             courses'[i].user = courses'[j].user
      PROVE  Once(courses'[i], courses'[j])
  <2>1. Once(courses[i], courses[j])
      BY <1>2 DEF OnceOK
  <2>2. Once(courses'[j], courses[i])
      BY <2>1, OnceIsSymmetric
  <2> QED BY <2>2, OnceIsSymmetric
<1>3. ASSUME NEW x, Fresh(x, courses)
      PROVE  Fresh(x, courses')
    BY <1>3 DEF Fresh
<1>4. ASSUME NEW q \in CourseRequests, cReq'[q].step = "insert"
      PROVE  Fresh(cReq'[q], courses')
  <2>1. CASE q = p
      BY <1>1, <1>3, <1>4, <2>1
  <2>2. CASE q # p
    <3>1. PICK x : x = cReq[q]
        OBVIOUS
    <3>2. Fresh(x, courses)
        BY <1>1, <1>4, <2>2, <3>1 DEF OnceOK
    <3> QED BY <1>1, <1>3, <2>2, <3>1, <3>2
  <2> QED BY <2>1, <2>2
<1>5. ASSUME NEW q \in CourseRequests, NEW s \in CourseRequests, q # s
      PROVE  cReq'[q].user = None \/ cReq'[q].user # cReq'[s].user
    BY <1>1, <1>5 DEF OnceOK
<1> QED BY <1>2, <1>4, <1>5 DEF OnceOK
LEMMA CoursesFinish ==
    ASSUME CoursesInv, NEW p \in CourseRequests, NEW status, Courses!Finish(p, status),
           cDrawn' = cDrawn, DOMAIN courses' \subseteq DOMAIN courses,
           \A i \in DOMAIN courses' : RowOK(courses'[i]),
           \A i \in DOMAIN courses' : courses'[i].user = courses[i].user,
           \A i \in DOMAIN courses' : \A x : Once(x, courses[i]) => Once(x, courses'[i])
    PROVE  CoursesInv'
<1>1. PICK r : r = [Courses!NoReq EXCEPT !.status = status]
    OBVIOUS
<1>2. ReqOK(r) /\ r.user = None /\ r.step = "idle" /\ cReq' = [cReq EXCEPT ![p] = r]
    BY <1>1 DEF Courses!Finish, Courses!NoReq, ReqOK
<1>3. TableOK'
    BY <1>2, TableChange DEF CoursesInv, TableOK
<1>4. Serial => OnceOK'
    BY <1>2, OnceChange DEF CoursesInv
<1> QED BY <1>3, <1>4 DEF CoursesInv

LEMMA CourseAnswered ==
    ASSUME CoursesInv, NEW p \in CourseRequests, NEW status, Courses!Finish(p, status),
           UNCHANGED <<courses, cDrawn>>
    PROVE  CoursesInv'
BY CoursesFinish DEF CoursesInv, TableOK

(* The record of a request moves on, for the same student or for one who   *)
(* had none in progress.                                                   *)
LEMMA CourseMoves ==
    ASSUME CoursesInv, NEW p \in CourseRequests, NEW r, ReqOK(r),
           cReq' = [cReq EXCEPT ![p] = r], UNCHANGED <<courses, cDrawn>>,
           \/ r.user = cReq[p].user
           \/ Serial => (\A q \in CourseRequests : cReq[q].user # r.user),
           Serial /\ r.step = "insert" => Fresh(r, courses)
    PROVE  CoursesInv'
<1>1. TableOK'
    BY TableChange DEF CoursesInv, TableOK
<1>2. Serial => OnceOK'
  <2>1. ASSUME Serial
        PROVE  r.user = None \/ (\A q \in CourseRequests \ {p} : cReq[q].user # r.user)
      BY <2>1 DEF CoursesInv, OnceOK
  <2> QED BY <2>1, OnceChange DEF CoursesInv
<1> QED BY <1>1, <1>2 DEF CoursesInv

LEMMA CourseBegins ==
    ASSUME CoursesInv, Courses!BeginAny
    PROVE  CoursesInv'
<1>1. PICK p \in CourseRequests, u \in Users, op \in CourseOps :
         \E arg \in Courses!Args(op) : Courses!Begin(p, u, op, arg)
    BY DEF Courses!BeginAny
<1>2. PICK arg \in Courses!Args(op) : Courses!Begin(p, u, op, arg)
    BY <1>1
<1>3. PICK step : step = Courses!FirstStep(op)
    OBVIOUS
<1>4. /\ step \in {"read", "owner", "write"}
      /\ step = "read" => op \in {"create", "import_timetable", "import_history", "list"}
    BY <1>3 DEF Courses!FirstStep
<1>5. op = "update" => arg.change \in Changes
    BY <1>2 DEF Courses!Args
<1>6. op = "import_history" => arg.list \in Lists
    BY <1>2 DEF Courses!Args
<1>7. PICK r : r = [Courses!NoReq EXCEPT !.op = op, !.step = step, !.user = u, !.arg = arg]
    OBVIOUS
<1>8. ReqOK(r) /\ r.step # "insert" /\ r.user = u
  <2>1. u # None
      BY PartsAssumption DEF Courses!CourseAssumption
  <2> QED BY <1>4, <1>5, <1>6, <1>7, <2>1 DEF Courses!NoReq, ReqOK
<1>9. /\ cReq' = [cReq EXCEPT ![p] = r] /\ UNCHANGED <<courses, cDrawn>>
      /\ Serial => (\A q \in CourseRequests : cReq[q].user # u)
    BY <1>2, <1>3, <1>7 DEF Courses!Begin
<1> QED BY <1>8, <1>9, CourseMoves

(* What a request decides to insert, when it has read the student's rows.  *)
LEMMA DecidedRows ==
    ASSUME NEW r, ReqOK(r), r.step = "read", r.op # "list", Courses!ReadStatus(r) = 200,
           NEW s, s.new = Courses!New(r), s.user = r.user
    PROVE  NewRowsOK(s.new) /\ Fresh(s, courses)
<1>1. CASE r.op = "create"
  <2>1. ~Courses!IsDuplicate(Courses!RowsOf(r.user), r.arg)
      BY <1>1 DEF Courses!ReadStatus
  <2>2. s.new = <<Courses!Manual(r.user, r.arg)>>
      BY <1>1 DEF Courses!New
  <2>3. PICK x : x = [new |-> s.new, user |-> r.user, arg |-> r.arg]
      OBVIOUS
  <2>4. x.new = s.new /\ x.user = s.user /\ x.arg = r.arg
      BY <2>3
  <2>5. NewRowsOK(x.new) /\ Fresh(x, courses)
      BY <2>1, <2>2, <2>4, EnteredRows
  <2> QED BY <2>4, <2>5 DEF Fresh
<1>2. CASE r.op = "import_history"
  <2>1. s.new = Courses!FromList(s.user, r.arg.list, r.arg.status, Courses!RowsOf(s.user))
      BY <1>2 DEF Courses!New
  <2>2. r.arg.list \in Lists
      BY <1>2 DEF ReqOK
  <2> QED BY <2>1, <2>2, ListedRows
<1>3. CASE r.op = "import_timetable"
  <2>1. s.new = Courses!FromTimetable(s.user, Plans[r.arg.timetable].items, r.arg.status,
                                      Courses!RowsOf(s.user))
      BY <1>3 DEF Courses!New
  <2>2. r.arg.timetable \in DOMAIN Plans
      BY <1>3 DEF Courses!ReadStatus
  <2> QED BY <2>1, <2>2, PlannedRows
<1> QED BY <1>1, <1>2, <1>3 DEF ReqOK

LEMMA CoursesRead ==
    ASSUME CoursesInv, NEW p \in CourseRequests, Courses!Read(p)
    PROVE  CoursesInv'
<1>1. PICK r : r = cReq[p]
    OBVIOUS
<1>2. ReqOK(r) /\ r.step = "read" /\ UNCHANGED <<courses, cDrawn>>
    BY <1>1 DEF Courses!Read, CoursesInv, TableOK
<1>3. CASE Courses!ReadStatus(r) # 200 \/ r.op = "list"
  <2>1. PICK status : status = Courses!ReadStatus(r)
      OBVIOUS
  <2>2. Courses!Finish(p, status)
      BY <1>1, <1>3, <2>1, Zenon DEF Courses!Read
  <2> QED BY <1>2, <2>2, CourseAnswered
<1>4. CASE Courses!ReadStatus(r) = 200 /\ r.op # "list"
  <2>1. PICK new : new = Courses!New(r)
      OBVIOUS
  <2>2. cReq' = [cReq EXCEPT ![p].step = "insert", ![p].new = new]
      BY <1>1, <1>4, <2>1, Zenon DEF Courses!Read
  <2>3. PICK s : s = [r EXCEPT !.step = "insert", !.new = new]
      OBVIOUS
  <2>4. cReq' = [cReq EXCEPT ![p] = s]
      BY <1>1, <2>2, <2>3 DEF CoursesInv, TableOK
  <2>5. s.new = new /\ s.step = "insert" /\ s.user = r.user /\ s.op = r.op /\ s.arg = r.arg
        /\ DOMAIN s = DOMAIN r
      BY <1>2, <2>3 DEF ReqOK
  <2>6. NewRowsOK(s.new) /\ Fresh(s, courses)
      BY <1>2, <1>4, <2>1, <2>5, DecidedRows
  <2>7. ReqOK(s)
      BY <1>2, <2>5, <2>6 DEF ReqOK
  <2> QED BY <1>1, <1>2, <2>4, <2>5, <2>6, <2>7, CourseMoves
<1> QED BY <1>3, <1>4
LEMMA CoursesInserted ==
    ASSUME CoursesInv, NEW p \in CourseRequests, Courses!Insert(p)
    PROVE  CoursesInv'
<1>1. PICK new, size : new = cReq[p].new /\ size = Len(new)
    OBVIOUS
<1>2. /\ cReq[p].step = "insert" /\ NewRowsOK(new) /\ size \in Nat /\ DOMAIN new = 1..size
      /\ cDrawn \in Nat /\ DOMAIN courses \subseteq 1..cDrawn
    BY <1>1 DEF Courses!Insert, CoursesInv, TableOK, ReqOK, NewRowsOK
<1>3. PICK status : Courses!Finish(p, status)
    BY DEF Courses!Insert
<1>4. CASE UNCHANGED <<courses, cDrawn>>
    BY <1>3, <1>4, CourseAnswered
<1>5. CASE /\ courses' = [i \in DOMAIN courses \cup (cDrawn + 1)..(cDrawn + size) |->
                             IF i > cDrawn THEN new[i - cDrawn] ELSE courses[i]]
           /\ cDrawn' = cDrawn + size
  <2>1. PICK r : r = [Courses!NoReq EXCEPT !.status = status]
      OBVIOUS
  <2>2. ReqOK(r) /\ r.user = None /\ r.step = "idle" /\ cReq' = [cReq EXCEPT ![p] = r]
      BY <1>3, <2>1 DEF Courses!Finish, Courses!NoReq, ReqOK
  <2>3. /\ DOMAIN courses' = DOMAIN courses \cup (cDrawn + 1)..(cDrawn + size)
        /\ \A i \in DOMAIN courses : i \in 1..cDrawn /\ courses'[i] = courses[i]
        /\ \A i \in (cDrawn + 1)..(cDrawn + size) :
              i - cDrawn \in DOMAIN new /\ courses'[i] = new[i - cDrawn]
      BY <1>2, <1>5
  <2>4. cDrawn' \in Nat /\ DOMAIN courses' \subseteq 1..cDrawn'
      BY <1>2, <1>5, <2>3
  <2>5. \A i \in DOMAIN courses' : RowOK(courses'[i])
      BY <1>2, <2>3 DEF CoursesInv, TableOK, NewRowsOK
  <2>6. TableOK'
      BY <2>2, <2>4, <2>5, TableChange DEF CoursesInv
  <2>7. ASSUME Serial
        PROVE  OnceOK'
    <3>1. OnceOK /\ TableOK
        BY <2>7 DEF CoursesInv
    <3>2. PICK s : s = cReq[p]
        OBVIOUS
    <3>3. Fresh(s, courses) /\ s.new = new
        BY <1>1, <1>2, <3>1, <3>2 DEF OnceOK
    <3>4. ASSUME NEW i \in DOMAIN courses', NEW j \in DOMAIN courses', i # j,
                 courses'[i].user = courses'[j].user
          PROVE  Once(courses'[i], courses'[j])
      <4>1. CASE i \in DOMAIN courses /\ j \in DOMAIN courses
          BY <2>3, <3>1, <3>4, <4>1 DEF OnceOK
      <4>2. CASE i \notin DOMAIN courses /\ j \in DOMAIN courses
        <5>1. i - cDrawn \in DOMAIN new /\ courses'[i] = new[i - cDrawn]
              /\ courses'[j] = courses[j]
            BY <2>3, <4>2
        <5> QED BY <3>3, <3>4, <4>2, <5>1 DEF Fresh
      <4>3. CASE i \in DOMAIN courses /\ j \notin DOMAIN courses
        <5>1. j - cDrawn \in DOMAIN new /\ courses'[j] = new[j - cDrawn]
              /\ courses'[i] = courses[i]
            BY <2>3, <4>3
        <5>2. Once(courses'[j], courses'[i])
            BY <3>3, <3>4, <4>3, <5>1 DEF Fresh
        <5> QED BY <5>2, OnceIsSymmetric
      <4>4. CASE i \notin DOMAIN courses /\ j \notin DOMAIN courses
        <5>1. /\ i \in (cDrawn + 1)..(cDrawn + size) /\ courses'[i] = new[i - cDrawn]
              /\ j \in (cDrawn + 1)..(cDrawn + size) /\ courses'[j] = new[j - cDrawn]
            BY <2>3, <4>4
        <5>2. i - cDrawn \in DOMAIN new /\ j - cDrawn \in DOMAIN new
            BY <2>3, <5>1
        <5>3. i - cDrawn # j - cDrawn
            BY <1>2, <3>4, <5>1
        <5> QED BY <3>3, <5>1, <5>2, <5>3 DEF Fresh
      <4> QED BY <4>1, <4>2, <4>3, <4>4
    <3>5. \A q \in CourseRequests : cReq'[q] = IF q = p THEN r ELSE cReq[q]
        BY <2>2, <3>1 DEF TableOK
    <3>6. ASSUME NEW q \in CourseRequests, cReq'[q].step = "insert"
          PROVE  Fresh(cReq'[q], courses')
      <4>1. q # p /\ cReq'[q] = cReq[q]
          BY <2>2, <3>5, <3>6
      <4>2. PICK x : x = cReq[q]
          OBVIOUS
      <4>3. Fresh(x, courses)
          BY <3>1, <3>6, <4>1, <4>2 DEF OnceOK
      <4>4. \A i \in DOMAIN courses' : courses'[i].user = x.user => i \in DOMAIN courses
        <5>1. s.user # x.user
            BY <1>2, <3>1, <3>2, <4>1, <4>2 DEF OnceOK, TableOK, ReqOK
        <5>2. \A i \in DOMAIN courses' \ DOMAIN courses : courses'[i].user = s.user
            BY <2>3, <3>3 DEF Fresh
        <5> QED BY <5>1, <5>2
      <4>5. Fresh(x, courses')
          BY <2>3, <4>3, <4>4 DEF Fresh
      <4> QED BY <4>1, <4>2, <4>5
    <3>7. ASSUME NEW q \in CourseRequests, NEW x \in CourseRequests, q # x
          PROVE  cReq'[q].user = None \/ cReq'[q].user # cReq'[x].user
        BY <2>2, <3>1, <3>5, <3>7 DEF OnceOK
    <3> QED BY <3>4, <3>6, <3>7 DEF OnceOK
  <2> QED BY <2>6, <2>7 DEF CoursesInv
<1>6. \/ UNCHANGED <<courses, cDrawn>>
      \/ /\ courses' = [i \in DOMAIN courses \cup (cDrawn + 1)..(cDrawn + size) |->
                           IF i > cDrawn THEN new[i - cDrawn] ELSE courses[i]]
         /\ cDrawn' = cDrawn + size
    BY <1>1 DEF Courses!Insert
<1> QED BY <1>4, <1>5, <1>6

LEMMA CourseOwnerChecked ==
    ASSUME CoursesInv, NEW p \in CourseRequests, Courses!CheckOwner(p)
    PROVE  CoursesInv'
<1>1. UNCHANGED <<courses, cDrawn>> /\ cReq[p].step = "owner" /\ ReqOK(cReq[p])
    BY DEF Courses!CheckOwner, CoursesInv, TableOK
<1>2. PICK status : status = Courses!OwnerStatus(cReq[p].arg.id, cReq[p].user)
    OBVIOUS
<1>3. IF status # 200 THEN Courses!Finish(p, status)
      ELSE cReq' = [cReq EXCEPT ![p].step = "write"]
    BY <1>2, Zenon DEF Courses!CheckOwner
<1>4. CASE status # 200
    BY <1>1, <1>3, <1>4, CourseAnswered
<1>5. CASE cReq' = [cReq EXCEPT ![p].step = "write"]
  <2>1. PICK r : r = [cReq[p] EXCEPT !.step = "write"]
      OBVIOUS
  <2>2. /\ ReqOK(r) /\ r.step = "write" /\ r.user = cReq[p].user
        /\ cReq' = [cReq EXCEPT ![p] = r]
      BY <1>1, <1>5, <2>1 DEF ReqOK
  <2> QED BY <1>1, <2>2, CourseMoves
<1> QED BY <1>3, <1>4, <1>5

(* A change keeps a row's student and offering, its area follows, and its  *)
(* code is the old one or one that was set by hand.                        *)
LEMMA ChangedRow ==
    ASSUME NEW row, RowOK(row), NEW change \in Changes
    PROVE  LET new == Courses!Changed(row, change)
           IN  RowOK(new) /\ new.user = row.user /\ \A x : Once(x, row) => Once(x, new)
<1> DEFINE new == Courses!Changed(row, change)
           recomputed == "category" \in DOMAIN change /\ "area" \notin DOMAIN change
<1>1. DOMAIN change \subseteq {"code", "title", "category", "area", "status"}
    BY PartsAssumption DEF Courses!CourseAssumption
<1>2. DOMAIN row = Columns /\ row.named \in BOOLEAN
    BY DEF RowOK
<1>3. DOMAIN new = Columns
    BY <1>2 DEF Courses!Changed
<1>4. /\ new.named = ((row.named \/ "area" \in DOMAIN change) /\ ~recomputed)
      /\ new.user = row.user /\ new.offering = row.offering
      /\ new.area = IF recomputed THEN AreaOf[change.category]
                    ELSE IF "area" \in DOMAIN change THEN change.area ELSE row.area
      /\ new.category = IF "category" \in DOMAIN change THEN change.category ELSE row.category
      /\ new.code = IF "code" \in DOMAIN change THEN change.code ELSE row.code
    BY <1>1, <1>2 DEF Courses!Changed, Columns
<1>5. "code" \in DOMAIN change => change.code \in Courses!SetByHand
    BY DEF Courses!SetByHand
<1> HIDE DEF new
<1>6. RowOK(new)
    BY <1>3, <1>4 DEF RowOK
<1>7. ASSUME NEW x, Once(x, row)
      PROVE  Once(x, new)
    BY <1>4, <1>5, <1>7 DEF Once
<1> QED BY <1>4, <1>6, <1>7 DEF new

LEMMA CourseUpdated ==
    ASSUME CoursesInv, NEW p \in CourseRequests, Courses!Update(p)
    PROVE  CoursesInv'
<1>1. PICK id, change : id = cReq[p].arg.id /\ change = cReq[p].arg.change
    OBVIOUS
<1>2. change \in Changes /\ cDrawn' = cDrawn
    BY <1>1 DEF Courses!Update, CoursesInv, TableOK, ReqOK
<1>3. PICK status : Courses!Finish(p, status)
    BY DEF Courses!Update
<1>4. CASE id \notin DOMAIN courses
  <2>1. courses' = courses
      BY <1>1, <1>4 DEF Courses!Update
  <2> QED BY <1>2, <1>3, <2>1, CourseAnswered
<1>5. CASE id \in DOMAIN courses
  <2>1. PICK row : row = Courses!Changed(courses[id], change)
      OBVIOUS
  <2>2. courses' = [courses EXCEPT ![id] = row]
      BY <1>1, <1>5, <2>1 DEF Courses!Update
  <2>3. \A i \in DOMAIN courses : RowOK(courses[i])
      BY DEF CoursesInv, TableOK
  <2>4. /\ RowOK(row) /\ row.user = courses[id].user
        /\ \A x : Once(x, courses[id]) => Once(x, row)
      BY <1>2, <1>5, <2>1, <2>3, ChangedRow
  <2>5. DOMAIN courses' = DOMAIN courses
        /\ \A i \in DOMAIN courses : courses'[i] = IF i = id THEN row ELSE courses[i]
      BY <2>2
  <2>6. \A i \in DOMAIN courses' : RowOK(courses'[i])
      BY <2>3, <2>4, <2>5
  <2>7. \A i \in DOMAIN courses' : courses'[i].user = courses[i].user
      BY <2>4, <2>5
  <2>8. \A i \in DOMAIN courses' : \A x : Once(x, courses[i]) => Once(x, courses'[i])
      BY <2>4, <2>5
  <2> QED BY <1>2, <1>3, <2>5, <2>6, <2>7, <2>8, CoursesFinish
<1> QED BY <1>4, <1>5

(* Deleting a row, and an account with its rows.                           *)
LEMMA CourseDeleted ==
    ASSUME CoursesInv, NEW p \in CourseRequests, Courses!Delete(p) \/ Courses!Leave(p)
    PROVE  CoursesInv'
<1>1. PICK kept \in SUBSET DOMAIN courses : courses' = [i \in kept |-> courses[i]]
    BY DEF Courses!Delete, Courses!Leave
<1>2. /\ DOMAIN courses' \subseteq DOMAIN courses /\ cDrawn' = cDrawn
      /\ \A i \in DOMAIN courses' : courses'[i] = courses[i]
    BY <1>1 DEF Courses!Delete, Courses!Leave
<1>3. PICK status : Courses!Finish(p, status)
    BY DEF Courses!Delete, Courses!Leave
<1>4. \A i \in DOMAIN courses' : RowOK(courses'[i])
    BY <1>2 DEF CoursesInv, TableOK
<1> QED BY <1>2, <1>3, <1>4, CoursesFinish

LEMMA CoursesNext ==
    ASSUME CoursesInv, [Courses!Next]_Courses!vars
    PROVE  CoursesInv'
<1>1. CASE UNCHANGED Courses!vars
    BY <1>1 DEF Courses!vars, CoursesInv, TableOK, OnceOK
<1>2. CASE Courses!BeginAny
    BY <1>2, CourseBegins
<1>3. ASSUME NEW p \in CourseRequests, Courses!Step(p)
      PROVE  CoursesInv'
    BY <1>3, CoursesRead, CoursesInserted, CourseOwnerChecked, CourseUpdated, CourseDeleted
       DEF Courses!Step
<1> QED BY <1>1, <1>2, <1>3 DEF Courses!Next

(* The area of a completed course is that of its category unless somebody  *)
(* has named it, for any catalog, archive, entries and changes, whatever   *)
(* requests overlap.                                                       *)
THEOREM AreasFollow == Courses!Spec => []AreaFollowsCategory
<1>1. CoursesInv => AreaFollowsCategory
    BY DEF CoursesInv, TableOK, RowOK, AreaFollowsCategory, Courses!AreaFollowsCategory
<1> QED BY <1>1, CoursesInitOK, CoursesNext, PTL DEF Courses!Spec

(* A course is registered once by all three ways in, for any lists and     *)
(* timetables, as long as a student waits for an answer before the next    *)
(* request (Serial): nothing in the table keeps two overlapping requests   *)
(* of one student apart.                                                   *)
THEOREM CoursesOnce ==
    ASSUME Serial
    PROVE  Courses!Spec => []RegisteredOnce
<1>1. CoursesInv => RegisteredOnce
    BY DEF CoursesInv, OnceOK, Once, RegisteredOnce, Courses!RegisteredOnce
<1> QED BY <1>1, CoursesInitOK, CoursesNext, PTL DEF Courses!Spec
==============================================================================
