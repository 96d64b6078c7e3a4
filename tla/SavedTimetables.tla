--------------------------- MODULE SavedTimetables ---------------------------
(***************************************************************************)
(* The timetables a student saves on the server, and the links that share  *)
(* them: api/routes/timetables.py over the tables saved_timetables and     *)
(* timetable_shares, with the deletion of an account in                    *)
(* api/routes/users.py.                                                    *)
(*                                                                         *)
(* Most requests read a row in one transaction and write in a second one,  *)
(* so another request, the end of the account or a deployment of another   *)
(* catalog may come between the two.  A transaction is one step: rows that *)
(* it reads FOR UPDATE or deletes are locked until it commits.  A request  *)
(* keeps the catalog of the process that serves it.                        *)
(***************************************************************************)
EXTENDS Integers, FiniteSets, Sequences

CONSTANTS
    Users, Requests,
    None,            \* no user, no version, no expiry, no name: Python's None
    Catalogs,        \* the catalogs in the order of their deployment
    Bodies,          \* the item lists that clients send
    Versions,        \* the data versions that clients send, and None
    Offered,         \* bound: the requests that clients make
    NameLengths,     \* the lengths of the names that clients send
    NameMax,         \* the width of the column of the name
    CopySuffix,      \* the length of what a copy without a name appends
    MaxTimetables, MaxShares, MaxTime  \* bounds: rows ever made, the clock

Ops == {"create", "list", "get", "update", "sections", "delete", "copy",
        "favorite", "share", "shared_get", "shared_copy", "leave"}

ASSUME TimetableAssumption ==
    /\ None \notin Users /\ None \notin Nat /\ Offered \subseteq Ops
    /\ DOMAIN Catalogs = 1..Len(Catalogs) /\ Len(Catalogs) \in Nat \ {0}
    /\ \A c \in DOMAIN Catalogs : \A s \in DOMAIN Catalogs[c].sections :
          \A m \in Catalogs[c].sections[s].meetings : m.start \in Int /\ m.end \in Int
    /\ \A b \in Bodies : DOMAIN b = 1..Len(b) /\ Len(b) \in Nat
    /\ NameMax \in Nat /\ CopySuffix \in Nat /\ NameLengths \subseteq 0..NameMax
    /\ MaxTimetables \in Nat /\ MaxShares \in Nat /\ MaxTime \in Nat

VARIABLES
    users,       \* table users: the accounts that exist
    timetables,  \* table saved_timetables, by id
    shares,      \* table timetable_shares, by share code
    drawn,       \* how many timetable ids and share codes were ever drawn
    deployed,    \* how many catalogs were deployed so far
    now,         \* the clock
    req          \* the requests in progress, with the last answer of each client

vars == <<users, timetables, shares, drawn, deployed, now, req>>

Put(table, id, row) ==
    [x \in DOMAIN table \cup {id} |-> IF x = id THEN row ELSE table[x]]

Without(table, ids) == [x \in DOMAIN table \ ids |-> table[x]]
-----------------------------------------------------------------------------
(* Items and catalogs.  A catalog maps the sections it knows to their      *)
(* course and their weekly meetings.                                       *)

Meet(a, b) == a.day = b.day /\ a.start < b.end /\ b.start < a.end

Clash(left, right) == \E a \in left.meetings, b \in right.meetings : Meet(a, b)

IsActive(item) == item.role \in {"must", "want"}

KnownIn(c, semester) == IF semester = Catalogs[c].semester THEN Catalogs[c].sections ELSE << >>

(* The active items of a timetable whose sections the catalog still knows, *)
(* each at its place with its section.                                     *)
ActiveSections(c, semester, items) ==
    LET known == KnownIn(c, semester)
    IN  [n \in {m \in DOMAIN items : IsActive(items[m]) /\ items[m].section \in DOMAIN known} |->
            known[items[n].section]]

\* Mutant: only neighbours are compared.
NeighbourConflicts(sections) ==
    {p \in (DOMAIN sections) \X (DOMAIN sections) :
        /\ p[1] < p[2] /\ Clash(sections[p[1]], sections[p[2]])
        /\ \A n \in DOMAIN sections : ~(p[1] < n /\ n < p[2])}

Conflicts(sections) ==
    {p \in (DOMAIN sections) \X (DOMAIN sections) :
        p[1] < p[2] /\ Clash(sections[p[1]], sections[p[2]])}

(* The status with which items are refused, 200 if they are accepted.  *)
ValidateItems(items, semester, version, c) ==
    LET ids == {items[n].section : n \in DOMAIN items}
        active == ActiveSections(c, semester, items)
        courses == {active[n].course : n \in DOMAIN active}
    IN  IF semester # Catalogs[c].semester THEN 422
        ELSE IF version # None /\ version # Catalogs[c].version THEN 409
        ELSE IF \/ Cardinality(ids) # Len(items)
                \/ ids \ DOMAIN Catalogs[c].sections # {} THEN 422
        ELSE IF \/ Cardinality(courses) # Cardinality(DOMAIN active)
                \/ Conflicts(active) # {} THEN 409
        ELSE 200
-----------------------------------------------------------------------------
(* Requests.  arg is the body, row what an earlier step of the request     *)
(* has read.  A client that is answered keeps the status it got.           *)

Arg(items, semester, version, name) ==
    [items |-> items, semester |-> semester, version |-> version, name |-> name,
     favorite |-> FALSE, expires |-> None]
NoArg == Arg(<< >>, None, None, None)
NoRow == [owner |-> None, name |-> 0, semester |-> None, version |-> None,
          items |-> << >>, favorite |-> FALSE]
NoReq == [op |-> "none", step |-> "idle", user |-> None, id |-> 0, arg |-> NoArg,
          row |-> NoRow, catalog |-> 1, status |-> 0]

Finish(p, status) ==
    req' = [req EXCEPT ![p] = [NoReq EXCEPT !.op = req[p].op, !.status = status]]

Continue(p, step, row) == req' = [req EXCEPT ![p] = [@ EXCEPT !.step = step, !.row = row]]

Semesters == {Catalogs[c].semester : c \in DOMAIN Catalogs}
Names == NameLengths \cup {None}

(* The bodies a client may send with each kind of request.  *)
Args(op) ==
    CASE op = "create" ->
            {Arg(b, s, v, n) : b \in Bodies, s \in Semesters, v \in Versions, n \in NameLengths}
      [] op = "sections" ->
            {Arg(b, None, v, None) : b \in Bodies, v \in Versions}
      [] op = "update" ->
            {Arg(<< >>, None, v, n) : v \in Versions, n \in Names}
      [] op \in {"copy", "shared_copy"} -> {Arg(<< >>, None, None, n) : n \in Names}
      [] op = "favorite" -> {[NoArg EXCEPT !.favorite = f] : f \in BOOLEAN}
      [] op = "share"    -> {[NoArg EXCEPT !.expires = e] : e \in {None} \cup 0..MaxTime}
      [] OTHER           -> {NoArg}

SharedOps == {"shared_get", "shared_copy"}

FirstStep(op) ==
    CASE op \in {"create", "update", "favorite", "list", "leave"} -> "write"
      [] op \in SharedOps -> "read_share"
      [] OTHER            -> "check"

Init ==
    /\ users = Users
    /\ timetables = [x \in {} |-> NoRow] /\ shares = [x \in {} |-> NoRow]
    /\ drawn = [timetables |-> 0, shares |-> 0]
    /\ deployed = 1 /\ now = 0
    /\ req = [p \in Requests |-> NoReq]

(* A request of a student who is logged in; a share code needs no login.   *)
(* The items of a new timetable are checked before anything is awaited.    *)
Begin(p, u, op, id, arg) ==
    /\ req[p].step = "idle" /\ op \in Offered
    /\ u \in users \/ (op = "shared_get" /\ u = None)
    /\ LET r == [NoReq EXCEPT !.op = op, !.user = u, !.id = id, !.arg = arg,
                              !.step = FirstStep(op), !.catalog = deployed]
           status == ValidateItems(arg.items, arg.semester, arg.version, deployed)
       IN  req' = [req EXCEPT ![p] = IF op = "create" /\ status # 200
                                     THEN [NoReq EXCEPT !.op = op, !.status = status]
                                     ELSE r]
    /\ UNCHANGED <<users, timetables, shares, drawn, deployed, now>>
-----------------------------------------------------------------------------
\* Mutant: whoever knows the id may go on.
FoundStatus(id, u) == IF id \notin DOMAIN timetables THEN 404 ELSE 200

OwnedStatus(id, u) ==
    IF id \notin DOMAIN timetables THEN 404
    ELSE IF timetables[id].owner # u THEN 403 ELSE 200

(* The first transaction of most requests, and what is checked after it.   *)
CheckOwned(p) ==
    LET r == req[p]
        status ==
            IF OwnedStatus(r.id, r.user) # 200 THEN OwnedStatus(r.id, r.user)
            ELSE IF r.op = "sections"
            THEN ValidateItems(r.arg.items, timetables[r.id].semester, r.arg.version, r.catalog)
            ELSE IF r.op = "share" /\ r.arg.expires # None /\ r.arg.expires <= now
            THEN 422 ELSE 200
    IN  /\ r.step = "check"
        /\ IF status = 200 /\ r.op # "get"
           THEN Continue(p, "write", timetables[r.id])
           ELSE Finish(p, status)
        /\ UNCHANGED <<users, timetables, shares, drawn, deployed, now>>

(* An INSERT draws an id.  It fails, and the request with it, when the     *)
(* owner is gone or the name does not fit its column.                      *)
Insert(p, row) ==
    IF row.owner \in users /\ row.name <= NameMax
    THEN /\ timetables' = Put(timetables, drawn.timetables + 1, row)
         /\ drawn' = [drawn EXCEPT !.timetables = @ + 1]
         /\ Finish(p, 201)
    ELSE UNCHANGED <<timetables, drawn>> /\ Finish(p, 500)

Create(p) ==
    LET r == req[p]
    IN  /\ r.step = "write" /\ r.op = "create" /\ drawn.timetables < MaxTimetables
        /\ Insert(p, [owner |-> r.user, name |-> r.arg.name, semester |-> r.arg.semester,
                      version |-> IF r.arg.version # None THEN r.arg.version
                                  ELSE Catalogs[r.catalog].version,
                      items |-> r.arg.items, favorite |-> FALSE])
        /\ UNCHANGED <<users, shares, deployed, now>>

List(p) ==
    /\ req[p].step = "write" /\ req[p].op = "list"
    /\ Finish(p, 200)
    /\ UNCHANGED <<users, timetables, shares, drawn, deployed, now>>

Updated(row, arg) == [row EXCEPT !.name = arg.name, !.version = arg.version]

UpdateStatus(p) ==
    LET status == OwnedStatus(req[p].id, req[p].user)
    IN  IF status = 200 /\ req[p].op = "update" /\ req[p].arg.name = None THEN 500 ELSE status

(* Read, checked and written in one transaction, the row locked.  The data *)
(* version is stored as it was sent.  A name that is null has no strip().  *)
Update(p) ==
    LET r == req[p]
        row == timetables[r.id]
    IN  /\ r.step = "write" /\ r.op \in {"update", "favorite"}
        /\ timetables' =
              IF UpdateStatus(p) # 200 THEN timetables
              ELSE [timetables EXCEPT ![r.id] =
                       IF r.op = "update" THEN Updated(row, r.arg)
                       ELSE [row EXCEPT !.favorite = r.arg.favorite]]
        /\ Finish(p, UpdateStatus(p))
        /\ UNCHANGED <<users, shares, drawn, deployed, now>>

\* Mutant: the row that _owned has read is written back.
RewrittenRow(stored, r) ==
    [r.row EXCEPT !.items = r.arg.items,
                  !.version = IF r.arg.version # None THEN r.arg.version ELSE @]

WithItems(stored, r) ==
    [stored EXCEPT !.items = r.arg.items,
                   !.version = IF r.arg.version # None THEN r.arg.version ELSE @]

(* The second transaction reads the row again; it asserts that it is there. *)
UpdateSections(p) ==
    LET r == req[p]
        found == r.id \in DOMAIN timetables
    IN  /\ r.step = "write" /\ r.op = "sections"
        /\ timetables' = IF found THEN [timetables EXCEPT ![r.id] = WithItems(@, r)]
                         ELSE timetables
        /\ Finish(p, IF found THEN 200 ELSE 500)
        /\ UNCHANGED <<users, shares, drawn, deployed, now>>

SharesOf(ids) == {s \in DOMAIN shares : shares[s].timetable \in ids}

Delete(p) ==
    LET r == req[p]
    IN  /\ r.step = "write" /\ r.op = "delete"
        /\ shares' = Without(shares, SharesOf({r.id}))
        /\ timetables' = Without(timetables, {r.id})
        /\ Finish(p, 200)
        /\ UNCHANGED <<users, drawn, deployed, now>>

CopyName(arg, source) == IF arg.name # None THEN arg.name ELSE source.name + CopySuffix

(* A copy is made of what the request has read, also of a source that was  *)
(* changed or deleted since.                                               *)
Copy(p) ==
    LET r == req[p]
    IN  /\ r.step = "write" /\ r.op \in {"copy", "shared_copy"}
        /\ drawn.timetables < MaxTimetables
        /\ Insert(p, [r.row EXCEPT !.owner = r.user, !.name = CopyName(r.arg, r.row),
                                   !.favorite = FALSE])
        /\ UNCHANGED <<users, shares, deployed, now>>

(* The foreign keys of a link: its timetable and its creator.  *)
LinkReferences(r) == r.user \in users /\ r.id \in DOMAIN timetables

CreateShare(p) ==
    LET r == req[p]
        stored == LinkReferences(r)
    IN  /\ r.step = "write" /\ r.op = "share" /\ drawn.shares < MaxShares
        /\ shares' = IF stored
                     THEN Put(shares, drawn.shares + 1,
                              [timetable |-> r.id, creator |-> r.user, expires |-> r.arg.expires])
                     ELSE shares
        /\ drawn' = IF stored THEN [drawn EXCEPT !.shares = @ + 1] ELSE drawn
        /\ Finish(p, IF stored THEN 201 ELSE 500)
        /\ UNCHANGED <<users, timetables, deployed, now>>

(* _shared: two reads, each of what is committed by then.  *)
ShareStatus(code) ==
    IF code \notin DOMAIN shares THEN 404
    ELSE IF shares[code].expires # None /\ shares[code].expires <= now THEN 410 ELSE 200

ReadShare(p) ==
    LET r == req[p]
    IN  /\ r.step = "read_share"
        /\ IF ShareStatus(r.id) = 200
           THEN req' = [req EXCEPT ![p] = [@ EXCEPT !.step = "read_timetable",
                                                   !.id = shares[r.id].timetable]]
           ELSE Finish(p, ShareStatus(r.id))
        /\ UNCHANGED <<users, timetables, shares, drawn, deployed, now>>

ReadShared(p) ==
    LET r == req[p]
        found == r.id \in DOMAIN timetables
    IN  /\ r.step = "read_timetable"
        /\ IF found /\ r.op = "shared_copy"
           THEN Continue(p, "write", timetables[r.id])
           ELSE Finish(p, IF found THEN 200 ELSE 404)
        /\ UNCHANGED <<users, timetables, shares, drawn, deployed, now>>

OwnedBy(u) == {t \in DOMAIN timetables : timetables[t].owner = u}

(* delete_me: links to and by the student, timetables and account at once. *)
Leave(p) ==
    LET u == req[p].user
    IN  /\ req[p].step = "write" /\ req[p].op = "leave"
        /\ shares' = Without(shares, SharesOf(OwnedBy(u))
                                        \cup {s \in DOMAIN shares : shares[s].creator = u})
        /\ timetables' = Without(timetables, OwnedBy(u))
        /\ users' = users \ {u}
        /\ Finish(p, 200)
        /\ UNCHANGED <<drawn, deployed, now>>

(* The API starts again with the next catalog.  *)
Deploy ==
    /\ deployed < Len(Catalogs)
    /\ deployed' = deployed + 1
    /\ UNCHANGED <<users, timetables, shares, drawn, now, req>>

Tick ==
    /\ now < MaxTime
    /\ now' = now + 1
    /\ UNCHANGED <<users, timetables, shares, drawn, deployed, req>>

Step(p) ==
    \/ CheckOwned(p) \/ Create(p) \/ List(p) \/ Update(p) \/ UpdateSections(p)
    \/ Delete(p) \/ Copy(p) \/ CreateShare(p) \/ ReadShare(p) \/ ReadShared(p) \/ Leave(p)

IdsFor(op) ==
    CASE op \in {"create", "list", "leave"} -> {0}
      [] op \in SharedOps                   -> 1..drawn.shares
      [] OTHER                              -> 1..drawn.timetables

BeginAny ==
    \E p \in Requests, op \in Offered, u \in Users \cup {None} :
        \E id \in IdsFor(op), arg \in Args(op) : Begin(p, u, op, id, arg)

Next == BeginAny \/ (\E p \in Requests : Step(p)) \/ Deploy \/ Tick

Spec == Init /\ [][Next]_vars
-----------------------------------------------------------------------------
Row == [owner : Users, name : 0..NameMax, semester : Semesters,
        version : Versions \cup {Catalogs[c].version : c \in DOMAIN Catalogs},
        items : Bodies, favorite : BOOLEAN]

(* Every table and every request has its type; in particular a stored name *)
(* fits its column.                                                        *)
TypeOK ==
    /\ users \subseteq Users
    /\ DOMAIN timetables \subseteq 1..drawn.timetables
    /\ \A t \in DOMAIN timetables : timetables[t] \in Row
    /\ DOMAIN shares \subseteq 1..drawn.shares
    /\ \A s \in DOMAIN shares :
          shares[s] \in [timetable : 1..drawn.timetables, creator : Users,
                         expires : {None} \cup 0..MaxTime]
    /\ drawn \in [timetables : 0..MaxTimetables, shares : 0..MaxShares]
    /\ deployed \in DOMAIN Catalogs /\ now \in 0..MaxTime
    /\ \A p \in Requests :
          /\ req[p].step \in {"idle", "check", "write", "read_share", "read_timetable"}
          /\ req[p].step # "idle" => req[p].op \in Ops
          /\ req[p].row \in Row \cup {NoRow} /\ req[p].catalog \in 1..deployed

(* A saved list of items never is one that no catalog allowed: there is a  *)
(* deployed catalog that knows all its sections, and in which its active   *)
(* ones are of different courses and never meet in the same minute.  This  *)
(* is stated by the minutes of a week, not by the comparison of the code,  *)
(* and must survive edits, copies of copies and deployments.               *)
MinutesOf(section) ==
    UNION {{<<m.day, t>> : t \in m.start..(m.end - 1)} : m \in section.meetings}

Attendable(items, sections) ==
    \A i, j \in DOMAIN items :
        /\ items[i].section \in DOMAIN sections
        /\ i # j => items[i].section # items[j].section
        /\ i # j /\ IsActive(items[i]) /\ IsActive(items[j]) =>
              LET a == sections[items[i].section]
                  b == sections[items[j].section]
              IN  a.course # b.course /\ MinutesOf(a) \cap MinutesOf(b) = {}

ItemsEverValid ==
    \A t \in DOMAIN timetables : \E c \in 1..deployed :
        /\ timetables[t].semester = Catalogs[c].semester
        /\ Attendable(timetables[t].items, Catalogs[c].sections)

(* No row refers to a row that is gone, and a link is made by the owner of *)
(* what it shows, however deletions of timetables and accounts fall        *)
(* between the transactions of a request.                                  *)
ReferencesHold ==
    /\ \A t \in DOMAIN timetables : timetables[t].owner \in users
    /\ \A s \in DOMAIN shares :
          /\ shares[s].timetable \in DOMAIN timetables
          /\ shares[s].creator = timetables[shares[s].timetable].owner

(* A row changes, appears or disappears only by a request of its owner.    *)
OnlyOwnerWrites ==
    [][\A t \in DOMAIN timetables \cup DOMAIN timetables' :
          LET owner == IF t \in DOMAIN timetables THEN timetables[t].owner
                       ELSE timetables'[t].owner
              same == t \in DOMAIN timetables /\ t \in DOMAIN timetables'
                      /\ timetables[t] = timetables'[t]
          IN  same \/ \E p \in Requests : req[p].step = "write" /\ req'[p].step = "idle"
                                         /\ req[p].user = owner]_vars

(* A step that replaces the items of a timetable changes nothing else but  *)
(* its version: the favorite mark, the name and the owner that other       *)
(* requests wrote since this request read the row are kept.                *)
NoLostUpdate ==
    [][\A t \in DOMAIN timetables \cap DOMAIN timetables' :
          timetables[t].items # timetables'[t].items =>
             timetables'[t] = [timetables[t] EXCEPT !.items = timetables'[t].items,
                                                    !.version = timetables'[t].version]]_vars
=============================================================================
