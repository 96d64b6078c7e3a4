-------------------------- MODULE CompletedCourses --------------------------
(***************************************************************************)
(* The courses a student has taken (api/routes/completed_courses.py and    *)
(* the import of api/routes/history.py) over the table completed_courses.  *)
(* A request reads all rows of the student in one transaction, decides     *)
(* what is new, and inserts in a later one; no constraint of the table     *)
(* backs the decision.                                                     *)
(***************************************************************************)
EXTENDS Integers, FiniteSets, Sequences

CONSTANTS
    Users, Requests,
    None,            \* no code, area or offering: NULL
    AreaOf,          \* the area that the name of a category carries, or None
    Bodies,          \* what students enter by hand
    Changes,         \* what students change: values by column
    Timetables,      \* saved timetables: owner and sections of the catalog
    Offerings,       \* the archive of former terms: table historical_course_offerings
    Lists,           \* the lists of offerings that are sent
    Offered,         \* bound: the requests that students make
    Serial,          \* whether a student waits for an answer before the next request
    MaxRows          \* bound: rows ever inserted

CourseAssumption ==
    /\ None \notin Users /\ Serial \in BOOLEAN /\ MaxRows \in Nat
    /\ \A b \in Bodies : b.category \in DOMAIN AreaOf
    /\ \A c \in Changes : DOMAIN c \subseteq {"code", "title", "category", "area", "status"}
    /\ \A l \in Lists : IsFiniteSet(DOMAIN l) /\ DOMAIN l \subseteq Nat
    /\ \A t \in DOMAIN Timetables :
          IsFiniteSet(DOMAIN Timetables[t].items) /\ DOMAIN Timetables[t].items \subseteq Nat

VARIABLES
    users,    \* the accounts that exist
    courses,  \* table completed_courses, by id
    drawn,    \* how many ids were drawn
    req       \* the requests in progress

vars == <<users, courses, drawn, req>>

(* "named" tells, as history, that the area was not taken from the category. *)
NoRow == [user |-> None, code |-> None, title |-> None, category |-> None, area |-> None,
          offering |-> None, status |-> None, named |-> FALSE]
NoReq == [op |-> "none", step |-> "idle", user |-> None, arg |-> None, new |-> << >>, status |-> 0]

Finish(p, status) == req' = [req EXCEPT ![p] = [NoReq EXCEPT !.status = status]]

Init ==
    /\ users = Users
    /\ courses = [x \in {} |-> NoRow] /\ drawn = 0
    /\ req = [p \in Requests |-> NoReq]

RowsOf(u) == {courses[i] : i \in {j \in DOMAIN courses : courses[j].user = u}}

CodesIn(rows) == {r.code : r \in rows} \ {None}

(* Two titles are equal when the normalised name and the semester are.  *)
IsDuplicate(rows, body) ==
    \E r \in rows : \/ body.code # None /\ r.code = body.code
                    \/ r.title = body.title

Manual(u, body) ==
    [NoRow EXCEPT !.user = u, !.code = body.code, !.title = body.title,
                  !.category = body.category, !.status = body.status,
                  !.area = IF body.area # None THEN body.area ELSE AreaOf[body.category],
                  !.named = body.area # None]

\* The first context that names an area, else the first one, else the archive's category.
Category(offering) ==
    LET contexts == offering.contexts
        withArea == {n \in DOMAIN contexts : contexts[n].area # None}
        chosen == IF withArea = {} THEN 1 ELSE CHOOSE n \in withArea : \A m \in withArea : n <= m
    IN  IF contexts = << >> THEN [name |-> offering.category, area |-> None] ELSE contexts[chosen]

FromArchive(u, id, status) ==
    LET o == Offerings[id]
    IN  [user |-> u, code |-> o.code, title |-> o.title, category |-> Category(o).name,
         area |-> Category(o).area, offering |-> id, status |-> status, named |-> TRUE]

FromSection(u, section, status) ==
    [NoRow EXCEPT !.user = u, !.code = section.code, !.title = section.title,
                  !.category = section.category, !.area = AreaOf[section.category],
                  !.status = status]

(* Of the wanted positions of a list those with a key that no wanted       *)
(* position before them has: the loops of both imports, which add each key *)
(* to what they skip.                                                      *)
FirstOfEach(wanted, key) == {n \in wanted : \A m \in wanted : m < n => key[m] # key[n]}

(* The positions in the order of the list.                                 *)
Rank(positions, n) == Cardinality({m \in positions : m <= n})

InOrder(positions) ==
    [k \in 1..Cardinality(positions) |-> CHOOSE n \in positions : Rank(positions, n) = k]

\* Mutant: the archive is compared by offering only.
FromListByOffering(u, list, status, rows) ==
    LET seen == {r.offering : r \in rows}
        wanted == {n \in DOMAIN list : list[n] \in DOMAIN Offerings /\ list[n] \notin seen}
        new == InOrder(FirstOfEach(wanted, list))
    IN  [k \in DOMAIN new |-> FromArchive(u, list[new[k]], status)]

FromList(u, list, status, rows) ==
    LET seen == {r.offering : r \in rows}
        wanted == {n \in DOMAIN list : /\ list[n] \in DOMAIN Offerings /\ list[n] \notin seen
                                       /\ Offerings[list[n]].code \notin CodesIn(rows)}
        code == [n \in wanted |-> Offerings[list[n]].code]
        new == InOrder(FirstOfEach(wanted, code))
    IN  [k \in DOMAIN new |-> FromArchive(u, list[new[k]], status)]

\* Active items whose section the catalog knows and whose code is new.
FromTimetable(u, items, status, rows) ==
    LET wanted == {n \in DOMAIN items : /\ items[n].active /\ items[n].known
                                        /\ items[n].code \notin CodesIn(rows)}
        code == [n \in wanted |-> items[n].code]
        new == InOrder(FirstOfEach(wanted, code))
    IN  [k \in DOMAIN new |-> FromSection(u, items[new[k]], status)]
-----------------------------------------------------------------------------
FirstStep(op) ==
    CASE op \in {"create", "import_timetable", "import_history", "list"} -> "read"
      [] op \in {"update", "delete"} -> "owner"
      [] OTHER -> "write"

Begin(p, u, op, arg) ==
    /\ req[p].step = "idle" /\ u \in users /\ op \in Offered
    /\ Serial => \A q \in Requests : req[q].user # u
    /\ req' = [req EXCEPT ![p] = [NoReq EXCEPT !.op = op, !.step = FirstStep(op),
                                               !.user = u, !.arg = arg]]
    /\ UNCHANGED <<users, courses, drawn>>

(* What the request will insert, decided from the rows it has read.  *)
New(r) ==
    CASE r.op = "create"           -> <<Manual(r.user, r.arg)>>
      [] r.op = "import_history"   -> FromList(r.user, r.arg.list, r.arg.status, RowsOf(r.user))
      [] r.op = "import_timetable" ->
            FromTimetable(r.user, Timetables[r.arg.timetable].items, r.arg.status, RowsOf(r.user))

ReadStatus(r) ==
    CASE r.op = "create" /\ IsDuplicate(RowsOf(r.user), r.arg)                    -> 409
      [] r.op = "import_timetable" /\ r.arg.timetable \notin DOMAIN Timetables     -> 404
      [] r.op = "import_timetable" /\ Timetables[r.arg.timetable].owner # r.user   -> 403
      [] OTHER                                                                   -> 200

Read(p) ==
    LET r == req[p]
    IN  /\ r.step = "read"
        /\ IF ReadStatus(r) # 200 \/ r.op = "list" THEN Finish(p, ReadStatus(r))
           ELSE req' = [req EXCEPT ![p].step = "insert", ![p].new = New(r)]
        /\ UNCHANGED <<users, courses, drawn>>

\* All rows or none: an author who left fails the transaction, unless it is empty.
Insert(p) ==
    LET new == req[p].new
        stored == req[p].user \in users \/ new = << >>
    IN  /\ req[p].step = "insert" /\ drawn + Len(new) <= MaxRows
        /\ courses' = IF stored
                      THEN [i \in DOMAIN courses \cup (drawn + 1)..(drawn + Len(new)) |->
                               IF i > drawn THEN new[i - drawn] ELSE courses[i]]
                      ELSE courses
        /\ drawn' = IF stored THEN drawn + Len(new) ELSE drawn
        /\ Finish(p, IF stored THEN 201 ELSE 500)
        /\ UNCHANGED users

OwnerStatus(id, u) ==
    IF id \notin DOMAIN courses THEN 404 ELSE IF courses[id].user # u THEN 403 ELSE 200

CheckOwner(p) ==
    LET status == OwnerStatus(req[p].arg.id, req[p].user)
    IN  /\ req[p].step = "owner"
        /\ IF status # 200 THEN Finish(p, status) ELSE req' = [req EXCEPT ![p].step = "write"]
        /\ UNCHANGED <<users, courses, drawn>>

\* Mutant: the area keeps following the old category.
ChangedKeepingArea(row, change) ==
    [c \in DOMAIN row |-> IF c = "named" THEN row.named \/ "area" \in DOMAIN change
                          ELSE IF c \in DOMAIN change THEN change[c] ELSE row[c]]

(* Columns that are sent are set; a category without an area gives its own. *)
Changed(row, change) ==
    LET recomputed == "category" \in DOMAIN change /\ "area" \notin DOMAIN change
    IN  [c \in DOMAIN row |->
            CASE c = "named"             -> (row.named \/ "area" \in DOMAIN change) /\ ~recomputed
              [] c = "area" /\ recomputed -> AreaOf[change.category]
              [] c \in DOMAIN change     -> change[c]
              [] OTHER                   -> row[c]]

Update(p) ==
    LET arg == req[p].arg
        found == arg.id \in DOMAIN courses
    IN  /\ req[p].step = "write" /\ req[p].op = "update"
        /\ courses' = IF found THEN [courses EXCEPT ![arg.id] = Changed(@, arg.change)] ELSE courses
        /\ Finish(p, IF found THEN 200 ELSE 500)
        /\ UNCHANGED <<users, drawn>>

Delete(p) ==
    /\ req[p].step = "write" /\ req[p].op = "delete"
    /\ courses' = [i \in DOMAIN courses \ {req[p].arg.id} |-> courses[i]]
    /\ Finish(p, 200)
    /\ UNCHANGED <<users, drawn>>

Leave(p) ==
    LET u == req[p].user
    IN  /\ req[p].step = "write" /\ req[p].op = "leave"
        /\ courses' = [i \in {j \in DOMAIN courses : courses[j].user # u} |-> courses[i]]
        /\ users' = users \ {u}
        /\ Finish(p, 200)
        /\ UNCHANGED drawn

Args(op) ==
    CASE op = "create"           -> Bodies
      [] op = "update"           -> [id : 1..drawn, change : Changes]
      [] op = "delete"           -> [id : 1..drawn]
      [] op = "import_history"   -> [list : Lists, status : {"COMPLETED"}]
      [] op = "import_timetable" -> [timetable : DOMAIN Timetables, status : {"IN_PROGRESS"}]
      [] OTHER                   -> {None}

BeginAny ==
    \E p \in Requests, u \in Users, op \in Offered : \E arg \in Args(op) : Begin(p, u, op, arg)

Step(p) == Read(p) \/ Insert(p) \/ CheckOwner(p) \/ Update(p) \/ Delete(p) \/ Leave(p)

Next == BeginAny \/ \E p \in Requests : Step(p)

Spec == Init /\ [][Next]_vars
-----------------------------------------------------------------------------
SetByHand == {c.code : c \in {d \in Changes : "code" \in DOMAIN d}}

(* However entries, imports from the timetable and from the archive follow *)
(* each other, a course is registered once for a student who sends one     *)
(* request at a time: no code appears twice, unless the student has set it *)
(* by a change, and no offering of the archive is imported twice, though   *)
(* the student changes the code of its row before importing again.         *)
RegisteredOnce ==
    \A i, j \in DOMAIN courses :
        i # j /\ courses[i].user = courses[j].user =>
            /\ courses[i].code \in {None} \cup SetByHand \/ courses[i].code # courses[j].code
            /\ courses[i].offering = None \/ courses[i].offering # courses[j].offering

(* Unless the student or the archive has named an area, the area of a row  *)
(* is that of its category, through every change of either: the summary    *)
(* counts its credits under the right area.                                *)
AreaFollowsCategory ==
    \A i \in DOMAIN courses : ~courses[i].named => courses[i].area = AreaOf[courses[i].category]
=============================================================================
