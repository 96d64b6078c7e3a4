--------------------------- MODULE MCStudentRecords ---------------------------
(***************************************************************************)
(* Model checking of StudentRecords.  The initial state picks the scenario *)
(* of a behaviour: one part of the records, with the requests that are     *)
(* made in it; the variables of the other parts stay as they are.          *)
(***************************************************************************)
EXTENDS StudentRecords, TLC

CONSTANTS u1, u2, p1, p2

VARIABLE scenario
-----------------------------------------------------------------------------
(* Saved timetables: two small catalogs with three sections, two of one    *)
(* course in the first, one moved onto another in the second; the third    *)
(* catalog is that of the next term.                                       *)

At(start, end) == {[day |-> "Mon", start |-> start, end |-> end]}
Section(course, meetings) == [course |-> course, meetings |-> meetings]
First == [semester |-> "s1", version |-> "v1", sections |->
    ("a" :> Section("A", At(1, 3))) @@ ("b" :> Section("B", At(3, 4)))
    @@ ("c" :> Section("A", At(4, 5)))]
Moved == [semester |-> "s1", version |-> "v2", sections |->
    ("a" :> Section("A", At(1, 3))) @@ ("b" :> Section("B", At(2, 3)))
    @@ ("c" :> Section("C", At(3, 4)))]
NextTerm == [First EXCEPT !.semester = "s2", !.version = "v3"]
MCCatalogs == <<First, Moved, NextTerm>>

ItemOf(section, role) == [section |-> section, role |-> role]
Want(section) == ItemOf(section, "want")

OneItem == <<Want("a")>>
\* Valid in the first catalog only, in both, in none: in the second one the
\* first and the last item of the third list meet.
MixedBodies == {<<Want("a"), ItemOf("c", "backup"), Want("b")>>, <<Want("b"), Want("c")>>,
                <<ItemOf("a", "must"), Want("c"), Want("b")>>, <<Want("a"), Want("a")>>, <<Want("x")>>}
MCBodies == MixedBodies \cup {OneItem, <<Want("a"), Want("b")>>}

Scenarios ==
    [items |-> [ops |-> {"create", "sections", "copy"}, users |-> {u1},
                bodies |-> MixedBodies, rows |-> 2, deploys |-> TRUE, clock |-> 0],
     links |-> [ops |-> {"create", "delete", "share", "shared_copy", "leave"}, users |-> {u1, u2},
                bodies |-> {OneItem}, rows |-> 2, deploys |-> FALSE, clock |-> 1],
     edits |-> [ops |-> {"create", "get", "update", "sections", "favorite", "list", "share",
                         "shared_get"}, users |-> {u1, None},
                bodies |-> {OneItem, <<Want("a"), Want("b")>>}, rows |-> 1, deploys |-> FALSE, clock |-> 0]]

Limits == Scenarios[scenario]
InTimetables == scenario \in DOMAIN Scenarios /\ UNCHANGED <<scenario, profile, reviewing, taken>>

(* The bodies of the requests of each scenario, a constant.  *)
ArgsIn == [s \in DOMAIN Scenarios |-> [op \in Scenarios[s].ops |->
    {arg \in Args(op) :
        /\ arg.items \in Scenarios[s].bodies \cup {<< >>}
        /\ arg.expires \in {None, Scenarios[s].clock}
        /\ op = "copy" \/ op = "shared_copy" => arg.name = None
        /\ s = "links" => arg.version = None}]]
-----------------------------------------------------------------------------
(* The profile of one account, with two columns that must be filled.  *)
InProfile == scenario = "profile" /\ UNCHANGED <<scenario, vars, reviewing, taken>>

(* Reviews of one course, with and without a professor.  *)
InReviews == scenario = "reviews" /\ UNCHANGED <<scenario, vars, profile, taken>>

(* Courses taken: entries by hand, a timetable with a section the catalog  *)
(* does not know and an archive with two offerings of one course.  Another *)
(* student knows the ids of the rows.                                      *)
MCAreaOf == ("major" :> None) @@ ("liberal(x)" :> "x") @@ ("liberal(y)" :> "y")
Entry(code, title, category, area) ==
    [code |-> code, title |-> title, category |-> category, area |-> area, status |-> "COMPLETED"]
Item(code, active, known) ==
    [code |-> code, title |-> "t", category |-> "liberal(x)", active |-> active, known |-> known]
Context(name, area) == [name |-> name, area |-> area]

MCEntries == {Entry(None, "tb", "liberal(x)", None), Entry("B", "tb", "liberal(x)", "y")}
MCChanges == {"category" :> "liberal(y)", "area" :> "y", "code" :> "Z"}
MCPlans == 1 :> [owner |-> u1, items |-> <<Item("A", TRUE, TRUE), Item("C", FALSE, TRUE),
                                           Item("D", TRUE, FALSE), Item("B", TRUE, TRUE)>>]
MCArchive ==
    (1 :> [code |-> "A", title |-> "ta", category |-> "major", contexts |-> << >>])
    @@ (2 :> [code |-> "B", title |-> "tb", category |-> "major",
              contexts |-> <<Context("liberal(y)", None), Context("liberal(x)", "x")>>])
    @@ (3 :> [code |-> "B", title |-> "tc", category |-> "major",
              contexts |-> <<Context("liberal(y)", None)>>])
MCLists == {<<1, 3, 2, 9>>}

InCourses == scenario = "courses" /\ UNCHANGED <<scenario, vars, profile, reviewing>>
-----------------------------------------------------------------------------
MCInit ==
    /\ scenario \in DOMAIN Scenarios \cup {"profile", "reviews", "courses"}
    /\ Init /\ Account!Init /\ Reviews!Init /\ Courses!Init

MCNext ==
    \/ \E s \in DOMAIN Scenarios : scenario = s /\
          \E p \in Requests, op \in Limits.ops, u \in Limits.users :
             \E id \in IdsFor(op), arg \in ArgsIn[s][op] : InTimetables /\ Begin(p, u, op, id, arg)
    \/ \E p \in Requests : InTimetables /\ CheckOwned(p)
    \/ \E p \in Requests : InTimetables /\ drawn.timetables < Limits.rows /\ Create(p)
    \/ \E p \in Requests : InTimetables /\ List(p)
    \/ \E p \in Requests : InTimetables /\ Update(p)
    \/ \E p \in Requests : InTimetables /\ UpdateSections(p)
    \/ \E p \in Requests : InTimetables /\ Delete(p)
    \/ \E p \in Requests : InTimetables /\ Copy(p)
    \/ \E p \in Requests : InTimetables /\ CreateShare(p)
    \/ \E p \in Requests : InTimetables /\ ReadShare(p)
    \/ \E p \in Requests : InTimetables /\ ReadShared(p)
    \/ \E p \in Requests : InTimetables /\ Leave(p)
    \/ InTimetables /\ Limits.deploys /\ Deploy
    \/ InTimetables /\ now < Limits.clock /\ Tick
    \/ \E p \in Requests, set, unset \in SUBSET {"name", "grade"} :
          InProfile /\ Account!BeginUpdate(p, set, unset)
    \/ \E p \in Requests : InProfile /\ Account!LockUpdate(p)
    \/ \E p \in Requests : InProfile /\ Account!ReadConsents(p)
    \/ \E p \in Requests : InProfile /\ Account!CommitUpdate(p)
    \/ \E p \in Requests, agreed \in BOOLEAN : InProfile /\ Account!BeginConsent(p, agreed)
    \/ \E p \in Requests : InProfile /\ Account!InsertConsent(p)
    \/ \E p \in Requests : InProfile /\ Account!LockConsent(p)
    \/ \E p \in Requests : InProfile /\ Account!CommitConsent(p)
    \/ \E p \in Requests : InProfile /\ Account!AbortDeadlocked(p)
    \/ \E p \in Requests : InProfile /\ Account!Leave(p)
    \/ InReviews /\ Reviews!BeginAny
    \/ \E p \in Requests : InReviews /\ Reviews!CheckDuplicate(p)
    \/ \E p \in Requests : InReviews /\ Reviews!Insert(p)
    \/ \E p \in Requests : InReviews /\ Reviews!CheckOwner(p)
    \/ \E p \in Requests : InReviews /\ Reviews!Update(p)
    \/ \E p \in Requests : InReviews /\ Reviews!Delete(p)
    \/ \E p \in Requests : InReviews /\ Reviews!Summarise(p)
    \/ \E p \in Requests : InReviews /\ Reviews!Leave(p)
    \/ \E u \in {u1, u2} :
          \E op \in IF u = u1 THEN CourseOps ELSE {"delete"} : \E arg \in Courses!Args(op) :
             InCourses /\ Courses!Begin("r", u, op, arg)
    \/ \E p \in {"r"} : InCourses /\ Courses!Read(p)
    \/ \E p \in {"r"} : InCourses /\ Courses!Insert(p)
    \/ \E p \in {"r"} : InCourses /\ Courses!CheckOwner(p)
    \/ \E p \in {"r"} : InCourses /\ Courses!Update(p)
    \/ \E p \in {"r"} : InCourses /\ Courses!Delete(p)
    \/ \E p \in {"r"} : InCourses /\ Courses!Leave(p)

MCSpec == MCInit /\ [][MCNext]_<<scenario, vars, profile, reviewing, taken>>

Symmetry == Permutations(Requests)
=============================================================================
