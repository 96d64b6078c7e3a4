-------------------------- MODULE MCGraduationRules --------------------------
(***************************************************************************)
(* Model checking of GraduationRules.  The initial state picks the ingest  *)
(* or the check, and within the ingest what the files do that change:      *)
(* those of the history while two ingests load it, those of the            *)
(* requirements with one ingest at a time, or those while two ingests load *)
(* them, which have loaded the history one after the other.                *)
(***************************************************************************)
EXTENDS GraduationRules, TLC

CONSTANTS a, b, t1, t2, curriculum, regulation, bylaw

VARIABLE part
-----------------------------------------------------------------------------
(* Two releases of a history of two terms, in which one offering is kept,  *)
(* one changed, one dropped and one added, and three of a curriculum, two  *)
(* rule sources, which the first does not have, and the graduation         *)
(* requirements.  The manifests list the terms in opposite orders, the     *)
(* later bundles the rule sources.                                         *)
Row(id, value) == [id |-> id, value |-> value]
MCHistoryOrder == [r \in Releases |-> IF r = 1 THEN <<Manifest, t1, t2>> ELSE <<Manifest, t2, t1>>]
MCRulesOrder ==
    [r \in Releases |-> CASE r = 1 -> <<curriculum, Graduation>>
                         [] r = 2 -> <<curriculum, bylaw, regulation, Graduation>>
                         [] r = 3 -> <<curriculum, regulation, bylaw, Graduation>>]
MCRows(r) ==
    (Manifest :> {Row(Manifest, r)})
    @@ (t1 :> {Row(1, 1)} \cup IF r = 1 THEN {Row(2, 1)} ELSE {Row(3, 1)})
    @@ (t2 :> {Row(4, r)})
    @@ (curriculum :> {Row(5, IF r = 3 THEN 3 ELSE 1)}) @@ (regulation :> {Row(6, 1)}) @@ (bylaw :> {Row(7, r)})
    @@ (Graduation :> {Row(8, 1)})
MCData ==
    [r \in Releases |->
        [d \in Range(MCHistoryOrder[r]) \cup Range(MCRulesOrder[r]) |-> MCRows(r)[d]]]
-----------------------------------------------------------------------------
(* Students of 2020 and 2026, with and without a degree profile, with two  *)
(* paths and the unit that the general rules leave out.  Minima are scaled *)
(* down to the handful of courses of the instance.                         *)

Everyone == [from |-> 0, to |-> 9999, students |-> "ANY", path |-> "ANY", unit |-> "ANY"]
General == [Everyone EXCEPT !.unit = "GENERAL"]

Rule(kind, scope) ==
    [kind |-> kind, minima |-> <<>>, group |-> "NONE", courses |-> {}, areas |-> {},
     byArea |-> FALSE, second |-> FALSE, warned |-> FALSE, review |-> FALSE,
     scope |-> scope]

Course(code, names) == [code |-> code, name |-> names[1],
                        names |-> {names[i] : i \in DOMAIN names}]

MCCommon ==
    {[Rule("TOTAL_CREDITS", [Everyone EXCEPT !.to = 2020])
         EXCEPT !.minima = "TOTAL_CREDITS" :> 8],
     [Rule("TOTAL_CREDITS", [Everyone EXCEPT !.from = 2021])
         EXCEPT !.minima = "TOTAL_CREDITS" :> 7],
     [Rule("ADVISOR_COUNSELING", Everyone) EXCEPT !.review = TRUE],
     [Rule("LIBERAL_TOTAL", [General EXCEPT !.from = 2025, !.students = "DOMESTIC"])
         EXCEPT !.minima = "LIBERAL_TOTAL" :> 3, !.byArea = TRUE],
     [Rule("REQUIRED_COURSE_GROUP", [General EXCEPT !.from = 2025, !.students = "DOMESTIC"])
         EXCEPT !.group = "REQUIRED_COURSE_GROUP",
                !.courses = {Course("NONE", <<"career">>)}],
     Rule("MAJOR_CREDIT_PAIR", [General EXCEPT !.path = "DOUBLE_MAJOR"]),
     Rule("ACADEMIC_UNIT_OVERRIDE", [Everyone EXCEPT !.from = 2025, !.unit = "nursing"])}

Student(year, path, unit) ==
    [year |-> year, students |-> "DOMESTIC", path |-> path, unit |-> unit]

Urban20 == Student(2020, "ADVANCED_MAJOR", "urban")
UrbanDouble == Student(2026, "DOUBLE_MAJOR", "city")
Unknown26 == Student(2026, "DOUBLE_MAJOR", "unknown")
Nursing26 == Student(2026, "ADVANCED_MAJOR", "nursing")
Foreign26 == [Student(2026, "ADVANCED_MAJOR", "art") EXCEPT !.students = "FOREIGN"]
Korean26 == Student(2026, "DOUBLE_MAJOR", "korean")

MCProfiles == {Urban20, UrbanDouble, Unknown26, Nursing26, Foreign26, Korean26}

Degree(p, unit, total) ==
    [Rule("DEGREE_CREDIT_PROFILE",
          [from |-> p.year, to |-> p.year, students |-> p.students,
           path |-> p.path, unit |-> unit])
        EXCEPT !.minima = ("TOTAL_CREDITS" :> total) @@ ("LIBERAL_TOTAL" :> 3)
                       @@ ("LIBERAL_REQUIRED_CREDITS" :> 0) @@ ("LIBERAL_ELECTIVE_CREDITS" :> 2)
                       @@ ("MAJOR_REQUIRED_CREDITS" :> 2)
                       @@ ("PRIMARY_MAJOR_CREDITS" :> 4),
               !.group = "LIBERAL_REQUIRED_COURSES",
               !.courses = {Course("L1", <<"careers", "career">>)},
               !.areas = {[area |-> "A1", minCredits |-> 2, minCourses |-> 1]},
               !.second = p.path = "DOUBLE_MAJOR",
               !.warned = p.path = "DOUBLE_MAJOR"]

MCStored ==
    {Degree(Urban20, "urban", 6), Degree(UrbanDouble, "urban", 6),
     Degree(Nursing26, "nursing", 8),
     \* required courses of its own and no second program
     [Degree(Korean26, "korean", 6)
         EXCEPT !.courses = {}, !.second = FALSE, !.minima["LIBERAL_REQUIRED_CREDITS"] = 1],
     [Rule("DEPARTMENT_ASSESSMENT_PROFILE", [Everyone EXCEPT !.unit = "nursing"])
         EXCEPT !.review = TRUE]}

Urban == [unit |-> "urban", required |-> {"planning"}]
Art == [unit |-> "art", required |-> {"studio"}]
Crafts == [unit |-> "crafts", required |-> {"studio", "planning"}]
MCPrograms == {Urban, Art, Crafts}
Alias(year, unit, program) == [year |-> year, unit |-> unit, program |-> program]
MCAliases == {Alias(2020, "urban", Urban), Alias(2026, "city", Urban),
              Alias(2026, "art", Art), Alias(2026, "art", Crafts)}
MCStaticMajors == [u \in {"nursing"} |-> {"studio"}]

\* A history import names the category of a major course "major" and nothing
\* else, one by hand may name it "major required".
Entry(code, name, family, metric, area, credits) ==
    [code |-> code, name |-> name, area |-> area, credits |-> credits,
     category |-> [family |-> family, metric |-> metric]]

MCEntries ==
    {Entry("L1", "career", "liberal", "NONE", "NONE", 1),
     Entry("L2", "ethics", "liberal", "LIBERAL_ELECTIVE_CREDITS", "A1", 2),
     Entry("L3", "reading", "liberal", "LIBERAL_ELECTIVE_CREDITS", "A1", 2),
     Entry("M1", "planning", "major", "NONE", "NONE", 3),
     Entry("M2", "studio", "major", "MAJOR_REQUIRED_CREDITS", "NONE", 2)}

-----------------------------------------------------------------------------
InHistory == part = "history" /\ UNCHANGED <<part, check>>
InRules == part = "rules" /\ UNCHANGED <<part, check>>
InOverlap == part = "overlap" /\ UNCHANGED <<part, check>>
InCheck == part = "check" /\ UNCHANGED <<part, vars>>

MCInit == part \in {"history", "rules", "overlap", "check"} /\ Init /\ Check!Init

\* Ingests of the requirements load the history one after the other.
HistoryAlone(i) ==
    run[i].part = "history" => \A j \in {a, b} \ {i} : run[j].state \notin {"reading", "writing"}

MCNext ==
    \/ \E f \in HistoryData : InHistory /\ Deploy(f, 2)
    \/ \E f \in HistoryData : InHistory /\ Damage(f)
    \/ \E i \in {a, b} : InHistory /\ Begin(i)
    \/ \E i \in {a, b} : InHistory /\ ReadEntry(i)
    \/ \E i \in {a, b} : InHistory /\ WriteEntry(i)
    \/ \E i \in {a, b} : InHistory /\ Commit(i)
    \/ \E i \in {a, b} : InHistory /\ Crash(i)
    \/ \E o \in 1..4 : InHistory /\ Refer(o)
    \/ \E f \in {Bundle, regulation, bylaw} : InRules /\ Deploy(f, 2)
    \/ \E f \in {curriculum, bylaw, Graduation} : InRules /\ Damage(f)
    \/ InRules /\ Begin(a)
    \/ InRules /\ BeginRules(a)
    \/ InRules /\ ReadEntry(a)
    \/ InRules /\ WriteEntry(a)
    \/ InRules /\ Commit(a)
    \/ InRules /\ Crash(a)
    \/ \E f \in {Bundle, bylaw}, r \in {2, 3} : InOverlap /\ Deploy(f, r)
    \/ InOverlap /\ Deploy(regulation, 2)
    \/ InOverlap /\ Deploy(curriculum, 3)
    \/ \E i \in {a, b} : InOverlap /\ Begin(i)
    \/ \E i \in {a, b} : InOverlap /\ BeginRules(i)
    \/ \E i \in {a, b} : InOverlap /\ HistoryAlone(i) /\ ReadEntry(i)
    \/ \E i \in {a, b} : InOverlap /\ HistoryAlone(i) /\ WriteEntry(i)
    \/ \E i \in {a, b} : InOverlap /\ HistoryAlone(i) /\ Commit(i)
    \/ \E i \in {a, b} : InOverlap /\ Crash(i)
    \/ \E i \in {a, b} : InOverlap /\ AbortDeadlocked(i)
    \/ \E e \in Entries, done \in BOOLEAN : InCheck /\ Check!Record(e, done)
    \/ \E e \in Entries : InCheck /\ Check!Finish(e)
    \/ \E e \in Entries : InCheck /\ Check!Forget(e)
    \/ \E p \in Profiles : InCheck /\ Check!Evaluate(p)

MCSpec == MCInit /\ [][MCNext]_<<part, vars, check>>
=============================================================================
