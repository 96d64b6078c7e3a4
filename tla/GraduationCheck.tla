---------------------------- MODULE GraduationCheck ----------------------------
(***************************************************************************)
(* The automatic graduation check (api/routes/requirements.py): a student  *)
(* keeps a list of completed courses, asks for an evaluation of it against *)
(* the rules of a profile.                                                 *)
(*                                                                         *)
(* Common rules come from a file and are filtered by the profile; the      *)
(* degree profile and the assessments of a department come from the        *)
(* database, as do the names of the required courses of the major.  A rule *)
(* is a record whatever its source:                                        *)
(*    kind    one of the kinds of the rule files,                          *)
(*    minima  the credit minimum of each metric it judges,                 *)
(*    group   the metric of its required courses, and courses, that set,   *)
(*    areas   what it asks of the areas of liberal arts, byArea for the    *)
(*            six areas of the common rule,                                *)
(*    second, warned, review  why a human has to look at it,               *)
(*    scope   from and to (years of admission), students, path and unit.   *)
(* Names stand for their normalised text.  A metric without a minimum      *)
(* judges nothing and is left out.                                         *)
(***************************************************************************)
EXTENDS Integers, FiniteSets, Functions

CONSTANTS Entries,         \* completed courses a student may hold
          Profiles,        \* year, students, path and unit of a request
          Common,          \* rules of the common file
          Stored,          \* rules of the database, for one unit each
          Programs,        \* curricula: unit and the names of required courses
          Aliases,         \* names of a curriculum: year, unit named and program
          StaticMajors,    \* the file for 2026: names of required courses by unit
          ExceptionUnits,  \* units the general rules leave out
          AreaNames        \* the areas of the common liberal rule

VARIABLES completed,   \* entries with status COMPLETED
          taking,      \* entries with status IN_PROGRESS or another one
          answer       \* the last answer, with what it was given
vars == <<completed, taking, answer>>
-----------------------------------------------------------------------------
(* Which rules apply.                                                       *)

ExemptUnit(unit, p) ==
    IF unit = "GENERAL" THEN p.unit \in ExceptionUnits ELSE unit \notin {"ANY", p.unit}

Applies(r, p) ==
    /\ p.year \in r.scope.from .. r.scope.to
    /\ r.scope.students = "DOMESTIC" => p.students = "DOMESTIC"
    /\ r.scope.path \in {"ANY", p.path}
    /\ ~ExemptUnit(r.scope.unit, p)

Replaced == {"TOTAL_CREDITS", "LIBERAL_TOTAL", "REQUIRED_COURSE_GROUP",
             "PRIMARY_MAJOR_CREDITS", "MAJOR_CREDIT_PAIR", "ACADEMIC_UNIT_OVERRIDE"}

(* Curricula that carry the name of the unit in the year of admission.     *)
ProgramsOf(p) ==
    {a.program : a \in {b \in Aliases : b.year = p.year /\ b.unit = p.unit}}

CanonicalUnits(p) == {p.unit} \cup {g.unit : g \in ProgramsOf(p)}

DegreeRules(p) ==
    {r \in Stored :
        /\ r.kind = "DEGREE_CREDIT_PROFILE"
        /\ r.scope.unit \in CanonicalUnits(p)
        /\ r.scope.from = p.year
        /\ r.scope.students = p.students /\ r.scope.path = p.path}

\* The assessments of a department are given whatever the year of admission.
AssessmentRules(p) ==
    {r \in Stored : /\ r.kind \in {"DEPARTMENT_ASSESSMENT_PROFILE",
                                    "LEGACY_DEPARTMENT_ASSESSMENT"}
                    /\ r.scope.unit \in CanonicalUnits(p)}

DatabaseRules(p) == DegreeRules(p) \cup AssessmentRules(p)

CreditKinds == {"TOTAL_CREDITS", "LIBERAL_TOTAL", "PRIMARY_MAJOR_CREDITS"}
ProfileMetrics == CreditKinds \cup {"LIBERAL_REQUIRED_CREDITS", "MAJOR_REQUIRED_CREDITS"}

Amounts(r) ==
    /\ \A m \in DOMAIN r.minima : r.minima[m] \in Nat
    /\ \A a \in r.areas : a.minCredits \in Nat /\ a.minCourses \in Nat

(* The data: credits are counted in the smallest unit (the tables' CHECKs   *)
(* rule out negative ones).  A common rule of a kind that is judged by      *)
(* credits has a minimum, and those of one kind are for different students. *)
(* A degree profile has the minima whose columns are NOT NULL; there are    *)
(* never two of them for one request, so the areas of liberal arts are      *)
(* those of one.                                                            *)
RulesAssumption ==
    /\ IsFiniteSet(Entries) /\ \A e \in Entries : e.credits \in Nat
    /\ \A r \in Common \cup Stored : Amounts(r)
    /\ \A r \in Common :
          r.kind # "DEGREE_CREDIT_PROFILE" /\ DOMAIN r.minima = {r.kind} \cap CreditKinds
    /\ \A p \in Profiles : \A r, s \in {q \in Common : Applies(q, p) /\ q.kind \in CreditKinds} :
          r.kind = s.kind => r = s
    /\ \A r \in Stored :
          IF r.kind = "DEGREE_CREDIT_PROFILE" THEN ProfileMetrics \subseteq DOMAIN r.minima
          ELSE DOMAIN r.minima = {}
    /\ \A p \in Profiles : \A r, s \in DegreeRules(p) : r = s
    /\ \A a \in Aliases : a.program \in Programs

(* The required courses of the major, and whether a human has to find them.*)
MajorRequirements(p) ==
    LET programs == ProgramsOf(p)
        known == p.year = 2026 /\ p.unit \in DOMAIN StaticMajors
        names == IF programs # {} THEN UNION {g.required : g \in programs}
                 ELSE IF known THEN StaticMajors[p.unit] ELSE {}
        unsure == Cardinality(programs) > 1 \/ (programs = {} /\ ~known)
    IN  [names |-> IF unsure THEN {} ELSE names, review |-> unsure]

CombinedRules(p) ==
    {r \in Common : Applies(r, p) /\ (DegreeRules(p) # {} => r.kind \notin Replaced)}
        \cup DatabaseRules(p)
-----------------------------------------------------------------------------
(* What the completed courses amount to.                                    *)

Credits(courses) == SumFunction([c \in courses |-> c.credits])

Counted(metric, courses) ==
    Credits({c \in courses :
        CASE metric = "TOTAL_CREDITS" -> TRUE
          [] metric = "PRIMARY_MAJOR_CREDITS" -> c.category.family = "major"
          [] metric = "LIBERAL_TOTAL" -> c.category.family = "liberal"
          [] OTHER -> c.category.metric = metric})

\* A course without a code is recognised by its name only.
Fulfils(required, c) ==
    (c.code = required.code /\ c.code # "NONE") \/ c.name \in required.names

Open(required, courses) ==
    {r \in required : \A c \in courses : ~Fulfils(r, c)}

\* Mutant: an area wants exactly its number of courses.
AreaMetExactly(a, courses) ==
    LET inArea == {c \in courses : c.area = a.area}
    IN  Credits(inArea) >= a.minCredits /\ Cardinality(inArea) = a.minCourses
AreaMet(a, courses) ==
    LET inArea == {c \in courses : c.area = a.area}
    IN  Credits(inArea) >= a.minCredits /\ Cardinality(inArea) >= a.minCourses

AreaRequirements(rules) ==
    LET own == UNION {r.areas : r \in rules}
    IN  IF own # {} \/ \A r \in rules : ~r.byArea
        THEN own
        ELSE {[area |-> a, minCredits |-> 2, minCourses |-> 1] : a \in AreaNames}

JudgedKinds == {"TOTAL_CREDITS", "LIBERAL_TOTAL", "PRIMARY_MAJOR_CREDITS",
                "REQUIRED_COURSE_GROUP", "DEGREE_CREDIT_PROFILE"}

\* Mutant: the credits of a second program are silently left to nobody.
ManualItemsSingle(rules) ==
    {r.kind : r \in {q \in rules : q.kind \notin JudgedKinds \/ q.review}}
        \cup {"SOURCE_CREDIT_TABLE_CONSISTENCY" : r \in {q \in rules : q.warned}}
ManualItems(rules) ==
    {r.kind : r \in {q \in rules : q.kind \notin JudgedKinds \/ q.review}}
        \cup {"SECONDARY_PROGRAM_CREDITS" : r \in {q \in rules : q.second}}
        \cup {"SOURCE_CREDIT_TABLE_CONSISTENCY" : r \in {q \in rules : q.warned}}

CreditStatus(rules, courses) ==
    UNION {{[kind |-> m, required |-> r.minima[m], current |-> Counted(m, courses)] :
                m \in DOMAIN r.minima} : r \in rules}

Missing(p, courses) ==
    LET rules == CombinedRules(p)
        names == {c.name : c \in courses}
    IN  {<<"credits", s.kind>> : s \in {t \in CreditStatus(rules, courses) :
                                           t.current < t.required}}
          \cup {<<"course", r.name>> : r \in UNION {Open(q.courses, courses) : q \in rules}}
          \cup {<<"major", n>> : n \in MajorRequirements(p).names \ names}
          \cup {<<"area", a.area>> : a \in {b \in AreaRequirements(rules) :
                                               ~AreaMet(b, courses)}}

Evaluation(p, courses) ==
    LET rules == CombinedRules(p) IN
    [profile |-> p, courses |-> courses,
     credits |-> CreditStatus(rules, courses),
     groups |-> {r.group : r \in {q \in rules : q.kind = "REQUIRED_COURSE_GROUP" \/ q.courses # {}}},
     missing |-> Missing(p, courses),
     manual |-> ManualItems(rules) \cup
                IF MajorRequirements(p).review THEN {"MAJOR_REQUIRED_COURSES"} ELSE {}]
-----------------------------------------------------------------------------
Init == completed = {} /\ taking = {} /\ answer = {}

\* A course is entered by hand or imported, as completed or still being taken.
Record(e, done) ==
    /\ e \notin completed \cup taking
    /\ completed' = IF done THEN completed \cup {e} ELSE completed
    /\ taking' = IF done THEN taking ELSE taking \cup {e}
    /\ UNCHANGED answer

Finish(e) ==
    /\ e \in taking
    /\ taking' = taking \ {e} /\ completed' = completed \cup {e}
    /\ UNCHANGED answer

Forget(e) ==
    /\ e \in completed \cup taking
    /\ completed' = completed \ {e} /\ taking' = taking \ {e}
    /\ UNCHANGED answer

Evaluate(p) ==
    /\ answer' = {Evaluation(p, completed)}
    /\ UNCHANGED <<completed, taking>>

Next ==
    \/ \E e \in Entries : \E done \in BOOLEAN : Record(e, done)
    \/ \E e \in Entries : Finish(e) \/ Forget(e)
    \/ \E p \in Profiles : Evaluate(p)

Spec == Init /\ [][Next]_vars
-----------------------------------------------------------------------------
(* The list holds an entry once, under one status, and the answer is of a   *)
(* set of courses the student can have had.                                 *)
TypeOK ==
    /\ completed \subseteq Entries /\ taking \subseteq Entries
    /\ completed \cap taking = {}
    /\ Cardinality(answer) <= 1
    /\ \A a \in answer : a.profile \in Profiles /\ a.courses \subseteq Entries

(* Whatever was judged or closed stays so when only courses were added      *)
(* since the last evaluation of the same profile: no course a student       *)
(* completes makes a requirement missing.  (_evaluate_rules counts credits, *)
(* course names and areas in separate passes.)                              *)
ProgressKept ==
    [][\A old \in answer, new \in answer' :
          (old.profile = new.profile /\ old.courses \subseteq new.courses)
              => new.missing \subseteq old.missing]_vars

(* No evaluation judges one metric by two minima: where a degree profile    *)
(* exists, the common minimum of the same metric gives way (_combined_rules)*)
OneMinimumPerKind ==
    \A a \in answer : \A s, t \in a.credits : s.kind = t.kind => s = t

Judged(a) == {s.kind : s \in a.credits}

(* What an evaluation judges in place of a common rule, or leaves to a      *)
(* human.  A department with required courses of its own has a minimum of   *)
(* credits for them; a second program is left to a human where the degree   *)
(* profile asks for one.                                                    *)
JudgedInstead(a, r) ==
    \/ r.kind \in Judged(a)
    \/ r.kind \in a.manual
    \/ /\ r.kind = "REQUIRED_COURSE_GROUP"
       /\ r.group \in a.groups \/ "LIBERAL_REQUIRED_CREDITS" \in Judged(a)
    \/ /\ r.kind = "MAJOR_CREDIT_PAIR" /\ "PRIMARY_MAJOR_CREDITS" \in Judged(a)
       /\ \A d \in DegreeRules(a.profile) : d.second => "SECONDARY_PROGRAM_CREDITS" \in a.manual
    \/ r.kind = "ACADEMIC_UNIT_OVERRIDE" /\ "MAJOR_REQUIRED_CREDITS" \in Judged(a)

(* A common rule that applies to a student is never lost: it is judged, it  *)
(* is left to a human, or the degree profile that replaces it judges or     *)
(* flags the same thing.                                                    *)
NoRuleLost ==
    \A a \in answer : \A r \in Common : Applies(r, a.profile) => JudgedInstead(a, r)
=============================================================================
