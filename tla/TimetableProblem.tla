-------------------------- MODULE TimetableProblem --------------------------
(***************************************************************************)
(* An optimization problem and its hard constraints                        *)
(* (optimizer/models.py, optimizer/constraints.py).  A section is a record *)
(* of its id, course, credits, sessions and whether the student is known   *)
(* to be ineligible; a session is a half-open interval of a day.           *)
(***************************************************************************)
EXTENDS Integers, FiniteSets, Functions, FiniteSetsExt

CONSTANTS
    None,   \* a bound or a place that is not given
    Days,   \* days of the week with classes
    DayEnd  \* minutes in a day

\* What the dataclasses accept: a session takes time, and within one day.
Session ==
    {m \in [day : Days, start : Nat, end : 1..DayEnd, loc : {None} \cup (Nat \ {0})] : m.start < m.end}

WellFormedSection(s) ==
    /\ s.id \in Nat /\ s.credits \in Nat
    /\ IsFiniteSet(s.sessions) /\ s.sessions \subseteq Session

WellFormedGroup(g) ==
    /\ IsFiniteSet(g.courses)
    /\ g.minimum \in Nat /\ 1 <= g.minimum /\ g.minimum <= Cardinality(g.courses)

WellFormedPreferences(r) ==
    /\ r.daysOff \cup r.avoidedDays \cup r.excludedDays \subseteq Days
    /\ {r.earliest, r.latest, r.maxGap} \subseteq {None} \cup 0..DayEnd
    /\ r.hardStart \in {None} \cup 0..(DayEnd - 1)
    /\ {r.hardEnd, r.maxDaily} \subseteq {None} \cup 1..DayEnd
    /\ r.hardStart # None /\ r.hardEnd # None => r.hardStart < r.hardEnd
    /\ r.maxCampusDays \in {None} \cup 0..7
    /\ r.lunch \in 0..150 /\ r.gapPercent \in 0..100

WeightNames ==
    {"campusDay", "dayOff", "gap", "early", "late", "avoided", "change", "unknownTime", "movement",
     "overflow", "lunch", "target"}

WellFormedWeights(w) == w \in [WeightNames -> Nat]

WellFormed(r) ==
    /\ IsFiniteSet(r.sections) /\ \A s \in r.sections : WellFormedSection(s)
    /\ \A g \in r.groups : WellFormedGroup(g)
    /\ WellFormedPreferences(r) /\ WellFormedWeights(r.weights)
    /\ r.minCredits \in Nat /\ r.maxCredits \in Nat /\ r.minCredits <= r.maxCredits
    /\ r.target # None => r.target \in r.minCredits..r.maxCredits
    /\ r.maxCandidates \in Nat \ {0} /\ r.minDifference \in Nat \ {0}

Overlap(a, b) == a.day = b.day /\ a.start < b.end /\ b.start < a.end

Conflict(s, t) == \E a \in s.sessions, b \in t.sessions : Overlap(a, b)

SumOver(S, f(_)) == SumFunction([x \in S |-> f(x)])

IdsOf(S) == {s.id : s \in S}
CoursesOf(S) == {s.course : s \in S}
CreditsOf(S) == SumOver(S, LAMBDA s : s.credits)
MeetingsOf(S) == UNION {s.sessions : s \in S}
On(M, d) == {m \in M : m.day = d}
MinutesOf(M) == SumOver(M, LAMBDA m : m.end - m.start)
WithIds(r, ids) == {s \in r.sections : s.id \in ids}

OneSectionPerCourse(S) == Cardinality(CoursesOf(S)) = Cardinality(S)

\* A section whose meetings overlap each other.
Muddled(s) == \E a, b \in s.sessions : a # b /\ Overlap(a, b)

\* A request that is not valid fails at once.
ValidRequest(r) ==
    /\ Cardinality(IdsOf(r.sections)) = Cardinality(r.sections)
    /\ r.locked \cup r.current \cup r.excluded \subseteq IdsOf(r.sections)
    /\ OneSectionPerCourse(WithIds(r, r.locked))
    /\ OneSectionPerCourse(WithIds(r, r.current))
    /\ \A s \in r.sections : ~Muddled(s)

OutsideHardTimes(r, s) ==
    \E m \in s.sessions :
        \/ m.day \in r.excludedDays
        \/ r.hardStart # None /\ m.start < r.hardStart
        \/ r.hardEnd # None /\ m.end > r.hardEnd

DayGap(M) == Max({m.end : m \in M}) - Min({m.start : m \in M}) - MinutesOf(M)

GapsWithin(r, S) ==
    r.maxGap # None =>
        \A d \in Days : LET M == On(MeetingsOf(S), d)
                        IN  M # {} => DayGap(M) <= r.maxGap

NoConflicts(S) == \A s, t \in S : s # t => ~Conflict(s, t)

(* Every hard constraint, for a concrete selection.                         *)
SelectionIsFeasible(r, S) ==
    /\ OneSectionPerCourse(S)
    /\ r.locked \subseteq IdsOf(S)
    /\ IdsOf(S) \cap r.excluded = {}
    /\ r.required \subseteq CoursesOf(S)
    /\ \A s \in S : ~s.ineligible /\ ~OutsideHardTimes(r, s)
    /\ r.minCredits <= CreditsOf(S) /\ CreditsOf(S) <= r.maxCredits
    /\ \A g \in r.groups : Cardinality(CoursesOf(S) \cap g.courses) >= g.minimum
    /\ NoConflicts(S)
    /\ GapsWithin(r, S)

FeasibleSelections(r) == {S \in SUBSET r.sections : SelectionIsFeasible(r, S)}

AvailableCourses(r) ==
    CoursesOf({s \in r.sections : ~s.ineligible /\ s.id \notin r.excluded})

(* What a student is told to relax; "anything" when nothing is specific.    *)
InfeasibilityHints(r) ==
    LET available == AvailableCourses(r)
        locked == WithIds(r, r.locked)
        specific ==
            {h \in {"course"} : ~(r.required \subseteq available)}
            \cup {h \in {"group"} : \E g \in r.groups : Cardinality(g.courses \cap available) < g.minimum}
            \cup {h \in {"conflict"} : ~NoConflicts(locked)}
            \cup {h \in {"credits"} : CreditsOf(locked) > r.maxCredits}
    IN  IF specific = {} THEN {"anything"} ELSE specific
=============================================================================
