--------------------------- MODULE TimetableScore ---------------------------
(***************************************************************************)
(* The score of a selection that is shown with a candidate                 *)
(* (optimizer/scoring.py), the list of candidates of the reference         *)
(* optimizer, and the order of candidates.                                 *)
(***************************************************************************)
EXTENDS TimetableProblem, Sequences

CONSTANTS
    LunchStart, LunchEnd,   \* the window a lunch break is looked for in
    NearMinutes,            \* a walk between buildings counts within this gap
    PercentBase             \* the percentage at which a gap weighs as configured

SeqExt == INSTANCE SequencesExt

\* The elements of a set in the order of a strict total order.
InOrder(S, Less(_, _)) ==
    [i \in 1..Cardinality(S) |->
        CHOOSE x \in S : Cardinality({y \in S : Less(y, x)}) = i - 1]

Place(loc) == IF loc = None THEN 0 ELSE loc

EarlierThan(a, b) ==
    \/ a.start < b.start
    \/ a.start = b.start /\ a.end < b.end
    \/ a.start = b.start /\ a.end = b.end /\ Place(a.loc) < Place(b.loc)

DailySessions(S, d) == InOrder(On(MeetingsOf(S), d), EarlierThan)

CampusDays(S) == {m.day : m \in MeetingsOf(S)}

AtLeastZero(n) == IF n < 0 THEN 0 ELSE n
Absolute(n) == IF n < 0 THEN -n ELSE n

GapMinutes(q) ==
    SumOver(2..Len(q), LAMBDA i : AtLeastZero(q[i].start - q[i - 1].end))

MovementTransitions(q) ==
    Cardinality({i \in 2..Len(q) :
        /\ AtLeastZero(q[i].start - q[i - 1].end) <= NearMinutes
        /\ q[i - 1].loc # None /\ q[i].loc # None /\ q[i - 1].loc # q[i].loc})

\* The longest free interval of the window; the sessions come in order.
LongestLunchBreak(q) ==
    LET Step(seen, m) ==
            LET from == Max({m.start, LunchStart})
                to == Min({m.end, LunchEnd})
            IN  IF from >= to THEN seen
                ELSE [cursor |-> Max({seen.cursor, to}),
                      longest |-> Max({seen.longest, from - seen.cursor})]
        seen == SeqExt!FoldLeft(Step, [cursor |-> LunchStart, longest |-> 0], q)
    IN  Max({seen.longest, LunchEnd - seen.cursor})

CurrentOf(r, c) == {s.id : s \in {t \in WithIds(r, r.current) : t.course = c}}

ChangedCourses(r, S) ==
    {c \in CoursesOf(WithIds(r, r.current)) \cup CoursesOf(S) :
        CurrentOf(r, c) # {s.id : s \in {t \in S : t.course = c}}}

Early(r, m) == IF r.earliest = None THEN 0 ELSE AtLeastZero(r.earliest - m.start)
Late(r, m) == IF r.latest = None THEN 0 ELSE AtLeastZero(m.end - r.latest)

(* The components of the score, before they are weighed.                    *)
Breakdown(r, S) ==
    LET meetings == MeetingsOf(S)
        days == CampusDays(S)
        daily == [d \in days |-> DailySessions(S, d)]
    IN  [campusDays |-> Cardinality(days),
         gap |-> SumOver(days, LAMBDA d : GapMinutes(daily[d])),
         movement |-> SumOver(days, LAMBDA d : MovementTransitions(daily[d])),
         early |-> SumOver(meetings, LAMBDA m : Early(r, m)),
         late |-> SumOver(meetings, LAMBDA m : Late(r, m)),
         daysOff |-> Cardinality(days \cap r.daysOff),
         avoided |-> Cardinality({m \in meetings : m.day \in r.avoidedDays}),
         changed |-> Cardinality(ChangedCourses(r, S)),
         unknownTime |-> Cardinality({s \in S : s.sessions = {}}),
         overflow |-> IF r.maxDaily = None THEN 0
                      ELSE SumOver(days, LAMBDA d :
                               AtLeastZero(MinutesOf(On(meetings, d)) - r.maxDaily)),
         lunch |-> IF r.lunch = 0 THEN 0
                   ELSE SumOver(days, LAMBDA d :
                            AtLeastZero(r.lunch - LongestLunchBreak(daily[d]))),
         deviation |-> IF r.target = None THEN 0 ELSE Absolute(CreditsOf(S) - r.target)]

WeightedScore(r, S) ==
    LET b == Breakdown(r, S)
        w == r.weights
    IN  PercentBase * (b.campusDays * w.campusDay + b.daysOff * w.dayOff + b.early * w.early
                       + b.late * w.late + b.avoided * w.avoided + b.unknownTime * w.unknownTime
                       + b.movement * w.movement + b.overflow * w.overflow + b.lunch * w.lunch
                       + (IF r.minimizeChanges THEN b.changed * w.change ELSE 0)
                       + b.deviation * w.target)
        + b.gap * w.gap * r.gapPercent
-----------------------------------------------------------------------------
(* A candidate is a selection with its score; better candidates come first, *)
(* and ties are broken by the sorted ids of the sections.                    *)
Candidate(r, S) == [sections |-> S, score |-> WeightedScore(r, S)]

SortedIds(S) == InOrder(IdsOf(S), <)

LexLess(p, q) ==
    \E i \in DOMAIN q : /\ \A j \in 1..(i - 1) : j \in DOMAIN p /\ p[j] = q[j]
                        /\ i \notin DOMAIN p \/ (i \in DOMAIN p /\ p[i] < q[i])

Better(a, b) ==
    \/ a.score < b.score
    \/ a.score = b.score /\ LexLess(SortedIds(a.sections), SortedIds(b.sections))

Difference(S, T) == Cardinality(SymDiff(IdsOf(S), IdsOf(T)))

\* The best candidates, each far enough from every one taken before it.
SelectDiverseCandidates(r, ordered) ==
    LET Take(taken, c) ==
            IF /\ Len(taken) < r.maxCandidates
               /\ \A k \in DOMAIN taken : Difference(c.sections, taken[k].sections) >= r.minDifference
            THEN Append(taken, c) ELSE taken
    IN  SeqExt!FoldLeft(Take, << >>, ordered)

ScoresOf(candidates) == [k \in DOMAIN candidates |-> candidates[k].score]
=============================================================================
