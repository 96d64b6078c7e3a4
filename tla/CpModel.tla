------------------------------- MODULE CpModel -------------------------------
(***************************************************************************)
(* The integer model that the production optimizer hands to the CP-SAT     *)
(* solver (optimizer/cp_sat.py): one Boolean variable per section, linear  *)
(* constraints on them, and an objective of auxiliary variables.  An       *)
(* assignment is the set of the sections whose variable is 1.  The solver  *)
(* may give an auxiliary variable any value its constraints allow, and     *)
(* minimises, so the objective takes the cheapest one.                     *)
(***************************************************************************)
EXTENDS TimetableScore

Val(x, s) == IF s \in x THEN 1 ELSE 0
Bit(b) == IF b THEN 1 ELSE 0

SectionsOf(r, c) == {s \in r.sections : s.course = c}
Meetings(r, d) == {p \in r.sections \X MeetingsOf(r.sections) : p[2] \in p[1].sessions /\ p[2].day = d}
DaysOf(r) == {m.day : m \in MeetingsOf(r.sections)}

Chosen(x, S) == SumOver(S, LAMBDA s : Val(x, s))
Credits(r, x) == SumOver(r.sections, LAMBDA s : s.credits * Val(x, s))

(* Optional intervals of which the present ones do not overlap.             *)
NoOverlap(r, x, d) ==
    \A p, q \in {pair \in Meetings(r, d) : pair[1] \in x} : p # q => ~Overlap(p[2], q[2])

\* Of an absent meeting: the start is the end of the day, and the end is 0.
FirstStart(r, x, d) ==
    Min({IF p[1] \in x THEN p[2].start ELSE DayEnd : p \in Meetings(r, d)})
LastEnd(r, x, d) ==
    Max({IF p[1] \in x THEN p[2].end ELSE 0 : p \in Meetings(r, d)})
Duration(r, x, d) ==
    SumOver(Meetings(r, d), LAMBDA p : (p[2].end - p[2].start) * Val(x, p[1]))
DayActive(r, x, d) == \E p \in Meetings(r, d) : p[1] \in x

DayGapMinutes(r, x, d) ==
    IF DayActive(r, x, d)
    THEN LastEnd(r, x, d) - FirstStart(r, x, d) - Duration(r, x, d)
    ELSE 0

(* The values of a literal that is 1 when all of some variables are 1 and   *)
(* none of others is, as three kinds of linear constraints bound it.        *)
Literal(on, need, block) ==
    {v \in {0, 1} :
        /\ \A n \in need : v <= on[n]
        /\ \A b \in block : v + on[b] <= 1
        /\ v >= SumOver(need, LAMBDA n : on[n]) - (Cardinality(need) - 1)
                - SumOver(block, LAMBDA b : on[b])}

(* A day's meetings within the lunch window, merged by the window's part.   *)
LunchEvents(r, d) ==
    LET Part(m) == [start |-> Max({m.start, LunchStart}), end |-> Min({m.end, LunchEnd})]
        events == {Part(p[2]) : p \in Meetings(r, d)}
    IN  InOrder({e \in events : e.start < e.end},
                LAMBDA a, b : a.start < b.start \/ (a.start = b.start /\ a.end < b.end))

InLunchEvent(r, d, e) ==
    {p[1] : p \in {q \in Meetings(r, d) : /\ Max({q[2].start, LunchStart}) = e.start
                                          /\ Min({q[2].end, LunchEnd}) = e.end}}

LunchActive(r, x, d) ==
    LET events == LunchEvents(r, d)
    IN  [i \in DOMAIN events |-> Chosen(x, InLunchEvent(r, d, events[i]))]

\* Mutant: a pair of meetings counts though one lies between them.
LunchGapsNotAdjacent(r, d) ==
    LET events == LunchEvents(r, d)
        n == Len(events)
        first == {[need |-> {i}, block |-> 1..(i - 1), gap |-> events[i].start - LunchStart] : i \in 1..n}
        between == {[need |-> {p[1], p[2]}, block |-> {}, gap |-> events[p[2]].start - events[p[1]].end] :
                       p \in {ij \in (1..n) \X (1..n) : ij[1] < ij[2]}}
    IN  first \cup {g \in between : g.gap > 0}

(* The literals of the longest lunch break, with the break each stands for. *)
LunchGaps(r, d) ==
    LET events == LunchEvents(r, d)
        n == Len(events)
        first == {[need |-> {i}, block |-> 1..(i - 1), gap |-> events[i].start - LunchStart] : i \in 1..n}
        last == {[need |-> {i}, block |-> (i + 1)..n, gap |-> LunchEnd - events[i].end] : i \in 1..n}
        between == {[need |-> {p[1], p[2]}, block |-> (p[1] + 1)..(p[2] - 1), gap |-> events[p[2]].start - events[p[1]].end] :
                       p \in {ij \in (1..n) \X (1..n) : ij[1] < ij[2]}}
    IN  first \cup last \cup {g \in between : g.gap > 0}

LongestBreak(r, x, d) ==
    LET on == LunchActive(r, x, d)
        gaps == LunchGaps(r, d)
        free == {(LunchEnd - LunchStart) * Bit(\A i \in DOMAIN on : on[i] = 0)}
    IN  Max(free \cup {g.gap * Max(Literal(on, g.need, g.block)) : g \in gaps})

LunchShortage(r, x, d) ==
    IF LunchEvents(r, d) = << >> THEN 0
    ELSE Max({r.lunch - LongestBreak(r, x, d), 0})

(* All meetings merged by time and place, in the order of time.             *)
MoveEvents(r, d) ==
    InOrder(On(MeetingsOf(r.sections), d), EarlierThan)

MoveActive(r, x, d) ==
    LET events == MoveEvents(r, d)
    IN  [i \in DOMAIN events |-> Chosen(x, {s \in r.sections : events[i] \in s.sessions})]

\* The literals that count a walk between two meetings next to each other.
Walks(r, d) ==
    LET events == MoveEvents(r, d)
        n == Len(events)
        pairs == {ij \in (1..n) \X (1..n) :
                     /\ ij[1] < ij[2]
                     /\ events[ij[2]].start - events[ij[1]].end \in 0..NearMinutes
                     /\ events[ij[1]].loc # None /\ events[ij[2]].loc # None
                     /\ events[ij[1]].loc # events[ij[2]].loc}
    IN  {[need |-> {ij[1], ij[2]}, block |-> (ij[1] + 1)..(ij[2] - 1)] : ij \in pairs}

MovementTerm(r, x, d) ==
    IF r.weights.movement = 0 THEN 0
    ELSE LET on == MoveActive(r, x, d)
         IN  SumOver(Walks(r, d), LAMBDA w : Min(Literal(on, w.need, w.block)))

\* A variable for merged meetings is Boolean, so at most one of them is taken.
EventsAreBoolean(r, x) ==
    \A d \in DaysOf(r) :
        /\ r.lunch > 0 => \A i \in DOMAIN LunchEvents(r, d) : LunchActive(r, x, d)[i] <= 1
        /\ r.weights.movement > 0 => \A i \in DOMAIN MoveEvents(r, d) : MoveActive(r, x, d)[i] <= 1
-----------------------------------------------------------------------------
\* Mutant: what a student may not take is not ruled out.
RuledOutOpen(r, s) == s.id \in r.excluded \/ OutsideHardTimes(r, s)

RuledOut(r, s) ==
    \/ s.id \in r.excluded
    \/ s.ineligible
    \/ OutsideHardTimes(r, s)

(* The hard constraints on the variables of the sections.                   *)
HardModel(r, x) ==
    /\ \A s \in r.sections : /\ RuledOut(r, s) => Val(x, s) = 0
                             /\ s.id \in r.locked => Val(x, s) = 1
    /\ \A c \in CoursesOf(r.sections) : Chosen(x, SectionsOf(r, c)) <= 1
    /\ \A c \in r.required : Chosen(x, SectionsOf(r, c)) = 1
    /\ \A g \in r.groups : Chosen(x, UNION {SectionsOf(r, c) : c \in g.courses}) >= g.minimum
    /\ Credits(r, x) >= r.minCredits /\ Credits(r, x) <= r.maxCredits
    /\ \A d \in DaysOf(r) : NoOverlap(r, x, d)
    /\ r.maxGap # None => \A d \in DaysOf(r) : DayGapMinutes(r, x, d) <= r.maxGap

ChangeTerm(r, x) ==
    SumOver(CoursesOf(r.sections), LAMBDA c :
        LET current == {s \in WithIds(r, r.current) : s.course = c}
        IN  IF current # {} THEN 1 - Chosen(x, current) ELSE Chosen(x, SectionsOf(r, c)))

DayTerms(r, x, d) ==
    LET w == r.weights
        present == Meetings(r, d)
    IN  PercentBase *
          (Bit(DayActive(r, x, d)) * (w.campusDay + (IF d \in r.daysOff THEN w.dayOff ELSE 0))
           + SumOver(present, LAMBDA p : Val(x, p[1]) *
                 (Early(r, p[2]) * w.early + Late(r, p[2]) * w.late
                  + (IF d \in r.avoidedDays THEN w.avoided ELSE 0)))
           + (IF r.maxDaily = None THEN 0 ELSE Max({Duration(r, x, d) - r.maxDaily, 0}) * w.overflow)
           + (IF r.lunch = 0 THEN 0 ELSE LunchShortage(r, x, d) * w.lunch)
           + MovementTerm(r, x, d) * w.movement)
        + DayGapMinutes(r, x, d) * w.gap * r.gapPercent

Objective(r, x) ==
    SumOver(DaysOf(r), LAMBDA d : DayTerms(r, x, d))
    + PercentBase *
        ((IF r.minimizeChanges THEN ChangeTerm(r, x) * r.weights.change ELSE 0)
         + Chosen(x, {s \in r.sections : s.sessions = {}}) * r.weights.unknownTime
         + (IF r.target = None THEN 0 ELSE Absolute(Credits(r, x) - r.target) * r.weights.target))

\* The literals that agree with an earlier selection.
Matching(r, x, S) == {s \in r.sections : s \in x <=> s \in S}

\* The cut after a selection was found.
FarFrom(r, x, S) ==
    Cardinality(Matching(r, x, S)) <= Cardinality(r.sections) - r.minDifference

Assignments(r) == {x \in SUBSET r.sections : HardModel(r, x)}
ObjectiveAssignments(r) == {x \in Assignments(r) : EventsAreBoolean(r, x)}
=============================================================================
