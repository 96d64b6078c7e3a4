----------------------------- MODULE MCOptimizer -----------------------------
(***************************************************************************)
(* Model checking of Optimizer.  The initial state picks the part that a   *)
(* behaviour is about, and the others stay in an initial state; "model" is *)
(* the production search up to the model it builds, for many more problems *)
(* than "search" solves.                                                   *)
(***************************************************************************)
EXTENDS Optimizer, TLC

CONSTANTS pa, pb

VARIABLE part

solver == vars
-----------------------------------------------------------------------------
(* Six sections of four courses on two days: sections that overlap, that   *)
(* are adjacent, that are apart by a walk, by a lunch or by a gap, without *)
(* a place and without a time.                                             *)

Meet(day, start, end, loc) == [day |-> day, start |-> start, end |-> end, loc |-> loc]
Sec(id, course, credits, sessions) ==
    [id |-> id, course |-> course, credits |-> credits, sessions |-> sessions, ineligible |-> FALSE]

s1 == Sec(1, 1, 3, {Meet(1, 600, 720, 1)})
s2 == Sec(2, 1, 3, {Meet(1, 780, 840, 2), Meet(2, 540, 600, 1)})
s3 == Sec(3, 2, 2, {Meet(1, 720, 735, None)})
s4 == Sec(4, 2, 2, {})
s5 == Sec(5, 3, 3, {Meet(1, 750, 900, 2)})
s6 == Sec(6, 4, 1, {Meet(2, 660, 760, 2), Meet(1, 930, 960, 1)})
Catalog == {s1, s2, s3, s4, s5, s6}

NoWeights ==
    [campusDay |-> 0, dayOff |-> 0, gap |-> 0, early |-> 0, late |-> 0, avoided |-> 0, change |-> 0,
     unknownTime |-> 0, movement |-> 0, overflow |-> 0, lunch |-> 0, target |-> 0]
Defaults ==
    [campusDay |-> 600, dayOff |-> 800, gap |-> 1, early |-> 2, late |-> 2, avoided |-> 500,
     change |-> 300, unknownTime |-> 250, movement |-> 60, overflow |-> 4, lunch |-> 3, target |-> 200]

Base ==
    [sections |-> Catalog, minCredits |-> 0, maxCredits |-> 9, target |-> None, locked |-> {},
     required |-> {}, groups |-> {}, current |-> {}, excluded |-> {}, daysOff |-> {},
     avoidedDays |-> {}, excludedDays |-> {}, earliest |-> None, latest |-> None, hardStart |-> None,
     hardEnd |-> None, maxGap |-> None, maxCampusDays |-> None, maxDaily |-> None, lunch |-> 0,
     gapPercent |-> 50, minimizeChanges |-> TRUE, weights |-> NoWeights, maxCandidates |-> 1,
     minDifference |-> 1]

Group(courses, minimum) == [courses |-> courses, minimum |-> minimum]
Ineligible(r, i) == [r EXCEPT !.sections = {[s EXCEPT !.ineligible = (s.id = i)] : s \in r.sections}]

HardProblems ==
    {[Base EXCEPT !.minCredits = mm[1], !.maxCredits = mm[2], !.maxGap = gap, !.locked = lr[1],
                  !.required = lr[2], !.groups = g, !.excluded = x[1], !.excludedDays = x[2],
                  !.hardStart = t[1], !.hardEnd = t[2]] :
        mm \in {<<0, 9>>, <<5, 6>>}, gap \in {None, 0, 40}, lr \in {<<{}, {}>>, <<{1}, {2}>>, <<{5, 6}, {1}>>},
        g \in {{}, {Group({2, 3, 4}, 2)}}, x \in {<<{}, {}>>, <<{3}, {}>>, <<{5}, {2}>>},
        t \in {<<None, None>>, <<600, 840>>}}
    \cup {[Base EXCEPT !.locked = k, !.maxCredits = n] : k \in {{1, 3}, {3, 5}, {1, 2}}, n \in {4, 5}}
    \cup {[Base EXCEPT !.required = {1, 7}], [Base EXCEPT !.groups = {Group({2, 8}, 2)}]}
    \cup {Ineligible([Base EXCEPT !.required = q, !.locked = k], 5) : q \in {{}, {3}}, k \in {{}, {5}}}

SoftProblems ==
    {[Base EXCEPT !.weights = Defaults, !.daysOff = d[1], !.avoidedDays = d[2], !.earliest = t[1],
                  !.latest = t[2], !.maxDaily = o, !.lunch = l, !.target = g, !.current = c,
                  !.minimizeChanges = (c # {6}), !.maxCredits = 12] :
        d \in {<<{}, {}>>, <<{1}, {2}>>}, t \in {<<None, None>>, <<630, 800>>}, o \in {None, 150},
        l \in {0, 60, 100}, g \in {None, 4}, c \in {{}, {1, 4}, {6}}}
    \cup {[Base EXCEPT !.weights = Defaults, !.lunch = 60,
                       !.sections = {s2, s3, [s5 EXCEPT !.sessions = {Meet(1, 660, 900, 2)}]}]}

Small(r) == [r EXCEPT !.sections = {s1, s2, s3, s5}]
SearchBase == [Small(Base) EXCEPT !.weights = Defaults, !.minCredits = 3, !.maxCredits = 6,
                                  !.maxCandidates = 2, !.lunch = 60]
SearchProblems ==
    {[SearchBase EXCEPT !.minDifference = n, !.required = q, !.current = c] :
        n \in {1, 3}, q \in {{}, {1}}, c \in {{}, {1}}}
    \cup {[SearchBase EXCEPT !.maxCandidates = 5, !.required = {1}],
          [SearchBase EXCEPT !.maxCandidates = 3], [SearchBase EXCEPT !.sections = {s1, s2, s3}],
          [SearchBase EXCEPT !.locked = {2, 5}],
          [SearchBase EXCEPT !.locked = {1, 5}, !.maxCredits = 5],
          [SearchBase EXCEPT !.locked = {1, 5}],
          [SearchBase EXCEPT !.minCredits = 6, !.maxGap = 0],
          [SearchBase EXCEPT !.current = {1, 2}], [SearchBase EXCEPT !.locked = {9}],
          [SearchBase EXCEPT !.sections = @ \cup {[s3 EXCEPT !.credits = 1]}],
          Ineligible([SearchBase EXCEPT !.required = {3}], 5)}

MCProblems == HardProblems \cup SoftProblems \cup SearchProblems
-----------------------------------------------------------------------------
(* The reference search decides the same problems call by call.            *)
RefBase == [Base EXCEPT !.weights = Defaults, !.minCredits = 3, !.maxCredits = 6, !.target = 5,
                        !.latest = 810, !.lunch = 60, !.maxCandidates = 3]
MCReferenceProblems ==
    LET varied ==
            {[RefBase EXCEPT !.minDifference = n, !.locked = l, !.excluded = x, !.current = c] :
                n \in 1..3, l \in {{}, {2}, {1, 5}}, x \in {{}, {5}}, c \in {{}, {4}}}
    IN  varied \cup {Ineligible(r, 2) : r \in {v \in varied : v.minDifference = 2}}
        \cup {[RefBase EXCEPT !.groups = {Group({2, 3}, 2)}], [RefBase EXCEPT !.required = {2}],
              [RefBase EXCEPT !.locked = {1, 2}], [RefBase EXCEPT !.maxGap = 0, !.maxCandidates = 5]}
-----------------------------------------------------------------------------
(* Two versions of the course data: in the second, a professor changes, a  *)
(* section is gone and another one moves.  Credits are in quarters, some   *)
(* next to, some between two whole numbers, and one nearest to none.       *)
Lesson(day, start, end) == Meet(day, start, end, 1)
Class(id, course, credits, professor, sessions) ==
    [id |-> id, course |-> course, credits |-> credits, professor |-> professor, sessions |-> sessions]

First == {Class(1, 1, 12, pa, {Lesson(1, 540, 600), Lesson(1, 660, 720)}), Class(2, 1, 11, pb, {Lesson(2, 540, 600)}),
          Class(3, 2, 10, pa, {Lesson(1, 750, 780)}), Class(4, 2, 8, pb, {}),
          Class(5, 3, 14, pb, {Lesson(1, 570, 660), Lesson(2, 700, 720)})}
Second == {Class(1, 1, 12, pb, {Lesson(1, 540, 600), Lesson(1, 660, 720)}), Class(2, 1, 11, pa, {Lesson(1, 740, 770)}),
           Class(3, 2, 10, pa, {Lesson(1, 750, 780)}), Class(4, 2, 1, pb, {})}
MCCatalogs == <<First, Second>>

Body ==
    [required |-> {}, candidates |-> {}, excluded |-> {}, locked |-> {}, selected |-> {},
     professors |-> {}, minCredits |-> 2, maxCredits |-> 6, target |-> None, daysOff |-> {},
     excludedDays |-> {}, hardStart |-> None, hardEnd |-> None, maxGap |-> None, minimizeGaps |-> TRUE]
By(course, professor) == [course |-> course, professor |-> professor]

MCBodies ==
    {[Body EXCEPT !.required = q, !.candidates = c, !.professors = p, !.locked = l, !.selected = l \cup d] :
        q \in {{}, {1}}, c \in {{}, {2, 3}}, p \in {{}, {By(1, pa)}, {By(2, pb)}},
        l \in {{}, {2}, {5}}, d \in {{}, {1}, {4}}}
    \cup {[Body EXCEPT !.excluded = {2}, !.required = {1}, !.candidates = c] : c \in {{}, {2}}}
    \cup {[Body EXCEPT !.excluded = {2}], [Body EXCEPT !.excluded = {1}, !.locked = {1}, !.selected = {1}],
          [Body EXCEPT !.selected = {1, 3}, !.excludedDays = {2}, !.maxGap = 60],
          [Body EXCEPT !.minCredits = 5, !.maxCredits = 4], [Body EXCEPT !.minCredits = 5, !.required = {1, 2, 3}]}
-----------------------------------------------------------------------------
InModel == part = "model" /\ UNCHANGED <<part, oracle, service>>
InSearch == part = "search" /\ UNCHANGED <<part, oracle, service>>
InReference == part = "reference" /\ UNCHANGED <<part, solver, service>>
InRequests == part = "requests" /\ UNCHANGED <<part, solver, oracle>>

MCInit ==
    /\ Init /\ Reference!Init /\ Requests!Init
    /\ \/ part = "model" /\ request \in HardProblems \cup SoftProblems /\ asked = RefBase /\ image = 1
       \/ part = "search" /\ request \in SearchProblems /\ asked = RefBase /\ image = 1
       \/ part = "reference" /\ request = Base /\ image = 1
       \/ part = "requests" /\ request = Base /\ asked = RefBase

MCNext ==
    \/ InModel /\ Accept
    \/ InModel /\ Reject
    \/ InModel /\ NoFallback
    \/ InSearch /\ Reject
    \/ InSearch /\ Accept
    \/ InSearch /\ FindFallback
    \/ InSearch /\ NoFallback
    \/ InSearch /\ SolveOptimal
    \/ InSearch /\ SolveFeasible
    \/ InSearch /\ SolveInfeasible
    \/ InSearch /\ SolveUnknown
    \/ InSearch /\ SolveInvalid
    \/ InSearch /\ Enough
    \/ InSearch /\ Rank
    \/ InReference /\ Reference!Reject
    \/ InReference /\ Reference!Accept
    \/ InReference /\ Reference!Stop
    \/ InReference /\ Reference!Prune
    \/ InReference /\ Reference!Complete
    \/ InReference /\ Reference!Branch
    \/ InReference /\ Reference!Select
    \/ InRequests /\ Requests!Build
    \/ InRequests /\ Requests!RestartApi
    \/ InRequests /\ Requests!RestartWorker
    \/ InRequests /\ Requests!Refresh
    \/ \E b \in Bodies : InRequests /\ Requests!Create(b)
    \/ \E j \in DOMAIN jobs : InRequests /\ Requests!Solve(j)
    \/ \E j \in DOMAIN jobs : InRequests /\ Requests!Compare(j)

MCSpec == MCInit /\ [][MCNext]_<<part, solver, oracle, service>>
=============================================================================
