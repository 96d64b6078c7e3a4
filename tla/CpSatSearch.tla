----------------------------- MODULE CpSatSearch -----------------------------
(***************************************************************************)
(* CpSatOptimizer.solve (optimizer/cp_sat.py): the model is solved once    *)
(* per candidate, each time with a cut around every selection found, until *)
(* enough are found, none is left or the time is over.  A large problem    *)
(* first gets a short search for any selection at all, which is the answer *)
(* when the time ends before a candidate is found.                         *)
(***************************************************************************)
EXTENDS CpModel

CONSTANTS
    Problems,      \* the requests that are solved
    LargeProblem   \* sections from which a fallback is looked for

SearchAssumption ==
    /\ DayEnd \in Nat /\ None \notin Nat
    /\ {LunchStart, LunchEnd, NearMinutes, PercentBase} \subseteq Nat
    /\ LunchStart + 150 <= LunchEnd   \* the window has room for any lunch break asked for
    /\ LargeProblem \in Nat /\ \A r \in Problems : WellFormed(r)

VARIABLES
    request,   \* what is solved
    phase,     \* "validate", "fallback", "solve", "rank", "done"
    fallback,  \* a selection kept for the case that the time ends, or None
    found,     \* the selections found, in this order
    status,    \* overall_status
    result     \* the ranked candidates and the hints

vars == <<request, phase, fallback, found, status, result>>

NoResult == [candidates |-> << >>, hints |-> {}]

Init ==
    /\ request \in Problems
    /\ phase = "validate" /\ fallback = None /\ found = << >>
    /\ status = "OPTIMAL" /\ result = NoResult

Reject ==
    /\ phase = "validate" /\ ~ValidRequest(request)
    /\ phase' = "done" /\ status' = "FAILED"
    /\ UNCHANGED <<request, fallback, found, result>>

Accept ==
    /\ phase = "validate" /\ ValidRequest(request)
    /\ phase' = IF Cardinality(request.sections) < LargeProblem THEN "solve" ELSE "fallback"
    /\ UNCHANGED <<request, fallback, found, status, result>>

\* The first selection that meets the hard constraints, without an objective.
FindFallback ==
    /\ phase = "fallback"
    /\ \E x \in Assignments(request) : fallback' = x
    /\ phase' = "solve"
    /\ UNCHANGED <<request, found, status, result>>

\* The budget is over, or the search proves that there is none.
NoFallback ==
    /\ phase = "fallback" /\ phase' = "solve"
    /\ UNCHANGED <<request, fallback, found, status, result>>

(* What the constraints and the cuts leave.                                 *)
Left(r, selections) ==
    {x \in ObjectiveAssignments(r) :
        \A k \in DOMAIN selections : FarFrom(r, x, selections[k])}

Solving == phase = "solve" /\ Len(found) < request.maxCandidates

\* Mutant: a selection that is not proved optimal leaves the status alone.
TakeSilently(x, s) ==
    /\ found' = Append(found, x) /\ status' = status
    /\ UNCHANGED <<request, phase, fallback, result>>

Take(x, s) ==
    /\ found' = Append(found, x)
    /\ status' = IF s = "FEASIBLE" THEN "FEASIBLE" ELSE status
    /\ UNCHANGED <<request, phase, fallback, result>>

\* The solver proves that a selection costs least.
SolveOptimal ==
    /\ Solving
    /\ LET left == Left(request, found)
           cost == [x \in left |-> Objective(request, x)]
       IN  \E x \in left : (\A y \in left : cost[x] <= cost[y]) /\ Take(x, "OPTIMAL")

\* The time of the solver ends when it has some selection.
SolveFeasible ==
    /\ Solving
    /\ \E x \in Left(request, found) : Take(x, "FEASIBLE")

StopWith(s) ==
    /\ phase' = "rank" /\ status' = s
    /\ UNCHANGED <<request, fallback, found, result>>

SolveInfeasible ==
    /\ Solving /\ Left(request, found) = {}
    /\ StopWith(IF found = << >> THEN "INFEASIBLE" ELSE status)

\* The time is over before the solver starts, or before it has a selection.
SolveUnknown == Solving /\ StopWith("TIME_LIMIT")

SolveInvalid == Solving /\ StopWith("FAILED")

Enough ==
    /\ phase = "solve" /\ Len(found) = request.maxCandidates
    /\ StopWith(status)

Selections(selections, s, spare) ==
    IF selections = << >> /\ spare # None /\ s = "TIME_LIMIT" THEN {spare}
    ELSE {selections[k] : k \in DOMAIN selections}

Rank ==
    /\ phase = "rank" /\ phase' = "done"
    /\ result' = [candidates |-> InOrder({Candidate(request, x) : x \in Selections(found, status, fallback)},
                                         Better),
                  hints |-> IF status = "INFEASIBLE" THEN InfeasibilityHints(request) ELSE {}]
    /\ UNCHANGED <<request, fallback, found, status>>

Next ==
    \/ Reject \/ Accept \/ FindFallback \/ NoFallback
    \/ SolveOptimal \/ SolveFeasible \/ SolveInfeasible \/ SolveUnknown \/ SolveInvalid
    \/ Enough \/ Rank

Spec == Init /\ [][Next]_vars
-----------------------------------------------------------------------------
(* Properties.                                                               *)

\* Types of the search (cp_sat.py:39-126).
TypeOK ==
    /\ request \in Problems
    /\ phase \in {"validate", "fallback", "solve", "rank", "done"}
    /\ fallback = None \/ fallback \in SUBSET request.sections
    /\ \A k \in DOMAIN found : found[k] \in SUBSET request.sections
    /\ status \in {"OPTIMAL", "FEASIBLE", "INFEASIBLE", "TIME_LIMIT", "FAILED"}

\* The integer model and the predicate that tests and the reference use accept
\* the same selections, whatever combination of constraints a request has, and
\* the merged meetings of the objective exclude none of them
\* (cp_sat.py:172-287, constraints.py:75-126).
ConstraintsAreExact ==
    phase = "solve" /\ found = << >> =>
        /\ Assignments(request) = FeasibleSelections(request)
        /\ ObjectiveAssignments(request) = FeasibleSelections(request)

\* What the solver minimises is the score that the candidate shows, down to the
\* lunch breaks and the walks between buildings (cp_sat.py:289-582, scoring.py:63-208).
CostIsScore ==
    phase = "solve" /\ found = << >> =>
        \A S \in FeasibleSelections(request) : Objective(request, S) = WeightedScore(request, S)

\* The longest lunch break is the longest stretch of the window in which no
\* session lies, stated without a cursor, and 0 when there is none (scoring.py:48-60).
BreakIsLongest(S, d) ==
    LET M == On(MeetingsOf(S), d)
        points == {t \in {LunchStart, LunchEnd} \cup {m.start : m \in M} \cup {m.end : m \in M} :
                     LunchStart <= t /\ t <= LunchEnd}
        free == {ab \in points \X points :
                   ab[1] <= ab[2] /\ \A m \in M : m.end <= ab[1] \/ ab[2] <= m.start}
    IN  LongestLunchBreak(DailySessions(S, d)) = Max({0} \cup {ab[2] - ab[1] : ab \in free})
LunchBreakIsLongest ==
    phase = "solve" /\ found = << >> =>
        \A S \in FeasibleSelections(request) : \A d \in CampusDays(S) : BreakIsLongest(S, d)

\* A student is never shown two timetables that differ by less than the minimum,
\* nor one that breaks a hard constraint (cp_sat.py:63-103, 584-600).
CandidatesAreDiverse ==
    phase = "done" =>
        LET c == result.candidates
        IN  /\ \A k \in DOMAIN c : c[k].sections \in FeasibleSelections(request)
            /\ \A j, k \in DOMAIN c : j # k =>
                  Difference(c[j].sections, c[k].sections) >= request.minDifference

\* Candidates are shown best first, also when the solver ran out of time on an
\* early one and proved a later one (cp_sat.py:98-105).
BestFirst ==
    phase = "done" =>
        \A j, k \in DOMAIN result.candidates :
            j < k => result.candidates[j].score <= result.candidates[k].score

\* INFEASIBLE is said only of a request that no selection meets, OPTIMAL and
\* FEASIBLE come with candidates, and a fallback is never lost to the time limit
\* (cp_sat.py:80-96, 128-137).
StatusIsTruthful ==
    phase = "done" =>
        /\ status = "INFEASIBLE" => FeasibleSelections(request) = {}
        /\ status \in {"OPTIMAL", "FEASIBLE"} => result.candidates # << >>
        /\ status = "TIME_LIMIT" /\ fallback # None => result.candidates # << >>

\* The scores that the reference optimizer lists, by its own greedy choice.
ReferenceCandidates(r) ==
    SelectDiverseCandidates(r, InOrder({Candidate(r, S) : S \in FeasibleSelections(r)}, Better))

\* OPTIMAL means what the reference optimizer finds: no timetable is better than
\* the first one, and, when any two timetables differ enough, all scores agree
\* (cp_sat.py:63-91, reference.py:78-121).
OptimalMatchesReference ==
    phase = "done" /\ status = "OPTIMAL" =>
        LET reference == ScoresOf(ReferenceCandidates(request))
            scores == ScoresOf(result.candidates)
        IN  /\ scores[1] = reference[1]
            /\ request.minDifference = 1 => scores = reference

\* A specific hint names something that alone leaves no timetable, also before
\* the solver has an answer (constraints.py:129-165).
HintsAreSound ==
    phase = "solve" /\ found = << >> /\ InfeasibilityHints(request) # {"anything"} =>
        FeasibleSelections(request) = {}

\* The CP model admits exactly the legal selections, and a hint that names a
\* cause of infeasibility is given for infeasible problems only (cp_sat.py).
ModelIsExact == TypeOK /\ ConstraintsAreExact /\ HintsAreSound

\* What CP-SAT minimises is the score that scoring.py computes from the
\* meetings of a candidate, lunch break included.
ObjectiveIsScore == CostIsScore /\ LunchBreakIsLongest

\* An answer of the search says of feasibility and optimality only what was
\* proved; its candidates are legal, different enough and best first.
AnswerIsTruthful ==
    CandidatesAreDiverse /\ BestFirst /\ StatusIsTruthful /\ OptimalMatchesReference
=============================================================================
