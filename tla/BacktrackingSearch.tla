-------------------------- MODULE BacktrackingSearch --------------------------
(***************************************************************************)
(* BacktrackingOptimizer.solve (optimizer/reference.py): an exhaustive     *)
(* search over the courses in order, for each of which a section or none   *)
(* is taken.  The calls of the recursion that are still to be made are a   *)
(* stack.  It is the oracle that the production optimizer is tested with.  *)
(***************************************************************************)
EXTENDS TimetableScore

CONSTANTS
    Problems,    \* the requests that are solved
    MaxStates,   \* calls after which the search stops
    Hurried      \* whether the deadline can end the search

\* A course is the rank of its code among the codes.
BacktrackingAssumption ==
    /\ MaxStates \in Nat \ {0} /\ Hurried \in BOOLEAN
    /\ \A r \in Problems : WellFormed(r) /\ CoursesOf(r.sections) \subseteq Nat

VARIABLES
    request,
    phase,      \* "validate", "search", "done"
    calls,      \* the calls still to be made, the next one last
    feasible,   \* the selections found, in this order
    explored,   \* calls counted
    stopped,    \* stopped_early
    result      \* the status and the candidates

vars == <<request, phase, calls, feasible, explored, stopped, result>>

Open(r) == {s \in r.sections : s.id \notin r.excluded /\ ~s.ineligible}

CoursesInOrder(r) == InOrder(CoursesOf(Open(r)), <)

LockedOf(r, c) == {s \in WithIds(r, r.locked) : s.course = c}

\* The choices for a course: its locked section, or none and then each section.
Options(r, c) ==
    IF LockedOf(r, c) # {} THEN InOrder({LockedOf(r, c)}, LAMBDA a, b : FALSE)
    ELSE LET sections == InOrder({s \in Open(r) : s.course = c}, LAMBDA a, b : a.id < b.id)
         IN  <<{}>> \o [k \in DOMAIN sections |-> {sections[k]}]

Call(index, selected) == [index |-> index, selected |-> selected]
NextCall == calls[Len(calls)]
Waiting == SubSeq(calls, 1, Len(calls) - 1)

NoResult == [status |-> "none", candidates |-> << >>, hints |-> {}]

Init ==
    /\ request \in Problems
    /\ phase = "validate" /\ calls = << >> /\ feasible = << >>
    /\ explored = 0 /\ stopped = FALSE /\ result = NoResult

Reject ==
    /\ phase = "validate" /\ ~ValidRequest(request)
    /\ phase' = "done" /\ result' = [NoResult EXCEPT !.status = "FAILED"]
    /\ UNCHANGED <<request, calls, feasible, explored, stopped>>

Accept ==
    /\ phase = "validate" /\ ValidRequest(request)
    /\ phase' = "search" /\ calls' = <<Call(1, {})>>
    /\ UNCHANGED <<request, feasible, explored, stopped, result>>

Searching == phase = "search" /\ calls # << >>

Spent == explored >= MaxStates

\* The deadline or the number of calls ends the search: every call returns.
Stop ==
    /\ Searching /\ (Spent \/ Hurried)
    /\ stopped' = TRUE /\ calls' = << >>
    /\ UNCHANGED <<request, phase, feasible, explored, result>>

\* Mutant: a branch is left when the credits reach the maximum.
TooManyAtMaximum(r, S) == CreditsOf(S) >= r.maxCredits

TooMany(r, S) == CreditsOf(S) > r.maxCredits

\* The calls that a call makes, the first one last.
Children(r, call) ==
    LET options == Options(r, CoursesInOrder(r)[call.index])
        n == Len(options)
    IN  [k \in 1..n |-> Call(call.index + 1, call.selected \cup options[(n + 1) - k])]

Prune ==
    /\ Searching /\ ~Spent /\ TooMany(request, NextCall.selected)
    /\ explored' = explored + 1 /\ calls' = Waiting
    /\ UNCHANGED <<request, phase, feasible, stopped, result>>

Complete ==
    /\ Searching /\ ~Spent /\ ~TooMany(request, NextCall.selected)
    /\ NextCall.index > Len(CoursesInOrder(request))
    /\ explored' = explored + 1 /\ calls' = Waiting
    /\ feasible' = IF SelectionIsFeasible(request, NextCall.selected)
                   THEN Append(feasible, NextCall.selected) ELSE feasible
    /\ UNCHANGED <<request, phase, stopped, result>>

Branch ==
    /\ Searching /\ ~Spent /\ ~TooMany(request, NextCall.selected)
    /\ NextCall.index <= Len(CoursesInOrder(request))
    /\ explored' = explored + 1
    /\ calls' = Waiting \o Children(request, NextCall)
    /\ UNCHANGED <<request, phase, feasible, stopped, result>>

StatusOf(early, candidates) ==
    CASE early -> "TIME_LIMIT"
      [] ~early /\ candidates # << >> -> "OPTIMAL"
      [] OTHER -> "INFEASIBLE"

Select ==
    /\ phase = "search" /\ calls = << >> /\ phase' = "done"
    /\ LET ordered == InOrder({Candidate(request, feasible[k]) : k \in DOMAIN feasible}, Better)
           candidates == SelectDiverseCandidates(request, ordered)
           status == StatusOf(stopped, candidates)
       IN  result' = [status |-> status, candidates |-> candidates,
                      hints |-> IF status = "INFEASIBLE" THEN InfeasibilityHints(request) ELSE {}]
    /\ UNCHANGED <<request, calls, feasible, explored, stopped>>

Next == Reject \/ Accept \/ Stop \/ Prune \/ Complete \/ Branch \/ Select

Spec == Init /\ [][Next]_vars
-----------------------------------------------------------------------------
(* Properties.                                                               *)

\* Types of the search (reference.py:25-121).
TypeOK ==
    /\ request \in Problems
    /\ phase \in {"validate", "search", "done"}
    /\ \A k \in DOMAIN calls : calls[k].selected \subseteq request.sections
    /\ explored \in 0..MaxStates /\ stopped \in BOOLEAN
    /\ result.status \in {"none", "OPTIMAL", "INFEASIBLE", "TIME_LIMIT", "FAILED"}

Ended == phase = "done" /\ result.status # "FAILED"

\* A search that is not stopped reports every feasible selection once, so the
\* pruning and the treatment of locked, excluded and ineligible sections lose
\* nothing (reference.py:44-104).
FindsEachOnce ==
    /\ \A j, k \in DOMAIN feasible : j # k => feasible[j] # feasible[k]
    /\ Ended /\ ~stopped => {feasible[k] : k \in DOMAIN feasible} = FeasibleSelections(request)

\* OPTIMAL and INFEASIBLE are said of what is so, also by a search that the
\* states or the deadline could have cut short (reference.py:106-118).
VerdictIsProved ==
    phase = "done" =>
        /\ result.status = "INFEASIBLE" => FeasibleSelections(request) = {}
        /\ result.status = "OPTIMAL" =>
              \A S \in FeasibleSelections(request) :
                  result.candidates[1].score <= WeightedScore(request, S)

\* The candidates are the greedy choice: two of them differ enough, and whatever
\* was found and is better than the last one is near to one of them
\* (reference.py:124-141).
GreedyAndDiverse ==
    Ended =>
        LET c == result.candidates
        IN  /\ \A j, k \in DOMAIN c : j # k => Difference(c[j].sections, c[k].sections) >= request.minDifference
            /\ \A n \in DOMAIN feasible :
                  LET mine == Candidate(request, feasible[n])
                      ahead == {k \in DOMAIN c : c[k] = mine \/ Better(c[k], mine)}
                  IN  \/ Cardinality(ahead) = request.maxCandidates
                      \/ \E k \in ahead : Difference(c[k].sections, feasible[n]) < request.minDifference

\* What the search reports is everything, once, in the order of its greedy
\* choice, and its verdict is proved (reference.py:25-141).
SearchIsExact == FindsEachOnce /\ VerdictIsProved /\ GreedyAndDiverse
=============================================================================
