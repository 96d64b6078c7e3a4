------------------------------ MODULE Optimizer ------------------------------
(***************************************************************************)
(* The optimizer (apps/backend/src/timetabler/optimizer): the production   *)
(* search (CpSatSearch), the reference search that it is tested with       *)
(* (BacktrackingSearch), and the way of a request to a problem and of a    *)
(* candidate to the comparison (OptimizationRequests).  They share the     *)
(* problem and its score (TimetableProblem, TimetableScore) and no state.  *)
(* This module names the parameters, states and properties of the parts.   *)
(***************************************************************************)
EXTENDS CpSatSearch

CONSTANTS
    ReferenceProblems, MaxStates, Hurried,  \* of BacktrackingSearch
    Versions, Catalogs, CreditUnit, Bodies, MaxJobs  \* of OptimizationRequests

VARIABLES asked, at, calls, feasible, explored, stopped, verdict,
          image, api, worker, browser, jobs, answer

oracle == <<asked, at, calls, feasible, explored, stopped, verdict>>
service == <<image, api, worker, browser, jobs, answer>>

Reference == INSTANCE BacktrackingSearch WITH
    Problems <- ReferenceProblems, request <- asked, phase <- at, result <- verdict

Requests == INSTANCE OptimizationRequests

ASSUME PartsAssumption ==
    SearchAssumption /\ Reference!BacktrackingAssumption /\ Requests!RequestsAssumption
-----------------------------------------------------------------------------
\* The reference search finds every legal selection once, and says optimal or
\* infeasible only when it has seen them all (reference.py).
ReferenceIsExact == Reference!TypeOK /\ Reference!SearchIsExact

\* A candidate keeps what the student asked for, whatever course data API and
\* worker have loaded; a request fails in the worker for a reason (worker.py).
IntentsKept == Requests!TypeOK /\ Requests!IntentsKept /\ Requests!FailureHasCause

\* A comparison shows the measures of the score, but for the rounding of credits,
\* and changes that lead from what is placed to the candidate (compare_candidates).
ComparisonAgrees == Requests!ComparisonAgrees
=============================================================================
