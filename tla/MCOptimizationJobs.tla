------------------------- MODULE MCOptimizationJobs -------------------------
(* OptimizationJobs on small sets of jobs, workers and requests. *)
EXTENDS OptimizationJobs, TLC

Symmetry == Permutations(Jobs) \cup Permutations(Workers) \cup Permutations(Clients)
=============================================================================
