-------------------------- MODULE MCOptimizerPanel --------------------------
(* OptimizerPanel with two drafts that the student switches between.  *)
EXTENDS OptimizerPanel, TLC

CONSTANTS d1, d2
=============================================================================
