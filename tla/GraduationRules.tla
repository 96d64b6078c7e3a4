--------------------------- MODULE GraduationRules ---------------------------
(***************************************************************************)
(* The graduation rules from the archive to the answer of a student: the   *)
(* ingest that loads them with the course history (ArchiveIngest) and the  *)
(* check that evaluates them (GraduationCheck).  The check reads what was  *)
(* committed once, so the two share no state.  This module names the       *)
(* parameters, states and properties of the two.                           *)
(***************************************************************************)
EXTENDS ArchiveIngest

CONSTANTS Entries, Profiles, Common, Stored, Programs, Aliases, StaticMajors,
          ExceptionUnits, AreaNames   \* of GraduationCheck

VARIABLES completed, taking, answer

check == <<completed, taking, answer>>

Check == INSTANCE GraduationCheck

ASSUME CheckAssumption == Check!RulesAssumption
-----------------------------------------------------------------------------
\* A common rule that a degree profile replaces is judged or flagged by the
\* profile, and no metric has two minima (_combined_rules).
NoRuleLost == Check!TypeOK /\ Check!NoRuleLost /\ Check!OneMinimumPerKind

\* No course that a student completes makes a requirement missing
\* (_evaluate_rules matches credits, names and areas in separate passes).
ProgressKept == Check!ProgressKept
=============================================================================
