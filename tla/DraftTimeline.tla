---------------------------- MODULE DraftTimeline ----------------------------
(***************************************************************************)
(* What undo and redo promise a student: the drafts of a session form one  *)
(* line with a cursor.  An edit forgets what lies after the cursor and     *)
(* appends a draft, undo and redo only move the cursor, so a student can   *)
(* always walk back to each of the last Cap drafts exactly as it was.      *)
(* DraftHistory implements it with the past and future of draft.ts.        *)
(***************************************************************************)
EXTENDS Naturals, Sequences

CONSTANT Cap  \* how many steps back a student can go, at least 1

VARIABLES
    line,   \* the drafts, oldest first
    cursor  \* the draft on the screen

vars == <<line, cursor>>

Init == Len(line) = 1 /\ cursor = 1

(* The drafts up to the cursor; the oldest goes if there are more than Cap. *)
Kept == IF cursor > Cap THEN SubSeq(line, cursor - Cap + 1, cursor)
        ELSE SubSeq(line, 1, cursor)

Edit ==
    /\ Len(line') = Len(Kept) + 1
    /\ SubSeq(line', 1, Len(Kept)) = Kept
    /\ cursor' = Len(line')

Undo == cursor > 1 /\ cursor' = cursor - 1 /\ UNCHANGED line

Redo == cursor < Len(line) /\ cursor' = cursor + 1 /\ UNCHANGED line

(* New course data rewrites the drafts in place.  *)
Rewrite == Len(line') = Len(line) /\ UNCHANGED cursor

(* Another draft is opened and a new line starts.  *)
Open == Len(line') = 1 /\ cursor' = 1

Next == Edit \/ Undo \/ Redo \/ Rewrite \/ Open

Spec == Init /\ [][Next]_vars
=============================================================================
