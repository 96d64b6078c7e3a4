--------------------------- MODULE MCDraftHistory ---------------------------
(* DraftHistory with a course of three sections and one of a single section *)
(* that overlaps the second.  The later course data has another section in  *)
(* place of the first, which comes back when the page falls back on the     *)
(* file of the site.  The initial state picks what the student of a         *)
(* behaviour does: walk the timeline across reloads and other course data,  *)
(* save on the way, edit, use candidates, also for other course data.       *)
EXTENDS DraftHistory, TLC

TwoCatalogs == <<{1, 2, 3, 4}, {2, 3, 4, 5}>>
Courses == (1 :> "A") @@ (2 :> "A") @@ (3 :> "A") @@ (4 :> "B") @@ (5 :> "A")
Professors == (1 :> "p") @@ (2 :> "p") @@ (3 :> "q") @@ (4 :> None) @@ (5 :> "p")
Overlaps == {<<2, 4>>}

Kept(s, role) == [NewItem(s, role) EXCEPT !.locked = TRUE]
Draft(list, v) == [items |-> list, preferences |-> 1, version |-> v]
SomeStarts ==
    {Draft(<< >>, None), Draft(<<Kept(1, "must"), NewItem(2, "backup"), NewItem(4, "want")>>, 1)}
SomeShared == {Draft(<<Kept(5, "must"), NewItem(2, "backup")>>, 2)}

VARIABLE scenario

(* What is done in each scenario, and after how many changes it ends.  *)
Does ==
    [timeline |-> {"search", "preferences", "remove_passive", "load", "reload", "publish"},
     saving |-> {"search", "preferences", "save", "load", "reload", "publish"},
     editor |-> {"search", "basket", "required", "detail", "drag", "checklist", "remove_passive"},
     candidates |-> {"basket", "detail", "preferences", "generate"},
     versions |-> {"search", "required", "generate", "load", "publish"}]
Edits == [timeline |-> 3, saving |-> 2, editor |-> 3, candidates |-> 2, versions |-> 1]

Doing(op) ==
    /\ op \in Does[scenario] /\ UNCHANGED scenario
    /\ edits' <= Edits[scenario]

MCInit ==
    /\ scenario \in DOMAIN Does
    /\ Init /\ cached = None
    /\ scenario \in {"editor", "candidates"} => present.version # 2

MCNext ==
    \/ FetchCatalog /\ UNCHANGED scenario
    \/ Undo /\ UNCHANGED scenario
    \/ Redo /\ UNCHANGED scenario
    \/ CloseSheet /\ UNCHANGED scenario
    \/ RemoveSection /\ Doing("detail")
    \/ \E s \in Sections : Search(s) /\ Doing("search")
    \/ \E s \in Sections : AddCandidate(s) /\ Doing("basket")
    \/ \E s \in Sections : Promote(s) /\ Doing("basket")
    \/ \E s \in Sections : AddRequired(s) /\ Doing("required")
    \/ \E s \in Sections : RemovePassiveCourse(s) /\ Doing("remove_passive")
    \/ \E s \in Sections : ApplyBackup(s) /\ Doing("checklist")
    \/ \E s \in Sections : Select(s) /\ Doing("detail")
    \/ \E s \in Sections : SwapSection(s) /\ Doing("detail")
    \/ \E s, t \in Sections : DragReplace(s, t) /\ Doing("drag")
    \/ \E role \in Roles : SetRole(role) /\ Doing("detail")
    \/ \E mode \in {"AUTO", "PROFESSOR", "SECTION"} : SetAdjustmentMode(mode) /\ Doing("detail")
    \/ \E p \in Preferences : SetPreferences(p) /\ Doing("preferences")
    \/ Generate /\ Doing("generate")
    \/ PreviewCandidate /\ Doing("generate")
    \/ DropStale /\ UNCHANGED scenario
    \/ CancelPreview /\ Doing("generate")
    \/ ApplyCandidate /\ Doing("generate")
    \/ SaveCurrent /\ Doing("save")
    \/ LoadTimetable /\ Doing("load")
    \/ Reload /\ Doing("reload")
    \/ Publish /\ Doing("publish")

MCSpec == MCInit /\ [][MCNext]_<<scenario, vars>>
=============================================================================
