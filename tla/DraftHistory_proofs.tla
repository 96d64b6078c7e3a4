------------------------- MODULE DraftHistory_proofs -------------------------
(***************************************************************************)
(* Proofs about DraftHistory, for any catalogs, cap and number of edits:   *)
(* the past and future of state/draft.ts implement the line of drafts that *)
(* DraftTimeline promises a student, and never grow beyond the cap.        *)
(*                                                                         *)
(* Whatever a handler computes, it reaches the drafts through one of five  *)
(* operations of the reducer (Kinds), so that only these are looked at.    *)
(*                                                                         *)
(* The rest is about what the drafts hold: every handler makes lists that  *)
(* stay usable (EditsWell), and every draft of the history fits the course *)
(* data (DInv).                                                            *)
(***************************************************************************)
EXTENDS DraftHistory, SequenceTheorems, FiniteSetTheorems, FunctionTheorems, WellFoundedInduction,
        TLAPS

IsSeq(s) == \E S : s \in Seq(S)

(* HistoryCapped with what it needs to be inductive.                       *)
IInv == IsSeq(past) /\ IsSeq(future) /\ HistoryCapped

Kinds ==
    \/ UNCHANGED history
    \/ \E draft : Change(draft)
    \/ UndoItems
    \/ RedoItems
    \/ \E v : Hydrate(v)
    \/ \E draft : Restart(draft)
-----------------------------------------------------------------------------
LEMMA ItemsKind ==
    ASSUME NEW items, ChangeItems(items)
    PROVE  Kinds
BY DEF ChangeItems, Kinds

LEMMA AddItemKind ==
    ASSUME NEW item, AddItem(item)
    PROVE  Kinds
<1>1. CASE item.section \in Ids(present.items)
    BY <1>1 DEF AddItem, Kinds
<1>2. CASE item.section \notin Ids(present.items)
    BY <1>2, ItemsKind DEF AddItem
<1> QED BY <1>1, <1>2

LEMMA AddSectionKind ==
    ASSUME NEW s, NEW role, AddSection(s, role)
    PROVE  Kinds
BY ItemsKind, AddItemKind DEF AddSection

LEMMA StepKind ==
    ASSUME [Next]_vars
    PROVE  Kinds
<1>1. CASE UNCHANGED vars
    BY <1>1 DEF vars, Kinds, history
<1>2. CASE FetchCatalog
    BY <1>2 DEF FetchCatalog, Kinds
<1>3. CASE Undo \/ Redo
    BY <1>3 DEF Undo, Redo, Kinds
<1>4. ASSUME NEW s \in Sections, Search(s) \/ AddCandidate(s) \/ Promote(s) \/ AddRequired(s)
      PROVE  Kinds
    BY <1>4, AddSectionKind DEF Search, AddCandidate, Promote, AddRequired
<1>5. ASSUME NEW s \in Sections, RemovePassiveCourse(s) \/ ApplyBackup(s)
      PROVE  Kinds
    BY <1>5, ItemsKind DEF RemovePassiveCourse, ApplyBackup
<1>6. ASSUME NEW s \in Sections, NEW t \in Sections, SwapSection(s) \/ DragReplace(s, t)
      PROVE  Kinds
    BY <1>6, ItemsKind DEF SwapSection, DragReplace, SwapItem
<1>7. CASE RemoveSection
    BY <1>7, ItemsKind DEF RemoveSection, Remove
<1>8. ASSUME NEW role, SetRole(role)
      PROVE  Kinds
    BY <1>8, ItemsKind DEF SetRole
<1>9. ASSUME NEW mode, SetAdjustmentMode(mode)
      PROVE  Kinds
    BY <1>9, ItemsKind DEF SetAdjustmentMode
<1>10. ASSUME NEW p, SetPreferences(p)
      PROVE  Kinds
    BY <1>10 DEF SetPreferences, Kinds
<1>11. CASE ApplyCandidate
    BY <1>11, ItemsKind DEF ApplyCandidate, ApplyItems
<1>12. CASE LoadTimetable \/ Reload
    BY <1>12 DEF LoadTimetable, Reload, Kinds
<1>13. CASE \/ CloseSheet \/ Generate \/ PreviewCandidate \/ DropStale \/ CancelPreview
            \/ SaveCurrent \/ Publish \/ \E s \in Sections : Select(s)
    BY <1>13 DEF CloseSheet, Generate, PreviewCandidate, DropStale, CancelPreview, SaveCurrent,
       Publish, Select, Kinds
<1> QED BY <1>1, <1>2, <1>3, <1>4, <1>5, <1>6, <1>7, <1>8, <1>9, <1>10, <1>11, <1>12, <1>13
        DEF Next
-----------------------------------------------------------------------------
(* The line of drafts as a sequence.                                       *)
LEMMA LineTyped ==
    ASSUME NEW S, NEW p \in Seq(S), NEW x \in S, NEW f \in Seq(S)
    PROVE  /\ p \o <<x>> \o f \in Seq(S) /\ Len(p \o <<x>> \o f) = Len(p) + 1 + Len(f)
           /\ p \o <<x>> \in Seq(S) /\ Len(p \o <<x>>) = Len(p) + 1
<1>1. <<x>> \in Seq(S) /\ Len(<<x>>) = 1
    OBVIOUS
<1>2. p \o <<x>> \in Seq(S) /\ Len(p \o <<x>>) = Len(p) + 1
    BY <1>1, ConcatProperties
<1> QED BY <1>2, ConcatProperties

(* To undo takes the last draft of the past and puts x before the future.   *)
LEMMA UndoLine ==
    ASSUME NEW S, NEW p \in Seq(S), NEW x \in S, NEW f \in Seq(S), p # << >>
    PROVE  /\ SubSeq(p, 1, Len(p) - 1) \in Seq(S) /\ Len(SubSeq(p, 1, Len(p) - 1)) = Len(p) - 1
           /\ SubSeq(p, 1, Len(p) - 1) \o <<p[Len(p)]>> = p
           /\ <<x>> \o f \in Seq(S) /\ Len(<<x>> \o f) = Len(f) + 1
<1>1. Len(p) \in Nat \ {0} /\ Len(p) \in 1..Len(p) /\ 1 \in 1..Len(p)
    BY EmptySeq
<1>2. \A i \in 1..Len(p) : p[i] \in S
    BY ElementOfSeq
<1>3. SubSeq(p, 1, Len(p) - 1) \in Seq(S) /\ Len(SubSeq(p, 1, Len(p) - 1)) = Len(p) - 1
  <2>1. PICK n \in Nat : n = Len(p) - 1 /\ \A i \in 1..n : p[i] \in S
      BY <1>1, <1>2
  <2>2. SubSeq(p, 1, n) \in Seq(S) /\ Len(SubSeq(p, 1, n)) = IF 1 <= n THEN n - 1 + 1 ELSE 0
      BY <2>1, SubSeqProperties
  <2> QED BY <2>1, <2>2
<1>4. SubSeq(p, 1, Len(p) - 1) \o <<p[Len(p)]>> = p
    BY <1>1, SubSeqRecursiveSecond, SubSeqFull
<1>5. <<x>> \in Seq(S) /\ Len(<<x>>) = 1
    OBVIOUS
<1>6. <<x>> \o f \in Seq(S) /\ Len(<<x>> \o f) = Len(f) + 1
    BY <1>5, ConcatProperties
<1> QED BY <1>3, <1>4, <1>6

(* To redo moves the first draft of the future back.                       *)
LEMMA RedoLine ==
    ASSUME NEW S, NEW p \in Seq(S), NEW x \in S, NEW f \in Seq(S), f # << >>
    PROVE  /\ Append(p, x) \in Seq(S) /\ Len(Append(p, x)) = Len(p) + 1
           /\ Tail(f) \in Seq(S) /\ Len(Tail(f)) = Len(f) - 1
           /\ Append(p, x) \o <<f[1]>> \o Tail(f) = p \o <<x>> \o f
<1>1. Len(f) \in Nat \ {0} /\ Len(f) \in 1..Len(f) /\ 1 \in 1..Len(f)
    BY EmptySeq
<1>2. f[1] \in S
    BY <1>1, ElementOfSeq
<1>3. Append(p, x) \in Seq(S) /\ Len(Append(p, x)) = Len(p) + 1 /\ Append(p, x) = p \o <<x>>
    BY AppendProperties, AppendIsConcat
<1>4. Tail(f) \in Seq(S) /\ Len(Tail(f)) = Len(f) - 1 /\ Tail(f) = SubSeq(f, 2, Len(f))
    BY <1>1, HeadTailProperties, TailIsSubSeq
<1>5. <<f[1]>> \o Tail(f) = f
    BY <1>1, <1>4, SubSeqRecursiveFirst, SubSeqFull
<1>6. <<f[1]>> \in Seq(S)
    BY <1>2
<1>7. Append(p, x) \o <<f[1]>> \o Tail(f) = Append(p, x) \o (<<f[1]>> \o Tail(f))
    BY <1>3, <1>4, <1>6, ConcatAssociative
<1> QED BY <1>3, <1>4, <1>5, <1>7

LEMMA CapPositive == Cap \in Nat \ {0}
BY DraftAssumption

(* What is left of the past when a draft is added.                         *)
Recent(p) == IF Len(p) < Cap THEN p ELSE SubSeq(p, Len(p) - Cap + 2, Len(p))

LEMMA RecentTyped ==
    ASSUME NEW S, NEW p \in Seq(S)
    PROVE  Recent(p) \in Seq(S) /\ Len(Recent(p)) < Cap
<1>1. Len(p) \in Nat /\ \A i \in 1..Len(p) : p[i] \in S
    BY LenProperties, ElementOfSeq
<1>2. CASE Len(p) < Cap
    BY <1>2 DEF Recent
<1>3. CASE Len(p) >= Cap
  <2>1. \A i \in (Len(p) - Cap + 2)..Len(p) : p[i] \in S
      BY <1>1, <1>3, CapPositive
  <2>2. /\ SubSeq(p, Len(p) - Cap + 2, Len(p)) \in Seq(S)
        /\ Len(SubSeq(p, Len(p) - Cap + 2, Len(p))) = Cap - 1
      BY <1>1, <1>3, <2>1, CapPositive, SubSeqProperties
  <2> QED BY <1>1, <1>3, <2>2, CapPositive DEF Recent
<1> QED BY <1>1, <1>2, <1>3, CapPositive

(* The last Cap drafts up to the one on the screen, as a part of the line. *)
LEMMA RecentLine ==
    ASSUME NEW S, NEW p \in Seq(S), NEW x \in S, NEW f \in Seq(S), NEW line,
           line = p \o <<x>> \o f
    PROVE  (IF Len(p) + 1 > Cap THEN SubSeq(line, Len(p) + 1 - Cap + 1, Len(p) + 1)
            ELSE SubSeq(line, 1, Len(p) + 1)) = Recent(p) \o <<x>>
<1>1. Len(p) \in Nat
    BY LenProperties
<1>2. p \o <<x>> \in Seq(S) /\ Len(p \o <<x>>) = Len(p) + 1
    BY LineTyped
<1>3. CASE Len(p) < Cap
  <2>1. SubSeq(line, 1, Len(p) + 1) = SubSeq(p \o <<x>>, 1, Len(p) + 1)
      BY <1>1, <1>2, SubSeqOfConcat1
  <2>2. SubSeq(line, 1, Len(p) + 1) = p \o <<x>>
      BY <1>2, <2>1, SubSeqFull
  <2> QED BY <1>1, <1>3, <2>2, CapPositive DEF Recent
<1>4. CASE Len(p) >= Cap
  <2>1. PICK m \in Int : m = Len(p) - Cap + 2 /\ m \in 2..(Len(p) + 1)
    <3>1. Len(p) - Cap + 2 \in Int
        BY <1>1, CapPositive
    <3>2. Len(p) - Cap + 2 >= 2 /\ Len(p) - Cap + 2 <= Len(p) + 1
        BY <1>1, <1>4, CapPositive
    <3> QED BY <1>1, <3>1, <3>2
  <2>2. SubSeq(line, m, Len(p) + 1) = SubSeq(p \o <<x>>, m, Len(p) + 1)
    <3>1. m \in 1..Len(p \o <<x>>) /\ Len(p) + 1 \in 1..Len(p \o <<x>>)
        BY <1>1, <1>2, <2>1
    <3> QED BY <1>2, <3>1, SubSeqOfConcat1
  <2>3. SubSeq(p \o <<x>>, m, Len(p) + 1)
            = SubSeq(p \o <<x>>, m, Len(p)) \o <<(p \o <<x>>)[Len(p) + 1]>>
    <3>1. m \in 1..Len(p \o <<x>>) /\ Len(p) + 1 \in m..Len(p \o <<x>>)
        BY <1>1, <1>2, <2>1
    <3>2. Len(p) + 1 - 1 = Len(p)
        BY <1>1
    <3> QED BY <1>2, <3>1, <3>2, SubSeqRecursiveSecond
  <2>4. (p \o <<x>>)[Len(p) + 1] = x
    <3>1. Append(p, x)[Len(p) + 1] = x /\ Append(p, x) = p \o <<x>>
        BY AppendProperties, AppendIsConcat
    <3> QED BY <3>1
  <2>5. SubSeq(p \o <<x>>, m, Len(p)) = SubSeq(p, m, Len(p))
    <3>1. CASE m <= Len(p)
      <4>1. <<x>> \in Seq(S) /\ m \in 1..Len(p) /\ Len(p) \in 1..Len(p)
          BY <1>1, <2>1, <3>1
      <4> QED BY <4>1, SubSeqOfConcat1
    <3>2. CASE m > Len(p)
      <4>1. SubSeq(p \o <<x>>, m, Len(p)) = << >> /\ SubSeq(p, m, Len(p)) = << >>
          BY <1>1, <2>1, <3>2, SubSeqEmpty
      <4> QED BY <4>1
    <3> QED BY <1>1, <2>1, <3>1, <3>2
  <2>6. Recent(p) = SubSeq(p, m, Len(p))
      BY <1>1, <1>4, <2>1, CapPositive DEF Recent
  <2>7. Len(p) + 1 > Cap /\ Len(p) + 1 - Cap + 1 = m
      BY <1>1, <1>4, <2>1, CapPositive
  <2> QED BY <2>2, <2>3, <2>4, <2>5, <2>6, <2>7
<1>5. Len(p) < Cap \/ Len(p) >= Cap
    BY <1>1, CapPositive
<1> QED BY <1>3, <1>4, <1>5
-----------------------------------------------------------------------------
(* The operations of the reducer.                                          *)
LEMMA CommonSet ==
    ASSUME NEW p, NEW f, NEW x, NEW y, IsSeq(p), IsSeq(f)
    PROVE  \E S : p \in Seq(S) /\ f \in Seq(S) /\ x \in S /\ y \in S
<1>1. PICK A : p \in Seq(A)
    BY DEF IsSeq
<1>2. PICK B : f \in Seq(B)
    BY DEF IsSeq
<1>3. PICK S : S = A \cup B \cup {x, y}
    OBVIOUS
<1>4. A \subseteq S /\ B \subseteq S /\ x \in S /\ y \in S
    BY <1>3
<1>5. p \in Seq(S) /\ f \in Seq(S)
    BY <1>1, <1>2, <1>4, SeqMonotonic
<1> QED BY <1>4, <1>5

LEMMA EachSeq ==
    ASSUME NEW p, NEW q, IsSeq(p), q = [n \in DOMAIN p |-> q[n]]
    PROVE  IsSeq(q) /\ Len(q) = Len(p)
<1>1. PICK S : p \in Seq(S)
    BY DEF IsSeq
<1>2. PICK n \in Nat : n = Len(p) /\ DOMAIN p = 1..n
    BY <1>1, LenProperties
<1>3. PICK T : T = {q[i] : i \in 1..n}
    OBVIOUS
<1>4. q \in [1..n -> T]
    BY <1>2, <1>3
<1>5. q \in Seq(T)
    BY <1>2, <1>4, SeqDef
<1>6. DOMAIN q = 1..Len(q) /\ Len(q) \in Nat /\ DOMAIN q = 1..n
    BY <1>4, <1>5, LenProperties
<1>7. Len(q) = n
    BY <1>6
<1> QED BY <1>2, <1>5, <1>7 DEF IsSeq

Promised == [Timeline!Next]_(Timeline!vars)

LEMMA SameKind ==
    ASSUME IInv, UNCHANGED history
    PROVE  IInv' /\ Promised
BY DEF history, IInv, IsSeq, HistoryCapped, Promised, Timeline!vars

LEMMA ChangeKind ==
    ASSUME IInv, NEW draft, Change(draft)
    PROVE  IInv' /\ Promised
<1>1. PICK S : past \in Seq(S) /\ future \in Seq(S) /\ present \in S /\ draft \in S
    BY CommonSet DEF IInv
<1>2. past' = Append(Recent(past), present) /\ present' = draft /\ future' = << >>
    BY DEF Change, Recent
<1>3. PICK kept : kept = Recent(past) \o <<present>>
    OBVIOUS
<1>4. Recent(past) \in Seq(S) /\ Len(Recent(past)) < Cap
    BY <1>1, RecentTyped
<1>5. past' = kept /\ kept \in Seq(S) /\ Len(kept) = Len(Recent(past)) + 1
    BY <1>1, <1>2, <1>3, <1>4, AppendProperties, AppendIsConcat
<1>6. /\ (past \o <<present>> \o future)' = kept \o <<draft>>
      /\ Len(kept \o <<draft>>) = Len(kept) + 1 /\ kept \o <<draft>> \in Seq(S)
  <2>1. kept \o <<draft>> \in Seq(S) /\ Len(kept \o <<draft>>) = Len(kept) + 1
      BY <1>1, <1>5, LineTyped
  <2>2. kept \o <<draft>> \o << >> = kept \o <<draft>>
      BY <2>1, ConcatEmptySeq
  <2> QED BY <1>2, <1>5, <2>1, <2>2
<1>7. SubSeq(kept \o <<draft>>, 1, Len(kept)) = kept
  <2>1. Len(kept) \in Nat /\ 1 \in 1..Len(kept) /\ Len(kept) \in 1..Len(kept)
      BY <1>4, <1>5, LenProperties
  <2>2. <<draft>> \in Seq(S)
      BY <1>1
  <2> QED BY <1>5, <2>1, <2>2, SubSeqOfConcat1, SubSeqFull
<1>8. Timeline!Kept = kept
  <2>1. (IF Len(past) + 1 > Cap
         THEN SubSeq(past \o <<present>> \o future, Len(past) + 1 - Cap + 1, Len(past) + 1)
         ELSE SubSeq(past \o <<present>> \o future, 1, Len(past) + 1)) = kept
      BY <1>1, <1>3, RecentLine, Zenon
  <2>2. Len(past) \in Nat
      BY <1>1, LenProperties
  <2> QED BY <2>1, <2>2, CapPositive DEF Timeline!Kept
<1>9. Timeline!Edit
    BY <1>5, <1>6, <1>7, <1>8 DEF Timeline!Edit
<1>10. IInv'
  <2>1. IsSeq(past') /\ IsSeq(future')
      BY <1>2, <1>5 DEF IsSeq
  <2>2. Len(past') + Len(future') <= Cap
      BY <1>2, <1>4, <1>5, EmptySeq, LenProperties, CapPositive
  <2> QED BY <2>1, <2>2 DEF IInv, HistoryCapped, IsSeq
<1> QED BY <1>9, <1>10 DEF Promised, Timeline!Next

LEMMA UndoKind ==
    ASSUME IInv, UndoItems
    PROVE  IInv' /\ Promised
<1>1. PICK S : past \in Seq(S) /\ future \in Seq(S) /\ present \in S
    BY CommonSet DEF IInv
<1>2. /\ past # << >> /\ past' = SubSeq(past, 1, Len(past) - 1)
      /\ present' = past[Len(past)] /\ future' = <<present>> \o future
    BY DEF UndoItems
<1>3. /\ past' \in Seq(S) /\ Len(past') = Len(past) - 1
      /\ future' \in Seq(S) /\ Len(future') = Len(future) + 1
      /\ past' \o <<present'>> \o future' = past \o <<present>> \o future
  <2>1. past \in Seq(S) /\ present \in S /\ future \in Seq(S) /\ past # << >>
      BY <1>1, <1>2
  <2>2. /\ past' \in Seq(S) /\ Len(past') = Len(past) - 1 /\ past' \o <<present'>> = past
        /\ future' \in Seq(S) /\ Len(future') = Len(future) + 1
      BY <1>2, <2>1, UndoLine
  <2>3. past \o future' = past \o <<present>> \o future
    <3>1. <<present>> \in Seq(S)
        BY <2>1
    <3> QED BY <1>2, <2>1, <3>1, ConcatAssociative
  <2> QED BY <2>2, <2>3
<1>4. Len(past) \in Nat \ {0} /\ Len(future) \in Nat
    BY <1>1, <1>2, EmptySeq, LenProperties
<1>5. Timeline!Undo
    BY <1>3, <1>4 DEF Timeline!Undo
<1>6. IInv'
    BY <1>3, <1>4 DEF IInv, IsSeq, HistoryCapped
<1> QED BY <1>5, <1>6 DEF Promised, Timeline!Next

LEMMA RedoKind ==
    ASSUME IInv, RedoItems
    PROVE  IInv' /\ Promised
<1>1. PICK S : past \in Seq(S) /\ future \in Seq(S) /\ present \in S
    BY CommonSet DEF IInv
<1>2. /\ future # << >> /\ past' = Append(past, present)
      /\ present' = future[1] /\ future' = Tail(future)
    BY DEF RedoItems
<1>3. /\ past' \in Seq(S) /\ Len(past') = Len(past) + 1
      /\ future' \in Seq(S) /\ Len(future') = Len(future) - 1
      /\ past' \o <<present'>> \o future' = past \o <<present>> \o future
    BY <1>1, <1>2, RedoLine
<1>4. Len(past) \in Nat /\ Len(future) \in Nat \ {0}
    BY <1>1, <1>2, EmptySeq, LenProperties
<1>5. Len(past \o <<present>> \o future) = Len(past) + 1 + Len(future)
    BY <1>1, LineTyped
<1>6. Timeline!Redo
    BY <1>3, <1>4, <1>5 DEF Timeline!Redo
<1>7. IInv'
    BY <1>3, <1>4 DEF IInv, IsSeq, HistoryCapped
<1> QED BY <1>6, <1>7 DEF Promised, Timeline!Next

LEMMA HydrateKind ==
    ASSUME IInv, NEW v, Hydrate(v)
    PROVE  IInv' /\ Promised
<1>1. past' = [n \in DOMAIN past |-> past'[n]] /\ future' = [n \in DOMAIN future |-> future'[n]]
    BY DEF Hydrate, Each
<1>2. /\ IsSeq(past') /\ Len(past') = Len(past)
      /\ IsSeq(future') /\ Len(future') = Len(future)
    BY <1>1, EachSeq DEF IInv
<1>3. PICK S : past \in Seq(S) /\ future \in Seq(S) /\ present \in S
    BY CommonSet DEF IInv
<1>4. PICK T : past' \in Seq(T) /\ future' \in Seq(T) /\ present' \in T
    BY <1>2, CommonSet
<1>5. /\ Len(past \o <<present>> \o future) = Len(past) + 1 + Len(future)
      /\ Len(past' \o <<present'>> \o future') = Len(past') + 1 + Len(future')
    BY <1>3, <1>4, LineTyped
<1>6. Timeline!Rewrite
    BY <1>2, <1>5 DEF Timeline!Rewrite
<1>7. IInv'
    BY <1>2 DEF IInv, IsSeq, HistoryCapped
<1> QED BY <1>6, <1>7 DEF Promised, Timeline!Next

LEMMA RestartKind ==
    ASSUME IInv, NEW draft, Restart(draft)
    PROVE  IInv' /\ Promised
<1>1. past' = << >> /\ present' = draft /\ future' = << >>
    BY DEF Restart
<1>2. << >> \in Seq({draft}) /\ Len(<< >>) = 0
    BY EmptySeq
<1>3. Len(<< >> \o <<draft>> \o << >>) = 1
    BY <1>2, LineTyped
<1>4. Timeline!Open
    BY <1>1, <1>2, <1>3 DEF Timeline!Open
<1>5. IInv'
    BY <1>1, <1>2, CapPositive DEF IInv, IsSeq, HistoryCapped
<1> QED BY <1>4, <1>5 DEF Promised, Timeline!Next

LEMMA KindsKept ==
    ASSUME IInv, Kinds
    PROVE  IInv' /\ Promised
BY SameKind, ChangeKind, UndoKind, RedoKind, HydrateKind, RestartKind DEF Kinds

LEMMA InitOK == Init => IInv /\ Timeline!Init
<1> SUFFICES ASSUME Init PROVE IInv /\ Timeline!Init
    OBVIOUS
<1>1. past = << >> /\ future = << >>
    BY DEF Init
<1>2. << >> \in Seq({present}) /\ Len(<< >>) = 0
    BY EmptySeq
<1>3. Len(<< >> \o <<present>> \o << >>) = 1
    BY <1>2, LineTyped
<1>4. Timeline!Init
    BY <1>1, <1>2, <1>3 DEF Timeline!Init
<1>5. IInv
    BY <1>1, <1>2, CapPositive DEF IInv, IsSeq, HistoryCapped
<1> QED BY <1>4, <1>5
-----------------------------------------------------------------------------
(* Past and future stay sequences that together hold at most Cap drafts.   *)
THEOREM Invariance == Spec => []IInv
<1>1. IInv /\ [Next]_vars => IInv'
    BY StepKind, KindsKept
<1>2. Init => IInv
    BY InitOK
<1> QED BY <1>1, <1>2, PTL DEF Spec

(* A session keeps at most Cap drafts besides the one on the screen, for   *)
(* any cap, any course data and whatever the handlers of App.tsx compute.  *)
THEOREM CapCorrect == Spec => []HistoryCapped
<1>1. IInv => HistoryCapped
    BY DEF IInv
<1> QED BY <1>1, Invariance, PTL

(* The past and future of draft.ts implement the line of drafts: undo and  *)
(* redo only move along it, and an edit loses no draft but the oldest one  *)
(* beyond the cap and what was undone.                                     *)
THEOREM TimelineCorrect == Spec => ImplementsTimeline
<1>1. IInv /\ [Next]_vars => [Timeline!Next]_(Timeline!vars)
    BY StepKind, KindsKept DEF Promised
<1>2. Init => Timeline!Init
    BY InitOK
<1> QED BY <1>1, <1>2, Invariance, PTL DEF Spec, ImplementsTimeline, Timeline!Spec
-----------------------------------------------------------------------------
(* Filtered lists: the places that are kept, in their order.               *)
LEMMA RankType ==
    ASSUME NEW S, IsFiniteSet(S), S \subseteq Nat, NEW k \in S
    PROVE  Rank(S, k) \in 1..Cardinality(S)
<1> DEFINE below == {m \in S : m <= k}
<1>1. below \in SUBSET S /\ k \in below
    OBVIOUS
<1>2. Rank(S, k) = Cardinality(below)
    BY DEF Rank
<1> HIDE DEF below
<1>3. IsFiniteSet(below) /\ Cardinality(below) <= Cardinality(S)
    BY <1>1, FS_Subset
<1>4. Cardinality(below) \in Nat /\ Cardinality(S) \in Nat /\ Cardinality(below) # 0
    BY <1>1, <1>3, FS_CardinalityType, FS_EmptySet
<1> QED BY <1>2, <1>3, <1>4

LEMMA RankGrows ==
    ASSUME NEW S, IsFiniteSet(S), S \subseteq Nat, NEW k \in S, NEW l \in S, k < l
    PROVE  Rank(S, k) # Rank(S, l)
<1> DEFINE upTo(n) == {m \in S : m <= n}
<1>1. upTo(k) \in SUBSET upTo(l) /\ upTo(l) \in SUBSET S
  <2>1. \A m \in S : m <= k => m <= l
      OBVIOUS
  <2> QED BY <2>1
<1>2. l \in upTo(l) /\ l \notin upTo(k)
    OBVIOUS
<1>3. Rank(S, k) = Cardinality(upTo(k)) /\ Rank(S, l) = Cardinality(upTo(l))
    BY DEF Rank
<1> HIDE DEF upTo
<1>4. IsFiniteSet(upTo(l))
    BY <1>1, FS_Subset
<1>5. Cardinality(upTo(k)) # Cardinality(upTo(l))
    BY <1>1, <1>2, <1>4, FS_Subset
<1> QED BY <1>3, <1>5

LEMMA RankReaches ==
    ASSUME NEW S, IsFiniteSet(S), S \subseteq Nat, NEW n \in 1..Cardinality(S)
    PROVE  \E k \in S : Rank(S, k) = n
<1> DEFINE size == Cardinality(S)
           rank == [k \in S |-> Rank(S, k)]
<1>1. size \in Nat
    BY FS_CardinalityType
<1>2. IsFiniteSet(1..size) /\ Cardinality(1..size) = size
  <2>1. 1 \in Int /\ size \in Int
      BY <1>1
  <2>2. IsFiniteSet(1..size) /\ Cardinality(1..size) = IF 1 > size THEN 0 ELSE size - 1 + 1
      BY <2>1, FS_Interval
  <2> QED BY <1>1, <2>2
<1>3. rank \in [S -> 1..size]
    BY RankType
<1>4. ASSUME NEW k \in S, NEW l \in S, k # l
      PROVE  rank[k] # rank[l]
  <2>1. k < l \/ l < k
      BY <1>4
  <2> QED BY <2>1, RankGrows
<1> HIDE DEF rank, size
<1>5. rank \in Injection(S, 1..size)
    BY <1>3, <1>4 DEF Injection, IsInjective
<1>6. rank \in Surjection(S, 1..size)
    BY <1>2, <1>5, FS_Injection DEF size
<1>7. PICK k \in S : rank[k] = n
    BY <1>6 DEF Surjection, size
<1> QED BY <1>7 DEF rank

LEMMA Ascends ==
    ASSUME NEW S, IsFiniteSet(S), S \subseteq Nat
    PROVE  /\ DOMAIN Ascending(S) = 1..Cardinality(S)
           /\ \A n \in 1..Cardinality(S) : Ascending(S)[n] \in S
           /\ \A m, n \in 1..Cardinality(S) : m # n => Ascending(S)[m] # Ascending(S)[n]
           /\ \A k \in S : \E n \in 1..Cardinality(S) : Ascending(S)[n] = k
<1>1. ASSUME NEW n \in 1..Cardinality(S)
      PROVE  Ascending(S)[n] \in S /\ Rank(S, Ascending(S)[n]) = n
  <2>1. \E k \in S : Rank(S, k) = n
      BY RankReaches
  <2>2. Ascending(S)[n] = CHOOSE k \in S : Rank(S, k) = n
      BY DEF Ascending
  <2> QED BY <2>1, <2>2
<1>2. ASSUME NEW m \in 1..Cardinality(S), NEW n \in 1..Cardinality(S), m # n
      PROVE  Ascending(S)[m] # Ascending(S)[n]
    BY <1>1, <1>2
<1>3. ASSUME NEW k \in S
      PROVE  \E n \in 1..Cardinality(S) : Ascending(S)[n] = k
  <2>1. Rank(S, k) \in 1..Cardinality(S)
      BY RankType
  <2>2. PICK l \in S : l = Ascending(S)[Rank(S, k)] /\ Rank(S, l) = Rank(S, k)
      BY <1>1, <2>1
  <2>3. l = k
    <3>1. CASE l < k
        BY <2>2, <3>1, RankGrows
    <3>2. CASE k < l
        BY <2>2, <3>2, RankGrows
    <3> QED BY <3>1, <3>2
  <2> QED BY <2>1, <2>2, <2>3
<1>4. DOMAIN Ascending(S) = 1..Cardinality(S)
    BY DEF Ascending
<1> QED BY <1>1, <1>2, <1>3, <1>4

(* The list of the items at some places of a list.                         *)
LEMMA AtPlaces ==
    ASSUME NEW T, NEW items \in Seq(T), NEW places \in SUBSET (DOMAIN items), NEW list,
           list = At(items, places)
    PROVE  /\ list \in Seq(T)
           /\ \A n \in DOMAIN list : Ascending(places)[n] \in places
                                     /\ list[n] = items[Ascending(places)[n]]
           /\ \A m, n \in DOMAIN list : m # n => Ascending(places)[m] # Ascending(places)[n]
           /\ \A k \in places : \E n \in DOMAIN list : list[n] = items[k]
<1>1. IsFiniteSet(places) /\ places \subseteq Nat
  <2>1. PICK size \in Nat : DOMAIN items = 1..size
      BY LenProperties
  <2>2. 1 \in Int /\ size \in Int
      BY <2>1
  <2>3. IsFiniteSet(1..size)
      BY <2>2, FS_Interval
  <2> QED BY <2>1, <2>3, FS_Subset
<1>2. Cardinality(places) \in Nat
    BY <1>1, FS_CardinalityType
<1>3. list = [n \in 1..Cardinality(places) |-> items[Ascending(places)[n]]]
    BY DEF At
<1>4. \A k \in DOMAIN items : items[k] \in T
    BY ElementOfSeq, LenProperties
<1>5. /\ \A n \in 1..Cardinality(places) : Ascending(places)[n] \in places
      /\ \A m, n \in 1..Cardinality(places) : m # n => Ascending(places)[m] # Ascending(places)[n]
      /\ \A k \in places : \E n \in 1..Cardinality(places) : Ascending(places)[n] = k
    BY <1>1, Ascends
<1>6. list \in [1..Cardinality(places) -> T]
    BY <1>3, <1>4, <1>5
<1>7. list \in Seq(T)
    BY <1>2, <1>6, SeqDef
<1> QED BY <1>3, <1>5, <1>7
-----------------------------------------------------------------------------
(* What DraftUsable needs of a list.                                       *)
Good(items, C) ==
    /\ \A n \in DOMAIN items : LocksFit(items[n])
    /\ \A m, n \in DOMAIN items : m # n =>
          items[m].section # items[n].section /\ Compatible(items[m], items[n], C)

LEMMA ItemTyped ==
    ASSUME NEW items \in Seq(Items), NEW n \in DOMAIN items
    PROVE  items[n] \in Items /\ items[n].section \in Ids(items) /\ items[n].section \in Sections
<1>1. items[n] \in Items
    BY ElementOfSeq, LenProperties
<1> QED BY <1>1 DEF Ids, Items

LEMMA FilterGood ==
    ASSUME NEW items \in Seq(Items), NEW places \in SUBSET (DOMAIN items), NEW list,
           list = At(items, places)
    PROVE  /\ list \in Seq(Items)
           /\ \A n \in DOMAIN list : \E k \in places : list[n] = items[k]
           /\ \A k \in places : \E n \in DOMAIN list : list[n] = items[k]
           /\ Ids(list) \subseteq Ids(items)
           /\ \A C : Good(items, C) => Good(list, C)
<1>1. /\ list \in Seq(Items)
      /\ \A n \in DOMAIN list : Ascending(places)[n] \in places
                                /\ list[n] = items[Ascending(places)[n]]
      /\ \A m, n \in DOMAIN list : m # n => Ascending(places)[m] # Ascending(places)[n]
      /\ \A k \in places : \E n \in DOMAIN list : list[n] = items[k]
    BY AtPlaces
<1>2. \A n \in DOMAIN list : \E k \in places : list[n] = items[k]
    BY <1>1
<1>3. Ids(list) \subseteq Ids(items)
    BY <1>2 DEF Ids
<1>4. ASSUME NEW C, Good(items, C)
      PROVE  Good(list, C)
  <2>1. \A n \in DOMAIN list : LocksFit(list[n])
      BY <1>1, <1>4 DEF Good
  <2>2. ASSUME NEW m \in DOMAIN list, NEW n \in DOMAIN list, m # n
        PROVE  list[m].section # list[n].section /\ Compatible(list[m], list[n], C)
    <3>1. PICK k \in places, l \in places : k # l /\ list[m] = items[k] /\ list[n] = items[l]
        BY <1>1, <2>2
    <3> QED BY <1>4, <3>1 DEF Good
  <2> QED BY <2>1, <2>2 DEF Good
<1> QED BY <1>1, <1>2, <1>3, <1>4

LEMMA MapTyped ==
    ASSUME NEW T, NEW U, NEW items \in Seq(T), NEW list, list = [n \in DOMAIN items |-> list[n]],
           \A n \in DOMAIN items : list[n] \in U
    PROVE  list \in Seq(U) /\ DOMAIN list = DOMAIN items
<1>1. PICK size \in Nat : DOMAIN items = 1..size
    BY LenProperties
<1>2. list \in [1..size -> U]
    BY <1>1
<1> QED BY <1>1, <1>2, SeqDef

LEMMA AppendGood ==
    ASSUME NEW items \in Seq(Items), NEW i \in Items, NEW list, list = Append(items, i)
    PROVE  /\ list \in Seq(Items)
           /\ Ids(list) \subseteq Ids(items) \cup {i.section}
           /\ \A C : /\ Good(items, C) /\ LocksFit(i)
                     /\ \A n \in DOMAIN items :
                           items[n].section # i.section /\ Compatible(items[n], i, C)
                     => Good(list, C)
<1>1. PICK size \in Nat : size = Len(items) /\ DOMAIN items = 1..size
    BY LenProperties
<1>2. /\ list \in Seq(Items) /\ DOMAIN list = 1..(size + 1)
      /\ \A n \in 1..size : list[n] = items[n]
      /\ list[size + 1] = i
  <2>1. Len(list) = size + 1 /\ list \in Seq(Items)
      BY <1>1, AppendProperties
  <2> QED BY <1>1, <2>1, AppendProperties, LenProperties
<1>3. \A n \in DOMAIN list : n \in 1..size \/ n = size + 1
    BY <1>1, <1>2
<1>4. Ids(list) \subseteq Ids(items) \cup {i.section}
    BY <1>1, <1>2, <1>3 DEF Ids
<1>5. ASSUME NEW C, Good(items, C), LocksFit(i),
             \A n \in DOMAIN items :
                items[n].section # i.section /\ Compatible(items[n], i, C)
      PROVE  Good(list, C)
  <2>1. \A n \in DOMAIN list : LocksFit(list[n])
      BY <1>1, <1>2, <1>3, <1>5 DEF Good
  <2>2. ASSUME NEW m \in DOMAIN list, NEW n \in DOMAIN list, m # n
        PROVE  list[m].section # list[n].section /\ Compatible(list[m], list[n], C)
    <3>1. CASE m \in 1..size /\ n \in 1..size
        BY <1>1, <1>2, <1>5, <2>2, <3>1 DEF Good
    <3>2. CASE m \in 1..size /\ n = size + 1
        BY <1>1, <1>2, <1>5, <3>2
    <3>3. CASE m = size + 1 /\ n \in 1..size
      <4>1. items[n].section # i.section /\ Compatible(items[n], i, C)
          BY <1>1, <1>5, <3>3
      <4> QED BY <1>1, <1>2, <3>3, <4>1 DEF Compatible
    <3> QED BY <1>3, <2>2, <3>1, <3>2, <3>3
  <2> QED BY <2>1, <2>2 DEF Good
<1> QED BY <1>2, <1>4, <1>5
-----------------------------------------------------------------------------
(* What the handlers make of a list; s is the section they are called with. *)
LEMMA NewItemTyped ==
    ASSUME NEW s \in Sections, NEW role \in Roles
    PROVE  /\ NewItem(s, role) \in Items /\ NewItem(s, role).section = s
           /\ NewItem(s, role).role = role /\ LocksFit(NewItem(s, role))
BY DEF NewItem, Items, LocksFit

LEMMA DemotedTyped ==
    ASSUME NEW i \in Items
    PROVE  /\ Demoted(i) \in Items /\ Demoted(i).section = i.section
           /\ Demoted(i).role = "backup" /\ LocksFit(Demoted(i))
BY DEF Demoted, NewItem, Items, Roles, LocksFit

(* A role for a section of the catalog.                                    *)
LEMMA RoleItems ==
    ASSUME NEW items \in Seq(Items), NEW s \in Sections, s \in catalog, NEW role \in Roles,
           NEW new, new = ItemsWithCourseRole(items, s, role)
    PROVE  /\ new \in Seq(Items) /\ Ids(new) \subseteq Ids(items) \cup {s}
           /\ Good(items, catalog) => Good(new, catalog)
<1> DEFINE outside == {n \in DOMAIN items : ~OfCourse(items[n], s)}
           allowed == {n \in DOMAIN items : ~(items[n].role = "exclude" /\ OfCourse(items[n], s))}
           other == At(items, outside)
           kept == At(items, allowed)
           Changed(i) ==
               IF i.section = s
               THEN [section |-> s, role |-> role, locked |-> IsActive(role) /\ i.locked,
                     professorLocked |-> IsActive(role) /\ i.professorLocked]
               ELSE IF IsActive(role) /\ OfCourse(i, s) /\ IsActive(i.role) THEN Demoted(i) ELSE i
           changed == [n \in DOMAIN kept |-> Changed(kept[n])]
           item == NewItem(s, role)
<1>1. new = IF role = "exclude" THEN Append(other, item)
            ELSE IF s \in Ids(kept) THEN changed ELSE Append(changed, item)
    BY DEF ItemsWithCourseRole, Filter, Where, Each
<1>2. /\ other \in Seq(Items) /\ Ids(other) \subseteq Ids(items)
      /\ Good(items, catalog) => Good(other, catalog)
      /\ \A n \in DOMAIN other : ~OfCourse(other[n], s)
    BY FilterGood
<1>3. /\ kept \in Seq(Items) /\ Ids(kept) \subseteq Ids(items)
      /\ Good(items, catalog) => Good(kept, catalog)
      /\ \A n \in DOMAIN kept : ~(kept[n].role = "exclude" /\ OfCourse(kept[n], s))
    BY FilterGood
<1>4. ASSUME NEW i \in Items, role # "exclude"
      PROVE  /\ Changed(i) \in Items /\ Changed(i).section = i.section
             /\ LocksFit(i) => LocksFit(Changed(i))
             /\ i.section = s => Changed(i).role = role
             /\ ~OfCourse(i, s) => Changed(i) = i
             /\ i.role # "exclude" => Changed(i).role # "exclude"
             /\ IsActive(role) /\ OfCourse(i, s) /\ i.section # s => ~IsActive(Changed(i).role)
             /\ ~IsActive(role) /\ i.section # s => Changed(i) = i
  <2>1. CASE i.section = s
      BY <1>4, <2>1 DEF Items, LocksFit, OfCourse
  <2>2. CASE i.section # s /\ IsActive(role) /\ OfCourse(i, s) /\ IsActive(i.role)
    <3>1. Changed(i) = Demoted(i)
        BY <2>2
    <3> QED BY <2>2, <3>1, DemotedTyped DEF IsActive
  <2>3. CASE i.section # s /\ ~(IsActive(role) /\ OfCourse(i, s) /\ IsActive(i.role))
      BY <2>3
  <2> QED BY <2>1, <2>2, <2>3
<1> HIDE DEF Changed, other, kept
<1>5. ASSUME role # "exclude"
      PROVE  /\ changed \in Seq(Items) /\ Ids(changed) = Ids(kept)
             /\ Good(items, catalog) => Good(changed, catalog)
             /\ \A n \in DOMAIN changed :
                   /\ OfCourse(changed[n], s) => changed[n].role # "exclude"
                   /\ IsActive(role) /\ OfCourse(changed[n], s) /\ changed[n].section # s
                        => ~IsActive(changed[n].role)
  <2>1. \A n \in DOMAIN kept : kept[n] \in Items /\ Changed(kept[n]) \in Items
      BY <1>3, <1>4, <1>5, ItemTyped
  <2>2. changed \in Seq(Items) /\ DOMAIN changed = DOMAIN kept
      BY <1>3, <2>1, MapTyped
  <2>3. \A n \in DOMAIN kept :
           /\ changed[n] = Changed(kept[n]) /\ changed[n].section = kept[n].section
           /\ OfCourse(changed[n], s) <=> OfCourse(kept[n], s)
      BY <1>4, <1>5, <2>1 DEF OfCourse
  <2>4. Ids(changed) = Ids(kept)
      BY <2>2, <2>3 DEF Ids
  <2>5. \A n \in DOMAIN changed :
           /\ OfCourse(changed[n], s) => changed[n].role # "exclude"
           /\ IsActive(role) /\ OfCourse(changed[n], s) /\ changed[n].section # s
                => ~IsActive(changed[n].role)
      BY <1>3, <1>4, <1>5, <2>1, <2>2, <2>3
  <2> HIDE DEF changed
  <2>6. ASSUME Good(items, catalog)
        PROVE  Good(changed, catalog)
    <3>1. Good(kept, catalog)
        BY <1>3, <2>6
    <3>2. \A n \in DOMAIN changed : LocksFit(changed[n])
        BY <1>4, <1>5, <2>1, <2>2, <2>3, <3>1 DEF Good
    <3>3. ASSUME NEW m \in DOMAIN changed, NEW n \in DOMAIN changed, m # n
          PROVE  changed[m].section # changed[n].section
                 /\ Compatible(changed[m], changed[n], catalog)
      <4>1. changed[m].section # changed[n].section /\ Compatible(kept[m], kept[n], catalog)
          BY <2>2, <2>3, <3>1, <3>3 DEF Good
      <4>2. CASE ~OfCourse(changed[m], s) /\ ~OfCourse(changed[n], s)
          BY <1>4, <1>5, <2>1, <2>2, <2>3, <4>1, <4>2
      <4>3. CASE OfCourse(changed[m], s) /\ OfCourse(changed[n], s)
        <5>1. changed[m].role # "exclude" /\ changed[n].role # "exclude"
            BY <2>5, <4>3
        <5>2. CASE IsActive(role)
          <6>1. ~(IsActive(changed[m].role) /\ IsActive(changed[n].role))
              BY <2>5, <4>1, <4>3, <5>2
          <6> QED BY <4>1, <5>1, <6>1 DEF Compatible
        <5>3. CASE ~IsActive(role) /\ changed[m].section # s /\ changed[n].section # s
            BY <1>4, <1>5, <2>1, <2>2, <2>3, <4>1, <5>3
        <5>4. CASE ~IsActive(role) /\ (changed[m].section = s \/ changed[n].section = s)
          <6>1. changed[m].role = role \/ changed[n].role = role
              BY <1>4, <1>5, <2>1, <2>2, <2>3, <5>4
          <6> QED BY <4>1, <5>1, <5>4, <6>1 DEF Compatible
        <5> QED BY <5>2, <5>3, <5>4
      <4>4. CASE OfCourse(changed[m], s) # OfCourse(changed[n], s)
          BY <4>1, <4>4 DEF Compatible, OfCourse
      <4> QED BY <4>1, <4>2, <4>3, <4>4 DEF OfCourse
    <3> QED BY <3>2, <3>3 DEF Good
  <2> QED BY <2>2, <2>4, <2>5, <2>6
<1>6. item \in Items /\ item.section = s /\ item.role = role /\ LocksFit(item)
    BY NewItemTyped
<1> HIDE DEF changed, item
<1>7. CASE role = "exclude"
  <2>1. new = Append(other, item)
      BY <1>1, <1>7
  <2>2. ASSUME Good(items, catalog)
        PROVE  Good(new, catalog)
    <3>1. \A n \in DOMAIN other : other[n].section # s /\ Compatible(other[n], item, catalog)
        BY <1>2, <1>6 DEF OfCourse, Compatible
    <3> QED BY <1>2, <1>6, <2>1, <2>2, <3>1, AppendGood
  <2> QED BY <1>2, <1>6, <2>1, <2>2, AppendGood
<1>8. CASE role # "exclude" /\ s \in Ids(kept)
    BY <1>1, <1>3, <1>5, <1>8
<1>9. CASE role # "exclude" /\ s \notin Ids(kept)
  <2>1. new = Append(changed, item)
      BY <1>1, <1>9
  <2>2. ASSUME Good(items, catalog)
        PROVE  Good(new, catalog)
    <3>1. \A n \in DOMAIN changed : changed[n].section # s
        BY <1>5, <1>9, ItemTyped
    <3>2. \A n \in DOMAIN changed : Compatible(changed[n], item, catalog)
        BY <1>5, <1>6, <1>9, <3>1 DEF OfCourse, Compatible
    <3> QED BY <1>5, <1>6, <1>9, <2>1, <2>2, <3>1, <3>2, AppendGood
  <2> QED BY <1>3, <1>5, <1>6, <1>9, <2>1, <2>2, AppendGood
<1> QED BY <1>7, <1>8, <1>9
-----------------------------------------------------------------------------
(* The first of some places.                                               *)
LEMMA FirstIsFirst ==
    ASSUME NEW S \in SUBSET Nat, S # {}
    PROVE  First(S) \in S /\ \A m \in S : First(S) <= m
<1> DEFINE R == OpToRel(<, Nat)
<1>1. IsWellFoundedOn(R, Nat)
    BY NatLessThanWellFounded
<1>2. \A k, l \in S : l < k => <<l, k>> \in R
    BY DEF OpToRel
<1> HIDE DEF R
<1>3. PICK k \in S : \A l \in S : ~(<<l, k>> \in R)
    BY <1>1, WFMin
<1>4. \A l \in S : ~(l < k)
    BY <1>2, <1>3, Zenon
<1>5. \E n \in S : \A m \in S : n <= m
    BY <1>4
<1> QED BY <1>5 DEF First

LEMMA FirstOfPlaces ==
    ASSUME NEW items, NEW T, items \in Seq(T), NEW places \in SUBSET (DOMAIN items), places # {}
    PROVE  First(places) \in places
<1>1. PICK size \in Nat : DOMAIN items = 1..size
    BY LenProperties
<1>2. places \in SUBSET Nat
    BY <1>1
<1> QED BY <1>2, FirstIsFirst

(* The item of one section is written again, for a section of its course   *)
(* that no other item has.                                                 *)
Rewritten(i, j, from, to) ==
    /\ i.section = from /\ j.section = to /\ (LocksFit(i) => LocksFit(j))
    /\ j.role = "exclude" => i.role = "exclude"
    /\ IsActive(j.role) => IsActive(i.role)

LEMMA RewriteGood ==
    ASSUME NEW items \in Seq(Items), NEW new \in Seq(Items), DOMAIN new = DOMAIN items,
           NEW from \in catalog, NEW to \in catalog, CourseOf[from] = CourseOf[to],
           from = to \/ to \notin Ids(items), Good(items, catalog),
           \A n \in DOMAIN items : new[n] = items[n] \/ Rewritten(items[n], new[n], from, to)
    PROVE  Good(new, catalog)
<1>1. \A n \in DOMAIN new : LocksFit(new[n])
    BY DEF Good, Rewritten
<1>2. ASSUME NEW m \in DOMAIN new, NEW n \in DOMAIN new, m # n
      PROVE  new[m].section # new[n].section /\ Compatible(new[m], new[n], catalog)
  <2>1. items[m].section # items[n].section /\ Compatible(items[m], items[n], catalog)
      BY <1>2 DEF Good
  <2>2. CASE new[m] = items[m] /\ new[n] = items[n]
      BY <2>1, <2>2
  <2>3. CASE Rewritten(items[m], new[m], from, to) /\ new[n] = items[n]
    <3>1. new[m].section # new[n].section
        BY <2>1, <2>3, ItemTyped DEF Rewritten
    <3> QED BY <2>1, <2>3, <3>1 DEF Rewritten, Compatible
  <2>4. CASE new[m] = items[m] /\ Rewritten(items[n], new[n], from, to)
    <3>1. new[m].section # new[n].section
        BY <2>1, <2>4, ItemTyped DEF Rewritten
    <3> QED BY <2>1, <2>4, <3>1 DEF Rewritten, Compatible
  <2>5. CASE Rewritten(items[m], new[m], from, to) /\ Rewritten(items[n], new[n], from, to)
      BY <2>1, <2>5 DEF Rewritten
  <2> QED BY <2>2, <2>3, <2>4, <2>5
<1> QED BY <1>1, <1>2 DEF Good

(* Another section of the course.                                          *)
Swapped(items, from, to) ==
    [n \in DOMAIN items |->
        IF items[n].section = from THEN [items[n] EXCEPT !.section = to] ELSE items[n]]

LEMMA SwappedItems ==
    ASSUME NEW items \in Seq(Items), NEW from \in Sections, NEW to \in Sections,
           from \in catalog, to \in catalog, CourseOf[from] = CourseOf[to], NEW new,
           new = Swapped(items, from, to)
    PROVE  /\ new \in Seq(Items) /\ Ids(new) \subseteq Ids(items) \cup {to}
           /\ Good(items, catalog) /\ to \notin Ids(items) => Good(new, catalog)
<1>1. \A n \in DOMAIN items : new[n] \in Items
    BY ItemTyped DEF Swapped, Items
<1>2. new \in Seq(Items) /\ DOMAIN new = DOMAIN items
  <2>1. new = [n \in DOMAIN items |-> new[n]]
      BY DEF Swapped
  <2> QED BY <1>1, <2>1, MapTyped
<1>3. \A n \in DOMAIN items : new[n] = items[n]
          \/ (new[n].section = to /\ Rewritten(items[n], new[n], from, to))
  <2>1. ASSUME NEW n \in DOMAIN items, items[n].section = from
        PROVE  new[n].section = to /\ Rewritten(items[n], new[n], from, to)
      BY <2>1, ItemTyped DEF Swapped, Items, Rewritten, LocksFit
  <2>2. \A n \in DOMAIN items : items[n].section # from => new[n] = items[n]
      BY DEF Swapped
  <2> QED BY <2>1, <2>2
<1>4. Ids(new) \subseteq Ids(items) \cup {to}
    BY <1>2, <1>3 DEF Ids
<1> QED BY <1>2, <1>3, <1>4, RewriteGood

(* Another lock on an active item.                                         *)
Adjusted(items, s, mode) ==
    [n \in DOMAIN items |-> IF items[n].section # s THEN items[n]
        ELSE [items[n] EXCEPT !.locked = mode = "SECTION", !.professorLocked = mode = "PROFESSOR"]]

LEMMA LockedItems ==
    ASSUME NEW items \in Seq(Items), NEW s \in Sections, s \in catalog, NEW mode, NEW new,
           new = Adjusted(items, s, mode)
    PROVE  /\ new \in Seq(Items) /\ Ids(new) \subseteq Ids(items)
           /\ /\ Good(items, catalog)
              /\ \A n \in DOMAIN items : items[n].section = s => IsActive(items[n].role)
              => Good(new, catalog)
<1>0. ASSUME NEW n \in DOMAIN items, items[n].section = s
      PROVE  \E a, b \in BOOLEAN : ~(a /\ b) /\ new[n] = [section |-> s, role |-> items[n].role,
                                                       locked |-> a, professorLocked |-> b]
  <2>1. items[n] \in Items
      BY ItemTyped
  <2>2. new[n] = [items[n] EXCEPT !.locked = mode = "SECTION", !.professorLocked = mode = "PROFESSOR"]
      BY <1>0 DEF Adjusted
  <2>3. CASE mode = "SECTION"
    <3>1. new[n] = [items[n] EXCEPT !.locked = TRUE, !.professorLocked = FALSE]
        BY <2>2, <2>3
    <3>2. new[n] = [section |-> s, role |-> items[n].role, locked |-> TRUE, professorLocked |-> FALSE]
        BY <1>0, <2>1, <3>1 DEF Items
    <3> QED BY <3>2
  <2>4. CASE mode = "PROFESSOR"
    <3>1. new[n] = [items[n] EXCEPT !.locked = FALSE, !.professorLocked = TRUE]
        BY <2>2, <2>4
    <3>2. new[n] = [section |-> s, role |-> items[n].role, locked |-> FALSE, professorLocked |-> TRUE]
        BY <1>0, <2>1, <3>1 DEF Items
    <3> QED BY <3>2
  <2>5. CASE mode # "SECTION" /\ mode # "PROFESSOR"
    <3>1. new[n] = [items[n] EXCEPT !.locked = FALSE, !.professorLocked = FALSE]
        BY <2>2, <2>5
    <3>2. new[n] = [section |-> s, role |-> items[n].role, locked |-> FALSE, professorLocked |-> FALSE]
        BY <1>0, <2>1, <3>1 DEF Items
    <3> QED BY <3>2
  <2> QED BY <2>3, <2>4, <2>5
<1>5. DOMAIN new = DOMAIN items /\ new = [n \in DOMAIN items |-> new[n]]
      /\ \A n \in DOMAIN items : items[n].section # s => new[n] = items[n]
    BY DEF Adjusted
<1>1. \A n \in DOMAIN items : new[n] \in Items /\ new[n].section = items[n].section
  <2>1. ASSUME NEW n \in DOMAIN items
        PROVE  new[n] \in Items /\ new[n].section = items[n].section
    <3>1. CASE items[n].section = s
      <4>1. PICK a \in BOOLEAN, b \in BOOLEAN :
                new[n] = [section |-> s, role |-> items[n].role, locked |-> a, professorLocked |-> b]
          BY <1>0, <3>1
      <4>2. items[n].role \in Roles
          BY ItemTyped DEF Items
      <4> QED BY <3>1, <4>1, <4>2 DEF Items
    <3>2. CASE items[n].section # s
        BY <1>5, <3>2, ItemTyped
    <3> QED BY <3>1, <3>2
  <2> QED BY <2>1
<1>2. new \in Seq(Items) /\ DOMAIN new = DOMAIN items
    BY <1>1, <1>5, MapTyped
<1>3. Ids(new) \subseteq Ids(items)
    BY <1>1, <1>2 DEF Ids
<1>4. ASSUME NEW n \in DOMAIN items, items[n].section = s, IsActive(items[n].role)
      PROVE  Rewritten(items[n], new[n], s, s)
  <2>1. PICK a \in BOOLEAN, b \in BOOLEAN :
            ~(a /\ b) /\ new[n] = [section |-> s, role |-> items[n].role,
                                 locked |-> a, professorLocked |-> b]
      BY <1>0, <1>4
  <2> QED BY <1>4, <2>1 DEF Rewritten, LocksFit
<1>6. ASSUME Good(items, catalog),
             \A n \in DOMAIN items : items[n].section = s => IsActive(items[n].role)
      PROVE  Good(new, catalog)
    BY <1>2, <1>4, <1>5, <1>6, RewriteGood
<1> QED BY <1>2, <1>3, <1>6

(* A backup takes the place of the active section of its course.           *)
LEMMA BackupItems ==
    ASSUME NEW items \in Seq(Items), NEW s \in Sections, s \in catalog, NEW new,
           new = ItemsWithAppliedBackup(items, s)
    PROVE  /\ new \in Seq(Items) /\ Ids(new) \subseteq Ids(items) \cup {s}
           /\ /\ Good(items, catalog)
              /\ \E n \in DOMAIN items : items[n].role = "backup" /\ items[n].section = s
              => Good(new, catalog)
<1> DEFINE places == {n \in DOMAIN items :
                items[n].section # s /\ OfCourse(items[n], s) /\ IsActive(items[n].role)}
           active == IF places = {} THEN NewItem(None, "want") ELSE items[First(places)]
           Changed(i) == IF i.section = s
                         THEN [i EXCEPT !.role = active.role, !.locked = active.locked,
                                        !.professorLocked = active.professorLocked]
                         ELSE IF i.section = active.section THEN Demoted(i) ELSE i
<1>1. new = [n \in DOMAIN items |-> Changed(items[n])]
    BY DEF ItemsWithAppliedBackup, Where, Each
<1>2. places # {} => First(places) \in places
    BY FirstOfPlaces
<1>3. /\ active.locked \in BOOLEAN /\ active.professorLocked \in BOOLEAN
      /\ active.role \in Roles /\ IsActive(active.role)
  <2>1. CASE places = {}
    <3>1. active = [section |-> None, role |-> "want", locked |-> FALSE, professorLocked |-> FALSE]
        BY <2>1 DEF NewItem
    <3> HIDE DEF active
    <3> QED BY <3>1 DEF Roles, IsActive
  <2>2. CASE places # {}
    <3>1. PICK k \in DOMAIN items : active = items[k] /\ IsActive(items[k].role)
        BY <1>2, <2>2
    <3>2. active \in Items
        BY <3>1, ItemTyped
    <3> QED BY <3>1, <3>2 DEF Items
  <2> QED BY <2>1, <2>2
<1>4. ASSUME NEW i \in Items
      PROVE  /\ Changed(i) \in Items /\ Changed(i).section = i.section
             /\ i.section = s => /\ Changed(i).role = active.role
                                 /\ LocksFit(active) => LocksFit(Changed(i))
  <2>1. CASE i.section = s
    <3>1. PICK j : j = Changed(i) /\ j = [i EXCEPT !.role = active.role, !.locked = active.locked,
                                                   !.professorLocked = active.professorLocked]
        BY <2>1
    <3>2. /\ j \in Items /\ j.section = i.section /\ j.role = active.role
          /\ j.locked = active.locked /\ j.professorLocked = active.professorLocked
      <4> HIDE DEF active
      <4> QED BY <1>3, <3>1 DEF Items
    <3> HIDE DEF Changed, active
    <3> QED BY <2>1, <3>1, <3>2 DEF LocksFit
  <2>2. CASE i.section # s
      BY <2>2, DemotedTyped
  <2> QED BY <2>1, <2>2
<1>5. \A n \in DOMAIN items :
          /\ items[n] \in Items /\ new[n] \in Items /\ new[n].section = items[n].section
          /\ items[n].section = s => /\ new[n].role = active.role
                                     /\ LocksFit(active) => LocksFit(new[n])
          /\ items[n].section # s /\ items[n].section = active.section
                => new[n] = Demoted(items[n])
          /\ items[n].section # s /\ items[n].section # active.section => new[n] = items[n]
  <2>1. ASSUME NEW n \in DOMAIN items
        PROVE  /\ items[n] \in Items /\ new[n] = Changed(items[n])
               /\ items[n].section # s /\ items[n].section = active.section
                     => new[n] = Demoted(items[n])
               /\ items[n].section # s /\ items[n].section # active.section => new[n] = items[n]
    <3>1. items[n] \in Items /\ new[n] = Changed(items[n])
        BY <1>1, ItemTyped
    <3>2. CASE items[n].section # s
        BY <3>1, <3>2, Zenon
    <3> QED BY <3>1, <3>2
  <2> HIDE DEF Changed, active
  <2>2. ASSUME NEW n \in DOMAIN items
        PROVE  /\ new[n] \in Items /\ new[n].section = items[n].section
               /\ items[n].section = s => /\ new[n].role = active.role
                                          /\ LocksFit(active) => LocksFit(new[n])
      BY <1>4, <2>1, Zenon
  <2> QED BY <2>1, <2>2
<1>7. new = [n \in DOMAIN items |-> new[n]]
    BY <1>1
<1>8. /\ places = {} => active.section = None /\ active.locked = FALSE
                         /\ active.professorLocked = FALSE
      /\ places # {} => active = items[First(places)]
    BY DEF NewItem
<1> HIDE DEF Changed, active
<1>6. new \in Seq(Items) /\ DOMAIN new = DOMAIN items
    BY <1>5, <1>7, MapTyped
<1>9. Ids(new) \subseteq Ids(items) \cup {s}
    BY <1>5, <1>6 DEF Ids
<1>10. ASSUME Good(items, catalog), NEW b \in DOMAIN items,
             items[b].role = "backup", items[b].section = s
      PROVE  Good(new, catalog)
  <2>1. \A m, n \in DOMAIN items : m # n =>
            items[m].section # items[n].section /\ Compatible(items[m], items[n], catalog)
      BY <1>10 DEF Good
  <2>2. LocksFit(active)
      BY <1>2, <1>10, <1>8 DEF Good, LocksFit
  <2>3. \A n \in DOMAIN new : LocksFit(new[n])
    <3>1. ASSUME NEW n \in DOMAIN items
          PROVE  LocksFit(new[n])
      <4>1. items[n] \in Items /\ LocksFit(items[n]) /\ LocksFit(Demoted(items[n]))
          BY <1>10, ItemTyped, DemotedTyped DEF Good
      <4> QED BY <1>5, <2>2, <4>1, Zenon
    <3> QED BY <1>6, <3>1
  <2>4. ASSUME NEW n \in DOMAIN items, OfCourse(items[n], s)
        PROVE  /\ new[n].role # "exclude"
               /\ items[n].section # s => ~IsActive(new[n].role)
    <3>1. items[n].role # "exclude"
        BY <1>10, <2>1, <2>4 DEF OfCourse, Compatible
    <3>2. CASE items[n].section = s
        BY <1>3, <1>5, <3>2 DEF IsActive
    <3>3. CASE items[n].section # s /\ ~IsActive(items[n].role)
      <4>1. Demoted(items[n]).role = "backup"
          BY ItemTyped, DemotedTyped
      <4>2. new[n] = items[n] \/ new[n] = Demoted(items[n])
          BY <1>5, <3>3
      <4> QED BY <3>1, <3>3, <4>1, <4>2 DEF IsActive
    <3>4. CASE items[n].section # s /\ IsActive(items[n].role)
      <4>1. n \in places /\ First(places) \in places
          BY <1>2, <2>4, <3>4
      <4>2. First(places) = n
          BY <2>1, <2>4, <3>4, <4>1 DEF OfCourse, Compatible
      <4>3. new[n] = Demoted(items[n])
          BY <1>5, <1>8, <3>4, <4>1, <4>2
      <4>4. items[n] \in Items
          BY ItemTyped
      <4> QED BY <4>3, <4>4, DemotedTyped DEF IsActive
    <3> QED BY <3>2, <3>3, <3>4
  <2>5. ASSUME NEW n \in DOMAIN items, ~OfCourse(items[n], s)
        PROVE  new[n] = items[n]
    <3>1. items[n].section # s
        BY <2>5 DEF OfCourse
    <3>2. items[n].section # active.section
      <4>1. CASE places = {}
          BY <1>8, <4>1, ItemTyped, DraftAssumption
      <4>2. CASE places # {}
        <5>1. active = items[First(places)] /\ OfCourse(items[First(places)], s)
            BY <1>2, <1>8, <4>2
        <5> QED BY <2>5, <5>1 DEF OfCourse
      <4> QED BY <4>1, <4>2
    <3> QED BY <1>5, <3>1, <3>2
  <2> HIDE DEF places
  <2>6. ASSUME NEW m \in DOMAIN items, NEW n \in DOMAIN items, m # n
        PROVE  new[m].section # new[n].section /\ Compatible(new[m], new[n], catalog)
    <3>1. new[m].section # new[n].section
        BY <1>5, <2>1, <2>6
    <3>2. CASE ~OfCourse(items[m], s) /\ ~OfCourse(items[n], s)
        BY <2>1, <2>5, <2>6, <3>1, <3>2
    <3>3. CASE OfCourse(items[m], s) /\ OfCourse(items[n], s)
        BY <1>5, <2>4, <3>1, <3>3 DEF Compatible
    <3>4. CASE OfCourse(items[m], s) # OfCourse(items[n], s)
        BY <1>5, <3>4 DEF Compatible, OfCourse
    <3> QED BY <3>1, <3>2, <3>3, <3>4 DEF OfCourse
  <2> QED BY <1>6, <2>3, <2>6 DEF Good
<1> QED BY <1>6, <1>9, <1>10

(* The active section of a course is replaced.                             *)
ReplacedItems(items, same, s, role) ==
    [n \in DOMAIN items |->
        IF items[n].section # same.section THEN items[n]
        ELSE [items[n] EXCEPT !.section = s,
                 !.role = IF "must" \in {role, items[n].role} THEN "must" ELSE items[n].role,
                 !.professorLocked = @ /\ ProfessorOf[same.section] = ProfessorOf[s]]]

LEMMA ReplacedGood ==
    ASSUME NEW items \in Seq(Items), NEW s \in Sections, s \in catalog, NEW k \in DOMAIN items,
           OfCourse(items[k], s), IsActive(items[k].role), NEW role, NEW new,
           new = ReplacedItems(items, items[k], s, role)
    PROVE  /\ new \in Seq(Items) /\ Ids(new) \subseteq Ids(items) \cup {s}
           /\ Good(items, catalog) /\ (s \notin Ids(items) \/ items[k].section = s)
                => Good(new, catalog)
<1>1. ASSUME NEW n \in DOMAIN items, items[n].section = items[k].section
      PROVE  \E r \in Roles, b \in BOOLEAN :
                /\ r = items[n].role \/ r = "must"
                /\ b => items[n].professorLocked
                /\ new[n] = [section |-> s, role |-> r, locked |-> items[n].locked,
                             professorLocked |-> b]
  <2>1. items[n] \in Items
      BY ItemTyped
  <2>2. PICK r \in Roles : /\ r = items[n].role \/ r = "must"
                           /\ r = IF "must" \in {role, items[n].role} THEN "must" ELSE items[n].role
      BY <2>1 DEF Items, Roles
  <2>3. new[n] = [items[n] EXCEPT !.section = s, !.role = r,
                     !.professorLocked = @ /\ ProfessorOf[items[k].section] = ProfessorOf[s]]
      BY <1>1, <2>2 DEF ReplacedItems
  <2>4. CASE ProfessorOf[items[k].section] = ProfessorOf[s]
    <3>1. new[n] = [items[n] EXCEPT !.section = s, !.role = r]
        BY <2>1, <2>3, <2>4 DEF Items
    <3>2. new[n] = [section |-> s, role |-> r, locked |-> items[n].locked,
                    professorLocked |-> items[n].professorLocked]
        BY <2>1, <3>1 DEF Items
    <3> QED BY <2>1, <2>2, <3>2 DEF Items
  <2>5. CASE ProfessorOf[items[k].section] # ProfessorOf[s]
    <3>1. new[n] = [items[n] EXCEPT !.section = s, !.role = r, !.professorLocked = FALSE]
        BY <2>1, <2>3, <2>5 DEF Items
    <3>2. new[n] = [section |-> s, role |-> r, locked |-> items[n].locked,
                    professorLocked |-> FALSE]
        BY <2>1, <3>1 DEF Items
    <3> QED BY <2>2, <3>2
  <2> QED BY <2>4, <2>5
<1>2. DOMAIN new = DOMAIN items /\ new = [n \in DOMAIN items |-> new[n]]
      /\ \A n \in DOMAIN items : items[n].section # items[k].section => new[n] = items[n]
    BY DEF ReplacedItems
<1>3. ASSUME NEW n \in DOMAIN items
      PROVE  new[n] \in Items /\ new[n].section \in {items[n].section, s}
  <2>1. CASE items[n].section = items[k].section
    <3>1. PICK r \in Roles, b \in BOOLEAN :
              new[n] = [section |-> s, role |-> r, locked |-> items[n].locked, professorLocked |-> b]
        BY <1>1, <2>1
    <3>2. items[n].locked \in BOOLEAN
        BY ItemTyped DEF Items
    <3> QED BY <3>1, <3>2 DEF Items
  <2>2. CASE items[n].section # items[k].section
      BY <1>2, <2>2, ItemTyped
  <2> QED BY <2>1, <2>2
<1>4. new \in Seq(Items)
    BY <1>2, <1>3, MapTyped
<1>5. Ids(new) \subseteq Ids(items) \cup {s}
    BY <1>2, <1>3 DEF Ids
<1>6. ASSUME Good(items, catalog), s \notin Ids(items) \/ items[k].section = s
      PROVE  Good(new, catalog)
  <2>1. ASSUME NEW n \in DOMAIN items, items[n].section = items[k].section
        PROVE  Rewritten(items[n], new[n], items[k].section, s)
    <3>1. n = k
        BY <1>6, <2>1 DEF Good
    <3>2. PICK r \in Roles, b \in BOOLEAN :
              /\ r = items[n].role \/ r = "must"
              /\ b => items[n].professorLocked
              /\ new[n] = [section |-> s, role |-> r, locked |-> items[n].locked,
                           professorLocked |-> b]
        BY <1>1, <2>1
    <3>3. IsActive(r) /\ r # "exclude" /\ IsActive(items[n].role)
        BY <3>1, <3>2 DEF IsActive
    <3> QED BY <2>1, <3>2, <3>3 DEF Rewritten, LocksFit
  <2>2. items[k].section \in catalog /\ CourseOf[items[k].section] = CourseOf[s]
      BY DEF OfCourse
  <2> QED BY <1>2, <1>4, <1>6, <2>1, <2>2, RewriteGood
<1> QED BY <1>4, <1>5, <1>6

(* A list of the items of two lists.                                       *)
Joins(new, a, b) ==
    /\ \A n \in DOMAIN a : \E k \in DOMAIN new : new[k] = a[n]
    /\ \A n \in DOMAIN b : \E k \in DOMAIN new : new[k] = b[n]
    /\ \A k \in DOMAIN new : \/ \E n \in DOMAIN a : new[k] = a[n]
                             \/ \E n \in DOMAIN b : new[k] = b[n]

LEMMA ConcatGood ==
    ASSUME NEW a \in Seq(Items), NEW b \in Seq(Items), NEW new, new = a \o b
    PROVE  /\ new \in Seq(Items) /\ Ids(new) \subseteq Ids(a) \cup Ids(b)
           /\ Joins(new, a, b)
           /\ \A C : /\ Good(a, C) /\ Good(b, C)
                     /\ \A m \in DOMAIN a, n \in DOMAIN b :
                           a[m].section # b[n].section /\ Compatible(a[m], b[n], C)
                     => Good(new, C)
<1>1. PICK p \in Nat, q \in Nat : /\ p = Len(a) /\ q = Len(b)
                                  /\ DOMAIN a = 1..p /\ DOMAIN b = 1..q
    BY LenProperties
<1>2. /\ new \in Seq(Items) /\ Len(new) = p + q
      /\ \A k \in 1..(p + q) : new[k] = IF k <= p THEN a[k] ELSE b[k - p]
    BY <1>1, ConcatProperties
<1>3. DOMAIN new = 1..(p + q)
    BY <1>2, LenProperties
<1>4. ASSUME NEW k \in DOMAIN new
      PROVE  \/ k \in DOMAIN a /\ new[k] = a[k]
             \/ k - p \in DOMAIN b /\ new[k] = b[k - p] /\ k > p
    BY <1>1, <1>2, <1>3
<1>5. \A n \in DOMAIN a : n \in DOMAIN new /\ new[n] = a[n]
    BY <1>1, <1>2, <1>3
<1>6. ASSUME NEW n \in DOMAIN b
      PROVE  n + p \in DOMAIN new /\ new[n + p] = b[n]
  <2>1. n + p \in 1..(p + q) /\ ~(n + p <= p) /\ n + p - p = n
      BY <1>1
  <2> QED BY <1>2, <1>3, <2>1
<1>7. Ids(new) \subseteq Ids(a) \cup Ids(b)
    BY <1>4 DEF Ids
<1>8. ASSUME NEW C, Good(a, C), Good(b, C),
             \A m \in DOMAIN a, n \in DOMAIN b :
                a[m].section # b[n].section /\ Compatible(a[m], b[n], C)
      PROVE  Good(new, C)
  <2>1. \A k \in DOMAIN new : LocksFit(new[k])
      BY <1>4, <1>8 DEF Good
  <2>2. ASSUME NEW k \in DOMAIN new, NEW l \in DOMAIN new, k # l
        PROVE  new[k].section # new[l].section /\ Compatible(new[k], new[l], C)
    <3>1. CASE k \in DOMAIN a /\ new[k] = a[k] /\ l \in DOMAIN a /\ new[l] = a[l]
        BY <1>8, <2>2, <3>1 DEF Good
    <3>2. CASE k - p \in DOMAIN b /\ new[k] = b[k - p] /\ l - p \in DOMAIN b /\ new[l] = b[l - p]
      <4>1. k - p # l - p
          BY <1>1, <1>3, <2>2
      <4> QED BY <1>8, <3>2, <4>1 DEF Good
    <3>3. CASE k \in DOMAIN a /\ new[k] = a[k] /\ l - p \in DOMAIN b /\ new[l] = b[l - p]
        BY <1>8, <3>3
    <3>4. CASE l \in DOMAIN a /\ new[l] = a[l] /\ k - p \in DOMAIN b /\ new[k] = b[k - p]
      <4>1. new[l].section # new[k].section /\ Compatible(new[l], new[k], C)
          BY <1>8, <3>4
      <4> QED BY <4>1 DEF Compatible
    <3> QED BY <1>4, <3>1, <3>2, <3>3, <3>4
  <2> QED BY <2>1, <2>2 DEF Good
<1>9. Joins(new, a, b)
    BY <1>4, <1>5, <1>6 DEF Joins
<1> QED BY <1>2, <1>7, <1>8, <1>9
-----------------------------------------------------------------------------
(* The items for a candidate keep what the draft asks for.                 *)
LEMMA OnlyPlace ==
    ASSUME NEW k \in Nat
    PROVE  LastOf({k}) = k
BY DEF LastOf

PlanKeeps(items, ids, plan) ==
    \A n \in DOMAIN ids :
       /\ LocksFit(plan[n])
       /\ \A k \in DOMAIN items :
             /\ items[k].role = "must" /\ OfCourse(items[k], ids[n]) => plan[n].role = "must"
             /\ items[k].section = ids[n] => plan[n].locked = items[k].locked
             /\ items[k].professorLocked /\ OfCourse(items[k], ids[n])
                    /\ ProfessorOf[items[k].section] = ProfessorOf[ids[n]]
                    /\ ProfessorOf[items[k].section] # None
                  => plan[n].professorLocked

LEMMA PlanItems ==
    ASSUME NEW items \in Seq(Items), NEW ids \in Seq(Sections), NEW plan,
           \A n \in DOMAIN ids : ids[n] \in catalog,
           plan = PlanItemsForCandidate(ids, items)
    PROVE  /\ plan \in Seq(Items) /\ DOMAIN plan = DOMAIN ids
           /\ \A n \in DOMAIN ids : plan[n].section = ids[n] /\ IsActive(plan[n].role)
           /\ Good(items, catalog) => PlanKeeps(items, ids, plan)
<1> DEFINE must == {CourseOf[i.section] : i \in {items[n] : n \in
                       {m \in DOMAIN items : items[m].role = "must" /\ items[m].section \in catalog}}}
           Holders(s) == {m \in DOMAIN items : items[m].section = s}
           Lockers(s) == {m \in DOMAIN items : items[m].professorLocked /\ OfCourse(items[m], s)
                                               /\ ProfessorOf[items[m].section] # None}
           role(s) == IF s \in catalog /\ CourseOf[s] \in must THEN "must" ELSE "want"
           locked(s) == Holders(s) # {} /\ items[LastOf(Holders(s))].locked
           professorLocked(s) == s \in catalog /\ Lockers(s) # {}
               /\ ProfessorOf[items[LastOf(Lockers(s))].section] = ProfessorOf[s]
<1>1. plan = [n \in DOMAIN ids |-> [section |-> ids[n], role |-> role(ids[n]),
                 locked |-> locked(ids[n]), professorLocked |-> professorLocked(ids[n])]]
    BY DEF PlanItemsForCandidate, Where
<1>2. PICK size \in Nat : DOMAIN items = 1..size
    BY LenProperties
<1>3. ASSUME NEW n \in DOMAIN ids
      PROVE  /\ role(ids[n]) \in {"must", "want"}
             /\ locked(ids[n]) \in BOOLEAN /\ professorLocked(ids[n]) \in BOOLEAN
             /\ ids[n] \in Sections /\ ids[n] \in catalog
    BY ElementOfSeq, LenProperties
<1> HIDE DEF role, locked, professorLocked
<1>4. ASSUME NEW n \in DOMAIN ids
      PROVE  /\ plan[n].section = ids[n] /\ plan[n].role = role(ids[n])
             /\ plan[n].locked = locked(ids[n]) /\ plan[n].professorLocked = professorLocked(ids[n])
             /\ plan[n] \in Items
  <2>1. plan[n] = [section |-> ids[n], role |-> role(ids[n]), locked |-> locked(ids[n]),
                   professorLocked |-> professorLocked(ids[n])]
      BY <1>1
  <2> QED BY <1>3, <2>1 DEF Items, Roles
<1>5. plan \in Seq(Items) /\ DOMAIN plan = DOMAIN ids
  <2>1. plan = [n \in DOMAIN ids |-> plan[n]]
      BY <1>1
  <2> QED BY <1>4, <2>1, MapTyped
<1>6. \A n \in DOMAIN ids : plan[n].section = ids[n] /\ IsActive(plan[n].role)
    BY <1>3, <1>4 DEF IsActive
<1>7. ASSUME Good(items, catalog), NEW n \in DOMAIN ids
      PROVE  /\ LocksFit(plan[n])
             /\ \A k \in DOMAIN items :
                   /\ items[k].role = "must" /\ OfCourse(items[k], ids[n])
                        => plan[n].role = "must"
                   /\ items[k].section = ids[n] => plan[n].locked = items[k].locked
                   /\ items[k].professorLocked /\ OfCourse(items[k], ids[n])
                          /\ ProfessorOf[items[k].section] = ProfessorOf[ids[n]]
                          /\ ProfessorOf[items[k].section] # None
                        => plan[n].professorLocked
  <2>1. PICK s \in Sections : s = ids[n] /\ s \in catalog
      BY <1>3, <1>7
  <2>2. \A k, l \in DOMAIN items : k # l =>
            items[k].section # items[l].section /\ Compatible(items[k], items[l], catalog)
      BY <1>7 DEF Good
  <2>3. ASSUME NEW k \in DOMAIN items, items[k].section = s
        PROVE  Holders(s) = {k} /\ LastOf(Holders(s)) = k
    <3>1. Holders(s) = {k}
        BY <2>2, <2>3
    <3> QED BY <1>2, <3>1, OnlyPlace
  <2>4. ASSUME NEW k \in Lockers(s)
        PROVE  Lockers(s) = {k} /\ LastOf(Lockers(s)) = k
    <3>1. \A l \in Lockers(s) : IsActive(items[l].role) /\ OfCourse(items[l], s)
        BY <1>7 DEF Good, LocksFit
    <3>2. Lockers(s) = {k}
        BY <2>2, <2>4, <3>1 DEF OfCourse, Compatible
    <3> QED BY <1>2, <3>2, OnlyPlace
  <2>5. \A k \in DOMAIN items :
            items[k].role = "must" /\ OfCourse(items[k], s) => plan[n].role = "must"
    <3>1. ASSUME NEW k \in DOMAIN items, items[k].role = "must", OfCourse(items[k], s)
          PROVE  CourseOf[s] \in must
        BY <3>1 DEF OfCourse
    <3>2. CourseOf[s] \in must => role(s) = "must"
        BY <2>1 DEF role
    <3> QED BY <1>4, <2>1, <3>1, <3>2
  <2>6. \A k \in DOMAIN items : items[k].section = s => plan[n].locked = items[k].locked
    <3>1. ASSUME NEW k \in DOMAIN items, items[k].section = s
          PROVE  locked(s) = items[k].locked
      <4>1. items[k].locked \in BOOLEAN
          BY ItemTyped DEF Items
      <4>2. locked(s) <=> items[k].locked
          BY <2>3, <3>1 DEF locked
      <4> QED BY <1>3, <2>1, <4>1, <4>2
    <3> QED BY <1>4, <2>1, <3>1
  <2>7. \A k \in Lockers(s) : ProfessorOf[items[k].section] = ProfessorOf[s]
                                => plan[n].professorLocked
    <3>1. ASSUME NEW k \in Lockers(s), ProfessorOf[items[k].section] = ProfessorOf[s]
          PROVE  professorLocked(s)
        BY <2>1, <2>4, <3>1 DEF professorLocked
    <3> QED BY <1>4, <2>1, <3>1
  <2>8. LocksFit(plan[n])
    <3>1. ASSUME locked(s), professorLocked(s)
          PROVE  FALSE
      <4>1. PICK h \in DOMAIN items : items[h].section = s
          BY <3>1 DEF locked
      <4>2. items[h].locked
          BY <2>3, <3>1, <4>1 DEF locked
      <4>3. PICK l \in Lockers(s) : TRUE
          BY <3>1 DEF professorLocked
      <4>4. /\ items[h].locked /\ items[l].professorLocked /\ OfCourse(items[l], s)
            /\ OfCourse(items[h], s)
          BY <2>1, <4>1, <4>2, <4>3 DEF OfCourse
      <4>5. /\ LocksFit(items[h]) /\ LocksFit(items[l])
          BY <1>7, <4>1, <4>3 DEF Good
      <4>6. h # l
          BY <4>4, <4>5 DEF LocksFit
      <4> QED BY <2>2, <4>1, <4>3, <4>4, <4>5, <4>6 DEF LocksFit, OfCourse, Compatible
    <3>2. ~(plan[n].locked /\ plan[n].professorLocked)
        BY <1>4, <2>1, <3>1
    <3> QED BY <1>6, <3>2 DEF LocksFit
  <2>9. ASSUME NEW k \in DOMAIN items
        PROVE  /\ items[k].role = "must" /\ OfCourse(items[k], ids[n])
                    => plan[n].role = "must"
               /\ items[k].section = ids[n] => plan[n].locked = items[k].locked
               /\ items[k].professorLocked /\ OfCourse(items[k], ids[n])
                      /\ ProfessorOf[items[k].section] = ProfessorOf[ids[n]]
                      /\ ProfessorOf[items[k].section] # None
                    => plan[n].professorLocked
    <3>1. k \in Lockers(s) <=> /\ items[k].professorLocked /\ OfCourse(items[k], s)
                               /\ ProfessorOf[items[k].section] # None
        OBVIOUS
    <3>2. items[k].role = "must" /\ OfCourse(items[k], ids[n]) => plan[n].role = "must"
        BY <2>1, <2>5
    <3>3. items[k].section = ids[n] => plan[n].locked = items[k].locked
        BY <2>1, <2>6, Zenon
    <3>4. ASSUME items[k].professorLocked, OfCourse(items[k], ids[n]),
                 ProfessorOf[items[k].section] # None,
                 ProfessorOf[items[k].section] = ProfessorOf[ids[n]]
          PROVE  plan[n].professorLocked
      <4> HIDE DEF Lockers
      <4> QED BY <2>1, <2>7, <3>1, <3>4
    <3> QED BY <3>2, <3>3, <3>4
  <2> QED BY <2>8, <2>9
<1>8. Good(items, catalog) => PlanKeeps(items, ids, plan)
  <2> HIDE DEF must, Holders, Lockers
  <2> QED BY <1>7 DEF PlanKeeps
<1> QED BY <1>5, <1>6, <1>8
-----------------------------------------------------------------------------
(* An edit that the draft can take.  Only when the draft is for the course *)
(* data of the page does the list stay good.                               *)
Allowed(items) ==
    /\ items \in Seq(Items)
    /\ present.version = loaded =>
          /\ Ids(items) \subseteq Ids(present.items) \cup catalog
          /\ ~Repeats /\ Good(present.items, catalog) => Good(items, catalog)

EditsWell ==
    \/ UNCHANGED <<history, edits, mixed>>
    \/ \E items : Allowed(items) /\ ChangeItems(items)

LEMMA AddSectionWell ==
    ASSUME present.items \in Seq(Items), NEW s \in Sections, s \in catalog,
           NEW role \in Roles \ {"exclude"}, IsActive(role) => MayReplace(s), AddSection(s, role)
    PROVE  EditsWell
<1> DEFINE items == present.items
           excluded == {n \in DOMAIN items : items[n].role = "exclude" /\ OfCourse(items[n], s)}
           active == {n \in DOMAIN items : OfCourse(items[n], s) /\ IsActive(items[n].role)}
           others == {n \in DOMAIN items : ~(items[n].role = "exclude" /\ OfCourse(items[n], s))}
           item == NewItem(s, role)
<1>1. IF excluded # {} THEN ChangeItems(Append(At(items, others), item))
      ELSE IF active # {} /\ IsActive(role)
      THEN ChangeItems(ReplacedItems(items, items[First(active)], s, role))
      ELSE IF s \in Ids(items) THEN ChangeItems(ItemsWithCourseRole(items, s, role))
      ELSE AddItem(item)
    BY DEF AddSection, Where, Filter, Each, ReplacedItems
<1>2. item \in Items /\ item.section = s /\ item.role = role /\ LocksFit(item)
    BY NewItemTyped
<1>3. Good(items, catalog) => \A m, n \in DOMAIN items : m # n =>
          items[m].section # items[n].section /\ Compatible(items[m], items[n], catalog)
    BY DEF Good
<1>4. \A n \in DOMAIN items : items[n].section = s => OfCourse(items[n], s)
    BY DEF OfCourse
<1> HIDE DEF item
<1>5. CASE excluded # {}
  <2>1. PICK kept : kept = At(items, others)
      OBVIOUS
  <2>2. PICK new : new = Append(kept, item)
      OBVIOUS
  <2>3. /\ kept \in Seq(Items) /\ Ids(kept) \subseteq Ids(items)
        /\ \A n \in DOMAIN kept : \E k \in others : kept[n] = items[k]
        /\ Good(items, catalog) => Good(kept, catalog)
    <3>1. others \in SUBSET (DOMAIN items) /\ items \in Seq(Items)
        OBVIOUS
    <3> HIDE DEF others, items
    <3> QED BY <2>1, <3>1, FilterGood
  <2>4. ASSUME Good(items, catalog), NEW n \in DOMAIN kept
        PROVE  ~OfCourse(kept[n], s)
    <3>1. PICK e \in excluded, k \in others : kept[n] = items[k]
        BY <1>5, <2>3, <2>4
    <3>2. e # k /\ e \in DOMAIN items /\ k \in DOMAIN items
        OBVIOUS
    <3> QED BY <1>3, <2>4, <3>1, <3>2 DEF OfCourse, Compatible
  <2>5. ASSUME Good(items, catalog)
        PROVE  Good(new, catalog)
    <3>1. \A n \in DOMAIN kept : kept[n].section # s /\ Compatible(kept[n], item, catalog)
        BY <1>2, <2>4, <2>5 DEF OfCourse, Compatible
    <3> QED BY <1>2, <2>2, <2>3, <2>5, <3>1, AppendGood
  <2>6. new \in Seq(Items) /\ Ids(new) \subseteq Ids(items) \cup {s}
      BY <1>2, <2>2, <2>3, AppendGood
  <2>7. Allowed(new)
      BY <2>5, <2>6 DEF Allowed
  <2> QED BY <1>1, <1>5, <2>1, <2>2, <2>7 DEF EditsWell
<1>6. CASE excluded = {} /\ active # {} /\ IsActive(role)
  <2>1. PICK k \in active : k = First(active)
      BY <1>6, FirstOfPlaces
  <2>2. PICK new : new = ReplacedItems(items, items[k], s, role)
      OBVIOUS
  <2>3. /\ new \in Seq(Items) /\ Ids(new) \subseteq Ids(items) \cup {s}
        /\ Good(items, catalog) /\ (s \notin Ids(items) \/ items[k].section = s)
             => Good(new, catalog)
    <3>1. /\ k \in DOMAIN items /\ OfCourse(items[k], s) /\ IsActive(items[k].role)
          /\ items \in Seq(Items)
        BY <2>1
    <3> HIDE DEF items
    <3> QED BY <2>2, <3>1, ReplacedGood
  <2>4. ~Repeats => s \notin Ids(items) \/ items[k].section = s
      BY <1>6, <2>1 DEF MayReplace
  <2>5. Allowed(new)
      BY <2>3, <2>4 DEF Allowed
  <2> QED BY <1>1, <1>6, <2>1, <2>2, <2>5 DEF EditsWell
<1>7. CASE excluded = {} /\ ~(active # {} /\ IsActive(role)) /\ s \in Ids(items)
  <2>1. PICK new : new = ItemsWithCourseRole(items, s, role)
      OBVIOUS
  <2>2. Allowed(new)
      BY <2>1, RoleItems DEF Allowed
  <2> QED BY <1>1, <1>7, <2>1, <2>2 DEF EditsWell
<1>8. CASE excluded = {} /\ ~(active # {} /\ IsActive(role)) /\ s \notin Ids(items)
  <2>1. PICK new : new = Append(items, item)
      OBVIOUS
  <2>2. new \in Seq(Items) /\ Ids(new) \subseteq Ids(items) \cup {s}
      BY <1>2, <2>1, AppendGood
  <2>3. ASSUME Good(items, catalog)
        PROVE  Good(new, catalog)
    <3>1. ASSUME NEW n \in DOMAIN items
          PROVE  items[n].section # s /\ Compatible(items[n], item, catalog)
      <4>1. items[n].section # s
          BY <1>8 DEF Ids
      <4>2. OfCourse(items[n], s) => items[n].role # "exclude"
                                     /\ ~(IsActive(items[n].role) /\ IsActive(role))
          BY <1>8
      <4> QED BY <1>2, <4>1, <4>2 DEF OfCourse, Compatible
    <3> QED BY <1>2, <2>1, <2>3, <3>1, AppendGood
  <2>4. Allowed(new)
      BY <2>2, <2>3 DEF Allowed
  <2>5. ChangeItems(new)
      BY <1>1, <1>2, <1>8, <2>1 DEF AddItem
  <2> QED BY <2>4, <2>5 DEF EditsWell
<1> QED BY <1>5, <1>6, <1>7, <1>8

LEMMA FilterWell ==
    ASSUME present.items \in Seq(Items), NEW places \in SUBSET (DOMAIN present.items),
           ChangeItems(At(present.items, places))
    PROVE  EditsWell
<1>1. PICK new : new = At(present.items, places)
    OBVIOUS
<1>2. /\ new \in Seq(Items) /\ Ids(new) \subseteq Ids(present.items)
      /\ Good(present.items, catalog) => Good(new, catalog)
    BY <1>1, FilterGood
<1> QED BY <1>1, <1>2 DEF Allowed, EditsWell

LEMMA AddsWell ==
    ASSUME present.items \in Seq(Items), NEW s \in Sections,
           Search(s) \/ AddCandidate(s) \/ Promote(s) \/ AddRequired(s)
    PROVE  EditsWell
<1>1. CASE Search(s)
    BY <1>1, AddSectionWell DEF Search, MayReplace, Roles
<1>2. CASE AddCandidate(s)
    BY <1>2, AddSectionWell DEF AddCandidate, IsActive, Roles
<1>3. CASE Promote(s)
    BY <1>3, AddSectionWell DEF Promote, Roles
<1>4. CASE AddRequired(s)
    BY <1>4, AddSectionWell DEF AddRequired, Roles
<1> QED BY <1>1, <1>2, <1>3, <1>4

LEMMA RemovesWell ==
    ASSUME present.items \in Seq(Items), NEW s \in Sections, RemovePassiveCourse(s) \/ RemoveSection
    PROVE  EditsWell
<1>1. CASE RemovePassiveCourse(s)
    BY <1>1, FilterWell DEF RemovePassiveCourse, Filter, Where
<1>2. CASE RemoveSection
    BY <1>2, FilterWell DEF RemoveSection, Remove, Filter, Where
<1> QED BY <1>1, <1>2

LEMMA ApplyBackupWell ==
    ASSUME present.items \in Seq(Items), NEW s \in Sections, ApplyBackup(s)
    PROVE  EditsWell
<1>1. /\ s \in catalog /\ ChangeItems(ItemsWithAppliedBackup(present.items, s))
      /\ \E n \in DOMAIN present.items :
            present.items[n].role = "backup" /\ present.items[n].section = s
    BY DEF ApplyBackup, Where
<1>2. PICK new : new = ItemsWithAppliedBackup(present.items, s)
    OBVIOUS
<1>3. /\ new \in Seq(Items) /\ Ids(new) \subseteq Ids(present.items) \cup {s}
      /\ Good(present.items, catalog) => Good(new, catalog)
    BY <1>1, <1>2, BackupItems
<1> QED BY <1>1, <1>2, <1>3 DEF Allowed, EditsWell

LEMMA SetRoleWell ==
    ASSUME present.items \in Seq(Items), selected \in Sections, NEW role \in Roles, SetRole(role)
    PROVE  EditsWell
<1>1. PICK new : new = ItemsWithCourseRole(present.items, selected, role)
    OBVIOUS
<1>2. /\ new \in Seq(Items) /\ Ids(new) \subseteq Ids(present.items) \cup {selected}
      /\ Good(present.items, catalog) => Good(new, catalog)
    BY <1>1, RoleItems DEF SetRole
<1> QED BY <1>1, <1>2 DEF SetRole, Allowed, EditsWell

LEMMA SetModeWell ==
    ASSUME present.items \in Seq(Items), selected \in Sections, NEW mode, SetAdjustmentMode(mode)
    PROVE  EditsWell
<1>1. /\ selected \in catalog /\ IsActive(SelectedItem.role)
      /\ ChangeItems(Adjusted(present.items, selected, mode))
    BY DEF SetAdjustmentMode, Adjusted, Each
<1>2. PICK new : new = Adjusted(present.items, selected, mode)
    OBVIOUS
<1>3. ASSUME Good(present.items, catalog), NEW n \in DOMAIN present.items,
             present.items[n].section = selected
      PROVE  IsActive(present.items[n].role)
  <2>1. PICK places \in SUBSET (DOMAIN present.items) :
            places = {m \in DOMAIN present.items : present.items[m].section = selected}
      OBVIOUS
  <2>2. First(places) \in places
      BY <1>3, <2>1, FirstOfPlaces
  <2>3. First(places) = n
      BY <1>3, <2>1, <2>2 DEF Good
  <2>4. SelectedItem = present.items[n]
      BY <1>3, <2>1, <2>3 DEF SelectedItem, Where
  <2> QED BY <1>1, <2>4
<1>4. /\ new \in Seq(Items) /\ Ids(new) \subseteq Ids(present.items)
      /\ Good(present.items, catalog) => Good(new, catalog)
    BY <1>1, <1>2, <1>3, LockedItems
<1> QED BY <1>1, <1>2, <1>4 DEF Allowed, EditsWell

LEMMA SwapWell ==
    ASSUME present.items \in Seq(Items), NEW from \in Sections, NEW to \in Sections,
           from \in catalog, to \in FindAlternatives(from), Repeats \/ to \notin Ids(present.items),
           SwapItem(from, to)
    PROVE  EditsWell
<1>1. PICK new : new = Swapped(present.items, from, to)
    OBVIOUS
<1>2. ChangeItems(new)
    BY <1>1 DEF SwapItem, Each, Swapped
<1>3. to \in catalog /\ CourseOf[from] = CourseOf[to]
    BY DEF FindAlternatives
<1>4. /\ new \in Seq(Items) /\ Ids(new) \subseteq Ids(present.items) \cup {to}
      /\ Good(present.items, catalog) /\ to \notin Ids(present.items) => Good(new, catalog)
  <2>1. PICK items \in Seq(Items) : items = present.items
      OBVIOUS
  <2>2. new = Swapped(items, from, to)
      BY <1>1, <2>1
  <2>3. /\ new \in Seq(Items) /\ Ids(new) \subseteq Ids(items) \cup {to}
        /\ Good(items, catalog) /\ to \notin Ids(items) => Good(new, catalog)
      BY <1>3, <2>2, SwappedItems
  <2> QED BY <2>1, <2>3
<1> QED BY <1>2, <1>3, <1>4 DEF Allowed, EditsWell

LEMMA SwapsWell ==
    ASSUME present.items \in Seq(Items), NEW s \in Sections, NEW t \in Sections,
           (selected \in Sections /\ SwapSection(t)) \/ DragReplace(s, t)
    PROVE  EditsWell
<1>1. CASE selected \in Sections /\ SwapSection(t)
    BY <1>1, SwapWell DEF SwapSection
<1>2. CASE DragReplace(s, t)
  <2>1. s \in catalog
      BY <1>2 DEF DragReplace, ActiveSections, Where
  <2> QED BY <1>2, <2>1, SwapWell DEF DragReplace
<1> QED BY <1>1, <1>2
-----------------------------------------------------------------------------
(* What a candidate keeps of the draft it was generated for.               *)
BoundOK(bound) ==
    LET asked == DOMAIN bound.fingerprint.items
        ids == bound.ids
    IN  /\ loaded # None
        /\ ids \in Seq(Sections) /\ \A n \in DOMAIN ids : ids[n] \in catalog
        /\ \A m, n \in DOMAIN ids : m # n => CourseOf[ids[m]] # CourseOf[ids[n]]
        /\ \A n \in DOMAIN ids : \E i \in asked : i.role # "exclude" /\ OfCourse(i, ids[n])
        /\ \A i \in asked : IsActive(i.role) =>
              /\ i.section \in catalog
              /\ i.role = "must" => \E n \in DOMAIN ids : OfCourse(i, ids[n])
              /\ i.locked => \E n \in DOMAIN ids : ids[n] = i.section
              /\ i.professorLocked /\ ProfessorOf[i.section] # None =>
                     \A n \in DOMAIN ids : OfCourse(i, ids[n])
                                            => ProfessorOf[ids[n]] = ProfessorOf[i.section]

ItemsOf(items) == {items[n] : n \in DOMAIN items}

LEMMA FingerprintItems ==
    ASSUME NEW bound, bound.fingerprint = Fingerprint(present)
    PROVE  DOMAIN bound.fingerprint.items = ItemsOf(present.items)
BY DEF Fingerprint, ItemsOf

(* The list that applying a candidate writes.                              *)
AppliedItems(items, ids, plan, rest) ==
    /\ plan = PlanItemsForCandidate(ids, items)
    /\ rest = At(items, {n \in DOMAIN items :
                  ~IsActive(items[n].role) /\ items[n].section \notin Ids(plan)})

(* A candidate as it stands beside the items it was generated for.         *)
Bound(items, ids) ==
    /\ ids \in Seq(Sections) /\ \A n \in DOMAIN ids : ids[n] \in catalog
    /\ \A m, n \in DOMAIN ids : m # n => CourseOf[ids[m]] # CourseOf[ids[n]]
    /\ \A n \in DOMAIN ids : \E k \in DOMAIN items :
          items[k].role # "exclude" /\ OfCourse(items[k], ids[n])
    /\ \A k \in DOMAIN items : IsActive(items[k].role) =>
          /\ items[k].section \in catalog
          /\ items[k].role = "must" => \E n \in DOMAIN ids : OfCourse(items[k], ids[n])
          /\ items[k].locked => \E n \in DOMAIN ids : ids[n] = items[k].section
          /\ items[k].professorLocked /\ ProfessorOf[items[k].section] # None =>
                 \A n \in DOMAIN ids : OfCourse(items[k], ids[n])
                                        => ProfessorOf[ids[n]] = ProfessorOf[items[k].section]

LEMMA AppliedRest ==
    ASSUME NEW items \in Seq(Items), NEW ids, Bound(items, ids), NEW plan, NEW rest,
           AppliedItems(items, ids, plan, rest)
    PROVE  /\ plan \in Seq(Items) /\ DOMAIN plan = DOMAIN ids
           /\ \A n \in DOMAIN ids : plan[n].section = ids[n] /\ IsActive(plan[n].role)
           /\ rest \in Seq(Items) /\ Ids(rest) \subseteq Ids(items)
           /\ \A n \in DOMAIN rest : \E k \in DOMAIN items :
                 /\ rest[n] = items[k] /\ ~IsActive(items[k].role)
                 /\ items[k].section \notin Ids(plan)
           /\ \A k \in DOMAIN items :
                 ~IsActive(items[k].role) /\ items[k].section \notin Ids(plan)
                    => \E n \in DOMAIN rest : rest[n] = items[k]
           /\ Good(items, catalog) => Good(rest, catalog)
<1>1. plan = PlanItemsForCandidate(ids, items) /\ ids \in Seq(Sections)
      /\ \A n \in DOMAIN ids : ids[n] \in catalog
    BY DEF AppliedItems, Bound
<1>2. /\ plan \in Seq(Items) /\ DOMAIN plan = DOMAIN ids
      /\ \A n \in DOMAIN ids : plan[n].section = ids[n] /\ IsActive(plan[n].role)
    BY <1>1, PlanItems
<1> DEFINE places == {n \in DOMAIN items :
                ~IsActive(items[n].role) /\ items[n].section \notin Ids(plan)}
<1>3. rest = At(items, places) /\ places \in SUBSET (DOMAIN items)
    BY DEF AppliedItems
<1>4. /\ rest \in Seq(Items) /\ Ids(rest) \subseteq Ids(items)
      /\ \A n \in DOMAIN rest : \E k \in places : rest[n] = items[k]
      /\ \A k \in places : \E n \in DOMAIN rest : rest[n] = items[k]
      /\ Good(items, catalog) => Good(rest, catalog)
  <2> HIDE DEF places
  <2> QED BY <1>3, FilterGood
<1> QED BY <1>2, <1>3, <1>4

LEMMA AppliedGood ==
    ASSUME NEW items \in Seq(Items), NEW ids, Bound(items, ids), NEW plan, NEW rest,
           AppliedItems(items, ids, plan, rest), NEW new, new = plan \o rest
    PROVE  /\ new \in Seq(Items) /\ Ids(new) \subseteq Ids(items) \cup catalog
           /\ Good(items, catalog) => Good(new, catalog)
<1>1. /\ plan \in Seq(Items) /\ DOMAIN plan = DOMAIN ids
      /\ \A n \in DOMAIN ids : plan[n].section = ids[n] /\ IsActive(plan[n].role)
      /\ rest \in Seq(Items) /\ Ids(rest) \subseteq Ids(items)
      /\ \A n \in DOMAIN rest : \E k \in DOMAIN items :
            /\ rest[n] = items[k] /\ ~IsActive(items[k].role)
            /\ items[k].section \notin Ids(plan)
      /\ Good(items, catalog) => Good(rest, catalog)
    BY AppliedRest
<1>2. Ids(plan) \subseteq catalog
    BY <1>1 DEF Ids, Bound
<1>3. new \in Seq(Items) /\ Ids(new) \subseteq Ids(plan) \cup Ids(rest)
    BY <1>1, ConcatGood
<1>4. ASSUME Good(items, catalog)
      PROVE  Good(new, catalog)
  <2>1. Good(plan, catalog)
    <3>1. plan = PlanItemsForCandidate(ids, items) /\ ids \in Seq(Sections)
          /\ \A n \in DOMAIN ids : ids[n] \in catalog
        BY DEF AppliedItems, Bound
    <3>2. PlanKeeps(items, ids, plan)
        BY <1>4, <3>1, PlanItems
    <3>3. \A m, n \in DOMAIN plan : m # n => CourseOf[plan[m].section] # CourseOf[plan[n].section]
        BY <1>1 DEF Bound
    <3>4. \A m, n \in DOMAIN plan : m # n =>
              plan[m].section # plan[n].section /\ Compatible(plan[m], plan[n], catalog)
        BY <3>3 DEF Compatible
    <3> QED BY <1>1, <3>2, <3>4 DEF Good, PlanKeeps
  <2>2. ASSUME NEW m \in DOMAIN plan, NEW n \in DOMAIN rest
        PROVE  plan[m].section # rest[n].section /\ Compatible(plan[m], rest[n], catalog)
    <3>1. PICK k \in DOMAIN items : /\ rest[n] = items[k] /\ ~IsActive(items[k].role)
                                    /\ items[k].section \notin Ids(plan)
        BY <1>1
    <3>2. plan[m].section \in Ids(plan)
        BY DEF Ids
    <3>3. PICK l \in DOMAIN items : items[l].role # "exclude" /\ OfCourse(items[l], ids[m])
        BY <1>1 DEF Bound
    <3>4. k # l => Compatible(items[k], items[l], catalog)
        BY <1>4 DEF Good
    <3>5. plan[m].section = ids[m] /\ plan[m].role # "exclude"
        BY <1>1 DEF IsActive
    <3> QED BY <3>1, <3>2, <3>3, <3>4, <3>5 DEF Compatible, OfCourse
  <2> QED BY <1>1, <1>4, <2>1, <2>2, ConcatGood
<1> QED BY <1>1, <1>2, <1>3, <1>4

LEMMA AppliedKeepsIntent ==
    ASSUME NEW items \in Seq(Items), NEW ids, Bound(items, ids), NEW plan, NEW rest,
           AppliedItems(items, ids, plan, rest), NEW new, new = plan \o rest,
           Good(items, catalog)
    PROVE  KeepsIntent(items, new)
<1>1. /\ plan \in Seq(Items) /\ DOMAIN plan = DOMAIN ids
      /\ \A n \in DOMAIN ids : plan[n].section = ids[n] /\ IsActive(plan[n].role)
      /\ rest \in Seq(Items)
      /\ \A n \in DOMAIN rest : \E k \in DOMAIN items :
            rest[n] = items[k] /\ ~IsActive(items[k].role)
      /\ \A k \in DOMAIN items :
            ~IsActive(items[k].role) /\ items[k].section \notin Ids(plan)
               => \E n \in DOMAIN rest : rest[n] = items[k]
    BY AppliedRest
<1>2. ASSUME NEW n \in DOMAIN ids, NEW k \in DOMAIN items
      PROVE  /\ items[k].role = "must" /\ OfCourse(items[k], ids[n]) => plan[n].role = "must"
             /\ items[k].section = ids[n] => plan[n].locked = items[k].locked
             /\ items[k].professorLocked /\ OfCourse(items[k], ids[n])
                    /\ ProfessorOf[items[k].section] = ProfessorOf[ids[n]]
                    /\ ProfessorOf[items[k].section] # None
                  => plan[n].professorLocked
  <2>1. plan = PlanItemsForCandidate(ids, items) /\ ids \in Seq(Sections)
        /\ \A j \in DOMAIN ids : ids[j] \in catalog
      BY DEF AppliedItems, Bound
  <2>2. PlanKeeps(items, ids, plan)
      BY <2>1, PlanItems
  <2> QED BY <2>2 DEF PlanKeeps
<1>3. /\ \A n \in DOMAIN plan : \E k \in DOMAIN new : new[k] = plan[n]
      /\ \A n \in DOMAIN rest : \E k \in DOMAIN new : new[k] = rest[n]
      /\ \A k \in DOMAIN new : \/ \E n \in DOMAIN plan : new[k] = plan[n]
                               \/ \E n \in DOMAIN rest : new[k] = rest[n]
  <2>1. plan \in Seq(Items) /\ rest \in Seq(Items)
      BY <1>1
  <2>2. Joins(new, plan, rest)
      BY <2>1, ConcatGood
  <2> QED BY <2>2 DEF Joins
<1>4. ASSUME NEW m \in DOMAIN items, items[m].role = "must"
      PROVE  \E k \in DOMAIN new : /\ OfCourse(new[k], items[m].section)
                                   /\ new[k].role = "must" /\ IsActive(new[k].role)
  <2>1. items[m].section \in catalog /\ \E n \in DOMAIN ids : OfCourse(items[m], ids[n])
      BY <1>4 DEF Bound, IsActive
  <2>2. PICK n \in DOMAIN ids : OfCourse(items[m], ids[n])
      BY <2>1
  <2>3. plan[n].role = "must" /\ OfCourse(plan[n], items[m].section)
      BY <1>1, <1>2, <1>4, <2>1, <2>2 DEF Bound, OfCourse
  <2>4. PICK k \in DOMAIN new : new[k] = plan[n]
      BY <1>1, <1>3
  <2> QED BY <2>3, <2>4 DEF IsActive
<1>5. ASSUME NEW m \in DOMAIN items, items[m].locked
      PROVE  \E k \in DOMAIN new : /\ new[k].section = items[m].section
                                   /\ new[k].locked /\ IsActive(new[k].role)
  <2>1. IsActive(items[m].role)
      BY <1>5 DEF Good, LocksFit
  <2>2. PICK n \in DOMAIN ids : ids[n] = items[m].section
      BY <1>5, <2>1 DEF Bound
  <2>3. plan[n].section = items[m].section /\ plan[n].locked /\ IsActive(plan[n].role)
      BY <1>1, <1>2, <1>5, <2>2
  <2>4. PICK k \in DOMAIN new : new[k] = plan[n]
      BY <1>1, <1>3
  <2> QED BY <2>3, <2>4
<1>6. ASSUME NEW m \in DOMAIN items, items[m].professorLocked,
             ProfessorOf[items[m].section] # None,
             NEW k \in DOMAIN new, OfCourse(new[k], items[m].section), IsActive(new[k].role)
      PROVE  new[k].professorLocked /\ ProfessorOf[new[k].section] = ProfessorOf[items[m].section]
  <2>1. IsActive(items[m].role)
      BY <1>6 DEF Good, LocksFit
  <2>2. PICK n \in DOMAIN ids : new[k] = plan[n]
      BY <1>1, <1>3, <1>6
  <2>3. OfCourse(items[m], ids[n])
      BY <1>1, <1>6, <2>1, <2>2 DEF Bound, OfCourse
  <2>4. ProfessorOf[ids[n]] = ProfessorOf[items[m].section]
      BY <1>6, <2>1, <2>3 DEF Bound
  <2>5. plan[n].professorLocked
      BY <1>2, <1>6, <2>3, <2>4
  <2> QED BY <1>1, <2>2, <2>4, <2>5
<1>7. ASSUME NEW m \in DOMAIN items, ~IsActive(items[m].role)
      PROVE  \E k \in DOMAIN new : /\ new[k].section = items[m].section
                                   /\ new[k] = items[m] \/ IsActive(new[k].role)
  <2>1. CASE items[m].section \in Ids(plan)
    <3>1. PICK n \in DOMAIN plan : plan[n].section = items[m].section
        BY <2>1 DEF Ids
    <3>2. PICK k \in DOMAIN new : new[k] = plan[n]
        BY <1>3
    <3> QED BY <1>1, <3>1, <3>2
  <2>2. CASE items[m].section \notin Ids(plan)
    <3>1. PICK n \in DOMAIN rest : rest[n] = items[m]
        BY <1>1, <1>7, <2>2
    <3>2. PICK k \in DOMAIN new : new[k] = rest[n]
        BY <1>3
    <3> QED BY <3>1, <3>2
  <2> QED BY <2>1, <2>2
<1>8. ASSUME NEW m \in DOMAIN items
      PROVE  LET i == items[m]
                 Same == {new[n] : n \in Where(new, LAMBDA j : j.section = i.section)}
                 Placed == {new[n] : n \in Where(new, LAMBDA j : OfCourse(j, i.section) /\ IsActive(j.role))}
             IN  /\ i.role = "must" => \E j \in Placed : j.role = "must"
                 /\ i.locked => \E j \in Same : j.locked /\ IsActive(j.role)
                 /\ i.professorLocked /\ ProfessorOf[i.section] # None => \A j \in Placed :
                        j.professorLocked /\ ProfessorOf[j.section] = ProfessorOf[i.section]
                 /\ ~IsActive(i.role) => \E j \in Same : j = i \/ IsActive(j.role)
  <2> DEFINE Same == {new[n] : n \in {k \in DOMAIN new : new[k].section = items[m].section}}
             Placed == {new[n] : n \in {k \in DOMAIN new :
                 OfCourse(new[k], items[m].section) /\ IsActive(new[k].role)}}
  <2>1. items[m].role = "must" => \E j \in Placed : j.role = "must"
      BY <1>4
  <2>2. items[m].locked => \E j \in Same : j.locked /\ IsActive(j.role)
      BY <1>5
  <2>3. items[m].professorLocked /\ ProfessorOf[items[m].section] # None => \A j \in Placed :
            j.professorLocked /\ ProfessorOf[j.section] = ProfessorOf[items[m].section]
    <3>1. ASSUME items[m].professorLocked, ProfessorOf[items[m].section] # None, NEW j \in Placed
          PROVE  j.professorLocked /\ ProfessorOf[j.section] = ProfessorOf[items[m].section]
      <4>1. PICK k \in DOMAIN new : /\ j = new[k] /\ OfCourse(new[k], items[m].section)
                                   /\ IsActive(new[k].role)
          BY <3>1
      <4> QED BY <1>6, <3>1, <4>1
    <3> QED BY <3>1
  <2>4. ~IsActive(items[m].role) => \E j \in Same : j = items[m] \/ IsActive(j.role)
      BY <1>7
  <2> QED BY <2>1, <2>2, <2>3, <2>4, Zenon DEF Where
<1> QED BY <1>8 DEF KeepsIntent

LEMMA BoundFresh ==
    ASSUME NEW bound, bound.fingerprint = Fingerprint(present)
    PROVE  BoundOK(bound) <=> loaded # None /\ Bound(present.items, bound.ids)
<1>1. DOMAIN bound.fingerprint.items = {present.items[n] : n \in DOMAIN present.items}
    BY FingerprintItems DEF ItemsOf
<1> DEFINE asked == DOMAIN bound.fingerprint.items
           items == present.items
           ids == bound.ids
<1>2. (\A n \in DOMAIN ids : \E i \in asked : i.role # "exclude" /\ OfCourse(i, ids[n]))
      <=> \A n \in DOMAIN ids : \E k \in DOMAIN items :
             items[k].role # "exclude" /\ OfCourse(items[k], ids[n])
    BY <1>1
<1> DEFINE Kept(i) ==
              /\ i.section \in catalog
              /\ i.role = "must" => \E n \in DOMAIN ids : OfCourse(i, ids[n])
              /\ i.locked => \E n \in DOMAIN ids : ids[n] = i.section
              /\ i.professorLocked /\ ProfessorOf[i.section] # None =>
                     \A n \in DOMAIN ids : OfCourse(i, ids[n])
                                            => ProfessorOf[ids[n]] = ProfessorOf[i.section]
<1>3. (\A i \in asked : IsActive(i.role) => Kept(i))
      <=> \A k \in DOMAIN items : IsActive(items[k].role) => Kept(items[k])
  <2> HIDE DEF Kept
  <2> QED BY <1>1
<1> HIDE DEF asked, items, ids
<1>4. BoundOK(bound) <=>
        /\ loaded # None
        /\ ids \in Seq(Sections) /\ \A n \in DOMAIN ids : ids[n] \in catalog
        /\ \A m, n \in DOMAIN ids : m # n => CourseOf[ids[m]] # CourseOf[ids[n]]
        /\ \A n \in DOMAIN ids : \E i \in asked : i.role # "exclude" /\ OfCourse(i, ids[n])
        /\ \A i \in asked : IsActive(i.role) => Kept(i)
    BY Zenon DEF BoundOK, asked, ids
<1>5. Bound(items, ids) <=>
        /\ ids \in Seq(Sections) /\ \A n \in DOMAIN ids : ids[n] \in catalog
        /\ \A m, n \in DOMAIN ids : m # n => CourseOf[ids[m]] # CourseOf[ids[n]]
        /\ \A n \in DOMAIN ids : \E k \in DOMAIN items :
             items[k].role # "exclude" /\ OfCourse(items[k], ids[n])
        /\ \A k \in DOMAIN items : IsActive(items[k].role) => Kept(items[k])
    BY Zenon DEF Bound
<1> HIDE DEF Kept
<1>6. BoundOK(bound) <=> loaded # None /\ Bound(items, ids)
    BY <1>2, <1>3, <1>4, <1>5
<1> QED BY <1>6 DEF items, ids

LEMMA PlanTyped ==
    ASSUME NEW items \in Seq(Items), NEW ids \in Seq(Sections), NEW plan,
           plan = PlanItemsForCandidate(ids, items)
    PROVE  plan \in Seq(Items)
<1> DEFINE must == {CourseOf[i.section] : i \in {items[n] : n \in
                       {m \in DOMAIN items : items[m].role = "must" /\ items[m].section \in catalog}}}
           Holders(s) == {m \in DOMAIN items : items[m].section = s}
           Lockers(s) == {m \in DOMAIN items : items[m].professorLocked /\ OfCourse(items[m], s)
                                               /\ ProfessorOf[items[m].section] # None}
           role(s) == IF s \in catalog /\ CourseOf[s] \in must THEN "must" ELSE "want"
           locked(s) == Holders(s) # {} /\ items[LastOf(Holders(s))].locked
           professorLocked(s) == s \in catalog /\ Lockers(s) # {}
               /\ ProfessorOf[items[LastOf(Lockers(s))].section] = ProfessorOf[s]
<1>1. plan = [n \in DOMAIN ids |-> [section |-> ids[n], role |-> role(ids[n]),
                 locked |-> locked(ids[n]), professorLocked |-> professorLocked(ids[n])]]
    BY DEF PlanItemsForCandidate, Where
<1>2. ASSUME NEW n \in DOMAIN ids
      PROVE  /\ role(ids[n]) \in {"must", "want"} /\ ids[n] \in Sections
             /\ locked(ids[n]) \in BOOLEAN /\ professorLocked(ids[n]) \in BOOLEAN
    BY ElementOfSeq, LenProperties
<1> HIDE DEF role, locked, professorLocked
<1>3. ASSUME NEW n \in DOMAIN ids
      PROVE  plan[n] \in Items
  <2>1. plan[n] = [section |-> ids[n], role |-> role(ids[n]), locked |-> locked(ids[n]),
                   professorLocked |-> professorLocked(ids[n])]
      BY <1>1
  <2> QED BY <1>2, <2>1 DEF Items, Roles
<1>4. plan = [n \in DOMAIN ids |-> plan[n]]
    BY <1>1
<1> QED BY <1>3, <1>4, MapTyped

(* What the draft may be told of a candidate, while it is shown.           *)
Sound(bound) ==
    bound = None \/ /\ loaded # None /\ bound.ids \in Seq(Sections)
                    /\ bound.fingerprint.version = loaded => BoundOK(bound)

LEMMA ApplyWell ==
    ASSUME present \in Drafts, Sound(preview), ApplyCandidate
    PROVE  /\ EditsWell /\ loaded # None
           /\ present.version = loaded /\ Good(present.items, catalog)
                 => KeepsIntent(present.items, present'.items)
<1>1. PICK items \in Seq(Items) : items = present.items
    BY DEF Drafts
<1>2. PICK ids \in Seq(Sections) : ids = preview.ids
    BY DEF Sound, ApplyCandidate, IsFresh
<1>3. loaded # None /\ (present.version = loaded => Bound(items, ids))
  <2>1. /\ preview # None /\ preview.fingerprint = Fingerprint(present)
        /\ preview.fingerprint.version = present.version
      BY DEF ApplyCandidate, IsFresh, Fingerprint
  <2> QED BY <1>1, <1>2, <2>1, BoundFresh DEF Sound
<1>4. PICK plan : plan = PlanItemsForCandidate(ids, items)
    OBVIOUS
<1>5. PICK places \in SUBSET (DOMAIN items) :
          places = {n \in DOMAIN items : ~IsActive(items[n].role) /\ items[n].section \notin Ids(plan)}
    OBVIOUS
<1>6. PICK rest : rest = At(items, places)
    OBVIOUS
<1>7. PICK new : new = plan \o rest
    OBVIOUS
<1>8. AppliedItems(items, ids, plan, rest)
    BY <1>4, <1>5, <1>6 DEF AppliedItems
<1>9. ChangeItems(new)
    BY <1>1, <1>2, <1>4, <1>5, <1>6, <1>7 DEF ApplyCandidate, ApplyItems, Filter, Where
<1>10. new \in Seq(Items)
  <2>1. plan \in Seq(Items)
      BY <1>4, PlanTyped
  <2>2. rest \in Seq(Items)
      BY <1>6, FilterGood
  <2> QED BY <1>7, <2>1, <2>2, ConcatGood
<1>11. ASSUME present.version = loaded
       PROVE  /\ Ids(new) \subseteq Ids(items) \cup catalog
              /\ Good(items, catalog) => Good(new, catalog) /\ KeepsIntent(items, new)
    BY <1>3, <1>7, <1>8, <1>11, AppliedGood, AppliedKeepsIntent
<1>12. EditsWell
    BY <1>1, <1>9, <1>10, <1>11 DEF Allowed, EditsWell
<1>13. present'.items = new
    BY <1>9 DEF ChangeItems, Change, Drafts
<1> QED BY <1>1, <1>3, <1>11, <1>12, <1>13

LEMMA CatalogsTyped ==
    /\ Len(Catalogs) \in Nat \ {0} /\ DOMAIN Catalogs = 1..Len(Catalogs)
    /\ \A v \in 1..Len(Catalogs) : Catalogs[v] \subseteq Sections
<1>1. Catalogs \in Seq(SUBSET Sections) /\ Catalogs # << >>
    BY DraftAssumption
<1>2. Len(Catalogs) \in Nat /\ DOMAIN Catalogs = 1..Len(Catalogs) /\ Len(Catalogs) # 0
    BY <1>1, LenProperties, EmptySeq
<1>3. \A v \in 1..Len(Catalogs) : Catalogs[v] \in SUBSET Sections
    BY <1>1, ElementOfSeq
<1> QED BY <1>2, <1>3

LEMMA SolutionBound ==
    ASSUME present \in Drafts, published \in 1..Len(Catalogs), catalog = Catalogs[published],
           \A n \in DOMAIN present.items : IsActive(present.items[n].role)
               => present.items[n].section \in catalog,
           NEW S \in Solutions, NEW ids, ids = Ascending(S)
    PROVE  Bound(present.items, ids)
<1> DEFINE items == present.items
           Courses(roles) == {CourseOf[i.section] : i \in {items[n] : n \in
               {m \in DOMAIN items : items[m].role \in roles /\ items[m].section \in catalog}}}
<1>1. \A n \in DOMAIN items : IsActive(items[n].role) => items[n].section \in catalog
    OBVIOUS
<1>2. /\ S \subseteq Catalogs[published]
      /\ \A s, t \in S : s # t => CourseOf[s] # CourseOf[t]
      /\ {CourseOf[s] : s \in S} \subseteq Courses({"must", "want", "backup"})
      /\ Courses({"must"}) \subseteq {CourseOf[s] : s \in S}
      /\ \A n \in DOMAIN items : IsActive(items[n].role) =>
            /\ items[n].locked => items[n].section \in S
            /\ items[n].professorLocked /\ ProfessorOf[items[n].section] # None =>
                   \A s \in S : CourseOf[s] = CourseOf[items[n].section]
                                 => ProfessorOf[s] = ProfessorOf[items[n].section]
  <2>1. /\ S \in SUBSET Catalogs[published]
        /\ \A s, t \in S : s # t => CourseOf[s] # CourseOf[t] /\ ~Overlap(s, t)
        /\ {CourseOf[s] : s \in S} \subseteq Courses({"must", "want", "backup"})
        /\ Courses({"must"}) \subseteq {CourseOf[s] : s \in S}
        /\ \A n \in {m \in DOMAIN items : IsActive(items[m].role)} :
              /\ items[n].locked => items[n].section \in S
              /\ items[n].section \in catalog /\ items[n].professorLocked /\ ProfessorOf[items[n].section] # None =>
                     \A s \in S : CourseOf[s] = CourseOf[items[n].section]
                                   => ProfessorOf[s] = ProfessorOf[items[n].section]
      BY Zenon DEF Solutions, Where
  <2> HIDE DEF Courses, items
  <2> QED BY <1>1, <2>1
<1> HIDE DEF items
<1>3. S \subseteq Sections /\ S \subseteq catalog
    BY <1>2, CatalogsTyped
<1>4. IsFiniteSet(S) /\ S \subseteq Nat
    BY <1>3, DraftAssumption, FS_Subset
<1>5. PICK size \in Nat : size = Cardinality(S)
    BY <1>4, FS_CardinalityType
<1>6. /\ DOMAIN ids = 1..size
      /\ \A n \in 1..size : ids[n] \in S
      /\ \A m, n \in 1..size : m # n => ids[m] # ids[n]
      /\ \A k \in S : \E n \in 1..size : ids[n] = k
    BY <1>4, <1>5, Ascends
<1>7. ids \in Seq(Sections)
  <2>1. ids = [n \in 1..size |-> ids[n]]
      BY <1>5 DEF Ascending
  <2>2. ids \in [1..size -> Sections]
      BY <1>3, <1>6, <2>1
  <2> QED BY <2>2, SeqDef
<1>8. \A n \in DOMAIN ids : \E k \in DOMAIN items :
          items[k].role # "exclude" /\ OfCourse(items[k], ids[n])
  <2>1. ASSUME NEW n \in DOMAIN ids
        PROVE  \E k \in DOMAIN items : items[k].role # "exclude" /\ OfCourse(items[k], ids[n])
    <3>1. CourseOf[ids[n]] \in Courses({"must", "want", "backup"})
        BY <1>2, <1>6
    <3>2. PICK k \in DOMAIN items : /\ items[k].role \in {"must", "want", "backup"}
                                    /\ items[k].section \in catalog
                                    /\ CourseOf[ids[n]] = CourseOf[items[k].section]
        BY <3>1
    <3> QED BY <3>2 DEF OfCourse
  <2> QED BY <2>1
<1>9. ASSUME NEW k \in DOMAIN items, IsActive(items[k].role)
      PROVE  /\ items[k].section \in catalog
             /\ items[k].role = "must" => \E n \in DOMAIN ids : OfCourse(items[k], ids[n])
             /\ items[k].locked => \E n \in DOMAIN ids : ids[n] = items[k].section
             /\ items[k].professorLocked /\ ProfessorOf[items[k].section] # None =>
                    \A n \in DOMAIN ids : OfCourse(items[k], ids[n])
                                           => ProfessorOf[ids[n]] = ProfessorOf[items[k].section]
  <2>1. items[k].section \in catalog
      BY <1>1, <1>9
  <2>2. ASSUME items[k].role = "must"
        PROVE  \E n \in DOMAIN ids : OfCourse(items[k], ids[n])
    <3>1. CourseOf[items[k].section] \in Courses({"must"})
        BY <2>1, <2>2
    <3>2. PICK s \in S : CourseOf[s] = CourseOf[items[k].section]
        BY <1>2, <3>1
    <3> QED BY <1>6, <2>1, <3>2 DEF OfCourse
  <2>3. items[k].locked => \E n \in DOMAIN ids : ids[n] = items[k].section
      BY <1>2, <1>6, <1>9
  <2>4. items[k].professorLocked /\ ProfessorOf[items[k].section] # None =>
            \A n \in DOMAIN ids : OfCourse(items[k], ids[n])
                                   => ProfessorOf[ids[n]] = ProfessorOf[items[k].section]
      BY <1>2, <1>6, <1>9 DEF OfCourse
  <2> QED BY <2>1, <2>2, <2>3, <2>4
<1> HIDE DEF Courses
<1>10. Bound(items, ids)
    BY <1>2, <1>3, <1>6, <1>7, <1>8, <1>9 DEF Bound
<1> QED BY <1>10 DEF items
-----------------------------------------------------------------------------
LEMMA GoodWithin ==
    ASSUME NEW items, NEW C, NEW D, Good(items, C), D \subseteq C
    PROVE  Good(items, D)
BY DEF Good, Compatible

LEMMA GoodAll ==
    ASSUME NEW items, NEW C, NEW D, Good(items, C), Ids(items) \subseteq C
    PROVE  Good(items, D)
<1>1. \A n \in DOMAIN items : items[n].section \in C
    BY DEF Ids
<1> QED BY <1>1 DEF Good, Compatible

(* What a page may hold or read as long as mixed is m: once items for other *)
(* course data were edited, no more than a list of items.                  *)
Fit(draft, m) ==
    /\ draft \in Drafts
    /\ ~m => /\ draft.version # None => Ids(draft.items) \subseteq Catalogs[draft.version]
             /\ ~Repeats => Good(draft.items, Sections)

LEMMA FitLater ==
    ASSUME NEW m \in BOOLEAN, NEW k \in BOOLEAN, m => k, NEW draft, Fit(draft, m)
    PROVE  Fit(draft, k)
BY DEF Fit

(* Every draft of the history is fit, and carries the same version.        *)
PeersOf(m, w) == {draft \in Drafts : Fit(draft, m) /\ draft.version = w}

Hist(m) ==
    \E w : /\ present \in PeersOf(m, w)
           /\ past \in Seq(PeersOf(m, w)) /\ future \in Seq(PeersOf(m, w))

LEMMA HistSame ==
    ASSUME NEW m, Hist(m), UNCHANGED history
    PROVE  Hist(m)'
BY DEF Hist, history, PeersOf, Fit, Drafts, Good, Compatible, Ids, LocksFit

LEMMA HistLater ==
    ASSUME NEW m \in BOOLEAN, NEW k \in BOOLEAN, m => k, Hist(m)
    PROVE  Hist(k)
<1>1. PICK w : /\ present \in PeersOf(m, w)
               /\ past \in Seq(PeersOf(m, w)) /\ future \in Seq(PeersOf(m, w))
    BY DEF Hist
<1>2. PeersOf(m, w) \subseteq PeersOf(k, w)
    BY FitLater DEF PeersOf
<1>3. past \in Seq(PeersOf(k, w)) /\ future \in Seq(PeersOf(k, w))
    BY <1>1, <1>2, SeqMonotonic
<1> QED BY <1>1, <1>2, <1>3 DEF Hist

LEMMA HistChange ==
    ASSUME NEW m, Hist(m), NEW draft, Fit(draft, m), draft.version = present.version, Change(draft)
    PROVE  Hist(m)'
<1>1. PICK w, S : /\ S = PeersOf(m, w) /\ present \in S
                  /\ past \in Seq(S) /\ future \in Seq(S)
    BY DEF Hist
<1>2. draft \in S
    BY <1>1 DEF PeersOf, Fit
<1>3. past' = Append(Recent(past), present) /\ present' = draft /\ future' = << >>
    BY DEF Change, Recent
<1>4. Recent(past) \in Seq(S)
    BY <1>1, RecentTyped
<1>5. past' \in Seq(S) /\ present' \in S /\ future' \in Seq(S)
    BY <1>1, <1>2, <1>3, <1>4, AppendProperties, EmptySeq
<1> QED BY <1>1, <1>5 DEF Hist

LEMMA HistUndo ==
    ASSUME NEW m, Hist(m), UndoItems
    PROVE  Hist(m)'
<1>1. PICK w, S : /\ S = PeersOf(m, w) /\ present \in S
                  /\ past \in Seq(S) /\ future \in Seq(S)
    BY DEF Hist
<1>2. /\ past # << >> /\ past' = SubSeq(past, 1, Len(past) - 1)
      /\ present' = past[Len(past)] /\ future' = <<present>> \o future
    BY DEF UndoItems
<1>3. past' \in Seq(S) /\ future' \in Seq(S)
    BY <1>1, <1>2, UndoLine
<1>4. Len(past) \in 1..Len(past)
    BY <1>1, <1>2, EmptySeq, LenProperties
<1>5. present' \in S
    BY <1>1, <1>2, <1>4, ElementOfSeq
<1> QED BY <1>1, <1>3, <1>5 DEF Hist

LEMMA HistRedo ==
    ASSUME NEW m, Hist(m), RedoItems
    PROVE  Hist(m)'
<1>1. PICK w, S : /\ S = PeersOf(m, w) /\ present \in S
                  /\ past \in Seq(S) /\ future \in Seq(S)
    BY DEF Hist
<1>2. /\ future # << >> /\ past' = Append(past, present)
      /\ present' = future[1] /\ future' = Tail(future)
    BY DEF RedoItems
<1>3. past' \in Seq(S) /\ future' \in Seq(S)
    BY <1>1, <1>2, RedoLine
<1>4. 1 \in 1..Len(future)
    BY <1>1, <1>2, EmptySeq, LenProperties
<1>5. present' \in S
    BY <1>1, <1>2, <1>4, ElementOfSeq
<1> QED BY <1>1, <1>3, <1>5 DEF Hist

LEMMA HistRestart ==
    ASSUME NEW m, NEW draft, Fit(draft, m), Restart(draft)
    PROVE  Hist(m)'
<1>1. PICK w, S : S = PeersOf(m, w) /\ w = draft.version
    OBVIOUS
<1>2. draft \in S
    BY <1>1 DEF PeersOf, Fit
<1>3. past' \in Seq(S) /\ present' \in S /\ future' \in Seq(S)
    BY <1>2, EmptySeq DEF Restart
<1> QED BY <1>1, <1>3 DEF Hist

(* A draft without the sections that version v lacks.                      *)
Hydrated(draft, v) ==
    [draft EXCEPT !.version = v,
        !.items = Filter(draft.items, LAMBDA i : i.section \in Catalogs[v])]

LEMMA HydratedFits ==
    ASSUME NEW v \in DOMAIN Catalogs, NEW m, NEW draft, Fit(draft, m), NEW new,
           new = Hydrated(draft, v)
    PROVE  new \in PeersOf(m, v)
<1>1. PICK items \in Seq(Items) : items = draft.items
    BY DEF Fit, Drafts
<1>2. PICK places \in SUBSET (DOMAIN items) :
          places = {n \in DOMAIN items : items[n].section \in Catalogs[v]}
    OBVIOUS
<1>3. PICK left : left = At(items, places)
    OBVIOUS
<1>4. /\ left \in Seq(Items)
      /\ \A n \in DOMAIN left : \E k \in places : left[n] = items[k]
      /\ Good(items, Sections) => Good(left, Sections)
    BY <1>3, FilterGood
<1>5. Ids(left) \subseteq Catalogs[v]
    BY <1>2, <1>4 DEF Ids
<1>6. new = [draft EXCEPT !.version = v, !.items = left]
    BY <1>1, <1>2, <1>3 DEF Hydrated, Filter, Where
<1>7. new \in Drafts /\ new.version = v /\ new.items = left
    BY <1>4, <1>6 DEF Fit, Drafts
<1> QED BY <1>1, <1>4, <1>5, <1>7 DEF PeersOf, Fit

LEMMA HydratedSeq ==
    ASSUME NEW v \in DOMAIN Catalogs, NEW m, NEW S, NEW drafts \in Seq(S),
           \A draft \in S : Fit(draft, m), NEW new,
           new = [n \in DOMAIN drafts |-> Hydrated(drafts[n], v)]
    PROVE  new \in Seq(PeersOf(m, v))
<1>1. PICK size \in Nat : DOMAIN drafts = 1..size /\ size = Len(drafts)
    BY LenProperties
<1>2. \A n \in 1..size : Fit(drafts[n], m)
    BY <1>1, ElementOfSeq
<1>3. \A n \in 1..size : Hydrated(drafts[n], v) \in PeersOf(m, v)
    BY <1>2, HydratedFits
<1>4. new \in [1..size -> PeersOf(m, v)]
    BY <1>1, <1>3
<1> QED BY <1>4, SeqDef

LEMMA HistHydrate ==
    ASSUME NEW v \in DOMAIN Catalogs, NEW m, Hist(m), Hydrate(v)
    PROVE  Hist(m)'
<1>1. PICK w, S : /\ S = PeersOf(m, w) /\ present \in S
                  /\ past \in Seq(S) /\ future \in Seq(S)
    BY DEF Hist
<1>2. \A draft \in S : Fit(draft, m)
    BY <1>1 DEF PeersOf
<1>3. /\ past' = [n \in DOMAIN past |-> Hydrated(past[n], v)]
      /\ present' = Hydrated(present, v)
      /\ future' = [n \in DOMAIN future |-> Hydrated(future[n], v)]
    BY DEF Hydrate, Each, Hydrated
<1>4. present' \in PeersOf(m, v)
    BY <1>1, <1>2, <1>3, HydratedFits
<1>5. past' \in Seq(PeersOf(m, v)) /\ future' \in Seq(PeersOf(m, v))
    BY <1>1, <1>2, <1>3, HydratedSeq
<1> QED BY <1>4, <1>5 DEF Hist

(* An item as the page reads it from the storage.                          *)
Normalized(i) ==
    [i EXCEPT !.locked = IsActive(i.role) /\ @,
              !.professorLocked = IsActive(i.role) /\ ~i.locked /\ @]

LEMMA NormalizedItem ==
    ASSUME NEW i \in Items, NEW j, j = Normalized(i)
    PROVE  /\ j \in Items /\ j.section = i.section /\ j.role = i.role /\ LocksFit(j)
           /\ LocksFit(i) => j = i
<1>1. PICK a \in BOOLEAN, b \in BOOLEAN :
          /\ a = (IsActive(i.role) /\ i.locked)
          /\ b = (IsActive(i.role) /\ ~i.locked /\ i.professorLocked)
    OBVIOUS
<1>2. i.locked \in BOOLEAN /\ i.professorLocked \in BOOLEAN
    BY DEF Items
<1>3. j = [i EXCEPT !.locked = a, !.professorLocked = b]
    BY <1>1, <1>2, Zenon DEF Normalized
<1>4. j = [section |-> i.section, role |-> i.role, locked |-> a, professorLocked |-> b]
    BY <1>3 DEF Items
<1>5. j \in Items /\ j.section = i.section /\ j.role = i.role /\ j.locked = a /\ j.professorLocked = b
    BY <1>4 DEF Items
<1>6. LocksFit(j)
    BY <1>1, <1>2, <1>5 DEF LocksFit
<1>7. ASSUME LocksFit(i)
      PROVE  j = i
  <2>1. a = i.locked /\ b = i.professorLocked
      BY <1>1, <1>2, <1>7 DEF LocksFit
  <2>2. i = [section |-> i.section, role |-> i.role,
             locked |-> i.locked, professorLocked |-> i.professorLocked]
      BY DEF Items
  <2> QED BY <1>4, <2>1, <2>2
<1> QED BY <1>5, <1>6, <1>7

LEMMA NormalizedDraft ==
    ASSUME NEW draft, draft.items \in Seq(Items),
           draft = [items |-> draft.items, preferences |-> draft.preferences, version |-> draft.version],
           NEW new, new = Normalize(draft)
    PROVE  /\ new = [items |-> new.items, preferences |-> draft.preferences, version |-> draft.version]
           /\ new.items \in Seq(Items) /\ DOMAIN new.items = DOMAIN draft.items
           /\ \A n \in DOMAIN new.items :
                 /\ new.items[n].section = draft.items[n].section
                 /\ new.items[n].role = draft.items[n].role
                 /\ LocksFit(new.items[n])
           /\ (\A n \in DOMAIN draft.items : LocksFit(draft.items[n])) => new = draft
<1>1. PICK items \in Seq(Items) : items = draft.items
    OBVIOUS
<1>2. PICK read : read = [n \in DOMAIN items |-> Normalized(items[n])]
    OBVIOUS
<1>3. new = [draft EXCEPT !.items = read]
    BY <1>1, <1>2 DEF Normalize, Each, Normalized
<1>4. new = [items |-> read, preferences |-> draft.preferences, version |-> draft.version]
    BY <1>3
<1>5. \A n \in DOMAIN items : /\ read[n] = Normalized(items[n]) /\ items[n] \in Items
    BY <1>2, ItemTyped
<1>6. \A n \in DOMAIN items :
          /\ read[n] \in Items /\ read[n].section = items[n].section
          /\ read[n].role = items[n].role /\ LocksFit(read[n])
          /\ LocksFit(items[n]) => read[n] = items[n]
    BY <1>5, NormalizedItem
<1>7. DOMAIN read = DOMAIN items /\ read = [n \in DOMAIN items |-> read[n]]
    BY <1>2
<1>8. read \in Seq(Items)
    BY <1>6, <1>7, MapTyped
<1>9. ASSUME \A n \in DOMAIN items : LocksFit(items[n])
      PROVE  new = draft
  <2>1. read = [n \in DOMAIN items |-> items[n]]
      BY <1>6, <1>7, <1>9
  <2>2. read = items
      BY <2>1, SeqDef
  <2> QED BY <1>1, <1>4, <2>2
<1>10. new.items = read
    BY <1>4
<1> QED BY <1>1, <1>4, <1>6, <1>7, <1>8, <1>9, <1>10

LEMMA NormalizedFits ==
    ASSUME NEW m, NEW draft, Fit(draft, m), NEW new, new = Normalize(draft)
    PROVE  Fit(new, m)
<1>1. /\ draft.items \in Seq(Items)
      /\ draft = [items |-> draft.items, preferences |-> draft.preferences, version |-> draft.version]
    BY DEF Fit, Drafts
<1>2. /\ new = [items |-> new.items, preferences |-> draft.preferences, version |-> draft.version]
      /\ new.items \in Seq(Items) /\ DOMAIN new.items = DOMAIN draft.items
      /\ \A n \in DOMAIN new.items :
            /\ new.items[n].section = draft.items[n].section
            /\ new.items[n].role = draft.items[n].role
            /\ LocksFit(new.items[n])
    BY <1>1, NormalizedDraft
<1>3. PICK read \in Seq(Items) : read = new.items
    BY <1>2
<1>4. PICK items \in Seq(Items) : items = draft.items
    BY <1>1
<1>5. /\ DOMAIN read = DOMAIN items
      /\ \A n \in DOMAIN read : /\ read[n].section = items[n].section
                                /\ read[n].role = items[n].role /\ LocksFit(read[n])
    BY <1>2, <1>3, <1>4
<1>6. Ids(read) = Ids(items)
    BY <1>5 DEF Ids
<1>7. Good(items, Sections) => Good(read, Sections)
    BY <1>5 DEF Good, Compatible
<1>8. new \in Drafts /\ new.version = draft.version
    BY <1>2 DEF Fit, Drafts
<1> QED BY <1>3, <1>4, <1>6, <1>7, <1>8 DEF Fit

(* A draft that a page may find, read or as it is when its locks fit.      *)
LEMMA WellMadeFits ==
    ASSUME NEW m, NEW draft, WellMade(draft)
    PROVE  /\ Fit(Normalize(draft), m)
           /\ (\A n \in DOMAIN draft.items : LocksFit(draft.items[n])) => Fit(draft, m)
<1>1. /\ draft \in Drafts /\ draft.items \in Seq(Items)
      /\ draft = [items |-> draft.items, preferences |-> draft.preferences, version |-> draft.version]
    BY DEF WellMade, Drafts
<1>2. PICK new : new = Normalize(draft)
    OBVIOUS
<1>3. /\ new = [items |-> new.items, preferences |-> draft.preferences, version |-> draft.version]
      /\ new.items \in Seq(Items) /\ DOMAIN new.items = DOMAIN draft.items
      /\ \A n \in DOMAIN new.items :
            /\ new.items[n].section = draft.items[n].section
            /\ new.items[n].role = draft.items[n].role
            /\ LocksFit(new.items[n])
    BY <1>1, <1>2, NormalizedDraft
<1>4. PICK items \in Seq(Items) : items = draft.items
    BY <1>1
<1>5. /\ \A k, l \in DOMAIN items : k # l =>
            items[k].section # items[l].section /\ Compatible(items[k], items[l], Sections)
      /\ draft.version # None => Ids(items) \subseteq Catalogs[draft.version]
    BY <1>4 DEF WellMade, Ids
<1>6. PICK read \in Seq(Items) : read = new.items
    BY <1>3
<1>7. /\ DOMAIN read = DOMAIN items
      /\ \A n \in DOMAIN read : /\ read[n].section = items[n].section
                                /\ read[n].role = items[n].role /\ LocksFit(read[n])
    BY <1>3, <1>4, <1>6
<1>8. Good(read, Sections) /\ Ids(read) = Ids(items)
    BY <1>5, <1>7 DEF Good, Compatible, Ids
<1>9. new \in Drafts /\ new.version = draft.version
    BY <1>1, <1>3 DEF Drafts
<1>10. Fit(new, m)
    BY <1>5, <1>6, <1>8, <1>9 DEF Fit
<1>11. ASSUME \A n \in DOMAIN items : LocksFit(items[n])
       PROVE  Fit(draft, m)
    BY <1>1, <1>4, <1>5, <1>11 DEF Fit, Good
<1> QED BY <1>2, <1>4, <1>10, <1>11

LEMMA SharedFits ==
    ASSUME NEW m, NEW draft \in Shared
    PROVE  Fit(draft, m)
BY WellMadeFits, DraftAssumption
-----------------------------------------------------------------------------
(* What keeps the drafts usable.                                           *)
DInv ==
    /\ loaded \in {None} \cup DOMAIN Catalogs /\ published \in DOMAIN Catalogs
    /\ cached \in {None} \cup DOMAIN Catalogs /\ mixed \in BOOLEAN
    /\ selected \in {None} \cup Sections /\ edits \in 0..MaxEdits
    /\ Hist(mixed)
    /\ saved = None \/ Fit(saved, mixed)
    /\ Sound(candidate) /\ Sound(preview)

LEMMA CatalogTyped ==
    ASSUME DInv
    PROVE  /\ loaded = None => catalog = {}
           /\ loaded # None => catalog = Catalogs[loaded] /\ loaded \in DOMAIN Catalogs
           /\ catalog \subseteq Sections
BY CatalogsTyped DEF DInv, catalog

LEMMA PresentFits ==
    ASSUME DInv
    PROVE  Fit(present, mixed) /\ present \in Drafts /\ present.items \in Seq(Items)
BY DEF DInv, Hist, PeersOf, Fit, Drafts

LEMMA SoundSame ==
    ASSUME NEW bound, Sound(bound), UNCHANGED loaded
    PROVE  Sound(bound)'
BY DEF Sound, BoundOK, catalog, OfCourse

LEMMA FitSame ==
    ASSUME NEW draft, NEW m, Fit(draft, m)
    PROVE  Fit(draft, m)'
BY DEF Fit, Drafts, Good, Compatible, Ids, LocksFit

(* Steps that leave the course data alone.                                 *)
LEMMA Stays ==
    ASSUME DInv, UNCHANGED <<loaded, published, cached>>,
           Hist(mixed)', edits' \in 0..MaxEdits, mixed' \in BOOLEAN, mixed => mixed',
           selected' \in {None} \cup Sections, saved' = saved \/ saved' = present,
           NEW c, candidate' = c, Sound(c), NEW p, preview' = p, Sound(p)
    PROVE  DInv'
<1>1. Sound(candidate)' /\ Sound(preview)'
    BY SoundSame
<1>2. (saved = None \/ Fit(saved, mixed))'
  <2>1. PICK m \in BOOLEAN, k \in BOOLEAN : m = mixed /\ k = mixed' /\ (m => k)
      BY DEF DInv
  <2>2. PICK s : s = saved' /\ (s = None \/ Fit(s, m))
      BY <2>1, PresentFits DEF DInv
  <2>3. s = None \/ Fit(s, k)'
      BY <2>1, <2>2, FitLater, FitSame
  <2> QED BY <2>1, <2>2, <2>3
<1> QED BY <1>1, <1>2 DEF DInv

(* What a step does with the history and the counter of edits.             *)
HistKept == Hist(mixed)' /\ edits' \in 0..MaxEdits /\ mixed' \in BOOLEAN /\ (mixed => mixed')

LEMMA EditHist ==
    ASSUME DInv, loaded # None, EditsWell, UNCHANGED loaded
    PROVE  HistKept
<1>1. PICK m \in BOOLEAN : m = mixed /\ Hist(m) /\ edits \in 0..MaxEdits
    BY DEF DInv
<1>2. CASE UNCHANGED <<history, edits, mixed>>
  <2>1. Hist(m)'
      BY <1>1, <1>2, HistSame
  <2> QED BY <1>1, <1>2, <2>1 DEF HistKept
<1>3. ASSUME NEW items, Allowed(items), ChangeItems(items)
      PROVE  HistKept
  <2>1. PICK k \in BOOLEAN : k = mixed' /\ k = (m \/ present.version # loaded)
      BY <1>1, <1>3 DEF ChangeItems
  <2>2. PICK draft : draft = [present EXCEPT !.items = items]
      OBVIOUS
  <2>3. Change(draft)
      BY <1>3, <2>2 DEF ChangeItems
  <2>4. Fit(present, m) /\ present \in Drafts
      BY <1>1, PresentFits
  <2>5. draft \in Drafts /\ draft.items = items /\ draft.version = present.version
      BY <1>3, <2>2, <2>4 DEF Drafts, Allowed
  <2>6. ASSUME ~k
        PROVE  /\ draft.version # None => Ids(items) \subseteq Catalogs[draft.version]
               /\ ~Repeats => Good(items, Sections)
    <3>1. ~m /\ present.version = loaded /\ catalog = Catalogs[loaded] /\ catalog \subseteq Sections
        BY <2>1, <2>6, CatalogTyped
    <3>2. Ids(present.items) \subseteq catalog
        BY <2>4, <3>1 DEF Fit
    <3>3. Ids(items) \subseteq catalog
        BY <1>3, <3>1, <3>2 DEF Allowed
    <3>4. ASSUME ~Repeats
          PROVE  Good(items, Sections)
      <4>1. Good(present.items, catalog)
          BY <2>4, <3>1, <3>4, GoodWithin DEF Fit
      <4>2. Good(items, catalog)
          BY <1>3, <3>1, <3>4, <4>1 DEF Allowed
      <4> QED BY <3>3, <4>2, GoodAll
    <3> QED BY <2>5, <3>1, <3>3, <3>4
  <2>7. Fit(draft, k)
      BY <2>5, <2>6 DEF Fit
  <2>8. Hist(k)
      BY <1>1, <2>1, HistLater
  <2>9. Hist(k)'
      BY <2>3, <2>5, <2>7, <2>8, HistChange
  <2>10. edits' \in 0..MaxEdits
      BY <1>1, <2>3, DraftAssumption DEF Change
  <2> QED BY <1>1, <2>1, <2>9, <2>10 DEF HistKept
<1> QED BY <1>2, <1>3 DEF EditsWell

LEMMA PreferencesHist ==
    ASSUME DInv, NEW p \in Preferences, SetPreferences(p)
    PROVE  HistKept
<1>1. PICK m : m = mixed /\ mixed' = m /\ m \in BOOLEAN
    BY DEF SetPreferences, DInv
<1>2. PICK draft : draft = [present EXCEPT !.preferences = p]
    OBVIOUS
<1>3. Change(draft)
    BY <1>2 DEF SetPreferences
<1>4. Fit(present, m) /\ present \in Drafts
    BY <1>1, PresentFits
<1>5. draft \in Drafts /\ draft.items = present.items /\ draft.version = present.version
    BY <1>2, <1>4 DEF Drafts
<1>6. Fit(draft, m)
    BY <1>4, <1>5 DEF Fit
<1>7. Hist(m)'
    BY <1>1, <1>3, <1>5, <1>6, HistChange DEF DInv
<1>8. edits' \in 0..MaxEdits
    BY <1>3, DraftAssumption DEF Change, DInv
<1> QED BY <1>1, <1>7, <1>8 DEF HistKept

LEMMA SameHist ==
    ASSUME DInv, UNCHANGED <<history, edits, mixed>>
    PROVE  HistKept
<1>1. PICK m : m = mixed /\ mixed' = m
    OBVIOUS
<1>2. Hist(m)'
    BY <1>1, HistSame DEF DInv
<1> QED BY <1>1, <1>2 DEF DInv, HistKept

LEMMA LineHist ==
    ASSUME DInv, UndoItems \/ RedoItems, UNCHANGED <<edits, mixed>>
    PROVE  HistKept
<1>1. PICK m : m = mixed /\ mixed' = m
    OBVIOUS
<1>2. Hist(m)'
    BY <1>1, HistUndo, HistRedo DEF DInv
<1> QED BY <1>1, <1>2 DEF DInv, HistKept

LEMMA LoadHist ==
    ASSUME DInv, LoadTimetable
    PROVE  HistKept
<1>1. PICK m : m = mixed /\ mixed' = m
    BY DEF LoadTimetable
<1>2. PICK draft \in (({saved} \ {None}) \cup Shared) : Restart(draft)
    BY DEF LoadTimetable
<1>3. Fit(draft, m)
    BY <1>1, <1>2, SharedFits DEF DInv
<1>4. Hist(m)'
    BY <1>2, <1>3, HistRestart
<1> QED BY <1>1, <1>4 DEF DInv, LoadTimetable, HistKept

LEMMA GenerateSound ==
    ASSUME DInv, Generate
    PROVE  \E c : candidate' = c /\ Sound(c)
<1>1. PICK S \in Solutions :
          candidate' = [ids |-> Ascending(S), fingerprint |-> Fingerprint(present)]
    BY DEF Generate
<1>2. PICK c : /\ c = candidate' /\ c.ids = Ascending(S) /\ c.fingerprint = Fingerprint(present)
               /\ c.fingerprint.version = present.version
  <2>1. Fingerprint(present).version = present.version
      BY DEF Fingerprint
  <2> QED BY <1>1, <2>1
<1>3. loaded # None /\ catalog = Catalogs[loaded] /\ present.version = published
    BY CatalogTyped DEF Generate
<1>4. published \in 1..Len(Catalogs) /\ present \in Drafts
    BY PresentFits, CatalogsTyped DEF DInv
<1>5. c.ids \in Seq(Sections)
  <2>1. S \subseteq Sections
      BY <1>4, CatalogsTyped, Zenon DEF Solutions
  <2>2. IsFiniteSet(S) /\ S \subseteq Nat
      BY <2>1, DraftAssumption, FS_Subset
  <2>3. PICK size \in Nat : size = Cardinality(S)
      BY <2>2, FS_CardinalityType
  <2>4. \A n \in 1..size : Ascending(S)[n] \in S
      BY <2>2, <2>3, Ascends
  <2>5. Ascending(S) = [n \in 1..size |-> Ascending(S)[n]]
      BY <2>3 DEF Ascending
  <2>6. Ascending(S) \in [1..size -> Sections]
      BY <2>1, <2>4, <2>5
  <2> QED BY <1>2, <2>6, SeqDef
<1>6. ASSUME present.version = loaded
      PROVE  BoundOK(c)
  <2>1. catalog = Catalogs[published]
      BY <1>3, <1>6
  <2>2. \A n \in DOMAIN present.items :
            IsActive(present.items[n].role) => present.items[n].section \in catalog
      BY <2>1 DEF Generate, Where
  <2>3. Bound(present.items, c.ids)
      BY <1>2, <1>4, <2>1, <2>2, SolutionBound
  <2> QED BY <1>2, <1>3, <2>3, BoundFresh
<1> QED BY <1>2, <1>3, <1>5, <1>6 DEF Sound

(* An edit of the draft by one of the handlers.                            *)
LEMMA EditKept ==
    ASSUME DInv, EditsWell, loaded # None, selected' \in {None} \cup Sections, Edited
    PROVE  DInv'
<1>1. HistKept
    BY EditHist DEF Edited
<1> QED BY <1>1, Stays DEF Edited, DInv, HistKept

LEMMA EditStep ==
    ASSUME DInv,
           \/ RemoveSection
           \/ \E s \in Sections :
                 \/ Search(s) \/ AddCandidate(s) \/ Promote(s) \/ AddRequired(s)
                 \/ RemovePassiveCourse(s) \/ ApplyBackup(s) \/ SwapSection(s)
           \/ \E s, t \in Sections : DragReplace(s, t)
           \/ \E role \in Roles : SetRole(role)
           \/ \E mode \in {"AUTO", "PROFESSOR", "SECTION"} : SetAdjustmentMode(mode)
    PROVE  DInv'
<1>0. /\ present.items \in Seq(Items) /\ catalog \subseteq Sections
      /\ loaded = None => catalog = {}
    BY PresentFits, CatalogTyped
<1>1. ASSUME NEW s \in Sections, Search(s) \/ AddCandidate(s) \/ Promote(s) \/ AddRequired(s)
      PROVE  DInv'
  <2>1. EditsWell
      BY <1>0, <1>1, AddsWell
  <2>2. s \in catalog /\ selected' = selected /\ Edited
      BY <1>1 DEF Search, AddCandidate, Promote, AddRequired
  <2> QED BY <1>0, <2>1, <2>2, EditKept DEF DInv
<1>2. ASSUME NEW s \in Sections, RemovePassiveCourse(s) \/ RemoveSection
      PROVE  DInv'
  <2>1. EditsWell
      BY <1>0, <1>2, RemovesWell
  <2>2. catalog # {} /\ selected' \in {None, selected} /\ Edited
      BY <1>2 DEF RemovePassiveCourse, RemoveSection
  <2> QED BY <1>0, <2>1, <2>2, EditKept DEF DInv
<1>3. ASSUME NEW s \in Sections, ApplyBackup(s)
      PROVE  DInv'
  <2>1. EditsWell
      BY <1>0, <1>3, ApplyBackupWell
  <2>2. s \in catalog /\ selected' = selected /\ Edited
      BY <1>3 DEF ApplyBackup
  <2> QED BY <1>0, <2>1, <2>2, EditKept DEF DInv
<1>4. ASSUME NEW t \in Sections, SwapSection(t)
      PROVE  DInv'
  <2>1. selected \in catalog /\ selected' = t /\ Edited
      BY <1>4 DEF SwapSection
  <2>2. EditsWell
      BY <1>0, <1>4, <2>1, SwapsWell
  <2> QED BY <1>0, <2>1, <2>2, EditKept DEF DInv
<1>5. ASSUME NEW s \in Sections, NEW t \in Sections, DragReplace(s, t)
      PROVE  DInv'
  <2>1. EditsWell
      BY <1>0, <1>5, SwapsWell
  <2>2. t \in catalog /\ selected' = selected /\ Edited
      BY <1>5 DEF DragReplace, FindAlternatives
  <2> QED BY <1>0, <2>1, <2>2, EditKept DEF DInv
<1>6. ASSUME NEW role \in Roles, SetRole(role)
      PROVE  DInv'
  <2>1. selected \in catalog /\ selected' = selected /\ Edited
      BY <1>6 DEF SetRole
  <2>2. EditsWell
      BY <1>0, <1>6, <2>1, SetRoleWell
  <2> QED BY <1>0, <2>1, <2>2, EditKept DEF DInv
<1>7. ASSUME NEW mode, SetAdjustmentMode(mode)
      PROVE  DInv'
  <2>1. selected \in catalog /\ selected' = selected /\ Edited
      BY <1>7 DEF SetAdjustmentMode
  <2>2. EditsWell
      BY <1>0, <1>7, <2>1, SetModeWell
  <2> QED BY <1>0, <2>1, <2>2, EditKept DEF DInv
<1>8. CASE RemoveSection
  <2>1. selected \in Sections
      BY <1>0, <1>8 DEF RemoveSection
  <2> QED BY <1>2, <1>8, <2>1
<1> QED BY <1>1, <1>2, <1>3, <1>4, <1>5, <1>6, <1>7, <1>8

LEMMA PageStep ==
    ASSUME DInv,
           \/ Undo \/ Redo \/ CloseSheet \/ SaveCurrent \/ LoadTimetable
           \/ \E s \in Sections : Select(s)
           \/ \E p \in Preferences : SetPreferences(p)
    PROVE  DInv'
<1>0. Sound(candidate) /\ Sound(preview) /\ Sound(None) /\ selected \in {None} \cup Sections
    BY DEF DInv, Sound
<1>1. CASE Undo \/ Redo
  <2>1. HistKept
      BY <1>1, LineHist DEF Undo, Redo, Edited
  <2> QED BY <1>0, <1>1, <2>1, Stays DEF Undo, Redo, Edited, HistKept
<1>2. CASE CloseSheet \/ \E s \in Sections : Select(s)
  <2>1. HistKept
      BY <1>2, SameHist DEF CloseSheet, Select, Edited
  <2> QED BY <1>0, <1>2, <2>1, Stays DEF CloseSheet, Select, Edited, HistKept
<1>3. ASSUME NEW p \in Preferences, SetPreferences(p)
      PROVE  DInv'
  <2>1. HistKept
      BY <1>3, PreferencesHist
  <2> QED BY <1>0, <1>3, <2>1, Stays DEF SetPreferences, Edited, HistKept
<1>4. CASE SaveCurrent
  <2>1. HistKept
      BY <1>4, SameHist DEF SaveCurrent
  <2> QED BY <1>0, <1>4, <2>1, Stays DEF SaveCurrent, HistKept
<1>5. CASE LoadTimetable
  <2>1. HistKept
      BY <1>5, LoadHist
  <2> QED BY <1>0, <1>5, <2>1, Stays DEF LoadTimetable, HistKept
<1> QED BY <1>1, <1>2, <1>3, <1>4, <1>5

LEMMA CandidateStep ==
    ASSUME DInv, Generate \/ PreviewCandidate \/ DropStale \/ CancelPreview \/ ApplyCandidate
    PROVE  DInv'
<1>0. Sound(candidate) /\ Sound(preview) /\ Sound(None) /\ selected \in {None} \cup Sections
    BY DEF DInv, Sound
<1>1. CASE Generate
  <2>1. HistKept
      BY <1>1, SameHist DEF Generate
  <2>2. PICK c : candidate' = c /\ Sound(c)
      BY <1>1, GenerateSound
  <2> QED BY <1>0, <1>1, <2>1, <2>2, Stays DEF Generate, HistKept
<1>2. CASE PreviewCandidate \/ DropStale \/ CancelPreview
  <2>1. HistKept
      BY <1>2, SameHist DEF PreviewCandidate, DropStale, CancelPreview
  <2>2. PICK c, p : candidate' = c /\ Sound(c) /\ preview' = p /\ Sound(p)
      BY <1>0, <1>2 DEF PreviewCandidate, DropStale, CancelPreview
  <2> QED BY <1>0, <1>2, <2>1, <2>2, Stays DEF PreviewCandidate, DropStale, CancelPreview, HistKept
<1>3. CASE ApplyCandidate
  <2>1. EditsWell /\ loaded # None
      BY <1>0, <1>3, PresentFits, ApplyWell
  <2>2. HistKept
      BY <1>3, <2>1, EditHist DEF ApplyCandidate
  <2> QED BY <1>0, <1>3, <2>2, Stays DEF ApplyCandidate, HistKept
<1> QED BY <1>1, <1>2, <1>3

(* Steps that change the course data that the page has or the server gives. *)
LEMMA ReleaseStep ==
    ASSUME DInv, FetchCatalog \/ Reload \/ Publish
    PROVE  DInv'
<1>0. PICK m : m = mixed /\ m \in BOOLEAN
    BY DEF DInv
<1>1. CASE FetchCatalog
  <2>1. PICK v \in LoadCatalog :
            /\ loaded' = v /\ cached' \in {cached, v} /\ loaded = None
            /\ Hydrate(v) \/ UNCHANGED history
            /\ preview' = None /\ mixed' = m
            /\ UNCHANGED <<selected, candidate, saved, published, edits>>
      BY <1>0, <1>1 DEF FetchCatalog
  <2>2. v \in DOMAIN Catalogs
      BY DraftAssumption DEF LoadCatalog, DInv
  <2>3. Hist(m)'
      BY <1>0, <2>1, <2>2, HistHydrate, HistSame DEF DInv
  <2>4. candidate' = None /\ Sound(candidate)' /\ Sound(preview)'
      BY <2>1 DEF DInv, Sound
  <2>5. PICK s : s = saved /\ saved' = s
      BY <2>1
  <2>6. s = None \/ Fit(s, m)'
      BY <1>0, <2>5, FitSame DEF DInv
  <2> QED BY <1>0, <2>1, <2>2, <2>3, <2>4, <2>5, <2>6 DEF DInv
<1>2. CASE Reload
  <2>1. PICK draft \in {present} \cup Shared : Restart(Normalize(draft))
      BY <1>2 DEF Reload, LoadSavedDraft
  <2>2. Fit(draft, m)
      BY <1>0, <2>1, PresentFits, SharedFits
  <2>3. Fit(Normalize(draft), m)
      BY <2>2, NormalizedFits
  <2>4. Hist(m)'
      BY <2>1, <2>3, HistRestart
  <2>5. /\ loaded' = None /\ selected' = None /\ candidate' = None /\ preview' = None
        /\ mixed' = m /\ UNCHANGED <<edits, cached, saved, published>>
      BY <1>0, <1>2 DEF Reload
  <2>6. PICK s : s = saved /\ saved' = s
      BY <2>5
  <2>7. s = None \/ Fit(s, m)'
      BY <1>0, <2>6, FitSame DEF DInv
  <2>8. Sound(candidate)' /\ Sound(preview)'
      BY <2>5 DEF Sound
  <2> QED BY <1>0, <2>4, <2>5, <2>6, <2>7, <2>8 DEF DInv
<1>3. CASE Publish
  <2>1. /\ published' = published + 1 /\ published < Len(Catalogs) /\ mixed' = m
        /\ UNCHANGED <<history, edits, cached, loaded, selected, candidate, preview, saved>>
      BY <1>0, <1>3 DEF Publish
  <2>2. published' \in DOMAIN Catalogs
      BY <2>1, CatalogsTyped DEF DInv
  <2>3. Hist(m)'
      BY <1>0, <2>1, HistSame DEF DInv
  <2>4. PICK s : s = saved /\ saved' = s
      BY <2>1
  <2>5. s = None \/ Fit(s, m)'
      BY <1>0, <2>4, FitSame DEF DInv
  <2>6. Sound(candidate)' /\ Sound(preview)'
    <3>1. PICK c, p : c = candidate /\ c = candidate' /\ p = preview /\ p = preview'
        BY <2>1
    <3> QED BY <2>1, <3>1, SoundSame DEF DInv
  <2> QED BY <1>0, <2>1, <2>2, <2>3, <2>4, <2>5, <2>6 DEF DInv
<1> QED BY <1>1, <1>2, <1>3

LEMMA StutterStep ==
    ASSUME DInv, UNCHANGED vars
    PROVE  DInv'
<1>1. HistKept
    BY SameHist DEF vars, history
<1>2. Sound(candidate) /\ Sound(preview) /\ selected \in {None} \cup Sections
    BY DEF DInv
<1> QED BY <1>1, <1>2, Stays DEF vars, HistKept

LEMMA DInit == Init => DInv
<1> SUFFICES ASSUME Init PROVE DInv
    OBVIOUS
<1>1. PICK draft \in Starts \cup Shared, data \in {None, 1} :
          /\ present = Normalize(draft)
          /\ past = << >> /\ future = << >>
          /\ loaded = None /\ selected = None /\ candidate = None /\ preview = None
          /\ saved = None /\ published = 1 /\ cached = data /\ mixed = FALSE /\ edits = 0
    BY DEF Init, LoadSavedDraft
<1>2. 1 \in DOMAIN Catalogs /\ MaxEdits \in Nat
    BY CatalogsTyped, DraftAssumption
<1>3. WellMade(draft)
    BY <1>1, DraftAssumption
<1>4. Fit(present, FALSE)
    BY <1>1, <1>3, WellMadeFits
<1>5. PICK S : S = PeersOf(FALSE, present.version) /\ present \in S
    BY <1>4 DEF PeersOf, Fit
<1>6. past \in Seq(S) /\ future \in Seq(S)
    BY <1>1, EmptySeq
<1>7. Hist(FALSE)
    BY <1>5, <1>6 DEF Hist
<1>8. Hist(mixed) /\ mixed \in BOOLEAN
    BY <1>1, <1>7
<1>9. Sound(candidate) /\ Sound(preview)
    BY <1>1 DEF Sound
<1>10. edits \in 0..MaxEdits /\ cached \in {None} \cup DOMAIN Catalogs
    BY <1>1, <1>2
<1> QED BY <1>1, <1>2, <1>8, <1>9, <1>10 DEF DInv

LEMMA DStep == DInv /\ [Next]_vars => DInv'
<1> SUFFICES ASSUME DInv, [Next]_vars PROVE DInv'
    OBVIOUS
<1>1. CASE UNCHANGED vars
    BY <1>1, StutterStep
<1>2. CASE FetchCatalog \/ Reload \/ Publish
    BY <1>2, ReleaseStep
<1>3. CASE Generate \/ PreviewCandidate \/ DropStale \/ CancelPreview \/ ApplyCandidate
    BY <1>3, CandidateStep
<1>4. CASE \/ Undo \/ Redo \/ CloseSheet \/ SaveCurrent \/ LoadTimetable
           \/ \E s \in Sections : Select(s)
           \/ \E p \in Preferences : SetPreferences(p)
    BY <1>4, PageStep
<1>5. CASE \/ RemoveSection
           \/ \E s \in Sections :
                 \/ Search(s) \/ AddCandidate(s) \/ Promote(s) \/ AddRequired(s)
                 \/ RemovePassiveCourse(s) \/ ApplyBackup(s) \/ SwapSection(s)
           \/ \E s, t \in Sections : DragReplace(s, t)
           \/ \E role \in Roles : SetRole(role)
           \/ \E mode \in {"AUTO", "PROFESSOR", "SECTION"} : SetAdjustmentMode(mode)
    BY <1>5, EditStep
<1> QED BY <1>1, <1>2, <1>3, <1>4, <1>5 DEF Next
-----------------------------------------------------------------------------
(* Every draft of the history, the saved timetable and the candidates stay *)
(* what the invariant says, whatever students do and the server publishes. *)
THEOREM DraftInvariance == Spec => []DInv
BY DInit, DStep, PTL DEF Spec

LEMMA DistinctCount ==
    ASSUME NEW items \in Seq(Items),
           \A m, n \in DOMAIN items : m # n => items[m].section # items[n].section
    PROVE  Cardinality(Ids(items)) = Len(items)
<1> DEFINE section == [n \in DOMAIN items |-> items[n].section]
<1>1. PICK size \in Nat : size = Len(items) /\ DOMAIN items = 1..size
    BY LenProperties
<1>2. section \in Bijection(1..size, Ids(items))
    BY <1>1 DEF Ids, Bijection, Injection, Surjection, IsInjective
<1> HIDE DEF section
<1>3. IsFiniteSet(1..size) /\ Cardinality(1..size) = size
  <2>1. 1 \in Int /\ size \in Int
      BY <1>1
  <2>2. IsFiniteSet(1..size) /\ Cardinality(1..size) = IF 1 > size THEN 0 ELSE size - 1 + 1
      BY <2>1, FS_Interval
  <2> QED BY <1>1, <2>2
<1>4. Cardinality(Ids(items)) = Cardinality(1..size)
    BY <1>2, <1>3, FS_Bijection DEF ExistsBijection
<1> QED BY <1>1, <1>3, <1>4

LEMMA DKnown == DInv => TypeOK /\ HistoryKnown
<1> SUFFICES ASSUME DInv PROVE TypeOK /\ HistoryKnown
    OBVIOUS
<1>1. PICK w, S : /\ S = PeersOf(mixed, w) /\ present \in S
                  /\ past \in Seq(S) /\ future \in Seq(S)
    BY DEF DInv, Hist
<1>2. S \subseteq Drafts
    BY <1>1 DEF PeersOf
<1>3. past \in Seq(Drafts) /\ present \in Drafts /\ future \in Seq(Drafts)
    BY <1>1, <1>2, SeqMonotonic
<1>4. saved \in {None} \cup Drafts
    BY DEF DInv, Fit
<1>5. TypeOK
    BY <1>3, <1>4 DEF TypeOK, DInv
<1>6. PICK line : line = past \o <<present>> \o future /\ line \in Seq(S)
    BY <1>1, LineTyped
<1>7. ASSUME NEW n \in DOMAIN line
      PROVE  /\ line[n].version = present.version
             /\ ~mixed /\ loaded # None /\ line[n].version = loaded =>
                    Ids(line[n].items) \subseteq catalog
  <2>1. line[n] \in S
      BY <1>6, ElementOfSeq, LenProperties
  <2>2. line[n].version = w /\ present.version = w /\ Fit(line[n], mixed)
      BY <1>1, <2>1 DEF PeersOf
  <2> QED BY <2>2, CatalogTyped DEF Fit
<1>8. HistoryKnown
    BY <1>6, <1>7 DEF HistoryKnown
<1> QED BY <1>5, <1>8

(* The types, and what a draft of the history holds of the course data:    *)
(* undo and redo never bring back a draft for other data, and what carries *)
(* the loaded version holds only its sections, unless items for other data *)
(* were edited.  Whatever students pick, and whichever version comes.      *)
THEOREM KnownCorrect == Spec => [](TypeOK /\ HistoryKnown)
BY DraftInvariance, DKnown, PTL

LEMMA DUsable ==
    ASSUME DInv, ~Repeats, ~mixed
    PROVE  ReloadFaithful /\ DistinctSections /\ OneActivePerCourse
<1>1. PICK items \in Seq(Items) : items = present.items
    BY PresentFits
<1>2. Good(items, Sections) /\ present \in Drafts
    BY <1>1, PresentFits DEF Fit
<1>3. ReloadFaithful
  <2>1. present = [items |-> present.items, preferences |-> present.preferences,
                   version |-> present.version]
      BY <1>2 DEF Drafts
  <2>2. \A n \in DOMAIN present.items : LocksFit(present.items[n])
      BY <1>1, <1>2 DEF Good
  <2>3. PICK new : new = Normalize(present)
      OBVIOUS
  <2>4. new = present
      BY <1>1, <2>1, <2>2, <2>3, NormalizedDraft
  <2> QED BY <2>3, <2>4 DEF ReloadFaithful
<1>4. DistinctSections
  <2>1. \A m, n \in DOMAIN items : m # n => items[m].section # items[n].section
      BY <1>2 DEF Good
  <2> QED BY <1>1, <2>1, DistinctCount DEF DistinctSections
<1>5. OneActivePerCourse
  <2>1. ASSUME NEW m \in DOMAIN items, NEW n \in DOMAIN items, m # n,
               IsActive(items[m].role), IsActive(items[n].role),
               OfCourse(items[m], items[n].section), OfCourse(items[n], items[m].section)
        PROVE  FALSE
    <3>1. Compatible(items[m], items[n], Sections)
        BY <1>2, <2>1 DEF Good
    <3>2. items[m].section \in Sections /\ items[n].section \in Sections
        BY <2>1, CatalogTyped DEF OfCourse
    <3> QED BY <2>1, <3>1, <3>2 DEF OfCourse, Compatible
  <2> QED BY <1>1, <2>1 DEF OneActivePerCourse
<1> QED BY <1>3, <1>4, <1>5

(* The draft can be shown, sent and read again: no section twice, no       *)
(* course placed twice, no lock that the reader would drop, for any        *)
(* versions of the course data in any order.  It is false without the      *)
(* hypothesis.                                                             *)
THEOREM UsableCorrect ==
    ASSUME ~Repeats
    PROVE  Spec => []DraftUsable
<1>1. DInv => DraftUsable
    BY DUsable, DKnown DEF DraftUsable
<1> QED BY <1>1, DraftInvariance, PTL

(* Applying a candidate to a draft for the course data of the page keeps   *)
(* what the student asked for.                                             *)
THEOREM IntentCorrect ==
    ASSUME ~Repeats
    PROVE  Spec => ApplyKeepsIntent
<1>1. ASSUME DInv, ApplyCandidate, Own
      PROVE  KeepsIntent(present.items, present'.items)
  <2>1. present \in Drafts /\ Sound(preview) /\ Good(present.items, Sections)
      BY <1>1, PresentFits DEF DInv, Own, Fit
  <2>2. /\ present.version = loaded
        /\ Good(present.items, catalog) => KeepsIntent(present.items, present'.items)
      BY <1>1, <2>1, ApplyWell DEF Own
  <2>3. Good(present.items, catalog)
      BY <1>1, <2>1, CatalogTyped, GoodWithin
  <2> QED BY <2>2, <2>3
<1>2. DInv /\ [Next]_vars => [ApplyCandidate /\ Own => KeepsIntent(present.items, present'.items)]_vars
    BY <1>1
<1> QED BY <1>2, DraftInvariance, PTL DEF Spec, ApplyKeepsIntent
==============================================================================
