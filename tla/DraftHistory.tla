---------------------------- MODULE DraftHistory ----------------------------
(***************************************************************************)
(* The timetable draft of the web editor: the reducer with undo and redo   *)
(* of state/draft.ts and the handlers of App.tsx that dispatch to it, with *)
(* the generated candidates that a student previews and applies.           *)
(*                                                                         *)
(* Handlers run one at a time.  The course data arrives some time after    *)
(* the page was loaded, and a generated candidate some time after it was   *)
(* asked for: the draft may have changed in between.  When the server does *)
(* not answer, the page takes the course data from a file of the site or   *)
(* from the browser's cache, and these may be of another version.  The     *)
(* draft is saved in the browser after every change, and read back when    *)
(* the page is reloaded, unless the address holds a draft of its own.      *)
(***************************************************************************)
EXTENDS Naturals, Sequences, FiniteSets

CONSTANTS
    Catalogs,     \* the sections of each version of the course data
    CourseOf, ProfessorOf,  \* course and professor of each section
    Clash,        \* the pairs of sections whose sessions overlap
    None,         \* nothing: no version, preview, candidate, professor
    Preferences,  \* values of the preferences, abstract
    Packaged,     \* versions of the file of course data that comes with the site
    Cap,          \* how many past drafts are kept
    Starts,       \* the drafts a page may find in the browser's storage
    Shared,       \* drafts of other pages, in a link or in a shared timetable
    Offered,      \* bound: what students do
    Repeats,      \* whether they pick sections the draft holds as a backup
    MaxEdits      \* bound: changes of the draft

Sections == DOMAIN CourseOf
Roles == {"must", "want", "backup", "exclude"}
Items == [section : Sections, role : Roles, locked : BOOLEAN, professorLocked : BOOLEAN]
Ops == {"search", "basket", "required", "detail", "drag", "checklist", "remove_passive",
        "preferences", "generate", "save", "load", "reload", "publish"}

IsActive(role) == role \in {"must", "want"}

(* Two items of a list that name sections of C: a course is placed once, and *)
(* one that is excluded has no other item.                                   *)
Compatible(i, j, C) ==
    i.section \in C /\ j.section \in C /\ CourseOf[i.section] = CourseOf[j.section]
        => i.role # "exclude" /\ j.role # "exclude" /\ ~(IsActive(i.role) /\ IsActive(j.role))

(* A locked item is active, and it or its professor is locked, not both.     *)
LocksFit(item) ==
    ~(item.locked /\ item.professorLocked)
    /\ (item.locked \/ item.professorLocked => IsActive(item.role))

Drafts == [items : Seq(Items), preferences : Preferences, version : {None} \cup DOMAIN Catalogs]

(* A draft as a page leaves it that knows the sections of its drafts, by     *)
(* students as Repeats = FALSE has them.                                     *)
WellMade(draft) ==
    /\ draft \in Drafts
    /\ \A m, n \in DOMAIN draft.items : LET i == draft.items[m]  j == draft.items[n] IN
          /\ draft.version # None => i.section \in Catalogs[draft.version]
          /\ m # n => i.section # j.section /\ Compatible(i, j, Sections)

ASSUME DraftAssumption ==
    /\ Sections \subseteq Nat /\ IsFiniteSet(Sections) /\ None \notin Nat
    /\ DOMAIN ProfessorOf = Sections
    /\ Catalogs \in Seq(SUBSET Sections) \ {<< >>} /\ Packaged \subseteq DOMAIN Catalogs
    /\ Clash \subseteq Sections \X Sections
    /\ Cap \in Nat \ {0}
    /\ \A draft \in Starts \cup Shared : WellMade(draft)
    /\ \A draft \in Shared : \A n \in DOMAIN draft.items : LocksFit(draft.items[n])
    /\ Offered \subseteq Ops /\ Repeats \in BOOLEAN /\ MaxEdits \in Nat

VARIABLES
    past, present, future,  \* HistoryState
    loaded,     \* version of the course data on the page, None before it came
    selected,   \* the section whose sheet is open
    candidate,  \* the candidate the optimizer panel shows, with its fingerprint
    preview,    \* candidatePreview
    saved,      \* the timetable saved on the server
    published,  \* version of the course data that the server gives
    cached,     \* version of the course data in the browser's cache
    mixed,      \* history: were items of a draft for other course data edited?
    edits       \* how often the draft was changed

history == <<past, present, future>>
vars == <<past, present, future, loaded, selected, candidate, preview, saved, published, cached,
          mixed, edits>>

catalog == IF loaded = None THEN {} ELSE Catalogs[loaded]
-----------------------------------------------------------------------------
(* Items.  *)

Ids(items) == {items[n].section : n \in DOMAIN items}
Each(items, F(_)) == [n \in DOMAIN items |-> F(items[n])]
OfCourse(item, s) == item.section \in catalog /\ CourseOf[item.section] = CourseOf[s]

NewItem(s, role) ==
    [section |-> s, role |-> role, locked |-> FALSE, professorLocked |-> FALSE]
Demoted(item) == NewItem(item.section, "backup")

(* The places of the items that satisfy P, and the first of them.  *)
Where(items, P(_)) == {n \in DOMAIN items : P(items[n])}
First(places) == CHOOSE n \in places : \A m \in places : n <= m
LastOf(places) == CHOOSE n \in places : \A m \in places : m <= n

(* The numbers of S in ascending order.  *)
Rank(S, k) == Cardinality({m \in S : m <= k})
Ascending(S) == [n \in 1..Cardinality(S) |-> CHOOSE k \in S : Rank(S, k) = n]

(* The items at some places, in their order.  *)
At(items, places) == [n \in 1..Cardinality(places) |-> items[Ascending(places)[n]]]
Filter(items, P(_)) == At(items, Where(items, P))

ActiveSections == {i.section : i \in {present.items[n] : n \in
    Where(present.items, LAMBDA i : IsActive(i.role) /\ i.section \in catalog)}}

Overlap(s, t) == <<s, t>> \in Clash \/ <<t, s>> \in Clash

CanPlace(s, others, except) ==
    \A t \in others \ {except} : CourseOf[s] = CourseOf[t] \/ ~Overlap(s, t)

FindAlternatives(s) ==
    {t \in catalog : CourseOf[t] = CourseOf[s] /\ t # s /\ CanPlace(t, ActiveSections, s)}

ItemsWithCourseRole(items, s, role) ==
    LET other == Filter(items, LAMBDA i : ~OfCourse(i, s))
        kept == Filter(items, LAMBDA i : ~(i.role = "exclude" /\ OfCourse(i, s)))
        Change(i) ==
            IF i.section = s
            THEN [section |-> s, role |-> role, locked |-> IsActive(role) /\ i.locked,
                  professorLocked |-> IsActive(role) /\ i.professorLocked]
            ELSE IF IsActive(role) /\ OfCourse(i, s) /\ IsActive(i.role) THEN Demoted(i) ELSE i
    IN  IF role = "exclude" THEN Append(other, NewItem(s, role))
        ELSE IF s \in Ids(kept) THEN Each(kept, Change)
        ELSE Append(Each(kept, Change), NewItem(s, role))

ItemsWithAppliedBackup(items, s) ==
    LET places == Where(items, LAMBDA i : i.section # s /\ OfCourse(i, s) /\ IsActive(i.role))
        active == IF places = {} THEN NewItem(None, "want") ELSE items[First(places)]
        Change(i) == IF i.section = s
                     THEN [i EXCEPT !.role = active.role, !.locked = active.locked,
                                    !.professorLocked = active.professorLocked]
                     ELSE IF i.section = active.section THEN Demoted(i) ELSE i
    IN  Each(items, Change)

(* The draft items for a candidate: an id that the draft holds keeps its    *)
(* lock, a course that was a must stays one.                                *)
PlanItemsForCandidate(ids, items) ==
    LET must == {CourseOf[i.section] : i \in {items[n] : n \in
                    Where(items, LAMBDA i : i.role = "must" /\ i.section \in catalog)}}
        Holders(s) == Where(items, LAMBDA i : i.section = s)
        Lockers(s) == Where(items, LAMBDA i : i.professorLocked /\ OfCourse(i, s)
                                              /\ ProfessorOf[i.section] # None)
    IN  [n \in DOMAIN ids |-> LET s == ids[n] IN
            [section |-> s,
             role |-> IF s \in catalog /\ CourseOf[s] \in must THEN "must" ELSE "want",
             locked |-> Holders(s) # {} /\ items[LastOf(Holders(s))].locked,
             professorLocked |-> s \in catalog /\ Lockers(s) # {}
                 /\ ProfessorOf[items[LastOf(Lockers(s))].section] = ProfessorOf[s]]]

(* How a draft that was written down is read again.  *)
Normalize(draft) ==
    [draft EXCEPT !.items = Each(draft.items, LAMBDA i :
        [i EXCEPT !.locked = IsActive(i.role) /\ @,
                  !.professorLocked = IsActive(i.role) /\ ~i.locked /\ @])]

(* What a generated candidate is bound to: the draft up to the order of its *)
(* items.                                                                   *)
Fingerprint(draft) ==
    [version |-> draft.version, preferences |-> draft.preferences,
     items |-> [i \in {draft.items[n] : n \in DOMAIN draft.items} |->
                   Cardinality(Where(draft.items, LAMBDA j : j = i))]]
-----------------------------------------------------------------------------
(* The reducer.  *)

\* Mutant: an edit keeps the drafts that were undone.
ChangeKeepFuture(draft) ==
    /\ edits < MaxEdits /\ edits' = edits + 1
    /\ past' = Append(IF Len(past) < Cap THEN past ELSE Tail(past), present)
    /\ present' = draft /\ UNCHANGED future

Change(draft) ==
    /\ edits < MaxEdits /\ edits' = edits + 1
    /\ past' = Append(IF Len(past) < Cap THEN past ELSE SubSeq(past, Len(past) - Cap + 2, Len(past)), present)
    /\ present' = draft
    /\ future' = << >>

ChangeItems(items) ==
    /\ Change([present EXCEPT !.items = items])
    /\ mixed' = (mixed \/ present.version # loaded)

Restart(draft) == past' = << >> /\ present' = draft /\ future' = << >>

\* Mutant: only the draft on the screen loses the vanished sections.
HydratePresent(v) ==
    /\ present' = [present EXCEPT !.version = v,
                   !.items = Filter(present.items, LAMBDA i : i.section \in Catalogs[v])]
    /\ UNCHANGED <<past, future>>

Hydrate(v) ==
    LET Hydrated(draft) == [draft EXCEPT !.version = v,
                            !.items = Filter(draft.items, LAMBDA i : i.section \in Catalogs[v])]
    IN  /\ past' = Each(past, Hydrated)
        /\ present' = Hydrated(present)
        /\ future' = Each(future, Hydrated)

AddItem(item) ==
    IF item.section \in Ids(present.items) THEN UNCHANGED <<history, edits, mixed>>
    ELSE ChangeItems(Append(present.items, item))

Remove(s) == ChangeItems(Filter(present.items, LAMBDA i : i.section # s))

SwapItem(from, to) ==
    ChangeItems(Each(present.items, LAMBDA i :
        IF i.section = from THEN [i EXCEPT !.section = to] ELSE i))

ApplyItems(items) ==
    ChangeItems(items \o Filter(present.items, LAMBDA i :
        ~IsActive(i.role) /\ i.section \notin Ids(items)))

UndoItems ==
    /\ past # << >>
    /\ past' = SubSeq(past, 1, Len(past) - 1)
    /\ present' = past[Len(past)]
    /\ future' = <<present>> \o future

RedoItems ==
    /\ future # << >>
    /\ past' = Append(past, present)
    /\ present' = future[1]
    /\ future' = Tail(future)

AddSection(s, role) ==
    LET items == present.items
        excluded == Where(items, LAMBDA i : i.role = "exclude" /\ OfCourse(i, s))
        active == Where(items, LAMBDA i : OfCourse(i, s) /\ IsActive(i.role))
        same == items[First(active)]
        Replaced(i) ==
            IF i.section # same.section THEN i
            ELSE [i EXCEPT !.section = s,
                           !.role = IF "must" \in {role, i.role} THEN "must" ELSE i.role,
                           !.professorLocked = @ /\ ProfessorOf[same.section] = ProfessorOf[s]]
    IN  IF excluded # {}
        THEN ChangeItems(Append(Filter(items, LAMBDA i :
                 ~(i.role = "exclude" /\ OfCourse(i, s))), NewItem(s, role)))
        ELSE IF active # {} /\ IsActive(role) THEN ChangeItems(Each(items, Replaced))
        ELSE IF s \in Ids(items) THEN ChangeItems(ItemsWithCourseRole(items, s, role))
        ELSE AddItem(NewItem(s, role))
-----------------------------------------------------------------------------
(* The page.  While the sheet of a section is open nothing behind it can be *)
(* reached, but the keys for undo and redo work.                            *)

(* What the page starts with: a draft in its address goes before the stored *)
(* one.                                                                     *)
LoadSavedDraft(stored) == {Normalize(draft) : draft \in {stored} \cup Shared}

Init ==
    \E start \in Starts, data \in {None, 1} :
        /\ present \in LoadSavedDraft(start)
        /\ past = << >> /\ future = << >>
        /\ loaded = None /\ selected = None /\ candidate = None /\ preview = None
        /\ saved = None /\ published = 1 /\ cached = data /\ mixed = FALSE /\ edits = 0

Free(op) == op \in Offered /\ selected = None

(* The bound on what students do: is a section that already has a place     *)
(* picked to replace another one?                                           *)
MayReplace(s) ==
    Repeats \/ s \notin Ids(present.items)
    \/ \A n \in DOMAIN present.items :
           OfCourse(present.items[n], s) /\ IsActive(present.items[n].role)
               => present.items[n].section = s

Edited == UNCHANGED <<loaded, candidate, preview, saved, published, cached>>

(* Where the page may get its course data: the server, or when that fails   *)
(* the file of the site, or else the cache.  Without any the page waits for *)
(* the student to ask again.                                                *)
LoadCatalog == {published} \cup Packaged \cup ({cached} \ {None})

FetchCatalog ==
    /\ loaded = None
    /\ \E v \in LoadCatalog :
          /\ loaded' = v /\ cached' \in {cached, v}
          /\ IF present.version # v \/ ~(Ids(present.items) \subseteq Catalogs[v])
             THEN Hydrate(v) ELSE UNCHANGED history
    /\ preview' = None
    /\ UNCHANGED <<selected, candidate, saved, published, mixed, edits>>

Search(s) ==
    /\ Free("search") /\ s \in catalog \ Ids(present.items)
    /\ AddSection(s, "want") /\ UNCHANGED selected /\ Edited

AddCandidate(s) ==
    /\ Free("basket") /\ s \in catalog
    /\ \A n \in DOMAIN present.items :
           OfCourse(present.items[n], s) => present.items[n].role = "exclude"
    /\ AddSection(s, "backup") /\ UNCHANGED selected /\ Edited

(* The basket shows the first backup of a course.  *)
Promote(s) ==
    LET backups == Where(present.items, LAMBDA i : i.role = "backup" /\ OfCourse(i, s))
    IN  /\ Free("basket") /\ s \in catalog /\ backups # {}
        /\ present.items[First(backups)].section = s
        /\ MayReplace(s)
        /\ AddSection(s, "want") /\ UNCHANGED selected /\ Edited

AddRequired(s) ==
    /\ Free("required") /\ s \in catalog /\ MayReplace(s)
    /\ AddSection(s, "must") /\ UNCHANGED selected /\ Edited

RemovePassiveCourse(s) ==
    /\ Free("remove_passive") /\ s \in catalog
    /\ Where(present.items, LAMBDA i : OfCourse(i, s) /\ ~IsActive(i.role)) # {}
    /\ ChangeItems(Filter(present.items, LAMBDA i : IsActive(i.role) \/ ~OfCourse(i, s)))
    /\ UNCHANGED selected /\ Edited

ApplyBackup(s) ==
    /\ Free("checklist") /\ s \in catalog
    /\ Where(present.items, LAMBDA i : i.role = "backup" /\ i.section = s) # {}
    /\ ChangeItems(ItemsWithAppliedBackup(present.items, s))
    /\ UNCHANGED selected /\ Edited

IsFresh(bound) == bound # None /\ bound.fingerprint = Fingerprint(present)

Select(s) ==
    /\ Free("detail") /\ s \in catalog
    /\ s \in ActiveSections \/ (IsFresh(preview) /\ \E n \in DOMAIN preview.ids : preview.ids[n] = s)
    /\ selected' = s /\ UNCHANGED <<history, edits, mixed>> /\ Edited

CloseSheet == selected # None /\ selected' = None /\ UNCHANGED <<history, edits, mixed>> /\ Edited

(* The item behind the sheet, as the sheet sees it.  *)
SelectedItem ==
    LET places == Where(present.items, LAMBDA i : i.section = selected)
    IN  IF places = {} THEN NewItem(selected, "want") ELSE present.items[First(places)]

AdjustmentMode == IF SelectedItem.locked THEN "SECTION"
                  ELSE IF SelectedItem.professorLocked THEN "PROFESSOR" ELSE "AUTO"

SetRole(role) ==
    /\ selected \in catalog /\ role # SelectedItem.role
    /\ ChangeItems(ItemsWithCourseRole(present.items, selected, role))
    /\ UNCHANGED selected /\ Edited

SetAdjustmentMode(mode) ==
    /\ selected \in catalog /\ IsActive(SelectedItem.role) /\ mode # AdjustmentMode
    /\ mode = "PROFESSOR" =>
           \/ SelectedItem.professorLocked
           \/ /\ ProfessorOf[selected] # None
              /\ \E t \in catalog \ {selected} :
                     CourseOf[t] = CourseOf[selected] /\ ProfessorOf[t] = ProfessorOf[selected]
    /\ ChangeItems(Each(present.items, LAMBDA i : IF i.section # selected THEN i
           ELSE [i EXCEPT !.locked = mode = "SECTION", !.professorLocked = mode = "PROFESSOR"]))
    /\ UNCHANGED selected /\ Edited

RemoveSection ==
    /\ selected \in catalog
    /\ Remove(selected) /\ selected' = None /\ Edited

SwapSection(to) ==
    /\ selected \in catalog /\ to \in FindAlternatives(selected)
    /\ SelectedItem.professorLocked => ProfessorOf[to] = ProfessorOf[selected]
    /\ Repeats \/ to \notin Ids(present.items)
    /\ SwapItem(selected, to) /\ selected' = to /\ Edited

DragReplace(from, to) ==
    LET places == Where(present.items, LAMBDA i : i.section = from)
        item == present.items[First(places)]
    IN  /\ Free("drag") /\ ~IsFresh(preview)
        /\ from \in ActiveSections /\ to \in FindAlternatives(from)
        /\ ~item.locked
        /\ item.professorLocked => ProfessorOf[to] = ProfessorOf[from]
        /\ Repeats \/ to \notin Ids(present.items)
        /\ SwapItem(from, to) /\ UNCHANGED selected /\ Edited

SetPreferences(p) ==
    /\ Free("preferences") /\ p # present.preferences
    /\ Change([present EXCEPT !.preferences = p]) /\ UNCHANGED <<selected, mixed>> /\ Edited

Undo == UndoItems /\ UNCHANGED <<selected, edits, mixed>> /\ Edited
Redo == RedoItems /\ UNCHANGED <<selected, edits, mixed>> /\ Edited

(* Generated candidates.  The server answers for the course data it has,    *)
(* with sections of the courses in the draft: one for each course that must *)
(* be in it, the locked sections, no other professor than a locked one.     *)
Solutions ==
    LET active == Where(present.items, LAMBDA i : IsActive(i.role))
        Courses(roles) == {CourseOf[i.section] : i \in {present.items[n] : n \in
            Where(present.items, LAMBDA i : i.role \in roles /\ i.section \in catalog)}}
    IN  {S \in SUBSET Catalogs[published] :
            /\ \A s, t \in S : s # t => CourseOf[s] # CourseOf[t] /\ ~Overlap(s, t)
            /\ {CourseOf[s] : s \in S} \subseteq Courses({"must", "want", "backup"})
            /\ Courses({"must"}) \subseteq {CourseOf[s] : s \in S}
            /\ \A n \in active : LET i == present.items[n] IN
                /\ i.locked => i.section \in S
                /\ i.section \in catalog /\ i.professorLocked /\ ProfessorOf[i.section] # None =>
                       \A s \in S : CourseOf[s] = CourseOf[i.section]
                                     => ProfessorOf[s] = ProfessorOf[i.section]}

Generate ==
    /\ Free("generate") /\ catalog # {} /\ candidate = None
    /\ present.version = published
    /\ {present.items[n].section : n \in Where(present.items, LAMBDA i : IsActive(i.role))}
           \subseteq Catalogs[published]
    /\ \E S \in Solutions :
           candidate' = [ids |-> Ascending(S), fingerprint |-> Fingerprint(present)]
    /\ UNCHANGED <<history, edits, mixed, cached, loaded, selected, preview, saved, published>>

PreviewCandidate ==
    /\ Free("generate") /\ IsFresh(candidate)
    /\ preview' = candidate
    /\ UNCHANGED <<history, edits, mixed, cached, loaded, selected, candidate, saved, published>>

(* After a change the page drops what was generated for another draft.  *)
DropStale ==
    /\ \E bound \in {candidate, preview} \ {None} : ~IsFresh(bound)
    /\ candidate' = IF IsFresh(candidate) THEN candidate ELSE None
    /\ preview' = IF IsFresh(preview) THEN preview ELSE None
    /\ UNCHANGED <<history, edits, mixed, cached, loaded, selected, saved, published>>

CancelPreview ==
    /\ Free("generate") /\ preview # None /\ preview' = None
    /\ UNCHANGED <<history, edits, mixed, cached, loaded, selected, candidate, saved, published>>

\* Mutant: the fingerprint is not compared again.
ApplyStaleCandidate ==
    /\ Free("generate") /\ preview # None
    /\ ApplyItems(PlanItemsForCandidate(preview.ids, present.items))
    /\ preview' = None
    /\ UNCHANGED <<loaded, selected, candidate, saved, published, cached>>

ApplyCandidate ==
    /\ Free("generate") /\ IsFresh(preview)
    /\ ApplyItems(PlanItemsForCandidate(preview.ids, present.items))
    /\ preview' = None
    /\ UNCHANGED <<loaded, selected, candidate, saved, published, cached>>

(* The lists of saved and of shared timetables are other pages: the panel   *)
(* closes.                                                                  *)
SaveCurrent ==
    /\ Free("save") /\ saved' = present /\ candidate' = None
    /\ UNCHANGED <<history, edits, mixed, cached, loaded, selected, preview, published>>

LoadTimetable ==
    /\ Free("load")
    /\ \E draft \in ({saved} \ {None}) \cup Shared : Restart(draft)
    /\ candidate' = None
    /\ UNCHANGED <<edits, mixed, cached, loaded, selected, preview, saved, published>>

Reload ==
    /\ "reload" \in Offered
    /\ \E draft \in LoadSavedDraft(present) : Restart(draft)
    /\ loaded' = None /\ selected' = None /\ candidate' = None /\ preview' = None
    /\ UNCHANGED <<edits, mixed, cached, saved, published>>

Publish ==
    /\ "publish" \in Offered /\ published < Len(Catalogs)
    /\ published' = published + 1
    /\ UNCHANGED <<history, edits, mixed, cached, loaded, selected, candidate, preview, saved>>

Next ==
    \/ FetchCatalog \/ Undo \/ Redo \/ CloseSheet \/ RemoveSection
    \/ \E s \in Sections : \/ Search(s) \/ AddCandidate(s) \/ Promote(s) \/ AddRequired(s)
                           \/ RemovePassiveCourse(s) \/ ApplyBackup(s) \/ Select(s)
                           \/ SwapSection(s)
    \/ \E s, t \in Sections : DragReplace(s, t)
    \/ \E role \in Roles : SetRole(role)
    \/ \E mode \in {"AUTO", "PROFESSOR", "SECTION"} : SetAdjustmentMode(mode)
    \/ \E p \in Preferences : SetPreferences(p)
    \/ Generate \/ PreviewCandidate \/ DropStale \/ CancelPreview \/ ApplyCandidate
    \/ SaveCurrent \/ LoadTimetable \/ Reload \/ Publish

Spec == Init /\ [][Next]_vars
-----------------------------------------------------------------------------
(* Every variable keeps its type.  *)
TypeOK ==
    /\ past \in Seq(Drafts) /\ present \in Drafts /\ future \in Seq(Drafts)
    /\ loaded \in {None} \cup DOMAIN Catalogs /\ published \in DOMAIN Catalogs
    /\ selected \in {None} \cup Sections /\ edits \in 0..MaxEdits
    /\ saved \in {None} \cup Drafts /\ cached \in {None} \cup DOMAIN Catalogs /\ mixed \in BOOLEAN

(* A session never keeps more than Cap drafts besides the one on the screen, *)
(* whether they are undone or not.                                           *)
HistoryCapped == Len(past) + Len(future) <= Cap

(* What the browser wrote down is read back unchanged: no draft holds a lock *)
(* on a passive item, or both locks, which the reader would drop.            *)
ReloadFaithful == Normalize(present) = present

(* No section has two items in the draft, for the handlers that take an item *)
(* by its section would change both.                                         *)
DistinctSections == Cardinality(Ids(present.items)) = Len(present.items)

(* Among the sections that the page knows no course is placed twice in the   *)
(* timetable.                                                                *)
OneActivePerCourse ==
    \A m, n \in DOMAIN present.items :
        LET i == present.items[m]  j == present.items[n]
        IN  m # n /\ IsActive(i.role) /\ IsActive(j.role) =>
                ~(OfCourse(i, j.section) /\ OfCourse(j, i.section))

(* Undo and redo never bring back a draft for other course data than the one *)
(* on the screen, and a draft that carries the version of the loaded data    *)
(* holds only sections of it, so that the server accepts them.               *)
HistoryKnown ==
    LET line == past \o <<present>> \o future
    IN  \A n \in DOMAIN line :
            /\ line[n].version = present.version
            /\ ~mixed /\ loaded # None /\ line[n].version = loaded =>
                   Ids(line[n].items) \subseteq catalog

(* Whatever the student did, wherever the draft came from, and whichever     *)
(* version of the course data the page got, the draft can be shown, sent and *)
(* read again.  Not so once the items of a timetable for other course data   *)
(* were edited: a section that the page did not know may come back beside    *)
(* the one that was chosen in its place.                                     *)
DraftUsable ==
    /\ TypeOK /\ HistoryKnown
    /\ mixed \/ (ReloadFaithful /\ DistinctSections /\ OneActivePerCourse)

(* Applying a candidate keeps what the student asked for: a course that must *)
(* be taken still must, a locked section stays locked, a section of another  *)
(* professor never replaces one whose professor is locked, and no passive    *)
(* item disappears unless the candidate places its section.                  *)
KeepsIntent(before, after) ==
    \A m \in DOMAIN before :
        LET i == before[m]
            Same == {after[n] : n \in Where(after, LAMBDA j : j.section = i.section)}
            Placed == {after[n] : n \in Where(after, LAMBDA j : OfCourse(j, i.section) /\ IsActive(j.role))}
        IN  /\ i.role = "must" => \E j \in Placed : j.role = "must"
            /\ i.locked => \E j \in Same : j.locked /\ IsActive(j.role)
            /\ i.professorLocked /\ ProfessorOf[i.section] # None => \A j \in Placed :
                   j.professorLocked /\ ProfessorOf[j.section] = ProfessorOf[i.section]
            /\ ~IsActive(i.role) => \E j \in Same : j = i \/ IsActive(j.role)

(* The draft is for the course data of the page, and always was.             *)
Own == ~mixed /\ present.version = loaded

ApplyKeepsIntent == [][ApplyCandidate /\ Own => KeepsIntent(present.items, present'.items)]_vars

Timeline == INSTANCE DraftTimeline WITH
    line <- past \o <<present>> \o future, cursor <- Len(past) + 1

(* Undo and redo walk a line of drafts: no change is lost but the oldest     *)
(* beyond the cap, an edit forgets only what was undone.                     *)
ImplementsTimeline == Timeline!Spec
=============================================================================
