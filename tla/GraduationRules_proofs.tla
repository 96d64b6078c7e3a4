----------------------- MODULE GraduationRules_proofs -----------------------
(***************************************************************************)
(* Proofs about the graduation rules (GraduationRules).  The first part is *)
(* about their ingest, for any number of ingests, releases and datasets.   *)
(*                                                                         *)
(* Every history transaction writes the manifest's row before anything     *)
(* else and keeps it locked, so only one of them is ever past it: what it  *)
(* found loaded or has written (Loaded) is still there when it commits.    *)
(* The requirements have no such row: what an ingest of them counts on is  *)
(* only there when none has committed another release meanwhile.           *)
(*                                                                         *)
(* The second part is about their evaluation, for any rules and courses:   *)
(* every answer is the evaluation of the courses it was asked for, and     *)
(* everything that an evaluation counts grows with the courses.            *)
(***************************************************************************)
EXTENDS GraduationRules, FiniteSums

Fields == {"state", "part", "listed", "at", "found", "writes"}
Live(r) == r.state \in {"reading", "writing"}
OrderOf(r) == IF r.part = "history" THEN HistoryOrder[r.listed] ELSE RulesOrder[r.listed]
Here(r) == OrderOf(r)[r.at]
-----------------------------------------------------------------------------
(* The inductive invariant.                                                *)

\* A dataset that an ingest is past.
Past(r, e) == \E k \in 1..Len(OrderOf(r)) : k < r.at /\ OrderOf(r)[k] = e

\* A transaction that writes is at a dataset of its list, and past all it has written.
Placed(r) ==
    /\ r.state = "writing" => r.at <= Len(OrderOf(r))
    /\ \A e \in DOMAIN r.writes : e \in Range(OrderOf(r)) /\ Past(r, e)

\* A transaction holds rows of the release it works on, of datasets it is past, and
\* a history transaction that is past the manifest holds the manifest's row.
Tidy(r) ==
    /\ r = [f \in Fields |-> r[f]]
    /\ r.state \in Running \cup {"off", "done", "failed"}
    /\ r.part \in {"history", "rules"} /\ r.at \in Nat \ {0}
    /\ IF Live(r) THEN r.listed \in Releases ELSE r.listed = None /\ DOMAIN r.writes = {}
    /\ (r.state = "writing") <=> (r.found # << >>)
    /\ Placed(r)
    /\ \A e \in DOMAIN r.writes \ {Graduation} :
          e \in DOMAIN Data[r.listed] /\ r.writes[e] = Data[r.listed][e]
    /\ r.part = "history" =>
          /\ (r.at > 1) <=> (Manifest \in DOMAIN r.writes)
          /\ r.at = 1 => DOMAIN r.writes = {}

\* What is about to be written is the release's.
Read(r) ==
    r.state = "writing" /\ Here(r) # Graduation => r.found[2] = Data[r.listed][Here(r)]

\* What is behind an ingest is written by it or was loaded before.
Loaded(r, base) ==
    Live(r) => \A k \in 1..Len(OrderOf(r)) :
        k < r.at /\ OrderOf(r)[k] # Graduation =>
            \/ OrderOf(r)[k] \in DOMAIN r.writes
            \/ base[OrderOf(r)[k]] = Data[r.listed][OrderOf(r)[k]]

FilesOK ==
    /\ files \in [Files -> Releases \cup {Damaged}]
    /\ files[Manifest] \in Releases /\ files[Bundle] \in Releases
    /\ starts \in 0..MaxStarts /\ overtaken \subseteq Ingests /\ mixed \in BOOLEAN

\* No two transactions hold the same row.
Apart ==
    \A i, j \in Ingests : i # j => DOMAIN run[i].writes \cap DOMAIN run[j].writes = {}

RunsOK ==
    /\ run = [i \in Ingests |-> run[i]] /\ Apart
    /\ \A i \in Ingests :
          /\ Tidy(run[i]) /\ Read(run[i])
          /\ run[i].part = "history" \/ i \notin overtaken => Loaded(run[i], db)

\* A committed dataset has the rows of a release.
Released(d, base) ==
    base[d] = None \/ \E r \in Releases : d \in DOMAIN Data[r] /\ base[d] = Data[r][d]

OneArchive(base) ==
    base[Manifest] # None =>
        \E r \in Releases :
            /\ base[Manifest] = Data[r][Manifest]
            /\ \A t \in Terms \cap DOMAIN Data[r] : base[t] = Data[r][t]

Rules == RulesData \ {Graduation}
OneRelease(base) ==
    \/ \A d \in Rules : base[d] = None
    \/ \E r \in Releases : \A d \in Rules \cap DOMAIN Data[r] : base[d] = Data[r][d]

DbOK ==
    /\ \A d \in Datasets \ {Graduation} : Released(d, db)
    /\ OneArchive(db)
    /\ ~mixed => OneRelease(db)

IngestInv == FilesOK /\ RunsOK /\ DbOK /\ refs \subseteq Offerings
-----------------------------------------------------------------------------
(* One ingest.                                                             *)

\* Writing the rows of a dataset replaces them by the wanted ones.
LEMMA ReplaceIsWant == \A have, want : Replace(have, want) = want
BY DEF Replace

LEMMA ListedFacts ==
    \A r \in Releases :
        /\ Range(HistoryOrder[r]) \subseteq HistoryData
        /\ Range(RulesOrder[r]) \subseteq RulesData
<1> SUFFICES ASSUME NEW r \in Releases
             PROVE  /\ Range(HistoryOrder[r]) \subseteq HistoryData
                    /\ Range(RulesOrder[r]) \subseteq RulesData
  OBVIOUS
<1> DEFINE h == Range(HistoryOrder[r])
           q == Range(RulesOrder[r])
<1>1. /\ h \in {Range(HistoryOrder[t]) : t \in Releases}
      /\ q \in {Range(RulesOrder[t]) : t \in Releases}
  OBVIOUS
<1> HIDE DEF h, q
<1>2. h \subseteq HistoryData
  BY <1>1 DEF HistoryData
<1>3. q \subseteq RulesData
  <2>1. RulesData = UNION {Range(RulesOrder[t]) : t \in Releases}
    BY DEF RulesData, Bundled
  <2> QED
    BY <1>1, <2>1
<1> QED
  BY <1>2, <1>3 DEF h, q

LEMMA OrderFacts ==
    ASSUME NEW r, r.part \in {"history", "rules"}, r.listed \in Releases
    PROVE  /\ Len(OrderOf(r)) \in Nat /\ DOMAIN OrderOf(r) = 1..Len(OrderOf(r))
           /\ \A k \in 1..Len(OrderOf(r)) :
                 OrderOf(r)[k] \in Range(OrderOf(r)) /\ OrderOf(r)[k] \in DOMAIN Data[r.listed]
           /\ Range(OrderOf(r)) \subseteq Datasets
           /\ Range(OrderOf(r)) \subseteq DOMAIN Data[r.listed]
<1>1. /\ IsList(OrderOf(r)) /\ Range(OrderOf(r)) \subseteq DOMAIN Data[r.listed]
      /\ Range(OrderOf(r)) \subseteq Datasets
  <2>1. /\ IsList(HistoryOrder[r.listed]) /\ IsList(RulesOrder[r.listed])
        /\ Range(HistoryOrder[r.listed]) \subseteq DOMAIN Data[r.listed]
        /\ Range(RulesOrder[r.listed]) \subseteq DOMAIN Data[r.listed]
        /\ Range(HistoryOrder[r.listed]) \subseteq Datasets
        /\ Range(RulesOrder[r.listed]) \subseteq Datasets
    <3>1. /\ IsList(HistoryOrder[r.listed]) /\ IsList(RulesOrder[r.listed])
          /\ DOMAIN Data[r.listed] =
                 Range(HistoryOrder[r.listed]) \cup Range(RulesOrder[r.listed])
      BY Zenon, IngestAssumption DEF IngestAssumption
    <3> QED
      BY <3>1, ListedFacts DEF Datasets
  <2>2. OrderOf(r) \in {HistoryOrder[r.listed], RulesOrder[r.listed]}
    BY DEF OrderOf
  <2> QED
    BY <2>1, <2>2
<1>2. \A k \in DOMAIN OrderOf(r) : OrderOf(r)[k] \in Range(OrderOf(r))
  BY DEF Range
<1> QED
  BY <1>1, <1>2 DEF IsList

LEMMA OrdersApart ==
    /\ HistoryData \cap RulesData = {} /\ HistoryData \cup RulesData = Datasets
    /\ Manifest \in HistoryData /\ Graduation \notin HistoryData
    /\ \A r : r.listed \in Releases =>
          Range(OrderOf(r)) \subseteq IF r.part = "history" THEN HistoryData ELSE RulesData
<1>1. Manifest \in Range(HistoryOrder[1]) /\ 1 \in Releases
  BY IngestAssumption DEF IngestAssumption, Range
<1>2. Manifest \in HistoryData
  BY <1>1, ListedFacts
<1>3. \A r : r.listed \in Releases =>
          Range(OrderOf(r)) \subseteq IF r.part = "history" THEN HistoryData ELSE RulesData
  BY ListedFacts DEF OrderOf
<1> QED
  BY <1>2, <1>3, IngestAssumption DEF IngestAssumption, Datasets

LEMMA StillPast ==
    ASSUME NEW r, NEW s, OrderOf(s) = OrderOf(r), r.part \in {"history", "rules"},
           r.listed \in Releases, r.at \in Nat, s.at \in Nat, r.at <= s.at, NEW e, Past(r, e)
    PROVE  Past(s, e)
<1>1. PICK k \in 1..Len(OrderOf(r)) : k < r.at /\ OrderOf(r)[k] = e
  BY DEF Past
<1>2. k \in 1..Len(OrderOf(s)) /\ k < s.at /\ OrderOf(s)[k] = e
  BY <1>1, OrderFacts
<1> QED
  BY <1>2 DEF Past

Idle(state) == [NoRun EXCEPT !.state = state]

LEMMA IdleIsTidy ==
    ASSUME NEW state \in Running \cup {"off", "done", "failed"}, state \notin {"reading", "writing"}
    PROVE  /\ Tidy(Idle(state)) /\ Read(Idle(state)) /\ DOMAIN Idle(state).writes = {}
           /\ \A base : Loaded(Idle(state), base)
BY DEF Idle, NoRun, Fields, Tidy, Placed, Read, Loaded, Live

LEMMA StartIsTidy ==
    ASSUME NEW r, r.state = "reading", r.part \in {"history", "rules"}, r.listed \in Releases,
           r.at = 1, r.found = << >>, r.writes = << >>, r = [f \in Fields |-> r[f]]
    PROVE  /\ Tidy(r) /\ Read(r) /\ DOMAIN r.writes = {}
           /\ \A base : Loaded(r, base)
<1>1. DOMAIN r.writes = {}
  OBVIOUS
<1>2. Tidy(r)
  BY <1>1 DEF Tidy, Placed, Live, Running
<1>3. Read(r)
  BY DEF Read
<1>4. \A base : Loaded(r, base)
  BY OrderFacts DEF Loaded
<1> QED
  BY <1>1, <1>2, <1>3, <1>4

\* The first dataset of a history is the manifest.
LEMMA ManifestFirst ==
    ASSUME NEW r, Tidy(r), Live(r), r.part = "history", Here(r) # Manifest
    PROVE  r.at > 1
BY IngestAssumption DEF IngestAssumption, Here, OrderOf, Tidy

\* A dataset is passed over.
LEMMA PassIsTidy ==
    ASSUME NEW r, Tidy(r), r.state = "reading", r.at <= Len(OrderOf(r)),
           Here(r) # Manifest, NEW s, s = [r EXCEPT !.at = @ + 1]
    PROVE  /\ Tidy(s) /\ Read(s) /\ s.writes = r.writes /\ s.part = r.part
           /\ \A base :
                 /\ Loaded(r, base)
                 /\ Here(r) = Graduation \/ base[Here(r)] = Data[r.listed][Here(r)]
                 => Loaded(s, base)
<1>1. /\ s.state = "reading" /\ s.part = r.part /\ s.listed = r.listed /\ s.at = r.at + 1
      /\ s.found = r.found /\ s.writes = r.writes /\ s = [f \in Fields |-> s[f]]
  BY DEF Tidy, Fields
<1>2. OrderOf(s) = OrderOf(r) /\ Live(r) /\ Live(s)
  BY <1>1 DEF OrderOf, Live
<1>3. r.at \in Nat \ {0} /\ s.at \in Nat \ {0} /\ r.listed \in Releases
      /\ r.part \in {"history", "rules"}
  BY <1>1, <1>2 DEF Tidy
<1>4. Tidy(s)
  <2>1. r.part = "history" => r.at > 1
    BY <1>2, ManifestFirst
  <2>2. s.part = "history" => s.at > 1 /\ Manifest \in DOMAIN s.writes
    BY <1>1, <1>3, <2>1 DEF Tidy
  <2>3. \A e \in DOMAIN s.writes \ {Graduation} :
           e \in DOMAIN Data[s.listed] /\ s.writes[e] = Data[s.listed][e]
    BY <1>1, <1>2 DEF Tidy
  <2>4. Placed(s)
    BY <1>1, <1>2, <1>3, StillPast DEF Tidy, Placed
  <2>5. /\ s.found = << >> /\ s.listed \in Releases /\ s.part \in {"history", "rules"}
    BY <1>1, <1>3 DEF Tidy
  <2>6. s.part = "history" =>
           /\ (s.at > 1) <=> (Manifest \in DOMAIN s.writes)
           /\ s.at = 1 => DOMAIN s.writes = {}
    BY <1>3, <2>2
  <2> QED
    BY <1>1, <1>2, <1>3, <2>3, <2>4, <2>5, <2>6 DEF Tidy, Running
<1>5. Read(s)
  BY <1>1 DEF Read
<1>6. ASSUME NEW base, Loaded(r, base),
             Here(r) = Graduation \/ base[Here(r)] = Data[r.listed][Here(r)]
      PROVE  Loaded(s, base)
  <2>1. SUFFICES ASSUME NEW k \in 1..Len(OrderOf(r)), k < r.at + 1,
                        OrderOf(r)[k] # Graduation
                 PROVE  \/ OrderOf(r)[k] \in DOMAIN r.writes
                        \/ base[OrderOf(r)[k]] = Data[r.listed][OrderOf(r)[k]]
    BY <1>1, <1>2 DEF Loaded
  <2>2. CASE k < r.at
    BY <1>2, <1>6, <2>1, <2>2 DEF Loaded
  <2>3. CASE k = r.at
    BY <1>6, <2>1, <2>3 DEF Here
  <2> QED
    BY <1>3, <2>1, <2>2, <2>3, OrderFacts
<1> QED
  BY <1>1, <1>4, <1>5, <1>6

FindIn(r, have, want) == [r EXCEPT !.state = "writing", !.found = <<have, want>>]

\* A dataset is found and its wanted rows are at hand.
LEMMA FindIsTidy ==
    ASSUME NEW r, Tidy(r), r.state = "reading", r.at <= Len(OrderOf(r)), NEW have, NEW want,
           Here(r) = Graduation \/ want = Data[r.listed][Here(r)],
           NEW s, s = FindIn(r, have, want)
    PROVE  /\ Tidy(s) /\ Read(s) /\ s.writes = r.writes /\ s.part = r.part
           /\ \A base : Loaded(r, base) => Loaded(s, base)
<1>1. /\ s.state = "writing" /\ s.part = r.part /\ s.listed = r.listed /\ s.at = r.at
      /\ s.found = <<have, want>> /\ s.writes = r.writes /\ s = [f \in Fields |-> s[f]]
  BY DEF FindIn, Tidy, Fields
<1>2. OrderOf(s) = OrderOf(r) /\ Live(r) /\ Live(s) /\ Here(s) = Here(r)
  BY <1>1 DEF OrderOf, Live, Here
<1>3. <<have, want>> # << >> /\ <<have, want>>[2] = want
  OBVIOUS
<1>4. Tidy(s)
  <2>1. /\ s.listed \in Releases /\ s.found # << >>
        /\ s.part \in {"history", "rules"} /\ s.at \in Nat \ {0}
    BY <1>1, <1>2, <1>3 DEF Tidy
  <2>2. \A e \in DOMAIN s.writes \ {Graduation} :
           e \in DOMAIN Data[s.listed] /\ s.writes[e] = Data[s.listed][e]
    BY <1>1, <1>2 DEF Tidy
  <2>3. s.part = "history" =>
           /\ (s.at > 1) <=> (Manifest \in DOMAIN s.writes)
           /\ s.at = 1 => DOMAIN s.writes = {}
    BY <1>1 DEF Tidy
  <2>4. Placed(s)
    BY <1>1, <1>2, StillPast DEF Tidy, Placed
  <2> QED
    BY <1>1, <1>2, <2>1, <2>2, <2>3, <2>4 DEF Tidy, Running
<1>5. Read(s)
  BY <1>1, <1>2, <1>3 DEF Read
<1>6. \A base : Loaded(r, base) => Loaded(s, base)
  BY <1>1, <1>2 DEF Loaded
<1> QED
  BY <1>1, <1>4, <1>5, <1>6

\* A dataset is written.
Written(r) ==
    [e \in DOMAIN r.writes \cup {Here(r)} |-> IF e = Here(r) THEN r.found[2] ELSE r.writes[e]]

WriteIn(r, w) == [r EXCEPT !.state = "reading", !.at = @ + 1, !.found = << >>, !.writes = w]

LEMMA WriteIsTidy ==
    ASSUME NEW r, Tidy(r), Read(r), r.state = "writing", NEW w, w = Written(r),
           NEW s, s = WriteIn(r, w)
    PROVE  /\ Tidy(s) /\ Read(s) /\ s.part = r.part
           /\ DOMAIN s.writes = DOMAIN r.writes \cup {Here(r)}
           /\ \A base : Loaded(r, base) => Loaded(s, base)
<1> DEFINE d == Here(r)
<1>1. /\ s.state = "reading" /\ s.part = r.part /\ s.listed = r.listed /\ s.at = r.at + 1
      /\ s.found = << >> /\ s.writes = w /\ s = [f \in Fields |-> s[f]]
  BY DEF WriteIn, Tidy, Fields
<1>2. OrderOf(s) = OrderOf(r) /\ Live(r) /\ Live(s)
  BY <1>1 DEF OrderOf, Live
<1>3. /\ DOMAIN w = DOMAIN r.writes \cup {d} /\ w[d] = r.found[2]
      /\ \A e \in DOMAIN r.writes \ {d} : w[e] = r.writes[e]
  BY DEF Written
<1>4. /\ r.at \in Nat \ {0} /\ s.at \in Nat \ {0} /\ r.listed \in Releases
      /\ r.part \in {"history", "rules"} /\ r.at <= Len(OrderOf(r))
  BY <1>1, <1>2 DEF Tidy, Placed
<1>5. /\ r.at \in 1..Len(OrderOf(r)) /\ d = OrderOf(r)[r.at]
      /\ d \in Range(OrderOf(r)) /\ d \in DOMAIN Data[r.listed]
  <2>1. r.at \in 1..Len(OrderOf(r))
    BY <1>4, OrderFacts
  <2> QED
    BY <1>4, <2>1, OrderFacts DEF Here
<1>6. Tidy(s)
  <2>1. s.part = "history" => s.at > 1 /\ Manifest \in DOMAIN s.writes
    <3>1. r.part = "history" => d = Manifest \/ r.at > 1
      BY <1>2, ManifestFirst
    <3>2. r.part = "history" /\ r.at > 1 => Manifest \in DOMAIN r.writes
      BY DEF Tidy
    <3> QED
      BY <1>1, <1>3, <1>4, <3>1, <3>2
  <2>2. d # Graduation => r.found[2] = Data[r.listed][d]
    BY DEF Read
  <2>3. ASSUME NEW e \in DOMAIN s.writes \ {Graduation}
        PROVE  e \in DOMAIN Data[s.listed] /\ s.writes[e] = Data[s.listed][e]
    <3>1. CASE e = d
      BY <1>1, <1>3, <1>5, <2>2, <2>3, <3>1
    <3>2. CASE e # d
      <4>1. e \in DOMAIN r.writes \ {Graduation} /\ s.writes[e] = r.writes[e]
        BY <1>1, <1>3, <2>3, <3>2
      <4> QED
        BY <1>1, <4>1 DEF Tidy
    <3> QED
      BY <3>1, <3>2
  <2>4. Placed(s)
    <3>1. Past(s, d)
      BY <1>1, <1>2, <1>4, <1>5 DEF Past
    <3>2. \A e \in DOMAIN r.writes : e \in Range(OrderOf(s)) /\ Past(s, e)
      BY <1>1, <1>2, <1>4, StillPast DEF Tidy, Placed
    <3> QED
      BY <1>1, <1>2, <1>3, <1>5, <3>1, <3>2 DEF Placed
  <2>5. /\ s.listed \in Releases /\ s.part \in {"history", "rules"}
        /\ s.part = "history" =>
              /\ (s.at > 1) <=> (Manifest \in DOMAIN s.writes)
              /\ s.at = 1 => DOMAIN s.writes = {}
    BY <1>1, <1>4, <2>1
  <2> QED
    BY <1>1, <1>2, <1>4, <2>3, <2>4, <2>5 DEF Tidy, Running
<1>7. Read(s)
  BY <1>1 DEF Read
<1>8. ASSUME NEW base, Loaded(r, base)
      PROVE  Loaded(s, base)
  <2>1. SUFFICES ASSUME NEW k \in 1..Len(OrderOf(r)), k < r.at + 1,
                        OrderOf(r)[k] # Graduation
                 PROVE  \/ OrderOf(r)[k] \in DOMAIN s.writes
                        \/ base[OrderOf(r)[k]] = Data[r.listed][OrderOf(r)[k]]
    BY <1>1, <1>2 DEF Loaded
  <2>2. CASE k < r.at
    BY <1>1, <1>2, <1>3, <1>8, <2>1, <2>2 DEF Loaded
  <2>3. CASE k = r.at
    BY <1>1, <1>3, <2>3 DEF Here
  <2> QED
    BY <1>4, <2>1, <2>2, <2>3, OrderFacts
<1> QED
  BY <1>1, <1>3, <1>6, <1>7, <1>8

\* A transaction that has nothing left to do has loaded all that its file lists.
LEMMA AllLoaded ==
    ASSUME NEW r, Tidy(r), Live(r), r.at > Len(OrderOf(r)), NEW base, Loaded(r, base),
           NEW e \in Range(OrderOf(r)) \ {Graduation}
    PROVE  e \in DOMAIN r.writes \/ base[e] = Data[r.listed][e]
<1>1. PICK k \in 1..Len(OrderOf(r)) : OrderOf(r)[k] = e
  <2>1. \A x \in Range(OrderOf(r)) : \E k \in DOMAIN OrderOf(r) : OrderOf(r)[k] = x
    BY Zenon DEF Range
  <2>2. r.part \in {"history", "rules"} /\ r.listed \in Releases
    BY DEF Tidy
  <2> QED
    BY <2>1, <2>2, OrderFacts
<1>2. k < r.at
  BY OrderFacts DEF Tidy
<1> QED
  BY <1>1, <1>2 DEF Loaded

\* What the release of a transaction lists of its part is what it writes in order.
LEMMA OrderIsAll ==
    ASSUME NEW r, r.listed \in Releases, r.part \in {"history", "rules"}
    PROVE  Range(OrderOf(r)) =
               (IF r.part = "history" THEN HistoryData ELSE RulesData) \cap DOMAIN Data[r.listed]
<1>1. /\ Range(HistoryOrder[r.listed]) \subseteq HistoryData
      /\ Range(RulesOrder[r.listed]) \subseteq RulesData
  BY ListedFacts
<1> QED
  BY <1>1, IngestAssumption DEF IngestAssumption, OrderOf

LEMMA HistoryHolds ==
    ASSUME NEW r, Tidy(r), Live(r), r.at > Len(OrderOf(r)), r.part = "history"
    PROVE  Manifest \in DOMAIN r.writes
<1>1. 1 \in DOMAIN HistoryOrder[r.listed] /\ IsList(HistoryOrder[r.listed])
      /\ OrderOf(r) = HistoryOrder[r.listed]
  BY IngestAssumption DEF IngestAssumption, OrderOf, Tidy
<1>2. Len(OrderOf(r)) >= 1
  BY <1>1 DEF IsList
<1> QED
  BY <1>1, <1>2 DEF Tidy, IsList
-----------------------------------------------------------------------------
(* The invariant is inductive.                                             *)

LEMMA SameOrder ==
    ASSUME NEW i
    PROVE  Order(i) = OrderOf(run[i]) /\ Current(i) = Here(run[i])
           /\ (AllDone(i) <=> run[i].at > Len(OrderOf(run[i])))
BY DEF Order, OrderOf, Current, Here, AllDone

\* A step of one ingest that writes nothing to the database.
LEMMA OneRunMoves ==
    ASSUME RunsOK, NEW i \in Ingests, NEW s, run' = [run EXCEPT ![i] = s], db' = db,
           overtaken \subseteq overtaken' \cup {i},
           Tidy(s), Read(s), s.part = "history" \/ i \notin overtaken' => Loaded(s, db),
           \A j \in Ingests \ {i} : DOMAIN s.writes \cap DOMAIN run[j].writes = {}
    PROVE  RunsOK'
<1>1. /\ run' = [j \in Ingests |-> run'[j]] /\ run'[i] = s
      /\ \A j \in Ingests \ {i} : run'[j] = run[j]
  BY DEF RunsOK
<1>2. Apart'
  BY <1>1 DEF RunsOK, Apart
<1>3. \A j \in Ingests : Tidy(run[j])' /\ Read(run[j])'
  <2>1. \A j \in Ingests : Tidy(run'[j]) /\ Read(run'[j])
    BY <1>1 DEF RunsOK
  <2> QED
    BY <2>1 DEF Tidy, Placed, Past, Read, Live, Here, OrderOf
<1>4. \A j \in Ingests : run'[j].part = "history" \/ j \notin overtaken' => Loaded(run[j], db)'
  <2>1. \A j \in Ingests : run'[j].part = "history" \/ j \notin overtaken' => Loaded(run'[j], db)
    BY <1>1 DEF RunsOK
  <2> QED
    BY <2>1 DEF Loaded, Live, OrderOf
<1> QED
  BY <1>1, <1>2, <1>3, <1>4 DEF RunsOK

LEMMA FailKeeps ==
    ASSUME RunsOK, NEW i \in Ingests, Fail(i), db' = db, overtaken' = overtaken
    PROVE  RunsOK'
<1>1. run' = [run EXCEPT ![i] = Idle("failed")]
  BY DEF Fail, Idle
<1>2. Tidy(Idle("failed")) /\ Read(Idle("failed")) /\ Loaded(Idle("failed"), db)
      /\ DOMAIN Idle("failed").writes = {}
  BY IdleIsTidy DEF Running
<1> QED
  BY <1>1, <1>2, OneRunMoves

LEMMA BeginKeeps ==
    ASSUME RunsOK, FilesOK, NEW i \in Ingests, Begin(i) \/ BeginRules(i)
    PROVE  RunsOK'
<1>0. db' = db /\ overtaken \subseteq overtaken' \cup {i}
  BY DEF Begin, BeginRules, marks
<1>1. ASSUME NEW s, s.state = "reading", s.part \in {"history", "rules"},
             s.listed \in Releases, s.at = 1, s.found = << >>, s.writes = << >>,
             s = [f \in Fields |-> s[f]], run' = [run EXCEPT ![i] = s]
      PROVE  RunsOK'
  <2>1. Tidy(s) /\ Read(s) /\ Loaded(s, db) /\ DOMAIN s.writes = {}
    BY <1>1, StartIsTidy
  <2> QED
    BY <1>0, <1>1, <2>1, OneRunMoves
<1>2. CASE Fail(i) /\ overtaken' = overtaken
  BY <1>0, <1>2, FailKeeps
<1>3. CASE run' = [run EXCEPT ![i] =
                  [NoRun EXCEPT !.state = "reading", !.listed = files[Manifest]]]
  <2> DEFINE s == [NoRun EXCEPT !.state = "reading", !.listed = files[Manifest]]
  <2>1. /\ s.state = "reading" /\ s.part = "history" /\ s.listed = files[Manifest]
        /\ s.at = 1 /\ s.found = << >> /\ s.writes = << >> /\ s = [f \in Fields |-> s[f]]
    BY DEF NoRun, Fields
  <2>2. run' = [run EXCEPT ![i] = s]
    BY <1>3
  <2> HIDE DEF s
  <2> QED
    BY <1>1, <2>1, <2>2 DEF FilesOK
<1>4. CASE run' = [run EXCEPT ![i] =
                  [NoRun EXCEPT !.state = "reading", !.part = "rules",
                                !.listed = files[Bundle]]]
  <2> DEFINE s == [NoRun EXCEPT !.state = "reading", !.part = "rules",
                                !.listed = files[Bundle]]
  <2>1. /\ s.state = "reading" /\ s.part = "rules" /\ s.listed = files[Bundle]
        /\ s.at = 1 /\ s.found = << >> /\ s.writes = << >> /\ s = [f \in Fields |-> s[f]]
    BY DEF NoRun, Fields
  <2>2. run' = [run EXCEPT ![i] = s]
    BY <1>4
  <2> HIDE DEF s
  <2> QED
    BY <1>1, <2>1, <2>2 DEF FilesOK
<1> QED
  BY <1>2, <1>3, <1>4 DEF Begin, BeginRules, marks

\* The rows that an accepted file gives are those listed for it.
LEMMA WantedIsData ==
    ASSUME NEW i \in Ingests, NEW d, d # Graduation, Accepted(i, d)
    PROVE  Wanted(i, d) = Data[run[i].listed][d]
BY DEF Accepted, Wanted

LEMMA ReadKeeps ==
    ASSUME RunsOK, NEW i \in Ingests, ReadEntry(i)
    PROVE  RunsOK'
<1> DEFINE r == run[i]
           d == Here(r)
<1>1. \/ Fail(i)
      \/ /\ Accepted(i, d) /\ d # Manifest /\ db[d] = Wanted(i, d)
         /\ run' = [run EXCEPT ![i].at = @ + 1]
      \/ /\ Accepted(i, d)
         /\ run' = [run EXCEPT ![i].state = "writing", ![i].found = <<db[d], Wanted(i, d)>>]
  BY SameOrder DEF ReadEntry
<1>2. /\ r.state = "reading" /\ db' = db /\ overtaken' = overtaken /\ Tidy(r) /\ Read(r)
      /\ r.part = "history" \/ i \notin overtaken => Loaded(r, db)
      /\ \A j \in Ingests \ {i} : DOMAIN r.writes \cap DOMAIN run[j].writes = {}
  BY DEF ReadEntry, RunsOK, Apart, marks
<1>0. r.at <= Len(OrderOf(r))
  <2>1. ~(r.at > Len(OrderOf(r)))
    BY SameOrder DEF ReadEntry
  <2> QED
    BY <1>2, <2>1, OrderFacts DEF Tidy, Live
<1>3. CASE Fail(i)
  BY <1>2, <1>3, FailKeeps
<1>4. CASE /\ Accepted(i, d) /\ d # Manifest /\ db[d] = Wanted(i, d)
           /\ run' = [run EXCEPT ![i].at = @ + 1]
  <2> DEFINE s == [r EXCEPT !.at = @ + 1]
  <2>1. run' = [run EXCEPT ![i] = s]
    BY <1>4 DEF RunsOK
  <2>2. d = Graduation \/ db[d] = Data[r.listed][d]
    BY <1>4, WantedIsData
  <2>0. s = [r EXCEPT !.at = @ + 1]
    OBVIOUS
  <2> HIDE DEF s
  <2>3. /\ Tidy(s) /\ Read(s) /\ s.writes = r.writes /\ s.part = r.part
        /\ Loaded(r, db) => Loaded(s, db)
    BY <1>0, <1>2, <1>4, <2>0, <2>2, PassIsTidy
  <2> QED
    BY <1>2, <2>1, <2>3, OneRunMoves
<1>5. CASE /\ Accepted(i, d)
           /\ run' = [run EXCEPT ![i].state = "writing",
                                 ![i].found = <<db[d], Wanted(i, d)>>]
  <2> DEFINE have == db[d]
             want == Wanted(i, d)
             s == FindIn(r, have, want)
  <2>1. run' = [run EXCEPT ![i] = s]
    BY <1>5 DEF RunsOK, FindIn
  <2>2. d = Graduation \/ want = Data[r.listed][d]
    BY <1>5, WantedIsData
  <2> HIDE DEF have, want
  <2>0. s = FindIn(r, have, want)
    OBVIOUS
  <2> HIDE DEF s
  <2>3. /\ Tidy(s) /\ Read(s) /\ s.writes = r.writes /\ s.part = r.part
        /\ Loaded(r, db) => Loaded(s, db)
    BY <1>0, <1>2, <2>0, <2>2, FindIsTidy
  <2> QED
    BY <1>2, <2>1, <2>3, OneRunMoves
<1> QED
  BY <1>1, <1>3, <1>4, <1>5

LEMMA WriteKeeps ==
    ASSUME RunsOK, NEW i \in Ingests, WriteEntry(i)
    PROVE  RunsOK'
<1> DEFINE r == run[i]
           d == Here(r)
           w == Written(r)
           s == WriteIn(r, w)
<1>1. /\ r.state = "writing" /\ db' = db /\ overtaken' = overtaken /\ Tidy(r) /\ Read(r)
      /\ r.part = "history" \/ i \notin overtaken => Loaded(r, db)
      /\ \A j \in Ingests \ {i} : DOMAIN r.writes \cap DOMAIN run[j].writes = {}
      /\ \A j \in Ingests \ {i} : d \notin DOMAIN run[j].writes
  <2>1. r.state = "writing" /\ db' = db /\ overtaken' = overtaken
    BY DEF WriteEntry, marks
  <2>2. ~Locked(i, d)
    BY SameOrder DEF WriteEntry
  <2>3. \A j \in Ingests \ {i} : DOMAIN r.writes \cap DOMAIN run[j].writes = {}
    BY DEF RunsOK, Apart
  <2> QED
    BY <2>1, <2>2, <2>3 DEF RunsOK, Locked
<1>2. CASE Fail(i)
  BY <1>1, <1>2, FailKeeps
<1>3. CASE ~Fail(i)
  <2>1. Replace(Rows(d), r.found[2]) = r.found[2]
    BY ReplaceIsWant
  <2>2. run' = [run EXCEPT ![i].state = "reading", ![i].at = @ + 1, ![i].found = << >>,
                           ![i].writes = [e \in DOMAIN r.writes \cup {d} |->
                               IF e = d THEN Replace(Rows(d), r.found[2]) ELSE r.writes[e]]]
    <3>1. Current(i) = d
      BY SameOrder
    <3> HIDE DEF d
    <3>2. \/ Fail(i)
          \/ run' = [run EXCEPT ![i].state = "reading", ![i].at = @ + 1, ![i].found = << >>,
                     ![i].writes = [e \in DOMAIN run[i].writes \cup {d} |->
                         IF e = d THEN Replace(Rows(d), run[i].found[2])
                         ELSE run[i].writes[e]]]
      BY <3>1, Zenon DEF WriteEntry
    <3> QED
      BY <1>3, <3>2
  <2>3. run' = [run EXCEPT ![i].state = "reading", ![i].at = @ + 1, ![i].found = << >>,
                           ![i].writes = w]
    BY <2>1, <2>2 DEF Written
  <2>4. w = Written(r)
    OBVIOUS
  <2> HIDE DEF w
  <2>5. run' = [run EXCEPT ![i] = s]
    BY <2>3 DEF RunsOK, WriteIn
  <2>6. s = WriteIn(r, w)
    OBVIOUS
  <2> HIDE DEF s
  <2>7. /\ Tidy(s) /\ Read(s) /\ s.part = r.part /\ DOMAIN s.writes = DOMAIN r.writes \cup {d}
        /\ Loaded(r, db) => Loaded(s, db)
    BY <1>1, <2>4, <2>6, WriteIsTidy
  <2>8. \A j \in Ingests \ {i} : DOMAIN s.writes \cap DOMAIN run[j].writes = {}
    BY <1>1, <2>7
  <2> QED
    BY <1>1, <2>5, <2>7, <2>8, OneRunMoves
<1> QED
  BY <1>2, <1>3

\* What a commit does to the database.
LEMMA CommitEffect ==
    ASSUME RunsOK, NEW i \in Ingests, Commit(i)
    PROVE  /\ Tidy(run[i]) /\ Live(run[i]) /\ run[i].at > Len(OrderOf(run[i]))
           /\ run[i].listed \in Releases /\ run[i].part \in {"history", "rules"}
           /\ run[i].part = "history" \/ i \notin overtaken => Loaded(run[i], db)
           /\ \A d \in Datasets :
                 /\ d \in DOMAIN run[i].writes => db'[d] = run[i].writes[d]
                 /\ d \notin DOMAIN run[i].writes => db'[d] = db[d]
           /\ DOMAIN run[i].writes \subseteq Range(OrderOf(run[i]))
           /\ \A d \in DOMAIN run[i].writes \ {Graduation} :
                 d \in DOMAIN Data[run[i].listed] /\ db'[d] = Data[run[i].listed][d]
<1>1. Tidy(run[i]) /\ (run[i].part = "history" \/ i \notin overtaken => Loaded(run[i], db))
  BY DEF RunsOK
<1>2. Live(run[i]) /\ run[i].at > Len(OrderOf(run[i]))
  BY SameOrder DEF Commit, Live
<1>3. \A d \in Datasets :
         /\ d \in DOMAIN run[i].writes => db'[d] = run[i].writes[d]
         /\ d \notin DOMAIN run[i].writes => db'[d] = db[d]
  BY DEF Commit
<1>4. run[i].listed \in Releases /\ run[i].part \in {"history", "rules"}
  BY <1>1, <1>2 DEF Tidy
<1>5. DOMAIN run[i].writes \subseteq Range(OrderOf(run[i]))
  BY <1>1 DEF Tidy, Placed
<1>6. \A d \in DOMAIN run[i].writes \ {Graduation} :
         d \in DOMAIN Data[run[i].listed] /\ db'[d] = Data[run[i].listed][d]
  <2>1. DOMAIN run[i].writes \subseteq Datasets
    BY <1>4, <1>5, OrderFacts
  <2> QED
    BY <1>1, <1>3, <2>1 DEF Tidy
<1> QED
  BY <1>1, <1>2, <1>3, <1>4, <1>5, <1>6

\* A commit takes nothing away that an ingest counts on which is not overtaken by it.
LEMMA LoadedSurvives ==
    ASSUME RunsOK, NEW i \in Ingests, Commit(i), NEW j \in Ingests \ {i},
           run[j].part = "history" \/ j \notin overtaken'
    PROVE  Loaded(run[j], db')
<1> DEFINE r == run[j]
<1>1. SUFFICES ASSUME Live(r), NEW k \in 1..Len(OrderOf(r)), k < r.at,
                      OrderOf(r)[k] # Graduation, OrderOf(r)[k] \notin DOMAIN r.writes
               PROVE  db'[OrderOf(r)[k]] = Data[r.listed][OrderOf(r)[k]]
  BY DEF Loaded
<1> DEFINE e == OrderOf(r)[k]
<1>2. /\ Tidy(r) /\ r.listed \in Releases /\ r.part \in {"history", "rules"}
      /\ r.at \in Nat \ {0}
  BY <1>1 DEF RunsOK, Tidy
<1>3. db[e] = Data[r.listed][e]
  <2>1. r.part = "history" \/ j \notin overtaken
    BY DEF Commit, marks
  <2> QED
    BY <1>1, <2>1 DEF RunsOK, Loaded
<1>4. e \in Range(OrderOf(r)) /\ e \in Datasets
  BY <1>2, OrderFacts
<1>5. CASE e \notin DOMAIN run[i].writes
  BY <1>3, <1>4, <1>5, CommitEffect
<1>6. CASE e \in DOMAIN run[i].writes
  <2>1. e \in Range(OrderOf(run[i]))
    BY <1>6, CommitEffect
  <2>2. run[i].part = r.part
    BY <1>2, <1>4, <2>1, CommitEffect, OrdersApart
  <2>3. r.part = "rules"
    <3>1. SUFFICES ASSUME r.part = "history"
                   PROVE  FALSE
      BY <1>2
    <3>2. r.at > 1
      BY <1>1, <1>2, OrderFacts
    <3>3. Manifest \in DOMAIN r.writes
      BY <1>2, <3>1, <3>2 DEF Tidy
    <3>4. Manifest \in DOMAIN run[i].writes
      BY <2>2, <3>1, CommitEffect, HistoryHolds
    <3> QED
      BY <3>3, <3>4 DEF RunsOK, Apart
  <2>4. run[i].listed = r.listed
    <3>1. j \notin overtaken'
      BY <2>3
    <3>2. run[i].part # "history"
      BY <2>2, <2>3
    <3> QED
      BY <1>2, <2>3, <3>1, <3>2 DEF Commit
  <2> QED
    BY <1>1, <1>6, <2>4, CommitEffect
<1> QED
  BY <1>5, <1>6

LEMMA CommitRuns ==
    ASSUME RunsOK, NEW i \in Ingests, Commit(i)
    PROVE  RunsOK'
<1> DEFINE s == Idle(IF run[i].part = "history" THEN "committed" ELSE "done")
<1>1. /\ Tidy(s) /\ Read(s) /\ DOMAIN s.writes = {} /\ \A base : Loaded(s, base)
  BY IdleIsTidy DEF Running
<1>2. run' = [run EXCEPT ![i] = s]
  BY DEF Commit, Idle
<1> HIDE DEF s
<1>3. /\ run' = [j \in Ingests |-> run'[j]] /\ run'[i] = s
      /\ \A j \in Ingests \ {i} : run'[j] = run[j]
  BY <1>2 DEF RunsOK
<1>4. Apart'
  BY <1>1, <1>3 DEF RunsOK, Apart
<1>5. \A j \in Ingests : Tidy(run[j])' /\ Read(run[j])'
  <2>1. \A j \in Ingests : Tidy(run'[j]) /\ Read(run'[j])
    BY <1>1, <1>3 DEF RunsOK
  <2> QED
    BY <2>1 DEF Tidy, Placed, Past, Read, Live, Here, OrderOf
<1>6. \A j \in Ingests : run'[j].part = "history" \/ j \notin overtaken' => Loaded(run[j], db)'
  <2>1. \A j \in Ingests :
           run'[j].part = "history" \/ j \notin overtaken' => Loaded(run'[j], db')
    BY <1>1, <1>3, LoadedSurvives
  <2> QED
    BY <2>1 DEF Loaded, Live, OrderOf
<1> QED
  BY <1>3, <1>4, <1>5, <1>6 DEF RunsOK

LEMMA CommitDb ==
    ASSUME RunsOK, DbOK, NEW i \in Ingests, Commit(i)
    PROVE  DbOK'
<1> DEFINE r == run[i]
<1>1. \A d \in Datasets \ {Graduation} : Released(d, db')
  <2> SUFFICES ASSUME NEW d \in Datasets \ {Graduation}
               PROVE  Released(d, db')
    OBVIOUS
  <2>1. CASE d \in DOMAIN r.writes
    BY <2>1, CommitEffect DEF Released
  <2>2. CASE d \notin DOMAIN r.writes
    BY <2>2, CommitEffect DEF DbOK, Released
  <2> QED
    BY <2>1, <2>2
\* What a transaction counts on is in the database when it has committed.
<1>2. ASSUME Loaded(r, db), NEW d \in Range(OrderOf(r)) \ {Graduation}
      PROVE  db'[d] = Data[r.listed][d]
  <2>1. d \in DOMAIN r.writes \/ db[d] = Data[r.listed][d]
    BY <1>2, CommitEffect, AllLoaded
  <2>2. d \in Datasets
    BY <1>2, CommitEffect, OrderFacts
  <2> QED
    BY <2>1, <2>2, CommitEffect
<1>3. Range(OrderOf(r)) =
         (IF r.part = "history" THEN HistoryData ELSE RulesData) \cap DOMAIN Data[r.listed]
  BY CommitEffect, OrderIsAll
<1>4. CASE r.part = "history"
  <2>1. OneArchive(db')
    <3>1. Manifest \in Range(OrderOf(r)) \ {Graduation}
      BY <1>4, CommitEffect, HistoryHolds, OrdersApart
    <3>2. \A t \in Terms \cap DOMAIN Data[r.listed] : t \in Range(OrderOf(r)) \ {Graduation}
      BY <1>3, <1>4, OrdersApart DEF Terms
    <3> QED
      BY <1>2, <1>4, <3>1, <3>2, CommitEffect DEF OneArchive
  <2>2. \A d \in RulesData : db'[d] = db[d]
    BY <1>4, CommitEffect, OrdersApart
  <2>3. mixed' = mixed
    BY <1>4 DEF Commit, marks
  <2>4. ~mixed' => OneRelease(db')
    BY <2>2, <2>3 DEF DbOK, OneRelease, Rules
  <2> QED
    BY <1>1, <2>1, <2>4 DEF DbOK, Released, OneArchive, OneRelease
<1>5. CASE r.part = "rules"
  <2>1. \A d \in HistoryData : db'[d] = db[d]
    BY <1>5, CommitEffect, OrdersApart
  <2>2. OneArchive(db')
    BY <2>1, OrdersApart DEF DbOK, OneArchive, Terms
  <2>3. ~mixed' => OneRelease(db')
    <3>1. SUFFICES ASSUME ~mixed'
                   PROVE  OneRelease(db')
      OBVIOUS
    <3>2. Loaded(r, db)
      BY <1>5, <3>1, CommitEffect DEF Commit
    <3>3. \A d \in Rules \cap DOMAIN Data[r.listed] : d \in Range(OrderOf(r)) \ {Graduation}
      BY <1>3, <1>5 DEF Rules
    <3> QED
      BY <1>2, <3>2, <3>3, CommitEffect DEF OneRelease
  <2> QED
    BY <1>1, <2>2, <2>3 DEF DbOK, Released, OneArchive, OneRelease
<1> QED
  BY <1>4, <1>5, CommitEffect

\* A row of the history in the database is a row of a release, of that dataset only.
LEMMA OfferingsOfTerm ==
    ASSUME DbOK, NEW t \in Terms, NEW u \in Terms, db[t] # None, db'[u] # None,
           Released(u, db'), u # t
    PROVE  Ids(db[t]) \cap Ids(db'[u]) = {}
<1>1. t \in Datasets \ {Graduation}
  BY OrdersApart DEF Terms
<1>2. PICK s \in Releases : t \in DOMAIN Data[s] /\ db[t] = Data[s][t]
  BY <1>1 DEF DbOK, Released
<1>3. PICK r \in Releases : u \in DOMAIN Data[r] /\ db'[u] = Data[r][u]
  BY DEF Released
<1> QED
  BY <1>2, <1>3, IngestAssumption DEF IngestAssumption

\* The commit of an ingest deletes no offering that a student refers to
\* without setting the reference to NULL, and touches no other reference.
LEMMA CommitRefs ==
    ASSUME RunsOK, DbOK, refs \subseteq Offerings, NEW i \in Ingests, Commit(i)
    PROVE  /\ refs' \subseteq Offerings'
           /\ \A o \in refs : o \in refs' \/ o \notin Offerings'
<1> DEFINE w == run[i].writes
<1>0. Terms \subseteq Datasets \ {Graduation}
  BY OrdersApart DEF Terms
<1>1. refs' = refs \ Gone(i)
  BY DEF Commit
<1>2. ASSUME NEW t \in Terms, db[t] # None, NEW o \in Ids(db[t])
      PROVE  /\ o \notin Gone(i) => db'[t] # None /\ o \in Ids(db'[t])
             /\ t \in DOMAIN w /\ o \in Ids(db[t]) \ Ids(w[t]) =>
                    \A u \in Terms : db'[u] # None => o \notin Ids(db'[u])
  <2>1. CASE t \notin DOMAIN w
    BY <1>0, <1>2, <2>1, CommitEffect
  <2>2. CASE t \in DOMAIN w
    <3>1. db'[t] = w[t] /\ db'[t] # None
      <4>1. /\ db'[t] = w[t] /\ run[i].listed \in Releases
            /\ t \in DOMAIN Data[run[i].listed] /\ db'[t] = Data[run[i].listed][t]
        BY <1>0, <2>2, CommitEffect
      <4> QED
        BY <4>1, IngestAssumption DEF IngestAssumption
    <3>2. o \notin Gone(i) => o \in Ids(w[t])
      BY <1>2, <2>2 DEF Gone, Rows
    <3>3. ASSUME o \notin Ids(w[t]), NEW u \in Terms, db'[u] # None
          PROVE  o \notin Ids(db'[u])
      <4>1. CASE u = t
        BY <3>1, <3>3, <4>1
      <4>2. CASE u # t
        <5>1. DbOK' /\ Released(u, db')
          BY <1>0, <3>3, CommitDb DEF DbOK, Released
        <5> QED
          BY <1>2, <3>3, <4>2, <5>1, OfferingsOfTerm
      <4> QED
        BY <4>1, <4>2
    <3> QED
      BY <3>1, <3>2, <3>3
  <2> QED
    BY <2>1, <2>2
<1>3. \A o \in refs : \E t \in Terms : db[t] # None /\ o \in Ids(db[t])
  BY DEF Offerings
<1>4. refs' \subseteq Offerings'
  BY <1>1, <1>2, <1>3 DEF Offerings, Terms
<1>5. ASSUME NEW o \in refs, o \in Gone(i)
      PROVE  o \notin Offerings'
  <2>1. PICK t \in Terms \cap DOMAIN w : o \in Ids(Rows(t)) \ Ids(w[t])
    BY <1>5 DEF Gone
  <2>2. db[t] # None /\ o \in Ids(db[t])
    BY <2>1 DEF Rows, Ids
  <2>3. \A u \in Terms : db'[u] # None => o \notin Ids(db'[u])
    BY <1>2, <2>1, <2>2
  <2> QED
    BY <2>3 DEF Offerings, Terms
<1> QED
  BY <1>1, <1>4, <1>5

LEMMA FilesKept ==
    ASSUME FilesOK, NEW f \in Files, Damage(f) \/ \E r \in Releases : Deploy(f, r)
    PROVE  FilesOK'
<1>1. Manifest \in Files /\ Bundle \in Files
  BY OrdersApart DEF Files
<1> QED
  BY <1>1 DEF FilesOK, Deploy, Damage, marks

LEMMA SameRuns ==
    ASSUME RunsOK, run' = run, db' = db, overtaken' = overtaken
    PROVE  RunsOK'
BY DEF RunsOK, Apart, Tidy, Placed, Past, Read, Loaded, Live, Here, OrderOf

LEMMA SameDb ==
    ASSUME DbOK, db' = db, mixed' = mixed
    PROVE  DbOK'
BY DEF DbOK, Released, OneArchive, OneRelease

LEMMA InvInit == Init => IngestInv
<1> SUFFICES ASSUME Init PROVE IngestInv
  OBVIOUS
<1>1. FilesOK
  <2>1. Manifest \in Files /\ Bundle \in Files /\ 1 \in Releases /\ MaxStarts \in Nat
    BY IngestAssumption, OrdersApart DEF IngestAssumption, Files
  <2>2. files \in [Files -> Releases \cup {Damaged}] /\ starts \in 0..MaxStarts
    BY <2>1 DEF Init
  <2>3. overtaken \subseteq Ingests /\ mixed \in BOOLEAN
    BY Zenon DEF Init
  <2> QED
    BY <2>1, <2>2, <2>3 DEF Init, FilesOK
<1>2. RunsOK
  <2>1. Idle("off") = NoRun
    BY DEF Idle, NoRun
  <2>2. Tidy(NoRun) /\ Read(NoRun) /\ DOMAIN NoRun.writes = {} /\ Loaded(NoRun, db)
    BY <2>1, IdleIsTidy
  <2> QED
    BY <2>2 DEF Init, RunsOK, Apart
<1>3. DbOK
  BY OrdersApart DEF Init, DbOK, Released, OneArchive, OneRelease, Rules
<1>4. refs \subseteq Offerings
  BY DEF Init
<1> QED
  BY <1>1, <1>2, <1>3, <1>4 DEF IngestInv

LEMMA InvStep == IngestInv /\ [Next]_vars => IngestInv'
<1> SUFFICES ASSUME IngestInv, [Next]_vars PROVE IngestInv'
  OBVIOUS
<1> USE DEF IngestInv
<1>0. db' = db /\ refs' = refs => (refs \subseteq Offerings)'
  BY DEF Offerings, Terms
<1>1. ASSUME NEW f \in Files, Damage(f) \/ \E r \in Releases : Deploy(f, r)
      PROVE  IngestInv'
  <2>1. UNCHANGED <<db, refs, run, overtaken, mixed>>
    BY <1>1 DEF Deploy, Damage, marks
  <2> QED
    BY <1>0, <1>1, <2>1, FilesKept, SameRuns, SameDb
<1>2. ASSUME NEW i \in Ingests, Begin(i)
      PROVE  IngestInv'
  <2>1. FilesOK'
    BY <1>2, IngestAssumption DEF IngestAssumption, Begin, FilesOK, marks
  <2> QED
    BY <1>0, <1>2, <2>1, BeginKeeps, SameDb DEF Begin, marks
<1>3. ASSUME NEW i \in Ingests, BeginRules(i)
      PROVE  IngestInv'
  <2>1. FilesOK'
    BY <1>3 DEF BeginRules, FilesOK
  <2> QED
    BY <1>0, <1>3, <2>1, BeginKeeps, SameDb DEF BeginRules
<1>4. ASSUME NEW i \in Ingests, ReadEntry(i)
      PROVE  IngestInv'
  BY <1>0, <1>4, ReadKeeps, SameDb DEF ReadEntry, FilesOK, marks
<1>5. ASSUME NEW i \in Ingests, WriteEntry(i)
      PROVE  IngestInv'
  BY <1>0, <1>5, WriteKeeps, SameDb DEF WriteEntry, FilesOK, marks
<1>6. ASSUME NEW i \in Ingests, Commit(i)
      PROVE  IngestInv'
  <2>1. UNCHANGED <<files, starts>>
    BY <1>6 DEF Commit
  <2>2. mixed' \in BOOLEAN
    <3>1. mixed' = mixed \/ mixed' = (i \in overtaken)
      BY <1>6 DEF Commit, marks
    <3>2. mixed \in BOOLEAN
      BY DEF FilesOK
    <3>3. CASE mixed' = mixed
      BY <3>2, <3>3
    <3>4. CASE mixed' = (i \in overtaken)
      BY <3>4, SMT
    <3> QED
      BY <3>1, <3>3, <3>4
  <2>3. overtaken' \subseteq Ingests
    BY <1>6 DEF Commit, FilesOK, marks
  <2> QED
    BY <1>6, <2>1, <2>2, <2>3, CommitRuns, CommitDb, CommitRefs DEF FilesOK
<1>7. ASSUME NEW i \in Ingests, Crash(i) \/ AbortDeadlocked(i)
      PROVE  IngestInv'
  <2>1. Fail(i) /\ UNCHANGED <<files, db, refs, starts, overtaken, mixed>>
    BY <1>7 DEF Crash, AbortDeadlocked, marks
  <2> QED
    BY <1>0, <2>1, FailKeeps, SameDb DEF FilesOK
<1>8. ASSUME NEW o \in Offerings, Refer(o)
      PROVE  IngestInv'
  <2>1. Offerings' = Offerings
    BY <1>8 DEF Refer, Offerings, Terms
  <2> QED
    BY <1>8, <2>1, SameRuns, SameDb DEF Refer, FilesOK, marks
<1>9. CASE UNCHANGED vars
  BY <1>0, <1>9, SameRuns, SameDb DEF vars, marks, FilesOK
<1> QED
  BY <1>1, <1>2, <1>3, <1>4, <1>5, <1>6, <1>7, <1>8, <1>9 DEF Next, Step

LEMMA Invariance == Spec => []IngestInv
BY InvInit, InvStep, PTL DEF Spec
-----------------------------------------------------------------------------
(* The theorems.                                                           *)

\* The history in the database is always that of one manifest, in full,
\* however many ingests run at once, fail or crash and whatever files are replaced
\* while they read them (history/importer.py:313-350).
THEOREM HistoryCorrect == Spec => []HistoryIsOneArchive
<1>1. IngestInv => HistoryIsOneArchive
  <2> SUFFICES ASSUME IngestInv PROVE HistoryIsOneArchive
    OBVIOUS
  <2>1. ASSUME NEW i \in Ingests
        PROVE  /\ run[i].state \in Running \cup {"off", "done", "failed"}
               /\ run[i].state \in {"reading", "writing"} <=> run[i].listed \in Releases
               /\ run[i].state = "writing" <=> run[i].found # << >>
               /\ DOMAIN run[i].writes \subseteq Datasets
    <3>1. Tidy(run[i])
      BY DEF IngestInv, RunsOK
    <3>2. None \notin Releases
      BY IngestAssumption DEF IngestAssumption
    <3>3. DOMAIN run[i].writes \subseteq Datasets
      BY <3>1, OrderFacts DEF Tidy, Placed
    <3> QED
      BY <3>1, <3>2, <3>3 DEF Tidy, Live
  <2>2. TypeOK
    BY <2>1 DEF IngestInv, FilesOK, TypeOK
  <2> QED
    BY <2>2 DEF IngestInv, DbOK, OneArchive, HistoryIsOneArchive
<1> QED
  BY <1>1, Invariance, PTL

\* No row of a damaged file is ever committed, for every dataset whose checksum is
\* listed, with any number of ingests (history/importer.py:279-292,
\* requirements/importer.py:500-513).
THEOREM DamageCorrect == Spec => []DamageKeptOut
<1>1. IngestInv => DamageKeptOut
  BY IngestAssumption DEF IngestAssumption, IngestInv, DbOK, Released, DamageKeptOut
<1> QED
  BY <1>1, Invariance, PTL

\* The curricula and rules in the database are undamaged, and those of one release
\* unless another ingest committed those of another release during the last one;
\* for any number of ingests and any bundles (requirements/importer.py:473-498).
THEOREM RulesCorrect == Spec => []RulesAreOneRelease
<1>1. IngestInv => DamageKeptOut
  BY IngestAssumption DEF IngestAssumption, IngestInv, DbOK, Released, DamageKeptOut
<1>2. IngestInv => mixed \/ OneRelease(db)
  BY DEF IngestInv, DbOK
<1>3. IngestInv => RulesAreOneRelease
  BY <1>1, <1>2 DEF RulesAreOneRelease, OneRelease, Rules
<1> QED
  BY <1>3, Invariance, PTL

\* An ingest sets a reference of a completed course to NULL only when the offering
\* leaves the history, whatever other ingests do meanwhile; it never does
\* because a term is loaded again (history/importer.py:247-267,
\* db/models.py:995-999).
THEOREM ReferencesCorrect == Spec => ReferencesSurvive
<1>1. IngestInv /\ [Next]_vars => [\A o \in refs : o \in refs' \/ o \notin Offerings']_vars
  <2> SUFFICES ASSUME IngestInv, Next
               PROVE  \A o \in refs : o \in refs' \/ o \notin Offerings'
    OBVIOUS
  <2>1. ASSUME NEW i \in Ingests, Commit(i)
        PROVE  \A o \in refs : o \in refs' \/ o \notin Offerings'
    BY <2>1, CommitRefs DEF IngestInv
  <2>2. CASE refs \subseteq refs'
    BY <2>2
  <2>3. refs \subseteq refs' \/ \E i \in Ingests : Commit(i)
    BY DEF Next, Step, Deploy, Damage, Begin, BeginRules, ReadEntry, WriteEntry, Crash,
           AbortDeadlocked, Refer
  <2> QED
    BY <2>1, <2>2, <2>3
<1> QED
  BY <1>1, Invariance, PTL DEF Spec, ReferencesSurvive
-----------------------------------------------------------------------------
(* Whom an ingest waits for.                                               *)

\* An ingest waits for a running one of the same part, which is past the dataset.
LEMMA WaitsForLater ==
    ASSUME RunsOK, NEW i \in Ingests, NEW j \in Ingests, WaitsFor(i, j)
    PROVE  /\ run[j].state \in Running /\ run[j].part = run[i].part
           /\ run[i].part \in {"history", "rules"} /\ run[i].listed \in Releases
           /\ run[j].listed \in Releases
           /\ Current(i) \in Range(OrderOf(run[i])) /\ Past(run[j], Current(i))
<1> DEFINE r == run[i]
           s == run[j]
<1>1. /\ Tidy(r) /\ Tidy(s) /\ r.part \in {"history", "rules"} /\ r.at \in Nat \ {0}
      /\ s.part \in {"history", "rules"}
  BY DEF RunsOK, Tidy
<1>2. r.state = "writing" /\ Current(i) = Here(r) /\ Here(r) \in DOMAIN s.writes
  BY SameOrder DEF WaitsFor
<1>3. r.listed \in Releases /\ r.at <= Len(OrderOf(r)) /\ Live(s) /\ s.listed \in Releases
  BY <1>1, <1>2 DEF Tidy, Placed, Live
<1>4. Here(r) \in Range(OrderOf(r))
  BY <1>1, <1>3, OrderFacts DEF Here
<1>5. Here(r) \in Range(OrderOf(s)) /\ Past(s, Here(r))
  BY <1>1, <1>2 DEF Tidy, Placed
<1>6. s.part = r.part
  BY <1>1, <1>3, <1>4, <1>5, OrdersApart
<1> QED
  BY <1>1, <1>2, <1>3, <1>4, <1>5, <1>6 DEF Live, Running

\* Those who wait in a circle load the requirements: of the history, each would hold
\* the manifest's row.
LEMMA RulesInCircle ==
    ASSUME RunsOK, NEW G \in SUBSET Ingests, Circle(G), NEW i \in G
    PROVE  run[i].part = "rules"
<1>1. PICK j \in G : WaitsFor(i, j)
  BY DEF Circle
<1>2. PICK k \in G : WaitsFor(k, i)
  BY DEF Circle
<1>3. PICK l \in G : WaitsFor(j, l)
  BY DEF Circle
<1>4. /\ run[j].part = run[i].part /\ run[i].part \in {"history", "rules"}
      /\ DOMAIN run[i].writes # {} /\ DOMAIN run[j].writes # {}
  BY <1>1, <1>2, WaitsForLater DEF WaitsFor
<1>5. SUFFICES ASSUME run[i].part = "history"
               PROVE  FALSE
  BY <1>4
<1>6. Manifest \in DOMAIN run[i].writes /\ Manifest \in DOMAIN run[j].writes
  BY <1>4, <1>5 DEF RunsOK, Tidy
<1> QED
  BY <1>1, <1>6 DEF RunsOK, Apart, WaitsFor

\* With one order for all, whoever is waited for is at a later dataset in it.
LEMMA WaitsAlongTheOrder ==
    ASSUME RunsOK, NEW i \in Ingests, NEW j \in Ingests, WaitsFor(i, j),
           run[i].part = "rules", run[j].state = "writing", NEW rank,
           \A m, n \in DOMAIN RulesOrder[run[j].listed] : m < n =>
               rank[RulesOrder[run[j].listed][m]] < rank[RulesOrder[run[j].listed][n]]
    PROVE  rank[Current(i)] < rank[Current(j)]
<1> DEFINE s == run[j]
<1>1. /\ Tidy(s) /\ s.listed \in Releases /\ s.part = "rules" /\ s.at \in Nat \ {0}
      /\ s.at <= Len(OrderOf(s)) /\ OrderOf(s) = RulesOrder[s.listed]
  BY WaitsForLater DEF RunsOK, Tidy, Placed, OrderOf
<1>2. PICK k \in 1..Len(OrderOf(s)) : k < s.at /\ OrderOf(s)[k] = Current(i)
  BY WaitsForLater DEF Past
<1>3. /\ k \in DOMAIN RulesOrder[s.listed] /\ s.at \in DOMAIN RulesOrder[s.listed]
      /\ Current(j) = RulesOrder[s.listed][s.at]
  BY <1>1, <1>2, OrderFacts, SameOrder DEF Here
<1> QED
  BY <1>1, <1>2, <1>3

\* So of ingests that wait in a circle none could be the first in it.
LEMMA NoCircle ==
    ASSUME RunsOK, NEW G \in SUBSET Ingests, Circle(G)
    PROVE  ~OneOrder({run[i].listed : i \in G})
<1> DEFINE S == {run[i].listed : i \in G}
<1>1. SUFFICES ASSUME OneOrder(S)
               PROVE  FALSE
  OBVIOUS
<1>2. PICK rank \in [Bundled(S) -> 1..Cardinality(Bundled(S))] :
         \A r \in S : \A m, n \in DOMAIN RulesOrder[r] :
             m < n => rank[RulesOrder[r][m]] < rank[RulesOrder[r][n]]
  BY <1>1 DEF OneOrder
<1>3. ASSUME NEW i \in G
      PROVE  rank[Current(i)] \in Nat
  <2>1. PICK j \in G : WaitsFor(i, j)
    BY DEF Circle
  <2>2. run[i].part = "rules"
    BY RulesInCircle
  <2>3. Current(i) \in Range(RulesOrder[run[i].listed])
    BY <2>1, <2>2, WaitsForLater DEF OrderOf
  <2>4. Current(i) \in Bundled(S)
    BY <2>3 DEF Bundled
  <2>5. \A x \in 1..Cardinality(Bundled(S)) : x \in Nat
    BY SMT
  <2> QED
    BY <1>2, <2>4, <2>5
<1>4. ASSUME NEW j \in G
      PROVE  \E i \in G : rank[Current(i)] < rank[Current(j)]
  <2>1. PICK i \in G : WaitsFor(i, j)
    BY DEF Circle
  <2>2. run[i].part = "rules" /\ run[j].state = "writing" /\ run[j].listed \in S
    BY RulesInCircle DEF Circle, WaitsFor
  <2> QED
    BY <1>2, <2>1, <2>2, WaitsAlongTheOrder
<1> DEFINE N == {rank[Current(i)] : i \in G}
<1>5. N \in SUBSET Nat /\ N # {}
  BY <1>3 DEF Circle
<1>6. PICK x \in N : \A y \in N : x <= y
  <2> HIDE DEF N
  <2> QED
    BY <1>5, Smallest
<1>7. PICK j \in G : x = rank[Current(j)]
  OBVIOUS
<1>8. PICK i \in G : rank[Current(i)] < rank[Current(j)]
  BY <1>4
<1>9. x <= rank[Current(i)]
  BY <1>6
<1> QED
  BY <1>3, <1>7, <1>8, <1>9

\* No ingest waits for one that has ended.  However many run at once and in whatever
\* orders their files list the datasets, those of the history never wait in a
\* circle, as each holds the manifest's row first, and those of the requirements
\* only when their bundles have no order in common; then the database ends one
\* of them (history/importer.py:294-350, requirements/importer.py:473-498).
THEOREM NoIngestStuck == Spec => []IngestsGoOn
<1>1. IngestInv => IngestsGoOn
  BY WaitsForLater, RulesInCircle, NoCircle DEF IngestInv, IngestsGoOn
<1> QED
  BY <1>1, Invariance, PTL
-----------------------------------------------------------------------------
(* The evaluation.                                                         *)

\* The sets and sums of the check are those of the library.
LEMMA SameCount == \A S : Check!Cardinality(S) = Cardinality(S)
  BY DEF Cardinality, Check!Cardinality

LEMMA SameFinite == \A S : Check!IsFiniteSet(S) <=> IsFiniteSet(S)
  BY DEF IsFiniteSet, Check!IsFiniteSet

LEMMA SameSum ==
    ASSUME NEW f
    PROVE  Check!SumFunction(f) = SumFunction(f)
<1>1. SumFunction(f) = (CHOOSE it : Adds(f, it))[DOMAIN f]
  BY SumIsFold
<1>2. Check!SumFunction(f) = (CHOOSE it : Adds(f, it))[DOMAIN f]
  BY Zenon DEF Check!SumFunction, Check!SumFunctionOnSet, Check!FoldFunctionOnSet,
               Check!MapThenFoldSet, Adds, Pick
<1> QED
  BY <1>1, <1>2

\* The credits of a set of courses.
LEMMA CreditsAre ==
    ASSUME NEW S \in SUBSET Entries
    PROVE  Check!Credits(S) = SumOn([c \in Entries |-> c.credits], S)
<1>1. [c \in S |-> c.credits] = [c \in S |-> [d \in Entries |-> d.credits][c]]
  OBVIOUS
<1> QED
  BY <1>1, SameSum DEF Check!Credits, SumOn

\* More courses have no fewer credits.
LEMMA CreditsGrow ==
    ASSUME NEW T \in SUBSET Entries, NEW S \in SUBSET T
    PROVE  /\ Check!Credits(S) \in Int /\ Check!Credits(T) \in Int
           /\ Check!Credits(S) <= Check!Credits(T)
<1> DEFINE f == [c \in Entries |-> c.credits]
           g == [c \in Entries |-> IF c \in S THEN c.credits ELSE 0]
<1>1. IsFiniteSet(T) /\ IsFiniteSet(S)
  BY CheckAssumption, SameFinite, FS_Subset DEF Check!RulesAssumption
<1>2. \A c \in Entries : f[c] \in Nat /\ g[c] \in Nat /\ g[c] <= f[c]
  BY CheckAssumption DEF Check!RulesAssumption
<1>3. \A c \in S : g[c] = f[c]
  OBVIOUS
<1>4. \A c \in T : c \notin S => g[c] = 0
  OBVIOUS
<1>5. Check!Credits(S) = SumOn(f, S) /\ Check!Credits(T) = SumOn(f, T)
  BY CreditsAre
<1> HIDE DEF f, g
<1>6. SumOn(f, S) = SumOn(g, S)
  BY <1>3, SumSame
<1>7. SumOn(g, T) = SumOn(g, S)
  BY <1>1, <1>2, <1>4, SumRestrict
<1>8. SumOn(g, T) <= SumOn(f, T)
  BY <1>1, <1>2, SumBound
<1>9. SumOn(f, S) \in Int /\ SumOn(f, T) \in Int
  BY <1>1, <1>2, SumType
<1> QED
  BY <1>5, <1>6, <1>7, <1>8, <1>9

\* What counts for a metric grows with the courses.
LEMMA CountedGrows ==
    ASSUME NEW T \in SUBSET Entries, NEW S \in SUBSET T, NEW m
    PROVE  /\ Check!Counted(m, S) \in Int /\ Check!Counted(m, T) \in Int
           /\ Check!Counted(m, S) <= Check!Counted(m, T)
<1> DEFINE Counts(c) == CASE m = "TOTAL_CREDITS" -> TRUE
                          [] m = "PRIMARY_MAJOR_CREDITS" -> c.category.family = "major"
                          [] m = "LIBERAL_TOTAL" -> c.category.family = "liberal"
                          [] OTHER -> c.category.metric = m
           V == {c \in T : Counts(c)}
           U == {c \in S : Counts(c)}
<1>1. V \in SUBSET Entries /\ U \in SUBSET V
  OBVIOUS
<1>2. Check!Counted(m, S) = Check!Credits(U) /\ Check!Counted(m, T) = Check!Credits(V)
  BY DEF Check!Counted
<1> QED
  BY <1>1, <1>2, CreditsGrow

\* So do the areas that are met.
LEMMA AreaStaysMet ==
    ASSUME NEW T \in SUBSET Entries, NEW S \in SUBSET T, NEW area,
           area.minCredits \in Nat, area.minCourses \in Nat, Check!AreaMet(area, S)
    PROVE  Check!AreaMet(area, T)
<1> DEFINE V == {c \in T : c.area = area.area}
           U == {c \in S : c.area = area.area}
<1>1. V \in SUBSET Entries /\ U \in SUBSET V
  OBVIOUS
<1>2. IsFiniteSet(V) /\ IsFiniteSet(U)
  BY <1>1, CheckAssumption, SameFinite, FS_Subset DEF Check!RulesAssumption
<1>3. /\ Check!Credits(U) >= area.minCredits /\ Cardinality(U) >= area.minCourses
      /\ Check!Credits(V) >= area.minCredits /\ Cardinality(V) >= area.minCourses
         => Check!AreaMet(area, T)
  BY SameCount DEF Check!AreaMet
<1> HIDE DEF U, V
<1>4. Cardinality(U) <= Cardinality(V) /\ Cardinality(U) \in Nat /\ Cardinality(V) \in Nat
  BY <1>1, <1>2, FS_Subset, FS_CardinalityType
<1>5. /\ Check!Credits(U) \in Int /\ Check!Credits(V) \in Int
      /\ Check!Credits(U) <= Check!Credits(V)
  BY <1>1, CreditsGrow
<1> QED
  BY <1>3, <1>4, <1>5

\* A rule of an evaluation is a common or a stored one.
LEMMA RulesGiven ==
    ASSUME NEW p, NEW r \in Check!CombinedRules(p)
    PROVE  /\ r \in Common \cup Stored
           /\ Check!Amounts(r)
<1>1. r \in Common \cup Stored
  BY DEF Check!CombinedRules, Check!DatabaseRules, Check!DegreeRules, Check!AssessmentRules
<1> QED
  BY <1>1, CheckAssumption DEF Check!RulesAssumption

LEMMA AreasGiven ==
    ASSUME NEW p, NEW area \in Check!AreaRequirements(Check!CombinedRules(p))
    PROVE  area.minCredits \in Nat /\ area.minCourses \in Nat
<1> DEFINE own == UNION {r.areas : r \in Check!CombinedRules(p)}
<1>1. CASE area \in own
  <2>1. PICK r \in Check!CombinedRules(p) : area \in r.areas
    BY <1>1
  <2> QED
    BY <2>1, RulesGiven DEF Check!Amounts
<1>2. CASE area \in {[area |-> a, minCredits |-> 2, minCourses |-> 1] : a \in AreaNames}
  BY <1>2
<1> QED
  BY <1>1, <1>2 DEF Check!AreaRequirements

\* What is missing shrinks when the courses grow.
LEMMA MissingShrinks ==
    ASSUME NEW p, NEW T \in SUBSET Entries, NEW S \in SUBSET T
    PROVE  Check!Missing(p, T) \subseteq Check!Missing(p, S)
<1> DEFINE rules == Check!CombinedRules(p)
           Short(C) == {<<"credits", s.kind>> : s \in {t \in Check!CreditStatus(rules, C) :
                                                          t.current < t.required}}
           Unnamed(C) == {<<"course", r.name>> :
                             r \in UNION {Check!Open(q.courses, C) : q \in rules}}
           Major(C) == {<<"major", n>> :
                           n \in Check!MajorRequirements(p).names \ {c.name : c \in C}}
           Areas(C) == {<<"area", a.area>> : a \in {b \in Check!AreaRequirements(rules) :
                                                       ~Check!AreaMet(b, C)}}
<1>1. \A C : Check!Missing(p, C) = Short(C) \cup Unnamed(C) \cup Major(C) \cup Areas(C)
  BY DEF Check!Missing
<1>2. Short(T) \subseteq Short(S)
  <2> SUFFICES ASSUME NEW t \in Check!CreditStatus(rules, T), t.current < t.required
               PROVE  \E s \in Check!CreditStatus(rules, S) :
                          s.current < s.required /\ s.kind = t.kind
    OBVIOUS
  <2>1. PICK r \in rules : \E m \in DOMAIN r.minima :
            t = [kind |-> m, required |-> r.minima[m], current |-> Check!Counted(m, T)]
    BY DEF Check!CreditStatus
  <2>2. PICK m \in DOMAIN r.minima :
            t = [kind |-> m, required |-> r.minima[m], current |-> Check!Counted(m, T)]
    BY <2>1
  <2> DEFINE s == [kind |-> m, required |-> r.minima[m], current |-> Check!Counted(m, S)]
  <2>3. s \in Check!CreditStatus(rules, S)
    BY DEF Check!CreditStatus
  <2>4. r.minima[m] \in Nat
    BY RulesGiven DEF Check!Amounts
  <2>5. /\ Check!Counted(m, S) \in Int /\ Check!Counted(m, T) \in Int
        /\ Check!Counted(m, S) <= Check!Counted(m, T)
    BY CountedGrows
  <2>6. Check!Counted(m, T) < r.minima[m]
    BY <2>2
  <2>7. Check!Counted(m, S) < r.minima[m]
    BY <2>4, <2>5, <2>6
  <2>8. s.current < s.required /\ s.kind = t.kind
    BY <2>2, <2>7
  <2> QED
    BY <2>3, <2>8
<1>3. Unnamed(T) \subseteq Unnamed(S)
  BY DEF Check!Open
<1>4. Major(T) \subseteq Major(S)
  OBVIOUS
<1>5. Areas(T) \subseteq Areas(S)
  <2>1. \A b \in Check!AreaRequirements(rules) : ~Check!AreaMet(b, T) => ~Check!AreaMet(b, S)
    BY AreasGiven, AreaStaysMet
  <2> QED
    BY <2>1
<1> HIDE DEF Short, Unnamed, Major, Areas
<1> QED
  BY <1>1, <1>2, <1>3, <1>4, <1>5
-----------------------------------------------------------------------------
(* What an answer says.                                                    *)

\* An answer is the evaluation of the courses and the profile it names.
CheckInv ==
    /\ completed \subseteq Entries /\ taking \subseteq Entries /\ completed \cap taking = {}
    /\ \A x, y \in answer : x = y
    /\ \A x \in answer : /\ x.profile \in Profiles /\ x.courses \subseteq Entries
                         /\ x = Check!Evaluation(x.profile, x.courses)

LEMMA CheckInit == Check!Init => CheckInv
  BY DEF Check!Init, CheckInv

LEMMA CheckStep == CheckInv /\ [Check!Next]_(Check!vars) => CheckInv'
<1> SUFFICES ASSUME CheckInv, [Check!Next]_(Check!vars)
             PROVE  CheckInv'
  OBVIOUS
<1>1. ASSUME NEW e \in Entries, NEW done \in BOOLEAN, Check!Record(e, done) PROVE CheckInv'
  <2>1. CASE done
    BY <1>1, <2>1 DEF Check!Record, CheckInv
  <2>2. CASE ~done
    BY <1>1, <2>2 DEF Check!Record, CheckInv
  <2> QED
    BY <2>1, <2>2
<1>2. ASSUME NEW e \in Entries, Check!Finish(e) PROVE CheckInv'
  BY <1>2 DEF Check!Finish, CheckInv
<1>3. ASSUME NEW e \in Entries, Check!Forget(e) PROVE CheckInv'
  BY <1>3 DEF Check!Forget, CheckInv
<1>4. ASSUME NEW p \in Profiles, Check!Evaluate(p) PROVE CheckInv'
  <2> DEFINE x == Check!Evaluation(p, completed)
  <2>1. answer' = {x} /\ completed' = completed /\ taking' = taking
    BY <1>4 DEF Check!Evaluate
  <2>2. x.profile = p /\ x.courses = completed
    BY DEF Check!Evaluation
  <2> HIDE DEF x
  <2>3. x = Check!Evaluation(x.profile, x.courses)
    BY <2>2 DEF x
  <2> QED
    BY <2>1, <2>2, <2>3 DEF CheckInv
<1>5. CASE UNCHANGED Check!vars
  BY <1>5 DEF Check!vars, CheckInv
<1> QED
  BY <1>1, <1>2, <1>3, <1>4, <1>5 DEF Check!Next

\* In every reachable state of every instance an answer is an evaluation.
THEOREM AnswersAreEvaluations == Check!Spec => []CheckInv
<1> QED
  BY CheckInit, CheckStep, PTL DEF Check!Spec

\* A course that a student completes makes no requirement missing
\* (_evaluate_rules, api/routes/requirements.py:228-400).
THEOREM ProgressIsKept == Check!Spec => ProgressKept
<1>1. ASSUME CheckInv, CheckInv', NEW old \in answer, NEW new \in answer',
             old.profile = new.profile, old.courses \subseteq new.courses
      PROVE  new.missing \subseteq old.missing
  <2>1. /\ old = Check!Evaluation(old.profile, old.courses)
        /\ new = Check!Evaluation(new.profile, new.courses) /\ new.courses \subseteq Entries
    BY <1>1 DEF CheckInv
  <2>2. /\ old.missing = Check!Missing(old.profile, old.courses)
        /\ new.missing = Check!Missing(new.profile, new.courses)
    BY <2>1 DEF Check!Evaluation
  <2> QED
    BY <1>1, <2>1, <2>2, MissingShrinks
<1> DEFINE Shrinks == \A old \in answer, new \in answer' :
               (old.profile = new.profile /\ old.courses \subseteq new.courses)
                   => new.missing \subseteq old.missing
<1>2. CheckInv /\ CheckInv' => [Shrinks]_(Check!vars)
  BY <1>1
<1> QED
  BY <1>2, AnswersAreEvaluations, PTL DEF ProgressKept, Check!ProgressKept

\* The kinds that an evaluation judges, and what it leaves to a human.
LEMMA JudgedBy ==
    ASSUME NEW p, NEW S, NEW r \in Check!CombinedRules(p), NEW m \in DOMAIN r.minima
    PROVE  m \in Check!Judged(Check!Evaluation(p, S))
<1>1. [kind |-> m, required |-> r.minima[m], current |-> Check!Counted(m, S)]
          \in Check!CreditStatus(Check!CombinedRules(p), S)
  BY DEF Check!CreditStatus
<1> QED
  BY <1>1 DEF Check!Judged, Check!Evaluation

\* A rule that is in force is judged or left to a human.
LEMMA InForce ==
    ASSUME NEW p, NEW S, NEW r \in Check!CombinedRules(p), r \in Common
    PROVE  Check!JudgedInstead(Check!Evaluation(p, S), r)
<1> DEFINE x == Check!Evaluation(p, S)
<1>1. /\ r.kind # "DEGREE_CREDIT_PROFILE"
      /\ DOMAIN r.minima = {r.kind} \cap Check!CreditKinds
  BY CheckAssumption DEF Check!RulesAssumption
<1>2. CASE r.kind \in Check!CreditKinds
  <2>1. r.kind \in DOMAIN r.minima
    BY <1>1, <1>2
  <2> QED
    BY <2>1, JudgedBy DEF Check!JudgedInstead
<1>3. CASE r.kind = "REQUIRED_COURSE_GROUP"
  <2>1. r.group \in x.groups
    BY <1>3 DEF Check!Evaluation
  <2> QED
    BY <1>3, <2>1 DEF Check!JudgedInstead
<1>4. CASE r.kind \notin Check!JudgedKinds
  <2>1. r.kind \in x.manual
    BY <1>4 DEF Check!Evaluation, Check!ManualItems
  <2> QED
    BY <2>1 DEF Check!JudgedInstead
<1> QED
  BY <1>1, <1>2, <1>3, <1>4 DEF Check!CreditKinds, Check!JudgedKinds

\* A degree profile judges or flags what it replaces.
LEMMA Stands ==
    ASSUME NEW p \in Profiles, NEW S, NEW r \in Common, r.kind \in Check!Replaced,
           Check!DegreeRules(p) # {}
    PROVE  Check!JudgedInstead(Check!Evaluation(p, S), r)
<1> DEFINE x == Check!Evaluation(p, S)
<1>1. PICK d \in Check!DegreeRules(p) : TRUE
  OBVIOUS
<1>2. d \in Check!CombinedRules(p) /\ d \in Stored /\ d.kind = "DEGREE_CREDIT_PROFILE"
  BY DEF Check!CombinedRules, Check!DatabaseRules, Check!DegreeRules
<1>3. Check!ProfileMetrics \subseteq DOMAIN d.minima
  BY <1>2, CheckAssumption DEF Check!RulesAssumption
<1>4. Check!ProfileMetrics \subseteq Check!Judged(x)
  BY <1>2, <1>3, JudgedBy
<1>5. x.profile = p
  BY DEF Check!Evaluation
<1>6. \A e \in Check!DegreeRules(p) : e.second => "SECONDARY_PROGRAM_CREDITS" \in x.manual
  BY DEF Check!Evaluation, Check!ManualItems, Check!CombinedRules, Check!DatabaseRules
<1> HIDE DEF x
<1>7. Check!JudgedInstead(x, r)
  BY <1>4, <1>5, <1>6 DEF Check!JudgedInstead, Check!Replaced, Check!ProfileMetrics, Check!CreditKinds
<1> QED
  BY <1>7 DEF x

\* Of the rules in force one at most judges a metric.
LEMMA OneJudge ==
    ASSUME NEW p \in Profiles, NEW r \in Check!CombinedRules(p), NEW s \in Check!CombinedRules(p),
           NEW m \in DOMAIN r.minima, m \in DOMAIN s.minima
    PROVE  r = s
<1>1. ASSUME NEW q \in Check!CombinedRules(p), m \in DOMAIN q.minima
      PROVE  \/ q \in Check!DegreeRules(p)
             \/ /\ q \in Common /\ Check!Applies(q, p) /\ q.kind = m /\ m \in Check!CreditKinds
                /\ Check!DegreeRules(p) # {} => q.kind \notin Check!Replaced
  <2>1. CASE q \in Common /\ Check!Applies(q, p)
               /\ (Check!DegreeRules(p) # {} => q.kind \notin Check!Replaced)
    BY <1>1, <2>1, CheckAssumption DEF Check!RulesAssumption
  <2>2. CASE q \in Check!DatabaseRules(p)
    <3>1. q \in Stored
      BY <2>2 DEF Check!DatabaseRules, Check!DegreeRules, Check!AssessmentRules
    <3>2. q.kind = "DEGREE_CREDIT_PROFILE"
      BY <1>1, <3>1, CheckAssumption DEF Check!RulesAssumption
    <3> QED
      BY <2>2, <3>2 DEF Check!DatabaseRules, Check!AssessmentRules
  <2> QED
    BY <2>1, <2>2 DEF Check!CombinedRules
<1>2. m \in Check!CreditKinds => m \in Check!Replaced
  BY DEF Check!CreditKinds, Check!Replaced
<1>3. CASE r \in Check!DegreeRules(p)
  <2>1. s \in Check!DegreeRules(p)
    BY <1>1, <1>2, <1>3
  <2> QED
    BY <1>3, <2>1, CheckAssumption DEF Check!RulesAssumption
<1>4. CASE r \notin Check!DegreeRules(p)
  <2>1. s \notin Check!DegreeRules(p)
    BY <1>1, <1>2, <1>4
  <2>2. r \in {q \in Common : Check!Applies(q, p) /\ q.kind \in Check!CreditKinds}
        /\ s \in {q \in Common : Check!Applies(q, p) /\ q.kind \in Check!CreditKinds}
        /\ r.kind = s.kind
    BY <1>1, <1>4, <2>1
  <2> QED
    BY <2>2, CheckAssumption DEF Check!RulesAssumption
<1> QED
  BY <1>3, <1>4

\* A common rule that applies to a student is judged, left to a human, or replaced by
\* a degree profile that judges or flags the same; no metric has two minima
\* (_combined_rules, _evaluate_rules, api/routes/requirements.py:180-400).
THEOREM NoRuleIsLost == Check!Spec => []NoRuleLost
<1>1. ASSUME CheckInv PROVE NoRuleLost
  <2>1. Check!TypeOK
    <3>1. Check!Cardinality(answer) <= 1
      <4>1. CASE answer = {}
        BY <4>1, SameCount, FS_EmptySet
      <4>2. CASE answer # {}
        <5>1. PICK x \in answer : answer = {x}
          BY <1>1, <4>2 DEF CheckInv
        <5>2. Cardinality(answer) = 1
          BY <5>1, FS_Singleton
        <5>3. Check!Cardinality(answer) = 1
          BY <5>2, SameCount
        <5> QED
          BY <5>3
      <4> QED
        BY <4>1, <4>2
    <3> QED
      BY <1>1, <3>1 DEF CheckInv, Check!TypeOK
  <2>2. ASSUME NEW x \in answer, NEW r \in Common, Check!Applies(r, x.profile)
        PROVE  Check!JudgedInstead(x, r)
    <3>1. x = Check!Evaluation(x.profile, x.courses) /\ x.profile \in Profiles
      BY <1>1 DEF CheckInv
    <3>2. CASE Check!DegreeRules(x.profile) # {} /\ r.kind \in Check!Replaced
      BY <3>1, <3>2, Stands
    <3>3. CASE Check!DegreeRules(x.profile) # {} => r.kind \notin Check!Replaced
      <4>1. r \in Check!CombinedRules(x.profile)
        BY <2>2, <3>3 DEF Check!CombinedRules
      <4> QED
        BY <3>1, <4>1, InForce
    <3> QED
      BY <3>2, <3>3
  <2>3. ASSUME NEW x \in answer, NEW c \in x.credits, NEW d \in x.credits, c.kind = d.kind
        PROVE  c = d
    <3>1. /\ x.profile \in Profiles
          /\ x.credits = Check!CreditStatus(Check!CombinedRules(x.profile), x.courses)
      <4>1. x = Check!Evaluation(x.profile, x.courses) /\ x.profile \in Profiles
        BY <1>1 DEF CheckInv
      <4> QED
        BY <4>1 DEF Check!Evaluation
    <3> DEFINE Of(r, m) == [kind |-> m, required |-> r.minima[m],
                            current |-> Check!Counted(m, x.courses)]
    <3>2. PICK r \in Check!CombinedRules(x.profile) : \E m \in DOMAIN r.minima : c = Of(r, m)
      BY <3>1 DEF Check!CreditStatus
    <3>3. PICK s \in Check!CombinedRules(x.profile) : \E m \in DOMAIN s.minima : d = Of(s, m)
      BY <3>1 DEF Check!CreditStatus
    <3>4. PICK m \in DOMAIN r.minima : c = Of(r, m)
      BY <3>2
    <3>5. PICK n \in DOMAIN s.minima : d = Of(s, n)
      BY <3>3
    <3>6. m = n
      BY <2>3, <3>4, <3>5
    <3>7. r = s
      BY <3>1, <3>6, OneJudge
    <3> QED
      BY <3>4, <3>5, <3>6, <3>7
  <2> QED
    BY <2>1, <2>2, <2>3 DEF NoRuleLost, Check!NoRuleLost, Check!OneMinimumPerKind
<1> QED
  BY <1>1, AnswersAreEvaluations, PTL
=============================================================================
