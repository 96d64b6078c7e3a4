---------------------------- MODULE ArchiveIngest ----------------------------
(***************************************************************************)
(* The one-off ingest of the public archives (history/importer.py and      *)
(* requirements/importer.py).  An ingest runs two transactions: the first  *)
(* loads the course history that a manifest lists, the second the          *)
(* curricula, rules and graduation requirements.  The files are a mounted  *)
(* directory that may be replaced, file by file, while an ingest reads it; *)
(* two ingests may run at once; students refer to the loaded offerings.    *)
(* Transactions are READ COMMITTED: a read sees what is committed, a write *)
(* of a row waits for the transaction that wrote it.  Every ingest writes  *)
(* the datasets in the order of the manifest or bundle that it read.       *)
(***************************************************************************)
EXTENDS Integers, Sequences, FiniteSets, Functions

CONSTANTS
    Ingests,       \* ingest processes
    Releases,      \* releases of the data directory, a later one greater
    Data,          \* the rows of every dataset of a release
    HistoryOrder,  \* the datasets of the history in each manifest's order, its own row first
    RulesOrder,    \* the datasets of the requirements in each bundle's order
    Manifest,      \* the manifest: its file, and its row in the database
    Bundle,        \* the file of the normalized curricula
    Curricula,     \* the datasets whose rows the bundle holds, with their sources
    Graduation,    \* the dataset of the graduation requirements
    Damaged,       \* a file with the content of no release that still parses
    Junk,          \* a row of a damaged file
    MaxStarts,     \* bound: ingests ever started
    MaxDamaged,    \* bound: files damaged at once
    None

Bundled(S) == UNION {Range(RulesOrder[r]) : r \in S}
RulesData == Bundled(Releases)
HistoryData == UNION {Range(HistoryOrder[r]) : r \in Releases}
Datasets == HistoryData \cup RulesData
Terms == HistoryData \ {Manifest}
Files == Datasets \cup {Bundle}
Ids(rows) == {row.id : row \in rows}

IsList(s) == DOMAIN s = 1..Len(s) /\ Len(s) \in Nat /\ IsInjective(s)

ASSUME IngestAssumption ==
    /\ Releases \subseteq Nat \ {0} /\ 1 \in Releases
    /\ Damaged \notin Releases /\ None \notin Releases
    /\ \A r \in Releases :
          /\ IsList(HistoryOrder[r]) /\ IsList(RulesOrder[r])
          /\ 1 \in DOMAIN HistoryOrder[r] /\ HistoryOrder[r][1] = Manifest
          /\ DOMAIN Data[r] = Range(HistoryOrder[r]) \cup Range(RulesOrder[r])
    /\ HistoryData \cap RulesData = {}
    /\ Curricula \subseteq RulesData /\ Graduation \notin HistoryData
    /\ \A r \in Releases : \A d \in DOMAIN Data[r] :
          Data[r][d] # None /\ Junk \notin Ids(Data[r][d])
    \* the id of an offering is made of its term and of a key within the term
    /\ \A r, s \in Releases : \A d \in Terms \cap DOMAIN Data[r] :
          \A e \in (Terms \cap DOMAIN Data[s]) \ {d} :
             Ids(Data[r][d]) \cap Ids(Data[s][e]) = {}
    /\ MaxStarts \in Nat /\ MaxDamaged \in Nat

VARIABLES
    files,  \* the release that the content of each file is of
    db,     \* the committed rows of every dataset, None when it is not loaded
    refs,   \* offerings that completed courses refer to
    run,    \* the ingests
    starts, \* ingests started
    \* History variables: the ingests during whose requirements another one
    \* committed those of another release, and whether the last one was such an ingest.
    overtaken, mixed

marks == <<overtaken, mixed>>
vars == <<files, db, refs, run, starts, marks>>

Offerings == UNION {Ids(db[t]) : t \in {u \in Terms : db[u] # None}}

NoRun == [state |-> "off", part |-> "history", listed |-> None, at |-> 1,
          found |-> << >>, writes |-> << >>]
Running == {"reading", "writing", "committed"}

Init ==
    /\ files = [f \in Files |-> 1] /\ db = [d \in Datasets |-> None]
    /\ refs = {} /\ run = [i \in Ingests |-> NoRun] /\ starts = 0
    /\ overtaken = {} /\ mixed = FALSE
-----------------------------------------------------------------------------
\* A file of the directory gets the content of a later release, or is damaged;
\* the manifest and the bundle are what the others are compared with.
Deploy(f, r) ==
    /\ files[f] = Damaged \/ r > files[f]
    /\ files' = [files EXCEPT ![f] = r] /\ UNCHANGED <<db, refs, run, starts, marks>>

Damage(f) ==
    /\ f \notin {Manifest, Bundle} /\ files[f] # Damaged
    /\ Cardinality({g \in Files : files[g] = Damaged}) < MaxDamaged
    /\ files' = [files EXCEPT ![f] = Damaged] /\ UNCHANGED <<db, refs, run, starts, marks>>

Content(f) ==
    IF files[f] = Damaged THEN {[id |-> Junk, value |-> Junk]}
    ELSE IF f \in DOMAIN Data[files[f]] THEN Data[files[f]][f] ELSE {}

\* Mutant: the manifest's row is written after its datasets.
ManifestLast(i) ==
    IF run[i].part = "history" THEN Tail(HistoryOrder[run[i].listed]) \o <<Manifest>>
    ELSE RulesOrder[run[i].listed]

\* The datasets that the file lists which the ingest read first, in its order.
Order(i) ==
    IF run[i].part = "history" THEN HistoryOrder[run[i].listed] ELSE RulesOrder[run[i].listed]

AllDone(i) == run[i].at > Len(Order(i))

\* The dataset that the ingest is at.
Current(i) == Order(i)[run[i].at]

\* A file has the checksum that is listed for it; none is listed for the
\* graduation requirements, and the manifest is already read.
Accepted(i, d) ==
    d \in {Manifest, Graduation} \/ Content(d) = Data[run[i].listed][d]

\* The rows to load; the manifest and the bundle are in memory already.
Wanted(i, d) ==
    IF d \in Curricula \cup {Manifest} THEN Data[run[i].listed][d] ELSE Content(d)

\* Mutant: a row that another transaction wrote is not waited for.
NeverLocked(i, d) == FALSE

Locked(i, d) == \E j \in Ingests \ {i} : d \in DOMAIN run[j].writes

\* Mutant: an ingest that fails goes on holding its rows.
FailHolding(i) ==
    run' = [run EXCEPT ![i] = [NoRun EXCEPT !.state = "failed", !.writes = run[i].writes]]

\* The transaction is rolled back.
Fail(i) == run' = [run EXCEPT ![i] = [NoRun EXCEPT !.state = "failed"]]

\* An ingest starts: it validates the course data, which may fail, and reads the manifest.
Begin(i) ==
    /\ run[i].state \notin Running /\ starts < MaxStarts /\ starts' = starts + 1
    /\ \/ Fail(i)
       \/ run' = [run EXCEPT ![i] = [NoRun EXCEPT !.state = "reading", !.listed = files[Manifest]]]
    /\ UNCHANGED <<files, db, refs, marks>>

\* The second transaction, for the requirements that the bundle lists.
BeginRules(i) ==
    /\ run[i].state = "committed"
    /\ run' = [run EXCEPT ![i] =
            [NoRun EXCEPT !.state = "reading", !.part = "rules", !.listed = files[Bundle]]]
    /\ overtaken' = overtaken \ {i} /\ UNCHANGED <<files, db, refs, starts, mixed>>

\* The next dataset: its file is checked and its row is read; a dataset that is
\* loaded already is passed over, the manifest is always written.
ReadEntry(i) ==
    /\ run[i].state = "reading" /\ ~AllDone(i)
    /\ LET d == Current(i) IN
       IF ~Accepted(i, d) THEN Fail(i)
       ELSE IF d # Manifest /\ db[d] = Wanted(i, d)
            THEN run' = [run EXCEPT ![i].at = @ + 1]
            ELSE run' = [run EXCEPT ![i].state = "writing", ![i].found = <<db[d], Wanted(i, d)>>]
    /\ UNCHANGED <<files, db, refs, starts, marks>>

\* New rows are inserted, rows with the same key updated, others deleted.
Replace(have, want) ==
    {row \in want : row.id \notin Ids(have)} \cup {row \in want : row.id \in Ids(have)}

Rows(d) == IF db[d] = None THEN {} ELSE db[d]

\* Mutant: every dataset is a transaction of its own.
WriteEntryAlone(i) ==
    /\ run[i].state = "writing"
    /\ db' = [db EXCEPT ![Current(i)] = Replace(Rows(Current(i)), run[i].found[2])]
    /\ run' = [run EXCEPT ![i].state = "reading", ![i].at = @ + 1, ![i].found = << >>]
    /\ UNCHANGED <<files, refs, starts, marks>>

\* The row of the dataset is written, then the rows of its records.  A dataset that
\* was not there and that another ingest has inserted since makes the insert
\* fail, or is updated when the second look, before the insert, finds it.
WriteEntry(i) ==
    /\ run[i].state = "writing" /\ ~Locked(i, Current(i))
    /\ LET d == Current(i)
           new == Replace(Rows(d), run[i].found[2])
           writes == [e \in DOMAIN run[i].writes \cup {d} |->
                         IF e = d THEN new ELSE run[i].writes[e]]
       IN  \/ run[i].found[1] = None /\ db[d] # None /\ Fail(i)
           \/ run' = [run EXCEPT ![i].state = "reading", ![i].at = @ + 1,
                                 ![i].found = << >>, ![i].writes = writes]
    /\ UNCHANGED <<files, db, refs, starts, marks>>

\* An ingest waits for another one that holds the row it is about to write.
WaitsFor(i, j) == i # j /\ run[i].state = "writing" /\ Current(i) \in DOMAIN run[j].writes

\* Every one of a group waits for one of the group and is waited for by one.
Circle(G) ==
    /\ G # {}
    /\ \A i \in G : (\E j \in G : WaitsFor(i, j)) /\ (\E j \in G : WaitsFor(j, i))

\* The database ends one of the transactions that wait in a circle.
AbortDeadlocked(i) ==
    /\ \E G \in SUBSET Ingests : i \in G /\ Circle(G)
    /\ Fail(i) /\ UNCHANGED <<files, db, refs, starts, marks>>

\* Mutant: the rows of a dataset are deleted and inserted again.
GoneAll(i) == UNION {Ids(Rows(d)) : d \in Terms \cap DOMAIN run[i].writes}

\* Offerings that a transaction deletes.
Gone(i) == UNION {Ids(Rows(d)) \ Ids(run[i].writes[d]) : d \in Terms \cap DOMAIN run[i].writes}

\* The transaction commits; references to deleted offerings are set to NULL.
Commit(i) ==
    /\ run[i].state = "reading" /\ AllDone(i)
    /\ db' = [d \in Datasets |-> IF d \in DOMAIN run[i].writes THEN run[i].writes[d] ELSE db[d]]
    /\ refs' = refs \ Gone(i)
    /\ run' = [run EXCEPT ![i] = [NoRun EXCEPT
                 !.state = IF run[i].part = "history" THEN "committed" ELSE "done"]]
    /\ IF run[i].part = "history" THEN UNCHANGED marks
       ELSE /\ overtaken' = overtaken \cup {j \in Ingests \ {i} :
                  run[j].part = "rules" /\ run[j].listed \in Releases \ {run[i].listed}}
            /\ mixed' = (i \in overtaken)
    /\ UNCHANGED <<files, starts>>

Crash(i) == run[i].state \in Running /\ Fail(i) /\ UNCHANGED <<files, db, refs, starts, marks>>

\* A student takes an offering over into the completed courses; the foreign key
\* makes the insert wait for a transaction that deletes the offering.
Refer(o) ==
    /\ o \in Offerings \ refs /\ \A i \in Ingests : o \notin Gone(i)
    /\ refs' = refs \cup {o} /\ UNCHANGED <<files, db, run, starts, marks>>

Step(i) == BeginRules(i) \/ ReadEntry(i) \/ WriteEntry(i) \/ Commit(i) \/ AbortDeadlocked(i)

Next ==
    \/ \E f \in Files : Damage(f) \/ \E r \in Releases : Deploy(f, r)
    \/ \E i \in Ingests : Begin(i) \/ Step(i) \/ Crash(i)
    \/ \E o \in Offerings : Refer(o)

Spec == Init /\ [][Next]_vars
-----------------------------------------------------------------------------
(* Properties.                                                               *)

\* Types of the database and of the ingests (importer.py:233-350).
TypeOK ==
    /\ files \in [Files -> Releases \cup {Damaged}]
    /\ refs \subseteq Offerings /\ starts \in 0..MaxStarts
    /\ overtaken \subseteq Ingests /\ mixed \in BOOLEAN
    /\ \A i \in Ingests :
          /\ run[i].state \in Running \cup {"off", "done", "failed"}
          /\ run[i].state \in {"reading", "writing"} <=> run[i].listed \in Releases
          /\ run[i].state = "writing" <=> run[i].found # << >>
          /\ DOMAIN run[i].writes \subseteq Datasets

\* The history in the database is that of one manifest: every dataset that the
\* loaded manifest lists has its rows, whatever files are replaced while an ingest
\* reads them, wherever an ingest fails, and when two ingests run at once
\* (history/importer.py:313-350).
HistoryIsOneArchive ==
    /\ TypeOK
    /\ db[Manifest] # None =>
          \E r \in Releases :
              /\ db[Manifest] = Data[r][Manifest]
              /\ \A t \in Terms \cap DOMAIN Data[r] : db[t] = Data[r][t]

\* Nothing of a damaged file is loaded, with the exception of the graduation
\* requirements (history/importer.py:279-292, requirements/importer.py:508-513).
DamageKeptOut ==
    \A d \in Datasets \ {Graduation} : db[d] # None => Junk \notin Ids(db[d])

\* The curricula and rules in the database are undamaged and those of one release,
\* unless another ingest committed those of another release during the last one:
\* the requirements have no row that every ingest writes before the others
\* (requirements/importer.py:473-498).
RulesAreOneRelease ==
    LET rules == RulesData \ {Graduation}
    IN  /\ DamageKeptOut
        /\ \/ mixed
           \/ \A d \in rules : db[d] = None
           \/ \E r \in Releases : \A d \in rules \cap DOMAIN Data[r] : db[d] = Data[r][d]

\* A completed course loses its link to an offering only when the offering is
\* gone from the history; a reload of the same offering keeps it
\* (history/importer.py:247-267, db/models.py:995-999).
ReferencesSurvive == [][\A o \in refs : o \in refs' \/ o \notin Offerings']_vars

\* One order of the datasets agrees with the orders of all the bundles.
OneOrder(S) ==
    \E rank \in [Bundled(S) -> 1..Cardinality(Bundled(S))] :
        \A r \in S : \A m, n \in DOMAIN RulesOrder[r] :
            m < n => rank[RulesOrder[r][m]] < rank[RulesOrder[r][n]]

\* No ingest waits for one that has ended.  Ingests of the history never wait in a
\* circle, whatever the orders of their manifests, and those of the requirements
\* only when no one order agrees with those of their bundles
\* (history/importer.py:294-350, requirements/importer.py:473-498).
IngestsGoOn ==
    /\ \A i, j \in Ingests : WaitsFor(i, j) => run[j].state \in Running
    /\ \A G \in SUBSET Ingests : Circle(G) =>
          /\ \A i \in G : run[i].part = "rules"
          /\ ~OneOrder({run[i].listed : i \in G})
=============================================================================
