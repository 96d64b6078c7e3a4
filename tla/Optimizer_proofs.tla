--------------------------- MODULE Optimizer_proofs ---------------------------
(***************************************************************************)
(* Proofs about the optimizer (Optimizer), for any course data, requests   *)
(* and problems.                                                           *)
(***************************************************************************)
EXTENDS Optimizer, FiniteSums
-----------------------------------------------------------------------------
(* The way of a request.  What a job is solved with may be other data than *)
(* the API had when it accepted the job; what was known then is kept with  *)
(* the job (Accepted), and what was answered keeps the intents (Kept).     *)

\* The API knew the sections that the job names.
Accepted(j) ==
    /\ j.body \in Bodies /\ j.version \in Versions
    /\ j.body.locked \cup j.body.selected \subseteq Requests!IdsOf(Catalogs[j.version])

\* A job is not solved yet, or with some version of the data.
Worked(j) ==
    /\ j.state \in {"QUEUED", "OPTIMAL", "INFEASIBLE", "FAILED"}
    /\ IF j.state = "QUEUED" THEN j.solvedWith = None ELSE j.solvedWith \in Versions
    /\ j = [body |-> j.body, version |-> j.version, state |-> j.state,
            solvedWith |-> j.solvedWith, sections |-> j.sections, metrics |-> j.metrics]

Kept(S, b) ==
    /\ b.locked \subseteq Requests!IdsOf(S) /\ b.required \subseteq Requests!Codes(S)
    /\ Requests!Codes(S) \cap b.excluded = {}
    /\ Requests!OneSectionPerCourse(S) /\ Requests!NoConflicts(S)
    /\ \A s \in S : \A p \in b.professors : p.course = s.course => p.professor = s.professor
    /\ \A s \in S : s.sessions = {} => s.course \in b.required \/ s.id \in b.selected \cup b.locked
    /\ b.minCredits <= Requests!CreditsOf(S) /\ Requests!CreditsOf(S) <= b.maxCredits

\* Why the worker refuses a job that the API accepted.
Cause(j) ==
    \/ ~Requests!OneSectionPerCourse(Requests!Known(j.solvedWith, j.body.selected))
    \/ ~Requests!OneSectionPerCourse(Requests!Known(j.solvedWith, j.body.locked))
    \/ \E s \in Catalogs[j.solvedWith] : Requests!Muddled(s)
    \/ /\ j.solvedWith # j.version
       /\ ~(j.body.locked \cup j.body.selected \subseteq Requests!IdsOf(Catalogs[j.solvedWith]))

\* Sections as the optimizer has them.
AsHanded(T) == {Requests!Handed(s) : s \in T}

\* A timetable is of sections of the data it was computed with, with its measures.
Computed(S, v, metrics) ==
    /\ \E T \in SUBSET Catalogs[v] : S = AsHanded(T)
    /\ \A s \in S : ~Requests!Muddled(s)
    /\ metrics = Requests!ScoreMetrics(S)

JobOK(j) ==
    /\ Accepted(j) /\ Worked(j)
    /\ j.state = "OPTIMAL" => Kept(j.sections, j.body) /\ Computed(j.sections, j.solvedWith, j.metrics)
    /\ j.state = "FAILED" => Cause(j)

RequestsInv ==
    /\ {image, api, worker, browser} \subseteq Versions
    /\ \E T : jobs \in Seq(T)
    /\ \A k \in DOMAIN jobs : JobOK(jobs[k])

\* A feasible selection of the problem of a job keeps what the job asks for.
LEMMA FeasibleKeeps ==
    ASSUME NEW b, NEW v, NEW S \in Requests!FeasibleSelections(Requests!ToRequest(b, v))
    PROVE  Kept(S, b)
<1> DEFINE r == Requests!ToRequest(b, v)
<1>1. /\ r.sections = AsHanded(Requests!Pool(b, v)) /\ r.locked = b.locked
      /\ r.required = b.required \cup Requests!Codes(Requests!Known(v, b.locked))
      /\ r.excluded = Requests!ExcludedSections(b, v)
      /\ r.minCredits = b.minCredits /\ r.maxCredits = b.maxCredits
  BY DEF Requests!ToRequest, AsHanded
<1>2. S \subseteq r.sections /\ Requests!SelectionIsFeasible(r, S)
  BY DEF Requests!FeasibleSelections
<1> HIDE DEF r
<1>3. S \subseteq AsHanded(Requests!Pool(b, v)) /\ Requests!IdsOf(S) \cap Requests!ExcludedSections(b, v) = {}
  BY <1>1, <1>2 DEF Requests!SelectionIsFeasible
<1>4. /\ b.locked \subseteq Requests!IdsOf(S) /\ b.required \subseteq Requests!Codes(S)
      /\ Requests!OneSectionPerCourse(S) /\ Requests!NoConflicts(S)
      /\ b.minCredits <= Requests!CreditsOf(S) /\ Requests!CreditsOf(S) <= b.maxCredits
  BY <1>1, <1>2 DEF Requests!SelectionIsFeasible, Requests!CoursesOf, Requests!Codes
<1>5. ASSUME NEW s \in S
      PROVE  /\ s.course \notin b.excluded
             /\ \A p \in b.professors : p.course = s.course => p.professor = s.professor
             /\ s.sessions = {} => s.course \in b.required \/ s.id \in b.selected \cup b.locked
  <2>0. PICK t \in Requests!Pool(b, v) : s = Requests!Handed(t)
    BY <1>3 DEF AsHanded
  <2>1. /\ t.id = s.id /\ t.course = s.course /\ t.professor = s.professor /\ t.sessions = s.sessions
        /\ t.id \notin Requests!ExcludedSections(b, v)
    BY <1>3, <2>0 DEF Requests!IdsOf, Requests!Handed
  <2>2. s.sessions = {} => s.course \in b.required \/ s.id \in b.selected \cup b.locked
    BY <2>1 DEF Requests!Pool
  <2>3. /\ s.course \notin b.excluded
        /\ \A p \in b.professors : p.course = s.course => p.professor = s.professor
    BY <2>1 DEF Requests!ExcludedSections
  <2> QED
    BY <2>2, <2>3
<1> QED
  BY <1>4, <1>5 DEF Kept, Requests!Codes

\* The parts count alike.
LEMMA SameCardinality == \A S : Requests!Cardinality(S) = Cardinality(S)
  BY DEF Requests!Cardinality, Cardinality, Requests!IsFiniteSet, IsFiniteSet

LEMMA SameFiniteness == \A S : Requests!IsFiniteSet(S) <=> IsFiniteSet(S)
  BY DEF Requests!IsFiniteSet, IsFiniteSet

\* Sections with keys of their own have as many keys as there are sections.
LEMMA KeysAreCounted ==
    ASSUME NEW S, IsFiniteSet(S), \A s, t \in S : s.id = t.id => s = t
    PROVE  Cardinality(Requests!IdsOf(S)) = Cardinality(S)
<1> DEFINE f == [s \in S |-> s.id]
<1>1. f \in Bijection(S, Requests!IdsOf(S))
  <2>1. f \in Injection(S, Requests!IdsOf(S))
    BY DEF Requests!IdsOf, Injection, IsInjective
  <2>2. f \in Surjection(S, Requests!IdsOf(S))
    BY DEF Requests!IdsOf, Surjection
  <2> QED
    BY <2>1, <2>2 DEF Bijection
<1> QED
  BY <1>1, FS_Bijection DEF ExistsBijection

\* Handing sections over changes nothing but their credits.
LEMMA HandedKeeps ==
    ASSUME NEW T, IsFiniteSet(T), \A s, t \in T : s.id = t.id => s = t
    PROVE  /\ IsFiniteSet(AsHanded(T)) /\ Cardinality(AsHanded(T)) = Cardinality(T)
           /\ \A s, t \in AsHanded(T) : s.id = t.id => s = t
           /\ Requests!IdsOf(AsHanded(T)) = Requests!IdsOf(T)
           /\ Requests!CoursesOf(AsHanded(T)) = Requests!CoursesOf(T)
           /\ Requests!MeetingsOf(AsHanded(T)) = Requests!MeetingsOf(T)
           /\ Requests!OneSectionPerCourse(AsHanded(T)) <=> Requests!OneSectionPerCourse(T)
           /\ Requests!NoConflicts(AsHanded(T)) <=> Requests!NoConflicts(T)
           /\ (\E s \in AsHanded(T) : Requests!Muddled(s)) <=> \E s \in T : Requests!Muddled(s)
           /\ [s \in T |-> Requests!Handed(s)] \in Bijection(T, AsHanded(T))
<1> DEFINE h == [s \in T |-> Requests!Handed(s)]
           H == AsHanded(T)
<1>1. \A s : /\ Requests!Handed(s).id = s.id /\ Requests!Handed(s).course = s.course
             /\ Requests!Handed(s).sessions = s.sessions
  BY DEF Requests!Handed
<1>2. H = {Requests!Handed(s) : s \in T}
  BY DEF AsHanded
<1> HIDE DEF H
<1>3. h \in Bijection(T, H)
  <2>1. h \in [T -> H] /\ \A s, t \in T : h[s] = h[t] => s = t
    BY <1>1, <1>2
  <2>2. h \in Injection(T, H)
    BY <2>1 DEF Injection, IsInjective
  <2>3. h \in Surjection(T, H)
    BY <1>2, <2>1 DEF Surjection
  <2> QED
    BY <2>2, <2>3 DEF Bijection
<1>4. IsFiniteSet(H) /\ Cardinality(H) = Cardinality(T)
  <2>1. IsFiniteSet(H)
    BY <1>3, FS_Surjection DEF Bijection
  <2> QED
    BY <1>3, <2>1, FS_Bijection DEF ExistsBijection
<1>5. \A s, t \in H : s.id = t.id => s = t
  BY <1>1, <1>2
<1>6. /\ Requests!IdsOf(H) = Requests!IdsOf(T) /\ Requests!CoursesOf(H) = Requests!CoursesOf(T)
      /\ Requests!MeetingsOf(H) = Requests!MeetingsOf(T)
  BY <1>1, <1>2 DEF Requests!IdsOf, Requests!CoursesOf, Requests!MeetingsOf
<1>7. Requests!OneSectionPerCourse(H) <=> Requests!OneSectionPerCourse(T)
  BY <1>4, <1>6, SameCardinality DEF Requests!OneSectionPerCourse
<1>8. \A s, t \in T : Requests!Conflict(Requests!Handed(s), Requests!Handed(t)) <=> Requests!Conflict(s, t)
  BY <1>1 DEF Requests!Conflict
<1>9. Requests!NoConflicts(H) <=> Requests!NoConflicts(T)
  <2>1. \A s, t \in T : s # t => Requests!Handed(s) # Requests!Handed(t)
    BY <1>1
  <2> QED
    BY <1>2, <1>8, <2>1 DEF Requests!NoConflicts
<1>10. (\E s \in H : Requests!Muddled(s)) <=> \E s \in T : Requests!Muddled(s)
  BY <1>1, <1>2 DEF Requests!Muddled
<1> QED
  BY <1>3, <1>4, <1>5, <1>6, <1>7, <1>9, <1>10 DEF H

\* The worker refuses a job that was accepted for a reason.
LEMMA RefusedForCause ==
    ASSUME NEW j, Accepted(j), j.solvedWith \in Versions,
           ~Requests!ValidRequest(Requests!ToRequest(j.body, j.solvedWith))
    PROVE  Cause(j)
<1> DEFINE v == j.solvedWith
           b == j.body
           pool == Requests!Pool(b, v)
           r == Requests!ToRequest(b, v)
<1>1. CASE ~(b.locked \cup b.selected \subseteq Requests!IdsOf(Catalogs[v]))
  BY <1>1 DEF Accepted, Cause
<1>2. CASE b.locked \cup b.selected \subseteq Requests!IdsOf(Catalogs[v])
  <2>1. /\ r.sections = AsHanded(pool) /\ r.locked = b.locked /\ r.current = b.selected
        /\ r.excluded = Requests!ExcludedSections(b, v)
    BY DEF Requests!ToRequest, AsHanded
  <2>2. pool \subseteq Catalogs[v]
    BY DEF Requests!Pool
  <2>3. IsFiniteSet(pool) /\ \A s, t \in pool : s.id = t.id => s = t
    <3>1. IsFiniteSet(Catalogs[v]) /\ \A s, t \in Catalogs[v] : s.id = t.id => s = t
      BY PartsAssumption, SameFiniteness DEF Requests!RequestsAssumption
    <3> QED
      BY <2>2, <3>1, FS_Subset
  <2>4. \A s \in Catalogs[v] : s.id \in b.locked \cup b.selected => s \in pool
    BY DEF Requests!Pool, Requests!RequestedCourses, Requests!Codes, Requests!Known
  <2>5. b.locked \cup b.selected \subseteq Requests!IdsOf(pool)
    BY <1>2, <2>4 DEF Requests!IdsOf
  <2>6. Requests!ExcludedSections(b, v) \subseteq Requests!IdsOf(pool)
    BY DEF Requests!ExcludedSections, Requests!IdsOf
  <2>7. ~Requests!ValidRequest(r)
    OBVIOUS
  <2>8. ASSUME NEW ids, \A s \in Catalogs[v] : s.id \in ids => s \in pool
        PROVE  Requests!OneSectionPerCourse(Requests!WithIds(r, ids))
                 <=> Requests!OneSectionPerCourse(Requests!Known(v, ids))
    <3> DEFINE K == Requests!Known(v, ids)
    <3>1. K \subseteq pool
      BY <2>8 DEF Requests!Known
    <3>2. Requests!WithIds(r, ids) = {s \in AsHanded(pool) : s.id \in ids}
      BY <2>1 DEF Requests!WithIds
    <3>3. {s \in AsHanded(pool) : s.id \in ids} = AsHanded({s \in pool : s.id \in ids})
      BY DEF AsHanded, Requests!Handed
    <3>4. {s \in pool : s.id \in ids} = K
      BY <2>2, <2>8 DEF Requests!Known
    <3> HIDE DEF K, pool, r
    <3>5. IsFiniteSet(K) /\ \A s, t \in K : s.id = t.id => s = t
      BY <2>3, <3>1, FS_Subset
    <3>6. Requests!OneSectionPerCourse(AsHanded(K)) <=> Requests!OneSectionPerCourse(K)
      BY <3>5, HandedKeeps
    <3> QED
      BY <3>2, <3>3, <3>4, <3>6 DEF K
  <2>9. /\ Requests!OneSectionPerCourse(Requests!WithIds(r, b.locked))
             <=> Requests!OneSectionPerCourse(Requests!Known(v, b.locked))
        /\ Requests!OneSectionPerCourse(Requests!WithIds(r, b.selected))
             <=> Requests!OneSectionPerCourse(Requests!Known(v, b.selected))
    BY <2>4, <2>8
  <2> HIDE DEF r, pool
  <2>10. /\ IsFiniteSet(AsHanded(pool)) /\ \A s, t \in AsHanded(pool) : s.id = t.id => s = t
         /\ Requests!IdsOf(AsHanded(pool)) = Requests!IdsOf(pool)
         /\ (\E s \in AsHanded(pool) : Requests!Muddled(s)) => \E s \in pool : Requests!Muddled(s)
    BY <2>3, HandedKeeps
  <2>11. Requests!Cardinality(Requests!IdsOf(AsHanded(pool))) = Requests!Cardinality(AsHanded(pool))
    BY <2>10, KeysAreCounted, SameCardinality
  <2>12. \/ ~Requests!OneSectionPerCourse(Requests!WithIds(r, b.locked))
         \/ ~Requests!OneSectionPerCourse(Requests!WithIds(r, b.selected))
         \/ \E s \in pool : Requests!Muddled(s)
    BY <2>1, <2>5, <2>6, <2>7, <2>10, <2>11 DEF Requests!ValidRequest
  <2> QED
    BY <2>2, <2>9, <2>12 DEF Cause
<1> QED
  BY <1>1, <1>2

LEMMA RequestsStart == Requests!Init => RequestsInv
<1> SUFFICES ASSUME Requests!Init PROVE RequestsInv
  OBVIOUS
<1>1. jobs \in Seq({})
  BY DEF Requests!Init
<1> QED
  BY <1>1 DEF Requests!Init, RequestsInv

\* A request that is answered with 202 becomes a job that is accepted.
LEMMA AcceptedWhenAdmitted ==
    ASSUME NEW b \in Bodies, RequestsInv, Requests!Admission(b, browser) = 202
    PROVE  JobOK(Requests!NewJob(b))
<1>1. browser = api /\ b.locked \cup b.selected \subseteq Requests!IdsOf(Catalogs[api])
  BY DEF Requests!Admission
<1>2. /\ Requests!NewJob(b).body = b /\ Requests!NewJob(b).version = browser
      /\ Requests!NewJob(b).state = "QUEUED" /\ Requests!NewJob(b).solvedWith = None
      /\ Requests!NewJob(b).sections = {} /\ Requests!NewJob(b).metrics = None
  BY DEF Requests!NewJob
<1>3. Worked(Requests!NewJob(b))
  <2>1. Requests!NewJob(b) = [body |-> b, version |-> browser, state |-> "QUEUED", solvedWith |-> None,
                              sections |-> {}, metrics |-> None]
    BY DEF Requests!NewJob
  <2> QED
    BY <1>2, <2>1 DEF Worked
<1> QED
  BY <1>1, <1>2, <1>3 DEF JobOK, Accepted, RequestsInv

\* What holds of every job still does when one is added or changed.
LEMMA JobAdded ==
    ASSUME RequestsInv, NEW job, JobOK(job), jobs' = Append(jobs, job),
           {image, api, worker, browser}' \subseteq Versions
    PROVE  RequestsInv'
<1>1. PICK T : jobs \in Seq(T)
  BY DEF RequestsInv
<1>2. jobs' \in Seq(T \cup {job})
  BY <1>1
<1>3. \A k \in DOMAIN jobs' : jobs'[k] = job \/ (k \in DOMAIN jobs /\ jobs'[k] = jobs[k])
  BY <1>1
<1>4. \A k \in DOMAIN jobs' : JobOK(jobs'[k])
  BY <1>3 DEF RequestsInv
<1> QED
  BY <1>2, <1>4 DEF RequestsInv, JobOK, Accepted, Worked, Cause, Kept, Computed

LEMMA JobChanged ==
    ASSUME RequestsInv, NEW j \in DOMAIN jobs, NEW job, JobOK(job),
           jobs' = [jobs EXCEPT ![j] = job],
           {image, api, worker, browser}' \subseteq Versions
    PROVE  RequestsInv'
<1>1. PICK T : jobs \in Seq(T)
  BY DEF RequestsInv
<1>2. jobs' \in Seq(T \cup {job})
  BY <1>1
<1>3. \A k \in DOMAIN jobs' : jobs'[k] = job \/ (k \in DOMAIN jobs /\ jobs'[k] = jobs[k])
  BY <1>1
<1>4. \A k \in DOMAIN jobs' : JobOK(jobs'[k])
  BY <1>3 DEF RequestsInv
<1> QED
  BY <1>2, <1>4 DEF RequestsInv, JobOK, Accepted, Worked, Cause, Kept, Computed

LEMMA JobsKept ==
    ASSUME RequestsInv, jobs' = jobs, {image, api, worker, browser}' \subseteq Versions
    PROVE  RequestsInv'
  BY DEF RequestsInv, JobOK, Accepted, Worked, Cause, Kept, Computed

LEMMA CreateKeeps ==
    ASSUME RequestsInv, NEW b \in Bodies, Requests!Create(b)
    PROVE  RequestsInv'
<1>1. {image, api, worker, browser}' \subseteq Versions
  BY DEF Requests!Create, RequestsInv
<1>2. CASE Requests!Admission(b, browser) # 202
  BY <1>1, <1>2, JobsKept DEF Requests!Create
<1>3. CASE Requests!Admission(b, browser) = 202
  <2>1. jobs' = Append(jobs, Requests!NewJob(b))
    BY <1>3 DEF Requests!Create
  <2> QED
    BY <1>1, <1>3, <2>1, AcceptedWhenAdmitted, JobAdded
<1> QED
  BY <1>2, <1>3

\* What the worker writes of a job keeps what the job is about.
LEMMA SolvedKeeps ==
    ASSUME RequestsInv, NEW j \in DOMAIN jobs, NEW S,
           NEW state \in {"OPTIMAL", "INFEASIBLE", "FAILED"},
           Requests!Solved(j, state, S),
           state = "OPTIMAL" => Kept(S, jobs[j].body) /\ Computed(S, worker, Requests!ScoreMetrics(S)),
           state = "FAILED" =>
               ~Requests!ValidRequest(Requests!ToRequest(jobs[j].body, worker)),
           {image, api, worker, browser}' \subseteq Versions
    PROVE  RequestsInv'
<1> DEFINE metrics == IF state = "OPTIMAL" THEN Requests!ScoreMetrics(S) ELSE None
           old == jobs[j]
           job == [body |-> old.body, version |-> old.version, state |-> state,
                   solvedWith |-> worker, sections |-> S, metrics |-> metrics]
<1>1. JobOK(old) /\ worker \in Versions
  BY DEF RequestsInv
<1>2. jobs' = [jobs EXCEPT ![j] = job]
  <2>1. jobs' = [jobs EXCEPT ![j] = [[[[old EXCEPT !.state = state] EXCEPT !.solvedWith = worker]
                                     EXCEPT !.sections = S] EXCEPT !.metrics = metrics]]
    BY DEF Requests!Solved
  <2> HIDE DEF metrics
  <2>2. old = [body |-> old.body, version |-> old.version, state |-> old.state,
              solvedWith |-> old.solvedWith, sections |-> old.sections, metrics |-> old.metrics]
    BY <1>1 DEF JobOK, Worked
  <2> HIDE DEF old
  <2> DEFINE one == [old EXCEPT !.state = state]
  <2>3. one = [body |-> old.body, version |-> old.version, state |-> state,
              solvedWith |-> old.solvedWith, sections |-> old.sections, metrics |-> old.metrics]
    BY <2>2
  <2> HIDE DEF one
  <2> DEFINE two == [one EXCEPT !.solvedWith = worker]
  <2>4. two = [body |-> old.body, version |-> old.version, state |-> state,
              solvedWith |-> worker, sections |-> old.sections, metrics |-> old.metrics]
    BY <2>3
  <2> HIDE DEF two
  <2> DEFINE three == [two EXCEPT !.sections = S]
  <2>5. three = [body |-> old.body, version |-> old.version, state |-> state,
                solvedWith |-> worker, sections |-> S, metrics |-> old.metrics]
    BY <2>4
  <2> HIDE DEF three
  <2>6. [three EXCEPT !.metrics = metrics] = job
    BY <2>5
  <2> QED
    BY <2>1, <2>6, Zenon DEF one, two, three
<1> HIDE DEF metrics
<1>3. Accepted(job) /\ Worked(job)
  BY <1>1 DEF JobOK, Accepted, Worked
<1>4. state = "FAILED" => Cause(job)
  BY <1>1, <1>3, RefusedForCause
<1>5. /\ job.state = state /\ job.body = old.body /\ job.sections = S /\ job.solvedWith = worker
      /\ job.metrics = metrics
  OBVIOUS
<1> HIDE DEF job
<1>6. state = "OPTIMAL" => Kept(S, old.body) /\ Computed(S, worker, metrics)
  BY DEF metrics
<1>7. JobOK(job)
  BY <1>3, <1>4, <1>5, <1>6, Zenon DEF JobOK
<1> QED
  BY <1>2, <1>7, JobChanged

LEMMA SolveKeeps ==
    ASSUME RequestsInv, NEW j \in DOMAIN jobs, Requests!Solve(j)
    PROVE  RequestsInv'
<1> DEFINE b == jobs[j].body
           r == Requests!ToRequest(b, worker)
<1>1. {image, api, worker, browser}' \subseteq Versions
  BY DEF Requests!Solve, RequestsInv
<1>2. CASE ~Requests!ValidRequest(r) /\ Requests!Solved(j, "FAILED", {})
  BY <1>1, <1>2, SolvedKeeps
<1>3. CASE /\ Requests!ValidRequest(r)
           /\ \E S \in Requests!FeasibleSelections(r) : Requests!Solved(j, "OPTIMAL", S)
  <2>1. PICK S \in Requests!FeasibleSelections(r) : Requests!Solved(j, "OPTIMAL", S)
    BY <1>3
  <2>2. Kept(S, b)
    BY FeasibleKeeps
  <2>3. Computed(S, worker, Requests!ScoreMetrics(S))
    <3> DEFINE T == {t \in Requests!Pool(b, worker) : Requests!Handed(t) \in S}
    <3>1. r.sections = AsHanded(Requests!Pool(b, worker))
      BY DEF Requests!ToRequest, AsHanded
    <3>2. Requests!Pool(b, worker) \subseteq Catalogs[worker]
      BY DEF Requests!Pool
    <3>3. S \subseteq r.sections
      BY DEF Requests!FeasibleSelections
    <3>4. \A s \in r.sections : ~Requests!Muddled(s)
      BY <1>3 DEF Requests!ValidRequest
    <3> HIDE DEF r
    <3>5. T \in SUBSET Catalogs[worker] /\ S = AsHanded(T)
      BY <3>1, <3>2, <3>3 DEF AsHanded
    <3> QED
      BY <3>3, <3>4, <3>5 DEF Computed
  <2> QED
    BY <1>1, <2>1, <2>2, <2>3, SolvedKeeps
<1>4. CASE Requests!Solved(j, "INFEASIBLE", {})
  BY <1>1, <1>4, SolvedKeeps
<1> QED
  BY <1>2, <1>3, <1>4 DEF Requests!Solve

LEMMA RequestsStep == RequestsInv /\ [Requests!Next]_(Requests!vars) => RequestsInv'
<1> SUFFICES ASSUME RequestsInv, [Requests!Next]_(Requests!vars) PROVE RequestsInv'
  OBVIOUS
<1>1. CASE Requests!Build
  BY <1>1, JobsKept DEF Requests!Build, RequestsInv
<1>2. CASE Requests!RestartApi
  BY <1>2, JobsKept DEF Requests!RestartApi, RequestsInv
<1>3. CASE Requests!RestartWorker
  BY <1>3, JobsKept DEF Requests!RestartWorker, RequestsInv
<1>4. CASE Requests!Refresh
  BY <1>4, JobsKept DEF Requests!Refresh, RequestsInv
<1>5. ASSUME NEW b \in Bodies, Requests!Create(b) PROVE RequestsInv'
  BY <1>5, CreateKeeps
<1>6. ASSUME NEW j \in DOMAIN jobs, Requests!Solve(j) PROVE RequestsInv'
  BY <1>6, SolveKeeps
<1>7. ASSUME NEW j \in DOMAIN jobs, Requests!Compare(j) PROVE RequestsInv'
  BY <1>7, JobsKept, Zenon DEF Requests!Compare, RequestsInv
<1>8. CASE UNCHANGED Requests!vars
  BY <1>8, JobsKept DEF Requests!vars, RequestsInv
<1> QED
  BY <1>1, <1>2, <1>3, <1>4, <1>5, <1>6, <1>7, <1>8 DEF Requests!Next

LEMMA RequestsInvIsIntents == RequestsInv => IntentsKept
<1> SUFFICES ASSUME RequestsInv PROVE IntentsKept
  OBVIOUS
<1>1. None \notin Versions
  BY PartsAssumption DEF SearchAssumption, Requests!RequestsAssumption
<1>2. Requests!TypeOK
  BY <1>1 DEF Requests!TypeOK, RequestsInv, JobOK, Accepted, Worked
<1>3. Requests!IntentsKept
  BY DEF Requests!IntentsKept, RequestsInv, JobOK, Kept
<1>4. Requests!FailureHasCause
  BY DEF Requests!FailureHasCause, RequestsInv, JobOK, Cause
<1> QED
  BY <1>2, <1>3, <1>4 DEF IntentsKept

\* What a student asked for is kept by every timetable that is shown, and a
\* request that was accepted fails in the worker for a reason, for any course
\* data, requests and number of jobs (worker.py:32-155, optimizations.py:131-147).
THEOREM IntentsAreKept == Requests!Spec => []IntentsKept
<1>1. Requests!Spec => []RequestsInv
  BY RequestsStart, RequestsStep, PTL DEF Requests!Spec
<1> QED
  BY <1>1, RequestsInvIsIntents, PTL

-----------------------------------------------------------------------------
(* The comparison of a candidate with what is placed.                      *)

LEMMA CatalogTyped ==
    ASSUME NEW v \in Versions
    PROVE  /\ IsFiniteSet(Catalogs[v])
           /\ \A s, t \in Catalogs[v] : s.id = t.id => s = t
           /\ \A s \in Catalogs[v] : /\ s.id \in Nat /\ s.credits \in Nat /\ IsFiniteSet(s.sessions)
                                     /\ s.sessions \subseteq Requests!Session
  BY PartsAssumption, SameFiniteness DEF Requests!RequestsAssumption, Requests!WellFormedSection

LEMMA OnePerCourseRequested ==
    ASSUME NEW S, IsFiniteSet(S), Requests!OneSectionPerCourse(S)
    PROVE  \A s, t \in S : s.course = t.course => s = t
<1> DEFINE f == [s \in S |-> s.course]
           courses == {f[s] : s \in S}
<1>1. courses = Requests!CoursesOf(S)
  BY DEF Requests!CoursesOf
<1>2. Cardinality(courses) = Cardinality(S) <=> \A s, t \in S : f[s] = f[t] => s = t
  BY CountImage
<1> QED
  BY <1>1, <1>2, SameCardinality DEF Requests!OneSectionPerCourse

Upwards(K) == {ab \in K \X K : ab[1].id < ab[2].id}
Downwards(K) == {ab \in K \X K : ab[1].id > ab[2].id}

LEMMA IdsOrder ==
    ASSUME NEW K, \A s \in K : s.id \in Nat, \A s, t \in K : s.id = t.id => s = t
    PROVE  /\ Orders(Upwards(K), K) /\ Orders(Downwards(K), K)
           /\ \A x \in K : /\ {y \in K : y.id < x.id} = Before(Upwards(K), K, x)
                           /\ {y \in K : y.id > x.id} = Before(Downwards(K), K, x)
<1>1. \A x, y \in K : /\ <<x, y>> \in Upwards(K) <=> x.id < y.id
                      /\ <<x, y>> \in Downwards(K) <=> x.id > y.id
  BY DEF Upwards, Downwards
<1>2. Orders(Upwards(K), K)
  BY <1>1 DEF Orders
<1>3. Orders(Downwards(K), K)
  BY <1>1 DEF Orders
<1> QED
  BY <1>1, <1>2, <1>3 DEF Before

LEMMA ListIsSet ==
    ASSUME NEW K, IsFiniteSet(K), NEW R, Orders(R, K)
    PROVE  /\ Len(Listed(R, K)) = Cardinality(K)
           /\ {Listed(R, K)[k] : k \in 1..Len(Listed(R, K))} = K
<1> DEFINE q == Listed(R, K)
<1>1. /\ q \in [1..Cardinality(K) -> K]
      /\ \A x \in K : \E i \in 1..Cardinality(K) : q[i] = x
  BY ListedAll, Zenon
<1> HIDE DEF q
<1>2. Cardinality(K) \in Nat
  BY FS_CardinalityType
<1>3. Len(q) = Cardinality(K)
  BY <1>1, <1>2
<1> QED
  BY <1>1, <1>3 DEF q

\* What is placed comes in some order.
LEMMA PlacedListed ==
    ASSUME NEW v \in Versions, NEW ids, NEW current,
           \/ current = Requests!InOrder(Requests!Known(v, ids), LAMBDA a, b : a.id < b.id)
           \/ current = Requests!InOrder(Requests!Known(v, ids), LAMBDA a, b : a.id > b.id)
    PROVE  \E R : /\ Orders(R, Requests!Known(v, ids))
                 /\ current = Listed(R, Requests!Known(v, ids))
<1> DEFINE K == Requests!Known(v, ids)
<1>1. /\ IsFiniteSet(K) /\ \A s \in K : s.id \in Nat
      /\ \A s, t \in K : s.id = t.id => s = t
  <2>1. K \subseteq Catalogs[v]
    BY DEF Requests!Known
  <2> QED
    BY <2>1, CatalogTyped, FS_Subset, Zenon
<1>2. \/ current = [i \in 1..Cardinality(K) |-> CHOOSE x \in K : Cardinality({y \in K : y.id < x.id}) = i - 1]
      \/ current = [i \in 1..Cardinality(K) |-> CHOOSE x \in K : Cardinality({y \in K : y.id > x.id}) = i - 1]
  BY SameCardinality, Zenon DEF Requests!InOrder, K
<1> HIDE DEF K
<1>3. /\ Orders(Upwards(K), K) /\ Orders(Downwards(K), K)
      /\ \A x \in K : /\ {y \in K : y.id < x.id} = Before(Upwards(K), K, x)
                      /\ {y \in K : y.id > x.id} = Before(Downwards(K), K, x)
  BY <1>1, IdsOrder, Zenon
<1>4. \A i : /\ (CHOOSE x \in K : Cardinality({y \in K : y.id < x.id}) = i - 1)
                 = CHOOSE x \in K : Cardinality(Before(Upwards(K), K, x)) = i - 1
             /\ (CHOOSE x \in K : Cardinality({y \in K : y.id > x.id}) = i - 1)
                 = CHOOSE x \in K : Cardinality(Before(Downwards(K), K, x)) = i - 1
  BY <1>3, Zenon
<1>5. current = Listed(Upwards(K), K) \/ current = Listed(Downwards(K), K)
  BY <1>2, <1>4, Zenon DEF Listed
<1>6. \E R : Orders(R, K) /\ current = Listed(R, K)
  BY <1>3, <1>5, Zenon
<1> QED
  BY <1>6, Zenon DEF K

\* The changes lead from what is placed to the candidate.
Placed(current) == {current[k] : k \in 1..Len(current)}

LeadsThere(c, placed, ids) ==
    LET from == {w[1] : w \in c.swapped}
        to == {w[2] : w \in c.swapped}
    IN  /\ ((placed \ (c.removed \cup from)) \cup c.added \cup to) = ids
        /\ c.added \cap to = {} /\ c.removed \cap from = {}

LEMMA ChangesLead ==
    ASSUME NEW current, NEW K, Placed(current) = K, NEW chosen,
           \A s, t \in K \cup chosen : s.id = t.id => s = t,
           \A s, t \in chosen : s.course = t.course => s = t
    PROVE  LeadsThere(Requests!Changes(current, chosen), Requests!IdsOf(K), Requests!IdsOf(chosen))
<1> DEFINE c == Requests!Changes(current, chosen)
           from == {w[1] : w \in c.swapped}
           to == {w[2] : w \in c.swapped}
           P == Requests!IdsOf(K)
           C == Requests!IdsOf(chosen)
           n == Len(current)
           lastOf(d) == {current[k] : k \in {i \in 1..n : /\ current[i].course = d
                                                          /\ \A m \in (i + 1)..n : current[m].course # d}}
           pairs == {st \in K \X chosen : st[1] \in lastOf(st[2].course) /\ st[1].id # st[2].id}
<1>1. \A d, s : s \in lastOf(d) => s.course = d
  OBVIOUS
<1>2. /\ c.swapped = {<<p[1].id, p[2].id>> : p \in pairs}
      /\ c.added = (C \ P) \ to /\ c.removed = (P \ C) \ from
  BY DEF Requests!Changes, Placed
<1> HIDE DEF c, lastOf
<1>3. ASSUME NEW w \in c.swapped
      PROVE  \E s \in K, t \in chosen : w[1] = s.id /\ w[2] = t.id /\ s.course = t.course /\ s.id # t.id
  BY <1>1, <1>2
<1> HIDE DEF pairs
<1>4. to \subseteq C
  BY <1>3 DEF Requests!IdsOf
<1>5. ASSUME NEW x \in C \cap from PROVE FALSE
  <2>1. PICK w \in c.swapped : x = w[1]
    OBVIOUS
  <2>2. PICK s \in K, t \in chosen : x = s.id /\ s.course = t.course /\ s.id # t.id
    BY <1>3, <2>1
  <2>3. s \in chosen
    BY <2>2 DEF Requests!IdsOf
  <2> QED
    BY <2>2, <2>3
<1> HIDE DEF from, to, P, C
<1>6. ((P \ (c.removed \cup from)) \cup c.added \cup to) = C
  BY <1>2, <1>4, <1>5
<1>7. c.added \cap to = {} /\ c.removed \cap from = {}
  BY <1>2
<1> QED
  BY <1>6, <1>7 DEF from, to, P, C, c, LeadsThere

\* The meetings of a day in the order of time.
Earlier == {ab \in Session \X Session : EarlierThan(ab[1], ab[2])}

LEMMA EarlierOrders ==
    ASSUME NEW d, NEW S \in SUBSET Session, \A m \in S : m.day = d
    PROVE  Orders(Earlier, S)
<1>1. /\ None \notin Nat
      /\ \A m \in S : /\ m = [day |-> d, start |-> m.start, end |-> m.end, loc |-> m.loc]
                      /\ m.start \in Int /\ m.end \in Int /\ m.loc \in {None} \cup (Nat \ {0})
  BY PartsAssumption DEF SearchAssumption, Session
<1>2. \A m \in S : Place(m.loc) \in Int
  BY <1>1 DEF Place
<1>3. \A x, y \in S : x.start = y.start /\ x.end = y.end /\ Place(x.loc) = Place(y.loc) => x = y
  BY <1>1 DEF Place
<1>4. \A x, y \in S : <<x, y>> \in Earlier <=> EarlierThan(x, y)
  BY DEF Earlier
<1>5. \A x \in S : ~EarlierThan(x, x)
  BY <1>1, <1>2 DEF EarlierThan
<1>6. \A x, y, z \in S : EarlierThan(x, y) /\ EarlierThan(y, z) => EarlierThan(x, z)
  BY <1>1, <1>2 DEF EarlierThan
<1>7. \A x, y \in S : x = y \/ EarlierThan(x, y) \/ EarlierThan(y, x)
  BY <1>1, <1>2, <1>3 DEF EarlierThan
<1> QED
  BY <1>4, <1>5, <1>6, <1>7 DEF Orders

\* A meeting without its place, as the comparison has it.
Bare(m) == [day |-> m.day, start |-> m.start, end |-> m.end, loc |-> None]

LEMMA BareMeetings ==
    ASSUME NEW v \in Versions, NEW S \in SUBSET Catalogs[v], Requests!NoConflicts(S),
           \A s \in S : ~Requests!Muddled(s)
    PROVE  /\ IsFiniteSet(Requests!MeetingsOf(S)) /\ Requests!MeetingsOf(S) \subseteq Session
           /\ \A m, n \in Requests!MeetingsOf(S) : m # n => ~Requests!Overlap(m, n)
<1> DEFINE M == Requests!MeetingsOf(S)
           sessions == {s.sessions : s \in S}
           f == [s \in S |-> s.sessions]
<1>1. IsFiniteSet(S) /\ \A s \in S : IsFiniteSet(s.sessions) /\ s.sessions \subseteq Requests!Session
  BY CatalogTyped, FS_Subset
<1>2. M = UNION sessions
  BY DEF Requests!MeetingsOf
<1>3. IsFiniteSet(sessions)
  <2>1. sessions = {f[s] : s \in S}
    OBVIOUS
  <2> QED
    BY <1>1, <2>1, CountImage
<1>4. \A T \in sessions : IsFiniteSet(T)
  BY <1>1
<1>5. Requests!Session = Session
  BY DEF Requests!Session, Session
<1>6. M \subseteq Session
  BY <1>1, <1>2, <1>5
<1>7. ASSUME NEW m \in M, NEW n \in M, m # n PROVE ~Requests!Overlap(m, n)
  <2>1. PICK s \in S : m \in s.sessions
    BY <1>2
  <2>2. PICK t \in S : n \in t.sessions
    BY <1>2
  <2>3. CASE s = t
    BY <1>7, <2>1, <2>2, <2>3 DEF Requests!Muddled
  <2>4. CASE s # t
    BY <2>1, <2>2, <2>4 DEF Requests!NoConflicts, Requests!Conflict
  <2> QED
    BY <2>3, <2>4
<1> HIDE DEF M, sessions
<1>8. IsFiniteSet(M)
  BY <1>2, <1>3, <1>4, FS_UNION
<1> QED
  BY <1>6, <1>7, <1>8 DEF M

Bares(M) == {Bare(m) : m \in M}

LEMMA BareOrder ==
    ASSUME NEW M \in SUBSET Session, IsFiniteSet(M), NEW d, \A m \in M : m.day = d,
           \A m, n \in M : m # n => ~Requests!Overlap(m, n)
    PROVE  /\ Cardinality(Bares(M)) = Cardinality(M)
           /\ \A i \in 1..Cardinality(M) :
                 /\ Listed(Earlier, M)[i] \in M
                 /\ Listed(Earlier, Bares(M))[i] = Bare(Listed(Earlier, M)[i])
<1> DEFINE h == [m \in M |-> Bare(m)]
<1>1. \A m \in M : /\ m.start \in Nat /\ m.end \in Nat /\ m.start < m.end /\ m.day \in Days
                   /\ m.end \in 1..DayEnd
  BY DEF Session
<1>2. Bares(M) \subseteq Session /\ \A m \in Bares(M) : m.day = d
  BY <1>1 DEF Bares, Bare, Session
<1>3. \A m, n \in M : m # n => m.end <= n.start \/ n.end <= m.start
  BY <1>1 DEF Requests!Overlap
<1>4. \A m, n \in M : m.start = n.start => m = n
  BY <1>1, <1>3
<1>5. h \in Bijection(M, Bares(M))
  <2>1. \A m, n \in M : h[m] = h[n] => m = n
    BY <1>4 DEF Bare
  <2>2. h \in Injection(M, Bares(M))
    BY <2>1 DEF Injection, IsInjective, Bares
  <2>3. h \in Surjection(M, Bares(M))
    BY DEF Surjection, Bares
  <2> QED
    BY <2>2, <2>3 DEF Bijection
<1>6. Orders(Earlier, M) /\ Orders(Earlier, Bares(M))
  BY <1>2, EarlierOrders
<1>7. ASSUME NEW m \in M, NEW n \in M PROVE <<m, n>> \in Earlier <=> <<h[m], h[n]>> \in Earlier
  <2>1. h[m] = Bare(m) /\ h[n] = Bare(n) /\ Bare(m) \in Session /\ Bare(n) \in Session
    BY <1>2 DEF Bares
  <2>2. <<m, n>> \in Earlier <=> m.start < n.start
    <3>1. CASE m = n
      BY <1>1, <1>6, <3>1 DEF Orders
    <3>2. CASE m # n
      BY <1>1, <1>4, <3>2 DEF Earlier, EarlierThan
    <3> QED
      BY <3>1, <3>2
  <2>3. <<Bare(m), Bare(n)>> \in Earlier <=> m.start < n.start
    <3>1. CASE m = n
      BY <1>1, <1>6, <3>1 DEF Orders, Bares
    <3>2. CASE m # n
      BY <1>1, <1>4, <2>1, <3>2 DEF Earlier, EarlierThan, Bare
    <3> QED
      BY <3>1, <3>2
  <2> QED
    BY <2>1, <2>2, <2>3
<1> HIDE DEF h
<1>8. \A m, n \in M : <<m, n>> \in Earlier <=> <<h[m], h[n]>> \in Earlier
  BY <1>7, Zenon
<1>9. /\ Cardinality(Bares(M)) = Cardinality(M)
      /\ \A i \in 1..Cardinality(M) : Listed(Earlier, Bares(M))[i] = h[Listed(Earlier, M)[i]]
  BY <1>5, <1>6, <1>8, ListRenamed
<1>10. Listed(Earlier, M) \in [1..Cardinality(M) -> M]
  BY <1>6, ListedAll, Zenon
<1> QED
  BY <1>9, <1>10 DEF h

\* The list of the meetings of a day.
LEMMA DayList ==
    ASSUME NEW M \in SUBSET Session
    PROVE  Requests!InOrder(M, Requests!EarlierThan) = Listed(Earlier, M)
<1>1. \A x \in M : {y \in M : Requests!EarlierThan(y, x)} = Before(Earlier, M, x)
  BY DEF Before, Earlier, EarlierThan, Requests!EarlierThan, Place, Requests!Place
<1>2. \A i : (CHOOSE x \in M : Cardinality({y \in M : Requests!EarlierThan(y, x)}) = i - 1)
              = CHOOSE x \in M : Cardinality(Before(Earlier, M, x)) = i - 1
  BY <1>1
<1>3. Requests!InOrder(M, Requests!EarlierThan)
        = [i \in 1..Cardinality(M) |->
             CHOOSE x \in M : Cardinality({y \in M : Requests!EarlierThan(y, x)}) = i - 1]
  <2>1. \A i : (CHOOSE x \in M : Requests!Cardinality({y \in M : Requests!EarlierThan(y, x)}) = i - 1)
                = CHOOSE x \in M : Cardinality({y \in M : Requests!EarlierThan(y, x)}) = i - 1
    BY SameCardinality
  <2>2. Requests!InOrder(M, Requests!EarlierThan)
          = [i \in 1..Requests!Cardinality(M) |->
               CHOOSE x \in M : Requests!Cardinality({y \in M : Requests!EarlierThan(y, x)}) = i - 1]
    BY Zenon DEF Requests!InOrder
  <2> QED
    BY <2>1, <2>2, SameCardinality
<1> QED
  BY <1>2, <1>3, Zenon DEF Listed

LEMMA SameGaps ==
    ASSUME NEW M \in SUBSET Session, IsFiniteSet(M), NEW d, \A m \in M : m.day = d,
           \A m, n \in M : m # n => ~Requests!Overlap(m, n)
    PROVE  Requests!GapMinutes(Requests!InOrder(M, Requests!EarlierThan))
             = Requests!GapMinutes(Requests!InOrder(Bares(M), Requests!EarlierThan))
<1> DEFINE p == Listed(Earlier, M)
           q == Listed(Earlier, Bares(M))
           n == Cardinality(M)
<1>1. Bares(M) \subseteq Session
  BY DEF Bares, Bare, Session
<1>2. Requests!InOrder(M, Requests!EarlierThan) = p
  BY DayList
<1>3. Requests!InOrder(Bares(M), Requests!EarlierThan) = q
  BY <1>1, DayList
<1>4. n \in Nat /\ Cardinality(Bares(M)) = n
  BY BareOrder, FS_CardinalityType
<1>5. \A i \in 1..n : q[i].start = p[i].start /\ q[i].end = p[i].end
  <2>1. \A i \in 1..n : q[i] = Bare(p[i])
    BY BareOrder, Zenon
  <2>2. \A m : Bare(m).start = m.start /\ Bare(m).end = m.end
    BY DEF Bare
  <2> HIDE DEF p, q, n
  <2> QED
    BY <2>1, <2>2
<1>6. Len(p) = n /\ Len(q) = n
  BY <1>4 DEF Listed
<1> HIDE DEF p, q, n
<1>7. [i \in 2..Len(p) |-> Requests!AtLeastZero(p[i].start - p[i - 1].end)]
        = [i \in 2..Len(q) |-> Requests!AtLeastZero(q[i].start - q[i - 1].end)]
  <2>1. \A i \in 2..n : i \in 1..n /\ i - 1 \in 1..n
    BY <1>4
  <2> QED
    BY <1>5, <1>6, <2>1
<1>8. Requests!GapMinutes(p) = Requests!GapMinutes(q)
  BY <1>7, Zenon DEF Requests!GapMinutes, Requests!SumOver
<1> QED
  BY <1>2, <1>3, <1>8, Zenon

\* The two programs compute the same of the same sections.
LEMMA SameMeasures ==
    ASSUME NEW v \in Versions, NEW S \in SUBSET Catalogs[v], Requests!NoConflicts(S),
           \A s \in S : ~Requests!Muddled(s)
    PROVE  Requests!CompareMetrics(S) = Requests!ScoreMetrics(S)
<1> DEFINE M == Requests!MeetingsOf(S)
           D == Requests!CampusDays(S)
           bareGap == [d \in D |-> Requests!GapMinutes(
                                       Requests!InOrder(Requests!On(Bares(M), d), Requests!EarlierThan))]
           gap == [d \in D |-> Requests!GapMinutes(Requests!DailySessions(S, d))]
<1>1. \A m : Bare(m).day = m.day /\ Bare(m).start = m.start /\ Bare(m).end = m.end
  BY DEF Bare
<1>2. /\ {m.day : m \in Bares(M)} = D /\ (Bares(M) = {} <=> M = {})
      /\ {m.start : m \in Bares(M)} = {m.start : m \in M}
      /\ {m.end : m \in Bares(M)} = {m.end : m \in M}
  BY <1>1 DEF Bares, Requests!CampusDays
<1>3. ASSUME NEW d \in D PROVE bareGap[d] = gap[d]
  <2> DEFINE A == Requests!On(M, d)
  <2>1. /\ A \in SUBSET Session /\ IsFiniteSet(A) /\ \A m \in A : m.day = d
        /\ \A m, n \in A : m # n => ~Requests!Overlap(m, n)
    BY BareMeetings, FS_Subset DEF Requests!On
  <2>2. Requests!On(Bares(M), d) = Bares(A)
    BY <1>1 DEF Requests!On, Bares
  <2> HIDE DEF A
  <2>3. Requests!GapMinutes(Requests!InOrder(A, Requests!EarlierThan))
          = Requests!GapMinutes(Requests!InOrder(Bares(A), Requests!EarlierThan))
    BY <2>1, SameGaps
  <2>4. gap[d] = Requests!GapMinutes(Requests!InOrder(A, Requests!EarlierThan))
    BY Zenon DEF Requests!DailySessions, A
  <2>5. bareGap[d] = Requests!GapMinutes(Requests!InOrder(Bares(A), Requests!EarlierThan))
    BY <2>2, Zenon
  <2> QED
    BY <2>3, <2>4, <2>5, Zenon
<1>4. bareGap = gap
  <2>1. DOMAIN bareGap = D /\ DOMAIN gap = D
    BY Zenon
  <2>2. bareGap = [d \in D |-> bareGap[d]] /\ gap = [d \in D |-> gap[d]]
    BY Zenon
  <2> HIDE DEF bareGap, gap
  <2> QED
    BY <1>3, <2>2, Zenon
<1> DEFINE sum == Requests!SumFunction(gap)
<1>5. Requests!ScoreMetrics(S) =
        [credits |-> Requests!CreditsOf(S), days |-> Requests!Cardinality(D), gap |-> sum,
         first |-> IF M = {} THEN None ELSE Requests!Min({m.start : m \in M}),
         last |-> IF M = {} THEN None ELSE Requests!Max({m.end : m \in M}),
         unknown |-> Requests!Cardinality({s \in S : s.sessions = {}})]
  BY Zenon DEF Requests!ScoreMetrics, Requests!SumOver
<1>6. Requests!CompareMetrics(S) =
        [credits |-> Requests!CreditsOf(S), days |-> Requests!Cardinality(D), gap |-> sum,
         first |-> IF Bares(M) = {} THEN None ELSE Requests!Min({m.start : m \in Bares(M)}),
         last |-> IF Bares(M) = {} THEN None ELSE Requests!Max({m.end : m \in Bares(M)}),
         unknown |-> Requests!Cardinality({s \in S : s.sessions = {}})]
  <2>1. Bares(M) = {[day |-> m.day, start |-> m.start, end |-> m.end, loc |-> None] : m \in M}
    BY Zenon DEF Bares, Bare
  <2>2. Requests!CompareMetrics(S) =
          [credits |-> Requests!CreditsOf(S), days |-> Requests!Cardinality({m.day : m \in Bares(M)}),
           gap |-> Requests!SumFunction([d \in {m.day : m \in Bares(M)} |->
               Requests!GapMinutes(Requests!InOrder(Requests!On(Bares(M), d), Requests!EarlierThan))]),
           first |-> IF Bares(M) = {} THEN None ELSE Requests!Min({m.start : m \in Bares(M)}),
           last |-> IF Bares(M) = {} THEN None ELSE Requests!Max({m.end : m \in Bares(M)}),
           unknown |-> Requests!Cardinality({s \in S : s.sessions = {}})]
    BY <2>1, Zenon DEF Requests!CompareMetrics, Requests!SumOver
  <2>3. [d \in {m.day : m \in Bares(M)} |->
               Requests!GapMinutes(Requests!InOrder(Requests!On(Bares(M), d), Requests!EarlierThan))]
          = bareGap
    BY <1>2, Zenon
  <2> HIDE DEF bareGap, gap, D, M
  <2> QED
    BY <1>2, <1>4, <2>2, <2>3, Zenon
<1> HIDE DEF sum, D, M
<1> QED
  BY <1>2, <1>5, <1>6

\* Rounding is off by half a credit at most, and exact for whole credits.
LEMMA RoundedNear ==
    ASSUME NEW c \in Nat
    PROVE  /\ Requests!Rounded(c) \in Nat /\ CreditUnit * Requests!Rounded(c) \in Nat
           /\ 2 * (c - CreditUnit * Requests!Rounded(c)) <= CreditUnit
           /\ -(2 * (c - CreditUnit * Requests!Rounded(c))) <= CreditUnit
           /\ c % CreditUnit = 0 => c = CreditUnit * Requests!Rounded(c)
<1> DEFINE whole == c \div CreditUnit
           rest == c % CreditUnit
<1>1. CreditUnit \in Nat \ {0}
  BY PartsAssumption DEF Requests!RequestsAssumption
<1>2. /\ whole \in Nat /\ rest \in Nat /\ rest < CreditUnit
      /\ c = CreditUnit * whole + rest
  BY <1>1
<1>3. Requests!Rounded(c) =
        IF 2 * rest < CreditUnit \/ (2 * rest = CreditUnit /\ whole % 2 = 0) THEN whole ELSE whole + 1
  BY DEF Requests!Rounded
<1>4. CreditUnit * (whole + 1) = CreditUnit * whole + CreditUnit /\ CreditUnit * whole \in Nat
  BY <1>1, <1>2
<1> HIDE DEF whole, rest
<1>5. CASE Requests!Rounded(c) = whole /\ 2 * rest <= CreditUnit
  BY <1>1, <1>2, <1>4, <1>5 DEF rest
<1>6. CASE Requests!Rounded(c) = whole + 1 /\ 2 * rest >= CreditUnit
  BY <1>1, <1>2, <1>4, <1>6 DEF rest
<1> QED
  BY <1>1, <1>2, <1>3, <1>5, <1>6

LEMMA SameSum == \A f : Requests!SumFunction(f) = SumFunction(f)
  BY Zenon DEF SumFunction, SumFunctionOnSet, FoldFunctionOnSet, MapThenFoldSet,
     Requests!SumFunction, Requests!SumFunctionOnSet, Requests!FoldFunctionOnSet, Requests!MapThenFoldSet

\* The credits of sections and of those that are handed over differ by half a
\* credit for each section whose credits are not whole, at most.
LEMMA CreditsNear ==
    ASSUME NEW T, IsFiniteSet(T), \A s, t \in T : s.id = t.id => s = t,
           \A s \in T : s.credits \in Nat,
           NEW X, X = {s \in T : s.credits % CreditUnit # 0}
    PROVE  LET off == 2 * (Requests!CreditsOf(T) - CreditUnit * Requests!CreditsOf(AsHanded(T)))
               allowed == CreditUnit * Requests!Cardinality(X)
           IN  off <= allowed /\ -off <= allowed
<1> DEFINE f == [s \in T |-> s.credits]
           w == [s \in T |-> Requests!Rounded(s.credits)]
           g == [s \in T |-> w[s] * CreditUnit]
           d == [s \in T |-> f[s] - g[s]]
           e == [s \in T |-> d[s] * 2]
           n == [s \in T |-> d[s] * (-2)]
           x == [s \in T |-> IF s \in X THEN 1 ELSE 0]
           y == [s \in T |-> x[s] * CreditUnit]
           H == AsHanded(T)
           k == [s \in H |-> s.credits]
           h == [s \in T |-> Requests!Handed(s)]
<1>1. CreditUnit \in Nat \ {0}
  BY PartsAssumption DEF Requests!RequestsAssumption
<1>2. \A s \in T : f[s] \in Int /\ w[s] \in Int /\ x[s] \in Int
  BY RoundedNear
<1>3. \A s \in T : /\ g[s] \in Int /\ y[s] \in Int /\ d[s] \in Int /\ e[s] \in Int /\ n[s] \in Int
                   /\ f[s] = g[s] + d[s]
  <2>1. \A a \in Int : a * CreditUnit \in Int
    BY <1>1
  <2> HIDE DEF f, w, x
  <2>2. \A s \in T : g[s] \in Int /\ y[s] \in Int
    BY <1>2, <2>1
  <2> HIDE DEF g, y
  <2>3. \A s \in T : d[s] \in Int /\ f[s] = g[s] + d[s]
    BY <1>2, <2>2
  <2> QED
    BY <2>2, <2>3
<1>4. ASSUME NEW s \in T PROVE e[s] <= y[s] /\ n[s] <= y[s]
  <2> DEFINE c == s.credits
             m == CreditUnit * Requests!Rounded(c)
  <2>1. c \in Nat /\ m \in Nat /\ Requests!Rounded(c) \in Nat
    BY RoundedNear
  <2>2. d[s] = c - m
    BY <1>1, <2>1
  <2>3. y[s] = IF c % CreditUnit # 0 THEN CreditUnit ELSE 0
    BY <1>1
  <2>4. 2 * (c - m) <= CreditUnit /\ -(2 * (c - m)) <= CreditUnit /\ (c % CreditUnit = 0 => c = m)
    BY <2>1, RoundedNear
  <2>5. e[s] = d[s] * 2 /\ n[s] = d[s] * (-2)
    OBVIOUS
  <2> HIDE DEF c, m, d, e, n, y
  <2> QED
    BY <1>1, <2>1, <2>2, <2>3, <2>4, <2>5
<1>5. SumOn(k, H) = SumOn(w, T)
  <2>1. h \in Bijection(T, H) /\ IsFiniteSet(H)
    BY HandedKeeps
  <2>2. \A s \in T : Requests!Handed(s).credits = w[s] /\ Requests!Handed(s) \in H
    BY DEF Requests!Handed, AsHanded
  <2> HIDE DEF H, w
  <2>3. \A s \in T : w[s] = k[h[s]]
    BY <2>2
  <2> HIDE DEF h, k
  <2>4. SumOn(w, T) = SumOn(k, H)
    BY <1>2, <2>1, <2>3, SumRenamed
  <2> QED
    BY <2>4
<1>6. Requests!CreditsOf(T) = SumOn(f, T) /\ Requests!CreditsOf(H) = SumOn(k, H)
  <2>1. f = [s \in T |-> f[s]] /\ k = [s \in H |-> k[s]]
    OBVIOUS
  <2>2. SumFunction(f) = SumOn(f, T) /\ SumFunction(k) = SumOn(k, H)
    BY <2>1, FunctionSum
  <2> QED
    BY <2>2, SameSum, Zenon DEF Requests!CreditsOf, Requests!SumOver
<1>7. X \in SUBSET T /\ IsFiniteSet(X) /\ Cardinality(X) \in Nat
  BY FS_Subset, FS_CardinalityType
<1>8. SumOn(x, T) = Cardinality(X)
  <2>1. \A s \in T : x[s] = IF s \in X THEN 1 ELSE 0
    OBVIOUS
  <2> HIDE DEF x
  <2> QED
    BY <1>7, <2>1, SumBits
<1>9. \A s \in T : g[s] = w[s] * CreditUnit /\ y[s] = x[s] * CreditUnit /\ e[s] = d[s] * 2 /\ n[s] = d[s] * (-2)
  OBVIOUS
<1> HIDE DEF f, w, g, d, e, n, x, y, H, k
<1>10. SumOn(g, T) = SumOn(w, T) * CreditUnit /\ SumOn(y, T) = SumOn(x, T) * CreditUnit
  BY <1>1, <1>2, <1>9, SumTimes
<1>11. SumOn(f, T) = SumOn(g, T) + SumOn(d, T)
  BY <1>2, <1>3, SumPlus
<1>12. SumOn(e, T) = SumOn(d, T) * 2 /\ SumOn(n, T) = SumOn(d, T) * (-2)
  BY <1>3, <1>9, SumTimes
<1>13. SumOn(e, T) <= SumOn(y, T) /\ SumOn(n, T) <= SumOn(y, T)
  BY <1>3, <1>4, SumBound
<1>14. /\ SumOn(d, T) \in Int /\ SumOn(w, T) \in Int /\ SumOn(g, T) \in Int /\ SumOn(y, T) \in Int
  BY <1>2, <1>3, SumType
<1> DEFINE total == SumOn(d, T)
           whole == CreditUnit * Requests!CreditsOf(H)
           most == CreditUnit * Requests!Cardinality(X)
<1>15. whole = SumOn(g, T)
  BY <1>1, <1>5, <1>6, <1>10, <1>14
<1>16. most = SumOn(y, T)
  BY <1>1, <1>7, <1>8, <1>10, SameCardinality
<1>17. Requests!CreditsOf(T) = SumOn(g, T) + SumOn(d, T)
  BY <1>6, <1>11
<1>18. Requests!CreditsOf(T) - whole = total
  BY <1>14, <1>15, <1>17
<1>19. total * 2 <= most /\ total * (-2) <= most /\ total \in Int /\ most \in Int
  BY <1>12, <1>13, <1>14, <1>16
<1> HIDE DEF total, whole, most
<1>20. 2 * total <= most /\ -(2 * total) <= most
  BY <1>19
<1> QED
  BY <1>18, <1>20 DEF whole, most, H

\* And nothing else of their measures differs.
LEMMA HandedMeasures ==
    ASSUME NEW T, IsFiniteSet(T), \A s, t \in T : s.id = t.id => s = t
    PROVE  Requests!ScoreMetrics(T)
             = [Requests!ScoreMetrics(AsHanded(T)) EXCEPT !.credits = Requests!CreditsOf(T)]
<1> DEFINE H == AsHanded(T)
           D == Requests!CampusDays(T)
           M == Requests!MeetingsOf(T)
           U(S) == {s \in S : s.sessions = {}}
           sum == Requests!SumOver(D, LAMBDA d : Requests!GapMinutes(Requests!DailySessions(T, d)))
<1>1. Requests!MeetingsOf(H) = M
  BY HandedKeeps
<1>2. Requests!CampusDays(H) = D
  BY <1>1, Zenon DEF Requests!CampusDays
<1>3. \A d : Requests!DailySessions(H, d) = Requests!DailySessions(T, d)
  BY <1>1, Zenon DEF Requests!DailySessions
<1>4. Requests!Cardinality(U(H)) = Requests!Cardinality(U(T))
  <2>1. U(H) = AsHanded(U(T))
    BY DEF AsHanded, Requests!Handed
  <2>2. IsFiniteSet(U(T)) /\ \A s, t \in U(T) : s.id = t.id => s = t
    BY FS_Subset
  <2> HIDE DEF U, H
  <2>3. Cardinality(AsHanded(U(T))) = Cardinality(U(T))
    BY <2>2, HandedKeeps
  <2> QED
    BY <2>1, <2>3, SameCardinality
<1>5. Requests!ScoreMetrics(T) =
        [credits |-> Requests!CreditsOf(T), days |-> Requests!Cardinality(D), gap |-> sum,
         first |-> IF M = {} THEN None ELSE Requests!Min({m.start : m \in M}),
         last |-> IF M = {} THEN None ELSE Requests!Max({m.end : m \in M}),
         unknown |-> Requests!Cardinality(U(T))]
  BY Zenon DEF Requests!ScoreMetrics
<1>6. Requests!SumOver(D, LAMBDA d : Requests!GapMinutes(Requests!DailySessions(H, d))) = sum
  BY <1>3, Zenon DEF Requests!SumOver
<1> HIDE DEF D, M, U, sum, H
<1>7. Requests!ScoreMetrics(H) =
        [credits |-> Requests!CreditsOf(H), days |-> Requests!Cardinality(D), gap |-> sum,
         first |-> IF M = {} THEN None ELSE Requests!Min({m.start : m \in M}),
         last |-> IF M = {} THEN None ELSE Requests!Max({m.end : m \in M}),
         unknown |-> Requests!Cardinality(U(T))]
  <2>1. Requests!ScoreMetrics(H) =
        [credits |-> Requests!CreditsOf(H), days |-> Requests!Cardinality(Requests!CampusDays(H)),
         gap |-> Requests!SumOver(Requests!CampusDays(H),
                                  LAMBDA d : Requests!GapMinutes(Requests!DailySessions(H, d))),
         first |-> IF Requests!MeetingsOf(H) = {} THEN None
                   ELSE Requests!Min({m.start : m \in Requests!MeetingsOf(H)}),
         last |-> IF Requests!MeetingsOf(H) = {} THEN None
                  ELSE Requests!Max({m.end : m \in Requests!MeetingsOf(H)}),
         unknown |-> Requests!Cardinality(U(H))]
    BY Zenon DEF Requests!ScoreMetrics, U
  <2> QED
    BY <1>1, <1>2, <1>4, <1>6, <2>1, Zenon
<1> DEFINE c == Requests!CreditsOf(T)
           k == Requests!CreditsOf(H)
           n == Requests!Cardinality(D)
           a == IF M = {} THEN None ELSE Requests!Min({m.start : m \in M})
           z == IF M = {} THEN None ELSE Requests!Max({m.end : m \in M})
           u == Requests!Cardinality(U(T))
<1> HIDE DEF c, k, n, a, z, u
<1>8. [[credits |-> k, days |-> n, gap |-> sum, first |-> a, last |-> z, unknown |-> u] EXCEPT !.credits = c]
        = [credits |-> c, days |-> n, gap |-> sum, first |-> a, last |-> z, unknown |-> u]
  OBVIOUS
<1> QED
  BY <1>5, <1>7, <1>8, Zenon DEF c, k, n, a, z, u, H

\* A comparison is right when it is made.
LEMMA CompareKeeps ==
    ASSUME RequestsInv, NEW j \in DOMAIN jobs, Requests!Compare(j)
    PROVE  ComparisonAgrees'
<1> DEFINE b == jobs[j].body
           S == jobs[j].sections
           ids == Requests!IdsOf(S)
           K == Requests!Known(api, b.selected)
           chosen == Requests!Known(api, ids)
<1>1. /\ jobs' = jobs /\ api' = api /\ api \in Versions /\ Kept(S, b)
      /\ jobs[j].solvedWith \in Versions
      /\ Computed(S, jobs[j].solvedWith, jobs[j].metrics)
  BY Zenon DEF Requests!Compare, RequestsInv, JobOK, Worked
<1> DEFINE Answer(current) ==
             answer' = IF ~(b.selected \cup ids \subseteq Requests!IdsOf(Catalogs[api]))
                       THEN [op |-> "compare", status |-> 404]
                       ELSE IF ~Requests!OneSectionPerCourse(chosen) THEN [op |-> "compare", status |-> 400]
                       ELSE [op |-> "compare", status |-> 200, job |-> j,
                             metrics |-> Requests!CompareMetrics(chosen),
                             changes |-> Requests!Changes(current, chosen)]
<1>2. \E R, current : Orders(R, K) /\ current = Listed(R, K) /\ Answer(current)
  <2>1. PICK current \in {Requests!InOrder(K, LAMBDA x, y : x.id < y.id),
                          Requests!InOrder(K, LAMBDA x, y : x.id > y.id)} : Answer(current)
    BY Zenon DEF Requests!Compare
  <2>2. \E R : Orders(R, K) /\ current = Listed(R, K)
    BY <1>1, <2>1, PlacedListed, Zenon
  <2> QED
    BY <2>1, <2>2, Zenon
<1>3. PICK R, current : Orders(R, K) /\ current = Listed(R, K) /\ Answer(current)
  BY <1>2, Zenon
<1> HIDE DEF S, K, ids, chosen, b
<1>4. CASE ~(answer'.op = "compare" /\ answer'.status = 200)
  BY <1>4 DEF ComparisonAgrees, Requests!ComparisonAgrees, Requests!MetricsAgree,
              Requests!ChangesLeadThere
<1>5. CASE answer'.op = "compare" /\ answer'.status = 200
  <2>1. /\ b.selected \cup ids \subseteq Requests!IdsOf(Catalogs[api])
        /\ Requests!OneSectionPerCourse(chosen)
        /\ answer' = [op |-> "compare", status |-> 200, job |-> j,
                      metrics |-> Requests!CompareMetrics(chosen),
                      changes |-> Requests!Changes(current, chosen)]
    BY <1>3, <1>5
  <2>2. /\ IsFiniteSet(K) /\ IsFiniteSet(chosen) /\ K \cup chosen \subseteq Catalogs[api]
        /\ \A s, t \in K \cup chosen : s.id = t.id => s = t
    BY <1>1, CatalogTyped, FS_Subset DEF K, chosen, Requests!Known
  <2>3. \A s, t \in chosen : s.course = t.course => s = t
    BY <2>1, <2>2, OnePerCourseRequested
  <2>4. Requests!IdsOf(K) = b.selected /\ Requests!IdsOf(chosen) = ids
    BY <2>1 DEF K, chosen, Requests!Known, Requests!IdsOf
  <2>5. Placed(current) = K
    <3>1. {Listed(R, K)[k] : k \in 1..Len(Listed(R, K))} = K
      BY <1>3, <2>2, ListIsSet
    <3> QED
      BY <1>3, <3>1, Zenon DEF Placed
  <2> DEFINE c == Requests!Changes(current, chosen)
  <2>6. LeadsThere(c, b.selected, ids)
    BY <2>2, <2>3, <2>4, <2>5, ChangesLead
  <2> HIDE DEF c
  <2>7. /\ answer'.job = j /\ answer'.changes = c
        /\ answer'.metrics = Requests!CompareMetrics(chosen)
    BY <2>1 DEF c
  <2>8. Requests!ChangesLeadThere'
    BY <1>1, <2>6, <2>7 DEF Requests!ChangesLeadThere, LeadsThere, b, ids, S
  <2>9. ASSUME jobs[j].solvedWith = api PROVE Requests!MetricsAgree'
    <3>1. PICK T \in SUBSET Catalogs[api] : S = AsHanded(T)
      BY <1>1, <2>9 DEF Computed
    <3>2. /\ IsFiniteSet(T) /\ (\A s, t \in T : s.id = t.id => s = t)
          /\ \A s \in T : s.credits \in Nat
      BY <1>1, CatalogTyped, FS_Subset
    <3>3. /\ Requests!NoConflicts(T) /\ (\A s \in T : ~Requests!Muddled(s))
          /\ Requests!IdsOf(S) = Requests!IdsOf(T)
      BY <1>1, <3>1, <3>2, HandedKeeps DEF Computed, Kept
    <3>4. chosen = T
      BY <1>1, <3>3, CatalogTyped DEF chosen, ids, Requests!Known, Requests!IdsOf
    <3>5. /\ answer'.metrics = Requests!ScoreMetrics(T)
          /\ jobs[j].metrics = Requests!ScoreMetrics(AsHanded(T))
      BY <1>1, <2>7, <3>1, <3>3, <3>4, SameMeasures DEF Computed
    <3> DEFINE came == Requests!ScoreMetrics(AsHanded(T))
               shown == Requests!ScoreMetrics(T)
               allowed == CreditUnit * Requests!Cardinality({s \in T : s.credits % CreditUnit # 0})
    <3>6. shown.credits = Requests!CreditsOf(T) /\ came.credits = Requests!CreditsOf(AsHanded(T))
      BY DEF Requests!ScoreMetrics
    <3>7. shown = [came EXCEPT !.credits = shown.credits]
      BY <3>2, <3>6, HandedMeasures
    <3>8. /\ 2 * (shown.credits - CreditUnit * came.credits) <= allowed
          /\ -(2 * (shown.credits - CreditUnit * came.credits)) <= allowed
      BY <3>2, <3>6, CreditsNear
    <3>9. Requests!Known(api, Requests!IdsOf(jobs[j].sections)) = T
      BY <3>4 DEF chosen, ids, S
    <3> HIDE DEF came, shown, allowed
    <3>10. Requests!MetricsAgree'
             <=> LET off == 2 * (shown.credits - CreditUnit * came.credits)
                 IN  shown = [came EXCEPT !.credits = shown.credits] /\ off <= allowed /\ -off <= allowed
      BY <1>1, <1>5, <2>7, <2>9, <3>5, <3>9 DEF Requests!MetricsAgree, came, shown, allowed
    <3> QED
      BY <3>7, <3>8, <3>10
  <2>10. Requests!MetricsAgree'
    BY <1>1, <2>7, <2>9 DEF Requests!MetricsAgree
  <2> QED
    BY <2>8, <2>10 DEF ComparisonAgrees, Requests!ComparisonAgrees
<1> QED
  BY <1>4, <1>5

\* Every other answer is no comparison.
LEMMA ComparisonStep ==
    ASSUME RequestsInv, ComparisonAgrees, [Requests!Next]_(Requests!vars)
    PROVE  ComparisonAgrees'
<1>1. ASSUME answer'.op # "compare" PROVE ComparisonAgrees'
  BY <1>1 DEF ComparisonAgrees, Requests!ComparisonAgrees, Requests!MetricsAgree,
              Requests!ChangesLeadThere
<1>2. Requests!NoAnswer.op # "compare"
  BY DEF Requests!NoAnswer
<1>3. CASE Requests!Build \/ Requests!RestartApi \/ Requests!RestartWorker \/ Requests!Refresh
  BY <1>1, <1>2, <1>3 DEF Requests!Build, Requests!RestartApi, Requests!RestartWorker, Requests!Refresh
<1>4. ASSUME NEW b \in Bodies, Requests!Create(b) PROVE ComparisonAgrees'
  <2>1. answer'.op = "create"
    BY <1>4 DEF Requests!Create
  <2> QED
    BY <1>1, <2>1
<1>5. ASSUME NEW j \in DOMAIN jobs, Requests!Solve(j) PROVE ComparisonAgrees'
  BY <1>1, <1>2, <1>5 DEF Requests!Solve
<1>6. ASSUME NEW j \in DOMAIN jobs, Requests!Compare(j) PROVE ComparisonAgrees'
  BY <1>6, CompareKeeps
<1>7. CASE UNCHANGED Requests!vars
  BY <1>7 DEF Requests!vars, ComparisonAgrees, Requests!ComparisonAgrees, Requests!MetricsAgree,
              Requests!ChangesLeadThere
<1> QED
  BY <1>3, <1>4, <1>5, <1>6, <1>7 DEF Requests!Next

\* What a comparison tells of a candidate is what came with it, but for half a
\* credit for each section whose credits are not whole, at most, and its changes
\* lead from what is placed to the candidate (compare_candidates, worker.py:78).
THEOREM ComparisonsAgree == Requests!Spec => []ComparisonAgrees
<1>1. Requests!Init => ComparisonAgrees
  BY DEF Requests!Init, Requests!NoAnswer, ComparisonAgrees, Requests!ComparisonAgrees,
         Requests!MetricsAgree, Requests!ChangesLeadThere
<1>2. RequestsInv /\ ComparisonAgrees /\ [Requests!Next]_(Requests!vars) => ComparisonAgrees'
  BY ComparisonStep
<1> QED
  BY <1>1, <1>2, RequestsStart, RequestsStep, PTL DEF Requests!Spec

-----------------------------------------------------------------------------
(* The integer model.                                                      *)

LEMMA ChosenIsCount ==
    ASSUME NEW x, NEW S, IsFiniteSet(S)
    PROVE  Chosen(x, S) = Cardinality(S \cap x)
<1> DEFINE f == [s \in S |-> Val(x, s)]
<1>1. Chosen(x, S) = SumOn(f, S)
  <2>1. [s \in S |-> Val(x, s)] = [s \in S |-> f[s]]
    OBVIOUS
  <2> QED
    BY <2>1, Zenon DEF Chosen, SumOver, SumOn
<1>2. \A s \in S : f[s] \in Int /\ (s \notin S \cap x => f[s] = 0) /\ (s \in S \cap x => f[s] = 1)
  BY DEF Val
<1> HIDE DEF f
<1>3. SumOn(f, S) = SumOn(f, S \cap x)
  BY <1>2, SumRestrict
<1>4. SumOn(f, S \cap x) = Cardinality(S \cap x)
  BY <1>2, FS_Subset, SumOnes
<1> QED
  BY <1>1, <1>3, <1>4

\* A problem that is accepted.
Solvable(r) == WellFormed(r) /\ ValidRequest(r)

LEMMA CreditsAgree ==
    ASSUME NEW r, Solvable(r), NEW x \in SUBSET r.sections
    PROVE  Credits(r, x) = CreditsOf(x)
<1> DEFINE f == [s \in r.sections |-> s.credits * Val(x, s)]
           g == [s \in x |-> s.credits]
<1>1. IsFiniteSet(r.sections) /\ \A s \in r.sections : s.credits \in Nat
  BY DEF Solvable, WellFormed, WellFormedSection
<1>2. Credits(r, x) = SumOn(f, r.sections)
  <2>1. [s \in r.sections |-> s.credits * Val(x, s)] = [s \in r.sections |-> f[s]]
    OBVIOUS
  <2> QED
    BY <2>1, Zenon DEF Credits, SumOver, SumOn
<1>3. CreditsOf(x) = SumOn(g, x)
  <2>1. [s \in x |-> s.credits] = [s \in x |-> g[s]]
    OBVIOUS
  <2> QED
    BY <2>1, Zenon DEF CreditsOf, SumOver, SumOn
<1>4. \A s \in r.sections : f[s] \in Int /\ (s \notin x => f[s] = 0)
  BY <1>1 DEF Val
<1>5. \A s \in x : f[s] = g[s]
  BY <1>1 DEF Val
<1> HIDE DEF f, g
<1>6. SumOn(f, r.sections) = SumOn(f, x)
  BY <1>1, <1>4, SumRestrict
<1>7. SumOn(f, x) = SumOn(g, x)
  BY <1>5, SumSame
<1> QED
  BY <1>2, <1>3, <1>6, <1>7

LEMMA CreditsBound ==
    ASSUME NEW r, Solvable(r), NEW x \in SUBSET r.sections, NEW y \in SUBSET x
    PROVE  CreditsOf(y) \in Int /\ CreditsOf(x) \in Int /\ CreditsOf(y) <= CreditsOf(x)
<1> DEFINE f == [s \in x |-> IF s \in y THEN s.credits ELSE 0]
           g == [s \in x |-> s.credits]
           h == [s \in y |-> s.credits]
<1>1. IsFiniteSet(x) /\ \A s \in x : s.credits \in Nat
  BY FS_Subset DEF Solvable, WellFormed, WellFormedSection
<1>2. CreditsOf(x) = SumOn(g, x)
  <2>1. [s \in x |-> s.credits] = [s \in x |-> g[s]]
    OBVIOUS
  <2> QED
    BY <2>1, Zenon DEF CreditsOf, SumOver, SumOn
<1>3. CreditsOf(y) = SumOn(h, y)
  <2>1. [s \in y |-> s.credits] = [s \in y |-> h[s]]
    OBVIOUS
  <2> QED
    BY <2>1, Zenon DEF CreditsOf, SumOver, SumOn
<1>4. \A s \in x : f[s] \in Int /\ g[s] \in Int /\ f[s] <= g[s] /\ (s \notin y => f[s] = 0)
  BY <1>1
<1>5. \A s \in y : f[s] = h[s]
  BY <1>1
<1> HIDE DEF f, g, h
<1>6. SumOn(f, x) = SumOn(f, y)
  BY <1>1, <1>4, SumRestrict
<1>7. SumOn(f, y) = SumOn(h, y)
  BY <1>5, SumSame
<1>8. SumOn(f, x) <= SumOn(g, x) /\ SumOn(f, x) \in Int /\ SumOn(g, x) \in Int
  BY <1>1, <1>4, SumBound, SumType
<1> QED
  BY <1>2, <1>3, <1>6, <1>7, <1>8

-----------------------------------------------------------------------------
(* The hard constraints, one by one.                                       *)

LEMMA FiniteSelections ==
    ASSUME NEW r, Solvable(r), NEW x \in SUBSET r.sections
    PROVE  IsFiniteSet(r.sections) /\ IsFiniteSet(x)
  BY FS_Subset DEF Solvable, WellFormed

\* Of two sections with one id there is only one.
LEMMA UniqueIds ==
    ASSUME NEW r, Solvable(r)
    PROVE  \A s, t \in r.sections : s.id = t.id => s = t
<1> DEFINE f == [s \in r.sections |-> s.id]
           ids == {f[s] : s \in r.sections}
<1>1. ids = IdsOf(r.sections)
  BY DEF IdsOf
<1>2. Cardinality(ids) = Cardinality(r.sections)
  BY <1>1 DEF Solvable, ValidRequest
<1>3. \A s, t \in r.sections : f[s] = f[t] => s = t
  BY <1>2, FiniteSelections, CountImage
<1> QED
  BY <1>3

LEMMA OnePerCourse ==
    ASSUME NEW S, IsFiniteSet(S)
    PROVE  OneSectionPerCourse(S) <=> \A s, t \in S : s.course = t.course => s = t
<1> DEFINE f == [s \in S |-> s.course]
           courses == {f[s] : s \in S}
<1>1. courses = CoursesOf(S)
  BY DEF CoursesOf
<1>2. Cardinality(courses) = Cardinality(S) <=> \A s, t \in S : f[s] = f[t] => s = t
  BY CountImage
<1> QED
  BY <1>1, <1>2 DEF OneSectionPerCourse

LEMMA CourseConstraint ==
    ASSUME NEW r, Solvable(r), NEW x \in SUBSET r.sections
    PROVE  (\A c \in CoursesOf(r.sections) : Chosen(x, SectionsOf(r, c)) <= 1)
           <=> OneSectionPerCourse(x)
<1>1. ASSUME NEW c
      PROVE  Chosen(x, SectionsOf(r, c)) <= 1
             <=> \A s, t \in x : s.course = c /\ t.course = c => s = t
  <2>1. IsFiniteSet(SectionsOf(r, c)) /\ IsFiniteSet(SectionsOf(r, c) \cap x)
    BY FiniteSelections, FS_Subset DEF SectionsOf
  <2>2. Chosen(x, SectionsOf(r, c)) = Cardinality(SectionsOf(r, c) \cap x)
    BY <2>1, ChosenIsCount
  <2>3. Cardinality(SectionsOf(r, c) \cap x) <= 1
        <=> \A s, t \in SectionsOf(r, c) \cap x : s = t
    BY <2>1, AtMostOne
  <2>4. SectionsOf(r, c) \cap x = {s \in x : s.course = c}
    BY DEF SectionsOf
  <2> QED
    BY <2>2, <2>3, <2>4
<1>2. (\A c \in CoursesOf(r.sections) : \A s, t \in x : s.course = c /\ t.course = c => s = t)
      <=> \A s, t \in x : s.course = t.course => s = t
  BY DEF CoursesOf
<1>3. OneSectionPerCourse(x) <=> \A s, t \in x : s.course = t.course => s = t
  BY FiniteSelections, OnePerCourse
<1> QED
  BY <1>1, <1>2, <1>3

LEMMA RequiredConstraint ==
    ASSUME NEW r, Solvable(r), NEW x \in SUBSET r.sections, OneSectionPerCourse(x)
    PROVE  (\A c \in r.required : Chosen(x, SectionsOf(r, c)) = 1) <=> r.required \subseteq CoursesOf(x)
<1>1. ASSUME NEW c
      PROVE  Chosen(x, SectionsOf(r, c)) = 1 <=> c \in CoursesOf(x)
  <2>1. IsFiniteSet(SectionsOf(r, c)) /\ IsFiniteSet(SectionsOf(r, c) \cap x)
    BY FiniteSelections, FS_Subset DEF SectionsOf
  <2>2. Chosen(x, SectionsOf(r, c)) = Cardinality(SectionsOf(r, c) \cap x)
    BY <2>1, ChosenIsCount
  <2>3. Cardinality(SectionsOf(r, c) \cap x) = 1
        <=> SectionsOf(r, c) \cap x # {} /\ \A s, t \in SectionsOf(r, c) \cap x : s = t
    BY <2>1, AtMostOne
  <2>4. SectionsOf(r, c) \cap x = {s \in x : s.course = c}
    BY DEF SectionsOf
  <2>5. \A s, t \in x : s.course = t.course => s = t
    BY FiniteSelections, OnePerCourse
  <2>6. c \in CoursesOf(x) <=> {s \in x : s.course = c} # {}
    BY DEF CoursesOf
  <2> QED
    BY <2>2, <2>3, <2>4, <2>5, <2>6
<1> QED
  BY <1>1

LEMMA GroupConstraint ==
    ASSUME NEW r, Solvable(r), NEW x \in SUBSET r.sections, OneSectionPerCourse(x), NEW C
    PROVE  Chosen(x, UNION {SectionsOf(r, c) : c \in C}) = Cardinality(CoursesOf(x) \cap C)
<1> DEFINE S == UNION {SectionsOf(r, c) : c \in C}
           T == {s \in x : s.course \in C}
           f == [s \in T |-> s.course]
           courses == {f[s] : s \in T}
<1>1. S \cap x = T /\ S \subseteq r.sections
  BY DEF SectionsOf
<1>2. Chosen(x, S) = Cardinality(T)
  BY <1>1, FiniteSelections, FS_Subset, ChosenIsCount
<1>3. courses = CoursesOf(x) \cap C
  BY DEF CoursesOf
<1>4. \A s, t \in T : f[s] = f[t] => s = t
  BY FiniteSelections, OnePerCourse
<1>5. IsFiniteSet(T)
  BY FiniteSelections, FS_Subset
<1>6. DOMAIN f = T
  OBVIOUS
<1> HIDE DEF T, f
<1>7. Cardinality(courses) = Cardinality(T)
  BY <1>4, <1>5, <1>6, CountImage
<1> HIDE DEF S, courses
<1>8. Chosen(x, S) = Cardinality(CoursesOf(x) \cap C)
  BY <1>2, <1>3, <1>7
<1> QED
  BY <1>8 DEF S

\* Two sections of which one is locked, excluded or ruled out by a time.
LEMMA SectionConstraint ==
    ASSUME NEW r, Solvable(r), NEW x \in SUBSET r.sections
    PROVE  (\A s \in r.sections : /\ RuledOut(r, s) => Val(x, s) = 0
                                  /\ s.id \in r.locked => Val(x, s) = 1)
           <=> /\ r.locked \subseteq IdsOf(x)
               /\ IdsOf(x) \cap r.excluded = {}
               /\ \A s \in x : ~s.ineligible /\ ~OutsideHardTimes(r, s)
<1>1. r.locked \subseteq IdsOf(r.sections)
  BY DEF Solvable, ValidRequest
<1>2. (\A s \in r.sections : s.id \in r.locked => s \in x) <=> r.locked \subseteq IdsOf(x)
  BY <1>1, UniqueIds DEF IdsOf
<1>3. (\A s \in r.sections : RuledOut(r, s) => s \notin x)
      <=> /\ IdsOf(x) \cap r.excluded = {}
          /\ \A s \in x : ~s.ineligible /\ ~OutsideHardTimes(r, s)
  BY DEF IdsOf, RuledOut
<1>4. \A s : (Val(x, s) = 0 <=> s \notin x) /\ (Val(x, s) = 1 <=> s \in x)
  BY DEF Val
<1> QED
  BY <1>2, <1>3, <1>4

LEMMA SectionsMeet ==
    ASSUME NEW r, Solvable(r), NEW s \in r.sections, NEW m \in s.sessions
    PROVE  /\ m \in Session /\ m \in MeetingsOf(r.sections) /\ Overlap(m, m)
           /\ m.day \in Days /\ m.start \in Nat /\ m.end \in Nat /\ m.start < m.end /\ m.end <= DayEnd
           /\ m.day \in DaysOf(r)
<1>1. m \in Session
  BY DEF Solvable, WellFormed, WellFormedSection
<1>2. DayEnd \in Nat
  BY PartsAssumption DEF SearchAssumption
<1> QED
  BY <1>1, <1>2 DEF MeetingsOf, Session, Overlap, DaysOf

LEMMA ConflictConstraint ==
    ASSUME NEW r, Solvable(r), NEW x \in SUBSET r.sections
    PROVE  (\A d \in DaysOf(r) : NoOverlap(r, x, d)) <=> NoConflicts(x)
<1>1. ASSUME NoConflicts(x), NEW d \in DaysOf(r) PROVE NoOverlap(r, x, d)
  <2>1. SUFFICES ASSUME NEW p \in Meetings(r, d), NEW q \in Meetings(r, d), p[1] \in x, q[1] \in x,
                        p # q, Overlap(p[2], q[2])
                 PROVE  FALSE
    BY DEF NoOverlap
  <2>2. p[2] \in p[1].sessions /\ q[2] \in q[1].sessions
    BY DEF Meetings
  <2>3. CASE p[1] # q[1]
    BY <1>1, <2>1, <2>2, <2>3 DEF NoConflicts, Conflict
  <2>4. CASE p[1] = q[1]
    <3>1. p[2] # q[2]
      BY <2>1, <2>4 DEF Meetings
    <3>2. Muddled(p[1])
      BY <2>1, <2>2, <2>4, <3>1 DEF Muddled
    <3> QED
      BY <2>1, <3>2 DEF Solvable, ValidRequest
  <2> QED
    BY <2>3, <2>4
<1>2. ASSUME \A d \in DaysOf(r) : NoOverlap(r, x, d) PROVE NoConflicts(x)
  <2>1. SUFFICES ASSUME NEW s \in x, NEW t \in x, s # t, NEW a \in s.sessions, NEW b \in t.sessions,
                        Overlap(a, b)
                 PROVE  FALSE
    BY DEF NoConflicts, Conflict
  <2>2. /\ a \in MeetingsOf(r.sections) /\ b \in MeetingsOf(r.sections)
        /\ a.day = b.day /\ a.day \in DaysOf(r)
    BY <2>1, SectionsMeet DEF Overlap
  <2>3. <<s, a>> \in Meetings(r, a.day) /\ <<t, b>> \in Meetings(r, a.day)
    BY <2>2 DEF Meetings
  <2>4. NoOverlap(r, x, a.day)
    BY <1>2, <2>2
  <2>5. <<s, a>> # <<t, b>>
    BY <2>1
  <2>6. ~Overlap(<<s, a>>[2], <<t, b>>[2])
    <3> DEFINE p == <<s, a>>
               q == <<t, b>>
    <3>1. p[1] = s /\ q[1] = t
      OBVIOUS
    <3> HIDE DEF p, q
    <3>2. p \in {pair \in Meetings(r, a.day) : pair[1] \in x} /\ q \in {pair \in Meetings(r, a.day) : pair[1] \in x}
      BY <2>3, <3>1 DEF p, q
    <3>3. ~Overlap(p[2], q[2])
      BY <2>4, <2>5, <3>2 DEF NoOverlap, p, q
    <3> QED
      BY <3>3 DEF p, q
  <2> QED
    BY <2>1, <2>6
<1> QED
  BY <1>1, <1>2

-----------------------------------------------------------------------------
(* The gaps of a day.                                                      *)

LEMMA FiniteMeetings ==
    ASSUME NEW r, Solvable(r), NEW x \in SUBSET r.sections, NEW d
    PROVE  IsFiniteSet(MeetingsOf(x)) /\ IsFiniteSet(Meetings(r, d))
<1>1. ASSUME NEW S \in SUBSET r.sections PROVE IsFiniteSet(MeetingsOf(S))
  <2> DEFINE f == [s \in S |-> s.sessions]
             parts == {f[s] : s \in S}
  <2>1. \A part \in parts : IsFiniteSet(part)
    BY DEF Solvable, WellFormed, WellFormedSection
  <2>2. MeetingsOf(S) = UNION parts
    BY DEF MeetingsOf
  <2>3. DOMAIN f = S /\ IsFiniteSet(S)
    BY FiniteSelections
  <2> HIDE DEF f
  <2>4. IsFiniteSet(parts)
    BY <2>3, CountImage
  <2> HIDE DEF parts
  <2> QED
    BY <2>1, <2>2, <2>4, FS_UNION
<1>2. IsFiniteSet(r.sections \X MeetingsOf(r.sections))
  BY <1>1, FiniteSelections, FS_Product
<1> QED
  BY <1>1, <1>2, FS_Subset DEF Meetings

\* The meetings of a selection on a day.
LEMMA MeetingsOnDay ==
    ASSUME NEW r, Solvable(r), NEW x \in SUBSET r.sections, NEW d
    PROVE  On(MeetingsOf(x), d) = {p[2] : p \in {q \in Meetings(r, d) : q[1] \in x}}
<1>1. ASSUME NEW m \in On(MeetingsOf(x), d)
      PROVE  \E p \in {q \in Meetings(r, d) : q[1] \in x} : m = p[2]
  <2>1. PICK s \in x : m \in s.sessions /\ m.day = d
    BY DEF On, MeetingsOf
  <2>2. <<s, m>> \in Meetings(r, d)
    BY <2>1, SectionsMeet DEF Meetings
  <2> QED
    BY <2>2
<1>2. ASSUME NEW p \in Meetings(r, d), p[1] \in x PROVE p[2] \in On(MeetingsOf(x), d)
  BY <1>2 DEF Meetings, On, MeetingsOf
<1> QED
  BY <1>1, <1>2

LEMMA DurationAgrees ==
    ASSUME NEW r, Solvable(r), NEW x \in SUBSET r.sections, NoConflicts(x), NEW d
    PROVE  Duration(r, x, d) = MinutesOf(On(MeetingsOf(x), d))
<1> DEFINE P == Meetings(r, d)
           Q == {p \in P : p[1] \in x}
           M == On(MeetingsOf(x), d)
           f == [p \in P |-> (p[2].end - p[2].start) * Val(x, p[1])]
           g == [m \in M |-> m.end - m.start]
           h == [p \in Q |-> p[2]]
<1>1. Duration(r, x, d) = SumOn(f, P)
  <2>1. [p \in P |-> (p[2].end - p[2].start) * Val(x, p[1])] = [p \in P |-> f[p]]
    OBVIOUS
  <2> QED
    BY <2>1, Zenon DEF Duration, SumOver, SumOn
<1>2. MinutesOf(M) = SumOn(g, M)
  <2>1. [m \in M |-> m.end - m.start] = [m \in M |-> g[m]]
    OBVIOUS
  <2> QED
    BY <2>1, Zenon DEF MinutesOf, SumOver, SumOn
<1>3. M = {p[2] : p \in Q}
  BY MeetingsOnDay
<1>4. \A p \in P : p[1] \in r.sections /\ p[2] \in p[1].sessions /\ p[2].end - p[2].start \in Int
  BY SectionsMeet DEF Meetings
<1>5. \A p \in P : f[p] \in Int /\ (p \notin Q => f[p] = 0)
  BY <1>4 DEF Val
<1>6. \A p \in Q : f[p] = g[h[p]]
  BY <1>3, <1>4 DEF Val
<1>7. h \in Bijection(Q, M)
  <2>1. ASSUME NEW p \in Q, NEW q \in Q, p[2] = q[2] PROVE p = q
    <3>1. Overlap(p[2], p[2])
      BY <1>4, SectionsMeet
    <3>2. p[1] = q[1]
      BY <1>4, <2>1, <3>1 DEF NoConflicts, Conflict
    <3> QED
      BY <2>1, <3>2 DEF Meetings
  <2>2. h \in Injection(Q, M)
    BY <1>3, <2>1 DEF Injection, IsInjective
  <2>3. h \in Surjection(Q, M)
    BY <1>3 DEF Surjection
  <2> QED
    BY <2>2, <2>3 DEF Bijection
<1>8. IsFiniteSet(P) /\ IsFiniteSet(Q)
  BY FiniteMeetings, FS_Subset
<1>9. Q \in SUBSET P
  OBVIOUS
<1> HIDE DEF P, Q, M, f, g, h
<1>10. SumOn(f, P) = SumOn(f, Q)
  BY <1>5, <1>8, <1>9, SumRestrict
<1>11. SumOn(f, Q) = SumOn(g, M)
  BY <1>5, <1>6, <1>7, <1>8, <1>9, SumRenamed
<1>12. Duration(r, x, d) = MinutesOf(M)
  BY <1>1, <1>2, <1>10, <1>11
<1> QED
  BY <1>12 DEF M

LEMMA GapAgrees ==
    ASSUME NEW r, Solvable(r), NEW x \in SUBSET r.sections, NoConflicts(x), NEW d,
           On(MeetingsOf(x), d) # {}
    PROVE  DayActive(r, x, d) /\ DayGapMinutes(r, x, d) = DayGap(On(MeetingsOf(x), d))
<1> DEFINE M == On(MeetingsOf(x), d)
           P == Meetings(r, d)
           starts == {m.start : m \in M}
           ends == {m.end : m \in M}
           someStarts == {IF p[1] \in x THEN p[2].start ELSE DayEnd : p \in P}
           someEnds == {IF p[1] \in x THEN p[2].end ELSE 0 : p \in P}
<1>1. M = {p[2] : p \in {q \in P : q[1] \in x}}
  BY MeetingsOnDay
<1>2. DayActive(r, x, d)
  BY <1>1 DEF DayActive
<1>3. DayEnd \in Nat
  BY PartsAssumption DEF SearchAssumption
<1>4. \A p \in P : p[2].start \in 0..DayEnd /\ p[2].end \in 0..DayEnd
  BY <1>3, SectionsMeet DEF Meetings
<1>5. /\ starts # {} /\ starts \subseteq someStarts /\ someStarts \subseteq 0..DayEnd
      /\ \A y \in someStarts : y \in starts \/ \A z \in starts : z <= y
  BY <1>1, <1>3, <1>4
<1>6. /\ ends # {} /\ ends \subseteq someEnds /\ someEnds \subseteq 0..DayEnd
      /\ \A y \in someEnds : y \in ends \/ \A z \in ends : z >= y
  BY <1>1, <1>3, <1>4
<1>7. FirstStart(r, x, d) = Min(someStarts) /\ LastEnd(r, x, d) = Max(someEnds)
  BY Zenon DEF FirstStart, LastEnd
<1>8. Duration(r, x, d) = MinutesOf(M)
  BY DurationAgrees
<1>9. DayGap(M) = Max(ends) - Min(starts) - MinutesOf(M)
  BY Zenon DEF DayGap
<1> HIDE DEF M, starts, ends, someStarts, someEnds
<1>10. Min(starts) = Min(someStarts)
  BY <1>3, <1>5, MinWith
<1>11. Max(ends) = Max(someEnds)
  BY <1>3, <1>6, MaxWith
<1>12. DayGapMinutes(r, x, d) = DayGap(M)
  BY <1>2, <1>7, <1>8, <1>9, <1>10, <1>11 DEF DayGapMinutes
<1> QED
  BY <1>2, <1>12 DEF M

LEMMA GapConstraint ==
    ASSUME NEW r, Solvable(r), NEW x \in SUBSET r.sections, NoConflicts(x)
    PROVE  (r.maxGap # None => \A d \in DaysOf(r) : DayGapMinutes(r, x, d) <= r.maxGap)
           <=> GapsWithin(r, x)
<1> SUFFICES ASSUME r.maxGap # None
             PROVE  (\A d \in DaysOf(r) : DayGapMinutes(r, x, d) <= r.maxGap)
                    <=> \A d \in Days : On(MeetingsOf(x), d) # {}
                                        => DayGap(On(MeetingsOf(x), d)) <= r.maxGap
  BY DEF GapsWithin
<1>1. 0 <= r.maxGap
  BY PartsAssumption DEF SearchAssumption, Solvable, WellFormed, WellFormedPreferences
<1>2. ASSUME NEW d, On(MeetingsOf(x), d) # {} PROVE d \in Days /\ d \in DaysOf(r)
  <2>1. PICK s \in x : \E m \in s.sessions : m.day = d
    BY <1>2 DEF On, MeetingsOf
  <2> QED
    BY <2>1, SectionsMeet
<1>3. ASSUME NEW d, On(MeetingsOf(x), d) = {} PROVE DayGapMinutes(r, x, d) = 0
  <2>1. ASSUME NEW p \in Meetings(r, d), p[1] \in x PROVE FALSE
    <3>1. p \in {q \in Meetings(r, d) : q[1] \in x}
      BY <2>1
    <3>2. p[2] \in On(MeetingsOf(x), d)
      BY <3>1, MeetingsOnDay
    <3> QED
      BY <1>3, <3>2
  <2>2. ~DayActive(r, x, d)
    BY <2>1 DEF DayActive
  <2> QED
    BY <2>2 DEF DayGapMinutes
<1>4. \A d : On(MeetingsOf(x), d) # {} => DayGapMinutes(r, x, d) = DayGap(On(MeetingsOf(x), d))
  BY GapAgrees
<1> QED
  BY <1>1, <1>2, <1>3, <1>4

\* The integer model admits a set of sections when they meet the constraints.
LEMMA ModelIsFeasibility ==
    ASSUME NEW r, Solvable(r), NEW x \in SUBSET r.sections
    PROVE  HardModel(r, x) <=> SelectionIsFeasible(r, x)
<1>1. \A g \in r.groups : OneSectionPerCourse(x) =>
          Chosen(x, UNION {SectionsOf(r, c) : c \in g.courses}) = Cardinality(CoursesOf(x) \cap g.courses)
  BY GroupConstraint
<1>2. Credits(r, x) = CreditsOf(x) /\ CreditsOf(x) \in Int
  BY CreditsAgree, CreditsBound
<1>3. r.minCredits \in Nat /\ r.maxCredits \in Nat
  BY DEF Solvable, WellFormed
<1>4. Credits(r, x) >= r.minCredits <=> r.minCredits <= CreditsOf(x)
  BY <1>2, <1>3
<1>5. CASE OneSectionPerCourse(x) /\ NoConflicts(x)
  BY <1>1, <1>2, <1>4, <1>5, SectionConstraint, CourseConstraint, RequiredConstraint,
     ConflictConstraint, GapConstraint, Zenon DEF HardModel, SelectionIsFeasible
<1>6. CASE ~OneSectionPerCourse(x)
  BY <1>6, CourseConstraint, Zenon DEF HardModel, SelectionIsFeasible
<1>7. CASE ~NoConflicts(x)
  BY <1>7, ConflictConstraint, Zenon DEF HardModel, SelectionIsFeasible
<1> QED
  BY <1>5, <1>6, <1>7

-----------------------------------------------------------------------------
(* The merged meetings of a day.                                           *)

Part(m) == [start |-> Max({m.start, LunchStart}), end |-> Min({m.end, LunchEnd})]
Parts(r, d) == {e \in {Part(p[2]) : p \in Meetings(r, d)} : e.start < e.end}
Sooner == {ab \in [start : Int, end : Int] \X [start : Int, end : Int] :
              ab[1].start < ab[2].start \/ (ab[1].start = ab[2].start /\ ab[1].end < ab[2].end)}

LEMMA PartOf ==
    ASSUME NEW r, Solvable(r), NEW d, NEW p \in Meetings(r, d)
    PROVE  /\ p[1] \in r.sections /\ p[2] \in p[1].sessions /\ p[2].day = d
           /\ Part(p[2]) \in [start : Int, end : Int]
           /\ p[2].start \in Int /\ p[2].end \in Int
           /\ p[2].start <= Part(p[2]).start /\ Part(p[2]).end <= p[2].end
<1>1. p[1] \in r.sections /\ p[2] \in p[1].sessions /\ p[2].day = d
  BY DEF Meetings
<1>2. p[2].start \in Int /\ p[2].end \in Int
  BY <1>1, SectionsMeet
<1>3. LunchStart \in Int /\ LunchEnd \in Int
  BY PartsAssumption DEF SearchAssumption
<1>4. /\ Max({p[2].start, LunchStart}) \in Int /\ Max({p[2].start, LunchStart}) >= p[2].start
      /\ Min({p[2].end, LunchEnd}) \in Int /\ Min({p[2].end, LunchEnd}) <= p[2].end
  BY <1>2, <1>3, OfTwo
<1> QED
  BY <1>1, <1>2, <1>4 DEF Part

LEMMA FiniteParts ==
    ASSUME NEW r, Solvable(r), NEW d
    PROVE  IsFiniteSet(Parts(r, d)) /\ Orders(Sooner, Parts(r, d)) /\ Parts(r, d) \subseteq [start : Int, end : Int]
<1> DEFINE f == [p \in Meetings(r, d) |-> Part(p[2])]
           all == {f[p] : p \in Meetings(r, d)}
<1>1. IsFiniteSet(Meetings(r, d)) /\ DOMAIN f = Meetings(r, d)
  BY FiniteMeetings
<1>2. Parts(r, d) \in SUBSET all
  BY DEF Parts
<1>3. Parts(r, d) \subseteq [start : Int, end : Int]
  BY PartOf DEF Parts
<1> HIDE DEF f
<1>4. IsFiniteSet(all)
  BY <1>1, CountImage
<1>5. IsFiniteSet(Parts(r, d))
  BY <1>2, <1>4, FS_Subset
<1>6. Orders(Sooner, [start : Int, end : Int])
  BY DEF Orders, Sooner
<1> QED
  BY <1>3, <1>5, <1>6 DEF Orders

\* An entry of the merged meetings within the window is one of them.
LEMMA LunchEventIsPart ==
    ASSUME NEW r, Solvable(r), NEW d
    PROVE  /\ DOMAIN LunchEvents(r, d) = 1..Cardinality(Parts(r, d))
           /\ \A i \in DOMAIN LunchEvents(r, d) : LunchEvents(r, d)[i] \in Parts(r, d)
<1> DEFINE S == Parts(r, d)
<1>1. LunchEvents(r, d) =
        [i \in 1..Cardinality(S) |->
            CHOOSE x \in S : Cardinality({y \in S : \/ y.start < x.start
                                                    \/ y.start = x.start /\ y.end < x.end}) = i - 1]
  BY Zenon DEF LunchEvents, InOrder, Parts, Part
<1>2. \A x \in S : {y \in S : y.start < x.start \/ (y.start = x.start /\ y.end < x.end)} = Before(Sooner, S, x)
  BY FiniteParts DEF Sooner, Before
<1>3. \A i \in 1..Cardinality(S) : \E x \in S : Cardinality(Before(Sooner, S, x)) = i - 1
  BY FiniteParts, EveryRank
<1> HIDE DEF S
<1>4. \A i \in 1..Cardinality(S) :
        \E x \in S : Cardinality({y \in S : \/ y.start < x.start
                                            \/ y.start = x.start /\ y.end < x.end}) = i - 1
  BY <1>2, <1>3
<1>5. DOMAIN LunchEvents(r, d) = 1..Cardinality(S)
  BY <1>1
<1>6. \A i \in 1..Cardinality(S) : LunchEvents(r, d)[i] \in S
  BY <1>1, <1>4
<1> QED
  BY <1>5, <1>6 DEF S

LEMMA MoveEventIsMeeting ==
    ASSUME NEW r, Solvable(r), NEW d
    PROVE  LET M == On(MeetingsOf(r.sections), d)
           IN  /\ DOMAIN MoveEvents(r, d) = 1..Cardinality(M)
               /\ \A i \in DOMAIN MoveEvents(r, d) : MoveEvents(r, d)[i] \in M
<1> DEFINE S == On(MeetingsOf(r.sections), d)
<1>1. MoveEvents(r, d) =
        [i \in 1..Cardinality(S) |-> CHOOSE x \in S : Cardinality({y \in S : EarlierThan(y, x)}) = i - 1]
  BY Zenon DEF MoveEvents, InOrder
<1>2. IsFiniteSet(S)
  BY FiniteMeetings, FS_Subset DEF On
<1>3. S \in SUBSET Session /\ \A m \in S : m.day = d
  BY SectionsMeet DEF On, MeetingsOf
<1>4. \A x \in S : {y \in S : EarlierThan(y, x)} = Before(Earlier, S, x)
  BY <1>3 DEF Earlier, Before
<1>5. \A i \in 1..Cardinality(S) : \E x \in S : Cardinality(Before(Earlier, S, x)) = i - 1
  BY <1>2, <1>3, EarlierOrders, EveryRank
<1> HIDE DEF S
<1>6. \A i \in 1..Cardinality(S) : \E x \in S : Cardinality({y \in S : EarlierThan(y, x)}) = i - 1
  BY <1>4, <1>5
<1>7. DOMAIN MoveEvents(r, d) = 1..Cardinality(S)
  BY <1>1
<1>8. \A i \in 1..Cardinality(S) : MoveEvents(r, d)[i] \in S
  BY <1>1, <1>6
<1> QED
  BY <1>7, <1>8 DEF S

\* Sections of which any two meet at one time are chosen at most once.
LEMMA ClashingChosenOnce ==
    ASSUME NEW r, Solvable(r), NEW x \in SUBSET r.sections, NoConflicts(x),
           NEW S \in SUBSET r.sections, \A s, t \in S : Conflict(s, t)
    PROVE  Chosen(x, S) <= 1
<1>1. IsFiniteSet(S) /\ IsFiniteSet(S \cap x)
  BY FiniteSelections, FS_Subset
<1>2. \A s, t \in S \cap x : s = t
  BY DEF NoConflicts
<1>3. Cardinality(S \cap x) <= 1
  BY <1>1, <1>2, AtMostOne
<1> QED
  BY <1>1, <1>3, ChosenIsCount

\* The merged meetings of the objective rule out nothing that the constraints admit.
LEMMA EventsExcludeNothing ==
    ASSUME NEW r, Solvable(r), NEW x \in SUBSET r.sections, NoConflicts(x)
    PROVE  EventsAreBoolean(r, x)
<1>1. ASSUME NEW d, NEW i \in DOMAIN LunchEvents(r, d) PROVE LunchActive(r, x, d)[i] <= 1
  <2> DEFINE e == LunchEvents(r, d)[i]
             S == InLunchEvent(r, d, e)
  <2>1. e \in Parts(r, d)
    BY LunchEventIsPart
  <2>2. e.start \in Int /\ e.end \in Int /\ e.start < e.end
    <3>1. e \in [start : Int, end : Int]
      BY <2>1, FiniteParts
    <3>2. e.start < e.end
      BY <2>1 DEF Parts
    <3> QED
      BY <3>1, <3>2
  <2>3. ASSUME NEW s \in S
        PROVE  \E p \in Meetings(r, d) : p[1] = s /\ Part(p[2]).start = e.start /\ Part(p[2]).end = e.end
    BY DEF InLunchEvent, Part
  <2> HIDE DEF e, S
  <2>4. ASSUME NEW s \in S, NEW t \in S PROVE s \in r.sections /\ Conflict(s, t)
    <3>1. PICK p \in Meetings(r, d) : p[1] = s /\ Part(p[2]).start = e.start /\ Part(p[2]).end = e.end
      BY <2>3
    <3>2. PICK q \in Meetings(r, d) : q[1] = t /\ Part(q[2]).start = e.start /\ Part(q[2]).end = e.end
      BY <2>3
    <3>3. /\ s \in r.sections /\ p[2] \in s.sessions /\ q[2] \in t.sessions /\ p[2].day = q[2].day
          /\ p[2].start \in Int /\ p[2].end \in Int /\ q[2].start \in Int /\ q[2].end \in Int
          /\ p[2].start <= e.start /\ e.end <= p[2].end /\ q[2].start <= e.start /\ e.end <= q[2].end
      BY <3>1, <3>2, PartOf
    <3>4. Overlap(p[2], q[2])
      BY <2>2, <3>3 DEF Overlap
    <3> QED
      BY <3>3, <3>4 DEF Conflict
  <2>5. S \in SUBSET r.sections
    BY <2>4
  <2>6. Chosen(x, S) <= 1
    BY <2>4, <2>5, ClashingChosenOnce
  <2>7. LunchActive(r, x, d)[i] = Chosen(x, S)
    BY DEF LunchActive, e, S
  <2> QED
    BY <2>6, <2>7
<1>2. ASSUME NEW d, NEW i \in DOMAIN MoveEvents(r, d) PROVE MoveActive(r, x, d)[i] <= 1
  <2> DEFINE m == MoveEvents(r, d)[i]
             S == {s \in r.sections : m \in s.sessions}
  <2>1. \A s, t \in S : Conflict(s, t)
    BY SectionsMeet DEF Conflict
  <2>2. Chosen(x, S) <= 1
    BY <2>1, ClashingChosenOnce
  <2>3. MoveActive(r, x, d)[i] = Chosen(x, S)
    BY DEF MoveActive
  <2> QED
    BY <2>2, <2>3
<1> QED
  BY <1>1, <1>2 DEF EventsAreBoolean

LEMMA ModelsAreExact ==
    ASSUME NEW r, Solvable(r)
    PROVE  /\ Assignments(r) = FeasibleSelections(r)
           /\ ObjectiveAssignments(r) = FeasibleSelections(r)
<1>1. Assignments(r) = FeasibleSelections(r)
  BY ModelIsFeasibility DEF Assignments, FeasibleSelections
<1>2. \A x \in FeasibleSelections(r) : EventsAreBoolean(r, x)
  BY EventsExcludeNothing DEF FeasibleSelections, SelectionIsFeasible
<1> QED
  BY <1>1, <1>2 DEF ObjectiveAssignments
-----------------------------------------------------------------------------
(* What a student is told when there is no timetable.                      *)

LEMMA LockedAreChosen ==
    ASSUME NEW r, Solvable(r), NEW S \in FeasibleSelections(r)
    PROVE  WithIds(r, r.locked) \in SUBSET S
<1>1. S \subseteq r.sections /\ r.locked \subseteq IdsOf(S)
  BY DEF FeasibleSelections, SelectionIsFeasible
<1> QED
  BY <1>1, UniqueIds DEF WithIds, IdsOf

LEMMA HintsTell ==
    ASSUME NEW r, Solvable(r), InfeasibilityHints(r) # {"anything"}
    PROVE  FeasibleSelections(r) = {}
<1> SUFFICES ASSUME NEW S \in FeasibleSelections(r) PROVE FALSE
  OBVIOUS
<1> DEFINE available == AvailableCourses(r)
           locked == WithIds(r, r.locked)
<1>1. S \in SUBSET r.sections /\ SelectionIsFeasible(r, S) /\ IsFiniteSet(S)
  BY FiniteSelections DEF FeasibleSelections
<1>2. CoursesOf(S) \subseteq available
  BY <1>1 DEF CoursesOf, AvailableCourses, SelectionIsFeasible, IdsOf
<1>3. r.required \subseteq available
  BY <1>1, <1>2 DEF SelectionIsFeasible
<1>4. ASSUME NEW g \in r.groups PROVE ~(Cardinality(g.courses \cap available) < g.minimum)
  <2>1. IsFiniteSet(g.courses) /\ g.minimum \in Nat
    BY DEF Solvable, WellFormed, WellFormedGroup
  <2>2. /\ IsFiniteSet(g.courses \cap available)
        /\ CoursesOf(S) \cap g.courses \in SUBSET (g.courses \cap available)
    BY <1>2, <2>1, FS_Subset
  <2>3. /\ Cardinality(CoursesOf(S) \cap g.courses) <= Cardinality(g.courses \cap available)
        /\ Cardinality(CoursesOf(S) \cap g.courses) \in Nat
        /\ Cardinality(g.courses \cap available) \in Nat
    BY <2>2, FS_Subset, FS_CardinalityType
  <2>4. Cardinality(CoursesOf(S) \cap g.courses) >= g.minimum
    BY <1>1 DEF SelectionIsFeasible
  <2> QED
    BY <2>1, <2>3, <2>4
<1>5. locked \in SUBSET S
  BY LockedAreChosen
<1>6. NoConflicts(locked)
  BY <1>1, <1>5 DEF NoConflicts, SelectionIsFeasible
<1>7. ~(CreditsOf(locked) > r.maxCredits)
  <2>1. CreditsOf(locked) \in Int /\ CreditsOf(S) \in Int /\ CreditsOf(locked) <= CreditsOf(S)
    BY <1>1, <1>5, CreditsBound
  <2>2. CreditsOf(S) <= r.maxCredits /\ r.maxCredits \in Nat
    BY <1>1 DEF SelectionIsFeasible, Solvable, WellFormed
  <2> QED
    BY <2>1, <2>2
<1>8. InfeasibilityHints(r) = {"anything"}
  BY <1>3, <1>4, <1>6, <1>7 DEF InfeasibilityHints
<1> QED
  BY <1>8
-----------------------------------------------------------------------------
(* The search.                                                             *)

SearchInv ==
    /\ request \in Problems
    /\ phase \in {"validate", "fallback", "solve", "rank", "done"}
    /\ fallback = None \/ fallback \in SUBSET request.sections
    /\ found \in Seq(SUBSET request.sections)
    /\ status \in {"OPTIMAL", "FEASIBLE", "INFEASIBLE", "TIME_LIMIT", "FAILED"}
    /\ phase \in {"fallback", "solve", "rank"} => Solvable(request)

LEMMA SearchStart == Init => SearchInv
  BY DEF Init, SearchInv

LEMMA LeftAreSelections ==
    \A selections : Left(request, selections) \subseteq SUBSET request.sections
  BY DEF Left, ObjectiveAssignments, Assignments

LEMMA SearchStep == SearchInv /\ [Next]_vars => SearchInv'
<1> SUFFICES ASSUME SearchInv, [Next]_vars PROVE SearchInv'
  OBVIOUS
<1>1. CASE Reject
  BY <1>1 DEF Reject, SearchInv
<1>2. CASE Accept
  BY <1>2, PartsAssumption DEF Accept, SearchInv, Solvable, SearchAssumption
<1>3. CASE FindFallback
  BY <1>3 DEF FindFallback, SearchInv, Assignments
<1>4. CASE NoFallback
  BY <1>4 DEF NoFallback, SearchInv
<1>5. ASSUME NEW x \in Left(request, found), NEW s \in {"OPTIMAL", "FEASIBLE"}, Take(x, s)
      PROVE  SearchInv'
  <2>1. x \in SUBSET request.sections
    BY LeftAreSelections
  <2>2. found' \in Seq(SUBSET request.sections)
    BY <1>5, <2>1 DEF Take, SearchInv
  <2> QED
    BY <1>5, <2>2 DEF Take, SearchInv
<1>6. CASE SolveOptimal
  BY <1>5, <1>6 DEF SolveOptimal
<1>7. CASE SolveFeasible
  BY <1>5, <1>7 DEF SolveFeasible
<1>8. ASSUME NEW s \in {"OPTIMAL", "FEASIBLE", "INFEASIBLE", "TIME_LIMIT", "FAILED"}, StopWith(s),
             phase = "solve"
      PROVE  SearchInv'
  BY <1>8 DEF StopWith, SearchInv
<1>9. CASE SolveInfeasible
  <2>1. StopWith("INFEASIBLE") \/ StopWith(status)
    BY <1>9 DEF SolveInfeasible
  <2> QED
    BY <1>8, <1>9, <2>1 DEF SolveInfeasible, Solving, SearchInv
<1>10. CASE SolveUnknown
  BY <1>8, <1>10 DEF SolveUnknown, Solving
<1>11. CASE SolveInvalid
  BY <1>8, <1>11 DEF SolveInvalid, Solving
<1>12. CASE Enough
  BY <1>8, <1>12 DEF Enough, SearchInv
<1>13. CASE Rank
  BY <1>13 DEF Rank, SearchInv
<1>14. CASE UNCHANGED vars
  BY <1>14 DEF vars, SearchInv
<1> QED
  BY <1>1, <1>2, <1>3, <1>4, <1>6, <1>7, <1>9, <1>10, <1>11, <1>12, <1>13, <1>14 DEF Next

LEMMA SearchInvIsExact == SearchInv => ModelIsExact
<1> SUFFICES ASSUME SearchInv PROVE ModelIsExact
  OBVIOUS
<1>1. TypeOK
  BY DEF TypeOK, SearchInv
<1>2. ConstraintsAreExact
  BY ModelsAreExact DEF ConstraintsAreExact, SearchInv
<1>3. HintsAreSound
  BY HintsTell DEF HintsAreSound, SearchInv
<1> QED
  BY <1>1, <1>2, <1>3 DEF ModelIsExact

\* The CP model of any request admits exactly the selections that the predicate
\* of the hard constraints accepts, the auxiliary variables of its objective
\* exclude none of them, and a hint is given only when there is no timetable
\* (cp_sat.py:172-287, constraints.py:75-165).
THEOREM ModelAdmitsExactly == Spec => []ModelIsExact
<1>1. Spec => []SearchInv
  BY SearchStart, SearchStep, PTL DEF Spec
<1> QED
  BY <1>1, SearchInvIsExact, PTL
-----------------------------------------------------------------------------
(* The longest lunch break is a fold over the sessions of a day.           *)

\* The free intervals of the lunch window that are seen up to a session.
LunchStep(seen, m) ==
    LET from == Max({m.start, LunchStart})
        to == Min({m.end, LunchEnd})
    IN  IF from >= to THEN seen
        ELSE [cursor |-> Max({seen.cursor, to}),
              longest |-> Max({seen.longest, from - seen.cursor})]

NoLunchSeen == [cursor |-> LunchStart, longest |-> 0]

\* The results of the fold that looks for the longest of them.
Lunches(q, it) ==
    it = [s \in SUBSET DOMAIN q |-> IF s = {} THEN NoLunchSeen ELSE LunchStep(it[s \ {Max(s)}], q[Max(s)])]

\* What is seen after each of the n sessions.
SeenBy(seen, n, q) ==
    /\ seen[0] = NoLunchSeen
    /\ \A m \in 1..n : seen[m] = LunchStep(seen[m - 1], q[m])
    /\ \A m \in 0..n : seen[m] \in [cursor : Int, longest : Int]
    /\ LongestLunchBreak(q) = Max({seen[n].longest, LunchEnd - seen[n].cursor})

\* The longest lunch break comes from such a fold.
LEMMA LunchIsFold ==
    ASSUME NEW q
    PROVE  LongestLunchBreak(q) =
             LET seen == (CHOOSE it : Lunches(q, it))[DOMAIN q]
             IN  Max({seen.longest, LunchEnd - seen.cursor})
  BY Zenon DEF LongestLunchBreak, SeqExt!FoldLeft, SeqExt!MapThenFoldSet, Lunches, LunchStep, NoLunchSeen,
               Max, SeqExt!Max

\* A step stays among the integers.
LEMMA LunchStepTyped ==
    ASSUME NEW seen \in [cursor : Int, longest : Int], NEW m, m.start \in Int, m.end \in Int
    PROVE  LunchStep(seen, m) \in [cursor : Int, longest : Int]
<1>1. LunchStart \in Int /\ LunchEnd \in Int
  BY PartsAssumption DEF SearchAssumption
<1> DEFINE from == Max({m.start, LunchStart})
           to == Min({m.end, LunchEnd})
<1>2. from \in Int /\ to \in Int
  BY <1>1, OfTwo
<1> HIDE DEF from, to
<1>3. seen.cursor \in Int /\ seen.longest \in Int
  OBVIOUS
<1>4. Max({seen.cursor, to}) \in Int /\ Max({seen.longest, from - seen.cursor}) \in Int
  <2>1. from - seen.cursor \in Int
    BY <1>2, <1>3
  <2>2. Max({seen.cursor, to}) \in {seen.cursor, to}
    BY <1>2, <1>3, OfTwo
  <2>3. Max({seen.longest, from - seen.cursor}) \in {seen.longest, from - seen.cursor}
    BY <1>3, <2>1, OfTwo
  <2> QED
    BY <1>2, <1>3, <2>1, <2>2, <2>3
<1>5. LunchStep(seen, m) = IF from >= to THEN seen
        ELSE [cursor |-> Max({seen.cursor, to}), longest |-> Max({seen.longest, from - seen.cursor})]
  BY Zenon DEF LunchStep, from, to
<1> QED
  BY <1>4, <1>5

\* The fold considers the sessions one after another.
LEMMA LunchSteps ==
    ASSUME NEW n \in Nat, NEW q, DOMAIN q = 1..n, \A i \in 1..n : q[i].start \in Int /\ q[i].end \in Int
    PROVE  \E seen : SeenBy(seen, n, q)
<1> DEFINE A == [cursor : Int, longest : Int]
           step == [p \in A \X (1..n) |-> LunchStep(p[1], q[p[2]])]
           it == CHOOSE jt : Lunches(q, jt)
           seen == [m \in 0..n |-> it[1..m]]
<1>1. \A a \in A : \A i \in 1..n : step[<<a, i>>] = LunchStep(a, q[i]) /\ LunchStep(a, q[i]) \in A
  BY LunchStepTyped
<1>2. NoLunchSeen \in A
  BY PartsAssumption DEF NoLunchSeen, SearchAssumption
<1> HIDE DEF step, A
<1>0. PICK jt : Iterates(jt, A, NoLunchSeen, n, step)
  <2>1. \A a \in A : \A i \in 1..n : step[<<a, i>>] \in A
    BY <1>1
  <2> QED
    BY <1>2, <2>1, IteratesExist, Zenon
<1>3. /\ \A s \in SUBSET (1..n) : jt[s] \in A
      /\ jt = [s \in SUBSET (1..n) |->
                 IF s = {} THEN NoLunchSeen ELSE step[<<jt[s \ {Max(s)}], Max(s)>>]]
  BY <1>0 DEF Iterates
<1>4. \A s \in SUBSET (1..n) : s # {} => Max(s) \in 1..n
  <2>1. \A s \in SUBSET (1..n) : s # {} => s \subseteq 0..n
    OBVIOUS
  <2> QED
    BY <2>1, Bounded
<1>5. \A s \in SUBSET (1..n) : s # {} => step[<<jt[s \ {Max(s)}], Max(s)>>] = LunchStep(jt[s \ {Max(s)}], q[Max(s)])
  BY <1>1, <1>3, <1>4
<1>6. jt = [s \in SUBSET (1..n) |-> IF s = {} THEN NoLunchSeen ELSE LunchStep(jt[s \ {Max(s)}], q[Max(s)])]
  BY <1>3, <1>5
<1>7. Lunches(q, jt)
  BY <1>6, Zenon DEF Lunches
<1>8. Lunches(q, it)
  BY <1>7
<1> HIDE DEF it
<1>9. it = [s \in SUBSET (1..n) |-> IF s = {} THEN NoLunchSeen ELSE LunchStep(it[s \ {Max(s)}], q[Max(s)])]
  BY <1>8, Zenon DEF Lunches
<1>10. it[{}] = NoLunchSeen /\ \A s \in SUBSET (1..n) : s # {} => it[s] = LunchStep(it[s \ {Max(s)}], q[Max(s)])
  BY <1>9
<1>11. 1..0 = {}
  OBVIOUS
<1>12. ASSUME NEW m \in 1..n PROVE it[1..m] = LunchStep(it[1..(m - 1)], q[m])
  <2>1. m \in Nat \ {0} /\ 1..m \in SUBSET (1..n)
    OBVIOUS
  <2> QED
    BY <1>10, <2>1, FirstOnes
<1>13. seen[0] = NoLunchSeen /\ \A m \in 1..n : seen[m] = LunchStep(seen[m - 1], q[m])
  BY <1>10, <1>11, <1>12
<1>14. LongestLunchBreak(q) = Max({seen[n].longest, LunchEnd - seen[n].cursor})
  <2>1. LongestLunchBreak(q) = Max({it[1..n].longest, LunchEnd - it[1..n].cursor})
    BY LunchIsFold, Zenon DEF it
  <2>2. seen[n] = it[1..n]
    OBVIOUS
  <2> QED
    BY <2>1, <2>2, Zenon
<1> HIDE DEF seen
<1> DEFINE G == {m \in Nat : m <= n => seen[m] \in A}
<1>15. 0 \in G
  BY <1>2, <1>13
<1>16. ASSUME NEW m \in Nat, m \in G PROVE m + 1 \in G
  <2>1. SUFFICES ASSUME m + 1 <= n PROVE seen[m + 1] \in A
    OBVIOUS
  <2>2. seen[m] \in A /\ m + 1 \in 1..n /\ (m + 1) - 1 = m
    BY <1>16, <2>1
  <2>3. seen[m + 1] = LunchStep(seen[m], q[m + 1])
    BY <1>13, <2>2
  <2> QED
    BY <1>1, <2>2, <2>3
<1> HIDE DEF G
<1>17. Nat \subseteq G
  BY <1>15, <1>16, Counting
<1>18. \A m \in 0..n : seen[m] \in A
  BY <1>17 DEF G
<1> QED
  BY <1>13, <1>14, <1>18, Zenon DEF SeenBy, A

-----------------------------------------------------------------------------
(* A score is a number.                                                    *)

\* Everything that is added up day by day, or meeting by meeting.
GapOn(S) == [d \in CampusDays(S) |-> GapMinutes(DailySessions(S, d))]
MovesOn(S) == [d \in CampusDays(S) |-> MovementTransitions(DailySessions(S, d))]
EarlyOf(r, S) == [m \in MeetingsOf(S) |-> Early(r, m)]
LateOf(r, S) == [m \in MeetingsOf(S) |-> Late(r, m)]
OverflowOn(r, S) ==
    [d \in CampusDays(S) |-> AtLeastZero(MinutesOf(On(MeetingsOf(S), d)) - r.maxDaily)]
ShortageOn(r, S) ==
    [d \in CampusDays(S) |-> AtLeastZero(r.lunch - LongestLunchBreak(DailySessions(S, d)))]

\* The components of the score are these sums.
LEMMA BreakdownIs ==
    ASSUME NEW r, NEW S
    PROVE  Breakdown(r, S) =
             [campusDays |-> Cardinality(CampusDays(S)),
              gap |-> SumFunction(GapOn(S)),
              movement |-> SumFunction(MovesOn(S)),
              early |-> SumFunction(EarlyOf(r, S)),
              late |-> SumFunction(LateOf(r, S)),
              daysOff |-> Cardinality(CampusDays(S) \cap r.daysOff),
              avoided |-> Cardinality({m \in MeetingsOf(S) : m.day \in r.avoidedDays}),
              changed |-> Cardinality(ChangedCourses(r, S)),
              unknownTime |-> Cardinality({s \in S : s.sessions = {}}),
              overflow |-> IF r.maxDaily = None THEN 0 ELSE SumFunction(OverflowOn(r, S)),
              lunch |-> IF r.lunch = 0 THEN 0 ELSE SumFunction(ShortageOn(r, S)),
              deviation |-> IF r.target = None THEN 0 ELSE Absolute(CreditsOf(S) - r.target)]
<1> DEFINE days == CampusDays(S)
           daily == [d \in days |-> DailySessions(S, d)]
<1>1. [d \in days |-> GapMinutes(daily[d])] = GapOn(S)
  BY Zenon DEF GapOn
<1>2. [d \in days |-> MovementTransitions(daily[d])] = MovesOn(S)
  BY Zenon DEF MovesOn
<1>3. [d \in days |-> AtLeastZero(r.lunch - LongestLunchBreak(daily[d]))] = ShortageOn(r, S)
  BY Zenon DEF ShortageOn
<1> DEFINE gap == SumFunction([d \in days |-> GapMinutes(daily[d])])
           moves == SumFunction([d \in days |-> MovementTransitions(daily[d])])
           shortage == SumFunction([d \in days |-> AtLeastZero(r.lunch - LongestLunchBreak(daily[d]))])
<1>4. Breakdown(r, S) =
             [campusDays |-> Cardinality(CampusDays(S)),
              gap |-> gap,
              movement |-> moves,
              early |-> SumFunction(EarlyOf(r, S)),
              late |-> SumFunction(LateOf(r, S)),
              daysOff |-> Cardinality(CampusDays(S) \cap r.daysOff),
              avoided |-> Cardinality({m \in MeetingsOf(S) : m.day \in r.avoidedDays}),
              changed |-> Cardinality(ChangedCourses(r, S)),
              unknownTime |-> Cardinality({s \in S : s.sessions = {}}),
              overflow |-> IF r.maxDaily = None THEN 0 ELSE SumFunction(OverflowOn(r, S)),
              lunch |-> IF r.lunch = 0 THEN 0 ELSE shortage,
              deviation |-> IF r.target = None THEN 0 ELSE Absolute(CreditsOf(S) - r.target)]
  BY Zenon DEF Breakdown, SumOver, EarlyOf, LateOf, OverflowOn
<1>5. gap = SumFunction(GapOn(S)) /\ moves = SumFunction(MovesOn(S)) /\ shortage = SumFunction(ShortageOn(r, S))
  BY <1>1, <1>2, <1>3, Zenon
<1> HIDE DEF gap, moves, shortage, days, daily
<1> QED
  BY <1>4, <1>5, Zenon

\* A sum over a function is the sum over its domain.
LEMMA SumOfFunction ==
    ASSUME NEW D, NEW f, f = [x \in D |-> f[x]]
    PROVE  SumFunction(f) = SumOn(f, D)
  BY Zenon DEF SumOn

\* A sum of integers is an integer.
LEMMA SumTyped ==
    ASSUME NEW D, IsFiniteSet(D), NEW f, f = [x \in D |-> f[x]], \A x \in D : f[x] \in Int
    PROVE  SumFunction(f) \in Int
  BY SumOfFunction, SumType

\* The sessions of a day come in the order of time.
LEMMA DailyList ==
    ASSUME NEW r, Solvable(r), NEW S \in SUBSET r.sections, NEW d
    PROVE  LET M == On(MeetingsOf(S), d)
           IN  /\ IsFiniteSet(M) /\ M \subseteq Session /\ \A m \in M : m.day = d
               /\ Orders(Earlier, M)
               /\ DailySessions(S, d) = Listed(Earlier, M)
               /\ DailySessions(S, d) \in [1..Cardinality(M) -> M]
<1> DEFINE M == On(MeetingsOf(S), d)
<1>1. IsFiniteSet(M)
  BY FiniteMeetings, FS_Subset DEF On
<1>2. M \subseteq Session /\ \A m \in M : m.day = d
  BY DEF Solvable, WellFormed, WellFormedSection, On, MeetingsOf
<1> HIDE DEF M
<1>3. Orders(Earlier, M)
  BY <1>2, EarlierOrders
<1>4. \A x \in M : {y \in M : EarlierThan(y, x)} = Before(Earlier, M, x)
  BY <1>2 DEF Before, Earlier
<1>5. \A i : (CHOOSE x \in M : Cardinality({y \in M : EarlierThan(y, x)}) = i - 1)
              = CHOOSE x \in M : Cardinality(Before(Earlier, M, x)) = i - 1
  BY <1>4
<1>6. DailySessions(S, d) = [i \in 1..Cardinality(M) |->
        CHOOSE x \in M : Cardinality({y \in M : EarlierThan(y, x)}) = i - 1]
  BY Zenon DEF DailySessions, InOrder, M
<1>7. DailySessions(S, d) = Listed(Earlier, M)
  BY <1>5, <1>6, Zenon DEF Listed
<1>8. Listed(Earlier, M) \in [1..Cardinality(M) -> M]
  BY <1>1, <1>3, ListedAll, Zenon
<1> QED
  BY <1>1, <1>2, <1>3, <1>7, <1>8, Zenon DEF M

\* What is measured of a list of sessions is a number.
LEMMA MeasuresTyped ==
    ASSUME NEW n \in Nat, NEW q, q \in [1..n -> Session]
    PROVE  /\ GapMinutes(q) \in Int /\ MovementTransitions(q) \in Int
           /\ LongestLunchBreak(q) \in Int
<1>0. LunchEnd \in Int /\ NearMinutes \in Int
  BY PartsAssumption DEF SearchAssumption
<1>1. \A i \in 1..n : q[i].start \in Int /\ q[i].end \in Int
  BY DEF Session
<1>2. Len(q) = n /\ IsFiniteSet(2..n)
  BY FS_Interval
<1>3. GapMinutes(q) \in Int
  <2> DEFINE f == [i \in 2..n |-> AtLeastZero(q[i].start - q[i - 1].end)]
  <2>1. GapMinutes(q) = SumFunction(f)
    BY <1>2, Zenon DEF GapMinutes, SumOver
  <2>2. \A i \in 2..n : f[i] \in Int
    <3>1. \A i \in 2..n : i \in 1..n /\ i - 1 \in 1..n
      OBVIOUS
    <3> QED
      BY <1>1, <3>1 DEF AtLeastZero
  <2>3. f = [i \in 2..n |-> f[i]]
    OBVIOUS
  <2> HIDE DEF f
  <2> QED
    BY <1>2, <2>1, <2>2, <2>3, SumTyped
<1>4. MovementTransitions(q) \in Int
  <2> DEFINE I == {i \in 2..n : /\ AtLeastZero(q[i].start - q[i - 1].end) <= NearMinutes
                               /\ q[i - 1].loc # None /\ q[i].loc # None /\ q[i - 1].loc # q[i].loc}
  <2>1. MovementTransitions(q) = Cardinality(I)
    BY <1>2, Zenon DEF MovementTransitions
  <2>2. IsFiniteSet(I)
    BY <1>2, FS_Subset
  <2> QED
    BY <2>1, <2>2, FS_CardinalityType
<1>5. LongestLunchBreak(q) \in Int
  <2>1. PICK seen : SeenBy(seen, n, q)
    BY <1>1, LunchSteps
  <2>2. seen[n].longest \in Int /\ seen[n].cursor \in Int
    BY <2>1 DEF SeenBy
  <2>3. LunchEnd - seen[n].cursor \in Int
    BY <1>0, <2>2
  <2>4. Max({seen[n].longest, LunchEnd - seen[n].cursor}) \in {seen[n].longest, LunchEnd - seen[n].cursor}
    BY <2>2, <2>3, OfTwo
  <2> QED
    BY <2>1, <2>2, <2>3, <2>4 DEF SeenBy
<1> QED
  BY <1>3, <1>4, <1>5

\* The components of a record.
LEMMA Fields ==
    ASSUME NEW a, NEW b, NEW c, NEW d, NEW e, NEW f, NEW g, NEW h, NEW i, NEW j, NEW k, NEW l, NEW all,
           all = [campusDays |-> a, gap |-> b, movement |-> c, early |-> d, late |-> e, daysOff |-> f,
                  avoided |-> g, changed |-> h, unknownTime |-> i, overflow |-> j, lunch |-> k,
                  deviation |-> l]
    PROVE  /\ all.campusDays = a /\ all.gap = b /\ all.movement = c /\ all.early = d /\ all.late = e
           /\ all.daysOff = f /\ all.avoided = g /\ all.changed = h /\ all.unknownTime = i
           /\ all.overflow = j /\ all.lunch = k /\ all.deviation = l
  OBVIOUS

\* What each component of the score is.
MadeOf(b, r, S) ==
    /\ b.campusDays = Cardinality(CampusDays(S))
    /\ b.gap = SumFunction(GapOn(S))
    /\ b.movement = SumFunction(MovesOn(S))
    /\ b.early = SumFunction(EarlyOf(r, S))
    /\ b.late = SumFunction(LateOf(r, S))
    /\ b.daysOff = Cardinality(CampusDays(S) \cap r.daysOff)
    /\ b.avoided = Cardinality({m \in MeetingsOf(S) : m.day \in r.avoidedDays})
    /\ b.changed = Cardinality(ChangedCourses(r, S))
    /\ b.unknownTime = Cardinality({s \in S : s.sessions = {}})
    /\ b.overflow = IF r.maxDaily = None THEN 0 ELSE SumFunction(OverflowOn(r, S))
    /\ b.lunch = IF r.lunch = 0 THEN 0 ELSE SumFunction(ShortageOn(r, S))
    /\ b.deviation = IF r.target = None THEN 0 ELSE Absolute(CreditsOf(S) - r.target)

\* The breakdown is made of them.
LEMMA BreakdownParts ==
    ASSUME NEW r, NEW S
    PROVE  MadeOf(Breakdown(r, S), r, S)
  BY BreakdownIs, Fields, Zenon DEF MadeOf

\* The numbers a score is made of.
LEMMA PartsTyped ==
    ASSUME NEW r, Solvable(r), NEW S \in SUBSET r.sections
    PROVE  LET b == Breakdown(r, S)
           IN  /\ b.campusDays \in Int /\ b.gap \in Int /\ b.movement \in Int /\ b.early \in Int
               /\ b.late \in Int /\ b.daysOff \in Int /\ b.avoided \in Int /\ b.changed \in Int
               /\ b.unknownTime \in Int /\ b.overflow \in Int /\ b.lunch \in Int /\ b.deviation \in Int
<1> DEFINE D == CampusDays(S)
           M == MeetingsOf(S)
<1>0. /\ DayEnd \in Nat /\ None \notin Nat
      /\ (r.earliest # None => r.earliest \in Int) /\ (r.latest # None => r.latest \in Int)
      /\ (r.maxDaily # None => r.maxDaily \in Int) /\ (r.target # None => r.target \in Int) /\ r.lunch \in Int
  BY PartsAssumption DEF SearchAssumption, Solvable, WellFormed, WellFormedPreferences
<1>1. IsFiniteSet(M) /\ IsFiniteSet(S) /\ M \subseteq Session
  BY FiniteMeetings, FiniteSelections DEF Solvable, WellFormed, WellFormedSection, MeetingsOf
<1>2. IsFiniteSet(D)
  <2> DEFINE f == [m \in M |-> m.day]
  <2>1. D = {f[m] : m \in M}
    BY DEF CampusDays
  <2> HIDE DEF M, f
  <2>2. DOMAIN f = M
    BY DEF f
  <2> HIDE DEF D
  <2> QED
    BY <1>1, <2>1, <2>2, CountImage
<1>3. \A d : On(M, d) \subseteq Session /\ IsFiniteSet(On(M, d))
  BY <1>1, FS_Subset DEF On
<1>4. \A d : /\ GapMinutes(DailySessions(S, d)) \in Int /\ MovementTransitions(DailySessions(S, d)) \in Int
             /\ LongestLunchBreak(DailySessions(S, d)) \in Int
  <2> TAKE d
  <2>1. DailySessions(S, d) \in [1..Cardinality(On(M, d)) -> On(M, d)]
    BY DailyList
  <2>2. DailySessions(S, d) \in [1..Cardinality(On(M, d)) -> Session]
    BY <1>3, <2>1
  <2>3. Cardinality(On(M, d)) \in Nat
    BY <1>3, FS_CardinalityType
  <2> HIDE DEF M
  <2> QED
    BY <2>2, <2>3, MeasuresTyped
<1>5. \A d : MinutesOf(On(M, d)) \in Int
  <2> TAKE d
  <2> DEFINE A == On(M, d)
             f == [m \in A |-> m.end - m.start]
  <2>1. MinutesOf(A) = SumFunction(f)
    BY Zenon DEF MinutesOf, SumOver
  <2>2. IsFiniteSet(A) /\ A \subseteq Session
    BY <1>3
  <2> HIDE DEF A
  <2>3. f = [m \in A |-> f[m]] /\ \A m \in A : f[m] \in Int
    BY <2>2 DEF Session
  <2> HIDE DEF f
  <2>4. SumFunction(f) \in Int
    BY <2>2, <2>3, SumTyped
  <2> QED
    BY <2>1, <2>4 DEF A
<1>6. SumFunction(GapOn(S)) \in Int /\ SumFunction(MovesOn(S)) \in Int
  <2>1. GapOn(S) = [d \in D |-> GapOn(S)[d]] /\ \A d \in D : GapOn(S)[d] \in Int
    BY <1>4 DEF GapOn
  <2>2. MovesOn(S) = [d \in D |-> MovesOn(S)[d]] /\ \A d \in D : MovesOn(S)[d] \in Int
    BY <1>4 DEF MovesOn
  <2> HIDE DEF D
  <2> QED
    BY <1>2, <2>1, <2>2, SumTyped
<1>7. (r.maxDaily # None => SumFunction(OverflowOn(r, S)) \in Int) /\ SumFunction(ShortageOn(r, S)) \in Int
  <2>1. /\ OverflowOn(r, S) = [d \in D |-> OverflowOn(r, S)[d]]
        /\ r.maxDaily # None => \A d \in D : OverflowOn(r, S)[d] \in Int
    BY <1>0, <1>5 DEF OverflowOn, AtLeastZero
  <2>2. ShortageOn(r, S) = [d \in D |-> ShortageOn(r, S)[d]] /\ \A d \in D : ShortageOn(r, S)[d] \in Int
    BY <1>0, <1>4 DEF ShortageOn, AtLeastZero
  <2> HIDE DEF D
  <2> QED
    BY <1>2, <2>1, <2>2, SumTyped
<1>8. SumFunction(EarlyOf(r, S)) \in Int /\ SumFunction(LateOf(r, S)) \in Int
  <2>1. EarlyOf(r, S) = [m \in M |-> EarlyOf(r, S)[m]] /\ \A m \in M : EarlyOf(r, S)[m] \in Int
    BY <1>0, <1>1 DEF EarlyOf, Early, AtLeastZero, Session
  <2>2. LateOf(r, S) = [m \in M |-> LateOf(r, S)[m]] /\ \A m \in M : LateOf(r, S)[m] \in Int
    BY <1>0, <1>1 DEF LateOf, Late, AtLeastZero, Session
  <2> HIDE DEF M
  <2> QED
    BY <1>1, <2>1, <2>2, SumTyped
<1>9. /\ Cardinality(D) \in Int /\ Cardinality(D \cap r.daysOff) \in Int
      /\ Cardinality({m \in M : m.day \in r.avoidedDays}) \in Int
      /\ Cardinality({s \in S : s.sessions = {}}) \in Int
  <2>1. \A T : IsFiniteSet(T) => Cardinality(T) \in Int
    BY FS_CardinalityType
  <2> QED
    BY <1>1, <1>2, <2>1, FS_Subset
<1>10. Cardinality(ChangedCourses(r, S)) \in Int
  <2>1. \A T \in SUBSET r.sections : IsFiniteSet(CoursesOf(T))
    <3> TAKE T \in SUBSET r.sections
    <3> DEFINE f == [s \in T |-> s.course]
    <3>1. CoursesOf(T) = {f[s] : s \in T}
      BY DEF CoursesOf
    <3>2. DOMAIN f = T /\ IsFiniteSet(T)
      BY FiniteSelections
    <3> HIDE DEF f
    <3> QED
      BY <3>1, <3>2, CountImage
  <2>2. WithIds(r, r.current) \in SUBSET r.sections
    BY DEF WithIds
  <2>3. IsFiniteSet(CoursesOf(WithIds(r, r.current)) \cup CoursesOf(S))
    BY <2>1, <2>2, FS_Union
  <2>4. IsFiniteSet(ChangedCourses(r, S))
    BY <2>3, FS_Subset DEF ChangedCourses
  <2> QED
    BY <2>4, FS_CardinalityType
<1>11. r.target # None => Absolute(CreditsOf(S) - r.target) \in Int
  BY <1>0, CreditsBound DEF Absolute
<1>12. /\ (IF r.maxDaily = None THEN 0 ELSE SumFunction(OverflowOn(r, S))) \in Int
       /\ (IF r.lunch = 0 THEN 0 ELSE SumFunction(ShortageOn(r, S))) \in Int
       /\ (IF r.target = None THEN 0 ELSE Absolute(CreditsOf(S) - r.target)) \in Int
  BY <1>7, <1>11
<1> DEFINE b == Breakdown(r, S)
<1> HIDE DEF b, D, M
<1>13. MadeOf(b, r, S)
  BY BreakdownParts DEF b
<1>14. /\ b.campusDays \in Int /\ b.gap \in Int /\ b.movement \in Int /\ b.early \in Int
       /\ b.late \in Int /\ b.daysOff \in Int /\ b.avoided \in Int /\ b.changed \in Int
       /\ b.unknownTime \in Int /\ b.overflow \in Int /\ b.lunch \in Int /\ b.deviation \in Int
  BY <1>6, <1>8, <1>9, <1>10, <1>12, <1>13 DEF MadeOf, D, M
<1> QED
  BY <1>14, Zenon DEF b

\* The weights are numbers.
LEMMA WeightsTyped ==
    ASSUME NEW r, Solvable(r)
    PROVE  /\ \A k \in WeightNames : r.weights[k] \in Nat
           /\ LET w == r.weights
              IN  /\ w.campusDay \in Nat /\ w.dayOff \in Nat /\ w.gap \in Nat /\ w.early \in Nat
                  /\ w.late \in Nat /\ w.avoided \in Nat /\ w.change \in Nat /\ w.unknownTime \in Nat
                  /\ w.movement \in Nat /\ w.overflow \in Nat /\ w.lunch \in Nat /\ w.target \in Nat
           /\ r.gapPercent \in Nat /\ PercentBase \in Nat
<1>1. r.weights \in [WeightNames -> Nat]
  BY DEF Solvable, WellFormed, WellFormedWeights
<1>2. \A k \in WeightNames : r.weights[k] \in Nat
  BY <1>1
<1>3. r.gapPercent \in Nat /\ PercentBase \in Nat
  BY PartsAssumption DEF SearchAssumption, Solvable, WellFormed, WellFormedPreferences
<1> QED
  BY <1>2, <1>3 DEF WeightNames

\* So is the score.
LEMMA ScoreTyped ==
    ASSUME NEW r, Solvable(r), NEW S \in SUBSET r.sections
    PROVE  WeightedScore(r, S) \in Int
<1> DEFINE b == Breakdown(r, S)
           w == r.weights
<1>1. /\ b.campusDays \in Int /\ b.gap \in Int /\ b.movement \in Int /\ b.early \in Int
      /\ b.late \in Int /\ b.daysOff \in Int /\ b.avoided \in Int /\ b.changed \in Int
      /\ b.unknownTime \in Int /\ b.overflow \in Int /\ b.lunch \in Int /\ b.deviation \in Int
  BY PartsTyped
<1>2. /\ w.campusDay \in Nat /\ w.dayOff \in Nat /\ w.gap \in Nat /\ w.early \in Nat
      /\ w.late \in Nat /\ w.avoided \in Nat /\ w.change \in Nat /\ w.unknownTime \in Nat
      /\ w.movement \in Nat /\ w.overflow \in Nat /\ w.lunch \in Nat /\ w.target \in Nat
      /\ r.gapPercent \in Nat /\ PercentBase \in Nat
  BY WeightsTyped
<1> HIDE DEF b, w
<1>3. \A x, y \in Int : x * y \in Int
  OBVIOUS
<1>4. /\ b.campusDays * w.campusDay \in Int /\ b.daysOff * w.dayOff \in Int /\ b.early * w.early \in Int
      /\ b.late * w.late \in Int /\ b.avoided * w.avoided \in Int /\ b.unknownTime * w.unknownTime \in Int
      /\ b.movement * w.movement \in Int /\ b.overflow * w.overflow \in Int /\ b.lunch * w.lunch \in Int
      /\ b.changed * w.change \in Int /\ b.deviation * w.target \in Int
      /\ b.gap * w.gap * r.gapPercent \in Int
  BY <1>1, <1>2, <1>3
<1> DEFINE total == b.campusDays * w.campusDay + b.daysOff * w.dayOff + b.early * w.early
                    + b.late * w.late + b.avoided * w.avoided + b.unknownTime * w.unknownTime
                    + b.movement * w.movement + b.overflow * w.overflow + b.lunch * w.lunch
                    + (IF r.minimizeChanges THEN b.changed * w.change ELSE 0)
                    + b.deviation * w.target
<1>5. total \in Int
  BY <1>4
<1>6. WeightedScore(r, S) = PercentBase * total + b.gap * w.gap * r.gapPercent
  BY Zenon DEF WeightedScore, b, w
<1> HIDE DEF total
<1>7. PercentBase * total \in Int
  BY <1>2, <1>5
<1> QED
  BY <1>4, <1>6, <1>7

-----------------------------------------------------------------------------
(* The literals of the objective.                                          *)

\* A literal has one value: 1 when all it needs is on and nothing that blocks it.
LEMMA LiteralValue ==
    ASSUME NEW on, NEW need, NEW block, IsFiniteSet(need), IsFiniteSet(block),
           \A i \in need \cup block : on[i] \in {0, 1}
    PROVE  LET v == IF (\A i \in need : on[i] = 1) /\ (\A i \in block : on[i] = 0) THEN 1 ELSE 0
           IN  Max(Literal(on, need, block)) = v /\ Min(Literal(on, need, block)) = v
<1> DEFINE v == IF (\A i \in need : on[i] = 1) /\ (\A i \in block : on[i] = 0) THEN 1 ELSE 0
           wanted == SumOver(need, LAMBDA n : on[n])
           against == SumOver(block, LAMBDA b : on[b])
           low == wanted - (Cardinality(need) - 1) - against
<1>1. wanted = SumOn(on, need) /\ against = SumOn(on, block)
  BY Zenon DEF SumOver, SumOn
<1>2. Cardinality(need) \in Nat /\ Cardinality(block) \in Nat
  BY FS_CardinalityType
<1>3. SumOn(on, need) \in Int /\ SumOn(on, block) \in Int
  BY SumType
<1>4. (\A i \in need : on[i] = 1) => SumOn(on, need) = Cardinality(need)
  BY SumOnes
<1>5. (\A i \in block : on[i] = 0) => SumOn(on, block) = 0
  <2> DEFINE none == {}
  <2> SUFFICES ASSUME \A i \in block : on[i] = 0 PROVE SumOn(on, block) = 0
    OBVIOUS
  <2>1. none \in SUBSET block /\ \A i \in block : on[i] \in Int /\ (i \notin none => on[i] = 0)
    OBVIOUS
  <2>2. SumOn(on, block) = SumOn(on, none)
    BY <2>1, SumRestrict
  <2> QED
    BY <2>2, SumEmpty
<1>6. SumOn(on, need) <= Cardinality(need)
  <2> DEFINE one == [i \in need |-> 1]
  <2>1. \A i \in need : on[i] \in Int /\ one[i] \in Int /\ on[i] <= one[i] /\ one[i] = 1
    OBVIOUS
  <2> HIDE DEF one
  <2>2. SumOn(on, need) <= SumOn(one, need) /\ SumOn(one, need) = Cardinality(need)
    BY <2>1, SumBound, SumOnes
  <2> QED
    BY <2>2
<1>7. SumOn(on, block) >= 0
  <2> DEFINE zero == [i \in block |-> 0]
             none == {}
  <2>1. /\ \A i \in block : on[i] \in Int /\ zero[i] \in Int /\ zero[i] <= on[i]
        /\ none \in SUBSET block /\ \A i \in block : i \notin none => zero[i] = 0
    OBVIOUS
  <2> HIDE DEF zero
  <2>2. SumOn(zero, block) <= SumOn(on, block) /\ SumOn(zero, block) = SumOn(zero, none)
    BY <2>1, SumBound, SumRestrict
  <2> QED
    BY <2>2, SumEmpty
<1>8. (\E i \in need : on[i] # 1) => SumOn(on, need) <= Cardinality(need) - 1
  <2> SUFFICES ASSUME NEW k \in need, on[k] # 1 PROVE SumOn(on, need) <= Cardinality(need) - 1
    OBVIOUS
  <2> DEFINE one == [i \in need |-> IF i = k THEN 0 ELSE 1]
             V == need \ {k}
  <2>1. /\ \A i \in need : on[i] \in Int /\ one[i] \in Int /\ on[i] <= one[i]
        /\ V \in SUBSET need /\ \A i \in need : one[i] = IF i \in V THEN 1 ELSE 0
    OBVIOUS
  <2>2. Cardinality(V) = Cardinality(need) - 1
    BY FS_RemoveElement
  <2> HIDE DEF one, V
  <2>3. SumOn(on, need) <= SumOn(one, need) /\ SumOn(one, need) = Cardinality(V)
    BY <2>1, SumBound, SumBits
  <2> QED
    BY <2>2, <2>3
<1>9. (\E i \in block : on[i] # 0) => SumOn(on, block) >= 1
  <2> SUFFICES ASSUME NEW k \in block, on[k] # 0 PROVE SumOn(on, block) >= 1
    OBVIOUS
  <2> DEFINE one == [i \in block |-> IF i = k THEN 1 ELSE 0]
             V == {k}
  <2>1. /\ \A i \in block : on[i] \in Int /\ one[i] \in Int /\ one[i] <= on[i]
        /\ V \in SUBSET block /\ \A i \in block : one[i] = IF i \in V THEN 1 ELSE 0
    OBVIOUS
  <2>2. Cardinality(V) = 1
    BY FS_Singleton
  <2> HIDE DEF one, V
  <2>3. SumOn(one, block) <= SumOn(on, block) /\ SumOn(one, block) = Cardinality(V)
    BY <2>1, SumBound, SumBits
  <2> QED
    BY <2>2, <2>3
<1>10. low = SumOn(on, need) - (Cardinality(need) - 1) - SumOn(on, block)
  BY <1>1
<1>11. Literal(on, need, block) =
         {u \in {0, 1} : (\A i \in need : u <= on[i]) /\ (\A i \in block : u + on[i] <= 1) /\ u >= low}
  BY Zenon DEF Literal
<1> HIDE DEF low, wanted, against
<1>12. Literal(on, need, block) = {v}
  <2>1. CASE (\A i \in need : on[i] = 1) /\ (\A i \in block : on[i] = 0)
    <3>1. low = 1 /\ v = 1
      BY <1>2, <1>4, <1>5, <1>10, <2>1
    <3>2. Literal(on, need, block) =
            {u \in {0, 1} : (\A i \in need : u <= 1) /\ (\A i \in block : u + 0 <= 1) /\ u >= 1}
      BY <1>11, <2>1, <3>1
    <3> QED
      BY <3>1, <3>2
  <2>2. CASE ~((\A i \in need : on[i] = 1) /\ (\A i \in block : on[i] = 0))
    <3>1. v = 0
      BY <2>2
    <3>2. low <= 0 /\ low \in Int
      BY <1>2, <1>3, <1>6, <1>7, <1>8, <1>9, <1>10, <2>2
    <3>3. 1 \notin Literal(on, need, block)
      BY <1>11, <2>2
    <3>4. 0 \in Literal(on, need, block)
      BY <1>11, <3>2
    <3>5. Literal(on, need, block) \subseteq {0, 1}
      BY <1>11
    <3> HIDE DEF v
    <3> QED
      BY <3>1, <3>3, <3>4, <3>5
  <2> QED
    BY <2>1, <2>2
<1>13. v \in Int
  OBVIOUS
<1> HIDE DEF v
<1>14. Max({v, v}) = v /\ Min({v, v}) = v
  BY <1>13, OfTwo
<1>15. {v, v} = {v}
  OBVIOUS
<1> QED
  BY <1>12, <1>14, <1>15 DEF v

-----------------------------------------------------------------------------
(* The meetings of a day do not overlap.                                   *)

\* The meetings of a day of a selection without conflicts do not overlap.
LEMMA DayApart ==
    ASSUME NEW r, Solvable(r), NEW x \in SUBSET r.sections, NoConflicts(x), NEW d
    PROVE  LET M == On(MeetingsOf(x), d)
           IN  /\ \A m \in M : m.start \in Nat /\ m.end \in Nat /\ m.start < m.end /\ m.end <= DayEnd
               /\ \A m, k \in M : <<m, k>> \in Earlier => m.end <= k.start
<1> DEFINE M == On(MeetingsOf(x), d)
<1>1. ASSUME NEW m \in M
      PROVE  \E s \in x : /\ s \in r.sections /\ m \in s.sessions /\ m.day = d
                          /\ m.start \in Nat /\ m.end \in Nat /\ m.start < m.end /\ m.end <= DayEnd
  <2>1. PICK s \in x : m \in s.sessions /\ m.day = d
    BY DEF On, MeetingsOf
  <2> QED
    BY <2>1, SectionsMeet
<1> HIDE DEF M
<1>2. ASSUME NEW m \in M, NEW k \in M, <<m, k>> \in Earlier PROVE m.end <= k.start
  <2>1. PICK s \in x : s \in r.sections /\ m \in s.sessions /\ m.day = d
    BY <1>1
  <2>2. PICK t \in x : t \in r.sections /\ k \in t.sessions /\ k.day = d
    BY <1>1
  <2>3. /\ m.start \in Nat /\ m.end \in Nat /\ m.start < m.end
        /\ k.start \in Nat /\ k.end \in Nat /\ k.start < k.end
    BY <1>1
  <2>4. EarlierThan(m, k)
    BY <1>2 DEF Earlier
  <2>5. m # k /\ m.start <= k.start
    <3>1. m.start <= k.start
      BY <2>3, <2>4 DEF EarlierThan
    <3>2. Place(m.loc) < Place(m.loc) => Place(m.loc) \notin Int
      OBVIOUS
    <3>3. <<m, m>> \notin Earlier
      <4>1. m \in Session
        BY <2>1, SectionsMeet
      <4>2. Orders(Earlier, {m})
        BY <4>1, EarlierOrders
      <4> QED
        BY <4>2 DEF Orders
    <3> QED
      BY <1>2, <3>1, <3>3
  <2>6. ~Overlap(m, k)
    <3>1. CASE s = t
      BY <2>1, <2>2, <2>5, <3>1 DEF Solvable, ValidRequest, Muddled
    <3>2. CASE s # t
      BY <2>1, <2>2, <3>2 DEF NoConflicts, Conflict
    <3> QED
      BY <3>1, <3>2
  <2> QED
    BY <2>1, <2>2, <2>3, <2>5, <2>6 DEF Overlap
<1>3. \A m \in M : m.start \in Nat /\ m.end \in Nat /\ m.start < m.end /\ m.end <= DayEnd
  BY <1>1
<1> QED
  BY <1>2, <1>3 DEF M

-----------------------------------------------------------------------------
(* Walks between buildings.                                                *)

\* A merged meeting is on when the selection has it.
LEMMA MoveActiveIs ==
    ASSUME NEW r, Solvable(r), NEW x \in SUBSET r.sections, NoConflicts(x), NEW d,
           NEW i \in DOMAIN MoveEvents(r, d)
    PROVE  MoveActive(r, x, d)[i] = IF MoveEvents(r, d)[i] \in On(MeetingsOf(x), d) THEN 1 ELSE 0
<1> DEFINE m == MoveEvents(r, d)[i]
           S == {s \in r.sections : m \in s.sessions}
<1>1. m.day = d
  BY MoveEventIsMeeting DEF On
<1>2. MoveActive(r, x, d)[i] = Chosen(x, S)
  BY DEF MoveActive
<1>3. \A s, t \in S : Conflict(s, t)
  BY SectionsMeet DEF Conflict
<1>4. Chosen(x, S) <= 1
  BY <1>3, ClashingChosenOnce
<1>5. IsFiniteSet(S) /\ IsFiniteSet(S \cap x)
  BY FiniteSelections, FS_Subset
<1>6. Chosen(x, S) = Cardinality(S \cap x)
  BY <1>5, ChosenIsCount
<1>7. S \cap x # {} <=> m \in On(MeetingsOf(x), d)
  BY <1>1 DEF On, MeetingsOf
<1>8. Cardinality(S \cap x) \in Nat /\ (Cardinality(S \cap x) = 0 <=> S \cap x = {})
  BY <1>5, FS_CardinalityType, FS_EmptySet
<1> HIDE DEF S, m
<1>9. MoveActive(r, x, d)[i] = IF m \in On(MeetingsOf(x), d) THEN 1 ELSE 0
  BY <1>2, <1>4, <1>6, <1>7, <1>8
<1> QED
  BY <1>9 DEF m

Walk(a, b) == [need |-> {a, b}, block |-> (a + 1)..(b - 1)]

\* A walk from one meeting to another one.
WalkBetween(m, k) ==
    /\ k.start - m.end \in 0..NearMinutes
    /\ m.loc # None /\ k.loc # None /\ m.loc # k.loc

\* The walks of the model are those between its merged meetings.
LEMMA WalksAre ==
    ASSUME NEW r, Solvable(r), NEW d
    PROVE  LET A == On(MeetingsOf(r.sections), d)
               e == Listed(Earlier, A)
           IN  /\ MoveEvents(r, d) = e
               /\ \A w : w \in Walks(r, d) <=>
                    \E a, b \in 1..Cardinality(A) : a < b /\ WalkBetween(e[a], e[b]) /\ w = Walk(a, b)
<1> DEFINE A == On(MeetingsOf(r.sections), d)
           e == Listed(Earlier, A)
           n == Len(MoveEvents(r, d))
           ev == MoveEvents(r, d)
           pairs == {ij \in (1..n) \X (1..n) :
                     /\ ij[1] < ij[2]
                     /\ ev[ij[2]].start - ev[ij[1]].end \in 0..NearMinutes
                     /\ ev[ij[1]].loc # None /\ ev[ij[2]].loc # None
                     /\ ev[ij[1]].loc # ev[ij[2]].loc}
<1>1. DailySessions(r.sections, d) = e /\ e \in [1..Cardinality(A) -> A] /\ IsFiniteSet(A)
  BY DailyList
<1>2. MoveEvents(r, d) = e
  BY <1>1, Zenon DEF MoveEvents, DailySessions
<1>3. Walks(r, d) = {[need |-> {ij[1], ij[2]}, block |-> (ij[1] + 1)..(ij[2] - 1)] : ij \in pairs}
  BY Zenon DEF Walks
<1>4. Cardinality(A) \in Nat
  BY <1>1, FS_CardinalityType
<1> HIDE DEF A
<1>5. n = Cardinality(A) /\ ev = e
  <2>1. Len(e) = Cardinality(A)
    BY <1>1, <1>4
  <2> QED
    BY <1>2, <2>1
<1> HIDE DEF n, ev, e
<1>6. ASSUME NEW w, w \in Walks(r, d)
      PROVE  \E a, b \in 1..Cardinality(A) : a < b /\ WalkBetween(e[a], e[b]) /\ w = Walk(a, b)
  <2>1. PICK ij \in pairs : w = [need |-> {ij[1], ij[2]}, block |-> (ij[1] + 1)..(ij[2] - 1)]
    BY <1>3, <1>6
  <2>2. ij[1] \in 1..n /\ ij[2] \in 1..n /\ ij[1] < ij[2] /\ WalkBetween(e[ij[1]], e[ij[2]])
    BY <1>5 DEF WalkBetween
  <2> QED
    BY <1>5, <2>1, <2>2 DEF Walk
<1>7. ASSUME NEW a \in 1..Cardinality(A), NEW b \in 1..Cardinality(A), a < b, WalkBetween(e[a], e[b])
      PROVE  Walk(a, b) \in Walks(r, d)
  <2> DEFINE p == <<a, b>>
  <2>1. p[1] = a /\ p[2] = b /\ p \in (1..n) \X (1..n)
    BY <1>5
  <2> HIDE DEF p
  <2>2. p \in pairs
    BY <1>5, <1>7, <2>1 DEF WalkBetween
  <2> HIDE DEF pairs
  <2>3. Walk(a, b) = [need |-> {p[1], p[2]}, block |-> (p[1] + 1)..(p[2] - 1)]
    BY <2>1 DEF Walk
  <2> QED
    BY <1>3, <2>2, <2>3
<1>8. \A w : w \in Walks(r, d) <=>
                    \E a, b \in 1..Cardinality(A) : a < b /\ WalkBetween(e[a], e[b]) /\ w = Walk(a, b)
  BY <1>6, <1>7
<1> QED
  BY <1>2, <1>8 DEF e, A

\* A literal of a walk is on.
Walked(on, w) == (\A i \in w.need : on[i] = 1) /\ (\A i \in w.block : on[i] = 0)

\* The literals of the walks add up to the walks that the score counts.
LEMMA WalksAgree ==
    ASSUME NEW r, Solvable(r), NEW x \in SUBSET r.sections, NoConflicts(x), NEW d,
           r.weights.movement # 0
    PROVE  MovementTerm(r, x, d) = MovementTransitions(DailySessions(x, d))
<1> DEFINE A == On(MeetingsOf(r.sections), d)
           M == On(MeetingsOf(x), d)
           R == Earlier
           e == Listed(R, A)
           q == Listed(R, M)
           on == MoveActive(r, x, d)
           W == Walks(r, d)
           V == {w \in W : Walked(on, w)}
           f == [w \in W |-> Min(Literal(on, w.need, w.block))]
           N == Cardinality(A)
           n == Cardinality(M)
           I == {i \in 2..n : /\ AtLeastZero(q[i].start - q[i - 1].end) <= NearMinutes
                              /\ q[i - 1].loc # None /\ q[i].loc # None /\ q[i - 1].loc # q[i].loc}
<1>1. IsFiniteSet(A) /\ Orders(R, A) /\ IsFiniteSet(M) /\ Orders(R, M) /\ DailySessions(x, d) = q
      /\ DailySessions(x, d) \in [1..n -> M]
  BY DailyList
<1>2. M \in SUBSET A
  BY DEF On, MeetingsOf
<1>3. MoveEvents(r, d) = e
  BY WalksAre
<1>3a. \A w : w \in W <=> \E a, b \in 1..N : a < b /\ WalkBetween(e[a], e[b]) /\ w = Walk(a, b)
  BY WalksAre
<1>4. ASSUME NEW i \in 1..N PROVE on[i] = IF e[i] \in M THEN 1 ELSE 0
  <2>1. i \in DOMAIN MoveEvents(r, d)
    BY MoveEventIsMeeting
  <2>2. MoveActive(r, x, d)[i] = IF MoveEvents(r, d)[i] \in On(MeetingsOf(x), d) THEN 1 ELSE 0
    BY <2>1, MoveActiveIs
  <2> QED
    BY <1>3, <2>2
<1>5. \A m \in M : m.start \in Nat /\ m.end \in Nat
  BY DayApart
<1>6. \A m, k \in M : <<m, k>> \in R => m.end <= k.start
  BY DayApart
<1>7. NearMinutes \in Nat
  BY PartsAssumption DEF SearchAssumption
<1>8. MovementTransitions(q) = Cardinality(I)
  <2>1. Len(q) = n
    <3>1. n \in Nat
      BY <1>1, FS_CardinalityType
    <3> QED
      BY <1>1, <3>1
  <2>2. MovementTransitions(q) = Cardinality({i \in 2..Len(q) :
        /\ AtLeastZero(q[i].start - q[i - 1].end) <= NearMinutes
        /\ q[i - 1].loc # None /\ q[i].loc # None /\ q[i - 1].loc # q[i].loc})
    BY Zenon DEF MovementTransitions
  <2> HIDE DEF q, n
  <2> QED
    BY <2>1, <2>2
<1>9. SumOver(W, LAMBDA w : Min(Literal(on, w.need, w.block))) = SumOn(f, W)
  <2>1. [w \in W |-> Min(Literal(on, w.need, w.block))] = [w \in W |-> f[w]]
    OBVIOUS
  <2> QED
    BY <2>1, Zenon DEF SumOver, SumOn
<1>10. N \in Nat /\ n \in Nat
  BY <1>1, FS_CardinalityType
<1> HIDE DEF A, M, R, e, q, on, W, N, n
<1>11. ASSUME NEW w \in W
       PROVE  /\ IsFiniteSet(w.need) /\ IsFiniteSet(w.block) /\ w.need \cup w.block \subseteq 1..N
              /\ f[w] = IF w \in V THEN 1 ELSE 0
  <2>1. PICK a \in 1..N, b \in 1..N : a < b /\ w = Walk(a, b)
    BY <1>3a
  <2>2. w.need = {a, b} /\ w.block = (a + 1)..(b - 1)
    BY <2>1 DEF Walk
  <2>3. w.need \cup w.block \subseteq 1..N
    BY <1>10, <2>1, <2>2
  <2>4. IsFiniteSet(w.need) /\ IsFiniteSet(w.block)
    <3>1. IsFiniteSet(1..N)
      BY <1>10, FS_Interval
    <3> QED
      BY <2>3, <3>1, FS_Subset
  <2>5. \A i \in w.need \cup w.block : on[i] \in {0, 1}
    BY <1>4, <2>3
  <2>6. Min(Literal(on, w.need, w.block)) = IF Walked(on, w) THEN 1 ELSE 0
    BY <2>4, <2>5, LiteralValue, Zenon DEF Walked
  <2> QED
    BY <2>3, <2>4, <2>6
<1>12. PICK pos : Places(pos, R, A)
  BY <1>1, PlacesExist
<1> DEFINE h == [i \in I |-> Walk(pos[q[i - 1]], pos[q[i]])]
           walkImage == {h[i] : i \in I}
<1>13. ASSUME NEW i \in 2..n
       PROVE  /\ q[i - 1] \in M /\ q[i] \in M /\ <<q[i - 1], q[i]>> \in R
              /\ pos[q[i - 1]] \in 1..N /\ pos[q[i]] \in 1..N /\ pos[q[i - 1]] < pos[q[i]]
              /\ e[pos[q[i - 1]]] = q[i - 1] /\ e[pos[q[i]]] = q[i]
              /\ \A k \in (pos[q[i - 1]] + 1)..(pos[q[i]] - 1) : k \in 1..N /\ e[k] \notin M
  BY <1>1, <1>2, <1>12, NextInPart DEF e, q, n, N
<1>14. ASSUME NEW i \in 2..n PROVE i \in I <=> WalkBetween(q[i - 1], q[i])
  <2>1. q[i - 1].end <= q[i].start /\ q[i - 1].end \in Nat /\ q[i].start \in Nat
    BY <1>5, <1>6, <1>13
  <2>2. AtLeastZero(q[i].start - q[i - 1].end) = q[i].start - q[i - 1].end
    BY <2>1 DEF AtLeastZero
  <2> QED
    BY <1>7, <2>1, <2>2 DEF WalkBetween
<1>15. ASSUME NEW i \in I PROVE h[i] \in V
  <2> DEFINE a == pos[q[i - 1]]
             b == pos[q[i]]
  <2>0. i \in 2..n /\ WalkBetween(q[i - 1], q[i])
    BY <1>14
  <2>1. /\ q[i - 1] \in M /\ q[i] \in M
        /\ a \in 1..N /\ b \in 1..N /\ a < b /\ e[a] = q[i - 1] /\ e[b] = q[i]
        /\ \A k \in (a + 1)..(b - 1) : k \in 1..N /\ e[k] \notin M
    BY <1>13, <2>0
  <2>2. h[i] = Walk(a, b)
    OBVIOUS
  <2> HIDE DEF a, b, h, I
  <2>3. Walk(a, b) \in W
    BY <1>3a, <2>0, <2>1
  <2>4. Walked(on, Walk(a, b))
    <3>1. on[a] = 1 /\ on[b] = 1
      BY <1>4, <2>1
    <3>2. \A k \in (a + 1)..(b - 1) : on[k] = 0
      BY <1>4, <2>1
    <3> QED
      BY <3>1, <3>2 DEF Walked, Walk
  <2> QED
    BY <2>2, <2>3, <2>4
<1>16. ASSUME NEW w \in V PROVE \E i \in I : h[i] = w
  <2>1. w \in W /\ Walked(on, w)
    OBVIOUS
  <2>2. PICK a \in 1..N, b \in 1..N : a < b /\ WalkBetween(e[a], e[b]) /\ w = Walk(a, b)
    BY <1>3a, <2>1
  <2>3. on[a] = 1 /\ on[b] = 1 /\ \A k \in (a + 1)..(b - 1) : on[k] = 0
    BY <2>1, <2>2 DEF Walked, Walk
  <2>4. e[a] \in M /\ e[b] \in M
    BY <1>4, <2>2, <2>3
  <2>5. \A k \in (a + 1)..(b - 1) : e[k] \notin M
    <3>1. \A k \in (a + 1)..(b - 1) : k \in 1..N
      BY <1>10, <2>2
    <3> QED
      BY <1>4, <2>3, <3>1
  <2>6. PICK i \in 2..n : /\ q[i - 1] = e[a] /\ q[i] = e[b]
                          /\ pos[q[i - 1]] = a /\ pos[q[i]] = b
    <3> HIDE DEF A, M, R
    <3>0. /\ IsFiniteSet(A) /\ M \in SUBSET A /\ Orders(R, A) /\ Orders(R, M) /\ Places(pos, R, A)
          /\ a \in 1..Cardinality(A) /\ b \in 1..Cardinality(A) /\ a < b
          /\ Listed(R, A)[a] \in M /\ Listed(R, A)[b] \in M
          /\ \A k \in (a + 1)..(b - 1) : Listed(R, A)[k] \notin M
      BY <1>1, <1>2, <1>12, <2>2, <2>4, <2>5, Zenon DEF e, N
    <3>1. \E i \in 2..Cardinality(M) : /\ Listed(R, M)[i - 1] = Listed(R, A)[a]
                                        /\ Listed(R, M)[i] = Listed(R, A)[b]
                                        /\ pos[Listed(R, M)[i - 1]] = a /\ pos[Listed(R, M)[i]] = b
      BY <3>0, NextInWhole
    <3> QED
      BY <3>1 DEF e, q, n
  <2>7. i \in I
    BY <1>14, <2>2, <2>6
  <2> HIDE DEF I
  <2> QED
    BY <2>2, <2>6, <2>7
<1>17. ASSUME NEW i \in I, NEW j \in I, h[i] = h[j] PROVE i = j
  <2> DEFINE a == pos[q[i - 1]]
             b == pos[q[i]]
             a2 == pos[q[j - 1]]
             b2 == pos[q[j]]
  <2>1. i \in 2..n /\ j \in 2..n
    OBVIOUS
  <2>2. a < b /\ a2 < b2 /\ a \in 1..N /\ b \in 1..N /\ a2 \in 1..N /\ b2 \in 1..N /\ e[b] = q[i] /\ e[b2] = q[j]
    BY <1>13, <2>1
  <2>3. Walk(a, b).need = Walk(a2, b2).need
    BY <1>17
  <2> HIDE DEF a, b, a2, b2, h, I
  <2>4. {a, b} = {a2, b2}
    BY <2>3 DEF Walk
  <2>5. b = b2
    BY <1>10, <2>2, <2>4
  <2>6. q[i] = q[j]
    BY <2>2, <2>5
  <2>7. PICK place : Places(place, R, M)
    BY <1>1, PlacesExist
  <2>8. i \in 1..n /\ j \in 1..n
    BY <1>10, <2>1
  <2>9. place[q[i]] = i /\ place[q[j]] = j
    BY <2>7, <2>8 DEF Places, q, n
  <2> QED
    BY <2>6, <2>9
<1>18. IsFiniteSet(I)
  <2>1. I \in SUBSET (2..n)
    OBVIOUS
  <2>2. IsFiniteSet(2..n)
    BY <1>10, FS_Interval
  <2> HIDE DEF I
  <2> QED
    BY <2>1, <2>2, FS_Subset
<1>19. DOMAIN h = I
  OBVIOUS
<1>20. walkImage = V
  <2> HIDE DEF h, V, I
  <2> QED
    BY <1>15, <1>16
<1> HIDE DEF h, I
<1>21. Cardinality(walkImage) = Cardinality(I) /\ IsFiniteSet(walkImage)
  BY <1>17, <1>18, <1>19, CountImage
<1>22. IsFiniteSet(W)
  <2> DEFINE P == (1..N) \X (1..N)
             k == [p \in P |-> Walk(p[1], p[2])]
             all == {k[p] : p \in P}
  <2>1. IsFiniteSet(P) /\ DOMAIN k = P
    <3>1. IsFiniteSet(1..N)
      BY <1>10, FS_Interval
    <3> QED
      BY <3>1, FS_Product
  <2>2. W \subseteq all
    <3> SUFFICES ASSUME NEW w \in W PROVE w \in all
      OBVIOUS
    <3>1. PICK a \in 1..N, b \in 1..N : w = Walk(a, b)
      BY <1>3a
    <3>2. <<a, b>> \in P /\ k[<<a, b>>] = w
      BY <3>1
    <3> QED
      BY <3>2
  <2> HIDE DEF k, P
  <2>3. IsFiniteSet(all)
    BY <2>1, CountImage
  <2> QED
    BY <2>2, <2>3, FS_Subset
<1>23. V \in SUBSET W /\ \A w \in W : f[w] = IF w \in V THEN 1 ELSE 0
  BY <1>11
<1> HIDE DEF f, V, walkImage
<1>24. SumOn(f, W) = Cardinality(V)
  BY <1>22, <1>23, SumBits
<1>25. SumOn(f, W) = MovementTransitions(q)
  BY <1>8, <1>20, <1>21, <1>24
<1>26. SumOver(W, LAMBDA w : Min(Literal(on, w.need, w.block))) = MovementTransitions(q)
  BY <1>9, <1>25, Zenon
<1>27. MovementTerm(r, x, d) = SumOver(W, LAMBDA w : Min(Literal(on, w.need, w.block)))
  BY Zenon DEF MovementTerm, W, on
<1> QED
  BY <1>1, <1>26, <1>27, Zenon

-----------------------------------------------------------------------------
(* The gaps between the meetings of a day.                                 *)

\* The gaps f and the lengths g of the n meetings of a list.
Spaced(n, q, f, g) ==
    /\ \A i \in 1..n : q[i].start \in Int /\ q[i].end \in Int /\ g[i] = q[i].end - q[i].start
    /\ \A i \in 2..n : f[i] = q[i].start - q[i - 1].end

\* The gaps of a list of disjoint meetings add up to what the meetings leave
\* of the time from the first to the last one.
LEMMA GapsTelescope ==
    ASSUME NEW n \in Nat \ {0}, NEW q, NEW f, NEW g, Spaced(n, q, f, g)
    PROVE  SumOn(f, 2..n) = q[n].end - q[1].start - SumOn(g, 1..n)
<1> DEFINE G == {k \in Nat : k + 1 <= n =>
                    SumOn(f, 2..(k + 1)) = q[k + 1].end - q[1].start - SumOn(g, 1..(k + 1))}
<1>0. /\ \A i \in 1..n : q[i].start \in Int /\ q[i].end \in Int /\ g[i] = q[i].end - q[i].start
      /\ \A i \in 2..n : f[i] = q[i].start - q[i - 1].end
  BY DEF Spaced
<1>1. \A i \in 1..n : g[i] \in Int
  BY <1>0
<1>2. \A i \in 2..n : f[i] \in Int
  <2>1. \A i \in 2..n : i \in 1..n /\ i - 1 \in 1..n
    OBVIOUS
  <2> QED
    BY <1>0, <2>1
<1>3. 0 \in G
  <2> DEFINE one == {1}
             none == {}
  <2>1. 2..1 = none /\ 1..1 = one /\ one \ {1} = none
    OBVIOUS
  <2>2. SumOn(f, none) = 0 /\ SumOn(g, none) = 0
    BY SumEmpty
  <2>3. IsFiniteSet(one)
    BY FS_Singleton
  <2>4. 1 \in one /\ 1 \in 1..n
    OBVIOUS
  <2>5. \A i \in one : g[i] \in Int
    BY <1>1, <2>4
  <2> HIDE DEF one, none
  <2>6. SumOn(g, one) = g[1] + SumOn(g, one \ {1})
    BY <2>3, <2>4, <2>5, SumRemove
  <2>7. q[1].start \in Int /\ q[1].end \in Int /\ g[1] = q[1].end - q[1].start
    BY <1>0, <2>4
  <2>8. SumOn(g, one \ {1}) = 0
    BY <2>1, <2>2
  <2>9. SumOn(f, none) = q[1].end - q[1].start - SumOn(g, one)
    BY <2>2, <2>6, <2>7, <2>8
  <2>10. SumOn(f, 2..1) = q[1].end - q[1].start - SumOn(g, 1..1)
    BY <2>1, <2>9
  <2>11. 0 + 1 = 1
    OBVIOUS
  <2>12. 0 + 1 <= n => SumOn(f, 2..(0 + 1)) = q[0 + 1].end - q[1].start - SumOn(g, 1..(0 + 1))
    BY <2>10, <2>11
  <2> QED
    BY <2>12
<1>4. ASSUME NEW k \in Nat, k \in G PROVE k + 1 \in G
  <2> DEFINE j == k + 2
             F == 2..j
             H == 1..j
             F0 == 2..(k + 1)
             H0 == 1..(k + 1)
  <2> SUFFICES ASSUME j <= n PROVE SumOn(f, F) = q[j].end - q[1].start - SumOn(g, H)
    OBVIOUS
  <2>1. /\ j \in 2..n /\ j \in 1..n /\ j - 1 = k + 1 /\ k + 1 \in 1..n
        /\ F \ {j} = F0 /\ H \ {j} = H0 /\ j \in F /\ j \in H
    OBVIOUS
  <2>2. IsFiniteSet(F) /\ IsFiniteSet(H) /\ IsFiniteSet(F0) /\ IsFiniteSet(H0)
    <3>1. 2 \in Int /\ 1 \in Int /\ j \in Int /\ k + 1 \in Int
      OBVIOUS
    <3> QED
      BY <3>1, FS_Interval
  <2>3. (\A i \in F : f[i] \in Int) /\ \A i \in H : g[i] \in Int
    BY <1>1, <1>2
  <2>4. (\A i \in F0 : f[i] \in Int) /\ \A i \in H0 : g[i] \in Int
    BY <2>1, <2>3
  <2>5. SumOn(f, F0) = q[k + 1].end - q[1].start - SumOn(g, H0)
    BY <1>4, <2>1
  <2>6. /\ f[j] = q[j].start - q[j - 1].end /\ g[j] = q[j].end - q[j].start
        /\ q[j].start \in Int /\ q[j].end \in Int /\ q[k + 1].end \in Int /\ q[1].start \in Int
    <3>1. 1 \in 1..n
      OBVIOUS
    <3> QED
      BY <1>0, <2>1, <3>1
  <2> HIDE DEF j, F, H, F0, H0
  <2>7. SumOn(f, F) = f[j] + SumOn(f, F0)
    <3>1. IsFiniteSet(F) /\ j \in F /\ F \ {j} = F0
      BY <2>1, <2>2
    <3>2. SumOn(f, F) = f[j] + SumOn(f, F \ {j})
      BY <2>3, <3>1, SumRemove
    <3> QED
      BY <3>1, <3>2
  <2>9. SumOn(g, H) = g[j] + SumOn(g, H0)
    <3>1. IsFiniteSet(H) /\ j \in H /\ H \ {j} = H0
      BY <2>1, <2>2
    <3>2. SumOn(g, H) = g[j] + SumOn(g, H \ {j})
      BY <2>3, <3>1, SumRemove
    <3> QED
      BY <3>1, <3>2
  <2>8. SumOn(f, F0) \in Int /\ SumOn(g, H0) \in Int
    BY <2>2, <2>4, SumType
  <2> QED
    <3>1. j - 1 = k + 1
      BY <2>1
    <3>2. f[j] = q[j].start - q[k + 1].end
      BY <2>6, <3>1
    <3> QED
      BY <2>5, <2>6, <2>7, <2>8, <2>9, <3>2
<1> HIDE DEF G
<1>5. Nat \subseteq G
  BY <1>3, <1>4, Counting
<1>6. n - 1 \in G /\ (n - 1) + 1 = n
  BY <1>5
<1> QED
  BY <1>6 DEF G

\* The gap that the model constrains is the sum of the gaps of the score.
LEMMA GapIsSum ==
    ASSUME NEW r, Solvable(r), NEW x \in SUBSET r.sections, NoConflicts(x), NEW d,
           On(MeetingsOf(x), d) # {}
    PROVE  DayGap(On(MeetingsOf(x), d)) = GapMinutes(DailySessions(x, d))
<1> DEFINE M == On(MeetingsOf(x), d)
           n == Cardinality(M)
           q == Listed(Earlier, M)
           f == [i \in 2..n |-> AtLeastZero(q[i].start - q[i - 1].end)]
           g == [i \in 1..n |-> q[i].end - q[i].start]
           mm == [m \in M |-> m.end - m.start]
           starts == {m.start : m \in M}
           ends == {m.end : m \in M}
<1>1. IsFiniteSet(M) /\ Orders(Earlier, M) /\ DailySessions(x, d) = q /\ q \in [1..n -> M]
  BY DailyList
<1>2. /\ \A m \in M : m.start \in Nat /\ m.end \in Nat /\ m.start < m.end /\ m.end <= DayEnd
      /\ \A m, k \in M : <<m, k>> \in Earlier => m.end <= k.start
  BY DayApart
<1>3. /\ \A y \in M : \E i \in 1..n : q[i] = y
      /\ \A i, j \in 1..n : i < j => <<q[i], q[j]>> \in Earlier
  BY <1>1, ListedAll, Zenon
<1>4. M # {}
  OBVIOUS
<1>5. DayGap(M) = Max(ends) - Min(starts) - MinutesOf(M)
  BY Zenon DEF DayGap
<1>6. DayEnd \in Nat
  BY PartsAssumption DEF SearchAssumption
<1>7. GapMinutes(q) = SumOn(f, 2..n)
  <2>1. Len(q) = n
    <3>1. n \in Nat
      BY <1>1, FS_CardinalityType
    <3> QED
      BY <1>1, <3>1
  <2>2. GapMinutes(q) = SumFunction([i \in 2..Len(q) |-> AtLeastZero(q[i].start - q[i - 1].end)])
    BY Zenon DEF GapMinutes, SumOver
  <2>3. f = [i \in 2..n |-> f[i]]
    OBVIOUS
  <2> HIDE DEF q, n
  <2> QED
    BY <2>1, <2>2, <2>3, Zenon DEF SumOn
<1>8. MinutesOf(M) = SumOn(mm, M)
  <2>1. [m \in M |-> m.end - m.start] = [m \in M |-> mm[m]]
    OBVIOUS
  <2> QED
    BY <2>1, Zenon DEF MinutesOf, SumOver, SumOn
<1>9. n \in Nat \ {0}
  BY <1>1, <1>4, FS_CardinalityType, FS_EmptySet
<1> HIDE DEF M, n, q
<1>10. \A i \in 1..n : q[i] \in M /\ q[i].start \in Int /\ q[i].end \in Int /\ g[i] = q[i].end - q[i].start
  BY <1>1, <1>2
<1>11. ASSUME NEW i \in 2..n PROVE f[i] = q[i].start - q[i - 1].end
  <2>1. i \in 1..n /\ i - 1 \in 1..n /\ i - 1 < i
    BY <1>9
  <2>2. q[i - 1].end <= q[i].start /\ q[i - 1].end \in Int /\ q[i].start \in Int
    BY <1>2, <1>3, <1>10, <2>1
  <2> QED
    BY <2>2 DEF AtLeastZero
<1>12. \A m \in M : mm[m] \in Int
  BY <1>2
<1>13. \A i \in 1..n : g[i] \in Int /\ g[i] = mm[q[i]]
  BY <1>10
<1> HIDE DEF f, g, mm
<1>14. SumOn(f, 2..n) = q[n].end - q[1].start - SumOn(g, 1..n)
  <2>1. Spaced(n, q, f, g)
    BY <1>10, <1>11 DEF Spaced
  <2> QED
    BY <1>9, <2>1, GapsTelescope, Zenon
<1>15. SumOn(g, 1..n) = SumOn(mm, M)
  <2>1. q \in Bijection(1..n, M)
    <3>1. \A i, j \in 1..n : i < j => q[i] # q[j]
      BY <1>1, <1>3, <1>10 DEF Orders
    <3>2. \A i, j \in 1..n : q[i] = q[j] => i = j
      BY <1>9, <3>1
    <3>3. q \in Injection(1..n, M)
      BY <1>1, <3>2 DEF Injection, IsInjective
    <3>4. q \in Surjection(1..n, M)
      BY <1>1, <1>3 DEF Surjection
    <3> QED
      BY <3>3, <3>4 DEF Bijection
  <2> DEFINE N == 1..n
  <2>2. IsFiniteSet(N)
    <3>1. 1 \in Int /\ n \in Int
      BY <1>9
    <3> QED
      BY <3>1, FS_Interval
  <2>3. q \in Bijection(N, M) /\ \A i \in N : g[i] \in Int /\ g[i] = mm[q[i]]
    BY <1>13, <2>1
  <2> HIDE DEF N
  <2>4. SumOn(g, N) = SumOn(mm, M)
    BY <2>2, <2>3, SumRenamed
  <2> QED
    BY <2>4 DEF N
<1>16. Max(ends) = q[n].end
  <2>1. ends # {} /\ ends \subseteq 0..DayEnd
    <3>1. \A m \in M : m.end \in 0..DayEnd
      BY <1>2, <1>6
    <3> QED
      BY <1>4, <3>1
  <2>2. n \in 1..n /\ q[n] \in M
    BY <1>9, <1>10
  <2>3. q[n].end \in ends
    BY <2>2
  <2>4. \A y \in ends : y <= q[n].end
    <3> SUFFICES ASSUME NEW m \in M PROVE m.end <= q[n].end
      OBVIOUS
    <3>1. PICK i \in 1..n : q[i] = m
      BY <1>3
    <3>2. i = n \/ i < n
      BY <1>9
    <3>3. i < n => m.end <= q[n].start
      BY <1>2, <1>3, <2>2, <3>1
    <3> QED
      BY <1>2, <2>2, <3>1, <3>2, <3>3
  <2> HIDE DEF ends
  <2>5. Max(ends) \in ends /\ \A y \in ends : Max(ends) >= y
    BY <1>6, <2>1, Bounded
  <2>6. Max(ends) \in Int /\ q[n].end \in Int
    <3>1. \A y \in ends : y \in Int
      BY <1>6, <2>1
    <3> QED
      BY <2>3, <2>5, <3>1
  <2> QED
    BY <2>3, <2>4, <2>5, <2>6
<1>17. Min(starts) = q[1].start
  <2>1. starts # {} /\ starts \subseteq 0..DayEnd
    <3>1. \A m \in M : m.start \in 0..DayEnd
      BY <1>2, <1>6
    <3> QED
      BY <1>4, <3>1
  <2>2. 1 \in 1..n /\ q[1] \in M
    BY <1>9, <1>10
  <2>3. q[1].start \in starts
    BY <2>2
  <2>4. \A y \in starts : y >= q[1].start
    <3> SUFFICES ASSUME NEW m \in M PROVE m.start >= q[1].start
      OBVIOUS
    <3>1. PICK i \in 1..n : q[i] = m
      BY <1>3
    <3>2. i = 1 \/ 1 < i
      BY <1>9
    <3>3. 1 < i => q[1].end <= m.start
      BY <1>2, <1>3, <2>2, <3>1
    <3> QED
      BY <1>2, <2>2, <3>1, <3>2, <3>3
  <2> HIDE DEF starts
  <2>5. Min(starts) \in starts /\ \A y \in starts : Min(starts) <= y
    BY <1>6, <2>1, Bounded
  <2>6. Min(starts) \in Int /\ q[1].start \in Int
    <3>1. \A y \in starts : y \in Int
      BY <1>6, <2>1
    <3> QED
      BY <2>3, <2>5, <3>1
  <2> QED
    BY <2>3, <2>4, <2>5, <2>6
<1> HIDE DEF starts, ends
<1>18. DayGap(M) = GapMinutes(q)
  BY <1>5, <1>7, <1>8, <1>14, <1>15, <1>16, <1>17
<1> QED
  BY <1>1, <1>18, Zenon DEF M

-----------------------------------------------------------------------------
(* The longest lunch break.                                                *)

\* A stretch of the lunch window in which no meeting of a set lies.
FreeFor(M, a, b) ==
    /\ a \in Int /\ b \in Int /\ LunchStart <= a /\ a < b /\ b <= LunchEnd
    /\ \A m \in M : m.end <= a \/ b <= m.start

\* The length of the longest one, 0 when there is none.
IsLongest(M, v) ==
    /\ v \in Nat
    /\ \A a, b \in Int : FreeFor(M, a, b) => b - a <= v
    /\ v = 0 \/ \E a, b \in Int : FreeFor(M, a, b) /\ b - a = v

\* There is one longest break.
LEMMA OneLongest ==
    ASSUME NEW M, NEW v, NEW w, IsLongest(M, v), IsLongest(M, w)
    PROVE  v = w
<1>1. v \in Nat /\ w \in Nat
  BY DEF IsLongest
<1>2. v <= w
  <2>1. CASE v = 0
    BY <1>1, <2>1
  <2>2. CASE v # 0
    <3>1. PICK a, b \in Int : FreeFor(M, a, b) /\ b - a = v
      BY <2>2 DEF IsLongest
    <3>2. b - a <= w
      BY <3>1 DEF IsLongest
    <3> QED
      BY <3>1, <3>2
  <2> QED
    BY <2>1, <2>2
<1>3. w <= v
  <2>1. CASE w = 0
    BY <1>1, <2>1
  <2>2. CASE w # 0
    <3>1. PICK a, b \in Int : FreeFor(M, a, b) /\ b - a = w
      BY <2>2 DEF IsLongest
    <3>2. b - a <= v
      BY <3>1 DEF IsLongest
    <3> QED
      BY <3>1, <3>2
  <2> QED
    BY <2>1, <2>2
<1> QED
  BY <1>1, <1>2, <1>3

\* A day's meetings in the order of time, one over before the next begins.
Ordered(n, q) ==
    /\ \A i \in 1..n : q[i].start \in Int /\ q[i].end \in Int /\ q[i].start < q[i].end
    /\ \A i, j \in 1..n : i < j => q[i].end <= q[j].start

\* What the fold over the sessions knows after k of n: nothing free is longer
\* before the cursor, and no session seen ends after it within the window.
Known(k, n, q, M, seen) ==
    /\ seen.cursor \in Int /\ LunchStart <= seen.cursor /\ seen.cursor <= LunchEnd
    /\ seen.longest \in Nat
    /\ \A i \in 1..k : q[i].end <= seen.cursor \/ seen.cursor = LunchEnd \/ LunchEnd <= q[i].start
    /\ seen.cursor = LunchStart \/ \E i \in 1..k : q[i].start < LunchEnd /\ seen.cursor <= q[i].end
    /\ \A a, b \in Int : FreeFor(M, a, b) /\ a < seen.cursor => b - a <= seen.longest
    /\ seen.longest = 0 \/ \E a, b \in Int : FreeFor(M, a, b) /\ b - a = seen.longest

\* The lunch window is long enough for the longest break that may be asked for.
LEMMA WindowIs == LunchStart \in Nat /\ LunchEnd \in Nat /\ LunchStart + 150 <= LunchEnd
  BY PartsAssumption DEF SearchAssumption

\* Before the first session the walk over the sessions knows the start of the window.
LEMMA KnownFirst ==
    ASSUME NEW n, NEW q, NEW M
    PROVE  Known(0, n, q, M, NoLunchSeen)
<1>1. NoLunchSeen.cursor = LunchStart /\ NoLunchSeen.longest = 0
  BY DEF NoLunchSeen
<1>2. \A i \in 1..0 : FALSE
  OBVIOUS
<1>3. \A a, b \in Int : FreeFor(M, a, b) => ~(a < LunchStart)
  BY WindowIs DEF FreeFor
<1> QED
  BY <1>1, <1>2, <1>3, WindowIs DEF Known

\* A session moves the walk on.
LEMMA KnownNext ==
    ASSUME NEW n \in Nat, NEW q, Ordered(n, q), NEW k \in 1..n,
           NEW seen \in [cursor : Int, longest : Int],
           NEW M, M = {q[i] : i \in 1..n},
           Known(k - 1, n, q, M, seen)
    PROVE  Known(k, n, q, M, LunchStep(seen, q[k]))
<1> DEFINE from == Max({q[k].start, LunchStart})
           to == Min({q[k].end, LunchEnd})
           c == seen.cursor
           l == seen.longest
<1>1. LunchStart \in Int /\ LunchEnd \in Int /\ LunchStart < LunchEnd
  BY WindowIs
<1>2. q[k].start \in Int /\ q[k].end \in Int /\ q[k].start < q[k].end
  BY DEF Ordered
<1>3. c \in Int /\ l \in Nat /\ LunchStart <= c /\ c <= LunchEnd
  BY DEF Known
<1>4. /\ from \in {q[k].start, LunchStart} /\ from >= q[k].start /\ from >= LunchStart
      /\ to \in {q[k].end, LunchEnd} /\ to <= q[k].end /\ to <= LunchEnd
  BY <1>1, <1>2, OfTwo
<1>5. from \in Int /\ to \in Int
  BY <1>1, <1>2, <1>4
<1>6. LunchStep(seen, q[k]) = IF from >= to THEN seen
        ELSE [cursor |-> Max({c, to}), longest |-> Max({l, from - c})]
  BY Zenon DEF LunchStep
<1>7. /\ \A i \in 1..(k - 1) : i \in 1..n /\ i \in 1..k
      /\ \A i \in 1..k : i \in 1..n /\ (i = k \/ i \in 1..(k - 1))
      /\ k \in 1..k
  OBVIOUS
<1>8. /\ \A i \in 1..(k - 1) : q[i].end <= c \/ c = LunchEnd \/ LunchEnd <= q[i].start
      /\ c = LunchStart \/ \E i \in 1..(k - 1) : q[i].start < LunchEnd /\ c <= q[i].end
      /\ \A a, b \in Int : FreeFor(M, a, b) /\ a < c => b - a <= l
      /\ l = 0 \/ \E a, b \in Int : FreeFor(M, a, b) /\ b - a = l
  BY Zenon DEF Known
<1> HIDE DEF from, to, c, l
<1>9. CASE from >= to
  <2>1. q[k].end <= LunchStart \/ LunchEnd <= q[k].start
    BY <1>1, <1>2, <1>4, <1>9
  <2>2. \A i \in 1..k : q[i].end <= c \/ c = LunchEnd \/ LunchEnd <= q[i].start
    <3> SUFFICES ASSUME NEW i \in 1..k PROVE q[i].end <= c \/ c = LunchEnd \/ LunchEnd <= q[i].start
      OBVIOUS
    <3>1. CASE i = k
      BY <1>1, <1>2, <1>3, <2>1, <3>1
    <3>2. CASE i \in 1..(k - 1)
      BY <1>8, <3>2
    <3> QED
      BY <1>7, <3>1, <3>2
  <2>3. c = LunchStart \/ \E i \in 1..k : q[i].start < LunchEnd /\ c <= q[i].end
    BY <1>7, <1>8
  <2>4. Known(k, n, q, M, seen)
    BY <1>3, <1>8, <2>2, <2>3, Zenon DEF Known, c, l
  <2> QED
    BY <1>6, <1>9, <2>4
<1>10. CASE ~(from >= to)
  <2> DEFINE next == [cursor |-> Max({c, to}), longest |-> Max({l, from - c})]
  <2>1. LunchStep(seen, q[k]) = next
    BY <1>6, <1>10, Zenon
  <2>2. from < to /\ q[k].start < LunchEnd /\ LunchStart < q[k].end /\ from < LunchEnd
    BY <1>1, <1>2, <1>4, <1>5, <1>10
  <2>3. c <= from
    <3>1. CASE c = LunchStart
      BY <1>1, <1>4, <1>5, <3>1
    <3>2. CASE \E i \in 1..(k - 1) : q[i].start < LunchEnd /\ c <= q[i].end
      <4>1. PICK i \in 1..(k - 1) : c <= q[i].end
        BY <3>2
      <4>2. q[i].end <= q[k].start /\ q[i].end \in Int
        BY <1>7 DEF Ordered
      <4> QED
        BY <1>2, <1>3, <1>4, <1>5, <4>1, <4>2
    <3> QED
      BY <1>8, <3>1, <3>2
  <2>4. Max({c, to}) \in {c, to} /\ Max({c, to}) >= c /\ Max({c, to}) >= to
    BY <1>3, <1>5, OfTwo
  <2>5. Max({c, to}) = to
    BY <1>3, <1>5, <2>2, <2>3, <2>4
  <2>6. from - c \in Int
    BY <1>3, <1>5
  <2>7. Max({l, from - c}) \in {l, from - c} /\ Max({l, from - c}) >= l /\ Max({l, from - c}) >= from - c
    <3>1. l \in Int
      BY <1>3
    <3> QED
      BY <2>6, <3>1, OfTwo, Zenon
  <2> DEFINE v == Max({l, from - c})
  <2>8. next = [cursor |-> to, longest |-> v]
    BY <2>5, Zenon
  <2>9. next.cursor = to /\ next.longest = v
    BY <2>8
  <2> HIDE DEF v, next
  <2>10. v \in Nat /\ v >= l /\ v >= from - c /\ (v = l \/ v = from - c)
    BY <1>3, <2>6, <2>7 DEF v
  <2>11. LunchStart <= to /\ to <= LunchEnd /\ to <= q[k].end
    BY <1>1, <1>4, <1>5, <2>2
  <2>12. \A i \in 1..k : q[i].end <= to \/ to = LunchEnd \/ LunchEnd <= q[i].start
    <3> SUFFICES ASSUME NEW i \in 1..k PROVE q[i].end <= to \/ to = LunchEnd \/ LunchEnd <= q[i].start
      OBVIOUS
    <3>1. CASE i = k
      BY <1>1, <1>2, <1>4, <3>1
    <3>2. CASE i \in 1..(k - 1)
      <4>1. q[i].end \in Int
        BY <1>7 DEF Ordered
      <4> QED
        BY <1>1, <1>3, <1>5, <1>8, <2>2, <2>3, <3>2, <4>1
    <3> QED
      BY <1>7, <3>1, <3>2
  <2>13. \E i \in 1..k : q[i].start < LunchEnd /\ to <= q[i].end
    BY <1>7, <2>2, <2>11
  <2>14. ASSUME NEW a \in Int, NEW b \in Int, FreeFor(M, a, b), a < to PROVE b - a <= v
    <3>1. CASE a < c
      <4>1. b - a <= l
        BY <1>8, <2>14, <3>1
      <4> QED
        BY <1>3, <2>10, <4>1
    <3>2. CASE ~(a < c)
      <4>1. q[k] \in M
        OBVIOUS
      <4>2. q[k].end <= a \/ b <= q[k].start
        BY <2>14, <4>1 DEF FreeFor
      <4>3. b <= from
        BY <1>2, <1>4, <1>5, <2>11, <2>14, <4>2
      <4> QED
        BY <1>3, <1>5, <2>10, <3>2, <4>3
    <3> QED
      BY <3>1, <3>2
  <2>15. v = 0 \/ \E a, b \in Int : FreeFor(M, a, b) /\ b - a = v
    <3>1. CASE v = l
      BY <1>8, <3>1
    <3>2. CASE v = from - c /\ from - c > 0
      <4>1. from = q[k].start
        BY <1>1, <1>3, <1>4, <3>2
      <4>2. ASSUME NEW m \in M PROVE m.end <= c \/ from <= m.start
        <5>1. PICK i \in 1..n : m = q[i]
          OBVIOUS
        <5>2. q[i].start \in Int /\ q[i].end \in Int
          BY DEF Ordered
        <5>3. CASE i \in 1..(k - 1)
          <6>1. q[i].end <= c \/ c = LunchEnd \/ LunchEnd <= q[i].start
            BY <1>8, <5>3
          <6> QED
            BY <1>1, <1>3, <1>5, <2>2, <2>3, <5>1, <5>2, <6>1
        <5>4. CASE i = k
          BY <1>2, <4>1, <5>1, <5>4
        <5>5. CASE k < i
          <6>1. q[k].end <= q[i].start
            BY <5>5 DEF Ordered
          <6> QED
            BY <1>2, <4>1, <5>1, <5>2, <6>1
        <5>6. i \in 1..(k - 1) \/ i = k \/ k < i
          OBVIOUS
        <5> QED
          BY <5>3, <5>4, <5>5, <5>6
      <4>3. LunchStart <= c /\ c < from /\ from <= LunchEnd
        BY <1>1, <1>3, <1>5, <2>2, <3>2
      <4>4. FreeFor(M, c, from)
        BY <1>3, <1>5, <4>2, <4>3 DEF FreeFor
      <4> QED
        BY <1>3, <1>5, <3>2, <4>4
    <3>3. CASE v = from - c /\ ~(from - c > 0)
      BY <2>6, <2>10, <3>3
    <3> QED
      BY <2>10, <3>1, <3>2, <3>3
  <2>16. Known(k, n, q, M, next)
    BY <1>5, <2>9, <2>10, <2>11, <2>12, <2>13, <2>14, <2>15 DEF Known
  <2> QED
    BY <2>1, <2>16
<1> QED
  BY <1>9, <1>10

\* The fold finds the longest break.
LEMMA FoldIsLongest ==
    ASSUME NEW n \in Nat, NEW q, DOMAIN q = 1..n, Ordered(n, q)
    PROVE  IsLongest({q[i] : i \in 1..n}, LongestLunchBreak(q))
<1> DEFINE M == {q[i] : i \in 1..n}
<1>1. \A i \in 1..n : q[i].start \in Int /\ q[i].end \in Int
  BY DEF Ordered
<1>2. PICK seen : SeenBy(seen, n, q)
  BY <1>1, LunchSteps
<1> DEFINE G == {k \in Nat : k <= n => Known(k, n, q, M, seen[k])}
<1>3. 0 \in G
  <2>1. seen[0] = NoLunchSeen
    BY <1>2 DEF SeenBy
  <2>2. Known(0, n, q, M, NoLunchSeen)
    BY KnownFirst
  <2> QED
    BY <2>1, <2>2
<1>4. ASSUME NEW k \in Nat, k \in G PROVE k + 1 \in G
  <2> DEFINE j == k + 1
  <2>0. j \in Nat
    OBVIOUS
  <2> SUFFICES ASSUME j <= n PROVE Known(j, n, q, M, seen[j])
    BY <2>0, Zenon
  <2>1. j \in 1..n /\ j - 1 = k /\ k \in 0..n /\ k <= n
    OBVIOUS
  <2>2. Known(k, n, q, M, seen[k])
    BY <1>4, <2>1
  <2>3. seen[j] = LunchStep(seen[j - 1], q[j]) /\ seen[k] \in [cursor : Int, longest : Int]
    BY <1>2, <2>1 DEF SeenBy
  <2>4. seen[j] = LunchStep(seen[k], q[j]) /\ Known(j - 1, n, q, M, seen[k])
    BY <2>1, <2>2, <2>3
  <2>5. M = {q[i] : i \in 1..n}
    OBVIOUS
  <2> HIDE DEF j, M
  <2>6. Known(j, n, q, M, LunchStep(seen[k], q[j]))
    BY <2>1, <2>3, <2>4, <2>5, KnownNext
  <2> QED
    BY <2>4, <2>6
<1>5. Known(n, n, q, M, seen[n])
  <2> HIDE DEF G
  <2>1. Nat \subseteq G
    BY <1>3, <1>4, Counting
  <2>2. n \in G
    BY <2>1
  <2> QED
    BY <2>2 DEF G
<1> DEFINE c == seen[n].cursor
           l == seen[n].longest
           v == LongestLunchBreak(q)
<1>6. v = Max({l, LunchEnd - c})
  BY <1>2 DEF SeenBy
<1>7. /\ c \in Int /\ l \in Nat /\ LunchStart <= c /\ c <= LunchEnd
      /\ \A i \in 1..n : q[i].end <= c \/ c = LunchEnd \/ LunchEnd <= q[i].start
      /\ \A a, b \in Int : FreeFor(M, a, b) /\ a < c => b - a <= l
      /\ l = 0 \/ \E a, b \in Int : FreeFor(M, a, b) /\ b - a = l
  BY <1>5, Zenon DEF Known
<1>8. LunchEnd \in Int /\ LunchStart \in Int
  BY WindowIs
<1> HIDE DEF M, c, l, v
<1>9. v \in {l, LunchEnd - c} /\ v >= l /\ v >= LunchEnd - c
  <2>1. LunchEnd - c \in Int /\ l \in Int
    BY <1>7, <1>8
  <2> QED
    BY <1>6, <2>1, OfTwo
<1>10. v \in Nat
  BY <1>7, <1>8, <1>9
<1>11. ASSUME NEW a \in Int, NEW b \in Int, FreeFor(M, a, b) PROVE b - a <= v
  <2>1. a < c => b - a <= l
    BY <1>7, <1>11
  <2>2. b <= LunchEnd
    BY <1>11 DEF FreeFor
  <2> QED
    BY <1>7, <1>8, <1>9, <1>10, <2>1, <2>2
<1>12. v = 0 \/ \E a, b \in Int : FreeFor(M, a, b) /\ b - a = v
  <2>1. CASE v = l
    BY <1>7, <2>1
  <2>2. CASE v = LunchEnd - c /\ c < LunchEnd
    <3>1. \A i \in 1..n : q[i].end <= c \/ LunchEnd <= q[i].start
      BY <1>7, <1>8, <2>2
    <3>2. \A m \in M : m.end <= c \/ LunchEnd <= m.start
      BY <3>1 DEF M
    <3>3. FreeFor(M, c, LunchEnd)
      BY <1>7, <1>8, <2>2, <3>2 DEF FreeFor
    <3> QED
      BY <1>7, <1>8, <2>2, <3>3
  <2>3. CASE v = LunchEnd - c /\ ~(c < LunchEnd)
    BY <1>7, <1>8, <2>3
  <2> QED
    BY <1>9, <2>1, <2>2, <2>3
<1>13. IsLongest(M, v)
  BY <1>10, <1>11, <1>12 DEF IsLongest
<1> QED
  BY <1>13 DEF M, v

\* The longest lunch break of a day is the longest free stretch of the window.
LEMMA DailyBreak ==
    ASSUME NEW r, Solvable(r), NEW x \in SUBSET r.sections, NoConflicts(x), NEW d
    PROVE  IsLongest(On(MeetingsOf(x), d), LongestLunchBreak(DailySessions(x, d)))
<1> DEFINE M == On(MeetingsOf(x), d)
           n == Cardinality(M)
           q == Listed(Earlier, M)
<1>1. IsFiniteSet(M) /\ Orders(Earlier, M) /\ DailySessions(x, d) = q /\ q \in [1..n -> M]
  BY DailyList
<1>2. /\ \A m \in M : m.start \in Nat /\ m.end \in Nat /\ m.start < m.end /\ m.end <= DayEnd
      /\ \A m, k \in M : <<m, k>> \in Earlier => m.end <= k.start
  BY DayApart
<1>3. /\ \A y \in M : \E i \in 1..n : q[i] = y
      /\ \A i, j \in 1..n : i < j => <<q[i], q[j]>> \in Earlier
  BY <1>1, ListedAll, Zenon
<1>4. n \in Nat
  BY <1>1, FS_CardinalityType
<1> HIDE DEF M, n, q
<1>5. DOMAIN q = 1..n /\ \A i \in 1..n : q[i] \in M
  BY <1>1
<1>6. Ordered(n, q)
  <2>1. \A i \in 1..n : q[i].start \in Int /\ q[i].end \in Int /\ q[i].start < q[i].end
    BY <1>2, <1>5
  <2>2. ASSUME NEW i \in 1..n, NEW j \in 1..n, i < j PROVE q[i].end <= q[j].start
    <3>1. q[i] \in M /\ q[j] \in M /\ <<q[i], q[j]>> \in Earlier
      BY <1>3, <1>5, <2>2
    <3> QED
      BY <1>2, <3>1
  <2> QED
    BY <2>1, <2>2 DEF Ordered
<1>7. {q[i] : i \in 1..n} = M
  BY <1>3, <1>5
<1>8. IsLongest({q[i] : i \in 1..n}, LongestLunchBreak(q))
  BY <1>4, <1>5, <1>6, FoldIsLongest
<1>9. IsLongest(M, LongestLunchBreak(q))
  BY <1>7, <1>8
<1> QED
  BY <1>1, <1>9, Zenon DEF M

\* The breaks before a merged meeting, after it, and between two of them.
BreakBefore(e, i) == [need |-> {i}, block |-> 1..(i - 1), gap |-> e[i].start - LunchStart]
BreakAfter(e, n, i) == [need |-> {i}, block |-> (i + 1)..n, gap |-> LunchEnd - e[i].end]
BreakBetween(e, i, j) == [need |-> {i, j}, block |-> (i + 1)..(j - 1), gap |-> e[j].start - e[i].end]

IsBreak(e, n, g) ==
    \/ \E i \in 1..n : g = BreakBefore(e, i)
    \/ \E i \in 1..n : g = BreakAfter(e, n, i)
    \/ \E i, j \in 1..n : i < j /\ g = BreakBetween(e, i, j) /\ g.gap > 0

\* What the literals of a day without a meeting, and of its breaks, are worth.
Worth(e, n, on, V) ==
    \A y : y \in V <=>
        \/ y = IF \A i \in 1..n : on[i] = 0 THEN LunchEnd - LunchStart ELSE 0
        \/ \E g : IsBreak(e, n, g) /\ y = IF Walked(on, g) THEN g.gap ELSE 0

\* The n merged meetings of a day, of which those that are on do not overlap,
\* and are what lies within the lunch window.
Merged(e, n, on, M) ==
    /\ \A i \in 1..n : /\ e[i].start \in Int /\ e[i].end \in Int /\ on[i] \in {0, 1}
                       /\ LunchStart <= e[i].start /\ e[i].start < e[i].end /\ e[i].end <= LunchEnd
    /\ \A i, j \in 1..n : i < j /\ on[i] = 1 /\ on[j] = 1 => e[i].end <= e[j].start
    /\ \A a, b \in Int : FreeFor(M, a, b) <=>
          /\ LunchStart <= a /\ a < b /\ b <= LunchEnd
          /\ \A i \in 1..n : on[i] = 1 => e[i].end <= a \/ b <= e[i].start

\* Each of those values is a break, or 0.
LEMMA WorthIsBreak ==
    ASSUME NEW n \in Nat, NEW e, NEW on, NEW M, Merged(e, n, on, M), NEW V, Worth(e, n, on, V),
           NEW y \in V
    PROVE  /\ y \in 0..(LunchEnd - LunchStart)
           /\ y = 0 \/ \E a, b \in Int : FreeFor(M, a, b) /\ b - a = y
<1>1. LunchStart \in Int /\ LunchEnd \in Int /\ LunchStart < LunchEnd
  BY WindowIs
<1>2. \A i \in 1..n : /\ e[i].start \in Int /\ e[i].end \in Int /\ on[i] \in {0, 1}
                      /\ LunchStart <= e[i].start /\ e[i].start < e[i].end /\ e[i].end <= LunchEnd
  BY DEF Merged
<1>3. \A i, j \in 1..n : i < j /\ on[i] = 1 /\ on[j] = 1 => e[i].end <= e[j].start
  BY DEF Merged
<1>4. ASSUME NEW a \in Int, NEW b \in Int, LunchStart <= a, a < b, b <= LunchEnd,
             \A i \in 1..n : on[i] = 1 => e[i].end <= a \/ b <= e[i].start,
             y = b - a
      PROVE  /\ y \in 0..(LunchEnd - LunchStart)
             /\ y = 0 \/ \E v, w \in Int : FreeFor(M, v, w) /\ w - v = y
  <2>1. FreeFor(M, a, b)
    BY <1>4 DEF Merged
  <2>2. y \in 0..(LunchEnd - LunchStart)
    BY <1>1, <1>4
  <2> QED
    BY <1>4, <2>1, <2>2
<1>5. CASE y = 0
  BY <1>1, <1>5
<1>6. CASE y # 0 /\ y = IF \A i \in 1..n : on[i] = 0 THEN LunchEnd - LunchStart ELSE 0
  <2>1. (\A i \in 1..n : on[i] = 0) /\ y = LunchEnd - LunchStart
    BY <1>6
  <2>2. \A i \in 1..n : on[i] = 1 => e[i].end <= LunchStart \/ LunchEnd <= e[i].start
    BY <2>1
  <2> QED
    BY <1>1, <1>4, <2>1, <2>2
<1>7. ASSUME NEW g, IsBreak(e, n, g), y # 0, y = IF Walked(on, g) THEN g.gap ELSE 0
      PROVE  /\ y \in 0..(LunchEnd - LunchStart)
             /\ y = 0 \/ \E a, b \in Int : FreeFor(M, a, b) /\ b - a = y
  <2>1. Walked(on, g) /\ y = g.gap
    BY <1>7
  <2>2. ASSUME NEW i \in 1..n, g = BreakBefore(e, i)
        PROVE  /\ y \in 0..(LunchEnd - LunchStart)
               /\ y = 0 \/ \E a, b \in Int : FreeFor(M, a, b) /\ b - a = y
    <3>1. g.need = {i} /\ g.block = 1..(i - 1) /\ g.gap = e[i].start - LunchStart
      BY <2>2 DEF BreakBefore
    <3>2. on[i] = 1 /\ \A k \in 1..(i - 1) : on[k] = 0
      BY <2>1, <3>1 DEF Walked
    <3>3. \A k \in 1..n : on[k] = 1 => e[k].end <= LunchStart \/ e[i].start <= e[k].start
      <4> SUFFICES ASSUME NEW k \in 1..n, on[k] = 1 PROVE e[i].start <= e[k].start
        OBVIOUS
      <4>1. k = i \/ i < k
        BY <3>2
      <4>2. i < k => e[i].end <= e[k].start
        BY <1>3, <3>2
      <4> QED
        BY <1>2, <4>1, <4>2
    <3>4. LunchStart < e[i].start
      BY <1>1, <1>2, <1>7, <2>1, <3>1
    <3>5. e[i].start \in Int /\ e[i].start <= LunchEnd
      BY <1>1, <1>2
    <3>6. LunchStart <= LunchStart
      BY <1>1
    <3> QED
      BY <1>1, <1>4, <2>1, <3>1, <3>3, <3>4, <3>5, <3>6
  <2>3. ASSUME NEW i \in 1..n, g = BreakAfter(e, n, i)
        PROVE  /\ y \in 0..(LunchEnd - LunchStart)
               /\ y = 0 \/ \E a, b \in Int : FreeFor(M, a, b) /\ b - a = y
    <3>1. g.need = {i} /\ g.block = (i + 1)..n /\ g.gap = LunchEnd - e[i].end
      BY <2>3 DEF BreakAfter
    <3>2. on[i] = 1 /\ \A k \in (i + 1)..n : on[k] = 0
      BY <2>1, <3>1 DEF Walked
    <3>3. \A k \in 1..n : on[k] = 1 => e[k].end <= e[i].end \/ LunchEnd <= e[k].start
      <4> SUFFICES ASSUME NEW k \in 1..n, on[k] = 1 PROVE e[k].end <= e[i].end
        OBVIOUS
      <4>1. k = i \/ k < i
        BY <3>2
      <4>2. k < i => e[k].end <= e[i].start
        BY <1>3, <3>2
      <4> QED
        BY <1>2, <4>1, <4>2
    <3>4. e[i].end < LunchEnd
      BY <1>1, <1>2, <1>7, <2>1, <3>1
    <3>5. e[i].end \in Int /\ LunchStart <= e[i].end
      BY <1>1, <1>2
    <3>6. LunchEnd <= LunchEnd
      BY <1>1
    <3> QED
      BY <1>1, <1>4, <2>1, <3>1, <3>3, <3>4, <3>5, <3>6
  <2>4. ASSUME NEW i \in 1..n, NEW j \in 1..n, i < j, g = BreakBetween(e, i, j), g.gap > 0
        PROVE  /\ y \in 0..(LunchEnd - LunchStart)
               /\ y = 0 \/ \E a, b \in Int : FreeFor(M, a, b) /\ b - a = y
    <3>1. g.need = {i, j} /\ g.block = (i + 1)..(j - 1) /\ g.gap = e[j].start - e[i].end
      BY <2>4 DEF BreakBetween
    <3>2. on[i] = 1 /\ on[j] = 1 /\ \A k \in (i + 1)..(j - 1) : on[k] = 0
      BY <2>1, <3>1 DEF Walked
    <3>3. \A k \in 1..n : on[k] = 1 => e[k].end <= e[i].end \/ e[j].start <= e[k].start
      <4> SUFFICES ASSUME NEW k \in 1..n, on[k] = 1 PROVE e[k].end <= e[i].end \/ e[j].start <= e[k].start
        OBVIOUS
      <4>1. k = i \/ k < i \/ k = j \/ j < k
        BY <3>2
      <4>2. k < i => e[k].end <= e[i].start
        BY <1>3, <3>2
      <4>3. j < k => e[j].end <= e[k].start
        BY <1>3, <3>2
      <4>4. e[k].end \in Int /\ e[k].start \in Int
        BY <1>2
      <4> QED
        BY <1>2, <4>1, <4>2, <4>3, <4>4
    <3>4. e[i].end < e[j].start
      BY <1>2, <2>4, <3>1
    <3>5. e[i].end \in Int /\ e[j].start \in Int /\ LunchStart <= e[i].end /\ e[j].start <= LunchEnd
      BY <1>1, <1>2
    <3> QED
      BY <1>1, <1>4, <2>1, <3>1, <3>3, <3>4, <3>5
  <2> QED
    BY <1>7, <2>2, <2>3, <2>4 DEF IsBreak
<1> QED
  BY <1>5, <1>6, <1>7 DEF Worth

\* And no break is longer than all of them.
LEMMA BreakIsWorth ==
    ASSUME NEW n \in Nat, NEW e, NEW on, NEW M, Merged(e, n, on, M), NEW V, Worth(e, n, on, V),
           NEW a \in Int, NEW b \in Int, FreeFor(M, a, b)
    PROVE  \E y \in V : y \in Int /\ b - a <= y
<1>1. LunchStart \in Int /\ LunchEnd \in Int /\ LunchStart < LunchEnd
  BY WindowIs
<1>2. \A i \in 1..n : /\ e[i].start \in Int /\ e[i].end \in Int /\ on[i] \in {0, 1}
                      /\ LunchStart <= e[i].start /\ e[i].start < e[i].end /\ e[i].end <= LunchEnd
  BY DEF Merged
<1>3. \A i, j \in 1..n : i < j /\ on[i] = 1 /\ on[j] = 1 => e[i].end <= e[j].start
  BY DEF Merged
<1>4. /\ LunchStart <= a /\ a < b /\ b <= LunchEnd
      /\ \A i \in 1..n : on[i] = 1 => e[i].end <= a \/ b <= e[i].start
  BY DEF Merged
<1> DEFINE before == {i \in 1..n : on[i] = 1 /\ e[i].end <= a}
           after == {i \in 1..n : on[i] = 1 /\ b <= e[i].start}
<1>5. before \subseteq 0..n /\ after \subseteq 0..n /\ before \subseteq 1..n /\ after \subseteq 1..n
  OBVIOUS
<1>6. \A i \in 1..n : on[i] = 1 => i \in before \/ i \in after
  BY <1>4
<1>7. \A i \in before : on[i] = 1 /\ e[i].end <= a
  OBVIOUS
<1>8. \A i \in after : on[i] = 1 /\ b <= e[i].start
  OBVIOUS
<1>9. ASSUME NEW g, IsBreak(e, n, g), Walked(on, g) PROVE g.gap \in V
  BY <1>9 DEF Worth
<1> HIDE DEF before, after
<1>10. CASE before = {} /\ after = {}
  <2>1. \A i \in 1..n : on[i] = 0
    BY <1>2, <1>6, <1>10
  <2>2. LunchEnd - LunchStart \in V
    BY <2>1 DEF Worth
  <2> QED
    BY <1>1, <1>4, <2>2
<1>11. CASE before = {} /\ after # {}
  <2> DEFINE i == Min(after)
  <2>1. i \in after /\ \A k \in after : i <= k
    BY <1>5, <1>11, Bounded
  <2> HIDE DEF i
  <2>2. i \in 1..n
    BY <1>5, <2>1
  <2> DEFINE g == BreakBefore(e, i)
  <2>3. g.need = {i} /\ g.block = 1..(i - 1) /\ g.gap = e[i].start - LunchStart
    BY DEF BreakBefore
  <2>4. \A k \in 1..(i - 1) : on[k] = 0
    <3> SUFFICES ASSUME NEW k \in 1..(i - 1) PROVE on[k] = 0
      OBVIOUS
    <3>1. k \in 1..n /\ k < i /\ ~(i <= k)
      BY <2>2
    <3> QED
      BY <1>2, <1>6, <1>11, <2>1, <3>1
  <2>5. IsBreak(e, n, g)
    BY <2>2 DEF IsBreak
  <2> HIDE DEF g
  <2>6. Walked(on, g)
    BY <1>8, <2>1, <2>3, <2>4 DEF Walked
  <2>7. g.gap \in V
    BY <1>9, <2>5, <2>6
  <2>8. g.gap \in Int /\ b - a <= g.gap
    BY <1>1, <1>2, <1>4, <1>8, <2>1, <2>2, <2>3
  <2> QED
    BY <2>7, <2>8
<1>12. CASE before # {} /\ after = {}
  <2> DEFINE i == Max(before)
  <2>1. i \in before /\ \A k \in before : i >= k
    BY <1>5, <1>12, Bounded
  <2> HIDE DEF i
  <2>2. i \in 1..n
    BY <1>5, <2>1
  <2> DEFINE g == BreakAfter(e, n, i)
  <2>3. g.need = {i} /\ g.block = (i + 1)..n /\ g.gap = LunchEnd - e[i].end
    BY DEF BreakAfter
  <2>4. \A k \in (i + 1)..n : on[k] = 0
    <3> SUFFICES ASSUME NEW k \in (i + 1)..n PROVE on[k] = 0
      OBVIOUS
    <3>1. k \in 1..n /\ i < k /\ ~(i >= k)
      BY <2>2
    <3> QED
      BY <1>2, <1>6, <1>12, <2>1, <3>1
  <2>5. IsBreak(e, n, g)
    BY <2>2 DEF IsBreak
  <2> HIDE DEF g
  <2>6. Walked(on, g)
    BY <1>7, <2>1, <2>3, <2>4 DEF Walked
  <2>7. g.gap \in V
    BY <1>9, <2>5, <2>6
  <2>8. g.gap \in Int /\ b - a <= g.gap
    BY <1>1, <1>2, <1>4, <1>7, <2>1, <2>2, <2>3
  <2> QED
    BY <2>7, <2>8
<1>13. CASE before # {} /\ after # {}
  <2> DEFINE i == Max(before)
             j == Min(after)
  <2>1. i \in before /\ \A k \in before : i >= k
    BY <1>5, <1>13, Bounded
  <2>2. j \in after /\ \A k \in after : j <= k
    BY <1>5, <1>13, Bounded
  <2> HIDE DEF i, j
  <2>3. i \in 1..n /\ j \in 1..n /\ on[i] = 1 /\ on[j] = 1 /\ e[i].end <= a /\ b <= e[j].start
    BY <1>5, <1>7, <1>8, <2>1, <2>2
  <2>4. e[i].end < e[j].start
    BY <1>2, <1>4, <2>3
  <2>5. i < j
    <3>1. ~(j < i)
      <4>1. j < i => e[j].end <= e[i].start
        BY <1>3, <2>3
      <4> QED
        BY <1>2, <2>3, <2>4, <4>1
    <3>2. i # j
      BY <1>2, <2>3, <2>4
    <3> QED
      BY <2>3, <3>1, <3>2
  <2> DEFINE g == BreakBetween(e, i, j)
  <2>6. g.need = {i, j} /\ g.block = (i + 1)..(j - 1) /\ g.gap = e[j].start - e[i].end
    BY DEF BreakBetween
  <2>7. \A k \in (i + 1)..(j - 1) : on[k] = 0
    <3> SUFFICES ASSUME NEW k \in (i + 1)..(j - 1) PROVE on[k] = 0
      OBVIOUS
    <3>1. k \in 1..n /\ ~(i >= k) /\ ~(j <= k)
      BY <2>3
    <3>2. k \notin before /\ k \notin after
      BY <2>1, <2>2, <3>1
    <3> QED
      BY <1>2, <1>6, <3>1, <3>2
  <2>8. g.gap > 0 /\ g.gap \in Int /\ b - a <= g.gap
    BY <1>2, <1>4, <2>3, <2>4, <2>6
  <2>9. IsBreak(e, n, g)
    BY <2>3, <2>5, <2>8 DEF IsBreak
  <2> HIDE DEF g
  <2>10. Walked(on, g)
    BY <2>3, <2>6, <2>7 DEF Walked
  <2>11. g.gap \in V
    BY <1>9, <2>9, <2>10
  <2> QED
    BY <2>8, <2>11
<1> QED
  BY <1>10, <1>11, <1>12, <1>13

\* So the literals give the longest break.
LEMMA WorthIsLongest ==
    ASSUME NEW n \in Nat, NEW e, NEW on, NEW M, Merged(e, n, on, M), NEW V, Worth(e, n, on, V)
    PROVE  IsLongest(M, Max(V))
<1> DEFINE top == LunchEnd - LunchStart
<1>1. top \in Nat
  BY WindowIs
<1>2. V # {}
  BY DEF Worth
<1>3. V \subseteq 0..top
  BY WorthIsBreak
<1>4. \A y \in V : y = 0 \/ \E a, b \in Int : FreeFor(M, a, b) /\ b - a = y
  BY WorthIsBreak
<1>5. \A a, b \in Int : FreeFor(M, a, b) => \E y \in V : y \in Int /\ b - a <= y
  BY BreakIsWorth
<1> HIDE DEF top
<1>6. Max(V) \in V /\ \A y \in V : Max(V) >= y
  BY <1>1, <1>2, <1>3, Bounded
<1> DEFINE v == Max(V)
<1> HIDE DEF v
<1>7. v \in V /\ \A y \in V : v >= y
  BY <1>6 DEF v
<1>8. \A y \in V : y \in Nat
  BY <1>1, <1>3
<1>9. ASSUME NEW a \in Int, NEW b \in Int, FreeFor(M, a, b) PROVE b - a <= v
  BY <1>5, <1>7, <1>8, <1>9
<1>10. IsLongest(M, v)
  BY <1>4, <1>7, <1>8, <1>9 DEF IsLongest
<1> QED
  BY <1>10 DEF v

\* Of a meeting, only its part within the window matters to a lunch break.
LEMMA PartCuts ==
    ASSUME NEW m, m.start \in Int, m.end \in Int, m.start < m.end
    PROVE  /\ Part(m).start \in Int /\ Part(m).end \in Int
           /\ LunchStart <= Part(m).start /\ Part(m).end <= LunchEnd
           /\ m.start <= Part(m).start /\ Part(m).end <= m.end
           /\ \A a, b \in Int : LunchStart <= a /\ a < b /\ b <= LunchEnd =>
                 ((m.end <= a \/ b <= m.start)
                  <=> (Part(m).start < Part(m).end => Part(m).end <= a \/ b <= Part(m).start))
<1> DEFINE s == Max({m.start, LunchStart})
           t == Min({m.end, LunchEnd})
<1>1. LunchStart \in Int /\ LunchEnd \in Int /\ LunchStart < LunchEnd
  BY WindowIs
<1>2. /\ s \in {m.start, LunchStart} /\ s >= m.start /\ s >= LunchStart
      /\ t \in {m.end, LunchEnd} /\ t <= m.end /\ t <= LunchEnd
  BY <1>1, OfTwo
<1>3. Part(m) = [start |-> s, end |-> t]
  BY Zenon DEF Part
<1> HIDE DEF s, t
<1>4. Part(m).start = s /\ Part(m).end = t
  BY <1>3
<1>5. s \in Int /\ t \in Int
  BY <1>1, <1>2
<1>6. ASSUME NEW a \in Int, NEW b \in Int, LunchStart <= a, a < b, b <= LunchEnd
      PROVE  (m.end <= a \/ b <= m.start) <=> (s < t => t <= a \/ b <= s)
  BY <1>1, <1>2, <1>5, <1>6
<1> QED
  BY <1>1, <1>2, <1>4, <1>5, <1>6

\* The merged meetings come in order.
LEMMA LunchEventsListed ==
    ASSUME NEW r, Solvable(r), NEW d
    PROVE  LET P == Parts(r, d)
               e == Listed(Sooner, P)
           IN  /\ LunchEvents(r, d) = e /\ e \in [1..Cardinality(P) -> P]
               /\ \A y \in P : \E i \in 1..Cardinality(P) : e[i] = y
               /\ \A i, j \in 1..Cardinality(P) : i < j => <<e[i], e[j]>> \in Sooner
               /\ Cardinality(P) \in Nat /\ Len(LunchEvents(r, d)) = Cardinality(P)
<1> DEFINE S == Parts(r, d)
           e == Listed(Sooner, S)
           n == Cardinality(S)
           Nth(x) == Cardinality({y \in S : y.start < x.start \/ (y.start = x.start /\ y.end < x.end)})
<1>1. LunchEvents(r, d) = [i \in 1..n |-> CHOOSE x \in S : Nth(x) = i - 1]
  BY Zenon DEF LunchEvents, InOrder, Parts, Part
<1>2. IsFiniteSet(S) /\ Orders(Sooner, S) /\ S \subseteq [start : Int, end : Int]
  BY FiniteParts
<1>3. /\ e \in [1..n -> S]
      /\ \A y \in S : \E i \in 1..n : e[i] = y
      /\ \A i, j \in 1..n : i < j => <<e[i], e[j]>> \in Sooner
  BY <1>2, ListedAll, Zenon
<1>4. n \in Nat
  BY <1>2, FS_CardinalityType
<1>5. LunchEvents(r, d) = e
  <2>1. \A x \in S : {y \in S : y.start < x.start \/ (y.start = x.start /\ y.end < x.end)} = Before(Sooner, S, x)
    BY <1>2 DEF Sooner, Before
  <2>2. \A x \in S : Nth(x) = Cardinality(Before(Sooner, S, x))
    BY <2>1
  <2> HIDE DEF Nth, S
  <2>3. \A i \in 1..n : (CHOOSE x \in S : Nth(x) = i - 1) = CHOOSE x \in S : Cardinality(Before(Sooner, S, x)) = i - 1
    <3> SUFFICES ASSUME NEW i \in 1..n
        PROVE (CHOOSE x \in S : Nth(x) = i - 1) = CHOOSE x \in S : Cardinality(Before(Sooner, S, x)) = i - 1
      OBVIOUS
    <3>1. \A x : (x \in S /\ Nth(x) = i - 1) <=> (x \in S /\ Cardinality(Before(Sooner, S, x)) = i - 1)
      BY <2>2
    <3> QED
      BY <3>1, Zenon
  <2>4. e = [i \in 1..n |-> CHOOSE x \in S : Cardinality(Before(Sooner, S, x)) = i - 1]
    BY Zenon DEF Listed
  <2> QED
    BY <1>1, <2>3, <2>4, Zenon
<1> HIDE DEF S, e, n
<1>6. Len(e) = n
  BY <1>3, <1>4
<1>7. Len(LunchEvents(r, d)) = n
  BY <1>5, <1>6
<1> QED
  BY <1>3, <1>4, <1>5, <1>7, Zenon DEF S, e, n

\* A merged meeting is on when the selection has a meeting with that part.
LEMMA LunchActiveIs ==
    ASSUME NEW r, Solvable(r), r.lunch > 0, NEW x \in SUBSET r.sections, NoConflicts(x), NEW d,
           NEW i \in DOMAIN LunchEvents(r, d)
    PROVE  /\ LunchActive(r, x, d)[i] \in {0, 1}
           /\ LunchActive(r, x, d)[i] = 1
                <=> \E m \in On(MeetingsOf(x), d) : Part(m) = LunchEvents(r, d)[i]
<1> DEFINE e == LunchEvents(r, d)[i]
           S == InLunchEvent(r, d, e)
           C == S \cap x
<1>1. e \in [start : Int, end : Int]
  BY LunchEventIsPart, FiniteParts
<1>2. \A s : s \in S <=> \E p \in Meetings(r, d) : s = p[1] /\ Part(p[2]) = e
  <2>1. \A s : s \in S <=> \E p \in Meetings(r, d) : /\ Max({p[2].start, LunchStart}) = e.start
                                                     /\ Min({p[2].end, LunchEnd}) = e.end /\ s = p[1]
    BY DEF InLunchEvent
  <2>2. \A p \in Meetings(r, d) : Part(p[2]) = [start |-> Max({p[2].start, LunchStart}),
                                                end |-> Min({p[2].end, LunchEnd})]
    BY Zenon DEF Part
  <2>3. e = [start |-> e.start, end |-> e.end]
    BY <1>1
  <2>4. \A p \in Meetings(r, d) : Part(p[2]) = e <=> /\ Max({p[2].start, LunchStart}) = e.start
                                                     /\ Min({p[2].end, LunchEnd}) = e.end
    <3> SUFFICES ASSUME NEW p \in Meetings(r, d)
        PROVE Part(p[2]) = e <=> Max({p[2].start, LunchStart}) = e.start /\ Min({p[2].end, LunchEnd}) = e.end
      OBVIOUS
    <3> DEFINE u == Max({p[2].start, LunchStart})
               v == Min({p[2].end, LunchEnd})
    <3>1. Part(p[2]) = [start |-> u, end |-> v]
      BY <2>2
    <3> HIDE DEF u, v, e
    <3>2. Part(p[2]) = e <=> u = e.start /\ v = e.end
      BY <2>3, <3>1
    <3> QED
      BY <3>2, Zenon DEF u, v
  <2> HIDE DEF e, S
  <2> QED
    BY <2>1, <2>4
<1>3. LunchActive(r, x, d)[i] = Chosen(x, S)
  BY Zenon DEF LunchActive
<1>4. LunchActive(r, x, d)[i] <= 1
  <2>1. EventsAreBoolean(r, x)
    BY EventsExcludeNothing
  <2>2. i \in DOMAIN LunchEvents(r, d)
    OBVIOUS
  <2>3. d \in DaysOf(r)
    <3>1. PICK p \in Meetings(r, d) : TRUE
      BY LunchEventIsPart DEF Parts
    <3>2. p[1] \in r.sections /\ p[2] \in p[1].sessions /\ p[2].day = d
      BY <3>1, PartOf
    <3> QED
      BY <3>2, SectionsMeet
  <2> QED
    BY <2>1, <2>3 DEF EventsAreBoolean
<1>5. S \in SUBSET r.sections
  BY <1>2, PartOf
<1>6. IsFiniteSet(S) /\ IsFiniteSet(C)
  BY <1>5, FiniteSelections, FS_Subset
<1>7. Chosen(x, S) = Cardinality(C)
  BY <1>6, ChosenIsCount
<1>8. Cardinality(C) \in Nat /\ (Cardinality(C) = 0 <=> C = {})
  BY <1>6, FS_CardinalityType, FS_EmptySet
<1>9. C # {} <=> \E m \in On(MeetingsOf(x), d) : Part(m) = e
  <2>1. \A m : m \in On(MeetingsOf(x), d) <=> \E p \in Meetings(r, d) : p[1] \in x /\ p[2] = m
    BY MeetingsOnDay
  <2> HIDE DEF e, S
  <2> QED
    BY <1>2, <2>1
<1> HIDE DEF C, S
<1> QED
  BY <1>3, <1>4, <1>7, <1>8, <1>9

\* The merged meetings that are on are what the day's meetings take of the window.
LEMMA LunchMerged ==
    ASSUME NEW r, Solvable(r), r.lunch > 0, NEW x \in SUBSET r.sections, NoConflicts(x), NEW d
    PROVE  Merged(LunchEvents(r, d), Cardinality(Parts(r, d)), LunchActive(r, x, d), On(MeetingsOf(x), d))
<1> DEFINE M == On(MeetingsOf(x), d)
           P == Parts(r, d)
           n == Cardinality(P)
           e == LunchEvents(r, d)
           on == LunchActive(r, x, d)
<1>1. /\ e \in [1..n -> P]
      /\ \A y \in P : \E i \in 1..n : e[i] = y
      /\ \A i, j \in 1..n : i < j => <<e[i], e[j]>> \in Sooner
      /\ n \in Nat
  BY LunchEventsListed
<1>2. \A m \in M : m.start \in Int /\ m.end \in Int /\ m.start < m.end
  BY DayApart
<1>3. ASSUME NEW m \in M, NEW k \in M, m # k PROVE m.end <= k.start \/ k.end <= m.start
  <2>1. Orders(Earlier, M)
    BY DailyList
  <2>2. <<m, k>> \in Earlier \/ <<k, m>> \in Earlier
    BY <1>3, <2>1 DEF Orders
  <2> QED
    BY <2>2, DayApart
<1>4. \A i \in 1..n : on[i] \in {0, 1} /\ (on[i] = 1 <=> \E m \in M : Part(m) = e[i])
  <2>1. DOMAIN e = 1..n
    BY <1>1
  <2> QED
    BY <2>1, LunchActiveIs, Zenon
<1>5. \A m \in M : Part(m).start < Part(m).end => Part(m) \in P
  <2> SUFFICES ASSUME NEW m \in M, Part(m).start < Part(m).end PROVE Part(m) \in P
    OBVIOUS
  <2>1. PICK p \in Meetings(r, d) : p[2] = m
    BY MeetingsOnDay
  <2> QED
    BY <2>1 DEF Parts
<1>6. \A y \in P : y.start < y.end /\ \E p \in Meetings(r, d) : y = Part(p[2])
  BY DEF Parts
<1>7. LunchStart \in Int /\ LunchEnd \in Int
  BY WindowIs
<1>8. ASSUME NEW y \in P
      PROVE  /\ y.start \in Int /\ y.end \in Int /\ y.start < y.end
             /\ LunchStart <= y.start /\ y.end <= LunchEnd
  <2>1. PICK p \in Meetings(r, d) : y = Part(p[2])
    BY <1>6
  <2>2. p[2].start \in Int /\ p[2].end \in Int /\ p[2].start < p[2].end
    BY PartOf, SectionsMeet
  <2> QED
    BY <1>6, <2>1, <2>2, PartCuts
<1> HIDE DEF M, P, n, e, on
<1>9. \A i \in 1..n : e[i] \in P
  BY <1>1
<1>10. \A i \in 1..n : /\ e[i].start \in Int /\ e[i].end \in Int /\ on[i] \in {0, 1}
                       /\ LunchStart <= e[i].start /\ e[i].start < e[i].end /\ e[i].end <= LunchEnd
  BY <1>4, <1>8, <1>9
<1>11. ASSUME NEW i \in 1..n, NEW j \in 1..n, i < j, on[i] = 1, on[j] = 1 PROVE e[i].end <= e[j].start
  <2>1. PICK m \in M : Part(m) = e[i]
    BY <1>4, <1>11
  <2>2. PICK k \in M : Part(k) = e[j]
    BY <1>4, <1>11
  <2>3. <<e[i], e[j]>> \in Sooner
    BY <1>1, <1>11
  <2>4. e[i].start < e[j].start \/ (e[i].start = e[j].start /\ e[i].end < e[j].end)
    BY <2>3 DEF Sooner
  <2>5. m # k
    BY <1>10, <2>1, <2>2, <2>4
  <2>6. m.end <= k.start \/ k.end <= m.start
    BY <1>3, <2>5
  <2>7. /\ e[i].start >= m.start /\ e[i].end <= m.end
        /\ e[j].start >= k.start /\ e[j].end <= k.end
    BY <1>2, <2>1, <2>2, PartCuts
  <2> QED
    BY <1>2, <1>10, <2>4, <2>6, <2>7
<1>12. ASSUME NEW a \in Int, NEW b \in Int, LunchStart <= a, a < b, b <= LunchEnd
       PROVE  (\A m \in M : m.end <= a \/ b <= m.start)
              <=> \A i \in 1..n : on[i] = 1 => e[i].end <= a \/ b <= e[i].start
  <2>1. \A m \in M : (m.end <= a \/ b <= m.start)
                       <=> (Part(m).start < Part(m).end => Part(m).end <= a \/ b <= Part(m).start)
    BY <1>2, <1>12, PartCuts
  <2>2. ASSUME \A m \in M : m.end <= a \/ b <= m.start, NEW i \in 1..n, on[i] = 1
        PROVE  e[i].end <= a \/ b <= e[i].start
    <3>1. PICK m \in M : Part(m) = e[i]
      BY <1>4, <2>2
    <3> QED
      BY <1>10, <2>1, <2>2, <3>1
  <2>3. ASSUME \A i \in 1..n : on[i] = 1 => e[i].end <= a \/ b <= e[i].start, NEW m \in M
        PROVE  m.end <= a \/ b <= m.start
    <3> SUFFICES ASSUME Part(m).start < Part(m).end PROVE Part(m).end <= a \/ b <= Part(m).start
      BY <2>1
    <3>1. PICK i \in 1..n : e[i] = Part(m)
      BY <1>1, <1>5
    <3>2. on[i] = 1
      BY <1>4, <3>1
    <3> QED
      BY <2>3, <3>1, <3>2
  <2> QED
    BY <2>2, <2>3
<1>13. \A a, b \in Int : FreeFor(M, a, b) <=>
          /\ LunchStart <= a /\ a < b /\ b <= LunchEnd
          /\ \A i \in 1..n : on[i] = 1 => e[i].end <= a \/ b <= e[i].start
  BY <1>12 DEF FreeFor
<1>14. Merged(e, n, on, M)
  BY <1>10, <1>11, <1>13 DEF Merged
<1> QED
  BY <1>14, Zenon DEF M, P, n, e, on

\* The literals are those of the breaks.
LEMMA LunchGapsAre ==
    ASSUME NEW r, Solvable(r), NEW d
    PROVE  \A g : g \in LunchGaps(r, d) <=> IsBreak(LunchEvents(r, d), Cardinality(Parts(r, d)), g)
<1> DEFINE e == LunchEvents(r, d)
           n == Len(e)
           first == {[need |-> {i}, block |-> 1..(i - 1), gap |-> e[i].start - LunchStart] : i \in 1..n}
           last == {[need |-> {i}, block |-> (i + 1)..n, gap |-> LunchEnd - e[i].end] : i \in 1..n}
           pairs == {ij \in (1..n) \X (1..n) : ij[1] < ij[2]}
           between == {[need |-> {p[1], p[2]}, block |-> (p[1] + 1)..(p[2] - 1),
                        gap |-> e[p[2]].start - e[p[1]].end] : p \in pairs}
<1>1. LunchGaps(r, d) = first \cup last \cup {g \in between : g.gap > 0}
  BY Zenon DEF LunchGaps
<1>2. n = Cardinality(Parts(r, d))
  BY LunchEventsListed
<1> HIDE DEF e, n
<1>3. \A g : g \in first <=> \E i \in 1..n : g = BreakBefore(e, i)
  BY DEF BreakBefore
<1>4. \A g : g \in last <=> \E i \in 1..n : g = BreakAfter(e, n, i)
  BY DEF BreakAfter
<1>5. \A g : g \in between <=> \E i, j \in 1..n : i < j /\ g = BreakBetween(e, i, j)
  <2>1. ASSUME NEW g \in between PROVE \E i, j \in 1..n : i < j /\ g = BreakBetween(e, i, j)
    <3>1. PICK p \in pairs : g = [need |-> {p[1], p[2]}, block |-> (p[1] + 1)..(p[2] - 1),
                                  gap |-> e[p[2]].start - e[p[1]].end]
      BY <2>1
    <3>2. p[1] \in 1..n /\ p[2] \in 1..n /\ p[1] < p[2]
      OBVIOUS
    <3> QED
      BY <3>1, <3>2 DEF BreakBetween
  <2>2. ASSUME NEW i \in 1..n, NEW j \in 1..n, i < j PROVE BreakBetween(e, i, j) \in between
    <3> DEFINE p == <<i, j>>
    <3>1. p[1] = i /\ p[2] = j /\ p \in pairs
      BY <2>2
    <3> HIDE DEF p, pairs
    <3>2. BreakBetween(e, i, j) = [need |-> {p[1], p[2]}, block |-> (p[1] + 1)..(p[2] - 1),
                                   gap |-> e[p[2]].start - e[p[1]].end]
      BY <3>1 DEF BreakBetween
    <3> QED
      BY <3>1, <3>2
  <2> QED
    BY <2>1, <2>2
<1> HIDE DEF first, last, between
<1>6. \A g : g \in LunchGaps(r, d) <=> IsBreak(e, n, g)
  BY <1>1, <1>3, <1>4, <1>5 DEF IsBreak
<1> QED
  BY <1>2, <1>6, Zenon DEF e

\* The break that the literals of a day stand for is the longest one.
LEMMA LiteralsAreLongest ==
    ASSUME NEW r, Solvable(r), r.lunch > 0, NEW x \in SUBSET r.sections, NoConflicts(x), NEW d
    PROVE  IsLongest(On(MeetingsOf(x), d), LongestBreak(r, x, d))
<1> DEFINE e == LunchEvents(r, d)
           n == Cardinality(Parts(r, d))
           on == LunchActive(r, x, d)
           gaps == LunchGaps(r, d)
           M == On(MeetingsOf(x), d)
           free == (LunchEnd - LunchStart) * Bit(\A i \in DOMAIN on : on[i] = 0)
           V == {free} \cup {g.gap * Max(Literal(on, g.need, g.block)) : g \in gaps}
<1>1. LongestBreak(r, x, d) = Max(V)
  BY Zenon DEF LongestBreak
<1>2. Merged(e, n, on, M)
  BY LunchMerged
<1>3. DOMAIN on = 1..n /\ n \in Nat
  <2>1. DOMAIN e = 1..n
    BY LunchEventIsPart
  <2>2. DOMAIN on = DOMAIN e
    BY DEF LunchActive
  <2>3. n \in Nat
    BY LunchEventsListed
  <2> QED
    BY <2>1, <2>2, <2>3
<1>4. \A g : g \in gaps <=> IsBreak(e, n, g)
  BY LunchGapsAre
<1>5. LunchStart \in Int /\ LunchEnd \in Int
  BY WindowIs
<1>6. free = IF \A i \in 1..n : on[i] = 0 THEN LunchEnd - LunchStart ELSE 0
  <2> DEFINE none == \A i \in 1..n : on[i] = 0
  <2>1. free = (LunchEnd - LunchStart) * Bit(none)
    BY <1>3
  <2>2. CASE none
    BY <1>5, <2>1, <2>2 DEF Bit
  <2>3. CASE ~none
    BY <1>5, <2>1, <2>3 DEF Bit
  <2> QED
    BY <2>2, <2>3
<1> HIDE DEF e, n, on, gaps, M, free
<1>7. \A i \in 1..n : on[i] \in {0, 1} /\ e[i].start \in Int /\ e[i].end \in Int
  BY <1>2 DEF Merged
<1>8. ASSUME NEW g \in gaps
      PROVE  g.gap * Max(Literal(on, g.need, g.block)) = IF Walked(on, g) THEN g.gap ELSE 0
  <2>1. g.need \subseteq 1..n /\ g.block \subseteq 1..n /\ g.gap \in Int
    <3>1. ASSUME NEW i \in 1..n, g = BreakBefore(e, i)
          PROVE  g.need \subseteq 1..n /\ g.block \subseteq 1..n /\ g.gap \in Int
      BY <1>3, <1>5, <1>7, <3>1 DEF BreakBefore
    <3>2. ASSUME NEW i \in 1..n, g = BreakAfter(e, n, i)
          PROVE  g.need \subseteq 1..n /\ g.block \subseteq 1..n /\ g.gap \in Int
      BY <1>3, <1>5, <1>7, <3>2 DEF BreakAfter
    <3>3. ASSUME NEW i \in 1..n, NEW j \in 1..n, g = BreakBetween(e, i, j)
          PROVE  g.need \subseteq 1..n /\ g.block \subseteq 1..n /\ g.gap \in Int
      BY <1>3, <1>5, <1>7, <3>3 DEF BreakBetween
    <3> QED
      BY <1>4, <3>1, <3>2, <3>3 DEF IsBreak
  <2>2. IsFiniteSet(1..n)
    BY <1>3, FS_Interval
  <2>3. IsFiniteSet(g.need) /\ IsFiniteSet(g.block)
    BY <2>1, <2>2, FS_Subset
  <2>4. \A i \in g.need \cup g.block : on[i] \in {0, 1}
    BY <1>7, <2>1
  <2>5. Max(Literal(on, g.need, g.block)) = IF Walked(on, g) THEN 1 ELSE 0
    BY <2>3, <2>4, LiteralValue, Zenon DEF Walked
  <2> QED
    BY <2>1, <2>5
<1>9. \A y : y \in V <=> \/ y = IF \A i \in 1..n : on[i] = 0 THEN LunchEnd - LunchStart ELSE 0
                         \/ \E g : IsBreak(e, n, g) /\ y = IF Walked(on, g) THEN g.gap ELSE 0
  <2>1. \A y : y \in V <=> y = free \/ \E g \in gaps : y = g.gap * Max(Literal(on, g.need, g.block))
    OBVIOUS
  <2>2. \A y : y \in V <=> y = free \/ \E g \in gaps : y = IF Walked(on, g) THEN g.gap ELSE 0
    BY <1>8, <2>1
  <2> HIDE DEF V
  <2> QED
    BY <1>4, <1>6, <2>2
<1>10. Worth(e, n, on, V)
  BY <1>9, Zenon DEF Worth
<1> HIDE DEF V
<1>11. IsLongest(M, Max(V))
  BY <1>2, <1>3, <1>10, WorthIsLongest
<1> QED
  BY <1>1, <1>11, Zenon DEF M

\* What is missing of the lunch break, as the score counts it.
LEMMA ShortageAgrees ==
    ASSUME NEW r, Solvable(r), r.lunch > 0, NEW x \in SUBSET r.sections, NoConflicts(x), NEW d
    PROVE  LunchShortage(r, x, d) = AtLeastZero(r.lunch - LongestLunchBreak(DailySessions(x, d)))
<1> DEFINE M == On(MeetingsOf(x), d)
           v == LongestLunchBreak(DailySessions(x, d))
           w == LongestBreak(r, x, d)
<1>1. IsLongest(M, v)
  BY DailyBreak
<1>2. IsLongest(M, w)
  BY LiteralsAreLongest
<1>3. v = w
  BY <1>1, <1>2, OneLongest
<1>4. v \in Nat
  BY <1>1 DEF IsLongest
<1>5. r.lunch \in Nat /\ r.lunch <= 150
  BY DEF Solvable, WellFormed, WellFormedPreferences
<1>6. CASE LunchEvents(r, d) = << >>
  <2>1. Cardinality(Parts(r, d)) = 0
    <3>1. Len(LunchEvents(r, d)) = 0
      BY <1>6
    <3> QED
      BY <3>1, LunchEventsListed
  <2>2. Merged(LunchEvents(r, d), Cardinality(Parts(r, d)), LunchActive(r, x, d), M)
    BY LunchMerged
  <2>3. FreeFor(M, LunchStart, LunchEnd)
    BY <2>1, <2>2, WindowIs DEF Merged
  <2>4. LunchEnd - LunchStart <= v
    BY <1>1, <2>3, WindowIs DEF IsLongest
  <2>5. AtLeastZero(r.lunch - v) = 0
    BY <1>4, <1>5, <2>4, WindowIs DEF AtLeastZero
  <2>6. LunchShortage(r, x, d) = 0
    BY <1>6 DEF LunchShortage
  <2> QED
    BY <2>5, <2>6
<1>7. CASE LunchEvents(r, d) # << >>
  <2>1. LunchShortage(r, x, d) = Max({r.lunch - w, 0})
    BY <1>7, Zenon DEF LunchShortage
  <2> HIDE DEF v, w
  <2>2. r.lunch - w \in Int
    BY <1>3, <1>4, <1>5
  <2>3. /\ Max({r.lunch - w, 0}) \in {r.lunch - w, 0}
        /\ Max({r.lunch - w, 0}) >= r.lunch - w /\ Max({r.lunch - w, 0}) >= 0
    <3>1. \A a \in Int : Max({a, 0}) \in {a, 0} /\ Max({a, 0}) >= a /\ Max({a, 0}) >= 0
      BY OfTwo
    <3> QED
      BY <2>2, <3>1
  <2>4. Max({r.lunch - w, 0}) = AtLeastZero(r.lunch - v)
    BY <1>3, <2>2, <2>3 DEF AtLeastZero
  <2>5. LunchShortage(r, x, d) = AtLeastZero(r.lunch - v)
    BY <2>1, <2>4
  <2> QED
    BY <2>5 DEF v
<1> QED
  BY <1>6, <1>7

\* A day without a meeting has a lunch break as long as anyone may ask for.
LEMMA NoMeetingNoShortage ==
    ASSUME NEW r, Solvable(r), r.lunch > 0, NEW x \in SUBSET r.sections, NoConflicts(x), NEW d,
           On(MeetingsOf(x), d) = {}
    PROVE  LunchShortage(r, x, d) = 0
<1> DEFINE M == On(MeetingsOf(x), d)
           v == LongestLunchBreak(DailySessions(x, d))
<1>1. IsLongest(M, v)
  BY DailyBreak
<1>2. FreeFor(M, LunchStart, LunchEnd)
  BY WindowIs DEF FreeFor
<1>3. v \in Nat /\ LunchEnd - LunchStart <= v
  BY <1>1, <1>2, WindowIs DEF IsLongest
<1>4. r.lunch \in Nat /\ r.lunch <= 150
  BY DEF Solvable, WellFormed, WellFormedPreferences
<1> HIDE DEF v
<1>5. AtLeastZero(r.lunch - v) = 0
  BY <1>3, <1>4, WindowIs DEF AtLeastZero
<1> QED
  BY <1>5, ShortageAgrees DEF v

\* The free stretches between points where something begins or ends.
PointsOf(M) ==
    {t \in {LunchStart, LunchEnd} \cup {m.start : m \in M} \cup {m.end : m \in M} :
        LunchStart <= t /\ t <= LunchEnd}
Stretches(M) ==
    {ab \in PointsOf(M) \X PointsOf(M) : ab[1] <= ab[2] /\ \A m \in M : m.end <= ab[1] \/ ab[2] <= m.start}

\* One of them is the longest of all.
LEMMA StretchIsLongest ==
    ASSUME NEW M, \A m \in M : m.start \in Nat /\ m.end \in Nat
    PROVE  IsLongest(M, Max({0} \cup {ab[2] - ab[1] : ab \in Stretches(M)}))
<1> DEFINE P == PointsOf(M)
           F == Stretches(M)
           V == {0} \cup {ab[2] - ab[1] : ab \in F}
           top == LunchEnd - LunchStart
<1>1. LunchStart \in Nat /\ LunchEnd \in Nat /\ LunchStart < LunchEnd /\ top \in Nat
  BY WindowIs
<1>2. P \subseteq LunchStart..LunchEnd /\ LunchStart \in P /\ LunchEnd \in P
  BY <1>1 DEF PointsOf
<1>3. \A m \in M : /\ LunchStart <= m.end /\ m.end <= LunchEnd => m.end \in P
                   /\ LunchStart <= m.start /\ m.start <= LunchEnd => m.start \in P
  BY DEF PointsOf
<1>4. \A ab : ab \in F <=> /\ ab \in P \X P /\ ab[1] <= ab[2]
                           /\ \A m \in M : m.end <= ab[1] \/ ab[2] <= m.start
  BY DEF Stretches
<1> HIDE DEF P, F, top
<1>5. \A ab \in F : ab[1] \in LunchStart..LunchEnd /\ ab[2] \in LunchStart..LunchEnd /\ ab[1] <= ab[2]
  <2> SUFFICES ASSUME NEW ab \in F
      PROVE ab[1] \in LunchStart..LunchEnd /\ ab[2] \in LunchStart..LunchEnd /\ ab[1] <= ab[2]
    OBVIOUS
  <2>1. ab \in P \X P /\ ab[1] <= ab[2]
    BY <1>4
  <2>2. ab[1] \in P /\ ab[2] \in P
    BY <2>1
  <2> QED
    BY <1>2, <2>1, <2>2
<1>6. V \subseteq 0..top /\ V # {}
  <2>1. \A ab \in F : ab[2] - ab[1] \in 0..top
    BY <1>1, <1>5 DEF top
  <2> QED
    BY <1>1, <2>1
<1>7. \A y \in V : y = 0 \/ \E a, b \in Int : FreeFor(M, a, b) /\ b - a = y
  <2> SUFFICES ASSUME NEW ab \in F, ab[2] - ab[1] # 0
      PROVE \E a, b \in Int : FreeFor(M, a, b) /\ b - a = ab[2] - ab[1]
    OBVIOUS
  <2> DEFINE a == ab[1]
             b == ab[2]
  <2>1. a \in LunchStart..LunchEnd /\ b \in LunchStart..LunchEnd /\ a <= b /\ b - a # 0
    BY <1>5
  <2>2. \A m \in M : m.end <= a \/ b <= m.start
    BY <1>4
  <2> HIDE DEF a, b
  <2>3. FreeFor(M, a, b)
    BY <1>1, <2>1, <2>2 DEF FreeFor
  <2>4. a \in Int /\ b \in Int
    BY <1>1, <2>1
  <2> QED
    BY <2>3, <2>4 DEF a, b
<1>8. ASSUME NEW a \in Int, NEW b \in Int, FreeFor(M, a, b) PROVE \E y \in V : y \in Int /\ b - a <= y
  <2>1. LunchStart <= a /\ a < b /\ b <= LunchEnd /\ \A m \in M : m.end <= a \/ b <= m.start
    BY <1>8 DEF FreeFor
  <2> DEFINE L == {t \in P : t <= a}
             U == {t \in P : b <= t}
             l == Max(L)
             u == Min(U)
  <2>2. L # {} /\ L \subseteq 0..LunchEnd /\ U # {} /\ U \subseteq 0..LunchEnd
    <3>1. \A t \in P : t \in 0..LunchEnd
      BY <1>1, <1>2
    <3>2. L \subseteq 0..LunchEnd /\ U \subseteq 0..LunchEnd
      BY <3>1
    <3>3. LunchStart \in L /\ LunchEnd \in U
      BY <1>2, <2>1
    <3> QED
      BY <3>2, <3>3
  <2>3. l \in L /\ \A t \in L : l >= t
    <3> HIDE DEF L
    <3> QED
      BY <1>1, <2>2, Bounded
  <2>4. u \in U /\ \A t \in U : u <= t
    <3> HIDE DEF U
    <3> QED
      BY <1>1, <2>2, Bounded
  <2> HIDE DEF l, u
  <2>5. l \in P /\ u \in P /\ l <= a /\ b <= u
    BY <2>3, <2>4
  <2>6. l \in Int /\ u \in Int /\ LunchStart <= l /\ u <= LunchEnd
    BY <1>1, <1>2, <2>5
  <2>7. ASSUME NEW m \in M PROVE m.end <= l \/ u <= m.start
    <3>1. m.start \in Nat /\ m.end \in Nat
      OBVIOUS
    <3>2. CASE m.end <= a
      <4>1. CASE LunchStart <= m.end
        <5>1. m.end \in L
          BY <1>1, <1>3, <2>1, <3>1, <3>2, <4>1
        <5> QED
          BY <2>3, <2>6, <3>1, <5>1
      <4>2. CASE ~(LunchStart <= m.end)
        BY <1>1, <2>6, <3>1, <4>2
      <4> QED
        BY <4>1, <4>2
    <3>3. CASE b <= m.start
      <4>1. CASE m.start <= LunchEnd
        <5>1. m.start \in U
          BY <1>1, <1>3, <2>1, <3>1, <3>3, <4>1
        <5> QED
          BY <2>4, <2>6, <3>1, <5>1
      <4>2. CASE ~(m.start <= LunchEnd)
        BY <1>1, <2>6, <3>1, <4>2
      <4> QED
        BY <4>1, <4>2
    <3> QED
      BY <2>1, <3>2, <3>3
  <2> DEFINE ab == <<l, u>>
  <2>8. ab[1] = l /\ ab[2] = u /\ ab \in P \X P
    BY <2>5
  <2> HIDE DEF ab, L, U
  <2>9. ab \in F
    BY <1>4, <2>1, <2>5, <2>6, <2>7, <2>8
  <2>10. u - l \in V
    BY <2>8, <2>9
  <2>11. b - a <= u - l
    BY <2>5, <2>6
  <2> QED
    BY <2>6, <2>10, <2>11
<1> HIDE DEF V
<1> DEFINE v == Max(V)
<1>9. v \in V /\ \A y \in V : v >= y
  BY <1>1, <1>6, Bounded
<1> HIDE DEF v
<1>10. \A y \in V : y \in Nat
  BY <1>1, <1>6
<1>11. ASSUME NEW a \in Int, NEW b \in Int, FreeFor(M, a, b) PROVE b - a <= v
  BY <1>8, <1>9, <1>10, <1>11
<1>12. IsLongest(M, v)
  BY <1>7, <1>9, <1>10, <1>11 DEF IsLongest
<1> QED
  BY <1>12, Zenon DEF v, V, F

\* What the score takes for the longest lunch break of a day is one.
LEMMA LunchBreaksLongest ==
    ASSUME NEW r, Solvable(r), NEW S \in SUBSET r.sections, NoConflicts(S), NEW d
    PROVE  BreakIsLongest(S, d)
<1> DEFINE M == On(MeetingsOf(S), d)
           v == LongestLunchBreak(DailySessions(S, d))
           w == Max({0} \cup {ab[2] - ab[1] : ab \in Stretches(M)})
<1>1. IsLongest(M, v)
  BY DailyBreak
<1>2. \A m \in M : m.start \in Nat /\ m.end \in Nat
  BY DayApart
<1> HIDE DEF M
<1>3. IsLongest(M, w)
  BY <1>2, StretchIsLongest
<1> HIDE DEF v, w
<1>4. v = w
  BY <1>1, <1>3, OneLongest
<1> QED
  BY <1>4, Zenon DEF BreakIsLongest, v, w, M, Stretches, PointsOf

-----------------------------------------------------------------------------
(* The terms of a day.                                                     *)

\* What is added up over the optional meetings of a day that are present.
LEMMA PresentSum ==
    ASSUME NEW r, Solvable(r), NEW x \in SUBSET r.sections, NoConflicts(x), NEW d,
           NEW g, \A m \in On(MeetingsOf(x), d) : g[m] \in Int,
           NEW f, \A p \in Meetings(r, d) : f[p] = IF p[1] \in x THEN g[p[2]] ELSE 0
    PROVE  SumOn(f, Meetings(r, d)) = SumOn(g, On(MeetingsOf(x), d))
<1> DEFINE P == Meetings(r, d)
           Q == {p \in P : p[1] \in x}
           M == On(MeetingsOf(x), d)
           h == [p \in Q |-> p[2]]
<1>1. M = {p[2] : p \in Q}
  BY MeetingsOnDay
<1>2. \A p \in P : p[1] \in r.sections /\ p[2] \in p[1].sessions
  BY DEF Meetings
<1>3. \A p \in P : f[p] \in Int /\ (p \notin Q => f[p] = 0)
  <2> SUFFICES ASSUME NEW p \in P PROVE f[p] \in Int /\ (p \notin Q => f[p] = 0)
    OBVIOUS
  <2>1. CASE p \in Q
    <3>1. p[2] \in M
      BY <1>1, <2>1
    <3> QED
      BY <2>1, <3>1
  <2>2. CASE p \notin Q
    BY <2>2
  <2> QED
    BY <2>1, <2>2
<1>4. \A p \in Q : f[p] = g[h[p]]
  OBVIOUS
<1>5. h \in Bijection(Q, M)
  <2>1. ASSUME NEW p \in Q, NEW q \in Q, p[2] = q[2] PROVE p = q
    <3>1. Overlap(p[2], p[2])
      BY <1>2, SectionsMeet
    <3>2. p[1] = q[1]
      BY <1>2, <2>1, <3>1 DEF NoConflicts, Conflict
    <3> QED
      BY <2>1, <3>2 DEF Meetings
  <2>2. h \in Injection(Q, M)
    BY <1>1, <2>1 DEF Injection, IsInjective
  <2>3. h \in Surjection(Q, M)
    BY <1>1 DEF Surjection
  <2> QED
    BY <2>2, <2>3 DEF Bijection
<1>6. IsFiniteSet(P) /\ IsFiniteSet(Q)
  BY FiniteMeetings, FS_Subset
<1>7. Q \in SUBSET P
  OBVIOUS
<1> HIDE DEF P, Q, M, h
<1>8. SumOn(f, P) = SumOn(f, Q)
  BY <1>3, <1>6, <1>7, SumRestrict
<1>9. SumOn(f, Q) = SumOn(g, M)
  BY <1>3, <1>4, <1>5, <1>6, <1>7, SumRenamed
<1> QED
  BY <1>8, <1>9 DEF P, M

\* What is measured of a day is a number.
LEMMA DayMeasures ==
    ASSUME NEW r, Solvable(r), NEW x \in SUBSET r.sections, NEW d
    PROVE  LET M == On(MeetingsOf(x), d)
           IN  /\ IsFiniteSet(M) /\ MinutesOf(M) \in Int
               /\ GapMinutes(DailySessions(x, d)) \in Int
               /\ MovementTransitions(DailySessions(x, d)) \in Int
               /\ LongestLunchBreak(DailySessions(x, d)) \in Int
<1> DEFINE M == On(MeetingsOf(x), d)
           n == Cardinality(M)
           f == [m \in M |-> m.end - m.start]
<1>1. IsFiniteSet(M) /\ M \subseteq Session /\ DailySessions(x, d) \in [1..n -> M]
  BY DailyList
<1>2. n \in Nat
  BY <1>1, FS_CardinalityType
<1>3. MinutesOf(M) = SumFunction(f)
  BY Zenon DEF MinutesOf, SumOver
<1> HIDE DEF M, n
<1>4. f = [m \in M |-> f[m]] /\ \A m \in M : f[m] \in Int
  BY <1>1 DEF Session
<1> HIDE DEF f
<1>5. MinutesOf(M) \in Int
  BY <1>1, <1>3, <1>4, SumTyped
<1>6. DailySessions(x, d) \in [1..n -> Session]
  BY <1>1
<1>7. /\ GapMinutes(DailySessions(x, d)) \in Int /\ MovementTransitions(DailySessions(x, d)) \in Int
      /\ LongestLunchBreak(DailySessions(x, d)) \in Int
  BY <1>2, <1>6, MeasuresTyped
<1> QED
  BY <1>1, <1>5, <1>7, Zenon DEF M

\* The soft constraints on the time of each meeting.
TimesOf(r, M) ==
    [m \in M |-> Early(r, m) * r.weights.early + Late(r, m) * r.weights.late
                 + (IF m.day \in r.avoidedDays THEN r.weights.avoided ELSE 0)]

\* The soft constraints on the times of a meeting are numbers.
LEMMA TimesTyped ==
    ASSUME NEW r, Solvable(r), NEW x \in SUBSET r.sections, NEW m \in MeetingsOf(x)
    PROVE  Early(r, m) \in Int /\ Late(r, m) \in Int /\ TimesOf(r, MeetingsOf(x))[m] \in Int
<1>1. /\ None \notin Nat /\ DayEnd \in Nat
      /\ (r.earliest # None => r.earliest \in Int) /\ (r.latest # None => r.latest \in Int)
  BY PartsAssumption DEF SearchAssumption, Solvable, WellFormed, WellFormedPreferences
<1>2. m.start \in Int /\ m.end \in Int
  BY SectionsMeet DEF MeetingsOf
<1>3. Early(r, m) \in Int /\ Late(r, m) \in Int
  BY <1>1, <1>2 DEF Early, Late, AtLeastZero
<1>4. r.weights.early \in Int /\ r.weights.late \in Int /\ r.weights.avoided \in Int
  BY WeightsTyped
<1>5. Early(r, m) * r.weights.early \in Int /\ Late(r, m) * r.weights.late \in Int
  BY <1>3, <1>4
<1> QED
  BY <1>3, <1>4, <1>5 DEF TimesOf

\* What a day exceeds the longest one asked for by.
Overflow(r, x, d) ==
    IF r.maxDaily = None THEN 0 ELSE AtLeastZero(MinutesOf(On(MeetingsOf(x), d)) - r.maxDaily)
Shortage(r, x, d) ==
    IF r.lunch = 0 THEN 0 ELSE AtLeastZero(r.lunch - LongestLunchBreak(DailySessions(x, d)))

\* The terms of a day, in the measures of the score.
LEMMA DayTermsAre ==
    ASSUME NEW r, Solvable(r), NEW x \in SUBSET r.sections, NoConflicts(x), NEW d
    PROVE  LET w == r.weights
           IN  DayTerms(r, x, d) =
                 PercentBase *
                   (Bit(DayActive(r, x, d)) * (w.campusDay + (IF d \in r.daysOff THEN w.dayOff ELSE 0))
                    + SumOn(TimesOf(r, MeetingsOf(x)), On(MeetingsOf(x), d))
                    + Overflow(r, x, d) * w.overflow + Shortage(r, x, d) * w.lunch
                    + MovementTransitions(DailySessions(x, d)) * w.movement)
                 + DayGapMinutes(r, x, d) * w.gap * r.gapPercent
<1> DEFINE w == r.weights
           P == Meetings(r, d)
           M == MeetingsOf(x)
           f == [p \in P |-> Val(x, p[1]) *
                   (Early(r, p[2]) * w.early + Late(r, p[2]) * w.late
                    + (IF d \in r.avoidedDays THEN w.avoided ELSE 0))]
           active == Bit(DayActive(r, x, d)) * (w.campusDay + (IF d \in r.daysOff THEN w.dayOff ELSE 0))
           times == SumOver(P, LAMBDA p : Val(x, p[1]) *
                       (Early(r, p[2]) * w.early + Late(r, p[2]) * w.late
                        + (IF d \in r.avoidedDays THEN w.avoided ELSE 0)))
           over == IF r.maxDaily = None THEN 0 ELSE Max({Duration(r, x, d) - r.maxDaily, 0}) * w.overflow
           short == IF r.lunch = 0 THEN 0 ELSE LunchShortage(r, x, d) * w.lunch
           moves == MovementTerm(r, x, d) * w.movement
           gap == DayGapMinutes(r, x, d) * w.gap * r.gapPercent
<1>1. DayTerms(r, x, d) = PercentBase * (active + times + over + short + moves) + gap
  BY Zenon DEF DayTerms
<1>2. w.overflow \in Int /\ w.lunch \in Int /\ w.movement \in Int /\ w.early \in Int /\ w.late \in Int
      /\ w.avoided \in Int
  BY WeightsTyped
<1>3. times = SumOn(TimesOf(r, M), On(M, d))
  <2> DEFINE g == TimesOf(r, M)
  <2>1. times = SumOn(f, P)
    <3>1. [p \in P |-> Val(x, p[1]) *
                   (Early(r, p[2]) * w.early + Late(r, p[2]) * w.late
                    + (IF d \in r.avoidedDays THEN w.avoided ELSE 0))] = [p \in P |-> f[p]]
      OBVIOUS
    <3> QED
      BY <3>1, Zenon DEF SumOver, SumOn
  <2>2. \A m \in On(M, d) : g[m] \in Int
    BY TimesTyped DEF On
  <2>3. ASSUME NEW p \in P PROVE f[p] = IF p[1] \in x THEN g[p[2]] ELSE 0
    <3>1. p[1] \in r.sections /\ p[2] \in p[1].sessions /\ p[2].day = d
      BY DEF Meetings
    <3> DEFINE m == p[2]
               u == Early(r, m) * w.early + Late(r, m) * w.late
                    + (IF d \in r.avoidedDays THEN w.avoided ELSE 0)
    <3>2. m \in MeetingsOf(r.sections)
      BY <3>1 DEF MeetingsOf
    <3>3. Early(r, m) \in Int /\ Late(r, m) \in Int
      BY <3>2, TimesTyped
    <3>4. Early(r, m) * w.early \in Int /\ Late(r, m) * w.late \in Int
      BY <1>2, <3>3
    <3>5. u \in Int
      BY <1>2, <3>4
    <3>6. f[p] = Val(x, p[1]) * u
      OBVIOUS
    <3>7. p[1] \in x => g[m] = u
      <4> SUFFICES ASSUME p[1] \in x PROVE g[m] = u
        OBVIOUS
      <4>1. m \in M
        BY <3>1 DEF MeetingsOf
      <4> QED
        BY <3>1, <4>1 DEF TimesOf
    <3> HIDE DEF u, f, g
    <3>8. CASE p[1] \in x
      BY <3>5, <3>6, <3>7, <3>8 DEF Val
    <3>9. CASE p[1] \notin x
      BY <3>5, <3>6, <3>9 DEF Val
    <3> QED
      BY <3>8, <3>9
  <2> HIDE DEF f, g
  <2>4. SumOn(f, P) = SumOn(g, On(M, d))
    BY <2>2, <2>3, PresentSum
  <2> QED
    BY <2>1, <2>4, Zenon DEF g
<1>4. over = Overflow(r, x, d) * w.overflow
  <2>1. CASE r.maxDaily = None
    BY <1>2, <2>1 DEF Overflow
  <2>2. CASE r.maxDaily # None
    <3> DEFINE n == MinutesOf(On(M, d)) - r.maxDaily
    <3>1. Duration(r, x, d) - r.maxDaily = n
      BY DurationAgrees
    <3>2. MinutesOf(On(M, d)) \in Int
      BY DayMeasures
    <3>3. r.maxDaily \in Int
      BY <2>2 DEF Solvable, WellFormed, WellFormedPreferences
    <3>4. n \in Int
      BY <3>2, <3>3
    <3> HIDE DEF n
    <3>5. Max({n, 0}) \in {n, 0} /\ Max({n, 0}) >= n /\ Max({n, 0}) >= 0
      BY <3>4, OfTwo
    <3>6. Max({n, 0}) = AtLeastZero(n)
      BY <3>4, <3>5 DEF AtLeastZero
    <3>7. over = Max({n, 0}) * w.overflow
      BY <2>2, <3>1
    <3>8. Overflow(r, x, d) = AtLeastZero(n)
      BY <2>2 DEF Overflow, n
    <3> QED
      BY <3>6, <3>7, <3>8
  <2> QED
    BY <2>1, <2>2
<1>5. short = Shortage(r, x, d) * w.lunch
  <2>1. CASE r.lunch = 0
    BY <1>2, <2>1 DEF Shortage
  <2>2. CASE r.lunch # 0
    <3>1. r.lunch > 0
      BY <2>2 DEF Solvable, WellFormed, WellFormedPreferences
    <3> QED
      BY <2>2, <3>1, ShortageAgrees DEF Shortage
  <2> QED
    BY <2>1, <2>2
<1>6. moves = MovementTransitions(DailySessions(x, d)) * w.movement
  <2>1. MovementTransitions(DailySessions(x, d)) \in Int
    BY DayMeasures
  <2>2. CASE w.movement = 0
    <3>1. MovementTerm(r, x, d) = 0
      BY <2>2 DEF MovementTerm
    <3> QED
      BY <2>1, <2>2, <3>1
  <2>3. CASE w.movement # 0
    <3>1. MovementTerm(r, x, d) = MovementTransitions(DailySessions(x, d))
      BY <2>3, WalksAgree
    <3> QED
      BY <3>1
  <2> QED
    BY <2>2, <2>3
<1> HIDE DEF active, times, over, short, moves, gap
<1>7. DayTerms(r, x, d) = PercentBase *
          (active + SumOn(TimesOf(r, M), On(M, d)) + Overflow(r, x, d) * w.overflow
           + Shortage(r, x, d) * w.lunch + MovementTransitions(DailySessions(x, d)) * w.movement) + gap
  BY <1>1, <1>3, <1>4, <1>5, <1>6, Zenon
<1> QED
  BY <1>7, Zenon DEF active, gap

-----------------------------------------------------------------------------
(* The terms of the whole selection.                                       *)

\* A course counts as changed in the model when it does in the score.
LEMMA ChangeOfCourse ==
    ASSUME NEW r, Solvable(r), NEW x \in SUBSET r.sections, OneSectionPerCourse(x),
           NEW c \in CoursesOf(r.sections)
    PROVE  LET current == {s \in WithIds(r, r.current) : s.course = c}
           IN  (IF current # {} THEN 1 - Chosen(x, current) ELSE Chosen(x, SectionsOf(r, c)))
                 = IF c \in ChangedCourses(r, x) THEN 1 ELSE 0
<1> DEFINE W == WithIds(r, r.current)
           current == {s \in W : s.course = c}
           T == {t \in x : t.course = c}
           ids == {s.id : s \in T}
<1>1. W \in SUBSET r.sections
  BY DEF WithIds
<1>2. IsFiniteSet(W) /\ IsFiniteSet(x)
  BY <1>1, FiniteSelections
<1>3. IsFiniteSet(current) /\ IsFiniteSet(T)
  BY <1>2, FS_Subset
<1>4. \A s, t \in W : s.course = t.course => s = t
  <2>1. OneSectionPerCourse(W)
    BY DEF Solvable, ValidRequest
  <2> HIDE DEF W
  <2> QED
    BY <1>2, <2>1, OnePerCourse
<1>5. \A s, t \in x : s.course = t.course => s = t
  BY <1>2, OnePerCourse
<1>6. CurrentOf(r, c) = {s.id : s \in current}
  BY DEF CurrentOf
<1>7. c \in ChangedCourses(r, x) <=> /\ c \in CoursesOf(W) \cup CoursesOf(x)
                                     /\ CurrentOf(r, c) # ids
  BY DEF ChangedCourses
<1>8. \A s, t \in r.sections : s.id = t.id => s = t
  BY UniqueIds
<1>9. CASE current # {}
  <2>1. PICK s0 \in current : TRUE
    BY <1>9
  <2>2. s0 \in W /\ s0.course = c /\ s0 \in r.sections
    BY <1>1, <2>1
  <2>3. current = {s0}
    BY <1>4, <2>1, <2>2
  <2>4. c \in CoursesOf(W)
    BY <2>2 DEF CoursesOf
  <2>5. CurrentOf(r, c) = {s0.id}
    BY <1>6, <2>3
  <2>6. Chosen(x, current) = IF s0 \in x THEN 1 ELSE 0
    <3>1. Chosen(x, current) = Cardinality(current \cap x)
      BY <1>3, ChosenIsCount
    <3>2. CASE s0 \in x
      <4>1. current \cap x = {s0}
        BY <2>3, <3>2
      <4> QED
        BY <3>1, <3>2, <4>1, FS_Singleton
    <3>3. CASE s0 \notin x
      <4>1. current \cap x = {}
        BY <2>3, <3>3
      <4> QED
        BY <3>1, <3>3, <4>1, FS_EmptySet
    <3> QED
      BY <3>2, <3>3
  <2>7. s0 \in x <=> CurrentOf(r, c) = ids
    <3>1. ASSUME s0 \in x PROVE CurrentOf(r, c) = ids
      <4>1. T = {s0}
        BY <1>5, <2>2, <3>1
      <4> QED
        BY <2>5, <4>1
    <3>2. ASSUME CurrentOf(r, c) = ids PROVE s0 \in x
      <4>1. s0.id \in ids
        BY <2>5, <3>2
      <4>2. PICK t \in T : t.id = s0.id
        BY <4>1
      <4>3. t \in x /\ t \in r.sections
        BY <4>2
      <4> QED
        BY <1>8, <2>2, <4>2, <4>3
    <3> QED
      BY <3>1, <3>2
  <2>8. c \in ChangedCourses(r, x) <=> s0 \notin x
    BY <1>7, <2>4, <2>7
  <2> HIDE DEF current
  <2> QED
    BY <1>9, <2>6, <2>8 DEF current
<1>10. CASE current = {}
  <2>1. CurrentOf(r, c) = {}
    BY <1>6, <1>10
  <2>2. c \notin CoursesOf(W)
    BY <1>10 DEF CoursesOf
  <2>3. c \in ChangedCourses(r, x) <=> T # {}
    BY <1>7, <2>1, <2>2 DEF CoursesOf
  <2>4. SectionsOf(r, c) \in SUBSET r.sections /\ SectionsOf(r, c) \cap x = T
    BY DEF SectionsOf
  <2>5. Chosen(x, SectionsOf(r, c)) = Cardinality(T)
    <3>1. IsFiniteSet(SectionsOf(r, c))
      BY <2>4, FiniteSelections
    <3> QED
      BY <2>4, <3>1, ChosenIsCount
  <2>6. Cardinality(T) = IF T # {} THEN 1 ELSE 0
    <3>1. CASE T = {}
      BY <3>1, FS_EmptySet
    <3>2. CASE T # {}
      <4>1. PICK t \in T : TRUE
        BY <3>2
      <4>2. T = {t}
        BY <1>5, <4>1
      <4> QED
        BY <3>2, <4>2, FS_Singleton
    <3> QED
      BY <3>1, <3>2
  <2> HIDE DEF T
  <2> QED
    BY <1>10, <2>3, <2>5, <2>6
<1> QED
  BY <1>9, <1>10

\* The model and the score count the same changed courses.
LEMMA ChangesAgree ==
    ASSUME NEW r, Solvable(r), NEW x \in SUBSET r.sections, OneSectionPerCourse(x)
    PROVE  ChangeTerm(r, x) = Cardinality(ChangedCourses(r, x))
<1> DEFINE C == CoursesOf(r.sections)
           V == ChangedCourses(r, x)
           f == [c \in C |-> IF c \in V THEN 1 ELSE 0]
<1>1. IsFiniteSet(C)
  <2> DEFINE g == [s \in r.sections |-> s.course]
  <2>1. C = {g[s] : s \in r.sections}
    BY DEF CoursesOf
  <2>2. DOMAIN g = r.sections /\ IsFiniteSet(r.sections)
    BY FiniteSelections
  <2> HIDE DEF g, C
  <2> QED
    BY <2>1, <2>2, CountImage
<1>2. V \in SUBSET C
  BY DEF ChangedCourses, CoursesOf, WithIds
<1>3. ChangeTerm(r, x) = SumOn(f, C)
  <2> DEFINE h == [c \in C |-> LET current == {s \in WithIds(r, r.current) : s.course = c}
                               IN  IF current # {} THEN 1 - Chosen(x, current)
                                   ELSE Chosen(x, SectionsOf(r, c))]
  <2>1. ChangeTerm(r, x) = SumFunction(h)
    BY Zenon DEF ChangeTerm, SumOver
  <2>2. \A c \in C : h[c] = f[c]
    BY ChangeOfCourse
  <2>3. h = [c \in C |-> f[c]]
    BY <2>2
  <2> HIDE DEF h, f, C
  <2> QED
    BY <2>1, <2>3, Zenon DEF SumOn
<1>4. \A c \in C : f[c] = IF c \in V THEN 1 ELSE 0
  OBVIOUS
<1> HIDE DEF C, V, f
<1>5. SumOn(f, C) = Cardinality(V)
  BY <1>1, <1>2, <1>4, SumBits
<1> QED
  BY <1>3, <1>5 DEF V

\* The model and the score count the same sections without known times.
LEMMA UnknownAgrees ==
    ASSUME NEW r, Solvable(r), NEW x \in SUBSET r.sections
    PROVE  Chosen(x, {s \in r.sections : s.sessions = {}}) = Cardinality({s \in x : s.sessions = {}})
<1> DEFINE U == {s \in r.sections : s.sessions = {}}
<1>1. IsFiniteSet(U) /\ U \cap x = {s \in x : s.sessions = {}}
  BY FiniteSelections, FS_Subset
<1> HIDE DEF U
<1>2. Chosen(x, U) = Cardinality(U \cap x)
  BY <1>1, ChosenIsCount
<1> QED
  BY <1>1, <1>2 DEF U

-----------------------------------------------------------------------------
(* The sums.                                                               *)

\* The soft constraints on the times of all meetings.
LEMMA TimesAdd ==
    ASSUME NEW r, Solvable(r), NEW x \in SUBSET r.sections
    PROVE  SumOn(TimesOf(r, MeetingsOf(x)), MeetingsOf(x))
             = SumFunction(EarlyOf(r, x)) * r.weights.early + SumFunction(LateOf(r, x)) * r.weights.late
               + Cardinality({m \in MeetingsOf(x) : m.day \in r.avoidedDays}) * r.weights.avoided
<1> DEFINE M == MeetingsOf(x)
           V == {m \in M : m.day \in r.avoidedDays}
           e == EarlyOf(r, x)
           l == LateOf(r, x)
           a == [m \in M |-> IF m \in V THEN 1 ELSE 0]
           z == [m \in M |-> 0]
           we == r.weights.early
           wl == r.weights.late
           wa == r.weights.avoided
           h1 == [m \in M |-> 0 + e[m] * we]
           h2 == [m \in M |-> h1[m] + l[m] * wl]
           t == TimesOf(r, M)
<1>1. IsFiniteSet(M)
  BY FiniteMeetings
<1>2. we \in Int /\ wl \in Int /\ wa \in Int
  BY WeightsTyped
<1>3. ASSUME NEW m \in M PROVE e[m] \in Int /\ l[m] \in Int /\ e[m] = Early(r, m) /\ l[m] = Late(r, m)
  BY TimesTyped DEF EarlyOf, LateOf
<1>4. e = [m \in M |-> e[m]] /\ l = [m \in M |-> l[m]]
  BY DEF EarlyOf, LateOf
<1>5. V \in SUBSET M /\ \A m \in M : a[m] \in Int /\ a[m] = (IF m \in V THEN 1 ELSE 0)
  OBVIOUS
<1>6. \A m \in M : m \in V <=> m.day \in r.avoidedDays
  OBVIOUS
<1>7. \A m \in M : z[m] = 0
  OBVIOUS
<1>8. \A m \in M : t[m] = e[m] * we + l[m] * wl + (IF m.day \in r.avoidedDays THEN wa ELSE 0)
  BY <1>3 DEF TimesOf
<1>9. \A m \in M : h1[m] = z[m] + e[m] * we /\ h2[m] = h1[m] + l[m] * wl
  BY <1>7
<1> HIDE DEF M, V, e, l, a, z, t, h1, h2, we, wl, wa
<1>10. \A m \in M : e[m] * we \in Int /\ l[m] * wl \in Int
  BY <1>2, <1>3
<1>11. \A m \in M : h1[m] \in Int /\ h1[m] = e[m] * we
  BY <1>7, <1>9, <1>10
<1>12. \A m \in M : h2[m] \in Int /\ h2[m] = e[m] * we + l[m] * wl
  BY <1>9, <1>10, <1>11
<1>13. \A m \in M : t[m] = h2[m] + a[m] * wa
  BY <1>2, <1>5, <1>6, <1>8, <1>12
<1>14. SumOn(h1, M) = SumOn(z, M) + SumOn(e, M) * we
  <2>1. \A m \in M : z[m] \in Int /\ e[m] \in Int /\ h1[m] = z[m] + e[m] * we
    BY <1>3, <1>7, <1>9
  <2> QED
    BY <1>1, <1>2, <2>1, SumLinear
<1>15. SumOn(h2, M) = SumOn(h1, M) + SumOn(l, M) * wl
  <2>1. \A m \in M : h1[m] \in Int /\ l[m] \in Int /\ h2[m] = h1[m] + l[m] * wl
    BY <1>3, <1>9, <1>11
  <2> QED
    BY <1>1, <1>2, <2>1, SumLinear
<1>16. SumOn(t, M) = SumOn(h2, M) + SumOn(a, M) * wa
  <2>1. \A m \in M : h2[m] \in Int /\ a[m] \in Int /\ t[m] = h2[m] + a[m] * wa
    BY <1>5, <1>12, <1>13
  <2> QED
    BY <1>1, <1>2, <2>1, SumLinear
<1>17. SumOn(a, M) = Cardinality(V)
  BY <1>1, <1>5, SumBits
<1>18. SumOn(z, M) = 0
  <2> DEFINE none == {}
  <2>1. none \in SUBSET M /\ \A m \in M : z[m] \in Int /\ (m \notin none => z[m] = 0)
    BY <1>7
  <2>2. SumOn(z, M) = SumOn(z, none)
    BY <1>1, <2>1, SumRestrict
  <2> QED
    BY <2>2, SumEmpty
<1>19. SumFunction(e) = SumOn(e, M) /\ SumFunction(l) = SumOn(l, M)
  BY <1>4, FunctionSum
<1>20. SumOn(e, M) \in Int /\ SumOn(l, M) \in Int
  BY <1>1, <1>3, SumType
<1>21. SumOn(e, M) * we \in Int /\ SumOn(l, M) * wl \in Int
  BY <1>2, <1>20
<1>22. SumOn(t, M) = SumFunction(e) * we + SumFunction(l) * wl + Cardinality(V) * wa
  BY <1>14, <1>15, <1>16, <1>17, <1>18, <1>19, <1>21
<1> QED
  BY <1>22, Zenon DEF t, e, l, we, wl, wa, V, M

\* A day on which the selection has no meeting costs nothing.
LEMMA EmptyDayIsFree ==
    ASSUME NEW r, Solvable(r), NEW x \in SUBSET r.sections, NoConflicts(x), NEW d,
           d \notin CampusDays(x)
    PROVE  DayTerms(r, x, d) = 0
<1> DEFINE M == On(MeetingsOf(x), d)
           w == r.weights
           q == DailySessions(x, d)
<1>1. M = {}
  BY DEF On, CampusDays
<1>2. ~DayActive(r, x, d)
  <2> SUFFICES ASSUME NEW p \in Meetings(r, d), p[1] \in x PROVE FALSE
    BY DEF DayActive
  <2>1. p[2] \in p[1].sessions /\ p[2].day = d
    BY DEF Meetings
  <2> QED
    BY <1>1, <2>1 DEF On, MeetingsOf
<1>3. Bit(DayActive(r, x, d)) = 0 /\ DayGapMinutes(r, x, d) = 0
  BY <1>2 DEF Bit, DayGapMinutes
<1>4. SumOn(TimesOf(r, MeetingsOf(x)), M) = 0
  BY <1>1, SumEmpty
<1>5. Overflow(r, x, d) = 0
  <2>1. CASE r.maxDaily = None
    BY <2>1 DEF Overflow
  <2>2. CASE r.maxDaily # None
    <3>1. MinutesOf(M) = 0
      <4> DEFINE f == [m \in {} |-> m.end - m.start]
      <4>1. MinutesOf({}) = SumFunction([m \in {} |-> m.end - m.start])
        BY Zenon DEF MinutesOf, SumOver
      <4>2. [m \in {} |-> m.end - m.start] = [m \in {} |-> f[m]]
        OBVIOUS
      <4>3. MinutesOf({}) = SumOn(f, {})
        BY <4>1, <4>2, Zenon DEF SumOn
      <4> HIDE DEF f, M
      <4> QED
        BY <1>1, <4>3, SumEmpty
    <3>2. r.maxDaily \in Nat
      BY <2>2, PartsAssumption DEF SearchAssumption, Solvable, WellFormed, WellFormedPreferences
    <3>3. Overflow(r, x, d) = AtLeastZero(0 - r.maxDaily)
      BY <2>2, <3>1 DEF Overflow
    <3> QED
      BY <3>2, <3>3 DEF AtLeastZero
  <2> QED
    BY <2>1, <2>2
<1>6. Shortage(r, x, d) = 0
  <2>1. CASE r.lunch = 0
    BY <2>1 DEF Shortage
  <2>2. CASE r.lunch # 0
    <3>1. r.lunch > 0
      BY <2>2 DEF Solvable, WellFormed, WellFormedPreferences
    <3>2. LunchShortage(r, x, d) = 0
      BY <1>1, <3>1, NoMeetingNoShortage
    <3>3. LunchShortage(r, x, d) = AtLeastZero(r.lunch - LongestLunchBreak(DailySessions(x, d)))
      BY <3>1, ShortageAgrees
    <3> QED
      BY <2>2, <3>2, <3>3 DEF Shortage
  <2> QED
    BY <2>1, <2>2
<1>7. MovementTransitions(q) = 0
  <2>1. q \in [1..Cardinality(M) -> M]
    BY DailyList
  <2>2. Cardinality(M) = 0
    BY <1>1, FS_EmptySet
  <2> HIDE DEF q
  <2>3. Len(q) = 0
    <3>1. q \in [1..0 -> M]
      BY <2>1, <2>2
    <3> QED
      BY <3>1
  <2> DEFINE I == {i \in 2..Len(q) :
        /\ AtLeastZero(q[i].start - q[i - 1].end) <= NearMinutes
        /\ q[i - 1].loc # None /\ q[i].loc # None /\ q[i - 1].loc # q[i].loc}
  <2>4. MovementTransitions(q) = Cardinality(I)
    BY Zenon DEF MovementTransitions
  <2>5. I = {}
    BY <2>3
  <2> HIDE DEF I
  <2> QED
    BY <2>4, <2>5, FS_EmptySet
<1>8. /\ w.campusDay + (IF d \in r.daysOff THEN w.dayOff ELSE 0) \in Int
      /\ w.overflow \in Int /\ w.lunch \in Int /\ w.movement \in Int /\ w.gap \in Int
      /\ r.gapPercent \in Int /\ PercentBase \in Int
  BY WeightsTyped
<1> DEFINE u == w.campusDay + (IF d \in r.daysOff THEN w.dayOff ELSE 0)
<1>9. DayTerms(r, x, d) =
                 PercentBase *
                   (Bit(DayActive(r, x, d)) * u
                    + SumOn(TimesOf(r, MeetingsOf(x)), M)
                    + Overflow(r, x, d) * w.overflow + Shortage(r, x, d) * w.lunch
                    + MovementTransitions(q) * w.movement)
                 + DayGapMinutes(r, x, d) * w.gap * r.gapPercent
  BY DayTermsAre, Zenon
<1>10. u \in Int
  BY <1>8
<1> HIDE DEF u, M, q, w
<1>11. DayTerms(r, x, d) = PercentBase * (0 * u + 0 + 0 * w.overflow + 0 * w.lunch + 0 * w.movement)
                           + 0 * w.gap * r.gapPercent
  BY <1>3, <1>4, <1>5, <1>6, <1>7, <1>9
<1> QED
  BY <1>8, <1>10, <1>11

\* The measures of a selection that are added up over its days.
Overflows(r, x) == IF r.maxDaily = None THEN 0 ELSE SumFunction(OverflowOn(r, x))
Shortages(r, x) == IF r.lunch = 0 THEN 0 ELSE SumFunction(ShortageOn(r, x))

\* The measures of the days are numbers, and so are their sums.
LEMMA DaySums ==
    ASSUME NEW r, Solvable(r), NEW x \in SUBSET r.sections, NoConflicts(x),
           NEW D, D = CampusDays(x),
           NEW over, over = [d \in D |-> Overflow(r, x, d)],
           NEW short, short = [d \in D |-> Shortage(r, x, d)]
    PROVE  /\ IsFiniteSet(D)
           /\ \A d \in D : over[d] \in Int /\ short[d] \in Int
           /\ SumOn(over, D) = Overflows(r, x) /\ SumOn(short, D) = Shortages(r, x)
<1> DEFINE M == MeetingsOf(x)
           none == {}
<1>1. IsFiniteSet(D)
  <2> DEFINE f == [m \in M |-> m.day]
  <2>1. D = {f[m] : m \in M}
    BY DEF CampusDays
  <2>2. DOMAIN f = M /\ IsFiniteSet(M)
    BY FiniteMeetings
  <2> HIDE DEF M, f
  <2> QED
    BY <2>1, <2>2, CountImage
<1>2. \A d : /\ MinutesOf(On(M, d)) \in Int
             /\ LongestLunchBreak(DailySessions(x, d)) \in Int
  BY DayMeasures
<1>3. /\ r.maxDaily # None => r.maxDaily \in Int
      /\ r.lunch \in Int
  BY DEF Solvable, WellFormed, WellFormedPreferences
<1>4. none \in SUBSET D
  OBVIOUS
<1>5. SumOn(over, D) = Overflows(r, x) /\ \A d \in D : over[d] \in Int
  <2>1. CASE r.maxDaily = None
    <3>1. \A d \in D : over[d] = 0
      BY <2>1 DEF Overflow
    <3>2. \A d \in D : over[d] \in Int /\ (d \notin none => over[d] = 0)
      BY <3>1
    <3>3. SumOn(over, D) = SumOn(over, none)
      BY <1>1, <1>4, <3>2, SumRestrict
    <3> QED
      BY <2>1, <3>2, <3>3, SumEmpty DEF Overflows
  <2>2. CASE r.maxDaily # None
    <3> DEFINE o == OverflowOn(r, x)
    <3>1. \A d \in D : over[d] = o[d]
      BY <2>2 DEF Overflow, OverflowOn
    <3>2. o = [d \in D |-> o[d]]
      BY DEF OverflowOn
    <3>3. \A d \in D : over[d] \in Int
      BY <1>2, <1>3, <2>2 DEF Overflow, AtLeastZero
    <3> HIDE DEF o
    <3>4. SumOn(over, D) = SumOn(o, D)
      BY <3>1, SumSame
    <3>5. SumOn(o, D) = SumFunction(o)
      BY <3>2, FunctionSum
    <3> QED
      BY <2>2, <3>3, <3>4, <3>5 DEF Overflows, o
  <2> QED
    BY <2>1, <2>2
<1>6. SumOn(short, D) = Shortages(r, x) /\ \A d \in D : short[d] \in Int
  <2>1. CASE r.lunch = 0
    <3>1. \A d \in D : short[d] = 0
      BY <2>1 DEF Shortage
    <3>2. \A d \in D : short[d] \in Int /\ (d \notin none => short[d] = 0)
      BY <3>1
    <3>3. SumOn(short, D) = SumOn(short, none)
      BY <1>1, <1>4, <3>2, SumRestrict
    <3> QED
      BY <2>1, <3>2, <3>3, SumEmpty DEF Shortages
  <2>2. CASE r.lunch # 0
    <3> DEFINE o == ShortageOn(r, x)
    <3>1. \A d \in D : short[d] = o[d]
      BY <2>2 DEF Shortage, ShortageOn
    <3>2. o = [d \in D |-> o[d]]
      BY DEF ShortageOn
    <3>3. \A d \in D : short[d] \in Int
      BY <1>2, <1>3, <2>2 DEF Shortage, AtLeastZero
    <3> HIDE DEF o
    <3>4. SumOn(short, D) = SumOn(o, D)
      BY <3>1, SumSame
    <3>5. SumOn(o, D) = SumFunction(o)
      BY <3>2, FunctionSum
    <3> QED
      BY <2>2, <3>3, <3>4, <3>5 DEF Shortages, o
  <2> QED
    BY <2>1, <2>2
<1> QED
  BY <1>1, <1>5, <1>6

\* The times of all meetings are those of the meetings of each day.
LEMMA TimesByDay ==
    ASSUME NEW r, Solvable(r), NEW x \in SUBSET r.sections, NEW D, D = CampusDays(x), IsFiniteSet(D),
           NEW times, times = [d \in D |-> SumOn(TimesOf(r, MeetingsOf(x)), On(MeetingsOf(x), d))]
    PROVE  /\ \A d \in D : times[d] \in Int
           /\ SumOn(times, D) = SumOn(TimesOf(r, MeetingsOf(x)), MeetingsOf(x))
<1> DEFINE M == MeetingsOf(x)
           t == TimesOf(r, M)
           day == [m \in M |-> m.day]
<1>1. IsFiniteSet(M) /\ \A m \in M : t[m] \in Int
  BY FiniteMeetings, TimesTyped
<1>2. \A d : IsFiniteSet(On(M, d)) /\ On(M, d) \subseteq M
  BY <1>1, FS_Subset DEF On
<1>3. \A m \in M : day[m] \in D
  BY DEF CampusDays
<1>4. \A d : On(M, d) = {m \in M : day[m] = d}
  BY DEF On
<1>5. \A d \in D : times[d] = SumOn(t, On(M, d))
  OBVIOUS
<1> HIDE DEF M, t, day
<1>6. \A d \in D : times[d] \in Int
  <2> TAKE d \in D
  <2>1. IsFiniteSet(On(M, d)) /\ \A m \in On(M, d) : t[m] \in Int
    BY <1>1, <1>2
  <2>2. SumOn(t, On(M, d)) \in Int
    BY <2>1, SumType
  <2> QED
    BY <1>5, <2>2
<1>7. \A d \in D : times[d] = SumOn(t, {m \in M : day[m] = d})
  BY <1>4, <1>5
<1>8. SumOn(t, M) = SumOn(times, D)
  BY <1>1, <1>3, <1>7, SumByKey
<1> QED
  BY <1>6, <1>8, Zenon DEF t, M

\* The terms of all days, in the measures of the score.
LEMMA DaysAdd ==
    ASSUME NEW r, Solvable(r), NEW x \in SUBSET r.sections, NoConflicts(x)
    PROVE  LET w == r.weights
               D == CampusDays(x)
           IN  SumOver(DaysOf(r), LAMBDA d : DayTerms(r, x, d)) =
                 PercentBase *
                   (SumOn(TimesOf(r, MeetingsOf(x)), MeetingsOf(x))
                    + Cardinality(D) * w.campusDay + Cardinality(D \cap r.daysOff) * w.dayOff
                    + Overflows(r, x) * w.overflow + Shortages(r, x) * w.lunch
                    + SumFunction(MovesOn(x)) * w.movement)
                 + SumFunction(GapOn(x)) * w.gap * r.gapPercent
<1> DEFINE w == r.weights
           K == DaysOf(r)
           D == CampusDays(x)
           V == D \cap r.daysOff
           one == [d \in D |-> 1]
           off == [d \in D |-> IF d \in V THEN 1 ELSE 0]
           times == [d \in D |-> SumOn(TimesOf(r, MeetingsOf(x)), On(MeetingsOf(x), d))]
           over == [d \in D |-> Overflow(r, x, d)]
           short == [d \in D |-> Shortage(r, x, d)]
           moves == MovesOn(x)
           gaps == GapOn(x)
           k0 == PercentBase
           k1 == w.campusDay
           k2 == w.dayOff
           k3 == w.overflow
           k4 == w.lunch
           k5 == w.movement
           k6 == w.gap * r.gapPercent
           zero == [d \in D |-> 0]
           h1 == [d \in D |-> times[d] + one[d] * k1]
           h2 == [d \in D |-> h1[d] + off[d] * k2]
           h3 == [d \in D |-> h2[d] + over[d] * k3]
           h4 == [d \in D |-> h3[d] + short[d] * k4]
           h5 == [d \in D |-> h4[d] + moves[d] * k5]
           h6 == [d \in D |-> zero[d] + h5[d] * k0]
           term == [d \in K |-> DayTerms(r, x, d)]
           total == SumOver(K, LAMBDA d : DayTerms(r, x, d))
<1>1. /\ k0 \in Int /\ k1 \in Int /\ k2 \in Int /\ k3 \in Int /\ k4 \in Int /\ k5 \in Int
      /\ w.gap \in Int /\ r.gapPercent \in Int
  BY WeightsTyped
<1>2. k6 \in Int
  BY <1>1
<1>3. D \in SUBSET K
  BY DEF CampusDays, DaysOf, MeetingsOf
<1>4. IsFiniteSet(K)
  <2> DEFINE M == MeetingsOf(r.sections)
             f == [m \in M |-> m.day]
  <2>1. K = {f[m] : m \in M}
    BY DEF DaysOf
  <2>2. DOMAIN f = M /\ IsFiniteSet(M)
    BY FiniteMeetings
  <2> HIDE DEF M, f, K
  <2> QED
    BY <2>1, <2>2, CountImage
<1>5. /\ IsFiniteSet(D)
      /\ \A d \in D : over[d] \in Int /\ short[d] \in Int
      /\ SumOn(over, D) = Overflows(r, x) /\ SumOn(short, D) = Shortages(r, x)
  <2> HIDE DEF D
  <2>1. D = CampusDays(x) /\ over = [d \in D |-> Overflow(r, x, d)] /\ short = [d \in D |-> Shortage(r, x, d)]
    BY DEF D
  <2> HIDE DEF over, short
  <2> QED
    BY <2>1, DaySums
<1>6. /\ \A d \in D : times[d] \in Int
      /\ SumOn(times, D) = SumOn(TimesOf(r, MeetingsOf(x)), MeetingsOf(x))
  <2> HIDE DEF D
  <2>1. D = CampusDays(x) /\ times = [d \in D |-> SumOn(TimesOf(r, MeetingsOf(x)), On(MeetingsOf(x), d))]
    BY DEF D
  <2> HIDE DEF times
  <2> QED
    BY <1>5, <2>1, TimesByDay
<1>7. \A d \in D : moves[d] = MovementTransitions(DailySessions(x, d)) /\ moves[d] \in Int
  BY DayMeasures DEF MovesOn
<1>8. \A d \in D : gaps[d] = GapMinutes(DailySessions(x, d)) /\ gaps[d] \in Int
  BY DayMeasures DEF GapOn
<1>9. moves = [d \in D |-> moves[d]] /\ gaps = [d \in D |-> gaps[d]]
  BY DEF MovesOn, GapOn
<1>10. ASSUME NEW d \in D
       PROVE  Bit(DayActive(r, x, d)) = 1 /\ DayGapMinutes(r, x, d) = gaps[d]
  <2>1. On(MeetingsOf(x), d) # {}
    BY DEF CampusDays, On
  <2>2. DayActive(r, x, d) /\ DayGapMinutes(r, x, d) = DayGap(On(MeetingsOf(x), d))
    BY <2>1, GapAgrees
  <2>3. DayGap(On(MeetingsOf(x), d)) = GapMinutes(DailySessions(x, d))
    BY <2>1, GapIsSum
  <2> QED
    BY <1>8, <2>2, <2>3 DEF Bit
<1>11. \A d \in K : term[d] = DayTerms(r, x, d)
  OBVIOUS
<1>12. V \in SUBSET D /\ \A d \in D : /\ one[d] = 1 /\ off[d] = (IF d \in V THEN 1 ELSE 0) /\ zero[d] = 0
                                      /\ (d \in V <=> d \in r.daysOff)
                                      /\ over[d] = Overflow(r, x, d) /\ short[d] = Shortage(r, x, d)
                                      /\ times[d] = SumOn(TimesOf(r, MeetingsOf(x)), On(MeetingsOf(x), d))
  OBVIOUS
<1>13. \A d \in D : /\ h1[d] = times[d] + one[d] * k1 /\ h2[d] = h1[d] + off[d] * k2
                    /\ h3[d] = h2[d] + over[d] * k3 /\ h4[d] = h3[d] + short[d] * k4
                    /\ h5[d] = h4[d] + moves[d] * k5 /\ h6[d] = zero[d] + h5[d] * k0
  OBVIOUS
<1>14. total = SumOn(term, K)
  <2>1. [d \in K |-> DayTerms(r, x, d)] = [d \in K |-> term[d]]
    OBVIOUS
  <2> QED
    BY <2>1, Zenon DEF SumOver, SumOn
<1>15. ASSUME NEW d \in D
       PROVE  DayTerms(r, x, d) = k0 * ((k1 + (IF d \in r.daysOff THEN k2 ELSE 0)) + times[d] + over[d] * k3
                                        + short[d] * k4 + moves[d] * k5) + gaps[d] * w.gap * r.gapPercent
  <2> DEFINE u == k1 + (IF d \in r.daysOff THEN k2 ELSE 0)
  <2>1. DayTerms(r, x, d) =
                 PercentBase *
                   (Bit(DayActive(r, x, d)) * u
                    + SumOn(TimesOf(r, MeetingsOf(x)), On(MeetingsOf(x), d))
                    + Overflow(r, x, d) * w.overflow + Shortage(r, x, d) * w.lunch
                    + MovementTransitions(DailySessions(x, d)) * w.movement)
                 + DayGapMinutes(r, x, d) * w.gap * r.gapPercent
    BY DayTermsAre, Zenon
  <2>2. u \in Int
    BY <1>1
  <2>3. Bit(DayActive(r, x, d)) * u = u
    BY <1>10, <2>2
  <2> HIDE DEF u, D, gaps, moves, times, over, short, h1, h2, h3, h4, h5, h6, one, off, zero, V, term, K, total
  <2>4. DayTerms(r, x, d) = k0 * (u + times[d] + over[d] * k3 + short[d] * k4 + moves[d] * k5)
                            + gaps[d] * w.gap * r.gapPercent
    BY <1>7, <1>10, <1>12, <2>1, <2>3
  <2> QED
    BY <2>4, Zenon DEF u
<1> HIDE DEF w, K, D, V, one, off, times, over, short, moves, gaps, k0, k1, k2, k3, k4, k5, k6, zero,
             h1, h2, h3, h4, h5, h6, term, total
<1>16. \A d \in D : one[d] \in Int /\ off[d] \in Int /\ zero[d] \in Int
  BY <1>12
<1>17. \A d \in D : h1[d] \in Int
  BY <1>1, <1>6, <1>13, <1>16
<1>18. \A d \in D : h2[d] \in Int
  BY <1>1, <1>13, <1>16, <1>17
<1>19. \A d \in D : h3[d] \in Int
  BY <1>1, <1>5, <1>13, <1>18
<1>20. \A d \in D : h4[d] \in Int
  BY <1>1, <1>5, <1>13, <1>19
<1>21. \A d \in D : h5[d] \in Int
  BY <1>1, <1>7, <1>13, <1>20
<1>22. \A d \in D : h6[d] \in Int /\ h6[d] = h5[d] * k0
  BY <1>1, <1>12, <1>13, <1>21
<1>23. SumOn(h1, D) = SumOn(times, D) + SumOn(one, D) * k1
  BY <1>1, <1>5, <1>6, <1>13, <1>16, SumLinear
<1>24. SumOn(h2, D) = SumOn(h1, D) + SumOn(off, D) * k2
  BY <1>1, <1>5, <1>13, <1>16, <1>17, SumLinear
<1>25. SumOn(h3, D) = SumOn(h2, D) + SumOn(over, D) * k3
  BY <1>1, <1>5, <1>13, <1>18, SumLinear
<1>26. SumOn(h4, D) = SumOn(h3, D) + SumOn(short, D) * k4
  BY <1>1, <1>5, <1>13, <1>19, SumLinear
<1>27. SumOn(h5, D) = SumOn(h4, D) + SumOn(moves, D) * k5
  BY <1>1, <1>5, <1>7, <1>13, <1>20, SumLinear
<1>28. SumOn(h6, D) = SumOn(h5, D) * k0
  BY <1>1, <1>5, <1>21, <1>22, SumTimes
<1>29. ASSUME NEW d \in D PROVE term[d] \in Int /\ term[d] = h6[d] + gaps[d] * k6
  <2> DEFINE u == IF d \in r.daysOff THEN k2 ELSE 0
             inner == (k1 + u) + times[d] + over[d] * k3 + short[d] * k4 + moves[d] * k5
  <2>1. DayTerms(r, x, d) = k0 * inner + gaps[d] * w.gap * r.gapPercent
    BY <1>15
  <2>2. off[d] * k2 = u
    BY <1>1, <1>12
  <2>3. one[d] * k1 = k1
    BY <1>1, <1>12
  <2>4. u \in Int
    BY <1>1
  <2>5. over[d] * k3 \in Int /\ short[d] * k4 \in Int /\ moves[d] * k5 \in Int
    BY <1>1, <1>5, <1>7
  <2>6. h5[d] = times[d] + one[d] * k1 + off[d] * k2 + over[d] * k3 + short[d] * k4 + moves[d] * k5
    BY <1>13
  <2>7. h5[d] = inner
    <3> HIDE DEF u
    <3> QED
      BY <1>1, <1>6, <2>2, <2>3, <2>4, <2>5, <2>6
  <2> HIDE DEF inner, u
  <2>8. h6[d] = k0 * inner
    BY <1>1, <1>21, <1>22, <2>7
  <2>9. gaps[d] * w.gap * r.gapPercent = gaps[d] * k6
    BY <1>1, <1>8 DEF k6
  <2>10. term[d] = h6[d] + gaps[d] * k6
    BY <1>3, <1>11, <2>1, <2>8, <2>9
  <2>11. gaps[d] * k6 \in Int
    BY <1>2, <1>8
  <2> QED
    BY <1>22, <2>10, <2>11
<1>30. ASSUME NEW d \in K, d \notin D PROVE term[d] = 0
  BY <1>11, <1>30, EmptyDayIsFree DEF D
<1>31. SumOn(term, K) = SumOn(term, D)
  <2>1. \A d \in K : term[d] \in Int /\ (d \notin D => term[d] = 0)
    BY <1>29, <1>30
  <2> QED
    BY <1>3, <1>4, <2>1, SumRestrict
<1>32. SumOn(term, D) = SumOn(h6, D) + SumOn(gaps, D) * k6
  BY <1>2, <1>5, <1>8, <1>22, <1>29, SumLinear
<1>33. SumOn(one, D) = Cardinality(D)
  BY <1>5, <1>12, SumOnes
<1>34. SumOn(off, D) = Cardinality(V)
  BY <1>5, <1>12, SumBits
<1>35. SumFunction(moves) = SumOn(moves, D) /\ SumFunction(gaps) = SumOn(gaps, D)
  BY <1>9, FunctionSum
<1>36. SumOn(gaps, D) * k6 = SumOn(gaps, D) * w.gap * r.gapPercent
  <2>1. SumOn(gaps, D) \in Int
    BY <1>5, <1>8, SumType
  <2> QED
    BY <1>1, <2>1 DEF k6
<1>37. SumOn(h5, D) = SumOn(times, D) + Cardinality(D) * k1 + Cardinality(V) * k2
                      + Overflows(r, x) * k3 + Shortages(r, x) * k4 + SumFunction(moves) * k5
  BY <1>5, <1>23, <1>24, <1>25, <1>26, <1>27, <1>33, <1>34, <1>35
<1>38. SumOn(h5, D) * k0 = k0 * SumOn(h5, D)
  <2>1. SumOn(h5, D) \in Int
    BY <1>5, <1>21, SumType
  <2> QED
    BY <1>1, <2>1
<1>39. total = k0 * SumOn(h5, D) + SumFunction(gaps) * w.gap * r.gapPercent
  BY <1>14, <1>28, <1>31, <1>32, <1>35, <1>36, <1>38
<1>40. total = k0 * (SumOn(TimesOf(r, MeetingsOf(x)), MeetingsOf(x)) + Cardinality(D) * k1 + Cardinality(V) * k2
                      + Overflows(r, x) * k3 + Shortages(r, x) * k4 + SumFunction(moves) * k5)
               + SumFunction(gaps) * w.gap * r.gapPercent
  BY <1>6, <1>37, <1>39
<1> QED
  BY <1>40, Zenon DEF total, k0, k1, k2, k3, k4, k5, D, V, moves, gaps, w, K

\* What the solver minimises is the score.
LEMMA ObjectiveIs ==
    ASSUME NEW r, Solvable(r), NEW S \in FeasibleSelections(r)
    PROVE  Objective(r, S) = WeightedScore(r, S)
<1> DEFINE w == r.weights
           b == Breakdown(r, S)
           D == CampusDays(S)
           M == MeetingsOf(S)
           times == SumOn(TimesOf(r, M), M)
           days == SumOver(DaysOf(r), LAMBDA d : DayTerms(r, S, d))
           change == IF r.minimizeChanges THEN ChangeTerm(r, S) * w.change ELSE 0
           unknown == Chosen(S, {s \in r.sections : s.sessions = {}})
           far == IF r.target = None THEN 0 ELSE Absolute(Credits(r, S) - r.target) * w.target
<1>1. S \in SUBSET r.sections /\ NoConflicts(S) /\ OneSectionPerCourse(S)
  BY DEF FeasibleSelections, SelectionIsFeasible
<1>2. Objective(r, S) = days + PercentBase * (change + unknown * w.unknownTime + far)
  BY Zenon DEF Objective
<1>3. MadeOf(b, r, S)
  BY BreakdownParts
<1>4. /\ b.campusDays \in Int /\ b.gap \in Int /\ b.movement \in Int /\ b.early \in Int
      /\ b.late \in Int /\ b.daysOff \in Int /\ b.avoided \in Int /\ b.changed \in Int
      /\ b.unknownTime \in Int /\ b.overflow \in Int /\ b.lunch \in Int /\ b.deviation \in Int
  BY <1>1, PartsTyped, Zenon
<1>5. /\ w.campusDay \in Int /\ w.dayOff \in Int /\ w.gap \in Int /\ w.early \in Int
      /\ w.late \in Int /\ w.avoided \in Int /\ w.change \in Int /\ w.unknownTime \in Int
      /\ w.movement \in Int /\ w.overflow \in Int /\ w.lunch \in Int /\ w.target \in Int
      /\ r.gapPercent \in Int /\ PercentBase \in Int
  BY WeightsTyped
<1>6. change = IF r.minimizeChanges THEN b.changed * w.change ELSE 0
  <2>1. ChangeTerm(r, S) = b.changed
    BY <1>1, <1>3, ChangesAgree DEF MadeOf
  <2> HIDE DEF b
  <2> QED
    BY <2>1
<1>7. unknown = b.unknownTime
  BY <1>1, <1>3, UnknownAgrees DEF MadeOf
<1>8. far = b.deviation * w.target
  <2>1. Credits(r, S) = CreditsOf(S)
    BY <1>1, CreditsAgree
  <2>2. b.deviation = IF r.target = None THEN 0 ELSE Absolute(CreditsOf(S) - r.target)
    BY <1>3 DEF MadeOf
  <2> HIDE DEF b
  <2>3. CASE r.target = None
    BY <1>5, <2>2, <2>3
  <2>4. CASE r.target # None
    BY <2>1, <2>2, <2>4
  <2> QED
    BY <2>3, <2>4
<1>9. days = PercentBase *
                   (times + Cardinality(D) * w.campusDay + Cardinality(D \cap r.daysOff) * w.dayOff
                    + Overflows(r, S) * w.overflow + Shortages(r, S) * w.lunch
                    + SumFunction(MovesOn(S)) * w.movement)
                 + SumFunction(GapOn(S)) * w.gap * r.gapPercent
  BY <1>1, DaysAdd, Zenon
<1>10. times = SumFunction(EarlyOf(r, S)) * w.early + SumFunction(LateOf(r, S)) * w.late
               + Cardinality({m \in M : m.day \in r.avoidedDays}) * w.avoided
  BY <1>1, TimesAdd
<1>11. /\ Cardinality(D) = b.campusDays /\ Cardinality(D \cap r.daysOff) = b.daysOff
       /\ Overflows(r, S) = b.overflow /\ Shortages(r, S) = b.lunch
       /\ SumFunction(MovesOn(S)) = b.movement /\ SumFunction(GapOn(S)) = b.gap
       /\ SumFunction(EarlyOf(r, S)) = b.early /\ SumFunction(LateOf(r, S)) = b.late
       /\ Cardinality({m \in M : m.day \in r.avoidedDays}) = b.avoided
  <2> HIDE DEF b
  <2> QED
    BY <1>3 DEF MadeOf, Overflows, Shortages
<1>12. WeightedScore(r, S) =
         PercentBase * (b.campusDays * w.campusDay + b.daysOff * w.dayOff + b.early * w.early
                       + b.late * w.late + b.avoided * w.avoided + b.unknownTime * w.unknownTime
                       + b.movement * w.movement + b.overflow * w.overflow + b.lunch * w.lunch
                       + (IF r.minimizeChanges THEN b.changed * w.change ELSE 0)
                       + b.deviation * w.target)
        + b.gap * w.gap * r.gapPercent
  BY Zenon DEF WeightedScore
<1> HIDE DEF w, b, D, M, times, days, change, unknown, far
<1>13. times = b.early * w.early + b.late * w.late + b.avoided * w.avoided
  BY <1>10, <1>11
<1>14. days = PercentBase *
                   (times + b.campusDays * w.campusDay + b.daysOff * w.dayOff
                    + b.overflow * w.overflow + b.lunch * w.lunch + b.movement * w.movement)
                 + b.gap * w.gap * r.gapPercent
  BY <1>9, <1>11
<1> DEFINE p1 == b.campusDays * w.campusDay
           p2 == b.daysOff * w.dayOff
           p3 == b.early * w.early
           p4 == b.late * w.late
           p5 == b.avoided * w.avoided
           p6 == b.unknownTime * w.unknownTime
           p7 == b.movement * w.movement
           p8 == b.overflow * w.overflow
           p9 == b.lunch * w.lunch
           p10 == b.deviation * w.target
           g == b.gap * w.gap * r.gapPercent
<1>15. /\ p1 \in Int /\ p2 \in Int /\ p3 \in Int /\ p4 \in Int /\ p5 \in Int /\ p6 \in Int
       /\ p7 \in Int /\ p8 \in Int /\ p9 \in Int /\ p10 \in Int /\ g \in Int
  BY <1>4, <1>5
<1>16. change \in Int
  BY <1>4, <1>5, <1>6
<1>17. WeightedScore(r, S) = PercentBase * (p1 + p2 + p3 + p4 + p5 + p6 + p7 + p8 + p9 + change + p10) + g
  BY <1>6, <1>12
<1>18. days = PercentBase * (p3 + p4 + p5 + p1 + p2 + p8 + p9 + p7) + g
  BY <1>13, <1>14
<1>19. Objective(r, S) = days + PercentBase * (change + p6 + p10)
  BY <1>2, <1>7, <1>8
<1> HIDE DEF p1, p2, p3, p4, p5, p6, p7, p8, p9, p10, g
<1> DEFINE A == p3 + p4 + p5 + p1 + p2 + p8 + p9 + p7
           B == change + p6 + p10
<1>20. A \in Int /\ B \in Int
  BY <1>15, <1>16
<1>21. p1 + p2 + p3 + p4 + p5 + p6 + p7 + p8 + p9 + change + p10 = A + B
  BY <1>15, <1>16
<1>22. days = PercentBase * A + g /\ Objective(r, S) = days + PercentBase * B
  BY <1>18, <1>19
<1>23. WeightedScore(r, S) = PercentBase * (A + B) + g
  BY <1>17, <1>21
<1> HIDE DEF A, B
<1> QED
  BY <1>5, <1>15, <1>20, <1>22, <1>23

\* The invariant of the search has what is minimised equal to the score.
LEMMA SearchInvIsScore == SearchInv => ObjectiveIsScore
<1> SUFFICES ASSUME SearchInv PROVE ObjectiveIsScore
  OBVIOUS
<1>1. CostIsScore
  BY ObjectiveIs DEF CostIsScore, SearchInv
<1>2. LunchBreakIsLongest
  <2>1. ASSUME phase = "solve", NEW S \in FeasibleSelections(request), NEW d
        PROVE  BreakIsLongest(S, d)
    <3>1. Solvable(request)
      BY <2>1 DEF SearchInv
    <3>2. S \in SUBSET request.sections /\ NoConflicts(S)
      BY DEF FeasibleSelections, SelectionIsFeasible
    <3> QED
      BY <3>1, <3>2, LunchBreaksLongest
  <2> QED
    BY <2>1, Zenon DEF LunchBreakIsLongest, BreakIsLongest
<1> QED
  BY <1>1, <1>2 DEF ObjectiveIsScore

\* What the solver minimises is, for every selection it may choose, the score
\* that a candidate shows: the gaps, the walks between buildings and the lunch
\* breaks that its literals stand for are those that scoring.py finds in the
\* sessions of a day (cp_sat.py:289-582, scoring.py:48-208).
THEOREM ObjectiveIsTheScore == Spec => []ObjectiveIsScore
<1>1. Spec => []SearchInv
  BY SearchStart, SearchStep, PTL DEF Spec
<1> QED
  BY <1>1, SearchInvIsScore, PTL

-----------------------------------------------------------------------------
(* The order of candidates.                                                *)

\* The order of the numbers.
Less == {ab \in Nat \X Nat : ab[1] < ab[2]}

\* The sorted ids are a list of the ids.
LEMMA SortedIdsList ==
    ASSUME NEW S, IsFiniteSet(S), \A s \in S : s.id \in Nat
    PROVE  LET n == Cardinality(IdsOf(S))
           IN  /\ n \in Nat /\ SortedIds(S) \in [1..n -> Nat]
               /\ IdsOf(S) = {SortedIds(S)[i] : i \in 1..n}
<1> DEFINE K == IdsOf(S)
           n == Cardinality(K)
<1>1. IsFiniteSet(K) /\ K \subseteq Nat
  <2> DEFINE f == [s \in S |-> s.id]
  <2>1. K = {f[s] : s \in S} /\ K \subseteq Nat
    BY DEF IdsOf
  <2>2. DOMAIN f = S
    OBVIOUS
  <2> HIDE DEF f, K
  <2> QED
    BY <2>1, <2>2, CountImage
<1> HIDE DEF K
<1>2. Orders(Less, K)
  BY <1>1 DEF Orders, Less
<1>3. \A x \in K : {y \in K : y < x} = Before(Less, K, x)
  BY <1>1 DEF Before, Less
<1>4. \A i : (CHOOSE x \in K : Cardinality({y \in K : y < x}) = i - 1)
              = CHOOSE x \in K : Cardinality(Before(Less, K, x)) = i - 1
  BY <1>3
<1>5. SortedIds(S) = [i \in 1..n |-> CHOOSE x \in K : Cardinality({y \in K : y < x}) = i - 1]
  BY Zenon DEF SortedIds, InOrder, K
<1>6. SortedIds(S) = Listed(Less, K)
  BY <1>4, <1>5, Zenon DEF Listed
<1>7. /\ Listed(Less, K) \in [1..n -> K]
      /\ \A x \in K : \E i \in 1..n : Listed(Less, K)[i] = x
  BY <1>1, <1>2, ListedAll, Zenon
<1>8. n \in Nat
  BY <1>1, FS_CardinalityType
<1> HIDE DEF n
<1>9. SortedIds(S) \in [1..n -> Nat] /\ K = {SortedIds(S)[i] : i \in 1..n}
  BY <1>1, <1>6, <1>7
<1> QED
  BY <1>8, <1>9 DEF n, K

\* Lists of numbers are compared from the first one that differs.
LEMMA LexOrders ==
    ASSUME NEW a \in Nat, NEW b \in Nat, NEW c \in Nat,
           NEW p \in [1..a -> Nat], NEW q \in [1..b -> Nat], NEW s \in [1..c -> Nat]
    PROVE  /\ ~LexLess(p, p)
           /\ LexLess(p, q) /\ LexLess(q, s) => LexLess(p, s)
           /\ p = q \/ LexLess(p, q) \/ LexLess(q, p)
<1>1. ~LexLess(p, p)
  BY DEF LexLess
<1>2. ASSUME LexLess(p, q), LexLess(q, s) PROVE LexLess(p, s)
  <2>1. PICK i \in 1..b : /\ \A j \in 1..(i - 1) : j \in 1..a /\ p[j] = q[j]
                          /\ i \notin 1..a \/ (i \in 1..a /\ p[i] < q[i])
    BY <1>2 DEF LexLess
  <2>2. PICK k \in 1..c : /\ \A j \in 1..(k - 1) : j \in 1..b /\ q[j] = s[j]
                          /\ k \notin 1..b \/ (k \in 1..b /\ q[k] < s[k])
    BY <1>2 DEF LexLess
  <2>3. CASE i < k
    <3>1. i \in 1..(k - 1) /\ i \in 1..c
      BY <2>3
    <3>2. \A j \in 1..(i - 1) : j \in 1..(k - 1)
      BY <2>3
    <3>3. q[i] = s[i]
      BY <2>2, <3>1
    <3>4. \A j \in 1..(i - 1) : j \in 1..a /\ p[j] = s[j]
      BY <2>1, <2>2, <3>2
    <3>5. i \notin 1..a \/ (i \in 1..a /\ p[i] < s[i])
      BY <2>1, <3>3
    <3> QED
      BY <3>1, <3>4, <3>5 DEF LexLess
  <2>4. CASE k <= i
    <3>1. \A j \in 1..(k - 1) : j \in 1..(i - 1)
      BY <2>4
    <3>2. \A j \in 1..(k - 1) : j \in 1..a /\ p[j] = s[j]
      BY <2>1, <2>2, <3>1
    <3>3. k \in 1..b /\ q[k] < s[k]
      BY <2>2, <2>4
    <3>4. k \notin 1..a \/ (k \in 1..a /\ p[k] < s[k])
      <4>1. CASE k = i
        <5>1. k \in 1..a => p[k] < q[k] /\ p[k] \in Nat /\ q[k] \in Nat /\ s[k] \in Nat
          BY <2>1, <3>3, <4>1
        <5> QED
          BY <3>3, <5>1
      <4>2. CASE k # i
        <5>1. k \in 1..(i - 1)
          BY <2>4, <4>2
        <5> QED
          BY <2>1, <3>3, <5>1
      <4> QED
        BY <4>1, <4>2
    <3> QED
      BY <3>2, <3>4 DEF LexLess
  <2> QED
    BY <2>3, <2>4
<1>3. ASSUME p # q PROVE LexLess(p, q) \/ LexLess(q, p)
  <2> DEFINE Differs == {i \in Nat \ {0} : /\ i \in 1..a \/ i \in 1..b
                                           /\ ~(i \in 1..a /\ i \in 1..b /\ p[i] = q[i])}
  <2>1. Differs # {}
    <3> SUFFICES ASSUME \A i \in Nat \ {0} : i \in 1..a \/ i \in 1..b => i \in 1..a /\ i \in 1..b /\ p[i] = q[i]
                 PROVE  FALSE
      OBVIOUS
    <3>1. 1..a = 1..b
      OBVIOUS
    <3>2. \A i \in 1..a : p[i] = q[i]
      OBVIOUS
    <3> QED
      BY <1>3, <3>1, <3>2
  <2>2. PICK i \in Differs : \A j \in Differs : i <= j
    BY <2>1, Smallest
  <2>3. \A j \in 1..(i - 1) : j \in 1..a /\ j \in 1..b /\ p[j] = q[j]
    <3> TAKE j \in 1..(i - 1)
    <3>1. j \in Nat \ {0} /\ ~(i <= j)
      OBVIOUS
    <3>2. j \notin Differs
      BY <2>2, <3>1
    <3>3. i \in 1..a \/ i \in 1..b
      OBVIOUS
    <3> QED
      BY <3>1, <3>2, <3>3
  <2>4. CASE i \notin 1..a
    BY <2>3, <2>4 DEF LexLess
  <2>5. CASE i \notin 1..b
    BY <2>3, <2>5 DEF LexLess
  <2>6. CASE i \in 1..a /\ i \in 1..b
    <3>1. p[i] \in Nat /\ q[i] \in Nat /\ p[i] # q[i]
      BY <2>6
    <3>2. p[i] < q[i] \/ q[i] < p[i]
      BY <3>1
    <3> QED
      BY <2>3, <2>6, <3>2 DEF LexLess
  <2> QED
    BY <2>4, <2>5, <2>6
<1> QED
  BY <1>1, <1>2, <1>3

\* Lists of numbers of any length.
NumberLists == UNION {[1..n -> Nat] : n \in Nat}

\* The order of lists of numbers is strict and total.
LEMMA LexListOrders ==
    \A p, q, s \in NumberLists :
        /\ ~LexLess(p, p)
        /\ LexLess(p, q) /\ LexLess(q, s) => LexLess(p, s)
        /\ p = q \/ LexLess(p, q) \/ LexLess(q, p)
<1> TAKE p, q, s \in NumberLists
<1>1. PICK a \in Nat : p \in [1..a -> Nat]
  BY DEF NumberLists
<1>2. PICK b \in Nat : q \in [1..b -> Nat]
  BY DEF NumberLists
<1>3. PICK c \in Nat : s \in [1..c -> Nat]
  BY DEF NumberLists
<1> QED
  BY <1>1, <1>2, <1>3, LexOrders, Zenon

\* The candidates made of some selections, and which of two is better.
Candidates(r, F) == {Candidate(r, S) : S \in F}
Betters(r) ==
    LET C == Candidates(r, SUBSET r.sections)
    IN  {ab \in C \X C : Better(ab[1], ab[2])}

\* The order is strict and total, so ties between scores are always broken.
LEMMA BetterOrders ==
    ASSUME NEW r, Solvable(r), NEW F \in SUBSET SUBSET r.sections
    PROVE  /\ IsFiniteSet(F) /\ IsFiniteSet(Candidates(r, F))
           /\ Orders(Betters(r), Candidates(r, F))
           /\ \A a, b \in Candidates(r, F) : <<a, b>> \in Betters(r) <=> Better(a, b)
           /\ InOrder(Candidates(r, F), Better) = Listed(Betters(r), Candidates(r, F))
<1> DEFINE C == Candidates(r, F)
           ids(a) == SortedIds(a.sections)
<1>1. IsFiniteSet(F)
  BY FiniteSelections, FS_SUBSET, FS_Subset
<1>2. IsFiniteSet(C)
  <2> DEFINE f == [S \in F |-> Candidate(r, S)]
  <2>1. C = {f[S] : S \in F}
    BY DEF Candidates
  <2>2. DOMAIN f = F
    OBVIOUS
  <2> HIDE DEF f, C
  <2> QED
    BY <1>1, <2>1, <2>2, CountImage
<1>3. \A a \in C : a = Candidate(r, a.sections) /\ a.sections \in SUBSET r.sections /\ a.score \in Int
  BY ScoreTyped DEF Candidates, Candidate
<1>4. \A a \in C : ids(a) \in NumberLists
  <2> TAKE a \in C
  <2>1. IsFiniteSet(a.sections) /\ \A s \in a.sections : s.id \in Nat
    BY <1>3, FiniteSelections DEF Solvable, WellFormed, WellFormedSection
  <2> QED
    BY <2>1, SortedIdsList DEF NumberLists
<1>5. ASSUME NEW a \in C, NEW b \in C, ids(a) = ids(b) PROVE a = b
  <2>1. \A x \in C : IsFiniteSet(x.sections) /\ \A s \in x.sections : s.id \in Nat
    BY <1>3, FiniteSelections DEF Solvable, WellFormed, WellFormedSection
  <2> DEFINE n(x) == Cardinality(IdsOf(x.sections))
  <2>2. \A x \in {a, b} : n(x) \in Nat /\ ids(x) \in [1..n(x) -> Nat] /\ IdsOf(x.sections) = {ids(x)[i] : i \in 1..n(x)}
    BY <2>1, SortedIdsList
  <2>3. IdsOf(a.sections) = IdsOf(b.sections)
    <3>1. 1..n(a) = 1..n(b)
      BY <1>5, <2>2
    <3> QED
      BY <1>5, <2>2, <3>1
  <2>4. a.sections = b.sections
    <3>1. a.sections \subseteq r.sections /\ b.sections \subseteq r.sections
      BY <1>3
    <3>2. \A s, t \in r.sections : s.id = t.id => s = t
      BY UniqueIds
    <3>3. ASSUME NEW s \in a.sections PROVE s \in b.sections
      <4>1. PICK t \in b.sections : t.id = s.id
        BY <2>3 DEF IdsOf
      <4> QED
        BY <3>1, <3>2, <4>1
    <3>4. ASSUME NEW s \in b.sections PROVE s \in a.sections
      <4>1. PICK t \in a.sections : t.id = s.id
        BY <2>3 DEF IdsOf
      <4> QED
        BY <3>1, <3>2, <4>1
    <3> QED
      BY <3>3, <3>4
  <2> QED
    BY <1>3, <2>4
<1>6. ASSUME NEW a \in C, NEW b \in C PROVE <<a, b>> \in Betters(r) <=> Better(a, b)
  <2>1. a \in Candidates(r, SUBSET r.sections) /\ b \in Candidates(r, SUBSET r.sections)
    BY DEF Candidates
  <2> QED
    BY <2>1, Zenon DEF Betters
<1>7. ASSUME NEW a \in C PROVE ~Better(a, a)
  <2>1. ~LexLess(ids(a), ids(a))
    BY <1>4, LexListOrders
  <2> QED
    BY <1>3, <2>1 DEF Better
<1>8. ASSUME NEW a \in C, NEW b \in C, NEW c \in C, Better(a, b), Better(b, c) PROVE Better(a, c)
  <2>1. LexLess(ids(a), ids(b)) /\ LexLess(ids(b), ids(c)) => LexLess(ids(a), ids(c))
    BY <1>4, LexListOrders
  <2>2. a.score \in Int /\ b.score \in Int /\ c.score \in Int
    BY <1>3
  <2> QED
    BY <1>8, <2>1, <2>2 DEF Better
<1>9. ASSUME NEW a \in C, NEW b \in C, a # b PROVE Better(a, b) \/ Better(b, a)
  <2>1. ids(a) = ids(b) \/ LexLess(ids(a), ids(b)) \/ LexLess(ids(b), ids(a))
    BY <1>4, LexListOrders
  <2>2. a.score \in Int /\ b.score \in Int
    BY <1>3
  <2> QED
    BY <1>5, <1>9, <2>1, <2>2 DEF Better
<1> HIDE DEF C
<1>10. Orders(Betters(r), C)
  BY <1>6, <1>7, <1>8, <1>9 DEF Orders
<1>11. InOrder(C, Better) = Listed(Betters(r), C)
  <2>1. \A x \in C : {y \in C : Better(y, x)} = Before(Betters(r), C, x)
    BY <1>6 DEF Before
  <2>2. \A i : (CHOOSE x \in C : Cardinality({y \in C : Better(y, x)}) = i - 1)
                = CHOOSE x \in C : Cardinality(Before(Betters(r), C, x)) = i - 1
    BY <2>1
  <2>3. InOrder(C, Better) = [i \in 1..Cardinality(C) |->
          CHOOSE x \in C : Cardinality({y \in C : Better(y, x)}) = i - 1]
    BY Zenon DEF InOrder
  <2> QED
    BY <2>2, <2>3, Zenon DEF Listed
<1> QED
  BY <1>1, <1>2, <1>6, <1>10, <1>11 DEF C

-----------------------------------------------------------------------------
(* The greedy choice of the reference search.                              *)

\* A candidate is taken unless there are enough or one of them is near.
Takes(r, taken, c) ==
    IF /\ Len(taken) < r.maxCandidates
       /\ \A k \in DOMAIN taken : Difference(c.sections, taken[k].sections) >= r.minDifference
    THEN Append(taken, c) ELSE taken

\* The results of the choice from the first places of a list.
TakesAll(r, q, it) ==
    it = [s \in SUBSET DOMAIN q |-> IF s = {} THEN << >> ELSE Takes(r, it[s \ {Max(s)}], q[Max(s)])]

\* The choice is such a fold.
LEMMA SelectIsFold ==
    ASSUME NEW r, NEW q
    PROVE  SelectDiverseCandidates(r, q) = (CHOOSE it : TakesAll(r, q, it))[DOMAIN q]
  BY Zenon DEF SelectDiverseCandidates, SeqExt!FoldLeft, SeqExt!MapThenFoldSet, TakesAll, Takes,
               Max, SeqExt!Max

\* What is taken after each of the n candidates.
ChosenBy(taken, r, n, q) ==
    /\ taken[0] = << >>
    /\ \A m \in 1..n : taken[m] = Takes(r, taken[m - 1], q[m])
    /\ SelectDiverseCandidates(r, q) = taken[n]

\* The choice considers the candidates one after another.
LEMMA SelectSteps ==
    ASSUME NEW r, NEW n \in Nat, NEW q, DOMAIN q = 1..n
    PROVE  \E taken : ChosenBy(taken, r, n, q)
<1> DEFINE A == Seq({q[i] : i \in 1..n})
           step == [p \in A \X (1..n) |-> Takes(r, p[1], q[p[2]])]
           it == CHOOSE jt : TakesAll(r, q, jt)
           taken == [m \in 0..n |-> it[1..m]]
<1>1. \A a \in A : \A i \in 1..n : step[<<a, i>>] = Takes(r, a, q[i]) /\ Takes(r, a, q[i]) \in A
  BY DEF Takes
<1>2. << >> \in A
  OBVIOUS
<1> HIDE DEF step, A
<1>0. PICK jt : Iterates(jt, A, << >>, n, step)
  <2>1. \A a \in A : \A i \in 1..n : step[<<a, i>>] \in A
    BY <1>1
  <2> QED
    BY <1>2, <2>1, IteratesExist, Zenon
<1>3. /\ \A s \in SUBSET (1..n) : jt[s] \in A
      /\ jt = [s \in SUBSET (1..n) |->
                 IF s = {} THEN << >> ELSE step[<<jt[s \ {Max(s)}], Max(s)>>]]
  BY <1>0 DEF Iterates
<1>4. \A s \in SUBSET (1..n) : s # {} => Max(s) \in 1..n
  <2>1. \A s \in SUBSET (1..n) : s # {} => s \subseteq 0..n
    OBVIOUS
  <2> QED
    BY <2>1, Bounded
<1>5. \A s \in SUBSET (1..n) : s # {} => step[<<jt[s \ {Max(s)}], Max(s)>>] = Takes(r, jt[s \ {Max(s)}], q[Max(s)])
  BY <1>1, <1>3, <1>4
<1>6. jt = [s \in SUBSET (1..n) |-> IF s = {} THEN << >> ELSE Takes(r, jt[s \ {Max(s)}], q[Max(s)])]
  BY <1>3, <1>5
<1>7. TakesAll(r, q, jt)
  BY <1>6, Zenon DEF TakesAll
<1>8. TakesAll(r, q, it)
  BY <1>7
<1> HIDE DEF it
<1>9. it = [s \in SUBSET (1..n) |-> IF s = {} THEN << >> ELSE Takes(r, it[s \ {Max(s)}], q[Max(s)])]
  BY <1>8, Zenon DEF TakesAll
<1>10. it[{}] = << >> /\ \A s \in SUBSET (1..n) : s # {} => it[s] = Takes(r, it[s \ {Max(s)}], q[Max(s)])
  BY <1>9
<1>11. 1..0 = {}
  OBVIOUS
<1>12. ASSUME NEW m \in 1..n PROVE it[1..m] = Takes(r, it[1..(m - 1)], q[m])
  <2>1. m \in Nat \ {0} /\ 1..m \in SUBSET (1..n)
    OBVIOUS
  <2> QED
    BY <1>10, <2>1, FirstOnes
<1>13. taken[0] = << >> /\ \A m \in 1..n : taken[m] = Takes(r, taken[m - 1], q[m])
  BY <1>10, <1>11, <1>12
<1>14. SelectDiverseCandidates(r, q) = taken[n]
  BY SelectIsFold DEF it
<1> QED
  BY <1>13, <1>14, Zenon DEF ChosenBy

\* An item is near to one that does not come after it, or came when there were enough.
Covered(N, max, q, j, n, c) ==
    \E l \in 0..n : /\ \A k \in 1..l : \E i \in 1..j : c[k] = q[i]
                    /\ l = max \/ \E k \in 1..l : <<q[j], c[k]>> \in N

\* The n items c are a greedy choice among the first m of a list: no two of them
\* are near, and all are covered.
Greedy(N, max, q, m, n, c) ==
    /\ n \in Nat /\ n <= max
    /\ m > 0 => n > 0 /\ c[1] = q[1]
    /\ \A k \in 1..n : \E i \in 1..m : c[k] = q[i]
    /\ \A j, k \in 1..n : j # k => <<c[j], c[k]>> \notin N
    /\ \A j \in 1..m : Covered(N, max, q, j, n, c)

\* What is covered stays so when more is taken.
LEMMA CoveredStill ==
    ASSUME NEW N, NEW max, NEW q, NEW j, NEW n \in Nat, NEW c, Covered(N, max, q, j, n, c),
           NEW p \in Nat, n <= p, NEW d, \A k \in 1..n : d[k] = c[k]
    PROVE  Covered(N, max, q, j, p, d)
<1>1. PICK l \in 0..n : /\ \A k \in 1..l : \E i \in 1..j : c[k] = q[i]
                        /\ l = max \/ \E k \in 1..l : <<q[j], c[k]>> \in N
  BY DEF Covered
<1>2. l \in 0..p /\ \A k \in 1..l : d[k] = c[k]
  OBVIOUS
<1>3. \A k \in 1..l : \E i \in 1..j : d[k] = q[i]
  BY <1>1, <1>2
<1>4. l = max \/ \E k \in 1..l : <<q[j], d[k]>> \in N
  BY <1>1, <1>2
<1> QED
  BY <1>2, <1>3, <1>4 DEF Covered

\* The next item is taken when there is room and none of the taken ones is near.
LEMMA GreedyAdds ==
    ASSUME NEW N, \A a, b : <<a, b>> \in N => <<b, a>> \in N, NEW max \in Nat, NEW q, NEW m \in Nat,
           NEW n, NEW c, Greedy(N, max, q, m, n, c), n < max,
           NEW x, x = q[m + 1], <<x, x>> \in N, \A k \in 1..n : <<x, c[k]>> \notin N,
           NEW d, \A k \in 1..n : d[k] = c[k], d[n + 1] = x
    PROVE  Greedy(N, max, q, m + 1, n + 1, d)
<1>1. /\ n \in Nat /\ (m > 0 => n > 0 /\ c[1] = q[1])
      /\ \A k \in 1..n : \E i \in 1..m : c[k] = q[i]
      /\ \A j, k \in 1..n : j # k => <<c[j], c[k]>> \notin N
      /\ \A j \in 1..m : Covered(N, max, q, j, n, c)
  BY DEF Greedy
<1>2. d[1] = q[1]
  <2>1. CASE m = 0
    <3>1. n = 0
      <4>1. 1..m = {}
        BY <2>1
      <4>2. 1..n = {}
        BY <1>1, <4>1
      <4> QED
        BY <1>1, <4>2
    <3> QED
      BY <2>1, <3>1
  <2>2. CASE m > 0
    BY <1>1, <2>2
  <2> QED
    BY <2>1, <2>2
<1>3. ASSUME NEW k \in 1..(n + 1) PROVE \E i \in 1..(m + 1) : d[k] = q[i]
  <2>1. CASE k = n + 1
    BY <2>1
  <2>2. CASE k # n + 1
    <3>1. k \in 1..n
      BY <1>1, <2>2
    <3>2. PICK i \in 1..m : c[k] = q[i]
      BY <1>1, <3>1
    <3>3. i \in 1..(m + 1) /\ d[k] = q[i]
      BY <3>1, <3>2
    <3> QED
      BY <3>3
  <2> QED
    BY <2>1, <2>2
<1>4. ASSUME NEW j \in 1..(n + 1), NEW k \in 1..(n + 1), j # k PROVE <<d[j], d[k]>> \notin N
  <2>1. \A i \in 1..(n + 1) : i = n + 1 \/ i \in 1..n
    BY <1>1
  <2>2. CASE j = n + 1
    <3>1. k \in 1..n
      BY <1>4, <2>1, <2>2
    <3>2. <<x, c[k]>> \notin N /\ d[k] = c[k]
      BY <3>1
    <3> QED
      BY <2>2, <3>2
  <2>3. CASE k = n + 1
    <3>1. j \in 1..n
      BY <1>4, <2>1, <2>3
    <3>2. <<x, c[j]>> \notin N /\ d[j] = c[j]
      BY <3>1
    <3>3. <<c[j], x>> \notin N
      BY <3>2, Zenon
    <3> QED
      BY <2>3, <3>2, <3>3
  <2>4. CASE j \in 1..n /\ k \in 1..n
    BY <1>1, <1>4, <2>4
  <2> QED
    BY <2>1, <2>2, <2>3, <2>4
<1>5. ASSUME NEW j \in 1..(m + 1) PROVE Covered(N, max, q, j, n + 1, d)
  <2>1. CASE j = m + 1
    <3>1. n + 1 \in 0..(n + 1) /\ n + 1 \in 1..(n + 1) /\ <<q[j], d[n + 1]>> \in N
      BY <1>1, <2>1
    <3>2. \A k \in 1..(n + 1) : \E i \in 1..j : d[k] = q[i]
      BY <1>3, <2>1
    <3> QED
      BY <3>1, <3>2, Zenon DEF Covered
  <2>2. CASE j # m + 1
    <3>1. j \in 1..m /\ n + 1 \in Nat /\ n <= n + 1
      BY <1>1, <2>2
    <3> QED
      BY <1>1, <3>1, CoveredStill
  <2> QED
    BY <2>1, <2>2
<1> QED
  BY <1>1, <1>2, <1>3, <1>4, <1>5 DEF Greedy

\* It is left out when there are enough or one of them is near.
LEMMA GreedySkips ==
    ASSUME NEW N, NEW max \in Nat \ {0}, NEW q, NEW m \in Nat,
           NEW n, NEW c, Greedy(N, max, q, m, n, c),
           n = max \/ \E k \in 1..n : <<q[m + 1], c[k]>> \in N
    PROVE  Greedy(N, max, q, m + 1, n, c)
<1>1. /\ n \in Nat /\ (m > 0 => n > 0 /\ c[1] = q[1])
      /\ \A k \in 1..n : \E i \in 1..m : c[k] = q[i]
      /\ \A j \in 1..m : Covered(N, max, q, j, n, c)
  BY DEF Greedy
<1>2. n > 0 /\ m > 0
  <2>1. n > 0
    <3>1. CASE n = max
      BY <3>1
    <3>2. CASE \E k \in 1..n : <<q[m + 1], c[k]>> \in N
      <4>1. 1..n # {}
        BY <3>2
      <4> QED
        BY <1>1, <4>1
    <3> QED
      BY <3>1, <3>2
  <2>2. 1 \in 1..n
    BY <1>1, <2>1
  <2>3. \E i \in 1..m : c[1] = q[i]
    BY <1>1, <2>2
  <2> QED
    BY <2>1, <2>3
<1>3. \A k \in 1..n : \E i \in 1..(m + 1) : c[k] = q[i]
  <2>1. 1..m \subseteq 1..(m + 1)
    OBVIOUS
  <2> QED
    BY <1>1, <2>1, Zenon
<1>4. ASSUME NEW j \in 1..(m + 1) PROVE Covered(N, max, q, j, n, c)
  <2>1. CASE j = m + 1
    <3>1. n \in 0..n /\ \A k \in 1..n : \E i \in 1..j : c[k] = q[i]
      BY <1>1, <1>3, <2>1
    <3> QED
      BY <2>1, <3>1, Zenon DEF Covered
  <2>2. CASE j # m + 1
    <3>1. j \in 1..m
      BY <2>2
    <3> QED
      BY <1>1, <3>1
  <2> QED
    BY <2>1, <2>2
<1> QED
  BY <1>1, <1>2, <1>3, <1>4 DEF Greedy

\* Which of some candidates are near to each other.
Nears(r, E) == {ab \in E \X E : Difference(ab[1].sections, ab[2].sections) < r.minDifference}

\* The choice among all of them.
LEMMA GreedyChoice ==
    ASSUME NEW r, r.maxCandidates \in Nat \ {0}, r.minDifference \in Nat \ {0},
           NEW E, \A a, b \in E : Difference(a.sections, b.sections) \in Nat,
           \A a \in E : Difference(a.sections, a.sections) = 0,
           NEW n \in Nat, NEW q \in [1..n -> E]
    PROVE  LET c == SelectDiverseCandidates(r, q)
           IN  c \in Seq(E) /\ Greedy(Nears(r, E), r.maxCandidates, q, n, Len(c), c)
<1> DEFINE N == Nears(r, E)
           max == r.maxCandidates
<1>0. PICK taken : ChosenBy(taken, r, n, q)
  BY SelectSteps
<1>1. /\ taken[0] = << >>
      /\ \A m \in 1..n : taken[m] = Takes(r, taken[m - 1], q[m])
      /\ SelectDiverseCandidates(r, q) = taken[n]
  BY <1>0 DEF ChosenBy
<1>2. \A a, b : <<a, b>> \in N => <<b, a>> \in N
  <2>1. \A S, T : Difference(S, T) = Difference(T, S)
    <3>1. \A S, T : SymDiff(S, T) = SymDiff(T, S)
      BY DEF SymDiff
    <3> QED
      BY <3>1 DEF Difference
  <2> QED
    BY <2>1 DEF Nears
<1>3. \A a \in E : <<a, a>> \in N
  BY DEF Nears
<1>4. \A a, b \in E : <<a, b>> \notin N <=> Difference(a.sections, b.sections) >= r.minDifference
  BY DEF Nears
<1> HIDE DEF N
<1> DEFINE G == {m \in Nat : m <= n => taken[m] \in Seq(E) /\ Greedy(N, max, q, m, Len(taken[m]), taken[m])}
<1>5. 0 \in G
  <2>1. << >> \in Seq(E) /\ Len(<< >>) = 0 /\ 1..0 = {}
    OBVIOUS
  <2>2. Greedy(N, max, q, 0, 0, << >>)
    BY <2>1 DEF Greedy
  <2> QED
    BY <1>1, <2>1, <2>2
<1>6. ASSUME NEW m \in Nat, m \in G PROVE m + 1 \in G
  <2> SUFFICES ASSUME m + 1 <= n
               PROVE  taken[m + 1] \in Seq(E) /\ Greedy(N, max, q, m + 1, Len(taken[m + 1]), taken[m + 1])
    OBVIOUS
  <2>1. m + 1 \in 1..n /\ (m + 1) - 1 = m /\ q[m + 1] \in E
    OBVIOUS
  <2> DEFINE old == taken[m]
             x == q[m + 1]
  <2>2. old \in Seq(E) /\ Greedy(N, max, q, m, Len(old), old)
    BY <1>6
  <2>3. taken[m + 1] = Takes(r, old, x)
    BY <1>1, <2>1
  <2> HIDE DEF old, G
  <2>4. /\ Len(old) \in Nat /\ DOMAIN old = 1..Len(old) /\ Len(old) <= max
        /\ \A k \in 1..Len(old) : old[k] \in E
    BY <2>2 DEF Greedy
  <2>5. \A k \in 1..Len(old) :
          <<x, old[k]>> \notin N <=> Difference(x.sections, old[k].sections) >= r.minDifference
    BY <1>4, <2>1, <2>4
  <2> HIDE DEF x
  <2>6. CASE Len(old) < max /\ \A k \in 1..Len(old) : <<x, old[k]>> \notin N
    <3>1. taken[m + 1] = Append(old, x)
      BY <2>3, <2>4, <2>5, <2>6, Zenon DEF Takes
    <3> DEFINE d == taken[m + 1]
    <3>2. d \in Seq(E) /\ Len(d) = Len(old) + 1
      BY <2>1, <2>2, <3>1 DEF x
    <3>3. d[Len(old) + 1] = x /\ \A k \in 1..Len(old) : d[k] = old[k]
      BY <2>2, <2>4, <3>1
    <3>4. x = q[m + 1] /\ <<x, x>> \in N
      BY <1>3, <2>1 DEF x
    <3> HIDE DEF d
    <3>5. Greedy(N, max, q, m + 1, Len(old) + 1, d)
      BY <1>2, <2>2, <2>6, <3>3, <3>4, GreedyAdds
    <3> QED
      BY <3>2, <3>5 DEF d
  <2>7. CASE ~(Len(old) < max /\ \A k \in 1..Len(old) : <<x, old[k]>> \notin N)
    <3>1. taken[m + 1] = old
      BY <2>3, <2>4, <2>5, <2>7, Zenon DEF Takes
    <3>2. Len(old) = max \/ \E k \in 1..Len(old) : <<q[m + 1], old[k]>> \in N
      <4>1. CASE Len(old) < max
        BY <2>7, <4>1, Zenon DEF x
      <4>2. CASE ~(Len(old) < max)
        BY <2>4, <4>2
      <4> QED
        BY <4>1, <4>2
    <3>3. Greedy(N, max, q, m + 1, Len(old), old)
      BY <2>2, <3>2, GreedySkips
    <3>4. Len(old) \in Nat
      BY <2>4
    <3> QED
      BY <2>2, <3>1, <3>3, <3>4, Zenon
  <2> QED
    BY <2>6, <2>7
<1> HIDE DEF G
<1>7. Nat \subseteq G
  BY <1>5, <1>6, Counting
<1> QED
  BY <1>1, <1>7 DEF G, N

-----------------------------------------------------------------------------
(* The reference search has the problem and its score in common with the    *)
(* production search.                                                       *)

\* Sums, counts, maxima and minima.
LEMMA SameSums ==
    /\ \A f : Reference!SumFunction(f) = SumFunction(f)
    /\ \A S : Reference!Cardinality(S) = Cardinality(S)
    /\ \A S : Reference!IsFiniteSet(S) <=> IsFiniteSet(S)
    /\ \A S : Reference!Max(S) = Max(S)
    /\ \A S : Reference!Min(S) = Min(S)
<1>1. \A f : Reference!SumFunction(f) = SumFunction(f)
  BY Zenon DEF SumFunction, SumFunctionOnSet, FoldFunctionOnSet, MapThenFoldSet,
     Reference!SumFunction, Reference!SumFunctionOnSet, Reference!FoldFunctionOnSet, Reference!MapThenFoldSet
<1>2. \A S : Reference!Cardinality(S) = Cardinality(S)
  BY DEF Reference!Cardinality, Cardinality, Reference!IsFiniteSet, IsFiniteSet
<1>3. \A S : Reference!IsFiniteSet(S) <=> IsFiniteSet(S)
  BY DEF Reference!IsFiniteSet, IsFiniteSet
<1>4. (\A S : Reference!Max(S) = Max(S)) /\ (\A S : Reference!Min(S) = Min(S))
  BY Zenon DEF Max, Min, Reference!Max, Reference!Min
<1> QED
  BY <1>1, <1>2, <1>3, <1>4

\* The problem and its constraints.
LEMMA SameProblem ==
    /\ \A r : Reference!WellFormed(r) <=> WellFormed(r)
    /\ \A r : Reference!ValidRequest(r) <=> ValidRequest(r)
    /\ \A S : Reference!CreditsOf(S) = CreditsOf(S)
    /\ \A r, S : Reference!SelectionIsFeasible(r, S) <=> SelectionIsFeasible(r, S)
    /\ \A r : Reference!FeasibleSelections(r) = FeasibleSelections(r)
<1>1. \A S : Reference!CreditsOf(S) = CreditsOf(S) /\ Reference!MinutesOf(S) = MinutesOf(S)
  BY SameSums, Zenon DEF Reference!CreditsOf, CreditsOf, Reference!MinutesOf, MinutesOf, Reference!SumOver, SumOver
<1>2. \A r : Reference!WellFormed(r) <=> WellFormed(r)
  BY SameSums, Zenon DEF Reference!WellFormed, WellFormed, WellFormedSection, WellFormedGroup,
     WellFormedPreferences, WeightNames, WellFormedWeights, Session, Reference!WellFormedSection,
     Reference!WellFormedGroup, Reference!WellFormedPreferences, Reference!WeightNames,
     Reference!WellFormedWeights, Reference!Session
<1>3. \A S : Reference!OneSectionPerCourse(S) <=> OneSectionPerCourse(S)
  BY SameSums, Zenon DEF Reference!OneSectionPerCourse, OneSectionPerCourse, Reference!CoursesOf, CoursesOf
<1>4. \A r : Reference!ValidRequest(r) <=> ValidRequest(r)
  BY <1>3, SameSums, Zenon DEF Reference!ValidRequest, ValidRequest, Reference!IdsOf, IdsOf, Reference!WithIds, WithIds,
     Reference!Muddled, Muddled, Reference!Overlap, Overlap
<1>5. /\ \A r, s : Reference!OutsideHardTimes(r, s) <=> OutsideHardTimes(r, s)
      /\ \A S : Reference!NoConflicts(S) <=> NoConflicts(S)
      /\ \A S : Reference!IdsOf(S) = IdsOf(S) /\ Reference!CoursesOf(S) = CoursesOf(S)
  BY Zenon DEF Reference!OutsideHardTimes, OutsideHardTimes, Reference!NoConflicts, NoConflicts, Reference!Conflict,
     Conflict, Reference!Overlap, Overlap, Reference!IdsOf, IdsOf, Reference!CoursesOf, CoursesOf
<1>6. \A r, S : Reference!GapsWithin(r, S) <=> GapsWithin(r, S)
  <2>1. \A M : Reference!DayGap(M) = DayGap(M)
    BY <1>1, SameSums, Zenon DEF Reference!DayGap, DayGap
  <2>2. \A S, d : Reference!On(Reference!MeetingsOf(S), d) = On(MeetingsOf(S), d)
    BY Zenon DEF Reference!On, On, Reference!MeetingsOf, MeetingsOf
  <2> QED
    BY <2>1, <2>2, Zenon DEF Reference!GapsWithin, GapsWithin
<1>7. ASSUME NEW r, NEW S
      PROVE  Reference!SelectionIsFeasible(r, S) <=> SelectionIsFeasible(r, S)
  BY <1>1, <1>3, <1>5, <1>6, SameSums, Zenon DEF Reference!SelectionIsFeasible, SelectionIsFeasible
<1>8. ASSUME NEW r
      PROVE  Reference!FeasibleSelections(r) = FeasibleSelections(r)
  BY <1>7 DEF Reference!FeasibleSelections, FeasibleSelections
<1> QED
  BY <1>1, <1>2, <1>4, <1>7, <1>8, Zenon

\* The score.
LEMMA SameScore ==
    \A r, S : Reference!Candidate(r, S) = Candidate(r, S)
<1>1. \A q : Reference!LongestLunchBreak(q) = LongestLunchBreak(q)
  BY Zenon DEF Reference!LongestLunchBreak, LongestLunchBreak, SeqExt!FoldLeft, SeqExt!MapThenFoldSet, SeqExt!Max,
     Reference!SeqExt!FoldLeft, Reference!SeqExt!MapThenFoldSet, Reference!SeqExt!Max,
     Max, Min, Reference!Max, Reference!Min
<1>2. \A q : Reference!GapMinutes(q) = GapMinutes(q)
  BY Zenon, SameSums DEF Reference!GapMinutes, GapMinutes, Reference!SumOver, SumOver, Reference!AtLeastZero, AtLeastZero
<1>3. \A q : Reference!MovementTransitions(q) = MovementTransitions(q)
  BY Zenon, SameSums DEF Reference!MovementTransitions, MovementTransitions, Reference!AtLeastZero, AtLeastZero
<1>4. /\ \A S : Reference!MeetingsOf(S) = MeetingsOf(S)
      /\ \A M, d : Reference!On(M, d) = On(M, d)
      /\ \A S : Reference!CampusDays(S) = CampusDays(S)
      /\ \A r, m : Reference!Early(r, m) = Early(r, m) /\ Reference!Late(r, m) = Late(r, m)
      /\ \A n : Reference!AtLeastZero(n) = AtLeastZero(n) /\ Reference!Absolute(n) = Absolute(n)
      /\ \A r, S : Reference!ChangedCourses(r, S) = ChangedCourses(r, S)
  BY Zenon DEF Reference!MeetingsOf, MeetingsOf, Reference!On, On, Reference!CampusDays, CampusDays,
     Reference!Early, Early, Reference!Late, Late, Reference!AtLeastZero, AtLeastZero, Reference!Absolute, Absolute,
     Reference!ChangedCourses, ChangedCourses, Reference!CurrentOf, CurrentOf, Reference!WithIds, WithIds,
     Reference!CoursesOf, CoursesOf
<1>5. \A S, d : Reference!DailySessions(S, d) = DailySessions(S, d)
  BY Zenon DEF Reference!DailySessions, DailySessions, Reference!InOrder, InOrder, Reference!EarlierThan, EarlierThan,
     Reference!Place, Place, Reference!On, On, Reference!MeetingsOf, MeetingsOf,
     Reference!Cardinality, Cardinality, Reference!IsFiniteSet, IsFiniteSet
<1>6. \A M : Reference!MinutesOf(M) = MinutesOf(M)
  BY Zenon, SameSums DEF Reference!MinutesOf, MinutesOf, Reference!SumOver, SumOver
<1>7. ASSUME NEW r, NEW S PROVE Reference!Breakdown(r, S) = Breakdown(r, S)
  BY <1>1, <1>2, <1>3, <1>4, <1>5, <1>6, SameSums, SameProblem, Zenon
     DEF Reference!Breakdown, Breakdown, Reference!SumOver, SumOver
<1> DEFINE Weighed(r, b) ==
        PercentBase * (b.campusDays * r.weights.campusDay + b.daysOff * r.weights.dayOff + b.early * r.weights.early
                       + b.late * r.weights.late + b.avoided * r.weights.avoided
                       + b.unknownTime * r.weights.unknownTime + b.movement * r.weights.movement
                       + b.overflow * r.weights.overflow + b.lunch * r.weights.lunch
                       + (IF r.minimizeChanges THEN b.changed * r.weights.change ELSE 0)
                       + b.deviation * r.weights.target)
        + b.gap * r.weights.gap * r.gapPercent
<1>8. ASSUME NEW r, NEW S PROVE Reference!WeightedScore(r, S) = WeightedScore(r, S)
  <2>1. WeightedScore(r, S) = Weighed(r, Breakdown(r, S))
    BY Zenon DEF WeightedScore
  <2>2. Reference!WeightedScore(r, S) = Weighed(r, Reference!Breakdown(r, S))
    BY Zenon DEF Reference!WeightedScore
  <2> HIDE DEF Weighed
  <2> QED
    BY <1>7, <2>1, <2>2, Zenon
<1> QED
  BY <1>8, Zenon DEF Reference!Candidate, Candidate

\* The order of candidates and the choice among them.
LEMMA SameOrder ==
    /\ \A a, b : Reference!Better(a, b) <=> Better(a, b)
    /\ \A S, T : Reference!Difference(S, T) = Difference(S, T)
    /\ \A r, q : Reference!SelectDiverseCandidates(r, q) = SelectDiverseCandidates(r, q)
<1>1. \A a, b : Reference!Better(a, b) <=> Better(a, b)
  BY Zenon DEF Reference!Better, Better, Reference!SortedIds, SortedIds, Reference!LexLess, LexLess,
     Reference!InOrder, InOrder, Reference!IdsOf, IdsOf, Reference!Cardinality, Cardinality,
     Reference!IsFiniteSet, IsFiniteSet
<1>2. \A S, T : Reference!Difference(S, T) = Difference(S, T)
  BY SameSums, Zenon DEF Reference!Difference, Difference, Reference!SymDiff, SymDiff, Reference!IdsOf, IdsOf
<1>3. \A r, q : Reference!SelectDiverseCandidates(r, q) = SelectDiverseCandidates(r, q)
  BY Zenon DEF SelectDiverseCandidates, SeqExt!FoldLeft, SeqExt!MapThenFoldSet, SeqExt!Max,
     Reference!SelectDiverseCandidates, Reference!SeqExt!FoldLeft, Reference!SeqExt!MapThenFoldSet,
     Reference!SeqExt!Max, Reference!Difference, Difference, Reference!SymDiff, SymDiff, Reference!IdsOf, IdsOf,
     Reference!Cardinality, Cardinality, Reference!IsFiniteSet, IsFiniteSet
<1> QED
  BY <1>1, <1>2, <1>3, Zenon

-----------------------------------------------------------------------------
(* The reference search.  A call decides about the courses from its index  *)
(* on; a selection is below a call that agrees with it on the courses      *)
(* before.  The calls are apart, and none of the feasible selections that  *)
(* are not found yet is missed by all of them.                             *)

\* A problem of the reference search that is accepted.
Searchable(r) == Solvable(r) /\ CoursesOf(r.sections) \subseteq Nat

\* The courses in the order in which the search decides about them.
Order(r) == Reference!CoursesInOrder(r)

\* Every open course comes once.
LEMMA CourseList ==
    ASSUME NEW r, Searchable(r)
    PROVE  LET C == Reference!CoursesOf(Reference!Open(r))
               n == Len(Order(r))
           IN  /\ n \in Nat /\ Order(r) \in [1..n -> C]
               /\ \A c \in C : \E i \in 1..n : Order(r)[i] = c
               /\ \A i, j \in 1..n : Order(r)[i] = Order(r)[j] => i = j
<1> DEFINE C == Reference!CoursesOf(Reference!Open(r))
           m == Cardinality(C)
<1>1. IsFiniteSet(C) /\ C \subseteq Nat
  <2> DEFINE T == Reference!Open(r)
             f == [s \in T |-> s.course]
  <2>1. T \in SUBSET r.sections
    BY DEF Reference!Open
  <2>2. IsFiniteSet(T) /\ \A s \in T : s.course \in Nat
    BY <2>1, FiniteSelections DEF Searchable, CoursesOf
  <2>3. C = {f[s] : s \in T} /\ C \subseteq Nat
    BY <2>2 DEF Reference!CoursesOf
  <2>4. DOMAIN f = T
    OBVIOUS
  <2> HIDE DEF f, C, T
  <2> QED
    BY <2>2, <2>3, <2>4, CountImage
<1> HIDE DEF C
<1>2. Orders(Less, C)
  BY <1>1 DEF Orders, Less
<1>3. \A x \in C : {y \in C : y < x} = Before(Less, C, x)
  BY <1>1 DEF Before, Less
<1>4. \A i : (CHOOSE x \in C : Cardinality({y \in C : y < x}) = i - 1)
              = CHOOSE x \in C : Cardinality(Before(Less, C, x)) = i - 1
  BY <1>3
<1>5. Order(r) = [i \in 1..m |-> CHOOSE x \in C : Cardinality({y \in C : y < x}) = i - 1]
  BY Zenon DEF Order, Reference!CoursesInOrder, Reference!InOrder, C, Reference!Cardinality, Cardinality,
               Reference!IsFiniteSet, IsFiniteSet
<1>6. Order(r) = Listed(Less, C)
  BY <1>4, <1>5, Zenon DEF Listed
<1>7. /\ Listed(Less, C) \in [1..m -> C]
      /\ \A x \in C : \E i \in 1..m : Listed(Less, C)[i] = x
      /\ \A i, j \in 1..m : i < j => <<Listed(Less, C)[i], Listed(Less, C)[j]>> \in Less
  BY <1>1, <1>2, ListedAll, Zenon
<1>8. m \in Nat
  BY <1>1, FS_CardinalityType
<1> HIDE DEF m
<1>9. Order(r) \in [1..m -> C] /\ Len(Order(r)) = m
  BY <1>6, <1>7, <1>8
<1>10. \A i, j \in 1..m : Order(r)[i] = Order(r)[j] => i = j
  <2> SUFFICES ASSUME NEW i \in 1..m, NEW j \in 1..m, Order(r)[i] = Order(r)[j], i < j PROVE FALSE
    OBVIOUS
  <2>1. <<Order(r)[i], Order(r)[j]>> \in Less
    BY <1>6, <1>7
  <2> QED
    BY <2>1 DEF Less
<1> QED
  BY <1>6, <1>7, <1>8, <1>9, <1>10 DEF C

\* The sections that can be taken for a course.
Sections(r, c) == {s \in Reference!Open(r) : s.course = c}

\* A course is left out or taken with one of its sections, each in one option;
\* a locked section is the only option.
OptionsOf(r, c, n, options) ==
    /\ n \in Nat
    /\ \A k \in 1..n : options[k] \in SUBSET r.sections /\ \A s \in options[k] : s.course = c
    /\ \A j, k \in 1..n : options[j] = options[k] => j = k
    /\ Reference!LockedOf(r, c) # {} => \E k \in 1..n : options[k] = Reference!LockedOf(r, c)
    /\ Reference!LockedOf(r, c) = {} =>
          /\ \E k \in 1..n : options[k] = {}
          /\ \A s \in Sections(r, c) : \E k \in 1..n : options[k] = {s}

\* The option of a course with a locked section.
LEMMA LockedOption ==
    ASSUME NEW r, NEW c, Reference!LockedOf(r, c) # {}
    PROVE  /\ Len(Reference!Options(r, c)) = 1
           /\ OptionsOf(r, c, 1, Reference!Options(r, c))
<1> DEFINE options == Reference!Options(r, c)
           locked == Reference!LockedOf(r, c)
<1>1. locked \in SUBSET r.sections /\ \A s \in locked : s.course = c
  BY DEF Reference!LockedOf, Reference!WithIds
<1>2. options = [i \in 1..Cardinality({locked}) |->
                   CHOOSE x \in {locked} : Cardinality({y \in {locked} : FALSE}) = i - 1]
  BY Zenon DEF Reference!Options, Reference!InOrder, Reference!Cardinality, Cardinality,
             Reference!IsFiniteSet, IsFiniteSet
<1> HIDE DEF locked, options
<1>3. Cardinality({locked}) = 1 /\ Cardinality({}) = 0
  BY FS_Singleton, FS_EmptySet
<1>4. Cardinality({y \in {locked} : FALSE}) = 0
  <2>1. {y \in {locked} : FALSE} = {}
    OBVIOUS
  <2> QED
    BY <1>3, <2>1
<1> DEFINE first(i) == CHOOSE x \in {locked} : Cardinality({y \in {locked} : FALSE}) = i - 1
<1>5. first(1) = locked
  BY <1>4
<1>6. options = [i \in 1..1 |-> first(i)]
  <2>1. Cardinality({locked}) = 1
    BY <1>3
  <2> QED
    BY <1>2, <2>1, Zenon
<1> HIDE DEF first
<1>10. options[1] = locked
  BY <1>5, <1>6
<1>7. options = [i \in 1..1 |-> locked] /\ Len(options) = 1
  <2>1. \A i \in 1..1 : i = 1
    OBVIOUS
  <2>2. \A i \in 1..1 : options[i] = locked
    BY <1>10, <2>1
  <2>3. options = [i \in 1..1 |-> options[i]]
    BY <1>6
  <2>4. options = [i \in 1..1 |-> locked]
    BY <2>2, <2>3
  <2> QED
    BY <2>4
<1>8. \A k \in 1..1 : k = 1
  OBVIOUS
<1>9. OptionsOf(r, c, 1, options)
  <2>1. \A k \in 1..1 : options[k] \in SUBSET r.sections /\ \A s \in options[k] : s.course = c
    BY <1>1, <1>8, <1>10
  <2>2. 1 \in 1..1 /\ options[1] = Reference!LockedOf(r, c) /\ 1 \in Nat
    BY <1>10 DEF locked
  <2> QED
    BY <1>8, <2>1, <2>2 DEF OptionsOf
<1> QED
  BY <1>7, <1>9 DEF options

\* The sections of another course are listed by their ids.
LEMMA OpenSections ==
    ASSUME NEW r, Searchable(r), NEW c, Reference!LockedOf(r, c) = {}
    PROVE  LET K == Sections(r, c)
               m == Cardinality(K)
               q == Listed(Upwards(K), K)
           IN  /\ m \in Nat /\ q \in [1..m -> K]
               /\ \A x \in K : \E i \in 1..m : q[i] = x
               /\ \A i, j \in 1..m : q[i] = q[j] => i = j
               /\ Reference!Options(r, c) = <<{}>> \o [k \in 1..m |-> {q[k]}]
<1> DEFINE K == Sections(r, c)
           m == Cardinality(K)
           q == Listed(Upwards(K), K)
<1>1. K \in SUBSET r.sections
  BY DEF Sections, Reference!Open
<1>2. IsFiniteSet(K) /\ (\A s \in K : s.id \in Nat) /\ \A s, t \in K : s.id = t.id => s = t
  BY <1>1, FiniteSelections, UniqueIds DEF Searchable, Solvable, WellFormed, WellFormedSection
<1>0. Sections(r, c) = K
  OBVIOUS
<1> HIDE DEF K
<1>3. Orders(Upwards(K), K) /\ \A x \in K : {y \in K : y.id < x.id} = Before(Upwards(K), K, x)
  BY <1>2, IdsOrder
<1>4. \A i : (CHOOSE x \in K : Cardinality({y \in K : y.id < x.id}) = i - 1)
            = CHOOSE x \in K : Cardinality(Before(Upwards(K), K, x)) = i - 1
  BY <1>3
<1>5. m \in Nat
  BY <1>2, FS_CardinalityType
<1>6. /\ Listed(Upwards(K), K) \in [1..m -> K]
      /\ \A x \in K : \E i \in 1..m : Listed(Upwards(K), K)[i] = x
      /\ \A i, j \in 1..m : i < j => <<Listed(Upwards(K), K)[i], Listed(Upwards(K), K)[j]>> \in Upwards(K)
  <2>1. IsFiniteSet(K)
    BY <1>2
  <2>2. Orders(Upwards(K), K)
    BY <1>3
  <2> QED
    BY <2>1, <2>2, ListedAll, Zenon
<1> DEFINE sections == [i \in 1..m |-> CHOOSE x \in K : Cardinality({y \in K : y.id < x.id}) = i - 1]
<1>7. sections = q
  <2> SUFFICES ASSUME NEW z, z = sections PROVE z = q
    OBVIOUS
  <2>1. z = [i \in 1..m |-> CHOOSE x \in K : Cardinality({y \in K : y.id < x.id}) = i - 1]
    OBVIOUS
  <2> HIDE DEF sections
  <2> QED
    BY <1>4, <2>1, Zenon DEF Listed
<1>8. Reference!Options(r, c) = <<{}>> \o [k \in DOMAIN sections |-> {sections[k]}]
  BY Zenon DEF Reference!Options, Reference!InOrder, Reference!Cardinality, Cardinality,
             Reference!IsFiniteSet, IsFiniteSet, K, Sections
<1> HIDE DEF sections
<1>9. /\ q \in [1..m -> K]
      /\ \A x \in K : \E i \in 1..m : q[i] = x
      /\ \A i, j \in 1..m : i < j => <<q[i], q[j]>> \in Upwards(K)
  BY <1>6, Zenon
<1> HIDE DEF m, q
<1>10. \A i, j \in 1..m : q[i] = q[j] => i = j
  <2> SUFFICES ASSUME NEW i \in 1..m, NEW j \in 1..m, q[i] = q[j], i < j PROVE FALSE
    BY <1>5
  <2>1. <<q[i], q[j]>> \in Upwards(K) /\ q[i] \in K
    BY <1>9
  <2> QED
    BY <1>2, <2>1 DEF Upwards
<1>11. Reference!Options(r, c) = <<{}>> \o [k \in 1..m |-> {q[k]}]
  <2>1. DOMAIN q = 1..m
    BY <1>9
  <2> QED
    BY <1>7, <1>8, <2>1, Zenon
<1> QED
  BY <1>5, <1>9, <1>10, <1>11, Zenon DEF m, q, K

\* The options of a course without one.
LEMMA OpenOptions ==
    ASSUME NEW r, Searchable(r), NEW c, Reference!LockedOf(r, c) = {}
    PROVE  LET n == Cardinality(Sections(r, c)) + 1
           IN  /\ Len(Reference!Options(r, c)) = n
               /\ OptionsOf(r, c, n, Reference!Options(r, c))
<1> DEFINE K == Sections(r, c)
           m == Cardinality(K)
           q == Listed(Upwards(K), K)
           options == Reference!Options(r, c)
<1>1. /\ m \in Nat /\ q \in [1..m -> K]
      /\ \A x \in K : \E i \in 1..m : q[i] = x
      /\ \A i, j \in 1..m : q[i] = q[j] => i = j
      /\ options = <<{}>> \o [k \in 1..m |-> {q[k]}]
  BY OpenSections, Zenon
<1>2. K \in SUBSET r.sections /\ \A s \in K : s.course = c
  BY DEF Sections, Reference!Open
<1>3. Cardinality(Sections(r, c)) = m /\ K = Sections(r, c) /\ options = Reference!Options(r, c)
  OBVIOUS
<1> HIDE DEF m, q, K, options
<1> DEFINE n == m + 1
<1>4. Len(options) = n /\ options[1] = {} /\ \A k \in 1..m : options[k + 1] = {q[k]}
  BY <1>1
<1>5. \A k \in 1..n : k = 1 \/ \E i \in 1..m : k = i + 1
  <2> TAKE k \in 1..n
  <2>1. k # 1 => k - 1 \in 1..m /\ k = (k - 1) + 1
    BY <1>1
  <2> QED
    BY <2>1
<1>6. ASSUME NEW k \in 1..n PROVE options[k] \in SUBSET r.sections /\ \A s \in options[k] : s.course = c
  <2>1. CASE k = 1
    BY <1>4, <2>1
  <2>2. CASE k # 1
    <3>1. PICK i \in 1..m : k = i + 1
      BY <1>5, <2>2
    <3>2. options[k] = {q[i]} /\ q[i] \in K
      BY <1>1, <1>4, <3>1
    <3> QED
      BY <1>2, <3>2
  <2> QED
    BY <2>1, <2>2
<1>7. ASSUME NEW j \in 1..n, NEW k \in 1..n, options[j] = options[k] PROVE j = k
  <2>1. CASE j = 1 \/ k = 1
    <3> SUFFICES ASSUME NEW i \in 1..m, options[i + 1] = {} PROVE FALSE
      BY <1>4, <1>5, <1>7, <2>1
    <3> QED
      BY <1>4
  <2>2. CASE j # 1 /\ k # 1
    <3>1. PICK a \in 1..m : j = a + 1
      BY <1>5, <2>2
    <3>2. PICK b \in 1..m : k = b + 1
      BY <1>5, <2>2
    <3>3. q[a] = q[b]
      BY <1>4, <1>7, <3>1, <3>2
    <3> QED
      BY <1>1, <3>1, <3>2, <3>3
  <2> QED
    BY <2>1, <2>2
<1>8. n \in Nat /\ 1 \in 1..n
  BY <1>1
<1>9. ASSUME NEW s \in K PROVE \E k \in 1..n : options[k] = {s}
  <2>1. PICK i \in 1..m : q[i] = s
    BY <1>1
  <2>2. i + 1 \in 1..n /\ options[i + 1] = {s}
    BY <1>1, <1>4, <2>1
  <2> QED
    BY <2>2
<1>10. \A j, k \in 1..n : options[j] = options[k] => j = k
  BY <1>7
<1> HIDE DEF n
<1>11. OptionsOf(r, c, n, options)
  BY <1>3, <1>4, <1>6, <1>8, <1>9, <1>10, Zenon DEF OptionsOf
<1> QED
  BY <1>3, <1>4, <1>11 DEF n

\* The courses that are decided about before the one at an index.
Visited(r, i) == {Order(r)[j] : j \in 1..(i - 1)}

\* A call has selected sections of courses before its index only.
CallsOf(r) ==
    {c \in [index : 1..(Len(Order(r)) + 1), selected : SUBSET r.sections] :
        \A s \in c.selected : s.course \in Visited(r, c.index)}

\* A selection that a call can still lead to.
Below(r, S, c) == {s \in S : s.course \in Visited(r, c.index)} = c.selected

\* The call that is made for an option.
Child(r, c, k) ==
    Reference!Call(c.index + 1, c.selected \cup Reference!Options(r, Order(r)[c.index])[k])

\* One course is decided about at each index.
LEMMA VisitedNext ==
    ASSUME NEW r, Searchable(r), NEW i \in 1..Len(Order(r))
    PROVE  Visited(r, i + 1) = Visited(r, i) \cup {Order(r)[i]} /\ Order(r)[i] \notin Visited(r, i)
<1>1. Len(Order(r)) \in Nat /\ \A j, k \in 1..Len(Order(r)) : Order(r)[j] = Order(r)[k] => j = k
  BY CourseList
<1>2. (i + 1) - 1 = i /\ 1..i = (1..(i - 1)) \cup {i}
  BY <1>1
<1>3. Visited(r, i + 1) = Visited(r, i) \cup {Order(r)[i]}
  BY <1>2, Zenon DEF Visited
<1>4. \A j \in 1..(i - 1) : j \in 1..Len(Order(r)) /\ j # i
  BY <1>1
<1>5. Order(r)[i] \notin Visited(r, i)
  BY <1>1, <1>4 DEF Visited
<1> QED
  BY <1>3, <1>5

\* A call can lead to what it has selected.
LEMMA BelowItself ==
    ASSUME NEW r, NEW c \in CallsOf(r)
    PROVE  Below(r, c.selected, c) /\ c.selected \in SUBSET r.sections
  BY DEF CallsOf, Below

\* The options of any course.
LEMMA OptionsAre ==
    ASSUME NEW r, Searchable(r), NEW c
    PROVE  OptionsOf(r, c, Len(Reference!Options(r, c)), Reference!Options(r, c))
<1>1. CASE Reference!LockedOf(r, c) # {}
  BY <1>1, LockedOption, Zenon
<1>2. CASE Reference!LockedOf(r, c) = {}
  BY <1>2, OpenOptions, Zenon
<1> QED
  BY <1>1, <1>2

\* The calls that a call makes are below it and apart from each other.
LEMMA ChildrenApart ==
    ASSUME NEW r, Searchable(r), NEW c \in CallsOf(r), c.index <= Len(Order(r)),
           NEW n, n = Len(Reference!Options(r, Order(r)[c.index]))
    PROVE  /\ n \in Nat
           /\ \A k \in 1..n : Child(r, c, k) \in CallsOf(r)
           /\ \A k \in 1..n : \A S : Below(r, S, Child(r, c, k)) => Below(r, S, c)
           /\ \A j, k \in 1..n : \A S : Below(r, S, Child(r, c, j)) /\ Below(r, S, Child(r, c, k)) => j = k
<1> DEFINE i == c.index
           o == Order(r)[i]
           options == Reference!Options(r, o)
<1>1. /\ i \in 1..Len(Order(r)) /\ i + 1 \in 1..(Len(Order(r)) + 1)
      /\ c.selected \in SUBSET r.sections /\ \A s \in c.selected : s.course \in Visited(r, i)
  BY CourseList DEF CallsOf
<1>2. Visited(r, i + 1) = Visited(r, i) \cup {o} /\ o \notin Visited(r, i)
  BY <1>1, VisitedNext
<1>3. /\ n \in Nat
      /\ \A k \in 1..n : options[k] \in SUBSET r.sections /\ \A s \in options[k] : s.course = o
      /\ \A j, k \in 1..n : options[j] = options[k] => j = k
  <2>1. OptionsOf(r, o, n, options)
    BY OptionsAre
  <2> QED
    BY <2>1, Zenon DEF OptionsOf
<1>4. \A k : Child(r, c, k) = [index |-> i + 1, selected |-> c.selected \cup options[k]]
  BY Zenon DEF Child, Reference!Call
<1>0. i = c.index
  OBVIOUS
<1> HIDE DEF i, o, options
<1>5. ASSUME NEW k \in 1..n PROVE Child(r, c, k) \in CallsOf(r)
  <2>1. c.selected \cup options[k] \in SUBSET r.sections
    BY <1>1, <1>3
  <2>2. \A s \in c.selected \cup options[k] : s.course \in Visited(r, i + 1)
    BY <1>1, <1>2, <1>3
  <2> QED
    BY <1>1, <1>4, <2>1, <2>2 DEF CallsOf
<1>6. ASSUME NEW k \in 1..n, NEW S, Below(r, S, Child(r, c, k)) PROVE Below(r, S, c)
  <2>1. {s \in S : s.course \in Visited(r, i + 1)} = c.selected \cup options[k]
    BY <1>4, <1>6 DEF Below
  <2>2. {s \in S : s.course \in Visited(r, i)} = c.selected
    BY <1>1, <1>2, <1>3, <2>1
  <2> QED
    BY <1>0, <2>2 DEF Below
<1>7. ASSUME NEW j \in 1..n, NEW k \in 1..n, NEW S,
             Below(r, S, Child(r, c, j)), Below(r, S, Child(r, c, k))
      PROVE  j = k
  <2>1. c.selected \cup options[j] = c.selected \cup options[k]
    BY <1>4, <1>7 DEF Below
  <2>2. \A s \in c.selected : s.course # o
    BY <1>1, <1>2
  <2>4. \A s \in options[j] \cup options[k] : s.course = o
    BY <1>3
  <2>5. \A s : s \in options[j] => s \in options[k]
    BY <2>1, <2>2, <2>4
  <2>6. \A s : s \in options[k] => s \in options[j]
    BY <2>1, <2>2, <2>4
  <2>3. options[j] = options[k]
    BY <2>5, <2>6
  <2> QED
    BY <1>3, <2>3
<1> QED
  BY <1>3, <1>5, <1>6, <1>7

\* A feasible selection takes the option of a course that it agrees with.
LEMMA OptionTaken ==
    ASSUME NEW r, Searchable(r), NEW S \in FeasibleSelections(r), NEW o
    PROVE  \E k \in 1..Len(Reference!Options(r, o)) :
              Reference!Options(r, o)[k] = {s \in S : s.course = o}
<1> DEFINE n == Len(Reference!Options(r, o))
           options == Reference!Options(r, o)
           T == {s \in S : s.course = o}
           locked == Reference!LockedOf(r, o)
<1>1. /\ S \in SUBSET r.sections /\ OneSectionPerCourse(S) /\ r.locked \subseteq IdsOf(S)
      /\ IdsOf(S) \cap r.excluded = {} /\ \A s \in S : ~s.ineligible
  BY DEF FeasibleSelections, SelectionIsFeasible
<1>2. \A s, t \in T : s = t
  <2>1. IsFiniteSet(S)
    BY <1>1, FiniteSelections DEF Searchable
  <2>2. \A s, t \in S : s.course = t.course => s = t
    BY <1>1, <2>1, OnePerCourse
  <2> QED
    BY <2>2
<1>3. OptionsOf(r, o, n, options)
  BY OptionsAre
<1>4. locked \subseteq T
  <2> SUFFICES ASSUME NEW s \in locked PROVE s \in T
    OBVIOUS
  <2>1. s \in r.sections /\ s.id \in r.locked /\ s.course = o
    BY DEF Reference!LockedOf, Reference!WithIds
  <2>2. PICK t \in S : t.id = s.id
    BY <1>1, <2>1 DEF IdsOf
  <2>3. s = t
    BY <1>1, <2>1, <2>2, UniqueIds DEF Searchable
  <2> QED
    BY <2>1, <2>2, <2>3
<1>5. T \subseteq Sections(r, o)
  <2> SUFFICES ASSUME NEW s \in T PROVE s \in Sections(r, o)
    OBVIOUS
  <2>1. s.id \notin r.excluded
    BY <1>1 DEF IdsOf
  <2> QED
    BY <1>1, <2>1 DEF Sections, Reference!Open
<1>6. locked # {} => \E k \in 1..n : options[k] = locked
  BY <1>3, Zenon DEF OptionsOf
<1>7. locked = {} => /\ \E k \in 1..n : options[k] = {}
                     /\ \A s \in Sections(r, o) : \E k \in 1..n : options[k] = {s}
  BY <1>3, Zenon DEF OptionsOf
<1> HIDE DEF n, options, T, locked
<1>8. \E k \in 1..n : options[k] = T
  <2>1. CASE locked # {}
    <3>1. T = locked
      BY <1>2, <1>4, <2>1
    <3> QED
      BY <1>6, <2>1, <3>1
  <2>2. CASE locked = {} /\ T = {}
    BY <1>7, <2>2
  <2>3. CASE locked = {} /\ T # {}
    <3>1. PICK s \in T : TRUE
      BY <2>3
    <3>2. T = {s} /\ s \in Sections(r, o)
      BY <1>2, <1>5, <3>1
    <3> QED
      BY <1>7, <2>3, <3>2
  <2> QED
    BY <2>1, <2>2, <2>3
<1> QED
  BY <1>8 DEF n, options, T

\* So no feasible selection is lost when a call is replaced by those it makes.
LEMMA ChildrenCover ==
    ASSUME NEW r, Searchable(r), NEW c \in CallsOf(r), c.index <= Len(Order(r)),
           NEW S \in FeasibleSelections(r), Below(r, S, c)
    PROVE  \E k \in 1..Len(Reference!Options(r, Order(r)[c.index])) : Below(r, S, Child(r, c, k))
<1> DEFINE i == c.index
           o == Order(r)[i]
           options == Reference!Options(r, o)
<1>1. i \in 1..Len(Order(r))
  BY CourseList DEF CallsOf
<1>2. Visited(r, i + 1) = Visited(r, i) \cup {o}
  BY <1>1, VisitedNext
<1>3. PICK k \in 1..Len(options) : options[k] = {s \in S : s.course = o}
  BY OptionTaken
<1>4. Child(r, c, k) = [index |-> i + 1, selected |-> c.selected \cup options[k]]
  BY Zenon DEF Child, Reference!Call
<1>5. {s \in S : s.course \in Visited(r, i)} = c.selected
  BY DEF Below
<1> HIDE DEF i, o, options
<1>6. {s \in S : s.course \in Visited(r, i + 1)} = c.selected \cup options[k]
  BY <1>2, <1>3, <1>5
<1>7. Below(r, S, Child(r, c, k))
  BY <1>4, <1>6 DEF Below
<1> QED
  BY <1>7 DEF i, o, options

\* Below a call that has decided about every course there is its selection only.
LEMMA CompleteIsLast ==
    ASSUME NEW r, Searchable(r), NEW c \in CallsOf(r), ~(c.index <= Len(Order(r))),
           NEW S \in FeasibleSelections(r), Below(r, S, c)
    PROVE  S = c.selected
<1>1. S \in SUBSET r.sections /\ IdsOf(S) \cap r.excluded = {} /\ \A s \in S : ~s.ineligible
  BY DEF FeasibleSelections, SelectionIsFeasible
<1>2. c.index = Len(Order(r)) + 1 /\ c.index - 1 = Len(Order(r))
  BY CourseList DEF CallsOf
<1>3. ASSUME NEW s \in S PROVE s.course \in Visited(r, c.index)
  <2>1. s.id \notin r.excluded
    BY <1>1 DEF IdsOf
  <2>2. s \in Reference!Open(r)
    BY <1>1, <2>1 DEF Reference!Open
  <2>3. s.course \in Reference!CoursesOf(Reference!Open(r))
    BY <2>2 DEF Reference!CoursesOf
  <2>4. PICK j \in 1..Len(Order(r)) : Order(r)[j] = s.course
    BY <2>3, CourseList
  <2> QED
    BY <1>2, <2>4 DEF Visited
<1> QED
  BY <1>3 DEF Below

\* Below a call with too many credits there is none.
LEMMA TooManyIsNone ==
    ASSUME NEW r, Searchable(r), NEW c \in CallsOf(r), Reference!TooMany(r, c.selected),
           NEW S \in FeasibleSelections(r)
    PROVE  ~Below(r, S, c)
<1> SUFFICES ASSUME Below(r, S, c) PROVE FALSE
  OBVIOUS
<1>1. c.selected \in SUBSET S
  BY DEF Below
<1>2. S \in SUBSET r.sections /\ CreditsOf(S) <= r.maxCredits
  BY DEF FeasibleSelections, SelectionIsFeasible
<1>3. CreditsOf(c.selected) > r.maxCredits
  BY SameProblem DEF Reference!TooMany
<1>4. CreditsOf(c.selected) \in Int /\ CreditsOf(S) \in Int /\ CreditsOf(c.selected) <= CreditsOf(S)
  BY <1>1, <1>2, CreditsBound DEF Searchable
<1>5. r.maxCredits \in Int
  BY DEF Searchable, Solvable, WellFormed
<1> QED
  BY <1>2, <1>3, <1>4, <1>5

\* No selection is below two calls.
Apart(r, q) == \A j, k \in DOMAIN q : \A S : Below(r, S, q[j]) /\ Below(r, S, q[k]) => j = k

\* Where the search stands with the calls q and the selections F: every legal
\* selection is found once or is below one call, unless the search is stopped.
Underway(r, q, F, early) ==
    /\ q \in Seq(CallsOf(r)) /\ F \in Seq(FeasibleSelections(r))
    /\ \A j, k \in DOMAIN F : F[j] = F[k] => j = k
    /\ Apart(r, q)
    /\ \A j \in DOMAIN F, k \in DOMAIN q : ~Below(r, F[j], q[k])
    /\ ~early => \A S \in FeasibleSelections(r) :
                    (\E j \in DOMAIN F : F[j] = S) \/ \E k \in DOMAIN q : Below(r, S, q[k])

\* The calls but for the next one.
Others(q) == SubSeq(q, 1, Len(q) - 1)

\* They are a list of calls, and every call is the next one or one of them.
LEMMA OthersOf ==
    ASSUME NEW A, NEW q \in Seq(A), q # << >>
    PROVE  LET m == Len(q)
           IN  /\ m \in Nat \ {0} /\ q[m] \in A /\ m \in DOMAIN q
               /\ Others(q) \in Seq(A) /\ Len(Others(q)) = m - 1
               /\ \A i \in 1..(m - 1) : Others(q)[i] = q[i] /\ i \in DOMAIN q
               /\ \A i \in DOMAIN q : i = m \/ i \in 1..(m - 1)
<1>1. Len(q) \in Nat \ {0} /\ DOMAIN q = 1..Len(q)
  OBVIOUS
<1> QED
  BY <1>1 DEF Others

\* One call is replaced by calls below it that are apart and miss nothing.
LEMMA CallReplaced ==
    ASSUME NEW r, NEW q, NEW F, NEW early, Underway(r, q, F, early), q # << >>,
           NEW K \in Seq(CallsOf(r)), Apart(r, K),
           \A k \in DOMAIN K : \A S : Below(r, S, K[k]) => Below(r, S, q[Len(q)]),
           \A S \in FeasibleSelections(r) : Below(r, S, q[Len(q)]) => \E k \in DOMAIN K : Below(r, S, K[k])
    PROVE  Underway(r, Others(q) \o K, F, early)
<1> DEFINE m == Len(q)
           p == Others(q) \o K
<1>1. /\ q \in Seq(CallsOf(r)) /\ F \in Seq(FeasibleSelections(r))
      /\ \A j, k \in DOMAIN F : F[j] = F[k] => j = k
      /\ Apart(r, q)
      /\ \A j \in DOMAIN F, k \in DOMAIN q : ~Below(r, F[j], q[k])
      /\ ~early => \A S \in FeasibleSelections(r) :
                      (\E j \in DOMAIN F : F[j] = S) \/ \E k \in DOMAIN q : Below(r, S, q[k])
  BY DEF Underway
<1>2. /\ m \in Nat \ {0} /\ m \in DOMAIN q
      /\ Others(q) \in Seq(CallsOf(r)) /\ Len(Others(q)) = m - 1
      /\ \A i \in 1..(m - 1) : Others(q)[i] = q[i] /\ i \in DOMAIN q
      /\ \A i \in DOMAIN q : i = m \/ i \in 1..(m - 1)
  BY <1>1, OthersOf
<1>3. /\ p \in Seq(CallsOf(r))
      /\ \A i \in 1..(m - 1) : i \in DOMAIN p /\ p[i] = q[i]
      /\ \A k \in DOMAIN K : (m - 1) + k \in DOMAIN p /\ p[(m - 1) + k] = K[k]
      /\ \A i \in DOMAIN p : i \in 1..(m - 1) \/ \E k \in DOMAIN K : i = (m - 1) + k
  <2>1. DOMAIN K = 1..Len(K) /\ Len(K) \in Nat
    OBVIOUS
  <2>2. p \in Seq(CallsOf(r)) /\ Len(p) = (m - 1) + Len(K) /\ DOMAIN p = 1..((m - 1) + Len(K))
    <3>1. ASSUME NEW A, NEW w \in Seq(A), NEW v \in Seq(A)
          PROVE  w \o v \in Seq(A) /\ Len(w \o v) = Len(w) + Len(v) /\ DOMAIN (w \o v) = 1..(Len(w) + Len(v))
      OBVIOUS
    <3>2. Others(q) \in Seq(CallsOf(r)) /\ Len(Others(q)) = m - 1
      BY <1>2
    <3> QED
      BY <3>1, <3>2
  <2>3. ASSUME NEW i \in 1..(m - 1) PROVE i \in DOMAIN p /\ p[i] = q[i]
    BY <1>2, <2>1, <2>2
  <2>4. ASSUME NEW k \in DOMAIN K PROVE (m - 1) + k \in DOMAIN p /\ p[(m - 1) + k] = K[k]
    <3>1. (m - 1) + k \in 1..((m - 1) + Len(K)) /\ ~((m - 1) + k <= m - 1)
      BY <1>2, <2>1
    <3>2. p[(m - 1) + k] = K[((m - 1) + k) - (m - 1)]
      BY <1>2, <3>1
    <3>3. ((m - 1) + k) - (m - 1) = k
      BY <1>2, <2>1
    <3> QED
      BY <2>2, <3>1, <3>2, <3>3
  <2>5. ASSUME NEW i \in DOMAIN p PROVE i \in 1..(m - 1) \/ \E k \in DOMAIN K : i = (m - 1) + k
    <3>1. i \in 1..(m - 1) \/ (i - (m - 1) \in DOMAIN K /\ i = (m - 1) + (i - (m - 1)))
      BY <1>2, <2>1, <2>2
    <3> QED
      BY <3>1
  <2> QED
    BY <2>2, <2>3, <2>4, <2>5
<1> HIDE DEF p, m
<1>4. m = Len(q)
  BY DEF m
<1>5. \A i \in DOMAIN p : \/ i \in DOMAIN q /\ i # m /\ p[i] = q[i]
                          \/ \E k \in DOMAIN K : i = (m - 1) + k /\ p[i] = K[k]
  <2>1. \A i \in 1..(m - 1) : i # m
    BY <1>2
  <2> QED
    BY <1>2, <1>3, <2>1
<1>6. ASSUME NEW i \in DOMAIN p, NEW j \in DOMAIN p, NEW S, Below(r, S, p[i]), Below(r, S, p[j])
      PROVE  i = j
  <2>1. CASE i \in DOMAIN q /\ i # m /\ p[i] = q[i] /\ j \in DOMAIN q /\ j # m /\ p[j] = q[j]
    BY <1>1, <1>6, <2>1 DEF Apart
  <2>2. ASSUME NEW h \in DOMAIN q, h # m, Below(r, S, q[h]), NEW k \in DOMAIN K, Below(r, S, K[k]) PROVE FALSE
    <3>1. Below(r, S, q[m])
      BY <1>4, <2>2
    <3> QED
      BY <1>1, <1>2, <2>2, <3>1 DEF Apart
  <2>3. CASE /\ \E k \in DOMAIN K : i = (m - 1) + k /\ p[i] = K[k]
             /\ \E k \in DOMAIN K : j = (m - 1) + k /\ p[j] = K[k]
    <3>1. PICK k \in DOMAIN K : i = (m - 1) + k /\ p[i] = K[k]
      BY <2>3
    <3>2. PICK l \in DOMAIN K : j = (m - 1) + l /\ p[j] = K[l]
      BY <2>3
    <3>3. k = l
      BY <1>6, <3>1, <3>2 DEF Apart
    <3> QED
      BY <3>1, <3>2, <3>3
  <2> QED
    BY <1>5, <1>6, <2>1, <2>2, <2>3
<1>7. ASSUME NEW j \in DOMAIN F, NEW i \in DOMAIN p PROVE ~Below(r, F[j], p[i])
  <2>1. CASE i \in DOMAIN q /\ p[i] = q[i]
    BY <1>1, <2>1
  <2>2. CASE \E k \in DOMAIN K : i = (m - 1) + k /\ p[i] = K[k]
    <3>1. PICK k \in DOMAIN K : p[i] = K[k]
      BY <2>2
    <3>2. ~Below(r, F[j], q[m])
      BY <1>1, <1>2
    <3> QED
      BY <1>4, <3>1, <3>2
  <2> QED
    BY <1>5, <2>1, <2>2
<1>8. ASSUME ~early, NEW S \in FeasibleSelections(r)
      PROVE  (\E j \in DOMAIN F : F[j] = S) \/ \E i \in DOMAIN p : Below(r, S, p[i])
  <2> SUFFICES ASSUME NEW k \in DOMAIN q, Below(r, S, q[k]) PROVE \E i \in DOMAIN p : Below(r, S, p[i])
    BY <1>1, <1>8
  <2>1. CASE k = m
    <3>1. PICK h \in DOMAIN K : Below(r, S, K[h])
      BY <1>4, <2>1
    <3> QED
      BY <1>3, <3>1
  <2>2. CASE k # m
    BY <1>2, <1>3, <2>2
  <2> QED
    BY <2>1, <2>2
<1>9. Apart(r, p)
  BY <1>6 DEF Apart
<1>10. Underway(r, p, F, early)
  BY <1>1, <1>3, <1>7, <1>8, <1>9 DEF Underway
<1> QED
  BY <1>10 DEF p

\* A call below which nothing is left is dropped.
LEMMA CallDropped ==
    ASSUME NEW r, NEW q, NEW F, NEW early, Underway(r, q, F, early), q # << >>,
           \A S \in FeasibleSelections(r) : ~Below(r, S, q[Len(q)])
    PROVE  Underway(r, Others(q), F, early)
<1>1. << >> \in Seq(CallsOf(r)) /\ DOMAIN << >> = {}
  OBVIOUS
<1>2. Apart(r, << >>)
  BY <1>1 DEF Apart
<1>3. Underway(r, Others(q) \o << >>, F, early)
  BY <1>1, <1>2, CallReplaced
<1>4. Others(q) \in Seq(CallsOf(r))
  <2>1. q \in Seq(CallsOf(r))
    BY DEF Underway
  <2> QED
    BY <2>1, OthersOf
<1>5. Others(q) \o << >> = Others(q)
  BY <1>4
<1> QED
  BY <1>3, <1>5

\* A complete call adds its selection, when that is legal.
LEMMA CallCompleted ==
    ASSUME NEW r, NEW q, NEW F, NEW early, Underway(r, q, F, early), q # << >>,
           NEW T \in FeasibleSelections(r), Below(r, T, q[Len(q)]),
           \A S \in FeasibleSelections(r) : Below(r, S, q[Len(q)]) => S = T
    PROVE  Underway(r, Others(q), Append(F, T), early)
<1> DEFINE m == Len(q)
           p == Others(q)
           G == Append(F, T)
<1>1. /\ q \in Seq(CallsOf(r)) /\ F \in Seq(FeasibleSelections(r))
      /\ \A j, k \in DOMAIN F : F[j] = F[k] => j = k
      /\ Apart(r, q)
      /\ \A j \in DOMAIN F, k \in DOMAIN q : ~Below(r, F[j], q[k])
      /\ ~early => \A S \in FeasibleSelections(r) :
                      (\E j \in DOMAIN F : F[j] = S) \/ \E k \in DOMAIN q : Below(r, S, q[k])
  BY DEF Underway
<1>2. /\ m \in Nat \ {0} /\ m \in DOMAIN q
      /\ p \in Seq(CallsOf(r)) /\ Len(p) = m - 1
      /\ \A i \in 1..(m - 1) : p[i] = q[i] /\ i \in DOMAIN q
      /\ \A i \in DOMAIN q : i = m \/ i \in 1..(m - 1)
  BY <1>1, OthersOf
<1>3. DOMAIN p = 1..(m - 1) /\ \A i \in DOMAIN p : i # m /\ i \in DOMAIN q /\ p[i] = q[i]
  BY <1>2
<1>4. /\ G \in Seq(FeasibleSelections(r)) /\ G[Len(F) + 1] = T /\ Len(F) + 1 \in DOMAIN G
      /\ \A j \in DOMAIN F : G[j] = F[j] /\ j \in DOMAIN G
      /\ \A j \in DOMAIN G : j \in DOMAIN F \/ j = Len(F) + 1
  BY <1>1
<1> HIDE DEF p, m, G
<1>5. m = Len(q)
  BY DEF m
<1>6. \A j \in DOMAIN F : F[j] # T
  BY <1>1, <1>2, <1>5
<1>7. \A j, k \in DOMAIN G : G[j] = G[k] => j = k
  BY <1>1, <1>4, <1>6
<1>8. Apart(r, p)
  BY <1>1, <1>3 DEF Apart
<1>9. ASSUME NEW j \in DOMAIN G, NEW k \in DOMAIN p PROVE ~Below(r, G[j], p[k])
  <2>1. CASE j \in DOMAIN F
    BY <1>1, <1>3, <1>4, <2>1
  <2>2. CASE j = Len(F) + 1
    <3>1. G[j] = T /\ k \in DOMAIN q /\ k # m /\ p[k] = q[k]
      BY <1>3, <1>4, <2>2
    <3> QED
      BY <1>1, <1>2, <1>5, <3>1 DEF Apart
  <2> QED
    BY <1>4, <2>1, <2>2
<1>10. ASSUME ~early, NEW S \in FeasibleSelections(r)
       PROVE  (\E j \in DOMAIN G : G[j] = S) \/ \E k \in DOMAIN p : Below(r, S, p[k])
  <2>1. CASE \E j \in DOMAIN F : F[j] = S
    BY <1>4, <2>1
  <2>2. CASE \E k \in DOMAIN q : Below(r, S, q[k])
    <3>1. PICK k \in DOMAIN q : Below(r, S, q[k])
      BY <2>2
    <3>2. CASE k = m
      <4>1. S = T
        BY <1>5, <3>1, <3>2
      <4> QED
        BY <1>4, <4>1
    <3>3. CASE k # m
      BY <1>2, <1>3, <3>1, <3>3
    <3> QED
      BY <3>2, <3>3
  <2> QED
    BY <1>1, <1>10, <2>1, <2>2
<1>11. Underway(r, p, G, early)
  BY <1>2, <1>4, <1>7, <1>8, <1>9, <1>10 DEF Underway
<1> QED
  BY <1>11 DEF p, G

\* A call that branches.
LEMMA CallBranches ==
    ASSUME NEW r, Searchable(r), NEW q, NEW F, NEW early, Underway(r, q, F, early), q # << >>,
           q[Len(q)].index <= Len(Order(r))
    PROVE  Underway(r, Others(q) \o Reference!Children(r, q[Len(q)]), F, early)
<1> DEFINE c == q[Len(q)]
           n == Len(Reference!Options(r, Order(r)[c.index]))
           K == Reference!Children(r, c)
<1>1. c \in CallsOf(r)
  <2>1. q \in Seq(CallsOf(r))
    BY DEF Underway
  <2> QED
    BY <2>1, OthersOf
<1>2. c.index <= Len(Order(r)) /\ n = Len(Reference!Options(r, Order(r)[c.index]))
  OBVIOUS
<1>3. K = [k \in 1..n |-> Child(r, c, (n + 1) - k)]
  BY Zenon DEF Reference!Children, Child, Order
<1>4. c = q[Len(q)]
  OBVIOUS
<1> HIDE DEF c, n, K
<1>5. /\ n \in Nat
      /\ \A k \in 1..n : Child(r, c, k) \in CallsOf(r)
      /\ \A k \in 1..n : \A S : Below(r, S, Child(r, c, k)) => Below(r, S, c)
      /\ \A j, k \in 1..n : \A S : Below(r, S, Child(r, c, j)) /\ Below(r, S, Child(r, c, k)) => j = k
  BY <1>1, <1>2, ChildrenApart
<1>6. \A k \in 1..n : (n + 1) - k \in 1..n /\ (n + 1) - ((n + 1) - k) = k
  BY <1>5
<1>7. DOMAIN K = 1..n /\ \A k \in 1..n : K[k] = Child(r, c, (n + 1) - k)
  BY <1>3
<1>8. K \in Seq(CallsOf(r))
  <2>1. K \in [1..n -> CallsOf(r)]
    BY <1>3, <1>5, <1>6
  <2> QED
    BY <1>5, <2>1
<1>9. Apart(r, K)
  <2> SUFFICES ASSUME NEW j \in 1..n, NEW k \in 1..n, NEW S, Below(r, S, K[j]), Below(r, S, K[k]) PROVE j = k
    BY <1>7 DEF Apart
  <2>1. (n + 1) - j = (n + 1) - k
    BY <1>5, <1>6, <1>7
  <2> QED
    BY <1>5, <2>1
<1>10. \A k \in DOMAIN K : \A S : Below(r, S, K[k]) => Below(r, S, c)
  BY <1>5, <1>6, <1>7
<1>11. ASSUME NEW S \in FeasibleSelections(r), Below(r, S, c) PROVE \E k \in DOMAIN K : Below(r, S, K[k])
  <2>1. PICK k \in 1..n : Below(r, S, Child(r, c, k))
    BY <1>1, <1>2, <1>11, ChildrenCover
  <2>2. (n + 1) - k \in DOMAIN K /\ K[(n + 1) - k] = Child(r, c, k)
    BY <1>6, <1>7
  <2> QED
    BY <2>1, <2>2
<1>12. Underway(r, Others(q) \o K, F, early)
  BY <1>4, <1>8, <1>9, <1>10, <1>11, CallReplaced
<1> QED
  BY <1>12 DEF K, c

\* The selections that were found.
Found(F) == {F[k] : k \in DOMAIN F}

\* What is reported of the selections that were found.
Selected(r, F) == SelectDiverseCandidates(r, InOrder(Candidates(r, Found(F)), Better))

\* A selection is too close to a better one that is reported, or there are
\* enough better ones.
Passed(r, S, c) ==
    LET mine == Candidate(r, S)
        ahead == {k \in DOMAIN c : c[k] = mine \/ Better(c[k], mine)}
    IN  \/ Cardinality(ahead) = r.maxCandidates
        \/ \E k \in ahead : Difference(c[k].sections, S) < r.minDifference

\* The first of the reported candidates is the best that was found, any two
\* differ enough, and nothing that was found is missed without a reason.
Reported(r, F, c) ==
    /\ c = << >> => F = << >>
    /\ c # << >> => \A k \in DOMAIN F : c[1].score <= WeightedScore(r, F[k])
    /\ \A j, k \in DOMAIN c : j # k => Difference(c[j].sections, c[k].sections) >= r.minDifference
    /\ \A k \in DOMAIN F : Passed(r, F[k], c)

\* How many ids two selections differ by.
LEMMA DifferenceTyped ==
    ASSUME NEW r, Solvable(r), NEW S \in SUBSET r.sections, NEW T \in SUBSET r.sections
    PROVE  Difference(S, T) \in Nat /\ Difference(S, S) = 0 /\ Difference(S, T) = Difference(T, S)
<1>1. ASSUME NEW X \in SUBSET r.sections PROVE IsFiniteSet(IdsOf(X))
  <2> DEFINE f == [s \in X |-> s.id]
  <2>1. IsFiniteSet(X)
    BY FiniteSelections
  <2>2. IdsOf(X) = {f[s] : s \in X}
    BY DEF IdsOf
  <2>3. DOMAIN f = X
    OBVIOUS
  <2> HIDE DEF f
  <2> QED
    BY <2>1, <2>2, <2>3, CountImage
<1>2. IsFiniteSet(IdsOf(S) \cup IdsOf(T))
  BY <1>1, FS_Union
<1>3. SymDiff(IdsOf(S), IdsOf(T)) \subseteq IdsOf(S) \cup IdsOf(T)
  BY DEF SymDiff
<1>4. Difference(S, T) \in Nat
  BY <1>2, <1>3, FS_Subset, FS_CardinalityType DEF Difference
<1>5. SymDiff(IdsOf(S), IdsOf(S)) = {} /\ SymDiff(IdsOf(S), IdsOf(T)) = SymDiff(IdsOf(T), IdsOf(S))
  BY DEF SymDiff
<1> QED
  BY <1>4, <1>5, FS_EmptySet DEF Difference

\* So are the candidates that the choice reports.
LEMMA GreedyReports ==
    ASSUME NEW r, Solvable(r), NEW F \in Seq(FeasibleSelections(r)), NEW c, c = Selected(r, F)
    PROVE  Reported(r, F, c)
<1> DEFINE E == Candidates(r, Found(F))
           n == Cardinality(E)
           q == Listed(Betters(r), E)
           max == r.maxCandidates
           len == Len(c)
<1>1. \A k \in DOMAIN F : F[k] \in SUBSET r.sections
  BY DEF FeasibleSelections
<1>2. Found(F) \in SUBSET SUBSET r.sections
  BY <1>1 DEF Found
<1>3. /\ IsFiniteSet(E) /\ Orders(Betters(r), E)
      /\ \A a, b \in E : <<a, b>> \in Betters(r) <=> Better(a, b)
      /\ InOrder(E, Better) = q
  BY <1>2, BetterOrders, Zenon
<1>4. \A k \in DOMAIN F : Candidate(r, F[k]) \in E
  BY DEF Candidates, Found
<1>5. \A a \in E : a.sections \in SUBSET r.sections /\ a.score \in Int /\ a.score = WeightedScore(r, a.sections)
  <2> SUFFICES ASSUME NEW S \in Found(F)
               PROVE  /\ Candidate(r, S).sections \in SUBSET r.sections /\ Candidate(r, S).score \in Int
                      /\ Candidate(r, S).score = WeightedScore(r, Candidate(r, S).sections)
    BY DEF Candidates
  <2>1. S \in SUBSET r.sections
    BY <1>2
  <2> QED
    BY <2>1, ScoreTyped DEF Candidate
<1>6. /\ \A a, b \in E : /\ Difference(a.sections, b.sections) \in Nat
                         /\ Difference(a.sections, b.sections) = Difference(b.sections, a.sections)
      /\ \A a \in E : Difference(a.sections, a.sections) = 0
  BY <1>5, DifferenceTyped
<1>7. c = SelectDiverseCandidates(r, q)
  <2>1. InOrder(E, Better) = q
    BY <1>3
  <2> QED
    BY <2>1, Zenon DEF Selected
<1>8. n \in Nat
  BY <1>3, FS_CardinalityType
<1>9. max \in Nat \ {0} /\ r.minDifference \in Nat \ {0}
  BY DEF Solvable, WellFormed
<1> HIDE DEF E, q
<1>10. /\ q \in [1..n -> E]
       /\ \A x \in E : \E i \in 1..n : q[i] = x
       /\ \A i, j \in 1..n : i < j => <<q[i], q[j]>> \in Betters(r)
  <2>1. IsFiniteSet(E) /\ Orders(Betters(r), E)
    BY <1>3
  <2> QED
    BY <2>1, ListedAll, Zenon DEF q
<1> HIDE DEF n, len, max
<1>11. c \in Seq(E) /\ Greedy(Nears(r, E), max, q, n, len, c)
  <2>1. \A a, b \in E : Difference(a.sections, b.sections) \in Nat
    BY <1>6
  <2>2. \A a \in E : Difference(a.sections, a.sections) = 0
    BY <1>6
  <2>3. r.maxCandidates \in Nat \ {0} /\ r.minDifference \in Nat \ {0}
    BY <1>9 DEF max
  <2>4. q \in [1..n -> E]
    BY <1>10
  <2>5. /\ SelectDiverseCandidates(r, q) \in Seq(E)
        /\ Greedy(Nears(r, E), r.maxCandidates, q, n, Len(SelectDiverseCandidates(r, q)),
                  SelectDiverseCandidates(r, q))
    BY <1>8, <2>1, <2>2, <2>3, <2>4, GreedyChoice
  <2> QED
    BY <1>7, <2>5 DEF max, len
<1>12. /\ len \in Nat /\ len <= max /\ (n > 0 => len > 0 /\ c[1] = q[1])
       /\ \A k \in 1..len : \E i \in 1..n : c[k] = q[i]
       /\ \A j, k \in 1..len : j # k => <<c[j], c[k]>> \notin Nears(r, E)
       /\ \A j \in 1..n : Covered(Nears(r, E), max, q, j, len, c)
  BY <1>11 DEF Greedy
<1>13. DOMAIN c = 1..len /\ (c = << >> => len = 0) /\ (c # << >> => len > 0) /\ \A k \in 1..len : c[k] \in E
  BY <1>11 DEF len
<1>14. \A i, j \in 1..n : i <= j => q[i] = q[j] \/ Better(q[i], q[j])
  <2> TAKE i, j \in 1..n
  <2>1. i < j => <<q[i], q[j]>> \in Betters(r) /\ q[i] \in E /\ q[j] \in E
    BY <1>10
  <2>2. i < j => Better(q[i], q[j])
    BY <1>3, <2>1
  <2> QED
    BY <2>2
<1>15. c = << >> => F = << >>
  <2> SUFFICES ASSUME c = << >>, F # << >> PROVE FALSE
    OBVIOUS
  <2>1. 1 \in DOMAIN F
    OBVIOUS
  <2>2. \E i \in 1..n : q[i] = Candidate(r, F[1])
    BY <1>4, <1>10, <2>1
  <2>3. n > 0
    BY <1>8, <2>2
  <2> QED
    BY <1>12, <1>13, <2>3
<1>16. ASSUME c # << >>, NEW k \in DOMAIN F PROVE c[1].score <= WeightedScore(r, F[k])
  <2>1. PICK i \in 1..n : q[i] = Candidate(r, F[k])
    BY <1>4, <1>10
  <2>2. n > 0 /\ 1 \in 1..n /\ 1 <= i
    BY <1>8, <2>1
  <2>3. c[1] = q[1] /\ q[1] \in E /\ q[i] \in E
    BY <1>10, <1>12, <2>2
  <2>4. q[1] = q[i] \/ Better(q[1], q[i])
    BY <1>14, <2>2
  <2>5. q[1].score \in Int /\ q[i].score \in Int
    BY <1>5, <2>3
  <2>6. q[1].score <= q[i].score
    BY <2>4, <2>5 DEF Better
  <2> QED
    BY <2>1, <2>3, <2>6 DEF Candidate
<1>17. ASSUME NEW j \in DOMAIN c, NEW k \in DOMAIN c, j # k
       PROVE  Difference(c[j].sections, c[k].sections) >= r.minDifference
  <2>1. <<c[j], c[k]>> \notin Nears(r, E) /\ c[j] \in E /\ c[k] \in E
    BY <1>12, <1>13, <1>17
  <2>2. Difference(c[j].sections, c[k].sections) \in Nat
    BY <1>6, <2>1
  <2> QED
    BY <1>9, <2>1, <2>2 DEF Nears
<1>18. ASSUME NEW i \in DOMAIN F PROVE Passed(r, F[i], c)
  <2> DEFINE mine == Candidate(r, F[i])
             ahead == {k \in DOMAIN c : c[k] = mine \/ Better(c[k], mine)}
  <2>1. PICK j \in 1..n : q[j] = mine
    BY <1>4, <1>10
  <2>2. mine.sections = F[i] /\ mine \in E
    BY <1>4 DEF Candidate
  <2> HIDE DEF mine
  <2>3. PICK l \in 0..len : /\ \A k \in 1..l : \E h \in 1..j : c[k] = q[h]
                            /\ l = max \/ \E k \in 1..l : <<q[j], c[k]>> \in Nears(r, E)
    BY <1>12 DEF Covered
  <2>4. ASSUME NEW k \in 1..l PROVE k \in ahead
    <3>1. PICK h \in 1..j : c[k] = q[h]
      BY <2>3
    <3>2. h \in 1..n /\ h <= j
      BY <1>8, <2>1, <3>1
    <3>3. c[k] = mine \/ Better(c[k], mine)
      BY <1>14, <2>1, <3>1, <3>2
    <3>4. k \in DOMAIN c
      BY <1>12, <1>13, <2>3
    <3> QED
      BY <3>3, <3>4
  <2>5. CASE l = max
    <3>1. ahead = 1..max
      <4>1. ahead \subseteq 1..max
        BY <1>9, <1>12, <1>13
      <4> HIDE DEF ahead
      <4> QED
        BY <2>4, <2>5, <4>1
    <3>2. Cardinality(1..max) = max
      BY <1>9, FS_Interval
    <3>3. Cardinality(ahead) = r.maxCandidates
      <4> HIDE DEF ahead
      <4> QED
        BY <3>1, <3>2 DEF max
    <3> QED
      BY <3>3, Zenon DEF Passed, ahead, mine
  <2>6. CASE \E k \in 1..l : <<q[j], c[k]>> \in Nears(r, E)
    <3>1. PICK k \in 1..l : <<mine, c[k]>> \in Nears(r, E)
      BY <2>1, <2>6
    <3>2. Difference(mine.sections, c[k].sections) < r.minDifference /\ c[k] \in E
      BY <3>1 DEF Nears
    <3>3. Difference(c[k].sections, F[i]) < r.minDifference
      BY <1>6, <2>2, <3>2
    <3>4. k \in ahead
      BY <2>4
    <3> QED
      BY <3>3, <3>4, Zenon DEF Passed, ahead, mine
  <2> QED
    BY <2>3, <2>5, <2>6
<1> QED
  BY <1>15, <1>16, <1>17, <1>18 DEF Reported

\* A request that is not valid has failed.
Refused == verdict.status = "FAILED" /\ feasible = << >>

\* The verdict is about the selections that were found.
Decided ==
    /\ ValidRequest(asked) /\ Underway(asked, calls, feasible, stopped)
    /\ verdict.candidates = Selected(asked, feasible)
    /\ verdict.status = Reference!StatusOf(stopped, verdict.candidates)

\* Where the search stands in each of its phases.
ReferenceInv ==
    /\ asked \in ReferenceProblems /\ explored \in 0..MaxStates /\ stopped \in BOOLEAN
    /\ at \in {"validate", "search", "done"}
    /\ at = "validate" => /\ calls = << >> /\ feasible = << >> /\ stopped = FALSE
                          /\ verdict = Reference!NoResult
    /\ at = "search" => /\ ValidRequest(asked) /\ Underway(asked, calls, feasible, stopped)
                        /\ verdict = Reference!NoResult
    /\ at = "done" => calls = << >> /\ (Refused \/ Decided)

\* What is assumed of the problems.
LEMMA ReferenceParts ==
    /\ MaxStates \in Nat \ {0}
    /\ \A r \in ReferenceProblems : ValidRequest(r) => Searchable(r)
  BY PartsAssumption, SameProblem
     DEF Reference!BacktrackingAssumption, Searchable, Solvable, CoursesOf, Reference!CoursesOf

\* The invariant of the search holds at the start,
LEMMA ReferenceStart == Reference!Init => ReferenceInv
<1> SUFFICES ASSUME Reference!Init PROVE ReferenceInv
  OBVIOUS
<1>1. MaxStates \in Nat /\ 0 \in 0..MaxStates
  BY ReferenceParts
<1>2. /\ asked \in ReferenceProblems /\ at = "validate" /\ calls = << >> /\ feasible = << >>
      /\ explored = 0 /\ stopped = FALSE /\ verdict = Reference!NoResult
  BY DEF Reference!Init
<1> QED
  BY <1>1, <1>2 DEF ReferenceInv

\* The call that decides about the first course misses nothing.
LEMMA FirstCall ==
    ASSUME NEW r, Searchable(r)
    PROVE  Underway(r, <<Reference!Call(1, {})>>, << >>, FALSE)
<1> DEFINE c == Reference!Call(1, {})
           q == <<c>>
<1>1. Visited(r, 1) = {}
  BY DEF Visited
<1>2. c = [index |-> 1, selected |-> {}]
  BY DEF Reference!Call
<1>3. c \in CallsOf(r)
  BY <1>2, CourseList DEF CallsOf
<1>4. \A S : Below(r, S, c)
  BY <1>1, <1>2 DEF Below
<1> HIDE DEF c
<1>5. q \in Seq(CallsOf(r)) /\ DOMAIN q = {1} /\ q[1] = c
  BY <1>3
<1>6. << >> \in Seq(FeasibleSelections(r)) /\ DOMAIN << >> = {}
  OBVIOUS
<1> HIDE DEF q
<1>7. Underway(r, q, << >>, FALSE)
  BY <1>4, <1>5, <1>6 DEF Underway, Apart
<1> QED
  BY <1>7 DEF q, c

\* and is kept by every step.
LEMMA ReferenceStep == ReferenceInv /\ [Reference!Next]_(Reference!vars) => ReferenceInv'
<1> SUFFICES ASSUME ReferenceInv, [Reference!Next]_(Reference!vars)
             PROVE  ReferenceInv'
  OBVIOUS
<1>0. /\ asked \in ReferenceProblems /\ explored \in 0..MaxStates /\ stopped \in BOOLEAN
      /\ at \in {"validate", "search", "done"} /\ MaxStates \in Nat
      /\ ValidRequest(asked) => Searchable(asked)
  BY ReferenceParts DEF ReferenceInv
<1>s. ASSUME Reference!Searching, ~Reference!Spent
      PROVE  /\ at = "search" /\ ValidRequest(asked) /\ Searchable(asked) /\ calls # << >>
             /\ Underway(asked, calls, feasible, stopped)
             /\ verdict = Reference!NoResult /\ explored + 1 \in 0..MaxStates
             /\ Reference!NextCall = calls[Len(calls)] /\ Reference!Waiting = Others(calls)
             /\ calls[Len(calls)] \in CallsOf(asked)
  <2>1. at = "search" /\ calls # << >> /\ explored < MaxStates
    BY <1>0, <1>s DEF Reference!Searching, Reference!Spent
  <2>2. ValidRequest(asked) /\ Underway(asked, calls, feasible, stopped) /\ verdict = Reference!NoResult
    BY <2>1 DEF ReferenceInv
  <2>3. calls \in Seq(CallsOf(asked))
    BY <2>2 DEF Underway
  <2>4. calls[Len(calls)] \in CallsOf(asked)
    BY <2>1, <2>3, OthersOf
  <2>5. Reference!NextCall = calls[Len(calls)] /\ Reference!Waiting = Others(calls)
    BY Zenon DEF Reference!NextCall, Reference!Waiting, Others
  <2> QED
    BY <1>0, <2>1, <2>2, <2>4, <2>5
<1>1. CASE Reference!Reject
  <2>1. /\ at' = "done" /\ verdict'.status = "FAILED" /\ feasible' = << >> /\ calls' = << >>
        /\ asked' = asked /\ explored' = explored /\ stopped' = stopped
    BY <1>1 DEF Reference!Reject, ReferenceInv, Reference!NoResult
  <2> QED
    BY <1>0, <2>1 DEF ReferenceInv, Refused
<1>2. CASE Reference!Accept
  <2>1. /\ at' = "search" /\ calls' = <<Reference!Call(1, {})>> /\ feasible' = << >> /\ stopped' = FALSE
        /\ asked' = asked /\ explored' = explored /\ verdict' = Reference!NoResult /\ ValidRequest(asked)
    BY <1>2, SameProblem DEF Reference!Accept, ReferenceInv
  <2>2. Underway(asked, <<Reference!Call(1, {})>>, << >>, FALSE)
    BY <1>0, <2>1, FirstCall
  <2>3. Underway(asked', calls', feasible', stopped')
    BY <2>1, <2>2
  <2> QED
    BY <1>0, <2>1, <2>3 DEF ReferenceInv
<1>3. CASE Reference!Stop
  <2>1. /\ at = "search" /\ at' = at /\ calls' = << >> /\ feasible' = feasible /\ stopped' = TRUE
        /\ asked' = asked /\ explored' = explored /\ verdict' = verdict
    BY <1>3 DEF Reference!Stop, Reference!Searching
  <2>2. Underway(asked, << >>, feasible, TRUE)
    <3>1. Underway(asked, calls, feasible, stopped)
      BY <2>1 DEF ReferenceInv
    <3>2. << >> \in Seq(CallsOf(asked)) /\ DOMAIN << >> = {}
      OBVIOUS
    <3> QED
      BY <3>1, <3>2 DEF Underway, Apart
  <2>3. Underway(asked', calls', feasible', stopped')
    BY <2>1, <2>2
  <2> QED
    BY <1>0, <2>1, <2>3 DEF ReferenceInv
<1>4. CASE Reference!Prune
  <2>1. Reference!Searching /\ ~Reference!Spent
    BY <1>4 DEF Reference!Prune
  <2>2. /\ at = "search" /\ ValidRequest(asked) /\ Searchable(asked) /\ calls # << >>
        /\ Underway(asked, calls, feasible, stopped)
        /\ verdict = Reference!NoResult /\ explored + 1 \in 0..MaxStates
        /\ Reference!NextCall = calls[Len(calls)] /\ Reference!Waiting = Others(calls)
        /\ calls[Len(calls)] \in CallsOf(asked)
    BY <1>s, <2>1
  <2>3. /\ Reference!TooMany(asked, Reference!NextCall.selected) /\ explored' = explored + 1
        /\ calls' = Reference!Waiting /\ at' = at /\ feasible' = feasible /\ stopped' = stopped
        /\ asked' = asked /\ verdict' = verdict
    BY <1>4 DEF Reference!Prune
  <2>4. \A S \in FeasibleSelections(asked) : ~Below(asked, S, calls[Len(calls)])
    BY <2>2, <2>3, TooManyIsNone
  <2>5. Underway(asked, Others(calls), feasible, stopped)
    BY <2>2, <2>4, CallDropped
  <2>6. Underway(asked', calls', feasible', stopped')
    BY <2>2, <2>3, <2>5
  <2> QED
    BY <1>0, <2>2, <2>3, <2>6 DEF ReferenceInv
<1>5. CASE Reference!Complete
  <2>1. Reference!Searching /\ ~Reference!Spent
    BY <1>5 DEF Reference!Complete
  <2>2. /\ at = "search" /\ ValidRequest(asked) /\ Searchable(asked) /\ calls # << >>
        /\ Underway(asked, calls, feasible, stopped)
        /\ verdict = Reference!NoResult /\ explored + 1 \in 0..MaxStates
        /\ Reference!NextCall = calls[Len(calls)] /\ Reference!Waiting = Others(calls)
        /\ calls[Len(calls)] \in CallsOf(asked)
    BY <1>s, <2>1
  <2> DEFINE c == calls[Len(calls)]
  <2>3. /\ c.index > Len(Order(asked)) /\ explored' = explored + 1
        /\ calls' = Others(calls) /\ at' = at /\ stopped' = stopped
        /\ asked' = asked /\ verdict' = verdict
        /\ feasible' = IF SelectionIsFeasible(asked, c.selected)
                       THEN Append(feasible, c.selected) ELSE feasible
    BY <1>5, <2>2, SameProblem DEF Reference!Complete, Order
  <2>4. ~(c.index <= Len(Order(asked)))
    BY <2>2, <2>3, CourseList DEF CallsOf
  <2>5. c \in CallsOf(asked) /\ c = calls[Len(calls)]
    BY <2>2
  <2> HIDE DEF c
  <2>6. \A S \in FeasibleSelections(asked) : Below(asked, S, c) => S = c.selected
    BY <2>2, <2>4, <2>5, CompleteIsLast
  <2>7. Below(asked, c.selected, c) /\ c.selected \in SUBSET asked.sections
    BY <2>5, BelowItself
  <2>10. Underway(asked, Others(calls), feasible', stopped)
    <3>1. CASE SelectionIsFeasible(asked, c.selected)
      <4>1. c.selected \in FeasibleSelections(asked)
        BY <2>7, <3>1 DEF FeasibleSelections
      <4>2. Underway(asked, Others(calls), Append(feasible, c.selected), stopped)
        BY <2>2, <2>5, <2>6, <2>7, <4>1, CallCompleted
      <4> QED
        BY <2>3, <3>1, <4>2
    <3>2. CASE ~SelectionIsFeasible(asked, c.selected)
      <4>1. \A S \in FeasibleSelections(asked) : ~Below(asked, S, calls[Len(calls)])
        BY <2>5, <2>6, <3>2 DEF FeasibleSelections
      <4>2. Underway(asked, Others(calls), feasible, stopped)
        BY <2>2, <4>1, CallDropped
      <4> QED
        BY <2>3, <3>2, <4>2
    <3> QED
      BY <3>1, <3>2
  <2>11. Underway(asked', calls', feasible', stopped')
    BY <2>3, <2>10
  <2> QED
    BY <1>0, <2>2, <2>3, <2>11 DEF ReferenceInv
<1>6. CASE Reference!Branch
  <2>1. Reference!Searching /\ ~Reference!Spent
    BY <1>6 DEF Reference!Branch
  <2>2. /\ at = "search" /\ ValidRequest(asked) /\ Searchable(asked) /\ calls # << >>
        /\ Underway(asked, calls, feasible, stopped)
        /\ verdict = Reference!NoResult /\ explored + 1 \in 0..MaxStates
        /\ Reference!NextCall = calls[Len(calls)] /\ Reference!Waiting = Others(calls)
        /\ calls[Len(calls)] \in CallsOf(asked)
    BY <1>s, <2>1
  <2>3. /\ calls[Len(calls)].index <= Len(Order(asked)) /\ explored' = explored + 1
        /\ calls' = Others(calls) \o Reference!Children(asked, calls[Len(calls)])
        /\ at' = at /\ stopped' = stopped /\ feasible' = feasible
        /\ asked' = asked /\ verdict' = verdict
    BY <1>6, <2>2 DEF Reference!Branch, Order
  <2>4. Underway(asked, Others(calls) \o Reference!Children(asked, calls[Len(calls)]), feasible, stopped)
    BY <2>2, <2>3, CallBranches
  <2>5. Underway(asked', calls', feasible', stopped')
    BY <2>3, <2>4
  <2> QED
    BY <1>0, <2>2, <2>3, <2>5 DEF ReferenceInv
<1>7. CASE Reference!Select
  <2>1. /\ at = "search" /\ calls = << >> /\ at' = "done" /\ asked' = asked /\ calls' = calls
        /\ feasible' = feasible /\ explored' = explored /\ stopped' = stopped
    BY <1>7 DEF Reference!Select
  <2>2. ValidRequest(asked) /\ Underway(asked, calls, feasible, stopped)
    BY <2>1 DEF ReferenceInv
  <2> DEFINE ordered == Reference!InOrder({Reference!Candidate(asked, feasible[k]) : k \in DOMAIN feasible},
                                          Reference!Better)
             candidates == Reference!SelectDiverseCandidates(asked, ordered)
  <2>3. verdict'.candidates = candidates /\ verdict'.status = Reference!StatusOf(stopped, candidates)
    <3>1. verdict' = [status |-> Reference!StatusOf(stopped, candidates), candidates |-> candidates,
                      hints |-> IF Reference!StatusOf(stopped, candidates) = "INFEASIBLE"
                                THEN Reference!InfeasibilityHints(asked) ELSE {}]
      BY <1>7, Zenon DEF Reference!Select
    <3> HIDE DEF candidates
    <3> QED
      BY <3>1
  <2>4. candidates = Selected(asked, feasible)
    <3>1. {Reference!Candidate(asked, feasible[k]) : k \in DOMAIN feasible} = Candidates(asked, Found(feasible))
      <4>1. \A k : Reference!Candidate(asked, feasible[k]) = Candidate(asked, feasible[k])
        BY SameScore
      <4> QED
        BY <4>1 DEF Candidates, Found
    <3>2. ordered = Reference!InOrder(Candidates(asked, Found(feasible)), Reference!Better)
      BY <3>1, Zenon
    <3>3. ASSUME NEW S PROVE Reference!InOrder(S, Reference!Better) = InOrder(S, Better)
      <4>1. \A x : {y \in S : Reference!Better(y, x)} = {y \in S : Better(y, x)}
        BY SameOrder
      <4>2. Reference!Cardinality(S) = Cardinality(S)
        BY SameSums
      <4>3. \A i : (CHOOSE x \in S : Reference!Cardinality({y \in S : Reference!Better(y, x)}) = i - 1)
                   = CHOOSE x \in S : Cardinality({y \in S : Better(y, x)}) = i - 1
        BY <4>1, SameSums
      <4>4. Reference!InOrder(S, Reference!Better) =
              [i \in 1..Cardinality(S) |->
                 CHOOSE x \in S : Reference!Cardinality({y \in S : Reference!Better(y, x)}) = i - 1]
        BY <4>2, Zenon DEF Reference!InOrder
      <4> QED
        BY <4>3, <4>4, Zenon DEF InOrder
    <3>4. ordered = InOrder(Candidates(asked, Found(feasible)), Better)
      BY <3>2, <3>3, Zenon
    <3> HIDE DEF ordered
    <3> QED
      BY <3>4, SameOrder, Zenon DEF Selected
  <2>5. (verdict.candidates = Selected(asked, feasible))'
    BY <2>1, <2>3, <2>4 DEF Selected, Found
  <2> QED
    BY <1>0, <2>1, <2>2, <2>3, <2>4 DEF ReferenceInv, Decided
<1>8. CASE UNCHANGED Reference!vars
  BY <1>8 DEF Reference!vars, ReferenceInv, Refused, Decided
<1> QED
  BY <1>1, <1>2, <1>3, <1>4, <1>5, <1>6, <1>7, <1>8 DEF Reference!Next

\* It implies each part of what the search promises.
LEMMA ReferenceInvTypes == ReferenceInv => Reference!TypeOK
<1> SUFFICES ASSUME ReferenceInv PROVE Reference!TypeOK
  OBVIOUS
<1>1. \A k \in DOMAIN calls : calls[k].selected \subseteq asked.sections
  <2>1. CASE calls = << >>
    BY <2>1
  <2>2. CASE calls # << >>
    <3>1. at = "search" /\ Underway(asked, calls, feasible, stopped)
      BY <2>2 DEF ReferenceInv
    <3>2. calls \in Seq(CallsOf(asked))
      BY <3>1 DEF Underway
    <3>3. \A k \in DOMAIN calls : calls[k] \in CallsOf(asked)
      BY <3>2
    <3> QED
      BY <3>3 DEF CallsOf
  <2> QED
    BY <2>1, <2>2
<1>2. verdict.status \in {"none", "OPTIMAL", "INFEASIBLE", "TIME_LIMIT", "FAILED"}
  <2>1. Reference!NoResult.status = "none"
    BY DEF Reference!NoResult
  <2>2. \A e, c : Reference!StatusOf(e, c) \in {"OPTIMAL", "INFEASIBLE", "TIME_LIMIT"}
    BY DEF Reference!StatusOf
  <2>3. Decided => verdict.status \in {"OPTIMAL", "INFEASIBLE", "TIME_LIMIT"}
    BY <2>2 DEF Decided
  <2> QED
    BY <2>1, <2>3 DEF ReferenceInv, Refused
<1> QED
  BY <1>1, <1>2 DEF ReferenceInv, Reference!TypeOK

\* Without a stop there are no calls left, so every legal selection is found.
LEMMA ReferenceInvFinds == ReferenceInv => Reference!FindsEachOnce
<1> SUFFICES ASSUME ReferenceInv PROVE Reference!FindsEachOnce
  OBVIOUS
<1>1. \A j, k \in DOMAIN feasible : j # k => feasible[j] # feasible[k]
  <2>1. feasible = << >> \/ Underway(asked, calls, feasible, stopped)
    BY DEF ReferenceInv, Refused, Decided
  <2> QED
    BY <2>1 DEF Underway
<1>2. ASSUME Reference!Ended, ~stopped PROVE {feasible[k] : k \in DOMAIN feasible} = FeasibleSelections(asked)
  <2>1. calls = << >> /\ Decided
    BY <1>2 DEF Reference!Ended, ReferenceInv, Refused
  <2>2. /\ feasible \in Seq(FeasibleSelections(asked))
        /\ \A S \in FeasibleSelections(asked) :
              (\E j \in DOMAIN feasible : feasible[j] = S) \/ \E k \in DOMAIN calls : Below(asked, S, calls[k])
    BY <1>2, <2>1 DEF Decided, Underway
  <2>3. DOMAIN calls = {}
    BY <2>1
  <2>4. \A k \in DOMAIN feasible : feasible[k] \in FeasibleSelections(asked)
    BY <2>2
  <2> QED
    BY <2>2, <2>3, <2>4
<1> QED
  BY <1>1, <1>2, SameProblem DEF Reference!FindsEachOnce

\* What is reported is the choice from the selections found.
LEMMA ReferenceInvReports ==
    ASSUME ReferenceInv, Decided
    PROVE  Reported(asked, feasible, verdict.candidates)
<1>1. asked \in ReferenceProblems /\ ValidRequest(asked)
  BY DEF ReferenceInv, Decided
<1>2. Solvable(asked)
  BY <1>1, ReferenceParts DEF Searchable
<1>3. feasible \in Seq(FeasibleSelections(asked))
  BY DEF Decided, Underway
<1>4. verdict.candidates = Selected(asked, feasible)
  BY DEF Decided
<1> QED
  BY <1>2, <1>3, <1>4, GreedyReports

\* A verdict is about all legal selections, as the search was not stopped.
LEMMA ReferenceInvProves == ReferenceInv => Reference!VerdictIsProved
<1> SUFFICES ASSUME ReferenceInv, at = "done"
             PROVE  /\ verdict.status = "INFEASIBLE" => FeasibleSelections(asked) = {}
                    /\ verdict.status = "OPTIMAL" =>
                          \A S \in FeasibleSelections(asked) :
                              verdict.candidates[1].score <= WeightedScore(asked, S)
  <2>1. \A S : Reference!WeightedScore(asked, S) = WeightedScore(asked, S)
    <3>1. \A S : Reference!Candidate(asked, S).score = Candidate(asked, S).score
      BY SameScore
    <3> QED
      BY <3>1 DEF Reference!Candidate, Candidate
  <2> QED
    BY <2>1, SameProblem DEF Reference!VerdictIsProved
<1> SUFFICES ASSUME verdict.status \in {"INFEASIBLE", "OPTIMAL"}
             PROVE  /\ verdict.status = "INFEASIBLE" => FeasibleSelections(asked) = {}
                    /\ verdict.status = "OPTIMAL" =>
                          \A S \in FeasibleSelections(asked) :
                              verdict.candidates[1].score <= WeightedScore(asked, S)
  OBVIOUS
<1>1. Decided
  BY DEF ReferenceInv, Refused
<1>2. Reported(asked, feasible, verdict.candidates)
  BY <1>1, ReferenceInvReports
<1>3. ~stopped /\ (verdict.status = "OPTIMAL" <=> verdict.candidates # << >>)
  <2>1. stopped \in BOOLEAN /\ verdict.status = Reference!StatusOf(stopped, verdict.candidates)
    BY <1>1 DEF ReferenceInv, Decided
  <2> QED
    BY <2>1 DEF Reference!StatusOf
<1>4. {feasible[k] : k \in DOMAIN feasible} = FeasibleSelections(asked)
  <2>1. Reference!Ended
    BY DEF Reference!Ended
  <2> QED
    BY <1>3, <2>1, ReferenceInvFinds, SameProblem DEF Reference!FindsEachOnce
<1>5. CASE verdict.status = "INFEASIBLE"
  <2>1. feasible = << >>
    BY <1>2, <1>3, <1>5 DEF Reported
  <2> QED
    BY <1>4, <1>5, <2>1
<1>6. CASE verdict.status = "OPTIMAL"
  <2>1. \A k \in DOMAIN feasible : verdict.candidates[1].score <= WeightedScore(asked, feasible[k])
    BY <1>2, <1>3, <1>6 DEF Reported
  <2> QED
    BY <1>4, <1>6, <2>1
<1> QED
  BY <1>5, <1>6

\* The candidates differ, and what is missing has a reason.
LEMMA ReferenceInvDiverse == ReferenceInv => Reference!GreedyAndDiverse
<1> SUFFICES ASSUME ReferenceInv, Reference!Ended
             PROVE  LET c == verdict.candidates
                    IN  /\ \A j, k \in DOMAIN c :
                              j # k => Difference(c[j].sections, c[k].sections) >= asked.minDifference
                        /\ \A n \in DOMAIN feasible : Passed(asked, feasible[n], c)
  BY SameScore, SameSums, SameOrder, Zenon DEF Reference!GreedyAndDiverse, Passed
<1>1. Decided
  BY DEF ReferenceInv, Refused, Reference!Ended
<1> QED
  BY <1>1, ReferenceInvReports, Zenon DEF Reported

\* The reference search finds every legal selection once unless it is stopped,
\* says optimal or infeasible only of what is so, and reports the best first, far
\* enough from each other (reference.py:25-141).
THEOREM ReferenceSearchIsExact == Reference!Spec => []ReferenceIsExact
<1>1. ReferenceInv => ReferenceIsExact
  BY ReferenceInvTypes, ReferenceInvFinds, ReferenceInvProves, ReferenceInvDiverse
     DEF ReferenceIsExact, Reference!SearchIsExact
<1> QED
  BY ReferenceStart, ReferenceStep, <1>1, PTL DEF Reference!Spec
-----------------------------------------------------------------------------
(* The answer of the search.                                               *)

\* Two selections differ by as many ids as sections.
LEMMA SectionsDiffer ==
    ASSUME NEW r, Solvable(r), NEW x \in SUBSET r.sections, NEW S \in SUBSET r.sections
    PROVE  /\ IsFiniteSet(SymDiff(x, S)) /\ SymDiff(x, S) \in SUBSET r.sections
           /\ Difference(x, S) = Cardinality(SymDiff(x, S))
<1> DEFINE D == SymDiff(x, S)
           f == [s \in D |-> s.id]
<1>1. IsFiniteSet(r.sections)
  BY FiniteSelections
<1>2. D \in SUBSET r.sections
  BY DEF SymDiff
<1>3. SymDiff(IdsOf(x), IdsOf(S)) = {f[s] : s \in D}
  <2>1. \A s, t \in r.sections : s.id = t.id => s = t
    BY UniqueIds
  <2>2. ASSUME NEW s \in D PROVE s.id \in SymDiff(IdsOf(x), IdsOf(S))
    <3>1. CASE s \in x /\ s \notin S
      <4>1. s.id \in IdsOf(x)
        BY <3>1 DEF IdsOf
      <4>2. s.id \notin IdsOf(S)
        BY <2>1, <3>1 DEF IdsOf
      <4> QED
        BY <4>1, <4>2 DEF SymDiff
    <3>2. CASE s \in S /\ s \notin x
      <4>1. s.id \in IdsOf(S)
        BY <3>2 DEF IdsOf
      <4>2. s.id \notin IdsOf(x)
        BY <2>1, <3>2 DEF IdsOf
      <4> QED
        BY <4>1, <4>2 DEF SymDiff
    <3> QED
      BY <3>1, <3>2 DEF SymDiff
  <2>3. ASSUME NEW i \in SymDiff(IdsOf(x), IdsOf(S)) PROVE \E s \in D : i = s.id
    <3>1. CASE i \in IdsOf(x) /\ i \notin IdsOf(S)
      <4>1. PICK s \in x : i = s.id
        BY <3>1 DEF IdsOf
      <4>2. s \notin S
        BY <3>1, <4>1 DEF IdsOf
      <4> QED
        BY <4>1, <4>2 DEF SymDiff
    <3>2. CASE i \in IdsOf(S) /\ i \notin IdsOf(x)
      <4>1. PICK s \in S : i = s.id
        BY <3>2 DEF IdsOf
      <4>2. s \notin x
        BY <3>2, <4>1 DEF IdsOf
      <4> QED
        BY <4>1, <4>2 DEF SymDiff
    <3> QED
      BY <3>1, <3>2 DEF SymDiff
  <2>4. {f[s] : s \in D} = {s.id : s \in D}
    OBVIOUS
  <2> HIDE DEF D, f
  <2> QED
    BY <2>2, <2>3, <2>4
<1>4. \A s, t \in D : f[s] = f[t] => s = t
  BY <1>2, UniqueIds
<1>5. DOMAIN f = D
  OBVIOUS
<1>6. IsFiniteSet(D)
  BY <1>1, <1>2, FS_Subset
<1> HIDE DEF f, D
<1>7. Difference(x, S) = Cardinality(D)
  BY <1>3, <1>4, <1>5, <1>6, CountImage DEF Difference
<1> QED
  BY <1>2, <1>6, <1>7 DEF D

\* The cut around a selection leaves those that differ enough from it.
LEMMA FarIsDifferent ==
    ASSUME NEW r, Solvable(r), NEW x \in SUBSET r.sections, NEW S \in SUBSET r.sections
    PROVE  FarFrom(r, x, S) <=> Difference(x, S) >= r.minDifference
<1> DEFINE A == r.sections
           M == Matching(r, x, S)
           D == SymDiff(x, S)
<1>1. IsFiniteSet(A)
  BY FiniteSelections
<1>2. D \in SUBSET A /\ M = A \ D /\ A \cap D = D
  BY DEF Matching, SymDiff
<1>3. IsFiniteSet(D) /\ Difference(x, S) = Cardinality(D)
  BY SectionsDiffer
<1> HIDE DEF D, M
<1>4. Cardinality(M) = Cardinality(A) - Cardinality(D)
  <2> HIDE DEF A
  <2>1. Cardinality(A \ D) = Cardinality(A) - Cardinality(A \cap D)
    BY <1>1, <1>3, FS_Difference, Zenon
  <2> QED
    BY <1>2, <2>1, Zenon
<1>5. Cardinality(A) \in Nat /\ Cardinality(D) \in Nat
  BY <1>1, <1>3, FS_CardinalityType
<1>6. r.minDifference \in Nat
  BY DEF Solvable, WellFormed
<1> QED
  BY <1>3, <1>4, <1>5, <1>6 DEF FarFrom, M, A

\* Two different selections differ.
LEMMA OthersDiffer ==
    ASSUME NEW r, Solvable(r), NEW x \in SUBSET r.sections, NEW S \in SUBSET r.sections
    PROVE  x # S <=> Difference(x, S) >= 1
<1> DEFINE D == SymDiff(x, S)
<1>1. IsFiniteSet(D) /\ Difference(x, S) = Cardinality(D)
  BY SectionsDiffer
<1>2. D = {} <=> x = S
  BY DEF SymDiff
<1> HIDE DEF D
<1>3. Cardinality(D) \in Nat /\ (Cardinality(D) = 0 <=> D = {})
  BY <1>1, FS_CardinalityType, FS_EmptySet
<1> QED
  BY <1>1, <1>2, <1>3

\* Every two candidates of a list differ enough.
AllDiffer(r, n, q) ==
    \A i, j \in 1..n : i # j => Difference(q[i].sections, q[j].sections) >= r.minDifference

\* The lower of two numbers.
Fewer(a, b) == IF a <= b THEN a ELSE b

\* A list has the first m places of another one.
Begins(c, q, m, E) == c \in Seq(E) /\ Len(c) = m /\ \A k \in 1..m : c[k] = q[k]

\* The choice among candidates that all differ enough takes the first ones.
LEMMA ChoiceTakesFirst ==
    ASSUME NEW r, r.maxCandidates \in Nat \ {0}, NEW E, NEW n \in Nat, NEW q \in [1..n -> E],
           AllDiffer(r, n, q)
    PROVE  Begins(SelectDiverseCandidates(r, q), q, Fewer(n, r.maxCandidates), E)
<1> DEFINE max == r.maxCandidates
           low(l) == Fewer(l, max)
<1> USE DEF Fewer
<1>0. PICK taken : ChosenBy(taken, r, n, q)
  BY SelectSteps
<1>1. /\ taken[0] = << >>
      /\ \A l \in 1..n : taken[l] = Takes(r, taken[l - 1], q[l])
      /\ SelectDiverseCandidates(r, q) = taken[n]
  BY <1>0 DEF ChosenBy
<1> DEFINE IsFirst(l) == taken[l] \in Seq(E) /\ Len(taken[l]) = low(l) /\ \A k \in 1..low(l) : taken[l][k] = q[k]
           G == {l \in Nat : l <= n => IsFirst(l)}
<1>2. 0 \in G
  <2>1. << >> \in Seq(E) /\ Len(<< >>) = 0 /\ 1..0 = {} /\ low(0) = 0
    OBVIOUS
  <2>2. IsFirst(0)
    BY <1>1, <2>1
  <2> QED
    BY <2>2
<1>3. ASSUME NEW l \in Nat, l \in G PROVE l + 1 \in G
  <2> SUFFICES ASSUME l + 1 <= n PROVE IsFirst(l + 1)
    OBVIOUS
  <2>1. l + 1 \in 1..n /\ (l + 1) - 1 = l /\ q[l + 1] \in E
    OBVIOUS
  <2> DEFINE old == taken[l]
             x == q[l + 1]
  <2>2. old \in Seq(E) /\ Len(old) = low(l) /\ \A k \in 1..low(l) : old[k] = q[k]
    BY <1>3
  <2>3. taken[l + 1] = Takes(r, old, x)
    BY <1>1, <2>1
  <2>4. \A k \in 1..low(l) : Difference(x.sections, old[k].sections) >= r.minDifference
    <3> TAKE k \in 1..low(l)
    <3>1. k \in 1..n /\ k # l + 1
      OBVIOUS
    <3> QED
      BY <2>1, <2>2, <3>1 DEF AllDiffer
  <2>5. DOMAIN old = 1..low(l)
    BY <2>2
  <2> HIDE DEF old, G
  <2>6. CASE l < max
    <3>1. low(l) = l /\ low(l + 1) = l + 1 /\ Len(old) < max
      BY <2>2, <2>6
    <3>2. taken[l + 1] = Append(old, x)
      BY <2>3, <2>4, <2>5, <3>1 DEF Takes
    <3> HIDE DEF low, x
    <3>3. /\ Append(old, x) \in Seq(E) /\ Len(Append(old, x)) = l + 1
          /\ \A k \in 1..l : Append(old, x)[k] = old[k]
          /\ Append(old, x)[l + 1] = x
      BY <2>1, <2>2, <3>1 DEF x
    <3>4. \A k \in 1..(l + 1) : Append(old, x)[k] = q[k]
      <4> TAKE k \in 1..(l + 1)
      <4>1. k \in 1..l \/ k = l + 1
        OBVIOUS
      <4> QED
        BY <2>2, <3>1, <3>3, <4>1 DEF x
    <3> QED
      BY <3>1, <3>2, <3>3, <3>4
  <2>7. CASE ~(l < max)
    <3>1. low(l) = max /\ low(l + 1) = max
      BY <2>7
    <3>2. taken[l + 1] = old
      BY <2>2, <2>3, <3>1 DEF Takes
    <3> QED
      BY <2>2, <3>1, <3>2
  <2> QED
    BY <2>6, <2>7
<1> HIDE DEF G
<1>4. Nat \subseteq G
  BY <1>2, <1>3, Counting
<1> QED
  BY <1>1, <1>4 DEF G, Begins

\* A list shows the candidate of every selection once, best first.
ShowsAll(r, F, q) ==
    LET E == Candidates(r, F)
        n == Cardinality(E)
    IN  /\ n \in Nat /\ n = Cardinality(F) /\ q \in [1..n -> E]
        /\ \A x \in E : \E i \in 1..n : q[i] = x
        /\ \A i, j \in 1..n : i # j => q[i] # q[j] /\ q[i].sections # q[j].sections
        /\ \A i, j \in 1..n : i < j => q[i].score <= q[j].score
        /\ \A x \in E : x.sections \in F /\ x = Candidate(r, x.sections)
                        /\ x.score = WeightedScore(r, x.sections) /\ x.score \in Int

\* The candidates in order are such a list.
LEMMA CandidatesListed ==
    ASSUME NEW r, Solvable(r), NEW F \in SUBSET SUBSET r.sections
    PROVE  /\ IsFiniteSet(F) /\ IsFiniteSet(Candidates(r, F))
           /\ ShowsAll(r, F, InOrder(Candidates(r, F), Better))
<1> DEFINE E == Candidates(r, F)
           R == Betters(r)
           q == InOrder(E, Better)
           n == Cardinality(E)
<1>1. /\ IsFiniteSet(F) /\ IsFiniteSet(E) /\ Orders(R, E) /\ q = Listed(R, E)
      /\ \A a, b \in E : <<a, b>> \in R <=> Better(a, b)
  BY BetterOrders
<1>2. \A x \in E : x.sections \in F /\ x = Candidate(r, x.sections)
                   /\ x.score = WeightedScore(r, x.sections) /\ x.score \in Int
  BY ScoreTyped DEF Candidates, Candidate
<1>3. n = Cardinality(F)
  <2> DEFINE f == [S \in F |-> Candidate(r, S)]
  <2>1. E = {f[S] : S \in F}
    BY DEF Candidates
  <2>2. \A S, T \in F : f[S] = f[T] => S = T
    BY DEF Candidate
  <2>3. DOMAIN f = F
    OBVIOUS
  <2> HIDE DEF f, E
  <2> QED
    BY <1>1, <2>1, <2>2, <2>3, CountImage
<1> HIDE DEF E, R, q
<1>4. /\ q \in [1..n -> E]
      /\ \A x \in E : \E i \in 1..n : q[i] = x
      /\ \A i, j \in 1..n : i < j => <<q[i], q[j]>> \in R
  BY <1>1, ListedAll
<1>5. n \in Nat
  BY <1>1, FS_CardinalityType
<1>6. ASSUME NEW i \in 1..n, NEW j \in 1..n, i # j PROVE q[i] # q[j]
  <2>1. <<q[i], q[j]>> \in R \/ <<q[j], q[i]>> \in R
    <3>1. i < j \/ j < i
      BY <1>6
    <3> QED
      BY <1>4, <3>1
  <2>2. \A x \in E : <<x, x>> \notin R
    BY <1>1, Zenon DEF Orders
  <2>3. q[i] \in E /\ q[j] \in E
    BY <1>4
  <2> QED
    BY <2>1, <2>2, <2>3
<1>7. ASSUME NEW i \in 1..n, NEW j \in 1..n, i < j PROVE q[i].score <= q[j].score
  <2>1. q[i] \in E /\ q[j] \in E /\ Better(q[i], q[j])
    BY <1>1, <1>4, <1>7
  <2>2. q[i].score \in Int /\ q[j].score \in Int
    BY <1>2, <2>1
  <2> QED
    BY <2>1, <2>2 DEF Better
<1>8. ASSUME NEW i \in 1..n, NEW j \in 1..n, i # j PROVE q[i].sections # q[j].sections
  <2>1. q[i] \in E /\ q[j] \in E /\ q[i] # q[j]
    BY <1>4, <1>6, <1>8
  <2> QED
    BY <1>2, <2>1
<1>9. ShowsAll(r, F, q)
  BY <1>2, <1>3, <1>4, <1>5, <1>6, <1>7, <1>8, Zenon DEF ShowsAll, E
<1> QED
  BY <1>1, <1>9 DEF E, q

\* A selection is far enough from all that were found.
FarFromAll(x, selections) ==
    \A k \in DOMAIN selections : Difference(x, selections[k]) >= request.minDifference

\* All that were found are legal, differ enough, and cost no more than what was
\* left when they were found, as long as the solver proves it.
FoundWell ==
    /\ \A k \in 1..Len(found) : found[k] \in FeasibleSelections(request)
    /\ \A k \in 1..Len(found) : \A j \in 1..(k - 1) :
          Difference(found[k], found[j]) >= request.minDifference
    /\ Len(found) <= request.maxCandidates
    /\ status = "OPTIMAL" =>
          \A k \in 1..Len(found) : \A y \in FeasibleSelections(request) :
              (\A j \in 1..(k - 1) : Difference(y, found[j]) >= request.minDifference) =>
                  WeightedScore(request, found[k]) <= WeightedScore(request, y)

\* What a status says once the search is over.
Settled ==
    /\ status = "INFEASIBLE" => FeasibleSelections(request) = {}
    /\ status \in {"OPTIMAL", "FEASIBLE"} => found # << >>
    /\ status = "OPTIMAL" =>
          \/ Len(found) = request.maxCandidates
          \/ \A y \in FeasibleSelections(request) : ~FarFromAll(y, found)

\* The selections that the answer is made of.
Answered ==
    result.candidates
      = InOrder(Candidates(request, Selections(found, status, fallback)), Better)

\* The invariant of the search: what was found and what the status says of it.
AnswerInv ==
    /\ SearchInv
    /\ fallback # None => fallback \in FeasibleSelections(request)
    /\ phase # "done" => result = NoResult
    /\ phase \in {"validate", "fallback"} => found = << >> /\ status = "OPTIMAL"
    /\ phase = "solve" => status \in {"OPTIMAL", "FEASIBLE"} /\ (status = "FEASIBLE" => found # << >>)
    /\ phase \in {"solve", "rank"} => FoundWell
    /\ phase = "rank" => Settled
    /\ phase = "done" => \/ status = "FAILED" /\ result = NoResult
                         \/ Solvable(request) /\ FoundWell /\ Settled /\ Answered

\* The search starts in the invariant.
LEMMA AnswerStart == Init => AnswerInv
<1> SUFFICES ASSUME Init PROVE AnswerInv
  OBVIOUS
<1> QED
  BY SearchStart DEF Init, AnswerInv

\* The cuts leave the legal selections that are far enough from all found.
LEMMA LeftIsFar ==
    ASSUME Solvable(request), NEW q \in Seq(FeasibleSelections(request))
    PROVE  Left(request, q) = {x \in FeasibleSelections(request) : FarFromAll(x, q)}
<1>1. ObjectiveAssignments(request) = FeasibleSelections(request)
  BY ModelsAreExact
<1>2. FeasibleSelections(request) \subseteq SUBSET request.sections
  BY DEF FeasibleSelections
<1>3. ASSUME NEW x \in FeasibleSelections(request), NEW k \in DOMAIN q
      PROVE  FarFrom(request, x, q[k]) <=> Difference(x, q[k]) >= request.minDifference
  <2>1. x \in SUBSET request.sections /\ q[k] \in SUBSET request.sections
    BY <1>2
  <2> QED
    BY <2>1, FarIsDifferent
<1> QED
  BY <1>1, <1>3 DEF Left, FarFromAll

\* A selection that is left is taken well, as is one that costs least.
LEMMA TakenWell ==
    ASSUME AnswerInv, Solving, NEW x \in Left(request, found), NEW s \in {"OPTIMAL", "FEASIBLE"},
           s = "OPTIMAL" => \A y \in Left(request, found) : Objective(request, x) <= Objective(request, y),
           Take(x, s)
    PROVE  AnswerInv'
<1> DEFINE A == FeasibleSelections(request)
           n == Len(found)
           W(y) == WeightedScore(request, y)
           far(y, z) == Difference(y, z) >= request.minDifference
<1>1. /\ Solvable(request) /\ FoundWell /\ SearchInv /\ phase = "solve" /\ n < request.maxCandidates
      /\ found \in Seq(SUBSET request.sections) /\ request.maxCandidates \in Nat
      /\ status \in {"OPTIMAL", "FEASIBLE"}
  BY DEF AnswerInv, SearchInv, Solving, Solvable, WellFormed
<1>2. /\ found' = Append(found, x) /\ status' = (IF s = "FEASIBLE" THEN "FEASIBLE" ELSE status)
      /\ UNCHANGED <<request, phase, fallback, result>>
  BY DEF Take
<1>3. n \in Nat /\ DOMAIN found = 1..n /\ \A k \in 1..n : found[k] \in A
  BY <1>1 DEF FoundWell
<1>4. found \in Seq(A)
  BY <1>1, <1>3
<1>5. x \in A /\ \A k \in 1..n : far(x, found[k])
  <2>1. x \in {y \in FeasibleSelections(request) : FarFromAll(y, found)}
    BY <1>1, <1>4, LeftIsFar
  <2> QED
    BY <1>3, <2>1 DEF FarFromAll
<1>6. /\ Len(found') = n + 1 /\ found'[n + 1] = x
      /\ \A k \in 1..n : found'[k] = found[k]
  BY <1>1, <1>2
<1>7. \A k \in 1..(n + 1) : k = n + 1 \/ k \in 1..n
  BY <1>3
<1>8. \A k \in 1..(n + 1) : found'[k] \in A
  BY <1>3, <1>5, <1>6, <1>7
<1>9. ASSUME NEW k \in 1..(n + 1), NEW j \in 1..(k - 1) PROVE far(found'[k], found'[j])
  <2>1. j \in 1..n
    BY <1>3
  <2>2. CASE k = n + 1
    BY <1>5, <1>6, <2>1, <2>2
  <2>3. CASE k \in 1..n
    BY <1>1, <1>6, <2>1, <2>3 DEF FoundWell
  <2> QED
    BY <1>7, <2>2, <2>3
<1>10. ASSUME status' = "OPTIMAL", NEW k \in 1..(n + 1), NEW y \in A,
              \A j \in 1..(k - 1) : far(y, found'[j])
       PROVE  W(found'[k]) <= W(y)
  <2>1. s = "OPTIMAL" /\ status = "OPTIMAL"
    BY <1>2, <1>10
  <2>2. CASE k = n + 1
    <3>1. \A j \in 1..n : far(y, found[j])
      BY <1>3, <1>6, <1>10, <2>2
    <3>2. y \in Left(request, found)
      BY <1>1, <1>3, <1>4, <3>1, LeftIsFar DEF FarFromAll
    <3>3. Objective(request, x) <= Objective(request, y)
      BY <2>1, <3>2
    <3>4. Objective(request, x) = W(x) /\ Objective(request, y) = W(y)
      BY <1>1, <1>5, ObjectiveIs
    <3> QED
      BY <1>6, <2>2, <3>3, <3>4
  <2>3. CASE k \in 1..n
    <3>1. \A j \in 1..(k - 1) : j \in 1..n
      BY <1>3, <2>3
    <3>2. \A j \in 1..(k - 1) : far(y, found[j])
      BY <1>6, <1>10, <3>1
    <3>3. W(found[k]) <= W(y)
      BY <1>1, <2>1, <2>3, <3>2 DEF FoundWell
    <3> QED
      BY <1>6, <2>3, <3>3
  <2> QED
    BY <1>7, <2>2, <2>3
<1>11. n + 1 <= request.maxCandidates
  BY <1>1, <1>3
<1> HIDE DEF A, n, W, far
<1>12. FoundWell'
  <2>1. /\ FeasibleSelections(request)' = A /\ Len(found)' = n + 1
        /\ request' = request /\ \A y : WeightedScore(request, y)' = W(y)
    BY <1>2, <1>6 DEF A, W
  <2>2. /\ \A k \in 1..(n + 1) : found'[k] \in A
        /\ \A k \in 1..(n + 1) : \A j \in 1..(k - 1) : Difference(found'[k], found'[j]) >= request.minDifference
        /\ n + 1 <= request.maxCandidates
        /\ status' = "OPTIMAL" =>
              \A k \in 1..(n + 1) : \A y \in A :
                  (\A j \in 1..(k - 1) : Difference(y, found'[j]) >= request.minDifference) =>
                      W(found'[k]) <= W(y)
    BY <1>8, <1>9, <1>10, <1>11, Zenon DEF far
  <2> QED
    BY <1>2, <2>1, <2>2, Zenon DEF FoundWell, W, A
<1>13. SearchInv'
  <2>1. found' \in Seq(SUBSET request.sections)
    <3>1. x \in SUBSET request.sections
      BY LeftAreSelections
    <3> QED
      BY <1>1, <1>2, <3>1
  <2> QED
    BY <1>1, <1>2, <2>1 DEF SearchInv
<1>14. status' \in {"OPTIMAL", "FEASIBLE"} /\ found' # << >>
  <2>1. Append(found, x) # << >>
    BY <1>1
  <2> QED
    BY <1>1, <1>2, <2>1
<1>15. fallback' # None => fallback' \in FeasibleSelections(request')
  BY <1>2 DEF AnswerInv
<1> QED
  BY <1>1, <1>2, <1>12, <1>13, <1>14, <1>15 DEF AnswerInv

\* The search ends for a reason.
LEMMA EndsSettled ==
    ASSUME AnswerInv, phase = "solve", NEW s \in {"OPTIMAL", "FEASIBLE", "INFEASIBLE", "TIME_LIMIT", "FAILED"},
           StopWith(s),
           s = "INFEASIBLE" => FeasibleSelections(request) = {},
           s \in {"OPTIMAL", "FEASIBLE"} => found # << >> /\ s = status,
           s = "OPTIMAL" => \/ Len(found) = request.maxCandidates
                            \/ \A y \in FeasibleSelections(request) : ~FarFromAll(y, found)
    PROVE  AnswerInv'
<1>1. SearchInv /\ FoundWell /\ Solvable(request) /\ status \in {"OPTIMAL", "FEASIBLE"}
  BY DEF AnswerInv, SearchInv
<1>2. phase' = "rank" /\ status' = s /\ UNCHANGED <<request, fallback, found, result>>
  BY DEF StopWith
<1>3. SearchInv'
  BY <1>1, <1>2 DEF SearchInv
<1>4. FoundWell'
  <2>1. s = "OPTIMAL" => status = "OPTIMAL"
    OBVIOUS
  <2> QED
    BY <1>1, <1>2, <2>1 DEF FoundWell
<1>5. Settled'
  BY <1>2 DEF Settled, FarFromAll
<1>6. fallback' # None => fallback' \in FeasibleSelections(request')
  BY <1>2 DEF AnswerInv
<1> QED
  BY <1>2, <1>3, <1>4, <1>5, <1>6 DEF AnswerInv

\* Every step of the search keeps the invariant.
LEMMA AnswerStep == AnswerInv /\ [Next]_vars => AnswerInv'
<1> SUFFICES ASSUME AnswerInv, [Next]_vars PROVE AnswerInv'
  OBVIOUS
<1>0. SearchInv /\ SearchInv'
  BY SearchStep DEF AnswerInv
<1>1. CASE Reject
  <2>1. /\ phase = "validate" /\ phase' = "done" /\ status' = "FAILED"
        /\ UNCHANGED <<request, fallback, found, result>>
    BY <1>1 DEF Reject
  <2>2. result = NoResult
    BY <2>1 DEF AnswerInv
  <2> QED
    BY <1>0, <2>1, <2>2 DEF AnswerInv
<1>2. CASE Accept
  <2>1. /\ phase = "validate" /\ phase' \in {"solve", "fallback"}
        /\ UNCHANGED <<request, fallback, found, status, result>>
    BY <1>2 DEF Accept
  <2>2. found = << >> /\ status = "OPTIMAL"
    BY <2>1 DEF AnswerInv
  <2>3. request.maxCandidates \in Nat
    BY <1>0, <2>1 DEF SearchInv, Solvable, WellFormed
  <2>4. FoundWell'
    BY <2>1, <2>2, <2>3 DEF FoundWell
  <2> QED
    BY <1>0, <2>1, <2>2, <2>4 DEF AnswerInv
<1>3. CASE FindFallback \/ NoFallback
  <2>1. /\ phase = "fallback" /\ phase' = "solve" /\ UNCHANGED <<request, found, status, result>>
        /\ fallback' = fallback \/ fallback' \in Assignments(request)
    BY <1>3 DEF FindFallback, NoFallback
  <2>2. found = << >> /\ status = "OPTIMAL"
    BY <2>1 DEF AnswerInv
  <2>3. Solvable(request) /\ request.maxCandidates \in Nat
    BY <1>0, <2>1 DEF SearchInv, Solvable, WellFormed
  <2>4. FoundWell'
    BY <2>1, <2>2, <2>3 DEF FoundWell
  <2>5. fallback' # None => fallback' \in FeasibleSelections(request')
    <3>1. Assignments(request) = FeasibleSelections(request)
      BY <2>3, ModelsAreExact
    <3> QED
      BY <2>1, <3>1 DEF AnswerInv
  <2> QED
    BY <1>0, <2>1, <2>2, <2>4, <2>5 DEF AnswerInv
<1>4. CASE SolveOptimal
  <2>1. PICK x \in Left(request, found) :
            /\ \A y \in Left(request, found) : Objective(request, x) <= Objective(request, y)
            /\ Take(x, "OPTIMAL")
    BY <1>4 DEF SolveOptimal
  <2>2. Solving
    BY <1>4 DEF SolveOptimal
  <2> QED
    BY <2>1, <2>2, TakenWell
<1>5. CASE SolveFeasible
  <2>1. PICK x \in Left(request, found) : Take(x, "FEASIBLE")
    BY <1>5 DEF SolveFeasible
  <2>2. Solving
    BY <1>5 DEF SolveFeasible
  <2> QED
    BY <2>1, <2>2, TakenWell
<1>6. ASSUME phase = "solve" PROVE FoundWell /\ Solvable(request) /\ found \in Seq(FeasibleSelections(request))
  <2>1. FoundWell /\ Solvable(request) /\ found \in Seq(SUBSET request.sections)
    BY <1>6 DEF AnswerInv, SearchInv
  <2> QED
    BY <2>1 DEF FoundWell
<1>7. CASE SolveInfeasible
  <2>1. phase = "solve" /\ Left(request, found) = {}
    BY <1>7 DEF SolveInfeasible, Solving
  <2>2. \A y \in FeasibleSelections(request) : ~FarFromAll(y, found)
    BY <1>6, <2>1, LeftIsFar
  <2>3. CASE found = << >>
    <3>1. FeasibleSelections(request) = {}
      BY <2>2, <2>3 DEF FarFromAll
    <3>2. StopWith("INFEASIBLE")
      BY <1>7, <2>3 DEF SolveInfeasible
    <3> QED
      BY <2>1, <3>1, <3>2, EndsSettled
  <2>4. CASE found # << >>
    <3>1. StopWith(status)
      BY <1>7, <2>4 DEF SolveInfeasible
    <3>2. status \in {"OPTIMAL", "FEASIBLE"}
      BY <2>1 DEF AnswerInv
    <3> QED
      BY <2>1, <2>2, <2>4, <3>1, <3>2, EndsSettled
  <2> QED
    BY <2>3, <2>4
<1>8. CASE SolveUnknown \/ SolveInvalid
  <2>1. phase = "solve" /\ (StopWith("TIME_LIMIT") \/ StopWith("FAILED"))
    BY <1>8 DEF SolveUnknown, SolveInvalid, Solving
  <2> QED
    BY <2>1, EndsSettled
<1>9. CASE Enough
  <2>1. phase = "solve" /\ Len(found) = request.maxCandidates /\ StopWith(status)
    BY <1>9 DEF Enough
  <2>2. status \in {"OPTIMAL", "FEASIBLE"}
    BY <2>1 DEF AnswerInv
  <2>3. found # << >>
    <3>1. request.maxCandidates # 0
      BY <1>6, <2>1 DEF Solvable, WellFormed
    <3> QED
      BY <2>1, <3>1
  <2> QED
    BY <2>1, <2>2, <2>3, EndsSettled
<1>10. CASE Rank
  <2>1. /\ phase = "rank" /\ phase' = "done" /\ UNCHANGED <<request, fallback, found, status>>
        /\ result'.candidates = InOrder({Candidate(request, x) : x \in Selections(found, status, fallback)}, Better)
    BY <1>10, Zenon DEF Rank
  <2>2. Solvable(request) /\ FoundWell /\ Settled
    BY <2>1 DEF AnswerInv, SearchInv
  <2>3. FoundWell' /\ Settled' /\ Solvable(request')
    BY <2>1, <2>2 DEF FoundWell, Settled, FarFromAll
  <2>4. Answered'
    <3>1. result'.candidates = InOrder(Candidates(request, Selections(found, status, fallback)), Better)
      BY <2>1, Zenon DEF Candidates
    <3> QED
      BY <2>1, <3>1, Zenon DEF Answered
  <2>5. fallback' # None => fallback' \in FeasibleSelections(request')
    BY <2>1 DEF AnswerInv
  <2> QED
    BY <1>0, <2>1, <2>3, <2>4, <2>5 DEF AnswerInv
<1>11. CASE UNCHANGED vars
  <2>1. UNCHANGED <<request, phase, fallback, found, status, result>>
    BY <1>11 DEF vars
  <2>2. /\ FoundWell => FoundWell'
        /\ Settled => Settled'
        /\ Answered => Answered'
    <3>1. (FoundWell => FoundWell') /\ (Settled => Settled')
      BY <2>1 DEF FoundWell, Settled, FarFromAll
    <3>2. Answered => Answered'
      BY <2>1, Zenon DEF Answered
    <3> QED
      BY <3>1, <3>2
  <2> QED
    BY <1>0, <2>1, <2>2 DEF AnswerInv
<1> QED
  BY <1>1, <1>2, <1>3, <1>4, <1>5, <1>7, <1>8, <1>9, <1>10, <1>11 DEF Next

\* The selections that were found are legal, told apart by their places, and
\* differ enough.
LEMMA FoundDiffer ==
    ASSUME SearchInv, FoundWell, Solvable(request)
    PROVE  /\ Len(found) \in Nat /\ DOMAIN found = 1..Len(found)
           /\ Found(found) \subseteq FeasibleSelections(request)
           /\ IsFiniteSet(Found(found)) /\ Cardinality(Found(found)) = Len(found)
           /\ \A S, T \in Found(found) : S # T => Difference(S, T) >= request.minDifference
<1> DEFINE n == Len(found)
           A == FeasibleSelections(request)
<1>1. n \in Nat /\ DOMAIN found = 1..n
  BY DEF SearchInv
<1>2. \A k \in 1..n : found[k] \in A /\ found[k] \in SUBSET request.sections
  BY DEF FoundWell, FeasibleSelections
<1>3. request.minDifference \in Nat \ {0}
  BY DEF Solvable, WellFormed
<1>4. ASSUME NEW j \in 1..n, NEW k \in 1..n, j # k
      PROVE  Difference(found[j], found[k]) >= request.minDifference
  <2>1. Difference(found[j], found[k]) = Difference(found[k], found[j])
    BY <1>2, DifferenceTyped
  <2>2. CASE j < k
    <3>1. j \in 1..(k - 1)
      BY <1>1, <2>2
    <3> QED
      BY <2>1, <3>1 DEF FoundWell
  <2>3. CASE k < j
    <3>1. k \in 1..(j - 1)
      BY <1>1, <2>3
    <3> QED
      BY <3>1 DEF FoundWell
  <2> QED
    BY <1>1, <1>4, <2>2, <2>3
<1>5. ASSUME NEW j \in 1..n, NEW k \in 1..n, found[j] = found[k] PROVE j = k
  <2>1. Difference(found[j], found[k]) = 0
    BY <1>2, <1>5, DifferenceTyped
  <2> QED
    BY <1>3, <1>4, <2>1
<1> DEFINE I == 1..n
<1>6. IsFiniteSet(I) /\ Cardinality(I) = n
  <2> HIDE DEF n
  <2> QED
    BY <1>1, FS_Interval
<1>7. Found(found) = {found[k] : k \in I}
  BY <1>1 DEF Found
<1>8. IsFiniteSet(Found(found)) /\ Cardinality(Found(found)) = n
  <2>1. \A j, k \in I : found[j] = found[k] => j = k
    BY <1>5
  <2>2. DOMAIN found = I
    BY <1>1
  <2> HIDE DEF I, n
  <2> QED
    BY <1>6, <1>7, <2>1, <2>2, CountImage
<1>9. \A S, T \in Found(found) : S # T => Difference(S, T) >= request.minDifference
  BY <1>4, <1>7
<1>10. Found(found) \subseteq A
  BY <1>2, <1>7
<1> QED
  BY <1>1, <1>8, <1>9, <1>10

\* So are those of which the answer is made.
LEMMA AnswersDiffer ==
    ASSUME AnswerInv, phase = "done", status # "FAILED" \/ result # NoResult
    PROVE  LET X == Selections(found, status, fallback)
               E == Candidates(request, X)
               c == result.candidates
           IN  /\ Solvable(request) /\ SearchInv /\ FoundWell /\ Settled
               /\ X \subseteq FeasibleSelections(request)
               /\ X \in SUBSET SUBSET request.sections
               /\ \A S, T \in X : S # T => Difference(S, T) >= request.minDifference
               /\ c = InOrder(E, Better) /\ c \in [1..Cardinality(E) -> E]
<1> DEFINE X == Selections(found, status, fallback)
           E == Candidates(request, X)
<1>1. SearchInv /\ Solvable(request) /\ FoundWell /\ Settled /\ Answered
  BY DEF AnswerInv
<1>2. /\ X \subseteq FeasibleSelections(request)
      /\ \A S, T \in X : S # T => Difference(S, T) >= request.minDifference
  <2>1. CASE found = << >> /\ fallback # None /\ status = "TIME_LIMIT"
    <3>1. X = {fallback}
      BY <2>1 DEF Selections
    <3>2. fallback \in FeasibleSelections(request)
      BY <2>1 DEF AnswerInv
    <3> HIDE DEF X
    <3> QED
      BY <3>1, <3>2
  <2>2. CASE ~(found = << >> /\ fallback # None /\ status = "TIME_LIMIT")
    <3>1. X = Found(found)
      BY <2>2 DEF Selections, Found
    <3> HIDE DEF X
    <3> QED
      BY <1>1, <3>1, FoundDiffer
  <2> QED
    BY <2>1, <2>2
<1>3. X \in SUBSET SUBSET request.sections
  BY <1>2 DEF FeasibleSelections
<1>4. result.candidates = InOrder(E, Better)
  BY <1>1, Zenon DEF Answered
<1> HIDE DEF X
<1>5. InOrder(E, Better) \in [1..Cardinality(E) -> E]
  BY <1>1, <1>3, CandidatesListed, Zenon DEF ShowsAll
<1> QED
  BY <1>1, <1>2, <1>3, <1>4, <1>5, Zenon DEF X

\* An answer to a problem that was rejected has no candidates.
LEMMA RejectedIsEmpty == NoResult.candidates = << >> /\ DOMAIN << >> = {}
  BY DEF NoResult

\* The candidates of an answer are legal, differ enough and come best first.
LEMMA AnswersAreDiverse == AnswerInv => CandidatesAreDiverse /\ BestFirst
<1> SUFFICES ASSUME AnswerInv, phase = "done" PROVE CandidatesAreDiverse /\ BestFirst
  BY DEF CandidatesAreDiverse, BestFirst
<1>1. CASE ~(status # "FAILED" \/ result # NoResult)
  BY <1>1, RejectedIsEmpty DEF CandidatesAreDiverse, BestFirst
<1>2. CASE status # "FAILED" \/ result # NoResult
  <2> DEFINE X == Selections(found, status, fallback)
             E == Candidates(request, X)
             c == result.candidates
             n == Cardinality(E)
  <2>1. /\ Solvable(request) /\ X \subseteq FeasibleSelections(request) /\ X \in SUBSET SUBSET request.sections
        /\ \A S, T \in X : S # T => Difference(S, T) >= request.minDifference
        /\ c = InOrder(E, Better) /\ c \in [1..n -> E]
    BY <1>2, AnswersDiffer, Zenon
  <2> HIDE DEF X, c
  <2>0. ShowsAll(request, X, c)
    BY <2>1, CandidatesListed
  <2>2. /\ \A i, j \in 1..n : i # j => c[i].sections # c[j].sections
        /\ \A i, j \in 1..n : i < j => c[i].score <= c[j].score
        /\ \A x \in E : x.sections \in X
    BY <2>0, Zenon DEF ShowsAll
  <2> HIDE DEF E, n
  <2>3. DOMAIN c = 1..n /\ \A i \in 1..n : c[i].sections \in X
    BY <2>1, <2>2
  <2>4. CandidatesAreDiverse
    <3>1. \A k \in DOMAIN c : c[k].sections \in FeasibleSelections(request)
      BY <2>1, <2>3
    <3>2. \A j, k \in DOMAIN c : j # k => Difference(c[j].sections, c[k].sections) >= request.minDifference
      BY <2>1, <2>2, <2>3
    <3> QED
      BY <3>1, <3>2, Zenon DEF CandidatesAreDiverse, c
  <2>5. BestFirst
    <3>1. \A j, k \in DOMAIN c : j < k => c[j].score <= c[k].score
      BY <2>2, <2>3
    <3> QED
      BY <3>1, Zenon DEF BestFirst, c
  <2> QED
    BY <2>4, <2>5
<1> QED
  BY <1>1, <1>2

\* The status of an answer says only what was found or proved.
LEMMA StatusesAreTruthful == AnswerInv => StatusIsTruthful
<1> SUFFICES ASSUME AnswerInv, phase = "done" PROVE StatusIsTruthful
  BY DEF StatusIsTruthful
<1>1. CASE status = "FAILED"
  BY <1>1 DEF StatusIsTruthful
<1>2. CASE status # "FAILED"
  <2> DEFINE X == Selections(found, status, fallback)
             E == Candidates(request, X)
             c == result.candidates
  <2>1. /\ Solvable(request) /\ Settled /\ X \in SUBSET SUBSET request.sections
        /\ c = InOrder(E, Better) /\ c \in [1..Cardinality(E) -> E]
    BY <1>2, AnswersDiffer, Zenon
  <2>2. ASSUME X # {} PROVE c # << >>
    <3> HIDE DEF c
    <3>1. PICK S \in X : TRUE
      BY <2>2
    <3>2. Candidate(request, S) \in E
      BY <3>1 DEF Candidates
    <3> HIDE DEF X
    <3>3. ShowsAll(request, X, c)
      BY <2>1, CandidatesListed
    <3>4. DOMAIN c = 1..Cardinality(E) /\ \E i \in 1..Cardinality(E) : c[i] = Candidate(request, S)
      <4>1. c \in [1..Cardinality(E) -> E] /\ \A x \in E : \E i \in 1..Cardinality(E) : c[i] = x
        BY <3>3, Zenon DEF ShowsAll
      <4> HIDE DEF E
      <4> QED
        BY <3>2, <4>1
    <3>5. DOMAIN c # {}
      BY <3>4
    <3> QED
      BY <3>5, RejectedIsEmpty
  <2>3. found # << >> => X # {}
    <3>1. found \in Seq(SUBSET request.sections)
      BY DEF AnswerInv, SearchInv
    <3>2. found # << >> => 1 \in DOMAIN found
      BY <3>1
    <3> QED
      BY <3>2 DEF Selections
  <2>4. status = "TIME_LIMIT" /\ fallback # None => X # {}
    BY <2>3 DEF Selections
  <2> HIDE DEF X, E
  <2>5. status \in {"OPTIMAL", "FEASIBLE"} => found # << >>
    BY <2>1 DEF Settled
  <2>6. status = "INFEASIBLE" => FeasibleSelections(request) = {}
    BY <2>1 DEF Settled
  <2> QED
    BY <2>2, <2>3, <2>4, <2>5, <2>6 DEF StatusIsTruthful
<1> QED
  BY <1>1, <1>2

\* The first candidate that is shown costs least.
LEMMA FirstIsLeast ==
    ASSUME NEW r, NEW F, NEW q, ShowsAll(r, F, q),
           NEW S \in F, \A T \in F : WeightedScore(r, S) <= WeightedScore(r, T)
    PROVE  1 \in DOMAIN q /\ 1 <= Cardinality(F) /\ q[1].score = WeightedScore(r, S)
<1> DEFINE E == Candidates(r, F)
           n == Cardinality(E)
           x == Candidate(r, S)
<1>1. /\ n \in Nat /\ n = Cardinality(F) /\ q \in [1..n -> E]
      /\ \A y \in E : \E i \in 1..n : q[i] = y
      /\ \A i, j \in 1..n : i < j => q[i].score <= q[j].score
      /\ \A y \in E : y.sections \in F /\ y.score = WeightedScore(r, y.sections) /\ y.score \in Int
  BY Zenon DEF ShowsAll
<1>2. x \in E /\ x.score = WeightedScore(r, S)
  BY DEF Candidates, Candidate
<1> HIDE DEF E, n, x
<1>3. PICK i \in 1..n : q[i] = x
  BY <1>1, <1>2
<1>4. 1 \in 1..n /\ q[1] \in E
  BY <1>1, <1>3
<1>5. q[1].score <= x.score
  <2>1. CASE i = 1
    BY <1>1, <1>3, <1>4, <2>1
  <2>2. CASE i # 1
    <3>1. 1 < i
      BY <1>1, <2>2
    <3> QED
      BY <1>1, <1>3, <1>4, <3>1
  <2> QED
    BY <2>1, <2>2
<1>6. x.score <= q[1].score
  BY <1>1, <1>2, <1>4
<1>7. x.score \in Int /\ q[1].score \in Int
  BY <1>1, <1>2, <1>4
<1> QED
  BY <1>1, <1>2, <1>4, <1>5, <1>6, <1>7

\* What the search found, in the terms of the reference: p shows what was found,
\* q all legal selections, and c is chosen from q.
Compared(p, q, c) ==
    /\ Solvable(request) /\ SearchInv /\ FoundWell /\ found # << >> /\ status = "OPTIMAL"
    /\ \/ Len(found) = request.maxCandidates
       \/ \A y \in FeasibleSelections(request) : ~FarFromAll(y, found)
    /\ ShowsAll(request, Found(found), p)
    /\ ShowsAll(request, FeasibleSelections(request), q)
    /\ c = SelectDiverseCandidates(request, q)

\* The best of what was found is the best there is.
LEMMA SameBest ==
    ASSUME NEW p, NEW q, NEW c, Compared(p, q, c)
    PROVE  1 \in DOMAIN p /\ 1 \in DOMAIN c /\ p[1].score = c[1].score
<1> DEFINE A == FeasibleSelections(request)
           E == Candidates(request, A)
           n == Cardinality(E)
<1>1. Solvable(request) /\ SearchInv /\ FoundWell /\ found # << >> /\ status = "OPTIMAL"
  BY DEF Compared
<1>2. 1 \in 1..Len(found) /\ 1 \in DOMAIN found
  BY <1>1 DEF SearchInv
<1>3. found[1] \in A /\ found[1] \in Found(found) /\ Found(found) \subseteq A
  BY <1>1, <1>2, FoundDiffer DEF FoundWell, Found
<1>4. \A y \in A : WeightedScore(request, found[1]) <= WeightedScore(request, y)
  <2>1. \A j \in 1..(1 - 1) : FALSE
    OBVIOUS
  <2> QED
    BY <1>1, <1>2, <2>1 DEF FoundWell
<1>5. 1 \in DOMAIN p /\ p[1].score = WeightedScore(request, found[1])
  BY <1>3, <1>4, FirstIsLeast DEF Compared
<1>6. q[1].score = WeightedScore(request, found[1]) /\ 1 <= Cardinality(A)
  BY <1>3, <1>4, FirstIsLeast DEF Compared
<1>7. ShowsAll(request, A, q) /\ c = SelectDiverseCandidates(request, q)
  BY DEF Compared
<1>8. /\ n \in Nat /\ n = Cardinality(A) /\ q \in [1..n -> E]
      /\ \A x \in E : x.sections \in A
  BY <1>7, Zenon DEF ShowsAll
<1>9. A \subseteq SUBSET request.sections
  BY DEF FeasibleSelections
<1> HIDE DEF A, E, n
<1>10. /\ \A x, y \in E : Difference(x.sections, y.sections) \in Nat
       /\ \A x \in E : Difference(x.sections, x.sections) = 0
  BY <1>1, <1>8, <1>9, DifferenceTyped
<1>11. request.maxCandidates \in Nat \ {0} /\ request.minDifference \in Nat \ {0}
  BY <1>1 DEF Solvable, WellFormed
<1>12. c \in Seq(E) /\ Greedy(Nears(request, E), request.maxCandidates, q, n, Len(c), c)
  BY <1>7, <1>8, <1>10, <1>11, GreedyChoice
<1>13. Len(c) > 0 /\ c[1] = q[1]
  BY <1>6, <1>8, <1>12 DEF Greedy
<1>14. 1 \in DOMAIN c
  BY <1>12, <1>13
<1> QED
  BY <1>5, <1>6, <1>13, <1>14

\* When every two selections differ enough, as many are found as the reference chooses.
LEMMA SameNumber ==
    ASSUME NEW p, NEW q, NEW c, Compared(p, q, c), request.minDifference = 1
    PROVE  LET n == Cardinality(Candidates(request, FeasibleSelections(request)))
               m == Cardinality(Candidates(request, Found(found)))
           IN  /\ m = Fewer(n, request.maxCandidates)
               /\ m \in Nat /\ n \in Nat /\ m <= n
<1> DEFINE A == FeasibleSelections(request)
           X == Found(found)
           n == Cardinality(Candidates(request, A))
           m == Cardinality(Candidates(request, X))
           max == request.maxCandidates
<1>1. Solvable(request) /\ SearchInv /\ FoundWell
  BY DEF Compared
<1>2. /\ Len(found) \in Nat /\ DOMAIN found = 1..Len(found)
      /\ X \subseteq A /\ IsFiniteSet(X) /\ Cardinality(X) = Len(found)
  BY <1>1, FoundDiffer
<1>3. n = Cardinality(A) /\ m = Cardinality(X) /\ n \in Nat /\ m \in Nat
  BY Zenon DEF Compared, ShowsAll
<1>4. A \in SUBSET SUBSET request.sections
  BY DEF FeasibleSelections
<1>5. IsFiniteSet(A)
  BY <1>1, <1>4, CandidatesListed
<1>6. Cardinality(X) <= Cardinality(A)
  BY <1>2, <1>5, FS_Subset
<1>7. max \in Nat /\ Len(found) <= max
  BY <1>1 DEF FoundWell, Solvable, WellFormed
<1>8. CASE Len(found) = max
  <2> HIDE DEF A, X, n, m, max
  <2> QED
    BY <1>2, <1>3, <1>6, <1>7, <1>8 DEF Fewer, n, m, A, X, max
<1>9. CASE \A y \in A : ~FarFromAll(y, found)
  <2>1. ASSUME NEW y \in A PROVE y \in X
    <3>1. PICK k \in DOMAIN found : ~(Difference(y, found[k]) >= 1)
      BY <1>9 DEF FarFromAll
    <3>2. found[k] \in X
      BY DEF Found
    <3>3. y \in SUBSET request.sections /\ found[k] \in SUBSET request.sections
      BY <1>2, <1>4, <3>2
    <3>4. y = found[k]
      BY <1>1, <3>1, <3>3, OthersDiffer
    <3> QED
      BY <3>2, <3>4
  <2>2. A = X
    BY <1>2, <2>1
  <2> HIDE DEF A, X, n, m, max
  <2> QED
    BY <1>2, <1>3, <1>7, <2>2 DEF Fewer, n, m, A, X, max
<1> QED
  BY <1>8, <1>9 DEF Compared

\* The choice from all selections, when every two of them differ enough.
LEMMA ChoiceOfAll ==
    ASSUME NEW r, Solvable(r), r.minDifference = 1, NEW F, F \subseteq SUBSET r.sections,
           NEW q, ShowsAll(r, F, q)
    PROVE  LET E == Candidates(r, F)
           IN  Begins(SelectDiverseCandidates(r, q), q, Fewer(Cardinality(E), r.maxCandidates), E)
<1> DEFINE E == Candidates(r, F)
           n == Cardinality(E)
<1>1. /\ n \in Nat /\ q \in [1..n -> E]
      /\ \A i, j \in 1..n : i # j => q[i].sections # q[j].sections
      /\ \A x \in E : x.sections \in F
  BY Zenon DEF ShowsAll
<1> HIDE DEF E, n
<1>2. AllDiffer(r, n, q)
  <2> SUFFICES ASSUME NEW i \in 1..n, NEW j \in 1..n, i # j
               PROVE  Difference(q[i].sections, q[j].sections) >= 1
    BY DEF AllDiffer
  <2>1. q[i].sections \in SUBSET r.sections /\ q[j].sections \in SUBSET r.sections
    BY <1>1
  <2>2. q[i].sections # q[j].sections
    BY <1>1
  <2> QED
    BY <2>1, <2>2, OthersDiffer
<1>3. r.maxCandidates \in Nat \ {0}
  BY DEF Solvable, WellFormed
<1>4. Begins(SelectDiverseCandidates(r, q), q, Fewer(n, r.maxCandidates), E)
  BY <1>1, <1>2, <1>3, ChoiceTakesFirst
<1> QED
  BY <1>4, Zenon DEF E, n

\* Then the scores are the same.
LEMMA SameScores ==
    ASSUME NEW p, NEW q, NEW c, Compared(p, q, c), request.minDifference = 1
    PROVE  ScoresOf(p) = ScoresOf(c)
<1> DEFINE A == FeasibleSelections(request)
           X == Found(found)
           E == Candidates(request, A)
           D == Candidates(request, X)
           n == Cardinality(E)
           m == Cardinality(D)
           W == [x \in E |-> x.score]
           g == [i \in 1..m |-> q[i]]
<1>1. /\ Solvable(request) /\ SearchInv /\ FoundWell /\ status = "OPTIMAL"
      /\ ShowsAll(request, X, p) /\ ShowsAll(request, A, q)
      /\ c = SelectDiverseCandidates(request, q)
  BY DEF Compared
<1>2. /\ m = Fewer(n, request.maxCandidates)
      /\ m \in Nat /\ n \in Nat /\ m <= n
  BY SameNumber
<1>3. /\ p \in [1..m -> D] /\ \A x \in D : \E i \in 1..m : p[i] = x
      /\ \A i, j \in 1..m : i # j => p[i] # p[j]
      /\ \A i, j \in 1..m : i < j => p[i].score <= p[j].score
      /\ \A x \in D : x.sections \in X /\ x.score = WeightedScore(request, x.sections)
  BY <1>1, Zenon DEF ShowsAll
<1>4. /\ q \in [1..n -> E] /\ \A x \in E : \E i \in 1..n : q[i] = x
      /\ \A i, j \in 1..n : i # j => q[i] # q[j]
      /\ \A i, j \in 1..n : i # j => q[i].sections # q[j].sections
      /\ \A i, j \in 1..n : i < j => q[i].score <= q[j].score
      /\ \A x \in E : /\ x.sections \in A /\ x.score = WeightedScore(request, x.sections) /\ x.score \in Int
                      /\ x = Candidate(request, x.sections)
  BY <1>1, Zenon DEF ShowsAll
<1>5. /\ Len(found) \in Nat /\ DOMAIN found = 1..Len(found) /\ X \subseteq A
  BY <1>1, FoundDiffer
<1>6. A \subseteq SUBSET request.sections
  BY DEF FeasibleSelections
<1>7. D \subseteq E
  BY <1>5 DEF Candidates
<1>8. request.maxCandidates \in Nat \ {0}
  BY <1>1 DEF Solvable, WellFormed
<1>9. \A x \in E : x \in D <=> x.sections \in X
  BY <1>3, <1>4 DEF Candidates
<1> HIDE DEF A, E, D, n, m
<1>10. Begins(SelectDiverseCandidates(request, q), q, Fewer(n, request.maxCandidates), E)
  BY <1>1, <1>6, ChoiceOfAll DEF E, n
<1>11. c \in Seq(E) /\ Len(c) = m /\ \A k \in 1..m : c[k] = q[k]
  BY <1>1, <1>2, <1>10, Zenon DEF Begins
<1>12. \A x \in E : W[x] = x.score /\ W[x] \in Int
  BY <1>4
<1>13. 1..m \subseteq 1..n
  BY <1>2
<1>14. g \in [1..m -> E] /\ \A i \in 1..m : g[i] = q[i]
  BY <1>4, <1>13
<1>15. p \in [1..m -> E]
  BY <1>3, <1>7
<1> HIDE DEF W, g
<1>16. Ascends(W, m, p) /\ Ascends(W, m, g)
  BY <1>3, <1>4, <1>12, <1>13, <1>14, <1>15 DEF Ascends
<1>17. Once(m, p)
  BY <1>3 DEF Once
<1>18. Once(m, g)
  BY <1>4, <1>13, <1>14 DEF Once
<1>19. ASSUME NEW x \in E, \A i \in 1..m : g[i] # x, NEW i \in 1..m PROVE W[g[i]] <= W[x]
  <2>1. PICK j \in 1..n : q[j] = x
    BY <1>4
  <2>2. j \notin 1..m
    BY <1>14, <1>19, <2>1
  <2>3. i < j /\ i \in 1..n
    BY <1>2, <2>2
  <2> QED
    BY <1>4, <1>12, <1>14, <2>1, <2>3
<1>20. ASSUME NEW x \in E, \A i \in 1..m : p[i] # x, NEW i \in 1..m PROVE W[p[i]] <= W[x]
  <2>1. x.sections \in A /\ x.sections \notin X
    BY <1>3, <1>4, <1>9, <1>20
  <2>2. PICK k \in DOMAIN found : p[i].sections = found[k]
    <3>1. p[i].sections \in X
      BY <1>3
    <3> QED
      BY <3>1 DEF Found
  <2>3. ASSUME NEW j \in 1..(k - 1) PROVE Difference(x.sections, found[j]) >= request.minDifference
    <3>1. j \in DOMAIN found
      BY <1>5
    <3>2. found[j] \in X
      BY <3>1 DEF Found
    <3>3. x.sections \in SUBSET request.sections /\ found[j] \in SUBSET request.sections /\ x.sections # found[j]
      BY <1>5, <1>6, <2>1, <3>2
    <3> QED
      BY <1>1, <3>3, OthersDiffer
  <2>4. WeightedScore(request, found[k]) <= WeightedScore(request, x.sections)
    BY <1>1, <1>5, <2>1, <2>3 DEF FoundWell, A
  <2>5. p[i].score = WeightedScore(request, found[k]) /\ x.score = WeightedScore(request, x.sections)
    BY <1>3, <1>4, <2>2
  <2>6. W[p[i]] = p[i].score /\ W[x] = x.score
    BY <1>12, <1>15
  <2> QED
    BY <2>4, <2>5, <2>6
<1>21. \A i \in 1..m : W[g[i]] <= W[p[i]]
  <2>1. Lowest(E, W, m, g)
    BY <1>19 DEF Lowest
  <2> QED
    BY <1>2, <1>12, <1>14, <1>15, <1>16, <1>17, <2>1, NotLower
<1>22. \A i \in 1..m : W[p[i]] <= W[g[i]]
  <2>1. Lowest(E, W, m, p)
    BY <1>20 DEF Lowest
  <2> QED
    BY <1>2, <1>12, <1>14, <1>15, <1>16, <1>18, <2>1, NotLower
<1>23. \A i \in 1..m : p[i].score = c[i].score
  <2> SUFFICES ASSUME NEW i \in 1..m PROVE p[i].score = c[i].score
    OBVIOUS
  <2>1. W[p[i]] \in Int /\ W[g[i]] \in Int /\ W[p[i]] = p[i].score /\ W[g[i]] = c[i].score
    BY <1>11, <1>12, <1>14, <1>15
  <2> QED
    BY <1>21, <1>22, <2>1
<1>24. DOMAIN p = 1..m /\ DOMAIN c = 1..m
  BY <1>3, <1>11
<1>25. [k \in DOMAIN p |-> p[k].score] = [k \in DOMAIN c |-> c[k].score]
  BY <1>23, <1>24
<1> QED
  BY <1>25, Zenon DEF ScoresOf

\* So what is said to be optimal is what the reference chooses.
LEMMA OptimalIsReference == AnswerInv => OptimalMatchesReference
<1> DEFINE p == result.candidates
           q == InOrder(Candidates(request, FeasibleSelections(request)), Better)
           c == ReferenceCandidates(request)
<1> SUFFICES ASSUME AnswerInv, phase = "done", status = "OPTIMAL"
             PROVE  /\ ScoresOf(p)[1] = ScoresOf(c)[1]
                    /\ request.minDifference = 1 => ScoresOf(p) = ScoresOf(c)
  BY Zenon DEF OptimalMatchesReference
<1>1. /\ Solvable(request) /\ SearchInv /\ FoundWell /\ Settled
      /\ p = InOrder(Candidates(request, Selections(found, status, fallback)), Better)
      /\ Selections(found, status, fallback) \in SUBSET SUBSET request.sections
  <2>1. status # "FAILED" \/ result # NoResult
    OBVIOUS
  <2> QED
    BY <2>1, AnswersDiffer, Zenon
<1>2. found # << >>
  BY <1>1 DEF Settled
<1>3. Selections(found, status, fallback) = Found(found)
  BY <1>2 DEF Selections, Found
<1>4. ShowsAll(request, Found(found), p)
  <2> HIDE DEF p
  <2> QED
    BY <1>1, <1>3, CandidatesListed
<1>5. ShowsAll(request, FeasibleSelections(request), q)
  <2>1. FeasibleSelections(request) \in SUBSET SUBSET request.sections
    BY DEF FeasibleSelections
  <2> QED
    BY <1>1, <2>1, CandidatesListed
<1>6. c = SelectDiverseCandidates(request, q)
  BY Zenon DEF ReferenceCandidates, Candidates
<1>7. Len(found) = request.maxCandidates \/ \A y \in FeasibleSelections(request) : ~FarFromAll(y, found)
  BY <1>1 DEF Settled
<1> HIDE DEF p, q, c
<1>8. Compared(p, q, c)
  BY <1>1, <1>2, <1>4, <1>5, <1>6, <1>7 DEF Compared
<1>9. ScoresOf(p)[1] = ScoresOf(c)[1]
  <2>1. 1 \in DOMAIN p /\ 1 \in DOMAIN c /\ p[1].score = c[1].score
    BY <1>8, SameBest
  <2> QED
    BY <2>1 DEF ScoresOf
<1> QED
  BY <1>8, <1>9, SameScores

\* An answer of the search says of feasibility and optimality only what was
\* proved: its candidates are legal, differ enough and come best first, and an
\* answer that is said to be optimal has the scores that the reference search
\* would choose (cp_sat.py:63-137, reference.py:78-121).
THEOREM AnswersAreTruthful == Spec => []AnswerIsTruthful
<1>1. Spec => []AnswerInv
  BY AnswerStart, AnswerStep, PTL DEF Spec
<1>2. AnswerInv => AnswerIsTruthful
  BY AnswersAreDiverse, StatusesAreTruthful, OptimalIsReference DEF AnswerIsTruthful
<1> QED
  BY <1>1, <1>2, PTL
=============================================================================
