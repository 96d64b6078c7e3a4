------------------------- MODULE OptimizationRequests -------------------------
(***************************************************************************)
(* What becomes of a student's intents between the browser, the API and    *)
(* the optimizer worker (api/schemas.py, api/routes/optimizations.py,      *)
(* optimizer/worker.py).  Each of the three works with course data of its  *)
(* own: the browser fetched it from the API, and the two processes loaded  *)
(* it from their images when they started.  The queue between them is      *)
(* OptimizationJobs, and the search is CpSatSearch.                        *)
(***************************************************************************)
EXTENDS TimetableScore

CONSTANTS
    Versions,   \* versions of the course data, a later one greater
    Catalogs,   \* the sections of each version
    CreditUnit, \* the parts of a credit in which the course data count credits
    Bodies,     \* what students ask for
    MaxJobs     \* bound: jobs ever created

RequestsAssumption ==
    /\ Versions \subseteq Nat \ {0} /\ Versions # {}
    /\ Catalogs \in [Versions -> SUBSET UNION {Catalogs[v] : v \in Versions}]
    \* the catalog is refused when two of its sections have one key
    /\ \A v \in Versions : IsFiniteSet(Catalogs[v])
    /\ \A v \in Versions : \A s, t \in Catalogs[v] : s.id = t.id => s = t
    \* and when a meeting takes no time
    /\ \A v \in Versions : \A s \in Catalogs[v] : WellFormedSection(s) /\ s.credits > 0
    /\ CreditUnit \in Nat \ {0}
    /\ MaxJobs \in Nat

VARIABLES
    image,    \* the version in the newest image
    api,      \* the version that the API loaded
    worker,   \* the version that the worker loaded
    browser,  \* the version that the browser shows
    jobs,     \* the jobs, in the order of their creation
    answer    \* the last response of the API

vars == <<image, api, worker, browser, jobs, answer>>

Known(v, ids) == {s \in Catalogs[v] : s.id \in ids}
Codes(sections) == {s.course : s \in sections}

(* The checks of the request's schema.                                      *)
ValidBody(b) ==
    /\ b.minCredits <= b.maxCredits
    /\ b.target # None => b.minCredits <= b.target /\ b.target <= b.maxCredits
    /\ (b.required \cup b.candidates) \cap b.excluded = {}
    /\ \A p, q \in b.professors : p.course = q.course => p = q
    /\ b.daysOff \cap b.excludedDays = {}
    /\ b.hardStart # None /\ b.hardEnd # None => b.hardStart < b.hardEnd

LockedExcluded(b, v) == Codes(Known(v, b.locked)) \cap b.excluded # {}

UnavailableProfessor(b, v) ==
    \E p \in b.professors :
        ~\E s \in Catalogs[v] : s.course = p.course /\ s.professor = p.professor

(* The answer to a request that was made with a version of the data.        *)
Admission(b, version) ==
    CASE ~ValidBody(b) -> 422
      [] ValidBody(b) /\ version # api -> 409
      [] ValidBody(b) /\ version = api
         /\ (\/ ~(b.locked \cup b.selected \subseteq IdsOf(Catalogs[api]))
             \/ LockedExcluded(b, api) \/ UnavailableProfessor(b, api)) -> 422
      [] OTHER -> 202
-----------------------------------------------------------------------------
\* Courses that a student names in any way.
RequestedCourses(b, v) ==
    b.required \cup b.candidates \cup Codes(Known(v, b.selected \cup b.locked))
    \cup {p.course : p \in b.professors}

\* Mutant: a section without a time is offered like any other.
PoolWithTba(b, v) ==
    IF RequestedCourses(b, v) = {} THEN Catalogs[v]
    ELSE {s \in Catalogs[v] : s.course \in RequestedCourses(b, v)}

\* The named courses, or all; a section without a time only when it is named.
Pool(b, v) ==
    LET named == IF RequestedCourses(b, v) = {} THEN Catalogs[v]
                 ELSE {s \in Catalogs[v] : s.course \in RequestedCourses(b, v)}
    IN  {s \in named : \/ s.sessions # {}
                       \/ s.course \in b.required
                       \/ s.id \in b.selected \cup b.locked}

ExcludedSections(b, v) ==
    {s.id : s \in {t \in Pool(b, v) :
        \/ t.course \in b.excluded
        \/ \E p \in b.professors : p.course = t.course /\ t.professor # p.professor}}

\* Mutant: a part of a credit is dropped.
Truncated(c) == c \div CreditUnit

\* A number of whole credits: the nearest, and the even one of two that are as near.
Rounded(c) ==
    LET whole == c \div CreditUnit
        rest == 2 * (c % CreditUnit)
    IN  IF rest < CreditUnit \/ (rest = CreditUnit /\ whole % 2 = 0) THEN whole ELSE whole + 1

\* A section as the optimizer has it (the professor is kept for the properties).
Handed(s) ==
    [id |-> s.id, course |-> s.course, credits |-> Rounded(s.credits), professor |-> s.professor,
     sessions |-> s.sessions, ineligible |-> FALSE]

(* The problem that the worker hands to the optimizer.                      *)
ToRequest(b, v) ==
    [sections |-> {Handed(s) : s \in Pool(b, v)}, minCredits |-> b.minCredits, maxCredits |-> b.maxCredits,
     target |-> b.target, locked |-> b.locked, current |-> b.selected,
     required |-> b.required \cup Codes(Known(v, b.locked)), groups |-> {},
     excluded |-> ExcludedSections(b, v), daysOff |-> b.daysOff, avoidedDays |-> {},
     excludedDays |-> b.excludedDays, hardStart |-> b.hardStart, hardEnd |-> b.hardEnd,
     maxGap |-> b.maxGap, gapPercent |-> IF b.minimizeGaps THEN 50 ELSE 0]

\* What the optimizer tells about a candidate, from its score.
ScoreMetrics(S) ==
    LET days == CampusDays(S)
        meetings == MeetingsOf(S)
    IN  [credits |-> CreditsOf(S), days |-> Cardinality(days),
         gap |-> SumOver(days, LAMBDA d : GapMinutes(DailySessions(S, d))),
         first |-> IF meetings = {} THEN None ELSE Min({m.start : m \in meetings}),
         last |-> IF meetings = {} THEN None ELSE Max({m.end : m \in meetings}),
         unknown |-> Cardinality({s \in S : s.sessions = {}})]
-----------------------------------------------------------------------------
NoAnswer == [op |-> "none"]

Init ==
    /\ \E v \in Versions : image = v /\ api = v /\ worker = v /\ browser = v
    /\ jobs = << >> /\ answer = NoAnswer

\* A new image is built with new course data.
Build ==
    /\ \E v \in Versions : v > image /\ image' = v
    /\ answer' = NoAnswer /\ UNCHANGED <<api, worker, browser, jobs>>

RestartApi ==
    /\ api # image /\ api' = image
    /\ answer' = NoAnswer /\ UNCHANGED <<image, worker, browser, jobs>>

RestartWorker ==
    /\ worker # image /\ worker' = image
    /\ answer' = NoAnswer /\ UNCHANGED <<image, api, browser, jobs>>

Refresh ==
    /\ browser # api /\ browser' = api
    /\ answer' = NoAnswer /\ UNCHANGED <<image, api, worker, jobs>>

NewJob(b) ==
    [body |-> b, version |-> browser, state |-> "QUEUED", solvedWith |-> None,
     sections |-> {}, metrics |-> None]

Create(b) ==
    /\ Len(jobs) < MaxJobs
    /\ answer' = [op |-> "create", status |-> Admission(b, browser)]
    /\ jobs' = IF Admission(b, browser) = 202 THEN Append(jobs, NewJob(b)) ELSE jobs
    /\ UNCHANGED <<image, api, worker, browser>>

Solved(j, state, S) ==
    jobs' = [jobs EXCEPT ![j].state = state, ![j].solvedWith = worker, ![j].sections = S,
                         ![j].metrics = IF state = "OPTIMAL" THEN ScoreMetrics(S) ELSE None]

\* The worker solves with the data it has; any feasible selection may be best.
Solve(j) ==
    LET r == ToRequest(jobs[j].body, worker)
    IN  /\ jobs[j].state = "QUEUED"
        /\ \/ ~ValidRequest(r) /\ Solved(j, "FAILED", {})
           \/ ValidRequest(r) /\ \E S \in FeasibleSelections(r) : Solved(j, "OPTIMAL", S)
           \/ ValidRequest(r) /\ FeasibleSelections(r) = {} /\ Solved(j, "INFEASIBLE", {})
        /\ answer' = NoAnswer /\ UNCHANGED <<image, api, worker, browser>>

\* What the API tells when candidates are compared: the credits in parts, as the
\* course data have them.
CompareMetrics(S) ==
    LET times == {[day |-> m.day, start |-> m.start, end |-> m.end, loc |-> None] : m \in MeetingsOf(S)}
    IN  [credits |-> CreditsOf(S), days |-> Cardinality({m.day : m \in times}),
         gap |-> SumOver({m.day : m \in times}, LAMBDA d : GapMinutes(InOrder(On(times, d), EarlierThan))),
         first |-> IF times = {} THEN None ELSE Min({m.start : m \in times}),
         last |-> IF times = {} THEN None ELSE Max({m.end : m \in times}),
         unknown |-> Cardinality({s \in S : s.sessions = {}})]

\* Mutant: a section that takes the place of another one is also added.
ChangesCountedTwice(current, chosen) ==
    LET placed == {current[k] : k \in DOMAIN current}
        swaps == {<<st[1].id, st[2].id>> : st \in {p \in placed \X chosen :
                     p[1].course = p[2].course /\ p[1].id # p[2].id}}
    IN  [swapped |-> swaps, added |-> IdsOf(chosen) \ IdsOf(placed),
         removed |-> (IdsOf(placed) \ IdsOf(chosen)) \ {w[1] : w \in swaps}]

(* What a candidate changes; of two sections of a course that are placed,   *)
(* the last one counts.                                                     *)
Changes(current, chosen) ==
    LET n == Len(current)
        lastOf(c) == {current[k] : k \in {i \in 1..n : /\ current[i].course = c
                                                       /\ \A m \in (i + 1)..n : current[m].course # c}}
        placed == {current[k] : k \in 1..n}
        swaps == {<<p[1].id, p[2].id>> : p \in {st \in placed \X chosen :
                     st[1] \in lastOf(st[2].course) /\ st[1].id # st[2].id}}
        from == {w[1] : w \in swaps}
        to == {w[2] : w \in swaps}
    IN  [swapped |-> swaps, added |-> (IdsOf(chosen) \ IdsOf(placed)) \ to,
         removed |-> (IdsOf(placed) \ IdsOf(chosen)) \ from]

\* A student compares the candidate of a job with what is placed.
Compare(j) ==
    /\ jobs[j].state = "OPTIMAL"
    /\ LET placed == jobs[j].body.selected
           ids == IdsOf(jobs[j].sections)
           chosen == Known(api, ids)
           orders == {InOrder(Known(api, placed), LAMBDA a, b : a.id < b.id),
                      InOrder(Known(api, placed), LAMBDA a, b : a.id > b.id)}
       IN  \E current \in orders : answer' =
             IF ~(placed \cup ids \subseteq IdsOf(Catalogs[api])) THEN [op |-> "compare", status |-> 404]
             ELSE IF ~OneSectionPerCourse(chosen) THEN [op |-> "compare", status |-> 400]
             ELSE [op |-> "compare", status |-> 200, job |-> j, metrics |-> CompareMetrics(chosen),
                   changes |-> Changes(current, chosen)]
    /\ UNCHANGED <<image, api, worker, browser, jobs>>

Next ==
    \/ Build \/ RestartApi \/ RestartWorker \/ Refresh
    \/ \E b \in Bodies : Create(b)
    \/ \E j \in DOMAIN jobs : Solve(j) \/ Compare(j)

Spec == Init /\ [][Next]_vars
-----------------------------------------------------------------------------
(* Properties.                                                               *)

\* Types of jobs and answers (schemas.py:90-129, worker.py:158-206).
TypeOK ==
    /\ {image, api, worker, browser} \subseteq Versions
    /\ \A j \in DOMAIN jobs :
          /\ jobs[j].body \in Bodies /\ jobs[j].version \in Versions
          /\ jobs[j].state \in {"QUEUED", "OPTIMAL", "INFEASIBLE", "FAILED"}
          /\ (jobs[j].solvedWith = None) <=> (jobs[j].state = "QUEUED")

\* A timetable that a student is shown has every locked section and every
\* required course, nothing excluded, the professors that were asked for, no
\* section without a time that was not named, and credits, rounded section by
\* section, within the bounds, however the data changed since it was asked for
\* (worker.py:32-155).
IntentsKept ==
    \A j \in DOMAIN jobs : jobs[j].state = "OPTIMAL" =>
        LET S == jobs[j].sections
            b == jobs[j].body
        IN  /\ b.locked \subseteq IdsOf(S) /\ b.required \subseteq Codes(S)
            /\ Codes(S) \cap b.excluded = {} /\ OneSectionPerCourse(S) /\ NoConflicts(S)
            /\ \A s \in S : \A p \in b.professors : p.course = s.course => p.professor = s.professor
            /\ \A s \in S : s.sessions = {} => s.course \in b.required \/ s.id \in b.selected \cup b.locked
            /\ b.minCredits <= CreditsOf(S) /\ CreditsOf(S) <= b.maxCredits

\* A job that was accepted fails only when two placed or two locked sections are
\* of one course, when the data have a section that meets twice at one time, or
\* when the worker has other course data than the API had and does not know a
\* section (constraints.py:37-66, optimizations.py:131-147).
FailureHasCause ==
    \A j \in DOMAIN jobs : jobs[j].state = "FAILED" =>
        LET b == jobs[j].body
            known == Catalogs[jobs[j].solvedWith]
            Repeats(ids) == ~OneSectionPerCourse(Known(jobs[j].solvedWith, ids))
        IN  \/ Repeats(b.selected) \/ Repeats(b.locked)
            \/ \E s \in known : Muddled(s)
            \/ /\ jobs[j].solvedWith # jobs[j].version
               /\ ~(b.locked \cup b.selected \subseteq IdsOf(known))

\* The numbers that the comparison shows for a candidate are those that came with
\* it, although two programs compute them, but for its credits: the worker rounded
\* them section by section, and each section whose credits are not whole makes up to
\* half a credit of difference (optimizations.py:44-63, worker.py:78, scoring.py:135).
MetricsAgree ==
    answer.op = "compare" /\ answer.status = 200 /\ jobs[answer.job].solvedWith = api =>
        LET shown == answer.metrics
            came == jobs[answer.job].metrics
            chosen == Known(api, IdsOf(jobs[answer.job].sections))
            allowed == CreditUnit * Cardinality({s \in chosen : s.credits % CreditUnit # 0})
            off == 2 * (shown.credits - CreditUnit * came.credits)
        IN  /\ shown = [came EXCEPT !.credits = shown.credits]
            /\ off <= allowed /\ -off <= allowed

\* Carrying out the changes that a comparison lists turns what is placed into the
\* candidate, also when two sections of a course are placed (optimizations.py:79-117).
ChangesLeadThere ==
    answer.op = "compare" /\ answer.status = 200 =>
        LET c == answer.changes
            from == {w[1] : w \in c.swapped}
            to == {w[2] : w \in c.swapped}
            placed == jobs[answer.job].body.selected
        IN  /\ ((placed \ (c.removed \cup from)) \cup c.added \cup to) = IdsOf(jobs[answer.job].sections)
            /\ c.added \cap to = {} /\ c.removed \cap from = {}

\* A comparison is right about the candidate and about the way to it.
ComparisonAgrees == MetricsAgree /\ ChangesLeadThere
=============================================================================
