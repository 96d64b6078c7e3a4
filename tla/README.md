# Formal model of PL-timeTabler

TLA+ specifications, TLC models and TLAPS proofs for PL-timeTabler, a course
timetable planner: its server, its optimizer, its data ingest and the parts of its
web client that keep state. Paths are relative to the repository; `timetabler/`
stands for `apps/backend/src/timetabler/`, `web/` for `apps/web/src/`.

## 1. The system

A browser keeps a draft timetable and asks the API for optimised alternatives. The
API (FastAPI, several requests at a time, possibly several processes) stores the
request as a row of `optimization_jobs` in PostgreSQL. Optimizer processes poll the
table, claim a job under a lease, solve it with CP-SAT and write the result back; the
browser polls the job and lets the student preview and apply a candidate. Logged-in
students (one-time code by e-mail, session cookie) also save and share timetables,
review courses, record completed courses and check them against graduation rules,
which a one-off ingest loads together with the history of courses.

| Component | State | Operations | What is hard | What makes it correct |
|---|---|---|---|---|
| Job queue (`jobs/store.py`) | table `optimization_jobs` | create, get, cancel, claim_next, heartbeat, complete, fail, and the sweep and prune inside them | transactions of many processes, clocks read before locks, expired leases, retries, pruning | admission cap, leases respected, cancel wins, outcomes are kept, result of the last claim, every job ends |
| Worker loop (`optimizer/worker.py`) | its claimed job and token | claim, solve, report, report an error | kills, stalls past the lease, lost answers, rows that vanish | a stale report changes nothing |
| Optimization routes, request translation (`api/routes/optimizations.py`, `optimizer/worker.py`) | the course data each process loaded | create, read, cancel, compare | API, worker and browser with different course data | intents survive the translation, comparisons agree with scores |
| Optimizer search (`optimizer/*.py`) | none between requests | validate, model, solve, cut, rank; the reference search | constraints and scores written twice, time limits, cuts | the model admits exactly the legal selections, its objective is the score, statuses are proved |
| Rate limiter (`api/rate_limit.py`) | event times per client | consume | window boundaries, rounding, pruning | limit in every window of its process, the retry hint is right |
| OTP login, sessions (`auth/service.py`, `api/dependencies.py`) | challenges, sessions, rate events, cookies | start, verify, current session with rotation, logout, delete | parallel requests, late mail errors, rotation races, retention | one live code and session, codes used once, limits, dead tokens stay dead |
| Accounts and consents (`api/routes/users.py`) | users, consents | read, update, consent, delete | row locks and foreign keys, two transactions per deletion | the completed flag is truthful, requests go on |
| Timetables and shares (`api/routes/timetables.py`) | saved timetables, share codes | create, list, get, update, replace items, favorite, delete, copy, share, read and copy a share | check in one transaction, act in another; catalogs of later deployments | owner only, no dangling link, no lost update, valid items |
| Reviews (`api/routes/reviews.py`) | reviews | create, update, delete, list | check without lock, NULL in a unique constraint | one review per named professor |
| Completed courses (`api/routes/completed_courses.py`, `history.py`) | completed courses | by hand, two imports, update, delete | three ways in with different keys, areas derived from categories | a course is registered once, areas follow categories |
| Ingest (`history/importer.py`, `requirements/importer.py`) | loaded archive and rules | read, verify, replace, commit | files replaced while they are read, two ingests, crashes | the database holds one archive, references survive |
| Graduation check (`api/routes/requirements.py`, `requirements/graduation_repository.py`) | none | select and combine rules, evaluate | rules of three sources replace each other | no rule lost, progress never lost |
| Web draft (`web/state/draft.ts`, `web/App.tsx`) | draft with undo history, preview, browser storage | the reducer and the handlers that dispatch to it | long action sequences, new course data, reload, candidates for older drafts | undo is faithful, the draft stays usable, intents survive a candidate |
| Optimizer panel (`web/components/OptimizerPanel.tsx`) | generation, busy flag, polling loop | generate, poll, cancel | late, lost and failed answers while the draft changes | candidates belong to the draft, the button comes back |
| Catalog repository, normalisers | files loaded once | parse, join, query | data quality | not a concurrent system |
| Migrations, configuration, other views | none | | | not modelled |

Server processes share the database and nothing else. `PROJECT.json` lists every
component with its status and every hazard at its line.

## 2. Modules

| Module | What it is |
|---|---|
| `OptimizationJobs` | the queue with its transactions, the requests of clients and the loop of the workers; its properties and the refinement mapping |
| `JobLifecycle` | abstract specification: what a client that creates, polls and cancels can rely on |
| `OptimizationJobs_proofs` | theorems about its rows, its steps, the cap and the refinement |
| `AuthService` | one-time codes, sessions, rate events, account deletion, cookies of browsers |
| `SlidingWindow` | the limiter in front of `POST /optimizations` |
| `RateLimits`, `RateLimits_proofs` | the two side by side, with the properties of the limiter; theorems about both |
| `SavedTimetables` | saved timetables and their links |
| `Profiles`, `CourseReviews`, `CompletedCourses` | the other records of a student |
| `StudentRecords`, `StudentRecords_proofs` | all records of a student side by side, with the properties of the parts; theorems about the four parts |
| `DraftHistory`, `DraftTimeline`, `DraftHistory_proofs` | the draft of the editor, the abstract line of drafts that undo walks along; the proofs that the one implements the other and that the draft stays usable |
| `OptimizerPanel`, `OptimizerPanel_proofs` | the protocol of the panel with the server |
| `TimetableProblem`, `TimetableScore` | hard constraints and validation; score, order and diversity of candidates: the definitions that the two searches and the request translation share |
| `CpModel`, `CpSatSearch` | the integer model given to CP-SAT; the loop of solves around it |
| `BacktrackingSearch` | the exhaustive reference search |
| `OptimizationRequests` | the way of a request from the draft to a problem and of a candidate to the comparison |
| `Optimizer`, `Optimizer_proofs` | the two searches and the requests side by side, with the properties of the parts; theorems about all of them |
| `ArchiveIngest` | the ingest of archive and rules |
| `GraduationCheck` | selection, combination and evaluation of rules |
| `GraduationRules`, `GraduationRules_proofs` | ingest and check side by side, with the properties of the check; theorems about both |
| `FiniteSums` | lemmas on sums, folds, counts and lists over finite sets, for the proofs |

`StudentRecords`, `RateLimits`, `Optimizer` and `GraduationRules` put components side by
side that answer one question but have no state in common in the code (tables of their
own, or pure functions): they instantiate the parts, name their properties, and let one
module of theorems cite the lemmas of all of them.

The `MC` modules give them instances. `MCOptimizationJobs`, `MCAuthService`,
`MCOptimizerPanel` and `MCDraftHistory` extend one component; `MCRateLimits`,
`MCStudentRecords`, `MCOptimizer` and `MCGraduationRules` extend the four above. In these
the initial state picks the part a behaviour is about, only its actions are taken, and
the variables of the others stand still. A violation in a part is thus found as in a run
of its own.

### 2.1 The queue: OptimizationJobs, JobLifecycle

* `now` is the host clock; all processes run on one host (`compose.yaml`).
* `jobs` has one record per identity that `uuid4` may draw; `NONE` is an identity not
  drawn yet, `DELETED` a pruned row. The columns are those the control flow looks at.
  A lease is the number of the claim it was drawn for, a result is named by the lease
  of the process that computed it. `OPTIMAL`, `FEASIBLE` and `INFEASIBLE` are treated
  alike by the store and are one status.
* `txn` is the open transaction of each process (the clock it read, the rows it has
  locked, what it decided), `worker` where each worker is in the loop of `run_worker`.

| Action | Code |
|---|---|
| `BeginCreate`, `LockCreate`, `CommitCreate` | `create`: clock and new row; advisory lock, sweep, prune and count; insert, or commit of the maintenance and 503 |
| `BeginGet`, `LockGet`, `CommitGet` | `get`: every poll sweeps the whole table |
| `Cancel` | `cancel`, one row lock from read to commit |
| `AbortRequest` | a transaction that rolls back: deadlock victim, lost connection, killed API process, `get` of an unknown id |
| `BeginClaim`, `LockClaim`, `CommitClaim` | `claim_next`: clock, sweep, pick with SKIP LOCKED, lease |
| `Report` | `complete`, or `fail` with SOLVER_ERROR; the answer of a commit may be lost |
| `SolverError`, `ReportError` | the `except Exception` clause and its `fail` |
| `BeginHeartbeat`, `Heartbeat` | `heartbeat`, which `run_worker` never calls; `Heartbeats` switches it on as a client of the store's interface |
| `Crash`, `Restart` | a killed process, or an exception of `claim_next` outside of the `try`; `restart: unless-stopped` |
| `Tick` | time |

A transaction that reads the clock and then waits for locks is three steps: between
`Begin` and `Lock` others commit and time passes, so its sweep works with a stale
clock. `Lock` takes the locks of the `SELECT ... FOR UPDATE` statements at once and
decides; `Commit` publishes. PostgreSQL takes row locks one by one; a partial set is
visible to others only as waiting, which is a disabled `Lock`, and two sweeps that
block each other end as an abort.

`JobLifecycle` has no locks, leases, clocks or processes. A job is absent, waiting,
running, ended or forgotten; a step may move several jobs but starts at most one
attempt and admits at most one job, never starts a job whose cancellation was
requested, ends a cancelled one as cancelled, shows an answer only of the last attempt
and keeps the cap. `LifeOf` is the refinement mapping.

### 2.2 AuthService

`challenges`, `sessions` and `events` are the tables. A code is named by its challenge,
a token by its session and the number of the rotation. `users` holds the login that
created the account, 0 without one; `cookie` and `req` are the browsers and the
requests in progress. `admissions` is a history variable: the rows that `events` ever got,
purged or not, without those of deleted accounts.

| Action | Code |
|---|---|
| `BeginStart`, `CreateChallenge`, `RefuseStart` | `start_otp` up to its commit |
| `MailSent`, `MailFailed` | the outcome of `send_otp`; an error invalidates the challenge unless it was used |
| `BeginVerify`, `LockVerify`, `CommitRefusal`, `CommitLogin` | `verify_otp`: what it reads under its locks, then what it writes |
| `BeginWithCookie`, `LookUp` | `current_session` for `GET /auth/session`, for routes that require a user or look for one, and for `DELETE /users/me` |
| `Logout` | `logout` |
| `DeleteUser`, `BeginErase`, `Erase` | `delete_me`: the user's transaction, then `delete_account_records` |
| `Answer`, `Kill`, `Tick` | the browser gets the answer, in any order; the API process dies or the transaction aborts; time |

`start_otp` is one step after its `Begin` because its decisions look at rows of its own
student and address only, which its advisory locks protect. `verify_otp` is two, since
`MailFailed`, `LookUp` and a deletion take no advisory lock. The purge is part of every
transaction that calls it. Digests and their comparison are left out.

### 2.3 SlidingWindow

`consume` is one step: nothing inside of the lock awaits. `Admit` and `Refuse` are its
outcomes, both after pruning the deque of every client. `log`, `promised` and `lastCall`
are history variables. `Second` ticks make a second, so that rounding matters.

### 2.4 SavedTimetables, Profiles, CourseReviews, CompletedCourses

In all of them a request is a record of `req` with its next step; a transaction is one
step, and what the code reads in one transaction and uses in the next is kept in the
request. Account deletion is in each module for its own tables (with the cascades of the
foreign keys).

* `SavedTimetables`: `Begin`, `CheckOwned` (`_owned`), then `Create`, `List`, `Update`,
  `UpdateSections`, `Delete`, `Copy`, `CreateShare`, `ReadShare`, `ReadShared`, `Leave`;
  `Deploy` puts another catalog in place, and a request keeps the catalog of the process
  that serves it. Names are lengths, because the width of the column is what matters.
* `Profiles` is finer: one step per statement with the two kinds of row locks
  (`INSERT` of a consent takes FOR KEY SHARE on the user through its foreign key, both
  handlers FOR UPDATE), and `AbortDeadlocked` is the database breaking a circle.
* `CourseReviews`: `CheckDuplicate` and `Insert` are apart although one transaction:
  nothing is locked between them. The unique constraint treats NULL as distinct.
* `CompletedCourses`: `Read` decides what is new (`FromList`, `FromTimetable`, `Manual`),
  `Insert` writes it, `Update` applies `Changed`. Titles stand for their normalised form.

### 2.5 DraftHistory and DraftTimeline

`past`, `present`, `future` are the state of the reducer; `Hydrate`, `AddSection`,
`SwapItem`, `ApplyItems`, `UndoItems` and the rest are its cases and the helpers of
`web/state` they call. The actions are the handlers of `App.tsx` that dispatch to it,
under the conditions under which the page offers them (one sheet open at a time, a section
can be dragged when it is not locked, ...). `FetchCatalog` arrives some time after
`Reload`. `LoadCatalog` says from where: the server, or when it does not answer the
packaged file (`Packaged`) or the browser's cache (`cached`), which may be older than the
draft; without any of them the page stays without data until the student asks again.
`LoadSavedDraft` prefers a draft in the address (`Shared`) to the stored one, and
`LoadTimetable` opens a saved timetable or a shared one, both as they are, for whatever
course data they were made. `Publish` puts new course data on the server; `Generate` gives any candidate the
optimizer may give for the draft, `PreviewCandidate`, `ApplyCandidate`, `DropStale` are
the preview. The reducer's `CLEAR` is never dispatched and left out. Preferences are one
value, and a fingerprint is the draft up to the order of its items. `items.filter(...)` is
`Filter`, which names the places that stay in ascending order (`At`, `Ascending`), so that
lemmas can speak of them. `mixed` is a history variable: were items changed in a draft that
was made for other course data than the page has?

`DraftTimeline` is one line of drafts and a cursor; an edit forgets what lies after the
cursor, undo and redo move it, `Cap` drafts can be walked back. The mapping is
`line = past \o <<present>> \o future`, `cursor = Len(past) + 1`.

### 2.6 OptimizerPanel

The panel of React: state that a callback sets is seen by the effects and by the student
after `Render` only. `creates`, `cancels` and `poll` are requests on their way, each of
which is served and answered, or fails before or after the server acted (`ServeCreate`,
`TakeCreated`, `FailCreate`, ...). `Ask`, `ServePoll`, `TakePoll`, `FailPoll` are the
polling loop, `StartJob` and `FinishJob` the server.

### 2.7 TimetableProblem, TimetableScore, CpModel, CpSatSearch, BacktrackingSearch

A section is its id, course, credits, sessions and eligibility; a session a half-open
interval of minutes. `TimetableProblem` has what `optimizer/constraints.py` checks
(validation, hard constraints, hints), `TimetableScore` what `optimizer/scoring.py`
computes. `CpModel` translates the linear constraints, intervals and literals of
`cp_sat.py`: a literal is the set of values its three kinds of constraints allow, and the
objective takes the cheapest. `CpSatSearch` is the loop: `Accept`, `Reject`,
`FindFallback`, a solve that ends as the library's interface allows (`SolveOptimal` gives
a cheapest assignment, `SolveFeasible` any, `SolveUnknown` none), the cut around what was
found, and `Rank`. `BacktrackingSearch` keeps the calls of the recursion that are still to
be made on a stack, with its limit on states and its deadline. A course is the rank of
its code, since the reference search goes through the codes in order.

The problems satisfy `WellFormed`, which is what the constructors of `optimizer/models.py`
check (ranges of minutes, percentages and credits, weights that are not negative). The
window for lunch has room for the longest break that can be asked for (`SearchAssumption`):
150 minutes (`models.py:129`) from 11:30 to 14:00 (`scoring.py:11`).

### 2.8 OptimizationRequests

`Build`, `RestartApi`, `RestartWorker`, `Refresh` move four versions of the course data
(newest image, API, worker, browser) apart. `Create` answers with `Admission`, the
checks of the schema and the route. `Solve` translates with the worker's data (`Pool`,
`ExcludedSections`, `ToRequest`), fails when the optimizer refuses the request, and
otherwise answers any selection that meets the problem: what the search does to find the
best one is `CpSatSearch`. `Compare` lists the `Changes` from what is placed, in any order
of it, and the metrics that the route computes again (`CompareMetrics`).

Of the course data `RequestsAssumption` says what the catalog checks when it is loaded: one
section per key, meetings that take time, and credits above zero (`catalog/models.py:36`).
Credits need not be whole there: the model counts them in parts of a credit (`CreditUnit`
of them), so any rational number is covered. The worker hands a section over with `Rounded`
credits, Python's rounding with the even number between two that are as near (`Handed`,
`worker.py:78`), and computes bounds and metrics from those; the comparison adds up what the
course data say. The sums of floats are taken as exact. The bounds of a request are whole
by its schema (`schemas.py:101`), so `round` changes nothing of them.

### 2.9 ArchiveIngest, GraduationCheck

`ArchiveIngest`: `Begin`, `ReadEntry` (a file, with its checksum where one is compared),
`WriteEntry` (upserts, deletions, and the row locks that another ingest waits for),
`Commit`, `BeginRules`, `Fail`, `Crash`; `Deploy` and `Damage` change single files;
`Refer` is a completed course that links to an offering. Rows are values per release.
`HistoryOrder` and `RulesOrder` give the order in which the manifest and the bundle of a
release list its datasets; an ingest follows the one it has read (`Order`, `at`). A dataset
that another ingest inserts between the first look at it and the insert makes the
transaction fail or, when the second look of `_upsert_single` finds it, is updated.
Transactions that wait in a circle are ended by the database (`AbortDeadlocked`).
`overtaken` and `mixed` are history variables: during which ingests of the requirements
another release was committed, and whether the last one was among them.

`GraduationCheck`: `Record`, `Finish`, `Forget` are the list of completed courses,
`Evaluate` the request. `Applies` filters the common rules, `DegreeRules` and
`AssessmentRules` come from the database, `CombinedRules` replaces the common kinds,
`CreditStatus`, `Open`, `AreaMet` evaluate. Names stand for their normalised text; a
metric without a minimum judges nothing and is left out; the static file answers when the
database has no curriculum and it knows the unit; there is at most one degree profile for
a request; one release per evaluation. `RulesAssumption` says of the data what the columns
(NOT NULL, CHECK; `db/models.py:501`, `:641`, `:675`) and `common-graduation-rules.json`
guarantee: a common rule that is judged by credits has a minimum, those of one kind are for
different students, and a degree profile has the minima whose columns are not nullable.
`JudgedInstead` says what counts as not losing a common rule: it is judged, it is left to a
human, or what the degree profile or the department puts in its place is. Real profiles have
no required courses of liberal arts, or no second program; then the minimum of credits for
the former stands for the group, and for the latter there is nothing to judge.

## 3. Properties

What the runs check, and the parts a property is made of. Kinds: I an invariant, A an
action property (of every step), L liveness, R a refinement.

| Run | Property | Kind | Says |
|---|---|---|---|
| `jobs_lease` | `TypeOK` | I | types, with the ranges of leases and deadlines |
| | `RowsConsistent` | I | `LeaseIffRunning`: a lease exists exactly while the job runs and is that of the last claim; `CancelWins`: a job cancelled while it ran ends cancelled, without a result; `ResultFromLastClaim`: no result of a superseded claim |
| | `ValidLeaseRespected` | A | an unexpired lease is ended by its holder only |
| `jobs_admission` | `ActiveCapped` | I | queued and running jobs never exceed the limit |
| | `OutcomesKept` | A | `TerminalIsFinal`: a finished job never changes its outcome and a deleted row never returns; `PrunedOnlyWhenOld`: only finished rows untouched for the retention are deleted |
| | `ImplementsLifecycle` | R | the queue implements `JobLifecycle` |
| `jobs_liveness` | `EveryJobEnds` | L | every accepted job leaves QUEUED and RUNNING |
| `auth_sessions` | `OneLivePerStudent` | I | types; a student has at most one usable code (`OneLiveChallenge`) and one session that is not revoked (`OneLiveSession`); a used code is never invalidated as well (`SettledOnce`) |
| | `LoginConsumesLiveCode` | A | a session begins only with a code that is live until that step |
| | `DeadTokenStaysDead` | A | a token that stopped working never works again |
| | `LoginGivesAccount` | A | the step that leaves a session without an account happens during a deletion of that account |
| `rate_limits` | `LimitKept` | I | `WindowBounded`: no window has more admissions of a client than the limit; `OnlyRecentKept`: only clients of the last window have a deque |
| | `HintKept` | A | a client is not refused again once its Retry-After is over |
| | `SendingLimited` | I | `CooldownKept`: codes of a student are a cooldown apart; `RateRespected`: no student and no address exceeds its limit in a window shorter than the configured one by `MaxLag`; both counted over all admissions, but those of deleted accounts, whatever was purged since |
| `records` | `ItemsEverValid` | I | the items of a saved timetable were a valid timetable of its term in a catalog that was deployed, and the copy or the link carries them on unchanged |
| | `ReferencesHold` | I | no timetable without its owner, no link without its timetable, links by owners only |
| | `OnlyOwnerWrites` | A | a row changes, appears or disappears by a request of its owner |
| | `NoLostUpdate` | A | replacing the items undoes nothing another request wrote |
| | `ProfileTruthful` | I | the completed flag of a profile is true |
| | `SomeoneGoesOn` | I | a request that waits, waits for another one that goes on or is the victim that the database aborts |
| | `OneReviewPerOffering` | I | one review of a named professor's offering |
| | `RegisteredOnce` | I | a course is registered once by the three ways in |
| | `AreaFollowsCategory` | I | the area of a row is that of its category, unless it was named |
| `draft` | `DraftUsable` | I | types; what the browser stores is read back unchanged (`ReloadFaithful`); no section has two items (`DistinctSections`); no course is placed twice (`OneActivePerCourse`); no snapshot is of other course data than the draft (`HistoryKnown`); the middle three, and the sections in `HistoryKnown`, as long as not `mixed` |
| | `ApplyKeepsIntent` | A | applying a candidate to a draft of the page's own course data keeps required courses, locks, exclusions and backups |
| | `ImplementsTimeline` | R | undo and redo walk the line of drafts of `DraftTimeline` |
| `panel` | `PanelConsistent` | I | candidates belong to the draft they are shown for (`GenerationMatchesDraft`); a panel that waits has a request whose answer ends the wait (`BusyHasRequest`) |
| | `PanelSettles` | L | the button comes back (`GenerateSettles`); a job shown as running is shown as done, or taken away by a change of the draft (`PollingEnds`) |
| `solver` | `ModelIsExact` | I | the CP model admits exactly the legal selections; a hint of infeasibility is right (`HintsAreSound`) |
| | `ObjectiveIsScore` | I | the objective of the model is the score of the scorer; the lunch literals find the longest break (`LunchBreakIsLongest`) |
| | `AnswerIsTruthful` | I | `StatusIsTruthful`: OPTIMAL and INFEASIBLE only when proved; `CandidatesAreDiverse`, `BestFirst`; `OptimalMatchesReference`: an answer called optimal has the scores that greedy choice from all selections gives |
| | `ReferenceIsExact` | I | the reference search finds every legal selection once (`FindsEachOnce`), its verdict is proved (`VerdictIsProved`), its choice is greedy and diverse (`GreedyAndDiverse`) |
| | `IntentsKept` | I | a candidate keeps locks, required courses, exclusions and professors as the worker's data knows them, and the bounds of credits as the worker rounds them; a failure in the worker has a cause in the request or in newer data (`FailureHasCause`) |
| | `ComparisonAgrees` | I | the comparison shows the metrics of the score, its credits up to half a credit for each section whose credits are not whole (`MetricsAgree`), and its changes lead from what is placed to the candidate (`ChangesLeadThere`) |
| `rules` | `HistoryIsOneArchive` | I | the history in the database is of one release |
| | `ReferencesSurvive` | A | a link to an offering is lost only when the offering left the archive |
| | `RulesAreOneRelease` | I | the rules in the database are of one release unless another release was committed during the last ingest, and no damaged file got in where a checksum is compared (`DamageKeptOut`) |
| | `IngestsGoOn` | I | nobody waits for an ingest that ended; ingests of the history never wait in a circle, those of the requirements only when no one order of the datasets agrees with their bundles |
| | `NoRuleLost` | I | a common rule that a degree profile replaces is judged, flagged or left to a human; `OneMinimumPerKind` |
| | `ProgressKept` | A | no completed course makes a requirement missing |

Each of them has a mutant in `PROJECT.json`: an operator next to the definition it
replaces, changed as a plausible slip would change it (`NoAdmissionLock`,
`SweptStatusDeadlineFirst`, `ChangesCountedTwice`, ...), under which TLC reports the
property violated by the run that checks it.

## 4. Runs and bounds

| Run | Instance |
|---|---|
| `jobs_lease` | 1 job, 2 workers, 1 client, heartbeats, clock to 6, transactions up to 2 ticks, kills at any time |
| `jobs_admission` | 2 jobs, 1 worker, 2 clients, a limit of 1, clock to 2 |
| `jobs_liveness` | 1 job, 1 worker, 1 client, clock to 6, kills until 4, `FairSpec` |
| `auth_sessions` | 1 student and browser, 2 requests at once, 2 codes, 2 logins, every operation, verifications killed half-way, clock to 2 |
| `rate_limits` | in memory: 2 clients, 2 in 3 ticks of half a second, clock to 7; in the table: 2 students, 2 addresses, 2 requests at once, limits of 1 and 2 in 2 ticks with a lag of 1, kills, clock to 3 |
| `records` | timetables: 2 students, 2 requests at once, 2 timetables, 1 link, catalogs that lose and change sections; the others: 2 requests at once; courses: one request after another |
| `draft`, `draft_repeats` | 5 sections of 2 courses, two versions of the course data, the older one in the packaged file, a link of another page for the newer one, a cap of 2; 1 to 3 edits of one of five scenarios: timeline, saving, editor, candidates, versions |
| `panel` | 2 drafts, 1 change, 2 jobs, cancellation |
| `solver` | 6 sections on 2 days; a few hundred problems up to the model, 18 with the whole search, 52 with the reference search; 2 versions of 5 sections for the requests, with credits in quarters |
| `rules` | 2 ingests of history over 2 releases, 1 ingest of rules over 2 with damage, 2 ingests of rules over 3, evaluations over rules of three sources; 3 starts |
| `auth_rotation` | 1 student and browser, 2 requests at once, codes and `GET /auth/session`, clock to 3; expected violation, like `draft_repeats` |

**Why the bounds are enough.** Bounds are constants or definitions with `Max` in their
name, `CrashHorizon`, `Offered` (the operations of a run) and the lengths of the sets.

* *The queue.* Lease 1, window 2 or 3, retention 1. The code has a lease of 30 s and a
  window of the time limit (at most 8 s) + 30 s; what matters is that a lease ends before
  the window of its attempt, and for a reclaim that the window is two ticks longer, so
  that the strict `leased_until < now` and `deadline_at > now` hold together. `MaxTime` 6
  is long enough for a claim, an expiry, a second claim, a second expiry and a prune. Two
  attempts stand for three: the first and the last. Two creates are enough to race; rows
  interact only through the cap, the pick and the locks, so one job is enough for what
  concerns a single row. `MaxLag` bounds the ticks that a transaction lasts.
* *Sessions and limits.* The order of the times is kept (cooldown <= expiry <= retention,
  rotation < validity). Two requests at once race in every pair of operations, and so do
  the clocks they read before their locks. In `rate_limits` the window is longer than the lag,
  and the clock goes on until a row of time 0 is purged while a request with an older clock
  waits: `RateRespectedInFull`, the limit of whole windows, is violated there. The code
  bounds the wait for a lock by nothing; `MaxLag` stands for the longest one, and
  `OtpAssumption` keeps the retention of codes (300 s at least, `config.py:50`) above the
  cooldown (60 s) by it.
* *Records.* Each hazard is a pair of requests. Names have lengths at both sides of the
  width of the column. Completed courses run one after another on purpose, see section 4.3.
* *Draft.* A cap of 2 instead of 40 is reached within the edits. Handlers that work on the
  same items are offered together, each family from the drafts where it can do most. The
  later course data lacks one section of a course and has another one; the packaged file
  brings the first one back, in the scenarios that reload or open other drafts.
* *Optimizer.* Sections overlap, touch, are a walk, a lunch or a gap apart, have no place or no
  time, and one covers the whole window for lunch; `LargeProblem` puts the threshold of the
  fallback in the middle of the instance.
* *Ingest and rules.* Offerings stay, go and change between releases. The manifests list the
  terms in opposite orders: without the manifest's row in front, two ingests wait in a
  circle (the mutant `ManifestLast`). The first bundle has no rule sources and the later two
  list them in opposite orders, so that two ingests that find the curriculum unchanged do
  wait in a circle and one is ended; the curriculum and one rule source of the third differ
  from the second, so that the rules of the two do get mixed. Rules exist of each kind that a
  degree profile replaces, and one profile has neither required courses of liberal arts nor
  a second program.

Symmetry is used where no property names an identity and there is no liveness: jobs,
workers, clients of the queue; students, addresses, requests of the limits; requests
of the records.

Deadlock is checked except in four runs. `panel`, `records`, `solver` and `rules` end: a
student may stop and leave, an answered request is the last step, releases are bounded.
`SomeoneGoesOn` and `IngestsGoOn` are what is checked instead, where there are locks. They
say who waits for whom, and not `ENABLED`, so that they can be proved as well.

### 4.1 Fairness

`FairSpec` of the queue asks for weak fairness of the clock, of commits (nothing blocks a
commit) and of the polls and restarts of a worker (`run_worker` loops, compose restarts
it); strong fairness of the steps that wait for locks, because PostgreSQL grants them in
the order of arrival and a waiter cannot be overtaken for ever; strong fairness of the
report, since CP-SAT has a time limit and its row lock is granted in turn. No fairness is
asked of clients beginning requests, of cancellation or of kills. Kills stop at
`CrashHorizon`: a worker killed in every claim for ever leaves nobody to sweep.

`FairSpec` of the panel asks for weak fairness of rendering, of the server's work and of
answers (a request is answered or fails; the browser does not keep it for ever) and of
the timer that asks again, and for strong fairness of a poll being served and its answer
taken: the connection may break as often as it likes but not every time for ever. The
student is not assumed to do anything. This `Work` is the promise `EveryJobEnds` makes.

### 4.2 Findings

`auth_rotation`: `docs/API_SPEC.md:548` says that `GET /auth/session` replaces the cookie
of a session that is due for rotation. Two such requests of one browser (two tabs) lose
it: the first rotates, the second does not find the session by the old token and answers
by deleting the cookie; if that answer comes last, the session is valid in the table and
nobody has its token. The same loss occurs with one request to a route that requires a
user and then raises an `HTTPException`: the response on which `require_current_user` set
the new cookie is not the one that is sent.

`draft_repeats`: `docs/UX_ITERATION_3.md:32` says that a section that is already there is
not added again. A backup chosen in the editor while another section of its course is
placed rewrites the placed item to the id of the backup and leaves the backup item, so
the draft holds the section twice and later edits by id change both. The run `draft`
therefore has `Repeats = FALSE`: no section is chosen that the draft holds as a backup.

### 4.3 Seen while modelling, without a run of its own

Behaviour that the models have and the properties above are stated around:

* *Queue.* A worker that stalled for longer than the retention reports a job that is swept
  and pruned; `JobNotFoundError` leaves both handlers (`optimizer/worker.py:232`) and ends
  the process, which the comment at `:222` rules out; compose restarts it. A job whose
  worker died can be claimed again only between the end of its lease and its deadline;
  when all workers are busy for longer it ends as TIME_LIMIT with attempts left. At
  `leased_until = now` the sweep selects a row and skips it and the claim does not take it
  yet. `FAILED` jobs all report that the solver failed.
* *Credits.* The worker rounds the credits of each section (`worker.py:78`), and nothing
  else in the code does. Two sections of 2.5 credits count as 4 in the search, in its bounds and
  in the metrics that come with the candidate, and as 5 in the comparison of the same
  candidate (`optimizations.py:58`). The course data kept in the repository have whole credits only,
  and nothing checks that (`catalog/models.py:36`).
* *Logout.* A logout with the old cookie while another request rotates the session matches
  no row and still answers 204 (`auth/service.py:291`); `LogoutEndsSession` of
  `AuthService` states it and does not hold.
* *Limits of sending.* A request that waits for its locks counts with the clock it read
  before, and one with a newer clock purges what that one still has to count
  (`auth/service.py:361`): an address with a limit of 1 is admitted at 0, and at the end of the
  window once more if a request with a later clock ran in between. `RateRespectedInFull`
  states the limit for whole windows and does not hold; `RateRespected` is what is left. The
  deletion of an account deletes its rows, so the student, and the address used, start at
  zero (`:306`).
* *Deletion.* A verification that has read the account before `delete_me` deletes it, and
  commits after `delete_account_records` has begun, creates a session that the deletion does
  not see: it stays, without an account, until it expires, and no process was killed
  (`users.py:157`, `auth/service.py:297`). `LoginGivesAccount` says when this happens, and not
  that it ends.
* *Timetables.* One deleted between `_owned` and the second transaction makes an `assert`
  fail: 500 instead of 404 (`timetables.py:269`). A name of 117 to 120 characters cannot
  be copied without a new one (`:307`). `name: null` in an update is a 500 too.
* *Profile.* Two consents at once wait for each other's share of the user's row
  (`users.py:120`); PostgreSQL aborts one, its answer is a 500. `AbortDeadlocked` is this
  step.
* *Reviews.* Two overlapping reviews that name no professor are both stored, and
  `one_or_none` then raises for every further one (`reviews.py:156`).
* *Completed courses.* Two overlapping requests register a course twice
  (`completed_courses.py:132`), and duplicated rows count twice in the evaluation. A
  category with spaces around it gets no area (`:146`).
* *Draft.* A timetable that is loaded is completed with the course data only at the next
  reload, hence "among the sections the page knows" in `OneActivePerCourse`. While a
  section of it is unknown, its course counts as not placed (`App.tsx:273`) and another
  section can be added. When later course data, the packaged file or the cache
  (`client.ts:123`) has the unknown section, the course is placed twice; an excluded
  course can come back so, and then even one section twice. Without `mixed` in
  `DraftUsable`, and without `Own` in `ApplyKeepsIntent`, TLC finds them violated in the
  instance of `draft`; drafts that are edited only with the course data they were made
  for stay usable, in whatever order the versions come.
* *Panel.* `cancel()` sets the generation when its answer comes, whatever the panel holds
  by then (`OptimizerPanel.tsx:94`): a discarded job comes back (`DroppedStaysDropped`
  holds only without cancellations), and a job that succeeded meanwhile is shown as
  cancelled.
* *Requests.* The worker never compares the version of a request with the data it loaded
  (`worker.py:37`), while `README.md:137` of the repository says that versions do not mix.
  Two selected sections of one course pass the API and fail in the worker.
* *Ingest.* The file of graduation requirements is hashed for change detection only
  (`requirements/importer.py:623`), so damage of its content is loaded: `DamageKeptOut`
  excludes it. Two ingests of rules at once can mix releases: nothing locks them out of each
  other as the manifest does for the history, and an ingest writes what it has read before
  the other one committed. They can also wait in a circle when their bundles list rule
  sources in opposite orders; the database then ends one, which fails as a whole and is not
  tried again. Bundles of `normalizer.py` list them in one order. The ingest reads
  `./data`, the API the copy in its image.
* *Graduation check.* Recommendations look for the missing name in names of sections and
  not for codes and aliases (`requirements.py:494`). The three metrics of major credits
  compare the literal category, which the imports never write (`requirements.py:326`).
  `additionalMajorMin` is loaded and never evaluated. Assessment rules ignore the year of
  admission.

## 5. Proofs

The theorems hold for every value of the constants that satisfies the named assumptions
of the component (`JobsAssumption`, `TimesAssumption`, `TimetableAssumption`, ...; `PartsAssumption`,
`LimiterAssumption` and `CheckAssumption` for components side by side); TLC
evaluates these in every run of the component. None of the properties is inductive as it
stands; each proof module begins with the invariant that is, TLC checked it first, and
there is one lemma per action that can disturb it.

`OptimizationJobs_proofs` proves `Invariance`: `Spec => []IInv`. `IInv` adds to the types

* `JobsOK`: every row satisfies `RowOK`, its type and the row's part of the properties;
* `TxnOK`: the clock value of a transaction is not in the future, the rows it holds exist,
  the row a claim picked is locked and still claimable when it commits;
* `HeldDisjoint`: no row is locked by two transactions, which makes the decision of a
  `Lock` step still right at its `Commit`;
* `WorkerOK`: the worker of an open claim is idle, one that solves or reports has a job.

`TypeCorrect`, `LeaseCorrect`, `CancelCorrect`, `ResultCorrect` and their conjunction
`RowsCorrect` follow from lemmas on what the row operators (`Closed`, `Swept`, `Claimed`,
`Cancelled`, `Settled`) do to a row. `StepChangesRows` shows that every step changes each
row in one of a few named ways (`RowChange`); `FinalityCorrect`, `PruneCorrect`,
`OutcomesCorrect` and `LeaseRespected` follow. For the cap, only one create is between its
count and its commit (`CreateAlone`, from the advisory lock), and a count below the limit
stays an upper bound until the insert (`CountHolds`: no other step adds an active row);
`CapCorrect` follows. `LifecycleCorrect` is the refinement: each way of changing a row is a
step in the life of its job or none, a step that inserts is the creation of one job, one
that adds an attempt is the start of one job (hence the part of `RowOK` that a queued row
has no attempt), and the cap is `CapCorrect`'s. It holds for any number of jobs, workers
and requests.

`RateLimits_proofs`, first part (`AuthService`): `IInv` says of the tables what the properties say (`ChallengesOK`,
`SessionsOK`, `WindowsOK`) and of the requests in progress what makes these inductive. A
verification reads in one step and writes in another, and only other verifications and
starts respect its advisory locks. `VerifyAlone`: no other request holds the locks of its
student or address. `LockedLive`: the challenge it has read is still live and of its
student, unless a late mail error or a deletion took it away. `RoomHolds`: the events it
has counted leave room for its own. `OneOfEach`, `CodesUsedOnce` and
`TokensStayDead` follow for any number of students, addresses, browsers and (finitely many)
requests.

The limits are about all admissions, and the code counts rows that others purge. A
transaction is at most `MaxLag` behind the clock (`LagOK`), so what is gone from the table is
older than the window of any clock (`HistoryOK`) or than the cooldown (`CodesOK`), and a
request has counted every admission that shares a window of `RateWindow - MaxLag` with its own
(`WindowCounted`). `SendingIsLimited` follows, the invariant that `rate_limits` checks.
`AccountWithSession` has the hypothesis that no deletion is killed between its two
transactions; a killed one leaves sessions of a deleted account behind until they expire,
which is what the second transaction is there to prevent. It says that the session is
created, or its account deleted, during a deletion, not that the deletion takes the session
along (section 4.3).

Second part (`SlidingWindow`): the deque of a client is the end of its log and what comes before
it has left the window (`EndOf`), the log is ordered, and the admission that keeps a
refused client out leaves the window before it is told to come back (`PromiseFits`).
`PrunedDrops` is the lemma on `popleft` while stale, by the smallest fresh index.

`StudentRecords_proofs`, timetables: `TablesOK` and `ReqsOK` type the tables and the requests. The
heart is `Entitled`: a request that is about to write names an id that was drawn, and if
that row still exists it belongs to the student who asks; ids are not drawn twice, and
`OwnersKept` says that rows do not change hands, so what `_owned` saw in an earlier
transaction is still right, or the row is gone. `ReferencesCorrect` and `OwnerCorrect`
follow, for any number of students and requests. `ItemsCorrect`: what the validation
accepts is a timetable a student can attend (`AcceptedIsAttendable`, which turns the
code's comparison of counts into distinctness), and a request that copies or replaces
items takes them from a row of the semester it was checked for, which no step changes.
`UpdatesKept` shows that a replacement of the items leaves the other columns as they are
at that moment, and not as `_owned` saw them.

The three other parts of a student's records have an invariant each.

* `ProfileInv`: a request that is about to commit holds the row of the user alone
  (`HoldsAlone`), so what it has read of the consents still holds (`Reading`).
  `ProfileCorrect` follows. For `ProfilesGoOn`, the rows that a waiting request wants are
  held by requests that are not idle; if one of these waits too, both hold the row shared
  and want it alone, which is the circle the database breaks.
* `ReviewsInv`: rows have ids that were drawn, and the property itself. What the check saw
  is forgotten by the time of the insert: it is the constraint of the table (`Taken`) that
  `ReviewsCorrect` rests on, not the check.
* `CoursesInv`: what a request is about to insert (`Fresh`) is new with respect to the
  student's rows and to the other rows of the same request. The latter is about the first
  entry of each key in a list, which the model states by positions (`FirstOfEach`,
  `InOrder`), because nothing can be proved about filters of sequences with an operator as
  parameter; `RankReaches` and `NewPositions` are the lemmas. `AreasFollow` holds for
  overlapping requests too. `CoursesOnce` has the hypothesis `Serial`, a request at a time:
  without it the property is false (section 4.3).

`GraduationRules_proofs`, ingest: every transaction of the history writes the row of the manifest
before all others and keeps it, so at most one is past it (`Apart`, from the row locks);
what an ingest has found loaded or has written (`Loaded`) is therefore still there when it
commits. `HistoryCorrect` follows for any number of ingests, releases and terms, with
failures and crashes anywhere. `DamageCorrect` needs only that what is written comes from
a release (`Tidy`, `Read`). The requirements have no row that every ingest writes first:
what an ingest of them counts on is there when no other release was committed meanwhile
(`LoadedSurvives`), so `RulesCorrect` leaves out just the ingests that were overtaken.
`ReferencesCorrect` rests on the ids of offerings, which are made of term and key
(`IngestAssumption`): an id that a commit deletes from one term is in no other.

`OptimizerPanel_proofs`: `MadeFor` ties every place that keeps a job next to a draft (the
generation, the answers on their way, the poll) to the draft for which the server made the
job; with it `GenerationCorrect`, and with `BusyHasRequest` `BusyCorrect`;
`ConsistentCorrect` is both. `DroppedCorrect` assumes `~CanCancel`, because the property
is false otherwise (section 4.3).

`DraftHistory_proofs` has two parts. The first sorts the actions into the kinds of
operations of the reducer (edit, undo, redo, replacement of the present, a new history) and
proves each kind with lemmas on `SubSeq`, `Append` and concatenation. `CapCorrect` bounds
the history; `TimelineCorrect` is the refinement: initial states map to initial states,
every step to a step of `DraftTimeline` or a stutter, for every cap and course data.

The second is about what the drafts hold. `DInv` says of every draft of the history and of
the saved one that it fits (`Fit`): as long as no items were edited in a draft of other
course data (`mixed`), it names only sections of the version it carries. No order of the
versions is assumed. The drafts of one history carry the same version (`PeersOf`). A
candidate on the page keeps what the draft of its fingerprint asks for (`BoundOK`),
whatever the draft on the screen is by now, if that draft is for the page's course data.
`KnownCorrect` (types and `HistoryKnown`) follows without a hypothesis on what students do.

`Good` is the part of `Fit` about the items: locks that the reader keeps, distinct
sections, no course placed twice and, which the properties do not say but the proof needs,
no excluded item beside another item of its course: otherwise a candidate that takes the
place of an excluded item would be put beside it. There is a lemma for each function of
`draft.ts` that makes a list (`RoleItems`, `BackupItems`, `ReplacedGood`, `SwappedItems`,
`LockedItems`, `PlanItems`, and `FilterGood`, `AppendGood`, `ConcatGood` for how lists are
put together), and each handler is an edit allowed by them (`EditsWell`). `FilterGood`
rests on `Ascends`: the numbers of a finite set in ascending order are all of it, each
once. Other course data keeps a draft `Good` because hydration only drops items, and an
edit does because a draft of the page's data names only sections the page knows, so that
the handlers, which look at these alone, see every item (`EditHist`, `GoodAll`).
`UsableCorrect` and `IntentCorrect` state `DraftUsable` and `ApplyKeepsIntent`, for any
course data, cap and number of edits, under the hypothesis `~Repeats` (section 4.2);
what the two properties leave out after a mixed edit is in section 4.3.

Ingests and circles of waits (`NoIngestStuck`), for any orders of the files: an ingest that
waits for a row waits for a running one of the same part that is past the dataset of that
row (`WaitsForLater`). Of the history, each in a circle would hold the manifest's row, which
only one can (`RulesInCircle`). With one order for all their bundles, whoever is waited
for is at a later dataset than the one who waits (`WaitsAlongTheOrder`), so that of a
circle none could be at the first one (`NoCircle`).

Check: `AnswersAreEvaluations` has the inductive part, that an answer is the evaluation of
courses that were completed, a finite set. `NoRuleLost` and `ProgressKept` are then facts
about the definitions: each kind of rule that `CombinedRules` drops is found again in what
the degree profile adds, and everything an evaluation counts is a sum or a set that grows
with the courses (`SumBound`, `SumRestrict`).

`FiniteSums` is what the proofs know of finite data. Induction theorems of the library
cannot be used, so its lemmas go by the smallest counterexample (`Smallest`, `BySize`: a
statement about the subsets of a finite set that fails, fails first at some size). With
these it proves that the folds of the community modules are sums that do not depend on
the order (`FoldsAgree`, `SumPicked`), that sums add, scale, split by a key and are renamed
(`SumPlus`, `SumTimes`, `SumByKey`, `SumRenamed`), that a finite set under a strict total
order is listed in this order, each element once (`Ranks`, `ListedAll`, `ListRenamed`), and
that of two ascending lists of lowest values the values agree (`NotLower`).

`Optimizer_proofs` is about any course data, requests and problems that the constructors
accept.

* *Requests.* `RequestsInv` says of a job that the API knew every section it names when it
  was accepted (`Accepted`), that its answer keeps what was asked for (`Kept`) with the
  metrics of its selection (`Computed`), and that it failed for a cause (`Cause`).
  `IntentsAreKept` follows because `ToRequest` turns each intent into a constraint of the
  problem (`FeasibleKeeps`), and `ComparisonsAgree` because comparing goes by ids, which
  are unique in each version. Credits are compared section by section: rounding is off by
  half a credit at most and not at all for whole ones (`RoundedNear`), and so are the sums
  (`CreditsNear`); handing over changes nothing else of the metrics (`HandedMeasures`).
* *The model.* `ModelAdmitsExactly`: each linear constraint of `cp_sat.py` is equivalent to
  one conjunct of `SelectionIsFeasible`. Most are sums of zeros and ones that count a set
  (`SumOnes`, `CountImage`); the gaps of a day agree because its minutes may be summed by
  section or by meeting when nothing overlaps (`DurationAgrees`, `GapAgrees`). The variables
  that stand for merged meetings of one place or one time take sums of sections as zero or
  one: those sections meet each other, so no legal selection has two of them
  (`ClashingChosenOnce`) and the model excludes none (`EventsExcludeNothing`). A specific
  hint contradicts one of the constraints (`HintsTell`).
* *The objective.* `ObjectiveIsTheScore` compares the two programs that compute a score. A
  literal has one value once the selection is fixed. The meetings of a day are apart, so
  `DailySessions` lists them in time: a walk between two buildings is a pair of neighbours
  in the list and in the model; end of the last minus start of the first minus the minutes
  is the sum of the gaps between neighbours, which telescopes. The longest break at lunch is
  shown to be the longest stretch without a meeting between any two points of the window,
  once for the cursor of `scoring.py` and once for the literals of `cp_sat.py`. On a day without
  meetings in the window only one of the two counts a shortage of zero (`ShortageAgrees`,
  `NoMeetingNoShortage`); they agree because the window has room for any break asked for,
  hence the assumption on it. Sums over sections become sums over days
  (`SumByKey`). `LunchBreakIsLongest` is proved on the way.
* *The order.* `Better` compares scores and then the sorted ids: a strict total order on the
  candidates of a problem (`LexOrders`, `BetterOrders`), so that ranking is a list in
  `FiniteSums`' sense. The choice of different candidates is greedy (`Greedy`): none is near
  another, and each candidate that was passed over is near one that was taken before it, or
  the list was full (`Covered`).
* *The reference search.* `Underway` is the invariant of its stack: no two of the open calls
  can find the same selection (`Apart`), none finds what is found (`Below`), and every legal
  selection is found or below an open call, unless the search was stopped. A call replaces
  itself by one for each option of its course, which parts what is below it. At the end
  the stack is empty, so `ReferenceSearchIsExact`. The reference search is an instance of
  its module: `SameProblem`, `SameScore` and `SameOrder` say that its copies of the shared
  definitions are those of the production search.
* *The answer.* `AnswerInv` says of what the loop has found (`FoundWell`) that every
  selection is legal, far enough from the ones before it and, when the solve said optimal,
  the cheapest of those that the cuts had left; and of an end (`Settled`) why it came. The
  cut is the difference counted from the other side (`FarIsDifferent`). Cheapest means
  lowest score by `ObjectiveIsTheScore`, and what is left means legal by
  `ModelAdmitsExactly`; so the first candidate is a best one. When any two timetables differ
  enough, search and reference both list the lowest scores, and `NotLower` makes the lists
  equal. `AnswersAreTruthful` follows for any solver that keeps what its statuses promise.

Only model-checked: liveness (`EveryJobEnds`, `PanelSettles`), which is out of the
prover's reach; no other property needs `ENABLED`. Every other property of a run that
passes is stated by a theorem of `PROJECT.json`, under the hypotheses named above.

## 6. What could follow

* The queue with the panel as its client: today `Work` stands for the queue, and `EveryJobEnds`
  with `JobLifecycle` is what justifies it.
* Row locks of the queue's sweep one at a time, with the victims of deadlocks as in `Profiles`.
* Properties for the four hazards of section 4.3 that have none (a report for a pruned job, a
  late logout, two overlapping imports, a late answer to a cancellation), once the code
  rules them out: today it does not, and the properties are stated around them.

## 7. Not modelled

* Parsing and joining of catalog files, the normalisers of PDF and HWP documents: data
  conversions without state, whose correctness is about their input.
* Lists, averages, paging, catalog and history queries, the choice of missing courses to
  recommend: reads.
* Rendering, conflict display, the encoding of links (what they bring is modelled), other
  views: no state that another part depends on.
* Migrations, settings, wiring: run once, before the system.
* CP-SAT and PostgreSQL are external: a solve ends as the interface allows, transactions
  have the locks and isolation (READ COMMITTED) that the code relies on.
* Digests and tokens are names; a guessed code is a wrong code. Clock skew between hosts
  and clocks that are set back: the deployment has one host.
* In `GraduationCheck`, reasons for manual review that do not depend on the request.
