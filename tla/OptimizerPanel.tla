--------------------------- MODULE OptimizerPanel ---------------------------
(***************************************************************************)
(* The panel that asks the server for timetables: OptimizerPanel.tsx.  It  *)
(* sends one request to create a job, polls the job until it is done and   *)
(* may cancel it, while the student goes on editing the draft.             *)
(*                                                                         *)
(* A draft stands for its fingerprint.  Requests are answered in any order *)
(* or fail, before or after the server acted.  State that a callback sets  *)
(* is rendered, and the effects run, some time later (Render); what the    *)
(* student does runs on a rendered panel.                                  *)
(***************************************************************************)
EXTENDS Naturals, FiniteSets

CONSTANTS
    Drafts,      \* fingerprints
    None,        \* nothing set: null in the panel
    MaxJobs,     \* bound: jobs that the server makes
    MaxChanges,  \* bound: changes of the draft
    CanCancel    \* bound: whether the student uses the cancel button

ASSUME PanelAssumption ==
    None \notin Drafts /\ Drafts # {} /\ MaxJobs \in Nat /\ MaxChanges \in Nat /\ CanCancel \in BOOLEAN

Jobs == 1..MaxJobs
Done == {"SUCCEEDED", "CANCELLED", "FAILED"}
Statuses == {"QUEUED", "RUNNING"} \cup Done

VARIABLES
    jobs,        \* the jobs of the server: status, the draft, cancel_requested
    draft,       \* the draft of the editor
    shown,       \* the draft and generation that were last rendered
    generation,  \* the job the panel holds, with the draft it is for
    pending,     \* pendingFingerprint
    busy,
    sequence,    \* requestSequenceRef
    creates,     \* create requests on their way, by sequence
    cancels,     \* the jobs whose cancellation is on its way
    poll,        \* the polling loop
    changes,     \* how often the draft was changed
    dropped      \* the jobs whose results a change of the draft discarded

panel == <<generation, pending, busy, sequence>>
vars == <<jobs, draft, shown, panel, creates, cancels, poll, changes, dropped>>

(* A job as an answer shows it.  *)
Read(j) == [job |-> j, status |-> jobs[j].status]

IsRendered == shown.draft = draft /\ shown.generation = generation /\ shown.pending = pending

(* What the rendered panel shows: a generation for another draft is hidden. *)
ShownJob == IF shown.generation # None /\ shown.generation.draft = shown.draft
            THEN shown.generation ELSE None

Polled(g, d) == IF g # None /\ g.draft = d /\ g.status \notin Done
                THEN [job |-> g.job, draft |-> g.draft] ELSE None

NoLoop == [key |-> None, phase |-> "ended", status |-> None]

Init ==
    /\ jobs = << >>
    /\ draft \in Drafts
    /\ generation = None /\ pending = None /\ busy = FALSE /\ sequence = 0
    /\ shown = [draft |-> draft, generation |-> None, pending |-> None]
    /\ creates = {} /\ cancels = {} /\ poll = NoLoop /\ changes = 0 /\ dropped = {}
-----------------------------------------------------------------------------
(* The student.  *)

ChangeDraft(d) ==
    /\ IsRendered /\ d # draft /\ changes < MaxChanges
    /\ draft' = d /\ changes' = changes + 1
    /\ UNCHANGED <<jobs, shown, panel, creates, cancels, poll, dropped>>

ClickGenerate ==
    /\ IsRendered /\ ~busy /\ sequence < MaxJobs + MaxChanges
    /\ ShownJob # None => ShownJob.status \in Done
    /\ sequence' = sequence + 1
    /\ busy' = TRUE /\ generation' = None /\ pending' = draft
    /\ creates' = creates \cup {[sequence |-> sequence + 1, draft |-> draft, job |-> None, sent |-> TRUE]}
    /\ UNCHANGED <<jobs, draft, shown, cancels, poll, changes, dropped>>

ClickCancel ==
    /\ CanCancel /\ IsRendered
    /\ ShownJob # None /\ ShownJob.status \notin Done
    /\ \A c \in cancels : c.button => c.job # ShownJob.job
    /\ cancels' = cancels \cup {[job |-> ShownJob.job, draft |-> draft, button |-> TRUE, sent |-> TRUE]}
    /\ UNCHANGED <<jobs, draft, shown, panel, creates, poll, changes, dropped>>

(* Rendering stores the fingerprint and runs the effects: what was made for  *)
(* another draft is dropped and its job cancelled, and the polling loop      *)
(* follows the job that is shown.                                            *)
Render ==
    LET staleGeneration == generation # None /\ generation.draft # draft
        stale == staleGeneration \/ (pending # None /\ pending # draft)
        key == Polled(generation, draft)
    IN  /\ ~IsRendered
        /\ shown' = [draft |-> draft, generation |-> generation, pending |-> pending]
        /\ sequence' = IF stale THEN sequence + 1 ELSE sequence
        /\ cancels' = IF staleGeneration /\ generation.status \notin Done
                      THEN cancels \cup {[job |-> generation.job, draft |-> generation.draft,
                                          button |-> FALSE, sent |-> TRUE]}
                      ELSE cancels
        /\ generation' = IF stale THEN None ELSE generation
        /\ pending' = IF stale THEN None ELSE pending
        /\ busy' = IF stale THEN FALSE ELSE busy
        /\ dropped' = IF staleGeneration THEN dropped \cup {generation.job} ELSE dropped
        /\ poll' = IF key = poll.key THEN poll
                   ELSE IF key = None THEN NoLoop
                   ELSE [key |-> key, phase |-> "wait", status |-> None]
        /\ UNCHANGED <<jobs, draft, creates, changes>>
-----------------------------------------------------------------------------
(* The answer to a create request.  *)

ServeCreate(c) ==
    /\ c.sent /\ c.job = None /\ Cardinality(DOMAIN jobs) < MaxJobs
    /\ LET j == Cardinality(DOMAIN jobs) + 1
       IN  /\ jobs' = [k \in 1..j |-> IF k = j
                          THEN [status |-> "QUEUED", draft |-> c.draft, cancelRequested |-> FALSE]
                          ELSE jobs[k]]
           /\ creates' = (creates \ {c}) \cup {[c EXCEPT !.job = j]}
    /\ UNCHANGED <<draft, shown, panel, cancels, poll, changes, dropped>>

Settle(c) ==
    /\ busy' = IF sequence = c.sequence THEN FALSE ELSE busy
    /\ pending' = IF sequence = c.sequence THEN None ELSE pending
    /\ UNCHANGED sequence

Outdated(c) == sequence # c.sequence \/ shown.draft # c.draft

\* Mutant: a late answer is taken for the draft of the moment.
TakeAnyCreated(c) ==
    /\ c.job # None
    /\ creates' = creates \ {c}
    /\ generation' = [job |-> c.job, status |-> "QUEUED", draft |-> draft]
    /\ dropped' = IF Outdated(c) THEN dropped \cup {c.job} ELSE dropped
    /\ Settle(c)
    /\ UNCHANGED <<jobs, draft, shown, cancels, poll, changes>>

TakeCreated(c) ==
    /\ c.job # None
    /\ creates' = creates \ {c}
    /\ IF Outdated(c)
       THEN dropped' = dropped \cup {c.job} /\ UNCHANGED generation
       ELSE generation' = [job |-> c.job, status |-> "QUEUED", draft |-> c.draft] /\ UNCHANGED dropped
    /\ Settle(c)
    /\ UNCHANGED <<jobs, draft, shown, cancels, poll, changes>>

\* Mutant: the panel stays busy after a failure.
FailAndStayBusy(c) ==
    /\ creates' = creates \ {c}
    /\ UNCHANGED <<jobs, draft, shown, panel, cancels, poll, changes, dropped>>

(* The request was refused or lost, or its answer was.  *)
FailCreate(c) ==
    /\ creates' = creates \ {c}
    /\ Settle(c)
    /\ UNCHANGED <<jobs, draft, shown, generation, cancels, poll, changes, dropped>>
-----------------------------------------------------------------------------
(* Cancelling.  Only the button has a callback; the effect that drops a      *)
(* stale job does not look at the answer.                                    *)

ServeCancel(c) ==
    /\ c.sent
    /\ jobs' = [jobs EXCEPT ![c.job] =
           IF @.status = "QUEUED" THEN [@ EXCEPT !.status = "CANCELLED"]
           ELSE IF @.status = "RUNNING" THEN [@ EXCEPT !.cancelRequested = TRUE] ELSE @]
    /\ cancels' = (cancels \ {c}) \cup (IF c.button THEN {[c EXCEPT !.sent = FALSE]} ELSE {})
    /\ UNCHANGED <<draft, shown, panel, creates, poll, changes, dropped>>

TakeCancelled(c) ==
    /\ ~c.sent
    /\ cancels' = cancels \ {c}
    /\ generation' = [job |-> c.job, status |-> "CANCELLED", draft |-> c.draft]
    /\ UNCHANGED <<jobs, draft, shown, pending, busy, sequence, creates, poll, changes, dropped>>

FailCancel(c) ==
    /\ cancels' = cancels \ {c}
    /\ UNCHANGED <<jobs, draft, shown, panel, creates, poll, changes, dropped>>
-----------------------------------------------------------------------------
(* The polling loop.  *)

Ask ==
    /\ poll.phase = "wait" /\ poll' = [poll EXCEPT !.phase = "asked"]
    /\ UNCHANGED <<jobs, draft, shown, panel, creates, cancels, changes, dropped>>

ServePoll ==
    /\ poll.phase = "asked"
    /\ poll' = [poll EXCEPT !.phase = "answered", !.status = jobs[poll.key.job].status]
    /\ UNCHANGED <<jobs, draft, shown, panel, creates, cancels, changes, dropped>>

TakePoll ==
    /\ poll.phase = "answered"
    /\ IF shown.draft # poll.key.draft
       THEN poll' = [poll EXCEPT !.phase = "ended", !.status = None] /\ UNCHANGED generation
       ELSE /\ poll' = [poll EXCEPT !.phase = IF poll.status \in Done THEN "ended" ELSE "wait",
                                    !.status = None]
            /\ generation' = IF generation # None /\ generation.job = poll.key.job
                                /\ generation.draft = poll.key.draft
                             THEN [generation EXCEPT !.status = poll.status] ELSE generation
    /\ UNCHANGED <<jobs, draft, shown, pending, busy, sequence, creates, cancels, changes, dropped>>

FailPoll ==
    /\ poll.phase \in {"asked", "answered"}
    /\ poll' = [poll EXCEPT !.phase = "wait", !.status = None]
    /\ UNCHANGED <<jobs, draft, shown, panel, creates, cancels, changes, dropped>>
-----------------------------------------------------------------------------
(* The server works on a job.  *)

StartJob(j) ==
    /\ jobs[j].status = "QUEUED"
    /\ jobs' = [jobs EXCEPT ![j].status = "RUNNING"]
    /\ UNCHANGED <<draft, shown, panel, creates, cancels, poll, changes, dropped>>

FinishJob(j) ==
    /\ jobs[j].status = "RUNNING"
    /\ \E status \in IF jobs[j].cancelRequested THEN {"CANCELLED"} ELSE {"SUCCEEDED", "FAILED"} :
           jobs' = [jobs EXCEPT ![j].status = status]
    /\ UNCHANGED <<draft, shown, panel, creates, cancels, poll, changes, dropped>>

Work == \E j \in DOMAIN jobs : StartJob(j) \/ FinishJob(j)

Answer ==
    \/ \E c \in creates : TakeCreated(c) \/ FailCreate(c)
    \/ \E c \in cancels : TakeCancelled(c) \/ FailCancel(c)

Next ==
    \/ \E d \in Drafts : ChangeDraft(d)
    \/ ClickGenerate \/ ClickCancel \/ Render \/ Work \/ Answer
    \/ \E c \in creates : ServeCreate(c)
    \/ \E c \in cancels : ServeCancel(c)
    \/ Ask \/ ServePoll \/ TakePoll \/ FailPoll

Spec == Init /\ [][Next]_vars

(* React renders, the server works, requests are answered or fail, and a     *)
(* connection that comes back again and again lets a poll through at last.   *)
Fairness ==
    /\ WF_vars(Render) /\ WF_vars(Work) /\ WF_vars(Answer)
    /\ WF_vars(Ask) /\ SF_vars(ServePoll) /\ SF_vars(TakePoll)

FairSpec == Spec /\ Fairness
-----------------------------------------------------------------------------
(* Every variable keeps its type.  *)
TypeOK ==
    /\ \A j \in DOMAIN jobs : jobs[j] \in [status : Statuses, draft : Drafts, cancelRequested : BOOLEAN]
    /\ draft \in Drafts /\ pending \in Drafts \cup {None} /\ busy \in BOOLEAN
    /\ generation \in {None} \cup [job : DOMAIN jobs, status : Statuses, draft : Drafts]
    /\ poll.key \in {None} \cup [job : DOMAIN jobs, draft : Drafts]

(* What the panel holds for a draft was computed for this draft.  *)
GenerationMatchesDraft ==
    generation # None => jobs[generation.job].draft = generation.draft

(* While the button waits a request is on its way whose answer will end it.  *)
BusyHasRequest ==
    busy => pending # None /\ \E c \in creates : c.sequence = sequence /\ c.draft = pending

(* The panel never mixes drafts and its button never waits for nothing.     *)
PanelConsistent == GenerationMatchesDraft /\ BusyHasRequest

(* Unless the student cancels, a job that a change of the conditions         *)
(* discarded is not shown again.                                             *)
DroppedStaysDropped == ShownJob # None => ShownJob.job \notin dropped

(* A request to generate does not leave the button waiting for ever.  *)
GenerateSettles == busy ~> ~busy

(* A job that is shown as running is shown as done in the end, unless a      *)
(* change of the draft takes it away, however often the connection breaks.   *)
PollingEnds == (ShownJob # None) ~> (ShownJob = None \/ ShownJob.status \in Done)

(* Both waits of the panel end.  *)
PanelSettles == GenerateSettles /\ PollingEnds
=============================================================================
