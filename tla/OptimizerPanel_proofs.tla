------------------------ MODULE OptimizerPanel_proofs ------------------------
(***************************************************************************)
(* Proofs about OptimizerPanel, for any number of drafts, jobs and         *)
(* requests on their way: what the panel holds was computed for the draft  *)
(* it is held for, and a panel that waits has a request on its way.        *)
(*                                                                         *)
(* A job travels through answers, callbacks and the polling loop.  The     *)
(* invariant says that wherever a job number is kept next to a draft, the  *)
(* server made that job for that draft (MadeFor).                          *)
(***************************************************************************)
EXTENDS OptimizerPanel, FiniteSetTheorems, TLAPS

JobRow == [status : Statuses, draft : Drafts, cancelRequested : BOOLEAN]
Generation == [job : Nat, status : Statuses, draft : Drafts]
CreateRequest == [sequence : Nat, draft : Drafts, job : Nat \cup {None}, sent : BOOLEAN]
CancelRequest == [job : Nat, draft : Drafts, button : BOOLEAN, sent : BOOLEAN]
Loop == [key : {None} \cup [job : Nat, draft : Drafts],
         phase : {"ended", "wait", "asked", "answered"}, status : Statuses \cup {None}]

MadeFor(j, d) == j \in DOMAIN jobs /\ jobs[j].draft = d

JobsOK == \E n \in Nat : jobs \in [1..n -> JobRow]

PanelOK ==
    /\ draft \in Drafts /\ pending \in Drafts \cup {None} /\ busy \in BOOLEAN /\ sequence \in Nat
    /\ generation \in {None} \cup Generation
    /\ generation # None => MadeFor(generation.job, generation.draft)
    /\ shown \in [draft : Drafts, generation : {None} \cup Generation, pending : Drafts \cup {None}]

RequestsOK ==
    /\ creates \subseteq CreateRequest /\ cancels \subseteq CancelRequest
    /\ \A c \in creates : c.job # None => MadeFor(c.job, c.draft)
    /\ \A c \in cancels : MadeFor(c.job, c.draft)

PollOK ==
    /\ poll \in Loop
    /\ poll.phase # "ended" => poll.key # None
    /\ poll.key # None => MadeFor(poll.key.job, poll.key.draft)
    /\ poll.phase = "answered" => poll.status \in Statuses

IInv == JobsOK /\ PanelOK /\ RequestsOK /\ PollOK /\ BusyHasRequest

(* The server never forgets a job nor changes the draft of one.            *)
JobsGrow == \A j \in DOMAIN jobs : j \in DOMAIN jobs' /\ jobs'[j].draft = jobs[j].draft
-----------------------------------------------------------------------------
(* What is kept of a job stays right while the server works on it.         *)
LEMMA WorkKeeps ==
    ASSUME IInv, JobsGrow, JobsOK',
           UNCHANGED <<draft, shown, panel, creates, cancels, poll>>
    PROVE  IInv'
<1>1. PanelOK'
    BY DEF IInv, PanelOK, JobsGrow, MadeFor, panel
<1>2. RequestsOK'
    BY DEF IInv, RequestsOK, JobsGrow, MadeFor
<1>3. PollOK'
    BY DEF IInv, PollOK, JobsGrow, MadeFor
<1>4. BusyHasRequest'
    BY DEF IInv, BusyHasRequest, panel
<1> QED BY <1>1, <1>2, <1>3, <1>4 DEF IInv

LEMMA ChangeDraftStep ==
    ASSUME IInv, NEW d \in Drafts, ChangeDraft(d)
    PROVE  IInv'
BY DEF ChangeDraft, IInv, JobsOK, PanelOK, RequestsOK, PollOK, MadeFor, BusyHasRequest, panel

LEMMA ClickGenerateStep ==
    ASSUME IInv, ClickGenerate
    PROVE  IInv'
<1>1. PICK c : /\ c = [sequence |-> sequence + 1, draft |-> draft, job |-> None, sent |-> TRUE]
               /\ creates' = creates \cup {c}
    BY DEF ClickGenerate
<1>2. c \in CreateRequest /\ c.job = None /\ c.sequence = sequence + 1 /\ c.draft = draft
    BY <1>1 DEF CreateRequest, IInv, PanelOK
<1>3. /\ sequence' = sequence + 1 /\ busy' = TRUE /\ generation' = None /\ pending' = draft
      /\ UNCHANGED <<jobs, draft, shown, cancels, poll>>
    BY DEF ClickGenerate
<1>4. JobsOK' /\ PanelOK' /\ PollOK'
    BY <1>3 DEF IInv, JobsOK, PanelOK, PollOK, MadeFor
<1>5. RequestsOK'
    BY <1>1, <1>2, <1>3 DEF IInv, RequestsOK, MadeFor
<1>6. BusyHasRequest'
    BY <1>1, <1>2, <1>3, PanelAssumption DEF IInv, PanelOK, BusyHasRequest
<1> QED BY <1>4, <1>5, <1>6 DEF IInv

LEMMA ClickCancelStep ==
    ASSUME IInv, ClickCancel
    PROVE  IInv'
<1>1. /\ generation # None /\ ShownJob = generation /\ generation.draft = draft
      /\ UNCHANGED <<jobs, draft, shown, panel, creates, poll>>
    BY DEF ClickCancel, ShownJob, IsRendered
<1>2. PICK c : /\ c = [job |-> generation.job, draft |-> draft, button |-> TRUE, sent |-> TRUE]
               /\ cancels' = cancels \cup {c}
    BY <1>1 DEF ClickCancel
<1>3. c \in CancelRequest /\ MadeFor(c.job, c.draft)
    BY <1>1, <1>2 DEF CancelRequest, Generation, IInv, PanelOK
<1>4. RequestsOK'
    BY <1>1, <1>2, <1>3 DEF IInv, RequestsOK, MadeFor
<1>5. JobsOK' /\ PanelOK' /\ PollOK' /\ BusyHasRequest'
    BY <1>1 DEF IInv, JobsOK, PanelOK, PollOK, BusyHasRequest, MadeFor, panel
<1> QED BY <1>4, <1>5 DEF IInv

LEMMA RenderStep ==
    ASSUME IInv, Render
    PROVE  IInv'
<1>1. /\ shown' = [draft |-> draft, generation |-> generation, pending |-> pending]
      /\ \/ sequence' = sequence /\ generation' = generation /\ pending' = pending /\ busy' = busy
         \/ sequence' = sequence + 1 /\ generation' = None /\ pending' = None /\ busy' = FALSE
      /\ UNCHANGED <<jobs, draft, creates>>
    BY DEF Render
<1>2. JobsOK' /\ PanelOK'
  <2>1. JobsOK'
      BY <1>1 DEF IInv, JobsOK
  <2>2. shown' \in [draft : Drafts, generation : {None} \cup Generation,
                    pending : Drafts \cup {None}]
    <3>1. /\ generation \in {None} \cup Generation /\ pending \in Drafts \cup {None}
          /\ draft \in Drafts
        BY DEF IInv, PanelOK
    <3> QED BY <1>1, <3>1
  <2>3. sequence' \in Nat /\ busy' \in BOOLEAN /\ pending' \in Drafts \cup {None}
    <3>1. sequence \in Nat /\ busy \in BOOLEAN /\ pending \in Drafts \cup {None}
        BY DEF IInv, PanelOK
    <3>2. sequence' \in Nat /\ pending' \in Drafts \cup {None}
        BY <1>1, <3>1
    <3>3. busy' \in BOOLEAN
        BY <1>1, <3>1, Zenon
    <3> QED BY <3>2, <3>3
  <2>4. generation' = None \/ generation' = generation
      BY <1>1
  <2> QED BY <1>1, <2>1, <2>2, <2>3, <2>4 DEF IInv, PanelOK, MadeFor
<1>3. RequestsOK'
  <2>1. CASE cancels' = cancels
      BY <1>1, <2>1 DEF IInv, RequestsOK, MadeFor
  <2>2. CASE cancels' # cancels
    <3>1. PICK c : /\ c = [job |-> generation.job, draft |-> generation.draft,
                           button |-> FALSE, sent |-> TRUE]
                   /\ cancels' = cancels \cup {c} /\ generation # None
        BY <2>2 DEF Render
    <3>2. c \in CancelRequest /\ MadeFor(c.job, c.draft)
        BY <3>1 DEF CancelRequest, Generation, IInv, PanelOK
    <3> QED BY <1>1, <3>1, <3>2 DEF IInv, RequestsOK, MadeFor
  <2> QED BY <2>1, <2>2
<1>4. PollOK'
  <2>1. CASE poll' = poll
      BY <1>1, <2>1 DEF IInv, PollOK, MadeFor
  <2>2. CASE poll' = NoLoop
      BY <2>2 DEF PollOK, NoLoop, Loop
  <2>3. CASE poll' # poll /\ poll' # NoLoop
    <3>1. PICK key : /\ key = Polled(generation, draft) /\ key # None
                     /\ poll' = [key |-> key, phase |-> "wait", status |-> None]
        BY <2>3 DEF Render
    <3>2. /\ generation # None
          /\ key = [job |-> generation.job, draft |-> generation.draft]
        BY <3>1 DEF Polled
    <3>3. /\ key \in [job : Nat, draft : Drafts] /\ MadeFor(key.job, key.draft)
        BY <3>2 DEF IInv, PanelOK, Generation
    <3> QED BY <1>1, <3>1, <3>3 DEF PollOK, Loop, MadeFor
  <2> QED BY <2>1, <2>2, <2>3
<1>5. BusyHasRequest'
    BY <1>1 DEF IInv, BusyHasRequest
<1> QED BY <1>2, <1>3, <1>4, <1>5 DEF IInv

LEMMA ServeCreateStep ==
    ASSUME IInv, NEW c \in creates, ServeCreate(c)
    PROVE  IInv'
<1>1. PICK n \in Nat : jobs \in [1..n -> JobRow]
    BY DEF IInv, JobsOK
<1>2. Cardinality(DOMAIN jobs) = n
    BY <1>1, FS_Interval
<1>3. PICK j \in Nat : j = n + 1
    OBVIOUS
<1>4. c \in CreateRequest /\ c.job = None
    BY DEF ServeCreate, IInv, RequestsOK
<1>5. PICK row \in JobRow : row.draft = c.draft /\ jobs' = [k \in 1..j |-> IF k = j THEN row ELSE jobs[k]]
  <2>1. PICK row : row = [status |-> "QUEUED", draft |-> c.draft, cancelRequested |-> FALSE]
      OBVIOUS
  <2>2. row \in JobRow /\ row.draft = c.draft
      BY <1>4, <2>1 DEF JobRow, CreateRequest, Statuses
  <2>3. jobs' = [k \in 1..j |-> IF k = j THEN row ELSE jobs[k]]
      BY <1>2, <1>3, <2>1 DEF ServeCreate
  <2> QED BY <2>2, <2>3
<1>6. /\ jobs' \in [1..j -> JobRow] /\ jobs'[j] = row /\ j \in DOMAIN jobs'
      /\ \A k \in 1..n : jobs'[k] = jobs[k] /\ k \in DOMAIN jobs'
    BY <1>1, <1>3, <1>5
<1>7. JobsGrow /\ (j \in DOMAIN jobs' /\ jobs'[j].draft = c.draft)
    BY <1>1, <1>5, <1>6 DEF JobsGrow
<1>8. UNCHANGED <<draft, shown, panel, cancels, poll>>
    BY DEF ServeCreate
<1>9. creates' = (creates \ {c}) \cup {[c EXCEPT !.job = Cardinality(DOMAIN jobs) + 1]}
    BY DEF ServeCreate
<1>10. creates' = (creates \ {c}) \cup {[c EXCEPT !.job = j]}
    BY <1>2, <1>3, <1>9
<1>11. PICK d : /\ d = [c EXCEPT !.job = j] /\ d \in CreateRequest
                /\ d.job = j /\ d.draft = c.draft /\ d.sequence = c.sequence
  <2>1. PICK d : d = [c EXCEPT !.job = j]
      OBVIOUS
  <2>2. d \in CreateRequest /\ d.job = j /\ d.draft = c.draft /\ d.sequence = c.sequence
      BY <1>3, <1>4, <2>1 DEF CreateRequest
  <2> QED BY <2>1, <2>2
<1>12. JobsOK' /\ PanelOK'
    BY <1>6, <1>7, <1>8 DEF IInv, JobsOK, PanelOK, JobsGrow, MadeFor, panel
<1>13. RequestsOK'
    BY <1>7, <1>11, <1>8, <1>10 DEF IInv, RequestsOK, JobsGrow, MadeFor
<1>14. PollOK'
    BY <1>6, <1>7, <1>8 DEF IInv, PollOK, JobsGrow, MadeFor
<1>15. BusyHasRequest'
    BY <1>11, <1>8, <1>10 DEF IInv, BusyHasRequest, panel
<1> QED BY <1>12, <1>13, <1>14, <1>15 DEF IInv

(* The request that a waiting panel waits for is the last one.             *)
LEMMA SettleKeeps ==
    ASSUME IInv, NEW c \in creates, Settle(c), creates' = creates \ {c}
    PROVE  BusyHasRequest'
BY DEF Settle, IInv, BusyHasRequest, PanelOK

LEMMA TakeCreatedStep ==
    ASSUME IInv, NEW c \in creates, TakeCreated(c) \/ FailCreate(c)
    PROVE  IInv'
<1>1. /\ creates' = creates \ {c} /\ Settle(c)
      /\ UNCHANGED <<jobs, draft, shown, cancels, poll, sequence>>
    BY DEF TakeCreated, FailCreate, Settle
<1>2. c \in CreateRequest /\ (c.job # None => MadeFor(c.job, c.draft))
    BY DEF IInv, RequestsOK
<1>3. \/ generation' = generation
      \/ /\ c.job # None
         /\ generation' = [job |-> c.job, status |-> "QUEUED", draft |-> c.draft]
    BY DEF TakeCreated, FailCreate
<1>4. generation' \in {None} \cup Generation
      /\ (generation' # None => MadeFor(generation'.job, generation'.draft))
    BY <1>2, <1>3 DEF IInv, PanelOK, Generation, CreateRequest, Statuses
<1>5. busy' \in BOOLEAN /\ pending' \in Drafts \cup {None}
    BY <1>1 DEF Settle, IInv, PanelOK
<1>6. PanelOK'
    BY <1>1, <1>4, <1>5 DEF IInv, PanelOK, MadeFor
<1>7. JobsOK' /\ RequestsOK' /\ PollOK'
    BY <1>1 DEF IInv, JobsOK, RequestsOK, PollOK, MadeFor
<1> QED BY <1>1, <1>6, <1>7, SettleKeeps DEF IInv

LEMMA ServeCancelStep ==
    ASSUME IInv, NEW c \in cancels, ServeCancel(c)
    PROVE  IInv'
<1>1. c \in CancelRequest /\ MadeFor(c.job, c.draft)
    BY DEF IInv, RequestsOK
<1>2. PICK n \in Nat : jobs \in [1..n -> JobRow]
    BY DEF IInv, JobsOK
<1>3. PICK row : /\ row.draft = jobs[c.job].draft /\ row \in JobRow
                 /\ jobs' = [jobs EXCEPT ![c.job] = row]
    BY <1>1, <1>2 DEF ServeCancel, MadeFor, JobRow, Statuses, Done
<1>4. jobs' \in [1..n -> JobRow] /\ JobsGrow
    BY <1>2, <1>3 DEF JobsGrow
<1>5. UNCHANGED <<draft, shown, panel, creates, poll>>
    BY DEF ServeCancel
<1>6. \A d \in cancels' : d \in CancelRequest /\ MadeFor(d.job, d.draft)
    BY <1>1 DEF ServeCancel, IInv, RequestsOK, CancelRequest
<1>7. RequestsOK'
    BY <1>4, <1>5, <1>6 DEF IInv, RequestsOK, JobsGrow, MadeFor
<1>8. JobsOK' /\ PanelOK'
    BY <1>4, <1>5 DEF IInv, JobsOK, PanelOK, JobsGrow, MadeFor, panel
<1>9. PollOK' /\ BusyHasRequest'
    BY <1>4, <1>5 DEF IInv, PollOK, BusyHasRequest, JobsGrow, MadeFor, panel
<1> QED BY <1>7, <1>8, <1>9 DEF IInv

LEMMA AnswerCancelStep ==
    ASSUME IInv, NEW c \in cancels, TakeCancelled(c) \/ FailCancel(c)
    PROVE  IInv'
<1>1. c \in CancelRequest /\ MadeFor(c.job, c.draft)
    BY DEF IInv, RequestsOK
<1>2. /\ cancels' = cancels \ {c}
      /\ UNCHANGED <<jobs, draft, shown, pending, busy, sequence, creates, poll>>
      /\ \/ generation' = generation
         \/ generation' = [job |-> c.job, status |-> "CANCELLED", draft |-> c.draft]
    BY DEF TakeCancelled, FailCancel, panel
<1>3. generation' \in {None} \cup Generation
      /\ (generation' # None => MadeFor(generation'.job, generation'.draft))
    BY <1>1, <1>2 DEF IInv, PanelOK, Generation, CancelRequest, Statuses, Done
<1>4. PanelOK'
    BY <1>2, <1>3 DEF IInv, PanelOK, MadeFor
<1>5. JobsOK' /\ RequestsOK' /\ PollOK' /\ BusyHasRequest'
    BY <1>2 DEF IInv, JobsOK, RequestsOK, PollOK, BusyHasRequest, MadeFor
<1> QED BY <1>4, <1>5 DEF IInv

LEMMA PollStep ==
    ASSUME IInv, Ask \/ ServePoll \/ TakePoll \/ FailPoll
    PROVE  IInv'
<1>1. UNCHANGED <<jobs, draft, shown, pending, busy, sequence, creates, cancels>>
    BY DEF Ask, ServePoll, TakePoll, FailPoll, panel
<1>2. PICK phase \in {"ended", "wait", "asked", "answered"}, status \in Statuses \cup {None} :
         /\ poll' = [poll EXCEPT !.phase = phase, !.status = status]
         /\ poll.phase # "ended"
         /\ phase = "answered" => status \in Statuses
  <2>1. CASE Ask
    <3>1. poll' = [poll EXCEPT !.phase = "asked", !.status = poll.status]
        BY <2>1 DEF Ask, IInv, PollOK, Loop
    <3>2. poll.phase = "wait" /\ poll.status \in Statuses \cup {None}
        BY <2>1 DEF Ask, IInv, PollOK, Loop
    <3> QED BY <3>1, <3>2
  <2>2. CASE ServePoll
    <3>1. poll.phase = "asked" /\ MadeFor(poll.key.job, poll.key.draft)
        BY <2>2 DEF ServePoll, IInv, PollOK
    <3>2. jobs[poll.key.job].status \in Statuses
        BY <3>1 DEF MadeFor, IInv, JobsOK, JobRow
    <3> QED BY <2>2, <3>1, <3>2 DEF ServePoll
  <2>3. CASE TakePoll
      BY <2>3 DEF TakePoll
  <2>4. CASE FailPoll
      BY <2>4 DEF FailPoll
  <2> QED BY <2>1, <2>2, <2>3, <2>4
<1>3. PollOK'
    BY <1>1, <1>2 DEF IInv, PollOK, Loop, MadeFor
<1>4. \/ generation' = generation
      \/ /\ generation # None /\ poll.status \in Statuses
         /\ generation' = [generation EXCEPT !.status = poll.status]
    BY DEF Ask, ServePoll, TakePoll, FailPoll, panel, IInv, PollOK
<1>5. generation' \in {None} \cup Generation
      /\ (generation' # None => MadeFor(generation'.job, generation'.draft))
    BY <1>4 DEF IInv, PanelOK, Generation
<1>6. PanelOK'
    BY <1>1, <1>5 DEF IInv, PanelOK, MadeFor
<1>7. JobsOK' /\ RequestsOK' /\ BusyHasRequest'
    BY <1>1 DEF IInv, JobsOK, RequestsOK, BusyHasRequest, MadeFor
<1> QED BY <1>3, <1>6, <1>7 DEF IInv

LEMMA WorkStep ==
    ASSUME IInv, Work
    PROVE  IInv'
<1>1. PICK j \in DOMAIN jobs : StartJob(j) \/ FinishJob(j)
    BY DEF Work
<1>2. PICK n \in Nat : jobs \in [1..n -> JobRow]
    BY DEF IInv, JobsOK
<1>3. PICK status \in Statuses : jobs' = [jobs EXCEPT ![j].status = status]
    BY <1>1 DEF StartJob, FinishJob, Statuses, Done
<1>4. jobs' \in [1..n -> JobRow] /\ JobsGrow
    BY <1>1, <1>2, <1>3 DEF JobsGrow, JobRow
<1>5. UNCHANGED <<draft, shown, panel, creates, cancels, poll>>
    BY <1>1 DEF StartJob, FinishJob
<1> QED BY <1>4, <1>5, WorkKeeps DEF JobsOK
-----------------------------------------------------------------------------
LEMMA InitOK == Init => IInv
<1> SUFFICES ASSUME Init PROVE IInv
    OBVIOUS
<1>1. JobsOK
  <2>1. jobs \in [1..0 -> JobRow]
      BY DEF Init
  <2> QED BY <2>1 DEF JobsOK
<1>2. PanelOK
    BY DEF Init, PanelOK
<1>3. RequestsOK /\ PollOK /\ BusyHasRequest
    BY DEF Init, RequestsOK, PollOK, BusyHasRequest, NoLoop, Loop
<1> QED BY <1>1, <1>2, <1>3 DEF IInv

LEMMA NextOK ==
    ASSUME IInv, [Next]_vars
    PROVE  IInv'
<1>1. CASE UNCHANGED vars
  <2>1. /\ UNCHANGED <<draft, shown, panel, creates, cancels, poll>> /\ jobs' = jobs
      BY <1>1 DEF vars
  <2> QED BY <2>1, WorkKeeps DEF JobsGrow, IInv, JobsOK
<1>2. CASE Answer
    BY <1>2, TakeCreatedStep, AnswerCancelStep DEF Answer
<1>3. CASE \/ \E d \in Drafts : ChangeDraft(d)
           \/ ClickGenerate \/ ClickCancel \/ Render \/ Work
    BY <1>3, ChangeDraftStep, ClickGenerateStep, ClickCancelStep, RenderStep, WorkStep
<1>4. CASE \/ \E c \in creates : ServeCreate(c)
           \/ \E c \in cancels : ServeCancel(c)
           \/ Ask \/ ServePoll \/ TakePoll \/ FailPoll
    BY <1>4, ServeCreateStep, ServeCancelStep, PollStep
<1> QED BY <1>1, <1>2, <1>3, <1>4 DEF Next

(* The panel, the requests on their way and the polling loop stay          *)
(* consistent with the jobs of the server.                                 *)
THEOREM Invariance == Spec => []IInv
BY InitOK, NextOK, PTL DEF Spec

(* Every variable of OptimizerPanel.tsx keeps its type.                    *)
THEOREM TypeCorrect == Spec => []TypeOK
<1>1. IInv => TypeOK
    BY DEF IInv, JobsOK, PanelOK, PollOK, TypeOK, MadeFor, JobRow, Generation, Loop
<1> QED BY <1>1, Invariance, PTL

(* What the panel holds for a draft was computed for this draft, whatever  *)
(* the order of answers, changes, cancellations and failed polls.          *)
THEOREM GenerationCorrect == Spec => []GenerationMatchesDraft
<1>1. IInv => GenerationMatchesDraft
    BY DEF IInv, PanelOK, GenerationMatchesDraft, MadeFor
<1> QED BY <1>1, Invariance, PTL

(* A panel that waits has a request on its way whose answer ends the wait. *)
THEOREM BusyCorrect == Spec => []BusyHasRequest
<1>1. IInv => BusyHasRequest
    BY DEF IInv
<1> QED BY <1>1, Invariance, PTL

(* The panel never mixes drafts and its button never waits for nothing.    *)
THEOREM ConsistentCorrect == Spec => []PanelConsistent
<1>1. GenerationMatchesDraft /\ BusyHasRequest => PanelConsistent
    BY DEF PanelConsistent
<1> QED BY <1>1, GenerationCorrect, BusyCorrect, PTL
-----------------------------------------------------------------------------
(* As long as the button to cancel is not used, a job reaches the panel by *)
(* the answer to its own request only, and each job has one such answer.   *)
JobOf(g) == IF g = None THEN {} ELSE {g.job}
Awaited == {c.job : c \in {d \in creates : d.job # None}}

Fresh ==
    /\ \A c \in cancels : c.sent /\ ~c.button
    /\ dropped \subseteq DOMAIN jobs /\ JobOf(shown.generation) \subseteq DOMAIN jobs
    /\ dropped \cap JobOf(generation) = {}
    /\ \A c \in creates : c.job # None =>
          c.job \notin dropped \cup JobOf(generation) \cup JobOf(shown.generation)
    /\ \A c, d \in creates : c.job # None /\ c.job = d.job => c = d
    /\ DroppedStaysDropped

LEMMA FreshInit == Init => Fresh
BY DEF Init, Fresh, JobOf, DroppedStaysDropped, ShownJob

LEMMA FreshCreate ==
    ASSUME IInv, Fresh, NEW c \in creates, ServeCreate(c)
    PROVE  Fresh'
<1>1. PICK n \in Nat : jobs \in [1..n -> JobRow]
    BY DEF IInv, JobsOK
<1>2. Cardinality(DOMAIN jobs) = n
    BY <1>1, FS_Interval
<1>3. PICK j \in Nat : j = n + 1 /\ j \notin DOMAIN jobs
    BY <1>1
<1>4. PICK d : d = [c EXCEPT !.job = j]
    OBVIOUS
<1>5. c \in CreateRequest /\ c.job = None
    BY DEF ServeCreate, IInv, RequestsOK
<1>6. d.job = j
    BY <1>4, <1>5 DEF CreateRequest
<1>7. /\ UNCHANGED <<draft, shown, panel, cancels, dropped>>
      /\ creates' = (creates \ {c}) \cup {[c EXCEPT !.job = Cardinality(DOMAIN jobs) + 1]}
      /\ DOMAIN jobs' = 1..(Cardinality(DOMAIN jobs) + 1)
    BY DEF ServeCreate
<1>8. creates' = (creates \ {c}) \cup {d} /\ DOMAIN jobs \subseteq DOMAIN jobs'
    BY <1>1, <1>2, <1>3, <1>4, <1>7
<1>9. JobOf(generation) \subseteq DOMAIN jobs
    BY DEF JobOf, IInv, PanelOK, MadeFor
<1>10. \A e \in creates : e.job # None => e.job # j
    BY <1>3 DEF IInv, RequestsOK, MadeFor
<1>11. DroppedStaysDropped'
    BY <1>7 DEF Fresh, DroppedStaysDropped, ShownJob
<1>12. j \notin dropped \cup JobOf(generation) \cup JobOf(shown.generation)
    BY <1>3, <1>9 DEF Fresh
<1> QED BY <1>6, <1>7, <1>8, <1>10, <1>11, <1>12 DEF Fresh, JobOf, panel

LEMMA FreshAnswer ==
    ASSUME IInv, Fresh, NEW c \in creates, TakeCreated(c) \/ FailCreate(c)
    PROVE  Fresh'
<1>1. /\ creates' = creates \ {c}
      /\ UNCHANGED <<jobs, shown, cancels>>
      /\ \/ generation' = generation /\ dropped' = dropped
         \/ c.job # None /\ generation' = generation /\ dropped' = dropped \cup {c.job}
         \/ /\ c.job # None /\ dropped' = dropped
            /\ generation' = [job |-> c.job, status |-> "QUEUED", draft |-> c.draft]
    BY DEF TakeCreated, FailCreate
<1>2. c.job # None => c.job \in DOMAIN jobs
    BY DEF IInv, RequestsOK, MadeFor
<1>3. CASE generation' = generation /\ dropped' = dropped
    BY <1>1, <1>3 DEF Fresh, JobOf, DroppedStaysDropped, ShownJob
<1>4. CASE c.job # None /\ generation' = generation /\ dropped' = dropped \cup {c.job}
  <2>1. DroppedStaysDropped'
      BY <1>1, <1>4 DEF Fresh, JobOf, DroppedStaysDropped, ShownJob
  <2> QED BY <1>1, <1>2, <1>4, <2>1 DEF Fresh, JobOf
<1>5. CASE /\ c.job # None /\ dropped' = dropped
           /\ generation' = [job |-> c.job, status |-> "QUEUED", draft |-> c.draft]
  <2>1. DroppedStaysDropped'
      BY <1>1, <1>5 DEF Fresh, DroppedStaysDropped, ShownJob
  <2>2. JobOf(generation)' \subseteq {c.job}
      BY <1>5 DEF JobOf
  <2>3. \A e \in creates' : e.job # None => e.job # c.job
      BY <1>1 DEF Fresh
  <2> QED BY <1>1, <1>5, <2>1, <2>2, <2>3 DEF Fresh, JobOf
<1> QED BY <1>1, <1>3, <1>4, <1>5

LEMMA FreshRender ==
    ASSUME IInv, Fresh, Render
    PROVE  Fresh'
<1>1. /\ shown' = [draft |-> draft, generation |-> generation, pending |-> pending]
      /\ UNCHANGED <<jobs, draft, creates>>
      /\ \/ dropped' = dropped /\ (generation # None => generation.draft = draft)
            /\ (generation' = generation \/ generation' = None)
         \/ /\ generation # None /\ generation.draft # draft
            /\ dropped' = dropped \cup {generation.job} /\ generation' = None
      /\ \A c \in cancels' : c \in cancels \/ (c.sent /\ ~c.button)
    BY DEF Render
<1>2. shown'.generation = generation /\ shown'.draft = draft
    BY <1>1
<1>3. generation # None => generation.job \in DOMAIN jobs
    BY DEF IInv, PanelOK, MadeFor
<1>4. DroppedStaysDropped'
    BY <1>1, <1>2 DEF Fresh, JobOf, DroppedStaysDropped, ShownJob
<1>5. JobOf(shown.generation)' = JobOf(generation) /\ JobOf(generation)' \subseteq JobOf(generation)
    BY <1>1, <1>2 DEF JobOf
<1>6. dropped' \subseteq dropped \cup JobOf(generation)
      /\ dropped' \cap JobOf(generation)' = {}
    BY <1>1 DEF Fresh, JobOf
<1>7. \A c \in cancels' : c.sent /\ ~c.button
    BY <1>1 DEF Fresh
<1> QED BY <1>1, <1>3, <1>4, <1>5, <1>6, <1>7 DEF Fresh, JobOf

LEMMA FreshPoll ==
    ASSUME IInv, Fresh, Ask \/ ServePoll \/ TakePoll \/ FailPoll
    PROVE  Fresh'
<1>1. UNCHANGED <<jobs, shown, creates, cancels, dropped>>
    BY DEF Ask, ServePoll, TakePoll, FailPoll
<1>2. \/ generation' = generation
      \/ generation # None /\ generation' = [generation EXCEPT !.status = poll.status]
    BY DEF Ask, ServePoll, TakePoll, FailPoll, panel
<1>3. JobOf(generation)' \subseteq JobOf(generation)
    BY <1>2 DEF JobOf, IInv, PanelOK, Generation
<1>4. DroppedStaysDropped'
    BY <1>1 DEF Fresh, DroppedStaysDropped, ShownJob
<1> QED BY <1>1, <1>3, <1>4 DEF Fresh

LEMMA FreshRest ==
    ASSUME IInv, Fresh, UNCHANGED <<shown, creates, dropped>>,
           generation' = generation \/ generation' = None,
           DOMAIN jobs' = DOMAIN jobs, cancels' \subseteq cancels
    PROVE  Fresh'
<1>1. DroppedStaysDropped'
    BY DEF Fresh, DroppedStaysDropped, ShownJob
<1> QED BY <1>1 DEF Fresh, JobOf

LEMMA FreshStep ==
    ASSUME ~CanCancel, IInv, Fresh, [Next]_vars
    PROVE  Fresh'
<1>1. CASE UNCHANGED vars \/ Work \/ \E d \in Drafts : ChangeDraft(d)
  <2>1. PICK n \in Nat : jobs \in [1..n -> JobRow]
      BY DEF IInv, JobsOK
  <2> QED BY <1>1, <2>1, FreshRest DEF vars, Work, StartJob, FinishJob, ChangeDraft, panel
<1>2. CASE ClickGenerate
  <2>1. PICK c : c.job = None /\ creates' = creates \cup {c}
      BY <1>2 DEF ClickGenerate
  <2>2. UNCHANGED <<jobs, shown, cancels, dropped>> /\ generation' = None
      BY <1>2 DEF ClickGenerate
  <2>3. DroppedStaysDropped'
      BY <2>2 DEF Fresh, DroppedStaysDropped, ShownJob
  <2> QED BY <2>1, <2>2, <2>3 DEF Fresh, JobOf
<1>3. CASE ClickCancel
    BY <1>3 DEF ClickCancel
<1>4. CASE \E c \in cancels : ServeCancel(c) \/ TakeCancelled(c) \/ FailCancel(c)
  <2>1. PICK c \in cancels : ServeCancel(c) \/ TakeCancelled(c) \/ FailCancel(c)
      BY <1>4
  <2>2. c.sent /\ ~c.button
      BY DEF Fresh
  <2>3. PICK n \in Nat : jobs \in [1..n -> JobRow]
      BY DEF IInv, JobsOK
  <2> QED BY <2>1, <2>2, <2>3, FreshRest DEF ServeCancel, TakeCancelled, FailCancel, panel
<1>5. CASE Render \/ Ask \/ ServePoll \/ TakePoll \/ FailPoll
    BY <1>5, FreshRender, FreshPoll
<1>6. CASE \E c \in creates : ServeCreate(c) \/ TakeCreated(c) \/ FailCreate(c)
    BY <1>6, FreshCreate, FreshAnswer
<1> QED BY <1>1, <1>2, <1>3, <1>4, <1>5, <1>6 DEF Next, Answer

(* A job that a change of the conditions discarded is not shown again, in  *)
(* any order of answers, as long as the button to cancel is not used.      *)
THEOREM DroppedCorrect ==
    ASSUME ~CanCancel
    PROVE  Spec => []DroppedStaysDropped
<1>1. IInv /\ Fresh /\ [Next]_vars => (IInv /\ Fresh)'
    BY FreshStep, NextOK
<1>2. Init => IInv /\ Fresh
    BY InitOK, FreshInit
<1>3. IInv /\ Fresh => DroppedStaysDropped
    BY DEF Fresh
<1> QED BY <1>1, <1>2, <1>3, PTL DEF Spec
==============================================================================
