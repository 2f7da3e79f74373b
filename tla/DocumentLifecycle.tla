-------------------------- MODULE DocumentLifecycle --------------------------
(***************************************************************************)
(* The tracking row of one document and everybody who writes its status:   *)
(* the queue processor around StartExecution, user aborts, the step        *)
(* functions of the running execution and the workflow tracker.  Every one *)
(* of them reads or writes the row in a call of its own, some of them      *)
(* conditionally, and the reads that are not asked to be consistent may    *)
(* return the row as it was before the last write.                         *)
(*                                                                         *)
(* The concurrency slot is Admission's; here a message that gets no slot,  *)
(* or meets an open breaker, is refused and comes back.                    *)
(***************************************************************************)
EXTENDS Integers, FiniteSets

CONSTANTS
  Invocation,     \* the queue processor's invocations
  Caller,         \* the abortWorkflow calls
  MaxSteps,       \* bound: step functions started by one execution
  MaxDeliveries,  \* bound: deliveries of the terminal event
  MaxFaults       \* bound: failed calls, crashes and duplicate deliveries

ASSUME LifecycleAssumption ==
  /\ IsFiniteSet(Invocation)
  /\ IsFiniteSet(Caller)
  /\ MaxSteps \in Nat
  /\ MaxDeliveries \in Nat
  /\ MaxFaults \in Nat

VARIABLES
  status,      \* ObjectStatus in the tracking row
  before,      \* what it was before the last write
  queue,       \* the document's message
  exec,        \* the execution named after the message
  step,        \* a step function is under way and has writes to come
  steps,       \* step functions started so far
  events,      \* deliveries of the terminal event so far
  pc,          \* where each invocation is
  abort,       \* where each abort call is, and the status it read
  faults,      \* faults so far
  starts,      \* history: executions created
  early,       \* history: ABORTED was written before any claim stood
  unconfirmed, \* history: a claim failed and the start went ahead
  abandoned    \* history: a starter left with neither RUNNING recorded nor a
               \* stop requested, or an abort call's stop failed

rowVars == <<status, before>>
execVars == <<exec, step, steps, events, starts>>
ghostVars == <<early, unconfirmed, abandoned>>
vars == <<rowVars, queue, execVars, pc, abort, faults, ghostVars>>

(* PROCESSING stands for the statuses of the step functions at work.       *)
Abortable == {"QUEUED", "RUNNING", "PROCESSING"}
Status == Abortable \cup {"COMPLETED", "FAILED", "ABORTED"}
Outcome == {"succeeded", "failed", "aborted"}

(* Points after which an invocation has created the execution.             *)
StartedPoints == {"started", "tracking", "asking", "stopping"}

NotCalled == [at |-> "idle", saw |-> "QUEUED", attempt |-> 1]

TypeOK ==
  /\ status \in Status
  /\ before \in Status
  /\ queue \in {"visible", "invisible", "deleted"}
  /\ exec \in {"none", "running"} \cup Outcome
  /\ step \in BOOLEAN
  /\ steps \in 0..MaxSteps
  /\ step => steps > 0
  /\ events \in 0..MaxDeliveries
  /\ pc \in [Invocation -> {"idle", "claiming", "cleared"} \cup StartedPoints]
  /\ abort \in [Caller ->
       [at : {"idle", "deciding", "writing", "rereading", "aborted", "refused"},
        saw : Status, attempt : 1..2]]
  /\ \A c \in Caller : abort[c].at = "rereading" => abort[c].attempt = 1
  /\ faults \in 0..MaxFaults
  /\ starts \in Nat
  /\ early \in BOOLEAN
  /\ unconfirmed \in BOOLEAN
  /\ abandoned \in BOOLEAN

Init ==
  /\ status = "QUEUED"
  /\ before = "QUEUED"
  /\ queue = "visible"
  /\ exec = "none"
  /\ step = FALSE
  /\ steps = 0
  /\ events = 0
  /\ pc = [i \in Invocation |-> "idle"]
  /\ abort = [c \in Caller |-> NotCalled]
  /\ faults = 0
  /\ starts = 0
  /\ early = FALSE
  /\ unconfirmed = FALSE
  /\ abandoned = FALSE

-----------------------------------------------------------------------------
Put(s) == status' = s /\ before' = status

GoTo(i, point) == pc' = [pc EXCEPT ![i] = point]

Fault ==
  /\ faults < MaxFaults
  /\ faults' = faults + 1

(* An eventually consistent read.                                          *)
MayRead(s) == s \in {status, before}

(* StopExecution on an execution that has ended changes nothing.           *)
StopsNothing == exec' = exec          \* mutant: the stop is not permitted
StopExecution == exec' = IF exec = "running" THEN "aborted" ELSE exec

-----------------------------------------------------------------------------
(* The queue processor.                                                    *)

(* A message is handed out, and its document is read once at the top.      *)
Receive(i) ==
  /\ pc[i] = "idle"
  /\ queue = "visible"
  /\ \/ /\ MayRead("ABORTED")
        /\ queue' = "deleted"
        /\ UNCHANGED pc
     \/ /\ \E s \in Status \ {"ABORTED"} : MayRead(s)
        /\ queue' = "invisible"
        /\ GoTo(i, "claiming")
  /\ UNCHANGED <<rowVars, execVars, abort, faults, ghostVars>>

(* Delivered again while it is being handled (at-least-once delivery).     *)
DeliverTwice ==
  /\ queue = "invisible"
  /\ Fault
  /\ queue' = "visible"
  /\ UNCHANGED <<rowVars, execVars, pc, abort, ghostVars>>

(* The visibility timeout, which is also the Lambda timeout, has passed.   *)
Return ==
  /\ queue = "invisible"
  /\ \A i \in Invocation : pc[i] = "idle"
  /\ queue' = "visible"
  /\ UNCHANGED <<rowVars, execVars, pc, abort, faults, ghostVars>>

(* No slot, or the breaker is open.                                        *)
Refuse(i) ==
  /\ pc[i] = "claiming"
  /\ GoTo(i, "idle")
  /\ UNCHANGED <<rowVars, queue, execVars, abort, faults, ghostVars>>

(* claim_start: a conditional write and, if refused, a consistent read.    *)
ClaimsAnyway == TRUE                  \* mutant: only the first read is trusted
ClaimAllowed == status # "ABORTED"

ClaimStart(i) ==
  /\ pc[i] = "claiming"
  /\ IF ClaimAllowed
       THEN GoTo(i, "cleared") /\ UNCHANGED queue
       ELSE GoTo(i, "idle") /\ queue' = "deleted"
  /\ UNCHANGED <<rowVars, execVars, abort, faults, ghostVars>>

ClaimStartFails(i) ==
  /\ pc[i] = "claiming"
  /\ Fault
  /\ GoTo(i, "cleared")
  /\ unconfirmed' = TRUE
  /\ UNCHANGED <<rowVars, queue, execVars, abort, early, abandoned>>

(* The execution's name is derived from the message, so it can be taken.   *)
NameNeverTaken == FALSE               \* mutant: Step Functions picks the name
NameTaken == exec # "none"

StartExecution(i) ==
  /\ pc[i] = "cleared"
  /\ IF NameTaken
       THEN /\ GoTo(i, "idle")
            /\ queue' = "deleted"
            /\ UNCHANGED execVars
       ELSE /\ GoTo(i, "started")
            /\ exec' = "running"
            /\ starts' = starts + 1
            /\ UNCHANGED <<queue, step, steps, events>>
  /\ UNCHANGED <<rowVars, abort, faults, ghostVars>>

StartFails(i) ==
  /\ pc[i] = "cleared"
  /\ Fault
  /\ GoTo(i, "idle")
  /\ UNCHANGED <<rowVars, queue, execVars, abort, ghostVars>>

Acknowledge(i) ==
  /\ pc[i] = "started"
  /\ queue' = "deleted"
  /\ GoTo(i, "tracking")
  /\ UNCHANGED <<rowVars, execVars, abort, faults, ghostVars>>

(* The post-start write, refused if the row reads ABORTED.                 *)
Overwrites == TRUE                    \* mutant: an unconditional write
StillWanted == status # "ABORTED"

WriteRunning(i) ==
  /\ pc[i] = "tracking"
  /\ IF StillWanted
       THEN Put("RUNNING") /\ GoTo(i, "idle")
       ELSE GoTo(i, "stopping") /\ UNCHANGED rowVars
  /\ UNCHANGED <<queue, execVars, abort, faults, ghostVars>>

(* It failed for another reason: ask whether the document was aborted.  If *)
(* it was not, the row goes on reading QUEUED beside a running execution.  *)
WriteRunningFails(i) ==
  /\ pc[i] = "tracking"
  /\ Fault
  /\ GoTo(i, "asking")
  /\ UNCHANGED <<rowVars, queue, execVars, abort, ghostVars>>

AskAborted(i) ==
  /\ pc[i] = "asking"
  /\ IF status = "ABORTED"
       THEN GoTo(i, "stopping") /\ UNCHANGED abandoned
       ELSE GoTo(i, "idle") /\ abandoned' = TRUE
  /\ UNCHANGED <<rowVars, queue, execVars, abort, faults, early, unconfirmed>>

StopAbortedStart(i) ==
  /\ pc[i] = "stopping"
  /\ StopExecution
  /\ GoTo(i, "idle")
  /\ UNCHANGED <<rowVars, queue, step, steps, events, starts, abort, faults, ghostVars>>

(* The re-read or the stop fails and is not retried.                       *)
GiveUp(i) ==
  /\ pc[i] \in {"asking", "stopping"}
  /\ Fault
  /\ GoTo(i, "idle")
  /\ abandoned' = TRUE
  /\ UNCHANGED <<rowVars, queue, execVars, abort, early, unconfirmed>>

Crash(i) ==
  /\ pc[i] # "idle"
  /\ Fault
  /\ GoTo(i, "idle")
  /\ abandoned' = (abandoned \/ pc[i] \in StartedPoints)
  /\ UNCHANGED <<rowVars, queue, execVars, abort, early, unconfirmed>>

-----------------------------------------------------------------------------
(* abort_document.                                                         *)
Saw(c, s) ==
  abort' = [abort EXCEPT ![c].at = IF s \in Abortable THEN "deciding" ELSE "refused",
                         ![c].saw = s]

At(c, point) == abort' = [abort EXCEPT ![c].at = point]

AbortRead(c) ==
  /\ abort[c].at = "idle"
  /\ \E s \in Status : MayRead(s) /\ Saw(c, s)
  /\ UNCHANGED <<rowVars, queue, execVars, pc, faults, ghostVars>>

(* A document that is not QUEUED has an execution: stop it first.          *)
ReadsAsQueued(c) == abort[c].saw = "QUEUED"

AbortStop(c) ==
  /\ abort[c].at = "deciding"
  /\ IF ReadsAsQueued(c) THEN UNCHANGED exec ELSE StopExecution
  /\ At(c, "writing")
  /\ UNCHANGED <<rowVars, queue, step, steps, events, starts, pc, faults, ghostVars>>

AbortStopFails(c) ==
  /\ abort[c].at = "deciding"
  /\ ~ReadsAsQueued(c)
  /\ Fault
  /\ At(c, "writing")
  /\ abandoned' = TRUE
  /\ UNCHANGED <<rowVars, queue, execVars, pc, early, unconfirmed>>

(* The write; for a document read as QUEUED only if it is still QUEUED.    *)
AlwaysApplies(c) == TRUE              \* mutant: an unconditional write
Applies(c) == ReadsAsQueued(c) => status = "QUEUED"

(* (Only a document queued again in between, which is not modelled, makes  *)
(* the second conditional write fail.)                                     *)
MayRetry(c) == abort[c].attempt = 1

AbortWrite(c) ==
  /\ abort[c].at = "writing"
  /\ IF Applies(c)
       THEN /\ Put("ABORTED")
            /\ At(c, "aborted")
            /\ early' = (early \/ (/\ exec = "none"
                                   /\ \A i \in Invocation : pc[i] # "cleared"))
       ELSE /\ At(c, IF MayRetry(c) THEN "rereading" ELSE "refused")
            /\ UNCHANGED <<rowVars, early>>
  /\ UNCHANGED <<queue, execVars, pc, faults, unconfirmed, abandoned>>

(* The second attempt starts from a consistent read.                       *)
AbortReread(c) ==
  /\ abort[c].at = "rereading"
  /\ abort' = [abort EXCEPT
       ![c] = [at |-> IF status \in Abortable THEN "deciding" ELSE "refused",
               saw |-> status, attempt |-> abort[c].attempt + 1]]
  /\ UNCHANGED <<rowVars, queue, execVars, pc, faults, ghostVars>>

(* A read or the write raises: the caller is told the abort failed.        *)
AbortFails(c) ==
  /\ abort[c].at \in {"idle", "writing", "rereading"}
  /\ Fault
  /\ At(c, "refused")
  /\ UNCHANGED <<rowVars, queue, execVars, pc, ghostVars>>

-----------------------------------------------------------------------------
(* The execution and the workflow tracker.                                 *)
BeginStep ==
  /\ exec = "running"
  /\ ~step
  /\ steps < MaxSteps
  /\ step' = TRUE
  /\ steps' = steps + 1
  /\ UNCHANGED <<rowVars, queue, exec, events, starts, pc, abort, faults, ghostVars>>

(* A step function records its status unconditionally, once or more often; *)
(* it runs on when the execution is stopped or times out.                  *)
StepWrites ==
  /\ step
  /\ step' \in BOOLEAN
  /\ Put("PROCESSING")
  /\ UNCHANGED <<queue, exec, steps, events, starts, pc, abort, faults, ghostVars>>

(* One that fails records that, just as unconditionally, before it raises; *)
(* the execution may still retry it and succeed.                           *)
StepFails ==
  /\ step
  /\ step' = FALSE
  /\ Put("FAILED")
  /\ UNCHANGED <<queue, exec, steps, events, starts, pc, abort, faults, ghostVars>>

(* The execution succeeds or fails between steps, or times out in one.     *)
EndExecution(outcome) ==
  /\ exec = "running"
  /\ step => outcome = "failed"
  /\ exec' = outcome
  /\ UNCHANGED <<rowVars, queue, step, steps, events, starts, pc, abort, faults, ghostVars>>

RawWorkflowStatus ==                  \* mutant: the event's status as it is
  [succeeded |-> "SUCCEEDED", failed |-> "FAILED", aborted |-> "ABORTED"][exec]
AbortedIsFailed ==                    \* mutant: ABORTED is not told apart
  IF exec = "succeeded" THEN "COMPLETED" ELSE "FAILED"

TerminalStatus ==
  [succeeded |-> "COMPLETED", failed |-> "FAILED", aborted |-> "ABORTED"][exec]

(* The tracker writes the terminal status, at every delivery of the event. *)
TrackerWrites ==
  /\ exec \in Outcome
  /\ events < MaxDeliveries
  /\ events' = events + 1
  /\ Put(TerminalStatus)
  /\ UNCHANGED <<queue, exec, step, steps, starts, pc, abort, faults, ghostVars>>

-----------------------------------------------------------------------------
Process(i) ==
  \/ Refuse(i) \/ ClaimStart(i) \/ StartExecution(i) \/ Acknowledge(i)
  \/ WriteRunning(i) \/ AskAborted(i) \/ StopAbortedStart(i)

ProcessFails(i) ==
  \/ ClaimStartFails(i) \/ StartFails(i) \/ WriteRunningFails(i)
  \/ GiveUp(i) \/ Crash(i)

AbortCall(c) == AbortStop(c) \/ AbortWrite(c) \/ AbortReread(c)

Next ==
  \/ DeliverTwice \/ Return
  \/ \E i \in Invocation : Receive(i) \/ Process(i) \/ ProcessFails(i)
  \/ \E c \in Caller : AbortRead(c) \/ AbortCall(c) \/ AbortStopFails(c) \/ AbortFails(c)
  \/ BeginStep \/ StepWrites \/ StepFails
  \/ \E outcome \in {"succeeded", "failed"} : EndExecution(outcome)
  \/ TrackerWrites

Spec == Init /\ [][Next]_vars

(* A live invocation and a live abort call run on.                         *)
Fairness ==
  /\ \A i \in Invocation : WF_vars(Process(i))
  /\ \A c \in Caller : WF_vars(AbortCall(c))

FairSpec == Spec /\ Fairness

-----------------------------------------------------------------------------
(* An abort that was written before any invocation had passed its claim    *)
(* prevents the start for good, unless a claim failed and was waved on.    *)
EarlyAbortPreventsStart == early /\ ~unconfirmed => exec = "none"

(* A document that reads ABORTED while its execution runs is about to be   *)
(* stopped by the invocation that started it: the refused post-start write *)
(* or the re-read after a failed one closes the window after the claim.    *)
AbortedRunIsBeingStopped ==
  status = "ABORTED" /\ exec = "running" /\ ~abandoned =>
    \E i \in Invocation : pc[i] \in StartedPoints

(* A QUEUED document whose abort was accepted is not left running by the   *)
(* start it raced with, as long as no step function has come in between.   *)
AcceptedAbortBeatsTheStart ==
  /\ \E c \in Caller : abort[c].at = "aborted" /\ abort[c].saw = "QUEUED"
  /\ \A i \in Invocation : pc[i] = "idle"
  /\ steps = 0 /\ ~abandoned
  => exec # "running"

(* However often the message is delivered, one execution is created.       *)
OneExecution == starts <= 1

(* A status never claims more than the execution has done.  FAILED may be  *)
(* the word of a step that has raised, while the execution retries it: it  *)
(* does not outlive the success of that execution, and without a step only *)
(* an execution that failed is called so, an aborted one is not.           *)
StatusFollowsExecution ==
  /\ status \in {"RUNNING", "PROCESSING"} => exec # "none"
  /\ status = "COMPLETED" => exec = "succeeded"
  /\ status = "FAILED" /\ exec # "failed" =>
       steps > 0 /\ (exec = "succeeded" => events = 0)

(* An execution whose document reads ABORTED does not run on: somebody     *)
(* stops it, without waiting for it to end by itself, unless a stop failed *)
(* or a step has meanwhile claimed the row.                                *)
AbortedRunIsStopped ==
  []<>(exec # "running" \/ status # "ABORTED" \/ abandoned)

-----------------------------------------------------------------------------
(* The tests of #1612: aborting a QUEUED document cannot lose a race with  *)
(* the queue processor.  With no fault anywhere, once a call that read it  *)
(* as QUEUED has written ABORTED and nobody is working on the document any *)
(* more, no execution of it would be running.                              *)
QueuedAbortIsNotLost ==
  /\ \E c \in Caller : abort[c].at = "aborted" /\ abort[c].saw = "QUEUED"
  /\ \A i \in Invocation : pc[i] = "idle"
  /\ faults = 0
  => exec # "running"
=============================================================================
