# The document pipeline's control, in TLA+

The accelerator takes documents from an S3 bucket, queues them, runs one Step
Functions execution per document and records how it went. Most of its code
shapes data (OCR, model calls, reports). What is hard to get right, and nearly
impossible to test, is the control around it: dozens of short-lived Lambda
invocations share a counter, a status attribute and a circuit breaker in
DynamoDB, every call is a separate request that can fail, be repeated or arrive
late, and any invocation can die between two of them. This project models that
control, checks it with TLC on small instances and proves its central
invariants with TLAPS for instances of any size.

## 1. Inventory

Paths are relative to the repository's root, which the sources in
`PROJECT.json` prefix with `src/`.

### How a document flows

    S3 upload ──> queue_sender ──> DocumentQueue (SQS) ──> queue_processor ──> Step Functions
    malware verdict ─┘  creates the row                    │  ^                  │ steps write
                                                           │  │ claims probes    │ the row
             abort_workflow_resolver ──> tracking row <────┘  │                  v
                                              ^       circuit breaker     terminal event
             alarms, schedule, operators ─────┼──> circuit_breaker_manager       │
                                              └──────── workflow_tracker <───────┘
                                                   releases the slot, closes the breaker

### Components with concurrent state

| Component (code) | State | Operations | What is hard | What makes it correct |
|---|---|---|---|---|
| Queue processor, `src/lambda/queue_processor/index.py` | `active_count` and the drift sample in ConcurrencyTable; locals of each invocation | take a slot, reconcile the counter, repair it when negative, claim the start, start, hand back, delete the message, record RUNNING | at-least-once delivery; death between two calls; reconciliation racing claims; late stop of an aborted start | slots are accounted for; the cap; no lost or doubly started document; intake never wedges |
| Counter initializer, `src/lambda/initialize_counter` | the counter item | create it at 0 | – | initial state |
| Workflow tracker, `src/lambda/workflow_tracker/index.py` | decrement markers, terminal status, breaker | write the terminal status, release the slot once, close a half-open breaker | repeated, late and lost terminal events | one release per execution, never below zero; a status that matches the execution |
| Abort, `nested/api-resolvers/src/lambda/abort_workflow_resolver` | tracking row, execution | read, stop, conditional or unconditional write, one retry | stale reads; racing the start and the steps | an accepted abort stops or prevents the run |
| Tracking row, `lib/idp_common_pkg/idp_common/dynamodb/service.py` and `models.py` | `ObjectStatus` | conditional writes, eventually consistent reads | many writers with no lock | the status never claims more than happened |
| Circuit breaker, `src/lambda/circuit_breaker_manager`, claims in the queue processor, close in the tracker | one item: state, timestamps, probe window | alarms, health check, operator actions; claim a probe | writes conditional on the state only; clock skew between claimers; records of earlier versions | probe budget; an outage is not overwritten; no state is final |
| Queue sender and malware gate, `src/lambda/queue_sender/index.py` | tracking row, held objects | create the row, send; hold and release on a verdict, compensate a failed send | death between row and message; verdict before or after upload | a QUEUED row has a message, a held document is not sent |
| Step functions, `patterns/unified` | document body in S3, row status | record a status, work, pass the document on | unconditional status writes of a step that outlives its execution | seen here only through the row |
| Review queues, `idp_common/review_queues`, `review_queue_sweeper` | one review item per document, `review/status.json`, finalize messages and executions | hold, open, claim, dispose, finalize, close, withdraw; sweep | five writers with one Version; messages and events that are lost or come twice; two review cycles of one document | one finalize run at a time; statuses backed by a finished run; no review is lost |
| Document versions, `document_versions.py`, `document_versions_resolver` | object versions in the output bucket, manifests, run records | clear outputs, write them, pin and record a run, delete a version | the listing comes after the run; deletion counts references in several calls | deleting one version spares the others and the document |
| Batch jobs, `batch_pre_processor`, `job_completion.py`, `job_tracker`, `api_handler` | the job's `Files` map, `results.zip`, `ResultsReady` | write the map, record a file, build the zip, answer GET | endings in any order, before the map and beside each other; refusals at the gate | the zip is complete; an answer that ends the job is final; the job ends |
| Test runs and sweeper | test-run items | reconcile statuses, cache | throttled updates racing late results | a finished run is finally seen as finished |
| Reprocess, deletion, edits | row, queue, S3 | queue again, delete | a writer while the document is processed | further writers of the lifecycle |
| Configuration versions | config items | save, activate, delete | concurrent editors | no lost revision |

Without concurrent state of their own: the circuit breaker API (authorizes and
forwards), model-calling steps, reporting, agents and chat, web UI, CLI, SDK and
deployment templates. `PROJECT.json` lists each with the reason it is left out,
and, under `hazards`, what is hard to test, line by line, with the property
that would notice it going wrong.

## 2. The modules

| Module | Role |
|---|---|
| `WorkQueue` | abstract: what the queue and its consumers promise about each document |
| `Admission` | the counter, the reconciler, the message and its execution; implements `WorkQueue` |
| `DocumentLifecycle` | one document's row and everybody who writes its status |
| `CircuitBreaker` | the breaker item, its writers and the probe claims |
| `MalwareGate` | one object key at ingest: row, hold, verdict, send and undo |
| `HumanReview` | abstract: what the review queues promise about the reviews of one document |
| `ReviewItem` | the human review of one document, its status object and its sweeper; implements `HumanReview` |
| `BatchJob` | one batch of the Jobs API, its map, zip and answers |
| `DocumentVersions` | the outputs of one document, the records of its runs and their deletion |
| `AdmissionProofs`, `DocumentLifecycleProofs`, `CircuitBreakerProofs`, `MalwareGateProofs`, `ReviewItemProofs`, `BatchJobProofs`, `DocumentVersionsProofs` | what TLAPS proves |
| `MC*` | the model values and symmetry sets of the TLC instances |

A DynamoDB, S3, SQS or Step Functions call is one action; the code between two
calls, which touches nothing shared, belongs to the action before it. An
invocation is a member of a set such as `Invocation`, `Worker` or `Tracker` with
a record of where it is and what it has read. A fault (a call that raises, a
death, a duplicate delivery) is an action guarded by `Fault`, which counts up to
`MaxFaults`. A variable marked "history" is read by no guard: it records what
the properties need to know of the past. Definitions marked "mutant" are not
part of the specifications: each is a plausible mistake in the definition that
follows it, and putting it in its place breaks a property (`mutants` in
`PROJECT.json`).

### Admission

| Variable | In the code |
|---|---|
| `message` | the SQS message: not sent, visible, in flight, deleted |
| `aborted` | documents whose row reads ABORTED before they start |
| `exec` | the execution whose name is derived from the message |
| `released` | the `dec#` marker items |
| `active`, `sample` | `active_count` and the drift-sample attributes of the counter item |
| `pc`, `job`, `reading` | an invocation: where it is, its message, what it has read |
| `deficit` | history: how far below zero the counter was found; 0 is a sound counter |
| `leaked`, `shortfall` | history: slots that nobody will give back; slots taken off the counter while possibly in use |

`Increment`, `HandBack` and `ReleaseSlot` are `update_counter` and the tracker's
transaction; `ReadCounter`, `ListRunning` and one of `ClearSample`,
`RecordSample`, `RestartSample`, `LeaveCounter`, `Correct` are
`reconcile_counter`; `RepairList` and `RepairWrite` are
`_repair_negative_counter`; `ClaimStart`, `StartExecution`, `Acknowledge` are
`start_workflow` and the end of `process_message`. A drift sample is a set of at
most one record, and its age is counted in ticks of one visibility period
(60 s). This is also the Lambda timeout, so no invocation spans a tick, and the
comparison of samples by a timestamp in seconds is a choice for samples of the
same tick. Settings are clamped as at import (`SampleMaxAge`).

### DocumentLifecycle

`status` is `ObjectStatus` and `before` its previous value, which an eventually
consistent read may still return. `queue` is the document's message, `exec`,
`step`, `steps` and `events` its execution, `pc` the queue processor's
invocations and `abort` the calls of `abort_document` with what they read. The
claim (`ClaimStart`), the post-start write refused for ABORTED
(`WriteRunning`), the re-read after a failed one (`AskAborted`), the stop of an
aborted start (`StopAbortedStart`), the conditional and unconditional abort
writes (`AbortWrite`), a step's unconditional status writes (`StepWrites`, once
or more often, and `StepFails`, the FAILED it records before it raises) and the
tracker's terminal write at every delivery (`TrackerWrites`) are single
actions. An execution whose step has failed may retry it and succeed, so a row
that reads FAILED says nothing of the execution by itself. PROCESSING stands for
every status of a step at work. The slot is `Admission`'s: `Refuse` is a message
that got none.

### CircuitBreaker

`item` is the breaker record with timestamps as ages, `plan` the write that a
manager or tracker invocation has decided on and not made yet, `pc` and `lag`
the probe claims and how many windows behind each clock was. `Entering` is
`update_circuit_breaker_state`, `Conclude` the conditional write, and
`TakeSlot`, `OpenWindow`, `NoSlot`, `WindowTaken` the three conditional writes
of a claim.

### MalwareGate

| Variable | In the code |
|---|---|
| `row` | `ObjectStatus`, `MalwareScanVersionId` and `MalwareScanTime` of the key's row; the scan time stands for the upload it judges |
| `uploads`, `result` | the versions of the object and what the scan found |
| `notices`, `verdicts` | Object Created and scan result events under way; both may be repeated (`MaxRepeats`) and overtake each other |
| `worker` | QueueSender's invocations; `pinned` says that the row it read had a version to compare |
| `msgs`, `api` | the document's messages; a reprocess call |
| `credit`, `stranded`, `overtaken` | history |

`RejectUpload`, `HoldUpload`, `CreateQueued` and `SendUpload` are
`handle_object_created`; `ReadForVerdict`, `Admit`, `Refuse`, `SendAdmitted` and
`Revert` are `handle_scan_result`; `LoseTheWrite`, `ClassifyLostWrite` and
`RefuseLate` are `_handle_verdict_condition_failure`. `Process` is the queue
processor's write of RUNNING, and the three reprocess actions are the status
check, the row and the message of `reprocess_document`.

### ReviewItem

| Variable | In the code |
|---|---|
| `item` | the ITEM in HITLTable: state, cycle, the execution that holds it, disposition, finalize attempt |
| `current` | the invocations whose reading of the item still has its stored `Version`; a write empties the set |
| `obj` | `review/status.json` |
| `exec` | the executions, phase-1 runs `<<n, 0>>` and finalize runs `<<cycle, attempt>>`, whose name is the finalize token |
| `msgs`, `events` | finalize messages, and terminal events on their way to the tracker |
| `tr`, `sw`, `api` | the tracker's invocations, the sweeper, an abort or reprocess |

`Route*` are `route_for_review` in the ProcessResults step, `Tracker*` are
`load_context` and `after_completion`, `Claim`, `Release`, `Dispose` and
`Repoint` the operations of `service.py`, and each `Sweeper*` one branch of
`_visit_holding` or `_visit_finalizing`. The order within a branch is the
code's: the tracker publishes before it moves the item, a disposition is
written before its message is sent, a withdrawal precedes the deletion of the
object. A finalize run finds its review by the Default queue's definition or, with
the queue or HITL off, by the item alone. A read that fails there is swallowed
and the run goes on as one without a review (`RouteUnread`, a fault); the tracker,
which goes by the execution's token, closes the review all the same.

### BatchJob

`pre` is the pre-processor, `run` the documents its uploads become and how each
ended, `files`, `zip` and `ready` the job's `Files`, `results.zip` and
`ResultsReady`, `tracker` JobTracker's invocations and `refusals`, `delegates`,
`asked` the gate's part. `disturbed` (history) is set when the map is written over
what was there, when a hold's event replaces an ending, or when a file is listed
as failed beside a run of an earlier attempt; `untold` when an ending never
reaches the job or the rejection of the batch cannot be recorded. `SetStatus` is
`update_file_status`, which returns the whole map after the write, so that exactly
one writer sees the last file end. `ListOutputs`, `PutZip` and `MarkResultsReady`
are `create_results_zip` and what follows.

The rows of the documents, which have a module of their own, are not followed:
GET reads those of the files in progress, and `RowStatuses` says what each may
read, at any time and in any order. It may be FAILED or ABORTED, and then no longer,
while the execution goes on; only COMPLETED needs a run that ended so. `Readings`
are the ways the rows can be read together and `Answers` what GET may answer, read
as one moment: properties speak of all of them.

### DocumentVersions

`bucket` has every version ever written of each output object, oldest first, and
`removed` those that were deleted by their version id; what a read without one
finds (`Current`) is the last that is still kept. Each run writes an output once,
so a version is known by its run, and 0 is a delete marker.
`Begin` and `Purge` are the clearing of outputs before a run (an upload clears
the pages, a reprocess all outputs, an edit those of the changed sections),
`WriteOutput` a step of the run or OCR's recovery of a page that is there
already. `TrackerLists`, `TrackerPins` and `TrackerRecords` are
`record_document_run`; `AskToDelete` to `DeleteRecord` are
`delete_document_version`, with one action for each manifest it reads. Its guard
reads the record and then lists all of them, neither read consistently: each may
find what was there `before` the last write of a record, so that the newest
record can be missed.

### How they fit together

The modules meet at few points, and each stands in for its neighbours by what
they may do there.

| Module | Stands in for | By |
|---|---|---|
| `Admission` | `DocumentLifecycle`, `CircuitBreaker` | `aborted`; `RefuseBeforeSlot` |
| `DocumentLifecycle` | `Admission` | `Refuse` |
| `MalwareGate` | `Admission`, `DocumentLifecycle` | `Process` |
| `ReviewItem` | the queue processor and the state machine | `StartFinalize`, `Upload`, `EndRun` |
| `BatchJob` | `DocumentLifecycle`, `MalwareGate`, `ReviewItem` | `EndRun`, `RefuseAtGate`, `HoldForReview` |
| `DocumentVersions` | the runs, whichever way they were queued | `Begin`, `Succeed`, `FailRun` |

`Admission` implements `WorkQueue`, and `ReviewItem` implements `HumanReview`:
its item is read as the stage of the review last begun, and each finalize
execution as one attempt. A composed module of `Admission` and
`DocumentLifecycle` over one queue processor is in the plan.

## 3. What TLC checks

| Run | Instance | Shows |
|---|---|---|
| `admission` | 2 documents, 2 invocations, 1 slot, a counter found at 0 or -1, 2 deliveries of each event, 1 fault; 451 k states | accounting, bounded understatement, cap, refinement of `WorkQueue`, no step below zero, and that intake recovers from every leak |
| `lifecycle` | 2 invocations, 2 aborts, 2 steps, 2 deliveries, 1 fault; 1.52 M states | aborts, one execution, honest status, and that an aborted execution is stopped |
| `breaker` | 2 claimers, a manager, the schedule, a tracker, budget 2; 262 k states | budget per window, episode timing, outages kept, no state for ever |
| `gate` | 2 uploads, 2 invocations, 2 repeats, 1 fault, scanning on and off; 1.22 M states | a queued row has its message, one message per hold, refusals land and stay, a held document is decided |
| `review` | 2 runs, 2 cycles of 2 attempts, 1 fault; 825 k states | refinement of `HumanReview`, one finalize run at a time, backed statuses, the object follows the item, forward moves, no review lost |
| `batch` | 2 files, 3 uploads, 2 JobTracker invocations, 1 fault; 320 k states | complete zip, final answers, the job ends |
| `versions` | 3 runs, a page and another output, 2 trackers, 2 deletions, 1 fault; 1.27 M states | a deletion spares the other versions and the document |
| `admission_overadmit`, `lifecycle_queued_abort`, `review_stuck_hold`, `batch_early_zip`, `versions_bytes` | no fault | where the code does not do what a text says: section 5 |

**Properties.** `SlotsAreAccountedFor` equates the counter with claimers,
unreleased executions and leaks as long as nothing was taken off it;
`UnderstatementIsBounded` and `CapHolds` say what remains once the reconciler
has corrected: the ceiling gives way by what was taken off beyond the leaks and
by nothing else. `StartsOnceOrIsDropped` is the refinement of `WorkQueue`: a
document is started at most once and leaves the queue without a start only if it
was aborted. `EarlyAbortPreventsStart`, `AbortedRunIsBeingStopped` and
`AcceptedAbortBeatsTheStart` cover an abort before the claim, while a starter is
still there, and after it is gone. `StatusFollowsExecution` says which statuses
presume that the execution began, succeeded or failed, with a step's FAILED
excepted as long as its execution has not succeeded and been heard of.
`QueuedHasAMessage` relates the row to the queue across every failure of the
two-step admission, `QueuedOncePerHold` counts the messages verdicts send
against the times the gate was closed, and `OwnRefusalLands` and
`RefusalIsFinal` are the two halves of "a refused file is not processed".
`FinalizedInTurn` is the refinement of `HumanReview`: attempts at a review are
made in order, the next one when all before it have failed, corrections are
applied, or by a failed read missed, only for a review that still waits for
them, and a review ends as its attempts did. `OneFinalizeAtATime` protects the
corrections of a review from being applied by two executions,
`ClosedByItsFinalizeRun` and `FinalStatusNeedsAFinalRun` tie what readers see to
an attempt at that very review that was routed while it waited and ran to its
end (not to its corrections having been applied, which a swallowed read can
prevent), and `ObjectSpeaksForTheReview` ties `status.json` to the item.
`ZipHoldsEveryResult`, `AnswerIsFinal` and `JobEnds` are the three promises of
the Jobs API; an answer is final when it sends the caller to the results, or is
a FAILED made of the map alone. `DeletionSparesOtherVersions` and
`DeletionSparesTheDocument` say that counting references while failed runs and
half-done deletions have left their traces never deletes what is still needed.

Several of them name the case the code does not cover, in a history variable:
`abandoned` (a failed post-start write or stop), `stranded` (a crash between row
and message), `overtaken` (a verdict taken before its upload's event), `late`
(a status object written for a review that has ended), `untold` and `disturbed`
(an ending or a rejection that never reaches the job; a map entry taken back). In
`DocumentVersions` `disturbed` is set when a run is pinned while another one is
under way, when two deletions cross, or when a late read lets the newest record
itself pass the guard. The runs of `BatchJob` and
`DocumentVersions` explore no further once it is set (`CONSTRAINT Undisturbed`):
it stays set, and the properties promise nothing then, so that no behaviour
they speak of is cut off.

**Bounds and why they are enough.** Two invocations give every pairwise race on
the counter, the sample, the row, the map and the manifests. One fault suffices
for each single failure; interleaved with duplicate deliveries it reaches
refunds, leaks and underflows. For versions two faults were checked as well,
with one tracker (2.2 M states): a deletion that stopped half-way matters to the
next one, which may stop too. A late read of the status or of the run records is
at most one write behind, for as long as no further one comes. `Grace` of one
tick makes two looks a grace period apart and a stale sample both reachable, and
a margin of 1 in the listing both of its outcomes. For the breaker a budget of 2
is the least with which a probe joins an open window, and a claim that is slower
than a tick meets a window newer than its own; the proof removes the lag's
bound. Two uploads of a key let each verdict meet the other's row, and two
repeats let both kinds of event be repeated, or one beside a reprocess. Two
cycles let a late writer of the first review meet the second, and two attempts
let a retry fail. Three uploads of two files let one file be uploaded twice.
Three runs let a version be shared by two records while a third is the current
one.

**Fairness.** All of it is weak fairness, per actor unless said otherwise.
Admission: SQS delivers a visible message, a live invocation goes on to its next
call, an execution ends (the state machine has `TimeoutSeconds`), and time
passes. The tracker has none: every terminal event may be lost, and intake
resumes through the reconciler alone. Lifecycle: invocations and abort calls run
on; an execution need not end by itself, so that the stop is due to the code.
Breaker: the health check is scheduled every five minutes, writes conclude and
time passes; alarms, operators and successes may never come. Gate: invocations
run on, scans finish, and EventBridge delivers a verdict until it is handled
(its retries are not counted). Review: executions end and the queue hands out
its messages (one condition), events under way are handled and the sweeper runs
(one condition, since the sweeper leaves an item alone until its recheck time,
when what was under way is over); nothing is asked of reviewers, of an abort or
of a reprocess. Batch: a single condition, that while the pre-processor, the
gate or JobTracker can go on, or an event can be delivered, one of these
happens; a document need not end. SQS's 500 receives before the dead-letter
queue are not counted either.

**Deadlock** is off in every configuration: arrivals, deliveries, aborts and
faults are bounded, and a system whose documents are all settled comes to rest.

## 4. What is proved

For every number of messages, invocations, callers, slots, steps, deliveries,
processes and faults, and any budget, window length, timeout and lag of the
clocks, from `AdmissionAssumption`, `LifecycleAssumption`,
`BreakerAssumption`, `GateAssumption`, `ReviewAssumption`, `BatchAssumption` and
`VersionsAssumption` (finite sets, positive settings).

`AdmissionProofs`

| Theorem | States |
|---|---|
| `TypeCorrect` | `TypeOK`; with it, a counter that starts at zero stays at or above zero |
| `Invariance` | `IInv` is inductive |
| `SlotAccounting`, `BoundedUnderstatement`, `CounterCeiling`, `ConcurrencyCap` | `SlotsAreAccountedFor`, `UnderstatementIsBounded`, `CounterBelowCeiling`, `CapHolds` |
| `NoLoss` | `NoMessageLost` |
| `NonNegativeDecrease` | `NeverDrivenNegative`, an action property |
| `Implementation` | `Spec => Promise!Spec`: the refinement of `WorkQueue` |

`IInv == TypeOK /\ Settled /\ Books`. `Settled`: a marker belongs to an ended
execution; whoever is about to delete a message has seen an execution or an
abort, without which `NoMessageLost` is not inductive. `Books`: the sums over
claimers, unreleased executions and leaks; a repair is under way only if the
counter was owed slots, without which the repair's write could break the lower
bound; and `TakenWithinCeiling`, because the cap on running executions follows
from one on all taken slots, which alone is preserved when a claim becomes an
execution. Each action changes one of the counted sets by one element, and
lemmas on cardinalities turn that into arithmetic.

`DocumentLifecycleProofs`

| Theorem | States |
|---|---|
| `TypeCorrect`, `Invariance` | `TypeOK`, and that `IInv` is inductive |
| `OneStart` | `OneExecution` |
| `HonestStatus` | `StatusFollowsExecution` |
| `EarlyAbort`, `RunBeingStopped`, `AcceptedAbort` | the three abort properties |

`IInv == TypeOK /\ Execution /\ Aborts`. `Execution`: an invocation past the
start, an outstanding step and every copy of a started status (the row, its
previous value and what an abort call has read) imply that the execution was
created, and an execution that has succeeded has no step left that could write
(`EndsAfterItsSteps`; without it a step's FAILED could outlive the success).
`Aborts`: a call about to write ABORTED unconditionally has stopped
the execution or has failed to (`StoppedBeforeWriting`); a run whose row reads
QUEUED *or* ABORTED still has its starter (`RunHasItsStarter`; with ABORTED
alone it is not inductive, since a conditional abort turns QUEUED into
ABORTED); and an accepted abort stands until a step or the end of the run
overwrites it.

`CircuitBreakerProofs`

| Theorem | States |
|---|---|
| `TypeCorrect`, `Invariance` | `TypeOK`, and that `IInv` is inductive |
| `ProbeBudget` | `BudgetPerWindow` |
| `EpisodeTiming` | `EpisodeIsNotOvertimed` |
| `OutageNotClobbered` | `OutageIsNotClobbered`, an action property |

`IInv == TypeOK /\ WindowBooks /\ PlansAreModest /\ EpisodeIsNotOvertimed`. That
a window hands out no more than the budget is not inductive: a claim that opens
a window must find it unused. `WindowBooks` adds that no window newer than the
recorded one has been used, and that the recorded count is no less than what
its window granted.
`PlansAreModest`: only a tracker means to close, and it expects HALF_OPEN, which
is what keeps a success from overwriting an outage.

`MalwareGateProofs`

| Theorem | States |
|---|---|
| `TypeCorrect` | `TypeOK` |
| `RefusalStays` | `RefusalIsFinal`, an action property |
| `RefusalLands` | `OwnRefusalLands`, an action property |
| `QueuedOnce` | `QueuedOncePerHold` |
| `QueuedIsServed` | `QueuedHasAMessage` |

Three invariants, each inductive over the types `TInv`. `TInv` adds to the types
what an invocation knows: a verdict in hand has its scan result, a held row its
version, and only a refusal is applied late. `CreditCovers`: the closings of the
gate not yet used up by a message are at least as many as the invocations that
carry an admission, plus the gate if it is closed; without the invocations, two
verdicts could both have admitted one hold. `HasMessage`: a QUEUED row without a
message has somebody about to send one, and who that is depends on whether the
row was queued by its creation or by a verdict.

`ReviewItemProofs`

| Theorem | States |
|---|---|
| `TypeCorrect`, `Invariance` | `TypeOK`, and that `IInv` is inductive |
| `OneFinalize` | `OneFinalizeAtATime` |
| `ClosedByRun` | `ClosedByItsFinalizeRun` |
| `FinalStatus` | `FinalStatusNeedsAFinalRun` |
| `ObjectSpeaks` | `ObjectSpeaksForTheReview` |
| `ForwardOnly` | `MovesForward`, an action property |
| `Implementation` | `Spec => Promise!Spec`: the refinement of `HumanReview` |

First the many actions are reduced to a few moves: of the item (`ItemMoves`),
of an execution (`ExecMoves`), of each reader. That they are few rests on
`Readings`: a reader whose version is still the stored one holds the item as it
is. The other parts of `IInv` follow two things. The tokens: one is issued only
when every earlier attempt has failed (`InOrder`) and when the item has come to
it (`OncePerReview`), which it never does twice (`NeverAnew`); and while the
item waits for an execution, that one is routed for the review, or by a failed
read past it, and as nothing else (`RoutedForReview`). The readers: what a
tracker has loaded still holds of an item that is still its own (`Knows`), and
who is about to delete `status.json` has withdrawn its review (`Clearing`).
`OpenedAfterItsRun` excludes that the step of a phase-1 run holds a review again
that has been opened. For the refinement, each move of the item is one step of
`HumanReview` or none and moves no attempt (`StageMoves`, `ItemAlone`), and each
move of an execution is one step of its attempt (`AttemptMoves`).

`BatchJobProofs`

| Theorem | States |
|---|---|
| `TypeCorrect`, `Invariance` | `TypeOK`, and that `IInv` is inductive |
| `EveryResult` | `ZipHoldsEveryResult` |
| `FinalAnswer` | `AnswerIsFinal`, an action property |

`IInv` follows one file at a time. `Beginning`: before the batch starts, and after
its rejection, nothing has happened to any document, and while the map is empty
nobody builds a zip. `EventsSpeak`, `RefusalSpeaks` and `OutputsSpeak`: an event, a
refusal and the outputs each agree with how a run of the file ended. That a run
does not end twice (`ClosedStays`) takes the place of trust in the row, of which
nothing is assumed but `RowStatuses`. `Mapped` and `Zipped`: while the map lacks a
file's ending, no invocation is building a zip; once it has it, every zip in the
making and the one that is announced hold the file's output. This is what makes
the invocation that records the last ending, whichever it is, find all the
others. An answer with results needs the flag, the flag a zip, and that a map of
endings, of which GET makes one answer whatever the rows read (`OneAnswer`). The
proof met a case the instance with one fault does not reach: a retried
pre-processor whose second upload of a file fails lists as FAILED a file that is
being processed. The properties now name it, as part of `disturbed`, and all
three were checked with two faults as well (1.95 M states, close to a run's
five minutes).

`DocumentVersionsProofs`

| Theorem | States |
|---|---|
| `TypeCorrect`, `Invariance` | `TypeOK`, and that `IInv` is inductive |
| `SparesOthers` | `DeletionSparesOtherVersions` |
| `SparesTheDocument` | `DeletionSparesTheDocument`, an action property |

`IInv == TInv /\ (~disturbed => Quiet /\ PastInv)`: as in the properties, nothing is
promised once a run was pinned beside another, two deletions crossed or a late
read let the newest record pass the guard. `PastInv`: what a late read still finds
is recorded or was deleted, so that any other record that passes has a newer one
beside it. `TrackedInv`: a
run that was listed, pinned, recorded or deleted is over, with every run before
it, and later ones rank higher, so that the newest record is the latest run
recorded. `FreshInv`: what a tracker listed, or pinned, is what is there as long
as no later run has begun. `PinsInv` is the core: a manifest pins, of each
output, whatever is on top now and is not younger than its run. So a version on
top that an older run pins is pinned by every later manifest too, and
`DeletionInv`, by which a deletion has a newer record beside it and whatever it
still means to remove of other pins is pinned by a manifest it has yet to load,
lets it never reach what is on top. The last of the kept versions exists by the
well-foundedness of the natural numbers (`LastExists`).

The invariants were model-checked before they were proved.

**Only model-checked:** the liveness properties `IntakeNeverWedges`,
`AbortedRunIsStopped`, `NoStateIsFinal`, `HeldIsDecided`, `ReviewMovesOn` and
`JobEnds`, since liveness under fairness and ENABLED are beyond this prover. Every
other property of a passing run is a theorem. No module declares a RECURSIVE
operator, and nothing so far needs an induction over data, which is beyond the
prover as well.

## 5. Where code and text differ

Each is a run that finds the violation, in a behaviour without any fault.

1. `admission_overadmit`. docs/monitoring.md names a hand-back as the one way
   past the ceiling. Two looks of the reconciler can each catch a *different*
   invocation between its increment and its StartExecution, so an honest counter
   is lowered, and one execution too many runs.
2. `lifecycle_queued_abort`. Aborting a QUEUED document "cannot lose a race";
   the first step of the execution may erase ABORTED before the post-start
   update looks for it.
3. `review_stuck_hold`. A finalize execution whose review was withdrawn before
   its ProcessResults step is routed as a fresh run and holds the document for
   itself; the tracker takes its event for that of a finalize run and drops it,
   as often as the sweeper replays it.
4. `batch_early_zip`. The pre-processor writes the whole `Files` map after its
   uploads have started documents. A file that ends before completes the map as
   it is then, and after the write the job answers SUCCEEDED with a zip from
   before the other files ended.
5. `versions_bytes`. A recorded version "returns that run's exact bytes"; the
   versions are listed when the terminal event is handled, which may be after
   the next upload or reprocess has cleared outputs or written new ones.

Further observations:

- A reconciliation of a negative counter is skipped when a second increment
  lands first, and that one returns a positive value and starts no repair
  (queue_processor/index.py:737), although docs/monitoring.md:221-223 says it is
  corrected within one admitted document.
- The "rolling 60-second window" of probes (docs/circuit-breaker.md:36) is a
  fixed bucket of the clock (queue_processor/index.py:1003): twice the budget
  fits across its boundary.
- The tracker is called the "LAST writer" for the execution
  (workflow_tracker/index.py:280); the post-start update or a step can write
  RUNNING or its own status after it.
- The refusal of an older upload that is handled after the newer upload's verdict
  has admitted the document replaces that decision (queue_sender/index.py:1335).
  The comment there wants a detection to win over whatever moved the row; the one
  at 1297-1298 lets the newer upload's own verdict decide.
- A post-start update that fails for another reason than its condition leaves
  QUEUED beside a running execution, and a later abort of that document stops
  nothing; an abort decided on a stale RUNNING overwrites a COMPLETED written
  since.
- The breaker's writes compare the state alone, so that a delayed reopening can
  end the next half-open episode early.
- A step that raises records FAILED first, whether or not its execution retries it
  (ocr_function/index.py:304, summarization_function/index.py:135-139). Readers of
  the row see a failure that is taken back, and GET on a job may answer FAILED and
  later SUCCEEDED.
- With HITL or the Default queue off, or its definition not readable, a finalize
  run whose read of the item fails is processed as a document without a review
  (routing.py:63-65, 80-83). It succeeds, the tracker publishes the final status
  and closes the item, and the reviewer's corrections are in none of the results.
- The rejection of a batch is written once, and a failure of that write is only
  logged (batch_pre_processor/index.py:246-250): the job stays PENDING_UPLOAD,
  which the comment at 97-99 means to prevent.
- "The current version cannot be deleted" (docs/document-versions.md:116), but the
  guard lists the records by an eventually consistent query
  (dynamodb/service.py:2261-2272): a direct call that finds a run just recorded,
  and misses it in the list, deletes the document's current outputs for good.
- A document that ends REDACTED_SUPERSEDED makes `finalize_job_file` raise at
  every delivery, and its job never ends (job_completion.py:114-121).
- Two deletions of versions that cross, with a newer run recorded in between, can
  delete what a retained version pins: each leaves out what the other's manifest
  still references and neither sees the third. A redelivered event writes its
  manifest again from what is current then.

## 6. Plan

Built: 1. `WorkQueue`, `Admission` with proofs; 2. `DocumentLifecycle` with
proofs; 3. `CircuitBreaker` with proofs; 4. `MalwareGate` with proofs;
5. `ReviewItem`, implementing
`HumanReview`, with proofs; 6. `BatchJob` with proofs; 7. `DocumentVersions` with
proofs.

Next:

- proofs: what follows from the invariants beside the properties TLC checks, such
  as the cap and the accounting across the composed module below;
- a composition of `Admission` and `DocumentLifecycle` over one queue processor;
- test runs and their sweeper; configuration profiles and revisions; the
  deletion of documents.

## 7. Not modelled

Contents of documents, model answers, configuration values other than the
limits above, authorization, reporting, metrics and wording of errors. OCR,
classification, extraction, assessment, evaluation and summarization call models
and shape their answers: data with little control that a model checker could
explore, and by far the largest part of the code. The state machine's graph is
reduced to steps that write a status and an end.

Left out of the modelled parts:

- queue processor: the configuration routing, the longer visibility it gives to
  a message refused by an open breaker, the dead-letter queue, and the negative
  branch of `reconcile_counter`, which needs a ceiling of zero or below;
- tracker: reporting data, the deletion of superseded originals, metrics; the
  batch form of the abort;
- gate: the tenant boundary at verdict time, which is a refusal of another
  name, the configuration a document gets, identifiers of two kinds, and a
  verdict event that runs out of attempts;
- review: claim counters and leases, drafts, notices, the registry and the
  legacy flow; a review held after an ended one starts at Version 1 again, and
  that a reader sleeps through a whole phase-1 run and meets its old number is
  left out;
- batch: creation of jobs and upload URLs, expiry, colliding file names; FAILED
  stands for ABORTED and REJECTED in the map; a rejected batch whose event is
  delivered again;
- versions: two runs that end in the same second, `VersionCount` (best effort),
  a `delete_objects` answer with errors (ignored by the code, it leaves bytes
  behind), expiry of old versions, which sections an edit clears.

## 8. Running it

    tlc -config Admission.cfg MCAdmission.tla
    tlc -config Lifecycle.cfg MCDocumentLifecycle.tla
    tlc -config Breaker.cfg MCCircuitBreaker.tla
    tlc -config Gate.cfg MCMalwareGate.tla
    tlc -config Review.cfg MCReviewItem.tla
    tlc -config Batch.cfg MCBatchJob.tla
    tlc -config Versions.cfg MCDocumentVersions.tla
    tlapm AdmissionProofs.tla
    tlapm DocumentLifecycleProofs.tla
    tlapm CircuitBreakerProofs.tla
    tlapm MalwareGateProofs.tla
    tlapm ReviewItemProofs.tla
    tlapm BatchJobProofs.tla
    tlapm DocumentVersionsProofs.tla

`PROJECT.json` names the configuration of every run.
