------------------------------ MODULE Admission ------------------------------
(***************************************************************************)
(* Admission of queued documents under MaxConcurrentWorkflows.             *)
(*                                                                         *)
(* Many invocations of the queue processor take messages from DocumentQueue*)
(* and share one item of ConcurrencyTable: the counter active_count and,   *)
(* next to it, the drift sample of the reconciler.  An invocation takes a  *)
(* slot (increment), confirms the document was not aborted, starts the     *)
(* execution named after the message, and deletes the message.  The        *)
(* workflow tracker gives the slot back when the execution's terminal      *)
(* event arrives.  Every DynamoDB, SQS and Step Functions call is one      *)
(* action here, and an invocation can die between any two of them.         *)
(*                                                                         *)
(* Time is a tick of one visibility period (60 s), which is also the       *)
(* Lambda timeout, so that no invocation outlives the grace period between *)
(* two samples: a tick falls between invocations, never inside one.  Ages  *)
(* are in ticks.  The document's tracking row is reduced here to "aborted";*)
(* module DocumentLifecycle has the row.                                   *)
(***************************************************************************)
EXTENDS Integers, FiniteSets

CONSTANTS
  Message,           \* the messages of DocumentQueue, one document each
  Invocation,        \* the concurrent invocations of the queue processor
  None,              \* the message of an idle invocation
  MaxConcurrent,     \* MAX_CONCURRENT
  Grace,             \* RECONCILE_GRACE_SECONDS, in ticks
  ConfiguredMaxAge,  \* RECONCILE_SAMPLE_MAX_AGE_SECONDS as configured
  ListMargin,        \* executions counted beyond MAX_CONCURRENT
  MaxDeliveries,     \* bound: deliveries of one terminal event
  MaxFaults,         \* bound: environment faults in a behaviour
  Deficits           \* how far below zero the counter may be found

ASSUME AdmissionAssumption ==
  /\ IsFiniteSet(Message)
  /\ IsFiniteSet(Invocation)
  /\ None \notin Message
  /\ MaxConcurrent \in Nat \ {0}
  /\ Grace \in Nat \ {0}
  /\ ConfiguredMaxAge \in Nat
  /\ ListMargin \in Nat
  /\ MaxDeliveries \in Nat
  /\ MaxFaults \in Nat
  /\ Deficits \subseteq Nat

VARIABLES
  message,     \* where each message is
  aborted,     \* the documents whose row reads ABORTED
  exec,        \* the execution named after each message
  released,    \* the executions with a decrement marker
  deliveries,  \* deliveries of each terminal event so far
  active,      \* active_count
  sample,      \* the drift sample: at most one element
  pc,          \* where each invocation is
  job,         \* the message each invocation handles
  reading,     \* what a reconcile or a repair has read
  faults,      \* faults so far
  leaked,      \* history: slots whose claimer died or could not hand back
  shortfall,   \* history: slots the counter was made to under-state
  deficit      \* history: how far below zero the counter was found

queueVars == <<message, aborted, exec>>
trackerVars == <<released, deliveries>>
counterVars == <<active, sample>>
localVars == <<pc, job, reading>>
historyVars == <<faults, leaked, shortfall, deficit>>
vars == <<queueVars, trackerVars, counterVars, localVars, historyVars>>

-----------------------------------------------------------------------------
(* The import-time clamp: a sample must be able to mature before it is     *)
(* discarded as stale.                                                     *)
UnclampedMaxAge == ConfiguredMaxAge          \* mutant: the clamp is missing

SampleMaxAge ==
  IF ConfiguredMaxAge < 2 * Grace THEN 2 * Grace ELSE ConfiguredMaxAge

Larger(a, b) == IF a >= b THEN a ELSE b

Sample == [age : Nat, running : Nat]
Reading == [active : Int, sample : SUBSET Sample, running : Nat]
NoReading == [active |-> 0, sample |-> {}, running |-> 0]

(* Program points at which an invocation owns a slot.                      *)
HoldingPoints ==
  {"repair", "repairing", "claimed", "cleared", "refund", "refund_ack"}
PC == {"idle", "gate", "refused", "listing", "deciding", "retry", "acking"}
        \cup HoldingPoints

Holders == {i \in Invocation : pc[i] \in HoldingPoints}
Running == {m \in Message : exec[m] = "running"}
Unreleased == {m \in Message : exec[m] # "none" /\ m \notin released}

TypeOK ==
  /\ message \in [Message -> {"unsent", "visible", "invisible", "deleted"}]
  /\ aborted \subseteq Message
  /\ exec \in [Message -> {"none", "running", "ended"}]
  /\ released \subseteq Message
  /\ deliveries \in [Message -> 0..MaxDeliveries]
  /\ active \in Int
  /\ deficit = 0 => active >= 0
  /\ sample \in SUBSET Sample
  /\ pc \in [Invocation -> PC]
  /\ job \in [Invocation -> Message \cup {None}]
  /\ \A i \in Invocation : pc[i] # "idle" => job[i] \in Message
  /\ reading \in [Invocation -> Reading]
  /\ faults \in 0..MaxFaults
  /\ leaked \in Nat
  /\ shortfall \in Nat
  /\ deficit \in Nat

Init ==
  /\ message = [m \in Message |-> "unsent"]
  /\ aborted = {}
  /\ exec = [m \in Message |-> "none"]
  /\ released = {}
  /\ deliveries = [m \in Message |-> 0]
  /\ sample = {}
  /\ pc = [i \in Invocation |-> "idle"]
  /\ job = [i \in Invocation |-> None]
  /\ reading = [i \in Invocation |-> NoReading]
  /\ faults = 0
  /\ leaked = 0
  /\ deficit \in Deficits
  /\ shortfall = deficit
  /\ active = -deficit

-----------------------------------------------------------------------------
(* Moves of an invocation.                                                 *)
GoTo(i, point) ==
  /\ pc' = [pc EXCEPT ![i] = point]
  /\ UNCHANGED <<job, reading>>

GoToWith(i, point, r) ==
  /\ pc' = [pc EXCEPT ![i] = point]
  /\ reading' = [reading EXCEPT ![i] = r]
  /\ UNCHANGED job

Finish(i) ==
  /\ pc' = [pc EXCEPT ![i] = "idle"]
  /\ job' = [job EXCEPT ![i] = None]
  /\ reading' = [reading EXCEPT ![i] = NoReading]

Fault ==
  /\ faults < MaxFaults
  /\ faults' = faults + 1

Delete(m) == message' = [message EXCEPT ![m] = "deleted"]

-----------------------------------------------------------------------------
(* The queue.  A received message is hidden until the next tick.           *)
Arrive(m) ==
  /\ message[m] = "unsent"
  /\ message' = [message EXCEPT ![m] = "visible"]
  /\ UNCHANGED <<aborted, exec, trackerVars, counterVars, localVars, historyVars>>

(* SQS is at-least-once: it may hand out a message it has not hidden.      *)
DeliverTwice(m) ==
  /\ message[m] = "invisible"
  /\ Fault
  /\ message' = [message EXCEPT ![m] = "visible"]
  /\ UNCHANGED <<aborted, exec, trackerVars, counterVars, localVars, leaked, shortfall, deficit>>

Receive(i, m) ==
  /\ pc[i] = "idle"
  /\ message[m] = "visible"
  /\ message' = [message EXCEPT ![m] = "invisible"]
  /\ pc' = [pc EXCEPT ![i] = "gate"]
  /\ job' = [job EXCEPT ![i] = m]
  /\ UNCHANGED <<reading, aborted, exec, trackerVars, counterVars, historyVars>>

(* A user aborts a document that has not started; an abort of a running    *)
(* one ends its execution and is DocumentLifecycle's.                      *)
Abort(m) ==
  /\ m \notin aborted
  /\ message[m] # "deleted"
  /\ exec[m] = "none"
  /\ aborted' = aborted \cup {m}
  /\ UNCHANGED <<message, exec, trackerVars, counterVars, localVars, historyVars>>

(* One visibility period passes.                                           *)
Older(s) == [s EXCEPT !.age = IF @ > SampleMaxAge THEN @ ELSE @ + 1]

Tick ==
  /\ \A m \in Message : message[m] # "visible"
  /\ \A i \in Invocation : pc[i] = "idle"
  /\ message' = [m \in Message |->
                   IF message[m] = "invisible" THEN "visible" ELSE message[m]]
  /\ sample' = {Older(s) : s \in sample}
  /\ UNCHANGED <<aborted, exec, trackerVars, active, localVars, historyVars>>

-----------------------------------------------------------------------------
(* process_message up to the slot.                                         *)

(* The first read finds the document ABORTED.  The read is eventually      *)
(* consistent, so an aborted document may also go on to the counter.       *)
SkipAborted(i) ==
  /\ pc[i] = "gate"
  /\ job[i] \in aborted
  /\ Delete(job[i])
  /\ Finish(i)
  /\ UNCHANGED <<aborted, exec, trackerVars, counterVars, historyVars>>

(* The breaker refuses the message, or a call before the slot raises.      *)
RefuseBeforeSlot(i) ==
  /\ pc[i] = "gate"
  /\ Fault
  /\ Finish(i)
  /\ UNCHANGED <<queueVars, trackerVars, counterVars, leaked, shortfall, deficit>>

(* The conditions of the two directions of update_counter.                 *)
SlotOrOneMore == active <= MaxConcurrent     \* mutant: off by one
SlotFree == active < MaxConcurrent

Unfloored == active - 1                      \* mutant: no floor at zero
Decremented == IF active > 0 THEN active - 1 ELSE active

(* update_counter(increment=True).  The value it returns is the only place *)
(* a negative counter is noticed.                                          *)
Increment(i) ==
  /\ pc[i] \in {"gate", "retry"}
  /\ SlotFree
  /\ active' = active + 1
  /\ IF active + 1 <= 0
       THEN GoToWith(i, "repair", [NoReading EXCEPT !.active = active + 1])
       ELSE GoToWith(i, "claimed", NoReading)
  /\ UNCHANGED <<queueVars, trackerVars, sample, historyVars>>

RefuseIncrement(i) ==
  /\ ~SlotFree
  /\ \/ pc[i] = "gate" /\ GoTo(i, "refused")
     \/ pc[i] = "retry" /\ Finish(i)
  /\ UNCHANGED <<queueVars, trackerVars, counterVars, historyVars>>

-----------------------------------------------------------------------------
(* reconcile_counter: a consistent read, ListExecutions, and one write.    *)
(* (A negative read needs MaxConcurrent <= 0 and is left out.)             *)
ReadCounter(i) ==
  /\ pc[i] = "refused"
  /\ IF active = 0
       THEN Finish(i)
       ELSE GoToWith(i, "listing",
                     [active |-> active, sample |-> sample, running |-> 0])
  /\ UNCHANGED <<queueVars, trackerVars, counterVars, historyVars>>

(* _count_running_executions gives up beyond the ceiling plus a margin.    *)
Countable == Cardinality(Running) <= MaxConcurrent + ListMargin

ListRunning(i) ==
  /\ pc[i] = "listing"
  /\ IF Countable
       THEN GoToWith(i, "deciding",
                     [reading[i] EXCEPT !.running = Cardinality(Running)])
       ELSE Finish(i)
  /\ UNCHANGED <<queueVars, trackerVars, counterVars, historyVars>>

ListFails(i) ==
  /\ pc[i] = "listing"
  /\ Fault
  /\ Finish(i)
  /\ UNCHANGED <<queueVars, trackerVars, counterVars, leaked, shortfall, deficit>>

Drift(r) == r.running < r.active
Fresh(s) == s.age < Grace
Stale(s) == s.age > SampleMaxAge
Target(r, s) == Larger(r.running, s.running)

(* The sample item is compared by its timestamp, in seconds: samples of    *)
(* one tick may or may not share it.                                       *)
MaySwap(s) == \E t \in sample : t.age = s.age
MayMiss(s) == sample # {s}

(* The sample that a write replaces only if it is still the one read.      *)
SwapSample(s, new) ==
  \/ MaySwap(s) /\ sample' = new
  \/ MayMiss(s) /\ UNCHANGED sample

(* No drift: withdraw the suspicion that was read.                         *)
ClearSample(i) ==
  /\ pc[i] = "deciding"
  /\ ~Drift(reading[i])
  /\ IF reading[i].sample = {}
       THEN UNCHANGED sample
       ELSE \E s \in reading[i].sample : SwapSample(s, {})
  /\ Finish(i)
  /\ UNCHANGED <<queueVars, trackerVars, active, historyVars>>

(* First sight of drift: record it, unless another invocation just did.    *)
RecordSample(i) ==
  /\ pc[i] = "deciding"
  /\ Drift(reading[i])
  /\ reading[i].sample = {}
  /\ sample' = IF sample = {}
                 THEN {[age |-> 0, running |-> reading[i].running]}
                 ELSE sample
  /\ Finish(i)
  /\ UNCHANGED <<queueVars, trackerVars, active, historyVars>>

(* The sample belongs to an earlier episode: start the clock again.        *)
RestartSample(i) ==
  /\ pc[i] = "deciding"
  /\ Drift(reading[i])
  /\ \E s \in reading[i].sample :
       /\ Stale(s)
       /\ SwapSample(s, {[age |-> 0, running |-> reading[i].running]})
  /\ Finish(i)
  /\ UNCHANGED <<queueVars, trackerVars, active, historyVars>>

(* The grace period has not passed, or the larger of the two counts does   *)
(* not lower the counter.                                                  *)
LeaveCounter(i) ==
  /\ pc[i] = "deciding"
  /\ Drift(reading[i])
  /\ \E s \in reading[i].sample :
       /\ ~Stale(s)
       /\ Fresh(s) \/ Target(reading[i], s) >= reading[i].active
  /\ Finish(i)
  /\ UNCHANGED <<queueVars, trackerVars, counterVars, historyVars>>

(* The corrections are conditional on the value that was read.             *)
CounterUnmoved(i) == active = reading[i].active

(* Two looks, a grace period apart: lower the counter if it still has the  *)
(* value that was read.                                                    *)
Correct(i) ==
  /\ pc[i] = "deciding"
  /\ Drift(reading[i])
  /\ \E s \in reading[i].sample :
       /\ ~Stale(s)
       /\ ~Fresh(s)
       /\ Target(reading[i], s) < reading[i].active
       /\ IF CounterUnmoved(i)
            THEN /\ active' = Target(reading[i], s)
                 /\ sample' = {}
                 /\ shortfall' =
                      shortfall + (reading[i].active - Target(reading[i], s))
                 /\ GoToWith(i, "retry", NoReading)
            ELSE /\ Finish(i)
                 /\ UNCHANGED <<counterVars, shortfall>>
  /\ UNCHANGED <<queueVars, trackerVars, faults, leaked, deficit>>

-----------------------------------------------------------------------------
(* _repair_negative_counter, with the slot just claimed counted in.  A     *)
(* listing that fails, or gives up, counts as nothing running.             *)
RepairList(i) ==
  /\ pc[i] = "repair"
  /\ IF Countable
       THEN GoToWith(i, "repairing",
                     [reading[i] EXCEPT !.running = Cardinality(Running)])
       ELSE GoTo(i, "repairing")
  /\ UNCHANGED <<queueVars, trackerVars, counterVars, historyVars>>

RepairListFails(i) ==
  /\ pc[i] = "repair"
  /\ Fault
  /\ GoTo(i, "repairing")
  /\ UNCHANGED <<queueVars, trackerVars, counterVars, leaked, shortfall, deficit>>

RepairWrite(i) ==
  /\ pc[i] = "repairing"
  /\ IF CounterUnmoved(i)
       THEN /\ active' = reading[i].running + 1
            /\ sample' = {}
       ELSE UNCHANGED counterVars
  /\ GoToWith(i, "claimed", NoReading)
  /\ UNCHANGED <<queueVars, trackerVars, historyVars>>

-----------------------------------------------------------------------------
(* start_workflow and what follows it.                                     *)

(* claim_start: refused only for a document that is ABORTED.               *)
ClaimStart(i) ==
  /\ pc[i] = "claimed"
  /\ GoTo(i, IF job[i] \in aborted THEN "refund_ack" ELSE "cleared")
  /\ UNCHANGED <<queueVars, trackerVars, counterVars, historyVars>>

(* The claim could not be made or re-read: the start goes ahead.           *)
ClaimStartFails(i) ==
  /\ pc[i] = "claimed"
  /\ Fault
  /\ GoTo(i, "cleared")
  /\ UNCHANGED <<queueVars, trackerVars, counterVars, leaked, shortfall, deficit>>

(* StartExecution under the name derived from the message.                 *)
StartExecution(i) ==
  /\ pc[i] = "cleared"
  /\ IF exec[job[i]] = "none"
       THEN /\ exec' = [exec EXCEPT ![job[i]] = "running"]
            /\ GoTo(i, "acking")
       ELSE /\ UNCHANGED exec            \* ExecutionAlreadyExists
            /\ GoTo(i, "refund_ack")
  /\ UNCHANGED <<message, aborted, trackerVars, counterVars, historyVars>>

(* Preparing or starting the execution raises and nothing was started.     *)
StartFails(i) ==
  /\ pc[i] \in {"claimed", "cleared"}
  /\ Fault
  /\ GoTo(i, "refund")
  /\ UNCHANGED <<queueVars, trackerVars, counterVars, leaked, shortfall, deficit>>

(* StartExecution raises although Step Functions accepted it.              *)
StartReplyLost(i) ==
  /\ pc[i] = "cleared"
  /\ exec[job[i]] = "none"
  /\ Fault
  /\ exec' = [exec EXCEPT ![job[i]] = "running"]
  /\ shortfall' = shortfall + 1
  /\ GoTo(i, "refund")
  /\ UNCHANGED <<message, aborted, trackerVars, counterVars, leaked, deficit>>

(* update_counter(increment=False): floored at zero; a message whose work  *)
(* is settled is then deleted, any other comes back after its timeout.     *)
AcksAnyRefund(i) ==                          \* mutant: a failed start is acked
  pc[i] \in {"refund", "refund_ack"} /\ GoTo(i, "acking")

AfterRefund(i) ==
  \/ pc[i] = "refund_ack" /\ GoTo(i, "acking")
  \/ pc[i] = "refund" /\ Finish(i)

HandBack(i) ==
  /\ active' = Decremented
  /\ AfterRefund(i)
  /\ UNCHANGED <<queueVars, trackerVars, sample, historyVars>>

(* The hand-back raises; it is logged and the slot stays counted.          *)
HandBackFails(i) ==
  /\ Fault
  /\ AfterRefund(i)
  /\ leaked' = leaked + 1
  /\ UNCHANGED <<queueVars, trackerVars, counterVars, shortfall, deficit>>

Acknowledge(i) ==
  /\ pc[i] = "acking"
  /\ Delete(job[i])
  /\ Finish(i)
  /\ UNCHANGED <<aborted, exec, trackerVars, counterVars, historyVars>>

(* The invocation dies (Lambda timeout, out of memory) between two calls.  *)
Crash(i) ==
  /\ pc[i] # "idle"
  /\ Fault
  /\ Finish(i)
  /\ leaked' = IF i \in Holders THEN leaked + 1 ELSE leaked
  /\ UNCHANGED <<queueVars, trackerVars, counterVars, shortfall, deficit>>

-----------------------------------------------------------------------------
(* Executions and the workflow tracker.                                    *)
EndExecution(m) ==
  /\ exec[m] = "running"
  /\ exec' = [exec EXCEPT ![m] = "ended"]
  /\ UNCHANGED <<message, aborted, trackerVars, counterVars, localVars, historyVars>>

DeliverEvent(m) ==
  /\ exec[m] = "ended"
  /\ deliveries[m] < MaxDeliveries
  /\ deliveries' = [deliveries EXCEPT ![m] = @ + 1]

(* One transaction: the marker is new and the counter is above zero.       *)
ReleasesAgain(m) == TRUE                     \* mutant: no decrement marker
NotReleased(m) == m \notin released

ReleaseSlot(m) ==
  /\ DeliverEvent(m)
  /\ NotReleased(m)
  /\ active > 0
  /\ active' = Decremented
  /\ released' = released \cup {m}
  /\ UNCHANGED <<queueVars, sample, localVars, historyVars>>

(* A duplicate (the marker exists), an underflow (nothing to release, and  *)
(* no marker is left), or a decrement that failed at every attempt.        *)
ReleaseNothing(m) ==
  /\ DeliverEvent(m)
  /\ UNCHANGED <<queueVars, released, counterVars, localVars, historyVars>>

-----------------------------------------------------------------------------
(* What an invocation does when nothing fails.                             *)
Step(i) ==
  \/ SkipAborted(i) \/ Increment(i) \/ RefuseIncrement(i)
  \/ ReadCounter(i) \/ ListRunning(i)
  \/ ClearSample(i) \/ RecordSample(i) \/ RestartSample(i)
  \/ LeaveCounter(i) \/ Correct(i)
  \/ RepairList(i) \/ RepairWrite(i)
  \/ ClaimStart(i) \/ StartExecution(i) \/ HandBack(i) \/ Acknowledge(i)

Failure(i) ==
  \/ RefuseBeforeSlot(i) \/ ListFails(i) \/ RepairListFails(i) \/ ClaimStartFails(i)
  \/ StartFails(i) \/ StartReplyLost(i) \/ HandBackFails(i) \/ Crash(i)

Environment(m) ==
  \/ Arrive(m) \/ DeliverTwice(m) \/ Abort(m)
  \/ EndExecution(m) \/ ReleaseSlot(m) \/ ReleaseNothing(m)

Next ==
  \/ \E i \in Invocation : Step(i) \/ Failure(i)
  \/ \E i \in Invocation, m \in Message : Receive(i, m)
  \/ \E m \in Message : Environment(m)
  \/ Tick

Spec == Init /\ [][Next]_vars

(* SQS keeps delivering, a live invocation runs on, an execution ends (it  *)
(* has an execution-level timeout) and time passes.  No fairness of the    *)
(* tracker: every terminal event may be lost.                              *)
Fairness ==
  /\ \A i \in Invocation : WF_vars(Step(i))
  /\ \A m \in Message : WF_vars(\E i \in Invocation : Receive(i, m))
  /\ \A m \in Message : WF_vars(EndExecution(m))
  /\ WF_vars(Tick)

FairSpec == Spec /\ Fairness

-----------------------------------------------------------------------------
(* Every slot the counter shows has an owner: an invocation that claimed   *)
(* it, an execution that has not released it, or a recorded leak.  A       *)
(* second release of one execution, a hand-back beside a live execution,   *)
(* or a slot kept by a duplicate start would break the sum.                *)
SlotsAreAccountedFor ==
  shortfall = 0 =>
    active = Cardinality(Holders) + Cardinality(Unreleased) + leaked

(* The claimed, unreleased and leaked slots exceed the counter by no more  *)
(* than the reconciler took off, lost start replies and an initial deficit.*)
UnderstatementIsBounded ==
  Cardinality(Holders) + Cardinality(Unreleased) + leaked <= active + shortfall

(* MaxConcurrentWorkflows caps the running executions: the reconciler may  *)
(* take as much off the counter as has leaked, and the cap still holds; it *)
(* gives way only by what was taken off beyond the leaks.                  *)
CapHolds == Cardinality(Running) + leaked <= MaxConcurrent + shortfall

(* The counter never passes the ceiling, whatever reconciles, corrections  *)
(* and hand-backs interleave with the increments.  (A repair of a negative *)
(* counter writes what runs, which may be more.)                           *)
CounterBelowCeiling == deficit = 0 => active <= MaxConcurrent

(* A message leaves the queue only once its execution exists or its        *)
(* document is aborted: no crash, duplicate or refusal loses a document.   *)
NoMessageLost ==
  \A m \in Message :
    message[m] = "deleted" => exec[m] # "none" \/ m \in aborted

(* No step drives the counter below zero: a negative value can only be one *)
(* the counter already had, and it only rises.                             *)
NeverDrivenNegative == [][active' < active => active' >= 0]_vars

(* Whatever leaks, intake resumes: every message that arrives is settled,  *)
(* because a refused increment reconciles the counter.                     *)
IntakeNeverWedges ==
  \A m \in Message : message[m] = "visible" ~> message[m] = "deleted"

(* What has become of each message, for the abstract work queue.           *)
Work ==
  [m \in Message |->
     IF exec[m] # "none" THEN exec[m]
     ELSE IF message[m] = "deleted" THEN "dropped" ELSE "waiting"]

Promise == INSTANCE WorkQueue WITH work <- Work

(* Whatever is delivered twice, refused, retried or crashes, a document is *)
(* started at most once and never silently dropped.                        *)
StartsOnceOrIsDropped == Promise!Spec

(* docs/monitoring.md names one way past the ceiling: a correction that    *)
(* lands between an increment and its hand-back.  With no abort and no     *)
(* fault nothing is ever handed back, so the ceiling would hold.           *)
OverAdmissionNeedsAHandBack ==
  aborted = {} /\ faults = 0 => Cardinality(Running) <= MaxConcurrent
=============================================================================
