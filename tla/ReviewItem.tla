----------------------------- MODULE ReviewItem -----------------------------
(***************************************************************************)
(* The human review of one document: its item in HITLTable, the status     *)
(* object consumers read, and everybody who moves them.  A phase-1 run     *)
(* holds the document, the workflow tracker opens the item when the run    *)
(* has ended, a reviewer claims and disposes of it, a finalize run applies *)
(* the disposition and the tracker closes the item; a sweeper repairs what *)
(* was lost, and an abort or a reprocess withdraws the review at any time. *)
(*                                                                         *)
(* Every write of the item is conditional on the Version it was read at.   *)
(* The Version itself is left out: current is the set of those whose last  *)
(* reading is still the stored version, and a write empties it.  (A review *)
(* held after an ended one starts at Version 1 again; that a reader sleeps *)
(* through a whole phase-1 run and meets its old number is left out.)      *)
(* Claims are one state here: whose claim it is, and which reviewers may   *)
(* take one, is left out.                                                  *)
(***************************************************************************)
EXTENDS Integers, FiniteSets

CONSTANTS
  Tracker,      \* the workflow tracker's invocations
  Sweeper,      \* the sweeper (reserved concurrency 1)
  MaxAttempts,  \* MAX_FINALIZE_ATTEMPTS
  MaxRuns,      \* bound: phase-1 runs of the document
  MaxCycles,    \* bound: review cycles
  MaxFaults     \* bound: crashes, failed sends, lost or repeated events, aborts,
                \* and deletions of the document's queue

ASSUME ReviewAssumption ==
  /\ IsFiniteSet(Tracker)
  /\ Sweeper \notin Tracker
  /\ MaxAttempts \in Nat \ {0}
  /\ MaxRuns \in Nat
  /\ MaxCycles \in Nat
  /\ MaxFaults \in Nat

VARIABLES
  item,     \* the document's ITEM, state NONE when there is none
  cycles,   \* cycle ids used so far
  current,  \* whose reading of the item is still its stored version
  obj,      \* review/status.json
  exec,     \* the executions, by name
  aborted,  \* the tracking row reads ABORTED
  msgs,     \* finalize messages in the DocumentQueue
  events,   \* terminal events on their way to the tracker
  tr,       \* where each tracker invocation is, and what it loaded
  sw,       \* where the sweeper is, and the item it read
  api,      \* where the withdrawing API call is
  faults,   \* faults so far
  late      \* history: the last write of obj was for a review no longer under way

itemVars == <<item, cycles, current>>
runVars == <<exec, aborted, msgs, events>>
vars == <<itemVars, obj, late, runVars, tr, sw, api, faults>>

Run == {<<n, 0>> : n \in 1..MaxRuns}
Token == (1..MaxCycles) \X (1..MaxAttempts)
Execution == Run \cup Token

Live == {"HOLDING", "OPEN", "CLAIMED", "FINALIZING"}
Ended == {"COMPLETE", "REJECTED", "FINALIZE_FAILED", "WITHDRAWN"}
Disposition == {"complete", "rejected", "removed"}

(* The finalize execution is named after the document, cycle and attempt.  *)
TokenOf(i) == <<i.cycle, i.attempt>>

NoItem == [state |-> "NONE", cycle |-> 0, arn |-> <<0, 0>>,
           disposition |-> "none", attempt |-> 0]
NoObject == [status |-> "none", cycle |-> 0]
NotCalled == [at |-> "idle", e |-> <<0, 0>>, cycle |-> 0, disposition |-> "none"]
NotSweeping == [at |-> "idle", item |-> NoItem]
NoCall == [at |-> "idle", cycle |-> 0, run |-> <<0, 0>>]

Item ==
  [state : {"NONE"} \cup Live \cup Ended, cycle : 0..MaxCycles,
   arn : Execution \cup {<<0, 0>>}, disposition : Disposition \cup {"none"},
   attempt : 0..MaxAttempts]

TypeOK ==
  /\ item \in Item
  /\ cycles \in 0..MaxCycles
  /\ item.state = "NONE" \/ item.cycle = cycles
  /\ item.state = "FINALIZING" => TokenOf(item) \in Token
  /\ current \subseteq Tracker \cup {Sweeper}
  /\ obj \in [status : {"none", "in_review", "complete", "rejected"}, cycle : 0..MaxCycles]
  /\ exec \in [Execution ->
       [status : {"none", "running", "succeeded", "failed", "aborted"},
        route : {"none", "superseding", "withdrawing", "hold", "review", "unread", "plain"}]]
  /\ aborted \in BOOLEAN
  /\ msgs \subseteq Token
  /\ events \subseteq Execution
  /\ tr \in [Tracker ->
       [at : {"idle", "loaded", "sequenced", "written", "deciding", "clearing"},
        e : Execution \cup {<<0, 0>>}, cycle : 0..MaxCycles,
        disposition : Disposition \cup {"none"}]]
  /\ sw \in [at : {"idle", "visiting", "clearing"}, item : Item]
  /\ api \in [at : {"idle", "withdrawing", "clearing", "queueing"},
              cycle : 0..MaxCycles, run : Run \cup {<<0, 0>>}]
  /\ faults \in 0..MaxFaults
  /\ late \in BOOLEAN

Init ==
  /\ item = NoItem
  /\ cycles = 0
  /\ current = {}
  /\ obj = NoObject
  /\ exec = [e \in Execution |-> [status |-> "none", route |-> "none"]]
  /\ aborted = FALSE
  /\ msgs = {}
  /\ events = {}
  /\ tr = [t \in Tracker |-> NotCalled]
  /\ sw = NotSweeping
  /\ api = NoCall
  /\ faults = 0
  /\ late = FALSE

-----------------------------------------------------------------------------
Fault ==
  /\ faults < MaxFaults
  /\ faults' = faults + 1

IsLive == item.state \in Live
Holds(e) == item.state = "HOLDING" /\ item.arn = e
InAnyState(e) == TokenOf(item) = e    \* mutant: a withdrawn item still counts
Finalizes(e) == item.state = "FINALIZING" /\ TokenOf(item) = e

(* A write of the item takes the next Version: nobody's reading is current *)
(* any more.                                                               *)
Put(i) == item' = i /\ current' = {}
PutState(s) == Put([item EXCEPT !.state = s])
Touch == Put(item)
Reads(p) == current' = current \cup {p}

(* ReviewQueueService.withdraw, which reads again when it lost a race.     *)
Withdraw == PutState("WITHDRAWN")

Publish(status, cycle) == obj' = [status |-> status, cycle |-> cycle]
Delete(cycle) == obj' = NoObject /\ late' = (item.cycle # cycle)

(* The workflow tracker handles the event of an execution of its own kind: *)
(* a finalize run, or a phase-1 run that ended at the review point.        *)
Notifies(e, outcome) ==
  \/ e \in Token
  \/ outcome = "succeeded" /\ exec[e].route = "hold"
End(e, outcome) ==
  /\ exec' = [exec EXCEPT ![e] =
       [status |-> outcome,
        route |-> IF e \in Token /\ outcome = "succeeded" THEN @.route ELSE "none"]]
  /\ events' = IF Notifies(e, outcome) THEN events \cup {e} ELSE events

-----------------------------------------------------------------------------
(* The document's executions.                                              *)

(* The object is uploaded again: a further run, and the review stays.  (A  *)
(* run that is aborted while it is queued is never started: that is one    *)
(* that is never uploaded here, and an abort.)                             *)
IsNext(r) ==
  /\ exec[r].status = "none"
  /\ \A n \in Run : n[1] < r[1] => exec[n].status # "none"

Starts(r) == exec' = [exec EXCEPT ![r].status = "running"] /\ aborted' = FALSE

Upload(r) ==
  /\ IsNext(r)
  /\ api.run # r
  /\ Starts(r)
  /\ UNCHANGED <<itemVars, obj, late, msgs, events, tr, sw, api, faults>>

(* A finalize message names its execution by the token: one that exists    *)
(* already is not started again.                                           *)
StartFinalize(e) ==
  /\ e \in msgs
  /\ msgs' = msgs \ {e}
  /\ IF exec[e].status = "none" /\ ~aborted
       THEN exec' = [exec EXCEPT ![e].status = "running"]
       ELSE UNCHANGED exec
  /\ UNCHANGED <<itemVars, obj, late, aborted, events, tr, sw, api, faults>>

Routing(e) == exec[e].status = "running" /\ exec[e].route = "none"
RoutedAs(e, route) == exec' = [exec EXCEPT ![e].route = route]
Elsewhere == UNCHANGED <<obj, late, aborted, msgs, events, tr, sw, api, faults>>

(* ProcessResults recognises the finalize run of a disposed item.          *)
RouteFinalize(e) ==
  /\ Routing(e)
  /\ Finalizes(e)
  /\ RoutedAs(e, "review")
  /\ UNCHANGED itemVars
  /\ Elsewhere

(* With HITL or the Default queue off, or Default not readable, only the   *)
(* item says that the run finalizes a review; a read of it that fails is   *)
(* swallowed, and the run goes on as one without a review.                 *)
RouteUnread(e) ==
  /\ Routing(e)
  /\ Finalizes(e)
  /\ Fault
  /\ RoutedAs(e, "unread")
  /\ UNCHANGED <<itemVars, obj, late, aborted, msgs, events, tr, sw, api>>

(* No review: the Default queue or HITL is off, or the run has no reasons, *)
(* which withdraws a live item.                                            *)
RoutePlain(e) ==
  /\ Routing(e)
  /\ ~Finalizes(e)
  /\ \/ RoutedAs(e, "plain") /\ UNCHANGED itemVars
     \/ /\ IsLive
        /\ Withdraw
        /\ RoutedAs(e, "withdrawing")
        /\ UNCHANGED cycles
  /\ Elsewhere

(* The run has reasons: a retry keeps its cycle, any other run begins one  *)
(* and supersedes the item that is live.                                   *)
RouteHold(e) ==
  /\ Routing(e)
  /\ ~Finalizes(e)
  /\ LET again == IsLive /\ item.arn = e
     IN  /\ again \/ cycles < MaxCycles
         /\ cycles' = IF again THEN cycles ELSE cycles + 1
         /\ Put([NoItem EXCEPT !.state = "HOLDING", !.cycle = cycles', !.arn = e])
         /\ RoutedAs(e, IF IsLive /\ ~again THEN "superseding" ELSE "hold")
  /\ Elsewhere

(* The status object of the superseded or withdrawn review is deleted.     *)
RouteClears(e) ==
  /\ exec[e].status = "running"
  /\ \/ exec[e].route = "superseding" /\ RoutedAs(e, "hold")
     \/ exec[e].route = "withdrawing" /\ RoutedAs(e, "plain")
  /\ obj' = NoObject
  /\ late' = IF exec[e].route = "superseding" THEN ~Holds(e) ELSE item.state # "WITHDRAWN"
  /\ UNCHANGED <<itemVars, aborted, msgs, events, tr, sw, api, faults>>

(* The step's invocation is lost after its writes; the state machine runs  *)
(* it again.                                                               *)
RetryStep(e) ==
  /\ exec[e].status = "running"
  /\ exec[e].route # "none"
  /\ Fault
  /\ RoutedAs(e, "none")
  /\ UNCHANGED <<itemVars, obj, late, aborted, msgs, events, tr, sw, api>>

EndRun(e) ==
  /\ exec[e].status = "running"
  /\ \/ exec[e].route \in {"hold", "review", "unread", "plain"} /\ End(e, "succeeded")
     \/ End(e, "failed")
  /\ UNCHANGED <<itemVars, obj, late, aborted, msgs, tr, sw, api, faults>>

(* An event EventBridge loses.                                             *)
LoseEvent(e) ==
  /\ e \in events
  /\ Fault
  /\ events' = events \ {e}
  /\ UNCHANGED <<itemVars, obj, late, exec, aborted, msgs, tr, sw, api>>

-----------------------------------------------------------------------------
(* The workflow tracker.                                                   *)

At(t, point) == tr' = [tr EXCEPT ![t].at = point]
Return(t) == tr' = [tr EXCEPT ![t] = NotCalled]

(* An event is handled; one whose item has moved on is stale.              *)
TrackerLoads(t, e) ==
  /\ tr[t].at = "idle"
  /\ e \in events
  /\ \/ events' = events \ {e} /\ UNCHANGED faults
     \/ UNCHANGED events /\ Fault              \* delivered again
  /\ IF (e \in Run /\ Holds(e)) \/ (e \in Token /\ Finalizes(e))
       THEN tr' = [tr EXCEPT ![t] = [at |-> "loaded", e |-> e, cycle |-> item.cycle,
                                     disposition |-> item.disposition]]
       ELSE UNCHANGED tr
  /\ UNCHANGED <<itemVars, obj, late, exec, aborted, msgs, sw, api>>

LoadedAnyhow(t, outcome) ==           \* mutant: the outcome is not looked at
  tr[t].at = "loaded"
Loaded(t, outcome) == tr[t].at = "loaded" /\ exec[tr[t].e].status = outcome

NotTold(t) == FALSE                   \* mutant: as any completed review
Removed(t) == tr[t].disposition = "removed"

(* publish takes the next StatusSequence under the item's Version, reading *)
(* it again after a race as long as the cycle is the same.                 *)
TrackerTakesSequence(t) ==
  /\ Loaded(t, "succeeded")
  /\ ~Removed(t)
  /\ IF item.state # "NONE" /\ item.cycle = tr[t].cycle
       THEN Touch /\ At(t, "sequenced")
       ELSE Return(t) /\ UNCHANGED <<item, current>>       \* raised
  /\ UNCHANGED <<cycles, obj, late, runVars, sw, api, faults>>

StatusFor(c) ==
  IF c.e \in Run THEN "in_review"
  ELSE IF c.disposition = "rejected" THEN "rejected" ELSE "complete"

StillTheirs(c) == IF c.e \in Run THEN Holds(c.e) ELSE Finalizes(c.e)

TrackerPublishes(t) ==
  /\ tr[t].at = "sequenced"
  /\ Publish(StatusFor(tr[t]), tr[t].cycle)
  /\ late' = ~StillTheirs(tr[t])
  /\ At(t, "written")
  /\ UNCHANGED <<itemVars, runVars, sw, api, faults>>

(* A review an Admin removed ends without a status object.                 *)
TrackerUnpublishes(t) ==
  /\ Loaded(t, "succeeded")
  /\ Removed(t)
  /\ obj' = NoObject
  /\ late' = ~StillTheirs(tr[t])
  /\ At(t, "written")
  /\ UNCHANGED <<itemVars, runVars, sw, api, faults>>

TrackerRereads(t) ==
  /\ tr[t].at = "written"
  /\ IF StillTheirs(tr[t])
       THEN At(t, "deciding") /\ Reads(t)
       ELSE Return(t) /\ UNCHANGED current
  /\ UNCHANGED <<item, cycles, obj, late, runVars, sw, api, faults>>

(* The item is opened, or closed, if nobody wrote it since it was read.    *)
ClosedAs(c) ==
  IF c.e \in Run THEN "OPEN"
  ELSE IF c.disposition = "rejected" THEN "REJECTED" ELSE "COMPLETE"

TrackerMovesItem(t) ==
  /\ tr[t].at = "deciding"
  /\ IF t \in current
       THEN PutState(ClosedAs(tr[t]))
       ELSE UNCHANGED <<item, current>>
  /\ Return(t)
  /\ UNCHANGED <<cycles, obj, late, runVars, sw, api, faults>>

(* A failed finalize run is handed to the sweeper.                         *)
TrackerHandsOver(t) ==
  /\ Loaded(t, "failed")
  /\ IF Finalizes(tr[t].e)
       THEN Touch
       ELSE UNCHANGED <<item, current>>
  /\ Return(t)
  /\ UNCHANGED <<cycles, obj, late, runVars, sw, api, faults>>

TrackerWithdraws(t) ==
  /\ Loaded(t, "aborted")
  /\ IF IsLive
       THEN Withdraw /\ tr' = [tr EXCEPT ![t].at = "clearing", ![t].cycle = item.cycle]
       ELSE Return(t) /\ UNCHANGED <<item, current>>
  /\ UNCHANGED <<cycles, obj, late, runVars, sw, api, faults>>

TrackerClears(t) ==
  /\ tr[t].at = "clearing"
  /\ Delete(tr[t].cycle)
  /\ Return(t)
  /\ UNCHANGED <<itemVars, runVars, sw, api, faults>>

(* An invocation crashes or one of its calls fails; the event may come     *)
(* back.                                                                   *)
TrackerFails(t) ==
  /\ tr[t].at # "idle"
  /\ Fault
  /\ \/ UNCHANGED events
     \/ events' = events \cup {tr[t].e}
  /\ Return(t)
  /\ current' = current \ {t}
  /\ UNCHANGED <<item, cycles, obj, late, exec, aborted, msgs, sw, api>>

-----------------------------------------------------------------------------
(* Reviewers and Admins.  Each operation is one read and one conditional   *)
(* write.                                                                  *)
ByReviewer == UNCHANGED <<cycles, obj, late, exec, aborted, events, tr, sw, api>>

Claim == item.state = "OPEN" /\ PutState("CLAIMED") /\ UNCHANGED <<msgs, faults>> /\ ByReviewer

(* Skip, unassign and move to another queue.                               *)
Release == item.state = "CLAIMED" /\ PutState("OPEN") /\ UNCHANGED <<msgs, faults>> /\ ByReviewer

(* The disposition is written first and its message sent after; a send     *)
(* that fails is only logged.                                              *)
Dispose(d) ==
  /\ item.state = "CLAIMED" \/ (d = "removed" /\ item.state = "OPEN")
  /\ Put([item EXCEPT !.state = "FINALIZING", !.disposition = d, !.attempt = 1])
  /\ \/ msgs' = msgs \cup {<<item.cycle, 1>>} /\ UNCHANGED faults
     \/ Fault /\ UNCHANGED msgs
  /\ ByReviewer

(* Deleting a queue re-points the items it holds.                          *)
Repoint ==
  /\ item.state = "HOLDING"
  /\ current # {}
  /\ Fault
  /\ Touch
  /\ UNCHANGED msgs
  /\ ByReviewer

-----------------------------------------------------------------------------
(* Abort and reprocess.                                                    *)

(* The document's execution is stopped and its row reads ABORTED before    *)
(* the review is withdrawn.                                                *)
Abort ==
  /\ api.at = "idle"
  /\ Fault
  /\ api' = [api EXCEPT !.at = "withdrawing"]
  /\ aborted' = TRUE
  /\ \/ UNCHANGED <<exec, events>>
     \/ \E e \in Execution : exec[e].status = "running" /\ End(e, "aborted")
  /\ UNCHANGED <<itemVars, obj, late, msgs, tr, sw>>

(* The review is withdrawn before the document is queued again.            *)
Reprocess(r) ==
  /\ api.at = "idle"
  /\ IsNext(r)
  /\ api' = [NoCall EXCEPT !.at = "withdrawing", !.run = r]
  /\ UNCHANGED <<itemVars, obj, late, runVars, tr, sw, faults>>

AfterClear == IF api.run \in Run THEN [api EXCEPT !.at = "queueing"] ELSE NoCall

ApiWithdraws ==
  /\ api.at = "withdrawing"
  /\ IF IsLive
       THEN Withdraw /\ api' = [api EXCEPT !.at = "clearing", !.cycle = item.cycle]
       ELSE api' = AfterClear /\ UNCHANGED <<item, current>>
  /\ UNCHANGED <<cycles, obj, late, runVars, tr, sw, faults>>

ApiClears ==
  /\ api.at = "clearing"
  /\ Delete(api.cycle)
  /\ api' = AfterClear
  /\ UNCHANGED <<itemVars, runVars, tr, sw, faults>>

(* A withdrawal that fails is only logged; the reprocess goes on.          *)
ApiFails ==
  /\ api.at = "withdrawing"
  /\ Fault
  /\ api' = AfterClear
  /\ UNCHANGED <<itemVars, obj, late, runVars, tr, sw>>

ApiQueues ==
  /\ api.at = "queueing"
  /\ api' = NoCall
  /\ Starts(api.run)
  /\ UNCHANGED <<itemVars, obj, late, msgs, events, tr, sw, faults>>

-----------------------------------------------------------------------------
(* The sweeper.                                                            *)

(* The item is swept when its recheck time has come.  The intervals (10    *)
(* and 15 minutes) are longer than a tracker takes to answer an event; that *)
(* one takes longer still is a fault.                                      *)
Settled == events = {} /\ \A t \in Tracker : tr[t].at = "idle"

HoldsOnly == {"HOLDING"}              \* mutant: a disposed item is not swept
Swept == {"HOLDING", "FINALIZING"}

(* A page of the sweep index is read, and its items visited one by one.    *)
SweeperReads ==
  /\ sw.at = "idle"
  /\ item.state \in Swept
  /\ \/ Settled /\ UNCHANGED faults
     \/ ~Settled /\ Fault
  /\ sw' = [at |-> "visiting", item |-> item]
  /\ Reads(Sweeper)
  /\ UNCHANGED <<item, cycles, obj, late, runVars, tr, api>>

(* A conditional write of the sweeper; a failed condition skips the item.  *)
Unconditionally == TRUE               \* mutant: a write without the Version
Current == Sweeper \in current
SweepTo(i) == IF Current THEN Put(i) ELSE UNCHANGED <<item, current>>

Visits(state, outcomes) ==
  /\ sw.at = "visiting"
  /\ sw.item.state = state
  /\ exec[IF state = "HOLDING" THEN sw.item.arn ELSE TokenOf(sw.item)].status \in outcomes
Leaves == sw' = NotSweeping
BySweeper == UNCHANGED <<cycles, obj, late, exec, aborted, tr, api>>

SweeperWaits ==
  /\ (Visits("HOLDING", {"running"}) \/ Visits("FINALIZING", {"running"}))
  /\ SweepTo(item)
  /\ Leaves
  /\ UNCHANGED <<msgs, events, faults>>
  /\ BySweeper

(* The terminal event is replayed, whatever became of the rescheduling.    *)
SweeperReplays ==
  /\ Visits("HOLDING", {"succeeded"}) \/ Visits("FINALIZING", {"succeeded"})
  /\ SweepTo(item)
  /\ events' = events \cup
       {IF sw.item.state = "HOLDING" THEN sw.item.arn ELSE TokenOf(sw.item)}
  /\ Leaves
  /\ UNCHANGED <<msgs, faults>>
  /\ BySweeper

SweeperReapsHold ==
  /\ Visits("HOLDING", {"failed", "aborted"})
  /\ SweepTo(NoItem)
  /\ Leaves
  /\ UNCHANGED <<msgs, events, faults>>
  /\ BySweeper

Sends(e) ==
  \/ msgs' = msgs \cup {e} /\ UNCHANGED faults
  \/ Fault /\ UNCHANGED msgs

(* Never started: the same token again.                                    *)
SweeperResends ==
  /\ Visits("FINALIZING", {"none"})
  /\ Sends(TokenOf(sw.item))
  /\ SweepTo(item)
  /\ Leaves
  /\ UNCHANGED events
  /\ BySweeper

AlwaysLeft == TRUE                    \* mutant: no limit
AttemptsLeft == sw.item.attempt < MaxAttempts

SlowOrFailed == {"failed", "running"} \* mutant: a slow run is retried too
RetriedOutcome == {"failed"}

SweeperRetries ==
  /\ Visits("FINALIZING", RetriedOutcome)
  /\ AttemptsLeft
  /\ SweepTo([sw.item EXCEPT !.attempt = @ + 1])
  /\ IF Current
       THEN Sends(<<sw.item.cycle, sw.item.attempt + 1>>)
       ELSE UNCHANGED <<msgs, faults>>
  /\ Leaves
  /\ UNCHANGED events
  /\ BySweeper

SweeperGivesUp ==
  /\ Visits("FINALIZING", {"failed"})
  /\ ~AttemptsLeft
  /\ SweepTo([sw.item EXCEPT !.state = "FINALIZE_FAILED"])
  /\ Leaves
  /\ UNCHANGED <<msgs, events, faults>>
  /\ BySweeper

(* An aborted finalize run withdraws the review, as it is now.             *)
SweeperWithdraws ==
  /\ Visits("FINALIZING", {"aborted"})
  /\ IF IsLive
       THEN Withdraw /\ sw' = [at |-> "clearing", item |-> item]
       ELSE Leaves /\ UNCHANGED <<item, current>>
  /\ UNCHANGED <<msgs, events, faults>>
  /\ BySweeper

SweeperClears ==
  /\ sw.at = "clearing"
  /\ Delete(sw.item.cycle)
  /\ Leaves
  /\ UNCHANGED <<itemVars, runVars, tr, api, faults>>

(* DynamoDB expires a hold nobody ended in HOLDING_TTL_SECONDS, two days;  *)
(* it promises no time for it.                                             *)
HoldExpires ==
  /\ item.state = "HOLDING"
  /\ exec[item.arn].status # "running"
  /\ Settled
  /\ Put(NoItem)
  /\ UNCHANGED <<cycles, obj, late, runVars, tr, sw, api, faults>>

-----------------------------------------------------------------------------
SweeperActs ==
  \/ SweeperWaits \/ SweeperReplays \/ SweeperReapsHold \/ SweeperResends
  \/ SweeperRetries \/ SweeperGivesUp \/ SweeperWithdraws \/ SweeperClears

TrackerSteps(t) ==
  \/ TrackerTakesSequence(t) \/ TrackerPublishes(t) \/ TrackerUnpublishes(t)
  \/ TrackerRereads(t) \/ TrackerMovesItem(t) \/ TrackerHandsOver(t)
  \/ TrackerWithdraws(t) \/ TrackerClears(t)

RunSteps ==
  \E e \in Execution :
    \/ RouteFinalize(e) \/ RouteUnread(e) \/ RoutePlain(e) \/ RouteHold(e)
    \/ RouteClears(e) \/ EndRun(e)

Next ==
  \/ RunSteps
  \/ \E r \in Run : Upload(r) \/ Reprocess(r)
  \/ \E e \in Token : StartFinalize(e)
  \/ \E e \in Execution : RetryStep(e) \/ LoseEvent(e)
  \/ \E t \in Tracker :
       TrackerSteps(t) \/ TrackerFails(t) \/ \E e \in Execution : TrackerLoads(t, e)
  \/ Claim \/ Release \/ Repoint
  \/ \E d \in Disposition : Dispose(d)
  \/ Abort \/ ApiWithdraws \/ ApiClears \/ ApiFails \/ ApiQueues
  \/ SweeperReads \/ SweeperActs \/ HoldExpires

Spec == Init /\ [][Next]_vars

(* Executions end and the queue hands its messages out; events under way   *)
(* are handled, and the sweeper runs every five minutes.  It waits for     *)
(* what is under way (Settled), so that one condition serves it and the    *)
(* trackers.  Nothing is asked of reviewers, nor of the API calls.         *)
Fairness ==
  /\ WF_vars((\E e \in Execution : EndRun(e)) \/ \E e \in Token : StartFinalize(e))
  /\ WF_vars(\/ \E t \in Tracker : TrackerSteps(t) \/ \E e \in Execution : TrackerLoads(t, e)
             \/ SweeperReads \/ SweeperActs)

FairSpec == Spec /\ Fairness
-----------------------------------------------------------------------------
(* Properties.                                                             *)

(* The corrections of one review are never applied by two executions: of   *)
(* the finalize executions of a cycle, however often their message is sent *)
(* again and whatever the sweeper retries, only the latest attempt is      *)
(* running, and none that did its work has a later one beside it.          *)
OneFinalizeAtATime ==
  \A e, f \in Token :
    e[1] = f[1] /\ exec[e].status \in {"running", "succeeded"} /\ f[2] > e[2]
      => exec[f].status = "none" /\ f \notin msgs

(* The execution found its review when it was routed: it applied the       *)
(* corrections, or its read of the item failed and it missed them.         *)
FinalRoutes == {"review", "unread"}
Finalized(e) == exec[e].status = "succeeded" /\ exec[e].route \in FinalRoutes

(* An item says COMPLETE or REJECTED only when the finalize execution of   *)
(* the disposition it carries was routed while the review waited for it    *)
(* and has run to its end, and FINALIZE_FAILED only when every attempt has *)
(* failed.  (That it applied the corrections is not said: one whose read   *)
(* of the item failed closes the review without them.)                     *)
ClosedByItsFinalizeRun ==
  /\ item.state \in {"COMPLETE", "REJECTED"} =>
       /\ Finalized(TokenOf(item))
       /\ item.state = "REJECTED" <=> item.disposition = "rejected"
  /\ item.state = "FINALIZE_FAILED" =>
       \A n \in 1..MaxAttempts : exec[<<item.cycle, n>>].status = "failed"

(* Nobody reads a final status before the document's results are final:    *)
(* an attempt of that very review, routed while it waited, has run to its  *)
(* end, its corrections in the results unless its read of the item failed. *)
FinalStatusNeedsAFinalRun ==
  obj.status \in {"complete", "rejected"} =>
    \E n \in 1..MaxAttempts : Finalized(<<obj.cycle, n>>)

(* Unless it was last written for a review that was no longer under way,   *)
(* status.json says what the item says: a review that can be claimed is    *)
(* in_review, a closed one has its final status, or none if an Admin       *)
(* removed it.                                                             *)
ObjectSpeaksForTheReview ==
  ~late =>
    /\ item.state \in {"OPEN", "CLAIMED"} =>
         obj = [status |-> "in_review", cycle |-> item.cycle]
    /\ item.state \in {"COMPLETE", "REJECTED"} =>
         obj = IF item.disposition = "removed" THEN NoObject
               ELSE [status |-> IF item.state = "COMPLETE" THEN "complete" ELSE "rejected",
                     cycle |-> item.cycle]

(* Within a cycle a review only moves forward: it is never held again once *)
(* open, a disposed one is never claimed or disposed of anew, and an ended *)
(* one stays as it ended.  Only a run's hold begins another cycle.         *)
Phase(state) ==
  CASE state = "HOLDING" -> 1
    [] state \in {"OPEN", "CLAIMED"} -> 2
    [] state = "FINALIZING" -> 3
    [] OTHER -> 4
MovesForward ==
  [][IF item'.cycle = item.cycle /\ item.state # "NONE"
       THEN /\ Phase(item'.state) >= Phase(item.state)
            /\ item.state \in Ended => item' = item
            /\ item.state = "FINALIZING" => item'.disposition = item.disposition
       ELSE item' # item => item'.state \in {"HOLDING", "NONE"}]_vars

(* The review an item tells of, and the attempts its executions are.       *)
Stage ==
  CASE item.state = "NONE" -> IF cycles = 0 THEN "none" ELSE "dropped"
    [] item.state = "HOLDING" -> "held"
    [] item.state \in {"OPEN", "CLAIMED"} -> "open"
    [] item.state = "FINALIZING" -> "disposed"
    [] item.state \in {"COMPLETE", "REJECTED"} -> "finished"
    [] item.state = "FINALIZE_FAILED" -> "given up"
    [] item.state = "WITHDRAWN" -> IF item.attempt = 0 THEN "dropped" ELSE "withdrawn"

Progress(e) ==
  CASE exec[e].status \in {"none", "failed"} -> exec[e].status
    [] exec[e].status = "running" ->
         CASE exec[e].route = "review" -> "applying"
           [] exec[e].route = "unread" -> "overlooking"
           [] OTHER -> "started"
    [] exec[e].status = "succeeded" ->
         CASE exec[e].route = "review" -> "applied"
           [] exec[e].route = "unread" -> "missed"
           [] OTHER -> "spent"
    [] exec[e].status = "aborted" -> "spent"

Promise == INSTANCE HumanReview
  WITH begun <- cycles, stage <- Stage, attempt <- [e \in Token |-> Progress(e)]

(* Whatever is lost, repeated, retried, superseded or withdrawn, a review  *)
(* is finalized in attempts of which the next begins when all before it    *)
(* have failed, corrections are applied, or by a failed read missed, only  *)
(* for a review that waits for them, and how the review ends is what its   *)
(* attempts came to.                                                       *)
FinalizedInTurn == Promise!Spec

(* No review is lost, however many messages and events are: one that was   *)
(* disposed of ends, unless its document's row reads ABORTED and its       *)
(* messages are dropped; and a document that a run holds does not stay     *)
(* held, since the tracker opens its review or the sweeper reaps it,       *)
(* whatever became of the run and of its event.                            *)
ReviewMovesOn ==
  []<>/\ item.state # "FINALIZING" \/ aborted
      /\ ~\E r \in Run : Holds(r)

(* routing.py: a HOLDING item that the tracker activates when phase 1      *)
(* succeeds; sweeper.py: if that event is lost it is replayed.  So no      *)
(* document would stay held.                                               *)
EveryHoldEnds == []<>(item.state # "HOLDING")

=============================================================================
