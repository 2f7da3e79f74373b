---------------------------- MODULE ReviewItemProofs ----------------------------
(***************************************************************************)
(* What holds of a review for any trackers, runs, cycles, attempts and     *)
(* faults.                                                                 *)
(*                                                                         *)
(* Every writer of the item either read it at its present version or       *)
(* writes in one step, so that all that can happen to the item is one of a *)
(* few moves (ItemMoves).  The invariant follows the tokens, which are     *)
(* issued in order and never for a review again, and what each reader      *)
(* still knows of an item that may have moved on.                          *)
(***************************************************************************)
EXTENDS ReviewItem, TLAPS

USE DEF Finalized, FinalRoutes

ExecStatus == {"none", "running", "succeeded", "failed", "aborted"}
Route == {"none", "superseding", "withdrawing", "hold", "review", "unread", "plain"}
Over(e) == exec[e].status \in {"succeeded", "failed", "aborted"}

(* What an item has in each of its states.                                 *)
Formed(i) ==
  /\ i \in Item
  /\ i.state = "NONE" => i = NoItem
  /\ i.state # "NONE" => i.cycle \in 1..MaxCycles /\ i.arn \in Execution
  /\ i.state \in {"HOLDING", "OPEN", "CLAIMED"} => i.disposition = "none" /\ i.attempt = 0
  /\ i.state \in {"FINALIZING", "COMPLETE", "REJECTED", "FINALIZE_FAILED"} =>
       i.attempt \in 1..MaxAttempts

ItemInv ==
  /\ Formed(item)
  /\ cycles \in 0..MaxCycles
  /\ item.state = "NONE" \/ item.cycle = cycles
  /\ current \subseteq Tracker \cup {Sweeper}

ObjInv == obj \in [status : {"none", "in_review", "complete", "rejected"}, cycle : 0..MaxCycles]

(* Events, and those who handle them, speak of executions that are over.   *)
RunInv ==
  /\ exec \in [Execution -> [status : ExecStatus, route : Route]]
  /\ \A e \in Execution : exec[e].status = "none" => exec[e].route = "none"
  /\ msgs \subseteq Token
  /\ events \subseteq Execution
  /\ \A e \in events : Over(e)

Tracking ==
  [at : {"idle", "loaded", "sequenced", "written", "deciding", "clearing"},
   e : Execution \cup {<<0, 0>>}, cycle : 0..MaxCycles, disposition : Disposition \cup {"none"}]

TrackInv ==
  /\ tr \in [Tracker -> Tracking]
  /\ \A t \in Tracker : tr[t].at # "idle" => tr[t].e \in Execution /\ Over(tr[t].e)

SweepInv ==
  /\ sw \in [at : {"idle", "visiting", "clearing"}, item : Item]
  /\ Formed(sw.item)
  /\ sw.at = "visiting" => sw.item.state \in {"HOLDING", "FINALIZING"}

(* A reprocess that is under way has its run before it.                    *)
ApiInv ==
  /\ api \in [at : {"idle", "withdrawing", "clearing", "queueing"},
              cycle : 0..MaxCycles, run : Run \cup {<<0, 0>>}]
  /\ api.at = "idle" => api = NoCall
  /\ api.at = "queueing" => api.run \in Run
  /\ api.run \in Run => exec[api.run].status = "none"

CountInv == aborted \in BOOLEAN /\ faults \in 0..MaxFaults /\ late \in BOOLEAN

TInv == ItemInv /\ ObjInv /\ RunInv /\ TrackInv /\ SweepInv /\ ApiInv /\ CountInv

-----------------------------------------------------------------------------
(* Execution names.                                                        *)
LEMMA Names ==
  /\ Run \cap Token = {}
  /\ \A e \in Token : e[1] \in 1..MaxCycles /\ e[2] \in 1..MaxAttempts /\ e = <<e[1], e[2]>>
  /\ \A c \in 1..MaxCycles, n \in 1..MaxAttempts : <<c, n>> \in Token
  /\ <<0, 0>> \notin Execution
<1>1. \A e \in Token : e[2] # 0  BY DEF Token
<1>2. \A e \in Run : e[2] = 0 /\ e[1] # 0  BY DEF Run
<1> QED  BY <1>1, <1>2 DEF Token, Execution

LEMMA NoItemFormed == Formed(NoItem)
BY ReviewAssumption DEF ReviewAssumption, Formed, NoItem, Item

LEMMA TInvIsTyped == TInv => TypeOK
<1> SUFFICES ASSUME TInv PROVE TypeOK  OBVIOUS
<1>1. item.state = "FINALIZING" => TokenOf(item) \in Token
  BY Names DEF TInv, ItemInv, Formed, TokenOf
<1>2. item \in Item /\ sw.item \in Item  BY DEF TInv, ItemInv, SweepInv, Formed
<1> QED
  BY <1>1, <1>2 DEF TInv, ItemInv, ObjInv, RunInv, TrackInv, SweepInv, ApiInv, CountInv, TypeOK,
     ExecStatus, Route, Tracking

LEMMA InitTInv == Init => TInv
<1> SUFFICES ASSUME Init PROVE TInv  OBVIOUS
<1>1. 0 \in 0..MaxCycles /\ 0 \in 0..MaxAttempts /\ 0 \in 0..MaxFaults
  BY ReviewAssumption DEF ReviewAssumption
<1>2. ItemInv  BY <1>1, NoItemFormed DEF Init, ItemInv, NoItem
<1>3. ObjInv  BY <1>1 DEF Init, ObjInv, NoObject
<1>4. RunInv  BY DEF Init, RunInv, ExecStatus, Route, Token
<1>5. TrackInv
  <2>1. NotCalled \in Tracking /\ NotCalled.at = "idle"  BY <1>1 DEF NotCalled, Tracking
  <2> QED  BY <2>1 DEF Init, TrackInv
<1>6. SweepInv
  BY <1>1, NoItemFormed DEF Init, SweepInv, NotSweeping, Formed
<1>7. ApiInv
  <2>1. <<0, 0>> \notin Run  BY Names DEF Execution
  <2> QED  BY <1>1, <2>1 DEF Init, ApiInv, NoCall
<1>8. CountInv  BY <1>1 DEF Init, CountInv
<1> QED  BY <1>2, <1>3, <1>4, <1>5, <1>6, <1>7, <1>8 DEF TInv

-----------------------------------------------------------------------------
(* What can happen to an execution.                                        *)
Starting(e) ==
  /\ exec[e].status = "none"
  /\ e \in Token => e \in msgs
  /\ exec'[e] = [exec[e] EXCEPT !.status = "running"]

(* A step of a run routes it, or is retried.                               *)
Rerouting(e) ==
  /\ exec[e].status = "running"
  /\ \E route \in Route :
       /\ exec'[e] = [exec[e] EXCEPT !.route = route]
       /\ route \in FinalRoutes => Finalizes(e) /\ exec[e].route = "none"
       /\ \/ route \in {"none", "review", "unread"}
          \/ ~Finalizes(e)
          \/ exec[e].route \notin {"none", "review", "unread"}

Ending(e) ==
  /\ exec[e].status = "running"
  /\ \E outcome \in {"succeeded", "failed", "aborted"}, route \in Route :
       /\ exec'[e] = [status |-> outcome, route |-> route]
       /\ outcome = "succeeded" =>
            exec[e].route \in {"hold", "review", "unread", "plain"}
                /\ (e \in Token => route = exec[e].route)
       /\ outcome # "succeeded" => route = "none"

ExecMove(e) == exec'[e] = exec[e] \/ Starting(e) \/ Rerouting(e) \/ Ending(e)

LEMMA RoutingMoves ==
  ASSUME TInv, NEW e \in Execution, NEW route \in Route, exec[e].status = "running",
         RoutedAs(e, route), route \in FinalRoutes => Finalizes(e) /\ exec[e].route = "none",
         \/ route \in {"none", "review", "unread"}
         \/ ~Finalizes(e)
         \/ exec[e].route \notin {"none", "review", "unread"}
  PROVE  Rerouting(e) /\ \A f \in Execution \ {e} : exec'[f] = exec[f]
BY DEF TInv, RunInv, RoutedAs, Rerouting

LEMMA EndMoves ==
  ASSUME TInv, NEW e \in Execution, NEW outcome \in {"succeeded", "failed", "aborted"},
         exec[e].status = "running", End(e, outcome),
         outcome = "succeeded" => exec[e].route \in {"hold", "review", "unread", "plain"}
  PROVE  /\ Ending(e)
         /\ \A f \in Execution \ {e} : exec'[f] = exec[f]
         /\ events' \subseteq events \cup {e}
<1>1. exec \in [Execution -> [status : ExecStatus, route : Route]]  BY DEF TInv, RunInv
<1>2. PICK route \in Route :
        /\ exec' = [exec EXCEPT ![e] = [status |-> outcome, route |-> route]]
        /\ route = IF e \in Token /\ outcome = "succeeded" THEN exec[e].route ELSE "none"
  BY <1>1 DEF End, Route
<1>3. exec'[e] = [status |-> outcome, route |-> route]  BY <1>1, <1>2
<1>4. Ending(e)  BY <1>2, <1>3 DEF Ending
<1> QED  BY <1>1, <1>2, <1>4 DEF End

LEMMA StartMoves ==
  ASSUME TInv, NEW e \in Execution, exec[e].status = "none", e \in Token => e \in msgs,
         exec' = [exec EXCEPT ![e].status = "running"]
  PROVE  Starting(e) /\ \A f \in Execution \ {e} : exec'[f] = exec[f]
BY DEF TInv, RunInv, Starting

ExecMover ==
  \/ RunSteps
  \/ \E r \in Run : Upload(r)
  \/ \E e \in Token : StartFinalize(e)
  \/ \E e \in Execution : RetryStep(e)
  \/ Abort
  \/ ApiQueues

LEMMA ExecMovers == [Next]_vars => ExecMover \/ UNCHANGED exec
BY DEF ExecMover, Next, vars, runVars, Reprocess, LoseEvent, TrackerSteps, TrackerFails,
   TrackerLoads, TrackerTakesSequence, TrackerPublishes, TrackerUnpublishes, TrackerRereads,
   TrackerMovesItem, TrackerHandsOver, TrackerWithdraws, TrackerClears, Claim, Release, Repoint,
   Dispose, ByReviewer, ApiWithdraws, ApiClears, ApiFails, SweeperReads, SweeperActs, BySweeper,
   SweeperWaits, SweeperReplays, SweeperReapsHold, SweeperResends, SweeperRetries,
   SweeperGivesUp, SweeperWithdraws, SweeperClears, HoldExpires

LEMMA ExecMoves == ASSUME TInv, [Next]_vars PROVE \A e \in Execution : ExecMove(e)
<1> SUFFICES ASSUME NEW f \in Execution PROVE ExecMove(f)  OBVIOUS
<1> USE DEF ExecMove
<1>1. ASSUME NEW e \in Execution, RouteFinalize(e) \/ RouteUnread(e) PROVE ExecMove(f)
  BY <1>1, RoutingMoves DEF RouteFinalize, RouteUnread, Routing, Route
<1>2. ASSUME NEW e \in Execution, RoutePlain(e) PROVE ExecMove(f)
  BY <1>2, RoutingMoves DEF RoutePlain, Routing, Route
<1>3. ASSUME NEW e \in Execution, RouteHold(e) PROVE ExecMove(f)
  <2>1. PICK route \in Route \ FinalRoutes : RoutedAs(e, route)  BY <1>3 DEF RouteHold, Route
  <2> QED  BY <1>3, <2>1, RoutingMoves DEF RouteHold, Routing
<1>4. ASSUME NEW e \in Execution, RouteClears(e) PROVE ExecMove(f)
  <2>1. PICK route \in Route \ FinalRoutes :
        RoutedAs(e, route) /\ exec[e].route \notin {"none", "review", "unread"}
    BY <1>4 DEF RouteClears, Route
  <2> QED  BY <1>4, <2>1, RoutingMoves DEF RouteClears
<1>5. ASSUME NEW e \in Execution, RetryStep(e) PROVE ExecMove(f)
  BY <1>5, RoutingMoves DEF RetryStep, Route
<1>6. ASSUME NEW e \in Execution, EndRun(e) PROVE ExecMove(f)
  <2>1. PICK outcome \in {"succeeded", "failed", "aborted"} :
          /\ End(e, outcome)
          /\ outcome = "succeeded" => exec[e].route \in {"hold", "review", "unread", "plain"}
    BY <1>6 DEF EndRun
  <2> QED  BY <1>6, <2>1, EndMoves DEF EndRun
<1>7. CASE Abort
  <2>1. CASE UNCHANGED exec  BY <2>1
  <2>2. ASSUME NEW e \in Execution, exec[e].status = "running", End(e, "aborted")
        PROVE ExecMove(f)
    BY <2>2, EndMoves
  <2> QED  BY <1>7, <2>1, <2>2 DEF Abort
<1>8. ASSUME NEW r \in Run, Upload(r) PROVE ExecMove(f)
  BY <1>8, StartMoves, Names DEF Upload, IsNext, Starts, Execution
<1>9. ASSUME NEW e \in Token, StartFinalize(e) PROVE ExecMove(f)
  <2>1. e \in Execution  BY DEF Execution
  <2> QED  BY <1>9, <2>1, StartMoves DEF StartFinalize
<1>10. CASE ApiQueues
  <2>1. api.run \in Run /\ exec[api.run].status = "none" /\ api.run \in Execution
    BY <1>10 DEF ApiQueues, TInv, ApiInv, Execution
  <2> QED  BY <1>10, <2>1, StartMoves, Names DEF ApiQueues, Starts
<1>11. CASE UNCHANGED exec  BY <1>11
<1> QED
  BY <1>1, <1>2, <1>3, <1>4, <1>5, <1>6, <1>7, <1>8, <1>9, <1>10, <1>11, ExecMovers
  DEF ExecMover, RunSteps

(* What is over stays as it is, and what has started stays started.        *)
LEMMA OverStays ==
  ASSUME TInv, [Next]_vars, NEW e \in Execution
  PROVE  /\ Over(e) => exec'[e] = exec[e] /\ Over(e)'
         /\ exec[e].status # "none" => exec'[e].status # "none"
<1>1. ExecMove(e)  BY ExecMoves
<1>2. exec[e] \in [status : ExecStatus, route : Route]  BY DEF TInv, RunInv
<1>3. CASE exec'[e] = exec[e]  BY <1>3 DEF Over
<1>4. CASE Starting(e)  BY <1>2, <1>4 DEF Over, Starting
<1>5. CASE Rerouting(e)  BY <1>2, <1>5 DEF Over, Rerouting
<1>6. CASE Ending(e)  BY <1>2, <1>6 DEF Over, Ending
<1> QED  BY <1>1, <1>3, <1>4, <1>5, <1>6 DEF ExecMove

-----------------------------------------------------------------------------
(* A reading whose version is still stored is the item as it is.           *)
Readings ==
  /\ Sweeper \in current /\ sw.at = "visiting" => sw.item = item
  /\ \A t \in Tracker : t \in current /\ tr[t].at = "deciding" => StillTheirs(tr[t])

(* The run that holds a review is over when the review is opened, so that  *)
(* its step cannot hold the review again.                                  *)
OpenedAfterItsRun == item.state \in {"OPEN", "CLAIMED", "FINALIZING"} => Over(item.arn)

(* Tokens are issued in order: every attempt before an issued one, or      *)
(* before one that may be sent again, has failed.                          *)
Issued(e) == e \in msgs \/ exec[e].status # "none"
Earlier(e) == \A n \in 1..MaxAttempts : n < e[2] => exec[<<e[1], n>>].status = "failed"
Resending == sw.at = "visiting" /\ sw.item.state = "FINALIZING"

InOrder ==
  /\ \A e \in Token : Issued(e) => Earlier(e)
  /\ item.state = "FINALIZING" => Earlier(TokenOf(item))
  /\ Resending => Earlier(TokenOf(sw.item))

(* The item has been at this token: it will not come to it anew.           *)
Past(e) ==
  \/ e[1] < cycles
  \/ /\ e[1] = cycles
     /\ item.state \in Ended \cup {"FINALIZING"}
     /\ e[2] <= item.attempt

OncePerReview ==
  /\ \A e \in Token : Issued(e) => Past(e)
  /\ Resending => Past(TokenOf(sw.item))

(* While the item waits for a finalize execution, that one has not been    *)
(* routed as anything else: it found the item, or could not read it.       *)
RoutedForReview ==
  \A e \in Token : Finalizes(e) =>
    /\ exec[e].route \in {"none", "review", "unread"}
    /\ exec[e].status = "succeeded" => exec[e].route \in FinalRoutes

(* What a tracker has loaded still holds of an item that is still its own. *)
Knows(t) ==
  LET c == tr[t]
  IN  /\ c.at \in {"sequenced", "written", "deciding"} => exec[c.e].status = "succeeded"
      /\ c.at = "sequenced" => c.disposition # "removed"
      /\ c.at \notin {"idle", "clearing"} =>
           /\ c.e \in Token =>
                /\ c.cycle = c.e[1]
                /\ exec[c.e].status = "succeeded" => exec[c.e].route \in FinalRoutes
                /\ Finalizes(c.e) => c.disposition = item.disposition
           /\ c.e \in Run =>
                /\ c.disposition = "none"
                /\ Holds(c.e) => c.cycle = item.cycle

(* Whoever is to delete a status object has withdrawn its review.          *)
IsWithdrawn(cycle) ==
  /\ cycle \in 1..cycles
  /\ item.cycle = cycle => item.state = "WITHDRAWN"

Clearing ==
  /\ \A t \in Tracker : tr[t].at = "clearing" => IsWithdrawn(tr[t].cycle)
  /\ sw.at = "clearing" => IsWithdrawn(sw.item.cycle)
  /\ api.at = "clearing" => IsWithdrawn(api.cycle)

(* A final status is that of a finalize execution that ran to its end.     *)
FinalRun ==
  obj.status \in {"complete", "rejected"} =>
    \E e \in Token : /\ e[1] = obj.cycle
                     /\ Finalized(e)

(* An object that was not written too late is what the tracker that is     *)
(* about to move the item wrote.                                           *)
Published(c) ==
  IF c.disposition = "removed" THEN NoObject
  ELSE [status |-> StatusFor(c), cycle |-> c.cycle]

Speaks ==
  /\ ObjectSpeaksForTheReview
  /\ ~late => \A t \in Tracker :
       tr[t].at \in {"written", "deciding"} /\ StillTheirs(tr[t]) => obj = Published(tr[t])

IInv ==
  /\ TInv
  /\ Readings
  /\ OpenedAfterItsRun
  /\ InOrder
  /\ OncePerReview
  /\ RoutedForReview
  /\ \A t \in Tracker : Knows(t)
  /\ Clearing
  /\ ClosedByItsFinalizeRun
  /\ FinalRun
  /\ Speaks

-----------------------------------------------------------------------------
(* What can happen to the item.                                            *)
Withdrawn ==
  /\ IsLive
  /\ item' = [item EXCEPT !.state = "WITHDRAWN"]

(* A run holds the document: once more under the same cycle if its step is *)
(* retried, otherwise under the next.                                      *)
HeldBy(e) ==
  /\ exec[e].status = "running"
  /\ item' = [NoItem EXCEPT !.state = "HOLDING", !.cycle = cycles', !.arn = e]
  /\ \/ cycles < MaxCycles /\ cycles' = cycles + 1
     \/ cycles' = cycles /\ IsLive /\ item.arn = e

MovedBy(t) ==
  /\ tr[t].at = "deciding"
  /\ StillTheirs(tr[t])
  /\ item' = [item EXCEPT !.state = ClosedAs(tr[t])]

ClaimedOrReleased ==
  /\ item.state \in {"OPEN", "CLAIMED"}
  /\ \E state \in {"OPEN", "CLAIMED"} : item' = [item EXCEPT !.state = state]

Disposed ==
  /\ item.state \in {"OPEN", "CLAIMED"}
  /\ \E d \in Disposition :
       item' = [item EXCEPT !.state = "FINALIZING", !.disposition = d, !.attempt = 1]

Reaped == item.state = "HOLDING" /\ item' = NoItem

Retried ==
  /\ item.state = "FINALIZING"
  /\ exec[TokenOf(item)].status = "failed"
  /\ item.attempt < MaxAttempts
  /\ item' = [item EXCEPT !.attempt = item.attempt + 1]

GivenUp ==
  /\ item.state = "FINALIZING"
  /\ exec[TokenOf(item)].status = "failed"
  /\ ~(item.attempt < MaxAttempts)
  /\ item' = [item EXCEPT !.state = "FINALIZE_FAILED"]

ItemMove ==
  \/ \E e \in Execution : HeldBy(e)
  \/ /\ cycles' = cycles
     /\ \/ item' = item
        \/ Withdrawn
        \/ \E t \in Tracker : MovedBy(t)
        \/ ClaimedOrReleased
        \/ Disposed
        \/ Reaped
        \/ Retried
        \/ GivenUp

ItemMover ==
  \/ \E e \in Execution : RoutePlain(e) \/ RouteHold(e)
  \/ \E t \in Tracker : TrackerMovesItem(t) \/ TrackerWithdraws(t)
  \/ Claim \/ Release \/ \E d \in Disposition : Dispose(d)
  \/ ApiWithdraws
  \/ SweeperWaits \/ SweeperReplays \/ SweeperReapsHold \/ SweeperResends
  \/ SweeperRetries \/ SweeperGivesUp \/ SweeperWithdraws
  \/ HoldExpires

LEMMA ItemMovers == [Next]_vars => ItemMover \/ UNCHANGED <<item, cycles>>
<1> SUFFICES ASSUME [Next]_vars, ~ItemMover PROVE UNCHANGED <<item, cycles>>  OBVIOUS
<1> USE DEF Touch, Put, itemVars, Elsewhere, ByReviewer
<1>1. ASSUME NEW e \in Execution,
             RouteFinalize(e) \/ RouteUnread(e) \/ RouteClears(e) \/ EndRun(e) \/ RetryStep(e)
                 \/ LoseEvent(e)
      PROVE UNCHANGED <<item, cycles>>
  BY <1>1 DEF RouteFinalize, RouteUnread, RouteClears, EndRun, RetryStep, LoseEvent
<1>2. ASSUME NEW r \in Run, Upload(r) \/ Reprocess(r) PROVE UNCHANGED <<item, cycles>>
  BY <1>2 DEF Upload, Reprocess
<1>3. ASSUME NEW e \in Token, StartFinalize(e) PROVE UNCHANGED <<item, cycles>>
  BY <1>3 DEF StartFinalize
<1>4. ASSUME NEW t \in Tracker,
             \/ TrackerTakesSequence(t) \/ TrackerPublishes(t) \/ TrackerUnpublishes(t)
             \/ TrackerRereads(t) \/ TrackerHandsOver(t) \/ TrackerClears(t) \/ TrackerFails(t)
             \/ \E e \in Execution : TrackerLoads(t, e)
      PROVE UNCHANGED <<item, cycles>>
  BY <1>4 DEF TrackerTakesSequence, TrackerPublishes, TrackerUnpublishes, TrackerRereads,
    TrackerHandsOver, TrackerClears, TrackerFails, TrackerLoads
<1>5. CASE Repoint \/ Abort \/ ApiClears \/ ApiFails \/ ApiQueues \/ SweeperReads \/ SweeperClears
  BY <1>5 DEF Repoint, Abort, ApiClears, ApiFails, ApiQueues, SweeperReads, SweeperClears
<1>6. CASE UNCHANGED vars  BY <1>6 DEF vars
<1> QED
  BY <1>1, <1>2, <1>3, <1>4, <1>5, <1>6 DEF ItemMover, Next, RunSteps, TrackerSteps, SweeperActs

(* The sweeper's conditional write: it goes by the item as it is.          *)
LEMMA Sweeps ==
  ASSUME Readings, sw.at = "visiting", NEW i, SweepTo(i)
  PROVE  item' = item \/ (sw.item = item /\ item' = i)
<1>1. CASE Sweeper \in current  BY <1>1 DEF Readings, SweepTo, Current, Put
<1>2. CASE Sweeper \notin current  BY <1>2 DEF SweepTo, Current
<1> QED  BY <1>1, <1>2

LEMMA ItemMoves == ASSUME TInv, Readings, [Next]_vars PROVE ItemMove
<1> USE DEF ItemMove
<1>1. item \in Item /\ TokenOf(item) = <<item.cycle, item.attempt>>
  BY DEF TInv, ItemInv, Formed, TokenOf
<1>2. ASSUME NEW e \in Execution, RoutePlain(e) PROVE ItemMove
  BY <1>2 DEF RoutePlain, itemVars, Withdraw, PutState, Put, Withdrawn
<1>3. ASSUME NEW e \in Execution, RouteHold(e) PROVE ItemMove
  <2>1. HeldBy(e)  BY <1>3 DEF RouteHold, Routing, Put, HeldBy
  <2> QED  BY <2>1
<1>4. ASSUME NEW t \in Tracker, TrackerMovesItem(t) PROVE ItemMove
  <2>1. CASE t \in current
    <3>1. MovedBy(t)  BY <1>4, <2>1 DEF TrackerMovesItem, PutState, Put, Readings, MovedBy
    <3> QED  BY <1>4, <3>1 DEF TrackerMovesItem
  <2> QED  BY <1>4, <2>1 DEF TrackerMovesItem
<1>5. ASSUME NEW t \in Tracker, TrackerWithdraws(t) PROVE ItemMove
  BY <1>5 DEF TrackerWithdraws, Withdraw, PutState, Put, Withdrawn
<1>6. CASE Claim \/ Release
  BY <1>6 DEF Claim, Release, PutState, Put, ByReviewer, ClaimedOrReleased
<1>7. ASSUME NEW d \in Disposition, Dispose(d) PROVE ItemMove
  BY <1>7 DEF Dispose, Put, ByReviewer, Disposed
<1>8. CASE ApiWithdraws
  BY <1>8 DEF ApiWithdraws, Withdraw, PutState, Put, Withdrawn
<1>9. CASE SweeperWaits \/ SweeperReplays \/ SweeperResends
  BY <1>9 DEF SweeperWaits, SweeperReplays, SweeperResends, SweepTo, Put, BySweeper
<1>10. CASE SweeperReapsHold
  <2>1. sw.at = "visiting" /\ sw.item.state = "HOLDING" /\ SweepTo(NoItem) /\ cycles' = cycles
    BY <1>10 DEF SweeperReapsHold, Visits, BySweeper
  <2> QED  BY <2>1, Sweeps DEF Reaped
<1>11. CASE SweeperRetries
  <2>1. /\ sw.at = "visiting" /\ sw.item.state = "FINALIZING" /\ cycles' = cycles
        /\ exec[TokenOf(sw.item)].status = "failed"
        /\ sw.item.attempt < MaxAttempts
        /\ SweepTo([sw.item EXCEPT !.attempt = sw.item.attempt + 1])
    BY <1>11 DEF SweeperRetries, Visits, RetriedOutcome, AttemptsLeft, BySweeper
  <2> QED  BY <2>1, Sweeps DEF Retried
<1>12. CASE SweeperGivesUp
  <2>1. /\ sw.at = "visiting" /\ sw.item.state = "FINALIZING" /\ cycles' = cycles
        /\ exec[TokenOf(sw.item)].status = "failed"
        /\ ~(sw.item.attempt < MaxAttempts)
        /\ SweepTo([sw.item EXCEPT !.state = "FINALIZE_FAILED"])
    BY <1>12 DEF SweeperGivesUp, Visits, AttemptsLeft, BySweeper
  <2> QED  BY <2>1, Sweeps DEF GivenUp
<1>13. CASE SweeperWithdraws
  BY <1>13 DEF SweeperWithdraws, Withdraw, PutState, Put, BySweeper, Withdrawn
<1>14. CASE HoldExpires
  BY <1>14 DEF HoldExpires, Put, Reaped
<1>15. CASE UNCHANGED <<item, cycles>>  BY <1>15
<1> QED
  BY <1>2, <1>3, <1>4, <1>5, <1>6, <1>7, <1>8, <1>9, <1>10, <1>11, <1>12, <1>13, <1>14, <1>15,
     ItemMovers DEF ItemMover

(* An opened or closed item, by the execution its tracker answers.         *)
LEMMA ClosedStates ==
  ASSUME NEW t \in Tracker, StillTheirs(tr[t])
  PROVE  \/ tr[t].e \in Run /\ Holds(tr[t].e) /\ ClosedAs(tr[t]) = "OPEN"
         \/ /\ tr[t].e \notin Run /\ Finalizes(tr[t].e)
            /\ ClosedAs(tr[t]) = IF tr[t].disposition = "rejected" THEN "REJECTED" ELSE "COMPLETE"
BY DEF StillTheirs, ClosedAs

LEMMA ItemStep ==
  ASSUME TInv, Readings, [Next]_vars
  PROVE  /\ Formed(item)'
         /\ cycles' \in 0..MaxCycles
         /\ (item.state = "NONE" \/ item.cycle = cycles)'
<1>1. Formed(item) /\ cycles \in 0..MaxCycles /\ (item.state = "NONE" \/ item.cycle = cycles)
  BY DEF TInv, ItemInv
<1>2. ItemMove  BY ItemMoves
<1>3. MaxAttempts \in Nat \ {0} /\ MaxCycles \in Nat  BY ReviewAssumption DEF ReviewAssumption
<1> USE DEF Formed, Item, Live, Ended
<1>4. ASSUME NEW e \in Execution, HeldBy(e)
      PROVE Formed(item)' /\ cycles' \in 0..MaxCycles /\ item'.cycle = cycles'
  <2>1. cycles' \in 1..MaxCycles
    BY <1>1, <1>3, <1>4 DEF HeldBy, IsLive
  <2>2. item' = [state |-> "HOLDING", cycle |-> cycles', arn |-> e,
                 disposition |-> "none", attempt |-> 0]
    BY <1>4 DEF HeldBy, NoItem
  <2> QED  BY <1>3, <2>1, <2>2
<1>5. CASE item' = item /\ cycles' = cycles  BY <1>1, <1>5
<1>6. CASE Withdrawn /\ cycles' = cycles  BY <1>1, <1>6 DEF Withdrawn, IsLive
<1>7. ASSUME NEW t \in Tracker, MovedBy(t), cycles' = cycles
      PROVE Formed(item)' /\ item'.cycle = cycles'
  BY <1>1, <1>7, ClosedStates DEF MovedBy, Holds, Finalizes
<1>8. CASE ClaimedOrReleased /\ cycles' = cycles  BY <1>1, <1>8 DEF ClaimedOrReleased
<1>9. CASE Disposed /\ cycles' = cycles
  <2>1. PICK d \in Disposition :
          item' = [item EXCEPT !.state = "FINALIZING", !.disposition = d, !.attempt = 1]
    BY <1>9 DEF Disposed
  <2>2. 1 \in 1..MaxAttempts /\ 1 \in 0..MaxAttempts  BY <1>3
  <2> QED  BY <1>1, <1>9, <2>1, <2>2 DEF Disposed
<1>10. CASE Reaped /\ cycles' = cycles  BY <1>1, <1>10, NoItemFormed DEF Reaped, NoItem
<1>11. CASE Retried /\ cycles' = cycles  BY <1>1, <1>3, <1>11 DEF Retried
<1>12. CASE GivenUp /\ cycles' = cycles  BY <1>1, <1>12 DEF GivenUp
<1> QED
  BY <1>1, <1>2, <1>4, <1>5, <1>6, <1>7, <1>8, <1>9, <1>10, <1>11, <1>12 DEF ItemMove

-----------------------------------------------------------------------------
(* What can happen to a tracker's invocation.                              *)
Loads(t) ==
  /\ tr[t].at = "idle"
  /\ \E e \in events :
       /\ (e \in Run /\ Holds(e)) \/ (e \in Token /\ Finalizes(e))
       /\ tr'[t] = [at |-> "loaded", e |-> e, cycle |-> item.cycle,
                    disposition |-> item.disposition]
  /\ UNCHANGED <<item, cycles, exec, obj, late>>

Sequences(t) ==
  /\ Loaded(t, "succeeded")
  /\ ~Removed(t)
  /\ tr'[t] = [tr[t] EXCEPT !.at = "sequenced"]
  /\ UNCHANGED <<item, cycles, exec, obj, late>>

Writes(t) ==
  /\ \/ tr[t].at = "sequenced" /\ obj' = [status |-> StatusFor(tr[t]), cycle |-> tr[t].cycle]
     \/ Loaded(t, "succeeded") /\ Removed(t) /\ obj' = NoObject
  /\ late' = ~StillTheirs(tr[t])
  /\ tr'[t] = [tr[t] EXCEPT !.at = "written"]
  /\ UNCHANGED <<item, cycles, exec>>

Decides(t) ==
  /\ TrackerRereads(t)
  /\ tr[t].at = "written"
  /\ StillTheirs(tr[t])
  /\ tr'[t] = [tr[t] EXCEPT !.at = "deciding"]
  /\ UNCHANGED <<item, cycles, exec, obj, late>>

Withdraws(t) ==
  /\ Loaded(t, "aborted")
  /\ Withdrawn
  /\ tr'[t] = [tr[t] EXCEPT !.at = "clearing", !.cycle = item.cycle]
  /\ UNCHANGED <<cycles, exec, obj, late>>

TrackMove(t) ==
  \/ tr'[t] = tr[t]
  \/ tr'[t] = NotCalled
  \/ Loads(t) \/ Sequences(t) \/ Writes(t) \/ Decides(t) \/ Withdraws(t)

TrackMover(t) == TrackerSteps(t) \/ TrackerFails(t) \/ \E e \in Execution : TrackerLoads(t, e)

LEMMA TrackMovers == [Next]_vars => (\E t \in Tracker : TrackMover(t)) \/ UNCHANGED tr
BY DEF TrackMover, Next, vars, RunSteps, RouteFinalize, RouteUnread, RoutePlain, RouteHold,
  RouteClears, EndRun,
   Elsewhere, Upload, Reprocess, StartFinalize, RetryStep, LoseEvent, Claim, Release, Repoint,
   Dispose, ByReviewer, Abort, ApiWithdraws, ApiClears, ApiFails, ApiQueues, SweeperReads,
   SweeperActs, BySweeper, SweeperWaits, SweeperReplays, SweeperReapsHold, SweeperResends,
   SweeperRetries, SweeperGivesUp, SweeperWithdraws, SweeperClears, HoldExpires

LEMMA TrackMoves == ASSUME TInv, [Next]_vars PROVE \A t \in Tracker : TrackMove(t)
<1> SUFFICES ASSUME NEW u \in Tracker PROVE TrackMove(u)  OBVIOUS
<1> USE DEF TrackMove, itemVars, runVars
<1>1. tr \in [Tracker -> Tracking]  BY DEF TInv, TrackInv
<1>2. ASSUME NEW t \in Tracker, TrackMover(t) PROVE TrackMove(u)
  <2>1. ASSUME NEW i, tr' = [tr EXCEPT ![t] = i] PROVE tr'[u] = IF u = t THEN i ELSE tr[u]
    BY <1>1, <2>1
  <2>2. ASSUME Return(t) PROVE tr'[u] = tr[u] \/ tr'[u] = NotCalled
    BY <2>1, <2>2 DEF Return
  <2>3. ASSUME NEW p, At(t, p) PROVE tr'[u] = IF u = t THEN [tr[t] EXCEPT !.at = p] ELSE tr[u]
    BY <1>1, <2>3 DEF At
  <2>4. CASE TrackerTakesSequence(t)
    <3>1. CASE At(t, "sequenced")
      BY <2>3, <2>4, <3>1 DEF TrackerTakesSequence, Sequences, Touch, Put
    <3> QED  BY <2>2, <2>4, <3>1 DEF TrackerTakesSequence
  <2>5. CASE TrackerPublishes(t)
    BY <2>3, <2>5 DEF TrackerPublishes, Publish, Writes
  <2>6. CASE TrackerUnpublishes(t)
    BY <2>3, <2>6 DEF TrackerUnpublishes, Writes
  <2>7. CASE TrackerRereads(t)
    <3>1. CASE StillTheirs(tr[t])
      BY <2>3, <2>7, <3>1 DEF TrackerRereads, Decides
    <3> QED  BY <2>2, <2>7, <3>1 DEF TrackerRereads
  <2>8. CASE TrackerMovesItem(t)  BY <2>2, <2>8 DEF TrackerMovesItem
  <2>9. CASE TrackerHandsOver(t)  BY <2>2, <2>9 DEF TrackerHandsOver
  <2>10. CASE TrackerWithdraws(t)
    <3>1. CASE IsLive
      <4>1. tr'[u] = IF u = t THEN [tr[t] EXCEPT !.at = "clearing", !.cycle = item.cycle] ELSE tr[u]
        BY <1>1, <2>10, <3>1 DEF TrackerWithdraws
      <4>2. Loaded(t, "aborted") /\ Withdrawn /\ UNCHANGED <<cycles, exec, obj, late>>
        BY <2>10, <3>1 DEF TrackerWithdraws, Withdraw, PutState, Put, Withdrawn
      <4> QED  BY <4>1, <4>2 DEF Withdraws
    <3> QED  BY <2>2, <2>10, <3>1 DEF TrackerWithdraws
  <2>11. CASE TrackerClears(t)  BY <2>2, <2>11 DEF TrackerClears
  <2>12. CASE TrackerFails(t)  BY <2>2, <2>12 DEF TrackerFails
  <2>13. ASSUME NEW e \in Execution, TrackerLoads(t, e) PROVE TrackMove(u)
    <3>1. CASE (e \in Run /\ Holds(e)) \/ (e \in Token /\ Finalizes(e))
      <4>1. tr' = [tr EXCEPT ![t] = [at |-> "loaded", e |-> e, cycle |-> item.cycle,
                                     disposition |-> item.disposition]]
        BY <2>13, <3>1 DEF TrackerLoads
      <4>2. tr[t].at = "idle" /\ e \in events /\ UNCHANGED <<item, cycles, exec, obj, late>>
        BY <2>13 DEF TrackerLoads
      <4> QED  BY <2>1, <3>1, <4>1, <4>2 DEF Loads
    <3> QED  BY <2>13, <3>1 DEF TrackerLoads
  <2> QED
    BY <1>2, <2>4, <2>5, <2>6, <2>7, <2>8, <2>9, <2>10, <2>11, <2>12, <2>13
    DEF TrackMover, TrackerSteps
<1>3. CASE UNCHANGED tr  BY <1>3
<1> QED  BY <1>2, <1>3, TrackMovers

-----------------------------------------------------------------------------
(* What can happen to the sweeper.                                         *)
SweepMove ==
  \/ sw' = sw
  \/ sw' = NotSweeping
  \/ /\ SweeperReads
     /\ sw' = [at |-> "visiting", item |-> item]
     /\ item.state \in Swept
     /\ UNCHANGED <<item, cycles>>
  \/ /\ sw' = [at |-> "clearing", item |-> item]
     /\ Withdrawn
     /\ UNCHANGED cycles

LEMMA SweepMovers == [Next]_vars => SweeperReads \/ SweeperActs \/ UNCHANGED sw
BY DEF Next, vars, RunSteps, RouteFinalize, RouteUnread, RoutePlain, RouteHold, RouteClears, EndRun,
   Elsewhere, Upload, Reprocess, StartFinalize, RetryStep, LoseEvent, Claim, Release, Repoint,
   Dispose, ByReviewer, Abort, ApiWithdraws, ApiClears, ApiFails, ApiQueues, HoldExpires,
   TrackerSteps, TrackerFails, TrackerLoads, TrackerTakesSequence, TrackerPublishes,
   TrackerUnpublishes, TrackerRereads, TrackerMovesItem, TrackerHandsOver, TrackerWithdraws,
   TrackerClears

LEMMA SweepMoves == [Next]_vars => SweepMove
<1> SUFFICES ASSUME [Next]_vars PROVE SweepMove  OBVIOUS
<1>1. CASE SweeperReads  BY <1>1 DEF SweeperReads, SweepMove
<1>2. CASE SweeperWithdraws
  BY <1>2 DEF SweeperWithdraws, SweepMove, Withdraw, PutState, Put, Leaves, Withdrawn, BySweeper
<1>3. CASE SweeperActs /\ ~SweeperWithdraws
  BY <1>3 DEF SweeperActs, SweepMove, Leaves, SweeperWaits, SweeperReplays, SweeperReapsHold,
    SweeperResends, SweeperRetries, SweeperGivesUp, SweeperClears
<1> QED  BY <1>1, <1>2, <1>3, SweepMovers DEF SweepMove

-----------------------------------------------------------------------------
(* Whose reading of the item is current.                                   *)
CurrentMove ==
  \/ current' = {}
  \/ item' = item /\ current' \subseteq current
  \/ SweeperReads
  \/ \E t \in Tracker : TrackerRereads(t)

LEMMA CurrentMoves == [Next]_vars => CurrentMove
<1> SUFFICES ASSUME [Next]_vars PROVE CurrentMove  OBVIOUS
<1> USE DEF CurrentMove, Touch, Put, PutState, Withdraw, itemVars, Elsewhere, ByReviewer
<1>1. ASSUME NEW e \in Execution,
             \/ RouteFinalize(e) \/ RouteUnread(e) \/ RoutePlain(e) \/ RouteHold(e)
                  \/ RouteClears(e) \/ EndRun(e)
             \/ RetryStep(e) \/ LoseEvent(e)
      PROVE CurrentMove
  BY <1>1 DEF RouteFinalize, RouteUnread, RoutePlain, RouteHold, RouteClears, EndRun, RetryStep,
    LoseEvent
<1>2. ASSUME NEW r \in Run, Upload(r) \/ Reprocess(r) PROVE CurrentMove
  BY <1>2 DEF Upload, Reprocess
<1>3. ASSUME NEW e \in Token, StartFinalize(e) PROVE CurrentMove
  BY <1>3 DEF StartFinalize
<1>4. ASSUME NEW t \in Tracker,
             \/ TrackerTakesSequence(t) \/ TrackerPublishes(t) \/ TrackerUnpublishes(t)
             \/ TrackerMovesItem(t) \/ TrackerHandsOver(t) \/ TrackerWithdraws(t)
             \/ TrackerClears(t) \/ TrackerFails(t) \/ \E e \in Execution : TrackerLoads(t, e)
      PROVE CurrentMove
  BY <1>4 DEF TrackerTakesSequence, TrackerPublishes, TrackerUnpublishes, TrackerMovesItem,
    TrackerHandsOver, TrackerWithdraws, TrackerClears, TrackerFails, TrackerLoads
<1>5. CASE \/ Claim \/ Release \/ Repoint \/ \E d \in Disposition : Dispose(d)
           \/ Abort \/ ApiWithdraws \/ ApiClears \/ ApiFails \/ ApiQueues \/ HoldExpires
  BY <1>5 DEF Claim, Release, Repoint, Dispose, Abort, ApiWithdraws, ApiClears, ApiFails,
    ApiQueues, HoldExpires
<1>6. CASE SweeperActs
  BY <1>6 DEF SweeperActs, SweepTo, SweeperWaits, SweeperReplays, SweeperReapsHold,
    SweeperResends, SweeperRetries, SweeperGivesUp, SweeperWithdraws, SweeperClears
<1>7. CASE UNCHANGED vars  BY <1>7 DEF vars
<1> QED
  BY <1>1, <1>2, <1>3, <1>4, <1>5, <1>6, <1>7 DEF Next, RunSteps, TrackerSteps

LEMMA ReadingsStep == ASSUME TInv, Readings, [Next]_vars PROVE Readings'
<1>1. \A t \in Tracker : TrackMove(t)  BY TrackMoves
<1>2. SweepMove  BY SweepMoves
<1>3. Sweeper \notin Tracker  BY ReviewAssumption DEF ReviewAssumption
<1>4. CASE current' = {}  BY <1>4 DEF Readings
<1>5. CASE SweeperReads
  <2>1. item' = item /\ tr' = tr /\ sw' = [at |-> "visiting", item |-> item]
        /\ current' = current \cup {Sweeper}
    BY <1>5 DEF SweeperReads, Reads, runVars
  <2> QED  BY <1>3, <2>1 DEF Readings, StillTheirs, Holds, Finalizes, TokenOf
<1>6. ASSUME NEW t \in Tracker, TrackerRereads(t) PROVE Readings'
  <2>1. item' = item /\ sw' = sw /\ current' \subseteq current \cup {t}
    BY <1>6 DEF TrackerRereads, Reads, runVars
  <2>2. ASSUME NEW u \in Tracker PROVE StillTheirs(tr[u])' <=> StillTheirs(tr'[u])
    BY <2>1 DEF StillTheirs, Holds, Finalizes, TokenOf
  <2>3. CASE StillTheirs(tr[t])
    <3>1. tr' = [tr EXCEPT ![t].at = "deciding"]  BY <1>6, <2>3 DEF TrackerRereads, At
    <3>2. \A u \in Tracker : tr'[u] = IF u = t THEN [tr[t] EXCEPT !.at = "deciding"] ELSE tr[u]
      BY <3>1 DEF TInv, TrackInv
    <3>3. StillTheirs(tr'[t])  BY <2>3, <3>2 DEF StillTheirs, TInv, TrackInv, Tracking
    <3> QED  BY <1>3, <2>1, <2>2, <3>2, <3>3 DEF Readings
  <2>4. CASE ~StillTheirs(tr[t])
    <3>1. tr' = [tr EXCEPT ![t] = NotCalled] /\ current' = current
      BY <1>6, <2>4 DEF TrackerRereads, Return
    <3>2. \A u \in Tracker : tr'[u] = IF u = t THEN NotCalled ELSE tr[u]
      BY <3>1 DEF TInv, TrackInv
    <3> QED  BY <2>1, <2>2, <3>1, <3>2 DEF Readings, NotCalled
  <2> QED  BY <2>3, <2>4
<1>7. CASE item' = item /\ current' \subseteq current /\ ~SweeperReads
           /\ ~\E t \in Tracker : TrackerRereads(t)
  <2>1. sw' = sw \/ sw'.at # "visiting"
    BY <1>2, <1>7 DEF SweepMove, NotSweeping
  <2>2. ASSUME NEW t \in Tracker, tr'[t].at = "deciding" PROVE tr'[t] = tr[t]
    <3>1. tr[t] \in Tracking  BY DEF TInv, TrackInv
    <3>2. CASE Loads(t)  BY <2>2, <3>2 DEF Loads
    <3>3. CASE Sequences(t)  BY <2>2, <3>1, <3>3 DEF Sequences, Tracking
    <3>4. CASE Writes(t)  BY <2>2, <3>1, <3>4 DEF Writes, Tracking
    <3>5. CASE Withdraws(t)  BY <2>2, <3>1, <3>5 DEF Withdraws, Tracking
    <3>6. CASE Decides(t)  BY <1>7, <3>6 DEF Decides
    <3> QED  BY <1>1, <2>2, <3>2, <3>3, <3>4, <3>5, <3>6 DEF TrackMove, NotCalled
  <2>3. ASSUME NEW t \in Tracker, tr'[t] = tr[t] PROVE StillTheirs(tr[t])' <=> StillTheirs(tr[t])
    BY <1>7, <2>3 DEF StillTheirs, Holds, Finalizes, TokenOf
  <2> QED  BY <1>7, <2>1, <2>2, <2>3 DEF Readings
<1> QED  BY <1>4, <1>5, <1>6, <1>7, CurrentMoves DEF CurrentMove

-----------------------------------------------------------------------------
(* What can happen to the status object.                                   *)
Deletes ==
  /\ obj' = NoObject
  /\ UNCHANGED <<item, cycles>>
  /\ \/ late'
     \/ item.state = "WITHDRAWN"
     \/ item.state = "HOLDING" /\ exec[item.arn].status = "running"

ObjMove ==
  \/ UNCHANGED <<obj, late>>
  \/ \E t \in Tracker : Writes(t) /\ \A u \in Tracker \ {t} : tr'[u] = tr[u]
  \/ Deletes

ObjMover ==
  \/ \E t \in Tracker : TrackerPublishes(t) \/ TrackerUnpublishes(t) \/ TrackerClears(t)
  \/ \E e \in Execution : RouteClears(e)
  \/ ApiClears \/ SweeperClears

LEMMA ObjMovers == [Next]_vars => ObjMover \/ UNCHANGED <<obj, late>>
BY DEF ObjMover, Next, vars, RunSteps, RouteFinalize, RouteUnread, RoutePlain, RouteHold, EndRun,
   Elsewhere, Upload, Reprocess, StartFinalize, RetryStep, LoseEvent, Claim, Release, Repoint,
   Dispose, ByReviewer, Abort, ApiWithdraws, ApiFails, ApiQueues, HoldExpires, SweeperReads,
   TrackerSteps, TrackerFails, TrackerLoads, TrackerTakesSequence, TrackerRereads,
   TrackerMovesItem, TrackerHandsOver, TrackerWithdraws, SweeperActs, BySweeper, SweeperWaits,
   SweeperReplays, SweeperReapsHold, SweeperResends, SweeperRetries, SweeperGivesUp,
   SweeperWithdraws

LEMMA DeleteDeletes ==
  ASSUME NEW cycle, IsWithdrawn(cycle), Delete(cycle), UNCHANGED <<item, cycles>>
  PROVE  Deletes
BY DEF IsWithdrawn, Delete, Deletes

LEMMA ObjMoves == ASSUME TInv, Clearing, [Next]_vars PROVE ObjMove
<1> USE DEF itemVars, runVars
<1>1. ASSUME NEW t \in Tracker, TrackerPublishes(t) \/ TrackerUnpublishes(t) PROVE ObjMove
  <2>1. tr' = [tr EXCEPT ![t].at = "written"]
    BY <1>1 DEF TrackerPublishes, TrackerUnpublishes, At
  <2>2. \A u \in Tracker : tr'[u] = IF u = t THEN [tr[t] EXCEPT !.at = "written"] ELSE tr[u]
    BY <2>1 DEF TInv, TrackInv
  <2>3. Writes(t)
    BY <1>1, <2>2 DEF TrackerPublishes, TrackerUnpublishes, Publish, Writes
  <2> QED  BY <2>2, <2>3 DEF ObjMove
<1>2. ASSUME NEW t \in Tracker, TrackerClears(t) PROVE ObjMove
  BY <1>2, DeleteDeletes DEF TrackerClears, Clearing, ObjMove
<1>3. ASSUME NEW e \in Execution, RouteClears(e) PROVE ObjMove
  <2>1. obj' = NoObject /\ UNCHANGED <<item, cycles>> /\ exec[e].status = "running"
    BY <1>3 DEF RouteClears
  <2>2. CASE exec[e].route = "superseding"
    <3>1. late' = ~Holds(e)  BY <1>3, <2>2 DEF RouteClears
    <3> QED  BY <2>1, <3>1 DEF ObjMove, Deletes, Holds
  <2>3. CASE exec[e].route = "withdrawing"
    <3>1. late' = (item.state # "WITHDRAWN")  BY <1>3, <2>3 DEF RouteClears
    <3> QED  BY <2>1, <3>1 DEF ObjMove, Deletes
  <2> QED  BY <1>3, <2>2, <2>3 DEF RouteClears
<1>4. CASE ApiClears
  BY <1>4, DeleteDeletes DEF ApiClears, Clearing, ObjMove
<1>5. CASE SweeperClears
  BY <1>5, DeleteDeletes DEF SweeperClears, Clearing, ObjMove
<1>6. CASE UNCHANGED <<obj, late>>  BY <1>6 DEF ObjMove
<1> QED  BY <1>1, <1>2, <1>3, <1>4, <1>5, <1>6, ObjMovers DEF ObjMover

-----------------------------------------------------------------------------
(* What can happen to the messages, the events and the API call.           *)
MsgMove(f) ==
  \/ f \in msgs
  \/ Resending /\ f = TokenOf(sw.item)
  \/ /\ Disposed \/ Retried
     /\ item'.state = "FINALIZING"
     /\ f = <<item'.cycle, item'.attempt>>

MsgMover ==
  \/ \E e \in Token : StartFinalize(e)
  \/ \E d \in Disposition : Dispose(d)
  \/ SweeperResends \/ SweeperRetries

LEMMA MsgMovers == [Next]_vars => MsgMover \/ UNCHANGED msgs
BY DEF MsgMover, Next, vars, runVars, RunSteps, RouteFinalize, RouteUnread, RoutePlain,
  RouteHold, RouteClears,
   EndRun, Elsewhere, Upload, Reprocess, RetryStep, LoseEvent, Claim, Release, Repoint, Abort,
   ApiWithdraws, ApiClears, ApiFails, ApiQueues, HoldExpires, SweeperReads, TrackerSteps,
   TrackerFails, TrackerLoads, TrackerTakesSequence, TrackerPublishes, TrackerUnpublishes,
   TrackerRereads, TrackerMovesItem, TrackerHandsOver, TrackerWithdraws, TrackerClears,
   SweeperActs, SweeperWaits, SweeperReplays, SweeperReapsHold, SweeperGivesUp, SweeperWithdraws,
   SweeperClears

LEMMA MsgMoves == ASSUME TInv, Readings, [Next]_vars, NEW f \in msgs' PROVE MsgMove(f)
<1> USE DEF MsgMove
<1>1. CASE UNCHANGED msgs  BY <1>1
<1>2. ASSUME NEW e \in Token, StartFinalize(e) PROVE MsgMove(f)  BY <1>2 DEF StartFinalize
<1>3. ASSUME NEW d \in Disposition, Dispose(d) PROVE MsgMove(f)
  <2>1. /\ msgs' \subseteq msgs \cup {<<item.cycle, 1>>}
        /\ item' = [item EXCEPT !.state = "FINALIZING", !.disposition = d, !.attempt = 1]
        /\ Disposed
    BY <1>3 DEF Dispose, Disposed, Put
  <2>2. item'.state = "FINALIZING" /\ item'.cycle = item.cycle /\ item'.attempt = 1
    BY <2>1 DEF TInv, ItemInv, Formed, Item
  <2> QED  BY <2>1, <2>2
<1>4. CASE SweeperResends
  BY <1>4 DEF SweeperResends, Sends, Visits, Resending
<1>5. CASE SweeperRetries
  <2>1. CASE Current
    <3>1. sw.item = item /\ item.state = "FINALIZING" /\ exec[TokenOf(item)].status = "failed"
          /\ item.attempt < MaxAttempts
      BY <1>5, <2>1 DEF SweeperRetries, Current, Visits, Readings, RetriedOutcome, AttemptsLeft
    <3>2. /\ msgs' \subseteq msgs \cup {<<item.cycle, item.attempt + 1>>}
          /\ item' = [item EXCEPT !.attempt = item.attempt + 1]
      BY <1>5, <2>1, <3>1 DEF SweeperRetries, Sends, SweepTo, Put
    <3>3. item'.state = "FINALIZING" /\ item'.cycle = item.cycle /\ item'.attempt = item.attempt + 1
      BY <3>1, <3>2 DEF TInv, ItemInv, Formed, Item
    <3> QED  BY <3>1, <3>2, <3>3 DEF Retried
  <2>2. CASE ~Current  BY <1>5, <2>2 DEF SweeperRetries
  <2> QED  BY <2>1, <2>2
<1> QED  BY <1>1, <1>2, <1>3, <1>4, <1>5, MsgMovers DEF MsgMover

LEMMA MsgStep == ASSUME TInv, Readings, [Next]_vars PROVE msgs' \subseteq Token
<1> SUFFICES ASSUME NEW f \in msgs' PROVE f \in Token  OBVIOUS
<1>1. CASE f \in msgs  BY <1>1 DEF TInv, RunInv
<1>2. CASE Resending /\ f = TokenOf(sw.item)
  BY <1>2, Names DEF Resending, TokenOf, TInv, SweepInv, Formed
<1>3. CASE item'.state = "FINALIZING" /\ f = <<item'.cycle, item'.attempt>>
  <2>1. Formed(item)'  BY ItemStep
  <2> QED  BY <1>3, <2>1, Names DEF Formed
<1> QED  BY <1>1, <1>2, <1>3, MsgMoves DEF MsgMove

EventMover ==
  \/ \E e \in Execution : EndRun(e) \/ LoseEvent(e)
  \/ \E t \in Tracker : TrackerFails(t) \/ \E e \in Execution : TrackerLoads(t, e)
  \/ Abort
  \/ SweeperReplays

LEMMA EventMovers == [Next]_vars => EventMover \/ UNCHANGED events
BY DEF EventMover, Next, vars, runVars, RunSteps, RouteFinalize, RouteUnread, RoutePlain, RouteHold,
   RouteClears, Elsewhere, Upload, Reprocess, RetryStep, StartFinalize, Claim, Release, Repoint,
   Dispose, ByReviewer, ApiWithdraws, ApiClears, ApiFails, ApiQueues, HoldExpires, SweeperReads,
   TrackerSteps, TrackerTakesSequence, TrackerPublishes, TrackerUnpublishes, TrackerRereads,
   TrackerMovesItem, TrackerHandsOver, TrackerWithdraws, TrackerClears, SweeperActs,
   SweeperWaits, SweeperReapsHold, SweeperResends, SweeperRetries, SweeperGivesUp,
   SweeperWithdraws, SweeperClears

LEMMA EventStep ==
  ASSUME TInv, [Next]_vars, NEW f \in events'
  PROVE  f \in Execution /\ Over(f)'
<1>1. ASSUME f \in Execution, Over(f) PROVE f \in Execution /\ Over(f)'  BY <1>1, OverStays
<1>2. CASE f \in events  BY <1>1, <1>2 DEF TInv, RunInv
<1>3. ASSUME NEW e \in Execution, exec[e].status = "running",
             NEW outcome \in {"succeeded", "failed", "aborted"}, End(e, outcome)
      PROVE f \in Execution /\ Over(f)'
  <2>1. f \in events \/ f = e  BY <1>3 DEF End
  <2>2. exec' = [exec EXCEPT ![e] =
          [status |-> outcome,
           route |-> IF e \in Token /\ outcome = "succeeded" THEN exec[e].route ELSE "none"]]
    BY <1>3 DEF End
  <2>3. exec'[e].status = outcome  BY <2>2 DEF TInv, RunInv
  <2> QED  BY <1>2, <2>1, <2>3 DEF Over
<1>4. ASSUME NEW e \in Execution, EndRun(e) PROVE f \in Execution /\ Over(f)'
  BY <1>3, <1>4 DEF EndRun
<1>5. CASE Abort
  BY <1>2, <1>3, <1>5 DEF Abort
<1>6. ASSUME NEW e \in Execution, LoseEvent(e) PROVE f \in Execution /\ Over(f)'
  BY <1>2, <1>6 DEF LoseEvent
<1>7. ASSUME NEW t \in Tracker, TrackerFails(t) PROVE f \in Execution /\ Over(f)'
  BY <1>1, <1>2, <1>7 DEF TrackerFails, TInv, TrackInv
<1>8. ASSUME NEW t \in Tracker, NEW e \in Execution, TrackerLoads(t, e)
      PROVE f \in Execution /\ Over(f)'
  BY <1>2, <1>8 DEF TrackerLoads
<1>9. CASE SweeperReplays
  <2>1. PICK e : /\ events' = events \cup {e}
                 /\ exec[e].status = "succeeded"
                 /\ \/ sw.item.state = "HOLDING" /\ e = sw.item.arn
                    \/ sw.item.state = "FINALIZING" /\ e = TokenOf(sw.item)
    <3>1. CASE Visits("HOLDING", {"succeeded"})
      BY <1>9, <3>1 DEF SweeperReplays, Visits
    <3>2. CASE Visits("FINALIZING", {"succeeded"})
      BY <1>9, <3>2 DEF SweeperReplays, Visits
    <3> QED  BY <1>9, <3>1, <3>2 DEF SweeperReplays
  <2>2. e \in Execution
    BY <2>1, Names DEF TokenOf, TInv, SweepInv, Formed, Execution
  <2> QED  BY <1>1, <1>2, <2>1, <2>2 DEF Over
<1> QED
  BY <1>2, <1>4, <1>5, <1>6, <1>7, <1>8, <1>9, EventMovers DEF EventMover

ApiMove ==
  \/ api' = NoCall
  \/ api' = api /\ (api.run \in Run => exec'[api.run].status = "none")
  \/ /\ api'.at = "withdrawing" /\ api'.cycle = 0
     /\ api'.run = <<0, 0>> \/ (api'.run \in Run /\ exec'[api'.run].status = "none")
     /\ api' \in [at : {"withdrawing"}, cycle : {0}, run : Run \cup {<<0, 0>>}]
  \/ /\ api' = [api EXCEPT !.at = "clearing", !.cycle = item.cycle]
     /\ Withdrawn
     /\ UNCHANGED <<cycles, exec>>
  \/ /\ api' = [api EXCEPT !.at = "queueing"]
     /\ api.run \in Run
     /\ UNCHANGED exec

ApiMover ==
  \/ \E r \in Run : Reprocess(r)
  \/ Abort \/ ApiWithdraws \/ ApiClears \/ ApiFails \/ ApiQueues

LEMMA ApiMovers == [Next]_vars => ApiMover \/ UNCHANGED api
BY DEF ApiMover, Next, vars, RunSteps, RouteFinalize, RouteUnread, RoutePlain, RouteHold,
  RouteClears,
   EndRun, Elsewhere, Upload, RetryStep, LoseEvent, StartFinalize, Claim, Release, Repoint,
   Dispose, ByReviewer, HoldExpires, SweeperReads, BySweeper, TrackerFails, TrackerLoads,
   TrackerSteps, TrackerTakesSequence, TrackerPublishes, TrackerUnpublishes, TrackerRereads,
   TrackerMovesItem, TrackerHandsOver, TrackerWithdraws, TrackerClears, SweeperActs,
   SweeperWaits, SweeperReplays, SweeperReapsHold, SweeperResends, SweeperRetries,
   SweeperGivesUp, SweeperWithdraws, SweeperClears

(* The run a reprocess is about is started by its own call alone.          *)
LEMMA ReprocessedRun ==
  ASSUME TInv, [Next]_vars, UNCHANGED api, api.run \in Run
  PROVE  exec'[api.run].status = "none"
<1>1. exec[api.run].status = "none" /\ api.run \in Execution /\ api.run \notin Token
  BY Names DEF TInv, ApiInv, Execution
<1>2. exec \in [Execution -> [status : ExecStatus, route : Route]]  BY DEF TInv, RunInv
<1>3. ASSUME NEW e \in Execution, e # api.run, NEW i, exec' = [exec EXCEPT ![e] = i]
      PROVE exec'[api.run].status = "none"
  BY <1>1, <1>2, <1>3
<1>4. ASSUME NEW e \in Execution,
             \/ RouteFinalize(e) \/ RouteUnread(e) \/ RoutePlain(e) \/ RouteHold(e)
                  \/ RouteClears(e)
             \/ RetryStep(e) \/ EndRun(e)
      PROVE exec'[api.run].status = "none"
  <2>1. e # api.run
    BY <1>1, <1>4 DEF RouteFinalize, RouteUnread, RoutePlain, RouteHold, RouteClears, RetryStep,
      EndRun, Routing
  <2>2. \E i : exec' = [exec EXCEPT ![e] = i]
    BY <1>2, <1>4 DEF RouteFinalize, RouteUnread, RoutePlain, RouteHold, RouteClears, RetryStep,
      EndRun,
      RoutedAs, End
  <2> QED  BY <1>3, <2>1, <2>2
<1>5. ASSUME NEW r \in Run, Upload(r) PROVE exec'[api.run].status = "none"
  <2>1. r # api.run /\ r \in Execution /\ exec' = [exec EXCEPT ![r].status = "running"]
    BY <1>5 DEF Upload, Starts, Execution
  <2> QED  BY <1>1, <1>2, <2>1
<1>6. ASSUME NEW e \in Token, StartFinalize(e) PROVE exec'[api.run].status = "none"
  <2>1. e # api.run /\ e \in Execution  BY <1>1 DEF Execution
  <2>2. exec' = exec \/ exec' = [exec EXCEPT ![e].status = "running"]
    BY <1>6 DEF StartFinalize
  <2> QED  BY <1>1, <1>2, <2>1, <2>2
<1>7. CASE Abort
  <2>1. exec' = exec \/ \E e \in Execution : exec[e].status = "running" /\ End(e, "aborted")
    BY <1>7 DEF Abort
  <2>2. exec' = exec \/ \E e \in Execution : exec[e].status = "running"
      /\ \E i : exec' = [exec EXCEPT ![e] = i]
    BY <2>1 DEF End
  <2> QED  BY <1>1, <1>3, <2>2
<1>8. CASE ApiQueues  BY <1>8 DEF ApiQueues, NoCall
<1>9. CASE UNCHANGED exec  BY <1>1, <1>9
<1> QED
  BY <1>4, <1>5, <1>6, <1>7, <1>8, <1>9, ExecMovers DEF ExecMover, RunSteps

LEMMA ApiMoves == ASSUME TInv, [Next]_vars PROVE ApiMove
<1> USE DEF runVars, itemVars
<1>1. /\ api \in [at : {"idle", "withdrawing", "clearing", "queueing"},
                  cycle : 0..MaxCycles, run : Run \cup {<<0, 0>>}]
      /\ api.at = "idle" => api = NoCall
      /\ api.run \in Run => exec[api.run].status = "none"
  BY DEF TInv, ApiInv
<1>2. <<0, 0>> \notin Run  BY Names DEF Execution
<1>3. ASSUME NEW r \in Run, Reprocess(r) PROVE ApiMove
  <2>1. api' = [at |-> "withdrawing", cycle |-> 0, run |-> r]
    BY <1>3 DEF Reprocess, NoCall
  <2>2. exec'[r].status = "none"  BY <1>3 DEF Reprocess, IsNext
  <2> QED  BY <2>1, <2>2 DEF ApiMove
<1>4. CASE Abort
  <2>1. api = NoCall /\ api' = [api EXCEPT !.at = "withdrawing"]  BY <1>1, <1>4 DEF Abort
  <2>2. api' = [at |-> "withdrawing", cycle |-> 0, run |-> <<0, 0>>]  BY <2>1 DEF NoCall
  <2> QED  BY <2>2 DEF ApiMove
<1>5. CASE api' = AfterClear /\ UNCHANGED exec  BY <1>5 DEF AfterClear, ApiMove
<1>6. CASE ApiWithdraws
  <2>1. CASE IsLive
    BY <1>6, <2>1 DEF ApiWithdraws, Withdraw, PutState, Put, Withdrawn, ApiMove
  <2> QED  BY <1>5, <1>6, <2>1 DEF ApiWithdraws
<1>7. CASE ApiClears \/ ApiFails  BY <1>5, <1>7 DEF ApiClears, ApiFails
<1>8. CASE ApiQueues  BY <1>8 DEF ApiQueues, ApiMove
<1>9. CASE UNCHANGED api  BY <1>9, ReprocessedRun DEF ApiMove
<1> QED  BY <1>3, <1>4, <1>6, <1>7, <1>8, <1>9, ApiMovers DEF ApiMover

LEMMA ApiStep == ASSUME TInv, [Next]_vars PROVE ApiInv'
<1>1. ApiInv  BY DEF TInv
<1>2. <<0, 0>> \notin Run  BY Names DEF Execution
<1>3. 0 \in 0..MaxCycles  BY ReviewAssumption DEF ReviewAssumption
<1>4. CASE api' = NoCall  BY <1>2, <1>3, <1>4 DEF ApiInv, NoCall
<1>5. CASE api' = api /\ (api.run \in Run => exec'[api.run].status = "none")
  BY <1>1, <1>5 DEF ApiInv
<1>6. CASE /\ api'.at = "withdrawing" /\ api'.cycle = 0
           /\ api'.run = <<0, 0>> \/ (api'.run \in Run /\ exec'[api'.run].status = "none")
           /\ api' \in [at : {"withdrawing"}, cycle : {0}, run : Run \cup {<<0, 0>>}]
  BY <1>2, <1>3, <1>6 DEF ApiInv
<1>7. CASE /\ api' = [api EXCEPT !.at = "clearing", !.cycle = item.cycle]
           /\ UNCHANGED exec
  <2>1. item.cycle \in 0..MaxCycles  BY DEF TInv, ItemInv, Formed, Item
  <2> QED  BY <1>1, <1>7, <2>1 DEF ApiInv
<1>8. CASE api' = [api EXCEPT !.at = "queueing"] /\ api.run \in Run /\ UNCHANGED exec
  BY <1>1, <1>8 DEF ApiInv
<1> QED  BY <1>4, <1>5, <1>6, <1>7, <1>8, ApiMoves DEF ApiMove

-----------------------------------------------------------------------------
(* The types are preserved.                                                *)
LEMMA TrackShape == ASSUME TInv, [Next]_vars PROVE tr' = [t \in Tracker |-> tr'[t]]
<1>1. tr \in [Tracker -> Tracking]  BY DEF TInv, TrackInv
<1>2. ASSUME NEW t \in Tracker, TrackMover(t) PROVE tr' = [u \in Tracker |-> tr'[u]]
  <2>1. ASSUME NEW i, tr' = [tr EXCEPT ![t] = i] PROVE tr' = [u \in Tracker |-> tr'[u]]
    BY <1>1, <2>1
  <2>2. ASSUME NEW p, At(t, p) PROVE tr' = [u \in Tracker |-> tr'[u]]
    BY <1>1, <2>2 DEF At
  <2>3. CASE Return(t)  BY <2>1, <2>3 DEF Return
  <2>4. CASE UNCHANGED tr  BY <1>1, <2>4
  <2>5. CASE tr' = [tr EXCEPT ![t].at = "clearing", ![t].cycle = item.cycle]  BY <1>1, <2>5
  <2>6. ASSUME NEW e \in Execution, TrackerLoads(t, e) PROVE tr' = [u \in Tracker |-> tr'[u]]
    BY <2>1, <2>4, <2>6 DEF TrackerLoads
  <2>7. CASE \/ TrackerTakesSequence(t) \/ TrackerPublishes(t) \/ TrackerUnpublishes(t)
             \/ TrackerRereads(t) \/ TrackerMovesItem(t) \/ TrackerHandsOver(t)
             \/ TrackerClears(t) \/ TrackerFails(t)
    BY <2>2, <2>3, <2>7
    DEF TrackerTakesSequence, TrackerPublishes, TrackerUnpublishes, TrackerRereads,
        TrackerMovesItem, TrackerHandsOver, TrackerClears, TrackerFails
  <2>8. CASE TrackerWithdraws(t)  BY <2>3, <2>5, <2>8 DEF TrackerWithdraws
  <2> QED  BY <1>2, <2>6, <2>7, <2>8 DEF TrackMover, TrackerSteps
<1> QED  BY <1>1, <1>2, TrackMovers

LEMMA TrackStep == ASSUME TInv, [Next]_vars PROVE TrackInv'
<1> DEFINE OverNext(e) == exec'[e].status \in {"succeeded", "failed", "aborted"}
<1>1. ASSUME NEW t \in Tracker
      PROVE tr'[t] \in Tracking /\ (tr'[t].at # "idle" => tr'[t].e \in Execution
          /\ OverNext(tr'[t].e))
  <2>1. /\ tr[t] \in Tracking
        /\ tr[t].at # "idle" => tr[t].e \in Execution /\ Over(tr[t].e)
    BY DEF TInv, TrackInv
  <2>2. \A e \in Execution : Over(e) => OverNext(e)  BY OverStays DEF Over
  <2>3. item.cycle \in 0..MaxCycles /\ item.disposition \in Disposition \cup {"none"}
    BY DEF TInv, ItemInv, Formed, Item
  <2> HIDE DEF OverNext
  <2>4. CASE tr'[t] = tr[t]  BY <2>1, <2>2, <2>4
  <2>5. CASE tr'[t] = NotCalled
    <3>1. 0 \in 0..MaxCycles  BY ReviewAssumption DEF ReviewAssumption
    <3> QED  BY <2>5, <3>1 DEF NotCalled, Tracking
  <2>6. CASE Loads(t)
    <3>1. PICK e \in events :
            tr'[t] = [at |-> "loaded", e |-> e, cycle |-> item.cycle,
                      disposition |-> item.disposition]
      BY <2>6 DEF Loads
    <3>2. e \in Execution /\ OverNext(e)  BY <2>2 DEF TInv, RunInv
    <3> QED  BY <2>3, <3>1, <3>2 DEF Tracking
  <2>7. ASSUME tr[t].at # "idle",
               NEW p \in {"sequenced", "written", "deciding"}, tr'[t] = [tr[t] EXCEPT !.at = p]
        PROVE tr'[t] \in Tracking /\ tr'[t].e \in Execution /\ OverNext(tr'[t].e)
    <3>1. tr'[t] \in Tracking /\ tr'[t].e = tr[t].e  BY <2>1, <2>7 DEF Tracking
    <3> QED  BY <2>1, <2>2, <2>7, <3>1
  <2>8. CASE Sequences(t)  BY <2>7, <2>8 DEF Sequences, Loaded
  <2>9. CASE Writes(t)  BY <2>7, <2>9 DEF Writes, Loaded
  <2>10. CASE Decides(t)  BY <2>7, <2>10 DEF Decides
  <2>11. CASE Withdraws(t)
    <3>1. tr'[t] \in Tracking /\ tr'[t].e = tr[t].e
      BY <2>1, <2>3, <2>11 DEF Withdraws, Tracking
    <3> QED  BY <2>1, <2>2, <2>11, <3>1 DEF Withdraws, Loaded
  <2> QED
    BY <2>4, <2>5, <2>6, <2>8, <2>9, <2>10, <2>11, TrackMoves DEF TrackMove
<1> QED  BY <1>1, TrackShape DEF TrackInv, Over

LEMMA ObjStep == ASSUME TInv, Clearing, [Next]_vars PROVE ObjInv'
<1>1. CASE UNCHANGED <<obj, late>>  BY <1>1 DEF TInv, ObjInv
<1>2. ASSUME NEW t \in Tracker, Writes(t) PROVE ObjInv'
  <2>1. tr[t].cycle \in 0..MaxCycles  BY DEF TInv, TrackInv, Tracking
  <2>2. StatusFor(tr[t]) \in {"none", "in_review", "complete", "rejected"}  BY DEF StatusFor
  <2>3. NoObject \in [status : {"none", "in_review", "complete", "rejected"}, cycle : 0..MaxCycles]
    BY ReviewAssumption DEF ReviewAssumption, NoObject
  <2> QED  BY <1>2, <2>1, <2>2, <2>3 DEF Writes, ObjInv
<1>3. CASE Deletes
  <2>1. 0 \in 0..MaxCycles  BY ReviewAssumption DEF ReviewAssumption
  <2> QED  BY <1>3, <2>1 DEF Deletes, NoObject, ObjInv
<1> QED  BY <1>1, <1>2, <1>3, ObjMoves DEF ObjMove

LEMMA SweepStep == ASSUME TInv, [Next]_vars PROVE SweepInv'
<1>1. SweepInv /\ Formed(item)  BY DEF TInv, ItemInv
<1>2. CASE sw' = sw  BY <1>1, <1>2 DEF SweepInv, Formed
<1>3. CASE sw' = NotSweeping  BY <1>3, NoItemFormed DEF SweepInv, Formed, NotSweeping
<1>4. CASE sw' = [at |-> "visiting", item |-> item] /\ item.state \in Swept
  BY <1>1, <1>4 DEF SweepInv, Formed, Swept
<1>5. CASE sw' = [at |-> "clearing", item |-> item]
  BY <1>1, <1>5 DEF SweepInv, Formed
<1> QED  BY <1>2, <1>3, <1>4, <1>5, SweepMoves DEF SweepMove

LEMMA FaultMoves == [Next]_vars => UNCHANGED faults \/ Fault
BY DEF Next, vars, RunSteps, RouteFinalize, RouteUnread, RoutePlain, RouteHold, RouteClears, EndRun,
   Elsewhere, Upload, Reprocess, RetryStep, LoseEvent, StartFinalize, Claim, Release, Repoint,
   Dispose, Abort, ApiWithdraws, ApiClears, ApiFails, ApiQueues, HoldExpires, SweeperReads,
   TrackerFails, TrackerLoads, TrackerSteps, TrackerTakesSequence, TrackerPublishes,
   TrackerUnpublishes, TrackerRereads, TrackerMovesItem, TrackerHandsOver, TrackerWithdraws,
   TrackerClears, SweeperActs, SweeperWaits, SweeperReplays, SweeperReapsHold, SweeperResends,
   SweeperRetries, SweeperGivesUp, SweeperWithdraws, SweeperClears, Sends

LEMMA AbortedMoves == [Next]_vars => aborted' \in {aborted, TRUE, FALSE}
BY DEF Next, vars, runVars, RunSteps, RouteFinalize, RouteUnread, RoutePlain, RouteHold,
  RouteClears, EndRun,
   Elsewhere, Upload, Reprocess, RetryStep, LoseEvent, StartFinalize, Claim, Release, Repoint,
   Dispose, ByReviewer, Abort, ApiWithdraws, ApiClears, ApiFails, ApiQueues, Starts, HoldExpires,
   SweeperReads, BySweeper, TrackerFails, TrackerLoads, TrackerSteps, TrackerTakesSequence,
   TrackerPublishes, TrackerUnpublishes, TrackerRereads, TrackerMovesItem, TrackerHandsOver,
   TrackerWithdraws, TrackerClears, SweeperActs, SweeperWaits, SweeperReplays, SweeperReapsHold,
   SweeperResends, SweeperRetries, SweeperGivesUp, SweeperWithdraws, SweeperClears

LEMMA LateMoves == [Next]_vars => late' \in {late, TRUE, FALSE}
<1> SUFFICES ASSUME ObjMover PROVE late' \in {TRUE, FALSE}  BY ObjMovers
<1> QED
  BY Zenon DEF ObjMover, TrackerPublishes, TrackerUnpublishes, TrackerClears, RouteClears,
    ApiClears, SweeperClears, Delete

LEMMA CountStep == ASSUME TInv, [Next]_vars PROVE CountInv'
<1>1. faults' \in 0..MaxFaults
  <2>1. faults \in 0..MaxFaults /\ MaxFaults \in Nat
    BY ReviewAssumption DEF TInv, CountInv, ReviewAssumption
  <2> QED  BY <2>1, FaultMoves DEF Fault
<1>2. aborted' \in BOOLEAN /\ late' \in BOOLEAN
  BY AbortedMoves, LateMoves, Zenon DEF TInv, CountInv
<1> QED  BY <1>1, <1>2 DEF CountInv

LEMMA CurrentStep == ASSUME TInv, [Next]_vars PROVE current' \subseteq Tracker \cup {Sweeper}
<1>1. current \subseteq Tracker \cup {Sweeper}  BY DEF TInv, ItemInv
<1>2. CASE SweeperReads  BY <1>1, <1>2 DEF SweeperReads, Reads
<1>3. ASSUME NEW t \in Tracker, TrackerRereads(t) PROVE current' \subseteq Tracker \cup {Sweeper}
  BY <1>1, <1>3 DEF TrackerRereads, Reads
<1> QED  BY <1>1, <1>2, <1>3, CurrentMoves DEF CurrentMove

LEMMA ExecShape == ASSUME TInv, [Next]_vars PROVE exec' = [e \in Execution |-> exec'[e]]
<1>1. exec \in [Execution -> [status : ExecStatus, route : Route]]  BY DEF TInv, RunInv
<1>2. ASSUME NEW e \in Execution, NEW i, exec' = [exec EXCEPT ![e] = i]
      PROVE exec' = [f \in Execution |-> exec'[f]]
  BY <1>1, <1>2
<1>3. ASSUME NEW e \in Execution,
             \/ RouteFinalize(e) \/ RouteUnread(e) \/ RoutePlain(e) \/ RouteHold(e)
                  \/ RouteClears(e)
             \/ RetryStep(e) \/ EndRun(e)
      PROVE exec' = [f \in Execution |-> exec'[f]]
  <2>1. \E i : exec' = [exec EXCEPT ![e] = i]
    BY <1>1, <1>3 DEF RouteFinalize, RouteUnread, RoutePlain, RouteHold, RouteClears, RetryStep,
      EndRun,
      RoutedAs, End
  <2> QED  BY <1>2, <2>1
<1>4. ASSUME NEW e \in Execution, exec' = [exec EXCEPT ![e].status = "running"]
      PROVE exec' = [f \in Execution |-> exec'[f]]
  BY <1>1, <1>4
<1>5. ASSUME NEW r \in Run, Upload(r) PROVE exec' = [f \in Execution |-> exec'[f]]
  BY <1>4, <1>5 DEF Upload, Starts, Execution
<1>6. ASSUME NEW e \in Token, StartFinalize(e) PROVE exec' = [f \in Execution |-> exec'[f]]
  BY <1>1, <1>4, <1>6 DEF StartFinalize, Execution
<1>7. CASE Abort
  <2>1. exec' = exec \/ \E e \in Execution : \E i : exec' = [exec EXCEPT ![e] = i]
    BY <1>7 DEF Abort, End
  <2> QED  BY <1>1, <1>2, <2>1
<1>8. CASE ApiQueues
  BY <1>4, <1>8 DEF ApiQueues, Starts, TInv, ApiInv, Execution
<1>9. CASE UNCHANGED exec  BY <1>1, <1>9
<1> QED
  BY <1>3, <1>5, <1>6, <1>7, <1>8, <1>9, ExecMovers DEF ExecMover, RunSteps

LEMMA ExecStep ==
  ASSUME TInv, [Next]_vars
  PROVE  /\ exec' \in [Execution -> [status : ExecStatus, route : Route]]
         /\ \A e \in Execution : exec'[e].status = "none" => exec'[e].route = "none"
<1>1. ASSUME NEW e \in Execution
      PROVE /\ exec'[e] \in [status : ExecStatus, route : Route]
            /\ exec'[e].status = "none" => exec'[e].route = "none"
  <2>1. /\ exec[e] \in [status : ExecStatus, route : Route]
        /\ exec[e].status = "none" => exec[e].route = "none"
    BY DEF TInv, RunInv
  <2>2. CASE exec'[e] = exec[e]  BY <2>1, <2>2
  <2>3. CASE Starting(e)  BY <2>1, <2>3 DEF Starting, ExecStatus
  <2>4. CASE Rerouting(e)  BY <2>1, <2>4 DEF Rerouting
  <2>5. CASE Ending(e)  BY <2>5 DEF Ending, ExecStatus
  <2> QED  BY <2>2, <2>3, <2>4, <2>5, ExecMoves DEF ExecMove
<1> QED  BY <1>1, ExecShape

LEMMA TInvStep == ASSUME TInv, Readings, Clearing, [Next]_vars PROVE TInv'
<1>1. ItemInv'  BY ItemStep, CurrentStep DEF ItemInv
<1>2. RunInv'  BY ExecStep, MsgStep, EventStep DEF RunInv
<1>3. ObjInv' /\ TrackInv' /\ SweepInv' /\ ApiInv' /\ CountInv'
  BY ObjStep, TrackStep, SweepStep, ApiStep, CountStep
<1> QED  BY <1>1, <1>2, <1>3 DEF TInv

-----------------------------------------------------------------------------
(* What an execution and an item have to do with each other.               *)
LEMMA ItemForm ==
  ASSUME TInv
  PROVE  /\ Formed(item)
         /\ item \in Item
         /\ cycles \in 0..MaxCycles
         /\ item.state # "NONE" => item.cycle = cycles /\ cycles \in 1..MaxCycles
         /\ MaxAttempts \in Nat \ {0} /\ MaxCycles \in Nat
BY ReviewAssumption DEF TInv, ItemInv, Formed, ReviewAssumption

(* A document is held by a run that goes on holding it, or by a run that   *)
(* is under way.                                                           *)
LEMMA HoldsStep ==
  ASSUME TInv, Readings, [Next]_vars, NEW e \in Execution, item'.state = "HOLDING", item'.arn = e
  PROVE  UNCHANGED <<item, cycles>> \/ exec[e].status = "running"
<1>1. Formed(item) /\ item \in Item  BY ItemForm
<1>2. ItemMove  BY ItemMoves
<1>3. ASSUME NEW f \in Execution, HeldBy(f) PROVE exec[e].status = "running"
  <2>1. item' = [state |-> "HOLDING", cycle |-> cycles', arn |-> f,
                 disposition |-> "none", attempt |-> 0]
    BY <1>3 DEF HeldBy, NoItem
  <2> QED  BY <1>3, <2>1 DEF HeldBy
<1>4. ASSUME NEW s, item' = [item EXCEPT !.state = s], s # "HOLDING" PROVE FALSE
  BY <1>1, <1>4 DEF Item
<1>5. CASE Withdrawn  BY <1>4, <1>5 DEF Withdrawn
<1>6. ASSUME NEW t \in Tracker, MovedBy(t) PROVE FALSE
  BY <1>4, <1>6 DEF MovedBy, ClosedAs
<1>7. CASE ClaimedOrReleased  BY <1>4, <1>7 DEF ClaimedOrReleased
<1>8. CASE Disposed  BY <1>1, <1>8 DEF Disposed, Item
<1>9. CASE Reaped  BY <1>9 DEF Reaped, NoItem
<1>10. CASE Retried  BY <1>1, <1>10 DEF Retried, Item
<1>11. CASE GivenUp  BY <1>4, <1>11 DEF GivenUp
<1> QED  BY <1>2, <1>3, <1>5, <1>6, <1>7, <1>8, <1>9, <1>10, <1>11 DEF ItemMove

(* An item waits for the finalize execution it waited for, or has just     *)
(* come to one where it never was.                                         *)
LEMMA FinalizesStep ==
  ASSUME TInv, Readings, [Next]_vars, item'.state = "FINALIZING"
  PROVE  \/ UNCHANGED <<item, cycles>>
         \/ /\ cycles' = cycles /\ item'.cycle = item.cycle /\ item'.arn = item.arn
            /\ item.cycle = cycles
            /\ \/ item.state \in {"OPEN", "CLAIMED"} /\ item'.attempt = 1
               \/ /\ item.state = "FINALIZING"
                  /\ exec[TokenOf(item)].status = "failed"
                  /\ item.attempt \in 1..MaxAttempts
                  /\ item'.attempt = item.attempt + 1
                  /\ item'.disposition = item.disposition
<1>1. Formed(item) /\ item \in Item /\ (item.state # "NONE" => item.cycle = cycles)  BY ItemForm
<1>2. ItemMove  BY ItemMoves
<1>3. ASSUME NEW f \in Execution, HeldBy(f) PROVE FALSE
  BY <1>3 DEF HeldBy, NoItem
<1>4. ASSUME NEW s, item' = [item EXCEPT !.state = s], s # "FINALIZING" PROVE FALSE
  BY <1>1, <1>4 DEF Item
<1>5. CASE Withdrawn  BY <1>4, <1>5 DEF Withdrawn
<1>6. ASSUME NEW t \in Tracker, MovedBy(t) PROVE FALSE
  BY <1>4, <1>6 DEF MovedBy, ClosedAs
<1>7. CASE ClaimedOrReleased  BY <1>4, <1>7 DEF ClaimedOrReleased
<1>8. CASE Disposed /\ cycles' = cycles  BY <1>1, <1>8 DEF Disposed, Item
<1>9. CASE Reaped  BY <1>9 DEF Reaped, NoItem
<1>10. CASE Retried /\ cycles' = cycles  BY <1>1, <1>10 DEF Retried, Item, Formed
<1>11. CASE GivenUp  BY <1>4, <1>11 DEF GivenUp
<1> QED  BY <1>2, <1>3, <1>5, <1>6, <1>7, <1>8, <1>9, <1>10, <1>11 DEF ItemMove

LEMMA NeverAnew ==
  ASSUME TInv, Readings, OncePerReview, [Next]_vars, NEW e \in Token,
         item'.state = "FINALIZING", e = <<item'.cycle, item'.attempt>>
  PROVE  UNCHANGED <<item, cycles>> \/ ~Issued(e)
<1> SUFFICES ASSUME ~UNCHANGED <<item, cycles>>, Issued(e) PROVE FALSE  OBVIOUS
<1>1. Past(e)  BY DEF OncePerReview
<1>2. e[1] = item'.cycle /\ e[2] = item'.attempt  OBVIOUS
<1>3. item \in Item /\ cycles \in 0..MaxCycles /\ MaxCycles \in Nat  BY ItemForm
<1> QED
  BY <1>1, <1>2, <1>3, FinalizesStep DEF Past, Ended, Item

LEMMA IssuedStep ==
  ASSUME TInv, Readings, [Next]_vars, NEW f \in Token, Issued(f)'
  PROVE  \/ Issued(f)
         \/ Resending /\ f = TokenOf(sw.item)
         \/ item'.state = "FINALIZING" /\ f = <<item'.cycle, item'.attempt>>
<1>1. CASE f \in msgs'  BY <1>1, MsgMoves DEF MsgMove, Issued
<1>2. CASE exec'[f].status # "none"
  <2>1. ExecMove(f)  BY ExecMoves DEF Execution
  <2> QED  BY <1>2, <2>1 DEF ExecMove, Issued, Starting, Rerouting, Ending
<1> QED  BY <1>1, <1>2 DEF Issued

LEMMA ResendingStep ==
  ASSUME [Next]_vars, Resending'
  PROVE  \/ Resending /\ sw' = sw
         \/ item.state = "FINALIZING" /\ sw'.item = item /\ UNCHANGED <<item, cycles>>
BY SweepMoves DEF SweepMove, Resending, NotSweeping

-----------------------------------------------------------------------------
-----------------------------------------------------------------------------
(* Each part of the invariant is preserved.                                *)
LEMMA OpenedStep == ASSUME TInv, Readings, OpenedAfterItsRun, [Next]_vars PROVE OpenedAfterItsRun'
<1> SUFFICES ASSUME item'.state \in {"OPEN", "CLAIMED", "FINALIZING"}
             PROVE  exec'[item'.arn].status \in {"succeeded", "failed", "aborted"}
  BY DEF OpenedAfterItsRun, Over
<1>1. Formed(item) /\ item \in Item  BY ItemForm
<1>2. ItemMove  BY ItemMoves
<1>3. ASSUME NEW e \in Execution, Over(e), item'.arn = e
      PROVE exec'[item'.arn].status \in {"succeeded", "failed", "aborted"}
  BY <1>3, OverStays DEF Over
<1>4. ASSUME item.state \in {"OPEN", "CLAIMED", "FINALIZING"}, item'.arn = item.arn
      PROVE exec'[item'.arn].status \in {"succeeded", "failed", "aborted"}
  BY <1>1, <1>3, <1>4 DEF OpenedAfterItsRun, Formed
<1>5. CASE item'.state = "FINALIZING"  BY <1>4, <1>5, FinalizesStep
<1>6. ASSUME NEW f \in Execution, HeldBy(f) PROVE item'.state = "HOLDING"
  BY <1>6 DEF HeldBy, NoItem
<1>7. ASSUME NEW s, item' = [item EXCEPT !.state = s] PROVE item'.state = s /\ item'.arn = item.arn
  BY <1>1, <1>7 DEF Item
<1>8. CASE item' = item  BY <1>4, <1>8
<1>9. CASE Withdrawn  BY <1>7, <1>9 DEF Withdrawn
<1>10. ASSUME NEW t \in Tracker, MovedBy(t), item'.state = "OPEN"
       PROVE exec'[item'.arn].status \in {"succeeded", "failed", "aborted"}
  <2>1. Holds(tr[t].e) /\ item'.arn = item.arn
    BY <1>7, <1>10, ClosedStates DEF MovedBy
  <2>2. tr[t].e \in Execution /\ Over(tr[t].e)  BY <1>10 DEF TInv, TrackInv, MovedBy
  <2> QED  BY <1>3, <2>1, <2>2 DEF Holds
<1>11. ASSUME NEW t \in Tracker, MovedBy(t) PROVE item'.state \in {"OPEN", "REJECTED", "COMPLETE"}
  BY <1>7, <1>11 DEF MovedBy, ClosedAs
<1>12. CASE ClaimedOrReleased  BY <1>4, <1>7, <1>12 DEF ClaimedOrReleased
<1>13. CASE Disposed  BY <1>1, <1>5, <1>13 DEF Disposed, Item
<1>14. CASE Reaped  BY <1>14 DEF Reaped, NoItem
<1>15. CASE Retried  BY <1>1, <1>5, <1>15 DEF Retried, Item
<1>16. CASE GivenUp  BY <1>7, <1>16 DEF GivenUp
<1> QED
  BY <1>2, <1>5, <1>6, <1>8, <1>9, <1>10, <1>11, <1>12, <1>13, <1>14, <1>15, <1>16 DEF ItemMove

LEMMA EarlierStays ==
  ASSUME TInv, [Next]_vars, NEW e \in Token, Earlier(e)
  PROVE  \A n \in 1..MaxAttempts : n < e[2] => exec'[<<e[1], n>>].status = "failed"
BY Names, OverStays DEF Earlier, Over, Execution

LEMMA InOrderStep == ASSUME TInv, Readings, InOrder, [Next]_vars PROVE InOrder'
<1>1. Formed(item)' /\ TInv  BY ItemStep
<1>2. ASSUME item'.state = "FINALIZING", NEW n \in 1..MaxAttempts, n < item'.attempt
      PROVE exec'[<<item'.cycle, n>>].status = "failed"
  <2>1. Formed(item) /\ item \in Item  BY ItemForm
  <2>2. CASE item' = item
    <3>1. TokenOf(item) \in Token /\ Earlier(TokenOf(item))
      BY <1>2, <2>1, <2>2, Names DEF InOrder, TokenOf, Formed
    <3> QED  BY <1>2, <2>2, <3>1, EarlierStays DEF TokenOf
  <2>3. CASE item'.attempt = 1  BY <1>2, <2>3
  <2>4. CASE /\ item'.cycle = item.cycle /\ item.state = "FINALIZING"
             /\ exec[TokenOf(item)].status = "failed"
             /\ item.attempt \in 1..MaxAttempts
             /\ item'.attempt = item.attempt + 1
    <3>1. TokenOf(item) \in Token /\ Earlier(TokenOf(item))
      BY <2>1, <2>4, Names DEF InOrder, TokenOf, Formed
    <3>2. CASE n < item.attempt  BY <2>4, <3>1, <3>2, EarlierStays DEF TokenOf
    <3>3. CASE n = item.attempt
      BY <2>4, <3>1, <3>3, OverStays DEF TokenOf, Over, Execution
    <3> QED  BY <1>2, <2>4, <3>2, <3>3
  <2> QED  BY <1>2, <2>2, <2>3, <2>4, FinalizesStep
<1>3. ASSUME NEW f \in Token, Issued(f)', NEW n \in 1..MaxAttempts, n < f[2]
      PROVE exec'[<<f[1], n>>].status = "failed"
  <2>1. CASE Issued(f)  BY <1>3, <2>1, EarlierStays DEF InOrder
  <2>2. CASE Resending /\ f = TokenOf(sw.item)  BY <1>3, <2>2, EarlierStays DEF InOrder
  <2>3. CASE item'.state = "FINALIZING" /\ f = <<item'.cycle, item'.attempt>>
    BY <1>2, <1>3, <2>3
  <2> QED  BY <1>3, <2>1, <2>2, <2>3, IssuedStep
<1>4. ASSUME Resending', NEW n \in 1..MaxAttempts, n < sw'.item.attempt
      PROVE exec'[<<sw'.item.cycle, n>>].status = "failed"
  <2>1. CASE Resending /\ sw' = sw
    <3>1. TokenOf(sw.item) \in Token /\ Earlier(TokenOf(sw.item))
      BY <2>1, Names DEF InOrder, TokenOf, Resending, TInv, SweepInv, Formed
    <3> QED  BY <1>4, <2>1, <3>1, EarlierStays DEF TokenOf
  <2>2. CASE item.state = "FINALIZING" /\ sw'.item = item /\ UNCHANGED <<item, cycles>>
    BY <1>2, <1>4, <2>2
  <2> QED  BY <1>4, <2>1, <2>2, ResendingStep
<1> QED  BY <1>2, <1>3, <1>4 DEF InOrder, Earlier, TokenOf

LEMMA PastStays ==
  ASSUME TInv, Readings, OpenedAfterItsRun, [Next]_vars, NEW e \in Token, Past(e)
  PROVE  Past(e)'
<1>1. /\ Formed(item) /\ item \in Item /\ cycles \in 0..MaxCycles /\ MaxCycles \in Nat
      /\ item.state # "NONE" => item.cycle = cycles
  BY ItemForm
<1>2. ItemMove  BY ItemMoves
<1>3. e[1] \in 1..MaxCycles /\ e[2] \in 1..MaxAttempts  BY Names
<1>4. CASE UNCHANGED <<item, cycles>>  BY <1>4 DEF Past
<1>5. CASE e[1] < cycles /\ cycles' = cycles  BY <1>5 DEF Past
<1>6. CASE /\ e[1] = cycles /\ cycles' = cycles
           /\ item'.state \in Ended /\ item'.attempt = item.attempt
  BY <1>1, <1>6 DEF Past
<1>7. ASSUME NEW f \in Execution, HeldBy(f) PROVE Past(e)'
  <2>1. CASE cycles' = cycles + 1  BY <1>1, <1>3, <2>1 DEF Past
  <2>2. CASE cycles' = cycles /\ IsLive /\ item.arn = f
    <3>1. item.state \notin {"OPEN", "CLAIMED", "FINALIZING"}
      BY <1>7, <2>2 DEF HeldBy, OpenedAfterItsRun, Over
    <3>2. e[1] < cycles  BY <2>2, <3>1 DEF Past, IsLive, Live, Ended
    <3> QED  BY <1>5, <2>2, <3>2
  <2> QED  BY <1>7, <2>1, <2>2 DEF HeldBy
<1>8. ASSUME NEW s, item' = [item EXCEPT !.state = s]
      PROVE item'.state = s /\ item'.attempt = item.attempt
  BY <1>1, <1>8 DEF Item
<1>9. CASE cycles' = cycles /\ Withdrawn
  BY <1>5, <1>6, <1>8, <1>9 DEF Withdrawn, Past, Ended
<1>10. ASSUME cycles' = cycles, NEW t \in Tracker, MovedBy(t) PROVE Past(e)'
  <2>1. CASE item.state = "HOLDING"  BY <1>5, <1>10, <2>1 DEF Past, Ended
  <2>2. CASE item'.state \in Ended /\ item'.attempt = item.attempt
    BY <1>5, <1>6, <1>10, <2>2 DEF Past
  <2> QED  BY <1>8, <1>10, <2>1, <2>2, ClosedStates DEF MovedBy, Holds, Ended
<1>11. CASE cycles' = cycles /\ item.state \in {"OPEN", "CLAIMED", "HOLDING"}
  BY <1>5, <1>11 DEF Past, Ended
<1>12. CASE cycles' = cycles /\ Retried
  <2>1. item' = [item EXCEPT !.attempt = item.attempt + 1] /\ item.state = "FINALIZING"
    BY <1>12 DEF Retried
  <2>2. item'.attempt = item.attempt + 1 /\ item'.state = "FINALIZING"  BY <1>1, <2>1 DEF Item
  <2>3. item.attempt \in 1..MaxAttempts  BY <1>1, <2>1 DEF Formed
  <2> QED  BY <1>3, <1>12, <2>1, <2>2, <2>3, ItemForm DEF Past, Ended
<1>13. CASE cycles' = cycles /\ GivenUp
  BY <1>5, <1>6, <1>8, <1>13 DEF GivenUp, Past, Ended
<1> QED
  BY <1>2, <1>4, <1>7, <1>9, <1>10, <1>11, <1>12, <1>13
  DEF ItemMove, ClaimedOrReleased, Disposed, Reaped

LEMMA OnceStep ==
  ASSUME TInv, Readings, OpenedAfterItsRun, OncePerReview, [Next]_vars
  PROVE  OncePerReview'
<1>1. item'.state = "FINALIZING" => item'.cycle = cycles'  BY ItemStep
<1>2. ASSUME NEW e \in Token, item'.state = "FINALIZING", e = <<item'.cycle, item'.attempt>>
      PROVE Past(e)'
  BY <1>1, <1>2, Names, ItemForm DEF Past
<1>3. ASSUME NEW f \in Token, Issued(f)' PROVE Past(f)'
  <2>1. CASE Issued(f)  BY <2>1, PastStays DEF OncePerReview
  <2>2. CASE Resending /\ f = TokenOf(sw.item)
    BY <2>2, PastStays DEF OncePerReview
  <2>3. CASE item'.state = "FINALIZING" /\ f = <<item'.cycle, item'.attempt>>  BY <1>2, <2>3
  <2> QED  BY <1>3, <2>1, <2>2, <2>3, IssuedStep
<1>4. ASSUME Resending' PROVE Past(TokenOf(sw.item))'
  <2>1. CASE Resending /\ sw' = sw
    <3> DEFINE e == TokenOf(sw.item)
    <3>1. e \in Token /\ Past(e)
      BY <2>1, Names DEF OncePerReview, TokenOf, Resending, TInv, SweepInv, Formed
    <3>2. TokenOf(sw.item)' = e  BY <2>1 DEF TokenOf
    <3> HIDE DEF e
    <3>3. PICK f \in Token : f = e  BY <3>1
    <3>4. Past(f)'  BY <3>1, <3>3, PastStays
    <3> QED  BY <3>2, <3>3, <3>4 DEF Past
  <2>2. CASE item.state = "FINALIZING" /\ sw'.item = item /\ UNCHANGED <<item, cycles>>
    <3>1. item.cycle = cycles /\ item.attempt \in 1..MaxAttempts
      BY <2>2, ItemForm DEF Formed
    <3> QED  BY <2>2, <3>1, ItemForm DEF Past, TokenOf
  <2> QED  BY <1>4, <2>1, <2>2, ResendingStep
<1> QED  BY <1>3, <1>4 DEF OncePerReview

LEMMA RoutedStep ==
  ASSUME TInv, Readings, OncePerReview, RoutedForReview, [Next]_vars
  PROVE  RoutedForReview'
<1>1. ASSUME NEW e \in Token, item'.state = "FINALIZING", e = <<item'.cycle, item'.attempt>>
      PROVE /\ exec'[e].route \in {"none", "review", "unread"}
            /\ exec'[e].status = "succeeded" => exec'[e].route \in FinalRoutes
  <2>1. /\ exec[e] \in [status : ExecStatus, route : Route]
        /\ exec[e].status = "none" => exec[e].route = "none"
    BY DEF TInv, RunInv, Execution
  <2>2. ExecMove(e)  BY ExecMoves DEF Execution
  <2>3. CASE UNCHANGED <<item, cycles>>
    <3>1. Finalizes(e) /\ exec[e].route \in {"none", "review", "unread"}
          /\ (exec[e].status = "succeeded" => exec[e].route \in FinalRoutes)
      BY <1>1, <2>3 DEF RoutedForReview, Finalizes, TokenOf
    <3>2. CASE exec'[e] = exec[e]  BY <3>1, <3>2
    <3>3. CASE Starting(e)  BY <2>1, <3>3 DEF Starting
    <3>4. CASE Rerouting(e)  BY <2>1, <3>1, <3>4 DEF Rerouting
    <3>5. CASE Ending(e)  BY <3>1, <3>5 DEF Ending
    <3> QED  BY <2>2, <3>2, <3>3, <3>4, <3>5 DEF ExecMove
  <2>4. CASE ~Issued(e)
    <3>1. exec[e].status = "none" /\ e \notin msgs  BY <2>4 DEF Issued
    <3>2. exec'[e] = exec[e]  BY <2>2, <3>1 DEF ExecMove, Starting, Rerouting, Ending
    <3> QED  BY <2>1, <3>1, <3>2
  <2> QED  BY <1>1, <2>3, <2>4, NeverAnew
<1> QED  BY <1>1 DEF RoutedForReview, Finalizes, TokenOf

(* Nobody's review becomes theirs again.                                   *)
LEMMA TheirsStep ==
  ASSUME TInv, Readings, OncePerReview, [Next]_vars, NEW e \in Execution, Over(e)
  PROVE  /\ item'.state = "HOLDING" /\ item'.arn = e => UNCHANGED <<item, cycles>>
         /\ e \in Token /\ item'.state = "FINALIZING" /\ e = <<item'.cycle, item'.attempt>>
              => UNCHANGED <<item, cycles>>
BY HoldsStep, NeverAnew DEF Over, Issued

LEMMA KnowsStep ==
  ASSUME TInv, Readings, OncePerReview, RoutedForReview, [Next]_vars,
         NEW t \in Tracker, Knows(t)
  PROVE  Knows(t)'
<1>1. /\ tr[t] \in Tracking
      /\ tr[t].at # "idle" => tr[t].e \in Execution /\ Over(tr[t].e)
  BY DEF TInv, TrackInv
<1>2. Formed(item) /\ item \in Item  BY ItemForm
<1>3. TrackMove(t)  BY TrackMoves
<1>4. CASE tr'[t] = NotCalled  BY <1>4, Names DEF Knows, NotCalled, Execution
<1>5. CASE tr'[t] = tr[t] /\ tr[t].at # "idle"
  <2>1. exec'[tr[t].e] = exec[tr[t].e]  BY <1>1, <1>5, OverStays
  <2>2. item'.state = "HOLDING" /\ item'.arn = tr[t].e => item' = item
    BY <1>1, <1>5, TheirsStep
  <2>3. tr[t].e \in Token /\ item'.state = "FINALIZING" /\ tr[t].e = <<item'.cycle, item'.attempt>>
          => item' = item
    BY <1>1, <1>5, TheirsStep
  <2> QED  BY <1>5, <2>1, <2>2, <2>3 DEF Knows, Holds, Finalizes, TokenOf
<1>6. CASE tr'[t] = tr[t] /\ tr[t].at = "idle"  BY <1>6 DEF Knows
<1>7. CASE Loads(t)
  <2>1. PICK e \in events :
          /\ (e \in Run /\ Holds(e)) \/ (e \in Token /\ Finalizes(e))
          /\ tr'[t] = [at |-> "loaded", e |-> e, cycle |-> item.cycle,
                       disposition |-> item.disposition]
          /\ UNCHANGED <<item, exec>>
    BY <1>7 DEF Loads
  <2>2. tr'[t].at = "loaded" /\ tr'[t].e = e /\ tr'[t].cycle = item.cycle
        /\ tr'[t].disposition = item.disposition
    BY <2>1
  <2>3. CASE e \in Run /\ Holds(e)
    BY <1>2, <2>1, <2>2, <2>3, Names DEF Knows, Holds, Formed
  <2>4. CASE e \in Token /\ Finalizes(e)
    BY <2>1, <2>2, <2>4, Names DEF Knows, Finalizes, TokenOf, RoutedForReview
  <2> QED  BY <2>1, <2>3, <2>4
<1>8. ASSUME NEW p \in {"sequenced", "written", "deciding"}, tr'[t] = [tr[t] EXCEPT !.at = p],
             tr[t].at \in {"loaded", "sequenced", "written"},
             exec[tr[t].e].status = "succeeded", p = "sequenced" => ~Removed(t),
             UNCHANGED <<item, exec>>
      PROVE Knows(t)'
  <2>1. /\ tr'[t].at = p /\ tr'[t].e = tr[t].e /\ tr'[t].cycle = tr[t].cycle
        /\ tr'[t].disposition = tr[t].disposition
    BY <1>1, <1>8 DEF Tracking
  <2> QED  BY <1>8, <2>1 DEF Knows, Holds, Finalizes, TokenOf, Removed
<1>9. CASE Sequences(t)  BY <1>8, <1>9 DEF Sequences, Loaded
<1>10. CASE Writes(t)  BY <1>8, <1>10 DEF Writes, Loaded, Knows
<1>11. CASE Decides(t)  BY <1>8, <1>11 DEF Decides, Knows
<1>12. CASE Withdraws(t)
  <2>1. tr'[t].at = "clearing"  BY <1>1, <1>12 DEF Withdraws, Tracking
  <2> QED  BY <2>1 DEF Knows
<1> QED  BY <1>3, <1>4, <1>5, <1>6, <1>7, <1>9, <1>10, <1>11, <1>12 DEF TrackMove

LEMMA WithdrawnStays ==
  ASSUME TInv, Readings, [Next]_vars, NEW c \in Nat, IsWithdrawn(c)
  PROVE  IsWithdrawn(c)'
<1>1. /\ Formed(item) /\ item \in Item /\ cycles \in 0..MaxCycles /\ MaxCycles \in Nat
      /\ item.state # "NONE" => item.cycle = cycles
  BY ItemForm
<1>2. ItemMove  BY ItemMoves
<1>3. CASE UNCHANGED <<item, cycles>>  BY <1>3 DEF IsWithdrawn
<1>4. ASSUME NEW f \in Execution, HeldBy(f) PROVE IsWithdrawn(c)'
  <2>1. item'.cycle = cycles'  BY <1>4 DEF HeldBy, NoItem
  <2>2. cycles' = cycles + 1 \/ (cycles' = cycles /\ item.cycle = cycles
      /\ item.state # "WITHDRAWN")
    BY <1>1, <1>4 DEF HeldBy, IsLive, Live
  <2> QED  BY <1>1, <2>1, <2>2 DEF IsWithdrawn
<1>5. CASE cycles' = cycles /\ Reaped
  BY <1>1, <1>5 DEF Reaped, NoItem, IsWithdrawn
<1>6. CASE cycles' = cycles /\ item'.cycle = item.cycle /\ item.state # "WITHDRAWN"
  BY <1>6 DEF IsWithdrawn
<1>7. ASSUME NEW s, item' = [item EXCEPT !.state = s] PROVE item'.cycle = item.cycle
  BY <1>1, <1>7 DEF Item
<1>8. CASE cycles' = cycles /\ Withdrawn
  BY <1>6, <1>7, <1>8 DEF Withdrawn, IsLive, Live
<1>9. ASSUME cycles' = cycles, NEW t \in Tracker, MovedBy(t) PROVE IsWithdrawn(c)'
  BY <1>6, <1>7, <1>9 DEF MovedBy, StillTheirs, Holds, Finalizes
<1>10. CASE cycles' = cycles /\ ClaimedOrReleased  BY <1>6, <1>7, <1>10 DEF ClaimedOrReleased
<1>11. CASE cycles' = cycles /\ Disposed  BY <1>1, <1>6, <1>11 DEF Disposed, Item
<1>12. CASE cycles' = cycles /\ Retried  BY <1>1, <1>6, <1>12 DEF Retried, Item
<1>13. CASE cycles' = cycles /\ GivenUp  BY <1>6, <1>7, <1>13 DEF GivenUp
<1> QED  BY <1>2, <1>3, <1>4, <1>5, <1>8, <1>9, <1>10, <1>11, <1>12, <1>13 DEF ItemMove

LEMMA ClearingStep == ASSUME TInv, Readings, Clearing, [Next]_vars PROVE Clearing'
<1> DEFINE IsWithdrawnNext(c) == c \in 1..cycles' /\ (item'.cycle = c => item'.state = "WITHDRAWN")
<1>1. ASSUME NEW c \in 0..MaxCycles, IsWithdrawn(c) PROVE IsWithdrawnNext(c)
  BY <1>1, WithdrawnStays, ItemForm DEF IsWithdrawn
<1>2. ASSUME Withdrawn, cycles' = cycles PROVE IsWithdrawnNext(item.cycle)
  BY <1>2, ItemForm DEF Withdrawn, IsLive, Live, Item
<1>3. ASSUME NEW t \in Tracker, tr'[t].at = "clearing" PROVE IsWithdrawnNext(tr'[t].cycle)
  <2>1. tr[t] \in Tracking /\ tr[t].cycle \in 0..MaxCycles  BY DEF TInv, TrackInv, Tracking
  <2>2. CASE tr'[t] = tr[t]  BY <1>1, <1>3, <2>1, <2>2 DEF Clearing
  <2>3. CASE Withdraws(t)
    <3>1. tr'[t].cycle = item.cycle  BY <2>1, <2>3 DEF Withdraws, Tracking
    <3> QED  BY <1>2, <2>3, <3>1 DEF Withdraws
  <2>4. CASE Loads(t)  BY <1>3, <2>4 DEF Loads
  <2>5. CASE Sequences(t) \/ Writes(t) \/ Decides(t)
    BY <1>3, <2>1, <2>5 DEF Sequences, Writes, Decides, Tracking
  <2> QED  BY <1>3, <2>2, <2>3, <2>4, <2>5, TrackMoves DEF TrackMove, NotCalled
<1>4. ASSUME sw'.at = "clearing" PROVE IsWithdrawnNext(sw'.item.cycle)
  <2>1. CASE sw' = sw
    <3>1. sw.item.cycle \in 0..MaxCycles  BY DEF TInv, SweepInv, Formed, Item
    <3> QED  BY <1>1, <1>4, <2>1, <3>1 DEF Clearing
  <2>2. CASE sw' = [at |-> "clearing", item |-> item] /\ Withdrawn /\ UNCHANGED cycles
    BY <1>2, <2>2
  <2> QED  BY <1>4, <2>1, <2>2, SweepMoves DEF SweepMove, NotSweeping
<1>5. ASSUME api'.at = "clearing" PROVE IsWithdrawnNext(api'.cycle)
  <2>1. api \in [at : {"idle", "withdrawing", "clearing", "queueing"},
                 cycle : 0..MaxCycles, run : Run \cup {<<0, 0>>}]
    BY DEF TInv, ApiInv
  <2>2. CASE api' = api  BY <1>1, <1>5, <2>1, <2>2 DEF Clearing
  <2>3. CASE /\ api' = [api EXCEPT !.at = "clearing", !.cycle = item.cycle]
             /\ Withdrawn /\ UNCHANGED cycles
    BY <1>2, <2>1, <2>3
  <2>4. CASE api' = [api EXCEPT !.at = "queueing"]  BY <1>5, <2>1, <2>4
  <2> QED  BY <1>5, <2>2, <2>3, <2>4, ApiMoves DEF ApiMove, NoCall
<1> QED  BY <1>3, <1>4, <1>5 DEF Clearing, IsWithdrawn

LEMMA ClosedStep ==
  ASSUME TInv, Readings, InOrder, ClosedByItsFinalizeRun, \A t \in Tracker : Knows(t), [Next]_vars
  PROVE  ClosedByItsFinalizeRun'
<1>1. Formed(item) /\ item \in Item  BY ItemForm
<1>2. ItemMove  BY ItemMoves
<1>3. ASSUME NEW e \in Execution, Over(e) PROVE exec'[e] = exec[e]  BY <1>3, OverStays
<1>4. ASSUME NEW s, item' = [item EXCEPT !.state = s]
      PROVE /\ item'.state = s /\ item'.cycle = item.cycle /\ item'.attempt = item.attempt
            /\ item'.disposition = item.disposition
  BY <1>1, <1>4 DEF Item
<1>5. CASE item'.state \notin {"COMPLETE", "REJECTED", "FINALIZE_FAILED"}
  BY <1>5 DEF ClosedByItsFinalizeRun
<1>6. CASE item' = item
  <2>1. CASE item.state \in {"COMPLETE", "REJECTED"}
    <3>1. TokenOf(item) \in Execution
      BY <1>1, <2>1, Names DEF Formed, TokenOf, Execution
    <3>2. Finalized(TokenOf(item))
      BY <2>1 DEF ClosedByItsFinalizeRun
    <3>3. exec'[TokenOf(item)] = exec[TokenOf(item)]  BY <1>3, <3>1, <3>2 DEF Over
    <3> QED  BY <1>6, <2>1, <3>2, <3>3 DEF ClosedByItsFinalizeRun, TokenOf
  <2>2. CASE item.state = "FINALIZE_FAILED"
    <3>1. ASSUME NEW n \in 1..MaxAttempts
          PROVE exec'[<<item.cycle, n>>].status = "failed"
      <4>1. <<item.cycle, n>> \in Execution  BY <1>1, <2>2, Names DEF Formed, Execution
      <4>2. exec[<<item.cycle, n>>].status = "failed"  BY <2>2 DEF ClosedByItsFinalizeRun
      <4> QED  BY <1>3, <4>1, <4>2 DEF Over
    <3> QED  BY <1>6, <2>2, <3>1 DEF ClosedByItsFinalizeRun
  <2> QED  BY <1>5, <1>6, <2>1, <2>2
<1>7. ASSUME NEW t \in Tracker, MovedBy(t), item'.state \in {"COMPLETE", "REJECTED"}
      PROVE ClosedByItsFinalizeRun'
  <2>1. item'.state = ClosedAs(tr[t]) /\ item'.cycle = item.cycle
        /\ item'.attempt = item.attempt /\ item'.disposition = item.disposition
    BY <1>4, <1>7 DEF MovedBy
  <2>2. /\ tr[t].e \notin Run /\ Finalizes(tr[t].e)
        /\ ClosedAs(tr[t]) = IF tr[t].disposition = "rejected" THEN "REJECTED" ELSE "COMPLETE"
    BY <1>7, <2>1, ClosedStates DEF MovedBy
  <2>3. tr[t].at = "deciding" /\ tr[t].e \in Execution /\ Over(tr[t].e) /\ tr[t].e \in Token
    BY <1>7, <2>2 DEF MovedBy, TInv, TrackInv, Execution
  <2>4. exec[tr[t].e].status = "succeeded" /\ exec[tr[t].e].route \in FinalRoutes
        /\ tr[t].disposition = item.disposition
    BY <2>2, <2>3 DEF Knows
  <2>5. Finalized(tr[t].e)
    BY <2>3, <2>4 DEF TInv, RunInv
  <2>6. exec'[tr[t].e] = exec[tr[t].e]  BY <1>3, <2>3
  <2>7. tr[t].e = <<item'.cycle, item'.attempt>>  BY <2>1, <2>2 DEF Finalizes, TokenOf
  <2> QED  BY <2>1, <2>2, <2>4, <2>5, <2>6, <2>7 DEF ClosedByItsFinalizeRun, TokenOf
<1>8. ASSUME NEW t \in Tracker, MovedBy(t) PROVE item'.state \in {"OPEN", "COMPLETE", "REJECTED"}
  BY <1>4, <1>8 DEF MovedBy, ClosedAs
<1>9. CASE GivenUp
  <2>1. item.state = "FINALIZING" /\ exec[TokenOf(item)].status = "failed"
        /\ item.attempt = MaxAttempts /\ Earlier(TokenOf(item))
    BY <1>1, <1>9, ItemForm DEF GivenUp, InOrder, Formed
  <2>2. item'.state = "FINALIZE_FAILED" /\ item'.cycle = item.cycle
    BY <1>4, <1>9 DEF GivenUp
  <2>3. ASSUME NEW n \in 1..MaxAttempts PROVE exec'[<<item.cycle, n>>].status = "failed"
    <3>1. <<item.cycle, n>> \in Execution  BY <1>1, <2>1, Names DEF Formed, Execution
    <3>2. exec[<<item.cycle, n>>].status = "failed"
      <4>1. CASE n < item.attempt  BY <2>1, <4>1 DEF Earlier, TokenOf
      <4>2. CASE n = item.attempt  BY <2>1, <4>2 DEF TokenOf
      <4> QED  BY <2>1, <4>1, <4>2, ItemForm
    <3> QED  BY <1>3, <3>1, <3>2 DEF Over
  <2> QED  BY <2>2, <2>3 DEF ClosedByItsFinalizeRun
<1>10. ASSUME NEW f \in Execution, HeldBy(f) PROVE item'.state = "HOLDING"
  BY <1>10 DEF HeldBy, NoItem
<1>11. Withdrawn => item'.state = "WITHDRAWN"  BY <1>4 DEF Withdrawn
<1>12. ClaimedOrReleased => item'.state \in {"OPEN", "CLAIMED"}  BY <1>4 DEF ClaimedOrReleased
<1>13. Disposed => item'.state = "FINALIZING"  BY <1>1 DEF Disposed, Item
<1>14. Reaped => item'.state = "NONE"  BY DEF Reaped, NoItem
<1>15. Retried => item'.state = "FINALIZING"  BY <1>1 DEF Retried, Item
<1> QED
  BY <1>2, <1>5, <1>6, <1>7, <1>8, <1>9, <1>10, <1>11, <1>12, <1>13, <1>14, <1>15 DEF ItemMove

LEMMA FinalRunStep ==
  ASSUME TInv, Clearing, FinalRun, \A t \in Tracker : Knows(t), [Next]_vars
  PROVE  FinalRun'
<1> SUFFICES ASSUME obj'.status \in {"complete", "rejected"}
             PROVE  \E e \in Token :
                      e[1] = obj'.cycle /\ Finalized(e)'
  BY DEF FinalRun
<1>1. ASSUME NEW e \in Token, Finalized(e)
      PROVE Finalized(e)'
  BY <1>1, OverStays DEF Over, Execution
<1>2. CASE UNCHANGED <<obj, late>>  BY <1>1, <1>2 DEF FinalRun
<1>3. ASSUME NEW t \in Tracker, Writes(t)
      PROVE \E e \in Token :
              e[1] = obj'.cycle /\ Finalized(e)'
  <2>1. tr[t].at = "sequenced" /\ obj' = [status |-> StatusFor(tr[t]), cycle |-> tr[t].cycle]
    BY <1>3 DEF Writes, NoObject
  <2>2. tr[t].e \in Token  BY <2>1 DEF StatusFor, TInv, TrackInv, Execution
  <2>3. exec[tr[t].e].status = "succeeded" /\ exec[tr[t].e].route \in FinalRoutes
        /\ tr[t].cycle = tr[t].e[1]
    BY <2>1, <2>2 DEF Knows
  <2>4. Finalized(tr[t].e)
    BY <2>2, <2>3 DEF TInv, RunInv, Execution
  <2> QED  BY <1>1, <2>1, <2>2, <2>3, <2>4
<1>4. CASE Deletes  BY <1>4 DEF Deletes, NoObject
<1> QED  BY <1>2, <1>3, <1>4, ObjMoves DEF ObjMove

(* Two trackers that answer for the same review write the same.            *)
LEMMA TheirsAlike ==
  ASSUME TInv, NEW t \in Tracker, NEW u \in Tracker, Knows(t), Knows(u),
         tr[t].at \notin {"idle", "clearing"}, tr[u].at \notin {"idle", "clearing"},
         StillTheirs(tr[t]), StillTheirs(tr[u])
  PROVE  Published(tr[t]) = Published(tr[u])
<1>1. tr[t].e \in Execution /\ tr[u].e \in Execution  BY DEF TInv, TrackInv
<1>2. CASE item.state = "HOLDING"
  <2>1. /\ tr[t].e \in Run /\ Holds(tr[t].e)
        /\ tr[u].e \in Run /\ Holds(tr[u].e)
    BY <1>2 DEF StillTheirs, Holds, Finalizes
  <2>2. tr[t].e = tr[u].e /\ tr[t].cycle = tr[u].cycle /\ tr[t].disposition = tr[u].disposition
    BY <2>1 DEF Knows, Holds
  <2> QED  BY <2>2 DEF Published, StatusFor
<1>3. CASE item.state = "FINALIZING"
  <2>1. /\ tr[t].e \in Token /\ Finalizes(tr[t].e)
        /\ tr[u].e \in Token /\ Finalizes(tr[u].e)
    BY <1>1, <1>3 DEF StillTheirs, Holds, Finalizes, Execution
  <2>2. tr[t].e = tr[u].e /\ tr[t].cycle = tr[u].cycle /\ tr[t].disposition = tr[u].disposition
    BY <2>1 DEF Knows, Finalizes
  <2> QED  BY <2>2 DEF Published, StatusFor
<1> QED  BY <1>2, <1>3 DEF StillTheirs, Holds, Finalizes

LEMMA SaysStep ==
  ASSUME TInv, Readings, Clearing, Speaks, \A t \in Tracker : Knows(t), [Next]_vars
  PROVE  ObjectSpeaksForTheReview'
<1> SUFFICES ASSUME ~late', item'.state \in {"OPEN", "CLAIMED", "COMPLETE", "REJECTED"}
             PROVE  ObjectSpeaksForTheReview'
  BY DEF ObjectSpeaksForTheReview
<1>1. Formed(item) /\ item \in Item  BY ItemForm
<1>2. ItemMove  BY ItemMoves
<1>3. ASSUME NEW s, item' = [item EXCEPT !.state = s]
      PROVE item'.state = s /\ item'.cycle = item.cycle /\ item'.disposition = item.disposition
  BY <1>1, <1>3 DEF Item
<1>4. CASE UNCHANGED <<obj, late>>
  <2>1. CASE item' = item
    BY <1>4, <2>1 DEF Speaks, ObjectSpeaksForTheReview
  <2>2. ASSUME NEW t \in Tracker, MovedBy(t) PROVE ObjectSpeaksForTheReview'
    <3>1. obj = Published(tr[t]) /\ tr[t].at = "deciding"
      BY <1>4, <2>2 DEF MovedBy, Speaks
    <3>2. /\ item'.state = ClosedAs(tr[t]) /\ item'.cycle = item.cycle
          /\ item'.disposition = item.disposition
      BY <1>3, <2>2 DEF MovedBy
    <3>3. tr[t].e \in Execution  BY <3>1 DEF TInv, TrackInv
    <3>4. CASE tr[t].e \in Run /\ Holds(tr[t].e) /\ ClosedAs(tr[t]) = "OPEN"
      <4>1. tr[t].disposition = "none" /\ tr[t].cycle = item.cycle
        BY <3>1, <3>4 DEF Knows
      <4>2. obj = [status |-> "in_review", cycle |-> item.cycle]
        BY <3>1, <3>4, <4>1 DEF Published, StatusFor
      <4> QED  BY <1>4, <3>2, <3>4, <4>2 DEF ObjectSpeaksForTheReview
    <3>5. CASE /\ tr[t].e \notin Run /\ Finalizes(tr[t].e)
               /\ ClosedAs(tr[t]) = IF tr[t].disposition = "rejected" THEN "REJECTED" ELSE "COMPLETE"
      <4>1. tr[t].e \in Token  BY <3>3, <3>5 DEF Execution
      <4>2. tr[t].disposition = item.disposition /\ tr[t].cycle = item.cycle
        BY <3>1, <3>5, <4>1 DEF Knows, Finalizes, TokenOf
      <4>3. obj = IF item.disposition = "removed" THEN NoObject
                  ELSE [status |-> IF item'.state = "COMPLETE" THEN "complete" ELSE "rejected",
                        cycle |-> item.cycle]
        BY <3>1, <3>2, <3>5, <4>2 DEF Published, StatusFor
      <4>4. item'.state \in {"COMPLETE", "REJECTED"}  BY <3>2, <3>5
      <4> QED  BY <1>4, <3>2, <4>3, <4>4 DEF ObjectSpeaksForTheReview
    <3> QED  BY <2>2, <3>4, <3>5, ClosedStates DEF MovedBy
  <2>3. CASE ClaimedOrReleased
    <3>1. item'.state \in {"OPEN", "CLAIMED"} /\ item'.cycle = item.cycle
      BY <1>3, <2>3 DEF ClaimedOrReleased
    <3>2. obj = [status |-> "in_review", cycle |-> item.cycle]
      BY <1>4, <2>3 DEF ClaimedOrReleased, Speaks, ObjectSpeaksForTheReview
    <3> QED  BY <1>4, <3>1, <3>2 DEF ObjectSpeaksForTheReview
  <2>4. ASSUME NEW f \in Execution, HeldBy(f) PROVE item'.state = "HOLDING"
    BY <2>4 DEF HeldBy, NoItem
  <2>5. Withdrawn => item'.state = "WITHDRAWN"  BY <1>3 DEF Withdrawn
  <2>6. Disposed => item'.state = "FINALIZING"  BY <1>1 DEF Disposed, Item
  <2>7. Reaped => item'.state = "NONE"  BY DEF Reaped, NoItem
  <2>8. Retried => item'.state = "FINALIZING"  BY <1>1 DEF Retried, Item
  <2>9. GivenUp => item'.state = "FINALIZE_FAILED"  BY <1>3 DEF GivenUp
  <2> QED  BY <1>2, <2>1, <2>2, <2>3, <2>4, <2>5, <2>6, <2>7, <2>8, <2>9 DEF ItemMove
<1>5. ASSUME NEW t \in Tracker, Writes(t) PROVE FALSE
  BY <1>5 DEF Writes, StillTheirs, Holds, Finalizes
<1>6. CASE Deletes  BY <1>6 DEF Deletes
<1> QED  BY <1>4, <1>5, <1>6, ObjMoves DEF ObjMove

LEMMA SpeaksStep ==
  ASSUME TInv, Readings, OncePerReview, Clearing, Speaks, \A t \in Tracker : Knows(t), [Next]_vars
  PROVE  Speaks'
<1> DEFINE TheirsNext(c) ==
      \/ c.e \in Run /\ item'.state = "HOLDING" /\ item'.arn = c.e
      \/ c.e \notin Run /\ item'.state = "FINALIZING" /\ <<item'.cycle, item'.attempt>> = c.e
<1>1. ASSUME ~late', NEW t \in Tracker, tr'[t].at \in {"written", "deciding"}, TheirsNext(tr'[t])
      PROVE obj' = Published(tr'[t])
  <2>1. /\ tr[t] \in Tracking
        /\ tr[t].at # "idle" => tr[t].e \in Execution /\ Over(tr[t].e)
    BY DEF TInv, TrackInv
  <2>2. ASSUME NEW p \in {"written", "deciding"}, tr'[t] = [tr[t] EXCEPT !.at = p]
        PROVE Published(tr'[t]) = Published(tr[t]) /\ tr'[t].e = tr[t].e
    BY <2>1, <2>2 DEF Published, StatusFor, Tracking
  <2>3. CASE Writes(t)
    <3>1. Published(tr'[t]) = Published(tr[t])  BY <2>2, <2>3 DEF Writes
    <3>2. CASE tr[t].at = "sequenced"
      BY <2>3, <3>1, <3>2 DEF Writes, Knows, Published, Loaded
    <3>3. CASE Loaded(t, "succeeded") /\ Removed(t)
      BY <2>3, <3>1, <3>3 DEF Writes, Published, Loaded, Removed
    <3> QED  BY <2>3, <3>2, <3>3 DEF Writes
  <2>4. CASE Decides(t)
    BY <2>2, <2>4, <1>1 DEF Decides, Speaks
  <2>5. CASE tr'[t] = tr[t]
    <3>1. UNCHANGED <<item, cycles>>
      BY <1>1, <2>1, <2>5, TheirsStep DEF Execution
    <3>2. StillTheirs(tr[t])
      BY <1>1, <2>5, <3>1 DEF StillTheirs, Holds, Finalizes, TokenOf
    <3>3. CASE UNCHANGED <<obj, late>>  BY <1>1, <2>5, <3>2, <3>3 DEF Speaks
    <3>4. ASSUME NEW u \in Tracker, Writes(u), u # t PROVE obj' = Published(tr[t])
      <4>1. StillTheirs(tr[u])  BY <1>1, <3>4 DEF Writes
      <4>2. tr[u].at \in {"sequenced", "loaded"}  BY <3>4 DEF Writes, Loaded
      <4>3. Published(tr[t]) = Published(tr[u])
        BY <1>1, <2>5, <3>2, <4>1, <4>2, TheirsAlike
      <4>4. obj' = Published(tr[u])
        <5>1. CASE tr[u].at = "sequenced"
          BY <3>4, <5>1 DEF Writes, Knows, Published, Loaded
        <5>2. CASE Loaded(u, "succeeded") /\ Removed(u)
          BY <3>4, <5>2 DEF Writes, Published, Loaded, Removed
        <5> QED  BY <3>4, <5>1, <5>2 DEF Writes
      <4> QED  BY <4>3, <4>4
    <3>5. CASE Deletes
      <4>1. item.state = "WITHDRAWN" \/ (item.state = "HOLDING"
          /\ exec[item.arn].status = "running")
        BY <1>1, <3>5 DEF Deletes
      <4> QED  BY <1>1, <2>1, <2>5, <3>2, <4>1 DEF StillTheirs, Holds, Finalizes, Over
    <3> QED  BY <2>3, <2>5, <3>3, <3>4, <3>5, ObjMoves DEF ObjMove
  <2>6. CASE Loads(t)  BY <1>1, <2>6 DEF Loads
  <2>7. CASE Sequences(t) \/ Withdraws(t)
    BY <1>1, <2>1, <2>7 DEF Sequences, Withdraws, Tracking
  <2> QED  BY <1>1, <2>3, <2>4, <2>5, <2>6, <2>7, TrackMoves DEF TrackMove, NotCalled
<1>2. ASSUME NEW t \in Tracker PROVE StillTheirs(tr[t])' => TheirsNext(tr'[t])
  BY DEF StillTheirs, Holds, Finalizes, TokenOf
<1>3. ASSUME NEW t \in Tracker, obj' = Published(tr'[t]) PROVE (obj = Published(tr[t]))'
  BY <1>3 DEF Published, StatusFor, NoObject
<1>4. ObjectSpeaksForTheReview'  BY SaysStep
<1> QED  BY <1>1, <1>2, <1>3, <1>4 DEF Speaks

-----------------------------------------------------------------------------
LEMMA InitIInv == Init => IInv
<1> SUFFICES ASSUME Init PROVE IInv  OBVIOUS
<1>1. TInv  BY InitTInv
<1>2. /\ item.state = "NONE" /\ obj.status = "none" /\ sw.at = "idle" /\ api.at = "idle"
      /\ \A t \in Tracker : tr[t].at = "idle"
      /\ \A e \in Token : exec[e].status = "none" /\ e \notin msgs
  BY DEF Init, NoItem, NoObject, NotSweeping, NoCall, NotCalled, Execution
<1> USE <1>2
<1>3. Readings  BY DEF Readings
<1>4. OpenedAfterItsRun /\ ClosedByItsFinalizeRun /\ FinalRun
  BY DEF OpenedAfterItsRun, ClosedByItsFinalizeRun, FinalRun
<1>5. InOrder /\ OncePerReview /\ RoutedForReview
  BY DEF InOrder, OncePerReview, RoutedForReview, Issued, Resending, Finalizes
<1>6. \A t \in Tracker : Knows(t)
  <2> SUFFICES ASSUME NEW t \in Tracker PROVE Knows(t)  OBVIOUS
  <2> QED  BY DEF Knows
<1>7. Clearing  BY DEF Clearing
<1>8. Speaks  BY DEF Speaks, ObjectSpeaksForTheReview
<1> QED  BY <1>1, <1>3, <1>4, <1>5, <1>6, <1>7, <1>8 DEF IInv

LEMMA NextIInv == IInv /\ [Next]_vars => IInv'
<1> SUFFICES ASSUME IInv, [Next]_vars PROVE IInv'  OBVIOUS
<1>1. /\ TInv /\ Readings /\ OpenedAfterItsRun /\ InOrder /\ OncePerReview /\ RoutedForReview
      /\ (\A t \in Tracker : Knows(t)) /\ Clearing /\ ClosedByItsFinalizeRun /\ FinalRun /\ Speaks
  BY DEF IInv
<1>2. TInv'  BY <1>1, TInvStep
<1>3. Readings'  BY <1>1, ReadingsStep
<1>4. OpenedAfterItsRun'  BY <1>1, OpenedStep
<1>5. InOrder'  BY <1>1, InOrderStep
<1>6. OncePerReview'  BY <1>1, OnceStep
<1>7. RoutedForReview'  BY <1>1, RoutedStep
<1>8. \A t \in Tracker : Knows(t)'  BY <1>1, KnowsStep
<1>9. Clearing'  BY <1>1, ClearingStep
<1>10. ClosedByItsFinalizeRun'  BY <1>1, ClosedStep
<1>11. FinalRun'  BY <1>1, FinalRunStep
<1>12. Speaks'  BY <1>1, SpeaksStep
<1> QED
  BY <1>2, <1>3, <1>4, <1>5, <1>6, <1>7, <1>8, <1>9, <1>10, <1>11, <1>12 DEF IInv

(* The inductive invariant holds of every run of the review, for any       *)
(* trackers, runs, cycles, attempts and faults.                            *)
THEOREM Invariance == Spec => []IInv
<1>1. Init => IInv  BY InitIInv
<1>2. IInv /\ [Next]_vars => IInv'  BY NextIInv
<1> QED  BY <1>1, <1>2, PTL DEF Spec

(* Every reachable state is well typed, and a disposed item names a token  *)
(* that a finalize execution can have.                                     *)
THEOREM TypeCorrect == Spec => []TypeOK
<1>1. IInv => TypeOK  BY TInvIsTyped DEF IInv
<1> QED  BY <1>1, Invariance, PTL

(* However often a finalize message is sent again, and whatever the        *)
(* sweeper retries, no two executions apply the corrections of one review: *)
(* a later attempt is issued only once every earlier one has failed.       *)
THEOREM OneFinalize == Spec => []OneFinalizeAtATime
<1>1. IInv => OneFinalizeAtATime
  <2> SUFFICES ASSUME IInv, NEW e \in Token, NEW f \in Token, e[1] = f[1],
                      exec[e].status \in {"running", "succeeded"}, f[2] > e[2],
                      Issued(f)
               PROVE  FALSE
    BY DEF OneFinalizeAtATime, Issued
  <2>1. e[2] \in 1..MaxAttempts /\ f[2] \in 1..MaxAttempts /\ e = <<f[1], e[2]>>  BY Names
  <2>2. MaxAttempts \in Nat  BY ReviewAssumption DEF ReviewAssumption
  <2>3. Earlier(f)  BY DEF IInv, InOrder
  <2>4. exec[<<f[1], e[2]>>].status = "failed"  BY <2>1, <2>2, <2>3 DEF Earlier
  <2> QED  BY <2>1, <2>4
<1> QED  BY <1>1, Invariance, PTL

(* A review is COMPLETE or REJECTED only by the finalize execution of its  *)
(* disposition, routed while the review waited for it and run to its end   *)
(* (without the corrections, if its read of the item failed), and          *)
(* FINALIZE_FAILED only when every attempt has failed.                     *)
THEOREM ClosedByRun == Spec => []ClosedByItsFinalizeRun
<1>1. IInv => ClosedByItsFinalizeRun  BY DEF IInv
<1> QED  BY <1>1, Invariance, PTL

(* A consumer never reads a final status of a review none of whose         *)
(* finalize executions, routed while it waited, has run to its end.        *)
THEOREM FinalStatus == Spec => []FinalStatusNeedsAFinalRun
<1>1. IInv => FinalStatusNeedsAFinalRun
  BY Names DEF IInv, FinalRun, FinalStatusNeedsAFinalRun
<1> QED  BY <1>1, Invariance, PTL

(* Unless the status object was last written for a review that was no      *)
(* longer under way, it says what the item says, whoever of two trackers,  *)
(* a sweeper and an abort wrote last.                                      *)
THEOREM ObjectSpeaks == Spec => []ObjectSpeaksForTheReview
<1>1. IInv => ObjectSpeaksForTheReview  BY DEF IInv, Speaks
<1> QED  BY <1>1, Invariance, PTL

(* Within a cycle a review only moves forward, an ended one stays as it    *)
(* ended, and only a run's hold begins another.                            *)
THEOREM ForwardOnly == Spec => MovesForward
<1> DEFINE Forward ==
      IF item'.cycle = item.cycle /\ item.state # "NONE"
        THEN /\ Phase(item'.state) >= Phase(item.state)
             /\ item.state \in Ended => item' = item
             /\ item.state = "FINALIZING" => item'.disposition = item.disposition
        ELSE item' # item => item'.state \in {"HOLDING", "NONE"}
<1>1. IInv /\ [Next]_vars => Forward
  <2> SUFFICES ASSUME IInv, [Next]_vars PROVE Forward  OBVIOUS
  <2>1. Formed(item) /\ item \in Item /\ (item.state # "NONE" => item.cycle = cycles)
        /\ cycles \in Nat
    BY ItemForm DEF IInv
  <2>2. ItemMove  BY ItemMoves DEF IInv
  <2>3. CASE item' = item  BY <2>3 DEF Phase
  <2>4. ASSUME NEW s, item' = [item EXCEPT !.state = s]
        PROVE /\ item'.state = s /\ item'.cycle = item.cycle
              /\ item'.disposition = item.disposition
    BY <2>1, <2>4 DEF Item
  <2>5. ASSUME NEW e \in Execution, HeldBy(e) PROVE Forward
    <3>1. item'.state = "HOLDING" /\ item'.cycle = cycles'  BY <2>5 DEF HeldBy, NoItem
    <3>2. CASE cycles' = cycles + 1  BY <2>1, <3>1, <3>2
    <3>3. CASE IsLive /\ item.arn = e
      <4>1. item.state = "HOLDING"
        BY <2>5, <3>3 DEF HeldBy, IInv, OpenedAfterItsRun, Over, IsLive, Live
      <4> QED  BY <3>1, <4>1 DEF Phase, Ended
    <3> QED  BY <2>5, <3>2, <3>3 DEF HeldBy
  <2>6. CASE Withdrawn
    BY <2>4, <2>6 DEF Withdrawn, IsLive, Live, Ended, Phase
  <2>7. ASSUME NEW t \in Tracker, MovedBy(t) PROVE Forward
    <3>1. /\ item'.state = ClosedAs(tr[t]) /\ item'.cycle = item.cycle
          /\ item'.disposition = item.disposition
      BY <2>4, <2>7 DEF MovedBy
    <3>2. \/ item.state = "HOLDING" /\ item'.state = "OPEN"
          \/ item.state = "FINALIZING" /\ item'.state \in {"COMPLETE", "REJECTED"}
      BY <2>7, <3>1, ClosedStates DEF MovedBy, Holds, Finalizes
    <3> QED  BY <3>1, <3>2 DEF Ended, Phase
  <2>8. CASE ClaimedOrReleased
    BY <2>4, <2>8 DEF ClaimedOrReleased, Ended, Phase
  <2>9. CASE Disposed
    <3>1. item'.state = "FINALIZING" /\ item'.cycle = item.cycle
        /\ item.state \in {"OPEN", "CLAIMED"}
      BY <2>1, <2>9 DEF Disposed, Item
    <3> QED  BY <3>1 DEF Ended, Phase
  <2>10. CASE Reaped
    <3>1. item.state = "HOLDING" /\ item'.cycle # item.cycle /\ item'.state = "NONE"
      BY <2>1, <2>10 DEF Reaped, NoItem, Formed
    <3> QED  BY <3>1
  <2>11. CASE Retried
    <3>1. /\ item'.state = "FINALIZING" /\ item'.cycle = item.cycle /\ item.state = "FINALIZING"
          /\ item'.disposition = item.disposition
      BY <2>1, <2>11 DEF Retried, Item
    <3> QED  BY <3>1 DEF Ended, Phase
  <2>12. CASE GivenUp
    BY <2>4, <2>12 DEF GivenUp, Ended, Phase
  <2> QED  BY <2>2, <2>3, <2>5, <2>6, <2>7, <2>8, <2>9, <2>10, <2>11, <2>12 DEF ItemMove
<1>2. IInv /\ [Next]_vars => [Forward]_vars  BY <1>1
<1> QED  BY <1>2, Invariance, PTL DEF Spec, MovesForward

-----------------------------------------------------------------------------
(* The abstract reviews.                                                   *)
LEMMA StageIs ==
  /\ item.state = "NONE" => Stage = IF cycles = 0 THEN "none" ELSE "dropped"
  /\ item.state = "HOLDING" => Stage = "held"
  /\ item.state \in {"OPEN", "CLAIMED"} => Stage = "open"
  /\ item.state = "FINALIZING" => Stage = "disposed"
  /\ item.state \in {"COMPLETE", "REJECTED"} => Stage = "finished"
  /\ item.state = "FINALIZE_FAILED" => Stage = "given up"
  /\ item.state = "WITHDRAWN" => Stage = IF item.attempt = 0 THEN "dropped" ELSE "withdrawn"
BY DEF Stage

(* No step concerns two executions.                                        *)
LEMMA OneAtATime ==
  ASSUME TInv, [Next]_vars, ~UNCHANGED exec
  PROVE  \E e \in Execution : \A f \in Execution \ {e} : exec'[f] = exec[f]
<1> DEFINE Only(e) == \A f \in Execution \ {e} : exec'[f] = exec[f]
<1>1. exec \in [Execution -> [status : ExecStatus, route : Route]]  BY DEF TInv, RunInv
<1>2. ASSUME NEW e \in Execution, NEW x, exec' = [exec EXCEPT ![e] = x] PROVE Only(e)
  BY <1>1, <1>2
<1>3. ASSUME NEW e \in Execution, NEW route, RoutedAs(e, route) PROVE Only(e)
  BY <1>2, <1>3 DEF RoutedAs
<1>4. ASSUME NEW e \in Execution, NEW outcome, End(e, outcome) PROVE Only(e)
  BY <1>1, <1>4 DEF End
<1>5. ASSUME NEW e \in Execution, exec' = [exec EXCEPT ![e].status = "running"] PROVE Only(e)
  BY <1>1, <1>5
<1> HIDE DEF Only
<1>6. ASSUME RunSteps PROVE \E e \in Execution : Only(e)
  <2>1. PICK e \in Execution :
          RouteFinalize(e) \/ RouteUnread(e) \/ RoutePlain(e) \/ RouteHold(e)
              \/ RouteClears(e) \/ EndRun(e)
    BY <1>6 DEF RunSteps
  <2> QED
    BY <1>3, <1>4, <2>1 DEF RouteFinalize, RouteUnread, RoutePlain, RouteHold, RouteClears, EndRun
<1>7. ASSUME NEW r \in Run, Upload(r) PROVE \E e \in Execution : Only(e)
  BY <1>5, <1>7 DEF Upload, Starts, Execution
<1>8. ASSUME NEW e \in Token, StartFinalize(e) PROVE \E f \in Execution : Only(f)
  BY <1>5, <1>8 DEF StartFinalize, Execution
<1>9. ASSUME NEW e \in Execution, RetryStep(e) PROVE \E f \in Execution : Only(f)
  BY <1>3, <1>9 DEF RetryStep
<1>10. ASSUME Abort PROVE \E e \in Execution : Only(e)
  BY <1>4, <1>10 DEF Abort
<1>11. ASSUME ApiQueues PROVE \E e \in Execution : Only(e)
  <2>1. api.run \in Run  BY <1>11 DEF ApiQueues, TInv, ApiInv
  <2> QED  BY <1>5, <1>11, <2>1 DEF ApiQueues, Starts, Execution
<1> QED
  BY <1>6, <1>7, <1>8, <1>9, <1>10, <1>11, ExecMovers DEF ExecMover, Only

(* A step that may move the item leaves every attempt where it is.         *)
LEMMA ItemAlone ==
  ASSUME TInv, ItemMover, NEW e \in Execution
  PROVE  Progress(e)' = Progress(e)
<1>1. exec \in [Execution -> [status : ExecStatus, route : Route]]  BY DEF TInv, RunInv
<1>2. CASE UNCHANGED exec  BY <1>2 DEF Progress
<1>3. ASSUME NEW f \in Execution, Routing(f), NEW route, RoutedAs(f, route),
  route \notin FinalRoutes
      PROVE Progress(e)' = Progress(e)
  BY <1>1, <1>3 DEF Routing, RoutedAs, Progress
<1>4. ASSUME NEW f \in Execution, RoutePlain(f) \/ RouteHold(f) PROVE Progress(e)' = Progress(e)
  BY <1>3, <1>4 DEF RoutePlain, RouteHold
<1>5. ASSUME ~\E f \in Execution : RoutePlain(f) \/ RouteHold(f) PROVE UNCHANGED exec
  BY <1>5 DEF ItemMover, runVars, TrackerMovesItem, TrackerWithdraws, Claim, Release, Dispose,
     ByReviewer, ApiWithdraws, SweeperWaits, SweeperReplays, SweeperReapsHold, SweeperResends,
     SweeperRetries, SweeperGivesUp, SweeperWithdraws, BySweeper, HoldExpires
<1> QED  BY <1>2, <1>4, <1>5

(* What the item's moves are to the abstract review.                       *)
Abstract == [e \in Token |-> Progress(e)]

ReviewMove ==
  Promise!Begin \/ Promise!Open \/ Promise!Dispose \/ Promise!Drop \/ Promise!Withdraw
  \/ Promise!Finish \/ Promise!GiveUp \/ UNCHANGED <<cycles, Stage, Abstract>>

LEMMA StageMoves ==
  ASSUME IInv, [Next]_vars, Abstract' = Abstract
  PROVE  ReviewMove
<1> USE DEF ReviewMove, Promise!Moves
<1>1. Formed(item) /\ item \in Item /\ (item.state # "NONE" => item.cycle = cycles)
      /\ cycles \in 0..MaxCycles /\ MaxCycles \in Nat /\ MaxAttempts \in Nat \ {0}
  BY ItemForm DEF IInv
<1>2. ItemMove  BY ItemMoves DEF IInv
<1>3. ASSUME NEW s, item' = [item EXCEPT !.state = s]
      PROVE item'.state = s /\ item'.attempt = item.attempt
  BY <1>1, <1>3 DEF Item
<1>4. UNCHANGED [e \in Token |-> Progress(e)]  BY DEF Abstract
<1>5. ASSUME NEW e \in Execution, HeldBy(e) PROVE ReviewMove
  <2>1. item'.state = "HOLDING" /\ Stage' = "held"  BY <1>5 DEF HeldBy, NoItem, Stage
  <2>2. CASE cycles < MaxCycles /\ cycles' = cycles + 1
    BY <1>4, <2>1, <2>2 DEF Promise!Begin
  <2>3. CASE cycles' = cycles /\ IsLive /\ item.arn = e
    <3>1. item.state = "HOLDING"
      BY <1>5, <2>3 DEF HeldBy, IInv, OpenedAfterItsRun, Over, IsLive, Live
    <3>2. Stage = "held"  BY <3>1, StageIs
    <3> QED  BY <2>1, <2>3, <3>2
  <2> QED  BY <1>5, <2>2, <2>3 DEF HeldBy
<1>6. CASE UNCHANGED <<item, cycles>>  BY <1>6 DEF Stage
<1>7. CASE cycles' = cycles /\ Withdrawn
  <2>1. item'.state = "WITHDRAWN" /\ item'.attempt = item.attempt  BY <1>3, <1>7 DEF Withdrawn
  <2>2. Stage' = IF item.attempt = 0 THEN "dropped" ELSE "withdrawn"  BY <2>1, StageIs DEF Stage
  <2>3. CASE item.state \in {"HOLDING", "OPEN", "CLAIMED"}
    <3>1. item.attempt = 0  BY <1>1, <2>3 DEF Formed
    <3> QED  BY <1>4, <1>7, <2>2, <2>3, <3>1, StageIs DEF Promise!Drop
  <2>4. CASE item.state = "FINALIZING"
    <3>1. item.attempt # 0  BY <1>1, <2>4 DEF Formed
    <3> QED  BY <1>4, <1>7, <2>2, <2>4, <3>1, StageIs DEF Promise!Withdraw
  <2> QED  BY <1>7, <2>3, <2>4 DEF Withdrawn, IsLive, Live
<1>8. ASSUME cycles' = cycles, NEW t \in Tracker, MovedBy(t) PROVE ReviewMove
  <2>1. item'.state = ClosedAs(tr[t])  BY <1>3, <1>8 DEF MovedBy
  <2>2. CASE item.state = "HOLDING" /\ item'.state = "OPEN"
    <3>1. Stage = "held" /\ Stage' = "open"  BY <2>2, StageIs DEF Stage
    <3> QED  BY <1>4, <1>8, <3>1 DEF Promise!Open
  <2>3. CASE /\ tr[t].e \notin Run /\ Finalizes(tr[t].e)
             /\ item'.state \in {"COMPLETE", "REJECTED"}
    <3>1. Stage = "disposed" /\ Stage' = "finished"  BY <2>3, StageIs DEF Finalizes, Stage
    <3>2. tr[t].at = "deciding" /\ tr[t].e \in Token
      BY <1>8, <2>3 DEF MovedBy, IInv, TInv, TrackInv, Execution
    <3>3. exec[tr[t].e].status = "succeeded" /\ exec[tr[t].e].route \in FinalRoutes
      BY <3>2 DEF IInv, Knows
    <3>4. Progress(tr[t].e) \in {"applied", "missed"}  BY <3>3 DEF Progress
    <3>5. item.attempt \in 1..MaxAttempts /\ tr[t].e = <<cycles, item.attempt>>
      BY <1>1, <2>3 DEF Finalizes, TokenOf, Formed
    <3>6. [e \in Token |-> Progress(e)][<<cycles, item.attempt>>]
             \in {"applied", "missed"}
      BY <3>2, <3>4, <3>5
    <3> QED  BY <1>4, <1>8, <3>1, <3>5, <3>6 DEF Promise!Finish
  <2> QED  BY <1>8, <2>1, <2>2, <2>3, ClosedStates DEF MovedBy, Holds
<1>9. CASE cycles' = cycles /\ ClaimedOrReleased
  <2>1. item.state \in {"OPEN", "CLAIMED"} /\ item'.state \in {"OPEN", "CLAIMED"}
    BY <1>3, <1>9 DEF ClaimedOrReleased
  <2>2. Stage = "open" /\ Stage' = "open"  BY <2>1, StageIs DEF Stage
  <2> QED  BY <1>9, <2>2
<1>10. CASE cycles' = cycles /\ Disposed
  <2>1. item.state \in {"OPEN", "CLAIMED"} /\ item'.state = "FINALIZING"
    BY <1>1, <1>10 DEF Disposed, Item
  <2>2. Stage = "open" /\ Stage' = "disposed"  BY <2>1, StageIs DEF Stage
  <2> QED  BY <1>4, <1>10, <2>2 DEF Promise!Dispose
<1>11. CASE cycles' = cycles /\ Reaped
  <2>1. item.state = "HOLDING" /\ item'.state = "NONE" /\ cycles # 0
    BY <1>1, <1>11 DEF Reaped, NoItem, Formed
  <2>2. Stage = "held" /\ Stage' = "dropped"  BY <1>11, <2>1, StageIs DEF Stage
  <2> QED  BY <1>4, <1>11, <2>2 DEF Promise!Drop
<1>12. CASE cycles' = cycles /\ Retried
  <2>1. item.state = "FINALIZING" /\ item'.state = "FINALIZING"
    BY <1>1, <1>12 DEF Retried, Item
  <2>2. Stage = "disposed" /\ Stage' = "disposed"  BY <2>1, StageIs DEF Stage
  <2> QED  BY <1>12, <2>2
<1>13. CASE cycles' = cycles /\ GivenUp
  <2>1. /\ item.state = "FINALIZING" /\ item'.state = "FINALIZE_FAILED"
        /\ exec[TokenOf(item)].status = "failed" /\ item.attempt = MaxAttempts
    BY <1>1, <1>3, <1>13 DEF GivenUp, Formed
  <2>2. Stage = "disposed" /\ Stage' = "given up"  BY <2>1, StageIs DEF Stage
  <2>3. ASSUME NEW n \in 1..MaxAttempts
        PROVE [e \in Token |-> Progress(e)][<<cycles, n>>] = "failed"
    <3>1. <<cycles, n>> \in Token /\ item.cycle = cycles  BY <1>1, <2>1, Names DEF Formed
    <3>2. exec[<<cycles, n>>].status = "failed"
      <4>1. CASE n < item.attempt  BY <2>1, <3>1, <4>1 DEF IInv, InOrder, Earlier, TokenOf
      <4>2. CASE n = item.attempt  BY <2>1, <3>1, <4>2 DEF TokenOf
      <4> QED  BY <1>1, <2>1, <4>1, <4>2
    <3>3. Progress(<<cycles, n>>) = "failed"  BY <3>2 DEF Progress
    <3> QED  BY <3>1, <3>3
  <2> QED  BY <1>4, <1>13, <2>2, <2>3 DEF Promise!GiveUp
<1> QED
  BY <1>2, <1>5, <1>6, <1>7, <1>8, <1>9, <1>10, <1>11, <1>12, <1>13 DEF ItemMove

(* An execution that moves is an attempt that makes its next step.         *)
LEMMA AttemptMoves ==
  ASSUME IInv, [Next]_vars, UNCHANGED <<item, cycles>>, NEW a \in Token,
         Abstract' = [Abstract EXCEPT ![a] = Progress(a)']
  PROVE  Progress(a)' = Progress(a) \/ Promise!Attempts(a)
<1> USE DEF Promise!Goes
<1>1. a \in Execution /\ TInv  BY DEF Execution, IInv
<1>2. exec[a] \in [status : ExecStatus, route : Route]  BY <1>1 DEF TInv, RunInv
<1>3. ExecMove(a)  BY <1>1, ExecMoves
<1>4. /\ [e \in Token |-> Progress(e)]' =
           [[e \in Token |-> Progress(e)] EXCEPT ![a] = Progress(a)']
      /\ [e \in Token |-> Progress(e)][a] = Progress(a)
  BY DEF Abstract
<1>5. CASE exec'[a] = exec[a]  BY <1>5 DEF Progress
<1>6. CASE Starting(a)
  <2>1. Progress(a) = "none" /\ Progress(a)' = "started"
    <3>1. exec[a].route = "none"  BY <1>1, <1>6 DEF Starting, TInv, RunInv
    <3>2. exec'[a].status = "running" /\ exec'[a].route = "none"
      BY <1>2, <1>6, <3>1 DEF Starting
    <3> QED  BY <1>6, <3>2 DEF Starting, Progress
  <2>2. Issued(a) /\ Past(a) /\ Earlier(a)
    BY <1>6 DEF Starting, Issued, IInv, OncePerReview, InOrder
  <2>3. a[1] \in 1..MaxCycles /\ a[2] \in 1..MaxAttempts /\ a = <<a[1], a[2]>>  BY Names
  <2>4. ASSUME NEW n \in 1..MaxAttempts, n < a[2]
        PROVE [e \in Token |-> Progress(e)][<<a[1], n>>] = "failed"
    <3>1. <<a[1], n>> \in Token  BY <2>3, Names
    <3>2. exec[<<a[1], n>>].status = "failed"  BY <2>2, <2>4 DEF Earlier
    <3> QED  BY <3>1, <3>2 DEF Progress
  <2>5. a[1] < cycles \/ (a[1] = cycles /\ Stage \in {"disposed", "withdrawn"})
    <3> SUFFICES ASSUME ~(a[1] < cycles) PROVE a[1] = cycles /\ Stage \in {"disposed", "withdrawn"}
      OBVIOUS
    <3>1. a[1] = cycles /\ item.state \in Ended \cup {"FINALIZING"} /\ a[2] <= item.attempt
      BY <2>2 DEF Past
    <3>2. item \in Item /\ Formed(item) /\ item.cycle = cycles
      BY <1>1, <3>1, ItemForm DEF Ended
    <3>3. CASE item.state \in {"COMPLETE", "REJECTED"}
      <4>1. /\ TokenOf(item) \in Token /\ item.attempt \in 1..MaxAttempts
            /\ TokenOf(item) = <<a[1], item.attempt>>
        BY <3>1, <3>2, <3>3, Names DEF Formed, TokenOf
      <4>2. Finalized(TokenOf(item))
        BY <3>3 DEF IInv, ClosedByItsFinalizeRun
      <4>3. Earlier(TokenOf(item))  BY <4>1, <4>2 DEF IInv, InOrder, Issued
      <4>4. CASE a[2] < item.attempt
        BY <1>6, <2>3, <4>1, <4>3, <4>4 DEF Earlier, Starting
      <4>5. CASE a[2] = item.attempt  BY <1>6, <2>3, <4>1, <4>2, <4>5 DEF Starting
      <4> QED  BY <2>3, <3>1, <4>1, <4>4, <4>5
    <3>4. CASE item.state = "FINALIZE_FAILED"
      BY <1>6, <2>3, <3>1, <3>2, <3>4 DEF IInv, ClosedByItsFinalizeRun, Starting
    <3>5. CASE item.state = "WITHDRAWN"
      <4>1. item.attempt # 0  BY <2>3, <3>1, <3>2 DEF Item
      <4> QED  BY <3>1, <3>5, <4>1, StageIs
    <3>6. CASE item.state = "FINALIZING"  BY <3>1, <3>6, StageIs
    <3> QED  BY <3>1, <3>3, <3>4, <3>5, <3>6 DEF Ended
  <2> QED  BY <1>4, <2>1, <2>4, <2>5 DEF Promise!Start, Promise!Attempts
<1>7. CASE Rerouting(a)
  <2>1. PICK route \in Route :
          /\ exec'[a] = [exec[a] EXCEPT !.route = route]
          /\ route \in FinalRoutes => Finalizes(a) /\ exec[a].route = "none"
    BY <1>7 DEF Rerouting
  <2>2. /\ exec[a].status = "running" /\ exec'[a].status = "running" /\ exec'[a].route = route
    BY <1>2, <1>7, <2>1 DEF Rerouting
  <2>3. CASE route \in FinalRoutes
    <3>1. Promise!Waits(a)
      <4>1. item.state = "FINALIZING" /\ a[1] = cycles
        BY <1>1, <2>1, <2>3, ItemForm DEF Finalizes, TokenOf
      <4>2. Stage = "disposed"  BY <4>1, StageIs
      <4> QED  BY <4>1, <4>2 DEF Promise!Waits
    <3>2. Progress(a) = "started" /\ Progress(a)' \in {"applying", "overlooking"}
      BY <2>1, <2>2, <2>3 DEF Progress
    <3> QED
      BY <1>4, <3>1, <3>2 DEF Promise!Recognise, Promise!Overlook, Promise!Attempts
  <2>4. CASE route \notin FinalRoutes
    <3>1. Progress(a) \in {"started"} \cup Promise!Routed /\ Progress(a)' = "started"
      BY <2>2, <2>4 DEF Progress, Promise!Routed
    <3> QED  BY <1>4, <3>1 DEF Promise!Repeat, Promise!Attempts
  <2> QED  BY <2>3, <2>4
<1>8. CASE Ending(a)
  <2>1. PICK outcome \in {"succeeded", "failed", "aborted"}, route \in Route :
          /\ exec'[a] = [status |-> outcome, route |-> route]
          /\ outcome = "succeeded" => route = exec[a].route
    BY <1>8 DEF Ending
  <2>2. Progress(a) \in {"started"} \cup Promise!Routed
    BY <1>8 DEF Ending, Progress, Promise!Routed
  <2>3. CASE outcome = "succeeded"
    <3>1. CASE exec[a].route = "review"
      <4>1. Progress(a) = "applying" /\ Progress(a)' = "applied"
        BY <1>8, <2>1, <2>3, <3>1 DEF Ending, Progress
      <4> QED  BY <1>4, <4>1 DEF Promise!Apply, Promise!Attempts
    <3>2. CASE exec[a].route = "unread"
      <4>1. Progress(a) = "overlooking" /\ Progress(a)' = "missed"
        BY <1>8, <2>1, <2>3, <3>2 DEF Ending, Progress
      <4> QED  BY <1>4, <4>1 DEF Promise!Miss, Promise!Attempts
    <3>3. CASE exec[a].route \notin FinalRoutes
      <4>1. Progress(a)' = "spent"  BY <2>1, <2>3, <3>3 DEF Progress
      <4> QED  BY <1>4, <2>2, <4>1 DEF Promise!Spend, Promise!Attempts
    <3> QED  BY <3>1, <3>2, <3>3
  <2>4. CASE outcome = "failed"
    <3>1. Progress(a)' = "failed"  BY <2>1, <2>4 DEF Progress
    <3> QED  BY <1>4, <2>2, <3>1 DEF Promise!Fail, Promise!Attempts
  <2>5. CASE outcome = "aborted"
    <3>1. Progress(a)' = "spent"  BY <2>1, <2>5 DEF Progress
    <3> QED  BY <1>4, <2>2, <3>1 DEF Promise!Spend, Promise!Attempts
  <2> QED  BY <2>1, <2>3, <2>4, <2>5
<1> QED  BY <1>3, <1>5, <1>6, <1>7, <1>8 DEF ExecMove

LEMMA PromiseStep == IInv /\ [Next]_vars => [Promise!Next]_(Promise!vars)
<1> SUFFICES ASSUME IInv, [Next]_vars PROVE [Promise!Next]_(Promise!vars)  OBVIOUS
<1>1. TInv /\ Token \subseteq Execution  BY DEF IInv, Execution
<1>2. ASSUME Abstract' = Abstract PROVE [Promise!Next]_(Promise!vars)
  <2>1. ReviewMove  BY <1>2, StageMoves
  <2> QED  BY <2>1 DEF ReviewMove, Promise!Next, Promise!vars, Abstract
<1>3. CASE ItemMover
  <2>1. \A e \in Token : Progress(e)' = Progress(e)  BY <1>1, <1>3, ItemAlone
  <2>2. Abstract' = Abstract  BY <2>1 DEF Abstract
  <2> QED  BY <1>2, <2>2
<1>4. CASE ~ItemMover
  <2>1. UNCHANGED <<item, cycles>>  BY <1>4, ItemMovers
  <2>2. Stage' = Stage  BY <2>1 DEF Stage
  <2>3. CASE UNCHANGED exec
    <3>1. Abstract' = Abstract  BY <2>3 DEF Abstract, Progress
    <3> QED  BY <1>2, <3>1
  <2>4. ASSUME NEW e \in Execution, \A f \in Execution \ {e} : exec'[f] = exec[f]
        PROVE [Promise!Next]_(Promise!vars)
    <3>1. ASSUME NEW f \in Token \ {e} PROVE Progress(f)' = Progress(f)
      <4>1. exec'[f] = exec[f]  BY <1>1, <2>4
      <4> QED  BY <4>1 DEF Progress
    <3>2. CASE e \notin Token
      <4>1. Abstract' = Abstract  BY <3>1, <3>2 DEF Abstract
      <4> QED  BY <1>2, <4>1
    <3>3. CASE e \in Token
      <4>1. Abstract' = [Abstract EXCEPT ![e] = Progress(e)']  BY <3>1, <3>3 DEF Abstract
      <4>2. CASE Progress(e)' = Progress(e)
        <5>1. Abstract' = Abstract  BY <4>1, <4>2, <3>3 DEF Abstract
        <5> QED  BY <1>2, <5>1
      <4>3. CASE Progress(e)' # Progress(e) /\ Promise!Attempts(e)
        <5>1. Abstract'[e] # Abstract[e]  BY <3>3, <4>3 DEF Abstract
        <5>2. Abstract' # Abstract  BY <5>1
        <5>3. e \in Promise!Attempt  BY <3>3 DEF Token, Promise!Attempt
        <5> QED
          BY <2>1, <2>2, <4>3, <5>2, <5>3 DEF Promise!Next, Abstract
      <4> QED  BY <2>1, <3>3, <4>1, <4>2, <4>3, AttemptMoves
    <3> QED  BY <3>2, <3>3
  <2> QED  BY <1>1, <2>3, <2>4, OneAtATime
<1> QED  BY <1>3, <1>4

(* However many runs, cycles, attempts and faults: every step of the item, *)
(* its messages and its executions is a step of the abstract reviews, or   *)
(* none, so that corrections are applied, or by a failed read missed, in   *)
(* turn, only for a review that waits for them, and a review ends as its   *)
(* attempts did.                                                           *)
THEOREM Implementation == Spec => FinalizedInTurn
<1>1. Init => Promise!Init
  <2> SUFFICES ASSUME Init PROVE Promise!Init  OBVIOUS
  <2>1. Stage = "none" /\ cycles = 0  BY DEF Init, NoItem, Stage
  <2>2. \A e \in Token : Progress(e) = "none"  BY DEF Init, Progress, Execution
  <2>3. [e \in Token |-> Progress(e)] = [a \in Token |-> "none"]  BY <2>2
  <2> QED  BY <2>1, <2>3 DEF Promise!Init, Promise!Attempt, Token
<1> QED
  BY Invariance, PromiseStep, <1>1, PTL DEF Spec, FinalizedInTurn, Promise!Spec

=============================================================================
