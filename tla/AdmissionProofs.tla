--------------------------- MODULE AdmissionProofs ---------------------------
(***************************************************************************)
(* What Admission guarantees for every number of messages and invocations, *)
(* every ceiling, grace period and bound.                                  *)
(***************************************************************************)
EXTENDS Admission, FiniteSetTheorems, TLAPS

(* Every state is well typed: in particular, a counter that starts at zero *)
(* never goes below it (update_counter's floor, the transaction's "> :zero"*)
(* and corrections that only write counts).                                *)
LEMMA InitTypeOK == Init => TypeOK
<1>1. NoReading \in Reading  BY DEF NoReading, Reading
<1> QED  BY <1>1, AdmissionAssumption DEF AdmissionAssumption, Init, TypeOK, PC

(* The moves of an invocation keep the local variables well typed.         *)
LEMMA GoToTyped ==
  ASSUME TypeOK, NEW i \in Invocation, NEW point \in PC, pc[i] # "idle",
         GoTo(i, point)
  PROVE  /\ pc' \in [Invocation -> PC]
         /\ job' \in [Invocation -> Message \cup {None}]
         /\ \A j \in Invocation : pc'[j] # "idle" => job'[j] \in Message
         /\ reading' \in [Invocation -> Reading]
BY DEF TypeOK, GoTo

LEMMA GoToWithTyped ==
  ASSUME TypeOK, NEW i \in Invocation, NEW point \in PC, pc[i] # "idle",
         NEW r \in Reading, GoToWith(i, point, r)
  PROVE  /\ pc' \in [Invocation -> PC]
         /\ job' \in [Invocation -> Message \cup {None}]
         /\ \A j \in Invocation : pc'[j] # "idle" => job'[j] \in Message
         /\ reading' \in [Invocation -> Reading]
BY DEF TypeOK, GoToWith

LEMMA FinishTyped ==
  ASSUME TypeOK, NEW i \in Invocation, Finish(i)
  PROVE  /\ pc' \in [Invocation -> PC]
         /\ job' \in [Invocation -> Message \cup {None}]
         /\ \A j \in Invocation : pc'[j] # "idle" => job'[j] \in Message
         /\ reading' \in [Invocation -> Reading]
<1>1. NoReading \in Reading  BY DEF NoReading, Reading
<1>2. "idle" \in PC  BY DEF PC
<1> QED  BY <1>1, <1>2 DEF TypeOK, Finish

LEMMA RunningCount == TypeOK => Cardinality(Running) \in Nat
<1> SUFFICES ASSUME TypeOK PROVE Cardinality(Running) \in Nat  OBVIOUS
<1>1. IsFiniteSet(Message)  BY AdmissionAssumption DEF AdmissionAssumption
<1>2. Running \subseteq Message  BY DEF Running
<1> QED  BY <1>1, <1>2, FS_Subset, FS_CardinalityType

LEMMA TypeStep == TypeOK /\ [Next]_vars => TypeOK'
<1> SUFFICES ASSUME TypeOK, [Next]_vars PROVE TypeOK'  OBVIOUS
<1> USE AdmissionAssumption DEF AdmissionAssumption, queueVars, trackerVars,
          counterVars, localVars, historyVars
<1>a. /\ active \in Int
      /\ Decremented \in Int
      /\ deficit = 0 => Decremented >= 0
  BY DEF TypeOK, Decremented
<1>1. ASSUME NEW i \in Invocation, Step(i) PROVE TypeOK'
  <2>1. CASE SkipAborted(i)
    BY <2>1, FinishTyped DEF SkipAborted, Delete, TypeOK
  <2>2. CASE Increment(i)
    <3>1. pc[i] # "idle" /\ "repair" \in PC /\ "claimed" \in PC
      BY <2>2 DEF Increment, PC, HoldingPoints
    <3>2. NoReading \in Reading /\ [NoReading EXCEPT !.active = active + 1] \in Reading
      BY <1>a DEF NoReading, Reading
    <3> QED  BY <1>a, <2>2, <3>1, <3>2, GoToWithTyped DEF Increment, TypeOK
  <2>3. CASE RefuseIncrement(i)
    <3>1. "refused" \in PC  BY DEF PC
    <3> QED  BY <2>3, <3>1, GoToTyped, FinishTyped DEF RefuseIncrement, TypeOK
  <2>4. CASE ReadCounter(i)
    <3>1. pc[i] # "idle" /\ "listing" \in PC  BY <2>4 DEF ReadCounter, PC
    <3>2. [active |-> active, sample |-> sample, running |-> 0] \in Reading
      BY DEF TypeOK, Reading
    <3> QED  BY <2>4, <3>1, <3>2, GoToWithTyped, FinishTyped DEF ReadCounter, TypeOK
  <2>5. CASE ListRunning(i)
    <3>1. pc[i] # "idle" /\ "deciding" \in PC  BY <2>5 DEF ListRunning, PC
    <3>2. [reading[i] EXCEPT !.running = Cardinality(Running)] \in Reading
      BY RunningCount DEF TypeOK, Reading
    <3> QED  BY <2>5, <3>1, <3>2, GoToWithTyped, FinishTyped DEF ListRunning, TypeOK
  <2>6. CASE ClearSample(i)
    <3>1. sample' \in SUBSET Sample
      BY <2>6 DEF ClearSample, SwapSample, TypeOK
    <3> QED  BY <2>6, <3>1, FinishTyped DEF ClearSample, TypeOK
  <2>7. CASE RecordSample(i)
    <3>1. [age |-> 0, running |-> reading[i].running] \in Sample
      BY DEF TypeOK, Reading, Sample
    <3>2. sample' \in SUBSET Sample
      BY <2>7, <3>1 DEF RecordSample, TypeOK
    <3> QED  BY <2>7, <3>2, FinishTyped DEF RecordSample, TypeOK
  <2>8. CASE RestartSample(i)
    <3>1. [age |-> 0, running |-> reading[i].running] \in Sample
      BY DEF TypeOK, Reading, Sample
    <3>2. sample' \in SUBSET Sample
      BY <2>8, <3>1 DEF RestartSample, SwapSample, TypeOK
    <3> QED  BY <2>8, <3>2, FinishTyped DEF RestartSample, TypeOK
  <2>9. CASE LeaveCounter(i)
    BY <2>9, FinishTyped DEF LeaveCounter, TypeOK
  <2>10. CASE Correct(i)
    <3>1. PICK s \in reading[i].sample :
            /\ Target(reading[i], s) < reading[i].active
            /\ IF CounterUnmoved(i)
                 THEN /\ active' = Target(reading[i], s)
                      /\ sample' = {}
                      /\ shortfall' =
                           shortfall + (reading[i].active - Target(reading[i], s))
                      /\ GoToWith(i, "retry", NoReading)
                 ELSE /\ Finish(i)
                      /\ UNCHANGED <<counterVars, shortfall>>
      BY <2>10 DEF Correct
    <3>2. Target(reading[i], s) \in Nat /\ reading[i].active \in Int
      BY DEF TypeOK, Reading, Sample, Target, Larger
    <3>3. pc[i] # "idle" /\ "retry" \in PC /\ NoReading \in Reading
      BY <2>10 DEF Correct, PC, NoReading, Reading
    <3> QED  BY <2>10, <3>1, <3>2, <3>3, GoToWithTyped, FinishTyped DEF Correct, TypeOK
  <2>11. CASE RepairList(i)
    <3>1. pc[i] # "idle" /\ "repairing" \in PC
      BY <2>11 DEF RepairList, PC, HoldingPoints
    <3>2. [reading[i] EXCEPT !.running = Cardinality(Running)] \in Reading
      BY RunningCount DEF TypeOK, Reading
    <3> QED  BY <2>11, <3>1, <3>2, GoToWithTyped, GoToTyped DEF RepairList, TypeOK
  <2>12. CASE RepairWrite(i)
    <3>1. pc[i] # "idle" /\ "claimed" \in PC /\ NoReading \in Reading
      BY <2>12 DEF RepairWrite, PC, HoldingPoints, NoReading, Reading
    <3>2. reading[i].running \in Nat  BY DEF TypeOK, Reading
    <3> QED  BY <2>12, <3>1, <3>2, GoToWithTyped DEF RepairWrite, TypeOK
  <2>13. CASE ClaimStart(i)
    <3>1. pc[i] # "idle" /\ "refund_ack" \in PC /\ "cleared" \in PC
      BY <2>13 DEF ClaimStart, PC, HoldingPoints
    <3> QED  BY <2>13, <3>1, GoToTyped DEF ClaimStart, TypeOK
  <2>14. CASE StartExecution(i)
    <3>1. pc[i] # "idle" /\ "refund_ack" \in PC /\ "acking" \in PC
      BY <2>14 DEF StartExecution, PC, HoldingPoints
    <3> QED  BY <2>14, <3>1, GoToTyped DEF StartExecution, TypeOK
  <2>15. CASE HandBack(i)
    <3>1. "acking" \in PC  BY DEF PC
    <3> QED  BY <1>a, <2>15, <3>1, GoToTyped, FinishTyped DEF HandBack, AfterRefund, TypeOK
  <2>16. CASE Acknowledge(i)
    BY <2>16, FinishTyped DEF Acknowledge, Delete, TypeOK
  <2> QED
    BY <1>1, <2>1, <2>2, <2>3, <2>4, <2>5, <2>6, <2>7, <2>8, <2>9, <2>10, <2>11,
       <2>12, <2>13, <2>14, <2>15, <2>16 DEF Step
<1>2. ASSUME NEW i \in Invocation, Failure(i) PROVE TypeOK'
  <2>1. CASE RefuseBeforeSlot(i)
    BY <2>1, FinishTyped DEF RefuseBeforeSlot, Fault, TypeOK
  <2>2. CASE ListFails(i)
    BY <2>2, FinishTyped DEF ListFails, Fault, TypeOK
  <2>3. CASE RepairListFails(i)
    <3>1. "repairing" \in PC  BY DEF PC, HoldingPoints
    <3> QED  BY <2>3, <3>1, GoToTyped DEF RepairListFails, Fault, TypeOK
  <2>4. CASE ClaimStartFails(i)
    <3>1. "cleared" \in PC  BY DEF PC, HoldingPoints
    <3> QED  BY <2>4, <3>1, GoToTyped DEF ClaimStartFails, Fault, TypeOK
  <2>5. CASE StartFails(i)
    <3>1. "refund" \in PC  BY DEF PC, HoldingPoints
    <3> QED  BY <2>5, <3>1, GoToTyped DEF StartFails, Fault, TypeOK
  <2>6. CASE StartReplyLost(i)
    <3>1. "refund" \in PC  BY DEF PC, HoldingPoints
    <3> QED  BY <2>6, <3>1, GoToTyped DEF StartReplyLost, Fault, TypeOK
  <2>7. CASE HandBackFails(i)
    <3>1. "acking" \in PC  BY DEF PC
    <3> QED  BY <2>7, <3>1, GoToTyped, FinishTyped DEF HandBackFails, AfterRefund, Fault, TypeOK
  <2>8. CASE Crash(i)
    BY <2>8, FinishTyped DEF Crash, Fault, TypeOK
  <2> QED
    BY <1>2, <2>1, <2>2, <2>3, <2>4, <2>5, <2>6, <2>7, <2>8 DEF Failure
<1>3. ASSUME NEW i \in Invocation, NEW m \in Message, Receive(i, m) PROVE TypeOK'
  <2>1. "gate" \in PC  BY DEF PC
  <2> QED  BY <1>3, <2>1 DEF Receive, TypeOK
<1>4. ASSUME NEW m \in Message, Environment(m) PROVE TypeOK'
  <2>1. CASE Arrive(m)
    BY <2>1 DEF Arrive, TypeOK
  <2>2. CASE DeliverTwice(m)
    BY <2>2 DEF DeliverTwice, Fault, TypeOK
  <2>3. CASE Abort(m)
    BY <2>3 DEF Abort, TypeOK
  <2>4. CASE EndExecution(m)
    BY <2>4 DEF EndExecution, TypeOK
  <2>5. CASE ReleaseSlot(m)
    BY <1>a, <2>5 DEF ReleaseSlot, DeliverEvent, TypeOK
  <2>6. CASE ReleaseNothing(m)
    BY <2>6 DEF ReleaseNothing, DeliverEvent, TypeOK
  <2> QED
    BY <1>4, <2>1, <2>2, <2>3, <2>4, <2>5, <2>6 DEF Environment
<1>5. CASE Tick
  <2>1. \A s \in Sample : Older(s) \in Sample  BY DEF Sample, Older
  <2>2. sample' \in SUBSET Sample  BY <1>5, <2>1 DEF Tick, TypeOK
  <2> QED  BY <1>5, <2>2 DEF Tick, TypeOK
<1>6. CASE UNCHANGED vars
  BY <1>6 DEF vars, TypeOK
<1> QED  BY <1>1, <1>2, <1>3, <1>4, <1>5, <1>6 DEF Next

THEOREM TypeCorrect == Spec => []TypeOK
<1> QED  BY InitTypeOK, TypeStep, PTL DEF Spec

-----------------------------------------------------------------------------
(* What the accounting below rests on, besides the types.                  *)

(* The tracker's marker is only written for a terminal event.              *)
ReleasedHaveEnded == \A m \in released : exec[m] = "ended"

(* An invocation that will delete its message has seen the work settled.   *)
SettledBeforeAck ==
  \A i \in Invocation :
    pc[i] \in {"refund_ack", "acking"} => exec[job[i]] # "none" \/ job[i] \in aborted

(* A repair is only under way if the counter was below zero, which it can  *)
(* only be if slots were taken off it before.                              *)
RepairsAreOwed ==
  \A i \in Invocation :
    pc[i] \in {"repair", "repairing"} =>
      /\ shortfall > 0
      /\ reading[i].active <= 0
      /\ deficit # 0

(* Every slot that is taken was taken below the ceiling.                   *)
TakenWithinCeiling ==
  Cardinality(Holders) + Cardinality(Unreleased) + leaked <= MaxConcurrent + shortfall

Settled == ReleasedHaveEnded /\ SettledBeforeAck /\ NoMessageLost

Books ==
  /\ RepairsAreOwed
  /\ UnderstatementIsBounded
  /\ TakenWithinCeiling
  /\ SlotsAreAccountedFor
  /\ CounterBelowCeiling

IInv == TypeOK /\ Settled /\ Books

LEMMA InitIInv == Init => IInv
<1> SUFFICES ASSUME Init PROVE IInv  OBVIOUS
<1> USE DEF Init
<1>1. TypeOK  BY InitTypeOK
<1>2. Settled  BY DEF Settled, ReleasedHaveEnded, SettledBeforeAck, NoMessageLost
<1>3. Cardinality(Holders) = 0 /\ Cardinality(Unreleased) = 0
  <2>1. Holders = {} /\ Unreleased = {}
    BY DEF Holders, HoldingPoints, Unreleased
  <2> QED  BY <2>1, FS_EmptySet
<1>4. Books
  BY <1>3, AdmissionAssumption DEF AdmissionAssumption, Books, RepairsAreOwed,
     UnderstatementIsBounded, TakenWithinCeiling, SlotsAreAccountedFor,
     CounterBelowCeiling
<1> QED  BY <1>1, <1>2, <1>4 DEF IInv

(* No step deletes a message whose work is not settled, nor unsettles it.  *)
LEMMA SettledStep == TypeOK /\ Settled /\ [Next]_vars => Settled'
<1> SUFFICES ASSUME TypeOK, Settled, [Next]_vars PROVE Settled'  OBVIOUS
<1> USE DEF Settled, ReleasedHaveEnded, SettledBeforeAck, NoMessageLost,
          queueVars, trackerVars, counterVars, localVars, historyVars
<1>1. ASSUME NEW i \in Invocation, Step(i) PROVE Settled'
  <2>1. CASE SkipAborted(i)
    BY <2>1 DEF SkipAborted, Delete, Finish, TypeOK
  <2>2. CASE Increment(i)
    BY <2>2 DEF Increment, GoToWith, TypeOK
  <2>3. CASE RefuseIncrement(i)
    BY <2>3 DEF RefuseIncrement, GoTo, Finish, TypeOK
  <2>4. CASE ReadCounter(i)
    BY <2>4 DEF ReadCounter, GoToWith, Finish, TypeOK
  <2>5. CASE ListRunning(i)
    BY <2>5 DEF ListRunning, GoToWith, Finish, TypeOK
  <2>6. CASE ClearSample(i) \/ RecordSample(i) \/ RestartSample(i) \/ LeaveCounter(i)
    BY <2>6 DEF ClearSample, RecordSample, RestartSample, LeaveCounter, Finish, TypeOK
  <2>7. CASE Correct(i)
    BY <2>7 DEF Correct, GoToWith, Finish, TypeOK
  <2>8. CASE RepairList(i)
    BY <2>8 DEF RepairList, GoToWith, GoTo, TypeOK
  <2>9. CASE RepairWrite(i)
    BY <2>9 DEF RepairWrite, GoToWith, TypeOK
  <2>10. CASE ClaimStart(i)
    BY <2>10 DEF ClaimStart, GoTo, TypeOK
  <2>11. CASE StartExecution(i)
    BY <2>11 DEF StartExecution, GoTo, TypeOK
  <2>12. CASE HandBack(i)
    BY <2>12 DEF HandBack, AfterRefund, GoTo, Finish, TypeOK
  <2>13. CASE Acknowledge(i)
    BY <2>13 DEF Acknowledge, Delete, Finish, TypeOK
  <2> QED
    BY <1>1, <2>1, <2>2, <2>3, <2>4, <2>5, <2>6, <2>7, <2>8, <2>9, <2>10, <2>11,
       <2>12, <2>13 DEF Step
<1>2. ASSUME NEW i \in Invocation, Failure(i) PROVE Settled'
  <2>1. CASE RefuseBeforeSlot(i) \/ ListFails(i) \/ Crash(i)
    BY <2>1 DEF RefuseBeforeSlot, ListFails, Crash, Finish, TypeOK
  <2>2. CASE RepairListFails(i) \/ ClaimStartFails(i) \/ StartFails(i)
    BY <2>2 DEF RepairListFails, ClaimStartFails, StartFails, GoTo, TypeOK
  <2>3. CASE StartReplyLost(i)
    BY <2>3 DEF StartReplyLost, GoTo, TypeOK
  <2>4. CASE HandBackFails(i)
    BY <2>4 DEF HandBackFails, AfterRefund, GoTo, Finish, TypeOK
  <2> QED  BY <1>2, <2>1, <2>2, <2>3, <2>4 DEF Failure
<1>3. ASSUME NEW i \in Invocation, NEW m \in Message, Receive(i, m) PROVE Settled'
  BY <1>3 DEF Receive, TypeOK
<1>4. ASSUME NEW m \in Message, Environment(m) PROVE Settled'
  <2>1. CASE Arrive(m) \/ DeliverTwice(m) \/ Abort(m)
    BY <2>1 DEF Arrive, DeliverTwice, Abort, TypeOK
  <2>2. CASE EndExecution(m)
    BY <2>2 DEF EndExecution, TypeOK
  <2>3. CASE ReleaseSlot(m) \/ ReleaseNothing(m)
    BY <2>3 DEF ReleaseSlot, ReleaseNothing, DeliverEvent, TypeOK
  <2> QED  BY <1>4, <2>1, <2>2, <2>3 DEF Environment
<1>5. CASE Tick
  BY <1>5 DEF Tick, TypeOK
<1>6. CASE UNCHANGED vars
  BY <1>6 DEF vars
<1> QED  BY <1>1, <1>2, <1>3, <1>4, <1>5, <1>6 DEF Next

-----------------------------------------------------------------------------
(* Counting.                                                               *)
LEMMA Finite ==
  /\ IsFiniteSet(Holders) /\ IsFiniteSet(Unreleased)
  /\ Cardinality(Holders) \in Nat /\ Cardinality(Unreleased) \in Nat
<1>1. IsFiniteSet(Message) /\ IsFiniteSet(Invocation)
  BY AdmissionAssumption DEF AdmissionAssumption
<1>2. Holders \subseteq Invocation /\ Unreleased \subseteq Message
  BY DEF Holders, Unreleased
<1> QED  BY <1>1, <1>2, FS_Subset, FS_CardinalityType

(* What the move of one invocation does to the number of holders.          *)
LEMMA HoldersMove ==
  ASSUME TypeOK, NEW i \in Invocation, NEW point \in PC,
         pc' = [pc EXCEPT ![i] = point]
  PROVE  /\ pc[i] \in HoldingPoints => Cardinality(Holders) >= 1
         /\ (pc[i] \in HoldingPoints <=> point \in HoldingPoints)
              => Cardinality(Holders)' = Cardinality(Holders)
         /\ pc[i] \notin HoldingPoints /\ point \in HoldingPoints
              => Cardinality(Holders)' = Cardinality(Holders) + 1
         /\ pc[i] \in HoldingPoints /\ point \notin HoldingPoints
              => Cardinality(Holders)' = Cardinality(Holders) - 1
<1>1. pc[i] \in HoldingPoints <=> i \in Holders
  BY DEF Holders
<1>2. point \in HoldingPoints => Holders' = Holders \cup {i}
  BY DEF Holders, TypeOK
<1>3. point \notin HoldingPoints => Holders' = Holders \ {i}
  BY DEF Holders, TypeOK
<1>4. Cardinality(Holders \cup {i}) =
        IF i \in Holders THEN Cardinality(Holders) ELSE Cardinality(Holders) + 1
  BY Finite, FS_AddElement
<1>5. Cardinality(Holders \ {i}) =
        IF i \in Holders THEN Cardinality(Holders) - 1 ELSE Cardinality(Holders)
  BY Finite, FS_RemoveElement
<1>6. i \in Holders => Cardinality(Holders) # 0
  BY Finite, FS_EmptySet
<1>7. Cardinality(Holders) \in Nat  BY Finite
<1>8. CASE point \in HoldingPoints
  <2>1. Cardinality(Holders)' = Cardinality(Holders \cup {i})  BY <1>2, <1>8
  <2> QED  BY <2>1, <1>1, <1>4, <1>6, <1>7, <1>8
<1>9. CASE point \notin HoldingPoints
  <2>1. Cardinality(Holders)' = Cardinality(Holders \ {i})  BY <1>3, <1>9
  <2> QED  BY <2>1, <1>1, <1>5, <1>6, <1>7, <1>9
<1> QED  BY <1>8, <1>9

(* An execution that starts is one more that will have to be released.     *)
LEMMA UnreleasedStarts ==
  ASSUME TypeOK, Settled, NEW m \in Message, exec[m] = "none",
         exec' = [exec EXCEPT ![m] = "running"], released' = released
  PROVE  Cardinality(Unreleased)' = Cardinality(Unreleased) + 1
<1>1. m \notin released  BY DEF Settled, ReleasedHaveEnded
<1>2. m \notin Unreleased /\ Unreleased' = Unreleased \cup {m}
  BY <1>1 DEF Unreleased, TypeOK
<1> QED  BY <1>2, Finite, FS_AddElement

LEMMA UnreleasedReleased ==
  ASSUME TypeOK, NEW m \in Message, exec[m] = "ended", m \notin released,
         released' = released \cup {m}, exec' = exec
  PROVE  Cardinality(Unreleased)' = Cardinality(Unreleased) - 1
<1>1. m \in Unreleased /\ Unreleased' = Unreleased \ {m}
  BY DEF Unreleased, TypeOK
<1> QED  BY <1>1, Finite, FS_RemoveElement

LEMMA SameExecutions ==
  ASSUME UNCHANGED <<exec, released>>
  PROVE  Cardinality(Unreleased)' = Cardinality(Unreleased)
<1>1. Unreleased' = Unreleased  BY DEF Unreleased
<1> QED  BY <1>1

LEMMA SamePoints ==
  ASSUME UNCHANGED pc
  PROVE  Cardinality(Holders)' = Cardinality(Holders)
<1>1. Holders' = Holders  BY DEF Holders
<1> QED  BY <1>1

(* A step that takes and returns nothing, or only moves an invocation      *)
(* between points that agree on whether a slot is held.                    *)
LEMMA QuietMove ==
  ASSUME TypeOK, Books, NEW i \in Invocation, NEW point \in PC,
         pc' = [pc EXCEPT ![i] = point],
         pc[i] \in HoldingPoints <=> point \in HoldingPoints,
         point \notin {"repair", "repairing"},
         \A j \in Invocation \ {i} : reading'[j] = reading[j],
         UNCHANGED <<exec, released, active, shortfall, leaked, deficit>>
  PROVE  Books'
<1>1. Cardinality(Holders)' = Cardinality(Holders)
  BY HoldersMove
<1>2. Cardinality(Unreleased)' = Cardinality(Unreleased)
  BY SameExecutions
<1>3. RepairsAreOwed'
  BY DEF TypeOK, Books, RepairsAreOwed
<1> QED
  BY <1>1, <1>2, <1>3 DEF Books, UnderstatementIsBounded, TakenWithinCeiling,
     SlotsAreAccountedFor, CounterBelowCeiling

(* What the counter was found at is a fact about the start of a behaviour. *)
LEMMA DeficitIsFixed == [Next]_vars => deficit' = deficit
BY DEF Next, Step, Failure, Environment, SkipAborted, Increment, RefuseIncrement,
   ReadCounter, ListRunning, ClearSample, RecordSample, RestartSample,
   LeaveCounter, Correct, RepairList, RepairWrite, ClaimStart, StartExecution,
   HandBack, Acknowledge, RefuseBeforeSlot, ListFails, RepairListFails,
   ClaimStartFails, StartFails, StartReplyLost, HandBackFails, Crash, Arrive,
   DeliverTwice, Abort, EndExecution, ReleaseSlot, ReleaseNothing, Receive, Tick,
   vars, historyVars

(* Every decrement is matched by a slot that was given back, every         *)
(* increment by one that was taken, and every correction is recorded.      *)
LEMMA BooksStep == TypeOK /\ TypeOK' /\ Settled /\ Books /\ [Next]_vars => Books'
<1> SUFFICES ASSUME TypeOK, TypeOK', Settled, Books, [Next]_vars PROVE Books'
  OBVIOUS
<1> USE DEF queueVars, trackerVars, counterVars, localVars, historyVars
<1>n. /\ active \in Int /\ active' \in Int
      /\ shortfall \in Nat /\ shortfall' \in Nat
      /\ leaked \in Nat /\ leaked' \in Nat
      /\ MaxConcurrent \in Nat /\ MaxConcurrent > 0
      /\ Cardinality(Holders) \in Nat
      /\ Cardinality(Unreleased) \in Nat
  BY Finite, AdmissionAssumption DEF AdmissionAssumption, TypeOK
<1>b. /\ RepairsAreOwed
      /\ Cardinality(Holders) + Cardinality(Unreleased) + leaked <= active + shortfall
      /\ Cardinality(Holders) + Cardinality(Unreleased) + leaked <= MaxConcurrent + shortfall
      /\ shortfall = 0 =>
           active = Cardinality(Holders) + Cardinality(Unreleased) + leaked
      /\ deficit = 0 => active <= MaxConcurrent
  BY DEF Books, UnderstatementIsBounded, TakenWithinCeiling,
     SlotsAreAccountedFor, CounterBelowCeiling
<1>d. deficit' = deficit  BY DeficitIsFixed
<1>g. ASSUME /\ RepairsAreOwed'
             /\ Cardinality(Holders)' + Cardinality(Unreleased)' + leaked' <= active' + shortfall'
             /\ Cardinality(Holders)' + Cardinality(Unreleased)' + leaked'
                   <= MaxConcurrent + shortfall'
             /\ shortfall' = 0 =>
                  active' = Cardinality(Holders)' + Cardinality(Unreleased)' + leaked'
             /\ deficit = 0 => active' <= MaxConcurrent
      PROVE  Books'
  BY <1>d, <1>g DEF Books, UnderstatementIsBounded, TakenWithinCeiling,
     SlotsAreAccountedFor, CounterBelowCeiling
<1>p. PC = {"idle", "gate", "refused", "listing", "deciding", "retry", "acking",
            "repair", "repairing", "claimed", "cleared", "refund", "refund_ack"}
  BY DEF PC, HoldingPoints
<1>h. HoldingPoints =
        {"repair", "repairing", "claimed", "cleared", "refund", "refund_ack"}
  BY DEF HoldingPoints
<1>1. ASSUME NEW i \in Invocation, Step(i) PROVE Books'
  <2>1. CASE \/ SkipAborted(i) \/ RefuseIncrement(i) \/ ReadCounter(i)
             \/ ListRunning(i) \/ ClearSample(i) \/ RecordSample(i)
             \/ RestartSample(i) \/ LeaveCounter(i) \/ Acknowledge(i)
    <3>1. PICK point \in {"idle", "refused", "listing", "deciding"} :
            pc' = [pc EXCEPT ![i] = point]
      BY <2>1 DEF SkipAborted, RefuseIncrement, ReadCounter, ListRunning,
         ClearSample, RecordSample, RestartSample, LeaveCounter, Acknowledge,
         GoTo, GoToWith, Finish
    <3>2. pc[i] \notin HoldingPoints
      BY <2>1, <1>h DEF SkipAborted, RefuseIncrement, ReadCounter, ListRunning,
         ClearSample, RecordSample, RestartSample, LeaveCounter, Acknowledge
    <3>3. UNCHANGED <<exec, released, active, shortfall, leaked, deficit>>
      BY <2>1 DEF SkipAborted, RefuseIncrement, ReadCounter, ListRunning,
         ClearSample, RecordSample, RestartSample, LeaveCounter, Acknowledge,
         GoTo, GoToWith, Finish
    <3>4. \A j \in Invocation \ {i} : reading'[j] = reading[j]
      BY <2>1 DEF SkipAborted, RefuseIncrement, ReadCounter, ListRunning,
         ClearSample, RecordSample, RestartSample, LeaveCounter, Acknowledge,
         GoTo, GoToWith, Finish, TypeOK
    <3> QED  BY <1>h, <1>p, <3>1, <3>2, <3>3, <3>4, QuietMove
  <2>2. CASE Increment(i)
    <3>1. PICK point \in {"repair", "claimed"} : pc' = [pc EXCEPT ![i] = point]
      BY <2>2 DEF Increment, GoToWith
    <3>2. pc[i] \notin HoldingPoints  BY <2>2, <1>h DEF Increment
    <3>3. Cardinality(Holders)' = Cardinality(Holders) + 1
      BY <1>h, <1>p, <3>1, <3>2, HoldersMove
    <3>4. Cardinality(Unreleased)' = Cardinality(Unreleased)
      BY <2>2, SameExecutions DEF Increment
    <3>5. active < MaxConcurrent /\ active' = active + 1
      BY <2>2 DEF Increment, SlotFree
    <3>6. UNCHANGED <<shortfall, leaked, deficit>>  BY <2>2 DEF Increment
    <3>7. CASE active + 1 <= 0
      <4>1. shortfall > 0  BY <1>n, <1>b, <3>7
      <4>2. deficit # 0  BY <3>7 DEF TypeOK
      <4>3. RepairsAreOwed'
        BY <2>2, <1>b, <3>6, <3>7, <4>1, <4>2 DEF Increment, GoToWith,
           RepairsAreOwed, NoReading, TypeOK
      <4> QED  BY <1>n, <1>b, <1>g, <3>3, <3>4, <3>5, <3>6, <4>1, <4>3
    <3>8. CASE ~(active + 1 <= 0)
      <4>1. RepairsAreOwed'
        BY <2>2, <1>b, <3>6, <3>8 DEF Increment, GoToWith, RepairsAreOwed, TypeOK
      <4> QED  BY <1>n, <1>b, <1>g, <3>3, <3>4, <3>5, <3>6, <4>1
    <3> QED  BY <3>7, <3>8
  <2>3. CASE Correct(i)
    <3>1. CASE CounterUnmoved(i)
      <4>1. PICK s \in reading[i].sample :
              /\ Target(reading[i], s) < reading[i].active
              /\ active' = Target(reading[i], s)
              /\ shortfall' =
                   shortfall + (reading[i].active - Target(reading[i], s))
        BY <2>3, <3>1 DEF Correct
      <4>2. pc' = [pc EXCEPT ![i] = "retry"] /\ pc[i] = "deciding"
        BY <2>3, <3>1 DEF Correct, GoToWith
      <4>3. Cardinality(Holders)' = Cardinality(Holders)
        BY <1>h, <1>p, <4>2, HoldersMove
      <4>4. UNCHANGED <<exec, released, leaked>>  BY <2>3 DEF Correct
      <4>5. Cardinality(Unreleased)' = Cardinality(Unreleased)
        BY <4>4, SameExecutions
      <4>6. active = reading[i].active  BY <3>1 DEF CounterUnmoved
      <4>7. RepairsAreOwed'
        BY <2>3, <3>1, <1>b, <1>n, <4>1, <4>6 DEF Correct, GoToWith,
           RepairsAreOwed, TypeOK
      <4>8. Target(reading[i], s) \in Nat
        BY DEF TypeOK, Reading, Sample, Target, Larger
      <4>9. /\ active' < active
            /\ active' + shortfall' = active + shortfall
            /\ shortfall' > 0 /\ shortfall' >= shortfall
        BY <1>n, <4>1, <4>6, <4>8
      <4>10. /\ Cardinality(Holders)' + Cardinality(Unreleased)' + leaked' <= active' + shortfall'
             /\ Cardinality(Holders)' + Cardinality(Unreleased)' + leaked'
                   <= MaxConcurrent + shortfall'
        <5>1. Cardinality(Holders)' + Cardinality(Unreleased)' + leaked'
                = Cardinality(Holders) + Cardinality(Unreleased) + leaked
          BY <4>3, <4>4, <4>5
        <5>2. Cardinality(Holders) + Cardinality(Unreleased) + leaked <= active' + shortfall'
          BY <1>b, <4>9
        <5>3. Cardinality(Holders) + Cardinality(Unreleased) + leaked <= MaxConcurrent + shortfall'
          BY <1>b, <1>n, <4>9
        <5> QED  BY <5>1, <5>2, <5>3
      <4>11. deficit = 0 => active' <= MaxConcurrent
        BY <1>n, <1>b, <4>9
      <4>12. shortfall' # 0  BY <1>n, <4>9
      <4> QED  BY <1>g, <4>7, <4>10, <4>11, <4>12
    <3>2. CASE ~CounterUnmoved(i)
      <4>1. /\ pc' = [pc EXCEPT ![i] = "idle"] /\ pc[i] = "deciding"
            /\ UNCHANGED <<exec, released, active, shortfall, leaked, deficit>>
            /\ \A j \in Invocation \ {i} : reading'[j] = reading[j]
        BY <2>3, <3>2 DEF Correct, Finish, TypeOK
      <4> QED  BY <1>h, <1>p, <4>1, QuietMove
    <3> QED  BY <3>1, <3>2
  <2>4. CASE RepairList(i)
    <3>1. /\ pc' = [pc EXCEPT ![i] = "repairing"] /\ pc[i] = "repair"
          /\ UNCHANGED <<exec, released, active, shortfall, leaked, deficit>>
      BY <2>4 DEF RepairList, GoTo, GoToWith
    <3>2. Cardinality(Holders)' = Cardinality(Holders)
      BY <1>h, <1>p, <3>1, HoldersMove
    <3>3. RepairsAreOwed'
      BY <2>4, <1>b, <3>1 DEF RepairList, GoTo, GoToWith, RepairsAreOwed, TypeOK,
         Reading
    <3> QED  BY <1>n, <1>b, <1>g, <3>1, <3>2, <3>3, SameExecutions
  <2>5. CASE RepairWrite(i)
    <3>1. /\ pc' = [pc EXCEPT ![i] = "claimed"] /\ pc[i] = "repairing"
          /\ UNCHANGED <<exec, released, shortfall, leaked, deficit>>
          /\ \A j \in Invocation \ {i} : reading'[j] = reading[j]
      BY <2>5 DEF RepairWrite, GoToWith, TypeOK
    <3>2. CASE CounterUnmoved(i)
      <4>1. reading[i].active <= 0 /\ shortfall > 0 /\ deficit # 0
        BY <1>b, <3>1 DEF RepairsAreOwed
      <4>2. active <= 0 /\ active' >= 1
        BY <2>5, <3>2, <4>1 DEF RepairWrite, CounterUnmoved, TypeOK, Reading
      <4>3. Cardinality(Holders)' = Cardinality(Holders)
        BY <1>h, <1>p, <3>1, HoldersMove
      <4>4. RepairsAreOwed'
        BY <1>b, <3>1 DEF RepairsAreOwed, TypeOK
      <4> QED
        BY <1>n, <1>b, <1>g, <3>1, <4>1, <4>2, <4>3, <4>4, SameExecutions
    <3>3. CASE ~CounterUnmoved(i)
      <4>1. UNCHANGED active  BY <2>5, <3>3 DEF RepairWrite
      <4> QED  BY <1>h, <1>p, <3>1, <4>1, QuietMove
    <3> QED  BY <3>2, <3>3
  <2>6. CASE ClaimStart(i)
    <3>1. PICK point \in {"refund_ack", "cleared"} :
            pc' = [pc EXCEPT ![i] = point]
      BY <2>6 DEF ClaimStart, GoTo
    <3>2. /\ pc[i] = "claimed"
          /\ UNCHANGED <<exec, released, active, shortfall, leaked, deficit>>
          /\ \A j \in Invocation \ {i} : reading'[j] = reading[j]
      BY <2>6 DEF ClaimStart, GoTo
    <3> QED  BY <1>h, <1>p, <3>1, <3>2, QuietMove
  <2>7. CASE StartExecution(i)
    <3>1. job[i] \in Message  BY <2>7 DEF StartExecution, TypeOK
    <3>2. CASE exec[job[i]] = "none"
      <4>1. /\ pc' = [pc EXCEPT ![i] = "acking"] /\ pc[i] = "cleared"
            /\ UNCHANGED <<reading, released, active, shortfall, leaked, deficit>>
            /\ exec' = [exec EXCEPT ![job[i]] = "running"]
        BY <2>7, <3>2 DEF StartExecution, GoTo
      <4>2. Cardinality(Holders)' = Cardinality(Holders) - 1
        BY <1>h, <1>p, <4>1, HoldersMove
      <4>3. Cardinality(Unreleased)' = Cardinality(Unreleased) + 1
        BY <3>1, <3>2, <4>1, UnreleasedStarts
      <4>4. RepairsAreOwed'  BY <1>b, <4>1 DEF RepairsAreOwed, TypeOK
      <4> QED  BY <1>n, <1>b, <1>g, <4>1, <4>2, <4>3, <4>4
    <3>3. CASE exec[job[i]] # "none"
      <4>1. /\ pc' = [pc EXCEPT ![i] = "refund_ack"] /\ pc[i] = "cleared"
            /\ UNCHANGED <<reading, exec, released, active, shortfall, leaked, deficit>>
        BY <2>7, <3>3 DEF StartExecution, GoTo
      <4> QED  BY <1>h, <1>p, <4>1, QuietMove
    <3> QED  BY <3>2, <3>3
  <2>8. CASE HandBack(i)
    <3>1. PICK point \in {"acking", "idle"} : pc' = [pc EXCEPT ![i] = point]
      BY <2>8 DEF HandBack, AfterRefund, GoTo, Finish
    <3>2. /\ pc[i] \in {"refund", "refund_ack"}
          /\ UNCHANGED <<exec, released, shortfall, leaked, deficit>>
          /\ \A j \in Invocation \ {i} : reading'[j] = reading[j]
      BY <2>8 DEF HandBack, AfterRefund, GoTo, Finish, TypeOK
    <3>3. /\ Cardinality(Holders) >= 1
          /\ Cardinality(Holders)' = Cardinality(Holders) - 1
      BY <1>h, <1>p, <3>1, <3>2, HoldersMove
    <3>4. active' = IF active > 0 THEN active - 1 ELSE active
      BY <2>8 DEF HandBack, Decremented
    <3>5. RepairsAreOwed'
      BY <1>b, <3>1, <3>2 DEF RepairsAreOwed, TypeOK
    <3> QED  BY <1>n, <1>b, <1>g, <3>2, <3>3, <3>4, <3>5, SameExecutions
  <2> QED
    BY <1>1, <2>1, <2>2, <2>3, <2>4, <2>5, <2>6, <2>7, <2>8 DEF Step
<1>2. ASSUME NEW i \in Invocation, Failure(i) PROVE Books'
  <2>1. CASE RefuseBeforeSlot(i) \/ ListFails(i)
    <3>1. /\ pc' = [pc EXCEPT ![i] = "idle"] /\ pc[i] \in {"gate", "listing"}
          /\ UNCHANGED <<exec, released, active, shortfall, leaked, deficit>>
          /\ \A j \in Invocation \ {i} : reading'[j] = reading[j]
      BY <2>1 DEF RefuseBeforeSlot, ListFails, Finish, TypeOK
    <3> QED  BY <1>h, <1>p, <3>1, QuietMove
  <2>2. CASE RepairListFails(i)
    <3>1. /\ pc' = [pc EXCEPT ![i] = "repairing"] /\ pc[i] = "repair"
          /\ UNCHANGED <<reading, exec, released, active, shortfall, leaked, deficit>>
      BY <2>2 DEF RepairListFails, GoTo
    <3>2. Cardinality(Holders)' = Cardinality(Holders)
      BY <1>h, <1>p, <3>1, HoldersMove
    <3>3. RepairsAreOwed'  BY <1>b, <3>1 DEF RepairsAreOwed, TypeOK
    <3> QED  BY <1>n, <1>b, <1>g, <3>1, <3>2, <3>3, SameExecutions
  <2>3. CASE ClaimStartFails(i) \/ StartFails(i)
    <3>1. PICK point \in {"cleared", "refund"} : pc' = [pc EXCEPT ![i] = point]
      BY <2>3 DEF ClaimStartFails, StartFails, GoTo
    <3>2. /\ pc[i] \in {"claimed", "cleared"}
          /\ UNCHANGED <<reading, exec, released, active, shortfall, leaked, deficit>>
      BY <2>3 DEF ClaimStartFails, StartFails, GoTo
    <3> QED  BY <1>h, <1>p, <3>1, <3>2, QuietMove
  <2>4. CASE StartReplyLost(i)
    <3>1. /\ pc' = [pc EXCEPT ![i] = "refund"] /\ pc[i] = "cleared"
          /\ UNCHANGED <<reading, released, active, leaked>>
          /\ exec[job[i]] = "none"
          /\ exec' = [exec EXCEPT ![job[i]] = "running"]
          /\ shortfall' = shortfall + 1
      BY <2>4 DEF StartReplyLost, GoTo
    <3>2. job[i] \in Message  BY <3>1 DEF TypeOK
    <3>3. Cardinality(Holders)' = Cardinality(Holders)
      BY <1>h, <1>p, <3>1, HoldersMove
    <3>4. Cardinality(Unreleased)' = Cardinality(Unreleased) + 1
      BY <3>1, <3>2, UnreleasedStarts
    <3>5. RepairsAreOwed'  BY <1>b, <1>d, <1>n, <3>1 DEF RepairsAreOwed, TypeOK
    <3> QED  BY <1>n, <1>b, <1>g, <3>1, <3>3, <3>4, <3>5
  <2>5. CASE HandBackFails(i)
    <3>1. PICK point \in {"acking", "idle"} : pc' = [pc EXCEPT ![i] = point]
      BY <2>5 DEF HandBackFails, AfterRefund, GoTo, Finish
    <3>2. /\ pc[i] \in {"refund", "refund_ack"}
          /\ UNCHANGED <<exec, released, active, shortfall, deficit>>
          /\ leaked' = leaked + 1
          /\ \A j \in Invocation \ {i} : reading'[j] = reading[j]
      BY <2>5 DEF HandBackFails, AfterRefund, GoTo, Finish, TypeOK
    <3>3. Cardinality(Holders)' = Cardinality(Holders) - 1
      BY <1>h, <1>p, <3>1, <3>2, HoldersMove
    <3>4. RepairsAreOwed'  BY <1>b, <3>1, <3>2 DEF RepairsAreOwed, TypeOK
    <3> QED  BY <1>n, <1>b, <1>g, <3>2, <3>3, <3>4, SameExecutions
  <2>6. CASE Crash(i)
    <3>1. /\ pc' = [pc EXCEPT ![i] = "idle"]
          /\ UNCHANGED <<exec, released, active, shortfall, deficit>>
          /\ \A j \in Invocation \ {i} : reading'[j] = reading[j]
      BY <2>6 DEF Crash, Finish, TypeOK
    <3>2. CASE pc[i] \in HoldingPoints
      <4>1. leaked' = leaked + 1  BY <2>6, <3>2 DEF Crash, Holders
      <4>2. Cardinality(Holders)' = Cardinality(Holders) - 1
        BY <1>h, <1>p, <3>1, <3>2, HoldersMove
      <4>3. RepairsAreOwed'  BY <1>b, <3>1 DEF RepairsAreOwed, TypeOK
      <4> QED  BY <1>n, <1>b, <1>g, <3>1, <4>1, <4>2, <4>3, SameExecutions
    <3>3. CASE pc[i] \notin HoldingPoints
      <4>1. leaked' = leaked  BY <2>6, <3>3 DEF Crash, Holders
      <4> QED  BY <1>h, <1>p, <3>1, <3>3, <4>1, QuietMove
    <3> QED  BY <3>2, <3>3
  <2> QED
    BY <1>2, <2>1, <2>2, <2>3, <2>4, <2>5, <2>6 DEF Failure
<1>3. ASSUME NEW i \in Invocation, NEW m \in Message, Receive(i, m) PROVE Books'
  <2>1. /\ pc' = [pc EXCEPT ![i] = "gate"] /\ pc[i] = "idle"
        /\ UNCHANGED <<reading, exec, released, active, shortfall, leaked, deficit>>
    BY <1>3 DEF Receive
  <2> QED  BY <1>h, <1>p, <2>1, QuietMove
<1>q. ASSUME UNCHANGED <<pc, reading, exec, released, active, shortfall, leaked, deficit>>
      PROVE  Books'
  <2>1. RepairsAreOwed'  BY <1>b, <1>q DEF RepairsAreOwed
  <2> QED  BY <1>b, <1>g, <1>q, <2>1, SamePoints, SameExecutions
<1>4. ASSUME NEW m \in Message, Environment(m) PROVE Books'
  <2>1. CASE Arrive(m) \/ DeliverTwice(m) \/ Abort(m) \/ ReleaseNothing(m)
    BY <2>1, <1>q DEF Arrive, DeliverTwice, Abort, ReleaseNothing
  <2>2. CASE EndExecution(m)
    <3>1. Unreleased' = Unreleased
      BY <2>2 DEF EndExecution, Unreleased, TypeOK
    <3>2. /\ UNCHANGED <<pc, reading, active, shortfall, leaked, deficit>>
          /\ Cardinality(Unreleased)' = Cardinality(Unreleased)
      BY <2>2, <3>1 DEF EndExecution
    <3>3. RepairsAreOwed'  BY <1>b, <3>2 DEF RepairsAreOwed
    <3> QED  BY <1>b, <1>g, <3>2, <3>3, SamePoints
  <2>3. CASE ReleaseSlot(m)
    <3>1. /\ UNCHANGED <<pc, reading, exec, shortfall, leaked, deficit>>
          /\ exec[m] = "ended" /\ m \notin released
          /\ released' = released \cup {m}
          /\ active > 0 /\ active' = active - 1
      BY <2>3, <1>n DEF ReleaseSlot, DeliverEvent, NotReleased, Decremented
    <3>2. Cardinality(Unreleased)' = Cardinality(Unreleased) - 1
      BY <3>1, UnreleasedReleased
    <3>3. RepairsAreOwed'  BY <1>b, <3>1 DEF RepairsAreOwed
    <3> QED  BY <1>n, <1>b, <1>g, <3>1, <3>2, <3>3, SamePoints
  <2> QED  BY <1>4, <2>1, <2>2, <2>3 DEF Environment
<1>5. CASE Tick
  BY <1>5, <1>q DEF Tick
<1>6. CASE UNCHANGED vars
  BY <1>6, <1>q DEF vars
<1> QED  BY <1>1, <1>2, <1>3, <1>4, <1>5, <1>6 DEF Next

(* The inductive invariant holds in every reachable state.                 *)
THEOREM Invariance == Spec => []IInv
<1>1. IInv /\ [Next]_vars => IInv'
  BY TypeStep, SettledStep, BooksStep DEF IInv
<1> QED  BY InitIInv, <1>1, PTL DEF Spec

(* What the counter shows is what is taken: every claimed slot has one     *)
(* owner, through duplicates, refusals, hand-backs, crashes and releases.  *)
THEOREM SlotAccounting == Spec => []SlotsAreAccountedFor
<1>1. IInv => SlotsAreAccountedFor  BY DEF IInv, Books
<1> QED  BY Invariance, <1>1, PTL

(* The counter under-states what is taken and leaked by the recorded       *)
(* shortfall only.                                                         *)
THEOREM BoundedUnderstatement == Spec => []UnderstatementIsBounded
<1>1. IInv => UnderstatementIsBounded  BY DEF IInv, Books
<1> QED  BY Invariance, <1>1, PTL

(* MAX_CONCURRENT is the ceiling of the counter ...                        *)
THEOREM CounterCeiling == Spec => []CounterBelowCeiling
<1>1. IInv => CounterBelowCeiling  BY DEF IInv, Books
<1> QED  BY Invariance, <1>1, PTL

(* ... and, up to the shortfall, of the executions that run and the leaks: *)
(* whoever runs has taken a slot below the ceiling that nobody gave back.  *)
THEOREM ConcurrencyCap == Spec => []CapHolds
<1>1. IInv => CapHolds
  <2> SUFFICES ASSUME IInv PROVE CapHolds  OBVIOUS
  <2>1. Running \subseteq Unreleased
    BY DEF IInv, Settled, ReleasedHaveEnded, Running, Unreleased
  <2>2. Cardinality(Running) <= Cardinality(Unreleased)
    BY <2>1, Finite, FS_Subset
  <2>3. Cardinality(Running) \in Nat  BY RunningCount DEF IInv
  <2>4. Cardinality(Holders) + Cardinality(Unreleased) + leaked <= MaxConcurrent + shortfall
    BY DEF IInv, Books, TakenWithinCeiling
  <2>5. MaxConcurrent \in Nat /\ shortfall \in Nat /\ leaked \in Nat
    BY AdmissionAssumption DEF AdmissionAssumption, IInv, TypeOK
  <2> QED  BY <2>2, <2>3, <2>4, <2>5, Finite DEF CapHolds
<1> QED  BY Invariance, <1>1, PTL

(* No delivery, refusal, hand-back or crash deletes a message whose        *)
(* document has neither an execution nor an abort.                         *)
THEOREM NoLoss == Spec => []NoMessageLost
<1>1. IInv => NoMessageLost  BY DEF IInv, Settled
<1> QED  BY Invariance, <1>1, PTL

(* Only a step that takes a slot off the counter lowers it, and none of    *)
(* them goes below zero, even when the counter already was.                *)
THEOREM NonNegativeDecrease == Spec => NeverDrivenNegative
<1>1. TypeOK /\ [Next]_vars => [active' < active => active' >= 0]_vars
  <2> SUFFICES ASSUME TypeOK, Next, active' < active PROVE active' >= 0
    OBVIOUS
  <2> USE DEF queueVars, trackerVars, counterVars, localVars, historyVars
  <2>n. active \in Int  BY DEF TypeOK
  <2>d. active' = Decremented => active' >= 0  BY <2>n DEF Decremented
  <2>1. ASSUME NEW i \in Invocation, Step(i) PROVE active' >= 0
    <3>1. CASE Increment(i)
      BY <2>n, <3>1 DEF Increment
    <3>2. CASE Correct(i)
      <4>1. \A s \in reading[i].sample : Target(reading[i], s) \in Nat
        BY DEF TypeOK, Reading, Sample, Target, Larger
      <4> QED  BY <2>n, <3>2, <4>1 DEF Correct
    <3>3. CASE RepairWrite(i)
      BY <2>n, <3>3 DEF RepairWrite, TypeOK, Reading
    <3>4. CASE HandBack(i)
      BY <2>d, <3>4 DEF HandBack
    <3>5. CASE UNCHANGED active
      BY <2>n, <3>5
    <3> QED
      BY <2>1, <3>1, <3>2, <3>3, <3>4, <3>5 DEF Step, SkipAborted,
         RefuseIncrement, ReadCounter, ListRunning, ClearSample, RecordSample,
         RestartSample, LeaveCounter, RepairList, ClaimStart, StartExecution,
         Acknowledge
  <2>2. ASSUME NEW i \in Invocation, Failure(i) PROVE active' >= 0
    BY <2>n, <2>2 DEF Failure, RefuseBeforeSlot, ListFails, RepairListFails,
       ClaimStartFails, StartFails, StartReplyLost, HandBackFails, Crash
  <2>3. ASSUME NEW i \in Invocation, NEW m \in Message, Receive(i, m)
        PROVE  active' >= 0
    BY <2>n, <2>3 DEF Receive
  <2>4. ASSUME NEW m \in Message, Environment(m) PROVE active' >= 0
    BY <2>n, <2>d, <2>4 DEF Environment, Arrive, DeliverTwice, Abort,
       EndExecution, ReleaseSlot, ReleaseNothing
  <2>5. CASE Tick
    BY <2>n, <2>5 DEF Tick
  <2> QED  BY <2>1, <2>2, <2>3, <2>4, <2>5 DEF Next
<1> QED  BY TypeCorrect, <1>1, PTL DEF Spec, NeverDrivenNegative

-----------------------------------------------------------------------------
(* Admission implements the abstract work queue.                           *)

(* A step that starts or ends nothing, and deletes nothing but what is     *)
(* settled by an execution, is a stutter of the work queue.                *)
LEMMA WorkStutters ==
  ASSUME UNCHANGED exec,
         \A m \in Message :
           exec[m] = "none" => (message'[m] = "deleted" <=> message[m] = "deleted")
  PROVE  Work' = Work
BY DEF Work

(* Deleting the message of an aborted document may drop it.                *)
LEMMA WorkDrops ==
  ASSUME TypeOK, NEW m \in Message, m \in aborted, Delete(m),
         UNCHANGED <<exec, aborted>>
  PROVE  Promise!Drop(m) \/ UNCHANGED <<Work, aborted>>
<1>1. \A n \in Message : n # m => (message'[n] = "deleted" <=> message[n] = "deleted")
  BY DEF Delete, TypeOK
<1>2. message'[m] = "deleted"  BY DEF Delete, TypeOK
<1>3. CASE exec[m] # "none" \/ message[m] = "deleted"
  BY <1>1, <1>2, <1>3, WorkStutters
<1>4. CASE exec[m] = "none" /\ message[m] # "deleted"
  <2>1. Work[m] = "waiting"  BY <1>4 DEF Work
  <2>2. Work' = [Work EXCEPT ![m] = "dropped"]
    BY <1>1, <1>2, <1>4 DEF Work
  <2> QED  BY <2>1, <2>2 DEF Promise!Drop, Promise!Moves
<1> QED  BY <1>3, <1>4

LEMMA WorkStarts ==
  ASSUME TypeOK, NEW m \in Message, exec[m] = "none",
         exec' = [exec EXCEPT ![m] = "running"], UNCHANGED <<message, aborted>>
  PROVE  Promise!Start(m)
<1>1. Work[m] \in {"waiting", "dropped"}  BY DEF Work
<1>2. Work' = [Work EXCEPT ![m] = "running"]  BY DEF Work, TypeOK
<1> QED  BY <1>1, <1>2 DEF Promise!Start, Promise!Moves

LEMMA WorkEnds ==
  ASSUME TypeOK, NEW m \in Message, EndExecution(m)
  PROVE  Promise!End(m)
<1>1. Work[m] = "running"  BY DEF Work, EndExecution
<1>2. Work' = [Work EXCEPT ![m] = "ended"] /\ aborted' = aborted
  BY DEF Work, EndExecution, TypeOK
<1> QED  BY <1>1, <1>2 DEF Promise!End, Promise!Moves

LEMMA WorkAborts ==
  ASSUME TypeOK, NEW m \in Message, Abort(m)
  PROVE  Promise!Abort(m)
<1>1. Work[m] = "waiting" /\ Work' = Work  BY DEF Work, Abort
<1> QED  BY <1>1 DEF Promise!Abort, Abort

LEMMA WorkStep == IInv /\ [Next]_vars => [Promise!Next]_<<Work, aborted>>
<1> SUFFICES ASSUME IInv, [Next]_vars PROVE [Promise!Next]_<<Work, aborted>>
  OBVIOUS
<1> USE DEF queueVars, trackerVars, counterVars, localVars, historyVars
<1>t. TypeOK  BY DEF IInv
<1>s. ASSUME UNCHANGED <<message, exec, aborted>> PROVE UNCHANGED <<Work, aborted>>
  BY <1>s, WorkStutters
<1>1. ASSUME NEW i \in Invocation, Step(i)
      PROVE  [Promise!Next]_<<Work, aborted>>
  <2>1. CASE SkipAborted(i)
    <3>1. job[i] \in Message  BY <1>t, <2>1 DEF SkipAborted, TypeOK
    <3> QED  BY <1>t, <2>1, <3>1, WorkDrops DEF SkipAborted, Promise!Next
  <2>2. CASE StartExecution(i)
    <3>1. job[i] \in Message  BY <1>t, <2>2 DEF StartExecution, TypeOK
    <3>2. CASE exec[job[i]] = "none"
      BY <1>t, <2>2, <3>1, <3>2, WorkStarts DEF StartExecution, Promise!Next
    <3>3. CASE exec[job[i]] # "none"
      BY <1>s, <2>2, <3>3 DEF StartExecution
    <3> QED  BY <3>2, <3>3
  <2>3. CASE Acknowledge(i)
    <3>1. job[i] \in Message  BY <1>t, <2>3 DEF Acknowledge, TypeOK
    <3>2. exec[job[i]] # "none" \/ job[i] \in aborted
      BY <2>3 DEF IInv, Settled, SettledBeforeAck, Acknowledge
    <3>3. CASE job[i] \in aborted
      BY <1>t, <2>3, <3>1, <3>3, WorkDrops DEF Acknowledge, Promise!Next
    <3>4. CASE exec[job[i]] # "none"
      <4>1. \A m \in Message :
              exec[m] = "none" => (message'[m] = "deleted" <=> message[m] = "deleted")
        BY <1>t, <2>3, <3>4 DEF Acknowledge, Delete, TypeOK
      <4> QED  BY <2>3, <4>1, WorkStutters DEF Acknowledge
    <3> QED  BY <3>2, <3>3, <3>4
  <2>4. CASE UNCHANGED <<message, exec, aborted>>
    BY <1>s, <2>4
  <2> QED
    BY <1>1, <2>1, <2>2, <2>3, <2>4 DEF Step, Increment, RefuseIncrement,
       ReadCounter, ListRunning, ClearSample, RecordSample, RestartSample,
       LeaveCounter, Correct, RepairList, RepairWrite, ClaimStart, HandBack
<1>2. ASSUME NEW i \in Invocation, Failure(i)
      PROVE  [Promise!Next]_<<Work, aborted>>
  <2>1. CASE StartReplyLost(i)
    <3>1. job[i] \in Message  BY <1>t, <2>1 DEF StartReplyLost, TypeOK
    <3> QED  BY <1>t, <2>1, <3>1, WorkStarts DEF StartReplyLost, Promise!Next
  <2>2. CASE UNCHANGED <<message, exec, aborted>>
    BY <1>s, <2>2
  <2> QED
    BY <1>2, <2>1, <2>2 DEF Failure, RefuseBeforeSlot, ListFails,
       RepairListFails, ClaimStartFails, StartFails, HandBackFails, Crash
<1>3. ASSUME NEW i \in Invocation, NEW m \in Message, Receive(i, m)
      PROVE  [Promise!Next]_<<Work, aborted>>
  BY <1>t, <1>3, WorkStutters DEF Receive, TypeOK
<1>4. ASSUME NEW m \in Message, Environment(m)
      PROVE  [Promise!Next]_<<Work, aborted>>
  <2>1. CASE Arrive(m) \/ DeliverTwice(m)
    BY <1>t, <2>1, WorkStutters DEF Arrive, DeliverTwice, TypeOK
  <2>2. CASE Abort(m)
    BY <1>t, <2>2, WorkAborts DEF Promise!Next
  <2>3. CASE EndExecution(m)
    BY <1>t, <2>3, WorkEnds DEF Promise!Next
  <2>4. CASE ReleaseSlot(m) \/ ReleaseNothing(m)
    BY <1>s, <2>4 DEF ReleaseSlot, ReleaseNothing
  <2> QED  BY <1>4, <2>1, <2>2, <2>3, <2>4 DEF Environment
<1>5. CASE Tick
  BY <1>t, <1>5, WorkStutters DEF Tick, TypeOK
<1>6. CASE UNCHANGED vars
  BY <1>s, <1>6 DEF vars
<1> QED  BY <1>1, <1>2, <1>3, <1>4, <1>5, <1>6 DEF Next

(* Each document is started at most once, and is given up unstarted only   *)
(* after an abort, whatever SQS, Lambda and Step Functions do.             *)
THEOREM Implementation == Spec => StartsOnceOrIsDropped
<1>1. Init => Promise!Init
  BY DEF Init, Promise!Init, Work
<1> QED
  BY Invariance, WorkStep, <1>1, PTL DEF Spec, StartsOnceOrIsDropped, Promise!Spec
=============================================================================
