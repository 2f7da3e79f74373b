----------------------- MODULE DocumentLifecycleProofs -----------------------
(***************************************************************************)
(* Proofs about DocumentLifecycle, for any number of deliveries, aborts,   *)
(* steps and faults: the status never claims more than the execution has   *)
(* done, an early abort prevents the start, and a later one that was       *)
(* accepted stops it.                                                      *)
(***************************************************************************)
EXTENDS DocumentLifecycle, TLAPS

-----------------------------------------------------------------------------
(* What the properties rest on.                                            *)

Created == exec # "none"

StartersCreatedIt == \A i \in Invocation : pc[i] \in StartedPoints => Created

StepsBelongToIt == step => Created

(* An execution succeeds between its steps, and is heard of when it ended. *)
EndsAfterItsSteps ==
  /\ exec = "succeeded" => ~step
  /\ exec \notin Outcome => events = 0

CountedStart == starts = IF Created THEN 1 ELSE 0

(* Where the row, or a copy of it that can still be read, tells of an      *)
(* execution at work, there is or was one.                                 *)
ReadsAreHonest ==
  /\ \A s \in {status, before} : s \in {"RUNNING", "PROCESSING"} => Created
  /\ \A c \in Caller : abort[c].saw \in {"RUNNING", "PROCESSING"} => Created

(* A call that writes ABORTED unconditionally has first seen to the        *)
(* execution, or has failed to.                                            *)
StoppedBeforeWriting ==
  \A c \in Caller :
    /\ abort[c].at \in {"deciding", "writing"} => abort[c].saw \in Abortable
    /\ abort[c].at = "writing" /\ abort[c].saw # "QUEUED" =>
         exec \in Outcome \/ abandoned

EarlyAbortHolds ==
  early /\ ~unconfirmed =>
    /\ status = "ABORTED"
    /\ ~Created
    /\ \A i \in Invocation : pc[i] # "cleared"

(* A run whose row reads QUEUED or ABORTED still has its starter.          *)
RunHasItsStarter ==
  status \in {"QUEUED", "ABORTED"} /\ exec = "running" /\ ~abandoned =>
    \E i \in Invocation : pc[i] \in StartedPoints

(* Nothing but a step or the end of the run overwrites an accepted abort.  *)
AcceptedAbortStands ==
  /\ \E c \in Caller : abort[c].at = "aborted" /\ abort[c].saw = "QUEUED"
  /\ steps = 0
  /\ exec \notin Outcome
  => status = "ABORTED"

Execution ==
  /\ StartersCreatedIt
  /\ StepsBelongToIt
  /\ EndsAfterItsSteps
  /\ CountedStart
  /\ ReadsAreHonest
  /\ StatusFollowsExecution

Aborts ==
  /\ StoppedBeforeWriting
  /\ EarlyAbortHolds
  /\ RunHasItsStarter
  /\ AcceptedAbortStands

IInv == TypeOK /\ Execution /\ Aborts

-----------------------------------------------------------------------------
(* Every state is well typed.                                              *)
Call == [at : {"idle", "deciding", "writing", "rereading", "aborted", "refused"},
         saw : Status, attempt : 1..2]

LEMMA InitTypeOK == Init => TypeOK
<1> SUFFICES ASSUME Init PROVE TypeOK  OBVIOUS
<1> USE LifecycleAssumption DEF LifecycleAssumption, Init
<1>1. NotCalled \in Call
  BY DEF NotCalled, Call, Status, Abortable
<1>2. abort \in [Caller -> Call]  BY <1>1
<1>3. pc \in [Invocation -> {"idle", "claiming", "cleared"} \cup StartedPoints]
  OBVIOUS
<1>4. \A c \in Caller : abort[c].at = "rereading" => abort[c].attempt = 1
  BY DEF NotCalled
<1>5. /\ step \in BOOLEAN /\ early \in BOOLEAN
      /\ unconfirmed \in BOOLEAN /\ abandoned \in BOOLEAN
  OBVIOUS
<1>6. status \in Status /\ before \in Status  BY DEF Status, Abortable
<1>7. /\ steps \in 0..MaxSteps /\ events \in 0..MaxDeliveries
      /\ faults \in 0..MaxFaults /\ starts \in Nat /\ ~step
  OBVIOUS
<1>8. exec \in {"none", "running"} \cup Outcome  OBVIOUS
<1>9. queue \in {"visible", "invisible", "deleted"}  OBVIOUS
<1> QED
  BY <1>2, <1>3, <1>4, <1>5, <1>6, <1>7, <1>8, <1>9, Zenon DEF TypeOK, Call

LEMMA TypeStep == TypeOK /\ [Next]_vars => TypeOK'
<1> SUFFICES ASSUME TypeOK, [Next]_vars PROVE TypeOK'  OBVIOUS
<1> USE LifecycleAssumption DEF LifecycleAssumption, rowVars, execVars,
          ghostVars, Put, GoTo, Fault, At, Saw, MayRead,
          StopExecution, TypeOK, Status, Abortable, Outcome, StartedPoints
<1>1. ASSUME NEW i \in Invocation, Process(i) PROVE TypeOK'
  <2>1. CASE Refuse(i)
    BY <2>1 DEF Refuse
  <2>2. CASE ClaimStart(i)
    BY <2>2 DEF ClaimStart, ClaimAllowed
  <2>3. CASE StartExecution(i)
    BY <2>3 DEF StartExecution, NameTaken
  <2>4. CASE Acknowledge(i)
    BY <2>4 DEF Acknowledge
  <2>5. CASE WriteRunning(i)
    BY <2>5 DEF WriteRunning, StillWanted
  <2>6. CASE AskAborted(i)
    <3>1. abandoned' \in BOOLEAN  BY <2>6 DEF AskAborted
    <3> QED  BY <2>6, <3>1 DEF AskAborted
  <2>7. CASE StopAbortedStart(i)
    BY <2>7 DEF StopAbortedStart
  <2> QED  BY <1>1, <2>1, <2>2, <2>3, <2>4, <2>5, <2>6, <2>7 DEF Process
<1>2. ASSUME NEW i \in Invocation, ProcessFails(i) PROVE TypeOK'
  <2>1. CASE ClaimStartFails(i)
    BY <2>1 DEF ClaimStartFails
  <2>2. CASE StartFails(i)
    BY <2>2 DEF StartFails
  <2>3. CASE WriteRunningFails(i)
    BY <2>3 DEF WriteRunningFails
  <2>4. CASE GiveUp(i)
    BY <2>4 DEF GiveUp
  <2>5. CASE Crash(i)
    BY <2>5 DEF Crash
  <2> QED  BY <1>2, <2>1, <2>2, <2>3, <2>4, <2>5 DEF ProcessFails
<1>3. ASSUME NEW c \in Caller, AbortCall(c) PROVE TypeOK'
  <2>1. CASE AbortStop(c)
    BY <2>1 DEF AbortStop, ReadsAsQueued
  <2>2. CASE AbortWrite(c)
    <3>1. early' \in BOOLEAN  BY <2>2 DEF AbortWrite
    <3>2. abort' \in [Caller -> Call]  BY <2>2 DEF AbortWrite, Call
    <3>3. ASSUME NEW d \in Caller, abort'[d].at = "rereading"
          PROVE  abort'[d].attempt = 1
      BY <2>2, <3>3 DEF AbortWrite, MayRetry
    <3> QED  BY <2>2, <3>1, <3>2, <3>3 DEF AbortWrite, Call
  <2>3. CASE AbortReread(c)
    <3>1. abort[c].attempt = 1  BY <2>3 DEF AbortReread
    <3>2. abort' \in [Caller -> Call]  BY <2>3, <3>1 DEF AbortReread, Call
    <3> QED  BY <2>3, <3>2 DEF AbortReread, Call
  <2> QED  BY <1>3, <2>1, <2>2, <2>3 DEF AbortCall
<1>4. ASSUME NEW i \in Invocation, Receive(i) PROVE TypeOK'
  BY <1>4 DEF Receive
<1>5. ASSUME NEW c \in Caller, AbortRead(c) PROVE TypeOK'
  <2>1. PICK s \in Status : Saw(c, s)  BY <1>5 DEF AbortRead
  <2>2. abort[c] \in Call  BY DEF Call
  <2>3. PICK point \in {"deciding", "refused"} :
          abort' = [abort EXCEPT ![c].at = point, ![c].saw = s]
    BY <2>1
  <2>4. [abort[c] EXCEPT !.at = point, !.saw = s] \in Call  BY <2>2 DEF Call
  <2>5. abort' = [abort EXCEPT ![c] = [abort[c] EXCEPT !.at = point, !.saw = s]]
    BY <2>2, <2>3 DEF Call
  <2>6. abort' \in [Caller -> Call]  BY <2>4, <2>5 DEF Call
  <2>7. ASSUME NEW d \in Caller, abort'[d].at = "rereading"
        PROVE  abort'[d].attempt = 1
    BY <2>4, <2>5, <2>7
  <2> QED  BY <1>5, <2>6, <2>7 DEF AbortRead, Call
<1>6. ASSUME NEW c \in Caller, AbortStopFails(c) PROVE TypeOK'
  BY <1>6 DEF AbortStopFails, ReadsAsQueued
<1>7. ASSUME NEW c \in Caller, AbortFails(c) PROVE TypeOK'
  BY <1>7 DEF AbortFails
<1>8. CASE DeliverTwice
  BY <1>8 DEF DeliverTwice
<1>9. CASE Return
  BY <1>9 DEF Return
<1>10. CASE BeginStep
  BY <1>10 DEF BeginStep
<1>11. CASE StepWrites
  BY <1>11 DEF StepWrites
<1>12. CASE StepFails
  BY <1>12 DEF StepFails
<1>13. ASSUME NEW outcome \in {"succeeded", "failed"}, EndExecution(outcome) PROVE TypeOK'
  BY <1>13 DEF EndExecution
<1>14. CASE TrackerWrites
  BY <1>14 DEF TrackerWrites, TerminalStatus
<1>15. CASE UNCHANGED vars
  BY <1>15 DEF vars
<1> QED
  BY <1>1, <1>2, <1>3, <1>4, <1>5, <1>6, <1>7, <1>8, <1>9, <1>10, <1>11,
     <1>12, <1>13, <1>14, <1>15 DEF Next

(* The rows, points and readings of DocumentLifecycle keep their types,    *)
(* and a step is only outstanding if one was started.                      *)
THEOREM TypeCorrect == Spec => []TypeOK
<1> QED  BY InitTypeOK, TypeStep, PTL DEF Spec

-----------------------------------------------------------------------------
(* The invariant is inductive.                                             *)
LEMMA InitIInv == Init => IInv
<1> SUFFICES ASSUME Init PROVE IInv  OBVIOUS
<1>1. TypeOK  BY InitTypeOK
<1>2. Execution
  BY DEF Init, Execution, Created, StartersCreatedIt, StepsBelongToIt, EndsAfterItsSteps,
     CountedStart, ReadsAreHonest, StatusFollowsExecution, NotCalled, StartedPoints
<1>3. Aborts
  BY DEF Init, Aborts, StoppedBeforeWriting, EarlyAbortHolds, RunHasItsStarter,
     AcceptedAbortStands, NotCalled, Abortable
<1> QED  BY <1>1, <1>2, <1>3 DEF IInv

LEMMA ExecutionStep == TypeOK /\ Execution /\ [Next]_vars => Execution'
<1> SUFFICES ASSUME TypeOK /\ Execution, [Next]_vars PROVE Execution'  OBVIOUS
<1> USE LifecycleAssumption DEF LifecycleAssumption, rowVars, execVars,
          ghostVars, Put, GoTo, Fault, At, Saw, MayRead,
          StopExecution, TypeOK, Status, Abortable, Outcome, StartedPoints,
          Execution, Created, StartersCreatedIt, StepsBelongToIt, EndsAfterItsSteps,
          CountedStart, ReadsAreHonest, StatusFollowsExecution
<1>1. ASSUME NEW i \in Invocation, Process(i) PROVE Execution'
  <2>1. CASE Refuse(i)
    BY <2>1 DEF Refuse
  <2>2. CASE ClaimStart(i)
    BY <2>2 DEF ClaimStart, ClaimAllowed
  <2>3. CASE StartExecution(i)
    BY <2>3 DEF StartExecution, NameTaken
  <2>4. CASE Acknowledge(i)
    BY <2>4 DEF Acknowledge
  <2>5. CASE WriteRunning(i)
    BY <2>5 DEF WriteRunning, StillWanted
  <2>6. CASE AskAborted(i)
    BY <2>6 DEF AskAborted
  <2>7. CASE StopAbortedStart(i)
    BY <2>7 DEF StopAbortedStart
  <2> QED  BY <1>1, <2>1, <2>2, <2>3, <2>4, <2>5, <2>6, <2>7 DEF Process
<1>2. ASSUME NEW i \in Invocation, ProcessFails(i) PROVE Execution'
  <2>1. CASE ClaimStartFails(i)
    BY <2>1 DEF ClaimStartFails
  <2>2. CASE StartFails(i)
    BY <2>2 DEF StartFails
  <2>3. CASE WriteRunningFails(i)
    BY <2>3 DEF WriteRunningFails
  <2>4. CASE GiveUp(i)
    BY <2>4 DEF GiveUp
  <2>5. CASE Crash(i)
    BY <2>5 DEF Crash
  <2> QED  BY <1>2, <2>1, <2>2, <2>3, <2>4, <2>5 DEF ProcessFails
<1>3. ASSUME NEW c \in Caller, AbortCall(c) PROVE Execution'
  <2>1. CASE AbortStop(c)
    BY <2>1 DEF AbortStop, ReadsAsQueued
  <2>2. CASE AbortWrite(c)
    BY <2>2 DEF AbortWrite, Applies, ReadsAsQueued, MayRetry
  <2>3. CASE AbortReread(c)
    BY <2>3 DEF AbortReread
  <2> QED  BY <1>3, <2>1, <2>2, <2>3 DEF AbortCall
<1>4. ASSUME NEW i \in Invocation, Receive(i) PROVE Execution'
  BY <1>4 DEF Receive
<1>5. ASSUME NEW c \in Caller, AbortRead(c) PROVE Execution'
  BY <1>5 DEF AbortRead
<1>6. ASSUME NEW c \in Caller, AbortStopFails(c) PROVE Execution'
  BY <1>6 DEF AbortStopFails, ReadsAsQueued
<1>7. ASSUME NEW c \in Caller, AbortFails(c) PROVE Execution'
  BY <1>7 DEF AbortFails
<1>8. CASE DeliverTwice
  BY <1>8 DEF DeliverTwice
<1>9. CASE Return
  BY <1>9 DEF Return
<1>10. CASE BeginStep
  BY <1>10 DEF BeginStep
<1>11. CASE StepWrites
  BY <1>11 DEF StepWrites
<1>12. CASE StepFails
  BY <1>12 DEF StepFails
<1>13. ASSUME NEW outcome \in {"succeeded", "failed"}, EndExecution(outcome) PROVE Execution'
  BY <1>13 DEF EndExecution
<1>14. CASE TrackerWrites
  BY <1>14 DEF TrackerWrites, TerminalStatus
<1>15. CASE UNCHANGED vars
  BY <1>15 DEF vars
<1> QED
  BY <1>1, <1>2, <1>3, <1>4, <1>5, <1>6, <1>7, <1>8, <1>9, <1>10, <1>11,
     <1>12, <1>13, <1>14, <1>15 DEF Next

LEMMA AbortsStep == IInv /\ [Next]_vars => Aborts'
<1> SUFFICES ASSUME IInv, [Next]_vars PROVE Aborts'  OBVIOUS
<1> USE LifecycleAssumption DEF LifecycleAssumption, rowVars, execVars,
          ghostVars, Put, GoTo, Fault, At, Saw, MayRead,
          StopExecution, TypeOK, Status, Abortable, Outcome, StartedPoints,
          IInv, Execution, Created, StartersCreatedIt, StepsBelongToIt,
          ReadsAreHonest, Aborts, StoppedBeforeWriting, EarlyAbortHolds,
          RunHasItsStarter, AcceptedAbortStands
<1>1. ASSUME NEW i \in Invocation, Process(i) PROVE Aborts'
  <2>1. CASE Refuse(i)
    BY <2>1 DEF Refuse
  <2>2. CASE ClaimStart(i)
    BY <2>2 DEF ClaimStart, ClaimAllowed
  <2>3. CASE StartExecution(i)
    BY <2>3 DEF StartExecution, NameTaken
  <2>4. CASE Acknowledge(i)
    BY <2>4 DEF Acknowledge
  <2>5. CASE WriteRunning(i)
    BY <2>5 DEF WriteRunning, StillWanted
  <2>6. CASE AskAborted(i)
    BY <2>6 DEF AskAborted
  <2>7. CASE StopAbortedStart(i)
    BY <2>7 DEF StopAbortedStart
  <2> QED  BY <1>1, <2>1, <2>2, <2>3, <2>4, <2>5, <2>6, <2>7 DEF Process
<1>2. ASSUME NEW i \in Invocation, ProcessFails(i) PROVE Aborts'
  <2>1. CASE ClaimStartFails(i)
    BY <2>1 DEF ClaimStartFails
  <2>2. CASE StartFails(i)
    BY <2>2 DEF StartFails
  <2>3. CASE WriteRunningFails(i)
    BY <2>3 DEF WriteRunningFails
  <2>4. CASE GiveUp(i)
    BY <2>4 DEF GiveUp
  <2>5. CASE Crash(i)
    BY <2>5 DEF Crash
  <2> QED  BY <1>2, <2>1, <2>2, <2>3, <2>4, <2>5 DEF ProcessFails
<1>3. ASSUME NEW c \in Caller, AbortCall(c) PROVE Aborts'
  <2>1. CASE AbortStop(c)
    BY <2>1 DEF AbortStop, ReadsAsQueued
  <2>2. CASE AbortWrite(c)
    BY <2>2 DEF AbortWrite, Applies, ReadsAsQueued, MayRetry
  <2>3. CASE AbortReread(c)
    BY <2>3 DEF AbortReread
  <2> QED  BY <1>3, <2>1, <2>2, <2>3 DEF AbortCall
<1>4. ASSUME NEW i \in Invocation, Receive(i) PROVE Aborts'
  BY <1>4 DEF Receive
<1>5. ASSUME NEW c \in Caller, AbortRead(c) PROVE Aborts'
  BY <1>5 DEF AbortRead
<1>6. ASSUME NEW c \in Caller, AbortStopFails(c) PROVE Aborts'
  BY <1>6 DEF AbortStopFails, ReadsAsQueued
<1>7. ASSUME NEW c \in Caller, AbortFails(c) PROVE Aborts'
  BY <1>7 DEF AbortFails
<1>8. CASE DeliverTwice
  BY <1>8 DEF DeliverTwice
<1>9. CASE Return
  BY <1>9 DEF Return
<1>10. CASE BeginStep
  BY <1>10 DEF BeginStep
<1>11. CASE StepWrites
  BY <1>11 DEF StepWrites
<1>12. CASE StepFails
  BY <1>12 DEF StepFails
<1>13. ASSUME NEW outcome \in {"succeeded", "failed"}, EndExecution(outcome) PROVE Aborts'
  BY <1>13 DEF EndExecution
<1>14. CASE TrackerWrites
  BY <1>14 DEF TrackerWrites, TerminalStatus
<1>15. CASE UNCHANGED vars
  BY <1>15 DEF vars
<1> QED
  BY <1>1, <1>2, <1>3, <1>4, <1>5, <1>6, <1>7, <1>8, <1>9, <1>10, <1>11,
     <1>12, <1>13, <1>14, <1>15 DEF Next

(* IInv holds in every reachable state.                                    *)
THEOREM Invariance == Spec => []IInv
<1>1. IInv /\ [Next]_vars => IInv'
  BY TypeStep, ExecutionStep, AbortsStep DEF IInv
<1> QED  BY InitIInv, <1>1, PTL DEF Spec

-----------------------------------------------------------------------------
(* However often the queue delivers the message and invocations fail, the  *)
(* name derived from it lets one execution through.                        *)
THEOREM OneStart == Spec => []OneExecution
<1>1. IInv => OneExecution
  BY DEF IInv, Execution, CountedStart, OneExecution
<1> QED  BY Invariance, <1>1, PTL

(* The row never reads as started or completed unless the execution has    *)
(* got that far, and FAILED is the run's own end or the word of a step,    *)
(* which the success of a retried run does not leave standing.             *)
THEOREM HonestStatus == Spec => []StatusFollowsExecution
<1>1. IInv => StatusFollowsExecution
  BY DEF IInv, Execution
<1> QED  BY Invariance, <1>1, PTL

(* An abort written before any invocation had passed its claim prevents    *)
(* the start, unless a claim failed and was waved on.                      *)
THEOREM EarlyAbort == Spec => []EarlyAbortPreventsStart
<1>1. IInv => EarlyAbortPreventsStart
  BY DEF IInv, Aborts, EarlyAbortHolds, EarlyAbortPreventsStart, Created
<1> QED  BY Invariance, <1>1, PTL

(* While an execution runs whose row reads ABORTED, the invocation that    *)
(* started it is still there to stop it.                                   *)
THEOREM RunBeingStopped == Spec => []AbortedRunIsBeingStopped
<1>1. IInv => AbortedRunIsBeingStopped
  BY DEF IInv, Aborts, RunHasItsStarter, AbortedRunIsBeingStopped
<1> QED  BY Invariance, <1>1, PTL

(* An accepted abort of a QUEUED document is not lost to the start it      *)
(* raced with.                                                             *)
THEOREM AcceptedAbort == Spec => []AcceptedAbortBeatsTheStart
<1>1. IInv => AcceptedAbortBeatsTheStart
  BY DEF IInv, Aborts, AcceptedAbortStands, RunHasItsStarter,
     AcceptedAbortBeatsTheStart, StartedPoints, Outcome
<1> QED  BY Invariance, <1>1, PTL
=============================================================================
