----------------------------- MODULE BatchJobProofs -----------------------------
(***************************************************************************)
(* What holds of a batch for any files, tracker invocations, uploads and   *)
(* faults.                                                                 *)
(*                                                                         *)
(* The invariant follows one file: whatever speaks of its ending (an       *)
(* event, a refusal, the map) agrees with how its run ended, and while the *)
(* map does not have its ending nobody builds a zip.  Nothing is asked of  *)
(* the tracking rows.                                                      *)
(***************************************************************************)
EXTENDS BatchJob, TLAPS

Pre == [at : {"idle", "uploading", "done"}, done : SUBSET File, failed : SUBSET File]
RunStatus == {"none"} \cup UnderWay \cup Closed
Tracking == [at : {"idle", "listing", "putting", "marking"},
             e : Event \cup {Delegation}, keys : SUBSET File]

PreInv == pre \in Pre /\ pre.done \cap pre.failed = {}

DocInv ==
  /\ run \in [Upload -> RunStatus]
  /\ outputs \subseteq File
  /\ events \subseteq Event

GateInv == refusals \subseteq File /\ delegates \subseteq File /\ asked \in BOOLEAN

MapInv ==
  /\ DOMAIN files \subseteq File \cup {"__rejected__"}
  /\ \A f \in DOMAIN files : files[f] \in Terminal \cup Processing

(* An invocation lists what there is, and outputs are not taken away.      *)
ZipInv ==
  /\ zip \subseteq outputs
  /\ ready \in BOOLEAN
  /\ tracker \in [Tracker -> Tracking]
  /\ \A t \in Tracker : tracker[t].keys \subseteq outputs

CountInv == faults \in 0..MaxFaults /\ untold \in BOOLEAN /\ disturbed \in BOOLEAN

TInv == PreInv /\ DocInv /\ GateInv /\ MapInv /\ ZipInv /\ CountInv

LEMMA TInvIsTyped == TInv => TypeOK
<1> SUFFICES ASSUME TInv PROVE TypeOK  OBVIOUS
<1>1. history \in BOOLEAN \X BOOLEAN  BY DEF TInv, CountInv, history
<1> QED
  BY <1>1 DEF TInv, PreInv, DocInv, GateInv, MapInv, ZipInv, CountInv, TypeOK, Pre, RunStatus,
    Tracking

LEMMA Invoked == NotInvoked \in Tracking /\ NotInvoked.at = "idle" /\ NotInvoked.keys = {}
BY DEF NotInvoked, Tracking

LEMMA InitTInv == Init => TInv
<1> SUFFICES ASSUME Init PROVE TInv  OBVIOUS
<1>1. PreInv  BY DEF Init, PreInv, Pre
<1>2. DocInv  BY DEF Init, DocInv, RunStatus
<1>3. GateInv  BY DEF Init, GateInv
<1>4. MapInv  BY DEF Init, MapInv
<1>5. ZipInv
  <2>1. \A t \in Tracker : tracker[t] = NotInvoked  BY DEF Init
  <2> QED  BY <2>1, Invoked DEF Init, ZipInv
<1>6. CountInv
  <2>1. faults \in 0..MaxFaults  BY BatchAssumption DEF BatchAssumption, Init
  <2>2. untold \in BOOLEAN /\ disturbed \in BOOLEAN  BY Zenon DEF Init
  <2> QED  BY <2>1, <2>2, Zenon DEF CountInv
<1> QED  BY <1>1, <1>2, <1>3, <1>4, <1>5, <1>6 DEF TInv

-----------------------------------------------------------------------------
(* What each group of variables is moved by.                               *)
LEMMA PreStep == ASSUME TInv, [Next]_vars PROVE PreInv'
<1>1. pre \in Pre /\ pre.done \cap pre.failed = {}  BY DEF TInv, PreInv
<1>2. CASE StartBatch \/ RejectBatch  BY <1>1, <1>2 DEF StartBatch, RejectBatch, PreInv, Pre
<1>3. ASSUME NEW u \in Upload, UploadFile(u) PROVE PreInv'
  <2>1. u[1] \in File /\ u[1] \notin pre.failed
        /\ pre' = [pre EXCEPT !.done = pre.done \cup {u[1]}]
    BY <1>3 DEF UploadFile, LeftToUpload, Upload
  <2> QED  BY <1>1, <2>1 DEF PreInv, Pre
<1>4. ASSUME NEW f \in File, UploadFails(f) PROVE PreInv'
  <2>1. f \notin pre.done /\ pre' = [pre EXCEPT !.failed = pre.failed \cup {f}]
    BY <1>4 DEF UploadFails, LeftToUpload
  <2> QED  BY <1>1, <2>1 DEF PreInv, Pre
<1>5. CASE WriteFiles  BY <1>1, <1>5 DEF WriteFiles, PreInv, Pre
<1>6. CASE StartBatchAgain  BY <1>6 DEF StartBatchAgain, PreInv, Pre
<1>7. CASE UNCHANGED pre  BY <1>1, <1>7 DEF PreInv
<1> QED
  BY <1>2, <1>3, <1>4, <1>5, <1>6, <1>7
  DEF Next, PreProcessorSteps, GateSteps, ZipSteps, Hears, Documents, vars, RecordRefusal,
    Delegate, GateCallFails, GateCrashes, EndRun, HoldForReview, EndReview, EndUnheard,
    RefuseAtGate, TakeDelegation, ListOutputs, PutZip, MarkResultsReady, TrackerFails,
    RecordHold, RecordEnding, RaiseOnSuperseded

(* What a document's step does: its upload ends or is held with a status   *)
(* that an event, or a refusal, then tells of.                             *)
Tells(u, status) ==
  /\ run[u] = "running" \/ (run[u] = "HITL_IN_PROGRESS" /\ status # "HITL_IN_PROGRESS")
  /\ status \in Closed \cup {"HITL_IN_PROGRESS"}
  /\ run' = [run EXCEPT ![u] = status]
  /\ outputs \subseteq outputs' /\ outputs' \subseteq outputs \cup {u[1]}
  /\ status = "COMPLETED" => u[1] \in outputs'
  /\ \/ events' = events /\ (status = "QUARANTINED" \/ refusals' = refusals)
     \/ /\ events' = events \cup {[u |-> u, status |-> status]}
        /\ status \in Ending \cup {"HITL_IN_PROGRESS"}
        /\ refusals' = refusals
  /\ refusals \subseteq refusals' /\ refusals' \subseteq refusals \cup {u[1]}
  /\ UNCHANGED <<pre, delegates, asked, job, tracker, faults, disturbed>>

LEMMA EndsWithTells ==
  ASSUME NEW u \in Upload, NEW status \in Ending \cup {"HITL_IN_PROGRESS"},
         run[u] = "running" \/ (run[u] = "HITL_IN_PROGRESS" /\ status # "HITL_IN_PROGRESS"),
         EndsWith(u, status),
         UNCHANGED <<pre, gate, asked, job, tracker, faults, history>>
  PROVE  Tells(u, status)
<1>1. status \in Closed \cup {"HITL_IN_PROGRESS"}  BY DEF Closed
<1>2. UNCHANGED <<pre, delegates, asked, job, tracker, faults, disturbed>> /\ refusals' = refusals
  BY DEF gate, history
<1> QED  BY <1>1, <1>2 DEF Tells, EndsWith

LEMMA DocumentTells ==
  ASSUME NEW u \in Upload, Documents(u)
  PROVE  \E status : Tells(u, status)
<1>1. CASE EndRun(u)
  <2>1. PICK status \in Ending : EndsWith(u, status)  BY <1>1 DEF EndRun
  <2> QED  BY <1>1, <2>1, EndsWithTells DEF EndRun
<1>2. CASE HoldForReview(u)  BY <1>2, EndsWithTells DEF HoldForReview
<1>3. CASE EndReview(u)
  <2>1. PICK status \in ReviewEnding : EndsWith(u, status)  BY <1>3 DEF EndReview
  <2>2. status \in Ending /\ status # "HITL_IN_PROGRESS"  BY DEF Ending, ReviewEnding
  <2> QED  BY <1>3, <2>1, <2>2, EndsWithTells DEF EndReview
<1>4. CASE EndUnheard(u)
  <2>1. Tells(u, "FAILED")  BY <1>4 DEF EndUnheard, Tells, Closed, Ending, gate
  <2> QED  BY <2>1
<1>5. CASE RefuseAtGate(u)
  <2>1. Tells(u, "QUARANTINED")  BY <1>5 DEF RefuseAtGate, Tells, Closed, history
  <2> QED  BY <2>1
<1> QED  BY <1>1, <1>2, <1>3, <1>4, <1>5 DEF Documents

(* Who moves the documents.                                                *)
LEMMA DocMoves ==
  ASSUME [Next]_vars
  PROVE  \/ UNCHANGED documents
         \/ \E u \in Upload : UploadFile(u)
         \/ \E u \in Upload : \E status : Tells(u, status)
<1>1. UNCHANGED documents \/ \E u \in Upload : UploadFile(u) \/ Documents(u)
  BY DEF Next, PreProcessorSteps, GateSteps, ZipSteps, Hears, vars, StartBatch, RejectBatch,
    UploadFails, WriteFiles, StartBatchAgain, RecordRefusal, Delegate, GateCallFails,
    GateCrashes, TakeDelegation, ListOutputs, PutZip, MarkResultsReady, TrackerFails,
    RecordHold, RecordEnding, RaiseOnSuperseded
<1> QED  BY <1>1, DocumentTells

(* Whence an event comes.                                                  *)
LEMMA EventMoves ==
  ASSUME [Next]_vars
  PROVE  \/ events' \subseteq events
         \/ \E t \in Tracker : /\ tracker[t].at # "idle" /\ tracker[t].e # Delegation
                               /\ events' = events \cup {tracker[t].e}
         \/ \E u \in Upload : \E status :
              Tells(u, status) /\ events' = events \cup {[u |-> u, status |-> status]}
                /\ status \in Ending \cup {"HITL_IN_PROGRESS"}
<1>1. ASSUME NEW u \in Upload, Documents(u)
      PROVE events' = events \/ \E status :
              Tells(u, status) /\ events' = events \cup {[u |-> u, status |-> status]}
                /\ status \in Ending \cup {"HITL_IN_PROGRESS"}
  BY <1>1, DocumentTells DEF Tells
<1>2. ASSUME NEW t \in Tracker, TrackerFails(t)
      PROVE events' = events \/ (/\ tracker[t].at # "idle" /\ tracker[t].e # Delegation
                                 /\ events' = events \cup {tracker[t].e})
  BY <1>2 DEF TrackerFails
<1>3. ASSUME NEW t \in Tracker, NEW e \in events, Hears(t, e) PROVE events' \subseteq events
  BY <1>3 DEF Hears, RecordHold, RecordEnding, RaiseOnSuperseded, Taken
<1>4. \/ UNCHANGED events
      \/ \E u \in Upload : Documents(u)
      \/ \E t \in Tracker : TrackerFails(t)
      \/ \E t \in Tracker, e \in events : Hears(t, e)
  BY DEF Next, PreProcessorSteps, GateSteps, ZipSteps, vars, StartBatch, RejectBatch,
    UploadFails, WriteFiles, StartBatchAgain, UploadFile, RecordRefusal, Delegate, GateCallFails,
    GateCrashes, TakeDelegation, ListOutputs, PutZip, MarkResultsReady
<1> QED  BY <1>1, <1>2, <1>3, <1>4

LEMMA DocStep == ASSUME TInv, [Next]_vars PROVE DocInv' /\ outputs \subseteq outputs'
<1>1. run \in [Upload -> RunStatus] /\ outputs \subseteq File /\ events \subseteq Event
  BY DEF TInv, DocInv
<1>2. /\ run' \in [Upload -> RunStatus]
      /\ outputs' \subseteq File /\ outputs \subseteq outputs'
  <2>1. CASE UNCHANGED documents  BY <1>1, <2>1 DEF documents
  <2>2. ASSUME NEW u \in Upload, UploadFile(u)
        PROVE run' \in [Upload -> RunStatus] /\ outputs' = outputs
    BY <1>1, <2>2 DEF UploadFile, RunStatus, UnderWay
  <2>3. ASSUME NEW u \in Upload, NEW status, Tells(u, status)
        PROVE run' \in [Upload -> RunStatus]
              /\ outputs' \subseteq File /\ outputs \subseteq outputs'
    <3>1. u[1] \in File /\ status \in RunStatus
      BY <2>3 DEF Upload, Tells, RunStatus, UnderWay
    <3> QED  BY <1>1, <2>3, <3>1 DEF Tells
  <2> QED  BY <1>1, <2>1, <2>2, <2>3, DocMoves
<1>3. events' \subseteq Event
  <2>1. ASSUME NEW t \in Tracker, tracker[t].e # Delegation PROVE tracker[t].e \in Event
    BY <2>1 DEF TInv, ZipInv, Tracking
  <2>2. ASSUME NEW u \in Upload,
               NEW status \in Ending \cup {"HITL_IN_PROGRESS"}
        PROVE [u |-> u, status |-> status] \in Event
    BY DEF Event
  <2> QED  BY <1>1, <2>1, <2>2, EventMoves
<1> QED  BY <1>2, <1>3 DEF DocInv

LEMMA GateStep == ASSUME TInv, [Next]_vars PROVE GateInv'
<1>1. refusals \subseteq File /\ delegates \subseteq File /\ asked \in BOOLEAN
  BY DEF TInv, GateInv
<1>2. ASSUME NEW f \in File, GateSteps(f) \/ GateCallFails(f) \/ GateCrashes(f) PROVE GateInv'
  BY <1>1, <1>2 DEF GateSteps, RecordRefusal, Delegate, GateCallFails, GateCrashes, GateInv
<1>3. ASSUME NEW u \in Upload, Documents(u) PROVE GateInv'
  <2>1. refusals' \subseteq refusals \cup {u[1]} /\ delegates' = delegates /\ asked' = asked
    BY <1>3, DocumentTells DEF Tells
  <2>2. u[1] \in File  BY DEF Upload
  <2> QED  BY <1>1, <2>1, <2>2 DEF GateInv
<1>4. ASSUME NEW t \in Tracker, TakeDelegation(t) \/ TrackerFails(t) PROVE GateInv'
  BY <1>1, <1>4 DEF TakeDelegation, TrackerFails, GateInv, gate
<1>5. CASE UNCHANGED <<gate, asked>>  BY <1>1, <1>5 DEF GateInv, gate
<1> QED
  BY <1>2, <1>3, <1>4, <1>5
  DEF Next, PreProcessorSteps, ZipSteps, Hears, vars, StartBatch, RejectBatch, UploadFails,
    WriteFiles, StartBatchAgain, UploadFile, ListOutputs, PutZip, MarkResultsReady, RecordHold,
    RecordEnding, RaiseOnSuperseded

(* One entry of the map is written, the others stay.                       *)
LEMMA StatusIsSet ==
  ASSUME NEW f, NEW status, SetStatus(f, status)
  PROVE  /\ DOMAIN files' = DOMAIN files \cup {f}
         /\ files'[f] = status
         /\ \A g \in DOMAIN files : g # f => files'[g] = files[g]
BY DEF SetStatus

(* Who writes the map.                                                     *)
LEMMA MapMoves ==
  ASSUME [Next]_vars
  PROVE  \/ UNCHANGED files
         \/ RejectBatch
         \/ WriteFiles
         \/ \E f \in File : RecordRefusal(f)
         \/ \E t \in Tracker, e \in events : RecordHold(t, e) \/ RecordEnding(t, e)
<1>1. ASSUME NEW u \in Upload, Documents(u) PROVE UNCHANGED files
  BY <1>1, DocumentTells DEF Tells, job
<1> QED
  BY <1>1
  DEF Next, PreProcessorSteps, ZipSteps, GateSteps, Hears, vars, job, StartBatch, UploadFails,
    StartBatchAgain, UploadFile, Delegate, GateCallFails, GateCrashes, TakeDelegation,
    TrackerFails, ListOutputs, PutZip, MarkResultsReady, RaiseOnSuperseded

LEMMA EventOfFile ==
  ASSUME TInv, NEW e \in events
  PROVE  e.u \in Upload /\ e.u[1] \in File
BY DEF TInv, DocInv, Event, Upload

LEMMA MapStep == ASSUME TInv, [Next]_vars PROVE MapInv'
<1>1. DOMAIN files \subseteq File \cup {"__rejected__"}
      /\ \A f \in DOMAIN files : files[f] \in Terminal \cup Processing
  BY DEF TInv, MapInv
<1>2. ASSUME NEW f \in File, NEW status \in Terminal \cup Processing, SetStatus(f, status)
      PROVE MapInv'
  <2>1. /\ DOMAIN files' = DOMAIN files \cup {f}
        /\ files'[f] = status
        /\ \A g \in DOMAIN files : g # f => files'[g] = files[g]
    BY <1>2, StatusIsSet
  <2>2. ASSUME NEW g \in DOMAIN files' PROVE files'[g] \in Terminal \cup Processing
    BY <1>1, <2>1, <2>2
  <2> QED  BY <1>1, <2>1, <2>2 DEF MapInv
<1>3. CASE UNCHANGED files  BY <1>1, <1>3 DEF MapInv
<1>4. CASE RejectBatch  BY <1>1, <1>4 DEF RejectBatch, MapInv, Terminal
<1>5. CASE WriteFiles  BY <1>5 DEF WriteFiles, MapInv, Terminal, Processing
<1>6. ASSUME NEW f \in File, RecordRefusal(f) PROVE MapInv'
  BY <1>2, <1>6 DEF RecordRefusal, GateStatus, Terminal
<1>7. ASSUME NEW t \in Tracker, NEW e \in events, RecordHold(t, e) \/ RecordEnding(t, e)
      PROVE MapInv'
  BY <1>2, <1>7, EventOfFile DEF RecordHold, RecordEnding, Processing
<1> QED  BY <1>3, <1>4, <1>5, <1>6, <1>7, MapMoves

LEMMA WorksTyped ==
  ASSUME TInv, NEW t \in Tracker, NEW at \in {"listing", "putting", "marking"},
         NEW e \in Event \cup {Delegation}, NEW keys \in SUBSET File, Works(t, at, e, keys)
  PROVE  /\ tracker' \in [Tracker -> Tracking]
         /\ tracker'[t].at = at /\ tracker'[t].e = e /\ tracker'[t].keys = keys
         /\ \A q \in Tracker : q # t => tracker'[q] = tracker[q]
<1>1. tracker \in [Tracker -> Tracking]  BY DEF TInv, ZipInv
<1>2. [at |-> at, e |-> e, keys |-> keys] \in Tracking  BY DEF Tracking
<1> QED  BY <1>1, <1>2 DEF Works

LEMMA ReturnsTyped ==
  ASSUME TInv, NEW t \in Tracker, Returns(t)
  PROVE  /\ tracker' \in [Tracker -> Tracking]
         /\ tracker'[t].at = "idle" /\ tracker'[t].keys = {}
         /\ \A q \in Tracker : q # t => tracker'[q] = tracker[q]
<1>1. tracker \in [Tracker -> Tracking]  BY DEF TInv, ZipInv
<1> QED  BY <1>1, Invoked DEF Returns

LEMMA ZipStep == ASSUME TInv, [Next]_vars PROVE ZipInv'
<1>1. /\ zip \subseteq outputs /\ ready \in BOOLEAN
      /\ tracker \in [Tracker -> Tracking]
      /\ \A t \in Tracker : tracker[t].keys \subseteq outputs
      /\ outputs \subseteq File /\ outputs \subseteq outputs'
  BY DocStep DEF TInv, ZipInv, DocInv
<1>2. ASSUME zip' = zip, ready' = ready, tracker' = tracker PROVE ZipInv'
  BY <1>1, <1>2 DEF ZipInv
<1>3. ASSUME NEW t \in Tracker, NEW e \in events, RecordEnding(t, e) PROVE ZipInv'
  <2>1. e \in Event  BY DEF TInv, DocInv
  <2>2. zip' = zip /\ ready' = ready /\ (tracker' = tracker \/ Works(t, "listing", e, {}))
    BY <1>3 DEF RecordEnding
  <2> QED  BY <1>1, <1>2, <2>1, <2>2, WorksTyped DEF ZipInv
<1>4. ASSUME NEW t \in Tracker, TakeDelegation(t) PROVE ZipInv'
  BY <1>1, <1>4, WorksTyped DEF TakeDelegation, job, ZipInv
<1>5. ASSUME NEW t \in Tracker, ListOutputs(t) PROVE ZipInv'
  <2>1. tracker[t].e \in Event \cup {Delegation}  BY <1>1 DEF Tracking
  <2>2. zip' = zip /\ ready' = ready
        /\ \E at \in {"putting", "marking"} : Works(t, at, tracker[t].e, outputs)
    BY <1>5 DEF ListOutputs, job
  <2> QED  BY <1>1, <2>1, <2>2, WorksTyped DEF ZipInv
<1>6. ASSUME NEW t \in Tracker, PutZip(t) PROVE ZipInv'
  <2>1. tracker[t].e \in Event \cup {Delegation} /\ tracker[t].keys \in SUBSET File
    BY <1>1 DEF Tracking
  <2>2. zip' = tracker[t].keys /\ ready' = ready
        /\ Works(t, "marking", tracker[t].e, tracker[t].keys)
    BY <1>6 DEF PutZip
  <2> QED  BY <1>1, <2>1, <2>2, WorksTyped DEF ZipInv
<1>7. ASSUME NEW t \in Tracker, MarkResultsReady(t) PROVE ZipInv'
  <2>1. zip' = zip /\ ready' = (tracker[t].keys # {}) /\ Returns(t)
    BY <1>7 DEF MarkResultsReady
  <2> QED  BY <1>1, <2>1, ReturnsTyped DEF ZipInv
<1>8. ASSUME NEW t \in Tracker, TrackerFails(t) PROVE ZipInv'
  <2>1. zip' = zip /\ ready' = ready /\ Returns(t)  BY <1>8 DEF TrackerFails, job
  <2> QED  BY <1>1, <2>1, ReturnsTyped DEF ZipInv
<1>9. ASSUME NEW u \in Upload, Documents(u) PROVE ZipInv'
  BY <1>2, <1>9, DocumentTells DEF Tells, job
<1> QED
  BY <1>2, <1>3, <1>4, <1>5, <1>6, <1>7, <1>8, <1>9
  DEF Next, PreProcessorSteps, ZipSteps, GateSteps, Hears, vars, job, StartBatch, RejectBatch,
    UploadFails, WriteFiles, StartBatchAgain, UploadFile, RecordRefusal, Delegate,
    GateCallFails, GateCrashes, RecordHold, RaiseOnSuperseded

LEMMA CountStep == ASSUME TInv, [Next]_vars PROVE CountInv'
<1>1. faults \in 0..MaxFaults /\ untold \in BOOLEAN /\ disturbed \in BOOLEAN
  BY Zenon DEF TInv, CountInv
<1>2. faults' \in 0..MaxFaults
  <2>1. ASSUME NEW u \in Upload, Documents(u) PROVE faults' = faults
    BY <2>1, DocumentTells DEF Tells
  <2>2. faults' = faults \/ Fault
    BY <2>1
    DEF Next, PreProcessorSteps, ZipSteps, GateSteps, Hears, vars, StartBatch, RejectBatch,
      UploadFails, WriteFiles, StartBatchAgain, UploadFile, RecordRefusal, Delegate,
      GateCallFails, GateCrashes, TakeDelegation, TrackerFails, ListOutputs, PutZip,
      MarkResultsReady, RecordHold, RecordEnding, RaiseOnSuperseded, Taken
  <2> QED  BY <1>1, <2>2, BatchAssumption DEF BatchAssumption, Fault
<1>3. disturbed' \in BOOLEAN
  <2>1. CASE disturbed' = disturbed  BY <1>1, <2>1
  <2>2. CASE WriteFiles  BY <1>1, <2>2, Zenon DEF WriteFiles
  <2>3. ASSUME NEW t \in Tracker, NEW e \in events, RecordHold(t, e) PROVE disturbed' \in BOOLEAN
    BY <1>1, <2>3, Zenon DEF RecordHold
  <2>4. ASSUME NEW u \in Upload, Documents(u) PROVE disturbed' = disturbed
    BY <2>4, DocumentTells DEF Tells
  <2> QED
    BY <2>1, <2>2, <2>3, <2>4
    DEF Next, PreProcessorSteps, ZipSteps, GateSteps, Hears, vars, history, StartBatch,
      RejectBatch, UploadFails, StartBatchAgain, UploadFile, RecordRefusal, Delegate,
      GateCallFails, GateCrashes, TakeDelegation, TrackerFails, ListOutputs, PutZip,
      MarkResultsReady, RecordEnding, RaiseOnSuperseded
<1>4. untold' \in BOOLEAN
  BY <1>1
  DEF Next, PreProcessorSteps, ZipSteps, GateSteps, Hears, Documents, vars, history, StartBatch,
    RejectBatch, UploadFails, WriteFiles, StartBatchAgain, UploadFile, RecordRefusal, Delegate,
    GateCallFails, GateCrashes, TakeDelegation, TrackerFails, ListOutputs, PutZip,
    MarkResultsReady, RecordHold, RecordEnding, RaiseOnSuperseded, EndRun, HoldForReview,
    EndReview, EndUnheard, RefuseAtGate
<1> QED  BY <1>2, <1>3, <1>4, Zenon DEF CountInv

LEMMA TStep == TInv /\ [Next]_vars => TInv'
BY PreStep, DocStep, GateStep, MapStep, ZipStep, CountStep DEF TInv

LEMMA TInvariant == Spec => []TInv
<1>1. Init => TInv  BY InitTInv
<1>2. TInv /\ [Next]_vars => TInv'  BY TStep
<1> QED  BY <1>1, <1>2, PTL DEF Spec

(* The type invariant; a zip never holds what was not in the bucket.       *)
THEOREM TypeCorrect == Spec => []TypeOK
<1>1. TInv => TypeOK  BY TInvIsTyped
<1> QED  BY <1>1, TInvariant, PTL

-----------------------------------------------------------------------------
(* Some run of the file has ended; none is under way; one ended COMPLETED. *)
Over(f) == \E u \in Upload : u[1] = f /\ run[u] \in Closed
Ended(f) == \A u \in Upload : u[1] = f => run[u] \in {"none"} \cup Closed
Completed(f) == \E u \in Upload : u[1] = f /\ run[u] = "COMPLETED"

(* Nobody is about to build a zip, and none has been announced.            *)
NoZip ==
  /\ \A t \in Tracker : tracker[t].at = "idle"
  /\ ~asked /\ delegates = {} /\ ~ready

Nothing ==
  /\ NoZip
  /\ \A u \in Upload : run[u] = "none"
  /\ events = {} /\ refusals = {}

(* Before the batch and after its rejection nothing happens and no file is *)
(* uploaded; while the map is empty there is no zip.                       *)
Beginning ==
  /\ pre.at = "idle" => DOMAIN files = {} /\ LeftToUpload = File /\ Nothing
  /\ "__rejected__" \in DOMAIN files =>
       Rejected /\ DOMAIN files = {"__rejected__"} /\ Nothing
  /\ pre.at = "done" => File \subseteq DOMAIN files \/ Nothing
  /\ DOMAIN files = {} => NoZip

(* An event, while it is delivered and while an invocation works on it.    *)
Told(e) ==
  \/ e \in events
  \/ \E t \in Tracker : tracker[t].at # "idle" /\ tracker[t].e = e

EventsSpeak ==
  \A e \in Event : Told(e) =>
    run[e.u] # "none" /\ (e.status # "HITL_IN_PROGRESS" => run[e.u] = e.status)

(* A refusal is of a run that ended so, and what completed has outputs.    *)
RefusalSpeaks(f) ==
  f \in refusals \cup delegates => \E u \in Upload : u[1] = f /\ run[u] = "QUARANTINED"

OutputsSpeak == \A u \in Upload : run[u] = "COMPLETED" => u[1] \in outputs

(* The file's results are in the zip, and in every zip to come.            *)
Zipped(f) ==
  /\ \A t \in Tracker : tracker[t].at \in {"putting", "marking"} => f \in tracker[t].keys
  /\ \A t \in Tracker : tracker[t].at = "marking" => f \in zip
  /\ ready => f \in zip

(* What the map says of a file: an ending that is recorded is the run's,   *)
(* there is no zip before, and every zip after has the file's results.     *)
Mapped(f) ==
  /\ files[f] \in Terminal =>
       Ended(f) /\ (files[f] = "COMPLETED" <=> Completed(f))
  /\ files[f] \notin Terminal => NoZip
  /\ files[f] = "COMPLETED" => Zipped(f)

Undisturbed(f) == pre.at = "done" /\ ~disturbed /\ UploadedOnce(f) /\ f \in DOMAIN files

IInv ==
  /\ TInv
  /\ Beginning
  /\ EventsSpeak
  /\ OutputsSpeak
  /\ \A f \in File : RefusalSpeaks(f)
  /\ \A f \in File : Undisturbed(f) => Mapped(f)

-----------------------------------------------------------------------------
LEMMA OnlyRun ==
  ASSUME NEW f, UploadedOnce(f),
         NEW u \in Upload, NEW w \in Upload, u[1] = f, w[1] = f,
         run[u] # "none", run[w] # "none"
  PROVE  u = w
<1>1. ASSUME NEW v \in Upload, v[1] = f, run[v] # "none" PROVE v = <<f, 1>>
  <2>1. v = <<f, v[2]>> /\ v[2] \in 1..MaxRuns  BY <1>1 DEF Upload
  <2>2. v[2] \notin 2..MaxRuns  BY <1>1, <2>1 DEF UploadedOnce
  <2>3. v[2] = 1  BY <2>1, <2>2, BatchAssumption DEF BatchAssumption
  <2> QED  BY <2>1, <2>3
<1> QED  BY <1>1

(* What has ended stays as it ended, and what has begun has begun.         *)
LEMMA ClosedStays ==
  ASSUME TInv, [Next]_vars, NEW u \in Upload
  PROVE  /\ run[u] \in Closed => run'[u] = run[u]
         /\ run[u] # "none" => run'[u] # "none"
<1>1. run \in [Upload -> RunStatus]  BY DEF TInv, DocInv
<1>2. CASE UNCHANGED documents  BY <1>2 DEF documents
<1>3. ASSUME NEW w \in Upload, UploadFile(w)
      PROVE run[w] = "none" /\ run' = [run EXCEPT ![w] = "running"]
  <2>1. w = <<w[1], w[2]>> /\ w[2] \in 1..MaxRuns  BY DEF Upload
  <2> QED  BY <1>3, <2>1, BatchAssumption DEF UploadFile, IsNextUpload, BatchAssumption
<1>4. ASSUME NEW w \in Upload, NEW status, Tells(w, status)
      PROVE /\ run[w] \in UnderWay /\ status # "none"
            /\ run' = [run EXCEPT ![w] = status]
  BY <1>4 DEF Tells, UnderWay, Closed, Ending
<1>5. "none" \notin Closed /\ UnderWay \cap Closed = {}  BY DEF Closed, UnderWay, Ending
<1> QED  BY <1>1, <1>2, <1>3, <1>4, <1>5, DocMoves

(* Without an upload the runs of a file that has ended stay as they ended. *)
LEMMA EndedStays ==
  ASSUME TInv, [Next]_vars, NEW f, Ended(f), pre.at # "uploading"
  PROVE  \A u \in Upload : u[1] = f => run'[u] = run[u]
<1>1. run \in [Upload -> RunStatus]  BY DEF TInv, DocInv
<1>2. CASE UNCHANGED documents  BY <1>2 DEF documents
<1>3. ASSUME NEW w \in Upload PROVE ~UploadFile(w)  BY DEF UploadFile
<1>4. ASSUME NEW w \in Upload, NEW status, Tells(w, status)
      PROVE w[1] # f /\ run' = [run EXCEPT ![w] = status]
  BY <1>4 DEF Tells, Ended, Closed, Ending
<1> QED  BY <1>1, <1>2, <1>3, <1>4, DocMoves

(* A file that was uploaded once after a step was so before.               *)
LEMMA OnceBefore ==
  ASSUME TInv, [Next]_vars, NEW f \in File, UploadedOnce(f)'
  PROVE  UploadedOnce(f)
<1>1. ASSUME NEW n \in 2..MaxRuns PROVE <<f, n>> \in Upload
  BY BatchAssumption DEF BatchAssumption, Upload
<1> QED  BY <1>1, ClosedStays DEF UploadedOnce

(* An event that is told of was told of before, or it is a document's step. *)
LEMMA ToldMoves ==
  ASSUME TInv, [Next]_vars, NEW e \in Event, Told(e)'
  PROVE  Told(e) \/ \E u \in Upload : \E status :
                      Tells(u, status) /\ e = [u |-> u, status |-> status]
<1>1. CASE e \in events'
  BY <1>1, EventMoves DEF Told
<1>2. CASE \E t \in Tracker : tracker'[t].at # "idle" /\ tracker'[t].e = e
  <2>1. PICK t \in Tracker : tracker'[t].at # "idle" /\ tracker'[t].e = e  BY <1>2
  <2>3. ASSUME NEW q \in Tracker, Returns(q) PROVE Told(e)
    <3>1. tracker'[t] = tracker[t]  BY <2>1, <2>3, ReturnsTyped
    <3> QED  BY <2>1, <3>1 DEF Told
  <2>4. ASSUME NEW q \in Tracker, NEW at \in {"listing", "putting", "marking"},
               NEW d \in Event \cup {Delegation}, NEW keys \in SUBSET File,
               Works(q, at, d, keys),
               d \in Event => Told(d)
        PROVE Told(e)
    <3>1. CASE q = t  BY <2>1, <2>4, <3>1, WorksTyped
    <3>2. CASE q # t
      <4>1. tracker'[t] = tracker[t]  BY <2>4, <3>2, WorksTyped
      <4> QED  BY <2>1, <4>1 DEF Told
    <3> QED  BY <3>1, <3>2
  <2>5. ASSUME NEW q \in Tracker, NEW d \in events, RecordEnding(q, d), tracker' # tracker
        PROVE Told(e)
    <3>1. d \in Event /\ Works(q, "listing", d, {})
      BY <2>5 DEF RecordEnding, TInv, DocInv
    <3> QED  BY <2>4, <3>1 DEF Told
  <2>6. ASSUME NEW q \in Tracker, TakeDelegation(q) PROVE Told(e)
    <3>1. Works(q, "listing", Delegation, {})  BY <2>6 DEF TakeDelegation
    <3>2. Delegation \notin Event  BY DEF Delegation, Event, Ending, ReviewEnding
    <3> QED  BY <2>4, <3>1, <3>2
  <2>7. ASSUME NEW q \in Tracker, ListOutputs(q) \/ PutZip(q) PROVE Told(e)
    <3>1. /\ tracker[q].e \in Event \cup {Delegation} /\ tracker[q].keys \in SUBSET File
          /\ outputs \in SUBSET File /\ tracker[q].at # "idle"
      BY <2>7 DEF ListOutputs, PutZip, TInv, ZipInv, DocInv, Tracking
    <3>2. \E at \in {"putting", "marking"}, keys \in SUBSET File : Works(q, at, tracker[q].e, keys)
      BY <2>7, <3>1 DEF ListOutputs, PutZip
    <3> QED  BY <2>4, <3>1, <3>2 DEF Told
  <2>8. ASSUME NEW q \in Tracker, MarkResultsReady(q) \/ TrackerFails(q) PROVE Told(e)
    BY <2>3, <2>8 DEF MarkResultsReady, TrackerFails
  <2>9. ASSUME NEW u \in Upload, Documents(u) PROVE tracker' = tracker
    BY <2>9, DocumentTells DEF Tells
  <2>10. CASE tracker' = tracker  BY <2>1, <2>10 DEF Told
  <2> QED
    BY <2>5, <2>6, <2>7, <2>8, <2>9, <2>10
    DEF Next, PreProcessorSteps, ZipSteps, GateSteps, Hears, vars, StartBatch, RejectBatch,
      UploadFails, WriteFiles, StartBatchAgain, UploadFile, RecordRefusal, Delegate,
      GateCallFails, GateCrashes, RecordHold, RaiseOnSuperseded
<1> QED  BY <1>1, <1>2 DEF Told

(* A refusal was under way before, or it is a document's step.             *)
LEMMA RefusalMoves ==
  ASSUME TInv, [Next]_vars, NEW f \in (refusals \cup delegates)'
  PROVE  f \in refusals \cup delegates \/ \E u \in Upload : \E status :
           Tells(u, status) /\ u[1] = f /\ status = "QUARANTINED"
<1>1. ASSUME NEW u \in Upload, Documents(u)
      PROVE f \in refusals \cup delegates \/ \E status :
              Tells(u, status) /\ u[1] = f /\ status = "QUARANTINED"
  BY <1>1, DocumentTells DEF Tells
<1>2. ASSUME NEW g \in File, GateSteps(g) \/ GateCallFails(g) \/ GateCrashes(g)
      PROVE f \in refusals \cup delegates
  BY <1>2 DEF GateSteps, RecordRefusal, Delegate, GateCallFails, GateCrashes
<1>3. CASE UNCHANGED gate  BY <1>3 DEF gate
<1> QED
  BY <1>1, <1>2, <1>3
  DEF Next, PreProcessorSteps, ZipSteps, Hears, vars, StartBatch, RejectBatch, UploadFails,
    WriteFiles, StartBatchAgain, UploadFile, TakeDelegation, TrackerFails, ListOutputs, PutZip,
    MarkResultsReady, RecordHold, RecordEnding, RaiseOnSuperseded

-----------------------------------------------------------------------------
(* Only an ending that completes the map starts the work on a zip.         *)
LEMMA NoZipMoves ==
  ASSUME TInv, [Next]_vars, NoZip
  PROVE  \/ NoZip'
         \/ /\ AllTerminal(files')
            /\ \/ \E f \in File : RecordRefusal(f)
               \/ \E t \in Tracker, e \in events : RecordEnding(t, e)
<1>1. ASSUME UNCHANGED <<tracker, asked, delegates, ready>> PROVE NoZip'
  BY <1>1 DEF NoZip
<1>2. ASSUME NEW u \in Upload, Documents(u) PROVE NoZip'
  BY <1>1, <1>2, DocumentTells DEF Tells, job
<1>3. ASSUME NEW f \in File, RecordRefusal(f) PROVE AllTerminal(files') \/ NoZip'
  BY <1>1, <1>3 DEF RecordRefusal
<1>4. ASSUME NEW t \in Tracker, NEW e \in events, RecordEnding(t, e)
      PROVE AllTerminal(files') \/ NoZip'
  BY <1>1, <1>4 DEF RecordEnding, gate
<1>5. ASSUME NEW t \in Tracker
      PROVE ~TakeDelegation(t) /\ ~ZipSteps(t) /\ ~TrackerFails(t)
  BY DEF NoZip, TakeDelegation, ZipSteps, ListOutputs, PutZip, MarkResultsReady, TrackerFails
<1>6. ASSUME NEW f \in File PROVE ~Delegate(f) /\ ~GateCrashes(f)
  BY DEF NoZip, Delegate, GateCrashes
<1>7. ASSUME NEW f \in File, GateCallFails(f) PROVE NoZip'
  BY <1>7 DEF NoZip, GateCallFails, job
<1> QED
  BY <1>1, <1>2, <1>3, <1>4, <1>5, <1>6, <1>7
  DEF Next, PreProcessorSteps, GateSteps, Hears, vars, job, gate, StartBatch, RejectBatch,
    UploadFails, WriteFiles, StartBatchAgain, UploadFile, RecordHold, RaiseOnSuperseded

LEMMA NothingMoves ==
  ASSUME TInv, [Next]_vars, Nothing, pre.at # "uploading"
  PROVE  Nothing' /\ (UNCHANGED files \/ RejectBatch)
<1>1. ASSUME NEW u \in Upload PROVE ~Documents(u) /\ ~UploadFile(u)
  BY DocumentTells DEF Nothing, Tells, UploadFile
<1>2. ASSUME NEW f \in File PROVE ~RecordRefusal(f) /\ ~GateCallFails(f)
  BY DEF Nothing, NoZip, RecordRefusal, GateCallFails
<1>3. ~\E t \in Tracker, e \in events : Hears(t, e)  BY DEF Nothing
<1>4. NoZip' /\ (UNCHANGED files \/ RejectBatch)
  <2>1. ~\E t \in Tracker, e \in events : RecordHold(t, e) \/ RecordEnding(t, e)
    BY <1>3 DEF Hears
  <2>2. ~WriteFiles  BY DEF WriteFiles
  <2> QED  BY <1>2, <2>1, <2>2, NoZipMoves, MapMoves DEF Nothing
<1>5. ASSUME NEW t \in Tracker
      PROVE ~TakeDelegation(t) /\ ~ZipSteps(t) /\ ~TrackerFails(t)
  BY DEF Nothing, NoZip, TakeDelegation, ZipSteps, ListOutputs, PutZip, MarkResultsReady,
    TrackerFails
<1>6. ASSUME NEW f \in File PROVE ~Delegate(f) /\ ~GateCrashes(f)
  BY DEF Nothing, NoZip, Delegate, GateCrashes
<1>7. run' = run /\ events' = events /\ refusals' = refusals
  BY <1>1, <1>2, <1>3, <1>5, <1>6
  DEF Next, PreProcessorSteps, GateSteps, vars, documents, gate, StartBatch, RejectBatch,
    UploadFails, WriteFiles, StartBatchAgain
<1> QED  BY <1>4, <1>7 DEF Nothing

(* Where the pre-processor goes.                                           *)
LEMMA PreMoves ==
  ASSUME TInv, [Next]_vars
  PROVE  \/ pre'.at = pre.at /\ (pre.at # "uploading" => pre' = pre)
         \/ StartBatch /\ pre'.at = "uploading"
         \/ RejectBatch /\ pre'.at = "done"
         \/ WriteFiles /\ pre'.at = "done"
         \/ StartBatchAgain /\ pre'.at = "uploading"
<1>1. pre \in Pre  BY DEF TInv, PreInv
<1>2. ASSUME NEW u \in Upload, UploadFile(u)
      PROVE pre.at = "uploading" /\ pre'.at = pre.at
  BY <1>1, <1>2 DEF UploadFile, Pre
<1>3. ASSUME NEW f \in File, UploadFails(f)
      PROVE pre.at = "uploading" /\ pre'.at = pre.at
  BY <1>1, <1>3 DEF UploadFails, Pre
<1>4. ASSUME NEW u \in Upload, Documents(u) PROVE pre' = pre
  BY <1>4, DocumentTells DEF Tells
<1>5. CASE StartBatch \/ RejectBatch \/ WriteFiles \/ StartBatchAgain
  BY <1>1, <1>5 DEF StartBatch, RejectBatch, WriteFiles, StartBatchAgain, Pre
<1> QED
  BY <1>2, <1>3, <1>4, <1>5
  DEF Next, PreProcessorSteps, GateSteps, ZipSteps, Hears, vars, RecordRefusal, Delegate,
    GateCallFails, GateCrashes, TakeDelegation, ListOutputs, PutZip, MarkResultsReady,
    TrackerFails, RecordHold, RecordEnding, RaiseOnSuperseded

(* The map only grows, unless the pre-processor writes the whole of it.    *)
LEMMA MapGrows ==
  ASSUME TInv, [Next]_vars, ~RejectBatch, ~WriteFiles
  PROVE  \/ UNCHANGED files
         \/ \E f \in File : DOMAIN files' = DOMAIN files \cup {f}
<1>1. ASSUME NEW f \in File, RecordRefusal(f) PROVE DOMAIN files' = DOMAIN files \cup {f}
  BY <1>1, StatusIsSet DEF RecordRefusal
<1>2. ASSUME NEW t \in Tracker, NEW e \in events, RecordHold(t, e) \/ RecordEnding(t, e)
      PROVE e.u[1] \in File /\ DOMAIN files' = DOMAIN files \cup {e.u[1]}
  BY <1>2, StatusIsSet, EventOfFile DEF RecordHold, RecordEnding
<1> QED  BY <1>1, <1>2, MapMoves

LEMMA BeginningStep == ASSUME IInv, [Next]_vars PROVE Beginning'
<1>1. TInv /\ Beginning  BY DEF IInv
<1>2. "__rejected__" \notin File  BY BatchAssumption DEF BatchAssumption
<1>3. pre'.at = "idle" => DOMAIN files' = {} /\ LeftToUpload' = File /\ Nothing'
  <2>1. SUFFICES ASSUME pre'.at = "idle"
                 PROVE DOMAIN files' = {} /\ LeftToUpload' = File /\ Nothing'
    OBVIOUS
  <2>2. pre.at = "idle" /\ pre' = pre  BY <1>1, <2>1, PreMoves
  <2>3. ~RejectBatch  BY <1>1, <2>1 DEF RejectBatch, TInv, PreInv, Pre
  <2>4. LeftToUpload' = File  BY <1>1, <2>2 DEF Beginning, LeftToUpload
  <2> QED  BY <1>1, <2>2, <2>3, <2>4, NothingMoves DEF Beginning
<1>4. "__rejected__" \in DOMAIN files' =>
        Rejected' /\ DOMAIN files' = {"__rejected__"} /\ Nothing'
  <2>1. SUFFICES ASSUME "__rejected__" \in DOMAIN files'
                 PROVE Rejected' /\ DOMAIN files' = {"__rejected__"} /\ Nothing'
    OBVIOUS
  <2>2. CASE RejectBatch
    <3>1. pre.at = "idle" /\ Nothing /\ DOMAIN files = {} /\ LeftToUpload = File
      BY <1>1, <2>2 DEF RejectBatch, Beginning
    <3>2. pre' = [pre EXCEPT !.at = "done"] /\ DOMAIN files' = {"__rejected__"}
      BY <2>1, <2>2, <3>1 DEF RejectBatch
    <3>3. Rejected'
      BY <1>1, <3>1, <3>2, BatchAssumption
      DEF Rejected, LeftToUpload, TInv, PreInv, Pre, BatchAssumption
    <3> QED  BY <1>1, <3>1, <3>2, <3>3, NothingMoves
  <2>3. CASE ~RejectBatch
    <3>1. ~WriteFiles  BY <1>2, <2>1 DEF WriteFiles
    <3>2. "__rejected__" \in DOMAIN files  BY <1>1, <1>2, <2>1, <2>3, <3>1, MapGrows
    <3>3. Rejected /\ DOMAIN files = {"__rejected__"} /\ Nothing
      BY <1>1, <3>2 DEF Beginning
    <3>4. pre.at = "done"  BY <3>3 DEF Rejected
    <3>5. pre' = pre
      BY <1>1, <2>3, <3>1, <3>3, <3>4, PreMoves DEF StartBatch, StartBatchAgain
    <3>6. Rejected'  BY <3>3, <3>5 DEF Rejected, LeftToUpload
    <3> QED  BY <1>1, <2>3, <3>3, <3>4, <3>6, NothingMoves
  <2> QED  BY <2>2, <2>3
<1>5. pre'.at = "done" => File \subseteq DOMAIN files' \/ Nothing'
  <2>1. SUFFICES ASSUME pre'.at = "done" PROVE File \subseteq DOMAIN files' \/ Nothing'
    OBVIOUS
  <2>2. CASE RejectBatch
    <3>1. pre.at = "idle" /\ Nothing  BY <1>1, <2>2 DEF RejectBatch, Beginning
    <3> QED  BY <1>1, <3>1, NothingMoves
  <2>3. CASE WriteFiles  BY <2>3 DEF WriteFiles
  <2>4. CASE ~RejectBatch /\ ~WriteFiles
    <3>1. pre.at = "done"  BY <1>1, <2>1, <2>4, PreMoves
    <3>2. CASE File \subseteq DOMAIN files  BY <1>1, <2>4, <3>2, MapGrows
    <3>3. CASE Nothing  BY <1>1, <3>1, <3>3, NothingMoves
    <3> QED  BY <1>1, <3>1, <3>2, <3>3 DEF Beginning
  <2> QED  BY <2>2, <2>3, <2>4
<1>6. DOMAIN files' = {} => NoZip'
  <2>1. SUFFICES ASSUME DOMAIN files' = {} PROVE NoZip'  OBVIOUS
  <2>2. CASE RejectBatch
    <3>1. pre.at = "idle" /\ Nothing  BY <1>1, <2>2 DEF RejectBatch, Beginning
    <3> QED  BY <1>1, <3>1, NothingMoves DEF Nothing
  <2>3. CASE WriteFiles  BY <2>1, <2>3, BatchAssumption DEF WriteFiles, BatchAssumption
  <2>4. CASE ~RejectBatch /\ ~WriteFiles
    <3>1. DOMAIN files = {}  BY <1>1, <2>1, <2>4, MapGrows
    <3>2. ASSUME NEW f \in File PROVE ~RecordRefusal(f)
      BY <2>1, StatusIsSet DEF RecordRefusal
    <3>3. ASSUME NEW t \in Tracker, NEW e \in events PROVE ~RecordEnding(t, e)
      BY <2>1, StatusIsSet DEF RecordEnding
    <3> QED  BY <1>1, <3>1, <3>2, <3>3, NoZipMoves DEF Beginning
  <2> QED  BY <2>2, <2>3, <2>4
<1> QED  BY <1>3, <1>4, <1>5, <1>6 DEF Beginning

-----------------------------------------------------------------------------
LEMMA EventsStep == ASSUME IInv, [Next]_vars PROVE EventsSpeak'
<1>1. TInv /\ EventsSpeak /\ run \in [Upload -> RunStatus]  BY DEF IInv, TInv, DocInv
<1>2. SUFFICES ASSUME NEW e \in Event, Told(e)'
               PROVE run'[e.u] # "none" /\ (e.status # "HITL_IN_PROGRESS" => run'[e.u] = e.status)
  BY DEF EventsSpeak
<1>3. e.u \in Upload  BY DEF Event
<1>4. ASSUME NEW u \in Upload, NEW status, Tells(u, status), e = [u |-> u, status |-> status]
      PROVE run'[e.u] = e.status /\ e.status # "none"
  <2>1. e.u = u /\ e.status = status  BY <1>4
  <2>2. run'[u] = status /\ status # "none"  BY <1>1, <1>4 DEF Tells, Closed, Ending
  <2> QED  BY <2>1, <2>2
<1>5. CASE Told(e)
  <2>1. run[e.u] # "none" /\ (e.status # "HITL_IN_PROGRESS" => run[e.u] = e.status)
    BY <1>1, <1>5 DEF EventsSpeak
  <2>2. e.status # "HITL_IN_PROGRESS" => e.status \in Closed  BY DEF Event, Closed
  <2> QED  BY <1>1, <1>3, <2>1, <2>2, ClosedStays
<1> QED  BY <1>1, <1>2, <1>4, <1>5, ToldMoves

LEMMA RefusalStep == ASSUME IInv, [Next]_vars, NEW f \in File PROVE RefusalSpeaks(f)'
<1>1. TInv /\ RefusalSpeaks(f) /\ run \in [Upload -> RunStatus]  BY DEF IInv, TInv, DocInv
<1>2. SUFFICES ASSUME f \in (refusals \cup delegates)'
               PROVE \E u \in Upload : u[1] = f /\ run'[u] = "QUARANTINED"
  BY DEF RefusalSpeaks
<1>3. CASE f \in refusals \cup delegates
  <2>1. PICK u \in Upload : u[1] = f /\ run[u] = "QUARANTINED"  BY <1>1, <1>3 DEF RefusalSpeaks
  <2>2. run'[u] = "QUARANTINED"  BY <1>1, <2>1, ClosedStays DEF Closed
  <2> QED  BY <2>1, <2>2
<1>4. ASSUME NEW u \in Upload, NEW status, Tells(u, status), u[1] = f, status = "QUARANTINED"
      PROVE run'[u] = "QUARANTINED"
  BY <1>1, <1>4 DEF Tells
<1> QED  BY <1>1, <1>2, <1>3, <1>4, RefusalMoves

LEMMA OutputsStep == ASSUME IInv, [Next]_vars PROVE OutputsSpeak'
<1>1. /\ TInv /\ OutputsSpeak /\ run \in [Upload -> RunStatus]
      /\ outputs \subseteq outputs'
  BY DocStep DEF IInv, TInv, DocInv
<1>2. CASE UNCHANGED documents  BY <1>1, <1>2 DEF documents, OutputsSpeak
<1>3. ASSUME NEW u \in Upload, UploadFile(u) PROVE OutputsSpeak'
  BY <1>1, <1>3 DEF UploadFile, OutputsSpeak
<1>4. ASSUME NEW u \in Upload, NEW status, Tells(u, status) PROVE OutputsSpeak'
  BY <1>1, <1>4 DEF Tells, OutputsSpeak
<1> QED  BY <1>2, <1>3, <1>4, DocMoves

-----------------------------------------------------------------------------
(* A history that says disturbed keeps saying so.                          *)
LEMMA DisturbedStays == ASSUME TInv, [Next]_vars, disturbed PROVE disturbed'
<1>1. ASSUME NEW u \in Upload, Documents(u) PROVE disturbed' = disturbed
  BY <1>1, DocumentTells DEF Tells
<1>2. CASE disturbed' = disturbed  BY <1>2
<1>3. CASE WriteFiles  BY <1>3, Zenon DEF WriteFiles
<1>4. ASSUME NEW t \in Tracker, NEW e \in events, RecordHold(t, e) PROVE disturbed'
  BY <1>4, Zenon DEF RecordHold
<1> QED
  BY <1>1, <1>2, <1>3, <1>4
  DEF Next, PreProcessorSteps, ZipSteps, GateSteps, Hears, vars, history, StartBatch,
    RejectBatch, UploadFails, StartBatchAgain, UploadFile, RecordRefusal, Delegate,
    GateCallFails, GateCrashes, TakeDelegation, TrackerFails, ListOutputs, PutZip,
    MarkResultsReady, RecordEnding, RaiseOnSuperseded

(* A file that is undisturbed after a step was so before, unless the map   *)
(* was written by the step.                                                *)
LEMMA UndisturbedBefore ==
  ASSUME IInv, [Next]_vars, NEW f \in File, Undisturbed(f)', ~WriteFiles
  PROVE  /\ pre.at = "done" /\ Undisturbed(f) /\ Mapped(f)
         /\ ~RejectBatch /\ "__rejected__" \notin DOMAIN files
<1>1. TInv /\ Beginning /\ (Undisturbed(f) => Mapped(f))  BY DEF IInv
<1>2. UploadedOnce(f) /\ ~disturbed
  BY <1>1, OnceBefore, DisturbedStays DEF Undisturbed
<1>3. ~RejectBatch
  BY <1>1, BatchAssumption DEF BatchAssumption, RejectBatch, Undisturbed, Beginning
<1>4. pre.at = "done"  BY <1>1, <1>3, PreMoves DEF Undisturbed
<1>5. "__rejected__" \notin DOMAIN files
  <2>1. SUFFICES ASSUME "__rejected__" \in DOMAIN files PROVE FALSE  OBVIOUS
  <2>2. Nothing /\ DOMAIN files = {"__rejected__"}  BY <1>1, <2>1 DEF Beginning
  <2>3. UNCHANGED files  BY <1>1, <1>3, <1>4, <2>2, NothingMoves
  <2> QED  BY <2>2, <2>3, BatchAssumption DEF BatchAssumption, Undisturbed
<1>6. f \in DOMAIN files
  <2>1. CASE Nothing  BY <1>1, <1>3, <1>4, <2>1, NothingMoves DEF Undisturbed
  <2> QED  BY <1>1, <1>4, <2>1 DEF Beginning
<1> QED  BY <1>1, <1>2, <1>3, <1>4, <1>5, <1>6 DEF Undisturbed

LEMMA OverIsEnded ==
  ASSUME NEW f, UploadedOnce(f), Over(f)
  PROVE  Ended(f)
<1>1. PICK u \in Upload : u[1] = f /\ run[u] \in Closed  BY DEF Over
<1>2. run[u] # "none"  BY <1>1 DEF Closed, Ending
<1> QED  BY <1>1, <1>2, OnlyRun DEF Ended

(* How the only run of a file ended is how the file ended.                 *)
LEMMA EndingIsKnown ==
  ASSUME NEW f, UploadedOnce(f), NEW u \in Upload, u[1] = f, run[u] \in Closed
  PROVE  Ended(f) /\ (Completed(f) <=> run[u] = "COMPLETED")
<1>1. run[u] # "none"  BY DEF Closed, Ending
<1>2. Ended(f)  BY OverIsEnded DEF Over
<1>3. Completed(f) => run[u] = "COMPLETED"  BY <1>1, OnlyRun DEF Completed
<1> QED  BY <1>2, <1>3 DEF Completed

(* An ending that is told of is the run's.                                 *)
LEMMA ToldIsKnown ==
  ASSUME IInv, NEW e \in events, e.status \in Terminal, UploadedOnce(e.u[1])
  PROVE  Ended(e.u[1]) /\ (Completed(e.u[1]) <=> e.status = "COMPLETED")
<1>1. e \in Event /\ Told(e) /\ e.u \in Upload  BY EventOfFile DEF IInv, TInv, DocInv, Told
<1>2. run[e.u] = e.status  BY <1>1 DEF IInv, EventsSpeak, Terminal
<1>3. run[e.u] \in Closed  BY <1>2 DEF Terminal, Closed, Ending
<1> QED  BY <1>1, <1>2, <1>3, EndingIsKnown

(* Nor does a refused file complete.                                       *)
LEMMA RefusedIsKnown ==
  ASSUME IInv, NEW f \in refusals, UploadedOnce(f)
  PROVE  Ended(f) /\ ~Completed(f)
<1>1. f \in File  BY DEF IInv, TInv, GateInv
<1>2. PICK u \in Upload : u[1] = f /\ run[u] = "QUARANTINED"
  BY <1>1 DEF IInv, RefusalSpeaks
<1> QED  BY <1>2, EndingIsKnown DEF Closed

(* Outputs that are there are listed, put and stay.                        *)
LEMMA ZippedStays ==
  ASSUME TInv, [Next]_vars, NEW f \in outputs, Zipped(f)
  PROVE  Zipped(f)'
<1>1. ASSUME UNCHANGED <<tracker, zip, ready>> PROVE Zipped(f)'
  BY <1>1 DEF Zipped
<1>2. ASSUME NEW t \in Tracker, Returns(t), zip' = zip,
             \/ ready' = ready
             \/ tracker[t].at = "marking"
      PROVE Zipped(f)'
  BY <1>2, ReturnsTyped DEF Zipped
<1>3. ASSUME NEW t \in Tracker, NEW at \in {"listing", "putting", "marking"},
             NEW e \in Event \cup {Delegation}, NEW keys \in SUBSET File,
             Works(t, at, e, keys), ready' = ready,
             at # "listing" => f \in keys,
             \/ zip' = zip /\ at # "marking"
             \/ zip' = keys /\ at = "marking"
      PROVE Zipped(f)'
  BY <1>3, WorksTyped DEF Zipped
<1>4. ASSUME NEW t \in Tracker
      PROVE tracker[t].e \in Event \cup {Delegation} /\ tracker[t].keys \in SUBSET File
  BY DEF TInv, ZipInv, Tracking
<1>5. ASSUME NEW t \in Tracker, NEW e \in events, RecordEnding(t, e) PROVE Zipped(f)'
  <2>1. e \in Event  BY DEF TInv, DocInv
  <2>2. CASE tracker' = tracker  BY <1>1, <1>5, <2>2 DEF RecordEnding
  <2>3. CASE Works(t, "listing", e, {})  BY <1>3, <1>5, <2>1, <2>3 DEF RecordEnding
  <2> QED  BY <1>5, <2>2, <2>3 DEF RecordEnding
<1>6. ASSUME NEW t \in Tracker, TakeDelegation(t) PROVE Zipped(f)'
  BY <1>3, <1>6 DEF TakeDelegation, job
<1>7. ASSUME NEW t \in Tracker, ListOutputs(t) PROVE Zipped(f)'
  <2>1. Works(t, "putting", tracker[t].e, outputs) /\ zip' = zip /\ ready' = ready
    BY <1>7 DEF ListOutputs, job
  <2>2. outputs \in SUBSET File  BY DEF TInv, DocInv
  <2> QED  BY <1>3, <1>4, <2>1, <2>2
<1>8. ASSUME NEW t \in Tracker, PutZip(t) PROVE Zipped(f)'
  <2>1. f \in tracker[t].keys  BY <1>8 DEF PutZip, Zipped
  <2> QED  BY <1>3, <1>4, <1>8, <2>1 DEF PutZip
<1>9. ASSUME NEW t \in Tracker, MarkResultsReady(t) PROVE Zipped(f)'
  BY <1>2, <1>9 DEF MarkResultsReady
<1>10. ASSUME NEW t \in Tracker, TrackerFails(t) PROVE Zipped(f)'
  BY <1>2, <1>10 DEF TrackerFails, job
<1>11. ASSUME NEW u \in Upload, Documents(u) PROVE Zipped(f)'
  BY <1>1, <1>11, DocumentTells DEF Tells, job
<1> QED
  BY <1>1, <1>5, <1>6, <1>7, <1>8, <1>9, <1>10, <1>11
  DEF Next, PreProcessorSteps, ZipSteps, GateSteps, Hears, vars, job, StartBatch, RejectBatch,
    UploadFails, WriteFiles, StartBatchAgain, UploadFile, RecordRefusal, Delegate,
    GateCallFails, GateCrashes, RecordHold, RaiseOnSuperseded

(* How the entry of an undisturbed file changes.                           *)
LEMMA EntryMoves ==
  ASSUME IInv, [Next]_vars, NEW f \in File, Undisturbed(f)', ~WriteFiles
  PROVE  \/ files'[f] = files[f]
         \/ RecordRefusal(f) /\ files'[f] = "FAILED" /\ f \in refusals
         \/ /\ files[f] \notin Terminal /\ files'[f] = "HITL_IN_PROGRESS"
            /\ \E e \in events : e.u[1] = f /\ e.status = "HITL_IN_PROGRESS"
         \/ \E t \in Tracker, e \in events :
              RecordEnding(t, e) /\ e.u[1] = f /\ files'[f] = e.status /\ e.status \in Terminal
<1>1. Undisturbed(f) /\ ~RejectBatch /\ f \in DOMAIN files
  BY UndisturbedBefore DEF Undisturbed
<1>2. ASSUME NEW g \in File, RecordRefusal(g)
      PROVE files'[f] = files[f] \/ (g = f /\ files'[f] = "FAILED" /\ f \in refusals)
  BY <1>1, <1>2, StatusIsSet DEF RecordRefusal, GateStatus
<1>3. ASSUME NEW t \in Tracker, NEW e \in events, RecordEnding(t, e)
      PROVE files'[f] = files[f]
            \/ (e.u[1] = f /\ files'[f] = e.status /\ e.status \in Terminal)
  BY <1>1, <1>3, StatusIsSet DEF RecordEnding
<1>4. ASSUME NEW t \in Tracker, NEW e \in events, RecordHold(t, e)
      PROVE files'[f] = files[f]
            \/ (/\ files[f] \notin Terminal /\ files'[f] = "HITL_IN_PROGRESS"
                /\ e.u[1] = f /\ e.status = "HITL_IN_PROGRESS")
  <2>1. SetStatus(e.u[1], "HITL_IN_PROGRESS") /\ e.status = "HITL_IN_PROGRESS"
    BY <1>4 DEF RecordHold
  <2>2. CASE e.u[1] # f  BY <1>1, <2>1, <2>2, StatusIsSet
  <2>3. CASE e.u[1] = f
    <3>1. ~disturbed'  BY DEF Undisturbed
    <3>2. ~(f \in DOMAIN files /\ files[f] \in Terminal)
      BY <1>4, <2>3, <3>1, Zenon DEF RecordHold
    <3> QED  BY <1>1, <2>1, <2>3, <3>2, StatusIsSet
  <2> QED  BY <2>2, <2>3
<1> QED  BY <1>1, <1>2, <1>3, <1>4, MapMoves

LEMMA MappedStep ==
  ASSUME IInv, [Next]_vars, NEW f \in File, Undisturbed(f)'
  PROVE  Mapped(f)'
<1>1. /\ TInv /\ Beginning /\ OutputsSpeak /\ run \in [Upload -> RunStatus]
  BY DEF IInv, TInv, DocInv
<1>2. CASE WriteFiles
  <2>1. DOMAIN files = {} /\ ~FailedBesidesARun
    <3>1. ~disturbed'  BY DEF Undisturbed
    <3> QED  BY <1>2, <3>1, Zenon DEF WriteFiles
  <2>2. NoZip'
    <3>1. NoZip  BY <1>1, <2>1 DEF Beginning
    <3> QED  BY <1>2, <3>1 DEF NoZip, WriteFiles, gate
  <2>3. files'[f] = (IF f \in pre.done THEN "IN_PROGRESS" ELSE "FAILED")
    BY <1>2 DEF WriteFiles
  <2>4. ASSUME files'[f] = "FAILED" PROVE Ended(f)' /\ ~Completed(f)'
    <3>1. f \in pre.failed  BY <1>2, <2>3, <2>4 DEF WriteFiles, LeftToUpload
    <3>2. \A u \in Upload : u[1] = f => run[u] = "none"
      BY <2>1, <3>1 DEF FailedBesidesARun
    <3>3. run' = run  BY <1>2 DEF WriteFiles, documents
    <3> QED  BY <3>2, <3>3 DEF Ended, Completed
  <2>5. files'[f] # "COMPLETED" /\ (files'[f] \in Terminal => files'[f] = "FAILED")
    BY <2>3 DEF Terminal
  <2> QED  BY <2>2, <2>4, <2>5 DEF Mapped
<1>3. CASE ~WriteFiles
  <2>1. /\ Undisturbed(f) /\ Mapped(f) /\ UploadedOnce(f) /\ f \in DOMAIN files'
        /\ pre.at = "done"
    BY <1>3, UndisturbedBefore DEF Undisturbed
  <2>2. ASSUME files'[f] \in Terminal
        PROVE Ended(f)' /\ (files'[f] = "COMPLETED" <=> Completed(f)')
    <3>1. ASSUME Ended(f)
          PROVE Ended(f)' /\ (Completed(f)' <=> Completed(f))
      <4>1. \A u \in Upload : u[1] = f => run'[u] = run[u]
        BY <1>1, <2>1, <3>1, EndedStays
      <4> QED  BY <3>1, <4>1 DEF Ended, Completed
    <3>2. CASE files'[f] = files[f]  BY <2>1, <2>2, <3>1, <3>2 DEF Mapped
    <3>3. CASE files'[f] = "FAILED" /\ f \in refusals
      BY <2>1, <3>1, <3>3, RefusedIsKnown
    <3>4. ASSUME NEW e \in events, e.u[1] = f, files'[f] = e.status, e.status \in Terminal
          PROVE Ended(f)' /\ (files'[f] = "COMPLETED" <=> Completed(f)')
      BY <2>1, <3>1, <3>4, ToldIsKnown
    <3>5. files'[f] # "HITL_IN_PROGRESS"  BY <2>2 DEF Terminal
    <3> QED  BY <1>3, <3>2, <3>3, <3>4, <3>5, EntryMoves
  <2>3. ASSUME files'[f] \notin Terminal PROVE NoZip'
    <3>1. files[f] \notin Terminal
      BY <1>3, <2>3, EntryMoves DEF Terminal
    <3>2. NoZip  BY <2>1, <3>1 DEF Mapped
    <3>3. ~AllTerminal(files')  BY <2>1, <2>3 DEF AllTerminal
    <3> QED  BY <1>1, <3>2, <3>3, NoZipMoves
  <2>4. ASSUME files'[f] = "COMPLETED" PROVE Zipped(f)'
    <3>1. CASE files[f] = "COMPLETED"
      <4>1. Zipped(f) /\ f \in outputs
        BY <1>1, <2>1, <3>1 DEF Mapped, Completed, OutputsSpeak, Terminal
      <4> QED  BY <1>1, <4>1, ZippedStays
    <3>2. CASE files[f] # "COMPLETED"
      <4>1. PICK t \in Tracker, e \in events :
              RecordEnding(t, e) /\ e.u[1] = f /\ files'[f] = e.status /\ e.status \in Terminal
        BY <1>3, <2>4, <3>2, EntryMoves
      <4>2. Completed(f)  BY <2>1, <2>4, <4>1, ToldIsKnown
      <4>3. files[f] \notin Terminal  BY <2>1, <3>2, <4>2 DEF Mapped
      <4>4. NoZip  BY <2>1, <4>3 DEF Mapped
      <4>5. e \in Event  BY <1>1 DEF TInv, DocInv
      <4>6. zip' = zip /\ ready' = ready
            /\ (tracker' = tracker \/ Works(t, "listing", e, {}))
        BY <4>1 DEF RecordEnding
      <4> QED  BY <1>1, <4>4, <4>5, <4>6, WorksTyped DEF NoZip, Zipped
    <3> QED  BY <3>1, <3>2
  <2> QED  BY <2>2, <2>3, <2>4 DEF Mapped
<1> QED  BY <1>2, <1>3

LEMMA IStep == IInv /\ [Next]_vars => IInv'
<1> SUFFICES ASSUME IInv, [Next]_vars PROVE IInv'  OBVIOUS
<1>1. TInv'  BY TStep DEF IInv
<1>2. ASSUME NEW f \in File PROVE RefusalSpeaks(f)' /\ (Undisturbed(f)' => Mapped(f)')
  BY RefusalStep, MappedStep
<1> QED  BY <1>1, <1>2, BeginningStep, EventsStep, OutputsStep DEF IInv

LEMMA InitIInv == Init => IInv
<1> SUFFICES ASSUME Init PROVE IInv  OBVIOUS
<1>1. TInv  BY InitTInv
<1>2. NoZip  BY Invoked DEF Init, NoZip
<1>3. Beginning  BY <1>2 DEF Init, Beginning, Nothing, LeftToUpload
<1>4. EventsSpeak  BY <1>2 DEF Init, EventsSpeak, Told, NoZip
<1>5. OutputsSpeak /\ \A f \in File : RefusalSpeaks(f)  BY DEF Init, OutputsSpeak, RefusalSpeaks
<1>6. \A f \in File : ~Undisturbed(f)  BY DEF Init, Undisturbed
<1> QED  BY <1>1, <1>3, <1>4, <1>5, <1>6 DEF IInv

(* The inductive invariant.                                                *)
THEOREM Invariance == Spec => []IInv
BY InitIInv, IStep, PTL DEF Spec

-----------------------------------------------------------------------------
(* The answer of GET /jobs/<id> as a function of the statuses it reads.    *)
Answer(statuses) ==
  IF ComputedStatus(statuses) \in WithResults /\ ~ready
    THEN "IN_PROGRESS" ELSE ComputedStatus(statuses)

Statuses == {files[f] : f \in DOMAIN files}

LEMMA WhatAnswers ==
  ASSUME NEW statuses
  PROVE  /\ Answer(statuses) \in WithResults => ready
         /\ Answer(statuses) \in Final /\ "COMPLETED" \in statuses => ready
         /\ ComputedStatus(statuses) \in WithResults => "COMPLETED" \in statuses
<1>1. CASE statuses = {}
  <2>1. ComputedStatus(statuses) = "PENDING_UPLOAD"  BY <1>1 DEF ComputedStatus
  <2> QED  BY <2>1 DEF Answer, Final, WithResults
<1>2. CASE statuses # {} /\ ~(statuses \subseteq Terminal)
  <2>1. ComputedStatus(statuses) = "IN_PROGRESS"  BY <1>2 DEF ComputedStatus
  <2> QED  BY <1>2, <2>1 DEF Answer, Final, WithResults
<1>3. CASE statuses # {} /\ statuses \subseteq Terminal /\ "COMPLETED" \notin statuses
  <2>1. ComputedStatus(statuses) = "FAILED"  BY <1>3 DEF ComputedStatus
  <2> QED  BY <1>3, <2>1 DEF Answer, Final, WithResults
<1>4. CASE statuses \subseteq Terminal /\ "COMPLETED" \in statuses
  <2>1. ComputedStatus(statuses) \in WithResults
    BY <1>4 DEF ComputedStatus, WithResults
  <2> QED  BY <1>4, <2>1 DEF Answer, Final, WithResults
<1> QED  BY <1>1, <1>2, <1>3, <1>4

LEMMA AnswersOfReadings ==
  ASSUME NEW answer \in Answers
  PROVE  \E statuses : answer = Answer(statuses)
<1>1. PICK reading \in Readings : answer = JobStatus(reading)  BY DEF Answers
<1>2. answer = Answer({reading[f] : f \in DOMAIN files})  BY <1>1 DEF JobStatus, Answer
<1> QED  BY <1>2

(* Of a map with nothing in progress there is one answer.                  *)
LEMMA OneAnswer == AllTerminal(files) => Answers = {Answer(Statuses)}
<1> SUFFICES ASSUME AllTerminal(files) PROVE Answers = {Answer(Statuses)}  OBVIOUS
<1>1. ASSUME NEW f \in DOMAIN files PROVE files[f] \in Terminal /\ FileStatuses(f) = {files[f]}
  BY <1>1 DEF AllTerminal, FileStatuses, Terminal
<1>2. ASSUME NEW reading \in Readings PROVE JobStatus(reading) = Answer(Statuses)
  <2>1. \A f \in DOMAIN files : reading[f] = files[f]  BY <1>1, <1>2 DEF Readings
  <2>2. {reading[f] : f \in DOMAIN files} = Statuses  BY <2>1 DEF Statuses
  <2> QED  BY <2>2 DEF JobStatus, Answer
<1>3. [f \in DOMAIN files |-> files[f]] \in Readings  BY <1>1 DEF Readings
<1> QED  BY <1>2, <1>3 DEF Answers

LEMMA OneAnswerPrimed == (AllTerminal(files) => Answers = {Answer(Statuses)})'
BY OneAnswer, PTL

(* The zip a caller is sent to holds the outputs of every file that        *)
(* completed, when the map was written before its files ended.             *)
THEOREM EveryResult == Spec => []ZipHoldsEveryResult
<1>1. IInv => ZipHoldsEveryResult
  <2>1. SUFFICES ASSUME IInv, pre.at = "done", ~disturbed, Answers \cap WithResults # {},
                        NEW f \in File, files[f] = "COMPLETED", UploadedOnce(f)
                 PROVE f \in zip
    BY DEF ZipHoldsEveryResult
  <2>2. ready  BY <2>1, AnswersOfReadings, WhatAnswers
  <2>3. File \subseteq DOMAIN files  BY <2>1, <2>2 DEF IInv, Beginning, Nothing, NoZip
  <2>4. Undisturbed(f)  BY <2>1, <2>3 DEF Undisturbed
  <2>5. Zipped(f)  BY <2>1, <2>4 DEF IInv, Mapped
  <2> QED  BY <2>2, <2>5 DEF Zipped
<1> QED  BY <1>1, Invariance, PTL

-----------------------------------------------------------------------------
(* Once a completed file is recorded and its zip announced, it stays so.   *)
LEMMA ReadyStays ==
  ASSUME TInv, [Next]_vars, ready, NEW f, Zipped(f)
  PROVE  ready'
<1>1. ASSUME NEW u \in Upload, Documents(u) PROVE ready' = ready
  BY <1>1, DocumentTells DEF Tells, job
<1>2. ASSUME NEW t \in Tracker, MarkResultsReady(t) PROVE ready'
  <2>1. f \in tracker[t].keys  BY <1>2 DEF MarkResultsReady, Zipped
  <2> QED  BY <1>2, <2>1 DEF MarkResultsReady
<1> QED
  BY <1>1, <1>2
  DEF Next, PreProcessorSteps, ZipSteps, GateSteps, Hears, vars, job, StartBatch, RejectBatch,
    UploadFails, WriteFiles, StartBatchAgain, UploadFile, RecordRefusal, Delegate,
    GateCallFails, GateCrashes, TakeDelegation, TrackerFails, ListOutputs, PutZip, RecordHold,
    RecordEnding, RaiseOnSuperseded

(* Without an upload a file that was uploaded once still is.               *)
LEMMA OnceStays ==
  ASSUME TInv, [Next]_vars, NEW f \in File, UploadedOnce(f), pre.at # "uploading"
  PROVE  UploadedOnce(f)'
<1>1. run \in [Upload -> RunStatus]  BY DEF TInv, DocInv
<1>2. ASSUME NEW n \in 2..MaxRuns PROVE <<f, n>> \in Upload
  BY BatchAssumption DEF BatchAssumption, Upload
<1>3. CASE UNCHANGED documents  BY <1>3 DEF documents, UploadedOnce
<1>4. ASSUME NEW u \in Upload PROVE ~UploadFile(u)  BY DEF UploadFile
<1>5. ASSUME NEW u \in Upload, NEW status, Tells(u, status)
      PROVE UploadedOnce(f)'
  <2>1. \A w \in Upload : run[w] = "none" => run'[w] = "none"
    BY <1>1, <1>5 DEF Tells
  <2> QED  BY <1>2, <2>1 DEF UploadedOnce
<1> QED  BY <1>3, <1>4, <1>5, DocMoves

LEMMA FinalStays ==
  ASSUME IInv, [Next]_vars, pre.at = "done", pre'.at = "done",
         ~disturbed', \A f \in File : UploadedOnce(f),
         NEW answer \in Answers,
         answer \in WithResults \/ (answer = "FAILED" /\ AllTerminal(files))
  PROVE  Answers' = {answer}
<1>1. TInv /\ Beginning  BY DEF IInv
<1>2. ~WriteFiles /\ ~RejectBatch  BY DEF WriteFiles, RejectBatch
<1>3. answer \in WithResults => ready  BY AnswersOfReadings, WhatAnswers
<1>4. CASE Nothing
  <2>1. ~ready /\ ~ready' /\ files' = files
    BY <1>1, <1>2, <1>4, NothingMoves DEF Nothing, NoZip
  <2>2. AllTerminal(files)  BY <1>3, <2>1
  <2>3. Answers = {Answer(Statuses)} /\ Answers' = {Answer(Statuses)}'
    BY <2>1, <2>2, OneAnswer, OneAnswerPrimed
  <2>4. Answer(Statuses)' = Answer(Statuses)
    BY <2>1 DEF Answer, Statuses, ComputedStatus
  <2> QED  BY <2>3, <2>4
<1>5. CASE ~Nothing
  <2>1. DOMAIN files = File
    BY <1>1, <1>5 DEF Beginning, TInv, MapInv
  <2>2. DOMAIN files' = File  BY <1>1, <1>2, <2>1, MapGrows
  <2>3. ASSUME NEW f \in File PROVE Undisturbed(f)' /\ Undisturbed(f) /\ Mapped(f)
    <3>1. UploadedOnce(f)'  BY <1>1, OnceStays
    <3>2. Undisturbed(f)'  BY <2>2, <3>1 DEF Undisturbed
    <3> QED  BY <1>2, <3>2, UndisturbedBefore
  <2>4. ASSUME NEW f \in File PROVE files[f] \in Terminal
    <3>1. CASE ready  BY <2>3, <3>1 DEF Mapped, NoZip
    <3>2. CASE AllTerminal(files)  BY <2>1, <3>2 DEF AllTerminal
    <3> QED  BY <1>3, <3>1, <3>2
  <2>5. ASSUME NEW f \in File PROVE files'[f] = files[f]
    <3>1. /\ Undisturbed(f)' /\ UploadedOnce(f) /\ files[f] \in {"COMPLETED", "FAILED"}
          /\ files[f] = "COMPLETED" <=> Completed(f)
      BY <2>3, <2>4 DEF Mapped, Terminal
    <3>2. CASE files'[f] = "FAILED" /\ f \in refusals  BY <3>1, <3>2, RefusedIsKnown
    <3>3. ASSUME NEW e \in events, e.u[1] = f, files'[f] = e.status, e.status \in Terminal
          PROVE files'[f] = files[f]
      BY <3>1, <3>3, ToldIsKnown DEF Terminal
    <3> QED  BY <1>2, <2>4, <3>1, <3>2, <3>3, EntryMoves
  <2>6. Statuses' = Statuses  BY <2>1, <2>2, <2>5 DEF Statuses
  <2>7. AllTerminal(files) /\ AllTerminal(files)'
    BY <2>1, <2>2, <2>4, <2>5 DEF AllTerminal
  <2>8. Answers = {Answer(Statuses)} /\ Answers' = {Answer(Statuses)}'
    BY <2>7, OneAnswer, OneAnswerPrimed
  <2>9. ASSUME "COMPLETED" \in Statuses PROVE ready /\ ready'
    <3>1. ready  BY <2>8, <2>9, WhatAnswers DEF Final
    <3>2. PICK f \in File : files[f] = "COMPLETED"  BY <2>1, <2>9 DEF Statuses
    <3>3. Zipped(f)  BY <2>3, <3>2 DEF Mapped
    <3> QED  BY <1>1, <3>1, <3>3, ReadyStays
  <2>10. Answer(Statuses)' = Answer(Statuses)
    <3>1. ComputedStatus(Statuses)' = ComputedStatus(Statuses)
      BY <2>6 DEF ComputedStatus
    <3>2. ComputedStatus(Statuses) \in WithResults => ready /\ ready'
      BY <2>9, WhatAnswers
    <3> QED  BY <3>1, <3>2 DEF Answer
  <2> QED  BY <2>8, <2>10
<1> QED  BY <1>4, <1>5

(* An answer that sends the caller to the results, or a FAILED made of the *)
(* map alone, does not change afterwards, while the rows, the map and the  *)
(* flag it is made of change one by one.                                   *)
THEOREM FinalAnswer == Spec => AnswerIsFinal
<1>1. IInv /\ [Next]_vars =>
        [/\ pre.at = "done" /\ pre'.at = "done" /\ ~disturbed'
         /\ \A f \in File : UploadedOnce(f)
         => \A answer \in Answers :
              answer \in WithResults \/ (answer = "FAILED" /\ AllTerminal(files))
                => Answers' = {answer}]_vars
  BY FinalStays
<1> QED  BY <1>1, Invariance, PTL DEF Spec, AnswerIsFinal

=============================================================================
