--------------------------- MODULE MalwareGateProofs ---------------------------
(***************************************************************************)
(* What holds at the malware gate for any number of invocations, uploads,  *)
(* repeated events and faults.                                             *)
(*                                                                         *)
(* The invariant is proved in three parts, each by the actions that move   *)
(* its variables: the row, the invocations, and everything else.           *)
(***************************************************************************)
EXTENDS MalwareGate, FiniteSetTheorems, TLAPS

Judging == {"read", "lost", "late", "admitted", "unsent"}
Status == {"none", "MALWARE_SCANNING", "QUEUED", "RUNNING", "FAILED"} \cup Refused
Row == [status : Status, version : 0..MaxUploads, verdict : 0..MaxUploads]
At == {"idle", "created"} \cup Judging
Invocation == [at : At, v : 0..MaxUploads, pinned : BOOLEAN]

(* A held row has its version; so has a row queued by a verdict, which an  *)
(* undo may hold again.                                                    *)
RowInv ==
  /\ row \in Row
  /\ row.status = "MALWARE_SCANNING" => scanning /\ row.version \in Version
  /\ row.status = "QUEUED" /\ row.verdict # 0 => scanning /\ row.version \in Version

(* An invocation works on an upload that was made, one with a verdict has  *)
(* its result, only a refusal is applied late, and one that created a row  *)
(* to be queued has no gate before it.                                     *)
Knows(w) ==
  /\ w.at # "idle" => w.v \in 1..uploads
  /\ w.at = "created" => ~scanning
  /\ w.at = "late" => Refusing(w.v)
  /\ w.at \in Judging => result[w.v] # "none"

WorkerInv == worker \in [Worker -> Invocation] /\ \A p \in Worker : Knows(worker[p])

BucketInv ==
  /\ scanning \in BOOLEAN
  /\ uploads \in 0..MaxUploads
  /\ result \in [Version -> {"none", "clean"} \cup Refused]

EventInv ==
  /\ notices \subseteq 1..uploads
  /\ verdicts \subseteq {v \in 1..uploads : result[v] # "none"}

CountInv ==
  /\ msgs \in Nat
  /\ api \in {"idle", "checked", "created"}
  /\ repeats \in 0..MaxRepeats
  /\ faults \in 0..MaxFaults
  /\ credit \in Int
  /\ stranded \in BOOLEAN
  /\ overtaken \in BOOLEAN

TInv == RowInv /\ WorkerInv /\ BucketInv /\ EventInv /\ CountInv

LEMMA TInvIsTyped == TInv => TypeOK
BY DEF TInv, RowInv, WorkerInv, BucketInv, EventInv, CountInv, TypeOK, Row, Status,
       Invocation, At, Judging, rowHistory

LEMMA InitTInv == Init => TInv
<1> SUFFICES ASSUME Init PROVE TInv  OBVIOUS
<1>1. 0 \in 0..MaxUploads /\ 0 \in 0..MaxRepeats /\ 0 \in 0..MaxFaults
  BY GateAssumption DEF GateAssumption
<1>2. RowInv  BY <1>1 DEF Init, RowInv, Row, Status
<1>3. WorkerInv  BY <1>1 DEF Init, WorkerInv, Knows, Invocation, At, Judging, Idle
<1>4. BucketInv /\ EventInv  BY <1>1 DEF Init, BucketInv, EventInv
<1>5. /\ msgs \in Nat /\ api \in {"idle", "checked", "created"}
      /\ repeats \in 0..MaxRepeats /\ faults \in 0..MaxFaults /\ credit \in Int
  BY <1>1 DEF Init
<1>6. stranded \in BOOLEAN /\ overtaken \in BOOLEAN  BY Zenon DEF Init
<1>7. CountInv  BY <1>5, <1>6, Zenon DEF CountInv
<1> QED  BY <1>2, <1>3, <1>4, <1>7 DEF TInv

-----------------------------------------------------------------------------
(* Uploads are only added and a result stays what it is; nobody turns the  *)
(* gate on or off.                                                         *)
LEMMA BucketStep ==
  ASSUME TInv, [Next]_vars
  PROVE  /\ BucketInv'
         /\ scanning' = scanning
         /\ uploads' >= uploads
         /\ \A v \in Version : result[v] # "none" => result'[v] = result[v]
<1> USE DEF TInv, BucketInv
<1>1. CASE Upload
  BY <1>1, GateAssumption DEF Upload, GateAssumption
<1>2. ASSUME NEW v \in Version, Scan(v) PROVE BucketInv' /\ scanning' = scanning
        /\ uploads' = uploads /\ \A w \in Version : result[w] # "none" => result'[w] = result[w]
  BY <1>2 DEF Scan
<1>3. CASE UNCHANGED bucket  BY <1>3 DEF bucket
<1>4. Upload \/ (\E v \in Version : Scan(v)) \/ UNCHANGED bucket
  BY DEF Next, WorkerSteps, Fails, Takes, vars, RejectUpload, HoldUpload, CreateQueued,
     ReadForVerdict, SendUpload, SendUploadFails, Admit, Refuse, LoseTheWrite,
     ClassifyLostWrite, RefuseLate, RefuseLateFails, SendAdmitted, SendAdmittedFails, Revert,
     RevertFails, Crash, Process, CheckReprocess, CreateReprocess, SendReprocess,
     SendReprocessFails
<1> QED  BY <1>1, <1>2, <1>3, <1>4

(* Who moves the row.                                                      *)
RowMove ==
  \/ \E p \in Worker, v \in Version :
       RejectUpload(p, v) \/ HoldUpload(p, v) \/ CreateQueued(p, v)
  \/ \E p \in Worker : Admit(p) \/ Refuse(p) \/ RefuseLate(p) \/ Revert(p)
  \/ Process
  \/ CreateReprocess

LEMMA RowMoves == [Next]_vars => RowMove \/ UNCHANGED row
BY DEF RowMove, Next, WorkerSteps, Fails, Takes, vars, gate, Upload, Scan, ReadForVerdict,
   SendUpload, SendUploadFails, LoseTheWrite, ClassifyLostWrite, RefuseLateFails, SendAdmitted,
   SendAdmittedFails, RevertFails, Crash, CheckReprocess, SendReprocess, SendReprocessFails

LEMMA CreatedRow ==
  ASSUME NEW s \in Status, NEW v \in 0..MaxUploads, CreateRow(s, v)
  PROVE  row' \in Row /\ row'.status = s /\ row'.version = v /\ row'.verdict = 0
BY GateAssumption DEF GateAssumption, CreateRow, Row

LEMMA RuledRow ==
  ASSUME row \in Row, NEW s \in Status, NEW v \in 0..MaxUploads, Rule(v, s)
  PROVE  row' \in Row /\ row'.status = s /\ row'.version = row.version /\ row'.verdict = v
BY DEF Rule, Row

(* An upload in the hands of an invocation with a verdict has a result.    *)
LEMMA VerdictIsKnown ==
  ASSUME TInv, NEW p \in Worker, worker[p].at \in Judging
  PROVE  /\ worker[p].v \in Version
         /\ result[worker[p].v] \in {"clean"} \cup Refused
<1>1. worker[p].v \in 1..uploads /\ result[worker[p].v] # "none"
  BY DEF TInv, WorkerInv, Knows, Judging
<1>2. worker[p].v \in Version
  BY <1>1, GateAssumption DEF GateAssumption, TInv, BucketInv, Version
<1> QED  BY <1>1, <1>2 DEF TInv, BucketInv

LEMMA RowStep == ASSUME TInv, [Next]_vars PROVE RowInv'
<1>1. /\ row \in Row /\ scanning' = scanning
      /\ \A v \in Version : v \in 0..MaxUploads
      /\ 0 \in 0..MaxUploads
  BY BucketStep, GateAssumption DEF GateAssumption, TInv, RowInv, Version
<1>2. CASE UNCHANGED row  BY <1>1, <1>2 DEF TInv, RowInv
<1>3. ASSUME NEW p \in Worker, NEW v \in Version, RejectUpload(p, v) PROVE RowInv'
  <2>1. CreateRow("FAILED", 0)  BY <1>3 DEF RejectUpload
  <2> QED  BY <1>1, <2>1, CreatedRow DEF RowInv, Status
<1>4. ASSUME NEW p \in Worker, NEW v \in Version, HoldUpload(p, v) PROVE RowInv'
  <2>1. CreateRow("MALWARE_SCANNING", v) /\ scanning  BY <1>4 DEF HoldUpload
  <2> QED  BY <1>1, <2>1, CreatedRow DEF RowInv, Status
<1>5. ASSUME NEW p \in Worker, NEW v \in Version, CreateQueued(p, v) PROVE RowInv'
  <2>1. CreateRow("QUEUED", 0)  BY <1>5 DEF CreateQueued
  <2> QED  BY <1>1, <2>1, CreatedRow DEF RowInv, Status
<1>6. ASSUME NEW p \in Worker, Admit(p) PROVE RowInv'
  <2>1. Rule(worker[p].v, "QUEUED") /\ worker[p].at \in Judging
        /\ row.status = "MALWARE_SCANNING"
    BY <1>6 DEF Admit, Judging, AwaitsVerdict
  <2>2. scanning /\ row.version \in Version  BY <2>1 DEF TInv, RowInv
  <2>3. worker[p].v \in 0..MaxUploads  BY <2>1, <1>1, VerdictIsKnown
  <2> QED  BY <1>1, <2>1, <2>2, <2>3, RuledRow DEF RowInv, Status
<1>7. ASSUME NEW p \in Worker, Refuse(p) \/ RefuseLate(p) PROVE RowInv'
  <2>1. Rule(worker[p].v, result[worker[p].v]) /\ worker[p].at \in Judging
    BY <1>7 DEF Refuse, RefuseLate, Judging
  <2>2. Refusing(worker[p].v)
    BY <1>7 DEF Refuse, RefuseLate, TInv, WorkerInv, Knows
  <2>3. worker[p].v \in 0..MaxUploads  BY <2>1, <1>1, VerdictIsKnown
  <2> QED  BY <1>1, <2>1, <2>2, <2>3, RuledRow DEF RowInv, Status, Refusing, Refused
<1>8. ASSUME NEW p \in Worker, Revert(p) PROVE RowInv'
  <2>1. CASE ~StillThisAdmission(p)  BY <1>2, <1>8, <2>1 DEF Revert
  <2>2. CASE StillThisAdmission(p)
    <3>1. row' = [row EXCEPT !.status = "MALWARE_SCANNING"] /\ worker[p].at \in Judging
      BY <1>8, <2>2 DEF Revert, Judging
    <3>2. row.status = "QUEUED" /\ row.verdict # 0
      BY <2>2, <3>1, VerdictIsKnown DEF StillThisAdmission, Version
    <3>3. scanning /\ row.version \in Version  BY <3>2 DEF TInv, RowInv
    <3> QED  BY <1>1, <3>1, <3>3 DEF RowInv, Row, Status
  <2> QED  BY <2>1, <2>2
<1>9. CASE Process
  BY <1>1, <1>9 DEF Process, RowInv, Row, Status
<1>10. CASE CreateReprocess
  <2>1. CreateRow("QUEUED", 0)  BY <1>10 DEF CreateReprocess
  <2> QED  BY <1>1, <2>1, CreatedRow DEF RowInv, Status
<1> QED
  BY <1>2, <1>3, <1>4, <1>5, <1>6, <1>7, <1>8, <1>9, <1>10, RowMoves DEF RowMove

-----------------------------------------------------------------------------
(* What an invocation knows stays true.                                    *)
LEMMA StillKnows ==
  ASSUME TInv, [Next]_vars, NEW w \in Invocation, Knows(w)
  PROVE  Knows(w)'
<1>1. /\ uploads \in 0..MaxUploads /\ uploads' \in 0..MaxUploads
      /\ uploads' >= uploads /\ scanning' = scanning
      /\ \A v \in Version : result[v] # "none" => result'[v] = result[v]
  BY BucketStep DEF TInv, BucketInv
<1>2. w.at # "idle" => w.v \in 1..uploads' /\ w.v \in Version
  BY <1>1, GateAssumption DEF GateAssumption, Knows, Version
<1> QED  BY <1>1, <1>2 DEF Knows, Refusing, Refused, Judging

LEMMA WorkerKeeps ==
  ASSUME TInv, [Next]_vars, UNCHANGED worker
  PROVE  WorkerInv'
<1>1. worker \in [Worker -> Invocation] /\ \A p \in Worker : Knows(worker[p])
  BY DEF TInv, WorkerInv
<1>2. ASSUME NEW p \in Worker PROVE Knows(worker[p])'
  <2>1. worker[p] \in Invocation /\ Knows(worker[p])  BY <1>1
  <2>2. worker'[p] = worker[p]  OBVIOUS
  <2> QED  BY <2>1, <2>2, StillKnows DEF Knows, Refusing
<1> QED  BY <1>1, <1>2 DEF WorkerInv

LEMMA WorkerSets ==
  ASSUME TInv, [Next]_vars, NEW p \in Worker, NEW w \in Invocation,
         worker' = [worker EXCEPT ![p] = w], Knows(w)
  PROVE  WorkerInv'
<1>1. worker \in [Worker -> Invocation] /\ \A q \in Worker : Knows(worker[q])
  BY DEF TInv, WorkerInv
<1>2. worker' \in [Worker -> Invocation]  BY <1>1
<1>3. ASSUME NEW q \in Worker PROVE Knows(worker[q])'
  <2>1. worker'[q] \in {w, worker[q]} /\ worker[q] \in Invocation  BY <1>1
  <2>2. CASE worker'[q] = w  BY <2>2, StillKnows DEF Knows, Refusing
  <2>3. CASE worker'[q] = worker[q]
    BY <1>1, <2>1, <2>3, StillKnows DEF Knows, Refusing
  <2> QED  BY <2>1, <2>2, <2>3
<1> QED  BY <1>2, <1>3 DEF WorkerInv

LEMMA IdleInvocation == Idle \in Invocation /\ Idle.at = "idle" /\ Knows(Idle)
BY GateAssumption DEF GateAssumption, Idle, Invocation, At, Judging, Knows

LEMMA EndsKnows ==
  ASSUME TInv, [Next]_vars, NEW p \in Worker, Ends(p)
  PROVE  WorkerInv'
BY IdleInvocation, WorkerSets DEF Ends

LEMMA GoesKnows ==
  ASSUME TInv, [Next]_vars, NEW p \in Worker, worker[p].at \in Judging,
         NEW at \in Judging, at = "late" => Refusing(worker[p].v), Goes(p, at)
  PROVE  WorkerInv'
<1> DEFINE w == [worker[p] EXCEPT !.at = at]
<1>1. worker[p] \in Invocation /\ Knows(worker[p])  BY DEF TInv, WorkerInv
<1>2. w \in Invocation /\ w.at = at /\ w.v = worker[p].v
  BY <1>1 DEF Invocation, At
<1>3. worker' = [worker EXCEPT ![p] = w]  BY <1>1 DEF Goes, TInv, WorkerInv
<1> HIDE DEF w
<1>4. Knows(w)  BY <1>1, <1>2 DEF Knows, Judging
<1> QED  BY <1>2, <1>3, <1>4, WorkerSets

(* Who moves an invocation.                                                *)
WorkerMove ==
  \/ \E p \in Worker, v \in Version : CreateQueued(p, v) \/ ReadForVerdict(p, v)
  \/ \E p \in Worker : Admit(p) \/ LoseTheWrite(p) \/ ClassifyLostWrite(p) \/ SendAdmittedFails(p)
  \/ \E p \in Worker : Ends(p)

LEMMA WorkerMoves == [Next]_vars => WorkerMove \/ UNCHANGED worker
BY DEF WorkerMove, Next, WorkerSteps, Fails, Takes, vars, Upload, Scan, RejectUpload, HoldUpload,
   SendUpload, SendUploadFails, Refuse, RefuseLate, RefuseLateFails, SendAdmitted, Revert,
   RevertFails, Crash, Process, CheckReprocess, CreateReprocess, SendReprocess,
   SendReprocessFails

LEMMA WorkerStep == ASSUME TInv, [Next]_vars PROVE WorkerInv'
<1>1. ASSUME NEW p \in Worker, NEW v \in Version, CreateQueued(p, v) PROVE WorkerInv'
  <2> DEFINE w == [Idle EXCEPT !.at = "created", !.v = v]
  <2>1. v \in 0..MaxUploads  BY GateAssumption DEF GateAssumption, Version
  <2>2. w \in Invocation /\ w.at = "created" /\ w.v = v
    BY <2>1, IdleInvocation DEF Invocation, At
  <2>3. worker' = [worker EXCEPT ![p] = w]  BY <1>1 DEF CreateQueued
  <2> HIDE DEF w
  <2>4. Knows(w)  BY <1>1, <2>2 DEF CreateQueued, Knows, TInv, EventInv, Judging
  <2> QED  BY <2>2, <2>3, <2>4, WorkerSets
<1>2. ASSUME NEW p \in Worker, NEW v \in Version, ReadForVerdict(p, v) PROVE WorkerInv'
  <2> DEFINE w == [at |-> "read", v |-> v, pinned |-> row.version # 0]
  <2>1. w \in Invocation
    BY GateAssumption DEF GateAssumption, Version, Invocation, At, Judging
  <2>2. v \in 1..uploads /\ result[v] # "none"
    BY <1>2 DEF ReadForVerdict, TInv, EventInv
  <2>3. Knows(w)  BY <2>2 DEF Knows
  <2>4. worker' = [worker EXCEPT ![p] = w]  BY <1>2 DEF ReadForVerdict
  <2> QED  BY <2>1, <2>3, <2>4, WorkerSets
<1>3. ASSUME NEW p \in Worker,
             Admit(p) \/ LoseTheWrite(p) \/ ClassifyLostWrite(p) \/ SendAdmittedFails(p)
      PROVE WorkerInv'
  <2>1. \/ Ends(p)
        \/ /\ worker[p].at \in Judging
           /\ \E at \in Judging : Goes(p, at) /\ (at = "late" => Refusing(worker[p].v))
    BY <1>3 DEF Admit, LoseTheWrite, ClassifyLostWrite, SendAdmittedFails, UnappliedRefusal,
       Judging
  <2> QED  BY <2>1, EndsKnows, GoesKnows
<1> QED  BY <1>1, <1>2, <1>3, EndsKnows, WorkerKeeps, WorkerMoves DEF WorkerMove

-----------------------------------------------------------------------------
(* An event to be delivered is of an upload, and a verdict of a result.    *)
LEMMA EventStep == ASSUME TInv, [Next]_vars PROVE EventInv'
<1>1. /\ uploads \in 0..MaxUploads /\ uploads' \in 0..MaxUploads
      /\ uploads' >= uploads
      /\ \A v \in Version : result[v] # "none" => result'[v] = result[v]
  BY BucketStep DEF TInv, BucketInv
<1>2. /\ 1..uploads \subseteq 1..uploads'
      /\ {v \in 1..uploads : result[v] # "none"} \subseteq {v \in 1..uploads' : result'[v] # "none"}
  <2>1. 1..uploads \subseteq 1..uploads' /\ 1..uploads \subseteq Version
    BY <1>1, GateAssumption DEF GateAssumption, Version
  <2> QED  BY <1>1, <2>1
<1>3. notices \subseteq 1..uploads' /\ verdicts \subseteq {v \in 1..uploads' : result'[v] # "none"}
  BY <1>2 DEF TInv, EventInv
<1>4. ASSUME NEW p \in Worker, worker[p].at # "idle"
      PROVE worker[p].v \in 1..uploads'
            /\ (worker[p].at \in Judging => worker[p].v \in {v \in 1..uploads' : result'[v] # "none"})
  BY <1>2, <1>4 DEF TInv, WorkerInv, Knows, Judging
<1>5. CASE Upload
  <2>1. uploads' \in 1..uploads'  BY <1>1, <1>5 DEF Upload
  <2> QED  BY <1>3, <1>5, <2>1 DEF Upload, EventInv
<1>6. ASSUME NEW v \in Version, Scan(v) PROVE EventInv'
  <2>1. v \in 1..uploads' /\ result'[v] # "none"
    BY <1>1, <1>6 DEF Scan, Version, Refused, TInv, BucketInv
  <2> QED  BY <1>3, <1>6, <2>1 DEF Scan, EventInv
<1>7. ASSUME NEW p \in Worker, NEW v \in Version, Takes(p, v) PROVE EventInv'
  <2>1. notices' \subseteq notices /\ verdicts' \subseteq verdicts
    BY <1>7 DEF Takes, RejectUpload, HoldUpload, CreateQueued, ReadForVerdict, Handled
  <2> QED  BY <1>3, <2>1 DEF EventInv
<1>8. ASSUME NEW p \in Worker, SendUploadFails(p) PROVE EventInv'
  <2>1. worker[p].v \in 1..uploads'  BY <1>4, <1>8 DEF SendUploadFails
  <2> QED  BY <1>3, <1>8, <2>1 DEF SendUploadFails, EventInv
<1>9. ASSUME NEW p \in Worker, Revert(p) \/ RevertFails(p) \/ Crash(p) PROVE EventInv'
  <2>1. worker[p].at \in Judging
    BY <1>9 DEF Revert, RevertFails, Crash, TInv, WorkerInv, Invocation, At, Judging
  <2>2. worker[p].v \in {v \in 1..uploads' : result'[v] # "none"}
    BY <1>4, <2>1 DEF Judging
  <2>3. notices' = notices /\ verdicts' = verdicts \cup {worker[p].v}
    BY <1>9 DEF Revert, RevertFails, Crash
  <2> QED  BY <1>3, <2>2, <2>3 DEF EventInv
<1>10. CASE UNCHANGED <<notices, verdicts>>  BY <1>3, <1>10 DEF EventInv
<1> QED
  BY <1>5, <1>6, <1>7, <1>8, <1>9, <1>10
  DEF Next, WorkerSteps, Fails, vars, deliveries, SendUpload, Admit, Refuse, LoseTheWrite,
     ClassifyLostWrite, RefuseLate, RefuseLateFails, SendAdmitted, SendAdmittedFails, Process,
     CheckReprocess, CreateReprocess, SendReprocess, SendReprocessFails

-----------------------------------------------------------------------------
LEMMA CountsStep ==
  ASSUME TInv, [Next]_vars
  PROVE  /\ msgs' \in Nat /\ api' \in {"idle", "checked", "created"}
         /\ repeats' \in 0..MaxRepeats /\ faults' \in 0..MaxFaults /\ credit' \in Int
<1>1. /\ msgs \in Nat /\ api \in {"idle", "checked", "created"}
      /\ repeats \in 0..MaxRepeats /\ faults \in 0..MaxFaults /\ credit \in Int
      /\ MaxRepeats \in Nat /\ MaxFaults \in Nat
  BY GateAssumption DEF GateAssumption, TInv, CountInv
<1>2. msgs' \in {msgs, msgs + 1} \/ (msgs > 0 /\ msgs' = msgs - 1)
  BY DEF Next, WorkerSteps, Fails, Takes, vars, Upload, Scan, RejectUpload, HoldUpload,
     CreateQueued, ReadForVerdict, SendUpload, SendUploadFails, Admit, Refuse, LoseTheWrite,
     ClassifyLostWrite, RefuseLate, RefuseLateFails, SendAdmitted, SendAdmittedFails, Revert,
     RevertFails, Crash, Process, CheckReprocess, CreateReprocess, SendReprocess,
     SendReprocessFails, SendToQueue
<1>3. api' \in {api, "idle", "checked", "created"}
  BY DEF Next, WorkerSteps, Fails, Takes, vars, Upload, Scan, RejectUpload, HoldUpload,
     CreateQueued, ReadForVerdict, SendUpload, SendUploadFails, Admit, Refuse, LoseTheWrite,
     ClassifyLostWrite, RefuseLate, RefuseLateFails, SendAdmitted, SendAdmittedFails, Revert,
     RevertFails, Crash, Process, CheckReprocess, CreateReprocess, SendReprocess,
     SendReprocessFails
<1>4. repeats' = repeats \/ Repeat
  BY DEF Next, WorkerSteps, Fails, Takes, vars, deliveries, Upload, Scan, RejectUpload,
     HoldUpload, CreateQueued, ReadForVerdict, SendUpload, SendUploadFails, Admit, Refuse,
     LoseTheWrite, ClassifyLostWrite, RefuseLate, RefuseLateFails, SendAdmitted,
     SendAdmittedFails, Revert, RevertFails, Crash, Process, CheckReprocess, CreateReprocess,
     SendReprocess, SendReprocessFails, Handled
<1>5. faults' = faults \/ Fault
  BY DEF Next, WorkerSteps, Fails, Takes, vars, Upload, Scan, RejectUpload, HoldUpload,
     CreateQueued, ReadForVerdict, SendUpload, SendUploadFails, Admit, Refuse, LoseTheWrite,
     ClassifyLostWrite, RefuseLate, RefuseLateFails, SendAdmitted, SendAdmittedFails, Revert,
     RevertFails, Crash, Process, CheckReprocess, CreateReprocess, SendReprocess,
     SendReprocessFails
<1>6. credit' \in {credit, credit + 1, credit - 1}
  BY DEF Next, WorkerSteps, Fails, Takes, vars, gate, Upload, Scan, RejectUpload, HoldUpload,
     CreateQueued, ReadForVerdict, SendUpload, SendUploadFails, Admit, Refuse, LoseTheWrite,
     ClassifyLostWrite, RefuseLate, RefuseLateFails, SendAdmitted, SendAdmittedFails, Revert,
     RevertFails, Crash, Process, CheckReprocess, CreateReprocess, SendReprocess,
     SendReprocessFails
<1> QED  BY <1>1, <1>2, <1>3, <1>4, <1>5, <1>6 DEF Repeat, Fault

(* A truth value that is written is one.                                   *)
LEMMA HistoryStep ==
  ASSUME TInv, [Next]_vars
  PROVE  stranded' \in BOOLEAN /\ overtaken' \in BOOLEAN
<1>1. stranded \in BOOLEAN /\ overtaken \in BOOLEAN  BY Zenon DEF TInv, CountInv
<1>3. ASSUME NEW s, NEW v, CreateRow(s, v)
      PROVE stranded' \in BOOLEAN /\ overtaken' \in BOOLEAN
  BY <1>3, Zenon DEF CreateRow
<1>4. ASSUME NEW p \in Worker, Admit(p)
      PROVE stranded' \in BOOLEAN /\ overtaken' \in BOOLEAN
  BY <1>1, <1>4, Zenon DEF Admit
<1>5. ASSUME NEW p \in Worker, SendUploadFails(p)
      PROVE stranded' \in BOOLEAN /\ overtaken' \in BOOLEAN
  BY <1>1, <1>5, Zenon DEF SendUploadFails
<1>6. ASSUME NEW p \in Worker, RevertFails(p)
      PROVE stranded' \in BOOLEAN /\ overtaken' \in BOOLEAN
  BY <1>1, <1>6, Zenon DEF RevertFails
<1>7. ASSUME NEW p \in Worker, Crash(p)
      PROVE stranded' \in BOOLEAN /\ overtaken' \in BOOLEAN
  BY <1>1, <1>7, Zenon DEF Crash
<1>8. ASSUME UNCHANGED rowHistory
      PROVE stranded' \in BOOLEAN /\ overtaken' \in BOOLEAN
  BY <1>1, <1>8, Zenon DEF rowHistory
<1>9. CASE SendReprocessFails
  BY <1>1, <1>9, Zenon DEF SendReprocessFails
<1>10. \/ \E t, v : CreateRow(t, v)
       \/ \E p \in Worker : Admit(p) \/ SendUploadFails(p) \/ RevertFails(p) \/ Crash(p)
       \/ SendReprocessFails
       \/ UNCHANGED rowHistory
  BY DEF Next, WorkerSteps, Fails, Takes, vars, gate, rowHistory, Upload, Scan, RejectUpload,
     HoldUpload, CreateQueued, ReadForVerdict, SendUpload, Refuse, LoseTheWrite,
     ClassifyLostWrite, RefuseLate, RefuseLateFails, SendAdmitted, SendAdmittedFails, Revert,
     Process, CheckReprocess, CreateReprocess, SendReprocess
<1> QED  BY <1>3, <1>4, <1>5, <1>6, <1>7, <1>8, <1>9, <1>10, Zenon

-----------------------------------------------------------------------------
LEMMA TStep == TInv /\ [Next]_vars => TInv'
BY BucketStep, RowStep, WorkerStep, EventStep, CountsStep, HistoryStep, Zenon
DEF TInv, CountInv

(* The type invariant.                                                     *)
THEOREM TypeCorrect == Spec => []TypeOK
<1>1. Init => TInv  BY InitTInv
<1>2. TInv /\ [Next]_vars => TInv'  BY TStep
<1>3. TInv => TypeOK  BY TInvIsTyped
<1> QED  BY <1>1, <1>2, <1>3, PTL DEF Spec

(* Every invariant below is an invariant of the steps between typed states. *)
LEMMA TInvariant == Spec => []TInv
<1>1. Init => TInv  BY InitTInv
<1>2. TInv /\ [Next]_vars => TInv'  BY TStep
<1> QED  BY <1>1, <1>2, PTL DEF Spec

-----------------------------------------------------------------------------
LEMMA RefusalStep ==
  ASSUME TInv, [Next]_vars, row.status \in Refused, row'.status \notin Refused
  PROVE  row'.verdict = 0 \/ msgs' < msgs
<1>1. RowMove  BY RowMoves DEF RowMove
<1>2. row.status # "MALWARE_SCANNING" /\ row.status # "QUEUED"  BY DEF Refused
<1>3. ASSUME NEW p \in Worker, NEW v \in Version,
             RejectUpload(p, v) \/ HoldUpload(p, v) \/ CreateQueued(p, v)
      PROVE row'.verdict = 0
  BY <1>3 DEF RejectUpload, HoldUpload, CreateQueued, CreateRow
<1>4. ASSUME NEW p \in Worker PROVE ~Admit(p) /\ ~Refuse(p)
  BY <1>2 DEF Admit, Refuse, AwaitsVerdict
<1>5. ASSUME NEW p \in Worker PROVE ~RefuseLate(p)
  <2>1. SUFFICES ASSUME RefuseLate(p) PROVE FALSE  OBVIOUS
  <2>2. Rule(worker[p].v, result[worker[p].v]) /\ worker[p].at = "late"
    BY <2>1 DEF RefuseLate
  <2>3. Refusing(worker[p].v) /\ row \in Row
    BY <2>2 DEF TInv, RowInv, WorkerInv, Knows
  <2>4. row'.status = result[worker[p].v]  BY <2>2, <2>3 DEF Rule, Row
  <2> QED  BY <2>3, <2>4 DEF Refusing
<1>6. ASSUME NEW p \in Worker PROVE ~Revert(p)
  BY <1>2 DEF Revert, StillThisAdmission
<1>7. CASE Process  BY <1>7 DEF Process, TInv, CountInv
<1>8. CASE CreateReprocess  BY <1>8 DEF CreateReprocess, CreateRow
<1> QED  BY <1>1, <1>3, <1>4, <1>5, <1>6, <1>7, <1>8 DEF RowMove

(* A refused document is only let through by a new row or by a message     *)
(* that was in the queue: no undo of an admission and no verdict does it.  *)
THEOREM RefusalStays == Spec => RefusalIsFinal
<1>1. TInv /\ [Next]_vars => [row.status \in Refused /\ row'.status \notin Refused
                               => row'.verdict = 0 \/ msgs' < msgs]_vars
  BY RefusalStep
<1> QED  BY <1>1, TInvariant, PTL DEF Spec, RefusalIsFinal

-----------------------------------------------------------------------------
Landing(p) ==
  /\ worker[p].at \in {"read", "lost", "late"} /\ worker'[p] = Idle
  /\ Refusing(worker[p].v)
  /\ faults' = faults
  /\ row.version \in {0, worker[p].v}

(* Only its own step ends an invocation.                                   *)
LEMMA OthersKeep ==
  ASSUME TInv, NEW p \in Worker, NEW q \in Worker, q # p,
         WorkerSteps(q) \/ Fails(q) \/ \E v \in Version : Takes(q, v)
  PROVE  worker'[p] = worker[p]
<1>1. worker \in [Worker -> Invocation]  BY DEF TInv, WorkerInv
<1>2. worker' = worker \/ \E w : worker' = [worker EXCEPT ![q] = w]
  BY DEF WorkerSteps, Fails, Takes, RejectUpload, HoldUpload, CreateQueued, ReadForVerdict,
     SendUpload, SendUploadFails, Admit, Refuse, LoseTheWrite, ClassifyLostWrite, RefuseLate,
     RefuseLateFails, SendAdmitted, SendAdmittedFails, Revert, RevertFails, Crash, Goes, Ends
<1> QED  BY <1>1, <1>2

LEMMA OwnStepEnds ==
  ASSUME TInv, [Next]_vars, NEW p \in Worker, Landing(p)
  PROVE  Refuse(p) \/ ClassifyLostWrite(p) \/ RefuseLate(p)
<1>1. worker \in [Worker -> Invocation] /\ worker[p].at # "idle" /\ faults \in Nat
  BY GateAssumption DEF GateAssumption, Landing, TInv, WorkerInv, CountInv
<1>2. worker[p] # Idle /\ worker'[p].at = "idle" /\ worker'[p] # worker[p]
  BY <1>1, IdleInvocation DEF Landing
<1>3. ASSUME NEW q \in Worker, WorkerSteps(q) \/ Fails(q) \/ \E v \in Version : Takes(q, v)
      PROVE q = p
  BY <1>2, <1>3, OthersKeep
<1>4. WorkerSteps(p) \/ Fails(p) \/ \E v \in Version : Takes(p, v)
  <2>1. worker' # worker  BY <1>2
  <2>2. \/ \E q \in Worker : WorkerSteps(q) \/ Fails(q)
        \/ \E q \in Worker, v \in Version : Takes(q, v)
    BY <2>1 DEF Next, vars, Upload, Scan, Process, CheckReprocess, CreateReprocess,
       SendReprocess, SendReprocessFails
  <2> QED  BY <1>3, <2>2
<1>5. ~\E v \in Version : Takes(p, v)
  BY <1>1, <1>2 DEF Takes, RejectUpload, HoldUpload, CreateQueued, ReadForVerdict
<1>6. ~Fails(p)
  BY <1>1 DEF Landing, Fails, SendUploadFails, RefuseLateFails, SendAdmittedFails, RevertFails,
     Crash, Fault
<1>7. ASSUME NEW at \in {"lost", "admitted"}, Goes(p, at) PROVE FALSE
  <2>1. worker'[p] = [worker[p] EXCEPT !.at = at]  BY <1>1, <1>7 DEF Goes
  <2>2. worker[p] \in Invocation  BY <1>1
  <2>3. worker'[p].at = at  BY <2>1, <2>2 DEF Invocation
  <2> QED  BY <1>2, <2>3
<1>8. ~SendUpload(p) /\ ~SendAdmitted(p) /\ ~Revert(p)
  BY DEF Landing, SendUpload, SendAdmitted, Revert
<1>9. ~Admit(p) /\ ~LoseTheWrite(p)  BY <1>7 DEF Admit, LoseTheWrite
<1> QED  BY <1>4, <1>5, <1>6, <1>8, <1>9 DEF WorkerSteps

LEMMA LandingStep ==
  ASSUME TInv, [Next]_vars, NEW p \in Worker, Landing(p)
  PROVE  row'.status \in Refused
<1>1. row \in Row  BY DEF TInv, RowInv
<1>2. CASE Refuse(p) \/ RefuseLate(p)
  <2>1. row'.status = result[worker[p].v]
    BY <1>1, <1>2 DEF Refuse, RefuseLate, Rule, Row
  <2> QED  BY <2>1 DEF Landing, Refusing
<1>3. CASE ClassifyLostWrite(p)
  <2>1. ~UnappliedRefusal(p)
    <3>1. SUFFICES ASSUME Goes(p, "late") PROVE FALSE
      BY <1>3 DEF ClassifyLostWrite
    <3>2. worker[p] \in Invocation /\ worker'[p] = [worker[p] EXCEPT !.at = "late"]
      BY <3>1 DEF Goes, TInv, WorkerInv
    <3>3. worker'[p].at = "late"  BY <3>2 DEF Invocation
    <3> QED  BY <3>3, IdleInvocation DEF Landing
  <2>2. Superseded(p) \/ row.status \in Refused
    BY <2>1 DEF UnappliedRefusal, Landing
  <2>3. ~Superseded(p)
    <3>1. SUFFICES ASSUME row.status = "MALWARE_SCANNING" PROVE row.version = worker[p].v
      BY DEF Superseded
    <3>2. row.version \in 1..MaxUploads  BY <3>1 DEF TInv, RowInv, Version
    <3> QED  BY <3>2, GateAssumption DEF GateAssumption, Landing
  <2>4. row' = row  BY <1>3 DEF ClassifyLostWrite, gate
  <2> QED  BY <2>2, <2>3, <2>4
<1> QED  BY <1>2, <1>3, OwnStepEnds

(* A refusing verdict that is handled to the end without a fault leaves    *)
(* the row of its own upload, or a row without one, refused: the write     *)
(* that is lost to another event is made good.                             *)
THEOREM RefusalLands == Spec => OwnRefusalLands
<1>1. TInv /\ [Next]_vars =>
        [\A p \in Worker :
           /\ worker[p].at \in {"read", "lost", "late"} /\ worker'[p] = Idle
           /\ Refusing(worker[p].v)
           /\ faults' = faults
           /\ row.version \in {0, worker[p].v}
           => row'.status \in Refused]_vars
  BY LandingStep DEF Landing
<1> QED  BY <1>1, TInvariant, PTL DEF Spec, OwnRefusalLands

-----------------------------------------------------------------------------
(* A gate that is still closed, and every invocation that has opened it    *)
(* and not yet sent or undone, is a message that a verdict may yet send:   *)
(* the credit covers them all.                                             *)
Holding == {p \in Worker : worker[p].at \in {"admitted", "unsent"}}
Closed == IF row.status = "MALWARE_SCANNING" THEN 1 ELSE 0
CreditCovers == credit >= Cardinality(Holding) + Closed

LEMMA HoldingIsFinite ==
  /\ IsFiniteSet(Holding) /\ Cardinality(Holding) \in Nat
  /\ IsFiniteSet(Holding') /\ Cardinality(Holding') \in Nat
<1>1. Holding \subseteq Worker /\ Holding' \subseteq Worker  BY DEF Holding
<1> QED  BY <1>1, GateAssumption, FS_Subset, FS_CardinalityType DEF GateAssumption

LEMMA FewerHold ==
  ASSUME Holding' \subseteq Holding
  PROVE  Cardinality(Holding)' <= Cardinality(Holding)
BY HoldingIsFinite, FS_Subset

LEMMA OneLetsGo ==
  ASSUME NEW p \in Holding, Holding' \subseteq Holding \ {p}
  PROVE  Cardinality(Holding)' + 1 <= Cardinality(Holding)
<1>1. IsFiniteSet(Holding \ {p}) /\ Cardinality(Holding \ {p}) = Cardinality(Holding) - 1
  BY HoldingIsFinite, FS_RemoveElement
<1>2. Cardinality(Holding)' <= Cardinality(Holding \ {p})
  BY <1>1, FS_Subset
<1> QED  BY <1>1, <1>2, HoldingIsFinite

LEMMA OneMoreHolds ==
  ASSUME NEW p, Holding' \subseteq Holding \cup {p}
  PROVE  Cardinality(Holding)' <= Cardinality(Holding) + 1
<1>1. IsFiniteSet(Holding \cup {p}) /\ Cardinality(Holding \cup {p}) <= Cardinality(Holding) + 1
  BY HoldingIsFinite, FS_AddElement
<1>2. Cardinality(Holding)' <= Cardinality(Holding \cup {p})
  BY <1>1, FS_Subset
<1>3. Cardinality(Holding \cup {p}) \in Nat  BY <1>1, FS_CardinalityType
<1> QED  BY <1>1, <1>2, <1>3, HoldingIsFinite

(* An invocation that ends, or goes anywhere but to an admission, adds     *)
(* nothing to the holders.                                                 *)
LEMMA HoldingSet ==
  ASSUME TInv, NEW p \in Worker, NEW w, worker' = [worker EXCEPT ![p] = w],
         w.at \notin {"admitted", "unsent"}
  PROVE  Holding' \subseteq Holding \ {p}
BY DEF TInv, WorkerInv, Holding

LEMMA HoldingGoes ==
  ASSUME TInv, NEW p \in Worker, NEW at, Goes(p, at)
  PROVE  /\ Holding' \subseteq Holding \cup {p}
         /\ at \notin {"admitted", "unsent"} => Holding' \subseteq Holding \ {p}
<1>1. worker \in [Worker -> Invocation] /\ worker[p] \in Invocation  BY DEF TInv, WorkerInv
<1>2. worker'[p].at = at /\ \A q \in Worker : q # p => worker'[q] = worker[q]
  BY <1>1 DEF Goes, Invocation
<1> QED  BY <1>2 DEF Holding

LEMMA HoldingEnds ==
  ASSUME TInv, NEW p \in Worker, Ends(p)
  PROVE  Holding' \subseteq Holding \ {p}
BY IdleInvocation, HoldingSet DEF Ends

LEMMA CreditStep == TInv /\ CreditCovers /\ [Next]_vars => CreditCovers'
<1> SUFFICES ASSUME TInv, CreditCovers, [Next]_vars PROVE CreditCovers'  OBVIOUS
<1>1. /\ credit \in Int /\ credit' \in Int
      /\ Cardinality(Holding) \in Nat /\ Cardinality(Holding)' \in Nat
      /\ Closed \in {0, 1} /\ Closed' \in {0, 1}
      /\ credit >= Cardinality(Holding) + Closed
  BY HoldingIsFinite, CountsStep DEF TInv, CountInv, Closed, CreditCovers
<1>2. ASSUME credit' = credit, Holding' \subseteq Holding, Closed' <= Closed
      PROVE CreditCovers'
  BY <1>1, <1>2, FewerHold DEF CreditCovers
<1>3. ASSUME NEW p \in Worker, NEW v \in Version, HoldUpload(p, v) PROVE CreditCovers'
  <2>1. Holding' = Holding /\ credit' = credit + 1 BY <1>3 DEF HoldUpload, Holding
  <2> QED  BY <1>1, <2>1 DEF CreditCovers
<1>4. ASSUME NEW p \in Worker, NEW v \in Version,
             RejectUpload(p, v) \/ CreateQueued(p, v) \/ ReadForVerdict(p, v)
      PROVE CreditCovers'
  <2>1. credit' = credit
    BY <1>4 DEF RejectUpload, CreateQueued, ReadForVerdict, gate
  <2>2. Closed' <= Closed
    <3>1. row' = row \/ row'.status # "MALWARE_SCANNING"
      BY <1>4 DEF RejectUpload, CreateQueued, ReadForVerdict, gate, CreateRow
    <3> QED  BY <3>1, <1>1 DEF Closed
  <2>3. Holding' \subseteq Holding
    <3>1. CASE RejectUpload(p, v)  BY <3>1 DEF RejectUpload, Holding
    <3>2. CASE CreateQueued(p, v)
      <4>1. [Idle EXCEPT !.at = "created", !.v = v].at = "created"
        BY IdleInvocation DEF Invocation
      <4> QED  BY <3>2, <4>1, HoldingSet DEF CreateQueued
    <3>3. CASE ReadForVerdict(p, v)
      <4>1. [at |-> "read", v |-> v, pinned |-> row.version # 0].at = "read"  OBVIOUS
      <4> QED  BY <3>3, <4>1, HoldingSet DEF ReadForVerdict
    <3> QED  BY <1>4, <3>1, <3>2, <3>3
  <2> QED  BY <1>2, <2>1, <2>2, <2>3
<1>5. ASSUME NEW p \in Worker, Admit(p) PROVE CreditCovers'
  <2>1. /\ credit' = credit /\ Goes(p, "admitted") /\ row.status = "MALWARE_SCANNING"
        /\ Rule(worker[p].v, "QUEUED") /\ row \in Row
    BY <1>5 DEF Admit, AwaitsVerdict, TInv, RowInv
  <2>2. row'.status = "QUEUED"  BY <2>1 DEF Rule, Row
  <2>3. Cardinality(Holding)' <= Cardinality(Holding) + 1
    BY <2>1, HoldingGoes, OneMoreHolds
  <2> QED  BY <1>1, <2>1, <2>2, <2>3 DEF CreditCovers, Closed
<1>6. ASSUME NEW p \in Worker, Refuse(p) \/ RefuseLate(p) PROVE CreditCovers'
  <2>1. credit' = credit /\ Holding' \subseteq Holding
    BY <1>6, HoldingEnds DEF Refuse, RefuseLate
  <2>2. Rule(worker[p].v, result[worker[p].v]) /\ Refusing(worker[p].v) /\ row \in Row
    BY <1>6 DEF Refuse, RefuseLate, TInv, RowInv, WorkerInv, Knows
  <2>3. row'.status \in Refused  BY <2>2 DEF Rule, Row, Refusing
  <2>4. Closed' <= Closed  BY <1>1, <2>3 DEF Closed, Refused
  <2> QED  BY <1>2, <2>1, <2>4
<1>7. ASSUME NEW p \in Worker,
             SendUpload(p) \/ SendUploadFails(p) \/ RefuseLateFails(p) \/ RevertFails(p) \/ Crash(p)
      PROVE CreditCovers'
  <2>1. Ends(p) /\ credit' = credit /\ row' = row
    BY <1>7 DEF SendUpload, SendUploadFails, RefuseLateFails, RevertFails, Crash, gate
  <2> QED  BY <1>1, <1>2, <2>1, HoldingEnds DEF Closed
<1>8. ASSUME NEW p \in Worker, LoseTheWrite(p) \/ ClassifyLostWrite(p) PROVE CreditCovers'
  <2>1. /\ Ends(p) \/ Goes(p, "lost") \/ Goes(p, "late")
        /\ credit' = credit /\ row' = row
    BY <1>8 DEF LoseTheWrite, ClassifyLostWrite, gate
  <2>2. Holding' \subseteq Holding  BY <2>1, HoldingEnds, HoldingGoes
  <2> QED  BY <1>1, <1>2, <2>1, <2>2 DEF Closed
<1>9. ASSUME NEW p \in Worker, SendAdmittedFails(p) PROVE CreditCovers'
  <2>1. Goes(p, "unsent") /\ credit' = credit /\ row' = row /\ p \in Holding
    BY <1>9 DEF SendAdmittedFails, gate, Holding
  <2>2. Holding' \subseteq Holding  BY <2>1, HoldingGoes
  <2> QED  BY <1>1, <1>2, <2>1, <2>2 DEF Closed
<1>10. ASSUME NEW p \in Worker, SendAdmitted(p) PROVE CreditCovers'
  <2>1. Ends(p) /\ credit' = credit - 1 /\ row' = row /\ p \in Holding
    BY <1>10 DEF SendAdmitted, Holding
  <2>2. Cardinality(Holding)' + 1 <= Cardinality(Holding)  BY <2>1, HoldingEnds, OneLetsGo
  <2> QED  BY <1>1, <2>1, <2>2 DEF CreditCovers, Closed
<1>11. ASSUME NEW p \in Worker, Revert(p) PROVE CreditCovers'
  <2>1. Ends(p) /\ credit' = credit /\ p \in Holding  BY <1>11 DEF Revert, Holding
  <2>2. Cardinality(Holding)' + 1 <= Cardinality(Holding)  BY <2>1, HoldingEnds, OneLetsGo
  <2>3. CASE StillThisAdmission(p)
    <3>1. Closed = 0  BY <2>3 DEF StillThisAdmission, Closed
    <3> QED  BY <1>1, <2>1, <2>2, <3>1 DEF CreditCovers
  <2>4. CASE ~StillThisAdmission(p)
    <3>1. row' = row  BY <1>11, <2>4 DEF Revert
    <3> QED  BY <1>1, <2>1, <2>2, <3>1 DEF CreditCovers, Closed
  <2> QED  BY <2>3, <2>4
<1>12. CASE Process \/ CreateReprocess
  <2>1. credit' = credit /\ worker' = worker  BY <1>12 DEF Process, CreateReprocess
  <2>2. row'.status # "MALWARE_SCANNING"
    BY <1>12 DEF Process, CreateReprocess, CreateRow, TInv, RowInv, Row
  <2>3. Closed' <= Closed  BY <1>1, <2>2 DEF Closed
  <2> QED  BY <1>2, <2>1, <2>3 DEF Holding
<1>13. ASSUME credit' = credit, worker' = worker, row' = row PROVE CreditCovers'
  BY <1>1, <1>2, <1>13 DEF Holding, Closed
<1>14. CASE Upload \/ (\E v \in Version : Scan(v)) \/ CheckReprocess \/ SendReprocess
            \/ SendReprocessFails \/ UNCHANGED vars
  BY <1>13, <1>14 DEF Upload, Scan, CheckReprocess, SendReprocess, SendReprocessFails, vars, gate
<1> QED
  BY <1>3, <1>4, <1>5, <1>6, <1>7, <1>8, <1>9, <1>10, <1>11, <1>12, <1>14
  DEF Next, WorkerSteps, Fails, Takes

(* A held upload is queued once, however often its verdict is delivered    *)
(* and whoever moves its row meanwhile: a verdict sends a second message   *)
(* only when the answer of a send was lost.                                *)
THEOREM QueuedOnce == Spec => []QueuedOncePerHold
<1>1. Init => CreditCovers
  <2>1. SUFFICES ASSUME Init PROVE CreditCovers  OBVIOUS
  <2>2. Holding = {}  BY <2>1, IdleInvocation DEF Init, Holding
  <2>3. Closed = 0  BY <2>1 DEF Init, Closed
  <2> QED  BY <2>1, <2>2, <2>3, FS_EmptySet DEF Init, CreditCovers
<1>2. TInv /\ CreditCovers => QueuedOncePerHold
  <2>1. SUFFICES ASSUME TInv, CreditCovers PROVE QueuedOncePerHold  OBVIOUS
  <2> QED  BY <2>1, HoldingIsFinite DEF TInv, CountInv, CreditCovers, Closed, QueuedOncePerHold
<1> QED  BY <1>1, <1>2, CreditStep, TInvariant, PTL DEF Spec

-----------------------------------------------------------------------------
(* QueuedHasAMessage says that some invocation is under way; the row that  *)
(* is left when that one ends needs the right one.  A row queued without a *)
(* verdict has its message with whoever created it or in an event to be    *)
(* delivered again, a row queued by a verdict with an invocation that      *)
(* holds that verdict.                                                     *)
OfItsCreation ==
  \/ \E p \in Worker : worker[p].at = "created"
  \/ api = "created"
  \/ ~scanning /\ notices # {}

OfItsVerdict ==
  \E p \in Worker : worker[p].at \in {"admitted", "unsent"} /\ worker[p].v = row.verdict

HasMessage ==
  row.status = "QUEUED" /\ ~stranded =>
    \/ msgs > 0
    \/ row.verdict = 0 /\ OfItsCreation
    \/ row.verdict # 0 /\ OfItsVerdict

LEMMA ASendIsAMessage ==
  ASSUME TInv, SendToQueue
  PROVE  HasMessage'
BY DEF TInv, CountInv, SendToQueue, HasMessage

LEMMA NotQueued ==
  ASSUME row'.status # "QUEUED"
  PROVE  HasMessage'
BY DEF HasMessage

(* An invocation that does not hold the message may do anything, and one   *)
(* that could not send it holds it on.                                     *)
LEMMA MessageStays ==
  ASSUME HasMessage, stranded' = stranded, row' = row, msgs' = msgs, api' = api,
         scanning' = scanning, notices \subseteq notices', NEW p,
         \A q \in Worker : q # p => worker'[q] = worker[q],
         \/ worker'[p] = worker[p]
         \/ worker[p].at \notin {"created", "admitted", "unsent"}
         \/ worker[p].at \in {"admitted", "unsent"} /\ ~StillThisAdmission(p)
         \/ /\ worker[p].at = "admitted" /\ worker'[p].at = "unsent"
            /\ worker'[p].v = worker[p].v
  PROVE  HasMessage'
<1>1. CASE ~(row.status = "QUEUED" /\ ~stranded) \/ msgs > 0
  BY <1>1 DEF HasMessage
<1>2. CASE row.status = "QUEUED" /\ ~stranded /\ row.verdict = 0 /\ OfItsCreation
  <2>1. OfItsCreation'  BY <1>2 DEF OfItsCreation
  <2> QED  BY <1>2, <2>1 DEF HasMessage
<1>3. CASE row.status = "QUEUED" /\ ~stranded /\ row.verdict # 0 /\ OfItsVerdict
  <2>1. OfItsVerdict'  BY <1>3 DEF OfItsVerdict, StillThisAdmission
  <2> QED  BY <1>3, <2>1 DEF HasMessage
<1> QED  BY <1>1, <1>2, <1>3 DEF HasMessage

LEMMA OwnWorker ==
  ASSUME TInv, NEW p \in Worker, Ends(p) \/ \E at : Goes(p, at)
  PROVE  \A q \in Worker : q # p => worker'[q] = worker[q]
BY DEF TInv, WorkerInv, Ends, Goes

LEMMA CreatedWorkers ==
  ASSUME TInv, NEW p \in Worker, worker[p].at = "created"
  PROVE  ~scanning
BY DEF TInv, WorkerInv, Knows

LEMMA GivenUp == (stranded' <=> TRUE) => HasMessage'
BY Zenon DEF HasMessage

LEMMA MessageStep == TInv /\ HasMessage /\ [Next]_vars => HasMessage'
<1> SUFFICES ASSUME TInv, HasMessage, [Next]_vars PROVE HasMessage'  OBVIOUS
<1>1. worker \in [Worker -> Invocation] /\ row \in Row /\ stranded \in BOOLEAN
  BY Zenon DEF TInv, WorkerInv, RowInv, CountInv
<1>2. scanning' = scanning  BY BucketStep
<1>3. CASE Upload \/ (\E v \in Version : Scan(v)) \/ CheckReprocess \/ UNCHANGED vars
  <2>1. /\ stranded' = stranded /\ row' = row /\ msgs' = msgs
        /\ worker' = worker /\ notices \subseteq notices'
    BY <1>3 DEF Upload, Scan, CheckReprocess, vars, gate, deliveries, rowHistory
  <2>2. api' = api \/ (api = "idle" /\ api' = "checked")
    BY <1>3 DEF Upload, Scan, CheckReprocess, vars
  <2> QED  BY <1>2, <2>1, <2>2 DEF HasMessage, OfItsCreation, OfItsVerdict
<1>4. ASSUME NEW p \in Worker, NEW v \in Version, RejectUpload(p, v) \/ HoldUpload(p, v)
      PROVE HasMessage'
  <2>1. row'.status # "QUEUED"  BY <1>4 DEF RejectUpload, HoldUpload, CreateRow
  <2> QED  BY <2>1, NotQueued
<1>5. ASSUME NEW p \in Worker, NEW v \in Version, CreateQueued(p, v) PROVE HasMessage'
  <2>1. worker' = [worker EXCEPT ![p] = [Idle EXCEPT !.at = "created", !.v = v]]
        /\ row'.verdict = 0
    BY <1>5 DEF CreateQueued, CreateRow
  <2>2. [Idle EXCEPT !.at = "created", !.v = v].at = "created"
    BY IdleInvocation DEF Invocation
  <2>3. worker'[p].at = "created"  BY <1>1, <2>1, <2>2
  <2> QED  BY <2>1, <2>3 DEF HasMessage, OfItsCreation
<1>6. ASSUME NEW p \in Worker, NEW v \in Version, ReadForVerdict(p, v) PROVE HasMessage'
  <2>1. /\ stranded' = stranded /\ row' = row /\ msgs' = msgs /\ api' = api
        /\ notices' = notices
    BY <1>6 DEF ReadForVerdict, gate, rowHistory
  <2>2. worker[p].at = "idle" /\ \A q \in Worker : q # p => worker'[q] = worker[q]
    BY <1>1, <1>6, IdleInvocation DEF ReadForVerdict
  <2> QED  BY <1>2, <2>1, <2>2, MessageStays
<1>7. ASSUME SendToQueue PROVE HasMessage'  BY <1>7, ASendIsAMessage
<1>8. ASSUME NEW p \in Worker, SendUploadFails(p), msgs' = msgs PROVE HasMessage'
  <2>1. /\ row' = row /\ api' = api /\ Ends(p) /\ worker[p].at = "created"
    BY <1>8 DEF SendUploadFails
  <2>2. CASE notices' = notices \cup {worker[p].v} /\ stranded' = stranded
    <3>1. ~scanning'  BY <1>2, <2>1, CreatedWorkers
    <3>2. OfItsCreation'  BY <2>2, <3>1 DEF OfItsCreation
    <3>3. OfItsVerdict => OfItsVerdict'  BY <2>1, OwnWorker DEF OfItsVerdict
    <3> QED  BY <1>8, <2>1, <2>2, <3>2, <3>3 DEF HasMessage
  <2>3. CASE stranded' = (msgs' = msgs \/ stranded)
    BY <1>8, <2>3, GivenUp, Zenon
  <2> QED  BY <1>8, <2>2, <2>3, Zenon DEF SendUploadFails
<1>9. ASSUME NEW p \in Worker, Admit(p) PROVE HasMessage'
  <2>1. Goes(p, "admitted") /\ Rule(worker[p].v, "QUEUED") /\ worker[p].at \in Judging
    BY <1>9 DEF Admit, Judging
  <2>2. worker[p].v \in 1..MaxUploads  BY <2>1, VerdictIsKnown DEF Version
  <2>3. row'.verdict = worker[p].v /\ row'.verdict # 0
    BY <1>1, <2>1, <2>2, GateAssumption DEF GateAssumption, Rule, Row
  <2>4. worker'[p].at = "admitted" /\ worker'[p].v = worker[p].v
    BY <1>1, <2>1 DEF Goes, Invocation
  <2> QED  BY <2>3, <2>4 DEF HasMessage, OfItsVerdict
<1>10. ASSUME NEW p \in Worker, Refuse(p) \/ RefuseLate(p) PROVE HasMessage'
  <2>1. Rule(worker[p].v, result[worker[p].v]) /\ Refusing(worker[p].v)
    BY <1>10 DEF Refuse, RefuseLate, TInv, WorkerInv, Knows
  <2>2. row'.status # "QUEUED"  BY <1>1, <2>1 DEF Rule, Row, Refusing, Refused
  <2> QED  BY <2>2, NotQueued
<1>11. ASSUME NEW p \in Worker,
              LoseTheWrite(p) \/ ClassifyLostWrite(p) \/ RefuseLateFails(p)
       PROVE HasMessage'
  <2>1. /\ stranded' = stranded /\ row' = row /\ msgs' = msgs /\ api' = api
        /\ notices' = notices /\ worker[p].at \notin {"created", "admitted", "unsent"}
        /\ Ends(p) \/ \E at : Goes(p, at)
    BY <1>11 DEF LoseTheWrite, ClassifyLostWrite, RefuseLateFails, gate, rowHistory, deliveries
  <2>2. \A q \in Worker : q # p => worker'[q] = worker[q]  BY <2>1, OwnWorker
  <2> QED  BY <1>2, <2>1, <2>2, MessageStays
<1>12. ASSUME NEW p \in Worker, SendAdmittedFails(p), msgs' = msgs PROVE HasMessage'
  <2>1. /\ stranded' = stranded /\ row' = row /\ api' = api
        /\ notices' = notices /\ worker[p].at = "admitted" /\ Goes(p, "unsent")
    BY <1>12 DEF SendAdmittedFails, gate, rowHistory, deliveries
  <2>2. worker'[p].at = "unsent" /\ worker'[p].v = worker[p].v
    BY <1>1, <2>1 DEF Goes, Invocation
  <2>3. \A q \in Worker : q # p => worker'[q] = worker[q]  BY <2>1, OwnWorker
  <2> QED  BY <1>2, <1>12, <2>1, <2>2, <2>3, MessageStays
<1>13. ASSUME NEW p \in Worker, Revert(p) \/ RevertFails(p) \/ Crash(p),
              ~StillThisAdmission(p)
       PROVE HasMessage'
  <2>1. /\ row' = row /\ msgs' = msgs /\ api' = api /\ notices' = notices /\ Ends(p)
        /\ worker[p].at \in {"admitted", "unsent"} \/ worker[p].at \notin {"idle", "created"}
    BY <1>13 DEF Revert, RevertFails, Crash
  <2>2. stranded' = stranded
    BY <1>1, <1>13, Zenon DEF Revert, RevertFails, Crash, rowHistory
  <2>3. \A q \in Worker : q # p => worker'[q] = worker[q]  BY <2>1, OwnWorker
  <2>4. worker[p].at # "created"  BY <2>1
  <2> QED  BY <1>2, <1>13, <2>1, <2>2, <2>3, <2>4, MessageStays
<1>14. ASSUME NEW p \in Worker, Revert(p), StillThisAdmission(p) PROVE HasMessage'
  <2>1. row'.status = "MALWARE_SCANNING"  BY <1>1, <1>14 DEF Revert, Row
  <2> QED  BY <2>1, NotQueued
<1>15. ASSUME NEW p \in Worker, RevertFails(p), StillThisAdmission(p) PROVE HasMessage'
  BY <1>15, GivenUp, Zenon DEF RevertFails
<1>16. ASSUME NEW p \in Worker, Crash(p), StillThisAdmission(p) PROVE HasMessage'
  <2>1. CASE worker[p].at \in {"admitted", "unsent"}
    BY <1>16, <2>1, GivenUp, Zenon DEF Crash
  <2>2. CASE worker[p].at \notin {"admitted", "unsent"}
    <3>1. /\ row' = row /\ msgs' = msgs /\ api' = api /\ notices' = notices /\ Ends(p)
          /\ worker[p].at # "created"
      BY <1>16 DEF Crash
    <3>2. stranded' = stranded  BY <1>1, <1>16, <2>2, Zenon DEF Crash
    <3>3. \A q \in Worker : q # p => worker'[q] = worker[q]  BY <3>1, OwnWorker
    <3> QED  BY <1>2, <2>2, <3>1, <3>2, <3>3, MessageStays
  <2> QED  BY <2>1, <2>2
<1>17. CASE Process
  <2>1. row'.status = "RUNNING"  BY <1>1, <1>17 DEF Process, Row
  <2> QED  BY <2>1, NotQueued
<1>18. CASE CreateReprocess
  BY <1>18 DEF CreateReprocess, CreateRow, HasMessage, OfItsCreation
<1>19. CASE SendReprocessFails
  BY <1>19, GivenUp, Zenon DEF SendReprocessFails
<1> QED
  BY <1>3, <1>4, <1>5, <1>6, <1>7, <1>8, <1>9, <1>10, <1>11, <1>12, <1>13, <1>14, <1>15,
     <1>16, <1>17, <1>18, <1>19
  DEF Next, WorkerSteps, Fails, Takes, SendUpload, SendUploadFails, SendAdmitted,
      SendAdmittedFails, SendReprocess

(* A row that reads QUEUED has its message in the queue, in the hands of   *)
(* an invocation, or in an event that is delivered again, unless a fault   *)
(* in one of the named windows took it.                                    *)
THEOREM QueuedIsServed == Spec => []QueuedHasAMessage
<1>1. Init => HasMessage  BY DEF Init, HasMessage
<1>2. HasMessage => QueuedHasAMessage
  BY DEF HasMessage, OfItsCreation, OfItsVerdict, QueuedHasAMessage
<1> QED  BY <1>1, <1>2, MessageStep, TInvariant, PTL DEF Spec

=============================================================================
