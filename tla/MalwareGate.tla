----------------------------- MODULE MalwareGate -----------------------------
(***************************************************************************)
(* One object key at the ingest gate.  QueueSender writes the document's   *)
(* row for an upload and either sends it to the DocumentQueue at once or   *)
(* holds it until the scan's verdict for that upload arrives; a verdict    *)
(* admits or refuses by one conditional write, and sends after it.  Both   *)
(* kinds of event are delivered at least once and in any order.  The queue *)
(* processor and Reprocess move the same row.                              *)
(*                                                                         *)
(* An upload is its version id, counted from 1; 0 is a row without one.    *)
(* The verdict's time stands for the verdict: it is its upload's number.   *)
(* A policy that admits unscannable documents makes their verdict "clean". *)
(* What a refusal does to the file's job is in BatchJob.                   *)
(***************************************************************************)
EXTENDS Integers, FiniteSets

CONSTANTS
  Worker,      \* QueueSender's invocations
  MaxUploads,  \* bound: uploads of the key
  MaxRepeats,  \* bound: events delivered again after they were handled, and
               \* reprocess calls
  MaxFaults    \* bound: calls that fail, answers that are lost, crashes

ASSUME GateAssumption ==
  /\ IsFiniteSet(Worker)
  /\ MaxUploads \in Nat
  /\ MaxRepeats \in Nat
  /\ MaxFaults \in Nat

VARIABLES
  scanning,  \* MALWARE_SCANNING_ENABLED
  row,       \* ObjectStatus, MalwareScanVersionId, MalwareScanTime
  uploads,   \* uploads so far
  result,    \* what the scan of each upload found
  notices,   \* Object Created events to be delivered
  verdicts,  \* scan result events to be delivered
  worker,    \* what each invocation is doing
  msgs,      \* messages in the DocumentQueue
  api,       \* where the reprocess call is
  repeats,
  faults,
  credit,    \* history: times the gate was closed, and send answers lost, less
             \* the messages verdicts have sent
  stranded,  \* history: this row's message was given up with its event, or its
             \* admission was left behind without a message
  overtaken  \* history: the row was created for an upload whose verdict had
             \* been taken before, or admitted by another upload's verdict
rowHistory == <<stranded, overtaken>>
bucket == <<scanning, uploads, result>>
gate == <<row, rowHistory, credit>>
deliveries == <<notices, verdicts, repeats>>
vars == <<bucket, gate, deliveries, worker, msgs, api, faults>>

Version == 1..MaxUploads
Idle == [at |-> "idle", v |-> 0, pinned |-> FALSE]
(* QUARANTINED also stands for MALWARE_SCAN_FAILED.                         *)
Refused == {"QUARANTINED"}
Refusing(v) == result[v] \in Refused

TypeOK ==
  /\ scanning \in BOOLEAN
  /\ row \in [status : {"none", "MALWARE_SCANNING", "QUEUED", "RUNNING", "FAILED"} \cup Refused,
              version : 0..MaxUploads, verdict : 0..MaxUploads]
  /\ row.status = "MALWARE_SCANNING" => scanning /\ row.version \in Version
  /\ uploads \in 0..MaxUploads
  /\ result \in [Version -> {"none", "clean"} \cup Refused]
  /\ notices \subseteq 1..uploads
  /\ verdicts \subseteq {v \in 1..uploads : result[v] # "none"}
  /\ worker \in [Worker ->
       [at : {"idle", "created", "read", "lost", "late", "admitted", "unsent"},
        v : 0..MaxUploads, pinned : BOOLEAN]]
  /\ msgs \in Nat
  /\ api \in {"idle", "checked", "created"}
  /\ repeats \in 0..MaxRepeats
  /\ faults \in 0..MaxFaults
  /\ credit \in Int
  /\ rowHistory \in BOOLEAN \X BOOLEAN

Init ==
  /\ scanning \in BOOLEAN
  /\ row = [status |-> "none", version |-> 0, verdict |-> 0]
  /\ uploads = 0
  /\ result = [v \in Version |-> "none"]
  /\ notices = {}
  /\ verdicts = {}
  /\ worker = [p \in Worker |-> Idle]
  /\ msgs = 0
  /\ api = "idle"
  /\ repeats = 0
  /\ faults = 0
  /\ credit = 0
  /\ stranded = FALSE
  /\ overtaken = FALSE

-----------------------------------------------------------------------------
Fault == faults < MaxFaults /\ faults' = faults + 1
Repeat == repeats < MaxRepeats /\ repeats' = repeats + 1

Goes(p, at) == worker' = [worker EXCEPT ![p].at = at]
Ends(p) == worker' = [worker EXCEPT ![p] = Idle]

(* An event that was handled is gone, unless it is delivered once more.    *)
Handled(events, events2, v) ==
  \/ events2 = events \ {v} /\ UNCHANGED repeats
  \/ events2 = events /\ Repeat

(* create_document is an unconditional Put: nothing of the old row is left. *)
CreateRow(status, version) ==
  /\ row' = [status |-> status, version |-> version, verdict |-> 0]
  /\ stranded' = FALSE
  /\ overtaken' = (version # 0 /\ result[version] # "none" /\ version \notin verdicts)

(* update_document_status with the verdict.                                *)
Rule(v, status) == row' = [row EXCEPT !.status = status, !.verdict = v]

SendToQueue == msgs' = msgs + 1

-----------------------------------------------------------------------------
Upload ==
  /\ uploads < MaxUploads
  /\ uploads' = uploads + 1
  /\ notices' = notices \cup {uploads'}
  /\ UNCHANGED <<gate, scanning, result, verdicts, worker, msgs, api, repeats, faults>>

Scan(v) ==
  /\ scanning
  /\ v <= uploads /\ result[v] = "none"
  /\ \E r \in {"clean"} \cup Refused : result' = [result EXCEPT ![v] = r]
  /\ verdicts' = verdicts \cup {v}
  /\ UNCHANGED <<gate, scanning, uploads, notices, worker, msgs, api, repeats, faults>>

-----------------------------------------------------------------------------
(* handle_object_created                                                   *)
RejectUpload(p, v) ==
  /\ worker[p] = Idle /\ v \in notices
  /\ CreateRow("FAILED", 0)
  /\ Handled(notices, notices', v)
  /\ UNCHANGED <<bucket, verdicts, worker, msgs, api, faults, credit>>

HoldUpload(p, v) ==
  /\ worker[p] = Idle /\ v \in notices
  /\ scanning
  /\ CreateRow("MALWARE_SCANNING", v)
  /\ credit' = credit + 1
  /\ Handled(notices, notices', v)
  /\ UNCHANGED <<bucket, verdicts, worker, msgs, api, faults>>

CreateQueued(p, v) ==
  /\ worker[p] = Idle /\ v \in notices
  /\ ~scanning
  /\ CreateRow("QUEUED", 0)
  /\ worker' = [worker EXCEPT ![p] = [Idle EXCEPT !.at = "created", !.v = v]]
  /\ Handled(notices, notices', v)
  /\ UNCHANGED <<bucket, verdicts, msgs, api, faults, credit>>

SendUpload(p) ==
  /\ worker[p].at = "created"
  /\ SendToQueue
  /\ Ends(p)
  /\ UNCHANGED <<bucket, gate, deliveries, api, faults>>

(* The send raises, its answer is lost or the invocation dies; the event   *)
(* is delivered again unless this was its last attempt.                    *)
SendUploadFails(p) ==
  /\ worker[p].at = "created"
  /\ Fault
  /\ Ends(p)
  /\ SendToQueue \/ UNCHANGED msgs
  /\ \/ notices' = notices \cup {worker[p].v} /\ UNCHANGED stranded
     \/ stranded' = (msgs' = msgs \/ stranded) /\ UNCHANGED notices
  /\ UNCHANGED <<bucket, row, verdicts, api, repeats, credit, overtaken>>

-----------------------------------------------------------------------------
(* handle_scan_result reads the row; when there is none it raises and the  *)
(* event waits for its next delivery.  The version is only compared when   *)
(* the row that was read has one.                                          *)
ReadForVerdict(p, v) ==
  /\ worker[p] = Idle /\ v \in verdicts
  /\ row.status # "none"
  /\ worker' = [worker EXCEPT ![p] = [at |-> "read", v |-> v, pinned |-> row.version # 0]]
  /\ Handled(verdicts, verdicts', v)
  /\ UNCHANGED <<bucket, gate, notices, msgs, api, faults>>

(* Mutant of AwaitsVerdict: conditional on the version alone.              *)
ItsVersion(p) == worker[p].pinned => row.version = worker[p].v

AwaitsVerdict(p) ==
  /\ row.status = "MALWARE_SCANNING"
  /\ worker[p].pinned => row.version = worker[p].v

Admit(p) ==
  /\ worker[p].at = "read" /\ ~Refusing(worker[p].v)
  /\ AwaitsVerdict(p)
  /\ Rule(worker[p].v, "QUEUED")
  /\ overtaken' = (overtaken \/ row.version # worker[p].v)
  /\ Goes(p, "admitted")
  /\ UNCHANGED <<bucket, deliveries, msgs, api, faults, credit, stranded>>

Refuse(p) ==
  /\ worker[p].at = "read" /\ Refusing(worker[p].v)
  /\ AwaitsVerdict(p)
  /\ Rule(worker[p].v, result[worker[p].v])
  /\ Ends(p)
  /\ UNCHANGED <<bucket, deliveries, msgs, api, faults, credit, rowHistory>>

LoseTheWrite(p) ==
  /\ worker[p].at = "read" /\ ~AwaitsVerdict(p)
  /\ Goes(p, "lost")
  /\ UNCHANGED <<bucket, gate, deliveries, msgs, api, faults>>

(* _handle_verdict_condition_failure reads again and tells a superseded    *)
(* verdict, a refusal that was never applied and a duplicate apart.        *)
Superseded(p) ==
  row.status = "MALWARE_SCANNING" /\ row.version # worker[p].v

(* Mutant of UnappliedRefusal: a lost write is always a duplicate.         *)
NeverUnapplied(p) == FALSE

UnappliedRefusal(p) ==
  ~Superseded(p) /\ Refusing(worker[p].v) /\ row.status \notin Refused

ClassifyLostWrite(p) ==
  /\ worker[p].at = "lost"
  /\ IF UnappliedRefusal(p) THEN Goes(p, "late") ELSE Ends(p)
  /\ UNCHANGED <<bucket, gate, deliveries, msgs, api, faults>>

RefuseLate(p) ==
  /\ worker[p].at = "late"
  /\ Rule(worker[p].v, result[worker[p].v])
  /\ Ends(p)
  /\ UNCHANGED <<bucket, deliveries, msgs, api, faults, credit, rowHistory>>

RefuseLateFails(p) ==
  /\ worker[p].at = "late"
  /\ Fault
  /\ Ends(p)
  /\ UNCHANGED <<bucket, gate, deliveries, msgs, api>>

SendAdmitted(p) ==
  /\ worker[p].at = "admitted"
  /\ SendToQueue
  /\ credit' = credit - 1
  /\ Ends(p)
  /\ UNCHANGED <<bucket, deliveries, row, api, faults, rowHistory>>

(* The send raises: the message was not sent, or only the answer was lost. *)
SendAdmittedFails(p) ==
  /\ worker[p].at = "admitted"
  /\ Fault
  /\ SendToQueue \/ UNCHANGED msgs
  /\ Goes(p, "unsent")
  /\ UNCHANGED <<bucket, gate, deliveries, api>>

(* Mutant of StillThisAdmission: an unconditional undo.                    *)
WhateverItIs(p) == TRUE

StillThisAdmission(p) == row.status = "QUEUED" /\ row.verdict = worker[p].v

(* Mutants of Revert: raise without undoing, undo without raising.         *)
RaiseOnly(p) ==
  /\ worker[p].at = "unsent"
  /\ verdicts' = verdicts \cup {worker[p].v}
  /\ Ends(p)
  /\ UNCHANGED <<bucket, gate, notices, repeats, msgs, api, faults>>

UndoOnly(p) ==
  /\ worker[p].at = "unsent"
  /\ row' = IF StillThisAdmission(p)
            THEN [row EXCEPT !.status = "MALWARE_SCANNING"] ELSE row
  /\ Ends(p)
  /\ UNCHANGED <<bucket, rowHistory, credit, deliveries, msgs, api, faults>>

(* Undo the admission and raise, so that the event is delivered again.     *)
Revert(p) ==
  /\ worker[p].at = "unsent"
  /\ row' = IF StillThisAdmission(p)
            THEN [row EXCEPT !.status = "MALWARE_SCANNING"] ELSE row
  /\ verdicts' = verdicts \cup {worker[p].v}
  /\ Ends(p)
  /\ UNCHANGED <<bucket, notices, msgs, api, repeats, faults, credit, rowHistory>>

(* The undo fails as the send before it did; that is logged.               *)
RevertFails(p) ==
  /\ worker[p].at = "unsent"
  /\ stranded' = (stranded \/ StillThisAdmission(p))
  /\ verdicts' = verdicts \cup {worker[p].v}
  /\ Ends(p)
  /\ UNCHANGED <<bucket, row, notices, msgs, api, repeats, faults, credit, overtaken>>

(* The invocation dies or a read fails; the event is delivered again.      *)
Crash(p) ==
  /\ worker[p].at \notin {"idle", "created"}
  /\ Fault
  /\ verdicts' = verdicts \cup {worker[p].v}
  /\ stranded' = (stranded \/ (worker[p].at \in {"admitted", "unsent"} /\ StillThisAdmission(p)))
  /\ Ends(p)
  /\ UNCHANGED <<bucket, row, notices, msgs, api, repeats, credit, overtaken>>

-----------------------------------------------------------------------------
(* The queue processor takes a message and the document goes on: RUNNING   *)
(* stands for every status of the pipeline.  Only ABORTED would refuse it. *)
Process ==
  /\ msgs > 0
  /\ msgs' = msgs - 1
  /\ row' = [row EXCEPT !.status = "RUNNING"]
  /\ UNCHANGED <<bucket, deliveries, worker, api, faults, credit, rowHistory>>

(* reprocess_document checks the status and that the object exists, then   *)
(* creates a row and sends.                                                *)
CheckReprocess ==
  /\ api = "idle"
  /\ Repeat
  /\ uploads > 0
  /\ row.status \notin {"MALWARE_SCANNING"} \cup Refused
  /\ api' = "checked"
  /\ UNCHANGED <<bucket, gate, notices, verdicts, worker, msgs, faults>>

CreateReprocess ==
  /\ api = "checked"
  /\ CreateRow("QUEUED", 0)
  /\ api' = "created"
  /\ UNCHANGED <<bucket, deliveries, worker, msgs, faults, credit>>

SendReprocess ==
  /\ api = "created"
  /\ SendToQueue
  /\ api' = "idle"
  /\ UNCHANGED <<bucket, gate, deliveries, worker, faults>>

SendReprocessFails ==
  /\ api = "created"
  /\ Fault
  /\ api' = "idle"
  /\ stranded' = TRUE
  /\ UNCHANGED <<bucket, deliveries, row, worker, msgs, credit, overtaken>>

-----------------------------------------------------------------------------
WorkerSteps(p) ==
  \/ SendUpload(p)
  \/ Admit(p)
  \/ Refuse(p)
  \/ LoseTheWrite(p)
  \/ ClassifyLostWrite(p)
  \/ RefuseLate(p)
  \/ SendAdmitted(p)
  \/ Revert(p)

Takes(p, v) ==
  \/ RejectUpload(p, v)
  \/ HoldUpload(p, v)
  \/ CreateQueued(p, v)
  \/ ReadForVerdict(p, v)

Fails(p) ==
  \/ SendUploadFails(p)
  \/ RefuseLateFails(p)
  \/ SendAdmittedFails(p)
  \/ RevertFails(p)
  \/ Crash(p)

Next ==
  \/ Upload
  \/ \E v \in Version : Scan(v)
  \/ \E p \in Worker : WorkerSteps(p) \/ Fails(p)
  \/ \E p \in Worker, v \in Version : Takes(p, v)
  \/ Process
  \/ CheckReprocess
  \/ CreateReprocess
  \/ SendReprocess
  \/ SendReprocessFails

Spec == Init /\ [][Next]_vars

(* An invocation that was started runs, and an event is delivered: both    *)
(* are retried by the service that calls the function.                     *)
Fairness ==
  /\ \A p \in Worker : WF_vars(WorkerSteps(p))
  /\ \A v \in Version : WF_vars(\E p \in Worker : ReadForVerdict(p, v))
  /\ \A v \in Version : WF_vars(Scan(v))

FairSpec == Spec /\ Fairness

-----------------------------------------------------------------------------
(* A row that reads QUEUED has its message: it is in the queue, or an      *)
(* invocation is about to send it or to undo the admission.  Only a crash  *)
(* or a failed undo in that window, or an upload event that used up its    *)
(* attempts, leaves a document queued that nothing will process.           *)
QueuedHasAMessage ==
  row.status = "QUEUED" /\ ~stranded =>
    \/ msgs > 0
    \/ \E p \in Worker : worker[p].at \in {"created", "admitted", "unsent"}
    \/ api = "created"
    \/ ~scanning /\ notices # {}

(* A held upload is queued once, however often its verdict is delivered    *)
(* and whoever moves its row meanwhile: a verdict sends a second message   *)
(* only when the answer of a send was lost.                                *)
QueuedOncePerHold == credit >= 0

(* A refusing verdict that is handled to the end without a fault leaves    *)
(* the row of its own upload refused, also when a message of an earlier    *)
(* upload or a reprocessing took the row out of the gate before it.        *)
OwnRefusalLands ==
  [][\A p \in Worker :
       /\ worker[p].at \in {"read", "lost", "late"} /\ worker'[p] = Idle
       /\ Refusing(worker[p].v)
       /\ faults' = faults
       /\ row.version \in {0, worker[p].v}
       => row'.status \in Refused]_vars

(* A refusal is only replaced by a new row or by the processing of a       *)
(* message that was in the queue: no late undo and no other verdict opens  *)
(* the gate for a refused document.                                        *)
RefusalIsFinal ==
  [][row.status \in Refused /\ row'.status \notin Refused
       => row'.verdict = 0 \/ msgs' < msgs]_vars

(* A document does not wait at the gate for ever, unless its row was       *)
(* created for an upload whose verdict had been taken before (the upload   *)
(* event was overtaken or repeated), which does not come again, or the     *)
(* admission of another upload's verdict, whose row had no version when it *)
(* was read, was undone in between.                                        *)
HeldIsDecided == []<>(row.status # "MALWARE_SCANNING" \/ overtaken)

=============================================================================
