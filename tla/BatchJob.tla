------------------------------- MODULE BatchJob -------------------------------
(***************************************************************************)
(* One batch of the Jobs API.  The pre-processor uploads the files of the  *)
(* batch one by one and then writes the job's Files map; every upload      *)
(* becomes a document with an execution of its own.  JobTracker hears of   *)
(* the executions that end, the ingest gate of the documents it refuses:   *)
(* each writes its file's status into the map, and whoever finds all of it *)
(* terminal has results.zip built.  GET /jobs/<id> reads the map, the      *)
(* tracking rows of the files in progress and the ResultsReady flag.       *)
(*                                                                         *)
(* How a document is processed and its row written is DocumentLifecycle,   *)
(* how it is held and refused MalwareGate, how it is reviewed ReviewItem:  *)
(* here a document only ends, and its row is not followed.  What a row may *)
(* read at a time is RowStatuses.  The outputs of a document exist when it *)
(* ends COMPLETED.                                                         *)
(***************************************************************************)
EXTENDS Integers, FiniteSets

CONSTANTS
  File,       \* the batch's files
  Tracker,    \* JobTracker's invocations
  MaxRuns,    \* bound: uploads of one file
  MaxUploads, \* bound: uploads in all
  MaxFaults   \* bound: crashes, failed calls, lost or repeated events

ASSUME BatchAssumption ==
  /\ IsFiniteSet(File) /\ File # {} /\ IsFiniteSet(Tracker)
  /\ "__rejected__" \notin File
  /\ MaxRuns \in Nat
  /\ MaxUploads \in Nat
  /\ MaxFaults \in Nat

VARIABLES
  pre,        \* the pre-processor: which files it has uploaded, which failed
  run,        \* what became of each upload of each file: how it ended, or
              \* that it is held for review
  outputs,    \* files with objects under jobs/<id>/ in the output bucket
  events,     \* execution events on their way to JobTracker
  refusals,   \* refused files the gate has not yet recorded in the job
  delegates,  \* gate invocations that found the whole map terminal
  asked,      \* a delegation is on its way to JobTracker
  files,      \* Files, a map from the files in it to their status
  zip,        \* the files whose outputs are in results.zip, {} without one
  ready,      \* ResultsReady
  tracker,    \* what each JobTracker invocation is doing
  faults,
  untold,     \* history: an ending of a document, or the rejection of the
              \* batch, never reaches the job
  disturbed   \* history: a status already in the map was replaced by the
              \* pre-processor, or a terminal one by a late hold, or a file was
              \* listed as failed beside a run of it
job == <<files, zip, ready>>
documents == <<run, outputs>>
gate == <<refusals, delegates>>
history == <<untold, disturbed>>
vars == <<pre, documents, events, gate, asked, job, tracker, faults, history>>

Upload == File \X (1..MaxRuns)

(* Mutant of Terminal: a file under review counts as ended.                *)
TerminalOrHeld == {"COMPLETED", "FAILED", "HITL_IN_PROGRESS"}

(* TERMINAL_FILE_STATUSES, and the terminal set of compute_job_status.     *)
(* FAILED also stands for ABORTED and REJECTED: they only differ in the    *)
(* name of a final answer without results.                                 *)
Terminal == {"COMPLETED", "FAILED"}
Processing == {"IN_PROGRESS", "HITL_IN_PROGRESS"}

(* How the execution of a document ends, as terminal_document_status maps  *)
(* it, without and with a review before it.                                *)
Ending == {"COMPLETED", "FAILED", "REDACTED_SUPERSEDED"}
ReviewEnding == {"COMPLETED", "FAILED"}
Closed == Ending \cup {"QUARANTINED"}
UnderWay == {"running", "HITL_IN_PROGRESS"}

(* An event names an execution; the delegation's is that of no upload.     *)
Delegation == [u |-> <<>>, status |-> "none"]
Event == [u : Upload, status : Ending \cup {"HITL_IN_PROGRESS"}]
NotInvoked == [at |-> "idle", e |-> Delegation, keys |-> {}]

TypeOK ==
  /\ pre \in [at : {"idle", "uploading", "done"}, done : SUBSET File, failed : SUBSET File]
  /\ pre.done \cap pre.failed = {}
  /\ run \in [Upload -> {"none"} \cup UnderWay \cup Closed]
  /\ outputs \subseteq File
  /\ events \subseteq Event
  /\ refusals \subseteq File
  /\ delegates \subseteq File
  /\ asked \in BOOLEAN
  /\ DOMAIN files \subseteq File \cup {"__rejected__"}
  /\ \A f \in DOMAIN files : files[f] \in Terminal \cup Processing
  /\ zip \subseteq outputs
  /\ ready \in BOOLEAN
  /\ tracker \in [Tracker ->
       [at : {"idle", "listing", "putting", "marking"},
        e : Event \cup {Delegation}, keys : SUBSET File]]
  /\ faults \in 0..MaxFaults
  /\ history \in BOOLEAN \X BOOLEAN

Init ==
  /\ pre = [at |-> "idle", done |-> {}, failed |-> {}]
  /\ run = [u \in Upload |-> "none"]
  /\ outputs = {}
  /\ events = {}
  /\ refusals = {}
  /\ delegates = {}
  /\ asked = FALSE
  /\ files = <<>>
  /\ zip = {}
  /\ ready = FALSE
  /\ tracker = [t \in Tracker |-> NotInvoked]
  /\ faults = 0
  /\ untold = FALSE
  /\ disturbed = FALSE

-----------------------------------------------------------------------------
Fault == faults < MaxFaults /\ faults' = faults + 1

(* An event that was handled is gone, unless it is delivered once more.    *)
Taken(e) ==
  \/ events' = events \ {e} /\ UNCHANGED faults
  \/ Fault /\ UNCHANGED events

(* Mutant of AllTerminal: the first ending is enough.                      *)
AnyTerminal(map) == \E f \in DOMAIN map : map[f] \in Terminal

AllTerminal(map) == \A f \in DOMAIN map : map[f] \in Terminal

(* update_file_status SETs one entry and returns the whole map.            *)
SetStatus(f, status) ==
  files' = [g \in DOMAIN files \cup {f} |-> IF g = f THEN status ELSE files[g]]

IsNextUpload(u) == \A n \in 1..MaxRuns : run[<<u[1], n>>] = "none" <=> n >= u[2]

-----------------------------------------------------------------------------
(* batch_pre_processor.handler                                             *)
StartBatch ==
  /\ pre.at = "idle"
  /\ pre' = [pre EXCEPT !.at = "uploading"]
  /\ UNCHANGED <<documents, events, gate, asked, job, tracker, faults, history>>

(* The zip violates a bound.  That the marker cannot be written is logged, *)
(* and the handler returns as if it had been: the job stays PENDING_UPLOAD. *)
RejectBatch ==
  /\ pre.at = "idle"
  /\ pre' = [pre EXCEPT !.at = "done"]
  /\ \/ /\ files' = [f \in {"__rejected__"} |-> "FAILED"]
        /\ UNCHANGED <<faults, untold>>
     \/ /\ Fault
        /\ untold' = TRUE
        /\ UNCHANGED files
  /\ UNCHANGED <<documents, events, gate, asked, zip, ready, tracker, disturbed>>

LeftToUpload == File \ (pre.done \cup pre.failed)
Rejected == pre.at = "done" /\ LeftToUpload # {}

UploadFile(u) ==
  /\ pre.at = "uploading"
  /\ u[1] \in LeftToUpload
  /\ IsNextUpload(u)
  /\ pre' = [pre EXCEPT !.done = @ \cup {u[1]}]
  /\ run' = [run EXCEPT ![u] = "running"]
  /\ UNCHANGED <<outputs, events, gate, asked, job, tracker, faults, history>>

UploadFails(f) ==
  /\ pre.at = "uploading"
  /\ f \in LeftToUpload
  /\ Fault
  /\ pre' = [pre EXCEPT !.failed = @ \cup {f}]
  /\ UNCHANGED <<documents, events, gate, asked, job, tracker, history>>

(* A file of an earlier attempt is being processed, and is now listed as   *)
(* failed because the upload was tried again.                              *)
FailedBesidesARun == \E u \in Upload : u[1] \in pre.failed /\ run[u] # "none"

(* The whole map is written after the last upload, over what the files     *)
(* that have ended by then recorded.                                       *)
WriteFiles ==
  /\ pre.at = "uploading"
  /\ LeftToUpload = {}
  /\ files' = [f \in File |-> IF f \in pre.done THEN "IN_PROGRESS" ELSE "FAILED"]
  /\ disturbed' = (disturbed \/ DOMAIN files # {} \/ FailedBesidesARun)
  /\ pre' = [pre EXCEPT !.at = "done"]
  /\ UNCHANGED <<documents, events, gate, asked, zip, ready, tracker, faults, untold>>

(* The invocation fails and is retried, or its event is delivered again:   *)
(* every file is uploaded again.  (A batch that was rejected is rejected   *)
(* again, which is left out.)                                              *)
StartBatchAgain ==
  /\ pre.at \in {"uploading", "done"} /\ ~Rejected
  /\ \A f \in File : run[<<f, MaxRuns>>] = "none"
  /\ Cardinality({u \in Upload : run[u] # "none"} \cup File \X {0}) <= MaxUploads
  /\ Fault
  /\ pre' = [at |-> "uploading", done |-> {}, failed |-> {}]
  /\ UNCHANGED <<documents, events, gate, asked, job, tracker, history>>

-----------------------------------------------------------------------------
(* The documents: an execution ends and its event is sent.                 *)
EndsWith(u, status) ==
  /\ run' = [run EXCEPT ![u] = status]
  /\ outputs' = IF status = "COMPLETED" THEN outputs \cup {u[1]} ELSE outputs
  /\ events' = events \cup {[u |-> u, status |-> status]}

EndRun(u) ==
  /\ run[u] = "running"
  /\ \E status \in Ending : EndsWith(u, status)
  /\ UNCHANGED <<pre, gate, asked, job, tracker, faults, history>>

HoldForReview(u) ==
  /\ run[u] = "running"
  /\ EndsWith(u, "HITL_IN_PROGRESS")
  /\ UNCHANGED <<pre, gate, asked, job, tracker, faults, history>>

EndReview(u) ==
  /\ run[u] = "HITL_IN_PROGRESS"
  /\ \E status \in ReviewEnding : EndsWith(u, status)
  /\ UNCHANGED <<pre, gate, asked, job, tracker, faults, history>>

(* The document is aborted while it is queued, or refused at ingest by its *)
(* configuration: no execution, and nobody tells the job.                  *)
EndUnheard(u) ==
  /\ run[u] = "running"
  /\ run' = [run EXCEPT ![u] = "FAILED"]
  /\ untold' = TRUE
  /\ UNCHANGED <<pre, outputs, events, gate, asked, job, tracker, faults, disturbed>>

RefuseAtGate(u) ==
  /\ run[u] = "running"
  /\ run' = [run EXCEPT ![u] = "QUARANTINED"]
  /\ refusals' = refusals \cup {u[1]}
  /\ UNCHANGED <<pre, outputs, events, delegates, asked, job, tracker, faults, history>>

-----------------------------------------------------------------------------
(* Mutant of GateStatus: the status of the document's own row.             *)
RowStatus == "QUARANTINED"

(* The gate: _finalize_job_file_if_job_document, _delegate_job_results     *)
GateStatus == "FAILED"

(* Mutant of RecordRefusal: nobody is asked to build the zip.              *)
RecordOnly(f) ==
  /\ f \in refusals
  /\ refusals' = refusals \ {f}
  /\ SetStatus(f, GateStatus)
  /\ UNCHANGED <<pre, documents, events, delegates, asked, zip, ready, tracker,
                 faults, history>>

RecordRefusal(f) ==
  /\ f \in refusals
  /\ refusals' = refusals \ {f}
  /\ SetStatus(f, GateStatus)
  /\ delegates' = IF AllTerminal(files') THEN delegates \cup {f} ELSE delegates
  /\ UNCHANGED <<pre, documents, events, asked, zip, ready, tracker, faults, history>>

Delegate(f) ==
  /\ f \in delegates
  /\ delegates' = delegates \ {f}
  /\ asked' = TRUE
  /\ UNCHANGED <<pre, documents, events, refusals, job, tracker, faults, history>>

(* A failed call is logged and not raised.                                 *)
GateCallFails(f) ==
  /\ f \in refusals \cup delegates
  /\ Fault
  /\ refusals' = refusals \ {f}
  /\ delegates' = delegates \ {f}
  /\ untold' = TRUE
  /\ UNCHANGED <<pre, documents, events, asked, job, tracker, disturbed>>

(* The gate dies; the verdict is delivered again, as a duplicate.          *)
GateCrashes(f) ==
  /\ f \in delegates
  /\ Fault
  /\ delegates' = delegates \ {f}
  /\ refusals' = refusals \cup {f}
  /\ UNCHANGED <<pre, documents, events, asked, job, tracker, history>>

-----------------------------------------------------------------------------
(* job_tracker.handler                                                     *)
Works(t, at, e, keys) == tracker' = [tracker EXCEPT ![t] = [at |-> at, e |-> e, keys |-> keys]]
Returns(t) == tracker' = [tracker EXCEPT ![t] = NotInvoked]

RecordHold(t, e) ==
  /\ tracker[t].at = "idle" /\ e.status = "HITL_IN_PROGRESS"
  /\ Taken(e)
  /\ SetStatus(e.u[1], e.status)
  /\ disturbed' = (disturbed \/ (e.u[1] \in DOMAIN files /\ files[e.u[1]] \in Terminal))
  /\ UNCHANGED <<pre, documents, gate, asked, zip, ready, tracker, untold>>

RecordEnding(t, e) ==
  /\ tracker[t].at = "idle" /\ e.status \in Terminal
  /\ Taken(e)
  /\ SetStatus(e.u[1], e.status)
  /\ IF AllTerminal(files') THEN Works(t, "listing", e, {}) ELSE UNCHANGED tracker
  /\ UNCHANGED <<pre, documents, gate, asked, zip, ready, history>>

(* finalize_job_file raises ValueError for any other status, at every      *)
(* delivery.                                                               *)
RaiseOnSuperseded(t, e) ==
  /\ tracker[t].at = "idle" /\ e.status = "REDACTED_SUPERSEDED"
  /\ events' = events \ {e}
  /\ untold' = TRUE
  /\ UNCHANGED <<pre, documents, gate, asked, job, tracker, faults, disturbed>>

TakeDelegation(t) ==
  /\ tracker[t].at = "idle" /\ asked
  /\ asked' = FALSE
  /\ Works(t, "listing", Delegation, {})
  /\ UNCHANGED <<pre, documents, events, gate, job, faults, history>>

(* create_results_zip: without outputs there is no zip.                    *)
ListOutputs(t) ==
  /\ tracker[t].at = "listing"
  /\ Works(t, IF outputs = {} THEN "marking" ELSE "putting", tracker[t].e, outputs)
  /\ UNCHANGED <<pre, documents, events, gate, asked, job, faults, history>>

PutZip(t) ==
  /\ tracker[t].at = "putting"
  /\ zip' = tracker[t].keys
  /\ Works(t, "marking", tracker[t].e, tracker[t].keys)
  /\ UNCHANGED <<pre, documents, events, gate, asked, files, ready, faults, history>>

MarkResultsReady(t) ==
  /\ tracker[t].at = "marking"
  /\ ready' = (tracker[t].keys # {})
  /\ Returns(t)
  /\ UNCHANGED <<pre, documents, events, gate, asked, files, zip, faults, history>>

(* The invocation fails: it is retried with its event, or that was its     *)
(* last attempt.                                                           *)
TrackerFails(t) ==
  /\ tracker[t].at # "idle"
  /\ Fault
  /\ Returns(t)
  /\ \/ /\ tracker[t].e = Delegation
        /\ asked' = TRUE
        /\ UNCHANGED <<events, untold>>
     \/ /\ tracker[t].e # Delegation
        /\ events' = events \cup {tracker[t].e}
        /\ UNCHANGED <<asked, untold>>
     \/ /\ untold' = TRUE
        /\ UNCHANGED <<events, asked>>
  /\ UNCHANGED <<pre, documents, gate, job, disturbed>>

-----------------------------------------------------------------------------
PreProcessorSteps ==
  \/ \E u \in Upload : UploadFile(u)
  \/ WriteFiles

GateSteps(f) == RecordRefusal(f) \/ Delegate(f)

ZipSteps(t) == ListOutputs(t) \/ PutZip(t) \/ MarkResultsReady(t)

Hears(t, e) == RecordHold(t, e) \/ RecordEnding(t, e) \/ RaiseOnSuperseded(t, e)

Documents(u) ==
  EndRun(u) \/ HoldForReview(u) \/ EndReview(u) \/ EndUnheard(u) \/ RefuseAtGate(u)

Next ==
  \/ StartBatch
  \/ RejectBatch
  \/ PreProcessorSteps
  \/ StartBatchAgain
  \/ \E f \in File : UploadFails(f) \/ GateSteps(f) \/ GateCallFails(f) \/ GateCrashes(f)
  \/ \E u \in Upload : Documents(u)
  \/ \E t \in Tracker : TakeDelegation(t) \/ ZipSteps(t) \/ TrackerFails(t)
  \/ \E t \in Tracker, e \in events : Hears(t, e)

Spec == Init /\ [][Next]_vars

(* Started invocations run, and events are delivered: while any of them    *)
(* can go on, one does.  A document need not end: a reviewer may never     *)
(* come.                                                                   *)
Scheduled ==
  \/ PreProcessorSteps
  \/ \E f \in File : GateSteps(f)
  \/ \E t \in Tracker : TakeDelegation(t) \/ ZipSteps(t)
  \/ \E t \in Tracker, e \in events : Hears(t, e)

Fairness == WF_vars(Scheduled)

FairSpec == Spec /\ Fairness

-----------------------------------------------------------------------------
(* GET /jobs/<id>                                                          *)

(* What the row of a file may read, at any time and in any order.  A step  *)
(* writes FAILED before it raises, and the status it is at when it is run  *)
(* again; an abort writes ABORTED, which a step still at work replaces;    *)
(* the workflow tracker writes how an execution ended after the fact, once *)
(* more if its event is repeated.  IN_PROGRESS stands for every status not *)
(* in Terminal, and for a row that is not there.                           *)
RowStatuses(f) ==
  LET reached == {run[u] : u \in {w \in Upload : w[1] = f}}
  IN  {"IN_PROGRESS"} \cup (reached \cap Terminal)
        \cup (IF reached \subseteq {"none"} THEN {} ELSE {"FAILED"})

(* enrich_file_statuses: rows are read of the files in progress only.      *)
FileStatuses(f) == IF files[f] = "IN_PROGRESS" THEN RowStatuses(f) ELSE {files[f]}

Readings ==
  {reading \in [DOMAIN files -> Terminal \cup Processing] :
     \A f \in DOMAIN files : reading[f] \in FileStatuses(f)}

WithResults == {"SUCCEEDED", "PARTIALLY_SUCCEEDED"}
Final == WithResults \cup {"FAILED"}

(* compute_job_status, and the hold for ResultsReady.                      *)
ComputedStatus(statuses) ==
  IF statuses = {} THEN "PENDING_UPLOAD"
  ELSE IF ~(statuses \subseteq Terminal) THEN "IN_PROGRESS"
  ELSE IF statuses = {"COMPLETED"} THEN "SUCCEEDED"
  ELSE IF "COMPLETED" \in statuses THEN "PARTIALLY_SUCCEEDED"
  ELSE "FAILED"

JobStatus(reading) ==
  LET status == ComputedStatus({reading[f] : f \in DOMAIN files})
  IN  IF status \in WithResults /\ ~ready THEN "IN_PROGRESS" ELSE status

Answers == {JobStatus(reading) : reading \in Readings}

-----------------------------------------------------------------------------
Quiet == events = {} /\ ~asked /\ \A t \in Tracker : tracker[t].at = "idle"
UploadedOnce(f) == \A n \in 2..MaxRuns : run[<<f, n>>] = "none"

(* When the map was written before its files ended, the zip a caller is    *)
(* sent to holds the outputs of every file that completed: the file found  *)
(* last by whatever order the endings came in triggers it, and no slower,  *)
(* older zip replaces it.                                                  *)
ZipHoldsEveryResult ==
  /\ pre.at = "done" /\ ~disturbed
  /\ Answers \cap WithResults # {}
  => \A f \in File : files[f] = "COMPLETED" /\ UploadedOnce(f) => f \in zip

(* An answer that sends the caller to the results stays the answer, while  *)
(* the rows, the map and the flag it is made of change one by one, and so  *)
(* does a FAILED made of the map alone.  (A FAILED that some row supplied  *)
(* is not final: the row may be that of a step about to be retried.)       *)
AnswerIsFinal ==
  [][/\ pre.at = "done" /\ pre'.at = "done" /\ ~disturbed'
     /\ \A f \in File : UploadedOnce(f)
     => \A answer \in Answers :
          answer \in WithResults \/ (answer = "FAILED" /\ AllTerminal(files))
            => Answers' = {answer}]_vars

(* A job whose documents have all ended is reported as ended, unless an    *)
(* ending was lost on its way or taken back in the map, the rejection of   *)
(* the batch could not be recorded, or a file was uploaded twice: then an  *)
(* invocation that found no outputs may clear ResultsReady after another   *)
(* has set it.                                                             *)
JobEnds ==
  []<>(\/ pre.at # "done"
       \/ \E u \in Upload : run[u] \in UnderWay
       \/ untold \/ disturbed \/ \E f \in File : ~UploadedOnce(f)
       \/ Answers \subseteq Final)

(* Claim of api_handler/index.py:225-227, "only fully terminal             *)
(* (SUCCEEDED/PARTIALLY_SUCCEEDED) once JobTracker has packaged and        *)
(* uploaded results.zip": with no event under way, the zip a caller is     *)
(* sent to holds the results of every file reported as completed.          *)
SuccessHasEveryResult ==
  Quiet =>
    \A reading \in Readings :
      JobStatus(reading) \in WithResults =>
        \A f \in DOMAIN files : reading[f] = "COMPLETED" => f \in zip

=============================================================================
