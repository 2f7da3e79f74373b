--------------------------- MODULE DocumentVersions ---------------------------
(***************************************************************************)
(* The versions of one document.  Every run writes its outputs under the   *)
(* document's keys in a versioned bucket.  When a run has succeeded, the   *)
(* workflow tracker lists what is current there, pins it in the run's      *)
(* manifest and records the run.  An Admin may delete a recorded run: the  *)
(* object versions that no other manifest pins, the manifest, the record.  *)
(* Upload, reprocess and edit clear outputs before they queue a new run.   *)
(*                                                                         *)
(* A run writes each output once (a step that is retried writes the same   *)
(* bytes again), so that an object version is known by its run; 0 is a     *)
(* delete marker.  A run's id sorts by its end; that two runs end in the   *)
(* same second is left out.                                                *)
(***************************************************************************)
EXTENDS Integers, Sequences, FiniteSets

CONSTANTS
  Output,    \* output objects of the document
  Page,      \* those under pages/
  Tracker,   \* the workflow tracker's invocations
  Admin,     \* calls of deleteDocumentVersion
  MaxRuns,   \* bound: runs
  MaxFaults  \* bound: calls that fail, crashes, events delivered again

ASSUME VersionsAssumption ==
  /\ IsFiniteSet(Output) /\ Page \subseteq Output
  /\ MaxRuns \in Nat
  /\ MaxFaults \in Nat

VARIABLES
  bucket,     \* the versions written of each output, oldest first
  removed,    \* those of them that were deleted by their version id
  exec,       \* what each run is doing, and the outputs it is done with
  rank,       \* the order in which runs succeeded, 0 for the others
  events,     \* runs whose terminal event is on its way
  tracker,    \* where each tracker invocation is, and what it listed
  manifests,  \* the manifests, by run
  records,    \* the run records
  before,     \* what they were before the last write of one
  admin,      \* where each deletion is, and what it read
  faults,
  left,       \* history: the outputs a run left when it succeeded
  gone,       \* history: runs whose versions a deletion has removed
  disturbed   \* history: a run was pinned while, or after, another one was
              \* under way, two deletions crossed, or the newest record was
              \* taken for an older one because it was not listed yet
s3 == <<bucket, removed, manifests>>
runs == <<exec, rank, left>>
history == <<gone, disturbed>>
versions == <<records, before>>
vars == <<s3, runs, events, tracker, versions, admin, faults, history>>

Run == 1..MaxRuns
Marker == 0
Contents == UNION {[K -> Run] : K \in SUBSET Output}
NoFiles == <<>>
NotTracking == [at |-> "idle", r |-> 0, files |-> NoFiles]
NotDeleting == [at |-> "idle", r |-> 0, pins |-> {}, todo |-> {}]

TypeOK ==
  /\ \A k \in Output : \A i \in DOMAIN bucket[k] : bucket[k][i] \in {Marker} \cup Run
  /\ removed \subseteq Output \X Run
  /\ exec \in [Run -> [at : {"none", "purging", "running", "ended", "failed"},
                       keys : SUBSET Output]]
  /\ rank \in [Run -> 0..MaxRuns]
  /\ events \subseteq Run
  /\ \A t \in Tracker :
       /\ tracker[t].at \in {"idle", "listed", "pinned"}
       /\ tracker[t].r \in {0} \cup Run
       /\ tracker[t].files \in Contents
  /\ DOMAIN manifests \subseteq Run
  /\ \A r \in DOMAIN manifests : manifests[r] \in Contents
  /\ records \subseteq Run /\ before \subseteq Run
  /\ admin \in [Admin ->
       [at : {"idle", "allowed", "loaded", "counting", "clearing", "cleared"},
        r : {0} \cup Run, pins : SUBSET (Output \X Run), todo : SUBSET Run]]
  /\ faults \in 0..MaxFaults
  /\ left \in [Run -> Contents]
  /\ gone \subseteq Run
  /\ disturbed \in BOOLEAN

Init ==
  /\ bucket = [k \in Output |-> <<>>]
  /\ removed = {}
  /\ exec = [r \in Run |-> [at |-> "none", keys |-> {}]]
  /\ rank = [r \in Run |-> 0]
  /\ events = {}
  /\ tracker = [t \in Tracker |-> NotTracking]
  /\ manifests = <<>>
  /\ records = {}
  /\ before = {}
  /\ admin = [d \in Admin |-> NotDeleting]
  /\ faults = 0
  /\ left = [r \in Run |-> NoFiles]
  /\ gone = {}
  /\ disturbed = FALSE

-----------------------------------------------------------------------------
Fault == faults < MaxFaults /\ faults' = faults + 1

(* What a read without a version id finds: the last of the versions that   *)
(* are still there.                                                        *)
Kept(k) == {i \in DOMAIN bucket[k] : <<k, bucket[k][i]>> \notin removed}
Last(places) == CHOOSE i \in places : \A j \in places : j <= i
Current(k) ==
  LET places == Kept(k)
  IN  IF places = {} THEN Marker ELSE bucket[k][Last(places)]
Exists(k) == Current(k) # Marker

(* Mutant of Listed: delete markers are not left out.                      *)
ListedWithMarkers == [k \in {k \in Output : Kept(k) # {}} |-> Current(k)]

(* list_current_output_versions                                            *)
Listed == [k \in {k \in Output : Exists(k)} |-> Current(k)]

(* A delete by key puts a marker on top; one by version takes that version *)
(* out, which is done to removed, and leaves the others.                   *)
WithMarkers(K) == [k \in Output |-> IF k \in K THEN Append(bucket[k], Marker) ELSE bucket[k]]

(* A record is put or deleted; a read may still find what was there before. *)
PutRecords(set) == records' = set /\ before' = records

Without(f, r) == [x \in DOMAIN f \ {r} |-> f[x]]
With(f, r, value) == [x \in DOMAIN f \cup {r} |-> IF x = r THEN value ELSE f[x]]

-----------------------------------------------------------------------------
(* The runs.                                                               *)
RunsOnly == UNCHANGED <<removed, manifests, tracker, versions, admin, history>>

(* An upload clears the pages, a reprocess all outputs, an edit those of   *)
(* the sections it changed: what is there is listed first.                 *)
Begin(r) ==
  /\ exec[r].at = "none"
  /\ \A o \in Run : o < r => exec[o].at # "none"
  /\ \E cleared \in {Page, Output, Output \ Page} :
       exec' = [exec EXCEPT ![r] =
         [at |-> "purging", keys |-> {k \in cleared : Exists(k)}]]
  /\ UNCHANGED <<bucket, rank, left, events, faults>>
  /\ RunsOnly

Purge(r) ==
  /\ exec[r].at = "purging"
  /\ bucket' = WithMarkers(exec[r].keys)
  /\ exec' = [exec EXCEPT ![r] = [at |-> "running", keys |-> {}]]
  /\ UNCHANGED <<rank, left, events, faults>>
  /\ RunsOnly

(* A purge that fails, wholly or in part, is logged; the run goes on.      *)
PurgeFails(r) ==
  /\ exec[r].at = "purging"
  /\ Fault
  /\ \E K \in SUBSET exec[r].keys : K # exec[r].keys /\ bucket' = WithMarkers(K)
  /\ exec' = [exec EXCEPT ![r] = [at |-> "running", keys |-> {}]]
  /\ UNCHANGED <<rank, left, events>>
  /\ RunsOnly

(* A page that is there is recovered and not written; a run need not write *)
(* every other output.                                                     *)
Recovered(k) == k \in Page /\ Exists(k)

WriteOutput(r, k) ==
  /\ exec[r].at = "running"
  /\ k \notin exec[r].keys
  /\ bucket' = IF Recovered(k) THEN bucket ELSE [bucket EXCEPT ![k] = Append(@, r)]
  /\ exec' = [exec EXCEPT ![r].keys = @ \cup {k}]
  /\ UNCHANGED <<rank, left, events, faults>>
  /\ RunsOnly

Succeed(r) ==
  /\ exec[r].at = "running"
  /\ Page \subseteq exec[r].keys
  /\ exec' = [exec EXCEPT ![r] = [at |-> "ended", keys |-> {}]]
  /\ rank' = [rank EXCEPT ![r] = 1 + Cardinality({o \in Run : rank[o] > 0})]
  /\ left' = [left EXCEPT ![r] = Listed]
  /\ events' = events \cup {r}
  /\ UNCHANGED <<bucket, faults>>
  /\ RunsOnly

FailRun(r) ==
  /\ exec[r].at = "running"
  /\ exec' = [exec EXCEPT ![r] = [at |-> "failed", keys |-> {}]]
  /\ UNCHANGED <<bucket, rank, left, events, faults>>
  /\ RunsOnly

-----------------------------------------------------------------------------
(* record_document_run                                                     *)
Alone(r) ==
  \A o \in Run \ {r} : exec[o].at # "none" => o < r /\ exec[o].at \in {"ended", "failed"}

TrackerOnly == UNCHANGED <<bucket, removed, runs, admin, gone>>

TrackerLists(t, r) ==
  /\ tracker[t].at = "idle"
  /\ r \in events
  /\ \/ events' = events \ {r} /\ UNCHANGED faults
     \/ UNCHANGED events /\ Fault                     \* delivered again
  /\ tracker' = [tracker EXCEPT ![t] = [at |-> "listed", r |-> r, files |-> Listed]]
  /\ disturbed' = (disturbed \/ ~Alone(r))
  /\ UNCHANGED <<manifests, versions>>
  /\ TrackerOnly

TrackerPins(t) ==
  /\ tracker[t].at = "listed"
  /\ manifests' = With(manifests, tracker[t].r, tracker[t].files)
  /\ tracker' = [tracker EXCEPT ![t].at = "pinned"]
  /\ disturbed' = (disturbed \/ ~Alone(tracker[t].r))
  /\ UNCHANGED <<events, versions, faults>>
  /\ TrackerOnly

TrackerRecords(t) ==
  /\ tracker[t].at = "pinned"
  /\ PutRecords(records \cup {tracker[t].r})
  /\ tracker' = [tracker EXCEPT ![t] = NotTracking]
  /\ UNCHANGED <<manifests, events, faults, disturbed>>
  /\ TrackerOnly

(* A call that fails is logged and the run goes unrecorded; an invocation  *)
(* that dies is retried with its event.                                    *)
TrackerFails(t) ==
  /\ tracker[t].at # "idle"
  /\ Fault
  /\ events' = events \/ events' = events \cup {tracker[t].r}
  /\ tracker' = [tracker EXCEPT ![t] = NotTracking]
  /\ UNCHANGED <<manifests, versions, disturbed>>
  /\ TrackerOnly

-----------------------------------------------------------------------------
(* delete_document_version                                                 *)
AdminOnly == UNCHANGED <<runs, events, tracker>>
DeletionGoesTo(d, at) == admin' = [admin EXCEPT ![d].at = at]

(* Mutant of IsCurrentVersion: the newest may be deleted too.              *)
NoneIsCurrent(r, listed) == FALSE

(* The newest of the records listed is taken for the one whose outputs are *)
(* current.                                                                *)
IsNewest(r, listed) == r \in listed /\ \A o \in listed : rank[o] <= rank[r]
IsCurrentVersion(r, listed) == IsNewest(r, listed)

(* The record is read, and then all of them are listed: neither read is    *)
(* asked to be consistent.                                                 *)
AskToDelete(d, r) ==
  /\ admin[d].at = "idle"
  /\ \E found, listed \in {records, before} :
       /\ r \in found
       /\ ~IsCurrentVersion(r, listed)
       /\ disturbed' = (\/ disturbed
                        \/ \E e \in Admin : admin[e].at # "idle"
                        \/ listed # records /\ IsNewest(r, records))
  /\ admin' = [admin EXCEPT ![d] = [NotDeleting EXCEPT !.at = "allowed", !.r = r]]
  /\ UNCHANGED <<s3, versions, faults, gone>>
  /\ AdminOnly

Pinned(r) ==
  IF r \in DOMAIN manifests THEN {<<k, manifests[r][k]>> : k \in DOMAIN manifests[r]} ELSE {}

LoadManifest(d) ==
  /\ admin[d].at = "allowed"
  /\ admin' = [admin EXCEPT
       ![d].at = IF admin[d].r \in DOMAIN manifests THEN "loaded" ELSE "clearing",
       ![d].pins = Pinned(admin[d].r)]
  /\ UNCHANGED <<s3, versions, faults, history>>
  /\ AdminOnly

(* referenced_versions_excluding: the runs that have a manifest, then the  *)
(* manifests one by one.                                                   *)
ListOthers(d) ==
  /\ admin[d].at = "loaded"
  /\ admin' = [admin EXCEPT ![d].at = "counting",
                            ![d].todo = DOMAIN manifests \ {admin[d].r}]
  /\ UNCHANGED <<s3, versions, faults, history>>
  /\ AdminOnly

(* Mutant of Unreferenced: what others pin is not counted.                 *)
AllPins(d, o) == admin[d].pins

Unreferenced(d, o) == admin[d].pins \ Pinned(o)

LoadOther(d, o) ==
  /\ admin[d].at = "counting"
  /\ o \in admin[d].todo
  /\ admin' = [admin EXCEPT ![d].todo = @ \ {o}, ![d].pins = Unreferenced(d, o)]
  /\ UNCHANGED <<s3, versions, faults, history>>
  /\ AdminOnly

DeleteVersions(d) ==
  /\ admin[d].at = "counting"
  /\ admin[d].todo = {}
  /\ removed' = removed \cup admin[d].pins
  /\ gone' = gone \cup {admin[d].r}
  /\ DeletionGoesTo(d, "clearing")
  /\ UNCHANGED <<bucket, manifests, versions, faults, disturbed>>
  /\ AdminOnly

(* The objects under the run's own prefix are listed and deleted, which is *)
(* one step here.                                                          *)
DeleteManifest(d) ==
  /\ admin[d].at = "clearing"
  /\ manifests' = Without(manifests, admin[d].r)
  /\ DeletionGoesTo(d, "cleared")
  /\ UNCHANGED <<bucket, removed, versions, faults, history>>
  /\ AdminOnly

DeleteRecord(d) ==
  /\ admin[d].at = "cleared"
  /\ PutRecords(records \ {admin[d].r})
  /\ admin' = [admin EXCEPT ![d] = NotDeleting]
  /\ UNCHANGED <<s3, faults, history>>
  /\ AdminOnly

(* The call fails half-way; what it has done stays done.                   *)
DeletionFails(d) ==
  /\ admin[d].at # "idle"
  /\ Fault
  /\ admin' = [admin EXCEPT ![d] = NotDeleting]
  /\ UNCHANGED <<s3, versions, history>>
  /\ AdminOnly

-----------------------------------------------------------------------------
Runs(r) ==
  \/ Begin(r) \/ Purge(r) \/ PurgeFails(r) \/ Succeed(r) \/ FailRun(r)
  \/ \E k \in Output : WriteOutput(r, k)

Tracks(t) ==
  \/ TrackerPins(t) \/ TrackerRecords(t) \/ TrackerFails(t)
  \/ \E r \in Run : TrackerLists(t, r)

Deletes(d) ==
  \/ LoadManifest(d) \/ ListOthers(d) \/ DeleteVersions(d)
  \/ DeleteManifest(d) \/ DeleteRecord(d) \/ DeletionFails(d)
  \/ \E r \in Run : AskToDelete(d, r) \/ LoadOther(d, r)

Next ==
  \/ \E r \in Run : Runs(r)
  \/ \E t \in Tracker : Tracks(t)
  \/ \E d \in Admin : Deletes(d)

Spec == Init /\ [][Next]_vars

-----------------------------------------------------------------------------
Stored(r) ==
  /\ r \in DOMAIN manifests
  /\ \A k \in DOMAIN manifests[r] :
       \E i \in Kept(k) : bucket[k][i] = manifests[r][k]

(* docs/document-versions.md:119-121, "deleting one version never corrupts *)
(* another": every object version a recorded run pins is there until its   *)
(* own deletion removes it, also when runs share what one of them did not  *)
(* write anew, deletions fail half-way, and runs fail.  It needs runs that *)
(* are pinned before the next one begins, one deletion at a time, and that *)
(* the guard of a deletion is not passed by the newest record itself       *)
(* because a late read leaves it out.                                      *)
DeletionSparesOtherVersions ==
  ~disturbed => \A r \in records \ gone : Stored(r)

(* Under the same conditions a deletion never takes away, or brings back,  *)
(* an output of the document as it is: the newest record stands for it,    *)
(* also when later runs have failed and left outputs behind.               *)
DeletionSparesTheDocument ==
  [][(\E d \in Admin : admin[d].at = "counting" /\ admin'[d].at = "clearing") /\ ~disturbed
       => \A k \in Output : Current(k)' = Current(k)]_vars

(* Claim of docs/document-versions.md:59-62: "fetching an object by its    *)
(* pinned VersionId returns that run's exact bytes even after later runs   *)
(* overwrite the object or a reprocess deletes it".                        *)
VersionReturnsItsRunsBytes ==
  \A r \in records \ gone : Stored(r) /\ manifests[r] = left[r]

=============================================================================
