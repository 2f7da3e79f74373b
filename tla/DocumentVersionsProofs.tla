------------------------ MODULE DocumentVersionsProofs ------------------------
(***************************************************************************)
(* What holds of the versions of a document for any outputs, runs,         *)
(* trackers, deletions and faults, as long as no run is pinned while       *)
(* another is under way, no two deletions cross, and no late read hides    *)
(* the newest record from the guard.                                       *)
(*                                                                         *)
(* The idea: a version that is pinned and on top is pinned by every later  *)
(* run too, so that a deletion, which needs a later record and leaves what *)
(* another manifest pins, never takes what is on top.  What is read of an  *)
(* output therefore only changes by runs, and a run that is pinned finds   *)
(* no run after it.                                                        *)
(***************************************************************************)
EXTENDS DocumentVersions, FiniteSetTheorems, WellFoundedInduction, TLAPS

USE DEF versions, PutRecords

Version == {Marker} \cup Run
Ranked == {o \in Run : rank[o] > 0}
Over(r) == exec[r].at \in {"ended", "failed"}

BucketInv ==
  /\ bucket \in [Output -> Seq(Version)]
  /\ removed \subseteq Output \X Run
  /\ \A k \in Output : \A i \in DOMAIN bucket[k] :
       bucket[k][i] \in Run => exec[bucket[k][i]].at # "none"

(* Runs begin in order, and are ranked as they succeed.                    *)
ExecInv ==
  /\ exec \in [Run -> [at : {"none", "purging", "running", "ended", "failed"},
                       keys : SUBSET Output]]
  /\ rank \in [Run -> 0..MaxRuns]
  /\ \A r \in Run : rank[r] > 0 <=> exec[r].at = "ended"
  /\ \A r \in Run : rank[r] <= Cardinality(Ranked)
  /\ \A r, o \in Run : o < r /\ exec[r].at # "none" => exec[o].at # "none"
  /\ left \in [Run -> Contents]
  /\ events \subseteq Run
  /\ \A r \in events : exec[r].at = "ended"

Tracking == [at : {"idle", "listed", "pinned"}, r : {0} \cup Run, files : Contents]

TrackInv ==
  /\ tracker \in [Tracker -> Tracking]
  /\ \A t \in Tracker :
       tracker[t].at # "idle" => tracker[t].r \in Run /\ exec[tracker[t].r].at = "ended"

RecordInv ==
  /\ DOMAIN manifests \subseteq Run
  /\ \A r \in DOMAIN manifests : manifests[r] \in Contents
  /\ records \subseteq Run /\ before \subseteq Run
  /\ gone \subseteq Run
  /\ disturbed \in BOOLEAN
  /\ faults \in 0..MaxFaults

Deleting ==
  [at : {"idle", "allowed", "loaded", "counting", "clearing", "cleared"},
   r : {0} \cup Run, pins : SUBSET (Output \X Run), todo : SUBSET Run]

AdminInv ==
  /\ admin \in [Admin -> Deleting]
  /\ \A d \in Admin : admin[d].at # "idle" => admin[d].r \in Run

TInv == BucketInv /\ ExecInv /\ TrackInv /\ RecordInv /\ AdminInv

-----------------------------------------------------------------------------
(* A run somebody has listed, pinned, recorded or deleted is over, as is   *)
(* every run before it, and those after it rank higher.                    *)
Handled(r) == \E t \in Tracker : tracker[t].at # "idle" /\ tracker[t].r = r
Tracked(r) == r \in DOMAIN manifests \cup records \cup gone \/ Handled(r)

TrackedInv ==
  \A r \in Run : Tracked(r) =>
    /\ exec[r].at = "ended"
    /\ \A o \in Run : o < r => Over(o)
    /\ \A o \in Run : r < o /\ rank[o] > 0 => rank[r] < rank[o]

(* As long as no run has begun after it, what a run was listed or pinned   *)
(* with is what is there.                                                  *)
FreshInv ==
  /\ \A t \in Tracker :
       tracker[t].at = "listed" /\ Alone(tracker[t].r) => tracker[t].files = Listed
  /\ \A r \in DOMAIN manifests : Alone(r) => manifests[r] = Listed

Valid == DOMAIN manifests \ gone

(* A run's manifest pins versions of that run and of earlier ones, and all *)
(* of these that are on top of their outputs, however many have begun      *)
(* since.                                                                  *)
PinsInv ==
  /\ \A r \in DOMAIN manifests : \A k \in DOMAIN manifests[r] : manifests[r][k] <= r
  /\ \A m \in Valid, k \in Output :
       Current(k) \in Run /\ Current(k) <= m => <<k, Current(k)>> \in Pinned(m)
  /\ \A r \in Valid : Stored(r)
  /\ records \subseteq Valid \cup gone
  /\ \A t \in Tracker : tracker[t].at = "pinned" => tracker[t].r \in Valid \cup gone

Newer(r) == \E m \in records \ gone : m > r

(* A deletion has a newer record beside it, and what it still means to     *)
(* remove of other manifests' pins is pinned by one it has yet to load.    *)
DeletionInv ==
  /\ \A r \in gone : Newer(r)
  /\ \A d, e \in Admin : admin[d].at # "idle" /\ admin[e].at # "idle" => d = e
  /\ \A d \in Admin :
       admin[d].at # "idle" => admin[d].r \in records \cup gone /\ Newer(admin[d].r)
  /\ \A d \in Admin :
       admin[d].at \in {"loaded", "counting"} => admin[d].pins \subseteq Pinned(admin[d].r)
  /\ \A d \in Admin : admin[d].at = "counting" =>
       /\ admin[d].todo \subseteq DOMAIN manifests
       /\ \A o \in DOMAIN manifests \ {admin[d].r} : \A p \in admin[d].pins \cap Pinned(o) :
            \E q \in admin[d].todo : p \in Pinned(q)
  /\ \A d \in Admin : admin[d].at \in {"clearing", "cleared"} => admin[d].r \in gone

Quiet == TrackedInv /\ FreshInv /\ PinsInv /\ DeletionInv

(* What a late read still finds is recorded, or was deleted.               *)
PastInv == before \subseteq records \cup gone

IInv == TInv /\ (~disturbed => Quiet /\ PastInv)

-----------------------------------------------------------------------------
(* The last of the versions of an output that are kept.                    *)
LEMMA LastExists ==
  ASSUME NEW n \in Nat, NEW places \in SUBSET (1..n), places # {}
  PROVE  \E i \in places : \A j \in places : j <= i
<1> DEFINE bounds == {u \in Nat : \A j \in places : j <= u}
<1>1. n \in bounds  OBVIOUS
<1>2. PICK u \in bounds : \A v \in bounds : ~(<<v, u>> \in OpToRel(<, Nat))
  <2>1. bounds \subseteq Nat /\ bounds # {}  BY <1>1
  <2> HIDE DEF bounds
  <2> QED  BY <2>1, WFMin, NatLessThanWellFounded
<1>3. \A v \in bounds : ~(v < u)  BY <1>2 DEF OpToRel
<1>4. CASE u \in places  BY <1>4
<1>5. CASE u \notin places
  <2>1. u \in Nat /\ u - 1 \in Int /\ \A j \in places : j \in Nat /\ j # 0 /\ j <= u /\ j # u
    BY <1>5
  <2>2. \A j \in places : j <= u - 1  BY <2>1
  <2>3. u # 0
    <3>1. PICK j \in places : TRUE  OBVIOUS
    <3> QED  BY <2>1, <3>1
  <2>4. u - 1 \in bounds  BY <2>1, <2>2, <2>3
  <2> QED  BY <1>3, <2>1, <2>4
<1> QED  BY <1>4, <1>5

LEMMA LastIs ==
  ASSUME NEW places \in SUBSET Nat, NEW i \in places, \A j \in places : j <= i
  PROVE  Last(places) = i
<1>1. Last(places) \in places /\ \A j \in places : j <= Last(places)  BY DEF Last
<1> DEFINE l == Last(places)
<1>2. l \in places /\ i <= l  BY <1>1
<1> HIDE DEF l
<1>3. l \in Nat /\ i \in Nat /\ l <= i  BY <1>2
<1> QED  BY <1>2, <1>3 DEF l

LEMMA LastOf ==
  ASSUME NEW n \in Nat, NEW places \in SUBSET (1..n), places # {}
  PROVE  Last(places) \in places /\ \A j \in places : j <= Last(places)
BY LastExists DEF Last

LEMMA KeptForm ==
  ASSUME TInv, NEW k \in Output
  PROVE  /\ Len(bucket[k]) \in Nat /\ DOMAIN bucket[k] = 1..Len(bucket[k])
         /\ bucket[k] \in Seq(Version)
         /\ Kept(k) \subseteq 1..Len(bucket[k])
BY DEF TInv, BucketInv, Kept

LEMMA CurrentForm ==
  ASSUME TInv, NEW k \in Output
  PROVE  /\ Current(k) \in Version
         /\ Current(k) \in Run => \E i \in Kept(k) : bucket[k][i] = Current(k)
         /\ Current(k) \in Run => exec[Current(k)].at # "none" /\ <<k, Current(k)>> \notin removed
<1>1. CASE Kept(k) = {}  BY <1>1 DEF Current, Version, Marker, Run
<1>2. CASE Kept(k) # {}
  <2>1. Last(Kept(k)) \in Kept(k)  BY <1>2, KeptForm, LastOf
  <2>2. Current(k) = bucket[k][Last(Kept(k))]  BY <1>2 DEF Current
  <2>3. Last(Kept(k)) \in DOMAIN bucket[k]  BY <2>1 DEF Kept
  <2>4. bucket[k][Last(Kept(k))] \in Version  BY <2>3, KeptForm
  <2>5. <<k, Current(k)>> \notin removed  BY <2>1, <2>2 DEF Kept
  <2> QED  BY <2>1, <2>2, <2>3, <2>4, <2>5 DEF TInv, BucketInv
<1> QED  BY <1>1, <1>2

(* What is written comes on top.                                           *)
LEMMA CurrentWritten ==
  ASSUME TInv, NEW k \in Output, NEW v \in Version, bucket'[k] = Append(bucket[k], v),
         removed' = removed
  PROVE  Current(k)' \in {v, Current(k)}
<1> DEFINE n == Len(bucket[k])
<1>1. n \in Nat /\ DOMAIN bucket[k] = 1..n /\ Kept(k) \subseteq 1..n  BY KeptForm
<1>2. /\ DOMAIN bucket'[k] = 1..(n + 1) /\ bucket'[k][n + 1] = v
      /\ \A i \in 1..n : bucket'[k][i] = bucket[k][i]
  BY <1>1, KeptForm
<1>3. CASE <<k, v>> \in removed
  <2>1. Kept(k)' = Kept(k)  BY <1>1, <1>2, <1>3 DEF Kept
  <2>2. CASE Kept(k) = {}  BY <2>1, <2>2 DEF Current
  <2>3. CASE Kept(k) # {}
    <3>1. Last(Kept(k)) \in 1..n  BY <1>1, <2>3, LastOf
    <3> QED  BY <1>2, <2>1, <2>3, <3>1 DEF Current
  <2> QED  BY <2>2, <2>3
<1>4. CASE <<k, v>> \notin removed
  <2>1. n + 1 \in Kept(k)' /\ Kept(k)' \subseteq 1..(n + 1)  BY <1>1, <1>2, <1>4 DEF Kept
  <2>2. Last(Kept(k)') = n + 1
    <3> DEFINE P == Kept(k)'
    <3>1. P \in SUBSET Nat /\ n + 1 \in P /\ \A j \in P : j <= n + 1  BY <1>1, <2>1
    <3> HIDE DEF P
    <3> QED  BY <3>1, LastIs DEF P
  <2> QED  BY <1>2, <2>1, <2>2 DEF Current
<1> QED  BY <1>3, <1>4

LEMMA CurrentSame ==
  ASSUME NEW k \in Output, bucket'[k] = bucket[k], removed' = removed
  PROVE  Current(k)' = Current(k)
BY DEF Current, Kept

(* A deletion that leaves what is on top uncovers nothing.                 *)
LEMMA CurrentSpared ==
  ASSUME TInv, NEW k \in Output, NEW pairs, bucket' = bucket, removed' = removed \cup pairs,
         <<k, Current(k)>> \notin pairs
  PROVE  Current(k)' = Current(k)
<1>1. Len(bucket[k]) \in Nat /\ Kept(k) \subseteq 1..Len(bucket[k])  BY KeptForm
<1>2. Kept(k)' \subseteq Kept(k)  BY DEF Kept
<1>3. CASE Kept(k) = {}  BY <1>2, <1>3 DEF Current
<1>4. CASE Kept(k) # {}
  <2> DEFINE i == Last(Kept(k))
  <2>1. i \in Kept(k) /\ \A j \in Kept(k) : j <= i  BY <1>1, <1>4, LastOf
  <2>2. Current(k) = bucket[k][i]  BY <1>4 DEF Current
  <2>3. i \in Kept(k)'  BY <2>1, <2>2 DEF Kept
  <2>4. Last(Kept(k)') = i
    <3> DEFINE P == Kept(k)'
    <3>1. P \in SUBSET Nat /\ i \in P /\ \A j \in P : j <= i  BY <1>1, <1>2, <2>1, <2>3
    <3> HIDE DEF P, i
    <3> QED  BY <3>1, LastIs DEF P
  <2> QED  BY <2>2, <2>3, <2>4 DEF Current
<1> QED  BY <1>3, <1>4

-----------------------------------------------------------------------------
(* What a step of a run does.                                              *)
RunEffect(r) ==
  /\ UNCHANGED <<removed, manifests, tracker, records, before, admin, gone, disturbed>>
  /\ exec[r].at \in {"none", "purging", "running"}
  /\ exec'[r] \in [at : {"purging", "running", "ended", "failed"}, keys : SUBSET Output]
  /\ exec' = [exec EXCEPT ![r] = exec'[r]]
  /\ exec[r].at = "none" => \A o \in Run : o < r => exec[o].at # "none"
  /\ \/ exec'[r].at # "ended" /\ UNCHANGED <<rank, left, events>>
     \/ /\ exec'[r].at = "ended"
        /\ rank' = [rank EXCEPT ![r] = 1 + Cardinality(Ranked)]
        /\ left' = [left EXCEPT ![r] = Listed]
        /\ events' = events \cup {r}
  /\ \/ bucket' = bucket
     \/ /\ exec'[r].at = "running"
        /\ bucket' = [k \in Output |-> bucket'[k]]
        /\ \A k \in Output : \/ bucket'[k] = bucket[k]
                             \/ bucket'[k] = Append(bucket[k], Marker)
                             \/ bucket'[k] = Append(bucket[k], r)
  /\ UNCHANGED faults \/ Fault

LEMMA RunEffects == ASSUME TInv, NEW r \in Run, Runs(r) PROVE RunEffect(r)
<1>1. /\ exec \in [Run -> [at : {"none", "purging", "running", "ended", "failed"},
                           keys : SUBSET Output]]
      /\ bucket \in [Output -> Seq(Version)]
  BY DEF TInv, ExecInv, BucketInv
<1> USE DEF RunsOnly, history
<1>2. ASSUME NEW e, exec' = [exec EXCEPT ![r] = e]
      PROVE exec'[r] = e /\ exec' = [exec EXCEPT ![r] = exec'[r]]
  BY <1>1, <1>2
<1>3. CASE Begin(r)
  <2>1. PICK K \in SUBSET Output : exec' = [exec EXCEPT ![r] = [at |-> "purging", keys |-> K]]
    BY <1>3, VersionsAssumption DEF Begin, VersionsAssumption
  <2>2. exec'[r] = [at |-> "purging", keys |-> K] /\ exec' = [exec EXCEPT ![r] = exec'[r]]
    BY <1>2, <2>1
  <2> QED  BY <1>3, <2>2 DEF Begin, RunEffect
<1>4. ASSUME NEW K, bucket' = WithMarkers(K)
      PROVE /\ bucket' = [k \in Output |-> bucket'[k]]
            /\ \A k \in Output : bucket'[k] \in {bucket[k], Append(bucket[k], Marker)}
  BY <1>4 DEF WithMarkers
<1>5. CASE Purge(r) \/ PurgeFails(r)
  <2>1. exec' = [exec EXCEPT ![r] = [at |-> "running", keys |-> {}]]  BY <1>5 DEF Purge, PurgeFails
  <2>2. exec'[r] = [at |-> "running", keys |-> {}] /\ exec' = [exec EXCEPT ![r] = exec'[r]]
    BY <1>2, <2>1
  <2>3. /\ bucket' = [k \in Output |-> bucket'[k]]
        /\ \A k \in Output : bucket'[k] \in {bucket[k], Append(bucket[k], Marker)}
    BY <1>4, <1>5 DEF Purge, PurgeFails
  <2> QED  BY <1>5, <2>2, <2>3 DEF Purge, PurgeFails, RunEffect
<1>6. ASSUME NEW k \in Output, WriteOutput(r, k) PROVE RunEffect(r)
  <2>1. /\ exec[r].at = "running"
        /\ exec' = [exec EXCEPT ![r].keys = exec[r].keys \cup {k}]
        /\ bucket' = bucket \/ bucket' = [bucket EXCEPT ![k] = Append(bucket[k], r)]
        /\ UNCHANGED <<removed, manifests, tracker, records, before, admin, gone, disturbed,
                       rank, left, events, faults>>
    BY <1>6 DEF WriteOutput
  <2>2. exec'[r] = [at |-> "running", keys |-> exec[r].keys \cup {k}]
        /\ exec' = [exec EXCEPT ![r] = exec'[r]]
    BY <1>1, <2>1
  <2>3. \/ bucket' = bucket
        \/ /\ bucket' = [j \in Output |-> bucket'[j]]
           /\ \A j \in Output : bucket'[j] \in {bucket[j], Append(bucket[j], r)}
    BY <1>1, <2>1
  <2>4. exec[r].keys \cup {k} \in SUBSET Output  BY <1>1
  <2> QED  BY <2>1, <2>2, <2>3, <2>4 DEF RunEffect
<1>7. CASE Succeed(r)
  <2>1. exec'[r] = [at |-> "ended", keys |-> {}] /\ exec' = [exec EXCEPT ![r] = exec'[r]]
    BY <1>2, <1>7 DEF Succeed
  <2> QED  BY <1>7, <2>1 DEF Succeed, RunEffect, Ranked
<1>8. CASE FailRun(r)
  <2>1. exec'[r] = [at |-> "failed", keys |-> {}] /\ exec' = [exec EXCEPT ![r] = exec'[r]]
    BY <1>2, <1>8 DEF FailRun
  <2> QED  BY <1>8, <2>1 DEF FailRun, RunEffect
<1> QED  BY <1>3, <1>5, <1>6, <1>7, <1>8 DEF Runs

LEMMA ListedForm == ASSUME TInv PROVE Listed \in Contents
<1> DEFINE K == {k \in Output : Exists(k)}
<1>1. \A k \in K : Current(k) \in Run
  BY CurrentForm DEF Exists, Version
<1>2. K \in SUBSET Output /\ Listed \in [K -> Run]  BY <1>1 DEF Listed
<1> QED  BY <1>2 DEF Contents

LEMMA ContentsForm ==
  ASSUME NEW f \in Contents
  PROVE  DOMAIN f \subseteq Output /\ \A k \in DOMAIN f : f[k] \in Run
BY DEF Contents

LEMMA PinnedForm ==
  ASSUME TInv, NEW r, NEW p \in Pinned(r)
  PROVE  /\ r \in DOMAIN manifests
         /\ p[1] \in DOMAIN manifests[r] /\ p[1] \in Output
         /\ p[2] = manifests[r][p[1]] /\ p[2] \in Run
         /\ p = <<p[1], p[2]>>
<1>1. r \in DOMAIN manifests  BY DEF Pinned
<1>2. manifests[r] \in Contents  BY <1>1 DEF TInv, RecordInv
<1>3. PICK k \in DOMAIN manifests[r] : p = <<k, manifests[r][k]>>  BY <1>1 DEF Pinned
<1> QED  BY <1>1, <1>2, <1>3, ContentsForm

LEMMA NoFilesForm == NoFiles \in Contents
<1>1. {} \in SUBSET Output /\ NoFiles \in [{} -> Run]  BY DEF NoFiles
<1> QED  BY <1>1 DEF Contents

-----------------------------------------------------------------------------
(* The types are preserved.                                                *)
LEMMA InitTInv == Init => TInv
<1> SUFFICES ASSUME Init PROVE TInv  OBVIOUS
<1>1. MaxRuns \in Nat /\ MaxFaults \in Nat  BY VersionsAssumption DEF VersionsAssumption
<1>2. BucketInv
  <2>1. bucket \in [Output -> Seq(Version)] /\ \A k \in Output : bucket[k] = <<>>  BY DEF Init
  <2> QED  BY <2>1 DEF Init, BucketInv
<1>3. Ranked = {}  BY DEF Init, Ranked
<1>4. Cardinality(Ranked) = 0  BY <1>3, FS_EmptySet
<1>5. ExecInv  BY <1>1, <1>4, NoFilesForm DEF Init, ExecInv
<1>6. TrackInv  BY NoFilesForm DEF Init, TrackInv, Tracking, NotTracking
<1>7. RecordInv
  <2>1. /\ manifests = <<>> /\ records = {} /\ before = {} /\ gone = {} /\ disturbed = FALSE
        /\ faults = 0
    BY DEF Init
  <2>2. DOMAIN manifests = {}  BY <2>1
  <2>3. disturbed \in BOOLEAN  BY <2>1
  <2>4. faults \in 0..MaxFaults  BY <1>1, <2>1
  <2> QED  BY <2>1, <2>2, <2>3, <2>4 DEF RecordInv
<1>8. AdminInv  BY DEF Init, AdminInv, Deleting, NotDeleting
<1> QED  BY <1>2, <1>5, <1>6, <1>7, <1>8 DEF TInv

LEMMA ExecAfter ==
  ASSUME TInv, NEW r \in Run, RunEffect(r)
  PROVE  /\ exec' \in [Run -> [at : {"none", "purging", "running", "ended", "failed"},
                               keys : SUBSET Output]]
         /\ \A o \in Run : o # r => exec'[o] = exec[o]
         /\ exec'[r].at # "none" /\ ~Over(r)
BY DEF TInv, ExecInv, RunEffect, Over

LEMMA RunBucket ==
  ASSUME TInv, NEW r \in Run, RunEffect(r) PROVE BucketInv'
<1>1. bucket \in [Output -> Seq(Version)] /\ r \in Version /\ Marker \in Version
  BY DEF TInv, BucketInv, Version
<1>2. \A o \in Run : exec[o].at # "none" => exec'[o].at # "none"  BY ExecAfter
<1>3. ASSUME NEW k \in Output
      PROVE  /\ bucket'[k] \in Seq(Version)
             /\ \A i \in DOMAIN bucket'[k] :
                  bucket'[k][i] \in Run => exec'[bucket'[k][i]].at # "none"
  <2>1. /\ bucket[k] \in Seq(Version)
        /\ \A i \in DOMAIN bucket[k] : bucket[k][i] \in Run => exec[bucket[k][i]].at # "none"
    BY <1>1 DEF TInv, BucketInv
  <2>2. CASE bucket'[k] = bucket[k]  BY <1>2, <2>1, <2>2
  <2>3. ASSUME NEW v \in {Marker, r}, bucket'[k] = Append(bucket[k], v)
        PROVE  /\ bucket'[k] \in Seq(Version)
               /\ \A i \in DOMAIN bucket'[k] :
                    bucket'[k][i] \in Run => exec'[bucket'[k][i]].at # "none"
    <3>1. Append(bucket[k], v) \in Seq(Version)  BY <1>1, <2>1
    <3>2. /\ Len(bucket[k]) \in Nat /\ DOMAIN bucket[k] = 1..Len(bucket[k])
          /\ DOMAIN bucket'[k] = 1..(Len(bucket[k]) + 1)
          /\ bucket'[k][Len(bucket[k]) + 1] = v
          /\ \A i \in 1..Len(bucket[k]) : bucket'[k][i] = bucket[k][i]
      BY <2>1, <2>3
    <3>3. Marker \notin Run  BY DEF Marker, Run
    <3>4. v \in Run => exec'[v].at # "none"  BY <3>3, ExecAfter
    <3> QED  BY <1>2, <2>1, <2>3, <3>1, <3>2, <3>4
  <2> QED  BY <2>2, <2>3 DEF RunEffect
<1>4. bucket' = [k \in Output |-> bucket'[k]]  BY <1>1 DEF RunEffect
<1>5. bucket' \in [Output -> Seq(Version)]  BY <1>3, <1>4
<1>6. removed' \subseteq Output \X Run  BY DEF RunEffect, TInv, BucketInv
<1> QED  BY <1>3, <1>5, <1>6 DEF BucketInv

LEMMA RankedFinite ==
  ASSUME TInv
  PROVE  /\ IsFiniteSet(Ranked) /\ Cardinality(Ranked) \in Nat /\ Cardinality(Ranked) <= MaxRuns
         /\ \A r \in Run : r \notin Ranked => Cardinality(Ranked) < MaxRuns
<1>1. MaxRuns \in Nat  BY VersionsAssumption DEF VersionsAssumption
<1>2. IsFiniteSet(Run) /\ Cardinality(Run) = MaxRuns  BY <1>1, FS_Interval DEF Run
<1>3. Ranked \subseteq Run  BY DEF Ranked
<1>4. IsFiniteSet(Ranked) /\ Cardinality(Ranked) \in Nat /\ Cardinality(Ranked) <= MaxRuns
  BY <1>2, <1>3, FS_Subset, FS_CardinalityType
<1>5. ASSUME NEW r \in Run, r \notin Ranked PROVE Cardinality(Ranked) < MaxRuns
  <2>1. Ranked # Run  BY <1>5
  <2>2. Cardinality(Ranked) < Cardinality(Run)  BY <1>1, <1>2, <1>3, <1>4, <2>1, FS_Subset
  <2> QED  BY <1>2, <2>2
<1> QED  BY <1>4, <1>5

LEMMA RunExec ==
  ASSUME TInv, NEW r \in Run, RunEffect(r) PROVE ExecInv'
<1>1. /\ exec' \in [Run -> [at : {"none", "purging", "running", "ended", "failed"},
                            keys : SUBSET Output]]
      /\ \A o \in Run : o # r => exec'[o] = exec[o]
      /\ exec'[r].at # "none" /\ ~Over(r)
  BY ExecAfter
<1>2. MaxRuns \in Nat /\ rank \in [Run -> 0..MaxRuns] /\ left \in [Run -> Contents]
      /\ events \subseteq Run /\ rank[r] = 0
  <2>1. rank[r] \in 0..MaxRuns /\ (rank[r] > 0 <=> exec[r].at = "ended") /\ MaxRuns \in Nat
    BY VersionsAssumption DEF VersionsAssumption, TInv, ExecInv
  <2>2. ~(rank[r] > 0)  BY <1>1, <2>1 DEF Over
  <2>3. rank[r] = 0  BY <2>1, <2>2
  <2> QED  BY <2>1, <2>3 DEF TInv, ExecInv
<1>3. ASSUME NEW a \in Run, NEW o \in Run, o < a, exec'[a].at # "none" PROVE exec'[o].at # "none"
  <2>1. CASE a = r
    <3>1. CASE exec[r].at = "none"  BY <1>1, <1>3, <2>1, <3>1 DEF RunEffect
    <3>2. CASE exec[r].at # "none"  BY <1>1, <1>3, <2>1, <3>2 DEF TInv, ExecInv
    <3> QED  BY <3>1, <3>2
  <2>2. CASE a # r  BY <1>1, <1>3, <2>2 DEF TInv, ExecInv
  <2> QED  BY <2>1, <2>2
<1>4. CASE exec'[r].at # "ended"
  <2>1. rank' = rank /\ left' = left /\ events' = events  BY <1>4 DEF RunEffect
  <2>2. Ranked' = Ranked  BY <2>1 DEF Ranked
  <2>3. \A o \in Run : rank'[o] > 0 <=> exec'[o].at = "ended"
    BY <1>1, <1>2, <1>4, <2>1 DEF TInv, ExecInv
  <2>4. \A o \in Run : rank'[o] <= Cardinality(Ranked')  BY <2>1, <2>2 DEF TInv, ExecInv
  <2>5. \A o \in events' : exec'[o].at = "ended"
    BY <1>1, <1>2, <2>1 DEF TInv, ExecInv, Over
  <2> QED  BY <1>1, <1>2, <1>3, <2>1, <2>3, <2>4, <2>5 DEF ExecInv
<1>5. CASE exec'[r].at = "ended"
  <2> DEFINE c == Cardinality(Ranked)
  <2>1. /\ rank' = [rank EXCEPT ![r] = 1 + c] /\ left' = [left EXCEPT ![r] = Listed]
        /\ events' = events \cup {r}
    BY <1>5 DEF RunEffect
  <2>2. r \notin Ranked  BY <1>2 DEF Ranked
  <2>3. IsFiniteSet(Ranked) /\ c \in Nat /\ c < MaxRuns  BY <2>2, RankedFinite
  <2> HIDE DEF c
  <2>4. /\ rank' \in [Run -> 0..MaxRuns] /\ rank'[r] = 1 + c
        /\ \A o \in Run : o # r => rank'[o] = rank[o]
    <3>1. 1 + c \in 0..MaxRuns  BY <1>2, <2>3
    <3> QED  BY <1>2, <2>1, <3>1
  <2>5. Ranked' = Ranked \cup {r}  BY <2>3, <2>4 DEF Ranked
  <2>6. Cardinality(Ranked') = c + 1  BY <2>2, <2>3, <2>5, FS_AddElement DEF c
  <2>7. \A o \in Run : rank'[o] <= Cardinality(Ranked')
    <3>1. \A o \in Run : rank[o] \in Nat /\ rank[o] <= c  BY <1>2 DEF TInv, ExecInv, c
    <3> QED  BY <2>3, <2>4, <2>6, <3>1
  <2>8. \A o \in Run : rank'[o] > 0 <=> exec'[o].at = "ended"
    BY <1>1, <1>2, <1>5, <2>3, <2>4 DEF TInv, ExecInv
  <2>9. events' \subseteq Run /\ \A o \in events' : exec'[o].at = "ended"
    BY <1>1, <1>2, <1>5, <2>1 DEF TInv, ExecInv
  <2>10. left' \in [Run -> Contents]  BY <1>2, <2>1, ListedForm
  <2> QED  BY <1>1, <1>3, <2>4, <2>7, <2>8, <2>9, <2>10 DEF ExecInv
<1> QED  BY <1>4, <1>5

LEMMA FaultForm ==
  ASSUME TInv, UNCHANGED faults \/ Fault PROVE faults' \in 0..MaxFaults
<1>1. faults \in 0..MaxFaults /\ MaxFaults \in Nat
  BY VersionsAssumption DEF VersionsAssumption, TInv, RecordInv
<1> QED  BY <1>1 DEF Fault

LEMMA RunTInv == ASSUME TInv, NEW r \in Run, RunEffect(r) PROVE TInv'
<1>1. BucketInv' /\ ExecInv'  BY RunBucket, RunExec
<1>2. AdminInv'  BY DEF RunEffect, TInv, AdminInv
<1>5. TrackInv'
  <2>1. tracker' = tracker  BY DEF RunEffect
  <2> QED  BY <2>1, ExecAfter DEF TInv, TrackInv, Over
<1>3. faults' \in 0..MaxFaults  BY FaultForm DEF RunEffect
<1>4. RecordInv'  BY <1>3 DEF RunEffect, TInv, RecordInv
<1> QED  BY <1>1, <1>2, <1>4, <1>5 DEF TInv

(* What a step of a tracker leaves as it is.                               *)
LEMMA TrackEffects ==
  ASSUME TInv, NEW t \in Tracker, Tracks(t)
  PROVE  /\ UNCHANGED <<bucket, removed, exec, rank, left, admin, gone>>
         /\ UNCHANGED faults \/ Fault
         /\ disturbed => disturbed'
         /\ \A s \in Tracker : s # t => tracker'[s] = tracker[s]
<1> USE DEF TrackerOnly, runs
<1>1. tracker \in [Tracker -> Tracking]  BY DEF TInv, TrackInv
<1>2. UNCHANGED <<bucket, removed, exec, rank, left, admin, gone>>
  BY DEF Tracks, TrackerLists, TrackerPins, TrackerRecords, TrackerFails
<1>4. UNCHANGED faults \/ Fault
  BY DEF Tracks, TrackerLists, TrackerPins, TrackerRecords, TrackerFails
<1>5. disturbed => disturbed'
  BY DEF Tracks, TrackerLists, TrackerPins, TrackerRecords, TrackerFails
<1>3. \A s \in Tracker : s # t => tracker'[s] = tracker[s]
  <2>1. ASSUME NEW r \in Run, TrackerLists(t, r)
        PROVE  \A s \in Tracker : s # t => tracker'[s] = tracker[s]
    BY <1>1, <2>1 DEF TrackerLists
  <2>2. CASE TrackerPins(t)  BY <1>1, <2>2 DEF TrackerPins
  <2>3. CASE TrackerRecords(t) \/ TrackerFails(t)
    BY <1>1, <2>3 DEF TrackerRecords, TrackerFails
  <2> QED  BY <2>1, <2>2, <2>3 DEF Tracks
<1> QED  BY <1>2, <1>3, <1>4, <1>5

LEMMA WithForm ==
  ASSUME NEW f, NEW r, NEW v
  PROVE  /\ DOMAIN With(f, r, v) = DOMAIN f \cup {r}
         /\ With(f, r, v)[r] = v
         /\ \A x \in DOMAIN f : x # r => With(f, r, v)[x] = f[x]
BY DEF With

LEMMA WithoutForm ==
  ASSUME NEW f, NEW r
  PROVE  /\ DOMAIN Without(f, r) = DOMAIN f \ {r}
         /\ \A x \in DOMAIN f : x # r => Without(f, r)[x] = f[x]
BY DEF Without

LEMMA TrackTInv == ASSUME TInv, NEW t \in Tracker, Tracks(t) PROVE TInv'
<1>1. /\ UNCHANGED <<bucket, removed, exec, rank, left, admin, gone>>
      /\ UNCHANGED faults \/ Fault
  BY TrackEffects
<1>2. tracker \in [Tracker -> Tracking] /\ tracker[t] \in Tracking
      /\ (tracker[t].at # "idle" => tracker[t].r \in Run /\ exec[tracker[t].r].at = "ended")
      /\ (\A r \in events : exec[r].at = "ended")
      /\ events \subseteq Run
  BY DEF TInv, TrackInv, ExecInv
<1>3. BucketInv' /\ AdminInv'  BY <1>1 DEF TInv, BucketInv, AdminInv
<1>4. events' \subseteq events \/ (tracker[t].at # "idle" /\ events' = events \cup {tracker[t].r})
  BY DEF Tracks, TrackerLists, TrackerPins, TrackerRecords, TrackerFails
<1>11. events' \subseteq Run /\ \A r \in events' : exec[r].at = "ended"
  BY <1>2, <1>4 DEF TInv, ExecInv, TrackInv
<1>5. /\ tracker' \in [Tracker -> Tracking]
      /\ tracker'[t].at # "idle" => tracker'[t].r \in Run /\ exec[tracker'[t].r].at = "ended"
  <2>1. NotTracking \in Tracking  BY NoFilesForm DEF NotTracking, Tracking
  <2>2. ASSUME NEW r \in Run, TrackerLists(t, r)
        PROVE  /\ tracker' \in [Tracker -> Tracking]
               /\ tracker'[t].at # "idle" =>
                    tracker'[t].r \in Run /\ exec[tracker'[t].r].at = "ended"
    <3>1. [at |-> "listed", r |-> r, files |-> Listed] \in Tracking  BY ListedForm DEF Tracking
    <3> QED  BY <1>2, <2>2, <3>1 DEF TrackerLists
  <2>3. CASE TrackerPins(t)
    <3>1. tracker' = [tracker EXCEPT ![t].at = "pinned"] /\ tracker[t].at = "listed"
      BY <2>3 DEF TrackerPins
    <3>2. tracker'[t] = [at |-> "pinned", r |-> tracker[t].r, files |-> tracker[t].files]
          /\ tracker' = [tracker EXCEPT ![t] = tracker'[t]]
      BY <1>2, <3>1 DEF Tracking
    <3>3. tracker'[t] \in Tracking  BY <1>2, <3>2 DEF Tracking
    <3> QED  BY <1>2, <3>1, <3>2, <3>3
  <2>4. CASE TrackerRecords(t) \/ TrackerFails(t)
    BY <1>2, <2>1, <2>4 DEF TrackerRecords, TrackerFails, NotTracking
  <2> QED  BY <2>2, <2>3, <2>4 DEF Tracks
<1>6. TrackInv'
  <2>1. \A s \in Tracker : s # t => tracker'[s] = tracker[s]  BY TrackEffects
  <2> QED  BY <1>1, <1>5, <2>1 DEF TrackInv, TInv
<1>7. faults' \in 0..MaxFaults  BY <1>1, FaultForm
<1>8. /\ DOMAIN manifests' \subseteq Run /\ \A r \in DOMAIN manifests' : manifests'[r] \in Contents
      /\ records' \subseteq Run /\ before' \subseteq Run /\ disturbed' \in BOOLEAN
  <2>1. /\ DOMAIN manifests \subseteq Run /\ \A r \in DOMAIN manifests : manifests[r] \in Contents
        /\ records \subseteq Run /\ before \subseteq Run /\ disturbed \in BOOLEAN
    BY DEF TInv, RecordInv
  <2>2. CASE TrackerPins(t)
    <3>1. /\ manifests' = With(manifests, tracker[t].r, tracker[t].files)
          /\ records' = records /\ before' = before /\ disturbed' \in BOOLEAN
               /\ tracker[t].at # "idle"
      BY <2>2, <2>1 DEF TrackerPins
    <3>2. tracker[t].r \in Run /\ tracker[t].files \in Contents  BY <1>2, <3>1 DEF Tracking
    <3>3. /\ DOMAIN manifests' = DOMAIN manifests \cup {tracker[t].r}
          /\ manifests'[tracker[t].r] = tracker[t].files
          /\ \A x \in DOMAIN manifests : x # tracker[t].r => manifests'[x] = manifests[x]
      BY <3>1 DEF With
    <3> QED  BY <2>1, <3>1, <3>2, <3>3
  <2>3. CASE TrackerRecords(t)  BY <1>2, <2>1, <2>3 DEF TrackerRecords
  <2>4. CASE TrackerFails(t) \/ \E r \in Run : TrackerLists(t, r)
    BY <2>1, <2>4 DEF TrackerFails, TrackerLists
  <2> QED  BY <2>2, <2>3, <2>4 DEF Tracks
<1>9. RecordInv'  BY <1>1, <1>7, <1>8 DEF RecordInv, TInv
<1>10. ExecInv'
  <2>1. Ranked' = Ranked  BY <1>1 DEF Ranked

  <2>3. rank' = rank /\ exec' = exec /\ left' = left  BY <1>1
  <2> QED  BY <1>11, <2>1, <2>3 DEF ExecInv, TInv
<1> QED  BY <1>3, <1>6, <1>9, <1>10 DEF TInv

(* What a step of a deletion leaves as it is.                              *)
LEMMA DeletionEffects ==
  ASSUME TInv, NEW d \in Admin, Deletes(d)
  PROVE  /\ UNCHANGED <<bucket, exec, rank, left, events, tracker>>
         /\ removed' = removed \/ DeleteVersions(d)
         /\ UNCHANGED faults \/ Fault
         /\ disturbed => disturbed'
<1> USE DEF AdminOnly, runs, s3, history
<1>1. UNCHANGED <<bucket, exec, rank, left, events, tracker>>
  BY DEF Deletes, AskToDelete, LoadManifest, ListOthers, LoadOther, DeleteVersions, DeleteManifest,
         DeleteRecord, DeletionFails
<1>2. removed' = removed \/ DeleteVersions(d)
  BY DEF Deletes, AskToDelete, LoadManifest, ListOthers, LoadOther, DeleteManifest,
         DeleteRecord, DeletionFails
<1>3. UNCHANGED faults \/ Fault
  BY DEF Deletes, AskToDelete, LoadManifest, ListOthers, LoadOther, DeleteVersions, DeleteManifest,
         DeleteRecord, DeletionFails
<1>4. disturbed => disturbed'
  BY DEF Deletes, AskToDelete, LoadManifest, ListOthers, LoadOther, DeleteVersions, DeleteManifest,
         DeleteRecord, DeletionFails
<1> QED  BY <1>1, <1>2, <1>3, <1>4

(* Where each step takes the deletion.                                     *)
Move(d, at, r, pins, todo) ==
  admin' = [admin EXCEPT ![d] = [at |-> at, r |-> r, pins |-> pins, todo |-> todo]]

LEMMA PinnedType == ASSUME TInv, NEW r PROVE Pinned(r) \in SUBSET (Output \X Run)
BY PinnedForm

LEMMA DeletionMoves ==
  ASSUME TInv, NEW d \in Admin
  PROVE  /\ \A r \in Run : AskToDelete(d, r) => Move(d, "allowed", r, {}, {})
         /\ LoadManifest(d) => \E at \in {"loaded", "clearing"} :
              /\ at = "loaded" <=> admin[d].r \in DOMAIN manifests
              /\ Move(d, at, admin[d].r, Pinned(admin[d].r), admin[d].todo)
         /\ ListOthers(d) => Move(d, "counting", admin[d].r, admin[d].pins,
                                  DOMAIN manifests \ {admin[d].r})
         /\ \A o \in Run : LoadOther(d, o) =>
              Move(d, "counting", admin[d].r, admin[d].pins \ Pinned(o), admin[d].todo \ {o})
         /\ DeleteVersions(d) => Move(d, "clearing", admin[d].r, admin[d].pins, admin[d].todo)
         /\ DeleteManifest(d) => Move(d, "cleared", admin[d].r, admin[d].pins, admin[d].todo)
         /\ DeleteRecord(d) \/ DeletionFails(d) => Move(d, "idle", 0, {}, {})
<1>1. admin \in [Admin -> Deleting] /\ admin[d] \in Deleting  BY DEF TInv, AdminInv
<1>2. admin[d] = [at |-> admin[d].at, r |-> admin[d].r, pins |-> admin[d].pins,
                  todo |-> admin[d].todo]
  BY <1>1 DEF Deleting
<1> USE <1>1, <1>2 DEF Move, NotDeleting, DeletionGoesTo, Deleting
<1>3. \A r \in Run : AskToDelete(d, r) => Move(d, "allowed", r, {}, {})  BY DEF AskToDelete
<1>4. ASSUME LoadManifest(d)
      PROVE  \E at \in {"loaded", "clearing"} :
               /\ at = "loaded" <=> admin[d].r \in DOMAIN manifests
               /\ Move(d, at, admin[d].r, Pinned(admin[d].r), admin[d].todo)
  <2> DEFINE at == IF admin[d].r \in DOMAIN manifests THEN "loaded" ELSE "clearing"
  <2> DEFINE pins == Pinned(admin[d].r)
  <2>1. at \in {"loaded", "clearing"} /\ (at = "loaded" <=> admin[d].r \in DOMAIN manifests)
    OBVIOUS
  <2>2. admin' = [admin EXCEPT ![d].at = at, ![d].pins = pins]  BY <1>4 DEF LoadManifest
  <2> HIDE DEF at, pins
  <2>4. admin' = [admin EXCEPT ![d] = [admin[d] EXCEPT !.at = at, !.pins = pins]]  BY <2>2
  <2> DEFINE b == [admin[d] EXCEPT !.at = at, !.pins = pins]
  <2>6. pins \in SUBSET (Output \X Run)  BY PinnedType DEF pins
  <2>7. b \in Deleting /\ b.at = at /\ b.r = admin[d].r /\ b.pins = pins /\ b.todo = admin[d].todo
    BY <2>1, <2>6
  <2> HIDE DEF b
  <2>5. b = [at |-> at, r |-> admin[d].r, pins |-> pins, todo |-> admin[d].todo]
    BY <2>7
  <2>3. Move(d, at, admin[d].r, pins, admin[d].todo)  BY <2>4, <2>5 DEF b
  <2> HIDE DEF Move
  <2> QED  BY <2>1, <2>3 DEF pins
<1>5. ListOthers(d) =>
        Move(d, "counting", admin[d].r, admin[d].pins, DOMAIN manifests \ {admin[d].r})
  <2> DEFINE others == DOMAIN manifests \ {admin[d].r}
  <2>1. ASSUME ListOthers(d) PROVE admin' = [admin EXCEPT ![d].at = "counting", ![d].todo = others]
    BY <2>1 DEF ListOthers
  <2> HIDE DEF others
  <2>2. ListOthers(d) => Move(d, "counting", admin[d].r, admin[d].pins, others)
    BY <2>1
  <2> QED  BY <2>2 DEF others
<1>6. ASSUME NEW o \in Run, LoadOther(d, o)
      PROVE  Move(d, "counting", admin[d].r, admin[d].pins \ Pinned(o), admin[d].todo \ {o})
  <2> DEFINE pins == admin[d].pins \ Pinned(o)
  <2>1. admin' = [admin EXCEPT ![d].todo = admin[d].todo \ {o}, ![d].pins = pins]
    BY <1>6 DEF LoadOther, Unreferenced
  <2>2. admin[d].at = "counting"  BY <1>6 DEF LoadOther
  <2> HIDE DEF pins
  <2> DEFINE todo == admin[d].todo \ {o}
  <2> HIDE DEF todo
  <2>4. admin' = [admin EXCEPT ![d] = [admin[d] EXCEPT !.todo = todo, !.pins = pins]]
    BY <2>1 DEF todo
  <2> DEFINE b == [admin[d] EXCEPT !.todo = todo, !.pins = pins]
  <2>6. pins \in SUBSET (Output \X Run) /\ todo \in SUBSET Run  BY DEF pins, todo
  <2>7. b \in Deleting /\ b.at = "counting" /\ b.r = admin[d].r /\ b.pins = pins /\ b.todo = todo
    BY <2>2, <2>6
  <2> HIDE DEF b
  <2>5. b = [at |-> "counting", r |-> admin[d].r, pins |-> pins, todo |-> todo]
    BY <2>7
  <2>3. Move(d, "counting", admin[d].r, pins, admin[d].todo \ {o})  BY <2>4, <2>5 DEF todo, b
  <2> QED  BY <2>3 DEF pins
<1>7. DeleteVersions(d) => Move(d, "clearing", admin[d].r, admin[d].pins, admin[d].todo)
  BY DEF DeleteVersions
<1>8. DeleteManifest(d) => Move(d, "cleared", admin[d].r, admin[d].pins, admin[d].todo)
  BY DEF DeleteManifest
<1>9. DeleteRecord(d) \/ DeletionFails(d) => Move(d, "idle", 0, {}, {})
  BY DEF DeleteRecord, DeletionFails
<1> HIDE DEF Move
<1> QED  BY <1>3, <1>4, <1>5, <1>6, <1>7, <1>8, <1>9

LEMMA MoveForm ==
  ASSUME TInv, NEW d \in Admin, NEW at, NEW r, NEW pins, NEW todo, Move(d, at, r, pins, todo)
  PROVE  /\ DOMAIN admin' = Admin
         /\ admin'[d] = [at |-> at, r |-> r, pins |-> pins, todo |-> todo]
         /\ \A e \in Admin : e # d => admin'[e] = admin[e]
BY DEF Move, TInv, AdminInv

LEMMA MoveTyped ==
  ASSUME TInv, NEW d \in Admin,
         NEW at \in {"idle", "allowed", "loaded", "counting", "clearing", "cleared"},
         NEW r \in {0} \cup Run, NEW pins \in SUBSET (Output \X Run), NEW todo \in SUBSET Run,
         Move(d, at, r, pins, todo), at # "idle" => r \in Run
  PROVE  AdminInv'
<1>1. [at |-> at, r |-> r, pins |-> pins, todo |-> todo] \in Deleting  BY DEF Deleting
<1>2. admin \in [Admin -> Deleting]  BY DEF TInv, AdminInv
<1>3. admin' \in [Admin -> Deleting]  BY <1>1, <1>2 DEF Move
<1>4. \A e \in Admin : admin'[e].at # "idle" => admin'[e].r \in Run
  <2>1. admin'[d] = [at |-> at, r |-> r, pins |-> pins, todo |-> todo]
        /\ \A e \in Admin : e # d => admin'[e] = admin[e]
    BY MoveForm
  <2> QED  BY <2>1 DEF TInv, AdminInv
<1> QED  BY <1>3, <1>4 DEF AdminInv

LEMMA DeletionTInv == ASSUME TInv, NEW d \in Admin, Deletes(d) PROVE TInv'
<1>1. /\ UNCHANGED <<bucket, exec, rank, left, events, tracker>>
      /\ removed' = removed \/ DeleteVersions(d)
      /\ UNCHANGED faults \/ Fault
  BY DeletionEffects
<1>2. /\ admin[d] \in Deleting /\ (admin[d].at # "idle" => admin[d].r \in Run)
      /\ admin[d].r \in {0} \cup Run /\ admin[d].todo \in SUBSET Run
      /\ admin[d].pins \in SUBSET (Output \X Run)
      /\ DOMAIN manifests \in SUBSET Run
  BY DEF TInv, AdminInv, RecordInv, Deleting
<1>3. AdminInv'
  <2>1. ASSUME NEW r \in Run, AskToDelete(d, r) PROVE AdminInv'
    <3>1. Move(d, "allowed", r, {}, {})  BY <2>1, DeletionMoves
    <3>2. {} \in SUBSET (Output \X Run) /\ {} \in SUBSET Run  OBVIOUS
    <3> QED  BY <3>1, <3>2, MoveTyped
  <2>2. CASE LoadManifest(d)
    <3>1. admin[d].r \in Run  BY <1>2, <2>2 DEF LoadManifest
    <3>2. PICK at \in {"loaded", "clearing"} :
            Move(d, at, admin[d].r, Pinned(admin[d].r), admin[d].todo)
      BY <2>2, DeletionMoves
    <3>3. Pinned(admin[d].r) \in SUBSET (Output \X Run)  BY PinnedType
    <3> QED  BY <1>2, <3>1, <3>2, <3>3, MoveTyped
  <2>3. CASE ListOthers(d)
    <3>1. admin[d].r \in Run  BY <1>2, <2>3 DEF ListOthers
    <3>2. Move(d, "counting", admin[d].r, admin[d].pins, DOMAIN manifests \ {admin[d].r})
      BY <2>3, DeletionMoves
    <3>3. DOMAIN manifests \ {admin[d].r} \in SUBSET Run  BY <1>2
    <3> QED  BY <1>2, <3>1, <3>2, <3>3, MoveTyped
  <2>4. ASSUME NEW o \in Run, LoadOther(d, o) PROVE AdminInv'
    <3>1. admin[d].r \in Run  BY <1>2, <2>4 DEF LoadOther
    <3>2. admin[d].pins \ Pinned(o) \in SUBSET (Output \X Run) /\ admin[d].todo \ {o} \in SUBSET Run
      BY <1>2
    <3>3. Move(d, "counting", admin[d].r, admin[d].pins \ Pinned(o), admin[d].todo \ {o})
      BY <2>4, DeletionMoves
    <3> QED  BY <1>2, <3>1, <3>2, <3>3, MoveTyped
  <2>5. CASE DeleteVersions(d)
    <3>1. admin[d].r \in Run  BY <1>2, <2>5 DEF DeleteVersions
    <3> QED  BY <1>2, <2>5, <3>1, MoveTyped, DeletionMoves
  <2>6. CASE DeleteManifest(d)
    <3>1. admin[d].r \in Run  BY <1>2, <2>6 DEF DeleteManifest
    <3> QED  BY <1>2, <2>6, <3>1, MoveTyped, DeletionMoves
  <2>7. CASE DeleteRecord(d) \/ DeletionFails(d)
    <3>1. Move(d, "idle", 0, {}, {})  BY <2>7, DeletionMoves
    <3> QED  BY <3>1, MoveTyped
  <2> QED  BY <2>1, <2>2, <2>3, <2>4, <2>5, <2>6, <2>7 DEF Deletes
<1>4. removed' \subseteq Output \X Run
  BY <1>1, <1>2 DEF TInv, BucketInv, DeleteVersions
<1>5. BucketInv'  BY <1>1, <1>4 DEF TInv, BucketInv
<1>6. ExecInv'
  <2>1. Ranked' = Ranked  BY <1>1 DEF Ranked
  <2> QED  BY <1>1, <2>1 DEF TInv, ExecInv
<1>7. TrackInv'  BY <1>1 DEF TInv, TrackInv
<1>8. faults' \in 0..MaxFaults  BY <1>1, FaultForm
<1>9. /\ DOMAIN manifests' \subseteq Run /\ \A r \in DOMAIN manifests' : manifests'[r] \in Contents
      /\ records' \subseteq Run /\ before' \subseteq Run /\ gone' \subseteq Run
      /\ disturbed' \in BOOLEAN
  <2>1. /\ DOMAIN manifests \subseteq Run /\ \A r \in DOMAIN manifests : manifests[r] \in Contents
        /\ records \subseteq Run /\ before \subseteq Run /\ gone \subseteq Run
        /\ disturbed \in BOOLEAN
    BY DEF TInv, RecordInv
  <2> USE DEF s3, history
  <2>2. ASSUME NEW r \in Run, AskToDelete(d, r)
        PROVE  UNCHANGED <<manifests, records, before, gone>> /\ disturbed' \in BOOLEAN
    BY <2>1, <2>2 DEF AskToDelete
  <2>3. CASE DeleteManifest(d)
    <3>1. /\ manifests' = Without(manifests, admin[d].r)
          /\ UNCHANGED <<records, before, gone, disturbed>>
      BY <2>3 DEF DeleteManifest
    <3>2. /\ DOMAIN manifests' = DOMAIN manifests \ {admin[d].r}
          /\ \A x \in DOMAIN manifests : x # admin[d].r => manifests'[x] = manifests[x]
      BY <3>1 DEF Without
    <3> QED  BY <2>1, <3>1, <3>2
  <2>4. CASE DeleteVersions(d)
    <3>1. /\ UNCHANGED <<manifests, records, before, disturbed>>
          /\ gone' = gone \cup {admin[d].r} /\ admin[d].at # "idle"
      BY <2>4 DEF DeleteVersions
    <3> QED  BY <1>2, <2>1, <3>1
  <2>5. CASE DeleteRecord(d)  BY <2>1, <2>5 DEF DeleteRecord
  <2>6. LoadManifest(d) \/ ListOthers(d) \/ DeletionFails(d) \/ (\E o \in Run : LoadOther(d, o))
          => UNCHANGED <<manifests, records, before, gone, disturbed>>
    BY DEF LoadManifest, ListOthers, DeletionFails, LoadOther
  <2> QED  BY <2>1, <2>2, <2>3, <2>4, <2>5, <2>6 DEF Deletes
<1>10. RecordInv'  BY <1>8, <1>9 DEF RecordInv
<1> QED  BY <1>3, <1>5, <1>6, <1>7, <1>10 DEF TInv

LEMMA TInvStep == ASSUME TInv, [Next]_vars PROVE TInv'
<1>1. ASSUME NEW r \in Run, Runs(r) PROVE TInv'  BY <1>1, RunEffects, RunTInv
<1>2. ASSUME NEW t \in Tracker, Tracks(t) PROVE TInv'  BY <1>2, TrackTInv
<1>3. ASSUME NEW d \in Admin, Deletes(d) PROVE TInv'  BY <1>3, DeletionTInv
<1>4. CASE UNCHANGED vars
  <2>1. UNCHANGED <<bucket, removed, manifests, exec, rank, left, events, tracker, records,
    before, admin,
                    faults, gone, disturbed>>
    BY <1>4 DEF vars, s3, runs, history
  <2>2. Ranked' = Ranked  BY <2>1 DEF Ranked
  <2>3. BucketInv' /\ TrackInv' /\ RecordInv' /\ AdminInv'
    BY <2>1 DEF TInv, BucketInv, TrackInv, RecordInv, AdminInv
  <2>4. ExecInv'  BY <2>1, <2>2 DEF TInv, ExecInv
  <2> QED  BY <2>3, <2>4 DEF TInv
<1> QED  BY <1>1, <1>2, <1>3, <1>4 DEF Next

-----------------------------------------------------------------------------
(* What is the same after a step.                                          *)
LEMMA SameRead ==
  ASSUME \A k \in Output : Current(k)' = Current(k) PROVE Listed' = Listed
BY DEF Listed, Exists

LEMMA SameBucket ==
  ASSUME UNCHANGED <<bucket, removed>>
  PROVE  /\ \A k \in Output : Current(k)' = Current(k)
         /\ Listed' = Listed
         /\ \A k : Kept(k)' = Kept(k)
<1>1. \A k : Kept(k)' = Kept(k)  BY DEF Kept
<1>2. \A k \in Output : Current(k)' = Current(k)  BY CurrentSame
<1> QED  BY <1>1, <1>2, SameRead

LEMMA SamePins ==
  ASSUME NEW m, m \in DOMAIN manifests' <=> m \in DOMAIN manifests,
         m \in DOMAIN manifests => manifests'[m] = manifests[m]
  PROVE  Pinned(m)' = Pinned(m)
BY DEF Pinned

LEMMA SameAlone == ASSUME exec' = exec, NEW r PROVE Alone(r)' = Alone(r)
BY DEF Alone

LEMMA SameManifests ==
  ASSUME manifests' = manifests
  PROVE  /\ \A m : Pinned(m)' = Pinned(m)
         /\ gone' = gone => Valid' = Valid
BY DEF Pinned, Valid

LEMMA SameStored ==
  ASSUME NEW m \in DOMAIN manifests, m \in DOMAIN manifests', manifests'[m] = manifests[m],
         \A k : Kept(k)' = Kept(k), bucket' = bucket, Stored(m)
  PROVE  Stored(m)'
BY DEF Stored

LEMMA PairPinned ==
  ASSUME NEW m \in DOMAIN manifests, NEW k \in DOMAIN manifests[m]
  PROVE  <<k, manifests[m][k]>> \in Pinned(m)
BY DEF Pinned

(* The version on top of an output is pinned by a manifest that is Listed. *)
LEMMA ListedPins ==
  ASSUME TInv, NEW m \in DOMAIN manifests, manifests[m] = Listed, NEW k \in Output,
         Current(k) \in Run
  PROVE  <<k, Current(k)>> \in Pinned(m)
<1>1. Exists(k)  BY DEF Exists, Marker, Run
<1>2. k \in DOMAIN manifests[m] /\ manifests[m][k] = Current(k)  BY <1>1 DEF Listed
<1> QED  BY <1>2, PairPinned

LEMMA ListedIs ==
  ASSUME TInv, NEW k \in DOMAIN Listed
  PROVE  k \in Output /\ Listed[k] = Current(k) /\ Current(k) \in Run
<1>1. k \in Output /\ Listed[k] = Current(k) /\ Exists(k)  BY DEF Listed
<1> QED  BY <1>1, CurrentForm DEF Exists, Version

(* The versions of a bucket that has only grown are still there.           *)
LEMMA StoredGrows ==
  ASSUME TInv, NEW r \in Run, RunEffect(r), NEW m \in DOMAIN manifests, Stored(m)
  PROVE  Stored(m)'
<1>1. manifests' = manifests /\ removed' = removed  BY DEF RunEffect
<1>2. manifests[m] \in Contents  BY DEF TInv, RecordInv
<1>3. ASSUME NEW k \in DOMAIN manifests[m]
      PROVE  \E i \in Kept(k)' : bucket'[k][i] = manifests[m][k]
  <2>1. k \in Output  BY <1>2, ContentsForm
  <2>2. PICK i \in Kept(k) : bucket[k][i] = manifests[m][k]  BY DEF Stored
  <2>3. i \in DOMAIN bucket[k] /\ <<k, bucket[k][i]>> \notin removed  BY <2>2 DEF Kept
  <2>4. bucket[k] \in Seq(Version)  BY <2>1, KeptForm
  <2>5. i \in DOMAIN bucket'[k] /\ bucket'[k][i] = bucket[k][i]
    <3>1. CASE bucket' = bucket  BY <2>3, <3>1
    <3>2. CASE bucket'[k] = bucket[k]  BY <2>3, <3>2
    <3>3. ASSUME NEW v, bucket'[k] = Append(bucket[k], v)
          PROVE  i \in DOMAIN bucket'[k] /\ bucket'[k][i] = bucket[k][i]
      <4>1. Len(bucket[k]) \in Nat /\ i \in 1..Len(bucket[k])  BY <2>3, <2>4
      <4> QED  BY <2>4, <3>3, <4>1
    <3> QED  BY <2>1, <3>1, <3>2, <3>3 DEF RunEffect
  <2>6. i \in Kept(k)'  BY <1>1, <2>3, <2>5 DEF Kept
  <2> QED  BY <2>2, <2>5, <2>6
<1> QED  BY <1>1, <1>3 DEF Stored

LEMMA RunReads ==
  ASSUME TInv, NEW r \in Run, RunEffect(r), NEW k \in Output
  PROVE  Current(k)' \in {Marker, r, Current(k)}
<1>1. removed' = removed /\ r \in Version /\ Marker \in Version  BY DEF RunEffect, Version
<1>2. CASE bucket'[k] = bucket[k]  BY <1>1, <1>2, CurrentSame
<1>3. CASE bucket'[k] = Append(bucket[k], Marker)  BY <1>1, <1>3, CurrentWritten
<1>4. CASE bucket'[k] = Append(bucket[k], r)  BY <1>1, <1>4, CurrentWritten
<1> QED  BY <1>2, <1>3, <1>4 DEF RunEffect

-----------------------------------------------------------------------------
(* A run that is under way is after all that are tracked.                  *)
LEMMA RunIsLater ==
  ASSUME TInv, TrackedInv, NEW r \in Run, ~Over(r), NEW x \in Run, Tracked(x)
  PROVE  x < r
<1>1. exec[x].at = "ended" /\ \A o \in Run : o < x => Over(o)  BY DEF TrackedInv
<1>2. x # r /\ ~(r < x)  BY <1>1 DEF Over
<1>3. x \in Int /\ r \in Int  BY DEF Run
<1> QED  BY <1>2, <1>3

LEMMA RunTracked ==
  ASSUME TInv, TrackedInv, NEW r \in Run, RunEffect(r)
  PROVE  TrackedInv' /\ \A x \in Run : Tracked(x)' => Tracked(x)
<1>1. \A x \in Run : Tracked(x)' => Tracked(x)  BY DEF RunEffect, Tracked, Handled
<1>2. /\ exec[r].at \in {"none", "purging", "running"} /\ ~Over(r)
      /\ \A o \in Run : o # r => exec'[o] = exec[o]
  BY ExecAfter DEF RunEffect
<1>3. ASSUME NEW x \in Run, Tracked(x)
      PROVE  /\ exec'[x].at = "ended"
             /\ \A o \in Run : o < x => Over(o)'
             /\ \A o \in Run : x < o /\ rank'[o] > 0 => rank'[x] < rank'[o]
  <2>1. x < r /\ x # r
    <3>1. x < r  BY <1>2, <1>3, RunIsLater
    <3> QED  BY <3>1 DEF Run
  <2>2. /\ exec[x].at = "ended" /\ \A o \in Run : o < x => Over(o)
        /\ \A o \in Run : x < o /\ rank[o] > 0 => rank[x] < rank[o]
    BY <1>3 DEF TrackedInv
  <2>3. exec'[x].at = "ended"  BY <1>2, <2>1, <2>2
  <2>4. \A o \in Run : o < x => Over(o)'  BY <1>2, <2>2 DEF Over
  <2>5. ASSUME NEW o \in Run, x < o, rank'[o] > 0 PROVE rank'[x] < rank'[o]
    <3>1. rank \in [Run -> 0..MaxRuns]  BY DEF TInv, ExecInv
    <3>2. CASE rank' = rank  BY <2>2, <2>5, <3>2
    <3>3. CASE rank' = [rank EXCEPT ![r] = 1 + Cardinality(Ranked)]
      <4>1. rank'[x] = rank[x]  BY <2>1, <3>1, <3>3
      <4>2. CASE o = r
        <5>1. rank'[o] = 1 + Cardinality(Ranked)  BY <3>1, <3>3, <4>2
        <5>2. rank[x] <= Cardinality(Ranked) /\ rank[x] \in Nat /\ Cardinality(Ranked) \in Nat
          BY <3>1, RankedFinite DEF TInv, ExecInv
        <5> QED  BY <4>1, <5>1, <5>2
      <4>3. CASE o # r  BY <2>2, <2>5, <3>1, <3>3, <4>1, <4>3
      <4> QED  BY <4>2, <4>3
    <3> QED  BY <3>2, <3>3 DEF RunEffect
  <2> QED  BY <2>3, <2>4, <2>5
<1> QED  BY <1>1, <1>3 DEF TrackedInv

LEMMA RunQuiet ==
  ASSUME TInv, Quiet, NEW r \in Run, RunEffect(r)
  PROVE  Quiet'
<1> USE DEF Quiet
<1>1. TrackedInv' /\ \A x \in Run : Tracked(x)' => Tracked(x)  BY RunTracked
<1>2. UNCHANGED <<manifests, tracker, records, admin, gone>>  BY DEF RunEffect
<1>3. ~Over(r) /\ exec'[r].at # "none"  BY ExecAfter
<1>4. \A x \in Run : Tracked(x) => x < r /\ x \in Int /\ r \in Int  BY <1>3, RunIsLater DEF Run
<1>5. \A x \in Run : Tracked(x) => ~Alone(x)'
  <2>1. ASSUME NEW x \in Run, Tracked(x) PROVE ~Alone(x)'
    <3>1. x < r /\ ~(r < x) /\ r # x  BY <1>4, <2>1
    <3> QED  BY <1>3, <3>1 DEF Alone
  <2> QED  BY <2>1
<1>6. /\ \A m \in DOMAIN manifests : m \in Run /\ Tracked(m)
      /\ \A t \in Tracker : tracker[t].at # "idle" => tracker[t].r \in Run /\ Tracked(tracker[t].r)
  BY DEF TInv, RecordInv, TrackInv, Tracked, Handled
<1>7. FreshInv'
  <2>1. ASSUME NEW t \in Tracker, tracker[t].at = "listed", Alone(tracker[t].r)' PROVE FALSE
    <3>1. PICK x \in Run : x = tracker[t].r /\ Tracked(x)  BY <1>6, <2>1
    <3>2. tracker'[t].r = x  BY <1>2, <3>1
    <3>3. Alone(x)'  BY <2>1, <3>2 DEF Alone
    <3> QED  BY <1>5, <3>1, <3>3
  <2>2. ASSUME NEW m \in DOMAIN manifests, Alone(m)' PROVE FALSE
    BY <1>5, <1>6, <2>2
  <2>3. \A t \in Tracker :
          tracker'[t].at = "listed" /\ Alone(tracker[t].r)' => tracker'[t].files = Listed'
    BY <1>2, <2>1
  <2> QED  BY <1>2, <2>2, <2>3 DEF FreshInv
<1>8. (\A m : Pinned(m)' = Pinned(m)) /\ Valid' = Valid  BY <1>2, SameManifests
<1>9. PinsInv'
  <2>1. \A m \in DOMAIN manifests' : \A k \in DOMAIN manifests'[m] : manifests'[m][k] <= m
    BY <1>2 DEF PinsInv
  <2>2. ASSUME NEW m \in Valid, NEW k \in Output, Current(k)' \in Run, Current(k)' <= m
        PROVE  <<k, Current(k)'>> \in Pinned(m)
    <3>1. m \in Run /\ m < r  BY <1>4, <1>6 DEF Valid
    <3>2. Current(k)' # r  BY <2>2, <3>1 DEF Run
    <3>3. Current(k)' = Current(k)  BY <2>2, <3>2, RunReads DEF Marker, Run
    <3> QED  BY <2>2, <3>3 DEF PinsInv
  <2>3. \A m \in Valid : Stored(m)'  BY StoredGrows DEF PinsInv, Valid
  <2>4. /\ records' \subseteq Valid' \cup gone'
        /\ \A t \in Tracker : tracker'[t].at = "pinned" => tracker'[t].r \in Valid' \cup gone'
    BY <1>2, <1>8 DEF PinsInv
  <2> QED  BY <1>8, <2>1, <2>2, <2>3, <2>4 DEF PinsInv
<1>10. DeletionInv'
  BY <1>2, <1>8 DEF DeletionInv, Newer
<1> QED  BY <1>1, <1>7, <1>9, <1>10

-----------------------------------------------------------------------------
(* The trackers.                                                           *)
LEMMA AloneFree ==
  ASSUME TInv, NEW r \in Run, exec[r].at = "ended", Alone(r)
  PROVE  /\ \A o \in Run : o < r => Over(o)
         /\ \A o \in Run : r < o => exec[o].at = "none" /\ ~(rank[o] > 0)
<1>1. ASSUME NEW o \in Run, o < r PROVE Over(o)
  <2>1. exec[o].at # "none" /\ o # r  BY <1>1 DEF TInv, ExecInv, Run
  <2> QED  BY <2>1 DEF Alone, Over
<1>2. ASSUME NEW o \in Run, r < o PROVE exec[o].at = "none" /\ ~(rank[o] > 0)
  <2>1. o # r /\ ~(o < r)  BY <1>2 DEF Run
  <2>2. exec[o].at = "none"  BY <2>1 DEF Alone
  <2> QED  BY <2>2 DEF TInv, ExecInv
<1> QED  BY <1>1, <1>2

LEMMA TrackedKept ==
  ASSUME TrackedInv, UNCHANGED <<exec, rank>>, \A x \in Run : Tracked(x)' => Tracked(x)
  PROVE  TrackedInv'
BY DEF TrackedInv, Over

LEMMA ListsQuiet ==
  ASSUME TInv, Quiet, NEW t \in Tracker, NEW r \in Run, TrackerLists(t, r), ~disturbed'
  PROVE  Quiet'
<1> USE DEF Quiet
<1>1. /\ UNCHANGED <<bucket, removed, exec, rank, left, admin, gone, manifests, records>>
      /\ r \in events /\ Alone(r)
      /\ tracker' = [tracker EXCEPT ![t] = [at |-> "listed", r |-> r, files |-> Listed]]
  BY DEF TrackerLists, TrackerOnly, runs
<1>2. /\ tracker'[t] = [at |-> "listed", r |-> r, files |-> Listed]
      /\ \A s \in Tracker : s # t => tracker'[s] = tracker[s]
  BY <1>1 DEF TInv, TrackInv
<1>3. exec[r].at = "ended"  BY <1>1 DEF TInv, ExecInv
<1>4. Listed' = Listed /\ (\A k \in Output : Current(k)' = Current(k)) /\ \A k : Kept(k)' = Kept(k)
  BY <1>1, SameBucket
<1>5. (\A m : Pinned(m)' = Pinned(m)) /\ Valid' = Valid  BY <1>1, SameManifests
<1>6. \A x \in Run : Tracked(x)' => Tracked(x) \/ x = r
  BY <1>1, <1>2 DEF Tracked, Handled
<1>7. TrackedInv'
  <2>1. ASSUME NEW x \in Run, Tracked(x) \/ x = r
        PROVE  /\ exec[x].at = "ended"
               /\ \A o \in Run : o < x => Over(o)
               /\ \A o \in Run : x < o /\ rank[o] > 0 => rank[x] < rank[o]
    <3>1. CASE Tracked(x)  BY <3>1 DEF TrackedInv
    <3>2. CASE x = r
      <4>1. /\ \A o \in Run : o < r => Over(o)
            /\ \A o \in Run : r < o => ~(rank[o] > 0)
        BY <1>1, <1>3, AloneFree
      <4> QED  BY <1>3, <3>2, <4>1
    <3> QED  BY <2>1, <3>1, <3>2
  <2> QED  BY <1>1, <1>6, <2>1 DEF TrackedInv, Over
<1>8. FreshInv'
  <2>1. \A s \in Tracker :
          tracker'[s].at = "listed" /\ Alone(tracker'[s].r) => tracker'[s].files = Listed
    BY <1>2 DEF FreshInv
  <2> QED  BY <1>1, <1>4, <2>1 DEF FreshInv, Alone
<1>9. PinsInv'
  <2>1. \A m \in Valid : Stored(m)'  BY <1>1, <1>4, SameStored DEF PinsInv, Valid
  <2>2. \A s \in Tracker : tracker'[s].at = "pinned" => tracker'[s].r \in Valid \cup gone
    BY <1>2 DEF PinsInv
  <2> QED  BY <1>1, <1>4, <1>5, <2>1, <2>2 DEF PinsInv
<1>10. DeletionInv'  BY <1>1, <1>5 DEF DeletionInv, Newer
<1> QED  BY <1>7, <1>8, <1>9, <1>10

LEMMA PinsQuiet ==
  ASSUME TInv, Quiet, NEW t \in Tracker, TrackerPins(t), ~disturbed'
  PROVE  Quiet'
<1> USE DEF Quiet
<1>0. PICK r \in Run : r = tracker[t].r /\ tracker[t].at = "listed" /\ exec[r].at = "ended"
  BY DEF TrackerPins, TInv, TrackInv
<1> DEFINE files == tracker[t].files
<1>1. /\ UNCHANGED <<bucket, removed, exec, rank, left, admin, gone, records>>
      /\ tracker[t].at = "listed" /\ Alone(r)
      /\ manifests' = With(manifests, r, files)
      /\ tracker' = [tracker EXCEPT ![t].at = "pinned"]
  BY <1>0 DEF TrackerPins, TrackerOnly, runs
<1>2. /\ tracker'[t].at = "pinned" /\ tracker'[t].r = r
      /\ \A s \in Tracker : s # t => tracker'[s] = tracker[s]
  BY <1>0, <1>1 DEF TInv, TrackInv, Tracking
<1>3. r \in Run /\ exec[r].at = "ended"  BY <1>0
<1>4. files = Listed  BY <1>0, <1>1 DEF FreshInv
<1>5. Listed' = Listed /\ (\A k \in Output : Current(k)' = Current(k)) /\ \A k : Kept(k)' = Kept(k)
  BY <1>1, SameBucket
<1>6. \A x \in Run : Tracked(x)' => Tracked(x)
  <2>1. Tracked(r)  BY <1>0 DEF Tracked, Handled
  <2>2. DOMAIN manifests' = DOMAIN manifests \cup {r}  BY <1>1 DEF With
  <2>3. \A x : Handled(x)' => Handled(x)  BY <1>1, <1>2 DEF Handled
  <2> QED  BY <1>1, <2>1, <2>2, <2>3 DEF Tracked
<1> HIDE DEF files
<1>8. /\ DOMAIN manifests' = DOMAIN manifests \cup {r} /\ manifests'[r] = Listed
      /\ \A m \in DOMAIN manifests : m # r => manifests'[m] = manifests[m]
  BY <1>1, <1>4 DEF With
<1>9. r \in DOMAIN manifests => manifests[r] = Listed  BY <1>1 DEF FreshInv
<1>10. \A m \in DOMAIN manifests : manifests'[m] = manifests[m]  BY <1>8, <1>9
<1>11. \A m : m # r \/ m \in DOMAIN manifests => Pinned(m)' = Pinned(m)
  BY <1>8, <1>10, SamePins
<1>12. TrackedInv'  BY <1>1, <1>6, TrackedKept
<1>13. FreshInv'
  <2>1. \A s \in Tracker :
          tracker'[s].at = "listed" /\ Alone(tracker'[s].r) => tracker'[s].files = Listed
    BY <1>2 DEF FreshInv
  <2>2. \A m \in DOMAIN manifests' : Alone(m) => manifests'[m] = Listed
    BY <1>8 DEF FreshInv
  <2> QED  BY <1>1, <1>5, <2>1, <2>2 DEF FreshInv, Alone
<1>14. Valid' \subseteq Valid \cup {r} /\ Valid \subseteq Valid' /\ (r \in Valid' \/ r \in gone)
  BY <1>1, <1>8 DEF Valid
<1>15. \A k \in Output : Current(k) \in Run => Current(k) <= r
  <2>1. ASSUME NEW k \in Output, Current(k) \in Run PROVE Current(k) <= r
    <3>1. exec[Current(k)].at # "none"  BY <2>1, CurrentForm
    <3>2. ~(r < Current(k))  BY <1>1, <1>3, <2>1, <3>1, AloneFree
    <3> QED  BY <1>3, <2>1, <3>2 DEF Run
  <2> QED  BY <2>1
<1>16. \A k \in Output : Current(k) \in Run => <<k, Current(k)>> \in Pinned(r)'
  <2>2. ASSUME NEW k \in Output, Current(k) \in Run PROVE <<k, Current(k)>> \in Pinned(r)'
    <3>1. Exists(k)  BY <2>2 DEF Exists, Marker, Run
    <3>2. k \in DOMAIN Listed /\ Listed[k] = Current(k)  BY <3>1 DEF Listed
    <3> QED  BY <1>8, <3>2 DEF Pinned
  <2> QED  BY <2>2
<1>17. Stored(r)'
  <2>1. ASSUME NEW k \in DOMAIN Listed PROVE \E i \in Kept(k) : bucket[k][i] = Listed[k]
    BY ListedIs, CurrentForm
  <2> QED  BY <1>1, <1>5, <1>8, <2>1 DEF Stored
<1>18. PinsInv'
  <2>1. \A m \in DOMAIN manifests' : \A k \in DOMAIN manifests'[m] : manifests'[m][k] <= m
    <3>1. \A k \in DOMAIN Listed : Listed[k] <= r  BY <1>15, ListedIs
    <3> QED  BY <1>8, <3>1 DEF PinsInv
  <2>2. \A m \in Valid', k \in Output :
          Current(k) \in Run /\ Current(k) <= m => <<k, Current(k)>> \in Pinned(m)'
    BY <1>11, <1>14, <1>16 DEF PinsInv
  <2>3. \A m \in Valid' : Stored(m)'
    <3>1. ASSUME NEW m \in Valid, m # r PROVE Stored(m)'
      <4>1. /\ m \in DOMAIN manifests /\ m \in DOMAIN manifests'
            /\ manifests'[m] = manifests[m] /\ Stored(m)
        BY <1>8, <3>1 DEF PinsInv, Valid
      <4> QED  BY <1>1, <1>5, <4>1, SameStored
    <3> QED  BY <1>14, <1>17, <3>1
  <2>4. records' \subseteq Valid' \cup gone'  BY <1>1, <1>14 DEF PinsInv
  <2>5. \A s \in Tracker : tracker'[s].at = "pinned" => tracker'[s].r \in Valid' \cup gone'
    BY <1>1, <1>2, <1>14 DEF PinsInv
  <2> QED  BY <1>5, <2>1, <2>2, <2>3, <2>4, <2>5 DEF PinsInv
<1>19. ASSUME NEW d \in Admin, admin[d].at # "idle"
       PROVE  /\ \E a \in Run : a = admin[d].r /\ a # r /\ Pinned(a)' = Pinned(a)
              /\ \E m \in Valid : m > admin[d].r /\ m \in Run
  <2>1. admin[d].r \in Run  BY <1>19 DEF TInv, AdminInv
  <2>2. PICK m \in records \ gone : m > admin[d].r  BY <1>19 DEF DeletionInv, Newer
  <2>3. m \in Run /\ Tracked(m) /\ m \in Valid  BY <2>2 DEF TInv, RecordInv, Tracked, PinsInv
  <2>4. exec[m].at = "ended"  BY <2>3 DEF TrackedInv
  <2>5. ~(r < m)  BY <1>1, <1>3, <2>3, <2>4, AloneFree
  <2>6. admin[d].r # r  BY <2>2, <2>5
  <2> QED  BY <1>11, <2>1, <2>2, <2>3, <2>6
<1>20. DeletionInv'
  <2>1. ASSUME NEW d \in Admin, admin[d].at \in {"loaded", "counting"}
        PROVE  (admin[d].pins \subseteq Pinned(admin[d].r))'
    <3>1. PICK a \in Run : a = admin[d].r /\ Pinned(a)' = Pinned(a)  BY <1>19, <2>1
    <3>2. admin[d].pins \subseteq Pinned(a)'  BY <2>1, <3>1 DEF DeletionInv
    <3>3. admin' = admin /\ admin'[d].r = a  BY <1>1, <3>1
    <3> QED  BY <3>2, <3>3 DEF Pinned
  <2>2. ASSUME NEW d \in Admin, admin[d].at = "counting"
        PROVE  /\ admin[d].todo \subseteq DOMAIN manifests'
               /\ \A o \in DOMAIN manifests' \ {admin[d].r} :
                    \A p \in admin[d].pins \cap Pinned(o)' :
                      \E q \in admin[d].todo : p \in Pinned(q)'
    <3>1. /\ admin[d].todo \subseteq DOMAIN manifests
          /\ \A o \in DOMAIN manifests \ {admin[d].r} : \A p \in admin[d].pins \cap Pinned(o) :
               \E q \in admin[d].todo : p \in Pinned(q)
      BY <2>2 DEF DeletionInv
    <3>2. \A q \in admin[d].todo : Pinned(q)' = Pinned(q)  BY <1>11, <3>1
    <3>3. ASSUME NEW o \in DOMAIN manifests' \ {admin[d].r}, NEW p \in admin[d].pins \cap Pinned(o)'
          PROVE  \E x \in DOMAIN manifests \ {admin[d].r} : p \in admin[d].pins \cap Pinned(x)
      <4>1. CASE o \in DOMAIN manifests  BY <1>11, <3>3, <4>1
      <4>2. CASE o \notin DOMAIN manifests
        <5>1. o = r  BY <1>8, <4>2
        <5>2. PICK k \in DOMAIN Listed : p = <<k, Listed[k]>>  BY <1>8, <3>3, <5>1 DEF Pinned
        <5>3. k \in Output /\ Current(k) \in Run /\ p = <<k, Current(k)>>  BY <5>2, ListedIs
        <5>4. p \in Pinned(admin[d].r)  BY <2>2 DEF DeletionInv
        <5>5. Current(k) <= admin[d].r
          <6>1. /\ admin[d].r \in DOMAIN manifests /\ p[1] \in DOMAIN manifests[admin[d].r]
                /\ p[2] = manifests[admin[d].r][p[1]]
            BY <5>4, PinnedForm
          <6>2. p[1] = k /\ p[2] = Current(k)  BY <5>3
          <6> QED  BY <6>1, <6>2 DEF PinsInv
        <5>6. PICK m \in Valid : m > admin[d].r /\ m \in Run  BY <1>19, <2>2
        <5>7. Current(k) <= m /\ m # admin[d].r
          <6>1. admin[d].r \in Run  BY <2>2 DEF TInv, AdminInv
          <6> QED  BY <5>3, <5>5, <5>6, <6>1 DEF Run
        <5>8. p \in Pinned(m)  BY <5>3, <5>6, <5>7 DEF PinsInv
        <5>9. m \in DOMAIN manifests  BY <5>6 DEF Valid
        <5> QED  BY <5>7, <5>8, <5>9
      <4> QED  BY <4>1, <4>2
    <3> QED  BY <1>8, <3>1, <3>2, <3>3
  <2> QED  BY <1>1, <2>1, <2>2 DEF DeletionInv, Newer
<1> QED  BY <1>12, <1>13, <1>18, <1>20

LEMMA RecordsQuiet ==
  ASSUME TInv, Quiet, NEW t \in Tracker, TrackerRecords(t) \/ TrackerFails(t)
  PROVE  Quiet'
<1> USE DEF Quiet
<1>1. /\ UNCHANGED <<bucket, removed, exec, rank, left, admin, gone, manifests>>
      /\ \/ records' = records
         \/ tracker[t].at = "pinned" /\ records' = records \cup {tracker[t].r}
      /\ tracker' = [tracker EXCEPT ![t] = NotTracking]
      /\ tracker[t].at # "idle"
  BY DEF TrackerRecords, TrackerFails, TrackerOnly, runs
<1>2. /\ tracker'[t].at = "idle"
      /\ \A s \in Tracker : s # t => tracker'[s] = tracker[s]
  BY <1>1 DEF TInv, TrackInv, NotTracking
<1>3. Listed' = Listed /\ (\A k \in Output : Current(k)' = Current(k)) /\ \A k : Kept(k)' = Kept(k)
  BY <1>1, SameBucket
<1>4. (\A m : Pinned(m)' = Pinned(m)) /\ Valid' = Valid  BY <1>1, SameManifests
<1>5. \A x \in Run : Tracked(x)' => Tracked(x)
  BY <1>1, <1>2 DEF Tracked, Handled
<1>6. TrackedInv'  BY <1>1, <1>5, TrackedKept
<1>7. FreshInv'
  <2>1. \A s \in Tracker :
          tracker'[s].at = "listed" /\ Alone(tracker'[s].r) => tracker'[s].files = Listed
    BY <1>2 DEF FreshInv
  <2> QED  BY <1>1, <1>3, <2>1 DEF FreshInv, Alone
<1>8. PinsInv'
  <2>1. \A m \in Valid : Stored(m)'  BY <1>1, <1>3, SameStored DEF PinsInv, Valid
  <2>2. \A s \in Tracker : tracker'[s].at = "pinned" => tracker'[s].r \in Valid \cup gone
    BY <1>2 DEF PinsInv
  <2>3. records' \subseteq Valid \cup gone  BY <1>1 DEF PinsInv
  <2> QED  BY <1>1, <1>3, <1>4, <2>1, <2>2, <2>3 DEF PinsInv
<1>9. DeletionInv'
  <2>1. records \subseteq records'  BY <1>1
  <2>2. \A x : Newer(x) => Newer(x)'  BY <1>1, <2>1 DEF Newer
  <2>3. \A x \in gone' : Newer(x)'  BY <1>1, <2>2 DEF DeletionInv
  <2>4. \A d \in Admin : admin[d].at # "idle" =>
          admin[d].r \in records' \cup gone' /\ \E m \in records' \ gone' : m > admin[d].r
    BY <1>1, <2>1 DEF DeletionInv, Newer
  <2> QED  BY <1>1, <1>4, <2>3, <2>4 DEF DeletionInv, Newer
<1> QED  BY <1>6, <1>7, <1>8, <1>9

-----------------------------------------------------------------------------
(* The deletions.  All but three steps leave the bucket, the manifests and *)
(* the records, and only move the deletion on.                             *)
LEMMA ReadsQuiet ==
  ASSUME TInv, Quiet,
         UNCHANGED <<bucket, removed, exec, rank, tracker, manifests, records, gone>>
  PROVE  TrackedInv' /\ FreshInv' /\ PinsInv'
<1> USE DEF Quiet
<1>1. Listed' = Listed /\ (\A k \in Output : Current(k)' = Current(k)) /\ \A k : Kept(k)' = Kept(k)
  BY SameBucket
<1>2. (\A m : Pinned(m)' = Pinned(m)) /\ Valid' = Valid  BY SameManifests
<1>3. TrackedInv'
  <2>1. \A x \in Run : Tracked(x)' => Tracked(x)  BY DEF Tracked, Handled
  <2> QED  BY <2>1, TrackedKept
<1>4. FreshInv'  BY <1>1 DEF FreshInv, Alone
<1>5. PinsInv'
  <2>1. \A m \in Valid : Stored(m)'  BY <1>1, SameStored DEF PinsInv, Valid
  <2> QED  BY <1>1, <1>2, <2>1 DEF PinsInv
<1> QED  BY <1>3, <1>4, <1>5

(* What has to hold of the deletion that has moved, when no other is under *)
(* way and nothing else has changed.                                       *)
LEMMA MoveQuiet ==
  ASSUME TInv, Quiet, UNCHANGED <<manifests, records, gone>>, NEW d \in Admin,
         \A e \in Admin : e # d => admin[e].at = "idle",
         NEW at, NEW r, NEW pins, NEW todo, Move(d, at, r, pins, todo),
         at # "idle" => r \in records \cup gone /\ Newer(r),
         at \in {"loaded", "counting"} => pins \subseteq Pinned(r),
         at = "counting" =>
           /\ todo \subseteq DOMAIN manifests
           /\ \A o \in DOMAIN manifests \ {r} : \A p \in pins \cap Pinned(o) :
                \E q \in todo : p \in Pinned(q),
         at \in {"clearing", "cleared"} => r \in gone
  PROVE  DeletionInv'
<1>1. /\ admin'[d] = [at |-> at, r |-> r, pins |-> pins, todo |-> todo]
      /\ \A e \in Admin : e # d => admin'[e] = admin[e]
  BY MoveForm
<1>2. /\ admin'[d].at = at /\ admin'[d].r = r /\ admin'[d].pins = pins /\ admin'[d].todo = todo
      /\ \A e \in Admin : e # d => admin'[e].at = "idle"
  BY <1>1
<1>3. \A m : Pinned(m)' = Pinned(m)  BY SameManifests
<1>4. Pinned(r)' = Pinned(r)  BY <1>3
<1>5. \A x \in gone : Newer(x)  BY DEF Quiet, DeletionInv
<1>6. \A x : Newer(x)' = Newer(x)  BY DEF Newer
<1>7. ASSUME NEW e \in Admin
      PROVE  /\ \A f \in Admin : admin'[e].at # "idle" /\ admin'[f].at # "idle" => e = f
             /\ admin'[e].at # "idle" =>
                  admin'[e].r \in records \cup gone /\ \E m \in records \ gone : m > admin'[e].r
             /\ (admin[e].at \in {"loaded", "counting"}
                   => admin[e].pins \subseteq Pinned(admin[e].r))'
             /\ admin'[e].at = "counting" =>
                  /\ admin'[e].todo \subseteq DOMAIN manifests
                  /\ \A o \in DOMAIN manifests \ {admin'[e].r} :
                       \A p \in admin'[e].pins \cap Pinned(o) :
                         \E q \in admin'[e].todo : p \in Pinned(q)
             /\ admin'[e].at \in {"clearing", "cleared"} => admin'[e].r \in gone
  <2>1. CASE e # d  BY <1>2, <2>1
  <2>2. CASE e = d
    <3>1. (admin[e].at \in {"loaded", "counting"} => admin[e].pins \subseteq Pinned(admin[e].r))'
      BY <1>2, <1>4, <2>2 DEF Pinned
    <3> QED  BY <1>2, <2>2, <3>1 DEF Newer
  <2> QED  BY <2>1, <2>2
<1> QED  BY <1>3, <1>5, <1>6, <1>7 DEF DeletionInv, Newer

LEMMA OnlyOne ==
  ASSUME Quiet, NEW d \in Admin, admin[d].at # "idle"
  PROVE  \A e \in Admin : e # d => admin[e].at = "idle"
BY DEF Quiet, DeletionInv

LEMMA AskQuiet ==
  ASSUME TInv, Quiet, PastInv, NEW d \in Admin, NEW r \in Run, AskToDelete(d, r), ~disturbed'
  PROVE  Quiet'
<1> USE DEF Quiet
<1>1. /\ UNCHANGED <<bucket, removed, exec, rank, tracker, manifests, records, gone>>
      /\ r \in records \cup gone /\ ~IsNewest(r, records)
      /\ \A e \in Admin : admin[e].at = "idle"
  BY DEF AskToDelete, AdminOnly, runs, s3, IsCurrentVersion, PastInv
<1>2. Move(d, "allowed", r, {}, {})  BY DeletionMoves
<1>3. Newer(r)
  <2>1. CASE r \in gone  BY <2>1 DEF DeletionInv
  <2>2. CASE r \notin gone
    <3>1. PICK o \in records : ~(rank[o] <= rank[r])  BY <1>1, <2>2 DEF IsNewest
    <3>2. o \in Run /\ Tracked(o) /\ Tracked(r)  BY <1>1, <3>1 DEF TInv, RecordInv, Tracked
    <3>3. rank[o] \in Nat /\ rank[r] \in Nat /\ rank[r] > 0
      <4>1. exec[r].at = "ended"  BY <3>2 DEF TrackedInv
      <4>2. rank \in [Run -> 0..MaxRuns] /\ rank[r] > 0  BY <4>1 DEF TInv, ExecInv
      <4> QED  BY <3>2, <4>2
    <3>4. o # r  BY <3>1, <3>3
    <3>5. ~(o < r)  BY <3>1, <3>2, <3>3 DEF TrackedInv
    <3>6. o > r  BY <3>2, <3>4, <3>5 DEF Run
    <3>7. CASE o \notin gone  BY <3>1, <3>6, <3>7 DEF Newer
    <3>8. CASE o \in gone
      <4>1. PICK m \in records \ gone : m > o  BY <3>8 DEF DeletionInv, Newer
      <4>2. m \in Run  BY <4>1 DEF TInv, RecordInv
      <4>3. m > r  BY <3>2, <3>6, <4>1, <4>2 DEF Run
      <4> QED  BY <4>1, <4>3 DEF Newer
    <3> QED  BY <3>7, <3>8
  <2> QED  BY <2>1, <2>2
<1>4. DeletionInv'  BY <1>1, <1>2, <1>3, MoveQuiet
<1>5. TrackedInv' /\ FreshInv' /\ PinsInv'  BY <1>1, ReadsQuiet
<1> QED  BY <1>4, <1>5

LEMMA LoadsQuiet ==
  ASSUME TInv, Quiet, NEW d \in Admin, LoadManifest(d)
  PROVE  Quiet'
<1> USE DEF Quiet
<1>1. /\ UNCHANGED <<bucket, removed, exec, rank, tracker, manifests, records, gone>>
      /\ admin[d].at = "allowed"
  BY DEF LoadManifest, AdminOnly, runs, s3, history
<1>2. PICK r \in Run : r = admin[d].r /\ r \in records \cup gone /\ Newer(r)
  BY <1>1 DEF TInv, AdminInv, DeletionInv
<1>3. \A e \in Admin : e # d => admin[e].at = "idle"  BY <1>1, OnlyOne
<1>4. PICK at \in {"loaded", "clearing"} :
        /\ at = "loaded" <=> r \in DOMAIN manifests
        /\ Move(d, at, r, Pinned(r), admin[d].todo)
  BY <1>2, DeletionMoves
<1>5. at = "clearing" => r \in gone  BY <1>2, <1>4 DEF PinsInv, Valid
<1>6. DeletionInv'  BY <1>1, <1>2, <1>3, <1>4, <1>5, MoveQuiet
<1>7. TrackedInv' /\ FreshInv' /\ PinsInv'  BY <1>1, ReadsQuiet
<1> QED  BY <1>6, <1>7

LEMMA ListsOthersQuiet ==
  ASSUME TInv, Quiet, NEW d \in Admin, ListOthers(d)
  PROVE  Quiet'
<1> USE DEF Quiet
<1>1. /\ UNCHANGED <<bucket, removed, exec, rank, tracker, manifests, records, gone>>
      /\ admin[d].at = "loaded"
  BY DEF ListOthers, AdminOnly, runs, s3, history
<1>2. PICK r \in Run : /\ r = admin[d].r /\ r \in records \cup gone /\ Newer(r)
                       /\ admin[d].pins \subseteq Pinned(r)
  BY <1>1 DEF TInv, AdminInv, DeletionInv
<1>3. \A e \in Admin : e # d => admin[e].at = "idle"  BY <1>1, OnlyOne
<1>4. Move(d, "counting", r, admin[d].pins, DOMAIN manifests \ {r})  BY <1>2, DeletionMoves
<1>5. DeletionInv'  BY <1>1, <1>2, <1>3, <1>4, MoveQuiet
<1>6. TrackedInv' /\ FreshInv' /\ PinsInv'  BY <1>1, ReadsQuiet
<1> QED  BY <1>5, <1>6

LEMMA LoadsOtherQuiet ==
  ASSUME TInv, Quiet, NEW d \in Admin, NEW o \in Run, LoadOther(d, o)
  PROVE  Quiet'
<1> USE DEF Quiet
<1>1. /\ UNCHANGED <<bucket, removed, exec, rank, tracker, manifests, records, gone>>
      /\ admin[d].at = "counting"
  BY DEF LoadOther, AdminOnly, runs, s3, history
<1> DEFINE pins == admin[d].pins \ Pinned(o)
           todo == admin[d].todo \ {o}
<1>2. PICK r \in Run : /\ r = admin[d].r /\ r \in records \cup gone /\ Newer(r)
                       /\ admin[d].pins \subseteq Pinned(r)
  BY <1>1 DEF TInv, AdminInv, DeletionInv
<1>3. \A e \in Admin : e # d => admin[e].at = "idle"  BY <1>1, OnlyOne
<1>4. Move(d, "counting", r, pins, todo)  BY <1>2, DeletionMoves
<1>5. /\ todo \subseteq DOMAIN manifests
      /\ \A x \in DOMAIN manifests \ {r} :
           \A p \in pins \cap Pinned(x) : \E q \in todo : p \in Pinned(q)
  <2>1. /\ admin[d].todo \subseteq DOMAIN manifests
        /\ \A x \in DOMAIN manifests \ {r} : \A p \in admin[d].pins \cap Pinned(x) :
             \E q \in admin[d].todo : p \in Pinned(q)
    BY <1>1, <1>2 DEF DeletionInv
  <2> QED  BY <2>1
<1>6. pins \subseteq Pinned(r)  BY <1>2
<1> HIDE DEF pins, todo
<1>7. DeletionInv'  BY <1>1, <1>2, <1>3, <1>4, <1>5, <1>6, MoveQuiet
<1>8. TrackedInv' /\ FreshInv' /\ PinsInv'  BY <1>1, ReadsQuiet
<1> QED  BY <1>7, <1>8

LEMMA FailsQuiet ==
  ASSUME TInv, Quiet, NEW d \in Admin, DeletionFails(d)
  PROVE  Quiet'
<1> USE DEF Quiet
<1>1. /\ UNCHANGED <<bucket, removed, exec, rank, tracker, manifests, records, gone>>
      /\ admin[d].at # "idle"
  BY DEF DeletionFails, AdminOnly, runs, s3, history
<1>2. Move(d, "idle", 0, {}, {})  BY DeletionMoves
<1>3. \A e \in Admin : e # d => admin[e].at = "idle"  BY <1>1, OnlyOne
<1>4. DeletionInv'  BY <1>1, <1>2, <1>3, MoveQuiet
<1>5. TrackedInv' /\ FreshInv' /\ PinsInv'  BY <1>1, ReadsQuiet
<1> QED  BY <1>4, <1>5

(* What a deletion is about to remove, when it has loaded every manifest,  *)
(* no other manifest pins, and it is not what is on top.                   *)
LEMMA RemovesNoOthers ==
  ASSUME TInv, Quiet, NEW d \in Admin, DeleteVersions(d)
  PROVE  \A o \in DOMAIN manifests \ {admin[d].r} : admin[d].pins \cap Pinned(o) = {}
<1>1. admin[d].at = "counting" /\ admin[d].todo = {}  BY DEF DeleteVersions
<1> QED  BY <1>1 DEF Quiet, DeletionInv

LEMMA RemovesNoneOnTop ==
  ASSUME TInv, Quiet, NEW d \in Admin, DeleteVersions(d), NEW k \in Output
  PROVE  <<k, Current(k)>> \notin admin[d].pins
<1> SUFFICES ASSUME <<k, Current(k)>> \in admin[d].pins PROVE FALSE  OBVIOUS
<1> USE DEF Quiet
<1>1. admin[d].at = "counting"  BY DEF DeleteVersions
<1>2. PICK r \in Run : r = admin[d].r /\ Newer(r) /\ <<k, Current(k)>> \in Pinned(r)
  BY <1>1 DEF TInv, AdminInv, DeletionInv
<1>3. PICK m \in records \ gone : m > r  BY <1>2 DEF Newer
<1>4. m \in Run /\ m \in Valid /\ m \in DOMAIN manifests
  BY <1>3 DEF TInv, RecordInv, PinsInv, Valid
<1>5. Current(k) \in Run /\ Current(k) <= r
  <2> DEFINE p == <<k, Current(k)>>
  <2>1. p \in Pinned(r) /\ p[1] = k /\ p[2] = Current(k)  BY <1>2
  <2> HIDE DEF p
  <2>2. /\ r \in DOMAIN manifests /\ p[1] \in DOMAIN manifests[r] /\ p[2] = manifests[r][p[1]]
        /\ p[2] \in Run
    BY <2>1, PinnedForm
  <2>3. manifests[r][p[1]] <= r  BY <2>2 DEF PinsInv
  <2> QED  BY <2>1, <2>2, <2>3
<1>6. Current(k) <= m /\ m # r  BY <1>2, <1>3, <1>4, <1>5 DEF Run
<1>7. <<k, Current(k)>> \in Pinned(m)  BY <1>4, <1>5, <1>6 DEF PinsInv
<1> QED  BY <1>2, <1>4, <1>6, <1>7, RemovesNoOthers

LEMMA SparesCurrent ==
  ASSUME TInv, Quiet, NEW d \in Admin, DeleteVersions(d)
  PROVE  \A k \in Output : Current(k)' = Current(k)
<1>1. bucket' = bucket /\ removed' = removed \cup admin[d].pins  BY DEF DeleteVersions
<1>2. \A k \in Output : <<k, Current(k)>> \notin admin[d].pins  BY RemovesNoneOnTop
<1> QED  BY <1>1, <1>2, CurrentSpared

LEMMA RemovalQuiet ==
  ASSUME TInv, Quiet, NEW d \in Admin, DeleteVersions(d)
  PROVE  Quiet'
<1> USE DEF Quiet
<1>1. PICK r \in Run : r = admin[d].r /\ r \in records \cup gone /\ Newer(r)
    /\ admin[d].at = "counting"
  BY DEF DeleteVersions, TInv, AdminInv, DeletionInv
<1>2. /\ UNCHANGED <<bucket, exec, rank, tracker, manifests, records>>
      /\ removed' = removed \cup admin[d].pins
      /\ gone' = gone \cup {r}
  BY <1>1 DEF DeleteVersions, AdminOnly, runs
<1>3. (\A k \in Output : Current(k)' = Current(k)) /\ Listed' = Listed
  BY SparesCurrent, SameRead
<1>4. \A m : Pinned(m)' = Pinned(m)  BY <1>2, SameManifests
<1>5. Valid' = Valid \ {r} /\ Valid' \cup gone' = Valid \cup gone \cup {r}  BY <1>2 DEF Valid
<1>6. TrackedInv'
  <2>1. \A x \in Run : Tracked(x)' => Tracked(x)  BY <1>1, <1>2 DEF Tracked, Handled
  <2> QED  BY <1>2, <2>1, TrackedKept
<1>7. FreshInv'  BY <1>2, <1>3 DEF FreshInv, Alone
<1>8. ASSUME NEW m \in Valid, m # r PROVE Stored(m)'
  <2>1. m \in DOMAIN manifests /\ manifests[m] \in Contents  BY DEF Valid, TInv, RecordInv
  <2>2. ASSUME NEW k \in DOMAIN manifests[m]
        PROVE  \E i \in Kept(k)' : bucket'[k][i] = manifests[m][k]
    <3>1. PICK i \in Kept(k) : bucket[k][i] = manifests[m][k]  BY DEF PinsInv, Stored
    <3>2. <<k, manifests[m][k]>> \in Pinned(m)  BY <2>1, PairPinned
    <3>3. <<k, manifests[m][k]>> \notin admin[d].pins  BY <1>1, <1>8, <2>1, <3>2, RemovesNoOthers
    <3>4. i \in Kept(k)'  BY <1>2, <3>1, <3>3 DEF Kept
    <3> QED  BY <1>2, <3>1, <3>4
  <2> QED  BY <1>2, <2>1, <2>2 DEF Stored
<1>9. PinsInv'
  <2>1. \A m \in Valid' : Stored(m)'  BY <1>5, <1>8
  <2>2. \A m \in Valid', k \in Output :
          Current(k) \in Run /\ Current(k) <= m => <<k, Current(k)>> \in Pinned(m)
    BY <1>5 DEF PinsInv
  <2>3. /\ records' \subseteq Valid' \cup gone'
        /\ \A t \in Tracker : tracker'[t].at = "pinned" => tracker'[t].r \in Valid' \cup gone'
    BY <1>2, <1>5 DEF PinsInv
  <2>4. \A m \in DOMAIN manifests' : \A k \in DOMAIN manifests'[m] : manifests'[m][k] <= m
    BY <1>2 DEF PinsInv
  <2> QED  BY <1>3, <1>4, <2>1, <2>2, <2>3, <2>4 DEF PinsInv
<1>10. DeletionInv'
  <2>1. \A x \in Run : Newer(x) => \E m \in records \ gone' : m > x
    <3>1. ASSUME NEW x \in Run, NEW m \in records \ gone, m > x
          PROVE  \E n \in records \ gone' : n > x
      <4>1. CASE m # r  BY <1>2, <3>1, <4>1
      <4>2. CASE m = r
        <5>1. PICK n \in records \ gone : n > r  BY <1>1 DEF Newer
        <5>2. n \in Run  BY <5>1 DEF TInv, RecordInv
        <5>3. n > x /\ n # r  BY <3>1, <4>2, <5>1, <5>2 DEF Run
        <5> QED  BY <1>2, <5>1, <5>3
      <4> QED  BY <4>1, <4>2
    <3> QED  BY <3>1 DEF Newer
  <2>2. Move(d, "clearing", r, admin[d].pins, admin[d].todo)  BY <1>1, DeletionMoves
  <2>3. /\ admin'[d].at = "clearing" /\ admin'[d].r = r
        /\ \A e \in Admin : e # d => admin'[e].at = "idle"
    <3>1. admin'[d] = [at |-> "clearing", r |-> r, pins |-> admin[d].pins, todo |-> admin[d].todo]
          /\ \A e \in Admin : e # d => admin'[e] = admin[e]
      BY <2>2, MoveForm
    <3>2. \A e \in Admin : e # d => admin[e].at = "idle"  BY <1>1, OnlyOne
    <3> QED  BY <3>1, <3>2
  <2>4. \A x \in gone' : \E m \in records' \ gone' : m > x
    BY <1>1, <1>2, <2>1 DEF DeletionInv, TInv, RecordInv
  <2>5. \E m \in records' \ gone' : m > r  BY <1>1, <1>2, <2>1
  <2>6. r \in gone'  BY <1>1, <1>2
  <2> QED  BY <2>3, <2>4, <2>5, <2>6 DEF DeletionInv, Newer
<1> QED  BY <1>6, <1>7, <1>9, <1>10

LEMMA UnpinQuiet ==
  ASSUME TInv, Quiet, NEW d \in Admin, DeleteManifest(d)
  PROVE  Quiet'
<1> USE DEF Quiet
<1>1. PICK r \in Run : /\ r = admin[d].r /\ r \in records \cup gone /\ Newer(r) /\ r \in gone
                       /\ admin[d].at = "clearing"
  BY DEF DeleteManifest, TInv, AdminInv, DeletionInv
<1>2. /\ UNCHANGED <<bucket, removed, exec, rank, tracker, records, gone>>
      /\ manifests' = Without(manifests, r)
  BY <1>1 DEF DeleteManifest, AdminOnly, runs, history
<1>3. /\ DOMAIN manifests' = DOMAIN manifests \ {r}
      /\ \A m \in DOMAIN manifests : m # r => manifests'[m] = manifests[m]
  BY <1>2 DEF Without
<1>4. Listed' = Listed /\ (\A k \in Output : Current(k)' = Current(k)) /\ \A k : Kept(k)' = Kept(k)
  BY <1>2, SameBucket
<1>5. Valid' = Valid  BY <1>1, <1>2, <1>3 DEF Valid
<1>6. \A m \in Valid : m # r /\ m \in DOMAIN manifests  BY <1>1 DEF Valid
<1>7. \A m : m # r => Pinned(m)' = Pinned(m)  BY <1>3, SamePins
<1>8. TrackedInv'
  <2>1. \A x \in Run : Tracked(x)' => Tracked(x)  BY <1>2, <1>3 DEF Tracked, Handled
  <2> QED  BY <1>2, <2>1, TrackedKept
<1>9. FreshInv'
  <2>1. \A m \in DOMAIN manifests' : Alone(m) => manifests'[m] = Listed  BY <1>3 DEF FreshInv
  <2> QED  BY <1>2, <1>4, <2>1 DEF FreshInv, Alone
<1>10. PinsInv'
  <2>1. \A m \in Valid : Stored(m)'
    <3>1. ASSUME NEW m \in Valid PROVE Stored(m)'
      <4>1. /\ m \in DOMAIN manifests /\ m \in DOMAIN manifests'
            /\ manifests'[m] = manifests[m] /\ Stored(m)
        BY <1>3, <1>6 DEF PinsInv
      <4> QED  BY <1>2, <1>4, <4>1, SameStored
    <3> QED  BY <3>1
  <2>2. \A m \in DOMAIN manifests' : \A k \in DOMAIN manifests'[m] : manifests'[m][k] <= m
    BY <1>3 DEF PinsInv
  <2>3. \A m \in Valid, k \in Output :
          Current(k) \in Run /\ Current(k) <= m => <<k, Current(k)>> \in Pinned(m)'
    BY <1>6, <1>7 DEF PinsInv
  <2>4. /\ records' \subseteq Valid \cup gone'
        /\ \A t \in Tracker : tracker'[t].at = "pinned" => tracker'[t].r \in Valid \cup gone'
    BY <1>2 DEF PinsInv
  <2> QED  BY <1>4, <1>5, <2>1, <2>2, <2>3, <2>4 DEF PinsInv
<1>11. DeletionInv'
  <2>1. Move(d, "cleared", r, admin[d].pins, admin[d].todo)  BY <1>1, DeletionMoves
  <2>2. /\ admin'[d].at = "cleared" /\ admin'[d].r = r
        /\ \A e \in Admin : e # d => admin'[e].at = "idle"
    <3>1. admin'[d] = [at |-> "cleared", r |-> r, pins |-> admin[d].pins, todo |-> admin[d].todo]
          /\ \A e \in Admin : e # d => admin'[e] = admin[e]
      BY <2>1, MoveForm
    <3>2. \A e \in Admin : e # d => admin[e].at = "idle"  BY <1>1, OnlyOne
    <3> QED  BY <3>1, <3>2
  <2>3. /\ \A x \in gone' : \E m \in records' \ gone' : m > x
        /\ \E m \in records' \ gone' : m > r
    BY <1>1, <1>2 DEF DeletionInv, Newer
  <2>4. r \in gone'  BY <1>1, <1>2
  <2> QED  BY <2>2, <2>3, <2>4 DEF DeletionInv, Newer
<1> QED  BY <1>8, <1>9, <1>10, <1>11

LEMMA UnrecordQuiet ==
  ASSUME TInv, Quiet, NEW d \in Admin, DeleteRecord(d)
  PROVE  Quiet'
<1> USE DEF Quiet
<1>1. PICK r \in Run : r = admin[d].r /\ r \in gone /\ admin[d].at = "cleared"
  BY DEF DeleteRecord, TInv, AdminInv, DeletionInv
<1>2. /\ UNCHANGED <<bucket, removed, exec, rank, tracker, manifests, gone>>
      /\ records' = records \ {r}
  BY <1>1 DEF DeleteRecord, AdminOnly, runs, s3, history
<1>3. Listed' = Listed /\ (\A k \in Output : Current(k)' = Current(k)) /\ \A k : Kept(k)' = Kept(k)
  BY <1>2, SameBucket
<1>4. (\A m : Pinned(m)' = Pinned(m)) /\ Valid' = Valid  BY <1>2, SameManifests
<1>5. TrackedInv'
  <2>1. \A x \in Run : Tracked(x)' => Tracked(x)  BY <1>2 DEF Tracked, Handled
  <2> QED  BY <1>2, <2>1, TrackedKept
<1>6. FreshInv'  BY <1>2, <1>3 DEF FreshInv, Alone
<1>7. PinsInv'
  <2>1. \A m \in Valid : Stored(m)'  BY <1>2, <1>3, SameStored DEF PinsInv, Valid
  <2> QED  BY <1>2, <1>3, <1>4, <2>1 DEF PinsInv
<1>8. DeletionInv'
  <2>1. Move(d, "idle", 0, {}, {})  BY DeletionMoves
  <2>2. \A e \in Admin : admin'[e].at = "idle"
    <3>1. admin'[d] = [at |-> "idle", r |-> 0, pins |-> {}, todo |-> {}]
          /\ \A e \in Admin : e # d => admin'[e] = admin[e]
      BY <2>1, MoveForm
    <3>2. \A e \in Admin : e # d => admin[e].at = "idle"  BY <1>1, OnlyOne
    <3> QED  BY <3>1, <3>2
  <2>3. \A x \in gone' : \E m \in records' \ gone' : m > x
    BY <1>1, <1>2 DEF DeletionInv, Newer
  <2> QED  BY <2>2, <2>3 DEF DeletionInv, Newer
<1> QED  BY <1>5, <1>6, <1>7, <1>8

-----------------------------------------------------------------------------
LEMMA InitQuiet == Init => Quiet
<1> SUFFICES ASSUME Init PROVE Quiet  OBVIOUS
<1>1. /\ manifests = <<>> /\ records = {} /\ gone = {} /\ DOMAIN manifests = {}
      /\ \A t \in Tracker : tracker[t].at = "idle"
      /\ \A d \in Admin : admin[d].at = "idle"
  <2>1. manifests = <<>> /\ records = {} /\ gone = {}  BY DEF Init
  <2>2. DOMAIN manifests = {}  BY <2>1
  <2>3. \A t \in Tracker : tracker[t].at = "idle"  BY DEF Init, NotTracking
  <2>4. \A d \in Admin : admin[d].at = "idle"  BY DEF Init, NotDeleting
  <2> QED  BY <2>1, <2>2, <2>3, <2>4
<1>2. \A r \in Run : ~Tracked(r)  BY <1>1 DEF Tracked, Handled
<1>3. TrackedInv  BY <1>2 DEF TrackedInv
<1>4. FreshInv  BY <1>1 DEF FreshInv
<1>5. PinsInv  BY <1>1 DEF PinsInv, Valid
<1>6. DeletionInv  BY <1>1 DEF DeletionInv
<1> QED  BY <1>3, <1>4, <1>5, <1>6 DEF Quiet

LEMMA QuietStep == 
  ASSUME TInv, ~disturbed => Quiet /\ PastInv, [Next]_vars, ~disturbed'
  PROVE  Quiet'
<1>1. ASSUME NEW r \in Run, Runs(r) PROVE Quiet'
  <2>1. RunEffect(r)  BY <1>1, RunEffects
  <2>2. Quiet  BY <2>1 DEF RunEffect
  <2> QED  BY <2>1, <2>2, RunQuiet
<1>2. ASSUME NEW t \in Tracker, Tracks(t) PROVE Quiet'
  <2>1. Quiet  BY <1>2, TrackEffects
  <2> QED  BY <1>2, <2>1, ListsQuiet, PinsQuiet, RecordsQuiet DEF Tracks
<1>3. ASSUME NEW d \in Admin, Deletes(d) PROVE Quiet'
  <2>1. Quiet /\ PastInv  BY <1>3, DeletionEffects
  <2> QED  BY <1>3, <2>1, AskQuiet, LoadsQuiet, ListsOthersQuiet, LoadsOtherQuiet, RemovalQuiet,
              UnpinQuiet, UnrecordQuiet, FailsQuiet DEF Deletes
<1>4. CASE UNCHANGED vars
  <2>1. UNCHANGED <<bucket, removed, exec, rank, tracker, manifests, records, gone, admin,
                    disturbed>>
    BY <1>4 DEF vars, s3, runs, history
  <2>2. Quiet  BY <2>1
  <2>3. TrackedInv' /\ FreshInv' /\ PinsInv'  BY <2>1, <2>2, ReadsQuiet
  <2>4. DeletionInv'
    <3>1. \A m : Pinned(m)' = Pinned(m)  BY <2>1, SameManifests
    <3> QED  BY <2>1, <2>2, <3>1 DEF Quiet, DeletionInv, Newer
  <2> QED  BY <2>3, <2>4 DEF Quiet
<1> QED  BY <1>1, <1>2, <1>3, <1>4 DEF Next

LEMMA PastStep ==
  ASSUME TInv, ~disturbed => Quiet /\ PastInv, [Next]_vars, ~disturbed'
  PROVE  PastInv'
<1>1. Quiet /\ PastInv
  <2>1. disturbed => disturbed'
    <3>1. ASSUME NEW r \in Run, Runs(r) PROVE disturbed' = disturbed
      BY <3>1, RunEffects DEF RunEffect
    <3>2. ASSUME NEW t \in Tracker, Tracks(t) PROVE disturbed => disturbed'
      BY <3>2, TrackEffects
    <3>3. ASSUME NEW d \in Admin, Deletes(d) PROVE disturbed => disturbed'
      BY <3>3, DeletionEffects
    <3>4. CASE UNCHANGED vars  BY <3>4 DEF vars, history
    <3> QED  BY <3>1, <3>2, <3>3, <3>4 DEF Next
  <2> QED  BY <2>1
<1>2. UNCHANGED versions /\ gone \subseteq gone' => PastInv'  BY <1>1 DEF PastInv
<1>3. ASSUME NEW r \in Run, Runs(r) PROVE PastInv'
  BY <1>2, <1>3, RunEffects DEF RunEffect
<1>4. ASSUME NEW t \in Tracker, Tracks(t) PROVE PastInv'
  <2>1. gone' = gone  BY <1>4, TrackEffects
  <2>2. CASE TrackerRecords(t)  BY <2>1, <2>2 DEF TrackerRecords, PastInv
  <2>3. TrackerPins(t) \/ TrackerFails(t)
      \/ (\E r \in Run : TrackerLists(t, r)) => UNCHANGED versions
    BY DEF TrackerPins, TrackerFails, TrackerLists
  <2> QED  BY <1>2, <1>4, <2>1, <2>2, <2>3 DEF Tracks
<1>5. ASSUME NEW d \in Admin, Deletes(d) PROVE PastInv'
  <2>1. CASE DeleteRecord(d)
    <3>1. admin[d].r \in gone  BY <1>1, <2>1 DEF DeleteRecord, Quiet, DeletionInv
    <3>2. before' = records /\ records' = records \ {admin[d].r} /\ gone' = gone
      BY <2>1 DEF DeleteRecord, history
    <3> QED  BY <3>1, <3>2 DEF PastInv
  <2>2. CASE DeleteVersions(d)  BY <1>2, <2>2 DEF DeleteVersions
  <2>3. \/ LoadManifest(d) \/ ListOthers(d) \/ DeleteManifest(d) \/ DeletionFails(d)
        \/ \E r \in Run : AskToDelete(d, r) \/ LoadOther(d, r)
        => UNCHANGED versions /\ gone' = gone
    BY DEF LoadManifest, ListOthers, DeleteManifest, DeletionFails, AskToDelete, LoadOther, history
  <2> QED  BY <1>2, <1>5, <2>1, <2>2, <2>3 DEF Deletes
<1>6. CASE UNCHANGED vars  BY <1>2, <1>6 DEF vars, history
<1> QED  BY <1>3, <1>4, <1>5, <1>6 DEF Next

(* The types hold, and Quiet as long as nothing has been disturbed.        *)
THEOREM Invariance == Spec => []IInv
<1>1. Init => IInv  BY InitTInv, InitQuiet DEF IInv, Init, PastInv
<1>2. IInv /\ [Next]_vars => IInv'
  <2> SUFFICES ASSUME IInv, [Next]_vars PROVE IInv'  OBVIOUS
  <2>1. TInv'  BY TInvStep DEF IInv
  <2>2. ~disturbed' => Quiet' /\ PastInv'  BY QuietStep, PastStep DEF IInv
  <2> QED  BY <2>1, <2>2 DEF IInv
<1> QED  BY <1>1, <1>2, PTL DEF Spec

(* The types of the state: a bucket of markers and versions of runs,       *)
(* manifests of contents, deletions of pairs of an output and a run.       *)
THEOREM TypeCorrect == Spec => []TypeOK
<1>1. IInv => TypeOK
  <2> SUFFICES ASSUME TInv PROVE TypeOK  BY DEF IInv
  <2>1. \A k \in Output : \A i \in DOMAIN bucket[k] : bucket[k][i] \in {Marker} \cup Run
    BY DEF TInv, BucketInv, Version
  <2>2. \A t \in Tracker : /\ tracker[t].at \in {"idle", "listed", "pinned"}
                           /\ tracker[t].r \in {0} \cup Run /\ tracker[t].files \in Contents
    BY DEF TInv, TrackInv, Tracking
  <2> QED  BY <2>1, <2>2 DEF TypeOK, TInv, BucketInv, ExecInv, RecordInv, AdminInv, Deleting
<1> QED  BY <1>1, Invariance, PTL

(* docs/document-versions.md, "deleting one version never corrupts         *)
(* another": what a recorded run pins is there until its own deletion, for *)
(* runs that are pinned before the next begins, one deletion at a time and *)
(* a guard that sees the newest record when it is asked to delete it.      *)
THEOREM SparesOthers == Spec => []DeletionSparesOtherVersions
<1>1. IInv => DeletionSparesOtherVersions
  BY DEF IInv, Quiet, PinsInv, DeletionSparesOtherVersions
<1> QED  BY <1>1, Invariance, PTL

(* Under the same conditions a deletion leaves every output of the         *)
(* document as it is read: it neither takes it away nor uncovers an older  *)
(* version.                                                                *)
THEOREM SparesTheDocument == Spec => DeletionSparesTheDocument
<1> DEFINE Spares ==
      (\E d \in Admin : admin[d].at = "counting" /\ admin'[d].at = "clearing") /\ ~disturbed
        => \A k \in Output : Current(k)' = Current(k)
<1>1. IInv /\ [Next]_vars => [Spares]_vars
  <2> SUFFICES ASSUME IInv, Next, NEW d \in Admin, admin[d].at = "counting",
                      admin'[d].at = "clearing", ~disturbed
               PROVE  \A k \in Output : Current(k)' = Current(k)
    OBVIOUS
  <2>1. TInv /\ Quiet  BY DEF IInv
  <2>2. ASSUME NEW r \in Run, Runs(r) PROVE FALSE
    BY <2>1, <2>2, RunEffects DEF RunEffect
  <2>3. ASSUME NEW t \in Tracker, Tracks(t) PROVE FALSE
    BY <2>1, <2>3, TrackEffects
  <2>4. ASSUME NEW e \in Admin, Deletes(e) PROVE DeleteVersions(d)
    <3>1. ASSUME NEW at, NEW r, NEW pins, NEW todo, Move(e, at, r, pins, todo)
          PROVE  e = d /\ at = "clearing"
      <4>1. /\ admin'[e] = [at |-> at, r |-> r, pins |-> pins, todo |-> todo]
            /\ \A x \in Admin : x # e => admin'[x] = admin[x]
        BY <2>1, <3>1, MoveForm
      <4>2. e = d  BY <4>1
      <4>3. admin'[d].at = at  BY <4>1, <4>2
      <4> QED  BY <4>2, <4>3
    <3>2. ~LoadManifest(d)  BY DEF LoadManifest
    <3>3. ASSUME NEW r \in Run, AskToDelete(e, r) PROVE FALSE
      <4>1. Move(e, "allowed", r, {}, {})  BY <2>1, <3>3, DeletionMoves
      <4> QED  BY <3>1, <4>1
    <3>4. CASE LoadManifest(e)
      <4>1. PICK at : Move(e, at, admin[e].r, Pinned(admin[e].r), admin[e].todo)
        BY <2>1, <3>4, DeletionMoves
      <4>2. e = d  BY <3>1, <4>1
      <4> QED  BY <3>2, <3>4, <4>2
    <3>5. CASE ListOthers(e)
      <4>1. Move(e, "counting", admin[e].r, admin[e].pins, DOMAIN manifests \ {admin[e].r})
        BY <2>1, <3>5, DeletionMoves
      <4> QED  BY <3>1, <4>1
    <3>6. ASSUME NEW o \in Run, LoadOther(e, o) PROVE FALSE
      <4>1. Move(e, "counting", admin[e].r, admin[e].pins \ Pinned(o), admin[e].todo \ {o})
        BY <2>1, <3>6, DeletionMoves
      <4> QED  BY <3>1, <4>1
    <3>7. CASE DeleteVersions(e)
      <4>1. Move(e, "clearing", admin[e].r, admin[e].pins, admin[e].todo)
        BY <2>1, <3>7, DeletionMoves
      <4>2. e = d  BY <3>1, <4>1
      <4> QED  BY <3>7, <4>2
    <3>8. CASE DeleteManifest(e)
      <4>1. Move(e, "cleared", admin[e].r, admin[e].pins, admin[e].todo)
        BY <2>1, <3>8, DeletionMoves
      <4> QED  BY <3>1, <4>1
    <3>9. CASE DeleteRecord(e) \/ DeletionFails(e)
      <4>1. Move(e, "idle", 0, {}, {})  BY <2>1, <3>9, DeletionMoves
      <4> QED  BY <3>1, <4>1
    <3> QED  BY <2>4, <3>3, <3>4, <3>5, <3>6, <3>7, <3>8, <3>9 DEF Deletes
  <2>5. PICK e \in Admin : Deletes(e)  BY <2>2, <2>3 DEF Next
  <2>6. DeleteVersions(d)  BY <2>4, <2>5
  <2> QED  BY <2>1, <2>6, SparesCurrent
<1> QED  BY <1>1, Invariance, PTL DEF Spec, DeletionSparesTheDocument
=============================================================================
