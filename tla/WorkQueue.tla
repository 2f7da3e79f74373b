------------------------------ MODULE WorkQueue ------------------------------
(***************************************************************************)
(* What DocumentQueue and its consumers promise about each document: it is *)
(* started at most once, and it leaves the queue without having been       *)
(* started only if a user aborted it.  Admission implements this with many *)
(* invocations, one shared counter and an at-least-once queue.             *)
(***************************************************************************)
CONSTANT Message
VARIABLES
  work,     \* what has become of each document
  aborted   \* the documents that were aborted before they were started

TypeOK ==
  /\ work \in [Message -> {"waiting", "running", "ended", "dropped"}]
  /\ aborted \subseteq Message

Init ==
  /\ work = [m \in Message |-> "waiting"]
  /\ aborted = {}

Moves(m, from, to) ==
  /\ work[m] \in from
  /\ work' = [work EXCEPT ![m] = to]
  /\ UNCHANGED aborted

Abort(m) ==
  /\ work[m] = "waiting"
  /\ aborted' = aborted \cup {m}
  /\ UNCHANGED work

(* An abort may come too late to prevent the start, and so may the drop of *)
(* a second delivery of the same message.                                  *)
Start(m) == Moves(m, {"waiting", "dropped"}, "running")

End(m) == Moves(m, {"running"}, "ended")

Drop(m) == m \in aborted /\ Moves(m, {"waiting"}, "dropped")

Next == \E m \in Message : Abort(m) \/ Start(m) \/ End(m) \/ Drop(m)

Spec == Init /\ [][Next]_<<work, aborted>>
=============================================================================
