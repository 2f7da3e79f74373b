------------------------------ MODULE HumanReview ------------------------------
(***************************************************************************)
(* What the review queues promise about the reviews of one document.  They *)
(* come one after the other.  A review that was disposed of is finalized   *)
(* in attempts: an execution each, that applies the review's corrections   *)
(* if it finds the review still waiting for it.  Attempts are made in      *)
(* order, the next one only when all before it have failed; the review is  *)
(* finished when one has applied its corrections, and given up when none   *)
(* could; an attempt whose look at the review failed finishes it too, its  *)
(* corrections missed.  ReviewItem implements this with an item that five  *)
(* writers share and with messages and events that are lost or come twice. *)
(***************************************************************************)
EXTENDS Integers

CONSTANTS MaxCycles, MaxAttempts

VARIABLES
  begun,    \* reviews begun so far
  stage,    \* what has become of the last one
  attempt   \* what has become of the attempts, of all of them
vars == <<begun, stage, attempt>>

Attempt == (1..MaxCycles) \X (1..MaxAttempts)

Init ==
  /\ begun = 0
  /\ stage = "none"
  /\ attempt = [a \in Attempt |-> "none"]

-----------------------------------------------------------------------------
(* A run of the document holds it; whatever review was there is over.      *)
Begin ==
  /\ begun < MaxCycles
  /\ begun' = begun + 1
  /\ stage' = "held"
  /\ UNCHANGED attempt

Moves(from, to) ==
  /\ stage \in from
  /\ stage' = to
  /\ UNCHANGED <<begun, attempt>>

Open == Moves({"held"}, "open")
Dispose == Moves({"open"}, "disposed")
Drop == Moves({"held", "open"}, "dropped")
Withdraw == Moves({"disposed"}, "withdrawn")

Finish ==
  /\ Moves({"disposed"}, "finished")
  /\ \E n \in 1..MaxAttempts : attempt[<<begun, n>>] \in {"applied", "missed"}

GiveUp ==
  /\ Moves({"disposed"}, "given up")
  /\ \A n \in 1..MaxAttempts : attempt[<<begun, n>>] = "failed"

-----------------------------------------------------------------------------
Goes(a, to) == attempt' = [attempt EXCEPT ![a] = to]

(* The message of an attempt may outlive its review.                       *)
Start(a) ==
  /\ attempt[a] = "none"
  /\ a[1] < begun \/ (a[1] = begun /\ stage \in {"disposed", "withdrawn"})
  /\ \A n \in 1..MaxAttempts : n < a[2] => attempt[<<a[1], n>>] = "failed"
  /\ Goes(a, "started")

Waits(a) == a[1] = begun /\ stage = "disposed"

(* The review is found waiting, or it waits and cannot be read.            *)
Recognise(a) == attempt[a] = "started" /\ Waits(a) /\ Goes(a, "applying")
Overlook(a) == attempt[a] = "started" /\ Waits(a) /\ Goes(a, "overlooking")

Routed == {"applying", "overlooking"}

(* It is stopped, or runs to its end when no review waited for it.         *)
Spend(a) == attempt[a] \in {"started"} \cup Routed /\ Goes(a, "spent")

(* It is done, or the step that looked for the review is run again.        *)
Apply(a) == attempt[a] = "applying" /\ Goes(a, "applied")
Miss(a) == attempt[a] = "overlooking" /\ Goes(a, "missed")
Repeat(a) == attempt[a] \in Routed /\ Goes(a, "started")

Fail(a) == attempt[a] \in {"started"} \cup Routed /\ Goes(a, "failed")

Attempts(a) ==
  \/ Start(a) \/ Recognise(a) \/ Overlook(a) \/ Repeat(a)
  \/ Apply(a) \/ Miss(a) \/ Fail(a) \/ Spend(a)

Next ==
  \/ Begin \/ Open \/ Dispose \/ Drop \/ Withdraw \/ Finish \/ GiveUp
  \/ /\ UNCHANGED <<begun, stage>>
     /\ attempt' # attempt
     /\ \E a \in Attempt : Attempts(a)

Spec == Init /\ [][Next]_vars
=============================================================================
