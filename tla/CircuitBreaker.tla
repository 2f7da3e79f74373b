--------------------------- MODULE CircuitBreaker ---------------------------
(***************************************************************************)
(* The circuit breaker: one item of ConcurrencyTable that the manager      *)
(* (alarm events, the scheduled health check, operator actions) and the    *)
(* workflow tracker move between CLOSED, OPEN and HALF_OPEN, and from which *)
(* the queue processor's invocations claim the probes of HALF_OPEN.  A     *)
(* writer reads the item, decides, and writes on the condition that the    *)
(* state (and only the state) is the one it read.  The reads are eventually *)
(* consistent, which adds nothing to the model: a stale read is one made   *)
(* earlier, and any time may pass here between a read and its write.       *)
(*                                                                         *)
(* Times are ages in ticks, WindowTicks of which make one probe window.    *)
(* A window is named by how many windows ago it was, on the clock that is  *)
(* furthest ahead.  failure_count, recovery_attempts and last_error, which *)
(* no decision reads, are left out, and so is the announcing of changes.   *)
(***************************************************************************)
EXTENDS Integers, FiniteSets

CONSTANTS
  Invocation,       \* the queue processor's invocations
  Manager,          \* the manager's invocations for alarms and operators
  Scheduler,        \* the manager's scheduled health check
  Tracker,          \* the workflow tracker's invocations
  None,             \* an absent attribute, or no intended write
  Budget,           \* HALF_OPEN_PROBE_BUDGET
  WindowTicks,      \* HALF_OPEN_PROBE_WINDOW_SECONDS, in ticks
  RecoveryTimeout,  \* RECOVERY_TIMEOUT_SECONDS, in ticks
  HalfOpenFloor,    \* the 900 seconds HALF_OPEN lasts at least, in ticks
  MaxLag,           \* windows by which a clock may be behind
  MaxFaults         \* bound: failed reads and writes

ASSUME BreakerAssumption ==
  /\ IsFiniteSet(Invocation)
  /\ Scheduler \notin Manager
  /\ Tracker \cap (Manager \cup {Scheduler}) = {}
  /\ Budget \in Nat \ {0}
  /\ WindowTicks \in Nat \ {0}
  /\ RecoveryTimeout \in Nat
  /\ HalfOpenFloor \in Nat
  /\ MaxLag \in Nat
  /\ MaxFaults \in Nat
  /\ None \notin Int

VARIABLES
  item,      \* the breaker item
  phase,     \* ticks into the current probe window
  plan,      \* the write a manager or tracker invocation is about to make
  pc,        \* where each invocation's probe claim is
  lag,       \* how many windows ago the window it computed is
  faults,    \* faults so far
  granted,   \* history: probes granted in each window
  episode    \* history: for how long the breaker has been half open

claimVars == <<pc, lag>>
ghostVars == <<granted, episode>>
vars == <<item, phase, plan, claimVars, faults, ghostVars>>

Larger(a, b) == IF a >= b THEN a ELSE b

HalfOpenTimeout == Larger(HalfOpenFloor, RecoveryTimeout)

(* Ages are not told apart beyond what the timeouts and a claim compare.   *)
MaxAge == HalfOpenTimeout + 1
OldWindow == MaxLag + 2

State == {"CLOSED", "OPEN", "HALF_OPEN"}
Item == [state : State,
         openedAge : 0..MaxAge \cup {None},
         halfOpenAge : 0..MaxAge \cup {None},
         probes : 0..Budget,
         window : 0..OldWindow \cup {None}]
Process == Manager \cup {Scheduler} \cup Tracker
Plan == [to : State, expected : State]

TypeOK ==
  /\ item \in Item
  /\ phase \in 0..WindowTicks - 1
  /\ plan \in [Process -> Plan \cup {None}]
  /\ pc \in [Invocation -> {"idle", "take", "open", "retake"}]
  /\ lag \in [Invocation -> 0..MaxLag + 1]
  /\ faults \in 0..MaxFaults
  /\ granted \in [0..MaxLag + 1 -> Nat]
  /\ episode \in 0..MaxAge

Closed == [state |-> "CLOSED", openedAge |-> None, halfOpenAge |-> None,
           probes |-> 0, window |-> None]

(* No item yet, or one that was half open before half_open_at was recorded.*)
Init ==
  /\ item \in {Closed,
               [Closed EXCEPT !.state = "HALF_OPEN", !.openedAge = 0]}
  /\ phase = 0
  /\ plan = [p \in Process |-> None]
  /\ pc = [i \in Invocation |-> "idle"]
  /\ lag = [i \in Invocation |-> 0]
  /\ faults = 0
  /\ granted = [w \in 0..MaxLag + 1 |-> 0]
  /\ episode = 0

-----------------------------------------------------------------------------
(* update_circuit_breaker_state: which timestamps a transition sets and    *)
(* removes.                                                                *)
Unstamped(s) ==                  \* mutant: left to each caller to remember
  [item EXCEPT !.state = s,
               !.openedAge = IF s = "OPEN" THEN 0
                             ELSE IF s = "CLOSED" THEN None ELSE @]

StampedOnce(s) ==                \* mutant: if_not_exists(half_open_at), kept
  [item EXCEPT !.state = s,
               !.openedAge = IF s = "OPEN" THEN 0
                             ELSE IF s = "CLOSED" THEN None ELSE @,
               !.halfOpenAge = IF s = "HALF_OPEN" /\ @ = None THEN 0 ELSE @]

Entering(s) ==
  [item EXCEPT !.state = s,
               !.openedAge = IF s = "OPEN" THEN 0
                             ELSE IF s = "CLOSED" THEN None ELSE @,
               !.halfOpenAge = IF s = "HALF_OPEN" THEN 0 ELSE None]

Write(new) ==
  /\ item' = new
  /\ episode' = IF new.state = item.state THEN episode ELSE 0

Fault ==
  /\ faults < MaxFaults
  /\ faults' = faults + 1

(* The write that p will make, decided from what it has read.              *)
Intend(p, to, expected) ==
  /\ plan[p] = None
  /\ plan' = [plan EXCEPT ![p] = [to |-> to, expected |-> expected]]
  /\ UNCHANGED <<item, phase, claimVars, faults, ghostVars>>

-----------------------------------------------------------------------------
(* The manager's decisions.  A read that calls for nothing is no step.     *)

(* Alarm notifications arrive at least once and in any order; manual_open  *)
(* decides as ALARM does and manual_probe as OK does.                      *)
AlarmOrPause(m) == item.state # "OPEN" /\ Intend(m, "OPEN", item.state)

OkOrProbe(m) == item.state = "OPEN" /\ Intend(m, "HALF_OPEN", "OPEN")

Elapsed(age, timeout) == age # None /\ age >= timeout

(* handle_health_check and handle_half_open_timeout.                       *)
ProbeAfterOutage ==
  /\ item.state = "OPEN"
  /\ Elapsed(item.openedAge, RecoveryTimeout)
  /\ Intend(Scheduler, "HALF_OPEN", "OPEN")

StampEpisode ==
  /\ item.state = "HALF_OPEN"
  /\ item.halfOpenAge = None
  /\ Intend(Scheduler, "HALF_OPEN", "HALF_OPEN")

Reopen ==
  /\ item.state = "HALF_OPEN"
  /\ Elapsed(item.halfOpenAge, HalfOpenTimeout)
  /\ Intend(Scheduler, "OPEN", "HALF_OPEN")

HealthCheck == ProbeAfterOutage \/ StampEpisode \/ Reopen

(* notify_circuit_breaker_success, for every workflow that succeeds.       *)
NotifySuccess(t) == item.state = "HALF_OPEN" /\ Intend(t, "CLOSED", "HALF_OPEN")

(* The conditional write, on the state alone.                              *)
WriteAlways(p) == TRUE                  \* mutant: an unconditional write
StillExpected(p) == item.state = plan[p].expected

(* The tracker leaves half_open_at behind.                                 *)
Result(p) ==
  IF p \in Tracker
    THEN [item EXCEPT !.state = "CLOSED", !.openedAge = None]
    ELSE Entering(plan[p].to)

Conclude(p) ==
  /\ plan[p] # None
  /\ plan' = [plan EXCEPT ![p] = None]
  /\ IF StillExpected(p)
       THEN Write(Result(p))
       ELSE UNCHANGED <<item, episode>>
  /\ UNCHANGED <<phase, claimVars, faults, granted>>

ConcludeFails(p) ==
  /\ plan[p] # None
  /\ Fault
  /\ plan' = [plan EXCEPT ![p] = None]
  /\ UNCHANGED <<item, phase, claimVars, ghostVars>>

(* reset and manual_close override whatever the state is.                  *)
Override ==
  /\ item.state # "CLOSED"
  /\ Write(Entering("CLOSED"))
  /\ UNCHANGED <<phase, plan, claimVars, faults, granted>>

-----------------------------------------------------------------------------
(* check_circuit_breaker.  CLOSED admits and OPEN refuses without a trace  *)
(* on the item; a claim in HALF_OPEN computes its window and makes up to   *)
(* three conditional writes.                                               *)
BeginClaim(i) ==
  /\ pc[i] = "idle"
  /\ item.state = "HALF_OPEN"
  /\ pc' = [pc EXCEPT ![i] = "take"]
  /\ \E behind \in 0..MaxLag : lag' = [lag EXCEPT ![i] = behind]
  /\ UNCHANGED <<item, phase, plan, faults, ghostVars>>

ClaimLeaves(i) ==
  /\ pc' = [pc EXCEPT ![i] = "idle"]
  /\ lag' = [lag EXCEPT ![i] = 0]

Granted(i) ==
  /\ granted' = [granted EXCEPT ![lag[i]] = @ + 1]
  /\ ClaimLeaves(i)

UnlimitedSlots(i) == item.window = lag[i]   \* mutant: the budget is not checked
SlotFree(i) == item.window = lag[i] /\ item.probes < Budget

TakeSlot(i) ==
  /\ pc[i] \in {"take", "retake"}
  /\ item.state = "HALF_OPEN"
  /\ SlotFree(i)
  /\ Write([item EXCEPT !.probes = @ + 1])
  /\ Granted(i)
  /\ UNCHANGED <<phase, plan, faults>>

NoSlot(i) ==
  /\ pc[i] \in {"take", "retake"}
  /\ ~(item.state = "HALF_OPEN" /\ SlotFree(i))
  /\ IF pc[i] = "take"
       THEN pc' = [pc EXCEPT ![i] = "open"] /\ UNCHANGED lag
       ELSE ClaimLeaves(i)
  /\ UNCHANGED <<item, phase, plan, faults, ghostVars>>

(* The condition is "older than mine": larger is longer ago.               *)
AnyWindow(i) == TRUE                        \* mutant: the guard is dropped
WindowIsOlder(i) == item.window # None => item.window > lag[i]

OpenWindow(i) ==
  /\ pc[i] = "open"
  /\ item.state = "HALF_OPEN"
  /\ WindowIsOlder(i)
  /\ Write([item EXCEPT !.probes = 1, !.window = lag[i]])
  /\ Granted(i)
  /\ UNCHANGED <<phase, plan, faults>>

WindowTaken(i) ==
  /\ pc[i] = "open"
  /\ ~(item.state = "HALF_OPEN" /\ WindowIsOlder(i))
  /\ pc' = [pc EXCEPT ![i] = "retake"]
  /\ UNCHANGED <<item, phase, plan, lag, faults, ghostVars>>

(* A write raises or the invocation dies.  What check_circuit_breaker then *)
(* decides (a terminal error admits, a transient one refuses) takes no slot.*)
ClaimFails(i) ==
  /\ pc[i] # "idle"
  /\ Fault
  /\ ClaimLeaves(i)
  /\ UNCHANGED <<item, phase, plan, ghostVars>>

-----------------------------------------------------------------------------
Capped(a, max) == IF a >= max THEN max ELSE a
Aged(a) == IF a = None THEN None ELSE Capped(a + 1, MaxAge)
WindowAged(w) == IF w = None THEN None ELSE Capped(w + 1, OldWindow)

Older(it, newWindow) ==
  [it EXCEPT !.openedAge = Aged(@), !.halfOpenAge = Aged(@),
             !.window = IF newWindow THEN WindowAged(@) ELSE @]

(* An invocation lives for one window at most, so that its claim crosses   *)
(* no more than one boundary.                                              *)
Tick ==
  LET newWindow == phase = WindowTicks - 1
  IN  /\ newWindow => \A i \in Invocation : lag[i] <= MaxLag
      /\ phase' = IF newWindow THEN 0 ELSE phase + 1
      /\ item' = Older(item, newWindow)
      /\ lag' = IF newWindow
                  THEN [i \in Invocation |-> IF pc[i] = "idle" THEN 0 ELSE lag[i] + 1]
                  ELSE lag
      /\ granted' = IF newWindow
                      THEN [w \in 0..MaxLag + 1 |-> IF w = 0 THEN 0 ELSE granted[w - 1]]
                      ELSE granted
      /\ episode' = IF item.state = "HALF_OPEN" THEN Capped(episode + 1, MaxAge) ELSE 0
      /\ UNCHANGED <<plan, pc, faults>>

Claim(i) == TakeSlot(i) \/ NoSlot(i) \/ OpenWindow(i) \/ WindowTaken(i)

Next ==
  \/ \E m \in Manager : AlarmOrPause(m) \/ OkOrProbe(m)
  \/ HealthCheck
  \/ \E t \in Tracker : NotifySuccess(t)
  \/ \E p \in Process : Conclude(p) \/ ConcludeFails(p)
  \/ Override
  \/ \E i \in Invocation : BeginClaim(i) \/ Claim(i) \/ ClaimFails(i)
  \/ Tick

Spec == Init /\ [][Next]_vars

(* The health check is scheduled for ever, started invocations run on      *)
(* and time passes.  Nothing is assumed of alarms, operators and workflows.*)
Fairness ==
  /\ WF_vars(HealthCheck)
  /\ \A p \in Process : WF_vars(Conclude(p))
  /\ \A i \in Invocation : WF_vars(Claim(i))
  /\ WF_vars(Tick)

FairSpec == Spec /\ Fairness

-----------------------------------------------------------------------------
(* Concurrent claims, lagging clocks and a breaker that leaves HALF_OPEN   *)
(* and comes back never hand out more than the budget in one window.       *)
BudgetPerWindow == \A w \in DOMAIN granted : granted[w] <= Budget

(* A half-open episode is never timed from before it began, whichever of   *)
(* the writers started it and whatever the last one left behind.           *)
EpisodeIsNotOvertimed ==
  item.state = "HALF_OPEN" /\ item.halfOpenAge # None => item.halfOpenAge <= episode

(* A success that was read as a probe's never closes a breaker that has    *)
(* opened since: only an operator moves OPEN to CLOSED.                    *)
OutageIsNotClobbered ==
  [][item.state = "OPEN" /\ item'.state = "CLOSED" => Override]_vars

(* An outage is never final: an open breaker comes to probe, and a probing *)
(* one settles or opens again.                                             *)
NoStateIsFinal ==
  \A s \in {"OPEN", "HALF_OPEN"} : []<>(item.state # s)
=============================================================================
