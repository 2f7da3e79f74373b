------------------------ MODULE CircuitBreakerProofs ------------------------
(***************************************************************************)
(* What holds of the circuit breaker for any invocations, budget, window   *)
(* length, timeouts and lag of the clocks.                                 *)
(*                                                                         *)
(* That a window never hands out more than its budget is not inductive:    *)
(* a claim that opens a window must find it unused.  WindowBooks adds that *)
(* no window newer than the recorded one has been used, and that the       *)
(* recorded count is no less than what its window has granted.             *)
(***************************************************************************)
EXTENDS CircuitBreaker, TLAPS

Windows == 0..MaxLag + 1

(* The record is ahead of every grant: newer windows are unused, the       *)
(* recorded one has granted no more than its count.                        *)
WindowBooks ==
  \A w \in Windows :
    /\ granted[w] <= Budget
    /\ item.window = None => granted[w] = 0
    /\ item.window # None /\ w < item.window => granted[w] = 0
    /\ item.window = w => granted[w] <= item.probes

(* Only a tracker intends to close, and only a breaker that was half open. *)
PlansAreModest ==
  \A p \in Process : plan[p] # None =>
    /\ p \in Tracker => plan[p].expected = "HALF_OPEN"
    /\ p \notin Tracker => plan[p].to # "CLOSED"

IInv == TypeOK /\ WindowBooks /\ PlansAreModest /\ EpisodeIsNotOvertimed

(* The bounds of the ages and windows are numbers.                         *)
LEMMA Bounds ==
  /\ HalfOpenTimeout \in Nat
  /\ MaxAge \in Nat /\ MaxAge > 0
  /\ OldWindow \in Nat /\ OldWindow = MaxLag + 2
  /\ MaxLag \in Nat /\ MaxFaults \in Nat
  /\ WindowTicks \in Nat /\ WindowTicks > 0
  /\ Budget \in Nat /\ Budget > 0
  /\ None \notin Int
BY BreakerAssumption DEF BreakerAssumption, HalfOpenTimeout, Larger, MaxAge, OldWindow

(* A cap bounds what it is given and keeps the order.                      *)
LEMMA CappedBounds ==
  ASSUME NEW max \in Nat, NEW a \in Nat
  PROVE  Capped(a, max) \in 0..max
BY DEF Capped

LEMMA CappedIsMonotone ==
  ASSUME NEW max \in Nat, NEW a \in Nat, NEW b \in Nat, a <= b
  PROVE  Capped(a + 1, max) <= Capped(b + 1, max)
BY DEF Capped

-----------------------------------------------------------------------------
(* Every transition yields a well-formed item and leaves its probe window  *)
(* alone.                                                                  *)
LEMMA EnteringTyped ==
  ASSUME TypeOK, NEW s \in State
  PROVE  /\ Entering(s) \in Item
         /\ Entering(s).state = s
         /\ Entering(s).window = item.window
         /\ Entering(s).probes = item.probes
         /\ s = "HALF_OPEN" => Entering(s).halfOpenAge = 0
<1>1. 0 \in 0..MaxAge  BY Bounds
<1>2. item \in Item  BY DEF TypeOK
<1>3. DEFINE opened == IF s = "OPEN" THEN 0
                       ELSE IF s = "CLOSED" THEN None ELSE item.openedAge
             half == IF s = "HALF_OPEN" THEN 0 ELSE None
<1>4. opened \in 0..MaxAge \cup {None} /\ half \in 0..MaxAge \cup {None}
  BY <1>1, <1>2 DEF Item
<1>5. Entering(s) = [item EXCEPT !.state = s, !.openedAge = opened, !.halfOpenAge = half]
  BY <1>2 DEF Entering, Item
<1> HIDE DEF opened, half
<1>6. /\ Entering(s) \in Item
      /\ Entering(s).state = s
      /\ Entering(s).window = item.window
      /\ Entering(s).probes = item.probes
      /\ Entering(s).halfOpenAge = half
  BY <1>2, <1>4, <1>5 DEF Item
<1> QED  BY <1>6 DEF half

LEMMA ResultTyped ==
  ASSUME TypeOK, NEW p \in Process, plan[p] # None
  PROVE  /\ Result(p) \in Item
         /\ Result(p).window = item.window
         /\ Result(p).probes = item.probes
         /\ Result(p).state = "HALF_OPEN" => Result(p).halfOpenAge = 0
         /\ p \in Tracker => Result(p).state = "CLOSED"
         /\ p \notin Tracker => Result(p).state = plan[p].to
<1>1. CASE p \in Tracker
  <2>1. Result(p) = [item EXCEPT !.state = "CLOSED", !.openedAge = None]
    BY <1>1 DEF Result
  <2> QED  BY <1>1, <2>1 DEF TypeOK, Item, State
<1>2. CASE p \notin Tracker
  <2>1. plan[p].to \in State  BY DEF TypeOK, Plan
  <2>2. Result(p) = Entering(plan[p].to)  BY <1>2 DEF Result
  <2> QED  BY <1>2, <2>1, <2>2, EnteringTyped
<1> QED  BY <1>1, <1>2

LEMMA AgedTyped ==
  ASSUME NEW a \in 0..MaxAge \cup {None}
  PROVE  Aged(a) \in 0..MaxAge \cup {None}
<1>1. CASE a = None  BY <1>1 DEF Aged
<1>2. CASE a # None
  <2>1. a \in Nat /\ a + 1 \in Nat  BY <1>2, Bounds
  <2> QED  BY <1>2, <2>1, Bounds, CappedBounds DEF Aged
<1> QED  BY <1>1, <1>2

LEMMA WindowAgedTyped ==
  ASSUME NEW w \in 0..OldWindow \cup {None}
  PROVE  WindowAged(w) \in 0..OldWindow \cup {None}
<1>1. CASE w = None  BY <1>1 DEF WindowAged
<1>2. CASE w # None
  <2>1. w \in Nat /\ w + 1 \in Nat  BY <1>2, Bounds
  <2> QED  BY <1>2, <2>1, Bounds, CappedBounds DEF WindowAged
<1> QED  BY <1>1, <1>2

LEMMA OlderTyped ==
  ASSUME TypeOK, NEW b \in BOOLEAN
  PROVE  /\ Older(item, b) \in Item
         /\ Older(item, b).state = item.state
         /\ Older(item, b).probes = item.probes
         /\ Older(item, b).halfOpenAge = Aged(item.halfOpenAge)
         /\ Older(item, b).window =
              IF b THEN WindowAged(item.window) ELSE item.window
BY AgedTyped, WindowAgedTyped DEF TypeOK, Item, Older

-----------------------------------------------------------------------------
LEMMA InitIInv == Init => IInv
<1> SUFFICES ASSUME Init PROVE IInv  OBVIOUS
<1>0. 0 \in 0..MaxAge /\ 0 \in 0..Budget /\ 0 \in 0..MaxFaults /\ 0 \in 0..MaxLag + 1
      /\ 0 \in 0..WindowTicks - 1 /\ 0 \in Nat
  BY Bounds
<1>c. Closed \in Item
  BY <1>0 DEF Closed, Item, State
<1>1. item \in Item /\ item.window = None /\ item.halfOpenAge = None
  <2>1. CASE item = Closed  BY <1>c, <2>1 DEF Closed
  <2>2. CASE item = [Closed EXCEPT !.state = "HALF_OPEN", !.openedAge = 0]
    BY <1>0, <2>2 DEF Closed, Item, State
  <2> QED  BY <2>1, <2>2 DEF Init
<1>2. TypeOK
  BY <1>0, <1>1 DEF Init, TypeOK
<1>3. WindowBooks /\ PlansAreModest
  <2>1. \A w \in Windows : granted[w] = 0 /\ w \in Int
    BY Bounds DEF Init, Windows
  <2>2. WindowBooks  BY <1>1, <2>1, Bounds DEF WindowBooks
  <2>3. PlansAreModest  BY DEF Init, PlansAreModest
  <2> QED  BY <2>2, <2>3
<1>4. EpisodeIsNotOvertimed
  BY <1>1 DEF EpisodeIsNotOvertimed
<1> QED  BY <1>2, <1>3, <1>4 DEF IInv

(* Deciding on a write changes nothing but the plan.                       *)
LEMMA IntendTyped ==
  ASSUME TypeOK, NEW p \in Process, NEW to \in State, NEW expected \in State,
         Intend(p, to, expected)
  PROVE  TypeOK'
BY DEF Intend, TypeOK, Plan, claimVars, ghostVars

LEMMA WriteTyped ==
  ASSUME TypeOK, NEW new \in Item, Write(new)
  PROVE  item' \in Item /\ episode' \in 0..MaxAge
BY Bounds DEF TypeOK, Write

LEMMA TypeStep == TypeOK /\ [Next]_vars => TypeOK'
<1> SUFFICES ASSUME TypeOK, [Next]_vars PROVE TypeOK'  OBVIOUS
<1> USE DEF claimVars, ghostVars
<1>s. "OPEN" \in State /\ "CLOSED" \in State /\ "HALF_OPEN" \in State /\ item.state \in State
  BY DEF State, TypeOK, Item
<1>1. ASSUME NEW m \in Manager, AlarmOrPause(m) \/ OkOrProbe(m) PROVE TypeOK'
  BY <1>1, <1>s, IntendTyped DEF AlarmOrPause, OkOrProbe, Process
<1>2. ASSUME HealthCheck PROVE TypeOK'
  BY <1>2, <1>s, IntendTyped DEF HealthCheck, ProbeAfterOutage, StampEpisode, Reopen, Process
<1>3. ASSUME NEW t \in Tracker, NotifySuccess(t) PROVE TypeOK'
  BY <1>3, <1>s, IntendTyped DEF NotifySuccess, Process
<1>4. ASSUME NEW p \in Process, Conclude(p) PROVE TypeOK'
  <2>1. CASE StillExpected(p)
    <3>1. item' \in Item /\ episode' \in 0..MaxAge
      BY <1>4, <2>1, ResultTyped, WriteTyped DEF Conclude
    <3> QED  BY <1>4, <3>1 DEF Conclude, TypeOK
  <2>2. CASE ~StillExpected(p)
    BY <1>4, <2>2 DEF Conclude, TypeOK
  <2> QED  BY <2>1, <2>2
<1>5. ASSUME NEW p \in Process, ConcludeFails(p) PROVE TypeOK'
  BY <1>5, Bounds DEF ConcludeFails, Fault, TypeOK
<1>6. ASSUME Override PROVE TypeOK'
  <2>1. item' \in Item /\ episode' \in 0..MaxAge
    BY <1>6, <1>s, EnteringTyped, WriteTyped DEF Override
  <2> QED  BY <1>6, <2>1 DEF Override, TypeOK
<1>7. ASSUME NEW i \in Invocation, BeginClaim(i) PROVE TypeOK'
  <2>1. \A behind \in 0..MaxLag : behind \in 0..MaxLag + 1  BY Bounds
  <2> QED  BY <1>7, <2>1 DEF BeginClaim, TypeOK
<1>8. ASSUME NEW i \in Invocation, TakeSlot(i) PROVE TypeOK'
  <2>1. [item EXCEPT !.probes = @ + 1] \in Item
    <3>1. item \in Item  BY DEF TypeOK
    <3>2. item.probes + 1 \in 0..Budget
      BY <1>8, <3>1, Bounds DEF TakeSlot, SlotFree, Item
    <3> QED  BY <3>1, <3>2 DEF Item
  <2>2. item' \in Item /\ episode' \in 0..MaxAge
    BY <1>8, <2>1, WriteTyped DEF TakeSlot
  <2>3. 0 \in 0..MaxLag + 1  BY Bounds
  <2> QED  BY <1>8, <2>2, <2>3 DEF TakeSlot, Granted, ClaimLeaves, TypeOK
<1>9. ASSUME NEW i \in Invocation, NoSlot(i) PROVE TypeOK'
  <2>1. 0 \in 0..MaxLag + 1  BY Bounds
  <2> QED  BY <1>9, <2>1 DEF NoSlot, ClaimLeaves, TypeOK
<1>10. ASSUME NEW i \in Invocation, OpenWindow(i) PROVE TypeOK'
  <2>1. [item EXCEPT !.probes = 1, !.window = lag[i]] \in Item
    <3>1. item \in Item  BY DEF TypeOK
    <3>2. 1 \in 0..Budget /\ lag[i] \in 0..OldWindow
      BY Bounds DEF TypeOK
    <3> QED  BY <3>1, <3>2 DEF Item
  <2>2. item' \in Item /\ episode' \in 0..MaxAge
    BY <1>10, <2>1, WriteTyped DEF OpenWindow
  <2>3. 0 \in 0..MaxLag + 1  BY Bounds
  <2> QED  BY <1>10, <2>2, <2>3 DEF OpenWindow, Granted, ClaimLeaves, TypeOK
<1>11. ASSUME NEW i \in Invocation, WindowTaken(i) PROVE TypeOK'
  BY <1>11 DEF WindowTaken, TypeOK
<1>12. ASSUME NEW i \in Invocation, ClaimFails(i) PROVE TypeOK'
  <2>1. 0 \in 0..MaxLag + 1  BY Bounds
  <2> QED  BY <1>12, <2>1, Bounds DEF ClaimFails, Fault, ClaimLeaves, TypeOK
<1>13. ASSUME Tick PROVE TypeOK'
  <2>1. item' \in Item  BY <1>13, OlderTyped DEF Tick
  <2>2. phase' \in 0..WindowTicks - 1  BY <1>13, Bounds DEF Tick, TypeOK
  <2>3. lag' \in [Invocation -> 0..MaxLag + 1]
    <3>1. CASE phase = WindowTicks - 1
      <4>1. \A i \in Invocation : lag[i] \in 0..MaxLag  BY <1>13, <3>1, Bounds DEF Tick, TypeOK
      <4>2. lag' = [i \in Invocation |-> IF pc[i] = "idle" THEN 0 ELSE lag[i] + 1]
        BY <1>13, <3>1 DEF Tick
      <4> QED  BY <4>1, <4>2, Bounds
    <3>2. CASE phase # WindowTicks - 1
      BY <1>13, <3>2 DEF Tick, TypeOK
    <3> QED  BY <3>1, <3>2
  <2>4. granted' \in [0..MaxLag + 1 -> Nat]
    BY <1>13, Bounds DEF Tick, TypeOK
  <2>5. episode' \in 0..MaxAge
    <3>1. episode + 1 \in Nat  BY Bounds DEF TypeOK
    <3>2. Capped(episode + 1, MaxAge) \in 0..MaxAge  BY <3>1, Bounds, CappedBounds
    <3>3. 0 \in 0..MaxAge  BY Bounds
    <3> QED  BY <1>13, <3>2, <3>3 DEF Tick
  <2> QED  BY <1>13, <2>1, <2>2, <2>3, <2>4, <2>5 DEF Tick, TypeOK
<1>14. CASE UNCHANGED vars
  BY <1>14 DEF vars, TypeOK
<1> QED
  BY <1>1, <1>2, <1>3, <1>4, <1>5, <1>6, <1>7, <1>8, <1>9, <1>10, <1>11, <1>12,
     <1>13, <1>14 DEF Next, Claim

-----------------------------------------------------------------------------
(* A step that leaves the record of the window and the grants alone.       *)
LEMMA WindowKept ==
  ASSUME WindowBooks, item'.window = item.window, item'.probes = item.probes,
         UNCHANGED granted
  PROVE  WindowBooks'
BY DEF WindowBooks, Windows

(* A grant is counted in the record of its window before it is made, and   *)
(* a window is only opened if no grant was made in it or after it.         *)
LEMMA WindowStep == TypeOK /\ WindowBooks /\ [Next]_vars => WindowBooks'
<1> SUFFICES ASSUME TypeOK, WindowBooks, [Next]_vars PROVE WindowBooks'  OBVIOUS
<1> USE DEF claimVars, ghostVars
<1>t. /\ item \in Item
      /\ granted \in [Windows -> Nat]
      /\ \A i \in Invocation : lag[i] \in Windows
      /\ \A w \in Windows : w \in Nat
  BY Bounds DEF TypeOK, Windows
<1>1. ASSUME NEW p \in Process, Conclude(p) PROVE WindowBooks'
  <2>1. CASE StillExpected(p)
    BY <1>1, <2>1, ResultTyped, WindowKept DEF Conclude, Write
  <2>2. CASE ~StillExpected(p)
    BY <1>1, <2>2, WindowKept DEF Conclude
  <2> QED  BY <2>1, <2>2
<1>2. ASSUME Override PROVE WindowBooks'
  <2>1. "CLOSED" \in State  BY DEF State
  <2> QED  BY <1>2, <2>1, EnteringTyped, WindowKept DEF Override, Write
<1>3. ASSUME NEW i \in Invocation, TakeSlot(i) PROVE WindowBooks'
  <2>1. /\ item.window = lag[i] /\ item.probes < Budget /\ item.probes \in Nat
        /\ item'.window = item.window /\ item'.probes = item.probes + 1
    BY <1>3, <1>t, Bounds DEF TakeSlot, SlotFree, Write, Item
  <2>2. granted' = [granted EXCEPT ![lag[i]] = @ + 1]
    BY <1>3 DEF TakeSlot, Granted
  <2>3. lag[i] \in Windows /\ lag[i] # None  BY <1>t, Bounds
  <2>4. ASSUME NEW w \in Windows, w # lag[i]
        PROVE  /\ granted'[w] <= Budget
               /\ w < lag[i] => granted'[w] = 0
    BY <1>t, <2>1, <2>2, <2>3, <2>4 DEF WindowBooks
  <2>5. granted'[lag[i]] <= item'.probes /\ item'.probes <= Budget /\ ~(lag[i] < lag[i])
    BY <1>t, <2>1, <2>2, <2>3, Bounds DEF WindowBooks
  <2>6. granted'[lag[i]] <= Budget
    BY <1>t, <2>1, <2>2, <2>3, <2>5, Bounds
  <2> QED  BY <1>t, <2>1, <2>3, <2>4, <2>5, <2>6 DEF WindowBooks, Windows
<1>4. ASSUME NEW i \in Invocation, OpenWindow(i) PROVE WindowBooks'
  <2>1. item'.window = lag[i] /\ item'.probes = 1
    BY <1>4, <1>t DEF OpenWindow, Write, Item
  <2>2. granted' = [granted EXCEPT ![lag[i]] = @ + 1]
    BY <1>4 DEF OpenWindow, Granted
  <2>3. lag[i] \in Windows /\ lag[i] # None  BY <1>t, Bounds
  <2>4. item.window # None => item.window \in Nat /\ item.window > lag[i]
    BY <1>4, <1>t, Bounds DEF OpenWindow, WindowIsOlder, Item
  <2>5. \A w \in Windows : w <= lag[i] => granted[w] = 0
    BY <1>t, <2>3, <2>4 DEF WindowBooks
  <2>6. granted[lag[i]] = 0  BY <1>t, <2>3, <2>5
  <2>7. granted'[lag[i]] = 1 /\ 1 <= Budget
    BY <1>t, <2>2, <2>3, <2>6, Bounds
  <2>8. ASSUME NEW w \in Windows, w # lag[i]
        PROVE  /\ granted'[w] <= Budget
               /\ w < lag[i] => granted'[w] = 0
    BY <1>t, <2>2, <2>3, <2>5, <2>8 DEF WindowBooks
  <2> QED  BY <1>t, <2>1, <2>3, <2>7, <2>8 DEF WindowBooks, Windows
<1>5. ASSUME Tick PROVE WindowBooks'
  <2>1. CASE phase # WindowTicks - 1
    BY <1>5, <2>1, OlderTyped, WindowKept DEF Tick
  <2>2. CASE phase = WindowTicks - 1
    <3>1. item'.window = WindowAged(item.window) /\ item'.probes = item.probes
      BY <1>5, <2>2, OlderTyped DEF Tick
    <3>2. \A w \in Windows : granted'[w] = IF w = 0 THEN 0 ELSE granted[w - 1]
      BY <1>5, <2>2 DEF Tick, Windows
    <3>3. \A w \in Windows : w # 0 => w - 1 \in Windows
      BY Bounds DEF Windows
    <3>4. \A w \in Windows : granted'[w] <= Budget
      BY <1>t, <3>2, <3>3, Bounds DEF WindowBooks
    <3>5. CASE item.window = None
      <4>1. item'.window = None  BY <3>1, <3>5 DEF WindowAged
      <4>2. \A w \in Windows : granted'[w] = 0
        BY <3>2, <3>3, <3>5 DEF WindowBooks
      <4>3. \A w \in Windows : w # None  BY <1>t, Bounds
      <4> QED  BY <3>4, <4>1, <4>2, <4>3 DEF WindowBooks, Windows
    <3>6. CASE item.window # None
      <4>1. item.window \in Nat /\ item.window <= OldWindow
        BY <1>t, <3>6, Bounds DEF Item
      <4>2. /\ item'.window \in Nat /\ item'.window <= item.window + 1
            /\ item'.window # item.window + 1 => item'.window >= OldWindow
        BY <3>1, <3>6, <4>1, Bounds DEF WindowAged, Capped
      <4>3. ASSUME NEW w \in Windows
            PROVE  /\ w < item'.window => granted'[w] = 0
                   /\ item'.window = w => granted'[w] <= item'.probes
        <5>1. CASE w = 0
          BY <1>t, <3>1, <3>2, <5>1 DEF Item
        <5>2. CASE w # 0
          <6>1. w - 1 \in Windows /\ granted'[w] = granted[w - 1] /\ w \in Nat
                /\ w < OldWindow
            BY <1>t, <3>2, <3>3, <5>2, Bounds DEF Windows
          <6>2. w < item'.window => granted'[w] = 0
            BY <3>6, <4>1, <4>2, <6>1 DEF WindowBooks
          <6>3. item'.window = w => item.window = w - 1
            BY <4>1, <4>2, <6>1, Bounds
          <6> QED  BY <3>1, <6>1, <6>2, <6>3 DEF WindowBooks
        <5> QED  BY <5>1, <5>2
      <4>4. item'.window # None  BY <4>2, Bounds
      <4> QED  BY <3>4, <4>3, <4>4 DEF WindowBooks, Windows
    <3> QED  BY <3>5, <3>6
  <2> QED  BY <2>1, <2>2
<1>6. CASE UNCHANGED <<item, granted>>
  BY <1>6, WindowKept
<1> QED
  BY <1>1, <1>2, <1>3, <1>4, <1>5, <1>6
  DEF Next, Claim, vars, AlarmOrPause, OkOrProbe, HealthCheck, ProbeAfterOutage,
      StampEpisode, Reopen, NotifySuccess, Intend, ConcludeFails, BeginClaim,
      NoSlot, WindowTaken, ClaimFails

-----------------------------------------------------------------------------
LEMMA PlanStep == TypeOK /\ PlansAreModest /\ [Next]_vars => PlansAreModest'
<1> SUFFICES ASSUME TypeOK, PlansAreModest, [Next]_vars PROVE PlansAreModest'
  OBVIOUS
<1>a. /\ plan \in [Process -> Plan \cup {None}]
      /\ Tracker \cap (Manager \cup {Scheduler}) = {}
  BY BreakerAssumption DEF BreakerAssumption, TypeOK
<1>1. ASSUME NEW p \in Process, NEW to \in State, NEW expected \in State,
             Intend(p, to, expected),
             p \in Tracker => expected = "HALF_OPEN",
             p \notin Tracker => to # "CLOSED"
      PROVE  PlansAreModest'
  <2>1. /\ plan' = [plan EXCEPT ![p] = [to |-> to, expected |-> expected]]
        /\ p \in DOMAIN plan
    BY <1>1, <1>a DEF Intend
  <2> QED  BY <1>1, <1>a, <2>1 DEF PlansAreModest
<1>s. "OPEN" \in State /\ "CLOSED" \in State /\ "HALF_OPEN" \in State /\ item.state \in State
  BY DEF State, TypeOK, Item
<1>2. ASSUME NEW m \in Manager, AlarmOrPause(m) \/ OkOrProbe(m) PROVE PlansAreModest'
  <2>1. m \in Process /\ m \notin Tracker  BY <1>a DEF Process
  <2> QED  BY <1>1, <1>2, <1>s, <2>1 DEF AlarmOrPause, OkOrProbe
<1>3. ASSUME HealthCheck PROVE PlansAreModest'
  <2>1. Scheduler \in Process /\ Scheduler \notin Tracker  BY <1>a DEF Process
  <2> QED
    BY <1>1, <1>3, <1>s, <2>1 DEF HealthCheck, ProbeAfterOutage, StampEpisode, Reopen
<1>4. ASSUME NEW t \in Tracker, NotifySuccess(t) PROVE PlansAreModest'
  BY <1>1, <1>4, <1>s DEF NotifySuccess, Process
<1>5. ASSUME NEW p \in Process, plan' = [plan EXCEPT ![p] = None] PROVE PlansAreModest'
  BY <1>5, <1>a DEF PlansAreModest
<1>6. CASE UNCHANGED plan
  BY <1>6 DEF PlansAreModest
<1> QED
  BY <1>2, <1>3, <1>4, <1>5, <1>6
  DEF Next, Claim, vars, Conclude, ConcludeFails, Override, BeginClaim, TakeSlot,
      NoSlot, OpenWindow, WindowTaken, ClaimFails, Tick

-----------------------------------------------------------------------------
(* A write that keeps the state keeps the clock of the episode as well, or *)
(* sets it to zero; one that enters HALF_OPEN sets both to zero.           *)
LEMMA EpisodeWritten ==
  ASSUME TypeOK, EpisodeIsNotOvertimed, NEW new \in Item, Write(new),
         new.state = "HALF_OPEN" =>
           new.halfOpenAge = 0 \/ (new.halfOpenAge = item.halfOpenAge /\ item.state = "HALF_OPEN")
  PROVE  EpisodeIsNotOvertimed'
BY Bounds DEF TypeOK, Item, Write, EpisodeIsNotOvertimed

LEMMA EpisodeStep ==
  TypeOK /\ EpisodeIsNotOvertimed /\ [Next]_vars => EpisodeIsNotOvertimed'
<1> SUFFICES ASSUME TypeOK, EpisodeIsNotOvertimed, [Next]_vars
             PROVE  EpisodeIsNotOvertimed'
  OBVIOUS
<1> USE DEF claimVars, ghostVars
<1>1. ASSUME NEW p \in Process, Conclude(p) PROVE EpisodeIsNotOvertimed'
  <2>1. CASE StillExpected(p)
    BY <1>1, <2>1, ResultTyped, EpisodeWritten DEF Conclude
  <2>2. CASE ~StillExpected(p)
    BY <1>1, <2>2 DEF Conclude, EpisodeIsNotOvertimed
  <2> QED  BY <2>1, <2>2
<1>2. ASSUME Override PROVE EpisodeIsNotOvertimed'
  <2>1. "CLOSED" \in State  BY DEF State
  <2> QED  BY <1>2, <2>1, EnteringTyped, EpisodeWritten DEF Override
<1>3. ASSUME NEW i \in Invocation, TakeSlot(i) \/ OpenWindow(i)
      PROVE  EpisodeIsNotOvertimed'
  <2>1. /\ item'.state = item.state /\ item'.halfOpenAge = item.halfOpenAge
        /\ episode' = episode
    BY <1>3 DEF TakeSlot, OpenWindow, Write, TypeOK, Item
  <2> QED  BY <2>1 DEF EpisodeIsNotOvertimed
<1>4. ASSUME Tick PROVE EpisodeIsNotOvertimed'
  <2>1. item'.state = item.state /\ item'.halfOpenAge = Aged(item.halfOpenAge)
    BY <1>4, OlderTyped DEF Tick
  <2>2. CASE item.state = "HALF_OPEN" /\ item.halfOpenAge # None
    <3>1. item.halfOpenAge \in Nat /\ episode \in Nat /\ item.halfOpenAge <= episode
      BY <2>2, Bounds DEF TypeOK, Item, EpisodeIsNotOvertimed
    <3>2. Aged(item.halfOpenAge) = Capped(item.halfOpenAge + 1, MaxAge)
      BY <2>2 DEF Aged
    <3>3. episode' = Capped(episode + 1, MaxAge)
      BY <1>4, <2>2 DEF Tick
    <3>4. Capped(item.halfOpenAge + 1, MaxAge) <= Capped(episode + 1, MaxAge)
      BY <3>1, Bounds, CappedIsMonotone
    <3> QED  BY <2>1, <3>2, <3>3, <3>4 DEF EpisodeIsNotOvertimed
  <2>3. CASE ~(item.state = "HALF_OPEN" /\ item.halfOpenAge # None)
    BY <2>1, <2>3 DEF EpisodeIsNotOvertimed, Aged
  <2> QED  BY <2>2, <2>3
<1>5. CASE UNCHANGED <<item, episode>>
  BY <1>5 DEF EpisodeIsNotOvertimed
<1> QED
  BY <1>1, <1>2, <1>3, <1>4, <1>5
  DEF Next, Claim, vars, AlarmOrPause, OkOrProbe, HealthCheck, ProbeAfterOutage,
      StampEpisode, Reopen, NotifySuccess, Intend, ConcludeFails, BeginClaim,
      NoSlot, WindowTaken, ClaimFails

-----------------------------------------------------------------------------
(* The invariant is inductive.                                             *)
THEOREM Invariance == Spec => []IInv
<1>1. Init => IInv  BY InitIInv
<1>2. IInv /\ [Next]_vars => IInv'
  BY TypeStep, WindowStep, PlanStep, EpisodeStep DEF IInv
<1> QED  BY <1>1, <1>2, PTL DEF Spec

(* The breaker's record is well typed; above all its count of probes stays *)
(* within the budget under every race of claims and transitions.           *)
THEOREM TypeCorrect == Spec => []TypeOK
<1>1. IInv => TypeOK  BY DEF IInv
<1> QED  BY <1>1, Invariance, PTL

(* No probe window hands out more than its budget, for any number of       *)
(* invocations and any lag between their clocks (_claim_half_open_probe).  *)
THEOREM ProbeBudget == Spec => []BudgetPerWindow
<1>1. IInv => BudgetPerWindow
  BY DEF IInv, TypeOK, WindowBooks, Windows, BudgetPerWindow
<1> QED  BY <1>1, Invariance, PTL

(* A half-open episode is never timed from before it began.                *)
THEOREM EpisodeTiming == Spec => []EpisodeIsNotOvertimed
<1>1. IInv => EpisodeIsNotOvertimed  BY DEF IInv
<1> QED  BY <1>1, Invariance, PTL

(* Only an operator's override takes an open breaker to closed.            *)
LEMMA OutageKept ==
  IInv /\ [Next]_vars =>
    [item.state = "OPEN" /\ item'.state = "CLOSED" => Override]_vars
<1> SUFFICES ASSUME IInv, [Next]_vars, item.state = "OPEN", item'.state = "CLOSED"
             PROVE  Override
  OBVIOUS
<1>t. TypeOK /\ PlansAreModest  BY DEF IInv
<1>1. ASSUME NEW p \in Process, Conclude(p) PROVE FALSE
  <2>1. StillExpected(p)
    BY <1>1 DEF Conclude
  <2>2. item' = Result(p) /\ plan[p] # None
    BY <1>1, <2>1 DEF Conclude, Write
  <2>3. plan[p].expected = "OPEN"  BY <2>1 DEF StillExpected
  <2>4. p \notin Tracker /\ plan[p].to # "CLOSED"
    BY <1>t, <2>2, <2>3 DEF PlansAreModest
  <2> QED  BY <1>t, <2>2, <2>4, ResultTyped
<1>2. ASSUME NEW i \in Invocation, TakeSlot(i) \/ OpenWindow(i) PROVE FALSE
  BY <1>2 DEF TakeSlot, OpenWindow
<1>3. ASSUME Tick PROVE FALSE
  <2>1. item'.state = item.state  BY <1>3, <1>t, OlderTyped DEF Tick
  <2> QED  BY <2>1
<1>4. CASE UNCHANGED item
  BY <1>4
<1> QED
  BY <1>1, <1>2, <1>3, <1>4
  DEF Next, Claim, vars, AlarmOrPause, OkOrProbe, HealthCheck, ProbeAfterOutage,
      StampEpisode, Reopen, NotifySuccess, Intend, ConcludeFails, BeginClaim,
      NoSlot, WindowTaken, ClaimFails

(* A success that was read as a probe's never closes a breaker that has    *)
(* opened since (notify_circuit_breaker_success, update_circuit_breaker_   *)
(* state).                                                                 *)
THEOREM OutageNotClobbered == Spec => OutageIsNotClobbered
<1>1. IInv /\ [Next]_vars =>
        [item.state = "OPEN" /\ item'.state = "CLOSED" => Override]_vars
  BY OutageKept
<1> QED  BY <1>1, Invariance, PTL DEF Spec, OutageIsNotClobbered
=============================================================================
