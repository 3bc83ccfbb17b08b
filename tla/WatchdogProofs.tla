--------------------------- MODULE WatchdogProofs ---------------------------
(***************************************************************************)
(* Proofs about the watchdog, for any interval, any even WatchdogSec=, and *)
(* any bound on a pass and on a re-arming.                                 *)
(***************************************************************************)
EXTENDS Watchdog, TLAPS

(* Only a pass or a re-arming wedges, and one that has not is not over     *)
(* time.                                                                   *)
Wedging ==
  /\ wedged => phase \in {"pass", "rearm", "killed"}
  /\ phase \in {"suspended", "stopped"} => ~ wedged
  /\ ~ wedged /\ phase = "pass" => busy <= PassTime
  /\ ~ wedged /\ phase = "rearm" => busy <= ArmTime

(* The loop waits for a tick one interval at most, so that since, which    *)
(* the gate of watchdog looks at, is the duration of the pass and one      *)
(* interval at most.                                                       *)
Cadence ==
  /\ phase = "select" => since <= interval /\ (~ buffered => since + toTick <= interval)
  /\ phase = "pass" => since <= interval + busy

(* rearmWhenResumed feeds systemd at each of its ticks; re-arming begins   *)
(* at one.                                                                 *)
FedSuspended ==
  /\ phase = "suspended" => busy = 0 /\ (Supervised => fed + toTick <= WatchdogInterval)
  /\ phase = "rearm" /\ Supervised => fed = busy

(* Once the gate has closed, systemd's timer has run as long as since is   *)
(* beyond it.                                                              *)
Gated == phase \in Loop /\ Supervised => since <= Stale + fed

(* Where the check loop is with respect to systemd's timer: before the     *)
(* first ping; after a ping that went out; after one that was withheld; or *)
(* the timer has run out.                                                  *)
FedLoop ==
  phase \in Loop /\ Supervised /\ InTime =>
    \/ since + toPing <= WatchdogInterval /\ fed + toPing < watchdogSec
    \/ fed + toPing = WatchdogInterval
    \/ fed + toPing = watchdogSec /\ since + toPing > Stale + WatchdogInterval
    \/ fed = watchdogSec /\ since > Stale + WatchdogInterval

(* A process the watchdog killed was stuck for WatchdogSec. *)
KilledWedged == phase = "killed" /\ InTime => wedged /\ busy >= watchdogSec

Inv == TypeOK /\ Wedging /\ Cadence /\ FedSuspended /\ Gated /\ FedLoop /\ KilledWedged

-----------------------------------------------------------------------------
(* The windows, which depend on the unit only. *)
WindowFacts ==
  /\ interval \in Nat \ {0} /\ watchdogSec \in Nat /\ WatchdogInterval \in Nat
  /\ watchdogSec \div 2 \in Nat /\ WatchdogInterval <= watchdogSec \div 2
  /\ Supervised => watchdogSec = 2 * WatchdogInterval /\ WatchdogInterval > 0
  /\ Stale \in Nat /\ Stale >= 2 * interval /\ Stale >= 2 * WatchdogInterval
  /\ Stale = 2 * interval \/ Stale = 2 * WatchdogInterval
  /\ Horizon \in Nat /\ Horizon = Stale + watchdogSec + ArmTime + PassTime + 1
  /\ SuspendedEvery \in 0..interval
  /\ Supervised => SuspendedEvery <= WatchdogInterval
  /\ InTime => PassTime <= interval \/ interval + PassTime <= watchdogSec
  /\ InTime => 2 * ArmTime < watchdogSec
  /\ PassTime \in Nat /\ ArmTime \in Nat

LEMMA Windows ==
  ASSUME interval \in Intervals, watchdogSec \in WatchdogSecs
  PROVE  WindowFacts
  <1>1. interval \in Nat \ {0} /\ watchdogSec \in Nat /\ watchdogSec % 2 = 0
    BY WatchdogAssumption
  <1>2. watchdogSec = 2 * (watchdogSec \div 2) /\ watchdogSec \div 2 \in Nat
    BY <1>1
  <1>3. /\ WatchdogInterval \in Nat /\ WatchdogInterval <= watchdogSec \div 2
        /\ Supervised => watchdogSec = 2 * WatchdogInterval /\ WatchdogInterval > 0
    BY <1>1, <1>2 DEF WatchdogInterval, Supervised
  <1>4. /\ Stale \in Nat /\ Stale >= 2 * interval /\ Stale >= 2 * WatchdogInterval
        /\ Stale = 2 * interval \/ Stale = 2 * WatchdogInterval
    BY <1>1, <1>3 DEF Stale
  <1>5. SuspendedEvery \in 0..interval /\ (Supervised => SuspendedEvery <= WatchdogInterval)
    BY <1>1, <1>3 DEF SuspendedEvery
  <1> QED
    BY <1>1, <1>2, <1>3, <1>4, <1>5, WatchdogAssumption DEF Horizon, InTime, WindowFacts

LEMMA WindowsKept ==
  ASSUME UNCHANGED unit
  PROVE  /\ interval' = interval /\ watchdogSec' = watchdogSec /\ pid' = pid
         /\ WatchdogInterval' = WatchdogInterval /\ Stale' = Stale /\ Horizon' = Horizon
         /\ Supervised' = Supervised /\ InTime' = InTime
  BY DEF unit, WatchdogInterval, Stale, Horizon, Supervised, InTime

LEMMA InitInv == Init => Inv
  <1> SUFFICES ASSUME Init PROVE Inv
    OBVIOUS
  <1>1. WindowFacts
    BY Windows DEF Init
  <1>2. TypeOK
    <2>1. wedged \in BOOLEAN /\ buffered \in BOOLEAN /\ phase \in Phases
      BY DEF Init, Phases
    <2> QED
      BY <1>1, <2>1 DEF Init, TypeOK, WindowFacts
  <1>3. Wedging /\ Cadence /\ FedSuspended /\ Gated /\ FedLoop /\ KilledWedged
    BY DEF Init, Wedging, Cadence, FedSuspended, Gated, FedLoop, KilledWedged, Loop
  <1> QED
    BY <1>2, <1>3 DEF Inv

(* What every step may use. *)
LEMMA StepFacts ==
  ASSUME Inv
  PROVE  /\ WindowFacts
         /\ toTick \in Nat /\ toPing \in Nat /\ since \in Nat /\ busy \in Nat /\ fed \in Nat
         /\ toTick <= interval /\ toPing <= watchdogSec \div 2
         /\ since <= Horizon /\ busy <= Horizon /\ fed <= watchdogSec
  <1>1. WindowFacts
    BY Windows DEF Inv, TypeOK
  <1> QED
    BY <1>1 DEF Inv, TypeOK, WindowFacts

LEMMA StartInv == Inv /\ Start => Inv'
  <1> SUFFICES ASSUME Inv, Start PROVE Inv'
    OBVIOUS
  <1> USE StepFacts, WindowsKept DEF Start, WindowFacts
  <1>1. wedged' = FALSE /\ buffered' = FALSE /\ phase' \in {"pass", "suspended"}
    BY DEF Ready, Wired
  <1>2. TypeOK'
    <2>1. wedged' \in BOOLEAN /\ buffered' \in BOOLEAN /\ phase' \in Phases
      BY <1>1 DEF Phases, Alive, Loop
    <2>2. /\ toTick' \in 0..interval /\ toPing' \in 0..(watchdogSec \div 2)
          /\ since' = 0 /\ busy' = 0 /\ fed' = 0
      BY DEF Ready, Wired
    <2> QED
      BY <2>1, <2>2 DEF Inv, TypeOK
  <1>3. Wedging' /\ Cadence' /\ KilledWedged'
    BY <1>1 DEF Ready, Wired, Wedging, Cadence, KilledWedged
  <1>4. FedSuspended' /\ Gated' /\ FedLoop'
    BY <1>1 DEF Ready, Wired, FedSuspended, Gated, FedLoop, Loop
  <1> QED
    BY <1>2, <1>3, <1>4 DEF Inv

LEMMA SuspendedTickInv == Inv /\ SuspendedTick => Inv'
  <1> SUFFICES ASSUME Inv, SuspendedTick PROVE Inv'
    OBVIOUS
  <1> USE StepFacts, WindowsKept DEF SuspendedTick, WindowFacts
  <1>1. TypeOK'
    BY DEF Inv, TypeOK, Phases, Alive
  <1>2. Wedging' /\ Cadence' /\ KilledWedged'
    BY DEF Inv, Wedging, Cadence, KilledWedged, FedSuspended
  <1>3. FedSuspended' /\ Gated' /\ FedLoop'
    BY DEF Inv, FedSuspended, Gated, FedLoop, Loop
  <1> QED
    BY <1>1, <1>2, <1>3 DEF Inv

(* The hand-over: re-arming began with systemd fed, took less than half of *)
(* WatchdogSec, and the first ping is due in half of it.                   *)
LEMMA RearmInv == Inv /\ Rearm => Inv'
  <1> SUFFICES ASSUME Inv, Rearm PROVE Inv'
    OBVIOUS
  <1> USE StepFacts, WindowsKept DEF Rearm, WindowFacts
  <1>1. ~ wedged' /\ phase' \in {"pass", "stopped"} /\ fed' = fed /\ wedged' = wedged
    BY DEF Wired
  <1>2. TypeOK'
    <2>1. buffered' \in BOOLEAN
      BY DEF Wired, Inv, TypeOK
    <2>2. /\ toTick' \in 0..interval /\ toPing' \in 0..(watchdogSec \div 2)
          /\ since' \in 0..Horizon /\ busy' \in 0..Horizon
      BY DEF Wired
    <2> QED
      BY <1>1, <2>1, <2>2 DEF Inv, TypeOK, Phases, Alive, Loop
  <1>3. Wedging' /\ Cadence' /\ KilledWedged'
    BY <1>1 DEF Wired, Wedging, Cadence, KilledWedged
  <1>4. FedSuspended' /\ Gated'
    BY <1>1 DEF Wired, FedSuspended, Gated, Loop
  <1>5. FedLoop'
    <2> SUFFICES ASSUME phase' \in Loop, Supervised, InTime
                 PROVE  /\ since' + toPing' <= WatchdogInterval
                        /\ fed' + toPing' < watchdogSec
      BY DEF FedLoop
    <2>1. since' = 0 /\ toPing' = WatchdogInterval
      BY DEF Wired, Loop
    <2>2. fed' <= ArmTime
      BY <1>1 DEF Inv, FedSuspended, Wedging
    <2> QED
      BY <2>1, <2>2, <1>1
  <1> QED
    BY <1>2, <1>3, <1>4, <1>5 DEF Inv

(* A pass that ends was in time, so the gate has not closed on it. *)
LEMMA EndPassInv == Inv /\ EndPass => Inv'
  <1> SUFFICES ASSUME Inv, EndPass PROVE Inv'
    OBVIOUS
  <1> USE StepFacts, WindowsKept DEF EndPass, WindowFacts
  <1>1. TypeOK'
    BY DEF Inv, TypeOK, Phases, Alive, Loop
  <1>2. Wedging' /\ Cadence' /\ KilledWedged'
    BY DEF Inv, Wedging, Cadence, KilledWedged
  <1>3. FedSuspended' /\ Gated'
    BY DEF FedSuspended, Gated, Loop
  <1>4. FedLoop'
    <2> SUFFICES ASSUME Supervised, InTime
                 PROVE  \/ /\ since' + toPing' <= WatchdogInterval
                           /\ fed' + toPing' < watchdogSec
                        \/ fed' + toPing' = WatchdogInterval
      BY DEF FedLoop
    <2>1. since <= Stale
      BY DEF Inv, Wedging, Cadence
    <2>2. toPing <= WatchdogInterval
      OBVIOUS
    <2> QED
      BY <2>1, <2>2 DEF Inv, FedLoop, Loop
  <1> QED
    BY <1>1, <1>2, <1>3, <1>4 DEF Inv

LEMMA TickInv == Inv /\ (Tick \/ NextPass) => Inv'
  <1> SUFFICES ASSUME Inv, Tick \/ NextPass PROVE Inv'
    OBVIOUS
  <1> USE StepFacts, WindowsKept DEF Tick, NextPass, WindowFacts
  <1>1. buffered' \in BOOLEAN
    OBVIOUS
  <1>2. TypeOK'
    BY <1>1 DEF Inv, TypeOK, Phases, Alive, Loop
  <1>3. Wedging' /\ KilledWedged'
    BY DEF Inv, Wedging, KilledWedged, Loop
  <1>4. Cadence'
    BY DEF Inv, Cadence, Loop
  <1>5. FedSuspended' /\ Gated' /\ FedLoop'
    BY DEF Inv, FedSuspended, Gated, FedLoop, Loop
  <1> QED
    BY <1>2, <1>3, <1>4, <1>5 DEF Inv

(* A ping goes out exactly if the gate is open. *)
LEMMA PingInv == Inv /\ Ping => Inv'
  <1> SUFFICES ASSUME Inv, Ping PROVE Inv'
    OBVIOUS
  <1> USE StepFacts, WindowsKept DEF Ping, WindowFacts
  <1>1. TypeOK'
    BY DEF Inv, TypeOK
  <1>2. Wedging' /\ Cadence' /\ KilledWedged'
    BY DEF Inv, Wedging, Cadence, KilledWedged, Loop
  <1>3. FedSuspended' /\ Gated'
    BY DEF Inv, FedSuspended, Gated, Loop
  <1>4. FedLoop'
    <2> SUFFICES ASSUME Supervised, InTime
                 PROVE  \/ fed' + toPing' = WatchdogInterval
                        \/ fed' + toPing' = watchdogSec /\ since + toPing' > Stale + WatchdogInterval
                        \/ fed' = watchdogSec /\ since > Stale + WatchdogInterval
      BY DEF FedLoop
    <2>1. CASE since <= Stale
      BY <2>1
    <2>2. CASE since > Stale
      BY <2>2 DEF Inv, FedLoop
    <2> QED
      BY <2>1, <2>2
  <1> QED
    BY <1>1, <1>2, <1>3, <1>4 DEF Inv

LEMMA StopInv == Inv /\ (Stop \/ Wedge) => Inv'
  <1> SUFFICES ASSUME Inv, Stop \/ Wedge PROVE Inv'
    OBVIOUS
  <1> USE StepFacts, WindowsKept DEF Stop, Wedge, WindowFacts
  <1>1. wedged' \in BOOLEAN
    BY DEF Inv, TypeOK
  <1>2. TypeOK'
    BY <1>1 DEF Inv, TypeOK, Phases, Alive, Loop
  <1>3. Wedging' /\ Cadence' /\ KilledWedged'
    BY DEF Inv, Wedging, Cadence, KilledWedged
  <1>4. FedSuspended' /\ Gated' /\ FedLoop'
    BY DEF Inv, FedSuspended, Gated, FedLoop, Loop
  <1> QED
    BY <1>2, <1>3, <1>4 DEF Inv

(* Systemd's timer runs out on nothing but a call that has been stuck for  *)
(* WatchdogSec.                                                            *)
LEMMA KillInv == Inv /\ Kill => Inv'
  <1> SUFFICES ASSUME Inv, Kill PROVE Inv'
    OBVIOUS
  <1> USE StepFacts, WindowsKept DEF Kill, Expired, WindowFacts
  <1>1. TypeOK'
    BY DEF Inv, TypeOK, Phases
  <1>2. Wedging' /\ Cadence' /\ FedSuspended' /\ Gated' /\ FedLoop'
    BY DEF Inv, Wedging, Cadence, FedSuspended, Gated, FedLoop, Loop
  <1>3. KilledWedged'
    <2> SUFFICES ASSUME InTime PROVE wedged /\ busy >= watchdogSec
      BY DEF KilledWedged
    <2>1. Supervised /\ fed = watchdogSec
      OBVIOUS
    <2>2. phase # "suspended"
      BY <2>1 DEF Inv, FedSuspended
    <2>3. CASE phase = "rearm"
      BY <2>1, <2>3 DEF Inv, FedSuspended, Wedging
    <2>4. CASE phase \in Loop
      <3>1. since > Stale + WatchdogInterval
        BY <2>1, <2>4 DEF Inv, FedLoop
      <3>2. phase = "pass"
        BY <2>4, <3>1 DEF Inv, Cadence, Loop
      <3>3. wedged
        BY <3>1, <3>2 DEF Inv, Cadence, Wedging, TypeOK
      <3>4. busy > Stale + WatchdogInterval - interval
        BY <3>1, <3>2 DEF Inv, Cadence
      <3> QED
        BY <2>1, <3>3, <3>4
    <2> QED
      BY <2>2, <2>3, <2>4 DEF Alive
  <1> QED
    BY <1>1, <1>2, <1>3 DEF Inv

(* A clock that counts up to a bound, and one that counts down. *)
LEMMA Clocks ==
  ASSUME NEW c \in Nat, NEW b \in Nat, c <= b
  PROVE  /\ UpTo(c, b) \in 0..b /\ Down(c) \in 0..c
         /\ UpTo(c, b) >= c /\ UpTo(c, b) <= c + 1
         /\ c < b => UpTo(c, b) = c + 1
         /\ c = b => UpTo(c, b) = b
         /\ c > 0 => Down(c) = c - 1
         /\ c = 0 => Down(c) = 0
  BY DEF UpTo, Down

(* Time passes only while nothing is due, by one. *)
LEMMA TimeInv == Inv /\ TimePasses => Inv'
  <1> SUFFICES ASSUME Inv, TimePasses PROVE Inv'
    OBVIOUS
  <1> USE StepFacts, WindowsKept DEF WindowFacts
  <1>1. phase \in Alive /\ UNCHANGED <<unit, phase, wedged, buffered>>
    BY DEF TimePasses
  <1>2. /\ phase \in Loop \cup {"suspended"} => toTick > 0
        /\ ~ (phase = "select" /\ buffered)
        /\ phase \in Loop /\ WatchdogInterval > 0 => toPing > 0
        /\ phase = "pass" /\ ~ wedged => busy < PassTime
        /\ phase = "rearm" /\ ~ wedged => busy < ArmTime
        /\ Supervised => fed < watchdogSec
    BY DEF TimePasses, Due, Expired
  <1>3. /\ toTick' \in 0..toTick /\ (toTick > 0 => toTick' = toTick - 1)
        /\ toPing' \in 0..toPing /\ (toPing > 0 => toPing' = toPing - 1)
    BY Clocks DEF TimePasses
  <1>4. /\ since' \in 0..Horizon /\ since' <= since + 1
        /\ since < Horizon => since' = since + 1
        /\ since = Horizon => since' = Horizon
    BY Clocks DEF TimePasses
  <1>5. /\ busy' \in 0..Horizon
        /\ phase \in {"pass", "rearm"} /\ busy < Horizon => busy' = busy + 1
        /\ phase \in {"pass", "rearm"} /\ busy = Horizon => busy' = Horizon
        /\ phase \notin {"pass", "rearm"} => busy' = 0
    <2>1. /\ phase \in {"pass", "rearm"} => busy' = UpTo(busy, Horizon)
          /\ phase \notin {"pass", "rearm"} => busy' = 0
      BY DEF TimePasses
    <2>2. /\ UpTo(busy, Horizon) \in 0..Horizon
          /\ busy < Horizon => UpTo(busy, Horizon) = busy + 1
          /\ busy = Horizon => UpTo(busy, Horizon) = Horizon
      BY Clocks
    <2> QED
      BY <2>1, <2>2
  <1>6. fed' \in 0..watchdogSec /\ (fed < watchdogSec => fed' = fed + 1)
    BY Clocks DEF TimePasses
  <1>7. TypeOK'
    BY <1>1, <1>3, <1>4, <1>5, <1>6 DEF Inv, TypeOK
  <1>8. Wedging' /\ KilledWedged'
    BY <1>1, <1>2, <1>5 DEF Inv, Wedging, KilledWedged, Alive, Loop
  <1>9. Cadence'
    BY <1>1, <1>2, <1>3, <1>4, <1>5 DEF Inv, Cadence, Loop
  <1>10. FedSuspended'
    BY <1>1, <1>2, <1>3, <1>5, <1>6 DEF Inv, FedSuspended
  <1>11. Gated'
    <2> SUFFICES ASSUME phase \in Loop, Supervised PROVE since' <= Stale + fed'
      BY <1>1 DEF Gated, Loop
    <2> QED
      BY <1>2, <1>4, <1>6 DEF Inv, Gated
  <1>12. FedLoop'
    <2> SUFFICES ASSUME phase \in Loop, Supervised, InTime
                 PROVE  \/ since' + toPing' <= WatchdogInterval /\ fed' + toPing' < watchdogSec
                        \/ fed' + toPing' = WatchdogInterval
                        \/ /\ fed' + toPing' = watchdogSec
                           /\ since' + toPing' > Stale + WatchdogInterval
      BY <1>1 DEF FedLoop
    <2>1. toPing' = toPing - 1 /\ fed' = fed + 1
      BY <1>2, <1>3, <1>6
    <2>2. CASE since < Horizon
      BY <1>2, <1>4, <2>1, <2>2 DEF Inv, FedLoop
    <2>3. CASE since = Horizon
      BY <1>2, <1>3, <1>4, <2>1, <2>3 DEF Inv, FedLoop
    <2> QED
      BY <2>2, <2>3
  <1> QED
    BY <1>7, <1>8, <1>9, <1>10, <1>11, <1>12 DEF Inv

(* Every step preserves the invariant. *)
LEMMA NextInv == Inv /\ [Next]_vars => Inv'
  <1>1. Inv /\ UNCHANGED vars => Inv'
    <2> SUFFICES ASSUME Inv, UNCHANGED vars PROVE Inv'
      OBVIOUS
    <2>1. UNCHANGED <<unit, phase, wedged, toTick, buffered, toPing, since, busy, fed>>
      BY DEF vars
    <2> QED
      BY <2>1, WindowsKept DEF Inv, TypeOK, Wedging, Cadence, FedSuspended, Gated, FedLoop,
                               KilledWedged
  <1> QED
    BY <1>1, StartInv, SuspendedTickInv, RearmInv, EndPassInv, TickInv, PingInv, StopInv, KillInv,
       TimeInv DEF Next, Process

LEMMA Invariance == Spec => []Inv
  <1> QED
    BY InitInv, NextInv, PTL DEF Spec

-----------------------------------------------------------------------------
(* The clocks stay within their bounds. *)
THEOREM TypeCorrect == Spec => []TypeOK
  <1>1. Inv => TypeOK
    BY DEF Inv
  <1> QED
    BY <1>1, Invariance, PTL

(* For every interval and every even WatchdogSec: a process that makes     *)
(* progress is fed in time, suspended, handing over or checking.           *)
THEOREM ProgressSpared == Spec => []ProgressIsSpared
  <1>1. Inv => ProgressIsSpared
    BY DEF Inv, KilledWedged, ProgressIsSpared
  <1> QED
    BY <1>1, Invariance, PTL

(* A wedge in the loop is killed at most WatchdogSec after the gate has    *)
(* closed, one in re-arming within WatchdogSec, and neither in the first   *)
(* WatchdogSec of the call.                                                *)
THEOREM WedgeBounded == Spec => []WedgeIsBounded
  <1>1. Inv => WedgeIsBounded
    <2> SUFFICES ASSUME Inv PROVE WedgeIsBounded
      OBVIOUS
    <2>1. ASSUME Supervised, phase \in Loop
          PROVE  since <= 2 * interval + watchdogSec \/ since <= 2 * watchdogSec
      BY <2>1, StepFacts DEF Inv, Gated, WindowFacts
    <2>2. ASSUME Supervised, phase = "rearm"
          PROVE  busy <= watchdogSec
      BY <2>2, StepFacts DEF Inv, FedSuspended, WindowFacts
    <2> QED
      BY <2>1, <2>2 DEF Inv, KilledWedged, WedgeIsBounded
  <1> QED
    BY <1>1, Invariance, PTL
=============================================================================
