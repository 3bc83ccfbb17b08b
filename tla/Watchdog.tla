------------------------------ MODULE Watchdog ------------------------------
(***************************************************************************)
(* WatchdogSec= against the progress of the guard, in time: the keep-alive *)
(* that main.watchdog sends from a goroutine of its own and withholds from *)
(* a check loop that has not completed a pass for too long, the one        *)
(* rearmWhenResumed sends while the guard is suspended, the hand-over from *)
(* the second to the first, and systemd's timer.                           *)
(*                                                                         *)
(* Time is discrete.  A ticker is delivered, and a runnable goroutine      *)
(* runs, in the instant it is due; between two instants every clock moves  *)
(* by one.  A pass takes up to PassTime and re-arming up to ArmTime,       *)
(* unless they wedge, and then they never end.                             *)
(***************************************************************************)
EXTENDS Naturals

CONSTANTS
  Intervals,     \* values of --interval
  WatchdogSecs,  \* values of WatchdogSec=, 0 for none
  PassTime,      \* how long a pass that ends may take
  ArmTime        \* how long a re-arming that ends may take

ASSUME WatchdogAssumption ==
  /\ Intervals \subseteq Nat \ {0}
  /\ \A w \in WatchdogSecs : w \in Nat /\ w % 2 = 0
  /\ PassTime \in Nat /\ ArmTime \in Nat

VARIABLES
  interval, watchdogSec,
  pid,       \* WATCHDOG_PID is "unset", "ours" or another process's
  phase,     \* what the process is doing, "stopped", or "killed" by systemd
  wedged,    \* it is in a system call that does not return
  toTick,    \* time to the next tick of the loop's ticker
  buffered,  \* the check loop's ticker holds a tick
  toPing,    \* time to the next tick of the watchdog's ticker
  since,     \* time since the last pass, or since the watchdog was wired
  busy,      \* time since this pass, or this re-arming, began
  fed        \* time since systemd was told WATCHDOG=1, or READY=1

unit == <<interval, watchdogSec, pid>>
vars == <<unit, phase, wedged, toTick, buffered, toPing, since, busy, fed>>

Loop   == {"pass", "select"}                \* Guard.Run, with the watchdog wired
Alive  == Loop \cup {"suspended", "rearm"}
Phases == Alive \cup {"stopped", "killed"}

(* systemd has a timer for this process. *)
Supervised == watchdogSec > 0 /\ pid # "other"

(* Mutant: the whole of WATCHDOG_USEC. *)
WatchdogIntervalWhole == IF pid = "other" \/ watchdogSec = 0 THEN 0 ELSE watchdogSec

(* How often to ping: half of WATCHDOG_USEC, and not at all when the       *)
(* variables are unset or were inherited.                                  *)
WatchdogInterval == IF pid = "other" \/ watchdogSec = 0 THEN 0 ELSE watchdogSec \div 2

(* A pass is overdue after this time. *)
Stale == IF 2 * interval < 2 * WatchdogInterval THEN 2 * WatchdogInterval ELSE 2 * interval

(* Mutant: the suspended loop wakes up for the interval only. *)
SuspendedEveryInterval == interval

(* The period of rearmWhenResumed. *)
SuspendedEvery ==
  IF 0 < WatchdogInterval /\ WatchdogInterval < interval THEN WatchdogInterval ELSE interval

(* Beyond this time since and busy are not told apart. *)
Horizon == Stale + watchdogSec + ArmTime + PassTime + 1

-----------------------------------------------------------------------------
(* watchdog is called, and then Guard.Run. *)
Wired(p) ==
  /\ phase' = p /\ busy' = 0
  /\ toTick' = interval /\ buffered' = FALSE
  /\ toPing' = WatchdogInterval /\ since' = 0

(* READY=1, of a guard that is armed or of one that is suspended. *)
Ready ==
  /\ wedged' = FALSE /\ fed' = 0
  /\ \/ Wired("pass")
     \/ /\ phase' = "suspended" /\ toTick' = SuspendedEvery
        /\ buffered' = FALSE /\ toPing' = 0 /\ since' = 0 /\ busy' = 0

Init ==
  /\ interval \in Intervals /\ watchdogSec \in WatchdogSecs
  /\ pid \in {"unset", "ours", "other"}
  /\ phase = "stopped" /\ wedged = FALSE
  /\ toTick = 0 /\ buffered = FALSE /\ toPing = 0 /\ since = 0 /\ busy = 0 /\ fed = 0

Start ==
  /\ phase \in {"stopped", "killed"}
  /\ Ready
  /\ UNCHANGED unit

(* A tick of rearmWhenResumed: the keep-alive, and then a look at the      *)
(* disable file.                                                           *)
SuspendedTick ==
  /\ phase = "suspended" /\ toTick = 0
  /\ fed' = 0 /\ toTick' = SuspendedEvery
  /\ phase' \in {"suspended", "rearm"}
  /\ UNCHANGED <<unit, wedged, buffered, toPing, since, busy>>

(* arm returns: the guard, or an error that ends the process. *)
Rearm ==
  /\ phase = "rearm" /\ ~ wedged
  /\ \/ Wired("pass")
     \/ phase' = "stopped" /\ UNCHANGED <<toTick, buffered, toPing, since, busy>>
  /\ UNCHANGED <<unit, wedged, fed>>

(* Check returns and Observe records the pass; a trip ends the process. *)
EndPass ==
  /\ phase = "pass" /\ ~ wedged
  /\ since' = 0
  /\ phase' \in {"select", "stopped"}
  /\ UNCHANGED <<unit, wedged, toTick, buffered, toPing, busy, fed>>

(* The ticker of Guard.Run: its channel has room for one tick. *)
Tick ==
  /\ phase \in Loop /\ toTick = 0
  /\ toTick' = interval /\ buffered' = TRUE
  /\ UNCHANGED <<unit, phase, wedged, toPing, since, busy, fed>>

NextPass ==
  /\ phase = "select" /\ buffered
  /\ phase' = "pass" /\ buffered' = FALSE /\ busy' = 0
  /\ UNCHANGED <<unit, wedged, toTick, toPing, since, fed>>

(* ctx is done. *)
Stop ==
  /\ phase \in {"select", "suspended"}
  /\ phase' = "stopped"
  /\ UNCHANGED <<unit, wedged, toTick, buffered, toPing, since, busy, fed>>

(* Mutant: a keep-alive whatever the loop does. *)
PingAlways ==
  /\ phase \in Loop /\ WatchdogInterval > 0 /\ toPing = 0
  /\ toPing' = WatchdogInterval
  /\ fed' = 0
  /\ UNCHANGED <<unit, phase, wedged, toTick, buffered, since, busy>>

(* The goroutine of watchdog. *)
Ping ==
  /\ phase \in Loop /\ WatchdogInterval > 0 /\ toPing = 0
  /\ toPing' = WatchdogInterval
  /\ fed' = IF since > Stale THEN fed ELSE 0
  /\ UNCHANGED <<unit, phase, wedged, toTick, buffered, since, busy>>

Wedge ==
  /\ phase \in {"pass", "rearm"} /\ ~ wedged
  /\ wedged' = TRUE
  /\ UNCHANGED <<unit, phase, toTick, buffered, toPing, since, busy, fed>>

(* WatchdogSec runs out. *)
Expired == Supervised /\ fed >= watchdogSec

Kill ==
  /\ phase \in Alive /\ Expired
  /\ phase' = "killed"
  /\ UNCHANGED <<unit, wedged, toTick, buffered, toPing, since, busy, fed>>

(* Something is to happen in this instant. *)
Due ==
  \/ phase \in Loop \cup {"suspended"} /\ toTick = 0
  \/ phase = "select" /\ buffered
  \/ phase \in Loop /\ WatchdogInterval > 0 /\ toPing = 0
  \/ phase = "pass" /\ ~ wedged /\ busy >= PassTime
  \/ phase = "rearm" /\ ~ wedged /\ busy >= ArmTime
  \/ Expired

UpTo(clock, bound) == IF clock < bound THEN clock + 1 ELSE clock

Down(clock) == IF clock > 0 THEN clock - 1 ELSE 0

TimePasses ==
  /\ phase \in Alive /\ ~ Due
  /\ toTick' = Down(toTick) /\ toPing' = Down(toPing)
  /\ since' = UpTo(since, Horizon)
  /\ busy' = IF phase \in {"pass", "rearm"} THEN UpTo(busy, Horizon) ELSE 0
  /\ fed' = UpTo(fed, watchdogSec)
  /\ UNCHANGED <<unit, phase, wedged, buffered>>

Process == SuspendedTick \/ Rearm \/ EndPass \/ Tick \/ NextPass \/ Ping

Next == Start \/ Process \/ Stop \/ Wedge \/ Kill \/ TimePasses

Spec == Init /\ [][Next]_vars

-----------------------------------------------------------------------------
(* The types of the variables; the goroutine pings often enough to miss    *)
(* one tick and no more.                                                   *)
TypeOK ==
  /\ interval \in Intervals /\ watchdogSec \in WatchdogSecs
  /\ pid \in {"unset", "ours", "other"} /\ phase \in Phases
  /\ wedged \in BOOLEAN /\ buffered \in BOOLEAN
  /\ toTick \in 0..interval /\ toPing \in 0..(watchdogSec \div 2)
  /\ since \in 0..Horizon /\ busy \in 0..Horizon /\ fed \in 0..watchdogSec

(* A pass that ends fits into its interval, or is over in good time before *)
(* WatchdogSec; re-arming leaves time for the first ping.                  *)
InTime ==
  /\ PassTime <= interval \/ interval + PassTime <= watchdogSec
  /\ 2 * ArmTime < watchdogSec

(* The watchdog kills no process that makes progress: suspended, handing   *)
(* over to the check loop or checking, with an interval shorter or longer  *)
(* than WatchdogSec, it is fed in time (the window of watchdog and the     *)
(* period of rearmWhenResumed).                                            *)
ProgressIsSpared == phase = "killed" /\ InTime => wedged

(* A wedge is neither fed through nor found too early.  WatchdogSec after  *)
(* two intervals, or two WatchdogSec, without a pass the process has been  *)
(* killed, and in re-arming after one WatchdogSec; it is not killed in the *)
(* first WatchdogSec of the call it is stuck in (the gate in the goroutine *)
(* of watchdog, whose ticks are not aligned with the passes).              *)
WedgeIsBounded ==
  Supervised /\ wedged =>
    /\ phase \in Loop => since <= 2 * interval + watchdogSec \/ since <= 2 * watchdogSec
    /\ phase = "rearm" => busy <= watchdogSec
    /\ phase = "killed" /\ InTime => busy >= watchdogSec
=============================================================================
