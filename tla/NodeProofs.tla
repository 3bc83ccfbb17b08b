----------------------------- MODULE NodeProofs -----------------------------
(***************************************************************************)
(* Proofs about the whole node: that the guard's process, its unit and     *)
(* slurmd's boot job together behave as Response says, and that the right  *)
(* response acts on a failure.  The invariants of the two components are   *)
(* those of ServiceProofs and ResponseProofs, cited through an instance of *)
(* each.                                                                   *)
(***************************************************************************)
EXTENDS Node, TLAPS

SP == INSTANCE ServiceProofs
RP == INSTANCE ResponseProofs WITH main <- IF unit = "failed" THEN main ELSE Daemon!Running

(* What the responses see of the guard's process. *)
seen == IF unit = "failed" THEN main ELSE Daemon!Running

(* slurmd's boot job does not outlive an emergency stop. *)
BootJobGone == bootJob => ~ halted

Inv == SP!Inv /\ RP!Inv /\ BootJobGone

-----------------------------------------------------------------------------
(* The two instances of Service have the same actions. *)
LEMMA SameProcess == Daemon!Process => SP!Next
  <1> USE DEF Daemon!Goto, SP!Goto, Daemon!Exit, SP!Exit, Daemon!Exited, SP!Exited,
              Daemon!ReadyThenGoto, SP!ReadyThenGoto,
              Daemon!pass, SP!pass, Daemon!mode, SP!mode, Daemon!history, SP!history, Daemon!world, SP!world
  <1>1. Daemon!PrintAndExit \/ Daemon!RejectFlags => SP!PrintAndExit \/ SP!RejectFlags
    BY DEF Daemon!PrintAndExit, SP!PrintAndExit, Daemon!RejectFlags, SP!RejectFlags
  <1>2. Daemon!AcceptFlags => SP!AcceptFlags
    BY DEF Daemon!AcceptFlags, SP!AcceptFlags
  <1>3. Daemon!Arm => SP!Arm
    BY DEF Daemon!Arm, SP!Arm
  <1>4. Daemon!StatDisable => SP!StatDisable
    BY DEF Daemon!StatDisable, SP!StatDisable
  <1>5. Daemon!NotifyContext => SP!NotifyContext
    BY DEF Daemon!NotifyContext, SP!NotifyContext, Daemon!New, SP!New
  <1>6. Daemon!AnnounceSuspended => SP!AnnounceSuspended
    BY DEF Daemon!AnnounceSuspended, SP!AnnounceSuspended
  <1>7. Daemon!SuspendedTick => SP!SuspendedTick
    BY DEF Daemon!SuspendedTick, SP!SuspendedTick
  <1>8. Daemon!Rearm => SP!Rearm
    BY DEF Daemon!Rearm, SP!Rearm
  <1>9. Daemon!Ready => SP!Ready
    BY DEF Daemon!Ready, SP!Ready
  <1>10. Daemon!Check => SP!Check
    BY DEF Daemon!Check, SP!Check, Daemon!Policy!Pass, SP!Policy!Pass,
           Daemon!Policy!VerdictOn, SP!Policy!VerdictOn
  <1>11. Daemon!Trip => SP!Trip
    BY DEF Daemon!Trip, SP!Trip
  <1>12. Daemon!SelectTick => SP!SelectTick
    BY DEF Daemon!SelectTick, SP!SelectTick
  <1>13. Daemon!Stops => SP!Stops
    BY DEF Daemon!Stops, SP!Stops, Daemon!SuspendedStop, SP!SuspendedStop,
           Daemon!SelectStop, SP!SelectStop
  <1>14. Daemon!ListSensors \/ Daemon!CheckOnce => SP!ListSensors \/ SP!CheckOnce
    BY DEF Daemon!ListSensors, SP!ListSensors, Daemon!CheckOnce, SP!CheckOnce
  <1> QED
    BY <1>1, <1>2, <1>3, <1>4, <1>5, <1>6, <1>7, <1>8, <1>9, <1>10, <1>11, <1>12, <1>13, <1>14
       DEF Daemon!Process, SP!Process, Daemon!Steps, SP!Steps, SP!Next

LEMMA SameSystemd ==
  Daemon!Start \/ Daemon!Stop \/ Daemon!Timeout \/ Daemon!Crash \/ Daemon!StartSlurmd
    \/ Daemon!Wedge \/ Daemon!World => SP!Next
  <1> USE DEF Daemon!Exited, SP!Exited, Daemon!Killed, SP!Killed, Daemon!Running, SP!Running,
              Daemon!SIGTERM, SP!SIGTERM, Daemon!SIGKILL, SP!SIGKILL, Daemon!Dies, SP!Dies,
              Daemon!Handled, SP!Handled, Daemon!Aborted, SP!Aborted, Daemon!Heats, SP!Heats,
              Daemon!pass, SP!pass, Daemon!mode, SP!mode, Daemon!history, SP!history, Daemon!world, SP!world
  <1>1. Daemon!Start => SP!Start
    BY DEF Daemon!Start, SP!Start
  <1>2. Daemon!Stop => SP!Stop
    BY DEF Daemon!Stop, SP!Stop
  <1>3. Daemon!Timeout => SP!Timeout
    BY DEF Daemon!Timeout, SP!Timeout, Daemon!StartTimeout, SP!StartTimeout,
           Daemon!StopTimeout, SP!StopTimeout, Daemon!WatchdogKill, SP!WatchdogKill
  <1>4. Daemon!Crash => SP!Crash
    BY DEF Daemon!Crash, SP!Crash
  <1>5. Daemon!StartSlurmd => SP!StartSlurmd
    BY DEF Daemon!StartSlurmd, SP!StartSlurmd
  <1>6. Daemon!Wedge => SP!Wedge
    BY DEF Daemon!Wedge, SP!Wedge
  <1>7. Daemon!World => SP!World
    BY DEF Daemon!World, SP!World
  <1> QED
    BY <1>1, <1>2, <1>3, <1>4, <1>5, <1>6, <1>7 DEF SP!Next

(* The guard's invariant survives a step of the guard. *)
LEMMA DaemonInv ==
  ASSUME SP!Inv, SP!Next
  PROVE  SP!Inv'
  BY SP!NextInv, NodeAssumption

(* The two instances of Response have the same actions, too. *)
LEMMA SameAnswer == Answer!Next => RP!Next
  <1> USE DEF Answer!steps, RP!steps, Answer!units, RP!units, Answer!kills, RP!kills,
              Answer!Running, RP!Running, Answer!Kind, RP!Kind, Answer!Seen, RP!Seen,
              Answer!Unreadable, RP!Unreadable, Answer!SlurmdKilled, RP!SlurmdKilled
  <1>1. Answer!EmergencyStop => RP!EmergencyStop
    BY DEF Answer!EmergencyStop, RP!EmergencyStop, Answer!ESCondition, RP!ESCondition,
           Answer!KillScope, RP!KillScope, Answer!KillSlurmd, RP!KillSlurmd,
           Answer!StopSlurmd, RP!StopSlurmd
  <1>2. Answer!Drain => RP!Drain
    BY DEF Answer!Drain, RP!Drain, Answer!DrainWaits, RP!DrainWaits,
           Answer!DrainCondition, RP!DrainCondition, Answer!RunDrain, RP!RunDrain
  <1>3. Answer!Around => RP!Around
    BY DEF Answer!Around, RP!Around, Answer!LaunchStep, RP!LaunchStep, Answer!EndStep, RP!EndStep,
           Answer!SlurmdStarts, RP!SlurmdStarts, Answer!NetworkUp, RP!NetworkUp,
           Answer!Resume, RP!Resume
  <1>4. Answer!GuardFails => RP!GuardFails
    BY DEF Answer!GuardFails, RP!GuardFails, Answer!Triggered, RP!Triggered,
           Answer!Failures, RP!Failures, Answer!Mains, RP!Mains
  <1>5. Answer!GuardStarts => RP!GuardStarts
    BY DEF Answer!GuardStarts, RP!GuardStarts, Answer!Settled, RP!Settled
  <1> QED
    BY <1>1, <1>2, <1>3, <1>4, <1>5 DEF Answer!Next, RP!Next

(* Of a guard that has failed, nothing but a start changes what the unit   *)
(* says.                                                                   *)
LEMMA FailedStays ==
  ASSUME SP!Inv, unit = "failed",
         \/ Daemon!Process \/ Daemon!Stop \/ Daemon!Timeout \/ Daemon!Crash
         \/ Daemon!Wedge \/ Daemon!World
  PROVE  unit' = "failed" /\ main' = main
  <1>1. proc = "none"
    BY DEF SP!Inv, SP!TypeOK
  <1>2. ~ Daemon!Process
    BY <1>1 DEF Daemon!Process, Daemon!Steps, Daemon!Stops, Daemon!PrintAndExit,
                Daemon!RejectFlags, Daemon!AcceptFlags, Daemon!ListSensors, Daemon!CheckOnce,
                Daemon!Arm, Daemon!StatDisable, Daemon!NotifyContext, Daemon!AnnounceSuspended,
                Daemon!SuspendedTick, Daemon!Rearm, Daemon!Ready, Daemon!Check, Daemon!Trip,
                Daemon!SelectTick, Daemon!SuspendedStop, Daemon!SelectStop
  <1>3. ~ Daemon!Stop /\ ~ Daemon!Timeout /\ ~ Daemon!Crash
    BY <1>1 DEF Daemon!Stop, Daemon!Timeout, Daemon!StartTimeout, Daemon!StopTimeout,
                Daemon!WatchdogKill, Daemon!Crash
  <1> QED
    BY <1>2, <1>3 DEF Daemon!Wedge, Daemon!World

(* A step of the guard that is not a start maps to GuardFails or to none.  *)
LEMMA DaemonStepsAnswer ==
  ASSUME Inv, DaemonSteps
  PROVE  SP!Inv' /\ (Answer!Next \/ UNCHANGED Answer!rvars)
  <1>1. /\ \/ Daemon!Process \/ Daemon!Stop \/ Daemon!Timeout \/ Daemon!Crash
           \/ Daemon!Wedge \/ Daemon!World
        /\ OnFailure /\ UNCHANGED others
    BY DEF DaemonSteps, Joined
  <1>2. SP!Inv'
    BY <1>1, DaemonInv, SameProcess, SameSystemd DEF Inv
  <1>3. CASE unit # "failed" /\ unit' = "failed"
    <2>1. main' \in Answer!Failures
      BY <1>2, <1>3 DEF SP!Inv, SP!Ending, SP!Exited, SP!Killed, SP!SIGKILL, SP!SIGTERM,
                        Answer!Failures, Answer!Mains, Answer!Running
    <2> QED
      BY <1>1, <1>2, <1>3, <2>1
      DEF OnFailure, others, Answer!Next, Answer!GuardFails, Answer!Running, Daemon!Running,
          Answer!steps, Answer!kills
  <1>4. CASE ~ (unit # "failed" /\ unit' = "failed")
    <2>1. UNCHANGED seen
      BY <1>1, <1>4, FailedStays DEF seen, Inv
    <2> QED
      BY <1>1, <1>2, <1>4, <2>1
      DEF OnFailure, units, others, seen, Answer!rvars, Answer!units, Answer!steps, Answer!kills
  <1> QED
    BY <1>2, <1>3, <1>4

(* A start maps to GuardStarts, or to none when the unit had not failed.   *)
LEMMA DaemonStartsAnswer ==
  ASSUME Inv, DaemonStarts
  PROVE  SP!Inv' /\ (Answer!Next \/ UNCHANGED Answer!rvars)
  <1>1. SP!Inv'
    BY DaemonInv, SameSystemd DEF Inv, DaemonStarts
  <1>2. unit' = "activating" /\ UNCHANGED answer
    BY DEF DaemonStarts, Daemon!Start
  <1>3. CASE unit = "failed"
    <2>1. main # Daemon!Running
      BY <1>3 DEF Inv, SP!Inv, SP!Ending, SP!TypeOK, Daemon!Running, SP!Running
    <2> QED
      BY <1>1, <1>2, <1>3, <2>1
      DEF DaemonStarts, answer, units, others, Answer!Next, Answer!GuardStarts, Answer!Running,
          Daemon!Running, Answer!units, Answer!steps, Answer!kills
  <1>4. CASE unit # "failed"
    BY <1>1, <1>2, <1>4 DEF answer, units, others, Answer!rvars, Answer!units, Answer!steps, Answer!kills
  <1> QED
    BY <1>3, <1>4

(* The start of slurmd that boot asked for finds it down, about to be      *)
(* restarted, or up already; no emergency stop has ended before it.        *)
LEMMA BootSlurmdAnswer ==
  ASSUME Inv, BootSlurmd
  PROVE  SP!Inv' /\ (Answer!Next \/ UNCHANGED Answer!rvars)
  <1>1. SP!Inv'
    BY DaemonInv, SameSystemd DEF Inv, BootSlurmd
  <1>2. /\ UNCHANGED <<main, unit, units, online, scontrol, scope, inside, drained, missed, late, halted>>
        /\ bootJob /\ slurmd' = "up"
    BY DEF BootSlurmd, Daemon!StartSlurmd
  <1>3. halted = FALSE /\ slurmd \in {"up", "down", "respawn"}
    BY <1>2 DEF Inv, BootJobGone, RP!Inv, RP!TypeOK
  <1>4. CASE slurmd = "up"
    BY <1>1, <1>2, <1>4 DEF units, Answer!rvars, Answer!units, Answer!steps, Answer!kills
  <1>5. CASE slurmd \in {"down", "respawn"}
    BY <1>1, <1>2, <1>3, <1>5 DEF units, Answer!Next, Answer!Around, Answer!SlurmdStarts,
                                  Answer!units, Answer!steps, Answer!kills
  <1> QED
    BY <1>3, <1>4, <1>5

(* The stop that clears the boot job leaves the guard's invariant alone.   *)
LEMMA StopSlurmdDaemon ==
  ASSUME Inv, StopSlurmd
  PROVE  SP!Inv'
  <1>1. /\ UNCHANGED <<disable, armable, heat, stuck, proc, armErr, cancelled, verdict, outcome,
                       streak, oneShot, mute, main, unit, ended, began, asked, calm>>
        /\ bootJob' \in BOOLEAN
    BY DEF StopSlurmd, Inv, SP!Inv, SP!TypeOK
  <1>2. SP!TypeOK'
    BY <1>1 DEF Inv, SP!Inv, SP!TypeOK, SP!Policy!Outcomes
  <1>3. SP!Begun' /\ SP!Reason' /\ SP!Ending' /\ SP!Watchful' /\ SP!Mode' /\ SP!Calm' /\ SP!Asked'
    BY <1>1 DEF Inv, SP!Inv, SP!Begun, SP!Reason, SP!Ending, SP!Watchful, SP!Mode, SP!Calm, SP!Asked, SP!Handled
  <1> QED
    BY <1>2, <1>3 DEF SP!Inv

(* Every step of the node is one of Response, or leaves its state alone,   *)
(* and preserves the guard's invariant.                                    *)
LEMMA StepAnswer ==
  ASSUME Inv, [Next]_vars
  PROVE  SP!Inv' /\ [Answer!Next]_(Answer!rvars)
  <1>1. ASSUME UNCHANGED service PROVE SP!Inv'
    BY <1>1, SP!NextInv, NodeAssumption DEF Inv, service, SP!vars, SP!world, SP!pass, SP!mode, SP!history
  <1>2. CASE StopSlurmd
    BY <1>2, StopSlurmdDaemon DEF StopSlurmd, Answer!Next, Answer!EmergencyStop
  <1>3. CASE Commands /\ ~ StopSlurmd
    BY <1>1, <1>3 DEF Commands, Answer!Next, Answer!EmergencyStop
  <1>4. CASE SlurmdStarts
    BY <1>1, <1>4 DEF SlurmdStarts, Answer!Next, Answer!Around
  <1>5. CASE Around
    BY <1>1, <1>5 DEF Around, Answer!Next, Answer!Around
  <1>6. CASE UNCHANGED vars
    BY <1>1, <1>6 DEF vars, service, answer, units, others, Answer!rvars, Answer!units, Answer!steps, Answer!kills
  <1> QED
    BY <1>2, <1>3, <1>4, <1>5, <1>6, DaemonStepsAnswer, DaemonStartsAnswer, BootSlurmdAnswer
       DEF Next

(* The responses' invariant survives a step of the responses. *)
LEMMA AnswerInv ==
  ASSUME RP!Inv, [Answer!Next]_(Answer!rvars)
  PROVE  RP!Inv'
  <1>1. CASE Answer!Next
    BY <1>1, SameAnswer, RP!NextInv, NodeAssumption
  <1>2. CASE UNCHANGED Answer!rvars
    BY <1>2, RP!NextInv, NodeAssumption
    DEF Answer!rvars, RP!rvars, Answer!units, RP!units, Answer!steps, RP!steps, Answer!kills, RP!kills
  <1> QED
    BY <1>1, <1>2

(* The actions of Service, starts of slurmd apart, leave the boot job.     *)
LEMMA BootJobKept ==
  ASSUME \/ Daemon!Process \/ Daemon!Start \/ Daemon!Stop \/ Daemon!Timeout \/ Daemon!Crash
         \/ Daemon!Wedge \/ Daemon!World
  PROVE  bootJob' = bootJob
  BY DEF Daemon!Process, Daemon!Start, Daemon!Stop, Daemon!Timeout, Daemon!StartTimeout,
         Daemon!StopTimeout, Daemon!WatchdogKill, Daemon!Crash, Daemon!Dies, Daemon!Wedge,
         Daemon!World

(* A stop of slurmd takes the boot job out of the queue, and nothing puts  *)
(* one in.                                                                 *)
LEMMA BootJobStep ==
  ASSUME Inv, [Next]_vars
  PROVE  BootJobGone'
  <1> USE DEF Inv, BootJobGone
  <1>1. CASE DaemonSteps \/ DaemonStarts
    BY <1>1, BootJobKept DEF DaemonSteps, Joined, DaemonStarts, answer, others
  <1>2. CASE BootSlurmd
    BY <1>2 DEF BootSlurmd, Daemon!StartSlurmd
  <1>3. CASE SlurmdStarts
    BY <1>3 DEF SlurmdStarts, service, Answer!SlurmdStarts
  <1>4. CASE StopSlurmd
    BY <1>4 DEF StopSlurmd, Answer!StopSlurmd
  <1>5. CASE Commands /\ ~ StopSlurmd
    BY <1>5 DEF Commands, service, Answer!ESCondition, Answer!KillScope, Answer!KillSlurmd,
                Answer!Drain, Answer!DrainWaits, Answer!DrainCondition, Answer!RunDrain
  <1>6. CASE Around
    BY <1>6 DEF Around, service, Answer!LaunchStep, Answer!EndStep, Answer!NetworkUp, Answer!Resume
  <1>7. CASE UNCHANGED vars
    BY <1>7 DEF vars, service, answer, others
  <1> QED
    BY <1>1, <1>2, <1>3, <1>4, <1>5, <1>6, <1>7 DEF Next

LEMMA InitInv == Init => Inv
  <1> SUFFICES ASSUME Init PROVE Inv
    OBVIOUS
  <1>1. SP!Init
    BY DEF Init, Daemon!Init, SP!Init, Daemon!Heats, SP!Heats, Daemon!Running, SP!Running,
           Daemon!Exited, SP!Exited
  <1>2. RP!Init
    BY DEF Init, Answer!Init, RP!Init, Answer!Running, RP!Running
  <1>3. SP!Inv /\ RP!Inv
    BY <1>1, <1>2, SP!InitInv, RP!InitInv, NodeAssumption
  <1>4. BootJobGone
    BY DEF Init, Answer!Init, BootJobGone
  <1> QED
    BY <1>3, <1>4 DEF Inv

(* Every step preserves the invariant. *)
LEMMA NextInv == Inv /\ [Next]_vars => Inv'
  <1> SUFFICES ASSUME Inv, [Next]_vars PROVE Inv'
    OBVIOUS
  <1>1. SP!Inv' /\ RP!Inv'
    BY StepAnswer, AnswerInv DEF Inv
  <1> QED
    BY <1>1, BootJobStep DEF Inv

LEMMA Invariance == Spec => []Inv
  <1> QED
    BY InitInv, NextInv, PTL DEF Spec

-----------------------------------------------------------------------------
(* The node implements Response, hasty operators or not: its guard fails   *)
(* only in ways Response answers, and slurmd's boot job, which may still   *)
(* wait when the guard trips, is an ordinary start of slurmd.              *)
THEOREM Refinement == Spec => AnswerSpec
  <1>1. Init => Answer!Init
    BY DEF Init
  <1>2. Inv /\ [Next]_vars => [Answer!Next]_(Answer!rvars)
    BY StepAnswer
  <1> QED
    BY <1>1, <1>2, Invariance, PTL DEF Spec, AnswerSpec, Answer!Spec

(* Exactly one response acts on a failure, or none where the drain would   *)
(* be the one and SLURM is not installed, and it is the right one, if      *)
(* systemd passes MONITOR_* and nobody starts the guard again while a      *)
(* response is pending.                                                    *)
THEOREM RightOneActs ==
  ASSUME ~ Hasty, MonitorEnv
  PROVE  Spec => []RightResponse
  <1>1. Inv => RightResponse
    <2> SUFFICES ASSUME Inv, Answer!Settled, unit = "failed"
                 PROVE  /\ acted \in {{"stop"}, Gentle}
                        /\ ended = "returned" /\ ~ oneShot /\ ~ mute =>
                             acted = IF began THEN {"stop"} ELSE Gentle
      BY DEF RightResponse
    <2>1. main # Daemon!Running
      BY DEF Inv, SP!Inv, SP!Ending, SP!TypeOK, Daemon!Running, SP!Running
    <2>2. acted = IF RP!ExitedUnarmed(main) THEN Gentle ELSE {"stop"}
      BY <2>1 DEF Inv, RP!Inv, RP!Answered, RP!Running, Daemon!Running, Answer!Settled, Gentle
    <2>3. ended = "returned" /\ ~ oneShot /\ ~ mute => main # SP!Exited(0)
      BY DEF Inv, SP!Inv, SP!Watchful
    <2>4. ended = "returned" /\ ~ oneShot /\ ~ mute => (RP!ExitedUnarmed(main) <=> ~ began)
      BY <2>3 DEF Inv, SP!Inv, SP!Ending, SP!Reason, RP!ExitedUnarmed, SP!Exited, SP!Killed
    <2> QED
      BY <2>2, <2>4
  <1> QED
    BY <1>1, Invariance, PTL

(* With MONITOR_* and without hasty operators, job steps are killed only   *)
(* for a guard that was watching, that something killed, or that could not *)
(* watch or not say so.                                                    *)
THEOREM JobsAreSpared ==
  ASSUME ~ Hasty, MonitorEnv
  PROVE  Spec => []JobsDieForAReason
  <1>1. Inv => JobsDieForAReason
    <2> SUFFICES ASSUME Inv, es \in {"kill_scope", "kill_slurmd", "stop"},
                        main.code # "killed", ~ oneShot, ~ mute
                 PROVE  began
      BY DEF JobsDieForAReason
    <2>1. RP!Patience /\ RP!Spared
      BY DEF Inv, RP!Inv
    <2>2. unit = "failed" /\ esCause = main
      BY <2>1 DEF RP!Patience, RP!Settled, RP!Running, RP!Down, Daemon!Running
    <2>3. ~ (main.code = "exited" /\ main.status = 2)
      BY <2>1, <2>2 DEF RP!Spared, RP!ExitedUnarmed
    <2>4. main \in {SP!Exited(0), SP!Exited(1)}
      BY <2>2, <2>3 DEF Inv, SP!Inv, SP!Ending, SP!Exited, SP!Killed
    <2>5. main # SP!Exited(0)
      BY <2>2, <2>4 DEF Inv, SP!Inv, SP!Watchful
    <2> QED
      BY <2>4, <2>5 DEF Inv, SP!Inv, SP!Ending, SP!Reason
  <1> QED
    BY <1>1, Invariance, PTL

(* Without hasty operators, a guard started with the disable file in place *)
(* triggers no response.                                                   *)
THEOREM DisabledIsLeftAlone ==
  ASSUME ~ Hasty
  PROVE  Spec => []DisabledNodeLeftAlone
  <1>1. Inv => DisabledNodeLeftAlone
    BY DEF Inv, SP!Inv, SP!Calm, RP!Inv, RP!Patience, RP!Running, Daemon!Running, RP!Settled,
           Answer!Settled, DisabledNodeLeftAlone
  <1> QED
    BY <1>1, Invariance, PTL
=============================================================================
