---------------------------- MODULE ServiceProofs ----------------------------
(***************************************************************************)
(* Proofs about the guard's process and its unit, for every retry budget,  *)
(* with and without crashes.                                               *)
(***************************************************************************)
EXTENDS Service, TLAPS

(* The check loop begins at Ready, and only a process that is in it, or    *)
(* was in it when it ended, has begun.                                     *)
Begun ==
  /\ proc \in {"check", "select", "trip"} => began
  /\ began => proc \in {"check", "select", "trip", "none"}
  /\ verdict = "trip" => proc \in {"trip", "none"}
  /\ proc = "trip" => verdict = "trip"

(* A trip has a reason, and a pass past the budget is a trip. *)
Reason ==
  /\ verdict = "trip" => began /\ (outcome = "hot" \/ (outcome = "failed" /\ streak > ReadRetries))
  /\ streak > ReadRetries => verdict = "trip"

(* How the last process ended. *)
Ending ==
  /\ proc # "none" <=> main = Running
  /\ proc # "none" <=> ended = "not"
  /\ main = Exited(1) /\ ~ oneShot => verdict = "trip"
  /\ main = Exited(2) /\ ended = "returned" => ~ began
  /\ unit = "failed" => main \in {Exited(0), Exited(1), Exited(2), Killed(SIGKILL), Killed(SIGTERM)}
  /\ unit = "failed" /\ main \in {Killed(SIGKILL), Killed(SIGTERM)} => ended = "died"

(* A process without a handler has no context to cancel; one with a        *)
(* handler runs no one-shot.                                               *)
Mode ==
  /\ Handled => ~ oneShot
  /\ proc = "list" => oneShot
  /\ mute /\ proc # "none" => Handled
  /\ cancelled /\ proc # "none" => Handled /\ unit \in {"stopping", "failing"}
  /\ unit = "failing" => mute
  /\ unit \in {"stopping", "failing"} => cancelled
  /\ unit = "activating" /\ Handled => mute \/ proc \in {"announce", "ready"}
  /\ stuck /\ Handled => proc \in {"rearm", "check"}

(* A calm start: the file is there, and neither a one-shot, nor a silent   *)
(* socket, nor a stuck call, nor a re-arming, nor a trip stands between    *)
(* the process and a clean end.                                            *)
Calm ==
  calm => /\ disable /\ ~ stuck /\ ~ oneShot /\ ~ mute
          /\ proc # "rearm" /\ verdict # "trip" /\ unit # "failed"

(* A process that was asked to stop and still lives has its handler, and   *)
(* its context is done.                                                    *)
Asked ==
  /\ asked /\ proc # "none" => unit = "stopping"
  /\ asked /\ unit = "failed" => ended = "died" \/ (main = Exited(1) /\ ~ oneShot)

(* An exit of 0 fails the unit only before READY=1. *)
Watchful == unit = "failed" /\ main = Exited(0) => oneShot \/ mute

Inv == TypeOK /\ Begun /\ Reason /\ Ending /\ Watchful /\ Mode /\ Calm /\ Asked

USE ServiceAssumption

-----------------------------------------------------------------------------
(* The ends of a process are different records. *)
LEMMA Ends ==
  /\ Running # Exited(0) /\ Running # Exited(1) /\ Running # Exited(2)
  /\ Running # Killed(SIGKILL) /\ Running # Killed(SIGTERM)
  /\ Exited(0) # Exited(1) /\ Exited(0) # Exited(2) /\ Exited(1) # Exited(2)
  /\ \A c \in {0, 1, 2} : Exited(c) # Killed(SIGKILL) /\ Exited(c) # Killed(SIGTERM)
  BY DEF Running, Exited, Killed, SIGKILL, SIGTERM

(* The four verdicts, one per outcome. *)
LEMMA Verdicts ==
  ASSUME NEW n
  PROVE  /\ Policy!VerdictOn("disabled", n) = "disabled"
         /\ Policy!VerdictOn("good", n) = "ok"
         /\ Policy!VerdictOn("hot", n) = "trip"
         /\ Policy!VerdictOn("failed", n) = IF n <= ReadRetries THEN "tolerated" ELSE "trip"
  BY Zenon DEF Policy!VerdictOn

(* What a pass leaves behind. *)
LEMMA PassStep ==
  ASSUME TypeOK, Reason, NEW o \in Policy!Outcomes, Policy!Pass(o)
  PROVE  /\ verdict # "trip"
         /\ outcome' = o
         /\ verdict' \in {"ok", "disabled", "tolerated", "trip"}
         /\ streak' \in 0..(ReadRetries + 1)
         /\ streak' > ReadRetries => verdict' = "trip"
         /\ verdict' = "trip" => o = "hot" \/ (o = "failed" /\ streak' > ReadRetries)
  <1>1. verdict # "trip" /\ outcome' = o /\ verdict' = Policy!VerdictOn(o, streak')
    BY DEF Policy!Pass
  <1>2. streak' = IF o = "failed" THEN streak + 1 ELSE 0
    BY DEF Policy!Pass
  <1>3. streak \in 0..ReadRetries
    BY <1>1 DEF TypeOK, Reason
  <1>4. o \in {"disabled", "good", "hot", "failed"}
    BY DEF Policy!Outcomes
  <1>5. streak' \in 0..(ReadRetries + 1) /\ (o # "failed" => streak' <= ReadRetries)
    BY <1>2, <1>3
  <1>6. verdict' = IF o = "disabled" THEN "disabled" ELSE IF o = "good" THEN "ok"
                   ELSE IF o = "hot" THEN "trip"
                   ELSE IF streak' <= ReadRetries THEN "tolerated" ELSE "trip"
    BY <1>1, <1>4, Verdicts
  <1> QED
    BY <1>1, <1>4, <1>5, <1>6

LEMMA InitInv == Init => Inv
  <1> SUFFICES ASSUME Init PROVE Inv
    OBVIOUS
  <1>1. TypeOK
    <2>1. /\ stuck \in BOOLEAN /\ armErr \in BOOLEAN /\ cancelled \in BOOLEAN
          /\ oneShot \in BOOLEAN /\ mute \in BOOLEAN
          /\ bootJob \in BOOLEAN /\ began \in BOOLEAN /\ asked \in BOOLEAN /\ calm \in BOOLEAN
      BY DEF Init
    <2>2. proc \in Procs /\ unit \in Units /\ (proc = "none" <=> unit \in {"inactive", "failed"})
      BY DEF Init, Procs, Units
    <2>3. streak \in 0..(ReadRetries + 1)
      BY DEF Init
    <2> QED
      BY <2>1, <2>2, <2>3 DEF Init, TypeOK, Mains
  <1>2. Begun /\ Reason /\ Mode /\ Calm /\ Asked
    BY DEF Init, Begun, Reason, Mode, Handled, Calm, Asked
  <1>3. Ending /\ Watchful
    BY Ends DEF Init, Ending, Watchful
  <1> QED
    BY <1>1, <1>2, <1>3 DEF Inv

(* The steps before and around the check loop, without its passes. *)
LEMMA StepsInv ==
  ASSUME Inv, ~ stuck, UNCHANGED <<world, stuck, bootJob>>,
         (Steps /\ ~ Check) \/ Stops
  PROVE  Inv'
  <1> USE Ends DEF world, pass, mode, history, Goto, Exit, Inv
  <1>1. CASE PrintAndExit \/ RejectFlags
    <2>1. TypeOK'
      <3>1. oneShot' \in BOOLEAN /\ calm' \in BOOLEAN
        BY <1>1 DEF PrintAndExit, RejectFlags, TypeOK
      <3> QED
        BY <1>1, <3>1 DEF PrintAndExit, RejectFlags, TypeOK, Procs, Mains, Units
    <2>2. Begun' /\ Reason' /\ Ending' /\ Watchful' /\ Mode' /\ Calm' /\ Asked'
      BY <1>1 DEF PrintAndExit, RejectFlags, TypeOK, Begun, Reason, Ending, Watchful, Mode, Calm, Asked, Handled
    <2> QED
      BY <2>1, <2>2
  <1>2. CASE AcceptFlags
    <2>1. TypeOK'
      <3>1. oneShot' \in BOOLEAN /\ calm' \in BOOLEAN
        BY <1>2 DEF AcceptFlags, TypeOK
      <3> QED
        BY <1>2, <3>1 DEF AcceptFlags, TypeOK, Procs
    <2>2. Begun' /\ Reason' /\ Ending' /\ Watchful' /\ Mode' /\ Calm' /\ Asked'
      BY <1>2 DEF AcceptFlags, TypeOK, Begun, Reason, Ending, Watchful, Mode, Calm, Asked, Handled
    <2> QED
      BY <2>1, <2>2
  <1>3. CASE Arm
    <2>1. TypeOK'
      BY <1>3 DEF Arm, TypeOK, Procs
    <2>2. Begun' /\ Reason' /\ Ending' /\ Watchful' /\ Mode' /\ Calm' /\ Asked'
      BY <1>3 DEF Arm, TypeOK, Begun, Reason, Ending, Watchful, Mode, Calm, Asked, Handled
    <2> QED
      BY <2>1, <2>2
  <1>4. CASE StatDisable
    <2>1. TypeOK'
      BY <1>4 DEF StatDisable, TypeOK, Procs, Mains, Units
    <2>2. Begun' /\ Reason' /\ Ending' /\ Watchful' /\ Mode' /\ Calm' /\ Asked'
      BY <1>4 DEF StatDisable, TypeOK, Begun, Reason, Ending, Watchful, Mode, Calm, Asked, Handled
    <2> QED
      BY <2>1, <2>2
  <1>5. CASE NotifyContext
    <2>1. TypeOK'
      <3>1. mute' \in BOOLEAN /\ calm' \in BOOLEAN
        BY <1>5 DEF NotifyContext, New, TypeOK
      <3> QED
        BY <1>5, <3>1 DEF NotifyContext, New, TypeOK, Procs
    <2>2. Begun' /\ Reason' /\ Ending' /\ Watchful' /\ Mode' /\ Calm' /\ Asked'
      BY <1>5 DEF NotifyContext, New, TypeOK, Begun, Reason, Ending, Watchful, Mode, Calm, Asked, Handled
    <2> QED
      BY <2>1, <2>2
  <1>6. CASE AnnounceSuspended
    <2>1. TypeOK'
      BY <1>6 DEF AnnounceSuspended, ReadyThenGoto, TypeOK, Procs, Units
    <2>2. Begun' /\ Reason' /\ Ending' /\ Watchful' /\ Mode' /\ Calm' /\ Asked'
      BY <1>6 DEF AnnounceSuspended, ReadyThenGoto, TypeOK, Begun, Reason, Ending, Watchful, Mode, Calm, Asked,
                  Handled
    <2> QED
      BY <2>1, <2>2
  <1>7. CASE SuspendedTick
    <2>1. TypeOK'
      BY <1>7 DEF SuspendedTick, TypeOK, Procs
    <2>2. Begun' /\ Reason' /\ Ending' /\ Watchful' /\ Mode' /\ Calm' /\ Asked'
      BY <1>7 DEF SuspendedTick, TypeOK, Begun, Reason, Ending, Watchful, Mode, Calm, Asked, Handled
    <2> QED
      BY <2>1, <2>2
  <1>8. CASE Rearm
    <2>1. TypeOK'
      BY <1>8 DEF Rearm, TypeOK, Procs, Mains, Units
    <2>2. Begun' /\ Reason' /\ Ending' /\ Watchful' /\ Mode' /\ Calm' /\ Asked'
      BY <1>8 DEF Rearm, TypeOK, Begun, Reason, Ending, Watchful, Mode, Calm, Asked, Handled
    <2> QED
      BY <2>1, <2>2
  <1>9. CASE Ready
    <2>1. TypeOK'
      BY <1>9 DEF Ready, ReadyThenGoto, TypeOK, Procs, Units
    <2>2. Begun' /\ Reason' /\ Ending' /\ Watchful' /\ Mode' /\ Calm' /\ Asked'
      BY <1>9 DEF Ready, ReadyThenGoto, TypeOK, Begun, Reason, Ending, Watchful, Mode, Calm, Asked, Handled
    <2> QED
      BY <2>1, <2>2
  <1>10. CASE Trip
    <2>1. TypeOK'
      BY <1>10 DEF Trip, TypeOK, Procs, Mains, Units
    <2>2. Begun' /\ Reason' /\ Ending' /\ Watchful' /\ Mode' /\ Calm' /\ Asked'
      BY <1>10 DEF Trip, TypeOK, Begun, Reason, Ending, Watchful, Mode, Calm, Asked, Handled
    <2> QED
      BY <2>1, <2>2
  <1>11. CASE SelectTick
    <2>1. TypeOK'
      BY <1>11 DEF SelectTick, TypeOK, Procs
    <2>2. Begun' /\ Reason' /\ Ending' /\ Watchful' /\ Mode' /\ Calm' /\ Asked'
      BY <1>11 DEF SelectTick, TypeOK, Begun, Reason, Ending, Watchful, Mode, Calm, Asked, Handled
    <2> QED
      BY <2>1, <2>2
  <1>12. CASE SuspendedStop \/ SelectStop
    <2>1. TypeOK'
      BY <1>12 DEF SuspendedStop, SelectStop, TypeOK, Procs, Mains, Units
    <2>2. Begun' /\ Reason' /\ Ending' /\ Watchful' /\ Mode' /\ Calm' /\ Asked'
      BY <1>12 DEF SuspendedStop, SelectStop, TypeOK, Begun, Reason, Ending, Watchful, Mode, Calm, Asked, Handled
    <2> QED
      BY <2>1, <2>2
  <1>13. CASE ListSensors \/ CheckOnce
    <2>1. TypeOK'
      BY <1>13 DEF ListSensors, CheckOnce, TypeOK, Procs, Mains, Units
    <2>2. Begun' /\ Reason' /\ Ending' /\ Watchful' /\ Mode' /\ Calm' /\ Asked'
      BY <1>13 DEF ListSensors, CheckOnce, TypeOK, Begun, Reason, Ending, Watchful, Mode, Calm, Asked, Handled
    <2> QED
      BY <2>1, <2>2
  <1> QED
    BY <1>1, <1>2, <1>3, <1>4, <1>5, <1>6, <1>7, <1>8, <1>9, <1>10, <1>11, <1>12, <1>13
       DEF Steps, Stops

(* One pass of the loop. *)
LEMMA CheckInv ==
  ASSUME Inv, ~ stuck, UNCHANGED <<world, stuck, bootJob>>, Check
  PROVE  Inv'
  <1> DEFINE o == IF disable THEN "disabled" ELSE heat
  <1>1. o \in Policy!Outcomes /\ (disable => o = "disabled")
    BY DEF Inv, TypeOK, Heats, Policy!Outcomes
  <1>2. /\ proc = "check" /\ Policy!Pass(o)
        /\ proc' = (IF verdict' = "trip" THEN "trip" ELSE "select")
        /\ UNCHANGED <<main, unit, ended, armErr, cancelled, oneShot, mute, began, asked, calm>>
        /\ UNCHANGED <<disable, armable, heat, stuck, bootJob>>
    BY DEF Check, Goto, mode, history, world
  <1> HIDE DEF o
  <1>3. /\ outcome' = o
        /\ verdict' \in {"ok", "disabled", "tolerated", "trip"}
        /\ streak' \in 0..(ReadRetries + 1)
        /\ streak' > ReadRetries => verdict' = "trip"
        /\ verdict' = "trip" => o = "hot" \/ (o = "failed" /\ streak' > ReadRetries)
    BY <1>1, <1>2, PassStep DEF Inv
  <1>4. TypeOK'
    BY <1>1, <1>2, <1>3 DEF Inv, TypeOK, Procs
  <1>5. Begun' /\ Reason'
    BY <1>2, <1>3 DEF Inv, Begun, Reason
  <1>6. Ending' /\ Watchful'
    BY <1>2, Ends DEF Inv, Ending, Watchful
  <1>7. Mode' /\ Calm' /\ Asked'
    BY <1>1, <1>2, <1>3 DEF Inv, Mode, Calm, Asked, Handled
  <1> QED
    BY <1>4, <1>5, <1>6, <1>7 DEF Inv

(* systemd starts, stops, times out and kills. *)
LEMMA SystemdInv ==
  ASSUME Inv, Start \/ Stop \/ Timeout \/ Crash \/ StartSlurmd
  PROVE  Inv'
  <1> USE Ends DEF world, pass, mode, history, Inv
  <1>1. CASE Start
    <2>1. TypeOK'
      <3>1. /\ stuck' \in BOOLEAN /\ armErr' \in BOOLEAN /\ cancelled' \in BOOLEAN
            /\ oneShot' \in BOOLEAN /\ mute' \in BOOLEAN
            /\ began' \in BOOLEAN /\ asked' \in BOOLEAN /\ calm' \in BOOLEAN
        BY <1>1 DEF Start, TypeOK
      <3>2. /\ proc' \in Procs /\ unit' \in Units /\ main' \in Mains
            /\ proc' = "none" <=> unit' \in {"inactive", "failed"}
            /\ streak' \in 0..(ReadRetries + 1)
        BY <1>1 DEF Start, Procs, Units, Mains
      <3> QED
        BY <1>1, <3>1, <3>2 DEF Start, TypeOK
    <2>2. Begun' /\ Reason' /\ Ending' /\ Watchful' /\ Mode' /\ Calm' /\ Asked'
      BY <1>1 DEF Start, TypeOK, Begun, Reason, Ending, Watchful, Mode, Calm, Asked, Handled
    <2> QED
      BY <2>1, <2>2
  <1>2. CASE Stop
    <2>1. TypeOK'
      <3>1. stuck' \in BOOLEAN /\ cancelled' \in BOOLEAN /\ asked' \in BOOLEAN
        BY <1>2 DEF Stop, Dies, TypeOK
      <3>2. /\ proc' \in Procs /\ unit' \in Units /\ main' \in Mains
            /\ proc' = "none" <=> unit' \in {"inactive", "failed"}
            /\ ended' \in {"not", "returned", "died"}
        BY <1>2 DEF Stop, Dies, Handled, TypeOK, Procs, Units, Mains
      <3> QED
        BY <1>2, <3>1, <3>2 DEF Stop, Dies, TypeOK
    <2>2. Begun' /\ Reason' /\ Ending' /\ Watchful' /\ Mode'
      BY <1>2 DEF Stop, Dies, Handled, TypeOK, Begun, Reason, Ending, Watchful, Mode
    <2>3. Calm' /\ Asked'
      BY <1>2 DEF Stop, Dies, Handled, TypeOK, Calm, Asked
    <2> QED
      BY <2>1, <2>2, <2>3
  <1>3. CASE (Timeout /\ ~ (StartTimeout /\ Handled)) \/ Crash
    <2>1. PICK m \in {Exited(2), Killed(SIGKILL), Killed(SIGTERM)} : Dies(m, "failed")
      BY <1>3 DEF Timeout, StartTimeout, StopTimeout, WatchdogKill, Aborted, Crash
    <2>2. asked' = asked /\ ~ calm'
      BY <1>3 DEF Timeout, StartTimeout, StopTimeout, WatchdogKill, Crash, Calm
    <2>3. proc # "none"
      BY <1>3 DEF Timeout, StartTimeout, StopTimeout, WatchdogKill, Crash, TypeOK, Units
    <2>4. TypeOK'
      <3>1. stuck' \in BOOLEAN /\ asked' \in BOOLEAN
        BY <2>1, <2>2 DEF Dies, TypeOK
      <3>2. calm' \in BOOLEAN
        BY <1>3 DEF Timeout, StartTimeout, StopTimeout, WatchdogKill, Crash, TypeOK
      <3>3. /\ proc' \in Procs /\ unit' \in Units /\ main' \in Mains
            /\ proc' = "none" <=> unit' \in {"inactive", "failed"}
            /\ ended' \in {"not", "returned", "died"}
        BY <2>1 DEF Dies, Procs, Units, Mains
      <3> QED
        BY <2>1, <3>1, <3>2, <3>3 DEF Dies, TypeOK
    <2>5. Begun' /\ Reason' /\ Ending' /\ Watchful' /\ Mode'
      BY <2>1, <2>3 DEF Dies, TypeOK, Begun, Reason, Ending, Watchful, Mode, Handled
    <2>6. Calm' /\ Asked'
      BY <2>1, <2>2 DEF Dies, TypeOK, Calm, Asked
    <2> QED
      BY <2>4, <2>5, <2>6
  <1>5. CASE StartTimeout /\ Handled
    <2>1. /\ unit = "activating" /\ unit' = "failing" /\ cancelled' = TRUE /\ (stuck \/ mute)
          /\ UNCHANGED <<disable, armable, heat, stuck, proc, armErr, verdict, outcome, streak,
                         oneShot, mute, main, bootJob, ended, began, asked, calm>>
      BY <1>5 DEF StartTimeout, Dies
    <2>2. TypeOK'
      <3>1. cancelled' \in BOOLEAN
        BY <2>1
      <3> QED
        BY <2>1, <3>1 DEF TypeOK, Units
    <2>3. Begun' /\ Reason' /\ Ending' /\ Watchful'
      BY <2>1 DEF Begun, Reason, Ending, Watchful
    <2>4. Mode' /\ Calm' /\ Asked'
      BY <1>5, <2>1 DEF Mode, Calm, Asked, Handled, TypeOK
    <2> QED
      BY <2>2, <2>3, <2>4
  <1>4. CASE StartSlurmd
    <2>1. TypeOK'
      <3>1. bootJob' \in BOOLEAN
        BY <1>4 DEF StartSlurmd
      <3> QED
        BY <1>4, <3>1 DEF StartSlurmd, TypeOK
    <2>2. Begun' /\ Reason' /\ Ending' /\ Watchful' /\ Mode' /\ Calm' /\ Asked'
      BY <1>4 DEF StartSlurmd, Begun, Reason, Ending, Watchful, Mode, Calm, Asked, Handled
    <2> QED
      BY <2>1, <2>2
  <1> QED
    BY <1>1, <1>2, <1>3, <1>4, <1>5

(* The node changes, or a system call gets stuck. *)
LEMMA WorldInv ==
  ASSUME Inv, Wedge \/ World
  PROVE  Inv'
  <1> USE DEF world, pass, mode, history, Inv
  <1>1. TypeOK'
    <2>1. stuck' \in BOOLEAN /\ calm' \in BOOLEAN
      BY DEF Wedge, World, TypeOK
    <2>2. disable' \in BOOLEAN /\ armable' \in BOOLEAN /\ heat' \in Heats
      BY DEF Wedge, World, TypeOK
    <2> QED
      BY <2>1, <2>2 DEF Wedge, World, TypeOK
  <1>2. Begun' /\ Reason' /\ Ending' /\ Watchful' /\ Mode' /\ Asked'
    BY DEF Wedge, World, Begun, Reason, Ending, Watchful, Mode, Asked, Handled
  <1>3. Calm'
    BY DEF Wedge, World, TypeOK, Calm
  <1> QED
    BY <1>1, <1>2, <1>3

(* Every step preserves the invariant. *)
LEMMA NextInv == Inv /\ [Next]_vars => Inv'
  <1> SUFFICES ASSUME Inv, [Next]_vars PROVE Inv'
    OBVIOUS
  <1>1. CASE Process
    <2>1. CASE Check
      BY <1>1, <2>1, CheckInv DEF Process
    <2>2. CASE ~ Check
      BY <1>1, <2>2, StepsInv DEF Process
    <2> QED
      BY <2>1, <2>2
  <1>2. CASE Start \/ Stop \/ Timeout \/ Crash \/ StartSlurmd
    BY <1>2, SystemdInv
  <1>3. CASE Wedge \/ World
    BY <1>3, WorldInv
  <1>4. CASE UNCHANGED vars
    BY <1>4 DEF vars, world, pass, mode, history, Inv, TypeOK, Begun, Reason, Ending, Watchful, Mode, Calm, Asked,
                Handled
  <1> QED
    BY <1>1, <1>2, <1>3, <1>4 DEF Next

LEMMA Invariance == Spec => []Inv
  <1> QED
    BY InitInv, NextInv, PTL DEF Spec

-----------------------------------------------------------------------------
(* The variables keep their types, and there is a process exactly while    *)
(* the unit is neither inactive nor failed.                                *)
THEOREM TypeCorrect == Spec => []TypeOK
  <1>1. Inv => TypeOK
    BY DEF Inv
  <1> QED
    BY <1>1, Invariance, PTL

(* run returns 2 only before the check loop, and 1, unless it was told to  *)
(* check once, only from it, for a hot reading or for more failed ones in  *)
(* a row than the budget.                                                  *)
THEOREM CodesAreSplit == Spec => []ExitCodesSplit
  <1>1. Inv => ExitCodesSplit
    BY DEF Inv, Ending, Reason, ExitCodesSplit
  <1> QED
    BY <1>1, Invariance, PTL

(* With the disable file in place since the start, and no wedge, crash,    *)
(* bad or one-shot flag, or silent socket, the unit does not fail.         *)
THEOREM DisableIsHonoured == Spec => []DisableProtects
  <1>1. Inv => DisableProtects
    BY DEF Inv, Calm, DisableProtects
  <1> QED
    BY <1>1, Invariance, PTL

(* A stop fails the unit only for a trip under way or a process that died. *)
THEOREM StopIsClean == Spec => []StopFailsOnlyWhenForced
  <1>1. Inv => StopFailsOnlyWhenForced
    BY DEF Inv, Asked, Ending, StopFailsOnlyWhenForced
  <1> QED
    BY <1>1, Invariance, PTL
=============================================================================
