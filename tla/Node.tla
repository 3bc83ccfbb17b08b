-------------------------------- MODULE Node --------------------------------
(***************************************************************************)
(* The whole node: the guard's process and unit (Service), the responses   *)
(* its failure triggers, and slurmd with its job steps (Response).         *)
(*                                                                         *)
(* What joins them is systemd's: OnFailure= of the guard's unit starts     *)
(* both responses in the step in which the unit fails, After= in slurmd's  *)
(* drop-in makes slurmd's start wait for a start or stop of the guard that *)
(* is under way, and the stop at the end of the emergency stop takes a     *)
(* start of slurmd that is still waiting out of the queue.                 *)
(***************************************************************************)
EXTENDS Naturals

CONSTANTS ReadRetries, Crashes, Step, Cgroups, MonitorEnv, Hasty, SlurmdRestarts

ASSUME NodeAssumption ==
  /\ ReadRetries \in Nat /\ Crashes \in BOOLEAN
  /\ Cgroups \subseteq {"scope", "slurmd"}
  /\ MonitorEnv \in BOOLEAN /\ Hasty \in BOOLEAN /\ SlurmdRestarts \in BOOLEAN

VARIABLES
  disable, armable, heat, stuck, proc, armErr, cancelled, verdict, outcome, streak,
  oneShot, mute, main, unit, bootJob, ended, began, asked, calm,
  es, esCause, drain, drainCause, online, scontrol, slurmd, scope, inside, drained,
  missed, late, acted, halted

Daemon == INSTANCE Service

(* The responses see how the guard's process ended only when its unit has  *)
(* failed.                                                                 *)
Answer == INSTANCE Response WITH main <- IF unit = "failed" THEN main ELSE Daemon!Running

service == <<disable, armable, heat, stuck, proc, armErr, cancelled, verdict, outcome, streak,
             oneShot, mute, main, unit, bootJob, ended, began, asked, calm>>
units   == <<es, esCause, drain, drainCause, acted>>
others  == <<online, scontrol, slurmd, scope, inside, drained, missed, late, halted>>
answer  == <<units, others>>
vars    == <<service, answer>>

(* Boot: slurmd has not been started. *)
Init == Daemon!Init /\ Answer!Init /\ slurmd = "down"

-----------------------------------------------------------------------------
OnFailure ==
  IF unit # "failed" /\ unit' = "failed" THEN Answer!Triggered(main') ELSE UNCHANGED units

Joined(A) == A /\ OnFailure /\ UNCHANGED others

(* Everything in Service but the starts. *)
DaemonSteps ==
  Joined(\/ Daemon!Process \/ Daemon!Stop \/ Daemon!Timeout \/ Daemon!Crash
         \/ Daemon!Wedge \/ Daemon!World)

DaemonStarts ==
  /\ Daemon!Start
  /\ unit = "failed" => Hasty \/ Answer!Settled
  /\ UNCHANGED answer

(* slurmd's start job of the boot transaction. *)
BootSlurmd ==
  /\ Daemon!StartSlurmd
  /\ slurmd' = "up"
  /\ UNCHANGED <<units, online, scontrol, scope, inside, drained, missed, late, halted>>

(* A start of slurmd that waits for the guard's job to be over. *)
SlurmdStarts ==
  /\ unit \notin {"activating", "stopping", "failing"}
  /\ UNCHANGED service
  /\ Answer!SlurmdStarts

(* Mutant: the boot transaction's start of slurmd outlives the stop. *)
StopSlurmdKeepsJob ==
  /\ UNCHANGED service
  /\ Answer!StopSlurmd

(* The last command of the emergency stop, unless it fails, also cancels   *)
(* the boot job.                                                           *)
StopSlurmd ==
  /\ UNCHANGED <<disable, armable, heat, stuck, proc, armErr, cancelled, verdict, outcome,
                 streak, oneShot, mute, main, unit, ended, began, asked, calm>>
  /\ Answer!StopSlurmd
  /\ bootJob' = (bootJob /\ es' = "failed")

Commands ==
  \/ StopSlurmd
  \/ /\ UNCHANGED service
     /\ Answer!ESCondition \/ Answer!KillScope \/ Answer!KillSlurmd \/ Answer!Drain

Around ==
  /\ UNCHANGED service
  /\ (\E s \in Step : Answer!LaunchStep(s) \/ Answer!EndStep(s)) \/ Answer!NetworkUp \/ Answer!Resume

Next == DaemonSteps \/ DaemonStarts \/ BootSlurmd \/ SlurmdStarts \/ Commands \/ Around

(* That of Service, and systemd runs the units it has started. *)
Fairness ==
  /\ WF_vars(Joined(Daemon!Process)) /\ SF_vars(Joined(Daemon!ProcessStops))
  /\ WF_vars(Joined(Daemon!Timeout)) /\ WF_vars(Commands)

Spec == Init /\ [][Next]_vars
FairSpec == Spec /\ Fairness

-----------------------------------------------------------------------------
(* The composition behaves as Response says a node does: every way in      *)
(* which the guard's process ends a unit is one of the failures Response   *)
(* answers, nothing else starts the responses, and slurmd's start at boot, *)
(* which may still be waiting when the guard trips, does not bring slurmd  *)
(* back after the emergency stop.                                          *)
AnswerSpec == Answer!Spec

(* A guard that was started with the disable file in place "does nothing   *)
(* whatever, to the node's SLURM state included" (README), as long as the  *)
(* file stays and nothing wedges or kills the process: no response is      *)
(* under way, whether or not the guard can arm.                            *)
DisabledNodeLeftAlone == calm => Answer!Settled

(* The emergency stop runs its commands only for a guard that was          *)
(* watching, that something killed, or that systemd never saw ready: a     *)
(* process that exits before the loop, by itself or because its runtime    *)
(* gave up, costs no job, unless OPTIONS= holds a one-shot flag or it      *)
(* cannot reach its socket.  This is with MONITOR_*, and with operators    *)
(* who wait for a response to be over.                                     *)
JobsDieForAReason ==
  es \in {"kill_scope", "kill_slurmd", "stop"} =>
    began \/ main.code = "killed" \/ oneShot \/ mute

Gentle == IF scontrol THEN {"drain"} ELSE {}

(* Exactly one of the two units acts on a failure of the guard, whatever   *)
(* the network, slurmd and the node did between their conditions, or none  *)
(* where the drain would be the one and SLURM is not installed; of a       *)
(* process that could watch and that returned it is the right one, from    *)
(* the pass that tripped, or the step before the loop that gave up,        *)
(* through the exit code, the unit, failure-kind and the commands.         *)
RightResponse ==
  Answer!Settled /\ unit = "failed" =>
    /\ acted \in {{"stop"}, Gentle}
    /\ ended = "returned" /\ ~ oneShot /\ ~ mute => acted = IF began THEN {"stop"} ELSE Gentle

(* A node that stays too hot, or unreadable, with no disable file is not   *)
(* left alone: a guard that is active then is either stopped by an         *)
(* operator or fails, and a response has acted by the time both are done,  *)
(* unless the process ended as an exit of 2 on a node without SLURM.       *)
UnsafeNodeIsAnswered ==
  <>online /\ <>[](heat # "good" /\ ~ disable) =>
    (unit = "active" ~>
       /\ Answer!Settled
       /\ \/ unit = "inactive"
          \/ unit = "failed" /\ (acted # {} \/ (~ scontrol /\ main = Daemon!Exited(2))))
=============================================================================
