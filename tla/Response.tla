------------------------------ MODULE Response ------------------------------
(***************************************************************************)
(* What a failure of the guard's unit does to the node: the two units its  *)
(* OnFailure= starts, slurm-temperature-check-emergency-stop.service and   *)
(* slurm-temperature-check-drain.service, the script failure-kind that is  *)
(* the ExecCondition= of both, and slurmd with its job steps.              *)
(*                                                                         *)
(* The guard's unit itself is reduced to main, the way its process ended,  *)
(* and to the two events that matter here: it is started, and it fails.    *)
(* Every command of a unit is a step of its own, and may fail: slurmd goes *)
(* on launching steps between any two of them.                             *)
(***************************************************************************)
EXTENDS Naturals

CONSTANTS
  Step,            \* job steps that may run on the node
  Cgroups,         \* where slurmd puts steps: "scope" (slurmstepd.scope), "slurmd"
  MonitorEnv,      \* systemd passes MONITOR_EXIT_* to the units
  Hasty,           \* the guard may be started again while a response is pending
  SlurmdRestarts   \* the site has added a Restart= to slurmd.service

ASSUME ResponseAssumption ==
  /\ Cgroups \subseteq {"scope", "slurmd"}
  /\ MonitorEnv \in BOOLEAN /\ Hasty \in BOOLEAN /\ SlurmdRestarts \in BOOLEAN

VARIABLES
  main,        \* ExecMainCode and ExecMainStatus of the guard's unit
  es,          \* the command the emergency stop runs next; "idle" when down,
               \* "failed" when its last command failed
  esCause,     \* MONITOR_EXIT_CODE and _STATUS it was started with, while up
  drain,       \* the same for the drain unit
  drainCause,
  online,      \* network-online.target is reached
  scontrol,    \* /usr/bin/scontrol is executable
  slurmd,      \* "up", "down", or "respawn": killed, systemd will restart it
  scope,       \* steps in slurmstepd.scope
  inside,      \* steps in slurmd's own cgroup
  drained,     \* the scheduler sends no new job to the node
  missed,      \* history: the cgroups with processes in them that the last
               \* emergency stop failed to kill
  late,        \* history: the steps launched after it had killed their cgroup
  acted,       \* history: the responses that acted on the last failure
  halted       \* history: an emergency stop has stopped slurmd and nobody
               \* has started it since

units   == <<es, esCause, drain, drainCause, acted>>
steps   == <<scope, inside>>
kills   == <<missed, late>>
rvars   == <<main, units, online, scontrol, slurmd, steps, drained, kills, halted>>

Mains ==
  {[code |-> "running", status |-> 0]}
    \cup [code : {"exited"}, status : {0, 1, 2}]
    \cup [code : {"killed"}, status : {6, 9, 15}]
Running == [code |-> "running", status |-> 0]
(* An exit of 0 too: a guard that ends so before READY=1 breaks the        *)
(* protocol of Type=notify, and one that a start timeout stopped has failed. *)
Failures == Mains \ {Running}
ESStates == {"idle", "cond", "kill_scope", "kill_slurmd", "stop", "failed"}
DrainStates == {"idle", "waiting", "cond", "run", "failed"}

Init ==
  /\ main = Running
  /\ es = "idle" /\ drain = "idle" /\ esCause = Running /\ drainCause = Running
  /\ online \in BOOLEAN /\ scontrol \in BOOLEAN
  /\ slurmd \in {"up", "down"} /\ scope = {} /\ inside = {} /\ drained = FALSE
  /\ missed = {} /\ late = {} /\ acted = {} /\ halted = FALSE

(* No response is under way. *)
Settled == es \in {"idle", "failed"} /\ drain \in {"idle", "failed"}

-----------------------------------------------------------------------------
(* failure-kind. *)

Unreadable == [code |-> "", status |-> 0]

(* The code and status it may work on: MONITOR_*, or what systemd says of  *)
(* the unit now, if systemctl show can ask it.                             *)
Seen(cause) == IF MonitorEnv THEN {cause} ELSE {main, Unreadable}

(* Mutants: a code that cannot be read taken for a guard that never armed; *)
(* 1 taken for 2.                                                          *)
KindLenient(m) == IF m.code = "" \/ (m.code = "exited" /\ m.status = 2) THEN "unarmed" ELSE "armed"
KindNonZero(m) == IF m.code = "exited" /\ m.status > 0 THEN "unarmed" ELSE "armed"

(* Only a positively identified exit 2 is "unarmed". *)
Kind(m) == IF m.code = "exited" /\ m.status = 2 THEN "unarmed" ELSE "armed"

(* Mutant: the environment does not reach the units. *)
TriggeredNoCause(m) ==
  /\ es' = (IF es \in {"idle", "failed"} THEN "cond" ELSE es) /\ esCause' = esCause
  /\ drain' = (IF drain \in {"idle", "failed"} THEN "waiting" ELSE drain)
  /\ drainCause' = drainCause
  /\ acted' = {}

(* OnFailure= starts both units.  A start of a unit whose job is pending   *)
(* or whose process runs merges into it; which failure its environment     *)
(* then shows is systemd's choice.                                         *)
Triggered(m) ==
  /\ IF es \in {"idle", "failed"}
     THEN es' = "cond" /\ esCause' = m
     ELSE es' = es /\ esCause' \in (IF es = "cond" THEN {esCause, m} ELSE {esCause})
  /\ IF drain \in {"idle", "failed"}
     THEN drain' = "waiting" /\ drainCause' = m
     ELSE drain' = drain /\ drainCause' \in (IF drain = "waiting" THEN {drainCause, m} ELSE {drainCause})
  /\ acted' = {}

-----------------------------------------------------------------------------
(* The emergency stop. *)

(* ExecCondition=failure-kind armed. *)
ESCondition ==
  /\ es = "cond"
  /\ \E m \in Seen(esCause) :
       IF Kind(m) = "armed"
       THEN /\ es' = "kill_scope" /\ esCause' = esCause
            /\ missed' = {} /\ late' = {} /\ acted' = acted \cup {"stop"}
       ELSE /\ es' = "idle" /\ esCause' = Running
            /\ UNCHANGED <<kills, acted>>
  /\ UNCHANGED <<main, drain, drainCause, online, scontrol, slurmd, steps, drained, halted>>

(* systemctl kill --kill-whom=all slurmstepd.scope.  ExecStart=-: it may   *)
(* fail, and the next command runs all the same.                           *)
KillScope ==
  /\ es = "kill_scope"
  /\ \/ scope' = {} /\ missed' = missed
     \/ scope' = scope /\ missed' = IF scope = {} THEN missed ELSE missed \cup {"scope"}
  /\ es' = "kill_slurmd"
  /\ UNCHANGED <<main, esCause, drain, drainCause, acted, online, scontrol, slurmd, inside,
                 drained, late, halted>>

SlurmdKilled == IF slurmd = "up" THEN (IF SlurmdRestarts THEN "respawn" ELSE "down") ELSE slurmd

(* Mutant: --kill-whom=main. *)
KillSlurmdMainOnly ==
  /\ es = "kill_slurmd"
  /\ slurmd' = SlurmdKilled
  /\ es' = "stop"
  /\ UNCHANGED <<main, esCause, drain, drainCause, acted, online, scontrol, steps, drained,
                 kills, halted>>

(* systemctl kill --kill-whom=all slurmd.service, ExecStart=- as well. *)
KillSlurmd ==
  /\ es = "kill_slurmd"
  /\ \/ inside' = {} /\ slurmd' = SlurmdKilled /\ missed' = missed
     \/ /\ UNCHANGED <<inside, slurmd>>
        /\ missed' = IF inside = {} /\ slurmd # "up" THEN missed ELSE missed \cup {"slurmd"}
  /\ es' = "stop"
  /\ UNCHANGED <<main, esCause, drain, drainCause, acted, online, scontrol, scope, drained,
                 late, halted>>

(* Mutant: no stop after the kills. *)
StopSlurmdSkipped ==
  /\ es = "stop"
  /\ es' = "idle" /\ esCause' = Running /\ slurmd' = slurmd /\ halted' = TRUE
  /\ UNCHANGED <<main, drain, drainCause, acted, online, scontrol, steps, drained, kills>>

(* systemctl stop slurmd.service: also cancels a pending restart.  slurmd  *)
(* has KillMode=process, so steps are left alone.  This command's failure  *)
(* is the unit's.                                                          *)
StopSlurmd ==
  /\ es = "stop"
  /\ \/ es' = "idle" /\ slurmd' = "down" /\ halted' = TRUE
     \/ es' = "failed" /\ UNCHANGED <<slurmd, halted>>
  /\ esCause' = Running
  /\ UNCHANGED <<main, drain, drainCause, acted, online, scontrol, steps, drained, kills>>

EmergencyStop == ESCondition \/ KillScope \/ KillSlurmd \/ StopSlurmd

-----------------------------------------------------------------------------
(* The drain. *)

(* After=network-online.target; the unit then starts only where            *)
(* ConditionFileIsExecutable=/usr/bin/scontrol holds, and is skipped on a  *)
(* node without SLURM.                                                     *)
DrainWaits ==
  /\ drain = "waiting" /\ online
  /\ IF scontrol
     THEN drain' = "cond" /\ drainCause' = drainCause
     ELSE drain' = "idle" /\ drainCause' = Running
  /\ UNCHANGED <<main, es, esCause, acted, online, scontrol, slurmd, steps, drained,
                 kills, halted>>

(* ExecCondition=failure-kind unarmed. *)
DrainCondition ==
  /\ drain = "cond"
  /\ \E m \in Seen(drainCause) :
       IF Kind(m) = "unarmed"
       THEN drain' = "run" /\ drainCause' = drainCause /\ acted' = acted \cup {"drain"}
       ELSE drain' = "idle" /\ drainCause' = Running /\ acted' = acted
  /\ UNCHANGED <<main, es, esCause, online, scontrol, slurmd, steps, drained, kills,
                 halted>>

(* scontrol update State=DRAIN reaches slurmctld, or does not. *)
RunDrain ==
  /\ drain = "run"
  /\ \/ drain' = "idle" /\ drained' = TRUE
     \/ drain' = "failed" /\ drained' = drained
  /\ drainCause' = Running
  /\ UNCHANGED <<main, es, esCause, acted, online, scontrol, slurmd, steps, kills,
                 halted>>

Drain == DrainWaits \/ DrainCondition \/ RunDrain

-----------------------------------------------------------------------------
(* slurmd, the network and the operators. *)

(* slurmd launches a step, of a new job unless the node is drained, and    *)
(* puts it in a cgroup.                                                    *)
LaunchStep(s) ==
  /\ slurmd = "up"
  /\ s \notin scope \cup inside
  /\ drained => scope \cup inside # {}
  /\ \/ /\ "scope" \in Cgroups /\ scope' = scope \cup {s} /\ inside' = inside
        /\ late' = IF es \in {"kill_slurmd", "stop"} THEN late \cup {s} ELSE late
     \/ /\ "slurmd" \in Cgroups /\ inside' = inside \cup {s} /\ scope' = scope
        /\ late' = IF es = "stop" THEN late \cup {s} ELSE late
  /\ UNCHANGED <<main, units, online, scontrol, slurmd, drained, missed, halted>>

(* A step ends by itself. *)
EndStep(s) ==
  /\ s \in scope \cup inside
  /\ scope' = scope \ {s} /\ inside' = inside \ {s} /\ late' = late \ {s}
  /\ UNCHANGED <<main, units, online, scontrol, slurmd, drained, missed, halted>>

(* systemd's own restart of slurmd, and an operator's start. *)
SlurmdStarts ==
  /\ \/ slurmd = "respawn" /\ halted' = halted
     \/ slurmd = "down" /\ halted' = FALSE
  /\ slurmd' = "up"
  /\ UNCHANGED <<main, units, online, scontrol, steps, drained, kills>>

NetworkUp ==
  /\ ~ online /\ online' = TRUE
  /\ UNCHANGED <<main, units, scontrol, slurmd, steps, drained, kills, halted>>

(* scontrol update State=RESUME. *)
Resume ==
  /\ drained /\ drained' = FALSE
  /\ UNCHANGED <<main, units, online, scontrol, slurmd, steps, kills, halted>>

Around == (\E s \in Step : LaunchStep(s) \/ EndStep(s)) \/ SlurmdStarts \/ NetworkUp \/ Resume

(* The guard's unit fails. *)
GuardFails ==
  /\ main = Running
  /\ main' \in Failures
  /\ Triggered(main')
  /\ UNCHANGED <<online, scontrol, slurmd, steps, drained, kills, halted>>

(* An operator starts the guard again; one who is not hasty looks at what  *)
(* the failure did to the node first.                                      *)
GuardStarts ==
  /\ main # Running
  /\ Hasty \/ Settled
  /\ main' = Running
  /\ UNCHANGED <<units, online, scontrol, slurmd, steps, drained, kills, halted>>

Next == EmergencyStop \/ Drain \/ Around \/ GuardFails \/ GuardStarts

Spec == Init /\ [][Next]_rvars

-----------------------------------------------------------------------------
(* The types of the variables; a step is in one cgroup, and exactly a unit *)
(* that is under way knows a failure it was started for.                   *)
TypeOK ==
  /\ main \in Mains /\ es \in ESStates /\ esCause \in Mains
  /\ drain \in DrainStates /\ drainCause \in Mains
  /\ online \in BOOLEAN /\ scontrol \in BOOLEAN /\ slurmd \in {"up", "down", "respawn"}
  /\ scope \subseteq Step /\ inside \subseteq Step /\ scope \cap inside = {}
  /\ drained \in BOOLEAN /\ missed \subseteq {"scope", "slurmd"} /\ late \subseteq scope \cup inside
  /\ acted \subseteq {"stop", "drain"} /\ halted \in BOOLEAN
  /\ es \notin {"idle", "failed"} <=> esCause # Running
  /\ drain \notin {"idle", "failed"} <=> drainCause # Running

ExitedUnarmed(m) == m.code = "exited" /\ m.status = 2

(* A guard that ended in any way but an exit of 2 is answered by the       *)
(* emergency stop and by nothing else, although failure-kind may be unable *)
(* to read how it ended, in either unit or in both (failure-kind, the      *)
(* fallback: "anything unrecognised keeps the emergency stop").            *)
ArmedIsStopped ==
  Settled /\ main # Running /\ ~ ExitedUnarmed(main) => acted = {"stop"}

(* Once both kills are done, and for as long as slurmd is kept down after  *)
(* the emergency stop, a step is alive only if the kill of its cgroup      *)
(* failed, or if slurmd launched it after that kill.                       *)
EmergencyStopKills ==
  es = "stop" \/ (halted /\ es \in {"idle", "cond", "failed"}) =>
    /\ "scope" \notin missed => scope \subseteq late
    /\ "slurmd" \notin missed => inside \subseteq late

(* After an emergency stop that did not fail slurmd stays down until       *)
(* somebody starts it: the stop at the end also disarms a Restart= of the  *)
(* site's, whenever that fires.                                            *)
EmergencyStopHolds == halted => slurmd = "down"

(* The README says that killing a cgroup's whole membership "is what makes *)
(* this complete and race-free": no step outlives an emergency stop that   *)
(* did not fail to kill anything.                                          *)
NoStepSurvives == halted /\ missed = {} => scope \cup inside = {}

(* The README says that a failure failure-kind cannot read is "a kill and  *)
(* never a silent nothing": where SLURM is installed, one of the responses *)
(* acts on every failure.                                                  *)
NeverSilent == Settled /\ main # Running /\ scontrol => acted # {}
=============================================================================
