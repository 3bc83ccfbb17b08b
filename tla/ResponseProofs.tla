--------------------------- MODULE ResponseProofs ---------------------------
(***************************************************************************)
(* Proofs about the two responses, for any set of job steps, whichever     *)
(* cgroups they are put in, whichever commands fail, and whatever slurmd's *)
(* unit does after a kill.                                                 *)
(***************************************************************************)
EXTENDS Response, TLAPS

Down == {"idle", "failed"}

(* An operator who is not hasty starts no guard while a response is under  *)
(* way, so that systemd still says of the unit what the response was       *)
(* started for.                                                            *)
Patience ==
  ~ Hasty =>
    /\ main = Running => Settled
    /\ es \notin Down => esCause = main
    /\ drain \notin Down => drainCause = main

(* With the environment systemd passes, the emergency stop acts on no exit *)
(* of 2.                                                                   *)
Spared ==
  MonitorEnv /\ es \in {"kill_scope", "kill_slurmd", "stop"} => ~ ExitedUnarmed(esCause)

(* Which response has acted on the failure so far.  An exit of 2 is told   *)
(* from the others only by the environment.                                *)
Answered ==
  ~ Hasty /\ main # Running =>
    /\ ~ ExitedUnarmed(main) => acted = IF es = "cond" THEN {} ELSE {"stop"}
    /\ ExitedUnarmed(main) /\ MonitorEnv =>
         acted = IF drain \in {"waiting", "cond"} \/ ~ scontrol THEN {} ELSE {"drain"}

(* The drain gets past its condition only where SLURM is installed. *)
Drainable == drain \in {"cond", "run"} => scontrol

(* What is left of each cgroup, command by command. *)
Killing ==
  /\ es = "kill_scope" => late = {}
  /\ es = "kill_slurmd" => late \subseteq scope
  /\ es \in {"kill_slurmd", "stop"} /\ "scope" \notin missed => scope \subseteq late
  /\ EmergencyStopKills

Inv == TypeOK /\ Patience /\ Spared /\ Answered /\ Drainable /\ Killing /\ EmergencyStopHolds

-----------------------------------------------------------------------------
LEMMA RunningIsMain == Running \in Mains
  BY DEF Running, Mains

(* The node starts in a state that satisfies the invariant. *)
LEMMA InitInv == Init => Inv
  <1> SUFFICES ASSUME Init PROVE Inv
    OBVIOUS
  <1> USE ResponseAssumption
  <1>1. TypeOK
    BY DEF Init, TypeOK, Mains, Running, ESStates, DrainStates
  <1>2. Patience /\ Spared /\ Answered /\ Drainable
    BY DEF Init, Patience, Settled, Spared, Answered, Drainable, Down
  <1>3. Killing /\ EmergencyStopHolds
    BY DEF Init, Killing, EmergencyStopKills, EmergencyStopHolds
  <1> QED
    BY <1>1, <1>2, <1>3 DEF Inv

(* A failure starts the responses, and each knows the failure it is for. *)
LEMMA FailsInv == Inv /\ GuardFails => Inv'
  <1> SUFFICES ASSUME Inv, GuardFails PROVE Inv'
    OBVIOUS
  <1> USE ResponseAssumption DEF steps, kills
  <1>1. PICK m \in Failures : main' = m /\ Triggered(m)
    BY DEF GuardFails
  <1>2. m \in Mains /\ m # Running
    BY DEF Failures
  <1>3. /\ es' = (IF es \in Down THEN "cond" ELSE es)
        /\ esCause' \in {esCause, m} /\ (es \in Down => esCause' = m)
        /\ es # "cond" /\ es \notin Down => esCause' = esCause
    BY <1>1 DEF Triggered, Down
  <1>4. /\ drain' = (IF drain \in Down THEN "waiting" ELSE drain)
        /\ drainCause' \in {drainCause, m}
        /\ drain \in Down => drainCause' = m
    BY <1>1 DEF Triggered, Down
  <1>5. acted' = {} /\ UNCHANGED <<online, scontrol, slurmd, scope, inside, drained, missed, late, halted>>
    BY <1>1 DEF GuardFails, Triggered
  <1>6. TypeOK'
    BY <1>1, <1>2, <1>3, <1>4, <1>5 DEF Inv, TypeOK, ESStates, DrainStates, Down
  <1>7. Patience'
    BY <1>1, <1>2, <1>3, <1>4 DEF Inv, Patience, GuardFails, Settled, Down
  <1>8. Spared'
    BY <1>3 DEF Inv, Spared, Down
  <1>9. Answered' /\ Drainable'
    BY <1>3, <1>4, <1>5 DEF Inv, Patience, GuardFails, Settled, Answered, Drainable, Down
  <1>10. Killing' /\ EmergencyStopHolds'
    BY <1>3, <1>5 DEF Inv, Killing, EmergencyStopKills, EmergencyStopHolds, Down
  <1> QED
    BY <1>6, <1>7, <1>8, <1>9, <1>10 DEF Inv

(* failure-kind, run by either unit, sees the failure or nothing it can    *)
(* read, and takes both for armed unless the failure is an exit of 2.      *)
LEMMA KindOfSeen ==
  ASSUME NEW c, NEW m \in Seen(c), MonitorEnv \/ c = main
  PROVE  /\ ~ ExitedUnarmed(c) => Kind(m) = "armed"
         /\ MonitorEnv /\ ExitedUnarmed(c) => Kind(m) = "unarmed"
  <1>1. CASE MonitorEnv
    BY <1>1 DEF Seen, Kind, ExitedUnarmed
  <1>2. CASE ~ MonitorEnv
    <2>1. m = c \/ m = Unreadable
      BY <1>2 DEF Seen
    <2>2. Kind(Unreadable) = "armed"
      BY DEF Kind, Unreadable
    <2> QED
      BY <1>2, <2>1, <2>2 DEF Kind, ExitedUnarmed
  <1> QED
    BY <1>1, <1>2

(* The condition of the emergency stop. *)
LEMMA ESConditionInv == Inv /\ ESCondition => Inv'
  <1> SUFFICES ASSUME Inv, ESCondition PROVE Inv'
    OBVIOUS
  <1> USE ResponseAssumption DEF steps, kills
  <1>1. PICK m \in Seen(esCause) :
          IF Kind(m) = "armed"
          THEN /\ es' = "kill_scope" /\ esCause' = esCause
               /\ missed' = {} /\ late' = {} /\ acted' = acted \cup {"stop"}
          ELSE es' = "idle" /\ esCause' = Running /\ UNCHANGED <<missed, late, acted>>
    BY DEF ESCondition
  <1>2. /\ es = "cond" /\ es' \in {"kill_scope", "idle"}
        /\ UNCHANGED <<main, drain, drainCause, online, scontrol, slurmd, scope, inside,
                       drained, halted>>
    BY <1>1 DEF ESCondition
  <1>3. TypeOK'
    BY <1>1, <1>2, RunningIsMain DEF Inv, TypeOK, ESStates
  <1>4. Patience' /\ Drainable'
    BY <1>1, <1>2 DEF Inv, Patience, Settled, Drainable, Down
  <1>5. Spared'
    BY <1>1, <1>2, KindOfSeen DEF Inv, Spared
  <1>6. Answered'
    <2> SUFFICES ASSUME ~ Hasty, main # Running
                 PROVE  /\ ~ ExitedUnarmed(main) => acted' = {"stop"}
                        /\ ExitedUnarmed(main) /\ MonitorEnv => acted' = acted
      BY <1>2 DEF Inv, Answered
    <2>1. esCause = main
      BY <1>2 DEF Inv, Patience, Down
    <2>2. ~ ExitedUnarmed(main) => acted = {} /\ Kind(m) = "armed"
      BY <1>2, <2>1, KindOfSeen DEF Inv, Answered
    <2>3. ExitedUnarmed(main) /\ MonitorEnv => Kind(m) = "unarmed"
      BY <2>1, KindOfSeen
    <2> QED
      BY <1>1, <2>2, <2>3
  <1>7. Killing' /\ EmergencyStopHolds'
    BY <1>1, <1>2 DEF Inv, Killing, EmergencyStopKills, EmergencyStopHolds
  <1> QED
    BY <1>3, <1>4, <1>5, <1>6, <1>7 DEF Inv

(* The commands of the emergency stop, each of which may fail. *)
LEMMA StopInv == Inv /\ EmergencyStop => Inv'
  <1> SUFFICES ASSUME Inv, EmergencyStop PROVE Inv'
    OBVIOUS
  <1> USE ResponseAssumption DEF steps, kills
  <1>2. CASE KillScope
    <2>1. TypeOK'
      <3>1. late = {}
        BY <1>2 DEF KillScope, Inv, Killing
      <3> QED
        BY <1>2, <3>1 DEF KillScope, Inv, TypeOK, ESStates
    <2>4. Patience'
      BY <1>2 DEF KillScope, Inv, Patience, Settled, Down
    <2>2. Spared' /\ Answered' /\ Drainable'
      BY <1>2 DEF KillScope, Inv, Spared, Answered, Drainable
    <2>3. Killing' /\ EmergencyStopHolds'
      BY <1>2 DEF KillScope, Inv, Killing, EmergencyStopKills, EmergencyStopHolds
    <2> QED
      BY <2>1, <2>2, <2>3, <2>4 DEF Inv
  <1>3. CASE KillSlurmd
    <2>1. TypeOK' /\ Patience'
      <3>1. late \subseteq scope
        BY <1>3 DEF KillSlurmd, Inv, Killing
      <3> QED
        BY <1>3, <3>1 DEF KillSlurmd, SlurmdKilled, Inv, TypeOK, ESStates, Patience, Settled, Down
    <2>2. Spared' /\ Answered' /\ Drainable'
      BY <1>3 DEF KillSlurmd, Inv, Spared, Answered, Drainable
    <2>3. Killing' /\ EmergencyStopHolds'
      BY <1>3 DEF KillSlurmd, SlurmdKilled, Inv, Killing, EmergencyStopKills, EmergencyStopHolds
    <2> QED
      BY <2>1, <2>2, <2>3 DEF Inv
  <1>4. CASE StopSlurmd
    <2>1. TypeOK' /\ Patience'
      BY <1>4, RunningIsMain DEF StopSlurmd, Inv, TypeOK, ESStates, Patience, Settled, Down
    <2>2. Spared' /\ Answered' /\ Drainable'
      BY <1>4 DEF StopSlurmd, Inv, Spared, Answered, Drainable
    <2>3. Killing' /\ EmergencyStopHolds'
      BY <1>4 DEF StopSlurmd, Inv, Killing, EmergencyStopKills, EmergencyStopHolds
    <2> QED
      BY <2>1, <2>2, <2>3 DEF Inv
  <1> QED
    BY <1>2, <1>3, <1>4, ESConditionInv DEF EmergencyStop

(* The drain leaves the emergency stop and the steps alone. *)
LEMMA DrainInv == Inv /\ Drain => Inv'
  <1> SUFFICES ASSUME Inv, Drain PROVE Inv'
    OBVIOUS
  <1> USE ResponseAssumption DEF steps, kills
  <1>1. /\ UNCHANGED <<main, es, esCause, online, scontrol, slurmd, scope, inside,
                       missed, late, halted>>
        /\ drain \notin Down /\ drain' \in DrainStates
        /\ drainCause' = IF drain' \in Down THEN Running ELSE drainCause
        /\ drained' \in {drained, TRUE} /\ acted' \in {acted, acted \cup {"drain"}}
    BY DEF Drain, DrainWaits, DrainCondition, RunDrain, DrainStates, Down
  <1>2. TypeOK'
    BY <1>1, RunningIsMain DEF Inv, TypeOK, Down
  <1>3. Patience'
    BY <1>1 DEF Inv, Patience, Settled, Down
  <1>4. Answered'
    <2> SUFFICES ASSUME ~ Hasty, main # Running
                 PROVE  /\ ~ ExitedUnarmed(main) => acted' = acted
                        /\ ExitedUnarmed(main) /\ MonitorEnv =>
                             acted' = IF drain' \in {"waiting", "cond"} \/ ~ scontrol
                                      THEN {} ELSE {"drain"}
      BY <1>1 DEF Inv, Answered
    <2>1. drainCause = main
      BY <1>1 DEF Inv, Patience
    <2>2. CASE DrainWaits
      BY <2>2 DEF DrainWaits, Inv, Answered
    <2>3. CASE DrainCondition
      <3>1. PICK m \in Seen(drainCause) :
              IF Kind(m) = "unarmed"
              THEN drain' = "run" /\ acted' = acted \cup {"drain"}
              ELSE drain' = "idle" /\ acted' = acted
        BY <2>3 DEF DrainCondition
      <3>2. ~ ExitedUnarmed(main) => Kind(m) = "armed"
        BY <2>1, KindOfSeen
      <3>3. ExitedUnarmed(main) /\ MonitorEnv => Kind(m) = "unarmed"
        BY <2>1, KindOfSeen
      <3>4. ExitedUnarmed(main) /\ MonitorEnv => acted = {}
        BY <2>3 DEF DrainCondition, Inv, Answered
      <3>5. scontrol
        BY <2>3 DEF DrainCondition, Inv, Drainable
      <3> QED
        BY <3>1, <3>2, <3>3, <3>4, <3>5
    <2>4. CASE RunDrain
      BY <2>4 DEF RunDrain, Inv, Answered
    <2> QED
      BY <2>2, <2>3, <2>4 DEF Drain
  <1>5. Drainable'
    BY DEF Inv, Drainable, Drain, DrainWaits, DrainCondition, RunDrain
  <1>6. Spared' /\ Killing' /\ EmergencyStopHolds'
    BY <1>1 DEF Inv, Spared, Killing, EmergencyStopKills, EmergencyStopHolds
  <1> QED
    BY <1>2, <1>3, <1>4, <1>5, <1>6 DEF Inv

(* slurmd launches and restarts, and operators act, between the commands. *)
LEMMA AroundInv == Inv /\ Around => Inv'
  <1> SUFFICES ASSUME Inv, Around PROVE Inv'
    OBVIOUS
  <1> USE ResponseAssumption DEF steps, units, kills
  <1>1. UNCHANGED <<main, es, esCause, drain, drainCause, acted, scontrol, missed>>
    BY DEF Around, LaunchStep, EndStep, SlurmdStarts, NetworkUp, Resume
  <1>2. Patience' /\ Spared' /\ Answered' /\ Drainable'
    BY <1>1 DEF Inv, Patience, Settled, Spared, Answered, Drainable
  <1>3. ASSUME NEW s \in Step, LaunchStep(s) PROVE Inv'
    <2>1. TypeOK'
      BY <1>3 DEF LaunchStep, Inv, TypeOK
    <2>2. Killing' /\ EmergencyStopHolds'
      BY <1>3 DEF LaunchStep, Inv, Killing, EmergencyStopKills, EmergencyStopHolds
    <2> QED
      BY <1>2, <2>1, <2>2 DEF Inv
  <1>4. ASSUME NEW s \in Step, EndStep(s) PROVE Inv'
    <2>1. TypeOK'
      BY <1>4 DEF EndStep, Inv, TypeOK
    <2>2. Killing' /\ EmergencyStopHolds'
      BY <1>4 DEF EndStep, Inv, Killing, EmergencyStopKills, EmergencyStopHolds
    <2> QED
      BY <1>2, <2>1, <2>2 DEF Inv
  <1>5. CASE SlurmdStarts
    <2>1. TypeOK'
      BY <1>5 DEF SlurmdStarts, Inv, TypeOK
    <2>2. Killing' /\ EmergencyStopHolds'
      BY <1>5 DEF SlurmdStarts, Inv, Killing, EmergencyStopKills, EmergencyStopHolds
    <2> QED
      BY <1>2, <2>1, <2>2 DEF Inv
  <1>6. CASE NetworkUp \/ Resume
    <2>1. TypeOK'
      BY <1>6 DEF NetworkUp, Resume, Inv, TypeOK
    <2>2. Killing' /\ EmergencyStopHolds'
      BY <1>6 DEF NetworkUp, Resume, Inv, Killing, EmergencyStopKills, EmergencyStopHolds
    <2> QED
      BY <1>2, <2>1, <2>2 DEF Inv
  <1> QED
    BY <1>3, <1>4, <1>5, <1>6 DEF Around

(* Every step preserves the invariant. *)
LEMMA NextInv == Inv /\ [Next]_rvars => Inv'
  <1> SUFFICES ASSUME Inv, [Next]_rvars PROVE Inv'
    OBVIOUS
  <1>1. CASE GuardStarts
    <2>1. main' = Running /\ (~ Hasty => Settled)
      BY <1>1 DEF GuardStarts
    <2>2. UNCHANGED <<es, esCause, drain, drainCause, acted, online, scontrol, slurmd, scope,
                      inside, drained, missed, late, halted>>
      BY <1>1 DEF GuardStarts, units, steps, kills
    <2>3. TypeOK'
      BY <2>1, <2>2 DEF Inv, TypeOK, Mains, Running
    <2>4. Patience' /\ Answered' /\ Drainable'
      BY <2>1, <2>2 DEF Inv, Patience, Settled, Answered, Drainable, Down
    <2>5. Spared' /\ Killing' /\ EmergencyStopHolds'
      BY <2>2 DEF Inv, Spared, Killing, EmergencyStopKills, EmergencyStopHolds
    <2> QED
      BY <2>3, <2>4, <2>5 DEF Inv
  <1>2. CASE UNCHANGED rvars
    BY <1>2 DEF rvars, units, steps, kills, Inv, TypeOK, Patience, Settled, Spared, Answered,
                Drainable, Killing, EmergencyStopKills, EmergencyStopHolds
  <1> QED
    BY <1>1, <1>2, FailsInv, StopInv, DrainInv, AroundInv DEF Next

LEMMA Invariance == Spec => []Inv
  <1> QED
    BY InitInv, NextInv, PTL DEF Spec

-----------------------------------------------------------------------------
(* The responses' variables keep their types, a step is in one cgroup, and *)
(* exactly a unit that is under way knows a failure it was started for.    *)
THEOREM TypeCorrect == Spec => []TypeOK
  <1>1. Inv => TypeOK
    BY DEF Inv
  <1> QED
    BY <1>1, Invariance, PTL

(* If nobody starts the guard while a response is pending, every end but   *)
(* an exit of 2 is answered by the emergency stop alone, however systemd   *)
(* tells the units of it and whether or not it can be asked.               *)
THEOREM ArmedStops ==
  ASSUME ~ Hasty
  PROVE  Spec => []ArmedIsStopped
  <1>1. Inv => ArmedIsStopped
    BY DEF Inv, Answered, Settled, ArmedIsStopped
  <1> QED
    BY <1>1, Invariance, PTL

(* Both kills done, a step is alive only if the kill of its cgroup failed  *)
(* or it was launched after that kill.                                     *)
THEOREM StopKills == Spec => []EmergencyStopKills
  <1>1. Inv => EmergencyStopKills
    BY DEF Inv, Killing
  <1> QED
    BY <1>1, Invariance, PTL

(* After an emergency stop that did not fail slurmd stays down until       *)
(* somebody starts it.                                                     *)
THEOREM StopHolds == Spec => []EmergencyStopHolds
  <1>1. Inv => EmergencyStopHolds
    BY DEF Inv
  <1> QED
    BY <1>1, Invariance, PTL
=============================================================================
