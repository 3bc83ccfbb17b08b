------------------------------ MODULE Service ------------------------------
(***************************************************************************)
(* The guard's process, from main.run to its exit code, under its systemd  *)
(* unit slurm-temperature-check.service.                                   *)
(*                                                                         *)
(* The process is the code of cmd/slurm-temperature-check/main.go: arming, *)
(* the disable file's precedence over an arming failure, the loop that     *)
(* waits for that file to go (rearmWhenResumed), READY=1 and the check     *)
(* loop, whose passes are those of GuardPolicy.  The unit is systemd's:    *)
(* it starts and stops the process, learns from READY=1 that it is up,     *)
(* kills it when it takes too long, and turns how it ended into a unit     *)
(* that is inactive or failed.                                             *)
(*                                                                         *)
(* stuck stands for a system call of the process - a sysfs read, mostly -  *)
(* that does not return before the timeout that is running out.            *)
(***************************************************************************)
EXTENDS Naturals

CONSTANTS
  ReadRetries,   \* --read-retries
  Crashes        \* whether the process may be killed from outside (OOM, kill -9)

ASSUME ServiceAssumption ==
  /\ ReadRetries \in Nat
  /\ Crashes \in BOOLEAN

VARIABLES
  disable,       \* the disable file can be stated
  armable,       \* arm would succeed: board in the table, chip present, ...
  heat,          \* what a reading would find
  stuck,         \* the process is inside a system call that does not return
  proc,          \* where the process is; "none" when there is no process
  armErr,        \* run's armErr is not nil
  cancelled,     \* ctx is done
  verdict,       \* the verdict on the last pass of the loop
  outcome,       \* what that pass found
  streak,        \* failed readings in a row
  oneShot,       \* the process was started with --list, --check, ...
  mute,          \* sdnotify.New could not dial NOTIFY_SOCKET
  main,          \* ExecMainCode and ExecMainStatus
  unit,          \* the state of the guard's unit
  bootJob,       \* slurmd's start job of the boot transaction still waits
  ended,         \* history: how the last process ended; "not" while it runs
  began,         \* history: this process entered the check loop
  asked,         \* history: this process was asked to stop by systemctl stop
  calm           \* history: the disable file was there ever since this
                 \* process started, and nothing but the node's own state
                 \* was wrong with the start: neither the flags in OPTIONS=,
                 \* nor the socket, nor a stuck call, nor a kill

world   == <<disable, armable, heat>>
pass    == <<verdict, outcome, streak>>
history == <<began, asked, calm>>
mode    == <<oneShot, mute>>
vars    == <<world, stuck, proc, armErr, cancelled, pass, mode, main, unit, bootJob, ended,
             history>>

Policy == INSTANCE GuardPolicy WITH
  phase <- IF verdict = "trip" THEN "tripped" ELSE "running"

Heats == {"good", "hot", "failed"}
Procs == {"none", "flags", "list", "arm", "stat", "context", "announce", "suspended",
          "rearm", "ready", "check", "select", "trip"}
(* "failing": the start has timed out, and the process has been told to go. *)
Units == {"inactive", "activating", "active", "stopping", "failing", "failed"}

Running    == [code |-> "running", status |-> 0]
Exited(c)  == [code |-> "exited", status |-> c]
Killed(n)  == [code |-> "killed", status |-> n]
SIGKILL    == 9
SIGTERM    == 15
Mains == {Running, Exited(0), Exited(1), Exited(2),
          Killed(SIGKILL), Killed(SIGTERM)}

(* signal.NotifyContext has been called. *)
Handled == proc \in {"announce", "suspended", "rearm", "ready", "check", "select", "trip"}

(* Boot, with the guard enabled or not. *)
Init ==
  /\ disable \in BOOLEAN /\ armable \in BOOLEAN /\ heat \in Heats
  /\ stuck = FALSE /\ armErr = FALSE /\ cancelled = FALSE
  /\ verdict = "ok" /\ outcome = "none" /\ streak = 0
  /\ oneShot = FALSE /\ mute = FALSE
  /\ \/ proc = "flags" /\ unit = "activating" /\ main = Running /\ calm = disable /\ ended = "not"
     \/ proc = "none" /\ unit = "inactive" /\ main = Exited(0) /\ calm = FALSE /\ ended = "returned"
  /\ bootJob = TRUE
  /\ began = FALSE /\ asked = FALSE

-----------------------------------------------------------------------------
(* The process. *)

(* Mutant: a clean exit the unit does not notice. *)
ExitUnnoticed(c) ==
  /\ proc' = "none"
  /\ main' = Exited(c) /\ ended' = "returned"
  /\ unit' = IF c = 0 /\ unit # "activating" THEN unit ELSE "failed"

(* run returns c and main calls os.Exit.  Under Type=notify an exit of 0   *)
(* before READY=1 is a failure too, of the protocol, and a start that has  *)
(* timed out has failed however the process ends.                          *)
Exit(c) ==
  /\ proc' = "none"
  /\ main' = Exited(c) /\ ended' = "returned"
  /\ unit' = IF c = 0 /\ unit \in {"active", "stopping"} THEN "inactive" ELSE "failed"

Goto(p) == proc' = p /\ UNCHANGED <<main, unit, ended>>

(* READY=1, if it can be sent, ends the unit's start; a unit that is       *)
(* stopping ignores it.                                                    *)
ReadyThenGoto(p) ==
  /\ proc' = p
  /\ unit' = IF unit = "activating" /\ ~ mute THEN "active" ELSE unit
  /\ UNCHANGED <<main, ended>>

(* --help, --version: printed, and that is all. *)
PrintAndExit ==
  /\ proc = "flags"
  /\ Exit(0)
  /\ oneShot' = TRUE /\ calm' = FALSE
  /\ UNCHANGED <<armErr, cancelled, pass, mute, began, asked>>

(* Flags that do not parse, a bad interval, retry count or log level. *)
RejectFlags ==
  /\ proc = "flags"
  /\ Exit(2)
  /\ calm' = FALSE
  /\ UNCHANGED <<armErr, cancelled, pass, mode, began, asked>>

(* Good flags, among them --list, or --check, or neither. *)
AcceptFlags ==
  /\ proc = "flags"
  /\ \/ oneShot' = TRUE /\ Goto("list")
     \/ oneShot' \in BOOLEAN /\ Goto("arm")
  /\ calm' = (calm /\ ~ oneShot')
  /\ UNCHANGED <<armErr, cancelled, pass, mute, began, asked>>

(* --list: Discover succeeds, and the sensors are printed, or it fails. *)
ListSensors ==
  /\ proc = "list"
  /\ Exit(0) \/ Exit(2)
  /\ UNCHANGED <<armErr, cancelled, pass, mode, history>>

(* The call of arm in run. *)
Arm ==
  /\ proc = "arm"
  /\ armErr' = ~ armable
  /\ Goto(IF armable THEN "context" ELSE "stat")
  /\ UNCHANGED <<cancelled, pass, mode, history>>

(* Mutants: an arming failure that ignores the disable file; one that      *)
(* exits with the code of a trip.                                          *)
StatDisableIgnored ==
  /\ proc = "stat"
  /\ Exit(2)
  /\ UNCHANGED <<armErr, cancelled, pass, mode, history>>
StatDisableTrips ==
  /\ proc = "stat"
  /\ IF disable THEN Goto("context") ELSE Exit(1)
  /\ UNCHANGED <<armErr, cancelled, pass, mode, history>>

(* arm failed: fatal, unless the disable file is there. *)
StatDisable ==
  /\ proc = "stat"
  /\ IF disable THEN Goto("context") ELSE Exit(2)
  /\ UNCHANGED <<armErr, cancelled, pass, mode, history>>

(* --check: one Check, without a retry budget; a guard that could not arm  *)
(* got here because of the disable file.                                   *)
CheckOnce ==
  /\ proc = "context" /\ oneShot
  /\ Exit(IF armErr \/ disable \/ heat = "good" THEN 0 ELSE 1)
  /\ UNCHANGED <<armErr, cancelled, pass, mode, history>>

(* sdnotify.New: a socket that cannot be dialled gives a silent notifier. *)
New == mute' \in BOOLEAN

(* From here on SIGTERM cancels ctx instead of killing the process. *)
NotifyContext ==
  /\ proc = "context" /\ ~ oneShot
  /\ New /\ calm' = (calm /\ ~ mute')
  /\ Goto(IF armErr THEN "announce" ELSE "ready")
  /\ UNCHANGED <<armErr, cancelled, pass, oneShot, began, asked>>

(* rearmWhenResumed: READY=1 with the status "Suspended". *)
AnnounceSuspended ==
  /\ proc = "announce"
  /\ ReadyThenGoto("suspended")
  /\ UNCHANGED <<armErr, cancelled, pass, mode, history>>

(* Mutant: a suspended loop that does not look at ctx. *)
SuspendedStopNever ==
  /\ proc = "suspended" /\ cancelled /\ FALSE
  /\ Exit(0)
  /\ UNCHANGED <<armErr, cancelled, pass, mode, history>>

(* Its select: ctx.Done returns armErr, and run then finds ctx.Err set. *)
SuspendedStop ==
  /\ proc = "suspended" /\ cancelled
  /\ Exit(0)
  /\ UNCHANGED <<armErr, cancelled, pass, mode, history>>

(* Its select: a tick.  While the file is there the loop only goes round.  *)
SuspendedTick ==
  /\ proc = "suspended" /\ ~ disable
  /\ Goto("rearm")
  /\ UNCHANGED <<armErr, cancelled, pass, mode, history>>

(* Mutant: the arming error is fatal even when the process was told to stop. *)
RearmNoCtxErr ==
  /\ proc = "rearm"
  /\ armErr' = ~ armable
  /\ IF armable THEN Goto("ready") ELSE Exit(2)
  /\ UNCHANGED <<cancelled, pass, mode, history>>

(* The file is gone: arm again; failing that, exit 2, or 0 when asked to stop. *)
Rearm ==
  /\ proc = "rearm"
  /\ armErr' = ~ armable
  /\ IF armable THEN Goto("ready") ELSE Exit(IF cancelled THEN 0 ELSE 2)
  /\ UNCHANGED <<cancelled, pass, mode, history>>

(* The watchdog and the observers are wired, READY=1 is sent, Run is called. *)
Ready ==
  /\ proc = "ready"
  /\ ReadyThenGoto("check")
  /\ began' = TRUE
  /\ UNCHANGED <<armErr, cancelled, pass, mode, asked, calm>>

(* One pass of Guard.Run. *)
Check ==
  /\ proc = "check"
  /\ Policy!Pass(IF disable THEN "disabled" ELSE heat)
  /\ Goto(IF verdict' = "trip" THEN "trip" ELSE "select")
  /\ UNCHANGED <<armErr, cancelled, mode, history>>

(* Run returned ErrTripped. *)
Trip ==
  /\ proc = "trip"
  /\ Exit(1)
  /\ UNCHANGED <<armErr, cancelled, pass, mode, history>>

SelectStop ==
  /\ proc = "select" /\ cancelled
  /\ Exit(0)
  /\ UNCHANGED <<armErr, cancelled, pass, mode, history>>

SelectTick ==
  /\ proc = "select"
  /\ Goto("check")
  /\ UNCHANGED <<armErr, cancelled, pass, mode, history>>

Stops == SuspendedStop \/ SelectStop

Steps ==
  \/ PrintAndExit \/ RejectFlags \/ AcceptFlags \/ ListSensors
  \/ Arm \/ StatDisable \/ CheckOnce \/ NotifyContext
  \/ AnnounceSuspended \/ SuspendedTick \/ Rearm
  \/ Ready \/ Check \/ Trip \/ SelectTick

Process == ~ stuck /\ (Steps \/ Stops) /\ UNCHANGED <<world, stuck, bootJob>>

ProcessStops == ~ stuck /\ Stops /\ UNCHANGED <<world, stuck, bootJob>>

-----------------------------------------------------------------------------
(* systemd. *)

(* systemctl start, of a unit that is down. *)
Start ==
  /\ unit \in {"inactive", "failed"}
  /\ unit' = "activating" /\ proc' = "flags" /\ main' = Running /\ ended' = "not"
  /\ stuck' = FALSE /\ armErr' = FALSE /\ cancelled' = FALSE
  /\ verdict' = "ok" /\ outcome' = "none" /\ streak' = 0
  /\ oneShot' = FALSE /\ mute' = FALSE
  /\ began' = FALSE /\ asked' = FALSE /\ calm' = disable
  /\ UNCHANGED <<world, bootJob>>

(* The process dies without run returning; its parent sees it end as m. *)
Dies(m, u) ==
  /\ proc' = "none" /\ main' = m /\ ended' = "died" /\ unit' = u /\ stuck' = FALSE
  /\ UNCHANGED <<world, armErr, cancelled, pass, mode, bootJob, began>>

(* systemctl stop sends SIGTERM.  A process without a handler dies of it,  *)
(* which systemd takes for a clean end.                                    *)
Stop ==
  /\ unit \in {"activating", "active"}
  /\ asked' = TRUE /\ calm' = calm
  /\ \/ ~ Handled /\ Dies(Killed(SIGTERM), "inactive")
     \/ /\ Handled
        /\ unit' = "stopping" /\ cancelled' = TRUE
        /\ UNCHANGED <<world, stuck, proc, armErr, pass, mode, main, bootJob, ended, began>>

(* TimeoutStartSec runs out before READY=1 has come: SIGTERM, and the unit *)
(* has failed, whatever a process with a handler makes of the signal.      *)
StartTimeout ==
  /\ unit = "activating" /\ (stuck \/ mute)
  /\ UNCHANGED <<asked, calm>>
  /\ \/ ~ Handled /\ Dies(Killed(SIGTERM), "failed")
     \/ /\ Handled
        /\ unit' = "failing" /\ cancelled' = TRUE
        /\ UNCHANGED <<world, stuck, proc, armErr, pass, mode, main, bootJob, ended, began>>

(* TimeoutStopSec runs out: SIGKILL, and the unit has failed. *)
StopTimeout ==
  /\ unit \in {"stopping", "failing"} /\ stuck
  /\ Dies(Killed(SIGKILL), "failed")
  /\ UNCHANGED <<asked, calm>>

(* What SIGABRT, the watchdog's signal, makes of a Go process: the runtime *)
(* dumps the stacks and exits 2.  If the thread that is to take the signal *)
(* cannot run, SIGKILL follows.                                            *)
Aborted == {Exited(2), Killed(SIGKILL)}

(* Mutant: a keep-alive that does not depend on the loop. *)
WatchdogAlwaysFed ==
  /\ unit = "active" /\ stuck /\ FALSE
  /\ \E m \in Aborted : Dies(m, "failed")
  /\ UNCHANGED <<asked, calm>>

(* The keep-alive stops coming: WatchdogSec runs out and SIGABRT is sent. *)
WatchdogKill ==
  /\ unit = "active" /\ stuck
  /\ \E m \in Aborted : Dies(m, "failed")
  /\ UNCHANGED <<asked, calm>>

(* The process is killed by someone else, or the Go runtime gives up (out  *)
(* of memory, a panic), which is an exit of 2 too.                         *)
Crash ==
  /\ Crashes /\ proc # "none"
  /\ \E m \in {Exited(2), Killed(SIGKILL)} : Dies(m, "failed")
  /\ calm' = FALSE /\ asked' = asked

(* slurmd.service is ordered After= the guard: its start job waits for the *)
(* guard's start, or stop, to be over.                                     *)
StartSlurmd ==
  /\ bootJob /\ unit \notin {"activating", "stopping", "failing"}
  /\ bootJob' = FALSE
  /\ UNCHANGED <<world, stuck, proc, armErr, cancelled, pass, mode, main, unit, ended, history>>

Timeout == StartTimeout \/ StopTimeout \/ WatchdogKill

-----------------------------------------------------------------------------
(* The node around it. *)

(* The calls that may not return are the ones that touch sysfs. *)
Wedge ==
  /\ proc \in {"list", "arm", "rearm", "check"} \/ (proc = "context" /\ oneShot)
  /\ ~ stuck
  /\ stuck' = TRUE /\ calm' = FALSE
  /\ UNCHANGED <<world, proc, armErr, cancelled, pass, mode, main, unit, bootJob, ended, began, asked>>

World ==
  /\ \/ disable' = ~ disable /\ UNCHANGED <<armable, heat>>
     \/ armable' = ~ armable /\ UNCHANGED <<disable, heat>>
     \/ heat' \in Heats /\ UNCHANGED <<disable, armable>>
  /\ calm' = (calm /\ disable')
  /\ UNCHANGED <<stuck, proc, armErr, cancelled, pass, mode, main, unit, bootJob, ended, began, asked>>

Next == Process \/ Start \/ Stop \/ Timeout \/ Crash \/ StartSlurmd \/ Wedge \/ World

(* The process is scheduled, its selects cannot pass over a done context   *)
(* for ever, and systemd's timers run out.  Nobody has to start or stop    *)
(* anything, and nothing is assumed of the node.                           *)
Fairness == WF_vars(Process) /\ SF_vars(ProcessStops) /\ WF_vars(Timeout)

Spec == Init /\ [][Next]_vars
FairSpec == Spec /\ Fairness

-----------------------------------------------------------------------------
(* The types of the variables.  A process exists exactly while the unit is *)
(* neither inactive nor failed.                                            *)
TypeOK ==
  /\ disable \in BOOLEAN /\ armable \in BOOLEAN /\ heat \in Heats
  /\ stuck \in BOOLEAN /\ proc \in Procs /\ armErr \in BOOLEAN /\ cancelled \in BOOLEAN
  /\ verdict \in {"ok", "disabled", "tolerated", "trip"}
  /\ outcome \in {"none"} \cup Policy!Outcomes /\ streak \in 0..(ReadRetries + 1)
  /\ oneShot \in BOOLEAN /\ mute \in BOOLEAN
  /\ main \in Mains /\ unit \in Units /\ bootJob \in BOOLEAN
  /\ ended \in {"not", "returned", "died"}
  /\ began \in BOOLEAN /\ asked \in BOOLEAN /\ calm \in BOOLEAN
  /\ proc = "none" <=> unit \in {"inactive", "failed"}

(* The split the two responses rest on (main.go: "nothing may return       *)
(* exitConfig once the check loop is running and nothing may return        *)
(* exitTripped before it starts"), on every path of run through arming,    *)
(* the suspended loop and re-arming: it returns 2 without ever having      *)
(* entered the check loop, and 1, --check apart, only from it and with a   *)
(* reason, a hot reading or more failed ones in a row than the budget.     *)
ExitCodesSplit ==
  /\ main = Exited(2) /\ ended = "returned" => ~ began
  /\ main = Exited(1) /\ ~ oneShot =>
       began /\ (outcome = "hot" \/ (outcome = "failed" /\ streak > ReadRetries))

(* Row 13 of the specification table: while the disable file is there, and *)
(* nobody wedges, mutes or kills the process or gives it flags it cannot   *)
(* watch with, the unit does not fail, whether or not the guard can arm    *)
(* and however hot the node is.                                            *)
DisableProtects == calm => unit # "failed"

(* A stop that fails the unit is a pass that tripped while the stop was    *)
(* under way, a system call that outlasted TimeoutStopSec or a crash: run  *)
(* itself, suspended, re-arming or checking, answers SIGTERM by exiting 0. *)
StopFailsOnlyWhenForced ==
  asked /\ unit = "failed" => ended = "died" \/ (main = Exited(1) /\ verdict = "trip")

(* A node that stays unsafe with no disable file is not left with a guard  *)
(* that lives and does nothing: each of its processes ends, be it          *)
(* checking, suspended before, re-arming or stuck (the watchdog's case).   *)
UnsafeNodeEndsGuard ==
  <>[](heat # "good" /\ ~ disable) => []<>(proc = "none")

(* A stop, be it systemctl's or that of a start that has timed out, ends,  *)
(* and TimeoutStopSec is needed for that only when a system call is stuck: *)
(* suspended, re-arming or checking, the process sees the done context.    *)
StopEnds == unit \in {"stopping", "failing"} ~> unit \in {"inactive", "failed"}

(* failure-kind says that exit 2 comes "never once the check loop is       *)
(* running, where the only failure is exit 1", and the README that a guard *)
(* killed by the watchdog is answered by the emergency stop: a process     *)
(* that was watching never ends as an exit of 2.                           *)
WatchedNeverExitsTwo == unit = "failed" /\ began => main # Exited(2)
=============================================================================
