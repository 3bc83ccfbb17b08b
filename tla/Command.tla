------------------------------ MODULE Command ------------------------------
(***************************************************************************)
(* main.run as an operator or a script calls it: flags, the one-shot modes *)
(* --help, --version, --list and --check, and their exit codes, on a node  *)
(* whose files and sensors change meanwhile.  A run that gets past them is *)
(* the daemon, and its story is told by Service.                           *)
(***************************************************************************)
EXTENDS Naturals

CONSTANTS
  Sensor,        \* sensors the node exports
  ReadRetries    \* --read-retries

ASSUME CommandAssumption == ReadRetries \in Nat

VARIABLES
  args,       \* the command line
  disable,    \* the disable file can be stated
  override,   \* what the override file holds; "absent"
  faults,     \* the steps of arm that would fail
  reads,      \* what a read of each sensor gives
  pc, armErr,
  printed,    \* the sensors printSensors has printed
  verdict,    \* the verdict of g.Check
  exit,       \* the exit code
  plain       \* history: neither file was there since run was called

node == <<disable, override, faults, reads>>
vars == <<args, node, pc, armErr, printed, verdict, exit, plain>>

Outcomes == {"good", "hot", "failed"}

(* What arm resolves, in its order. *)
Stages == {"class", "sensors", "table", "board", "entry", "select"}

(* The outcome of fs.Parse with what is left over, whether --interval and  *)
(* --read-retries are in range, and the flags that matter.                 *)
Args == [parse : {"ok", "help", "error", "argument"}, numbers : BOOLEAN,
         level : {"known", "unknown"}, format : {"known", "unknown"},
         version : BOOLEAN, list : BOOLEAN, check : BOOLEAN]

Init ==
  /\ args \in Args
  /\ disable \in BOOLEAN /\ override \in Outcomes \cup {"absent"}
  /\ \E f \in Stages \cup {"none"} : faults = {f} \ {"none"}
  /\ reads \in [Sensor -> Outcomes]
  /\ pc = "parse" /\ armErr = FALSE /\ printed = {} /\ verdict = "none" /\ exit = 0
  /\ plain = (~ disable /\ override = "absent")

Exit(c) == pc' = "exited" /\ exit' = c

Goto(p) == pc' = p /\ exit' = exit

-----------------------------------------------------------------------------
(* newLogger succeeds. *)
newLogger == args.level = "known" /\ args.format = "known"

(* What run is asked for: the flags are parsed, --version outranks the     *)
(* logger's and the numeric flags' errors, and these outrank the rest.     *)
Asked ==
  CASE args.parse # "ok" -> args.parse
    [] args.version      -> "version"
    [] ~ newLogger \/ ~ args.numbers -> "error"
    [] args.list         -> "list"
    [] OTHER             -> IF args.check THEN "check" ELSE "daemon"

Parse ==
  /\ pc = "parse"
  /\ CASE Asked \in {"help", "version"}   -> Exit(0)
       [] Asked \in {"error", "argument"} -> Exit(2)
       [] OTHER -> Goto(IF Asked = "list" THEN "list" ELSE "arm")
  /\ UNCHANGED <<args, node, armErr, printed, verdict, plain>>

(* --list: Discover, which may find no sensor at all. *)
List ==
  /\ pc = "list"
  /\ CASE "class" \in faults   -> Exit(2)
       [] "sensors" \in faults -> Exit(0)
       [] OTHER                -> Goto("print")
  /\ UNCHANGED <<args, node, armErr, printed, verdict, plain>>

(* printSensors: a sensor that cannot be read has a dash for its reading. *)
PrintSensor(s) ==
  /\ pc = "print" /\ s \notin printed
  /\ printed' = printed \cup {s}
  /\ IF printed' = Sensor THEN Exit(0) ELSE Goto("print")
  /\ UNCHANGED <<args, node, armErr, verdict, plain>>

(* Mutant: --check goes on without a guard. *)
ArmIgnored ==
  /\ pc = "arm"
  /\ armErr' = (faults # {})
  /\ Goto(IF Asked = "check" THEN "check" ELSE IF faults = {} THEN "daemon" ELSE "stat")
  /\ UNCHANGED <<args, node, printed, verdict, plain>>

(* arm fails at its first step that does. *)
Arm ==
  /\ pc = "arm"
  /\ armErr' = (faults # {})
  /\ Goto(IF faults = {} THEN Asked ELSE "stat")
  /\ UNCHANGED <<args, node, printed, verdict, plain>>

(* Mutant: an arming failure that exits like a trip. *)
StatDisableTrips ==
  /\ pc = "stat"
  /\ IF ~ disable THEN Exit(1)
     ELSE IF Asked = "check" THEN Exit(0) ELSE Goto("daemon")
  /\ UNCHANGED <<args, node, armErr, printed, verdict, plain>>

(* The disable file forgives an arming failure, to --check as well. *)
StatDisable ==
  /\ pc = "stat"
  /\ IF ~ disable THEN Exit(2)
     ELSE IF Asked = "check" THEN Exit(0) ELSE Goto("daemon")
  /\ UNCHANGED <<args, node, armErr, printed, verdict, plain>>

(* One failed reading is already a trip when there is no retry. *)
Judged(r) == CASE r = "good" -> "ok" [] r = "hot" -> "trip"
               [] r = "failed" -> IF 1 <= ReadRetries THEN "tolerated" ELSE "trip"

(* The hottest of the sensors, unless one of them fails. *)
Hottest == IF \E s \in Sensor : reads[s] = "failed" THEN "failed"
           ELSE IF \E s \in Sensor : reads[s] = "hot" THEN "hot" ELSE "good"

(* --check: g.Check stats the disable file, ... *)
CheckDisable ==
  /\ pc = "check"
  /\ IF disable THEN verdict' = "disabled" /\ Goto("report")
                ELSE verdict' = verdict /\ Goto("override")
  /\ UNCHANGED <<args, node, armErr, printed, plain>>

(* ... then the override file, ... *)
CheckOverride ==
  /\ pc = "override"
  /\ Goto(IF override # "absent" THEN "file" ELSE "sensors")
  /\ UNCHANGED <<args, node, armErr, printed, verdict, plain>>

(* ... and reads what it chose.  An override that has gone cannot be read. *)
CheckRead ==
  /\ pc \in {"file", "sensors"}
  /\ verdict' = Judged(IF pc = "sensors" THEN Hottest
                       ELSE IF override = "absent" THEN "failed" ELSE override)
  /\ Goto("report")
  /\ UNCHANGED <<args, node, armErr, printed, plain>>

(* Mutant: a tolerated failure is a success. *)
ReportTolerates ==
  /\ pc = "report"
  /\ Exit(IF verdict = "trip" THEN 1 ELSE 0)
  /\ UNCHANGED <<args, node, armErr, printed, verdict, plain>>

Report ==
  /\ pc = "report"
  /\ Exit(IF verdict \in {"trip", "tolerated"} THEN 1 ELSE 0)
  /\ UNCHANGED <<args, node, armErr, printed, verdict, plain>>

Run == \/ Parse \/ List \/ (\E s \in Sensor : PrintSensor(s))
       \/ Arm \/ StatDisable \/ CheckDisable \/ CheckOverride \/ CheckRead \/ Report

(* The node changes under it. *)
World ==
  /\ pc \notin {"exited", "daemon"}
  /\ \/ disable' = ~ disable /\ UNCHANGED <<override, faults, reads>>
     \/ override' \in Outcomes \cup {"absent"} /\ UNCHANGED <<disable, faults, reads>>
     \/ \E f \in Stages \cup {"none"} : faults' = {f} \ {"none"} /\ UNCHANGED <<disable, override, reads>>
     \/ \E s \in Sensor, r \in Outcomes : reads' = [reads EXCEPT ![s] = r]
        /\ UNCHANGED <<disable, override, faults>>
  /\ plain' = (plain /\ ~ disable' /\ override' = "absent")
  /\ UNCHANGED <<args, pc, armErr, printed, verdict, exit>>

Next == Run \/ World

Spec == Init /\ [][Next]_vars

-----------------------------------------------------------------------------
(* The types of the variables; an arming failure never reaches g.Check,    *)
(* which would have no guard to call.                                      *)
TypeOK ==
  /\ args \in Args /\ disable \in BOOLEAN /\ override \in Outcomes \cup {"absent"}
  /\ faults \subseteq Stages /\ reads \in [Sensor -> Outcomes]
  /\ pc \in {"parse", "list", "print", "arm", "stat", "check", "override", "file", "sensors",
             "report", "exited", "daemon"}
  /\ armErr \in BOOLEAN /\ printed \subseteq Sensor /\ exit \in 0..2 /\ plain \in BOOLEAN
  /\ verdict \in {"none", "ok", "disabled", "tolerated", "trip"}
  /\ pc \in {"check", "override", "file", "sensors", "report"} => Asked = "check" /\ ~ armErr

OneShotCheck == pc = "exited" /\ Asked = "check"

(* On a node without a disable and an override file, --check exits 0 only  *)
(* when the guard armed and every selected sensor could be read and was    *)
(* not too hot: a failed reading the loop would tolerate is a failure here *)
(* (main.go: "a single shot has none to spend").                           *)
CheckIsHonest == OneShotCheck /\ plain /\ exit = 0 => ~ armErr /\ verdict = "ok"

(* The exit codes of a one-shot run mean what the daemon's do: 1 after a   *)
(* reading, 2 without one, although the disable file is looked at once     *)
(* after arming and again by g.Check.                                      *)
OneShotCodes ==
  pc = "exited" => /\ exit = 1 => verdict \in {"trip", "tolerated"}
                   /\ exit = 2 => verdict = "none"
=============================================================================
