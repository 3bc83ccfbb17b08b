------------------------------- MODULE Guard -------------------------------
(***************************************************************************)
(* The check loop of one node: Guard.Run, Check and report of              *)
(* internal/guard/guard.go, the two sources it reads (fileSource and       *)
(* Sensors) and the observer main.go hangs off it (statusReporter).        *)
(*                                                                         *)
(* The loop is one thread.  Everything it looks at - the disable file, the *)
(* override file, the sensors, the stop signal, the ticker - is changed by *)
(* somebody else between any two of its system calls, so every system call *)
(* is a step of its own: a stat of each file, one read per sensor.         *)
(* A sensor is read in one step that either yields its temperature or      *)
(* fails, in whichever way the hwmon layer fails.                          *)
(*                                                                         *)
(* outcome, streak, cool, text are history variables: what the world       *)
(* really showed the pass.  No action reads them.                          *)
(***************************************************************************)
EXTENDS Temperature

CONSTANTS
  NumSensors,    \* how many sensors arm selected
  Temps,         \* temperatures a sensor may report, in millidegrees
  Contents,      \* contents the override file may have
  Max,           \* Guard.Max, in millidegrees
  ReadRetries    \* Guard.ReadRetries

ASSUME GuardAssumption ==
  /\ NumSensors \in Nat
  /\ Temps \subseteq Int
  /\ Contents \subseteq Content
  /\ Max \in Nat
  /\ ReadRetries \in Nat

Sensor == 1..NumSensors

VARIABLES
  disable,       \* the disable file can be stated
  override,      \* the content of the override file, Absent when there is none
  temp,          \* the temperature of each sensor
  unreadable,    \* the sensors whose read fails
  cancelled,     \* ctx is done: SIGTERM or SIGINT arrived
  tick,          \* a tick is waiting in the ticker's channel (capacity one)
  pc,            \* where the loop is
  src,           \* the source chosen by this pass
  idx,           \* the sensor to read next
  hottest,       \* the hottest sensor read so far
  res,           \* the Result of the pass: verdict and source
  failures,      \* Guard.failures
  lastVerdict,   \* Guard.lastVerdict
  lastSource,    \* Guard.lastSource
  started,       \* Guard.started
  journal,       \* the newest journal entry above debug level
  last,          \* statusReporter's last
  status,        \* the status line systemd holds, Stale when it is an older one
  outcome,       \* history: what the pass met
  streak,        \* history: passes in a row whose reading failed
  cool,          \* history: sensors this pass saw at or below the limit
  text           \* history: the override content this pass read

env     == <<disable, override, temp, unreadable, cancelled>>
reading == <<src, idx, hottest, cool, text>>
report  == <<lastVerdict, lastSource, started, journal, last, status>>
vars    == <<env, tick, pc, reading, res, failures, report, outcome, streak>>

Verdicts == {"ok", "disabled", "tolerated", "trip"}
Sources  == {"disable", "override", "sensors"}
Result   == [verdict : Verdicts, source : Sources]
Exits    == {"tripped", "stopped"}
PCs      == {"stat_disable", "stat_override", "read", "report", "select"} \cup Exits
Entries  == [msg : {"armed", "tripped", "failed", "suspended", "override", "resumed"},
             source : Sources]
Lines    == [msg : {"none", "suspended", "failed", "watching", "tripped"},
             source : Sources]
Stale    == [msg |-> "stale", source |-> "sensors"]

(***************************************************************************)
(* Guard.Run logs "guard armed" and starts checking at once; main has told *)
(* systemd "Watching <sensors>" with READY=1.  The zero Verdict is OK.     *)
(***************************************************************************)
Init ==
  /\ disable \in BOOLEAN
  /\ override \in Contents
  /\ temp \in [Sensor -> Temps]
  /\ unreadable \in SUBSET Sensor
  /\ cancelled \in BOOLEAN
  /\ tick = FALSE
  /\ pc = "stat_disable"
  /\ src = "sensors" /\ idx = 1 /\ hottest = 0 /\ cool = {} /\ text = Absent
  /\ res = [verdict |-> "ok", source |-> "sensors"]
  /\ failures = 0
  /\ lastVerdict = "ok" /\ lastSource = "sensors" /\ started = FALSE
  /\ journal = [msg |-> "armed", source |-> "sensors"]
  /\ last = [msg |-> "none", source |-> "sensors"]
  /\ status = [msg |-> "watching", source |-> "sensors"]
  /\ outcome = "none" /\ streak = 0

-----------------------------------------------------------------------------
(* Check: the disable file outranks everything. *)

(* Mutant: the retry budget survives a suspension. *)
CheckDisabledKeepsFailures ==
  /\ pc = "stat_disable" /\ disable
  /\ res' = [verdict |-> "disabled", source |-> "disable"]
  /\ outcome' = "disabled" /\ streak' = 0
  /\ pc' = "report"
  /\ UNCHANGED <<env, tick, reading, report, failures>>

CheckDisabled ==
  /\ pc = "stat_disable" /\ disable
  /\ failures' = 0
  /\ res' = [verdict |-> "disabled", source |-> "disable"]
  /\ outcome' = "disabled" /\ streak' = 0
  /\ pc' = "report"
  /\ UNCHANGED <<env, tick, reading, report>>

CheckEnabled ==
  /\ pc = "stat_disable" /\ ~ disable
  /\ pc' = "stat_override"
  /\ UNCHANGED <<env, tick, reading, report, res, failures, outcome, streak>>

(* An override that can be stated stands in for the sensors. *)
StatOverride ==
  /\ pc = "stat_override"
  /\ src' = IF override.kind = "absent" THEN "sensors" ELSE "override"
  /\ idx' = 1 /\ hottest' = 0 /\ cool' = {} /\ text' = Absent
  /\ pc' = "read"
  /\ UNCHANGED <<env, tick, report, res, failures, outcome, streak>>

(* Mutant: the retry budget off by one. *)
FailedVerdictOneMore(n) == IF n <= ReadRetries + 1 THEN "tolerated" ELSE "trip"

(* The verdict on the n-th failed reading in a row. *)
FailedVerdict(n) == IF n <= ReadRetries THEN "tolerated" ELSE "trip"

(* src.Read returned an error. *)
Failed ==
  /\ failures' = failures + 1
  /\ res' = [verdict |-> FailedVerdict(failures'), source |-> src]
  /\ outcome' = "failed" /\ streak' = streak + 1
  /\ pc' = "report"

(* Mutant: the limit off by one. *)
ObtainedLate(r) ==
  /\ failures' = 0
  /\ res' = [verdict |-> IF r > Max + 1 THEN "trip" ELSE "ok", source |-> src]
  /\ pc' = "report"

(* src.Read returned the reading r. *)
Obtained(r) ==
  /\ failures' = 0
  /\ res' = [verdict |-> IF r > Max THEN "trip" ELSE "ok", source |-> src]
  /\ pc' = "report"

(* fileSource.Read.  The file may be gone, or torn, since it was stated.   *)
(* The pass is hot, whatever the program makes of it, when the number in   *)
(* the file rounds to more than the limit.                                 *)
ReadOverride ==
  /\ pc = "read" /\ src = "override"
  /\ text' = override
  /\ \/ /\ IsTemperature(override)
        /\ Obtained(MilliCelsius(override))
        /\ outcome' = IF override.kind = "number" /\ override.v < 10 * Max + 5
                      THEN "good" ELSE "hot"
        /\ streak' = 0
     \/ /\ ~ IsTemperature(override)
        /\ Failed
  /\ UNCHANGED <<env, tick, src, idx, hottest, cool, report>>

(* Mutant: the last sensor read, not the hottest. *)
HotterLast(i, v, h) == v

(* The running maximum of Sensors.Read; the first sensor always counts. *)
Hotter(i, v, h) == IF i = 1 \/ v > h THEN v ELSE h

(* One iteration of Sensors.Read that fails, or no sensor at all. *)
ReadSensorFails ==
  /\ pc = "read" /\ src = "sensors"
  /\ NumSensors = 0 \/ idx \in unreadable
  /\ Failed
  /\ UNCHANGED <<env, tick, reading, report>>

(* One iteration that succeeds; the last one hands the hottest to Check.   *)
ReadSensor ==
  /\ pc = "read" /\ src = "sensors"
  /\ idx \in Sensor \ unreadable
  /\ hottest' = Hotter(idx, temp[idx], hottest)
  /\ cool' = IF temp[idx] <= Max THEN cool \cup {idx} ELSE cool
  /\ \/ /\ idx < NumSensors
        /\ idx' = idx + 1
        /\ UNCHANGED <<pc, res, failures, outcome, streak>>
     \/ /\ idx = NumSensors
        /\ Obtained(hottest')
        /\ outcome' = IF cool' = Sensor THEN "good" ELSE "hot"
        /\ streak' = 0
        /\ idx' = idx
  /\ UNCHANGED <<env, tick, src, text, report>>

-----------------------------------------------------------------------------
(* report, Observe and the end of the pass. *)

(* Mutant: the suppression keyed on the verdict alone. *)
UnchangedVerdictOnly == started /\ res.verdict = lastVerdict

Unchanged == started /\ res.verdict = lastVerdict /\ res.source = lastSource

(* The journal entry report writes for a result it does not suppress. *)
Entry(r) ==
  [msg |-> CASE r.verdict = "trip" -> "tripped"
             [] r.verdict = "tolerated" -> "failed"
             [] r.verdict = "disabled" -> "suspended"
             [] r.verdict = "ok" -> IF r.source = "override" THEN "override" ELSE "resumed",
   source |-> r.source]

(* Mutant: a status line without its source. *)
StatusLineNoSource(r) ==
  [msg |-> CASE r.verdict = "disabled" -> "suspended"
             [] r.verdict = "tolerated" -> "failed"
             [] OTHER -> "watching",
   source |-> "sensors"]

(* The line statusReporter composes. *)
StatusLine(r) ==
  [msg |-> CASE r.verdict = "disabled" -> "suspended"
             [] r.verdict = "tolerated" -> "failed"
             [] OTHER -> "watching",
   source |-> r.source]

(* notify.Status: a datagram that is lost is not noticed, and leaves       *)
(* systemd with some older line.                                           *)
Notify(line) == status' \in {line, Stale}

(* report, then the observer, then Run's test of the verdict.  After a     *)
(* trip main overwrites the status line with the reason.  The variables of *)
(* the Read that returned are gone.                                        *)
Report ==
  /\ pc = "report"
  /\ journal' = IF res.verdict \in {"ok", "disabled"} /\ Unchanged THEN journal ELSE Entry(res)
  /\ lastVerdict' = res.verdict /\ lastSource' = res.source /\ started' = TRUE
  /\ last' = StatusLine(res)
  /\ \/ /\ res.verdict = "trip"
        /\ Notify([msg |-> "tripped", source |-> res.source])
        /\ pc' = "tripped"
     \/ /\ res.verdict # "trip"
        /\ IF StatusLine(res) = last THEN status' = status ELSE Notify(StatusLine(res))
        /\ pc' = "select"
  /\ idx' = 1 /\ hottest' = 0
  /\ UNCHANGED <<env, tick, src, cool, text, res, failures, outcome, streak>>

(* Mutant: a loop that never looks at the context. *)
SelectStopNever ==
  /\ pc = "select" /\ cancelled /\ FALSE
  /\ pc' = "stopped"
  /\ UNCHANGED <<env, tick, reading, res, failures, report, outcome, streak>>

(* The select at the bottom of the loop: Go picks either ready case. *)
SelectStop ==
  /\ pc = "select" /\ cancelled
  /\ pc' = "stopped"
  /\ UNCHANGED <<env, tick, reading, res, failures, report, outcome, streak>>

SelectTick ==
  /\ pc = "select" /\ tick
  /\ tick' = FALSE
  /\ src' = "sensors" /\ cool' = {} /\ text' = Absent
  /\ pc' = "stat_disable"
  /\ UNCHANGED <<env, idx, hottest, res, failures, report, outcome, streak>>

-----------------------------------------------------------------------------
(* The ticker and the world. *)

(* A tick that finds the channel full is dropped. *)
Tick ==
  /\ pc \notin Exits
  /\ tick' = TRUE
  /\ UNCHANGED <<env, pc, reading, res, failures, report, outcome, streak>>

Cancel ==
  /\ ~ cancelled
  /\ cancelled' = TRUE
  /\ UNCHANGED <<disable, override, temp, unreadable>>

ToggleDisable ==
  /\ disable' = ~ disable
  /\ UNCHANGED <<override, temp, unreadable, cancelled>>

WriteOverride ==
  /\ override' \in Contents
  /\ UNCHANGED <<disable, temp, unreadable, cancelled>>

SensorChanges(s) ==
  /\ \/ temp' \in {[temp EXCEPT ![s] = t] : t \in Temps} /\ unreadable' = unreadable
     \/ unreadable' \in {unreadable \cup {s}, unreadable \ {s}} /\ temp' = temp
  /\ UNCHANGED <<disable, override, cancelled>>

World ==
  /\ pc \notin Exits
  /\ Cancel \/ ToggleDisable \/ WriteOverride \/ \E s \in Sensor : SensorChanges(s)
  /\ UNCHANGED <<tick, pc, reading, res, failures, report, outcome, streak>>

(* The process has exited. *)
Done == pc \in Exits /\ UNCHANGED vars

Loop ==
  \/ CheckDisabled \/ CheckEnabled \/ StatOverride
  \/ ReadOverride \/ ReadSensorFails \/ ReadSensor
  \/ Report \/ SelectTick

Next == Loop \/ SelectStop \/ Tick \/ World \/ Done

(* The loop's thread and the ticker are scheduled; the select that finds   *)
(* both cases ready picks one at random, so it cannot pass over the stop   *)
(* for ever.  Nothing is assumed of the world.  That a read returns is     *)
(* assumed: one that does not is the watchdog's case.                      *)
Fairness == WF_vars(Loop) /\ SF_vars(SelectStop) /\ WF_vars(Tick)

Spec == Init /\ [][Next]_vars
FairSpec == Spec /\ Fairness

-----------------------------------------------------------------------------
(* What the loop promises. *)

Policy == INSTANCE GuardPolicy WITH
  phase <- IF pc = "stopped" THEN "stopped"
           ELSE IF res.verdict = "trip" THEN "tripped" ELSE "running",
  verdict <- res.verdict

(* The types of the variables; failures never grows past the budget by     *)
(* more than the failed reading that trips (guard.go, Check).              *)
TypeOK ==
  /\ disable \in BOOLEAN /\ override \in Content
  /\ temp \in [Sensor -> Int] /\ unreadable \subseteq Sensor
  /\ cancelled \in BOOLEAN /\ tick \in BOOLEAN
  /\ pc \in PCs /\ src \in {"override", "sensors"}
  /\ idx \in 1..(NumSensors + 1) /\ hottest \in Int
  /\ res \in Result /\ failures \in 0..(ReadRetries + 1)
  /\ lastVerdict \in Verdicts /\ lastSource \in Sources /\ started \in BOOLEAN
  /\ journal \in Entries /\ last \in Lines /\ status \in Lines \cup {Stale}
  /\ outcome \in {"none", "disabled", "good", "hot", "failed"} /\ streak \in Nat
  /\ cool \subseteq Sensor /\ text \in Content

(* The verdict of a pass stands on what the pass itself read: between the  *)
(* end of Check and the next stat.                                         *)
PassDecided == pc \in {"report", "select"}

(* A pass that says ok has seen the whole node safe: either every sensor   *)
(* was read during this pass, at or below the limit - whatever changed     *)
(* between the reads - or the override file held a real number that does   *)
(* not round to more than the limit.  Nothing that is not a temperature (a *)
(* torn write, a NaN, an infinity, a file gone since the stat) reads as    *)
(* safe (guard.go, Sensors.Read and fileSource.Read).                      *)
OKMeansSafe ==
  PassDecided /\ res.verdict = "ok" /\ outcome # "none" =>
    \/ res.source = "sensors" /\ NumSensors > 0 /\ cool = Sensor
    \/ res.source = "override" /\ text.kind = "number"
       /\ minReading <= text.v /\ text.v < 10 * Max + 5

(* The journal is never stale: after every pass its newest entry says what *)
(* the guard does now and where the reading comes from, although report    *)
(* suppresses the entries of passes it takes to be unchanged.              *)
JournalCurrent == pc = "select" => journal = Entry(res)

(* The line `systemctl status` shows, which statusReporter "keeps in step  *)
(* with the loop" by a suppression of its own, says after every pass what  *)
(* the guard does now and where the reading comes from, unless the newest  *)
(* datagram was lost: it is not sent again, but an older loss heals with   *)
(* the next line that arrives.                                             *)
StatusCurrent ==
  pc = "select" /\ status # Stale =>
    status = [msg |-> CASE res.verdict = "disabled" -> "suspended"
                        [] res.verdict = "tolerated" -> "failed"
                        [] OTHER -> "watching",
              source |-> res.source]

(* The loop, with its separate stats and reads and its counter that four   *)
(* code paths touch, decides every pass as the specification table does:   *)
(* trips at the first hot reading, at the first failure past the budget,   *)
(* and never otherwise (guard.go, Check and Run).                          *)
ImplementsPolicy == Policy!Spec

Exited == pc \in Exits

(* A node one of whose sensors stays hot or unreadable, checking on and no *)
(* override, is taken out of service - also when the sensor flickers       *)
(* between hot and unreadable, and when another sensor's failures hide it. *)
HotSensorEndsLoop ==
  \A s \in Sensor :
    <>[](~ disable /\ override = Absent /\ (s \in unreadable \/ temp[s] > Max)) => <>Exited

(* An override that stays present and never holds a safe temperature ends  *)
(* the loop too, whatever the operator keeps rewriting it to.              *)
BadOverrideEndsLoop ==
  <>[](~ disable /\ override.kind # "absent"
       /\ (override.kind = "number" => override.v >= 10 * Max + 5)) => <>Exited

(* A stop request ends the loop, even when a tick is always waiting next   *)
(* to it in the select.                                                    *)
StopIsHonoured == cancelled ~> Exited
=============================================================================
