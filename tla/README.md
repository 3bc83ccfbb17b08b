# A verification project for slurm-temperature-check

The program keeps a SLURM node from running jobs while it is too hot. An
unprivileged process reads sensors; how that process *ends* decides, through
systemd, whether the node's jobs are killed, the node is drained, or nothing
happens. What is hard about it is therefore not any single function but what
happens between them: files and sensors that change between two system calls,
a signal that arrives before its handler, a slurmd that goes on launching steps
while it is being stopped.

Line references are to the repository (`src/` in `PROJECT.json`).

## Inventory

| Part | State | Operations | What makes it correct |
|---|---|---|---|
| Check loop, `internal/guard/guard.go` | `failures`, `lastVerdict`, `lastSource`, `started` | `Check` (stat disable, stat override, read), `report`, `Run`'s select | ok only when the whole node was seen safe in this pass; trips at the first hot reading or past the retry budget, never otherwise; log never stale; stop honoured |
| Override file, `fileSource.Read` | none | parse, range check, round | nothing that is not a temperature reads as safe |
| Status reporter, `main.go` | `last` | called after each pass | the status line follows the loop |
| Command, `main.run`, `arm`, `rearmWhenResumed` | `armErr`, `ctx` | arm, wait while suspended, re-arm, run | exit 2 only before the loop, exit 1 only from it, 0 when asked to stop; the disable file outranks an arming failure |
| One-shot modes, `main.run` | none | `--help`, `--version`, `--list`, `--check` | the exit code of `--check` tells whether the node is guarded |
| Watchdog wiring, `main.go`, `sdnotify` | `lastPass`, three tickers | ping every W/2 unless stale; ping while suspended | a wedged loop dies in bounded time, progress is never killed |
| Guard unit | unit state, `ExecMain*` | start, READY, stop, timeouts, watchdog | a stop is clean; every other end is a failure |
| `failure-kind`, emergency stop, drain | the units' progress | classify, three commands, one command | exactly one response acts, the right one, completely |
| slurmd drop-in | boot job | ordering | slurmd after the guard |
| hwmon: `Discover`, `Select`, `Sensor.Read`, chip names | paths resolved at arming | discover, select, read then confirm | a reading comes from the chip it is attributed to; every configured socket is watched |
| Board table, `internal/config` | parser state | `Parse`, `Lookup`, `parseThreshold` | one complete, in-range entry per board, or an error |
| DMI, `internal/dmi` | none | `BoardName` | a blank or unreadable name is an error |
| Logger output, packaging, CI | none that matters | | |

Interactions: operators and the kernel change files and sensors under the loop;
systemd sends SIGTERM and SIGABRT to the process and reads its exit status and
its datagrams; `OnFailure=` starts two units that run concurrently with each
other, with slurmd and with an operator who may restart the guard.

`PROJECT.json` lists the hazards found in the code, each with the properties
that would catch it.

## Modules

| Module | Models | Composition |
|---|---|---|
| `Temperature` | bytes of the override file to a temperature | operators |
| `Guard` | the check loop, both sources, `report`, `statusReporter` | extends `Temperature` |
| `GuardPolicy` | the specification table, one decision per pass | implemented by `Guard`; its `Pass` is a pass of the loop in `Service` |
| `GuardProofs`, `ServiceProofs`, `ResponseProofs`, `WatchdogProofs`, `BoardTableProofs`, `CommandProofs` | theorems about the module they are named after | extend it |
| `HwmonProofs` | theorems about `Hwmon` and `ChipNames` | extends `Hwmon` and `ChipNames`, whose names are kept apart for it |
| `NodeProofs` | theorems about `Node` | extends `Node`, instantiates `ServiceProofs` and `ResponseProofs` |
| `Service` | the process from its flags to its exit code, and the guard's unit | instantiates `GuardPolicy` |
| `Response` | `failure-kind`, emergency stop, drain, slurmd and its steps | the guard's unit reduced to how it ended |
| `Node` | the whole node from boot: `OnFailure=`, slurmd's start job | instantiates `Service` and `Response` over shared variables; implements `Response` |
| `Watchdog` | ping, window, suspended keep-alive and systemd's timer, in discrete time | the process reduced to what it is busy with |
| `Hwmon` | `Discover`, `Select`, `Sensor.Read` and `confirmChip` against a changing class | `arm` and the loop's `Sensors.Read` |
| `ChipNames` | `chipName`, `busSuffix`, `pciAddress` over device trees | what `Hwmon` calls the address of a device |
| `BoardTable` | `Load`, `Parse`, `parseThreshold`, `BoardName`, `Lookup` | extends `Temperature` |
| `Command` | flags and one-shot modes, with their exit codes | what it hands over is `Service` |
| `MCGuard`, `MCHwmon`, `MCChipNames`, `MCBoardTable` | constants of the runs | extend the module they are named after |

**Guard.** `pc` is the place in `Run`: the stat of the disable file, the stat of
the override, the read (one step per sensor), `report`, the select. The world
(files, temperatures, unreadable sensors, the context, the ticker's one-slot
channel) may change between any two steps. A sensor read is one step that yields
the sensor's temperature or fails. `Report` is `report`, the observer and the
test of the verdict together: they run in one goroutine and touch nothing that
others write. `outcome`, `streak`, `cool` and `text` are history: what the world
really showed the pass, computed from the world and not from the program's
decisions. Any status datagram may be lost; `status` is then `Stale`, some older line. A content is in tenths of a millidegree, so that rounding is visible;
`OutOfRange` is whatever integer a NaN or an infinity converts to.

**Service.** `proc` is the place in `run` and `rearmWhenResumed`. `arm` is one
step that succeeds exactly when `armable`. `stuck` is a system call that does not
return before the timer that is running (start, stop or watchdog). `oneShot` is a
process that `OPTIONS=` gave `--help`, `--version`, `--list` or `--check`, `mute` one
whose `sdnotify.New` could not dial the socket: neither ever sends READY=1. systemd's
rules are external: an exit of 0 before READY=1 is a failure (`Type=notify`), a start
that has timed out is one however the process then ends (`failing` until it does);
SIGTERM without a handler is a clean end during a stop; READY=1 ends the start;
slurmd's boot job waits for the guard's start job. `Aborted` is the Go runtime's answer to SIGABRT: stack
dump and exit 2, or SIGKILL if it cannot run.

**Response.** Each command of a unit is a step and may fail: the two kills are
ignored then (`ExecStart=-`), the final stop fails the unit. `main` is how the guard
ended; with `MonitorEnv` the units classify the failure they were started for, without
it what `systemctl show` says of the unit at that moment, or nothing if it fails (the
fallback of the script; its two calls are one step). `scontrol` is
`ConditionFileIsExecutable=` of the drain: without it the drain is skipped. `missed` and
`late` are history: the cgroups that had processes in them and were not killed, and
the steps launched after their cgroup was. `Hasty` lets the guard
be restarted while a response is pending. A unit that is started again while its
job is pending keeps one job, and which failure it then sees is left open.

**Node.** A step in which the guard's unit fails also triggers both responses.
`Response` sees how the process ended only while the unit is failed, so its `main`
is mapped to "running" otherwise; that the composition implements
`Response!Spec` under this mapping is checked, which is what lets the results
about `Response` speak of the real unit. The `node` run has `MonitorEnv` true, as the
repository requires systemd 250 or later and `MONITOR_*` exist since 249; the fallback
is the subject of `response_safety` and `response_silent`. The stop at the end of the emergency
stop also removes a start of slurmd that is still queued (systemd replaces the
job), and an operator's start of slurmd waits for the guard's job like the boot
transaction's does.

**Watchdog.** Four clocks that count up (since the last pass, since this pass
began, since systemd was last fed) or down (to the next tick of the loop's and of
the watchdog's ticker). What is due happens before time passes; events of one
instant happen in any order. `since` and `busy` saturate at `Horizon`, beyond
every bound in the properties. WATCHDOG_USEC is an even number of units, so that
halving it is exact.

**Hwmon.** Every system call of `Discover` and of a read is a step: the listing,
the driver's name, the device link, the attributes, the labels (one step per
entry), the value, and each of them may fail although the device is there: `Discover`
then skips the entry, calls it virtual or takes the label for empty, and a pass
fails. `steady` is history: the devices that have stayed since the listing and on which
no read of `Discover` failed. Attributes are any
`tempN`, with `Num` giving N. The kernel gives a device the lowest free index. `Churn` bounds
how often one entry changes between a value read there and its confirmation (two in
the run, so that the entry can change hands: limit 7 below); devices come and go
without a bound otherwise.

**ChipNames.** A place is a bus and the numbers in the device's sysfs name; an
empty address is a name that does not parse; `entry` is `dir` in the code, `hop` the
counter of its loop. The trees are arbitrary, cycles included. **BoardTable.** A line is a blank, a header, a pair or neither; a value
is absent, a text, a NaN or a number in tenths of a millidegree. The reference
(`Sound`, `Complete`, `Says`) looks at the lines of the file and not at the
parser's state. **Command.** The configuration and the files may change between any
two steps; `plain` is history.

Mutants (definitions whose comment says so) are wrong versions of a definition;
the corresponding property fails when they replace it.

## Runs

| Run | Shows | Bounds |
|---|---|---|
| `guard` | `OKMeansSafe`, `JournalCurrent`, `StatusCurrent`, refinement of `GuardPolicy`; a persistently unsafe node or override ends the loop, a stop is honoured | 2 sensors, budget 1, temperatures at the limit and one above, 8 contents incl. both sides of the half millidegree, lost datagrams |
| `service_contract` | exit codes, disable file, stop, and that an unsafe node never keeps an idle guard | budget 2, crashes on |
| `response_safety` | on the fallback without `MONITOR_*`, whatever cannot be read, a failure that is not an exit 2 is the emergency stop's alone; a step outlives the kills only if a kill failed or it was launched later; slurmd stays down | 2 steps, both cgroups, failing commands, `Restart=` on slurmd, the guard restarted only when the responses are done |
| `node` | end to end: a disabled node left alone, the emergency stop only for a reason, never two responses and the right one, the stop holds at boot, a node that stays unsafe is answered; refinement of `Response` | no steps, budget 1, crashes, one-shot flags, mute sockets, slurmd with `Restart=`, with and without `scontrol`, the guard restarted only when the responses are done |
| `watchdog` | progress is never killed, a wedge in bounded time and not too early | intervals 1 to 9, WatchdogSec 0 to 8, passes of up to 3, re-arming of up to 2 units |
| `hwmon_churn` | a device that stays and can be read by `Discover` is in every reading; a reading is of the chip it names | 4 devices, 2 indices, two changes of an entry within a read, full and prefix references, with and without a label |
| `chip_names` | the walk ends, finds the bus in reach, and keeps chips apart | 3 devices, 2 class entries, 6 places, 3 links |
| `board_table` | `Parse` accepts exactly the sound and complete tables, and keeps what they say | 6 lines, 2 boards, 6 values |
| `command_modes` | `--check` is honest on a plain node; exit codes | 2 sensors |
| `service_watchdog` | violation: watchdog kill is exit 2, hence a drain | |
| `response_race` | violation: a step launched between the two kills survives | |
| `response_silent` | violation: on the fallback, a question that fails leaves an exit 2 without any response | |

Why the bounds are enough: two sensors are the smallest number where one can
hide the other and where the order of the reads matters; a budget of one has a
tolerated failure and one past it (`service_contract` has two); two temperatures are the
two sides of the only comparison. The proofs remove these bounds for the safety
properties (see below), and they alone cover `MONITOR_*` with a guard that is restarted
while a response is pending (`StopKills`, `StopHolds`) and the whole node with job steps
(`NodeProofs`): the commands of the `node` run do not depend on the steps, which
`response_safety` has. Two steps allow one step found by the emergency stop and one launched
during it. Two indices and four devices let every device lose its index to each of
the others, with the neighbour's index taken or free. Three devices hold the
longest walk of the bounded loop, the self link, and cycles of two and three; the
code's bound of eight is a constant (three in the run, so that the bound is hit).
Six lines hold two complete sections and one line too many of every kind. The
intervals of `watchdog` lie below, between and above WatchdogSec/2 and
WatchdogSec. All other variables are finite without a bound, so the runs are
exhaustive, and no run needs a state constraint.

### Fairness

- The loop's goroutine and the ticker are scheduled (weak). That a read returns
  is part of it; reads that do not return are `stuck` in `Service`.
- The select is strongly fair towards the stop: Go chooses at random among ready
  cases, so it cannot choose the tick for ever.
- systemd's timers run out and the units it has started proceed (weak).
- Nothing is assumed of operators, sensors, files, network or slurmd; liveness
  properties state what they need as a premise (`<>[]`, `<>online`).

## Findings

Places where the program does not do what the repository says of it, and one where the
repository contradicts itself. 1 to 3 are counterexamples of a run; 4 and 5 are exceptions
without which a property of a passing run would fail:

1. **Watchdog kill is an exit 2** (`service_watchdog`; `main.go:199`,
   `failure-kind:54`). systemd sends SIGABRT; the Go runtime exits 2; the wedged
   guard is classified as never armed and the node is drained with its jobs running.
   The README promises the emergency stop. Handling the signal,
   `WatchdogSignal=SIGKILL`, or looking at `MONITOR_SERVICE_RESULT` would each
   restore it. A Go panic ends the same way.
2. **A step launched between the two kills survives** the emergency stop
   (`response_race`).
3. **A failure that cannot be read may be a silent nothing** (`response_silent`;
   `failure-kind:39`). On the fallback the two units ask systemd separately. If the
   emergency stop reads an exit of 2 and the drain's question fails, both skip;
   `README.md:148-150` says that cannot be. `MONITOR_*` rule it out.
4. **An exit of 0 before READY=1 kills jobs** (`main.go:111`; the exception `oneShot` of
   `JobsDieForAReason`, run `node`). A one-shot flag left in `OPTIONS=` is a protocol
   failure of a `Type=notify` unit, hence "armed". `README.md:130` says exit 0 leaves
   slurmd alone, `failure-kind:24-26` that the node was being watched.
5. **A device that cannot be read at arming is dropped silently** (`hwmon.go:141-150`,
   `180`, `220`; the premise `steady` of `SteadyDevicesRead`, run `hwmon_churn`), as long as
   another one matches, although `Discover` "returns every temperature sensor" and the
   prefix form "watches all sockets" (`README.md:309`).
6. **`Restart=` against the final stop** (`response_safety`): `README.md:168-170` and the
   unit say the stop disarms it, the troubleshooting table (`README.md:495`) that it can
   win. `EmergencyStopHolds` bears out the first: systemd's stop cancels a pending restart
   and stops a completed one, so a slurmd that is back by itself means a final stop that
   failed. That a stop cancels a restart is a rule of systemd, taken as such.

Limits of the properties that hold, that is, where their premises are needed. Each
is a statement of the docs or comments that is stronger than what is checked:

1. `EmergencyStopKills` speaks of steps in one of the two cgroups: one that is in
   neither (`README.md:494`) is out of reach of the three commands and of the model.
2. `StopFailsOnlyWhenForced` has to allow a read that outlasts `TimeoutStopSec=10`:
   such a stop fails the unit and is answered by the emergency stop.
3. `JobsDieForAReason` has to allow a process that was killed: a start timeout while
   arming is "a signal" and kills jobs although the guard never armed. It also allows
   finding 4 and a socket that cannot be dialled, where systemd never saw the guard ready.
4. `RightResponse` and `JobsDieForAReason` need `MONITOR_*` and a guard that is not
   restarted while a response is pending: on the fallback each unit asks systemd at its
   own moment, so both may act or skip, and a question that fails turns an exit of 2
   into a kill, as documented. On a node without `scontrol` an exit of 2 is answered by
   nothing, which `RightResponse` and `UnsafeNodeIsAnswered` allow there, also when it
   is the exit 2 of finding 1.
5. `StatusCurrent` excepts a newest datagram that was lost: it is not repeated while the
   state lasts (`main.go:344`).
6. `WedgeIsBounded` grows with `--interval` (`main.go:374`): two WatchdogSec, as
   documented in the unit, hold as long as an interval is at most half a WatchdogSec.
7. `ReadingIsFromChip` allows an entry that has changed twice between value and
   confirmation: a chip that takes over the index confirms another's value
   (`hwmon.go:87`).
8. `SteadyDevicesRead` speaks of devices that were there when `Discover` listed the
   class and that it could read (finding 5): a socket that registers later is not
   watched, and nothing says so as long as another one matches (`hwmon.go:132`).
9. `DistinctChipsDistinctNames` leaves PCI domains out, as `pciAddress` does
   (`hwmon.go:332`).
10. `CheckIsHonest` needs a node without a disable file: with it `--check` exits 0,
    even when the guard cannot arm (`main.go:167`).
11. No property says that a reading precedes slurmd's start at boot: READY=1 is sent before
    `Run` takes its first pass (`main.go:222`) and slurmd waits only for READY=1, although
    `README.md:34` and `temperature-check.conf:4-5` say the reading comes first. In the
    model `BootSlurmd` is enabled with the unit active and no pass done.

## Proofs

Every safety invariant and action property that a passing run checks is also a
theorem, for every value of the constants that the modules' named assumptions allow.
The two refinements (`Guard` implements `GuardPolicy`, `Node`
implements `Response`) are theorems as well. No invariant is inductive as
it stands; each module has an `Inv`, the conjunction of named parts, that is, with
one lemma per action or group of actions.

| Module | Theorems | For every | Extra hypothesis |
|---|---|---|---|
| `GuardProofs` | `TypeCorrect`, `OKIsSafe`, `JournalIsCurrent`, `StatusIsCurrent`, `Refinement` | number of sensors, limit, budget, temperatures, contents | |
| `ServiceProofs` | `TypeCorrect`, `CodesAreSplit`, `DisableIsHonoured`, `StopIsClean` | retry budget, crashes or not | |
| `ResponseProofs` | `TypeCorrect`, `ArmedStops`, `StopKills`, `StopHolds` | set of steps and cgroups, with and without `MONITOR_*` | `~ Hasty` for `ArmedStops` |
| `NodeProofs` | `Refinement`, `RightOneActs`, `JobsAreSpared`, `DisabledIsLeftAlone` | all of the above | `~ Hasty` and `MonitorEnv` for `RightOneActs` and `JobsAreSpared`, `~ Hasty` for `DisabledIsLeftAlone` |
| `WatchdogProofs` | `TypeCorrect`, `ProgressSpared`, `WedgeBounded` | interval, even WatchdogSec, duration of a pass and of re-arming | |
| `CommandProofs` | `TypeCorrect`, `CheckTellsTheTruth`, `OneShotCodesSplit` | set of sensors, retry budget | |
| `BoardTableProofs` | `TypeCorrect`, `ParserAcceptsExactly`, `TableMirrorsFile`, `ArmedPlausible` | length of the file, board names, values | |
| `HwmonProofs`, on `Hwmon` | `TypeCorrect`, `SteadyAreRead`, `ReadingsBearTheChip` | devices, names, attributes, labels, indices, changes, failing reads | |
| `HwmonProofs`, on `ChipNames` | `WalkStaysInBound`, `VirtualMeansNoBus`, `ChipsAreKeptApart`, `WalkIsBounded` | class entries, device trees, places, bounds on the walk | |

The extra hypotheses are limit 4 above: without them the property is
false, and the model shows how.

**Guard.** `Scan`: in the middle of `Sensors.Read`, the hottest reading is within the
limit exactly when all sensors read so far are (`PrefixStep` is the induction step on
index sets); without it nothing relates the running maximum to the sensors.
`Budget`: the counter equals the failures in a row, and one past the budget exists
only together with a trip that ends the loop. `Logged`, `Told`: what was last
written is what `report` and `statusReporter` remember, which makes their
suppression sound. `RoundAbove` and `TemperatureIsNumber` are the arithmetic. The
refinement maps the phase to "tripped" as soon as `Check` has returned a trip; every
other step of the loop is a stutter.

**Service.** An exit code is judged after the process has gone, so `Ending` ties the
code to how it ended, `Begun` and `Reason` tie the end to where the loop was and why
it tripped, `Calm` says what the disable file keeps from happening while it is there
(a trip, a re-arming, a stuck call), and `Asked` that a process asked to stop and still
alive has its handler. `Mode` says where a one-shot, a mute or a cancelled
process can be, and `Watchful` that an exit of 0 fails the unit only of the first two.

**Response.** `Patience` says that a response under way was started for the state
systemd still shows, which is what the fallback of `failure-kind` relies on.
`Spared`, `Answered` and `Drainable` say which response has acted at each point:
whatever `Seen` yields for an ending other than an exit of 2, `Kind` calls it armed
(`KindOfSeen`), so the stop has acted and the drain has not. `Killing` follows the two
kills command by command: what is left in a cgroup was missed or is late. `NoStepSurvives`
(finding 2) is what `EmergencyStopKills` does not say, since it allows late steps.

**Node.** `NodeProofs` cites the step lemmas of the two components through
`SP == INSTANCE ServiceProofs` and `RP == INSTANCE ResponseProofs WITH main <- ...`,
after showing that a step of the node is a step of each of them or a stutter
(`SameProcess`, `SameSystemd`, `SameAnswer`). It adds `BootJobGone`, which lets
slurmd's boot job be an ordinary start of slurmd.

**Watchdog.** The clocks are related by linear inequalities: `Cadence` (the loop's tick
and the age of the last pass), `Gated` (how long the gate has been closed),
`FedLoop`, the four positions of the loop with respect to systemd's timer, and
`FedSuspended`, `Wedging`, `KilledWedged`. `FedLoop` is what makes half of WatchdogSec
the right period: a ping that goes out leaves the timer at zero, and only a gate that
is closed lets two periods pass.

**BoardTable.** The parser keeps a map and the current section; the reference looks at
the whole file. `Mirror` connects them: the defined boards are the headers, each
knows its line, the current section is the last (`CurrentIsLast`), and the values held
of a section are those of its lines (`Holds`). `SoundStep` is the core: given
`Mirror`, the file with one more line is sound exactly if `Parse` goes on after it, which
makes the parser neither laxer nor stricter than `Sound`. `CompleteIs` does the same
for the test at the end. Needed of the constants: values have a kind, only the
empty string is absent, an infinity has a sign (`BoardTableAssumption`).

**Hwmon.** `SteadyFound`: a steady device is still to be visited, being
visited with what is known of it so far being its own, or collected with all its
attributes and no others; each entry is visited once (`Listed`). `SteadySelected`
carries this over `Select`, and `SteadyRead` says that a value read at the entry of a
steady device is its own. A read of `Discover` that fails costs only the device at that
entry its steadiness (`DiscoverFrame`). `Pass` accounts for every selected sensor. None of
these needs a bound on the changes. `Confirmation` says that as long as the entry has
changed at most once since the value was read, the device behind it is the one the
value came from, or none, and the driver that is compared is that device's.
`SmallestExists` (from the well-foundedness of the naturals) makes the order of
the listing well defined.

**ChipNames.** `ChipNamesAssumption` says that the addresses have the shape their bus
gives them, slots below 32 and functions below 8. `VirtualOnlyWithoutBus` compares what a loop
found with a set of chains of links, hence `OnTheWay`: after `hop` links there is a chain
of length `hop + 1` to the current device on which nothing is on a bus, and every chain
agrees with it that far. `OwnerFound` and `NoOwner` are the two ways the loop ends; in
the second, a link that points at itself needs an induction along the chain
(`StaysPut`, by a smallest counterexample). `SuffixTells` is the injectivity of
`busSuffix`, with `PciAddressTells` for the folded PCI address. `WalkDescends`, an
action property that is stated beside its proof and is no run's, is the safety half
of `WalkEnds`: each step leaves fewer entries, or fewer links of this one.

Only model-checked:

- the liveness properties (`HotSensorEndsLoop`, `BadOverrideEndsLoop`, `StopIsHonoured`, `UnsafeNodeEndsGuard`, `StopEnds`,
  `UnsafeNodeIsAnswered`, `WalkEnds`): fairness is outside the prover's reach. For
  `WalkEnds` what is left to TLC is that a step is always taken, the descent is proved;
- the violations, which are counterexamples.

## Not modelled

Left out:

- text: what `--list`, `--check`, the log handlers and the error messages print, and
  how numbers and names are spelled (`MilliCelsius.String`, `describe`, the digits
  `splitPair` parses);
- in `Guard`, the "Watching" datagram that `statusReporter` sends on the pass that trips,
  just before the "Tripped" one, and log levels other than info, which hide lines;
- the values of readings in `Hwmon` and the origin of readings in `Guard`: joining
  the two would multiply their interleavings and add no behaviour, since a reading
  that is not confirmed is a failed one to the loop;
- packaging, CI and the hardening options of the units.
