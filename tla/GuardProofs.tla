---------------------------- MODULE GuardProofs ----------------------------
(***************************************************************************)
(* Proofs about the check loop, for any number of sensors, any limit, any  *)
(* retry budget and any contents of the override file.                     *)
(***************************************************************************)
EXTENDS Guard, TLAPS

(* The counter counts the failed readings in a row, and the loop does not  *)
(* go on once it has passed the budget.                                    *)
Budget ==
  /\ streak = failures
  /\ failures > ReadRetries => res.verdict = "trip"
  /\ res.verdict = "trip" => pc \in {"report", "tripped"}

(* The loop of Sensors.Read: among the sensors read so far, the hottest is *)
(* within the limit exactly when all of them are.                          *)
Scan ==
  pc = "read" /\ src = "sensors" =>
    /\ idx \in Sensor \/ NumSensors = 0
    /\ cool \subseteq 1..(idx - 1)
    /\ idx > 1 => (hottest <= Max <=> cool = 1..(idx - 1))

(* The newest journal entry is the one report would write for the result   *)
(* it remembers.                                                           *)
Logged ==
  /\ started => journal = Entry([verdict |-> lastVerdict, source |-> lastSource])
  /\ pc = "select" => started /\ lastVerdict = res.verdict /\ lastSource = res.source

(* The line systemd holds is the last one sent, unless that was lost. *)
Told ==
  pc # "tripped" =>
    /\ last.msg # "none" => status \in {last, Stale}
    /\ pc = "select" => last = StatusLine(res)

Inv == TypeOK /\ Budget /\ Scan /\ OKMeansSafe /\ Logged /\ Told

-----------------------------------------------------------------------------
(* Rounding to millidegrees cannot hide an excess: the rounded value is    *)
(* above the limit exactly from half a millidegree over it.                *)
LEMMA RoundAbove ==
  ASSUME NEW t \in Int, NEW m \in Nat
  PROVE  /\ Round(t) \in Int
         /\ Round(t) > m <=> t >= 10 * m + 5
  BY DEF Round

(* What the guard takes for a temperature is a number in range. *)
LEMMA TemperatureIsNumber ==
  ASSUME NEW c \in Content, IsTemperature(c)
  PROVE  /\ c.kind = "number"
         /\ c.v \in Int
         /\ minReading <= c.v
         /\ MilliCelsius(c) = Round(c.v)
  BY DEF Content, Kinds, IsTemperature, Parses, Below, minReading, MilliCelsius

(* report always writes an entry, and statusReporter a line. *)
LEMMA EntryType ==
  ASSUME NEW r \in Result
  PROVE  Entry(r) \in Entries /\ StatusLine(r) \in Lines /\ StatusLine(r).msg # "none"
  BY DEF Result, Verdicts, Entry, Entries, StatusLine, Lines

(* The four verdicts of the policy, one per outcome. *)
LEMMA PolicyVerdicts ==
  ASSUME NEW n
  PROVE  /\ Policy!VerdictOn("disabled", n) = "disabled"
         /\ Policy!VerdictOn("good", n) = "ok"
         /\ Policy!VerdictOn("hot", n) = "trip"
         /\ Policy!VerdictOn("failed", n) = FailedVerdict(n)
  BY Zenon DEF Policy!VerdictOn, FailedVerdict

(* The step of the induction over the sensors, on sets of indices. *)
LEMMA PrefixStep ==
  ASSUME NEW i \in Nat \ {0}, NEW S, S \subseteq 1..(i - 1)
  PROVE  /\ S \cup {i} \subseteq 1..i
         /\ S \cup {i} = 1..i <=> S = 1..(i - 1)
         /\ S # 1..i
         /\ i = 1 => S = 1..(i - 1)
  <1>1. 1..i = 1..(i - 1) \cup {i}
    OBVIOUS
  <1>2. i \notin 1..(i - 1)
    OBVIOUS
  <1>3. i = 1 => 1..(i - 1) = {}
    OBVIOUS
  <1> HIDE <1>1
  <1>4. S \cup {i} = 1..(i - 1) \cup {i} <=> S = 1..(i - 1)
    BY <1>2, Zenon
  <1> QED
    BY <1>1, <1>2, <1>3, <1>4, Zenon

(* The loop starts in a state that satisfies the invariant. *)
LEMMA InitInv == Init => Inv
  <1> SUFFICES ASSUME Init PROVE Inv
    OBVIOUS
  <1> USE GuardAssumption
  <1>1. TypeOK
    <2>1. override \in Content /\ temp \in [Sensor -> Int] /\ unreadable \subseteq Sensor
      BY DEF Init
    <2>2. text \in Content
      BY DEF Init, Absent, Content, Kinds
    <2>3. res \in Result /\ journal \in Entries /\ last \in Lines /\ status \in Lines
      BY DEF Init, Result, Verdicts, Sources, Entries, Lines
    <2>4. disable \in BOOLEAN /\ cancelled \in BOOLEAN /\ tick \in BOOLEAN /\ started \in BOOLEAN
      BY DEF Init
    <2>5. idx \in 1..(NumSensors + 1) /\ hottest \in Int
      BY DEF Init
    <2>6. failures \in 0..(ReadRetries + 1) /\ streak \in Nat
      BY DEF Init
    <2> QED
      BY <2>1, <2>2, <2>3, <2>4, <2>5, <2>6 DEF Init, TypeOK, PCs, Verdicts, Sources
  <1>2. Budget /\ Logged /\ Told
    BY DEF Init, Budget, Logged, Told
  <1>3. Scan /\ OKMeansSafe
    BY DEF Init, Scan, OKMeansSafe, PassDecided
  <1> QED
    BY <1>1, <1>2, <1>3 DEF Inv

(* A failed reading: the counter moves by one and the verdict follows it. *)
LEMMA FailedStep ==
  ASSUME Inv, Failed, pc = "read", UNCHANGED <<env, tick, src, idx, hottest, cool, report>>,
         text' \in Content
  PROVE  Inv'
  <1> USE GuardAssumption
  <1> USE DEF env, report
  <1>1. failures \in 0..ReadRetries
    BY DEF Inv, TypeOK, Budget
  <1>2. /\ res' \in Result
        /\ res'.verdict \in {"tolerated", "trip"}
        /\ res'.verdict = "trip" <=> failures' > ReadRetries
    BY <1>1 DEF Inv, TypeOK, Failed, FailedVerdict, Result, Verdicts, Sources
  <1>3. TypeOK'
    BY <1>1, <1>2 DEF Inv, TypeOK, Failed, PCs
  <1>4. Budget'
    BY <1>1, <1>2 DEF Inv, Budget, Failed
  <1>5. Scan' /\ OKMeansSafe'
    BY <1>2 DEF Failed, Scan, OKMeansSafe
  <1>6. Logged' /\ Told'
    BY DEF Inv, Failed, Logged, Told
  <1> QED
    BY <1>3, <1>4, <1>5, <1>6 DEF Inv

(* One more sensor read: the hottest is within the limit exactly when all  *)
(* the sensors read so far are.                                            *)
LEMMA ScanStep ==
  ASSUME Inv, ReadSensor
  PROVE  /\ idx \in Sensor /\ pc = "read" /\ src = "sensors"
         /\ NumSensors > 0
         /\ hottest' \in Int /\ cool' \subseteq 1..idx
         /\ hottest' <= Max <=> cool' = 1..idx
  <1> USE GuardAssumption
  <1>1. /\ idx \in Sensor /\ temp[idx] \in Int /\ pc = "read" /\ src = "sensors"
        /\ cool \subseteq 1..(idx - 1)
        /\ idx > 1 => (hottest <= Max <=> cool = 1..(idx - 1))
        /\ NumSensors > 0
    BY DEF Inv, TypeOK, Scan, ReadSensor, Sensor
  <1>2. hottest \in Int /\ idx \in Int /\ Max \in Int /\ NumSensors \in Int
    BY DEF Inv, TypeOK
  <1>3. hottest' \in Int /\ cool' \subseteq 1..idx /\ (hottest' <= Max <=> cool' = 1..idx)
    <2>1. hottest' \in Int /\ (hottest' <= Max <=> temp[idx] <= Max /\ (idx > 1 => hottest <= Max))
      BY <1>1, <1>2 DEF ReadSensor, Hotter, Sensor
    <2>2. cool' = IF temp[idx] <= Max THEN cool \cup {idx} ELSE cool
      BY DEF ReadSensor
    <2>3. /\ cool \cup {idx} \subseteq 1..idx
          /\ cool \cup {idx} = 1..idx <=> cool = 1..(idx - 1)
          /\ cool # 1..idx
          /\ idx = 1 => cool = 1..(idx - 1)
      <3>1. idx \in Nat \ {0}
        BY <1>1 DEF Sensor
      <3> QED
        BY <1>1, <3>1, PrefixStep
    <2>4. idx > 1 \/ idx = 1
      BY <1>1 DEF Sensor
    <2>5. hottest' <= Max <=> temp[idx] <= Max /\ cool = 1..(idx - 1)
      BY <1>1, <2>1, <2>3, <2>4
    <2> QED
      BY <2>1, <2>2, <2>3, <2>5
  <1> QED
    BY <1>1, <1>3

(* Every step of the loop, of the ticker and of the world keeps it. *)
LEMMA StepInv == Inv /\ [Next]_vars => Inv'
  <1> SUFFICES ASSUME Inv, [Next]_vars PROVE Inv'
    OBVIOUS
  <1> USE GuardAssumption
  <1> USE DEF env, reading, report
  <1>1. CASE CheckDisabled
    <2>1. res' \in Result
      BY <1>1 DEF CheckDisabled, Result, Verdicts, Sources
    <2>2. TypeOK'
      BY <1>1, <2>1 DEF Inv, TypeOK, CheckDisabled, PCs
    <2>3. Budget'
      BY <1>1 DEF CheckDisabled, Budget
    <2>4. Scan' /\ OKMeansSafe' /\ Logged' /\ Told'
      BY <1>1 DEF Inv, CheckDisabled, Scan, OKMeansSafe, Logged, Told
    <2> QED
      BY <2>2, <2>3, <2>4 DEF Inv
  <1>2. CASE CheckEnabled
    <2>1. TypeOK'
      BY <1>2 DEF Inv, TypeOK, CheckEnabled, PCs
    <2>2. Budget' /\ Scan' /\ OKMeansSafe' /\ Logged' /\ Told'
      BY <1>2 DEF Inv, CheckEnabled, Budget, Scan, OKMeansSafe, PassDecided, Logged, Told
    <2> QED
      BY <2>1, <2>2 DEF Inv
  <1>3. CASE StatOverride
    <2>1. TypeOK'
      <3>1. text' \in Content
        BY <1>3 DEF StatOverride, Absent, Content, Kinds
      <3> QED
        BY <1>3, <3>1 DEF Inv, TypeOK, StatOverride, PCs
    <2>2. Scan'
      BY <1>3 DEF Scan, StatOverride, Sensor
    <2>3. Budget' /\ OKMeansSafe' /\ Logged' /\ Told'
      BY <1>3 DEF Inv, StatOverride, Budget, OKMeansSafe, PassDecided, Logged, Told
    <2> QED
      BY <2>1, <2>2, <2>3 DEF Inv
  <1>4. CASE ReadOverride
    <2>1. override \in Content
      BY DEF Inv, TypeOK
    <2>2. CASE ~ IsTemperature(override)
      BY <1>4, <2>1, <2>2, FailedStep DEF ReadOverride
    <2>3. CASE IsTemperature(override)
      <3>1. /\ override.kind = "number" /\ override.v \in Int /\ minReading <= override.v
            /\ MilliCelsius(override) = Round(override.v)
        BY <2>1, <2>3, TemperatureIsNumber
      <3>2. MilliCelsius(override) > Max <=> override.v >= 10 * Max + 5
        BY <3>1, RoundAbove
      <3>3. /\ failures' = 0 /\ streak' = 0 /\ pc' = "report" /\ text' = override
            /\ src = "override" /\ pc = "read"
            /\ outcome' = IF override.v < 10 * Max + 5 THEN "good" ELSE "hot"
            /\ res' = [verdict |-> IF override.v >= 10 * Max + 5 THEN "trip" ELSE "ok",
                       source |-> "override"]
            /\ UNCHANGED <<env, tick, src, idx, hottest, cool, report>>
        BY <1>4, <2>3, <3>1, <3>2 DEF ReadOverride, Obtained
      <3> HIDE <1>4
      <3>4. TypeOK'
        <4>1. res' \in Result
          BY <3>3 DEF Result, Verdicts, Sources
        <4> QED
          BY <2>1, <3>3, <4>1 DEF Inv, TypeOK, PCs
      <3>5. OKMeansSafe'
        BY <3>1, <3>3 DEF OKMeansSafe
      <3>6. Budget' /\ Scan' /\ Logged' /\ Told'
        BY <3>3 DEF Inv, Budget, Scan, Logged, Told
      <3> QED
        BY <3>4, <3>5, <3>6 DEF Inv
    <2> QED
      BY <2>2, <2>3
  <1>5. CASE ReadSensorFails
    <2>1. text' \in Content
      BY <1>5 DEF ReadSensorFails, Inv, TypeOK
    <2> QED
      BY <1>5, <2>1, FailedStep DEF ReadSensorFails
  <1>6. CASE ReadSensor
    <2>1. idx \in Sensor /\ pc = "read" /\ src = "sensors" /\ NumSensors > 0
      BY <1>6, ScanStep
    <2>2. idx \in Int /\ NumSensors \in Int
      BY DEF Inv, TypeOK
    <2>3. hottest' \in Int /\ cool' \subseteq 1..idx /\ (hottest' <= Max <=> cool' = 1..idx)
      BY <1>6, ScanStep
    <2>4. UNCHANGED <<disable, override, temp, unreadable, cancelled, tick, src, text,
                      lastVerdict, lastSource, started, journal, last, status>>
      BY <1>6 DEF ReadSensor
    <2>5. CASE idx < NumSensors
      <3>1. idx' = idx + 1 /\ UNCHANGED <<pc, res, failures, outcome, streak>>
        BY <1>6, <2>2, <2>5 DEF ReadSensor
      <3>2. TypeOK'
        BY <2>1, <2>2, <2>3, <2>4, <2>5, <3>1 DEF Inv, TypeOK, Sensor
      <3>3. Scan'
        BY <2>1, <2>2, <2>3, <2>5, <3>1 DEF Scan, Sensor
      <3>4. Budget' /\ OKMeansSafe' /\ Logged' /\ Told'
        BY <2>1, <2>4, <3>1 DEF Inv, Budget, OKMeansSafe, PassDecided, Logged, Told
      <3> QED
        BY <3>2, <3>3, <3>4 DEF Inv
    <2>6. CASE idx = NumSensors
      <3>1. /\ idx' = idx /\ failures' = 0 /\ streak' = 0 /\ pc' = "report"
            /\ res' = [verdict |-> IF hottest' > Max THEN "trip" ELSE "ok", source |-> "sensors"]
            /\ outcome' = IF cool' = Sensor THEN "good" ELSE "hot"
        BY <1>6, <2>1, <2>2, <2>6 DEF ReadSensor, Obtained
      <3>2. res' \in Result
        BY <3>1 DEF Result, Verdicts, Sources
      <3>3. TypeOK'
        BY <2>2, <2>3, <2>4, <2>6, <3>1, <3>2 DEF Inv, TypeOK, PCs, Sensor
      <3>4. OKMeansSafe'
        BY <2>1, <2>2, <2>3, <2>6, <3>1 DEF OKMeansSafe, Sensor
      <3>5. Budget' /\ Scan' /\ Logged' /\ Told'
        BY <2>1, <2>4, <3>1 DEF Inv, Budget, Scan, Logged, Told
      <3> QED
        BY <3>3, <3>4, <3>5 DEF Inv
    <2> QED
      BY <1>6, <2>5, <2>6 DEF ReadSensor
  <1>7. CASE Report
    <2>1. /\ res \in Result /\ Entry(res) \in Entries
          /\ StatusLine(res) \in Lines /\ StatusLine(res).msg # "none"
      BY EntryType DEF Inv, TypeOK
    <2>2. res = [verdict |-> res.verdict, source |-> res.source]
      BY <2>1 DEF Result
    <2>3. journal' = Entry(res)
      BY <1>7, <2>2 DEF Inv, Logged, Report, Unchanged
    <2>4. Logged'
      BY <1>7, <2>2, <2>3 DEF Report, Logged
    <2>5. Told'
      BY <1>7, <2>1 DEF Inv, Told, Report, Notify
    <2>6. TypeOK'
      <3>1. status' \in Lines \cup {Stale}
        <4>1. CASE res.verdict = "trip"
          <5>1. [msg |-> "tripped", source |-> res.source] \in Lines
            BY <2>1 DEF Result, Lines
          <5> QED
            BY <1>7, <4>1, <5>1 DEF Inv, TypeOK, Report, Notify
        <4>2. CASE res.verdict # "trip"
          BY <1>7, <2>1, <4>2 DEF Inv, TypeOK, Report, Notify
        <4> QED
          BY <4>1, <4>2
      <3>2. journal' \in Entries /\ last' \in Lines
        BY <1>7, <2>1, <2>3 DEF Report
      <3>3. lastVerdict' \in Verdicts /\ lastSource' \in Sources /\ started' \in BOOLEAN
        BY <1>7, <2>1 DEF Report, Result
      <3>4. pc' \in PCs
        BY <1>7 DEF Report, PCs, Exits
      <3> QED
        BY <1>7, <3>1, <3>2, <3>3, <3>4 DEF Inv, TypeOK, Report
    <2>7. Budget' /\ Scan' /\ OKMeansSafe'
      BY <1>7 DEF Inv, Report, Budget, Scan, OKMeansSafe, PassDecided
    <2> QED
      BY <2>4, <2>5, <2>6, <2>7 DEF Inv
  <1>8. CASE SelectTick
    <2>1. TypeOK'
      <3>1. text' \in Content
        BY <1>8 DEF SelectTick, Absent, Content, Kinds
      <3> QED
        BY <1>8, <3>1 DEF Inv, TypeOK, SelectTick, PCs
    <2>2. Budget' /\ Scan' /\ OKMeansSafe' /\ Logged' /\ Told'
      BY <1>8 DEF Inv, SelectTick, Budget, Scan, OKMeansSafe, PassDecided, Logged, Told
    <2> QED
      BY <2>1, <2>2 DEF Inv
  <1>9. CASE SelectStop
    <2>1. TypeOK'
      BY <1>9 DEF Inv, TypeOK, SelectStop, PCs, Exits
    <2>2. Budget' /\ Scan' /\ OKMeansSafe' /\ Logged' /\ Told'
      BY <1>9 DEF Inv, SelectStop, Budget, Scan, OKMeansSafe, PassDecided, Logged, Told
    <2> QED
      BY <2>1, <2>2 DEF Inv
  <1>10. CASE Tick
    <2>1. TypeOK'
      BY <1>10 DEF Inv, TypeOK, Tick
    <2>2. Budget' /\ Scan' /\ OKMeansSafe' /\ Logged' /\ Told'
      BY <1>10 DEF Inv, Tick, Budget, Scan, OKMeansSafe, PassDecided, Logged, Told
    <2> QED
      BY <2>1, <2>2 DEF Inv
  <1>11. CASE World
    <2>1. UNCHANGED <<tick, pc, reading, res, failures, report, outcome, streak>>
      BY <1>11 DEF World
    <2>2. /\ disable' \in BOOLEAN /\ override' \in Content /\ temp' \in [Sensor -> Int]
          /\ unreadable' \subseteq Sensor /\ cancelled' \in BOOLEAN
      <3> USE DEF Inv, TypeOK
      <3>1. CASE Cancel
        BY <3>1 DEF Cancel
      <3>2. CASE ToggleDisable
        BY <3>2 DEF ToggleDisable
      <3>3. CASE WriteOverride
        BY <3>3 DEF WriteOverride
      <3>4. CASE \E s \in Sensor : SensorChanges(s)
        BY <3>4 DEF SensorChanges
      <3> QED
        BY <1>11, <3>1, <3>2, <3>3, <3>4 DEF World
    <2>3. TypeOK'
      BY <2>1, <2>2 DEF Inv, TypeOK
    <2>4. Budget' /\ Scan' /\ OKMeansSafe' /\ Logged' /\ Told'
      BY <2>1 DEF Inv, Budget, Scan, OKMeansSafe, PassDecided, Logged, Told
    <2> QED
      BY <2>3, <2>4 DEF Inv
  <1>12. CASE UNCHANGED vars
    BY <1>12 DEF vars, Inv, TypeOK, Budget, Scan, OKMeansSafe, PassDecided, Logged, Told
  <1> QED
    BY <1>1, <1>2, <1>3, <1>4, <1>5, <1>6, <1>7, <1>8, <1>9, <1>10, <1>11, <1>12
       DEF Next, Loop, Done

-----------------------------------------------------------------------------
(* The invariant holds of every reachable state of the loop. *)
THEOREM Invariance == Spec => []Inv
  BY InitInv, StepInv, PTL DEF Spec

(* The loop's variables keep their types and Guard.failures never exceeds  *)
(* the budget by more than the reading that trips.                         *)
THEOREM TypeCorrect == Spec => []TypeOK
  <1>1. Inv => TypeOK
    BY DEF Inv
  <1> QED
    BY <1>1, Invariance, PTL

(* Whatever number of sensors is watched, whatever the world does between  *)
(* two reads, a pass that says ok saw every sensor at or below the limit,  *)
(* or a real number in the override file that does not round above it.     *)
THEOREM OKIsSafe == Spec => []OKMeansSafe
  <1>1. Inv => OKMeansSafe
    BY DEF Inv
  <1> QED
    BY <1>1, Invariance, PTL

(* The suppression in Guard.report never leaves the journal stale. *)
THEOREM JournalIsCurrent == Spec => []JournalCurrent
  <1>1. Inv => JournalCurrent
    <2> SUFFICES ASSUME Inv, pc = "select" PROVE journal = Entry(res)
      BY DEF JournalCurrent
    <2>1. res = [verdict |-> res.verdict, source |-> res.source]
      BY DEF Inv, TypeOK, Result
    <2> QED
      BY <2>1 DEF Inv, Logged
  <1> QED
    BY <1>1, Invariance, PTL

(* Nor does statusReporter's leave the status line stale, unless the       *)
(* newest datagram was lost.                                               *)
THEOREM StatusIsCurrent == Spec => []StatusCurrent
  <1>1. Inv => StatusCurrent
    <2> SUFFICES ASSUME Inv, pc = "select", status # Stale PROVE status = StatusLine(res)
      BY Zenon DEF StatusCurrent, StatusLine
    <2>1. last = StatusLine(res)
      BY DEF Inv, Told
    <2>2. StatusLine(res).msg # "none"
      BY EntryType DEF Inv, TypeOK
    <2> QED
      BY <2>1, <2>2 DEF Inv, Told
  <1> QED
    BY <1>1, Invariance, PTL

-----------------------------------------------------------------------------
(* A failed reading is a pass of the policy whose outcome is "failed". *)
LEMMA FailedIsPass ==
  ASSUME Inv, Failed, pc = "read"
  PROVE  Policy!Pass("failed")
  <1>1. res.verdict # "trip" /\ streak = failures
    BY DEF Inv, Budget
  <1>2. res'.verdict = FailedVerdict(streak')
    BY <1>1 DEF Failed
  <1> QED
    BY <1>1, <1>2, PolicyVerdicts DEF Failed, Policy!Pass

(* A reading that is obtained is a pass whose outcome is "good" or "hot",  *)
(* as long as the verdict is trip exactly for the hot one.                 *)
LEMMA ObtainedIsPass ==
  ASSUME Inv, pc = "read", pc' = "report", streak' = 0, NEW hot \in BOOLEAN,
         res'.verdict = (IF hot THEN "trip" ELSE "ok"),
         outcome' = (IF hot THEN "hot" ELSE "good")
  PROVE  \E o \in Policy!Outcomes : Policy!Pass(o)
  <1>1. res.verdict # "trip"
    BY DEF Inv, Budget
  <1>2. CASE hot
    BY <1>1, <1>2, PolicyVerdicts DEF Policy!Pass, Policy!Outcomes
  <1>3. CASE ~ hot
    BY <1>1, <1>3, PolicyVerdicts DEF Policy!Pass, Policy!Outcomes
  <1> QED
    BY <1>2, <1>3

(* Every step of the loop is a pass of the policy, a stop, or a stutter. *)
LEMMA StepSimulation == Inv /\ [Next]_vars => [Policy!Next]_(Policy!policy)
  <1> SUFFICES ASSUME Inv, [Next]_vars PROVE [Policy!Next]_(Policy!policy)
    OBVIOUS
  <1> USE GuardAssumption
  <1>a. ASSUME UNCHANGED <<res, outcome, streak>>, pc # "stopped", pc' # "stopped"
        PROVE  UNCHANGED Policy!policy
    BY <1>a DEF Policy!policy
  <1>1. CASE CheckDisabled
    <2>1. res.verdict # "trip"
      BY <1>1 DEF CheckDisabled, Inv, Budget
    <2> QED
      BY <1>1, <2>1, PolicyVerdicts DEF CheckDisabled, Policy!Next, Policy!Pass, Policy!Outcomes
  <1>2. CASE CheckEnabled \/ StatOverride \/ Report \/ SelectTick
    BY <1>a, <1>2 DEF CheckEnabled, StatOverride, Report, SelectTick
  <1>3. CASE ReadOverride
    <2>1. CASE ~ IsTemperature(override)
      BY <1>3, <2>1, FailedIsPass DEF ReadOverride, Policy!Next, Policy!Outcomes
    <2>2. CASE IsTemperature(override)
      <3>1. override \in Content
        BY DEF Inv, TypeOK
      <3>2. /\ override.kind = "number" /\ override.v \in Int
            /\ MilliCelsius(override) > Max <=> override.v >= 10 * Max + 5
        BY <2>2, <3>1, TemperatureIsNumber, RoundAbove
      <3> DEFINE hot == override.v >= 10 * Max + 5
      <3>3. /\ res'.verdict = (IF hot THEN "trip" ELSE "ok")
            /\ outcome' = (IF hot THEN "hot" ELSE "good")
            /\ pc = "read" /\ pc' = "report" /\ streak' = 0
        BY <1>3, <2>2, <3>2 DEF ReadOverride, Obtained
      <3>4. hot \in BOOLEAN
        OBVIOUS
      <3> HIDE DEF hot
      <3> QED
        BY <3>3, <3>4, ObtainedIsPass DEF Policy!Next
    <2> QED
      BY <2>1, <2>2
  <1>4. CASE ReadSensorFails
    BY <1>4, FailedIsPass DEF ReadSensorFails, Policy!Next, Policy!Outcomes
  <1>5. CASE ReadSensor
    <2>1. CASE idx < NumSensors
      <3>1. UNCHANGED <<pc, res, outcome, streak>>
        BY <1>5, <2>1 DEF ReadSensor
      <3> QED
        BY <3>1 DEF Policy!policy
    <2>2. CASE idx = NumSensors
      <3>1. /\ res'.verdict = IF hottest' > Max THEN "trip" ELSE "ok"
            /\ outcome' = IF cool' = Sensor THEN "good" ELSE "hot"
            /\ pc = "read" /\ pc' = "report" /\ streak' = 0 /\ src = "sensors" /\ src' = src
        BY <1>5, <2>2 DEF ReadSensor, Obtained
      <3> DEFINE hot == cool' # Sensor
      <3>2. hottest' > Max <=> hot
        BY <1>5, <2>2, ScanStep DEF Sensor
      <3> QED
        BY <3>1, <3>2, ObtainedIsPass DEF Policy!Next
    <2> QED
      BY <1>5, <2>1, <2>2 DEF ReadSensor
  <1>6. CASE SelectStop
    <2>1. res.verdict # "trip"
      BY <1>6 DEF SelectStop, Inv, Budget
    <2> QED
      BY <1>6, <2>1 DEF SelectStop, Policy!Next, Policy!Stop
  <1>7. CASE Tick \/ World
    BY <1>a, <1>7 DEF Tick, World, Exits
  <1>8. CASE UNCHANGED vars
    BY <1>8 DEF vars, Policy!policy
  <1> QED
    BY <1>1, <1>2, <1>3, <1>4, <1>5, <1>6, <1>7, <1>8 DEF Next, Loop, Done

(* The check loop implements the policy: its verdicts are those of the     *)
(* specification table, pass by pass, for every retry budget.              *)
THEOREM Refinement == Spec => ImplementsPolicy
  <1>1. Init => Policy!Init
    BY DEF Init, Policy!Init
  <1> QED
    BY <1>1, Invariance, StepSimulation, PTL DEF Spec, ImplementsPolicy, Policy!Spec
=============================================================================
