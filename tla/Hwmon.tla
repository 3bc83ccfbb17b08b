------------------------------- MODULE Hwmon -------------------------------
(***************************************************************************)
(* From class entries to readings: Discover, chipSensors, Select and       *)
(* Sensor.Read with confirmChip (internal/hwmon), called the way arm and   *)
(* Sensors.Read call them, against a kernel that registers and unregisters *)
(* devices between any two of their system calls.                          *)
(*                                                                         *)
(* A class entry hwmonN is an index, not an identity: the kernel gives a   *)
(* device the lowest free one.  A chip name is <<driver, bus, ...>> and is *)
(* composed in two steps, the driver's name attribute and the "device"     *)
(* link; ChipNames has the details of the second, and a link on its walk   *)
(* that cannot be resolved counts as the first one failing.  A reading is  *)
(* reduced to the device it came from, labels are given in lower case, and *)
(* the label files of a device are read in one step.  Every read may fail, *)
(* also of a device that is there.  Select's result is a set: it is read   *)
(* to the end or to the first failure, in any order.  A local of a         *)
(* function that has returned is set back.                                 *)
(***************************************************************************)
EXTENDS Naturals, Sequences

CONSTANTS
  Num,         \* Num[a]: the number N of the attribute a = tempN
  Device,      \* devices with temperatures
  Chip,        \* Chip[d]: the name of d, as composed when d holds still
  Label,       \* Label[d]: a function from d's attributes to labels, "" for none
  Index,       \* how many class entries there can be: hwmon0 and up
  ChipRefs,    \* values of chip in the board table, split at their dashes
  SensorRefs,  \* values of sensor in the board table, "" for none
  Churn,       \* bound on the changes behind an entry between a value and its confirmation
  None         \* no device

ASSUME HwmonAssumption ==
  /\ None \notin Device
  /\ Index \in Nat \ {0}
  /\ Churn \in Nat
  /\ <<>> \notin ChipRefs
  /\ \A d \in Device : Chip[d] \in Seq(STRING) /\ Len(Chip[d]) >= 2
  /\ \A d \in Device : DOMAIN Label[d] \subseteq DOMAIN Num
  /\ \A a \in DOMAIN Num : Num[a] \in Nat
  /\ \A a, b \in DOMAIN Num : Num[a] = Num[b] => a = b

Entry == 0..(Index - 1)

VARIABLES
  slot,       \* the device behind each class entry
  chipRef, sensorRef,
  pc,         \* where arm or the check loop is
  todo,       \* class entries still to visit, or sensors still to read
  dir,        \* the entry being visited
  driver,     \* the first half of the name being composed
  chip,       \* the name composed
  attrs,      \* the attributes found in dir
  found,      \* what Discover has collected
  selected,   \* what Select returned
  sensor,     \* the sensor being read
  from,       \* the device its value came from
  obtained,   \* the readings of this pass
  steady,     \* history: the devices registered ever since Discover listed the
              \* class that no read of Discover has failed on
  moved       \* history: changes behind the sensor's entry since its value was read

kernel  == <<slot, steady, moved>>
refs    == <<chipRef, sensorRef>>
visit   == <<dir, driver, chip, attrs>>
vars    == <<kernel, refs, pc, todo, visit, found, selected, sensor, from, obtained>>

NoSensor == [chip |-> <<>>, attr |-> "", label |-> "", dir |-> 0]

Registered == {slot[i] : i \in Entry} \ {None}

Init ==
  /\ slot = [i \in Entry |-> None] /\ steady = {} /\ moved = 0
  /\ chipRef \in ChipRefs /\ sensorRef \in SensorRefs
  /\ pc = "list" /\ todo = {} /\ dir = 0 /\ driver = "" /\ chip = <<>> /\ attrs = {}
  /\ found = {} /\ selected = {} /\ sensor = NoSensor /\ from = None /\ obtained = {}

-----------------------------------------------------------------------------
(* The kernel. *)

Confirming == pc \in {"confirm_name", "confirm_link"}

Moves == /\ moved' = IF Confirming /\ slot'[sensor.dir] # slot[sensor.dir] THEN moved + 1 ELSE moved
         /\ moved' <= Churn
         /\ UNCHANGED <<refs, pc, todo, visit, found, selected, sensor, from, obtained>>

Register(d) ==
  /\ d \notin Registered
  /\ \E i \in Entry : /\ slot[i] = None /\ \A j \in 0..(i - 1) : slot[j] # None
                     /\ slot' = [slot EXCEPT ![i] = d]
  /\ UNCHANGED steady
  /\ Moves

Unregister(d) ==
  /\ d \in Registered
  /\ slot' = [i \in Entry |-> IF slot[i] = d THEN None ELSE slot[i]]
  /\ steady' = steady \ {d}
  /\ Moves

Kernel == \E d \in Device : Register(d) \/ Unregister(d)

-----------------------------------------------------------------------------
(* chipName, as two system calls on the entry i. *)

DriverAt(i) == Chip[slot[i]][1]

(* The half the "device" link gives.  A link that cannot be resolved, and  *)
(* that of a device that has gone, makes the device a virtual one.         *)
VirtualAddress == <<"virtual", "0">>
AddressAt(i) == IF slot[i] = None THEN VirtualAddress ELSE Tail(Chip[slot[i]])

-----------------------------------------------------------------------------
(* Discover. *)

ForgetVisit == dir' = 0 /\ driver' = "" /\ chip' = <<>> /\ attrs' = {}

(* A read of Discover at the entry i goes well, or fails on what is there. *)
ReadsWell   == UNCHANGED steady
FailsOn(i)  == steady' = steady \ {slot[i]}

(* os.ReadDir of the class directory; arm fails with it. *)
List ==
  /\ pc = "list"
  /\ \/ /\ todo' = {i \in Entry : slot[i] # None}
        /\ steady' = Registered
        /\ pc' = "next"
     \/ pc' = "failed" /\ UNCHANGED <<todo, steady>>
  /\ UNCHANGED <<slot, moved, refs, visit, found, selected, sensor, from, obtained>>

(* The name of the next entry, in the order of the listing; an entry whose *)
(* name cannot be read or is blank is skipped.                             *)
DiscoverName ==
  /\ pc = "next" /\ todo # {}
  /\ LET next == CHOOSE i \in todo : \A j \in todo : i <= j
     IN  /\ todo' = todo \ {next}
         /\ \/ /\ slot[next] # None
               /\ dir' = next /\ driver' = DriverAt(next) /\ pc' = "link" /\ ReadsWell
            \/ UNCHANGED <<dir, driver, pc>> /\ FailsOn(next)
  /\ UNCHANGED <<slot, moved, refs, chip, attrs, found, selected, sensor, from, obtained>>

DiscoverLink ==
  /\ pc = "link"
  /\ \/ chip' = <<driver>> \o AddressAt(dir) /\ ReadsWell
     \/ chip' = <<driver>> \o VirtualAddress /\ FailsOn(dir)
  /\ driver' = "" /\ pc' = "attrs"
  /\ UNCHANGED <<slot, moved, refs, todo, dir, attrs, found, selected, sensor, from, obtained>>

(* chipSensors lists the entry; one that cannot be listed is skipped. *)
ListAttrs ==
  /\ pc = "attrs"
  /\ \/ /\ slot[dir] # None
        /\ attrs' = DOMAIN Label[slot[dir]] /\ pc' = "labels" /\ ReadsWell
        /\ UNCHANGED <<dir, driver, chip>>
     \/ ForgetVisit /\ pc' = "next" /\ FailsOn(dir)
  /\ UNCHANGED <<slot, moved, refs, todo, found, selected, sensor, from, obtained>>

LabelAt(i, a) ==
  IF slot[i] # None /\ a \in DOMAIN Label[slot[i]] THEN Label[slot[i]][a] ELSE ""

(* It reads the labels, where one that cannot be read is an empty one, and *)
(* Discover appends what it made of the entry.                             *)
ReadLabels ==
  /\ pc = "labels"
  /\ \E readable \in SUBSET attrs :
       /\ found' = found \cup {[chip |-> chip, attr |-> a, dir |-> dir,
                                 label |-> IF a \in readable THEN LabelAt(dir, a) ELSE ""] : a \in attrs}
       /\ IF readable = attrs THEN ReadsWell ELSE FailsOn(dir)
  /\ pc' = "next" /\ ForgetVisit
  /\ UNCHANGED <<slot, moved, refs, todo, selected, sensor, from, obtained>>

Discover == List \/ DiscoverName \/ DiscoverLink \/ ListAttrs \/ ReadLabels

-----------------------------------------------------------------------------
(* Select. *)

(* s.Chip is the reference, or starts with it and a dash. *)
Matches(name, ref) == Len(ref) <= Len(name) /\ SubSeq(name, 1, Len(ref)) = ref

OnChip == {s \in found : Matches(s.chip, chipRef)}

(* Mutant: one sensor per chip name instead of one per device. *)
LowestPerName(S) ==
  {s \in S : \A t \in S : t.chip = s.chip =>
     Num[s.attr] < Num[t.attr] \/ (s.attr = t.attr /\ s.dir <= t.dir)}

(* The lowest-numbered attribute per directory. *)
Lowest(S) == {s \in S : \A t \in S : t.dir = s.dir => Num[s.attr] <= Num[t.attr]}

Chosen == IF sensorRef = "" THEN Lowest(OnChip)
          ELSE {s \in OnChip : sensorRef \in {s.label, s.attr}}

(* Mutant: selecting nothing is not an error. *)
SelectAnything ==
  /\ pc = "next" /\ todo = {}
  /\ selected' = Chosen /\ found' = {}
  /\ pc' = "pass"
  /\ UNCHANGED <<kernel, refs, todo, visit, sensor, from, obtained>>

(* arm fails when there is no sensor, no such chip or no such attribute. *)
Select ==
  /\ pc = "next" /\ todo = {}
  /\ selected' = Chosen /\ found' = {}
  /\ pc' = IF Chosen = {} THEN "failed" ELSE "pass"
  /\ UNCHANGED <<kernel, refs, todo, visit, sensor, from, obtained>>

-----------------------------------------------------------------------------
(* Sensors.Read and Sensor.Read. *)

(* A new pass, after one that failed ("pass") or gave a reading ("done"). *)
StartPass ==
  /\ pc \in {"pass", "done"}
  /\ obtained' = {} /\ todo' = selected
  /\ pc' = "sensor"
  /\ UNCHANGED <<kernel, refs, visit, found, selected, sensor, from>>

ForgetRead == sensor' = NoSensor /\ from' = None /\ driver' = "" /\ moved' = 0

(* One sensor fails, and the pass with it. *)
FailPass ==
  /\ ForgetRead /\ obtained' = {} /\ todo' = {}
  /\ pc' = "pass"

(* The value, from whatever device is behind the path now.  The read or    *)
(* the parse may fail.                                                     *)
ReadValue(s) ==
  /\ pc = "sensor" /\ s \in todo
  /\ \/ /\ slot[s.dir] # None /\ s.attr \in DOMAIN Label[slot[s.dir]]
        /\ sensor' = s /\ from' = slot[s.dir] /\ todo' = todo \ {s}
        /\ pc' = "confirm_name"
        /\ UNCHANGED <<driver, moved, obtained>>
     \/ FailPass
  /\ UNCHANGED <<slot, steady, refs, dir, chip, attrs, found, selected>>

(* confirmChip composes the name again; a name that cannot be read fails. *)
ConfirmName ==
  /\ pc = "confirm_name"
  /\ \/ /\ slot[sensor.dir] # None
        /\ driver' = DriverAt(sensor.dir) /\ pc' = "confirm_link"
        /\ UNCHANGED <<moved, todo, sensor, from, obtained>>
     \/ FailPass
  /\ UNCHANGED <<slot, steady, refs, dir, chip, attrs, found, selected>>

(* Mutant: no comparison. *)
IsConfirmedAlways(address) == TRUE

IsConfirmed(address) == <<driver>> \o address = sensor.chip

(* The last reading completes the pass, and the hottest goes to Check. *)
ConfirmLink ==
  /\ pc = "confirm_link"
  /\ \E address \in {AddressAt(sensor.dir), VirtualAddress} :
       IF IsConfirmed(address)
       THEN /\ obtained' = obtained \cup {[sensor |-> sensor, from |-> from, moved |-> moved]}
            /\ pc' = IF todo = {} THEN "done" ELSE "sensor"
            /\ ForgetRead /\ todo' = todo
       ELSE FailPass
  /\ UNCHANGED <<slot, steady, refs, dir, chip, attrs, found, selected>>

Reading == StartPass \/ (\E s \in selected : ReadValue(s)) \/ ConfirmName \/ ConfirmLink

Next == Kernel \/ Discover \/ Select \/ Reading

Spec == Init /\ [][Next]_vars

-----------------------------------------------------------------------------
(* The types of the variables; an index is held by one device, a pass only *)
(* runs over a selection that is not empty, and it completes only when     *)
(* every selected sensor has given a reading.                              *)
TypeOK ==
  /\ slot \in [Entry -> Device \cup {None}]
  /\ \A i, j \in Entry : i # j /\ slot[i] = slot[j] => slot[i] = None
  /\ steady \subseteq Registered /\ moved \in 0..Churn
  /\ pc \in {"list", "next", "link", "attrs", "labels", "failed",
             "pass", "sensor", "confirm_name", "confirm_link", "done"}
  /\ pc \in {"pass", "sensor", "confirm_name", "confirm_link", "done"} =>
       todo \subseteq selected /\ selected # {}
  /\ dir \in Entry /\ attrs \subseteq DOMAIN Num /\ from \in Device \cup {None}
  /\ pc = "done" => {o.sensor : o \in obtained} = selected

(* What the references ask of a device that is named d. *)
Wanted(d) ==
  IF ~ Matches(Chip[d], chipRef) THEN {}
  ELSE IF sensorRef = ""
       THEN {a \in DOMAIN Label[d] : \A b \in DOMAIN Label[d] : Num[a] <= Num[b]}
       ELSE {a \in DOMAIN Label[d] : sensorRef \in {Label[d][a], a}}

(* A pass that gives a reading has read every matching device that was     *)
(* there when Discover listed the class, has stayed since and could be     *)
(* read by Discover, at the attribute the table asks for: devices that     *)
(* come, go, cannot be read, change index or share its name do not make    *)
(* Discover, Select or a pass lose it.                                     *)
SteadyDevicesRead ==
  pc = "done" =>
    \A d \in steady : \A a \in Wanted(d) : \E o \in obtained : o.from = d /\ o.sensor.attr = a

(* A name that chipName composes for d: d's own, or the virtual one when   *)
(* its device link cannot be resolved, as when d goes after its name was   *)
(* read.                                                                   *)
Bears(d, name) == name \in {Chip[d], <<Chip[d][1]>> \o VirtualAddress}

(* A reading that is returned under a chip's name came from a device that  *)
(* bears it, although value, driver and link are resolved by separate      *)
(* system calls through an index that is reused, and Discover itself may   *)
(* have mixed two devices up.  Devices come and go meanwhile as they like; *)
(* only the entry itself must not change hands, which takes two changes.   *)
ReadingIsFromChip ==
  \A o \in obtained : o.moved <= 1 => Bears(o.from, o.sensor.chip)
=============================================================================
