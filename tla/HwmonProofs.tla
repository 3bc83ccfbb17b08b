---------------------------- MODULE HwmonProofs ----------------------------
(***************************************************************************)
(* Proofs about sensor discovery, selection and reading, for any devices,  *)
(* names, labels and class entries: no matching device that stays is lost  *)
(* however many others come and go, a reading comes from a device that     *)
(* bears the chip's name unless its class entry has changed hands between  *)
(* the value and its confirmation, and the names of the chips are right    *)
(* and tell them apart.                                                    *)
(***************************************************************************)
EXTENDS Hwmon, ChipNames, SequenceTheorems, WellFoundedInduction, TLAPS

Visiting    == pc \in {"link", "attrs", "labels"}
Discovering == pc = "next" \/ Visiting
Armed       == pc \in {"pass", "sensor", "confirm_name", "confirm_link", "done"}

(* What Discover makes of the attribute a of the device d at the entry i. *)
SensorAt(d, a, i) == [chip |-> Chip[d], attr |-> a, label |-> Label[d][a], dir |-> i]

(* Discover has been at the entry i, and found the device d there. *)
Collected(d, i) ==
  /\ ~ (Visiting /\ dir = i)
  /\ \A a \in DOMAIN Label[d] : SensorAt(d, a, i) \in found
  /\ \A s \in found : s.dir = i => s.attr \in DOMAIN Label[d]

(* It is at the entry i, and what it knows so far is d's. *)
Visited(d, i) ==
  /\ Visiting /\ dir = i
  /\ pc = "link" => driver = Chip[d][1]
  /\ pc \in {"attrs", "labels"} => chip = Chip[d]
  /\ pc = "labels" => attrs = DOMAIN Label[d]

(* Each entry is visited once. *)
Listed ==
  /\ pc = "list" => found = {} /\ steady = {}
  /\ Discovering => todo \subseteq Entry
  /\ Visiting => dir \notin todo
  /\ \A s \in found : s.dir \in Entry
  /\ Discovering => \A s \in found : s.dir \notin todo
  /\ Visiting => \A s \in found : s.dir # dir

(* The device d is steady, and its entry is i. *)
SteadyAt(d, i) == slot[i] = d /\ d \in steady

(* A steady device is still to come, being visited or found. *)
SteadyFound ==
  Discovering => \A d \in Device, i \in Entry : SteadyAt(d, i) =>
    i \in todo \/ Visited(d, i) \/ Collected(d, i)

(* The sensors the table asks for on a steady device are selected. *)
SteadySelected ==
  /\ \A s \in selected : s.dir \in Entry
  /\ Armed => \A d \in Device, i \in Entry : SteadyAt(d, i) =>
       \A a \in Wanted(d) : SensorAt(d, a, i) \in selected

(* A pass accounts for every sensor. *)
Pass ==
  /\ Armed => todo \subseteq selected /\ selected # {}
  /\ \A o \in obtained : o.sensor \in selected
  /\ Confirming => sensor \in selected /\ from \in Device
  /\ pc \in {"sensor", "confirm_name", "confirm_link", "done"} =>
       \A s \in selected : \/ s \in todo
                           \/ Confirming /\ s = sensor
                           \/ \E o \in obtained : o.sensor = s
  /\ pc = "done" => todo = {}
  /\ pc \notin {"sensor", "confirm_name", "confirm_link", "done"} => obtained = {}
  /\ ~ Confirming => moved = 0

(* A value read where a steady device is, is that device's. *)
SteadyRead ==
  /\ \A o \in obtained, d \in Device : SteadyAt(d, o.sensor.dir) => o.from = d
  /\ Confirming => \A d \in Device : SteadyAt(d, sensor.dir) => from = d

Inv == TypeOK /\ Listed /\ SteadyFound /\ SteadySelected /\ Pass /\ SteadyRead

(* As long as its entry has changed at most once, the driver that confirms *)
(* a value is the one of the device the value came from.                   *)
Confirmation ==
  /\ Confirming /\ moved = 0 => slot[sensor.dir] = from
  /\ Confirming /\ moved <= 1 => slot[sensor.dir] \in {from, None}
  /\ pc = "confirm_link" /\ moved <= 1 => driver = Chip[from][1]
  /\ ReadingIsFromChip

-----------------------------------------------------------------------------
LEMMA SensorAtIs ==
  ASSUME NEW d, NEW a, NEW i
  PROVE  /\ SensorAt(d, a, i).chip = Chip[d] /\ SensorAt(d, a, i).attr = a
         /\ SensorAt(d, a, i).label = Label[d][a] /\ SensorAt(d, a, i).dir = i
  BY DEF SensorAt

LEMMA EntryIs == Entry \subseteq Nat /\ 0 \in Entry
  BY HwmonAssumption DEF Entry

LEMMA SmallestExists ==
  ASSUME NEW T, T \subseteq Nat, T # {}
  PROVE  \E x \in T : \A y \in T : x <= y
  <1> DEFINE R == OpToRel(<, Nat)
  <1>1. IsWellFoundedOn(R, Nat)
    BY NatLessThanWellFounded
  <1> HIDE DEF R
  <1>2. PICK x \in T : \A y \in T : ~ (<<y, x>> \in R)
    BY <1>1, WFMin
  <1>3. \A y \in T : ~ (y < x)
    BY <1>2 DEF R, OpToRel
  <1> QED
    BY <1>3

(* The two halves of a name make the name. *)
LEMMA WholeName ==
  ASSUME NEW d \in Device
  PROVE  <<Chip[d][1]>> \o Tail(Chip[d]) = Chip[d]
  <1>1. PICK c \in Seq(STRING) : c = Chip[d] /\ Len(c) >= 2
    BY HwmonAssumption
  <1>2. <<c[1]>> \o Tail(c) = c
    BY <1>1
  <1> QED
    BY <1>1, <1>2

LEMMA SteadyHasEntry ==
  ASSUME TypeOK, NEW d \in steady
  PROVE  d \in Device /\ \E i \in Entry : SteadyAt(d, i)
  BY DEF TypeOK, Registered, SteadyAt

(* The kernel gives no entry to a steady device and takes none from it. *)
LEMMA KernelSteady ==
  ASSUME TypeOK, Kernel
  PROVE  /\ \A d \in Device, i \in Entry : SteadyAt(d, i)' => SteadyAt(d, i)
         /\ slot' \in [Entry -> Device \cup {None}]
         /\ \A i, j \in Entry : i # j /\ slot'[i] = slot'[j] => slot'[i] = None
         /\ steady' \subseteq Registered'
  <1>1. PICK e \in Device : Register(e) \/ Unregister(e)
    BY DEF Kernel
  <1>2. /\ slot \in [Entry -> Device \cup {None}] /\ None \notin Device
        /\ \A i, j \in Entry : i # j /\ slot[i] = slot[j] => slot[i] = None
        /\ \A d \in steady : d # None /\ \E i \in Entry : slot[i] = d
    BY HwmonAssumption DEF TypeOK, Registered
  <1>3. CASE Register(e)
    <2>1. PICK k \in Entry : slot[k] = None /\ slot' = [slot EXCEPT ![k] = e]
      BY <1>3 DEF Register
    <2>2. steady' = steady /\ \A i \in Entry : slot[i] # e
      BY <1>2, <1>3 DEF Register, Registered
    <2>3. slot' \in [Entry -> Device \cup {None}]
      BY <1>2, <2>1
    <2>4. slot'[k] = e /\ \A i \in Entry : i # k => slot'[i] = slot[i]
      BY <1>2, <2>1
    <2>5. \A i, j \in Entry : i # j /\ slot'[i] = slot'[j] => slot'[i] = None
      BY <1>2, <2>2, <2>4
    <2>6. \A d \in Device, i \in Entry : SteadyAt(d, i)' => SteadyAt(d, i)
      BY <1>2, <2>2, <2>4 DEF SteadyAt
    <2>7. \A d \in steady' : d # None /\ \E i \in Entry : slot'[i] = d
      BY <1>2, <2>1, <2>2, <2>4
    <2> QED
      BY <2>3, <2>5, <2>6, <2>7 DEF Registered
  <1>4. CASE Unregister(e)
    <2>1. /\ slot' = [i \in Entry |-> IF slot[i] = e THEN None ELSE slot[i]]
          /\ steady' = steady \ {e}
      BY <1>4 DEF Unregister
    <2>2. slot' \in [Entry -> Device \cup {None}]
      BY <1>2, <2>1
    <2>3. \A i \in Entry : slot'[i] = IF slot[i] = e THEN None ELSE slot[i]
      BY <2>1
    <2>4. \A i, j \in Entry : i # j /\ slot'[i] = slot'[j] => slot'[i] = None
      BY <1>2, <2>3
    <2>5. \A d \in Device, i \in Entry : SteadyAt(d, i)' => SteadyAt(d, i)
      BY <1>2, <2>1, <2>3 DEF SteadyAt
    <2>6. \A d \in steady' : d # None /\ \E i \in Entry : slot'[i] = d
      BY <1>2, <2>1, <2>3
    <2> QED
      BY <2>2, <2>4, <2>5, <2>6 DEF Registered
  <1> QED
    BY <1>1, <1>3, <1>4

LEMMA KernelMoves ==
  ASSUME Kernel
  PROVE  /\ moved' = IF Confirming /\ slot'[sensor.dir] # slot[sensor.dir] THEN moved + 1 ELSE moved
         /\ moved' <= Churn
         /\ UNCHANGED <<refs, pc, todo, visit, found, selected, sensor, from, obtained>>
  BY DEF Kernel, Register, Unregister, Moves

LEMMA InitInv == Init => Inv
  <1> SUFFICES ASSUME Init PROVE Inv
    OBVIOUS
  <1>1. TypeOK
    <2>1. slot \in [Entry -> Device \cup {None}] /\ \A i \in Entry : slot[i] = None
      BY DEF Init
    <2>2. steady \subseteq Registered
      BY DEF Init
    <2>3. moved \in 0..Churn
      <3>1. moved = 0 /\ Churn \in Nat
        BY HwmonAssumption, Zenon DEF Init
      <3> QED
        BY <3>1
    <2>4. dir \in Entry
      BY EntryIs DEF Init
    <2> QED
      BY <2>1, <2>2, <2>3, <2>4 DEF Init, TypeOK
  <1> QED
    BY <1>1 DEF Init, Inv, Listed, SteadyFound, SteadySelected, Pass, SteadyRead, Discovering,
                Visiting, Armed, Confirming

-----------------------------------------------------------------------------
(* The kernel's steps. *)
LEMMA KernelInv ==
  ASSUME Inv, Kernel
  PROVE  Inv'
  <1>1. /\ refs' = refs /\ pc' = pc /\ todo' = todo /\ dir' = dir /\ driver' = driver /\ chip' = chip
        /\ attrs' = attrs /\ found' = found /\ selected' = selected /\ sensor' = sensor /\ from' = from
        /\ obtained' = obtained
    BY KernelMoves DEF visit
  <1>2. TypeOK
    BY DEF Inv
  <1>3. \A d \in Device, i \in Entry : SteadyAt(d, i)' => SteadyAt(d, i)
    BY <1>2, KernelSteady
  <1>4. moved' \in 0..Churn /\ (~ Confirming => moved' = moved)
    <2>1. /\ moved' = moved \/ (Confirming /\ moved' = moved + 1)
          /\ moved' <= Churn
      BY KernelMoves
    <2>2. moved \in 0..Churn /\ Churn \in Nat
      BY <1>2, HwmonAssumption DEF TypeOK
    <2> QED
      BY <2>1, <2>2
  <1>5. TypeOK'
    BY <1>1, <1>2, <1>4, KernelSteady DEF TypeOK
  <1>6. Listed'
    <2>1. pc = "list" => steady' = {}
      <3>1. \A d \in steady' : d \in Device /\ \E i \in Entry : SteadyAt(d, i)'
        BY <1>5 DEF TypeOK, Registered, SteadyAt
      <3> QED
        BY <1>3, <3>1 DEF Inv, Listed, SteadyAt
    <2> QED
      BY <1>1, <2>1 DEF Inv, Listed, Discovering, Visiting
  <1>7. SteadyFound'
    BY <1>1, <1>3 DEF Inv, SteadyFound, Discovering, Visiting, Visited, Collected, SensorAt
  <1>8. SteadySelected'
    <2>1. \A d \in Device : Wanted(d)' = Wanted(d)
      BY <1>1 DEF Wanted, refs
    <2> QED
      BY <1>1, <1>3, <2>1 DEF Inv, SteadySelected, Armed, SensorAt
  <1>9. Pass'
    BY <1>1, <1>4 DEF Inv, Pass, Armed, Confirming
  <1>10. SteadyRead'
    <2>1. \A o \in obtained : o.sensor.dir \in Entry
      BY DEF Inv, Pass, SteadySelected
    <2>2. Confirming => sensor.dir \in Entry
      BY DEF Inv, Pass, SteadySelected
    <2>3. \A o \in obtained', d \in Device : SteadyAt(d, o.sensor.dir)' => o.from = d
      BY <1>1, <1>3, <2>1 DEF Inv, SteadyRead
    <2>4. Confirming' => \A d \in Device : SteadyAt(d, sensor.dir)' => from' = d
      BY <1>1, <1>3, <2>2 DEF Inv, SteadyRead, Confirming, SteadyAt
    <2> QED
      BY <2>3, <2>4 DEF SteadyRead
  <1> QED
    BY <1>5, <1>6, <1>7, <1>8, <1>9, <1>10 DEF Inv

-----------------------------------------------------------------------------
(* Discover. *)

LEMMA ListInv ==
  ASSUME Inv, List
  PROVE  Inv'
  <1>1. /\ pc = "list" /\ slot' = slot /\ moved' = moved /\ refs' = refs /\ dir' = dir
        /\ attrs' = attrs /\ found' = found /\ selected' = selected /\ sensor' = sensor
        /\ from' = from /\ obtained' = obtained
    BY DEF List, visit
  <1>2. TypeOK /\ Listed /\ Pass /\ SteadySelected
    BY DEF Inv
  <1>3. found = {} /\ moved = 0
    BY <1>1, <1>2 DEF Listed, Pass, Confirming
  <1>4. CASE pc' = "failed" /\ todo' = todo /\ steady' = steady
    <2>1. TypeOK'
      BY <1>1, <1>2, <1>4 DEF TypeOK, Registered
    <2>2. Listed' /\ SteadyFound'
      BY <1>1, <1>3, <1>4 DEF Listed, SteadyFound, Discovering, Visiting
    <2>3. SteadySelected' /\ Pass'
      BY <1>1, <1>2, <1>3, <1>4 DEF SteadySelected, Pass, Armed, Confirming
    <2>4. SteadyRead'
      BY <1>1, <1>2, <1>4 DEF Pass, SteadyRead, Confirming
    <2> QED
      BY <2>1, <2>2, <2>3, <2>4 DEF Inv
  <1>5. CASE /\ todo' = {i \in Entry : slot[i] # None} /\ pc' = "next"
             /\ steady' = Registered
    <2>1. TypeOK'
      BY <1>1, <1>2, <1>5 DEF TypeOK, Registered
    <2>2. Listed'
      BY <1>1, <1>3, <1>5 DEF Listed, Discovering, Visiting
    <2>3. SteadyFound'
      <3>1. \A d \in Device, i \in Entry : SteadyAt(d, i)' => i \in todo'
        BY <1>1, <1>5, HwmonAssumption DEF SteadyAt
      <3> QED
        BY <3>1 DEF SteadyFound
    <2>4. SteadySelected' /\ Pass'
      BY <1>1, <1>2, <1>3, <1>5 DEF SteadySelected, Pass, Armed, Confirming
    <2>5. SteadyRead'
      BY <1>1, <1>2, <1>5 DEF Pass, SteadyRead, Confirming
    <2> QED
      BY <2>1, <2>2, <2>3, <2>4, <2>5 DEF Inv
  <1> QED
    BY <1>4, <1>5 DEF List

(* The steps of Discover leave the rest alone; a read that fails costs the *)
(* device its steadiness, and no other.                                    *)
LEMMA DiscoverFrame ==
  ASSUME Inv, Discovering, Discovering',
         UNCHANGED <<slot, moved, refs, selected, sensor, from, obtained>>,
         steady' \subseteq steady, dir' \in Entry, attrs' \subseteq DOMAIN Num
  PROVE  TypeOK' /\ SteadySelected' /\ Pass' /\ SteadyRead'
  <1>1. /\ slot' = slot /\ moved' = moved /\ selected' = selected
        /\ sensor' = sensor /\ from' = from /\ obtained' = obtained
    OBVIOUS
  <1>2. pc \in {"next", "link", "attrs", "labels"} /\ pc' \in {"next", "link", "attrs", "labels"}
    BY DEF Discovering, Visiting
  <1>3. TypeOK /\ SteadySelected /\ Pass
    BY DEF Inv
  <1>4. TypeOK'
    BY <1>1, <1>2, <1>3 DEF TypeOK, Registered
  <1>5. SteadySelected'
    BY <1>1, <1>2, <1>3 DEF SteadySelected, Armed
  <1>6. Pass'
    BY <1>1, <1>2, <1>3 DEF Pass, Armed, Confirming
  <1>7. SteadyRead'
    BY <1>1, <1>2, <1>3 DEF SteadyRead, Pass, Confirming
  <1> QED
    BY <1>4, <1>5, <1>6, <1>7

LEMMA DiscoverNameInv ==
  ASSUME Inv, DiscoverName
  PROVE  Inv'
  <1>1. TypeOK /\ Listed /\ SteadyFound
    BY DEF Inv
  <1>2. /\ pc = "next" /\ todo # {} /\ Discovering
        /\ UNCHANGED <<slot, moved, refs, selected, sensor, from, obtained>>
        /\ chip' = chip /\ attrs' = attrs /\ found' = found /\ slot' = slot /\ steady' \subseteq steady
    BY DEF DiscoverName, Discovering, ReadsWell, FailsOn
  <1>3. todo \subseteq Entry /\ todo \subseteq Nat
    BY <1>1, <1>2, EntryIs DEF Listed
  <1>4. PICK n \in todo : n = CHOOSE i \in todo : \A j \in todo : i <= j
    <2>1. \E i \in todo : \A j \in todo : i <= j
      BY <1>2, <1>3, SmallestExists
    <2> QED
      BY <2>1
  <1>5. /\ n \in Entry /\ todo' = todo \ {n}
        /\ \/ slot[n] # None /\ dir' = n /\ driver' = Chip[slot[n]][1] /\ pc' = "link"
           \/ dir' = dir /\ driver' = driver /\ pc' = pc /\ steady' = steady \ {slot[n]}
    BY <1>3, <1>4 DEF DiscoverName, DriverAt, FailsOn
  <1>6. Discovering' /\ dir' \in Entry /\ attrs' \subseteq DOMAIN Num
    BY <1>1, <1>2, <1>5 DEF Discovering, Visiting, TypeOK
  <1>7. TypeOK' /\ SteadySelected' /\ Pass' /\ SteadyRead'
    BY <1>2, <1>6, DiscoverFrame
  <1>8. Listed'
    BY <1>1, <1>2, <1>5 DEF Listed, Discovering, Visiting
  <1>9. SteadyFound'
    <2>1. SUFFICES ASSUME NEW d \in Device, NEW i \in Entry, SteadyAt(d, i), SteadyAt(d, i)'
                   PROVE  i \in todo' \/ Visited(d, i)' \/ Collected(d, i)'
      BY <1>2 DEF SteadyFound, SteadyAt
    <2>2. i \in todo \/ Collected(d, i)
      BY <1>1, <1>2, <2>1 DEF SteadyFound, Visited, Visiting
    <2>3. CASE i = n
      <3>1. slot[n] = d /\ d # None /\ steady' # steady \ {slot[n]}
        BY <1>2, <2>1, <2>3, HwmonAssumption DEF SteadyAt
      <3> QED
        BY <1>5, <2>3, <3>1 DEF Visited, Visiting
    <2>4. CASE i # n
      BY <1>2, <1>5, <2>2, <2>4 DEF Collected, SensorAt, Visiting
    <2> QED
      BY <2>3, <2>4
  <1> QED
    BY <1>7, <1>8, <1>9 DEF Inv

LEMMA DiscoverLinkInv ==
  ASSUME Inv, DiscoverLink
  PROVE  Inv'
  <1>1. TypeOK /\ Listed /\ SteadyFound
    BY DEF Inv
  <1>2. /\ pc = "link" /\ pc' = "attrs" /\ Discovering /\ Discovering'
        /\ UNCHANGED <<slot, moved, refs, selected, sensor, from, obtained>>
        /\ todo' = todo /\ dir' = dir /\ attrs' = attrs /\ found' = found /\ slot' = slot /\ steady' \subseteq steady
        /\ chip' = <<driver>> \o AddressAt(dir) \/ steady' = steady \ {slot[dir]}
    BY DEF DiscoverLink, Discovering, Visiting, ReadsWell, FailsOn
  <1>3. TypeOK' /\ SteadySelected' /\ Pass' /\ SteadyRead'
    BY <1>1, <1>2, DiscoverFrame DEF TypeOK
  <1>4. Listed'
    BY <1>1, <1>2 DEF Listed, Discovering, Visiting
  <1>5. SteadyFound'
    <2>1. SUFFICES ASSUME NEW d \in Device, NEW i \in Entry, SteadyAt(d, i), SteadyAt(d, i)'
                   PROVE  i \in todo' \/ Visited(d, i)' \/ Collected(d, i)'
      BY <1>2 DEF SteadyFound, SteadyAt
    <2>2. i \in todo \/ Visited(d, i) \/ Collected(d, i)
      BY <1>1, <1>2, <2>1 DEF SteadyFound
    <2>3. CASE Visited(d, i)
      <3>1. dir = i /\ driver = Chip[d][1]
        BY <1>2, <2>3 DEF Visited
      <3>2. AddressAt(dir) = Tail(Chip[d])
        BY <2>1, <3>1, HwmonAssumption DEF AddressAt, SteadyAt
      <3>3. chip' = Chip[d]
        <4>1. chip' = <<driver>> \o AddressAt(dir)
          BY <1>2, <2>1, <3>1 DEF SteadyAt
        <4> QED
          BY <3>1, <3>2, <4>1, WholeName
      <3> QED
        BY <1>2, <3>1, <3>3 DEF Visited, Visiting
    <2>4. CASE i \in todo \/ Collected(d, i)
      BY <1>2, <2>4 DEF Collected, SensorAt, Visiting
    <2> QED
      BY <2>2, <2>3, <2>4
  <1> QED
    BY <1>3, <1>4, <1>5 DEF Inv

LEMMA ListAttrsInv ==
  ASSUME Inv, ListAttrs
  PROVE  Inv'
  <1>1. TypeOK /\ Listed /\ SteadyFound
    BY DEF Inv
  <1>2. /\ pc = "attrs" /\ Discovering
        /\ UNCHANGED <<slot, moved, refs, selected, sensor, from, obtained>>
        /\ todo' = todo /\ found' = found /\ slot' = slot /\ steady' \subseteq steady
        /\ \/ /\ slot[dir] # None /\ dir' = dir /\ chip' = chip
              /\ attrs' = DOMAIN Label[slot[dir]] /\ pc' = "labels"
           \/ dir' = 0 /\ attrs' = {} /\ pc' = "next" /\ steady' = steady \ {slot[dir]}
    BY DEF ListAttrs, ForgetVisit, Discovering, Visiting, ReadsWell, FailsOn
  <1>3. Discovering' /\ dir' \in Entry /\ attrs' \subseteq DOMAIN Num
    <2>1. slot[dir] # None => DOMAIN Label[slot[dir]] \subseteq DOMAIN Num
      BY <1>1, HwmonAssumption DEF TypeOK
    <2> QED
      BY <1>1, <1>2, <2>1, EntryIs DEF Discovering, Visiting, TypeOK
  <1>4. TypeOK' /\ SteadySelected' /\ Pass' /\ SteadyRead'
    BY <1>2, <1>3, DiscoverFrame
  <1>5. Listed'
    BY <1>1, <1>2 DEF Listed, Discovering, Visiting
  <1>6. SteadyFound'
    <2>1. SUFFICES ASSUME NEW d \in Device, NEW i \in Entry, SteadyAt(d, i), SteadyAt(d, i)'
                   PROVE  i \in todo' \/ Visited(d, i)' \/ Collected(d, i)'
      BY <1>2 DEF SteadyFound, SteadyAt
    <2>2. i \in todo \/ Visited(d, i) \/ Collected(d, i)
      BY <1>1, <1>2, <2>1 DEF SteadyFound
    <2>3. CASE Visited(d, i)
      <3>1. /\ dir = i /\ slot[dir] = d /\ d # None /\ chip = Chip[d]
            /\ steady' # steady \ {slot[dir]}
        BY <1>2, <2>1, <2>3, HwmonAssumption DEF Visited, SteadyAt
      <3> QED
        BY <1>2, <3>1 DEF Visited, Visiting
    <2>4. CASE i \in todo \/ Collected(d, i)
      BY <1>2, <2>4 DEF Collected, SensorAt, Visiting
    <2> QED
      BY <2>2, <2>3, <2>4
  <1> QED
    BY <1>4, <1>5, <1>6 DEF Inv

LEMMA ReadLabelsInv ==
  ASSUME Inv, ReadLabels
  PROVE  Inv'
  <1>0. PICK readable \in SUBSET attrs :
          /\ found' = found \cup {[chip |-> chip, attr |-> a, dir |-> dir,
                                    label |-> IF a \in readable THEN LabelAt(dir, a) ELSE ""] : a \in attrs}
          /\ IF readable = attrs THEN ReadsWell ELSE FailsOn(dir)
    BY DEF ReadLabels
  <1> DEFINE S(a) == [chip |-> chip, attr |-> a, dir |-> dir,
                      label |-> IF a \in readable THEN LabelAt(dir, a) ELSE ""]
  <1>1. TypeOK /\ Listed /\ SteadyFound
    BY DEF Inv
  <1>2. /\ pc = "labels" /\ Discovering /\ Visiting /\ pc' = "next" /\ dir' = 0 /\ attrs' = {}
        /\ UNCHANGED <<slot, moved, refs, selected, sensor, from, obtained>>
        /\ todo' = todo /\ slot' = slot /\ steady' \subseteq steady
        /\ found' = found \cup {S(a) : a \in attrs}
        /\ readable = attrs \/ steady' = steady \ {slot[dir]}
    BY <1>0 DEF ReadLabels, ForgetVisit, Discovering, Visiting, ReadsWell, FailsOn
  <1>3. Discovering' /\ dir' \in Entry /\ attrs' \subseteq DOMAIN Num
    BY <1>2, EntryIs DEF Discovering, Visiting
  <1>4. TypeOK' /\ SteadySelected' /\ Pass' /\ SteadyRead'
    BY <1>2, <1>3, DiscoverFrame
  <1>5. \A s \in found' : s \in found \/ (s.dir = dir /\ s.attr \in attrs)
    <2>1. \A a \in attrs : S(a).dir = dir /\ S(a).attr = a
      OBVIOUS
    <2> HIDE DEF S
    <2> QED
      BY <1>2, <2>1
  <1>6. Listed'
    BY <1>1, <1>2, <1>5 DEF Listed, Discovering, Visiting, TypeOK
  <1>7. SteadyFound'
    <2>1. SUFFICES ASSUME NEW d \in Device, NEW i \in Entry, SteadyAt(d, i), SteadyAt(d, i)'
                   PROVE  i \in todo' \/ Visited(d, i)' \/ Collected(d, i)'
      BY <1>2 DEF SteadyFound, SteadyAt
    <2>2. i \in todo \/ Visited(d, i) \/ Collected(d, i)
      BY <1>1, <1>2, <2>1 DEF SteadyFound
    <2>3. CASE Visited(d, i)
      <3>1. dir = i /\ slot[dir] = d /\ d # None /\ chip = Chip[d] /\ attrs = DOMAIN Label[d]
        BY <1>2, <2>1, <2>3, HwmonAssumption DEF Visited, SteadyAt
      <3>2. \A a \in attrs : S(a) = SensorAt(d, a, i)
        <4>1. readable = attrs
          BY <1>2, <2>1, <3>1 DEF SteadyAt
        <4> QED
          BY <3>1, <4>1 DEF SensorAt, LabelAt
      <3>3. \A a \in DOMAIN Label[d] : SensorAt(d, a, i) \in found'
        BY <1>2, <3>1, <3>2
      <3>4. \A s \in found' : s.dir = i => s.attr \in DOMAIN Label[d]
        BY <1>1, <1>2, <1>5, <3>1 DEF Listed
      <3> QED
        BY <1>2, <3>3, <3>4 DEF Collected, SensorAt, Visiting
    <2>4. CASE i \in todo
      BY <1>2, <2>4
    <2>5. CASE Collected(d, i)
      <3>1. dir # i
        BY <1>2, <2>5 DEF Collected
      <3>2. \A a \in DOMAIN Label[d] : SensorAt(d, a, i) \in found'
        BY <1>2, <2>5 DEF Collected
      <3>3. \A s \in found' : s.dir = i => s.attr \in DOMAIN Label[d]
        BY <1>5, <2>5, <3>1 DEF Collected
      <3> QED
        BY <1>2, <3>2, <3>3 DEF Collected, SensorAt, Visiting
    <2> QED
      BY <2>2, <2>3, <2>4, <2>5
  <1> QED
    BY <1>4, <1>6, <1>7 DEF Inv

-----------------------------------------------------------------------------
(* Select. *)

(* A device that Discover has collected is selected where it is wanted. *)
LEMMA WantedIsChosen ==
  ASSUME NEW d \in Device, NEW i \in Entry, Collected(d, i), NEW a \in Wanted(d)
  PROVE  SensorAt(d, a, i) \in Chosen
  <1>1. PICK s : s = SensorAt(d, a, i)
    OBVIOUS
  <1>2. s.chip = Chip[d] /\ s.attr = a /\ s.label = Label[d][a] /\ s.dir = i
    BY <1>1, SensorAtIs
  <1>3. Matches(Chip[d], chipRef) /\ a \in DOMAIN Label[d]
    BY DEF Wanted
  <1>4. s \in OnChip
    BY <1>1, <1>2, <1>3 DEF OnChip, Collected
  <1>5. CASE sensorRef = ""
    <2>1. \A b \in DOMAIN Label[d] : Num[a] <= Num[b]
      BY <1>3, <1>5 DEF Wanted
    <2>2. \A t \in OnChip : t.dir = i => t.attr \in DOMAIN Label[d]
      BY DEF OnChip, Collected
    <2>3. s \in Lowest(OnChip)
      BY <1>2, <1>4, <2>1, <2>2 DEF Lowest
    <2> QED
      BY <1>1, <1>5, <2>3 DEF Chosen
  <1>6. CASE sensorRef # ""
    <2>1. sensorRef \in {s.label, s.attr}
      BY <1>2, <1>3, <1>6 DEF Wanted
    <2> QED
      BY <1>1, <1>4, <1>6, <2>1 DEF Chosen
  <1> QED
    BY <1>5, <1>6

LEMMA SelectInv ==
  ASSUME Inv, Select
  PROVE  Inv'
  <1>1. TypeOK /\ Listed /\ SteadyFound /\ Pass
    BY DEF Inv
  <1>2. /\ pc = "next" /\ todo = {} /\ todo' = todo /\ found' = {} /\ selected' = Chosen
        /\ pc' = IF Chosen = {} THEN "failed" ELSE "pass"
        /\ slot' = slot /\ steady' = steady /\ moved' = moved /\ refs' = refs
        /\ dir' = dir /\ attrs' = attrs
        /\ sensor' = sensor /\ from' = from /\ obtained' = obtained
    BY DEF Select, kernel, visit
  <1>3. Chosen \subseteq found
    BY DEF Chosen, Lowest, OnChip
  <1>4. obtained = {} /\ moved = 0
    BY <1>1, <1>2 DEF Pass, Confirming
  <1>5. TypeOK'
    BY <1>1, <1>2 DEF TypeOK, Registered
  <1>6. Listed' /\ SteadyFound'
    BY <1>2 DEF Listed, SteadyFound, Discovering, Visiting
  <1>7. SteadySelected'
    <2>1. \A s \in selected' : s.dir \in Entry
      BY <1>1, <1>2, <1>3 DEF Listed
    <2>2. ASSUME NEW d \in Device, NEW i \in Entry, SteadyAt(d, i)', NEW a \in Wanted(d)
          PROVE  SensorAt(d, a, i) \in selected'
      <3>1. SteadyAt(d, i)
        BY <1>2, <2>2 DEF SteadyAt
      <3>2. Collected(d, i)
        BY <1>1, <1>2, <3>1 DEF SteadyFound, Discovering, Visited, Visiting
      <3> QED
        BY <1>2, <3>2, WantedIsChosen
    <2>3. \A d \in Device : Wanted(d)' = Wanted(d)
      BY <1>2 DEF Wanted, refs
    <2> QED
      BY <2>1, <2>2, <2>3 DEF SteadySelected, SensorAt
  <1>8. Pass' /\ SteadyRead'
    BY <1>2, <1>4 DEF Pass, SteadyRead, Armed, Confirming
  <1> QED
    BY <1>5, <1>6, <1>7, <1>8 DEF Inv

-----------------------------------------------------------------------------
(* Reading. *)

(* The steps of a pass leave the devices and the selection alone. *)
LEMMA ReadFrame ==
  ASSUME Inv, Armed, Armed', UNCHANGED <<slot, steady, refs, dir, attrs, found, selected>>,
         Pass', moved' \in 0..Churn, from' \in Device \cup {None}
  PROVE  TypeOK' /\ Listed' /\ SteadyFound' /\ SteadySelected'
  <1>1. /\ slot' = slot /\ steady' = steady /\ refs' = refs /\ dir' = dir
        /\ attrs' = attrs /\ found' = found /\ selected' = selected
    OBVIOUS
  <1>2. TypeOK /\ Listed /\ SteadySelected
    BY DEF Inv
  <1>3. /\ pc \in {"pass", "sensor", "confirm_name", "confirm_link", "done"}
        /\ pc' \in {"pass", "sensor", "confirm_name", "confirm_link", "done"}
    BY DEF Armed
  <1>4. todo' \subseteq selected' /\ selected' # {}
    BY DEF Pass
  <1>5. pc' = "done" => {o.sensor : o \in obtained'} = selected'
    BY DEF Pass, Confirming
  <1>6. TypeOK'
    BY <1>1, <1>2, <1>3, <1>4, <1>5 DEF TypeOK, Registered
  <1>7. Listed' /\ SteadyFound'
    BY <1>1, <1>2, <1>3 DEF Listed, SteadyFound, Discovering, Visiting
  <1>8. SteadySelected'
    <2>1. \A d \in Device : Wanted(d)' = Wanted(d)
      BY <1>1 DEF Wanted, refs
    <2> QED
      BY <1>1, <1>2, <2>1 DEF SteadySelected, SteadyAt, SensorAt, Armed
  <1> QED
    BY <1>6, <1>7, <1>8

(* A pass that fails forgets its readings. *)
LEMMA FailPassInv ==
  ASSUME Inv, Armed, FailPass, UNCHANGED <<slot, steady, refs, dir, attrs, found, selected>>
  PROVE  Inv'
  <1>1. /\ from' = None /\ moved' = 0 /\ obtained' = {} /\ todo' = {} /\ pc' = "pass"
        /\ selected' = selected
    BY DEF FailPass, ForgetRead
  <1>2. selected # {}
    BY DEF Inv, Pass
  <1>3. Pass' /\ SteadyRead' /\ Armed'
    BY <1>1, <1>2 DEF Pass, SteadyRead, Armed, Confirming
  <1>4. moved' \in 0..Churn /\ from' \in Device \cup {None}
    <2>1. Churn \in Nat
      BY HwmonAssumption
    <2> QED
      BY <1>1, <2>1
  <1>5. TypeOK' /\ Listed' /\ SteadyFound' /\ SteadySelected'
    BY <1>3, <1>4, ReadFrame
  <1> QED
    BY <1>3, <1>5 DEF Inv

LEMMA StartPassInv ==
  ASSUME Inv, StartPass
  PROVE  Inv'
  <1>1. /\ pc \in {"pass", "done"} /\ pc' = "sensor" /\ obtained' = {} /\ todo' = selected
        /\ from' = from /\ moved' = moved /\ sensor' = sensor /\ selected' = selected
        /\ UNCHANGED <<slot, steady, refs, dir, attrs, found, selected>>
    BY DEF StartPass, kernel, visit
  <1>2. Armed /\ Armed'
    BY <1>1 DEF Armed
  <1>3. selected # {} /\ moved = 0
    BY <1>1, <1>2 DEF Inv, Pass, Confirming
  <1>4. Pass' /\ SteadyRead'
    BY <1>1, <1>3 DEF Pass, SteadyRead, Armed, Confirming
  <1>5. moved' \in 0..Churn /\ from' \in Device \cup {None}
    BY <1>1 DEF Inv, TypeOK
  <1>6. TypeOK' /\ Listed' /\ SteadyFound' /\ SteadySelected'
    BY <1>1, <1>2, <1>4, <1>5, ReadFrame
  <1> QED
    BY <1>4, <1>6 DEF Inv

LEMMA ReadValueInv ==
  ASSUME Inv, NEW s \in selected, ReadValue(s)
  PROVE  Inv'
  <1>1. /\ pc = "sensor" /\ s \in todo
        /\ UNCHANGED <<slot, steady, refs, dir, attrs, found, selected>>
    BY DEF ReadValue
  <1>2. Armed
    BY <1>1 DEF Armed
  <1>3. CASE FailPass
    BY <1>1, <1>2, <1>3, FailPassInv
  <1>4. CASE ~ FailPass
    <2>1. /\ slot[s.dir] # None /\ sensor' = s /\ from' = slot[s.dir] /\ todo' = todo \ {s}
          /\ pc' = "confirm_name" /\ moved' = moved /\ obtained' = obtained
          /\ selected' = selected /\ slot' = slot /\ steady' = steady
      BY <1>1, <1>4 DEF ReadValue
    <2>2. TypeOK /\ Pass /\ SteadyRead /\ s.dir \in Entry
      BY DEF Inv, SteadySelected
    <2>3. from' \in Device
      BY <2>1, <2>2 DEF TypeOK
    <2>4. Pass'
      BY <1>1, <1>2, <2>1, <2>2, <2>3 DEF Pass, Armed, Confirming
    <2>5. SteadyRead'
      BY <2>1, <2>2 DEF SteadyRead, SteadyAt
    <2>6. Armed' /\ moved' \in 0..Churn
      BY <2>1, <2>2 DEF Armed, TypeOK
    <2>7. TypeOK' /\ Listed' /\ SteadyFound' /\ SteadySelected'
      BY <1>1, <1>2, <2>3, <2>4, <2>6, ReadFrame
    <2> QED
      BY <2>4, <2>5, <2>7 DEF Inv
  <1> QED
    BY <1>3, <1>4

LEMMA ConfirmNameInv ==
  ASSUME Inv, ConfirmName
  PROVE  Inv'
  <1>1. pc = "confirm_name" /\ UNCHANGED <<slot, steady, refs, dir, attrs, found, selected>>
    BY DEF ConfirmName
  <1>2. Armed
    BY <1>1 DEF Armed
  <1>3. CASE FailPass
    BY <1>1, <1>2, <1>3, FailPassInv
  <1>4. CASE ~ FailPass
    <2>1. /\ pc' = "confirm_link" /\ moved' = moved /\ todo' = todo /\ sensor' = sensor /\ from' = from
          /\ obtained' = obtained /\ selected' = selected /\ slot' = slot /\ steady' = steady
      BY <1>1, <1>4 DEF ConfirmName
    <2>2. TypeOK /\ Pass /\ SteadyRead
      BY DEF Inv
    <2>3. Pass'
      BY <1>1, <1>2, <2>1, <2>2 DEF Pass, Armed, Confirming
    <2>4. SteadyRead'
      BY <1>1, <2>1, <2>2 DEF SteadyRead, SteadyAt, Confirming
    <2>5. Armed' /\ moved' \in 0..Churn /\ from' \in Device \cup {None}
      BY <2>1, <2>2 DEF Armed, TypeOK
    <2>6. TypeOK' /\ Listed' /\ SteadyFound' /\ SteadySelected'
      BY <1>1, <1>2, <2>3, <2>5, ReadFrame
    <2> QED
      BY <2>3, <2>4, <2>6 DEF Inv
  <1> QED
    BY <1>3, <1>4

LEMMA ConfirmLinkInv ==
  ASSUME Inv, ConfirmLink
  PROVE  Inv'
  <1>1. pc = "confirm_link" /\ UNCHANGED <<slot, steady, refs, dir, attrs, found, selected>>
    BY DEF ConfirmLink
  <1>2. Armed
    BY <1>1 DEF Armed
  <1>3. CASE FailPass
    BY <1>1, <1>2, <1>3, FailPassInv
  <1>4. CASE ~ FailPass
    <2>1. PICK r : r = [sensor |-> sensor, from |-> from, moved |-> moved]
      OBVIOUS
    <2>2. r.sensor = sensor /\ r.from = from
      BY <2>1
    <2>3. /\ obtained' = obtained \cup {r} /\ pc' = (IF todo = {} THEN "done" ELSE "sensor")
          /\ todo' = todo /\ from' = None /\ moved' = 0
          /\ selected' = selected /\ slot' = slot /\ steady' = steady
      BY <1>1, <1>4, <2>1 DEF ConfirmLink, ForgetRead
    <2>4. TypeOK /\ Pass /\ SteadyRead /\ Confirming
      BY <1>1 DEF Inv, Confirming
    <2>5. Pass'
      BY <1>1, <1>2, <2>2, <2>3, <2>4 DEF Pass, Armed, Confirming
    <2>6. SteadyRead'
      BY <2>2, <2>3, <2>4 DEF SteadyRead, SteadyAt, Confirming
    <2>7. moved' \in 0..Churn
      <3>1. Churn \in Nat
        BY HwmonAssumption
      <3> QED
        BY <2>3, <3>1
    <2>8. Armed' /\ from' \in Device \cup {None}
      BY <2>3 DEF Armed
    <2>9. TypeOK' /\ Listed' /\ SteadyFound' /\ SteadySelected'
      BY <1>1, <1>2, <2>5, <2>7, <2>8, ReadFrame
    <2> QED
      BY <2>5, <2>6, <2>9 DEF Inv
  <1> QED
    BY <1>3, <1>4

LEMMA NextInv == Inv /\ [Next]_vars => Inv'
  <1> SUFFICES ASSUME Inv, [Next]_vars PROVE Inv'
    OBVIOUS
  <1>1. CASE Kernel
    BY <1>1, KernelInv
  <1>2. CASE Discover
    BY <1>2, ListInv, DiscoverNameInv, DiscoverLinkInv, ListAttrsInv, ReadLabelsInv DEF Discover
  <1>3. CASE Select
    BY <1>3, SelectInv
  <1>4. CASE Reading
    BY <1>4, StartPassInv, ReadValueInv, ConfirmNameInv, ConfirmLinkInv DEF Reading
  <1>5. CASE UNCHANGED vars
    <2>1. /\ slot' = slot /\ steady' = steady /\ moved' = moved /\ refs' = refs
          /\ pc' = pc /\ todo' = todo
          /\ dir' = dir /\ driver' = driver /\ chip' = chip /\ attrs' = attrs /\ found' = found
          /\ selected' = selected /\ sensor' = sensor /\ from' = from /\ obtained' = obtained
      BY <1>5 DEF vars, kernel, visit
    <2>2. TypeOK' /\ Listed'
      BY <2>1 DEF Inv, TypeOK, Registered, Listed, Discovering, Visiting
    <2>3. SteadyFound'
      BY <2>1 DEF Inv, SteadyFound, SteadyAt, Discovering, Visiting, Visited, Collected, SensorAt
    <2>4. SteadySelected'
      <3>1. \A d \in Device : Wanted(d)' = Wanted(d)
        BY <2>1 DEF Wanted, refs
      <3> QED
        BY <2>1, <3>1 DEF Inv, SteadySelected, SteadyAt, Armed, SensorAt
    <2>5. Pass' /\ SteadyRead'
      BY <2>1 DEF Inv, Pass, SteadyRead, SteadyAt, Armed, Confirming
    <2> QED
      BY <2>2, <2>3, <2>4, <2>5 DEF Inv
  <1> QED
    BY <1>1, <1>2, <1>3, <1>4, <1>5 DEF Next

LEMMA Invariance == Spec => []Inv
  BY InitInv, NextInv, PTL DEF Spec

-----------------------------------------------------------------------------
(* The confirmation. *)

LEMMA InitConfirmation == Init => Confirmation
  BY DEF Init, Confirmation, Confirming, ReadingIsFromChip

LEMMA NextConfirmation ==
  ASSUME Inv, Confirmation, [Next]_vars
  PROVE  Confirmation'
  <1>1. TypeOK /\ Pass /\ SteadySelected /\ ReadingIsFromChip
    BY DEF Inv, Confirmation
  <1>2. Confirming => sensor.dir \in Entry /\ from \in Device /\ from # None
    BY <1>1, HwmonAssumption DEF Pass, SteadySelected
  <1>3. CASE FailPass
    BY <1>3 DEF FailPass, Confirmation, Confirming, ReadingIsFromChip
  <1>4. CASE Kernel
    <2>1. /\ pc' = pc /\ sensor' = sensor /\ from' = from /\ driver' = driver /\ obtained' = obtained
      BY <1>4, KernelMoves DEF visit
    <2>2. ReadingIsFromChip'
      BY <1>1, <2>1 DEF ReadingIsFromChip, Bears
    <2>3. CASE ~ Confirming
      BY <2>1, <2>2, <2>3 DEF Confirmation, Confirming
    <2>4. CASE Confirming
      <3>1. moved \in Nat
        BY <1>1, HwmonAssumption DEF TypeOK
      <3>2. CASE slot'[sensor.dir] = slot[sensor.dir]
        <4>1. moved' = moved
          BY <1>4, <3>2, KernelMoves
        <4> QED
          BY <2>1, <2>2, <3>2, <4>1 DEF Confirmation, Confirming
      <3>3. CASE slot'[sensor.dir] # slot[sensor.dir]
        <4>1. moved' = moved + 1
          BY <1>4, <2>4, <3>3, KernelMoves
        <4>2. moved' # 0 /\ (moved' <= 1 => moved = 0 /\ moved <= 1)
          BY <3>1, <4>1
        <4>3. ASSUME moved' <= 1 PROVE slot'[sensor.dir] \in {from, None}
          <5>1. slot[sensor.dir] = from
            BY <2>4, <4>2, <4>3 DEF Confirmation
          <5>2. PICK e \in Device : Register(e) \/ Unregister(e)
            BY <1>4 DEF Kernel
          <5>3. CASE Register(e)
            <6>1. PICK k \in Entry : slot[k] = None /\ slot' = [slot EXCEPT ![k] = e]
              BY <5>3 DEF Register
            <6> QED
              BY <1>1, <1>2, <2>4, <5>1, <6>1 DEF TypeOK
          <5>4. CASE Unregister(e)
            BY <1>2, <2>4, <5>1, <5>4 DEF Unregister
          <5> QED
            BY <5>2, <5>3, <5>4
        <4> QED
          BY <2>1, <2>2, <2>4, <4>2, <4>3 DEF Confirmation, Confirming
      <3> QED
        BY <3>2, <3>3
    <2> QED
      BY <2>3, <2>4
  <1>5. CASE Discover \/ Select
    <2>1. ~ Confirming /\ ~ Confirming'
      BY <1>5 DEF Confirming, Discover, List, DiscoverName, DiscoverLink, ListAttrs, ReadLabels, Select
    <2>2. obtained' = obtained
      BY <1>5 DEF Discover, List, DiscoverName, DiscoverLink, ListAttrs, ReadLabels, Select
    <2>3. ReadingIsFromChip'
      BY <1>1, <2>2 DEF ReadingIsFromChip, Bears
    <2> QED
      BY <2>1, <2>3 DEF Confirmation, Confirming
  <1>6. CASE StartPass
    BY <1>6 DEF StartPass, Confirmation, Confirming, ReadingIsFromChip
  <1>7. ASSUME NEW s \in selected, ReadValue(s), ~ FailPass PROVE Confirmation'
    <2>1. /\ sensor' = s /\ from' = slot[s.dir] /\ pc' = "confirm_name" /\ obtained' = obtained
          /\ slot' = slot
      BY <1>7 DEF ReadValue
    <2>2. ReadingIsFromChip'
      BY <1>1, <2>1 DEF ReadingIsFromChip, Bears
    <2> QED
      BY <2>1, <2>2 DEF Confirmation, Confirming
  <1>8. CASE ConfirmName /\ ~ FailPass
    <2>1. /\ pc = "confirm_name" /\ Confirming /\ slot[sensor.dir] # None
          /\ driver' = Chip[slot[sensor.dir]][1] /\ pc' = "confirm_link" /\ moved' = moved
          /\ sensor' = sensor /\ from' = from /\ obtained' = obtained /\ slot' = slot
      BY <1>8 DEF ConfirmName, DriverAt, Confirming
    <2>2. moved <= 1 => slot[sensor.dir] = from
      BY <2>1 DEF Confirmation
    <2>3. ReadingIsFromChip'
      BY <1>1, <2>1 DEF ReadingIsFromChip, Bears
    <2> QED
      BY <2>1, <2>2, <2>3 DEF Confirmation, Confirming
  <1>9. CASE ConfirmLink /\ ~ FailPass
    <2>1. PICK r : r = [sensor |-> sensor, from |-> from, moved |-> moved]
      OBVIOUS
    <2>2. r.sensor = sensor /\ r.from = from /\ r.moved = moved
      BY <2>1
    <2>3. /\ pc = "confirm_link" /\ Confirming /\ obtained' = obtained \cup {r}
          /\ pc' \in {"done", "sensor"}
      BY <1>9, <2>1 DEF ConfirmLink, Confirming
    <2>4. /\ from \in Device
          /\ moved <= 1 => driver = Chip[from][1] /\ slot[sensor.dir] \in {from, None}
      BY <1>2, <2>3 DEF Confirmation
    <2>5. PICK address \in {AddressAt(sensor.dir), VirtualAddress} : sensor.chip = <<driver>> \o address
      BY <1>9 DEF ConfirmLink, IsConfirmed
    <2>6. ASSUME moved <= 1 PROVE Bears(from, sensor.chip)
      <3>1. CASE address = VirtualAddress
        BY <2>4, <2>5, <2>6, <3>1 DEF Bears
      <3>2. CASE address = AddressAt(sensor.dir) /\ address # VirtualAddress
        <4>1. sensor.chip = <<Chip[from][1]>> \o Tail(Chip[from])
          BY <2>4, <2>5, <2>6, <3>2 DEF AddressAt
        <4>2. sensor.chip = Chip[from]
          BY <2>4, <4>1, WholeName
        <4> QED
          BY <4>2 DEF Bears
      <3> QED
        BY <2>5, <3>1, <3>2
    <2>7. ReadingIsFromChip'
      BY <1>1, <2>2, <2>3, <2>6 DEF ReadingIsFromChip, Bears
    <2> QED
      BY <2>3, <2>7 DEF Confirmation, Confirming
  <1>10. CASE UNCHANGED vars
    BY <1>10 DEF vars, kernel, visit, Confirmation, Confirming, ReadingIsFromChip, Bears
  <1> QED
    BY <1>3, <1>4, <1>5, <1>6, <1>7, <1>8, <1>9, <1>10 DEF Next, Reading

-----------------------------------------------------------------------------
(* An index is held by one device, and a pass completes only when every    *)
(* selected sensor has given a reading (Sensors.Read).                     *)
THEOREM TypeCorrect == Spec => []TypeOK
  <1>1. Inv => TypeOK
    BY DEF Inv
  <1> QED
    BY <1>1, Invariance, PTL

(* A matching device that stays and that Discover could read is in every   *)
(* reading, at the attribute the table asks for, whatever attributes the   *)
(* devices have and however many others come, go, reuse indices or cannot  *)
(* be read: the bound on the changes plays no part.                        *)
THEOREM SteadyAreRead == Spec => []SteadyDevicesRead
  <1>1. Inv => SteadyDevicesRead
    <2> SUFFICES ASSUME Inv, pc = "done", NEW d \in steady, NEW a \in Wanted(d)
                 PROVE  \E o \in obtained : o.from = d /\ o.sensor.attr = a
      BY DEF SteadyDevicesRead
    <2>1. TypeOK /\ SteadySelected /\ Pass /\ SteadyRead /\ Armed /\ ~ Confirming
      BY DEF Inv, Armed, Confirming
    <2>2. d \in Device
      BY <2>1, SteadyHasEntry
    <2>3. PICK i \in Entry : SteadyAt(d, i)
      BY <2>1, SteadyHasEntry
    <2>4. PICK s \in selected : s = SensorAt(d, a, i)
      BY <2>1, <2>2, <2>3 DEF SteadySelected
    <2>5. s.attr = a /\ s.dir = i
      BY <2>4, SensorAtIs
    <2>6. PICK o \in obtained : o.sensor = s
      BY <2>1 DEF Pass
    <2>7. o.from = d
      BY <2>1, <2>2, <2>3, <2>5, <2>6 DEF SteadyRead
    <2> QED
      BY <2>5, <2>6, <2>7
  <1> QED
    BY <1>1, Invariance, PTL

(* confirmChip does its work: a reading comes from a device that bears the *)
(* name it is returned under, unless the entry has changed hands between   *)
(* the value and its confirmation; what happens at other entries is free.  *)
THEOREM ReadingsBearTheChip == Spec => []ReadingIsFromChip
  <1>1. Inv /\ Confirmation /\ [Next]_vars => Confirmation'
    BY NextConfirmation
  <1>2. Confirmation => ReadingIsFromChip
    BY DEF Confirmation
  <1> QED
    BY <1>1, <1>2, InitConfirmation, Invariance, PTL DEF Spec

-----------------------------------------------------------------------------
(***************************************************************************)
(* The names themselves: proofs about ChipNames, for any class entries,    *)
(* any tree of devices, cycles included, and any bound on the walk.        *)
(***************************************************************************)

(* Where the program can compose an address. *)
OnABus(p) == p.bus = "acpi" \/ p.bus \in {"platform", "of_node"}
             \/ (p.bus \in {"pci", "i2c", "spi"} /\ p.at # <<>>)

LEMMA PlaceIs ==
  ASSUME NEW p \in Places, p.at # <<>>
  PROVE  /\ p.bus = "pci" => p.at \in Nat \X Nat \X (0..31) \X (0..7)
         /\ p.bus \in {"i2c", "spi"} => p.at \in Nat \X Nat
         /\ p.bus \in {"platform", "of_node"} => p.at \in Seq(Nat) /\ Len(p.at) = 1
  BY ChipNamesAssumption

LEMMA PairIs ==
  ASSUME NEW x, NEW y, NEW s, s = <<x, y>>
  PROVE  s # <<>> /\ Len(s) = 2 /\ s[1] = x /\ s[2] = y
  OBVIOUS

LEMMA TripleIs ==
  ASSUME NEW x, NEW y, NEW z, NEW s, s = <<x, y, z>>
  PROVE  s # <<>> /\ Len(s) = 3 /\ s[1] = x /\ s[2] = y /\ s[3] = z
  OBVIOUS

LEMMA TailIs ==
  ASSUME NEW w, NEW x, NEW y, NEW z, NEW a, a = <<w, x, y, z>>
  PROVE  Tail(a) = <<x, y, z>>
  OBVIOUS

(* The bits of bus, slot and function do not overlap. *)
LEMMA PciAddressTells ==
  ASSUME NEW a \in Nat \X Nat \X (0..31) \X (0..7), NEW b \in Nat \X Nat \X (0..31) \X (0..7),
         pciAddress(a) = pciAddress(b)
  PROVE  Tail(a) = Tail(b)
  <1>1. /\ a[2] \in Nat /\ a[3] \in 0..31 /\ a[4] \in 0..7
        /\ b[2] \in Nat /\ b[3] \in 0..31 /\ b[4] \in 0..7
        /\ 256 * a[2] + 8 * a[3] + a[4] = 256 * b[2] + 8 * b[3] + b[4]
    BY DEF pciAddress
  <1>2. a[2] = b[2] /\ a[3] = b[3] /\ a[4] = b[4]
    <2> DEFINE p == a[2]  u == a[3]  x == a[4]  q == b[2]  v == b[3]  y == b[4]
    <2>1. /\ p \in Nat /\ u \in 0..31 /\ x \in 0..7 /\ q \in Nat /\ v \in 0..31 /\ y \in 0..7
          /\ 256 * p + 8 * u + x = 256 * q + 8 * v + y
      BY <1>1
    <2> HIDE DEF p, u, x, q, v, y
    <2>2. p = q /\ u = v /\ x = y
      <3>1. p = q
        BY <2>1
      <3>2. u = v
        BY <2>1, <3>1
      <3> QED
        BY <2>1, <3>1, <3>2
    <2> QED
      BY <2>2 DEF p, u, x, q, v, y
  <1>3. a = <<a[1], a[2], a[3], a[4]>> /\ b = <<b[1], b[2], b[3], b[4]>>
    OBVIOUS
  <1>4. Tail(a) = <<a[2], a[3], a[4]>>
    BY <1>3, TailIs
  <1>5. Tail(b) = <<b[2], b[3], b[4]>>
    BY <1>3, TailIs
  <1> QED
    BY <1>2, <1>4, <1>5

LEMMA SuffixIs ==
  ASSUME NEW p \in Places
  PROVE  LET s == busSuffix(p)
         IN  /\ p.bus \in {"i2c", "spi"} /\ p.at # <<>> =>
                  s # <<>> /\ Len(s) = 3 /\ s[1] = p.bus /\ s[2] = p.at[1] /\ s[3] = p.at[2]
             /\ p.bus = "pci" /\ p.at # <<>> =>
                  s # <<>> /\ Len(s) = 2 /\ s[1] = "pci" /\ s[2] = pciAddress(p.at)
             /\ p.bus = "acpi" => s # <<>> /\ Len(s) = 2 /\ s[1] = "acpi" /\ s[2] = 0
             /\ p.bus \in {"platform", "of_node"} =>
                  /\ s # <<>> /\ Len(s) = 2 /\ s[1] = "isa"
                  /\ s[2] = IF p.at = <<>> THEN 0 ELSE p.at[1]
             /\ ~ OnABus(p) => s = <<>>
  <1> DEFINE s == busSuffix(p)
  <1>1. p.bus \in {"i2c", "spi"} /\ p.at # <<>> => s = <<p.bus, p.at[1], p.at[2]>>
    BY DEF busSuffix
  <1>2. p.bus = "pci" /\ p.at # <<>> => s = <<"pci", pciAddress(p.at)>>
    BY DEF busSuffix
  <1>3. p.bus = "acpi" => s = <<"acpi", 0>>
    BY DEF busSuffix
  <1>4. p.bus \in {"platform", "of_node"} =>
          s = <<"isa", IF p.at = <<>> THEN 0 ELSE p.at[1]>>
    BY DEF busSuffix
  <1>5. ~ OnABus(p) => s = <<>>
    BY DEF busSuffix, OnABus
  <1> HIDE DEF s
  <1>6. p.bus \in {"i2c", "spi"} /\ p.at # <<>> =>
          s # <<>> /\ Len(s) = 3 /\ s[1] = p.bus /\ s[2] = p.at[1] /\ s[3] = p.at[2]
    BY <1>1, TripleIs
  <1>7. p.bus = "pci" /\ p.at # <<>> =>
          s # <<>> /\ Len(s) = 2 /\ s[1] = "pci" /\ s[2] = pciAddress(p.at)
    BY <1>2, PairIs
  <1>8. p.bus = "acpi" => s # <<>> /\ Len(s) = 2 /\ s[1] = "acpi" /\ s[2] = 0
    BY <1>3, PairIs
  <1>9. p.bus \in {"platform", "of_node"} =>
          s # <<>> /\ Len(s) = 2 /\ s[1] = "isa" /\ s[2] = IF p.at = <<>> THEN 0 ELSE p.at[1]
    BY <1>4, PairIs
  <1> QED
    BY <1>5, <1>6, <1>7, <1>8, <1>9, Zenon DEF s

(* Two chips get one suffix only when their places cannot be told apart. *)
LEMMA SuffixTells ==
  ASSUME NEW p \in Places, NEW q \in Places,
         busSuffix(p) # <<>>, busSuffix(p) = busSuffix(q)
  PROVE  ~ Apart(p, q)
  <1> DEFINE s == busSuffix(p)
             t == busSuffix(q)
  <1>1. /\ OnABus(p) /\ OnABus(q)
        /\ Len(s) = Len(t) /\ s[1] = t[1] /\ s[2] = t[2] /\ s[3] = t[3]
    BY SuffixIs, Zenon
  <1> HIDE DEF s, t
  <1>2. CASE p.bus \in {"i2c", "spi"}
    <2>1. p.at # <<>> /\ s[1] = p.bus /\ s[2] = p.at[1] /\ s[3] = p.at[2]
      BY <1>1, <1>2, SuffixIs DEF OnABus, s
    <2>2. q.bus = p.bus /\ q.at # <<>>
      BY <1>1, <1>2, <2>1, SuffixIs DEF OnABus, t
    <2>3. t[2] = q.at[1] /\ t[3] = q.at[2]
      BY <1>2, <2>2, SuffixIs DEF t
    <2>4. p.at \in Nat \X Nat /\ q.at \in Nat \X Nat
      BY <1>2, <2>1, <2>2, PlaceIs
    <2>5. p.at[1] = q.at[1] /\ p.at[2] = q.at[2]
      BY <1>1, <2>1, <2>3
    <2>6. p.at = q.at
      BY <2>4, <2>5
    <2> QED
      BY <1>2, <2>2, <2>6 DEF Apart
  <1>3. CASE p.bus = "pci"
    <2>1. p.at # <<>> /\ s[1] = "pci" /\ s[2] = pciAddress(p.at)
      BY <1>1, <1>3, SuffixIs DEF OnABus, s
    <2>2. q.bus = "pci" /\ q.at # <<>>
      BY <1>1, <1>3, <2>1, SuffixIs DEF OnABus, t
    <2>3. t[2] = pciAddress(q.at)
      BY <2>2, SuffixIs DEF t
    <2>4. /\ p.at \in Nat \X Nat \X (0..31) \X (0..7)
          /\ q.at \in Nat \X Nat \X (0..31) \X (0..7)
      BY <1>3, <2>1, <2>2, PlaceIs
    <2>5. Tail(p.at) = Tail(q.at)
      BY <1>1, <2>1, <2>3, <2>4, PciAddressTells
    <2> QED
      BY <1>3, <2>2, <2>5 DEF Apart
  <1>4. CASE p.bus = "acpi"
    <2>1. s[1] = "acpi"
      BY <1>4, SuffixIs DEF s
    <2>2. q.bus = "acpi"
      BY <1>1, <2>1, SuffixIs DEF OnABus, t
    <2> QED
      BY <1>4, <2>2 DEF Apart
  <1>5. CASE p.bus \in {"platform", "of_node"}
    <2>1. s[1] = "isa" /\ s[2] = IF p.at = <<>> THEN 0 ELSE p.at[1]
      BY <1>5, SuffixIs DEF s
    <2>2. q.bus \in {"platform", "of_node"}
      BY <1>1, <2>1, SuffixIs DEF OnABus, t
    <2>3. t[2] = IF q.at = <<>> THEN 0 ELSE q.at[1]
      BY <2>2, SuffixIs DEF t
    <2>4. ASSUME p.at # <<>>, q.at # <<>> PROVE p.at = q.at
      <3>1. Len(p.at) = 1 /\ Len(q.at) = 1 /\ p.at \in Seq(Nat) /\ q.at \in Seq(Nat)
        BY <1>5, <2>2, <2>4, PlaceIs
      <3>2. p.at[1] = q.at[1]
        BY <1>1, <2>1, <2>3, <2>4
      <3> QED
        BY <3>1, <3>2
    <2> QED
      BY <1>5, <2>2, <2>4 DEF Apart
  <1> QED
    BY <1>1, <1>2, <1>3, <1>4, <1>5 DEF OnABus

-----------------------------------------------------------------------------
(* What the names are made of. *)
Word == {"driver", "i2c", "spi", "pci", "acpi", "isa"}
Part == Word \cup Nat

LEMMA PartIs == (\A x \in Word : x \in Part) /\ (\A x \in Nat : x \in Part)
  BY Zenon DEF Part

LEMMA DriverIs == <<"driver">> \in Seq(Part) /\ Len(<<"driver">>) = 1
  <1>1. \A S : \A x \in S : <<x>> \in Seq(S)
    OBVIOUS
  <1>2. "driver" \in Word
    BY DEF Word
  <1>3. "driver" \in Part
    BY <1>2, PartIs, Zenon
  <1>4. <<"driver">> \in Seq(Part)
    BY <1>1, <1>3, Zenon
  <1> QED
    BY <1>4

LEMMA PairInSeq ==
  ASSUME NEW S, NEW x \in S, NEW y \in S,
         NEW s, s = <<x, y>>
  PROVE  s \in Seq(S)
  OBVIOUS

LEMMA TripleInSeq ==
  ASSUME NEW S, NEW x \in S, NEW y \in S, NEW z \in S,
         NEW s, s = <<x, y, z>>
  PROVE  s \in Seq(S)
  OBVIOUS

LEMMA SuffixInSeq ==
  ASSUME NEW p \in Places
  PROVE  busSuffix(p) \in Seq(Part)
  <1>1. "i2c" \in Part /\ "spi" \in Part /\ "pci" \in Part /\ "acpi" \in Part /\ "isa" \in Part /\ 0 \in Part
    <2>1. "i2c" \in Word /\ "spi" \in Word /\ "pci" \in Word /\ "acpi" \in Word /\ "isa" \in Word
      BY DEF Word
    <2>2. 0 \in Nat
      OBVIOUS
    <2> QED
      BY <2>1, <2>2, PartIs, Zenon
  <1>2. CASE p.bus \in {"i2c", "spi"} /\ p.at # <<>>
    <2>1. p.bus \in Part /\ p.at[1] \in Part /\ p.at[2] \in Part
      <3>1. p.at[1] \in Nat /\ p.at[2] \in Nat
        BY <1>2, PlaceIs
      <3> QED
        BY <1>1, <1>2, <3>1, PartIs, Zenon
    <2>2. busSuffix(p) = <<p.bus, p.at[1], p.at[2]>>
      BY <1>2 DEF busSuffix
    <2> QED
      BY <1>1, <2>1, <2>2, TripleInSeq, Zenon
  <1>3. CASE p.bus = "pci" /\ p.at # <<>>
    <2>1. pciAddress(p.at) \in Part
      <3>1. PICK a \in Nat \X Nat \X (0..31) \X (0..7) : a = p.at
        BY <1>3, PlaceIs
      <3>2. a[2] \in Nat /\ a[3] \in Nat /\ a[4] \in Nat
        BY <3>1
      <3>3. pciAddress(a) \in Nat
        BY <3>2 DEF pciAddress
      <3> QED
        BY <3>1, <3>3, PartIs, Zenon
    <2>2. busSuffix(p) = <<"pci", pciAddress(p.at)>>
      BY <1>3 DEF busSuffix
    <2> QED
      BY <1>1, <2>1, <2>2, PairInSeq, Zenon
  <1>4. CASE p.bus = "acpi"
    <2>1. busSuffix(p) = <<"acpi", 0>>
      BY <1>4 DEF busSuffix
    <2> QED
      BY <1>1, <2>1, PairInSeq, Zenon
  <1>5. CASE p.bus \in {"platform", "of_node"}
    <2>1. (IF p.at = <<>> THEN 0 ELSE p.at[1]) \in Part
      <3>1. ASSUME p.at # <<>> PROVE p.at[1] \in Nat
        <4>1. PICK a \in Seq(Nat) : a = p.at /\ Len(a) = 1
          BY <1>5, <3>1, PlaceIs
        <4>2. 1 \in 1..Len(a)
          BY <4>1
        <4> QED
          BY <4>1, <4>2, ElementOfSeq
      <3>2. (IF p.at = <<>> THEN 0 ELSE p.at[1]) \in Nat
        BY <3>1
      <3> QED
        BY <3>2, PartIs, Zenon
    <2>2. busSuffix(p) = <<"isa", IF p.at = <<>> THEN 0 ELSE p.at[1]>>
      BY <1>5 DEF busSuffix
    <2> QED
      BY <1>1, <2>1, <2>2, PairInSeq, Zenon
  <1>6. CASE ~ OnABus(p)
    BY <1>6, SuffixIs, EmptySeq
  <1> QED
    BY <1>2, <1>3, <1>4, <1>5, <1>6 DEF OnABus

LEMMA SecondIs ==
  ASSUME NEW S, NEW u \in Seq(S), NEW v \in Seq(S), Len(u) = 1, Len(v) \in 2..3
  PROVE  Len(u \o v) \in 3..4 /\ (u \o v)[2] = v[1]
  <1>1. /\ Len(u \o v) = Len(u) + Len(v)
        /\ \A k \in 1..(Len(u) + Len(v)) : (u \o v)[k] = IF k <= Len(u) THEN u[k] ELSE v[k - Len(u)]
    BY ConcatProperties
  <1> DEFINE m == Len(v)
             w == u \o v
  <1>2. /\ m \in 2..3 /\ Len(w) = 1 + m
        /\ \A k \in 1..(1 + m) : w[k] = IF k <= 1 THEN u[k] ELSE v[k - 1]
    BY <1>1
  <1> HIDE DEF m, w
  <1>3. Len(w) \in 3..4 /\ 2 \in 1..(1 + m) /\ 2 - 1 = 1 /\ ~ (2 <= 1)
    BY <1>2
  <1>4. w[2] = v[1]
    BY <1>2, <1>3
  <1> QED
    BY <1>3, <1>4 DEF w

(* A composed name tells its suffix, and is not the virtual one. *)
LEMMA NameIs ==
  ASSUME NEW p \in Places, busSuffix(p) # <<>>
  PROVE  LET n == <<"driver">> \o busSuffix(p)
         IN  n # <<>> /\ Len(n) \in 3..4 /\ n # Virtual
  <1> DEFINE h == <<"driver">>
             s == busSuffix(p)
             n == h \o s
  <1>1. s \in Seq(Part) /\ Len(s) \in 2..3 /\ s[1] # "virtual"
    <2>1. OnABus(p)
      BY SuffixIs
    <2> QED
      BY <2>1, SuffixIs, SuffixInSeq DEF OnABus
  <1>2. h \in Seq(Part) /\ Len(h) = 1
    BY DriverIs
  <1> HIDE DEF s, h
  <1>3. Len(n) \in 3..4 /\ n[2] = s[1]
    <2>1. \A u, v \in Seq(Part) : Len(u) = 1 /\ Len(v) \in 2..3 =>
            Len(u \o v) \in 3..4 /\ (u \o v)[2] = v[1]
      BY SecondIs, Zenon
    <2> QED
      BY <1>1, <1>2, <2>1, Zenon
  <1> HIDE DEF n
  <1>4. n[2] # "virtual"
    BY <1>1, <1>3
  <1>5. Len(<<>>) = 0
    OBVIOUS
  <1>6. Virtual[2] = "virtual"
    BY DEF Virtual
  <1>7. n # <<>>
    BY <1>3, <1>5
  <1>8. n # Virtual
    BY <1>4, <1>6, Zenon
  <1> QED
    BY <1>3, <1>7, <1>8 DEF n, s, h

LEMMA NameTellsSuffix ==
  ASSUME NEW p \in Places, NEW q \in Places,
         <<"driver">> \o busSuffix(p) = <<"driver">> \o busSuffix(q)
  PROVE  busSuffix(p) = busSuffix(q)
  <1>1. \A s, t, v \in Seq(Part) : s \o t = s \o v => t = v
    BY ConcatSimplifications
  <1> QED
    BY <1>1, DriverIs, SuffixInSeq, Zenon

-----------------------------------------------------------------------------
(* The name n is right for the class entry d. *)
RightName(d, n) ==
  \/ n = <<>>
  \/ n = Virtual /\ Owners(d) = {}
  \/ \E o \in Dev : /\ Owners(d) = {o} /\ busSuffix(place[o]) # <<>>
                    /\ n = <<"driver">> \o busSuffix(place[o])

(* The links followed so far led to the device at, by way of none that is  *)
(* on a bus, and they are the only ones there are.                         *)
OnTheWay ==
  step = "walk" =>
    /\ at \in Dev
    /\ \E c \in [1..(hop + 1) -> Dev] :
         /\ Chain(entry, c) /\ c[hop + 1] = at
         /\ \A k \in 1..hop : ~ Addressed(c[k])
    /\ \A c \in Chains(MaxDeviceLinks) : Chain(entry, c) =>
         \A k \in 1..Len(c) : /\ k <= hop => ~ Addressed(c[k])
                              /\ k = hop + 1 => c[k] = at

NamesInv ==
  /\ NamesTypeOK
  /\ DOMAIN names = Dir
  /\ \A d \in Dir : RightName(d, names[d])
  /\ OnTheWay

-----------------------------------------------------------------------------
(* Chains of device links. *)
LEMMA ChainsAre ==
  ASSUME NEW n \in Nat, NEW c \in Chains(n)
  PROVE  Len(c) \in 1..n /\ c \in [1..Len(c) -> Dev]
  <1>1. PICK m \in 1..n : c \in [1..m -> Dev]
    BY DEF Chains
  <1>2. Len(c) = m
    BY <1>1
  <1> QED
    BY <1>1, <1>2

LEMMA InChains ==
  ASSUME NEW n \in Nat, NEW m \in 1..n, NEW c \in [1..m -> Dev]
  PROVE  c \in Chains(n) /\ Len(c) = m /\ c # <<>>
  <1>1. c \in Chains(n)
    BY DEF Chains
  <1>2. Len(c) = m
    OBVIOUS
  <1> QED
    BY <1>1, <1>2

LEMMA AddressedIs ==
  ASSUME place \in [Dev -> Places], NEW d \in Dev
  PROVE  Addressed(d) <=> busSuffix(place[d]) # <<>>
  <1>1. place[d] \in Places /\ (Addressed(d) <=> OnABus(place[d]))
    BY DEF Addressed, OnABus
  <1>2. OnABus(place[d]) <=> busSuffix(place[d]) # <<>>
    BY <1>1, SuffixIs DEF OnABus
  <1> QED
    BY <1>1, <1>2

LEMMA SameOwners ==
  ASSUME UNCHANGED <<place, link>>, NEW d
  PROVE  Owners(d)' = Owners(d)
  BY DEF Owners, Chain, Chains, Addressed

(* A device whose link points at itself is never left. *)
LEMMA StaysPut ==
  ASSUME NEW n \in Nat, NEW c \in [1..n -> Dev], NEW m \in 1..n,
         link[c[m]] = c[m], \A k \in 2..n : c[k] = link[c[k - 1]]
  PROVE  c[n] = c[m]
  <1> DEFINE T == {k \in m..n : c[k] # c[m]}
  <1> SUFFICES ASSUME c[n] # c[m] PROVE FALSE
    OBVIOUS
  <1>1. T \subseteq Nat /\ n \in T
    OBVIOUS
  <1>2. PICK x \in T : \A y \in T : x <= y
    BY <1>1, SmallestExists
  <1>3. x \in m..n /\ x # m /\ x - 1 \in m..n /\ x - 1 \notin T /\ x \in 2..n
    BY <1>2
  <1>4. c[x - 1] = c[m] /\ c[x] = link[c[x - 1]]
    BY <1>3
  <1> QED
    BY <1>2, <1>4

LEMMA OwnerIs ==
  ASSUME NEW d, NEW o \in Owners(d)
  PROVE  \E c \in Chains(MaxDeviceLinks) :
           /\ Chain(d, c) /\ o = c[Len(c)] /\ Addressed(c[Len(c)])
           /\ \A k \in 1..(Len(c) - 1) : ~ Addressed(c[k])
  BY DEF Owners

(* The walk stops at a bus: the device reached is the owner. *)
LEMMA OwnerFound ==
  ASSUME NamesTypeOK, OnTheWay, step = "walk",
         busSuffix(place[at]) # <<>>
  PROVE  Owners(entry) = {at}
  <1>1. /\ MaxDeviceLinks \in Nat /\ hop \in 0..(MaxDeviceLinks - 1) /\ at \in Dev
        /\ place \in [Dev -> Places] /\ hop + 1 \in 1..MaxDeviceLinks
    BY ChipNamesAssumption DEF NamesTypeOK, OnTheWay
  <1>2. Addressed(at)
    BY <1>1, AddressedIs
  <1>3. at \in Owners(entry)
    <2>1. PICK c \in [1..(hop + 1) -> Dev] :
            /\ Chain(entry, c) /\ c[hop + 1] = at
            /\ \A k \in 1..hop : ~ Addressed(c[k])
      BY DEF OnTheWay
    <2>2. c \in Chains(MaxDeviceLinks) /\ Len(c) = hop + 1
      BY <1>1, InChains
    <2>3. Len(c) - 1 = hop
      BY <1>1, <2>2
    <2> QED
      BY <1>2, <2>1, <2>2, <2>3 DEF Owners
  <1>4. ASSUME NEW o \in Owners(entry) PROVE o = at
    <2>1. PICK c \in Chains(MaxDeviceLinks) :
            /\ Chain(entry, c) /\ o = c[Len(c)] /\ Addressed(c[Len(c)])
            /\ \A k \in 1..(Len(c) - 1) : ~ Addressed(c[k])
      BY OwnerIs
    <2>2. Len(c) \in 1..MaxDeviceLinks
      BY <1>1, ChainsAre
    <2>3. \A k \in 1..Len(c) : /\ k <= hop => ~ Addressed(c[k])
                               /\ k = hop + 1 => c[k] = at
      BY <2>1 DEF OnTheWay
    <2>4. ~ (Len(c) <= hop)
      BY <2>1, <2>2, <2>3
    <2>5. ASSUME Len(c) > hop + 1 PROVE FALSE
      <3>1. hop + 1 \in 1..Len(c) /\ hop + 1 \in 1..(Len(c) - 1)
        BY <1>1, <2>2, <2>5
      <3> QED
        BY <1>2, <2>1, <2>3, <3>1
    <2>6. Len(c) = hop + 1
      BY <1>1, <2>2, <2>4, <2>5
    <2> QED
      BY <2>1, <2>2, <2>3, <2>6
  <1> QED
    BY <1>3, <1>4

(* It gives up: no chain within the bound leads to a bus. *)
LEMMA NoOwner ==
  ASSUME NamesTypeOK, OnTheWay, step = "walk",
         busSuffix(place[at]) = <<>>,
         link[at] \in {NoDevice, at} \/ hop + 1 = MaxDeviceLinks
  PROVE  Owners(entry) = {}
  <1>1. /\ MaxDeviceLinks \in Nat /\ hop \in 0..(MaxDeviceLinks - 1) /\ at \in Dev
        /\ place \in [Dev -> Places] /\ NoDevice \notin Dev
    BY ChipNamesAssumption DEF NamesTypeOK, OnTheWay
  <1>2. ~ Addressed(at)
    BY <1>1, AddressedIs
  <1> SUFFICES ASSUME NEW o \in Owners(entry) PROVE FALSE
    OBVIOUS
  <1>3. PICK c \in Chains(MaxDeviceLinks) : Chain(entry, c) /\ Addressed(c[Len(c)])
    BY OwnerIs
  <1>4. Len(c) \in 1..MaxDeviceLinks /\ c \in [1..Len(c) -> Dev]
    BY <1>1, ChainsAre
  <1>5. \A k \in 1..Len(c) : /\ k <= hop => ~ Addressed(c[k])
                             /\ k = hop + 1 => c[k] = at
    BY <1>3 DEF OnTheWay
  <1>6. \A k \in 2..Len(c) : c[k] = link[c[k - 1]]
    BY <1>3 DEF Chain
  <1> DEFINE n == Len(c)
  <1>7. n \in 1..MaxDeviceLinks /\ n \in 1..n /\ ~ (n <= hop) /\ n # hop + 1
    BY <1>2, <1>3, <1>4, <1>5
  <1>8. hop + 1 \in 1..n /\ hop + 2 \in 2..n /\ n \in (hop + 1)..n /\ hop + 1 # MaxDeviceLinks
    BY <1>1, <1>7
  <1>9. c[hop + 1] = at /\ c[hop + 2] = link[at] /\ c[hop + 2] \in Dev
    <2>1. c[hop + 1] = at
      BY <1>5, <1>8
    <2>2. hop + 2 \in 1..n /\ (hop + 2) - 1 = hop + 1
      BY <1>1, <1>7, <1>8
    <2>3. c[hop + 2] = link[c[(hop + 2) - 1]] /\ c[hop + 2] \in Dev
      BY <1>4, <1>6, <1>8, <2>2
    <2> QED
      BY <2>1, <2>2, <2>3
  <1>10. link[at] = at
    BY <1>1, <1>8, <1>9
  <1>11. c[n] = at
    <2>1. /\ n \in Nat /\ c \in [1..n -> Dev] /\ hop + 1 \in 1..n
          /\ \A k \in 2..n : c[k] = link[c[k - 1]]
      BY <1>4, <1>6, <1>7, <1>8
    <2>2. PICK m \in 1..n : m = hop + 1
      BY <2>1
    <2>3. c[m] = at /\ link[c[m]] = c[m]
      BY <1>9, <1>10, <2>2
    <2> HIDE DEF n
    <2> QED
      BY <2>1, <2>3, StaysPut
  <1> QED
    BY <1>2, <1>3, <1>11

(* A right name is virtual exactly if nothing owns the chip. *)
LEMMA RightNameIs ==
  ASSUME place \in [Dev -> Places], NEW d, NEW n, RightName(d, n), n # <<>>
  PROVE  Len(n) \in 3..4 /\ (n = Virtual <=> Owners(d) = {})
  <1>1. CASE n = Virtual /\ Owners(d) = {}
    <2>1. Len(n) = 3
      BY <1>1, TripleIs DEF Virtual
    <2> QED
      BY <1>1, <2>1
  <1>2. CASE \E o \in Dev : /\ Owners(d) = {o} /\ busSuffix(place[o]) # <<>>
                           /\ n = <<"driver">> \o busSuffix(place[o])
    <2>1. PICK o \in Dev : /\ Owners(d) = {o} /\ busSuffix(place[o]) # <<>>
                          /\ n = <<"driver">> \o busSuffix(place[o])
      BY <1>2
    <2>2. place[o] \in Places /\ Owners(d) # {}
      BY <2>1
    <2>3. Len(n) \in 3..4 /\ n # Virtual
      BY <2>1, <2>2, NameIs, Zenon
    <2> QED
      BY <2>2, <2>3
  <1> QED
    BY <1>1, <1>2, Zenon DEF RightName

-----------------------------------------------------------------------------
(* An entry gets its name, and Discover goes on. *)
LEMMA ComposedKeeps ==
  ASSUME NamesInv, NEW n, Composed(n), RightName(entry, n),
         UNCHANGED <<place, link>>, at' \in Dev \cup {NoDevice}, hop' \in 0..(MaxDeviceLinks - 1)
  PROVE  NamesInv'
  <1>1. /\ NamesTypeOK /\ DOMAIN names = Dir /\ entry \in Dir /\ later \subseteq Dir \ {entry}
        /\ place \in [Dev -> Places] /\ link \in [Dev \cup Dir -> Dev \cup {NoDevice}]
    BY DEF NamesInv, NamesTypeOK
  <1>2. names' = [names EXCEPT ![entry] = n]
    BY DEF Composed
  <1>3. DOMAIN names' = Dir /\ \A d \in Dir : names'[d] = IF d = entry THEN n ELSE names[d]
    BY <1>1, <1>2
  <1>4. /\ entry' \in Dir /\ later' \subseteq Dir \ {entry'} /\ step' \in {"name", "done"}
    <2>1. CASE later = {}
      BY <1>1, <2>1 DEF Composed
    <2>2. CASE later # {}
      <3>1. (CHOOSE d \in later : TRUE) \in later
        BY <2>2
      <3> QED
        BY <1>1, <2>2, <3>1 DEF Composed
    <2> QED
      BY <2>1, <2>2
  <1>5. \A d \in Dir : RightName(d, names'[d])
    BY <1>3 DEF NamesInv
  <1>6. \A d \in Dir : RightName(d, names[d])'
    BY <1>5, SameOwners, Zenon DEF RightName
  <1>7. \A d \in Dir : names'[d] = <<>> \/ Len(names'[d]) \in 3..4
    BY <1>1, <1>5, RightNameIs
  <1>8. NamesTypeOK'
    BY <1>1, <1>4, <1>7 DEF NamesTypeOK
  <1>9. OnTheWay'
    BY <1>4 DEF OnTheWay
  <1> QED
    BY <1>3, <1>6, <1>8, <1>9 DEF NamesInv

LEMMA NamesInvInit == NamesInit => NamesInv
  <1> SUFFICES ASSUME NamesInit PROVE NamesInv
    OBVIOUS
  <1>1. entry \in Dir
    BY ChipNamesAssumption DEF NamesInit
  <1>2. NamesTypeOK
    BY <1>1, ChipNamesAssumption DEF NamesInit, NamesTypeOK
  <1>3. \A d \in Dir : RightName(d, names[d])
    BY DEF NamesInit, RightName
  <1> QED
    BY <1>2, <1>3 DEF NamesInv, NamesInit, OnTheWay

LEMMA ReadNameStep ==
  ASSUME NamesInv, ReadNameFails \/ ReadName
  PROVE  NamesInv'
  <1>1. CASE ReadNameFails
    <2>1. UNCHANGED <<place, link>> /\ at' \in Dev \cup {NoDevice} /\ hop' \in 0..(MaxDeviceLinks - 1)
      BY <1>1 DEF ReadNameFails, sysfs, NamesInv, NamesTypeOK
    <2>2. Composed(<<>>) /\ RightName(entry, <<>>)
      BY <1>1 DEF ReadNameFails, RightName
    <2> QED
      BY <2>1, <2>2, ComposedKeeps
  <1>2. CASE ReadName
    <2>1. /\ UNCHANGED <<place, link, entry, later, at, hop, names>> /\ step' = "link"
      BY <1>2 DEF ReadName, sysfs
    <2>2. NamesTypeOK'
      BY <2>1 DEF NamesInv, NamesTypeOK
    <2>3. \A d \in Dir : RightName(d, names[d])'
      BY <2>1, SameOwners, Zenon DEF RightName, NamesInv
    <2> QED
      BY <2>1, <2>2, <2>3 DEF NamesInv, OnTheWay
  <1> QED
    BY <1>1, <1>2

LEMMA EvalDeviceStep ==
  ASSUME NamesInv, EvalDevice
  PROVE  NamesInv'
  <1>1. /\ NamesTypeOK /\ entry \in Dir /\ link[entry] \in Dev \cup {NoDevice} /\ NoDevice \notin Dev
        /\ MaxDeviceLinks \in Nat \ {0}
    BY ChipNamesAssumption DEF NamesInv, NamesTypeOK
  <1>2. /\ UNCHANGED <<place, link>> /\ at' = link[entry] /\ hop' = 0
        /\ at' \in Dev \cup {NoDevice} /\ hop' \in 0..(MaxDeviceLinks - 1)
    BY <1>1 DEF EvalDevice, sysfs
  <1>3. ASSUME NEW c \in Chains(MaxDeviceLinks), Chain(entry, c)
        PROVE  c[1] = link[entry] /\ c[1] \in Dev
    <2>1. Len(c) \in 1..MaxDeviceLinks /\ c \in [1..Len(c) -> Dev]
      BY <1>1, ChainsAre
    <2>2. 1 \in 1..Len(c)
      BY <2>1
    <2> QED
      BY <1>3, <2>1, <2>2 DEF Chain
  <1>4. CASE link[entry] = NoDevice
    <2>1. Composed(Virtual)
      BY <1>4 DEF EvalDevice
    <2>2. Owners(entry) = {}
      BY <1>1, <1>3, <1>4, OwnerIs
    <2>3. RightName(entry, Virtual)
      BY <2>2 DEF RightName
    <2> QED
      BY <1>2, <2>1, <2>3, ComposedKeeps
  <1>5. CASE link[entry] # NoDevice
    <2>1. UNCHANGED <<entry, later, names>> /\ step' = "walk" /\ at' \in Dev
      BY <1>1, <1>2, <1>5 DEF EvalDevice
    <2>2. NamesTypeOK'
      BY <1>2, <2>1 DEF NamesInv, NamesTypeOK
    <2>3. \A d \in Dir : RightName(d, names[d])'
      BY <1>2, <2>1, SameOwners, Zenon DEF RightName, NamesInv
    <2>4. \E c \in [1..(hop' + 1) -> Dev] :
            /\ Chain(entry, c)' /\ c[hop' + 1] = at'
            /\ \A k \in 1..hop' : ~ Addressed(c[k])'
      <3>1. PICK c : c = [k \in 1..1 |-> at']
        OBVIOUS
      <3>2. c \in [1..1 -> Dev] /\ c[1] = at' /\ Len(c) = 1 /\ c # <<>>
        BY <2>1, <3>1
      <3>3. c \in [1..(hop' + 1) -> Dev] /\ c[hop' + 1] = at' /\ 1..hop' = {} /\ 2..Len(c) = {}
        BY <1>2, <3>2
      <3>4. Chain(entry, c)'
        BY <1>2, <2>1, <3>2, <3>3 DEF Chain
      <3> QED
        BY <3>3, <3>4
    <2>5. ASSUME NEW c \in Chains(MaxDeviceLinks), Chain(entry, c)', NEW k \in 1..Len(c)
          PROVE  (k <= hop' => ~ Addressed(c[k])') /\ (k = hop' + 1 => c[k] = at')
      <3>1. Chain(entry, c)
        BY <1>2, <2>1, <2>5 DEF Chain
      <3>2. k \in Nat \ {0}
        BY <1>1, ChainsAre
      <3> QED
        BY <1>2, <1>3, <3>1, <3>2
    <2>6. OnTheWay'
      BY <2>1, <2>4, <2>5 DEF OnTheWay, Chains
    <2> QED
      BY <2>1, <2>2, <2>3, <2>6 DEF NamesInv
  <1> QED
    BY <1>4, <1>5

LEMMA WalkStep ==
  ASSUME NamesInv, Walk
  PROVE  NamesInv'
  <1>1. /\ NamesTypeOK /\ OnTheWay /\ step = "walk" /\ at \in Dev /\ entry \in Dir
        /\ place[at] \in Places /\ link[at] \in Dev \cup {NoDevice} /\ hop \in 0..(MaxDeviceLinks - 1)
        /\ MaxDeviceLinks \in Nat \ {0} /\ place \in [Dev -> Places]
    BY ChipNamesAssumption DEF NamesInv, NamesTypeOK, OnTheWay, Walk
  <1>2. UNCHANGED <<place, link>>
    BY DEF Walk, sysfs
  <1>3. CASE busSuffix(place[at]) # <<>>
    <2>1. PICK n : n = <<"driver">> \o busSuffix(place[at])
      OBVIOUS
    <2>2. Composed(n) /\ UNCHANGED <<at, hop>>
      BY <1>3, <2>1 DEF Walk
    <2>3. RightName(entry, n)
      BY <1>1, <1>3, <2>1, OwnerFound, Zenon DEF RightName
    <2>4. at' \in Dev \cup {NoDevice} /\ hop' \in 0..(MaxDeviceLinks - 1)
      BY <1>1, <2>2
    <2> QED
      BY <1>2, <2>2, <2>3, <2>4, ComposedKeeps
  <1>4. CASE busSuffix(place[at]) = <<>> /\ (link[at] \in {NoDevice, at} \/ hop + 1 = MaxDeviceLinks)
    <2>1. Composed(Virtual) /\ UNCHANGED <<at, hop>>
      BY <1>4 DEF Walk
    <2>2. RightName(entry, Virtual)
      BY <1>1, <1>4, NoOwner, Zenon DEF RightName
    <2>3. at' \in Dev \cup {NoDevice} /\ hop' \in 0..(MaxDeviceLinks - 1)
      BY <1>1, <2>1
    <2> QED
      BY <1>2, <2>1, <2>2, <2>3, ComposedKeeps
  <1>5. CASE /\ busSuffix(place[at]) = <<>>
             /\ ~ (link[at] \in {NoDevice, at} \/ hop + 1 = MaxDeviceLinks)
    <2>1. /\ UNCHANGED <<entry, later, step, names>> /\ at' = link[at] /\ hop' = hop + 1
          /\ at' \in Dev /\ hop' \in 0..(MaxDeviceLinks - 1)
      BY <1>1, <1>5 DEF Walk
    <2>2. NamesTypeOK'
      BY <1>2, <2>1 DEF NamesInv, NamesTypeOK
    <2>3. \A d \in Dir : RightName(d, names[d])'
      BY <1>2, <2>1, SameOwners, Zenon DEF RightName, NamesInv
    <2>4. ~ Addressed(at)
      BY <1>1, <1>5, AddressedIs
    <2>5. \A x : Addressed(x)' <=> Addressed(x)
      BY <1>2 DEF Addressed
    <2>6. \E c \in [1..(hop' + 1) -> Dev] :
            /\ Chain(entry, c)' /\ c[hop' + 1] = at'
            /\ \A k \in 1..hop' : ~ Addressed(c[k])'
      <3>1. PICK c \in [1..(hop + 1) -> Dev] :
              /\ Chain(entry, c) /\ c[hop + 1] = at
              /\ \A k \in 1..hop : ~ Addressed(c[k])
        BY <1>1 DEF OnTheWay
      <3>2. Len(c) = hop + 1
        BY <1>1, <3>1
      <3>3. c[1] = link[entry] /\ \A k \in 2..(hop + 1) : c[k] = link[c[k - 1]]
        BY <3>1, <3>2 DEF Chain
      <3>4. PICK e : e = [k \in 1..(hop + 2) |-> IF k <= hop + 1 THEN c[k] ELSE link[at]]
        OBVIOUS
      <3>5. /\ e \in [1..(hop + 2) -> Dev] /\ e[hop + 2] = link[at]
            /\ \A k \in 1..(hop + 1) : e[k] = c[k]
        BY <1>1, <2>1, <3>4, <3>1
      <3>6. Len(e) = hop + 2 /\ e # <<>>
        <4>1. PICK m \in 1..(MaxDeviceLinks + 1) : m = hop + 2
          BY <1>1
        <4> QED
          BY <3>5, <4>1
      <3>7. e[1] = link[entry]
        BY <1>1, <3>3, <3>5
      <3>8. ASSUME NEW k \in 2..(hop + 2) PROVE e[k] = link[e[k - 1]]
        <4>1. k - 1 \in 1..(hop + 1) /\ e[k - 1] = c[k - 1]
          BY <1>1, <3>5
        <4>2. CASE k = hop + 2
          BY <1>1, <3>1, <3>5, <4>1, <4>2
        <4>3. CASE k # hop + 2
          <5>1. k \in 2..(hop + 1) /\ k \in 1..(hop + 1)
            BY <1>1, <4>3
          <5> QED
            BY <3>3, <3>5, <4>1, <5>1
        <4> QED
          BY <4>2, <4>3
      <3>9. Chain(entry, e)
        BY <3>6, <3>7, <3>8 DEF Chain
      <3>10. Chain(entry, e)'
        BY <1>2, <2>1, <3>9 DEF Chain
      <3>11. ASSUME NEW k \in 1..(hop + 1) PROVE ~ Addressed(e[k])
        <4>1. k \in 1..hop \/ k = hop + 1
          BY <1>1
        <4> QED
          BY <2>4, <3>1, <3>5, <4>1
      <3>12. hop' + 1 = hop + 2 /\ hop' = hop + 1
        BY <1>1, <2>1
      <3> QED
        BY <2>1, <2>5, <3>5, <3>10, <3>11, <3>12
    <2>7. ASSUME NEW c \in Chains(MaxDeviceLinks), Chain(entry, c)', NEW k \in 1..Len(c)
          PROVE  (k <= hop' => ~ Addressed(c[k])') /\ (k = hop' + 1 => c[k] = at')
      <3>1. Chain(entry, c)
        BY <1>2, <2>1, <2>7 DEF Chain
      <3>2. Len(c) \in 1..MaxDeviceLinks /\ k \in Nat
        BY <1>1, ChainsAre
      <3>3. \A l \in 1..Len(c) : (l <= hop => ~ Addressed(c[l])) /\ (l = hop + 1 => c[l] = at)
        BY <1>1, <3>1 DEF OnTheWay
      <3>4. ASSUME k <= hop' PROVE ~ Addressed(c[k])'
        <4>1. k <= hop \/ k = hop + 1
          BY <1>1, <2>1, <3>2, <3>4
        <4> QED
          BY <2>4, <2>5, <3>3, <4>1
      <3>5. ASSUME k = hop' + 1 PROVE c[k] = at'
        <4>1. k \in 2..Len(c) /\ k - 1 \in 1..Len(c) /\ k - 1 = hop + 1
          BY <1>1, <2>1, <3>2, <3>5
        <4>2. c[k] = link[c[k - 1]]
          BY <3>1, <4>1 DEF Chain
        <4> QED
          BY <2>1, <3>3, <4>1, <4>2
      <3> QED
        BY <3>4, <3>5
    <2>8. OnTheWay'
      BY <2>1, <2>6, <2>7 DEF OnTheWay, Chains
    <2> QED
      BY <2>1, <2>2, <2>3, <2>8 DEF NamesInv
  <1> QED
    BY <1>3, <1>4, <1>5

LEMMA NamesInvNext ==
  ASSUME NamesInv, [NamesNext]_namesVars
  PROVE  NamesInv'
  <1>1. CASE UNCHANGED namesVars
    <2>1. UNCHANGED <<place, link, entry, later, step, at, hop, names>>
      BY <1>1 DEF namesVars, sysfs
    <2>2. NamesTypeOK'
      BY <2>1 DEF NamesInv, NamesTypeOK
    <2>3. \A d \in Dir : RightName(d, names[d])'
      BY <2>1, SameOwners, Zenon DEF RightName, NamesInv
    <2>4. OnTheWay'
      BY <2>1 DEF NamesInv, OnTheWay, Chain, Chains, Addressed
    <2> QED
      BY <2>1, <2>2, <2>3, <2>4 DEF NamesInv
  <1> QED
    BY <1>1, ReadNameStep, EvalDeviceStep, WalkStep DEF NamesNext, Done

LEMMA NamesInvariance == NamesSpec => []NamesInv
  <1>1. NamesInit => NamesInv
    BY NamesInvInit
  <1>2. NamesInv /\ [NamesNext]_namesVars => NamesInv'
    BY NamesInvNext
  <1> QED
    BY <1>1, <1>2, PTL DEF NamesSpec

-----------------------------------------------------------------------------
(* The walk up the device links never leaves the tree nor its bound, and   *)
(* every name has its driver, its bus and its address (chipName).          *)
THEOREM WalkStaysInBound == NamesSpec => []NamesTypeOK
  <1>1. NamesInv => NamesTypeOK
    BY DEF NamesInv
  <1> QED
    BY <1>1, NamesInvariance, PTL

(* chipName calls a chip virtual exactly if none of the first              *)
(* maxDeviceLinks devices above it is on a bus, whatever class devices sit *)
(* in between and however the links loop.                                  *)
THEOREM VirtualMeansNoBus == NamesSpec => []VirtualOnlyWithoutBus
  <1>1. NamesInv => VirtualOnlyWithoutBus
    <2> SUFFICES ASSUME NamesInv, NEW d \in Dir, names[d] # <<>>
                 PROVE  names[d] = Virtual <=> Owners(d) = {}
      BY DEF VirtualOnlyWithoutBus
    <2>1. PICK n : n = names[d]
      OBVIOUS
    <2>2. place \in [Dev -> Places] /\ RightName(d, n) /\ n # <<>>
      BY <2>1 DEF NamesInv, NamesTypeOK
    <2> QED
      BY <2>1, <2>2, RightNameIs
  <1> QED
    BY <1>1, NamesInvariance, PTL

(* Two class entries get one name only if the devices that own them cannot *)
(* be told apart: busSuffix and pciAddress lose nothing but the PCI domain *)
(* and what ACPI and unnumbered platform devices do not have.              *)
THEOREM ChipsAreKeptApart == NamesSpec => []DistinctChipsDistinctNames
  <1>1. NamesInv => DistinctChipsDistinctNames
    <2> SUFFICES ASSUME NamesInv, NEW d \in Dir, NEW e \in Dir,
                        names[d] # <<>>, names[d] = names[e],
                        NEW p \in Owners(d), NEW q \in Owners(e)
                 PROVE  ~ Apart(place[p], place[q])
      BY DEF DistinctChipsDistinctNames
    <2>1. PICK n : n = names[d]
      OBVIOUS
    <2>2. /\ place \in [Dev -> Places] /\ n # <<>> /\ n = names[e]
          /\ RightName(d, n) /\ RightName(e, n)
      BY <2>1 DEF NamesInv, NamesTypeOK
    <2>3. n # Virtual
      BY <2>2, RightNameIs
    <2>4. \A x \in Dir : \A o \in Owners(x) : RightName(x, n) =>
            o \in Dev /\ busSuffix(place[o]) # <<>> /\ n = <<"driver">> \o busSuffix(place[o])
      BY <2>2, <2>3, Zenon DEF RightName
    <2>5. /\ p \in Dev /\ busSuffix(place[p]) # <<>> /\ n = <<"driver">> \o busSuffix(place[p])
          /\ q \in Dev /\ busSuffix(place[q]) # <<>> /\ n = <<"driver">> \o busSuffix(place[q])
      BY <2>2, <2>4, Zenon
    <2>6. place[p] \in Places /\ place[q] \in Places
      BY <2>2, <2>5
    <2>7. busSuffix(place[p]) = busSuffix(place[q])
      BY <2>5, <2>6, NameTellsSuffix, Zenon
    <2> QED
      BY <2>5, <2>6, <2>7, SuffixTells, Zenon
  <1> QED
    BY <1>1, NamesInvariance, PTL

-----------------------------------------------------------------------------
(* How much is left of the entry whose name is being composed. *)
Left == CASE step = "name" -> MaxDeviceLinks + 2
          [] step = "link" -> MaxDeviceLinks + 1
          [] step = "walk" -> MaxDeviceLinks - hop
          [] step = "done" -> 0

(* Fewer entries are left, or less of this one. *)
Descends == /\ Left \in Nat
            /\ \/ later' \subseteq later /\ later' # later
               \/ later' = later /\ entry' = entry /\ Left' < Left

(* Every step brings chipName and Discover closer to their end, whatever   *)
(* the links point at: what makes maxDeviceLinks a bound.                  *)
WalkDescends == [][Descends]_namesVars

LEMMA ComposedDescends ==
  ASSUME NamesTypeOK, NEW n, Composed(n), step # "done"
  PROVE  Descends
  <1>1. Left \in Nat /\ Left > 0
    BY ChipNamesAssumption DEF NamesTypeOK, Left
  <1>2. CASE later = {}
    <2>1. UNCHANGED <<entry, later>> /\ step' = "done"
      BY <1>2 DEF Composed
    <2>2. Left' = 0
      BY <2>1 DEF Left
    <2> QED
      BY <1>1, <2>1, <2>2 DEF Descends
  <1>3. CASE later # {}
    <2>1. entry' = (CHOOSE d \in later : TRUE) /\ later' = later \ {entry'}
      BY <1>3 DEF Composed
    <2>2. entry' \in later
      BY <1>3, <2>1
    <2> QED
      BY <1>1, <2>1, <2>2 DEF Descends
  <1> QED
    BY <1>2, <1>3

(* Every step of chipName and Discover descends in a well-founded order,   *)
(* so that no tree of links, malformed or not, keeps the walk going.       *)
THEOREM WalkIsBounded == NamesSpec => WalkDescends
  <1>1. ASSUME NamesInv, NamesNext PROVE [Descends]_namesVars
    <2>1. NamesTypeOK /\ MaxDeviceLinks \in Nat \ {0} /\ hop \in 0..(MaxDeviceLinks - 1)
      BY <1>1, ChipNamesAssumption DEF NamesInv, NamesTypeOK
    <2>2. CASE ReadNameFails
      BY <2>1, <2>2, ComposedDescends DEF ReadNameFails
    <2>3. CASE ReadName
      <3>1. UNCHANGED <<entry, later>> /\ Left = MaxDeviceLinks + 2 /\ Left' = MaxDeviceLinks + 1
        BY <2>3 DEF ReadName, Left
      <3> QED
        BY <2>1, <3>1 DEF Descends
    <2>4. CASE EvalDevice
      <3>1. CASE link[entry] = NoDevice
        BY <2>1, <2>4, <3>1, ComposedDescends DEF EvalDevice
      <3>2. CASE link[entry] # NoDevice
        <4>1. /\ UNCHANGED <<entry, later>> /\ Left = MaxDeviceLinks + 1
              /\ Left' = MaxDeviceLinks - 0
          BY <2>4, <3>2 DEF EvalDevice, Left
        <4> QED
          BY <2>1, <4>1 DEF Descends
      <3> QED
        BY <3>1, <3>2
    <2>5. CASE Walk
      <3>1. CASE \E n : Composed(n)
        BY <2>1, <2>5, <3>1, ComposedDescends DEF Walk
      <3>2. CASE ~ \E n : Composed(n)
        <4>1. UNCHANGED <<entry, later, step>> /\ hop' = hop + 1 /\ step = "walk"
          BY <2>5, <3>2 DEF Walk
        <4>2. Left = MaxDeviceLinks - hop /\ Left' = MaxDeviceLinks - (hop + 1)
          BY <4>1 DEF Left
        <4> QED
          BY <2>1, <4>1, <4>2 DEF Descends
      <3> QED
        BY <3>1, <3>2
    <2>6. CASE Done
      BY <2>6 DEF Done
    <2> QED
      BY <1>1, <2>2, <2>3, <2>4, <2>5, <2>6 DEF NamesNext
  <1>2. NamesInv /\ [NamesNext]_namesVars => [Descends]_namesVars
    BY <1>1
  <1> QED
    BY <1>2, NamesInvariance, PTL DEF NamesSpec, WalkDescends
=============================================================================
