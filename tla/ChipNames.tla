----------------------------- MODULE ChipNames -----------------------------
(***************************************************************************)
(* The names of the chips: chipName, busSuffix, splitPair and pciAddress   *)
(* of internal/hwmon/hwmon.go, over every shape the tree of "device" links *)
(* in sysfs can take, cycles included.  The tree does not change while a   *)
(* name is composed; what happens when it does is in Hwmon.                *)
(*                                                                         *)
(* A device sits at a place: the bus its subsystem link names and what its *)
(* sysfs name parses to, <<>> when it does not parse.  A name is the       *)
(* sequence of its parts, <<driver, bus, number, ...>>, where the program  *)
(* writes them with dashes between.                                        *)
(***************************************************************************)
EXTENDS Naturals, Sequences

CONSTANTS
  Dir,              \* entries of /sys/class/hwmon
  Dev,              \* devices in sysfs
  Places,           \* where a device may sit
  MaxDeviceLinks,   \* maxDeviceLinks
  NoDevice          \* no device

ASSUME ChipNamesAssumption ==
  /\ MaxDeviceLinks \in Nat \ {0}
  /\ Dir # {}
  /\ NoDevice \notin Dev
  /\ Places \subseteq [bus : STRING, at : Seq(Nat)]
  /\ \A p \in Places : p.at # <<>> =>
       /\ p.bus = "pci" => p.at \in Nat \X Nat \X (0..31) \X (0..7)
       /\ p.bus \in {"i2c", "spi"} => p.at \in Nat \X Nat
       /\ p.bus \in {"platform", "of_node"} => Len(p.at) = 1

VARIABLES
  place,    \* the place of each device
  link,     \* the "device" link of each device, and of each class entry
  entry,    \* dir: the class entry whose name is being composed
  later,    \* the entries that come after it
  step,     \* "name", "link", "walk" or "done"
  at,       \* devPath
  hop,      \* i, the loop's counter
  names     \* the names composed so far; <<>> is an error, or none yet

sysfs     == <<place, link>>
namesVars == <<sysfs, entry, later, step, at, hop, names>>

Virtual == <<"driver", "virtual", 0>>

(* No two devices of a bus have the same address. *)
NamesInit ==
  /\ place \in [Dev -> Places]
  /\ \A d, e \in Dev : d # e /\ place[d] = place[e] => place[d].at = <<>>
  /\ link \in [Dev \cup Dir -> Dev \cup {NoDevice}]
  /\ entry = CHOOSE d \in Dir : TRUE
  /\ later = Dir \ {entry} /\ step = "name" /\ at = NoDevice /\ hop = 0
  /\ names = [d \in Dir |-> <<>>]

-----------------------------------------------------------------------------
(* Mutant: the address without the bus. *)
pciAddressNoBus(a) == 8 * a[3] + a[4]

(* bus << 8 | slot << 3 | func; the bits do not overlap, and the domain is *)
(* not part of it.                                                         *)
pciAddress(a) == 256 * a[2] + 8 * a[3] + a[4]

(* busSuffix; <<>> when the place cannot be addressed. *)
busSuffix(p) ==
  CASE p.bus \in {"i2c", "spi"} /\ p.at # <<>> -> <<p.bus, p.at[1], p.at[2]>>
    [] p.bus = "pci" /\ p.at # <<>> -> <<"pci", pciAddress(p.at)>>
    [] p.bus = "acpi" -> <<"acpi", 0>>
    [] p.bus \in {"platform", "of_node"} -> <<"isa", IF p.at = <<>> THEN 0 ELSE p.at[1]>>
    [] OTHER -> <<>>

(* The name of entry is composed; Discover goes on with the next entry. *)
Composed(n) ==
  /\ names' = [names EXCEPT ![entry] = n]
  /\ IF later = {}
     THEN step' = "done" /\ UNCHANGED <<entry, later>>
     ELSE /\ step' = "name" /\ entry' = (CHOOSE d \in later : TRUE)
          /\ later' = later \ {entry'}

(* The driver's name attribute cannot be read, or is blank. *)
ReadNameFails ==
  /\ step = "name"
  /\ Composed(<<>>)
  /\ UNCHANGED <<sysfs, at, hop>>

ReadName ==
  /\ step = "name"
  /\ step' = "link"
  /\ UNCHANGED <<sysfs, entry, later, at, hop, names>>

(* EvalSymlinks of the entry's "device" link. *)
EvalDevice ==
  /\ step = "link"
  /\ hop' = 0 /\ at' = link[entry]
  /\ IF link[entry] = NoDevice
     THEN Composed(Virtual)
     ELSE step' = "walk" /\ UNCHANGED <<entry, later, names>>
  /\ UNCHANGED sysfs

(* Mutant: the walk stops at the first link. *)
WalkOnce ==
  /\ step = "walk"
  /\ Composed(IF busSuffix(place[at]) # <<>> THEN <<"driver">> \o busSuffix(place[at]) ELSE Virtual)
  /\ UNCHANGED <<sysfs, at, hop>>

(* Mutant: the walk is not bounded. *)
WalkUnbounded ==
  /\ step = "walk"
  /\ \/ /\ busSuffix(place[at]) # <<>>
        /\ Composed(<<"driver">> \o busSuffix(place[at]))
        /\ UNCHANGED <<at, hop>>
     \/ /\ busSuffix(place[at]) = <<>>
        /\ IF link[at] \in {NoDevice, at}
           THEN Composed(Virtual) /\ UNCHANGED <<at, hop>>
           ELSE at' = link[at] /\ hop' = hop /\ UNCHANGED <<entry, later, step, names>>
  /\ UNCHANGED sysfs

(* Mutant: the bound off by one. *)
WalkOneMore ==
  /\ step = "walk"
  /\ \/ /\ busSuffix(place[at]) # <<>>
        /\ Composed(<<"driver">> \o busSuffix(place[at]))
        /\ UNCHANGED <<at, hop>>
     \/ /\ busSuffix(place[at]) = <<>>
        /\ IF link[at] \in {NoDevice, at} \/ hop = MaxDeviceLinks
           THEN Composed(Virtual) /\ UNCHANGED <<at, hop>>
           ELSE at' = link[at] /\ hop' = hop + 1 /\ UNCHANGED <<entry, later, step, names>>
  /\ UNCHANGED sysfs

(* One round of the loop that follows the links up to a bus. *)
Walk ==
  /\ step = "walk"
  /\ \/ /\ busSuffix(place[at]) # <<>>
        /\ Composed(<<"driver">> \o busSuffix(place[at]))
        /\ UNCHANGED <<at, hop>>
     \/ /\ busSuffix(place[at]) = <<>>
        /\ IF link[at] \in {NoDevice, at} \/ hop + 1 = MaxDeviceLinks
           THEN Composed(Virtual) /\ UNCHANGED <<at, hop>>
           ELSE at' = link[at] /\ hop' = hop + 1 /\ UNCHANGED <<entry, later, step, names>>
  /\ UNCHANGED sysfs

Done == step = "done" /\ UNCHANGED namesVars

NamesNext == ReadNameFails \/ ReadName \/ EvalDevice \/ Walk \/ Done

NamesSpec ==
  /\ NamesInit /\ [][NamesNext]_namesVars
  /\ WF_namesVars(ReadNameFails \/ ReadName \/ EvalDevice \/ Walk)

-----------------------------------------------------------------------------
(* The devices above an entry, nearest first: a chain of links. *)
Chain(d, c) == /\ c # <<>> /\ c[1] = link[d]
               /\ \A k \in 2..Len(c) : c[k] = link[c[k - 1]]

Chains(n) == UNION {[1..m -> Dev] : m \in 1..n}

Addressed(d) == place[d].bus = "acpi" \/ place[d].bus \in {"platform", "of_node"}
                \/ (place[d].bus \in {"pci", "i2c", "spi"} /\ place[d].at # <<>>)

(* The nearest device on a bus above entry d: what owns its sensors. *)
Owners(d) ==
  {c[Len(c)] : c \in {c \in Chains(MaxDeviceLinks) :
                        /\ Chain(d, c) /\ Addressed(c[Len(c)])
                        /\ \A k \in 1..(Len(c) - 1) : ~ Addressed(c[k])}}

(* Two places that are told apart by their names: not two PCI domains, not *)
(* ACPI devices and not platform devices one of which has no number.       *)
Apart(p, q) ==
  \/ p.bus # q.bus /\ {p.bus, q.bus} # {"platform", "of_node"}
  \/ p.bus = q.bus /\ p.bus = "pci" /\ Tail(p.at) # Tail(q.at)
  \/ p.bus = q.bus /\ p.bus \in {"i2c", "spi"} /\ p.at # q.at
  \/ p.bus = q.bus /\ p.bus \in {"platform", "of_node"} /\ <<>> \notin {p.at, q.at} /\ p.at # q.at

(* The types of the variables; the walk stays inside its bound. *)
NamesTypeOK ==
  /\ place \in [Dev -> Places] /\ link \in [Dev \cup Dir -> Dev \cup {NoDevice}]
  /\ entry \in Dir /\ later \subseteq Dir \ {entry} /\ step \in {"name", "link", "walk", "done"}
  /\ at \in Dev \cup {NoDevice} /\ hop \in 0..(MaxDeviceLinks - 1)
  /\ \A d \in Dir : names[d] = <<>> \/ Len(names[d]) \in 3..4

(* A chip is called virtual only when no bus owns it within the bound,     *)
(* whatever class devices sit in between and however the links loop.       *)
VirtualOnlyWithoutBus ==
  \A d \in Dir : names[d] # <<>> => (names[d] = Virtual <=> Owners(d) = {})

(* Two chips of one driver have one name only when their owners cannot be  *)
(* told apart: "dropping the bus from the PCI address, or stopping at the  *)
(* first device link, makes distinct devices compose one name".            *)
DistinctChipsDistinctNames ==
  \A d, e \in Dir : names[d] # <<>> /\ names[d] = names[e] =>
    \A p \in Owners(d), q \in Owners(e) : ~ Apart(place[p], place[q])

(* A malformed tree cannot keep the walk going (maxDeviceLinks). *)
WalkEnds == <>(step = "done")
=============================================================================
