---------------------------- MODULE MCChipNames ----------------------------
(* Constants for the runs of ChipNames: one PCI slot on two buses, a       *)
(* device whose name does not parse, a class device, an ACPI one and a     *)
(* platform one.                                                           *)
EXTENDS ChipNames

P(b, a) == [bus |-> b, at |-> a]

MCPlaces == {P("pci", <<0, 0, 24, 3>>), P("pci", <<0, 1, 24, 3>>), P("i2c", <<>>),
             P("nvme", <<>>), P("acpi", <<>>), P("platform", <<1>>)}
=============================================================================
