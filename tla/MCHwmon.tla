------------------------------ MODULE MCHwmon ------------------------------
(* Constants for the runs of Hwmon: two devices of one driver that share a *)
(* name, as on a bus chipName does not know, a third with a name of its    *)
(* own, and a chip of another driver.  The order of the attributes is that *)
(* of their numbers, not of their names.                                   *)
EXTENDS Hwmon

MCNum == [a \in {"temp1", "temp2", "temp10"} |->
            CASE a = "temp1" -> 1 [] a = "temp2" -> 2 [] a = "temp10" -> 10]

MCDevice == {"s0", "s1", "s2", "nct"}

MCChip == [d \in MCDevice |-> CASE d \in {"s0", "s1"} -> <<"k10temp", "virtual", "0">>
                                [] d = "s2" -> <<"k10temp", "pci", "00cb">>
                                [] d = "nct" -> <<"nct6775", "isa", "0290">>]

(* The third exports its label on the second attribute only. *)
MCLabel ==
  [d \in MCDevice |->
     CASE d = "nct" -> [a \in {"temp1"} |-> "systin"]
       [] d = "s2" -> [a \in {"temp2", "temp10"} |-> IF a = "temp2" THEN "" ELSE "tctl"]
       [] OTHER -> [a \in {"temp1"} |-> "tctl"]]

MCChipRefs == {<<"k10temp">>, <<"k10temp", "pci", "00cb">>}
MCSensorRefs == {"", "tctl"}
=============================================================================
