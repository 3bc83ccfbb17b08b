---------------------------- MODULE Temperature ----------------------------
(***************************************************************************)
(* What the guard makes of the bytes of the override file: fileSource.Read *)
(* of internal/guard/guard.go.                                             *)
(*                                                                         *)
(* A file is abstracted to the one of six cases its bytes fall into.  A    *)
(* number is kept in tenths of a millidegree, one digit finer than the     *)
(* millidegrees it is rounded to, so that the rounding is visible.         *)
(***************************************************************************)
EXTENDS Integers

CONSTANT OutOfRange   \* the integer an out-of-range float converts to on the build's platform

ASSUME OutOfRangeAssumption == OutOfRange \in Int

Kinds == {"absent", "unreadable", "text", "nan", "inf", "number"}

(* A file's content; v is the number, or the sign of an infinity. *)
Content == [kind : Kinds, v : Int]

Absent == [kind |-> "absent", v |-> 0]

minReading == -2731500     \* -273.15 degrees Celsius
maxReading == 100000000    \* 10000 degrees Celsius

(* os.ReadFile and strconv.ParseFloat both succeed. *)
Parses(c) == c.kind \in {"nan", "inf", "number"}

(* The float comparisons v < min and v > max: false of a NaN. *)
Below(c, min) == \/ c.kind = "number" /\ c.v < min
                 \/ c.kind = "inf" /\ c.v < 0
Above(c, max) == \/ c.kind = "number" /\ c.v > max
                 \/ c.kind = "inf" /\ c.v > 0

(* Mutant: the tests for a NaN and an infinity forgotten. *)
IsTemperatureNoNaN(c) == /\ Parses(c)
                         /\ ~ Below(c, minReading)
                         /\ ~ Above(c, maxReading)

IsTemperature(c) == /\ Parses(c)
                    /\ c.kind \notin {"nan", "inf"}
                    /\ ~ Below(c, minReading)
                    /\ ~ Above(c, maxReading)

(* math.Round to whole millidegrees: half away from zero. *)
Round(t) == IF t >= 0 THEN (t + 5) \div 10 ELSE -((5 - t) \div 10)

(* Conversion of the rounded float to an integer.  A NaN and an infinity   *)
(* have no integer value: the result is the platform's.                    *)
MilliCelsius(c) == IF c.kind = "number" THEN Round(c.v) ELSE OutOfRange
=============================================================================
