------------------------------ MODULE MCGuard ------------------------------
(* Constants for the run of Guard.  Readings sit on both sides of the     *)
(* limit, 60.000 C, and of the half millidegree that rounds up to it.      *)
EXTENDS Guard

MCMax == 60000
MCTemps == {60000, 60001}
MCOutOfRange == -2147483647

File(k, n) == [kind |-> k, v |-> n]

MCContents == {Absent, File("unreadable", 0), File("text", 0), File("nan", 0),
               File("inf", 1), File("number", 600004), File("number", 600005),
               File("number", -2731501)}
=============================================================================
