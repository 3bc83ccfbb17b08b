---------------------------- MODULE MCBoardTable ----------------------------
(* Constants for the run of BoardTable: a limit that is just too low, one  *)
(* that is just too high, one that is rounded up, and what is no number.   *)
EXTENDS BoardTable

MCOutOfRange == -2147483647

Value(k, n) == [kind |-> k, v |-> n]

MCValues == {Absent, Value("text", 0), Value("nan", 0), Value("number", 199999),
             Value("number", 200006), Value("number", 1500001)}
=============================================================================
