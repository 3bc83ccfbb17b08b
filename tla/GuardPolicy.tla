---------------------------- MODULE GuardPolicy ----------------------------
(***************************************************************************)
(* What the guard promises, one decision per pass: the specification table *)
(* Check and Run of internal/guard/guard.go implement.  A pass finds       *)
(* checking disabled, or a good reading, or a hot one, or none; the guard  *)
(* gives up at the first hot reading and at the first failed reading that  *)
(* the retry budget does not cover, and otherwise goes on until asked to   *)
(* stop.                                                                   *)
(***************************************************************************)
EXTENDS Naturals

CONSTANT ReadRetries   \* a natural number: Guard and Service assume so

VARIABLES
  phase,     \* "running", "tripped" or "stopped"
  verdict,   \* the verdict on the last pass
  outcome,   \* what the last pass found
  streak     \* failed readings in a row

policy == <<phase, verdict, outcome, streak>>

Outcomes == {"disabled", "good", "hot", "failed"}

VerdictOn(o, n) ==
  CASE o = "disabled" -> "disabled"
    [] o = "good"     -> "ok"
    [] o = "hot"      -> "trip"
    [] o = "failed"   -> IF n <= ReadRetries THEN "tolerated" ELSE "trip"

Init == phase = "running" /\ verdict = "ok" /\ outcome = "none" /\ streak = 0

Pass(o) ==
  /\ phase = "running"
  /\ outcome' = o
  /\ streak' = IF o = "failed" THEN streak + 1 ELSE 0
  /\ verdict' = VerdictOn(o, streak')
  /\ phase' = IF verdict' = "trip" THEN "tripped" ELSE "running"

Stop ==
  /\ phase = "running"
  /\ phase' = "stopped"
  /\ UNCHANGED <<verdict, outcome, streak>>

Next == (\E o \in Outcomes : Pass(o)) \/ Stop

Spec == Init /\ [][Next]_policy
=============================================================================
