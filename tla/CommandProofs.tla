--------------------------- MODULE CommandProofs ---------------------------
(***************************************************************************)
(* Proofs about the one-shot modes, for any set of sensors and any retry   *)
(* budget, with the node changing between any two steps of run.            *)
(***************************************************************************)
EXTENDS Command, TLAPS

(* Only a command line that asks for a check or for the daemon gets to     *)
(* arm, and only one that asks for the list to print it.                   *)
Routed ==
  /\ pc \in {"arm", "stat"} => Asked \in {"check", "daemon"}
  /\ pc \in {"list", "print"} => Asked = "list"

(* A verdict is given by g.Check, once, to a guard that is armed, and      *)
(* decides the exit code.                                                  *)
Judgement ==
  /\ pc \notin {"report", "exited"} => verdict = "none"
  /\ pc = "report" => verdict # "none"
  /\ pc = "exited" =>
       IF verdict = "none" THEN exit \in {0, 2}
       ELSE ~ armErr /\ exit = IF verdict \in {"trip", "tolerated"} THEN 1 ELSE 0

(* A check of a node without either file was not cut short by one. *)
Plain ==
  plain => /\ ~ disable /\ override = "absent" /\ verdict # "disabled"
           /\ OneShotCheck /\ verdict = "none" => exit = 2

Inv == TypeOK /\ Routed /\ Judgement /\ Plain

-----------------------------------------------------------------------------
(* What run is asked for is one of seven things, and stays what it is. *)
LEMMA AskedType ==
  ASSUME args \in Args
  PROVE  Asked \in {"help", "error", "argument", "version", "list", "check", "daemon"}
  <1>1. args.parse \in {"ok", "help", "error", "argument"}
    BY DEF Args
  <1> QED
    BY <1>1, Zenon DEF Asked

LEMMA AskedKept ==
  ASSUME args' = args
  PROVE  Asked' = Asked
  BY Zenon DEF Asked, newLogger

LEMMA JudgedType ==
  ASSUME NEW r \in Outcomes
  PROVE  Judged(r) \in {"ok", "tolerated", "trip"}
  BY Zenon DEF Judged, Outcomes

LEMMA HottestType == Hottest \in Outcomes
  BY DEF Hottest, Outcomes

LEMMA InitInv == Init => Inv
  <1> SUFFICES ASSUME Init PROVE Inv
    OBVIOUS
  <1>1. armErr \in BOOLEAN /\ plain \in BOOLEAN
    BY Zenon DEF Init
  <1>2. TypeOK
    <2>1. faults \subseteq Stages
      BY DEF Init
    <2> QED
      BY <1>1, <2>1 DEF Init, TypeOK
  <1>3. Routed /\ Judgement /\ Plain
    BY DEF Init, Routed, Judgement, Plain, OneShotCheck
  <1> QED
    BY <1>2, <1>3 DEF Inv

(* Flags, --help, --version and --list. *)
LEMMA FlagsInv ==
  ASSUME Inv, Parse \/ List \/ \E s \in Sensor : PrintSensor(s)
  PROVE  Inv'
  <1> USE DEF node, Exit, Goto
  <1>1. /\ UNCHANGED <<args, disable, override, faults, reads, armErr, verdict, plain>>
        /\ verdict = "none" /\ Asked' = Asked /\ printed' \subseteq Sensor
    BY AskedKept DEF Parse, List, PrintSensor, Inv, Judgement, TypeOK
  <1>2. \/ pc' = "exited" /\ exit' = 0 /\ Asked \notin {"check", "daemon"}
        \/ pc' = "exited" /\ exit' = 2
        \/ pc' = "arm" /\ exit' = exit /\ Asked \in {"check", "daemon"}
        \/ pc' \in {"list", "print"} /\ exit' = exit /\ Asked = "list"
    <2>1. CASE Parse
      <3>1. \/ Asked \in {"help", "version"} /\ Exit(0)
            \/ Asked \in {"error", "argument"} /\ Exit(2)
            \/ /\ Asked \notin {"help", "version", "error", "argument"}
               /\ Goto(IF Asked = "list" THEN "list" ELSE "arm")
        BY <2>1, Zenon DEF Parse
      <3> QED
        BY <3>1, AskedType DEF Inv, TypeOK
    <2>2. CASE List
      <3>1. Exit(2) \/ Exit(0) \/ Goto("print")
        BY <2>2, Zenon DEF List
      <3> QED
        BY <2>2, <3>1 DEF List, Inv, Routed
    <2>3. CASE \E s \in Sensor : PrintSensor(s)
      BY <2>3 DEF PrintSensor, Inv, Routed
    <2> QED
      BY <2>1, <2>2, <2>3
  <1>3. TypeOK'
    BY <1>1, <1>2 DEF Inv, TypeOK
  <1>4. Routed' /\ Judgement'
    BY <1>1, <1>2 DEF Inv, Routed, Judgement
  <1>5. Plain'
    BY <1>1, <1>2 DEF Inv, Plain, OneShotCheck
  <1> QED
    BY <1>3, <1>4, <1>5 DEF Inv

(* Arming, and the disable file that forgives a failure to arm. *)
LEMMA ArmInv ==
  ASSUME Inv, Arm \/ StatDisable
  PROVE  Inv'
  <1> USE DEF node, Exit, Goto
  <1>1. /\ UNCHANGED <<args, disable, override, faults, reads, printed, verdict, plain>>
        /\ verdict = "none" /\ Asked' = Asked /\ Asked \in {"check", "daemon"}
    BY AskedKept DEF Arm, StatDisable, Inv, Judgement, Routed
  <1>2. armErr' \in BOOLEAN
    BY Zenon DEF Arm, StatDisable, Inv, TypeOK
  <1>3. \/ pc' = Asked /\ exit' = exit /\ ~ armErr'
        \/ pc' = "stat" /\ exit' = exit
        \/ pc' = "daemon" /\ exit' = exit
        \/ pc' = "exited" /\ exit' = 2
        \/ pc' = "exited" /\ exit' = 0 /\ disable
    BY DEF Arm, StatDisable
  <1>4. TypeOK'
    BY <1>1, <1>2, <1>3 DEF Inv, TypeOK
  <1>5. Routed' /\ Judgement'
    BY <1>1, <1>3 DEF Inv, Routed, Judgement
  <1>6. Plain'
    BY <1>1, <1>3 DEF Inv, Plain, OneShotCheck
  <1> QED
    BY <1>4, <1>5, <1>6 DEF Inv

(* g.Check, and the exit code made of its verdict. *)
LEMMA CheckInv ==
  ASSUME Inv, CheckDisable \/ CheckOverride \/ CheckRead \/ Report
  PROVE  Inv'
  <1> USE DEF node, Exit, Goto
  <1>1. /\ UNCHANGED <<args, disable, override, faults, reads, printed, armErr, plain>>
        /\ Asked' = Asked /\ Asked = "check" /\ ~ armErr
    BY AskedKept DEF CheckDisable, CheckOverride, CheckRead, Report, Inv, TypeOK
  <1>2. \/ /\ pc \in {"check", "override", "file", "sensors"}
           /\ pc' \in {"override", "file", "sensors"} /\ verdict' = verdict /\ exit' = exit
        \/ pc' = "report" /\ exit' = exit /\ verdict' \in {"ok", "tolerated", "trip"}
        \/ pc' = "report" /\ exit' = exit /\ verdict' = "disabled" /\ disable
        \/ /\ pc = "report" /\ pc' = "exited" /\ verdict' = verdict
           /\ exit' = IF verdict \in {"trip", "tolerated"} THEN 1 ELSE 0
    <2>1. CASE CheckDisable
      BY <2>1 DEF CheckDisable
    <2>2. CASE CheckOverride
      BY <2>2 DEF CheckOverride
    <2>3. CASE CheckRead
      <3> DEFINE r == IF pc = "sensors" THEN Hottest
                      ELSE IF override = "absent" THEN "failed" ELSE override
      <3>1. r \in Outcomes
        BY HottestType DEF Inv, TypeOK, Outcomes
      <3>2. verdict' = Judged(r) /\ pc' = "report" /\ exit' = exit
        BY <2>3 DEF CheckRead
      <3> QED
        BY <3>1, <3>2, JudgedType
    <2>4. CASE Report
      BY <2>4 DEF Report
    <2> QED
      BY <2>1, <2>2, <2>3, <2>4
  <1>3. TypeOK'
    BY <1>1, <1>2 DEF Inv, TypeOK
  <1>4. Routed' /\ Judgement'
    BY <1>1, <1>2 DEF Inv, Routed, Judgement
  <1>5. Plain'
    BY <1>1, <1>2 DEF Inv, Plain, OneShotCheck, Judgement
  <1> QED
    BY <1>3, <1>4, <1>5 DEF Inv

(* The node changes under run. *)
LEMMA WorldInv ==
  ASSUME Inv, World
  PROVE  Inv'
  <1>1. /\ UNCHANGED <<args, pc, armErr, printed, verdict, exit>> /\ Asked' = Asked
        /\ pc \notin {"exited", "daemon"}
    BY AskedKept DEF World
  <1>2. /\ disable' \in BOOLEAN /\ override' \in Outcomes \cup {"absent"}
        /\ faults' \subseteq Stages /\ reads' \in [Sensor -> Outcomes]
    BY DEF World, Inv, TypeOK
  <1>3. plain' \in BOOLEAN /\ (plain' => plain /\ ~ disable' /\ override' = "absent")
    BY Zenon DEF World
  <1>4. TypeOK'
    BY <1>1, <1>2, <1>3 DEF Inv, TypeOK
  <1>5. Routed' /\ Judgement' /\ Plain'
    BY <1>1, <1>3 DEF Inv, Routed, Judgement, Plain, OneShotCheck
  <1> QED
    BY <1>4, <1>5 DEF Inv

(* Every step preserves the invariant. *)
LEMMA NextInv == Inv /\ [Next]_vars => Inv'
  <1> SUFFICES ASSUME Inv, [Next]_vars PROVE Inv'
    OBVIOUS
  <1>1. CASE UNCHANGED vars
    <2>1. Asked' = Asked
      BY <1>1, AskedKept DEF vars
    <2> QED
      BY <1>1, <2>1 DEF vars, node, Inv, TypeOK, Routed, Judgement, Plain, OneShotCheck
  <1> QED
    BY <1>1, FlagsInv, ArmInv, CheckInv, WorldInv DEF Next, Run

LEMMA Invariance == Spec => []Inv
  <1> QED
    BY InitInv, NextInv, PTL DEF Spec

-----------------------------------------------------------------------------
(* The variables of run keep their types, and g.Check is never called      *)
(* without a guard.                                                        *)
THEOREM TypeCorrect == Spec => []TypeOK
  <1>1. Inv => TypeOK
    BY DEF Inv
  <1> QED
    BY <1>1, Invariance, PTL

(* A --check that exits 0 on a node without either file has armed, and its *)
(* one reading was good.                                                   *)
THEOREM CheckTellsTheTruth == Spec => []CheckIsHonest
  <1>1. Inv => CheckIsHonest
    BY DEF Inv, TypeOK, Judgement, Plain, OneShotCheck, CheckIsHonest
  <1> QED
    BY <1>1, Invariance, PTL

(* A one-shot run exits 1 only after a reading and 2 only without one. *)
THEOREM OneShotCodesSplit == Spec => []OneShotCodes
  <1>1. Inv => OneShotCodes
    BY DEF Inv, Judgement, OneShotCodes
  <1> QED
    BY <1>1, Invariance, PTL
=============================================================================
