----------------------------- MODULE BoardTable -----------------------------
(***************************************************************************)
(* The node's entry in the board table: Load, Parse, parseThreshold and    *)
(* Lookup of internal/config/config.go, with the board name of             *)
(* internal/dmi/dmi.go, in the order in which arm calls them.              *)
(*                                                                         *)
(* A line is what strings.TrimSpace leaves of it, reduced to what Parse    *)
(* tells apart.  A value is a Content of Temperature: "absent" is the      *)
(* empty string, "text" one that is not a number.  The parser's strictness *)
(* is compared with a description of the file as a whole (Sound, Complete, *)
(* Says), which knows nothing of the parser's state.                       *)
(***************************************************************************)
EXTENDS Temperature, Sequences

CONSTANTS
  Name,      \* board names; the empty one is not among them
  Values,    \* values of a key = value pair
  MaxLines   \* bound on the length of a file

ASSUME BoardTableAssumption ==
  /\ Name \cap {"", "unreadable"} = {}
  /\ Values \subseteq {c \in Content : c.kind # "unreadable"}
  /\ {c \in Values : c.kind = "absent"} = {Absent}
  /\ \A c \in Values : c.kind = "inf" => c.v # 0     \* an infinity has a sign
  /\ MaxLines \in Nat

VARIABLES
  file,      \* the lines scanned so far
  board,     \* the content of board_name: "unreadable", "" or a name
  pc,        \* where arm is, or how it ended (see PCs)
  defined,   \* the keys of cfg.Boards
  boards,    \* cfg.Boards; the zero Board for a name it does not have
  seen,      \* Parse's seen
  current,   \* Parse's current
  entry      \* what Lookup returned

parser == <<defined, boards, seen, current>>
vars   == <<file, board, pc, parser, entry>>

Keys  == {"chip", "sensor", "max_celsius"}
Pairs == [kind : {"pair"}, key : Keys \cup {"unknown"}, value : Values]
Lines == [kind : {"blank", "unterminated", "neither"}]
           \cup [kind : {"header"}, name : Name \cup {""}] \cup Pairs

Board == [chip : Values, sensor : Values, max : Int, line : Nat]
Zero  == [chip |-> Absent, sensor |-> Absent, max |-> 0, line |-> 0]

(* "refused" is a line Parse rejects, "incomplete" a table it rejects, and *)
(* "error" any other way for arm to fail.                                  *)
Failures == {"refused", "incomplete", "error"}
PCs == {"open", "scan", "eof", "parsed", "known", "armed"} \cup Failures

minThreshold == 200000     \* 20 degrees Celsius, in tenths of a millidegree
maxThreshold == 1500000    \* 150 degrees

Init ==
  /\ file = <<>> /\ board \in Name \cup {"unreadable", ""}
  /\ pc = "open"
  /\ defined = {} /\ boards = [n \in Name |-> Zero] /\ seen = [n \in Name |-> {}]
  /\ current = "" /\ entry = Zero

-----------------------------------------------------------------------------
(* parseThreshold returns no error. *)
IsThreshold(v) == /\ Parses(v)
                  /\ v.kind # "nan"
                  /\ ~ Below(v, minThreshold) /\ ~ Above(v, maxThreshold)

Open ==
  /\ pc = "open"
  /\ pc' \in {"scan", "error"}
  /\ UNCHANGED <<file, board, parser, entry>>

NewSection(n) == n # "" /\ n \notin defined
NewKey(k) == current # "" /\ k \in Keys \ seen[current]

Blank(l) == l.kind = "blank" /\ UNCHANGED <<pc, parser>>

(* Mutant: the new section does not become the current one. *)
SectionNotCurrent(l) ==
  /\ l.kind = "header" /\ NewSection(l.name)
  /\ defined' = defined \cup {l.name} /\ current' = current
  /\ boards' = [boards EXCEPT ![l.name] = [Zero EXCEPT !.line = Len(file')]]
  /\ seen' = [seen EXCEPT ![l.name] = {}]
  /\ pc' = pc

Section(l) ==
  /\ l.kind = "header" /\ NewSection(l.name)
  /\ defined' = defined \cup {l.name} /\ current' = l.name
  /\ boards' = [boards EXCEPT ![l.name] = [Zero EXCEPT !.line = Len(file')]]
  /\ seen' = [seen EXCEPT ![l.name] = {}]
  /\ pc' = pc

(* A value the key accepts; an empty sensor is one. *)
Accepts(k, v) == CASE k = "chip" -> v # Absent
                   [] k = "sensor" -> TRUE
                   [] k = "max_celsius" -> IsThreshold(v)
                   [] OTHER -> FALSE

(* Mutant: a limit that is cut off instead of rounded. *)
SetTruncated(b, k, v) == CASE k = "chip" -> [b EXCEPT !.chip = v]
                           [] k = "sensor" -> [b EXCEPT !.sensor = v]
                           [] k = "max_celsius" -> [b EXCEPT !.max = v.v \div 10]

Set(b, k, v) == CASE k = "chip" -> [b EXCEPT !.chip = v]
                  [] k = "sensor" -> [b EXCEPT !.sensor = v]
                  [] k = "max_celsius" -> [b EXCEPT !.max = MilliCelsius(v)]

Assign(l) ==
  /\ l.kind = "pair" /\ NewKey(l.key) /\ Accepts(l.key, l.value)
  /\ boards' = [boards EXCEPT ![current] = Set(@, l.key, l.value)]
  /\ seen' = [seen EXCEPT ![current] = @ \cup {l.key}]
  /\ UNCHANGED <<pc, defined, current>>

(* Every other line is an error, and Parse returns at once. *)
Refuse(l) ==
  /\ \/ l.kind \in {"unterminated", "neither"}
     \/ l.kind = "header" /\ ~ NewSection(l.name)
     \/ l.kind = "pair" /\ ~ (NewKey(l.key) /\ Accepts(l.key, l.value))
  /\ pc' = "refused" /\ UNCHANGED parser

ScanLine(l) ==
  /\ pc = "scan" /\ Len(file) < MaxLines
  /\ file' = Append(file, l)
  /\ Blank(l) \/ Section(l) \/ Assign(l) \/ Refuse(l)
  /\ UNCHANGED <<board, entry>>

(* The scanner stops, at the end of the file or with an error. *)
ScanEnds ==
  /\ pc = "scan"
  /\ pc' \in {"eof", "error"}
  /\ UNCHANGED <<file, board, parser, entry>>

(* Mutant: only the section that is open at the end is looked at. *)
IsCompleteLast == defined # {} /\ boards[current].chip # Absent /\ "max_celsius" \in seen[current]

(* The loop over BoardNames and the test for an empty table. *)
IsComplete == /\ \A n \in defined : boards[n].chip # Absent /\ "max_celsius" \in seen[n]
              /\ defined # {}

Validate ==
  /\ pc = "eof"
  /\ pc' = IF IsComplete THEN "parsed" ELSE "incomplete"
  /\ UNCHANGED <<file, board, parser, entry>>

(* dmi.BoardName: an unreadable or blank file is an error. *)
BoardName ==
  /\ pc = "parsed"
  /\ pc' = IF board \in {"unreadable", ""} THEN "error" ELSE "known"
  /\ UNCHANGED <<file, board, parser, entry>>

(* Mutant: an unknown board gets the zero entry. *)
LookupDefault ==
  /\ pc = "known"
  /\ pc' = "armed" /\ entry' = boards[board]
  /\ UNCHANGED <<file, board, parser>>

(* Lookup: an unknown board is an error. *)
Lookup ==
  /\ pc = "known"
  /\ IF board \in defined THEN pc' = "armed" /\ entry' = boards[board]
                          ELSE pc' = "error" /\ entry' = entry
  /\ UNCHANGED <<file, board, parser>>

Done == pc \in {"armed"} \cup Failures /\ UNCHANGED vars

Next == \/ Open \/ (\E l \in Lines : ScanLine(l)) \/ ScanEnds \/ Validate
        \/ BoardName \/ Lookup \/ Done

Spec == Init /\ [][Next]_vars

-----------------------------------------------------------------------------
(* The file, described as a whole. *)

Index == DOMAIN file

(* Line i belongs to the section that line h opens. *)
Opens(h, i) == /\ h \in Index /\ h < i /\ file[h].kind = "header"
               /\ \A j \in (h + 1)..(i - 1) : file[j].kind # "header"

(* Line i sets the key k of the section that line h opens. *)
Sets(h, i, k) == i \in Index /\ file[i].kind = "pair" /\ file[i].key = k /\ Opens(h, i)

InRange(v) == v.kind = "number" /\ v.v \in minThreshold..maxThreshold

(* No line is wrong by itself or next to the ones before it. *)
Sound ==
  \A i \in Index :
    \/ file[i].kind = "blank"
    \/ /\ file[i].kind = "header" /\ file[i].name # ""
       /\ \A j \in 1..(i - 1) : file[j].kind = "header" => file[j].name # file[i].name
    \/ /\ file[i].kind = "pair" /\ file[i].key \in Keys
       /\ file[i].key = "chip" => file[i].value.kind # "absent"
       /\ file[i].key = "max_celsius" => InRange(file[i].value)
       /\ \E h \in Index : Opens(h, i) /\ \A j \in Index : Sets(h, j, file[i].key) => j = i

(* There is a section, and each has its chip and its limit. *)
Complete ==
  /\ \E h \in Index : file[h].kind = "header"
  /\ \A h \in Index : file[h].kind = "header" =>
       \A k \in {"chip", "max_celsius"} : \E i \in Index : Sets(h, i, k)

(* What the section opened by line h says, key by key. *)
Says(h, b) ==
  /\ \E i \in Index : Sets(h, i, "chip") /\ b.chip = file[i].value
  /\ \E i \in Index : Sets(h, i, "max_celsius") /\ b.max = Round(file[i].value.v)
  /\ IF \E i \in Index : Sets(h, i, "sensor")
     THEN \E i \in Index : Sets(h, i, "sensor") /\ b.sensor = file[i].value
     ELSE b.sensor = Absent
  /\ b.line = h

-----------------------------------------------------------------------------
(* The types of the variables; the open section is a defined one, and a    *)
(* board that is not defined has neither keys nor values (Parse's maps).   *)
TypeOK ==
  /\ \A i \in Index : file[i] \in Lines
  /\ board \in Name \cup {"unreadable", ""}
  /\ pc \in PCs
  /\ defined \subseteq Name /\ boards \in [Name -> Board] /\ seen \in [Name -> SUBSET Keys]
  /\ current \in defined \cup {""} /\ (current = "" <=> defined = {})
  /\ entry \in Board
  /\ \A n \in Name \ defined : boards[n] = Zero /\ seen[n] = {}

(* The parser is as strict as its comment says and no stricter: it goes on *)
(* exactly while the lines so far are sound, whatever order sections and   *)
(* keys come in, and a sound file that it has read to the end gives a      *)
(* table exactly when every section is complete.                           *)
AcceptsExactly ==
  /\ pc \in {"scan", "eof"} => Sound
  /\ pc = "refused" => ~ Sound
  /\ pc = "incomplete" => Sound /\ ~ Complete
  /\ pc \in {"parsed", "known", "armed"} => Sound /\ Complete

(* The table is the file: every section has one entry, with the values its *)
(* own lines give it, and there is no entry without a section.             *)
TableIsFile ==
  pc \in {"parsed", "known", "armed"} =>
    /\ \A h \in Index : file[h].kind = "header" => Says(h, boards[file[h].name])
    /\ defined = {file[h].name : h \in {h \in Index : file[h].kind = "header"}}

(* A node that arms has a chip and a limit between 20 and 150 degrees, and *)
(* they are the ones a section with this node's board name gives: no       *)
(* default and no other board's (Lookup, BoardName, parseThreshold).       *)
ArmedIsPlausible ==
  pc = "armed" =>
    /\ entry.chip.kind # "absent" /\ 20000 <= entry.max /\ entry.max <= 150000
    /\ entry.line \in Index /\ file[entry.line] = [kind |-> "header", name |-> board]
=============================================================================
