-------------------------- MODULE BoardTableProofs --------------------------
(***************************************************************************)
(* Proofs about the board table's parser, for files of any length, any     *)
(* board names and any values: Parse, which keeps a map and the section it *)
(* is in, agrees with the description of the file as a whole.              *)
(***************************************************************************)
EXTENDS BoardTable, TLAPS

(* What the parser holds of the section n is what its lines say, so far. *)
Holds(n, h) ==
  /\ \A k \in Keys : k \in seen[n] <=> \E i \in Index : Sets(h, i, k)
  /\ \A i \in Index :
       /\ Sets(h, i, "chip") => boards[n].chip = file[i].value
       /\ Sets(h, i, "sensor") => boards[n].sensor = file[i].value
       /\ Sets(h, i, "max_celsius") => boards[n].max = Round(file[i].value.v)
  /\ "chip" \notin seen[n] => boards[n].chip = Absent
  /\ "sensor" \notin seen[n] => boards[n].sensor = Absent

(* The parser's state mirrors the file: the defined boards are the         *)
(* headers, each knows its line, and the current one is the last.          *)
HeadersDefined ==
  \A h \in Index : file[h].kind = "header" =>
    file[h].name \in defined /\ boards[file[h].name].line = h

DefinedHeaders ==
  \A n \in defined : /\ boards[n].line \in Index
                     /\ file[boards[n].line].kind = "header"
                     /\ file[boards[n].line].name = n

CurrentIsLast ==
  current # "" => \A i \in Index : i > boards[current].line => file[i].kind # "header"

Mirror ==
  /\ HeadersDefined /\ DefinedHeaders /\ CurrentIsLast
  /\ \A n \in defined, h \in Index : h = boards[n].line => Holds(n, h)

(* Where arm is in the file, and what it has established about it. *)
Progress ==
  /\ pc # "refused" => Sound /\ Mirror
  /\ pc = "refused" => ~ Sound
  /\ pc = "incomplete" => ~ Complete
  /\ pc \in {"parsed", "known", "armed"} => Complete
  /\ pc = "armed" => board \in defined /\ entry = boards[board]

Inv == TypeOK /\ file \in Seq(Lines) /\ Progress

-----------------------------------------------------------------------------
(* Lines, values and the operators on them. *)

LEMMA LineForms ==
  ASSUME NEW l \in Lines
  PROVE  /\ l.kind \in {"blank", "unterminated", "neither", "header", "pair"}
         /\ l.kind = "header" => /\ l.name \in Name \cup {""}
                                 /\ l = [kind |-> "header", name |-> l.name]
         /\ l.kind = "pair" => l.key \in Keys \cup {"unknown"} /\ l.value \in Values
  BY DEF Lines, Pairs

(* parseThreshold accepts the numbers between 20 and 150 degrees, the      *)
(* limits included, and the rounded limit is between them too.             *)
LEMMA Thresholds ==
  ASSUME NEW v \in Values
  PROVE  /\ IsThreshold(v) <=> InRange(v)
         /\ InRange(v) => /\ MilliCelsius(v) = Round(v.v) /\ Round(v.v) \in Int
                          /\ 20000 <= Round(v.v) /\ Round(v.v) <= 150000
         /\ v # Absent <=> v.kind # "absent"
  <1>1. v \in Content /\ v.kind # "unreadable" /\ (v.kind = "inf" => v.v # 0)
    BY BoardTableAssumption
  <1>2. v.kind \in Kinds /\ v.v \in Int
    BY <1>1 DEF Content
  <1>3. /\ minThreshold \in Int /\ 200000 <= minThreshold
        /\ maxThreshold \in Int /\ minThreshold <= maxThreshold /\ maxThreshold <= 1500000
    BY SMT DEF minThreshold, maxThreshold
  <1>4. IsThreshold(v) <=> InRange(v)
    BY <1>1, <1>2, <1>3, SMT DEF Kinds, IsThreshold, InRange, Parses, Below, Above
  <1>5. InRange(v) => MilliCelsius(v) = Round(v.v)
    BY DEF InRange, MilliCelsius
  <1>6. InRange(v) => Round(v.v) \in Int /\ 20000 <= Round(v.v) /\ Round(v.v) <= 150000
    BY <1>2, <1>3, SMT DEF InRange, Round
  <1>7. v # Absent <=> v.kind # "absent"
    BY BoardTableAssumption DEF Absent
  <1> QED
    BY <1>4, <1>5, <1>6, <1>7, SMT

LEMMA AcceptsIs ==
  ASSUME NEW k \in Keys \cup {"unknown"}, NEW v \in Values
  PROVE  Accepts(k, v) <=> /\ k \in Keys
                           /\ k = "chip" => v.kind # "absent"
                           /\ k = "max_celsius" => InRange(v)
  <1>1. /\ Accepts("chip", v) <=> v # Absent
        /\ Accepts("sensor", v)
        /\ Accepts("max_celsius", v) <=> IsThreshold(v)
        /\ ~ Accepts("unknown", v)
    BY Zenon DEF Accepts
  <1> QED
    BY <1>1, Thresholds, SMT DEF Keys

LEMMA LimitIs ==
  ASSUME NEW v \in Values, Accepts("max_celsius", v)
  PROVE  MilliCelsius(v) = Round(v.v) /\ Round(v.v) \in Int
  <1>1. InRange(v)
    BY AcceptsIs DEF Keys
  <1> QED
    BY <1>1, Thresholds, SMT

LEMMA SetIs ==
  ASSUME NEW b \in Board, NEW v \in Values
  PROVE  /\ Set(b, "chip", v) = [b EXCEPT !.chip = v]
         /\ Set(b, "sensor", v) = [b EXCEPT !.sensor = v]
         /\ Set(b, "max_celsius", v) = [b EXCEPT !.max = MilliCelsius(v)]
  BY Zenon DEF Set

-----------------------------------------------------------------------------
AnyKey == Keys \cup {"unknown"}

(* The file grows by the line l, its line N. *)
Grows(N, l) ==
  /\ N \in Nat \ {0} /\ Index = 1..(N - 1) /\ Index' = 1..N
  /\ \A j \in 1..(N - 1) : file'[j] = file[j]
  /\ file'[N] = l

LEMMA Appended ==
  ASSUME file \in Seq(Lines), NEW l \in Lines, file' = Append(file, l)
  PROVE  /\ file' \in Seq(Lines)
         /\ \E N \in Nat \ {0} : N = Len(file') /\ Grows(N, l)
  <1>1. /\ file' \in Seq(Lines) /\ Len(file) \in Nat /\ Len(file') = Len(file) + 1
        /\ Index = 1..Len(file) /\ Index' = 1..(Len(file) + 1)
    BY DEF Index
  <1>2. (\A j \in 1..Len(file) : file'[j] = file[j]) /\ file'[Len(file) + 1] = l
    OBVIOUS
  <1>3. Grows(Len(file) + 1, l)
    BY <1>1, <1>2 DEF Grows
  <1> QED
    BY <1>1, <1>3

(* The lines before it keep their sections. *)
LEMMA OldLines ==
  ASSUME NEW N \in Nat, NEW l \in Lines, Grows(N, l), NEW h \in Nat, NEW i \in 1..(N - 1), NEW k \in AnyKey
  PROVE  /\ Opens(h, i)' <=> Opens(h, i)
         /\ Sets(h, i, k)' <=> Sets(h, i, k)
  <1>1. Opens(h, i)' <=> Opens(h, i)
    <2>1. CASE h \in 1..(N - 1)
      <3>1. \A j \in (h + 1)..(i - 1) : file'[j] = file[j]
        BY <2>1 DEF Grows
      <3> QED
        BY <2>1, <3>1 DEF Opens, Grows
    <2>2. CASE h \notin 1..(N - 1)
      BY <2>2 DEF Opens, Grows
    <2> QED
      BY <2>1, <2>2
  <1> QED
    BY <1>1 DEF Sets, Grows

(* It is in the current section, if there is one. *)
LEMMA NewLine ==
  ASSUME NEW N \in Nat, NEW l \in Lines, Grows(N, l), Mirror, TypeOK, NEW h \in Nat, NEW k \in AnyKey
  PROVE  /\ Opens(h, N)' <=> current # "" /\ h = boards[current].line
         /\ Sets(h, N, k)' <=>
              l.kind = "pair" /\ l.key = k /\ current # "" /\ h = boards[current].line
  <1>1. Opens(h, N)' <=> current # "" /\ h = boards[current].line
    <2>1. CASE current = ""
      <3>1. \A g \in Index : file[g].kind # "header"
        BY <2>1 DEF TypeOK, Mirror, HeadersDefined
      <3>2. \A g \in 1..(N - 1) : file'[g].kind # "header"
        BY <3>1 DEF Grows
      <3>3. ~ Opens(h, N)'
        BY <3>2 DEF Opens, Grows
      <3> QED
        BY <2>1, <3>3
    <2>2. CASE current # ""
      <3>1. current \in defined
        BY <2>2 DEF TypeOK
      <3>2. PICK c \in Index : c = boards[current].line
        BY <3>1 DEF Mirror, DefinedHeaders
      <3>3. file[c].kind = "header" /\ \A i \in Index : i > c => file[i].kind # "header"
        BY <2>2, <3>1, <3>2 DEF Mirror, DefinedHeaders, CurrentIsLast
      <3>4. Opens(c, N)'
        BY <3>3 DEF Opens, Grows
      <3>5. ASSUME Opens(h, N)' PROVE h = c
        <4>1. /\ h \in 1..(N - 1) /\ file[h].kind = "header"
              /\ \A j \in (h + 1)..(N - 1) : file[j].kind # "header"
          BY <3>5 DEF Opens, Grows
        <4> QED
          BY <3>3, <4>1 DEF Grows
      <3> QED
        BY <2>2, <3>2, <3>4, <3>5
    <2> QED
      BY <2>1, <2>2
  <1>2. N \in Index' /\ file'[N] = l
    BY DEF Grows
  <1>3. Sets(h, N, k)' <=> N \in Index' /\ file'[N].kind = "pair" /\ file'[N].key = k /\ Opens(h, N)'
    BY DEF Sets
  <1> QED
    BY <1>1, <1>2, <1>3

-----------------------------------------------------------------------------
(* Soundness, line by line. *)

PairSound(i) ==
  /\ file[i].key \in Keys
  /\ file[i].key = "chip" => file[i].value.kind # "absent"
  /\ file[i].key = "max_celsius" => InRange(file[i].value)
  /\ \E h \in Index : Opens(h, i) /\ \A j \in Index : Sets(h, j, file[i].key) => j = i

LineSound(i) ==
  \/ file[i].kind = "blank"
  \/ /\ file[i].kind = "header" /\ file[i].name # ""
     /\ \A j \in 1..(i - 1) : file[j].kind = "header" => file[j].name # file[i].name
  \/ file[i].kind = "pair" /\ PairSound(i)

LEMMA SoundIs == Sound <=> \A i \in Index : LineSound(i)
  BY DEF Sound, LineSound, PairSound

(* The lines Parse goes on after. *)
Good(l) ==
  \/ l.kind = "blank"
  \/ l.kind = "header" /\ NewSection(l.name)
  \/ l.kind = "pair" /\ NewKey(l.key) /\ Accepts(l.key, l.value)

(* Such a line leaves the lines before it sound. *)
LEMMA StillSound ==
  ASSUME NEW N \in Nat, NEW l \in Lines, Grows(N, l), Mirror, TypeOK, l.kind = "pair" => NewKey(l.key),
         NEW i \in 1..(N - 1), LineSound(i)
  PROVE  LineSound(i)'
  <1>1. file'[i] = file[i] /\ i \in Index /\ i \in Index'
    BY DEF Grows
  <1>2. CASE file[i].kind = "blank"
    BY <1>1, <1>2 DEF LineSound
  <1>3. CASE file[i].kind = "header"
    <2>1. \A j \in 1..(i - 1) : file'[j] = file[j]
      BY DEF Grows
    <2> QED
      BY <1>1, <1>3, <2>1 DEF LineSound
  <1>4. CASE file[i].kind = "pair"
    <2> DEFINE k == file[i].key
    <2>1. PairSound(i)
      BY <1>4 DEF LineSound
    <2>2. PICK h \in Index : Opens(h, i) /\ \A j \in Index : Sets(h, j, k) => j = i
      BY <2>1 DEF PairSound
    <2>2a. h \in Nat
      BY DEF Grows
    <2>3. h \in Index' /\ Opens(h, i)'
      <3>1. Opens(h, i)' <=> Opens(h, i)
        BY <2>2a, OldLines DEF AnyKey
      <3>2. h \in Index'
        BY DEF Grows
      <3> QED
        BY <2>2, <3>1, <3>2
    <2>4. Sets(h, i, k)
      BY <1>1, <1>4, <2>2 DEF Sets
    <2>5. k \in Keys
      BY <2>1 DEF PairSound
    <2>6. PICK key \in AnyKey : key = k
      BY <2>5 DEF AnyKey
    <2> HIDE DEF k
    <2>7. ~ Sets(h, N, key)'
      <3>1. SUFFICES ASSUME Sets(h, N, key)' PROVE FALSE
        OBVIOUS
      <3>2. l.kind = "pair" /\ l.key = key /\ current # "" /\ h = boards[current].line
        BY <2>2a, <3>1, NewLine, Zenon
      <3>3. key \notin seen[current] /\ current \in defined
        BY <3>2 DEF NewKey, TypeOK
      <3>4. key \in seen[current]
        BY <1>1, <2>2, <2>4, <2>5, <2>6, <3>2, <3>3 DEF Mirror, Holds
      <3> QED
        BY <3>3, <3>4
    <2>8. \A j \in Index' : Sets(h, j, key)' => j = i
      <3>1. \A j \in 1..(N - 1) : Sets(h, j, key)' <=> Sets(h, j, key)
        BY <2>2a, OldLines
      <3> QED
        BY <2>2, <2>6, <2>7, <3>1 DEF Grows
    <2>9. PairSound(i)'
      BY <1>1, <2>1, <2>3, <2>6, <2>8 DEF PairSound, k
    <2> QED
      BY <1>1, <1>4, <2>9 DEF LineSound
  <1> QED
    BY <1>2, <1>3, <1>4 DEF LineSound

(* The current section has no key yet that Parse has not seen. *)
LEMMA CurrentSets ==
  ASSUME NEW N \in Nat, NEW l \in Lines, Grows(N, l), Mirror, TypeOK,
         NEW h \in Nat, current # "", h = boards[current].line, NEW k \in Keys
  PROVE  k \in seen[current] <=> \E i \in 1..(N - 1) : Sets(h, i, k)'
  <1>1. current \in defined
    BY DEF TypeOK
  <1>2. Index = 1..(N - 1)
    BY DEF Grows
  <1>2a. k \in AnyKey
    BY DEF AnyKey
  <1>3. Holds(current, h)
    BY <1>1 DEF Mirror, DefinedHeaders
  <1>4. k \in seen[current] <=> \E i \in Index : Sets(h, i, k)
    BY <1>3 DEF Holds
  <1>5. \A i \in 1..(N - 1) : Sets(h, i, k)' <=> Sets(h, i, k)
    BY <1>2a, <1>2, OldLines
  <1> QED
    BY <1>2, <1>4, <1>5

(* The new line is sound exactly when Parse goes on after it. *)
LEMMA NewLineSound ==
  ASSUME NEW N \in Nat, NEW l \in Lines, Grows(N, l), Mirror, TypeOK
  PROVE  LineSound(N)' <=> Good(l)
  <1>1. file'[N] = l /\ N \in Index' /\ N \notin 1..(N - 1) /\ Index' = 1..N /\ Index = 1..(N - 1)
    BY DEF Grows
  <1>2. l.kind \in {"blank", "unterminated", "neither", "header", "pair"}
    BY LineForms
  <1>3. CASE l.kind = "header"
    <2>1. LineSound(N)' <=> /\ l.name # ""
                            /\ \A j \in 1..(N - 1) : file[j].kind = "header" => file[j].name # l.name
      BY <1>1, <1>3 DEF LineSound, Grows
    <2>2. l.name \in defined <=> \E j \in 1..(N - 1) : file[j].kind = "header" /\ file[j].name = l.name
      BY <1>1 DEF Mirror, HeadersDefined, DefinedHeaders
    <2> QED
      BY <1>3, <2>1, <2>2 DEF Good, NewSection
  <1>4. CASE l.kind = "pair"
    <2>1. l.key \in AnyKey /\ l.value \in Values
      BY <1>4, LineForms DEF AnyKey
    <2>2. LineSound(N)' <=> PairSound(N)'
      BY <1>1, <1>4 DEF LineSound
    <2>3. Accepts(l.key, l.value) <=> /\ l.key \in Keys
                                      /\ l.key = "chip" => l.value.kind # "absent"
                                      /\ l.key = "max_celsius" => InRange(l.value)
      BY <2>1, AcceptsIs DEF AnyKey
    <2>4. PICK key \in AnyKey : key = l.key
      BY <2>1
    <2>5. PairSound(N)' <=>
            /\ Accepts(l.key, l.value)
            /\ \E h \in Index' : Opens(h, N)' /\ \A j \in Index' : Sets(h, j, key)' => j = N
      BY <1>1, <2>3, <2>4 DEF PairSound, InRange
    <2>6. CASE current = ""
      <3>1. \A h \in Nat : ~ Opens(h, N)'
        BY <2>4, <2>6, NewLine
      <3> QED
        <4>1. ~ PairSound(N)'
          BY <1>1, <2>5, <3>1
        <4> QED
          BY <1>4, <2>2, <2>6, <4>1 DEF Good, NewKey
    <2>7. CASE current # "" /\ key \in Keys
      <3>1. PICK c \in Index : c = boards[current].line
        BY <2>7 DEF Mirror, DefinedHeaders, TypeOK
      <3>2. c \in Nat /\ c \in Index'
        BY <1>1
      <3>3. \A h \in Nat : Opens(h, N)' <=> h = c
        BY <2>4, <2>7, <3>1, NewLine
      <3>4. key \in seen[current] <=> \E i \in 1..(N - 1) : Sets(c, i, key)'
        BY <2>7, <3>1, <3>2, CurrentSets
      <3>5. (\E h \in Index' : Opens(h, N)' /\ \A j \in Index' : Sets(h, j, key)' => j = N)
              <=> \A j \in Index' : Sets(c, j, key)' => j = N
        BY <1>1, <3>2, <3>3
      <3>6. (\A j \in Index' : Sets(c, j, key)' => j = N) <=> key \notin seen[current]
        BY <1>1, <3>4
      <3> QED
        BY <1>4, <2>2, <2>4, <2>5, <2>7, <3>5, <3>6 DEF Good, NewKey
    <2>8. CASE key \notin Keys
      BY <1>4, <2>2, <2>3, <2>4, <2>5, <2>8 DEF Good, NewKey
    <2> QED
      BY <2>6, <2>7, <2>8
  <1>5. CASE l.kind \notin {"header", "pair"}
    BY <1>1, <1>2, <1>5 DEF LineSound, Good
  <1> QED
    BY <1>3, <1>4, <1>5

(* So a file stays sound exactly as long as Parse goes on. *)
LEMMA SoundStep ==
  ASSUME NEW N \in Nat, NEW l \in Lines, Grows(N, l), Mirror, TypeOK, Sound
  PROVE  Sound' <=> Good(l)
  <1>1. \A i \in 1..(N - 1) : LineSound(i)
    BY SoundIs DEF Grows
  <1>2. Sound' <=> \A i \in 1..N : LineSound(i)'
    <2>1. Sound' <=> \A i \in Index' : LineSound(i)'
      BY DEF Sound, LineSound, PairSound
    <2> QED
      BY <2>1 DEF Grows
  <1>3. LineSound(N)' <=> Good(l)
    BY NewLineSound
  <1>4. N \in 1..N
    BY DEF Grows
  <1>5. CASE Good(l)
    <2>1. l.kind = "pair" => NewKey(l.key)
      BY <1>5 DEF Good
    <2>2. \A i \in 1..(N - 1) : LineSound(i)'
      BY <1>1, <2>1, StillSound
    <2> QED
      BY <1>2, <1>3, <1>5, <2>2
  <1>6. CASE ~ Good(l)
    BY <1>2, <1>3, <1>4, <1>6
  <1> QED
    BY <1>5, <1>6

-----------------------------------------------------------------------------
(* The mirror, line by line. *)

(* A section that gets no line and no value keeps what the parser holds. *)
LEMMA HoldsKept ==
  ASSUME NEW N \in Nat, NEW l \in Lines, Grows(N, l), Mirror, NEW n \in defined, NEW h \in Nat,
         h \in Index, h = boards[n].line, boards'[n] = boards[n], seen'[n] = seen[n],
         \A k \in Keys : ~ Sets(h, N, k)'
  PROVE  Holds(n, h)'
  <1>1. Holds(n, h)
    BY DEF Mirror
  <1>2. Index = 1..(N - 1) /\ Index' = 1..N /\ \A i \in 1..(N - 1) : file'[i] = file[i]
    BY DEF Grows
  <1>3. \A i \in 1..(N - 1), k \in Keys : Sets(h, i, k)' <=> Sets(h, i, k)
    BY OldLines DEF AnyKey
  <1>4. \A k \in Keys : (\E i \in Index' : Sets(h, i, k)') <=> \E i \in Index : Sets(h, i, k)
    BY <1>2, <1>3
  <1>5. \A k \in Keys : k \in seen'[n] <=> \E i \in Index' : Sets(h, i, k)'
    BY <1>1, <1>4 DEF Holds
  <1>6. ASSUME NEW i \in Index'
        PROVE  /\ Sets(h, i, "chip")' => boards'[n].chip = file'[i].value
               /\ Sets(h, i, "sensor")' => boards'[n].sensor = file'[i].value
               /\ Sets(h, i, "max_celsius")' => boards'[n].max = Round(file'[i].value.v)
    <2>1. {"chip", "sensor", "max_celsius"} \subseteq Keys
      BY DEF Keys
    <2>2. CASE i = N
      BY <2>1, <2>2
    <2>3. CASE i \in 1..(N - 1)
      <3>1. i \in Index /\ file'[i] = file[i]
        BY <1>2, <2>3
      <3>2. /\ Sets(h, i, "chip")' <=> Sets(h, i, "chip")
            /\ Sets(h, i, "sensor")' <=> Sets(h, i, "sensor")
            /\ Sets(h, i, "max_celsius")' <=> Sets(h, i, "max_celsius")
        BY <1>3, <2>1, <2>3
      <3>3. /\ Sets(h, i, "chip") => boards[n].chip = file[i].value
            /\ Sets(h, i, "sensor") => boards[n].sensor = file[i].value
            /\ Sets(h, i, "max_celsius") => boards[n].max = Round(file[i].value.v)
        BY <1>1, <3>1 DEF Holds
      <3> QED
        BY <3>1, <3>2, <3>3
    <2> QED
      BY <1>2, <2>2, <2>3
  <1>7. /\ "chip" \notin seen'[n] => boards'[n].chip = Absent
        /\ "sensor" \notin seen'[n] => boards'[n].sensor = Absent
    BY <1>1 DEF Holds
  <1>8. Absent' = Absent
    BY DEF Absent
  <1> QED
    BY <1>5, <1>6, <1>7 DEF Holds

SameSections == current' = current /\ \A n \in Name : boards'[n].line = boards[n].line

(* A line that is no header leaves the current section the last one. *)
LEMMA SameLast ==
  ASSUME NEW N \in Nat, NEW l \in Lines, Grows(N, l), Mirror, TypeOK, l.kind # "header",
         SameSections
  PROVE  CurrentIsLast'
  <1>1. SUFFICES ASSUME current # "" PROVE CurrentIsLast'
    BY DEF CurrentIsLast, SameSections
  <1>2. Index = 1..(N - 1) /\ Index' = 1..N /\ file'[N] = l /\ \A i \in 1..(N - 1) : file'[i] = file[i]
    BY DEF Grows
  <1>2a. Index \subseteq Nat
    BY <1>2
  <1>3. PICK c \in Nat : c = boards[current].line
    BY <1>2a, <1>1 DEF Mirror, DefinedHeaders, TypeOK
  <1>4. \A i \in Index : i > c => file[i].kind # "header"
    BY <1>1, <1>3 DEF Mirror, CurrentIsLast
  <1>5. ASSUME NEW i \in Index', i > c PROVE file'[i].kind # "header"
    <2>1. CASE i = N
      BY <1>2, <2>1
    <2>2. CASE i # N
      <3>1. i \in 1..(N - 1)
        BY <1>2, <2>2
      <3> QED
        BY <1>2, <1>4, <1>5, <3>1
    <2> QED
      BY <2>1, <2>2
  <1> QED
    <2>1. current' = current /\ boards'[current].line = c
      BY <1>1, <1>3 DEF SameSections, TypeOK
    <2> QED
      BY <1>5, <2>1 DEF CurrentIsLast

LEMMA BlankMirror ==
  ASSUME NEW N \in Nat, NEW l \in Lines, Grows(N, l), Mirror, TypeOK, Blank(l)
  PROVE  Mirror'
  <1>1. /\ l.kind = "blank" /\ defined' = defined /\ boards' = boards
        /\ seen' = seen /\ current' = current
    BY DEF Blank, parser
  <1>2. Index = 1..(N - 1) /\ Index' = 1..N /\ file'[N] = l /\ \A i \in 1..(N - 1) : file'[i] = file[i]
    BY DEF Grows
  <1>3. HeadersDefined'
    BY <1>1, <1>2 DEF Mirror, HeadersDefined
  <1>4. DefinedHeaders'
    BY <1>1, <1>2 DEF Mirror, DefinedHeaders
  <1>5. CurrentIsLast'
    BY <1>1, SameLast DEF SameSections
  <1>6. ASSUME NEW n \in defined', NEW h \in Index', h = boards'[n].line PROVE Holds(n, h)'
    <2>1. n \in defined /\ h = boards[n].line /\ h \in Index
      BY <1>1, <1>6 DEF Mirror, DefinedHeaders
    <2>2. h \in Nat
      BY <1>2
    <2>3. \A k \in Keys : ~ Sets(h, N, k)'
      BY <1>1, <1>2 DEF Sets
    <2> QED
      BY <1>1, <2>1, <2>2, <2>3, HoldsKept
  <1> QED
    BY <1>3, <1>4, <1>5, <1>6 DEF Mirror

NewBoard(new, N) ==
  /\ new # "" /\ defined' = defined \cup {new} /\ current' = new
  /\ boards'[new].line = N /\ boards'[new].chip = Absent /\ boards'[new].sensor = Absent
  /\ seen'[new] = {}
  /\ \A n \in Name \ {new} : boards'[n] = boards[n] /\ seen'[n] = seen[n]

LEMMA SectionFacts ==
  ASSUME NEW N \in Nat, N = Len(file'), NEW l \in Lines, TypeOK, Section(l)
  PROVE  \E new \in Name \ defined :
           l.kind = "header" /\ l.name = new /\ NewBoard(new, N)
  <1>1. /\ l.kind = "header" /\ l.name # "" /\ l.name \in Name \ defined
        /\ defined' = defined \cup {l.name} /\ current' = l.name
        /\ boards' = [boards EXCEPT ![l.name] = [Zero EXCEPT !.line = N]]
        /\ seen' = [seen EXCEPT ![l.name] = {}]
    BY LineForms DEF Section, NewSection
  <1>2. PICK new \in Name \ defined : new = l.name
    BY <1>1
  <1>3. /\ boards'[new].line = N /\ boards'[new].chip = Absent /\ boards'[new].sensor = Absent
        /\ seen'[new] = {}
    BY <1>1, <1>2 DEF Zero, TypeOK
  <1>4. \A n \in Name \ {new} : boards'[n] = boards[n] /\ seen'[n] = seen[n]
    BY <1>1, <1>2 DEF TypeOK
  <1> QED
    BY <1>1, <1>2, <1>3, <1>4 DEF NewBoard

LEMMA SectionMirror ==
  ASSUME NEW N \in Nat, NEW l \in Lines, Grows(N, l), Mirror, TypeOK, NEW new \in Name \ defined,
         l.kind = "header", l.name = new, NewBoard(new, N)
  PROVE  Mirror'
  <1>1. Index = 1..(N - 1) /\ Index' = 1..N /\ file'[N] = l /\ \A i \in 1..(N - 1) : file'[i] = file[i]
    BY DEF Grows
  <1>2. \A n \in defined : n # new /\ boards'[n] = boards[n] /\ seen'[n] = seen[n]
    BY DEF TypeOK, NewBoard
  <1>3. defined' = defined \cup {new} /\ current' = new
    BY DEF NewBoard
  <1>4. boards'[new].line = N
    BY DEF NewBoard
  <1>5. HeadersDefined'
    <2>1. ASSUME NEW h \in 1..N, file'[h].kind = "header"
          PROVE  file'[h].name \in defined' /\ boards'[file'[h].name].line = h
      <3>1. CASE h = N
        BY <1>1, <1>3, <1>4, <3>1
      <3>2. CASE h # N
        <4>1. h \in Index /\ file'[h] = file[h]
          BY <1>1, <3>2
        <4>2. file[h].name \in defined /\ boards[file[h].name].line = h
          BY <2>1, <4>1 DEF Mirror, HeadersDefined
        <4> QED
          BY <1>2, <1>3, <4>1, <4>2
      <3> QED
        BY <3>1, <3>2
    <2> QED
      BY <1>1, <2>1 DEF HeadersDefined
  <1>6. DefinedHeaders'
    <2>1. ASSUME NEW n \in defined
          PROVE  /\ boards'[n].line \in Index'
                 /\ file'[boards'[n].line].kind = "header"
                 /\ file'[boards'[n].line].name = n
      <3>1. PICK h \in Index : h = boards[n].line
        BY DEF Mirror, DefinedHeaders
      <3>2. file[h].kind = "header" /\ file[h].name = n
        BY <3>1 DEF Mirror, DefinedHeaders
      <3>3. h \in Index' /\ file'[h] = file[h]
        BY <1>1
      <3>4. boards'[n].line = h
        BY <1>2, <3>1
      <3> QED
        BY <3>2, <3>3, <3>4
    <2>2. N \in Index'
      BY DEF Grows
    <2> QED
      BY <1>1, <1>3, <1>4, <2>1, <2>2 DEF DefinedHeaders
  <1>7. CurrentIsLast'
    <2>1. \A i \in Index' : ~ (i > N)
      BY <1>1
    <2> QED
      BY <1>3, <1>4, <2>1 DEF CurrentIsLast
  <1>8. ASSUME NEW n \in defined', NEW h \in Index', h = boards'[n].line PROVE Holds(n, h)'
    <2>1. CASE n = new
      <3>1. h = N
        BY <1>4, <1>8, <2>1
      <3>2. \A i \in Index', k \in Keys : ~ Sets(h, i, k)'
        BY <1>1, <3>1 DEF Sets, Opens
      <3>3. {"chip", "sensor", "max_celsius"} \subseteq Keys
        BY DEF Keys
      <3> QED
        BY <2>1, <3>2, <3>3 DEF Holds, NewBoard
    <2>2. CASE n # new
      <3>1. n \in defined /\ h = boards[n].line /\ h \in Index
        BY <1>2, <1>3, <1>8, <2>2 DEF Mirror, DefinedHeaders
      <3>2. h \in Nat
        BY <1>1
      <3>3. \A k \in Keys : ~ Sets(h, N, k)'
        BY <1>1 DEF Sets
      <3> QED
        BY <1>2, <3>1, <3>2, <3>3, HoldsKept
    <2> QED
      BY <2>1, <2>2
  <1> QED
    BY <1>5, <1>6, <1>7, <1>8 DEF Mirror

NewValue(key, v) ==
  /\ defined' = defined /\ SameSections
  /\ \A n \in Name \ {current} : boards'[n] = boards[n] /\ seen'[n] = seen[n]
  /\ seen'[current] = seen[current] \cup {key}
  /\ boards'[current].chip = IF key = "chip" THEN v ELSE boards[current].chip
  /\ boards'[current].sensor = IF key = "sensor" THEN v ELSE boards[current].sensor
  /\ boards'[current].max = IF key = "max_celsius" THEN Round(v.v) ELSE boards[current].max

NewPair(l, key) ==
  /\ current \in defined /\ current # "" /\ current \in Name /\ key \notin seen[current]
  /\ l.kind = "pair" /\ l.key = key

LEMMA AssignFacts ==
  ASSUME NEW l \in Lines, TypeOK, Assign(l)
  PROVE  /\ boards' \in [Name -> Board] /\ seen' \in [Name -> SUBSET Keys]
         /\ \E key \in Keys : NewPair(l, key) /\ NewValue(key, l.value)
  <1>1. /\ l.kind = "pair" /\ current # "" /\ l.key \in Keys \ seen[current]
        /\ Accepts(l.key, l.value)
        /\ boards' = [boards EXCEPT ![current] = Set(boards[current], l.key, l.value)]
        /\ seen' = [seen EXCEPT ![current] = seen[current] \cup {l.key}]
        /\ defined' = defined /\ current' = current
    BY DEF Assign, NewKey
  <1>2. PICK key \in Keys : key = l.key
    BY <1>1
  <1>3. PICK v \in Values : v = l.value
    BY <1>1, LineForms
  <1>4. current \in defined /\ current \in Name
    BY <1>1 DEF TypeOK
  <1>5. PICK b \in Board : b = boards[current]
    BY <1>4 DEF TypeOK
  <1>6. PICK r : r = Set(b, key, v)
    OBVIOUS
  <1>7. key = "max_celsius" => MilliCelsius(v) = Round(v.v) /\ Round(v.v) \in Int
    <2>1. Accepts(key, v)
      BY <1>1, <1>2, <1>3
    <2> QED
      BY <2>1, LimitIs, Zenon
  <1>8. /\ r \in Board /\ r.line = b.line
        /\ r.chip = IF key = "chip" THEN v ELSE b.chip
        /\ r.sensor = IF key = "sensor" THEN v ELSE b.sensor
        /\ r.max = IF key = "max_celsius" THEN Round(v.v) ELSE b.max
    <2>1. CASE key = "chip"
      <3>1. r = [b EXCEPT !.chip = v]
        BY <1>6, <2>1, SetIs
      <3> QED
        BY <2>1, <3>1 DEF Board
    <2>2. CASE key = "sensor"
      <3>1. r = [b EXCEPT !.sensor = v]
        BY <1>6, <2>2, SetIs
      <3> QED
        BY <2>2, <3>1 DEF Board
    <2>3. CASE key = "max_celsius"
      <3>1. PICK m \in Int : m = Round(v.v)
        BY <1>7, <2>3
      <3>2. r = [b EXCEPT !.max = m]
        BY <1>6, <1>7, <2>3, <3>1, SetIs
      <3> QED
        BY <2>3, <3>1, <3>2 DEF Board
    <2> QED
      BY <2>1, <2>2, <2>3 DEF Keys
  <1>9. boards' = [boards EXCEPT ![current] = r]
    BY <1>1, <1>2, <1>3, <1>5, <1>6
  <1>10. boards' \in [Name -> Board] /\ seen' \in [Name -> SUBSET Keys]
    BY <1>1, <1>8, <1>9 DEF TypeOK
  <1>11. boards'[current] = r /\ seen'[current] = seen[current] \cup {key}
    BY <1>1, <1>2, <1>4, <1>9 DEF TypeOK
  <1>12. \A n \in Name \ {current} : boards'[n] = boards[n] /\ seen'[n] = seen[n]
    BY <1>1, <1>9 DEF TypeOK
  <1>13. \A n \in Name : boards'[n].line = boards[n].line
    BY <1>5, <1>8, <1>11, <1>12
  <1>14. NewValue(key, v)
    BY <1>1, <1>5, <1>8, <1>11, <1>12, <1>13 DEF NewValue, SameSections
  <1> QED
    BY <1>1, <1>2, <1>3, <1>4, <1>10, <1>14 DEF NewPair

LEMMA AssignMirror ==
  ASSUME NEW N \in Nat, NEW l \in Lines, Grows(N, l), Mirror, TypeOK,
         NEW key \in Keys, NewPair(l, key), NewValue(key, l.value)
  PROVE  Mirror'
  <1>1. Index = 1..(N - 1) /\ Index' = 1..N /\ file'[N] = l /\ \A i \in 1..(N - 1) : file'[i] = file[i]
    BY DEF Grows
  <1>2. defined' = defined /\ current' = current /\ SameSections
    BY DEF NewValue, SameSections
  <1>3. \A n \in defined : boards'[n].line = boards[n].line
    BY DEF NewValue, SameSections, TypeOK
  <1>4. HeadersDefined'
    <2>1. ASSUME NEW h \in 1..N, file'[h].kind = "header"
          PROVE  file'[h].name \in defined' /\ boards'[file'[h].name].line = h
      <3>1. h # N
        BY <1>1, <2>1 DEF NewPair
      <3>2. h \in Index /\ file'[h] = file[h]
        BY <1>1, <3>1
      <3>3. file[h].name \in defined /\ boards[file[h].name].line = h
        BY <2>1, <3>2 DEF Mirror, HeadersDefined
      <3> QED
        BY <1>2, <1>3, <3>2, <3>3
    <2> QED
      BY <1>1, <2>1 DEF HeadersDefined
  <1>5. DefinedHeaders'
    <2>1. ASSUME NEW n \in defined
          PROVE  /\ boards'[n].line \in Index'
                 /\ file'[boards'[n].line].kind = "header"
                 /\ file'[boards'[n].line].name = n
      <3>1. PICK h \in Index : h = boards[n].line
        BY DEF Mirror, DefinedHeaders
      <3>2. file[h].kind = "header" /\ file[h].name = n
        BY <3>1 DEF Mirror, DefinedHeaders
      <3>3. h \in Index' /\ file'[h] = file[h]
        BY <1>1
      <3>4. boards'[n].line = h
        BY <1>3, <3>1
      <3> QED
        BY <3>2, <3>3, <3>4
    <2> QED
      BY <1>2, <2>1 DEF DefinedHeaders
  <1>6. CurrentIsLast'
    BY <1>2, SameLast DEF NewPair
  <1>7. ASSUME NEW n \in defined, NEW h \in Index', h = boards'[n].line PROVE Holds(n, h)'
    <2>1. h = boards[n].line /\ h \in Index
      BY <1>3, <1>7 DEF Mirror, DefinedHeaders
    <2>2. h \in Nat
      BY <1>1
    <2>3. CASE n # current
      <3>1. n \in Name /\ boards'[n] = boards[n] /\ seen'[n] = seen[n]
        BY <2>3 DEF NewValue, TypeOK
      <3>2. h # boards[current].line
        <4>1. file[h].name = n
          BY <2>1 DEF Mirror, DefinedHeaders
        <4>2. file[boards[current].line].name = current
          BY DEF Mirror, DefinedHeaders, NewPair
        <4> QED
          BY <2>3, <4>1, <4>2
      <3>3. Keys \subseteq AnyKey
        BY DEF AnyKey
      <3>4. \A k \in Keys : ~ Sets(h, N, k)'
        BY <2>2, <3>2, <3>3, NewLine
      <3> QED
        BY <2>1, <2>2, <3>1, <3>4, HoldsKept
    <2>4. CASE n = current
      <3>1. h = boards[current].line
        BY <2>1, <2>4
      <3>2. \A k \in Keys : k \in seen[current] <=> \E i \in 1..(N - 1) : Sets(h, i, k)'
        BY <2>2, <3>1, CurrentSets DEF NewPair
      <3>3. Keys \subseteq AnyKey
        BY DEF AnyKey
      <3>4. \A k \in Keys : Sets(h, N, k)' <=> k = key
        BY <2>2, <3>1, <3>3, NewLine DEF NewPair
      <3>5. seen'[current] = seen[current] \cup {key}
        BY DEF NewValue
      <3>6. \A k \in Keys : k \in seen'[current] <=> \E i \in Index' : Sets(h, i, k)'
        <4>1. SUFFICES ASSUME NEW k \in Keys
                       PROVE  k \in seen'[current] <=> \E i \in Index' : Sets(h, i, k)'
          OBVIOUS
        <4>2. \A i \in Index' : i = N \/ i \in 1..(N - 1)
          BY <1>1
        <4>3. N \in Index' /\ 1..(N - 1) \subseteq Index'
          BY <1>1 DEF Grows
        <4> QED
          BY <3>2, <3>4, <3>5, <4>2, <4>3
      <3>7. PICK v \in Values : v = l.value
        BY LineForms DEF NewPair
      <3>8. NewValue(key, v)
        BY <3>7
      <3>9. ASSUME NEW i \in Index'
            PROVE  /\ Sets(h, i, "chip")' => boards'[current].chip = file'[i].value
                   /\ Sets(h, i, "sensor")' => boards'[current].sensor = file'[i].value
                   /\ Sets(h, i, "max_celsius")' => boards'[current].max = Round(file'[i].value.v)
        <4>1. {"chip", "sensor", "max_celsius"} \subseteq Keys
          BY DEF Keys
        <4>2. CASE i = N
          <5>1. file'[i].value = v
            BY <1>1, <3>7, <4>2
          <5> QED
            BY <3>4, <3>8, <4>1, <4>2, <5>1 DEF NewValue
        <4>3. CASE i # N
          <5>1. i \in 1..(N - 1) /\ i \in Index /\ file'[i] = file[i]
            BY <1>1, <4>3
          <5>2. \A k \in Keys : Sets(h, i, k)' => Sets(h, i, k) /\ k # key
            BY <2>2, <3>2, <3>3, <5>1, OldLines DEF NewPair
          <5>3. Holds(current, h)
            BY <2>1, <2>4 DEF Mirror
          <5>4. /\ Sets(h, i, "chip") => boards[current].chip = file[i].value
                /\ Sets(h, i, "sensor") => boards[current].sensor = file[i].value
                /\ Sets(h, i, "max_celsius") => boards[current].max = Round(file[i].value.v)
            BY <5>1, <5>3 DEF Holds
          <5>5. /\ "chip" # key => boards'[current].chip = boards[current].chip
                /\ "sensor" # key => boards'[current].sensor = boards[current].sensor
                /\ "max_celsius" # key => boards'[current].max = boards[current].max
            BY <3>8 DEF NewValue
          <5> QED
            BY <4>1, <5>1, <5>2, <5>4, <5>5
        <4> QED
          BY <4>2, <4>3
      <3>10. /\ "chip" \notin seen'[current] => boards'[current].chip = Absent
             /\ "sensor" \notin seen'[current] => boards'[current].sensor = Absent
        <4>1. Holds(current, h)
          BY <2>1, <2>4 DEF Mirror
        <4> QED
          BY <3>5, <3>8, <4>1 DEF Holds, NewValue
      <3> QED
        BY <2>4, <3>6, <3>9, <3>10 DEF Holds
    <2> QED
      BY <2>3, <2>4
  <1> QED
    BY <1>2, <1>4, <1>5, <1>6, <1>7 DEF Mirror

-----------------------------------------------------------------------------
(* The table, once the file has been read. *)

(* The values of a sound file are plausible. *)
LEMMA SoundValues ==
  ASSUME Sound, TypeOK, NEW h \in Index, NEW i \in Index, NEW k \in Keys, Sets(h, i, k)
  PROVE  /\ file[i].value \in Values
         /\ k = "chip" => file[i].value.kind # "absent"
         /\ k = "max_celsius" => InRange(file[i].value)
  <1>1. file[i].kind = "pair" /\ file[i].key = k
    BY DEF Sets
  <1>2. file[i] \in Lines
    BY DEF TypeOK
  <1>3. file[i].value \in Values
    BY <1>1, <1>2, LineForms
  <1>4. LineSound(i)
    BY SoundIs
  <1>5. PairSound(i)
    BY <1>1, <1>4 DEF LineSound
  <1> QED
    BY <1>1, <1>3, <1>5 DEF PairSound

(* What the parser's test says of one section. *)
LEMMA SectionIs ==
  ASSUME Sound, Mirror, TypeOK, NEW n \in defined
  PROVE  (boards[n].chip # Absent /\ "max_celsius" \in seen[n]) <=>
           \A k \in {"chip", "max_celsius"} : \E i \in Index : Sets(boards[n].line, i, k)
  <1>1. PICK h \in Index : h = boards[n].line
    BY DEF Mirror, DefinedHeaders
  <1>2. Holds(n, h)
    BY <1>1 DEF Mirror
  <1>3. {"chip", "max_celsius"} \subseteq Keys
    BY DEF Keys
  <1>4. \A k \in {"chip", "max_celsius"} : k \in seen[n] <=> \E i \in Index : Sets(h, i, k)
    BY <1>2, <1>3 DEF Holds
  <1>5. boards[n].chip # Absent <=> "chip" \in seen[n]
    <2>1. "chip" \notin seen[n] => boards[n].chip = Absent
      BY <1>2 DEF Holds
    <2>2. ASSUME "chip" \in seen[n] PROVE boards[n].chip # Absent
      <3>1. PICK i \in Index : Sets(h, i, "chip")
        BY <1>4, <2>2
      <3>2. boards[n].chip = file[i].value
        BY <1>2, <3>1 DEF Holds
      <3>3. file[i].value.kind # "absent"
        BY <1>3, <3>1, SoundValues
      <3> QED
        BY <3>2, <3>3 DEF Absent
    <2> QED
      BY <2>1, <2>2
  <1> QED
    BY <1>1, <1>4, <1>5

LEMMA CompleteIs ==
  ASSUME Sound, Mirror, TypeOK
  PROVE  IsComplete <=> Complete
  <1>1. defined # {} <=> \E h \in Index : file[h].kind = "header"
    BY DEF Mirror, HeadersDefined, DefinedHeaders
  <1>2. (\A n \in defined : boards[n].chip # Absent /\ "max_celsius" \in seen[n]) <=>
          \A n \in defined, k \in {"chip", "max_celsius"} : \E i \in Index : Sets(boards[n].line, i, k)
    BY SectionIs
  <1>3. ASSUME \A n \in defined, k \in {"chip", "max_celsius"} : \E i \in Index : Sets(boards[n].line, i, k),
               NEW h \in Index, file[h].kind = "header"
        PROVE  \A k \in {"chip", "max_celsius"} : \E i \in Index : Sets(h, i, k)
    <2>1. file[h].name \in defined /\ boards[file[h].name].line = h
      BY <1>3 DEF Mirror, HeadersDefined
    <2> QED
      BY <1>3, <2>1
  <1>4. ASSUME \A h \in Index : file[h].kind = "header" =>
                 \A k \in {"chip", "max_celsius"} : \E i \in Index : Sets(h, i, k),
               NEW n \in defined
        PROVE  \A k \in {"chip", "max_celsius"} : \E i \in Index : Sets(boards[n].line, i, k)
    <2>1. boards[n].line \in Index /\ file[boards[n].line].kind = "header"
      BY DEF Mirror, DefinedHeaders
    <2> QED
      BY <1>4, <2>1
  <1> QED
    BY <1>1, <1>2, <1>3, <1>4 DEF IsComplete, Complete

LEMMA InitInv == Init => Inv
  <1> SUFFICES ASSUME Init PROVE Inv
    OBVIOUS
  <1>1. /\ file = <<>> /\ Index = {} /\ board \in Name \cup {"unreadable", ""} /\ pc = "open"
        /\ defined = {} /\ boards = [n \in Name |-> Zero] /\ seen = [n \in Name |-> {}]
        /\ current = "" /\ entry = Zero
    <2>1. file = <<>> => DOMAIN file = {}
      OBVIOUS
    <2> QED
      BY <2>1, Zenon DEF Init, Index
  <1>2. Zero \in Board
    <2>1. Absent \in Values
      BY BoardTableAssumption, Zenon
    <2> QED
      BY <2>1 DEF Zero, Board
  <1>3. TypeOK
    <2>1. (\A i \in Index : file[i] \in Lines) /\ pc \in PCs /\ board \in Name \cup {"unreadable", ""}
      BY <1>1 DEF PCs
    <2>2. boards \in [Name -> Board] /\ \A n \in Name : boards[n] = Zero
      BY <1>1, <1>2
    <2>3. seen \in [Name -> SUBSET Keys] /\ \A n \in Name : seen[n] = {}
      BY <1>1
    <2>4. defined \subseteq Name /\ current \in defined \cup {""} /\ (current = "" <=> defined = {})
      BY <1>1
    <2> QED
      BY <1>1, <1>2, <2>1, <2>2, <2>3, <2>4 DEF TypeOK
  <1>4. Sound
    BY <1>1 DEF Sound
  <1>5. Mirror
    BY <1>1 DEF Mirror, HeadersDefined, DefinedHeaders, CurrentIsLast
  <1>6. file \in Seq(Lines)
    <2>1. <<>> \in Seq(Lines)
      OBVIOUS
    <2> QED
      BY <1>1, <2>1, Zenon
  <1> QED
    BY <1>1, <1>3, <1>4, <1>5, <1>6 DEF Inv, Progress

(* A line keeps the types, *)
LEMMA ScanType ==
  ASSUME Inv, NEW l \in Lines, ScanLine(l)
  PROVE  TypeOK'
  <1>1. /\ pc = "scan" /\ file' = Append(file, l) /\ board' = board /\ entry' = entry
        /\ Blank(l) \/ Section(l) \/ Assign(l) \/ Refuse(l)
    BY DEF ScanLine
  <1>2. TypeOK
    BY DEF Inv
  <1>3. PICK N \in Nat \ {0} : N = Len(file') /\ Grows(N, l)
    BY <1>1, Appended DEF Inv
  <1>4. \A i \in Index' : file'[i] \in Lines
    <2>1. file' \in Seq(Lines)
      BY <1>1, Appended DEF Inv
    <2> QED
      BY <2>1 DEF Index
  <1>5. board' \in Name \cup {"unreadable", ""} /\ entry' \in Board /\ pc' \in PCs
    BY <1>1, <1>2 DEF TypeOK, Blank, Section, Assign, Refuse, PCs, Failures
  <1>6. CASE Blank(l) \/ Refuse(l)
    <2>1. UNCHANGED parser
      BY <1>6 DEF Blank, Refuse
    <2> QED
      BY <1>2, <1>4, <1>5, <2>1 DEF TypeOK, parser
  <1>7. CASE Section(l)
    <2>1. /\ l.name # "" /\ l.name \in Name \ defined
          /\ defined' = defined \cup {l.name} /\ current' = l.name
          /\ boards' = [boards EXCEPT ![l.name] = [Zero EXCEPT !.line = N]]
          /\ seen' = [seen EXCEPT ![l.name] = {}]
      BY <1>3, <1>7, LineForms DEF Section, NewSection
    <2>2. Zero \in Board
      <3>1. Absent \in Values
        BY BoardTableAssumption, Zenon
      <3> QED
        BY <3>1 DEF Zero, Board
    <2>3. [Zero EXCEPT !.line = N] \in Board
      BY <2>2 DEF Board
    <2>4. boards' \in [Name -> Board] /\ seen' \in [Name -> SUBSET Keys]
      BY <1>2, <2>1, <2>3 DEF TypeOK
    <2>5. \A n \in Name \ defined' : boards'[n] = Zero /\ seen'[n] = {}
      BY <1>2, <2>1 DEF TypeOK
    <2>6. defined' \subseteq Name /\ current' \in defined' \cup {""} /\ (current' = "" <=> defined' = {})
      BY <1>2, <2>1 DEF TypeOK
    <2> QED
      BY <1>4, <1>5, <2>4, <2>5, <2>6 DEF TypeOK
  <1>8. CASE Assign(l)
    <2>1. boards' \in [Name -> Board] /\ seen' \in [Name -> SUBSET Keys]
      BY <1>2, <1>8, AssignFacts
    <2>2. PICK key \in Keys : NewPair(l, key) /\ NewValue(key, l.value)
      BY <1>2, <1>8, AssignFacts
    <2>3. \A n \in Name \ defined : boards'[n] = boards[n] /\ seen'[n] = seen[n]
      BY <2>2 DEF NewPair, NewValue
    <2>4. defined' = defined /\ current' = current
      BY <2>2 DEF NewValue, SameSections
    <2>5. \A n \in Name \ defined' : boards'[n] = Zero /\ seen'[n] = {}
      BY <1>2, <2>3, <2>4 DEF TypeOK
    <2>6. defined' \subseteq Name /\ current' \in defined' \cup {""} /\ (current' = "" <=> defined' = {})
      BY <1>2, <2>4 DEF TypeOK
    <2> QED
      BY <1>4, <1>5, <2>1, <2>5, <2>6 DEF TypeOK
  <1> QED
    BY <1>1, <1>6, <1>7, <1>8

(* and what is established so far: Parse goes on after a good line and     *)
(* only after one.                                                         *)
LEMMA ScanProgress ==
  ASSUME Inv, NEW l \in Lines, ScanLine(l)
  PROVE  file' \in Seq(Lines) /\ Progress'
  <1>1. /\ pc = "scan" /\ file' = Append(file, l)
        /\ Blank(l) \/ Section(l) \/ Assign(l) \/ Refuse(l)
    BY DEF ScanLine
  <1>2. TypeOK /\ Sound /\ Mirror
    BY <1>1 DEF Inv, Progress
  <1>3. file' \in Seq(Lines)
    BY <1>1, Appended DEF Inv
  <1>4. PICK N \in Nat \ {0} : N = Len(file') /\ Grows(N, l)
    BY <1>1, Appended DEF Inv
  <1>5. N \in Nat
    OBVIOUS
  <1>6. Sound' <=> Good(l)
    BY <1>2, <1>4, <1>5, SoundStep
  <1>7. CASE Refuse(l)
    <2>1. pc' = "refused" /\ ~ Good(l)
      BY <1>7 DEF Refuse, Good
    <2> QED
      BY <1>3, <1>6, <2>1 DEF Progress
  <1>8. CASE Blank(l) \/ Section(l) \/ Assign(l)
    <2>1. pc' = "scan" /\ Good(l)
      BY <1>1, <1>8 DEF Blank, Section, Assign, Good
    <2>2. CASE Blank(l)
      <3>1. Mirror'
        BY <1>2, <1>4, <1>5, <2>2, BlankMirror
      <3> QED
        BY <1>3, <1>6, <2>1, <3>1 DEF Progress
    <2>3. CASE Section(l)
      <3>1. PICK new \in Name \ defined : l.kind = "header" /\ l.name = new /\ NewBoard(new, N)
        BY <1>2, <1>4, <1>5, <2>3, SectionFacts
      <3>2. Mirror'
        BY <1>2, <1>4, <1>5, <3>1, SectionMirror
      <3> QED
        BY <1>3, <1>6, <2>1, <3>2 DEF Progress
    <2>4. CASE Assign(l)
      <3>1. PICK key \in Keys : NewPair(l, key) /\ NewValue(key, l.value)
        BY <1>2, <2>4, AssignFacts
      <3>2. Mirror'
        BY <1>2, <1>4, <1>5, <3>1, AssignMirror
      <3> QED
        BY <1>3, <1>6, <2>1, <3>2 DEF Progress
    <2> QED
      BY <1>8, <2>2, <2>3, <2>4
  <1> QED
    BY <1>1, <1>7, <1>8

(* The other steps leave the file and the parser alone. *)
LEMMA SameFile ==
  ASSUME Inv, UNCHANGED <<file, board, parser>>
  PROVE  /\ pc' \in PCs /\ entry' \in Board => TypeOK'
         /\ file' \in Seq(Lines)
         /\ Sound' <=> Sound
         /\ Complete' <=> Complete
         /\ Mirror' <=> Mirror
  <1>1. /\ file' = file /\ board' = board /\ Index' = Index
        /\ defined' = defined /\ boards' = boards /\ seen' = seen /\ current' = current
    BY DEF parser, Index
  <1>2. pc' \in PCs /\ entry' \in Board => TypeOK'
    BY <1>1 DEF Inv, TypeOK
  <1>3. Sound' <=> Sound
    BY <1>1 DEF Sound, Opens, Sets, InRange
  <1>4. Complete' <=> Complete
    BY <1>1 DEF Complete, Sets, Opens
  <1>5. Mirror' <=> Mirror
    BY <1>1 DEF Mirror, HeadersDefined, DefinedHeaders, CurrentIsLast, Holds, Sets, Opens, Round, Absent
  <1> QED
    BY <1>1, <1>2, <1>3, <1>4, <1>5 DEF Inv

LEMMA NextInv == Inv /\ [Next]_vars => Inv'
  <1> SUFFICES ASSUME Inv, [Next]_vars PROVE Inv'
    OBVIOUS
  <1>1. TypeOK /\ Progress
    BY DEF Inv
  <1>2. pc \in PCs /\ entry \in Board
    BY <1>1 DEF TypeOK
  <1>3. CASE Open
    <2>1. pc = "open" /\ pc' \in {"scan", "error"} /\ entry' = entry /\ UNCHANGED <<file, board, parser>>
      BY <1>3 DEF Open
    <2>2. pc' \in PCs
      BY <2>1 DEF PCs, Failures
    <2> QED
      BY <1>1, <1>2, <2>1, <2>2, SameFile DEF Inv, Progress
  <1>4. ASSUME NEW l \in Lines, ScanLine(l) PROVE Inv'
    BY <1>4, ScanType, ScanProgress DEF Inv
  <1>5. CASE ScanEnds
    <2>1. pc = "scan" /\ pc' \in {"eof", "error"} /\ entry' = entry /\ UNCHANGED <<file, board, parser>>
      BY <1>5 DEF ScanEnds
    <2>2. pc' \in PCs
      BY <2>1 DEF PCs, Failures
    <2> QED
      BY <1>1, <1>2, <2>1, <2>2, SameFile DEF Inv, Progress
  <1>6. CASE Validate
    <2>1. /\ pc = "eof" /\ pc' = IF IsComplete THEN "parsed" ELSE "incomplete"
          /\ entry' = entry /\ UNCHANGED <<file, board, parser>>
      BY <1>6 DEF Validate
    <2>2. pc' \in PCs
      BY <2>1 DEF PCs, Failures
    <2>3. Sound /\ Mirror
      BY <1>1, <2>1 DEF Progress
    <2>4. IsComplete <=> Complete
      BY <1>1, <2>3, CompleteIs
    <2> QED
      BY <1>1, <1>2, <2>1, <2>2, <2>3, <2>4, SameFile DEF Inv, Progress
  <1>7. CASE BoardName
    <2>1. /\ pc = "parsed" /\ pc' \in {"error", "known"}
          /\ entry' = entry /\ UNCHANGED <<file, board, parser>>
      BY <1>7 DEF BoardName
    <2>2. pc' \in PCs
      BY <2>1 DEF PCs, Failures
    <2> QED
      BY <1>1, <1>2, <2>1, <2>2, SameFile DEF Inv, Progress
  <1>8. CASE Lookup
    <2>1. /\ pc = "known" /\ UNCHANGED <<file, board, parser>>
          /\ \/ board \in defined /\ pc' = "armed" /\ entry' = boards[board]
             \/ pc' = "error" /\ entry' = entry
      BY <1>8 DEF Lookup
    <2>2. pc' \in PCs /\ entry' \in Board
      BY <1>1, <1>2, <2>1 DEF PCs, Failures, TypeOK
    <2>3. board' = board /\ defined' = defined /\ boards' = boards
      BY <2>1 DEF parser
    <2>4. Sound /\ Mirror /\ Complete
      BY <1>1, <2>1 DEF Progress
    <2>5. TypeOK' /\ file' \in Seq(Lines) /\ Sound' /\ Mirror' /\ Complete'
      BY <2>1, <2>2, <2>4, SameFile
    <2> QED
      BY <2>1, <2>3, <2>5 DEF Inv, Progress
  <1>9. CASE UNCHANGED vars
    <2>1. UNCHANGED <<file, board, parser>> /\ pc' = pc /\ entry' = entry
      BY <1>9 DEF vars
    <2>2. board' = board /\ defined' = defined /\ boards' = boards
      BY <2>1 DEF parser
    <2> QED
      BY <1>1, <1>2, <2>1, <2>2, SameFile DEF Inv, Progress
  <1> QED
    BY <1>3, <1>4, <1>5, <1>6, <1>7, <1>8, <1>9 DEF Next, Done

LEMMA Invariance == Spec => []Inv
  BY InitInv, NextInv, PTL DEF Spec

-----------------------------------------------------------------------------
(* Parse's state keeps its types, and its maps know only defined boards,   *)
(* for files of any length.                                                *)
THEOREM TypeCorrect == Spec => []TypeOK
  <1>1. Inv => TypeOK
    BY DEF Inv
  <1> QED
    BY <1>1, Invariance, PTL

(* Parse is as strict as its comment says and no stricter, whatever the    *)
(* length of the file, the board names and the values.                     *)
THEOREM ParserAcceptsExactly == Spec => []AcceptsExactly
  <1>1. Inv => AcceptsExactly
    BY DEF Inv, Progress, AcceptsExactly
  <1> QED
    BY <1>1, Invariance, PTL

(* The table Parse returns is the file: one entry for each section, with   *)
(* the values of its own lines, and no other entry.                        *)
THEOREM TableMirrorsFile == Spec => []TableIsFile
  <1>1. Inv => TableIsFile
    <2> SUFFICES ASSUME Inv, pc \in {"parsed", "known", "armed"}
                 PROVE  /\ \A h \in Index : file[h].kind = "header" => Says(h, boards[file[h].name])
                        /\ defined = {file[h].name : h \in {h \in Index : file[h].kind = "header"}}
      BY DEF TableIsFile
    <2>1. Mirror /\ Complete /\ TypeOK
      BY DEF Inv, Progress
    <2>2. ASSUME NEW h \in Index, file[h].kind = "header"
          PROVE  Says(h, boards[file[h].name])
      <3>1. PICK n \in defined : n = file[h].name /\ boards[n].line = h
        BY <2>1, <2>2 DEF Mirror, HeadersDefined
      <3>2. Holds(n, h)
        BY <2>1, <3>1 DEF Mirror
      <3>3. \E i \in Index : Sets(h, i, "chip") /\ boards[n].chip = file[i].value
        BY <2>1, <2>2, <3>2 DEF Complete, Holds
      <3>4. \E i \in Index : Sets(h, i, "max_celsius") /\ boards[n].max = Round(file[i].value.v)
        BY <2>1, <2>2, <3>2 DEF Complete, Holds
      <3>5. "sensor" \in Keys
        BY DEF Keys
      <3>6. IF \E i \in Index : Sets(h, i, "sensor")
            THEN \E i \in Index : Sets(h, i, "sensor") /\ boards[n].sensor = file[i].value
            ELSE boards[n].sensor = Absent
        BY <3>2, <3>5 DEF Holds
      <3> QED
        BY <3>1, <3>3, <3>4, <3>6 DEF Says
    <2>3. defined = {file[h].name : h \in {h \in Index : file[h].kind = "header"}}
      BY <2>1 DEF Mirror, HeadersDefined, DefinedHeaders
    <2> QED
      BY <2>2, <2>3
  <1> QED
    BY <1>1, Invariance, PTL

(* A node arms only with a chip and a limit between 20 and 150 degrees     *)
(* that a section with its own board name gives.                           *)
THEOREM ArmedPlausible == Spec => []ArmedIsPlausible
  <1>1. Inv => ArmedIsPlausible
    <2> SUFFICES ASSUME Inv, pc = "armed"
                 PROVE  /\ entry.chip.kind # "absent" /\ 20000 <= entry.max /\ entry.max <= 150000
                        /\ entry.line \in Index /\ file[entry.line] = [kind |-> "header", name |-> board]
      BY SMT DEF ArmedIsPlausible
    <2>1. TypeOK /\ Sound /\ Mirror /\ Complete /\ board \in defined /\ entry = boards[board]
      BY Zenon DEF Inv, Progress
    <2>2. PICK h \in Index : h = entry.line
      BY <2>1 DEF Mirror, DefinedHeaders
    <2>3. file[h].kind = "header" /\ file[h].name = board
      BY <2>1, <2>2 DEF Mirror, DefinedHeaders
    <2>4. file[h] = [kind |-> "header", name |-> board]
      <3>1. file[h] \in Lines
        BY <2>1 DEF TypeOK
      <3> QED
        BY <2>3, <3>1, LineForms
    <2>5. Holds(board, h)
      BY <2>1, <2>2 DEF Mirror
    <2>6. PICK i \in Index : Sets(h, i, "chip")
      BY <2>1, <2>3 DEF Complete
    <2>7. PICK j \in Index : Sets(h, j, "max_celsius")
      BY <2>1, <2>3 DEF Complete
    <2>8. entry.chip = file[i].value /\ entry.max = Round(file[j].value.v)
      BY <2>1, <2>5, <2>6, <2>7 DEF Holds
    <2>9. {"chip", "max_celsius"} \subseteq Keys
      BY DEF Keys
    <2>10. entry.chip.kind # "absent"
      BY <2>1, <2>6, <2>8, <2>9, SoundValues
    <2>11. file[j].value \in Values /\ InRange(file[j].value)
      BY <2>1, <2>7, <2>9, SoundValues
    <2>12. PICK v \in Values : v = file[j].value /\ InRange(v)
      BY <2>11
    <2>13. 20000 <= Round(v.v) /\ Round(v.v) <= 150000
      BY <2>12, Thresholds, SMT
    <2> QED
      BY <2>2, <2>4, <2>8, <2>10, <2>12, <2>13, SMT
  <1> QED
    BY <1>1, Invariance, PTL
=============================================================================
