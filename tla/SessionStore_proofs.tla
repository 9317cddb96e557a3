------------------------ MODULE SessionStore_proofs ------------------------
(***************************************************************************)
(* The files of a session, for any records of any widths, any batches and  *)
(* summaries, and any interruption but one between the two files of a      *)
(* compaction or a deletion: what load() makes of them is what the calls   *)
(* have committed.                                                         *)
(***************************************************************************)
EXTENDS SessionStore, NaturalInduction, TLAPS

-----------------------------------------------------------------------------
(* FlattenSeq, by its recursion from the left. *)

LEMMA FlattenIs ==
  ASSUME NEW C, NEW ss \in Seq(Seq(C)), NEW f \in [0..Len(ss) -> Seq(C)], f[0] = << >>,
         \A i \in 1..Len(ss) : f[i] = f[i - 1] \o ss[i]
  PROVE  FlattenSeq(ss) = f[Len(ss)]
<1>0. \A i, j \in Nat : i \in 1..Len(ss) /\ i = j + 1 => f[i] = f[j] \o ss[i]
  <2>1. ASSUME NEW i \in Nat, NEW j \in Nat, i \in 1..Len(ss), i = j + 1 PROVE f[i] = f[j] \o ss[i]
    <3>1. j = i - 1 BY <2>1
    <3>2. f[i] = f[i - 1] \o ss[i] BY <2>1
    <3> QED BY <3>1, <3>2
  <2> QED BY <2>1
<1>1. CASE Len(ss) = 0
  <2>1. ss = << >> /\ FlattenSeq(ss) = ss BY <1>1 DEF FlattenSeq
  <2> QED BY <1>1, <2>1
<1>2. CASE Len(ss) # 0
  <2> DEFINE Rule(g) == [i \in 1..Len(ss) |-> IF i = 1 THEN ss[i] ELSE g[i - 1] \o ss[i]]
             flat == CHOOSE g : g = Rule(g)
             h == [i \in 1..Len(ss) |-> f[i]]
  <2>1. FlattenSeq(ss) = flat[Len(ss)] BY <1>2 DEF FlattenSeq
  <2>2. h = Rule(h)
    <3>1. ASSUME NEW i \in 1..Len(ss) PROVE f[i] = Rule(h)[i]
      <4>1. CASE i = 1
        <5>1. 1 \in 1..Len(ss) /\ 1 = 0 + 1 /\ ss[1] \in Seq(C) BY <1>2
        <5>2. f[1] = << >> \o ss[1] BY <1>0, <5>1
        <5> QED BY <4>1, <5>1, <5>2
      <4>2. CASE i # 1
        <5>1. i - 1 \in 1..Len(ss) BY <4>2
        <5>2. h[i - 1] = f[i - 1] BY <5>1
        <5> QED BY <4>2, <5>2
      <4> QED BY <4>1, <4>2
    <3> QED BY <3>1
  <2>3. flat = Rule(flat) BY <2>2
  <2> HIDE DEF flat
  <2> DEFINE Same == {k \in Nat : k + 1 \in 1..Len(ss) => flat[k + 1] = f[k + 1]}
  <2>4. 0 \in Same
    <3>1. flat[1] = ss[1] BY <1>2, <2>3
    <3>2. 1 \in 1..Len(ss) /\ 1 = 0 + 1 /\ ss[1] \in Seq(C) BY <1>2
    <3>3. f[1] = << >> \o ss[1] BY <1>0, <3>2
    <3> QED BY <3>1, <3>2, <3>3
  <2>5. ASSUME NEW k \in Same PROVE k + 1 \in Same
    <3>1. SUFFICES ASSUME k + 2 \in 1..Len(ss) PROVE flat[k + 2] = f[k + 2] OBVIOUS
    <3>0. k \in Nat /\ k + 2 # 1 /\ k + 2 - 1 = k + 1 /\ k + 1 \in 1..Len(ss) BY <3>1
    <3>2. flat[k + 2] = flat[k + 1] \o ss[k + 2]
      <4>1. flat[k + 2] = flat[k + 2 - 1] \o ss[k + 2]
        <5>1. Rule(flat)[k + 2] = IF k + 2 = 1 THEN ss[k + 2] ELSE flat[k + 2 - 1] \o ss[k + 2] BY <3>1
        <5> QED BY <2>3, <3>0, <5>1
      <4> QED BY <3>0, <4>1
    <3>3. f[k + 2] = f[k + 1] \o ss[k + 2]
      <4>1. k + 2 \in Nat /\ k + 1 \in Nat /\ k + 2 = k + 1 + 1 BY <3>0
      <4> QED BY <1>0, <3>1, <4>1
    <3>4. flat[k + 1] = f[k + 1] BY <3>1
    <3> QED BY <3>0, <3>2, <3>3, <3>4
  <2>6. Len(ss) - 1 \in Same
    <3>1. Same \in SUBSET Nat OBVIOUS
    <3> HIDE DEF Same
    <3>2. Len(ss) - 1 \in Nat BY <1>2
    <3> QED BY <2>4, <2>5, <3>1, <3>2, Induction
  <2> QED BY <1>2, <2>1, <2>6
<1> QED BY <1>1, <1>2

LEMMA FlattenSteps ==
  ASSUME NEW C, NEW ss \in Seq(Seq(C))
  PROVE  \E f \in [0..Len(ss) -> Seq(C)] : f[0] = << >> /\ \A i \in 1..Len(ss) : f[i] = f[i - 1] \o ss[i]
<1> DEFINE join == [p \in (1..Len(ss)) \X Seq(C) |-> p[2] \o ss[p[1]]]
<1>1. join \in [(1..Len(ss)) \X Seq(C) -> Seq(C)]
  <2>1. \A i \in 1..Len(ss) : ss[i] \in Seq(C) OBVIOUS
  <2> QED BY <2>1
<1>2. \A i \in 1..Len(ss), s \in Seq(C) : join[<<i, s>>] = s \o ss[i] OBVIOUS
<1>3. Len(ss) \in Nat /\ << >> \in Seq(C) OBVIOUS
<1>4. PICK f : Course(f, Len(ss), Seq(C), << >>, join) BY <1>1, <1>3, Recursion
<1>5. /\ f \in [0..Len(ss) -> Seq(C)] /\ f[0] = << >>
      /\ \A i \in 1..Len(ss) : f[i] = join[<<i, f[i - 1]>>]
  BY <1>4 DEF Course
<1> HIDE DEF join
<1>6. ASSUME NEW i \in 1..Len(ss) PROVE f[i - 1] \in Seq(C)
  <2>1. i - 1 \in 0..Len(ss) OBVIOUS
  <2> QED BY <1>5, <2>1
<1> QED BY <1>2, <1>5, <1>6

LEMMA FlattenMore ==
  ASSUME NEW C, NEW ss \in Seq(Seq(C)), NEW s \in Seq(C)
  PROVE  /\ FlattenSeq(ss) \in Seq(C)
         /\ FlattenSeq(Append(ss, s)) = FlattenSeq(ss) \o s
<1> DEFINE n == Len(ss)  all == Append(ss, s)
<1>1. all \in Seq(Seq(C)) /\ Len(all) = n + 1 /\ n \in Nat OBVIOUS
<1>2. all[n + 1] = s /\ \A i \in 1..n : all[i] = ss[i] OBVIOUS
<1>3. PICK f \in [0..n -> Seq(C)] : f[0] = << >> /\ \A i \in 1..n : f[i] = f[i - 1] \o ss[i]
  BY FlattenSteps
<1>4. FlattenSeq(ss) = f[n] BY <1>3, FlattenIs
<1> DEFINE g == [i \in 0..n + 1 |-> IF i = n + 1 THEN f[n] \o s ELSE f[i]]
<1> HIDE DEF all
<1>5. g \in [0..n + 1 -> Seq(C)]
  <2>0. n \in 0..n BY <1>1
  <2>1. f[n] \in Seq(C) BY <1>3, <2>0
  <2>2. f[n] \o s \in Seq(C) BY <2>1
  <2> QED BY <1>1, <1>3, <2>2
<1>6. g[0] = << >> BY <1>1, <1>3
<1>7. ASSUME NEW i \in 1..n + 1 PROVE g[i] = g[i - 1] \o all[i]
  <2>1. g[i - 1] = f[i - 1] BY <1>1
  <2>2. CASE i = n + 1
    <3>1. i - 1 = n /\ g[i] = f[n] \o s BY <1>1, <2>2
    <3> QED BY <1>2, <2>1, <2>2, <3>1
  <2>3. CASE i # n + 1
    <3>1. i \in 1..n /\ g[i] = f[i] BY <1>1, <2>3
    <3> QED BY <1>2, <1>3, <2>1, <3>1
  <2> QED BY <2>2, <2>3
<1>8. FlattenSeq(all) = g[n + 1]
  <2> HIDE DEF g
  <2>1. g \in [0..Len(all) -> Seq(C)] /\ \A i \in 1..Len(all) : g[i] = g[i - 1] \o all[i] BY <1>1, <1>5, <1>7
  <2> QED BY <1>1, <1>6, <2>1, FlattenIs
<1>9. g[n + 1] = f[n] \o s BY <1>1
<1> QED BY <1>1, <1>3, <1>4, <1>8, <1>9 DEF all
-----------------------------------------------------------------------------
(* What the reader makes of a text, cell by cell. *)

Reads == [lines : Seq(Seq(Cells)), open : Seq(Cells)]
NothingRead == [lines |-> << >>, open |-> << >>]

LEMMA ReadCellType ==
  ASSUME NEW read \in Reads, NEW c \in Cells
  PROVE  Closed(read) \in Seq(Seq(Cells)) /\ ReadCell(read, c) \in Reads
<1>1. read.lines \in Seq(Seq(Cells)) /\ read.open \in Seq(Cells) BY DEF Reads
<1>2. Closed(read) \in Seq(Seq(Cells)) BY <1>1 DEF Closed
<1>3. << >> \in Seq(Cells) /\ Append(read.open, c) \in Seq(Cells) BY <1>1
<1>4. [read EXCEPT !.open = Append(read.open, c)] \in Reads BY <1>1, <1>3 DEF Reads
<1> QED BY <1>1, <1>2, <1>3, <1>4 DEF ReadCell, Reads

LEMMA ReadingIs ==
  ASSUME NEW text, Len(text) \in Nat, NEW f, f[0] = NothingRead,
         \A i \in 1..Len(text) : f[i] = ReadCell(f[i - 1], text[i])
  PROVE  Reading(text) = f[Len(text)]
<1> DEFINE N == Len(text)
           Rule(g) == [n \in 0..N |-> IF n = 0 THEN NothingRead
                                      ELSE CHOOSE y \in {ReadCell(z, text[n]) : z \in {g[n - 1]}} : TRUE]
           upTo == CHOOSE g : g = Rule(g)
           h == [n \in 0..N |-> f[n]]
<1>1. Reading(text) = upTo[N] BY DEF Reading, Once, NothingRead
<1>2. \A g, n : (CHOOSE y \in {ReadCell(z, text[n]) : z \in {g[n - 1]}} : TRUE) = ReadCell(g[n - 1], text[n])
  OBVIOUS
<1>3. \A g : Rule(g) = [n \in 0..N |-> IF n = 0 THEN NothingRead ELSE ReadCell(g[n - 1], text[n])]
  BY <1>2
<1>4. h = Rule(h)
  <2>1. ASSUME NEW n \in 0..N PROVE f[n] = IF n = 0 THEN NothingRead ELSE ReadCell(h[n - 1], text[n])
    <3>1. CASE n = 0 BY <3>1
    <3>2. CASE n # 0
      <4>1. n \in 1..N /\ n - 1 \in 0..N BY <3>2
      <4> QED BY <3>2, <4>1
    <3> QED BY <3>1, <3>2
  <2> QED BY <1>3, <2>1
<1>5. upTo = Rule(upTo) BY <1>4
<1> HIDE DEF upTo
<1> DEFINE Same == {k \in Nat : k <= N => upTo[k] = f[k]}
<1>6. 0 \in Same BY <1>3, <1>5
<1>7. ASSUME NEW k \in Same PROVE k + 1 \in Same
  <2>1. SUFFICES ASSUME k + 1 <= N PROVE upTo[k + 1] = f[k + 1] OBVIOUS
  <2>2. k + 1 \in 0..N /\ k + 1 # 0 /\ k + 1 - 1 = k /\ k + 1 \in 1..N /\ k <= N BY <2>1
  <2>3. upTo[k + 1] = ReadCell(upTo[k + 1 - 1], text[k + 1]) BY <1>3, <1>5, <2>2
  <2>4. f[k + 1] = ReadCell(f[k + 1 - 1], text[k + 1]) BY <2>2
  <2> QED BY <2>2, <2>3, <2>4
<1>8. N \in Same
  <2>1. Same \in SUBSET Nat OBVIOUS
  <2> HIDE DEF Same
  <2> QED BY <1>6, <1>7, <2>1, Induction
<1> QED BY <1>1, <1>8

LEMMA ReadingSteps ==
  ASSUME NEW text \in Seq(Cells)
  PROVE  \E f \in [0..Len(text) -> Reads] :
           f[0] = NothingRead /\ \A i \in 1..Len(text) : f[i] = ReadCell(f[i - 1], text[i])
<1> DEFINE next == [p \in (1..Len(text)) \X Reads |-> ReadCell(p[2], text[p[1]])]
<1>1. next \in [(1..Len(text)) \X Reads -> Reads]
  <2>1. \A i \in 1..Len(text) : text[i] \in Cells OBVIOUS
  <2> QED BY <2>1, ReadCellType
<1>2. \A i \in 1..Len(text), read \in Reads : next[<<i, read>>] = ReadCell(read, text[i]) OBVIOUS
<1>3. Len(text) \in Nat /\ NothingRead \in Reads BY DEF NothingRead, Reads
<1>4. PICK f : Course(f, Len(text), Reads, NothingRead, next)
  <2> HIDE DEF next
  <2> QED BY <1>1, <1>3, Recursion
<1>5. /\ f \in [0..Len(text) -> Reads] /\ f[0] = NothingRead
      /\ \A i \in 1..Len(text) : f[i] = next[<<i, f[i - 1]>>]
  BY <1>4 DEF Course
<1> HIDE DEF next
<1>6. ASSUME NEW i \in 1..Len(text) PROVE f[i - 1] \in Reads
  <2>1. i - 1 \in 0..Len(text) OBVIOUS
  <2> QED BY <1>5, <2>1
<1> QED BY <1>2, <1>5, <1>6

LEMMA ReadingMore ==
  ASSUME NEW text \in Seq(Cells), NEW c \in Cells
  PROVE  /\ Reading(text) \in Reads
         /\ Reading(Append(text, c)) = ReadCell(Reading(text), c)
<1> DEFINE n == Len(text)  all == Append(text, c)
<1>1. all \in Seq(Cells) /\ Len(all) = n + 1 /\ n \in Nat OBVIOUS
<1>2. all[n + 1] = c /\ \A i \in 1..n : all[i] = text[i] OBVIOUS
<1>3. PICK f \in [0..n -> Reads] : f[0] = NothingRead /\ \A i \in 1..n : f[i] = ReadCell(f[i - 1], text[i])
  BY ReadingSteps
<1>4. Reading(text) = f[n] BY <1>1, <1>3, ReadingIs
<1> DEFINE g == [i \in 0..n + 1 |-> IF i = n + 1 THEN ReadCell(f[n], c) ELSE f[i]]
<1> HIDE DEF all
<1>5. g[0] = NothingRead BY <1>1, <1>3
<1>6. ASSUME NEW i \in 1..n + 1 PROVE g[i] = ReadCell(g[i - 1], all[i])
  <2>1. g[i - 1] = f[i - 1] BY <1>1
  <2>2. CASE i = n + 1
    <3>1. i - 1 = n /\ g[i] = ReadCell(f[n], c) BY <1>1, <2>2
    <3> QED BY <1>2, <2>1, <2>2, <3>1
  <2>3. CASE i # n + 1
    <3>1. i \in 1..n /\ g[i] = f[i] BY <1>1, <2>3
    <3> QED BY <1>2, <1>3, <2>1, <3>1
  <2> QED BY <2>2, <2>3
<1>7. Reading(all) = g[n + 1]
  <2> HIDE DEF g
  <2>1. \A i \in 1..Len(all) : g[i] = ReadCell(g[i - 1], all[i]) BY <1>1, <1>6
  <2> QED BY <1>1, <1>5, <2>1, ReadingIs
<1>8. g[n + 1] = ReadCell(f[n], c) /\ f[n] \in Reads BY <1>1, <1>3
<1> QED BY <1>4, <1>7, <1>8 DEF all
-----------------------------------------------------------------------------
(* A record is a line: what encode_record() writes, the reader gets back.  *)

Part(m, n) == [i \in 1..n |-> <<m, i>>]

LEMMA BodyFacts ==
  ASSUME NEW m \in Records
  PROVE  /\ Width[m] \in Nat /\ Width[m] >= 1
         /\ Body(m) = Part(m, Width[m])
         /\ Body(m) \in Seq(Cells) /\ Len(Body(m)) = Width[m] /\ Body(m) # << >>
         /\ Body(m)[1] = <<m, 1>>
         /\ NewLine \in Cells
         /\ Append(Body(m), NewLine) \in Seq(Cells)
<1>1. Width[m] \in Nat /\ Width[m] >= 1 BY StoreAssumption
<1>2. \A i \in 1..Width[m] : <<m, i>> \in Cells BY <1>1 DEF Cells
<1>3. Body(m) \in Seq(Cells) /\ Len(Body(m)) = Width[m] BY <1>1, <1>2 DEF Body
<1>4. Body(m)[1] = <<m, 1>> BY <1>1 DEF Body
<1>5. NewLine \in Cells BY DEF NewLine, Cells
<1>6. Append(Body(m), NewLine) \in Seq(Cells) BY <1>3, <1>5
<1>7. Body(m) # << >> BY <1>1, <1>3
<1>8. Body(m) = Part(m, Width[m]) BY DEF Body, Part
<1> QED BY <1>1, <1>3, <1>4, <1>5, <1>6, <1>7, <1>8

LEMMA ReadPart ==
  ASSUME Separated = {}, NEW m \in Records, NEW text \in Seq(Cells), Reading(text).open = << >>
  PROVE  \A n \in Nat : Reading(text \o Part(m, n)) = [lines |-> Reading(text).lines, open |-> Part(m, n)]
<1> DEFINE P == {n \in Nat : Reading(text \o Part(m, n)) = [lines |-> Reading(text).lines, open |-> Part(m, n)]}
<1>1. 0 \in P
  <2>1. Part(m, 0) = << >> /\ text \o << >> = text BY DEF Part
  <2>2. Reading(text) \in Reads
    <3>1. NewLine \in Cells BY DEF NewLine, Cells
    <3> QED BY <3>1, ReadingMore
  <2>3. Reading(text) = [lines |-> Reading(text).lines, open |-> << >>] BY <2>2 DEF Reads
  <2> QED BY <2>1, <2>3
<1>2. ASSUME NEW n \in P PROVE n + 1 \in P
  <2> DEFINE before == text \o Part(m, n)  c == <<m, n + 1>>
  <2>1. Part(m, n) \in Seq(Cells) /\ c \in Cells /\ Len(Part(m, n)) = n
    <3>1. \A i \in 1..n : <<m, i>> \in Cells BY DEF Cells
    <3>2. c \in Cells BY DEF Cells
    <3> QED BY <3>1, <3>2 DEF Part
  <2>2. Part(m, n + 1) = Append(Part(m, n), c)
    <3>1. Len(Append(Part(m, n), c)) = n + 1 /\ Append(Part(m, n), c) \in Seq(Cells) BY <2>1
    <3>2. ASSUME NEW i \in 1..n + 1 PROVE Append(Part(m, n), c)[i] = <<m, i>>
      <4>1. CASE i = n + 1 BY <2>1, <4>1
      <4>2. CASE i # n + 1
        <5>1. i \in 1..n /\ i \in 1..Len(Part(m, n)) BY <2>1, <4>2
        <5>2. Part(m, n)[i] = <<m, i>> BY <5>1 DEF Part
        <5> QED BY <2>1, <5>1, <5>2
      <4> QED BY <4>1, <4>2
    <3> QED BY <3>1, <3>2 DEF Part
  <2>3. text \o Part(m, n + 1) = Append(before, c) /\ before \in Seq(Cells)
    <3>1. \A s, t \in Seq(Cells), x \in Cells : s \o Append(t, x) = Append(s \o t, x) /\ s \o t \in Seq(Cells)
      OBVIOUS
    <3> HIDE DEF c
    <3>2. text \o Append(Part(m, n), c) = Append(text \o Part(m, n), c) /\ text \o Part(m, n) \in Seq(Cells)
      BY <2>1, <3>1
    <3> QED BY <2>2, <3>2, Zenon
  <2>4. ~BreaksLine(c)
    <3>1. m # Absent BY StoreAssumption
    <3> QED BY <3>1 DEF BreaksLine, NewLine
  <2>5. Reading(Append(before, c)) = ReadCell(Reading(before), c)
    <3> HIDE DEF before, c
    <3> QED BY <2>1, <2>3, ReadingMore
  <2>6. Reading(before) = [lines |-> Reading(text).lines, open |-> Part(m, n)] OBVIOUS
  <2>7. ReadCell(Reading(before), c) = [Reading(before) EXCEPT !.open = Append(Reading(before).open, c)]
    BY <2>4 DEF ReadCell
  <2>8. ReadCell(Reading(before), c) = [lines |-> Reading(text).lines, open |-> Append(Part(m, n), c)]
    <3> DEFINE r == [lines |-> Reading(text).lines, open |-> Part(m, n)]
    <3>1. r.open = Part(m, n) OBVIOUS
    <3>2. \A l, o, x : [[lines |-> l, open |-> o] EXCEPT !.open = x] = [lines |-> l, open |-> x] OBVIOUS
    <3>3. [r EXCEPT !.open = Append(r.open, c)] = [lines |-> Reading(text).lines, open |-> Append(Part(m, n), c)]
      BY <3>1, <3>2
    <3> HIDE DEF before, c, r
    <3>4. Reading(before) = r BY <2>6 DEF r
    <3> QED BY <2>7, <3>3, <3>4
  <2>9. Reading(text \o Part(m, n + 1)) = [lines |-> Reading(text).lines, open |-> Part(m, n + 1)]
    <3> HIDE DEF before, c
    <3> QED BY <2>2, <2>3, <2>5, <2>8
  <2> QED BY <2>9
<1> QED
  <2>1. P \in SUBSET Nat OBVIOUS
  <2>2. \A n \in Nat : n \in P
    <3> HIDE DEF P
    <3> QED BY <1>1, <1>2, <2>1, Induction
  <2> QED BY <2>2

LEMMA ReadLine ==
  ASSUME Separated = {}, NEW m \in Records, NEW text \in Seq(Cells), Reading(text).open = << >>
  PROVE  Reading(text \o Append(Body(m), NewLine)) =
           [lines |-> Append(Reading(text).lines, Body(m)), open |-> << >>]
<1> DEFINE before == text \o Body(m)
<1>1. Reading(before) = [lines |-> Reading(text).lines, open |-> Body(m)] BY BodyFacts, ReadPart
<1>2. text \o Append(Body(m), NewLine) = Append(before, NewLine) /\ before \in Seq(Cells)
  <2>1. \A S : \A s, t \in Seq(S), x \in S : s \o Append(t, x) = Append(s \o t, x) /\ s \o t \in Seq(S) OBVIOUS
  <2> QED BY <2>1, BodyFacts
<1>3. Reading(Append(before, NewLine)) = ReadCell(Reading(before), NewLine)
  <2> HIDE DEF before
  <2> QED BY <1>2, BodyFacts, ReadingMore
<1>4. ReadCell(Reading(before), NewLine) = [lines |-> Closed(Reading(before)), open |-> << >>]
  BY DEF ReadCell, BreaksLine
<1>5. Closed(Reading(before)) = Append(Reading(text).lines, Body(m)) BY <1>1, BodyFacts DEF Closed
<1> QED BY <1>2, <1>3, <1>4, <1>5

LEMMA EncodeNothing == Encode(<< >>) = << >>
<1>1. [i \in DOMAIN << >> |-> Append(Body(<< >>[i]), NewLine)] = << >> OBVIOUS
<1>2. Len(<< >>) = 0 OBVIOUS
<1> QED BY <1>1, <1>2 DEF Encode, FlattenSeq

LEMMA EncodeMore ==
  ASSUME NEW ms \in Seq(Records), NEW m \in Records
  PROVE  /\ Encode(ms) \in Seq(Cells)
         /\ Encode(Append(ms, m)) = Encode(ms) \o Append(Body(m), NewLine)
<1> DEFINE Line(x) == Append(Body(x), NewLine)
           lines == [i \in DOMAIN ms |-> Line(ms[i])]
           all == Append(ms, m)
<1>1. \A x \in Records : Line(x) \in Seq(Cells) BY BodyFacts
<1>2. Len(ms) \in Nat /\ DOMAIN ms = 1..Len(ms) /\ \A i \in DOMAIN ms : ms[i] \in Records OBVIOUS
<1>3. lines \in Seq(Seq(Cells)) /\ Len(lines) = Len(ms)
  <2>1. \A i \in 1..Len(ms) : Line(ms[i]) \in Seq(Cells) BY <1>1, <1>2
  <2> HIDE DEF Line
  <2> QED BY <1>2, <2>1
<1>4. all \in Seq(Records) /\ Len(all) = Len(ms) + 1 /\ DOMAIN all = 1..Len(ms) + 1
      /\ all[Len(ms) + 1] = m /\ \A i \in DOMAIN ms : all[i] = ms[i]
  OBVIOUS
<1>5. [i \in DOMAIN all |-> Line(all[i])] = Append(lines, Line(m))
  <2> HIDE DEF Line, all
  <2>1. Append(lines, Line(m)) \in Seq(Seq(Cells)) /\ Len(Append(lines, Line(m))) = Len(ms) + 1 BY <1>1, <1>3
  <2>2. ASSUME NEW i \in 1..Len(ms) + 1 PROVE Append(lines, Line(m))[i] = Line(all[i])
    <3>1. CASE i = Len(ms) + 1
      <4>1. Append(lines, Line(m))[Len(lines) + 1] = Line(m) BY <1>1, <1>3
      <4> QED BY <1>3, <1>4, <3>1, <4>1
    <3>2. CASE i # Len(ms) + 1
      <4>1. i \in 1..Len(ms) BY <1>2, <3>2
      <4>2. Append(lines, Line(m))[i] = lines[i]
        <5> HIDE DEF lines
        <5> QED BY <1>1, <1>3, <4>1
      <4>3. lines[i] = Line(ms[i]) BY <1>2, <4>1
      <4> QED BY <1>2, <1>4, <4>1, <4>2, <4>3
    <3> QED BY <3>1, <3>2
  <2>3. Append(lines, Line(m)) = [i \in 1..Len(ms) + 1 |-> Line(all[i])]
    <3> DEFINE other == [i \in 1..Len(ms) + 1 |-> Line(all[i])]
    <3>1. \A i \in 1..Len(ms) + 1 : Line(all[i]) \in Seq(Cells) BY <1>1, <1>4
    <3>2. other \in Seq(Seq(Cells)) /\ Len(other) = Len(ms) + 1 BY <1>2, <3>1
    <3>3. \A i \in 1..Len(ms) + 1 : other[i] = Line(all[i]) OBVIOUS
    <3> HIDE DEF lines, other
    <3>5. Append(lines, Line(m)) = other BY <2>1, <2>2, <3>2, <3>3, SameSequence
    <3> QED BY <3>5 DEF other
  <2> QED BY <1>4, <2>3
<1>6. Encode(ms) = FlattenSeq(lines) /\ Encode(all) = FlattenSeq([i \in DOMAIN all |-> Line(all[i])])
  BY DEF Encode
<1> QED
  <2>1. Line(m) \in Seq(Cells) BY <1>1
  <2>2. FlattenSeq(lines) \in Seq(Cells) /\ FlattenSeq(Append(lines, Line(m))) = FlattenSeq(lines) \o Line(m)
    <3> HIDE DEF lines, Line
    <3> QED BY <1>3, <2>1, FlattenMore
  <2> QED BY <1>5, <1>6, <2>2
LEMMA EncodeType ==
  ASSUME NEW ms \in Seq(Records)
  PROVE  Encode(ms) \in Seq(Cells) /\ Len(Encode(ms)) \in Nat /\ Encode(ms) # Absent
<1>1. Encode(ms) \in Seq(Cells)
  <2>1. CASE Records = {}
    <3>1. ms = << >> BY <2>1
    <3>2. Encode(ms) = << >> BY <3>1, EncodeNothing
    <3> QED BY <3>2
  <2>2. CASE Records # {} BY <2>2, EncodeMore
  <2> QED BY <2>1, <2>2
<1> QED BY <1>1, StoreAssumption DEF Cells

LEMMA EncodeJoin ==
  ASSUME NEW a \in Seq(Records), NEW b \in Seq(Records)
  PROVE  Encode(a \o b) = Encode(a) \o Encode(b)
<1> DEFINE T == {s \in Seq(Records) : Encode(a \o s) = Encode(a) \o Encode(s)}
<1>1. << >> \in T
  <2>1. a \o << >> = a /\ Encode(a) \in Seq(Cells) BY EncodeType
  <2>2. Encode(a) \o << >> = Encode(a) BY <2>1
  <2> QED BY <2>1, <2>2, EncodeNothing
<1>2. ASSUME NEW s \in T, NEW m \in Records PROVE Append(s, m) \in T
  <2> DEFINE line == Append(Body(m), NewLine)
  <2>1. s \in Seq(Records) /\ a \o s \in Seq(Records) /\ Append(s, m) \in Seq(Records)
        /\ a \o Append(s, m) = Append(a \o s, m)
    OBVIOUS
  <2>2. line \in Seq(Cells) BY BodyFacts
  <2>3. Encode(a \o Append(s, m)) = Encode(a \o s) \o line BY <2>1, EncodeMore
  <2>4. Encode(Append(s, m)) = Encode(s) \o line BY <2>1, EncodeMore
  <2>5. Encode(a) \in Seq(Cells) /\ Encode(s) \in Seq(Cells) BY <2>1, EncodeType
  <2>6. \A x, y, z \in Seq(Cells) : (x \o y) \o z = x \o (y \o z) OBVIOUS
  <2>7. Encode(a \o s) = Encode(a) \o Encode(s) OBVIOUS
  <2> HIDE DEF line
  <2>8. Encode(a \o Append(s, m)) = Encode(a) \o Encode(Append(s, m)) BY <2>2, <2>3, <2>4, <2>5, <2>6, <2>7
  <2> QED BY <2>1, <2>8
<1> QED
  <2>1. T \in SUBSET Seq(Records) OBVIOUS
  <2>2. \A s \in Seq(Records) : s \in T
    <3> HIDE DEF T
    <3> QED BY <1>1, <1>2, <2>1, SequenceInduction
  <2> QED BY <2>2

Bodies(ms) == [i \in 1..Len(ms) |-> Body(ms[i])]

LEMMA EncodeReads ==
  ASSUME Separated = {}, NEW ms \in Seq(Records)
  PROVE  Reading(Encode(ms)) = [lines |-> Bodies(ms), open |-> << >>]
<1> DEFINE T == {s \in Seq(Records) : Reading(Encode(s)) = [lines |-> Bodies(s), open |-> << >>]}
<1>1. << >> \in T
  <2>1. Bodies(<< >>) = << >> BY DEF Bodies
  <2>2. Reading(<< >>) = NothingRead
    <3> DEFINE f == [i \in 0..0 |-> NothingRead]
    <3>1. f[0] = NothingRead /\ Len(<< >>) = 0 /\ 1..0 = {} OBVIOUS
    <3> HIDE DEF f
    <3> QED BY <3>1, ReadingIs
  <2> QED BY <2>1, <2>2, EncodeNothing DEF NothingRead
<1>2. ASSUME NEW s \in T, NEW m \in Records PROVE Append(s, m) \in T
  <2>1. Append(s, m) \in Seq(Records) /\ Len(Append(s, m)) = Len(s) + 1 /\ Len(s) \in Nat
        /\ Append(s, m)[Len(s) + 1] = m /\ \A i \in 1..Len(s) : Append(s, m)[i] = s[i] /\ s[i] \in Records
    OBVIOUS
  <2>2. Reading(Encode(s)) = [lines |-> Bodies(s), open |-> << >>] /\ Encode(s) \in Seq(Cells) BY EncodeType
  <2>3. Reading(Encode(Append(s, m))) = [lines |-> Append(Bodies(s), Body(m)), open |-> << >>]
    <3>1. Encode(Append(s, m)) = Encode(s) \o Append(Body(m), NewLine) BY EncodeMore
    <3>2. Reading(Encode(s)).open = << >> /\ Reading(Encode(s)).lines = Bodies(s) BY <2>2
    <3> QED BY <2>2, <3>1, <3>2, ReadLine
  <2>4. Append(Bodies(s), Body(m)) = Bodies(Append(s, m))
    <3> DEFINE all == Append(s, m)
    <3> HIDE DEF all
    <3>1. \A i \in 1..Len(s) : Body(s[i]) \in Seq(Cells) BY <2>1, BodyFacts
    <3>2. Bodies(s) \in Seq(Seq(Cells)) /\ Len(Bodies(s)) = Len(s) BY <2>1, <3>1 DEF Bodies
    <3>3. Append(Bodies(s), Body(m)) \in Seq(Seq(Cells)) /\ Len(Append(Bodies(s), Body(m))) = Len(s) + 1
      BY <3>2, BodyFacts
    <3>4. \A i \in 1..Len(s) + 1 : all[i] \in Records BY <2>1 DEF all
    <3>5. \A i \in 1..Len(s) + 1 : Body(all[i]) \in Seq(Cells) BY <3>4, BodyFacts
    <3>6. Bodies(all) = [i \in 1..Len(s) + 1 |-> Body(all[i])] BY <2>1 DEF Bodies, all
    <3>7. Bodies(all) \in Seq(Seq(Cells)) /\ Len(Bodies(all)) = Len(s) + 1 BY <2>1, <3>5, <3>6
    <3>8. ASSUME NEW i \in 1..Len(s) + 1 PROVE Append(Bodies(s), Body(m))[i] = Bodies(all)[i]
      <4>1. Bodies(all)[i] = Body(all[i]) BY <3>6
      <4>2. CASE i = Len(s) + 1
        <5>1. Append(Bodies(s), Body(m))[Len(Bodies(s)) + 1] = Body(m) BY <3>2, BodyFacts
        <5>2. all[i] = m BY <2>1, <4>2 DEF all
        <5> QED BY <3>2, <4>1, <4>2, <5>1, <5>2
      <4>3. CASE i # Len(s) + 1
        <5>1. i \in 1..Len(s) BY <2>1, <4>3
        <5>2. Append(Bodies(s), Body(m))[i] = Bodies(s)[i] BY <3>2, <5>1, BodyFacts
        <5>3. Bodies(s)[i] = Body(s[i]) BY <5>1 DEF Bodies
        <5>4. all[i] = s[i] BY <2>1, <5>1 DEF all
        <5> QED BY <4>1, <5>2, <5>3, <5>4
      <4> QED BY <4>2, <4>3
    <3>9. Append(Bodies(s), Body(m)) = Bodies(all) BY <3>3, <3>7, <3>8, SameSequence
    <3> QED BY <3>9 DEF all
  <2> QED BY <2>1, <2>3, <2>4
<1> QED
  <2>1. T \in SUBSET Seq(Records) OBVIOUS
  <2>2. \A s \in Seq(Records) : s \in T
    <3> HIDE DEF T
    <3> QED BY <1>1, <1>2, <2>1, SequenceInduction
  <2> QED BY <2>2
-----------------------------------------------------------------------------
(* What the two files hold: the records ms are committed, and what follows *)
(* them in the history does not count.                                     *)

Begins(h, text) ==
  /\ h \in Seq(Cells) /\ Len(text) <= Len(h)
  /\ \A i \in 1..Len(text) : h[i] = text[i]
Stored(ms, m, h) ==
  /\ ms \in Seq(Records)
  /\ m = Absent => ms = << >>
  /\ m # Absent => /\ m \in Metadata
                   /\ m.committed = Len(Encode(ms))
                   /\ m.through \in 0..Len(ms)
                   /\ Begins(h, Encode(ms))
ThroughOf(m) == IF m = Absent THEN 0 ELSE m.through

LEMMA FileIsThere ==
  ASSUME NEW h, NEW text, Begins(h, text)
  PROVE  h # Absent /\ Len(h) \in Nat
  BY StoreAssumption DEF Begins, Cells

LEMMA BeginsJoin ==
  ASSUME NEW a \in Seq(Cells), NEW b \in Seq(Cells)
  PROVE  Begins(a \o b, a)
  BY DEF Begins

LEMMA BeginsCut ==
  ASSUME NEW h, NEW text \in Seq(Cells), Begins(h, text)
  PROVE  SubSeq(h, 1, Len(text)) = text
<1>1. SubSeq(h, 1, Len(text)) = [i \in 1..Len(text) |-> h[i]] BY DEF Begins
<1>2. text = [i \in 1..Len(text) |-> text[i]] OBVIOUS
<1>3. [i \in 1..Len(text) |-> h[i]] = [i \in 1..Len(text) |-> text[i]] BY DEF Begins
<1> QED BY <1>1, <1>2, <1>3

LEMMA SnapshotIs ==
  ASSUME Separated = {}, NEW ms, NEW m, NEW h, Stored(ms, m, h)
  PROVE  Snapshot(m, h) = [ok |-> TRUE, messages |-> ms, through |-> ThroughOf(m)]
<1>1. CASE m = Absent BY <1>1 DEF Stored, Snapshot, Empty, ThroughOf
<1>2. CASE m # Absent
  <2>1. /\ ms \in Seq(Records) /\ m.committed = Len(Encode(ms)) /\ m.through \in 0..Len(ms)
        /\ Begins(h, Encode(ms)) /\ m \in Metadata
    BY <1>2 DEF Stored
  <2>2. Encode(ms) \in Seq(Cells) /\ h # Absent BY <2>1, EncodeType, FileIsThere
  <2>3. SubSeq(h, 1, m.committed) = Encode(ms) BY <2>1, <2>2, BeginsCut
  <2>4. Len(ms) \in Nat /\ DOMAIN ms = 1..Len(ms) /\ ms = [i \in 1..Len(ms) |-> ms[i]]
        /\ \A i \in 1..Len(ms) : ms[i] \in Records
    BY <2>1
  <2> DEFINE lines == Bodies(ms)
  <2>5. Lines(Encode(ms)) = lines
    <3>1. Lines(Encode(ms)) = Closed(Reading(Encode(ms)))
      <4>1. \A r : (CHOOSE y \in {Closed(z) : z \in {r}} : TRUE) = Closed(r) OBVIOUS
      <4> QED BY <4>1 DEF Lines, Once
    <3>2. Reading(Encode(ms)) = [lines |-> lines, open |-> << >>] BY <2>1, EncodeReads
    <3> HIDE DEF lines
    <3>3. Closed([lines |-> lines, open |-> << >>]) = lines BY DEF Closed
    <3> QED BY <3>1, <3>2, <3>3
  <2>6. Len(lines) = Len(ms) /\ DOMAIN lines = 1..Len(ms) /\ \A i \in 1..Len(ms) : lines[i] = Body(ms[i])
    BY <2>4 DEF Bodies
  <2>7. Parsed(m, lines) = [ok |-> TRUE, messages |-> ms, through |-> m.through]
    <3> HIDE DEF lines
    <3>1. ~ \E i \in DOMAIN lines : \A r \in Records : lines[i] # Body(r) BY <2>4, <2>6
    <3>2. ~(m.through > Len(lines)) BY <2>1, <2>4, <2>6
    <3>3. [i \in DOMAIN lines |-> lines[i][1][1]] = ms
      <4>1. ASSUME NEW i \in 1..Len(ms) PROVE lines[i][1][1] = ms[i]
        <5>1. lines[i][1] = <<ms[i], 1>> BY <2>4, <2>6, BodyFacts
        <5> QED BY <5>1
      <4> QED BY <2>4, <2>6, <4>1
    <3> QED BY <3>1, <3>2, <3>3 DEF Parsed
  <2>8. Snapshot(m, h) = Parsed(m, Lines(SubSeq(h, 1, m.committed)))
    <3>1. ~(Len(h) < m.committed) BY <2>1, FileIsThere, EncodeType DEF Begins
    <3>2. \A l : (CHOOSE y \in {Parsed(m, z) : z \in {l}} : TRUE) = Parsed(m, l) OBVIOUS
    <3> QED BY <1>2, <2>2, <3>1, <3>2 DEF Snapshot, Once
  <2> HIDE DEF lines
  <2> QED BY <1>2, <2>3, <2>5, <2>7, <2>8 DEF ThroughOf
<1> QED BY <1>1, <1>2
-----------------------------------------------------------------------------
(* The invariant.  Held says what the files hold at each step p of a call: *)
(* the records ms, and between the two files of a compaction or a deletion *)
(* the records that will count once the metadata follows.  A load beside   *)
(* the writer has metadata that was current since the last compaction.     *)

Between == {"compact_meta", "delete_meta"}
Held(ms, p, m, h, c) ==
  /\ ms \in Seq(Records)
  /\ p \notin Between => Stored(ms, m, h)
  /\ p = "append_meta" => h = Encode(ms) \o Encode(c.records)
  /\ p = "compact_hist" => c.at \in ThroughOf(m)..Len(ms)
  /\ p = "compact_meta" => /\ h = Encode(ms) /\ c.at \in 0..Len(ms)
                           /\ m # Absent => m.committed <= Len(h)
  /\ p = "delete_meta" => h = Absent /\ ms = << >>

CallHolds ==
  /\ storePc \in {"append_hist", "append_meta"} => call.op = "append"
  /\ storePc \in {"compact_hist", "compact_meta"} => call.op = "compact" /\ Len(call.records) = 1
  /\ storePc \in {"delete_hist", "delete_meta"} => call.op = "delete"

ReaderHolds ==
  reader.step = "reading" =>
    /\ storePc \notin Between
    /\ meta # Absent /\ reader.meta # Absent
    /\ reader.meta.committed <= meta.committed
    /\ \E seen : /\ Stored(seen, reader.meta, hist)
                 /\ reader.seen = [ok |-> TRUE, messages |-> seen, through |-> ThroughOf(reader.meta)]

InvOf(ms) ==
  /\ StoreTypeOK
  /\ CallHolds
  /\ ReaderHolds
  /\ Held(ms, storePc, meta, hist, call)
IInv == \E ms : InvOf(ms)

(* What the store's contract calls the log, from what the files hold. *)
ThroughNow(p, m, c) ==
  CASE p = "compact_meta" -> c.at
    [] p = "delete_meta" -> 0
    [] OTHER -> ThroughOf(m)
LogIn(p, m, h, c) ==
  CASE p = "compact_meta" -> Snapshot([committed |-> Len(h), through |-> c.at], h)
    [] p = "delete_meta" -> Empty
    [] OTHER -> Snapshot(m, h)

LEMMA LogIs ==
  ASSUME Separated = {}, NEW ms, NEW p, NEW m, NEW h, NEW c, Held(ms, p, m, h, c)
  PROVE  LogIn(p, m, h, c) = [ok |-> TRUE, messages |-> ms, through |-> ThroughNow(p, m, c)]
<1>1. CASE p = "compact_meta"
  <2> DEFINE new == [committed |-> Len(h), through |-> c.at]
  <2>1. ms \in Seq(Records) /\ h = Encode(ms) /\ c.at \in 0..Len(ms) BY <1>1 DEF Held
  <2>2. h \in Seq(Cells) /\ Len(h) \in Nat BY <2>1, EncodeType
  <2>3. new \in Metadata /\ new.committed = Len(Encode(ms)) /\ new.through = c.at
    BY <2>1, <2>2 DEF Metadata
  <2>4. Begins(h, Encode(ms)) BY <2>1, <2>2 DEF Begins
  <2>5. new # Absent BY <2>3, StoreAssumption
  <2> HIDE DEF new
  <2>6. Stored(ms, new, h) BY <2>1, <2>3, <2>4, <2>5 DEF Stored
  <2>7. Snapshot(new, h) = [ok |-> TRUE, messages |-> ms, through |-> c.at]
    BY <2>3, <2>5, <2>6, SnapshotIs DEF ThroughOf
  <2> QED BY <1>1, <2>7 DEF LogIn, ThroughNow, new
<1>2. CASE p = "delete_meta" BY <1>2 DEF Held, LogIn, ThroughNow, Empty
<1>3. CASE p \notin Between
  <2>1. Snapshot(m, h) = [ok |-> TRUE, messages |-> ms, through |-> ThroughOf(m)]
    BY <1>3, SnapshotIs DEF Held
  <2> QED BY <1>3, <2>1 DEF LogIn, ThroughNow, Between
<1> QED BY <1>1, <1>2, <1>3 DEF Between

LEMMA HeldFacts ==
  ASSUME Separated = {}, NEW ms, Held(ms, storePc, meta, hist, call)
  PROVE  /\ LogNow = [ok |-> TRUE, messages |-> ms, through |-> ThroughNow(storePc, meta, call)]
         /\ storePc \notin Between => Load = [ok |-> TRUE, messages |-> ms, through |-> ThroughOf(meta)]
<1>1. LogNow = LogIn(storePc, meta, hist, call) BY DEF LogNow, LogIn, Load
<1>2. storePc \notin Between => Load = [ok |-> TRUE, messages |-> ms, through |-> ThroughOf(meta)]
  BY SnapshotIs DEF Held, Load
<1> QED BY <1>1, <1>2, LogIs

LEMMA CommittedCellsAre ==
  ASSUME NEW ms, Stored(ms, meta, hist)
  PROVE  CommittedCells = Encode(ms) /\ Committed = Len(Encode(ms)) /\ ms \in Seq(Records)
<1>1. ms \in Seq(Records) /\ Encode(ms) \in Seq(Cells) /\ Len(Encode(ms)) \in Nat BY EncodeType DEF Stored
<1>2. CASE meta = Absent
  <2>1. ms = << >> /\ Encode(ms) = << >> /\ Committed = 0 BY <1>2, EncodeNothing DEF Stored, Committed
  <2>2. CommittedCells = << >> BY <2>1 DEF CommittedCells
  <2> QED BY <1>1, <2>1, <2>2
<1>3. CASE meta # Absent
  <2>1. Begins(hist, Encode(ms)) /\ Committed = Len(Encode(ms)) BY <1>3 DEF Stored, Committed
  <2>2. hist # Absent /\ Len(hist) \in Nat BY <2>1, FileIsThere
  <2>3. CommittedCells = [i \in 1..Len(Encode(ms)) |-> IF i <= Len(hist) THEN hist[i] ELSE Zero]
    BY <2>1, <2>2 DEF CommittedCells
  <2>4. \A i \in 1..Len(Encode(ms)) : i <= Len(hist) /\ hist[i] = Encode(ms)[i] BY <1>1, <2>1, <2>2 DEF Begins
  <2>5. Encode(ms) = [i \in 1..Len(Encode(ms)) |-> Encode(ms)[i]] BY <1>1
  <2> QED BY <1>1, <2>1, <2>3, <2>4, <2>5
<1> QED BY <1>2, <1>3

(* A write behind the committed cells takes nothing from anybody: neither   *)
(* from the records that count nor from a load that is under way.          *)
LEMMA WriteBehind ==
  ASSUME NEW ms, Stored(ms, meta, hist), NEW x \in Seq(Cells), NEW h, h = Encode(ms) \o x
  PROVE  /\ Stored(ms, meta, h)
         /\ h \in Seq(Cells) /\ h # Absent
         /\ \A m, seen : /\ m # Absent /\ meta # Absent /\ m.committed <= meta.committed
                         /\ Stored(seen, m, hist)
                         => Stored(seen, m, h)
<1>1. ms \in Seq(Records) /\ Encode(ms) \in Seq(Cells) /\ Len(Encode(ms)) \in Nat BY EncodeType DEF Stored
<1>2. Begins(h, Encode(ms)) /\ h \in Seq(Cells) BY <1>1, BeginsJoin
<1>3. ASSUME NEW m, NEW seen, m # Absent, meta # Absent, m.committed <= meta.committed, Stored(seen, m, hist)
      PROVE  Stored(seen, m, h)
  <2>1. seen \in Seq(Records) /\ m.committed = Len(Encode(seen)) /\ Begins(hist, Encode(seen))
    BY <1>3 DEF Stored
  <2>2. Encode(seen) \in Seq(Cells) /\ Len(Encode(seen)) \in Nat BY <2>1, EncodeType
  <2>3. meta.committed = Len(Encode(ms)) /\ Begins(hist, Encode(ms)) BY <1>3 DEF Stored
  <2>4. Len(Encode(seen)) <= Len(Encode(ms)) BY <1>3, <2>1, <2>3
  <2>5. ASSUME NEW i \in 1..Len(Encode(seen)) PROVE h[i] = Encode(seen)[i]
    <3>1. i \in 1..Len(Encode(ms)) BY <1>1, <2>2, <2>4
    <3>2. h[i] = Encode(ms)[i] /\ hist[i] = Encode(ms)[i] BY <1>2, <2>3, <3>1 DEF Begins
    <3>3. hist[i] = Encode(seen)[i] BY <2>1 DEF Begins
    <3> QED BY <3>2, <3>3
  <2>6. Len(Encode(seen)) <= Len(h)
    <3>1. Len(Encode(ms)) <= Len(h) /\ Len(h) \in Nat BY <1>2 DEF Begins
    <3> QED BY <1>1, <2>2, <2>4, <3>1
  <2>7. Begins(h, Encode(seen)) BY <1>2, <2>5, <2>6 DEF Begins
  <2> QED BY <1>3, <2>7 DEF Stored
<1>4. Stored(ms, meta, h) BY <1>2 DEF Stored
<1> QED BY <1>2, <1>3, <1>4, FileIsThere
-----------------------------------------------------------------------------
(* One lemma per action: what the files hold after it. *)

LEMMA AppendCallKeeps ==
  ASSUME NEW ms, InvOf(ms), NEW b \in Batches, AppendCall(b)
  PROVE  InvOf(ms)'
<1> USE DEF AppendCall, InvOf, sessionFiles
<1>1. b \in Seq(Records) BY StoreAssumption
<1>2. StoreTypeOK' BY <1>1 DEF StoreTypeOK, StoreSteps
<1>3. CallHolds' BY DEF CallHolds
<1>4. ReaderHolds' BY DEF ReaderHolds, Between
<1>5. Held(ms, storePc, meta, hist, call)' BY DEF Held, Between
<1> QED BY <1>2, <1>3, <1>4, <1>5

LEMMA AppendHistKeeps ==
  ASSUME NEW ms, InvOf(ms), AppendHist
  PROVE  InvOf(ms)'
<1> USE DEF AppendHist, InvOf
<1>1. Stored(ms, meta, hist) BY DEF Held, Between
<1>2. CommittedCells = Encode(ms) BY <1>1, CommittedCellsAre
<1>3. Encode(call.records) \in Seq(Cells) BY EncodeType DEF StoreTypeOK
<1>4. hist' = Encode(ms) \o Encode(call.records) BY <1>2
<1>5. /\ Stored(ms, meta, hist')
      /\ hist' \in Seq(Cells)
      /\ \A m, seen : /\ m # Absent /\ meta # Absent /\ m.committed <= meta.committed
                      /\ Stored(seen, m, hist)
                      => Stored(seen, m, hist')
  BY <1>1, <1>3, <1>4, WriteBehind
<1>6. StoreTypeOK' BY <1>5 DEF StoreTypeOK, StoreSteps
<1>7. CallHolds' BY DEF CallHolds
<1>8. ReaderHolds' BY <1>5 DEF ReaderHolds, Between
<1>9. Held(ms, storePc, meta, hist, call)' BY <1>4, <1>5 DEF Held, Between
<1> QED BY <1>6, <1>7, <1>8, <1>9

LEMMA AppendMetaKeeps ==
  ASSUME NEW ms, InvOf(ms), AppendMeta
  PROVE  InvOf(ms \o call.records)'
<1> USE DEF AppendMeta, InvOf
<1> DEFINE all == ms \o call.records
<1>1. Stored(ms, meta, hist) BY DEF Held, Between
<1>2. ms \in Seq(Records) /\ call.records \in Seq(Records) /\ all \in Seq(Records)
      /\ Len(all) = Len(ms) + Len(call.records) /\ Len(ms) \in Nat /\ Len(call.records) \in Nat
  BY <1>1 DEF Stored, StoreTypeOK
<1>3. Committed = Len(Encode(ms)) BY <1>1, CommittedCellsAre
<1>4. hist = Encode(ms) \o Encode(call.records) BY DEF Held
<1>5. hist = Encode(all) BY <1>2, <1>4, EncodeJoin
<1>6. Encode(ms) \in Seq(Cells) /\ Encode(call.records) \in Seq(Cells) /\ Encode(all) \in Seq(Cells)
  BY <1>2, EncodeType
<1>7. Len(hist) = Len(Encode(ms)) + Len(Encode(call.records)) /\ Len(hist) \in Nat BY <1>4, <1>6
<1>8. Through \in 0..Len(ms) BY <1>1 DEF Stored, Through
<1>9. /\ meta' \in Metadata /\ meta' # Absent
      /\ meta'.committed = Len(Encode(all)) /\ meta'.through = Through
  BY <1>2, <1>3, <1>5, <1>7, <1>8, StoreAssumption DEF Metadata
<1>10. Stored(all, meta', hist)
  <2>1. Begins(hist, Encode(all)) BY <1>5, <1>6, <1>7 DEF Begins
  <2>2. meta'.through \in 0..Len(all) BY <1>2, <1>8, <1>9
  <2> QED BY <1>2, <1>9, <2>1, <2>2 DEF Stored
<1>11. meta # Absent => meta.committed <= meta'.committed /\ meta.committed \in Nat
  <2>1. meta # Absent => meta.committed = Len(Encode(ms)) BY <1>1 DEF Stored
  <2> QED BY <1>5, <1>6, <1>7, <1>9, <2>1
<1>12. StoreTypeOK' BY <1>9 DEF StoreTypeOK, StoreSteps, Metas
<1>13. CallHolds' BY DEF CallHolds
<1>14. ReaderHolds'
  <2>1. SUFFICES ASSUME reader.step = "reading"
                 PROVE  reader.meta.committed <= meta'.committed
    BY <1>9 DEF ReaderHolds, Between
  <2>2. reader.meta # Absent /\ meta # Absent /\ reader.meta.committed <= meta.committed
    BY <2>1 DEF ReaderHolds
  <2>3. reader.meta.committed \in Nat BY <2>2 DEF StoreTypeOK, Metas, Metadata
  <2> QED BY <1>9, <1>11, <2>2, <2>3, <1>6
<1>15. Held(all, storePc', meta', hist', call') BY <1>2, <1>10 DEF Held, Between
<1> QED BY <1>12, <1>13, <1>14, <1>15
LEMMA InsertAtIs ==
  ASSUME NEW R, NEW s \in Seq(R), NEW n \in 0..Len(s), NEW x \in R
  PROVE  /\ InsertAt(s, n + 1, x) = SubSeq(s, 1, n) \o <<x>> \o SubSeq(s, n + 1, Len(s))
         /\ SubSeq(s, 1, n) \in Seq(R) /\ SubSeq(s, n + 1, Len(s)) \in Seq(R)
         /\ s = SubSeq(s, 1, n) \o SubSeq(s, n + 1, Len(s))
         /\ InsertAt(s, n + 1, x) \in Seq(R)
         /\ Len(InsertAt(s, n + 1, x)) = Len(s) + 1
<1> DEFINE a == SubSeq(s, 1, n)
           b == SubSeq(s, n + 1, Len(s))
<1>1. a \in Seq(R) /\ Len(a) = n /\ \A i \in 1..n : a[i] = s[i] OBVIOUS
<1>2. b \in Seq(R) /\ Len(b) = Len(s) - n /\ \A i \in 1..(Len(s) - n) : b[i] = s[n + i] OBVIOUS
<1> HIDE DEF a, b
<1>3. a \o b \in Seq(R) /\ Len(a \o b) = Len(s) BY <1>1, <1>2
<1>4. s = a \o b
  <2>1. ASSUME NEW i \in 1..Len(s) PROVE s[i] = (a \o b)[i]
    <3>1. CASE i <= n BY <1>1, <1>2, <3>1
    <3>2. CASE ~(i <= n)
      <4>1. i - n \in 1..(Len(s) - n) /\ n + (i - n) = i /\ n \in Nat /\ Len(s) \in Nat BY <3>2
      <4>2. b[i - n] = s[i] BY <1>2, <4>1
      <4>3. (a \o b)[i] = b[i - n] BY <1>1, <1>2, <3>2, <4>1
      <4> QED BY <4>2, <4>3
    <3> QED BY <3>1, <3>2
  <2> QED BY <1>3, <2>1, SameSequence
<1>5. InsertAt(s, n + 1, x) = a \o <<x>> \o b
  <2>1. (n + 1) - 1 = n OBVIOUS
  <2>2. InsertAt(s, n + 1, x) = SubSeq(s, 1, (n + 1) - 1) \o <<x>> \o SubSeq(s, n + 1, Len(s)) BY DEF InsertAt
  <2> QED BY <2>1, <2>2 DEF a, b
<1>6. <<x>> \in Seq(R) /\ Len(<<x>>) = 1 OBVIOUS
<1>7. a \o <<x>> \o b \in Seq(R) /\ Len(a \o <<x>> \o b) = Len(s) + 1
  <2>1. \A u, v, w \in Seq(R) : u \o v \o w \in Seq(R) /\ Len(u \o v \o w) = Len(u) + Len(v) + Len(w) OBVIOUS
  <2>2. n + 1 + (Len(s) - n) = Len(s) + 1 OBVIOUS
  <2> QED BY <1>1, <1>2, <1>6, <2>1, <2>2
<1> QED BY <1>1, <1>2, <1>4, <1>5, <1>7 DEF a, b
LEMMA CompactCallKeeps ==
  ASSUME Separated = {}, NEW ms, InvOf(ms),
         NEW t \in 0..MaxRecords + 1, NEW s \in Summaries, CompactCall(t, s)
  PROVE  InvOf(ms)'
<1> USE DEF CompactCall, InvOf, sessionFiles
<1>1. Load = [ok |-> TRUE, messages |-> ms, through |-> ThroughOf(meta)] BY HeldFacts DEF Between
<1>2. s \in Records /\ t \in Nat
  <2>1. t \in Nat BY StoreAssumption
  <2> QED BY <2>1, StoreAssumption
<1>3. <<s>> \in Seq(Records) /\ Len(<<s>>) = 1 BY <1>2
<1>4. call' \in [op : {"none", "append", "compact", "delete"}, records : Seq(Records), at : Nat]
      /\ call'.op = "compact" /\ call'.records = <<s>> /\ call'.at = t
  BY <1>2, <1>3
<1>5. (storePc' = "compact_hist" /\ t \in ThroughOf(meta)..Len(ms)) \/ storePc' = "idle" BY <1>1
<1>6. StoreTypeOK' BY <1>4, <1>5 DEF StoreTypeOK, StoreSteps
<1>7. CallHolds' BY <1>3, <1>4, <1>5 DEF CallHolds
<1>8. ReaderHolds' BY <1>5 DEF ReaderHolds, Between
<1>9. Held(ms, storePc, meta, hist, call)' BY <1>4, <1>5 DEF Held, Between
<1> QED BY <1>6, <1>7, <1>8, <1>9

LEMMA CompactHistKeeps ==
  ASSUME Separated = {}, NEW ms, InvOf(ms), CompactHist
  PROVE  InvOf(InsertAt(ms, call.at + 1, Head(call.records)))'
<1> USE DEF CompactHist, InvOf
<1> DEFINE new == InsertAt(ms, call.at + 1, Head(call.records))
           a == SubSeq(ms, 1, call.at)
           b == SubSeq(ms, call.at + 1, Len(ms))
           x == Head(call.records)
<1>1. Load = [ok |-> TRUE, messages |-> ms, through |-> ThroughOf(meta)] BY HeldFacts DEF Between
<1>2. Stored(ms, meta, hist) /\ call.at \in ThroughOf(meta)..Len(ms) BY DEF Held, Between
<1>3. ms \in Seq(Records) /\ call.at \in 0..Len(ms)
  <2>1. ThroughOf(meta) \in Nat BY DEF ThroughOf, StoreTypeOK, Metas, Metadata
  <2> QED BY <1>2, <2>1 DEF Stored
<1>4. call.records \in Seq(Records) /\ Len(call.records) = 1 /\ x \in Records BY DEF StoreTypeOK, CallHolds
<1>5. hist' = Encode(new) BY <1>1
<1>6. /\ new = a \o <<x>> \o b /\ a \in Seq(Records) /\ b \in Seq(Records) /\ ms = a \o b
      /\ new \in Seq(Records) /\ Len(new) = Len(ms) + 1
  <2>1. x = Head(call.records) OBVIOUS
  <2> HIDE DEF x
  <2>2. new = InsertAt(ms, call.at + 1, x) BY <2>1
  <2> HIDE DEF new
  <2>3. \A s \in Seq(Records) : \A n \in 0..Len(s), y \in Records :
          /\ InsertAt(s, n + 1, y) = SubSeq(s, 1, n) \o <<y>> \o SubSeq(s, n + 1, Len(s))
          /\ SubSeq(s, 1, n) \in Seq(Records) /\ SubSeq(s, n + 1, Len(s)) \in Seq(Records)
          /\ s = SubSeq(s, 1, n) \o SubSeq(s, n + 1, Len(s))
          /\ InsertAt(s, n + 1, y) \in Seq(Records)
          /\ Len(InsertAt(s, n + 1, y)) = Len(s) + 1
    BY ONLY InsertAtIs, Zenon
  <2> QED BY ONLY <1>3, <1>4, <2>2, <2>3, Zenon
<1> HIDE DEF new, a, b, x
<1>7. Len(Encode(ms)) <= Len(Encode(new))
  <2>1. <<x>> \in Seq(Records) /\ a \o <<x>> \in Seq(Records) BY <1>4, <1>6
  <2>2. Encode(new) = Encode(a \o <<x>>) \o Encode(b) /\ Encode(a \o <<x>>) = Encode(a) \o Encode(<<x>>)
        /\ Encode(ms) = Encode(a) \o Encode(b)
    BY <1>6, <2>1, EncodeJoin
  <2>3. Encode(a) \in Seq(Cells) /\ Encode(b) \in Seq(Cells) /\ Encode(<<x>>) \in Seq(Cells) BY <1>6, <2>1, EncodeType
  <2>4. \A u, v, w \in Seq(Cells) : Len(u \o w) <= Len((u \o v) \o w) OBVIOUS
  <2> QED BY <2>2, <2>3, <2>4
<1>8. Encode(new) \in Seq(Cells) /\ Len(Encode(new)) \in Nat /\ Encode(new) # Absent BY <1>6, EncodeType
<1>9. StoreTypeOK'
  <2>1. reader' \in [step : {"idle", "reading", "overtaken"}, meta : Metas, seen : Snapshots]
    <3>1. NoLoad.meta \in Metas /\ NoLoad.seen \in Snapshots BY DEF NoLoad, Metas, Snapshots, Empty
    <3> QED BY <3>1 DEF Overtaken, NoLoad, StoreTypeOK
  <2> QED BY <1>5, <1>8, <2>1 DEF StoreTypeOK, StoreSteps
<1>10. CallHolds' BY DEF CallHolds
<1>11. ReaderHolds' BY DEF ReaderHolds, Overtaken, NoLoad
<1>12. Held(new, storePc', meta', hist', call')
  <2>1. meta # Absent => meta.committed <= Len(hist') BY <1>2, <1>5, <1>7 DEF Stored
  <2>2. call.at \in 0..Len(new) BY <1>3, <1>6
  <2> QED BY <1>5, <1>6, <2>1, <2>2 DEF Held, Between
<1> QED BY <1>9, <1>10, <1>11, <1>12 DEF new, x

LEMMA CompactMetaKeeps ==
  ASSUME NEW ms, InvOf(ms), CompactMeta
  PROVE  InvOf(ms)'
<1> USE DEF CompactMeta, InvOf
<1>1. ms \in Seq(Records) /\ hist = Encode(ms) /\ call.at \in 0..Len(ms) BY DEF Held
<1>2. Encode(ms) \in Seq(Cells) /\ Len(Encode(ms)) \in Nat BY <1>1, EncodeType
<1>3. meta' \in Metadata /\ meta'.committed = Len(Encode(ms)) /\ meta'.through = call.at
  BY <1>1, <1>2 DEF Metadata
<1>4. meta' # Absent BY <1>3, StoreAssumption
<1>5. Stored(ms, meta', hist)
  <2>1. Begins(hist, Encode(ms)) BY <1>1, <1>2 DEF Begins
  <2> QED BY <1>1, <1>3, <1>4, <2>1 DEF Stored
<1>6. StoreTypeOK' BY <1>3 DEF StoreTypeOK, StoreSteps, Metas
<1>7. CallHolds' BY DEF CallHolds
<1>8. ReaderHolds' BY DEF ReaderHolds, Between
<1>9. Held(ms, storePc, meta, hist, call)' BY <1>1, <1>5 DEF Held, Between
<1> QED BY <1>6, <1>7, <1>8, <1>9
LEMMA DeleteCallKeeps ==
  ASSUME NEW ms, InvOf(ms), DeleteCall
  PROVE  InvOf(ms)'
<1> USE DEF DeleteCall, InvOf, sessionFiles
<1>1. StoreTypeOK' BY DEF StoreTypeOK, StoreSteps
<1>2. CallHolds' BY DEF CallHolds
<1>3. ReaderHolds' BY DEF ReaderHolds, Between
<1>4. Held(ms, storePc, meta, hist, call)' BY DEF Held, Between
<1> QED BY <1>1, <1>2, <1>3, <1>4

LEMMA DeleteHistKeeps ==
  ASSUME NEW ms, InvOf(ms), DeleteHist
  PROVE  InvOf(<< >>)'
<1> USE DEF DeleteHist, InvOf
<1>1. StoreTypeOK'
  <2>1. NoLoad.meta \in Metas /\ NoLoad.seen \in Snapshots BY DEF NoLoad, Metas, Snapshots, Empty
  <2>2. reader' \in [step : {"idle", "reading", "overtaken"}, meta : Metas, seen : Snapshots]
    BY <2>1 DEF Overtaken, NoLoad, StoreTypeOK
  <2> QED BY <2>2 DEF StoreTypeOK, StoreSteps
<1>2. CallHolds' BY DEF CallHolds
<1>3. ReaderHolds' BY DEF ReaderHolds, Overtaken, NoLoad
<1>4. Held(<< >>, storePc', meta', hist', call') BY DEF Held, Between
<1> QED BY <1>1, <1>2, <1>3, <1>4

LEMMA DeleteMetaKeeps ==
  ASSUME NEW ms, InvOf(ms), DeleteMeta
  PROVE  InvOf(ms)'
<1> USE DEF DeleteMeta, InvOf
<1>1. StoreTypeOK' BY DEF StoreTypeOK, StoreSteps, Metas
<1>2. CallHolds' BY DEF CallHolds
<1>3. ReaderHolds' BY DEF ReaderHolds, Between
<1>4. Held(ms, storePc, meta, hist, call)' BY DEF Held, Between, Stored
<1> QED BY <1>1, <1>2, <1>3, <1>4

LEMMA ReturnKeeps ==
  ASSUME NEW ms, InvOf(ms), Return
  PROVE  InvOf(ms)'
<1> USE DEF Return, InvOf, sessionFiles
<1>1. StoreTypeOK' BY DEF StoreTypeOK, StoreSteps
<1>2. CallHolds' BY DEF CallHolds
<1>3. ReaderHolds' BY DEF ReaderHolds, Between
<1>4. Held(ms, storePc, meta, hist, call)' BY DEF Held, Between
<1> QED BY <1>1, <1>2, <1>3, <1>4

(* A part of the batch after the committed cells counts for nothing. *)
LEMMA InterruptedKeeps ==
  ASSUME NEW ms, InvOf(ms), Interrupted, Exposed \cap Between = {}
  PROVE  InvOf(ms)'
<1> USE DEF Interrupted, InvOf
<1>1. storePc \notin Between /\ Stored(ms, meta, hist) BY DEF Held
<1>2. CASE hist' = hist
  <2>1. StoreTypeOK' BY <1>2 DEF StoreTypeOK, StoreSteps
  <2>2. CallHolds' BY DEF CallHolds
  <2>3. ReaderHolds' BY <1>1, <1>2 DEF ReaderHolds, Between
  <2>4. Held(ms, storePc, meta, hist, call)' BY <1>1, <1>2 DEF Held, Between
  <2> QED BY <2>1, <2>2, <2>3, <2>4
<1>3. CASE hist' # hist
  <2> DEFINE written == Encode(call.records)
  <2>1. PICK n \in 0..Len(written) : hist' = CommittedCells \o SubSeq(written, 1, n)
    BY <1>3 DEF TornHistories
  <2>2. written \in Seq(Cells) BY EncodeType DEF StoreTypeOK
  <2> DEFINE x == SubSeq(written, 1, n)
  <2>3. x \in Seq(Cells)
    <3> HIDE DEF written
    <3> QED BY <2>2
  <2>4. hist' = Encode(ms) \o x BY <1>1, <2>1, CommittedCellsAre
  <2> HIDE DEF written, x
  <2>5. /\ Stored(ms, meta, hist')
        /\ hist' \in Seq(Cells)
        /\ \A m, seen : /\ m # Absent /\ meta # Absent /\ m.committed <= meta.committed
                        /\ Stored(seen, m, hist)
                        => Stored(seen, m, hist')
    BY <1>1, <2>3, <2>4, WriteBehind
  <2>6. StoreTypeOK' BY <2>5 DEF StoreTypeOK, StoreSteps
  <2>7. CallHolds' BY DEF CallHolds
  <2>8. ReaderHolds' BY <1>1, <2>5 DEF ReaderHolds, Between
  <2>9. Held(ms, storePc, meta, hist, call)' BY <2>5 DEF Held, Between
  <2> QED BY <2>6, <2>7, <2>8, <2>9
<1> QED BY <1>2, <1>3

LEMMA ReadMetaKeeps ==
  ASSUME Separated = {}, NEW ms, InvOf(ms), ReadMeta
  PROVE  InvOf(ms)'
<1> USE DEF ReadMeta, InvOf, sessionFiles
<1>1. CASE storePc \in Between
  <2>1. NoLoad.meta \in Metas /\ NoLoad.seen \in Snapshots BY DEF NoLoad, Metas, Snapshots, Empty
  <2>2. StoreTypeOK' BY <1>1, <2>1 DEF StoreTypeOK, NoLoad, Between
  <2>3. CallHolds' BY DEF CallHolds
  <2>4. ReaderHolds' BY <1>1 DEF ReaderHolds, Between, NoLoad
  <2>5. Held(ms, storePc, meta, hist, call)' OBVIOUS
  <2> QED BY <2>2, <2>3, <2>4, <2>5
<1>2. CASE storePc \notin Between
  <2>1. Load = [ok |-> TRUE, messages |-> ms, through |-> ThroughOf(meta)] BY <1>2, HeldFacts
  <2>2. Stored(ms, meta, hist) /\ ms \in Seq(Records) BY <1>2 DEF Held, Stored
  <2>3. meta \in Metadata /\ ThroughOf(meta) \in Nat BY DEF StoreTypeOK, Metas, Metadata, ThroughOf
  <2>4. reader' = [step |-> "reading", meta |-> meta, seen |-> Load] BY <1>2 DEF Between
  <2>5. Load \in Snapshots BY <2>1, <2>2, <2>3 DEF Snapshots
  <2>6. StoreTypeOK' BY <2>4, <2>5 DEF StoreTypeOK
  <2>7. CallHolds' BY DEF CallHolds
  <2>8. ReaderHolds'
    <3>1. reader'.meta = meta /\ reader'.seen = [ok |-> TRUE, messages |-> ms, through |-> ThroughOf(meta)]
      BY <2>1, <2>4
    <3>2. meta.committed <= meta.committed BY <2>3 DEF Metadata
    <3> QED BY <1>2, <2>2, <3>1, <3>2 DEF ReaderHolds
  <2>9. Held(ms, storePc, meta, hist, call)' OBVIOUS
  <2> QED BY <2>6, <2>7, <2>8, <2>9
<1> QED BY <1>1, <1>2

LEMMA ReadHistoryKeeps ==
  ASSUME NEW ms, InvOf(ms), ReadHistory
  PROVE  InvOf(ms)'
<1> USE DEF ReadHistory, InvOf, sessionFiles
<1>1. NoLoad.meta \in Metas /\ NoLoad.seen \in Snapshots BY DEF NoLoad, Metas, Snapshots, Empty
<1>2. StoreTypeOK' BY <1>1 DEF StoreTypeOK, NoLoad
<1>3. CallHolds' BY DEF CallHolds
<1>4. ReaderHolds' BY DEF ReaderHolds, NoLoad
<1>5. Held(ms, storePc, meta, hist, call)' OBVIOUS
<1> QED BY <1>2, <1>3, <1>4, <1>5
-----------------------------------------------------------------------------
LEMMA InitKeeps == StoreInit => InvOf(<< >>)
<1> SUFFICES ASSUME StoreInit PROVE InvOf(<< >>) OBVIOUS
<1> USE DEF StoreInit
<1>1. StoreTypeOK
  BY DEF StoreTypeOK, StoreSteps, Metas, Snapshots, NoCall, NoLoad, Empty
<1>2. CallHolds BY DEF CallHolds
<1>3. ReaderHolds BY DEF ReaderHolds, NoLoad
<1>4. Held(<< >>, storePc, meta, hist, call) BY DEF Held, Between, Stored
<1> QED BY <1>1, <1>2, <1>3, <1>4 DEF InvOf

LEMMA StutterKeeps ==
  ASSUME NEW ms, InvOf(ms), UNCHANGED storeVars
  PROVE  InvOf(ms)'
BY DEF InvOf, storeVars, StoreTypeOK, CallHolds, ReaderHolds, Held, Between, Stored

(* The inductive invariant, for any records that no separator tears and    *)
(* any interruption but one between the two files of a compaction or a     *)
(* deletion (store.py:289, store.py:314): at every step of every call the  *)
(* files hold a list of records, and a load beside the writer has the list *)
(* that its metadata committed.                                            *)
THEOREM InductiveInvariant ==
  ASSUME Separated = {}, Exposed \cap {"compact_meta", "delete_meta"} = {}
  PROVE  StoreSpec => []IInv
<1>1. StoreInit => IInv BY InitKeeps DEF IInv
<1>2. IInv /\ [StoreNext]_storeVars => IInv'
  <2> SUFFICES ASSUME IInv, [StoreNext]_storeVars PROVE IInv' OBVIOUS
  <2>0. Exposed \cap Between = {} BY DEF Between
  <2>1. PICK ms : InvOf(ms) BY DEF IInv
  <2>2. CASE \E b \in Batches : AppendCall(b) BY <2>1, <2>2, AppendCallKeeps DEF IInv
  <2>3. CASE AppendHist BY <2>1, <2>3, AppendHistKeeps DEF IInv
  <2>4. CASE AppendMeta
    <3>1. InvOf(ms \o call.records)' BY <2>1, <2>4, AppendMetaKeeps
    <3> QED BY <3>1 DEF IInv
  <2>5. CASE \E t \in 0..MaxRecords + 1, s \in Summaries : CompactCall(t, s)
    BY <2>1, <2>5, CompactCallKeeps DEF IInv
  <2>6. CASE CompactHist
    <3>1. InvOf(InsertAt(ms, call.at + 1, Head(call.records)))' BY <2>1, <2>6, CompactHistKeeps
    <3> QED BY <3>1 DEF IInv
  <2>7. CASE CompactMeta BY <2>1, <2>7, CompactMetaKeeps DEF IInv
  <2>8. CASE DeleteCall BY <2>1, <2>8, DeleteCallKeeps DEF IInv
  <2>9. CASE DeleteHist BY <2>1, <2>9, DeleteHistKeeps DEF IInv
  <2>10. CASE DeleteMeta BY <2>1, <2>10, DeleteMetaKeeps DEF IInv
  <2>11. CASE Return BY <2>1, <2>11, ReturnKeeps DEF IInv
  <2>12. CASE Interrupted BY <2>0, <2>1, <2>12, InterruptedKeeps DEF IInv
  <2>13. CASE ReadMeta BY <2>1, <2>13, ReadMetaKeeps DEF IInv
  <2>14. CASE ReadHistory BY <2>1, <2>14, ReadHistoryKeeps DEF IInv
  <2>15. CASE UNCHANGED storeVars BY <2>1, <2>15, StutterKeeps DEF IInv
  <2> QED BY <2>2, <2>3, <2>4, <2>5, <2>6, <2>7, <2>8, <2>9, <2>10, <2>11, <2>12, <2>13, <2>14, <2>15
          DEF StoreNext
<1> QED BY <1>1, <1>2, PTL DEF StoreSpec
(* SES-002: what the metadata commits is in the history, and between the   *)
(* calls the session can be loaded, whatever errors and crashes they met.  *)
THEOREM SessionsStaySafe ==
  ASSUME Separated = {}, Exposed \cap {"compact_meta", "delete_meta"} = {}
  PROVE  StoreSpec => []SessionsAreSafe
<1>1. IInv => SessionsAreSafe
  <2> SUFFICES ASSUME IInv PROVE SessionsAreSafe OBVIOUS
  <2>1. PICK ms : InvOf(ms) BY DEF IInv
  <2>2. Held(ms, storePc, meta, hist, call) /\ StoreTypeOK BY <2>1 DEF InvOf
  <2>3. WatermarkBacked
    <3> SUFFICES ASSUME meta # Absent, storePc # "delete_meta"
                 PROVE  hist # Absent /\ Len(hist) >= meta.committed
      BY DEF WatermarkBacked
    <3>1. meta \in Metadata BY <2>2 DEF StoreTypeOK, Metas
    <3>2. CASE storePc = "compact_meta"
      <4>1. ms \in Seq(Records) /\ hist = Encode(ms) /\ meta.committed <= Len(hist) BY <2>2, <3>2 DEF Held
      <4>2. hist # Absent /\ Len(hist) \in Nat BY <4>1, EncodeType
      <4> QED BY <3>1, <4>1, <4>2 DEF Metadata
    <3>3. CASE storePc \notin Between
      <4>1. Begins(hist, Encode(ms)) /\ meta.committed = Len(Encode(ms)) BY <2>2, <3>3 DEF Held, Stored
      <4>2. hist # Absent /\ Len(hist) \in Nat BY <4>1, FileIsThere
      <4> QED BY <3>1, <4>1, <4>2 DEF Begins, Metadata
    <3> QED BY <3>2, <3>3 DEF Between
  <2>4. SessionReadable BY <2>2, HeldFacts DEF SessionReadable, Between
  <2> QED BY <2>2, <2>3, <2>4 DEF SessionsAreSafe
<1> QED BY <1>1, InductiveInvariant, PTL

(* A load that overlaps appends and their crashes returns the session as   *)
(* it was when it read the metadata.                                       *)
THEOREM ReaderSeesCommit ==
  ASSUME Separated = {}, Exposed \cap {"compact_meta", "delete_meta"} = {}
  PROVE  StoreSpec => []ReaderSeesOneCommit
<1>1. IInv => ReaderSeesOneCommit
  <2> SUFFICES ASSUME IInv, reader.step = "reading"
               PROVE  Snapshot(reader.meta, hist).ok /\ Snapshot(reader.meta, hist) = reader.seen
    BY DEF ReaderSeesOneCommit
  <2>1. PICK seen : /\ Stored(seen, reader.meta, hist)
                    /\ reader.seen = [ok |-> TRUE, messages |-> seen, through |-> ThroughOf(reader.meta)]
    BY DEF IInv, InvOf, ReaderHolds
  <2>2. Snapshot(reader.meta, hist) = [ok |-> TRUE, messages |-> seen, through |-> ThroughOf(reader.meta)]
    BY <2>1, SnapshotIs
  <2> QED BY <2>1, <2>2
<1> QED BY <1>1, InductiveInvariant, PTL
-----------------------------------------------------------------------------
(* The files as the log of the contract. *)

LEMMA LogBefore ==
  ASSUME Separated = {}, NEW ms, Held(ms, storePc, meta, hist, call)
  PROVE  LogNow.messages = ms /\ LogNow.through = ThroughNow(storePc, meta, call)
BY HeldFacts

LEMMA LogAfter ==
  ASSUME Separated = {}, NEW ms, Held(ms, storePc', meta', hist', call')
  PROVE  LogNow'.messages = ms /\ LogNow'.through = ThroughNow(storePc', meta', call')
<1>1. LogNow' = LogIn(storePc', meta', hist', call') BY DEF LogNow, LogIn, Load
<1> QED BY <1>1, LogIs

(* A step that changes no call and commits nothing is a stutter. *)
LEMMA QuietStep ==
  ASSUME Separated = {}, NEW ms, Held(ms, storePc, meta, hist, call),
         Held(ms, storePc', meta', hist', call'),
         ThroughNow(storePc, meta, call) = ThroughNow(storePc', meta', call'),
         UNCHANGED <<call, told>>,
         (storePc' # "idle") = (storePc # "idle"),
         (storePc' \in {"compact_meta", "delete_meta", "return"}) = (storePc \in {"compact_meta", "delete_meta", "return"})
  PROVE  UNCHANGED Abstract!vars
<1>1. LogNow.messages = ms /\ LogNow.through = ThroughNow(storePc, meta, call) BY LogBefore
<1>2. LogNow'.messages = ms /\ LogNow'.through = ThroughNow(storePc', meta', call') BY LogAfter
<1> QED BY <1>1, <1>2 DEF Abstract!vars

LEMMA BeginStep ==
  ASSUME Separated = {}, NEW ms, Held(ms, storePc, meta, hist, call),
         Held(ms, storePc', meta', hist', call'),
         storePc = "idle", storePc' \in {"append_hist", "compact_hist", "delete_hist"},
         UNCHANGED <<sessionFiles, told>>,
         call'.op = "compact" => call'.at \in ThroughOf(meta)..Len(ms)
  PROVE  Abstract!Begin
<1>1. LogNow.messages = ms /\ LogNow.through = ThroughOf(meta) BY LogBefore DEF ThroughNow
<1>2. LogNow'.messages = ms /\ LogNow'.through = ThroughOf(meta) BY LogAfter DEF ThroughNow, sessionFiles
<1> QED BY <1>1, <1>2 DEF Abstract!Begin, Abstract!InRange

LEMMA EndStep ==
  ASSUME Separated = {}, NEW ms, Held(ms, storePc, meta, hist, call),
         Held(ms, storePc', meta', hist', call'),
         storePc \in StoreSteps \ Between, storePc' = "idle",
         UNCHANGED <<meta, call>>,
         told' \in {"crashed", IF storePc = "return" THEN "ok" ELSE "failed"}
  PROVE  Abstract!Return
<1>1. LogNow.messages = ms /\ LogNow.through = ThroughOf(meta) BY LogBefore DEF ThroughNow, Between
<1>2. LogNow'.messages = ms /\ LogNow'.through = ThroughOf(meta) BY LogAfter DEF ThroughNow
<1> QED BY <1>1, <1>2 DEF Abstract!Return, StoreSteps, Between

LEMMA AppendTakesEffect ==
  ASSUME Separated = {}, NEW ms, InvOf(ms), AppendMeta
  PROVE  Abstract!TakeEffect
<1> USE DEF AppendMeta
<1>1. Held(ms, storePc, meta, hist, call) /\ call.op = "append" BY DEF InvOf, CallHolds
<1>2. Held(ms \o call.records, storePc', meta', hist', call')
  <2>1. InvOf(ms \o call.records)' BY AppendMetaKeeps
  <2> QED BY <2>1 DEF InvOf
<1>3. meta' # Absent /\ meta'.through = Through
  <2>1. meta' \in Metadata
    <3>1. Stored(ms, meta, hist) BY <1>1 DEF Held, Between
    <3>2. Committed \in Nat /\ Through \in Nat BY DEF InvOf, StoreTypeOK, Metas, Metadata, Committed, Through
    <3>3. Len(Encode(call.records)) \in Nat BY EncodeType DEF InvOf, StoreTypeOK
    <3> QED BY <3>2, <3>3 DEF Metadata
  <2> QED BY <2>1, StoreAssumption
<1>4. LogNow.messages = ms /\ LogNow.through = ThroughOf(meta) BY <1>1, LogBefore DEF ThroughNow
<1>5. LogNow'.messages = ms \o call.records /\ LogNow'.through = ThroughOf(meta')
  BY <1>2, LogAfter DEF ThroughNow
<1>6. ThroughOf(meta') = ThroughOf(meta) BY <1>3 DEF ThroughOf, Through
<1> QED BY <1>1, <1>4, <1>5, <1>6 DEF Abstract!TakeEffect

LEMMA CompactTakesEffect ==
  ASSUME Separated = {}, NEW ms, InvOf(ms), CompactHist
  PROVE  Abstract!TakeEffect
<1> USE DEF CompactHist
<1> DEFINE new == InsertAt(ms, call.at + 1, Head(call.records))
<1>1. Held(ms, storePc, meta, hist, call) /\ call.op = "compact" BY DEF InvOf, CallHolds
<1>2. Held(new, storePc', meta', hist', call')
  <2>1. InvOf(InsertAt(ms, call.at + 1, Head(call.records)))' BY CompactHistKeeps
  <2> QED BY <2>1 DEF InvOf
<1>3. LogNow.messages = ms /\ LogNow.through = ThroughOf(meta) BY <1>1, LogBefore DEF ThroughNow
<1>4. LogNow'.messages = new /\ LogNow'.through = call.at
  <2> HIDE DEF new
  <2> QED BY <1>2, LogAfter DEF ThroughNow
<1>5. new = SubSeq(ms, 1, call.at) \o <<Head(call.records)>> \o SubSeq(ms, call.at + 1, Len(ms))
  <2>1. call.at \in Nat BY DEF InvOf, StoreTypeOK
  <2>2. (call.at + 1) - 1 = call.at BY <2>1
  <2> QED BY <2>2 DEF InsertAt
<1> HIDE DEF new
<1>6. Abstract!InsertAt(LogNow.messages, call.at, Head(call.records)) = new
  BY <1>3, <1>5 DEF Abstract!InsertAt
<1> QED BY <1>1, <1>3, <1>4, <1>6 DEF Abstract!TakeEffect

LEMMA DeleteTakesEffect ==
  ASSUME Separated = {}, NEW ms, InvOf(ms), DeleteHist
  PROVE  Abstract!TakeEffect
<1> USE DEF DeleteHist
<1>1. Held(ms, storePc, meta, hist, call) /\ call.op = "delete" BY DEF InvOf, CallHolds
<1>2. Held(<< >>, storePc', meta', hist', call')
  <2>1. InvOf(<< >>)' BY DeleteHistKeeps
  <2> QED BY <2>1 DEF InvOf
<1>3. LogNow'.messages = << >> /\ LogNow'.through = 0 BY <1>2, LogAfter DEF ThroughNow
<1> QED BY <1>1, <1>3 DEF Abstract!TakeEffect
LEMMA StepImplements ==
  ASSUME Separated = {}, Exposed \cap {"compact_meta", "delete_meta"} = {},
         NEW ms, InvOf(ms), [StoreNext]_storeVars
  PROVE  [Abstract!Next]_(Abstract!vars)
<1>0. Exposed \cap Between = {} BY DEF Between
<1>1. Held(ms, storePc, meta, hist, call) /\ StoreTypeOK BY DEF InvOf
<1>2. ASSUME NEW b \in Batches, AppendCall(b) PROVE Abstract!Begin
  <2>1. Held(ms, storePc', meta', hist', call') BY <1>2, AppendCallKeeps DEF InvOf
  <2> QED BY <1>1, <1>2, <2>1, BeginStep DEF AppendCall
<1>3. ASSUME AppendHist PROVE UNCHANGED Abstract!vars
  <2>1. Held(ms, storePc', meta', hist', call') BY <1>3, AppendHistKeeps DEF InvOf
  <2>2. ThroughNow(storePc, meta, call) = ThroughNow(storePc', meta', call') BY <1>3 DEF ThroughNow, AppendHist
  <2> QED BY <1>1, <1>3, <2>1, <2>2, QuietStep DEF AppendHist
<1>4. ASSUME AppendMeta PROVE Abstract!TakeEffect BY <1>4, AppendTakesEffect
<1>5. ASSUME NEW t \in 0..MaxRecords + 1, NEW s \in Summaries, CompactCall(t, s)
      PROVE  Abstract!Begin \/ Abstract!Refuse
  <2> USE <1>5 DEF CompactCall
  <2>1. Held(ms, storePc', meta', hist', call') BY CompactCallKeeps DEF InvOf
  <2>2. Load = [ok |-> TRUE, messages |-> ms, through |-> ThroughOf(meta)] BY <1>1, HeldFacts DEF Between
  <2>3. CASE t \in ThroughOf(meta)..Len(ms)
    <3>1. storePc' = "compact_hist" /\ UNCHANGED <<sessionFiles, told>> BY <2>2, <2>3
    <3> QED BY <1>1, <2>1, <2>3, <3>1, BeginStep
  <2>4. CASE t \notin ThroughOf(meta)..Len(ms)
    <3>1. told' = "refused" /\ storePc' = storePc BY <2>2, <2>4
    <3>2. LogNow.messages = ms /\ LogNow.through = ThroughOf(meta) BY <1>1, LogBefore DEF ThroughNow
    <3>3. LogNow'.messages = ms /\ LogNow'.through = ThroughOf(meta)
      BY <2>1, <3>1, LogAfter DEF ThroughNow, sessionFiles
    <3> QED BY <2>4, <3>1, <3>2, <3>3 DEF Abstract!Refuse, Abstract!InRange
  <2> QED BY <2>3, <2>4
<1>6. ASSUME CompactHist PROVE Abstract!TakeEffect BY <1>6, CompactTakesEffect
<1>7. ASSUME CompactMeta PROVE UNCHANGED Abstract!vars
  <2>1. Held(ms, storePc', meta', hist', call') BY <1>7, CompactMetaKeeps DEF InvOf
  <2>2. meta' # Absent /\ meta'.through = call.at
    <3>1. ms \in Seq(Records) /\ hist = Encode(ms) BY <1>1, <1>7 DEF Held, CompactMeta
    <3>2. Len(hist) \in Nat /\ call.at \in Nat BY <1>1, <3>1, EncodeType DEF StoreTypeOK
    <3>3. meta' \in Metadata BY <1>7, <3>2 DEF CompactMeta, Metadata
    <3> QED BY <1>7, <3>3, StoreAssumption DEF CompactMeta
  <2>3. ThroughNow(storePc, meta, call) = ThroughNow(storePc', meta', call')
    BY <1>7, <2>2 DEF ThroughNow, ThroughOf, CompactMeta
  <2> QED BY <1>1, <1>7, <2>1, <2>3, QuietStep DEF CompactMeta
<1>8. ASSUME DeleteCall PROVE Abstract!Begin
  <2>1. Held(ms, storePc', meta', hist', call') BY <1>8, DeleteCallKeeps DEF InvOf
  <2> QED BY <1>1, <1>8, <2>1, BeginStep DEF DeleteCall
<1>9. ASSUME DeleteHist PROVE Abstract!TakeEffect BY <1>9, DeleteTakesEffect
<1>10. ASSUME DeleteMeta PROVE UNCHANGED Abstract!vars
  <2>1. Held(ms, storePc', meta', hist', call') BY <1>10, DeleteMetaKeeps DEF InvOf
  <2>2. ThroughNow(storePc, meta, call) = ThroughNow(storePc', meta', call')
    BY <1>10 DEF ThroughNow, ThroughOf, DeleteMeta
  <2> QED BY <1>1, <1>10, <2>1, <2>2, QuietStep DEF DeleteMeta
<1>11. ASSUME Return PROVE Abstract!Return
  <2>1. Held(ms, storePc', meta', hist', call') BY <1>11, ReturnKeeps DEF InvOf
  <2> QED BY <1>1, <1>11, <2>1, EndStep DEF Return, StoreSteps, Between, sessionFiles
<1>12. ASSUME Interrupted PROVE Abstract!Return
  <2>1. Held(ms, storePc', meta', hist', call') BY <1>0, <1>12, InterruptedKeeps DEF InvOf
  <2>2. storePc \in StoreSteps \ Between BY <1>0, <1>12, StoreAssumption DEF Interrupted
  <2> QED BY <1>1, <1>12, <2>1, <2>2, EndStep DEF Interrupted
<1>13. ASSUME ReadMeta \/ ReadHistory \/ UNCHANGED storeVars PROVE UNCHANGED Abstract!vars
  <2>1. UNCHANGED <<storePc, meta, hist, call, told>>
    BY <1>13 DEF ReadMeta, ReadHistory, storeVars, sessionFiles
  <2>2. Held(ms, storePc', meta', hist', call') BY <1>1, <2>1
  <2> QED BY <1>1, <2>1, <2>2, QuietStep
<1> QED
  BY <1>2, <1>3, <1>4, <1>5, <1>6, <1>7, <1>8, <1>9, <1>10, <1>11, <1>12, <1>13
  DEF StoreNext, Abstract!Next

(* The two files implement the log of SES-002: a batch takes effect when   *)
(* its metadata is replaced, a compaction and a deletion when the history  *)
(* is, and a caller that is told "ok" or "failed" is told the truth.       *)
THEOREM Refinement ==
  ASSUME Separated = {}, Exposed \cap {"compact_meta", "delete_meta"} = {}
  PROVE  StoreSpec => ImplementsSessionLog
<1>1. StoreInit => Abstract!Init
  <2> SUFFICES ASSUME StoreInit PROVE Abstract!Init OBVIOUS
  <2>1. Held(<< >>, storePc, meta, hist, call) BY InitKeeps DEF InvOf
  <2>2. LogNow.messages = << >> /\ LogNow.through = ThroughNow(storePc, meta, call) BY <2>1, LogBefore
  <2> QED BY <2>2 DEF StoreInit, Abstract!Init, ThroughNow, ThroughOf
<1>2. IInv /\ [StoreNext]_storeVars => [Abstract!Next]_(Abstract!vars)
  BY StepImplements DEF IInv
<1> QED BY <1>1, <1>2, InductiveInvariant, PTL DEF StoreSpec, ImplementsSessionLog, Abstract!Spec
=============================================================================
