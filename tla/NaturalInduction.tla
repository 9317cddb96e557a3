-------------------------- MODULE NaturalInduction --------------------------
(***************************************************************************)
(* Induction over the naturals and over sequences, and the existence of    *)
(* functions defined by recursion.  The library's theorems have an operator *)
(* for a parameter; the least element of a set of naturals does without.   *)
(***************************************************************************)
EXTENDS Naturals, Sequences, FiniteSetsExt, WellFoundedInduction, TLAPS

LEMMA LeastElement ==
  ASSUME NEW T \in SUBSET Nat, T # {}
  PROVE  \E x \in T : \A y \in T : x <= y
<1> DEFINE Below == {ss \in Nat \X Nat : ss[1] < ss[2]}
<1>1. IsWellFoundedOn(Below, Nat) BY NatLessThanWellFounded DEF OpToRel
<1>2. PICK x \in T : \A y \in T : <<y, x>> \notin Below
  <2> HIDE DEF Below
  <2> QED BY <1>1, WFMin
<1>3. \A y \in T : ~(y < x)
  <2>1. ASSUME NEW y \in T, y < x PROVE <<y, x>> \in Below BY <2>1
  <2> QED BY <1>2, <2>1
<1>4. \A m, n \in Nat : ~(m < n) => n <= m OBVIOUS
<1> QED BY <1>3, <1>4

LEMMA MinIsLeast ==
  ASSUME NEW T \in SUBSET Nat, T # {}
  PROVE  Min(T) \in T /\ \A y \in T : Min(T) <= y
BY LeastElement DEF Min

LEMMA Induction ==
  ASSUME NEW T \in SUBSET Nat, 0 \in T, \A n \in T : n + 1 \in T
  PROVE  \A n \in Nat : n \in T
<1>1. SUFFICES ASSUME Nat \ T # {} PROVE FALSE OBVIOUS
<1>2. PICK x \in Nat \ T : \A y \in Nat \ T : x <= y BY <1>1, LeastElement
<1>3. x # 0 OBVIOUS
<1>4. x - 1 \in T BY <1>2, <1>3
<1>5. x - 1 + 1 = x OBVIOUS
<1> QED BY <1>4, <1>5

LEMMA SameSequence ==
  ASSUME NEW R, NEW s \in Seq(R), NEW t \in Seq(R), Len(s) = Len(t),
         \A i \in 1..Len(s) : s[i] = t[i]
  PROVE  s = t
<1>1. s = [i \in 1..Len(s) |-> s[i]] /\ t = [i \in 1..Len(t) |-> t[i]] OBVIOUS
<1> QED BY <1>1

(* A property of sequences that every longer one inherits. *)
LEMMA SequenceInduction ==
  ASSUME NEW R, NEW T \in SUBSET Seq(R), << >> \in T,
         \A s \in T, x \in R : Append(s, x) \in T
  PROVE  \A s \in Seq(R) : s \in T
<1> DEFINE Long == {n \in Nat : \A s \in Seq(R) : Len(s) = n => s \in T}
<1>1. 0 \in Long
  <2>1. \A s \in Seq(R) : Len(s) = 0 => s = << >> OBVIOUS
  <2> QED BY <2>1
<1>2. ASSUME NEW n \in Long PROVE n + 1 \in Long
  <2>1. SUFFICES ASSUME NEW s \in Seq(R), Len(s) = n + 1 PROVE s \in T OBVIOUS
  <2> DEFINE front == [i \in 1..n |-> s[i]]
  <2>2. front \in Seq(R) /\ Len(front) = n /\ s[n + 1] \in R BY <2>1
  <2>3. s = Append(front, s[n + 1])
    <3>1. Append(front, s[n + 1]) \in Seq(R) /\ Len(Append(front, s[n + 1])) = n + 1 BY <2>2
    <3>2. ASSUME NEW i \in 1..n + 1 PROVE Append(front, s[n + 1])[i] = s[i]
      <4>1. CASE i = n + 1 BY <2>2, <4>1
      <4>2. CASE i # n + 1
        <5>1. i \in 1..n /\ i \in 1..Len(front) BY <2>2, <4>2
        <5> QED BY <2>2, <5>1
      <4> QED BY <4>1, <4>2
    <3> QED BY <2>1, <3>1, <3>2
  <2> HIDE DEF front
  <2>4. front \in T BY <2>2
  <2> QED BY <2>2, <2>3, <2>4
<1>3. \A n \in Nat : n \in Long
  <2>1. Long \in SUBSET Nat OBVIOUS
  <2> HIDE DEF Long
  <2> QED BY <1>1, <1>2, <2>1, Induction
<1> QED BY <1>3

(* A function defined by recursion along an interval exists. *)
Course(f, n, S, base, next) ==
  /\ f \in [0..n -> S]
  /\ f[0] = base
  /\ \A i \in 1..n : f[i] = next[<<i, f[i - 1]>>]

LEMMA Recursion ==
  ASSUME NEW n \in Nat, NEW S, NEW base \in S, NEW next \in [(1..n) \X S -> S]
  PROVE  \E f : Course(f, n, S, base, next)
<1> DEFINE Reached == {k \in Nat : k <= n => \E f : Course(f, k, S, base, next)}
<1>1. 0 \in Reached
  <2>1. Course([i \in 0..0 |-> base], 0, S, base, next) BY DEF Course
  <2> QED BY <2>1
<1>2. ASSUME NEW k \in Reached PROVE k + 1 \in Reached
  <2>1. SUFFICES ASSUME k + 1 <= n PROVE \E f : Course(f, k + 1, S, base, next) OBVIOUS
  <2>2. PICK f : Course(f, k, S, base, next) BY <2>1
  <2>3. f \in [0..k -> S] /\ f[0] = base /\ \A i \in 1..k : f[i] = next[<<i, f[i - 1]>>]
    BY <2>2 DEF Course
  <2> DEFINE g == [i \in 0..k + 1 |-> IF i = k + 1 THEN next[<<k + 1, f[k]>>] ELSE f[i]]
  <2>4. next[<<k + 1, f[k]>>] \in S BY <2>1, <2>3
  <2>5. g \in [0..k + 1 -> S] BY <2>3, <2>4
  <2>6. g[0] = base BY <2>3
  <2>7. ASSUME NEW i \in 1..k + 1 PROVE g[i] = next[<<i, g[i - 1]>>]
    <3>1. g[i - 1] = f[i - 1] OBVIOUS
    <3>2. CASE i = k + 1
      <4>1. i - 1 = k /\ g[i] = next[<<k + 1, f[k]>>] BY <3>2
      <4> QED BY <3>1, <3>2, <4>1
    <3>3. CASE i # k + 1 BY <2>3, <3>1, <3>3
    <3> QED BY <3>2, <3>3
  <2>8. Course(g, k + 1, S, base, next)
    <3> HIDE DEF g
    <3> QED BY <2>5, <2>6, <2>7 DEF Course
  <2> QED BY <2>8
<1>3. n \in Reached
  <2>1. Reached \in SUBSET Nat OBVIOUS
  <2> HIDE DEF Reached
  <2> QED BY <1>1, <1>2, <2>1, Induction
<1> QED BY <1>3
=============================================================================
