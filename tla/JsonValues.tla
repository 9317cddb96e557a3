------------------------------ MODULE JsonValues ------------------------------
(***************************************************************************)
(* What is read from a configuration document: JSON values, and rows that  *)
(* say which values an option takes, once as the code that reads it says   *)
(* and once as a JSON schema says.                                         *)
(*                                                                         *)
(* A value is its JSON type t with a number n, a text s or the set items   *)
(* of a list's or an object's values.                                      *)
(***************************************************************************)
EXTENDS Naturals, Integers, FiniteSets, TLC

Value(t) == [t |-> t, n |-> 0, s |-> "", items |-> {}]
Null == Value("null")
Flag(b) == [Value("bool") EXCEPT !.n = IF b THEN 1 ELSE 0]
Number(n) == [Value("int") EXCEPT !.n = n]
Real(n) == [Value("num") EXCEPT !.n = n]
Word(s) == [Value("str") EXCEPT !.s = s]
List(items) == [Value("list") EXCEPT !.items = items]
Object(items) == [Value("map") EXCEPT !.items = items]
NotText == "(not a text)"
Blank == {"", " "}
Huge == 1000000000

(* Rows.  low..high bound a number, of the texts taken (all when empty),   *)
(* not those refused; some: no empty list; null may be taken or not.       *)
Row(t) == [t |-> t, low |-> 1, high |-> Huge, of |-> {}, not |-> {}, some |-> FALSE, null |-> TRUE]
Positive == Row("int")
AtLeast(n) == [Positive EXCEPT !.low = n]
UpTo(n) == [Positive EXCEPT !.high = n]
Bool == Row("bool")
Str == Row("str")
Choice(of) == [Str EXCEPT !.of = of]
Text == [Str EXCEPT !.not = Blank]
Strs == Row("list")
Texts == [Strs EXCEPT !.not = Blank]
Names(of) == [Strs EXCEPT !.of = of]
Map == Row("map")
Strict(row) == [row EXCEPT !.null = FALSE]

TextOk(row, s) == (row.of = {} \/ s \in row.of) /\ s \notin row.not
Reads(row, v) ==
    \/ v.t = "null" /\ row.null
    \/ v.t = "bool" /\ row.t = "bool"
    \/ v.t = "int" /\ row.t \in {"int", "number"} /\ row.low <= v.n /\ v.n <= row.high
    \/ v.t = "num" /\ row.t = "number" /\ row.low <= v.n
    \/ v.t = "str" /\ row.t = "str" /\ TextOk(row, v.s)
    \/ /\ v.t \in {"list", "map"} /\ row.t = v.t /\ NotText \notin v.items
       /\ \A s \in v.items : TextOk(row, s)
       /\ row.some => v.items # {}
(* jsonschema: null is a type of its own, a number without a fraction is   *)
(* an integer, a text may be blank.                                        *)
SchemaTakes(row, v) ==
    /\ v.t # "null"
    /\ Reads(row, IF v.t = "num" /\ row.t = "int" THEN Number(v.n) ELSE v)
=============================================================================
