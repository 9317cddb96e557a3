----------------------------- MODULE MCCronExpr -----------------------------
(* A February of 29 days and a March; the clock is an hour ahead from the    *)
(* sixth day on, at two, to the ninth, when it is set back from two to one.  *)
(* Three expressions, asked around the second of these moments.              *)
EXTENDS CronExpr

MCMonths == <<[month |-> 2, days |-> 29], [month |-> 3, days |-> 31]>>
MCSummer == [from |-> 5 * 1440 + 120, to |-> 8 * 1440 + 60]

VARIABLE asked      \* the expression's fields and the moment, once they are picked
Item(body, from, to, step) == [body |-> body, from |-> from, to |-> to, step |-> step]
Every == {Item("*", 0, 0, 1)}
Sources ==
    [minute : {Every, {Item("*", 0, 0, 15)}, {Item("value", 30, 0, 1)}}, hour : {Every},
     day : {Every}, month : {Every}, weekday : {Every}]
Ask ==
    /\ asked = <<>>
    /\ \E s \in Sources, m \in (8 * 1440 - 60)..(8 * 1440 + 180) : asked' = <<s, m>>
Init == asked = <<>>
Next == Ask
Spec == Init /\ [][Next]_asked

(* The next moment of an expression comes strictly after the one asked     *)
(* about, by the instant and not by the clock on the wall (expr.py:30).    *)
NextMomentIsLater == asked # <<>> => NextIsLater(ParseExpr(asked[1]), asked[2])
=============================================================================
