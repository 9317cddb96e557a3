--------------------------- MODULE MCFeishuStream ---------------------------
(* One turn whose answer is edited into a card, with one announced tool      *)
(* call, on a platform that never fails.                                     *)
EXTENDS FeishuStream

MCMessages ==
    [k \in 1..4 |-> [turn |-> "a", state |-> <<"started", "delta", "delta", "final">>[k]]]
MCHints == <<"a">>
=============================================================================
