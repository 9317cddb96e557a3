----------------------------- MODULE MCGateway ------------------------------
(* Conversation x: an input from the channel, delivered twice, and one or   *)
(* two inputs handed over directly; conversation y competes for the only    *)
(* lane.                                                                    *)
EXTENDS Gateway

CONSTANTS x1, x2, y1, d1, d2

MCInputs == {x1, x2, y1, d1, d2}
MCConversations == {"x", "y"}
MCConversationOf == [i \in Inputs |-> IF i = y1 THEN "y" ELSE "x"]
MCMessages == {"m", "n", "m1", "m2"}
MCMessageOf == [i \in Inputs |-> CASE i \in {x1, x2} -> "m" [] i = y1 -> "n"
                                   [] i = d1 -> "m1" [] i = d2 -> "m2"]
=============================================================================
