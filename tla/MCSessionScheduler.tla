------------------------ MODULE MCSessionScheduler --------------------------
(* Two sessions.  Four submissions contend for the first: one runs, two     *)
(* wait (QueueMaxSize), one is refused, and a merged batch holds up to      *)
(* three; one submission of the second session interleaves with them.       *)
EXTENDS SessionScheduler

CONSTANTS a1, a2, a3, a4, b1

MCTickets == {a1, a2, a3, a4, b1}
MCKeys == {"a", "b"}
MCKeyOf == [t \in MCTickets |-> IF t = b1 THEN "b" ELSE "a"]
=============================================================================
