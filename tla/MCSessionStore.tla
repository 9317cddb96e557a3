--------------------------- MODULE MCSessionStore ---------------------------
(* Batches of one and of two records, two summaries, records of different   *)
(* widths: a cut may fall inside a line, at its newline or between lines.   *)
EXTENDS SessionStore

CONSTANTS u1, a1, u2, s1, s2

MCRecords == {u1, a1, u2, s1, s2}
MCWidth == [m \in MCRecords |-> IF m \in {a1, s1} THEN 2 ELSE 1]
MCBatches == {<<u1, a1>>, <<u2>>}
MCSummaries == {s1, s2}
MCExposed == StoreSteps \ {"compact_meta", "delete_meta"}
=============================================================================
