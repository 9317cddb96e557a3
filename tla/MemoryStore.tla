----------------------------- MODULE MemoryStore -----------------------------
(***************************************************************************)
(* The memory plugin's store (store.py, record.py) as its tools, command   *)
(* and context provider use it (tools.py, commands.py, provider.py): one   *)
(* partition, a JSONL file whose valid length is the watermark of a meta   *)
(* file.  The calls of different sessions run in threads side by side;     *)
(* there is no lock.  The partition is the agent's, which every session    *)
(* shares (partition.py).                                                  *)
(*                                                                         *)
(* A line is a few units long, so that a watermark can fall inside one.    *)
(***************************************************************************)
EXTENDS Naturals, Sequences

CONSTANTS
    Callers,        \* sessions at work, each in a turn's tool or in a command
    Operators,      \* the callers whose sender may delete shared memories
    MaxAdds,        \* bound of the model: records written
    MaxOps,         \* bound of the model: calls
    MaxMemoryCrashes    \* bound of the model

VARIABLES
    file,           \* the units of the partition's .jsonl
    meta,           \* [committed, next]: the watermark and the next sequence
    op,             \* caller -> where its call is, with the meta it read
    answer,         \* caller -> what its last recall found
    added, ops, crashes,
    acked,          \* history: records whose remember() returned and no forget() did
    doubt,          \* history: records whose remember() or forget() broke off
    overlap,        \* history: two calls that write ran side by side
    crossed,        \* history: the recalls a forget() rewrote the file under
    halved          \* history: a forget() broke off between the file and its meta
memoryVars == <<file, meta, op, answer, added, ops, crashes, acked, doubt, overlap, crossed, halved>>
memoryBounds == <<added, ops, crashes>>

Unreadable == [ok |-> FALSE, got |-> {}]
Idle == [at |-> "idle", meta |-> [committed |-> 0, next |-> 0], rec |-> 0, seq |-> 0, text |-> <<>>]
MemoryInit ==
    /\ file = <<>> /\ meta = [committed |-> 0, next |-> 0]
    /\ op = [c \in Callers |-> Idle] /\ answer = [c \in Callers |-> Unreadable]
    /\ added = 0 /\ ops = 0 /\ crashes = 0
    /\ acked = {} /\ doubt = {} /\ overlap = FALSE /\ crossed = {} /\ halved = FALSE

(* A line: content r under sequence s; the contents differ in length.      *)
Size(r) == 1 + (r % 2)
EncodeRecord(r, s) == [k \in 1..Size(r) |-> [rec |-> r, seq |-> s, part |-> k, of |-> Size(r)]]
Nul == [rec |-> 0, seq |-> 0, part |-> 1, of |-> 2]     \* a hole truncate() left
Whole(u) ==     \* every line of it decodes
    \A i \in DOMAIN u :
        /\ u[i].part = 1 \/ (i > 1 /\ u[i - 1] = [u[i] EXCEPT !.part = @ - 1])
        /\ u[i].part = u[i].of \/ (i < Len(u) /\ u[i + 1] = [u[i] EXCEPT !.part = @ + 1])
(* Mutant: the watermark is not looked at when reading. *)
CommittedToTheEnd(m) == file
Committed(m) == SubSeq(file, 1, IF m.committed <= Len(file) THEN m.committed ELSE Len(file))
Readable(m) == m.committed <= Len(file) /\ Whole(Committed(m))
Records(u) == {[rec |-> u[i].rec, seq |-> u[i].seq] : i \in DOMAIN u}

Without(u, s) ==    \* the lines of all records but one
    LET kept[i \in 0..Len(u)] ==
            IF i = 0 THEN <<>>
            ELSE IF u[i].seq = s THEN kept[i - 1] ELSE Append(kept[i - 1], u[i])
    IN  kept[Len(u)]

Writers == {c \in Callers : op[c].at \notin {"idle", "recall"}}
Begin(c, at, rec, seq) ==
    /\ op[c].at = "idle" /\ ops < MaxOps /\ ops' = ops + 1
    /\ op' = [op EXCEPT ![c] = [Idle EXCEPT !.at = at, !.meta = meta, !.rec = rec, !.seq = seq]]
    /\ overlap' = (overlap \/ (at # "recall" /\ Writers # {}))
    /\ crossed' = IF \E d \in Callers : op[d].at = "recommit" THEN crossed \union {c} ELSE crossed \ {c}
    /\ UNCHANGED <<file, meta, answer, crashes, acked, doubt, halved>>
Goto(c, at) == op' = [op EXCEPT ![c].at = at]
Done(c) == op' = [op EXCEPT ![c] = Idle]
---------------------------------------------------------------------------
(* memory.remember and /memory add: truncate to the watermark, append,     *)
(* sync, then the meta.                                                    *)

ToolAdd(c) ==
    /\ added < MaxAdds /\ added' = added + 1
    /\ Begin(c, "truncate", added + 1, meta.next)
CommandAdd(c) == ToolAdd(c)      \* into the agent's partition, always
(* Mutant: a torn line is left where it is. *)
TruncateNever(c) ==
    /\ op[c].at = "truncate"
    /\ Goto(c, "append")
    /\ UNCHANGED <<file, meta, answer, memoryBounds, acked, doubt, overlap, crossed, halved>>
Truncate(c) ==  \* truncate() beyond the end fills with zeros
    /\ op[c].at = "truncate"
    /\ LET n == op[c].meta.committed
       IN  file' = IF n <= Len(file) THEN SubSeq(file, 1, n)
                   ELSE file \o [i \in 1..(n - Len(file)) |-> Nul]
    /\ Goto(c, "append")
    /\ UNCHANGED <<meta, answer, memoryBounds, acked, doubt, overlap, crossed, halved>>
AppendLine(c) ==    \* opened for append: at the end, wherever that is by now
    /\ op[c].at = "append"
    /\ file' = file \o EncodeRecord(op[c].rec, op[c].seq)
    /\ Goto(c, "commit")
    /\ UNCHANGED <<meta, answer, memoryBounds, acked, doubt, overlap, crossed, halved>>
Commit(c) ==
    /\ op[c].at = "commit"
    /\ meta' = [committed |-> op[c].meta.committed + Size(op[c].rec), next |-> op[c].seq + 1]
    /\ acked' = acked \union {[rec |-> op[c].rec, seq |-> op[c].seq]}
    /\ Done(c)
    /\ UNCHANGED <<file, answer, memoryBounds, doubt, overlap, crossed, halved>>

(* memory.forget: rewrite the file without the record, then the meta.      *)
Forget(c) ==
    /\ \E r \in acked : Begin(c, "scan", r.rec, r.seq)
    /\ UNCHANGED added
CommandForget(c) == c \in Operators /\ Forget(c)
Scan(c) ==      \* nothing to do, unreadable, or go on
    /\ op[c].at = "scan"
    /\ LET kept == Without(Committed(op[c].meta), op[c].seq)
       IN  IF ~Readable(op[c].meta) \/ kept = Committed(op[c].meta)
           THEN Done(c)
           ELSE op' = [op EXCEPT ![c].at = "rewrite", ![c].text = kept]
    /\ UNCHANGED <<file, meta, answer, memoryBounds, acked, doubt, overlap, crossed, halved>>
Rewrite(c) ==
    /\ op[c].at = "rewrite"
    /\ file' = op[c].text
    /\ crossed' = crossed \union {d \in Callers : op[d].at = "recall"}
    /\ Goto(c, "recommit")
    /\ UNCHANGED <<meta, answer, memoryBounds, acked, doubt, overlap, halved>>
Recommit(c) ==
    /\ op[c].at = "recommit"
    /\ meta' = [committed |-> Len(op[c].text), next |-> op[c].meta.next]
    /\ acked' = {r \in acked : r.seq # op[c].seq}
    /\ doubt' = {r \in doubt : r.seq # op[c].seq}
    /\ Done(c)
    /\ UNCHANGED <<file, answer, memoryBounds, overlap, crossed, halved>>

(* memory.recall, /memory list and every turn's context: meta, then file.  *)
Recall(c) == Begin(c, "recall", 0, 0) /\ UNCHANGED added
CommandList(c) == Recall(c)
Provide(c) == Recall(c)         \* auto_recall, for the last thing the user said
LoadRecords(c) ==
    /\ op[c].at = "recall"
    /\ answer' = [answer EXCEPT ![c] = IF Readable(op[c].meta)
                                       THEN [ok |-> TRUE, got |-> Records(Committed(op[c].meta))]
                                       ELSE Unreadable]
    /\ Done(c)
    /\ UNCHANGED <<file, meta, memoryBounds, acked, doubt, overlap, crossed, halved>>

Mishap(c) ==    \* what an unfinished call leaves open
    [rec |-> op[c].rec, seq |-> op[c].seq]
WriteFails(c) ==      \* OSError: the call is answered with an error; a write may be torn
    /\ c \in Writers \ {d \in Callers : op[d].at = "scan"}
    /\ file' \in {file} \union (IF op[c].at = "append"
                                THEN {file \o SubSeq(EncodeRecord(op[c].rec, op[c].seq), 1, 1)} ELSE {})
    /\ doubt' = doubt \union {Mishap(c)}
    /\ halved' = (halved \/ op[c].at = "recommit")
    /\ Done(c)
    /\ UNCHANGED <<meta, answer, memoryBounds, acked, overlap, crossed>>
MemoryCrash ==
    /\ crashes < MaxMemoryCrashes /\ crashes' = crashes + 1
    /\ op' = [c \in Callers |-> Idle]
    /\ doubt' = doubt \union {Mishap(c) : c \in Writers}
    /\ halved' = (halved \/ \E c \in Callers : op[c].at = "recommit")
    /\ UNCHANGED <<file, meta, answer, added, ops, acked, overlap, crossed>>

MemoryNext ==
    \/ \E c \in Callers : \/ ToolAdd(c) \/ CommandAdd(c) \/ Truncate(c) \/ AppendLine(c) \/ Commit(c)
                         \/ Forget(c) \/ CommandForget(c) \/ Scan(c) \/ Rewrite(c) \/ Recommit(c)
                         \/ Recall(c) \/ CommandList(c) \/ Provide(c) \/ LoadRecords(c) \/ WriteFails(c)
    \/ MemoryCrash
MemorySpec == MemoryInit /\ [][MemoryNext]_memoryVars

---------------------------------------------------------------------------
(* Properties                                                              *)

(* Calls that follow each other keep what was remembered, whole and under  *)
(* its own identifier, through failed writes and crashes at every step; a  *)
(* record whose call broke off is wholly there or not at all.  Not covered *)
(* are calls of two sessions at once and a forget cut off half-way.        *)
Visible == Records(Committed(meta))
MemoryIntact ==
    ~overlap /\ ~halved /\ (\A c \in Callers : op[c].at # "recommit") =>
        /\ Readable(meta)
        /\ acked \ doubt \subseteq Visible /\ Visible \subseteq acked \union doubt
        /\ \A r, s \in Visible : r.seq = s.seq => r = s

(* A recall beside a remember() reads the partition as it was when it      *)
(* started, and whole; only a forget() that rewrites the file under it can *)
(* make it report a corrupt partition.                                     *)
RecallIsWhole ==
    [][\A c \in Callers :
        op[c].at = "recall" /\ op'[c].at = "idle" /\ crashes' = crashes
            /\ ~overlap /\ ~halved /\ c \notin crossed =>
          /\ answer'[c].ok
          /\ {r \in acked \ doubt : r.seq < op[c].meta.next} \subseteq answer'[c].got
          /\ answer'[c].got \subseteq acked \union doubt]_memoryVars
=============================================================================
