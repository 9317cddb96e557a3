---------------------------- MODULE SessionStore ----------------------------
(***************************************************************************)
(* builtins/session_jsonl/store.py: the two files of one session.          *)
(*                                                                         *)
(* A record is written as one line of Width cells and a newline; a cell    *)
(* stands for bytes that are lost or kept together.  A call of the store   *)
(* runs in a worker thread, one at a time per session (the session's slot  *)
(* in the kernel), and is a sequence of steps on the disk: the process may *)
(* be killed, or the operating system may report an error, at every step   *)
(* whose name is in Exposed.  load() is not serialised with the writer:    *)
(* `nm session show` and the instance view read without the slot, the      *)
(* metadata first and the history after it.                                *)
(***************************************************************************)
EXTENDS Naturals, Sequences, SequencesExt

CONSTANTS
  Records,    (* session messages; each is written at most once at a time  *)
  Width,      (* cells of a record's JSON text                             *)
  Separated,  (* records whose text has U+0085, U+2028 or U+2029 in cell 2 *)
  Batches,    (* the batches a turn appends                                *)
  Summaries,  (* the records that compaction inserts                       *)
  MaxRecords, (* bound: records in the session                             *)
  Exposed,    (* the steps at which a call may be cut short                *)
  Absent      (* no such file                                              *)

StoreSteps == {"append_hist", "append_meta", "compact_hist", "compact_meta",
          "delete_hist", "delete_meta", "return"}

Metadata == [committed : Nat, through : Nat]

ASSUME StoreAssumption ==
  /\ Width \in [Records -> Nat \ {0}]
  /\ Separated \subseteq {m \in Records : Width[m] > 1}
  /\ Batches \subseteq Seq(Records) \ {<< >>}
  /\ Summaries \subseteq Records
  /\ MaxRecords \in Nat
  /\ Exposed \subseteq StoreSteps
  /\ Absent \notin Records /\ Absent \notin Metadata
  /\ Absent \notin Seq((Records \cup {Absent}) \X Nat)

VARIABLES
  hist,    (* cells of <storage_id>.jsonl, or Absent                       *)
  meta,    (* content of <storage_id>.meta.json, or Absent                 *)
  storePc,      (* the writer's next step                                       *)
  call,    (* the call it is in                                            *)
  told,  (* what the last call returned or raised                        *)
  reader   (* a load() that runs beside the writer                         *)

sessionFiles == <<hist, meta>>
storeVars == <<hist, meta, storePc, call, told, reader>>

NewLine == <<Absent, 0>>
Zero    == <<Absent, 1>>
Cells   == (Records \cup {Absent}) \X Nat

Body(m) == [i \in 1..Width[m] |-> <<m, i>>]

(* encode_record() of every record, one line each. *)
Encode(ms) == FlattenSeq([i \in DOMAIN ms |-> Append(Body(ms[i]), NewLine)])

(* str.splitlines() breaks at more than the newline. *)
BreaksLine(c) == c = NewLine \/ (c[1] \in Separated /\ c[2] = 2)

(* F(x); x is evaluated once (TLC evaluates a LET in a step at each use).  *)
Once(x, F(_)) == CHOOSE y \in {F(z) : z \in {x}} : TRUE

(* What was read so far: the lines that are closed, blank ones left out,   *)
(* and the one that is still open.                                         *)
Closed(read) ==
  IF read.open = << >> THEN read.lines ELSE Append(read.lines, read.open)
ReadCell(read, c) ==
  IF BreaksLine(c) THEN [lines |-> Closed(read), open |-> << >>]
  ELSE [read EXCEPT !.open = Append(@, c)]
Reading(text) ==
  LET upTo[n \in 0..Len(text)] ==
        IF n = 0 THEN [lines |-> << >>, open |-> << >>]
        ELSE Once(upTo[n - 1], LAMBDA read : ReadCell(read, text[n]))
  IN upTo[Len(text)]
Lines(text) == Once(Reading(text), Closed)

Corrupt == [ok |-> FALSE, messages |-> << >>, through |-> 0]
Empty   == [ok |-> TRUE, messages |-> << >>, through |-> 0]

(* _read_messages and the check of the watermark: what load() makes of a   *)
(* metadata file and a history file.                                       *)
Parsed(m, lines) ==
  IF \/ \E i \in DOMAIN lines : \A r \in Records : lines[i] # Body(r)
     \/ m.through > Len(lines)
  THEN Corrupt
  ELSE [ok |-> TRUE, messages |-> [i \in DOMAIN lines |-> lines[i][1][1]],
        through |-> m.through]
Snapshot(m, h) ==
  LET raw == IF h = Absent THEN << >> ELSE h
  IN CASE m = Absent -> Empty
       [] m # Absent /\ Len(raw) < m.committed -> Corrupt
       [] OTHER -> Once(Lines(SubSeq(raw, 1, m.committed)), LAMBDA lines : Parsed(m, lines))

Load == Snapshot(meta, hist)
-----------------------------------------------------------------------------
NoCall == [op |-> "none", records |-> << >>, at |-> 0]
Committed == IF meta = Absent THEN 0 ELSE meta.committed
Through   == IF meta = Absent THEN 0 ELSE meta.through

NoLoad == [step |-> "idle", meta |-> Absent, seen |-> Empty]

(* A load between its reads is overtaken when the history is replaced.     *)
Overtaken == IF reader.step = "reading" THEN [NoLoad EXCEPT !.step = "overtaken"] ELSE reader

StoreInit ==
  /\ hist = Absent
  /\ meta = Absent
  /\ storePc = "idle"
  /\ call = NoCall
  /\ told = "none"
  /\ reader = NoLoad

(* The bytes that survive truncate() at the committed length; the file is  *)
(* extended with zeros when it is shorter.                                 *)
CommittedCells ==
  LET raw == IF hist = Absent THEN << >> ELSE hist
  IN [i \in 1..Committed |-> IF i <= Len(raw) THEN raw[i] ELSE Zero]

(* append() up to its first write. *)
AppendCall(b) ==
  /\ storePc = "idle"
  /\ Len(Load.messages) + Len(b) <= MaxRecords
  /\ ToSet(b) \cap ToSet(Load.messages) = {}
  /\ storePc' = "append_hist"
  /\ call' = [op |-> "append", records |-> b, at |-> 0]
  /\ UNCHANGED <<sessionFiles, told, reader>>

(* Mutant: the batch is written at the end of the file. *)
AppendHistAtEnd ==
  /\ storePc = "append_hist"
  /\ hist' = (IF hist = Absent THEN << >> ELSE hist) \o Encode(call.records)
  /\ storePc' = "append_meta"
  /\ UNCHANGED <<meta, call, told, reader>>

(* Mutant: the file is opened for writing from its start. *)
AppendHistFromStart ==
  /\ storePc = "append_hist"
  /\ hist' = Encode(call.records)
  /\ storePc' = "append_meta"
  /\ UNCHANGED <<meta, call, told, reader>>

(* The history is cut to its committed length, then the batch is written. *)
AppendHist ==
  /\ storePc = "append_hist"
  /\ hist' = CommittedCells \o Encode(call.records)
  /\ storePc' = "append_meta"
  /\ UNCHANGED <<meta, call, told, reader>>

(* Mutant: the length of the batch is subtracted. *)
AppendMetaMinus ==
  /\ storePc = "append_meta"
  /\ meta' = [committed |-> Committed - Len(Encode(call.records)), through |-> Through]
  /\ storePc' = "return"
  /\ UNCHANGED <<hist, call, told, reader>>

(* The metadata is replaced: the batch is committed. *)
AppendMeta ==
  /\ storePc = "append_meta"
  /\ meta' = [committed |-> Committed + Len(Encode(call.records)), through |-> Through]
  /\ storePc' = "return"
  /\ UNCHANGED <<hist, call, told, reader>>

(* compact() up to its first write: it loads the session and refuses a     *)
(* watermark that is out of range or moves back.                           *)
CompactCall(t, s) ==
  /\ storePc = "idle"
  /\ Len(Load.messages) < MaxRecords
  /\ s \notin ToSet(Load.messages)
  /\ call' = [op |-> "compact", records |-> <<s>>, at |-> t]
  /\ IF Load.ok /\ t \in Load.through..Len(Load.messages)
     THEN storePc' = "compact_hist" /\ UNCHANGED told
     ELSE told' = "refused" /\ UNCHANGED storePc
  /\ UNCHANGED <<sessionFiles, reader>>

(* The history is replaced by one with the summary at the watermark. *)
CompactHist ==
  /\ storePc = "compact_hist"
  /\ hist' = Encode(InsertAt(Load.messages, call.at + 1, Head(call.records)))
  /\ storePc' = "compact_meta"
  /\ reader' = Overtaken
  /\ UNCHANGED <<meta, call, told>>

(* Mutant: the committed length is left as it was. *)
CompactMetaKeepingLength ==
  /\ storePc = "compact_meta"
  /\ meta' = [committed |-> Committed, through |-> call.at]
  /\ storePc' = "return"
  /\ UNCHANGED <<hist, call, told, reader>>

CompactMeta ==
  /\ storePc = "compact_meta"
  /\ meta' = [committed |-> Len(hist), through |-> call.at]
  /\ storePc' = "return"
  /\ UNCHANGED <<hist, call, told, reader>>

DeleteCall ==
  /\ storePc = "idle"
  /\ storePc' = "delete_hist"
  /\ call' = [op |-> "delete", records |-> << >>, at |-> 0]
  /\ UNCHANGED <<sessionFiles, told, reader>>

DeleteHist ==
  /\ storePc = "delete_hist"
  /\ hist' = Absent
  /\ storePc' = "delete_meta"
  /\ reader' = Overtaken
  /\ UNCHANGED <<meta, call, told>>

DeleteMeta ==
  /\ storePc = "delete_meta"
  /\ meta' = Absent
  /\ storePc' = "return"
  /\ UNCHANGED <<hist, call, told, reader>>

Return ==
  /\ storePc = "return"
  /\ storePc' = "idle"
  /\ told' = "ok"
  /\ UNCHANGED <<sessionFiles, call, reader>>

(* What a write of the batch leaves when it is cut: the file before it, or *)
(* any part of the batch after the committed bytes.                        *)
TornHistories ==
  {hist} \cup {CommittedCells \o SubSeq(Encode(call.records), 1, n) :
                 n \in 0..Len(Encode(call.records))}

(* Mutant: an error of the write is swallowed and the call goes on. *)
InterruptedIgnored ==
  /\ storePc \in Exposed
  /\ hist' \in IF storePc = "append_hist" THEN TornHistories ELSE {hist}
  /\ storePc' = IF storePc = "append_hist" THEN "append_meta" ELSE "idle"
  /\ told' \in IF storePc = "return" THEN {"crashed"} ELSE {"crashed", "failed"}
  /\ UNCHANGED <<meta, call, reader>>

(* The process is killed, or an OSError ends the call.  The rewrites go    *)
(* through a temporary file and os.replace(), so only the batch is torn.   *)
Interrupted ==
  /\ storePc \in Exposed
  /\ hist' \in IF storePc = "append_hist" THEN TornHistories ELSE {hist}
  /\ storePc' = "idle"
  /\ told' \in IF storePc = "return" THEN {"crashed"} ELSE {"crashed", "failed"}
  /\ UNCHANGED <<meta, call, reader>>

(* load(), first read; a session without metadata is empty at once. *)
ReadMeta ==
  /\ reader.step = "idle"
  /\ meta # Absent
  /\ reader' = IF storePc \in {"compact_meta", "delete_meta"}
               THEN [NoLoad EXCEPT !.step = "overtaken"]
               ELSE [step |-> "reading", meta |-> meta, seen |-> Load]
  /\ UNCHANGED <<sessionFiles, storePc, call, told>>

(* load(), second read: it returns Snapshot(reader.meta, hist). *)
ReadHistory ==
  /\ reader.step # "idle"
  /\ reader' = NoLoad
  /\ UNCHANGED <<sessionFiles, storePc, call, told>>

StoreNext ==
  \/ \E b \in Batches : AppendCall(b)
  \/ AppendHist \/ AppendMeta
  \/ \E t \in 0..MaxRecords + 1, s \in Summaries : CompactCall(t, s)
  \/ CompactHist \/ CompactMeta
  \/ DeleteCall \/ DeleteHist \/ DeleteMeta
  \/ Return \/ Interrupted
  \/ ReadMeta \/ ReadHistory

StoreSpec == StoreInit /\ [][StoreNext]_storeVars
-----------------------------------------------------------------------------
Snapshots == [ok : BOOLEAN, messages : Seq(Records), through : Nat]
Metas == Metadata \cup {Absent}

StoreTypeOK ==
  /\ hist = Absent \/ hist \in Seq(Cells)
  /\ meta \in Metas
  /\ storePc \in StoreSteps \cup {"idle"}
  /\ call \in [op : {"none", "append", "compact", "delete"}, records : Seq(Records), at : Nat]
  /\ told \in {"none", "ok", "refused", "failed", "crashed"}
  /\ reader \in [step : {"idle", "reading", "overtaken"}, meta : Metas, seen : Snapshots]

(* The history is never shorter than the committed length, so that a load  *)
(* takes a short file for outside damage (store.py:201) with reason.       *)
WatermarkBacked ==
  meta # Absent /\ storePc # "delete_meta" => hist # Absent /\ Len(hist) >= meta.committed

(* Between calls the session can be loaded, whatever errors and crashes    *)
(* the calls before met.                                                   *)
SessionReadable == storePc = "idle" => Load.ok

(* SES-002: the bytes that the metadata commits are there, and between the *)
(* calls of the store the session can be loaded.                           *)
SessionsAreSafe == StoreTypeOK /\ WatermarkBacked /\ SessionReadable

(* A load that overlaps appends, and their crashes, returns the session as *)
(* it was when the metadata was read: a part of a batch is never seen.     *)
(* (A load that overlaps a compaction or a deletion may not.)              *)
ReaderSeesOneCommit ==
  reader.step = "reading" =>
    LET got == Snapshot(reader.meta, hist) IN got.ok /\ got = reader.seen

(* The files implement the abstract log: a batch takes effect when its     *)
(* metadata is replaced, a compaction and a deletion when the history is.  *)
LogNow ==
  CASE storePc = "compact_meta" -> Snapshot([committed |-> Len(hist), through |-> call.at], hist)
    [] storePc = "delete_meta" -> Empty
    [] OTHER -> Load

Abstract == INSTANCE SessionLog WITH
  log <- LogNow.messages, through <- LogNow.through, busy <- storePc # "idle", answer <- told,
  applied <- storePc \in {"compact_meta", "delete_meta", "return"}

ImplementsSessionLog == Abstract!Spec

(* "A write is ordered and atomic" (contracts/protocols.py:314): a         *)
(* compaction that fails or crashes leaves a session that can be loaded.   *)
InterruptedCompactionHarmless ==
  storePc = "idle" /\ call.op = "compact" /\ told \in {"failed", "crashed"} => Load.ok

(* "One record per line cannot be broken by a message's content"           *)
(* (codec.py:235): what was appended with success can be loaded.           *)
ContentNeverBreaksLines ==
  storePc = "idle" /\ call.op = "append" /\ told = "ok" => Load.ok
=============================================================================
