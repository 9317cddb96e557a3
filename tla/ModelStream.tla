---------------------------- MODULE ModelStream ----------------------------
(***************************************************************************)
(* One streamed model request, from the server's events to the response    *)
(* the engine gets: the provider's reading loop (provider.py of            *)
(* model_openai and of the anthropic plugin), the stream decoders (wire.py *)
(* and decode.py), the classification of failures (faults.py) and the      *)
(* folding of the chunks (kernel/turn/folding.py).  The one-shot decoding  *)
(* of the same message (decode_response) is the specification the stream   *)
(* is compared with.                                                       *)
(*                                                                         *)
(* The server has a message in mind: blocks of text, of thinking and tool  *)
(* calls, each sent in pieces; the pieces of different blocks come in any  *)
(* order between each other, and only the index says where one belongs.    *)
(* The arguments of a call parse when they are all the pieces of one call, *)
(* in order, or none: an empty text stands for no arguments.               *)
(***************************************************************************)
EXTENDS Naturals, Sequences, FiniteSets, SequencesExt

CONSTANTS
    Dialects,       \* subset of {"openai", "anthropic"}
    Messages        \* messages the server may have in mind

VARIABLES
    dialect, msg,
    at,             \* "new", "reading", "ended" or "failed"
    sent,           \* the events of each block read so far
    dec,            \* the StreamDecoder
    out,            \* chunks yielded to the folder
    cut,            \* the connection was closed cleanly before the last event
    cancelled,      \* the turn's cancel signal
    result          \* what complete() of the folder, or the exception, gave
vars == <<dialect, msg, at, sent, dec, out, cut, cancelled, result>>

NewDecoder == [calls |-> <<>>, thinking |-> <<>>, stop |-> "none", usage |-> FALSE]
Pending == [ok |-> FALSE, why |-> "pending"]
Init ==
    /\ dialect \in Dialects /\ msg \in Messages
    /\ dialect = "openai" => \A i \in DOMAIN msg.blocks : msg.blocks[i].type # "thinking"
    /\ at = "new" /\ sent = [i \in DOMAIN msg.blocks |-> 0] /\ dec = NewDecoder /\ out = <<>>
    /\ cut = FALSE /\ cancelled = FALSE /\ result = Pending

(* The pieces of a block.  Chat Completions numbers the calls, Messages    *)
(* the blocks; a call, and in Messages every block, is opened first.       *)
Pieces(i) == [n \in 1..msg.blocks[i].parts |-> [of |-> i, n |-> n]]
Index(i) ==
    IF dialect = "anthropic" THEN i ELSE Cardinality({j \in 1..i : msg.blocks[j].type = "call"})
Opened(i) == dialect = "anthropic" \/ msg.blocks[i].type = "call"
Due(i) == sent[i] < msg.blocks[i].parts + (IF Opened(i) THEN 1 ELSE 0)

(* StreamDecoder.push: text goes out at once, the rest is kept under its   *)
(* index.  A call's first piece carries its identifier.                    *)
Chunk(kind, x) == [kind |-> kind, x |-> x]
Started(d, i) ==
    LET b == msg.blocks[i]
    IN  CASE b.type = "call" -> [d EXCEPT !.calls = (Index(i) :> [id |-> b.id, args |-> <<>>]) @@ @]
          [] b.type = "thinking" -> [d EXCEPT !.thinking = (Index(i) :> <<>>) @@ @]
          [] OTHER -> d
(* Mutant: a piece belongs to the last call that is open. *)
AbsorbedByLast(d, i, piece) ==
    IF msg.blocks[i].type = "call"
    THEN [d EXCEPT !.calls[Max(DOMAIN d.calls)].args = Append(@, piece)]
    ELSE IF msg.blocks[i].type = "thinking" THEN [d EXCEPT !.thinking[Index(i)] = Append(@, piece)] ELSE d
Absorbed(d, i, piece) ==
    CASE msg.blocks[i].type = "call" -> [d EXCEPT !.calls[Index(i)].args = Append(@, piece)]
      [] msg.blocks[i].type = "thinking" -> [d EXCEPT !.thinking[Index(i)] = Append(@, piece)]
      [] OTHER -> d
Shown(i, piece) ==
    CASE msg.blocks[i].type = "text" -> <<Chunk("text", piece)>>
      [] msg.blocks[i].type = "thinking" -> <<Chunk("reasoning", piece)>>
      [] OTHER -> <<>>
ByIndex(f) == LET order == SetToSortSeq(DOMAIN f, <) IN [k \in DOMAIN order |-> f[order[k]]]

(* Mutant: arguments that break off are taken. *)
ParsesWhatIsThere(args) ==
    \A k \in DOMAIN args : msg.blocks[args[k].of].good
(* The calls, once all is there.  Chat Completions repairs identifiers     *)
(* that are missing or double; Messages refuses a missing one.             *)
Parses(args) ==
    \/ args = <<>>
    \/ \E i \in DOMAIN msg.blocks :
          msg.blocks[i].type = "call" /\ msg.blocks[i].good /\ args = Pieces(i)
RepairedId(cs, k) ==
    IF cs[k].id = "" \/ \E j \in 1..(k - 1) : cs[j].id = cs[k].id THEN ToString(k) ELSE cs[k].id
DecodeCalls(cs) ==
    IF \E k \in DOMAIN cs : ~Parses(cs[k].args) \/ (dialect = "anthropic" /\ cs[k].id = "")
    THEN [ok |-> FALSE, calls |-> <<>>]
    ELSE [ok |-> TRUE, calls |-> IF dialect = "openai"
                                 THEN [k \in DOMAIN cs |-> [cs[k] EXCEPT !.id = RepairedId(cs, k)]] ELSE cs]
Known == {"end_turn", "tool_calls", "max_tokens", "content_filter"}
StopReason(stop, calls) ==
    IF stop \in Known THEN stop ELSE IF calls # <<>> THEN "tool_calls" ELSE "end_turn"
(* Mutant: the thinking blocks are not yielded. *)
FinishChunksWithoutThinking(d, calls) ==
       [k \in DOMAIN calls |-> Chunk("tool_call", calls[k])]
    \o (IF d.usage THEN <<Chunk("usage", 1)>> ELSE <<>>) \o <<Chunk("done", StopReason(d.stop, calls))>>
FinishChunks(d, calls) ==
       [k \in DOMAIN ByIndex(d.thinking) |-> Chunk("opaque", ByIndex(d.thinking)[k])]
    \o [k \in DOMAIN calls |-> Chunk("tool_call", calls[k])]
    \o (IF d.usage THEN <<Chunk("usage", 1)>> ELSE <<>>)
    \o <<Chunk("done", StopReason(d.stop, calls))>>

(* StreamFolder: the chunks of one response; a second call of an id takes  *)
(* the place of the first.                                                 *)
Error(why, retry) == [ok |-> FALSE, why |-> why, retry |-> retry]
Of(chunks, kind) == [i \in DOMAIN SelectSeq(chunks, LAMBDA c : c.kind = kind) |-> SelectSeq(chunks, LAMBDA c : c.kind = kind)[i].x]
PushCall(calls, c) ==
    IF \E k \in DOMAIN calls : calls[k].id = c.id
    THEN [k \in DOMAIN calls |-> IF calls[k].id = c.id THEN c ELSE calls[k]]
    ELSE Append(calls, c)
Response(text, calls, blocks, usage, stop) ==
    [ok |-> TRUE, text |-> text, calls |-> calls, blocks |-> blocks, usage |-> usage, stop |-> stop]
FoldStream(chunks) ==
    LET calls == FoldLeft(PushCall, <<>>, Of(chunks, "tool_call"))
        stops == Of(chunks, "done")
        stop  == IF stops # <<>> THEN Head(stops) ELSE IF calls # <<>> THEN "tool_calls" ELSE "end_turn"
    IN  IF stop = "error" THEN Error("model", TRUE)
        ELSE IF stop = "tool_calls" /\ calls = <<>> THEN Error("model", TRUE)
        ELSE Response(Of(chunks, "text"), calls, Of(chunks, "opaque"), Of(chunks, "usage") # <<>>, stop)

(* complete(): the same message in one body.  A response with a double     *)
(* identifier, or whose reason is a call it has not got, is refused.       *)
Blocks(type) == SetToSortSeq({i \in DOMAIN msg.blocks : msg.blocks[i].type = type}, <)
PiecesOf(type) == [k \in DOMAIN Blocks(type) |-> Pieces(Blocks(type)[k])]
Complete ==
    LET made  == DecodeCalls([k \in DOMAIN Blocks("call") |->
                                 [id |-> msg.blocks[Blocks("call")[k]].id, args |-> PiecesOf("call")[k]]])
        stop  == StopReason(msg.stop, made.calls)
        ids   == {made.calls[k].id : k \in DOMAIN made.calls}
    IN  IF ~made.ok THEN Error("model", FALSE)
        ELSE IF Cardinality(ids) < Len(made.calls) \/ (stop = "tool_calls" /\ made.calls = <<>>)
             THEN Error("invariant", FALSE)
        ELSE Response(FlattenSeq(PiecesOf("text")), made.calls, PiecesOf("thinking"), TRUE, stop)
---------------------------------------------------------------------------
(* The reading loop                                                        *)

FailWith(err) ==    \* a stream that showed something says so before it raises
    /\ at' = "failed" /\ result' = err
    /\ out' = IF out # <<>> THEN Append(out, Chunk("done", "error")) ELSE out
Statuses == {400, 401, 403, 408, 413, 500}
ErrorForStatus(s) ==
    CASE s = 401 -> Error("secret", FALSE)
      [] s = 403 -> Error("denied", FALSE)
      [] s = 413 /\ dialect = "anthropic" -> Error("too_large", FALSE)
      [] OTHER -> Error("model", s >= 500 \/ s \in {408, 409})
ErrorForRate(quota) == Error("model", ~quota)       \* 429
ErrorForTransport(timeout) == Error(IF timeout THEN "timeout" ELSE "model", TRUE)
ErrorForEvent(kind) == Error("model", kind \in {"overloaded", "rate_limit"})

Open ==
    /\ at = "new" /\ ~cancelled
    /\ \/ at' = "reading" /\ UNCHANGED <<out, result>>
       \/ \E s \in Statuses : FailWith(ErrorForStatus(s))
       \/ \E quota \in BOOLEAN : FailWith(ErrorForRate(quota))
       \/ \E timeout \in BOOLEAN : FailWith(ErrorForTransport(timeout))
    /\ UNCHANGED <<dialect, msg, sent, dec, cut, cancelled>>
FinalChunks ==  \* what StreamDecoder.finish() adds, or no chunks where it raises
    LET made == DecodeCalls(ByIndex(dec.calls))
    IN  IF made.ok THEN FinishChunks(dec, made.calls) ELSE <<>>
Final == IF FinalChunks = <<>> THEN Error("model", FALSE) ELSE FoldStream(out \o FinalChunks)
Finish(c) ==    \* outside the part of stream() that marks a failure
    /\ at' = IF FinalChunks = <<>> THEN "failed" ELSE "ended"
    /\ out' = out \o FinalChunks /\ result' = Final /\ cut' = c
Read(d, chunks) ==      \* the next event; looked for the cancel signal before it waited
    /\ at = "reading" /\ dec' = d /\ out' = out \o chunks
    /\ UNCHANGED <<dialect, msg, at, cut, cancelled, result>>
MessageStart ==         \* Messages tells the tokens of the input first
    /\ dialect = "anthropic" /\ ~dec.usage
    /\ Read([dec EXCEPT !.usage = TRUE], <<>>) /\ UNCHANGED sent
BlockEvent(i) ==        \* of any block that is not over; texts come one after the other
    /\ Due(i) /\ (dialect = "anthropic" => dec.usage)
    /\ msg.blocks[i].type = "text" => \A j \in 1..(i - 1) : msg.blocks[j].type = "text" => ~Due(j)
    /\ sent' = [sent EXCEPT ![i] = @ + 1]
    /\ IF Opened(i) /\ sent[i] = 0 THEN Read(Started(dec, i), <<>>)
       ELSE LET piece == Pieces(i)[sent[i] + (IF Opened(i) THEN 0 ELSE 1)]
            IN  Read(Absorbed(dec, i, piece), Shown(i, piece))
Told == \A i \in DOMAIN msg.blocks : ~Due(i)
StopEvent ==
    /\ Told /\ dec.stop = "none" /\ (dialect = "anthropic" => dec.usage)
    /\ Read([dec EXCEPT !.stop = msg.stop], <<>>) /\ UNCHANGED sent
UsageEvent ==           \* Chat Completions tells the tokens last, on a line of its own
    /\ dialect = "openai" /\ dec.stop # "none" /\ ~dec.usage
    /\ Read([dec EXCEPT !.usage = TRUE], <<>>) /\ UNCHANGED sent
DoneLine ==             \* [DONE]
    /\ at = "reading" /\ dialect = "openai" /\ dec.stop # "none" /\ dec.usage
    /\ Finish(FALSE) /\ UNCHANGED <<dialect, msg, sent, dec, cancelled>>
Line == MessageStart \/ (\E i \in DOMAIN msg.blocks : BlockEvent(i)) \/ StopEvent \/ UsageEvent \/ DoneLine
Eof ==              \* the body is over: said or not, the stream is
    /\ at = "reading"
    /\ Finish(dec.stop = "none")
    /\ UNCHANGED <<dialect, msg, sent, dec, cancelled>>
ReadFails ==        \* a broken connection, a body that is not JSON, an error event
    /\ at = "reading"
    /\ \/ \E timeout \in BOOLEAN : FailWith(ErrorForTransport(timeout))
       \/ FailWith(Error("model", FALSE))
       \/ dialect = "anthropic" /\ \E kind \in {"overloaded", "other"} : FailWith(ErrorForEvent(kind))
    /\ UNCHANGED <<dialect, msg, sent, dec, cut, cancelled>>
IdleTimeout ==      \* no line within stream_idle_timeout_ms
    /\ at = "reading" /\ FailWith(Error("timeout", TRUE))
    /\ UNCHANGED <<dialect, msg, sent, dec, cut, cancelled>>
SeeCancel ==
    /\ at \in {"new", "reading"} /\ cancelled
    /\ FailWith(Error("cancelled", FALSE))
    /\ UNCHANGED <<dialect, msg, sent, dec, cut, cancelled>>
Cancel ==
    /\ ~cancelled /\ at \in {"new", "reading"} /\ cancelled' = TRUE
    /\ UNCHANGED <<dialect, msg, at, sent, dec, out, cut, result>>

Next == Open \/ Line \/ Eof \/ ReadFails \/ IdleTimeout \/ SeeCancel \/ Cancel
Spec == Init /\ [][Next]_vars

---------------------------------------------------------------------------
(* Properties                                                              *)

(* Streaming changes how an answer arrives, not the answer: once the       *)
(* server's message is all there, the response that is folded from it is   *)
(* the one complete() makes of the same message, and no message complete() *)
(* takes is lost (folding.py, wire.py, decode.py).                         *)
StreamAgrees ==
    at = "reading" /\ dec.stop # "none" /\ dec.usage /\ Complete.ok => Final = Complete

(* A tool call that is carried out has all the arguments the model wrote   *)
(* for it, in order and none of another call's, under its own identifier   *)
(* unless that was repaired; when the connection was closed without a word *)
(* it may have none at all, never some (wire.py, decode.py).               *)
IsCall(i) == msg.blocks[i].type = "call"
CallsAreWhole ==
    result.ok =>
        \A k \in DOMAIN result.calls :
            LET c == result.calls[k]
            IN  \/ cut /\ c.args = <<>>
                \/ \E i \in DOMAIN msg.blocks :
                      /\ IsCall(i) /\ msg.blocks[i].good /\ c.args = Pieces(i)
                      /\ (\E j \in DOMAIN msg.blocks : IsCall(j) /\ msg.blocks[j].id = c.id) => msg.blocks[i].id = c.id
=============================================================================
