--------------------------------- MODULE Wire ---------------------------------
(***************************************************************************)
(* The request that leaves the process: the messages the engine collected  *)
(* for one model call, encoded for the two services (wire.py of            *)
(* model_openai and of the anthropic plugin).                              *)
(*                                                                         *)
(* A message is its role, its text, its calls and what it answers.  A text *)
(* is a number that tells it from the others; 0 is no text and Lone is a   *)
(* text of lone surrogates, which encoding strips to nothing.  Illegal     *)
(* gives the identifiers the second service refuses and what stands for    *)
(* them after their characters were replaced and the digest appended.      *)
(***************************************************************************)
EXTENDS Naturals, Sequences, FiniteSets, SequencesExt

Lone == 99
ContinuedText == 101
EmptyText == 102
Strip(text) == IF text = Lone THEN 0 ELSE text
Illegal == [raw \in {"c.1"} |-> "c_1-d"]
Sanitize(raw) == IF raw \in DOMAIN Illegal THEN Illegal[raw] ELSE raw

(* One identifier per call of the conversation, in the order of the calls: *)
(* one that is taken gets the first free number behind it.                 *)
Free(id, used) ==
    LET Nth(k) == IF k = 1 THEN id ELSE id \o "_" \o ToString(k)
    IN  Nth(CHOOSE k \in 1..(Cardinality(used) + 1) :
                Nth(k) \notin used /\ \A j \in 1..(k - 1) : Nth(j) \in used)
AllCalls(ms) == FlattenSeq([i \in DOMAIN ms |-> ms[i].calls])
(* Mutant: two identifiers may become one. *)
IdMapUnnumbered(ms) ==
    [c \in ToSet(AllCalls(ms)) |-> Sanitize(c)]
IdMap(ms) ==
    FoldLeft(LAMBDA map, c :
                IF c \in DOMAIN map THEN map
                ELSE [x \in DOMAIN map \union {c} |->
                        IF x = c THEN Free(Sanitize(c), {map[y] : y \in DOMAIN map}) ELSE map[x]],
             [x \in {} |-> x], AllCalls(ms))
Id(map, raw) == IF raw \in DOMAIN map THEN map[raw] ELSE Sanitize(raw)

(* Blocks.  Thinking goes back only to the service that signed it.         *)
Text(t) == [type |-> "text", x |-> Strip(t)]
ToolUse(map, calls) == [k \in DOMAIN calls |-> [type |-> "tool_use", x |-> Id(map, calls[k])]]
ThinkingBlocks(blocks) ==
    LET own == SelectSeq(blocks, LAMBDA b : b.provider = "anthropic" /\ b.signed)
    IN  [k \in DOMAIN own |-> [type |-> "thinking", x |-> 0]]
Assistant(map, m) ==
    ThinkingBlocks(m.thinking) \o (IF m.text # 0 THEN <<Text(m.text)>> ELSE <<>>) \o ToolUse(map, m.calls)

System(ms) ==
    LET s == SelectSeq(ms, LAMBDA m : m.role = "system" /\ m.text # 0)
    IN  [i \in DOMAIN s |-> Text(s[i].text)]
AppendBlock(turns, b) ==
    IF turns # <<>> /\ Last(turns).role = "user"
    THEN [turns EXCEPT ![Len(turns)].content = Append(@, b)]
    ELSE Append(turns, [role |-> "user", content |-> <<b>>])
Turns(ms) ==
    LET map == IdMap(ms)
        Add(turns, m) ==
            CASE m.role = "system" -> turns
              [] m.role = "tool" -> AppendBlock(turns, [type |-> "tool_result", x |-> Id(map, m.answers)])
              [] m.role = "assistant" -> Append(turns, [role |-> "assistant", content |-> Assistant(map, m)])
              [] m.role = "user" -> Append(turns, [role |-> "user", content |-> <<Text(m.text)>>])
    IN  FoldLeft(Add, <<>>, ms)

(* Mutant: turns of one role follow each other. *)
MergeSameRoleNever(turns) == turns
(* normalize_turns: roles alternate, the last turn is the user's, the      *)
(* first one is the user's unless it asked for a tool, nothing is empty.   *)
MergeSameRole(turns) ==
    FoldLeft(LAMBDA acc, t :
                IF acc # <<>> /\ Last(acc).role = t.role
                THEN [acc EXCEPT ![Len(acc)].content = @ \o t.content]
                ELSE Append(acc, t),
             <<>>, turns)
HasToolUse(t) == \E i \in DOMAIN t.content : t.content[i].type = "tool_use"
DropTrailing(turns) ==
    LET users == {i \in DOMAIN turns : turns[i].role # "assistant"}
        kept  == SubSeq(turns, 1, IF users = {} THEN 0 ELSE CHOOSE n \in users : \A i \in users : i <= n)
    IN  IF kept = <<>> /\ turns # <<>> /\ ~HasToolUse(turns[1])
        THEN <<[turns[1] EXCEPT !.role = "user"]>> ELSE kept
Continued == [role |-> "user", content |-> <<[type |-> "text", x |-> ContinuedText]>>]
FillEmpty(turns) ==
    [i \in DOMAIN turns |->
        LET full == SelectSeq(turns[i].content, LAMBDA b : ~(b.type = "text" /\ b.x = 0))
        IN  [turns[i] EXCEPT !.content = IF full = <<>> THEN <<[type |-> "text", x |-> EmptyText]>> ELSE full]]
NormalizeTurns(turns) ==
    LET kept == DropTrailing(MergeSameRole(turns))
    IN  FillEmpty(IF kept # <<>> /\ kept[1].role = "assistant" /\ ~HasToolUse(kept[1])
                  THEN <<Continued>> \o kept ELSE kept)

(* The cache markers go on the last block of the last turn but one, when   *)
(* there are three; the blocks of the others are not told apart here.      *)
Marked(turns) == IF Len(turns) >= 3 THEN {Last(turns[Len(turns) - 1].content)} ELSE {}
Thinking(mode) ==
    CASE mode = "off" -> {} [] mode = "disabled" -> {"disabled"}
      [] mode = "budget" -> {"enabled", "budget_tokens"} [] mode = "adaptive" -> {"adaptive"}
AnthropicBody(ms, params) ==
    [system |-> System(ms), messages |-> NormalizeTurns(Turns(ms)),
     marked |-> IF params.caching THEN Marked(NormalizeTurns(Turns(ms))) ELSE {},
     thinking |-> Thinking(params.thinking),
     max_tokens |-> IF params.max > 0 THEN params.max ELSE params.default]

(* Chat Completions takes the messages as they are; beside calls the text  *)
(* is null.                                                                *)
OpenAiMessages(ms) ==
    [i \in DOMAIN ms |->
        [role |-> ms[i].role, calls |-> ms[i].calls, answers |-> ms[i].answers,
         text |-> IF ms[i].calls # <<>> THEN 0 ELSE Strip(ms[i].text)]]
OpenAiBody(ms, params) ==
    [messages |-> OpenAiMessages(ms), max_tokens |-> IF params.max > 0 THEN params.max ELSE params.default]

-----------------------------------------------------------------------------
(* The Messages API refuses a body whose roles do not alternate, that does *)
(* not start and end with the user, that has an empty turn, or a marker on *)
(* a thinking block; every call is answered, under its own identifier and  *)
(* in order, at the start of the very next turn, whatever identifiers the  *)
(* calls of the conversation came with (normalize_turns, _id_map).         *)
Uses(t) == SelectSeq(t.content, LAMBDA b : b.type = "tool_use")
Results(t) == SelectSeq(t.content, LAMBDA b : b.type = "tool_result")
IdsOf(blocks) == [k \in DOMAIN blocks |-> blocks[k].x]
BodyAccepted(ms, params) ==
    LET body == AnthropicBody(ms, params)
        turns == body.messages
    IN  /\ turns # <<>> /\ turns[1].role = "user" /\ Last(turns).role = "user"
        /\ \A i \in DOMAIN turns : turns[i].content # <<>>
        /\ \A i \in 1..(Len(turns) - 1) :
            /\ turns[i].role # turns[i + 1].role
            /\ IdsOf(Uses(turns[i])) = IdsOf(Results(turns[i + 1]))
            /\ IsInjective(IdsOf(Uses(turns[i])))
        /\ Results(turns[1]) = <<>>
        /\ \A b \in body.marked : b.type # "thinking"

(* Encoding rearranges turns but loses nothing that was said: the texts    *)
(* that are left after stripping stand in the body in the order of the     *)
(* messages, and two calls of the conversation never share an identifier   *)
(* (encode_messages, _merge_same_role, _fill_empty, sanitize_tool_id).     *)
(* The other service is told the same calls in the same order, and the     *)
(* same texts but those beside a call.                                     *)
Said(ms, role) == LET s == SelectSeq(ms, LAMBDA m : m.role \in role /\ Strip(m.text) # 0)
                  IN  [i \in DOMAIN s |-> s[i].text]
BodyComplete(ms, params) ==
    LET body == AnthropicBody(ms, params)
        blocks == FlattenSeq([i \in DOMAIN body.messages |-> body.messages[i].content])
        said == SelectSeq(blocks, LAMBDA b : b.type = "text" /\ b.x < Lone)
        map == IdMap(ms)
        open == OpenAiBody(ms, params)
        beside == SelectSeq(ms, LAMBDA m : m.calls = <<>>)
    IN  /\ IdsOf(said) = Said(ms, {"user", "assistant"})
        /\ Said(open.messages, {"user", "assistant"}) = Said(beside, {"user", "assistant"})
        /\ [k \in DOMAIN AllCalls(open.messages) |-> Id(map, AllCalls(open.messages)[k])]
              = IdsOf(SelectSeq(blocks, LAMBDA b : b.type = "tool_use"))
        /\ open.max_tokens = body.max_tokens
        /\ \A c, d \in DOMAIN map : map[c] = map[d] => c = d
=============================================================================
