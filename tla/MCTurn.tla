------------------------------- MODULE MCTurn -------------------------------
(* What a turn is made of: the turn with its engine, one call of the model   *)
(* with its retries, the calls of one batch of tools, the stream of one      *)
(* answer, and the algorithms that fill the request. Turns small enough for  *)
(* TLC: three iterations over a budget of two tool calls; three attempts     *)
(* over delays of one and two ticks and a server that asks for none or for   *)
(* three; two calls side by side behind a critical and an ordinary           *)
(* interceptor.                                                              *)
EXTENDS Retry, ToolCall, Turn, TLC

CONSTANTS Still

VARIABLES
    part,           \* the component this behaviour is about
    input,          \* the argument of an algorithm, once it is picked
    \* ModelStream
    dialect, msg, at, sent, dec, out, cut, modelCancelled, modelResult

MCHints == {0, 3}
TurnCallLists == {<<"parallel", "parallel">>, <<"parallel", "exclusive">>, <<"unknown">>}
ToolInterceptors == [before |-> <<FALSE, TRUE>>, after |-> <<TRUE>>]

(* Answers of up to two blocks, whose pieces interleave: text and thinking *)
(* in two pieces, and calls with and without an id, with the same one and  *)
(* with two, with arguments in two pieces, with none and with broken ones. *)
Block(type, id, parts, good) == [type |-> type, id |-> id, parts |-> parts, good |-> good]
Blocks ==
    {Block("text", "", 2, TRUE), Block("thinking", "", 2, TRUE), Block("call", "a", 1, FALSE), Block("call", "b", 2, TRUE)}
        \union {Block("call", id, n, TRUE) : id \in {"", "a"}, n \in {0, 2}}
StreamMessages ==
    {[blocks |-> bs, stop |-> stop] : bs \in SeqOf(Blocks, 2), stop \in {"end_turn", "tool_calls", "odd"}}

(* Contexts: the limits around what the fragments and the history need,    *)
(* one or two fragments, a memory that answers, fails or is cancelled, and *)
(* histories of up to three records with and without a compactor.          *)
Contexts == INSTANCE Context
Fragment(pri, tok, trust, secret) ==
    [pri |-> pri, tok |-> tok, trust |-> trust, secret |-> secret, expired |-> FALSE]
Fragments == {Fragment(p, k, tr, FALSE) : p \in {0, 1}, k \in {1, 2}, tr \in {"system", "untrusted"}}
                \union {Fragment(0, 1, "untrusted", TRUE)}
PriorRecords == {<<"tool", 1, 0>>, <<"user", 1, 0>>, <<"user", 0, 1>>, <<"assistant", 2, 0>>}
Snapshots(n) ==
    {[through |-> h, records |-> [i \in DOMAIN q |-> [id |-> i, role |-> q[i][1], text |-> q[i][2], att |-> q[i][3]]]] :
        h \in 0..1, q \in SeqOf(PriorRecords, n) \ {<<>>}}
PlainTurn == [providers |-> <<>>, memory |-> {}, input |-> 1, extra |-> <<>>, hook |-> <<>>, limit |-> 3,
              model |-> [window |-> 0, output |-> 0], compactor |-> {}]
(* The built-in provider with any settings it accepts, and one that fails. *)
Providers ==
    {<<[ok |-> TRUE, critical |-> TRUE,
        frags |-> Contexts!BasicFragments([baseline |-> b, facts |-> TRUE, own |-> own, tok |-> 1])],
       [ok |-> ok, critical |-> c, frags |-> <<Fragment(0, 1, "untrusted", FALSE)>>]>> :
        <<b, own>> \in {s \in BOOLEAN \X (0..1) :
            Contexts!BasicSettingsOk([baseline |-> s[1], facts |-> TRUE, own |-> s[2], tok |-> 1])},
        ok \in BOOLEAN, c \in BOOLEAN}
Memories == {{}} \union {{[ends |-> ends, critical |-> c, floor |-> 1, frags |-> <<Fragment(0, 1, "untrusted", FALSE)>>]} :
                            ends \in {"ok", "failed", "cancelled"}, c \in BOOLEAN}
ContextInputs ==
    {[turn |-> [PlainTurn EXCEPT !.extra = e, !.memory = m, !.limit = l], snap |-> s] :
        e \in SeqOf(Fragments, 2), m \in Memories, l \in {1, 3}, s \in Snapshots(1)}
    \union
    {[turn |-> [PlainTurn EXCEPT !.limit = l, !.compactor = {[ends |-> "ok", text |-> x, through |-> th]}], snap |-> s] :
        l \in 1..4, th \in 0..4, x \in 0..1, s \in Snapshots(3)}
    \union
    {[turn |-> [PlainTurn EXCEPT !.providers = p, !.limit = l, !.model = m], snap |-> s] :
        p \in Providers, l \in {0, 3}, s \in Snapshots(1),
        m \in {[window |-> 0, output |-> 0], [window |-> 5, output |-> 2], [window |-> 2, output |-> 2]}}

(* Requests: a history, an input and up to two rounds of tools whose ids   *)
(* the service may refuse, with texts that encode to nothing.              *)
Requests == INSTANCE Wire
Message(role, text, calls, answers, thinking) ==
    [role |-> role, text |-> text, calls |-> calls, answers |-> answers, thinking |-> thinking]
Own == [provider |-> "anthropic", signed |-> TRUE]
Foreign == [provider |-> "openai", signed |-> TRUE]
Round(text, calls, thinking) ==
    <<Message("assistant", text, calls, "", thinking)>>
        \o [k \in DOMAIN calls |-> Message("tool", 0, <<>>, calls[k], <<>>)]
Rounds(ids) == {<<>>} \union {Round(t, ids, th) : t \in {0, 6, Requests!Lone}, th \in {<<>>, <<Own, Foreign>>}}
History(roles, lone) ==
    [i \in DOMAIN roles |-> Message(roles[i], IF i = lone THEN Requests!Lone ELSE 1 + i, <<>>, "", <<>>)]
WireInputs ==
    {<<Message("system", 1, <<>>, "", <<>>)>> \o History(roles, lone)
        \o <<Message("user", IF lone = 3 THEN Requests!Lone ELSE 5, <<>>, "", <<>>)>> \o first \o second :
        roles \in SeqOf({"user", "assistant"}, 2), lone \in {0, 1, 3},
        first \in Rounds(<<"c1">>) \union Rounds(<<"c.1", "c_1-d">>),
        second \in {<<>>, Round(0, <<"c_1-d">>, <<Own>>), Round(7, <<"c.1">>, <<>>)}}
WireParams == [caching |-> TRUE, thinking |-> "adaptive", max |-> 0, default |-> 8]

Stream == INSTANCE ModelStream WITH
    Dialects <- {"openai", "anthropic"}, Messages <- StreamMessages,
    cancelled <- modelCancelled, result <- modelResult
-----------------------------------------------------------------------------
(* A component that a behaviour is not about stands still. *)
TurnStill == TurnInit /\ ~stream
ToolsStill == ToolInit /\ batch = {"c1"}
StreamVars == <<dialect, msg, at, sent, dec, out, cut, modelCancelled, modelResult>>
StreamStill ==
    dialect = Still /\ msg = Still /\ at = Still /\ sent = Still /\
    dec = Still /\ out = Still /\ cut = Still /\ modelCancelled = Still /\
    modelResult = Still
all == <<part, input, vars, turnVars, toolVars, StreamVars>>

SystemInit ==
    \/ part = "retry" /\ Init /\ input = Still /\ TurnStill /\
       ToolsStill /\ StreamStill
    \/ part = "turn" /\ TurnInit /\
       Init /\ setting.stream /\ setting.after_tools /\ setting.retry_empty /\ remaining = 0 /\
       input = Still /\ ToolsStill /\ StreamStill
    \/ part = "tools" /\ ToolInit /\
       Init /\ setting.stream /\ setting.after_tools /\ setting.retry_empty /\ remaining = 0 /\
       input = Still /\ TurnStill /\ StreamStill
    \/ part = "stream" /\ Stream!Init /\
       Init /\ setting.stream /\ setting.after_tools /\ setting.retry_empty /\ remaining = 0 /\
       input = Still /\ TurnStill /\ ToolsStill
    \/ part \in {"context", "wire"} /\ input = Still /\
       Init /\ setting.stream /\ setting.after_tools /\ setting.retry_empty /\ remaining = 0 /\
       TurnStill /\ ToolsStill /\ StreamStill
SystemNext ==
    /\ UNCHANGED part
    /\ \/ part = "retry" /\ Next /\ UNCHANGED <<input, turnVars, toolVars, StreamVars>>
       \/ part = "turn" /\ TurnNext
          /\ UNCHANGED <<input, vars, toolVars, StreamVars>>
       \/ part = "tools" /\ ToolNext
          /\ UNCHANGED <<input, vars, turnVars, StreamVars>>
       \/ part = "stream" /\ Stream!Next
          /\ UNCHANGED <<input, vars, turnVars, toolVars>>
       \/ part = "context" /\ input = Still /\ input' \in ContextInputs
          /\ UNCHANGED <<vars, turnVars, toolVars, StreamVars>>
       \/ part = "wire" /\ input = Still /\ input' \in WireInputs
          /\ UNCHANGED <<vars, turnVars, toolVars, StreamVars>>
SystemSpec == SystemInit /\ [][SystemNext]_all
-----------------------------------------------------------------------------
(* ModelStream: streaming changes how an answer arrives, not the answer,   *)
(* and a call that is carried out has the arguments the model wrote.       *)
StreamIsFaithful == part = "stream" => Stream!StreamAgrees /\ Stream!CallsAreWhole
(* Context and Wire: what is sent fits the limit and leaves out the least  *)
(* it may, a compaction covers what it replaces and nothing else, and the  *)
(* body is one the service accepts and says all there is to say.           *)
RequestIsRight ==
    /\ part = "context" /\ input # Still =>
          Contexts!AssemblyFits(input.turn, input.snap) /\ Contexts!CompactionCovers(input.turn, input.snap)
    /\ part = "wire" /\ input # Still =>
          Requests!BodyAccepted(input, WireParams) /\ Requests!BodyComplete(input, WireParams)
(* The fairness of each component (Fairness of its module), said of the    *)
(* behaviours that are about it.                                           *)
FairCall ==
    /\ WF_vars(part = "retry" /\ Tick) /\ WF_vars(part = "retry" /\ Wake)
    /\ WF_vars(part = "retry" /\ Cancel("timeout")) /\ WF_vars(part = "retry" /\ ProviderRaises("cancelled"))
FairTurn == WF_turnVars(part = "turn" /\ (ModelStep \/ ToolStep \/ TurnStep))
FairTools == \A c \in Calls : WF_toolVars(part = "tools" /\ Step(c))
(* Every await ends: the model call while the provider heeds its token,    *)
(* the batch of tools, and the turn as a whole.                            *)
TurnWorkEnds ==
    /\ part = "retry" /\ FairCall => CallEnds
    /\ part = "turn" /\ FairTurn => TurnEnds
    /\ part = "tools" /\ FairTools => CallsEnd
=============================================================================
