-------------------------------- MODULE Turn --------------------------------
(***************************************************************************)
(* kernel/turn: one turn, from the moment it owns its session's slot to    *)
(* its receipt (orchestrator.py, engine.py, scheduling.py, finalization.py,*)
(* transcript.py).                                                         *)
(*                                                                         *)
(* turnPc names the await the turn's task is suspended at; at "loop" and   *)
(* "finish" the task is running and nothing else may move.  Cancellation,  *)
(* the clock and the tasks of a parallel batch move whenever the turn is   *)
(* suspended.  A piece of model text is a number, unique in the turn; 0 is *)
(* text the model did not write (command output, notes, error messages).   *)
(***************************************************************************)
EXTENDS Naturals, Sequences, FiniteSets

CONSTANTS
  MaxIterations,   (* limits.max_iterations                                *)
  MaxToolCalls,    (* limits.max_tool_calls_per_turn                       *)
  MaxRecoveries,   (* _MAX_LENGTH_RECOVERIES                               *)
  MaxContent,      (* MAX_CONTENT_LENGTH of an outbound message, in pieces *)
  MaxPieces,       (* bound: pieces in one response                        *)
  CallLists        (* bound: tool kinds a response may ask for, in order   *)

ToolKinds == {"parallel", "exclusive", "unknown"}

ASSUME TurnAssumption ==
  /\ MaxIterations \in Nat \ {0} /\ MaxToolCalls \in Nat \ {0}
  /\ MaxRecoveries \in Nat
  /\ MaxContent \in Nat \ {0} /\ MaxPieces \in Nat \ {0}
  /\ \A calls \in CallLists : calls \in Seq(ToolKinds) /\ calls # << >>

VARIABLES
  stream,     (* whether the model is asked to stream                      *)
  turnPc,     (* where the turn is suspended                               *)
  turnToken,  (* reason of the turn's CancelToken, or "none"               *)
  expired,    (* the turn has used up turn_timeout_ms                      *)
  ledger,     (* BudgetLedger: iterations and tool_calls                   *)
  state,      (* TurnState: text, pending, final, attached, truncated      *)
  transcript, (* Transcript: user inputs added, body records               *)
  request,    (* the engine's locals: messages, recoveries, answer so far, *)
              (* tool kinds of the response, why it stopped                *)
  tool,       (* per tool call of the response: how far it got             *)
  completed,  (* tool calls of the response, in the order they completed   *)
  outcome,    (* status and cancel_reason the turn is about to report      *)
  handler,    (* finish_turn was called from an except clause              *)
  produced,   (* pieces of text the model has sent so far                  *)
  executed,   (* tool calls handed to the invoker                          *)
  history,    (* records the session store holds of this turn              *)
  events,     (* terminal events published                                 *)
  frames      (* last frames delivered                                     *)

engineVars == <<ledger, request, tool, completed, executed>>
publicVars == <<history, events, frames>>
turnVars == <<stream, turnPc, turnToken, expired, engineVars, state, transcript, outcome,
          handler, produced, publicVars>>

TurnOver      == {"done", "escaped", "killed"}
EngineWait == {"before_model", "model", "after_model", "tools"}
Suspended  == EngineWait \cup {"turn_start", "route", "load", "assemble",
                               "wrap_up", "append", "turn_end"}
Statuses   == {"completed", "cancelled", "failed", "stopped_by_limit"}
Reasons    == {"user", "timeout", "shutdown"}

Pieces(s)  == {s[i] : i \in DOMAIN s}
New        == produced + 1

Assistant(text, cut) ==
  [role |-> "assistant", text |-> text, call |-> << >>, interrupted |-> cut]
ToolResult(call) ==
  [role |-> "tool", text |-> << >>, call |-> call, interrupted |-> FALSE]
UserInput ==
  [role |-> "user", text |-> << >>, call |-> << >>, interrupted |-> FALSE]
-----------------------------------------------------------------------------
TurnInit ==
  /\ stream \in BOOLEAN
  /\ turnPc = "turn_start"
  /\ turnToken = "none"
  /\ expired = FALSE
  /\ ledger = [iterations |-> 0, tool_calls |-> 0]
  /\ state = [text |-> << >>, pending |-> << >>, final |-> << >>,
              attached |-> FALSE, truncated |-> FALSE]
  /\ transcript = [user |-> FALSE, body |-> << >>]
  /\ request = [messages |-> << >>, recoveries |-> 0, answer |-> << >>,
                calls |-> << >>, stop |-> "none"]
  /\ tool = << >>
  /\ completed = << >>
  /\ outcome = [status |-> "none", reason |-> "none"]
  /\ handler = FALSE
  /\ produced = 0
  /\ executed = {}
  /\ history = << >> /\ events = << >> /\ frames = << >>

(* Cancellation and the clock. *)

(* CancelToken.request: the first reason stays. *)
Requested(reason) == IF turnToken = "none" THEN reason ELSE turnToken

(* cancel(turn_id), or begin_shutdown, while the turn is live. *)
RequestCancel(reason) ==
  /\ turnPc \in Suspended
  /\ turnToken' = Requested(reason)
  /\ UNCHANGED <<stream, turnPc, expired, engineVars, state, transcript, outcome,
                 handler, produced, publicVars>>

TimePasses ==
  /\ turnPc \in EngineWait
  /\ expired' = TRUE
  /\ UNCHANGED <<stream, turnPc, turnToken, engineVars, state, transcript, outcome,
                 handler, produced, publicVars>>

(* _watchdog lives as long as the engine runs. *)
Watchdog ==
  /\ turnPc \in EngineWait
  /\ expired
  /\ turnToken' = Requested("timeout")
  /\ UNCHANGED <<stream, turnPc, expired, engineVars, state, transcript, outcome,
                 handler, produced, publicVars>>

(* finish_shutdown cancels the task after its grace period; CancelledError  *)
(* passes through every handler of the turn.                               *)
ForceCancel ==
  /\ turnPc \in Suspended
  /\ turnToken # "none"
  /\ turnPc' = "killed"
  /\ UNCHANGED <<stream, turnToken, expired, engineVars, state, transcript, outcome,
                 handler, produced, publicVars>>

(* Ways to end: a terminal event of the engine, or an exception that _run   *)
(* catches.  Only the engine knows the token: the reason of an exception is *)
(* looked up from its error code, which timeout shares with budget.        *)
EndWith(status, reason) ==
  /\ turnPc' = "finish"
  /\ outcome' = [status |-> status, reason |-> reason]
  /\ UNCHANGED handler

RaiseWith(status, reason) ==
  /\ turnPc' = "finish"
  /\ outcome' = [status |-> status,
                 reason |-> IF reason = "timeout" THEN "budget" ELSE reason]
  /\ handler' = TRUE

(* Admission and context. *)

(* The turn_start hook rejects the turn or lets it pass. *)
TurnStart(rejects) ==
  /\ turnPc = "turn_start"
  /\ IF rejects THEN EndWith("failed", "none")
     ELSE turnPc' = "route" /\ UNCHANGED <<outcome, handler>>
  /\ UNCHANGED <<stream, turnToken, expired, engineVars, state, transcript, produced, publicVars>>

(* The dispatcher routes every message of the batch: commands may leave     *)
(* text, one rejection ends the turn, and without model input it is over.  *)
Route(rejected, text, model_input) ==
  /\ turnPc = "route"
  /\ state' = [state EXCEPT !.text = text]
  /\ IF rejected THEN EndWith("failed", "none")
     ELSE IF ~model_input THEN EndWith("completed", "none")
     ELSE turnPc' = "load" /\ UNCHANGED <<outcome, handler>>
  /\ UNCHANGED <<stream, turnToken, expired, engineVars, transcript, produced, publicVars>>

(* sessions.load, then checkpoint 1. *)
Load(ok) ==
  /\ turnPc = "load"
  /\ IF ~ok THEN RaiseWith("failed", "none")
     ELSE IF turnToken # "none" THEN RaiseWith("cancelled", turnToken)
     ELSE turnPc' = "assemble" /\ UNCHANGED <<outcome, handler>>
  /\ UNCHANGED <<stream, turnToken, expired, engineVars, state, transcript, produced, publicVars>>

(* assemble and compact_once: no checkpoint of their own, but a provider    *)
(* that sees the token may raise its error.                                *)
Assemble(result) ==
  /\ turnPc = "assemble"
  /\ \/ /\ result = "ok"
        /\ turnPc' = "loop"
        /\ transcript' = [transcript EXCEPT !.user = TRUE]
        /\ UNCHANGED <<outcome, handler>>
     \/ /\ result = "failed"
        /\ RaiseWith("failed", "none")
        /\ UNCHANGED transcript
     \/ /\ result = "cancelled"
        /\ turnToken # "none"
        /\ RaiseWith("cancelled", turnToken)
        /\ UNCHANGED transcript
  /\ UNCHANGED <<stream, turnToken, expired, engineVars, state, produced, publicVars>>

(* The model-tool loop. *)

(* Mutant: one iteration more than the limit. *)
BreachOffByOne(calls) ==
  IF expired THEN "timeout"
  ELSE IF ledger.iterations > MaxIterations THEN "iterations"
  ELSE IF ledger.tool_calls + calls > MaxToolCalls THEN "tool_calls"
  ELSE "none"

(* BudgetLedger.check with that many calls about to start. *)
Breach(calls) ==
  IF expired THEN "timeout"
  ELSE IF ledger.iterations >= MaxIterations THEN "iterations"
  ELSE IF ledger.tool_calls + calls > MaxToolCalls THEN "tool_calls"
  ELSE "none"

(* _terminal_for_breach: time out is a cancellation, a spent budget is not. *)
StopForBreach(breach) ==
  IF breach = "timeout"
  THEN turnToken' = Requested("timeout") /\ EndWith("cancelled", "timeout")
  ELSE /\ turnPc' = "wrap_up"
       /\ outcome' = [status |-> "stopped_by_limit", reason |-> "none"]
       /\ UNCHANGED <<turnToken, handler>>

(* The head of the loop: budget, checkpoint 2, then the iteration counts. *)
NextIteration ==
  /\ turnPc = "loop"
  /\ IF Breach(0) # "none"
     THEN StopForBreach(Breach(0)) /\ UNCHANGED <<ledger, request>>
     ELSE /\ IF turnToken # "none" THEN EndWith("cancelled", turnToken) /\ UNCHANGED <<ledger, request>>
             ELSE /\ turnPc' = "before_model"
                  /\ ledger' = [ledger EXCEPT !.iterations = @ + 1]
                  /\ request' = [request EXCEPT !.answer = << >>, !.calls = << >>, !.stop = "none"]
                  /\ UNCHANGED <<outcome, handler>>
          /\ UNCHANGED turnToken
  /\ UNCHANGED <<stream, expired, state, transcript, tool, completed, produced,
                 executed, publicVars>>

(* The before_model_request hook; a critical one may fail the turn. *)
PrepareRequest(ok) ==
  /\ turnPc = "before_model"
  /\ IF ok THEN turnPc' = "model" /\ UNCHANGED <<outcome, handler>>
     ELSE EndWith("failed", "none")
  /\ UNCHANGED <<stream, turnToken, expired, engineVars, state, transcript, produced, publicVars>>

(* A chunk of the stream: checkpoint 3 comes before the chunk is used. *)
StreamPiece ==
  /\ turnPc = "model"
  /\ stream
  /\ IF turnToken # "none"
     THEN EndWith("cancelled", turnToken) /\ UNCHANGED <<request, state, produced>>
     ELSE /\ Len(request.answer) < MaxPieces
          /\ request' = [request EXCEPT !.answer = Append(@, New)]
          /\ state' = [state EXCEPT !.text = Append(@, New), !.pending = Append(@, New)]
          /\ produced' = New
          /\ UNCHANGED <<turnPc, outcome, handler>>
  /\ UNCHANGED <<stream, turnToken, expired, ledger, tool, completed, executed,
                 transcript, publicVars>>

(* The response is there: folded from the chunks, or the answer to one      *)
(* request without a stream.                                               *)
Respond(written, calls, stop) ==
  /\ turnPc = "model"
  /\ stream => written = << >>
  /\ turnPc' = "after_model"
  /\ request' = [request EXCEPT !.answer = @ \o written, !.calls = calls, !.stop = stop]
  /\ produced' = produced + Len(written)
  /\ UNCHANGED <<stream, turnToken, expired, ledger, tool, completed, executed, state,
                 transcript, outcome, handler, publicVars>>

(* The provider fails, or reports a cancellation of its own. *)
ModelFails(cancelled) ==
  /\ turnPc = "model"
  /\ IF cancelled THEN EndWith("cancelled", Requested("user")) ELSE EndWith("failed", "none")
  /\ UNCHANGED <<stream, turnToken, expired, engineVars, state, transcript, produced, publicVars>>

(* Checkpoint 4 is the orchestrator's: it comes before the response is kept. *)
CancelledAfterModel ==
  /\ turnPc = "after_model"
  /\ turnToken # "none"
  /\ RaiseWith("cancelled", turnToken)
  /\ UNCHANGED <<stream, turnToken, expired, engineVars, state, transcript, produced, publicVars>>

(* The state once the response is recorded by its content. *)
KeptAnswer(s, final) == [s EXCEPT !.final = final, !.pending = << >>]

(* A response without tool calls: it ends the turn, unless it was cut off   *)
(* by its length and may be continued.                                     *)
PlainAnswer ==
  LET continued == /\ request.stop = "max_tokens" /\ request.answer # << >>
                   /\ request.recoveries < MaxRecoveries
      kept == KeptAnswer(state, state.final \o request.answer) IN
  /\ turnPc = "after_model"
  /\ turnToken = "none"
  /\ request.calls = << >>
  /\ \/ /\ continued
        /\ turnPc' = "loop"
        /\ request' = [request EXCEPT !.recoveries = @ + 1,
                         !.messages = Append(@, <<"assistant", ledger.iterations, 0>>)]
        /\ state' = kept
        /\ UNCHANGED <<outcome, handler>>
     \/ /\ ~continued
        /\ EndWith("completed", "none")
        /\ state' = [kept EXCEPT !.truncated = request.stop = "max_tokens"]
        /\ UNCHANGED request
  /\ UNCHANGED <<stream, turnToken, expired, ledger, tool, completed, executed,
                 transcript, produced, publicVars>>

(* Mutant: the calls are counted once they have run. *)
AdmitToolsUnchecked(calls) ==
  /\ turnPc' = "tools"
  /\ ledger' = [ledger EXCEPT !.tool_calls = @ + calls]
  /\ tool' = [i \in 1..calls |-> "queued"]
  /\ UNCHANGED <<turnToken, outcome, handler>>

(* The tool budget is settled before any tool starts. *)
AdmitTools(calls) ==
  \/ Breach(calls) # "none" /\ StopForBreach(Breach(calls)) /\ UNCHANGED <<ledger, tool>>
  \/ /\ Breach(calls) = "none"
     /\ turnPc' = "tools"
     /\ tool' = [i \in 1..calls |-> "queued"]
     /\ ledger' = [ledger EXCEPT !.tool_calls = @ + calls]
     /\ UNCHANGED <<turnToken, outcome, handler>>

(* A response with tool calls.  Nothing awaits between checkpoints 4 and 5, *)
(* so one test of the token stands for both.                               *)
AskForTools ==
  LET n == Len(request.calls) IN
  /\ turnPc = "after_model"
  /\ turnToken = "none"
  /\ n > 0
  /\ state' = KeptAnswer(state, state.final)
  /\ transcript' = [transcript EXCEPT !.body =
       IF request.answer = << >> THEN @ ELSE Append(@, Assistant(request.answer, FALSE))]
  /\ request' = [request EXCEPT !.messages = Append(@, <<"assistant", ledger.iterations, n>>)]
  /\ completed' = << >>
  /\ AdmitTools(n)
  /\ UNCHANGED <<stream, expired, produced, executed, publicVars>>

(* The tool phase. *)

(* partition_tool_batches: a batch is a run of parallel calls; any other    *)
(* call is a batch of its own and a barrier.                               *)
SameBatch(i, j) ==
  i = j \/ \A k \in (i..j) \cup (j..i) : request.calls[k] = "parallel"

(* Mutant: batches do not wait for each other. *)
BatchStartedAtOnce(i) == TRUE

(* Batches run one after the other: every call before the batch of i is done. *)
BatchStarted(i) ==
  \A j \in 1..(i - 1) : ~SameBatch(j, i) => tool[j] = "collected"

(* The task of a call keeps running when the turn has ended without it. *)
ToolMay(i, from) ==
  /\ turnPc \in Suspended \cup {"done", "escaped"}
  /\ i \in DOMAIN tool
  /\ tool[i] = from

ToolMoves(i, to) ==
  /\ tool' = [tool EXCEPT ![i] = to]
  /\ UNCHANGED <<stream, turnPc, turnToken, expired, ledger, request, completed, state,
                 transcript, outcome, handler, produced, publicVars>>

(* _invoke_one up to its first await: an unknown tool and a cancelled turn  *)
(* are answered without running anything.                                  *)
BeginCall(i) ==
  /\ ToolMay(i, "queued")
  /\ BatchStarted(i)
  /\ ToolMoves(i, IF request.calls[i] = "unknown" THEN "unknown"
                  ELSE IF turnToken # "none" THEN "skipped" ELSE "before")
  /\ UNCHANGED executed

(* The before_tool_call hook: invoke the tool, block it, or fail. *)
BeforeCall(i, verdict) ==
  /\ ToolMay(i, "before")
  /\ \/ /\ verdict = "invoke"
        /\ ToolMoves(i, "running")
        /\ executed' = executed \cup {<<ledger.iterations, i>>}
     \/ /\ verdict \in {"blocked", "raised"}
        /\ ToolMoves(i, verdict)
        /\ UNCHANGED executed

(* The invoker returns a result whatever happens. *)
CallReturns(i) ==
  /\ ToolMay(i, "running")
  /\ ToolMoves(i, "after")
  /\ UNCHANGED executed

(* The after_tool_call hook, whose failure replaces the result. *)
AfterCall(i, ok) ==
  /\ ToolMay(i, "after")
  /\ ToolMoves(i, IF ok THEN "executed" ELSE "raised")
  /\ UNCHANGED executed

(* Mutant: a skipped call is forgotten. *)
AttemptedUnlessSkipped == {"unknown", "blocked", "executed"}

(* Calls with a result to hand to the turn, one way or another. *)
Attempted == {"unknown", "skipped", "blocked", "executed"}

(* Mutant: results follow each other in the order they completed. *)
ToolMessagesAsCompleted(order) ==
  [k \in DOMAIN order |-> <<"tool", ledger.iterations, order[k]>>]

(* messages.extend: in the order of the calls, whatever order they ended in. *)
ToolMessages(order) ==
  [k \in DOMAIN order |-> <<"tool", ledger.iterations, k>>]

(* Mutant: only the results of tools that ran are kept. *)
RecordedUnlessCancelled(i) ==
  IF turnToken # "none" THEN << >> ELSE <<ToolResult(<<ledger.iterations, i>>)>>

(* add_tool_result: the record of a call, the calls being declared. *)
Recorded(i) == <<ToolResult(<<ledger.iterations, i>>)>>

(* Mutant: a cancelled turn does not wait for the calls under way. *)
PhaseOverOnCancel(order) == Len(order) = Len(request.calls) \/ turnToken # "none"

(* The tool phase is over when every call of the response has its result. *)
PhaseOver(order) == Len(order) = Len(request.calls)

(* ToolCallCompleted; after the last one, checkpoint 6 and the next round. *)
CollectResult(i, attachment) ==
  LET order == Append(completed, i) IN
  /\ turnPc = "tools"
  /\ i \in DOMAIN tool
  /\ tool[i] \in Attempted
  /\ attachment => tool[i] = "executed"
  /\ tool' = [tool EXCEPT ![i] = "collected"]
  /\ completed' = order
  /\ transcript' = [transcript EXCEPT !.body = @ \o Recorded(i)]
  /\ state' = [state EXCEPT !.attached = @ \/ attachment]
  /\ IF ~PhaseOver(order)
     THEN UNCHANGED <<turnPc, outcome, handler, request>>
     ELSE /\ request' = [request EXCEPT !.messages = @ \o ToolMessages(order)]
          /\ IF turnToken # "none" THEN EndWith("cancelled", turnToken)
             ELSE turnPc' = "loop" /\ UNCHANGED <<outcome, handler>>
  /\ UNCHANGED <<stream, turnToken, expired, ledger, produced, executed, publicVars>>

(* A task that raised ends the engine; its siblings are left running. *)
CollectFailure(i) ==
  /\ turnPc = "tools"
  /\ i \in DOMAIN tool
  /\ tool[i] = "raised"
  /\ EndWith("failed", "none")
  /\ UNCHANGED <<stream, turnToken, expired, engineVars, state, transcript, produced, publicVars>>

(* One last request without tools; whatever comes back replaces the answer. *)
WrapUp(written) ==
  /\ turnPc = "wrap_up"
  /\ turnPc' = "finish"
  /\ state' = [state EXCEPT !.final =
       IF written # << >> THEN written
       ELSE IF @ = << >> /\ state.text = << >> THEN <<0>> ELSE @]
  /\ produced' = produced + Len(written)
  /\ UNCHANGED <<stream, turnToken, expired, engineVars, transcript, outcome, handler, publicVars>>

(* finish_turn. *)

(* mark_interrupted: the last assistant record of the body. *)
Marked(body) ==
  LET own == {i \in DOMAIN body : body[i].role = "assistant"} IN
  [i \in DOMAIN body |->
     IF i \in own /\ \A j \in own : j <= i THEN [body[i] EXCEPT !.interrupted = TRUE] ELSE body[i]]

(* Mutant: the answer of a cancelled turn is kept as if it were whole. *)
FinishedBodyUnmarked(body, cut) ==
  IF state.final # << >> THEN Append(body, Assistant(state.final, cut))
  ELSE IF state.pending # << >> THEN Append(body, Assistant(state.pending, TRUE))
  ELSE IF state.attached THEN Append(body, Assistant(<< >>, FALSE))
  ELSE body

(* What the end of the turn adds to the transcript. *)
FinishedBody(body, cut) ==
  IF state.final # << >> THEN Append(body, Assistant(state.final, cut))
  ELSE IF state.pending # << >> THEN Append(body, Assistant(state.pending, TRUE))
  ELSE IF state.attached THEN Append(body, Assistant(<< >>, FALSE))
  ELSE IF cut THEN Marked(body) ELSE body

Records == (IF transcript.user THEN <<UserInput>> ELSE << >>) \o transcript.body

Publish(status) == turnPc' = "turn_end" /\ events' = Append(events, status)

(* finish_turn up to sessions.append, or to the event if there is no record. *)
FinishTurn ==
  LET body == FinishedBody(transcript.body, outcome.status = "cancelled") IN
  /\ turnPc = "finish"
  /\ transcript' = [transcript EXCEPT !.body = body]
  /\ IF transcript.user \/ body # << >>
     THEN turnPc' = "append" /\ UNCHANGED events
     ELSE Publish(outcome.status)
  /\ UNCHANGED <<stream, turnToken, expired, engineVars, state, outcome, handler,
                 produced, history, frames>>

(* Mutant: a failed write is only logged. *)
AfterAppendUnchecked(ok) == outcome

(* A failed write is the outcome of the turn, whatever the model answered. *)
AfterAppend(ok) == IF ok THEN outcome ELSE [status |-> "failed", reason |-> "none"]

Persist(ok) ==
  /\ turnPc = "append"
  /\ history' = IF ok THEN history \o Records ELSE history
  /\ outcome' = AfterAppend(ok)
  /\ Publish(AfterAppend(ok).status)
  /\ UNCHANGED <<stream, turnToken, expired, engineVars, state, transcript, handler,
                 produced, frames>>

(* The frame that closes the turn: the answer, or the text shown so far, or  *)
(* the message of the error.                                               *)
LastFrame ==
  LET text == IF state.final # << >> THEN state.final ELSE state.text IN
  [text |-> IF text = << >> /\ outcome.status = "failed" THEN <<0>> ELSE text,
   stream_state |-> IF state.truncated \/ outcome.status = "cancelled" THEN "cancelled"
                    ELSE IF outcome.status = "failed" THEN "failed" ELSE "final"]

(* After the turn_end observers.  A frame that is too long raises: _run     *)
(* then finishes the turn once more, and lets a second exception escape.   *)
DeliverFrame ==
  /\ turnPc = "turn_end"
  /\ \/ /\ Len(LastFrame.text) <= MaxContent
        /\ turnPc' = "done"
        /\ frames' = IF LastFrame.text = << >> /\ ~state.attached /\ LastFrame.stream_state = "final"
                     THEN frames ELSE Append(frames, LastFrame)
        /\ UNCHANGED <<outcome, handler>>
     \/ /\ Len(LastFrame.text) > MaxContent
        /\ IF handler THEN turnPc' = "escaped" /\ UNCHANGED <<outcome, handler>>
           ELSE RaiseWith("failed", "none")
        /\ UNCHANGED frames
  /\ UNCHANGED <<stream, turnToken, expired, engineVars, state, transcript, produced,
                 history, events>>
-----------------------------------------------------------------------------
Written == {<< >>, <<New>>}

ModelStep ==
  \/ NextIteration
  \/ \E ok \in BOOLEAN : PrepareRequest(ok)
  \/ StreamPiece
  \/ \E written \in Written, stop \in {"end_turn", "max_tokens"} : Respond(written, << >>, stop)
  \/ \E written \in Written, calls \in CallLists : Respond(written, calls, "tool_calls")
  \/ \E cancelled \in BOOLEAN : ModelFails(cancelled)
  \/ CancelledAfterModel
  \/ PlainAnswer
  \/ AskForTools
  \/ \E written \in Written : WrapUp(written)

ToolStep ==
  \E i \in DOMAIN tool :
    \/ BeginCall(i)
    \/ \E verdict \in {"invoke", "blocked", "raised"} : BeforeCall(i, verdict)
    \/ CallReturns(i)
    \/ \E ok \in BOOLEAN : AfterCall(i, ok)
    \/ \E attachment \in BOOLEAN : CollectResult(i, attachment)
    \/ CollectFailure(i)

TurnStep ==
  \/ \E rejects \in BOOLEAN : TurnStart(rejects)
  \/ \E rejected, model_input \in BOOLEAN, text \in {<< >>, <<0>>} :
       Route(rejected, text, model_input)
  \/ \E ok \in BOOLEAN : Load(ok)
  \/ \E result \in {"ok", "failed", "cancelled"} : Assemble(result)
  \/ FinishTurn
  \/ \E ok \in BOOLEAN : Persist(ok)
  \/ DeliverFrame

TurnTerminated == turnPc \in TurnOver /\ UNCHANGED turnVars

TurnNext ==
  \/ ModelStep
  \/ ToolStep
  \/ TurnStep
  \/ \E reason \in {"user", "shutdown"} : RequestCancel(reason)
  \/ TimePasses
  \/ Watchdog
  \/ ForceCancel
  \/ TurnTerminated

(* Every await has a limit of its own: hooks, provider requests and tools   *)
(* time out, and the store answers or fails.                               *)
TurnFairness == WF_turnVars(ModelStep \/ ToolStep \/ TurnStep)

TurnSpec == TurnInit /\ [][TurnNext]_turnVars /\ TurnFairness
-----------------------------------------------------------------------------
TurnTypeOK ==
  /\ stream \in BOOLEAN /\ expired \in BOOLEAN /\ handler \in BOOLEAN
  /\ turnPc \in Suspended \cup TurnOver \cup {"loop", "finish"}
  /\ turnToken \in Reasons \cup {"none"}
  /\ ledger.iterations \in 0..MaxIterations /\ ledger.tool_calls \in 0..MaxToolCalls
  /\ outcome.status \in Statuses \cup {"none"}
  /\ outcome.status = "cancelled" <=> outcome.reason # "none"
  /\ request.recoveries \in 0..MaxRecoveries
  /\ completed \in Seq(DOMAIN tool)

(* A turn never runs more tools than its budget, although the tools of a    *)
(* response are counted together and run apart, some of them in parallel.  *)
ToolBudgetKept == Cardinality(executed) <= MaxToolCalls

(* A model request never carries an unanswered or misplaced tool call: the  *)
(* results of every earlier response follow it, in the order of its calls,  *)
(* whatever order the tools ended in.                                      *)
RequestWellFormed ==
  LET m == request.messages IN
  turnPc = "model" =>
    \A p \in DOMAIN m : m[p][1] = "assistant" =>
      \A i \in 1..m[p][3] : p + i \in DOMAIN m /\ m[p + i] = <<"tool", m[p][2], i>>

(* A barrier call runs alone: whoever runs beside another call shares its   *)
(* run of parallel calls, and calls before a barrier are done when it runs. *)
BarrierKept ==
  turnPc = "tools" =>
    \A i, j \in DOMAIN tool :
      i < j /\ tool[j] \notin {"queued", "unknown", "skipped"} /\ tool[i] # "collected" =>
        \A k \in i..j : request.calls[k] = "parallel"

(* Both: what runs was paid for, and runs beside none but its like. *)
ToolsAdmitted == ToolBudgetKept /\ BarrierKept

(* Types; a tool runs only within the budget and beside none but its like;  *)
(* and a request answers each call before it exactly once, so that the      *)
(* service takes it.                                                       *)
TurnAsksLawfully == TurnTypeOK /\ ToolsAdmitted /\ RequestWellFormed

Closed == turnPc = "done" /\ Len(events) = 1
PiecesOf(records) == UNION {Pieces(records[i].text) : i \in DOMAIN records}
Saved == PiecesOf(history)

(* What a tool did is never forgotten by a turn that ends in order, a       *)
(* cancelled one included: the result of every tool it let run is kept.    *)
ExecutedIsRecorded ==
  Closed /\ events[1] # "failed" =>
    \A call \in executed : \E i \in DOMAIN history : history[i].call = call

(* A turn that ends in order leaves no tool at work behind it: cancelled    *)
(* while parallel calls run, it waits for them (only a hook that fails the  *)
(* turn abandons the calls beside it).                                     *)
NoToolLeftBehind ==
  turnPc = "done" /\ events[1] # "failed" =>
    \A i \in DOMAIN tool : tool[i] \notin {"before", "running", "after"}

(* Text reaches the history by two roads, chunk by chunk and as a whole     *)
(* response; a turn that is closed once records no piece and no call twice. *)
NothingRecordedTwice ==
  Closed =>
    \A i, j \in DOMAIN history : i # j =>
      /\ (Pieces(history[i].text) \cap Pieces(history[j].text)) \ {0} = {}
      /\ history[i].call # << >> => history[i].call # history[j].call

(* Both: every call and every piece is recorded, and recorded once. *)
RecordedOnce == ExecutedIsRecorded /\ NothingRecordedTwice

(* A frame presented as a whole answer is one: its text was saved, and not  *)
(* as an interrupted record (a failed write is never disguised, SES-003).  *)
AnnouncedIsSaved ==
  Closed => \A f \in DOMAIN frames :
    frames[f].stream_state = "final" =>
      \A piece \in Pieces(frames[f].text) \ {0} :
        \E i \in DOMAIN history : piece \in Pieces(history[i].text) /\ ~history[i].interrupted

LastAssistantIsMarked ==
  LET own == {i \in DOMAIN history : history[i].role = "assistant"} IN
  \A i \in own : (\A j \in own : j <= i) => history[i].interrupted

(* A cancelled turn does not leave a partial answer that reads as a whole   *)
(* one.  (Not so when a tool produced an attachment: finish_turn() records *)
(* it without the mark and marks nothing else, finalization.py:49-52.)     *)
CancelledIsMarked ==
  Closed /\ events[1] = "cancelled" /\ ~state.attached => LastAssistantIsMarked

(* The text a user has seen of a turn that was cut off is in the history.   *)
(* (Not so after a length stop was continued: finish_turn() then records   *)
(* the finished responses and drops the pending text, finalization.py:36.) *)
ShownIsKept ==
  Closed /\ events[1] = "cancelled" /\ request.recoveries = 0 =>
    Pieces(state.text) \ {0} \subseteq Saved

(* What a cancelled turn showed is kept and does not pass for an answer. *)
CutAnswerIsHonest == ShownIsKept /\ CancelledIsMarked

(* What the user is told and what the session holds agree.  A tool that ran *)
(* is recorded, nothing is recorded twice, no tool is left behind by the    *)
(* end of a turn, an answer that is announced as whole was saved, and one   *)
(* that was cut says so.                                                   *)
TurnTellsTheTruth ==
  RecordedOnce /\ NoToolLeftBehind /\ AnnouncedIsSaved /\ CutAnswerIsHonest

(* The turn ends, whoever cancels it, whatever the model asks for. *)
TurnEnds == <>(turnPc \in TurnOver)
=============================================================================
