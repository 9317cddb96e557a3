-------------------------------- MODULE Retry --------------------------------
(***************************************************************************)
(* kernel/turn/retry.py: RetryingModel, the wrapper through which a turn    *)
(* sends one model request, as the engine consumes it (engine.py:164-174). *)
(*                                                                         *)
(* A streamed response is held back in a gate until its first substantive  *)
(* chunk; until then a failure, or an empty answer, may be sent again.     *)
(* Time is counted in ticks.  A chunk is known by the attempt it belongs   *)
(* to and its place in it; complete()'s response is a response of a single *)
(* chunk.  The provider is the environment.                                *)
(***************************************************************************)
EXTENDS Naturals, Sequences

CONSTANTS
  MaxAttempts,  (* policy.max_attempts                                     *)
  BaseDelay,    (* policy.base_delay_ms                                    *)
  MaxDelay,     (* policy.max_delay_ms                                     *)
  PollSlice,    (* RETRY_POLL_MS                                           *)
  MaxHeld,      (* MAX_HELD_CHUNKS                                         *)
  Deadline,     (* bound: ticks the turn has left when the request is made *)
  MaxChunks,    (* bound: chunks of one response                           *)
  Hints         (* bound: values of detail["retry_after_ms"]               *)

ASSUME RetryAssumption ==
  /\ MaxAttempts \in Nat \ {0} /\ BaseDelay \in Nat \ {0} /\ MaxDelay \in Nat \ {0}
  /\ PollSlice \in Nat \ {0} /\ MaxHeld \in Nat \ {0}
  /\ Deadline \in Nat /\ MaxChunks \in Nat /\ Hints \subseteq Nat

(* What matters of a chunk: "text" stands for TEXT, REASONING and TOOL_CALL,*)
(* "usage" for USAGE and OPAQUE, the others for DONE by its stop reason,   *)
(* "refused" being any reason but END_TURN and ERROR.                      *)
Stops    == {"end_turn", "refused", "error"}
Kinds    == {"text", "usage"} \cup Stops
Causes   == {"transient", "broken", "empty", "permanent", "cancelled"}

VARIABLES
  setting,    (* stream, tools already run in the turn, retry_empty_response *)
  pc,         (* "call": awaiting the provider; "backoff"; "returned"; "raised" *)
  attempt,    (* stream()'s and complete()'s local of that name            *)
  arrived,    (* kinds of the chunks this attempt has received             *)
  gate,       (* _StreamGate: held, opened                                 *)
  delivered,  (* chunks the engine has been given, over all attempts       *)
  remaining,  (* ledger.remaining_ms()                                     *)
  wait,       (* wait_before_retry: what is left after this slice, slice   *)
  token,      (* reason of the turn's CancelToken, or "none"               *)
  failure,    (* the error the engine gets, or "none"                      *)
  told        (* model.request_failed events: their "retrying"             *)

vars == <<setting, pc, attempt, arrived, gate, delivered, remaining, wait,
          token, failure, told>>

Least(m, n) == IF m <= n THEN m ELSE n
Most(m, n)  == IF m >= n THEN m ELSE n

ClosedGate == [held |-> << >>, opened |-> FALSE]
NoWait     == [left |-> 0, slice |-> 0]
-----------------------------------------------------------------------------
Init ==
  /\ setting \in [stream : BOOLEAN, after_tools : BOOLEAN, retry_empty : BOOLEAN]
  /\ pc = "call"
  /\ attempt = 1
  /\ arrived = << >>
  /\ gate = ClosedGate
  /\ delivered = << >>
  /\ remaining \in 0..Deadline
  /\ wait = NoWait
  /\ token = "none"
  /\ failure = "none"
  /\ told = << >>

(* Decisions. *)

(* retry_delay_ms(): the delays it may return; none means no retry.  The    *)
(* jitter takes the computed delay down to half of it at the most, a hint  *)
(* of the server counts as it is; cancellations are never retried.         *)
Ceiling  == Least(MaxDelay, BaseDelay * 2^(attempt - 1))
Jittered == {Most(1, d) : d \in (Ceiling \div 2)..(Ceiling - 1)}

(* Mutant: one attempt too many. *)
DelaysOffByOne(cause) ==
  IF cause \in {"cancelled", "permanent"} \/ attempt > MaxAttempts THEN {}
  ELSE IF cause = "transient" THEN Jittered \cup Hints
  ELSE Jittered

Delays(cause) ==
  IF cause \in {"cancelled", "permanent"} \/ attempt >= MaxAttempts THEN {}
  ELSE IF cause = "transient" THEN Jittered \cup Hints
  ELSE Jittered

(* Mutant: a stream without DONE is no answer. *)
EmptyAnswerWithDone(kinds) ==
  /\ \E i \in DOMAIN kinds : kinds[i] = "end_turn"
  /\ \A i \in DOMAIN kinds : kinds[i] \in {"usage", "end_turn"}

(* is_empty_answer() of what an attempt has sent. *)
EmptyAnswer(kinds) ==
  \A i \in DOMAIN kinds : kinds[i] \in {"usage", "end_turn"}

TreatedAsEmpty(kinds) ==
  ~setting.after_tools /\ setting.retry_empty /\ EmptyAnswer(kinds)

(* Ends of the call. *)
Return == pc' = "returned" /\ UNCHANGED failure
Raise(cause) == pc' = "raised" /\ failure' = cause

(* Mutant: one gate for all attempts. *)
ResendKeepingGate ==
  /\ pc' = "call"
  /\ attempt' = attempt + 1
  /\ arrived' = << >> /\ wait' = NoWait
  /\ UNCHANGED <<gate, failure>>

(* The next turn of the loop of stream() and complete(). *)
Resend ==
  /\ pc' = "call"
  /\ attempt' = attempt + 1
  /\ arrived' = << >> /\ gate' = ClosedGate /\ wait' = NoWait
  /\ UNCHANGED failure

Abort ==
  /\ Raise("cancelled")
  /\ wait' = NoWait
  /\ UNCHANGED <<attempt, arrived, gate>>

Sleep(delay) ==
  LET slice == Least(PollSlice, delay) IN
  /\ pc' = "backoff"
  /\ wait' = [left |-> delay - slice, slice |-> slice]
  /\ UNCHANGED <<attempt, arrived, gate, failure>>

(* Mutant: the end of the wait is looked at before the token. *)
AwaitReturningFirst(delay) ==
  IF delay = 0 THEN Resend ELSE IF token # "none" THEN Abort ELSE Sleep(delay)

(* The loop of wait_before_retry(): the token first, then the next slice,  *)
(* or, with nothing left to wait for, the next attempt.                    *)
Await(delay) ==
  IF token # "none" THEN Abort ELSE IF delay = 0 THEN Resend ELSE Sleep(delay)

(* _again() after a failed attempt: tell of it, then wait if a retry is due *)
(* and fits into the time the turn has left; else the failure is raised.   *)
GiveUp(cause) ==
  /\ told' = Append(told, FALSE)
  /\ Raise(cause)
  /\ UNCHANGED <<attempt, arrived, gate, wait>>

Fails(cause) ==
  /\ \/ \E delay \in Delays(cause) :
          IF delay < remaining
          THEN told' = Append(told, TRUE) /\ Await(delay)
          ELSE GiveUp(cause)
     \/ Delays(cause) = {} /\ GiveUp(cause)
  /\ UNCHANGED <<setting, delivered, remaining, token>>
-----------------------------------------------------------------------------
(* The provider. *)

(* Chunks handed to the engine, which looks at the token on each of them.  *)
(* Only a substantive chunk makes the engine wait, and it comes last.      *)
ChunksOf(a, kinds) ==
  [i \in DOMAIN kinds |-> [attempt |-> a, place |-> i, kind |-> kinds[i]]]
Chunks(kinds) == ChunksOf(attempt, kinds)

Deliver(chunks) ==
  IF token # "none" THEN Raise("cancelled") /\ UNCHANGED delivered
  ELSE delivered' = delivered \o chunks /\ UNCHANGED <<pc, failure>>

(* _StreamGate.admit(). *)
Admit(chunk) ==
  LET flushed == Append(gate.held, chunk) IN
  IF gate.opened THEN Deliver(<<chunk>>) /\ UNCHANGED gate
  ELSE IF chunk.kind = "text" \/ Len(flushed) >= MaxHeld
  THEN gate' = [held |-> << >>, opened |-> TRUE] /\ Deliver(flushed)
  ELSE gate' = [gate EXCEPT !.held = flushed] /\ UNCHANGED <<pc, failure, delivered>>

(* stream(): a chunk arrives; the stream has not sent its DONE yet. *)
Chunk(kind) ==
  LET kinds == Append(arrived, kind)
      chunk == Chunks(kinds)[Len(kinds)] IN
  /\ pc = "call" /\ setting.stream
  /\ Len(arrived) < MaxChunks
  /\ \A i \in DOMAIN arrived : arrived[i] \notin Stops
  /\ IF kind = "error" /\ ~gate.opened
     THEN Fails("broken")
     ELSE /\ arrived' = kinds
          /\ Admit(chunk)
          /\ UNCHANGED <<setting, attempt, remaining, wait, token, told>>

(* stream(): the provider's stream is over.  A gate that never opened is    *)
(* judged as a whole, and what it holds is let through unless that is      *)
(* nothing where something was owed.                                       *)
FlushHeld ==
  /\ IF gate.held # << >> /\ token # "none"
     THEN Raise("cancelled") /\ UNCHANGED delivered
     ELSE Return /\ delivered' = delivered \o gate.held
  /\ UNCHANGED <<setting, attempt, arrived, gate, remaining, wait, token, told>>

StreamEnds ==
  /\ pc = "call" /\ setting.stream
  /\ IF ~gate.opened /\ TreatedAsEmpty(arrived) THEN Fails("empty") ELSE FlushHeld

(* complete(): the response, empty ("end_turn", "refused") or not. *)
Response(kind) ==
  /\ pc = "call" /\ ~setting.stream
  /\ IF TreatedAsEmpty(<<kind>>) THEN Fails("empty")
     ELSE /\ Return
          /\ arrived' = <<kind>>
          /\ delivered' = delivered \o Chunks(<<kind>>)
          /\ UNCHANGED <<setting, attempt, gate, remaining, wait, token, told>>

(* The provider raises: beyond the gate that is the end of the call. *)
ProviderRaises(cause) ==
  /\ pc = "call"
  /\ cause = "cancelled" => token # "none"
  /\ IF gate.opened
     THEN /\ Raise(cause)
          /\ UNCHANGED <<setting, attempt, arrived, gate, delivered, remaining,
                         wait, token, told>>
     ELSE Fails(cause)

(* Time and cancellation. *)

(* asyncio.sleep() of a slice is over. *)
Wake ==
  /\ pc = "backoff" /\ wait.slice = 0
  /\ Await(wait.left)
  /\ UNCHANGED <<setting, delivered, remaining, token, told>>

(* Timers are punctual: no time passes while a sleeper is due. *)
Tick ==
  /\ \/ pc = "call" /\ remaining > 0
     \/ pc = "backoff" /\ wait.slice > 0
  /\ remaining' = Most(1, remaining) - 1
  /\ wait' = [wait EXCEPT !.slice = Most(1, @) - 1]
  /\ UNCHANGED <<setting, pc, attempt, arrived, gate, delivered, token, failure, told>>

(* Mutant: a hanging provider is not told. *)
CancelBackoffOnly(reason) ==
  /\ pc = "backoff"
  /\ token = "none"
  /\ reason = "timeout" => remaining = 0
  /\ token' = reason
  /\ UNCHANGED <<setting, pc, attempt, arrived, gate, delivered, remaining,
                 wait, failure, told>>

(* TurnTracker.cancel(), or the turn's _watchdog when its time is up. *)
Cancel(reason) ==
  /\ pc \in {"call", "backoff"}
  /\ token = "none"
  /\ reason = "timeout" => remaining = 0
  /\ token' = reason
  /\ UNCHANGED <<setting, pc, attempt, arrived, gate, delivered, remaining,
                 wait, failure, told>>

Terminated == pc \in {"returned", "raised"} /\ UNCHANGED vars

Next ==
  \/ \E kind \in Kinds : Chunk(kind)
  \/ \E kind \in {"text", "end_turn", "refused"} : Response(kind)
  \/ StreamEnds
  \/ \E cause \in {"transient", "permanent", "cancelled"} : ProviderRaises(cause)
  \/ Wake
  \/ Tick
  \/ \E reason \in {"user", "timeout"} : Cancel(reason)
  \/ Terminated

(* Time passes, due timers fire, and a provider heeds the token: "looks at  *)
(* it before each chunk and raises" (contracts/protocols.py:237).          *)
Fairness ==
  /\ WF_vars(Tick) /\ WF_vars(Wake) /\ WF_vars(Cancel("timeout"))
  /\ WF_vars(ProviderRaises("cancelled"))

Spec == Init /\ [][Next]_vars /\ Fairness
-----------------------------------------------------------------------------
TypeOK ==
  /\ setting \in [stream : BOOLEAN, after_tools : BOOLEAN, retry_empty : BOOLEAN]
  /\ pc \in {"call", "backoff", "returned", "raised"}
  /\ attempt \in 1..MaxAttempts
  /\ arrived \in Seq(Kinds)
  /\ gate \in [held : Seq([attempt : Nat, place : Nat, kind : Kinds]), opened : BOOLEAN]
  /\ Len(gate.held) < MaxHeld
  /\ delivered \in Seq([attempt : Nat, place : Nat, kind : Kinds])
  /\ remaining \in 0..Deadline
  /\ wait \in [left : Nat, slice : 0..PollSlice]
  /\ token \in {"none", "user", "timeout"}
  /\ failure \in Causes \cup {"none"}
  /\ told \in Seq(BOOLEAN) /\ Len(told) <= MaxAttempts

(* What the user sees comes from one attempt, in order and with no gap; a   *)
(* stream that returns has kept nothing back.                              *)
StreamFaithful ==
  /\ \A i \in DOMAIN delivered :
       delivered[i] = [attempt |-> attempt, place |-> i, kind |-> arrived[i]]
  /\ pc = "returned" => Len(delivered) = Len(arrived)

(* A request is sent again only while nothing of it was shown, for a turn   *)
(* that nobody has cancelled and that still has time (retry.py:191).       *)
ResendIsHarmless ==
  [][attempt' # attempt => delivered = << >> /\ token = "none" /\ remaining > 0]_vars

(* No failure is silent: a request that succeeds at the n-th attempt was    *)
(* told of n - 1 times, the last word on a failed one is that it is not    *)
(* retried, and an answer that says nothing is reported, unless tools ran, *)
(* or the switch is off, or the gate gave up judging.                      *)
Silent == \A i \in DOMAIN delivered : delivered[i].kind \in {"usage", "end_turn"}
FailuresReported ==
  /\ pc \in {"call", "returned"} => Len(told) = attempt - 1
  /\ \A i \in DOMAIN told : i < attempt => told[i]
  /\ pc = "raised" /\ ~gate.opened /\ failure # "cancelled" =>
       Len(told) = attempt /\ ~told[attempt]
  /\ pc = "returned" /\ Silent =>
       setting.after_tools \/ ~setting.retry_empty \/ gate.opened

(* The call ends, whatever the provider does, as long as it heeds the token. *)
CallEnds == <>(pc \in {"returned", "raised"})
=============================================================================
