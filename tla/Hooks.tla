------------------------------- MODULE Hooks -------------------------------
(***************************************************************************)
(* One dispatch of the hook router (kernel/turn/hooks.py): observers run   *)
(* side by side under one timeout, interceptors one after the other with a *)
(* timeout each, and what a chain of replacements hands back is validated  *)
(* by the caller (kernel/turn/replacement.py, contracts/capability.py).    *)
(***************************************************************************)
EXTENDS Naturals, Sequences, FiniteSets, SequencesExt

CONSTANTS
    HookBindings,   \* hook -> its handlers, in the order of their sort_key
    CriticalHooks,  \* the handlers bound as critical
    Remaining       \* milliseconds left in the turn

Observers == {"instance_ready", "instance_shutdown", "after_model_response", "turn_end"}
Interceptors == {"turn_start", "context_assemble", "before_model_request",
                 "before_tool_call", "after_tool_call"}
HookActions ==
    [turn_start |-> {"continue", "reject"}, context_assemble |-> {"continue", "replace"},
     before_model_request |-> {"continue", "replace"},
     before_tool_call |-> {"continue", "replace", "block"},
     after_tool_call |-> {"continue", "replace"}]
ReplaceSlot ==
    [turn_start |-> "none", context_assemble |-> "fragments", before_model_request |-> "request",
     before_tool_call |-> "invocation", after_tool_call |-> "result"]
Payloads == {"fragments", "request", "invocation", "result"}
Outcomes ==     \* a HookOutcome carries a payload exactly when it replaces
    {[action |-> a, slot |-> "none"] : a \in {"continue", "reject", "block"}}
        \union {[action |-> "replace", slot |-> s] : s \in Payloads}
Veto == {"reject", "block"}

(* A binding is a capability, registered once and bound to one hook.       *)
ASSUME HooksAssumption ==
    /\ DOMAIN HookBindings \subseteq Observers \union Interceptors
    /\ \A h \in DOMAIN HookBindings :
          HookBindings[h] \in Seq(ToSet(HookBindings[h])) /\ IsInjective(HookBindings[h])
    /\ Remaining \in Nat

Handlers == UNION {ToSet(HookBindings[h]) : h \in DOMAIN HookBindings}

VARIABLES
    hook,       \* the hook being dispatched
    at,         \* "idle", "batch", "cancelling", "chain", or how the dispatch ended
    next,       \* chain: the position of the interceptor that runs
    task,       \* batch: handler -> its task
    late,       \* batch: the observers past the timeout
    subject,    \* chain: who has rewritten the slot, and what became of its identity and timeout
    answer,     \* the action dispatch() returns
    reports,    \* what on_failure was told, in order
    culprit,    \* whose error left dispatch(), if one did
    said        \* history: interceptor -> its outcome
hookVars == <<hook, at, next, task, late, subject, answer, reports, culprit, said>>

Original == [by |-> <<>>, same |-> TRUE, timeout |-> Remaining]
HooksInit ==
    /\ hook = "none" /\ at = "idle" /\ next = 0
    /\ task = [h \in Handlers |-> "none"] /\ late = {}
    /\ subject = Original /\ answer = "none"
    /\ reports = <<>> /\ culprit = "none"
    /\ said = [h \in Handlers |-> "none"]

Chain == HookBindings[hook]
DispatchHook(h) ==      \* no binding answers CONTINUE at once
    /\ at = "idle"
    /\ hook' = h
    /\ IF HookBindings[h] = <<>> THEN /\ at' = "returned" /\ answer' = "continue"
                                  /\ UNCHANGED <<next, task>>
       ELSE IF h \in Observers
       THEN /\ at' = "batch" /\ UNCHANGED <<next, answer>>
            /\ task' = [b \in Handlers |-> IF b \in ToSet(HookBindings[h]) THEN "running" ELSE "none"]
       ELSE at' = "chain" /\ next' = 1 /\ UNCHANGED <<task, answer>>
    /\ UNCHANGED <<late, subject, reports, culprit, said>>
---------------------------------------------------------------------------
(* Observers.                                                              *)

Over(h) == task[h] \notin {"running", "cancelled"}
ObserverEnds(h) ==  \* returns, raises, or ends cancelled by something of its own
    /\ task[h] = "running"
    /\ \E end \in {"ok", "failed", "cancelled_itself"} : task' = [task EXCEPT ![h] = end]
    /\ UNCHANGED <<hook, at, next, late, subject, answer, reports, culprit, said>>
ObserverStops(h) == \* after task.cancel(), at once or after swallowing it for a while
    /\ task[h] = "cancelled" /\ task' = [task EXCEPT ![h] = "gone"]
    /\ UNCHANGED <<hook, at, next, late, subject, answer, reports, culprit, said>>

(* Mutant: the tasks past the timeout are waited for as they are. *)
WaitTimesOutUncancelled ==
    /\ at = "batch"
    /\ late' = {h \in ToSet(Chain) : task[h] = "running"} /\ late' # {}
    /\ at' = "cancelling"
    /\ UNCHANGED <<hook, next, task, subject, answer, reports, culprit, said>>
WaitTimesOut ==     \* asyncio.wait: the pending tasks are cancelled and gathered
    /\ at = "batch"
    /\ late' = {h \in ToSet(Chain) : task[h] = "running"} /\ late' # {}
    /\ task' = [h \in Handlers |-> IF h \in late' THEN "cancelled" ELSE task[h]]
    /\ at' = "cancelling"
    /\ UNCHANGED <<hook, next, subject, answer, reports, culprit, said>>

Failed == {h \in ToSet(Chain) \ late : task[h] = "failed"}
ReportBatch ==      \* task.exception() of a task that was cancelled raises instead
    /\ at \in {"batch", "cancelling"} /\ \A h \in ToSet(Chain) : Over(h)
    /\ LET tell(of) == SetToSeq({<<h, "timeout">> : h \in late})
                            \o SetToSeq({<<h, "failure">> : h \in of})
           bad == {h \in ToSet(Chain) \ late : task[h] = "cancelled_itself"}
       IN  \/ /\ bad = {} /\ reports' = tell(Failed)
              /\ at' = "returned" /\ answer' = "continue" /\ UNCHANGED culprit
           \/ \E of \in SUBSET Failed, h \in bad :      \* done is a set: any order
              /\ reports' = tell(of) /\ at' = "escaped" /\ culprit' = h /\ UNCHANGED answer
    /\ UNCHANGED <<hook, next, task, late, subject, said>>
---------------------------------------------------------------------------
(* Interceptors.                                                           *)

(* Mutant: every error ends the chain. *)
SettleRaising(h, what) ==
    /\ reports' = Append(reports, <<h, what>>)
    /\ at' = "raised" /\ culprit' = h
    /\ UNCHANGED <<next, subject, answer>>
Settle(h, what) ==  \* report; a critical handler's error ends the chain
    /\ reports' = Append(reports, <<h, what>>)
    /\ IF h \in CriticalHooks
       THEN at' = "raised" /\ culprit' = h /\ UNCHANGED next
       ELSE next' = next + 1 /\ UNCHANGED <<at, culprit>>
    /\ UNCHANGED <<subject, answer>>

Running == IF at = "chain" /\ next <= Len(Chain) THEN {Chain[next]} ELSE {}
(* The handler answers within its timeout, or swallows the cancellation of *)
(* wait_for and answers late: its outcome counts in both cases.            *)
InterceptorAnswers(h) ==
    /\ h \in Running
    /\ \E out \in Outcomes, same \in BOOLEAN, timeout \in {0, 1, Remaining + 1} :
        /\ (out.action # "replace" => same /\ timeout = 0)
        /\ said' = [said EXCEPT ![h] = out.action]
        /\ \/ /\ out.action \notin HookActions[hook] \/ out.slot \notin {"none", ReplaceSlot[hook]}
              /\ Settle(h, "rejected_outcome")
           \/ /\ out.action \in HookActions[hook] \ {"replace"}
              /\ IF out.action \in Veto THEN at' = "returned" /\ answer' = out.action /\ UNCHANGED next
                                        ELSE next' = next + 1 /\ UNCHANGED <<at, answer>>
              /\ UNCHANGED <<subject, reports, culprit>>
           \/ /\ out.action \in HookActions[hook] /\ out.slot = ReplaceSlot[hook] /\ out.slot # "none"
              /\ subject' = [by |-> Append(subject.by, h), same |-> same, timeout |-> timeout]
              /\ next' = next + 1
              /\ UNCHANGED <<at, answer, reports, culprit>>
    /\ UNCHANGED <<hook, task, late>>
InterceptorEscapes(h) ==    \* a CancelledError of its own is no Exception: nothing settles it
    /\ h \in Running
    /\ at' = "escaped" /\ culprit' = h
    /\ said' = [said EXCEPT ![h] = "cancelled_itself"]
    /\ UNCHANGED <<hook, next, task, late, subject, answer, reports>>
InterceptorFails(h) ==
    /\ h \in Running
    /\ \E what \in {"failure", "timeout"} : Settle(h, what)
    /\ said' = [said EXCEPT ![h] = "failed"]
    /\ UNCHANGED <<hook, task, late>>

(* The end of the chain, and what its caller makes of a replacement: a     *)
(* model request keeps its correlation and never gets more time than the   *)
(* turn has left, a tool call keeps everything but its arguments.          *)
LeastOf(a, b) == IF a < b THEN a ELSE b
(* Mutant: the time that is left is not looked at. *)
ValidatedModelRequestUnclamped(s) == s
ValidatedModelRequest(s) ==
    [s EXCEPT !.timeout = LET asked == LeastOf(IF @ = 0 THEN Remaining ELSE @, Remaining)
                          IN  IF asked < 1 THEN 1 ELSE asked]
ChainEnds ==
    /\ at = "chain" /\ next > Len(Chain)
    /\ IF subject.by = <<>> THEN at' = "returned" /\ answer' = "continue" /\ UNCHANGED subject
       ELSE CASE hook = "before_model_request" /\ subject.same ->
                    /\ at' = "returned" /\ answer' = "replace"
                    /\ subject' = ValidatedModelRequest(subject)
              [] hook = "before_tool_call" /\ subject.same /\ subject.timeout = 0 ->
                    at' = "returned" /\ answer' = "replace" /\ UNCHANGED subject
              [] hook \in {"context_assemble", "after_tool_call"} ->
                    at' = "returned" /\ answer' = "replace" /\ UNCHANGED subject
              [] OTHER -> at' = "invalid" /\ UNCHANGED <<answer, subject>>
    /\ UNCHANGED <<hook, next, task, late, reports, culprit, said>>

TurnKilled ==       \* CancelledError reaches dispatch(): wait leaves its tasks alone, gather
    /\ at \in {"batch", "cancelling", "chain"}      \* cancels them, and they run on unwatched
    /\ at' = "killed"
    /\ UNCHANGED <<hook, next, task, late, subject, answer, reports, culprit, said>>

Handle(h) == ObserverStops(h) \/ InterceptorFails(h)
RouterStep == WaitTimesOut \/ ReportBatch \/ ChainEnds \/ \E h \in Handlers : Handle(h)
HooksNext ==
    \/ \E h \in DOMAIN HookBindings : DispatchHook(h)
    \/ \E h \in Handlers : ObserverEnds(h) \/ InterceptorAnswers(h) \/ InterceptorEscapes(h)
    \/ RouterStep \/ TurnKilled
HooksFairness == WF_hookVars(RouterStep)
HooksSpec == HooksInit /\ [][HooksNext]_hookVars /\ HooksFairness

---------------------------------------------------------------------------
(* Properties                                                              *)

Told(h) == Cardinality({i \in DOMAIN reports : reports[i][1] = h})
Called == IF hook \in Interceptors THEN {Chain[i] : i \in 1..LeastOf(next, Len(Chain))} ELSE {}

Vetoed(h) == said[h] \in Veto /\ Told(h) = 0
Kept == {h \in Called : said[h] = "replace" /\ Told(h) = 0}
InOrder(q) ==
    \A i, j \in DOMAIN q, k, m \in DOMAIN Chain : i < j /\ q[i] = Chain[k] /\ q[j] = Chain[m] => k < m

(* NFR-204: what leaves the dispatch is a critical interceptor's own       *)
(* failure, or the cancellation of a handler that ended cancelled by       *)
(* itself (which hooks.py:186 does not allow for, an observer's least of   *)
(* all); then no observer is left running, and whoever was late, or of the *)
(* interceptors failed before, has been reported once.  In a dispatch that *)
(* returns, every handler that failed was reported exactly once and no     *)
(* other was; no observer is left running; and what comes back is the      *)
(* accepted replacements in order, or the veto of the last handler called. *)
SelfCancelled ==
    /\ \A h \in ToSet(Chain) : Told(h) <= 1
    /\ hook \in Observers =>
          /\ culprit \in ToSet(Chain) \ late /\ task[culprit] = "cancelled_itself"
          /\ \A h \in ToSet(Chain) :
                Over(h) /\ (h \in late => Told(h) = 1) /\ (h \notin Failed \union late => Told(h) = 0)
    /\ hook \in Interceptors =>
          /\ next \in DOMAIN Chain /\ culprit = Chain[next]
          /\ said[culprit] = "cancelled_itself" /\ Told(culprit) = 0
          /\ \A h \in Called : said[h] = "failed" => Told(h) = 1
Isolation ==
    /\ at = "raised" => culprit \in CriticalHooks /\ Last(reports)[1] = culprit
    /\ at = "escaped" => SelfCancelled
    /\ at = "returned" /\ hook \in Observers =>
          \A h \in ToSet(Chain) : Over(h) /\ Told(h) = (IF h \in Failed \union late THEN 1 ELSE 0)
    /\ at \in {"returned", "invalid"} /\ hook \in Interceptors =>
          /\ \A h \in Called : Told(h) <= 1 /\ (said[h] = "failed" => Told(h) = 1)
          /\ ToSet(subject.by) = Kept /\ InOrder(subject.by)
          /\ answer = "replace" => Kept # {}
          /\ \A h \in Called : Vetoed(h) => h = Chain[next] /\ answer = said[h]
          /\ answer \in Veto => next <= Len(Chain) /\ Vetoed(Chain[next]) /\ answer = said[Chain[next]]

(* A replacement the turn adopts keeps its identity and fits the time that *)
(* is left (a millisecond at least), whatever the chain of handlers did.   *)
AdoptedIsValid ==
    answer = "replace" /\ hook \in {"before_model_request", "before_tool_call"} =>
        /\ subject.same
        /\ hook = "before_model_request" =>
              subject.timeout >= 1 /\ (subject.timeout <= Remaining \/ subject.timeout = 1)

(* The hook router: a handler that fails, hangs or rewrites what it should *)
(* not leaves the turn its other handlers, its reports and its request.    *)
HooksAreIsolated == Isolation /\ AdoptedIsValid

(* Handlers hang, fail and answer late: the dispatch ends all the same, as *)
(* long as a cancelled observer ends at some time.                         *)
DispatchEnds == at \in {"batch", "cancelling", "chain"} ~>
                    at \in {"returned", "raised", "invalid", "escaped", "killed"}
=============================================================================
