------------------------------- MODULE ToolCall -------------------------------
(***************************************************************************)
(* One batch of tool calls, from the model's request to its results:       *)
(* _invoke_one (kernel/turn/engine.py), the interceptor chains around it    *)
(* (hooks.py, replacement.py), ToolExecutor (invoker.py) and the child     *)
(* tokens (cancel.py).  Turn takes each of these steps as a whole.         *)
(*                                                                         *)
(* toolPc names the await a call is suspended at.  A handler is a task of its *)
(* own: it may end at any time, or never, and its end is noticed later,    *)
(* so that a timer can go off in between.  Timers are events without a     *)
(* clock: they may go off early or late, but do go off.                    *)
(***************************************************************************)
EXTENDS Naturals, Sequences, SequencesExt, FiniteSets

CONSTANTS
  Calls,        (* the calls of the batch, or more                         *)
  Interceptors, (* "before" and "after" chain: whether each is critical    *)
  MaxOrphans    (* DEFAULT_MAX_ORPHANS                                     *)

ASSUME ToolCallAssumption ==
  /\ IsFiniteSet(Calls)
  /\ Interceptors \in [{"before", "after"} -> Seq(BOOLEAN)]
  /\ MaxOrphans \in Nat \ {0}

VARIABLES
  batch,      (* the calls that run side by side                           *)
  toolPc,     (* where each call is                                        *)
  place,      (* how many interceptors of its chain have let it pass       *)
  lawful,     (* the invocation still has the identity of the call         *)
  toolHandler,(* the handler's task                                        *)
  child,      (* the call's CancelToken: "unborn", "live" or "requested"   *)
  result,     (* what the call reports: see Results                        *)
  cancelled,  (* the turn's CancelToken                                    *)
  orphans,    (* ToolExecutor._orphans                                     *)
  dropped     (* ToolExecutor._orphans_dropped                             *)

toolVars == <<batch, toolPc, place, lawful, toolHandler, child, result, cancelled, orphans, dropped>>

Places   == {"queued", "before", "running", "grace", "after", "answered", "raised", "killed"}
Ended    == {"answered", "raised", "killed"}
Handlers == {"none", "running", "returned", "raised", "timed_out"}

(* A result of the kernel says that nothing happened ("untouched") or that  *)
(* nobody knows ("unknown"); "own" is the handler's, "replaced" a plugin's.*)
Results  == {"none", "untouched", "unknown", "own", "replaced"}
-----------------------------------------------------------------------------
ToolInit ==
  /\ batch \in SUBSET Calls \ {{}}
  /\ toolPc = [c \in Calls |-> "queued"]
  /\ place = [c \in Calls |-> 0]
  /\ lawful = [c \in Calls |-> TRUE]
  /\ toolHandler = [c \in Calls |-> "none"]
  /\ child = [c \in Calls |-> "unborn"]
  /\ result = [c \in Calls |-> "none"]
  /\ cancelled = FALSE
  /\ orphans = << >>
  /\ dropped = 0

tables == <<orphans, dropped>>

Answer(c, what) ==
  /\ toolPc' = [toolPc EXCEPT ![c] = "answered"]
  /\ result' = [result EXCEPT ![c] = what]

(* The executor has a result: the after_tool_call chain sees it, if there is one. *)
Conclude(c, what) ==
  /\ toolPc' = [toolPc EXCEPT ![c] = IF Interceptors["after"] = << >> THEN "answered" ELSE "after"]
  /\ place' = [place EXCEPT ![c] = 0]
  /\ result' = [result EXCEPT ![c] = what]

(* Mutant: a handler that raised is taken for one that did nothing. *)
OutcomeUntouched(c) == IF toolHandler[c] = "returned" THEN "own" ELSE "untouched"

(* What is known of a handler that has ended. *)
Outcome(c) == IF toolHandler[c] = "returned" THEN "own" ELSE "unknown"

(* Mutant: a child token does not ask its parent. *)
ChildAlwaysLive == "live"

(* CancelToken.child(): born cancelled if its parent is. *)
Child == IF cancelled THEN "requested" ELSE "live"

(* ToolExecutor.invoke(): arguments that do not fit the schema are refused  *)
(* before anything happens; else the handler starts.                       *)
Invoke(c, valid) ==
  IF valid THEN
    /\ toolPc' = [toolPc EXCEPT ![c] = "running"]
    /\ toolHandler' = [toolHandler EXCEPT ![c] = "running"]
    /\ child' = [child EXCEPT ![c] = Child]
    /\ UNCHANGED <<place, result>>
  ELSE Conclude(c, "untouched") /\ UNCHANGED <<toolHandler, child>>

(* _invoke_one() up to its first await: the tool may not exist, and a       *)
(* cancelled turn starts no more calls.                                    *)
Begin(c, known, valid) ==
  /\ c \in batch /\ toolPc[c] = "queued"
  /\ IF ~known \/ cancelled
     THEN Answer(c, "untouched") /\ UNCHANGED <<place, toolHandler, child>>
     ELSE IF Interceptors["before"] = << >> THEN Invoke(c, valid)
     ELSE toolPc' = [toolPc EXCEPT ![c] = "before"] /\ UNCHANGED <<place, result, toolHandler, child>>
  /\ UNCHANGED <<batch, lawful, cancelled, tables>>

(* The interceptors of a chain, one after the other. *)

(* The failure of an interceptor, be it an exception, a timeout or an       *)
(* answer the hook does not allow, counts only if its plugin is critical.  *)
Fatal(c, hook, verdict) == verdict = "fail" /\ Interceptors[hook][place[c] + 1]
IsLast(c, hook) == place[c] + 1 = Len(Interceptors[hook])

RaiseCall(c) == toolPc' = [toolPc EXCEPT ![c] = "raised"]

(* before_tool_call: a replacement is seen by the interceptors after it;    *)
(* only at the end of the chain is it looked at whether what came out is   *)
(* still the call that went in ("hijack": it is not).                      *)
Before(c, verdict, valid) ==
  LET same == IF verdict = "replace" THEN TRUE
              ELSE IF verdict = "hijack" THEN FALSE ELSE lawful[c] IN
  /\ toolPc[c] = "before"
  /\ IF verdict = "block"
     THEN Answer(c, "untouched") /\ UNCHANGED <<place, lawful, toolHandler, child>>
     ELSE /\ lawful' = [lawful EXCEPT ![c] = same]
          /\ IF Fatal(c, "before", verdict) \/ (IsLast(c, "before") /\ ~same)
             THEN RaiseCall(c) /\ UNCHANGED <<place, result, toolHandler, child>>
             ELSE IF IsLast(c, "before") THEN Invoke(c, valid)
             ELSE /\ place' = [place EXCEPT ![c] = @ + 1]
                  /\ UNCHANGED <<toolPc, result, toolHandler, child>>
  /\ UNCHANGED <<batch, cancelled, tables>>

(* after_tool_call: may replace the result, not undo the call. *)
After(c, verdict) ==
  /\ toolPc[c] = "after"
  /\ IF Fatal(c, "after", verdict) THEN RaiseCall(c) /\ UNCHANGED <<place, result>>
     ELSE /\ result' = [result EXCEPT ![c] = IF verdict = "replace" THEN "replaced" ELSE @]
          /\ IF IsLast(c, "after")
             THEN toolPc' = [toolPc EXCEPT ![c] = "answered"] /\ UNCHANGED place
             ELSE place' = [place EXCEPT ![c] = @ + 1] /\ UNCHANGED toolPc
  /\ UNCHANGED <<batch, lawful, toolHandler, child, cancelled, tables>>

(* The executor and the handler it waits for. *)

(* The handler's task ends: with a result, an exception, or the exception   *)
(* that the executor's own timer would raise.                              *)
HandlerEnds(c, how) ==
  /\ toolHandler[c] = "running"
  /\ toolHandler' = [toolHandler EXCEPT ![c] = how]
  /\ UNCHANGED <<batch, toolPc, place, lawful, child, result, cancelled, tables>>

(* _execute() or _after_timeout() sees that the task has ended. *)
HandlerSeen(c) ==
  /\ toolPc[c] \in {"running", "grace"}
  /\ toolHandler[c] \in {"returned", "raised"}
  /\ Conclude(c, Outcome(c))
  /\ UNCHANGED <<batch, lawful, toolHandler, child, cancelled, tables>>

(* _execute(): time is up, or so the handler says; it is asked to stop. *)
TimesOut(c) ==
  /\ toolPc[c] = "running"
  /\ toolPc' = [toolPc EXCEPT ![c] = "grace"]
  /\ child' = [child EXCEPT ![c] = "requested"]
  /\ UNCHANGED <<batch, place, lawful, toolHandler, result, cancelled, tables>>

(* Mutant: the table is one entry too long. *)
RegisterOffByOne(c) ==
  IF Len(orphans) > MaxOrphans
  THEN orphans' = Append(Tail(orphans), c) /\ dropped' = dropped + 1
  ELSE orphans' = Append(orphans, c) /\ UNCHANGED dropped

(* _register_orphan(): the oldest entry makes room, and is counted. *)
Register(c) ==
  IF Len(orphans) >= MaxOrphans
  THEN orphans' = Append(Tail(orphans), c) /\ dropped' = dropped + 1
  ELSE orphans' = Append(orphans, c) /\ UNCHANGED dropped

(* Mutant: after the grace period the handler is waited for. *)
GraceOverWhenEnded(c) ==
  /\ toolPc[c] = "grace" /\ toolHandler[c] # "running"
  /\ Register(c)
  /\ Conclude(c, "unknown")
  /\ UNCHANGED <<batch, lawful, toolHandler, child, cancelled>>

(* _after_timeout(): the grace period is over. *)
GraceOver(c) ==
  /\ toolPc[c] = "grace"
  /\ Register(c)
  /\ Conclude(c, "unknown")
  /\ UNCHANGED <<batch, lawful, toolHandler, child, cancelled>>

(* Cancellation. *)

(* CancelToken.request() of the turn reaches every child there is. *)
CancelTurn ==
  /\ ~cancelled
  /\ cancelled' = TRUE
  /\ child' = [c \in Calls |-> IF child[c] = "live" THEN "requested" ELSE child[c]]
  /\ UNCHANGED <<batch, toolPc, place, lawful, toolHandler, result, tables>>

(* finish_shutdown() cancels the turn's task: a call that runs in that task *)
(* is gone, the handler it shields is not; calls with tasks of their own   *)
(* go on (scheduling.py:73-80).                                            *)
Kill(c) ==
  /\ cancelled
  /\ batch = {c}
  /\ toolPc[c] \in {"before", "running", "grace", "after"}
  /\ toolPc' = [toolPc EXCEPT ![c] = "killed"]
  /\ UNCHANGED <<batch, place, lawful, toolHandler, child, result, cancelled, tables>>

BatchOver == (\A c \in batch : toolPc[c] \in Ended) /\ UNCHANGED toolVars

(* What the event loop owes a call: its own steps and its timers. *)
Step(c) ==
  \/ \E known, valid \in BOOLEAN : Begin(c, known, valid)
  \/ \E verdict \in {"continue", "replace", "hijack", "block", "fail"}, valid \in BOOLEAN :
       Before(c, verdict, valid)
  \/ \E verdict \in {"continue", "replace", "fail"} : After(c, verdict)
  \/ HandlerSeen(c)
  \/ TimesOut(c)
  \/ GraceOver(c)

ToolNext ==
  \/ \E c \in Calls : Step(c)
  \/ \E c \in Calls, how \in {"returned", "raised", "timed_out"} : HandlerEnds(c, how)
  \/ CancelTurn
  \/ \E c \in Calls : Kill(c)
  \/ BatchOver

(* Interceptors and calls have timers; nothing is asked of a handler. *)
ToolFairness == \A c \in Calls : WF_toolVars(Step(c))

ToolSpec == ToolInit /\ [][ToolNext]_toolVars /\ ToolFairness
-----------------------------------------------------------------------------
ToolTypeOK ==
  /\ batch \in SUBSET Calls \ {{}}
  /\ toolPc \in [Calls -> Places]
  /\ place \in [Calls -> Nat]
  /\ lawful \in [Calls -> BOOLEAN]
  /\ toolHandler \in [Calls -> Handlers]
  /\ child \in [Calls -> {"unborn", "live", "requested"}]
  /\ result \in [Calls -> Results]
  /\ cancelled \in BOOLEAN
  /\ orphans \in Seq(Calls) /\ Len(orphans) <= MaxOrphans
  /\ dropped \in Nat

(* What a call reports about side effects is never better than the truth:   *)
(* "nothing happened" only if the handler was never started, the handler's *)
(* own word only if it has ended (unless a plugin replaced the result).    *)
SideEffectsHonest ==
  \A c \in Calls :
    /\ result[c] = "untouched" => toolHandler[c] = "none"
    /\ result[c] = "own" => toolHandler[c] = "returned"
    /\ toolPc[c] = "answered" => result[c] # "none"

(* A handler that goes on after its call has been answered is in the table  *)
(* of orphans, or counted among those it has lost; and whoever runs in a   *)
(* cancelled turn, or past its time, has been asked to stop.  (A call that *)
(* is killed with its turn leaves no trace.)                               *)
Runaways == {c \in Calls : toolHandler[c] = "running" /\ toolPc[c] \in {"after", "answered", "raised"}}
RunawaysKnown ==
  /\ Cardinality(Runaways \ ToSet(orphans)) <= dropped
  /\ \A c \in Calls :
       toolHandler[c] = "running" /\ (cancelled \/ toolPc[c] # "running") => child[c] = "requested"

(* Both, with the types: what a batch reports of its calls can be relied on. *)
ToolResultsAreHonest == ToolTypeOK /\ SideEffectsHonest /\ RunawaysKnown

(* Every call of the batch comes to an end, even if no handler ever does. *)
CallsEnd == <>(\A c \in batch : toolPc[c] \in Ended)
=============================================================================
