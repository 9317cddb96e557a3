-------------------------------- MODULE Shell --------------------------------
(***************************************************************************)
(* One call of the shell tool (executor.py, process.py): the arguments are *)
(* checked, the process is started, watched, and ended in three steps when *)
(* the time is up or the turn is cancelled; its output is collected and    *)
(* the call folded into a result.  The executor of the turn may cancel the *)
(* call's own task as well.                                                *)
(*                                                                         *)
(* Time is counted in ticks; it stands still while the call has a step to  *)
(* take.  The command may leave a descendant behind that keeps its pipes.  *)
(***************************************************************************)
EXTENDS Naturals

CONSTANTS
    Timeout,        \* effective_timeout_ms: the smaller of the call's and the settings'
    Grace,          \* grace_ms
    Collect         \* how long one pipe is waited for

VARIABLES
    pc,             \* where the call is
    clock,          \* ticks since the call began
    until,          \* when the step it waits in ends
    proc,           \* the process: "none", "running", "exited"
    signals,        \* what was sent to it: "term", "kill"
    reaped,         \* the waiter of its exit is done
    holders,        \* a descendant holds its pipes
    cancel,         \* the turn's cancellation is requested
    abandoned,      \* the call's own task is cancelled
    outcome,        \* [kind, timedOut] of the supervision
    output,         \* what was read: "none", "all" or "lost"
    result          \* [ok, effect, error] given to the turn
vars == <<pc, clock, until, proc, signals, reaped, holders, cancel, abandoned, outcome, output, result>>
process == <<proc, signals, reaped, holders>>
asked == <<cancel, abandoned>>

NoOutcome == [kind |-> "none", timedOut |-> FALSE]
NoResult == [ok |-> FALSE, effect |-> "none", error |-> "pending"]
Init ==
    /\ pc = "entry" /\ clock = 0 /\ until = 0
    /\ proc = "none" /\ signals = {} /\ reaped = FALSE /\ holders = FALSE
    /\ cancel \in BOOLEAN /\ abandoned = FALSE
    /\ outcome = NoOutcome /\ output = "none" /\ result = NoResult

Finish(ok, effect, error) ==
    pc' = "done" /\ result' = [ok |-> ok, effect |-> effect, error |-> error]
-------------------------------------------------------------------------------
(* The call.                                                               *)

(* Cancelled, or an argument, the command or the directory is refused.     *)
Refuse ==
    /\ pc = "entry"
    /\ \E error \in IF cancel THEN {"cancelled"} ELSE {"malformed", "too_large", "outside"} :
        Finish(FALSE, "none", error)
    /\ UNCHANGED <<clock, until, process, asked, outcome, output>>
Spawn ==
    /\ pc = "entry" /\ ~cancel
    /\ pc' = "watch" /\ until' = clock + Timeout
    /\ proc' = "running" /\ holders' \in BOOLEAN
    /\ UNCHANGED <<clock, signals, reaped, asked, outcome, output, result>>
(* The shell cannot be started: folded like a command that ran and ended.  *)
SpawnFails ==
    /\ pc = "entry" /\ ~cancel
    /\ outcome' = [kind |-> "completed", timedOut |-> FALSE]
    /\ Finish(TRUE, "occurred", "")
    /\ UNCHANGED <<clock, until, process, asked, output>>

Supervised(kind, timedOut) ==
    /\ outcome' = [kind |-> kind, timedOut |-> timedOut]
    /\ pc' = "stdout" /\ until' = clock + Collect
    /\ UNCHANGED <<clock, process, asked, output, result>>
Completes == pc = "watch" /\ reaped /\ Supervised("completed", FALSE)
(* Polled: not before its time is up or the turn is cancelled.             *)
Terminate ==
    /\ pc = "watch" /\ ~reaped
    /\ clock >= until \/ cancel
    /\ outcome' = [kind |-> "stopping", timedOut |-> clock >= until]
    /\ signals' = signals \union {"term"}
    /\ pc' = "grace" /\ until' = clock + Grace
    /\ UNCHANGED <<clock, proc, reaped, holders, asked, output, result>>
Terminated == pc = "grace" /\ reaped /\ Supervised("terminated", outcome.timedOut)
Kill ==
    /\ pc = "grace" /\ ~reaped /\ clock >= until
    /\ signals' = signals \union {"kill"}
    /\ pc' = "reap" /\ until' = clock + Grace
    /\ UNCHANGED <<clock, proc, reaped, holders, asked, outcome, output, result>>
GraceExpired == pc = "reap" /\ (reaped \/ clock >= until) /\ Supervised("grace_expired", outcome.timedOut)

(* Each pipe is read to its end, and all of it is lost when the end does   *)
(* not come in time.                                                       *)
AtEnd == proc = "exited" /\ ~holders
Read(ended) == output' = IF ended /\ output # "lost" THEN "all" ELSE "lost"
NextPipe ==
    IF pc = "stdout" THEN pc' = "stderr" /\ until' = clock + Collect ELSE pc' = "fold" /\ UNCHANGED until
Drain ==
    /\ pc \in {"stdout", "stderr"} /\ (AtEnd \/ clock >= until)
    /\ Read(AtEnd) /\ NextPipe
    /\ UNCHANGED <<clock, process, asked, outcome, result>>

(* Mutant: the process outlives its call. *)
ReleaseNothing == signals' = signals
(* The transport is closed with the call, which kills what still runs.     *)
Release == signals' = IF proc = "running" THEN signals \union {"kill"} ELSE signals
Fold ==
    /\ pc = "fold" /\ Release
    /\ \/ outcome.kind = "grace_expired" /\ Finish(FALSE, "unknown", "timeout_cancel")
       \/ /\ outcome.kind = "terminated"
          /\ Finish(FALSE, "occurred", IF outcome.timedOut THEN "timeout" ELSE "cancelled")
       \/ outcome.kind = "completed" /\ Finish(TRUE, "occurred", "")
    /\ UNCHANGED <<clock, until, proc, reaped, holders, asked, outcome, output>>
-------------------------------------------------------------------------------
(* The turn: its cancellation, and the end of its own wait for the call.   *)
(* A cancelled task gives up where it waits, but takes a pipe it is        *)
(* collecting for one that did not end.                                    *)

RequestCancel ==
    /\ ~cancel /\ pc # "done"
    /\ cancel' = TRUE
    /\ UNCHANGED <<pc, clock, until, process, abandoned, outcome, output, result>>
Abandon ==
    /\ ~abandoned /\ pc \in {"watch", "grace", "reap", "stdout", "stderr"}
    /\ cancel \/ clock >= Timeout
    /\ abandoned' = TRUE
    /\ IF pc \in {"stdout", "stderr"} THEN Read(FALSE) /\ NextPipe /\ UNCHANGED <<signals, result>>
       ELSE pc' = "gone" /\ Release /\ UNCHANGED <<until, output, result>>
    /\ UNCHANGED <<clock, proc, reaped, holders, cancel, outcome>>
-------------------------------------------------------------------------------
(* The process and time.                                                   *)

(* It ends by itself, by the first signal unless it ignores that, or by    *)
(* the last.                                                               *)
Exit ==
    /\ proc = "running" /\ proc' = "exited"
    /\ UNCHANGED <<pc, clock, until, signals, reaped, holders, asked, outcome, output, result>>
Reap ==
    /\ proc = "exited" /\ ~reaped /\ reaped' = TRUE
    /\ UNCHANGED <<pc, clock, until, proc, signals, holders, asked, outcome, output, result>>
DescendantEnds ==
    /\ holders /\ holders' = FALSE
    /\ UNCHANGED <<pc, clock, until, proc, signals, reaped, asked, outcome, output, result>>
Due ==
    \/ pc \in {"entry", "fold"}
    \/ pc = "watch" /\ (reaped \/ cancel)
    \/ pc \in {"grace", "reap"} /\ reaped
    \/ pc \in {"stdout", "stderr"} /\ AtEnd
    \/ pc \in {"watch", "grace", "reap", "stdout", "stderr"} /\ clock >= until
Tick ==
    /\ ~Due /\ pc \notin {"done", "gone"}
    /\ clock' = clock + 1
    /\ UNCHANGED <<pc, until, process, asked, outcome, output, result>>

CallSteps ==
    \/ Refuse \/ Spawn \/ SpawnFails \/ Completes \/ Terminate \/ Terminated
    \/ Kill \/ GraceExpired \/ Drain \/ Fold
Next == CallSteps \/ RequestCancel \/ Abandon \/ Exit \/ Reap \/ DescendantEnds \/ Tick
(* The call goes on when it can, and time passes.                          *)
Fairness == WF_vars(CallSteps) /\ WF_vars(Tick)
Spec == Init /\ [][Next]_vars /\ Fairness
-------------------------------------------------------------------------------
Ended == pc \in {"done", "gone"}
(* process.py:12-32 and executor.py: what the result says of the world     *)
(* outside is true.  Nothing was touched only when nothing was started; a  *)
(* call that ended well ended by itself; only a command that outlived the  *)
(* grace leaves the effect unknown; a call that ended left its process     *)
(* ended or killed.                                                        *)
ShellIsHonest ==
    /\ result.error # "pending" =>
        /\ result.effect = "none" => proc = "none"
        /\ result.ok => signals = {} /\ proc # "running"
        /\ result.effect = "unknown" <=> outcome.kind = "grace_expired"
        /\ result.effect = "occurred" /\ ~result.ok => proc = "exited" /\ "kill" \notin signals
    /\ Ended => proc # "running" \/ "kill" \in signals
(* A call ends, whatever the command does and however long it is cancelled *)
(* for, and no later than its timeout, two graces and two pipes.           *)
ShellEnds == <>Ended
ShellEndsInTime == clock <= Timeout + 2 * Grace + 2 * Collect
===============================================================================
