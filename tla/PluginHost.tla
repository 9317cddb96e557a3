----------------------------- MODULE PluginHost -----------------------------
(***************************************************************************)
(* The life of an instance's providers, from their setup to their stop:    *)
(* wiring in load order with one registration batch each                   *)
(* (kernel/plugins/builtin_loader.py, host.py), the fallback to the        *)
(* built-in CLI entry and the rollback of a failed start                   *)
(* (runtime/bootstrap.py, startup.py), activation (runtime/instance.py),   *)
(* background tasks and subscriptions (runtime/plugin_context.py) and the  *)
(* sequential stop with a budget per provider (kernel/plugins/lifecycle.py). *)
(***************************************************************************)
EXTENDS Registry

CONSTANTS
    LoadOrder,      \* the providers in load order, the built-in ones first
    Caps,           \* provider -> the declarations of its manifest, as registrations
    Acquires,       \* provider -> what its setup may take: "subscription", "task", "cleanup"
    Deps,           \* provider -> the providers its manifest depends on
    Critical,       \* the providers whose setup failure aborts the start
    CliBuiltin,     \* the built-in provider of the CLI entry
    Required        \* the kinds without which no instance is assembled

Plugins == ToSet(LoadOrder)
Earlier(p, q) == \E i, j \in DOMAIN LoadOrder : i < j /\ LoadOrder[i] = p /\ LoadOrder[j] = q

(* The load order has each provider once and behind those it depends on    *)
(* (PluginPlan), a manifest declares something, and what it declares       *)
(* carries its provider and a name no other manifest uses.                 *)
ASSUME HostAssumption ==
    /\ LoadOrder \in Seq(Plugins)
    /\ \A i, j \in DOMAIN LoadOrder : LoadOrder[i] = LoadOrder[j] => i = j
    /\ \A p \in Plugins :
          /\ Caps[p] \in Seq(ToSet(Caps[p])) \ {<<>>}
          /\ \A q \in Plugins \ {p} : ToSet(Caps[p]) \cap ToSet(Caps[q]) = {}
          /\ \A d \in Deps[p] : Earlier(d, p)

VARIABLES
    phase,      \* of the instance, the bootstrap included
    locked,     \* the instance lock is held
    round,      \* 1, or 2 once the CLI entry fell back to the built-in one
    batch,      \* the registrations of the provider being set up
    regs,       \* the committed registrations
    outcome,    \* provider -> what its setup came to
    owned,      \* the providers whose context exists, in the order of creation
    ctx,        \* provider -> its context
    life,       \* provider -> its PluginLifecycle
    todo,       \* the providers still to be stopped, first one first
    step        \* of the stop of Head(todo)
hostVars == <<phase, locked, round, batch, regs, outcome, owned, ctx, life, todo, step>>

NoContext == [started |-> FALSE, stopping |-> FALSE, subscribed |-> FALSE,
              task |-> "none", handler |-> "none", cleanup |-> "none", stop |-> "none"]
NoBatch == [prov |-> 0, staged |-> <<>>, state |-> "none"]
Life(ph, cause) == [phase |-> ph, cause |-> cause]

HostInit ==
    /\ phase = "wiring" /\ locked = TRUE /\ round = 1
    /\ batch = NoBatch /\ regs = <<>>
    /\ outcome = [p \in Plugins |-> "none"]
    /\ owned = <<>>
    /\ ctx = [p \in Plugins |-> NoContext]
    /\ life = [p \in Plugins |-> Life("none", "none")]
    /\ todo = <<>> /\ step = "idle"

---------------------------------------------------------------------------
(* Wiring: one provider after the other, in load order.                    *)

Current == owned[Len(owned)]
Loading == phase = "wiring" /\ batch.state = "open"
DeclaresCli(p) == \E i \in DOMAIN Caps[p] : Caps[p][i].kind = "cli_entry"
(* capability_filter: in the second round only the built-in CLI declaration *)
(* is kept, and what an overrider registers has become undeclared.         *)
Declared(p) ==
    {c \in ToSet(Caps[p]) : round = 2 /\ c.kind = "cli_entry" => p = CliBuiltin}

(* Mutant: stops follow the load order. *)
StopInOrder(ps) == todo' = ps /\ step' = "idle"
StopInReverse(ps) == /\ todo' = Reverse(ps) /\ step' = "idle"

HostFor ==      \* host_for: the context exists before the setup runs
    /\ phase = "wiring" /\ batch.state # "open" /\ Len(owned) < Len(LoadOrder)
    /\ LET p == LoadOrder[Len(owned) + 1]
       IN  /\ owned' = Append(owned, p)
           /\ batch' = NewBatch(Caps[p][1].prov)
           /\ ctx' = [ctx EXCEPT ![p] = NoContext]
    /\ UNCHANGED <<phase, locked, round, regs, outcome, life, todo, step>>

Take(p, what, held) ==
    /\ what \in Acquires[p]
    /\ ctx[p] # held /\ ctx' = [ctx EXCEPT ![p] = held]
Acquire ==      \* commutes with the registrations, so it comes before them
    /\ Loading /\ batch.staged = <<>>
    /\ LET c == ctx[Current]
       IN  \/ Take(Current, "subscription", [c EXCEPT !.subscribed = TRUE])
           \/ Take(Current, "task", [c EXCEPT !.task = "pending"])
           \/ Take(Current, "cleanup", [c EXCEPT !.cleanup = "due"])
    /\ UNCHANGED <<phase, locked, round, batch, regs, outcome, owned, life, todo, step>>

Register ==     \* CapabilityHost._register: the next declared capability
    /\ Loading
    /\ LET i == Len(batch.staged) + 1
       IN  /\ i <= Len(Caps[Current])
           /\ Caps[Current][i] \in Declared(Current)
           /\ CanAdd(batch, Caps[Current][i])
           /\ batch' = Add(batch, Caps[Current][i])
    /\ UNCHANGED <<phase, locked, round, regs, outcome, owned, ctx, life, todo, step>>

Fulfilled(p) == Declared(p) \subseteq Staged(batch)
(* Mutant: finish() is not asked. *)
SetupReturnsUnfinished ==
    /\ Loading
    /\ regs' = Absorb(regs, batch)
    /\ batch' = Commit(batch)
    /\ outcome' = [outcome EXCEPT ![Current] = "ok"]
    /\ UNCHANGED <<phase, locked, round, owned, ctx, life, todo, step>>
SetupReturns ==     \* finish() finds every declaration registered: commit
    /\ Loading /\ Len(batch.staged) = Len(Caps[Current]) /\ Fulfilled(Current)
    /\ regs' = Absorb(regs, batch)
    /\ batch' = Commit(batch)
    /\ outcome' = [outcome EXCEPT ![Current] = "ok"]
    /\ UNCHANGED <<phase, locked, round, owned, ctx, life, todo, step>>

(* The setup raises, registers what is not declared, or returns with a     *)
(* declaration unfulfilled: roll back, and abort if the provider is        *)
(* critical.  The context, with what the setup acquired, stays.            *)
SetupFails ==
    /\ Loading
    /\ batch' = Rollback(batch)
    /\ outcome' = [outcome EXCEPT ![Current] = "error"]
    /\ IF Current \in Critical
       THEN /\ phase' = "aborting"
            /\ StopInReverse(owned)
       ELSE UNCHANGED <<phase, todo, step>>
    /\ UNCHANGED <<locked, round, regs, owned, ctx, life>>

Wired == phase = "wiring" /\ batch.state # "open" /\ Len(owned) = Len(LoadOrder)
Report == Resolve(regs, {}, {})
Provides(kind) == \E i \in Report.active : regs[i].kind = kind

FallBack ==     \* no CLI entry is left though one is declared
    /\ Wired /\ round = 1
    /\ ~Provides("cli_entry") /\ \E p \in Plugins : DeclaresCli(p)
    /\ phase' = "falling_back"
    /\ StopInReverse(owned)
    /\ UNCHANGED <<locked, round, batch, regs, outcome, owned, ctx, life>>

StopsClean == \A i \in DOMAIN owned : ctx[owned[i]].stop = "ok"
WireAgain ==    \* every context of the first round is stopped, none with an error
    /\ phase = "falling_back" /\ todo = <<>> /\ StopsClean
    /\ phase' = "wiring" /\ round' = 2
    /\ batch' = NoBatch /\ regs' = <<>> /\ owned' = <<>>
    /\ outcome' = [p \in Plugins |-> "none"]
    /\ UNCHANGED <<locked, ctx, life, todo, step>>

Complete == Report.failures = {} /\ \A kind \in Required : Provides(kind)
NoFallBack == Provides("cli_entry") \/ round = 2 \/ ~\E p \in Plugins : DeclaresCli(p)
(* Mutant: a rejected start does not stop what it owns. *)
RejectUnstopped ==
    /\ Wired /\ NoFallBack /\ ~Complete
    /\ phase' = "aborting"
    /\ UNCHANGED <<locked, round, batch, regs, outcome, owned, ctx, life, todo, step>>
Reject ==       \* raise_if_failed, require_sessions, select_model, missing CLI entry
    /\ Wired /\ NoFallBack /\ ~Complete
    /\ phase' = "aborting"
    /\ StopInReverse(owned)
    /\ UNCHANGED <<locked, round, batch, regs, outcome, owned, ctx, life>>

Assemble ==     \* build_lifecycles, transfer, and start()
    /\ Wired /\ NoFallBack /\ Complete
    /\ phase' = "starting"
    /\ life' = [p \in Plugins |-> IF outcome[p] = "ok" THEN Life("loaded", "none")
                                                       ELSE Life("failed", "setup")]
    /\ UNCHANGED <<locked, round, batch, regs, outcome, owned, ctx, todo, step>>
---------------------------------------------------------------------------
(* The instance: start(), the plugins at work, stop().                     *)

Loaded(i) == life[owned[i]].phase = "loaded"
Startable(i) == Loaded(i) /\ \A j \in 1..(i - 1) : ~Loaded(j)
Activate ==     \* _start_plugins: the start actions succeed, pending tasks start
    /\ phase = "starting"
    /\ \E i \in DOMAIN owned :
          /\ Startable(i)
          /\ ctx' = [ctx EXCEPT ![owned[i]].started = TRUE,
                                ![owned[i]].task = IF @ = "pending" THEN "running" ELSE @]
          /\ life' = [life EXCEPT ![owned[i]].phase = "started"]
    /\ UNCHANGED <<phase, locked, round, batch, regs, outcome, owned, todo, step>>

ActivateFails ==    \* whichever plugin it is: the whole instance is stopped
    /\ phase = "starting"
    /\ \E i \in DOMAIN owned :
          Startable(i) /\ life' = [life EXCEPT ![owned[i]] = Life("failed", "activate")]
    /\ phase' = "stopping"
    /\ StopInReverse(owned)
    /\ UNCHANGED <<locked, round, batch, regs, outcome, owned, ctx>>

Ready ==
    /\ phase = "starting" /\ \A i \in DOMAIN owned : ~Loaded(i)
    /\ phase' = "running"
    /\ UNCHANGED <<locked, round, batch, regs, outcome, owned, ctx, life, todo, step>>

Stop ==
    /\ phase = "running"
    /\ phase' = "stopping"
    /\ StopInReverse(owned)
    /\ UNCHANGED <<locked, round, batch, regs, outcome, owned, ctx, life>>

Work(p) ==      \* an event reaches a subscriber, or a started plugin spawns a task
    /\ \/ /\ ctx[p].subscribed /\ ctx[p].handler # "running"
          /\ ctx' = [ctx EXCEPT ![p].handler = "running"]
       \/ /\ "task" \in Acquires[p] /\ ctx[p].started /\ ~ctx[p].stopping
          /\ ctx[p].task \in {"none", "done"}
          /\ ctx' = [ctx EXCEPT ![p].task = "running"]
    /\ UNCHANGED <<phase, locked, round, batch, regs, outcome, owned, life, todo, step>>

TaskEnds(p) ==  \* by itself or by its cancellation, which it may also swallow
    /\ \/ /\ ctx[p].task \in {"running", "cancelled"}
          /\ ctx' = [ctx EXCEPT ![p].task = "done"]
       \/ /\ ctx[p].handler \in {"running", "cancelled"}
          /\ ctx' = [ctx EXCEPT ![p].handler = "done"]
    /\ UNCHANGED <<phase, locked, round, batch, regs, outcome, owned, life, todo, step>>

Cancelled(t) == IF t = "running" THEN "cancelled" ELSE IF t = "pending" THEN "none" ELSE t
BeginShutdown ==    \* _stop_one and the first half of shutdown()
    /\ todo # <<>> /\ step = "idle"
    /\ LET p == Head(todo)
       IN  /\ ctx' = [ctx EXCEPT ![p].stopping = TRUE, ![p].subscribed = FALSE,
                                 ![p].task = Cancelled(@), ![p].handler = Cancelled(@)]
           /\ life' = [life EXCEPT ![p].phase = IF @ = "none" THEN @ ELSE "stopping"]
    /\ step' = "gather"
    /\ UNCHANGED <<phase, locked, round, batch, regs, outcome, owned, todo>>

EndShutdown(result, lifePhase) ==
    LET p == Head(todo)
    IN  /\ ctx' = [ctx EXCEPT ![p].stop = result,
                              ![p].cleanup = IF @ = "due" /\ result # "timeout" THEN "done" ELSE @]
        /\ life' = [life EXCEPT ![p] = IF @.phase = "none" THEN @
                                       ELSE IF result = "ok" THEN Life(lifePhase, @.cause)
                                       ELSE Life(lifePhase, result)]
        /\ todo' = Tail(todo) /\ step' = "idle"
        /\ UNCHANGED <<phase, locked, round, batch, regs, outcome, owned>>
Gathered(p) == ctx[p].task # "cancelled" /\ ctx[p].handler # "cancelled"
ShutdownEnds ==
    /\ step = "gather" /\ Gathered(Head(todo))
    /\ EndShutdown("ok", "stopped")
CleanupFails ==     \* the other cleanup actions still run; the first error is raised
    /\ step = "gather" /\ Gathered(Head(todo)) /\ ctx[Head(todo)].cleanup = "due"
    /\ EndShutdown("error", "failed")
(* Mutant: tasks are waited for without a limit. *)
StopTimesOutAfterTasks ==
    /\ step = "gather" /\ Gathered(Head(todo)) /\ ctx[Head(todo)].cleanup = "due"
    /\ EndShutdown("timeout", "failed")
StopTimesOut ==     \* a task swallows its cancellation, or a cleanup action hangs
    /\ step = "gather"
    /\ ~Gathered(Head(todo)) \/ ctx[Head(todo)].cleanup = "due"
    /\ EndShutdown("timeout", "failed")

Released ==         \* all are stopped: the closers run and the lock is released
    /\ todo = <<>>
    /\ \/ phase = "stopping" /\ phase' = "stopped"
       \/ phase = "aborting" /\ phase' = "failed"
       \/ phase = "falling_back" /\ ~StopsClean /\ phase' = "failed"
    /\ locked' = FALSE
    /\ UNCHANGED <<round, batch, regs, outcome, owned, ctx, life, todo, step>>

StopStep == BeginShutdown \/ ShutdownEnds \/ CleanupFails \/ StopTimesOut \/ Released \/ WireAgain
HostNext ==
    \/ HostFor \/ Acquire \/ Register \/ SetupReturns \/ SetupFails
    \/ FallBack \/ Reject \/ Assemble
    \/ Activate \/ ActivateFails \/ Ready \/ Stop
    \/ \E p \in Plugins : Work(p) \/ TaskEnds(p)
    \/ StopStep
HostFairness == WF_hostVars(StopStep)
HostSpec == HostInit /\ [][HostNext]_hostVars /\ HostFairness

---------------------------------------------------------------------------
(* Properties                                                              *)

(* EDG-103: a provider is in the registry with everything it declared, or  *)
(* with nothing, however far its setup came; and a plugin is only started  *)
(* when its setup succeeded.                                               *)
AllOrNothing ==
    /\ \A p \in Plugins :
          Declared(p) \cap ToSet(regs) = IF outcome[p] = "ok" THEN Declared(p) ELSE {}
    /\ Len(regs) = Cardinality(ToSet(regs))
    /\ \A p \in Plugins : ctx[p].started => outcome[p] = "ok"

(* Nothing a provider acquired outlives the lock: whatever path led there  *)
(* (a rejected start, the CLI fallback, a failed activation, a stop), no   *)
(* subscription is left, no task is left that was not cancelled, a task    *)
(* left running or a cleanup left undone belongs to a reported timeout;    *)
(* that holds of the contexts of an abandoned first round as well.         *)
IsQuiet(c) ==
    /\ ~c.subscribed /\ "running" \notin {c.task, c.handler} /\ c.task # "pending"
    /\ ("cancelled" \in {c.task, c.handler} \/ c.cleanup = "due") => c.stop = "timeout"
NothingOutlivesTheLock ==
    ~locked =>
        /\ \A i \in DOMAIN owned : ctx[owned[i]].stopping /\ ctx[owned[i]].stop # "none"
        /\ \A p \in Plugins : IsQuiet(ctx[p])

(* Both: a provider is there with all it declares or with nothing, and     *)
(* leaves nothing behind.                                                  *)
PluginsAllOrNothing == AllOrNothing /\ NothingOutlivesTheLock

(* PLG-005: a plugin starts after the plugins it depends on and stops      *)
(* before them, in every kind of stop.                                     *)
DependencyOrder ==
    [][\A p \in Plugins :
          /\ ctx'[p].started /\ ~ctx[p].started =>
                \A d \in Deps[p] : life[d].phase # "loaded"
          /\ ctx'[p].stopping /\ ~ctx[p].stopping =>
                \A q \in ToSet(owned) : p \in Deps[q] => ctx[q].stop # "none"]_hostVars

(* EDG-104: a stop comes to its end although tasks swallow their           *)
(* cancellation and cleanup actions hang.                                  *)
StopEnds == phase \in {"stopping", "aborting", "falling_back"} ~>
                (~locked \/ phase = "wiring")
=============================================================================
