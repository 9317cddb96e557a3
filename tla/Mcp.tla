---------------------------------- MODULE Mcp ----------------------------------
(***************************************************************************)
(* The MCP plugin (plugins/nucleamind-plugin-mcp): setup() spawns one      *)
(* background task that connects the configured servers one after the      *)
(* other, each within the connect budget, waits twice that budget for it,  *)
(* registers a bridge for every tool found and returns; the task parks     *)
(* until it is cancelled and closes the connections it opened.  A bridge   *)
(* holds its session for good.                                             *)
(*                                                                         *)
(* Time runs in units while the task connects; a tool of a server is its   *)
(* remote name with the segment normalise_segment makes of it, "" if none. *)
(***************************************************************************)
EXTENDS Naturals, Sequences, FiniteSets, SequencesExt

Never == 98
Refuses == 99

CONSTANTS
    Servers,        \* the enabled servers, in the order of their names
    Needs,          \* the units a server may need to connect, Never or Refuses
    Tools,          \* server -> the tools it lists
    Budget,         \* connect_timeout_ms
    Callers         \* who may call a bridge

VARIABLES
    need,           \* server -> member of Needs
    task,           \* "connecting", "parked", "ended", or "torn": over before it handed over
    spent,          \* units spent on the server that is being connected
    open,           \* the servers whose transports the task's stack holds
    tried,          \* server -> "no", "session" or the failure recorded for it
    discovery,      \* what the task hands over: <<server, local name, remote name>>
    ready,          \* the event setup() waits for
    waited,         \* units setup() has been waiting
    setup,          \* "waiting", "registered" or "gave_up"
    bridges,        \* the bridges registered
    call            \* caller -> its call
vars == <<need, task, spent, open, tried, discovery, ready, waited, setup, bridges, call>>

NoCall == [at |-> "idle", tool |-> <<>>, sent |-> FALSE, ok |-> FALSE, side |-> "none"]
Init ==
    /\ need \in [ToSet(Servers) -> Needs]
    /\ task = "connecting" /\ spent = 0 /\ open = {}
    /\ tried = [s \in ToSet(Servers) |-> "no"]
    /\ discovery = <<>> /\ ready = FALSE
    /\ waited = 0 /\ setup = "waiting" /\ bridges = {}
    /\ call = [c \in Callers |-> NoCall]

(* assign_names: what cannot be named is left out, and so is every side of *)
(* a collision.  The server's own name is part of the local one.           *)
LocalName(s, tool) == <<s, tool.segment>>
(* Mutant: the first of two tools keeps the name. *)
AssignNamesFirstWins(s, tools) ==
    SelectSeq([i \in DOMAIN tools |-> Append(LocalName(s, tools[i]), tools[i].name)],
              LAMBDA f : /\ f[2] # ""
                         /\ \A j \in DOMAIN tools : tools[j].segment = f[2] => \E i \in 1..j : tools[i].name = f[3])
AssignNames(s, tools) ==
    SelectSeq([i \in DOMAIN tools |-> Append(LocalName(s, tools[i]), tools[i].name)],
              LAMBDA f : /\ f[2] # ""
                         /\ Cardinality({j \in DOMAIN tools : tools[j].segment = f[2]}) = 1)

-----------------------------------------------------------------------------
(* The background task.                                                    *)
Untried == SelectSeq(Servers, LAMBDA s : tried[s] = "no")
Connecting == task = "connecting" /\ Untried # <<>>
Current == Head(Untried)
Outcome(what) ==
    /\ tried' = [tried EXCEPT ![Current] = what] /\ spent' = 0
    /\ UNCHANGED <<need, task, discovery, ready, waited, setup, bridges, call>>
ConnectOne ==       \* initialize and list_tools
    /\ Connecting /\ need[Current] = spent
    /\ open' = open \union {Current}
    /\ Outcome("session")
(* A transport that was entered before the failure stays in the stack.     *)
ConnectTimeout ==
    /\ Connecting /\ spent = Budget
    /\ open' \in {open, open \union {Current}}
    /\ Outcome("TimeoutError")
ConnectFails ==
    /\ Connecting /\ need[Current] = Refuses
    /\ open' \in {open, open \union {Current}}
    /\ Outcome("error")
Discovered ==       \* every server has been tried: hand over and park
    /\ task = "connecting" /\ Untried = <<>>
    /\ discovery' = FlattenSeq([i \in DOMAIN Servers |->
                        IF tried[Servers[i]] = "session" THEN AssignNames(Servers[i], Tools[Servers[i]]) ELSE <<>>])
    /\ ready' = TRUE /\ task' = "parked"
    /\ UNCHANGED <<need, spent, open, tried, waited, setup, bridges, call>>
(* Cancelled by the plugin's stop, or by the task group of a transport     *)
(* that broke.  A cancellation is no Exception: while a server is being    *)
(* connected it leaves _connect_all with nothing handed over, and run()    *)
(* sets the event all the same.                                            *)
TaskEnds ==
    /\ task = "parked" \/ Connecting
    /\ task' = IF Connecting THEN "torn" ELSE "ended"
    /\ open' = {} /\ ready' = TRUE
    /\ UNCHANGED <<need, spent, tried, discovery, waited, setup, bridges, call>>

-----------------------------------------------------------------------------
(* register(), with its wait of twice the budget.                          *)
Wait == 2 * Budget
RegisterAll ==
    /\ setup = "waiting" /\ ready
    /\ setup' = "registered"
    /\ bridges' = ToSet(discovery)
    /\ UNCHANGED <<need, task, spent, open, tried, discovery, ready, waited, call>>
(* Mutant: the wait for the servers has no timeout. *)
GiveUpNever ==
    /\ setup = "waiting" /\ ready /\ waited = Wait
    /\ setup' = "gave_up"
    /\ UNCHANGED <<need, task, spent, open, tried, discovery, ready, waited, bridges, call>>
GiveUp ==
    /\ setup = "waiting" /\ ~ready /\ waited = Wait
    /\ setup' = "gave_up"
    /\ UNCHANGED <<need, task, spent, open, tried, discovery, ready, waited, bridges, call>>

(* Time passes when nothing is due.                                        *)
Tick ==
    /\ Connecting /\ need[Current] # Refuses
    /\ spent < Budget /\ need[Current] # spent
    /\ setup = "waiting" => waited < Wait
    /\ spent' = spent + 1
    /\ waited' = IF setup = "waiting" THEN waited + 1 ELSE waited
    /\ UNCHANGED <<need, task, open, tried, discovery, ready, setup, bridges, call>>

-----------------------------------------------------------------------------
(* BridgedTool.execute: nothing is known to have happened only as long as  *)
(* nothing was sent.                                                       *)
Others == UNCHANGED <<need, task, spent, open, tried, discovery, ready, waited, setup, bridges>>
Ends(c, ok, side) == call' = [call EXCEPT ![c].at = "ended", ![c].ok = ok, ![c].side = side]
CallBridge(c) ==
    /\ call[c].at = "idle"
    /\ \E f \in bridges : call' = [call EXCEPT ![c] = [NoCall EXCEPT !.at = "sending", !.tool = f]]
    /\ Others
CancelledBefore(c) == call[c].at = "sending" /\ Ends(c, FALSE, "none") /\ Others
Send(c) ==
    /\ call[c].at = "sending"
    /\ call' = [call EXCEPT ![c].at = "sent", ![c].sent = TRUE]
    /\ Others
Answer(c) ==        \* the result, or the server's own error
    /\ call[c].at = "sent" /\ call[c].tool[1] \in open
    /\ \E ok \in BOOLEAN : Ends(c, ok, "unknown")
    /\ Others
(* Mutant: a call that was sent is said to have done nothing. *)
CallFailsUntouched(c) ==
    /\ call[c].at = "sent" /\ Ends(c, FALSE, "none") /\ Others
CallFails(c) ==     \* the call's timeout, or an exception of the client
    /\ call[c].at = "sent" /\ Ends(c, FALSE, "unknown") /\ Others
Settled(c) == call[c].at = "ended" /\ call' = [call EXCEPT ![c] = NoCall] /\ Others

TaskSteps == ConnectOne \/ ConnectTimeout \/ ConnectFails \/ Discovered
SetupSteps == RegisterAll \/ GiveUp
CallSteps(c) == CancelledBefore(c) \/ Send(c) \/ Answer(c) \/ CallFails(c)
Next ==
    \/ TaskSteps \/ TaskEnds \/ SetupSteps \/ Tick
    \/ \E c \in Callers : CallBridge(c) \/ CallSteps(c) \/ Settled(c)
Progress == TaskSteps \/ SetupSteps \/ Tick
Fairness ==
    WF_vars(Progress) /\ \A c \in Callers : WF_vars(CallSteps(c))
Spec == Init /\ [][Next]_vars /\ Fairness

-----------------------------------------------------------------------------
(* The tools that are registered are those of the servers that were        *)
(* connected, all of them and under one name each, or none at all: none    *)
(* when the hand-over was too late or the task was torn before it (which   *)
(* supervisor.py:21 does not allow for), and else a server that cannot be  *)
(* used, or two tools that would share a name, costs the others nothing;   *)
(* and a result that says nothing happened is one of a call that was never *)
(* sent                                                                    *)
(* (supervisor._connect_all, naming.assign_names, register, execute).      *)
Unambiguous(s, i) ==
    /\ Tools[s][i].segment # ""
    /\ \A j \in DOMAIN Tools[s] \ {i} : Tools[s][j].segment # Tools[s][i].segment
Bridged(s, i) == \E f \in bridges : f[1] = s /\ f[3] = Tools[s][i].name
BridgesAreSound ==
    /\ setup # "registered" \/ task = "torn" => bridges = {}
    /\ setup = "registered" /\ task # "torn" =>
        \A s \in ToSet(Servers) :
            /\ tried[s] # "no"
            /\ \A i \in DOMAIN Tools[s] : Bridged(s, i) <=> tried[s] = "session" /\ Unambiguous(s, i)
    /\ \A f, g \in bridges : <<f[1], f[2]>> = <<g[1], g[2]>> => f = g
    /\ \A c \in Callers : call[c].at = "ended" /\ call[c].side = "none" => ~call[c].sent

(* However the servers behave, setup() returns, so that the start of the   *)
(* instance does not hang on them, and every call comes to an end          *)
(* (asyncio.timeout per server, wait_ready, call_timeout_ms).              *)
McpSettles ==
    /\ <>(setup # "waiting")
    /\ \A c \in Callers : (call[c].at = "sending") ~> (call[c].at \in {"ended", "idle"})
=============================================================================
