----------------------------- MODULE MCServices -----------------------------
(* What goes on around the turns: the gateway (conversation x with an input  *)
(* that is delivered twice and one that is handed over directly,             *)
(* conversation y competes for the only lane), the long-term memory (two     *)
(* sessions), the schedules (two jobs, one of them due once), the servers of *)
(* the MCP plugin (three, each may need any time, never answer or refuse), a *)
(* card of the Feishu channel, a command of the shell tool, two requests of  *)
(* one conversation at the HTTP endpoint, one of them streamed, and the      *)
(* search of a cron expression across a change of the clock.                 *)
EXTENDS Gateway, Cron, MemoryStore, TLC

CONSTANTS Still

VARIABLES
    part,           \* the component this behaviour is about
    input,          \* the argument of an algorithm, once it is picked
    \* Mcp
    need, task, spent, mcpOpen, tried, discovery, ready, waited, setup,
    bridges, mcpCall,
    \* FeishuStream
    todo, hints, buffers, current, cardTask, request, cards, plain, faults,
    cardStopped, issued, handled, overlapped,
    \* Shell
    pc, clock, shellUntil, proc, signals, reaped, holders, cancel, abandoned,
    outcome, output, result,
    \* ApiHub
    posted, http, waiting, learned, apiDone, mailbox, inbound, apiClosed,
    lane, running, cancelled, usage, produced, got, billed, responses,
    evicted, astray

GateInputs == {"x1", "x2", "y1", "d1"}
GateConversations == [i \in GateInputs |-> IF i = "y1" THEN "y" ELSE "x"]
GateMessages == [i \in GateInputs |-> CASE i \in {"x1", "x2"} -> "m" [] i = "y1" -> "n" [] i = "d1" -> "m1"]
CronSchedule == "a" :> [kind |-> "every", when |-> {1}] @@ "b" :> [kind |-> "at", when |-> {2}]
CronOrigin == "a" :> "s" @@ "b" :> "t"
McpTool(name, segment) == [name |-> name, segment |-> segment]
McpTools ==
    "a" :> <<McpTool("x-y", "x_y"), McpTool("x_y", "x_y"), McpTool("z", "z")>>
    @@ "b" :> <<McpTool("z", "z"), McpTool("--", "")>> @@ "c" :> <<McpTool("x_y", "x_y")>>
CardMessages == [k \in 1..3 |-> [turn |-> "a", state |-> <<"started", "delta", "final">>[k]]]

(* A February of 29 days and a March; the clock is an hour ahead from the  *)
(* sixth day on, at two, to the ninth, when it is set back from two to one.*)
Times == INSTANCE CronExpr WITH
    Months <- <<[month |-> 2, days |-> 29], [month |-> 3, days |-> 31]>>, FirstWeekday <- 0,
    Summer <- [from |-> 5 * 1440 + 120, to |-> 8 * 1440 + 60], Saving <- 60, MaxSearchDays <- 130
Item(body, from, to, step) == [body |-> body, from |-> from, to |-> to, step |-> step]
Every == {Item("*", 0, 0, 1)}
Only(n) == {Item("value", n, 0, 1)}
Expressions ==
    [minute : {Only(30), {Item("value", 5, 0, 20)}},
     hour : {Every, {Item("range", 1, 3, 2)}},
     day : {Every, Only(29), {Item("range", 6, 9, 1)}},
     month : {Every, Only(3)},
     weekday : {Every, {Item("range", 1, 5, 2)}}]
Moments ==
    {5 * 1440 + 119, 8 * 1440 + 29, 8 * 1440 + 75, 28 * 1440 + 1439}
TimeInputs == [expression : Expressions, moment : Moments]

Bridge == INSTANCE Mcp WITH
    Servers <- <<"a", "b", "c">>, Needs <- {0, 1, 98, 99}, Tools <- McpTools,
    Budget <- 2, Callers <- {"p", "q"}, open <- mcpOpen, call <- mcpCall
Cards == INSTANCE FeishuStream WITH
    Messages <- CardMessages, Hints <- <<"a">>, Streaming <- TRUE,
    MaxFaults <- 1, task <- cardTask, stopped <- cardStopped
Command == INSTANCE Shell WITH
    Timeout <- 3, Grace <- 2, Collect <- 1, until <- shellUntil
Api == INSTANCE ApiHub WITH
    Conversations <- {{1, 2}}, Streamed <- {1}, LaneSize <- 1, MaxTracked <- 1,
    MaxPieces <- 1, MaxResponses <- 2, done <- apiDone, closed <- apiClosed
-----------------------------------------------------------------------------
(* A component that a behaviour is not about stands still. *)
GateStill == Init
MemoryStill == MemoryInit
TableStill == CronInit /\ disk = Corrupt
BridgeVars == <<need, task, spent, mcpOpen, tried, discovery, ready, waited, setup, bridges,
    mcpCall>>
BridgeStill == Bridge!Init /\ need = [s \in {"a", "b", "c"} |-> 0]
CardsVars == <<todo, hints, buffers, current, cardTask, request, cards, plain, faults,
    cardStopped, issued, handled, overlapped>>
CardsStill == Cards!Init
CommandVars == <<pc, clock, shellUntil, proc, signals, reaped, holders, cancel, abandoned,
    outcome, output, result>>
CommandStill == Command!Init /\ ~cancel
ApiVars == <<posted, http, waiting, learned, apiDone, mailbox, inbound, apiClosed, lane, running,
    cancelled, usage, produced, got, billed, responses, evicted, astray>>
ApiStill == Api!Init
all == <<part, input, vars, memoryVars, cronVars, BridgeVars, CardsVars, CommandVars, ApiVars>>

SystemInit ==
    \/ part = "gateway" /\ Init /\ input = Still /\ MemoryStill /\
       TableStill /\ BridgeStill /\ CardsStill /\ CommandStill /\ ApiStill
    \/ part = "memory" /\ MemoryInit /\ input = Still /\ GateStill /\
       TableStill /\ BridgeStill /\ CardsStill /\ CommandStill /\ ApiStill
    \/ part = "cron" /\ CronInit /\ input = Still /\ GateStill /\
       MemoryStill /\ BridgeStill /\ CardsStill /\ CommandStill /\ ApiStill
    \/ part = "mcp" /\ Bridge!Init /\ input = Still /\ GateStill /\
       MemoryStill /\ TableStill /\ CardsStill /\ CommandStill /\ ApiStill
    \/ part = "cards" /\ Cards!Init /\ input = Still /\ GateStill /\
       MemoryStill /\ TableStill /\ BridgeStill /\ CommandStill /\ ApiStill
    \/ part = "shell" /\ Command!Init /\ input = Still /\ GateStill /\
       MemoryStill /\ TableStill /\ BridgeStill /\ CardsStill /\ ApiStill
    \/ part = "api" /\ Api!Init /\ input = Still /\ GateStill /\
       MemoryStill /\ TableStill /\ BridgeStill /\ CardsStill /\ CommandStill
    \/ part = "times" /\ input = Still /\ GateStill /\ MemoryStill /\
       TableStill /\ BridgeStill /\ CardsStill /\ CommandStill /\ ApiStill
SystemNext ==
    /\ UNCHANGED part
    /\ \/ part = "gateway" /\ Next
          /\ UNCHANGED <<input, memoryVars, cronVars, BridgeVars, CardsVars, CommandVars, ApiVars>>
       \/ part = "memory" /\ MemoryNext
          /\ UNCHANGED <<input, vars, cronVars, BridgeVars, CardsVars, CommandVars, ApiVars>>
       \/ part = "cron" /\ CronNext
          /\ UNCHANGED <<input, vars, memoryVars, BridgeVars, CardsVars, CommandVars, ApiVars>>
       \/ part = "mcp" /\ Bridge!Next
          /\ UNCHANGED <<input, vars, memoryVars, cronVars, CardsVars, CommandVars, ApiVars>>
       \/ part = "cards" /\ Cards!Next
          /\ UNCHANGED <<input, vars, memoryVars, cronVars, BridgeVars, CommandVars, ApiVars>>
       \/ part = "shell" /\ Command!Next
          /\ UNCHANGED <<input, vars, memoryVars, cronVars, BridgeVars, CardsVars, ApiVars>>
       \/ part = "api" /\ Api!Next
          /\ UNCHANGED <<input, vars, memoryVars, cronVars, BridgeVars, CardsVars, CommandVars>>
       \/ part = "times" /\ input = Still /\ input' \in TimeInputs
          /\ UNCHANGED <<vars, memoryVars, cronVars, BridgeVars, CardsVars, CommandVars, ApiVars>>
SystemSpec == SystemInit /\ [][SystemNext]_all
-----------------------------------------------------------------------------
(* Mcp: bridges are unique and of servers that answered. Shell: the result *)
(* of a command says of the world what is so, and comes in time. ApiHub: a *)
(* client is told the whole of its own turn, and what that turn used.      *)
(* CronExpr: the moment a schedule is said to run next is the first one    *)
(* that matches its expression, across a change of the clock.              *)
OutsideIsReportedTruly ==
    /\ part = "mcp" => Bridge!BridgesAreSound
    /\ part = "shell" => Command!ShellIsHonest /\ Command!ShellEndsInTime
    /\ part = "api" => Api!AnswerIsWhole /\ Api!UsageIsWhole
    /\ part = "times" /\ input # Still =>
          Times!Accepted(input.expression)
              /\ Times!NextIsTheFirst(Times!ParseExpr(input.expression), input.moment)
(* FeishuStream: with one fault of the platform the answer is on a card or *)
(* sent as a message, and a card that was edited by one task is closed.    *)
AnswerReachesTheCard == part = "cards" => Cards!AnswerIsShown /\ Cards!AloneItCloses
(* What no step may do: a turn begins after the stop, a job runs twice for *)
(* one moment, a recall mixes two states of the memory, the numbers of a   *)
(* card's updates go back.                                                 *)
ServiceStepsAreLawful ==
    NoTurnAfterStop /\ RunsOnce /\ RecallIsWhole /\ Cards!NumbersRise
(* The fairness of each component (Fairness of its module), said of the    *)
(* behaviours that are about it.                                           *)
FairGate ==
    /\ \A i \in Inputs :
        /\ WF_vars(part = "gateway" /\ (Grant(i) \/ Sent(i) \/ RefusalEnds(i) \/ WorkerEchoed(i)
                                       \/ (state[i] = "waiting" /\ Die(i))))
        /\ SF_vars(part = "gateway" /\ TurnEnds(i))
    /\ \A c \in Conversations : WF_vars(part = "gateway" /\ (TakeNext(c) \/ LeaveLane(c)))
    /\ WF_vars(part = "gateway" /\ PumpEchoed)
    /\ WF_vars(part = "gateway" /\ Stopping /\ phase # "running")
FairTable ==
    /\ WF_cronVars(part = "cron" /\ LoopStep) /\ SF_cronVars(part = "cron" /\ TakeDue)
    /\ WF_cronVars(part = "cron" /\ (Refuse \/ Apply \/ Answer))
    /\ WF_cronVars(part = "cron" /\ Tick)
FairBridge ==
    /\ WF_BridgeVars(part = "mcp" /\ Bridge!Progress)
    /\ \A c \in {"p", "q"} : WF_BridgeVars(part = "mcp" /\ Bridge!CallSteps(c))
FairCommand ==
    /\ WF_CommandVars(part = "shell" /\ Command!CallSteps) /\ WF_CommandVars(part = "shell" /\ Command!Tick)
FairApi ==
    /\ WF_ApiVars(part = "api" /\ Api!Pump)
    /\ \A r \in 1..2 : WF_ApiVars(part = "api" /\ (Api!Open(r) \/ Api!Read(r)))
    /\ WF_ApiVars(part = "api" /\ Api!TurnStarts({1, 2})) /\ WF_ApiVars(part = "api" /\ Api!TurnEnds({1, 2}))
(* A stop ends and each input is settled; each due job is handled; the     *)
(* servers settle and each call of a bridge ends; a command ends; and a    *)
(* request gets an end without its timeout.                                *)
ServiceWorkEnds ==
    /\ part = "gateway" /\ FairGate => StopEnds /\ EveryInputSettled
    /\ part = "cron" /\ FairTable => DueIsHandled
    /\ part = "mcp" /\ FairBridge => Bridge!McpSettles
    /\ part = "shell" /\ FairCommand => Command!ShellEnds
    /\ part = "api" /\ FairApi => Api!RequestsEnd
=============================================================================
