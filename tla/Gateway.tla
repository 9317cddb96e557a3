------------------------------ MODULE Gateway -------------------------------
(***************************************************************************)
(* The way of an input through one instance: the channel's pump and the    *)
(* lanes of kernel/routing/fanout.py, admission in orchestrator.handle()   *)
(* with kernel/routing/dedup.py and kernel/turn/tracker.py, the session's  *)
(* slot, and the order in which runtime/instance.py stops all of them.     *)
(*                                                                         *)
(* The slot is the component SerialQueue, which SessionScheduler is shown  *)
(* to implement; what happens inside a turn is Turn.  An action is a piece *)
(* of code without an await, or a part of one: the model lets other tasks  *)
(* in between the end of one input and the start of the next of a lane.    *)
(***************************************************************************)
EXTENDS Naturals, Sequences, SequencesExt, FiniteSets

CONSTANTS
  Inputs,          (* arrivals of inbound messages                         *)
  Conversations,
  ConversationOf,
  Messages,        (* platform message ids: an id may arrive twice         *)
  MessageOf,
  Direct,          (* inputs that embed.submit() hands over, not a channel *)
  Streaming,       (* inputs whose turns call the channel's deliver()      *)
  Concurrency,     (* channel_concurrency                                  *)
  LaneSize,        (* channel_queue_max_size                               *)
  QueueMaxSize,    (* the scheduler's queue_max_size                       *)
  DedupCapacity,
  NoInput          (* None                                                 *)

ASSUME GatewayAssumption ==
  /\ ConversationOf \in [Inputs -> Conversations]
  /\ MessageOf \in [Inputs -> Messages]
  /\ Direct \subseteq Inputs /\ Streaming \subseteq Inputs
  /\ {Concurrency, LaneSize, QueueMaxSize, DedupCapacity} \subseteq Nat \ {0}
  /\ NoInput \notin Inputs

VARIABLES
  phase,     (* how far _stop_locked() has come                            *)
  accepting, (* TurnTracker._accepting                                     *)
  forced,    (* finish_shutdown() ran out of its grace period              *)
  pump,      (* the refused input whose echo the pump awaits, or NoInput   *)
  table,     (* conversations in the fanout's lane table                   *)
  queue,     (* per conversation: its lane's queue                         *)
  alive,     (* per conversation: its lane's worker exists                 *)
  worker,    (* per conversation: the input the worker handles, or NoInput *)
  dedup,     (* remembered messages, oldest first                          *)
  expired,   (* history: messages that dedup has forgotten                 *)
  state,     (* per input: how far it has come                             *)
  sending,   (* turns inside an await of the channel's deliver()           *)
  doomed,    (* inputs whose task finish_shutdown() has cancelled          *)
  backlog, active, open   (* the sessions' slots: SerialQueue              *)

Queues == INSTANCE SerialQueue WITH
  Keys <- Conversations, Tickets <- Inputs, KeyOf <- ConversationOf

stop     == <<phase, accepting, forced>>
lanes    == <<table, queue, alive, worker>>
memory   == <<dedup, expired>>
sessions == <<backlog, active, open>>
vars == <<stop, pump, lanes, memory, state, sending, doomed, sessions>>

Echoed    == {"duplicate", "busy", "stopping"}    \* receipts that are not admitted
Submitted == {"waiting", "turn", "refused"}       \* inside enter/leave_submission
States    == {"new", "queued", "dropped", "discarded", "done", "killed"}
             \cup Echoed \cup Submitted
Phases    == {"running", "channels", "pumps", "grace", "force", "drain", "closing", "stopped"}

Set(i, s) == state' = [state EXCEPT ![i] = s]
Submissions == {i \in Inputs : state[i] \in Submitted}

(* Tickets in the scheduler's waiters: a ticket that was handed the slot   *)
(* has left them.                                                          *)
Waiters(c) ==
  IF active[c] = << >> /\ backlog[c] # << >> THEN Len(backlog[c]) - 1 ELSE Len(backlog[c])
-----------------------------------------------------------------------------
Init ==
  /\ phase = "running" /\ accepting = TRUE /\ forced = FALSE
  /\ pump = NoInput
  /\ table = {}
  /\ queue = [c \in Conversations |-> << >>]
  /\ alive = [c \in Conversations |-> FALSE]
  /\ worker = [c \in Conversations |-> NoInput]
  /\ dedup = << >> /\ expired = {}
  /\ state = [i \in Inputs |-> "new"]
  /\ sending = {} /\ doomed = {}
  /\ Queues!Init

(* _offer() and run(): an input joins its conversation's lane, a new one   *)
(* if need be, or the pump turns to telling the sender that it was refused.*)
Offer(i) ==
  LET c == ConversationOf[i]
      refused == IF c \in table THEN Len(queue[c]) >= LaneSize
                 ELSE Cardinality(table) >= Concurrency IN
  /\ i \notin Direct
  /\ state[i] = "new"
  /\ phase \in {"running", "channels"}
  /\ pump = NoInput
  /\ IF refused
     THEN /\ pump' = i
          /\ Set(i, "dropped")
          /\ UNCHANGED lanes
     ELSE /\ table' = table \cup {c}
          /\ alive' = [alive EXCEPT ![c] = @ \/ c \notin table]
          /\ queue' = [queue EXCEPT ![c] = Append(@, i)]
          /\ Set(i, "queued")
          /\ UNCHANGED <<pump, worker>>
  /\ UNCHANGED <<stop, memory, sending, doomed, sessions>>

(* _dropped(): the echo is out. *)
PumpEchoed ==
  /\ pump # NoInput
  /\ pump' = NoInput
  /\ UNCHANGED <<stop, lanes, memory, state, sending, doomed, sessions>>

(* Mutant: a full table records nothing new. *)
RememberIfRoom(i) ==
  /\ dedup' = IF Len(dedup) < DedupCapacity THEN Append(dedup, MessageOf[i]) ELSE dedup
  /\ UNCHANGED expired

(* Mutant: nothing is evicted. *)
RememberUnbounded(i) ==
  /\ dedup' = Append(dedup, MessageOf[i])
  /\ UNCHANGED expired

(* remember(): known, or recorded at the expense of the oldest entry. *)
Known(i) == \E n \in DOMAIN dedup : dedup[n] = MessageOf[i]
Remember(i) ==
  LET longer == Append(dedup, MessageOf[i]) IN
  IF Len(longer) > DedupCapacity
  THEN dedup' = Tail(longer) /\ expired' = expired \cup {Head(longer)}
  ELSE dedup' = longer /\ UNCHANGED expired

(* handle() up to its first await, or to its return. *)
Handle(i) ==
  LET c == ConversationOf[i] IN
  \/ /\ ~accepting
     /\ Set(i, "stopping")
     /\ UNCHANGED <<memory, sessions>>
  \/ /\ accepting /\ Known(i)
     /\ Set(i, "duplicate")
     /\ UNCHANGED <<memory, sessions>>
  \/ /\ accepting /\ ~Known(i)
     /\ Remember(i)
     /\ \/ /\ Waiters(c) >= QueueMaxSize
           /\ Set(i, "busy")
           /\ UNCHANGED sessions
        \/ /\ Waiters(c) < QueueMaxSize
           /\ \/ Queues!ArriveAndBegin(i) /\ Set(i, "turn")
              \/ /\ active[c] # << >> \/ backlog[c] # << >>
                 /\ Queues!Arrive(i)
                 /\ Set(i, "waiting")

Submit(i) ==
  /\ i \in Direct
  /\ state[i] = "new"
  /\ Handle(i)
  /\ UNCHANGED <<stop, pump, lanes, sending, doomed>>

(* Mutant: the worker does not await handle(). *)
TakeNextUnawaited(c) ==
  /\ alive[c] /\ worker[c] = NoInput
  /\ queue[c] # << >>
  /\ queue' = [queue EXCEPT ![c] = Tail(@)]
  /\ Handle(Head(queue[c]))
  /\ UNCHANGED <<stop, pump, table, alive, worker, sending, doomed>>

(* _drive(): the worker takes the next input of its lane. *)
TakeNext(c) ==
  /\ alive[c] /\ worker[c] = NoInput
  /\ queue[c] # << >>
  /\ queue' = [queue EXCEPT ![c] = Tail(@)]
  /\ worker' = [worker EXCEPT ![c] = Head(queue[c])]
  /\ Handle(Head(queue[c]))
  /\ UNCHANGED <<stop, pump, table, alive, sending, doomed>>

(* Mutant: the lane stays in the table when its worker ends. *)
LeaveLaneListed(c) ==
  /\ alive[c] /\ worker[c] = NoInput
  /\ queue[c] = << >>
  /\ alive' = [alive EXCEPT ![c] = FALSE]
  /\ UNCHANGED <<stop, pump, table, queue, worker, memory, state, sending, doomed, sessions>>

(* Mutant: the worker of an empty lane waits for more. *)
LeaveLaneNever(c) ==
  /\ alive[c] /\ worker[c] = NoInput /\ queue[c] # queue[c]
  /\ UNCHANGED vars

(* _drive(): an empty lane leaves the table in the step that ends its      *)
(* worker.                                                                 *)
LeaveLane(c) ==
  /\ alive[c] /\ worker[c] = NoInput
  /\ queue[c] = << >>
  /\ alive' = [alive EXCEPT ![c] = FALSE]
  /\ table' = table \ {c}
  /\ UNCHANGED <<stop, pump, queue, worker, memory, state, sending, doomed, sessions>>

(* Mutant: _run() does not look at accepting again. *)
GrantUnchecked(i) ==
  LET c == ConversationOf[i] IN
  /\ state[i] = "waiting"
  /\ i \in open
  /\ Head(backlog[c]) = i
  /\ Queues!BeginOldest(c)
  /\ Set(i, "turn")
  /\ UNCHANGED <<stop, pump, lanes, memory, sending, doomed>>

(* The input has the slot: _run() starts its turn, unless the instance     *)
(* stopped accepting while it waited.                                      *)
Grant(i) ==
  LET c == ConversationOf[i] IN
  /\ state[i] = "waiting"
  /\ i \in open
  /\ Head(backlog[c]) = i
  /\ Queues!BeginOldest(c)
  /\ Set(i, IF accepting THEN "turn" ELSE "refused")
  /\ UNCHANGED <<stop, pump, lanes, memory, sending, doomed>>

(* A turn streams to the channel; deliver() is an await. *)
Send(i) ==
  /\ i \in Streaming \ sending
  /\ state[i] = "turn"
  /\ sending' = sending \cup {i}
  /\ UNCHANGED <<stop, pump, lanes, memory, state, doomed, sessions>>

Sent(i) ==
  /\ i \in sending
  /\ sending' = sending \ {i}
  /\ UNCHANGED <<stop, pump, lanes, memory, state, doomed, sessions>>

(* handle() has returned to a lane's worker: the receipt of an input that  *)
(* was not admitted is echoed first, otherwise the worker is free.         *)
WorkerFreed(i) ==
  worker' = [c \in Conversations |-> IF worker[c] = i THEN NoInput ELSE worker[c]]

(* The turn ends, by itself or because its token was cancelled, and        *)
(* handle() returns its receipt.                                           *)
TurnEnds(i) ==
  /\ state[i] = "turn"
  /\ i \notin sending
  /\ Queues!End(ConversationOf[i])
  /\ Set(i, "done")
  /\ WorkerFreed(i)
  /\ UNCHANGED <<stop, pump, table, queue, alive, memory, sending, doomed>>

(* _run() returned the "instance stopping" receipt. *)
RefusalEnds(i) ==
  /\ state[i] = "refused"
  /\ Queues!End(ConversationOf[i])
  /\ Set(i, "stopping")
  /\ UNCHANGED <<stop, pump, lanes, memory, sending, doomed>>

(* _echo(): the sender was told that its input was not admitted. *)
WorkerEchoed(i) ==
  /\ state[i] \in Echoed
  /\ \E c \in Conversations : worker[c] = i /\ alive[c]
  /\ WorkerFreed(i)
  /\ UNCHANGED <<stop, pump, table, queue, alive, memory, state, sending, doomed, sessions>>

(* The time to live of the oldest entry runs out. *)
Expire ==
  /\ dedup # << >>
  /\ dedup' = Tail(dedup)
  /\ expired' = expired \cup {Head(dedup)}
  /\ UNCHANGED <<stop, pump, lanes, state, sending, doomed, sessions>>
-----------------------------------------------------------------------------
(* stop(): new turns are refused and running ones asked to end, then the   *)
(* channels are stopped.                                                   *)
BeginStop ==
  /\ phase = "running"
  /\ phase' = "channels"
  /\ accepting' = FALSE
  /\ UNCHANGED <<forced, pump, lanes, memory, state, sending, doomed, sessions>>

(* The channels have stopped and the pump is cancelled, in an echo or not. *)
StopPump ==
  /\ phase = "channels"
  /\ phase' = "pumps"
  /\ pump' = NoInput
  /\ UNCHANGED <<accepting, forced, lanes, memory, state, sending, doomed, sessions>>

(* Mutant: the lanes are emptied but a discarded input is not accounted.   *)
DiscardSilently ==
  /\ phase = "pumps"
  /\ phase' = "grace"
  /\ queue' = [c \in Conversations |-> << >>]
  /\ UNCHANGED <<accepting, forced, pump, table, alive, worker, memory, state, sending, doomed, sessions>>

(* discard_pending(), and finish_shutdown() up to its wait. *)
Discard ==
  /\ phase = "pumps"
  /\ phase' = "grace"
  /\ queue' = [c \in Conversations |-> << >>]
  /\ state' = [i \in Inputs |-> IF state[i] = "queued" THEN "discarded" ELSE state[i]]
  /\ UNCHANGED <<accepting, forced, pump, table, alive, worker, memory, sending, doomed, sessions>>

(* Mutant: only the turns that run are waited for. *)
BecomeIdleTurnless ==
  /\ phase = "grace"
  /\ \A i \in Inputs : state[i] # "turn"
  /\ phase' = "drain"
  /\ table' = {}
  /\ UNCHANGED <<accepting, forced, pump, queue, alive, worker, memory, state, sending, doomed, sessions>>

(* Every submission has left: drain() forgets the lanes and waits for      *)
(* their workers.                                                          *)
BecomeIdle ==
  /\ phase = "grace"
  /\ Submissions = {}
  /\ phase' = "drain"
  /\ table' = {}
  /\ UNCHANGED <<accepting, forced, pump, queue, alive, worker, memory, state, sending, doomed, sessions>>

Drained ==
  /\ phase = "drain"
  /\ \A c \in Conversations : ~alive[c]
  /\ phase' = "closing"
  /\ UNCHANGED <<accepting, forced, pump, lanes, memory, state, sending, doomed, sessions>>

(* The grace period is over: the tasks of all submissions are cancelled. *)
GraceExpires ==
  /\ phase = "grace"
  /\ Submissions # {}
  /\ phase' = "force"
  /\ forced' = TRUE
  /\ doomed' = Submissions
  /\ UNCHANGED <<accepting, pump, lanes, memory, state, sending, sessions>>

(* A cancelled task unwinds: out of its wait for the slot, whose ticket    *)
(* stays, or out of run(), which gives the slot back.  The lane's worker   *)
(* dies with it.                                                           *)
Die(i) ==
  /\ i \in doomed
  /\ state[i] \in Submitted
  /\ IF state[i] = "waiting" THEN Queues!Abandon(i) ELSE Queues!End(ConversationOf[i])
  /\ Set(i, "killed")
  /\ sending' = sending \ {i}
  /\ WorkerFreed(i)
  /\ alive' = [c \in Conversations |-> alive[c] /\ worker[c] # i]
  /\ UNCHANGED <<stop, pump, table, queue, memory, doomed>>

(* force_cancel(): the lanes are forgotten; a worker in an echo or about   *)
(* to look at its queue dies too.                                          *)
ForceCancel ==
  /\ phase = "force"
  /\ phase' = "closing"
  /\ table' = {}
  /\ alive' = [c \in Conversations |-> alive[c] /\ worker[c] \in Submissions]
  /\ worker' = [c \in Conversations |-> IF worker[c] \in Submissions THEN worker[c] ELSE NoInput]
  /\ UNCHANGED <<accepting, forced, pump, queue, memory, state, sending, doomed, sessions>>

(* The shutdown hooks, the plugins, the closers and the instance lock. *)
Close ==
  /\ phase = "closing"
  /\ phase' = "stopped"
  /\ UNCHANGED <<accepting, forced, pump, lanes, memory, state, sending, doomed, sessions>>

Stopping ==
  BeginStop \/ StopPump \/ Discard \/ BecomeIdle \/ Drained \/ GraceExpires
  \/ ForceCancel \/ Close

Next ==
  \/ \E i \in Inputs :
       Offer(i) \/ Submit(i) \/ Grant(i) \/ Send(i) \/ Sent(i) \/ TurnEnds(i)
       \/ RefusalEnds(i) \/ WorkerEchoed(i) \/ Die(i)
  \/ \E c \in Conversations : TakeNext(c) \/ LeaveLane(c)
  \/ PumpEchoed \/ Expire \/ Stopping

(* Ready tasks are run, deliver() returns, timers fire and a cancelled     *)
(* turn ends; nobody is obliged to send messages or to stop the instance.  *)
Fairness ==
  /\ \A i \in Inputs :
       /\ WF_vars(\/ Grant(i) \/ Sent(i) \/ RefusalEnds(i) \/ WorkerEchoed(i)
                  \/ state[i] = "waiting" /\ Die(i))
       /\ SF_vars(TurnEnds(i))
  /\ \A c \in Conversations : WF_vars(TakeNext(c) \/ LeaveLane(c))
  /\ WF_vars(PumpEchoed)
  /\ WF_vars(Stopping /\ phase # "running")

Spec == Init /\ [][Next]_vars
FairSpec == Spec /\ Fairness
-----------------------------------------------------------------------------
TypeOK ==
  /\ phase \in Phases /\ accepting \in BOOLEAN /\ forced \in BOOLEAN
  /\ pump \in Inputs \cup {NoInput}
  /\ table \subseteq Conversations
  /\ queue \in [Conversations -> Seq(Inputs)]
  /\ \A c \in Conversations : Len(queue[c]) <= LaneSize
  /\ alive \in [Conversations -> BOOLEAN]
  /\ worker \in [Conversations -> Inputs \cup {NoInput}]
  /\ dedup \in Seq(Messages) /\ Len(dedup) <= DedupCapacity
  /\ expired \subseteq Messages
  /\ state \in [Inputs -> States]
  /\ sending \subseteq Inputs /\ doomed \subseteq Inputs
  /\ backlog \in [Conversations -> Seq(Inputs)]
  /\ active \in [Conversations -> Seq(Inputs)]
  /\ open \subseteq Inputs

(* An input that was put into a lane can still be taken by a worker, and   *)
(* until the stop forgets the lanes the table lists the living ones, which *)
(* are never more than the channel may have.                               *)
NoStrandedInput ==
  /\ \A i \in Inputs : state[i] = "queued" =>
       i \in ToSet(queue[ConversationOf[i]]) /\ alive[ConversationOf[i]]
  /\ phase \in {"running", "channels", "pumps", "grace"} =>
       table = {c \in Conversations : alive[c]}
  /\ Cardinality(table) <= Concurrency

(* "At most one waiter of a session comes from this module"                *)
(* (fanout.py:25): the channel's inputs of a conversation are submitted    *)
(* one after the other, in whatever order the direct ones come between.    *)
LaneSerial ==
  \A i, j \in Submissions \ Direct : ConversationOf[i] = ConversationOf[j] => i = j

(* Both: a lane loses no input and never runs two at once. *)
LanesInOrder == NoStrandedInput /\ LaneSerial

(* A message that the platform delivers twice is executed once, as long as *)
(* dedup has not forgotten it.                                             *)
Executing == Submitted \cup {"done", "killed"}
AtMostOnce ==
  \A i, j \in Inputs :
    /\ i # j /\ MessageOf[i] = MessageOf[j]
    /\ state[i] \in Executing /\ state[j] \in Executing
    => MessageOf[i] \in expired

(* No turn starts once the stop has begun, not even for an input that was  *)
(* admitted before and got the slot after.                                 *)
NoTurnAfterStop ==
  [][\A i \in Inputs : state[i] # "turn" /\ state'[i] = "turn" => accepting]_vars

(* When the shutdown hooks run after an orderly stop, "no turn uses the    *)
(* plugins any more" (instance.py:225): no submission is under way, no     *)
(* worker lives, no slot is held or waited for.                            *)
QuietWhenDrained ==
  phase \in {"closing", "stopped"} /\ ~forced =>
    /\ Submissions = {} /\ open = {}
    /\ \A c \in Conversations : ~alive[c] /\ active[c] = << >> /\ backlog[c] = << >>

(* All of them, with the types: inputs of a conversation run one at a time, *)
(* what was executed is not executed again, and after a drained stop       *)
(* nothing runs.                                                           *)
GatewayIsOrderly == TypeOK /\ LanesInOrder /\ AtMostOnce /\ QuietWhenDrained

(* stop() ends, whatever the turns do: it is bounded by the grace period.  *)
StopEnds == phase # "running" ~> phase = "stopped"

(* What was put into a lane or admitted is eventually answered, discarded  *)
(* by the stop or killed by it: there comes a time when nothing is under   *)
(* way.                                                                    *)
UnderWay == {i \in Inputs : state[i] \in Submitted \cup {"queued"}}
EveryInputSettled == UnderWay # {} ~> UnderWay = {}

(* "deliver() is not called concurrently within one conversation: the      *)
(* lanes and the scheduler both serialise it" (contracts/protocols.py:487).*)
Delivering(c) ==
  {i \in Inputs : ConversationOf[i] = c /\ (i \in sending \/ i = pump)}
  \cup {i \in Inputs : worker[c] = i /\ state[i] \in Echoed}
DeliveriesSerial == \A c \in Conversations : Cardinality(Delivering(c)) <= 1
=============================================================================
