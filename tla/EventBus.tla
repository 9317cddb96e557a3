------------------------------ MODULE EventBus ------------------------------
(***************************************************************************)
(* The event bus (kernel/observability/bus.py) and its built-in sinks      *)
(* (sinks.py): numbered events, a fan-out that a callback may re-enter, a  *)
(* circuit breaker per subscriber, a bounded ring and a daily file.        *)
(*                                                                         *)
(* An event is its sequence number.  The two sinks are ordinary            *)
(* subscribers, Ring and File; every other one is a plugin's callback.     *)
(***************************************************************************)
EXTENDS Naturals, Sequences, FiniteSets, SequencesExt

CONSTANTS
    Subs,           \* the subscribers that may exist, Ring and File among them
    Ring, File,
    MaxStrikes,     \* consecutive failures or slow deliveries that detach
    Capacity,       \* of the memory ring
    MaxEvents,      \* bound of the model: events published
    MaxDays         \* bound of the model: days the file sink sees

(* The ring refuses a capacity of zero (sinks.py:47); a bus that detaches   *)
(* after no strike at all is never built.                                  *)
ASSUME BusAssumption ==
    /\ {Ring, File} \subseteq Subs /\ Ring # File
    /\ {MaxStrikes, Capacity} \subseteq Nat \ {0}
    /\ {MaxEvents, MaxDays} \subseteq Nat

VARIABLES
    sequence,       \* the next sequence number
    pending,        \* events waiting for the outermost fan-out
    dispatching,    \* a fan-out is under way
    current,        \* the event being delivered, and to whom it still goes
    order,          \* every subscription, in the order they were made
    detached,       \* those cancelled or cut off
    strikes,        \* subscriber -> consecutive strikes
    retired,        \* those no longer in the list, of which a health record stays
    ring, dropped,  \* the memory ring
    day, busFile,   \* the file sink: today, and its handle, lines and failures
    busSeen,        \* history: subscriber -> the events handed to it
    lost            \* history: events a fan-out that was torn down never delivered
busVars == <<sequence, pending, dispatching, current, order, detached, strikes, retired,
             ring, dropped, day, busFile, busSeen, lost>>

Nobody == [event |-> 0, to |-> {}]
BusInit ==
    /\ sequence = 1 /\ pending = <<>> /\ dispatching = FALSE /\ current = Nobody
    /\ order = <<Ring, File>>
    /\ detached = {} /\ retired = {}
    /\ strikes = [s \in Subs |-> 0]
    /\ ring = <<>> /\ dropped = 0
    /\ day = 1 /\ busFile = [open |-> 0, lines |-> {}, failures |-> 0]
    /\ busSeen = [s \in Subs |-> <<>>] /\ lost = {}

Subscribers == ToSet(order) \ detached
InCallback == dispatching /\ current.to # {}

(* A fan-out goes through a copy of the list, from the oldest on. *)
Older(s, t) == \E i, j \in DOMAIN order : i < j /\ order[i] = s /\ order[j] = t
Receiver(s) == InCallback /\ s \in current.to /\ \A t \in current.to \ {s} : Older(s, t)

(* publish(): from outside, or from the callback that is running.  The     *)
(* event is queued; only the outermost call fans out.                      *)
Publish ==
    /\ sequence <= MaxEvents
    /\ \/ ~dispatching
       \/ \E s \in Subs \ {Ring, File} : Receiver(s)
    /\ sequence' = sequence + 1
    /\ pending' = Append(pending, sequence)
    /\ dispatching' = TRUE
    /\ UNCHANGED <<current, order, detached, strikes, retired, ring, dropped, day, busFile, busSeen, lost>>

(* Mutant: the newest event goes first. *)
DispatchNewest ==
    /\ dispatching /\ current.to = {} /\ pending # <<>>
    /\ current' = [event |-> Last(pending), to |-> Subscribers]
    /\ pending' = Front(pending)
    /\ UNCHANGED <<sequence, dispatching, order, detached, strikes, retired, ring, dropped, day, busFile, busSeen, lost>>
Dispatch ==     \* the next event goes to those subscribed at this moment
    /\ dispatching /\ current.to = {} /\ pending # <<>>
    /\ current' = [event |-> Head(pending), to |-> Subscribers]
    /\ pending' = Tail(pending)
    /\ UNCHANGED <<sequence, dispatching, order, detached, strikes, retired, ring, dropped, day, busFile, busSeen, lost>>

Skip(s) ==      \* an earlier callback has just cancelled this one
    /\ Receiver(s) /\ s \in detached
    /\ current' = [current EXCEPT !.to = @ \ {s}]
    /\ UNCHANGED <<sequence, pending, dispatching, order, detached, strikes, retired, ring, dropped, day, busFile, busSeen, lost>>

(* Mutant: a cancelled subscriber is not skipped. *)
DeliverToDetached(s, healthy) ==
    /\ Receiver(s)
    /\ busSeen' = [busSeen EXCEPT ![s] = Append(@, current.event)]
    /\ strikes' = [strikes EXCEPT ![s] = IF healthy THEN 0 ELSE @ + 1]
    /\ detached' = IF strikes'[s] >= MaxStrikes THEN detached \union {s} ELSE detached
    /\ current' = [current EXCEPT !.to = @ \ {s}]
    /\ UNCHANGED <<sequence, pending, dispatching, order, retired, day, lost>>
(* deliver(): a strike for an exception or a slow return; a healthy        *)
(* delivery clears the count; MaxStrikes in a row detach.                  *)
Deliver(s, healthy) ==
    /\ Receiver(s) /\ s \notin detached
    /\ busSeen' = [busSeen EXCEPT ![s] = Append(@, current.event)]
    /\ strikes' = [strikes EXCEPT ![s] = IF healthy THEN 0 ELSE @ + 1]
    /\ detached' = IF strikes'[s] >= MaxStrikes THEN detached \union {s} ELSE detached
    /\ current' = [current EXCEPT !.to = @ \ {s}]
    /\ UNCHANGED <<sequence, pending, dispatching, order, retired, day, lost>>

ToPlugin(s) ==  \* returns in time, returns late, or raises
    /\ s \notin {Ring, File}
    /\ \E healthy \in BOOLEAN : Deliver(s, healthy)
    /\ UNCHANGED <<ring, dropped, busFile>>

(* Mutant: what falls out of the ring is not counted. *)
ToRingUncounted ==
    /\ Deliver(Ring, TRUE)
    /\ ring' = Append(IF Len(ring) = Capacity THEN Tail(ring) ELSE ring, current.event)
    /\ UNCHANGED <<dropped, busFile>>
ToRing ==       \* a deque of fixed length: the oldest falls out and is counted
    /\ Deliver(Ring, TRUE)
    /\ dropped' = IF Len(ring) = Capacity THEN dropped + 1 ELSE dropped
    /\ ring' = Append(IF Len(ring) = Capacity THEN Tail(ring) ELSE ring, current.event)
    /\ UNCHANGED busFile

ToFile ==       \* opens today's file if need be; an OSError closes it and is counted
    /\ Deliver(File, TRUE)
    /\ \/ busFile' = [busFile EXCEPT !.open = day, !.lines = @ \union {<<day, current.event>>}]
       \/ busFile' = [busFile EXCEPT !.open = 0, !.failures = @ + 1]
    /\ UNCHANGED <<ring, dropped>>

Subscribe(s) == \* by a plugin, in a callback or between two events
    /\ ~dispatching \/ InCallback
    /\ s \notin ToSet(order)
    /\ order' = Append(order, s)
    /\ UNCHANGED <<sequence, pending, dispatching, current, detached, strikes, retired, ring, dropped, day, busFile, busSeen, lost>>

Cancel(s) ==    \* the plugin's handle; the list is tidied after the fan-out
    /\ ~dispatching \/ InCallback
    /\ s \in ToSet(order) \ (detached \union {Ring, File})
    /\ detached' = detached \union {s}
    /\ UNCHANGED <<sequence, pending, dispatching, current, order, strikes, retired, ring, dropped, day, busFile, busSeen, lost>>

Retire == retired' = retired \union detached
Finish ==       \* the outermost fan-out has flushed everything
    /\ dispatching /\ current.to = {} /\ pending = <<>>
    /\ dispatching' = FALSE /\ current' = Nobody
    /\ Retire
    /\ UNCHANGED <<sequence, pending, order, detached, strikes, ring, dropped, day, busFile, busSeen, lost>>

Escape(s) ==    \* a callback raises what is no Exception: the queue is dropped
    /\ Receiver(s) /\ s \notin detached \union {Ring, File}
    /\ busSeen' = [busSeen EXCEPT ![s] = Append(@, current.event)]
    /\ lost' = lost \union ToSet(pending) \union {current.event}
    /\ pending' = <<>> /\ dispatching' = FALSE /\ current' = Nobody
    /\ Retire
    /\ UNCHANGED <<sequence, order, detached, strikes, ring, dropped, day, busFile>>

Midnight == /\ ~dispatching /\ day < MaxDays /\ day' = day + 1
            /\ UNCHANGED <<sequence, pending, dispatching, current, order, detached, strikes, retired, ring, dropped, busFile, busSeen, lost>>

FanOut == \/ Dispatch \/ ToRing \/ ToFile \/ Finish
          \/ \E s \in Subs : Skip(s) \/ ToPlugin(s)
BusNext == \/ Publish \/ FanOut \/ Midnight
           \/ \E s \in Subs : Subscribe(s) \/ Cancel(s) \/ Escape(s)
BusFairness == WF_busVars(FanOut)
BusSpec == BusInit /\ [][BusNext]_busVars /\ BusFairness

---------------------------------------------------------------------------
(* Properties                                                              *)

(* OBS-002: whatever callbacks publish, subscribe, cancel or raise, each   *)
(* subscriber is handed the events one by one in publication order: what   *)
(* it has seen is without gaps, but for events lost to an escaped          *)
(* exception.                                                              *)
EventsInOrder ==
    \A s \in Subs : busSeen[s] # <<>> =>
        /\ \A i \in 1..(Len(busSeen[s]) - 1) : busSeen[s][i] < busSeen[s][i + 1]
        /\ (busSeen[s][1]..Last(busSeen[s])) \ ToSet(busSeen[s]) \subseteq lost

(* Nothing is left behind when the bus is quiet: whoever is still          *)
(* subscribed has seen the newest event unless it joined after it or the   *)
(* event was lost; the ring holds the newest events and counts the others; *)
(* the file has a line or a failure for each.                              *)
QuietIsComplete ==
    ~dispatching =>
        /\ pending = <<>>
        /\ \A s \in ToSet(order) \ retired : busSeen[s] # <<>> =>
              (Last(busSeen[s])..(sequence - 1)) \ {Last(busSeen[s])} \subseteq lost
        /\ ring = SubSeq(busSeen[Ring], Len(busSeen[Ring]) - Len(ring) + 1, Len(busSeen[Ring]))
        /\ dropped + Len(ring) = Len(busSeen[Ring])
        /\ Cardinality(busFile.lines) + busFile.failures = Len(busSeen[File])

(* Both: each subscriber hears the events in order and, when the bus is    *)
(* quiet, all of them.                                                     *)
EventsReachAll == EventsInOrder /\ QuietIsComplete

(* A subscriber that was cut off or cancelled hears nothing any more, and  *)
(* nobody strikes MaxStrikes times in a row and stays.                     *)
CutOffIsFinal ==
    [][\A s \in Subs :
          /\ s \in detached => busSeen'[s] = busSeen[s] /\ s \in detached'
          /\ s \notin detached' => strikes'[s] < MaxStrikes]_busVars

(* A fan-out ends although callbacks publish: publish() returns.           *)
PublishReturns == dispatching ~> ~dispatching
=============================================================================
