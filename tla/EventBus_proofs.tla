---------------------------- MODULE EventBus_proofs ----------------------------
(***************************************************************************)
(* The event bus keeps its order and loses nothing silently, for any       *)
(* subscribers, any limit of strikes, any capacity of the ring and any     *)
(* number of events and days.  The hook router isolates its handlers, for  *)
(* any hooks and any number of handlers of each.                           *)
(***************************************************************************)
EXTENDS EventBus, Hooks, SequenceTheorems, FiniteSetTheorems, TLAPS

(* The event that the next fan-out delivers: events are numbered without a  *)
(* gap, and those that wait are the last ones.                             *)
NextEvent == sequence - Len(pending)

BusTypeOK ==
  /\ sequence \in Nat \ {0}
  /\ pending \in Seq(Nat)
  /\ dispatching \in BOOLEAN
  /\ current \in [event : Nat, to : SUBSET Subs]
  /\ order \in Seq(Subs)
  /\ detached \subseteq Subs /\ retired \subseteq detached
  /\ strikes \in [Subs -> Nat]
  /\ ring \in Seq(Nat) /\ Len(ring) <= Capacity /\ dropped \in Nat
  /\ day \in Nat
  /\ busFile \in [open : Nat, lines : SUBSET (Nat \X Nat), failures : Nat]
  /\ busSeen \in [Subs -> Seq(Nat)]
  /\ lost \subseteq Nat

(* What waits is consecutive, and outside of a fan-out nothing does. *)
QueueHolds ==
  /\ NextEvent \in Nat \ {0}
  /\ \A i \in 1..Len(pending) : pending[i] = NextEvent + i - 1
  /\ ~dispatching => pending = << >> /\ current = Nobody
  /\ current.to # {} => dispatching /\ current.event = NextEvent - 1
  /\ current.event < NextEvent
  /\ current.to \subseteq ToSet(order)

(* The first event a subscriber has not been offered yet. *)
Frontier(s) == IF s \in current.to THEN current.event ELSE NextEvent

(* Who counts on hearing the next event: whoever is not detached, and until *)
(* the next fan-out whoever is still in the list.                          *)
Listening(s) == s \in ToSet(order) /\ (s \notin detached \/ (~dispatching /\ s \notin retired))

(* A subscriber has heard what came before its frontier, in order; what it  *)
(* has not heard since its first event was lost with a fan-out.            *)
Hears(s) ==
  busSeen[s] # << >> =>
    /\ s \in ToSet(order)
    /\ \A i \in 1..(Len(busSeen[s]) - 1) : busSeen[s][i] < busSeen[s][i + 1]
    /\ \A e \in busSeen[s][1]..Last(busSeen[s]) : e \in ToSet(busSeen[s]) \/ e \in lost
    /\ Last(busSeen[s]) < Frontier(s)
    /\ Listening(s) => \A e \in (Last(busSeen[s]) + 1)..(Frontier(s) - 1) : e \in lost

(* The ring is the end of what its sink has seen, the rest is counted. *)
IsEnd(q, t, n) == n + Len(q) = Len(t) /\ \A i \in 1..Len(q) : q[i] = t[n + i]
RingHolds == IsEnd(ring, busSeen[Ring], dropped)

(* The file has a line or a counted failure for each event. *)
FileHolds ==
  /\ IsFiniteSet(busFile.lines)
  /\ Cardinality(busFile.lines) + busFile.failures = Len(busSeen[File])
  /\ \A l \in busFile.lines : busSeen[File] # << >> /\ l[2] <= Last(busSeen[File])

(* Whoever has struck too often is detached. *)
StrikesHold == \A s \in Subs \ detached : strikes[s] < MaxStrikes

IInv ==
  /\ BusTypeOK
  /\ QueueHolds
  /\ \A s \in Subs : Hears(s)
  /\ RingHolds
  /\ FileHolds
  /\ StrikesHold
-----------------------------------------------------------------------------
(* Sequences of events. *)

LEMMA AppendFacts ==
  ASSUME NEW T, NEW s \in Seq(T), NEW x \in T
  PROVE  /\ Append(s, x) \in Seq(T) /\ Len(Append(s, x)) = Len(s) + 1 /\ Len(s) \in Nat
         /\ Append(s, x) # << >>
         /\ \A i \in 1..Len(s) : Append(s, x)[i] = s[i]
         /\ Append(s, x)[Len(s) + 1] = x /\ Last(Append(s, x)) = x
         /\ ToSet(Append(s, x)) = ToSet(s) \cup {x}
<1>1. /\ Append(s, x) \in Seq(T) /\ Len(Append(s, x)) = Len(s) + 1 /\ Len(s) \in Nat
      /\ Append(s, x) # << >>
      /\ \A i \in 1..Len(s) : Append(s, x)[i] = s[i]
      /\ Append(s, x)[Len(s) + 1] = x
      /\ DOMAIN s = 1..Len(s) /\ DOMAIN Append(s, x) = 1..(Len(s) + 1)
  OBVIOUS
<1>2. 1..(Len(s) + 1) = (1..Len(s)) \cup {Len(s) + 1} BY <1>1
<1>3. ToSet(Append(s, x)) = ToSet(s) \cup {x} BY <1>1, <1>2 DEF ToSet
<1> QED BY <1>1, <1>3 DEF Last

LEMMA TailFacts ==
  ASSUME NEW T, NEW s \in Seq(T), s # << >>
  PROVE  /\ Head(s) \in T /\ Head(s) = s[1] /\ Len(s) \in Nat \ {0}
         /\ Tail(s) \in Seq(T) /\ Len(Tail(s)) = Len(s) - 1
         /\ \A i \in 1..(Len(s) - 1) : Tail(s)[i] = s[i + 1]
  OBVIOUS

LEMMA SeenFacts ==
  ASSUME NEW s \in Seq(Nat), s # << >>
  PROVE  Len(s) \in Nat \ {0} /\ s[1] \in Nat /\ Last(s) \in Nat /\ s[Len(s)] = Last(s)
  BY DEF Last

LEMMA EndGrows ==
  ASSUME NEW q \in Seq(Nat), NEW t \in Seq(Nat), NEW n \in Nat, NEW x \in Nat, IsEnd(q, t, n)
  PROVE  IsEnd(Append(q, x), Append(t, x), n)
<1>1. /\ Len(q) \in Nat /\ Len(t) \in Nat /\ n + Len(q) = Len(t)
      /\ \A i \in 1..Len(q) : q[i] = t[n + i]
  BY DEF IsEnd
<1>2. /\ Len(Append(q, x)) = Len(q) + 1 /\ Append(q, x)[Len(q) + 1] = x
      /\ \A i \in 1..Len(q) : Append(q, x)[i] = q[i]
  BY AppendFacts
<1>3. /\ Len(Append(t, x)) = Len(t) + 1 /\ Append(t, x)[Len(t) + 1] = x
      /\ \A i \in 1..Len(t) : Append(t, x)[i] = t[i]
  BY AppendFacts
<1> DEFINE q1 == Append(q, x)
           t1 == Append(t, x)
<1> HIDE DEF q1, t1
<1>4. ASSUME NEW i \in 1..Len(q1) PROVE q1[i] = t1[n + i]
  <2>1. CASE i \in 1..Len(q)
    <3>1. n + i \in 1..Len(t) BY <1>1, <2>1
    <3> QED BY <1>1, <1>2, <1>3, <2>1, <3>1 DEF q1, t1
  <2>2. CASE i = Len(q) + 1
    <3>1. Len(q) \in Nat /\ n + Len(q) = Len(t) BY <1>1
    <3>2. n + (Len(q) + 1) = (n + Len(q)) + 1 BY <3>1
    <3>3. n + i = Len(t) + 1 BY <2>2, <3>1, <3>2
    <3> QED BY <1>2, <1>3, <2>2, <3>3 DEF q1, t1
  <2> QED BY <1>1, <1>2, <2>1, <2>2 DEF q1
<1>5. n + Len(q1) = Len(t1) BY <1>1, <1>2, <1>3 DEF q1, t1
<1> QED BY <1>4, <1>5 DEF IsEnd, q1, t1

LEMMA EndShrinks ==
  ASSUME NEW q \in Seq(Nat), q # << >>, NEW t \in Seq(Nat), NEW n \in Nat, IsEnd(q, t, n)
  PROVE  IsEnd(Tail(q), t, n + 1)
<1>1. /\ Len(q) \in Nat \ {0} /\ Len(t) \in Nat /\ n + Len(q) = Len(t)
      /\ \A i \in 1..Len(q) : q[i] = t[n + i]
  BY TailFacts DEF IsEnd
<1> DEFINE q1 == Tail(q)
<1>2. Len(q1) = Len(q) - 1 /\ \A i \in 1..(Len(q) - 1) : q1[i] = q[i + 1]
  BY TailFacts
<1> HIDE DEF q1
<1>3. ASSUME NEW i \in 1..Len(q1) PROVE q1[i] = t[(n + 1) + i]
  <2>1. i + 1 \in 1..Len(q) /\ n + (i + 1) = (n + 1) + i BY <1>1, <1>2
  <2>2. q[i + 1] = t[n + (i + 1)] BY <1>1, <2>1
  <2> QED BY <1>2, <2>1, <2>2
<1>4. (n + 1) + Len(q1) = Len(t)
  <2>1. Len(q) \in Nat /\ n + Len(q) = Len(t) /\ Len(q1) = Len(q) - 1 BY <1>1, <1>2
  <2>2. (n + 1) + (Len(q) - 1) = n + Len(q) BY <2>1
  <2> QED BY <2>1, <2>2
<1> QED BY <1>3, <1>4 DEF IsEnd, q1

LEMMA Constants ==
  /\ Ring \in Subs /\ File \in Subs /\ Ring # File
  /\ MaxStrikes \in Nat \ {0} /\ Capacity \in Nat \ {0}
BY BusAssumption DEF BusAssumption
-----------------------------------------------------------------------------
LEMMA InitHolds == BusInit => IInv
<1> SUFFICES ASSUME BusInit PROVE IInv OBVIOUS
<1> USE Constants DEF BusInit
<1>1. BusTypeOK
  <2>1. pending \in Seq(Nat) /\ ring \in Seq(Nat) /\ Len(ring) <= Capacity
    BY EmptySeq
  <2>2. order \in Seq(Subs) OBVIOUS
  <2>3. busSeen \in [Subs -> Seq(Nat)] OBVIOUS
  <2>4. current \in [event : Nat, to : SUBSET Subs] BY DEF Nobody
  <2>5. busFile \in [open : Nat, lines : SUBSET (Nat \X Nat), failures : Nat] OBVIOUS
  <2>6. sequence \in Nat \ {0} /\ dropped \in Nat /\ day \in Nat
    OBVIOUS
  <2>7. strikes \in [Subs -> Nat]
    OBVIOUS
  <2>8. /\ dispatching \in BOOLEAN
        /\ detached \subseteq Subs /\ retired \subseteq detached /\ lost \subseteq Nat
    OBVIOUS
  <2> HIDE DEF BusInit
  <2> QED BY <2>1, <2>2, <2>3, <2>4, <2>5, <2>6, <2>7, <2>8 DEF BusTypeOK
<1>2. QueueHolds
  <2>1. Len(pending) = 0 BY EmptySeq
  <2> QED BY <2>1 DEF QueueHolds, NextEvent, Nobody
<1>3. \A s \in Subs : Hears(s) BY DEF Hears
<1>4. RingHolds BY EmptySeq DEF RingHolds, IsEnd
<1>5. FileHolds
  <2>1. IsFiniteSet(busFile.lines) /\ Cardinality(busFile.lines) = 0 /\ Len(busSeen[File]) = 0
    BY FS_EmptySet, EmptySeq
  <2> QED BY <2>1 DEF FileHolds
<1>6. StrikesHold BY DEF StrikesHold
<1> QED BY <1>1, <1>2, <1>3, <1>4, <1>5, <1>6 DEF IInv

(* A step that hands a subscriber no event and moves its frontier only past  *)
(* what is lost leaves it where it was.                                    *)
LEMMA HearsKept ==
  ASSUME IInv, lost \subseteq lost', ToSet(order) \subseteq ToSet(order'),
         NEW s \in Subs, busSeen'[s] = busSeen[s],
         Frontier(s) \in Nat, Frontier(s)' \in Nat, Frontier(s) <= Frontier(s)',
         busSeen[s] # << >> /\ Listening(s)' =>
           Listening(s) /\ \A e \in Frontier(s)..(Frontier(s)' - 1) : e \in lost'
  PROVE  Hears(s)'
<1> SUFFICES ASSUME busSeen[s] # << >> PROVE Hears(s)' BY DEF Hears
<1> DEFINE f == Frontier(s)
           g == Frontier(s)'
<1>1. /\ Hears(s) /\ busSeen'[s] = busSeen[s]
      /\ busSeen[s] \in Seq(Nat) /\ Last(busSeen[s]) \in Nat
      /\ Last(busSeen[s]) < f /\ f <= g /\ f \in Nat /\ g \in Nat
  BY SeenFacts DEF IInv, BusTypeOK, Hears
<1> HIDE DEF f, g
<1>2. ASSUME Listening(s)', NEW e \in (Last(busSeen[s]) + 1)..(g - 1)
      PROVE  e \in lost'
  <2>1. CASE e <= f - 1
    <3>1. e \in (Last(busSeen[s]) + 1)..(f - 1) BY <1>1, <2>1
    <3> QED BY <1>1, <1>2, <3>1 DEF Hears, f
  <2>2. CASE ~(e <= f - 1)
    <3>1. e \in f..(g - 1) BY <1>1, <2>2
    <3> QED BY <1>2, <3>1 DEF f, g
  <2> QED BY <2>1, <2>2
<1>3. Last(busSeen[s]) < g BY <1>1
<1> QED BY <1>1, <1>2, <1>3 DEF Hears, g

(* The sinks' own state is left alone. *)
LEMMA SinksKept ==
  ASSUME IInv, UNCHANGED <<ring, dropped, busFile, busSeen>>
  PROVE  RingHolds' /\ FileHolds'
BY DEF IInv, RingHolds, FileHolds
-----------------------------------------------------------------------------
(* One lemma per step. *)

LEMMA FrontierType ==
  ASSUME BusTypeOK, QueueHolds, NEW s
  PROVE  Frontier(s) \in Nat /\ current.event \in Nat /\ NextEvent \in Nat \ {0}
         /\ (s \in current.to => Frontier(s) = NextEvent - 1)
         /\ (s \notin current.to => Frontier(s) = NextEvent)
BY DEF BusTypeOK, QueueHolds, Frontier

LEMMA PublishStep ==
  ASSUME IInv, Publish
  PROVE  IInv'
<1>1. /\ sequence' = sequence + 1 /\ pending' = Append(pending, sequence) /\ dispatching' = TRUE
      /\ UNCHANGED <<current, order, detached, strikes, retired, ring, dropped, day, busFile, busSeen, lost>>
      /\ ~dispatching \/ dispatching
  BY DEF Publish
<1>2. /\ BusTypeOK /\ QueueHolds
      /\ sequence \in Nat \ {0} /\ pending \in Seq(Nat) /\ Len(pending) \in Nat
      /\ NextEvent \in Nat \ {0}
  BY DEF IInv, BusTypeOK, QueueHolds
<1>3. /\ pending' \in Seq(Nat) /\ Len(pending') = Len(pending) + 1
      /\ \A i \in 1..Len(pending) : pending'[i] = pending[i]
      /\ pending'[Len(pending) + 1] = sequence
  BY <1>1, <1>2, AppendFacts
<1>4. NextEvent' = NextEvent BY <1>1, <1>2, <1>3 DEF NextEvent
<1>5. BusTypeOK' BY <1>1, <1>2, <1>3 DEF BusTypeOK
<1>6. QueueHolds'
  <2>1. ASSUME NEW i \in 1..Len(pending') PROVE pending'[i] = NextEvent + i - 1
    <3>1. CASE i \in 1..Len(pending) BY <1>2, <1>3, <3>1 DEF QueueHolds
    <3>2. CASE i = Len(pending) + 1 BY <1>2, <1>3, <3>2 DEF NextEvent
    <3> QED BY <1>2, <1>3, <3>1, <3>2
  <2> QED BY <1>1, <1>2, <1>4, <2>1 DEF QueueHolds
<1>7. ASSUME NEW s \in Subs PROVE Hears(s)'
  <2>1. Frontier(s)' = Frontier(s) BY <1>1, <1>4 DEF Frontier
  <2>2. Listening(s)' => Listening(s) BY <1>1 DEF Listening
  <2>3. Frontier(s) \in Nat BY <1>2, FrontierType
  <2>4. Frontier(s)..(Frontier(s) - 1) = {} BY <2>3
  <2> QED BY <1>1, <1>5, <1>6, <2>1, <2>2, <2>3, <2>4, HearsKept
<1> QED BY <1>1, <1>5, <1>6, <1>7, SinksKept DEF IInv, StrikesHold

LEMMA DispatchStep ==
  ASSUME IInv, Dispatch
  PROVE  IInv'
<1>1. /\ dispatching /\ current.to = {} /\ pending # << >>
      /\ current' = [event |-> Head(pending), to |-> ToSet(order) \ detached]
      /\ pending' = Tail(pending)
      /\ UNCHANGED <<sequence, dispatching, order, detached, strikes, retired, ring, dropped, day, busFile, busSeen, lost>>
  BY DEF Dispatch, Subscribers
<1>2. /\ BusTypeOK /\ QueueHolds
      /\ sequence \in Nat \ {0} /\ pending \in Seq(Nat) /\ Len(pending) \in Nat \ {0}
      /\ NextEvent \in Nat \ {0}
  BY <1>1, TailFacts DEF IInv, BusTypeOK, QueueHolds
<1>3. /\ Head(pending) \in Nat /\ Head(pending) = pending[1]
      /\ pending' \in Seq(Nat) /\ Len(pending') = Len(pending) - 1
      /\ \A i \in 1..(Len(pending) - 1) : pending'[i] = pending[i + 1]
  BY <1>1, <1>2, TailFacts
<1>4. NextEvent' = NextEvent + 1 /\ Head(pending) = NextEvent
  <2>1. 1 \in 1..Len(pending) BY <1>2
  <2>2. pending[1] = NextEvent + 1 - 1 BY <1>2, <2>1 DEF QueueHolds
  <2>3. Head(pending) = NextEvent BY <1>2, <1>3, <2>2
  <2>4. NextEvent' = NextEvent + 1
    <3>1. NextEvent' = sequence - (Len(pending) - 1) BY <1>1, <1>3 DEF NextEvent
    <3>2. sequence - (Len(pending) - 1) = (sequence - Len(pending)) + 1 BY <1>2
    <3> QED BY <3>1, <3>2 DEF NextEvent
  <2> QED BY <2>3, <2>4
<1>5. /\ current' \in [event : Nat, to : SUBSET Subs]
      /\ current'.event = NextEvent /\ current'.to = ToSet(order) \ detached
  <2>1. ToSet(order) \subseteq Subs BY <1>2 DEF BusTypeOK, ToSet
  <2> QED BY <1>1, <1>3, <1>4, <2>1
<1>6. BusTypeOK' BY <1>1, <1>2, <1>3, <1>5 DEF BusTypeOK
<1>7. QueueHolds'
  <2>1. ASSUME NEW i \in 1..Len(pending') PROVE pending'[i] = NextEvent' + i - 1
    <3>1. i \in 1..(Len(pending) - 1) /\ i + 1 \in 1..Len(pending) BY <1>2, <1>3
    <3>2. pending[i + 1] = NextEvent + (i + 1) - 1 BY <1>2, <3>1 DEF QueueHolds
    <3> QED BY <1>2, <1>3, <1>4, <3>1, <3>2
  <2> QED BY <1>1, <1>2, <1>4, <1>5, <2>1 DEF QueueHolds
<1>8. ASSUME NEW s \in Subs PROVE Hears(s)'
  <2>1. Frontier(s) = NextEvent BY <1>1 DEF Frontier
  <2>2. Frontier(s)' = IF s \in ToSet(order) \ detached THEN NextEvent ELSE NextEvent + 1
    BY <1>4, <1>5 DEF Frontier
  <2>3. Listening(s)' => Listening(s) /\ s \in ToSet(order) \ detached
    BY <1>1 DEF Listening
  <2>4. Frontier(s) \in Nat /\ Frontier(s)' \in Nat /\ Frontier(s) <= Frontier(s)'
    BY <1>2, <2>1, <2>2
  <2>5. Listening(s)' => Frontier(s)..(Frontier(s)' - 1) = {}
    BY <1>2, <2>1, <2>2, <2>3
  <2> QED BY <1>1, <1>6, <1>7, <2>3, <2>4, <2>5, HearsKept
<1> QED BY <1>1, <1>6, <1>7, <1>8, SinksKept DEF IInv, StrikesHold

LEMMA SkipStep ==
  ASSUME IInv, NEW r \in Subs, Skip(r)
  PROVE  IInv'
<1>1. /\ dispatching /\ r \in current.to /\ r \in detached
      /\ current' = [current EXCEPT !.to = @ \ {r}]
      /\ UNCHANGED <<sequence, pending, dispatching, order, detached, strikes, retired, ring, dropped, day, busFile, busSeen, lost>>
  BY DEF Skip, Receiver, InCallback
<1>2. /\ BusTypeOK /\ QueueHolds /\ NextEvent' = NextEvent
      /\ current'.event = current.event /\ current'.to = current.to \ {r}
      /\ current' \in [event : Nat, to : SUBSET Subs]
  BY <1>1 DEF IInv, BusTypeOK, NextEvent
<1>3. BusTypeOK' BY <1>1, <1>2 DEF BusTypeOK
<1>4. QueueHolds' BY <1>1, <1>2 DEF QueueHolds
<1>5. ASSUME NEW s \in Subs PROVE Hears(s)'
  <2>1. CASE s = r
    <3>1. Frontier(s) = NextEvent - 1 /\ Frontier(s)' = NextEvent /\ NextEvent \in Nat \ {0}
      BY <1>1, <1>2, <2>1 DEF Frontier, QueueHolds
    <3>2. ~Listening(s)' BY <1>1, <2>1 DEF Listening
    <3> QED BY <1>1, <1>3, <1>4, <3>1, <3>2, HearsKept
  <2>2. CASE s # r
    <3>1. Frontier(s)' = Frontier(s) /\ Frontier(s) \in Nat
      BY <1>2, <2>2, FrontierType DEF Frontier
    <3>2. Listening(s)' => Listening(s) BY <1>1 DEF Listening
    <3>3. Frontier(s)..(Frontier(s) - 1) = {} BY <3>1
    <3> QED BY <1>1, <1>3, <1>4, <3>1, <3>2, <3>3, HearsKept
  <2> QED BY <2>1, <2>2
<1> QED BY <1>1, <1>3, <1>4, <1>5, SinksKept DEF IInv, StrikesHold

(* Whoever is handed the event has heard all there was to hear. *)
LEMMA ReceiverHears ==
  ASSUME IInv, NEW r \in Subs, Receiver(r), r \notin detached,
         busSeen' = [busSeen EXCEPT ![r] = Append(@, current.event)],
         lost \subseteq lost', UNCHANGED order, r \notin current'.to,
         NextEvent' \in Nat, NextEvent <= NextEvent',
         \A e \in NextEvent..(NextEvent' - 1) : e \in lost'
  PROVE  Hears(r)'
<1> DEFINE old == busSeen[r]
           new == Append(old, current.event)
<1>1. /\ BusTypeOK /\ QueueHolds /\ Hears(r) /\ NextEvent \in Nat \ {0}
      /\ r \in current.to /\ r \in ToSet(order) /\ Listening(r)
      /\ current.event = NextEvent - 1 /\ current.event \in Nat
      /\ old \in Seq(Nat) /\ busSeen'[r] = new
  BY DEF IInv, Receiver, InCallback, QueueHolds, BusTypeOK, Listening
<1>2. /\ new \in Seq(Nat) /\ Len(new) = Len(old) + 1 /\ Len(old) \in Nat
      /\ new # << >> /\ \A i \in 1..Len(old) : new[i] = old[i]
      /\ new[Len(old) + 1] = current.event /\ Last(new) = current.event
      /\ ToSet(new) = ToSet(old) \cup {current.event}
  <2>1. old \in Seq(Nat) /\ current.event \in Nat BY <1>1
  <2> HIDE DEF old
  <2> QED BY <2>1, AppendFacts
<1>3. Frontier(r) = current.event /\ Frontier(r)' = NextEvent'
  BY <1>1 DEF Frontier
<1> HIDE DEF new
<1>4. old # << >> =>
        /\ Len(old) \in Nat \ {0} /\ old[1] \in Nat /\ Last(old) \in Nat
        /\ old[Len(old)] = Last(old) /\ Last(old) < current.event
  BY <1>1, <1>3, SeenFacts DEF Hears
<1>5. ASSUME NEW i \in 1..(Len(new) - 1) PROVE new[i] < new[i + 1]
  <2>1. i \in 1..Len(old) /\ old # << >> /\ new[i] = old[i] BY <1>2, <1>5
  <2>2. CASE i = Len(old) BY <1>2, <1>4, <2>1, <2>2
  <2>3. CASE i # Len(old)
    <3>1. i \in 1..(Len(old) - 1) /\ i + 1 \in 1..Len(old) BY <1>2, <2>1, <2>3
    <3>2. old[i] < old[i + 1] BY <1>1, <2>1, <3>1 DEF Hears
    <3> QED BY <1>2, <2>1, <3>1, <3>2
  <2> QED BY <2>2, <2>3
<1>6. ASSUME NEW e \in new[1]..Last(new) PROVE e \in ToSet(new) \/ e \in lost'
  <2>1. CASE old = << >>
    <3>1. Len(old) = 0 BY <2>1, EmptySeq
    <3>2. new[1] = current.event BY <1>2, <3>1
    <3> QED BY <1>1, <1>2, <1>6, <3>2
  <2>2. CASE old # << >>
    <3>1. new[1] = old[1] BY <1>2, <1>4, <2>2
    <3>2. CASE e = current.event BY <1>2, <3>2
    <3>3. CASE e <= Last(old)
      <4>1. e \in old[1]..Last(old) BY <1>4, <1>6, <2>2, <3>1, <3>3
      <4> QED BY <1>1, <1>2, <2>2, <4>1 DEF Hears
    <3>4. CASE Last(old) < e /\ e # current.event
      <4>1. e \in (Last(old) + 1)..(Frontier(r) - 1)
        BY <1>1, <1>2, <1>3, <1>4, <1>6, <2>2, <3>1, <3>4
      <4> QED BY <1>1, <2>2, <4>1 DEF Hears
    <3>5. e \in Nat /\ Last(old) \in Nat BY <1>1, <1>2, <1>4, <1>6, <2>2, <3>1
    <3> QED BY <3>2, <3>3, <3>4, <3>5
  <2> QED BY <2>1, <2>2
<1>7. Last(new) < Frontier(r)' BY <1>1, <1>2, <1>3
<1>8. \A e \in (Last(new) + 1)..(Frontier(r)' - 1) : e \in lost'
  <2>1. Last(new) + 1 = NextEvent BY <1>1, <1>2
  <2> QED BY <1>3, <2>1
<1>9. r \in ToSet(order)' BY <1>1
<1>10. busSeen[r]' = new BY <1>1
<1> HIDE DEF old
<1> QED BY <1>2, <1>5, <1>6, <1>7, <1>8, <1>9, <1>10 DEF Hears

(* deliver(): what it changes, whoever the sink is. *)
LEMMA DeliverKeeps ==
  ASSUME IInv, NEW r \in Subs, NEW healthy \in BOOLEAN, Deliver(r, healthy)
  PROVE  /\ strikes' \in [Subs -> Nat] /\ detached' \subseteq Subs /\ retired' \subseteq detached'
         /\ current' \in [event : Nat, to : SUBSET Subs] /\ busSeen' \in [Subs -> Seq(Nat)]
         /\ QueueHolds' /\ StrikesHold' /\ \A s \in Subs : Hears(s)'
<1>1. /\ Receiver(r) /\ r \notin detached /\ r \in current.to /\ dispatching
      /\ busSeen' = [busSeen EXCEPT ![r] = Append(@, current.event)]
      /\ strikes' = [strikes EXCEPT ![r] = IF healthy THEN 0 ELSE @ + 1]
      /\ detached' = IF strikes'[r] >= MaxStrikes THEN detached \union {r} ELSE detached
      /\ current' = [current EXCEPT !.to = @ \ {r}]
      /\ UNCHANGED <<sequence, pending, dispatching, order, retired, day, lost>>
  BY DEF Deliver, Receiver, InCallback
<1>2. /\ BusTypeOK /\ QueueHolds /\ NextEvent' = NextEvent /\ NextEvent \in Nat \ {0}
      /\ current'.event = current.event /\ current'.to = current.to \ {r}
      /\ current' \in [event : Nat, to : SUBSET Subs] /\ current.event \in Nat
  BY <1>1 DEF IInv, BusTypeOK, QueueHolds, NextEvent
<1>3. strikes' \in [Subs -> Nat] BY <1>1, <1>2 DEF BusTypeOK
<1>4. detached \subseteq detached' /\ detached' \subseteq Subs /\ retired' \subseteq detached'
  BY <1>1, <1>2 DEF BusTypeOK
<1>5. busSeen' \in [Subs -> Seq(Nat)]
  <2>1. busSeen[r] \in Seq(Nat) BY <1>2 DEF BusTypeOK
  <2>2. Append(busSeen[r], current.event) \in Seq(Nat) BY <1>2, <2>1, AppendFacts
  <2> QED BY <1>1, <1>2, <2>2 DEF BusTypeOK
<1>6. QueueHolds' BY <1>1, <1>2 DEF QueueHolds
<1>7. StrikesHold'
  <2>1. \A s \in Subs \ {r} : strikes'[s] = strikes[s] BY <1>1, <1>2 DEF BusTypeOK
  <2>2. r \notin detached' => strikes'[r] < MaxStrikes
    <3>1. strikes'[r] \in Nat /\ MaxStrikes \in Nat BY <1>3, Constants
    <3> QED BY <1>1, <3>1
  <2> QED BY <1>4, <2>1, <2>2 DEF StrikesHold, IInv
<1>8. ASSUME NEW s \in Subs PROVE Hears(s)'
  <2>1. CASE s = r
    <3>1. /\ NextEvent..(NextEvent' - 1) = {} /\ NextEvent' \in Nat /\ NextEvent <= NextEvent'
          /\ UNCHANGED order /\ lost \subseteq lost' /\ r \notin current'.to
      BY <1>1, <1>2
    <3>2. Hears(r)' BY <1>1, <3>1, ReceiverHears
    <3> QED BY <2>1, <3>2
  <2>2. CASE s # r
    <3>1. busSeen'[s] = busSeen[s] BY <1>1, <1>2, <2>2 DEF BusTypeOK
    <3>2. Frontier(s)' = Frontier(s) BY <1>2, <2>2 DEF Frontier
    <3>3. Listening(s)' => Listening(s) BY <1>1, <1>4 DEF Listening
    <3>4. Frontier(s) \in Nat BY <1>2, FrontierType
    <3>5. Frontier(s)..(Frontier(s) - 1) = {} BY <3>4
    <3> QED BY <1>1, <3>1, <3>2, <3>3, <3>4, <3>5, HearsKept
  <2> QED BY <2>1, <2>2
<1> QED BY <1>2, <1>3, <1>4, <1>5, <1>6, <1>7, <1>8
LEMMA ToPluginStep ==
  ASSUME IInv, NEW r \in Subs, ToPlugin(r)
  PROVE  IInv'
<1>1. PICK healthy \in BOOLEAN : Deliver(r, healthy) BY DEF ToPlugin
<1>2. /\ r \notin {Ring, File} /\ UNCHANGED <<ring, dropped, busFile>>
      /\ UNCHANGED <<sequence, pending, dispatching, order, day, lost>>
      /\ busSeen' = [busSeen EXCEPT ![r] = Append(@, current.event)]
  BY <1>1 DEF ToPlugin, Deliver
<1>3. /\ strikes' \in [Subs -> Nat] /\ detached' \subseteq Subs /\ retired' \subseteq detached'
      /\ current' \in [event : Nat, to : SUBSET Subs] /\ busSeen' \in [Subs -> Seq(Nat)]
      /\ QueueHolds' /\ StrikesHold' /\ \A s \in Subs : Hears(s)'
  BY <1>1, DeliverKeeps
<1>4. BusTypeOK' BY <1>2, <1>3 DEF IInv, BusTypeOK
<1>5. busSeen'[Ring] = busSeen[Ring] /\ busSeen'[File] = busSeen[File]
  BY <1>2, Constants DEF IInv, BusTypeOK
<1>6. RingHolds' BY <1>2, <1>5 DEF IInv, RingHolds
<1>7. FileHolds' BY <1>2, <1>5 DEF IInv, FileHolds
<1> QED BY <1>3, <1>4, <1>6, <1>7 DEF IInv

LEMMA ToRingStep ==
  ASSUME IInv, ToRing
  PROVE  IInv'
<1> DEFINE e == current.event
           seen == busSeen[Ring]
           kept == IF Len(ring) = Capacity THEN Tail(ring) ELSE ring
<1>1. /\ Deliver(Ring, TRUE) /\ UNCHANGED busFile
      /\ UNCHANGED <<sequence, pending, dispatching, order, day, lost>>
      /\ dropped' = IF Len(ring) = Capacity THEN dropped + 1 ELSE dropped
      /\ ring' = Append(kept, e)
      /\ busSeen' = [busSeen EXCEPT ![Ring] = Append(@, e)]
  BY DEF ToRing, Deliver
<1>2. /\ strikes' \in [Subs -> Nat] /\ detached' \subseteq Subs /\ retired' \subseteq detached'
      /\ current' \in [event : Nat, to : SUBSET Subs] /\ busSeen' \in [Subs -> Seq(Nat)]
      /\ QueueHolds' /\ StrikesHold' /\ \A s \in Subs : Hears(s)'
  BY <1>1, DeliverKeeps, Constants
<1>3. /\ ring \in Seq(Nat) /\ Len(ring) \in Nat /\ Len(ring) <= Capacity /\ dropped \in Nat
      /\ e \in Nat /\ seen \in Seq(Nat) /\ Capacity \in Nat \ {0}
      /\ IsEnd(ring, seen, dropped)
  BY Constants DEF IInv, BusTypeOK, RingHolds
<1>4. busSeen'[Ring] = Append(seen, e) /\ busSeen'[File] = busSeen[File]
  BY <1>1, Constants DEF IInv, BusTypeOK
<1> HIDE DEF e, seen
<1>5. /\ kept \in Seq(Nat) /\ Len(kept) \in Nat /\ Len(kept) < Capacity /\ dropped' \in Nat
      /\ IsEnd(kept, seen, dropped')
  <2>1. CASE Len(ring) = Capacity
    <3>1. ring # << >> BY <1>3, <2>1, EmptySeq
    <3>2. Tail(ring) \in Seq(Nat) /\ Len(Tail(ring)) = Len(ring) - 1
      BY <1>3, <3>1, TailFacts
    <3>3. IsEnd(Tail(ring), seen, dropped + 1) BY <1>3, <3>1, EndShrinks
    <3>4. kept = Tail(ring) /\ dropped' = dropped + 1 BY <1>1, <2>1
    <3> HIDE DEF kept
    <3> QED BY <1>3, <2>1, <3>2, <3>3, <3>4
  <2>2. CASE Len(ring) # Capacity
    <3>1. kept = ring /\ dropped' = dropped BY <1>1, <2>2
    <3> HIDE DEF kept
    <3> QED BY <1>3, <2>2, <3>1
  <2> QED BY <2>1, <2>2
<1> HIDE DEF kept
<1>6. IsEnd(ring', Append(seen, e), dropped') BY <1>1, <1>3, <1>5, EndGrows
<1>7. ring' \in Seq(Nat) /\ Len(ring') <= Capacity
  <2>1. ring' \in Seq(Nat) /\ Len(ring') = Len(kept) + 1 BY <1>1, <1>3, <1>5, AppendFacts
  <2> QED BY <1>3, <1>5, <2>1
<1>8. BusTypeOK' BY <1>1, <1>2, <1>5, <1>7 DEF IInv, BusTypeOK
<1>9. RingHolds' BY <1>4, <1>6 DEF RingHolds
<1>10. FileHolds' BY <1>1, <1>4 DEF IInv, FileHolds
<1> QED BY <1>2, <1>8, <1>9, <1>10 DEF IInv
(* The event is newer than every line of the file, so its line is a new one. *)
LEMMA ToFileStep ==
  ASSUME IInv, ToFile
  PROVE  IInv'
<1> DEFINE e == current.event
           seen == busSeen[File]
           lines == busFile.lines
<1>1. /\ Deliver(File, TRUE) /\ UNCHANGED <<ring, dropped>> /\ File \in current.to
      /\ UNCHANGED <<sequence, pending, dispatching, order, day, lost>>
      /\ busSeen' = [busSeen EXCEPT ![File] = Append(@, e)]
  BY DEF ToFile, Deliver, Receiver
<1>2. /\ strikes' \in [Subs -> Nat] /\ detached' \subseteq Subs /\ retired' \subseteq detached'
      /\ current' \in [event : Nat, to : SUBSET Subs] /\ busSeen' \in [Subs -> Seq(Nat)]
      /\ QueueHolds' /\ StrikesHold' /\ \A s \in Subs : Hears(s)'
  BY <1>1, DeliverKeeps, Constants
<1>3. /\ busFile \in [open : Nat, lines : SUBSET (Nat \X Nat), failures : Nat]
      /\ busFile.failures \in Nat /\ day \in Nat /\ e \in Nat /\ seen \in Seq(Nat)
      /\ IsFiniteSet(lines) /\ Cardinality(lines) + busFile.failures = Len(seen)
      /\ lines \subseteq Nat \X Nat
  BY Constants DEF IInv, BusTypeOK, FileHolds
<1>4. ASSUME NEW l \in lines PROVE l[2] < e
  <2>1. seen # << >> /\ l[2] <= Last(seen) /\ l[2] \in Nat /\ Last(seen) \in Nat
    BY <1>3, SeenFacts DEF IInv, FileHolds
  <2>2. Last(seen) < e BY <1>1, <2>1, Constants DEF IInv, Hears, Frontier
  <2> QED BY <1>3, <2>1, <2>2
<1>5. /\ busSeen'[File] = Append(seen, e) /\ busSeen'[Ring] = busSeen[Ring]
  BY <1>1, Constants DEF IInv, BusTypeOK
<1>6. /\ Len(busSeen'[File]) = Len(seen) + 1 /\ busSeen'[File] # << >>
      /\ Last(busSeen'[File]) = e /\ Len(seen) \in Nat
  BY <1>3, <1>5, AppendFacts
<1>7. Cardinality(lines) \in Nat BY <1>3, FS_CardinalityType
<1>8. \/ busFile' = [busFile EXCEPT !.open = day, !.lines = @ \union {<<day, e>>}]
      \/ busFile' = [busFile EXCEPT !.open = 0, !.failures = @ + 1]
  BY DEF ToFile
<1> HIDE DEF e, seen
<1>9. /\ busFile' \in [open : Nat, lines : SUBSET (Nat \X Nat), failures : Nat]
      /\ FileHolds'
  <2>1. CASE busFile' = [busFile EXCEPT !.open = day, !.lines = @ \union {<<day, e>>}]
    <3>1. /\ busFile'.lines = lines \union {<<day, e>>} /\ busFile'.failures = busFile.failures
          /\ busFile'.open = day
      BY <1>3, <2>1
    <3>2. <<day, e>> \notin lines
      <4>1. SUFFICES ASSUME <<day, e>> \in lines PROVE FALSE OBVIOUS
      <4>2. <<day, e>>[2] < e BY <1>4, <4>1
      <4>3. <<day, e>>[2] = e OBVIOUS
      <4> QED BY <1>3, <4>2, <4>3
    <3>3. /\ IsFiniteSet(busFile'.lines)
          /\ Cardinality(busFile'.lines) = Cardinality(lines) + 1
      <4> DEFINE x == <<day, e>>
                 L == lines
      <4>1. busFile'.lines = L \cup {x} /\ IsFiniteSet(L) /\ x \notin L BY <1>3, <3>1, <3>2
      <4> HIDE DEF x, L
      <4>2. IsFiniteSet(L \cup {x}) /\ Cardinality(L \cup {x}) = Cardinality(L) + 1
        BY <4>1, FS_AddElement
      <4> QED BY <4>1, <4>2 DEF L
    <3>4. ASSUME NEW l \in busFile'.lines PROVE l[2] <= e
      <4>1. CASE l \in lines BY <1>3, <1>4, <4>1
      <4>2. CASE l = <<day, e>> BY <1>3, <4>2
      <4> QED BY <3>1, <4>1, <4>2
    <3>5. busFile' \in [open : Nat, lines : SUBSET (Nat \X Nat), failures : Nat]
      <4>1. lines \union {<<day, e>>} \in SUBSET (Nat \X Nat) BY <1>3
      <4>2. busFile' = [open |-> day, lines |-> lines \union {<<day, e>>},
                        failures |-> busFile.failures]
        BY <1>3, <2>1
      <4> QED BY <1>3, <4>1, <4>2
    <3>6. Cardinality(busFile'.lines) + busFile'.failures = Len(busSeen'[File])
      <4>1. (Cardinality(lines) + 1) + busFile.failures = (Cardinality(lines) + busFile.failures) + 1
        BY <1>3, <1>7
      <4> QED BY <1>3, <1>6, <3>1, <3>3, <4>1
    <3> QED BY <1>6, <3>3, <3>4, <3>5, <3>6 DEF FileHolds
  <2>2. CASE busFile' = [busFile EXCEPT !.open = 0, !.failures = @ + 1]
    <3>1. busFile'.lines = lines /\ busFile'.failures = busFile.failures + 1
      BY <1>3, <2>2
    <3>2. ASSUME NEW l \in busFile'.lines PROVE l[2] <= e
      BY <1>3, <1>4, <3>1
    <3>3. busFile' \in [open : Nat, lines : SUBSET (Nat \X Nat), failures : Nat]
      <4>1. busFile' = [open |-> 0, lines |-> lines, failures |-> busFile.failures + 1]
        BY <1>3, <2>2
      <4>2. lines \in SUBSET (Nat \X Nat) /\ busFile.failures + 1 \in Nat BY <1>3
      <4> QED BY <4>1, <4>2
    <3>4. Cardinality(busFile'.lines) + busFile'.failures = Len(busSeen'[File])
      <4>1. Cardinality(lines) + (busFile.failures + 1) = (Cardinality(lines) + busFile.failures) + 1
        BY <1>3, <1>7
      <4> QED BY <1>3, <1>6, <3>1, <4>1
    <3> QED BY <1>3, <1>6, <3>1, <3>2, <3>3, <3>4 DEF FileHolds
  <2> QED BY <1>8, <2>1, <2>2
<1>10. BusTypeOK' BY <1>1, <1>2, <1>9 DEF IInv, BusTypeOK
<1>11. RingHolds' BY <1>1, <1>5 DEF IInv, RingHolds
<1> QED BY <1>2, <1>9, <1>10, <1>11 DEF IInv

(* A fan-out ends when nothing waits: whoever leaves the list now hears no  *)
(* more.                                                                   *)
LEMMA FinishStep ==
  ASSUME IInv, Finish
  PROVE  IInv'
<1>1. /\ dispatching /\ current.to = {} /\ pending = << >>
      /\ dispatching' = FALSE /\ current' = Nobody /\ retired' = retired \union detached
      /\ UNCHANGED <<sequence, pending, order, detached, strikes, ring, dropped, day, busFile, busSeen, lost>>
  BY DEF Finish, Retire
<1>2. /\ BusTypeOK /\ QueueHolds /\ NextEvent' = NextEvent /\ NextEvent \in Nat \ {0}
      /\ current'.event = 0 /\ current'.to = {}
      /\ current' \in [event : Nat, to : SUBSET Subs]
  BY <1>1 DEF IInv, QueueHolds, NextEvent, Nobody
<1>3. BusTypeOK' BY <1>1, <1>2 DEF BusTypeOK
<1>4. QueueHolds' BY <1>1, <1>2 DEF QueueHolds
<1>5. ASSUME NEW s \in Subs PROVE Hears(s)'
  <2>1. Frontier(s) = NextEvent /\ Frontier(s)' = NextEvent
    BY <1>1, <1>2 DEF Frontier
  <2>2. Listening(s)' => Listening(s) BY <1>1 DEF Listening
  <2>3. NextEvent..(NextEvent - 1) = {} BY <1>2
  <2> QED BY <1>1, <1>2, <2>1, <2>2, <2>3, HearsKept
<1> QED BY <1>1, <1>3, <1>4, <1>5, SinksKept DEF IInv, StrikesHold

(* A new subscriber has seen nothing. *)
LEMMA SubscribeStep ==
  ASSUME IInv, NEW r \in Subs, Subscribe(r)
  PROVE  IInv'
<1>1. /\ r \notin ToSet(order) /\ order' = Append(order, r)
      /\ UNCHANGED <<sequence, pending, dispatching, current, detached, strikes, retired, ring, dropped, day, busFile, busSeen, lost>>
  BY DEF Subscribe
<1>2. BusTypeOK /\ QueueHolds /\ order \in Seq(Subs) BY DEF IInv, BusTypeOK
<1>3. order' \in Seq(Subs) /\ ToSet(order') = ToSet(order) \cup {r}
  BY <1>1, <1>2, AppendFacts
<1>4. BusTypeOK' BY <1>1, <1>2, <1>3 DEF BusTypeOK
<1>5. NextEvent' = NextEvent BY <1>1 DEF NextEvent
<1>6. QueueHolds' BY <1>1, <1>2, <1>3, <1>5 DEF QueueHolds
<1>7. ASSUME NEW s \in Subs PROVE Hears(s)'
  <2>1. CASE s = r
    <3>1. busSeen[r] = << >> BY <1>1 DEF IInv, Hears
    <3> QED BY <1>1, <2>1, <3>1 DEF Hears
  <2>2. CASE s # r
    <3>1. Frontier(s)' = Frontier(s) /\ Frontier(s) \in Nat
      BY <1>1, <1>2, <1>5, FrontierType DEF Frontier
    <3>2. Listening(s)' => Listening(s) BY <1>1, <1>3, <2>2 DEF Listening
    <3>3. Frontier(s)..(Frontier(s) - 1) = {} BY <3>1
    <3> QED BY <1>1, <1>3, <3>1, <3>2, <3>3, HearsKept
  <2> QED BY <2>1, <2>2
<1> QED BY <1>1, <1>4, <1>6, <1>7, SinksKept DEF IInv, StrikesHold

LEMMA CancelStep ==
  ASSUME IInv, NEW r \in Subs, Cancel(r)
  PROVE  IInv'
<1>1. /\ detached' = detached \union {r}
      /\ UNCHANGED <<sequence, pending, dispatching, current, order, strikes, retired, ring, dropped, day, busFile, busSeen, lost>>
  BY DEF Cancel
<1>2. BusTypeOK /\ QueueHolds BY DEF IInv
<1>3. BusTypeOK' BY <1>1, <1>2 DEF BusTypeOK
<1>4. NextEvent' = NextEvent BY <1>1 DEF NextEvent
<1>5. QueueHolds' BY <1>1, <1>2, <1>4 DEF QueueHolds
<1>6. ASSUME NEW s \in Subs PROVE Hears(s)'
  <2>1. Frontier(s)' = Frontier(s) /\ Frontier(s) \in Nat
    BY <1>1, <1>2, <1>4, FrontierType DEF Frontier
  <2>2. Listening(s)' => Listening(s) BY <1>1 DEF Listening
  <2>3. Frontier(s)..(Frontier(s) - 1) = {} BY <2>1
  <2> QED BY <1>1, <2>1, <2>2, <2>3, HearsKept
<1> QED BY <1>1, <1>3, <1>5, <1>6, SinksKept DEF IInv, StrikesHold

(* The queue is dropped: what waited is lost, and so is the event that the  *)
(* callback was handed.                                                    *)
LEMMA EscapeStep ==
  ASSUME IInv, NEW r \in Subs, Escape(r)
  PROVE  IInv'
<1>1. /\ Receiver(r) /\ r \in current.to /\ r \notin detached \union {Ring, File}
      /\ busSeen' = [busSeen EXCEPT ![r] = Append(@, current.event)]
      /\ lost' = lost \union ToSet(pending) \union {current.event}
      /\ pending' = << >> /\ dispatching' = FALSE /\ current' = Nobody
      /\ retired' = retired \union detached
      /\ UNCHANGED <<sequence, order, detached, strikes, ring, dropped, day, busFile>>
  BY DEF Escape, Retire, Receiver
<1>2. /\ BusTypeOK /\ QueueHolds /\ sequence \in Nat \ {0} /\ pending \in Seq(Nat)
      /\ Len(pending) \in Nat /\ NextEvent \in Nat \ {0} /\ NextEvent = sequence - Len(pending)
      /\ current.event = NextEvent - 1 /\ current.event \in Nat
  <2>1. BusTypeOK /\ QueueHolds BY DEF IInv
  <2>2. sequence \in Nat \ {0} /\ pending \in Seq(Nat) /\ Len(pending) \in Nat
    BY <2>1 DEF BusTypeOK
  <2>3. NextEvent \in Nat \ {0} /\ current.event = NextEvent - 1 /\ current.event \in Nat
    BY <1>1, <2>1, FrontierType DEF QueueHolds
  <2> QED BY <2>1, <2>2, <2>3 DEF NextEvent
<1>3. NextEvent' = sequence /\ sequence \in Nat /\ NextEvent <= sequence
  <2>1. Len(pending') = 0 BY <1>1, EmptySeq
  <2> QED BY <1>1, <1>2, <2>1 DEF NextEvent
<1>4. current'.event = 0 /\ current'.to = {} /\ current' \in [event : Nat, to : SUBSET Subs]
  BY <1>1 DEF Nobody
<1>5. ASSUME NEW e \in NextEvent..(sequence - 1) PROVE e \in lost'
  <2>1. (e - NextEvent) + 1 \in 1..Len(pending) BY <1>2
  <2>2. pending[(e - NextEvent) + 1] = NextEvent + ((e - NextEvent) + 1) - 1
    BY <1>2, <2>1 DEF QueueHolds
  <2>3. pending[(e - NextEvent) + 1] = e BY <1>2, <2>2
  <2>4. e \in ToSet(pending) BY <1>2, <2>1, <2>3 DEF ToSet
  <2> QED BY <1>1, <2>4
<1>6. BusTypeOK'
  <2>1. pending' \in Seq(Nat) BY <1>1, EmptySeq
  <2>2. busSeen' \in [Subs -> Seq(Nat)]
    <3>1. busSeen[r] \in Seq(Nat) BY <1>2 DEF BusTypeOK
    <3>2. Append(busSeen[r], current.event) \in Seq(Nat) BY <1>2, <3>1, AppendFacts
    <3> QED BY <1>1, <1>2, <3>2 DEF BusTypeOK
  <2>3. lost' \subseteq Nat
    <3>1. ToSet(pending) \subseteq Nat BY <1>2 DEF ToSet
    <3> QED BY <1>1, <1>2, <3>1 DEF BusTypeOK
  <2> QED BY <1>1, <1>2, <1>4, <2>1, <2>2, <2>3 DEF BusTypeOK
<1>7. QueueHolds'
  <2>1. Len(pending') = 0 BY <1>1, EmptySeq
  <2> QED BY <1>1, <1>2, <1>3, <1>4, <2>1 DEF QueueHolds
<1>8. ASSUME NEW s \in Subs PROVE Hears(s)'
  <2>1. CASE s = r
    <3>1. lost \subseteq lost' /\ r \notin current'.to /\ r \notin detached /\ UNCHANGED order
      BY <1>1, <1>4
    <3>2. Hears(r)' BY <1>1, <1>2, <1>3, <1>5, <3>1, ReceiverHears
    <3> QED BY <2>1, <3>2
  <2>2. CASE s # r
    <3>1. busSeen'[s] = busSeen[s] BY <1>1, <1>2, <2>2 DEF BusTypeOK
    <3>2. Frontier(s)' = sequence BY <1>3, <1>4 DEF Frontier
    <3>3. Frontier(s) \in Nat /\ (Frontier(s) = NextEvent \/ Frontier(s) = NextEvent - 1)
      BY <1>2, FrontierType
    <3>4. Listening(s)' => Listening(s) BY <1>1 DEF Listening
    <3>5. ASSUME NEW e \in Frontier(s)..(sequence - 1) PROVE e \in lost'
      <4>1. CASE e = current.event BY <1>1, <4>1
      <4>2. CASE e # current.event
        <5>1. e \in NextEvent..(sequence - 1) BY <1>2, <1>3, <3>3, <4>2
        <5> QED BY <1>5, <5>1
      <4> QED BY <4>1, <4>2
    <3>6. lost \subseteq lost' /\ ToSet(order) \subseteq ToSet(order') BY <1>1
    <3>7. Frontier(s)' \in Nat /\ Frontier(s) <= Frontier(s)' BY <1>2, <1>3, <3>2, <3>3
    <3> QED BY <3>1, <3>2, <3>3, <3>4, <3>5, <3>6, <3>7, HearsKept
  <2> QED BY <2>1, <2>2
<1>9. busSeen'[Ring] = busSeen[Ring] /\ busSeen'[File] = busSeen[File]
  BY <1>1, <1>2, Constants DEF BusTypeOK
<1>10. RingHolds' BY <1>1, <1>9 DEF IInv, RingHolds
<1>11. FileHolds' BY <1>1, <1>9 DEF IInv, FileHolds
<1> QED BY <1>1, <1>6, <1>7, <1>8, <1>10, <1>11 DEF IInv, StrikesHold

(* Midnight, or a step that is not the bus's. *)
LEMMA OtherStep ==
  ASSUME IInv, Midnight \/ UNCHANGED busVars
  PROVE  IInv'
<1>1. /\ UNCHANGED <<sequence, pending, dispatching, current, order, detached, strikes, retired, ring, dropped, busFile, busSeen, lost>>
      /\ day' = day + 1 \/ day' = day
  BY DEF Midnight, busVars
<1>2. NextEvent' = NextEvent BY <1>1 DEF NextEvent
<1>3. BusTypeOK' BY <1>1 DEF IInv, BusTypeOK
<1>4. QueueHolds' BY <1>1, <1>2 DEF IInv, QueueHolds
<1>5. \A s \in Subs : Hears(s)' BY <1>1, <1>2 DEF IInv, Hears, Frontier, Listening
<1> QED BY <1>1, <1>3, <1>4, <1>5, SinksKept DEF IInv, StrikesHold
-----------------------------------------------------------------------------
LEMMA StepKeeps == IInv /\ [BusNext]_busVars => IInv'
<1> SUFFICES ASSUME IInv, [BusNext]_busVars PROVE IInv' OBVIOUS
<1>1. CASE Publish BY <1>1, PublishStep
<1>2. CASE Dispatch BY <1>2, DispatchStep
<1>3. CASE ToRing BY <1>3, ToRingStep
<1>4. CASE ToFile BY <1>4, ToFileStep
<1>5. CASE Finish BY <1>5, FinishStep
<1>6. ASSUME NEW r \in Subs, Skip(r) PROVE IInv' BY <1>6, SkipStep
<1>7. ASSUME NEW r \in Subs, ToPlugin(r) PROVE IInv' BY <1>7, ToPluginStep
<1>8. ASSUME NEW r \in Subs, Subscribe(r) PROVE IInv' BY <1>8, SubscribeStep
<1>9. ASSUME NEW r \in Subs, Cancel(r) PROVE IInv' BY <1>9, CancelStep
<1>10. ASSUME NEW r \in Subs, Escape(r) PROVE IInv' BY <1>10, EscapeStep
<1>11. CASE Midnight \/ UNCHANGED busVars BY <1>11, OtherStep
<1> QED BY <1>1, <1>2, <1>3, <1>4, <1>5, <1>6, <1>7, <1>8, <1>9, <1>10, <1>11
        DEF BusNext, FanOut

(* The bus keeps its inductive invariant: events are numbered and handed    *)
(* out in order, and the sinks account for each one.                       *)
THEOREM InductiveInvariant == BusSpec => []IInv
BY InitHolds, StepKeeps, PTL DEF BusSpec

(* Every variable of the bus keeps its type, and the ring never exceeds     *)
(* its capacity.                                                           *)
THEOREM TypeCorrect == BusSpec => []BusTypeOK
<1>1. IInv => BusTypeOK BY DEF IInv
<1> QED BY <1>1, InductiveInvariant, PTL

LEMMA HearsInOrder == IInv => EventsInOrder
<1> SUFFICES ASSUME IInv, NEW s \in Subs, busSeen[s] # << >>
             PROVE  /\ \A i \in 1..(Len(busSeen[s]) - 1) : busSeen[s][i] < busSeen[s][i + 1]
                    /\ (busSeen[s][1]..Last(busSeen[s])) \ ToSet(busSeen[s]) \subseteq lost
  BY DEF EventsInOrder
<1> QED BY DEF IInv, Hears

(* Each subscriber sees the events in publication order, without a gap that *)
(* a torn-down fan-out does not account for.                               *)
THEOREM EventsStayInOrder == BusSpec => []EventsInOrder
BY HearsInOrder, InductiveInvariant, PTL

LEMMA RestIsComplete == IInv => QuietIsComplete
<1> SUFFICES ASSUME IInv, ~dispatching
    PROVE  /\ pending = << >>
           /\ \A s \in ToSet(order) \ retired : busSeen[s] # << >> =>
                 (Last(busSeen[s])..(sequence - 1)) \ {Last(busSeen[s])} \subseteq lost
           /\ ring = SubSeq(busSeen[Ring], Len(busSeen[Ring]) - Len(ring) + 1, Len(busSeen[Ring]))
           /\ dropped + Len(ring) = Len(busSeen[Ring])
           /\ Cardinality(busFile.lines) + busFile.failures = Len(busSeen[File])
  BY DEF QuietIsComplete
<1>1. BusTypeOK /\ QueueHolds /\ pending = << >> /\ current.to = {} /\ sequence \in Nat
  BY DEF IInv, QueueHolds, Nobody, BusTypeOK
<1>2. NextEvent = sequence
  <2>1. Len(pending) = 0 BY <1>1, EmptySeq
  <2> QED BY <1>1, <2>1 DEF NextEvent
<1>3. ASSUME NEW s \in ToSet(order) \ retired, busSeen[s] # << >>,
             NEW e \in (Last(busSeen[s])..(sequence - 1)) \ {Last(busSeen[s])}
      PROVE  e \in lost
  <2>1. s \in Subs BY <1>1 DEF BusTypeOK, ToSet
  <2>2. Frontier(s) = sequence /\ Listening(s) BY <1>1, <1>2 DEF Frontier, Listening
  <2>3. Last(busSeen[s]) \in Nat BY <1>1, <1>3, <2>1, SeenFacts DEF BusTypeOK
  <2>4. e \in (Last(busSeen[s]) + 1)..(sequence - 1) BY <1>1, <2>3
  <2> QED BY <1>3, <2>1, <2>2, <2>4 DEF IInv, Hears
<1>4. ring = SubSeq(busSeen[Ring], Len(busSeen[Ring]) - Len(ring) + 1, Len(busSeen[Ring]))
  <2> DEFINE seen == busSeen[Ring]
             m == Len(seen) - Len(ring) + 1
             n == Len(seen)
  <2>1. /\ ring \in Seq(Nat) /\ seen \in Seq(Nat) /\ dropped \in Nat
        /\ dropped + Len(ring) = n /\ \A i \in 1..Len(ring) : ring[i] = seen[dropped + i]
    BY <1>1, Constants DEF IInv, BusTypeOK, RingHolds, IsEnd
  <2>2. Len(ring) \in Nat /\ n \in Nat /\ m = dropped + 1 BY <2>1
  <2>3. ASSUME NEW i \in m..n PROVE seen[i] \in Nat
    <3>1. i \in 1..Len(seen) BY <2>1, <2>2
    <3> HIDE DEF seen
    <3> QED BY <2>1, <3>1
  <2> HIDE DEF seen, m, n
  <2>4. /\ SubSeq(seen, m, n) \in Seq(Nat)
        /\ Len(SubSeq(seen, m, n)) = IF m <= n THEN n - m + 1 ELSE 0
        /\ \A i \in 1..(n - m + 1) : SubSeq(seen, m, n)[i] = seen[m + i - 1]
    BY <2>2, <2>3, SubSeqProperties
  <2>5. n - m + 1 = Len(ring) BY <2>1, <2>2
  <2>6. Len(SubSeq(seen, m, n)) = Len(ring) BY <2>1, <2>2, <2>4
  <2>7. ASSUME NEW i \in 1..Len(ring) PROVE ring[i] = SubSeq(seen, m, n)[i]
    <3>1. m + i - 1 = dropped + i BY <2>1, <2>2
    <3> QED BY <2>1, <2>4, <2>5, <3>1
  <2>8. ring = SubSeq(seen, m, n) BY <2>1, <2>4, <2>6, <2>7, SeqEqual
  <2> QED BY <2>8 DEF seen, m, n
<1>5. dropped + Len(ring) = Len(busSeen[Ring]) BY DEF IInv, RingHolds, IsEnd
<1>6. Cardinality(busFile.lines) + busFile.failures = Len(busSeen[File]) BY DEF IInv, FileHolds
<1> QED BY <1>1, <1>3, <1>4, <1>5, <1>6

(* When the bus is quiet nobody who is still subscribed lacks an event, and *)
(* ring and file account for each one they were handed.                    *)
THEOREM QuietMeansComplete == BusSpec => []QuietIsComplete
BY RestIsComplete, InductiveInvariant, PTL

(* Both, as the runs check it. *)
THEOREM EventsReachEveryone == BusSpec => []EventsReachAll
<1>1. IInv => EventsReachAll BY HearsInOrder, RestIsComplete DEF EventsReachAll
<1> QED BY <1>1, InductiveInvariant, PTL

LEMMA StepCutsOff ==
  ASSUME IInv, IInv', [BusNext]_busVars, NEW s \in Subs
  PROVE  /\ s \in detached => busSeen'[s] = busSeen[s] /\ s \in detached'
         /\ s \notin detached' => strikes'[s] < MaxStrikes
<1>1. s \notin detached' => strikes'[s] < MaxStrikes BY DEF IInv, StrikesHold
<1>2. ASSUME NEW r \in Subs, NEW healthy \in BOOLEAN, Deliver(r, healthy)
      PROVE  s \in detached => busSeen'[s] = busSeen[s] /\ s \in detached'
  BY <1>2 DEF Deliver, IInv, BusTypeOK
<1>3. ASSUME NEW r \in Subs, Escape(r)
      PROVE  s \in detached => busSeen'[s] = busSeen[s] /\ s \in detached'
  BY <1>3 DEF Escape, IInv, BusTypeOK
<1>4. ASSUME NEW r \in Subs, Cancel(r)
      PROVE  busSeen' = busSeen /\ detached \subseteq detached'
  BY <1>4 DEF Cancel
<1>5. ASSUME NEW r \in Subs, Skip(r) \/ Subscribe(r) PROVE UNCHANGED <<busSeen, detached>>
  BY <1>5 DEF Skip, Subscribe
<1>6. CASE Publish \/ Dispatch \/ Finish \/ Midnight \/ UNCHANGED busVars
  BY <1>1, <1>6 DEF Publish, Dispatch, Finish, Midnight, busVars
<1>7. CASE ToRing \/ ToFile BY <1>1, <1>2, <1>7, Constants DEF ToRing, ToFile
<1>8. ASSUME NEW r \in Subs, ToPlugin(r)
      PROVE  s \in detached => busSeen'[s] = busSeen[s] /\ s \in detached'
  BY <1>2, <1>8 DEF ToPlugin
<1> QED BY <1>1, <1>3, <1>4, <1>5, <1>6, <1>7, <1>8 DEF BusNext, FanOut

(* Whoever was cut off or cancelled hears nothing any more, and nobody      *)
(* strikes MaxStrikes times in a row and stays.                            *)
THEOREM CutOffStaysFinal == BusSpec => CutOffIsFinal
<1>1. IInv /\ IInv' /\ [BusNext]_busVars =>
        \A s \in Subs :
          /\ s \in detached => busSeen'[s] = busSeen[s] /\ s \in detached'
          /\ s \notin detached' => strikes'[s] < MaxStrikes
  BY StepCutsOff
<1> QED BY <1>1, InductiveInvariant, PTL DEF BusSpec, CutOffIsFinal
-----------------------------------------------------------------------------
(* The hook router.                                                        *)

Tells(h) == \E i \in DOMAIN reports : reports[i][1] = h

Sayings == {"none", "failed", "cancelled_itself", "continue", "replace", "reject", "block"}
HookTypeOK ==
  /\ hook \in DOMAIN HookBindings \cup {"none"}
  /\ at \in {"idle", "batch", "cancelling", "chain", "returned", "raised", "invalid", "escaped", "killed"}
  /\ at = "idle" \/ hook \in DOMAIN HookBindings
  /\ next \in Nat
  /\ task \in [Handlers -> {"none", "running", "ok", "failed", "cancelled_itself", "cancelled", "gone"}]
  /\ late \subseteq Handlers
  /\ subject \in [by : Seq(Handlers), same : BOOLEAN, timeout : Nat]
  /\ answer \in {"none", "continue", "replace", "reject", "block"}
  /\ reports \in Seq(Handlers \X {"timeout", "failure", "rejected_outcome"})
  /\ said \in [Handlers -> Sayings]

(* Nobody is told of twice; an answer is given at the end; and a replacement *)
(* only when it has been validated.                                        *)
TellingHolds ==
  /\ \A i, j \in DOMAIN reports : reports[i][1] = reports[j][1] => i = j
  /\ at \in {"idle", "batch", "cancelling"} => reports = << >> /\ subject.by = << >>
  /\ at = "idle" => next = 0 /\ hook = "none"
  /\ at # "returned" => answer = "none"
  /\ at = "raised" => culprit \in CriticalHooks /\ reports # << >> /\ Last(reports)[1] = culprit
  /\ AdoptedIsValid

(* Only a batch has tasks; when it returns they are over, and whoever failed *)
(* or was late is told of; when a task that ended cancelled by itself ends  *)
(* it, some of those that failed may not be.                               *)
BatchHolds ==
  /\ at \in {"batch", "cancelling"} => hook \in Observers
  /\ late \subseteq (IF hook \in Observers THEN ToSet(Chain) ELSE {})
  /\ \A h \in Handlers : task[h] # "none" => hook \in Observers /\ h \in ToSet(Chain)
  /\ hook \in Observers => at \notin {"chain", "raised", "invalid"} /\ answer \in {"none", "continue"}
  /\ at = "batch" => late = {}
  /\ at = "returned" /\ hook \in Observers =>
        \A h \in ToSet(Chain) : Over(h) /\ (Tells(h) <=> h \in Failed \union late)
  /\ at = "escaped" /\ hook \in Observers =>
       /\ culprit \in ToSet(Chain) \ late /\ task[culprit] = "cancelled_itself"
       /\ \A h \in ToSet(Chain) :
             Over(h) /\ (h \in late => Tells(h)) /\ (Tells(h) => h \in Failed \union late)

(* What a chain has told and accepted so far is of the handlers before the  *)
(* one at work; a veto without a report ends it, and so does a cancellation *)
(* the handler at work raised itself.                                      *)
ChainHolds ==
  /\ at = "chain" => hook \in Interceptors /\ next \in 1..(Len(Chain) + 1)
  /\ at \in {"chain", "returned", "invalid", "escaped"} /\ hook \in Interceptors =>
       /\ \A i \in DOMAIN reports : \E k \in DOMAIN Chain : k < next /\ reports[i][1] = Chain[k]
       /\ \A k \in DOMAIN Chain :
            k < next /\ said[Chain[k]] \in Veto \union {"failed"} => Tells(Chain[k])
       /\ \A h \in Handlers :
            h \in ToSet(subject.by) <=>
              \E k \in DOMAIN Chain : k < next /\ h = Chain[k] /\ said[h] = "replace" /\ ~Tells(h)
       /\ InOrder(subject.by)
  /\ at \in {"returned", "invalid"} /\ hook \in Interceptors =>
       /\ answer \in Veto => next \in DOMAIN Chain /\ said[Chain[next]] = answer
       /\ answer \notin Veto => \A k \in DOMAIN Chain : k < next
       /\ answer = "replace" => subject.by # << >>
  /\ at = "escaped" /\ hook \in Interceptors =>
       next \in DOMAIN Chain /\ culprit = Chain[next] /\ said[culprit] = "cancelled_itself"

HookIInv == HookTypeOK /\ TellingHolds /\ BatchHolds /\ ChainHolds
LEMMA BindingType ==
  ASSUME NEW k0 \in DOMAIN HookBindings
  PROVE  /\ HookBindings[k0] \in Seq(Handlers) /\ Len(HookBindings[k0]) \in Nat /\ DOMAIN HookBindings[k0] = 1..Len(HookBindings[k0])
         /\ \A k \in DOMAIN HookBindings[k0] : HookBindings[k0][k] \in Handlers /\ HookBindings[k0][k] \in ToSet(HookBindings[k0])
         /\ \A k, m \in DOMAIN HookBindings[k0] : HookBindings[k0][k] = HookBindings[k0][m] => k = m
         /\ \A h \in ToSet(HookBindings[k0]) : h \in Handlers /\ \E k \in DOMAIN HookBindings[k0] : h = HookBindings[k0][k]
         /\ IsFiniteSet(ToSet(HookBindings[k0]))
         /\ (k0 \in Observers \/ k0 \in Interceptors) /\ ~(k0 \in Observers /\ k0 \in Interceptors)
<1>1. HookBindings[k0] \in Seq(ToSet(HookBindings[k0])) /\ IsInjective(HookBindings[k0]) BY HooksAssumption
<1>2. ToSet(HookBindings[k0]) \subseteq Handlers BY DEF Handlers
<1>3. DOMAIN HookBindings[k0] = 1..Len(HookBindings[k0]) /\ Len(HookBindings[k0]) \in Nat BY <1>1
<1>4. \A k \in DOMAIN HookBindings[k0] : HookBindings[k0][k] \in ToSet(HookBindings[k0]) BY DEF ToSet
<1>5. HookBindings[k0] \in Seq(Handlers) BY <1>2, <1>1, <1>3, <1>4
<1>6. \A k, m \in DOMAIN HookBindings[k0] : HookBindings[k0][k] = HookBindings[k0][m] => k = m BY <1>1 DEF IsInjective
<1>7. \A h \in ToSet(HookBindings[k0]) : \E k \in DOMAIN HookBindings[k0] : h = HookBindings[k0][k] BY DEF ToSet
<1>8. IsFiniteSet(ToSet(HookBindings[k0]))
  <2>1. HookBindings[k0] \in [1..Len(HookBindings[k0]) -> ToSet(HookBindings[k0])] BY <1>1, <1>3, <1>4
  <2>2. HookBindings[k0] \in Surjection(1..Len(HookBindings[k0]), ToSet(HookBindings[k0])) BY <2>1, <1>7, <1>3 DEF Surjection
  <2>3. IsFiniteSet(1..Len(HookBindings[k0])) BY <1>3, FS_Interval
  <2> QED BY <2>2, <2>3, FS_Surjection
<1>9. (k0 \in Observers \/ k0 \in Interceptors) /\ ~(k0 \in Observers /\ k0 \in Interceptors)
  BY HooksAssumption DEF Observers, Interceptors
<1> QED BY <1>1, <1>2, <1>3, <1>4, <1>5, <1>6, <1>7, <1>8, <1>9

LEMMA ChainType ==
  ASSUME HookIInv, at # "idle"
  PROVE  /\ Chain \in Seq(Handlers) /\ Len(Chain) \in Nat /\ DOMAIN Chain = 1..Len(Chain)
         /\ \A k \in DOMAIN Chain : Chain[k] \in Handlers /\ Chain[k] \in ToSet(Chain)
         /\ \A k, m \in DOMAIN Chain : Chain[k] = Chain[m] => k = m
         /\ \A h \in ToSet(Chain) : h \in Handlers /\ \E k \in DOMAIN Chain : h = Chain[k]
         /\ IsFiniteSet(ToSet(Chain))
         /\ (hook \in Observers \/ hook \in Interceptors) /\ ~(hook \in Observers /\ hook \in Interceptors)
<1>1. hook \in DOMAIN HookBindings BY DEF HookIInv, HookTypeOK
<1> QED BY <1>1, BindingType DEF Chain

(* Told counts: once for whoever is told of, as nobody is told of twice. *)
LEMMA ToldOnce ==
  ASSUME NEW R, reports \in Seq(R), NEW h,
         \A i, j \in DOMAIN reports : reports[i][1] = reports[j][1] => i = j
  PROVE  Told(h) = IF Tells(h) THEN 1 ELSE 0
<1> DEFINE S == {i \in DOMAIN reports : reports[i][1] = h}
<1>1. CASE ~Tells(h)
  <2>1. S = {} BY <1>1 DEF Tells
  <2>2. Cardinality(S) = 0 BY <2>1, FS_EmptySet
  <2> QED BY <1>1, <2>2 DEF Told
<1>2. CASE Tells(h)
  <2>1. PICK i \in DOMAIN reports : reports[i][1] = h BY <1>2 DEF Tells
  <2>2. S = {i} BY <2>1
  <2>3. Cardinality(S) = 1 BY <2>2, FS_Singleton
  <2> QED BY <1>2, <2>3 DEF Told
<1> QED BY <1>1, <1>2

(* SetToSeq lists each element once. *)
LEMMA Listing ==
  ASSUME NEW S, IsFiniteSet(S)
  PROVE  /\ SetToSeq(S) \in Seq(S)
         /\ \A i, j \in DOMAIN SetToSeq(S) : SetToSeq(S)[i] = SetToSeq(S)[j] => i = j
         /\ \A x \in S : \E i \in DOMAIN SetToSeq(S) : SetToSeq(S)[i] = x
<1> DEFINE n == Cardinality(S)
<1>1. n \in Nat /\ ExistsBijection(1..n, S) BY FS_CardinalityType
<1>2. \E f \in [1..n -> S] : IsInjective(f)
  BY <1>1 DEF ExistsBijection, Bijection, Injection
<1> DEFINE q == SetToSeq(S)
<1>3. q \in [1..n -> S] /\ IsInjective(q) BY <1>2 DEF SetToSeq
<1> HIDE DEF q
<1>4. IsFiniteSet(1..n) /\ Cardinality(1..n) = n
  <2>1. /\ IsFiniteSet(1..n)
        /\ Cardinality(1..n) = IF 1 > n THEN 0 ELSE n - 1 + 1
    BY <1>1, FS_Interval
  <2> QED BY <1>1, <2>1
<1>5. q \in Injection(1..n, S) BY <1>3 DEF Injection
<1>6. q \in Surjection(1..n, S) BY <1>4, <1>5, FS_Injection
<1>7. \A x \in S : \E i \in DOMAIN q : q[i] = x BY <1>6, <1>3 DEF Surjection
<1>8. \A i, j \in DOMAIN q : q[i] = q[j] => i = j BY <1>3 DEF IsInjective
<1>9. q \in Seq(S) BY <1>1, <1>3
<1> QED BY <1>7, <1>8, <1>9 DEF q

LEMMA Joined ==
  ASSUME NEW R, NEW a \in Seq(R), NEW b \in Seq(R)
  PROVE  /\ a \o b \in Seq(R) /\ Len(a) \in Nat /\ Len(b) \in Nat
         /\ DOMAIN (a \o b) = 1..(Len(a) + Len(b)) /\ DOMAIN a = 1..Len(a) /\ DOMAIN b = 1..Len(b)
         /\ \A i \in 1..Len(a) : i \in 1..(Len(a) + Len(b)) /\ (a \o b)[i] = a[i]
         /\ \A i \in 1..Len(b) : Len(a) + i \in 1..(Len(a) + Len(b)) /\ (a \o b)[Len(a) + i] = b[i]
         /\ \A i \in 1..(Len(a) + Len(b)) : i \in 1..Len(a) \/ \E j \in 1..Len(b) : i = Len(a) + j
<1>1. /\ a \o b \in Seq(R) /\ Len(a) \in Nat /\ Len(b) \in Nat
      /\ DOMAIN a = 1..Len(a) /\ DOMAIN b = 1..Len(b) /\ Len(a \o b) = Len(a) + Len(b)
  OBVIOUS
<1>2. DOMAIN (a \o b) = 1..(Len(a) + Len(b)) BY <1>1
<1>3. \A i \in 1..Len(a) : i \in 1..(Len(a) + Len(b)) /\ (a \o b)[i] = a[i] BY <1>1
<1>4. \A i \in 1..Len(b) : Len(a) + i \in 1..(Len(a) + Len(b)) /\ (a \o b)[Len(a) + i] = b[i] BY <1>1
<1>5. ASSUME NEW i \in 1..(Len(a) + Len(b)), i \notin 1..Len(a)
      PROVE  \E j \in 1..Len(b) : i = Len(a) + j
  <2>1. i - Len(a) \in 1..Len(b) /\ i = Len(a) + (i - Len(a)) BY <1>1, <1>5
  <2> QED BY <2>1
<1> QED BY <1>1, <1>2, <1>3, <1>4, <1>5

(* q tells of each handler of S, once, and of nobody else. *)
TellsOf(q, S) ==
  /\ \A i \in DOMAIN q : q[i][1] \in S
  /\ \A i, j \in DOMAIN q : q[i][1] = q[j][1] => i = j
  /\ \A h \in S : \E i \in DOMAIN q : q[i][1] = h

LEMMA TellingBoth ==
  ASSUME NEW L, NEW F, L \cap F = {}, NEW R, NEW a \in Seq(R), NEW b \in Seq(R),
         TellsOf(a, L), TellsOf(b, F)
  PROVE  a \o b \in Seq(R) /\ TellsOf(a \o b, L \cup F)
<1> USE DEF TellsOf
<1> DEFINE q == a \o b
<1>1. /\ q \in Seq(R) /\ Len(a) \in Nat /\ Len(b) \in Nat
      /\ DOMAIN q = 1..(Len(a) + Len(b)) /\ DOMAIN a = 1..Len(a) /\ DOMAIN b = 1..Len(b)
      /\ \A i \in 1..Len(a) : i \in 1..(Len(a) + Len(b)) /\ q[i] = a[i]
      /\ \A i \in 1..Len(b) : Len(a) + i \in 1..(Len(a) + Len(b)) /\ q[Len(a) + i] = b[i]
      /\ \A i \in 1..(Len(a) + Len(b)) : i \in 1..Len(a) \/ \E j \in 1..Len(b) : i = Len(a) + j
  BY Joined
<1> HIDE DEF q
<1>2. ASSUME NEW h \in L PROVE \E i \in DOMAIN q : q[i][1] = h
  <2>1. PICK i \in DOMAIN a : a[i][1] = h OBVIOUS
  <2>2. i \in DOMAIN q /\ q[i] = a[i] BY <1>1
  <2> QED BY <2>1, <2>2
<1>3. ASSUME NEW h \in F PROVE \E i \in DOMAIN q : q[i][1] = h
  <2>1. PICK i \in DOMAIN b : b[i][1] = h OBVIOUS
  <2>2. Len(a) + i \in DOMAIN q /\ q[Len(a) + i] = b[i] BY <1>1
  <2> QED BY <2>1, <2>2
<1>4. ASSUME NEW i \in DOMAIN q
      PROVE  \/ i \in DOMAIN a /\ q[i] = a[i] /\ q[i][1] \in L
             \/ \E j \in DOMAIN b : i = Len(a) + j /\ q[i] = b[j] /\ q[i][1] \in F
  <2>1. CASE i \in 1..Len(a) BY <2>1, <1>1
  <2>2. CASE \E j \in 1..Len(b) : i = Len(a) + j
    <3>1. PICK j \in 1..Len(b) : i = Len(a) + j BY <2>2
    <3>2. j \in DOMAIN b /\ q[i] = b[j] BY <3>1, <1>1
    <3> QED BY <3>1, <3>2
  <2> QED BY <2>1, <2>2, <1>1
<1>5. ASSUME NEW i \in DOMAIN q, NEW j \in DOMAIN q, q[i][1] = q[j][1] PROVE i = j
  <2>1. CASE q[i][1] \in L
    <3>1. q[i][1] \notin F /\ q[j][1] \notin F BY <2>1, <1>5
    <3>2. i \in DOMAIN a /\ q[i] = a[i] BY <3>1, <1>4
    <3>3. j \in DOMAIN a /\ q[j] = a[j] BY <3>1, <1>4
    <3>4. a[i][1] = a[j][1] BY <3>2, <3>3, <1>5
    <3> QED BY <3>2, <3>3, <3>4
  <2>2. CASE q[i][1] \notin L
    <3>1. q[j][1] \notin L BY <2>2, <1>5
    <3>2. PICK k \in DOMAIN b : i = Len(a) + k /\ q[i] = b[k] BY <2>2, <1>4
    <3>3. PICK m \in DOMAIN b : j = Len(a) + m /\ q[j] = b[m] BY <3>1, <1>4
    <3>4. b[k][1] = b[m][1] BY <3>2, <3>3, <1>5
    <3>5. k = m BY <3>4
    <3> QED BY <3>2, <3>3, <3>5
  <2> QED BY <2>1, <2>2
<1>6. \A i \in DOMAIN q : q[i][1] \in L \cup F BY <1>4
<1> QED BY <1>1, <1>2, <1>3, <1>5, <1>6 DEF q

(* What a batch tells: of each of two disjoint sets of handlers, once. *)
LEMMA Telling ==
  ASSUME NEW L, NEW F, IsFiniteSet(L), IsFiniteSet(F), L \cap F = {}
  PROVE  LET q == SetToSeq({<<h, "timeout">> : h \in L}) \o SetToSeq({<<h, "failure">> : h \in F})
         IN  /\ q \in Seq((L \cup F) \X {"timeout", "failure", "rejected_outcome"})
             /\ TellsOf(q, L \cup F)
<1> DEFINE A == {<<h, "timeout">> : h \in L}
           B == {<<h, "failure">> : h \in F}
           R == (L \cup F) \X {"timeout", "failure", "rejected_outcome"}
           a == SetToSeq(A)
           b == SetToSeq(B)
<1>1. IsFiniteSet(A)
  <2>1. [h \in L |-> <<h, "timeout">>] \in Surjection(L, A) BY DEF Surjection
  <2> QED BY <2>1, FS_Surjection
<1>2. IsFiniteSet(B)
  <2>1. [h \in F |-> <<h, "failure">>] \in Surjection(F, B) BY DEF Surjection
  <2> QED BY <2>1, FS_Surjection
<1>3. /\ a \in Seq(A)
      /\ \A i, j \in DOMAIN a : a[i] = a[j] => i = j
      /\ \A x \in A : \E i \in DOMAIN a : a[i] = x
  BY <1>1, Listing
<1>4. /\ b \in Seq(B)
      /\ \A i, j \in DOMAIN b : b[i] = b[j] => i = j
      /\ \A x \in B : \E i \in DOMAIN b : b[i] = x
  BY <1>2, Listing
<1>5. A \subseteq R /\ B \subseteq R OBVIOUS
<1>6. \A x \in A : x[1] \in L /\ x = <<x[1], "timeout">> OBVIOUS
<1>7. \A x \in B : x[1] \in F /\ x = <<x[1], "failure">> OBVIOUS
<1>8. \A h \in L : <<h, "timeout">> \in A /\ <<h, "timeout">>[1] = h OBVIOUS
<1>9. \A h \in F : <<h, "failure">> \in B /\ <<h, "failure">>[1] = h OBVIOUS
<1> HIDE DEF A, B, R, a, b
<1>10. a \in Seq(R) /\ b \in Seq(R) BY <1>3, <1>4, <1>5
<1>11. \A i \in DOMAIN a : a[i] \in A BY <1>3
<1>12. \A i \in DOMAIN b : b[i] \in B BY <1>4
<1>13. ASSUME NEW i \in DOMAIN a, NEW j \in DOMAIN a, a[i][1] = a[j][1] PROVE i = j
  <2>1. a[i] = <<a[i][1], "timeout">> /\ a[j] = <<a[j][1], "timeout">> BY <1>6, <1>11
  <2>2. a[i] = a[j] BY <2>1, <1>13
  <2> QED BY <2>2, <1>3
<1>14. ASSUME NEW i \in DOMAIN b, NEW j \in DOMAIN b, b[i][1] = b[j][1] PROVE i = j
  <2>1. b[i] = <<b[i][1], "failure">> /\ b[j] = <<b[j][1], "failure">> BY <1>7, <1>12
  <2>2. b[i] = b[j] BY <2>1, <1>14
  <2> QED BY <2>2, <1>4
<1>15. ASSUME NEW h \in L PROVE \E i \in DOMAIN a : a[i][1] = h
  <2>1. PICK i \in DOMAIN a : a[i] = <<h, "timeout">> BY <1>8, <1>3
  <2> QED BY <2>1
<1>16. ASSUME NEW h \in F PROVE \E i \in DOMAIN b : b[i][1] = h
  <2>1. PICK i \in DOMAIN b : b[i] = <<h, "failure">> BY <1>9, <1>4
  <2> QED BY <2>1
<1>17. (\A i \in DOMAIN a : a[i][1] \in L) /\ (\A i \in DOMAIN b : b[i][1] \in F)
  BY <1>6, <1>7, <1>11, <1>12
<1>18. TellsOf(a, L) BY <1>13, <1>15, <1>17 DEF TellsOf
<1>19. TellsOf(b, F) BY <1>14, <1>16, <1>17 DEF TellsOf
<1>20. a \o b \in Seq(R) /\ TellsOf(a \o b, L \cup F) BY <1>10, <1>18, <1>19, TellingBoth
<1> QED BY <1>20 DEF a, b, A, B, R
-----------------------------------------------------------------------------
(* The invariant holds at first, and each action keeps it.                 *)

LEMMA HooksStart == HooksInit => HookIInv
<1> SUFFICES ASSUME HooksInit PROVE HookIInv OBVIOUS
<1>1. HookTypeOK
  <2>1. << >> \in Seq(Handlers) OBVIOUS
  <2>2. Remaining \in Nat BY HooksAssumption
  <2>3. reports \in Seq(Handlers \X {"timeout", "failure", "rejected_outcome"}) BY DEF HooksInit
  <2> QED BY <2>1, <2>2, <2>3 DEF HooksInit, HookTypeOK, Original, Sayings
<1>2. TellingHolds BY DEF HooksInit, TellingHolds, AdoptedIsValid, Original
<1>3. BatchHolds BY DEF HooksInit, BatchHolds, Observers
<1>4. ChainHolds BY DEF HooksInit, ChainHolds
<1> QED BY <1>1, <1>2, <1>3, <1>4 DEF HookIInv

LEMMA DispatchKeeps ==
  ASSUME HookIInv, NEW k0 \in DOMAIN HookBindings, DispatchHook(k0)
  PROVE  HookIInv'
<1> DEFINE B == HookBindings[k0]
<1>1. /\ at = "idle" /\ hook' = k0
      /\ late' = late /\ subject' = subject /\ reports' = reports /\ culprit' = culprit /\ said' = said
      /\ reports = << >> /\ subject.by = << >> /\ next = 0 /\ answer = "none" /\ late = {}
      /\ \A h \in Handlers : task[h] = "none"
  <2>1. at = "idle" /\ hook' = k0 /\ UNCHANGED <<late, subject, reports, culprit, said>>
    BY DEF DispatchHook
  <2>2. hook \notin Observers BY <2>1 DEF HookIInv, TellingHolds, Observers
  <2> QED BY <2>1, <2>2 DEF HookIInv, TellingHolds, BatchHolds
<1>2. /\ B \in Seq(Handlers) /\ Len(B) \in Nat /\ DOMAIN B = 1..Len(B)
      /\ \A h \in ToSet(B) : h \in Handlers
      /\ (k0 \in Observers \/ k0 \in Interceptors) /\ ~(k0 \in Observers /\ k0 \in Interceptors)
  BY BindingType
<1>3. Chain' = B BY <1>1 DEF Chain
<1>4. HookTypeOK BY DEF HookIInv
<1>5. \/ B = << >> /\ at' = "returned" /\ answer' = "continue" /\ UNCHANGED <<next, task>>
      \/ /\ B # << >> /\ k0 \in Observers /\ at' = "batch" /\ UNCHANGED <<next, answer>>
         /\ task' = [b \in Handlers |-> IF b \in ToSet(B) THEN "running" ELSE "none"]
      \/ B # << >> /\ k0 \in Interceptors /\ at' = "chain" /\ next' = 1 /\ UNCHANGED <<task, answer>>
  BY <1>2 DEF DispatchHook
<1> HIDE DEF B
<1>6. HookTypeOK'
  BY <1>1, <1>4, <1>5 DEF HookTypeOK
<1>7. TellingHolds'
  <2>1. AdoptedIsValid' BY <1>1, <1>5 DEF AdoptedIsValid
  <2>2. \A i, j \in DOMAIN reports' : reports'[i][1] = reports'[j][1] => i = j BY <1>1
  <2> QED BY <1>1, <1>5, <2>1, <2>2 DEF TellingHolds
<1>8. BatchHolds'
  <2>1. B = << >> => ToSet(B) = {} BY DEF ToSet
  <2>2. \A h \in Handlers : task'[h] # "none" => k0 \in Observers /\ h \in ToSet(B) BY <1>1, <1>5
  <2>3. at' = "returned" => ToSet(B) = {} BY <1>5, <2>1
  <2> QED BY <1>1, <1>2, <1>3, <1>5, <2>2, <2>3 DEF BatchHolds
<1>9. ChainHolds'
  <2>1. at' = "returned" => DOMAIN B = {} BY <1>5
  <2>2. /\ DOMAIN reports' = {} /\ DOMAIN subject'.by = {} /\ ToSet(subject'.by) = {} BY <1>1 DEF ToSet
  <2>3. at' = "chain" => k0 \in Interceptors /\ next' \in 1..(Len(B) + 1) /\ \A k \in DOMAIN B : ~(k < next')
    BY <1>2, <1>5
  <2>4. InOrder(subject.by)' BY <2>2 DEF InOrder
  <2>5. at' \in {"returned", "invalid"} => at' = "returned" /\ answer' = "continue" BY <1>5
  <2>6. at' \in {"chain", "returned", "invalid"} => \A k \in DOMAIN B : ~(k < next') BY <2>1, <2>3, <2>5
  <2>7. at' # "escaped" BY <1>5
  <2> QED BY <1>1, <1>3, <2>1, <2>2, <2>3, <2>4, <2>5, <2>6, <2>7 DEF ChainHolds, Veto
<1> QED BY <1>6, <1>7, <1>8, <1>9 DEF HookIInv
LEMMA ObserverKeeps ==
  ASSUME HookIInv, NEW h0 \in Handlers, ObserverEnds(h0) \/ ObserverStops(h0)
  PROVE  HookIInv'
<1>1. /\ task[h0] \in {"running", "cancelled"}
      /\ \E end \in {"ok", "failed", "cancelled_itself", "gone"} : task' = [task EXCEPT ![h0] = end]
      /\ hook' = hook /\ at' = at /\ next' = next /\ late' = late /\ subject' = subject
      /\ answer' = answer /\ reports' = reports /\ culprit' = culprit /\ said' = said
  BY DEF ObserverEnds, ObserverStops
<1>2. HookTypeOK /\ TellingHolds /\ BatchHolds /\ ChainHolds BY DEF HookIInv
<1>3. /\ task \in [Handlers -> {"none", "running", "ok", "failed", "cancelled_itself", "cancelled", "gone"}]
      /\ hook \in Observers /\ h0 \in ToSet(Chain)
  BY <1>1, <1>2 DEF HookTypeOK, BatchHolds
<1>4. /\ Chain' = Chain /\ \A h \in Handlers : Tells(h)' <=> Tells(h)
  BY <1>1 DEF Chain, Tells
<1>5. at \notin {"returned", "escaped"}
  <2>1. at \in {"returned", "escaped"} => Over(h0) BY <1>2, <1>3 DEF BatchHolds
  <2> QED BY <2>1, <1>1 DEF Over
<1>6. HookTypeOK' BY <1>1, <1>2, <1>3 DEF HookTypeOK
<1>7. TellingHolds'
  <2>1. AdoptedIsValid' BY <1>1, <1>2 DEF TellingHolds, AdoptedIsValid
  <2> QED BY <1>1, <1>2, <2>1 DEF TellingHolds
<1>8. BatchHolds'
  <2>1. \A h \in Handlers : task'[h] # "none" => h \in ToSet(Chain) BY <1>1, <1>2, <1>3 DEF BatchHolds
  <2> QED BY <1>1, <1>2, <1>3, <1>4, <1>5, <2>1 DEF BatchHolds
<1>9. ChainHolds'
  <2>1. hook \notin Interceptors BY <1>3 DEF Observers, Interceptors
  <2> QED BY <1>1, <1>2, <2>1 DEF ChainHolds
<1> QED BY <1>6, <1>7, <1>8, <1>9 DEF HookIInv

LEMMA WaitKeeps ==
  ASSUME HookIInv, WaitTimesOut
  PROVE  HookIInv'
<1>1. /\ at = "batch" /\ late' = {h \in ToSet(Chain) : task[h] = "running"}
      /\ task' = [h \in Handlers |-> IF h \in late' THEN "cancelled" ELSE task[h]]
      /\ at' = "cancelling" /\ hook' = hook /\ next' = next /\ subject' = subject
      /\ answer' = answer /\ reports' = reports /\ culprit' = culprit /\ said' = said
  BY DEF WaitTimesOut
<1>2. HookTypeOK /\ TellingHolds /\ BatchHolds /\ ChainHolds BY DEF HookIInv
<1>3. /\ task \in [Handlers -> {"none", "running", "ok", "failed", "cancelled_itself", "cancelled", "gone"}]
      /\ hook \in Observers /\ ToSet(Chain) \subseteq Handlers
  <2>1. ToSet(Chain) \subseteq Handlers BY <1>1, ChainType
  <2> QED BY <1>1, <1>2, <2>1 DEF HookTypeOK, BatchHolds
<1>4. Chain' = Chain BY <1>1 DEF Chain
<1>5. HookTypeOK' BY <1>1, <1>2, <1>3 DEF HookTypeOK
<1>6. TellingHolds'
  <2>1. AdoptedIsValid' BY <1>1, <1>2 DEF TellingHolds, AdoptedIsValid
  <2> QED BY <1>1, <1>2, <2>1 DEF TellingHolds
<1>7. BatchHolds'
  <2>1. \A h \in Handlers : task'[h] # "none" => h \in ToSet(Chain) BY <1>1, <1>2, <1>3 DEF BatchHolds
  <2> QED BY <1>1, <1>2, <1>3, <1>4, <2>1 DEF BatchHolds
<1>8. ChainHolds' BY <1>1 DEF ChainHolds
<1> QED BY <1>5, <1>6, <1>7, <1>8 DEF HookIInv

LEMMA KillKeeps ==
  ASSUME HookIInv, TurnKilled
  PROVE  HookIInv'
<1>1. /\ at \in {"batch", "cancelling", "chain"} /\ at' = "killed" /\ hook' = hook /\ next' = next /\ task' = task
      /\ late' = late /\ subject' = subject
      /\ answer' = answer /\ reports' = reports /\ culprit' = culprit /\ said' = said
  BY DEF TurnKilled
<1>2. HookTypeOK /\ TellingHolds /\ BatchHolds /\ ChainHolds BY DEF HookIInv
<1>3. Chain' = Chain BY <1>1 DEF Chain
<1>4. HookTypeOK' BY <1>1, <1>2 DEF HookTypeOK
<1>5. TellingHolds'
  <2>1. AdoptedIsValid' BY <1>1, <1>2 DEF TellingHolds, AdoptedIsValid
  <2> QED BY <1>1, <1>2, <2>1 DEF TellingHolds
<1>6. BatchHolds' BY <1>1, <1>2, <1>3 DEF BatchHolds
<1>7. ChainHolds' BY <1>1 DEF ChainHolds
<1> QED BY <1>4, <1>5, <1>6, <1>7 DEF HookIInv

LEMMA ReportKeeps ==
  ASSUME HookIInv, ReportBatch
  PROVE  HookIInv'
<1> DEFINE tell(of) == SetToSeq({<<h, "timeout">> : h \in late}) \o SetToSeq({<<h, "failure">> : h \in of})
<1>1. /\ at \in {"batch", "cancelling"} /\ \A h \in ToSet(Chain) : Over(h)
      /\ hook' = hook /\ next' = next /\ task' = task /\ late' = late /\ subject' = subject /\ said' = said
  BY DEF ReportBatch
<1>2. HookTypeOK /\ TellingHolds /\ BatchHolds /\ ChainHolds BY DEF HookIInv
<1>3. /\ ToSet(Chain) \subseteq Handlers /\ IsFiniteSet(ToSet(Chain))
      /\ hook \in Observers /\ late \subseteq ToSet(Chain) /\ answer = "none" /\ hook \notin Interceptors
  <2>1. ToSet(Chain) \subseteq Handlers /\ IsFiniteSet(ToSet(Chain)) BY <1>1, ChainType
  <2> QED BY <1>1, <1>2, <2>1, ChainType DEF BatchHolds, TellingHolds
<1>4. /\ Failed \subseteq ToSet(Chain) /\ late \cap Failed = {} BY DEF Failed
<1>5. \E of \in SUBSET Failed :
         /\ reports' = tell(of)
         /\ \/ at' = "returned" /\ answer' = "continue" /\ of = Failed /\ culprit' = culprit
            \/ /\ at' = "escaped" /\ answer' = answer
               /\ culprit' \in ToSet(Chain) \ late /\ task[culprit'] = "cancelled_itself"
  BY DEF ReportBatch
<1>6. PICK of \in SUBSET Failed :
         /\ reports' = tell(of)
         /\ \/ at' = "returned" /\ answer' = "continue" /\ of = Failed /\ culprit' = culprit
            \/ /\ at' = "escaped" /\ answer' = answer
               /\ culprit' \in ToSet(Chain) \ late /\ task[culprit'] = "cancelled_itself"
  BY <1>5
<1>7. /\ reports' \in Seq((late \cup of) \X {"timeout", "failure", "rejected_outcome"})
      /\ TellsOf(reports', late \cup of)
  <2>1. IsFiniteSet(late) /\ IsFiniteSet(of) BY <1>3, <1>4, FS_Subset
  <2>2. late \cap of = {} BY <1>4
  <2> QED BY <2>1, <2>2, <1>6, Telling
<1> HIDE DEF tell
<1>8. Chain' = Chain /\ Failed' = Failed BY <1>1 DEF Chain, Failed
<1>9. late \cup of \subseteq Handlers BY <1>3, <1>4
<1>10. reports' \in Seq(Handlers \X {"timeout", "failure", "rejected_outcome"})
  <2>1. \A i \in DOMAIN reports' : reports'[i] \in (late \cup of) \X {"timeout", "failure", "rejected_outcome"}
    BY <1>7
  <2>2. \A i \in DOMAIN reports' : reports'[i] \in Handlers \X {"timeout", "failure", "rejected_outcome"}
    BY <2>1, <1>9
  <2> QED BY <1>7, <2>2
<1>11. HookTypeOK' BY <1>1, <1>2, <1>6, <1>10 DEF HookTypeOK
<1>12. TellingHolds'
  <2>1. AdoptedIsValid' BY <1>3, <1>6 DEF AdoptedIsValid
  <2>2. \A i, j \in DOMAIN reports' : reports'[i][1] = reports'[j][1] => i = j BY <1>7 DEF TellsOf
  <2> QED BY <1>3, <1>6, <2>1, <2>2 DEF TellingHolds
<1>13. BatchHolds'
  <2>1. ASSUME at' = "returned", NEW h \in ToSet(Chain)
        PROVE  Over(h)' /\ (Tells(h)' <=> h \in Failed \union late)
    <3>1. of = Failed BY <1>6, <2>1
    <3>2. Over(h)' BY <1>1 DEF Over
    <3> QED BY <1>7, <3>1, <3>2 DEF TellsOf, Tells
  <2>2. ASSUME NEW h \in ToSet(Chain)
        PROVE  Over(h)' /\ (h \in late => Tells(h)') /\ (Tells(h)' => h \in Failed \union late)
    <3>1. Over(h)' BY <1>1 DEF Over
    <3> QED BY <1>7, <3>1 DEF TellsOf, Tells
  <2> QED BY <1>1, <1>2, <1>3, <1>6, <1>8, <2>1, <2>2 DEF BatchHolds
<1>14. ChainHolds' BY <1>1, <1>3, <1>6 DEF ChainHolds
<1> QED BY <1>11, <1>12, <1>13, <1>14 DEF HookIInv
LEMMA AtWork ==
  ASSUME HookIInv, NEW h0 \in Running
  PROVE  /\ at = "chain" /\ next \in DOMAIN Chain /\ h0 = Chain[next] /\ h0 \in Handlers
         /\ hook \in Interceptors /\ hook \notin Observers /\ answer = "none"
         /\ next \in Nat /\ Len(Chain) \in Nat /\ DOMAIN Chain = 1..Len(Chain)
         /\ \A k \in DOMAIN Chain : k < next => Chain[k] # h0
         /\ \A k \in DOMAIN Chain : k < next + 1 <=> k < next \/ k = next
         /\ ~Tells(h0) /\ h0 \notin ToSet(subject.by)
<1>1. at = "chain" /\ next <= Len(Chain) /\ h0 = Chain[next]
  <2>1. Running # {} OBVIOUS
  <2> QED BY <2>1 DEF Running
<1>2. /\ Len(Chain) \in Nat /\ DOMAIN Chain = 1..Len(Chain)
      /\ \A k \in DOMAIN Chain : Chain[k] \in Handlers
      /\ \A k, m \in DOMAIN Chain : Chain[k] = Chain[m] => k = m
      /\ ~(hook \in Observers /\ hook \in Interceptors)
  BY <1>1, ChainType
<1>3. HookTypeOK /\ TellingHolds /\ ChainHolds BY DEF HookIInv
<1>4. hook \in Interceptors /\ next \in 1..(Len(Chain) + 1) /\ next \in Nat /\ answer = "none"
  BY <1>1, <1>3 DEF HookTypeOK, TellingHolds, ChainHolds
<1>5. next \in DOMAIN Chain BY <1>1, <1>2, <1>4
<1>6. \A k \in DOMAIN Chain : k < next => Chain[k] # h0 BY <1>1, <1>2, <1>4, <1>5
<1>7. \A k \in DOMAIN Chain : k < next + 1 <=> k < next \/ k = next BY <1>2, <1>4
<1>8. ~Tells(h0) BY <1>1, <1>3, <1>4, <1>6 DEF ChainHolds, Tells
<1>9. h0 \notin ToSet(subject.by) BY <1>1, <1>2, <1>3, <1>4, <1>5, <1>6 DEF ChainHolds
<1> QED BY <1>1, <1>2, <1>4, <1>5, <1>6, <1>7, <1>8, <1>9

(* A step of a chain leaves what there is of a batch alone: nothing. *)
LEMMA NoBatch ==
  ASSUME HookIInv, at = "chain", hook' = hook, task' = task, late' = late,
         at' \in {"chain", "returned", "raised", "invalid", "escaped"}
  PROVE  BatchHolds'
<1>1. hook \notin Observers BY ChainType DEF HookIInv, ChainHolds
<1>2. Chain' = Chain BY DEF Chain
<1> QED BY <1>1, <1>2 DEF HookIInv, BatchHolds

LEMMA SettleKeeps ==
  ASSUME HookIInv, NEW h0 \in Running, NEW what \in {"timeout", "failure", "rejected_outcome"},
         NEW w \in Sayings, said' = [said EXCEPT ![h0] = w],
         Settle(h0, what), UNCHANGED <<hook, task, late>>
  PROVE  HookIInv'
<1>1. /\ hook' = hook /\ task' = task /\ late' = late /\ subject' = subject /\ answer' = answer
      /\ reports' = Append(reports, <<h0, what>>)
      /\ \/ h0 \in CriticalHooks /\ at' = "raised" /\ culprit' = h0 /\ next' = next
         \/ next' = next + 1 /\ at' = at /\ culprit' = culprit
  BY DEF Settle
<1>2. HookTypeOK /\ TellingHolds /\ BatchHolds /\ ChainHolds BY DEF HookIInv
<1>3. /\ at = "chain" /\ next \in DOMAIN Chain /\ h0 = Chain[next] /\ h0 \in Handlers
      /\ hook \in Interceptors /\ hook \notin Observers /\ answer = "none"
      /\ next \in Nat /\ Len(Chain) \in Nat /\ DOMAIN Chain = 1..Len(Chain)
      /\ \A k \in DOMAIN Chain : k < next => Chain[k] # h0
      /\ \A k \in DOMAIN Chain : k < next + 1 <=> k < next \/ k = next
      /\ ~Tells(h0) /\ h0 \notin ToSet(subject.by)
  BY AtWork
<1>4. /\ said \in [Handlers -> Sayings]
      /\ \A h \in Handlers : h # h0 => said'[h] = said[h]
  BY <1>2 DEF HookTypeOK
<1> DEFINE R == Handlers \X {"timeout", "failure", "rejected_outcome"}
<1>5. reports \in Seq(R) /\ <<h0, what>> \in R BY <1>2, <1>3 DEF HookTypeOK
<1> HIDE DEF R
<1>6. /\ reports' \in Seq(R) /\ Len(reports) \in Nat /\ reports' # << >>
      /\ \A i \in 1..Len(reports) : reports'[i] = reports[i]
      /\ reports'[Len(reports) + 1] = <<h0, what>> /\ Last(reports') = <<h0, what>>
      /\ Len(reports') = Len(reports) + 1
  BY <1>1, <1>5, AppendFacts
<1>7. /\ DOMAIN reports = 1..Len(reports) /\ DOMAIN reports' = 1..(Len(reports) + 1)
      /\ \A i \in 1..(Len(reports) + 1) : i \in 1..Len(reports) \/ i = Len(reports) + 1
  BY <1>5, <1>6
<1>8. \A h : Tells(h)' <=> Tells(h) \/ h = h0
  <2>1. ASSUME NEW h, Tells(h)' PROVE Tells(h) \/ h = h0
    <3>1. PICK i \in DOMAIN reports' : reports'[i][1] = h BY <2>1 DEF Tells
    <3> QED BY <3>1, <1>6, <1>7 DEF Tells
  <2>2. ASSUME NEW h, Tells(h) PROVE Tells(h)'
    <3>1. PICK i \in DOMAIN reports : reports[i][1] = h BY <2>2 DEF Tells
    <3>2. i \in DOMAIN reports' /\ reports'[i][1] = h BY <3>1, <1>6, <1>7
    <3> QED BY <3>2 DEF Tells
  <2>3. Tells(h0)'
    <3>1. Len(reports) + 1 \in DOMAIN reports' /\ reports'[Len(reports) + 1][1] = h0 BY <1>6, <1>7
    <3> QED BY <3>1 DEF Tells
  <2> QED BY <2>1, <2>2, <2>3
<1>9. Chain' = Chain BY <1>1 DEF Chain
<1>10. HookTypeOK'
  <2>1. said' \in [Handlers -> Sayings] BY <1>4 DEF Sayings
  <2>2. next' \in Nat BY <1>1, <1>3
  <2>3. at' \in {"raised", "chain"} BY <1>1, <1>3
  <2>4. reports' \in Seq(Handlers \X {"timeout", "failure", "rejected_outcome"}) BY <1>6 DEF R
  <2> QED BY <1>1, <1>2, <1>3, <2>1, <2>2, <2>3, <2>4 DEF HookTypeOK
<1>11. TellingHolds'
  <2>1. AdoptedIsValid' BY <1>1, <1>3 DEF AdoptedIsValid
  <2>2. ASSUME NEW i \in DOMAIN reports', NEW j \in DOMAIN reports', reports'[i][1] = reports'[j][1]
        PROVE  i = j
    <3>1. CASE i \in 1..Len(reports) /\ j \in 1..Len(reports)
      BY <3>1, <2>2, <1>2, <1>6, <1>7 DEF TellingHolds
    <3>2. \A k \in 1..Len(reports) : reports'[k][1] # h0 BY <1>3, <1>6, <1>7 DEF Tells
    <3>3. reports'[Len(reports) + 1][1] = h0 BY <1>6
    <3> QED BY <2>2, <3>1, <3>2, <3>3, <1>7
  <2>3. at' \in {"raised", "chain"} /\ answer' = "none" BY <1>1, <1>3
  <2>4. at' = "raised" => culprit' \in CriticalHooks /\ reports' # << >> /\ Last(reports')[1] = culprit'
    BY <1>1, <1>3, <1>6
  <2> QED BY <2>1, <2>2, <2>3, <2>4 DEF TellingHolds
<1>12. BatchHolds' BY <1>1, <1>3, NoBatch
<1>13. ChainHolds'
  <2>1. CASE at' = "raised" BY <2>1 DEF ChainHolds
  <2>2. CASE next' = next + 1 /\ at' = "chain"
    <3>1. next' \in 1..(Len(Chain) + 1) BY <2>2, <1>3
    <3>2. ASSUME NEW i \in DOMAIN reports' PROVE \E k \in DOMAIN Chain : k < next' /\ reports'[i][1] = Chain[k]
      <4>1. CASE i \in 1..Len(reports)
        <5>1. PICK k \in DOMAIN Chain : k < next /\ reports[i][1] = Chain[k]
          BY <4>1, <1>2, <1>3, <1>7 DEF ChainHolds
        <5>2. k < next' BY <5>1, <2>2, <1>3
        <5> QED BY <4>1, <5>1, <5>2, <1>6
      <4>2. CASE i = Len(reports) + 1
        <5>1. reports'[i][1] = Chain[next] /\ next < next' BY <4>2, <1>3, <1>6, <2>2
        <5> QED BY <5>1, <1>3
      <4> QED BY <4>1, <4>2, <1>7
    <3>3. ASSUME NEW k \in DOMAIN Chain, k < next', said'[Chain[k]] \in Veto \union {"failed"}
          PROVE  Tells(Chain[k])'
      <4>1. CASE k = next BY <4>1, <1>3, <1>8, <1>9
      <4>2. CASE k < next
        <5>1. Chain[k] # h0 /\ Chain[k] \in Handlers BY <4>2, <1>3, ChainType
        <5>2. said[Chain[k]] \in Veto \union {"failed"} BY <5>1, <3>3, <1>4
        <5>3. Tells(Chain[k]) BY <5>2, <4>2, <1>2, <1>3 DEF ChainHolds
        <5> QED BY <5>3, <1>8, <1>9
      <4> QED BY <4>1, <4>2, <3>3, <2>2, <1>3
    <3>4. ASSUME NEW h \in Handlers
          PROVE  h \in ToSet(subject.by) <=>
                   \E k \in DOMAIN Chain : k < next' /\ h = Chain[k] /\ said'[h] = "replace" /\ ~Tells(h)'
      <4>1. CASE h = h0 BY <4>1, <1>3, <1>8
      <4>2. CASE h # h0
        <5>1. said'[h] = said[h] /\ (Tells(h)' <=> Tells(h)) BY <4>2, <1>4, <1>8
        <5>2. \A k \in DOMAIN Chain : h = Chain[k] => (k < next' <=> k < next) BY <4>2, <1>3, <2>2
        <5>3. h \in ToSet(subject.by) <=>
                \E k \in DOMAIN Chain : k < next /\ h = Chain[k] /\ said[h] = "replace" /\ ~Tells(h)
          BY <1>2, <1>3 DEF ChainHolds
        <5> QED BY <5>1, <5>2, <5>3
      <4> QED BY <4>1, <4>2
    <3>5. InOrder(subject.by)' BY <1>1, <1>2, <1>3, <1>9 DEF ChainHolds, InOrder
    <3> QED BY <1>1, <1>3, <1>9, <2>2, <3>1, <3>2, <3>3, <3>4, <3>5 DEF ChainHolds
  <2> QED BY <2>1, <2>2, <1>1, <1>3
<1> QED BY <1>10, <1>11, <1>12, <1>13 DEF HookIInv
LEMMA AnswerKeeps ==
  ASSUME HookIInv, NEW h0 \in Running, NEW w \in {"continue", "reject", "block"},
         said' = [said EXCEPT ![h0] = w],
         IF w \in Veto THEN at' = "returned" /\ answer' = w /\ UNCHANGED next
                       ELSE next' = next + 1 /\ UNCHANGED <<at, answer>>,
         UNCHANGED <<subject, reports, culprit, hook, task, late>>
  PROVE  HookIInv'
<1>1. /\ hook' = hook /\ task' = task /\ late' = late /\ subject' = subject
      /\ reports' = reports /\ culprit' = culprit
      /\ \/ w \in Veto /\ at' = "returned" /\ answer' = w /\ next' = next
         \/ w = "continue" /\ next' = next + 1 /\ at' = at /\ answer' = answer
  BY DEF Veto
<1>2. HookTypeOK /\ TellingHolds /\ BatchHolds /\ ChainHolds BY DEF HookIInv
<1>3. /\ at = "chain" /\ next \in DOMAIN Chain /\ h0 = Chain[next] /\ h0 \in Handlers
      /\ hook \in Interceptors /\ hook \notin Observers /\ answer = "none"
      /\ next \in Nat /\ Len(Chain) \in Nat /\ DOMAIN Chain = 1..Len(Chain)
      /\ \A k \in DOMAIN Chain : k < next => Chain[k] # h0
      /\ \A k \in DOMAIN Chain : k < next + 1 <=> k < next \/ k = next
      /\ ~Tells(h0) /\ h0 \notin ToSet(subject.by)
  BY AtWork
<1>4. /\ said \in [Handlers -> Sayings]
      /\ \A h \in Handlers : h # h0 => said'[h] = said[h]
      /\ said'[h0] = w
  BY <1>2, <1>3 DEF HookTypeOK
<1>5. \A h : Tells(h)' <=> Tells(h) BY <1>1 DEF Tells
<1>6. Chain' = Chain BY <1>1 DEF Chain
<1>7. at' \in {"returned", "chain"} /\ next' \in Nat /\ (next' = next \/ next' = next + 1)
      /\ answer' \in {"none", "reject", "block"}
  BY <1>1, <1>3 DEF Veto
<1>8. HookTypeOK'
  <2>1. said' \in [Handlers -> Sayings] BY <1>4 DEF Sayings
  <2> QED BY <1>1, <1>2, <1>3, <1>7, <2>1 DEF HookTypeOK
<1>9. TellingHolds'
  <2>1. AdoptedIsValid' BY <1>7 DEF AdoptedIsValid
  <2>2. at' # "returned" => answer' = "none" BY <1>1, <1>3, <1>7
  <2> QED BY <1>1, <1>2, <1>7, <2>1, <2>2 DEF TellingHolds
<1>10. BatchHolds' BY <1>1, <1>3, <1>7, NoBatch
<1>11. ChainHolds'
  <2>1. ASSUME NEW i \in DOMAIN reports PROVE \E k \in DOMAIN Chain : k < next' /\ reports[i][1] = Chain[k]
    <3>1. PICK k \in DOMAIN Chain : k < next /\ reports[i][1] = Chain[k] BY <1>2, <1>3 DEF ChainHolds
    <3>2. k < next' BY <3>1, <1>3, <1>7
    <3> QED BY <3>1, <3>2
  <2>2. ASSUME NEW k \in DOMAIN Chain, k < next', said'[Chain[k]] \in Veto \union {"failed"}
        PROVE  Tells(Chain[k])
    <3>1. CASE k = next
      <4>1. w = "continue" BY <1>1, <1>3, <2>2, <3>1
      <4> QED BY <4>1, <3>1, <2>2, <1>3, <1>4 DEF Veto
    <3>2. CASE k < next
      <4>1. Chain[k] # h0 /\ Chain[k] \in Handlers BY <3>2, <1>3, ChainType
      <4>2. said[Chain[k]] \in Veto \union {"failed"} BY <4>1, <2>2, <1>4
      <4> QED BY <4>2, <3>2, <1>2, <1>3 DEF ChainHolds
    <3> QED BY <3>1, <3>2, <2>2, <1>3, <1>7
  <2>3. ASSUME NEW h \in Handlers
        PROVE  h \in ToSet(subject.by) <=>
                 \E k \in DOMAIN Chain : k < next' /\ h = Chain[k] /\ said'[h] = "replace" /\ ~Tells(h)
    <3>1. CASE h = h0 BY <3>1, <1>3, <1>4
    <3>2. CASE h # h0
      <4>1. said'[h] = said[h] BY <3>2, <1>4
      <4>2. \A k \in DOMAIN Chain : h = Chain[k] => (k < next' <=> k < next) BY <3>2, <1>3, <1>7
      <4>3. h \in ToSet(subject.by) <=>
              \E k \in DOMAIN Chain : k < next /\ h = Chain[k] /\ said[h] = "replace" /\ ~Tells(h)
        BY <1>2, <1>3 DEF ChainHolds
      <4> QED BY <4>1, <4>2, <4>3
    <3> QED BY <3>1, <3>2
  <2>4. InOrder(subject.by)' BY <1>1, <1>2, <1>3, <1>6 DEF ChainHolds, InOrder
  <2>5. at' = "chain" => hook \in Interceptors /\ next' \in 1..(Len(Chain) + 1) BY <1>1, <1>3
  <2>6. at' = "returned" => answer' \in Veto /\ next' \in DOMAIN Chain /\ said'[Chain[next']] = answer'
    BY <1>1, <1>3, <1>4
  <2>7. /\ \A i \in DOMAIN reports' : \E k \in DOMAIN Chain' : k < next' /\ reports'[i][1] = Chain'[k]
        /\ \A k \in DOMAIN Chain' : k < next' /\ said'[Chain'[k]] \in Veto \union {"failed"} => Tells(Chain[k])'
    BY <1>1, <1>5, <1>6, <2>1, <2>2
  <2>8. \A h \in Handlers : h \in ToSet(subject'.by) <=>
           \E k \in DOMAIN Chain' : k < next' /\ h = Chain'[k] /\ said'[h] = "replace" /\ ~Tells(h)'
    BY <1>1, <1>5, <1>6, <2>3
  <2>9. /\ at' = "chain" => hook' \in Interceptors /\ next' \in 1..(Len(Chain') + 1)
        /\ at' = "returned" => answer' \in Veto /\ answer' # "replace" /\ next' \in DOMAIN Chain'
                               /\ said'[Chain'[next']] = answer'
    BY <1>1, <1>6, <2>5, <2>6 DEF Veto
  <2> QED BY <1>7, <2>4, <2>7, <2>8, <2>9 DEF ChainHolds
<1> QED BY <1>8, <1>9, <1>10, <1>11 DEF HookIInv

LEMMA ReplaceKeeps ==
  ASSUME HookIInv, NEW h0 \in Running, NEW same \in BOOLEAN, NEW timeout \in Nat,
         said' = [said EXCEPT ![h0] = "replace"],
         subject' = [by |-> Append(subject.by, h0), same |-> same, timeout |-> timeout],
         next' = next + 1,
         UNCHANGED <<at, answer, reports, culprit, hook, task, late>>
  PROVE  HookIInv'
<1>1. /\ hook' = hook /\ task' = task /\ late' = late /\ at' = at /\ answer' = answer
      /\ reports' = reports /\ culprit' = culprit
  OBVIOUS
<1>2. HookTypeOK /\ TellingHolds /\ BatchHolds /\ ChainHolds BY DEF HookIInv
<1>3. /\ at = "chain" /\ next \in DOMAIN Chain /\ h0 = Chain[next] /\ h0 \in Handlers
      /\ hook \in Interceptors /\ hook \notin Observers /\ answer = "none"
      /\ next \in Nat /\ Len(Chain) \in Nat /\ DOMAIN Chain = 1..Len(Chain)
      /\ \A k \in DOMAIN Chain : k < next => Chain[k] # h0
      /\ \A k \in DOMAIN Chain : k < next + 1 <=> k < next \/ k = next
      /\ ~Tells(h0) /\ h0 \notin ToSet(subject.by)
  BY AtWork
<1>4. /\ said \in [Handlers -> Sayings]
      /\ \A h \in Handlers : h # h0 => said'[h] = said[h]
      /\ said'[h0] = "replace"
  BY <1>2, <1>3 DEF HookTypeOK
<1> DEFINE by == subject.by
           grown == Append(by, h0)
<1>5. by \in Seq(Handlers) BY <1>2 DEF HookTypeOK
<1> HIDE DEF by
<1>6. /\ grown \in Seq(Handlers) /\ Len(grown) = Len(by) + 1 /\ Len(by) \in Nat
      /\ \A i \in 1..Len(by) : grown[i] = by[i]
      /\ grown[Len(by) + 1] = h0 /\ ToSet(grown) = ToSet(by) \cup {h0}
  BY <1>3, <1>5, AppendFacts
<1>7. /\ DOMAIN by = 1..Len(by) /\ DOMAIN grown = 1..(Len(by) + 1)
      /\ \A i \in 1..(Len(by) + 1) : i \in 1..Len(by) \/ i = Len(by) + 1
  BY <1>5, <1>6
<1>8. subject' = [by |-> grown, same |-> same, timeout |-> timeout] BY DEF by
<1>9. subject'.by = grown BY <1>8
<1> HIDE DEF grown
<1>10. \A h : Tells(h)' <=> Tells(h) BY <1>1 DEF Tells
<1>11. Chain' = Chain BY <1>1 DEF Chain
<1>12. HookTypeOK'
  <2>1. said' \in [Handlers -> Sayings] BY <1>4 DEF Sayings
  <2>2. subject' \in [by : Seq(Handlers), same : BOOLEAN, timeout : Nat]
    <3> DEFINE s == [by |-> grown, same |-> same, timeout |-> timeout]
    <3>1. s.by \in Seq(Handlers) /\ s.same \in BOOLEAN /\ s.timeout \in Nat BY <1>6
    <3>2. s = [by |-> s.by, same |-> s.same, timeout |-> s.timeout] OBVIOUS
    <3>3. s \in [by : Seq(Handlers), same : BOOLEAN, timeout : Nat] BY ONLY <3>1, <3>2
    <3> QED BY <3>3, <1>8
  <2>3. next' \in Nat BY <1>3
  <2> QED BY <1>1, <1>2, <1>3, <2>1, <2>2, <2>3 DEF HookTypeOK
<1>13. TellingHolds'
  <2>1. AdoptedIsValid' BY <1>1, <1>3 DEF AdoptedIsValid
  <2> QED BY <1>1, <1>2, <1>3, <2>1 DEF TellingHolds
<1>14. BatchHolds' BY <1>1, <1>3, NoBatch
<1>15. ChainHolds'
  <2>1. ASSUME NEW i \in DOMAIN reports PROVE \E k \in DOMAIN Chain : k < next' /\ reports[i][1] = Chain[k]
    <3>1. PICK k \in DOMAIN Chain : k < next /\ reports[i][1] = Chain[k] BY <1>2, <1>3 DEF ChainHolds
    <3>2. k < next' BY <3>1, <1>3
    <3> QED BY <3>1, <3>2
  <2>2. ASSUME NEW k \in DOMAIN Chain, k < next', said'[Chain[k]] \in Veto \union {"failed"}
        PROVE  Tells(Chain[k])
    <3>1. CASE k = next BY <3>1, <2>2, <1>3, <1>4 DEF Veto
    <3>2. CASE k < next
      <4>1. Chain[k] # h0 /\ Chain[k] \in Handlers BY <3>2, <1>3, ChainType
      <4>2. said[Chain[k]] \in Veto \union {"failed"} BY <4>1, <2>2, <1>4
      <4> QED BY <4>2, <3>2, <1>2, <1>3 DEF ChainHolds
    <3> QED BY <3>1, <3>2, <2>2, <1>3
  <2>3. ASSUME NEW h \in Handlers
        PROVE  h \in ToSet(grown) <=>
                 \E k \in DOMAIN Chain : k < next' /\ h = Chain[k] /\ said'[h] = "replace" /\ ~Tells(h)
    <3>1. CASE h = h0
      <4>1. next < next' BY <1>3
      <4> QED BY <3>1, <4>1, <1>3, <1>4, <1>6
    <3>2. CASE h # h0
      <4>1. said'[h] = said[h] BY <3>2, <1>4
      <4>2. \A k \in DOMAIN Chain : h = Chain[k] => (k < next' <=> k < next) BY <3>2, <1>3
      <4>3. h \in ToSet(by) <=>
              \E k \in DOMAIN Chain : k < next /\ h = Chain[k] /\ said[h] = "replace" /\ ~Tells(h)
        BY <1>2, <1>3 DEF ChainHolds, by
      <4>4. h \in ToSet(grown) <=> h \in ToSet(by) BY <3>2, <1>6
      <4> QED BY <4>1, <4>2, <4>3, <4>4
    <3> QED BY <3>1, <3>2
  <2>4. InOrder(grown)
    <3>1. SUFFICES ASSUME NEW i \in DOMAIN grown, NEW j \in DOMAIN grown,
                          NEW k \in DOMAIN Chain, NEW m \in DOMAIN Chain,
                          i < j, grown[i] = Chain[k], grown[j] = Chain[m]
                   PROVE  k < m
      BY DEF InOrder
    <3>2. i \in 1..Len(by) /\ (j \in 1..Len(by) \/ j = Len(by) + 1) BY <3>1, <1>6, <1>7
    <3>3. CASE j \in 1..Len(by)
      <4>1. by[i] = Chain[k] /\ by[j] = Chain[m] BY <3>1, <3>2, <3>3, <1>6
      <4>2. InOrder(by) BY <1>2, <1>3 DEF ChainHolds, by
      <4> QED BY <3>1, <3>2, <3>3, <4>1, <4>2, <1>7 DEF InOrder
    <3>4. CASE j = Len(by) + 1
      <4>1. Chain[m] = Chain[next] BY <3>1, <3>4, <1>3, <1>6
      <4>2. m = next BY <4>1, <1>3, ChainType
      <4>3. Chain[k] \in ToSet(by)
        <5>1. by[i] = Chain[k] BY <3>1, <3>2, <1>6
        <5> QED BY <5>1, <3>2, <1>7 DEF ToSet
      <4>4. Chain[k] \in Handlers BY <1>3, ChainType
      <4>5. PICK n \in DOMAIN Chain : n < next /\ Chain[k] = Chain[n]
        BY <4>3, <4>4, <1>2, <1>3 DEF ChainHolds, by
      <4>6. k = n BY <4>5, <1>3, ChainType
      <4> QED BY <4>2, <4>5, <4>6
    <3> QED BY <3>2, <3>3, <3>4
  <2>5. InOrder(subject.by)' BY <2>4, <1>9, <1>11 DEF InOrder
  <2>6. next' \in 1..(Len(Chain) + 1) BY <1>3
  <2>7. /\ \A i \in DOMAIN reports' : \E k \in DOMAIN Chain' : k < next' /\ reports'[i][1] = Chain'[k]
        /\ \A k \in DOMAIN Chain' : k < next' /\ said'[Chain'[k]] \in Veto \union {"failed"} => Tells(Chain[k])'
    BY <1>1, <1>10, <1>11, <2>1, <2>2
  <2>8. \A h \in Handlers : h \in ToSet(subject'.by) <=>
           \E k \in DOMAIN Chain' : k < next' /\ h = Chain'[k] /\ said'[h] = "replace" /\ ~Tells(h)'
    BY <1>9, <1>10, <1>11, <2>3
  <2>9. at' = "chain" /\ hook' \in Interceptors /\ next' \in 1..(Len(Chain') + 1) BY <1>1, <1>3, <1>11, <2>6
  <2> QED BY <2>5, <2>7, <2>8, <2>9 DEF ChainHolds
<1> QED BY <1>12, <1>13, <1>14, <1>15 DEF HookIInv
LEMMA InterceptorAnswersKeeps ==
  ASSUME HookIInv, NEW h0 \in Handlers, InterceptorAnswers(h0)
  PROVE  HookIInv'
<1>1. h0 \in Running /\ UNCHANGED <<hook, task, late>> BY DEF InterceptorAnswers
<1>2. PICK out \in Outcomes, same \in BOOLEAN, timeout \in {0, 1, Remaining + 1} :
        /\ said' = [said EXCEPT ![h0] = out.action]
        /\ \/ Settle(h0, "rejected_outcome")
           \/ /\ out.action \in HookActions[hook] \ {"replace"}
              /\ IF out.action \in Veto THEN at' = "returned" /\ answer' = out.action /\ UNCHANGED next
                                        ELSE next' = next + 1 /\ UNCHANGED <<at, answer>>
              /\ UNCHANGED <<subject, reports, culprit>>
           \/ /\ out.slot # "none"
              /\ subject' = [by |-> Append(subject.by, h0), same |-> same, timeout |-> timeout]
              /\ next' = next + 1
              /\ UNCHANGED <<at, answer, reports, culprit>>
  BY DEF InterceptorAnswers
<1>3. /\ out.action \in {"continue", "reject", "block", "replace"}
      /\ out.slot # "none" => out.action = "replace"
  BY DEF Outcomes
<1>4. timeout \in Nat BY HooksAssumption
<1>5. CASE Settle(h0, "rejected_outcome")
  <2>1. out.action \in Sayings BY <1>3 DEF Sayings
  <2> QED BY <1>1, <1>2, <1>5, <2>1, SettleKeeps
<1>6. CASE /\ out.action \in HookActions[hook] \ {"replace"}
           /\ IF out.action \in Veto THEN at' = "returned" /\ answer' = out.action /\ UNCHANGED next
                                     ELSE next' = next + 1 /\ UNCHANGED <<at, answer>>
           /\ UNCHANGED <<subject, reports, culprit>>
  <2>1. out.action \in {"continue", "reject", "block"} BY <1>3, <1>6
  <2> QED BY <2>1, <1>1, <1>2, <1>6, AnswerKeeps
<1>7. CASE /\ out.slot # "none"
           /\ subject' = [by |-> Append(subject.by, h0), same |-> same, timeout |-> timeout]
           /\ next' = next + 1
           /\ UNCHANGED <<at, answer, reports, culprit>>
  <2>1. said' = [said EXCEPT ![h0] = "replace"] BY <1>2, <1>3, <1>7
  <2> QED BY <2>1, <1>1, <1>4, <1>7, ReplaceKeeps
<1> QED BY <1>2, <1>5, <1>6, <1>7

LEMMA InterceptorFailsKeeps ==
  ASSUME HookIInv, NEW h0 \in Handlers, InterceptorFails(h0)
  PROVE  HookIInv'
<1>1. /\ h0 \in Running /\ said' = [said EXCEPT ![h0] = "failed"] /\ UNCHANGED <<hook, task, late>>
      /\ \E what \in {"failure", "timeout"} : Settle(h0, what)
  BY DEF InterceptorFails
<1>2. "failed" \in Sayings BY DEF Sayings
<1> QED BY <1>1, <1>2, SettleKeeps

LEMMA InterceptorEscapesKeeps ==
  ASSUME HookIInv, NEW h0 \in Handlers, InterceptorEscapes(h0)
  PROVE  HookIInv'
<1>1. /\ h0 \in Running /\ at' = "escaped" /\ culprit' = h0
      /\ said' = [said EXCEPT ![h0] = "cancelled_itself"]
      /\ hook' = hook /\ next' = next /\ task' = task /\ late' = late
      /\ subject' = subject /\ answer' = answer /\ reports' = reports
  BY DEF InterceptorEscapes
<1>2. HookTypeOK /\ TellingHolds /\ BatchHolds /\ ChainHolds BY DEF HookIInv
<1>3. /\ at = "chain" /\ next \in DOMAIN Chain /\ h0 = Chain[next]
      /\ hook \in Interceptors /\ hook \notin Observers /\ answer = "none"
      /\ \A k \in DOMAIN Chain : Chain[k] \in Handlers
      /\ \A k \in DOMAIN Chain : k < next => Chain[k] # h0
  <2>1. at = "chain" BY <1>1, AtWork
  <2> QED BY <1>1, <2>1, AtWork, ChainType
<1>4. /\ said \in [Handlers -> Sayings] /\ \A h \in Handlers : h # h0 => said'[h] = said[h]
      /\ said'[h0] = "cancelled_itself"
  BY <1>1, <1>2 DEF HookTypeOK
<1>5. Chain' = Chain /\ \A h : Tells(h)' <=> Tells(h) BY <1>1 DEF Chain, Tells
<1>6. HookTypeOK'
  <2>1. said' \in [Handlers -> Sayings] BY <1>1, <1>4 DEF Sayings
  <2> QED BY <1>1, <1>2, <1>3, <2>1 DEF HookTypeOK
<1>7. TellingHolds'
  <2>1. AdoptedIsValid' BY <1>1, <1>3 DEF AdoptedIsValid
  <2> QED BY <1>1, <1>2, <1>3, <2>1 DEF TellingHolds
<1>8. BatchHolds' BY <1>1, <1>3, NoBatch
<1>9. ChainHolds'
  <2>1. \A k \in DOMAIN Chain : k < next => said'[Chain[k]] = said[Chain[k]] BY <1>3, <1>4
  <2>2. \A i \in DOMAIN reports : \E k \in DOMAIN Chain : k < next /\ reports[i][1] = Chain[k]
    BY <1>2, <1>3 DEF ChainHolds
  <2>3. \A k \in DOMAIN Chain :
           k < next /\ said'[Chain[k]] \in Veto \union {"failed"} => Tells(Chain[k])
    BY <1>2, <1>3, <2>1 DEF ChainHolds
  <2>4. \A h \in Handlers :
           h \in ToSet(subject.by) <=>
             \E k \in DOMAIN Chain : k < next /\ h = Chain[k] /\ said'[h] = "replace" /\ ~Tells(h)
    BY <1>2, <1>3, <2>1 DEF ChainHolds
  <2>5. InOrder(subject.by)' BY <1>1, <1>2, <1>3, <1>5 DEF ChainHolds, InOrder
  <2> QED BY <1>1, <1>3, <1>4, <1>5, <2>2, <2>3, <2>4, <2>5 DEF ChainHolds
<1> QED BY <1>6, <1>7, <1>8, <1>9 DEF HookIInv

LEMMA ChainEndsKeeps ==
  ASSUME HookIInv, ChainEnds
  PROVE  HookIInv'
<1>1. /\ at = "chain" /\ next > Len(Chain)
      /\ hook' = hook /\ next' = next /\ task' = task /\ late' = late
      /\ reports' = reports /\ culprit' = culprit /\ said' = said
      /\ subject' = subject \/ subject' = ValidatedModelRequest(subject)
      /\ \/ at' = "returned" /\ answer' \in {"continue", "replace"}
         \/ at' = "invalid" /\ answer' = answer
      /\ answer' = "replace" /\ at' = "returned" => subject.by # << >>
      /\ answer' = "replace" /\ at' = "returned" /\ hook = "before_model_request" =>
            subject' = ValidatedModelRequest(subject) /\ subject.same
      /\ answer' = "replace" /\ at' = "returned" /\ hook = "before_tool_call" =>
            subject' = subject /\ subject.same
  BY DEF ChainEnds
<1>2. HookTypeOK /\ TellingHolds /\ BatchHolds /\ ChainHolds BY DEF HookIInv
<1>3. /\ hook \in Interceptors /\ answer = "none" /\ next \in Nat
      /\ Len(Chain) \in Nat /\ DOMAIN Chain = 1..Len(Chain)
  BY <1>1, <1>2, ChainType DEF HookTypeOK, TellingHolds, ChainHolds
<1>4. subject \in [by : Seq(Handlers), same : BOOLEAN, timeout : Nat] BY <1>2 DEF HookTypeOK
<1>5. /\ subject' \in [by : Seq(Handlers), same : BOOLEAN, timeout : Nat]
      /\ subject'.by = subject.by /\ subject'.same = subject.same
      /\ subject' = ValidatedModelRequest(subject) =>
            subject'.timeout >= 1 /\ (subject'.timeout <= Remaining \/ subject'.timeout = 1)
  <2> DEFINE asked == LeastOf(IF subject.timeout = 0 THEN Remaining ELSE subject.timeout, Remaining)
             clamped == IF asked < 1 THEN 1 ELSE asked
  <2>1. ValidatedModelRequest(subject) = [subject EXCEPT !.timeout = clamped] BY DEF ValidatedModelRequest
  <2>2. /\ Remaining \in Nat /\ subject.timeout \in Nat BY <1>4, HooksAssumption
  <2>3. clamped \in Nat /\ clamped >= 1 /\ (clamped <= Remaining \/ clamped = 1) BY <2>2 DEF LeastOf
  <2> HIDE DEF clamped
  <2>4. [subject EXCEPT !.timeout = clamped] \in [by : Seq(Handlers), same : BOOLEAN, timeout : Nat]
    BY <1>4, <2>3
  <2>5. /\ [subject EXCEPT !.timeout = clamped].by = subject.by
        /\ [subject EXCEPT !.timeout = clamped].same = subject.same
        /\ [subject EXCEPT !.timeout = clamped].timeout = clamped
    BY <1>4
  <2> QED BY <1>1, <1>4, <2>1, <2>3, <2>4, <2>5
<1>6. \A h : Tells(h)' <=> Tells(h) BY <1>1 DEF Tells
<1>7. Chain' = Chain BY <1>1 DEF Chain
<1>8. at' \in {"returned", "invalid"} /\ answer' \in {"none", "continue", "replace"} BY <1>1, <1>3
<1>9. HookTypeOK' BY <1>1, <1>2, <1>5, <1>8 DEF HookTypeOK
<1>10. TellingHolds'
  <2>1. AdoptedIsValid'
    <3>1. answer' = "replace" => at' = "returned" BY <1>1, <1>3
    <3> QED BY <3>1, <1>1, <1>5 DEF AdoptedIsValid
  <2>2. at' # "returned" => answer' = "none" BY <1>1, <1>3
  <2> QED BY <1>1, <1>2, <1>8, <2>1, <2>2 DEF TellingHolds
<1>11. BatchHolds' BY <1>1, <1>3, <1>8, NoBatch
<1>12. ChainHolds'
  <2>1. InOrder(subject.by)' BY <1>1, <1>2, <1>3, <1>5, <1>7 DEF ChainHolds, InOrder
  <2>2. \A k \in DOMAIN Chain : k < next BY <1>1, <1>3
  <2>3. answer' = "replace" => subject'.by # << >> BY <1>1, <1>3, <1>5
  <2>4. /\ \A i \in DOMAIN reports : \E k \in DOMAIN Chain : k < next /\ reports[i][1] = Chain[k]
        /\ \A k \in DOMAIN Chain :
             k < next /\ said[Chain[k]] \in Veto \union {"failed"} => Tells(Chain[k])
        /\ \A h \in Handlers :
             h \in ToSet(subject.by) <=>
               \E k \in DOMAIN Chain : k < next /\ h = Chain[k] /\ said[h] = "replace" /\ ~Tells(h)
    BY <1>1, <1>2, <1>3 DEF ChainHolds
  <2>5. /\ \A i \in DOMAIN reports' : \E k \in DOMAIN Chain' : k < next' /\ reports'[i][1] = Chain'[k]
        /\ \A k \in DOMAIN Chain' :
             k < next' /\ said'[Chain'[k]] \in Veto \union {"failed"} => Tells(Chain[k])'
        /\ \A h \in Handlers :
             h \in ToSet(subject'.by) <=>
               \E k \in DOMAIN Chain' : k < next' /\ h = Chain'[k] /\ said'[h] = "replace" /\ ~Tells(h)'
    BY <1>1, <1>5, <1>6, <1>7, <2>4
  <2>6. \A k \in DOMAIN Chain' : k < next' BY <1>1, <1>7, <2>2
  <2> QED BY <1>1, <1>8, <2>1, <2>3, <2>5, <2>6 DEF ChainHolds, Veto
<1> QED BY <1>9, <1>10, <1>11, <1>12 DEF HookIInv

THEOREM HooksInductive == HooksSpec => []HookIInv
<1>1. HooksInit => HookIInv BY HooksStart
<1>2. HookIInv /\ [HooksNext]_hookVars => HookIInv'
  <2> SUFFICES ASSUME HookIInv, [HooksNext]_hookVars PROVE HookIInv' OBVIOUS
  <2>1. ASSUME NEW h \in DOMAIN HookBindings, DispatchHook(h) PROVE HookIInv' BY <2>1, DispatchKeeps
  <2>2. ASSUME NEW h \in Handlers, ObserverEnds(h) \/ ObserverStops(h) PROVE HookIInv'
    BY <2>2, ObserverKeeps
  <2>3. CASE WaitTimesOut BY <2>3, WaitKeeps
  <2>4. CASE ReportBatch BY <2>4, ReportKeeps
  <2>5. ASSUME NEW h \in Handlers, InterceptorAnswers(h) PROVE HookIInv' BY <2>5, InterceptorAnswersKeeps
  <2>6. ASSUME NEW h \in Handlers, InterceptorFails(h) PROVE HookIInv' BY <2>6, InterceptorFailsKeeps
  <2>7. CASE ChainEnds BY <2>7, ChainEndsKeeps
  <2>8. CASE TurnKilled BY <2>8, KillKeeps
  <2>9. CASE UNCHANGED hookVars
    <3>1. HookTypeOK' BY <2>9 DEF hookVars, HookIInv, HookTypeOK
    <3>2. TellingHolds' BY <2>9 DEF hookVars, HookIInv, TellingHolds, AdoptedIsValid
    <3>3. BatchHolds' BY <2>9 DEF hookVars, HookIInv, BatchHolds, Tells, Over, Failed, Chain
    <3>4. ChainHolds' BY <2>9 DEF hookVars, HookIInv, ChainHolds, Tells, InOrder, Chain
    <3> QED BY <3>1, <3>2, <3>3, <3>4 DEF HookIInv
  <2>10. ASSUME NEW h \in Handlers, InterceptorEscapes(h) PROVE HookIInv'
    BY <2>10, InterceptorEscapesKeeps
  <2> QED BY <2>1, <2>2, <2>3, <2>4, <2>5, <2>6, <2>7, <2>8, <2>9, <2>10 DEF HooksNext, RouterStep, Handle
<1> QED BY <1>1, <1>2, PTL DEF HooksSpec
(* Hooks, HooksAreIsolated: what leaves a dispatch is a critical           *)
(* interceptor's own failure, or the cancellation of a handler that ended  *)
(* cancelled by itself, with whoever was late reported once; in a dispatch *)
(* that returns every failure is told once, no observer is left running,   *)
(* what comes back is the accepted replacements in order or the veto of    *)
(* the last handler, and an adopted request fits the turn.                 *)
THEOREM HooksStayIsolated == HooksSpec => []HooksAreIsolated
<1>1. HookIInv => HooksAreIsolated
  <2> SUFFICES ASSUME HookIInv PROVE Isolation
    BY DEF HooksAreIsolated, HookIInv, TellingHolds
  <2>1. HookTypeOK /\ TellingHolds /\ BatchHolds /\ ChainHolds BY DEF HookIInv
  <2>2. \A h : Told(h) = IF Tells(h) THEN 1 ELSE 0
    BY <2>1, ToldOnce DEF HookTypeOK, TellingHolds
  <2>3. ASSUME at = "raised" PROVE culprit \in CriticalHooks /\ Last(reports)[1] = culprit
    BY <2>1, <2>3 DEF TellingHolds
  <2>4. ASSUME at = "returned", hook \in Observers, NEW h \in ToSet(Chain)
        PROVE  Over(h) /\ Told(h) = (IF h \in Failed \union late THEN 1 ELSE 0)
    BY <2>1, <2>2, <2>4 DEF BatchHolds
  <2>5. ASSUME at \in {"returned", "invalid"}, hook \in Interceptors
        PROVE  /\ \A h \in Called : Told(h) <= 1 /\ (said[h] = "failed" => Told(h) = 1)
               /\ ToSet(subject.by) = Kept /\ InOrder(subject.by)
               /\ answer = "replace" => Kept # {}
               /\ \A h \in Called : Vetoed(h) => h = Chain[next] /\ answer = said[h]
               /\ answer \in Veto => next <= Len(Chain) /\ Vetoed(Chain[next]) /\ answer = said[Chain[next]]
    <3>1. /\ Len(Chain) \in Nat /\ DOMAIN Chain = 1..Len(Chain) /\ next \in Nat
          /\ \A k \in DOMAIN Chain : Chain[k] \in Handlers
          /\ \A k, m \in DOMAIN Chain : Chain[k] = Chain[m] => k = m
      BY <2>1, <2>5, ChainType DEF HookTypeOK
    <3>2. /\ \A i \in DOMAIN reports : \E k \in DOMAIN Chain : k < next /\ reports[i][1] = Chain[k]
          /\ \A k \in DOMAIN Chain :
               k < next /\ said[Chain[k]] \in Veto \union {"failed"} => Tells(Chain[k])
          /\ \A h \in Handlers :
               h \in ToSet(subject.by) <=>
                 \E k \in DOMAIN Chain : k < next /\ h = Chain[k] /\ said[h] = "replace" /\ ~Tells(h)
          /\ InOrder(subject.by)
          /\ answer \in Veto => next \in DOMAIN Chain /\ said[Chain[next]] = answer
          /\ answer \notin Veto => \A k \in DOMAIN Chain : k < next
          /\ answer = "replace" => subject.by # << >>
      BY <2>1, <2>5 DEF ChainHolds
    <3>3. \A h : h \in Called <=> \E k \in DOMAIN Chain : k <= next /\ h = Chain[k]
      BY <2>5, <3>1 DEF Called, LeastOf
    <3>4. \A k \in DOMAIN Chain : k <= next <=> k < next \/ k = next BY <3>1
    <3>5. next \in DOMAIN Chain => answer \in Veto /\ said[Chain[next]] = answer
      BY <3>1, <3>2
    <3>6. next \in DOMAIN Chain => ~Tells(Chain[next])
      BY <3>1, <3>2 DEF Tells
    <3>7. ASSUME NEW h \in Called PROVE Told(h) <= 1 /\ (said[h] = "failed" => Told(h) = 1)
      <4>1. PICK k \in DOMAIN Chain : h = Chain[k] /\ (k < next \/ k = next) BY <3>3, <3>4
      <4>2. said[h] = "failed" => Tells(h) BY <4>1, <3>2, <3>5 DEF Veto
      <4> QED BY <4>2, <2>2
    <3>8. ToSet(subject.by) = Kept
      <4>1. \A h \in ToSet(subject.by) : h \in Handlers
        <5>1. subject.by \in Seq(Handlers) BY <2>1 DEF HookTypeOK
        <5> QED BY <5>1 DEF ToSet
      <4>2. \A h \in Kept : \E k \in DOMAIN Chain : k < next /\ h = Chain[k] /\ said[h] = "replace" /\ ~Tells(h)
        <5>1. SUFFICES ASSUME NEW h \in Called, said[h] = "replace", Told(h) = 0
                       PROVE  \E k \in DOMAIN Chain : k < next /\ h = Chain[k] /\ said[h] = "replace" /\ ~Tells(h)
          BY DEF Kept
        <5>2. PICK k \in DOMAIN Chain : h = Chain[k] /\ (k < next \/ k = next) BY <3>3, <3>4
        <5>3. ~Tells(h) BY <5>1, <2>2
        <5>4. k # next BY <5>1, <5>2, <3>5 DEF Veto
        <5> QED BY <5>1, <5>2, <5>3, <5>4
      <4>3. ASSUME NEW h \in ToSet(subject.by) PROVE h \in Kept
        <5>1. PICK k \in DOMAIN Chain : k < next /\ h = Chain[k] /\ said[h] = "replace" /\ ~Tells(h)
          BY <4>1, <3>2
        <5>2. h \in Called BY <5>1, <3>1, <3>3
        <5>3. Told(h) = 0 BY <5>1, <2>2
        <5> QED BY <5>1, <5>2, <5>3 DEF Kept
      <4>4. ASSUME NEW h \in Kept PROVE h \in ToSet(subject.by)
        <5>1. PICK k \in DOMAIN Chain : k < next /\ h = Chain[k] /\ said[h] = "replace" /\ ~Tells(h) BY <4>2
        <5>2. h \in Handlers BY <5>1, <3>1
        <5> QED BY <5>1, <5>2, <3>2
      <4> QED BY <4>3, <4>4
    <3>9. answer = "replace" => Kept # {}
      <4>1. SUFFICES ASSUME answer = "replace" PROVE Kept # {} OBVIOUS
      <4>2. subject.by \in Seq(Handlers) /\ subject.by # << >> BY <4>1, <3>2, <2>1 DEF HookTypeOK
      <4>3. 1 \in DOMAIN subject.by BY <4>2
      <4>4. subject.by[1] \in ToSet(subject.by) BY <4>3 DEF ToSet
      <4> QED BY <4>4, <3>8
    <3>10. ASSUME NEW h \in Called, Vetoed(h) PROVE h = Chain[next] /\ answer = said[h]
      <4>1. PICK k \in DOMAIN Chain : h = Chain[k] /\ (k < next \/ k = next) BY <3>3, <3>4
      <4>2. said[h] \in Veto /\ ~Tells(h) BY <3>10, <2>2 DEF Vetoed
      <4>3. k = next BY <4>1, <4>2, <3>2
      <4> QED BY <4>1, <4>3, <3>5
    <3>11. ASSUME answer \in Veto
           PROVE  next <= Len(Chain) /\ Vetoed(Chain[next]) /\ answer = said[Chain[next]]
      <4>1. next \in DOMAIN Chain /\ said[Chain[next]] = answer BY <3>11, <3>2
      <4>2. Told(Chain[next]) = 0 BY <4>1, <3>6, <2>2
      <4> QED BY <4>1, <4>2, <3>1, <3>11 DEF Vetoed
    <3> QED BY <3>2, <3>7, <3>8, <3>9, <3>10, <3>11
  <2>6. ASSUME at = "escaped" PROVE SelfCancelled
    <3>1. \A h : Told(h) <= 1 BY <2>2
    <3>2. /\ Chain \in Seq(Handlers) /\ Len(Chain) \in Nat /\ DOMAIN Chain = 1..Len(Chain)
          /\ \A k, m \in DOMAIN Chain : Chain[k] = Chain[m] => k = m
      BY <2>6, ChainType
    <3>3. ASSUME hook \in Observers
          PROVE  /\ culprit \in ToSet(Chain) \ late /\ task[culprit] = "cancelled_itself"
                 /\ \A h \in ToSet(Chain) :
                       Over(h) /\ (h \in late => Told(h) = 1) /\ (h \notin Failed \union late => Told(h) = 0)
      BY <2>1, <2>2, <2>6, <3>3 DEF BatchHolds
    <3>4. ASSUME hook \in Interceptors
          PROVE  /\ next \in DOMAIN Chain /\ culprit = Chain[next]
                 /\ said[culprit] = "cancelled_itself" /\ Told(culprit) = 0
                 /\ \A h \in Called : said[h] = "failed" => Told(h) = 1
      <4>1. /\ next \in DOMAIN Chain /\ culprit = Chain[next] /\ said[culprit] = "cancelled_itself"
            /\ \A i \in DOMAIN reports : \E k \in DOMAIN Chain : k < next /\ reports[i][1] = Chain[k]
            /\ \A k \in DOMAIN Chain :
                 k < next /\ said[Chain[k]] \in Veto \union {"failed"} => Tells(Chain[k])
        BY <2>1, <2>6, <3>4 DEF ChainHolds
      <4>2. next \in Nat BY <3>2, <4>1
      <4>3. ~Tells(culprit)
        <5>1. \A k \in DOMAIN Chain : k < next => Chain[k] # culprit BY <3>2, <4>1, <4>2
        <5> QED BY <4>1, <5>1 DEF Tells
      <4>4. ASSUME NEW h \in Called, said[h] = "failed" PROVE Told(h) = 1
        <5>1. PICK k \in DOMAIN Chain : h = Chain[k] /\ (k < next \/ k = next)
          BY <3>2, <3>4, <4>1, <4>2 DEF Called, LeastOf
        <5>2. k # next BY <4>1, <4>4, <5>1
        <5> QED BY <2>2, <4>1, <4>4, <5>1, <5>2
      <4> QED BY <2>2, <4>1, <4>3, <4>4
    <3> QED BY <3>1, <3>3, <3>4 DEF SelfCancelled
  <2> QED BY <2>3, <2>4, <2>5, <2>6 DEF Isolation
<1> QED BY <1>1, HooksInductive, PTL
=============================================================================
