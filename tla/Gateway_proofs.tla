---------------------------- MODULE Gateway_proofs ----------------------------
(***************************************************************************)
(* Safety of the way of an input through an instance, for any inputs,      *)
(* conversations and messages and for every size of the lane table, the    *)
(* lanes, the scheduler's queues and the table of duplicates; of the       *)
(* schedules of the cron plugin, for any jobs, sessions and limits; and of *)
(* the files of the memory plugin, for any callers and bounds.             *)
(***************************************************************************)
EXTENDS Gateway, Cron, MemoryStore, SequenceTheorems, FiniteSetTheorems, NaturalInduction, TLAPS

Distinct(s) == \A m, n \in 1..Len(s) : s[m] = s[n] => m = n

Open == {"running", "channels", "pumps", "grace"}   \* the lanes are not forgotten yet
Emptied == {"grace", "force", "drain", "closing", "stopped"}

(* How far the stop has come says who can still be under way.              *)
StopInOrder ==
  /\ accepting => phase = "running"
  /\ forced => phase \in {"force", "closing", "stopped"}
  /\ phase = "force" => forced
  /\ ~forced => doomed = {} /\ \A i \in Inputs : state[i] # "killed"
  /\ phase \in Emptied => \A c \in Conversations : queue[c] = << >>
  /\ phase = "drain" => Submissions = {}
  /\ phase \in {"closing", "stopped"} /\ ~forced =>
       Submissions = {} /\ \A c \in Conversations : ~alive[c]

(* A lane holds each of its inputs once, and has a worker who takes them.  *)
LaneHolds(c) ==
  /\ \A i \in ToSet(queue[c]) :
       i \in Inputs \ Direct /\ ConversationOf[i] = c /\ state[i] = "queued"
  /\ Distinct(queue[c])
  /\ queue[c] # << >> => alive[c]
  /\ worker[c] # NoInput =>
       /\ alive[c]
       /\ worker[c] \in Inputs \ Direct /\ ConversationOf[worker[c]] = c
       /\ state[worker[c]] \in Submitted \cup Echoed

TableHolds ==
  /\ IsFiniteSet(table) /\ Cardinality(table) <= Concurrency
  /\ phase \in Open => table = {c \in Conversations : alive[c]}

(* An input is where its state says: in its lane or in its worker's hands,  *)
(* waiting for its session's slot or holding it; and what was executed is  *)
(* remembered, or was.                                                     *)
InHand(i) ==
  /\ state[i] = "queued" => i \in ToSet(queue[ConversationOf[i]])
  /\ state[i] \in Submitted /\ i \notin Direct => worker[ConversationOf[i]] = i

InSlot(i) ==
  /\ state[i] = "waiting" => i \in ToSet(backlog[ConversationOf[i]])
  /\ state[i] \in {"turn", "refused"} => active[ConversationOf[i]] = <<i>>

Remembered(i) == state[i] \in Executing => MessageOf[i] \in ToSet(dedup) \cup expired

SlotHolds(c) ==
  /\ \A i \in ToSet(backlog[c]) :
       ConversationOf[i] = c /\ state[i] \in {"waiting", "killed"}
  /\ Distinct(backlog[c])
  /\ active[c] # << >> =>
       \E i \in Inputs : /\ active[c] = <<i>> /\ ConversationOf[i] = c
                         /\ state[i] \in {"turn", "refused"}

IInv ==
  /\ TypeOK
  /\ StopInOrder
  /\ TableHolds
  /\ \A c \in Conversations : LaneHolds(c) /\ SlotHolds(c)
  /\ \A i \in Inputs : InHand(i) /\ InSlot(i) /\ Remembered(i)
  /\ open = Submissions
  /\ AtMostOnce
-----------------------------------------------------------------------------
(* Sequences. *)

LEMMA AppendFacts ==
  ASSUME NEW T, NEW s \in Seq(T), NEW x \in T
  PROVE  /\ Append(s, x) \in Seq(T) /\ Len(Append(s, x)) = Len(s) + 1
         /\ Append(s, x) # << >>
         /\ ToSet(Append(s, x)) = ToSet(s) \cup {x}
         /\ Distinct(s) /\ x \notin ToSet(s) => Distinct(Append(s, x))
<1>1. /\ Append(s, x) \in Seq(T) /\ Len(Append(s, x)) = Len(s) + 1 /\ Len(s) \in Nat
      /\ Append(s, x) # << >>
      /\ \A n \in 1..Len(s) : Append(s, x)[n] = s[n]
      /\ Append(s, x)[Len(s) + 1] = x
      /\ DOMAIN s = 1..Len(s) /\ DOMAIN Append(s, x) = 1..(Len(s) + 1)
  OBVIOUS
<1>2. 1..(Len(s) + 1) = (1..Len(s)) \cup {Len(s) + 1} BY <1>1
<1>3. ToSet(Append(s, x)) = ToSet(s) \cup {x} BY <1>1, <1>2 DEF ToSet
<1>4. ASSUME Distinct(s), x \notin ToSet(s) PROVE Distinct(Append(s, x))
  <2>1. \A n \in 1..Len(s) : s[n] # x BY <1>1, <1>4 DEF ToSet
  <2> QED BY <1>1, <1>2, <1>4, <2>1 DEF Distinct
<1> QED BY <1>1, <1>3, <1>4

LEMMA TailFacts ==
  ASSUME NEW T, NEW s \in Seq(T), s # << >>
  PROVE  /\ Head(s) \in T /\ Head(s) \in ToSet(s)
         /\ Tail(s) \in Seq(T) /\ Len(Tail(s)) = Len(s) - 1
         /\ ToSet(s) = {Head(s)} \cup ToSet(Tail(s))
         /\ Distinct(s) => Distinct(Tail(s)) /\ Head(s) \notin ToSet(Tail(s))
<1>1. /\ Head(s) \in T /\ Head(s) = s[1] /\ Len(s) \in Nat \ {0}
      /\ Tail(s) \in Seq(T) /\ Len(Tail(s)) = Len(s) - 1
      /\ DOMAIN s = 1..Len(s) /\ DOMAIN Tail(s) = 1..(Len(s) - 1)
      /\ \A n \in 1..(Len(s) - 1) : n + 1 \in 1..Len(s) /\ Tail(s)[n] = s[n + 1]
  OBVIOUS
<1>2. \A n \in 1..Len(s) : n = 1 \/ (n - 1 \in 1..(Len(s) - 1) /\ Tail(s)[n - 1] = s[n])
  BY <1>1
<1>3. Head(s) \in ToSet(s) BY <1>1 DEF ToSet
<1>4. ToSet(s) = {Head(s)} \cup ToSet(Tail(s))
  <2>1. ASSUME NEW n \in 1..Len(s) PROVE s[n] \in {Head(s)} \cup ToSet(Tail(s))
    BY <1>1, <1>2 DEF ToSet
  <2>2. ASSUME NEW n \in 1..(Len(s) - 1) PROVE Tail(s)[n] \in ToSet(s)
    BY <1>1 DEF ToSet
  <2> QED BY <1>1, <1>3, <2>1, <2>2 DEF ToSet
<1>5. ASSUME Distinct(s) PROVE Distinct(Tail(s)) /\ Head(s) \notin ToSet(Tail(s))
  <2>1. Distinct(Tail(s)) BY <1>1, <1>5 DEF Distinct
  <2>2. ASSUME NEW n \in 1..(Len(s) - 1) PROVE Tail(s)[n] # Head(s)
    BY <1>1, <1>5 DEF Distinct
  <2> QED BY <1>1, <2>1, <2>2 DEF ToSet
<1> QED BY <1>1, <1>3, <1>4, <1>5

LEMMA EmptyFacts ==
  ASSUME NEW T
  PROVE  << >> \in Seq(T) /\ Len(<< >>) = 0 /\ ToSet(<< >>) = {} /\ Distinct(<< >>)
  BY EmptySeq DEF ToSet, Distinct
-----------------------------------------------------------------------------
LEMMA InitHolds == Init => IInv
<1> SUFFICES ASSUME Init PROVE IInv OBVIOUS
<1> USE EmptyFacts, GatewayAssumption DEF GatewayAssumption
<1>1. TypeOK
  <2>1. /\ queue \in [Conversations -> Seq(Inputs)]
        /\ \A c \in Conversations : Len(queue[c]) <= LaneSize
    BY DEF Init
  <2>2. dedup \in Seq(Messages) /\ Len(dedup) <= DedupCapacity BY DEF Init
  <2>3. /\ backlog \in [Conversations -> Seq(Inputs)] /\ active \in [Conversations -> Seq(Inputs)]
        /\ open \subseteq Inputs
    BY DEF Init, Queues!Init
  <2>4. /\ phase \in Phases /\ accepting \in BOOLEAN /\ forced \in BOOLEAN
        /\ pump \in Inputs \cup {NoInput} /\ table \subseteq Conversations
        /\ alive \in [Conversations -> BOOLEAN] /\ worker \in [Conversations -> Inputs \cup {NoInput}]
        /\ expired \subseteq Messages /\ state \in [Inputs -> States]
        /\ sending \subseteq Inputs /\ doomed \subseteq Inputs
    BY DEF Init, Phases, States
  <2> QED BY <2>1, <2>2, <2>3, <2>4 DEF TypeOK
<1>2. Submissions = {} BY DEF Init, Submissions, Submitted
<1>3. StopInOrder BY <1>2 DEF Init, StopInOrder, Emptied
<1>4. TableHolds BY FS_EmptySet DEF Init, TableHolds
<1>5. \A c \in Conversations : LaneHolds(c) /\ SlotHolds(c)
  BY DEF Init, LaneHolds, SlotHolds, Queues!Init
<1>6. \A i \in Inputs : InHand(i) /\ InSlot(i) /\ Remembered(i)
  BY DEF Init, InHand, InSlot, Remembered, Submitted, Executing
<1>7. open = Submissions BY <1>2 DEF Init, Queues!Init
<1>8. AtMostOnce BY DEF Init, AtMostOnce, Executing, Submitted
<1> QED BY <1>1, <1>3, <1>4, <1>5, <1>6, <1>7, <1>8 DEF IInv

(* remember(): what is in the table, or once was, stays known; a message    *)
(* that is recorded was not in the table.                                  *)
LEMMA RememberFacts ==
  ASSUME TypeOK, NEW i \in Inputs, Remember(i)
  PROVE  /\ dedup' \in Seq(Messages) /\ Len(dedup') <= DedupCapacity
         /\ expired' \subseteq Messages /\ expired \subseteq expired'
         /\ ToSet(dedup') \cup expired' = ToSet(dedup) \cup expired \cup {MessageOf[i]}
<1> DEFINE longer == Append(dedup, MessageOf[i])
<1>1. MessageOf[i] \in Messages /\ DedupCapacity \in Nat \ {0}
  BY GatewayAssumption DEF GatewayAssumption
<1>2. dedup \in Seq(Messages) /\ Len(dedup) <= DedupCapacity /\ expired \subseteq Messages
      /\ Len(dedup) \in Nat
  BY DEF TypeOK
<1>3. /\ longer \in Seq(Messages) /\ longer # << >> /\ Len(longer) = Len(dedup) + 1
      /\ ToSet(longer) = ToSet(dedup) \cup {MessageOf[i]}
  BY <1>1, <1>2, AppendFacts
<1>4. CASE Len(longer) > DedupCapacity
  <2>1. dedup' = Tail(longer) /\ expired' = expired \cup {Head(longer)}
    BY <1>4 DEF Remember
  <2>2. /\ Head(longer) \in Messages
        /\ Tail(longer) \in Seq(Messages) /\ Len(Tail(longer)) = Len(longer) - 1
        /\ ToSet(longer) = {Head(longer)} \cup ToSet(Tail(longer))
    BY <1>3, TailFacts
  <2> QED BY <1>1, <1>2, <1>3, <2>1, <2>2
<1>5. CASE ~(Len(longer) > DedupCapacity)
  <2>1. dedup' = longer /\ expired' = expired BY <1>5 DEF Remember
  <2> QED BY <1>1, <1>2, <1>3, <1>5, <2>1
<1> QED BY <1>4, <1>5

(* handle(): an input that had not been looked at gets a receipt, a place   *)
(* in its session's queue or the session's slot.                           *)
Handled(i, s) ==
  /\ state' = [state EXCEPT ![i] = s]
  /\ s \in Echoed \cup {"waiting", "turn"}
  /\ s \in {"waiting", "turn"} => accepting

LEMMA HandleCases ==
  ASSUME TypeOK, NEW i \in Inputs, Handle(i)
  PROVE  \/ \E s \in Echoed : Handled(i, s) /\ UNCHANGED <<memory, sessions>>
         \/ Handled(i, "busy") /\ ~Known(i) /\ Remember(i) /\ UNCHANGED sessions
         \/ Handled(i, "turn") /\ ~Known(i) /\ Remember(i) /\ Queues!ArriveAndBegin(i)
         \/ Handled(i, "waiting") /\ ~Known(i) /\ Remember(i) /\ Queues!Arrive(i)
  BY DEF Handle, Handled, Echoed, Set

LEMMA HandleMemory ==
  ASSUME IInv, NEW i \in Inputs, Handle(i)
  PROVE  /\ dedup' \in Seq(Messages) /\ Len(dedup') <= DedupCapacity
         /\ expired' \subseteq Messages
         /\ \A j \in Inputs : Remembered(j)'
         /\ AtMostOnce'
<1>1. TypeOK /\ state \in [Inputs -> States] /\ AtMostOnce
      /\ \A j \in Inputs : state[j] \in Executing => MessageOf[j] \in ToSet(dedup) \cup expired
  BY DEF IInv, TypeOK, Remembered
<1>2. CASE \E s \in Echoed : Handled(i, s) /\ UNCHANGED <<memory, sessions>>
  <2>1. PICK s \in Echoed : Handled(i, s) /\ UNCHANGED memory BY <1>2
  <2>2. \A j \in Inputs : state'[j] \in Executing => state[j] \in Executing
    BY <1>1, <2>1 DEF Handled, Executing, Submitted, Echoed
  <2> QED BY <1>1, <2>1, <2>2 DEF AtMostOnce, Remembered, memory, TypeOK
<1>3. CASE ~Known(i) /\ Remember(i) /\ \E s \in {"busy", "waiting", "turn"} : Handled(i, s)
  <2>1. /\ dedup' \in Seq(Messages) /\ Len(dedup') <= DedupCapacity
        /\ expired' \subseteq Messages /\ expired \subseteq expired'
        /\ ToSet(dedup') \cup expired' = ToSet(dedup) \cup expired \cup {MessageOf[i]}
    BY <1>1, <1>3, RememberFacts
  <2>2. MessageOf[i] \notin ToSet(dedup) BY <1>3 DEF Known, ToSet
  <2>3. \A j \in Inputs : state'[j] \in Executing => j = i \/ state[j] \in Executing
    BY <1>1, <1>3 DEF Handled
  <2>4. \A j \in Inputs : state'[j] \in Executing => MessageOf[j] \in ToSet(dedup') \cup expired'
    BY <1>1, <2>1, <2>3
  <2>5. ASSUME NEW j \in Inputs, NEW k \in Inputs, j # k, MessageOf[j] = MessageOf[k],
               state'[j] \in Executing, state'[k] \in Executing
        PROVE  MessageOf[j] \in expired'
    <3>1. CASE j # i /\ k # i BY <1>1, <2>1, <2>3, <2>5, <3>1 DEF AtMostOnce
    <3>2. CASE j = i \/ k = i BY <1>1, <2>1, <2>2, <2>3, <2>5, <3>2
    <3> QED BY <3>1, <3>2
  <2> QED BY <2>1, <2>4, <2>5 DEF AtMostOnce, Remembered
<1> QED BY <1>1, <1>2, <1>3, HandleCases

(* The slots after a step that lets input i join, or leaves them alone. *)
LEMMA HandleSlots ==
  ASSUME IInv, NEW i \in Inputs, Handle(i), state[i] \in {"new", "queued"}
  PROVE  /\ backlog' \in [Conversations -> Seq(Inputs)]
         /\ active' \in [Conversations -> Seq(Inputs)]
         /\ open' = Submissions'
         /\ \A c \in Conversations : SlotHolds(c)'
         /\ \A j \in Inputs : InSlot(j)'
<1> DEFINE k == ConversationOf[i]
<1>1. /\ TypeOK /\ state \in [Inputs -> States] /\ open = Submissions
      /\ backlog \in [Conversations -> Seq(Inputs)] /\ active \in [Conversations -> Seq(Inputs)]
      /\ \A c \in Conversations : SlotHolds(c)
      /\ \A j \in Inputs : InSlot(j)
      /\ k \in Conversations /\ ConversationOf \in [Inputs -> Conversations]
  BY GatewayAssumption DEF IInv, TypeOK, GatewayAssumption
<1>2. CASE \E s \in Echoed : Handled(i, s) /\ UNCHANGED sessions
  BY <1>1, <1>2 DEF Handled, sessions, SlotHolds, InSlot, Submissions, Submitted, Echoed
<1>3. CASE Handled(i, "turn") /\ Queues!ArriveAndBegin(i)
  <2>1. /\ state' = [state EXCEPT ![i] = "turn"] /\ backlog' = backlog
        /\ active[k] = << >> /\ active' = [active EXCEPT ![k] = <<i>>]
        /\ open' = open \cup {i}
    BY <1>3 DEF Handled, Queues!ArriveAndBegin
  <2>2. \A c \in Conversations : i \notin ToSet(backlog[c]) BY <1>1 DEF SlotHolds
  <2>3. \A c \in Conversations : SlotHolds(c)' BY <1>1, <2>1, <2>2 DEF SlotHolds
  <2>4. open' = Submissions' BY <1>1, <2>1 DEF Submissions, Submitted
  <2>5. ASSUME NEW j \in Inputs
        PROVE  InSlot(j)'
    BY <1>1, <2>1 DEF InSlot
  <2> QED BY <1>1, <2>1, <2>3, <2>4, <2>5
<1>4. CASE Handled(i, "waiting") /\ Queues!Arrive(i)
  <2>1. /\ state' = [state EXCEPT ![i] = "waiting"] /\ active' = active
        /\ backlog' = [backlog EXCEPT ![k] = Append(backlog[k], i)]
        /\ open' = open \cup {i}
    BY <1>4 DEF Handled, Queues!Arrive
  <2>2. \A c \in Conversations : i \notin ToSet(backlog[c]) BY <1>1 DEF SlotHolds
  <2>3. /\ Append(backlog[k], i) \in Seq(Inputs)
        /\ ToSet(Append(backlog[k], i)) = ToSet(backlog[k]) \cup {i}
        /\ Distinct(Append(backlog[k], i))
    BY <1>1, <2>2, AppendFacts DEF SlotHolds
  <2>4. ASSUME NEW c \in Conversations PROVE SlotHolds(c)'
    <3>1. ToSet(backlog'[c]) \subseteq ToSet(backlog[c]) \cup {i} /\ Distinct(backlog'[c])
          /\ (c # k => backlog'[c] = backlog[c])
      BY <1>1, <2>1, <2>3 DEF SlotHolds
    <3>2. \A j \in ToSet(backlog'[c]) :
             ConversationOf[j] = c /\ state'[j] \in {"waiting", "killed"}
      BY <1>1, <2>1, <2>2, <3>1 DEF SlotHolds
    <3> QED BY <1>1, <2>1, <3>1, <3>2 DEF SlotHolds
  <2>5. open' = Submissions' BY <1>1, <2>1 DEF Submissions, Submitted
  <2>6. ASSUME NEW j \in Inputs
        PROVE  InSlot(j)'
    BY <1>1, <2>1, <2>3 DEF InSlot
  <2> QED BY <1>1, <2>1, <2>3, <2>4, <2>5, <2>6
<1> QED BY <1>1, <1>2, <1>3, <1>4, HandleCases DEF Echoed, Handled
-----------------------------------------------------------------------------
(* What most steps leave alone. *)

LEMMA Constants ==
  /\ ConversationOf \in [Inputs -> Conversations] /\ MessageOf \in [Inputs -> Messages]
  /\ Direct \subseteq Inputs
  /\ Concurrency \in Nat \ {0} /\ LaneSize \in Nat \ {0} /\ DedupCapacity \in Nat \ {0}
  /\ NoInput \notin Inputs
BY GatewayAssumption DEF GatewayAssumption

LEMMA MemoryKept ==
  ASSUME IInv, UNCHANGED memory,
         \A j \in Inputs : state'[j] \in Executing => state[j] \in Executing
  PROVE  AtMostOnce' /\ \A j \in Inputs : Remembered(j)'
BY DEF IInv, AtMostOnce, Remembered, memory

LEMMA SlotsKept ==
  ASSUME IInv, UNCHANGED sessions,
         \A j \in Inputs : state'[j] # state[j] =>
            state[j] \in {"new", "queued"} /\ state'[j] \notin Submitted
  PROVE  /\ open' = Submissions'
         /\ \A c \in Conversations : SlotHolds(c)'
         /\ \A j \in Inputs : InSlot(j)'
<1>1. \A j \in Inputs : state'[j] \in Submitted <=> state[j] \in Submitted
  BY DEF Submitted
<1>2. open' = Submissions' BY <1>1 DEF IInv, sessions, Submissions
<1>3. ASSUME NEW c \in Conversations PROVE SlotHolds(c)'
  <2>1. SlotHolds(c) /\ UNCHANGED sessions /\ backlog \in [Conversations -> Seq(Inputs)]
    BY DEF IInv, TypeOK
  <2>2. ToSet(backlog[c]) \subseteq Inputs BY <2>1 DEF ToSet
  <2>3. \A j \in ToSet(backlog[c]) : state'[j] = state[j] BY <2>1, <2>2 DEF SlotHolds
  <2> QED BY <2>1, <2>2, <2>3 DEF SlotHolds, sessions
<1>4. ASSUME NEW j \in Inputs PROVE InSlot(j)'
  <2>1. InSlot(j) BY DEF IInv
  <2> QED BY <2>1 DEF InSlot, sessions, Submitted
<1> QED BY <1>2, <1>3, <1>4

LEMMA LanesKept ==
  ASSUME IInv, UNCHANGED <<queue, alive, worker>>,
         \A j \in Inputs : state'[j] # state[j] =>
            \/ state[j] = "new" /\ (state'[j] \in Submitted => j \in Direct)
               /\ state'[j] # "queued"
            \/ state[j] \in Submitted /\ state'[j] \in Submitted \cup Echoed
  PROVE  /\ \A c \in Conversations : LaneHolds(c)'
         /\ \A j \in Inputs : InHand(j)'
<1>1. ASSUME NEW c \in Conversations PROVE LaneHolds(c)'
  <2>1. LaneHolds(c) BY DEF IInv
  <2> QED BY <2>1 DEF LaneHolds, Submitted, Echoed
<1>2. ASSUME NEW j \in Inputs PROVE InHand(j)'
  <2>1. InHand(j) BY DEF IInv
  <2> QED BY <2>1 DEF InHand, Submitted, Echoed
<1> QED BY <1>1, <1>2
-----------------------------------------------------------------------------
(* The channel's side: one lemma per step. *)

LEMMA OfferStep ==
  ASSUME IInv, NEW i \in Inputs, Offer(i)
  PROVE  IInv'
<1> DEFINE c == ConversationOf[i]
           full    == IF c \in table THEN Len(queue[c]) >= LaneSize
                      ELSE Cardinality(table) >= Concurrency
<1> USE Constants
<1>1. /\ TypeOK /\ c \in Conversations /\ i \notin Direct /\ state[i] = "new"
      /\ phase \in {"running", "channels"}
      /\ UNCHANGED <<stop, memory, sending, doomed, sessions>>
  BY DEF Offer, IInv
<1>2. /\ AtMostOnce' /\ \A j \in Inputs : Remembered(j)'
      /\ open' = Submissions' /\ \A d \in Conversations : SlotHolds(d)'
      /\ \A j \in Inputs : InSlot(j)'
  <2>1. state' = [state EXCEPT ![i] = "dropped"] \/ state' = [state EXCEPT ![i] = "queued"]
    BY DEF Offer, Set
  <2>2. \A j \in Inputs : state'[j] # state[j] => state[j] = "new" /\ state'[j] \in {"dropped", "queued"}
    BY <1>1, <2>1 DEF TypeOK
  <2>3. \A j \in Inputs : state'[j] \in Executing => state[j] \in Executing
    BY <2>2 DEF Executing, Submitted
  <2>4. \A j \in Inputs : state'[j] # state[j] =>
           state[j] \in {"new", "queued"} /\ state'[j] \notin Submitted
    BY <2>2 DEF Submitted
  <2> QED BY <1>1, <2>3, <2>4, MemoryKept, SlotsKept
<1>3. CASE full
  <2>1. state' = [state EXCEPT ![i] = "dropped"] /\ pump' = i /\ UNCHANGED lanes
    BY <1>3 DEF Offer, Set
  <2>2. TypeOK' BY <1>1, <2>1 DEF TypeOK, stop, lanes, memory, sessions, States
  <2>3. StopInOrder'
    BY <1>1, <2>1 DEF IInv, TypeOK, StopInOrder, Submissions, Submitted, Emptied, stop, lanes
  <2>4. TableHolds' BY <1>1, <2>1 DEF IInv, TableHolds, stop, lanes
  <2>5. /\ \A d \in Conversations : LaneHolds(d)'
        /\ \A j \in Inputs : InHand(j)'
    BY <1>1, <2>1, LanesKept DEF TypeOK, lanes, Submitted
  <2> QED BY <1>2, <2>2, <2>3, <2>4, <2>5 DEF IInv
<1>4. CASE ~full
  <2>1. /\ table' = table \cup {c}
        /\ alive' = [alive EXCEPT ![c] = @ \/ c \notin table]
        /\ queue' = [queue EXCEPT ![c] = Append(@, i)]
        /\ state' = [state EXCEPT ![i] = "queued"]
        /\ UNCHANGED <<pump, worker>>
    BY <1>4 DEF Offer, Set
  <2>2. /\ TableHolds /\ LaneHolds(c) /\ table = {d \in Conversations : alive[d]}
        /\ queue[c] \in Seq(Inputs) /\ i \notin ToSet(queue[c])
    BY <1>1 DEF IInv, TableHolds, TypeOK, Open, LaneHolds
  <2>3. /\ Append(queue[c], i) \in Seq(Inputs) /\ Len(Append(queue[c], i)) = Len(queue[c]) + 1
        /\ ToSet(Append(queue[c], i)) = ToSet(queue[c]) \cup {i}
        /\ Distinct(Append(queue[c], i))
    BY <2>2, AppendFacts DEF LaneHolds
  <2>4. Len(queue[c]) < LaneSize
    <3>1. c \notin table => queue[c] = << >> BY <1>1, <2>2 DEF LaneHolds
    <3>2. Len(queue[c]) \in Nat BY <2>2
    <3> QED BY <1>4, <3>1, <3>2, EmptyFacts
  <2>5. TypeOK'
    <3>1. \A d \in Conversations : Len(queue'[d]) <= LaneSize
      BY <1>1, <2>1, <2>2, <2>3, <2>4 DEF TypeOK
    <3>2. queue' \in [Conversations -> Seq(Inputs)] BY <1>1, <2>1, <2>3 DEF TypeOK
    <3>3. alive' \in [Conversations -> BOOLEAN] BY <1>1, <2>1 DEF TypeOK
    <3> QED BY <1>1, <2>1, <3>1, <3>2, <3>3 DEF TypeOK, stop, memory, sessions, States
  <2>6. StopInOrder'
    BY <1>1, <2>1 DEF IInv, TypeOK, StopInOrder, Submissions, Submitted, Emptied, stop
  <2>7. TableHolds'
    <3>1. IsFiniteSet(table') /\ Cardinality(table') <= Concurrency
      <4>1. IsFiniteSet(table) /\ Cardinality(table) \in Nat /\ Cardinality(table) <= Concurrency
        BY <2>2, FS_CardinalityType DEF TableHolds
      <4>2. /\ IsFiniteSet(table \cup {c})
            /\ Cardinality(table \cup {c}) = IF c \in table THEN Cardinality(table) ELSE Cardinality(table) + 1
        BY <4>1, FS_AddElement
      <4> QED BY <1>4, <2>1, <4>1, <4>2
    <3>2. table' = {d \in Conversations : alive'[d]}
      <4>1. alive'[c] BY <1>1, <2>1, <2>2 DEF TypeOK
      <4>2. \A d \in Conversations \ {c} : alive'[d] = alive[d] BY <1>1, <2>1 DEF TypeOK
      <4> QED BY <1>1, <2>1, <2>2, <4>1, <4>2
    <3> QED BY <3>1, <3>2 DEF TableHolds
  <2>8. ASSUME NEW d \in Conversations PROVE LaneHolds(d)'
    <3>1. LaneHolds(d) BY DEF IInv
    <3>2. CASE d = c
      <4>1. alive'[c] BY <1>1, <2>1, <2>2 DEF TypeOK
      <4>2. queue'[c] = Append(queue[c], i) BY <1>1, <2>1 DEF TypeOK
      <4>3. worker'[c] = worker[c] /\ (worker[c] # NoInput => worker[c] # i)
        BY <1>1, <2>1, <2>2 DEF LaneHolds, Submitted, Echoed
      <4> QED BY <1>1, <2>1, <2>2, <2>3, <3>1, <3>2, <4>1, <4>2, <4>3 DEF LaneHolds, TypeOK
    <3>3. CASE d # c
      BY <1>1, <2>1, <3>1, <3>3 DEF LaneHolds, TypeOK, Submitted, Echoed
    <3> QED BY <3>2, <3>3
  <2>9. ASSUME NEW j \in Inputs PROVE InHand(j)'
    <3>1. InHand(j) BY DEF IInv
    <3> QED BY <1>1, <2>1, <2>3, <3>1 DEF InHand, TypeOK, Submitted
  <2> QED BY <1>2, <2>5, <2>6, <2>7, <2>8, <2>9 DEF IInv
<1> QED BY <1>3, <1>4

LEMMA PumpEchoedStep ==
  ASSUME IInv, PumpEchoed
  PROVE  IInv'
<1>1. pump' = NoInput /\ UNCHANGED <<stop, lanes, memory, state, sending, doomed, sessions>>
  BY DEF PumpEchoed
<1>2. TypeOK' BY <1>1 DEF IInv, TypeOK, stop, lanes, memory, sessions
<1>3. StopInOrder' BY <1>1 DEF IInv, StopInOrder, Submissions, stop, lanes
<1>4. TableHolds' BY <1>1 DEF IInv, TableHolds, stop, lanes
<1>5. /\ \A d \in Conversations : LaneHolds(d)'
      /\ \A j \in Inputs : InHand(j)'
  BY <1>1, LanesKept DEF lanes
<1> QED BY <1>1, <1>2, <1>3, <1>4, <1>5, MemoryKept, SlotsKept DEF IInv
LEMMA SubmitStep ==
  ASSUME IInv, NEW i \in Inputs, Submit(i)
  PROVE  IInv'
<1> USE Constants
<1>1. /\ TypeOK /\ i \in Direct /\ state[i] = "new" /\ Handle(i)
      /\ UNCHANGED <<stop, pump, lanes, sending, doomed>>
  BY DEF Submit, IInv
<1>2. PICK s : Handled(i, s) BY <1>1, HandleCases
<1>3. /\ state' = [state EXCEPT ![i] = s] /\ s \in Echoed \cup {"waiting", "turn"}
      /\ s \in Submitted => phase = "running"
      /\ state' \in [Inputs -> States]
      /\ Submissions' \subseteq Submissions \cup {i}
      /\ phase # "running" => Submissions' = Submissions
  BY <1>1, <1>2 DEF Handled, Submitted, Echoed, States, TypeOK, Submissions, IInv, StopInOrder
<1>4. /\ dedup' \in Seq(Messages) /\ Len(dedup') <= DedupCapacity /\ expired' \subseteq Messages
      /\ AtMostOnce' /\ \A j \in Inputs : Remembered(j)'
  BY <1>1, HandleMemory
<1>5. /\ backlog' \in [Conversations -> Seq(Inputs)] /\ active' \in [Conversations -> Seq(Inputs)]
      /\ open' = Submissions'
      /\ \A d \in Conversations : SlotHolds(d)'
      /\ \A j \in Inputs : InSlot(j)'
  BY <1>1, HandleSlots
<1>6. TypeOK'
  <2>1. open' \subseteq Inputs BY <1>5 DEF Submissions
  <2> QED BY <1>1, <1>3, <1>4, <1>5, <2>1 DEF TypeOK, stop, lanes
<1>7. StopInOrder'
  <2>1. StopInOrder BY DEF IInv
  <2>2. \A j \in Inputs : state'[j] = "killed" => state[j] = "killed"
    BY <1>1, <1>3 DEF TypeOK, Echoed
  <2> QED BY <1>1, <1>3, <2>1, <2>2 DEF StopInOrder, stop, lanes, Emptied
<1>8. TableHolds' BY <1>1 DEF IInv, TableHolds, stop, lanes
<1>9. /\ \A d \in Conversations : LaneHolds(d)'
      /\ \A j \in Inputs : InHand(j)'
  BY <1>1, <1>3, LanesKept DEF TypeOK, lanes, Echoed
<1> QED BY <1>4, <1>5, <1>6, <1>7, <1>8, <1>9 DEF IInv

LEMMA TakeNextStep ==
  ASSUME IInv, NEW c \in Conversations, TakeNext(c)
  PROVE  IInv'
<1> DEFINE i == Head(queue[c])
<1> USE Constants
<1>1. /\ TypeOK /\ alive[c] /\ worker[c] = NoInput /\ queue[c] # << >> /\ Handle(i)
      /\ queue' = [queue EXCEPT ![c] = Tail(@)]
      /\ worker' = [worker EXCEPT ![c] = i]
      /\ UNCHANGED <<stop, pump, table, alive, sending, doomed>>
  BY DEF TakeNext, IInv
<1>2. /\ queue[c] \in Seq(Inputs) /\ LaneHolds(c)
      /\ i \in ToSet(queue[c]) /\ Tail(queue[c]) \in Seq(Inputs)
      /\ Len(Tail(queue[c])) = Len(queue[c]) - 1
      /\ ToSet(queue[c]) = {i} \cup ToSet(Tail(queue[c]))
      /\ Distinct(Tail(queue[c])) /\ i \notin ToSet(Tail(queue[c]))
  <2>1. queue[c] \in Seq(Inputs) /\ LaneHolds(c) BY <1>1 DEF IInv, TypeOK
  <2> QED BY <1>1, <2>1, TailFacts DEF LaneHolds
<1>3. i \in Inputs \ Direct /\ ConversationOf[i] = c /\ state[i] = "queued"
  BY <1>2 DEF LaneHolds
<1> HIDE DEF i
<1>4. PICK s : Handled(i, s) BY <1>1, <1>3, HandleCases
<1>5. /\ state' = [state EXCEPT ![i] = s] /\ s \in Echoed \cup {"waiting", "turn"}
      /\ s \in Submitted => phase = "running"
      /\ state' \in [Inputs -> States]
      /\ phase # "running" => Submissions' = Submissions
  BY <1>1, <1>3, <1>4 DEF Handled, Submitted, Echoed, States, TypeOK, Submissions, IInv, StopInOrder
<1>6. /\ dedup' \in Seq(Messages) /\ Len(dedup') <= DedupCapacity /\ expired' \subseteq Messages
      /\ AtMostOnce' /\ \A j \in Inputs : Remembered(j)'
  BY <1>1, <1>3, HandleMemory
<1>7. /\ backlog' \in [Conversations -> Seq(Inputs)] /\ active' \in [Conversations -> Seq(Inputs)]
      /\ open' = Submissions'
      /\ \A d \in Conversations : SlotHolds(d)'
      /\ \A j \in Inputs : InSlot(j)'
  BY <1>1, <1>3, HandleSlots
<1>8. TypeOK'
  <2>1. open' \subseteq Inputs BY <1>7 DEF Submissions
  <2>2. Len(queue[c]) \in Nat BY <1>2
  <2>3. /\ queue' \in [Conversations -> Seq(Inputs)]
        /\ \A d \in Conversations : Len(queue'[d]) <= LaneSize
    BY <1>1, <1>2, <2>2 DEF TypeOK
  <2> QED BY <1>1, <1>3, <1>5, <1>6, <1>7, <2>1, <2>3 DEF TypeOK, stop
<1>9. StopInOrder'
  <2>1. StopInOrder BY DEF IInv
  <2>2. \A j \in Inputs : state'[j] = "killed" => state[j] = "killed"
    BY <1>1, <1>5 DEF TypeOK, Echoed
  <2>3. phase \notin Emptied BY <1>1, <2>1 DEF StopInOrder
  <2> QED BY <1>1, <1>5, <2>1, <2>2, <2>3 DEF StopInOrder, stop, Emptied
<1>10. TableHolds' BY <1>1 DEF IInv, TableHolds, stop
<1>11. ASSUME NEW d \in Conversations PROVE LaneHolds(d)'
  <2>1. LaneHolds(d) BY DEF IInv
  <2>2. CASE d = c
    <3>1. queue'[c] = Tail(queue[c]) /\ worker'[c] = i /\ alive'[c] BY <1>1 DEF TypeOK
    <3>2. state'[i] \in Submitted \cup Echoed BY <1>1, <1>3, <1>5 DEF TypeOK, Submitted
    <3>3. \A j \in ToSet(Tail(queue[c])) :
             j \in Inputs \ Direct /\ ConversationOf[j] = c /\ state'[j] = "queued"
      BY <1>1, <1>2, <1>5 DEF LaneHolds, TypeOK
    <3> QED BY <1>2, <1>3, <2>2, <3>1, <3>2, <3>3 DEF LaneHolds
  <2>3. CASE d # c
    <3>1. queue'[d] = queue[d] /\ worker'[d] = worker[d] /\ alive'[d] = alive[d]
      BY <1>1, <2>3 DEF TypeOK
    <3>2. \A j \in ToSet(queue[d]) : j # i /\ state'[j] = state[j]
      BY <1>1, <1>3, <1>5, <2>1, <2>3 DEF LaneHolds, TypeOK
    <3>3. worker[d] # NoInput => worker[d] # i /\ state'[worker[d]] = state[worker[d]]
      BY <1>1, <1>3, <1>5, <2>1, <2>3 DEF LaneHolds, TypeOK
    <3> QED BY <2>1, <3>1, <3>2, <3>3 DEF LaneHolds
  <2> QED BY <2>2, <2>3
<1>12. ASSUME NEW j \in Inputs PROVE InHand(j)'
  <2>1. InHand(j) BY DEF IInv
  <2>2. CASE j = i BY <1>1, <1>3, <1>5, <2>2 DEF InHand, TypeOK, Echoed
  <2>3. CASE j # i
    <3>1. state'[j] = state[j] BY <1>5, <2>3 DEF TypeOK
    <3>2. state[j] \in Submitted /\ j \notin Direct => ConversationOf[j] # c
      BY <1>1, <2>1 DEF InHand
    <3> QED BY <1>1, <1>2, <1>3, <2>1, <2>3, <3>1, <3>2 DEF InHand, TypeOK
  <2> QED BY <2>2, <2>3
<1> QED BY <1>6, <1>7, <1>8, <1>9, <1>10, <1>11, <1>12 DEF IInv

LEMMA LeaveLaneStep ==
  ASSUME IInv, NEW c \in Conversations, LeaveLane(c)
  PROVE  IInv'
<1> USE Constants
<1>1. /\ TypeOK /\ alive[c] /\ worker[c] = NoInput /\ queue[c] = << >>
      /\ alive' = [alive EXCEPT ![c] = FALSE]
      /\ table' = table \ {c}
      /\ UNCHANGED <<stop, pump, queue, worker, memory, state, sending, doomed, sessions>>
  BY DEF LeaveLane, IInv
<1>2. TypeOK' BY <1>1 DEF TypeOK, stop, memory, sessions
<1>3. StopInOrder' BY <1>1 DEF IInv, TypeOK, StopInOrder, Submissions, stop
<1>4. TableHolds'
  <2>1. TableHolds BY DEF IInv
  <2>2. /\ IsFiniteSet(table') /\ Cardinality(table') \in Nat
        /\ Cardinality(table') <= Cardinality(table) /\ Cardinality(table) \in Nat
    BY <1>1, <2>1, FS_Subset, FS_CardinalityType DEF TableHolds
  <2>3. phase' \in Open => table' = {d \in Conversations : alive'[d]}
    <3>1. ~alive'[c] /\ \A d \in Conversations \ {c} : alive'[d] = alive[d]
      BY <1>1 DEF TypeOK
    <3> QED BY <1>1, <2>1, <3>1 DEF TableHolds, stop
  <2> QED BY <2>1, <2>2, <2>3 DEF TableHolds
<1>5. ASSUME NEW d \in Conversations PROVE LaneHolds(d)'
  <2>1. LaneHolds(d) BY DEF IInv
  <2> QED BY <1>1, <2>1 DEF LaneHolds, TypeOK
<1>6. ASSUME NEW j \in Inputs PROVE InHand(j)'
  <2>1. InHand(j) BY DEF IInv
  <2> QED BY <1>1, <2>1 DEF InHand
<1> QED BY <1>1, <1>2, <1>3, <1>4, <1>5, <1>6, MemoryKept, SlotsKept DEF IInv
-----------------------------------------------------------------------------
(* The session's side. *)

(* The holder of a slot gives it back. *)
LEMMA SlotFreed ==
  ASSUME IInv, NEW i \in Inputs, state[i] \in {"turn", "refused"},
         Queues!End(ConversationOf[i]),
         NEW s \in States \ Submitted, state' = [state EXCEPT ![i] = s]
  PROVE  /\ backlog' \in [Conversations -> Seq(Inputs)]
         /\ active' \in [Conversations -> Seq(Inputs)]
         /\ open' = Submissions'
         /\ \A c \in Conversations : SlotHolds(c)'
         /\ \A j \in Inputs : InSlot(j)'
<1> DEFINE k == ConversationOf[i]
<1> USE Constants
<1>1. /\ TypeOK /\ k \in Conversations /\ open = Submissions /\ active[k] = <<i>>
      /\ state \in [Inputs -> States]
      /\ backlog \in [Conversations -> Seq(Inputs)] /\ active \in [Conversations -> Seq(Inputs)]
  BY DEF IInv, InSlot, TypeOK
<1> HIDE DEF k
<1>2. /\ active' = [active EXCEPT ![k] = << >>] /\ backlog' = backlog
      /\ open' = open \ {i}
  <2>1. Queues!Members(<<i>>) = {i}
    <3>1. DOMAIN <<i>> = {1} /\ <<i>>[1] = i OBVIOUS
    <3> QED BY <3>1 DEF Queues!Members
  <2> QED BY <1>1, <2>1 DEF Queues!End, k
<1>3. open' = Submissions' BY <1>1, <1>2 DEF Submissions
<1>4. ASSUME NEW c \in Conversations PROVE SlotHolds(c)'
  <2>1. SlotHolds(c) BY DEF IInv
  <2>2. \A j \in ToSet(backlog[c]) : j # i /\ state'[j] = state[j]
    <3>1. ToSet(backlog[c]) \subseteq Inputs BY <1>1 DEF ToSet
    <3> QED BY <1>1, <2>1, <3>1 DEF SlotHolds
  <2>3. CASE c = k BY <1>1, <1>2, <2>1, <2>2, <2>3 DEF SlotHolds
  <2>4. CASE c # k
    <3>1. active'[c] = active[c] BY <1>1, <1>2, <2>4
    <3>2. ASSUME active[c] # << >>
          PROVE  \E j \in Inputs : /\ active[c] = <<j>> /\ ConversationOf[j] = c
                                   /\ state'[j] \in {"turn", "refused"}
      <4>1. PICK j \in Inputs : /\ active[c] = <<j>> /\ ConversationOf[j] = c
                                /\ state[j] \in {"turn", "refused"}
        BY <2>1, <3>2 DEF SlotHolds
      <4>2. j # i BY <2>4, <4>1 DEF k
      <4> QED BY <1>1, <4>1, <4>2
    <3> QED BY <1>2, <2>1, <2>2, <3>1, <3>2 DEF SlotHolds
  <2> QED BY <2>3, <2>4
<1>5. ASSUME NEW j \in Inputs PROVE InSlot(j)'
  <2>1. InSlot(j) BY DEF IInv
  <2>2. CASE j = i BY <1>1, <2>2 DEF InSlot, Submitted
  <2>3. CASE j # i
    <3>1. state'[j] = state[j] BY <1>1, <2>3
    <3>2. state[j] \in {"turn", "refused"} => ConversationOf[j] # k
      <4>1. <<i>>[1] = i /\ <<j>>[1] = j OBVIOUS
      <4> QED BY <1>1, <2>1, <2>3, <4>1 DEF InSlot
    <3> QED BY <1>1, <1>2, <2>1, <3>1, <3>2 DEF InSlot
  <2> QED BY <2>2, <2>3
<1> QED BY <1>1, <1>2, <1>3, <1>4, <1>5

LEMMA GrantStep ==
  ASSUME IInv, NEW i \in Inputs, Grant(i)
  PROVE  IInv'
<1> DEFINE k == ConversationOf[i]
           s == IF accepting THEN "turn" ELSE "refused"
<1> USE Constants
<1>1. /\ TypeOK /\ k \in Conversations /\ open = Submissions
      /\ state[i] = "waiting" /\ state' = [state EXCEPT ![i] = s]
      /\ i = Head(backlog[k]) /\ active[k] = << >> /\ backlog[k] # << >>
      /\ active' = [active EXCEPT ![k] = <<i>>]
      /\ backlog' = [backlog EXCEPT ![k] = Tail(backlog[k])]
      /\ UNCHANGED <<open, stop, pump, lanes, memory, sending, doomed>>
  BY DEF Grant, Set, IInv, Queues!BeginOldest
<1> HIDE DEF k
<1>2. s \in {"turn", "refused"} OBVIOUS
<1> HIDE DEF s
<1>3. /\ state \in [Inputs -> States] /\ state'[i] = s
      /\ \A j \in Inputs \ {i} : state'[j] = state[j]
      /\ backlog \in [Conversations -> Seq(Inputs)] /\ active \in [Conversations -> Seq(Inputs)]
  BY <1>1 DEF TypeOK
<1>4. backlog[k] \in Seq(Inputs) /\ SlotHolds(k) BY <1>1 DEF IInv, TypeOK
<1>5. /\ Tail(backlog[k]) \in Seq(Inputs)
      /\ ToSet(backlog[k]) = {i} \cup ToSet(Tail(backlog[k]))
      /\ Distinct(Tail(backlog[k])) /\ i \notin ToSet(Tail(backlog[k]))
  BY <1>1, <1>4, TailFacts DEF SlotHolds
<1>6. Submissions' = Submissions BY <1>1, <1>2, <1>3 DEF Submissions, Submitted
<1>7. TypeOK'
  <2>1. state' \in [Inputs -> States] BY <1>1, <1>2, <1>3 DEF States, Submitted
  <2>2. /\ active' \in [Conversations -> Seq(Inputs)] /\ backlog' \in [Conversations -> Seq(Inputs)]
    BY <1>1, <1>3, <1>5
  <2> QED BY <1>1, <2>1, <2>2 DEF TypeOK, stop, lanes, memory
<1>8. StopInOrder'
  <2>1. StopInOrder BY DEF IInv
  <2>2. \A j \in Inputs : state'[j] = "killed" => state[j] = "killed" BY <1>2, <1>3
  <2> QED BY <1>1, <1>6, <2>1, <2>2 DEF StopInOrder, stop, lanes
<1>9. TableHolds' BY <1>1 DEF IInv, TableHolds, stop, lanes
<1>10. /\ \A d \in Conversations : LaneHolds(d)'
       /\ \A j \in Inputs : InHand(j)'
  BY <1>1, <1>2, <1>3, LanesKept DEF lanes, Submitted
<1>11. AtMostOnce' /\ \A j \in Inputs : Remembered(j)'
  <2>1. \A j \in Inputs : state'[j] \in Executing => state[j] \in Executing
    BY <1>1, <1>3 DEF Executing, Submitted
  <2> QED BY <1>1, <2>1, MemoryKept
<1>12. ASSUME NEW c \in Conversations PROVE SlotHolds(c)'
  <2>1. SlotHolds(c) BY DEF IInv
  <2>2. ToSet(backlog[c]) \subseteq Inputs BY <1>3 DEF ToSet
  <2>3. CASE c = k
    <3>1. backlog'[c] = Tail(backlog[k]) /\ active'[c] = <<i>> BY <1>1, <1>3, <2>3
    <3>2. \A j \in ToSet(Tail(backlog[k])) :
            ConversationOf[j] = c /\ state'[j] \in {"waiting", "killed"}
      BY <1>3, <1>5, <2>1, <2>2, <2>3 DEF SlotHolds
    <3> QED BY <1>2, <1>3, <1>5, <2>3, <3>1, <3>2 DEF SlotHolds, k
  <2>4. CASE c # k
    <3>1. backlog'[c] = backlog[c] /\ active'[c] = active[c] BY <1>1, <1>3, <2>4
    <3>2. \A j \in ToSet(backlog[c]) : j # i /\ state'[j] = state[j]
      BY <1>3, <2>1, <2>2, <2>4 DEF SlotHolds, k
    <3>3. ASSUME active[c] # << >>
          PROVE  \E j \in Inputs : /\ active[c] = <<j>> /\ ConversationOf[j] = c
                                   /\ state'[j] \in {"turn", "refused"}
      <4>1. PICK j \in Inputs : /\ active[c] = <<j>> /\ ConversationOf[j] = c
                                /\ state[j] \in {"turn", "refused"}
        BY <2>1, <3>3 DEF SlotHolds
      <4> QED BY <1>1, <1>3, <4>1
    <3> QED BY <2>1, <3>1, <3>2, <3>3 DEF SlotHolds
  <2> QED BY <2>3, <2>4
<1>13. ASSUME NEW j \in Inputs PROVE InSlot(j)'
  <2>1. InSlot(j) BY DEF IInv
  <2>2. CASE j = i BY <1>1, <1>2, <1>3, <2>2 DEF InSlot, k
  <2>3. CASE j # i /\ ConversationOf[j] = k
    <3>1. state[j] \notin {"turn", "refused"}
      <4>1. <<j>> # << >> OBVIOUS
      <4> QED BY <1>1, <2>1, <2>3, <4>1 DEF InSlot
    <3> QED BY <1>1, <1>3, <1>5, <2>1, <2>3, <3>1 DEF InSlot
  <2>4. CASE j # i /\ ConversationOf[j] # k
    BY <1>1, <1>3, <2>1, <2>4 DEF InSlot
  <2> QED BY <2>2, <2>3, <2>4
<1> QED BY <1>1, <1>6, <1>7, <1>8, <1>9, <1>10, <1>11, <1>12, <1>13 DEF IInv
(* deliver() is entered or left; an echo is out of the pump; an entry of the *)
(* duplicate table expires: no input changes its place.                    *)
LEMMA StillStep ==
  ASSUME IInv, UNCHANGED <<stop, lanes, state, doomed, sessions>>,
         pump' \in Inputs \cup {NoInput}, sending' \subseteq Inputs,
         dedup' \in Seq(Messages), Len(dedup') <= DedupCapacity, expired' \subseteq Messages,
         expired \subseteq expired',
         ToSet(dedup') \cup expired' = ToSet(dedup) \cup expired
  PROVE  IInv'
<1>1. TypeOK' BY DEF IInv, TypeOK, stop, lanes, sessions
<1>2. StopInOrder' BY DEF IInv, StopInOrder, Submissions, stop, lanes
<1>3. TableHolds' BY DEF IInv, TableHolds, stop, lanes
<1>4. /\ \A d \in Conversations : LaneHolds(d)'
      /\ \A j \in Inputs : InHand(j)'
  BY LanesKept DEF lanes
<1>5. AtMostOnce' /\ \A j \in Inputs : Remembered(j)'
  BY DEF IInv, AtMostOnce, Remembered
<1> QED BY <1>1, <1>2, <1>3, <1>4, <1>5, SlotsKept DEF IInv

LEMMA SendStep ==
  ASSUME IInv, NEW i \in Inputs, Send(i) \/ Sent(i)
  PROVE  IInv'
<1>1. UNCHANGED <<stop, pump, lanes, memory, state, doomed, sessions>> BY DEF Send, Sent
<1>2. sending' \subseteq Inputs BY DEF Send, Sent, IInv, TypeOK
<1> QED BY <1>1, <1>2, StillStep DEF IInv, TypeOK, memory

LEMMA ExpireStep ==
  ASSUME IInv, Expire
  PROVE  IInv'
<1>1. /\ dedup # << >> /\ dedup' = Tail(dedup) /\ expired' = expired \cup {Head(dedup)}
      /\ UNCHANGED <<stop, pump, lanes, state, sending, doomed, sessions>>
      /\ dedup \in Seq(Messages) /\ Len(dedup) <= DedupCapacity /\ Len(dedup) \in Nat
      /\ DedupCapacity \in Nat \ {0} /\ expired \subseteq Messages
  BY Constants DEF Expire, IInv, TypeOK
<1>2. /\ Head(dedup) \in Messages /\ Tail(dedup) \in Seq(Messages)
      /\ Len(Tail(dedup)) = Len(dedup) - 1
      /\ ToSet(dedup) = {Head(dedup)} \cup ToSet(Tail(dedup))
  BY <1>1, TailFacts
<1>3. Len(dedup') <= DedupCapacity BY <1>1, <1>2
<1> QED BY <1>1, <1>2, <1>3, StillStep DEF IInv, TypeOK

(* The turn has ended; whoever awaited it is free. *)
LEMMA TurnEndsStep ==
  ASSUME IInv, NEW i \in Inputs, TurnEnds(i)
  PROVE  IInv'
<1> USE Constants
<1>1. /\ TypeOK /\ state[i] = "turn" /\ Queues!End(ConversationOf[i])
      /\ state' = [state EXCEPT ![i] = "done"]
      /\ worker' = [c \in Conversations |-> IF worker[c] = i THEN NoInput ELSE worker[c]]
      /\ UNCHANGED <<stop, pump, table, queue, alive, memory, sending, doomed>>
  BY DEF TurnEnds, Set, WorkerFreed, IInv
<1>2. "done" \in States \ Submitted BY DEF States, Submitted
<1>3. /\ backlog' \in [Conversations -> Seq(Inputs)] /\ active' \in [Conversations -> Seq(Inputs)]
      /\ open' = Submissions'
      /\ \A c \in Conversations : SlotHolds(c)'
      /\ \A j \in Inputs : InSlot(j)'
  BY <1>1, <1>2, SlotFreed
<1>4. /\ state' \in [Inputs -> States] /\ state'[i] = "done"
      /\ \A j \in Inputs \ {i} : state'[j] = state[j]
      /\ Submissions' \subseteq Submissions
  BY <1>1, <1>2 DEF TypeOK, Submissions, Submitted
<1>5. TypeOK'
  <2>1. open' \subseteq Inputs BY <1>3 DEF Submissions
  <2>2. worker' \in [Conversations -> Inputs \cup {NoInput}] BY <1>1 DEF TypeOK
  <2> QED BY <1>1, <1>3, <1>4, <2>1, <2>2 DEF TypeOK, stop, memory
<1>6. StopInOrder'
  <2>1. StopInOrder BY DEF IInv
  <2>2. \A j \in Inputs : state'[j] = "killed" => state[j] = "killed" BY <1>4
  <2> QED BY <1>1, <1>4, <2>1, <2>2 DEF StopInOrder, stop
<1>7. TableHolds' BY <1>1 DEF IInv, TableHolds, stop
<1>8. ASSUME NEW c \in Conversations PROVE LaneHolds(c)'
  <2>1. LaneHolds(c) BY DEF IInv
  <2>2. \A j \in ToSet(queue[c]) : j # i BY <1>1, <2>1 DEF LaneHolds
  <2>3. worker'[c] # NoInput => worker'[c] = worker[c] /\ worker[c] # i BY <1>1
  <2> QED BY <1>1, <1>4, <2>1, <2>2, <2>3 DEF LaneHolds
<1>9. ASSUME NEW j \in Inputs PROVE InHand(j)'
  <2>1. InHand(j) /\ ConversationOf[j] \in Conversations BY DEF IInv
  <2>2. CASE j = i BY <1>4, <2>2 DEF InHand, Submitted
  <2>3. CASE j # i BY <1>1, <1>4, <2>1, <2>3 DEF InHand
  <2> QED BY <2>2, <2>3
<1>10. AtMostOnce' /\ \A j \in Inputs : Remembered(j)'
  <2>1. \A j \in Inputs : state'[j] \in Executing => state[j] \in Executing
    BY <1>1, <1>4 DEF Executing, Submitted
  <2> QED BY <1>1, <2>1, MemoryKept
<1> QED BY <1>3, <1>5, <1>6, <1>7, <1>8, <1>9, <1>10 DEF IInv

(* The "instance stopping" receipt is on its way back. *)
LEMMA RefusalEndsStep ==
  ASSUME IInv, NEW i \in Inputs, RefusalEnds(i)
  PROVE  IInv'
<1> USE Constants
<1>1. /\ TypeOK /\ state[i] = "refused" /\ Queues!End(ConversationOf[i])
      /\ state' = [state EXCEPT ![i] = "stopping"]
      /\ UNCHANGED <<stop, pump, lanes, memory, sending, doomed>>
  BY DEF RefusalEnds, Set, IInv
<1>2. "stopping" \in States \ Submitted BY DEF States, Submitted, Echoed
<1>3. /\ backlog' \in [Conversations -> Seq(Inputs)] /\ active' \in [Conversations -> Seq(Inputs)]
      /\ open' = Submissions'
      /\ \A c \in Conversations : SlotHolds(c)'
      /\ \A j \in Inputs : InSlot(j)'
  BY <1>1, <1>2, SlotFreed
<1>4. /\ state' \in [Inputs -> States] /\ state'[i] = "stopping"
      /\ \A j \in Inputs \ {i} : state'[j] = state[j]
      /\ Submissions' \subseteq Submissions
  BY <1>1, <1>2 DEF TypeOK, Submissions, Submitted
<1>5. TypeOK'
  <2>1. open' \subseteq Inputs BY <1>3 DEF Submissions
  <2> QED BY <1>1, <1>3, <1>4, <2>1 DEF TypeOK, stop, lanes, memory
<1>6. StopInOrder'
  <2>1. StopInOrder BY DEF IInv
  <2>2. \A j \in Inputs : state'[j] = "killed" => state[j] = "killed" BY <1>4
  <2> QED BY <1>1, <1>4, <2>1, <2>2 DEF StopInOrder, stop, lanes
<1>7. TableHolds' BY <1>1 DEF IInv, TableHolds, stop, lanes
<1>8. /\ \A d \in Conversations : LaneHolds(d)'
      /\ \A j \in Inputs : InHand(j)'
  BY <1>1, <1>4, LanesKept DEF lanes, Submitted, Echoed
<1>9. AtMostOnce' /\ \A j \in Inputs : Remembered(j)'
  <2>1. \A j \in Inputs : state'[j] \in Executing => state[j] \in Executing
    BY <1>4 DEF Executing, Submitted
  <2> QED BY <1>1, <2>1, MemoryKept
<1> QED BY <1>3, <1>5, <1>6, <1>7, <1>8, <1>9 DEF IInv

(* The sender was told; the worker looks at its lane again. *)
LEMMA WorkerEchoedStep ==
  ASSUME IInv, NEW i \in Inputs, WorkerEchoed(i)
  PROVE  IInv'
<1> USE Constants
<1>1. /\ TypeOK /\ state[i] \in Echoed
      /\ worker' = [c \in Conversations |-> IF worker[c] = i THEN NoInput ELSE worker[c]]
      /\ UNCHANGED <<stop, pump, table, queue, alive, memory, state, sending, doomed, sessions>>
  BY DEF WorkerEchoed, WorkerFreed, IInv
<1>2. TypeOK' BY <1>1 DEF TypeOK, stop, memory, sessions
<1>3. StopInOrder' BY <1>1 DEF IInv, StopInOrder, Submissions, stop
<1>4. TableHolds' BY <1>1 DEF IInv, TableHolds, stop
<1>5. ASSUME NEW c \in Conversations PROVE LaneHolds(c)'
  <2>1. LaneHolds(c) BY DEF IInv
  <2>2. worker'[c] # NoInput => worker'[c] = worker[c] BY <1>1
  <2> QED BY <1>1, <2>1, <2>2 DEF LaneHolds
<1>6. ASSUME NEW j \in Inputs PROVE InHand(j)'
  <2>1. InHand(j) /\ ConversationOf[j] \in Conversations BY DEF IInv
  <2>2. state[j] \in Submitted => j # i BY <1>1 DEF Submitted, Echoed
  <2> QED BY <1>1, <2>1, <2>2 DEF InHand
<1> QED BY <1>1, <1>2, <1>3, <1>4, <1>5, <1>6, MemoryKept, SlotsKept DEF IInv
-----------------------------------------------------------------------------
(* The stop. *)

(* A step of the stop that changes no lane, no input and no slot. *)
LEMMA PhaseStep ==
  ASSUME IInv, UNCHANGED <<lanes, memory, state, sending, sessions>>,
         phase' \in Phases, accepting' \in BOOLEAN, forced' \in BOOLEAN,
         pump' \in Inputs \cup {NoInput}, doomed' \subseteq Inputs,
         phase' \in Open => phase \in Open, StopInOrder'
  PROVE  IInv'
<1>1. TypeOK' BY DEF IInv, TypeOK, lanes, memory, sessions
<1>2. TableHolds' BY DEF IInv, TableHolds, lanes
<1>3. /\ \A d \in Conversations : LaneHolds(d)'
      /\ \A j \in Inputs : InHand(j)'
  BY LanesKept DEF lanes
<1> QED BY <1>1, <1>2, <1>3, MemoryKept, SlotsKept DEF IInv

LEMMA BeginStopStep ==
  ASSUME IInv, BeginStop
  PROVE  IInv'
<1>1. /\ phase = "running" /\ phase' = "channels" /\ accepting' = FALSE
      /\ UNCHANGED <<forced, pump, lanes, memory, state, sending, doomed, sessions>>
  BY DEF BeginStop
<1>2. StopInOrder' BY <1>1 DEF IInv, StopInOrder, Submissions, Emptied, lanes
<1> QED BY <1>1, <1>2, PhaseStep DEF IInv, TypeOK, Phases, Open

LEMMA StopPumpStep ==
  ASSUME IInv, StopPump
  PROVE  IInv'
<1>1. /\ phase = "channels" /\ phase' = "pumps" /\ pump' = NoInput
      /\ UNCHANGED <<accepting, forced, lanes, memory, state, sending, doomed, sessions>>
  BY DEF StopPump
<1>2. StopInOrder' BY <1>1 DEF IInv, StopInOrder, Submissions, Emptied, lanes
<1> QED BY <1>1, <1>2, PhaseStep DEF IInv, TypeOK, Phases, Open

LEMMA DrainedStep ==
  ASSUME IInv, Drained
  PROVE  IInv'
<1>1. /\ phase = "drain" /\ phase' = "closing"
      /\ \A c \in Conversations : ~alive[c]
      /\ UNCHANGED <<accepting, forced, pump, lanes, memory, state, sending, doomed, sessions>>
  BY DEF Drained
<1>2. StopInOrder' BY <1>1 DEF IInv, StopInOrder, Submissions, Emptied, lanes
<1> QED BY <1>1, <1>2, PhaseStep DEF IInv, TypeOK, Phases, Open

LEMMA GraceExpiresStep ==
  ASSUME IInv, GraceExpires
  PROVE  IInv'
<1>1. /\ phase = "grace" /\ phase' = "force" /\ forced' = TRUE /\ doomed' = Submissions
      /\ UNCHANGED <<accepting, pump, lanes, memory, state, sending, sessions>>
  BY DEF GraceExpires
<1>2. StopInOrder' BY <1>1 DEF IInv, StopInOrder, Submissions, Emptied, lanes
<1>3. doomed' \subseteq Inputs BY <1>1 DEF Submissions
<1> QED BY <1>1, <1>2, <1>3, PhaseStep DEF IInv, TypeOK, Phases, Open

LEMMA CloseStep ==
  ASSUME IInv, Close
  PROVE  IInv'
<1>1. /\ phase = "closing" /\ phase' = "stopped"
      /\ UNCHANGED <<accepting, forced, pump, lanes, memory, state, sending, doomed, sessions>>
  BY DEF Close
<1>2. StopInOrder' BY <1>1 DEF IInv, StopInOrder, Submissions, Emptied, lanes
<1> QED BY <1>1, <1>2, PhaseStep DEF IInv, TypeOK, Phases, Open

(* discard_pending(): what no worker has taken is accounted for. *)
LEMMA DiscardStep ==
  ASSUME IInv, Discard
  PROVE  IInv'
<1> USE Constants
<1>1. /\ TypeOK /\ phase = "pumps" /\ phase' = "grace"
      /\ queue' = [c \in Conversations |-> << >>]
      /\ state' = [i \in Inputs |-> IF state[i] = "queued" THEN "discarded" ELSE state[i]]
      /\ UNCHANGED <<accepting, forced, pump, table, alive, worker, memory, sending, doomed, sessions>>
  BY DEF Discard, IInv
<1>2. \A i \in Inputs : /\ state[i] # "queued" => state'[i] = state[i]
                        /\ state[i] = "queued" => state'[i] = "discarded"
  BY <1>1
<1>3. Submissions' = Submissions BY <1>2 DEF Submissions, Submitted
<1>4. TypeOK'
  <2>1. /\ queue' \in [Conversations -> Seq(Inputs)]
        /\ \A c \in Conversations : Len(queue'[c]) <= LaneSize
    BY <1>1, EmptyFacts
  <2>2. state' \in [Inputs -> States] BY <1>1 DEF TypeOK, States
  <2> QED BY <1>1, <2>1, <2>2 DEF TypeOK, Phases, memory, sessions
<1>5. StopInOrder'
  <2>1. StopInOrder BY DEF IInv
  <2>2. \A c \in Conversations : queue'[c] = << >> BY <1>1
  <2> QED BY <1>1, <1>2, <2>1, <2>2 DEF StopInOrder
<1>6. TableHolds' BY <1>1 DEF IInv, TableHolds, Open
<1>7. ASSUME NEW c \in Conversations PROVE LaneHolds(c)'
  <2>1. LaneHolds(c) BY DEF IInv
  <2>2. queue'[c] = << >> BY <1>1
  <2>3. worker[c] # NoInput => state'[worker[c]] = state[worker[c]]
    BY <1>2, <2>1 DEF LaneHolds, Submitted, Echoed
  <2> QED BY <1>1, <2>1, <2>2, <2>3, EmptyFacts DEF LaneHolds
<1>8. ASSUME NEW j \in Inputs PROVE InHand(j)'
  <2>1. InHand(j) BY DEF IInv
  <2> QED BY <1>1, <1>2, <2>1 DEF InHand, Submitted
<1>9. AtMostOnce' /\ \A j \in Inputs : Remembered(j)'
  <2>1. \A j \in Inputs : state'[j] \in Executing => state[j] \in Executing
    BY <1>2 DEF Executing, Submitted
  <2> QED BY <1>1, <2>1, MemoryKept
<1>10. /\ open' = Submissions'
       /\ \A c \in Conversations : SlotHolds(c)'
       /\ \A j \in Inputs : InSlot(j)'
  BY <1>1, <1>2, SlotsKept DEF Submitted
<1> QED BY <1>4, <1>5, <1>6, <1>7, <1>8, <1>9, <1>10 DEF IInv

(* drain(): nothing is under way any more, the workers go. *)
LEMMA BecomeIdleStep ==
  ASSUME IInv, BecomeIdle
  PROVE  IInv'
<1>1. /\ TypeOK /\ phase = "grace" /\ Submissions = {} /\ phase' = "drain" /\ table' = {}
      /\ UNCHANGED <<accepting, forced, pump, queue, alive, worker, memory, state, sending, doomed, sessions>>
  BY DEF BecomeIdle, IInv
<1>2. TypeOK' BY <1>1 DEF TypeOK, Phases, memory, sessions
<1>3. StopInOrder' BY <1>1 DEF IInv, StopInOrder, Submissions, Emptied
<1>4. TableHolds' BY <1>1, Constants, FS_EmptySet DEF TableHolds, Open
<1>5. /\ \A d \in Conversations : LaneHolds(d)'
      /\ \A j \in Inputs : InHand(j)'
  BY <1>1, LanesKept
<1> QED BY <1>1, <1>2, <1>3, <1>4, <1>5, MemoryKept, SlotsKept DEF IInv

(* force_cancel(): a worker that is in no submission dies at once. *)
LEMMA ForceCancelStep ==
  ASSUME IInv, ForceCancel
  PROVE  IInv'
<1> USE Constants
<1>1. /\ TypeOK /\ phase = "force" /\ phase' = "closing" /\ table' = {}
      /\ alive' = [c \in Conversations |-> alive[c] /\ worker[c] \in Submissions]
      /\ worker' = [c \in Conversations |-> IF worker[c] \in Submissions THEN worker[c] ELSE NoInput]
      /\ UNCHANGED <<accepting, forced, pump, queue, memory, state, sending, doomed, sessions>>
  BY DEF ForceCancel, IInv
<1>2. TypeOK'
  <2>1. worker' \in [Conversations -> Inputs \cup {NoInput}] BY <1>1 DEF TypeOK
  <2>2. alive' \in [Conversations -> BOOLEAN] BY <1>1 DEF TypeOK
  <2> QED BY <1>1, <2>1, <2>2 DEF TypeOK, Phases, memory, sessions
<1>3. StopInOrder'
  <2>1. StopInOrder BY DEF IInv
  <2>2. forced BY <1>1, <2>1 DEF StopInOrder
  <2> QED BY <1>1, <2>1, <2>2 DEF StopInOrder, Submissions, Emptied
<1>4. TableHolds' BY <1>1, FS_EmptySet DEF TableHolds, Open
<1>5. ASSUME NEW c \in Conversations PROVE LaneHolds(c)'
  <2>1. LaneHolds(c) BY DEF IInv
  <2>2. queue[c] = << >> BY <1>1 DEF IInv, StopInOrder, Emptied
  <2>3. worker'[c] # NoInput => worker'[c] = worker[c] /\ worker[c] \in Submissions
    BY <1>1
  <2>4. worker'[c] # NoInput => alive'[c] BY <1>1, <2>1, <2>3 DEF LaneHolds
  <2> QED BY <1>1, <2>1, <2>2, <2>3, <2>4 DEF LaneHolds
<1>6. ASSUME NEW j \in Inputs PROVE InHand(j)'
  <2>1. InHand(j) /\ ConversationOf[j] \in Conversations BY DEF IInv
  <2> QED BY <1>1, <2>1 DEF InHand, Submissions
<1> QED BY <1>1, <1>2, <1>3, <1>4, <1>5, <1>6, MemoryKept, SlotsKept DEF IInv
(* A cancelled task unwinds, and takes its lane's worker with it. *)
LEMMA DieStep ==
  ASSUME IInv, NEW i \in Inputs, Die(i)
  PROVE  IInv'
<1> USE Constants
<1>1. /\ TypeOK /\ i \in doomed /\ state[i] \in Submitted
      /\ state' = [state EXCEPT ![i] = "killed"]
      /\ sending' = sending \ {i}
      /\ worker' = [c \in Conversations |-> IF worker[c] = i THEN NoInput ELSE worker[c]]
      /\ alive' = [c \in Conversations |-> alive[c] /\ worker[c] # i]
      /\ UNCHANGED <<stop, pump, table, queue, memory, doomed>>
  BY DEF Die, Set, WorkerFreed, IInv
<1>2. /\ state' \in [Inputs -> States] /\ state'[i] = "killed"
      /\ \A j \in Inputs \ {i} : state'[j] = state[j]
      /\ Submissions' = Submissions \ {i}
  BY <1>1 DEF TypeOK, Submissions, Submitted, States
<1>3. forced /\ phase \in {"force", "closing", "stopped"}
  BY <1>1 DEF IInv, StopInOrder
<1>4. /\ backlog' \in [Conversations -> Seq(Inputs)] /\ active' \in [Conversations -> Seq(Inputs)]
      /\ open' = Submissions'
      /\ \A c \in Conversations : SlotHolds(c)'
      /\ \A j \in Inputs : InSlot(j)'
  <2>1. CASE state[i] = "waiting"
    <3>1. open' = open \ {i} /\ UNCHANGED <<backlog, active>>
      BY <1>1, <2>1 DEF Die, Queues!Abandon
    <3>2. open' = Submissions' BY <1>2, <3>1 DEF IInv
    <3>3. ASSUME NEW c \in Conversations PROVE SlotHolds(c)'
      <4>1. SlotHolds(c) BY DEF IInv
      <4>2. ToSet(backlog[c]) \subseteq Inputs BY <1>1 DEF ToSet, TypeOK
      <4>3. \A j \in ToSet(backlog[c]) : state'[j] \in {"waiting", "killed"}
        BY <1>2, <4>1, <4>2 DEF SlotHolds
      <4>4. \A j \in Inputs : state[j] \in {"turn", "refused"} => state'[j] = state[j]
        BY <1>2, <2>1
      <4> QED BY <3>1, <4>1, <4>3, <4>4 DEF SlotHolds
    <3>4. ASSUME NEW j \in Inputs PROVE InSlot(j)'
      <4>1. InSlot(j) BY DEF IInv
      <4> QED BY <1>2, <3>1, <4>1 DEF InSlot
    <3> QED BY <1>1, <3>1, <3>2, <3>3, <3>4 DEF TypeOK
  <2>2. CASE state[i] # "waiting"
    <3>1. state[i] \in {"turn", "refused"} /\ Queues!End(ConversationOf[i])
      BY <1>1, <2>2 DEF Die, Submitted
    <3>2. "killed" \in States \ Submitted BY DEF States, Submitted
    <3> QED BY <1>1, <3>1, <3>2, SlotFreed
  <2> QED BY <2>1, <2>2
<1>5. TypeOK'
  <2>1. open' \subseteq Inputs BY <1>4 DEF Submissions
  <2>2. worker' \in [Conversations -> Inputs \cup {NoInput}] BY <1>1 DEF TypeOK
  <2>3. alive' \in [Conversations -> BOOLEAN] BY <1>1 DEF TypeOK
  <2> QED BY <1>1, <1>2, <1>4, <2>1, <2>2, <2>3 DEF TypeOK, stop, memory
<1>6. StopInOrder'
  <2>1. StopInOrder BY DEF IInv
  <2> QED BY <1>1, <1>2, <1>3, <2>1 DEF StopInOrder, stop
<1>7. TableHolds' BY <1>1, <1>3 DEF IInv, TableHolds, Open, stop
<1>8. ASSUME NEW c \in Conversations PROVE LaneHolds(c)'
  <2>1. LaneHolds(c) BY DEF IInv
  <2>2. queue[c] = << >> BY <1>3 DEF IInv, StopInOrder, Emptied
  <2>3. worker'[c] # NoInput => worker'[c] = worker[c] /\ worker[c] # i /\ alive'[c] = alive[c]
    BY <1>1 DEF TypeOK
  <2>4. ASSUME worker'[c] # NoInput
        PROVE  /\ alive'[c] /\ worker'[c] \in Inputs \ Direct /\ ConversationOf[worker'[c]] = c
               /\ state'[worker'[c]] \in Submitted \cup Echoed
    <3>1. worker'[c] = worker[c] /\ worker[c] # i /\ alive'[c] = alive[c] BY <2>3, <2>4
    <3> QED BY <1>2, <2>1, <2>4, <3>1 DEF LaneHolds
  <2>5. queue'[c] = << >> BY <1>1, <2>2
  <2> QED BY <2>4, <2>5, EmptyFacts DEF LaneHolds
<1>9. ASSUME NEW j \in Inputs PROVE InHand(j)'
  <2>1. InHand(j) /\ ConversationOf[j] \in Conversations BY DEF IInv
  <2>2. CASE j = i BY <1>2, <2>2 DEF InHand, Submitted
  <2>3. CASE j # i BY <1>1, <1>2, <2>1, <2>3 DEF InHand
  <2> QED BY <2>2, <2>3
<1>10. AtMostOnce' /\ \A j \in Inputs : Remembered(j)'
  <2>1. \A j \in Inputs : state'[j] \in Executing => state[j] \in Executing
    BY <1>1, <1>2 DEF Executing
  <2> QED BY <1>1, <2>1, MemoryKept
<1> QED BY <1>4, <1>5, <1>6, <1>7, <1>8, <1>9, <1>10 DEF IInv

LEMMA StutterStep ==
  ASSUME IInv, UNCHANGED vars
  PROVE  IInv'
<1>1. UNCHANGED <<stop, pump, lanes, memory, state, sending, doomed, sessions>> BY DEF vars
<1> QED BY <1>1, StillStep DEF IInv, TypeOK, memory

LEMMA StepKeeps == IInv /\ [Next]_vars => IInv'
<1> SUFFICES ASSUME IInv, [Next]_vars PROVE IInv' OBVIOUS
<1>1. ASSUME NEW i \in Inputs, Offer(i) PROVE IInv' BY <1>1, OfferStep
<1>2. ASSUME NEW i \in Inputs, Submit(i) PROVE IInv' BY <1>2, SubmitStep
<1>3. ASSUME NEW i \in Inputs, Grant(i) PROVE IInv' BY <1>3, GrantStep
<1>4. ASSUME NEW i \in Inputs, Send(i) \/ Sent(i) PROVE IInv' BY <1>4, SendStep
<1>5. ASSUME NEW i \in Inputs, TurnEnds(i) PROVE IInv' BY <1>5, TurnEndsStep
<1>6. ASSUME NEW i \in Inputs, RefusalEnds(i) PROVE IInv' BY <1>6, RefusalEndsStep
<1>7. ASSUME NEW i \in Inputs, WorkerEchoed(i) PROVE IInv' BY <1>7, WorkerEchoedStep
<1>8. ASSUME NEW i \in Inputs, Die(i) PROVE IInv' BY <1>8, DieStep
<1>9. ASSUME NEW c \in Conversations, TakeNext(c) PROVE IInv' BY <1>9, TakeNextStep
<1>10. ASSUME NEW c \in Conversations, LeaveLane(c) PROVE IInv' BY <1>10, LeaveLaneStep
<1>11. CASE PumpEchoed BY <1>11, PumpEchoedStep
<1>12. CASE Expire BY <1>12, ExpireStep
<1>13. CASE Stopping
  BY <1>13, BeginStopStep, StopPumpStep, DiscardStep, BecomeIdleStep, DrainedStep,
     GraceExpiresStep, ForceCancelStep, CloseStep DEF Stopping
<1>14. CASE UNCHANGED vars BY <1>14, StutterStep
<1> QED
  BY <1>1, <1>2, <1>3, <1>4, <1>5, <1>6, <1>7, <1>8, <1>9, <1>10, <1>11, <1>12, <1>13, <1>14
  DEF Next
-----------------------------------------------------------------------------
(* The inductive invariant holds of every run of an instance. *)
THEOREM InductiveInvariant == Spec => []IInv
<1> QED BY InitHolds, StepKeeps, PTL DEF Spec

(* The types; a lane never holds more than channel_queue_max_size inputs    *)
(* (fanout.py) and the duplicate table never more than its capacity        *)
(* (dedup.py).                                                             *)
THEOREM TypeCorrect == Spec => []TypeOK
<1>1. IInv => TypeOK BY DEF IInv
<1> QED BY <1>1, InductiveInvariant, PTL

(* No input is stranded in a lane, and a conversation's inputs are          *)
(* submitted one after the other (fanout.py).                              *)
THEOREM LanesStayInOrder == Spec => []LanesInOrder
<1>1. IInv => NoStrandedInput
  <2> SUFFICES ASSUME IInv PROVE NoStrandedInput OBVIOUS
  <2>1. ASSUME NEW i \in Inputs, state[i] = "queued"
        PROVE  i \in ToSet(queue[ConversationOf[i]]) /\ alive[ConversationOf[i]]
    <3>1. LaneHolds(ConversationOf[i]) /\ InHand(i) BY Constants DEF IInv
    <3>2. queue[ConversationOf[i]] # << >> BY <2>1, <3>1, EmptyFacts DEF InHand
    <3> QED BY <2>1, <3>1, <3>2 DEF InHand, LaneHolds
  <2> QED BY <2>1 DEF IInv, TableHolds, NoStrandedInput, Open
<1>2. IInv => LaneSerial BY DEF IInv, InHand, LaneSerial, Submissions
<1> QED BY <1>1, <1>2, InductiveInvariant, PTL DEF LanesInOrder

(* A message is executed once while the duplicate table remembers it, in    *)
(* whatever order its copies arrive (dedup.py).                            *)
THEOREM ExecutedAtMostOnce == Spec => []AtMostOnce
<1>1. IInv => AtMostOnce BY DEF IInv
<1> QED BY <1>1, InductiveInvariant, PTL

(* After an orderly stop nothing runs, waits or holds a slot, so that the   *)
(* shutdown hooks find no turn (instance.py:225).                          *)
THEOREM OrderlyStopIsQuiet == Spec => []QuietWhenDrained
<1>1. IInv => QuietWhenDrained
  <2> SUFFICES ASSUME IInv, phase \in {"closing", "stopped"}, ~forced
               PROVE  /\ Submissions = {} /\ open = {}
                      /\ \A c \in Conversations :
                           ~alive[c] /\ active[c] = << >> /\ backlog[c] = << >>
    BY DEF QuietWhenDrained
  <2>1. /\ Submissions = {} /\ open = {} /\ \A c \in Conversations : ~alive[c]
        /\ \A i \in Inputs : state[i] \notin Submitted /\ state[i] # "killed"
    BY DEF IInv, StopInOrder, Submissions
  <2>2. ASSUME NEW c \in Conversations PROVE active[c] = << >> /\ backlog[c] = << >>
    <3>1. SlotHolds(c) /\ backlog[c] \in Seq(Inputs) BY DEF IInv, TypeOK
    <3>2. active[c] = << >> BY <2>1, <3>1 DEF SlotHolds, Submitted
    <3>3. ASSUME backlog[c] # << >> PROVE FALSE
      <4>1. Head(backlog[c]) \in Inputs /\ Head(backlog[c]) \in ToSet(backlog[c])
        BY <3>1, <3>3, TailFacts
      <4> QED BY <2>1, <3>1, <4>1 DEF SlotHolds, Submitted
    <3> QED BY <3>2, <3>3
  <2> QED BY <2>1, <2>2
<1> QED BY <1>1, InductiveInvariant, PTL

(* All of it: the invariant that the runs check. *)
THEOREM GatewayStaysOrderly == Spec => []GatewayIsOrderly
<1> QED
  BY TypeCorrect, LanesStayInOrder, ExecutedAtMostOnce, OrderlyStopIsQuiet, PTL
  DEF GatewayIsOrderly

(* _run() looks at accepting when it has the slot: no turn starts once the  *)
(* stop has begun, whenever its input was admitted.                        *)
THEOREM StopStartsNoTurn == Spec => NoTurnAfterStop
<1> DEFINE Lawful == \A i \in Inputs : state[i] # "turn" /\ state'[i] = "turn" => accepting
<1>1. ASSUME TypeOK, Next PROVE Lawful
  <2>0. state \in [Inputs -> States] BY <1>1 DEF TypeOK
  <2>1. ASSUME NEW i \in Inputs, Handle(i) PROVE Lawful
    <3>1. PICK s : Handled(i, s) BY <1>1, <2>1, HandleCases
    <3>2. /\ state' = [state EXCEPT ![i] = s]
          /\ s \in {"waiting", "turn"} => accepting
      BY <3>1 DEF Handled
    <3> QED BY <2>0, <3>2
  <2>2. ASSUME NEW i \in Inputs, Submit(i) PROVE Lawful BY <2>1, <2>2 DEF Submit
  <2>3. ASSUME NEW c \in Conversations, TakeNext(c) PROVE Lawful
    <3>1. queue[c] # << >> /\ Handle(Head(queue[c])) BY <2>3 DEF TakeNext
    <3>2. Head(queue[c]) \in Inputs
      <4>1. queue[c] \in Seq(Inputs) BY <1>1 DEF TypeOK
      <4> QED BY <3>1, <4>1, TailFacts
    <3> QED BY <2>1, <3>1, <3>2
  <2>4. ASSUME NEW i \in Inputs, Offer(i) PROVE Lawful BY <2>0, <2>4 DEF Offer, Set
  <2>5. ASSUME NEW i \in Inputs, Grant(i) PROVE Lawful BY <2>0, <2>5 DEF Grant, Set
  <2>6. ASSUME NEW i \in Inputs, Send(i) \/ Sent(i) \/ WorkerEchoed(i) PROVE Lawful
    BY <2>6 DEF Send, Sent, WorkerEchoed
  <2>7. ASSUME NEW i \in Inputs, TurnEnds(i) \/ RefusalEnds(i) \/ Die(i) PROVE Lawful
    BY <2>0, <2>7 DEF TurnEnds, RefusalEnds, Die, Set
  <2>8. ASSUME NEW c \in Conversations, LeaveLane(c) PROVE Lawful BY <2>8 DEF LeaveLane
  <2>9. CASE PumpEchoed \/ Expire BY <2>9 DEF PumpEchoed, Expire
  <2>10. CASE Stopping
    BY <2>10 DEF Stopping, BeginStop, StopPump, Discard, BecomeIdle, Drained, GraceExpires,
                 ForceCancel, Close
  <2> QED
    BY <1>1, <2>2, <2>3, <2>4, <2>5, <2>6, <2>7, <2>8, <2>9, <2>10 DEF Next
<1> QED BY <1>1, TypeCorrect, PTL DEF Spec, NoTurnAfterStop
(* One conversation, one turn: the lanes and the direct submissions meet at *)
(* the session's slot, and one of them has it.                             *)
OneTurnPerConversation ==
  \A i, j \in Inputs :
    /\ ConversationOf[i] = ConversationOf[j]
    /\ state[i] \in {"turn", "refused"} /\ state[j] \in {"turn", "refused"}
    => i = j

THEOREM TurnsAreSerial == Spec => []OneTurnPerConversation
<1>1. IInv => OneTurnPerConversation
  <2> SUFFICES ASSUME IInv, NEW i \in Inputs, NEW j \in Inputs,
                      ConversationOf[i] = ConversationOf[j],
                      state[i] \in {"turn", "refused"}, state[j] \in {"turn", "refused"}
               PROVE  i = j
    BY DEF OneTurnPerConversation
  <2>1. <<i>> = <<j>> BY DEF IInv, InSlot
  <2>2. <<i>>[1] = i /\ <<j>>[1] = j OBVIOUS
  <2> QED BY <2>1, <2>2
<1> QED BY <1>1, InductiveInvariant, PTL

(* An input gets one receipt: what was answered, dropped, discarded or      *)
(* killed is never looked at again, by no worker and in no phase of the    *)
(* stop.                                                                   *)
Answered == Echoed \cup {"dropped", "discarded", "done", "killed"}
ReceiptIsFinal == [][\A i \in Inputs : state[i] \in Answered => state'[i] = state[i]]_vars

THEOREM OneReceiptPerInput == Spec => ReceiptIsFinal
<1> DEFINE Final == \A i \in Inputs : state[i] \in Answered => state'[i] = state[i]
<1> USE DEF Answered, Echoed
<1>1. ASSUME IInv, Next PROVE Final
  <2>0. TypeOK /\ state \in [Inputs -> States] BY <1>1 DEF IInv, TypeOK
  <2>1. ASSUME NEW i \in Inputs, state[i] \in {"new", "queued"}, Handle(i) PROVE Final
    <3>1. PICK s : Handled(i, s) BY <2>0, <2>1, HandleCases
    <3>2. state' = [state EXCEPT ![i] = s] BY <3>1 DEF Handled
    <3> QED BY <2>0, <2>1, <3>2
  <2>2. ASSUME NEW i \in Inputs, Submit(i) PROVE Final BY <2>1, <2>2 DEF Submit
  <2>3. ASSUME NEW c \in Conversations, TakeNext(c) PROVE Final
    <3>1. /\ queue[c] # << >> /\ Handle(Head(queue[c]))
          /\ queue[c] \in Seq(Inputs) /\ LaneHolds(c)
      BY <1>1, <2>0, <2>3 DEF TakeNext, IInv, TypeOK
    <3>2. Head(queue[c]) \in Inputs /\ state[Head(queue[c])] = "queued"
      BY <3>1, TailFacts DEF LaneHolds
    <3> QED BY <2>1, <3>1, <3>2
  <2>4. ASSUME NEW i \in Inputs, Offer(i) PROVE Final BY <2>0, <2>4 DEF Offer, Set
  <2>5. ASSUME NEW i \in Inputs, Grant(i) PROVE Final BY <2>0, <2>5 DEF Grant, Set
  <2>6. ASSUME NEW i \in Inputs, Send(i) \/ Sent(i) \/ WorkerEchoed(i) PROVE Final
    BY <2>6 DEF Send, Sent, WorkerEchoed
  <2>7. ASSUME NEW i \in Inputs, TurnEnds(i) \/ RefusalEnds(i) \/ Die(i) PROVE Final
    BY <2>0, <2>7 DEF TurnEnds, RefusalEnds, Die, Set, Submitted
  <2>8. ASSUME NEW c \in Conversations, LeaveLane(c) PROVE Final BY <2>8 DEF LeaveLane
  <2>9. CASE PumpEchoed \/ Expire BY <2>9 DEF PumpEchoed, Expire
  <2>10. CASE Stopping
    BY <2>10 DEF Stopping, BeginStop, StopPump, Discard, BecomeIdle, Drained, GraceExpires,
                 ForceCancel, Close
  <2> QED
    BY <1>1, <2>2, <2>3, <2>4, <2>5, <2>6, <2>7, <2>8, <2>9, <2>10 DEF Next
<1> QED BY <1>1, InductiveInvariant, PTL DEF Spec, ReceiptIsFinal
-----------------------------------------------------------------------------
(* Cron: the table of jobs, its writes and its messages.                   *)

Runs == [on : BOOLEAN, next : Nat, last : {"none", "dispatched", "missed", "skipped"}]
Tables == UNION {[K -> Runs] : K \in SUBSET Jobs}
CronOps == {"schedule", "pause", "resume", "run", "rm"}
CronTypeOK ==
  /\ now \in Nat \ {0} /\ cronCrashes \in Nat /\ calls \in Nat
  /\ disk \in Tables \union {Corrupt} /\ jobs \in Tables
  /\ loop \in LoopStates \union Jobs
  /\ stamp \in Nat /\ until \in Nat /\ wake \in BOOLEAN
  /\ lock \in {"none", "loop", "call"}
  /\ writes \subseteq [by : {"load", "loop", "call", "nobody"}, table : Tables]
  /\ degraded \in BOOLEAN /\ stopped \in BOOLEAN
  /\ call \in {NoCall} \union [op : CronOps, job : Jobs, at : {"lock", "disk"}]
  /\ sent \in [Jobs -> Nat]
  /\ asked \subseteq Jobs /\ refused \subseteq Jobs
  /\ untidy \subseteq {"failed", "early", "left"}

(* Whoever holds the lock has the one write under way that is its own, of  *)
(* the table as it is; load() writes without the lock.                     *)
WritesHold ==
  /\ lock = "loop" <=> loop \in Jobs \union {"saving"}
  /\ lock = "call" <=> call.at = "disk"
  /\ Mine("loop") = IF lock = "loop" THEN {[by |-> "loop", table |-> jobs]} ELSE {}
  /\ lock # "call" => Mine("call") = {}
  /\ loop # "loading" => Mine("load") = {}
  /\ \A v, w \in writes : v.by = w.by /\ v.by # "nobody" => v = w
  /\ "left" \notin untidy => Mine("nobody") = {}
  /\ call # NoCall => loop # "down"
  /\ "early" \notin untidy =>
       /\ lock = "call" =>
            loop \notin {"reading", "loading"} /\ Mine("call") = {[by |-> "call", table |-> jobs]}
       /\ loop = "loading" => Mine("load") = {[by |-> "load", table |-> jobs]}

(* What a crash would lose, and how long the loop may sleep.               *)
DurableHolds ==
  untidy = {} /\ lock = "none" /\ ~degraded =>
    /\ loop \notin {"down", "reading", "loading"} => disk = jobs
    /\ loop = "asleep" => wake \/ \A m \in Upcoming(jobs) : until <= m

(* n is a moment at which job j may send again, having sent at t.          *)
Again(j, t, n) ==
  /\ Schedule[j].kind # "at"
  /\ Schedule[j].kind = "every" => n >= t + Min(Schedule[j].when)
  /\ Schedule[j].kind = "cron" => \E m \in Schedule[j].when : t < m /\ m <= n
(* Table f does not let job j send again too early.                        *)
Ahead(j, f, t) ==
  j \in DOMAIN f =>
    /\ Schedule[j].kind = "at" => f[j].next \in Schedule[j].when \union {Never}
    /\ t # 0 => f[j].next = Never \/ Again(j, t, f[j].next)
Behind(j, t) == Schedule[j].kind = "at" /\ t # 0 => \A m \in Schedule[j].when : m <= t

(* Every table there is, in memory, on the disk or on its way, knows of    *)
(* the messages that left and of the one that waits for its write.         *)
OnceHolds(j) ==
  /\ sent[j] <= now /\ Behind(j, sent[j])
  /\ Ahead(j, jobs, sent[j]) /\ Ahead(j, disk, sent[j])
  /\ \A w \in writes : Ahead(j, w.table, sent[j])
  /\ loop = j =>
       /\ stamp # 0 /\ stamp <= now /\ Behind(j, stamp) /\ Ahead(j, jobs, stamp)
       /\ sent[j] # 0 => Again(j, sent[j], stamp)
RunsHold == "left" \notin untidy => \A j \in Jobs \ asked : OnceHolds(j)

CronIInv == CronTypeOK /\ WritesHold /\ DurableHolds /\ RunsHold

LEMMA TableFacts ==
  ASSUME NEW f \in Tables
  PROVE  /\ DOMAIN f \subseteq Jobs /\ f = [i \in DOMAIN f |-> f[i]]
         /\ \A i \in DOMAIN f : f[i] \in Runs
BY DEF Tables

LEMMA TableMade ==
  ASSUME NEW K \in SUBSET Jobs, NEW f \in [K -> Runs]
  PROVE  f \in Tables /\ DOMAIN f = K
BY DEF Tables

LEMMA CronConstants ==
  /\ \A j \in Jobs :
        /\ Schedule[j].kind \in {"at", "every", "cron"} /\ Schedule[j].when \subseteq Nat \ {0}
        /\ Schedule[j].kind # "cron" => \E m \in Schedule[j].when : Schedule[j].when = {m}
  /\ Jobs \intersect (LoopStates \union {"none", "corrupt"}) = {}
  /\ MaxJobs \in Nat /\ MinInterval \in Nat /\ Grace \in Nat /\ Ceiling \in Nat
  /\ MaxTime \in Nat /\ MaxCrashes \in Nat /\ MaxCalls \in Nat
BY CronAssumption

(* What the next moment of a job is: later than t, and not too early for a  *)
(* job that sent at s.                                                     *)
LEMMA NextRunFacts ==
  ASSUME NEW j \in Jobs, NEW t \in Nat
  PROVE  /\ NextRunAfter(j, t) \in Nat
         /\ Schedule[j].kind = "at" => NextRunAfter(j, t) \in Schedule[j].when \union {Never}
         /\ \A s \in Nat : s # 0 /\ s <= t /\ Behind(j, s) =>
              NextRunAfter(j, t) = Never \/ Again(j, s, NextRunAfter(j, t))
<1> DEFINE later == {m \in Schedule[j].when : m > t}
<1>1. /\ Schedule[j].kind \in {"at", "every", "cron"} /\ Schedule[j].when \subseteq Nat \ {0}
      /\ Schedule[j].kind # "cron" => \E m \in Schedule[j].when : Schedule[j].when = {m}
  BY CronConstants
<1>2. CASE Schedule[j].kind = "every"
  <2>1. NextRunAfter(j, t) = t + Min(Schedule[j].when) BY <1>2 DEF NextRunAfter
  <2>2. Min(Schedule[j].when) \in Nat
    <3>1. Schedule[j].when \in SUBSET Nat /\ Schedule[j].when # {} BY <1>1, <1>2
    <3> QED BY <3>1, MinIsLeast
  <2> QED BY <1>2, <2>1, <2>2 DEF Again
<1>3. CASE Schedule[j].kind # "every" /\ later = {}
  <2>1. NextRunAfter(j, t) = Never BY <1>3 DEF NextRunAfter
  <2> QED BY <2>1 DEF Never
<1>4. CASE Schedule[j].kind # "every" /\ later # {}
  <2>1. NextRunAfter(j, t) = Min(later) BY <1>4 DEF NextRunAfter
  <2>2. Min(later) \in later
    <3>1. later \in SUBSET Nat BY <1>1
    <3> HIDE DEF later
    <3> QED BY <1>4, <3>1, MinIsLeast
  <2>3. ASSUME NEW s \in Nat, s # 0, s <= t, Behind(j, s) PROVE Again(j, s, Min(later))
    <3>1. Schedule[j].kind # "at" BY <1>1, <2>2, <2>3 DEF Behind
    <3>2. s < Min(later) BY <1>1, <2>2, <2>3
    <3> QED BY <1>1, <1>4, <2>2, <3>1, <3>2 DEF Again
  <2> QED BY <1>1, <1>4, <2>1, <2>2, <2>3
<1> QED BY <1>2, <1>3, <1>4

(* What becomes of one job whose moment has passed. *)
LEMMA LapseFacts ==
  ASSUME NEW f \in Tables, NEW t \in Nat
  PROVE  /\ Reconcile(f, t) \in Tables /\ DOMAIN Reconcile(f, t) = DOMAIN f
         /\ ~Changed(f, t) => Reconcile(f, t) = f
         /\ \A j \in Jobs, s \in Nat :
              s <= t /\ Behind(j, s) /\ Ahead(j, f, s) => Ahead(j, Reconcile(f, t), s)
<1> DEFINE g == Reconcile(f, t)
<1>0. DOMAIN f \subseteq Jobs /\ f = [i \in DOMAIN f |-> f[i]] /\ \A i \in DOMAIN f : f[i] \in Runs
  BY TableFacts
<1>1. ASSUME NEW j \in DOMAIN f
      PROVE  /\ g[j] \in Runs
             /\ ~Lapsed(f[j], t) => g[j] = f[j]
             /\ Lapsed(f[j], t) => g[j].next \in {Never, NextRunAfter(j, t)}
             /\ ~Lapsed(f[j], t) => g[j].next = f[j].next
             /\ Schedule[j].kind = "at" => g[j].next \in {f[j].next, Never, NextRunAfter(j, t)}
  <2>1. j \in Jobs /\ f[j] \in Runs /\ NextRunAfter(j, t) \in Nat /\ Never \in Nat
    BY <1>0, <1>1, NextRunFacts DEF Never
  <2>2. g[j] = IF ~Lapsed(f[j], t) THEN f[j]
               ELSE IF f[j].next = Never THEN [f[j] EXCEPT !.next = NextRunAfter(j, t)]
               ELSE IF Schedule[j].kind = "at" THEN WithRun(f[j], "missed", Never)
               ELSE WithRun(f[j], "skipped", NextRunAfter(j, t))
    BY <1>1 DEF Reconcile
  <2> QED BY <2>1, <2>2 DEF WithRun, Runs
<1>2. DOMAIN g = DOMAIN f /\ g = [j \in DOMAIN f |-> g[j]] BY DEF Reconcile
<1>3. g \in [DOMAIN f -> Runs]
  <2> HIDE DEF g
  <2> QED BY <1>1, <1>2
<1>4. ~Changed(f, t) => g = f
  <2> HIDE DEF g
  <2> QED BY <1>0, <1>1, <1>2 DEF Changed
<1>5. ASSUME NEW j \in Jobs, NEW s \in Nat, s <= t, Behind(j, s), Ahead(j, f, s) PROVE Ahead(j, g, s)
  <2>1. SUFFICES ASSUME j \in DOMAIN f
                 PROVE  /\ Schedule[j].kind = "at" => g[j].next \in Schedule[j].when \union {Never}
                        /\ s # 0 => g[j].next = Never \/ Again(j, s, g[j].next)
    BY <1>2 DEF Ahead
  <2>2. /\ Schedule[j].kind = "at" => f[j].next \in Schedule[j].when \union {Never}
        /\ s # 0 => f[j].next = Never \/ Again(j, s, f[j].next)
    BY <1>5, <2>1 DEF Ahead
  <2>3. /\ Schedule[j].kind = "at" => NextRunAfter(j, t) \in Schedule[j].when \union {Never}
        /\ s # 0 => NextRunAfter(j, t) = Never \/ Again(j, s, NextRunAfter(j, t))
    BY <1>5, NextRunFacts
  <2> HIDE DEF g
  <2> QED BY <1>1, <2>1, <2>2, <2>3
<1> QED BY <1>0, <1>2, <1>3, <1>4, <1>5, TableMade

LEMMA LapsedSoon ==
  ASSUME NEW f \in Tables, NEW t \in Nat
  PROVE  Delay(f, t) \in Nat /\ \A m \in Upcoming(f) : Delay(f, t) <= m
<1> DEFINE moments == {t + Ceiling} \union Upcoming(f)
<1>1. Upcoming(f) \in SUBSET Nat BY TableFacts DEF Upcoming, Runs
<1>2. moments \in SUBSET Nat /\ moments # {} BY <1>1, CronConstants
<1>3. Min(moments) \in moments /\ \A m \in moments : Min(moments) <= m
  <2> HIDE DEF moments
  <2> QED BY <1>2, MinIsLeast
<1> QED BY <1>2, <1>3 DEF Delay

LEMMA AgainLater ==
  ASSUME NEW j \in Jobs, NEW s \in Nat, NEW m \in Nat, NEW n \in Nat, Again(j, s, m), m <= n
  PROVE  Again(j, s, n)
<1>1. Schedule[j].when \in SUBSET Nat BY CronConstants
<1>2. Schedule[j].kind = "every" => Min(Schedule[j].when) \in Nat
  <2>1. Schedule[j].kind = "every" => Schedule[j].when # {} BY CronConstants
  <2> QED BY <1>1, <2>1, MinIsLeast
<1> QED BY <1>1, <1>2 DEF Again

(* Who writes, if no caller ever left a write behind. *)
LEMMA OnlyWriter ==
  ASSUME CronTypeOK, WritesHold, "left" \notin untidy
  PROVE  /\ lock = "loop" => writes = {[by |-> "loop", table |-> jobs]}
         /\ lock = "none" /\ loop # "loading" => writes = {}
         /\ untidy = {} /\ lock = "call" => writes = {[by |-> "call", table |-> jobs]}
         /\ untidy = {} /\ loop = "loading" =>
              lock = "none" /\ writes = {[by |-> "load", table |-> jobs]}
<1>1. \A w \in writes : w.by \in {"load", "loop", "call", "nobody"} BY DEF CronTypeOK
<1>2. writes = Mine("load") \union Mine("loop") \union Mine("call") \union Mine("nobody")
  BY <1>1 DEF Mine
<1>3. Mine("nobody") = {} BY DEF WritesHold
<1>4. lock \in {"none", "loop", "call"} BY DEF CronTypeOK
<1>5. "loading" \notin Jobs \union {"saving"} BY CronConstants DEF LoopStates
<1> QED BY <1>2, <1>3, <1>4, <1>5 DEF WritesHold

(* What a write that lands leaves on the disk. *)
LEMMA LandsFacts ==
  ASSUME NEW w \in writes, Lands(w), CronTypeOK
  PROVE  /\ writes' = writes \ {w}
         /\ disk' \in {v.table : v \in writes} \union {Corrupt}
         /\ writes = {w} => disk' = w.table
         /\ disk' \in Tables \union {Corrupt}
<1>1. \A v \in writes : v.table \in Tables BY DEF CronTypeOK
<1> QED BY <1>1 DEF Lands

LEMMA CorruptFacts == \A j \in Jobs : \A t : Ahead(j, Corrupt, t)
BY CronConstants DEF Ahead, Corrupt

(* What the messages left to say of the tables, when none leaves.          *)
LEMMA RunsKept ==
  ASSUME CronIInv, CronTypeOK', now' >= now, sent' = sent, stamp' = stamp, asked \subseteq asked',
         "left" \notin untidy' => "left" \notin untidy,
         loop' \in Jobs => loop' = loop /\ jobs' = jobs,
         "left" \notin untidy' => \A j \in Jobs \ asked' :
            OnceHolds(j) => /\ Ahead(j, jobs', sent[j]) /\ Ahead(j, disk', sent[j])
                            /\ \A w \in writes' : Ahead(j, w.table, sent[j])
  PROVE  RunsHold'
<1> SUFFICES ASSUME "left" \notin untidy', NEW j \in Jobs \ asked' PROVE OnceHolds(j)'
  BY DEF RunsHold
<1>1. OnceHolds(j) BY DEF CronIInv, RunsHold
<1>2. now \in Nat /\ now' \in Nat /\ sent[j] \in Nat /\ stamp \in Nat BY DEF CronIInv, CronTypeOK
<1>3. Ahead(j, jobs', sent[j]) /\ Ahead(j, disk', sent[j]) /\ \A w \in writes' : Ahead(j, w.table, sent[j])
  BY <1>1
<1>4. sent[j] <= now' /\ Behind(j, sent[j]) BY <1>1, <1>2 DEF OnceHolds
<1>5. loop' = j => /\ stamp # 0 /\ stamp <= now' /\ Behind(j, stamp) /\ Ahead(j, jobs', stamp)
                   /\ sent[j] # 0 => Again(j, sent[j], stamp)
  <2> SUFFICES ASSUME loop' = j
               PROVE  /\ stamp # 0 /\ stamp <= now' /\ Behind(j, stamp) /\ Ahead(j, jobs', stamp)
                      /\ sent[j] # 0 => Again(j, sent[j], stamp)
    OBVIOUS
  <2>1. loop = j /\ jobs' = jobs OBVIOUS
  <2> QED BY <1>1, <1>2, <2>1 DEF OnceHolds
<1> QED BY <1>3, <1>4, <1>5 DEF OnceHolds

LEMMA CronStarts == CronInit => CronIInv
<1> SUFFICES ASSUME CronInit PROVE CronIInv OBVIOUS
<1> USE DEF CronInit
<1>1. Empty \in Tables /\ DOMAIN Empty = {}
  <2>1. Empty \in [{} -> Runs] BY DEF Empty
  <2> QED BY <2>1, TableMade
<1>2. disk \in Tables \union {Corrupt} /\ \A j \in Jobs : Ahead(j, disk, 0)
  <2>1. CASE disk = Corrupt BY <2>1, CorruptFacts
  <2>2. ASSUME NEW kept \in SUBSET Jobs, disk = [j \in kept |-> Job(TRUE, NextRunAfter(j, 0), "none")]
        PROVE  disk \in Tables /\ \A j \in Jobs : Ahead(j, disk, 0)
    <3>1. \A j \in Jobs : /\ NextRunAfter(j, 0) \in Nat
                          /\ Schedule[j].kind = "at" => NextRunAfter(j, 0) \in Schedule[j].when \union {Never}
      BY NextRunFacts
    <3>2. \A j \in kept : Job(TRUE, NextRunAfter(j, 0), "none") \in Runs BY <3>1 DEF Job, Runs
    <3>3. disk \in [kept -> Runs] BY <2>2, <3>2
    <3>4. disk \in Tables BY <3>3, TableMade
    <3>5. ASSUME NEW j \in Jobs, j \in DOMAIN disk, Schedule[j].kind = "at"
          PROVE  disk[j].next \in Schedule[j].when \union {Never}
      BY <2>2, <3>1, <3>5 DEF Job
    <3> QED BY <3>4, <3>5 DEF Ahead
  <2> QED BY <2>1, <2>2
<1>3. loop \notin Jobs /\ loop = "down" BY CronConstants DEF LoopStates
<1>4. CronTypeOK
  <2>1. sent \in [Jobs -> Nat] OBVIOUS
  <2>2. loop \in LoopStates \union Jobs BY DEF LoopStates
  <2>3. writes \subseteq [by : {"load", "loop", "call", "nobody"}, table : Tables] OBVIOUS
  <2>4. call \in {NoCall} \union [op : CronOps, job : Jobs, at : {"lock", "disk"}] OBVIOUS
  <2>5. /\ jobs = Empty /\ now = 1 /\ cronCrashes = 0 /\ calls = 0 /\ stamp = 0 /\ until = 0
        /\ wake = FALSE /\ lock = "none" /\ degraded = FALSE /\ stopped = FALSE
        /\ asked = {} /\ refused = {} /\ untidy = {}
    OBVIOUS
  <2> HIDE DEF CronInit
  <2>6. wake \in BOOLEAN /\ degraded \in BOOLEAN /\ stopped \in BOOLEAN BY <2>5
  <2>7. /\ now \in Nat \ {0} /\ cronCrashes \in Nat /\ calls \in Nat
        /\ stamp \in Nat /\ until \in Nat /\ lock \in {"none", "loop", "call"}
        /\ asked \subseteq Jobs /\ refused \subseteq Jobs
        /\ untidy \subseteq {"failed", "early", "left"}
    BY <2>5
  <2> QED BY <1>1, <1>2, <2>1, <2>2, <2>3, <2>4, <2>5, <2>6, <2>7 DEF CronTypeOK
<1>5. WritesHold BY <1>3 DEF WritesHold, Mine, NoCall
<1>6. DurableHolds BY DEF DurableHolds
<1>7. RunsHold
  <2> SUFFICES ASSUME NEW j \in Jobs PROVE OnceHolds(j) BY DEF RunsHold
  <2>1. sent[j] = 0 /\ writes = {} /\ now = 1 /\ loop # j BY <1>3
  <2>2. Ahead(j, jobs, 0) BY <1>1 DEF Ahead
  <2> QED BY <1>2, <2>1, <2>2 DEF OnceHolds, Behind
<1> QED BY <1>4, <1>5, <1>6, <1>7 DEF CronIInv

(* The steps that change no table and no write.                            *)
LEMMA CronQuietStep ==
  ASSUME CronIInv, CronTypeOK', now' >= now,
         UNCHANGED <<disk, writes, jobs, stamp, lock, degraded, sent, asked, untidy>>,
         call'.at = "disk" <=> call.at = "disk",
         call' # NoCall => loop' # "down",
         \/ loop' = loop
         \/ loop = "down" /\ loop' = "reading"
         \/ loop \in {"ready", "asleep", "yielded"} /\ loop' \in {"ready", "ended"},
         loop' = "asleep" => wake' \/ (wake' = wake /\ until' = until)
  PROVE  CronIInv'
<1> USE DEF CronIInv
<1>0. Jobs \intersect LoopStates = {} BY CronConstants
<1>1. WritesHold'
  <2>1. lock' = "loop" <=> loop' \in Jobs \union {"saving"} BY <1>0 DEF WritesHold, LoopStates
  <2>2. loop' = "reading" /\ loop # "reading" => lock # "call" BY DEF WritesHold, NoCall
  <2> QED BY <1>0, <2>1, <2>2 DEF WritesHold, Mine, LoopStates
<1>2. DurableHolds'
  <2>1. Upcoming(jobs)' = Upcoming(jobs) BY DEF Upcoming
  <2> QED BY <2>1 DEF DurableHolds, LoopStates
<1>3. RunsHold'
  <2>1. loop' \in Jobs => loop' = loop BY <1>0 DEF LoopStates
  <2> QED BY <2>1, RunsKept DEF OnceHolds
<1> QED BY <1>1, <1>2, <1>3

LEMMA CronQuiet ==
  ASSUME CronIInv, Start \/ NextDue \/ Wake \/ Consumed \/ Stop \/ Tick \/ UNCHANGED cronVars
  PROVE  CronIInv'
<1> USE DEF cronFile, history, cronVars
<1>0. CronTypeOK /\ now \in Nat /\ WritesHold BY DEF CronIInv, CronTypeOK
<1>1. /\ UNCHANGED <<disk, writes, jobs, stamp, lock, degraded, sent, asked, untidy, call, refused, calls, cronCrashes>>
      /\ now' \in {now, now + 1}
      /\ \/ loop' = loop
         \/ loop = "down" /\ loop' = "reading"
         \/ loop \in {"ready", "asleep", "yielded"} /\ loop' \in {"ready", "ended"}
      /\ wake' = wake \/ wake' = TRUE
      /\ until' = until
      /\ stopped' = stopped \/ stopped' = TRUE
  <2>1. CASE Start BY <2>1 DEF Start
  <2>2. CASE NextDue BY <2>2 DEF NextDue
  <2>3. CASE Wake BY <2>3 DEF Wake
  <2>4. CASE Consumed BY <2>4 DEF Consumed
  <2>5. CASE Stop BY <2>5 DEF Stop
  <2>6. CASE Tick BY <2>6 DEF Tick
  <2> QED BY <2>1, <2>2, <2>3, <2>4, <2>5, <2>6
<1>2. CronTypeOK'
  <2>1. wake' \in BOOLEAN /\ stopped' \in BOOLEAN BY <1>0, <1>1 DEF CronTypeOK
  <2>2. now' \in Nat \ {0} BY <1>0, <1>1 DEF CronTypeOK
  <2>3. loop' \in LoopStates \union Jobs BY <1>0, <1>1 DEF CronTypeOK, LoopStates
  <2> QED BY <1>0, <1>1, <2>1, <2>2, <2>3 DEF CronTypeOK
<1>3. call' # NoCall => loop' # "down"
  BY <1>0, <1>1 DEF WritesHold
<1>4. loop' = "asleep" => wake' \/ (wake' = wake /\ until' = until) BY <1>1
<1>5. now' >= now BY <1>0, <1>1
<1> QED BY <1>1, <1>2, <1>3, <1>4, <1>5, CronQuietStep

LEMMA CronCallStep ==
  ASSUME CronIInv, (\E s \in Sessions, j \in Jobs, o \in CronOps : Call(s, o, j)) \/ Refuse
  PROVE  CronIInv'
<1> USE DEF cronFile, history
<1>0. CronTypeOK /\ now \in Nat /\ now >= now BY DEF CronIInv, CronTypeOK
<1>1. /\ UNCHANGED <<disk, writes, jobs, stamp, lock, degraded, sent, asked, untidy, now, cronCrashes,
                     loop, wake, until, stopped>>
      /\ calls' \in Nat
      /\ call.at # "disk" /\ call'.at # "disk"
      /\ call' \in {NoCall} \union [op : CronOps, job : Jobs, at : {"lock", "disk"}]
      /\ refused' \subseteq Jobs
      /\ call' # NoCall => loop' # "down"
  <2>1. ASSUME NEW s \in Sessions, NEW j \in Jobs, NEW o \in CronOps, Call(s, o, j)
        PROVE  <1>1!1 /\ <1>1!2 /\ <1>1!3 /\ <1>1!4 /\ <1>1!5 /\ <1>1!6
    BY <1>0, <2>1 DEF Call, CronTypeOK, NoCall
  <2>2. CASE Refuse
    <3>1. call \in [op : CronOps, job : Jobs, at : {"lock", "disk"}]
      BY <1>0, <2>2 DEF Refuse, CronTypeOK, NoCall
    <3> QED BY <1>0, <2>2, <3>1 DEF Refuse, CronTypeOK, NoCall
  <2> QED BY <2>1, <2>2
<1>2. CronTypeOK' BY <1>0, <1>1 DEF CronTypeOK
<1> QED BY <1>0, <1>1, <1>2, CronQuietStep

LEMMA CronLoadStep == CronIInv /\ Load => CronIInv'
<1> SUFFICES ASSUME CronIInv, Load PROVE CronIInv' OBVIOUS
<1> USE DEF history
<1>0. /\ CronTypeOK /\ WritesHold /\ now \in Nat /\ now' = now /\ loop = "reading"
      /\ UNCHANGED <<now, cronCrashes, calls, stamp, until, wake, lock, stopped, call, sent, asked, untidy, refused>>
  BY DEF CronIInv, CronTypeOK, Load
<1>1. "reading" \notin Jobs /\ "ready" \notin Jobs /\ "loading" \notin Jobs BY CronConstants DEF LoopStates
<1>2. Mine("load") = {} BY <1>0 DEF WritesHold
<1>3. CASE disk = Corrupt
  <2>1. /\ degraded' = TRUE /\ jobs' = Empty /\ loop' = "ready"
        /\ disk' \in {Corrupt, Empty} /\ writes' = writes
    BY <1>3 DEF Load
  <2>2. Empty \in Tables /\ DOMAIN Empty = {}
    <3>1. Empty \in [{} -> Runs] BY DEF Empty
    <3> QED BY <3>1, TableMade
  <2>3. CronTypeOK' BY <1>0, <2>1, <2>2 DEF CronTypeOK, LoopStates
  <2>4. WritesHold'
    <3>1. lock # "loop" BY <1>0, <1>1 DEF WritesHold
    <3> QED BY <1>0, <1>1, <2>1, <3>1 DEF WritesHold, Mine
  <2>5. DurableHolds' BY <2>1 DEF DurableHolds
  <2>6. RunsHold'
    <3>1. \A j \in Jobs : Ahead(j, Empty, sent[j]) BY <2>2 DEF Ahead
    <3>2. \A j \in Jobs : Ahead(j, Corrupt, sent[j]) BY CorruptFacts
    <3>3. \A j \in Jobs \ asked' : OnceHolds(j) =>
             /\ Ahead(j, jobs', sent[j]) /\ Ahead(j, disk', sent[j])
             /\ \A w \in writes' : Ahead(j, w.table, sent[j])
      BY <2>1, <3>1, <3>2 DEF OnceHolds
    <3> QED BY <1>0, <1>1, <2>1, <2>3, <3>3, RunsKept
  <2> QED BY <2>3, <2>4, <2>5, <2>6 DEF CronIInv
<1>4. CASE disk # Corrupt
  <2>1. /\ jobs' = Reconcile(disk, now) /\ UNCHANGED <<disk, degraded>>
        /\ IF Changed(disk, now) THEN Write("load", jobs') /\ loop' = "loading"
                                 ELSE loop' = "ready" /\ UNCHANGED writes
    BY <1>4 DEF Load
  <2>2. disk \in Tables BY <1>0, <1>4 DEF CronTypeOK
  <2>3. /\ jobs' \in Tables /\ (~Changed(disk, now) => jobs' = disk)
        /\ \A j \in Jobs, s \in Nat : s <= now /\ Behind(j, s) /\ Ahead(j, disk, s) => Ahead(j, jobs', s)
    BY <1>0, <2>1, <2>2, LapseFacts
  <2>4. /\ loop' \in {"ready", "loading"}
        /\ loop' = "ready" => ~Changed(disk, now) /\ writes' = writes
        /\ loop' = "loading" => writes' = writes \union {[by |-> "load", table |-> jobs']}
    BY <2>1 DEF Write
  <2>5. CronTypeOK'
    <3>1. writes' \subseteq [by : {"load", "loop", "call", "nobody"}, table : Tables]
      BY <1>0, <2>3, <2>4 DEF CronTypeOK
    <3> QED BY <1>0, <2>1, <2>3, <2>4, <3>1 DEF CronTypeOK, LoopStates
  <2>6. WritesHold'
    <3>1. lock # "loop" /\ Mine("loop") = {} BY <1>0, <1>1 DEF WritesHold
    <3>2. /\ Mine("loop")' = Mine("loop") /\ Mine("call")' = Mine("call")
          /\ Mine("nobody")' = Mine("nobody")
          /\ loop' = "loading" => Mine("load")' = {[by |-> "load", table |-> jobs']}
          /\ loop' = "ready" => Mine("load")' = {}
      BY <1>2, <2>4 DEF Mine
    <3>3. lock = "call" => "early" \in untidy BY <1>0 DEF WritesHold
    <3>4. \A v, w \in writes' : v.by = w.by /\ v.by # "nobody" => v = w
      BY <1>0, <1>2, <2>4 DEF WritesHold, Mine
    <3> QED BY <1>0, <1>1, <2>4, <3>1, <3>2, <3>3, <3>4 DEF WritesHold
  <2>7. DurableHolds' BY <2>1, <2>3, <2>4 DEF DurableHolds
  <2>8. RunsHold'
    <3>1. ASSUME NEW j \in Jobs, OnceHolds(j)
          PROVE  /\ Ahead(j, jobs', sent[j]) /\ Ahead(j, disk', sent[j])
                 /\ \A w \in writes' : Ahead(j, w.table, sent[j])
      <4>1. /\ sent[j] \in Nat /\ sent[j] <= now /\ Behind(j, sent[j]) /\ Ahead(j, disk, sent[j])
            /\ \A w \in writes : Ahead(j, w.table, sent[j])
        BY <1>0, <3>1 DEF OnceHolds, CronTypeOK
      <4>2. Ahead(j, jobs', sent[j]) BY <2>3, <4>1
      <4> QED BY <2>1, <2>4, <4>1, <4>2
    <3> QED BY <1>0, <1>1, <2>4, <2>5, <3>1, RunsKept
  <2> QED BY <2>5, <2>6, <2>7, <2>8 DEF CronIInv
<1> QED BY <1>3, <1>4

LEMMA CronLoadedStep == CronIInv /\ Loaded => CronIInv'
<1> SUFFICES ASSUME CronIInv, Loaded PROVE CronIInv' OBVIOUS
<1>0. /\ CronTypeOK /\ WritesHold /\ now \in Nat /\ now' = now /\ loop = "loading"
      /\ UNCHANGED <<now, cronCrashes, calls, stamp, jobs, until, wake, lock, degraded, stopped, call, sent,
                     asked, refused>>
  BY DEF CronIInv, CronTypeOK, Loaded
<1>1. "loading" \notin Jobs /\ "ready" \notin Jobs /\ "failed" \notin Jobs BY CronConstants DEF LoopStates
<1>2. PICK w \in Mine("load") :
        \/ Lands(w) /\ loop' = "ready" /\ UNCHANGED untidy
        \/ writes' = writes \ {w} /\ disk' = disk /\ loop' = "failed" /\ untidy' = untidy \union {"failed"}
  BY DEF Loaded
<1>3. w \in writes /\ w.by = "load" BY <1>2 DEF Mine
<1>4. /\ writes' = writes \ {w}
      /\ loop' \in {"ready", "failed"} /\ untidy' \in {untidy, untidy \union {"failed"}}
      /\ disk' \in {v.table : v \in writes} \union {disk, Corrupt} /\ disk' \in Tables \union {Corrupt}
      /\ untidy' = {} => Lands(w) /\ loop' = "ready" /\ untidy = {}
  <2>1. disk \in Tables \union {Corrupt} BY <1>0 DEF CronTypeOK
  <2>2. Lands(w) => /\ writes' = writes \ {w}
                    /\ disk' \in {v.table : v \in writes} \union {Corrupt} /\ disk' \in Tables \union {Corrupt}
    BY <1>0, <1>3, LandsFacts
  <2> QED BY <1>2, <2>1, <2>2
<1>5. CronTypeOK' BY <1>0, <1>4 DEF CronTypeOK, LoopStates
<1>6. WritesHold'
  <2>1. Mine("load")' = {} BY <1>0, <1>3, <1>4 DEF Mine, WritesHold
  <2>2. /\ Mine("loop")' = Mine("loop") /\ Mine("call")' = Mine("call")
        /\ Mine("nobody")' = Mine("nobody")
    BY <1>3, <1>4 DEF Mine
  <2>3. \A u, v \in writes' : u.by = v.by /\ u.by # "nobody" => u = v BY <1>0, <1>4 DEF WritesHold
  <2>4. lock # "loop" /\ ("early" \notin untidy => lock # "call") BY <1>0, <1>1 DEF WritesHold
  <2> QED BY <1>0, <1>1, <1>4, <2>1, <2>2, <2>3, <2>4 DEF WritesHold
<1>7. DurableHolds'
  <2> SUFFICES ASSUME untidy' = {} PROVE disk' = jobs /\ loop' = "ready"
    BY <1>0 DEF DurableHolds
  <2>1. Lands(w) /\ loop' = "ready" /\ untidy = {} BY <1>4
  <2>2. writes = {[by |-> "load", table |-> jobs]} BY <1>0, <2>1, OnlyWriter
  <2>3. disk' = w.table BY <1>0, <1>3, <2>1, <2>2, LandsFacts
  <2> QED BY <1>3, <2>1, <2>2, <2>3
<1>8. RunsHold'
  <2>1. ASSUME NEW j \in Jobs, OnceHolds(j)
        PROVE  /\ Ahead(j, jobs', sent[j]) /\ Ahead(j, disk', sent[j])
               /\ \A v \in writes' : Ahead(j, v.table, sent[j])
    BY <1>0, <1>4, <2>1, CorruptFacts DEF OnceHolds
  <2> QED BY <1>0, <1>1, <1>4, <1>5, <2>1, RunsKept
<1> QED BY <1>5, <1>6, <1>7, <1>8 DEF CronIInv

LEMMA CronSaveFailsStep == CronIInv /\ SaveFails => CronIInv'
<1> SUFFICES ASSUME CronIInv, SaveFails PROVE CronIInv' OBVIOUS
<1>0. /\ CronTypeOK /\ WritesHold /\ now \in Nat /\ now' = now
      /\ lock = "loop" /\ loop \in Jobs \union {"saving"}
      /\ writes' = writes \ Mine("loop") /\ lock' = "none" /\ loop' = "failed"
      /\ untidy' = untidy \union {"failed"}
      /\ UNCHANGED <<now, cronCrashes, calls, stamp, disk, jobs, until, wake, degraded, stopped, call, sent,
                     asked, refused>>
  BY DEF CronIInv, CronTypeOK, SaveFails
<1>1. "failed" \notin Jobs /\ "loading" \notin Jobs BY CronConstants DEF LoopStates
<1>2. CronTypeOK' BY <1>0 DEF CronTypeOK, LoopStates
<1>3. WritesHold'
  <2>1. /\ Mine("loop")' = {} /\ Mine("call")' = Mine("call")
        /\ Mine("nobody")' = Mine("nobody") /\ Mine("load")' = Mine("load")
    BY <1>0 DEF Mine
  <2>2. \A u, v \in writes' : u.by = v.by /\ u.by # "nobody" => u = v BY <1>0 DEF WritesHold
  <2>3. call.at # "disk" BY <1>0 DEF WritesHold
  <2> QED BY <1>0, <1>1, <2>1, <2>2, <2>3 DEF WritesHold
<1>4. DurableHolds' BY <1>0 DEF DurableHolds
<1>5. RunsHold'
  <2>1. ASSUME NEW j \in Jobs, OnceHolds(j)
        PROVE  /\ Ahead(j, jobs', sent[j]) /\ Ahead(j, disk', sent[j])
               /\ \A v \in writes' : Ahead(j, v.table, sent[j])
    BY <1>0, <2>1 DEF OnceHolds
  <2> QED BY <1>0, <1>1, <1>2, <2>1, RunsKept
<1> QED BY <1>2, <1>3, <1>4, <1>5 DEF CronIInv

(* The job that is taken: its moment has come, and it is not too early.     *)
LEMMA TakenFacts ==
  ASSUME CronTypeOK, NEW f \in Tables, NEW j \in Earliest(f, now)
  PROVE  /\ j \in Jobs /\ j \in DOMAIN f /\ f[j] \in Runs /\ f[j].next # Never /\ f[j].next <= now
         /\ WithRun(f[j], "dispatched", NextRunAfter(j, now)) \in Runs
         /\ WithRun(f[j], "dispatched", NextRunAfter(j, now)).next = NextRunAfter(j, now)
         /\ [f EXCEPT ![j] = WithRun(@, "dispatched", NextRunAfter(j, now))] \in Tables
<1>0. now \in Nat BY DEF CronTypeOK
<1>1. j \in DOMAIN f /\ f[j].on /\ DueDecision(f[j].next, now) = "due" BY DEF Earliest, Due
<1>2. j \in Jobs /\ f[j] \in Runs BY <1>1, TableFacts
<1>3. f[j].next # Never /\ f[j].next <= now
  <2>1. f[j].next \in Nat BY <1>2 DEF Runs
  <2> QED BY <1>0, <1>1, <2>1 DEF DueDecision
<1>4. NextRunAfter(j, now) \in Nat BY <1>0, <1>2, NextRunFacts
<1>5. /\ WithRun(f[j], "dispatched", NextRunAfter(j, now)) \in Runs
      /\ WithRun(f[j], "dispatched", NextRunAfter(j, now)).next = NextRunAfter(j, now)
  BY <1>2, <1>4 DEF WithRun, Runs
<1>6. [f EXCEPT ![j] = WithRun(@, "dispatched", NextRunAfter(j, now))] \in [DOMAIN f -> Runs]
  BY <1>1, <1>5, TableFacts
<1> QED BY <1>1, <1>2, <1>3, <1>5, <1>6, TableMade, TableFacts

LEMMA TakenRuns ==
  ASSUME CronIInv, now \in Nat \ {0}, NEW f \in Tables, NEW j \in Jobs,
         \A i \in Jobs, s \in Nat : s <= now /\ Behind(i, s) /\ Ahead(i, jobs, s) => Ahead(i, f, s),
         j \in DOMAIN f, f[j] \in Runs, f[j].next # Never, f[j].next <= now,
         DOMAIN jobs' = DOMAIN f, jobs'[j].next = NextRunAfter(j, now),
         \A i \in DOMAIN f \ {j} : jobs'[i] = f[i],
         loop' = j, stamp' = now, writes' = writes \union {[by |-> "loop", table |-> jobs']},
         UNCHANGED <<now, disk, sent, asked, untidy>>
  PROVE  RunsHold'
<1>0. CronTypeOK BY DEF CronIInv
<1> SUFFICES ASSUME "left" \notin untidy, NEW i \in Jobs \ asked PROVE OnceHolds(i)' BY DEF RunsHold
<1>1. OnceHolds(i) BY DEF CronIInv, RunsHold
<1>2. /\ sent[i] \in Nat /\ sent[i] <= now /\ Behind(i, sent[i]) /\ Ahead(i, disk, sent[i])
      /\ \A w \in writes : Ahead(i, w.table, sent[i])
      /\ Ahead(i, f, sent[i])
  BY <1>0, <1>1 DEF OnceHolds, CronTypeOK
<1>3. CASE i # j
  <2>1. Ahead(i, jobs', sent[i]) BY <1>2, <1>3 DEF Ahead
  <2>2. \A w \in writes' : Ahead(i, w.table, sent[i]) BY <1>2, <2>1
  <2> QED BY <1>2, <1>3, <2>1, <2>2 DEF OnceHolds
<1>4. CASE i = j
  <2>1. /\ Schedule[j].kind \in {"at", "every", "cron"} /\ Schedule[j].when \subseteq Nat \ {0}
        /\ Schedule[j].kind # "cron" => \E m \in Schedule[j].when : Schedule[j].when = {m}
    BY CronConstants
  <2>2. /\ Schedule[j].kind = "at" => f[j].next \in Schedule[j].when
        /\ sent[j] # 0 => Again(j, sent[j], f[j].next)
    BY <1>2, <1>4 DEF Ahead
  <2>3. Behind(j, now) BY <2>1, <2>2 DEF Behind
  <2>4. sent[j] # 0 => Again(j, sent[j], now)
    <3>1. f[j].next \in Nat BY DEF Runs
    <3> QED BY <1>2, <1>4, <2>2, <3>1, AgainLater
  <2>5. /\ Schedule[j].kind = "at" => NextRunAfter(j, now) \in Schedule[j].when \union {Never}
        /\ NextRunAfter(j, now) = Never \/ Again(j, now, NextRunAfter(j, now))
        /\ sent[j] # 0 => NextRunAfter(j, now) = Never \/ Again(j, sent[j], NextRunAfter(j, now))
    BY <1>2, <1>4, <2>3, NextRunFacts
  <2>6. Ahead(j, jobs', sent[j]) /\ Ahead(j, jobs', now) BY <2>5 DEF Ahead
  <2>7. \A w \in writes' : Ahead(j, w.table, sent[j]) BY <1>2, <1>4, <2>6
  <2> QED BY <1>2, <1>4, <2>3, <2>4, <2>6, <2>7 DEF OnceHolds
<1> QED BY <1>3, <1>4

LEMMA DispatchStep ==
  ASSUME CronIInv, NEW f \in Tables,
         \A i \in Jobs, s \in Nat : s <= now /\ Behind(i, s) /\ Ahead(i, jobs, s) => Ahead(i, f, s),
         NEW j \in Earliest(f, now), loop = "ready", lock = "none",
         jobs' = [f EXCEPT ![j] = WithRun(@, "dispatched", NextRunAfter(j, now))],
         loop' = j, stamp' = now, lock' = "loop", Write("loop", jobs'),
         UNCHANGED <<now, cronCrashes, calls, until, wake, disk, degraded, stopped, call, sent, asked,
                     untidy, refused>>
  PROVE  CronIInv'
<1>0. CronTypeOK /\ WritesHold /\ now \in Nat \ {0} BY DEF CronIInv, CronTypeOK
<1>1. /\ j \in Jobs /\ j \in DOMAIN f /\ f[j] \in Runs /\ f[j].next # Never /\ f[j].next <= now
      /\ WithRun(f[j], "dispatched", NextRunAfter(j, now)) \in Runs
      /\ WithRun(f[j], "dispatched", NextRunAfter(j, now)).next = NextRunAfter(j, now)
      /\ jobs' \in Tables
  BY <1>0, TakenFacts
<1>2. /\ DOMAIN jobs' = DOMAIN f /\ jobs'[j].next = NextRunAfter(j, now)
      /\ \A i \in DOMAIN f \ {j} : jobs'[i] = f[i]
  BY <1>1, TableFacts
<1>3. writes' = writes \union {[by |-> "loop", table |-> jobs']} BY DEF Write
<1>4. j \notin LoopStates BY <1>1, CronConstants
<1>5. CronTypeOK'
  <2>1. writes' \subseteq [by : {"load", "loop", "call", "nobody"}, table : Tables]
    <3>1. [by |-> "loop", table |-> jobs'] \in [by : {"load", "loop", "call", "nobody"}, table : Tables]
      BY <1>1
    <3> QED BY <1>0, <1>3, <3>1 DEF CronTypeOK
  <2> QED BY <1>0, <1>1, <2>1 DEF CronTypeOK
<1>6. WritesHold'
  <2>1. Mine("loop") = {} /\ Mine("call") = {} /\ Mine("load") = {} /\ call.at # "disk"
    BY <1>0 DEF WritesHold
  <2>2. /\ Mine("loop")' = {[by |-> "loop", table |-> jobs']} /\ Mine("call")' = {}
        /\ Mine("nobody")' = Mine("nobody") /\ Mine("load")' = {}
    BY <1>3, <2>1 DEF Mine
  <2>3. \A u, v \in writes' : u.by = v.by /\ u.by # "nobody" => u = v
    BY <1>0, <1>3, <2>1 DEF WritesHold, Mine
  <2> QED BY <1>0, <1>1, <1>4, <2>1, <2>2, <2>3 DEF WritesHold, LoopStates
<1>7. DurableHolds' BY DEF DurableHolds
<1>8. RunsHold' BY <1>0, <1>1, <1>2, <1>3, TakenRuns
<1> QED BY <1>5, <1>6, <1>7, <1>8 DEF CronIInv

LEMMA TakeDueStep == CronIInv /\ TakeDue => CronIInv'
<1> SUFFICES ASSUME CronIInv, TakeDue PROVE CronIInv' OBVIOUS
<1> USE DEF history
<1> DEFINE agenda == Reconcile(jobs, now)
<1>0. /\ CronTypeOK /\ WritesHold /\ now \in Nat /\ jobs \in Tables
      /\ loop = "ready" /\ ~degraded /\ ~stopped /\ lock = "none"
      /\ UNCHANGED <<now, cronCrashes, calls, disk, degraded, stopped, call, sent, asked, untidy, refused>>
  BY DEF CronIInv, CronTypeOK, TakeDue
<1>1. /\ agenda \in Tables /\ (~Changed(jobs, now) => agenda = jobs)
      /\ \A i \in Jobs, s \in Nat : s <= now /\ Behind(i, s) /\ Ahead(i, jobs, s) => Ahead(i, agenda, s)
  BY <1>0, LapseFacts
<1>2. CASE Due(agenda, now) # {}
  <2>1. PICK j \in Earliest(agenda, now) :
          /\ jobs' = [agenda EXCEPT ![j] = WithRun(@, "dispatched", NextRunAfter(j, now))]
          /\ loop' = j /\ stamp' = now
    BY <1>2 DEF TakeDue
  <2>2. lock' = "loop" /\ Write("loop", jobs') /\ UNCHANGED <<until, wake>> BY <1>2 DEF TakeDue
  <2> HIDE DEF agenda
  <2> QED BY <1>0, <1>1, <2>1, <2>2, DispatchStep
<1>3. CASE Due(agenda, now) = {} /\ Changed(jobs, now)
  <2>1. /\ jobs' = agenda /\ lock' = "loop" /\ loop' = "saving" /\ Write("loop", agenda)
        /\ UNCHANGED <<until, wake, stamp>>
    BY <1>3 DEF TakeDue
  <2> HIDE DEF agenda
  <2>2. writes' = writes \union {[by |-> "loop", table |-> jobs']} BY <2>1 DEF Write
  <2>3. CronTypeOK'
    <3>1. writes' \subseteq [by : {"load", "loop", "call", "nobody"}, table : Tables]
      BY <1>0, <1>1, <2>1, <2>2 DEF CronTypeOK
    <3> QED BY <1>0, <1>1, <2>1, <3>1 DEF CronTypeOK, LoopStates
  <2>4. WritesHold'
    <3>1. Mine("loop") = {} /\ Mine("call") = {} /\ Mine("load") = {} /\ call.at # "disk"
      BY <1>0 DEF WritesHold
    <3>2. /\ Mine("loop")' = {[by |-> "loop", table |-> jobs']} /\ Mine("call")' = {}
          /\ Mine("nobody")' = Mine("nobody") /\ Mine("load")' = {}
      BY <2>2, <3>1 DEF Mine
    <3>3. \A u, v \in writes' : u.by = v.by /\ u.by # "nobody" => u = v
      BY <1>0, <2>2, <3>1 DEF WritesHold, Mine
    <3> QED BY <1>0, <2>1, <3>1, <3>2, <3>3 DEF WritesHold
  <2>5. DurableHolds' BY <2>1 DEF DurableHolds
  <2>6. RunsHold'
    <3>1. ASSUME NEW j \in Jobs, OnceHolds(j)
          PROVE  /\ Ahead(j, jobs', sent[j]) /\ Ahead(j, disk', sent[j])
                 /\ \A w \in writes' : Ahead(j, w.table, sent[j])
      <4>1. /\ sent[j] \in Nat /\ sent[j] <= now /\ Behind(j, sent[j]) /\ Ahead(j, disk, sent[j])
            /\ Ahead(j, jobs, sent[j]) /\ \A w \in writes : Ahead(j, w.table, sent[j])
        BY <1>0, <3>1 DEF OnceHolds, CronTypeOK
      <4>2. Ahead(j, jobs', sent[j]) BY <1>1, <2>1, <4>1
      <4> QED BY <1>0, <2>2, <4>1, <4>2
    <3>2. "saving" \notin Jobs BY CronConstants DEF LoopStates
    <3> QED BY <1>0, <2>1, <2>3, <3>1, <3>2, RunsKept
  <2> QED BY <2>3, <2>4, <2>5, <2>6 DEF CronIInv
<1>4. CASE Due(agenda, now) = {} /\ ~Changed(jobs, now)
  <2>1. /\ jobs' = agenda /\ Sleep(agenda) /\ UNCHANGED <<lock, writes, stamp>>
    BY <1>4 DEF TakeDue
  <2> HIDE DEF agenda
  <2>2. /\ jobs' = jobs /\ loop' = "asleep" /\ until' = Delay(jobs, now) /\ wake' = FALSE
    BY <1>1, <1>4, <2>1 DEF Sleep
  <2>3. until' \in Nat /\ \A m \in Upcoming(jobs) : until' <= m BY <1>0, <2>2, LapsedSoon
  <2>4. CronTypeOK' BY <1>0, <2>1, <2>2, <2>3 DEF CronTypeOK, LoopStates
  <2>5. "asleep" \notin Jobs /\ "ready" \notin Jobs BY CronConstants DEF LoopStates
  <2>6. WritesHold' BY <1>0, <2>1, <2>2, <2>5 DEF WritesHold, Mine
  <2>7. DurableHolds'
    <3>1. Upcoming(jobs') = Upcoming(jobs) BY <2>2
    <3>2. untidy = {} => disk = jobs BY <1>0 DEF CronIInv, DurableHolds
    <3> QED BY <1>0, <2>2, <2>3, <3>1, <3>2 DEF DurableHolds
  <2>8. RunsHold'
    <3>1. ASSUME NEW j \in Jobs, OnceHolds(j)
          PROVE  /\ Ahead(j, jobs', sent[j]) /\ Ahead(j, disk', sent[j])
                 /\ \A w \in writes' : Ahead(j, w.table, sent[j])
      BY <1>0, <2>1, <2>2, <3>1 DEF OnceHolds
    <3> QED BY <1>0, <2>1, <2>2, <2>4, <2>5, <3>1, RunsKept
  <2> QED BY <2>4, <2>6, <2>7, <2>8 DEF CronIInv
<1> QED BY <1>2, <1>3, <1>4

LEMMA CronSavedStep == CronIInv /\ Saved => CronIInv'
<1> SUFFICES ASSUME CronIInv, Saved PROVE CronIInv' OBVIOUS
<1>0. /\ CronTypeOK /\ WritesHold /\ now \in Nat /\ now' = now /\ jobs \in Tables
      /\ lock = "loop" /\ loop \in Jobs \union {"saving"} /\ lock' = "none"
      /\ UNCHANGED <<now, cronCrashes, calls, stamp, jobs, degraded, stopped, call, asked, untidy, refused>>
  BY DEF CronIInv, CronTypeOK, Saved
<1>1. Jobs \intersect LoopStates = {} BY CronConstants
<1>2. PICK w \in Mine("loop") : Lands(w) BY DEF Saved
<1>3. w \in writes /\ w = [by |-> "loop", table |-> jobs] BY <1>0, <1>2 DEF WritesHold, Mine
<1>4. /\ writes' = writes \ {w}
      /\ disk' \in {v.table : v \in writes} \union {Corrupt} /\ disk' \in Tables \union {Corrupt}
      /\ writes = {w} => disk' = jobs
  BY <1>0, <1>2, <1>3, LandsFacts
<1>5. "left" \notin untidy => writes = {w} /\ disk' = jobs BY <1>0, <1>3, <1>4, OnlyWriter
<1>6. loop' \in {"yielded", "asleep"} /\ until' \in Nat /\ wake' \in BOOLEAN
  <2>1. Delay(jobs, now) \in Nat BY <1>0, LapsedSoon
  <2> QED BY <1>0, <2>1 DEF Saved, Sleep, CronTypeOK
<1>7. sent' \in [Jobs -> Nat] BY <1>0 DEF Saved, CronTypeOK
<1>8. CronTypeOK'
  <2>1. writes' \subseteq [by : {"load", "loop", "call", "nobody"}, table : Tables]
    BY <1>0, <1>4 DEF CronTypeOK
  <2> QED BY <1>0, <1>4, <1>6, <1>7, <2>1 DEF CronTypeOK, LoopStates
<1>9. WritesHold'
  <2>1. /\ Mine("loop")' = {} /\ Mine("call")' = Mine("call")
        /\ Mine("nobody")' = Mine("nobody") /\ Mine("load")' = Mine("load")
    BY <1>0, <1>3, <1>4 DEF Mine, WritesHold
  <2>2. \A u, v \in writes' : u.by = v.by /\ u.by # "nobody" => u = v BY <1>0, <1>4 DEF WritesHold
  <2>3. call.at # "disk" /\ loop # "loading" BY <1>0, <1>1 DEF WritesHold, LoopStates
  <2> QED BY <1>0, <1>1, <1>6, <2>1, <2>2, <2>3 DEF WritesHold, LoopStates
<1>10. DurableHolds'
  <2> SUFFICES ASSUME untidy = {} PROVE disk' = jobs /\ (loop' = "asleep" => \A m \in Upcoming(jobs) : until' <= m)
    BY <1>0 DEF DurableHolds, Upcoming
  <2>1. loop' = "asleep" => until' = Delay(jobs, now) BY DEF Saved, Sleep
  <2> QED BY <1>0, <1>5, <2>1, LapsedSoon
<1>11. RunsHold'
  <2> SUFFICES ASSUME "left" \notin untidy, NEW j \in Jobs \ asked PROVE OnceHolds(j)'
    BY <1>0 DEF RunsHold
  <2>1. OnceHolds(j) BY DEF CronIInv, RunsHold
  <2>2. writes' = {} /\ disk' = jobs /\ loop' # j BY <1>1, <1>4, <1>5, <1>6 DEF LoopStates
  <2>3. CASE loop = j
    <3>1. sent'[j] = stamp BY <1>0, <2>3 DEF Saved, CronTypeOK
    <3> QED BY <1>0, <2>1, <2>2, <2>3, <3>1 DEF OnceHolds
  <2>4. CASE loop # j
    <3>1. sent'[j] = sent[j] BY <1>0, <2>4 DEF Saved, CronTypeOK
    <3> QED BY <1>0, <2>1, <2>2, <3>1 DEF OnceHolds
  <2> QED BY <2>3, <2>4
<1> QED BY <1>8, <1>9, <1>10, <1>11 DEF CronIInv

(* A call of a session: the change of the table, and how its write ends.    *)

LEMMA ApplyTable ==
  ASSUME CronIInv, Apply
  PROVE  /\ jobs' \in Tables
         /\ \A j \in Jobs \ asked' : OnceHolds(j) => Ahead(j, jobs', sent[j])
<1>0. CronTypeOK /\ now \in Nat /\ jobs \in Tables /\ call.at = "lock" BY DEF CronIInv, CronTypeOK, Apply
<1>1. call \in [op : CronOps, job : Jobs, at : {"lock", "disk"}] BY <1>0 DEF CronTypeOK, NoCall
<1> DEFINE c == call.job
           next == NextRunAfter(c, now)
<1>2. c \in Jobs /\ call.op \in CronOps BY <1>1
<1>3. /\ next \in Nat
      /\ Schedule[c].kind = "at" => next \in Schedule[c].when \union {Never}
      /\ \A s \in Nat : s # 0 /\ s <= now /\ Behind(c, s) => next = Never \/ Again(c, s, next)
  BY <1>0, <1>2, NextRunFacts
<1>4. DOMAIN jobs \subseteq Jobs /\ \A i \in DOMAIN jobs : jobs[i] \in Runs BY <1>0, TableFacts
<1>5. asked' = IF call.op \in {"run", "resume"} THEN asked \union {c} ELSE asked BY DEF Apply
<1>6. CASE call.op = "schedule"
  <2>1. jobs' = [i \in DOMAIN jobs \union {c} |->
                  IF i = c THEN Job(TRUE, next, "none") ELSE jobs[i]]
    BY <1>6 DEF Apply
  <2>2. Job(TRUE, next, "none") \in Runs /\ Job(TRUE, next, "none").next = next
    BY <1>3 DEF Job, Runs
  <2>3. jobs' \in [DOMAIN jobs \union {c} -> Runs]
    <3> HIDE DEF next, c
    <3> QED BY <1>4, <2>1, <2>2
  <2>4. jobs' \in Tables /\ DOMAIN jobs' = DOMAIN jobs \union {c} BY <1>2, <1>4, <2>3, TableMade
  <2>5. /\ jobs'[c].next = next
        /\ \A i \in DOMAIN jobs \ {c} : jobs'[i] = jobs[i]
    <3> HIDE DEF next, c
    <3> QED BY <2>1, <2>2
  <2>6. ASSUME NEW j \in Jobs, OnceHolds(j) PROVE Ahead(j, jobs', sent[j])
    <3>1. sent[j] \in Nat /\ sent[j] <= now /\ Behind(j, sent[j]) /\ Ahead(j, jobs, sent[j])
      BY <1>0, <2>6 DEF OnceHolds, CronTypeOK
    <3> HIDE DEF next, c
    <3>2. CASE j = c BY <1>3, <2>5, <3>1, <3>2 DEF Ahead
    <3>3. CASE j # c BY <2>4, <2>5, <3>1, <3>3 DEF Ahead
    <3> QED BY <3>2, <3>3
  <2> QED BY <2>4, <2>6
<1>7. CASE call.op = "rm"
  <2>1. jobs' = Restrict(jobs, DOMAIN jobs \ {c}) BY <1>7 DEF Apply
  <2>2. jobs' = [i \in DOMAIN jobs \ {c} |-> jobs[i]] BY <2>1 DEF Restrict
  <2>3. jobs' \in [DOMAIN jobs \ {c} -> Runs] BY <1>4, <2>2
  <2>4. jobs' \in Tables /\ DOMAIN jobs' = DOMAIN jobs \ {c} BY <1>4, <2>3, TableMade
  <2>5. ASSUME NEW j \in Jobs, OnceHolds(j) PROVE Ahead(j, jobs', sent[j])
    BY <2>2, <2>5 DEF OnceHolds, Ahead
  <2> QED BY <2>4, <2>5
<1>8. CASE call.op \in {"pause", "resume", "run"}
  <2>1. PICK r \in Runs : /\ c \in DOMAIN jobs /\ jobs' = [jobs EXCEPT ![c] = r]
                          /\ call.op = "pause" => r.next = Never
    <3>1. c \in DOMAIN jobs /\ jobs[c] \in Runs BY <1>4, <1>8 DEF Apply
    <3>2. CASE call.op = "pause"
      <4>1. Job(FALSE, Never, jobs[c].last) \in Runs /\ Job(FALSE, Never, jobs[c].last).next = Never
        BY <3>1 DEF Job, Runs, Never
      <4>2. jobs' = [jobs EXCEPT ![c] = Job(FALSE, Never, jobs[c].last)] BY <3>2 DEF Apply
      <4> QED BY <3>1, <4>1, <4>2
    <3>3. CASE call.op = "resume"
      <4>1. Job(TRUE, next, jobs[c].last) \in Runs BY <1>3, <3>1 DEF Job, Runs
      <4>2. jobs' = [jobs EXCEPT ![c] = Job(TRUE, next, jobs[c].last)] BY <3>3 DEF Apply
      <4> QED BY <3>1, <3>3, <4>1, <4>2
    <3>4. CASE call.op = "run"
      <4>1. Job(TRUE, now, jobs[c].last) \in Runs BY <1>0, <3>1 DEF Job, Runs
      <4>2. jobs' = [jobs EXCEPT ![c] = Job(TRUE, now, jobs[c].last)] BY <3>4 DEF Apply
      <4> QED BY <3>1, <3>4, <4>1, <4>2
    <3> QED BY <1>8, <3>2, <3>3, <3>4
  <2>2. jobs' \in [DOMAIN jobs -> Runs] BY <1>0, <2>1, TableFacts
  <2>3. jobs' \in Tables /\ DOMAIN jobs' = DOMAIN jobs BY <1>4, <2>2, TableMade
  <2>4. jobs'[c] = r /\ \A i \in DOMAIN jobs \ {c} : jobs'[i] = jobs[i] BY <1>0, <2>1, TableFacts
  <2>5. ASSUME NEW j \in Jobs \ asked', OnceHolds(j) PROVE Ahead(j, jobs', sent[j])
    <3>1. Ahead(j, jobs, sent[j]) BY <2>5 DEF OnceHolds
    <3>2. CASE j = c
      <4>1. r.next = Never BY <1>5, <1>8, <2>1, <2>5, <3>2
      <4> QED BY <2>4, <3>2, <4>1 DEF Ahead
    <3>3. CASE j # c BY <2>3, <2>4, <3>1, <3>3 DEF Ahead
    <3> QED BY <3>2, <3>3
  <2> QED BY <2>3, <2>5
<1> QED BY <1>2, <1>6, <1>7, <1>8 DEF CronOps

LEMMA CronApplyStep == CronIInv /\ Apply => CronIInv'
<1> SUFFICES ASSUME CronIInv, Apply PROVE CronIInv' OBVIOUS
<1>0. /\ CronTypeOK /\ WritesHold /\ now \in Nat /\ now' = now
      /\ call.at = "lock" /\ lock = "none" /\ lock' = "call" /\ call' = [call EXCEPT !.at = "disk"]
      /\ writes' = writes \union {[by |-> "call", table |-> jobs']}
      /\ asked' = IF call.op \in {"run", "resume"} THEN asked \union {call.job} ELSE asked
      /\ untidy' = IF loop \in {"reading", "loading"} THEN untidy \union {"early"} ELSE untidy
      /\ UNCHANGED <<now, cronCrashes, calls, stamp, disk, loop, until, wake, degraded, stopped, sent, refused>>
  BY DEF CronIInv, CronTypeOK, Apply, Write
<1>1. call \in [op : CronOps, job : Jobs, at : {"lock", "disk"}] /\ call # NoCall
  BY <1>0 DEF CronTypeOK, NoCall
<1>2. call' \in [op : CronOps, job : Jobs, at : {"lock", "disk"}] /\ call'.at = "disk" /\ call' # NoCall
  BY <1>0, <1>1 DEF NoCall
<1>3. /\ jobs' \in Tables
      /\ \A j \in Jobs \ asked' : OnceHolds(j) => Ahead(j, jobs', sent[j])
  BY ApplyTable
<1>4. loop \notin Jobs \union {"saving"} BY <1>0 DEF WritesHold
<1>5. CronTypeOK'
  <2>1. writes' \subseteq [by : {"load", "loop", "call", "nobody"}, table : Tables]
    BY <1>0, <1>3 DEF CronTypeOK
  <2>2. asked' \subseteq Jobs /\ untidy' \subseteq {"failed", "early", "left"} BY <1>0, <1>1 DEF CronTypeOK
  <2> QED BY <1>0, <1>2, <1>3, <2>1, <2>2 DEF CronTypeOK
<1>6. WritesHold'
  <2>1. Mine("loop") = {} /\ Mine("call") = {} BY <1>0 DEF WritesHold
  <2>2. /\ Mine("loop")' = {} /\ Mine("call")' = {[by |-> "call", table |-> jobs']}
        /\ Mine("nobody")' = Mine("nobody") /\ Mine("load")' = Mine("load")
    BY <1>0, <2>1 DEF Mine
  <2>3. \A u, v \in writes' : u.by = v.by /\ u.by # "nobody" => u = v
    BY <1>0, <2>1 DEF WritesHold, Mine
  <2>4. loop # "down" BY <1>0, <1>1 DEF WritesHold
  <2>5. "early" \notin untidy' => loop \notin {"reading", "loading"} BY <1>0
  <2>6. "left" \notin untidy' => "left" \notin untidy BY <1>0
  <2> QED BY <1>0, <1>2, <1>4, <2>2, <2>3, <2>4, <2>5, <2>6 DEF WritesHold
<1>7. DurableHolds' BY <1>0 DEF DurableHolds
<1>8. RunsHold'
  <2>1. ASSUME NEW j \in Jobs \ asked', OnceHolds(j)
        PROVE  /\ Ahead(j, jobs', sent[j]) /\ Ahead(j, disk', sent[j])
               /\ \A w \in writes' : Ahead(j, w.table, sent[j])
    <3>1. Ahead(j, jobs', sent[j]) BY <1>3, <2>1
    <3>2. Ahead(j, disk, sent[j]) /\ \A w \in writes : Ahead(j, w.table, sent[j]) BY <2>1 DEF OnceHolds
    <3> QED BY <1>0, <3>1, <3>2
  <2> QED BY <1>0, <1>4, <1>5, <2>1, RunsKept
<1> QED BY <1>5, <1>6, <1>7, <1>8 DEF CronIInv

(* The tables there are after a write has ended are tables there were.      *)
LEMMA RunsKeptByEnd ==
  ASSUME CronIInv, CronTypeOK', UNCHANGED <<now, sent, stamp, asked, loop, jobs>>,
         "left" \notin untidy' => "left" \notin untidy,
         disk' \in {v.table : v \in writes} \union {disk, Corrupt},
         \A w \in writes' : \E v \in writes : w.table = v.table
  PROVE  RunsHold'
<1>1. ASSUME NEW j \in Jobs \ asked', OnceHolds(j)
      PROVE  /\ Ahead(j, jobs', sent[j]) /\ Ahead(j, disk', sent[j])
             /\ \A w \in writes' : Ahead(j, w.table, sent[j])
  <2>1. /\ Ahead(j, jobs, sent[j]) /\ Ahead(j, disk, sent[j])
        /\ \A w \in writes : Ahead(j, w.table, sent[j])
    BY <1>1 DEF OnceHolds
  <2>2. Ahead(j, Corrupt, sent[j]) BY CorruptFacts
  <2> QED BY <2>1, <2>2
<1>2. now' >= now BY DEF CronIInv, CronTypeOK
<1> QED BY <1>1, <1>2, RunsKept

LEMMA CronAnswerStep == CronIInv /\ Answer => CronIInv'
<1> SUFFICES ASSUME CronIInv, Answer PROVE CronIInv' OBVIOUS
<1> USE DEF history
<1>0. /\ CronTypeOK /\ WritesHold /\ call.at = "disk" /\ lock = "call"
      /\ lock' = "none" /\ wake' = TRUE /\ call' = NoCall
      /\ UNCHANGED <<now, cronCrashes, calls, stamp, jobs, loop, until, degraded, stopped, sent, asked, untidy,
                     refused>>
  BY DEF CronIInv, WritesHold, Answer
<1>1. PICK w \in Mine("call") : Lands(w) BY DEF Answer
<1>2. w \in writes /\ w.by = "call" BY <1>1 DEF Mine
<1>3. /\ writes' = writes \ {w}
      /\ disk' \in {v.table : v \in writes} \union {Corrupt} /\ disk' \in Tables \union {Corrupt}
      /\ writes = {w} => disk' = w.table
  BY <1>0, <1>1, <1>2, LandsFacts
<1>4. CronTypeOK' BY <1>0, <1>3 DEF CronTypeOK
<1>5. WritesHold'
  <2>1. /\ Mine("call")' = {} /\ Mine("loop")' = Mine("loop")
        /\ Mine("nobody")' = Mine("nobody") /\ Mine("load")' = Mine("load")
    BY <1>0, <1>2, <1>3 DEF Mine, WritesHold
  <2>2. \A u, v \in writes' : u.by = v.by /\ u.by # "nobody" => u = v BY <1>0, <1>3 DEF WritesHold
  <2> QED BY <1>0, <2>1, <2>2 DEF WritesHold, NoCall
<1>6. DurableHolds'
  <2> SUFFICES ASSUME untidy = {} PROVE disk' = jobs BY <1>0 DEF DurableHolds
  <2>1. writes = {[by |-> "call", table |-> jobs]} BY <1>0, OnlyWriter
  <2> QED BY <1>2, <1>3, <2>1
<1>7. RunsHold' BY <1>0, <1>3, <1>4, RunsKeptByEnd
<1> QED BY <1>4, <1>5, <1>6, <1>7 DEF CronIInv

LEMMA CronFailStep == CronIInv /\ (Fail \/ Cancel) => CronIInv'
<1> SUFFICES ASSUME CronIInv, Fail \/ Cancel PROVE CronIInv' OBVIOUS
<1>0. /\ CronTypeOK /\ WritesHold /\ call.at = "disk" /\ lock = "call"
      /\ lock' = "none" /\ call' = NoCall /\ refused' \in {refused, refused \union {call.job}}
      /\ UNCHANGED <<now, cronCrashes, calls, stamp, disk, jobs, loop, until, wake, degraded, stopped, sent, asked>>
  BY DEF CronIInv, WritesHold, Fail, Cancel
<1>1. /\ untidy' # {} /\ untidy' \in {untidy \union {"failed"}, untidy \union {"left"}}
      /\ Mine("call")' = {} /\ Mine("loop")' = Mine("loop") /\ Mine("load")' = Mine("load")
      /\ "left" \notin untidy' => "left" \notin untidy /\ Mine("nobody")' = Mine("nobody")
      /\ \A w \in writes' : \E v \in writes : w.table = v.table
      /\ writes' \subseteq [by : {"load", "loop", "call", "nobody"}, table : Tables]
      /\ \A u, v \in writes' : u.by = v.by /\ u.by # "nobody" => u = v
  <2>1. CASE Fail
    <3>1. writes' = writes \ Mine("call") /\ untidy' = untidy \union {"failed"} BY <2>1 DEF Fail
    <3> QED BY <1>0, <3>1 DEF CronTypeOK, WritesHold, Mine
  <2>2. CASE Cancel
    <3>1. /\ writes' = (writes \ Mine("call"))
                         \union {[by |-> "nobody", table |-> w.table] : w \in Mine("call")}
          /\ untidy' = untidy \union {"left"}
      BY <2>2 DEF Cancel
    <3>2. \A w \in writes' : \/ w \in writes /\ w.by # "call"
                             \/ \E v \in writes : w = [by |-> "nobody", table |-> v.table]
      BY <3>1 DEF Mine
    <3>3. \A w \in writes : w.by # "call" => w \in writes' BY <3>1 DEF Mine
    <3>4. /\ \A w \in writes' : \E v \in writes : w.table = v.table
          /\ writes' \subseteq [by : {"load", "loop", "call", "nobody"}, table : Tables]
      BY <1>0, <3>2 DEF CronTypeOK
    <3>5. \A u, v \in writes' : u.by = v.by /\ u.by # "nobody" => u = v BY <1>0, <3>2 DEF WritesHold
    <3>6. Mine("call")' = {} /\ Mine("loop")' = Mine("loop") /\ Mine("load")' = Mine("load")
      BY <3>2, <3>3 DEF Mine
    <3> QED BY <3>1, <3>4, <3>5, <3>6
  <2> QED BY <2>1, <2>2
<1>2. CronTypeOK'
  <2>1. call.job \in Jobs BY <1>0 DEF CronTypeOK, NoCall
  <2>2. refused' \subseteq Jobs /\ untidy' \subseteq {"failed", "early", "left"}
    BY <1>0, <1>1, <2>1 DEF CronTypeOK
  <2> QED BY <1>0, <1>1, <2>2 DEF CronTypeOK
<1>3. WritesHold'
  <2>1. "early" \notin untidy' => "early" \notin untidy BY <1>1
  <2> QED BY <1>0, <1>1, <2>1 DEF WritesHold, NoCall
<1>4. DurableHolds' BY <1>1 DEF DurableHolds
<1>5. RunsHold' BY <1>0, <1>1, <1>2, RunsKeptByEnd
<1> QED BY <1>2, <1>3, <1>4, <1>5 DEF CronIInv

LEMMA CronStrayStep == CronIInv /\ Stray => CronIInv'
<1> SUFFICES ASSUME CronIInv, Stray PROVE CronIInv' OBVIOUS
<1> USE DEF history
<1>0. /\ CronTypeOK /\ WritesHold
      /\ UNCHANGED <<now, cronCrashes, calls, stamp, jobs, loop, until, wake, lock, degraded, stopped, call,
                     sent, asked, untidy, refused>>
  BY DEF CronIInv, Stray
<1>1. PICK w \in Mine("nobody") : Lands(w) \/ (writes' = writes \ {w} /\ disk' = disk) BY DEF Stray
<1>2. w \in writes /\ w.by = "nobody" BY <1>1 DEF Mine
<1>3. "left" \in untidy BY <1>0, <1>1 DEF WritesHold
<1>4. writes' = writes \ {w} /\ disk' \in Tables \union {Corrupt}
  <2>1. disk \in Tables \union {Corrupt} BY <1>0 DEF CronTypeOK
  <2>2. Lands(w) => writes' = writes \ {w} /\ disk' \in Tables \union {Corrupt}
    BY <1>0, <1>2, LandsFacts
  <2> QED BY <1>1, <2>1, <2>2
<1>5. CronTypeOK' BY <1>0, <1>4 DEF CronTypeOK
<1>6. WritesHold'
  <2>1. /\ Mine("call")' = Mine("call") /\ Mine("loop")' = Mine("loop") /\ Mine("load")' = Mine("load")
    BY <1>2, <1>4 DEF Mine
  <2>2. \A u, v \in writes' : u.by = v.by /\ u.by # "nobody" => u = v BY <1>0, <1>4 DEF WritesHold
  <2> QED BY <1>0, <1>3, <2>1, <2>2 DEF WritesHold
<1>7. DurableHolds' BY <1>0, <1>3 DEF DurableHolds
<1>8. RunsHold' BY <1>0, <1>3 DEF RunsHold
<1> QED BY <1>5, <1>6, <1>7, <1>8 DEF CronIInv

LEMMA CronCrashStep == CronIInv /\ Crash => CronIInv'
<1> SUFFICES ASSUME CronIInv, Crash PROVE CronIInv' OBVIOUS
<1>0. /\ CronTypeOK /\ now' = now /\ cronCrashes' = cronCrashes + 1
      /\ jobs' = Empty /\ loop' = "down" /\ until' = 0 /\ wake' = FALSE
      /\ lock' = "none" /\ writes' = {} /\ degraded' = FALSE /\ stopped' = FALSE /\ call' = NoCall
      /\ untidy' = untidy \ {"failed", "early"}
      /\ UNCHANGED <<now, calls, stamp, disk, sent, asked, refused>>
  BY DEF CronIInv, Crash
<1>1. Empty \in Tables /\ DOMAIN Empty = {}
  <2>1. Empty \in [{} -> Runs] BY DEF Empty
  <2> QED BY <2>1, TableMade
<1>2. "down" \notin Jobs BY CronConstants DEF LoopStates
<1>3. CronTypeOK'
  <2>1. wake' \in BOOLEAN /\ degraded' \in BOOLEAN /\ stopped' \in BOOLEAN BY <1>0
  <2> QED BY <1>0, <1>1, <2>1 DEF CronTypeOK, LoopStates
<1>4. WritesHold' BY <1>0, <1>2 DEF WritesHold, Mine, NoCall
<1>5. DurableHolds' BY <1>0 DEF DurableHolds
<1>6. RunsHold'
  <2>1. ASSUME NEW j \in Jobs, OnceHolds(j)
        PROVE  /\ Ahead(j, jobs', sent[j]) /\ Ahead(j, disk', sent[j])
               /\ \A w \in writes' : Ahead(j, w.table, sent[j])
    BY <1>0, <1>1, <2>1 DEF OnceHolds, Ahead
  <2>2. now' >= now BY <1>0 DEF CronTypeOK
  <2> QED BY <1>0, <1>2, <1>3, <2>1, <2>2, RunsKept
<1> QED BY <1>3, <1>4, <1>5, <1>6 DEF CronIInv

LEMMA CronStepKeeps == CronIInv /\ [CronNext]_cronVars => CronIInv'
<1> SUFFICES ASSUME CronIInv, [CronNext]_cronVars PROVE CronIInv' OBVIOUS
<1>1. CASE LoopStep
  BY <1>1, CronQuiet, CronLoadStep, CronLoadedStep, TakeDueStep, CronSavedStep, CronSaveFailsStep DEF LoopStep
<1>2. CASE Calls
  <2>1. CASE \E s \in Sessions, j \in Jobs, o \in CronOps : Call(s, o, j) BY <2>1, CronCallStep
  <2>2. CASE Refuse BY <2>2, CronCallStep
  <2> QED BY <1>2, <2>1, <2>2, CronApplyStep, CronAnswerStep, CronFailStep DEF Calls, CronOps
<1>3. CASE Stray BY <1>3, CronStrayStep
<1>4. CASE Stop \/ Tick \/ UNCHANGED cronVars BY <1>4, CronQuiet
<1>5. CASE Crash BY <1>5, CronCrashStep
<1> QED BY <1>1, <1>2, <1>3, <1>4, <1>5 DEF CronNext

THEOREM CronInductive == CronSpec => []CronIInv
BY CronStarts, CronStepKeeps, PTL DEF CronSpec

(* Whenever the lock is free and nothing went wrong, a crash loses nothing, *)
(* and the loop does not sleep past a job, however the table changed.       *)
THEOREM TableStaysDurable == CronSpec => []TableIsDurable
<1>1. CronIInv => TableIsDurable BY DEF CronIInv, DurableHolds, TableIsDurable
<1> QED BY <1>1, CronInductive, PTL

(* No job is sent again before its time, by the loop and its callers, over  *)
(* crashes and failed writes: what a message said is in every table that a  *)
(* later process can find.                                                 *)
THEOREM JobsRunOnce == CronSpec => RunsOnce
<1> DEFINE Early == \A j \in Jobs \ asked :
             loop = j /\ loop' = "yielded" /\ sent[j] # 0 /\ "left" \notin untidy =>
               /\ Schedule[j].kind # "at"
               /\ Schedule[j].kind = "every" => stamp - sent[j] >= Min(Schedule[j].when)
               /\ Schedule[j].kind = "cron" => \E m \in Schedule[j].when : sent[j] < m /\ m <= stamp
<1>1. CronIInv => Early
  <2> SUFFICES ASSUME CronIInv, NEW j \in Jobs \ asked, loop = j, sent[j] # 0, "left" \notin untidy
               PROVE  /\ Schedule[j].kind # "at"
                      /\ Schedule[j].kind = "every" => stamp - sent[j] >= Min(Schedule[j].when)
                      /\ Schedule[j].kind = "cron" => \E m \in Schedule[j].when : sent[j] < m /\ m <= stamp
    OBVIOUS
  <2>1. OnceHolds(j) /\ sent[j] \in Nat /\ stamp \in Nat BY DEF CronIInv, RunsHold, CronTypeOK
  <2>2. Again(j, sent[j], stamp) BY <2>1 DEF OnceHolds
  <2>3. Schedule[j].kind = "every" => Min(Schedule[j].when) \in Nat
    <3>1. /\ Schedule[j].when \in SUBSET Nat
          /\ Schedule[j].kind = "every" => Schedule[j].when # {}
      BY CronConstants
    <3> QED BY <3>1, MinIsLeast
  <2> QED BY <2>1, <2>2, <2>3 DEF Again
<1> HIDE DEF Early
<1>2. CronIInv /\ [CronNext]_cronVars => [Early]_cronVars BY <1>1
<1>3. CronSpec => [][Early]_cronVars BY <1>2, CronInductive, PTL DEF CronSpec
<1> QED BY <1>3 DEF Early, RunsOnce

-----------------------------------------------------------------------------
(***************************************************************************)
(* The memories.  What a forget() keeps of the lines of a partition, by    *)
(* its recursion over them.                                                *)
(***************************************************************************)
MemoryUnit == [rec : Nat, seq : Nat, part : Nat, of : Nat]
Predecessor(x) == [x EXCEPT !.part = @ - 1]
Successor(x) == [x EXCEPT !.part = @ + 1]

LEMMA WithoutSteps ==
  ASSUME NEW u \in Seq(MemoryUnit), NEW s
  PROVE  \E k : /\ k[0] = << >>
                /\ \A i \in 1..Len(u) : k[i] = IF u[i].seq = s THEN k[i - 1] ELSE Append(k[i - 1], u[i])
                /\ Without(u, s) = k[Len(u)]
<1> DEFINE n == Len(u)
           take == [x \in (1..n) \X Seq(MemoryUnit) |->
                        IF u[x[1]].seq = s THEN x[2] ELSE Append(x[2], u[x[1]])]
           Rule(g) == [i \in 0..n |-> IF i = 0 THEN << >>
                                      ELSE IF u[i].seq = s THEN g[i - 1] ELSE Append(g[i - 1], u[i])]
           kept == CHOOSE g : g = Rule(g)
<1>1. n \in Nat /\ << >> \in Seq(MemoryUnit) OBVIOUS
<1>2. take \in [(1..n) \X Seq(MemoryUnit) -> Seq(MemoryUnit)] OBVIOUS
<1>3. PICK f : Course(f, n, Seq(MemoryUnit), << >>, take)
  <2> HIDE DEF take, n
  <2> QED BY <1>1, <1>2, Recursion
<1>4. f \in [0..n -> Seq(MemoryUnit)] /\ f[0] = << >> /\ \A i \in 1..n : f[i] = take[<<i, f[i - 1]>>]
  BY <1>3 DEF Course
<1>5. \A i \in 1..n : f[i] = IF u[i].seq = s THEN f[i - 1] ELSE Append(f[i - 1], u[i])
  <2>1. ASSUME NEW i \in 1..n PROVE f[i - 1] \in Seq(MemoryUnit) BY <1>4
  <2> QED BY <1>4, <2>1
<1>6. f = Rule(f)
  <2>1. ASSUME NEW i \in 0..n PROVE f[i] = Rule(f)[i]
    <3>1. CASE i = 0 BY <1>4, <3>1
    <3>2. CASE i # 0
      <4>1. i \in 1..n BY <3>2
      <4> QED BY <1>5, <3>2, <4>1
    <3> QED BY <3>1, <3>2
  <2>2. f = [i \in 0..n |-> f[i]] BY <1>4
  <2> QED BY <2>1, <2>2
<1>7. kept = Rule(kept) BY <1>6
<1>8. Without(u, s) = kept[n] BY DEF Without
<1> HIDE DEF kept
<1>9. kept[0] = << >> BY <1>7, <1>1
<1>10. \A i \in 1..n : kept[i] = IF u[i].seq = s THEN kept[i - 1] ELSE Append(kept[i - 1], u[i])
  <2>1. ASSUME NEW i \in 1..n
        PROVE  kept[i] = IF u[i].seq = s THEN kept[i - 1] ELSE Append(kept[i - 1], u[i])
    <3>1. i \in 0..n /\ i # 0 BY <1>1
    <3>2. Rule(kept)[i] = IF u[i].seq = s THEN kept[i - 1] ELSE Append(kept[i - 1], u[i]) BY <3>1
    <3> HIDE DEF Rule
    <3>3. kept[i] = Rule(kept)[i] BY <1>7
    <3> QED BY <3>2, <3>3
  <2> QED BY <2>1
<1> QED BY <1>8, <1>9, <1>10

(* What is kept of the first i units. *)
KeptOf(k, u, s, i) ==
  /\ k \in Seq(MemoryUnit)
  /\ \A m \in 1..Len(k) : \E j \in 1..i : u[j].seq # s /\ k[m] = u[j]
  /\ \A j \in 1..i : u[j].seq # s => \E m \in 1..Len(k) : k[m] = u[j]
  /\ \A m \in 1..Len(k) : k[m].part = 1 \/ (m > 1 /\ k[m - 1] = Predecessor(k[m]))
  /\ \A m \in 1..Len(k) : \/ k[m].part = k[m].of
                          \/ m < Len(k) /\ k[m + 1] = Successor(k[m])
                          \/ m = Len(k) /\ i >= 1 /\ k[m] = u[i]
  /\ i >= 1 /\ u[i].seq # s => Len(k) >= 1 /\ k[Len(k)] = u[i]

LEMMA KeptSkips ==
  ASSUME NEW u \in Seq(MemoryUnit), Whole(u), NEW s, NEW i \in 0..Len(u), i < Len(u),
         NEW k, KeptOf(k, u, s, i), u[i + 1].seq = s
  PROVE  KeptOf(k, u, s, i + 1)
<1>0. i \in Nat /\ i + 1 \in 1..Len(u) /\ \A j \in 1..i + 1 : j \in 1..i \/ j = i + 1 OBVIOUS
<1>1. k \in Seq(MemoryUnit) /\ Len(k) \in Nat BY DEF KeptOf
<1>2. \A m \in 1..Len(k) : \E j \in 1..i : u[j].seq # s /\ k[m] = u[j] BY DEF KeptOf
<1>3. \A m \in 1..Len(k) : \E j \in 1..i + 1 : u[j].seq # s /\ k[m] = u[j] BY <1>0, <1>2
<1>4. \A j \in 1..i + 1 : u[j].seq # s => \E m \in 1..Len(k) : k[m] = u[j] BY <1>0 DEF KeptOf
<1>5. \A m \in 1..Len(k) : k[m].part = 1 \/ (m > 1 /\ k[m - 1] = Predecessor(k[m])) BY DEF KeptOf
<1>6. ASSUME NEW m \in 1..Len(k), m = Len(k), i >= 1, k[m] = u[i] PROVE k[m].part = k[m].of
  <2>1. u[i].seq # s BY <1>2, <1>6
  <2>2. i \in DOMAIN u /\ u[i] \in MemoryUnit BY <1>0, <1>6
  <2>3. u[i].part = u[i].of \/ u[i + 1] = [u[i] EXCEPT !.part = @ + 1] BY <2>2 DEF Whole
  <2>4. ASSUME u[i + 1] = [u[i] EXCEPT !.part = @ + 1] PROVE FALSE
    <3>1. u[i + 1].seq = u[i].seq BY <2>2, <2>4 DEF MemoryUnit
    <3> QED BY <2>1, <3>1
  <2> QED BY <1>6, <2>3, <2>4
<1>7. \A m \in 1..Len(k) : k[m].part = k[m].of \/ (m < Len(k) /\ k[m + 1] = Successor(k[m]))
  BY <1>6 DEF KeptOf
<1> QED BY <1>1, <1>3, <1>4, <1>5, <1>7 DEF KeptOf

LEMMA KeptTakes ==
  ASSUME NEW u \in Seq(MemoryUnit), Whole(u), NEW s, NEW i \in 0..Len(u), i < Len(u),
         NEW k, KeptOf(k, u, s, i), u[i + 1].seq # s
  PROVE  KeptOf(Append(k, u[i + 1]), u, s, i + 1)
<1> DEFINE x == u[i + 1]  l == Append(k, x)
<1>0. i \in Nat /\ i + 1 \in 1..Len(u) /\ x \in MemoryUnit /\ \A j \in 1..i + 1 : j \in 1..i \/ j = i + 1
  OBVIOUS
<1>1. k \in Seq(MemoryUnit) /\ Len(k) \in Nat BY DEF KeptOf
<1>2. l \in Seq(MemoryUnit) /\ Len(l) = Len(k) + 1 /\ l[Len(k) + 1] = x /\ \A m \in 1..Len(k) : l[m] = k[m]
  BY <1>0, <1>1
<1>3. \A m \in 1..Len(l) : m \in 1..Len(k) \/ m = Len(k) + 1 BY <1>1, <1>2
<1> HIDE DEF l
<1>4. \A m \in 1..Len(l) : \E j \in 1..i + 1 : u[j].seq # s /\ l[m] = u[j]
  <2>1. ASSUME NEW m \in 1..Len(k) PROVE \E j \in 1..i + 1 : u[j].seq # s /\ l[m] = u[j]
    <3>1. PICK j \in 1..i : u[j].seq # s /\ k[m] = u[j] BY DEF KeptOf
    <3>2. j \in 1..i + 1 BY <1>0
    <3> QED BY <1>2, <3>1, <3>2
  <2>2. i + 1 \in 1..i + 1 BY <1>0
  <2> QED BY <1>2, <1>3, <2>1, <2>2
<1>5. \A j \in 1..i + 1 : u[j].seq # s => \E m \in 1..Len(l) : l[m] = u[j]
  <2>1. ASSUME NEW j \in 1..i, u[j].seq # s PROVE \E m \in 1..Len(l) : l[m] = u[j]
    <3>1. PICK m \in 1..Len(k) : k[m] = u[j] BY <2>1 DEF KeptOf
    <3>2. m \in 1..Len(l) BY <1>1, <1>2
    <3> QED BY <1>2, <3>1, <3>2
  <2>2. Len(k) + 1 \in 1..Len(l) BY <1>1, <1>2
  <2> QED BY <1>0, <1>2, <2>1, <2>2
<1>6. \A m \in 1..Len(l) : l[m].part = 1 \/ (m > 1 /\ l[m - 1] = Predecessor(l[m]))
  <2>1. ASSUME NEW m \in 1..Len(k) PROVE l[m].part = 1 \/ (m > 1 /\ l[m - 1] = Predecessor(l[m]))
    <3>1. k[m].part = 1 \/ (m > 1 /\ k[m - 1] = Predecessor(k[m])) BY DEF KeptOf
    <3>2. m > 1 => m - 1 \in 1..Len(k) BY <1>1
    <3> QED BY <1>2, <3>1, <3>2
  <2>2. x.part = 1 \/ (i >= 1 /\ u[i] = Predecessor(x))
    <3>1. SUFFICES ASSUME NEW j \in 1..Len(u), j = i + 1 PROVE x.part = 1 \/ (i >= 1 /\ u[i] = Predecessor(x))
      BY <1>0
    <3>2. j \in DOMAIN u /\ j - 1 = i /\ u[j] = x BY <1>0, <3>1
    <3>3. u[j].part = 1 \/ (j > 1 /\ u[j - 1] = [u[j] EXCEPT !.part = @ - 1]) BY <3>2 DEF Whole
    <3>4. j > 1 => i >= 1 BY <1>0, <3>1
    <3> HIDE DEF x
    <3> QED BY <3>2, <3>3, <3>4 DEF Predecessor
  <2>3. ASSUME i >= 1, u[i] = Predecessor(x) PROVE Len(k) >= 1 /\ k[Len(k)] = Predecessor(x)
    <3>1. Predecessor(x).seq = x.seq BY <1>0 DEF Predecessor, MemoryUnit
    <3>2. u[i].seq # s BY <2>3, <3>1
    <3> QED BY <2>3, <3>2 DEF KeptOf
  <2>4. ASSUME Len(k) >= 1, k[Len(k)] = Predecessor(x)
        PROVE  Len(k) + 1 > 1 /\ l[Len(k) + 1 - 1] = Predecessor(l[Len(k) + 1])
    <3>1. Len(k) + 1 - 1 = Len(k) /\ Len(k) \in 1..Len(k) BY <1>1, <2>4
    <3> QED BY <1>1, <1>2, <2>4, <3>1
  <2>5. l[Len(k) + 1].part = 1 \/ (Len(k) + 1 > 1 /\ l[Len(k) + 1 - 1] = Predecessor(l[Len(k) + 1]))
    BY <1>2, <2>2, <2>3, <2>4
  <2> QED BY <1>3, <2>1, <2>5
<1>7. \A m \in 1..Len(l) : \/ l[m].part = l[m].of
                           \/ m < Len(l) /\ l[m + 1] = Successor(l[m])
                           \/ m = Len(l) /\ i + 1 >= 1 /\ l[m] = u[i + 1]
  <2>1. ASSUME NEW m \in 1..Len(k) PROVE l[m].part = l[m].of \/ (m < Len(l) /\ l[m + 1] = Successor(l[m]))
    <3>1. \/ k[m].part = k[m].of
          \/ m < Len(k) /\ k[m + 1] = Successor(k[m])
          \/ m = Len(k) /\ i >= 1 /\ k[m] = u[i]
      BY DEF KeptOf
    <3>2. ASSUME m < Len(k), k[m + 1] = Successor(k[m]) PROVE m < Len(l) /\ l[m + 1] = Successor(l[m])
      <4>1. m + 1 \in 1..Len(k) BY <1>1, <3>2
      <4> QED BY <1>1, <1>2, <3>2, <4>1
    <3>3. ASSUME m = Len(k), i >= 1, k[m] = u[i], k[m].part # k[m].of
          PROVE  m < Len(l) /\ l[m + 1] = Successor(l[m])
      <4>1. i \in DOMAIN u BY <1>0, <3>3
      <4>2. u[i + 1] = [u[i] EXCEPT !.part = @ + 1] BY <3>3, <4>1 DEF Whole
      <4> QED BY <1>1, <1>2, <3>3, <4>2 DEF Successor
    <3> QED BY <1>2, <3>1, <3>2, <3>3
  <2> QED BY <1>0, <1>2, <1>3, <2>1
<1>8. Len(l) >= 1 /\ l[Len(l)] = u[i + 1] BY <1>1, <1>2
<1>9. KeptOf(l, u, s, i + 1) BY <1>2, <1>4, <1>5, <1>6, <1>7, <1>8 DEF KeptOf
<1> QED BY <1>9 DEF l
LEMMA WithoutKeeps ==
  ASSUME NEW u \in Seq(MemoryUnit), Whole(u), NEW s
  PROVE  KeptOf(Without(u, s), u, s, Len(u))
<1>1. PICK k : /\ k[0] = << >>
               /\ \A i \in 1..Len(u) : k[i] = IF u[i].seq = s THEN k[i - 1] ELSE Append(k[i - 1], u[i])
               /\ Without(u, s) = k[Len(u)]
  BY WithoutSteps
<1> DEFINE Right == {i \in Nat : i <= Len(u) => KeptOf(k[i], u, s, i)}
<1>2. 0 \in Right
  <2>1. KeptOf(<< >>, u, s, 0) BY DEF KeptOf
  <2> QED BY <1>1, <2>1
<1>3. ASSUME NEW i \in Right PROVE i + 1 \in Right
  <2>1. SUFFICES ASSUME i + 1 <= Len(u) PROVE KeptOf(k[i + 1], u, s, i + 1) OBVIOUS
  <2>2. i \in 0..Len(u) /\ i < Len(u) /\ KeptOf(k[i], u, s, i) BY <2>1
  <2>3. k[i + 1] = IF u[i + 1].seq = s THEN k[i] ELSE Append(k[i], u[i + 1])
    <3>1. SUFFICES ASSUME NEW j \in 1..Len(u), j = i + 1
                   PROVE  k[j] = IF u[j].seq = s THEN k[i] ELSE Append(k[i], u[j])
      BY <2>1
    <3>2. j - 1 = i BY <3>1
    <3> QED BY <1>1, <3>2
  <2> HIDE DEF Right
  <2>4. CASE u[i + 1].seq = s BY <2>2, <2>3, <2>4, KeptSkips
  <2>5. CASE u[i + 1].seq # s BY <2>2, <2>3, <2>5, KeptTakes
  <2> QED BY <2>4, <2>5
<1>4. \A i \in Nat : i \in Right
  <2>1. Right \in SUBSET Nat OBVIOUS
  <2> HIDE DEF Right
  <2> QED BY <1>2, <1>3, <2>1, Induction
<1> QED BY <1>1, <1>4

(* A committed text: whole lines, the identifiers of which are unique and  *)
(* below the next one.                                                     *)
SoundText(u, next) ==
  /\ Whole(u)
  /\ \A i \in 1..Len(u) : u[i].seq < next
  /\ \A i, j \in 1..Len(u) : u[i].seq = u[j].seq => u[i].rec = u[j].rec

LEMMA WithoutIsSound ==
  ASSUME NEW u \in Seq(MemoryUnit), NEW next, SoundText(u, next), NEW s
  PROVE  /\ Without(u, s) \in Seq(MemoryUnit)
         /\ SoundText(Without(u, s), next)
         /\ Records(Without(u, s)) = {r \in Records(u) : r.seq # s}
<1> DEFINE k == Without(u, s)
<1>1. Whole(u) BY DEF SoundText
<1>2. KeptOf(k, u, s, Len(u)) BY <1>1, WithoutKeeps
<1> HIDE DEF k
<1>3. k \in Seq(MemoryUnit) BY <1>2 DEF KeptOf
<1>4. \A m \in 1..Len(k) : \E j \in 1..Len(u) : u[j].seq # s /\ k[m] = u[j] BY <1>2 DEF KeptOf
<1>5. \A j \in 1..Len(u) : u[j].seq # s => \E m \in 1..Len(k) : k[m] = u[j] BY <1>2 DEF KeptOf
<1>6. Whole(k)
  <2>0. DOMAIN k = 1..Len(k) BY <1>3
  <2>1. SUFFICES ASSUME NEW m \in 1..Len(k)
                 PROVE  /\ k[m].part = 1 \/ (m > 1 /\ k[m - 1] = Predecessor(k[m]))
                        /\ k[m].part = k[m].of \/ (m < Len(k) /\ k[m + 1] = Successor(k[m]))
    BY <2>0 DEF Whole, Predecessor, Successor
  <2>2. k[m].part = 1 \/ (m > 1 /\ k[m - 1] = Predecessor(k[m])) BY <1>2 DEF KeptOf
  <2>3. ASSUME m = Len(k), Len(u) >= 1, k[m] = u[Len(u)] PROVE k[m].part = k[m].of
    <3>1. Len(u) \in DOMAIN u /\ ~(Len(u) < Len(u)) BY <2>3
    <3> QED BY <1>1, <2>3, <3>1 DEF Whole
  <2>4. k[m].part = k[m].of \/ (m < Len(k) /\ k[m + 1] = Successor(k[m])) BY <1>2, <2>3 DEF KeptOf
  <2> QED BY <2>2, <2>4
<1>7. \A m \in 1..Len(k) : k[m].seq < next BY <1>4 DEF SoundText
<1>8. \A m, l \in 1..Len(k) : k[m].seq = k[l].seq => k[m].rec = k[l].rec
  <2>1. SUFFICES ASSUME NEW m \in 1..Len(k), NEW l \in 1..Len(k), k[m].seq = k[l].seq
                 PROVE  k[m].rec = k[l].rec
    OBVIOUS
  <2>2. PICK i \in 1..Len(u) : k[m] = u[i] BY <1>4
  <2>3. PICK j \in 1..Len(u) : k[l] = u[j] BY <1>4
  <2>4. u[i].seq = u[j].seq BY <2>1, <2>2, <2>3
  <2> QED BY <2>2, <2>3, <2>4 DEF SoundText
<1>9. Records(k) = {r \in Records(u) : r.seq # s}
  <2>1. ASSUME NEW r \in Records(k) PROVE r \in Records(u) /\ r.seq # s
    <3>1. PICK m \in 1..Len(k) : r = [rec |-> k[m].rec, seq |-> k[m].seq] BY <1>3 DEF Records
    <3>2. PICK j \in 1..Len(u) : u[j].seq # s /\ k[m] = u[j] BY <1>4
    <3> QED BY <3>1, <3>2 DEF Records
  <2>2. ASSUME NEW r \in Records(u), r.seq # s PROVE r \in Records(k)
    <3>1. PICK j \in 1..Len(u) : r = [rec |-> u[j].rec, seq |-> u[j].seq] BY DEF Records
    <3>2. PICK m \in 1..Len(k) : k[m] = u[j] BY <1>5, <2>2, <3>1
    <3>3. m \in DOMAIN k BY <1>3
    <3> QED BY <3>1, <3>2, <3>3 DEF Records
  <2> QED BY <2>1, <2>2
<1> QED BY <1>3, <1>6, <1>7, <1>8, <1>9 DEF SoundText, k
LEMMA EncodeIsWhole ==
  ASSUME NEW r \in Nat, NEW s \in Nat
  PROVE  /\ Size(r) \in Nat /\ EncodeRecord(r, s) \in Seq(MemoryUnit)
         /\ Len(EncodeRecord(r, s)) = Size(r) /\ Whole(EncodeRecord(r, s))
         /\ \A i \in 1..Size(r) : EncodeRecord(r, s)[i].rec = r /\ EncodeRecord(r, s)[i].seq = s
         /\ 1 \in 1..Size(r)
<1> DEFINE e == EncodeRecord(r, s)
<1>1. Size(r) = 1 \/ Size(r) = 2 BY DEF Size
<1>2. e = [k \in 1..Size(r) |-> [rec |-> r, seq |-> s, part |-> k, of |-> Size(r)]] BY DEF EncodeRecord
<1>3. e \in Seq(MemoryUnit) /\ Len(e) = Size(r)
  <2>1. Size(r) \in Nat BY <1>1
  <2>2. \A k \in 1..Size(r) : [rec |-> r, seq |-> s, part |-> k, of |-> Size(r)] \in MemoryUnit
    BY <2>1 DEF MemoryUnit
  <2> HIDE DEF e
  <2> QED BY <1>2, <2>1, <2>2
<1>4. DOMAIN e = 1..Size(r) BY <1>2
<1>5. \A i \in 1..Size(r) : e[i] = [rec |-> r, seq |-> s, part |-> i, of |-> Size(r)] BY <1>2
<1> HIDE DEF e
<1>6. Whole(e)
  <2>1. ASSUME NEW i \in 1..Size(r)
        PROVE  /\ e[i].part = 1 \/ (i > 1 /\ e[i - 1] = [e[i] EXCEPT !.part = @ - 1])
               /\ e[i].part = e[i].of \/ (i < Len(e) /\ e[i + 1] = [e[i] EXCEPT !.part = @ + 1])
    <3>1. CASE i = 1
      <4>1. e[1].part = 1 /\ e[1].of = Size(r)
        <5>1. 1 \in 1..Size(r) BY <1>1
        <5>2. e[1] = [rec |-> r, seq |-> s, part |-> 1, of |-> Size(r)] BY <1>5, <5>1
        <5> QED BY <5>2
      <4>2. CASE Size(r) = 1 BY <3>1, <4>1, <4>2
      <4>3. CASE Size(r) = 2
        <5>1. e[2] = [rec |-> r, seq |-> s, part |-> 2, of |-> 2] BY <1>5, <4>3
        <5>2. e[1] = [rec |-> r, seq |-> s, part |-> 1, of |-> 2] BY <1>5, <4>3
        <5> QED BY <1>3, <3>1, <4>3, <5>1, <5>2
      <4> QED BY <1>1, <4>2, <4>3
    <3>2. CASE i # 1
      <4>1. i = 2 /\ Size(r) = 2 BY <1>1, <3>2
      <4>2. e[2] = [rec |-> r, seq |-> s, part |-> 2, of |-> 2] BY <1>5, <4>1
      <4>3. e[1] = [rec |-> r, seq |-> s, part |-> 1, of |-> 2] BY <1>5, <4>1
      <4> QED BY <4>1, <4>2, <4>3
    <3> QED BY <3>1, <3>2
  <2> QED BY <1>4, <2>1 DEF Whole
<1> QED BY <1>1, <1>3, <1>5, <1>6 DEF e

LEMMA WholeConcat ==
  ASSUME NEW u \in Seq(MemoryUnit), NEW v \in Seq(MemoryUnit), Whole(u), Whole(v)
  PROVE  Whole(u \o v)
<1> DEFINE w == u \o v  n == Len(u)
<1>1. w \in Seq(MemoryUnit) /\ Len(w) = n + Len(v) /\ n \in Nat /\ Len(v) \in Nat /\ DOMAIN w = 1..Len(w) OBVIOUS
<1>2. \A i \in 1..n : w[i] = u[i] OBVIOUS
<1>3. \A i \in 1..Len(v) : w[n + i] = v[i] OBVIOUS
<1>4. DOMAIN u = 1..n /\ DOMAIN v = 1..Len(v) OBVIOUS
<1> HIDE DEF w, n
<1>5. ASSUME NEW i \in 1..n
      PROVE  /\ w[i].part = 1 \/ (i > 1 /\ w[i - 1] = [w[i] EXCEPT !.part = @ - 1])
             /\ w[i].part = w[i].of \/ (i < Len(w) /\ w[i + 1] = [w[i] EXCEPT !.part = @ + 1])
  <2>1. /\ u[i].part = 1 \/ (i > 1 /\ u[i - 1] = [u[i] EXCEPT !.part = @ - 1])
        /\ u[i].part = u[i].of \/ (i < n /\ u[i + 1] = [u[i] EXCEPT !.part = @ + 1])
    BY <1>4 DEF Whole, n
  <2>2. i > 1 => i - 1 \in 1..n BY <1>1
  <2>3. i < n => i + 1 \in 1..n BY <1>1
  <2>4. i < n => i < Len(w) BY <1>1
  <2> QED BY <1>2, <2>1, <2>2, <2>3, <2>4
<1>6. ASSUME NEW i \in 1..Len(v), NEW j \in 1..Len(w), j = n + i
      PROVE  /\ w[j].part = 1 \/ (j > 1 /\ w[j - 1] = [w[j] EXCEPT !.part = @ - 1])
             /\ w[j].part = w[j].of \/ (j < Len(w) /\ w[j + 1] = [w[j] EXCEPT !.part = @ + 1])
  <2>1. /\ v[i].part = 1 \/ (i > 1 /\ v[i - 1] = [v[i] EXCEPT !.part = @ - 1])
        /\ v[i].part = v[i].of \/ (i < Len(v) /\ v[i + 1] = [v[i] EXCEPT !.part = @ + 1])
    BY <1>4 DEF Whole
  <2>2. w[j] = v[i] BY <1>3, <1>6
  <2>3. ASSUME i > 1 PROVE j > 1 /\ w[j - 1] = v[i - 1]
    <3>1. i - 1 \in 1..Len(v) /\ j - 1 = n + (i - 1) /\ j > 1 BY <1>1, <1>6, <2>3
    <3> QED BY <1>3, <3>1
  <2>4. ASSUME i < Len(v) PROVE j < Len(w) /\ w[j + 1] = v[i + 1]
    <3>1. i + 1 \in 1..Len(v) /\ j + 1 = n + (i + 1) /\ j < Len(w) BY <1>1, <1>6, <2>4
    <3> QED BY <1>3, <3>1
  <2> QED BY <2>1, <2>2, <2>3, <2>4
<1>7. ASSUME NEW j \in 1..Len(w)
      PROVE  /\ w[j].part = 1 \/ (j > 1 /\ w[j - 1] = [w[j] EXCEPT !.part = @ - 1])
             /\ w[j].part = w[j].of \/ (j < Len(w) /\ w[j + 1] = [w[j] EXCEPT !.part = @ + 1])
  <2>1. CASE j \in 1..n BY <1>5, <2>1
  <2>2. CASE j \notin 1..n
    <3>1. j - n \in 1..Len(v) /\ j = n + (j - n) BY <1>1, <2>2
    <3> QED BY <1>6, <3>1
  <2> QED BY <2>1, <2>2
<1>8. Whole(w) BY <1>1, <1>7 DEF Whole
<1> QED BY <1>8 DEF w

(* A line more, under the next identifier. *)
LEMMA OneLineMore ==
  ASSUME NEW u \in Seq(MemoryUnit), NEW next \in Nat, SoundText(u, next), NEW r \in Nat
  PROVE  /\ u \o EncodeRecord(r, next) \in Seq(MemoryUnit)
         /\ Len(u \o EncodeRecord(r, next)) = Len(u) + Size(r)
         /\ SoundText(u \o EncodeRecord(r, next), next + 1)
         /\ Records(u \o EncodeRecord(r, next)) = Records(u) \union {[rec |-> r, seq |-> next]}
<1> DEFINE e == EncodeRecord(r, next)  w == u \o e
<1>1. /\ Size(r) \in Nat /\ e \in Seq(MemoryUnit) /\ Len(e) = Size(r) /\ Whole(e) /\ 1 \in 1..Len(e)
      /\ \A i \in 1..Len(e) : e[i].rec = r /\ e[i].seq = next
  BY EncodeIsWhole
<1> HIDE DEF e
<1>2. w \in Seq(MemoryUnit) /\ Len(w) = Len(u) + Len(e) /\ Len(u) \in Nat BY <1>1
<1>3. \A i \in 1..Len(u) : w[i] = u[i] BY <1>1
<1>4. \A i \in 1..Len(e) : w[Len(u) + i] = e[i] BY <1>1
<1>5. Whole(w) BY <1>1, WholeConcat DEF SoundText
<1> HIDE DEF w
<1>6. \A i \in 1..Len(w) : i \in 1..Len(u) \/ i - Len(u) \in 1..Len(e) BY <1>1, <1>2
<1>7. ASSUME NEW i \in 1..Len(w), i - Len(u) \in 1..Len(e) PROVE w[i].rec = r /\ w[i].seq = next
  <2>1. i = Len(u) + (i - Len(u)) BY <1>2
  <2>2. w[i] = e[i - Len(u)] BY <1>4, <1>7, <2>1
  <2> QED BY <1>1, <1>7, <2>2
<1>8. \A i \in 1..Len(u) : u[i].seq < next /\ u[i] \in MemoryUnit BY DEF SoundText
<1>9. \A i \in 1..Len(w) : w[i].seq < next + 1
  <2>1. ASSUME NEW i \in 1..Len(u) PROVE u[i].seq < next + 1 BY <1>8 DEF MemoryUnit
  <2>2. next < next + 1 OBVIOUS
  <2> QED BY <1>3, <1>6, <1>7, <2>1, <2>2
<1>10. \A i, j \in 1..Len(w) : w[i].seq = w[j].seq => w[i].rec = w[j].rec
  <2>1. ASSUME NEW i \in 1..Len(w), NEW j \in 1..Len(w), w[i].seq = w[j].seq PROVE w[i].rec = w[j].rec
    <3>0. ASSUME NEW m \in 1..Len(u) PROVE w[m].seq # next
      <4>1. w[m] = u[m] /\ u[m].seq < next /\ u[m].seq \in Nat BY <1>3, <1>8 DEF MemoryUnit
      <4> QED BY <4>1
    <3>1. CASE i \in 1..Len(u) /\ j \in 1..Len(u) BY <1>3, <2>1, <3>1 DEF SoundText
    <3>2. CASE i \notin 1..Len(u) \/ j \notin 1..Len(u) BY <1>6, <1>7, <2>1, <3>0, <3>2
    <3> QED BY <3>1, <3>2
  <2> QED BY <2>1
<1>11. Records(w) = Records(u) \union {[rec |-> r, seq |-> next]}
  <2>0. DOMAIN w = 1..Len(w) /\ DOMAIN u = 1..Len(u) BY <1>2
  <2>1. ASSUME NEW i \in 1..Len(w)
        PROVE  [rec |-> w[i].rec, seq |-> w[i].seq] \in Records(u) \union {[rec |-> r, seq |-> next]}
    BY <1>3, <1>6, <1>7, <2>0 DEF Records
  <2>2. ASSUME NEW i \in 1..Len(u) PROVE [rec |-> u[i].rec, seq |-> u[i].seq] \in Records(w)
    <3>1. i \in 1..Len(w) BY <1>1, <1>2
    <3> QED BY <1>3, <2>0, <3>1 DEF Records
  <2>3. [rec |-> r, seq |-> next] \in Records(w)
    <3>1. Len(u) + 1 \in 1..Len(w) /\ Len(u) + 1 - Len(u) = 1 BY <1>1, <1>2
    <3>2. w[Len(u) + 1].rec = r /\ w[Len(u) + 1].seq = next BY <1>1, <1>7, <3>1
    <3> QED BY <2>0, <3>1, <3>2 DEF Records
  <2> QED BY <2>0, <2>1, <2>2, <2>3 DEF Records
<1>12. SoundText(w, next + 1) BY <1>5, <1>9, <1>10 DEF SoundText
<1> QED BY <1>1, <1>2, <1>11, <1>12 DEF w, e
LEMMA PrefixIs ==
  ASSUME NEW u \in Seq(MemoryUnit), NEW n \in Nat, n <= Len(u)
  PROVE  /\ SubSeq(u, 1, n) \in Seq(MemoryUnit) /\ Len(SubSeq(u, 1, n)) = n
         /\ \A i \in 1..n : SubSeq(u, 1, n)[i] = u[i]
OBVIOUS

LEMMA SamePrefix ==
  ASSUME NEW u \in Seq(MemoryUnit), NEW v \in Seq(MemoryUnit), NEW n \in Nat, n <= Len(u), n <= Len(v),
         \A i \in 1..n : u[i] = v[i]
  PROVE  SubSeq(u, 1, n) = SubSeq(v, 1, n)
<1>1. SubSeq(u, 1, n) \in Seq(MemoryUnit) /\ Len(SubSeq(u, 1, n)) = n
      /\ \A i \in 1..n : SubSeq(u, 1, n)[i] = u[i]
  BY PrefixIs
<1>2. SubSeq(v, 1, n) \in Seq(MemoryUnit) /\ Len(SubSeq(v, 1, n)) = n
      /\ \A i \in 1..n : SubSeq(v, 1, n)[i] = v[i]
  BY PrefixIs
<1> QED BY <1>1, <1>2, SameSequence

-----------------------------------------------------------------------------
(* The invariant.  As long as no two writers met and no forget() broke off *)
(* between its two files, the committed text is sound and holds what was   *)
(* acknowledged; a writer's plan is made of the meta as it still is; and   *)
(* the text a reader has begun with only grew.                             *)

MemoryId == [rec : Nat, seq : Nat]
MemoryMeta == [committed : Nat, next : Nat]
MemorySteps == {"idle", "truncate", "append", "commit", "scan", "rewrite", "recommit", "recall"}
MemoryCall == [at : MemorySteps, meta : MemoryMeta, rec : Nat, seq : Nat, text : Seq(MemoryUnit)]
MemoryTypes ==
  /\ file \in Seq(MemoryUnit) /\ meta \in MemoryMeta
  /\ op \in [Callers -> MemoryCall] /\ answer \in [Callers -> [ok : BOOLEAN, got : SUBSET MemoryId]]
  /\ added \in Nat /\ crashes \in Nat
  /\ acked \in SUBSET MemoryId /\ doubt \in SUBSET MemoryId
  /\ overlap \in BOOLEAN /\ halved \in BOOLEAN /\ crossed \in SUBSET Callers
Quiet == ~overlap /\ ~halved
Paired == \A c \in Callers : op[c].at # "recommit"     \* the two files belong together
OneWriter == ~overlap => \A c, d \in Writers : c = d
TextHolds(u, next, has, may) ==
  SoundText(u, next) /\ has \subseteq Records(u) /\ Records(u) \subseteq may
FileHolds == Quiet /\ Paired =>
  /\ meta.committed <= Len(file)
  /\ TextHolds(SubSeq(file, 1, meta.committed), meta.next, acked \ doubt, acked \union doubt)
WriterHolds(c) ==
  /\ op[c].meta = meta
  /\ op[c].at \in {"truncate", "append", "commit"} => op[c].seq = meta.next
  /\ op[c].at = "append" => Len(file) = meta.committed
  /\ op[c].at = "commit" =>
        file = SubSeq(file, 1, meta.committed) \o EncodeRecord(op[c].rec, op[c].seq)
  /\ op[c].at = "rewrite" => op[c].text = Without(SubSeq(file, 1, meta.committed), op[c].seq)
  /\ op[c].at = "recommit" =>
        /\ file = op[c].text
        /\ TextHolds(file, meta.next, {r \in acked \ doubt : r.seq # op[c].seq},
                     {r \in acked \union doubt : r.seq # op[c].seq})
ReaderHolds(c) ==
  /\ Paired
  /\ op[c].meta.committed <= meta.committed /\ op[c].meta.next <= meta.next
  /\ TextHolds(SubSeq(file, 1, op[c].meta.committed), op[c].meta.next,
               {r \in acked \ doubt : r.seq < op[c].meta.next}, acked \union doubt)
WritersHold == Quiet => \A c \in Writers : WriterHolds(c)
ReadersHold == Quiet => \A c \in Callers \ crossed : op[c].at = "recall" => ReaderHolds(c)
MemoryIInv == MemoryTypes /\ OneWriter /\ FileHolds /\ WritersHold /\ ReadersHold
LEMMA CommittedIsPrefix ==
  ASSUME MemoryTypes, NEW m \in MemoryMeta, m.committed <= Len(file)
  PROVE  Committed(m) = SubSeq(file, 1, m.committed)
BY DEF Committed

LEMMA NoOtherWriter ==
  ASSUME MemoryIInv, Quiet, NEW c \in Writers
  PROVE  /\ c \in Callers /\ WriterHolds(c)
         /\ \A d \in Callers : d # c => op[d].at \in {"idle", "recall"}
         /\ op[c].at # "recommit" => Paired
<1>1. c \in Callers BY DEF Writers
<1>2. \A d \in Callers : d # c => op[d].at \in {"idle", "recall"}
  BY DEF MemoryIInv, OneWriter, Writers, Quiet
<1>3. op[c].at # "recommit" => Paired BY <1>2 DEF Paired
<1>4. WriterHolds(c) BY DEF MemoryIInv, WritersHold
<1> QED BY <1>1, <1>2, <1>3, <1>4

(* Steps that leave the committed text as it is. *)
LEMMA TextStays ==
  ASSUME MemoryIInv, MemoryTypes', Quiet, Paired' = Paired, meta' = meta, acked' = acked, doubt \subseteq doubt',
         crossed \subseteq crossed', \A d \in Callers : op'[d].at = "recall" => op'[d] = op[d],
         Paired => /\ meta.committed <= Len(file')
                   /\ \A i \in 1..meta.committed : file'[i] = file[i]
  PROVE  FileHolds' /\ ReadersHold'
<1>1. ASSUME Paired, NEW n \in Nat, n <= meta.committed
      PROVE  SubSeq(file', 1, n) = SubSeq(file, 1, n)
  <2>1. meta.committed \in Nat /\ meta.committed <= Len(file) /\ file \in Seq(MemoryUnit)
    BY <1>1 DEF MemoryIInv, FileHolds, MemoryTypes, MemoryMeta
  <2>2. file' \in Seq(MemoryUnit) /\ Len(file') \in Nat /\ Len(file) \in Nat BY <2>1 DEF MemoryTypes
  <2>3. \A i \in 1..n : file'[i] = file[i] BY <1>1, <2>1
  <2>4. n <= Len(file) /\ n <= Len(file') BY <1>1, <2>1, <2>2
  <2> QED BY <2>1, <2>2, <2>3, <2>4, SamePrefix
<1>2. FileHolds'
  <2>1. SUFFICES ASSUME Paired
                 PROVE  /\ meta.committed <= Len(file')
                        /\ TextHolds(SubSeq(file', 1, meta.committed), meta.next, acked' \ doubt', acked' \union doubt')
    BY DEF FileHolds
  <2>2. TextHolds(SubSeq(file, 1, meta.committed), meta.next, acked \ doubt, acked \union doubt)
    BY <2>1 DEF MemoryIInv, FileHolds
  <2>3. SubSeq(file', 1, meta.committed) = SubSeq(file, 1, meta.committed)
    <3>1. meta.committed \in Nat /\ meta.committed <= meta.committed BY DEF MemoryIInv, MemoryTypes, MemoryMeta
    <3> QED BY <1>1, <2>1, <3>1
  <2> QED BY <2>1, <2>2, <2>3 DEF TextHolds
<1>3. ReadersHold'
  <2>1. SUFFICES ASSUME NEW d \in Callers \ crossed', op'[d].at = "recall" PROVE ReaderHolds(d)'
    BY DEF ReadersHold
  <2>2. op'[d] = op[d] /\ ReaderHolds(d) BY <2>1 DEF MemoryIInv, ReadersHold
  <2>3. Paired /\ op[d].meta.committed \in Nat /\ op[d].meta.committed <= meta.committed
    BY <2>2 DEF ReaderHolds, MemoryIInv, MemoryTypes, MemoryCall, MemoryMeta
  <2>4. SubSeq(file', 1, op[d].meta.committed) = SubSeq(file, 1, op[d].meta.committed) BY <1>1, <2>3
  <2>5. TextHolds(SubSeq(file, 1, op[d].meta.committed), op[d].meta.next,
                  {r \in acked \ doubt : r.seq < op[d].meta.next}, acked \union doubt)
    BY <2>2 DEF ReaderHolds
  <2>6. TextHolds(SubSeq(file', 1, op[d].meta.committed), op[d].meta.next,
                  {r \in acked' \ doubt' : r.seq < op[d].meta.next}, acked' \union doubt')
    BY <2>4, <2>5 DEF TextHolds
  <2> QED BY <2>2, <2>3, <2>6 DEF ReaderHolds
<1> QED BY <1>2, <1>3

(* A call is begun. *)
LEMMA BeginKeeps ==
  ASSUME MemoryIInv, NEW c \in Callers, NEW at \in {"truncate", "scan", "recall"}, NEW rec \in Nat,
         NEW seq \in Nat, at = "truncate" => seq = meta.next, Begin(c, at, rec, seq), added' \in Nat
  PROVE  MemoryIInv'
<1>1. op[c].at = "idle" /\ op' = [op EXCEPT ![c] = [Idle EXCEPT !.at = at, !.meta = meta, !.rec = rec, !.seq = seq]]
  BY DEF Begin
<1>2. overlap' = (overlap \/ (at # "recall" /\ Writers # {})) BY DEF Begin
<1>3. crossed' = IF \E d \in Callers : op[d].at = "recommit" THEN crossed \union {c} ELSE crossed \ {c} BY DEF Begin
<1>4. UNCHANGED <<file, meta, answer, crashes, acked, doubt, halved>> BY DEF Begin
<1>5. MemoryTypes BY DEF MemoryIInv
<1>6. /\ op'[c] = [at |-> at, meta |-> meta, rec |-> rec, seq |-> seq, text |-> << >>]
      /\ \A d \in Callers : d # c => op'[d] = op[d]
  BY <1>1, <1>5 DEF MemoryTypes, Idle
<1>7. MemoryTypes'
  <2>1. [at |-> at, meta |-> meta, rec |-> rec, seq |-> seq, text |-> << >>] \in MemoryCall
    BY <1>5 DEF MemoryTypes, MemoryCall, MemorySteps
  <2>2. op' \in [Callers -> MemoryCall] BY <1>1, <1>5, <2>1 DEF MemoryTypes, Idle
  <2> QED BY <1>2, <1>3, <1>4, <1>5, <2>2 DEF MemoryTypes
<1>8. Paired' <=> Paired
  <2>1. op'[c].at # "recommit" /\ op[c].at # "recommit" BY <1>1, <1>6
  <2> QED BY <1>6, <2>1 DEF Paired
<1>9. Writers' = IF at = "recall" THEN Writers ELSE Writers \union {c}
  <2>1. op'[c].at = at /\ op[c].at = "idle" BY <1>1, <1>6
  <2> QED BY <1>6, <2>1 DEF Writers
<1>10. OneWriter'
  <2>1. SUFFICES ASSUME ~overlap' PROVE \A d, e \in Writers' : d = e BY DEF OneWriter
  <2>2. ~overlap /\ (at = "recall" \/ Writers = {}) BY <1>2, <1>5, <2>1 DEF MemoryTypes
  <2>3. \A d, e \in Writers : d = e BY <2>2 DEF MemoryIInv, OneWriter
  <2> QED BY <1>9, <2>2, <2>3
<1>11. Quiet' => Quiet BY <1>2, <1>4, <1>5 DEF Quiet, MemoryTypes
<1>12. FileHolds' BY <1>4, <1>8, <1>11 DEF MemoryIInv, FileHolds
<1>13. WritersHold'
  <2>1. SUFFICES ASSUME Quiet, NEW d \in Writers' PROVE WriterHolds(d)' BY <1>11 DEF WritersHold
  <2>2. CASE d = c
    <3>1. at \in {"truncate", "scan"} BY <1>6, <2>1, <2>2 DEF Writers
    <3> QED BY <1>4, <1>6, <2>2, <3>1 DEF WriterHolds
  <2>3. CASE d # c
    <3>1. d \in Writers /\ op'[d] = op[d] BY <1>6, <1>9, <2>1, <2>3 DEF Writers
    <3>2. WriterHolds(d) BY <2>1, <3>1 DEF MemoryIInv, WritersHold
    <3> QED BY <1>4, <3>1, <3>2 DEF WriterHolds
  <2> QED BY <2>2, <2>3
<1>14. ReadersHold'
  <2>1. SUFFICES ASSUME Quiet, NEW d \in Callers \ crossed', op'[d].at = "recall" PROVE ReaderHolds(d)'
    BY <1>11 DEF ReadersHold
  <2>2. CASE d = c
    <3>1. Paired BY <1>3, <2>1, <2>2 DEF Paired
    <3>2. meta.committed \in Nat /\ meta.next \in Nat BY <1>5 DEF MemoryTypes, MemoryMeta
    <3>3. TextHolds(SubSeq(file, 1, meta.committed), meta.next, acked \ doubt, acked \union doubt)
      BY <2>1, <3>1 DEF MemoryIInv, FileHolds
    <3>4. TextHolds(SubSeq(file, 1, meta.committed), meta.next, {r \in acked \ doubt : r.seq < meta.next},
                    acked \union doubt)
      BY <3>3 DEF TextHolds
    <3>5. op'[c].meta = meta /\ meta' = meta BY <1>4, <1>6
    <3>6. TextHolds(SubSeq(file', 1, op'[c].meta.committed), op'[c].meta.next,
                    {r \in acked' \ doubt' : r.seq < op'[c].meta.next}, acked' \union doubt')
      BY <1>4, <3>4, <3>5
    <3>7. op'[c].meta.committed <= meta'.committed /\ op'[c].meta.next <= meta'.next BY <3>2, <3>5
    <3> QED BY <1>8, <2>2, <3>1, <3>6, <3>7 DEF ReaderHolds
  <2>3. CASE d # c
    <3>1. d \notin crossed /\ op'[d] = op[d] BY <1>3, <1>6, <2>1, <2>3
    <3>2. ReaderHolds(d) BY <2>1, <3>1 DEF MemoryIInv, ReadersHold
    <3> QED BY <1>4, <1>8, <3>1, <3>2 DEF ReaderHolds
  <2> QED BY <2>2, <2>3
<1> QED BY <1>7, <1>10, <1>12, <1>13, <1>14 DEF MemoryIInv
LEMMA TruncateKeeps ==
  ASSUME MemoryIInv, NEW c \in Callers, Truncate(c)
  PROVE  MemoryIInv'
<1> DEFINE n == op[c].meta.committed
<1>1. op[c].at = "truncate" /\ op' = [op EXCEPT ![c].at = "append"] BY DEF Truncate, Goto
<1>2. file' = IF n <= Len(file) THEN SubSeq(file, 1, n) ELSE file \o [i \in 1..(n - Len(file)) |-> Nul]
  BY DEF Truncate
<1>3. UNCHANGED <<meta, answer, added, ops, crashes, acked, doubt, overlap, crossed, halved>>
  BY DEF Truncate, memoryBounds
<1>4. MemoryTypes /\ n \in Nat BY DEF MemoryIInv, MemoryTypes, MemoryCall, MemoryMeta
<1>5. op'[c] = [op[c] EXCEPT !.at = "append"] /\ \A d \in Callers : d # c => op'[d] = op[d]
  BY <1>1, <1>4 DEF MemoryTypes
<1>6. MemoryTypes'
  <2>1. op' \in [Callers -> MemoryCall] BY <1>1, <1>4 DEF MemoryTypes, MemoryCall, MemorySteps
  <2>2. file' \in Seq(MemoryUnit)
    <3>0. file \in Seq(MemoryUnit) BY <1>4 DEF MemoryTypes
    <3>1. CASE n <= Len(file)
      <4>1. SubSeq(file, 1, n) \in Seq(MemoryUnit) BY <1>4, <3>0, <3>1, PrefixIs
      <4> QED BY <1>2, <3>1, <4>1
    <3>2. CASE ~(n <= Len(file))
      <4>1. Nul \in MemoryUnit BY DEF Nul, MemoryUnit
      <4>2. n - Len(file) \in Nat BY <1>4, <3>0, <3>2
      <4>3. [i \in 1..(n - Len(file)) |-> Nul] \in Seq(MemoryUnit) BY <4>1, <4>2
      <4> QED BY <1>2, <3>0, <3>2, <4>3
    <3> QED BY <3>1, <3>2
  <2> QED BY <1>3, <1>4, <2>1, <2>2 DEF MemoryTypes
<1>7. Writers' = Writers /\ c \in Writers BY <1>1, <1>4, <1>5 DEF Writers, MemoryTypes, MemoryCall
<1>8. OneWriter' BY <1>3, <1>7 DEF MemoryIInv, OneWriter
<1>9. SUFFICES ASSUME Quiet PROVE FileHolds' /\ ReadersHold' /\ WritersHold'
  BY <1>3, <1>6, <1>8 DEF MemoryIInv, FileHolds, ReadersHold, WritersHold, Quiet
<1>10. WriterHolds(c) /\ Paired /\ \A d \in Callers : d # c => op[d].at \in {"idle", "recall"}
  BY <1>1, <1>7, <1>9, NoOtherWriter
<1>11. n = meta.committed /\ n <= Len(file) /\ op[c].seq = meta.next /\ op[c].meta = meta
  BY <1>1, <1>9, <1>10 DEF WriterHolds, MemoryIInv, FileHolds
<1>12. file' = SubSeq(file, 1, n) BY <1>2, <1>11
<1>13. Len(file') = n /\ \A i \in 1..n : file'[i] = file[i]
  BY <1>4, <1>11, <1>12, PrefixIs DEF MemoryTypes
<1>14. Paired'
  <2>1. op'[c].at = "append" BY <1>4, <1>5 DEF MemoryTypes, MemoryCall
  <2> QED BY <1>5, <1>10, <2>1 DEF Paired
<1>15. FileHolds' /\ ReadersHold'
  <2>1. \A d \in Callers : op'[d].at = "recall" => op'[d] = op[d] BY <1>4, <1>5 DEF MemoryTypes, MemoryCall
  <2>2. meta.committed <= Len(file') BY <1>4, <1>11, <1>13
  <2> QED BY <1>3, <1>6, <1>9, <1>10, <1>11, <1>13, <1>14, <2>1, <2>2, TextStays
<1>16. WriterHolds(c)'
  <2>1. op'[c].at = "append" /\ op'[c].meta = op[c].meta /\ op'[c].seq = op[c].seq
    BY <1>4, <1>5 DEF MemoryTypes, MemoryCall
  <2> QED BY <1>3, <1>11, <1>13, <2>1 DEF WriterHolds
<1>17. \A d \in Writers' : d = c BY <1>7, <1>10 DEF Writers
<1> QED BY <1>15, <1>16, <1>17 DEF WritersHold

LEMMA AppendKeeps ==
  ASSUME MemoryIInv, NEW c \in Callers, AppendLine(c)
  PROVE  MemoryIInv'
<1> DEFINE e == EncodeRecord(op[c].rec, op[c].seq)
<1>1. op[c].at = "append" /\ op' = [op EXCEPT ![c].at = "commit"] /\ file' = file \o e BY DEF AppendLine, Goto
<1>3. UNCHANGED <<meta, answer, added, ops, crashes, acked, doubt, overlap, crossed, halved>>
  BY DEF AppendLine, memoryBounds
<1>4. MemoryTypes /\ op[c].rec \in Nat /\ op[c].seq \in Nat BY DEF MemoryIInv, MemoryTypes, MemoryCall
<1>5. op'[c] = [op[c] EXCEPT !.at = "commit"] /\ \A d \in Callers : d # c => op'[d] = op[d]
  BY <1>1, <1>4 DEF MemoryTypes
<1>2. e \in Seq(MemoryUnit) /\ Len(e) \in Nat
  <2>1. e \in Seq(MemoryUnit) BY <1>4, EncodeIsWhole
  <2> HIDE DEF e
  <2> QED BY <2>1
<1> HIDE DEF e
<1>6. MemoryTypes'
  <2>1. op' \in [Callers -> MemoryCall] BY <1>1, <1>4 DEF MemoryTypes, MemoryCall, MemorySteps
  <2>2. file' \in Seq(MemoryUnit) BY <1>1, <1>2, <1>4 DEF MemoryTypes
  <2> QED BY <1>3, <1>4, <2>1, <2>2 DEF MemoryTypes
<1>7. Writers' = Writers /\ c \in Writers BY <1>1, <1>4, <1>5 DEF Writers, MemoryTypes, MemoryCall
<1>8. OneWriter' BY <1>3, <1>7 DEF MemoryIInv, OneWriter
<1>9. SUFFICES ASSUME Quiet PROVE FileHolds' /\ ReadersHold' /\ WritersHold'
  BY <1>3, <1>6, <1>8 DEF MemoryIInv, FileHolds, ReadersHold, WritersHold, Quiet
<1>10. WriterHolds(c) /\ Paired /\ \A d \in Callers : d # c => op[d].at \in {"idle", "recall"}
  BY <1>1, <1>7, <1>9, NoOtherWriter
<1>11. op[c].meta = meta /\ Len(file) = meta.committed /\ op[c].seq = meta.next /\ meta.committed \in Nat
  BY <1>1, <1>4, <1>10 DEF WriterHolds, MemoryTypes, MemoryMeta
<1>12. \A i \in 1..meta.committed : file'[i] = file[i] BY <1>1, <1>2, <1>4, <1>11 DEF MemoryTypes
<1>13. meta.committed <= Len(file') BY <1>1, <1>2, <1>4, <1>11 DEF MemoryTypes
<1>14. Paired'
  <2>1. op'[c].at = "commit" BY <1>4, <1>5 DEF MemoryTypes, MemoryCall
  <2> QED BY <1>5, <1>10, <2>1 DEF Paired
<1>15. FileHolds' /\ ReadersHold'
  <2>1. \A d \in Callers : op'[d].at = "recall" => op'[d] = op[d] BY <1>4, <1>5 DEF MemoryTypes, MemoryCall
  <2> QED BY <1>3, <1>6, <1>9, <1>10, <1>12, <1>13, <1>14, <2>1, TextStays
<1>16. file = SubSeq(file', 1, meta.committed)
  <2>0. file \in Seq(MemoryUnit) /\ file' \in Seq(MemoryUnit) BY <1>4, <1>6 DEF MemoryTypes
  <2>1. SubSeq(file', 1, meta.committed) \in Seq(MemoryUnit) /\ Len(SubSeq(file', 1, meta.committed)) = meta.committed
        /\ \A i \in 1..meta.committed : SubSeq(file', 1, meta.committed)[i] = file'[i]
    BY <1>11, <1>13, <2>0, PrefixIs
  <2> QED BY <1>11, <1>12, <2>0, <2>1, SameSequence
<1>17. WriterHolds(c)'
  <2>1. /\ op'[c].at = "commit" /\ op'[c].meta = op[c].meta /\ op'[c].seq = op[c].seq
        /\ op'[c].rec = op[c].rec
    BY <1>4, <1>5 DEF MemoryTypes, MemoryCall
  <2>2. file' = SubSeq(file', 1, meta.committed) \o EncodeRecord(op'[c].rec, op'[c].seq)
    BY <1>1, <1>16, <2>1 DEF e
  <2> QED BY <1>3, <1>11, <2>1, <2>2 DEF WriterHolds
<1>18. \A d \in Writers' : d = c BY <1>7, <1>10 DEF Writers
<1> QED BY <1>15, <1>17, <1>18 DEF WritersHold

LEMMA CommitKeeps ==
  ASSUME MemoryIInv, NEW c \in Callers, Commit(c)
  PROVE  MemoryIInv'
<1> DEFINE x == [rec |-> op[c].rec, seq |-> op[c].seq]
           text == SubSeq(file, 1, meta.committed)
           e == EncodeRecord(op[c].rec, meta.next)
<1>1. /\ op[c].at = "commit" /\ op' = [op EXCEPT ![c] = Idle] /\ acked' = acked \union {x}
      /\ meta' = [committed |-> op[c].meta.committed + Size(op[c].rec), next |-> op[c].seq + 1]
  BY DEF Commit, Done
<1>2. UNCHANGED <<file, answer, added, ops, crashes, doubt, overlap, crossed, halved>> BY DEF Commit, memoryBounds
<1>3. MemoryTypes BY DEF MemoryIInv
<1>4. op[c] \in MemoryCall /\ op[c].rec \in Nat /\ op[c].seq \in Nat /\ op[c].meta.committed \in Nat
  BY <1>3 DEF MemoryTypes, MemoryCall, MemoryMeta
<1>5. op'[c] = Idle /\ \A d \in Callers : d # c => op'[d] = op[d] BY <1>1, <1>3 DEF MemoryTypes
<1>6. MemoryTypes'
  <2>1. Idle \in MemoryCall BY DEF Idle, MemoryCall, MemorySteps, MemoryMeta
  <2>2. op' \in [Callers -> MemoryCall] BY <1>1, <1>3, <2>1 DEF MemoryTypes
  <2>3. Size(op[c].rec) \in Nat BY <1>4, EncodeIsWhole
  <2>4. meta' \in MemoryMeta BY <1>1, <1>4, <2>3 DEF MemoryMeta
  <2>5. acked' \in SUBSET MemoryId BY <1>1, <1>3, <1>4 DEF MemoryTypes, MemoryId
  <2> QED BY <1>2, <1>3, <2>2, <2>4, <2>5 DEF MemoryTypes
<1>7. Writers' = Writers \ {c} /\ c \in Writers BY <1>1, <1>5 DEF Writers, Idle
<1>8. OneWriter' BY <1>2, <1>7 DEF MemoryIInv, OneWriter
<1>9. SUFFICES ASSUME Quiet PROVE FileHolds' /\ ReadersHold' /\ WritersHold'
  BY <1>2, <1>6, <1>8 DEF MemoryIInv, FileHolds, ReadersHold, WritersHold, Quiet
<1>10. WriterHolds(c) /\ Paired /\ \A d \in Callers : d # c => op[d].at \in {"idle", "recall"}
  BY <1>1, <1>7, <1>9, NoOtherWriter
<1>11. /\ op[c].meta = meta /\ op[c].seq = meta.next /\ file = text \o e
       /\ meta.committed \in Nat /\ meta.next \in Nat
  BY <1>1, <1>3, <1>10 DEF WriterHolds, MemoryTypes, MemoryMeta
<1>12. /\ meta.committed <= Len(file)
       /\ TextHolds(text, meta.next, acked \ doubt, acked \union doubt)
  BY <1>9, <1>10 DEF MemoryIInv, FileHolds
<1>13. text \in Seq(MemoryUnit) /\ Len(text) = meta.committed BY <1>3, <1>11, <1>12, PrefixIs DEF MemoryTypes
<1> HIDE DEF text
<1>14. /\ Len(file) = meta.committed + Size(op[c].rec)
       /\ SoundText(file, meta.next + 1)
       /\ Records(file) = Records(text) \union {x}
  <2>1. SoundText(text, meta.next) BY <1>12 DEF TextHolds
  <2>2. /\ Len(text \o e) = Len(text) + Size(op[c].rec)
        /\ SoundText(text \o e, meta.next + 1)
        /\ Records(text \o e) = Records(text) \union {[rec |-> op[c].rec, seq |-> meta.next]}
    <3>1. text \in Seq(MemoryUnit) /\ meta.next \in Nat /\ op[c].rec \in Nat BY <1>4, <1>11, <1>13
    <3> QED BY <2>1, <3>1, OneLineMore
  <2> HIDE DEF e
  <2> QED BY <1>11, <1>13, <2>2
<1>15. meta'.committed = Len(file) /\ meta'.next = meta.next + 1 BY <1>1, <1>11, <1>14
<1>16. SubSeq(file, 1, Len(file)) = file
  <2>0. file \in Seq(MemoryUnit) /\ Len(file) \in Nat /\ Len(file) <= Len(file) BY <1>3 DEF MemoryTypes
  <2>1. SubSeq(file, 1, Len(file)) \in Seq(MemoryUnit) /\ Len(SubSeq(file, 1, Len(file))) = Len(file)
        /\ \A i \in 1..Len(file) : SubSeq(file, 1, Len(file))[i] = file[i]
    BY <2>0, PrefixIs
  <2> QED BY <2>0, <2>1, SameSequence
<1>17. FileHolds'
  <2>1. acked' \ doubt' \subseteq Records(file) /\ Records(file) \subseteq acked' \union doubt'
    BY <1>1, <1>2, <1>12, <1>14 DEF TextHolds
  <2>2. TextHolds(file, meta'.next, acked' \ doubt', acked' \union doubt') BY <1>14, <1>15, <2>1 DEF TextHolds
  <2>3. SubSeq(file', 1, meta'.committed) = file BY <1>2, <1>15, <1>16
  <2>4. meta'.committed <= Len(file') BY <1>2, <1>3, <1>15 DEF MemoryTypes
  <2> QED BY <2>2, <2>3, <2>4 DEF FileHolds
<1>18. Paired' BY <1>5, <1>10 DEF Paired, Idle
<1>19. ReadersHold'
  <2>1. SUFFICES ASSUME NEW d \in Callers \ crossed', op'[d].at = "recall" PROVE ReaderHolds(d)'
    BY DEF ReadersHold
  <2>2. d # c /\ op'[d] = op[d] BY <1>5, <2>1 DEF Idle
  <2>3. ReaderHolds(d) BY <1>2, <1>9, <2>1, <2>2 DEF MemoryIInv, ReadersHold
  <2> DEFINE m == op[d].meta
  <2>4. m.committed \in Nat /\ m.next \in Nat /\ m.committed <= meta.committed /\ m.next <= meta.next
    BY <1>3, <2>3 DEF ReaderHolds, MemoryTypes, MemoryCall, MemoryMeta
  <2>5. m.committed <= meta'.committed /\ m.next <= meta'.next
    <3>1. Size(op[c].rec) \in Nat BY <1>4, EncodeIsWhole
    <3>2. meta'.committed = meta.committed + Size(op[c].rec) BY <1>14, <1>15
    <3> QED BY <1>11, <1>15, <2>4, <3>1, <3>2
  <2>6. TextHolds(SubSeq(file, 1, m.committed), m.next, {r \in acked \ doubt : r.seq < m.next}, acked \union doubt)
    BY <2>3 DEF ReaderHolds
  <2>7. {r \in acked' \ doubt' : r.seq < m.next} \subseteq {r \in acked \ doubt : r.seq < m.next}
    <3>1. ~(x.seq < m.next) BY <1>11, <2>4
    <3> QED BY <1>1, <1>2, <3>1
  <2>8. TextHolds(SubSeq(file, 1, m.committed), m.next, {r \in acked' \ doubt' : r.seq < m.next}, acked' \union doubt')
    BY <1>1, <1>2, <2>6, <2>7 DEF TextHolds
  <2> QED BY <1>2, <1>18, <2>2, <2>5, <2>8 DEF ReaderHolds
<1>20. Writers' = {} BY <1>7, <1>10 DEF Writers
<1> QED BY <1>17, <1>19, <1>20 DEF WritersHold
LEMMA ScanKeeps ==
  ASSUME MemoryIInv, NEW c \in Callers, Scan(c)
  PROVE  MemoryIInv'
<1> DEFINE old == Committed(op[c].meta)
           kept == Without(old, op[c].seq)
<1>1. op[c].at = "scan" BY DEF Scan
<1>2. \/ op' = [op EXCEPT ![c] = Idle]
      \/ Readable(op[c].meta) /\ op' = [op EXCEPT ![c].at = "rewrite", ![c].text = kept]
  BY DEF Scan, Done
<1>3. UNCHANGED <<file, meta, answer, added, ops, crashes, acked, doubt, overlap, crossed, halved>>
  BY DEF Scan, memoryBounds
<1>4. MemoryTypes /\ op[c] \in MemoryCall /\ op[c].meta \in MemoryMeta /\ file \in Seq(MemoryUnit)
  BY DEF MemoryIInv, MemoryTypes, MemoryCall
<1>5. \A d \in Callers : d # c => op'[d] = op[d] BY <1>2, <1>4 DEF MemoryTypes
<1>6. \/ op'[c] = Idle
      \/ Readable(op[c].meta) /\ op'[c] = [op[c] EXCEPT !.at = "rewrite", !.text = kept]
  BY <1>2, <1>4 DEF MemoryTypes
<1>7. Readable(op[c].meta) => kept \in Seq(MemoryUnit)
  <2>1. SUFFICES ASSUME Readable(op[c].meta) PROVE kept \in Seq(MemoryUnit) OBVIOUS
  <2>2. op[c].meta.committed \in Nat /\ op[c].meta.committed <= Len(file) /\ Whole(old)
    BY <1>4, <2>1 DEF Readable, MemoryMeta
  <2>3. old \in Seq(MemoryUnit)
    <3>1. SubSeq(file, 1, op[c].meta.committed) \in Seq(MemoryUnit) BY <1>4, <2>2, PrefixIs
    <3> QED BY <1>4, <2>2, <3>1, CommittedIsPrefix
  <2> HIDE DEF old
  <2>4. KeptOf(kept, old, op[c].seq, Len(old)) BY <2>2, <2>3, WithoutKeeps
  <2> QED BY <2>4 DEF KeptOf
<1> HIDE DEF kept
<1>8. MemoryTypes'
  <2>1. Idle \in MemoryCall BY DEF Idle, MemoryCall, MemorySteps, MemoryMeta
  <2>2. Readable(op[c].meta) => [op[c] EXCEPT !.at = "rewrite", !.text = kept] \in MemoryCall
    BY <1>4, <1>7 DEF MemoryCall, MemorySteps
  <2>3. op' \in [Callers -> MemoryCall] BY <1>2, <1>4, <2>1, <2>2 DEF MemoryTypes
  <2> QED BY <1>3, <1>4, <2>3 DEF MemoryTypes
<1>9. op'[c].at \in {"idle", "rewrite"}
  <2>1. CASE op'[c] = Idle BY <2>1 DEF Idle
  <2>2. CASE op'[c] = [op[c] EXCEPT !.at = "rewrite", !.text = kept] BY <1>4, <2>2 DEF MemoryCall
  <2> QED BY <1>6, <2>1, <2>2
<1>10. Writers' \subseteq Writers /\ c \in Writers BY <1>1, <1>5 DEF Writers
<1>11. OneWriter' BY <1>3, <1>10 DEF MemoryIInv, OneWriter
<1>12. SUFFICES ASSUME Quiet PROVE FileHolds' /\ ReadersHold' /\ WritersHold'
  BY <1>3, <1>8, <1>11 DEF MemoryIInv, FileHolds, ReadersHold, WritersHold, Quiet
<1>13. WriterHolds(c) /\ Paired /\ \A d \in Callers : d # c => op[d].at \in {"idle", "recall"}
  BY <1>1, <1>10, <1>12, NoOtherWriter
<1>14. Paired' BY <1>5, <1>9, <1>13 DEF Paired
<1>15. meta.committed \in Nat /\ meta.committed <= Len(file) /\ op[c].meta = meta
  BY <1>4, <1>12, <1>13 DEF MemoryIInv, FileHolds, MemoryTypes, MemoryMeta, WriterHolds
<1>16. FileHolds' /\ ReadersHold'
  <2>1. \A d \in Callers : op'[d].at = "recall" => op'[d] = op[d] BY <1>5, <1>9
  <2> QED BY <1>3, <1>8, <1>12, <1>13, <1>14, <1>15, <2>1, TextStays
<1>17. op'[c].at = "rewrite" => WriterHolds(c)'
  <2>1. SUFFICES ASSUME op'[c].at = "rewrite" PROVE WriterHolds(c)' OBVIOUS
  <2>2. op'[c] = [op[c] EXCEPT !.at = "rewrite", !.text = kept] BY <1>6, <2>1 DEF Idle
  <2>3. op'[c].meta = op[c].meta /\ op'[c].seq = op[c].seq /\ op'[c].text = kept
    BY <1>4, <2>2 DEF MemoryCall
  <2>4. old = SubSeq(file, 1, meta.committed) BY <1>4, <1>15, CommittedIsPrefix
  <2> QED BY <1>3, <1>15, <2>1, <2>3, <2>4 DEF WriterHolds, kept
<1>18. \A d \in Writers' : d = c /\ op'[c].at = "rewrite" BY <1>9, <1>10, <1>13 DEF Writers
<1> QED BY <1>16, <1>17, <1>18 DEF WritersHold

LEMMA RewriteKeeps ==
  ASSUME MemoryIInv, NEW c \in Callers, Rewrite(c)
  PROVE  MemoryIInv'
<1> DEFINE text == SubSeq(file, 1, meta.committed)
<1>1. op[c].at = "rewrite" /\ op' = [op EXCEPT ![c].at = "recommit"] /\ file' = op[c].text BY DEF Rewrite, Goto
<1>2. crossed' = crossed \union {d \in Callers : op[d].at = "recall"} BY DEF Rewrite
<1>3. UNCHANGED <<meta, answer, added, ops, crashes, acked, doubt, overlap, halved>> BY DEF Rewrite, memoryBounds
<1>4. MemoryTypes /\ op[c] \in MemoryCall BY DEF MemoryIInv, MemoryTypes
<1>5. op'[c] = [op[c] EXCEPT !.at = "recommit"] /\ \A d \in Callers : d # c => op'[d] = op[d]
  BY <1>1, <1>4 DEF MemoryTypes
<1>6. MemoryTypes'
  <2>1. op' \in [Callers -> MemoryCall] BY <1>1, <1>4 DEF MemoryTypes, MemoryCall, MemorySteps
  <2>2. file' \in Seq(MemoryUnit) BY <1>1, <1>4 DEF MemoryCall
  <2>3. crossed' \in SUBSET Callers BY <1>2, <1>4 DEF MemoryTypes
  <2> QED BY <1>3, <1>4, <2>1, <2>2, <2>3 DEF MemoryTypes
<1>7. Writers' = Writers /\ c \in Writers BY <1>1, <1>4, <1>5 DEF Writers, MemoryCall
<1>8. OneWriter' BY <1>3, <1>7 DEF MemoryIInv, OneWriter
<1>9. SUFFICES ASSUME Quiet PROVE FileHolds' /\ ReadersHold' /\ WritersHold'
  BY <1>3, <1>6, <1>8 DEF MemoryIInv, FileHolds, ReadersHold, WritersHold, Quiet
<1>10. WriterHolds(c) /\ Paired /\ \A d \in Callers : d # c => op[d].at \in {"idle", "recall"}
  BY <1>1, <1>7, <1>9, NoOtherWriter
<1>11. /\ op'[c].at = "recommit" /\ op'[c].meta = op[c].meta /\ op'[c].seq = op[c].seq
       /\ op'[c].text = op[c].text
  BY <1>4, <1>5 DEF MemoryCall
<1>12. ~Paired' BY <1>11 DEF Paired
<1>13. ReadersHold' BY <1>2, <1>5, <1>11 DEF ReadersHold
<1>14. /\ meta.committed \in Nat /\ meta.committed <= Len(file)
       /\ TextHolds(text, meta.next, acked \ doubt, acked \union doubt)
       /\ op[c].meta = meta /\ op[c].text = Without(text, op[c].seq)
  BY <1>1, <1>4, <1>9, <1>10 DEF MemoryIInv, FileHolds, MemoryTypes, MemoryMeta, WriterHolds
<1>15. text \in Seq(MemoryUnit) BY <1>4, <1>14, PrefixIs DEF MemoryTypes
<1> HIDE DEF text
<1>16. SoundText(op[c].text, meta.next) /\ Records(op[c].text) = {r \in Records(text) : r.seq # op[c].seq}
  BY <1>14, <1>15, WithoutIsSound DEF TextHolds
<1>17. TextHolds(op[c].text, meta.next, {r \in acked \ doubt : r.seq # op[c].seq},
                 {r \in acked \union doubt : r.seq # op[c].seq})
  BY <1>14, <1>16 DEF TextHolds
<1>18. WriterHolds(c)' BY <1>1, <1>3, <1>11, <1>14, <1>17 DEF WriterHolds
<1>19. \A d \in Writers' : d = c BY <1>7, <1>10 DEF Writers
<1> QED BY <1>12, <1>13, <1>18, <1>19 DEF FileHolds, WritersHold

LEMMA RecommitKeeps ==
  ASSUME MemoryIInv, NEW c \in Callers, Recommit(c)
  PROVE  MemoryIInv'
<1>1. /\ op[c].at = "recommit" /\ op' = [op EXCEPT ![c] = Idle]
      /\ meta' = [committed |-> Len(op[c].text), next |-> op[c].meta.next]
      /\ acked' = {r \in acked : r.seq # op[c].seq} /\ doubt' = {r \in doubt : r.seq # op[c].seq}
  BY DEF Recommit, Done
<1>2. UNCHANGED <<file, answer, added, ops, crashes, overlap, crossed, halved>> BY DEF Recommit, memoryBounds
<1>3. MemoryTypes BY DEF MemoryIInv
<1>4. op[c].text \in Seq(MemoryUnit) /\ op[c].meta.next \in Nat BY <1>3 DEF MemoryTypes, MemoryCall, MemoryMeta
<1>5. op'[c] = Idle /\ \A d \in Callers : d # c => op'[d] = op[d] BY <1>1, <1>3 DEF MemoryTypes
<1>6. MemoryTypes'
  <2>1. Idle \in MemoryCall BY DEF Idle, MemoryCall, MemorySteps, MemoryMeta
  <2>2. op' \in [Callers -> MemoryCall] BY <1>1, <1>3, <2>1 DEF MemoryTypes
  <2>3. meta' \in MemoryMeta BY <1>1, <1>4 DEF MemoryMeta
  <2>4. acked' \in SUBSET MemoryId /\ doubt' \in SUBSET MemoryId BY <1>1, <1>3 DEF MemoryTypes
  <2> QED BY <1>2, <1>3, <2>2, <2>3, <2>4 DEF MemoryTypes
<1>7. Writers' = Writers \ {c} /\ c \in Writers BY <1>1, <1>5 DEF Writers, Idle
<1>8. OneWriter' BY <1>2, <1>7 DEF MemoryIInv, OneWriter
<1>9. SUFFICES ASSUME Quiet PROVE FileHolds' /\ ReadersHold' /\ WritersHold'
  BY <1>2, <1>6, <1>8 DEF MemoryIInv, FileHolds, ReadersHold, WritersHold, Quiet
<1>10. WriterHolds(c) /\ \A d \in Callers : d # c => op[d].at \in {"idle", "recall"}
  BY <1>7, <1>9, NoOtherWriter
<1>11. /\ op[c].meta = meta /\ file = op[c].text
       /\ TextHolds(file, meta.next, {r \in acked \ doubt : r.seq # op[c].seq},
                    {r \in acked \union doubt : r.seq # op[c].seq})
  BY <1>1, <1>10 DEF WriterHolds
<1>12. SubSeq(file, 1, Len(file)) = file
  <2>0. file \in Seq(MemoryUnit) /\ Len(file) \in Nat /\ Len(file) <= Len(file) BY <1>3 DEF MemoryTypes
  <2>1. SubSeq(file, 1, Len(file)) \in Seq(MemoryUnit) /\ Len(SubSeq(file, 1, Len(file))) = Len(file)
        /\ \A i \in 1..Len(file) : SubSeq(file, 1, Len(file))[i] = file[i]
    BY <2>0, PrefixIs
  <2> QED BY <2>0, <2>1, SameSequence
<1>13. meta'.committed = Len(file) /\ meta'.next = meta.next BY <1>1, <1>11
<1>14. FileHolds'
  <2>1. /\ acked' \ doubt' = {r \in acked \ doubt : r.seq # op[c].seq}
        /\ acked' \union doubt' = {r \in acked \union doubt : r.seq # op[c].seq}
    BY <1>1
  <2>2. TextHolds(file, meta'.next, acked' \ doubt', acked' \union doubt') BY <1>11, <1>13, <2>1
  <2>3. SubSeq(file', 1, meta'.committed) = file BY <1>2, <1>12, <1>13
  <2>4. meta'.committed <= Len(file') BY <1>2, <1>3, <1>13 DEF MemoryTypes
  <2> QED BY <2>2, <2>3, <2>4 DEF FileHolds
<1>15. ReadersHold'
  <2>1. SUFFICES ASSUME NEW d \in Callers \ crossed, op'[d].at = "recall" PROVE FALSE
    BY <1>2 DEF ReadersHold
  <2>2. op[d].at = "recall" BY <1>5, <2>1 DEF Idle
  <2>3. Paired BY <1>9, <2>1, <2>2 DEF MemoryIInv, ReadersHold, ReaderHolds
  <2> QED BY <1>1, <2>3 DEF Paired
<1>16. Writers' = {} BY <1>7, <1>10 DEF Writers
<1> QED BY <1>14, <1>15, <1>16 DEF WritersHold
LEMMA LoadKeeps ==
  ASSUME MemoryIInv, NEW c \in Callers, LoadRecords(c)
  PROVE  /\ MemoryIInv'
         /\ Quiet /\ c \notin crossed =>
              /\ answer'[c].ok
              /\ {r \in acked \ doubt : r.seq < op[c].meta.next} \subseteq answer'[c].got
              /\ answer'[c].got \subseteq acked \union doubt
<1> DEFINE m == op[c].meta
           found == IF Readable(m) THEN [ok |-> TRUE, got |-> Records(Committed(m))] ELSE Unreadable
<1>1. op[c].at = "recall" /\ op' = [op EXCEPT ![c] = Idle] /\ answer' = [answer EXCEPT ![c] = found]
  BY DEF LoadRecords, Done
<1>2. UNCHANGED <<file, meta, added, ops, crashes, acked, doubt, overlap, crossed, halved>>
  BY DEF LoadRecords, memoryBounds
<1>3. MemoryTypes /\ m \in MemoryMeta /\ file \in Seq(MemoryUnit)
  BY DEF MemoryIInv, MemoryTypes, MemoryCall
<1>4. op'[c] = Idle /\ answer'[c] = found /\ \A d \in Callers : d # c => op'[d] = op[d]
  BY <1>1, <1>3 DEF MemoryTypes
<1>5. found \in [ok : BOOLEAN, got : SUBSET MemoryId]
  <2>1. ASSUME Readable(m) PROVE Records(Committed(m)) \in SUBSET MemoryId
    <3>1. m.committed \in Nat /\ m.committed <= Len(file) BY <1>3, <2>1 DEF Readable, MemoryMeta
    <3>2. Committed(m) \in Seq(MemoryUnit)
      <4>1. SubSeq(file, 1, m.committed) \in Seq(MemoryUnit) BY <1>3, <3>1, PrefixIs
      <4> QED BY <1>3, <3>1, <4>1, CommittedIsPrefix
    <3>3. \A i \in DOMAIN Committed(m) : Committed(m)[i] \in MemoryUnit BY <3>2
    <3> QED BY <3>3 DEF Records, MemoryUnit, MemoryId
  <2>2. CASE Readable(m) BY <2>1, <2>2
  <2>3. CASE ~Readable(m) BY <2>3 DEF Unreadable
  <2> QED BY <2>2, <2>3
<1> HIDE DEF found
<1>6. MemoryTypes'
  <2>1. Idle \in MemoryCall BY DEF Idle, MemoryCall, MemorySteps, MemoryMeta
  <2>2. op' \in [Callers -> MemoryCall] BY <1>1, <1>3, <2>1 DEF MemoryTypes
  <2>3. answer' \in [Callers -> [ok : BOOLEAN, got : SUBSET MemoryId]] BY <1>1, <1>3, <1>5 DEF MemoryTypes
  <2> QED BY <1>2, <1>3, <2>2, <2>3 DEF MemoryTypes
<1>7. Writers' = Writers BY <1>1, <1>4 DEF Writers, Idle
<1>8. OneWriter' BY <1>2, <1>7 DEF MemoryIInv, OneWriter
<1>9. Paired' <=> Paired
  <2>1. op'[c].at # "recommit" /\ op[c].at # "recommit" BY <1>1, <1>4 DEF Idle
  <2> QED BY <1>4, <2>1 DEF Paired
<1>10. Quiet => FileHolds' /\ ReadersHold'
  <2>1. SUFFICES ASSUME Quiet PROVE FileHolds' /\ ReadersHold' OBVIOUS
  <2>2. \A d \in Callers : op'[d].at = "recall" => op'[d] = op[d] BY <1>4 DEF Idle
  <2>3. Paired => meta.committed <= Len(file) BY <2>1 DEF MemoryIInv, FileHolds
  <2>4. (Paired' = Paired) BY <1>9 DEF Paired
  <2> QED BY <1>2, <1>6, <2>1, <2>2, <2>3, <2>4, TextStays
<1>11. WritersHold'
  <2>1. SUFFICES ASSUME Quiet, NEW d \in Writers PROVE WriterHolds(d)'
    BY <1>2, <1>7 DEF WritersHold, Quiet
  <2>2. WriterHolds(d) /\ op'[d] = op[d] BY <1>1, <1>4, <2>1 DEF MemoryIInv, WritersHold, Writers
  <2> QED BY <1>2, <2>2 DEF WriterHolds
<1>12. MemoryIInv'
  <2>1. Quiet' => Quiet BY <1>2 DEF Quiet
  <2> QED BY <1>6, <1>8, <1>10, <1>11, <2>1 DEF MemoryIInv, FileHolds, ReadersHold
<1>13. ASSUME Quiet, c \notin crossed
       PROVE  /\ answer'[c].ok
              /\ {r \in acked \ doubt : r.seq < m.next} \subseteq answer'[c].got
              /\ answer'[c].got \subseteq acked \union doubt
  <2>1. ReaderHolds(c) BY <1>1, <1>13 DEF MemoryIInv, ReadersHold
  <2>2. meta.committed <= Len(file) BY <1>13, <2>1 DEF ReaderHolds, MemoryIInv, FileHolds
  <2>3. m.committed \in Nat /\ m.committed <= Len(file)
    <3>1. m.committed \in Nat /\ meta.committed \in Nat /\ m.committed <= meta.committed /\ Len(file) \in Nat
      BY <1>3, <2>1 DEF MemoryMeta, MemoryTypes, ReaderHolds
    <3> QED BY <2>2, <3>1
  <2>4. Committed(m) = SubSeq(file, 1, m.committed) BY <1>3, <2>3, CommittedIsPrefix
  <2>5. TextHolds(Committed(m), m.next, {r \in acked \ doubt : r.seq < m.next}, acked \union doubt)
    BY <2>1, <2>4 DEF ReaderHolds
  <2>6. Readable(m) BY <2>3, <2>5 DEF Readable, TextHolds, SoundText
  <2>7. answer'[c] = [ok |-> TRUE, got |-> Records(Committed(m))] BY <1>4, <2>6 DEF found
  <2> QED BY <2>5, <2>7 DEF TextHolds
<1> QED BY <1>12, <1>13

LEMMA WriteFailsKeeps ==
  ASSUME MemoryIInv, NEW c \in Callers, WriteFails(c)
  PROVE  MemoryIInv'
<1> DEFINE e == EncodeRecord(op[c].rec, op[c].seq)
           torn == SubSeq(e, 1, 1)
<1>1. /\ c \in Writers /\ op' = [op EXCEPT ![c] = Idle] /\ doubt' = doubt \union {Mishap(c)}
      /\ halved' = (halved \/ op[c].at = "recommit")
      /\ file' = file \/ file' = file \o torn
  BY DEF WriteFails, Done
<1>2. UNCHANGED <<meta, answer, added, ops, crashes, acked, overlap, crossed>> BY DEF WriteFails, memoryBounds
<1>3. MemoryTypes /\ op[c].rec \in Nat /\ op[c].seq \in Nat BY DEF MemoryIInv, MemoryTypes, MemoryCall
<1>4. op'[c] = Idle /\ \A d \in Callers : d # c => op'[d] = op[d] BY <1>1, <1>3 DEF MemoryTypes
<1>5. torn \in Seq(MemoryUnit)
  <2>1. e \in Seq(MemoryUnit) /\ Len(e) = Size(op[c].rec) /\ 1 \in 1..Size(op[c].rec)
    BY <1>3, EncodeIsWhole
  <2> HIDE DEF e
  <2>2. 1 <= Len(e) BY <2>1
  <2> QED BY <2>1, <2>2, PrefixIs
<1> HIDE DEF torn
<1>6. /\ file \in Seq(MemoryUnit) /\ file' \in Seq(MemoryUnit)
      /\ Len(file) \in Nat /\ Len(file') \in Nat /\ Len(file') >= Len(file)
      /\ \A i \in 1..Len(file) : file'[i] = file[i]
  <2>1. file \in Seq(MemoryUnit) BY <1>3 DEF MemoryTypes
  <2>2. CASE file' = file BY <2>1, <2>2
  <2>3. CASE file' = file \o torn BY <1>5, <2>1, <2>3
  <2> QED BY <1>1, <2>2, <2>3
<1>7. MemoryTypes'
  <2>1. Idle \in MemoryCall BY DEF Idle, MemoryCall, MemorySteps, MemoryMeta
  <2>2. op' \in [Callers -> MemoryCall] BY <1>1, <1>3, <2>1 DEF MemoryTypes
  <2>3. doubt' \in SUBSET MemoryId BY <1>1, <1>3 DEF MemoryTypes, Mishap, MemoryId
  <2>4. halved' \in BOOLEAN BY <1>1, <1>3 DEF MemoryTypes
  <2> QED BY <1>2, <1>3, <1>6, <2>2, <2>3, <2>4 DEF MemoryTypes
<1>8. Writers' = Writers \ {c} BY <1>4 DEF Writers, Idle
<1>9. OneWriter' BY <1>2, <1>8 DEF MemoryIInv, OneWriter
<1>10. SUFFICES ASSUME Quiet, op[c].at # "recommit" PROVE FileHolds' /\ ReadersHold' /\ WritersHold'
  BY <1>1, <1>2, <1>3, <1>7, <1>9 DEF MemoryIInv, FileHolds, ReadersHold, WritersHold, Quiet, MemoryTypes
<1>11. Paired /\ \A d \in Callers : d # c => op[d].at \in {"idle", "recall"}
  BY <1>1, <1>10, NoOtherWriter
<1>12. Paired' BY <1>4, <1>11 DEF Paired, Idle
<1>13. FileHolds' /\ ReadersHold'
  <2>1. \A d \in Callers : op'[d].at = "recall" => op'[d] = op[d] BY <1>4 DEF Idle
  <2>2. meta.committed \in Nat /\ meta.committed <= Len(file)
    BY <1>3, <1>10, <1>11 DEF MemoryIInv, FileHolds, MemoryTypes, MemoryMeta
  <2>3. meta.committed <= Len(file') /\ \A i \in 1..meta.committed : file'[i] = file[i] BY <1>6, <2>2
  <2> QED BY <1>1, <1>2, <1>7, <1>10, <1>11, <1>12, <2>1, <2>3, TextStays
<1>14. Writers' = {} BY <1>8, <1>11 DEF Writers
<1> QED BY <1>13, <1>14 DEF WritersHold

LEMMA CrashKeeps ==
  ASSUME MemoryIInv, MemoryCrash
  PROVE  MemoryIInv'
<1>1. /\ op' = [c \in Callers |-> Idle] /\ crashes' = crashes + 1
      /\ doubt' = doubt \union {Mishap(c) : c \in Writers}
      /\ halved' = (halved \/ \E c \in Callers : op[c].at = "recommit")
  BY DEF MemoryCrash
<1>2. UNCHANGED <<file, meta, answer, added, ops, acked, overlap, crossed>> BY DEF MemoryCrash
<1>3. MemoryTypes BY DEF MemoryIInv
<1>4. \A c \in Callers : op'[c] = Idle BY <1>1
<1>5. MemoryTypes'
  <2>1. Idle \in MemoryCall BY DEF Idle, MemoryCall, MemorySteps, MemoryMeta
  <2>2. \A c \in Writers : Mishap(c) \in MemoryId BY <1>3 DEF Writers, Mishap, MemoryTypes, MemoryCall, MemoryId
  <2>3. doubt' \in SUBSET MemoryId BY <1>1, <1>3, <2>2 DEF MemoryTypes
  <2>4. halved' \in BOOLEAN BY <1>1, <1>3 DEF MemoryTypes
  <2> QED BY <1>1, <1>2, <1>3, <2>1, <2>3, <2>4 DEF MemoryTypes
<1>6. Writers' = {} BY <1>4 DEF Writers, Idle
<1>7. OneWriter' /\ WritersHold' BY <1>6 DEF OneWriter, WritersHold
<1>8. SUFFICES ASSUME Quiet, Paired PROVE FileHolds' /\ ReadersHold'
  BY <1>1, <1>2, <1>3, <1>5, <1>7 DEF MemoryIInv, FileHolds, ReadersHold, Quiet, Paired, MemoryTypes
<1>9. Paired' BY <1>4 DEF Paired, Idle
<1>10. \A d \in Callers : op'[d].at = "recall" => op'[d] = op[d] BY <1>4 DEF Idle
<1>11. meta.committed <= Len(file') BY <1>2, <1>8 DEF MemoryIInv, FileHolds
<1> QED BY <1>1, <1>2, <1>5, <1>8, <1>9, <1>10, <1>11, TextStays
-----------------------------------------------------------------------------
(* The invariant is inductive. *)

LEMMA MemoryInductive ==
  /\ MemoryInit => MemoryIInv
  /\ MemoryIInv /\ [MemoryNext]_memoryVars => MemoryIInv'
<1>1. ASSUME MemoryInit PROVE MemoryIInv
  <2>1. Idle \in MemoryCall BY DEF Idle, MemoryCall, MemorySteps, MemoryMeta
  <2>2. MemoryTypes
    <3>1. file = << >> /\ meta = [committed |-> 0, next |-> 0] /\ op = [c \in Callers |-> Idle]
          /\ answer = [c \in Callers |-> Unreadable]
      BY <1>1 DEF MemoryInit
    <3>2. added = 0 /\ crashes = 0 /\ acked = {} /\ doubt = {} /\ overlap = FALSE /\ crossed = {} /\ halved = FALSE
      BY <1>1 DEF MemoryInit
    <3>3. Unreadable \in [ok : BOOLEAN, got : SUBSET MemoryId] BY DEF Unreadable
    <3>4. op \in [Callers -> MemoryCall] /\ answer \in [Callers -> [ok : BOOLEAN, got : SUBSET MemoryId]]
      BY <2>1, <3>1, <3>3
    <3>5. file \in Seq(MemoryUnit) /\ meta \in MemoryMeta BY <3>1 DEF MemoryMeta
    <3> QED BY <3>2, <3>4, <3>5 DEF MemoryTypes
  <2>3. \A c \in Callers : op[c].at = "idle" BY <1>1 DEF MemoryInit, Idle
  <2>4. Writers = {} BY <2>3 DEF Writers
  <2>5. FileHolds
    <3>1. /\ meta.committed = 0 /\ file = << >> /\ acked = {} /\ doubt = {} BY <1>1 DEF MemoryInit
    <3>2. SubSeq(file, 1, 0) = << >> BY <3>1
    <3>3. Len(file) = 0 /\ Len(<< >>) = 0 /\ DOMAIN << >> = {} BY <3>1
    <3>4. TextHolds(<< >>, meta.next, {}, {}) BY <3>3 DEF TextHolds, SoundText, Whole, Records
    <3>5. acked \ doubt = {} /\ acked \union doubt = {} /\ SubSeq(file, 1, meta.committed) = << >>
      BY <3>1, <3>2
    <3>6. TextHolds(SubSeq(file, 1, meta.committed), meta.next, acked \ doubt, acked \union doubt)
      BY <3>4, <3>5
    <3> QED BY <3>1, <3>3, <3>6 DEF FileHolds
  <2> QED BY <2>2, <2>3, <2>4, <2>5 DEF MemoryIInv, OneWriter, WritersHold, ReadersHold
<1>2. ASSUME MemoryIInv, [MemoryNext]_memoryVars PROVE MemoryIInv'
  <2>0. added \in Nat /\ meta.next \in Nat /\ acked \in SUBSET MemoryId
    BY <1>2 DEF MemoryIInv, MemoryTypes, MemoryMeta
  <2>1. ASSUME NEW c \in Callers, ToolAdd(c) PROVE MemoryIInv'
    <3>1. added' = added + 1 /\ Begin(c, "truncate", added + 1, meta.next) BY <2>1 DEF ToolAdd
    <3> QED BY <1>2, <2>0, <3>1, BeginKeeps
  <2>2. ASSUME NEW c \in Callers, Forget(c) PROVE MemoryIInv'
    <3>1. PICK r \in acked : Begin(c, "scan", r.rec, r.seq) BY <2>2 DEF Forget
    <3>2. added' \in Nat /\ r.rec \in Nat /\ r.seq \in Nat BY <2>0, <2>2 DEF Forget, MemoryId
    <3> QED BY <1>2, <3>1, <3>2, BeginKeeps
  <2>3. ASSUME NEW c \in Callers, Recall(c) PROVE MemoryIInv'
    <3>1. added' \in Nat /\ Begin(c, "recall", 0, 0) BY <2>0, <2>3 DEF Recall
    <3> QED BY <1>2, <3>1, BeginKeeps
  <2>4. ASSUME UNCHANGED memoryVars PROVE MemoryIInv'
    <3>1. /\ file' = file /\ meta' = meta /\ op' = op /\ answer' = answer /\ added' = added
          /\ crashes' = crashes /\ acked' = acked /\ doubt' = doubt /\ overlap' = overlap
          /\ crossed' = crossed /\ halved' = halved
      BY <2>4 DEF memoryVars
    <3>2. MemoryTypes' BY <1>2, <3>1 DEF MemoryIInv, MemoryTypes
    <3>3. (Quiet' <=> Quiet) /\ (Paired' <=> Paired) /\ Writers' = Writers BY <3>1 DEF Quiet, Paired, Writers
    <3>4. OneWriter' BY <1>2, <3>1, <3>3 DEF MemoryIInv, OneWriter
    <3>5. FileHolds' BY <1>2, <3>1, <3>3 DEF MemoryIInv, FileHolds
    <3>6. ASSUME NEW c PROVE WriterHolds(c) => WriterHolds(c)' BY <3>1 DEF WriterHolds
    <3>7. ASSUME NEW c PROVE ReaderHolds(c) => ReaderHolds(c)' BY <3>1, <3>3 DEF ReaderHolds
    <3>8. WritersHold' BY <1>2, <3>3, <3>6 DEF MemoryIInv, WritersHold
    <3>9. ReadersHold' BY <1>2, <3>1, <3>3, <3>7 DEF MemoryIInv, ReadersHold
    <3> QED BY <3>2, <3>4, <3>5, <3>8, <3>9 DEF MemoryIInv
  <2> QED BY <1>2, <2>1, <2>2, <2>3, <2>4, TruncateKeeps, AppendKeeps, CommitKeeps, ScanKeeps, RewriteKeeps,
             RecommitKeeps, LoadKeeps, WriteFailsKeeps, CrashKeeps
          DEF MemoryNext, CommandAdd, CommandForget, CommandList, Provide
<1> QED BY <1>1, <1>2

LEMMA MemoryInductiveInvariant == MemorySpec => []MemoryIInv
<1> QED BY MemoryInductive, PTL DEF MemorySpec

(* MemoryStore._add_sync and _remove_sync: calls that follow each other    *)
(* keep what was remembered, through failing writes and crashes.           *)
THEOREM MemoriesStayIntact == MemorySpec => []MemoryIntact
<1>1. ASSUME MemoryIInv PROVE MemoryIntact
  <2>1. SUFFICES ASSUME Quiet, Paired
                 PROVE  /\ Readable(meta)
                        /\ acked \ doubt \subseteq Visible /\ Visible \subseteq acked \union doubt
                        /\ \A r, s \in Visible : r.seq = s.seq => r = s
    BY DEF MemoryIntact, Quiet, Paired
  <2>2. /\ MemoryTypes /\ meta \in MemoryMeta /\ meta.committed <= Len(file)
        /\ TextHolds(SubSeq(file, 1, meta.committed), meta.next, acked \ doubt, acked \union doubt)
    BY <1>1, <2>1 DEF MemoryIInv, FileHolds, MemoryTypes
  <2> DEFINE u == Committed(meta)
  <2>3. u = SubSeq(file, 1, meta.committed) BY <2>2, CommittedIsPrefix
  <2> HIDE DEF u
  <2>4. u \in Seq(MemoryUnit) BY <2>2, <2>3, PrefixIs DEF MemoryTypes, MemoryMeta
  <2>5. SoundText(u, meta.next) /\ acked \ doubt \subseteq Records(u) /\ Records(u) \subseteq acked \union doubt
    BY <2>2, <2>3 DEF TextHolds
  <2>6. Readable(meta) BY <2>2, <2>5 DEF Readable, SoundText, u
  <2>7. ASSUME NEW r \in Records(u), NEW s \in Records(u), r.seq = s.seq PROVE r = s
    <3>1. PICK i \in 1..Len(u) : r = [rec |-> u[i].rec, seq |-> u[i].seq] BY <2>4 DEF Records
    <3>2. PICK j \in 1..Len(u) : s = [rec |-> u[j].rec, seq |-> u[j].seq] BY <2>4 DEF Records
    <3>3. u[i].seq = u[j].seq BY <2>7, <3>1, <3>2
    <3>4. u[i].rec = u[j].rec BY <2>5, <3>3 DEF SoundText
    <3> QED BY <3>1, <3>2, <3>3, <3>4
  <2> QED BY <2>5, <2>6, <2>7 DEF Visible, u
<1> QED BY <1>1, MemoryInductiveInvariant, PTL

(* MemoryStore._search_sync and _entries_sync: what a recall beside a      *)
(* remember() finds is the partition as it was, and whole.                 *)
THEOREM RecallsAreWhole == MemorySpec => RecallIsWhole
<1> DEFINE Conduct == \A c \in Callers :
             op[c].at = "recall" /\ op'[c].at = "idle" /\ crashes' = crashes
                 /\ ~overlap /\ ~halved /\ c \notin crossed =>
               /\ answer'[c].ok
               /\ {r \in acked \ doubt : r.seq < op[c].meta.next} \subseteq answer'[c].got
               /\ answer'[c].got \subseteq acked \union doubt
<1>1. ASSUME MemoryIInv, [MemoryNext]_memoryVars PROVE [Conduct]_memoryVars
  <2>1. SUFFICES ASSUME MemoryNext, NEW c \in Callers, op[c].at = "recall", op'[c].at = "idle",
                        crashes' = crashes, ~overlap, ~halved, c \notin crossed
                 PROVE  /\ answer'[c].ok
                        /\ {r \in acked \ doubt : r.seq < op[c].meta.next} \subseteq answer'[c].got
                        /\ answer'[c].got \subseteq acked \union doubt
    BY <1>1
  <2>2. MemoryTypes BY <1>1 DEF MemoryIInv
  <2>3. ~MemoryCrash BY <2>1, <2>2 DEF MemoryCrash, MemoryTypes
  <2>4. ASSUME NEW d \in Callers, NEW new, op' = [op EXCEPT ![d] = new] PROVE d = c \/ op'[c] = op[c]
    BY <2>2, <2>4 DEF MemoryTypes
  <2>5. ASSUME NEW d \in Callers, op[d].at # "recall", NEW new, op' = [op EXCEPT ![d] = new] PROVE FALSE
    BY <2>1, <2>4, <2>5
  <2>6. ~\E d \in Callers : \/ ToolAdd(d) \/ CommandAdd(d) \/ Forget(d) \/ CommandForget(d)
                            \/ Recall(d) \/ CommandList(d) \/ Provide(d)
    BY <2>5 DEF ToolAdd, CommandAdd, Forget, CommandForget, Recall, CommandList, Provide, Begin
  <2>7. ~\E d \in Callers : Truncate(d) \/ AppendLine(d) \/ Commit(d) \/ Scan(d) \/ Rewrite(d) \/ Recommit(d)
    <3>1. SUFFICES ASSUME NEW d \in Callers, op[d].at # "recall", \A e \in Callers : e # d => op'[e] = op[e]
                   PROVE  FALSE
      <4>1. op \in [Callers -> MemoryCall] BY <2>2 DEF MemoryTypes
      <4>2. ASSUME NEW d \in Callers,
                   Truncate(d) \/ AppendLine(d) \/ Commit(d) \/ Scan(d) \/ Rewrite(d) \/ Recommit(d)
            PROVE  op[d].at # "recall" /\ \A e \in Callers : e # d => op'[e] = op[e]
        <5>1. CASE Truncate(d) BY <4>1, <5>1 DEF Truncate, Goto
        <5>2. CASE AppendLine(d) BY <4>1, <5>2 DEF AppendLine, Goto
        <5>3. CASE Commit(d) BY <4>1, <5>3 DEF Commit, Done
        <5>4. CASE Scan(d) BY <4>1, <5>4 DEF Scan, Done
        <5>5. CASE Rewrite(d) BY <4>1, <5>5 DEF Rewrite, Goto
        <5>6. CASE Recommit(d) BY <4>1, <5>6 DEF Recommit, Done
        <5> QED BY <4>2, <5>1, <5>2, <5>3, <5>4, <5>5, <5>6
      <4> QED BY <4>2
    <3> QED BY <2>1, <3>1
  <2>8. ~\E d \in Callers : WriteFails(d) BY <2>5 DEF WriteFails, Writers, Done
  <2>9. PICK d \in Callers : LoadRecords(d) BY <2>1, <2>3, <2>6, <2>7, <2>8 DEF MemoryNext
  <2>10. d = c BY <2>1, <2>4, <2>9 DEF LoadRecords, Done
  <2> QED BY <1>1, <2>1, <2>9, <2>10, LoadKeeps DEF Quiet
<1> QED BY <1>1, MemoryInductiveInvariant, PTL DEF MemorySpec, RecallIsWhole
=============================================================================
