----------------------- MODULE SessionScheduler_proofs -----------------------
(***************************************************************************)
(* Safety of the session slots for any number of sessions and submissions, *)
(* any queue bound, every policy and any set of cancellable callers.       *)
(***************************************************************************)
EXTENDS SessionScheduler, SequenceTheorems, TLAPS

-----------------------------------------------------------------------------
(* Sequences of tickets. *)

LEMMA AppendFacts ==
  ASSUME NEW T, NEW s \in Seq(T), NEW x \in T
  PROVE  /\ Append(s, x) \in Seq(T)
         /\ DOMAIN Append(s, x) = 1..(Len(s) + 1)
         /\ \A i \in DOMAIN s : Append(s, x)[i] = s[i]
         /\ Append(s, x)[Len(s) + 1] = x
         /\ Elements(Append(s, x)) = Elements(s) \cup {x}
<1>1. /\ Append(s, x) \in Seq(T)
      /\ DOMAIN Append(s, x) = 1..(Len(s) + 1)
      /\ \A i \in DOMAIN s : Append(s, x)[i] = s[i]
      /\ Append(s, x)[Len(s) + 1] = x
      /\ DOMAIN s = 1..Len(s)
  OBVIOUS
<1>2. Elements(Append(s, x)) = Elements(s) \cup {x}
  <2>1. DOMAIN Append(s, x) = DOMAIN s \cup {Len(s) + 1}
    BY <1>1
  <2>2. QED
    BY <1>1, <2>1 DEF Elements
<1>3. QED
  BY <1>1, <1>2

LEMMA HeadTailFacts ==
  ASSUME NEW T, NEW s \in Seq(T), s # << >>
  PROVE  /\ Head(s) \in T /\ Head(s) = s[1] /\ 1 \in DOMAIN s
         /\ Tail(s) \in Seq(T)
         /\ \A i \in DOMAIN Tail(s) : i + 1 \in DOMAIN s /\ Tail(s)[i] = s[i + 1]
         /\ Elements(s) = {Head(s)} \cup Elements(Tail(s))
         /\ <<Head(s)>> \o Tail(s) = s
<1>1. /\ Head(s) \in T /\ Head(s) = s[1] /\ 1 \in DOMAIN s
      /\ Tail(s) \in Seq(T)
      /\ Len(Tail(s)) = Len(s) - 1
      /\ DOMAIN s = 1..Len(s) /\ DOMAIN Tail(s) = 1..(Len(s) - 1)
      /\ Len(s) \in Nat \ {0}
      /\ \A i \in 1..(Len(s) - 1) : i + 1 \in 1..Len(s) /\ Tail(s)[i] = s[i + 1]
  OBVIOUS
<1>2. Elements(s) = {Head(s)} \cup Elements(Tail(s))
  <2>1. \A j \in 1..Len(s) : j = 1 \/ (j - 1 \in 1..(Len(s) - 1) /\ Tail(s)[j - 1] = s[j])
    BY <1>1
  <2>2. ASSUME NEW j \in 1..Len(s)
        PROVE  s[j] \in {Head(s)} \cup Elements(Tail(s))
    BY <1>1, <2>1 DEF Elements
  <2>3. ASSUME NEW j \in 1..(Len(s) - 1) PROVE Tail(s)[j] \in Elements(s)
    BY <1>1 DEF Elements
  <2>4. Head(s) \in Elements(s)
    BY <1>1 DEF Elements
  <2>5. Elements(s) = {s[j] : j \in 1..Len(s)}
        /\ Elements(Tail(s)) = {Tail(s)[j] : j \in 1..(Len(s) - 1)}
    BY <1>1 DEF Elements
  <2>6. QED
    BY <2>2, <2>3, <2>4, <2>5
<1>3. <<Head(s)>> \o Tail(s) = s
  BY <1>1
<1>4. QED
  BY <1>1, <1>2, <1>3

LEMMA ConsFacts ==
  ASSUME NEW T, NEW s \in Seq(T), NEW x \in T
  PROVE  /\ <<x>> \o s \in Seq(T)
         /\ <<x>> \o s # << >>
         /\ Head(<<x>> \o s) = x
         /\ Tail(<<x>> \o s) = s
         /\ Elements(<<x>> \o s) = {x} \cup Elements(s)
         /\ \A y \in T : Append(<<x>> \o s, y) = <<x>> \o Append(s, y)
<1>1. /\ <<x>> \o s \in Seq(T)
      /\ Len(<<x>> \o s) = Len(s) + 1
      /\ <<x>> \o s # << >>
      /\ Head(<<x>> \o s) = x
  OBVIOUS
<1>2. Tail(<<x>> \o s) = s
  <2>1. \A i \in 1..Len(s) : (<<x>> \o s)[i + 1] = s[i]
    OBVIOUS
  <2>2. QED
    BY <1>1, <2>1
<1>3. Elements(<<x>> \o s) = {x} \cup Elements(s)
  BY <1>1, <1>2, HeadTailFacts
<1>4. ASSUME NEW y \in T PROVE Append(<<x>> \o s, y) = <<x>> \o Append(s, y)
  OBVIOUS
<1>5. QED
  BY <1>1, <1>2, <1>3, <1>4
-----------------------------------------------------------------------------
(* Type correctness. *)

LEMMA TypeInit == Init => TypeOK
  BY ConstantsAssumption DEF Init, TypeOK, Statuses, Final

LEMMA HandOverType ==
  ASSUME TypeOK, NEW k \in Keys, NEW st \in [Tickets -> Statuses],
         waiters[k] # << >>, HandOver(k, st)
  PROVE  /\ holder' \in [Keys -> Tickets \cup {NoTicket}]
         /\ waiters' \in [Keys -> Seq(Tickets)]
         /\ status' \in [Tickets -> Statuses]
         /\ slots' \subseteq Keys
<1>1. waiters[k] \in Seq(Tickets)
  BY DEF TypeOK
<1>2. Head(waiters[k]) \in Tickets /\ Tail(waiters[k]) \in Seq(Tickets)
  BY <1>1, HeadTailFacts
<1>3. QED
  BY <1>2 DEF HandOver, TypeOK, Statuses, Blocked

LEMMA SettledType ==
  ASSUME NEW t \in Tickets, NEW st \in [Tickets -> Statuses], NEW o \in Statuses
  PROVE  Settled(t, st, o) \in [Tickets -> Statuses]
  BY DEF Settled

LEMMA TypeStep == TypeOK /\ [Next]_vars => TypeOK'
<1> SUFFICES ASSUME TypeOK, [Next]_vars PROVE TypeOK'
  OBVIOUS
<1> USE ConstantsAssumption
<1>1. ASSUME NEW t \in Tickets, Reject(t) PROVE TypeOK'
  BY <1>1 DEF TypeOK, Reject, Statuses, Final
<1>2. ASSUME NEW t \in Tickets, SubmitIdle(t) PROVE TypeOK'
  <2>1. KeyOf[t] \in Keys /\ pending[KeyOf[t]] \in Seq(Tickets)
    BY DEF TypeOK
  <2>2. Append(pending[KeyOf[t]], t) \in Seq(Tickets)
        /\ <<t>> \in Seq(Tickets) /\ << >> \in Seq(Tickets)
    BY <2>1, AppendFacts
  <2>3. QED
    BY <1>2, <2>1, <2>2 DEF TypeOK, SubmitIdle, Statuses
<1>3. ASSUME NEW t \in Tickets, SubmitBusy(t) PROVE TypeOK'
  <2>1. /\ KeyOf[t] \in Keys
        /\ Append(pending[KeyOf[t]], t) \in Seq(Tickets)
        /\ Append(waiters[KeyOf[t]], t) \in Seq(Tickets)
    BY AppendFacts DEF TypeOK
  <2>2. QED
    BY <1>3, <2>1 DEF TypeOK, SubmitBusy, Statuses, Blocked
<1>4. ASSUME NEW t \in Tickets, Resume(t) PROVE TypeOK'
  <2>1. /\ KeyOf[t] \in Keys
        /\ <<t>> \in Seq(Tickets) /\ << >> \in Seq(Tickets)
        /\ Elements(waiters[KeyOf[t]]) \subseteq Tickets
    BY DEF TypeOK, Elements
  <2>2. /\ batch' \in [Tickets -> Seq(Tickets)]
        /\ absorbed' \in [Tickets -> SUBSET Tickets]
        /\ pending' \in [Keys -> Seq(Tickets)]
        /\ waiters' \in [Keys -> Seq(Tickets)]
    <3> DEFINE W == Elements(waiters[KeyOf[t]])
               P == pending[KeyOf[t]]
    <3>1. W \subseteq Tickets /\ P \in Seq(Tickets)
      BY <2>1 DEF TypeOK
    <3>2. CASE policy = "merge"
      <4>1. /\ batch' = [batch EXCEPT ![t] = P]
            /\ absorbed' = [absorbed EXCEPT ![t] = W]
            /\ pending' = [pending EXCEPT ![KeyOf[t]] = << >>]
            /\ waiters' = [waiters EXCEPT ![KeyOf[t]] = << >>]
        BY <1>4, <3>2 DEF Resume, TakeBatch
      <4> HIDE DEF W, P
      <4>2. QED
        BY <2>1, <3>1, <4>1 DEF TypeOK
    <3>3. CASE policy # "merge"
      <4> DEFINE B == <<t>>
      <4>1. /\ batch' = [batch EXCEPT ![t] = B]
            /\ absorbed' = [absorbed EXCEPT ![t] = {}]
            /\ UNCHANGED <<pending, waiters>>
        BY <1>4, <3>3 DEF Resume, TakeBatch
      <4>2. B \in Seq(Tickets)
        BY <2>1
      <4> HIDE DEF B
      <4>3. QED
        BY <4>1, <4>2 DEF TypeOK
    <3>4. QED
      BY <3>2, <3>3
  <2>3. QED
    BY <1>4, <2>1, <2>2 DEF TypeOK, Resume, Statuses
<1>5. ASSUME NEW t \in Tickets, NEW ok \in BOOLEAN, Finish(t, ok) PROVE TypeOK'
  <2> DEFINE k == KeyOf[t]
             own == [status EXCEPT ![t] = IF ok THEN "executed" ELSE "raised"]
             st == Settled(t, own, IF ok THEN "merged" ELSE "raised")
  <2>1. k \in Keys /\ << >> \in Seq(Tickets)
    BY DEF TypeOK
  <2>2. own \in [Tickets -> Statuses]
    BY DEF TypeOK, Statuses, Final
  <2>3. st \in [Tickets -> Statuses]
    BY <2>2, SettledType DEF Statuses, Final
  <2>4. Release(k, st)
    BY <1>5 DEF Finish
  <2> HIDE DEF st, own
  <2>5. /\ holder' \in [Keys -> Tickets \cup {NoTicket}]
        /\ waiters' \in [Keys -> Seq(Tickets)]
        /\ status' \in [Tickets -> Statuses]
        /\ slots' \subseteq Keys
    BY <2>1, <2>3, <2>4, HandOverType DEF Release, TypeOK
  <2>6. QED
    BY <1>5, <2>1, <2>5 DEF TypeOK, Finish
<1>6. ASSUME NEW t \in Tickets, Cancel(t) PROVE TypeOK'
  BY <1>6 DEF TypeOK, Cancel, slotVars, Statuses, Final
<1>7. CASE UNCHANGED vars
  BY <1>7 DEF TypeOK, vars, slotVars
<1>8. QED
  BY <1>1, <1>2, <1>3, <1>4, <1>5, <1>6, <1>7 DEF Next

(* Every variable of the slots keeps its type: session_lock.py never mixes *)
(* tickets, messages and turn ids.                                         *)
THEOREM TypeCorrect == Spec => []TypeOK
  BY TypeInit, TypeStep, PTL DEF Spec
-----------------------------------------------------------------------------
(* The inductive invariant, one lemma per action. *)

LEMMA QueuedAreTickets ==
  ASSUME TypeOK, NEW k \in Keys
  PROVE  /\ waiters[k] \in Seq(Tickets)
         /\ \A i \in DOMAIN waiters[k] : waiters[k][i] \in Tickets
  BY DEF TypeOK

LEMMA IInvInit == Init => IInv
  BY TypeInit, ConstantsAssumption
  DEF Init, IInv, QueueWellFormed, HolderWellFormed, BatchWellFormed, OnlyHolderRuns,
      PendingMatchesQueue, QueueOf, SlotTableExact, Busy, NoLostCaller

LEMMA RejectStep ==
  ASSUME IInv, TypeOK', NEW t \in Tickets, Reject(t)
  PROVE  IInv'
<1> USE ConstantsAssumption
<1>1. /\ status' = [status EXCEPT ![t] = "rejected"]
      /\ UNCHANGED <<policy, waiters, pending, holder, running_turn, batch, absorbed>>
      /\ status[t] \in Final /\ Unreferenced(t)
  BY DEF Reject
<1>2. Busy(KeyOf[t])
  BY DEF Reject, RejectionFor, Busy, IInv, TypeOK
<1>3. slots' = slots
  BY <1>2 DEF Reject, IInv, SlotTableExact, TypeOK
<1>4. ASSUME NEW k \in Keys PROVE QueueWellFormed(k)' /\ HolderWellFormed(k)'
  BY <1>1 DEF IInv, TypeOK, QueueWellFormed, HolderWellFormed, Unreferenced, Elements, Final
<1>5. ASSUME NEW u \in Tickets PROVE BatchWellFormed(u)'
  BY <1>1 DEF IInv, TypeOK, BatchWellFormed, Unreferenced, Elements, Final
<1>6. OnlyHolderRuns' /\ SlotTableExact'
  BY <1>1, <1>3 DEF IInv, TypeOK, OnlyHolderRuns, SlotTableExact, Busy
<1>9. NoLostCaller'
  <2> SUFFICES ASSUME NEW u \in Tickets, status'[u] = "waiting"
               PROVE  \/ u \in Elements(waiters[KeyOf[u]])
                      \/ \E v \in Tickets : status'[v] = "running" /\ u \in absorbed[v]
    BY <1>1 DEF NoLostCaller
  <2>1. status[u] = "waiting"
    BY <1>1 DEF IInv, TypeOK
  <2>2. ASSUME NEW v \in Tickets, status[v] = "running" PROVE status'[v] = "running"
    BY <1>1, <2>2 DEF IInv, TypeOK, Final
  <2>3. QED
    BY <2>1, <2>2 DEF IInv, NoLostCaller
<1>7. PendingMatchesQueue'
  BY <1>1 DEF IInv, PendingMatchesQueue, QueueOf
<1>8. QED
  BY <1>4, <1>5, <1>6, <1>7, <1>9 DEF IInv

LEMMA CancelStep ==
  ASSUME IInv, TypeOK', NEW t \in Tickets, Cancel(t)
  PROVE  IInv'
<1> USE ConstantsAssumption
<1>1. /\ status' = [status EXCEPT ![t] = "cancelled"]
      /\ status[t] \in Blocked
      /\ UNCHANGED <<policy, slots, waiters, pending, holder, running_turn, batch, absorbed>>
  BY DEF Cancel, slotVars
<1>2. ASSUME NEW k \in Keys PROVE QueueWellFormed(k)' /\ HolderWellFormed(k)'
  BY <1>1 DEF IInv, TypeOK, QueueWellFormed, HolderWellFormed, Blocked
<1>3. ASSUME NEW u \in Tickets PROVE BatchWellFormed(u)'
  BY <1>1 DEF IInv, TypeOK, BatchWellFormed, Blocked, Elements
<1>4. OnlyHolderRuns' /\ SlotTableExact'
  BY <1>1 DEF IInv, TypeOK, OnlyHolderRuns, SlotTableExact, Busy
<1>7. NoLostCaller'
  <2> SUFFICES ASSUME NEW u \in Tickets, status'[u] = "waiting"
               PROVE  \/ u \in Elements(waiters[KeyOf[u]])
                      \/ \E v \in Tickets : status'[v] = "running" /\ u \in absorbed[v]
    BY <1>1 DEF NoLostCaller
  <2>1. status[u] = "waiting"
    BY <1>1 DEF IInv, TypeOK
  <2>2. ASSUME NEW v \in Tickets, status[v] = "running" PROVE status'[v] = "running"
    BY <1>1, <2>2 DEF IInv, TypeOK, Blocked
  <2>3. QED
    BY <2>1, <2>2 DEF IInv, NoLostCaller
<1>5. PendingMatchesQueue'
  BY <1>1 DEF IInv, PendingMatchesQueue, QueueOf
<1>6. QED
  BY <1>2, <1>3, <1>4, <1>5, <1>7 DEF IInv

LEMMA SubmitIdleStep ==
  ASSUME IInv, TypeOK', NEW t \in Tickets, SubmitIdle(t)
  PROVE  IInv'
<1> USE ConstantsAssumption
<1> DEFINE k == KeyOf[t]
<1>1. /\ k \in Keys
      /\ status[t] \in Final /\ Unreferenced(t)
      /\ holder[k] = NoTicket /\ waiters[k] = << >>
      /\ slots' = slots \cup {k}
      /\ holder' = [holder EXCEPT ![k] = t]
      /\ running_turn' = [running_turn EXCEPT ![k] = t]
      /\ status' = [status EXCEPT ![t] = "running"]
      /\ pending' = [pending EXCEPT ![k] = << >>]
      /\ absorbed' = [absorbed EXCEPT ![t] = {}]
      /\ UNCHANGED <<policy, waiters>>
  BY DEF SubmitIdle
<1>2. pending[k] = << >>
  BY <1>1 DEF IInv, PendingMatchesQueue, QueueOf
<1>3. batch' = [batch EXCEPT ![t] = <<t>>]
  BY <1>2 DEF SubmitIdle
<1>4. ASSUME NEW j \in Keys PROVE QueueWellFormed(j)'
  <2>1. CASE j = k
    BY <1>1, <2>1 DEF IInv, TypeOK, QueueWellFormed
  <2>2. CASE j # k
    <3>1. \A i \in DOMAIN waiters[j] :
            waiters[j][i] \in Tickets /\ KeyOf[waiters[j][i]] = j /\ waiters[j][i] # t
      BY <2>2, QueuedAreTickets DEF IInv, QueueWellFormed
    <3>2. holder'[j] = holder[j] /\ waiters'[j] = waiters[j]
      BY <1>1, <2>2 DEF IInv, TypeOK
    <3>3. \A u \in Tickets : u # t => status'[u] = status[u]
      BY <1>1 DEF IInv, TypeOK
    <3>4. QED
      BY <3>1, <3>2, <3>3 DEF IInv, QueueWellFormed
  <2>3. QED
    BY <2>1, <2>2
<1>10. ASSUME NEW j \in Keys PROVE HolderWellFormed(j)'
  <2>1. CASE j = k
    BY <1>1, <2>1 DEF IInv, TypeOK, HolderWellFormed
  <2>2. CASE j # k
    BY <1>1, <2>2 DEF IInv, TypeOK, HolderWellFormed
  <2>3. QED
    BY <2>1, <2>2
<1>5. ASSUME NEW u \in Tickets PROVE BatchWellFormed(u)'
  <2>1. CASE u = t
    BY <1>1, <1>3, <2>1 DEF IInv, TypeOK, BatchWellFormed, Elements
  <2>2. CASE u # t
    BY <1>1, <1>3, <2>2 DEF IInv, TypeOK, BatchWellFormed, Unreferenced, Final
  <2>3. QED
    BY <2>1, <2>2
<1>6. OnlyHolderRuns' /\ SlotTableExact'
  BY <1>1 DEF IInv, TypeOK, OnlyHolderRuns, SlotTableExact, Busy
<1>7. NoLostCaller'
  BY <1>1 DEF IInv, TypeOK, NoLostCaller, Final
<1>8. PendingMatchesQueue'
  <2> SUFFICES ASSUME NEW j \in Keys
               PROVE  pending'[j] = IF policy = "merge" THEN QueueOf(j)' ELSE << >>
    BY <1>1 DEF PendingMatchesQueue
  <2>1. CASE j = k
    BY <1>1, <2>1 DEF IInv, TypeOK, QueueOf
  <2>2. CASE j # k
    <3>1. QueueOf(j)' = QueueOf(j) /\ pending'[j] = pending[j]
      BY <1>1, <2>2 DEF IInv, TypeOK, QueueOf
    <3>2. QED
      BY <3>1 DEF IInv, PendingMatchesQueue
  <2>3. QED
    BY <2>1, <2>2
<1>9. QED
  BY <1>4, <1>5, <1>6, <1>7, <1>8, <1>10 DEF IInv

LEMMA SubmitBusyStep ==
  ASSUME IInv, TypeOK', NEW t \in Tickets, SubmitBusy(t)
  PROVE  IInv'
<1> USE ConstantsAssumption
<1> DEFINE k == KeyOf[t]
           w == waiters[k]
<1>1. /\ k \in Keys
      /\ status[t] \in Final /\ Unreferenced(t) /\ Busy(k)
      /\ slots' = slots \cup {k}
      /\ waiters' = [waiters EXCEPT ![k] = Append(w, t)]
      /\ pending' = [pending EXCEPT ![k] = IF policy = "merge" THEN Append(@, t) ELSE @]
      /\ status' = [status EXCEPT ![t] = "waiting"]
      /\ UNCHANGED <<policy, holder, running_turn, batch, absorbed>>
  BY DEF SubmitBusy
<1>2. /\ w \in Seq(Tickets)
      /\ Append(w, t) \in Seq(Tickets)
      /\ DOMAIN Append(w, t) = 1..(Len(w) + 1)
      /\ DOMAIN w = 1..Len(w) /\ Len(w) \in Nat
      /\ \A i \in DOMAIN w : Append(w, t)[i] = w[i]
      /\ Append(w, t)[Len(w) + 1] = t
      /\ Elements(Append(w, t)) = Elements(w) \cup {t}
  BY <1>1, AppendFacts, QueuedAreTickets DEF IInv
<1>3. holder[k] # NoTicket /\ holder[k] # t /\ t \notin Elements(w)
  BY <1>1 DEF IInv, HolderWellFormed, Busy, Unreferenced
<1> HIDE DEF w
<1>4. \A u \in Tickets : u # t => status'[u] = status[u]
  BY <1>1 DEF IInv, TypeOK
<1>5. ASSUME NEW j \in Keys PROVE QueueWellFormed(j)'
  <2>1. CASE j = k
    <3>1. waiters'[j] = Append(w, t) /\ holder'[j] = holder[k] /\ status'[t] = "waiting"
      BY <1>1, <2>1 DEF IInv, TypeOK
    <3>2. \A i \in DOMAIN w :
            /\ w[i] \in Tickets /\ w[i] # t /\ KeyOf[w[i]] = k /\ w[i] # holder[k]
            /\ status'[w[i]] \in {"waiting", "cancelled"}
      BY <1>1, <1>3, <1>4, QueuedAreTickets DEF IInv, QueueWellFormed, Elements, w
    <3>3. \A i, m \in DOMAIN w : w[i] = w[m] => i = m
      BY <1>1 DEF IInv, QueueWellFormed, w
    <3>4. \A i \in DOMAIN Append(w, t) : i \in DOMAIN w \/ i = Len(w) + 1
      BY <1>2
    <3>5. ASSUME NEW i \in DOMAIN Append(w, t)
          PROVE  /\ KeyOf[Append(w, t)[i]] = j
                 /\ status'[Append(w, t)[i]] \in {"waiting", "cancelled"}
                 /\ Append(w, t)[i] # holder[k]
      BY <1>2, <1>3, <2>1, <3>1, <3>2, <3>4
    <3>6. ASSUME NEW i \in DOMAIN Append(w, t), NEW m \in DOMAIN Append(w, t),
                 Append(w, t)[i] = Append(w, t)[m]
          PROVE  i = m
      BY <1>2, <3>2, <3>3, <3>4, <3>6
    <3>7. QED
      BY <3>1, <3>5, <3>6 DEF QueueWellFormed
  <2>2. CASE j # k
    <3>1. \A i \in DOMAIN waiters[j] :
            waiters[j][i] \in Tickets /\ KeyOf[waiters[j][i]] = j /\ waiters[j][i] # t
      BY <2>2, QueuedAreTickets DEF IInv, QueueWellFormed
    <3>2. holder'[j] = holder[j] /\ waiters'[j] = waiters[j]
      BY <1>1, <2>2 DEF IInv, TypeOK
    <3>3. QED
      BY <1>4, <3>1, <3>2 DEF IInv, QueueWellFormed
  <2>3. QED
    BY <2>1, <2>2
<1>6. ASSUME NEW j \in Keys PROVE HolderWellFormed(j)'
  <2>1. CASE j = k
    BY <1>1, <1>3, <1>4, <2>1 DEF IInv, TypeOK, HolderWellFormed
  <2>2. CASE j # k
    BY <1>1, <1>4, <2>2 DEF IInv, TypeOK, HolderWellFormed
  <2>3. QED
    BY <2>1, <2>2
<1>7. ASSUME NEW u \in Tickets PROVE BatchWellFormed(u)'
  <2>1. CASE u = t
    BY <1>1, <2>1 DEF IInv, TypeOK, BatchWellFormed, Final
  <2>2. CASE u # t
    <3>1. status'[u] = status[u] /\ batch'[u] = batch[u] /\ absorbed'[u] = absorbed[u]
      BY <1>1, <1>4, <2>2
    <3>2. ASSUME status[u] = "running", NEW x \in absorbed[u]
          PROVE  /\ KeyOf[x] = KeyOf[u]
                 /\ status'[x] \in {"waiting", "cancelled"}
                 /\ x \notin Elements(waiters'[KeyOf[u]])
      <4>1. x \in Tickets /\ x # t
        BY <1>1, <3>2 DEF IInv, TypeOK, BatchWellFormed, Unreferenced
      <4>2. waiters'[KeyOf[u]] = IF KeyOf[u] = k THEN Append(w, t) ELSE waiters[KeyOf[u]]
        BY <1>1 DEF IInv, TypeOK
      <4>3. QED
        BY <1>2, <1>4, <3>2, <4>1, <4>2 DEF IInv, BatchWellFormed, w
    <3>3. QED
      BY <3>1, <3>2 DEF IInv, BatchWellFormed
  <2>3. QED
    BY <2>1, <2>2
<1>8. OnlyHolderRuns'
  BY <1>1, <1>4 DEF IInv, TypeOK, OnlyHolderRuns
<1>9. SlotTableExact'
  <2>1. \A j \in Keys : Busy(j)' <=> Busy(j)
    <3> TAKE j \in Keys
    <3>1. CASE j = k
      BY <1>1, <1>3, <3>1 DEF Busy
    <3>2. CASE j # k
      BY <1>1, <3>2 DEF Busy, IInv, TypeOK
    <3>3. QED
      BY <3>1, <3>2
  <2>2. QED
    BY <1>1, <2>1 DEF IInv, SlotTableExact
<1>10. NoLostCaller'
  <2> SUFFICES ASSUME NEW u \in Tickets, status'[u] = "waiting"
               PROVE  \/ u \in Elements(waiters'[KeyOf[u]])
                      \/ \E v \in Tickets : status'[v] = "running" /\ u \in absorbed[v]
    BY <1>1 DEF NoLostCaller
  <2>1. CASE u = t
    BY <1>1, <1>2, <2>1 DEF IInv, TypeOK
  <2>2. CASE u # t
    <3>1. status[u] = "waiting"
      BY <1>4, <2>2
    <3>2. Elements(waiters[KeyOf[u]]) \subseteq Elements(waiters'[KeyOf[u]])
      BY <1>1, <1>2 DEF IInv, TypeOK, w
    <3>3. ASSUME NEW v \in Tickets, status[v] = "running" PROVE status'[v] = "running"
      BY <1>1, <1>4, <3>3 DEF Final
    <3>4. QED
      BY <3>1, <3>2, <3>3 DEF IInv, NoLostCaller
  <2>3. QED
    BY <2>1, <2>2
<1>11. PendingMatchesQueue'
  <2> SUFFICES ASSUME NEW j \in Keys
               PROVE  pending'[j] = IF policy = "merge" THEN QueueOf(j)' ELSE << >>
    BY <1>1 DEF PendingMatchesQueue
  <2>1. CASE j = k
    <3>1. QueueOf(j)' = Append(QueueOf(j), t)
      <4>1. waiters'[j] = Append(w, t)
        BY <1>1, <2>1 DEF IInv, TypeOK
      <4>2. holder[k] \in Tickets
        BY <1>1, <1>3 DEF IInv, TypeOK
      <4>3. Append(<<holder[k]>> \o w, t) = <<holder[k]>> \o Append(w, t)
        BY <1>2, <4>2, ConsFacts
      <4>4. QED
        BY <1>1, <2>1, <4>1, <4>3 DEF QueueOf, w
    <3>2. pending'[j] = IF policy = "merge" THEN Append(pending[j], t) ELSE pending[j]
      BY <1>1, <2>1 DEF IInv, TypeOK
    <3>3. QED
      BY <3>1, <3>2 DEF IInv, PendingMatchesQueue
  <2>2. CASE j # k
    <3>1. QueueOf(j)' = QueueOf(j) /\ pending'[j] = pending[j]
      BY <1>1, <2>2 DEF IInv, TypeOK, QueueOf
    <3>2. QED
      BY <3>1 DEF IInv, PendingMatchesQueue
  <2>3. QED
    BY <2>1, <2>2
<1>12. QED
  BY <1>5, <1>6, <1>7, <1>8, <1>9, <1>10, <1>11 DEF IInv

LEMMA ResumeStep ==
  ASSUME IInv, TypeOK', NEW t \in Tickets, Resume(t)
  PROVE  IInv'
<1> USE ConstantsAssumption
<1> DEFINE k == KeyOf[t]
           w == waiters[k]
           p == pending[k]
<1>1. /\ k \in Keys
      /\ status[t] = "granted"
      /\ status' = [status EXCEPT ![t] = "running"]
      /\ running_turn' = [running_turn EXCEPT ![k] = t]
      /\ TakeBatch(t)
      /\ UNCHANGED <<policy, slots, holder>>
  BY DEF Resume
<1>2. holder[k] = t /\ running_turn[k] = NoTicket
  BY <1>1 DEF IInv, OnlyHolderRuns, HolderWellFormed
<1>3. w \in Seq(Tickets) /\ p \in Seq(Tickets)
  BY <1>1 DEF IInv, TypeOK
<1>4. policy = "merge" => p = <<t>> \o w /\ Elements(p) = {t} \cup Elements(w)
  <2>1. QueueOf(k) = <<t>> \o w
    BY <1>2 DEF QueueOf
  <2>2. policy = "merge" => p = <<t>> \o w
    BY <1>1, <2>1 DEF IInv, PendingMatchesQueue
  <2>3. Elements(<<t>> \o w) = {t} \cup Elements(w)
    BY <1>3, ConsFacts
  <2>4. QED
    BY <2>2, <2>3
<1>5. t \notin Elements(w)
  BY <1>1, <1>2 DEF IInv, QueueWellFormed, Elements
<1>6. \A x \in Elements(w) : x \in Tickets /\ KeyOf[x] = k /\ status[x] \in {"waiting", "cancelled"}
  BY <1>1, QueuedAreTickets DEF IInv, QueueWellFormed, Elements
<1>7. \A u \in Tickets : u # t => status'[u] = status[u]
  BY <1>1 DEF IInv, TypeOK
<1>8. \A j \in Keys : /\ waiters'[j] = IF policy = "merge" /\ j = k THEN << >> ELSE waiters[j]
                      /\ pending'[j] = IF policy = "merge" /\ j = k THEN << >> ELSE pending[j]
                      /\ running_turn'[j] = IF j = k THEN t ELSE running_turn[j]
  BY <1>1 DEF TakeBatch, IInv, TypeOK
<1>9. \A u \in Tickets :
        /\ absorbed'[u] = IF u # t THEN absorbed[u]
                          ELSE IF policy = "merge" THEN Elements(w) ELSE {}
        /\ batch'[u] = IF u # t THEN batch[u] ELSE IF policy = "merge" THEN p ELSE <<t>>
  <2>1. batch \in [Tickets -> Seq(Tickets)] /\ absorbed \in [Tickets -> SUBSET Tickets]
    BY DEF IInv, TypeOK
  <2>2. CASE policy = "merge"
    <3>1. batch' = [batch EXCEPT ![t] = p] /\ absorbed' = [absorbed EXCEPT ![t] = Elements(w)]
      BY <1>1, <2>2 DEF TakeBatch
    <3> HIDE DEF p, w
    <3>2. QED
      BY <2>1, <2>2, <3>1
  <2>3. CASE policy # "merge"
    BY <1>1, <2>1, <2>3 DEF TakeBatch
  <2>4. QED
    BY <2>2, <2>3
<1> HIDE DEF w, p
<1>10. ASSUME NEW j \in Keys PROVE QueueWellFormed(j)'
  <2>1. CASE waiters'[j] = << >>
    BY <2>1 DEF QueueWellFormed
  <2>2. CASE waiters'[j] = waiters[j]
    <3>1. \A i \in DOMAIN waiters[j] : waiters[j][i] \in Tickets /\ waiters[j][i] # t
      BY <1>1, QueuedAreTickets DEF IInv, QueueWellFormed
    <3>2. QED
      BY <1>1, <1>7, <2>2, <3>1 DEF IInv, QueueWellFormed
  <2>3. QED
    BY <1>8, <2>1, <2>2
<1>11. ASSUME NEW j \in Keys PROVE HolderWellFormed(j)'
  <2>1. CASE j = k
    BY <1>1, <1>2, <1>8, <2>1 DEF HolderWellFormed, IInv, TypeOK
  <2>2. CASE j # k
    <3>1. waiters'[j] = waiters[j] /\ running_turn'[j] = running_turn[j] /\ holder'[j] = holder[j]
      BY <1>1, <1>8, <2>2
    <3>2. holder[j] # NoTicket => status'[holder[j]] = status[holder[j]]
      BY <1>1, <1>7, <2>2 DEF IInv, TypeOK, HolderWellFormed
    <3>3. QED
      BY <3>1, <3>2 DEF IInv, HolderWellFormed
  <2>3. QED
    BY <2>1, <2>2
<1>12. ASSUME NEW u \in Tickets PROVE BatchWellFormed(u)'
  <2>1. CASE u = t
    <3>1. status'[t] = "running"
      BY <1>1 DEF IInv, TypeOK
    <3>2. CASE policy = "merge"
      <4>1. waiters'[k] = << >> /\ batch'[t] = p /\ absorbed'[t] = Elements(w)
        BY <1>1, <1>8, <1>9, <3>2
      <4>2. \A x \in Elements(w) : status'[x] \in {"waiting", "cancelled"}
        BY <1>5, <1>6, <1>7
      <4>3. Elements(<< >>) = {}
        BY DEF Elements
      <4>4. QED
        BY <1>4, <1>5, <1>6, <2>1, <3>1, <3>2, <4>1, <4>2, <4>3 DEF BatchWellFormed
    <3>3. CASE policy # "merge"
      <4>1. batch'[t] = <<t>> /\ absorbed'[t] = {}
        BY <1>9, <3>3
      <4>2. Elements(<<t>>) = {t}
        BY DEF Elements
      <4>3. QED
        BY <2>1, <3>1, <4>1, <4>2 DEF BatchWellFormed
    <3>4. QED
      BY <3>2, <3>3
  <2>2. CASE u # t
    <3>1. status'[u] = status[u] /\ batch'[u] = batch[u] /\ absorbed'[u] = absorbed[u]
      BY <1>7, <1>9, <2>2
    <3>2. ASSUME status[u] = "running", NEW x \in absorbed[u]
          PROVE  /\ KeyOf[x] = KeyOf[u]
                 /\ status'[x] \in {"waiting", "cancelled"}
                 /\ x \notin Elements(waiters'[KeyOf[u]])
      <4>1. x \in Tickets /\ x # t /\ KeyOf[x] = KeyOf[u] /\ x \notin Elements(waiters[KeyOf[u]])
            /\ status[x] \in {"waiting", "cancelled"}
        BY <1>1, <3>2 DEF IInv, TypeOK, BatchWellFormed
      <4>2. KeyOf[u] # k
        BY <1>2, <2>2, <3>2 DEF IInv, OnlyHolderRuns
      <4>3. waiters'[KeyOf[u]] = waiters[KeyOf[u]]
        BY <1>8, <4>2
      <4>4. QED
        BY <1>7, <4>1, <4>3
    <3>3. QED
      BY <3>1, <3>2 DEF IInv, BatchWellFormed
  <2>3. QED
    BY <2>1, <2>2
<1>13. OnlyHolderRuns'
  BY <1>1, <1>2, <1>7 DEF IInv, OnlyHolderRuns
<1>14. SlotTableExact'
  BY <1>1, <1>2, <1>8 DEF IInv, SlotTableExact, Busy
<1>15. NoLostCaller'
  <2> SUFFICES ASSUME NEW u \in Tickets, status'[u] = "waiting"
               PROVE  \/ u \in Elements(waiters'[KeyOf[u]])
                      \/ \E v \in Tickets : status'[v] = "running" /\ u \in absorbed'[v]
    BY DEF NoLostCaller
  <2>1. u # t /\ status[u] = "waiting" /\ status'[t] = "running"
    BY <1>1, <1>7 DEF IInv, TypeOK
  <2>2. CASE u \in Elements(waiters[KeyOf[u]])
    <3>1. CASE policy = "merge" /\ KeyOf[u] = k
      BY <1>9, <2>1, <2>2, <3>1 DEF w
    <3>2. CASE ~(policy = "merge" /\ KeyOf[u] = k)
      BY <1>8, <2>2, <3>2
    <3>3. QED
      BY <3>1, <3>2
  <2>3. ASSUME NEW v \in Tickets, status[v] = "running", u \in absorbed[v]
        PROVE  \E x \in Tickets : status'[x] = "running" /\ u \in absorbed'[x]
    BY <1>1, <1>7, <1>9, <2>3
  <2>4. QED
    BY <2>1, <2>2, <2>3 DEF IInv, NoLostCaller
<1>16. PendingMatchesQueue'
  <2> SUFFICES ASSUME NEW j \in Keys
               PROVE  pending'[j] = IF policy = "merge" THEN QueueOf(j)' ELSE << >>
    BY <1>1 DEF PendingMatchesQueue
  <2>1. CASE j = k
    <3>1. QueueOf(j)' = waiters'[k]
      BY <1>1, <1>2, <1>8, <2>1 DEF QueueOf
    <3>2. QED
      BY <1>8, <2>1, <3>1 DEF IInv, PendingMatchesQueue
  <2>2. CASE j # k
    <3>1. QueueOf(j)' = QueueOf(j) /\ pending'[j] = pending[j]
      BY <1>1, <1>8, <2>2 DEF QueueOf
    <3>2. QED
      BY <3>1 DEF IInv, PendingMatchesQueue
  <2>3. QED
    BY <2>1, <2>2
<1>17. QED
  BY <1>10, <1>11, <1>12, <1>13, <1>14, <1>15, <1>16 DEF IInv

(* The states of all submissions when the run of t has ended and the       *)
(* callers of its batch were told, before the slot changes hands.          *)
Told(t, ok) ==
  Settled(t, [status EXCEPT ![t] = IF ok THEN "executed" ELSE "raised"],
          IF ok THEN "merged" ELSE "raised")

(* The end of a run reaches the callers of its batch, and nobody else. *)
LEMMA ToldFacts ==
  ASSUME IInv, NEW t \in Tickets, status[t] = "running", NEW ok \in BOOLEAN
  PROVE  /\ Told(t, ok) \in [Tickets -> Statuses]
         /\ Told(t, ok)[t] \in {"executed", "raised"}
         /\ \A u \in Tickets : u # t /\ u \notin absorbed[t] => Told(t, ok)[u] = status[u]
         /\ \A u \in absorbed[t] : Told(t, ok)[u] \in {"merged", "raised", "cancelled"}
<1> DEFINE own == [status EXCEPT ![t] = IF ok THEN "executed" ELSE "raised"]
           o == IF ok THEN "merged" ELSE "raised"
           st == Told(t, ok)
<1>0. st = [u \in Tickets |-> IF u \in absorbed[t] /\ own[u] \in Blocked THEN o ELSE own[u]]
  BY DEF Told, Settled
<1>1. own \in [Tickets -> Statuses] /\ own[t] \in {"executed", "raised"}
      /\ \A u \in Tickets : u # t => own[u] = status[u]
  BY DEF IInv, TypeOK, Statuses, Final
<1>2. o \in Statuses /\ o \in {"merged", "raised"}
  BY DEF Statuses, Final
<1>3. t \notin absorbed[t] /\ absorbed[t] \subseteq Tickets
      /\ \A u \in absorbed[t] : status[u] \in {"waiting", "cancelled"}
  BY DEF IInv, TypeOK, BatchWellFormed
<1> HIDE DEF o, own, st
<1>4. st \in [Tickets -> Statuses]
  BY <1>0, <1>1, <1>2
<1>5. st[t] \in {"executed", "raised"}
  BY <1>0, <1>1, <1>3
<1>6. \A u \in Tickets : u # t /\ u \notin absorbed[t] => st[u] = status[u]
  BY <1>0, <1>1
<1>7. \A u \in absorbed[t] : st[u] \in {"merged", "raised", "cancelled"}
  BY <1>0, <1>1, <1>2, <1>3 DEF Blocked
<1>8. QED
  BY <1>4, <1>5, <1>6, <1>7 DEF st

LEMMA FinishStep ==
  ASSUME IInv, TypeOK', NEW t \in Tickets, NEW ok \in BOOLEAN, Finish(t, ok)
  PROVE  IInv'
<1> USE ConstantsAssumption
<1> DEFINE k == KeyOf[t]
           w == waiters[k]
           nxt == Head(w)
           st == Told(t, ok)
<1>1. /\ k \in Keys
      /\ status[t] = "running"
      /\ running_turn' = [running_turn EXCEPT ![k] = NoTicket]
      /\ Release(k, st)
      /\ batch' = [batch EXCEPT ![t] = << >>]
      /\ absorbed' = [absorbed EXCEPT ![t] = {}]
      /\ UNCHANGED <<policy, pending>>
  BY DEF Finish, Told
<1>2. /\ st \in [Tickets -> Statuses]
      /\ st[t] \in {"executed", "raised"}
      /\ \A u \in Tickets : u # t /\ u \notin absorbed[t] => st[u] = status[u]
      /\ \A u \in absorbed[t] : st[u] \in {"merged", "raised", "cancelled"}
  BY <1>1, ToldFacts
<1> HIDE DEF st
<1>3. holder[k] = t /\ running_turn[k] = t
  BY <1>1 DEF IInv, OnlyHolderRuns, HolderWellFormed
<1>4. /\ absorbed[t] \subseteq Tickets /\ t \notin absorbed[t]
      /\ \A u \in absorbed[t] : KeyOf[u] = k /\ u \notin Elements(w)
  BY <1>1 DEF IInv, TypeOK, BatchWellFormed
<1>5. /\ w \in Seq(Tickets)
      /\ \A i \in DOMAIN w : /\ w[i] \in Tickets /\ w[i] # t /\ KeyOf[w[i]] = k
                            /\ status[w[i]] \in {"waiting", "cancelled"}
                            /\ st[w[i]] = status[w[i]]
      /\ \A i, m \in DOMAIN w : w[i] = w[m] => i = m
  BY <1>1, <1>2, <1>3, <1>4, QueuedAreTickets DEF IInv, QueueWellFormed, Elements
<1>6. pending[k] = IF policy = "merge" THEN w ELSE << >>
  BY <1>1, <1>3 DEF IInv, PendingMatchesQueue, QueueOf
<1>7. \A u \in Tickets : u # t /\ status[u] \in {"granted", "running"} => KeyOf[u] # k
  BY <1>3 DEF IInv, OnlyHolderRuns
<1>8. \A u \in Tickets : /\ u # t => batch'[u] = batch[u] /\ absorbed'[u] = absorbed[u]
                         /\ u = t => batch'[u] = << >> /\ absorbed'[u] = {}
  BY <1>1 DEF IInv, TypeOK
<1> HIDE DEF w, nxt
(* Who owns the slot, who waits and what callers know after the release. *)
<1>9. CASE w # << >>
  <2>1. /\ holder' = [holder EXCEPT ![k] = nxt]
        /\ waiters' = [waiters EXCEPT ![k] = Tail(w)]
        /\ status' = IF st[nxt] = "waiting" THEN [st EXCEPT ![nxt] = "granted"] ELSE st
        /\ slots' = slots
    BY <1>1, <1>9 DEF Release, HandOver, w, nxt
  <2>2. /\ nxt \in Tickets /\ nxt = w[1] /\ 1 \in DOMAIN w
        /\ Tail(w) \in Seq(Tickets)
        /\ \A i \in DOMAIN Tail(w) : i + 1 \in DOMAIN w /\ Tail(w)[i] = w[i + 1] /\ i \in Nat \ {0}
        /\ Elements(w) = {nxt} \cup Elements(Tail(w))
        /\ <<nxt>> \o Tail(w) = w
    BY <1>5, <1>9, HeadTailFacts DEF nxt
  <2>3. /\ nxt # t /\ KeyOf[nxt] = k /\ nxt # NoTicket /\ nxt \notin absorbed[t]
        /\ st[nxt] = status[nxt] /\ status[nxt] \in {"waiting", "cancelled"}
    BY <1>4, <1>5, <2>2
  <2>4. /\ \A u \in Tickets : u # nxt => status'[u] = st[u]
        /\ status'[nxt] \in {"granted", "cancelled"}
    BY <1>2, <2>1, <2>2, <2>3
  <2>5. \A j \in Keys : /\ holder'[j] = IF j = k THEN nxt ELSE holder[j]
                        /\ waiters'[j] = IF j = k THEN Tail(w) ELSE waiters[j]
                        /\ running_turn'[j] = IF j = k THEN NoTicket ELSE running_turn[j]
    BY <1>1, <2>1 DEF IInv, TypeOK
  <2>6. \A u \in Tickets : KeyOf[u] # k => status'[u] = status[u]
    BY <1>2, <1>4, <2>3, <2>4
  <2>7. ASSUME NEW j \in Keys PROVE QueueWellFormed(j)'
    <3>1. CASE j = k
      <4>1. ASSUME NEW i \in DOMAIN Tail(w)
            PROVE  /\ KeyOf[Tail(w)[i]] = k
                   /\ status'[Tail(w)[i]] \in {"waiting", "cancelled"}
                   /\ Tail(w)[i] # nxt
        BY <1>5, <2>2, <2>4
      <4>2. ASSUME NEW i \in DOMAIN Tail(w), NEW m \in DOMAIN Tail(w), Tail(w)[i] = Tail(w)[m]
            PROVE  i = m
        BY <1>5, <2>2, <4>2
      <4>3. QED
        BY <2>5, <3>1, <4>1, <4>2 DEF QueueWellFormed
    <3>2. CASE j # k
      <4>1. \A i \in DOMAIN waiters[j] : waiters[j][i] \in Tickets /\ KeyOf[waiters[j][i]] # k
        BY <3>2, QueuedAreTickets DEF IInv, QueueWellFormed
      <4>2. QED
        BY <2>5, <2>6, <3>2, <4>1 DEF IInv, QueueWellFormed
    <3>3. QED
      BY <3>1, <3>2
  <2>8. ASSUME NEW j \in Keys PROVE HolderWellFormed(j)'
    <3>1. CASE j = k
      BY <2>3, <2>4, <2>5, <3>1 DEF HolderWellFormed
    <3>2. CASE j # k
      <4>1. holder[j] # NoTicket => status'[holder[j]] = status[holder[j]]
        BY <2>6, <3>2 DEF IInv, TypeOK, HolderWellFormed
      <4>2. QED
        BY <2>5, <3>2, <4>1 DEF IInv, HolderWellFormed
    <3>3. QED
      BY <3>1, <3>2
  <2>9. ASSUME NEW u \in Tickets PROVE BatchWellFormed(u)'
    <3>1. CASE status'[u] = "running"
      <4>1. u # t /\ u # nxt /\ status[u] = "running" /\ KeyOf[u] # k
        BY <1>2, <1>7, <2>3, <2>4, <3>1
      <4>2. ASSUME NEW x \in absorbed[u]
            PROVE  status'[x] = status[x] /\ waiters'[KeyOf[u]] = waiters[KeyOf[u]]
        BY <2>5, <2>6, <4>1 DEF IInv, TypeOK, BatchWellFormed
      <4>3. QED
        BY <1>8, <4>1, <4>2, <3>1 DEF IInv, BatchWellFormed
    <3>2. CASE status'[u] # "running"
      <4>1. u = t \/ status[u] # "running"
        BY <1>7, <2>6, <3>2
      <4>2. QED
        BY <1>8, <3>2, <4>1 DEF IInv, BatchWellFormed
    <3>3. QED
      BY <3>1, <3>2
  <2>10. OnlyHolderRuns'
    <3> SUFFICES ASSUME NEW u \in Tickets, status'[u] \in {"granted", "running"}
                 PROVE  holder'[KeyOf[u]] = u
      BY DEF OnlyHolderRuns
    <3>1. CASE u = nxt
      BY <1>1, <2>3, <2>5, <3>1
    <3>2. CASE u # nxt
      <4>1. u # t /\ status[u] \in {"granted", "running"}
        BY <1>2, <2>4, <3>2
      <4>2. QED
        BY <1>7, <2>5, <4>1 DEF IInv, OnlyHolderRuns
    <3>3. QED
      BY <3>1, <3>2
  <2>11. SlotTableExact'
    <3>1. Busy(k) /\ Busy(k)'
      BY <1>1, <1>3, <2>3, <2>5 DEF Busy
    <3>2. \A j \in Keys : j # k => (Busy(j)' <=> Busy(j))
      BY <2>5 DEF Busy
    <3>3. \A j \in Keys : Busy(j)' <=> Busy(j)
      BY <3>1, <3>2
    <3>4. QED
      BY <2>1, <3>3 DEF IInv, SlotTableExact
  <2>12. NoLostCaller'
    <3> SUFFICES ASSUME NEW u \in Tickets, status'[u] = "waiting"
                 PROVE  \/ u \in Elements(waiters'[KeyOf[u]])
                        \/ \E v \in Tickets : status'[v] = "running" /\ u \in absorbed'[v]
      BY DEF NoLostCaller
    <3>1. u # nxt /\ u # t /\ u \notin absorbed[t] /\ status[u] = "waiting"
      BY <1>2, <2>4
    <3>2. CASE u \in Elements(waiters[KeyOf[u]])
      <4>1. CASE KeyOf[u] = k
        BY <1>1, <2>2, <2>5, <3>1, <3>2, <4>1 DEF w
      <4>2. CASE KeyOf[u] # k
        BY <2>5, <3>2, <4>2
      <4>3. QED
        BY <4>1, <4>2
    <3>3. ASSUME NEW v \in Tickets, status[v] = "running", u \in absorbed[v]
          PROVE  \E x \in Tickets : status'[x] = "running" /\ u \in absorbed'[x]
      <4>1. v # t /\ KeyOf[v] # k
        BY <1>7, <3>1, <3>3
      <4>2. QED
        BY <1>8, <2>6, <3>3, <4>1
    <3>4. QED
      BY <3>1, <3>2, <3>3 DEF IInv, NoLostCaller
  <2>13. PendingMatchesQueue'
    <3> SUFFICES ASSUME NEW j \in Keys
                 PROVE  pending[j] = IF policy = "merge" THEN QueueOf(j)' ELSE << >>
      BY <1>1 DEF PendingMatchesQueue
    <3>1. CASE j = k
      <4>1. QueueOf(k)' = w
        BY <1>1, <2>2, <2>3, <2>5 DEF QueueOf
      <4>2. QED
        BY <1>6, <3>1, <4>1
    <3>2. CASE j # k
      <4>1. QueueOf(j)' = QueueOf(j)
        BY <2>5, <3>2 DEF QueueOf
      <4>2. QED
        BY <4>1 DEF IInv, PendingMatchesQueue
    <3>3. QED
      BY <3>1, <3>2
  <2>14. QED
    BY <2>7, <2>8, <2>9, <2>10, <2>11, <2>12, <2>13 DEF IInv
<1>10. CASE w = << >>
  <2>1. /\ holder' = [holder EXCEPT ![k] = NoTicket]
        /\ waiters' = waiters /\ status' = st
        /\ slots' = slots \ {k}
    BY <1>1, <1>6, <1>10 DEF Release, w
  <2>2. \A j \in Keys : /\ holder'[j] = IF j = k THEN NoTicket ELSE holder[j]
                        /\ running_turn'[j] = IF j = k THEN NoTicket ELSE running_turn[j]
    BY <1>1, <2>1 DEF IInv, TypeOK
  <2>3. \A u \in Tickets : KeyOf[u] # k => status'[u] = status[u]
    BY <1>2, <1>4, <2>1
  <2>4. ASSUME NEW j \in Keys PROVE QueueWellFormed(j)'
    <3>1. CASE j = k
      BY <1>10, <2>1, <3>1 DEF QueueWellFormed, w
    <3>2. CASE j # k
      <4>1. \A i \in DOMAIN waiters[j] : waiters[j][i] \in Tickets /\ KeyOf[waiters[j][i]] # k
        BY <3>2, QueuedAreTickets DEF IInv, QueueWellFormed
      <4>2. QED
        BY <2>1, <2>2, <2>3, <3>2, <4>1 DEF IInv, QueueWellFormed
    <3>3. QED
      BY <3>1, <3>2
  <2>5. ASSUME NEW j \in Keys PROVE HolderWellFormed(j)'
    <3>1. CASE j = k
      BY <1>10, <2>1, <2>2, <3>1 DEF HolderWellFormed, w
    <3>2. CASE j # k
      <4>1. holder[j] # NoTicket => status'[holder[j]] = status[holder[j]]
        BY <2>3, <3>2 DEF IInv, TypeOK, HolderWellFormed
      <4>2. QED
        BY <2>1, <2>2, <3>2, <4>1 DEF IInv, HolderWellFormed
    <3>3. QED
      BY <3>1, <3>2
  <2>6. ASSUME NEW u \in Tickets PROVE BatchWellFormed(u)'
    <3>1. CASE status'[u] = "running"
      <4>1. u # t /\ status[u] = "running" /\ KeyOf[u] # k
        BY <1>2, <1>7, <2>1, <3>1
      <4>2. ASSUME NEW x \in absorbed[u] PROVE status'[x] = status[x]
        BY <2>3, <4>1 DEF IInv, TypeOK, BatchWellFormed
      <4>3. QED
        BY <1>8, <2>1, <4>1, <4>2, <3>1 DEF IInv, BatchWellFormed
    <3>2. CASE status'[u] # "running"
      <4>1. u = t \/ status[u] # "running"
        BY <1>7, <2>3, <3>2
      <4>2. QED
        BY <1>8, <3>2, <4>1 DEF IInv, BatchWellFormed
    <3>3. QED
      BY <3>1, <3>2
  <2>7. OnlyHolderRuns'
    <3> SUFFICES ASSUME NEW u \in Tickets, status'[u] \in {"granted", "running"}
                 PROVE  holder'[KeyOf[u]] = u
      BY DEF OnlyHolderRuns
    <3>1. u # t /\ status[u] \in {"granted", "running"}
      BY <1>2, <2>1
    <3>2. QED
      BY <1>7, <2>2, <3>1 DEF IInv, OnlyHolderRuns
  <2>8. SlotTableExact'
    <3>1. ~Busy(k)'
      BY <1>1, <1>10, <2>1, <2>2 DEF Busy, w
    <3>2. \A j \in Keys : j # k => (Busy(j)' <=> Busy(j))
      BY <2>1, <2>2 DEF Busy
    <3>3. QED
      BY <1>1, <2>1, <3>1, <3>2 DEF IInv, SlotTableExact
  <2>9. NoLostCaller'
    <3> SUFFICES ASSUME NEW u \in Tickets, status'[u] = "waiting"
                 PROVE  \/ u \in Elements(waiters[KeyOf[u]])
                        \/ \E v \in Tickets : status'[v] = "running" /\ u \in absorbed'[v]
      BY <2>1 DEF NoLostCaller
    <3>1. u # t /\ u \notin absorbed[t] /\ status[u] = "waiting"
      BY <1>2, <2>1
    <3>2. ASSUME NEW v \in Tickets, status[v] = "running", u \in absorbed[v]
          PROVE  \E x \in Tickets : status'[x] = "running" /\ u \in absorbed'[x]
      <4>1. v # t /\ KeyOf[v] # k
        BY <1>7, <3>1, <3>2
      <4>2. QED
        BY <1>8, <2>3, <3>2, <4>1
    <3>3. QED
      BY <3>1, <3>2 DEF IInv, NoLostCaller
  <2>10. PendingMatchesQueue'
    <3> SUFFICES ASSUME NEW j \in Keys
                 PROVE  pending[j] = IF policy = "merge" THEN QueueOf(j)' ELSE << >>
      BY <1>1 DEF PendingMatchesQueue
    <3>1. CASE j = k
      <4>1. QueueOf(k)' = w
        BY <1>1, <2>1, <2>2 DEF QueueOf, w
      <4>2. QED
        BY <1>6, <3>1, <4>1
    <3>2. CASE j # k
      <4>1. QueueOf(j)' = QueueOf(j)
        BY <2>1, <2>2, <3>2 DEF QueueOf
      <4>2. QED
        BY <4>1 DEF IInv, PendingMatchesQueue
    <3>3. QED
      BY <3>1, <3>2
  <2>11. QED
    BY <2>4, <2>5, <2>6, <2>7, <2>8, <2>9, <2>10 DEF IInv
<1>11. QED
  BY <1>9, <1>10

LEMMA IInvStep == IInv /\ [Next]_vars => IInv'
<1> SUFFICES ASSUME IInv, [Next]_vars PROVE IInv'
  OBVIOUS
<1>1. TypeOK'
  BY TypeStep DEF IInv
<1>2. CASE UNCHANGED vars
  BY <1>1, <1>2 DEF vars, slotVars, IInv, QueueWellFormed, HolderWellFormed, BatchWellFormed,
     OnlyHolderRuns, PendingMatchesQueue, QueueOf, SlotTableExact, Busy, NoLostCaller, Elements
<1>3. CASE Next
  BY <1>1, <1>3, RejectStep, SubmitIdleStep, SubmitBusyStep, ResumeStep, FinishStep, CancelStep
  DEF Next
<1>4. QED
  BY <1>2, <1>3

THEOREM InductiveInvariant == Spec => []IInv
  BY IInvInit, IInvStep, PTL DEF Spec
-----------------------------------------------------------------------------
(* What follows from the invariant. *)

(* Two turns of one session never overlap (session_lock.py:304-311).       *)
THEOREM OneRunPerSession == Spec => []OnlyHolderRuns
<1>1. IInv => OnlyHolderRuns
  BY DEF IInv
<1>2. QED
  BY <1>1, InductiveInvariant, PTL

(* A blocked caller stays reachable by whoever has to answer it            *)
(* (session_lock.py:259-294).                                              *)
THEOREM CallersReachable == Spec => []NoLostCaller
<1>1. IInv => NoLostCaller
  BY DEF IInv
<1>2. QED
  BY <1>1, InductiveInvariant, PTL

(* A merged batch is exactly the queue, in arrival order                   *)
(* (session_lock.py:211-213 and 269-273).                                  *)
THEOREM MergeTakesTheQueue == Spec => []PendingMatchesQueue
<1>1. IInv => PendingMatchesQueue
  BY DEF IInv
<1>2. QED
  BY <1>1, InductiveInvariant, PTL

(* No idle session stays in the slot table (session_lock.py:313-316).      *)
THEOREM NoSlotLeak == Spec => []SlotTableExact
<1>1. IInv => SlotTableExact
  BY DEF IInv
<1>2. QED
  BY <1>1, InductiveInvariant, PTL

LEMMA QueueBoundStep ==
  ASSUME TypeOK, QueueBounded, [Next]_vars
  PROVE  QueueBounded'
<1> USE ConstantsAssumption
<1> SUFFICES ASSUME policy' = "queue", NEW k \in Keys
             PROVE  Len(waiters'[k]) <= QueueMaxSize
  BY DEF QueueBounded
<1>1. policy = "queue" /\ Len(waiters[k]) <= QueueMaxSize
      /\ waiters[k] \in Seq(Tickets) /\ Len(waiters[k]) \in Nat
  <2>1. policy' = policy
    BY DEF Next, vars, Reject, SubmitIdle, SubmitBusy, Resume, Finish, Cancel
  <2>2. waiters[k] \in Seq(Tickets) /\ Len(waiters[k]) \in Nat
    BY DEF TypeOK
  <2>3. QED
    BY <2>1, <2>2 DEF QueueBounded
<1>2. ASSUME NEW t \in Tickets, Reject(t) \/ SubmitIdle(t) \/ Resume(t) \/ Cancel(t)
      PROVE  waiters' = waiters
  BY <1>1, <1>2 DEF Reject, SubmitIdle, Resume, TakeBatch, Cancel, slotVars
<1>3. ASSUME NEW t \in Tickets, SubmitBusy(t)
      PROVE  Len(waiters'[k]) <= QueueMaxSize
  <2>1. CASE k = KeyOf[t]
    <3>1. waiters'[k] = Append(waiters[k], t) /\ Len(waiters[k]) < QueueMaxSize
      BY <1>1, <1>3, <2>1 DEF SubmitBusy, RejectionFor, TypeOK
    <3>2. Len(Append(waiters[k], t)) = Len(waiters[k]) + 1
      BY <1>1
    <3>3. QED
      BY <1>1, <3>1, <3>2
  <2>2. CASE k # KeyOf[t]
    BY <1>1, <1>3, <2>2 DEF SubmitBusy, TypeOK
  <2>3. QED
    BY <2>1, <2>2
<1>4. ASSUME NEW t \in Tickets, NEW ok \in BOOLEAN, Finish(t, ok)
      PROVE  Len(waiters'[k]) <= QueueMaxSize
  <2>1. waiters' = waiters \/ (waiters[KeyOf[t]] # << >> /\ waiters' = [waiters EXCEPT ![KeyOf[t]] = Tail(@)])
    BY <1>4 DEF Finish, Release, HandOver
  <2>2. CASE waiters' = [waiters EXCEPT ![KeyOf[t]] = Tail(@)] /\ k = KeyOf[t] /\ waiters[k] # << >>
    <3>1. waiters'[k] = Tail(waiters[k])
      BY <2>2 DEF TypeOK
    <3>2. Len(Tail(waiters[k])) = Len(waiters[k]) - 1
      BY <1>1, <2>2
    <3>3. QED
      BY <1>1, <3>1, <3>2
  <2>3. CASE waiters' = waiters
    BY <1>1, <2>3
  <2>4. CASE waiters' = [waiters EXCEPT ![KeyOf[t]] = Tail(@)] /\ k # KeyOf[t]
    BY <1>1, <2>4 DEF TypeOK
  <2>5. QED
    BY <2>1, <2>2, <2>3, <2>4
<1>5. CASE UNCHANGED vars
  BY <1>1, <1>5 DEF vars, slotVars
<1>6. QED
  BY <1>1, <1>2, <1>3, <1>4, <1>5 DEF Next

(* The waiters of a "queue" session never exceed queue_max_size            *)
(* (session_lock.py:251-256).                                              *)
THEOREM QueueNeverOverflows == Spec => []QueueBounded
<1>1. Init => QueueBounded
  <2>1. Len(<< >>) = 0 /\ 0 <= QueueMaxSize
    BY ConstantsAssumption
  <2>2. Init => \A k \in Keys : waiters[k] = << >>
    BY DEF Init
  <2>3. QED
    BY <2>1, <2>2 DEF QueueBounded
<1>2. TypeOK /\ QueueBounded /\ [Next]_vars => QueueBounded'
  BY QueueBoundStep
<1>3. QED
  BY <1>1, <1>2, TypeCorrect, PTL DEF Spec

(* What the slot table, the pending messages and the queue say of a session *)
(* agrees (session_lock.py:128-133, 241-273, 313-316).                      *)
THEOREM SlotsStayConsistent == Spec => []SlotsConsistent
<1>1. PendingMatchesQueue /\ SlotTableExact /\ QueueBounded => SlotsConsistent
  BY DEF SlotsConsistent
<1>2. QED
  BY <1>1, MergeTakesTheQueue, NoSlotLeak, QueueNeverOverflows, PTL

(* A failed batch is never reported as done to a caller it absorbed        *)
(* (session_lock.py:228-236, 275-294).                                     *)
LEMMA MergedStep ==
  ASSUME IInv, [Next]_vars, NEW t \in Tickets, status'[t] = "merged", status[t] # "merged"
  PROVE  \E u \in Tickets : /\ status[u] = "running" /\ status'[u] = "executed"
                           /\ t \in Elements(batch[u])
<1> USE ConstantsAssumption
<1>1. PICK u \in Tickets, ok \in BOOLEAN : Finish(u, ok)
  <2>1. ASSUME NEW u \in Tickets,
               Reject(u) \/ SubmitIdle(u) \/ SubmitBusy(u) \/ Resume(u) \/ Cancel(u)
        PROVE  FALSE
    BY <2>1 DEF Reject, SubmitIdle, SubmitBusy, Resume, Cancel, IInv, TypeOK
  <2>2. ~UNCHANGED vars
    BY DEF vars
  <2>3. QED
    BY <2>1, <2>2 DEF Next
<1> DEFINE st == Told(u, ok)
<1>2. status[u] = "running" /\ Release(KeyOf[u], st)
  BY <1>1 DEF Finish, Told
<1>3. /\ st[u] \in {"executed", "raised"} /\ st \in [Tickets -> Statuses]
      /\ \A v \in Tickets : v # u /\ v \notin absorbed[u] => st[v] = status[v]
  BY <1>2, ToldFacts
<1>4. st[u] = "executed" \/ ~ok
  BY <1>2 DEF Told, Settled, IInv, TypeOK, BatchWellFormed
<1>5. ~ok => \A v \in Tickets : st[v] = "merged" => status[v] = "merged"
  BY DEF Told, Settled, IInv, TypeOK
<1> HIDE DEF st
<1>6. \A v \in Tickets : status'[v] = st[v] \/ (st[v] = "waiting" /\ status'[v] = "granted")
  BY <1>2, <1>3 DEF Release, HandOver
<1>7. st[t] = "merged"
  BY <1>6
<1>8. ok /\ st[u] = "executed" /\ status'[u] = "executed"
  BY <1>4, <1>5, <1>6, <1>7
<1>9. t \in absorbed[u]
  BY <1>3, <1>7, <1>8
<1>10. QED
  BY <1>2, <1>8, <1>9 DEF IInv, BatchWellFormed

THEOREM MergedIsHonest == Spec => MergedMeansExecuted
<1>1. IInv /\ [Next]_vars =>
        [\A t \in Tickets :
           status'[t] = "merged" /\ status[t] # "merged" =>
             \E u \in Tickets :
               /\ status[u] = "running" /\ status'[u] = "executed"
               /\ t \in Elements(batch[u])]_vars
  BY MergedStep
<1>2. QED
  BY <1>1, InductiveInvariant, PTL DEF Spec, MergedMeansExecuted
-----------------------------------------------------------------------------
(* The slot mechanism implements SerialQueue: every step maps to a step of *)
(* the abstract queue or to a stutter.                                     *)

LEMMA MembersIsElements == ASSUME NEW s PROVE Serial!Members(s) = Elements(s)
  BY DEF Serial!Members, Elements

LEMMA RefineInit == Init => Serial!Init
  BY ConstantsAssumption
  DEF Init, Serial!Init, Backlog, Active, ActiveOf, Open, QueueOf, Blocked

LEMMA RunningTurnOwned ==
  ASSUME IInv, NEW j \in Keys, running_turn[j] # NoTicket
  PROVE  running_turn[j] \in Tickets /\ KeyOf[running_turn[j]] = j
  BY DEF IInv, TypeOK, HolderWellFormed

(* An unreferenced, finished submission is unknown to the abstract queue.  *)
LEMMA UnknownWhenUnreferenced ==
  ASSUME IInv, NEW t \in Tickets, status[t] \in Final, Unreferenced(t)
  PROVE  Serial!Unknown(t)
<1> USE ConstantsAssumption
<1> DEFINE k == KeyOf[t]
<1>1. k \in Keys /\ t \notin Open
  BY DEF Open, Blocked, Final
<1>2. t \notin Elements(QueueOf(k))
  <2>1. waiters[k] \in Seq(Tickets) /\ holder[k] \in Tickets \cup {NoTicket}
    BY <1>1 DEF IInv, TypeOK
  <2>2. holder[k] \in Tickets => Elements(<<holder[k]>> \o waiters[k]) = {holder[k]} \cup Elements(waiters[k])
    BY <2>1, ConsFacts
  <2>3. QED
    BY <2>1, <2>2 DEF QueueOf, Unreferenced
<1>3. t \notin Elements(Active[k])
  BY <1>1 DEF Active, ActiveOf, Unreferenced, IInv, TypeOK, Elements
<1>4. QED
  BY <1>1, <1>2, <1>3, MembersIsElements DEF Serial!Unknown, Backlog

LEMMA RefineSubmitIdle ==
  ASSUME IInv, TypeOK', NEW t \in Tickets, SubmitIdle(t)
  PROVE  Serial!ArriveAndBegin(t)
<1> USE ConstantsAssumption
<1> DEFINE k == KeyOf[t]
<1>1. /\ k \in Keys
      /\ status[t] \in Final /\ Unreferenced(t)
      /\ holder[k] = NoTicket /\ waiters[k] = << >>
      /\ holder' = [holder EXCEPT ![k] = t]
      /\ running_turn' = [running_turn EXCEPT ![k] = t]
      /\ status' = [status EXCEPT ![t] = "running"]
      /\ waiters' = waiters
  BY DEF SubmitIdle
<1>2. QueueOf(k) = << >> /\ pending[k] = << >> /\ running_turn[k] = NoTicket
  BY <1>1 DEF IInv, PendingMatchesQueue, QueueOf, HolderWellFormed
<1>3. batch' = [batch EXCEPT ![t] = <<t>>]
  BY <1>2 DEF SubmitIdle
<1>4. Backlog' = Backlog
  <2>1. ASSUME NEW j \in Keys PROVE QueueOf(j)' = QueueOf(j)
    BY <1>1, <1>2 DEF QueueOf, IInv, TypeOK
  <2>2. QED
    BY <2>1 DEF Backlog
<1>5. Active' = [Active EXCEPT ![k] = <<t>>]
  <2>1. ASSUME NEW j \in Keys, j # k PROVE ActiveOf(j)' = ActiveOf(j)
    <3>1. running_turn'[j] = running_turn[j]
      BY <1>1, <2>1 DEF IInv, TypeOK
    <3>2. running_turn[j] # NoTicket => running_turn[j] \in Tickets /\ running_turn[j] # t
      BY <2>1, RunningTurnOwned
    <3>3. QED
      BY <1>3, <3>1, <3>2 DEF ActiveOf, IInv, TypeOK
  <2>2. ActiveOf(k)' = <<t>>
    BY <1>1, <1>3 DEF ActiveOf, IInv, TypeOK
  <2>3. QED
    BY <2>1, <2>2 DEF Active
<1>6. Open' = Open \cup {t}
  BY <1>1 DEF Open, IInv, TypeOK
<1>7. Backlog[k] = << >> /\ Active[k] = << >>
  BY <1>1, <1>2 DEF Backlog, Active, ActiveOf
<1>8. QED
  BY <1>1, <1>4, <1>5, <1>6, <1>7, UnknownWhenUnreferenced DEF Serial!ArriveAndBegin

LEMMA RefineSubmitBusy ==
  ASSUME IInv, TypeOK', NEW t \in Tickets, SubmitBusy(t)
  PROVE  Serial!Arrive(t)
<1> USE ConstantsAssumption
<1> DEFINE k == KeyOf[t]
<1>1. /\ k \in Keys
      /\ status[t] \in Final /\ Unreferenced(t) /\ Busy(k)
      /\ waiters' = [waiters EXCEPT ![k] = Append(waiters[k], t)]
      /\ status' = [status EXCEPT ![t] = "waiting"]
      /\ UNCHANGED <<holder, running_turn, batch>>
  BY DEF SubmitBusy
<1>2. holder[k] \in Tickets /\ waiters[k] \in Seq(Tickets)
  BY <1>1 DEF IInv, TypeOK, HolderWellFormed, Busy
<1>3. ASSUME NEW j \in Keys
      PROVE  QueueOf(j)' = IF j = k THEN Append(QueueOf(j), t) ELSE QueueOf(j)
  <2>1. CASE j = k
    <3>1. waiters'[j] = Append(waiters[k], t)
      BY <1>1, <2>1 DEF IInv, TypeOK
    <3>2. Append(<<holder[k]>> \o waiters[k], t) = <<holder[k]>> \o Append(waiters[k], t)
      BY <1>2, ConsFacts
    <3>3. QED
      BY <1>1, <2>1, <3>1, <3>2 DEF QueueOf
  <2>2. CASE j # k
    BY <1>1, <2>2 DEF QueueOf, IInv, TypeOK
  <2>3. QED
    BY <2>1, <2>2
<1>4. Backlog' = [Backlog EXCEPT ![k] = Append(@, t)]
  BY <1>3 DEF Backlog
<1>5. Active' = Active
  BY <1>1 DEF Active, ActiveOf
<1>6. Open' = Open \cup {t}
  BY <1>1 DEF Open, Blocked, IInv, TypeOK
<1>7. QED
  BY <1>1, <1>4, <1>5, <1>6, UnknownWhenUnreferenced DEF Serial!Arrive

LEMMA RefineResume ==
  ASSUME IInv, TypeOK', NEW t \in Tickets, Resume(t)
  PROVE  Serial!BeginAll(KeyOf[t]) \/ Serial!BeginOldest(KeyOf[t])
<1> USE ConstantsAssumption
<1> DEFINE k == KeyOf[t]
           w == waiters[k]
           p == pending[k]
<1>1. /\ k \in Keys
      /\ status[t] = "granted"
      /\ status' = [status EXCEPT ![t] = "running"]
      /\ running_turn' = [running_turn EXCEPT ![k] = t]
      /\ TakeBatch(t)
      /\ UNCHANGED <<policy, slots, holder>>
  BY DEF Resume
<1>2. holder[k] = t /\ running_turn[k] = NoTicket /\ batch[t] = << >>
  BY <1>1 DEF IInv, OnlyHolderRuns, HolderWellFormed, BatchWellFormed
<1>3. w \in Seq(Tickets) /\ p \in Seq(Tickets)
  BY <1>1 DEF IInv, TypeOK
<1>4. QueueOf(k) = <<t>> \o w /\ QueueOf(k) # << >>
      /\ Head(QueueOf(k)) = t /\ Tail(QueueOf(k)) = w
  <2>1. QueueOf(k) = <<t>> \o w
    BY <1>2 DEF QueueOf
  <2>2. QED
    BY <1>3, <2>1, ConsFacts
<1>5. Open' = Open
  BY <1>1 DEF Open, Blocked, IInv, TypeOK
<1>6. Active[k] = << >> /\ Backlog[k] = QueueOf(k)
  BY <1>1, <1>2 DEF Active, ActiveOf, Backlog
<1>7. ASSUME NEW j \in Keys, j # k
      PROVE  /\ running_turn'[j] = running_turn[j] /\ running_turn[j] # t
             /\ running_turn[j] # NoTicket => running_turn[j] \in Tickets
  <2>1. running_turn'[j] = running_turn[j]
    BY <1>1, <1>7 DEF IInv, TypeOK
  <2>2. QED
    BY <1>7, <2>1, RunningTurnOwned
<1>8. running_turn'[k] = t
  BY <1>1 DEF IInv, TypeOK
<1> HIDE DEF w, p
<1>9. ASSUME NEW b \in Seq(Tickets), batch' = [batch EXCEPT ![t] = b]
      PROVE  Active' = [Active EXCEPT ![k] = b]
  <2>1. batch'[t] = b /\ \A u \in Tickets : u # t => batch'[u] = batch[u]
    BY <1>9 DEF IInv, TypeOK
  <2>2. ASSUME NEW j \in Keys PROVE ActiveOf(j)' = IF j = k THEN b ELSE ActiveOf(j)
    <3>1. CASE j = k
      BY <1>8, <2>1, <3>1 DEF ActiveOf
    <3>2. CASE j # k
      BY <1>7, <2>1, <3>2 DEF ActiveOf
    <3>3. QED
      BY <3>1, <3>2
  <2>3. QED
    BY <2>2 DEF Active
<1>10. CASE policy = "merge"
  <2>1. /\ batch' = [batch EXCEPT ![t] = p]
        /\ waiters' = [waiters EXCEPT ![k] = << >>]
    BY <1>1, <1>10 DEF TakeBatch, p
  <2>2. p = QueueOf(k)
    BY <1>1, <1>10 DEF IInv, PendingMatchesQueue, p
  <2>3. Backlog' = [Backlog EXCEPT ![k] = << >>]
    <3>1. ASSUME NEW j \in Keys PROVE QueueOf(j)' = IF j = k THEN << >> ELSE QueueOf(j)
      <4>1. CASE j = k
        BY <1>1, <1>2, <1>8, <2>1, <4>1 DEF QueueOf, IInv, TypeOK
      <4>2. CASE j # k
        BY <1>1, <1>7, <2>1, <4>2 DEF QueueOf, IInv, TypeOK
      <4>3. QED
        BY <4>1, <4>2
    <3>2. QED
      BY <3>1 DEF Backlog
  <2>4. Active' = [Active EXCEPT ![k] = Backlog[k]]
    BY <1>3, <1>6, <1>9, <2>1, <2>2
  <2>5. QED
    BY <1>4, <1>5, <1>6, <2>3, <2>4 DEF Serial!BeginAll
<1>11. CASE policy # "merge"
  <2>1. batch' = [batch EXCEPT ![t] = <<t>>] /\ waiters' = waiters
    BY <1>1, <1>11 DEF TakeBatch
  <2>2. Backlog' = [Backlog EXCEPT ![k] = Tail(@)]
    <3>1. ASSUME NEW j \in Keys PROVE QueueOf(j)' = IF j = k THEN w ELSE QueueOf(j)
      <4>1. CASE j = k
        BY <1>1, <1>2, <1>8, <2>1, <4>1 DEF QueueOf, w
      <4>2. CASE j # k
        BY <1>1, <1>7, <2>1, <4>2 DEF QueueOf
      <4>3. QED
        BY <4>1, <4>2
    <3>2. QED
      BY <1>4, <1>6, <3>1 DEF Backlog
  <2>3. Active' = [Active EXCEPT ![k] = <<t>>]
    <3> DEFINE b == <<t>>
    <3>1. b \in Seq(Tickets) /\ batch' = [batch EXCEPT ![t] = b]
      BY <2>1
    <3> HIDE DEF b
    <3>2. Active' = [Active EXCEPT ![k] = b]
      BY <1>9, <3>1
    <3>3. QED
      BY <3>2 DEF b
  <2>4. QED
    BY <1>4, <1>5, <1>6, <2>2, <2>3 DEF Serial!BeginOldest
<1>12. QED
  BY <1>10, <1>11

LEMMA RefineFinish ==
  ASSUME IInv, IInv', NEW t \in Tickets, NEW ok \in BOOLEAN, Finish(t, ok)
  PROVE  Serial!End(KeyOf[t])
<1> USE ConstantsAssumption
<1> DEFINE k == KeyOf[t]
           w == waiters[k]
           st == Told(t, ok)
<1>1. /\ k \in Keys
      /\ status[t] = "running"
      /\ running_turn' = [running_turn EXCEPT ![k] = NoTicket]
      /\ Release(k, st)
      /\ batch' = [batch EXCEPT ![t] = << >>]
  BY DEF Finish, Told
<1>2. holder[k] = t /\ running_turn[k] = t
  BY <1>1 DEF IInv, OnlyHolderRuns, HolderWellFormed
<1>3. /\ st \in [Tickets -> Statuses]
      /\ st[t] \in {"executed", "raised"}
      /\ \A u \in Tickets : u # t /\ u \notin absorbed[t] => st[u] = status[u]
      /\ \A u \in absorbed[t] : st[u] \in {"merged", "raised", "cancelled"}
  BY <1>1, ToldFacts
<1> HIDE DEF st
<1>4. \A u \in Tickets : status'[u] = st[u] \/ (st[u] = "waiting" /\ status'[u] = "granted")
  BY <1>1, <1>3 DEF Release, HandOver
<1>5. Active[k] = batch[t] /\ Elements(batch[t]) = {t} \cup absorbed[t]
  BY <1>1, <1>2 DEF Active, ActiveOf, IInv, BatchWellFormed
<1>6. Active[k] # << >>
  BY <1>5 DEF Elements
<1>7. Open' = Open \ Elements(Active[k])
  BY <1>3, <1>4, <1>5 DEF Open, Blocked
<1>8. \A j \in Keys : running_turn'[j] = IF j = k THEN NoTicket ELSE running_turn[j]
  BY <1>1 DEF IInv, TypeOK
<1>9. Active' = [Active EXCEPT ![k] = << >>]
  <2>1. \A u \in Tickets : u # t => batch'[u] = batch[u]
    BY <1>1 DEF IInv, TypeOK
  <2>2. ASSUME NEW j \in Keys PROVE ActiveOf(j)' = IF j = k THEN << >> ELSE ActiveOf(j)
    <3>1. CASE j = k
      BY <1>8, <3>1 DEF ActiveOf
    <3>2. CASE j # k
      BY <1>8, <2>1, <3>2, RunningTurnOwned DEF ActiveOf
    <3>3. QED
      BY <3>1, <3>2
  <2>3. QED
    BY <2>2 DEF Active
<1>10. Backlog' = Backlog
  <2>1. QueueOf(k) = w
    BY <1>2 DEF QueueOf
  <2>2. CASE w # << >>
    <3>1. holder' = [holder EXCEPT ![k] = Head(w)] /\ waiters' = [waiters EXCEPT ![k] = Tail(w)]
      BY <1>1, <2>2 DEF Release, HandOver
    <3>2. Head(w) \in Tickets /\ <<Head(w)>> \o Tail(w) = w
      BY <1>1, <2>2, QueuedAreTickets, HeadTailFacts DEF IInv
    <3>3. QueueOf(k)' = w
      BY <1>1, <1>8, <3>1, <3>2 DEF QueueOf, IInv, TypeOK
    <3>4. \A j \in Keys : j # k => QueueOf(j)' = QueueOf(j)
      BY <1>8, <3>1 DEF QueueOf, IInv, TypeOK
    <3>5. QED
      BY <2>1, <3>3, <3>4 DEF Backlog
  <2>3. CASE w = << >>
    <3>1. holder' = [holder EXCEPT ![k] = NoTicket] /\ waiters' = waiters
      BY <1>1, <2>3 DEF Release
    <3>2. \A j \in Keys : QueueOf(j)' = QueueOf(j)
      BY <1>8, <2>1, <3>1 DEF QueueOf, IInv, TypeOK
    <3>3. QED
      BY <3>2 DEF Backlog
  <2>4. QED
    BY <2>2, <2>3
<1>11. QED
  BY <1>6, <1>7, <1>9, <1>10, MembersIsElements DEF Serial!End

LEMMA RefineStutter ==
  ASSUME IInv, NEW t \in Tickets, Reject(t)
  PROVE  UNCHANGED <<Backlog, Active, Open>>
<1>1. /\ status' = [status EXCEPT ![t] = "rejected"] /\ status[t] \in Final
      /\ UNCHANGED <<waiters, holder, running_turn, batch>>
  BY DEF Reject
<1>2. \A j \in Keys : QueueOf(j)' = QueueOf(j)
  BY <1>1 DEF QueueOf
<1>3. Open' = Open
  BY <1>1 DEF Open, Blocked, Final, IInv, TypeOK
<1>4. QED
  BY <1>1, <1>2, <1>3 DEF Backlog, Active, ActiveOf

LEMMA RefineCancel ==
  ASSUME IInv, NEW t \in Tickets, Cancel(t)
  PROVE  Serial!Abandon(t)
<1>1. /\ status' = [status EXCEPT ![t] = "cancelled"] /\ status[t] \in Blocked
      /\ UNCHANGED <<waiters, holder, running_turn, batch>>
  BY DEF Cancel, slotVars
<1>2. \A j \in Keys : QueueOf(j)' = QueueOf(j)
  BY <1>1 DEF QueueOf
<1>3. t \in Open /\ Open' = Open \ {t}
  BY <1>1 DEF Open, Blocked, IInv, TypeOK
<1>4. QED
  BY <1>1, <1>2, <1>3 DEF Backlog, Active, ActiveOf, Serial!Abandon

LEMMA RefineStep ==
  ASSUME IInv, IInv', [Next]_vars
  PROVE  [Serial!Next]_(Serial!vars)
<1> USE ConstantsAssumption
<1>1. TypeOK'
  BY DEF IInv
<1>2. ASSUME NEW t \in Tickets, Reject(t) PROVE UNCHANGED Serial!vars
  BY <1>2, RefineStutter DEF Serial!vars
<1>3. ASSUME NEW t \in Tickets, SubmitIdle(t) PROVE Serial!Next
  BY <1>1, <1>3, RefineSubmitIdle DEF Serial!Next
<1>4. ASSUME NEW t \in Tickets, SubmitBusy(t) PROVE Serial!Next
  BY <1>1, <1>4, RefineSubmitBusy DEF Serial!Next
<1>5. ASSUME NEW t \in Tickets, Resume(t) PROVE Serial!Next
  <2>1. KeyOf[t] \in Keys
    OBVIOUS
  <2>2. QED
    BY <1>1, <1>5, <2>1, RefineResume DEF Serial!Next
<1>6. ASSUME NEW t \in Tickets, NEW ok \in BOOLEAN, Finish(t, ok) PROVE Serial!Next
  <2>1. KeyOf[t] \in Keys
    OBVIOUS
  <2>2. QED
    BY <1>6, <2>1, RefineFinish DEF Serial!Next
<1>7. ASSUME NEW t \in Tickets, Cancel(t) PROVE Serial!Next
  BY <1>7, RefineCancel DEF Serial!Next
<1>8. CASE UNCHANGED vars
  BY <1>8 DEF vars, slotVars, Serial!vars, Backlog, Active, ActiveOf, Open, QueueOf
<1>9. QED
  BY <1>2, <1>3, <1>4, <1>5, <1>6, <1>7, <1>8 DEF Next

(* Messages of a session run in arrival order, one batch at a time, and    *)
(* every caller of a batch is answered by the step that ends it            *)
(* (session_lock.py:184-237).                                              *)
THEOREM Refinement == Spec => ImplementsSerialQueue
<1>1. IInv /\ IInv' /\ [Next]_vars => [Serial!Next]_(Serial!vars)
  BY RefineStep
<1>2. QED
  BY <1>1, RefineInit, InductiveInvariant, PTL DEF Spec, Serial!Spec, ImplementsSerialQueue
=============================================================================
