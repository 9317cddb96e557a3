-------------------------- MODULE SessionScheduler --------------------------
(***************************************************************************)
(* kernel/routing/session_lock.py: one slot per session serialises the     *)
(* turns of that session on one event loop.                                *)
(*                                                                         *)
(* An action is the code a task runs between two awaits.  submit() awaits  *)
(* twice: on its ticket's future (status "waiting", or "granted" once the  *)
(* future is resolved with None and the task has not resumed) and on run() *)
(* (status "running").  A ticket stands for the message it carries and for *)
(* the task that submitted it; when nothing refers to a finished ticket,   *)
(* its caller may submit again, as a channel's next message does.          *)
(***************************************************************************)
EXTENDS Sequences, Naturals

CONSTANTS
  Keys,          (* session keys                                           *)
  Tickets,       (* submissions                                            *)
  KeyOf,         (* the session each submission goes to                    *)
  QueueMaxSize,  (* queue_max_size: bound of the waiters under "queue"     *)
  Cancellable,   (* tickets whose task may be cancelled before it runs     *)
  NoTicket       (* None                                                   *)

ASSUME ConstantsAssumption ==
  /\ KeyOf \in [Tickets -> Keys]
  /\ QueueMaxSize \in Nat \ {0}
  /\ Cancellable \subseteq Tickets
  /\ NoTicket \notin Tickets

VARIABLES
  policy,        (* the scheduler's ConcurrencyPolicy, fixed when built    *)
  slots,         (* keys of the slot table: sessions that have a slot      *)
  waiters,       (* per slot: queued tickets, oldest first                 *)
  pending,       (* per slot: messages of the next merged batch            *)
  holder,        (* per slot: the ticket that owns the slot                *)
  running_turn,  (* per slot: the turn inside run()                        *)
  status,        (* per ticket: where its submit() call stands             *)
  batch,         (* per ticket: the batch it handed to run()               *)
  absorbed       (* per ticket: tickets whose messages joined that batch   *)

slotVars == <<slots, waiters, pending, holder, running_turn>>
vars == <<policy, slotVars, status, batch, absorbed>>

Policies == {"queue", "merge", "reject"}
Blocked  == {"waiting", "granted"}
Final    == {"new", "executed", "merged", "rejected", "raised", "cancelled"}
Statuses == Blocked \cup Final \cup {"running"}

Elements(s) == {s[i] : i \in DOMAIN s}

Busy(k) == holder[k] # NoTicket \/ waiters[k] # << >>

(* No queue, batch or slot refers to the ticket. *)
Unreferenced(t) ==
  LET k == KeyOf[t] IN
  /\ t \notin Elements(waiters[k])
  /\ t \notin Elements(pending[k])
  /\ holder[k] # t
  /\ \A u \in Tickets : t \notin Elements(batch[u])
-----------------------------------------------------------------------------
Init ==
  /\ policy \in Policies
  /\ slots = {}
  /\ waiters = [k \in Keys |-> << >>]
  /\ pending = [k \in Keys |-> << >>]
  /\ holder = [k \in Keys |-> NoTicket]
  /\ running_turn = [k \in Keys |-> NoTicket]
  /\ status = [t \in Tickets |-> "new"]
  /\ batch = [t \in Tickets |-> << >>]
  /\ absorbed = [t \in Tickets |-> {}]

(* _rejection_for: "merge" is not bounded by the queue size. *)
RejectionFor(k) ==
  \/ policy = "reject" /\ Busy(k)
  \/ policy = "queue" /\ Len(waiters[k]) >= QueueMaxSize

(* Mutant: the refusal has an outcome of its own, unknown to SubmitStatus. *)
RejectSilently(t) ==
  /\ status[t] \in Final /\ Unreferenced(t) /\ RejectionFor(KeyOf[t])
  /\ status' = [status EXCEPT ![t] = "dropped"]
  /\ UNCHANGED <<policy, slotVars, batch, absorbed>>

(* submit() up to its first await when the policy refuses the message; the *)
(* slot is busy then, so _discard_if_idle leaves it alone.                 *)
Reject(t) ==
  /\ status[t] \in Final
  /\ Unreferenced(t)
  /\ RejectionFor(KeyOf[t])
  /\ status' = [status EXCEPT ![t] = "rejected"]
  /\ slots' = IF Busy(KeyOf[t]) \/ pending[KeyOf[t]] # << >>
              THEN slots \cup {KeyOf[t]}
              ELSE slots \ {KeyOf[t]}
  /\ UNCHANGED <<policy, waiters, pending, holder, running_turn, batch, absorbed>>

(* submit() up to the await of run() when the slot is free: the ticket     *)
(* passes through waiters and pending and leaves both before run() starts. *)
SubmitIdle(t) ==
  LET k == KeyOf[t]
      merge == policy = "merge" IN
  /\ status[t] \in Final
  /\ Unreferenced(t)
  /\ ~RejectionFor(k)
  /\ holder[k] = NoTicket
  /\ waiters[k] = << >>
  /\ slots' = slots \cup {k}
  /\ holder' = [holder EXCEPT ![k] = t]
  /\ running_turn' = [running_turn EXCEPT ![k] = t]
  /\ status' = [status EXCEPT ![t] = "running"]
  /\ batch' = [batch EXCEPT ![t] = IF merge THEN Append(pending[k], t) ELSE <<t>>]
  /\ pending' = [pending EXCEPT ![k] = << >>]
  /\ absorbed' = [absorbed EXCEPT ![t] = {}]
  /\ UNCHANGED <<policy, waiters>>

(* submit() up to the await of the ticket's future when the slot is taken. *)
SubmitBusy(t) ==
  LET k == KeyOf[t] IN
  /\ status[t] \in Final
  /\ Unreferenced(t)
  /\ ~RejectionFor(k)
  /\ Busy(k)
  /\ slots' = slots \cup {k}
  /\ waiters' = [waiters EXCEPT ![k] = Append(@, t)]
  /\ pending' = [pending EXCEPT ![k] = IF policy = "merge" THEN Append(@, t) ELSE @]
  /\ status' = [status EXCEPT ![t] = "waiting"]
  /\ UNCHANGED <<policy, holder, running_turn, batch, absorbed>>

(* Mutant: pending is read but not cleared. *)
TakeBatchKeepingPending(t) ==
  LET k == KeyOf[t] IN
  /\ batch' = [batch EXCEPT ![t] = IF policy = "merge" THEN pending[k] ELSE <<t>>]
  /\ absorbed' = [absorbed EXCEPT ![t] = IF policy = "merge" THEN Elements(waiters[k]) ELSE {}]
  /\ waiters' = [waiters EXCEPT ![k] = IF policy = "merge" THEN << >> ELSE @]
  /\ UNCHANGED pending

(* _take_batch: under "merge" the holder empties pending and waiters. *)
TakeBatch(t) ==
  LET k == KeyOf[t] IN
  IF policy = "merge"
  THEN /\ batch' = [batch EXCEPT ![t] = pending[k]]
       /\ absorbed' = [absorbed EXCEPT ![t] = Elements(waiters[k])]
       /\ pending' = [pending EXCEPT ![k] = << >>]
       /\ waiters' = [waiters EXCEPT ![k] = << >>]
  ELSE /\ batch' = [batch EXCEPT ![t] = <<t>>]
       /\ absorbed' = [absorbed EXCEPT ![t] = {}]
       /\ UNCHANGED <<pending, waiters>>

(* The task that was handed the slot resumes and enters run(). *)
Resume(t) ==
  /\ status[t] = "granted"
  /\ status' = [status EXCEPT ![t] = "running"]
  /\ running_turn' = [running_turn EXCEPT ![KeyOf[t]] = t]
  /\ TakeBatch(t)
  /\ UNCHANGED <<policy, slots, holder>>

(* Mutant: a failed batch does not reach the callers it absorbed. *)
SettledOnSuccessOnly(t, st, outcome) ==
  [u \in Tickets |-> IF u \in absorbed[t] /\ st[u] \in Blocked /\ outcome = "merged"
                     THEN outcome ELSE st[u]]

(* Mutant: absorbed callers are told "merged" whatever happened. *)
SettledAsMerged(t, st, outcome) ==
  [u \in Tickets |-> IF u \in absorbed[t] /\ st[u] \in Blocked THEN "merged" ELSE st[u]]

(* _settle_absorbed for t: its callers learn the fate of the whole batch.  *)
(* A caller whose future is done (it was cancelled) is skipped.            *)
Settled(t, st, outcome) ==
  [u \in Tickets |-> IF u \in absorbed[t] /\ st[u] \in Blocked THEN outcome ELSE st[u]]

(* Mutant: the future is resolved, the holder is set only by the resumed task. *)
HandOverWithoutHolder(k, st) ==
  LET nxt == Head(waiters[k]) IN
  /\ holder' = [holder EXCEPT ![k] = NoTicket]
  /\ waiters' = [waiters EXCEPT ![k] = Tail(@)]
  /\ status' = IF st[nxt] = "waiting" THEN [st EXCEPT ![nxt] = "granted"] ELSE st
  /\ UNCHANGED slots

(* Mutant: the youngest waiter is served first. *)
HandOverToYoungest(k, st) ==
  LET n == Len(waiters[k])
      nxt == waiters[k][n] IN
  /\ holder' = [holder EXCEPT ![k] = nxt]
  /\ waiters' = [waiters EXCEPT ![k] = SubSeq(@, 1, n - 1)]
  /\ status' = IF st[nxt] = "waiting" THEN [st EXCEPT ![nxt] = "granted"] ELSE st
  /\ UNCHANGED slots

(* Mutant: the next holder is chosen but its future is never resolved. *)
HandOverWithoutWakeUp(k, st) ==
  /\ holder' = [holder EXCEPT ![k] = Head(waiters[k])]
  /\ waiters' = [waiters EXCEPT ![k] = Tail(@)]
  /\ status' = st
  /\ UNCHANGED slots

(* _hand_over: the head of the queue owns the slot before its future is    *)
(* resolved; a future that is already done is left alone.                  *)
HandOver(k, st) ==
  LET nxt == Head(waiters[k]) IN
  /\ holder' = [holder EXCEPT ![k] = nxt]
  /\ waiters' = [waiters EXCEPT ![k] = Tail(@)]
  /\ status' = IF st[nxt] = "waiting" THEN [st EXCEPT ![nxt] = "granted"] ELSE st
  /\ UNCHANGED slots

(* _release: free the slot, then wake the next or drop an idle slot. *)
Release(k, st) ==
  \/ waiters[k] # << >> /\ HandOver(k, st)
  \/ /\ waiters[k] = << >>
     /\ holder' = [holder EXCEPT ![k] = NoTicket]
     /\ slots' = IF pending[k] = << >> THEN slots \ {k} ELSE slots
     /\ status' = st
     /\ UNCHANGED waiters

(* run() returns (ok) or raises, a cancelled run included; everything up   *)
(* to the return of submit() happens without another await.                *)
Finish(t, ok) ==
  LET k == KeyOf[t]
      own == [status EXCEPT ![t] = IF ok THEN "executed" ELSE "raised"] IN
  /\ status[t] = "running"
  /\ running_turn' = [running_turn EXCEPT ![k] = NoTicket]
  /\ Release(k, Settled(t, own, IF ok THEN "merged" ELSE "raised"))
  /\ batch' = [batch EXCEPT ![t] = << >>]
  /\ absorbed' = [absorbed EXCEPT ![t] = {}]
  /\ UNCHANGED <<policy, pending>>

(* The submitting task is cancelled at the await of its future: the        *)
(* exception leaves submit() outside its try block, so nothing is undone.  *)
Cancel(t) ==
  /\ t \in Cancellable
  /\ status[t] \in Blocked
  /\ status' = [status EXCEPT ![t] = "cancelled"]
  /\ UNCHANGED <<policy, slotVars, batch, absorbed>>

Next ==
  \E t \in Tickets :
    \/ Reject(t)
    \/ SubmitIdle(t)
    \/ SubmitBusy(t)
    \/ Resume(t)
    \/ \E ok \in BOOLEAN : Finish(t, ok)
    \/ Cancel(t)

(* The event loop runs a ready task, and a turn has a wall-time limit. *)
Fairness ==
  \A t \in Tickets : WF_vars(Resume(t)) /\ WF_vars(\E ok \in BOOLEAN : Finish(t, ok))

Spec == Init /\ [][Next]_vars
FairSpec == Spec /\ Fairness
-----------------------------------------------------------------------------
TypeOK ==
  /\ policy \in Policies
  /\ slots \subseteq Keys
  /\ waiters \in [Keys -> Seq(Tickets)]
  /\ pending \in [Keys -> Seq(Tickets)]
  /\ holder \in [Keys -> Tickets \cup {NoTicket}]
  /\ running_turn \in [Keys -> Tickets \cup {NoTicket}]
  /\ status \in [Tickets -> Statuses]
  /\ batch \in [Tickets -> Seq(Tickets)]
  /\ absorbed \in [Tickets -> SUBSET Tickets]

(* Two turns of one session never overlap: whoever is inside run(), or has *)
(* been told that it may enter, is the holder of its slot.                 *)
OnlyHolderRuns ==
  \A t \in Tickets : status[t] \in {"granted", "running"} => holder[KeyOf[t]] = t

(* Submissions of a session that no batch contains yet, oldest first: the  *)
(* holder heads them until it enters run().                                *)
QueueOf(k) ==
  IF holder[k] = NoTicket \/ running_turn[k] = holder[k]
  THEN waiters[k]
  ELSE <<holder[k]>> \o waiters[k]

(* The messages that the next merged batch will take are exactly those of  *)
(* the queued submissions, in the order they arrived; the other policies   *)
(* keep none.                                                              *)
PendingMatchesQueue ==
  \A k \in Keys : pending[k] = IF policy = "merge" THEN QueueOf(k) ELSE << >>

(* The slot table keeps no idle session and loses no busy one. *)
SlotTableExact == slots = {k \in Keys : Busy(k)}

(* A caller blocked on its future can still be found by whoever has to     *)
(* resolve it: in its session's queue, or in a batch that is running.      *)
NoLostCaller ==
  \A t \in Tickets : status[t] = "waiting" =>
    \/ t \in Elements(waiters[KeyOf[t]])
    \/ \E u \in Tickets : status[u] = "running" /\ t \in absorbed[u]

(* The bound on the queue holds although the head of the queue leaves it   *)
(* when it is handed the slot, before it runs.                             *)
QueueBounded == policy = "queue" => \A k \in Keys : Len(waiters[k]) <= QueueMaxSize

(* The bookkeeping of a session's slot agrees with its queue. *)
SlotsConsistent == PendingMatchesQueue /\ SlotTableExact /\ QueueBounded

(* A caller is told "merged" only by the step in which the batch that      *)
(* holds its message succeeds: a failed batch is never reported as done.   *)
MergedMeansExecuted ==
  [][\A t \in Tickets :
       status'[t] = "merged" /\ status[t] # "merged" =>
         \E u \in Tickets :
           /\ status[u] = "running" /\ status'[u] = "executed"
           /\ t \in Elements(batch[u])]_vars

(* The slot mechanism implements the plain queue of SerialQueue: messages  *)
(* of a session are run in arrival order, one batch at a time, and every   *)
(* caller of a batch is answered when it ends.                             *)
Backlog == [k \in Keys |-> QueueOf(k)]
ActiveOf(k) == IF running_turn[k] = NoTicket THEN << >> ELSE batch[running_turn[k]]
Active == [k \in Keys |-> ActiveOf(k)]
Open == {t \in Tickets : status[t] \in Blocked \cup {"running"}}

Serial == INSTANCE SerialQueue WITH backlog <- Backlog, active <- Active, open <- Open

ImplementsSerialQueue == Serial!Spec

(* Every accepted submission gets its answer, whatever becomes of the runs *)
(* ahead of it, unless a caller of its own session gave up: a cancelled    *)
(* caller may take its session's slot with it (SlotAlwaysReleased), but    *)
(* never that of another session.                                          *)
EveryCallerAnswered ==
  \A t \in Tickets :
    status[t] \in Blocked ~>
      \/ status[t] \in Final
      \/ \E u \in Tickets : KeyOf[u] = KeyOf[t] /\ status[u] = "cancelled"

(* "The scheduler only guarantees that the slot is always released"        *)
(* (session_lock.py:198): nobody keeps a slot forever.                     *)
SlotAlwaysReleased ==
  \A t \in Tickets : holder[KeyOf[t]] = t ~> holder[KeyOf[t]] # t
-----------------------------------------------------------------------------
(* The inductive invariant behind the theorems of SessionScheduler_proofs. *)

(* Queued tickets are distinct, of this session, and not yet granted. *)
QueueWellFormed(k) ==
  /\ \A i \in DOMAIN waiters[k] :
       /\ KeyOf[waiters[k][i]] = k
       /\ status[waiters[k][i]] \in {"waiting", "cancelled"}
       /\ waiters[k][i] # holder[k]
  /\ \A i, j \in DOMAIN waiters[k] : waiters[k][i] = waiters[k][j] => i = j

(* A free slot has no queue; a taken one is owned by a ticket that was      *)
(* granted it, runs, or was cancelled before it could run.                  *)
HolderWellFormed(k) ==
  /\ holder[k] = NoTicket => waiters[k] = << >> /\ running_turn[k] = NoTicket
  /\ holder[k] # NoTicket =>
       /\ KeyOf[holder[k]] = k
       /\ status[holder[k]] \in {"granted", "running", "cancelled"}
       /\ running_turn[k] =
            IF status[holder[k]] = "running" THEN holder[k] ELSE NoTicket

(* A running ticket's batch is itself and what it absorbed, all of its      *)
(* session and out of the queue; nobody else has a batch.                   *)
BatchWellFormed(t) ==
  /\ status[t] = "running" =>
       /\ Elements(batch[t]) = {t} \cup absorbed[t]
       /\ t \notin absorbed[t]
       /\ \A u \in absorbed[t] :
            /\ KeyOf[u] = KeyOf[t]
            /\ status[u] \in {"waiting", "cancelled"}
            /\ u \notin Elements(waiters[KeyOf[t]])
  /\ status[t] # "running" => batch[t] = << >> /\ absorbed[t] = {}

IInv ==
  /\ TypeOK
  /\ \A k \in Keys : QueueWellFormed(k) /\ HolderWellFormed(k)
  /\ \A t \in Tickets : BatchWellFormed(t)
  /\ OnlyHolderRuns
  /\ PendingMatchesQueue
  /\ SlotTableExact
  /\ NoLostCaller
=============================================================================
