---------------------------- MODULE SerialQueue ----------------------------
(***************************************************************************)
(* What SessionScheduler.submit promises its callers, with none of the     *)
(* mechanism: each session is a first-in-first-out queue served by one     *)
(* batch at a time, and every caller of a batch is answered by the step    *)
(* that ends that batch.                                                   *)
(***************************************************************************)
EXTENDS Sequences

CONSTANTS
  Keys,     (* sessions                                                    *)
  Tickets,  (* submissions; a submission stands for the message it carries *)
  KeyOf     (* the session each submission goes to                         *)

VARIABLES
  backlog,  (* per session: accepted submissions no batch contains yet     *)
  active,   (* per session: the batch being run, << >> when idle           *)
  open      (* submissions whose caller still waits for an answer          *)

vars == <<backlog, active, open>>

Members(s) == {s[i] : i \in DOMAIN s}

Unknown(t) ==
  /\ t \notin open
  /\ t \notin Members(backlog[KeyOf[t]])
  /\ t \notin Members(active[KeyOf[t]])

Init ==
  /\ backlog = [k \in Keys |-> << >>]
  /\ active = [k \in Keys |-> << >>]
  /\ open = {}

(* A submission joins the end of a session that is not idle. *)
Arrive(t) ==
  /\ Unknown(t)
  /\ backlog' = [backlog EXCEPT ![KeyOf[t]] = Append(@, t)]
  /\ open' = open \cup {t}
  /\ UNCHANGED active

(* A submission to an idle session is run at once. *)
ArriveAndBegin(t) ==
  /\ Unknown(t)
  /\ backlog[KeyOf[t]] = << >>
  /\ active[KeyOf[t]] = << >>
  /\ active' = [active EXCEPT ![KeyOf[t]] = <<t>>]
  /\ open' = open \cup {t}
  /\ UNCHANGED backlog

BeginOldest(k) ==
  /\ active[k] = << >>
  /\ backlog[k] # << >>
  /\ active' = [active EXCEPT ![k] = <<Head(backlog[k])>>]
  /\ backlog' = [backlog EXCEPT ![k] = Tail(@)]
  /\ UNCHANGED open

BeginAll(k) ==
  /\ active[k] = << >>
  /\ backlog[k] # << >>
  /\ active' = [active EXCEPT ![k] = backlog[k]]
  /\ backlog' = [backlog EXCEPT ![k] = << >>]
  /\ UNCHANGED open

End(k) ==
  /\ active[k] # << >>
  /\ active' = [active EXCEPT ![k] = << >>]
  /\ open' = open \ Members(active[k])
  /\ UNCHANGED backlog

(* A caller gives up; its submission keeps its place. *)
Abandon(t) ==
  /\ t \in open
  /\ open' = open \ {t}
  /\ UNCHANGED <<backlog, active>>

Next ==
  \/ \E t \in Tickets : Arrive(t) \/ ArriveAndBegin(t) \/ Abandon(t)
  \/ \E k \in Keys : BeginOldest(k) \/ BeginAll(k) \/ End(k)

Spec == Init /\ [][Next]_vars
=============================================================================
