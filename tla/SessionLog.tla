----------------------------- MODULE SessionLog -----------------------------
(***************************************************************************)
(* What a SessionStore promises for one session (contracts/protocols.py,   *)
(* SES-002): a list of records and a compaction watermark, changed by      *)
(* calls that take effect completely or not at all.  A caller told "ok"    *)
(* knows that its call took effect, a caller told "failed" that it did     *)
(* not; after a crash the call may or may not have taken effect.           *)
(***************************************************************************)
EXTENDS Naturals, Sequences

VARIABLES
  log,      (* the records, oldest first                                   *)
  through,  (* how many of them are covered by summaries                   *)
  call,     (* the call in progress, or the last one                       *)
  busy,     (* whether that call is still in progress                      *)
  applied,  (* whether it has taken effect                                 *)
  answer    (* what the last caller was told                               *)

vars == <<log, through, call, busy, applied, answer>>

InsertAt(s, i, x) == SubSeq(s, 1, i) \o <<x>> \o SubSeq(s, i + 1, Len(s))

(* The watermark never leaves the log and never moves back. *)
InRange(c) == c.op = "compact" => c.at \in through..Len(log)

Init ==
  /\ log = << >>
  /\ through = 0
  /\ busy = FALSE
  /\ applied = FALSE
  /\ answer = "none"

Begin ==
  /\ ~busy
  /\ busy' = TRUE
  /\ InRange(call')
  /\ UNCHANGED <<log, through, applied, answer>>

Refuse ==
  /\ ~busy
  /\ answer' = "refused"
  /\ ~InRange(call')
  /\ UNCHANGED <<log, through, busy, applied>>

TakeEffect ==
  /\ busy
  /\ ~applied
  /\ applied' = TRUE
  /\ \/ /\ call.op = "append"
        /\ log' = log \o call.records
        /\ UNCHANGED through
     \/ /\ call.op = "compact"
        /\ log' = InsertAt(log, call.at, Head(call.records))
        /\ through' = call.at
     \/ /\ call.op = "delete"
        /\ log' = << >>
        /\ through' = 0
  /\ UNCHANGED <<call, busy, answer>>

Return ==
  /\ busy
  /\ busy' = FALSE
  /\ answer' \in {"crashed", IF applied THEN "ok" ELSE "failed"}
  /\ applied' = FALSE
  /\ UNCHANGED <<log, through, call>>

Next == Begin \/ Refuse \/ TakeEffect \/ Return

Spec == Init /\ [][Next]_vars
=============================================================================
