------------------------------- MODULE Context -------------------------------
(***************************************************************************)
(* What a turn sends to the model (kernel/turn/context_builder.py,         *)
(* compaction.py, memory.py, builtins/context_basic): the fragments the    *)
(* context providers and the long-term memory return, the interceptor,     *)
(* the trimming to the token budget, and the compaction that makes a       *)
(* trimming of the history permanent.                                      *)
(*                                                                         *)
(* The definitions are functions of one turn's input.  A text is its       *)
(* number of tokens; a fragment is its priority, estimate and trust; a     *)
(* record of the session is its role, its text and its attachments.        *)
(***************************************************************************)
EXTENDS Naturals, Sequences, FiniteSets, SequencesExt

Tokens(s) == FoldLeft(LAMBDA n, x : n + x.tok, 0, s)
Fail(code) == [ok |-> FALSE, code |-> code]

(* The providers run side by side and each ends on its own; the results    *)
(* are taken in registration order.  A provider that fails leaves nothing, *)
(* unless it is critical: then the first such failure ends the turn.       *)
BasicFragments(set) ==
       (IF set.baseline THEN <<[pri |-> 0, tok |-> set.tok, trust |-> "system", secret |-> FALSE, expired |-> FALSE]>> ELSE <<>>)
    \o (IF set.facts    THEN <<[pri |-> 0, tok |-> set.tok, trust |-> "system", secret |-> FALSE, expired |-> FALSE]>> ELSE <<>>)
    \o (IF set.own > 0  THEN <<[pri |-> 0, tok |-> set.own, trust |-> "operator", secret |-> FALSE, expired |-> FALSE]>> ELSE <<>>)
BasicSettingsOk(set) == set.baseline \/ set.own > 0
Collect(providers) ==
    IF \E i \in DOMAIN providers : providers[i].critical /\ ~providers[i].ok
    THEN Fail("provider")
    ELSE [ok |-> TRUE, frags |-> FlattenSeq([i \in DOMAIN providers |->
                                    IF providers[i].ok THEN providers[i].frags ELSE <<>>])]

(* The long-term memory: asked only when there is a question; what it      *)
(* returns is lowered below the floor, so that it goes before the rest.    *)
Floored(f, floor) == [f EXCEPT !.pri = IF @ >= floor THEN @ ELSE floor]
Recall(mem, input) ==
    IF mem = {} \/ input = 0 THEN [ok |-> TRUE, frags |-> <<>>]
    ELSE LET m == CHOOSE x \in mem : TRUE
         IN  CASE m.ends = "ok" -> [ok |-> TRUE, frags |-> [i \in DOMAIN m.frags |-> Floored(m.frags[i], m.floor)]]
               [] m.ends = "cancelled" -> Fail("cancelled")
               [] OTHER -> IF m.critical THEN Fail("memory") ELSE [ok |-> TRUE, frags |-> <<>>]

(* context_assemble may put others in the place of the fragments, but not  *)
(* none at all.                                                            *)
Intercept(frags, hook) == IF hook # <<>> THEN hook ELSE frags
Usable(f) == ~f.secret /\ ~f.expired

(* The records a request replays: no tool results, and nothing empty.      *)
Live(snap) == SubSeq(snap.records, snap.through + 1, Len(snap.records))
Replayed(r) == r.role # "tool" /\ (r.text > 0 \/ r.att > 0)
Replay(snap) == [i \in DOMAIN SelectSeq(Live(snap), Replayed) |->
                    LET r == SelectSeq(Live(snap), Replayed)[i]
                    IN  [role |-> r.role, tok |-> r.text + r.att, id |-> r.id]]

(* Mutant: the fragment that matters most goes first. *)
VictimsFirstToLast(body) ==
    SetToSortSeq(DOMAIN body, LAMBDA i, j : body[i].pri < body[j].pri \/ (body[i].pri = body[j].pri /\ i < j))
(* The order in which things go: the fragment of the highest priority      *)
(* number, the last of them first; then the history, the oldest first.     *)
Victims(body) ==
    SetToSortSeq(DOMAIN body, LAMBDA i, j : body[i].pri > body[j].pri \/ (body[i].pri = body[j].pri /\ i > j))
Cut(frags, history, n) ==       \* what is left after n victims
    LET body  == SelectSeq(frags, LAMBDA f : f.trust # "system")
        order == Victims(body)
        gone  == {order[k] : k \in 1..Min({n, Len(body)})}
        lost  == IF n > Len(body) THEN n - Len(body) ELSE 0
    IN  [ok |-> TRUE, system |-> SelectSeq(frags, LAMBDA f : f.trust = "system"),
         body |-> LET kept == SetToSortSeq(DOMAIN body \ gone, <) IN [k \in DOMAIN kept |-> body[kept[k]]],
         history |-> SubSeq(history, 1 + lost, Len(history)), lost |-> lost,
         dropped |-> [k \in 1..Min({n, Len(body)}) |-> body[order[k]]]]
Size(cut, input) == Tokens(cut.system) + Tokens(cut.body) + Tokens(cut.history) + input
Trim(frags, history, input, budget) ==
    LET fits == {n \in 0..(Len(frags) + Len(history)) : Size(Cut(frags, history, n), input) <= budget}
    IN  IF fits = {} THEN Fail("too_large") ELSE Cut(frags, history, Min(fits))

(* System texts, the history, the other fragments in one message, the      *)
(* user's input: the roles of the request.                                 *)
Render(plan, input) ==
       (IF plan.system # <<>> THEN <<"system">> ELSE <<>>)
    \o [i \in DOMAIN plan.history |-> plan.history[i].role]
    \o (IF plan.body # <<>> THEN <<"user">> ELSE <<>>)
    \o (IF input > 0 THEN <<"user">> ELSE <<>>)

(* The budget: configured, or the model's window less its answer.          *)
Fallback == 8
Budget(limit, model) ==
    IF limit > 0 THEN limit
    ELSE IF model.window = 0 THEN Fallback
    ELSE IF model.window > model.output THEN model.window - model.output ELSE 0

Planned(plan, input) == IF plan.ok /\ Render(plan, input) = <<>> THEN Fail("malformed") ELSE plan
Assemble(t, snap) ==
    LET got == Collect(t.providers)
        mem == Recall(t.memory, t.input)
        all == Intercept(got.frags \o mem.frags \o t.extra, t.hook)
    IN  IF ~got.ok THEN got ELSE IF ~mem.ok THEN mem
        ELSE IF Budget(t.limit, t.model) = 0 THEN Fail("config")
        ELSE Planned(Trim(SelectSeq(all, Usable), Replay(snap), t.input, Budget(t.limit, t.model)), t.input)

(* Mutant: one record fewer than were lost. *)
MinimumThroughShort(snap, lost) ==
    LET counted == {i \in (snap.through + 1)..Len(snap.records) :
                        snap.records[i].role # "tool" /\ snap.records[i].text > 0}
        covers  == {i \in counted : Cardinality({j \in counted : j <= i}) = lost - 1}
    IN  IF covers = {} THEN snap.through + 1 ELSE CHOOSE i \in covers : TRUE
(* Compaction: only where the trimming lost history.  The compactor's      *)
(* watermark must cover what was lost; a refusal leaves the turn as it was. *)
MinimumThrough(snap, lost) ==
    LET counted == {i \in (snap.through + 1)..Len(snap.records) :
                        snap.records[i].role # "tool" /\ snap.records[i].text > 0}
        covers  == {i \in counted : Cardinality({j \in counted : j <= i}) = lost}
    IN  IF covers = {} THEN Len(snap.records) + 1 ELSE CHOOSE i \in covers : TRUE
Accepted(snap, lost, result) ==
    /\ result.ends = "ok" /\ result.text > 0
    /\ result.through > snap.through
    /\ result.through \in MinimumThrough(snap, lost)..Len(snap.records)
Compacted(snap, result) ==      \* SessionStore.compact, then load
    [through |-> result.through,
     records |-> SubSeq(snap.records, 1, result.through)
                    \o <<[id |-> 0, role |-> "system", text |-> result.text, att |-> 0]>>
                    \o SubSeq(snap.records, result.through + 1, Len(snap.records))]
Settled(t, snap, first) ==
    LET kept == [plan |-> first, snap |-> snap]
    IN  IF ~first.ok \/ first.lost = 0 \/ t.compactor = {} THEN kept
        ELSE LET result == CHOOSE r \in t.compactor : TRUE
             IN  IF ~Accepted(snap, first.lost, result) THEN kept
                 ELSE [plan |-> Assemble(t, Compacted(snap, result)), snap |-> Compacted(snap, result)]
Prepare(t, snap) == Settled(t, snap, Assemble(t, snap))

---------------------------------------------------------------------------
(* Properties of every turn's input                                        *)

(* What goes to the model stays within the budget, and nothing goes that   *)
(* need not: the history is a suffix and loses a record only when every    *)
(* fragment is gone; a fragment is dropped before those that matter more;  *)
(* what the trimming may not touch is all there; nothing secret or expired *)
(* is; and a turn is refused for its size only when that alone is too much *)
(* (context_builder.py, rules 2 to 4 and the trimming).                    *)
AssemblyFits(t, snap) ==
    LET cap == Budget(t.limit, t.model)
        Fits(a, usable, history) ==
            /\ a.ok =>
                /\ Size(a, t.input) <= cap
                /\ IsSuffix(a.history, history)
                /\ a.lost > 0 => a.body = <<>>
                /\ \A i \in DOMAIN a.body, j \in DOMAIN a.dropped : a.body[i].pri <= a.dropped[j].pri
                /\ a.dropped # <<>> \/ a.lost > 0 =>       \* one victim fewer would not do
                       LET last == IF a.lost > 0 THEN history[a.lost] ELSE Last(a.dropped)
                       IN  Size(a, t.input) + last.tok > cap
                /\ \A f \in ToSet(a.system \o a.body) : Usable(f)
                /\ Len(usable) = Len(a.system) + Len(a.body) + Len(a.dropped)
            /\ ~a.ok /\ a.code = "too_large" =>
                   Tokens(SelectSeq(usable, LAMBDA f : f.trust = "system")) + t.input > cap
    IN  Fits(Assemble(t, snap),
             SelectSeq(Intercept(Collect(t.providers).frags \o Recall(t.memory, t.input).frags \o t.extra, t.hook), Usable),
             Replay(snap))

(* A compaction covers all that the trimming lost and no replayed record   *)
(* vanishes without being covered: what the new session replays is the     *)
(* summary and every record above the new watermark (compaction.py).       *)
CompactionCovers(t, snap) ==
    LET Covers(before, first, new) ==
            LET covered == {snap.records[i].id : i \in 1..new.through}
            IN  /\ {before[i].id : i \in 1..first.lost} \subseteq covered
                /\ Replay(new) # <<>> /\ Head(Replay(new)).id = 0
                /\ Tail(Replay(new)) = SelectSeq(before, LAMBDA m : m.id \notin covered)
                /\ new.through > snap.through
        new == Prepare(t, snap).snap
    IN  new # snap => Covers(Replay(snap), Assemble(t, snap), new)
=============================================================================
