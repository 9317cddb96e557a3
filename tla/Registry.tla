------------------------------ MODULE Registry ------------------------------
(***************************************************************************)
(* The capability registry: what a provider may register                   *)
(* (contracts/capability.py, kernel/registry/capability.py), how a complete *)
(* set of registrations is resolved once into the active set               *)
(* (kernel/registry/resolution.py) and how the runtime reads that set      *)
(* (kernel/plugins/capabilities.py).                                       *)
(*                                                                         *)
(* Providers are ranked naturals in the order of provider_sort_key: 0 is   *)
(* the built-in one ("builtin" sorts before "plugin:..."), 1.. the         *)
(* plugins.  Capability names are naturals in their lexicographic order.   *)
(***************************************************************************)
EXTENDS Naturals, Sequences, FiniteSets, SequencesExt

Builtin == 0
NoTarget == [prov |-> 0, name |-> 0]    \* names start at 1: no declared override

Arity ==
    [tool |-> "multi_unique", command |-> "multi_unique", context |-> "multi",
     compactor |-> "multi_unique", hook |-> "multi", channel |-> "multi_unique",
     model |-> "multi_unique", memory |-> "multi_unique",
     session_store |-> "singleton", cli_entry |-> "singleton"]
Kinds == DOMAIN Arity

BasePriority(prov) == IF prov = Builtin THEN 0 ELSE 100

(* A registration carries its reference, its priority and the override its *)
(* manifest declares; the payload is opaque to the resolution.             *)
Registration(kind, prov, name, prio, over) ==
    [kind |-> kind, prov |-> prov, name |-> name, prio |-> prio, over |-> over]
OverrideTarget(r) == [kind |-> r.kind, prov |-> r.over.prov, name |-> r.over.name]
Ref(r) == [kind |-> r.kind, prov |-> r.prov, name |-> r.name]
Legal(r) == r.prio >= 0 /\ OverrideTarget(r) # Ref(r)
Slot(r) == [kind |-> r.kind, name |-> r.name]

Before(a, b) ==     \* sort_key: priority, provider, name
    \/ a.prio < b.prio
    \/ a.prio = b.prio /\ a.prov < b.prov
    \/ a.prio = b.prio /\ a.prov = b.prov /\ a.name < b.name

(* One provider's batch: nothing of it is visible before the commit.       *)
NewBatch(prov) == [prov |-> prov, staged |-> <<>>, state |-> "open"]
Staged(b) == {b.staged[i] : i \in DOMAIN b.staged}
CanAdd(b, r) == /\ b.state = "open" /\ Legal(r)
                /\ \A s \in Staged(b) : Slot(s) # Slot(r)
Add(b, r) == [b EXCEPT !.staged = Append(@, r)]
(* Mutant: what was staged stays. *)
RollbackStaged(b) == [b EXCEPT !.state = "rolled_back"]
Rollback(b) == [b EXCEPT !.staged = <<>>, !.state = "rolled_back"]
Commit(b) == [b EXCEPT !.state = "committed"]
Absorb(regs, b) == regs \o b.staged

(* The resolution.  Registrations are named by their index in regs.        *)
Live(regs, disabled, suppressed) ==
    {i \in DOMAIN regs : regs[i].prov \notin disabled /\ Ref(regs[i]) \notin suppressed}
First(regs, live, ref) ==
    CHOOSE i \in live : Ref(regs[i]) = ref
                        /\ \A j \in live : Ref(regs[j]) = ref => i <= j
Overriding(regs, live) == {i \in live : regs[i].over # NoTarget}
Exists(regs, live, ref) == \E i \in live : Ref(regs[i]) = ref
Orphans(regs, live) ==
    {i \in Overriding(regs, live) : ~Exists(regs, live, OverrideTarget(regs[i]))}
Claims(regs, claimants) ==
    [ref \in {OverrideTarget(regs[i]) : i \in claimants} |->
        {i \in claimants : OverrideTarget(regs[i]) = ref}]
(* Mutant: the first of two overrides wins. *)
DecideFirstWins(regs, live, orphans, claims) ==
    LET Sooner(ref) == CHOOSE i \in claims[ref] : \A j \in claims[ref] : i <= j
        pairs == {<<First(regs, live, ref), Sooner(ref)>> : ref \in DOMAIN claims}
    IN  [excluded |-> (orphans \union UNION {claims[ref] : ref \in DOMAIN claims}
                        \union {pair[1] : pair \in pairs}) \ {pair[2] : pair \in pairs},
         shadowed |-> pairs, failures |-> {[code |-> "override_target_missing", of |-> {i}] : i \in orphans}]
Decide(regs, live, orphans, claims) ==
    LET contested == {ref \in DOMAIN claims : Cardinality(claims[ref]) > 1}
        pairs == {<<First(regs, live, ref), CHOOSE i \in claims[ref] : TRUE>> : ref \in DOMAIN claims \ contested}
    IN  [excluded |-> orphans \union UNION {claims[ref] : ref \in contested} \union {pair[1] : pair \in pairs},
         shadowed |-> pairs,
         failures |-> {[code |-> "override_target_missing", of |-> {i}] : i \in orphans}
                        \union {[code |-> "override_conflict", of |-> claims[ref]] : ref \in contested}]
ApplyOverrides(regs, live) ==
    LET Sort(orphans) == Decide(regs, live, orphans, Claims(regs, Overriding(regs, live) \ orphans))
    IN  Sort(Orphans(regs, live))

SlotKey(r) == IF Arity[r.kind] = "singleton" THEN [kind |-> r.kind, name |-> 0] ELSE Slot(r)
Rivals(regs, remaining, i) ==
    IF Arity[regs[i].kind] = "multi" THEN {i} ELSE {j \in remaining : SlotKey(regs[j]) = SlotKey(regs[i])}
ApplyArity(regs, remaining) ==
    LET groups == {Rivals(regs, remaining, i) : i \in remaining}
    IN  [active   |-> UNION {g \in groups : Cardinality(g) = 1},
         failures |-> {[code |-> "registration_conflict", of |-> g] : g \in {h \in groups : Cardinality(h) > 1}}]

Resolve(regs, disabled, suppressed) ==
    LET Join(live, over, last) ==
            [active |-> last.active, shadowed |-> over.shadowed,
             disabled |-> DOMAIN regs \ live, failures |-> over.failures \union last.failures]
        Finish(live, over) == Join(live, over, ApplyArity(regs, live \ over.excluded))
        Start(live) == Finish(live, ApplyOverrides(regs, live))
    IN  Start(Live(regs, disabled, suppressed))

(* The frozen registry: the active registrations in order, and the reads   *)
(* the runtime makes of them.                                              *)
Freeze(regs, active) ==     \* the sort is stable
    LET Sooner(i, j) == Before(regs[i], regs[j]) \/ (~Before(regs[j], regs[i]) /\ i < j)
        order == SetToSortSeq(active, Sooner)
    IN  [k \in DOMAIN order |-> regs[order[k]]]
LookupAll(frozen, kind, name) ==
    SelectSeq(frozen, LAMBDA r : r.kind = kind /\ r.name = name)
LookupRefused(kind) == Arity[kind] = "multi"
FirstIfAny(found) == IF found = <<>> THEN <<>> ELSE <<Head(found)>>
Lookup(frozen, kind, name) == FirstIfAny(LookupAll(frozen, kind, name))
OfKind(frozen, kind) == SelectSeq(frozen, LAMBDA r : r.kind = kind)
Single(frozen, kind) == OfKind(frozen, kind)    \* more than one is an invariant error
SelectModel(frozen, wanted) ==      \* wanted = 0 names no provider: the first one; <<>>: refused
    IF wanted = 0 THEN FirstIfAny(OfKind(frozen, "model")) ELSE Lookup(frozen, "model", wanted)
-----------------------------------------------------------------------------
(* resolution.py:8-40, docs of the override rules.  The result does not    *)
(* hang on the order of the registrations; of a unique slot at most one    *)
(* registration is active and of a shadowed pair the shadowed one never    *)
(* is; every registration is active, off, shadowed or named in a failure,  *)
(* and in one of these only, but for an override that failed and was       *)
(* itself overridden, which is shadowed and in a failure (resolution.py:95 *)
(* calls the sections exclusive); and a slot that lost everything it had   *)
(* is in a failure, unless the two sides of an override overrode each      *)
(* other.                                                                  *)
ResolutionIsFair(regs, disabled, suppressed) ==
    LET Named(of, q) == {q[i] : i \in of}
        SameInAnyOrder(r, back) ==
            /\ Named(r.active, regs) = Named(back.active, Reverse(regs))
            /\ {[code |-> f.code, of |-> Named(f.of, regs)] : f \in r.failures} =
                {[code |-> f.code, of |-> Named(f.of, Reverse(regs))] : f \in back.failures}
        Accounted(r, failed, shadowed) ==
            /\ r.active \cap (r.disabled \union shadowed \union failed) = {}
            /\ r.disabled \cap (shadowed \union failed) = {}
            /\ \A i \in shadowed \cap failed : regs[i].over # NoTarget
            /\ DOMAIN regs = r.active \union r.disabled \union shadowed \union failed
            /\ \A i, j \in r.active : i # j /\ Arity[regs[i].kind] # "multi" => SlotKey(regs[i]) # SlotKey(regs[j])
            /\ \A i \in DOMAIN regs \ r.disabled :
                   \/ \E j \in r.active \union failed : SlotKey(regs[j]) = SlotKey(regs[i])
                   \/ \E pair \in r.shadowed :
                          pair[1] = i /\ (pair[2] \in r.active \union failed \/ \E other \in r.shadowed : other[1] = pair[2])
        Fair(r) == /\ SameInAnyOrder(r, Resolve(Reverse(regs), disabled, suppressed))
                   /\ Accounted(r, UNION {f.of : f \in r.failures}, {pair[1] : pair \in r.shadowed})
    IN  Fair(Resolve(regs, disabled, suppressed))
(* capabilities.py.  What the runtime reads of the frozen registry is what *)
(* the resolution left active: nothing else, nothing twice, in one order;  *)
(* a model that is asked for by name is that one or none.                  *)
ReadsAreExact(regs) ==
    LET Exact(active, frozen) ==
            /\ ToSet(frozen) = {regs[i] : i \in active}
            /\ \A i, j \in DOMAIN frozen : i < j =>
                  IF frozen[i].kind = frozen[j].kind THEN Before(frozen[i], frozen[j]) ELSE ~Before(frozen[j], frozen[i])
            /\ \A r \in ToSet(frozen) :
                  /\ ~LookupRefused(r.kind) => Lookup(frozen, r.kind, r.name) = <<r>>
                  /\ Arity[r.kind] = "singleton" => Single(frozen, r.kind) = <<r>>
            /\ \A name \in {r.name : r \in ToSet(regs)} : \A r \in ToSet(SelectModel(frozen, name)) : r.name = name
        Read(active) == Exact(active, Freeze(regs, active))
    IN  Read(Resolve(regs, {}, {}).active)
(* capability.py.  What a provider added by turns to a batch is seen all   *)
(* at once or, when its setup failed, not at all; a refused registration   *)
(* changes nothing.                                                        *)
BatchIsAtomic(regs, tries, fails) ==
    LET batch[k \in 0..Len(tries)] ==
            IF k = 0 THEN NewBatch(tries[1].prov)
            ELSE IF CanAdd(batch[k - 1], tries[k]) THEN Add(batch[k - 1], tries[k]) ELSE batch[k - 1]
        closed == IF fails THEN Rollback(batch[Len(tries)]) ELSE Commit(batch[Len(tries)])
        after  == Absorb(regs, closed)
    IN  /\ SubSeq(after, 1, Len(regs)) = regs
        /\ fails => after = regs
        /\ \A r \in ToSet(tries) : ~CanAdd(closed, r)
        /\ \A i, j \in DOMAIN closed.staged : Slot(closed.staged[i]) = Slot(closed.staged[j]) => i = j
=============================================================================
