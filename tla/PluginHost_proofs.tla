--------------------------- MODULE PluginHost_proofs ---------------------------
(***************************************************************************)
(* The life of an instance's providers, for any load order, manifests,     *)
(* dependencies, critical providers and required kinds: registered whole   *)
(* or not at all, started and stopped along the dependencies, and nothing  *)
(* of them left when the lock is released; and that lock, for any          *)
(* processes.                                                              *)
(***************************************************************************)
EXTENDS PluginHost, InstanceLock, SequenceTheorems, FunctionTheorems, FiniteSetTheorems, TLAPS

Declarations == UNION {ToSet(Caps[p]) : p \in Plugins}
Providers == {0} \cup {d.prov : d \in Declarations}

Building == {"wiring", "falling_back"}
Stopping == {"stopping", "aborting", "falling_back"}
Over == {"stopped", "failed"}

Contexts ==
  [started : BOOLEAN, stopping : BOOLEAN, subscribed : BOOLEAN,
   task : {"none", "pending", "running", "cancelled", "done"},
   handler : {"none", "running", "cancelled", "done"},
   cleanup : {"none", "due", "done"},
   stop : {"none", "ok", "error", "timeout"}]
Lives ==
  [phase : {"none", "loaded", "started", "failed", "stopping", "stopped"},
   cause : {"none", "setup", "activate", "error", "timeout"}]

HostTypeOK ==
  /\ phase \in {"wiring", "starting", "running"} \cup Stopping \cup Over
  /\ locked \in BOOLEAN /\ round \in {1, 2}
  /\ batch \in [prov : Providers, staged : Seq(Declarations),
                state : {"none", "open", "rolled_back", "committed"}]
  /\ regs \in Seq(Declarations)
  /\ outcome \in [Plugins -> {"none", "ok", "error"}]
  /\ owned \in Seq(Plugins)
  /\ ctx \in [Plugins -> Contexts]
  /\ life \in [Plugins -> Lives]
  /\ todo \in Seq(Plugins) /\ step \in {"idle", "gather"}

(* The contexts are made in load order; all are there when the instance is  *)
(* assembled.                                                              *)
OwnedHolds ==
  /\ Len(owned) <= Len(LoadOrder)
  /\ \A i \in 1..Len(owned) : owned[i] = LoadOrder[i]
  /\ phase \in {"starting", "running"} => Len(owned) = Len(LoadOrder)

(* A batch is about the newest context, whose setup has no outcome yet.     *)
Distinct(s) == \A i, j \in 1..Len(s) : s[i] = s[j] => i = j
BatchHolds ==
  batch.state = "open" =>
    /\ phase = "wiring" /\ owned # << >> /\ outcome[Current] = "none"
    /\ ToSet(batch.staged) \subseteq ToSet(Caps[Current]) /\ Distinct(batch.staged)

(* What is registered comes from setups that succeeded, all of it, once.    *)
RegsHold ==
  /\ \A p \in Plugins : outcome[p] = "ok" => Declared(p) \subseteq ToSet(regs)
  /\ \A d \in ToSet(regs) : \E p \in Plugins : outcome[p] = "ok" /\ d \in ToSet(Caps[p])
  /\ Distinct(regs)
  /\ \A p \in Plugins : outcome[p] # "none" => p \in ToSet(owned)

(* Only what was set up is loaded, and started once all are assembled.      *)
LifeHolds(p) ==
  /\ phase \in Building => life[p].phase = "none" /\ ~ctx[p].started
  /\ life[p].phase = "loaded" => outcome[p] = "ok"
  /\ ctx[p].started => outcome[p] = "ok" /\ p \in ToSet(owned)

(* How far a stop has come with a context.                                  *)
Stopped(c) == c.stopping /\ c.stop # "none" /\ IsQuiet(c)
Draining(c) ==
  /\ c.stopping /\ ~c.subscribed
  /\ c.task \notin {"running", "pending"} /\ c.handler # "running"

(* What is still to be stopped are the oldest contexts, the newest first;   *)
(* the others are done with, and so is whoever has no context (any more).  *)
StopHolds ==
  /\ ~locked => phase \in Over
  /\ todo # << >> => phase \in Stopping
  /\ step = "gather" => todo # << >> /\ Draining(ctx[Head(todo)])
  /\ Len(todo) <= Len(owned)
  /\ \A i \in 1..Len(todo) : todo[i] = owned[Len(todo) + 1 - i]
  /\ phase \in Stopping \cup Over =>
       \A i \in (Len(todo) + 1)..Len(owned) : Stopped(ctx[owned[i]])
  /\ \A p \in Plugins \ ToSet(owned) : IsQuiet(ctx[p])

IInv ==
  /\ HostTypeOK
  /\ OwnedHolds
  /\ BatchHolds
  /\ RegsHold
  /\ \A p \in Plugins : LifeHolds(p)
  /\ StopHolds
-----------------------------------------------------------------------------
(* Sequences. *)

LEMMA AppendFacts ==
  ASSUME NEW T, NEW s \in Seq(T), NEW x \in T
  PROVE  /\ Append(s, x) \in Seq(T) /\ Len(Append(s, x)) = Len(s) + 1 /\ Len(s) \in Nat
         /\ Append(s, x) # << >> /\ Append(s, x)[Len(s) + 1] = x
         /\ \A i \in 1..Len(s) : Append(s, x)[i] = s[i]
         /\ ToSet(Append(s, x)) = ToSet(s) \cup {x}
         /\ Distinct(s) /\ x \notin ToSet(s) => Distinct(Append(s, x))
<1>1. /\ Append(s, x) \in Seq(T) /\ Len(Append(s, x)) = Len(s) + 1 /\ Len(s) \in Nat
      /\ Append(s, x) # << >> /\ Append(s, x)[Len(s) + 1] = x
      /\ \A i \in 1..Len(s) : Append(s, x)[i] = s[i]
      /\ DOMAIN s = 1..Len(s) /\ DOMAIN Append(s, x) = 1..(Len(s) + 1)
  OBVIOUS
<1>2. 1..(Len(s) + 1) = (1..Len(s)) \cup {Len(s) + 1} BY <1>1
<1>3. ToSet(Append(s, x)) = ToSet(s) \cup {x} BY <1>1, <1>2 DEF ToSet
<1>4. ASSUME Distinct(s), x \notin ToSet(s) PROVE Distinct(Append(s, x))
  <2>1. \A i \in 1..Len(s) : s[i] # x BY <1>1, <1>4 DEF ToSet
  <2> QED BY <1>1, <1>2, <1>4, <2>1 DEF Distinct
<1> QED BY <1>1, <1>3, <1>4

LEMMA ConcatFacts ==
  ASSUME NEW T, NEW s \in Seq(T), NEW t \in Seq(T)
  PROVE  /\ s \o t \in Seq(T) /\ ToSet(s \o t) = ToSet(s) \cup ToSet(t)
         /\ Distinct(s) /\ Distinct(t) /\ ToSet(s) \cap ToSet(t) = {} => Distinct(s \o t)
<1> DEFINE u == s \o t
<1>1. /\ u \in Seq(T) /\ Len(u) = Len(s) + Len(t) /\ Len(s) \in Nat /\ Len(t) \in Nat
      /\ \A i \in 1..(Len(s) + Len(t)) : u[i] = IF i <= Len(s) THEN s[i] ELSE t[i - Len(s)]
  BY ConcatProperties
<1>2. DOMAIN s = 1..Len(s) /\ DOMAIN t = 1..Len(t) /\ DOMAIN u = 1..Len(u) BY <1>1
<1> HIDE DEF u
<1>3. \A i \in 1..Len(s) : i \in 1..Len(u) /\ u[i] = s[i] BY <1>1
<1>4. ASSUME NEW i \in 1..Len(t) PROVE i + Len(s) \in 1..Len(u) /\ u[i + Len(s)] = t[i]
  <2>1. i + Len(s) \in 1..(Len(s) + Len(t)) /\ ~(i + Len(s) <= Len(s)) BY <1>1
  <2>2. (i + Len(s)) - Len(s) = i BY <1>1
  <2> QED BY <1>1, <2>1, <2>2
<1>5. ASSUME NEW i \in 1..Len(u)
      PROVE  \/ i \in 1..Len(s) /\ u[i] = s[i]
             \/ i - Len(s) \in 1..Len(t) /\ u[i] = t[i - Len(s)]
  BY <1>1
<1>6. ToSet(u) = ToSet(s) \cup ToSet(t)
  <2>1. ASSUME NEW x \in ToSet(u) PROVE x \in ToSet(s) \cup ToSet(t)
    BY <1>2, <1>5 DEF ToSet
  <2>2. ASSUME NEW x \in ToSet(s) PROVE x \in ToSet(u) BY <1>2, <1>3 DEF ToSet
  <2>3. ASSUME NEW x \in ToSet(t) PROVE x \in ToSet(u) BY <1>2, <1>4 DEF ToSet
  <2> QED BY <2>1, <2>2, <2>3
<1>7. ASSUME Distinct(s), Distinct(t), ToSet(s) \cap ToSet(t) = {}
      PROVE  Distinct(u)
  <2> SUFFICES ASSUME NEW i \in 1..Len(u), NEW j \in 1..Len(u), u[i] = u[j] PROVE i = j
    BY DEF Distinct
  <2>1. \A k \in 1..Len(s) : s[k] \in ToSet(s) BY <1>2 DEF ToSet
  <2>2. \A k \in 1..Len(t) : t[k] \in ToSet(t) BY <1>2 DEF ToSet
  <2>3. CASE i \in 1..Len(s) /\ j \in 1..Len(s) BY <1>3, <1>7, <2>3 DEF Distinct
  <2>4. CASE i \in 1..Len(s) /\ j \notin 1..Len(s)
    <3>1. u[i] \in ToSet(s) BY <1>3, <2>1, <2>4
    <3>2. u[j] \in ToSet(t) BY <1>5, <2>2, <2>4
    <3> QED BY <1>7, <3>1, <3>2
  <2>5. CASE i \notin 1..Len(s) /\ j \in 1..Len(s)
    <3>1. u[i] \in ToSet(t) BY <1>5, <2>2, <2>5
    <3>2. u[j] \in ToSet(s) BY <1>3, <2>1, <2>5
    <3> QED BY <1>7, <3>1, <3>2
  <2>6. CASE i \notin 1..Len(s) /\ j \notin 1..Len(s)
    <3>1. i - Len(s) = j - Len(s) BY <1>5, <1>7, <2>6 DEF Distinct
    <3> QED BY <1>1, <3>1
  <2> QED BY <2>3, <2>4, <2>5, <2>6
<1> QED BY <1>1, <1>6, <1>7 DEF u

LEMMA TailFacts ==
  ASSUME NEW T, NEW s \in Seq(T), s # << >>
  PROVE  /\ Head(s) \in T /\ Head(s) = s[1] /\ Len(s) \in Nat \ {0}
         /\ Tail(s) \in Seq(T) /\ Len(Tail(s)) = Len(s) - 1
         /\ \A i \in 1..(Len(s) - 1) : Tail(s)[i] = s[i + 1]
  OBVIOUS

LEMMA ReverseFacts ==
  ASSUME NEW T, NEW s \in Seq(T)
  PROVE  /\ Reverse(s) \in Seq(T) /\ Len(Reverse(s)) = Len(s) /\ Len(s) \in Nat
         /\ \A i \in 1..Len(s) : Reverse(s)[i] = s[Len(s) + 1 - i]
<1>1. Len(s) \in Nat /\ \A i \in 1..Len(s) : s[i] \in T OBVIOUS
<1>2. \A i \in 1..Len(s) : (Len(s) - i) + 1 \in 1..Len(s) /\ (Len(s) - i) + 1 = Len(s) + 1 - i
  BY <1>1
<1>3. Reverse(s) = [i \in 1..Len(s) |-> s[(Len(s) - i) + 1]] BY DEF Reverse
<1>4. Reverse(s) \in [1..Len(s) -> T] BY <1>1, <1>2, <1>3
<1>5. Reverse(s) \in Seq(T) /\ Len(Reverse(s)) = Len(s) BY <1>1, <1>4
<1> QED BY <1>1, <1>2, <1>3, <1>5

(* A sequence whose elements differ has as many of them as it is long.      *)
LEMMA DistinctCount ==
  ASSUME NEW T, NEW s \in Seq(T), Distinct(s)
  PROVE  Len(s) = Cardinality(ToSet(s))
<1>1. Len(s) \in Nat /\ DOMAIN s = 1..Len(s) /\ s \in [1..Len(s) -> ToSet(s)]
  BY DEF ToSet
<1>2. s \in Bijection(1..Len(s), ToSet(s))
  BY <1>1 DEF Bijection, Injection, Surjection, IsInjective, Distinct, ToSet
<1>3. ExistsBijection(1..Len(s), ToSet(s)) BY <1>2 DEF ExistsBijection
<1> QED BY <1>1, <1>3, FS_CountingElements
-----------------------------------------------------------------------------
(* The load order and the manifests. *)

LEMMA OrderFacts ==
  /\ LoadOrder \in Seq(Plugins) /\ Len(LoadOrder) \in Nat /\ DOMAIN LoadOrder = 1..Len(LoadOrder)
  /\ \A i \in 1..Len(LoadOrder) : LoadOrder[i] \in Plugins
  /\ \A i, j \in 1..Len(LoadOrder) : LoadOrder[i] = LoadOrder[j] => i = j
  /\ \A p \in Plugins : \E i \in 1..Len(LoadOrder) : LoadOrder[i] = p
<1>1. LoadOrder \in Seq(Plugins) /\ \A i, j \in DOMAIN LoadOrder : LoadOrder[i] = LoadOrder[j] => i = j
  BY HostAssumption DEF HostAssumption
<1>2. Len(LoadOrder) \in Nat /\ DOMAIN LoadOrder = 1..Len(LoadOrder) BY <1>1
<1> QED BY <1>1, <1>2 DEF Plugins, ToSet

LEMMA CapsFacts ==
  ASSUME NEW p \in Plugins
  PROVE  /\ Caps[p] \in Seq(ToSet(Caps[p])) /\ ToSet(Caps[p]) \subseteq Declarations
         /\ Caps[p][1].prov \in Providers
         /\ \A i \in 1..Len(Caps[p]) : Caps[p][i] \in ToSet(Caps[p])
         /\ Declared(p) \subseteq ToSet(Caps[p])
         /\ \A q \in Plugins \ {p} : ToSet(Caps[p]) \cap ToSet(Caps[q]) = {}
<1>1. /\ Caps[p] \in Seq(ToSet(Caps[p])) /\ Caps[p] # << >>
      /\ \A q \in Plugins \ {p} : ToSet(Caps[p]) \cap ToSet(Caps[q]) = {}
  BY HostAssumption DEF HostAssumption
<1>2. ToSet(Caps[p]) \subseteq Declarations BY DEF Declarations
<1>3. Caps[p][1] \in ToSet(Caps[p]) BY <1>1
<1>4. \A i \in 1..Len(Caps[p]) : Caps[p][i] \in ToSet(Caps[p]) BY <1>1
<1> QED BY <1>1, <1>2, <1>3, <1>4 DEF Declared, Providers

LEMMA OwnedFacts ==
  ASSUME HostTypeOK, OwnedHolds
  PROVE  /\ Len(owned) \in Nat /\ DOMAIN owned = 1..Len(owned)
         /\ \A i \in 1..Len(owned) : owned[i] \in Plugins /\ owned[i] = LoadOrder[i]
                                     /\ i \in 1..Len(LoadOrder) /\ owned[i] \in ToSet(owned)
         /\ \A i, j \in 1..Len(owned) : owned[i] = owned[j] => i = j
         /\ \A p \in ToSet(owned) : p \in Plugins /\ \E i \in 1..Len(owned) : owned[i] = p
         /\ owned # << >> => Len(owned) \in 1..Len(owned) /\ Current \in Plugins /\ Current \in ToSet(owned)
<1>1. owned \in Seq(Plugins) /\ Len(owned) \in Nat /\ DOMAIN owned = 1..Len(owned)
  BY DEF HostTypeOK
<1>2. \A i \in 1..Len(owned) : owned[i] \in Plugins /\ owned[i] \in ToSet(owned)
  BY <1>1 DEF ToSet
<1>3. Len(owned) <= Len(LoadOrder) /\ Len(LoadOrder) \in Nat /\ \A i \in 1..Len(owned) : owned[i] = LoadOrder[i]
  BY OrderFacts DEF OwnedHolds
<1>4. \A i \in 1..Len(owned) : i \in 1..Len(LoadOrder) BY <1>1, <1>3
<1>5. \A i, j \in 1..Len(owned) : owned[i] = owned[j] => i = j BY <1>3, <1>4, OrderFacts
<1>6. \A p \in ToSet(owned) : p \in Plugins /\ \E i \in 1..Len(owned) : owned[i] = p
  BY <1>1, <1>2 DEF ToSet
<1>7. owned # << >> => Len(owned) \in 1..Len(owned) BY <1>1
<1> QED BY <1>1, <1>2, <1>3, <1>4, <1>5, <1>6, <1>7 DEF Current
-----------------------------------------------------------------------------
LEMMA InitHolds == HostInit => IInv
<1> SUFFICES ASSUME HostInit PROVE IInv OBVIOUS
<1>1. /\ phase = "wiring" /\ locked = TRUE /\ round = 1 /\ batch = NoBatch /\ regs = << >>
      /\ outcome = [p \in Plugins |-> "none"] /\ owned = << >>
      /\ ctx = [p \in Plugins |-> NoContext] /\ life = [p \in Plugins |-> Life("none", "none")]
      /\ todo = << >> /\ step = "idle"
  BY DEF HostInit
<1>2. Len(owned) = 0 /\ Len(regs) = 0 /\ Len(todo) = 0 /\ ToSet(regs) = {}
  BY <1>1, EmptySeq DEF ToSet
<1>3. NoContext \in Contexts /\ IsQuiet(NoContext) /\ NoContext.started = FALSE
  BY DEF NoContext, Contexts, IsQuiet
<1>4. Life("none", "none") \in Lives /\ Life("none", "none").phase = "none"
  BY DEF Life, Lives
<1>5. HostTypeOK
  <2>1. batch \in [prov : Providers, staged : Seq(Declarations),
                   state : {"none", "open", "rolled_back", "committed"}]
    BY <1>1, EmptySeq DEF NoBatch, Providers
  <2>2. regs \in Seq(Declarations) /\ owned \in Seq(Plugins) /\ todo \in Seq(Plugins)
    BY <1>1, EmptySeq
  <2>3. /\ outcome \in [Plugins -> {"none", "ok", "error"}]
        /\ ctx \in [Plugins -> Contexts] /\ life \in [Plugins -> Lives]
    BY <1>1, <1>3, <1>4
  <2> QED BY <1>1, <2>1, <2>2, <2>3 DEF HostTypeOK
<1>6. OwnedHolds BY <1>1, <1>2, OrderFacts DEF OwnedHolds
<1>7. BatchHolds BY <1>1 DEF BatchHolds, NoBatch
<1>8. RegsHold BY <1>1, <1>2 DEF RegsHold, Distinct
<1>9. ASSUME NEW p \in Plugins PROVE LifeHolds(p)
  BY <1>1, <1>3, <1>4 DEF LifeHolds
<1>10. StopHolds BY <1>1, <1>2, <1>3 DEF StopHolds, Stopping, Over
<1> QED BY <1>5, <1>6, <1>7, <1>8, <1>9, <1>10 DEF IInv

(* What the parts of the invariant are about; a step that leaves it alone   *)
(* leaves them alone.                                                      *)
LEMMA OwnedKept ==
  ASSUME OwnedHolds, UNCHANGED owned,
         phase' \in {"starting", "running"} =>
           phase \in {"starting", "running"} \/ Len(owned) = Len(LoadOrder)
  PROVE  OwnedHolds'
BY DEF OwnedHolds

LEMMA RegsKept ==
  ASSUME RegsHold, UNCHANGED <<regs, outcome, round>>, ToSet(owned) \subseteq ToSet(owned')
  PROVE  RegsHold'
BY DEF RegsHold, Declared

LEMMA BatchKept ==
  ASSUME BatchHolds, batch' = batch \/ batch'.state # "open",
         UNCHANGED <<outcome, owned>>, batch.state = "open" => phase' = phase
  PROVE  BatchHolds'
BY DEF BatchHolds, Current

(* A context that changes in a way that a stop does not undo. *)
LEMMA StopKept ==
  ASSUME StopHolds, UNCHANGED <<phase, locked, owned, todo, step>>,
         phase \in Stopping \cup Over =>
           \A c \in ToSet(owned) : (Stopped(ctx[c]) => Stopped(ctx'[c]))
                                   /\ (Draining(ctx[c]) => Draining(ctx'[c])),
         \A p \in Plugins \ ToSet(owned) : IsQuiet(ctx[p]) => IsQuiet(ctx'[p]),
         HostTypeOK, OwnedHolds
  PROVE  StopHolds'
<1>1. \A i \in 1..Len(owned) : owned[i] \in ToSet(owned) BY OwnedFacts
<1>2. ASSUME step = "gather" PROVE Head(todo) \in ToSet(owned)
  <2>1. /\ todo # << >> /\ todo \in Seq(Plugins) /\ Len(todo) <= Len(owned)
        /\ \A i \in 1..Len(todo) : todo[i] = owned[Len(todo) + 1 - i]
    BY <1>2 DEF StopHolds, HostTypeOK
  <2>2. Len(todo) \in Nat \ {0} /\ Head(todo) = todo[1] BY <2>1, TailFacts
  <2>3. Len(todo) + 1 - 1 = Len(todo) /\ 1 \in 1..Len(todo) BY <2>2
  <2>4. Head(todo) = owned[Len(todo)] BY <2>1, <2>2, <2>3
  <2> QED BY <1>1, <2>1, <2>2, <2>4, OwnedFacts
<1>3. (step = "gather" => todo # << >> /\ Draining(ctx[Head(todo)]))'
  BY <1>2 DEF StopHolds
<1>4. (phase \in Stopping \cup Over =>
         \A i \in (Len(todo) + 1)..Len(owned) : Stopped(ctx[owned[i]]))'
  <2> SUFFICES ASSUME phase \in Stopping \cup Over, NEW i \in (Len(todo) + 1)..Len(owned)
               PROVE  Stopped(ctx'[owned[i]])
    OBVIOUS
  <2>1. Stopped(ctx[owned[i]]) BY DEF StopHolds
  <2>2. i \in 1..Len(owned)
    <3>1. Len(todo) \in Nat /\ Len(owned) \in Nat BY DEF HostTypeOK
    <3> QED BY <3>1
  <2> QED BY <1>1, <2>1, <2>2
<1> QED BY <1>3, <1>4 DEF StopHolds

(* A stop begins with all contexts, the newest first. *)
LEMMA StopBegins ==
  ASSUME HostTypeOK, StopHolds, StopInReverse(owned), phase \notin Over, phase' \in Stopping,
         UNCHANGED <<locked, owned, ctx>>
  PROVE  StopHolds' /\ todo' \in Seq(Plugins) /\ step' \in {"idle", "gather"}
<1>1. todo' = Reverse(owned) /\ step' = "idle" /\ owned \in Seq(Plugins)
  BY DEF StopInReverse, HostTypeOK
<1>2. /\ todo' \in Seq(Plugins) /\ Len(todo') = Len(owned) /\ Len(owned) \in Nat
      /\ \A i \in 1..Len(todo') : todo'[i] = owned[Len(todo') + 1 - i]
  BY <1>1, ReverseFacts
<1>3. (Len(todo') + 1)..Len(owned) = {} BY <1>2
<1>4. locked BY DEF StopHolds, HostTypeOK
<1> QED BY <1>1, <1>2, <1>3, <1>4 DEF StopHolds
-----------------------------------------------------------------------------
(* One lemma per step: wiring. *)

LEMMA HostForStep ==
  ASSUME IInv, HostFor
  PROVE  IInv'
<1> DEFINE n == Len(owned) + 1
           p == LoadOrder[n]
<1>1. /\ phase = "wiring" /\ Len(owned) < Len(LoadOrder)
      /\ owned' = Append(owned, p) /\ batch' = NewBatch(Caps[p][1].prov)
      /\ ctx' = [ctx EXCEPT ![p] = NoContext]
      /\ UNCHANGED <<phase, locked, round, regs, outcome, life, todo, step>>
  BY DEF HostFor
<1>2. HostTypeOK /\ OwnedHolds /\ RegsHold /\ StopHolds /\ \A q \in Plugins : LifeHolds(q)
  BY DEF IInv
<1>3. owned \in Seq(Plugins) /\ Len(owned) \in Nat /\ n \in 1..Len(LoadOrder) /\ p \in Plugins
  BY <1>1, <1>2, OrderFacts, OwnedFacts DEF HostTypeOK
<1>4. p \notin ToSet(owned)
  <2>1. \A i \in 1..Len(owned) : i \in 1..Len(LoadOrder) /\ owned[i] = LoadOrder[i] /\ i # n
    BY <1>2, <1>3, OwnedFacts
  <2> QED BY <1>2, <1>3, <2>1, OrderFacts, OwnedFacts
<1> HIDE DEF p
<1>5. /\ owned' \in Seq(Plugins) /\ Len(owned') = n /\ owned' # << >>
      /\ \A i \in 1..Len(owned) : owned'[i] = owned[i]
      /\ owned'[n] = p /\ ToSet(owned') = ToSet(owned) \cup {p}
  BY <1>1, <1>3, AppendFacts
<1>6. /\ ctx' \in [Plugins -> Contexts] /\ ctx'[p] = NoContext
      /\ \A q \in Plugins \ {p} : ctx'[q] = ctx[q]
  <2>1. NoContext \in Contexts BY DEF NoContext, Contexts
  <2> QED BY <1>1, <1>2, <1>3, <2>1 DEF HostTypeOK
<1>7. /\ batch' \in [prov : Providers, staged : Seq(Declarations),
                     state : {"none", "open", "rolled_back", "committed"}]
      /\ batch'.staged = << >>
  BY <1>1, <1>3, CapsFacts, EmptySeq DEF NewBatch
<1>8. HostTypeOK' BY <1>1, <1>2, <1>5, <1>6, <1>7 DEF HostTypeOK
<1>9. OwnedHolds'
  <2>1. Len(owned') <= Len(LoadOrder) BY <1>3, <1>5, OrderFacts
  <2>2. ASSUME NEW i \in 1..Len(owned') PROVE owned'[i] = LoadOrder[i]
    <3>1. CASE i = n BY <1>5, <3>1 DEF p
    <3>2. CASE i # n
      <4>1. i \in 1..Len(owned) BY <1>3, <1>5, <3>2
      <4> QED BY <1>2, <1>5, <4>1 DEF OwnedHolds
    <3> QED BY <3>1, <3>2
  <2> QED BY <1>1, <2>1, <2>2 DEF OwnedHolds
<1>10. BatchHolds'
  <2>1. outcome[p] = "none" BY <1>2, <1>3, <1>4 DEF RegsHold
  <2>2. owned'[Len(owned')] = p BY <1>5
  <2>3. ToSet(batch'.staged) = {} /\ Distinct(batch'.staged)
    BY <1>7, EmptySeq DEF ToSet, Distinct
  <2> QED BY <1>1, <1>5, <2>1, <2>2, <2>3 DEF BatchHolds, Current
<1>11. RegsHold' BY <1>1, <1>2, <1>5, RegsKept
<1>12. ASSUME NEW q \in Plugins PROVE LifeHolds(q)'
  <2>1. CASE q = p
    <3>1. ctx'[q].started = FALSE BY <1>6, <2>1 DEF NoContext
    <3> QED BY <1>1, <1>2, <3>1 DEF LifeHolds
  <2>2. CASE q # p BY <1>1, <1>2, <1>5, <1>6, <2>2 DEF LifeHolds
  <2> QED BY <2>1, <2>2
<1>13. StopHolds'
  <2>1. todo = << >> /\ locked /\ step # "gather" /\ phase \notin Stopping \cup Over
    BY <1>1, <1>2 DEF StopHolds, Stopping, Over
  <2>2. Len(todo) = 0 BY <2>1, EmptySeq
  <2>3. \A q \in Plugins \ ToSet(owned') : IsQuiet(ctx'[q])
    BY <1>2, <1>5, <1>6 DEF StopHolds
  <2> QED BY <1>1, <1>3, <1>5, <2>1, <2>2, <2>3 DEF StopHolds
<1> QED BY <1>8, <1>9, <1>10, <1>11, <1>12, <1>13 DEF IInv
LEMMA AcquireStep ==
  ASSUME IInv, Acquire
  PROVE  IInv'
<1> DEFINE p == Current
           c == ctx[p]
<1>1. /\ phase = "wiring" /\ batch.state = "open"
      /\ \/ ctx' = [ctx EXCEPT ![p] = [c EXCEPT !.subscribed = TRUE]]
         \/ ctx' = [ctx EXCEPT ![p] = [c EXCEPT !.task = "pending"]]
         \/ ctx' = [ctx EXCEPT ![p] = [c EXCEPT !.cleanup = "due"]]
      /\ UNCHANGED <<phase, locked, round, batch, regs, outcome, owned, life, todo, step>>
  BY DEF Acquire, Loading, Take
<1>2. HostTypeOK /\ OwnedHolds /\ BatchHolds /\ RegsHold /\ StopHolds /\ \A q \in Plugins : LifeHolds(q)
  BY DEF IInv
<1>3. p \in Plugins /\ p \in ToSet(owned) BY <1>1, <1>2, OwnedFacts DEF BatchHolds
<1> HIDE DEF p
<1>4. /\ ctx' \in [Plugins -> Contexts] /\ ctx'[p].started = c.started
      /\ \A q \in Plugins \ {p} : ctx'[q] = ctx[q]
  <2>1. c \in Contexts BY <1>2, <1>3 DEF HostTypeOK
  <2>2. /\ [c EXCEPT !.subscribed = TRUE] \in Contexts /\ [c EXCEPT !.task = "pending"] \in Contexts
        /\ [c EXCEPT !.cleanup = "due"] \in Contexts
        /\ [c EXCEPT !.subscribed = TRUE].started = c.started
        /\ [c EXCEPT !.task = "pending"].started = c.started
        /\ [c EXCEPT !.cleanup = "due"].started = c.started
    BY <2>1 DEF Contexts
  <2>3. PICK d \in Contexts : ctx' = [ctx EXCEPT ![p] = d] /\ d.started = c.started
    BY <1>1, <2>2
  <2> HIDE DEF c
  <2> QED BY <1>2, <1>3, <2>3 DEF HostTypeOK
<1>5. HostTypeOK' BY <1>1, <1>2, <1>4 DEF HostTypeOK
<1>6. OwnedHolds' /\ BatchHolds' /\ RegsHold' BY <1>1, <1>2, OwnedKept, BatchKept, RegsKept
<1>7. ASSUME NEW q \in Plugins PROVE LifeHolds(q)'
  BY <1>1, <1>2, <1>4 DEF LifeHolds
<1>8. StopHolds'
  <2>1. phase \notin Stopping \cup Over BY <1>1 DEF Stopping, Over
  <2>2. \A q \in Plugins \ ToSet(owned) : ctx'[q] = ctx[q] BY <1>3, <1>4
  <2> QED BY <1>1, <1>2, <2>1, <2>2, StopKept
<1> QED BY <1>5, <1>6, <1>7, <1>8 DEF IInv

(* The registry refuses a slot the batch has already, so a registration is  *)
(* never in it twice.                                                      *)
LEMMA RegisterStep ==
  ASSUME IInv, Register
  PROVE  IInv'
<1> DEFINE i == Len(batch.staged) + 1
           d == Caps[Current][i]
<1>1. /\ phase = "wiring" /\ batch.state = "open"
      /\ i <= Len(Caps[Current]) /\ CanAdd(batch, d) /\ batch' = Add(batch, d)
      /\ UNCHANGED <<phase, locked, round, regs, outcome, owned, ctx, life, todo, step>>
  BY DEF Register, Loading
<1>2. HostTypeOK /\ OwnedHolds /\ BatchHolds /\ RegsHold /\ StopHolds /\ \A q \in Plugins : LifeHolds(q)
  BY DEF IInv
<1>3. Current \in Plugins /\ batch.staged \in Seq(Declarations) /\ Len(batch.staged) \in Nat
  BY <1>1, <1>2, OwnedFacts DEF BatchHolds, HostTypeOK
<1>4. d \in ToSet(Caps[Current]) /\ d \in Declarations
  <2>1. Len(Caps[Current]) \in Nat BY <1>3, CapsFacts
  <2>2. i \in 1..Len(Caps[Current]) BY <1>1, <1>3, <2>1
  <2> QED BY <1>3, <2>2, CapsFacts
<1> HIDE DEF d
<1>5. d \notin ToSet(batch.staged) BY <1>1, <1>3 DEF CanAdd, Staged, ToSet
<1>6. batch' = [batch EXCEPT !.staged = Append(@, d)] BY <1>1 DEF Add
<1>7. /\ batch'.staged = Append(batch.staged, d) /\ batch'.state = batch.state
      /\ batch' \in [prov : Providers, staged : Seq(Declarations),
                     state : {"none", "open", "rolled_back", "committed"}]
  BY <1>2, <1>3, <1>4, <1>6, AppendFacts DEF HostTypeOK
<1>8. HostTypeOK' BY <1>1, <1>2, <1>7 DEF HostTypeOK
<1>9. OwnedHolds' /\ RegsHold' BY <1>1, <1>2, OwnedKept, RegsKept
<1>10. BatchHolds'
  <2>1. ToSet(batch'.staged) = ToSet(batch.staged) \cup {d}
    BY <1>3, <1>4, <1>7, AppendFacts
  <2>2. Distinct(batch'.staged)
    BY <1>1, <1>2, <1>3, <1>4, <1>5, <1>7, AppendFacts DEF BatchHolds
  <2> QED BY <1>1, <1>2, <1>4, <2>1, <2>2 DEF BatchHolds, Current
<1>11. \A q \in Plugins : LifeHolds(q)' BY <1>1, <1>2 DEF LifeHolds
<1>12. StopHolds' BY <1>1, <1>2 DEF StopHolds
<1> QED BY <1>8, <1>9, <1>10, <1>11, <1>12 DEF IInv

(* finish() has found every declaration in the batch, and nothing of it is  *)
(* in the registry yet: its provider had no outcome.                       *)
LEMMA SetupReturnsStep ==
  ASSUME IInv, SetupReturns
  PROVE  IInv'
<1> DEFINE p == Current
<1>1. /\ phase = "wiring" /\ batch.state = "open" /\ Declared(p) \subseteq Staged(batch)
      /\ regs' = regs \o batch.staged /\ batch' = [batch EXCEPT !.state = "committed"]
      /\ outcome' = [outcome EXCEPT ![p] = "ok"]
      /\ UNCHANGED <<phase, locked, round, owned, ctx, life, todo, step>>
  BY DEF SetupReturns, Loading, Fulfilled, Absorb, Commit
<1>2. HostTypeOK /\ OwnedHolds /\ BatchHolds /\ RegsHold /\ StopHolds /\ \A q \in Plugins : LifeHolds(q)
  BY DEF IInv
<1>3. /\ p \in Plugins /\ p \in ToSet(owned) /\ outcome[p] = "none"
      /\ ToSet(batch.staged) \subseteq ToSet(Caps[p]) /\ Distinct(batch.staged)
  BY <1>1, <1>2, OwnedFacts DEF BatchHolds
<1> HIDE DEF p
<1>4. batch.staged \in Seq(Declarations) /\ regs \in Seq(Declarations) BY <1>2 DEF HostTypeOK
<1>5. Staged(batch) = ToSet(batch.staged) BY <1>4 DEF Staged, ToSet
<1>6. ToSet(regs) \cap ToSet(batch.staged) = {}
  <2> SUFFICES ASSUME NEW d \in ToSet(regs), d \in ToSet(batch.staged) PROVE FALSE OBVIOUS
  <2>1. PICK q \in Plugins : outcome[q] = "ok" /\ d \in ToSet(Caps[q]) BY <1>2 DEF RegsHold
  <2>2. d \in ToSet(Caps[p]) /\ q # p BY <1>3, <2>1
  <2> QED BY <1>3, <2>1, <2>2, CapsFacts
<1>7. /\ regs' \in Seq(Declarations) /\ ToSet(regs') = ToSet(regs) \cup ToSet(batch.staged)
      /\ Distinct(regs')
  BY <1>1, <1>2, <1>3, <1>4, <1>6, ConcatFacts DEF RegsHold
<1>8. /\ outcome' \in [Plugins -> {"none", "ok", "error"}] /\ outcome'[p] = "ok"
      /\ \A q \in Plugins \ {p} : outcome'[q] = outcome[q]
  BY <1>1, <1>2, <1>3 DEF HostTypeOK
<1>9. /\ batch' \in [prov : Providers, staged : Seq(Declarations),
                     state : {"none", "open", "rolled_back", "committed"}]
      /\ batch'.state = "committed"
  BY <1>1, <1>2 DEF HostTypeOK
<1>10. HostTypeOK' BY <1>1, <1>2, <1>7, <1>8, <1>9 DEF HostTypeOK
<1>11. OwnedHolds' /\ BatchHolds' BY <1>1, <1>2, <1>9, OwnedKept DEF BatchHolds
<1>12. RegsHold'
  <2>1. ASSUME NEW q \in Plugins, outcome'[q] = "ok" PROVE Declared(q) \subseteq ToSet(regs')
    <3>1. CASE q = p BY <1>1, <1>5, <1>7, <3>1
    <3>2. CASE q # p BY <1>2, <1>7, <1>8, <2>1, <3>2 DEF RegsHold
    <3> QED BY <3>1, <3>2
  <2>2. ASSUME NEW d \in ToSet(regs')
        PROVE  \E q \in Plugins : outcome'[q] = "ok" /\ d \in ToSet(Caps[q])
    <3>1. CASE d \in ToSet(regs)
      <4>1. PICK q \in Plugins : outcome[q] = "ok" /\ d \in ToSet(Caps[q])
        BY <1>2, <3>1 DEF RegsHold
      <4>2. outcome'[q] = "ok" BY <1>3, <1>8, <4>1
      <4> QED BY <4>1, <4>2
    <3>2. CASE d \in ToSet(batch.staged) BY <1>3, <1>8, <3>2
    <3> QED BY <1>7, <2>2, <3>1, <3>2
  <2>3. \A q \in Plugins : outcome'[q] # "none" => q \in ToSet(owned)
    BY <1>2, <1>3, <1>8 DEF RegsHold
  <2>4. \A q \in Plugins : Declared(q)' = Declared(q) BY <1>1 DEF Declared
  <2> QED BY <1>1, <1>7, <2>1, <2>2, <2>3, <2>4 DEF RegsHold
<1>13. ASSUME NEW q \in Plugins PROVE LifeHolds(q)'
  BY <1>1, <1>2, <1>8 DEF LifeHolds
<1>14. StopHolds' BY <1>1, <1>2 DEF StopHolds
<1> QED BY <1>10, <1>11, <1>12, <1>13, <1>14 DEF IInv

LEMMA SetupFailsStep ==
  ASSUME IInv, SetupFails
  PROVE  IInv'
<1> DEFINE p == Current
<1>1. /\ phase = "wiring" /\ batch.state = "open"
      /\ batch' = [batch EXCEPT !.staged = << >>, !.state = "rolled_back"]
      /\ outcome' = [outcome EXCEPT ![p] = "error"]
      /\ \/ phase' = "aborting" /\ StopInReverse(owned)
         \/ UNCHANGED <<phase, todo, step>>
      /\ UNCHANGED <<locked, round, regs, owned, ctx, life>>
  BY DEF SetupFails, Loading, Rollback
<1>2. HostTypeOK /\ OwnedHolds /\ BatchHolds /\ RegsHold /\ StopHolds /\ \A q \in Plugins : LifeHolds(q)
  BY DEF IInv
<1>3. p \in Plugins /\ p \in ToSet(owned) /\ outcome[p] = "none"
  BY <1>1, <1>2, OwnedFacts DEF BatchHolds
<1> HIDE DEF p
<1>4. /\ outcome' \in [Plugins -> {"none", "ok", "error"}] /\ outcome'[p] = "error"
      /\ \A q \in Plugins \ {p} : outcome'[q] = outcome[q]
  BY <1>1, <1>2, <1>3 DEF HostTypeOK
<1>5. /\ batch' \in [prov : Providers, staged : Seq(Declarations),
                     state : {"none", "open", "rolled_back", "committed"}]
      /\ batch'.state = "rolled_back"
  BY <1>1, <1>2, EmptySeq DEF HostTypeOK
<1>6. StopHolds' /\ todo' \in Seq(Plugins) /\ step' \in {"idle", "gather"}
  <2>1. CASE phase' = "aborting" /\ StopInReverse(owned)
    <3>1. phase \notin Over /\ phase' \in Stopping BY <1>1, <2>1 DEF Over, Stopping
    <3> QED BY <1>1, <1>2, <2>1, <3>1, StopBegins
  <2>2. CASE UNCHANGED <<phase, todo, step>>
    BY <1>1, <1>2, <2>2 DEF StopHolds, HostTypeOK
  <2> QED BY <1>1, <2>1, <2>2
<1>7. phase' \in {"wiring", "aborting"} BY <1>1
<1>8. HostTypeOK' BY <1>1, <1>2, <1>4, <1>5, <1>6, <1>7 DEF HostTypeOK, Stopping
<1>9. OwnedHolds' /\ BatchHolds' BY <1>1, <1>2, <1>5, <1>7, OwnedKept DEF BatchHolds
<1>10. RegsHold'
  <2>1. \A q \in Plugins : outcome'[q] = "ok" <=> outcome[q] = "ok" BY <1>3, <1>4
  <2>2. \A q \in Plugins : outcome'[q] # "none" => q \in ToSet(owned)
    BY <1>2, <1>3, <1>4 DEF RegsHold
  <2>3. \A q \in Plugins : Declared(q)' = Declared(q) BY <1>1 DEF Declared
  <2> QED BY <1>1, <1>2, <2>1, <2>2, <2>3 DEF RegsHold
<1>11. ASSUME NEW q \in Plugins PROVE LifeHolds(q)'
  <2>1. life[q].phase = "none" /\ ~ctx[q].started BY <1>1, <1>2 DEF LifeHolds, Building
  <2> QED BY <1>1, <2>1 DEF LifeHolds
<1> QED BY <1>6, <1>8, <1>9, <1>10, <1>11 DEF IInv

(* No CLI entry, or no complete set of capabilities: the contexts stop.     *)
LEMMA GiveUpStep ==
  ASSUME IInv, FallBack \/ Reject
  PROVE  IInv'
<1>1. /\ phase = "wiring" /\ batch.state # "open" /\ phase' \in {"falling_back", "aborting"}
      /\ StopInReverse(owned)
      /\ UNCHANGED <<locked, round, batch, regs, outcome, owned, ctx, life>>
  BY DEF FallBack, Reject, Wired
<1>2. HostTypeOK /\ OwnedHolds /\ BatchHolds /\ RegsHold /\ StopHolds /\ \A q \in Plugins : LifeHolds(q)
  BY DEF IInv
<1>3. phase \notin Over /\ phase' \in Stopping BY <1>1 DEF Over, Stopping
<1>4. StopHolds' /\ todo' \in Seq(Plugins) /\ step' \in {"idle", "gather"}
  BY <1>1, <1>2, <1>3, StopBegins
<1>5. HostTypeOK' BY <1>1, <1>2, <1>3, <1>4 DEF HostTypeOK
<1>6. OwnedHolds' /\ BatchHolds' /\ RegsHold' BY <1>1, <1>2, OwnedKept, BatchKept, RegsKept
<1>7. \A q \in Plugins : LifeHolds(q)' BY <1>1, <1>2 DEF LifeHolds, Building
<1> QED BY <1>4, <1>5, <1>6, <1>7 DEF IInv

LEMMA AssembleStep ==
  ASSUME IInv, Assemble
  PROVE  IInv'
<1>1. /\ phase = "wiring" /\ batch.state # "open" /\ Len(owned) = Len(LoadOrder) /\ phase' = "starting"
      /\ life' = [p \in Plugins |-> IF outcome[p] = "ok" THEN Life("loaded", "none")
                                                         ELSE Life("failed", "setup")]
      /\ UNCHANGED <<locked, round, batch, regs, outcome, owned, ctx, todo, step>>
  BY DEF Assemble, Wired
<1>2. HostTypeOK /\ OwnedHolds /\ BatchHolds /\ RegsHold /\ StopHolds /\ \A q \in Plugins : LifeHolds(q)
  BY DEF IInv
<1>3. /\ life' \in [Plugins -> Lives]
      /\ \A q \in Plugins : life'[q].phase = "loaded" => outcome[q] = "ok"
  <2>1. /\ Life("loaded", "none") \in Lives /\ Life("failed", "setup") \in Lives
        /\ Life("failed", "setup").phase = "failed"
    BY DEF Life, Lives
  <2> QED BY <1>1, <2>1
<1>4. HostTypeOK' BY <1>1, <1>2, <1>3 DEF HostTypeOK
<1>5. OwnedHolds' /\ BatchHolds' /\ RegsHold' BY <1>1, <1>2, OwnedKept, BatchKept, RegsKept
<1>6. \A q \in Plugins : LifeHolds(q)' BY <1>1, <1>2, <1>3 DEF LifeHolds, Building
<1>7. StopHolds'
  <2>1. todo = << >> /\ locked /\ phase' \notin Stopping \cup Over
    BY <1>1, <1>2 DEF StopHolds, Stopping, Over
  <2> QED BY <1>1, <1>2, <2>1 DEF StopHolds
<1> QED BY <1>4, <1>5, <1>6, <1>7 DEF IInv
-----------------------------------------------------------------------------
(* One lemma per step: the instance. *)

LEMMA ActivateStep ==
  ASSUME IInv, Activate
  PROVE  IInv'
<1>1. PICK i \in DOMAIN owned :
        /\ phase = "starting" /\ life[owned[i]].phase = "loaded"
        /\ ctx' = [ctx EXCEPT ![owned[i]].started = TRUE,
                              ![owned[i]].task = IF @ = "pending" THEN "running" ELSE @]
        /\ life' = [life EXCEPT ![owned[i]].phase = "started"]
        /\ UNCHANGED <<phase, locked, round, batch, regs, outcome, owned, todo, step>>
  BY DEF Activate, Startable, Loaded
<1>2. HostTypeOK /\ OwnedHolds /\ BatchHolds /\ RegsHold /\ StopHolds /\ \A q \in Plugins : LifeHolds(q)
  BY DEF IInv
<1> DEFINE p == owned[i]
           c == [ctx[p] EXCEPT !.started = TRUE,
                               !.task = IF @ = "pending" THEN "running" ELSE @]
           l == [life[p] EXCEPT !.phase = "started"]
<1>3. p \in Plugins /\ p \in ToSet(owned) BY <1>1, <1>2, OwnedFacts
<1>4. ctx[p] \in Contexts /\ life[p] \in Lives BY <1>2, <1>3 DEF HostTypeOK
<1>5. ctx' = [ctx EXCEPT ![p] = c] /\ life' = [life EXCEPT ![p] = l]
  BY <1>1, <1>2, <1>3 DEF HostTypeOK
<1>6. c \in Contexts /\ l \in Lives /\ l.phase = "started" BY <1>4 DEF Contexts, Lives
<1> HIDE DEF p, c, l
<1>7. /\ ctx' \in [Plugins -> Contexts] /\ life' \in [Plugins -> Lives]
      /\ ctx'[p] = c /\ life'[p] = l
      /\ \A q \in Plugins \ {p} : ctx'[q] = ctx[q] /\ life'[q] = life[q]
  BY <1>2, <1>3, <1>5, <1>6 DEF HostTypeOK
<1>8. HostTypeOK' BY <1>1, <1>2, <1>7 DEF HostTypeOK
<1>9. OwnedHolds' /\ BatchHolds' /\ RegsHold' BY <1>1, <1>2, OwnedKept, BatchKept, RegsKept
<1>10. ASSUME NEW q \in Plugins PROVE LifeHolds(q)'
  <2>1. phase' \notin Building BY <1>1 DEF Building
  <2>2. CASE q = p
    <3>1. outcome[p] = "ok" BY <1>1, <1>2, <1>3 DEF LifeHolds, p
    <3> QED BY <1>1, <1>3, <2>1, <2>2, <3>1 DEF LifeHolds
  <2>3. CASE q # p BY <1>1, <1>2, <1>7, <2>1, <2>3 DEF LifeHolds
  <2> QED BY <2>2, <2>3
<1>11. StopHolds'
  <2>1. phase \notin Stopping \cup Over BY <1>1 DEF Stopping, Over
  <2>2. \A q \in Plugins \ ToSet(owned) : ctx'[q] = ctx[q] BY <1>3, <1>7
  <2> QED BY <1>1, <1>2, <2>1, <2>2, StopKept
<1> QED BY <1>8, <1>9, <1>10, <1>11 DEF IInv

LEMMA ActivateFailsStep ==
  ASSUME IInv, ActivateFails
  PROVE  IInv'
<1>1. PICK i \in DOMAIN owned :
        /\ phase = "starting" /\ phase' = "stopping" /\ StopInReverse(owned)
        /\ life' = [life EXCEPT ![owned[i]] = Life("failed", "activate")]
        /\ UNCHANGED <<locked, round, batch, regs, outcome, owned, ctx>>
  BY DEF ActivateFails
<1>2. HostTypeOK /\ OwnedHolds /\ BatchHolds /\ RegsHold /\ StopHolds /\ \A q \in Plugins : LifeHolds(q)
  BY DEF IInv
<1>3. /\ life' \in [Plugins -> Lives]
      /\ \A q \in Plugins : life'[q].phase = "loaded" => life[q].phase = "loaded"
  <2>1. Life("failed", "activate") \in Lives /\ Life("failed", "activate").phase = "failed"
    BY DEF Life, Lives
  <2> QED BY <1>1, <1>2, <2>1 DEF HostTypeOK
<1>4. phase \notin Over /\ phase' \in Stopping /\ phase' \notin Building
  BY <1>1 DEF Over, Stopping, Building
<1>5. StopHolds' /\ todo' \in Seq(Plugins) /\ step' \in {"idle", "gather"}
  BY <1>1, <1>2, <1>4, StopBegins
<1>6. HostTypeOK' BY <1>1, <1>2, <1>3, <1>4, <1>5 DEF HostTypeOK
<1>7. OwnedHolds' /\ BatchHolds' /\ RegsHold'
  <2>1. batch.state # "open" BY <1>1, <1>2 DEF BatchHolds
  <2> QED BY <1>1, <1>2, <2>1, OwnedKept, BatchKept, RegsKept
<1>8. \A q \in Plugins : LifeHolds(q)' BY <1>1, <1>2, <1>3, <1>4 DEF LifeHolds
<1> QED BY <1>5, <1>6, <1>7, <1>8 DEF IInv

LEMMA ReadyStep ==
  ASSUME IInv, Ready
  PROVE  IInv'
<1>1. /\ phase = "starting" /\ phase' = "running"
      /\ UNCHANGED <<locked, round, batch, regs, outcome, owned, ctx, life, todo, step>>
  BY DEF Ready
<1>2. HostTypeOK /\ OwnedHolds /\ BatchHolds /\ RegsHold /\ StopHolds /\ \A q \in Plugins : LifeHolds(q)
  BY DEF IInv
<1>3. HostTypeOK' BY <1>1, <1>2 DEF HostTypeOK
<1>4. batch.state # "open" BY <1>1, <1>2 DEF BatchHolds
<1>5. OwnedHolds' /\ BatchHolds' /\ RegsHold' BY <1>1, <1>2, <1>4, OwnedKept, BatchKept, RegsKept
<1>6. \A q \in Plugins : LifeHolds(q)' BY <1>1, <1>2 DEF LifeHolds, Building
<1>7. StopHolds' BY <1>1, <1>2 DEF StopHolds, Stopping, Over
<1> QED BY <1>3, <1>5, <1>6, <1>7 DEF IInv

LEMMA StopStarts ==
  ASSUME IInv, Stop
  PROVE  IInv'
<1>1. /\ phase = "running" /\ phase' = "stopping" /\ StopInReverse(owned)
      /\ UNCHANGED <<locked, round, batch, regs, outcome, owned, ctx, life>>
  BY DEF Stop
<1>2. HostTypeOK /\ OwnedHolds /\ BatchHolds /\ RegsHold /\ StopHolds /\ \A q \in Plugins : LifeHolds(q)
  BY DEF IInv
<1>3. phase \notin Over /\ phase' \in Stopping /\ phase' \notin Building
  BY <1>1 DEF Over, Stopping, Building
<1>4. StopHolds' /\ todo' \in Seq(Plugins) /\ step' \in {"idle", "gather"}
  BY <1>1, <1>2, <1>3, StopBegins
<1>5. HostTypeOK' BY <1>1, <1>2, <1>3, <1>4 DEF HostTypeOK
<1>6. batch.state # "open" BY <1>1, <1>2 DEF BatchHolds
<1>7. OwnedHolds' /\ BatchHolds' /\ RegsHold' BY <1>1, <1>2, <1>6, OwnedKept, BatchKept, RegsKept
<1>8. \A q \in Plugins : LifeHolds(q)' BY <1>1, <1>2, <1>3 DEF LifeHolds
<1> QED BY <1>4, <1>5, <1>7, <1>8 DEF IInv

(* A handler or a task runs or ends: never a new one in a context whose     *)
(* stop has begun.                                                         *)
LEMMA WorkStep ==
  ASSUME IInv, NEW p \in Plugins, Work(p) \/ TaskEnds(p)
  PROVE  IInv'
<1>1. UNCHANGED <<phase, locked, round, batch, regs, outcome, owned, life, todo, step>>
  BY DEF Work, TaskEnds
<1>2. HostTypeOK /\ OwnedHolds /\ BatchHolds /\ RegsHold /\ StopHolds /\ \A q \in Plugins : LifeHolds(q)
  BY DEF IInv
<1> DEFINE c == ctx[p]
<1>3. c \in Contexts BY <1>2 DEF HostTypeOK
<1>4. ~c.started \/ p \in ToSet(owned) BY <1>2 DEF LifeHolds
<1>5. PICK d \in Contexts :
        /\ ctx' = [ctx EXCEPT ![p] = d] /\ d.started = c.started
        /\ Stopped(c) => Stopped(d)
        /\ Draining(c) => Draining(d)
        /\ p \notin ToSet(owned) /\ IsQuiet(c) => IsQuiet(d)
  <2>1. CASE c.subscribed /\ ctx' = [ctx EXCEPT ![p] = [c EXCEPT !.handler = "running"]]
    <3> DEFINE d == [c EXCEPT !.handler = "running"]
    <3>1. d \in Contexts /\ d.started = c.started BY <1>3 DEF Contexts
    <3>2. ~Stopped(c) /\ ~Draining(c) /\ ~IsQuiet(c) BY <2>1 DEF Stopped, Draining, IsQuiet
    <3>3. ctx' = [ctx EXCEPT ![p] = d] BY <2>1
    <3> HIDE DEF d
    <3> QED BY <3>1, <3>2, <3>3
  <2>2. CASE c.started /\ ~c.stopping /\ ctx' = [ctx EXCEPT ![p] = [c EXCEPT !.task = "running"]]
    <3> DEFINE d == [c EXCEPT !.task = "running"]
    <3>1. d \in Contexts /\ d.started = c.started BY <1>3 DEF Contexts
    <3>2. ~Stopped(c) /\ ~Draining(c) /\ p \in ToSet(owned) BY <1>4, <2>2 DEF Stopped, Draining
    <3>3. ctx' = [ctx EXCEPT ![p] = d] BY <2>2
    <3> HIDE DEF d
    <3> QED BY <3>1, <3>2, <3>3
  <2>3. CASE ctx' = [ctx EXCEPT ![p] = [c EXCEPT !.task = "done"]]
    <3> DEFINE d == [c EXCEPT !.task = "done"]
    <3>1. d \in Contexts /\ d.started = c.started BY <1>3 DEF Contexts
    <3>2. /\ d.stopping = c.stopping /\ d.subscribed = c.subscribed /\ d.task = "done"
          /\ d.handler = c.handler /\ d.cleanup = c.cleanup /\ d.stop = c.stop
      BY <1>3 DEF Contexts
    <3>3. ctx' = [ctx EXCEPT ![p] = d] BY <2>3
    <3> HIDE DEF d
    <3>4. (Draining(c) => Draining(d)) /\ (IsQuiet(c) => IsQuiet(d))
      BY <3>2 DEF Draining, IsQuiet
    <3> QED BY <3>1, <3>2, <3>3, <3>4 DEF Stopped
  <2>4. CASE ctx' = [ctx EXCEPT ![p] = [c EXCEPT !.handler = "done"]]
    <3> DEFINE d == [c EXCEPT !.handler = "done"]
    <3>1. d \in Contexts /\ d.started = c.started BY <1>3 DEF Contexts
    <3>2. /\ d.stopping = c.stopping /\ d.subscribed = c.subscribed /\ d.handler = "done"
          /\ d.task = c.task /\ d.cleanup = c.cleanup /\ d.stop = c.stop
      BY <1>3 DEF Contexts
    <3>3. ctx' = [ctx EXCEPT ![p] = d] BY <2>4
    <3> HIDE DEF d
    <3>4. (Draining(c) => Draining(d)) /\ (IsQuiet(c) => IsQuiet(d))
      BY <3>2 DEF Draining, IsQuiet
    <3> QED BY <3>1, <3>2, <3>3, <3>4 DEF Stopped
  <2>5. \/ c.subscribed /\ ctx' = [ctx EXCEPT ![p].handler = "running"]
        \/ c.started /\ ~c.stopping /\ ctx' = [ctx EXCEPT ![p].task = "running"]
        \/ ctx' = [ctx EXCEPT ![p].task = "done"]
        \/ ctx' = [ctx EXCEPT ![p].handler = "done"]
    BY DEF Work, TaskEnds
  <2> QED BY <2>1, <2>2, <2>3, <2>4, <2>5
<1>6. /\ ctx' \in [Plugins -> Contexts] /\ ctx'[p] = d
      /\ \A q \in Plugins \ {p} : ctx'[q] = ctx[q]
  BY <1>2, <1>5 DEF HostTypeOK
<1>7. HostTypeOK' BY <1>1, <1>2, <1>6 DEF HostTypeOK
<1>8. OwnedHolds' /\ BatchHolds' /\ RegsHold' BY <1>1, <1>2, OwnedKept, BatchKept, RegsKept
<1>9. ASSUME NEW q \in Plugins PROVE LifeHolds(q)'
  <2>1. ctx'[q].started = ctx[q].started BY <1>5, <1>6
  <2> QED BY <1>1, <1>2, <2>1 DEF LifeHolds
<1>10. StopHolds'
  <2>1. \A q \in ToSet(owned) : (Stopped(ctx[q]) => Stopped(ctx'[q]))
                                /\ (Draining(ctx[q]) => Draining(ctx'[q]))
    BY <1>2, <1>5, <1>6, OwnedFacts
  <2>2. \A q \in Plugins \ ToSet(owned) : IsQuiet(ctx[q]) => IsQuiet(ctx'[q])
    BY <1>5, <1>6
  <2> QED BY <1>1, <1>2, <2>1, <2>2, StopKept
<1> QED BY <1>7, <1>8, <1>9, <1>10 DEF IInv
-----------------------------------------------------------------------------
(* One lemma per step: the stop. *)

(* The next to be stopped is the newest context still there.                *)
LEMMA NextToStop ==
  ASSUME HostTypeOK, OwnedHolds, StopHolds, todo # << >>
  PROVE  /\ Len(todo) \in 1..Len(owned) /\ Head(todo) = owned[Len(todo)]
         /\ Head(todo) \in Plugins /\ Head(todo) \in ToSet(owned)
         /\ \A i \in 1..Len(owned) : i # Len(todo) => owned[i] # Head(todo)
         /\ Tail(todo) \in Seq(Plugins) /\ Len(Tail(todo)) = Len(todo) - 1
         /\ \A i \in 1..(Len(todo) - 1) : Tail(todo)[i] = owned[Len(todo) - i]
<1>1. /\ todo \in Seq(Plugins) /\ Len(todo) <= Len(owned) /\ Len(owned) \in Nat
      /\ \A i \in 1..Len(todo) : todo[i] = owned[Len(todo) + 1 - i]
  BY DEF StopHolds, HostTypeOK
<1>2. /\ Len(todo) \in Nat \ {0} /\ Head(todo) = todo[1]
      /\ Tail(todo) \in Seq(Plugins) /\ Len(Tail(todo)) = Len(todo) - 1
      /\ \A i \in 1..(Len(todo) - 1) : Tail(todo)[i] = todo[i + 1]
  BY <1>1, TailFacts
<1>3. Len(todo) \in 1..Len(owned) /\ 1 \in 1..Len(todo) /\ Len(todo) + 1 - 1 = Len(todo)
  BY <1>1, <1>2
<1>4. Head(todo) = owned[Len(todo)] BY <1>1, <1>2, <1>3
<1>5. ASSUME NEW i \in 1..(Len(todo) - 1) PROVE Tail(todo)[i] = owned[Len(todo) - i]
  <2>1. \A n \in Nat : i \in 1..(n - 1) => i + 1 \in 1..n /\ n + 1 - (i + 1) = n - i OBVIOUS
  <2>2. Len(todo) \in Nat BY <1>2
  <2>3. i + 1 \in 1..Len(todo) /\ Len(todo) + 1 - (i + 1) = Len(todo) - i BY <2>1, <2>2
  <2> QED BY <1>1, <1>2, <2>3
<1>6. /\ Head(todo) \in Plugins /\ Head(todo) \in ToSet(owned)
      /\ \A i \in 1..Len(owned) : i # Len(todo) => owned[i] # Head(todo)
  BY <1>3, <1>4, OwnedFacts
<1> QED BY <1>2, <1>3, <1>4, <1>5, <1>6

LEMMA BeginShutdownStep ==
  ASSUME IInv, BeginShutdown
  PROVE  IInv'
<1> DEFINE p == Head(todo)
           c == [ctx[p] EXCEPT !.stopping = TRUE, !.subscribed = FALSE,
                               !.task = Cancelled(@), !.handler = Cancelled(@)]
           l == [life[p] EXCEPT !.phase = IF @ = "none" THEN @ ELSE "stopping"]
<1>1. /\ todo # << >> /\ step = "idle" /\ step' = "gather"
      /\ ctx' = [ctx EXCEPT ![p].stopping = TRUE, ![p].subscribed = FALSE,
                            ![p].task = Cancelled(@), ![p].handler = Cancelled(@)]
      /\ life' = [life EXCEPT ![p].phase = IF @ = "none" THEN @ ELSE "stopping"]
      /\ UNCHANGED <<phase, locked, round, batch, regs, outcome, owned, todo>>
  BY DEF BeginShutdown
<1>2. HostTypeOK /\ OwnedHolds /\ BatchHolds /\ RegsHold /\ StopHolds /\ \A q \in Plugins : LifeHolds(q)
  BY DEF IInv
<1>3. /\ p \in Plugins /\ p \in ToSet(owned)
      /\ \A i \in 1..Len(owned) : i # Len(todo) => owned[i] # p
  BY <1>1, <1>2, NextToStop
<1>4. ctx[p] \in Contexts /\ life[p] \in Lives BY <1>2, <1>3 DEF HostTypeOK
<1>5. ctx' = [ctx EXCEPT ![p] = c] /\ life' = [life EXCEPT ![p] = l]
  BY <1>1, <1>2, <1>3 DEF HostTypeOK
<1>6. /\ c \in Contexts /\ c.started = ctx[p].started /\ Draining(c)
      /\ l \in Lives /\ l.phase # "loaded" /\ (life[p].phase = "none" => l.phase = "none")
  <2>1. /\ c.started = ctx[p].started /\ c.stopping = TRUE /\ c.subscribed = FALSE
        /\ c.task = Cancelled(ctx[p].task) /\ c.handler = Cancelled(ctx[p].handler)
    BY <1>4 DEF Contexts
  <2>2. /\ Cancelled(ctx[p].task) \in {"none", "cancelled", "done"}
        /\ Cancelled(ctx[p].handler) \in {"none", "cancelled", "done"}
    BY <1>4 DEF Contexts, Cancelled
  <2>3. c \in Contexts BY <1>4, <2>2 DEF Contexts
  <2>4. l \in Lives /\ l.phase # "loaded" /\ (life[p].phase = "none" => l.phase = "none")
    BY <1>4 DEF Lives
  <2> QED BY <2>1, <2>2, <2>3, <2>4 DEF Draining
<1> HIDE DEF c, l, p
<1>7. /\ ctx' \in [Plugins -> Contexts] /\ life' \in [Plugins -> Lives]
      /\ ctx'[p] = c /\ life'[p] = l
      /\ \A q \in Plugins \ {p} : ctx'[q] = ctx[q] /\ life'[q] = life[q]
  BY <1>2, <1>3, <1>5, <1>6 DEF HostTypeOK
<1>8. HostTypeOK' BY <1>1, <1>2, <1>7 DEF HostTypeOK
<1>9. OwnedHolds' /\ BatchHolds' /\ RegsHold' BY <1>1, <1>2, OwnedKept, BatchKept, RegsKept
<1>10. ASSUME NEW q \in Plugins PROVE LifeHolds(q)'
  <2>1. CASE q = p BY <1>1, <1>2, <1>3, <1>6, <1>7, <2>1 DEF LifeHolds
  <2>2. CASE q # p BY <1>1, <1>2, <1>7, <2>2 DEF LifeHolds
  <2> QED BY <2>1, <2>2
<1>11. StopHolds'
  <2>1. phase \in Stopping BY <1>1, <1>2 DEF StopHolds
  <2>2. Draining(ctx'[Head(todo)]) BY <1>6, <1>7 DEF p
  <2>3. ASSUME NEW i \in (Len(todo) + 1)..Len(owned) PROVE Stopped(ctx'[owned[i]])
    <3>1. Stopped(ctx[owned[i]]) BY <1>2, <2>1 DEF StopHolds
    <3>2. Len(todo) \in Nat /\ Len(owned) \in Nat BY <1>2 DEF HostTypeOK
    <3>3. i \in 1..Len(owned) /\ i # Len(todo) BY <3>2
    <3>4. owned[i] \in Plugins \ {p} BY <1>2, <1>3, <3>3, OwnedFacts
    <3> QED BY <1>7, <3>1, <3>4
  <2>4. \A q \in Plugins \ ToSet(owned) : IsQuiet(ctx'[q])
    BY <1>2, <1>3, <1>7 DEF StopHolds
  <2> QED BY <1>1, <1>2, <2>2, <2>3, <2>4 DEF StopHolds
<1> QED BY <1>8, <1>9, <1>10, <1>11 DEF IInv

(* However the stop of one ends, it leaves a quiet context behind.          *)
LEMMA EndShutdownStep ==
  ASSUME IInv, step = "gather", NEW result \in {"ok", "error", "timeout"},
         NEW lifePhase \in {"stopped", "failed"}, EndShutdown(result, lifePhase),
         result # "timeout" => Gathered(Head(todo))
  PROVE  IInv'
<1> DEFINE p == Head(todo)
           c == [ctx[p] EXCEPT !.stop = result,
                     !.cleanup = IF @ = "due" /\ result # "timeout" THEN "done" ELSE @]
           l == IF life[p].phase = "none" THEN life[p]
                ELSE IF result = "ok" THEN Life(lifePhase, life[p].cause)
                ELSE Life(lifePhase, result)
<1>1. /\ ctx' = [ctx EXCEPT ![p].stop = result,
                     ![p].cleanup = IF @ = "due" /\ result # "timeout" THEN "done" ELSE @]
      /\ life' = [life EXCEPT ![p] = IF @.phase = "none" THEN @
                                     ELSE IF result = "ok" THEN Life(lifePhase, @.cause)
                                     ELSE Life(lifePhase, result)]
      /\ todo' = Tail(todo) /\ step' = "idle"
      /\ UNCHANGED <<phase, locked, round, batch, regs, outcome, owned>>
  BY DEF EndShutdown
<1>2. HostTypeOK /\ OwnedHolds /\ BatchHolds /\ RegsHold /\ StopHolds /\ \A q \in Plugins : LifeHolds(q)
  BY DEF IInv
<1>3. todo # << >> /\ Draining(ctx[p]) BY <1>2 DEF StopHolds
<1>4. /\ Len(todo) \in 1..Len(owned) /\ p = owned[Len(todo)]
      /\ p \in Plugins /\ p \in ToSet(owned)
      /\ \A i \in 1..Len(owned) : i # Len(todo) => owned[i] # p
      /\ Tail(todo) \in Seq(Plugins) /\ Len(Tail(todo)) = Len(todo) - 1
      /\ \A i \in 1..(Len(todo) - 1) : Tail(todo)[i] = owned[Len(todo) - i]
  BY <1>2, <1>3, NextToStop
<1>5. ctx[p] \in Contexts /\ life[p] \in Lives BY <1>2, <1>4 DEF HostTypeOK
<1>6. ctx' = [ctx EXCEPT ![p] = c] /\ life' = [life EXCEPT ![p] = l]
  BY <1>1, <1>2, <1>4 DEF HostTypeOK
<1>7. /\ c \in Contexts /\ c.started = ctx[p].started /\ Stopped(c)
  <2>1. /\ c.started = ctx[p].started /\ c.stopping = ctx[p].stopping
        /\ c.subscribed = ctx[p].subscribed
        /\ c.task = ctx[p].task /\ c.handler = ctx[p].handler /\ c.stop = result
        /\ c.cleanup = IF ctx[p].cleanup = "due" /\ result # "timeout" THEN "done"
                                                                      ELSE ctx[p].cleanup
    BY <1>5 DEF Contexts
  <2>2. c \in Contexts BY <1>5 DEF Contexts
  <2>3. IsQuiet(c)
    <3>1. CASE result = "timeout" BY <1>3, <2>1, <3>1 DEF Draining, IsQuiet
    <3>2. CASE result # "timeout"
      <4>1. ctx[p].task # "cancelled" /\ ctx[p].handler # "cancelled" BY <3>2 DEF Gathered
      <4>2. c.cleanup # "due" BY <2>1, <3>2
      <4> QED BY <1>3, <2>1, <4>1, <4>2 DEF Draining, IsQuiet
    <3> QED BY <3>1, <3>2
  <2> HIDE DEF c
  <2> QED BY <1>3, <2>1, <2>2, <2>3 DEF Draining, Stopped
<1>8. l \in Lives /\ l.phase # "loaded" /\ (life[p].phase = "none" => l.phase = "none")
  <2>1. life[p].cause \in {"none", "setup", "activate", "error", "timeout"}
    BY <1>5 DEF Lives
  <2>2. CASE life[p].phase = "none" BY <1>5, <2>2
  <2>3. CASE life[p].phase # "none"
    BY <2>1, <2>3 DEF Life, Lives
  <2> QED BY <2>2, <2>3
<1> HIDE DEF c, l, p
<1>9. /\ ctx' \in [Plugins -> Contexts] /\ life' \in [Plugins -> Lives]
      /\ ctx'[p] = c /\ life'[p] = l
      /\ \A q \in Plugins \ {p} : ctx'[q] = ctx[q] /\ life'[q] = life[q]
  <2>1. ctx \in [Plugins -> Contexts] /\ life \in [Plugins -> Lives] BY <1>2 DEF HostTypeOK
  <2>2. /\ ctx' \in [Plugins -> Contexts] /\ ctx'[p] = c
        /\ \A q \in Plugins \ {p} : ctx'[q] = ctx[q]
    BY <1>4, <1>6, <1>7, <2>1
  <2>3. /\ life' \in [Plugins -> Lives] /\ life'[p] = l
        /\ \A q \in Plugins \ {p} : life'[q] = life[q]
    BY <1>4, <1>6, <1>8, <2>1
  <2> QED BY <2>2, <2>3
<1>10. HostTypeOK' BY <1>1, <1>2, <1>4, <1>9 DEF HostTypeOK
<1>11. OwnedHolds' /\ BatchHolds' /\ RegsHold' BY <1>1, <1>2, OwnedKept, BatchKept, RegsKept
<1>12. ASSUME NEW q \in Plugins PROVE LifeHolds(q)'
  <2>1. CASE q = p BY <1>1, <1>2, <1>4, <1>7, <1>8, <1>9, <2>1 DEF LifeHolds
  <2>2. CASE q # p BY <1>1, <1>2, <1>9, <2>2 DEF LifeHolds
  <2> QED BY <2>1, <2>2
<1>13. StopHolds'
  <2>1. phase \in Stopping BY <1>2, <1>3 DEF StopHolds
  <2>2. Len(todo') = Len(todo) - 1 /\ Len(todo) \in Nat /\ Len(owned) \in Nat
    BY <1>1, <1>2, <1>4 DEF HostTypeOK
  <2>3. \A k, n, m \in Nat : n = k - 1 =>
          \A j \in (n + 1)..m : j # k => j \in (k + 1)..m /\ j \in 1..m
    OBVIOUS
  <2>4. ASSUME NEW i \in (Len(todo') + 1)..Len(owned) PROVE Stopped(ctx'[owned[i]])
    <3>1. CASE i = Len(todo) BY <1>4, <1>7, <1>9, <3>1
    <3>2. CASE i # Len(todo)
      <4>1. i \in (Len(todo) + 1)..Len(owned) /\ i \in 1..Len(owned) BY <2>2, <2>3, <3>2
      <4>2. Stopped(ctx[owned[i]]) BY <1>2, <2>1, <4>1 DEF StopHolds
      <4>3. owned[i] \in Plugins \ {p} BY <1>2, <1>4, <3>2, <4>1, OwnedFacts
      <4> QED BY <1>9, <4>2, <4>3
    <3> QED BY <3>1, <3>2
  <2>5. ASSUME NEW i \in 1..Len(todo') PROVE todo'[i] = owned[Len(todo') + 1 - i]
    <3>1. i \in 1..(Len(todo) - 1) /\ Len(todo') + 1 - i = Len(todo) - i BY <2>2
    <3> QED BY <1>1, <1>4, <3>1
  <2>6. Len(todo') <= Len(owned)
    <3>1. Len(todo) <= Len(owned) BY <1>2 DEF StopHolds
    <3> QED BY <2>2, <3>1
  <2>7. \A q \in Plugins \ ToSet(owned) : IsQuiet(ctx'[q])
    BY <1>2, <1>4, <1>9 DEF StopHolds
  <2>8. locked' \/ phase' \in Over BY <1>1, <1>2 DEF StopHolds
  <2> QED BY <1>1, <2>1, <2>4, <2>5, <2>6, <2>7, <2>8 DEF StopHolds
<1> QED BY <1>10, <1>11, <1>12, <1>13 DEF IInv

LEMMA ReleasedStep ==
  ASSUME IInv, Released
  PROVE  IInv'
<1>1. /\ todo = << >> /\ phase \in Stopping /\ phase' \in Over /\ locked' = FALSE
      /\ UNCHANGED <<round, batch, regs, outcome, owned, ctx, life, todo, step>>
  BY DEF Released, Stopping, Over
<1>2. HostTypeOK /\ OwnedHolds /\ BatchHolds /\ RegsHold /\ StopHolds /\ \A q \in Plugins : LifeHolds(q)
  BY DEF IInv
<1>3. batch.state # "open" /\ phase' \notin Building \cup {"starting", "running"}
  BY <1>1, <1>2 DEF BatchHolds, Stopping, Over, Building
<1>4. HostTypeOK' BY <1>1, <1>2 DEF HostTypeOK
<1>5. OwnedHolds' /\ BatchHolds' /\ RegsHold' BY <1>1, <1>2, <1>3, OwnedKept, BatchKept, RegsKept
<1>6. \A q \in Plugins : LifeHolds(q)' BY <1>1, <1>2, <1>3 DEF LifeHolds
<1>7. StopHolds' BY <1>1, <1>2 DEF StopHolds
<1> QED BY <1>4, <1>5, <1>6, <1>7 DEF IInv

(* The second round begins with the contexts of the first all stopped.      *)
LEMMA WireAgainStep ==
  ASSUME IInv, WireAgain
  PROVE  IInv'
<1>1. /\ phase = "falling_back" /\ todo = << >> /\ phase' = "wiring" /\ round' = 2
      /\ batch' = NoBatch /\ regs' = << >> /\ owned' = << >>
      /\ outcome' = [p \in Plugins |-> "none"]
      /\ UNCHANGED <<locked, ctx, life, todo, step>>
  BY DEF WireAgain
<1>2. HostTypeOK /\ OwnedHolds /\ BatchHolds /\ RegsHold /\ StopHolds /\ \A q \in Plugins : LifeHolds(q)
  BY DEF IInv
<1>3. Len(owned') = 0 /\ Len(regs') = 0 /\ Len(todo) = 0 /\ ToSet(regs') = {} /\ ToSet(owned') = {}
  BY <1>1, EmptySeq DEF ToSet
<1>4. batch' \in [prov : Providers, staged : Seq(Declarations),
                  state : {"none", "open", "rolled_back", "committed"}]
      /\ batch'.state = "none"
  BY <1>1, EmptySeq DEF NoBatch, Providers
<1>5. /\ outcome' \in [Plugins -> {"none", "ok", "error"}]
      /\ \A q \in Plugins : outcome'[q] = "none"
  BY <1>1
<1>6. regs' \in Seq(Declarations) /\ owned' \in Seq(Plugins) BY <1>1, EmptySeq
<1>7. HostTypeOK' BY <1>1, <1>2, <1>4, <1>5, <1>6 DEF HostTypeOK
<1>8. OwnedHolds' BY <1>1, <1>3, OrderFacts DEF OwnedHolds
<1>9. BatchHolds' BY <1>4 DEF BatchHolds
<1>10. RegsHold' BY <1>3, <1>5 DEF RegsHold, Distinct
<1>11. \A q \in Plugins : LifeHolds(q)' BY <1>1, <1>2 DEF LifeHolds, Building
<1>12. StopHolds'
  <2>1. ASSUME NEW q \in Plugins PROVE IsQuiet(ctx[q])
    <3>1. CASE q \in ToSet(owned)
      <4>1. PICK i \in 1..Len(owned) : owned[i] = q BY <1>2, <3>1, OwnedFacts
      <4>2. i \in (Len(todo) + 1)..Len(owned) BY <1>3
      <4> QED BY <1>1, <1>2, <4>1, <4>2 DEF StopHolds, Stopping, Stopped
    <3>2. CASE q \notin ToSet(owned) BY <1>2, <3>2 DEF StopHolds
    <3> QED BY <3>1, <3>2
  <2>2. step # "gather" /\ locked BY <1>1, <1>2 DEF StopHolds, Over
  <2> QED BY <1>1, <1>3, <2>1, <2>2 DEF StopHolds, Stopping, Over
<1> QED BY <1>7, <1>8, <1>9, <1>10, <1>11, <1>12 DEF IInv
-----------------------------------------------------------------------------
LEMMA StepKeeps == IInv /\ [HostNext]_hostVars => IInv'
<1> SUFFICES ASSUME IInv, [HostNext]_hostVars PROVE IInv' OBVIOUS
<1>1. CASE HostFor BY <1>1, HostForStep
<1>2. CASE Acquire BY <1>2, AcquireStep
<1>3. CASE Register BY <1>3, RegisterStep
<1>4. CASE SetupReturns BY <1>4, SetupReturnsStep
<1>5. CASE SetupFails BY <1>5, SetupFailsStep
<1>6. CASE FallBack \/ Reject BY <1>6, GiveUpStep
<1>7. CASE Assemble BY <1>7, AssembleStep
<1>8. CASE Activate BY <1>8, ActivateStep
<1>9. CASE ActivateFails BY <1>9, ActivateFailsStep
<1>10. CASE Ready BY <1>10, ReadyStep
<1>11. CASE Stop BY <1>11, StopStarts
<1>12. ASSUME NEW p \in Plugins, Work(p) \/ TaskEnds(p) PROVE IInv' BY <1>12, WorkStep
<1>13. CASE BeginShutdown BY <1>13, BeginShutdownStep
<1>14. CASE ShutdownEnds BY <1>14, EndShutdownStep DEF ShutdownEnds
<1>15. CASE CleanupFails BY <1>15, EndShutdownStep DEF CleanupFails
<1>16. CASE StopTimesOut BY <1>16, EndShutdownStep DEF StopTimesOut
<1>17. CASE Released BY <1>17, ReleasedStep
<1>18. CASE WireAgain BY <1>18, WireAgainStep
<1>19. CASE UNCHANGED hostVars
  <2>1. HostTypeOK' /\ OwnedHolds' /\ BatchHolds' /\ RegsHold'
    BY <1>19 DEF IInv, hostVars, HostTypeOK, OwnedHolds, BatchHolds, Current, RegsHold, Declared
  <2>2. \A p \in Plugins : LifeHolds(p)' BY <1>19 DEF IInv, hostVars, LifeHolds
  <2>3. StopHolds' BY <1>19 DEF IInv, hostVars, StopHolds
  <2> QED BY <2>1, <2>2, <2>3 DEF IInv
<1> QED BY <1>1, <1>2, <1>3, <1>4, <1>5, <1>6, <1>7, <1>8, <1>9, <1>10, <1>11, <1>12, <1>13,
           <1>14, <1>15, <1>16, <1>17, <1>18, <1>19 DEF HostNext, StopStep

(* The host keeps its inductive invariant: contexts are made in load order, *)
(* batches are whole, and a stop works its way back through the contexts.   *)
THEOREM InductiveInvariant == HostSpec => []IInv
BY InitHolds, StepKeeps, PTL DEF HostSpec

(* Every variable of the host keeps its type.                               *)
THEOREM TypeCorrect == HostSpec => []HostTypeOK
<1>1. IInv => HostTypeOK BY DEF IInv
<1> QED BY <1>1, InductiveInvariant, PTL

LEMMA AllOrNothingHolds == IInv => AllOrNothing
<1> SUFFICES ASSUME IInv PROVE AllOrNothing OBVIOUS
<1>1. HostTypeOK /\ RegsHold /\ \A p \in Plugins : LifeHolds(p) BY DEF IInv
<1>2. ASSUME NEW p \in Plugins
      PROVE  Declared(p) \cap ToSet(regs) = IF outcome[p] = "ok" THEN Declared(p) ELSE {}
  <2>1. CASE outcome[p] = "ok" BY <1>1, <2>1 DEF RegsHold
  <2>2. CASE outcome[p] # "ok"
    <3>1. ASSUME NEW d \in Declared(p), d \in ToSet(regs) PROVE FALSE
      <4>1. PICK q \in Plugins : outcome[q] = "ok" /\ d \in ToSet(Caps[q])
        BY <1>1, <3>1 DEF RegsHold
      <4>2. d \in ToSet(Caps[p]) /\ q # p BY <2>2, <4>1, CapsFacts
      <4> QED BY <4>1, <4>2, CapsFacts
    <3> QED BY <2>2, <3>1
  <2> QED BY <2>1, <2>2
<1>3. Len(regs) = Cardinality(ToSet(regs)) BY <1>1, DistinctCount DEF HostTypeOK, RegsHold
<1>4. \A p \in Plugins : ctx[p].started => outcome[p] = "ok" BY <1>1 DEF LifeHolds
<1> QED BY <1>2, <1>3, <1>4 DEF AllOrNothing

LEMMA NothingOutlives == IInv => NothingOutlivesTheLock
<1> SUFFICES ASSUME IInv, ~locked
             PROVE  /\ \A i \in DOMAIN owned : ctx[owned[i]].stopping /\ ctx[owned[i]].stop # "none"
                    /\ \A p \in Plugins : IsQuiet(ctx[p])
  BY DEF NothingOutlivesTheLock
<1>1. HostTypeOK /\ OwnedHolds /\ StopHolds BY DEF IInv
<1>2. phase \in Over /\ todo = << >> BY <1>1 DEF StopHolds, Over, Stopping
<1>3. Len(todo) = 0 BY <1>2, EmptySeq
<1>4. \A i \in 1..Len(owned) : Stopped(ctx[owned[i]]) BY <1>1, <1>2, <1>3 DEF StopHolds
<1>5. ASSUME NEW p \in Plugins PROVE IsQuiet(ctx[p])
  <2>1. CASE p \in ToSet(owned) BY <1>1, <1>4, <2>1, OwnedFacts DEF Stopped
  <2>2. CASE p \notin ToSet(owned) BY <1>1, <2>2 DEF StopHolds
  <2> QED BY <2>1, <2>2
<1> QED BY <1>1, <1>4, <1>5, OwnedFacts DEF Stopped

(* A provider is in the registry with all that it declared or with nothing  *)
(* (EDG-103), and when the lock is released none of them has anything       *)
(* running, subscribed or undone but what a reported timeout accounts for.  *)
THEOREM PluginsStayWhole == HostSpec => []PluginsAllOrNothing
<1>1. IInv => PluginsAllOrNothing
  BY AllOrNothingHolds, NothingOutlives DEF PluginsAllOrNothing
<1> QED BY <1>1, InductiveInvariant, PTL
-----------------------------------------------------------------------------
(* The order of starts and stops. *)

Marks(p) == (ctx'[p].started => ctx[p].started) /\ (ctx'[p].stopping => ctx[p].stopping)

(* Only an activation starts a context, only a shutdown marks it.           *)
LEMMA OtherStepsMark ==
  ASSUME HostTypeOK, [HostNext]_hostVars, ~Activate, ~BeginShutdown, NEW p \in Plugins
  PROVE  Marks(p)
<1>1. ctx \in [Plugins -> Contexts] /\ ctx[p] \in Contexts BY DEF HostTypeOK
<1>2. CASE UNCHANGED ctx BY <1>2 DEF Marks
<1>3. ASSUME NEW q, ctx' = [ctx EXCEPT ![q] = NoContext] PROVE Marks(p)
  BY <1>1, <1>3 DEF Marks, NoContext
<1>4. CASE HostFor BY <1>3, <1>4 DEF HostFor
<1>5. ASSUME NEW q \in Plugins, NEW v, NEW w,
             \/ ctx' = [ctx EXCEPT ![q].subscribed = v] \/ ctx' = [ctx EXCEPT ![q].task = v]
             \/ ctx' = [ctx EXCEPT ![q].cleanup = v] \/ ctx' = [ctx EXCEPT ![q].handler = v]
             \/ ctx' = [ctx EXCEPT ![q].stop = v, ![q].cleanup = w]
      PROVE  Marks(p)
  <2>1. ctx[q] \in Contexts BY <1>1
  <2>2. CASE ctx' = [ctx EXCEPT ![q].stop = v, ![q].cleanup = w]
    <3>1. CASE p = q BY <1>1, <2>1, <2>2, <3>1 DEF Marks, Contexts
    <3>2. CASE p # q BY <1>1, <2>2, <3>2 DEF Marks
    <3> QED BY <3>1, <3>2
  <2> QED BY <1>1, <1>5, <2>1, <2>2 DEF Marks, Contexts
<1>6. CASE Acquire
  <2> DEFINE q == Current
             c == ctx[q]
  <2>1. \/ ctx' = [ctx EXCEPT ![q] = [c EXCEPT !.subscribed = TRUE]]
        \/ ctx' = [ctx EXCEPT ![q] = [c EXCEPT !.task = "pending"]]
        \/ ctx' = [ctx EXCEPT ![q] = [c EXCEPT !.cleanup = "due"]]
    BY <1>6 DEF Acquire, Take
  <2> HIDE DEF q
  <2>2. CASE p = q BY <1>1, <2>1, <2>2 DEF Marks, Contexts
  <2>3. CASE p # q BY <1>1, <2>1, <2>3 DEF Marks
  <2> QED BY <2>2, <2>3
<1>7. ASSUME NEW q \in Plugins, Work(q) \/ TaskEnds(q) PROVE Marks(p)
  BY <1>5, <1>7 DEF Work, TaskEnds
<1>8. ASSUME NEW r, NEW l, EndShutdown(r, l) PROVE Marks(p)
  <2> DEFINE q == Head(todo)
  <2>1. ctx' = [ctx EXCEPT ![q].stop = r,
                    ![q].cleanup = IF @ = "due" /\ r # "timeout" THEN "done" ELSE @]
    BY <1>8 DEF EndShutdown
  <2> HIDE DEF q
  <2>2. CASE p = q BY <1>1, <2>1, <2>2 DEF Marks, Contexts
  <2>3. CASE p # q BY <1>1, <2>1, <2>3 DEF Marks
  <2> QED BY <2>2, <2>3
<1>9. CASE ShutdownEnds \/ CleanupFails \/ StopTimesOut
  BY <1>8, <1>9 DEF ShutdownEnds, CleanupFails, StopTimesOut
<1>10. CASE \/ Register \/ SetupReturns \/ SetupFails \/ FallBack \/ Reject \/ Assemble
            \/ ActivateFails \/ Ready \/ Stop \/ Released \/ WireAgain \/ UNCHANGED hostVars
  <2>1. UNCHANGED ctx
    BY <1>10 DEF Register, SetupReturns, SetupFails, FallBack, Reject, Assemble,
                 ActivateFails, Ready, Stop, Released, WireAgain, hostVars
  <2> QED BY <1>2, <2>1
<1> QED BY <1>4, <1>6, <1>7, <1>9, <1>10 DEF HostNext, StopStep

LEMMA ActivationFollowsDeps ==
  ASSUME IInv, Activate, NEW p \in Plugins
  PROVE  /\ ctx'[p].stopping => ctx[p].stopping
         /\ ctx'[p].started /\ ~ctx[p].started =>
              \A d \in Deps[p] : life[d].phase # "loaded"
<1>1. HostTypeOK /\ OwnedHolds BY DEF IInv
<1>2. PICK k \in 1..Len(owned) :
        /\ \A j \in 1..(k - 1) : life[owned[j]].phase # "loaded"
        /\ ctx' = [ctx EXCEPT ![owned[k]].started = TRUE,
                              ![owned[k]].task = IF @ = "pending" THEN "running" ELSE @]
  BY <1>1, OwnedFacts DEF Activate, Startable, Loaded
<1> DEFINE q == owned[k]
<1>3. q \in Plugins /\ ctx[p] \in Contexts /\ ctx \in [Plugins -> Contexts]
  BY <1>1, OwnedFacts DEF HostTypeOK
<1>4. ctx'[p].stopping => ctx[p].stopping
  <2> HIDE DEF q
  <2>1. ctx' = [ctx EXCEPT ![q].started = TRUE,
                           ![q].task = IF @ = "pending" THEN "running" ELSE @]
    BY <1>2 DEF q
  <2>2. CASE p = q BY <1>3, <2>1, <2>2 DEF Contexts
  <2>3. CASE p # q BY <1>3, <2>1, <2>3
  <2> QED BY <2>2, <2>3
<1>5. ASSUME ctx'[p].started, ~ctx[p].started, NEW d \in Deps[p]
      PROVE  life[d].phase # "loaded"
  <2>1. p = q BY <1>2, <1>3, <1>5
  <2>2. PICK i, j \in DOMAIN LoadOrder : i < j /\ LoadOrder[i] = d /\ LoadOrder[j] = p
    BY HostAssumption DEF HostAssumption, Earlier
  <2>3. j = k BY <1>1, <2>1, <2>2, OrderFacts, OwnedFacts
  <2>4. i \in 1..(k - 1) /\ i \in 1..Len(owned) BY <1>1, <2>2, <2>3, OrderFacts, OwnedFacts
  <2>5. owned[i] = d BY <1>1, <2>2, <2>4, OwnedFacts
  <2> QED BY <1>2, <2>4, <2>5
<1> QED BY <1>4, <1>5

LEMMA ShutdownFollowsDeps ==
  ASSUME IInv, BeginShutdown, NEW p \in Plugins
  PROVE  /\ ctx'[p].started => ctx[p].started
         /\ ctx'[p].stopping /\ ~ctx[p].stopping =>
              \A q \in ToSet(owned) : p \in Deps[q] => ctx[q].stop # "none"
<1>1. HostTypeOK /\ OwnedHolds /\ StopHolds BY DEF IInv
<1> DEFINE h == Head(todo)
<1>2. /\ todo # << >>
      /\ ctx' = [ctx EXCEPT ![h].stopping = TRUE, ![h].subscribed = FALSE,
                            ![h].task = Cancelled(@), ![h].handler = Cancelled(@)]
  BY DEF BeginShutdown
<1>3. /\ h \in Plugins /\ h = owned[Len(todo)] /\ Len(todo) \in 1..Len(owned)
      /\ ctx[p] \in Contexts /\ ctx \in [Plugins -> Contexts] /\ phase \in Stopping
  BY <1>1, <1>2, NextToStop DEF HostTypeOK, StopHolds
<1> HIDE DEF h
<1>4. ctx'[p].started => ctx[p].started
  <2>1. CASE p = h BY <1>2, <1>3, <2>1 DEF Contexts
  <2>2. CASE p # h BY <1>2, <1>3, <2>2
  <2> QED BY <2>1, <2>2
<1>5. ASSUME ctx'[p].stopping, ~ctx[p].stopping, NEW q \in ToSet(owned), p \in Deps[q]
      PROVE  ctx[q].stop # "none"
  <2>1. p = h BY <1>2, <1>3, <1>5
  <2>2. PICK k \in 1..Len(owned) : owned[k] = q BY <1>1, OwnedFacts
  <2>3. PICK i, j \in DOMAIN LoadOrder : i < j /\ LoadOrder[i] = p /\ LoadOrder[j] = q
    BY <1>1, <1>5, OwnedFacts, HostAssumption DEF HostAssumption, Earlier
  <2>4. j = k /\ i = Len(todo) BY <1>1, <1>3, <2>1, <2>2, <2>3, OrderFacts, OwnedFacts
  <2>5. k \in (Len(todo) + 1)..Len(owned) BY <1>1, <1>3, <2>2, <2>3, <2>4, OwnedFacts, OrderFacts
  <2> QED BY <1>1, <1>3, <2>2, <2>5 DEF StopHolds, Stopped
<1> QED BY <1>4, <1>5

LEMMA DependenciesRespected ==
  IInv /\ [HostNext]_hostVars =>
    \A p \in Plugins :
      /\ ctx'[p].started /\ ~ctx[p].started =>
            \A d \in Deps[p] : life[d].phase # "loaded"
      /\ ctx'[p].stopping /\ ~ctx[p].stopping =>
            \A q \in ToSet(owned) : p \in Deps[q] => ctx[q].stop # "none"
<1> SUFFICES ASSUME IInv, [HostNext]_hostVars, NEW p \in Plugins
             PROVE  /\ ctx'[p].started /\ ~ctx[p].started =>
                          \A d \in Deps[p] : life[d].phase # "loaded"
                    /\ ctx'[p].stopping /\ ~ctx[p].stopping =>
                          \A q \in ToSet(owned) : p \in Deps[q] => ctx[q].stop # "none"
  OBVIOUS
<1>1. CASE Activate BY <1>1, ActivationFollowsDeps
<1>2. CASE BeginShutdown BY <1>2, ShutdownFollowsDeps
<1>3. CASE ~Activate /\ ~BeginShutdown BY <1>3, OtherStepsMark DEF IInv, Marks
<1> QED BY <1>1, <1>2, <1>3

(* A plugin is activated when those it depends on have been, and no stop,   *)
(* whatever led to it, reaches a provider before its dependents (PLG-005).  *)
THEOREM DependenciesComeFirst == HostSpec => DependencyOrder
<1>1. IInv /\ [HostNext]_hostVars =>
        [\A p \in Plugins :
          /\ ctx'[p].started /\ ~ctx[p].started =>
                \A d \in Deps[p] : life[d].phase # "loaded"
          /\ ctx'[p].stopping /\ ~ctx[p].stopping =>
                \A q \in ToSet(owned) : p \in Deps[q] => ctx[q].stop # "none"]_hostVars
  BY DependenciesRespected
<1> QED BY <1>1, InductiveInvariant, PTL DEF HostSpec, DependencyOrder
-----------------------------------------------------------------------------
(* The instance lock, which the life above begins and ends with: mutual    *)
(* exclusion for any number of processes and hosts and any reuse of PIDs,  *)
(* on a platform that does not delete open files.  The argument is one     *)
(* invariant, OpenFileStays: the file that an open descriptor belongs to   *)
(* is the one at the path.  It is what lets the liveness probe be wrong    *)
(* without harm, and what POSIX does not give.                             *)

OpenFileStays ==
  \A p \in Processes : Open(p) =>
    /\ file # NoFile
    /\ file.by = p
    /\ pc[p] = "held" => file.written

LockIInv == TypeOK /\ OpenFileStays

(* A file at the path has an owner. *)
LEMMA FileShape ==
  ASSUME TypeOK, file # NoFile
  PROVE  file \in [by : Processes, written : BOOLEAN]
  BY DEF TypeOK

(* Where a descriptor is open, the path cannot be cleared. *)
LEMMA UnlinkSparesOpenFiles ==
  ASSUME Pinning, OpenFileStays, NEW p \in Processes, Open(p)
  PROVE  Pinned
  BY DEF Pinned, OpenFileStays

LEMMA LockInit == Init => LockIInv
  BY ConstantsAssumption DEF Init, LockIInv, TypeOK, OpenFileStays, Open, Steps, Gone

(* The type invariant on its own: it does not depend on the platform. *)
LEMMA LockStepTypeOK == TypeOK /\ [Next]_vars => TypeOK'
<1> SUFFICES ASSUME TypeOK, [Next]_vars PROVE TypeOK'
  OBVIOUS
<1> USE ConstantsAssumption DEF Steps, Gone, Goto
<1>1. ASSUME NEW p \in Processes, Start(p) PROVE TypeOK'
  BY <1>1 DEF TypeOK, Start
<1>2. ASSUME NEW p \in Processes, NEW ok \in BOOLEAN, Create(p, ok) PROVE TypeOK'
  <2>1. file' \in [by : Processes, written : BOOLEAN] \cup {NoFile}
    <3>1. [by |-> p, written |-> FALSE] \in [by : Processes, written : BOOLEAN]
      OBVIOUS
    <3>2. file' = [by |-> p, written |-> FALSE] \/ file' = file
      BY <1>2 DEF Create
    <3> QED
      BY <3>1, <3>2 DEF TypeOK
  <2>2. /\ pc[p] \in {"create", "retry"}
        /\ \E next \in Steps \ {"probe"} : pc' = [pc EXCEPT ![p] = next]
        /\ seen' = seen
    BY <1>2 DEF Create
  <2> QED
    BY <2>1, <2>2 DEF TypeOK
<1>3. ASSUME NEW p \in Processes, NEW ok \in BOOLEAN, Write(p, ok) PROVE TypeOK'
  <2>1. file' \in [by : Processes, written : BOOLEAN] \cup {NoFile}
    <3>1. file # NoFile => [file EXCEPT !.written = TRUE] \in [by : Processes, written : BOOLEAN]
      BY FileShape
    <3> QED
      BY <1>3, <3>1 DEF TypeOK, Write
  <2>2. /\ \E next \in {"held", "failed"} : pc' = [pc EXCEPT ![p] = next]
        /\ seen' = seen
    BY <1>3 DEF Write
  <2> QED
    BY <2>1, <2>2 DEF TypeOK
<1>4. ASSUME NEW p \in Processes, Inspect(p) PROVE TypeOK'
  BY <1>4 DEF TypeOK, Inspect, Holder
<1>5. ASSUME NEW p \in Processes, Probe(p) PROVE TypeOK'
  BY <1>5 DEF TypeOK, Probe
<1>6. ASSUME NEW p \in Processes, Reclaim(p) PROVE TypeOK'
  BY <1>6 DEF TypeOK, Reclaim, Unlinked
<1>7. ASSUME NEW p \in Processes, Close(p) PROVE TypeOK'
  BY <1>7 DEF TypeOK, Close
<1>8. ASSUME NEW p \in Processes, ReleaseCheck(p) PROVE TypeOK'
  BY <1>8 DEF TypeOK, ReleaseCheck
<1>9. ASSUME NEW p \in Processes, Unlink(p) PROVE TypeOK'
  BY <1>9 DEF TypeOK, Unlink, Unlinked
<1>10. ASSUME NEW p \in Processes, Die(p) PROVE TypeOK'
  BY <1>10 DEF TypeOK, Die
<1>11. ASSUME UNCHANGED vars PROVE TypeOK'
  BY <1>11 DEF TypeOK, vars
<1> QED
  BY <1>1, <1>2, <1>3, <1>4, <1>5, <1>6, <1>7, <1>8, <1>9, <1>10, <1>11 DEF Next

(* A step that opens nothing and leaves the path alone where a descriptor   *)
(* is open keeps the invariant.                                            *)
LEMMA StepOpenFileStays ==
  ASSUME Pinning
  PROVE  LockIInv /\ [Next]_vars => OpenFileStays'
<1> SUFFICES ASSUME LockIInv, [Next]_vars PROVE OpenFileStays'
  OBVIOUS
<1> USE ConstantsAssumption DEF LockIInv, Goto
<1>1. ASSUME NEW p \in Processes, Start(p) PROVE OpenFileStays'
  BY <1>1 DEF TypeOK, OpenFileStays, Open, Start
<1>2. ASSUME NEW p \in Processes, NEW ok \in BOOLEAN, Create(p, ok) PROVE OpenFileStays'
  <2>1. CASE file = NoFile /\ ok
    <3>1. \A q \in Processes : ~Open(q)
      BY <2>1 DEF OpenFileStays
    <3>2. file' = [by |-> p, written |-> FALSE] /\ pc' = [pc EXCEPT ![p] = "writing"]
      BY <1>2, <2>1 DEF Create
    <3>3. file' \in [by : Processes, written : BOOLEAN]
      BY <3>2
    <3>4. file' # NoFile /\ file'.by = p
      BY <3>2, <3>3
    <3> QED
      BY <3>1, <3>2, <3>4 DEF TypeOK, OpenFileStays, Open
  <2>2. CASE ~(file = NoFile /\ ok)
    BY <1>2, <2>2 DEF TypeOK, OpenFileStays, Open, Create
  <2> QED
    BY <2>1, <2>2
<1>3. ASSUME NEW p \in Processes, NEW ok \in BOOLEAN, Write(p, ok) PROVE OpenFileStays'
  <2>1. file # NoFile /\ file.by = p
    BY <1>3 DEF Write, OpenFileStays, Open
  <2>2. \A q \in Processes : Open(q) => q = p
    BY <2>1 DEF OpenFileStays
  <2>3. file \in [by : Processes, written : BOOLEAN]
    BY <2>1, FileShape
  <2>4. CASE ok
    <3>1. file' = [file EXCEPT !.written = TRUE] /\ pc' = [pc EXCEPT ![p] = "held"]
      BY <1>3, <2>1, <2>4 DEF Write
    <3>2. file' \in [by : Processes, written : BOOLEAN] /\ file'.by = p /\ file'.written
      BY <3>1, <2>1, <2>3
    <3> QED
      BY <3>1, <3>2, <2>2 DEF TypeOK, OpenFileStays, Open
  <2>5. CASE ~ok
    BY <1>3, <2>2, <2>5 DEF TypeOK, OpenFileStays, Open, Write
  <2> QED
    BY <2>4, <2>5
<1>4. ASSUME NEW p \in Processes, Inspect(p) PROVE OpenFileStays'
  BY <1>4 DEF TypeOK, OpenFileStays, Open, Inspect
<1>5. ASSUME NEW p \in Processes, Probe(p) PROVE OpenFileStays'
  BY <1>5 DEF TypeOK, OpenFileStays, Open, Probe
<1>6. ASSUME NEW p \in Processes, Reclaim(p) PROVE OpenFileStays'
  <2>1. \A q \in Processes : Open(q) => file' = file
    BY <1>6, UnlinkSparesOpenFiles DEF Reclaim, Unlinked
  <2> QED
    BY <1>6, <2>1 DEF TypeOK, OpenFileStays, Open, Reclaim
<1>7. ASSUME NEW p \in Processes, Close(p) PROVE OpenFileStays'
  BY <1>7 DEF TypeOK, OpenFileStays, Open, Close
<1>8. ASSUME NEW p \in Processes, ReleaseCheck(p) PROVE OpenFileStays'
  BY <1>8 DEF TypeOK, OpenFileStays, Open, ReleaseCheck
<1>9. ASSUME NEW p \in Processes, Unlink(p) PROVE OpenFileStays'
  <2>1. \A q \in Processes : Open(q) => file' = file
    BY <1>9, UnlinkSparesOpenFiles DEF Unlink, Unlinked
  <2> QED
    BY <1>9, <2>1 DEF TypeOK, OpenFileStays, Open, Unlink
<1>10. ASSUME NEW p \in Processes, Die(p) PROVE OpenFileStays'
  BY <1>10 DEF TypeOK, OpenFileStays, Open, Die
<1>11. ASSUME UNCHANGED vars PROVE OpenFileStays'
  BY <1>11 DEF OpenFileStays, Open, vars
<1> QED
  BY <1>1, <1>2, <1>3, <1>4, <1>5, <1>6, <1>7, <1>8, <1>9, <1>10, <1>11 DEF Next

(* The types hold on every platform. *)
THEOREM LockTypeCorrect == Spec => []TypeOK
<1>1. Init => TypeOK
  BY LockInit DEF LockIInv
<1> QED
  BY <1>1, LockStepTypeOK, PTL DEF Spec

THEOREM LockInductive ==
  ASSUME Pinning
  PROVE  Spec => []LockIInv
<1>1. LockIInv /\ [Next]_vars => LockIInv'
  BY LockStepTypeOK, StepOpenFileStays DEF LockIInv
<1> QED
  BY <1>1, LockInit, PTL DEF Spec

(* The file at the path names the process that holds the lock. *)
THEOREM LockNamesItsHolder ==
  ASSUME Pinning
  PROVE  Spec => []HolderNamed
<1>1. LockIInv => HolderNamed
  BY DEF LockIInv, OpenFileStays, Open, HolderNamed, Holder
<1> QED
  BY <1>1, LockInductive, PTL

(* No two processes hold the lock, whatever the probe made of the others. *)
THEOREM MutualExclusion ==
  ASSUME Pinning
  PROVE  Spec => []OneHolder
<1>1. LockIInv => OneHolder
  BY DEF LockIInv, OpenFileStays, Open, OneHolder
<1> QED
  BY <1>1, LockInductive, PTL
=============================================================================
