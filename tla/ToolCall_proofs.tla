---------------------------- MODULE ToolCall_proofs ----------------------------
(* Proofs about ToolCall, for any calls, any chains of interceptors and any *)
(* size of the table of orphans; and about Retry, for any policy, any bound *)
(* on held chunks and any provider.                                        *)
EXTENDS ToolCall, Retry, SequenceTheorems, FiniteSetTheorems, TLAPS

Hooks == {"before", "after"}

(* What a call has to show for its place: a handler was started by those    *)
(* that passed the executor's door and by no other, and a result is there  *)
(* from the moment the executor has concluded.                             *)
Progress(c) ==
  /\ toolPc[c] \in {"queued", "before"} => toolHandler[c] = "none" /\ result[c] = "none"
  /\ toolPc[c] \in {"running", "grace"} => toolHandler[c] # "none" /\ result[c] = "none"
  /\ toolPc[c] \in {"after", "answered"} => result[c] # "none"
  /\ result[c] = "untouched" => toolHandler[c] = "none"
  /\ result[c] = "own" => toolHandler[c] = "returned"

(* An interceptor that is asked is one of its chain. *)
InChain(c) ==
  /\ toolPc[c] = "queued" => place[c] = 0
  /\ toolPc[c] = "before" => place[c] < Len(Interceptors["before"])
  /\ toolPc[c] = "after" => place[c] < Len(Interceptors["after"])

(* Whoever has a handler has a token; it has been told to stop if the turn  *)
(* is cancelled or if nobody waits for it any more.                        *)
Asked(c) ==
  /\ toolHandler[c] # "none" => child[c] # "unborn"
  /\ toolHandler[c] = "running" /\ (cancelled \/ toolPc[c] # "running") => child[c] = "requested"
  /\ toolPc[c] = "killed" => cancelled

Unlisted == Runaways \ ToSet(orphans)

IInv ==
  /\ ToolTypeOK
  /\ \A c \in Calls : Progress(c) /\ InChain(c) /\ Asked(c)
  /\ Cardinality(Unlisted) <= dropped
-----------------------------------------------------------------------------
(* The interceptors of a hook are a sequence. *)
LEMMA ChainsType ==
  \A h \in Hooks : Interceptors[h] \in Seq(BOOLEAN) /\ Len(Interceptors[h]) \in Nat
                   /\ (Interceptors[h] # << >> => Len(Interceptors[h]) > 0)
BY ToolCallAssumption DEF ToolCallAssumption, Hooks

(* The members of a sequence of calls, and of one that was appended to. *)
LEMMA Members ==
  ASSUME NEW s \in Seq(Calls), NEW c \in Calls
  PROVE  /\ ToSet(Append(s, c)) = ToSet(s) \cup {c}
         /\ s # << >> => ToSet(s) = ToSet(Tail(s)) \cup {Head(s)}
<1>1. \A t \in Seq(Calls) : ToSet(t) = {t[i] : i \in 1..Len(t)}
  BY DEF ToSet
<1>2. ToSet(Append(s, c)) = ToSet(s) \cup {c}
  <2>1. /\ Append(s, c) \in Seq(Calls) /\ Len(Append(s, c)) = Len(s) + 1
        /\ \A i \in 1..Len(s) : Append(s, c)[i] = s[i]
        /\ Append(s, c)[Len(s) + 1] = c
    BY AppendProperties
  <2>2. Len(s) \in Nat BY LenProperties
  <2>3. ToSet(Append(s, c)) = {Append(s, c)[i] : i \in 1..(Len(s) + 1)}
    BY <1>1, <2>1
  <2>4. 1..(Len(s) + 1) = (1..Len(s)) \cup {Len(s) + 1} BY <2>2
  <2> QED BY <1>1, <2>1, <2>3, <2>4
<1>3. ASSUME s # << >> PROVE ToSet(s) = ToSet(Tail(s)) \cup {Head(s)}
  <2>1. /\ Tail(s) \in Seq(Calls) /\ Len(Tail(s)) = Len(s) - 1
        /\ \A i \in 1..Len(Tail(s)) : Tail(s)[i] = s[i + 1]
    BY <1>3, HeadTailProperties
  <2>2. Len(s) \in Nat \ {0} /\ Head(s) = s[1] BY <1>3, EmptySeq
  <2>3. ToSet(Tail(s)) = {Tail(s)[i] : i \in 1..Len(Tail(s))} BY <1>1, <2>1
  <2>5. ASSUME NEW i \in 1..Len(s) PROVE s[i] \in ToSet(Tail(s)) \cup {Head(s)}
    <3>1. CASE i = 1 BY <2>2, <3>1
    <3>2. CASE i # 1
      <4>1. i - 1 \in 1..Len(Tail(s)) /\ (i - 1) + 1 = i BY <2>1, <2>2, <3>2
      <4>2. s[i] = Tail(s)[i - 1] BY <2>1, <4>1
      <4> QED BY <2>3, <4>1, <4>2
    <3> QED BY <3>1, <3>2
  <2>6. ASSUME NEW i \in 1..Len(Tail(s)) PROVE Tail(s)[i] \in ToSet(s)
    <3>1. i + 1 \in 1..Len(s) BY <2>1, <2>2
    <3> QED BY <1>1, <2>1, <3>1
  <2>7. Head(s) \in ToSet(s) BY <1>1, <2>2
  <2> QED BY <1>1, <2>3, <2>5, <2>6, <2>7
<1> QED BY <1>2, <1>3

(* The table of orphans and the handlers that run on.  A step that makes   *)
(* no new runaway and leaves the table alone keeps the account.            *)
LEMMA AccountKept ==
  ASSUME IInv, Runaways' \subseteq Runaways, UNCHANGED tables
  PROVE  Cardinality(Unlisted') <= dropped'
<1>1. IsFiniteSet(Unlisted) /\ Cardinality(Unlisted) \in Nat
  <2>1. Unlisted \in SUBSET Calls BY DEF Unlisted, Runaways
  <2> QED BY <2>1, ToolCallAssumption, FS_Subset, FS_CardinalityType DEF ToolCallAssumption
<1>2. Unlisted' \in SUBSET Unlisted BY DEF Unlisted, tables
<1>3. IsFiniteSet(Unlisted') /\ Cardinality(Unlisted') <= Cardinality(Unlisted)
  BY <1>1, <1>2, FS_Subset
<1>4. Cardinality(Unlisted') \in Nat BY <1>3, FS_CardinalityType
<1> QED BY <1>1, <1>3, <1>4 DEF IInv, ToolTypeOK, tables

(* _register_orphan(): the handler that is given up is in the table, and    *)
(* the one that falls out of it is counted.                                *)
LEMMA AccountRegistered ==
  ASSUME IInv, NEW c \in Calls, Register(c), Runaways' \subseteq Runaways \cup {c}
  PROVE  /\ orphans' \in Seq(Calls) /\ Len(orphans') <= MaxOrphans /\ dropped' \in Nat
         /\ Cardinality(Unlisted') <= dropped'
<1>0. /\ orphans \in Seq(Calls) /\ Len(orphans) <= MaxOrphans /\ dropped \in Nat
      /\ MaxOrphans \in Nat \ {0} /\ Cardinality(Unlisted) <= dropped
  BY ToolCallAssumption DEF IInv, ToolTypeOK, ToolCallAssumption
<1>1. IsFiniteSet(Unlisted) /\ Cardinality(Unlisted) \in Nat
  <2>1. Unlisted \in SUBSET Calls BY DEF Unlisted, Runaways
  <2> QED BY <2>1, ToolCallAssumption, FS_Subset, FS_CardinalityType DEF ToolCallAssumption
<1>2. CASE Len(orphans) >= MaxOrphans
  <2>1. orphans' = Append(Tail(orphans), c) /\ dropped' = dropped + 1
    BY <1>2 DEF Register
  <2>2. orphans # << >> BY <1>0, <1>2, EmptySeq
  <2>3. Tail(orphans) \in Seq(Calls) /\ Len(Tail(orphans)) = Len(orphans) - 1
    BY <1>0, <2>2, HeadTailProperties
  <2>4. orphans' \in Seq(Calls) /\ Len(orphans') = Len(orphans)
    <3>1. Len(orphans) \in Nat BY <1>0, LenProperties
    <3> QED BY <2>1, <2>3, <3>1, AppendProperties
  <2>5. Unlisted' \in SUBSET (Unlisted \cup {Head(orphans)})
    <3>1. ToSet(orphans') = ToSet(Tail(orphans)) \cup {c} BY <2>1, <2>3, Members
    <3>2. ToSet(orphans) = ToSet(Tail(orphans)) \cup {Head(orphans)} BY <1>0, <2>2, Members
    <3> QED BY <3>1, <3>2 DEF Unlisted
  <2>6. /\ IsFiniteSet(Unlisted \cup {Head(orphans)})
        /\ Cardinality(Unlisted \cup {Head(orphans)}) <= Cardinality(Unlisted) + 1
        /\ Cardinality(Unlisted \cup {Head(orphans)}) \in Nat
    <3> DEFINE more == Unlisted \cup {Head(orphans)}
    <3>1. /\ IsFiniteSet(more)
          /\ Cardinality(more) = IF Head(orphans) \in Unlisted THEN Cardinality(Unlisted)
                                 ELSE Cardinality(Unlisted) + 1
      BY <1>1, FS_AddElement
    <3> QED BY <1>1, <3>1
  <2>7. /\ IsFiniteSet(Unlisted')
        /\ Cardinality(Unlisted') <= Cardinality(Unlisted \cup {Head(orphans)})
    BY <2>5, <2>6, FS_Subset
  <2>8. Cardinality(Unlisted') \in Nat BY <2>7, FS_CardinalityType
  <2> QED BY <1>0, <1>1, <2>1, <2>4, <2>6, <2>7, <2>8
<1>3. CASE ~(Len(orphans) >= MaxOrphans)
  <2>1. orphans' = Append(orphans, c) /\ dropped' = dropped
    BY <1>3 DEF Register
  <2>2. orphans' \in Seq(Calls) /\ Len(orphans') = Len(orphans) + 1
    BY <1>0, <2>1, AppendProperties
  <2>3. Len(orphans') <= MaxOrphans
    <3>1. Len(orphans) \in Nat BY <1>0, LenProperties
    <3> QED BY <1>0, <1>3, <2>2, <3>1
  <2>4. Unlisted' \in SUBSET Unlisted
    <3>1. ToSet(orphans') = ToSet(orphans) \cup {c} BY <1>0, <2>1, Members
    <3> QED BY <3>1 DEF Unlisted
  <2>5. IsFiniteSet(Unlisted') /\ Cardinality(Unlisted') <= Cardinality(Unlisted)
    BY <1>1, <2>4, FS_Subset
  <2>6. Cardinality(Unlisted') \in Nat BY <2>5, FS_CardinalityType
  <2> QED BY <1>0, <1>1, <2>1, <2>2, <2>3, <2>5, <2>6
<1> QED BY <1>2, <1>3
-----------------------------------------------------------------------------
(* One lemma per step of a call; each says what the step leaves to the      *)
(* account of the orphans.                                                 *)

LEMMA InitHolds == ToolInit => IInv
<1> SUFFICES ASSUME ToolInit PROVE IInv OBVIOUS
<1>1. ToolTypeOK
  <2>1. orphans \in Seq(Calls) /\ Len(orphans) = 0 BY EmptySeq DEF ToolInit
  <2>2. Len(orphans) <= MaxOrphans BY <2>1, ToolCallAssumption DEF ToolCallAssumption
  <2> QED BY <2>1, <2>2 DEF ToolInit, ToolTypeOK, Places, Handlers, Results
<1>2. \A c \in Calls : Progress(c) /\ InChain(c) /\ Asked(c)
  BY DEF ToolInit, Progress, InChain, Asked
<1>3. Cardinality(Unlisted) <= dropped
  <2>1. Unlisted = {} BY DEF ToolInit, Unlisted, Runaways
  <2>2. Cardinality(Unlisted) = 0 BY <2>1, FS_EmptySet
  <2> QED BY <2>2 DEF ToolInit
<1> QED BY <1>1, <1>2, <1>3 DEF IInv

(* Arguments of the tools: the executor starts the handler or refuses. *)
LEMMA InvokeStep ==
  ASSUME IInv, NEW c \in Calls, NEW valid \in BOOLEAN, Invoke(c, valid),
         toolPc[c] \in {"queued", "before"}, lawful' \in [Calls -> BOOLEAN],
         UNCHANGED <<batch, cancelled, tables>>
  PROVE  IInv'
<1> USE DEF Progress, InChain, Asked
<1>1. CASE valid
  <2>1. /\ toolPc' = [toolPc EXCEPT ![c] = "running"]
        /\ toolHandler' = [toolHandler EXCEPT ![c] = "running"]
        /\ child' = [child EXCEPT ![c] = Child]
        /\ UNCHANGED <<place, result>>
    BY <1>1 DEF Invoke
  <2>2. ToolTypeOK'
    BY <2>1 DEF IInv, ToolTypeOK, tables, Places, Handlers, Child
  <2>3. \A d \in Calls : (Progress(d) /\ InChain(d) /\ Asked(d))'
    BY <2>1 DEF IInv, ToolTypeOK, Child
  <2>4. Runaways' \subseteq Runaways BY <2>1 DEF Runaways, IInv, ToolTypeOK
  <2> QED BY <2>2, <2>3, <2>4, AccountKept DEF IInv
<1>2. CASE ~valid
  <2>1. Conclude(c, "untouched") /\ UNCHANGED <<toolHandler, child>>
    BY <1>2 DEF Invoke
  <2>2. ToolTypeOK'
    BY <2>1 DEF IInv, ToolTypeOK, tables, Places, Results, Conclude
  <2>3. \A d \in Calls : (Progress(d) /\ InChain(d) /\ Asked(d))'
    BY <2>1, ChainsType DEF IInv, ToolTypeOK, Conclude, Hooks
  <2>4. Runaways' \subseteq Runaways BY <2>1 DEF Runaways, IInv, ToolTypeOK, Conclude
  <2> QED BY <2>2, <2>3, <2>4, AccountKept DEF IInv
<1> QED BY <1>1, <1>2

LEMMA BeginStep ==
  ASSUME IInv, NEW c \in Calls, NEW known \in BOOLEAN, NEW valid \in BOOLEAN,
         Begin(c, known, valid)
  PROVE  IInv'
<1> USE DEF Progress, InChain, Asked
<1>1. toolPc[c] = "queued" /\ UNCHANGED <<batch, lawful, cancelled, tables>>
  BY DEF Begin
<1>2. CASE ~known \/ cancelled
  <2>1. Answer(c, "untouched") /\ UNCHANGED <<place, toolHandler, child>>
    BY <1>2 DEF Begin
  <2>2. ToolTypeOK'
    BY <1>1, <2>1 DEF IInv, ToolTypeOK, tables, Answer, Places, Results
  <2>3. \A d \in Calls : (Progress(d) /\ InChain(d) /\ Asked(d))'
    BY <1>1, <2>1 DEF IInv, ToolTypeOK, Answer
  <2>4. Runaways' \subseteq Runaways BY <1>1, <2>1 DEF Runaways, IInv, ToolTypeOK, Answer
  <2> QED BY <1>1, <2>2, <2>3, <2>4, AccountKept DEF IInv
<1>3. CASE ~(~known \/ cancelled) /\ Interceptors["before"] = << >>
  <2>1. Invoke(c, valid) BY <1>3 DEF Begin
  <2>2. lawful' \in [Calls -> BOOLEAN] BY <1>1 DEF IInv, ToolTypeOK
  <2> QED BY <1>1, <2>1, <2>2, InvokeStep
<1>4. CASE ~(~known \/ cancelled) /\ Interceptors["before"] # << >>
  <2>1. /\ toolPc' = [toolPc EXCEPT ![c] = "before"]
        /\ UNCHANGED <<place, result, toolHandler, child>>
    BY <1>4 DEF Begin
  <2>2. ToolTypeOK'
    BY <1>1, <2>1 DEF IInv, ToolTypeOK, tables, Places
  <2>3. \A d \in Calls : (Progress(d) /\ InChain(d) /\ Asked(d))'
    BY <1>1, <1>4, <2>1, ChainsType DEF IInv, ToolTypeOK, Hooks
  <2>4. Runaways' \subseteq Runaways BY <1>1, <2>1 DEF Runaways, IInv, ToolTypeOK
  <2> QED BY <1>1, <2>2, <2>3, <2>4, AccountKept DEF IInv
<1> QED BY <1>2, <1>3, <1>4

(* Before the handler: nothing has happened, whatever the chain says. *)
LEMMA BeforeStep ==
  ASSUME IInv, NEW c \in Calls, NEW verdict, NEW valid \in BOOLEAN, Before(c, verdict, valid)
  PROVE  IInv'
<1> DEFINE same == IF verdict = "replace" THEN TRUE
                   ELSE IF verdict = "hijack" THEN FALSE ELSE lawful[c]
<1> USE DEF Progress, InChain, Asked
<1>1. /\ toolPc[c] = "before" /\ UNCHANGED <<batch, cancelled, tables>>
      /\ toolHandler[c] = "none" /\ result[c] = "none"
      /\ place[c] \in Nat /\ place[c] < Len(Interceptors["before"])
  BY DEF Before, IInv, ToolTypeOK
<1>2. CASE verdict = "block"
  <2>1. Answer(c, "untouched") /\ UNCHANGED <<place, lawful, toolHandler, child>>
    BY <1>2 DEF Before
  <2>2. ToolTypeOK'
    BY <1>1, <2>1 DEF IInv, ToolTypeOK, tables, Answer, Places, Results
  <2>3. \A d \in Calls : (Progress(d) /\ InChain(d) /\ Asked(d))'
    BY <1>1, <2>1 DEF IInv, ToolTypeOK, Answer
  <2>4. Runaways' \subseteq Runaways BY <1>1, <2>1 DEF Runaways, IInv, ToolTypeOK, Answer
  <2> QED BY <1>1, <2>2, <2>3, <2>4, AccountKept DEF IInv
<1>3. CASE verdict # "block"
  <2>1. lawful' = [lawful EXCEPT ![c] = same] BY <1>3 DEF Before
  <2>2. lawful' \in [Calls -> BOOLEAN] BY <2>1 DEF IInv, ToolTypeOK
  <2>3. CASE Fatal(c, "before", verdict) \/ (IsLast(c, "before") /\ ~same)
    <3>1. RaiseCall(c) /\ UNCHANGED <<place, result, toolHandler, child>>
      BY <1>3, <2>3 DEF Before
    <3>2. ToolTypeOK'
      BY <1>1, <2>2, <3>1 DEF IInv, ToolTypeOK, tables, RaiseCall, Places
    <3>3. \A d \in Calls : (Progress(d) /\ InChain(d) /\ Asked(d))'
      BY <1>1, <3>1 DEF IInv, ToolTypeOK, RaiseCall
    <3>4. Runaways' \subseteq Runaways BY <1>1, <3>1 DEF Runaways, IInv, ToolTypeOK, RaiseCall
    <3> QED BY <1>1, <3>2, <3>3, <3>4, AccountKept DEF IInv
  <2>4. CASE ~(Fatal(c, "before", verdict) \/ (IsLast(c, "before") /\ ~same)) /\ IsLast(c, "before")
    <3>1. Invoke(c, valid) BY <1>3, <2>4 DEF Before
    <3> QED BY <1>1, <2>2, <3>1, InvokeStep
  <2>5. CASE ~(Fatal(c, "before", verdict) \/ (IsLast(c, "before") /\ ~same)) /\ ~IsLast(c, "before")
    <3>1. /\ place' = [place EXCEPT ![c] = @ + 1]
          /\ UNCHANGED <<toolPc, result, toolHandler, child>>
      BY <1>3, <2>5 DEF Before
    <3>2. ToolTypeOK'
      BY <1>1, <2>2, <3>1 DEF IInv, ToolTypeOK, tables
    <3>3. place[c] + 1 < Len(Interceptors["before"])
      BY <1>1, <2>5, ChainsType DEF IsLast, Hooks
    <3>4. \A d \in Calls : (Progress(d) /\ InChain(d) /\ Asked(d))'
      BY <1>1, <3>1, <3>3 DEF IInv, ToolTypeOK
    <3>5. Runaways' \subseteq Runaways BY <3>1 DEF Runaways
    <3> QED BY <1>1, <3>2, <3>4, <3>5, AccountKept DEF IInv
  <2> QED BY <2>3, <2>4, <2>5
<1> QED BY <1>2, <1>3

(* After the handler: a result may be replaced, never taken back. *)
LEMMA AfterStep ==
  ASSUME IInv, NEW c \in Calls, NEW verdict, After(c, verdict)
  PROVE  IInv'
<1> USE DEF Progress, InChain, Asked
<1>1. /\ toolPc[c] = "after"
      /\ UNCHANGED <<batch, lawful, toolHandler, child, cancelled, tables>>
      /\ result[c] \in Results /\ result[c] # "none"
      /\ place[c] \in Nat /\ place[c] < Len(Interceptors["after"])
  BY DEF After, IInv, ToolTypeOK
<1>2. CASE Fatal(c, "after", verdict)
  <2>1. RaiseCall(c) /\ UNCHANGED <<place, result>> BY <1>2 DEF After
  <2>2. ToolTypeOK'
    BY <1>1, <2>1 DEF IInv, ToolTypeOK, tables, RaiseCall, Places
  <2>3. \A d \in Calls : (Progress(d) /\ InChain(d) /\ Asked(d))'
    BY <1>1, <2>1 DEF IInv, ToolTypeOK, RaiseCall
  <2>4. Runaways' \subseteq Runaways BY <1>1, <2>1 DEF Runaways, IInv, ToolTypeOK, RaiseCall
  <2> QED BY <1>1, <2>2, <2>3, <2>4, AccountKept DEF IInv
<1>3. CASE ~Fatal(c, "after", verdict)
  <2>1. result' = [result EXCEPT ![c] = IF verdict = "replace" THEN "replaced" ELSE @]
    BY <1>3 DEF After
  <2>2. result' \in [Calls -> Results] BY <1>1, <2>1 DEF IInv, ToolTypeOK, Results
  <2>3. CASE IsLast(c, "after")
    <3>1. toolPc' = [toolPc EXCEPT ![c] = "answered"] /\ UNCHANGED place
      BY <1>3, <2>3 DEF After
    <3>2. ToolTypeOK' BY <1>1, <2>2, <3>1 DEF IInv, ToolTypeOK, tables, Places
    <3>3. \A d \in Calls : (Progress(d) /\ InChain(d) /\ Asked(d))'
      BY <1>1, <2>1, <3>1 DEF IInv, ToolTypeOK
    <3>4. Runaways' \subseteq Runaways BY <1>1, <3>1 DEF Runaways, IInv, ToolTypeOK
    <3> QED BY <1>1, <3>2, <3>3, <3>4, AccountKept DEF IInv
  <2>4. CASE ~IsLast(c, "after")
    <3>1. place' = [place EXCEPT ![c] = @ + 1] /\ UNCHANGED toolPc
      BY <1>3, <2>4 DEF After
    <3>2. ToolTypeOK' BY <1>1, <2>2, <3>1 DEF IInv, ToolTypeOK, tables
    <3>3. place[c] + 1 < Len(Interceptors["after"])
      BY <1>1, <2>4, ChainsType DEF IsLast, Hooks
    <3>4. \A d \in Calls : (Progress(d) /\ InChain(d) /\ Asked(d))'
      BY <1>1, <2>1, <3>1, <3>3 DEF IInv, ToolTypeOK
    <3>5. Runaways' \subseteq Runaways BY <1>1, <3>1 DEF Runaways
    <3> QED BY <1>1, <3>2, <3>4, <3>5, AccountKept DEF IInv
  <2> QED BY <2>3, <2>4
<1> QED BY <1>2, <1>3

(* The handler's task ends; nobody has noticed. *)
LEMMA HandlerEndsStep ==
  ASSUME IInv, NEW c \in Calls, NEW how \in {"returned", "raised", "timed_out"},
         HandlerEnds(c, how)
  PROVE  IInv'
<1>1. /\ toolHandler[c] = "running" /\ toolHandler' = [toolHandler EXCEPT ![c] = how]
      /\ UNCHANGED <<batch, toolPc, place, lawful, child, result, cancelled, tables>>
  BY DEF HandlerEnds
<1>2. ToolTypeOK' BY <1>1 DEF IInv, ToolTypeOK, tables, Handlers
<1>3. \A d \in Calls : (Progress(d) /\ InChain(d) /\ Asked(d))'
  BY <1>1 DEF IInv, ToolTypeOK, Progress, InChain, Asked
<1>4. Runaways' \subseteq Runaways BY <1>1 DEF Runaways, IInv, ToolTypeOK
<1> QED BY <1>1, <1>2, <1>3, <1>4, AccountKept DEF IInv

(* The executor concludes: what Conclude leaves behind, whoever calls it. *)
LEMMA Concluded ==
  ASSUME IInv, NEW c \in Calls, NEW what \in Results \ {"none"}, Conclude(c, what),
         what = "untouched" => toolHandler[c] = "none",
         what = "own" => toolHandler[c] = "returned",
         toolHandler[c] = "running" => child[c] = "requested",
         UNCHANGED <<batch, lawful, toolHandler, child, cancelled>>
  PROVE  /\ toolPc' \in [Calls -> Places] /\ place' \in [Calls -> Nat]
         /\ result' \in [Calls -> Results]
         /\ \A d \in Calls : (Progress(d) /\ InChain(d) /\ Asked(d))'
         /\ Runaways' \subseteq Runaways \cup {c}
         /\ toolHandler[c] # "running" => Runaways' \subseteq Runaways
<1>1. /\ toolPc' = [toolPc EXCEPT ![c] = IF Interceptors["after"] = << >> THEN "answered" ELSE "after"]
      /\ place' = [place EXCEPT ![c] = 0] /\ result' = [result EXCEPT ![c] = what]
  BY DEF Conclude
<1>2. /\ toolPc' \in [Calls -> Places] /\ place' \in [Calls -> Nat]
      /\ result' \in [Calls -> Results]
  BY <1>1 DEF IInv, ToolTypeOK, Places
<1>3. \A d \in Calls : (Progress(d) /\ InChain(d) /\ Asked(d))'
  BY <1>1, ChainsType DEF IInv, ToolTypeOK, Progress, InChain, Asked, Hooks
<1>4. /\ Runaways' \subseteq Runaways \cup {c}
      /\ toolHandler[c] # "running" => Runaways' \subseteq Runaways
  BY <1>1 DEF Runaways, IInv, ToolTypeOK
<1> QED BY <1>2, <1>3, <1>4

(* The executor sees that the task has ended. *)
LEMMA HandlerSeenStep ==
  ASSUME IInv, NEW c \in Calls, HandlerSeen(c)
  PROVE  IInv'
<1>1. /\ toolHandler[c] \in {"returned", "raised"} /\ Conclude(c, Outcome(c))
      /\ UNCHANGED <<batch, lawful, toolHandler, child, cancelled, tables>>
  BY DEF HandlerSeen
<1>2. /\ Outcome(c) \in Results \ {"none"} /\ Outcome(c) # "untouched"
      /\ Outcome(c) = "own" => toolHandler[c] = "returned"
  BY DEF Outcome, Results
<1>3. /\ toolPc' \in [Calls -> Places] /\ place' \in [Calls -> Nat]
      /\ result' \in [Calls -> Results]
      /\ \A d \in Calls : (Progress(d) /\ InChain(d) /\ Asked(d))'
      /\ Runaways' \subseteq Runaways
  BY <1>1, <1>2, Concluded
<1>4. ToolTypeOK' BY <1>1, <1>3 DEF IInv, ToolTypeOK, tables
<1> QED BY <1>1, <1>3, <1>4, AccountKept DEF IInv

(* Time is up: the handler is asked to stop. *)
LEMMA TimesOutStep ==
  ASSUME IInv, NEW c \in Calls, TimesOut(c)
  PROVE  IInv'
<1>1. /\ toolPc[c] = "running" /\ toolPc' = [toolPc EXCEPT ![c] = "grace"]
      /\ child' = [child EXCEPT ![c] = "requested"]
      /\ UNCHANGED <<batch, place, lawful, toolHandler, result, cancelled, tables>>
  BY DEF TimesOut
<1>2. ToolTypeOK' BY <1>1 DEF IInv, ToolTypeOK, tables, Places
<1>3. \A d \in Calls : (Progress(d) /\ InChain(d) /\ Asked(d))'
  BY <1>1 DEF IInv, ToolTypeOK, Progress, InChain, Asked
<1>4. Runaways' \subseteq Runaways BY <1>1 DEF Runaways, IInv, ToolTypeOK
<1> QED BY <1>1, <1>2, <1>3, <1>4, AccountKept DEF IInv

(* The grace period is over: the call goes on, the handler is registered. *)
LEMMA GraceOverStep ==
  ASSUME IInv, NEW c \in Calls, GraceOver(c)
  PROVE  IInv'
<1>1. /\ toolPc[c] = "grace" /\ Register(c) /\ Conclude(c, "unknown")
      /\ UNCHANGED <<batch, lawful, toolHandler, child, cancelled>>
  BY DEF GraceOver
<1>2. toolHandler[c] = "running" => child[c] = "requested"
  BY <1>1 DEF IInv, Asked
<1>3. "unknown" \in Results \ {"none"} BY DEF Results
<1>4. /\ toolPc' \in [Calls -> Places] /\ place' \in [Calls -> Nat]
      /\ result' \in [Calls -> Results]
      /\ \A d \in Calls : (Progress(d) /\ InChain(d) /\ Asked(d))'
      /\ Runaways' \subseteq Runaways \cup {c}
  BY <1>1, <1>2, <1>3, Concluded
<1>5. /\ orphans' \in Seq(Calls) /\ Len(orphans') <= MaxOrphans /\ dropped' \in Nat
      /\ Cardinality(Unlisted') <= dropped'
  BY <1>1, <1>4, AccountRegistered
<1>6. ToolTypeOK' BY <1>1, <1>4, <1>5 DEF IInv, ToolTypeOK
<1> QED BY <1>4, <1>5, <1>6 DEF IInv

(* The turn is cancelled: every child there is hears of it. *)
LEMMA CancelTurnStep ==
  ASSUME IInv, CancelTurn
  PROVE  IInv'
<1>1. /\ cancelled' = TRUE
      /\ child' = [c \in Calls |-> IF child[c] = "live" THEN "requested" ELSE child[c]]
      /\ UNCHANGED <<batch, toolPc, place, lawful, toolHandler, result, tables>>
  BY DEF CancelTurn
<1>2. ToolTypeOK' BY <1>1 DEF IInv, ToolTypeOK, tables
<1>3. \A d \in Calls : (Progress(d) /\ InChain(d) /\ Asked(d))'
  BY <1>1 DEF IInv, ToolTypeOK, Progress, InChain, Asked
<1>4. Runaways' \subseteq Runaways BY <1>1 DEF Runaways
<1> QED BY <1>1, <1>2, <1>3, <1>4, AccountKept DEF IInv

(* The call goes down with its turn. *)
LEMMA KillStep ==
  ASSUME IInv, NEW c \in Calls, Kill(c)
  PROVE  IInv'
<1>1. /\ cancelled /\ toolPc' = [toolPc EXCEPT ![c] = "killed"]
      /\ UNCHANGED <<batch, place, lawful, toolHandler, child, result, cancelled, tables>>
  BY DEF Kill
<1>2. ToolTypeOK' BY <1>1 DEF IInv, ToolTypeOK, tables, Places
<1>3. \A d \in Calls : (Progress(d) /\ InChain(d) /\ Asked(d))'
  BY <1>1 DEF IInv, ToolTypeOK, Progress, InChain, Asked
<1>4. Runaways' \subseteq Runaways BY <1>1 DEF Runaways, IInv, ToolTypeOK
<1> QED BY <1>1, <1>2, <1>3, <1>4, AccountKept DEF IInv

(* Nothing happens, or the batch is over. *)
LEMMA StutterStep ==
  ASSUME IInv, UNCHANGED toolVars
  PROVE  IInv'
<1>1. UNCHANGED <<batch, toolPc, place, lawful, toolHandler, child, result, cancelled, tables>>
  BY DEF toolVars, tables
<1>2. ToolTypeOK' BY <1>1 DEF IInv, ToolTypeOK, tables
<1>3. \A d \in Calls : (Progress(d) /\ InChain(d) /\ Asked(d))'
  BY <1>1 DEF IInv, Progress, InChain, Asked
<1>4. Runaways' \subseteq Runaways BY <1>1 DEF Runaways
<1> QED BY <1>1, <1>2, <1>3, <1>4, AccountKept DEF IInv
-----------------------------------------------------------------------------
(* Every step keeps the inductive invariant. *)
LEMMA StepKeeps == IInv /\ [ToolNext]_toolVars => IInv'
<1> SUFFICES ASSUME IInv, [ToolNext]_toolVars PROVE IInv' OBVIOUS
<1>1. CASE \E c \in Calls, known, valid \in BOOLEAN : Begin(c, known, valid)
  BY <1>1, BeginStep
<1>2. ASSUME NEW c \in Calls, NEW verdict \in {"continue", "replace", "hijack", "block", "fail"},
             NEW valid \in BOOLEAN, Before(c, verdict, valid)
      PROVE  IInv'
  BY <1>2, BeforeStep
<1>3. ASSUME NEW c \in Calls, NEW verdict \in {"continue", "replace", "fail"}, After(c, verdict)
      PROVE  IInv'
  BY <1>3, AfterStep
<1>4. ASSUME NEW c \in Calls, HandlerSeen(c) PROVE IInv' BY <1>4, HandlerSeenStep
<1>5. ASSUME NEW c \in Calls, TimesOut(c) PROVE IInv' BY <1>5, TimesOutStep
<1>6. ASSUME NEW c \in Calls, GraceOver(c) PROVE IInv' BY <1>6, GraceOverStep
<1>7. ASSUME NEW c \in Calls, NEW how \in {"returned", "raised", "timed_out"}, HandlerEnds(c, how)
      PROVE  IInv'
  BY <1>7, HandlerEndsStep
<1>8. CASE CancelTurn BY <1>8, CancelTurnStep
<1>9. ASSUME NEW c \in Calls, Kill(c) PROVE IInv' BY <1>9, KillStep
<1>10. CASE BatchOver BY <1>10, StutterStep DEF BatchOver
<1>11. CASE UNCHANGED toolVars BY <1>11, StutterStep
<1> QED
  BY <1>1, <1>2, <1>3, <1>4, <1>5, <1>6, <1>7, <1>8, <1>9, <1>10, <1>11 DEF ToolNext, Step

(* The inductive invariant holds of every batch. *)
THEOREM BatchIsInvariant == ToolSpec => []IInv
<1> QED BY InitHolds, StepKeeps, PTL DEF ToolSpec

(* The types of the executor's state; the table of orphans never holds more *)
(* than DEFAULT_MAX_ORPHANS entries (invoker.py).                          *)
THEOREM TypeCorrect == ToolSpec => []ToolTypeOK
<1>1. IInv => ToolTypeOK BY DEF IInv
<1> QED BY <1>1, BatchIsInvariant, PTL

(* No call claims less than its handler may have done: "no side effects"    *)
(* (invoker.py, engine.py) is said only of a handler that never started.   *)
THEOREM SideEffectsAreHonest == ToolSpec => []SideEffectsHonest
<1>1. IInv => SideEffectsHonest BY DEF IInv, Progress, SideEffectsHonest
<1> QED BY <1>1, BatchIsInvariant, PTL

(* A handler that outlives its call is in the table of orphans or counted   *)
(* among those that fell out of it (_register_orphan(), invoker.py), and   *)
(* has been told to stop.                                                  *)
THEOREM RunawaysAreKnown == ToolSpec => []RunawaysKnown
<1>1. IInv => RunawaysKnown BY DEF IInv, Asked, RunawaysKnown, Unlisted
<1> QED BY <1>1, BatchIsInvariant, PTL

(* All of it at once: what a batch reports of its calls can be relied on. *)
THEOREM ResultsAreHonest == ToolSpec => []ToolResultsAreHonest
<1> QED
  BY TypeCorrect, SideEffectsAreHonest, RunawaysAreKnown, PTL DEF ToolResultsAreHonest
(* The interceptors may rewrite a call, not make another of it: a handler   *)
(* is only ever started for the tool call the model asked for (the check   *)
(* at the end of the before_tool_call chain, replacement.py).              *)
StartedLawfully ==
  \A c \in Calls : toolPc[c] = "queued" \/ toolHandler[c] # "none" => lawful[c]

THEOREM HandlersAreLawful == ToolSpec => []StartedLawfully
<1> USE DEF StartedLawfully
<1>1. ToolInit => StartedLawfully BY DEF ToolInit
<1>2. IInv /\ StartedLawfully /\ [ToolNext]_toolVars => StartedLawfully'
  <2> SUFFICES ASSUME IInv, StartedLawfully, [ToolNext]_toolVars PROVE StartedLawfully'
    OBVIOUS
  <2>1. /\ toolPc \in [Calls -> Places] /\ toolHandler \in [Calls -> Handlers]
        /\ lawful \in [Calls -> BOOLEAN]
        /\ \A c \in Calls : toolPc[c] = "before" => toolHandler[c] = "none"
    BY DEF IInv, ToolTypeOK, Progress
  <2>2. ASSUME NEW c \in Calls, NEW known \in BOOLEAN, NEW valid \in BOOLEAN,
               Begin(c, known, valid)
        PROVE  StartedLawfully'
    BY <2>1, <2>2 DEF Begin, Answer, Invoke, Conclude
  <2>3. ASSUME NEW c \in Calls, NEW verdict, NEW valid \in BOOLEAN, Before(c, verdict, valid)
        PROVE  StartedLawfully'
    BY <2>1, <2>3 DEF Before, Answer, Invoke, Conclude, RaiseCall
  <2>4. ASSUME NEW c \in Calls, NEW verdict, After(c, verdict) PROVE StartedLawfully'
    BY <2>1, <2>4 DEF After, RaiseCall
  <2>5. ASSUME NEW c \in Calls, HandlerSeen(c) \/ TimesOut(c) \/ GraceOver(c) \/ Kill(c)
        PROVE  StartedLawfully'
    BY <2>1, <2>5 DEF HandlerSeen, TimesOut, GraceOver, Kill, Conclude
  <2>6. ASSUME NEW c \in Calls, NEW how \in {"returned", "raised", "timed_out"},
               HandlerEnds(c, how)
        PROVE  StartedLawfully'
    BY <2>1, <2>6 DEF HandlerEnds
  <2>7. CASE CancelTurn BY <2>1, <2>7 DEF CancelTurn
  <2>8. CASE UNCHANGED toolVars BY <2>8 DEF toolVars
  <2> QED BY <2>2, <2>3, <2>4, <2>5, <2>6, <2>7, <2>8 DEF ToolNext, Step, BatchOver
<1> QED BY <1>1, <1>2, BatchIsInvariant, PTL DEF ToolSpec

(* A call that has ended stays ended, and nothing rewrites what it said.    *)
(* Whoever read the result of a batch has read the last word.              *)
THEOREM AnswersAreFinal ==
  ToolSpec => [][\A c \in Calls : toolPc[c] \in Ended =>
                   toolPc'[c] = toolPc[c] /\ result'[c] = result[c]]_toolVars
<1> DEFINE Final == \A c \in Calls : toolPc[c] \in Ended =>
                      toolPc'[c] = toolPc[c] /\ result'[c] = result[c]
<1>1. ASSUME IInv, ToolNext PROVE Final
  <2>1. /\ toolPc \in [Calls -> Places] /\ result \in [Calls -> Results]
    BY <1>1 DEF IInv, ToolTypeOK
  <2> USE DEF Ended
  <2>2. ASSUME NEW c \in Calls, Step(c) PROVE Final
    BY <2>1, <2>2 DEF Step, Begin, Before, After, HandlerSeen, TimesOut, GraceOver,
                      Answer, Invoke, Conclude, RaiseCall
  <2>3. ASSUME NEW c \in Calls, NEW how, HandlerEnds(c, how) PROVE Final
    BY <2>3 DEF HandlerEnds
  <2>4. CASE CancelTurn BY <2>4 DEF CancelTurn
  <2>5. ASSUME NEW c \in Calls, Kill(c) PROVE Final BY <2>1, <2>5 DEF Kill
  <2>6. CASE BatchOver BY <2>6 DEF BatchOver, toolVars
  <2> QED BY <1>1, <2>2, <2>3, <2>4, <2>5, <2>6 DEF ToolNext
<1> QED BY <1>1, BatchIsInvariant, PTL DEF ToolSpec
-----------------------------------------------------------------------------
(* Retry: the attempts of one call of the model.                           *)

ChunkType == [attempt : Nat, place : Nat, kind : Kinds]

(* A request in flight was preceded by as many failures as it had attempts  *)
(* before this one, all of them told of as retried; a back-off follows an  *)
(* attempt that is not the last, and is over before the turn's time is.    *)
Attempts ==
  /\ pc \in {"call", "returned"} => Len(told) = attempt - 1
  /\ \A i \in DOMAIN told : i < attempt => told[i] = TRUE
  /\ pc = "backoff" =>
       /\ Len(told) = attempt /\ told[attempt] = TRUE
       /\ attempt < MaxAttempts
       /\ wait.left + wait.slice < remaining
  /\ pc = "raised" /\ ~gate.opened /\ failure # "cancelled" =>
       Len(told) = attempt /\ told[attempt] = FALSE
  /\ Len(told) <= attempt

(* Until the gate opens it holds all that has arrived and nothing is        *)
(* delivered; once it is open, all that has arrived is delivered.  What an *)
(* ended call leaves delivered is the beginning of what has arrived.       *)
Gate ==
  /\ pc = "call" /\ gate.opened =>
       setting.stream /\ gate.held = << >> /\ delivered = ChunksOf(attempt, arrived)
  /\ pc = "call" /\ ~gate.opened =>
       delivered = << >> /\ gate.held = ChunksOf(attempt, arrived)
  /\ pc = "backoff" => delivered = << >> /\ ~gate.opened
  /\ pc = "returned" =>
       /\ delivered = ChunksOf(attempt, arrived)
       /\ gate.opened \/ ~TreatedAsEmpty(arrived)
  /\ pc = "raised" =>
       /\ Len(delivered) <= Len(arrived)
       /\ \A i \in 1..Len(delivered) : delivered[i] = ChunksOf(attempt, arrived)[i]

RetryIInv == TypeOK /\ Attempts /\ Gate
-----------------------------------------------------------------------------
(* The chunks of an attempt are a sequence of chunks, as long as the attempt. *)
LEMMA ChunksType ==
  ASSUME NEW a \in Nat, NEW kinds \in Seq(Kinds)
  PROVE  /\ ChunksOf(a, kinds) \in Seq(ChunkType)
         /\ Len(ChunksOf(a, kinds)) = Len(kinds)
         /\ \A i \in 1..Len(kinds) :
              ChunksOf(a, kinds)[i] = [attempt |-> a, place |-> i, kind |-> kinds[i]]
<1> DEFINE chunks == ChunksOf(a, kinds)
<1>1. /\ DOMAIN kinds = 1..Len(kinds) /\ Len(kinds) \in Nat
      /\ \A i \in 1..Len(kinds) : kinds[i] \in Kinds
  OBVIOUS
<1>2. chunks = [i \in 1..Len(kinds) |-> [attempt |-> a, place |-> i, kind |-> kinds[i]]]
  BY <1>1 DEF ChunksOf
<1>3. chunks \in [1..Len(kinds) -> ChunkType]
  <2>1. \A i \in 1..Len(kinds) :
          [attempt |-> a, place |-> i, kind |-> kinds[i]] \in ChunkType
    BY <1>1 DEF ChunkType
  <2> QED BY <1>2, <2>1
<1>4. chunks \in Seq(ChunkType) /\ Len(chunks) = Len(kinds)
  BY <1>1, <1>3, SeqDef, LenProperties
<1>5. \A i \in 1..Len(kinds) :
        chunks[i] = [attempt |-> a, place |-> i, kind |-> kinds[i]]
  BY <1>2
<1> QED BY <1>4, <1>5

(* One more chunk is one more at the end. *)
LEMMA ChunksAppend ==
  ASSUME NEW a \in Nat, NEW kinds \in Seq(Kinds), NEW kind \in Kinds
  PROVE  LET more == Append(kinds, kind) IN
         /\ more \in Seq(Kinds) /\ Len(more) = Len(kinds) + 1
         /\ ChunksOf(a, more)[Len(more)] \in ChunkType
         /\ ChunksOf(a, more)[Len(more)].kind = kind
         /\ Append(ChunksOf(a, kinds), ChunksOf(a, more)[Len(more)]) = ChunksOf(a, more)
<1> DEFINE more == Append(kinds, kind)
           last == ChunksOf(a, more)[Len(more)]
<1>1. more \in Seq(Kinds) /\ Len(more) = Len(kinds) + 1 /\ more[Len(more)] = kind
  OBVIOUS
<1>2. last = [attempt |-> a, place |-> Len(more), kind |-> kind]
  <2>1. Len(more) \in Nat /\ Len(more) \in 1..Len(more)
    BY <1>1, LenProperties
  <2>2. last = [attempt |-> a, place |-> Len(more), kind |-> more[Len(more)]]
    BY <1>1, <2>1, ChunksType
  <2> QED BY <1>1, <2>2
<1>3. last \in ChunkType /\ last.kind = kind
  BY <1>1, <1>2 DEF ChunkType
<1>4. Append(ChunksOf(a, kinds), last) = ChunksOf(a, more)
  <2>1. ChunksOf(a, kinds) \in Seq(ChunkType) /\ Len(ChunksOf(a, kinds)) = Len(kinds)
    BY ChunksType
  <2>2. ChunksOf(a, more) \in Seq(ChunkType) /\ Len(ChunksOf(a, more)) = Len(kinds) + 1
    BY <1>1, ChunksType
  <2>3. /\ Append(ChunksOf(a, kinds), last) \in Seq(ChunkType)
        /\ Len(Append(ChunksOf(a, kinds), last)) = Len(kinds) + 1
    BY <1>3, <2>1, AppendProperties
  <2>4. ASSUME NEW i \in 1..Len(kinds) + 1
        PROVE  Append(ChunksOf(a, kinds), last)[i] = ChunksOf(a, more)[i]
    <3>1. CASE i = Len(kinds) + 1
      BY <3>1, <1>1, <1>3, <2>1, AppendProperties
    <3>2. CASE i \in 1..Len(kinds)
      <4>1. Append(ChunksOf(a, kinds), last)[i] = ChunksOf(a, kinds)[i]
        BY <3>2, <1>3, <2>1, AppendProperties
      <4>2. more[i] = kinds[i]
        BY <3>2
      <4>3. ChunksOf(a, kinds)[i] = [attempt |-> a, place |-> i, kind |-> kinds[i]]
        BY <3>2, ChunksType
      <4>4. ChunksOf(a, more)[i] = [attempt |-> a, place |-> i, kind |-> more[i]]
        BY <1>1, ChunksType
      <4> QED BY <4>1, <4>2, <4>3, <4>4
    <3>3. i = Len(kinds) + 1 \/ i \in 1..Len(kinds)
      <4>1. Len(kinds) \in Nat BY LenProperties
      <4> QED BY <4>1
    <3> QED BY <3>1, <3>2, <3>3
  <2> QED BY <2>2, <2>3, <2>4, SeqEqual
<1> QED BY <1>1, <1>3, <1>4

(* Delays are numbers of ticks, and there are none for the last attempt. *)
LEMMA DelaysType ==
  ASSUME TypeOK, NEW cause \in Causes, NEW delay \in Delays(cause)
  PROVE  delay \in Nat /\ attempt < MaxAttempts
<1>1. cause \notin {"cancelled", "permanent"} /\ ~(attempt >= MaxAttempts)
  BY DEF Delays
<1>2. delay \in Jittered \/ delay \in Hints
  BY <1>1 DEF Delays
<1>3. delay \in Jittered => delay \in Nat
  <2>1. attempt - 1 \in Nat BY RetryAssumption DEF TypeOK
  <2>2. 2^(attempt - 1) \in Int BY <2>1, SMT
  <2>3. BaseDelay * 2^(attempt - 1) \in Int BY <2>2, RetryAssumption
  <2>4. Ceiling \in Int BY <2>3, RetryAssumption DEF Ceiling, Least
  <2>5. \A d \in (Ceiling \div 2)..(Ceiling - 1) : d \in Int BY <2>4
  <2> QED BY <2>5 DEF Jittered, Most
<1>4. attempt < MaxAttempts
  <2>1. attempt \in 1..MaxAttempts BY DEF TypeOK
  <2> QED BY <1>1, <2>1, RetryAssumption
<1>5. Hints \subseteq Nat BY RetryAssumption
<1> QED BY <1>2, <1>3, <1>4, <1>5

(* Waiting before a retry keeps the invariant: nothing has been shown, the  *)
(* failure has been told, it was not the last attempt, and there is time.  *)
LEMMA AwaitStep ==
  ASSUME RetryIInv, NEW delay \in Nat, Await(delay), delay < remaining,
         pc \in {"call", "backoff"}, ~gate.opened, attempt < MaxAttempts,
         told' \in Seq(BOOLEAN), Len(told') = attempt,
         \A i \in 1..attempt : told'[i] = TRUE,
         UNCHANGED <<setting, delivered, remaining, token>>
  PROVE  RetryIInv'
<1> USE RetryAssumption
<1>0. delivered = << >> BY DEF RetryIInv, Gate
<1>1. attempt \in 1..MaxAttempts BY DEF RetryIInv, TypeOK
<1>2. CASE token # "none"
  <2>1. Abort BY <1>2 DEF Await
  <2>2. TypeOK' BY <2>1, <1>1 DEF RetryIInv, TypeOK, Abort, Raise, NoWait, Causes
  <2>3. Attempts' BY <2>1, <1>1 DEF Abort, Raise, Attempts
  <2>4. Gate' BY <2>1, <1>0 DEF RetryIInv, TypeOK, Gate, Abort, Raise
  <2> QED BY <2>2, <2>3, <2>4 DEF RetryIInv
<1>3. CASE token = "none" /\ delay = 0
  <2>1. Resend BY <1>3 DEF Await
  <2>2. ChunksOf(attempt', arrived') = << >> BY <2>1 DEF Resend, ChunksOf
  <2>3. TypeOK' BY <2>1, <1>1 DEF RetryIInv, TypeOK, Resend, ClosedGate, NoWait
  <2>4. Attempts' BY <2>1, <1>1 DEF Attempts, Resend
  <2>5. Gate' BY <2>1, <2>2, <1>0 DEF Gate, Resend, ClosedGate
  <2> QED BY <2>3, <2>4, <2>5 DEF RetryIInv
<1>4. CASE token = "none" /\ delay # 0
  <2>1. Sleep(delay) BY <1>4 DEF Await
  <2>2. /\ wait' \in [left : Nat, slice : 0..PollSlice]
        /\ wait'.left + wait'.slice = delay
    BY <2>1 DEF Sleep, Least
  <2>3. TypeOK' BY <2>1, <2>2, <1>1 DEF RetryIInv, TypeOK, Sleep
  <2>4. Attempts' BY <2>1, <2>2, <1>1 DEF Attempts, Sleep
  <2>5. Gate' BY <2>1, <1>0 DEF Gate, RetryIInv, Sleep
  <2> QED BY <2>3, <2>4, <2>5 DEF RetryIInv
<1> QED BY <1>2, <1>3, <1>4

(* A failed attempt that has shown nothing keeps it. *)
LEMMA FailsStep ==
  ASSUME RetryIInv, NEW cause \in Causes, Fails(cause), pc = "call", ~gate.opened
  PROVE  RetryIInv'
<1>0. UNCHANGED <<setting, delivered, remaining, token>> BY DEF Fails
<1>1. /\ attempt \in 1..MaxAttempts /\ told \in Seq(BOOLEAN)
      /\ Len(told) = attempt - 1 /\ \A i \in 1..(attempt - 1) : told[i] = TRUE
  BY RetryAssumption DEF RetryIInv, TypeOK, Attempts
<1>2. ASSUME NEW word \in BOOLEAN, told' = Append(told, word)
      PROVE  /\ told' \in Seq(BOOLEAN) /\ Len(told') = attempt
             /\ told'[attempt] = word
             /\ \A i \in 1..(attempt - 1) : told'[i] = TRUE
  <2>1. attempt \in Nat BY <1>1, RetryAssumption
  <2> QED BY <1>1, <1>2, <2>1, AppendProperties
<1>3. ASSUME NEW delay \in Delays(cause), delay < remaining,
             told' = Append(told, TRUE), Await(delay)
      PROVE  RetryIInv'
  <2>1. delay \in Nat /\ attempt < MaxAttempts BY DelaysType DEF RetryIInv
  <2>2. /\ told' \in Seq(BOOLEAN) /\ Len(told') = attempt
        /\ \A i \in 1..attempt : told'[i] = TRUE
    BY <1>1, <1>2, <1>3
  <2> QED BY <1>0, <1>3, <2>1, <2>2, AwaitStep
<1>4. ASSUME GiveUp(cause) PROVE RetryIInv'
  <2>1. /\ told' \in Seq(BOOLEAN) /\ Len(told') = attempt
        /\ told'[attempt] = FALSE
        /\ \A i \in 1..(attempt - 1) : told'[i] = TRUE
    BY <1>2, <1>4 DEF GiveUp
  <2>2. TypeOK' BY <1>0, <1>1, <1>4, <2>1, RetryAssumption DEF GiveUp, Raise, RetryIInv, TypeOK
  <2>3. Attempts' BY <1>1, <1>4, <2>1 DEF GiveUp, Raise, Attempts
  <2>4. Gate' BY <1>0, <1>4 DEF GiveUp, Raise, RetryIInv, TypeOK, Gate
  <2> QED BY <2>2, <2>3, <2>4 DEF RetryIInv
<1> QED BY <1>3, <1>4 DEF Fails

-----------------------------------------------------------------------------
LEMMA EmptyConcat ==
  ASSUME NEW S, NEW s \in Seq(S) PROVE << >> \o s = s /\ s \o << >> = s
OBVIOUS

LEMMA InitInv == Init => RetryIInv
<1> SUFFICES ASSUME Init PROVE RetryIInv
  OBVIOUS
<1> USE RetryAssumption DEF Init
<1>1. TypeOK BY DEF TypeOK, ClosedGate, NoWait
<1>2. Attempts BY DEF Attempts
<1>3. ChunksOf(attempt, arrived) = << >> BY DEF ChunksOf
<1>4. Gate BY <1>3 DEF Gate, ClosedGate
<1> QED BY <1>1, <1>2, <1>4 DEF RetryIInv

(* A call that is cancelled with nothing shown, or with all that arrived    *)
(* before this chunk shown, has shown the beginning of what arrived.       *)
LEMMA ChunkStep ==
  ASSUME RetryIInv, NEW kind \in Kinds, Chunk(kind) PROVE RetryIInv'
<1> DEFINE kinds == Append(arrived, kind)
           chunk == ChunksOf(attempt, kinds)[Len(kinds)]
<1>0. pc = "call" /\ setting.stream BY DEF Chunk
<1>1. CASE kind = "error" /\ ~gate.opened
  BY <1>0, <1>1, FailsStep DEF Chunk, Causes
<1>2. CASE ~(kind = "error" /\ ~gate.opened)
  <2>1. arrived' = kinds /\ Admit(chunk)
        /\ UNCHANGED <<setting, attempt, remaining, wait, token, told>>
    BY <1>2 DEF Chunk, Chunks
  <2>2. attempt \in Nat /\ attempt \in 1..MaxAttempts /\ arrived \in Seq(Kinds)
    BY RetryAssumption DEF RetryIInv, TypeOK
  <2>3. /\ kinds \in Seq(Kinds) /\ Len(kinds) = Len(arrived) + 1
        /\ chunk \in ChunkType /\ chunk.kind = kind
        /\ Append(ChunksOf(attempt, arrived), chunk) = ChunksOf(attempt, kinds)
    BY <2>2, ChunksAppend
  <2>4. /\ ChunksOf(attempt, arrived) \in Seq(ChunkType)
        /\ Len(ChunksOf(attempt, arrived)) = Len(arrived)
        /\ ChunksOf(attempt, kinds) \in Seq(ChunkType)
        /\ Len(ChunksOf(attempt, kinds)) = Len(kinds)
        /\ \A i \in 1..Len(arrived) :
             ChunksOf(attempt, arrived)[i] = ChunksOf(attempt, kinds)[i]
    <3>1. \A i \in 1..Len(arrived) :
            Append(ChunksOf(attempt, arrived), chunk)[i] = ChunksOf(attempt, arrived)[i]
      BY <2>2, <2>3, ChunksType, AppendProperties
    <3> QED BY <2>2, <2>3, <3>1, ChunksType
  <2> HIDE DEF kinds, chunk
  <2>5. CASE gate.opened
    <3>1. Deliver(<<chunk>>) /\ gate' = gate BY <2>1, <2>5 DEF Admit
    <3>2. delivered = ChunksOf(attempt, arrived) /\ gate.held = << >>
      BY <1>0, <2>5 DEF RetryIInv, Gate
    <3>3. delivered \o <<chunk>> = ChunksOf(attempt, kinds)
      BY <2>3, <2>4, <3>2, AppendIsConcat
    <3>4. TypeOK'
      BY <2>1, <2>2, <2>3, <2>4, <3>1, <3>2, <3>3
      DEF Deliver, Raise, RetryIInv, TypeOK, ChunkType, Causes
    <3>5. Attempts' BY <1>0, <2>1, <2>5, <3>1 DEF Deliver, Raise, RetryIInv, Attempts
    <3>6. Gate'
      <4>1. CASE token # "none"
        <5>1. pc' = "raised" /\ delivered' = ChunksOf(attempt, arrived)
          BY <3>1, <3>2, <4>1 DEF Deliver, Raise
        <5>2. Len(delivered') = Len(arrived) /\ Len(arrived) \in Nat
          BY <5>1, <2>2, <2>4, LenProperties
        <5> QED BY <5>1, <5>2, <2>1, <2>3, <2>4 DEF Gate
      <4>2. CASE token = "none"
        BY <1>0, <2>1, <2>5, <3>1, <3>2, <3>3, <4>2 DEF Deliver, Gate
      <4> QED BY <4>1, <4>2
    <3> QED BY <3>4, <3>5, <3>6 DEF RetryIInv
  <2>6. CASE ~gate.opened
    <3>1. delivered = << >> /\ gate.held = ChunksOf(attempt, arrived)
      BY <1>0, <2>6 DEF RetryIInv, Gate
    <3> DEFINE flushed == ChunksOf(attempt, kinds)
    <3>2. Append(gate.held, chunk) = flushed BY <2>3, <3>1
    <3>3. \/ /\ gate' = [held |-> << >>, opened |-> TRUE]
             /\ Deliver(flushed)
          \/ /\ Len(flushed) < MaxHeld
             /\ gate' = [gate EXCEPT !.held = flushed]
             /\ UNCHANGED <<pc, failure, delivered>>
      <4>1. Len(flushed) \in Nat BY <2>3, <2>4, LenProperties
      <4> QED BY <2>1, <2>6, <3>2, <4>1, RetryAssumption DEF Admit
    <3>4. << >> \o flushed = flushed BY <2>4, EmptyConcat
    <3> HIDE DEF flushed
    <3>5. flushed \in Seq(ChunkType) /\ flushed = ChunksOf(attempt, kinds)
      BY <2>4 DEF flushed
    <3>6. CASE /\ gate' = [held |-> << >>, opened |-> TRUE]
               /\ Deliver(flushed)
      <4>1. \/ pc' = "raised" /\ failure' = "cancelled" /\ delivered' = << >>
            \/ UNCHANGED <<pc, failure>> /\ delivered' = flushed
        BY <3>1, <3>4, <3>6 DEF Deliver, Raise
      <4>2. TypeOK'
        <5>1. /\ gate' \in [held : Seq(ChunkType), opened : BOOLEAN]
              /\ Len(gate'.held) < MaxHeld
          <6>1. << >> \in Seq(ChunkType) /\ Len(<< >>) = 0
            OBVIOUS
          <6> QED BY <3>6, <6>1, RetryAssumption
        <5>2. delivered' \in Seq(ChunkType)
          <6>1. << >> \in Seq(ChunkType)
            OBVIOUS
          <6> QED BY <3>1, <3>5, <4>1, <6>1
        <5>3. pc' \in {"call", "raised"} /\ failure' \in Causes \cup {"none"}
          BY <1>0, <4>1 DEF RetryIInv, TypeOK, Causes
        <5> QED BY <2>1, <2>3, <5>1, <5>2, <5>3 DEF RetryIInv, TypeOK, ChunkType
      <4>3. Attempts' BY <1>0, <2>1, <3>6, <4>1 DEF RetryIInv, Attempts
      <4>4. Gate'
        <5>1. Len(kinds) \in Nat /\ Len(<< >>) = 0 BY <2>3, LenProperties
        <5> QED BY <1>0, <2>1, <3>5, <3>6, <4>1, <5>1 DEF Gate
      <4> QED BY <4>2, <4>3, <4>4 DEF RetryIInv
    <3>7. CASE /\ Len(flushed) < MaxHeld
               /\ gate' = [gate EXCEPT !.held = flushed]
               /\ UNCHANGED <<pc, failure, delivered>>
      <4>1. gate'.held = flushed /\ gate'.opened = FALSE
        BY <2>6, <3>7 DEF RetryIInv, TypeOK
      <4>2. TypeOK'
        BY <2>1, <2>2, <2>3, <3>5, <3>7, <4>1 DEF RetryIInv, TypeOK, ChunkType
      <4>3. Attempts' BY <1>0, <2>1, <3>7, <4>1 DEF RetryIInv, Attempts
      <4>4. Gate' BY <1>0, <2>1, <3>1, <3>5, <3>7, <4>1 DEF Gate
      <4> QED BY <4>2, <4>3, <4>4 DEF RetryIInv
    <3> QED BY <3>3, <3>6, <3>7
  <2> QED BY <2>5, <2>6
<1> QED BY <1>1, <1>2

LEMMA EndStep ==
  ASSUME RetryIInv, StreamEnds PROVE RetryIInv'
<1>0. pc = "call" /\ setting.stream BY DEF StreamEnds
<1>1. CASE ~gate.opened /\ TreatedAsEmpty(arrived)
  BY <1>0, <1>1, FailsStep DEF StreamEnds, Causes
<1>2. CASE gate.opened \/ ~TreatedAsEmpty(arrived)
  <2>1. FlushHeld BY <1>2 DEF StreamEnds
  <2>2. attempt \in Nat /\ arrived \in Seq(Kinds) /\ Len(arrived) \in Nat
    BY RetryAssumption DEF RetryIInv, TypeOK
  <2>3. ChunksOf(attempt, arrived) \in Seq(ChunkType) BY <2>2, ChunksType
  <2>4. /\ gate.opened => delivered = ChunksOf(attempt, arrived) /\ gate.held = << >>
        /\ ~gate.opened => delivered = << >> /\ gate.held = ChunksOf(attempt, arrived)
    BY <1>0 DEF RetryIInv, Gate
  <2>5. delivered \o gate.held = ChunksOf(attempt, arrived)
    <3>1. CASE gate.opened BY <2>3, <2>4, <3>1, EmptyConcat
    <3>2. CASE ~gate.opened BY <2>3, <2>4, <3>2, EmptyConcat
    <3> QED BY <3>1, <3>2
  <2>6. /\ arrived' = arrived /\ attempt' = attempt /\ gate' = gate
        /\ UNCHANGED <<setting, remaining, wait, token, told>>
    BY <2>1 DEF FlushHeld
  <2>7. CASE gate.held # << >> /\ token # "none"
    <3>1. pc' = "raised" /\ failure' = "cancelled" /\ delivered' = << >>
      BY <2>1, <2>4, <2>7 DEF FlushHeld, Raise
    <3>2. TypeOK' BY <2>6, <3>1 DEF RetryIInv, TypeOK, Causes
    <3>3. Attempts' BY <1>0, <2>6, <3>1 DEF RetryIInv, Attempts
    <3>4. Gate' BY <2>2, <2>6, <3>1 DEF Gate
    <3> QED BY <3>2, <3>3, <3>4 DEF RetryIInv
  <2>8. CASE ~(gate.held # << >> /\ token # "none")
    <3>1. pc' = "returned" /\ failure' = failure
          /\ delivered' = ChunksOf(attempt, arrived)
      BY <2>1, <2>5, <2>8 DEF FlushHeld, Return
    <3>2. TypeOK' BY <2>3, <2>6, <3>1 DEF RetryIInv, TypeOK, ChunkType
    <3>3. Attempts' BY <1>0, <2>6, <3>1 DEF RetryIInv, Attempts
    <3>4. Gate' BY <1>2, <2>6, <3>1 DEF Gate, TreatedAsEmpty
    <3> QED BY <3>2, <3>3, <3>4 DEF RetryIInv
  <2> QED BY <2>7, <2>8
<1> QED BY <1>1, <1>2

LEMMA ResponseStep ==
  ASSUME RetryIInv, NEW kind \in Kinds, Response(kind) PROVE RetryIInv'
<1>0. pc = "call" /\ ~setting.stream /\ ~gate.opened
  BY DEF Response, RetryIInv, Gate
<1>1. CASE TreatedAsEmpty(<<kind>>)
  BY <1>0, <1>1, FailsStep DEF Response, Causes
<1>2. CASE ~TreatedAsEmpty(<<kind>>)
  <2>1. /\ pc' = "returned" /\ failure' = failure /\ arrived' = <<kind>>
        /\ delivered' = delivered \o ChunksOf(attempt, <<kind>>)
        /\ UNCHANGED <<setting, attempt, gate, remaining, wait, token, told>>
    BY <1>2 DEF Response, Return, Chunks
  <2>2. attempt \in Nat /\ <<kind>> \in Seq(Kinds)
    BY RetryAssumption DEF RetryIInv, TypeOK
  <2>3. ChunksOf(attempt, <<kind>>) \in Seq(ChunkType) BY <2>2, ChunksType
  <2>4. delivered = << >> BY <1>0 DEF RetryIInv, Gate
  <2>5. delivered' = ChunksOf(attempt, arrived') BY <2>1, <2>3, <2>4, EmptyConcat
  <2>6. TypeOK' BY <2>1, <2>2, <2>3, <2>5 DEF RetryIInv, TypeOK, ChunkType
  <2>7. Attempts' BY <1>0, <2>1 DEF RetryIInv, Attempts
  <2>8. Gate' BY <1>2, <2>1, <2>5 DEF Gate, TreatedAsEmpty
  <2> QED BY <2>6, <2>7, <2>8 DEF RetryIInv
<1> QED BY <1>1, <1>2

LEMMA RaiseStep ==
  ASSUME RetryIInv, NEW cause \in Causes, ProviderRaises(cause) PROVE RetryIInv'
<1>0. pc = "call" BY DEF ProviderRaises
<1>1. CASE ~gate.opened
  BY <1>0, <1>1, FailsStep DEF ProviderRaises
<1>2. CASE gate.opened
  <2>1. /\ pc' = "raised" /\ failure' = cause
        /\ UNCHANGED <<setting, attempt, arrived, gate, delivered, remaining,
                       wait, token, told>>
    BY <1>2 DEF ProviderRaises, Raise
  <2>2. delivered = ChunksOf(attempt, arrived) BY <1>0, <1>2 DEF RetryIInv, Gate
  <2>3. Len(delivered) = Len(arrived) /\ Len(arrived) \in Nat
    <3>1. attempt \in Nat /\ arrived \in Seq(Kinds)
      BY RetryAssumption DEF RetryIInv, TypeOK
    <3> QED BY <2>2, <3>1, ChunksType, LenProperties
  <2>4. TypeOK' BY <2>1 DEF RetryIInv, TypeOK
  <2>5. Attempts' BY <1>0, <1>2, <2>1 DEF RetryIInv, Attempts
  <2>6. Gate' BY <2>1, <2>2, <2>3 DEF Gate
  <2> QED BY <2>4, <2>5, <2>6 DEF RetryIInv
<1> QED BY <1>1, <1>2

LEMMA WakeStep ==
  ASSUME RetryIInv, Wake PROVE RetryIInv'
<1>1. /\ pc = "backoff" /\ wait.slice = 0 /\ Await(wait.left)
      /\ UNCHANGED <<setting, delivered, remaining, token, told>>
  BY DEF Wake
<1>2. wait.left \in Nat /\ wait.left < remaining BY <1>1 DEF RetryIInv, TypeOK, Attempts
<1>3. /\ ~gate.opened /\ attempt < MaxAttempts /\ attempt \in Nat
      /\ told' \in Seq(BOOLEAN) /\ Len(told') = attempt
      /\ \A i \in 1..attempt : told'[i] = TRUE
  <2>1. attempt \in 1..MaxAttempts /\ told \in Seq(BOOLEAN)
    BY DEF RetryIInv, TypeOK
  <2>2. /\ Len(told) = attempt /\ told[attempt] = TRUE /\ attempt < MaxAttempts
        /\ \A i \in DOMAIN told : i < attempt => told[i] = TRUE
    BY <1>1 DEF RetryIInv, Attempts
  <2>3. \A i \in 1..attempt : told[i] = TRUE
    <3>1. DOMAIN told = 1..attempt BY <2>1, <2>2
    <3> QED BY <2>1, <2>2, <3>1, RetryAssumption
  <2>4. ~gate.opened BY <1>1 DEF RetryIInv, Gate
  <2> QED BY <1>1, <2>1, <2>2, <2>3, <2>4, RetryAssumption
<1> QED BY <1>1, <1>2, <1>3, AwaitStep

LEMMA TickStep ==
  ASSUME RetryIInv, Tick PROVE RetryIInv'
<1>1. UNCHANGED <<setting, pc, attempt, arrived, gate, delivered, token, failure, told>>
  BY DEF Tick
<1>2. pc = "call" \/ (pc = "backoff" /\ wait.slice > 0)
  BY DEF Tick
<1>3. /\ remaining \in 0..Deadline /\ wait \in [left : Nat, slice : 0..PollSlice]
      /\ pc = "backoff" => wait.left + wait.slice < remaining
  BY DEF RetryIInv, TypeOK, Attempts
<1>4. /\ remaining' \in 0..Deadline
      /\ pc = "backoff" => remaining' = remaining - 1
  BY <1>2, <1>3, RetryAssumption DEF Tick, Most
<1>5. /\ wait' \in [left : Nat, slice : 0..PollSlice]
      /\ wait'.left = wait.left
      /\ pc = "backoff" => wait'.slice = wait.slice - 1
  BY <1>2, <1>3, RetryAssumption DEF Tick, Most
<1>6. TypeOK' BY <1>1, <1>4, <1>5 DEF RetryIInv, TypeOK
<1>7. pc = "backoff" => wait'.left + wait'.slice < remaining'
  BY <1>2, <1>3, <1>4, <1>5, RetryAssumption
<1>8. Attempts' BY <1>1, <1>2, <1>7 DEF RetryIInv, Attempts
<1>9. Gate' BY <1>1 DEF RetryIInv, Gate, TreatedAsEmpty
<1> QED BY <1>6, <1>8, <1>9 DEF RetryIInv

(* Every step keeps the invariant. *)
LEMMA NextInv == RetryIInv /\ [Next]_vars => RetryIInv'
<1> SUFFICES ASSUME RetryIInv, [Next]_vars PROVE RetryIInv'
  OBVIOUS
<1>1. ASSUME NEW kind \in Kinds, Chunk(kind) PROVE RetryIInv'
  BY <1>1, ChunkStep
<1>2. ASSUME NEW kind \in {"text", "end_turn", "refused"}, Response(kind) PROVE RetryIInv'
  <2>1. kind \in Kinds BY DEF Kinds, Stops
  <2> QED BY <1>2, <2>1, ResponseStep
<1>3. CASE StreamEnds
  BY <1>3, EndStep
<1>4. ASSUME NEW cause \in {"transient", "permanent", "cancelled"},
             ProviderRaises(cause)
      PROVE  RetryIInv'
  <2>1. cause \in Causes BY DEF Causes
  <2> QED BY <1>4, <2>1, RaiseStep
<1>5. CASE Wake
  BY <1>5, WakeStep
<1>6. CASE Tick
  BY <1>6, TickStep
<1>7. ASSUME NEW reason \in {"user", "timeout"}, Cancel(reason) PROVE RetryIInv'
  BY <1>7 DEF Cancel, RetryIInv, TypeOK, Attempts, Gate, TreatedAsEmpty
<1>8. CASE UNCHANGED vars
  BY <1>8 DEF vars, RetryIInv, TypeOK, Attempts, Gate, TreatedAsEmpty
<1> QED
  BY <1>1, <1>2, <1>3, <1>4, <1>5, <1>6, <1>7, <1>8 DEF Next, Terminated

LEMMA Invariance == Spec => []RetryIInv
BY InitInv, NextInv, PTL DEF Spec
-----------------------------------------------------------------------------
(* Type correctness: among others, there are never more attempts than the   *)
(* policy allows and the gate never holds more than MaxHeld chunks.        *)
THEOREM RetryTypeCorrect == Spec => []TypeOK
<1>1. RetryIInv => TypeOK BY DEF RetryIInv
<1> QED BY <1>1, Invariance, PTL

(* What a turn shows of a model request comes from one attempt, in order    *)
(* and with no gap, however many attempts failed before it.                *)
THEOREM ShownIsOneAttempt == Spec => []StreamFaithful
<1>1. ASSUME RetryIInv PROVE StreamFaithful
  <2>1. attempt \in Nat /\ arrived \in Seq(Kinds) /\ Len(arrived) \in Nat
        /\ delivered \in Seq(ChunkType)
    BY <1>1, RetryAssumption DEF RetryIInv, TypeOK, ChunkType
  <2>2. /\ Len(ChunksOf(attempt, arrived)) = Len(arrived)
        /\ \A i \in 1..Len(arrived) : ChunksOf(attempt, arrived)[i] =
             [attempt |-> attempt, place |-> i, kind |-> arrived[i]]
    BY <2>1, ChunksType
  <2>3. pc = "returned" => Len(delivered) = Len(arrived)
    BY <1>1, <2>2 DEF RetryIInv, Gate
  <2>4. ASSUME NEW i \in 1..Len(delivered)
        PROVE  delivered[i] = [attempt |-> attempt, place |-> i, kind |-> arrived[i]]
    <3>1. CASE delivered = << >> BY <3>1
    <3>2. CASE delivered = ChunksOf(attempt, arrived) BY <2>2, <3>2
    <3>3. CASE pc = "raised"
      <4>1. Len(delivered) \in Nat /\ Len(delivered) <= Len(arrived)
            /\ delivered[i] = ChunksOf(attempt, arrived)[i]
        BY <1>1, <2>1, <3>3 DEF RetryIInv, Gate
      <4>2. i \in 1..Len(arrived) BY <2>1, <4>1
      <4> QED BY <2>2, <4>1, <4>2
    <3> QED BY <1>1, <3>1, <3>2, <3>3 DEF RetryIInv, TypeOK, Gate
  <2>5. DOMAIN delivered = 1..Len(delivered) BY <2>1
  <2> QED BY <2>3, <2>4, <2>5 DEF StreamFaithful
<1> QED BY <1>1, Invariance, PTL

(* A request goes out again only while nothing of it was shown, for a turn  *)
(* that nobody has cancelled and that still has time.                      *)
THEOREM ResendHarmless == Spec => ResendIsHarmless
<1> DEFINE Harmless == attempt' # attempt =>
                         delivered = << >> /\ token = "none" /\ remaining > 0
<1>1. ASSUME RetryIInv, [Next]_vars PROVE [Harmless]_vars
  <2> SUFFICES ASSUME attempt' # attempt
               PROVE  delivered = << >> /\ token = "none" /\ remaining > 0
    OBVIOUS
  <2>1. ASSUME NEW delay, Await(delay) PROVE token = "none" /\ delay = 0
    BY <2>1 DEF Await, Abort, Raise, Sleep
  <2>2. ASSUME NEW cause, Fails(cause) PROVE token = "none" /\ remaining > 0
    BY <2>1, <2>2 DEF Fails, GiveUp, Raise
  <2>3. ASSUME NEW kind, Chunk(kind)
        PROVE  ~gate.opened /\ pc = "call" /\ token = "none" /\ remaining > 0
    BY <2>2, <2>3 DEF Chunk
  <2>4. ASSUME StreamEnds
        PROVE  ~gate.opened /\ pc = "call" /\ token = "none" /\ remaining > 0
    BY <2>2, <2>4 DEF StreamEnds, FlushHeld
  <2>5. ASSUME NEW kind, Response(kind)
        PROVE  ~gate.opened /\ pc = "call" /\ token = "none" /\ remaining > 0
    BY <1>1, <2>2, <2>5 DEF Response, RetryIInv, Gate
  <2>6. ASSUME NEW cause, ProviderRaises(cause)
        PROVE  ~gate.opened /\ pc = "call" /\ token = "none" /\ remaining > 0
    BY <2>2, <2>6 DEF ProviderRaises
  <2>7. ASSUME Wake PROVE pc = "backoff" /\ token = "none" /\ remaining > 0
    <3>1. wait.left = 0 /\ wait.slice = 0 /\ pc = "backoff" /\ token = "none"
      BY <2>1, <2>7 DEF Wake
    <3> QED BY <1>1, <3>1 DEF RetryIInv, Attempts
  <2>8. ~Tick /\ ~Terminated /\ ~UNCHANGED vars
        /\ \A reason : ~Cancel(reason)
    BY DEF Tick, Terminated, Cancel, vars
  <2> QED
    BY <1>1, <2>3, <2>4, <2>5, <2>6, <2>7, <2>8 DEF Next, RetryIInv, Gate
<1> QED BY <1>1, Invariance, PTL DEF Spec, ResendIsHarmless

(* No failure is silent. *)
THEOREM FailuresAreReported == Spec => []FailuresReported
<1>1. ASSUME RetryIInv PROVE FailuresReported
  <2>1. attempt \in Nat /\ arrived \in Seq(Kinds) BY <1>1, RetryAssumption DEF RetryIInv, TypeOK
  <2>2. /\ Len(ChunksOf(attempt, arrived)) = Len(arrived)
        /\ ChunksOf(attempt, arrived) \in Seq(ChunkType)
        /\ \A i \in 1..Len(arrived) : ChunksOf(attempt, arrived)[i].kind = arrived[i]
    <3>1. \A i \in 1..Len(arrived) : ChunksOf(attempt, arrived)[i] =
            [attempt |-> attempt, place |-> i, kind |-> arrived[i]]
      BY <2>1, ChunksType
    <3>2. ASSUME NEW i \in 1..Len(arrived)
          PROVE  ChunksOf(attempt, arrived)[i].kind = arrived[i]
      <4> DEFINE chunk == [attempt |-> attempt, place |-> i, kind |-> arrived[i]]
      <4>1. ChunksOf(attempt, arrived)[i] = chunk BY <3>1
      <4>2. chunk.kind = arrived[i] OBVIOUS
      <4> HIDE DEF chunk
      <4> QED BY <4>1, <4>2
    <3>3. /\ Len(ChunksOf(attempt, arrived)) = Len(arrived)
          /\ ChunksOf(attempt, arrived) \in Seq(ChunkType)
      BY <2>1, ChunksType
    <3> QED BY <3>2, <3>3
  <2>3. ASSUME pc = "returned", Silent
        PROVE  setting.after_tools \/ ~setting.retry_empty \/ gate.opened
    <3>1. delivered = ChunksOf(attempt, arrived) BY <1>1, <2>3 DEF RetryIInv, Gate
    <3>2. /\ DOMAIN delivered = 1..Len(arrived) /\ DOMAIN arrived = 1..Len(arrived)
      BY <2>1, <2>2, <3>1
    <3>3. EmptyAnswer(arrived)
      BY <2>2, <2>3, <3>1, <3>2 DEF Silent, EmptyAnswer
    <3> QED BY <1>1, <2>3, <3>3 DEF RetryIInv, Gate, TreatedAsEmpty
  <2> QED BY <1>1, <2>3 DEF RetryIInv, Attempts, FailuresReported
<1> QED BY <1>1, Invariance, PTL
=============================================================================
