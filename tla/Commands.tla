------------------------------ MODULE Commands ------------------------------
(* Commands (contracts/command.py, kernel/routing/dispatcher.py, the routing *)
(* of a batch in kernel/turn/orchestrator.py, and /cancel of                 *)
(* builtins/commands_core): what may be declared, which line is a command,   *)
(* what its handler's answer becomes, and what of a batch the model is told. *)
(* A line is a message that is plain text, the prefix without a name, or a   *)
(* command: a name, in any case, and its arguments.                          *)
EXTENDS Naturals, Sequences, SequencesExt, FiniteSets

NoInput == "none"
(* Names that the pattern of a command's name refuses.                      *)
Shapeless == {"", "Help", "/help"}

Names(spec) == <<spec.name>> \o spec.aliases
(* Mutant: a parameter that must be given may follow one that need not.     *)
LegalParametersAnyOrder(params) == \A i \in DOMAIN params : params[i].repeated => i = Len(params)
LegalParameters(params) ==
    \A i \in DOMAIN params :
        /\ params[i].required => \A j \in 1..i - 1 : params[j].required
        /\ params[i].repeated => i = Len(params)
LegalSpec(spec) ==      \* CommandSpec.__post_init__
    /\ IsInjective(Names(spec)) /\ ToSet(Names(spec)) \intersect Shapeless = {}
    /\ LegalParameters(spec.params)

(* build_command_index: the names and aliases share one name space.         *)
Shared(specs) ==
    {<<i, j>> \in (DOMAIN specs) \X (DOMAIN specs) :
        i < j /\ ToSet(Names(specs[i])) \intersect ToSet(Names(specs[j])) # {}}
Refused == [ok |-> FALSE, of |-> [n \in {} |-> 0]]
(* Mutant: only the names are compared, a later alias takes an earlier one. *)
CommandIndexByName(specs) ==
    LET Latest(n) == CHOOSE i \in DOMAIN specs : /\ n \in ToSet(Names(specs[i]))
                                               /\ \A j \in i + 1..Len(specs) : n \notin ToSet(Names(specs[j]))
    IN  IF \E i, j \in DOMAIN specs : i # j /\ specs[i].name = specs[j].name
        THEN Refused
        ELSE [ok |-> TRUE, of |-> [n \in UNION {ToSet(Names(specs[i])) : i \in DOMAIN specs} |-> Latest(n)]]
CommandIndex(specs) ==
    IF Shared(specs) # {}
    THEN Refused
    ELSE [ok |-> TRUE, of |-> [n \in UNION {ToSet(Names(specs[i])) : i \in DOMAIN specs} |->
                                   CHOOSE i \in DOMAIN specs : n \in ToSet(Names(specs[i]))]]
-----------------------------------------------------------------------------
(* Dispatcher.dispatch                                                      *)

Outcome(disposition, input, ran) == [disposition |-> disposition, input |-> input, ran |-> ran]
(* What a handler may come back with: a result the contract accepts, one    *)
(* that CommandResult refuses to build, or an exception of its own.         *)
LegalResult(r) ==
    /\ r.disposition # "model_turn"
    /\ (r.disposition = "rejected") <=> r.error
    /\ (r.disposition = "command_continue") <=> (r.rewritten # NoInput)
    /\ r.disposition = "command_handled" => r.content
Invoke(i, r) ==     \* an exception of the handler is its rejection
    IF r.raises \/ ~LegalResult(r) THEN Outcome("rejected", NoInput, i)
    ELSE Outcome(r.disposition, r.rewritten, i)

Fits(spec, m) ==    \* _check_preconditions
    /\ spec.operator => m.operator
    /\ Len(m.args) >= Cardinality({k \in DOMAIN spec.params : spec.params[k].required})
    /\ Len(m.args) <= Len(spec.params) \/ (spec.params # <<>> /\ spec.params[Len(spec.params)].repeated)
(* Mutant: a command nobody declared is said to the model.                  *)
DispatchUnknown(specs, m, r) ==
    LET index == CommandIndex(specs).of
    IN  CASE m.line # "command" \/ m.name \notin DOMAIN index -> Outcome("model_turn", m.text, 0)
          [] m.name \in DOMAIN index /\ m.line = "command" ->
                IF Fits(specs[index[m.name]], m) THEN Invoke(index[m.name], r) ELSE Outcome("rejected", NoInput, 0)
Dispatch(specs, m, r) ==
    LET index == CommandIndex(specs).of
    IN  CASE m.line # "command" -> Outcome("model_turn", m.text, 0)
          [] m.line = "command" /\ m.name \notin DOMAIN index -> Outcome("rejected", NoInput, 0)
          [] OTHER -> IF Fits(specs[index[m.name]], m) THEN Invoke(index[m.name], r) ELSE Outcome("rejected", NoInput, 0)

(* TurnOrchestrator._route: message by message, to the first rejection; r   *)
(* is what the handler answers to each.                                     *)
Start == [rejected |-> FALSE, ran |-> <<>>, inputs |-> <<>>]
Routed(state, o) ==
    [rejected |-> o.disposition = "rejected",
     ran |-> IF o.ran = 0 THEN state.ran ELSE Append(state.ran, o.ran),
     inputs |-> IF o.input = NoInput THEN state.inputs ELSE Append(state.inputs, o.input)]
(* Mutant: the rest of a batch is routed after a rejection.                 *)
RouteOn(specs, batch, r) ==
    FoldLeft(LAMBDA state, i : [Routed(state, Dispatch(specs, batch[i], r[i])) EXCEPT !.rejected = @ \/ state.rejected],
             Start, [i \in DOMAIN batch |-> i])
Route(specs, batch, r) ==
    FoldLeft(LAMBDA state, i : IF state.rejected THEN state ELSE Routed(state, Dispatch(specs, batch[i], r[i])),
             Start, [i \in DOMAIN batch |-> i])
-----------------------------------------------------------------------------
(* /cancel: its own turn and one that does not run are refused, and without *)
(* an argument the running turns are listed and none is cancelled.          *)
Cancelled(turns, answer) == [turns |-> turns, answer |-> answer]
Cancel(args, own, live, interrupted) ==
    CASE interrupted -> Cancelled({}, "rejected")
      [] ~interrupted /\ args = <<>> -> Cancelled({}, "handled")
      [] ~interrupted /\ args # <<>> /\ (args[1] = own \/ args[1] \notin live) -> Cancelled({}, "rejected")
      [] OTHER -> Cancelled({args[1]}, "handled")
-----------------------------------------------------------------------------
(* Properties                                                               *)

(* CMD-002: whoever registers first, a name means the same command, and a   *)
(* set of commands is refused only for a name that two of them claim.       *)
NamesAreUnambiguous(specs) ==
    LET index == CommandIndex(specs)  turned == CommandIndex(Reverse(specs))
    IN  /\ index.ok = turned.ok
        /\ index.ok =>
              /\ \A i \in DOMAIN specs : \A n \in ToSet(Names(specs[i])) : index.of[n] = i
              /\ \A n \in DOMAIN index.of : specs[index.of[n]] = Reverse(specs)[turned.of[n]]
        /\ ~index.ok => Shared(specs) # {}
(* KER-006, CMD-003: of a batch the model is told the plain texts and what  *)
(* commands made of theirs, each once, in order, and nothing of a line that *)
(* was a command; after a refusal no command runs; and one that runs has    *)
(* the operator it asks for and a value for each parameter it must have.    *)
BatchIsRouted(specs, batch, r) ==
    LET done == Route(specs, batch, r)
        o == [i \in DOMAIN batch |-> Dispatch(specs, batch[i], r[i])]
        stop == {i \in DOMAIN batch : o[i].disposition = "rejected"}
        before == {i \in DOMAIN batch : \A j \in stop : i <= j}
    IN  /\ done.rejected <=> stop # {}
        /\ ~done.rejected =>
              done.inputs = SelectSeq([i \in DOMAIN batch |-> IF batch[i].line = "command" THEN r[i].rewritten ELSE batch[i].text],
                                      LAMBDA t : t # NoInput)
        /\ Len(done.ran) = Cardinality({i \in before : o[i].ran # 0})
        /\ \A i \in DOMAIN batch : o[i].ran # 0 =>
              LET spec == specs[o[i].ran]
              IN  /\ spec.operator => batch[i].operator
                  /\ \A k \in DOMAIN spec.params : spec.params[k].required => k <= Len(batch[i].args)
(* A turn is cancelled when it was named, runs and is not the command's own.*)
CancelIsExact(args, own, live, interrupted) ==
    LET c == Cancel(args, own, live, interrupted)
    IN  c.turns = IF interrupted THEN {} ELSE (ToSet(args) \intersect live) \ {own}
=============================================================================
