------------------------------- MODULE MCHost -------------------------------
(* What an instance stands on: its lock (MCInstanceLock: four processes),    *)
(* the plugins it starts and stops (a built-in provider with a CLI entry, a  *)
(* plugin that replaces the CLI entry, and one that depends on it), the      *)
(* event bus, the hooks of a turn, the files of a session (batches of one    *)
(* and two records and two summaries, of different widths: a cut may fall in *)
(* a line, at its newline or between lines; a compaction and a deletion are  *)
(* not cut between their two files) and the algorithms of the start: the     *)
(* resolution of capabilities, the load plan, the configuration, the         *)
(* settings of the adapters and the secrets.                                 *)
EXTENDS MCInstanceLock, MCSessionStore, EventBus, Hooks, PluginHost, Integers, TLC

CONSTANT Still

VARIABLES
    part,           \* the component this behaviour is about
    input,          \* the argument of an algorithm, once it is picked
    \* Files
    disk, target, temp, filePc, fileKind, text, handle, reply, expect, mixed

Plan == INSTANCE PluginPlan
Declaration(kind, prov, name, over) == Plan!Registration(kind, prov, name, Plan!BasePriority(prov), over)
HostCaps ==
    <<<<Declaration("cli_entry", 0, 1, Plan!NoTarget), Declaration("model", 0, 1, Plan!NoTarget)>>,
      <<Declaration("tool", 2, 1, Plan!NoTarget), Declaration("cli_entry", 2, 2, [prov |-> 0, name |-> 1])>>,
      <<Declaration("tool", 3, 1, [prov |-> 2, name |-> 1])>>>>
HostOrder == <<1, 2, 3>>
HostDeps == <<{}, {}, {2}>>
HostAcquires == <<{"cleanup"}, {"subscription", "cleanup"}, {"task", "cleanup"}>>
MCHookBindings ==
    [h \in {"turn_start", "context_assemble", "before_model_request", "before_tool_call",
            "after_tool_call", "instance_ready", "turn_end"} |->
        IF h = "instance_ready" THEN <<>> ELSE <<"p", "q">>]

(* Up to three registrations of three providers: two names of a tool, a    *)
(* store of which there is one, hooks of which there are many, overrides   *)
(* of each other.                                                          *)
Tools ==
    {Plan!Registration("tool", p, n, p, o) : p \in 0..2, n \in 1..2,
        o \in {Plan!NoTarget, [prov |-> 0, name |-> 1], [prov |-> 1, name |-> 1]}}
Registrations ==
    {r \in Tools : Plan!Legal(r)} \union {Plan!Registration("session_store", p, 1, 0, Plan!NoTarget) : p \in 0..1}
        \union {Plan!Registration("hook", 1, 1, 0, Plan!NoTarget)}
RegistryInputs ==
    {q \in SeqOf(Registrations, 3) : \A i, j \in DOMAIN q : Plan!Ref(q[i]) = Plan!Ref(q[j]) => i = j}

(* Two or three plugins with any dependencies among them, on a provider    *)
(* that is there and on one that is not.                                   *)
PlanInputs ==
    {[nodes |-> {[id |-> k, deps |-> d[k]] : k \in s}, provided |-> p, excluded |-> e] :
        d \in {f \in [1..3 -> SUBSET (1..4)] : \A k \in 1..3 : k \notin f[k]},
        s \in {1..2, 1..3}, p \in {{4}}, e \in {{}, {1}}}

(* Two plugins in a source of entries and of search paths, with every way  *)
(* a manifest, a configuration or a state directory may be unfit.          *)
Manifest(id) == [id |-> id, caps |-> <<[kind |-> "tool", name |-> 1, prio |-> 0, ns |-> FALSE, over |-> Plan!NoTarget]>>,
                 sdk |-> 1, state |-> 2, deps |-> {}, platforms |-> {}, schema |-> "none", critical |-> FALSE]
Manifests(id) ==
    LET m == Manifest(id)
    IN  {m, [m EXCEPT !.caps = <<>>], [m EXCEPT !.deps = {3 - id}], [m EXCEPT !.deps = {7}], [m EXCEPT !.deps = {id}],
         [m EXCEPT !.platforms = {"win"}, !.critical = TRUE], [m EXCEPT !.schema = "legal", !.critical = TRUE],
         [m EXCEPT !.schema = "illegal"], [m EXCEPT !.sdk = 9], [Manifest(3 - id) EXCEPT !.state = 1]}
Candidate(id, read, m) == [id |-> id, kind |-> "directory", hidden |-> FALSE, read |-> read, manifest |-> m]
SearchPaths(c) ==
    {{}, {[readable |-> FALSE, children |-> {}]}, {[readable |-> TRUE, children |-> {c}]},
     {[readable |-> TRUE, children |-> {[c EXCEPT !.hidden = TRUE]}]}}
Sources ==
    UNION {{[entries |-> {c, d}, paths |-> p] :
                p \in {{}} \union SearchPaths(Candidate(2, TRUE, Manifest(2))) \union SearchPaths([c EXCEPT !.kind = "other"])} :
              c \in {Candidate(1, read, m) : read \in BOOLEAN, m \in Manifests(1)},
              d \in {Candidate(2, TRUE, m) : m \in Manifests(2)}}
InventoryInputs ==
    [src : Sources, disabled : {{}, {2}}, enabled : {{1}, {1, 2}},
     fit : {<<"conforms", 0>>, <<"conforms", 1>>, <<"broken", 0>>, <<"conforms", Plan!Unstamped>>, <<"conforms", Plan!Illegible>>}]

(* Two plugins that are off, with overrides and a choice for each; and     *)
(* what is registered without them.                                        *)
OverrideInputs ==
    [targets : [1..2 -> SUBSET {[prov |-> 0, name |-> 1], [prov |-> 3, name |-> 1]}],
     choice : [1..2 -> {"none", "leave_missing", "fallback"}],
     regs : {<<>>, <<Declaration("tool", 0, 1, Plan!NoTarget)>>,
             <<Declaration("tool", 0, 1, Plan!NoTarget), Declaration("tool", 3, 1, Plan!NoTarget)>>}]
Offline(targets) ==
    {[Manifest(k) EXCEPT !.caps = [i \in 1..Cardinality(targets[k]) |->
        [kind |-> "tool", name |-> 9, prio |-> 0, ns |-> FALSE, over |-> SetToSeq(targets[k])[i]]]] : k \in 1..2}

(* Documents of one and of two assignments, of every JSON type, at paths   *)
(* that are fields, sections, plugin blocks and none of these; and the     *)
(* layers of file, environment and command line.                           *)
Documented == INSTANCE Config
Assignments ==
    [path : {<<"turn">>, <<"turn", "max_iterations">>, <<"turn", "nope">>, <<"turn", "context_max_tokens">>,
             <<"turn", "nope", "deep">>, <<"routing", "session_concurrency">>, <<"retry", "retry_empty_response">>,
             <<"$schema">>, <<"stray">>, <<"plugins">>, <<"plugins", "enabled">>, <<"plugins", "p">>,
             <<"plugins", "p", "config">>, <<"plugins", "p", "config", "k">>, <<"plugins", "p", "secrets", "k">>,
             <<"plugins", "p", "on_disable">>, <<"plugins", " ", "config">>, <<"plugins", "p", "typo">>},
     value : {Documented!Null, Documented!Flag(TRUE), Documented!Number(0), Documented!Number(1), Documented!Real(1),
              Documented!Word("queue"), Documented!Word("x"), Documented!List({"p"}),
              Documented!List({Documented!NotText}), Documented!Object({})}]
DocumentOf(assignments) == Documented!Layer(assignments)
Documents ==
    {l.doc : l \in {k \in {DocumentOf(<<a, b>>) : a \in Assignments,
                                 b \in {c \in Assignments : c.path[1] \in {"plugins", "turn"}}} : ~k.error}}
Overlays ==
    {DocumentOf(<<>>).doc, DocumentOf(<<[path |-> <<"turn">>, value |-> Documented!Null]>>).doc,
     DocumentOf(<<[path |-> <<"turn", "max_iterations">>, value |-> Documented!Number(3)]>>).doc,
     DocumentOf(<<[path |-> <<"plugins", "p", "config", "k">>, value |-> Documented!Number(4)]>>).doc,
     DocumentOf(<<[path |-> <<"plugins", "p">>, value |-> Documented!Word("x")]>>).doc}
LayerInputs ==
    [file : {DocumentOf(<<a>>).doc : a \in [
                path : {<<"turn", "max_iterations">>, <<"turn", "max_iterations", "deep">>, <<"turn">>, <<"plugins">>,
                        <<"plugins", "enabled">>, <<"plugins", "disable">>, <<"plugins", "p">>,
                        <<"plugins", "p", "config", "k">>},
                value : {Documented!Null, Documented!Number(1), Documented!List({}), Documented!List({"p"}),
                         Documented!List({Documented!NotText}), Documented!Object({})}]} \union {DocumentOf(<<>>).doc},
     env : Overlays, cli : Overlays]

(* Each option of each plugin with values of every JSON type; and blocks   *)
(* of the model adapters with limits that fit and that do not.             *)
Read == INSTANCE Settings
Values ==
    {Read!Null, Read!Flag(TRUE), Read!Real(1), Read!Real(-1), Read!Object({}), Read!Object({"x"}), Read!Object({Read!NotText})}
        \union {Read!Number(n) : n \in {-1, 0, 1, 1500, 65537, 70000}}
        \union {Read!List(l) : l \in {{}, {"x"}, {Read!NotText}, {""}, {"fs.read"}, {"session"}}}
        \union {Read!Word(w) : w \in {"", " ", "x", "https://a/", "budget", "Brave", "brave", "SSE", "sse", "get", "GET",
                                      "UTC", "mcp", "Mcp", "mention", "lark", "bearer"}}
OptionInputs ==
    UNION {{[plugin |-> p, option |-> o, value |-> v] : o \in DOMAIN Read!Resolvers[p], v \in Values} : p \in DOMAIN Read!Resolvers}
NotSet == [o \in {} |-> Read!Null]
Set(option, values) == {NotSet} \union {option :> v : v \in values}
Limits == {a @@ b : a \in Set("context_window_tokens", {Read!Number(8), Read!Number(4)}), b \in Set("max_output_tokens", {Read!Number(8), Read!Number(0)})}
AnthropicRaw ==
    {l @@ m @@ t @@ e : l \in Limits, m \in Set("thinking.mode", {Read!Word("budget"), Read!Word("adaptive")}),
        t \in Set("thinking.budget_tokens", {Read!Number(4), Read!Number(8)}),
        e \in {NotSet, "prompt_caching.enabled" :> Read!Flag(TRUE), "capabilities" :> Read!List({"reasoning"})}}
OpenAiRaw == {l @@ e : l \in Limits, e \in Set("capabilities", {Read!List({"reasoning"})}) \union Set("thinking.mode", {Read!Word("off")})}
Models(raw) == [default : raw, models : {[m \in {} |-> NotSet]} \union {"m" :> r : r \in raw}]
BlockInputs ==
    {[plugin |-> "anthropic", block |-> b] : b \in {c \in Models(AnthropicRaw) : Cardinality(DOMAIN c.default) <= 2}}
        \union {[plugin |-> "openai", block |-> b] : b \in Models(OpenAiRaw)}

(* Declarations of two or three commands; a batch of one or two lines for a *)
(* command with any parameters and one without, and what their handlers     *)
(* answer; and what /cancel is asked.                                       *)
Spoken == INSTANCE Commands
CommandSpec(name, aliases, params, operator) == [name |-> name, aliases |-> aliases, params |-> params, operator |-> operator]
CommandSets ==
    {q \in SeqOf({c \in {CommandSpec(n, a, <<>>, FALSE) : n \in {"a", "b", "Help"}, a \in SeqOf({"a", "b", "h"}, 2)} : Spoken!LegalSpec(c)}, 3) :
        Len(q) # 1 }
Parameters == {q \in SeqOf([required : BOOLEAN, repeated : BOOLEAN], 2) : Spoken!LegalParameters(q)}
Line(line, name, args, operator) == [line |-> line, name |-> name, args |-> args, operator |-> operator, text |-> name]
SpokenLines ==
    {Line(l, "hello", <<>>, FALSE) : l \in {"plain", "prefix"}}
        \union {Line("command", n, [k \in 1..c |-> 1], b) : n \in {"a", "h", "z"}, c \in 0..3, b \in BOOLEAN}
Answer(disposition, content, rewritten, error, raises) ==
    [disposition |-> disposition, content |-> content, rewritten |-> rewritten, error |-> error, raises |-> raises]
Answers ==
    {Answer("command_handled", TRUE, "none", FALSE, b) : b \in BOOLEAN}
        \union {Answer("command_continue", FALSE, t, FALSE, FALSE) : t \in {"none", "new"}}
        \union {Answer("model_turn", FALSE, "new", FALSE, FALSE), Answer("rejected", TRUE, "none", TRUE, FALSE)}
BatchInputs ==
    [specs : {<<CommandSpec("a", <<>>, q, b), CommandSpec("b", <<"h">>, <<>>, FALSE)>> : q \in Parameters, b \in BOOLEAN},
     batch : {<<l>> : l \in SpokenLines} \union {<<l, k>> : l \in SpokenLines, k \in {Line("plain", "bye", <<>>, FALSE), Line("command", "h", <<>>, FALSE)}},
     answers : {<<x, Answer("command_continue", FALSE, "new", FALSE, FALSE)>> : x \in Answers}]
CancelInputs ==
    {c \in [args : {<<>>, <<1>>, <<2>>, <<3>>}, own : {1}, live : SUBSET (1..3), interrupted : BOOLEAN] : c.own \in c.live}

(* Two texts that hold references, their values or neither, and one that   *)
(* a caller put there.                                                     *)
Texts == {<<"${A}">>, <<"Bearer ", "${A}">>, <<"${A}", "${B}">>, <<"secretA">>, <<"no">>, <<"Bearer ", "secretA">>, <<"host">>}
SecretInputs ==
    [doc : [{"p", "q"} -> Texts],
     env : UNION {[vs -> {<<"secretA">>, <<"secretB">>, <<"no">>, <<" ">>}] : vs \in SUBSET {"A", "B"}},
     extra : {[p \in {} |-> 0], "p" :> [secret |-> FALSE, text |-> <<"secretB">>]}
                \union {"r" :> [secret |-> b, text |-> t] : b \in BOOLEAN, t \in {<<"secretA">>, <<"no">>, <<"Bearer ", "secretA">>}}]

(* Texts of up to three lines read in pages and cut; numbers around a      *)
(* limit; up to three files of up to two matches; and paths through a link *)
(* that leads inside, to the root, outside or to a device's name.          *)
OnDisk == INSTANCE Files WITH
    Calls <- 1..3, SessionOf <- <<"s", "s", "t">>, Size <- <<2, 1, 1>>, MaxKills <- 1, pc <- filePc, kind <- fileKind
ReadInputs == [lines : SeqOf(0..2, 3) \ {<<>>}, max : 0..3, bytes : {0, 1, 3, 4, 9}]
CutInputs == [total : (0..1) \union (25..32) \union (98..102), limit : (0..1) \union (25..32) \union (98..101)]
SearchInputs == [files : SeqOf([matches : 0..2, readable : BOOLEAN], 3), max : 1..3]
PathInputs ==
    [links : {[p \in {} |-> p]} \union {[p \in {<<"w", "l">>} |-> to] : to \in {<<"w", "d">>, <<"w">>, <<"out">>, <<"w", "con">>}},
     raw : [absolute : BOOLEAN, names : SeqOf({"l", "d", "..", "w", "con"}, 3)]]

-----------------------------------------------------------------------------
(* A component that a behaviour is not about stands still. *)
HostStill == HostInit
BusStill == BusInit
RouterStill == HooksInit
StoreStill == StoreInit
FileVars == <<disk, target, temp, filePc, fileKind, text, handle, reply, expect, mixed>>
FilesStill == OnDisk!Init /\ target = 0
all == <<part, input, vars, hostVars, busVars, hookVars, storeVars, FileVars>>

SystemInit ==
    \/ part = "lock" /\ Init /\ input = Still /\ HostStill /\ BusStill /\
       RouterStill /\ StoreStill /\ FilesStill
    \/ part = "plugins" /\ HostInit /\ Init /\ input = Still /\ BusStill /\
       RouterStill /\ StoreStill /\ FilesStill
    \/ part = "bus" /\ BusInit /\ Init /\ input = Still /\ HostStill /\
       RouterStill /\ StoreStill /\ FilesStill
    \/ part = "hooks" /\ HooksInit /\ Init /\ input = Still /\ HostStill /\
       BusStill /\ StoreStill /\ FilesStill
    \/ part = "store" /\ StoreInit /\ Init /\ input = Still /\ HostStill /\
       BusStill /\ RouterStill /\ FilesStill
    \/ part = "files" /\ OnDisk!Init /\ Init /\ input = Still /\ HostStill /\
       BusStill /\ RouterStill /\ StoreStill
    \/ part \in {"registry", "plan", "inventory", "overrides", "layers", "document", "option", "block", "secrets",
                "commands", "batch", "cancel", "reads", "cut", "search", "paths"} /\
       input = Still /\ Init /\ HostStill /\ BusStill /\ RouterStill /\ StoreStill /\ FilesStill
SystemNext ==
    /\ UNCHANGED part
    /\ \/ part = "lock" /\ Next /\ UNCHANGED <<input, hostVars, busVars, hookVars, storeVars, FileVars>>
       \/ part = "plugins" /\ HostNext
          /\ UNCHANGED <<input, vars, busVars, hookVars, storeVars, FileVars>>
       \/ part = "bus" /\ BusNext
          /\ UNCHANGED <<input, vars, hostVars, hookVars, storeVars, FileVars>>
       \/ part = "hooks" /\ HooksNext
          /\ UNCHANGED <<input, vars, hostVars, busVars, storeVars, FileVars>>
       \/ part = "store" /\ StoreNext
          /\ UNCHANGED <<input, vars, hostVars, busVars, hookVars, FileVars>>
       \/ part = "registry" /\ input = Still /\ input' \in RegistryInputs
          /\ UNCHANGED <<vars, hostVars, busVars, hookVars, storeVars, FileVars>>
       \/ part = "plan" /\ input = Still /\ input' \in PlanInputs
          /\ UNCHANGED <<vars, hostVars, busVars, hookVars, storeVars, FileVars>>
       \/ part = "inventory" /\ input = Still /\ input' \in InventoryInputs
          /\ UNCHANGED <<vars, hostVars, busVars, hookVars, storeVars, FileVars>>
       \/ part = "overrides" /\ input = Still /\ input' \in OverrideInputs
          /\ UNCHANGED <<vars, hostVars, busVars, hookVars, storeVars, FileVars>>
       \/ part = "layers" /\ input = Still /\ input' \in LayerInputs
          /\ UNCHANGED <<vars, hostVars, busVars, hookVars, storeVars, FileVars>>
       \/ part = "document" /\ input = Still /\ input' \in Documents
          /\ UNCHANGED <<vars, hostVars, busVars, hookVars, storeVars, FileVars>>
       \/ part = "option" /\ input = Still /\ input' \in OptionInputs
          /\ UNCHANGED <<vars, hostVars, busVars, hookVars, storeVars, FileVars>>
       \/ part = "block" /\ input = Still /\ input' \in BlockInputs
          /\ UNCHANGED <<vars, hostVars, busVars, hookVars, storeVars, FileVars>>
       \/ part = "secrets" /\ input = Still /\ input' \in SecretInputs
          /\ UNCHANGED <<vars, hostVars, busVars, hookVars, storeVars, FileVars>>
       \/ part = "commands" /\ input = Still /\ input' \in CommandSets
          /\ UNCHANGED <<vars, hostVars, busVars, hookVars, storeVars, FileVars>>
       \/ part = "batch" /\ input = Still /\ input' \in BatchInputs
          /\ UNCHANGED <<vars, hostVars, busVars, hookVars, storeVars, FileVars>>
       \/ part = "cancel" /\ input = Still /\ input' \in CancelInputs
          /\ UNCHANGED <<vars, hostVars, busVars, hookVars, storeVars, FileVars>>
       \/ part = "files" /\ OnDisk!Next
          /\ UNCHANGED <<input, vars, hostVars, busVars, hookVars, storeVars>>
       \/ part = "reads" /\ input = Still /\ input' \in ReadInputs
          /\ UNCHANGED <<vars, hostVars, busVars, hookVars, storeVars, FileVars>>
       \/ part = "cut" /\ input = Still /\ input' \in CutInputs
          /\ UNCHANGED <<vars, hostVars, busVars, hookVars, storeVars, FileVars>>
       \/ part = "search" /\ input = Still /\ input' \in SearchInputs
          /\ UNCHANGED <<vars, hostVars, busVars, hookVars, storeVars, FileVars>>
       \/ part = "paths" /\ input = Still /\ input' \in PathInputs
          /\ UNCHANGED <<vars, hostVars, busVars, hookVars, storeVars, FileVars>>
SystemSpec == SystemInit /\ [][SystemNext]_all
-----------------------------------------------------------------------------

(* PluginHost (PLG-005): starts follow the dependencies and stops reverse  *)
(* them. EventBus: who was cut off hears nothing more.                     *)
OrderIsKept == DependencyOrder /\ CutOffIsFinal
(* The fairness of each component (Fairness of its module), said of the    *)
(* behaviours that are about it.                                           *)
FairLock ==
    \A p \in Processes :
        WF_vars(part = "lock" /\ (Create(p, TRUE) \/ Write(p, TRUE) \/ Inspect(p) \/ Probe(p) \/ Reclaim(p)))
(* A lone starter gets the lock of a dead holder; a stop ends although     *)
(* tasks and cleanups hang; publish() returns; a dispatch ends.            *)
HostWorkEnds ==
    /\ part = "lock" /\ FairLock => LoneStarterSucceeds
    /\ part = "plugins" /\ WF_hostVars(part = "plugins" /\ StopStep) => StopEnds
    /\ part = "bus" /\ WF_busVars(part = "bus" /\ FanOut) => PublishReturns
    /\ part = "hooks" /\ WF_hookVars(part = "hooks" /\ RouterStep) => DispatchEnds
Asked(p) == part = p /\ input # Still
(* Registry: the resolution is fair, whatever is switched off, the reads   *)
(* of the frozen registry find what it holds, and a batch is all or none.  *)
CapabilitiesResolve ==
    Asked("registry") =>
        /\ \A off \in {{}, {1}} : Plan!ResolutionIsFair(input, off, {})
        /\ Plan!ResolutionIsFair(input, {}, {[kind |-> "tool", prov |-> 0, name |-> 1]})
        /\ Plan!ReadsAreExact(input)
        /\ input # <<>> /\ (\A i \in DOMAIN input : input[i].prov = input[1].prov) =>
              \A fails \in BOOLEAN : Plan!BatchIsAtomic(<<>>, input, fails)
(* Commands: a name means one command, a batch goes where it should, and    *)
(* /cancel cancels what it names.                                           *)
CommandsAreRouted ==
    /\ Asked("commands") => Spoken!NamesAreUnambiguous(input)
    /\ Asked("batch") => Spoken!BatchIsRouted(input.specs, input.batch, input.answers)
    /\ Asked("cancel") => Spoken!CancelIsExact(input.args, input.own, input.live, input.interrupted)
(* Files: calls that do not overlap on a path act one after the other and  *)
(* report what they did; what a result leaves out is said; and a path that *)
(* is shown leads back to its file.                                        *)
FilesAreHonest ==
    /\ part = "files" => OnDisk!WritesAreHonest
    /\ Asked("reads") => OnDisk!PagesTile(input.lines, input.max, input.bytes)
    /\ Asked("cut") => OnDisk!FitsTheLimit(input.total, input.limit)
    /\ Asked("search") => OnDisk!GrepTellsMore(input.files, input.max)
    /\ Asked("paths") => OnDisk!PathsLeadBack(input.links, input.raw)
(* PluginPlan: the load order is sound, and every plugin that was found is *)
(* loaded, skipped or reported; what is off leaves no override undecided.  *)
PluginsArePlanned ==
    /\ Asked("plan") => Plan!LoadPlanIsSound(input.nodes, input.provided, input.excluded)
    /\ Asked("inventory") =>
          Plan!PlanAccountsForAll(input.src, input.enabled, input.disabled, "linux",
                                  <<input.fit[1], "conforms">>, <<input.fit[2], input.fit[2]>>, {7})
    /\ Asked("overrides") => Plan!DisabledOverridesDecided(Offline(input.targets), input.choice, input.regs)
(* Config and Settings: the last layer that speaks wins, the schema        *)
(* for editors agrees with the check at start, edits of the plugin lists   *)
(* take effect and change nothing else, the adapters' readers are as       *)
(* strict as their schemas, and secrets stay references in what is written.*)
ConfigurationHolds ==
    /\ Asked("layers") => /\ Documented!LayersWin(input.file, input.env, input.cli)
                          /\ Documented!EditTakesEffect(input.file, input.env, input.cli, "p")
    /\ Asked("document") => Documented!ValidationAgrees(input)
    /\ Asked("option") => Read!ReaderIsStrict(input.plugin, input.option, input.value)
    /\ Asked("block") => Read!SettingsCoherent(input.plugin, input.block)
    /\ Asked("secrets") => Documented!SecretsStayReferences(input.doc, input.env, input.extra)
=============================================================================
