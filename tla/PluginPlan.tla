----------------------------- MODULE PluginPlan -----------------------------
(***************************************************************************)
(* From the plugin sources to the load plan: which manifests are legal     *)
(* (sdk/manifest.py), which candidates the sources offer                   *)
(* (kernel/plugins/discovery.py), which of them the configuration enables  *)
(* (runtime/inventory.py), which pass the checks before any setup and in   *)
(* what order they load (kernel/plugins/loader.py, runtime/plugin_plan.py), *)
(* and what a disabled plugin's overrides leave behind                     *)
(* (runtime/plugin_disable.py).                                            *)
(*                                                                         *)
(* Plugin ids are naturals in their sort order.  A capability name is a    *)
(* sequence of segments (the text between the dots), so a namespace covers *)
(* the names it is a strict prefix of.                                     *)
(***************************************************************************)
EXTENDS Registry

SdkVersion == 1

DeclLegal(d) ==         \* CapabilityDecl: the validators of one declaration
    /\ d.prio >= 0
    /\ d.ns => Arity[d.kind] = "multi_unique" /\ d.over = NoTarget
Covers(d, kind, name) == d.ns /\ d.kind = kind /\ IsStrictPrefix(d.name, name)
ManifestLegal(m) ==
    /\ m.caps # <<>>
    /\ \A i \in DOMAIN m.caps : DeclLegal(m.caps[i])
    /\ \A i, j \in DOMAIN m.caps : Slot(m.caps[i]) = Slot(m.caps[j]) => i = j
    /\ m.state >= 1
    /\ m.id \notin m.deps

(* Discovery: entry points, then the search paths.  An id offered twice is *)
(* no candidate at all; a search path that is not there is a failure.      *)
ScanDirectory(path) == {c \in path.children : ~c.hidden /\ c.kind \in {"directory", "module_file"}}
Found(src) == src.entries \union UNION {ScanDirectory(p) : p \in {q \in src.paths : q.readable}}
Candidates(src) ==
    {c \in Found(src) : \A d \in Found(src) : d.id = c.id => d = c}
DiscoverFailures(src) ==
    {[id |-> 0, why |-> "search_path"] : p \in {q \in src.paths : ~q.readable}}
        \union {[id |-> 0, why |-> "conflict"] : c \in Found(src) \ Candidates(src)}

(* What is read of a candidate.  read is the outcome of importing or       *)
(* parsing its source: a manifest, or nothing.                             *)
ReadOk(c) == c.read /\ ManifestLegal(c.manifest)
Valid(c) == ReadOk(c) /\ c.manifest.id = c.id /\ c.manifest.sdk = SdkVersion
MatchesPlatform(m, platform) == m.platforms = {} \/ platform \in m.platforms
Inventory(src, enabled, disabled, platform) ==
    LET cands   == Candidates(src)
        wanted  == {c \in cands : c.id \in enabled \ disabled}
        here    == {c \in wanted : Valid(c) /\ MatchesPlatform(c.manifest, platform)}
        off     == {c \in cands : c.id \in disabled}
        read    == wanted \union {c \in off : c.id \in enabled}     \* the others stay unimported
    IN  [discovered |-> {c.manifest : c \in here},
         skipped    |-> [c \in (cands \ wanted) \union
                               {d \in wanted : Valid(d) /\ d \notin here} |->
                            IF c \in off THEN "disabled"
                            ELSE IF c \in wanted THEN "platform_mismatch" ELSE "not_enabled"],
         failures   |-> DiscoverFailures(src) \union
                            {[id |-> c.id, why |-> "manifest"] : c \in {d \in read : ~Valid(d)}},
         imported   |-> {c.id : c \in read},
         offline    |-> {c.manifest : c \in {d \in off \cap read : Valid(d)}}]

(* The load order: Kahn's algorithm, layer by layer, each layer by id.     *)
Ids(nodes) == {n.id : n \in nodes}
Node(nodes, id) == CHOOSE n \in nodes : n.id = id
(* Mutant: what the built-ins provide does not count. *)
MissingAmongFound(nodes, provided) ==
    {n.id : n \in {m \in nodes : \E d \in m.deps : d \notin Ids(nodes)}}
Missing(nodes, provided) ==
    {n.id : n \in {m \in nodes : \E d \in m.deps : d \notin Ids(nodes) \union provided}}
Kahn(nodes, skip) ==
    LET todo  == Ids(nodes) \ skip
        needs(id) == Node(nodes, id).deps \cap Ids(nodes)
        layers[k \in 0..Cardinality(nodes)] ==
            IF k = 0 THEN <<>>
            ELSE LET done == ToSet(layers[k - 1])
                 IN  layers[k - 1] \o
                     SetToSortSeq({id \in todo \ done : needs(id) \subseteq done}, <)
    IN  layers[Cardinality(nodes)]
OnCycle(nodes, stranded, id) ==     \* a path of stranded nodes from id back to id
    LET reach[k \in 0..Cardinality(nodes)] ==
            IF k = 0 THEN {id}
            ELSE reach[k - 1] \union
                 UNION {Node(nodes, x).deps \cap stranded : x \in reach[k - 1]}
    IN  \E x \in reach[Cardinality(nodes)] : id \in Node(nodes, x).deps
PlanLoadOrder(nodes, provided, excluded) ==
    LET Report(order, missing, stranded, cyclic) ==
            [order    |-> order,
             failures |-> {[id |-> id, why |-> "missing"] : id \in missing}
                            \union {[id |-> id, why |-> "cycle"] : id \in cyclic}
                            \union {[id |-> id, why |-> "cascade"] : id \in stranded \ cyclic}]
        Strand(order, missing, stranded) ==
            Report(order, missing, stranded, {id \in stranded : OnCycle(nodes, stranded, id)})
        Order(missing, blocked, order) == Strand(order, missing, Ids(nodes) \ (ToSet(order) \union blocked))
        Block(missing, blocked) == Order(missing, blocked, Kahn(nodes, blocked))
        Start(missing) == Block(missing, (excluded \cap Ids(nodes)) \union missing)
    IN  Start(Missing(nodes, provided))

(* The checks before any setup.  disk is what the state directory says: 0  *)
(* when there is none, the recorded version, Illegible for a marker that  *)
(* cannot be read or written, Unstamped for a directory without one, which *)
(* the check stamps with the declared version.                             *)
Illegible == 98
Unstamped  == 99
ConfigOk(schema, config) == schema = "none" \/ (schema = "legal" /\ config = "conforms")
Marker(disk, declared) == IF disk = Unstamped THEN declared ELSE disk
(* Mutant: an older state directory is taken. *)
StateOkOlder(disk, declared) == disk <= declared \/ disk = Unstamped
StateOk(disk, declared) == disk \in {0, declared, Unstamped}
PlanExternal(found, config, disk, provided) ==
    LET bad  == {m \in found : ~ConfigOk(m.schema, config[m.id])}
        old  == {m \in found : ~StateOk(disk[m.id], m.state)}
        plan == PlanLoadOrder(found, provided, {m.id : m \in bad \union old})
        failures == {[id |-> m.id, why |-> "config"] : m \in bad}
                        \union {[id |-> m.id, why |-> "state"] : m \in old} \union plan.failures
    IN  [order |-> plan.order, failures |-> failures,
         disk |-> [id \in DOMAIN disk |-> IF id \in Ids(found)
                                          THEN Marker(disk[id], Node(found, id).state) ELSE disk[id]],
         critical |-> \E f \in failures : Node(found, f.id).critical]

(* What the overrides of a disabled plugin leave: each needs a decision.   *)
OverrideTargets(m) ==
    {OverrideTarget(m.caps[i]) : i \in {j \in DOMAIN m.caps : m.caps[j].over # NoTarget}}
Undeclared(offline, choice) ==
    {m.id : m \in {n \in offline : OverrideTargets(n) # {} /\ choice[n.id] = "none"}}
Suppressed(offline, choice) ==
    UNION {OverrideTargets(m) : m \in {n \in offline : choice[n.id] = "leave_missing"}}
-----------------------------------------------------------------------------
(* loader.py, the load order.  A plugin loads after everything it depends  *)
(* on, and no plugin is left out without a reason: it is excluded, what it *)
(* needs is nowhere, or what it needs does not load.  Each plugin that     *)
(* does not load for one of the last two is reported once, with the reason *)
(* that is its own.                                                        *)
LoadPlanIsSound(nodes, provided, excluded) ==
    LET Sound(plan, loaded, Reasons(_)) ==
        /\ Len(plan.order) = Cardinality(loaded)
        /\ \A i \in DOMAIN plan.order : \A d \in Node(nodes, plan.order[i]).deps :
              d \in provided \ Ids(nodes) \/ \E j \in 1..(i - 1) : plan.order[j] = d
        /\ \A n \in nodes : n.id \notin loaded =>
              \/ n.id \in excluded
              \/ \E d \in n.deps : d \notin Ids(nodes) \union provided
              \/ \E d \in n.deps \cap Ids(nodes) : d \notin loaded
        /\ \A n \in nodes : Cardinality(Reasons(n.id)) = (IF n.id \in loaded THEN 0 ELSE
              IF n.id \in excluded \ Missing(nodes, provided) THEN 0 ELSE 1)
        /\ \A n \in nodes : "cascade" \in Reasons(n.id) => \E d \in n.deps \cap Ids(nodes) : d \notin loaded
        Judge(plan) == Sound(plan, ToSet(plan.order), LAMBDA id : {f.why : f \in {g \in plan.failures : g.id = id}})
    IN  Judge(PlanLoadOrder(nodes, provided, excluded))
(* inventory.py, plugin_plan.py.  Every plugin the sources offer is        *)
(* accounted for: it loads, was skipped, or is in a failure; nothing that  *)
(* is not enabled is imported; one whose configuration or state directory  *)
(* is not fit is never loaded, nor its directory changed beyond its first  *)
(* stamp; the start is abandoned exactly when a critical one fails.        *)
PlanAccountsForAll(src, enabled, disabled, platform, config, disk, provided) ==
    LET Accounted(inv, plan, loaded, skipped, failed) ==
        /\ inv.imported \subseteq enabled
        /\ \A c \in Candidates(src) : c.id \in loaded \union skipped \union failed
        /\ loaded \cap (skipped \union failed) = {}
        /\ Ids(inv.discovered) \cap disabled = {}
        /\ (\E c \in Found(src) : c \notin Candidates(src)) => [id |-> 0, why |-> "conflict"] \in inv.failures
        /\ \A m \in inv.discovered : m.id \in loaded =>
              /\ m.schema # "none" => config[m.id] = "conforms"
              /\ disk[m.id] \in {0, m.state, Unstamped}
              /\ MatchesPlatform(m, platform)
        /\ \A id \in DOMAIN disk : plan.disk[id] # disk[id] => disk[id] = Unstamped /\ id \in Ids(inv.discovered)
        /\ plan.critical <=> \E m \in inv.discovered : m.critical /\ m.id \notin loaded
        Judge(inv, plan) == Accounted(inv, plan, ToSet(plan.order), {c.id : c \in DOMAIN inv.skipped},
                                      {f.id : f \in inv.failures \union plan.failures})
        Plan(inv) == Judge(inv, PlanExternal(inv.discovered, config, disk, provided))
    IN  Plan(Inventory(src, enabled, disabled, platform))
(* plugin_disable.py.  A disabled plugin's override is decided on: without *)
(* a choice the start is refused, and what was chosen to stay missing is   *)
(* off in the resolution and in no failure of it.                          *)
DisabledOverridesDecided(offline, choice, regs) ==
    Undeclared(offline, choice) = {} =>
        LET gone == Suppressed(offline, choice)
            r    == Resolve(regs, {}, gone)
        IN  /\ \A m \in offline : choice[m.id] = "leave_missing" => OverrideTargets(m) \subseteq gone
            /\ \A i \in DOMAIN regs : Ref(regs[i]) \in gone => i \in r.disabled
            /\ \A f \in r.failures : \A i \in f.of : Ref(regs[i]) \notin gone
=============================================================================
