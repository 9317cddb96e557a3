-------------------------------- MODULE Config --------------------------------
(***************************************************************************)
(* The configuration of an instance: four layers merged into one document  *)
(* that knows where each value came from (sources.py, merge.py), checked   *)
(* against one table of fields (schema.py, fields.py, plugin_blocks.py),   *)
(* the JSON schema an editor checks the same document with                 *)
(* (json_schema.py), the commands that edit its lists of plugins           *)
(* (config_edit.py), and the references to environment variables in it      *)
(* (secrets.py).                                                           *)
(*                                                                         *)
(* A document is a function from paths to values: a path is the sequence   *)
(* of its keys, and the path of every object is there with an object.      *)
(***************************************************************************)
EXTENDS JsonValues, Sequences, SequencesExt

IsObject(v) == v.t = "map"
Above(path) == {SubSeq(path, 1, k) : k \in 1..(Len(path) - 1)}
Under(path, top) == Len(path) > Len(top) /\ IsPrefix(top, path)
Leaves(doc) == {path \in DOMAIN doc : ~IsObject(doc[path])}
EmptyDoc == [path \in {} |-> Null]

(* The fields, with their defaults.                                        *)
Field(row, default) == [row |-> row, default |-> default]
Count(default) == Field(Strict(Positive), Number(default))
OptionalText == Field(Str, Null)
Specs ==
    [turn |->
        [max_iterations |-> Count(16), max_tool_calls_per_turn |-> Count(48), tool_timeout_ms |-> Count(120000),
         tool_result_max_bytes |-> Count(65536), turn_timeout_ms |-> Count(900000),
         context_max_tokens |-> Field(Positive, Null)],
     workspace |-> [root |-> OptionalText],
     routing |->
        [command_prefix |-> Field(Strict(Str), Word("/")),
         session_concurrency |-> Field(Strict(Choice({"queue", "merge", "reject"})), Word("queue")),
         queue_max_size |-> Count(32), dedup_capacity |-> Count(4096), dedup_ttl_ms |-> Count(600000),
         channel_concurrency |-> Count(64), channel_queue_max_size |-> Count(32)],
     plugins |->
        [enabled |-> Field(Strict(Strs), List({})), disable |-> Field(Strict(Strs), List({})),
         search_paths |-> Field(Strict(Strs), List({})), stop_timeout_ms |-> Count(5000)],
     hooks |-> [observer_timeout_ms |-> Count(2000), interceptor_timeout_ms |-> Count(5000)],
     context |->
        [provider_timeout_ms |-> Count(3000), compactor |-> OptionalText, compactor_timeout_ms |-> Count(3000)],
     memory |->
        [provider |-> OptionalText, recall_limit |-> Count(5), recall_timeout_ms |-> Count(3000),
         fragment_priority |-> Count(100),
         on_failure |-> Field(Strict(Choice({"degrade", "fail"})), Word("degrade"))],
     model |-> [provider |-> OptionalText, name |-> OptionalText],
     retry |->
        [max_attempts |-> Count(3), base_delay_ms |-> Count(500), max_delay_ms |-> Count(8000),
         retry_empty_response |-> Field(Strict(Bool), Flag(TRUE))],
     logging |-> [level |-> Field(Strict(Str), Word("info")), file_enabled |-> Field(Strict(Bool), Flag(TRUE))]]
Sections == DOMAIN Specs
FieldPaths == UNION {{<<s, f>> : f \in DOMAIN Specs[s]} : s \in Sections}
SpecAt(path) == Specs[path[1]][path[2]]
Defaults ==
    [path \in {<<s>> : s \in Sections} \union FieldPaths |->
        IF Len(path) = 1 THEN Object({}) ELSE SpecAt(path).default]

(* One source's assignments in their order: a value takes the place of     *)
(* what is there, and what lies on the way to it must be objects.          *)
Assign(acc, a) ==
    LET doc     == acc.doc
        blocked == \E p \in Above(a.path) \intersect DOMAIN doc : ~IsObject(doc[p]) /\ doc[p].t # "null"
        kept    == {p \in DOMAIN doc : ~Under(p, a.path)}
    IN  IF acc.error \/ blocked THEN [acc EXCEPT !.error = TRUE]
        ELSE [acc EXCEPT !.doc =
                (a.path :> a.value) @@ [p \in Above(a.path) |-> Object({})] @@ Restrict(doc, kept)]
Layer(assigns) == FoldLeft(Assign, [doc |-> EmptyDoc, error |-> FALSE], assigns)

(* Mutant: a section of a layer replaces the section before it. *)
MergeIntoSections(merged, layer) ==
    LET Kept(f) == Restrict(f, {p \in DOMAIN f : ~\E top \in DOMAIN layer.doc : Len(top) = 1 /\ Under(p, top)})
    IN  [data |-> layer.doc @@ Kept(merged.data),
         origins |-> [p \in Leaves(layer.doc) |-> layer.origin] @@ Kept(merged.origins)]
(* A later layer's values win; its objects merge with objects and replace  *)
(* anything else.  A value that replaces an object takes the origins of    *)
(* what was in it away.                                                    *)
MergeInto(merged, layer) ==
    LET doc == layer.doc
        Replaced(p) == \E top \in Leaves(doc) : Under(p, top)
        Kept(f) == Restrict(f, {p \in DOMAIN f : ~Replaced(p)})
    IN  [data |-> doc @@ Kept(merged.data), origins |-> [p \in Leaves(doc) |-> layer.origin] @@ Kept(merged.origins)]
MergeLayers(layers) == FoldLeft(MergeInto, [data |-> EmptyDoc, origins |-> [p \in {} |-> ""]], layers)
CollectLayers(file, env, cli) ==
    <<[origin |-> "default", doc |-> Defaults], [origin |-> "config.json", doc |-> file],
      [origin |-> "env", doc |-> env], [origin |-> "cli", doc |-> cli]>>

(* Every problem of the document, each at its path.                        *)
EntryKeys == {"config", "secrets", "on_disable"}
OnDisable == Strict(Choice({"restore_builtin", "leave_missing"}))
Has(doc, path) == path \in DOMAIN doc
Inside(doc, path) == {p \in DOMAIN doc : Len(p) = Len(path) + 1 /\ IsPrefix(path, p)}
EntryIssues(doc, entry) ==
    IF ~IsObject(doc[entry]) THEN {entry}
    ELSE {p \in Inside(doc, entry) :
            \/ Last(p) \notin EntryKeys
            \/ Last(p) = "config" /\ doc[p].t \notin {"map", "null"}
            \/ Last(p) = "secrets" /\ ~IsObject(doc[p])
            \/ Last(p) = "on_disable" /\ ~Reads(OnDisable, doc[p])}
         \union {p \in DOMAIN doc : Len(p) = 4 /\ IsPrefix(entry \o <<"secrets">>, p) /\ doc[p].t # "str"}
PluginIssues(doc) ==
    UNION {IF Last(e) \in Blank THEN {e} ELSE EntryIssues(doc, e) :
            e \in {p \in Inside(doc, <<"plugins">>) : Last(p) \notin DOMAIN Specs.plugins}}
SectionIssues(doc, s) ==
    IF ~Has(doc, <<s>>) \/ doc[<<s>>].t = "null" THEN {}
    ELSE IF ~IsObject(doc[<<s>>]) THEN {<<s>>}
    ELSE {p \in Inside(doc, <<s>>) :
            IF Last(p) \in DOMAIN Specs[s] THEN ~Reads(SpecAt(p).row, doc[p]) ELSE s # "plugins"}
Issues(doc) ==
    {p \in DOMAIN doc : Len(p) = 1 /\ p[1] \notin Sections \union {"$schema"}}
    \union UNION {SectionIssues(doc, s) : s \in Sections}
    \union PluginIssues(doc)
(* The configuration that is used when there is none.                      *)
Effective(doc) == [p \in FieldPaths |-> IF Has(doc, p) THEN doc[p] ELSE SpecAt(p).default]

(* The schema written beside the document for editors.                     *)
FieldSchema(row, v) == SchemaTakes(row, v) \/ (row.null /\ v.t = "null")
EntrySchema(doc, entry) ==
    /\ IsObject(doc[entry])
    /\ \A p \in Inside(doc, entry) :
        CASE Last(p) = "config" -> IsObject(doc[p])
          [] Last(p) = "secrets" -> IsObject(doc[p]) /\ \A q \in Inside(doc, p) : doc[q].t = "str"
          [] Last(p) = "on_disable" -> SchemaTakes(OnDisable, doc[p])
          [] OTHER -> FALSE
SectionSchema(doc, s) ==
    /\ IsObject(doc[<<s>>])
    /\ \A p \in Inside(doc, <<s>>) :
        IF Last(p) \in DOMAIN Specs[s] THEN FieldSchema(SpecAt(p).row, doc[p])
        ELSE s = "plugins" /\ EntrySchema(doc, p)
DocumentSchema(doc) ==
    \A p \in {q \in DOMAIN doc : Len(q) = 1} :
        IF p[1] = "$schema" THEN doc[p].t = "str" ELSE p[1] \in Sections /\ SectionSchema(doc, p[1])

(* What the plugin commands do to the file: its two lists, as they are in  *)
(* that layer alone.  A list that is no list stops the command.            *)
ListAt(doc, key) == IF Has(doc, <<"plugins", key>>) THEN doc[<<"plugins", key>>] ELSE Null
Editable(doc, key) ==
    /\ Has(doc, <<"plugins">>) => doc[<<"plugins">>].t \in {"map", "null"}
    /\ ListAt(doc, key).t \in {"list", "null"} /\ NotText \notin ListAt(doc, key).items
WithList(doc, key, items) ==
    IF items = ListAt(doc, key).items THEN doc
    ELSE (<<"plugins">> :> Object({})) @@ (<<"plugins", key>> :> List(items)) @@ doc
AddToList(doc, key, id) == WithList(doc, key, ListAt(doc, key).items \union {id})
RemoveFromList(doc, key, id) == WithList(doc, key, ListAt(doc, key).items \ {id})
(* Mutant: the other list is left alone. *)
EnableKeepingDisabled(doc, id) == AddToList(doc, "enabled", id)
Enable(doc, id) == RemoveFromList(AddToList(doc, "enabled", id), "disable", id)
Disable(doc, id) == AddToList(doc, "disable", id)
Uninstall(doc, id) == RemoveFromList(RemoveFromList(doc, "enabled", id), "disable", id)
Runs(doc, id) == id \in Effective(doc)[<<"plugins", "enabled">>].items \ Effective(doc)[<<"plugins", "disable">>].items

(* References to environment variables in a document (secrets.py): found,   *)
(* resolved all together or not at all, and put back before anything is    *)
(* written.  Here a document has a text at each path, a text is a sequence  *)
(* of pieces, one of which may be a reference "${A}", and the environment   *)
(* gives some variables a text.                                            *)

(* The pieces that are references, with their variable.                    *)
Refs == ("${A}" :> "A") @@ ("${B}" :> "B")
(* Pieces of a text that are shorter than MIN_SCRUB_LENGTH on their own.   *)
Short == {"no"}
EmptyPieces == {"", " "}

RefNames(text) == {Refs[x] : x \in ToSet(text) \intersect DOMAIN Refs}
IsRef(text) == RefNames(text) # {}
IsBlank(text) == ToSet(text) \subseteq EmptyPieces
MinScrub(text) == ~IsBlank(text) /\ (Len(text) > 1 \/ Head(text) \notin Short)
Literal(name) == <<CHOOSE x \in DOMAIN Refs : Refs[x] = name>>

(* A variable that is not set, or is blank, is missing.                    *)
Lookup(names, env) == [missing |-> {v \in names : v \notin DOMAIN env \/ IsBlank(env[v])}]
Substitute(text, env) ==
    FlattenSeq([i \in 1..Len(text) |-> IF text[i] \in DOMAIN Refs THEN env[Refs[text[i]]] ELSE <<text[i]>>])

(* Every missing variable of the document is reported, at every path that  *)
(* refers to it; without any, each reference has its value.                *)
ScanSecretRefs(doc) == {p \in DOMAIN doc : IsRef(doc[p])}
ResolveSecrets(doc, env) ==
    LET refs  == ScanSecretRefs(doc)
        names == UNION {RefNames(doc[p]) : p \in refs}
        missing == UNION {{<<v, p>> : v \in Lookup(RefNames(doc[p]), env).missing} : p \in refs}
    IN  [missing |-> missing,
         literals |-> [p \in IF missing = {} THEN refs ELSE {} |-> doc[p]],
         values |-> [p \in IF missing = {} THEN refs ELSE {} |-> Substitute(doc[p], env)],
         variables |-> [v \in IF missing = {} THEN names ELSE {} |-> env[v]]]
ResolveText(text, env) ==
    IF Lookup(RefNames(text), env).missing # {} THEN <<"(missing)">> ELSE Substitute(text, env)

(* Mutant: a resolved text is written as it is. *)
ByResolvedNever(map, text) == {}
(* Before writing: a resolved value is given back its reference, by its    *)
(* place, by its value or by the value of one variable.  secret marks what *)
(* is still wrapped; what has no reference is refused.                     *)
ByResolved(map, text) == {map.literals[p] : p \in {q \in DOMAIN map.values : map.values[q] = text /\ MinScrub(text)}}
ByVariable(map, text) == {Literal(v) : v \in {w \in DOMAIN map.variables : map.variables[w] = text /\ MinScrub(text)}}
Refused == <<"(refused)">>
SomeOf(options) == CHOOSE x \in options : TRUE
Sanitize(item, path, map) ==
    CASE item.secret /\ path \in DOMAIN map.literals -> map.literals[path]
      [] item.secret /\ path \notin DOMAIN map.literals ->
            IF ByResolved(map, item.text) = {} THEN Refused ELSE SomeOf(ByResolved(map, item.text))
      [] ~item.secret ->
            IF ByResolved(map, item.text) # {} THEN SomeOf(ByResolved(map, item.text))
            ELSE IF ByVariable(map, item.text) # {} THEN SomeOf(ByVariable(map, item.text))
            ELSE item.text
PrepareForWrite(document, map) == [p \in DOMAIN document |-> Sanitize(document[p], p, map)]

-------------------------------------------------------------------------------
Merged(file, env, cli) == MergeLayers(CollectLayers(file, env, cli))
(* merge.py:1-40.  A value of the merged document is the last layer's that *)
(* says anything at its path or above it, under that layer's name, and no  *)
(* value of a layer is lost that no later layer speaks about: an object    *)
(* deep in one source never takes its neighbours from an earlier one.      *)
LayersWin(file, env, cli) ==
    LET layers == CollectLayers(file, env, cli)
        m      == Merged(file, env, cli)
        Silent(k, p) == /\ ~Has(layers[k].doc, p)
                        /\ \A top \in Above(p) : Has(layers[k].doc, top) => IsObject(layers[k].doc[top])
        Final(k, p)  == p \in Leaves(layers[k].doc) /\ \A later \in (k + 1)..4 : Silent(later, p)
    IN  /\ Leaves(m.data) = {p \in UNION {Leaves(layers[k].doc) : k \in 1..4} : \E k \in 1..4 : Final(k, p)}
        /\ \A p \in Leaves(m.data), k \in 1..4 :
              Final(k, p) => m.data[p] = layers[k].doc[p] /\ m.origins[p] = layers[k].origin

(* json_schema.py:1-30.  The schema for editors and the check at start     *)
(* agree on every document, but for what JSON and the check see            *)
(* differently: a null where an object stands, a real without a fraction,  *)
(* a blank plugin name, a `$schema` that is no text.                       *)
SeenDifferently(doc) ==
    \E p \in DOMAIN doc :
        \/ doc[p].t = "null" /\ (Len(p) = 1 \/ Last(p) = "config")
        \/ doc[p].t = "num"
        \/ Len(p) > 1 /\ p[2] \in Blank
        \/ p[1] = "$schema"
ValidationAgrees(doc) == SeenDifferently(doc) \/ (Issues(doc) = {} <=> DocumentSchema(doc))

(* config_edit.py:1-25, cli/commands/plugins.py.  After `enable` a plugin  *)
(* runs at the next start and after `disable` or `uninstall` it does not,  *)
(* when no other layer sets the two lists; nothing else of the             *)
(* configuration changes, and one that was accepted still is.              *)
EditTakesEffect(file, env, cli, id) ==
    LET lists == {<<"plugins", "enabled">>, <<"plugins", "disable">>}
        SetElsewhere(l) == \E p \in {<<"plugins">>} \union lists : Has(l, p) /\ ~IsObject(l[p])
        before == Merged(file, env, cli).data
        enabled == Merged(Enable(file, id), env, cli).data
        disabled == Merged(Disable(file, id), env, cli).data
        removed == Merged(Uninstall(file, id), env, cli).data
        Rest(data) == Restrict(Effective(data), FieldPaths \ lists)
    IN  (Editable(file, "enabled") /\ Editable(file, "disable") /\ ~SetElsewhere(env) /\ ~SetElsewhere(cli)) =>
        /\ Runs(enabled, id) /\ ~Runs(disabled, id) /\ ~Runs(removed, id)
        /\ \A after \in {enabled, disabled, removed} :
              /\ Rest(after) = Rest(before)
              /\ Issues(before) = {} => Issues(after) = {}

(* A document in use: references replaced by their wrapped values, plus    *)
(* what a caller put elsewhere (extra).                                    *)
InUse(doc, map, extra) ==
    extra @@ [p \in DOMAIN doc |-> [secret |-> p \in DOMAIN map.values,
                                     text |-> IF p \in DOMAIN map.values THEN map.values[p] ELSE doc[p]]]
(* secrets.py:14-24.  All references resolve or the start names each       *)
(* missing one; what is written never holds the text of a secret, means    *)
(* what it meant before it was written, and a document that nobody changed *)
(* is written as it was read.                                              *)
SecretsStayReferences(doc, env, extra) ==
    LET map     == ResolveSecrets(doc, env)
        used    == InUse(doc, map, extra)
        written == PrepareForWrite(used, map)
        secrets == {map.values[p] : p \in DOMAIN map.values} \union {map.variables[v] : v \in DOMAIN map.variables}
    IN  /\ map.missing = {} <=> \A p \in DOMAIN doc : ResolveText(doc[p], env) # <<"(missing)">>
        /\ map.missing = {} =>
             /\ \A p \in DOMAIN written : ~(MinScrub(written[p]) /\ written[p] \in secrets)
             /\ \A p \in DOMAIN written : written[p] = Refused \/ ResolveText(written[p], env) = used[p].text
             /\ \A p \in DOMAIN doc \ DOMAIN extra :
                   used[p].secret \/ used[p].text \notin secrets => written[p] = doc[p]
=============================================================================
