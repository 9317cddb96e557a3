------------------------------- MODULE Settings -------------------------------
(***************************************************************************)
(* How the parts with a configuration block of their own read it: the      *)
(* resolve_settings of the built-ins and the plugins, and the JSON schemas *)
(* their manifests carry.  Both are tables from an option to a row that    *)
(* says which values are taken.  Options of a section are written with a   *)
(* dot; a section that is there makes its own option an object.            *)
(***************************************************************************)
EXTENDS JsonValues

MaxToolResult == 65536

Url == [Text EXCEPT !.of = {"http://a", "https://a/"}]
Base == {"tool_calls", "streaming", "image_input", "audio_input", "structured_output"}
Derived == {"reasoning", "prompt_caching"}
Efforts == {"low", "medium", "high", "xhigh", "max"}
Modes == {"off", "disabled", "budget", "adaptive"}
FsTools == {"fs.read", "fs.write", "fs.edit", "fs.list", "fs.grep"}
Commands == {"help", "config", "session", "plugins", "capabilities", "cancel"}
Scopes == {"session", "workspace", "agent"}
Providers == {"duckduckgo", "tavily", "brave", "searxng", "custom"}
Transports == {"stdio", "sse", "streamable_http"}

(* What the settings modules take.                                         *)
AnthropicEntry ==
    [context_window_tokens |-> Positive, max_output_tokens |-> Positive, capabilities |-> Names(Base),
     supports_temperature |-> Bool, thinking |-> Map, prompt_caching |-> Map,
     effort |-> Choice(Efforts)]
    @@ ("thinking.mode" :> Choice(Modes)) @@ ("thinking.budget_tokens" :> Positive)
    @@ ("prompt_caching.enabled" :> Bool)
Anthropic ==
    [base_url |-> Url, auth |-> Choice({"x_api_key", "bearer", "none"}), anthropic_version |-> Text,
     beta_headers |-> Texts, request_timeout_ms |-> Positive, stream_idle_timeout_ms |-> Positive]
OpenAiEntry ==
    [context_window_tokens |-> Positive, max_output_tokens |-> Positive, capabilities |-> Names(Base \union Derived),
     max_tokens_field |-> Choice({"max_tokens", "max_completion_tokens"}), supports_temperature |-> Bool]
OpenAi ==
    [base_url |-> Url, auth |-> Choice({"bearer", "api_key_header", "none"}), include_usage |-> Bool,
     request_timeout_ms |-> Positive, stream_idle_timeout_ms |-> Positive]
ShellTool ==
    [workspace |-> Text, disable |-> Names({"shell.exec"}), timeout_ms |-> Positive,
     max_output_chars |-> UpTo(MaxToolResult), pass_env |-> [Strs EXCEPT !.not = {""}],
     env |-> Map, shell |-> Text]
FsTool ==
    [workspace |-> Text, disable |-> Names(FsTools), max_read_bytes |-> Positive,
     max_result_chars |-> UpTo(MaxToolResult), max_entries |-> Positive, max_matches |-> Positive]
CommandsCore ==
    [disable |-> Strict(Names(Commands)), max_output_chars |-> Strict(Positive),
     prefix |-> Strict([Str EXCEPT !.not = {""}])]
BasicContext == [use_baseline_instructions |-> Bool, include_runtime_facts |-> Bool]
Cron ==
    [dir |-> Str, timezone |-> Choice({"", "UTC"}), tick_ceiling_ms |-> AtLeast(1000), min_interval_ms |-> Positive,
     catch_up_window_ms |-> AtLeast(0), max_jobs |-> Positive, instance_id |-> Str]
Memory ==
    [dir |-> Str, auto_recall |-> Bool, enabled_scopes |-> [Names(Scopes) EXCEPT !.some = TRUE],
     recall_limit |-> Positive, min_score |-> [Row("number") EXCEPT !.low = 0], fragment_priority |-> Positive,
     list_limit |-> Positive, max_result_chars |-> Positive]
Feishu ==
    [channel_id |-> Str, instance_id |-> Str, domain |-> Choice({"feishu", "lark"}), allow_from |-> Texts,
     allow_chats |-> Texts, operators |-> Texts, group_policy |-> Choice({"mention", "open"}),
     topic_isolation |-> Bool, reply_to_message |-> Bool, streaming |-> Bool,
     stream_edit_interval_ms |-> AtLeast(100), react_emoji |-> Str, done_emoji |-> Str,
     tool_hint_prefix |-> Str]
OpenAiApi ==
    [host |-> Strict(Str), port |-> Strict([AtLeast(0) EXCEPT !.high = 65535]), model |-> Strict(Str),
     conversation |-> Strict(Str), channel_id |-> Strict(Str), instance_id |-> Strict(Str),
     show_reasoning |-> Strict(Bool), request_timeout_ms |-> Strict(Positive)]
Web ==
    [user_agent |-> Str, fetch |-> Map, search |-> Map]
    @@ ("fetch.max_bytes" :> Positive) @@ ("fetch.max_result_chars" :> UpTo(100000))
    @@ ("search.provider" :> Choice(Providers \union {"Brave"})) @@ ("search.max_results" :> Positive)
    @@ ("search.custom.method" :> Choice({"GET", "POST", "get"})) @@ ("search.custom.headers" :> Map)
Mcp ==
    [prefix |-> Choice({"", " ", "mcp"}), connect_timeout_ms |-> Positive, call_timeout_ms |-> Positive,
     max_result_chars |-> Positive, servers |-> Map]
    @@ ("servers.a.type" :> Choice(Transports \union {"SSE"})) @@ ("servers.a.enabled" :> Bool)
    @@ ("servers.a.args" :> Strs) @@ ("servers.a.env" :> Map) @@ ("servers.a.headers" :> Map)
Resolvers ==
    [anthropic |-> Anthropic @@ AnthropicEntry, openai |-> OpenAi @@ OpenAiEntry, shell |-> ShellTool,
     fs |-> FsTool, commands |-> CommandsCore, context |-> BasicContext, cron |-> Cron, memory |-> Memory,
     feishu |-> Feishu, api |-> OpenAiApi, web |-> Web, mcp |-> Mcp]

(* What the manifests' schemas take.                                       *)
AnthropicSchema ==
    [base_url |-> Str, auth |-> Choice({"x_api_key", "bearer", "none"}), anthropic_version |-> Str,
     beta_headers |-> Strs, request_timeout_ms |-> Positive, stream_idle_timeout_ms |-> Positive]
AnthropicEntrySchema ==
    [context_window_tokens |-> Positive, max_output_tokens |-> Positive, capabilities |-> Strs,
     supports_temperature |-> Bool, thinking |-> Map, prompt_caching |-> Map, effort |-> Choice(Efforts)]
    @@ ("thinking.mode" :> Choice(Modes)) @@ ("thinking.budget_tokens" :> Positive)
    @@ ("prompt_caching.enabled" :> Bool)
OpenAiSchema ==
    [base_url |-> Str, auth |-> Choice({"bearer", "api_key_header", "none"}), include_usage |-> Bool,
     request_timeout_ms |-> Positive, stream_idle_timeout_ms |-> Positive,
     context_window_tokens |-> Positive, max_output_tokens |-> Positive, capabilities |-> Strs,
     max_tokens_field |-> Choice({"max_tokens", "max_completion_tokens"}), supports_temperature |-> Bool]
FsSchema ==
    [workspace |-> Str, disable |-> Strs, max_read_bytes |-> Positive, max_result_chars |-> Positive,
     max_entries |-> Positive, max_matches |-> Positive]
ShellSchema ==
    [workspace |-> Str, disable |-> Strs, timeout_ms |-> Positive, max_output_chars |-> Positive, pass_env |-> Strs,
     env |-> Map, shell |-> Str]
CommandsSchema == [disable |-> Strs, max_output_chars |-> Positive, prefix |-> Str]
ContextSchema == [use_baseline_instructions |-> Bool, include_runtime_facts |-> Bool]
CronSchema == [Cron EXCEPT !.timezone = Str]
MemorySchema == [Memory EXCEPT !.enabled_scopes = Names(Scopes)]
FeishuSchema == [Feishu EXCEPT !.allow_from = Strs, !.allow_chats = Strs, !.operators = Strs]
ApiSchema == [OpenAiApi EXCEPT !.request_timeout_ms = AtLeast(1000)]
WebSchema ==
    [user_agent |-> Str, fetch |-> Map, search |-> Map]
    @@ ("fetch.max_bytes" :> Positive) @@ ("fetch.max_result_chars" :> Positive)
    @@ ("search.provider" :> Choice(Providers)) @@ ("search.max_results" :> Positive)
    @@ ("search.custom.method" :> Choice({"GET", "POST"})) @@ ("search.custom.headers" :> Map)
McpSchema ==
    [Mcp EXCEPT !.prefix = Str, !["servers.a.type"] = Choice(Transports)]
Schemas ==
    [anthropic |-> AnthropicSchema @@ AnthropicEntrySchema, openai |-> OpenAiSchema, shell |-> ShellSchema,
     fs |-> FsSchema, commands |-> CommandsSchema, context |-> ContextSchema, cron |-> CronSchema,
     memory |-> MemorySchema, feishu |-> FeishuSchema, api |-> ApiSchema, web |-> WebSchema, mcp |-> McpSchema]

(* A model's entry takes over, option by option, what it does not set.     *)
AnthropicDefault ==
    [context_window_tokens |-> Number(200000), max_output_tokens |-> Number(8192),
     capabilities |-> List({"tool_calls", "streaming"}), supports_temperature |-> Flag(TRUE),
     effort |-> Word("")]
    @@ ("thinking.mode" :> Word("off")) @@ ("thinking.budget_tokens" :> Number(0))
    @@ ("prompt_caching.enabled" :> Flag(FALSE))
OpenAiDefault ==
    [context_window_tokens |-> Number(128000), max_output_tokens |-> Number(4096),
     capabilities |-> List({"tool_calls", "streaming"}), supports_temperature |-> Flag(TRUE),
     max_tokens_field |-> Word("max_tokens")]
Entry(raw, base) ==
    [o \in DOMAIN base |-> IF o \in DOMAIN raw /\ raw[o].t # "null" THEN raw[o] ELSE base[o]]
(* Mutant: the thinking budget may take the whole answer. *)
CheckBudgetInclusive(entry) ==
    entry["thinking.mode"].s = "budget" => entry["thinking.budget_tokens"].n <= entry.max_output_tokens.n
CheckBudget(entry) ==
    entry["thinking.mode"].s = "budget" => entry["thinking.budget_tokens"].n < entry.max_output_tokens.n
Capabilities(entry) ==
    entry.capabilities.items
    \union (IF entry["thinking.mode"].s \in {"adaptive", "budget"} THEN {"reasoning"} ELSE {})
    \union (IF entry["prompt_caching.enabled"].n = 1 THEN {"prompt_caching"} ELSE {})

(* A model adapter's block: what is said of every model, and the list of   *)
(* the models that may be used, each with what is said of it alone.        *)
Shape(rows, raw) == \A o \in DOMAIN raw : o \in DOMAIN rows /\ Reads(rows[o], raw[o])
AnthropicAccepts(block) ==
    LET default == Entry(block.default, AnthropicDefault)
    IN  /\ Shape(AnthropicEntry, block.default) /\ CheckBudget(default)
        /\ \A m \in DOMAIN block.models :
            Shape(AnthropicEntry, block.models[m]) /\ CheckBudget(Entry(block.models[m], default))
OpenAiAccepts(block) ==
    /\ Shape(OpenAiEntry, block.default)
    /\ \A m \in DOMAIN block.models : Shape(OpenAiEntry, block.models[m])
Accepts(p, block) == IF p = "anthropic" THEN AnthropicAccepts(block) ELSE OpenAiAccepts(block)
DefaultEntry(p, block) == Entry(block.default, IF p = "anthropic" THEN AnthropicDefault ELSE OpenAiDefault)

(* describe: the list, when there is one, is the list of what is allowed.  *)
Listed(block, m) == DOMAIN block.models = {} \/ m \in DOMAIN block.models
EntryFor(p, block, m) ==
    IF m \in DOMAIN block.models THEN Entry(block.models[m], DefaultEntry(p, block)) ELSE DefaultEntry(p, block)
Describe(p, block, m) ==
    LET entry == EntryFor(p, block, m)
    IN  [window |-> entry.context_window_tokens.n, output |-> entry.max_output_tokens.n,
         capabilities |-> IF p = "anthropic" THEN Capabilities(entry) ELSE entry.capabilities.items]

-----------------------------------------------------------------------------
(* A value the schema refuses, for its type, its range or its choice, is   *)
(* refused by the reader too: the blocks of the built-ins never meet their *)
(* schema (validate_plugin_config is called for discovered plugins only),  *)
(* so their readers are all there is.  The readers take null for an option *)
(* that is not set, the spellings of a choice they fold, and, in the       *)
(* openai-api plugin, a deadline below a second.                           *)
Folded == {"Brave", "get", "SSE", "", " "}
ReaderIsStrict(p, o, v) ==
    /\ Reads(Resolvers[p][o], v)
    /\ v.t # "null" /\ v.s \notin Folded /\ ~(p = "api" /\ o = "request_timeout_ms")
    => SchemaTakes(Schemas[p][o], v)

(* An accepted block describes every model it allows in a way that can be  *)
(* served: the thinking budget fits in the answer, whichever of the two    *)
(* the model takes over from the defaults, and reasoning and caching are   *)
(* promised exactly when they are switched on (_read_entry, _check_budget, *)
(* ModelEntry.capabilities, entry_for).                                    *)
SettingsCoherent(p, block) ==
    Accepts(p, block) =>
        \A m \in {"m", "other"} : Listed(block, m) =>
            LET entry == EntryFor(p, block, m)
                info  == Describe(p, block, m)
                mode  == entry["thinking.mode"].s
            IN  /\ info.window > 0 /\ info.output > 0
                /\ p = "anthropic" =>
                    /\ mode = "budget" => entry["thinking.budget_tokens"].n < info.output
                    /\ ("reasoning" \in info.capabilities) <=> (mode \in {"adaptive", "budget"})
                    /\ ("prompt_caching" \in info.capabilities) <=> (entry["prompt_caching.enabled"].n = 1)
=============================================================================
