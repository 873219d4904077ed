----------------------------- MODULE ConfigRules -----------------------------
(***************************************************************************)
(* config.validate and config.load: which configurations `rig` accepts.    *)
(* Each block has a predicate of its own; a configuration is accepted when *)
(* none of them refuses it.  The rules are written by hand in the code,    *)
(* next to the registry of ConfigSchema, and are not the same rules.       *)
(***************************************************************************)
EXTENDS ConfigSchema

CONSTANT Stacks     \* the well-formed stacks, each with its segments
ASSUME StacksAssumption ==
    \A s \in DOMAIN Stacks : Len(Stacks[s]) \in {2, 3} /\ s # Malformed

-----------------------------------------------------------------------------
(* The small shared guards.                                                *)
Given(c, block, key) == Knob(c, block, key) # Absent
Set_(c, block, key) == Knob(c, block, key) \notin {Absent, Null}

\* _check_bool and _check_str: null counts as absent.
Maybe(c, block, keys, type) == \A k \in keys : Set_(c, block, k) => TypeOf(Knob(c, block, k)) = type
\* The stricter guards: a key that is there has the type.
Strict(c, block, keys, type) == \A k \in keys : Given(c, block, k) => TypeOf(Knob(c, block, k)) = type
MaybeBool(c, block, keys) == Maybe(c, block, keys, "boolean")
MaybeStr(c, block, keys) == Maybe(c, block, keys, "string")
MaybeStrList(c, block, keys) ==
    \A k \in keys : Set_(c, block, k) => IsList(Knob(c, block, k), "string")
MaybeRules(c, block, keys) ==
    MaybeStrList(c, block, keys) /\
    \A k \in keys : LET v == Knob(c, block, k) IN
        TypeOf(v) = "array" => \A i \in DOMAIN v[3] : v[3][i] # Malformed
MaybeOneOf(c, block, key, S) == Set_(c, block, key) => Knob(c, block, key) \in {Str(s) : s \in S}
StrictOneOf(c, block, key, S) == Given(c, block, key) => Knob(c, block, key) \in {Str(s) : s \in S}
IntFrom(v, n) == TypeOf(v) = "integer" /\ v[2] >= n
MaybeIntFrom(c, block, key, n) == Set_(c, block, key) => IntFrom(Knob(c, block, key), n)
StrictIntFrom(c, block, key, n) == Given(c, block, key) => IntFrom(Knob(c, block, key), n)

IsMap(c, p) == At(c, p) \in {Absent, EmptyMap}
IsMapOrNull(c, p) == At(c, p) \in {Absent, EmptyMap, Null}
KnownKeys(c, block) == Children(c, block) \subseteq ChildKeys(block)
EntriesAreMaps(c, map) == \A e \in Entries(c, map) : At(c, e) = EmptyMap

-----------------------------------------------------------------------------
ValidStack(c) ==
    LET v == At(c, <<"stack">>) IN v = Absent \/ (TypeOf(v) = "string" /\ v[2] \in DOMAIN Stacks)

ValidCi(c) ==
    /\ KnownKeys(c, <<"ci">>)
    /\ MaybeBool(c, <<"ci">>, {"enabled", "all"})
    /\ MaybeStr(c, <<"ci">>, {"target"})
    /\ MaybeStrList(c, <<"ci">>, {"known"})
    /\ IsMap(c, <<"ci", "items">>)
    /\ \A e \in Entries(c, <<"ci", "items">>) : MaybeOneOf(c, e, "tier", {"block", "warn"})

ValidAgentHooks(c) ==
    /\ KnownKeys(c, <<"agent_hooks">>)
    /\ MaybeBool(c, <<"agent_hooks">>, {"enabled", "all", "worktree_only", "orchestrator_only"})
    /\ MaybeStr(c, <<"agent_hooks">>, {"target"})
    /\ MaybeOneOf(c, <<"agent_hooks">>, "target_kind", {"claude-code", "generic"})
    /\ MaybeStrList(c, <<"agent_hooks">>, {"known"})
    /\ IsMap(c, <<"agent_hooks", "items">>)
    /\ \A e \in Entries(c, <<"agent_hooks", "items">>) : MaybeOneOf(c, e, "on_error", {"open", "closed"})

ValidMcp(c) ==
    /\ KnownKeys(c, <<"mcp">>)
    /\ MaybeBool(c, <<"mcp">>, {"enabled"})
    /\ MaybeStr(c, <<"mcp">>, {"target"})
    /\ MaybeStrList(c, <<"mcp">>, {"known"})
    /\ IsMap(c, <<"mcp", "items">>)
    /\ EntriesAreMaps(c, <<"mcp", "items">>)
    /\ \A e \in Entries(c, <<"mcp", "items">>) :
         /\ Children(c, e) \subseteq DOMAIN McpItemBlock
         /\ MaybeBool(c, e, {"enabled"})
         /\ MaybeStr(c, e, {"server", "command"})
         /\ Given(c, e, "args") => IsList(Knob(c, e, "args"), "string")
         /\ IsMapOrNull(c, Append(e, "env"))
         /\ \A v \in Entries(c, Append(e, "env")) : TypeOf(At(c, v)) = "string"

ValidGitHooks(c) ==
    LET dispatcher == <<"git_hooks", "dispatcher">> IN
    /\ KnownKeys(c, <<"git_hooks">>)
    /\ IsMapOrNull(c, dispatcher)
    /\ KnownKeys(c, dispatcher)
    /\ MaybeBool(c, dispatcher, {"enabled", "set_global_hooks_path", "install_local_retrofit_script"})
    /\ MaybeStr(c, dispatcher, {"dir", "runner"})

ValidSkills(c) ==
    /\ KnownKeys(c, <<"skills">>)
    /\ MaybeBool(c, <<"skills">>, {"enabled", "all", "harness_link"})
    /\ MaybeStr(c, <<"skills">>, {"target", "harness_skill_dir"})
    /\ MaybeStrList(c, <<"skills">>, {"known"})
    /\ \A sub \in {"universal", "by_type", "by_stack"} :
         IsMapOrNull(c, <<"skills", sub>>) /\ KnownKeys(c, <<"skills", sub>>)
    /\ IsMapOrNull(c, <<"skills", "by_stack", "items">>)
    /\ EntriesAreMaps(c, <<"skills", "by_stack", "items">>)
    /\ \A e \in Entries(c, <<"skills", "by_stack", "items">>) : MaybeBool(c, e, {"enabled"})

AutonomousBlocks ==
    {Autonomous \o p : p \in {<<"review_fix">>, <<"decisions">>, <<"decisions", "review_quorum">>,
       <<"escalation">>, <<"parallel_worktree_comparison">>, <<"development_tools">>,
       <<"parallelism">>}}
ValidMode(c) ==
    LET auto(p) == Autonomous \o p IN
    /\ IsMap(c, <<"mode">>) /\ KnownKeys(c, <<"mode">>)
    /\ StrictOneOf(c, <<"mode">>, "name", {"standard", "autonomous"})
    /\ IsMap(c, Autonomous) /\ KnownKeys(c, Autonomous)
    /\ \A b \in AutonomousBlocks : IsMap(c, b) /\ KnownKeys(c, b)
    /\ Strict(c, auto(<<"review_fix">>), {"enabled"}, "boolean")
    /\ StrictIntFrom(c, auto(<<"review_fix">>), "max_iterations", 1)
    /\ StrictOneOf(c, auto(<<"review_fix">>), "until", {"clean", "budget", "manual"})
    /\ Strict(c, auto(<<"decisions", "review_quorum">>), {"enabled"}, "boolean")
    /\ StrictIntFrom(c, auto(<<"decisions", "review_quorum">>), "min_iterations", 1)
    /\ StrictIntFrom(c, auto(<<"decisions", "review_quorum">>), "min_models", 2)
    /\ Strict(c, auto(<<"escalation">>), {"framework_skill"}, "string")
    /\ Strict(c, auto(<<"escalation">>), {"require_parallel_worktree_comparison"}, "boolean")
    /\ Strict(c, auto(<<"parallel_worktree_comparison">>), {"enabled"}, "boolean")
    /\ StrictIntFrom(c, auto(<<"parallel_worktree_comparison">>), "candidates", 2)
    /\ LET allow == Knob(c, auto(<<"development_tools">>), "allow") IN
         allow # Absent =>
           IsList(allow, "string") /\ \A i \in DOMAIN allow[3] : allow[3][i] # Malformed
    /\ StrictIntFrom(c, auto(<<"parallelism">>), "max_agents", 1)
    /\ StrictIntFrom(c, auto(<<"parallelism">>), "max_worktrees", 1)
    /\ StrictIntFrom(c, auto(<<"parallelism">>), "reserve_slots", 0)
    /\ Strict(c, auto(<<"parallelism">>), {"limit_aware"}, "boolean")

\* A kind rig does not know is refused, in `kind` and in `kinds`; the mode is
\* free text, and settings_path and enabled are not looked at.
ValidHarness(c) ==
    LET kinds == Knob(c, <<"harness">>, "kinds") IN
    /\ IsMap(c, <<"harness">>) /\ KnownKeys(c, <<"harness">>)
    /\ StrictOneOf(c, <<"harness">>, "kind", HarnessKinds)
    /\ MaybeStrList(c, <<"harness">>, {"kinds"})
    /\ TypeOf(kinds) = "array" => \A i \in DOMAIN kinds[3] : kinds[3][i] \in HarnessKinds
    /\ MaybeBool(c, <<"harness">>, {"auto_mode", "self_merge"})
    /\ MaybeStr(c, <<"harness">>, {"mode"})
    /\ IsMapOrNull(c, <<"harness", "hook_bridge">>)
    /\ KnownKeys(c, <<"harness", "hook_bridge">>)
    /\ MaybeBool(c, <<"harness", "hook_bridge">>, {"enabled"})
    /\ MaybeStr(c, <<"harness", "hook_bridge">>, {"python"})

ValidPermissions(c) ==
    /\ IsMap(c, <<"permissions">>) /\ KnownKeys(c, <<"permissions">>)
    /\ MaybeBool(c, <<"permissions">>, {"enabled"})
    /\ MaybeOneOf(c, <<"permissions">>, "kind", HarnessKinds)
    /\ MaybeRules(c, <<"permissions">>, {"tools", "extra", "disable", "allow", "deny", "ask"})
    /\ MaybeStr(c, <<"permissions">>, {"settings_path"})
    /\ Knob(c, <<"permissions">>, "settings_path") # Str(Malformed)

\* A script is a non-blank command line, or a mapping with one.
ValidScripts(c) ==
    /\ IsMap(c, <<"scripts">>)
    /\ \A e \in Entries(c, <<"scripts">>) :
         LET command == IF At(c, e) = EmptyMap THEN Knob(c, e, "cmd") ELSE At(c, e) IN
         /\ Children(c, e) \subseteq {"cmd"}
         /\ TypeOf(command) = "string" /\ command \notin {EmptyStr, Str(Malformed)}

ValidE2e(c, e) ==
    /\ MaybeStr(c, e, {"script", "artifacts_root", "logs_root"})
    /\ MaybeBool(c, e, {"requires_server"})
ValidDev(c) ==
    LET server == <<"dev", "server">>
        e2e == <<"dev", "e2e">>
        jobs == <<"dev", "e2e", "jobs">>
        ports == Knob(c, server, "ports")
    IN  /\ IsMap(c, <<"dev">>) /\ KnownKeys(c, <<"dev">>)
        /\ IsMapOrNull(c, server) /\ KnownKeys(c, server)
        /\ MaybeStr(c, server, {"script", "url", "ready_url", "logs_root"})
        /\ MaybeStrList(c, server, {"process_matchers"})
        /\ MaybeIntFrom(c, server, "port", 1)
        /\ ports \notin {Absent, Null} =>
             IsList(ports, "integer") /\ \A i \in DOMAIN ports[3] : ports[3][i] >= 1
        /\ ~(Set_(c, server, "port") /\ Set_(c, server, "ports"))
        /\ IsMapOrNull(c, e2e) /\ KnownKeys(c, e2e) /\ ValidE2e(c, e2e)
        /\ IsMapOrNull(c, jobs) /\ EntriesAreMaps(c, jobs)
        /\ \A e \in Entries(c, jobs) : KnownKeys(c, e) /\ ValidE2e(c, e)

ValidModels(c) ==
    /\ IsMap(c, <<"models">>) /\ KnownKeys(c, <<"models">>)
    /\ MaybeBool(c, <<"models">>, {"enabled"})
    /\ MaybeStr(c, <<"models">>, {"checker_path"})
    /\ IsMap(c, <<"models", "schedule">>) /\ KnownKeys(c, <<"models", "schedule">>)
    /\ Strict(c, <<"models", "schedule">>, {"time"}, "string")    \* parse_hhmm
    /\ Knob(c, <<"models", "schedule">>, "time") # Str(Malformed)
    /\ MaybeStr(c, <<"models", "schedule">>, {"label"})

ValidAgentsMd(c) ==
    /\ IsMap(c, <<"agents_md">>) /\ KnownKeys(c, <<"agents_md">>)
    /\ MaybeBool(c, <<"agents_md">>, {"enabled", "symlink"})

ValidShipDelegator(c) ==
    /\ IsMap(c, <<"ship_delegator">>) /\ KnownKeys(c, <<"ship_delegator">>)
    /\ Strict(c, <<"ship_delegator">>, {"enabled"}, "boolean")

-----------------------------------------------------------------------------
(* resolve_rule_severities.  Four rules stand for the table: by provider   *)
(* and by whether a group, `all` or only a name turns them on.             *)
LintRules ==
       "typescript/ban-ts-comment"       :> [group |-> "typescript-core", default |-> "error"]
    @@ "anti-slop/no-widen-then-assert"  :> [group |-> "anti-slop", default |-> "error"]
    @@ "anti-slop/no-reflect-get"        :> [group |-> "anti-slop", default |-> "warn"]
    @@ "anti-slop/no-runtime-typeof"     :> [group |-> "anti-slop", default |-> "off"]
LintGroups == {"typescript-core", "anti-slop"}
LinterRules == <<"linters", "rules">>
RuleNames(c, key) ==
    LET v == Knob(c, LinterRules, key) IN IF TypeOf(v) = "array" THEN {v[3][i] : i \in DOMAIN v[3]} ELSE {}
ValidRules(c) ==
    LET groups == Append(LinterRules, "groups")
        severity == Append(LinterRules, "severity")
    IN  /\ IsMapOrNull(c, groups)
        /\ Children(c, groups) \subseteq LintGroups
        /\ \A e \in Entries(c, groups) : TypeOf(At(c, e)) = "boolean"
        /\ Strict(c, LinterRules, {"all"}, "boolean")
        /\ MaybeStrList(c, LinterRules, {"enable", "disable"})
        /\ RuleNames(c, "enable") \union RuleNames(c, "disable") \subseteq DOMAIN LintRules
        /\ IsMapOrNull(c, severity)
        /\ Children(c, severity) \subseteq DOMAIN LintRules
        /\ \A e \in Entries(c, severity) : At(c, e) \in {Str("off"), Str("warn"), Str("error")}
\* A named severity wins over a disabled rule, that one over an enabled one,
\* then `all`, then the group.
Severity(c, rule) ==
    LET named == At(c, LinterRules \o <<"severity", rule>>)
        default == LintRules[rule].default
        group == At(c, LinterRules \o <<"groups", LintRules[rule].group>>)
    IN  CASE named # Absent -> named[2]
          [] named = Absent /\ rule \in RuleNames(c, "disable") -> "off"
          [] named = Absent /\ rule \in RuleNames(c, "enable") \ RuleNames(c, "disable") ->
               IF default = "off" THEN "warn" ELSE default
          [] OTHER -> IF Knob(c, LinterRules, "all") = Bool(TRUE) THEN "error"
                      ELSE IF group = Bool(FALSE) THEN "off" ELSE default
AntiSlopRequired(c) ==
    \E rule \in DOMAIN LintRules : LintRules[rule].group = "anti-slop" /\ Severity(c, rule) # "off"

\* The code looks at `bundles` after it has refused every other key than
\* these four, so no configuration with a bundle is accepted.
LinterItems == <<"linters", "items">>
ItemEnabled(c, e) == Knob(c, e, "enabled") # Bool(FALSE)
ValidLinterItem(c, e) ==
    LET text == IF Set_(c, e, "content") THEN Knob(c, e, "content") ELSE Knob(c, e, "source") IN
    /\ At(c, e) = EmptyMap
    /\ Children(c, e) \subseteq DOMAIN LinterItemBlock
    /\ \A k \in {"tool", "path"} : TypeOf(Knob(c, e, k)) = "string" /\ Knob(c, e, k) # EmptyStr
    /\ Set_(c, e, "content") # Set_(c, e, "source")
    /\ TypeOf(text) = "string" /\ text # EmptyStr
    /\ Knob(c, e, "source") # Str(Malformed)
    /\ Knob(c, e, "path") # Str(Malformed)                  \* linter_path_escapes_repo
    /\ MaybeOneOf(c, e, "role", {"linter", "formatter"})
    /\ Strict(c, e, {"enabled"}, "boolean")
ValidLinters(c) ==
    /\ IsMap(c, <<"linters">>)
    /\ Children(c, <<"linters">>) \subseteq {"enabled", "preview", "rules", "items"}
    /\ Strict(c, <<"linters">>, {"enabled", "preview"}, "boolean")
    /\ IsMap(c, LinterRules) /\ ValidRules(c)
    /\ IsMap(c, LinterItems)
    /\ \A e \in Entries(c, LinterItems) : ValidLinterItem(c, e)
    /\ \A e, f \in {x \in Entries(c, LinterItems) : ItemEnabled(c, x)} :
         Knob(c, e, "path") = Knob(c, f, "path") => e = f

ValidProjectTools(c) ==
    LET tool(name) == <<"project_tools", name>>
        workflow == <<"project_tools", "haft", "workflow">>
    IN  /\ IsMap(c, <<"project_tools">>) /\ KnownKeys(c, <<"project_tools">>)
        /\ MaybeBool(c, <<"project_tools">>, {"enabled"})
        /\ \A b \in {tool("haft"), tool("serena"), tool("sverklo"), workflow} :
             IsMapOrNull(c, b) /\ KnownKeys(c, b)
        /\ MaybeBool(c, tool("haft"), {"enabled", "codex_mcp"})
        /\ MaybeStr(c, tool("haft"), {"project_name", "project_id"})
        /\ MaybeOneOf(c, workflow, "mode", {"standard", "tactical"})
        /\ MaybeBool(c, workflow, {"require_decision", "require_verify", "allow_autonomy"})
        /\ MaybeBool(c, tool("serena"), {"enabled", "read_only"})
        /\ MaybeStr(c, tool("serena"), {"project_name"})
        /\ \A k \in {"languages", "ignored_paths"} :
             Given(c, tool("serena"), k) => IsList(Knob(c, tool("serena"), k), "string")
        /\ MaybeBool(c, tool("sverklo"), {"enabled", "register", "reindex"})

ValidEnv(c) ==
    /\ IsMap(c, <<"env">>) /\ KnownKeys(c, <<"env">>)
    /\ MaybeBool(c, <<"env">>, {"enabled"})
    /\ Strict(c, <<"env">>, {"rc_path", "generated_dir"}, "string")
    /\ \A k \in {"rc_path", "generated_dir"} : Knob(c, <<"env">>, k) \notin {EmptyStr, Str(Malformed)}
    /\ IsMapOrNull(c, <<"env", "vars">>)
    /\ \A e \in Entries(c, <<"env", "vars">>) : TypeOf(At(c, e)) = "string" /\ Last(e) # Malformed

ValidGitignore(c) ==
    /\ IsMap(c, <<"gitignore">>) /\ KnownKeys(c, <<"gitignore">>)
    /\ MaybeBool(c, <<"gitignore">>, {"enabled"})
    /\ MaybeStr(c, <<"gitignore">>, {"excludesfile"})
    /\ MaybeRules(c, <<"gitignore">>, {"entries"})

ValidSpotlight(c) ==
    /\ IsMap(c, <<"spotlight">>) /\ KnownKeys(c, <<"spotlight">>)
    /\ MaybeBool(c, <<"spotlight">>, {"enabled"})
    /\ MaybeStrList(c, <<"spotlight">>, {"roots", "deny", "extra"})
    /\ MaybeStr(c, <<"spotlight">>, {"label"})
    /\ MaybeIntFrom(c, <<"spotlight">>, "max_depth", 1)

\* The rules of the three merge methods: not all may resolve to false.
MergeKnob(c, key, default) ==
    LET v == Knob(c, <<"github", "merge">>, key) IN IF v \in {Absent, Null} THEN default ELSE v[2]
ValidGithub(c) ==
    LET sub(name) == <<"github", name>> IN
    /\ IsMap(c, <<"github">>) /\ KnownKeys(c, <<"github">>)
    /\ \A name \in {"ruleset", "merge", "ghas", "actions", "browser"} :
         IsMap(c, sub(name)) /\ KnownKeys(c, sub(name))
    /\ MaybeBool(c, sub("ruleset"), DOMAIN RulesetBlock \ {"name", "required_reviews", "required_status_checks"})
    /\ MaybeStr(c, sub("ruleset"), {"name"})
    /\ MaybeIntFrom(c, sub("ruleset"), "required_reviews", 0)
    /\ MaybeStrList(c, sub("ruleset"), {"required_status_checks"})
    /\ MaybeBool(c, sub("merge"), DOMAIN MergeBlock)
    /\ At(c, sub("merge")) # Absent /\ Knob(c, sub("merge"), "enabled") # Bool(FALSE) =>
         \/ MergeKnob(c, "squash_merge", TRUE) \/ MergeKnob(c, "merge_commit", FALSE)
         \/ MergeKnob(c, "rebase_merge", FALSE)
    /\ MaybeBool(c, sub("ghas"), DOMAIN GhasBlock)
    /\ MaybeBool(c, sub("actions"), {"enabled", "actions_enabled", "can_approve_pull_request_reviews"})
    /\ MaybeOneOf(c, sub("actions"), "allowed_actions", {"all", "local_only", "selected"})
    /\ MaybeOneOf(c, sub("actions"), "default_workflow_permissions", {"read", "write"})
    /\ MaybeBool(c, sub("browser"), DOMAIN BrowserBlock)

ValidTmux(c) ==
    LET part(name) == <<"tmux", name>> IN
    /\ IsMap(c, <<"tmux">>) /\ KnownKeys(c, <<"tmux">>)
    /\ MaybeBool(c, <<"tmux">>, {"enabled"})
    /\ StrictOneOf(c, <<"tmux">>, "apply", {"import", "block"})
    /\ Strict(c, <<"tmux">>, {"conf_path", "generated_dir"}, "string")
    /\ \A name \in DOMAIN TmuxParts : IsMapOrNull(c, part(name)) /\ KnownKeys(c, part(name))
    /\ MaybeStrList(c, part("resurrect"), {"processes"})
    /\ MaybeBool(c, part("resurrect"), {"capture_pane_contents"})
    /\ MaybeBool(c, part("continuum"), {"restore", "boot"})
    /\ MaybeIntFrom(c, part("continuum"), "save_interval", 1)
    /\ \A name \in DOMAIN TmuxParts \ {"resurrect", "continuum"} : MaybeBool(c, part(name), {"enabled"})
    /\ MaybeOneOf(c, part("pane_titles"), "position", {"top", "bottom"})
    /\ MaybeStr(c, part("pane_titles"), {"format"})
    /\ Knob(c, part("pane_titles"), "format") # Str(Malformed)
    /\ MaybeBool(c, part("pane_titles"), {"clear_status_right"})
    /\ MaybeStr(c, part("autosave"), {"label"}) /\ MaybeIntFrom(c, part("autosave"), "stale_after", 1)
    /\ MaybeStr(c, part("anti_sprawl"), {"session"}) /\ MaybeStr(c, part("boot"), {"label"})
    /\ MaybeStr(c, part("login_shell"), {"shell"})
    /\ Knob(c, part("login_shell"), "shell") # Str(Malformed)

ValidTools(c) ==
    /\ IsMap(c, <<"tools">>) /\ KnownKeys(c, <<"tools">>)
    /\ MaybeBool(c, <<"tools">>, {"enabled"}) /\ MaybeStr(c, <<"tools">>, {"target"})
    /\ IsMap(c, <<"tools", "items">>)
    /\ \A e \in Entries(c, <<"tools", "items">>) :
         /\ At(c, e) = EmptyMap /\ Children(c, e) \subseteq DOMAIN ToolsItemBlock
         /\ MaybeBool(c, e, {"enabled"}) /\ MaybeStr(c, e, {"repo", "bin_dir"})

ValidTgCtl(c) ==
    /\ IsMap(c, <<"tg_ctl">>) /\ KnownKeys(c, <<"tg_ctl">>)
    /\ MaybeBool(c, <<"tg_ctl">>, {"enabled", "boot", "codex_usage_hook"})
    /\ MaybeStr(c, <<"tg_ctl">>, {"label", "bun_path", "tg_ctl_path", "config_dir"})

ValidTask(c) ==
    LET sub(name) == <<"task", name>> IN
    /\ IsMap(c, <<"task">>) /\ KnownKeys(c, <<"task">>)
    /\ MaybeOneOf(c, <<"task">>, "backend", {"github-issues", "linear"})
    /\ MaybeStr(c, <<"task">>, {"team", "project", "repo"})
    /\ MaybeOneOf(c, <<"task">>, "attachment_mode", {"link", "native"})
    /\ \A name \in {"github", "linear"} : IsMapOrNull(c, sub(name)) /\ KnownKeys(c, sub(name))
    /\ MaybeStr(c, sub("github"), {"repo"}) /\ MaybeStr(c, sub("linear"), {"team", "project"})
    /\ MaybeOneOf(c, sub("linear"), "attachment_mode", {"link", "native"})
    /\ Maybe(c, <<"task">>, {"projects"}, "array")
    /\ \A name \in {"enforce", "classify", "session"} : IsMapOrNull(c, sub(name))

-----------------------------------------------------------------------------
(* validate: every block that is there, by its own rules.                  *)
ValidDefaults(c) ==
    /\ IsMap(c, <<"defaults">>) /\ KnownKeys(c, <<"defaults">>)
    /\ StrictOneOf(c, <<"defaults">>, "on_conflict", {"skip", "overwrite", "backup"})
Categories == {"skills", "agent_hooks", "git_hooks", "ci", "mcp"}
ValidCategory(c, b) ==
    /\ IsMap(c, <<b>>)
    /\ CASE b = "ci" -> ValidCi(c) [] b = "mcp" -> ValidMcp(c) [] b = "skills" -> ValidSkills(c)
         [] b = "agent_hooks" -> ValidAgentHooks(c) [] OTHER -> ValidGitHooks(c)
ValidBlock(c, b) ==
    CASE b \in Categories -> ValidCategory(c, b)
      [] b = "version" -> At(c, <<b>>) = Int_(1)
      [] b = "defaults" -> ValidDefaults(c) [] b = "stack" -> ValidStack(c)
      [] b = "mode" -> ValidMode(c) [] b = "harness" -> ValidHarness(c)
      [] b = "permissions" -> ValidPermissions(c) [] b = "scripts" -> ValidScripts(c)
      [] b = "dev" -> ValidDev(c) [] b = "models" -> ValidModels(c)
      [] b = "agents_md" -> ValidAgentsMd(c) [] b = "github" -> ValidGithub(c)
      [] b = "tmux" -> ValidTmux(c) [] b = "env" -> ValidEnv(c)
      [] b = "gitignore" -> ValidGitignore(c) [] b = "spotlight" -> ValidSpotlight(c)
      [] b = "tools" -> ValidTools(c) [] b = "tg_ctl" -> ValidTgCtl(c)
      [] b = "ship_delegator" -> ValidShipDelegator(c) [] b = "linters" -> ValidLinters(c)
      [] b = "project_tools" -> ValidProjectTools(c) [] b = "task" -> ValidTask(c)
      [] OTHER -> b \in {"agent_tools_source", "scope"}
Valid(c) == \A b \in Children(c, <<>>) : ValidBlock(c, b)

\* load: the repository's layer over the global one.  The mode is the
\* machine's; a legacy `scope` is dropped after the check.
Loads(global, repo) == "mode" \notin Children(repo, <<>>) /\ Valid(Merged(global, repo))
Loaded(global, repo) ==
    LET c == Merged(global, repo) IN [p \in {q \in DOMAIN c : q[1] # "scope"} |-> c[p]]
=============================================================================
