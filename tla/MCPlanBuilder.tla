---------------------------- MODULE MCPlanBuilder ----------------------------
(* Small catalogs, machines and edits for PlanBuilder.                     *)
EXTENDS PlanBuilder

CodeStacks == "frontend/ts" :> <<"frontend", "ts">> @@ "backend/go/gin" :> <<"backend", "go", "gin">>

Spellings ==
       "~/.agents/skills" :> <<"~", ".agents", "skills">>
    @@ "~/.claude/skills" :> <<"~", ".claude", "skills">>
    @@ "~/.claude/hooks" :> <<"~", ".claude", "hooks">>
    @@ "~/hooks" :> <<"~", "hooks">>
    @@ ".github/workflows" :> <<".", ".github", "workflows">>
    @@ "~/.claude/mcp" :> <<"~", ".claude", "mcp">>
    @@ "~/.codex/hooks.js" :> <<"~", ".codex", "hooks.js">>
    @@ "~/.codex/other.toml" :> <<"~", ".codex", "other.toml">>
    @@ "~/permissions.json" :> <<"~", "permissions.json">>
    @@ "~/.tmux.conf" :> <<"~", ".tmux.conf">>
    @@ "~/.zshenv" :> <<"~", ".zshenv">>
    @@ "~/bin" :> <<"~", "bin">>
    @@ "~/.local/bin" :> <<"~", ".local", "bin">>
    @@ "~/.config/git/global-hooks.d" :> <<"~", ".config", "git", "global-hooks.d">>
    @@ "~/.config/git/run-global-hooks" :> <<"~", ".config", "git", "run-global-hooks">>
    @@ "tools/oxlint/anti-slop/a.json" :> <<".", "tools", "oxlint", "anti-slop", "a.json">>
FileSuffixes == "hooks.js" :> "js" @@ "other.toml" :> "toml"

-----------------------------------------------------------------------------
Item(category, name, group, for, leaf, descriptors) ==
    [category |-> category, name |-> name, group |-> group, for |-> for, leaf |-> leaf,
     descriptors |-> descriptors]
Catalog ==
    << Item("skills", "review", "universal", <<>>, "review", <<>>),
       Item("skills", "cli-docs", "by-type", <<"cli">>, "docs", <<>>),
       Item("skills", "lib-docs", "by-type", <<"library">>, "docs", <<>>),
       Item("skills", "ts-docs", "by-stack", <<"frontend", "ts">>, "ts", <<>>),
       Item("agent_hooks", "edit-guard", "", <<>>, "", <<"edit.json", "write.json">>),
       Item("agent_hooks", "push-guard", "", <<>>, "", <<"push.json">>),
       Item("git_hooks", "dispatcher", "", <<>>, "", <<>>),
       Item("ci", "pr-checklist", "", <<>>, "", <<>>),
       Item("ci", "review-threads", "", <<>>, "", <<>>),
       Item("ci", "ship", "", <<>>, "", <<>>),
       Item("mcp", "memory", "", <<>>, "", <<>>) >>
\* A second hook with a descriptor of the first; the push guard is withdrawn.
Updates ==
    {Append(Catalog, Item("agent_hooks", "deploy-guard", "", <<>>, "", <<"deploy.json", "write.json">>)),
     SelectSeq(Catalog, LAMBDA item : item.name # "push-guard")}
Shipped ==
    {<<"bridge", k>> : k \in {"claude-code", "codex", "opencode", "omp"}}
      \union {<<"catalog", "checker">>, ShipScript, OxfmtCarrier, AntiSlopCarrier, <<"catalog", "eslint.json">>}
Machine ==
    [items |-> Catalog, carriers |-> Shipped, packages |-> {"oxlint", "@oxlint/plugins", "oxfmt"},
     type |-> "cli", codexHome |-> <<"~", ".codex">>, rigYaml |-> TRUE, darwin |-> TRUE,
     telemetry |-> TRUE]
Changes ==
       "items" :> Updates
    @@ "carriers" :> {Shipped \ {AntiSlopCarrier}, Shipped \ {<<"bridge", "codex">>, ShipScript, OxfmtCarrier}}
    @@ "packages" :> {{}, {"oxlint", "oxfmt"}}
    @@ "type" :> {"library", "unknown"}
    @@ "codexHome" :> {<<"~", "codex-home">>}
    @@ "rigYaml" :> {FALSE}
    @@ "telemetry" :> {FALSE}

-----------------------------------------------------------------------------
\* The machine's configuration, and those of three repositories: an empty one,
\* a team's with every harness, a web application's.
Nothing == [p \in {} |-> Null]
MachineConfig ==
       <<"version">> :> Int_(1)
    @@ <<"skills", "by_type", "enable">> :> StrList(<<"cli", "library">>)
    @@ <<"harness", "kind">> :> Str("claude-code")
    @@ <<"mode", "name">> :> Str("standard")
    @@ <<"tg_ctl", "enabled">> :> Bool(TRUE)
    @@ <<"tmux", "continuum", "save_interval">> :> Int_(15)
    @@ <<"env", "vars", "EDITOR">> :> Str("vi")
    @@ <<"models", "enabled">> :> Bool(TRUE)
TeamConfig ==
       <<"harness", "kinds">> :> StrList(<<"codex", "opencode", "omp", "pi">>)
    @@ <<"harness", "mode">> :> Str("plan")
    @@ <<"ci", "items", "pr-checklist", "enabled">> :> Bool(TRUE)
    @@ <<"ci", "items", "ship", "enabled">> :> Bool(TRUE)
    @@ <<"ci", "items", "ship", "gh_alias">> :> Bool(TRUE)
    @@ <<"mcp", "items", "memory", "enabled">> :> Bool(TRUE)
    @@ <<"git_hooks", "dispatcher", "enabled">> :> Bool(TRUE)
    @@ <<"git_hooks", "dispatcher", "fragments", "lint", "enabled">> :> Bool(TRUE)
WebConfig ==
       <<"stack">> :> Str("frontend/ts")
    @@ <<"linters", "items", "eslint", "tool">> :> Str("eslint")
    @@ <<"linters", "items", "eslint", "path">> :> Str("eslint.json")
    @@ <<"linters", "items", "eslint", "source">> :> Str("eslint.json")
    @@ <<"project_tools", "haft", "enabled">> :> Bool(TRUE)
    @@ <<"project_tools", "sverklo", "enabled">> :> Bool(TRUE)
    @@ <<"tools", "enabled">> :> Bool(TRUE)
    @@ <<"tools", "items", "tsq", "repo">> :> Str("tsq")
    @@ <<"spotlight", "enabled">> :> Bool(TRUE)
Beginnings ==
    {[global |-> MachineConfig, repo |-> r, world |-> Machine] : r \in {Nothing, TeamConfig, WebConfig}}

\* `enabled` of every block, and the knobs that reach into other blocks.
Off == {Bool(FALSE)}
Toggles ==
    [p \in {Append(s[1], "enabled") : s \in Switches}
             \union {<<"github", name, "enabled">> : name \in {"ruleset", "merge", "browser"}} |-> Off]
Knobs ==
    Toggles
    @@ <<"skills", "target">> :> {Str("~/.claude/skills"), Null}
    @@ <<"skills", "harness_skill_dir">> :> {Str("~/.agents/skills")}
    @@ <<"skills", "universal", "disable">> :> {StrList(<<"review">>), Str("review")}
    @@ <<"agent_hooks", "target">> :> {Str("~/hooks"), Str("~/.claude/hooks")}
    @@ <<"agent_hooks", "items", "push-guard", "enabled">> :> Off
    @@ <<"agent_hooks", "items", "push-guard", "on_error">> :> {Str("closed"), Int_(1)}
    @@ <<"defaults", "hooks_target">> :> {Str("~/hooks")}
    @@ <<"defaults", "ci_target">> :> {Str("export-only")}
    @@ <<"ci", "target">> :> {Str("~/hooks"), Null}
    @@ <<"ci", "items", "review-threads", "enabled">> :> {Bool(TRUE)}
    @@ <<"ci", "items", "lint", "enabled">> :> {Bool(TRUE)}
    @@ <<"mcp", "target">> :> {Null}
    @@ <<"git_hooks", "dispatcher", "runner">> :> {Null}
    @@ <<"harness", "kind">> :> {Str("codex"), Str("omp"), Str("vim")}
    @@ <<"harness", "kinds">> :> {StrList(<<"codex">>), Null}
    @@ <<"harness", "mode">> :> {Str("bypassPermissions"), Str("user"), Str("plans")}
    @@ <<"harness", "auto_mode">> :> {Bool(TRUE)}
    @@ <<"harness", "settings_path">> :> {Str("~/.codex/hooks.js"), Str("~/.codex/other.toml")}
    @@ <<"permissions", "kind">> :> {Str("omp"), Null}
    @@ <<"permissions", "settings_path">> :> {Str("~/permissions.json"), Str(Malformed)}
    @@ <<"mode", "name">> :> {Str("autonomous")}
    @@ <<"linters", "rules", "groups", "anti-slop">> :> Off
    @@ <<"linters", "items", "eslint", "path">> :> {Str("tools/oxlint/anti-slop/a.json"), Str("oxlint.config.ts")}
    @@ <<"stack">> :> {Str("frontend/ts"), Str("frontend")}
    @@ <<"github", "ruleset", "required_status_checks">> :> {StrList(<<"build">>), StrList(<<>>)}
    @@ <<"spotlight", "max_depth">> :> {Int_(3), Null}
    @@ <<"project_tools", "haft", "codex_mcp">> :> Off
    @@ <<"project_tools", "sverklo", "reindex">> :> {Bool(TRUE)}
    @@ <<"tmux", "autosave", "enabled">> :> Off

\* What the machine's configuration says of every repository.
MachineKnobs ==
       [p \in {<<block, "enabled">> : block \in {"tg_ctl", "models", "ci", "harness", "linters"}} |-> {Bool(TRUE), Bool(FALSE)}]
    @@ <<"ci", "items", "pr-checklist", "enabled">> :> {Bool(TRUE)}
    @@ <<"agent_hooks", "target">> :> {Str("~/hooks")}
    @@ <<"harness", "kind">> :> {Str("codex")}
    @@ <<"harness", "kinds">> :> {StrList(<<"omp", "codex">>)}
    @@ <<"mode", "name">> :> {Str("autonomous")}
    @@ <<"skills">> :> {Null, Str("off")}

=============================================================================
