----------------------------- MODULE MCReconcile -----------------------------
(***************************************************************************)
(* Reconcile on plans of one or two actions that share files, with the few  *)
(* contents of each cell that the handlers tell apart.                      *)
(***************************************************************************)
EXTENDS Reconcile

File(a, b)   == Holding({<<a, b>>})
Mine(name)   == Holding({<<name, "user">>})       \* the user's own file
Dir(facts)   == Path("dir", facts, <<>>)
Bad(form)    == Path(form, {<<form, "user">>}, <<>>)
Case(plan, start, world) == [plan |-> plan, start |-> start, world |-> world]

(* Texts with the markers of a managed block: none, an old block between    *)
(* the user's lines, two of them, one without its end.                      *)
U(n) == <<"user", n>>
Texts(id) ==
  {Nothing, Text(<<U(1)>>), Text(<<U(1)>> \o Block(id, "old") \o <<U(2)>>),
   Text(Block(id, "old") \o <<U(1)>> \o Block(id, "old") \o <<U(2)>>),
   Text(<<U(1), <<"begin", id>>, U(2)>>), Path("dir", {}, <<>>)}

-----------------------------------------------------------------------------
Skill == Case(
  <<[kind |-> "copy_skill", source |-> "catalog", target |-> "skill"],
    [kind |-> "link_skill_harness", dest |-> "skill", link |-> "link"]>>,
  [catalog |-> File("s", "v1"), skill |-> Nothing, link |-> Nothing],
  [catalog |-> {File("s", "v2")}, skill |-> {Nothing, Mine("skill")},
   link |-> {Nothing, LinkTo("user"), Dir({<<"dir", "user">>})}])

Hook == Case(
  <<[kind |-> "install_agent_hook", source |-> "catalog", target |-> "hook", on_error |-> "warn"]>>,
  [catalog |-> File("cmd", "v1"), hook |-> Nothing],
  [catalog |-> {File("cmd", "v2"), Bad("malformed")}, hook |-> {Nothing, Mine("hook")}])

Composers(v) == Dir({<<"file", "pre-commit", v>>, <<"file", "pre-push", v>>})
Dispatcher == Case(
  <<[kind |-> "install_dispatcher", runner |-> "runner", runner_source |-> "catalog",
     composers |-> "composers", composers_source |-> "sources", retrofit |-> TRUE,
     retrofit_script |-> "script", set_hooks_path |-> TRUE, hooks_path |-> "hooksPath",
     fragments |-> <<[source |-> "catalog", target |-> "one", on |-> TRUE],
                     [source |-> "catalog", target |-> "two", on |-> FALSE]>>]>>,
  [catalog |-> File("s", "v1"), sources |-> Composers("v1"), runner |-> Nothing, composers |-> Nothing,
   script |-> Nothing, hooksPath |-> Nothing, one |-> Nothing, two |-> Nothing],
  [catalog |-> {File("s", "v2")}, composers |-> {Composers("v2")}, runner |-> {File("s", "v1"), Mine("runner")},
   script |-> {Mine("script")}, hooksPath |-> {File("path", "user")}, two |-> {File("s", "v1")}])

CiAction(slot, variant) ==
  [kind |-> "install_ci", slot |-> slot, variant |-> variant, source |-> "catalog", target |-> "workflow"]
Item(v)     == Dir({<<"file", "workflow.yml", v>>, <<"file", "gate.mjs", v>>})
Variants(v) == Dir({<<"file", "workflow-variant.yml", v>>, <<"file", "workflow.yml", v>>,
                    <<"file", "pull_request_template.md", v>>})
Ci(variant, item(_)) == Case(
  <<CiAction("slot", variant)>>,
  [catalog |-> item("v1"), workflow |-> Nothing] @@ ("gate.mjs" :> Nothing)
    @@ ("pull_request_template.md" :> Nothing),
  [catalog |-> {item("v2"), Item("v1"), Dir({})}, workflow |-> {Nothing, Mine("workflow")}]
    @@ ("gate.mjs" :> {Mine("gate"), Holding({<<"text", "v1">>})})
    @@ ("pull_request_template.md" :> {Mine("template")}))
CiShip == Case(
  <<CiAction("ship", FALSE)>>,
  [catalog |-> Dir({<<"file", "ship.sh", "v1">>}), workflow |-> Nothing],
  [catalog |-> {Dir({<<"file", "ship.sh", "v2">>}), Dir({})}, workflow |-> {Nothing, Mine("workflow")}])

-----------------------------------------------------------------------------
(* One settings.json: the mode, the permissions, the bridge and a server.   *)
ClaudeAction == [kind |-> "apply_harness_claude", file |-> "settings", mode |-> "auto", self_merge |-> TRUE]
Permit == [kind |-> "provision_permissions", file |-> "settings",
           containers |-> {[box |-> "permissions.allow", entries |-> {"git", "gh ship"}, value |-> "listed"],
                           [box |-> "rules", entries |-> {"bash"}, value |-> "allow"]}]
Bridge == [kind |-> "register_hook_bridge", format |-> "json", file |-> "settings", slots |-> {"pre", "post"},
           command |-> "rig"]
Server == [kind |-> "register_mcp", file |-> "settings", server |-> "s", entry |-> "v1"]
Edited == {Nothing, Bad("malformed"), Bad("nonobject"), Mine("theme"),
           Holding({<<"theme", "user">>, <<"defaultMode", "user">>, <<"rules", "bash", "user">>,
                    <<"hook", "pre", "old">>, <<"mcpServers", "s", "user">>}),
           Holding({<<"autoMode.allow", "shape", "user">>, <<"event", "shape", "user">>, <<"theme", "user">>}),
           Holding({<<"permissions.allow", "shape", "user">>, <<"mcpServers", "shape", "user">>, <<"theme", "user">>}),
           Holding({<<"permissions", "shape", "user">>, <<"hooks", "shape", "user">>, <<"theme", "user">>})}
Shared(plan) == Case(plan, [settings |-> Nothing], [settings |-> Edited])

Mode(parser) == Case(
  <<[kind |-> "apply_harness", file |-> "config", mode |-> "auto", parser |-> parser]>>,
  [config |-> Nothing],
  [config |-> {Mine("theme"), File("mode", "user"), Holding({<<"mode", "shape", "user">>}), Bad("malformed"),
               Bad("nonobject"), Holding({<<"section", "shape", "user">>})}])

Region(kind, id) == Case(<<[kind |-> kind, file |-> "rules", version |-> "new"]>>,
                         [rules |-> Nothing], [rules |-> Texts(id)])

GuardCase == Case(
  <<[kind |-> "install_harness_guard", file |-> "guard", marker |-> "marker", version |-> "new"]>>,
  [guard |-> Nothing, marker |-> Nothing],
  [guard |-> {File("guard", "new"), Mine("guard")}, marker |-> {Nothing, File("incompatible", "yes")}])

-----------------------------------------------------------------------------
(* config.toml: Codex's bridge and haft's section.                          *)
Toml == Case(
  <<[kind |-> "register_hook_bridge", format |-> "toml", file |-> "config", version |-> "new"],
    [kind |-> "provision_project_tool", operation |-> "codex_mcp", target |-> "config", version |-> "new",
     escapes |-> FALSE]>>,
  [config |-> Nothing],
  [config |-> {Mine("theme"), Holding({<<"block", "old", "plain">>, <<"hooks", "table", "user">>}),
               Holding({<<"hooks", "dotted", "user">>, <<"feature", "off">>, <<"haft", "old">>}),
               Holding({<<"half">>, <<"theme", "user">>}),
               Holding({<<"unmanaged", "user">>, <<"haft-table", "user">>}), Bad("malformed"), Dir({})}])

(* .git/info/exclude: the ship delegator's line and opencode's plugin.      *)
PluginAction(format, wrapper, exclude) ==
  [kind |-> "register_hook_bridge", format |-> format, plugin |-> "plugin", dest |-> "bridge",
   wrapper |-> wrapper, version |-> "new", legacy |-> "legacy", exclude |-> exclude]
Plugins == {Nothing, LinkTo("user"), RigBridge, Wrapper("old"), Mine("plugin")}
Opencode(wrapper) == Case(
  <<PluginAction("opencode", wrapper, "exclude")>>,
  [plugin |-> Nothing, bridge |-> File("b", "v1"), legacy |-> Nothing, exclude |-> Nothing],
  [plugin |-> Plugins, bridge |-> {Nothing}, legacy |-> {RigBridge, Mine("legacy")},
   exclude |-> Texts("opencode")])
Omp(wrapper) == Case(
  <<PluginAction("omp", wrapper, "none")>>,
  [plugin |-> Nothing, bridge |-> File("b", "v1")],
  [plugin |-> Plugins, bridge |-> {Nothing}])

ShipAction(root, selfHosted, transient) ==
  [kind |-> "provision_ship_delegator", root |-> root, env |-> "env", delegator |-> "ship", exclude |-> "exclude",
   self_hosted |-> selfHosted, transient |-> transient, version |-> "new"]
AliasAction(root, transient) ==
  [kind |-> "provision_gh_ship_alias", root |-> root, env |-> "env", transient |-> transient, gh |-> "alias",
   gh_cli |-> "gh", dry |-> FALSE]
Envs == {Nothing, Mine("env"), ShipEnv("transient"), Dir({})}
Ship(selfHosted, transient) == Case(
  <<ShipAction("root", selfHosted, transient), PluginAction("opencode", FALSE, "exclude")>>,
  [env |-> Nothing, ship |-> Nothing, exclude |-> Nothing, plugin |-> Nothing, bridge |-> File("b", "v1"),
   legacy |-> Nothing],
  [env |-> Envs, ship |-> {Delegator("old"), Delegator("new"), Mine("ship"), Dir({})},
   exclude |-> {Text(<<U(1)>>), Text(<<U(1), <<"begin", "ship">>, U(2)>>),
                Text(<<U(1)>> \o Block("ship", "old") \o <<U(2)>>)}])
NoRoot == Case(
  <<ShipAction("none", FALSE, FALSE), AliasAction("none", FALSE)>>,
  [env |-> Nothing, ship |-> Nothing, exclude |-> Nothing, alias |-> Dir({}), gh |-> Nothing],
  [alias |-> {Path("file", {}, <<>>)}, exclude |-> Texts("ship"), ship |-> {Mine("ship"), Nothing}, env |-> Envs])
Alias(transient) == Case(
  <<AliasAction("root", transient)>>,
  [env |-> Nothing, alias |-> Path("file", {}, <<>>), gh |-> Nothing],
  [env |-> Envs, alias |-> {File("ship", "user"), Path("unreadable", {}, <<>>)},
   gh |-> {Path("broken", {}, <<>>), Nothing}])

-----------------------------------------------------------------------------
(* The pair: either name may be the real file.                              *)
Agents == Case(
  <<[kind |-> "provision_agents_symlink", agents |-> "AGENTS.md", claude |-> "CLAUDE.md"]>>,
  ("AGENTS.md" :> Nothing) @@ ("CLAUDE.md" :> Nothing),
  ("AGENTS.md" :> {Mine("agents"), Mine("other"), LinkTo("CLAUDE.md"), Nothing})
    @@ ("CLAUDE.md" :> {Mine("agents"), Nothing, LinkTo("AGENTS.md"), LinkTo("user")}))

Env(content) == Case(
  <<[kind |-> "provision_env", vars |-> content, env |-> "env", rc |-> "rc", dir |-> "new"]>>,
  [env |-> Nothing, rc |-> Nothing],
  [env |-> {Nothing, File("vars", "old"), Mine("env")},
   rc |-> {Text(<<U(1)>>), Text(<<U(1), <<"import", "old">>, U(2)>>),
           Text(<<<<"import", "old">>, <<"import", "new">>, U(1)>>), Dir({})}])

Excludes(override) == Case(
  <<[kind |-> "provision_global_excludes", override |-> override, xdg |-> "xdg", gitconfig |-> "gitconfig",
     git |-> "git", version |-> "new"]>>,
  [gitconfig |-> Nothing, git |-> Nothing, xdg |-> Nothing, mine |-> Nothing],
  [gitconfig |-> {File("excludesfile", "mine"), Nothing}, git |-> {Path("broken", {}, <<>>), Nothing},
   xdg |-> Texts("excludes"), mine |-> {Text(<<U(3)>>)}])

Linter(escapes) == Case(
  <<[kind |-> "provision_linter_config", escapes |-> escapes, target |-> "ruff", version |-> "new"],
    [kind |-> "policy_blocked"]>>,
  [ruff |-> Nothing],
  [ruff |-> {File("config", "old"), Mine("ruff"), LinkTo("user"), Dir({})}])

ToolAction(operation, target) ==
  [kind |-> "provision_project_tool", operation |-> operation, target |-> target, version |-> "new",
   escapes |-> FALSE, cli |-> "cli", dry |-> FALSE]
Project == Case(
  <<ToolAction("entry", "file"), ToolAction("register", "index"), ToolAction("reindex", "index")>>,
  [file |-> Nothing, index |-> Holding({}), cli |-> Path("file", {}, <<>>)],
  [file |-> {File("entry", "old"), Mine("file"), Dir({})}, index |-> {Holding({})},
   cli |-> {Nothing, Path("broken", {}, <<>>)}])

-----------------------------------------------------------------------------
(* GitHub.  A setting may be out of date, refuse reads, or refuse writes.   *)
Sides == {Holding({<<"rule", "old">>}), Holding({<<"rule", "user">>}), Path("unreadable", {}, <<>>),
          Holding({<<"rule", "old">>, <<"refuses", "plan">>}),
          Holding({<<"rule", "old">>, <<"refuses", "other">>})}
Want == {<<"rule", "new">>}
Hub(action, cells) == Case(
  <<action @@ [repo |-> "repo", auth |-> "auth"]>>,
  [c \in cells |-> Nothing] @@ [repo |-> File("repo", "r"), auth |-> Path("in", {}, <<>>)],
  [c \in cells |-> Sides] @@ [repo |-> {Nothing}, auth |-> {Nothing}])
RulesetCase(dry) == Hub([kind |-> "provision_github_ruleset", ruleset |-> "rules", rules |-> Want, dry |-> dry],
                        {"rules"})
MergeCase   == Hub([kind |-> "provision_github_merge", merge |-> "merge", knobs |-> Want, dry |-> FALSE], {"merge"})
GhasCase    == Hub([kind |-> "provision_github_ghas", parts |-> <<"one", "two">>, wants |-> Want, dry |-> FALSE],
                   {"one", "two"})
ActionsCase(enabled) ==
  Hub([kind |-> "provision_github_actions", perms |-> "perms", workflow |-> "wf", perm_facts |-> Want,
       wf_facts |-> Want, enabled |-> enabled, dry |-> FALSE], {"perms", "wf"})
BrowserCase(browser) ==
  Hub([kind |-> "provision_github_browser", toggles |-> <<"one", "two">>, wants |-> Want, browser |-> browser,
       dry |-> FALSE], {"one", "two"})

-----------------------------------------------------------------------------
(* Services.  An agent may be gone, or loaded from an older plist.          *)
OldAgent  == File("agent", "old")
Plists    == {Nothing, File("plist", "old"), Mine("plist")}
CtlStates == {Path("broken", {}, <<>>), Nothing}
Launch(dry) == Case(
  <<[kind |-> "provision_schedule", platform |-> "launchd", plist |-> "plist", agent |-> "agent", ctl |-> "ctl",
     version |-> "new", dry |-> dry]>>,
  [plist |-> Nothing, agent |-> Nothing, ctl |-> Nothing],
  [plist |-> Plists, agent |-> {Nothing, OldAgent}, ctl |-> CtlStates])

CronCase == Case(
  <<[kind |-> "provision_schedule", platform |-> "cron", crontab |-> "crontab", crontab_list |-> "list",
     crontab_write |-> "write", version |-> "new", dry |-> FALSE]>>,
  [crontab |-> Text(<<U(1)>>), list |-> Nothing, write |-> Nothing],
  [crontab |-> {Nothing, Text(<<U(1), <<"sentinel">>, <<"cron", "old">>, U(2)>>), Text(<<U(1), <<"sentinel">>>>),
                Text(<<U(1), <<"sentinel">>, U(2), U(3)>>)},
   list |-> CtlStates, write |-> CtlStates])

Sentinels == {Dir({}), Dir({<<"sentinel">>}), Nothing}
SpotlightCase(darwin) == Case(
  <<[kind |-> "provision_spotlight", darwin |-> darwin, dirs |-> {"one", "two"}, plist |-> "plist",
     agent |-> "agent", ctl |-> "ctl", version |-> "new", dry |-> FALSE]>>,
  [one |-> Dir({}), two |-> Nothing, plist |-> Nothing, agent |-> Nothing, ctl |-> Nothing],
  [one |-> Sentinels, two |-> Sentinels, plist |-> Plists, agent |-> {Nothing, OldAgent}, ctl |-> CtlStates])

TgCtlCase(boot) == Case(
  <<[kind |-> "provision_tg_ctl", darwin |-> TRUE, boot |-> boot, stale |-> "stale", stale_agent |-> "oldctl",
     plist |-> "plist", agent |-> "agent", ctl |-> "ctl", version |-> "new", dry |-> FALSE]>>,
  [stale |-> Nothing, oldctl |-> Nothing, plist |-> Nothing, agent |-> Nothing, ctl |-> Nothing],
  [stale |-> {Mine("stale")}, oldctl |-> {OldAgent}, plist |-> Plists, agent |-> {Nothing, OldAgent},
   ctl |-> CtlStates])

ToolsCase == Case(
  <<[kind |-> "provision_tools", tools |-> <<"tg", "rec">>, dry |-> FALSE]>>,
  [tg |-> Dir({<<"repo">>}), rec |-> Dir({<<"repo">>, <<"bin">>, <<"blurb">>})],
  [tg |-> {Nothing, Dir({<<"repo">>, <<"bin">>}), Dir({<<"repo">>, <<"broken">>})},
   rec |-> {Dir({<<"repo">>}), Dir({<<"bin">>})}])

TmuxAction(mode) ==
  [kind |-> "provision_tmux", mode |-> mode, dir |-> "new", version |-> "new", conf |-> "conf",
   rig_conf |-> "rigconf", boot |-> TRUE, autosave |-> TRUE, boot_script |-> "boot.sh",
   save_script |-> "save.sh", boot_plist |-> "boot.plist", save_plist |-> "save.plist", resurrect |-> "dir",
   plugins |-> <<"resurrect">>, boot_agent |-> "boot", save_agent |-> "save", continuum |-> "continuum",
   snapshot |-> "snapshot", server |-> "server", ctl |-> "ctl", net |-> "net", dry |-> FALSE]
Confs == {Nothing, Text(<<U(1), <<"inline", "a", "user">>, U(2)>>),
          Text(<<U(1)>> \o Block("tmux", "old") \o <<U(2)>>),
          Text(<<<<"import", "old">>, U(1)>>), Text(<<<<"import", "new">>, U(1)>>),
          Text(<<U(1), <<"begin", "tmux">>, U(2)>>)}     \* a block whose last line is gone
TmuxCase(mode) ==
  LET cells == {"rigconf", "boot.sh", "save.sh", "boot.plist", "save.plist", "dir", "resurrect", "boot", "save",
                "continuum", "snapshot", "server", "ctl", "net", "conf"}
  IN  Case(<<TmuxAction(mode)>>,
           [c \in cells |-> IF c = "conf" THEN Text(<<U(1)>>) ELSE IF c = "server" THEN Holding({}) ELSE Nothing],
           [conf |-> Confs, rigconf |-> {Mine("rigconf"), File("text", "old")}, boot |-> {OldAgent},
            ctl |-> {Path("broken", {}, <<>>)}, net |-> {Path("broken", {}, <<>>)}, server |-> {Nothing},
            resurrect |-> {Dir({})}, continuum |-> {OldAgent}]
             @@ ("boot.plist" :> Plists) @@ ("save.sh" :> {Mine("save.sh"), File("text", "new")}))

-----------------------------------------------------------------------------
Cases ==
  {Skill, Hook, Dispatcher, Ci(FALSE, Item), Ci(TRUE, Variants), CiShip,
   Shared(<<ClaudeAction, Permit>>), Shared(<<Bridge, Server>>), Shared(<<Permit, Bridge>>),
   Mode(TRUE), Mode(FALSE), Region("provision_execpolicy", "execpolicy"),
   Region("provision_instruction_policy", "policy"), GuardCase, Toml, Opencode(FALSE), Opencode(TRUE),
   Omp(FALSE), Omp(TRUE), Ship(FALSE, FALSE), Ship(FALSE, TRUE), Ship(TRUE, FALSE), NoRoot, Alias(FALSE),
   Alias(TRUE), Agents, Env("new"), Env("invalid"), Excludes("none"), Excludes("mine"), Linter(FALSE),
   Linter(TRUE), Project, RulesetCase(FALSE), RulesetCase(TRUE), MergeCase, GhasCase, ActionsCase(TRUE),
   ActionsCase(FALSE), BrowserCase(TRUE), BrowserCase(FALSE), Launch(FALSE), Launch(TRUE), CronCase,
   SpotlightCase(TRUE), SpotlightCase(FALSE), TgCtlCase(TRUE), TgCtlCase(FALSE), ToolsCase,
   TmuxCase("block"), TmuxCase("import")}

=============================================================================
