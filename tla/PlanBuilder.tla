----------------------------- MODULE PlanBuilder -----------------------------
(***************************************************************************)
(* plan.build: what a loaded configuration and a catalog make `rig apply`  *)
(* do.  The state is the two configuration files and the world the builder *)
(* looks at; a step edits a file or changes the world, and rig plans anew. *)
(*                                                                         *)
(* A path is the sequence of its components: "~" the home, "." the         *)
(* repository, "catalog" the agent-tools checkout.  The plan is a sequence *)
(* of actions; of an action's options those are kept that some other       *)
(* action, a handler or a property looks at.                               *)
(***************************************************************************)
EXTENDS ConfigRules

CONSTANTS
    Paths,      \* the spellings of paths in a configuration, and what they name
    Extensions, \* the extensions of their last components, where there is one
    Start,      \* the configurations and worlds rig starts with
    Edits,      \* the values an edit of rig.yaml writes, by path
    MachineEdits,   \* and those of an edit of the machine's configuration
    Worlds,     \* the changes of the world: sets of a field's values
    MaxEdits

VARIABLES
    global,     \* ~/.config/rig/config.yaml
    repo,       \* rig.yaml
    world,      \* the catalog, the repository and the machine
    plan,       \* what rig plans: [verdict, actions]
    edits       \* how many edits there were
vars == <<global, repo, world, plan, edits>>

-----------------------------------------------------------------------------
(* What the parser and the catalog deliver: a list is a sequence, a file   *)
(* has finitely many keys, an item of the catalog a list of descriptors.   *)
IsSeq(s) == s \in Seq(ToSet(s))
IsValue(v) == TypeOf(v) = "array" => IsSeq(v[3])
IsConfig(c) == IsFiniteSet(DOMAIN c) /\ \A p \in DOMAIN c : IsValue(c[p])
IsCatalog(items) == IsSeq(items) /\ \A item \in ToSet(items) : IsSeq(item.descriptors)
IsWorld(w) == {"items", "codexHome"} \subseteq DOMAIN w /\ IsCatalog(w.items) /\ IsSeq(w.codexHome)
ASSUME StartAssumption ==
    \A s \in Start : IsConfig(s.global) /\ IsConfig(s.repo) /\ IsWorld(s.world)
ASSUME EditsAssumption ==
    /\ \A p \in DOMAIN Edits : \A v \in Edits[p] : IsValue(v)
    /\ \A p \in DOMAIN MachineEdits : \A v \in MachineEdits[p] : IsValue(v)
ASSUME WorldsAssumption ==
    /\ "items" \in DOMAIN Worlds => \A items \in Worlds["items"] : IsCatalog(items)
    /\ "codexHome" \in DOMAIN Worlds => \A home \in Worlds["codexHome"] : IsSeq(home)
ASSUME PathsAssumption ==
    /\ \A s \in DOMAIN Paths : IsSeq(Paths[s])
    /\ ".github/workflows" \in DOMAIN Paths
    /\ Paths[".github/workflows"] = <<".", ".github", "workflows">>

-----------------------------------------------------------------------------
(* Reading a configuration the way the builder does.                       *)
Truthy(v) ==
    /\ v \notin {Absent, Null, Bool(FALSE), Int_(0), EmptyStr}
    /\ ~(TypeOf(v) = "array" /\ v[3] = <<>>)
On(c, block) == Knob(c, block, "enabled") # Bool(FALSE)
Get(c, block, key, default) == IF Given(c, block, key) THEN Knob(c, block, key) ELSE default
Or(v, default) == IF Truthy(v) THEN v ELSE default

\* _expand: a relative path lies in the repository; str() of a null is a name.
Expand(s) == IF s \in DOMAIN Paths THEN Paths[s] ELSE <<".", s>>
PathOf(v) == Expand(IF TypeOf(v) = "string" THEN v[2] ELSE "None")

\* set(value or []): a string is the set of its characters, which no item is
\* called; a number or a true has none, and the message about an unknown name
\* fails on a number in a list.
Unknown == "a character of a string"
NoSet(v) ==
    Truthy(v) /\ (TypeOf(v) \in {"integer", "boolean"} \/ (TypeOf(v) = "array" /\ ~IsList(v, "string")))
Named(c, block, key) ==
    LET v == Knob(c, block, key) IN
    CASE ~Truthy(v) \/ NoSet(v) -> {}
      [] TypeOf(v) = "array" -> ToSet(v[3])
      [] TypeOf(v) = "object" -> Children(c, Append(block, key))
      [] OTHER -> {Unknown}

When(condition, s) == IF condition THEN s ELSE <<>>
ForEach(s, Op(_)) == FlattenSeq([i \in DOMAIN s |-> Op(s[i])])
Where(s, Test(_)) == ForEach(s, LAMBDA x : When(Test(x), <<x>>))
Distinct(s) == FlattenSeq([i \in DOMAIN s |-> When(\A j \in 1 .. i - 1 : s[j] # s[i], <<s[i]>>)])

Act(kind, item, target, options) == [kind |-> kind, item |-> item, target |-> target, options |-> options]
NoOptions == [o \in {} |-> Null]
Dir(p) == <<"path", p>>

-----------------------------------------------------------------------------
(* The harnesses and the places they read.                                 *)
Home(p) == <<"~">> \o p
CodexPath(w, p) == w.codexHome \o p
OmpPath(p) == Home(<<".omp", "agent">>) \o p
LegacyHooks == Home(<<".claude", "hooks">>)
NativeSkills == Home(<<".agents", "skills">>)
HooksDirs(w) == [k \in {"claude-code", "codex", "opencode", "omp"} |->
    CASE k = "claude-code" -> LegacyHooks [] k = "codex" -> CodexPath(w, <<"hooks">>)
      [] k = "opencode" -> Home(<<".config", "opencode", "hooks">>) [] OTHER -> OmpPath(<<"hooks">>)]

Primary(c) == Or(Knob(c, <<"harness">>, "kind"), Str("claude-code"))[2]
Kinds(c) ==
    LET more == Knob(c, <<"harness">>, "kinds") IN
    Distinct(<<Primary(c)>> \o (IF TypeOf(more) = "array" THEN more[3] ELSE <<>>))
HarnessOn(c) == HasMap(c, <<"harness">>) /\ On(c, <<"harness">>)

Builtin ==
    [skills |-> "~/.agents/skills", agent_hooks |-> "~/.claude/hooks",
     ci |-> ".github/workflows", mcp |-> "~/.claude/mcp"]
DefaultsKey ==
    [skills |-> "skills_target", agent_hooks |-> "hooks_target", ci |-> "ci_target", mcp |-> "mcp_target"]
Default(c, category) == Knob(c, <<"defaults">>, DefaultsKey[category])
ResolveTarget(c, category) ==
    PathOf(Or(Knob(c, <<category>>, "target"), Or(Default(c, category), Str(Builtin[category]))))

\* A target or a default of its own pins one directory for every harness.
CustomTarget(c) ==
    LET target == Knob(c, <<"agent_hooks">>, "target") IN Truthy(target) /\ PathOf(target) # LegacyHooks
CustomDefault(c) == Truthy(Default(c, "agent_hooks")) /\ PathOf(Default(c, "agent_hooks")) # LegacyHooks
Pinned(c) == CustomTarget(c) \/ CustomDefault(c)
OwnHooksDirs(c, w) ==
    ForEach(Kinds(c), LAMBDA k : IF k \in DOMAIN HooksDirs(w) THEN <<HooksDirs(w)[k]>> ELSE <<>>)
HookTargets(c, w) ==
    CASE CustomTarget(c) -> <<ResolveTarget(c, "agent_hooks")>>
      [] ~CustomTarget(c) /\ CustomDefault(c) -> <<PathOf(Default(c, "agent_hooks"))>>
      [] ~Pinned(c) /\ OwnHooksDirs(c, w) # <<>> -> Distinct(OwnHooksDirs(c, w))
      [] OTHER -> <<ResolveTarget(c, "agent_hooks")>>

-----------------------------------------------------------------------------
(* Which items are enabled.  A catalog item has a category, a name and, a  *)
(* skill, its group, its leaf name and the type or stack it is for.        *)
Items(w, category) == Where(w.items, LAMBDA item : item.category = category)
NamesOf(w, category) == {item.name : item \in ToSet(Items(w, category))}
SkillsIn(w, group) == {item \in ToSet(Items(w, "skills")) : item.group = group}

Selected(c, block, item, all, default) ==
    LET own == Knob(c, block \o <<"items", item.name>>, "enabled") IN
    CASE own # Absent -> Truthy(own)
      [] own = Absent /\ item.name \in Named(c, block, "disable") -> FALSE
      [] own = Absent /\ item.name \in Named(c, block, "enable") \ Named(c, block, "disable") -> TRUE
      [] OTHER -> LET flag == Get(c, block, "all", all)
                  IN  flag = Bool(TRUE) \/ (flag # Bool(FALSE) /\ default)

StackMatches(c, stack) ==
    LET declared == At(c, <<"stack">>) IN declared # Absent /\ IsPrefix(stack, Stacks[declared[2]])

SkillOn(c, w, item) ==
    LET byType == <<"skills", "by_type">>
        byStack == <<"skills", "by_stack">>
        own(block) == Knob(c, block \o <<"items", item.name>>, "enabled")
        asked == Named(c, byType, "enable")
        types == IF asked = {} THEN {w.type} \ {"unknown"} ELSE asked
    IN  CASE item.group = "universal" -> Selected(c, <<"skills", "universal">>, item, Bool(TRUE), TRUE)
          [] item.group = "by-type" ->
               IF own(byType) # Absent THEN Truthy(own(byType)) ELSE item.for[1] \in types
          [] item.group = "by-stack" ->
               IF own(byStack) # Absent THEN Truthy(own(byStack))
               ELSE item.name \notin Named(c, byStack, "disable") /\ StackMatches(c, item.for)
EnabledSkills(c, w) ==
    When(On(c, <<"skills">>), Where(Items(w, "skills"), LAMBDA item : SkillOn(c, w, item)))
EnabledHooks(c, w) ==
    When(On(c, <<"agent_hooks">>),
         Where(Items(w, "agent_hooks"), LAMBDA i : Selected(c, <<"agent_hooks">>, i, Bool(TRUE), TRUE)))
EnabledIn(c, w, category) ==
    When(On(c, <<category>>),
         Where(Items(w, category), LAMBDA i : Selected(c, <<category>>, i, Absent, FALSE)))

\* _validate_item_names: a name the catalog does not have.
NameSets == {<<<<"skills", "universal">>, "enable">>, <<<<"skills", "universal">>, "disable">>,
             <<<<"skills", "by_type">>, "enable">>, <<<<"skills", "by_stack">>, "disable">>}
HasUnknownItem(c, w) ==
    LET named(group) == {item.name : item \in SkillsIn(w, group)} IN
    ~ /\ Named(c, <<"skills", "universal">>, "enable") \union Named(c, <<"skills", "universal">>, "disable")
           \subseteq named("universal")
      /\ Children(c, <<"skills", "by_type", "items">>) \subseteq named("by-type")
      /\ Named(c, <<"skills", "by_type">>, "enable") \subseteq {item.for[1] : item \in SkillsIn(w, "by-type")}
      /\ Named(c, <<"skills", "by_stack">>, "disable") \union Children(c, <<"skills", "by_stack", "items">>)
           \subseteq named("by-stack")
      /\ \A category \in {"agent_hooks", "mcp"} :
           Children(c, <<category, "items">>) \subseteq NamesOf(w, category)
      /\ Children(c, <<"git_hooks">>) \subseteq NamesOf(w, "git_hooks") \union {"templates"}
      /\ On(c, <<"ci">>) => Children(c, <<"ci", "items">>) \subseteq NamesOf(w, "ci")

-----------------------------------------------------------------------------
(* Skills, hooks, the dispatcher, CI and MCP.                              *)
SkillsTargetOfHooks(c) == ResolveTarget(c, "agent_hooks")
SkillsTarget(c) == ResolveTarget(c, "skills")
LinkSourceByName(c, item) == Append(SkillsTarget(c), item.name)
LinkSource(c, item) == Append(SkillsTarget(c), item.leaf)
LinkDirsOf(c, w, kind) ==
    CASE kind = "claude-code" -> <<Home(<<".claude", "skills">>)>>
      [] kind = "codex" -> <<CodexPath(w, <<"skills">>)>>
      [] kind \in {"opencode", "omp"} -> When(SkillsTarget(c) # NativeSkills, <<NativeSkills>>)
      [] OTHER -> <<>>
LinkDirs(c, w) ==
    LET override == Knob(c, <<"skills">>, "harness_skill_dir") IN
    CASE Knob(c, <<"skills">>, "harness_link") = Bool(FALSE) -> <<>>
      [] Knob(c, <<"skills">>, "harness_link") # Bool(FALSE) /\ Truthy(override) -> <<PathOf(override)>>
      [] OTHER -> Distinct(ForEach(Kinds(c), LAMBDA kind : LinkDirsOf(c, w, kind)))
CopySkill(c, item) == Act("copy_skill", item.name, Append(SkillsTarget(c), item.leaf), NoOptions)
LinkSkill(c, item, d) ==
    Act("link_skill_harness", item.name, Append(d, item.leaf), [source |-> Dir(LinkSource(c, item))])
SkillAndLinks(c, w, item) ==
    <<CopySkill(c, item)>>
      \o ForEach(LinkDirs(c, w), LAMBDA d : When(d # SkillsTarget(c), <<LinkSkill(c, item, d)>>))
SkillActions(c, w) == ForEach(EnabledSkills(c, w), LAMBDA item : SkillAndLinks(c, w, item))

InstallHook(c, item, d, descriptor) ==
    Act("install_agent_hook", item.name, Append(d, descriptor),
        [on_error |-> Get(c, <<"agent_hooks", "items", item.name>>, "on_error", Null)])
HookInto(c, item, d) ==
    [i \in DOMAIN item.descriptors |-> InstallHook(c, item, d, item.descriptors[i])]
HooksOf(c, w, item) == ForEach(HookTargets(c, w), LAMBDA d : HookInto(c, item, d))
HookActions(c, w) == ForEach(EnabledHooks(c, w), LAMBDA item : HooksOf(c, w, item))
\* Two hooks with a descriptor of one name would clobber one another.
FirstDescriptorsCollide(c, w) ==
    \E a, b \in ToSet(EnabledHooks(c, w)) : a.name # b.name /\ a.descriptors[1] = b.descriptors[1]
DescriptorsCollide(c, w) ==
    \E a, b \in ToSet(EnabledHooks(c, w)) :
        a.name # b.name /\ ToSet(a.descriptors) \intersect ToSet(b.descriptors) # {}

DispatcherActions(c, w) ==
    LET block == <<"git_hooks", "dispatcher">>
        flag(key) == Bool(Truthy(Get(c, block, key, Bool(TRUE))))
    IN  When(Truthy(Knob(c, block, "enabled")) /\ "dispatcher" \in NamesOf(w, "git_hooks"),
          <<Act("install_dispatcher", "dispatcher", PathOf(Get(c, block, "dir", Str("~/.config/git/global-hooks.d"))),
              [runner |-> Dir(PathOf(Get(c, block, "runner", Str("~/.config/git/run-global-hooks")))),
               set_global_hooks_path |-> flag("set_global_hooks_path"),
               retrofit |-> flag("install_local_retrofit_script"),
               fragments |-> StrList(SetToSeq(Children(c, Append(block, "fragments"))))])>>)

\* The raw target decides, so an explicit null is neither the default one nor
\* "export-only".
RawTarget(c, category) ==
    LET default == Get(c, <<"defaults">>, DefaultsKey[category], Str(Builtin[category]))
    IN  Get(c, <<category>>, "target", default)
ExportOnly(c, category) == RawTarget(c, category) = Str("export-only")
InstallCi(c, item) ==
    LET spec(key, default) == Get(c, <<"ci", "items", item.name>>, key, default) IN
    IF item.name = "ship"
    THEN Act("install_ci", "ship", PathOf(spec("install_to", Str("~/bin"))),
           [gh_alias |-> Bool(Truthy(spec("gh_alias", Null)))])
    ELSE Act("install_ci", item.name, ResolveTarget(c, "ci"),
           [tier |-> spec("tier", Str("block")), variant |-> spec("variant", Null)])
CiActions(c, w) ==
    When(~ExportOnly(c, "ci"), ForEach(EnabledIn(c, w, "ci"), LAMBDA item : <<InstallCi(c, item)>>))

RegisterMcp(c, item) ==
    LET e == <<"mcp", "items", item.name>> IN
    Act("register_mcp", item.name, PathOf(RawTarget(c, "mcp")),
        [server |-> Or(Knob(c, e, "server"), Str(item.name)), command |-> Get(c, e, "command", EmptyStr),
         args |-> Knob(c, e, "args"), env |-> At(c, Append(e, "env"))])
McpActions(c, w) ==
    When(~ExportOnly(c, "mcp"), ForEach(EnabledIn(c, w, "mcp"), LAMBDA item : <<RegisterMcp(c, item)>>))

-----------------------------------------------------------------------------
(* harness_mode: every harness has its own words for working without and   *)
(* with questions; a mode of the primary one tells the others which.       *)
Mode(auto, other, asking, more) ==
    [on |-> auto, off |-> asking, auto |-> {auto} \union other, asks |-> {asking} \union more]
Modes ==
       "claude-code" :> Mode("auto", {"bypassPermissions", "dontAsk"}, "default", {"acceptEdits", "plan"})
    @@ "codex" :> Mode("auto_review", {}, "user", {})
    @@ "opencode" :> Mode("allow", {}, "ask", {"deny"})
    @@ "omp" :> Mode("yolo", {}, "always-ask", {"write"})
ModeKnob(c) == Knob(c, <<"harness">>, "mode")
ModeIn(c, kinds(_)) ==
    Truthy(ModeKnob(c)) /\ Primary(c) \in DOMAIN Modes /\ ModeKnob(c)[2] \in kinds(Modes[Primary(c)])
SaysAuto(c) == ModeIn(c, LAMBDA m : m.auto)
SaysAsk(c) == ModeIn(c, LAMBDA m : m.asks)
\* harness_auto_intent: a known mode, else auto_mode, else nothing was said.
Intent(c) ==
    CASE SaysAuto(c) -> Bool(TRUE)
      [] SaysAsk(c) -> Bool(FALSE)
      [] OTHER -> IF Set_(c, <<"harness">>, "auto_mode") THEN Knob(c, <<"harness">>, "auto_mode") ELSE Null
ValueFor(kind, auto) == IF auto THEN Modes[kind].on ELSE Modes[kind].off
\* resolved_mode_value: the primary harness keeps the very mode it names.
ResolvedMode(c, kind, unsaid) ==
    IF kind = Primary(c) /\ (SaysAuto(c) \/ SaysAsk(c)) THEN ModeKnob(c)[2]
    ELSE ValueFor(kind, IF Intent(c) = Null THEN unsaid ELSE Intent(c) = Bool(TRUE))

ClaudeSettings == Home(<<".claude", "settings.json">>)
ApplyMode(kind, target, auto, value, merge) ==
    Act("apply_harness", kind, target,
        [auto_mode |-> Bool(auto), mode_value |-> Str(value), self_merge |-> Bool(merge)])
SelfMerge(c) == Truthy(Get(c, <<"harness">>, "self_merge", Bool(TRUE)))
PrimaryClaude(c) ==
    LET auto == Truthy(Knob(c, <<"harness">>, "auto_mode"))
        value == Or(ModeKnob(c), Str(ValueFor("claude-code", auto)))[2]
        explicit == Knob(c, <<"harness">>, "settings_path")
        target == IF Truthy(explicit) THEN PathOf(explicit)
                  ELSE IF value = "auto" THEN ClaudeSettings ELSE <<".", ".claude", "settings.json">>
    IN  ApplyMode("claude-code", target, auto, value, SelfMerge(c) /\ value = "auto")
OtherMode(c, w, kind) ==
    LET auto == Intent(c) = Bool(TRUE) IN
    CASE kind = "claude-code" -> ApplyMode(kind, ClaudeSettings, auto, ValueFor(kind, auto), SelfMerge(c) /\ auto)
      [] kind = "codex" -> ApplyMode(kind, CodexPath(w, <<"config.toml">>), auto, ResolvedMode(c, kind, FALSE), FALSE)
      [] OTHER -> ApplyMode(kind, Home(<<".config", "opencode", "opencode.json">>), auto, ResolvedMode(c, kind, FALSE), FALSE)
ModeOf(c, w, kind) ==
    IF kind = "claude-code" /\ kind = Primary(c) THEN <<PrimaryClaude(c)>>
    ELSE When(kind \in {"claude-code", "codex", "opencode"} /\ Intent(c) # Null, <<OtherMode(c, w, kind)>>)
HarnessActions(c, w) == When(HarnessOn(c), ForEach(Kinds(c), LAMBDA kind : ModeOf(c, w, kind)))

\* The autonomous mode is an action that only records it.
Autonomously(c) == Knob(c, <<"mode">>, "name") = Str("autonomous")
ModeActions(c) == When(Autonomously(c), <<Act("record_mode", "autonomous", <<".">>, NoOptions)>>)

-----------------------------------------------------------------------------
(* Permissions: an allowlist for two harnesses, an execution policy for    *)
(* one, a guard with its approval posture for one, instructions for two.   *)
PermissionKinds(c) ==
    IF Truthy(Knob(c, <<"permissions">>, "kind")) THEN <<Knob(c, <<"permissions">>, "kind")[2]>> ELSE Kinds(c)
Allowlists == {"claude-code", "opencode"}
ListOf(c, key, default) ==
    LET v == Knob(c, <<"permissions">>, key) IN IF TypeOf(v) = "array" THEN ToSet(v[3]) ELSE default
ToolNames(c) == (ListOf(c, "tools", {"default tools"}) \union ListOf(c, "extra", {})) \ ListOf(c, "disable", {})
RuleSet(S) == <<"rules", S>>
AutonomousRules(c) ==
    LET v == Knob(c, Autonomous \o <<"development_tools">>, "allow") IN
    CASE ~Autonomously(c) -> {}
      [] Autonomously(c) /\ v = Absent -> {"default rules"}
      [] OTHER -> IF TypeOf(v) = "array" THEN ToSet(v[3]) ELSE {}
AllowlistKinds(c) ==
    LET kinds == Where(PermissionKinds(c), LAMBDA k : k \in Allowlists) IN
    IF Truthy(Knob(c, <<"permissions">>, "settings_path")) /\ Len(PermissionKinds(c)) > 1 /\ kinds # <<>>
    THEN <<kinds[1]>> ELSE kinds
Allowlist(c, kind) ==
    LET path == Knob(c, <<"permissions">>, "settings_path")
        claude == kind = "claude-code"
        own == IF claude THEN ClaudeSettings ELSE Home(<<".config", "opencode", "opencode.json">>)
        rules(key) == IF claude THEN ListOf(c, key, {"baseline"}) ELSE {"baseline"}
        allow == IF claude THEN ListOf(c, "allow", {}) \union AutonomousRules(c) ELSE {}
    IN  Act("provision_permissions", kind, IF Truthy(path) THEN PathOf(path) ELSE own,
          [tools |-> RuleSet(ToolNames(c)), allow |-> RuleSet(allow),
           deny |-> RuleSet(rules("deny")), ask |-> RuleSet(rules("ask"))])
PermissionActions(c) ==
    When(On(c, <<"permissions">>), ForEach(AllowlistKinds(c), LAMBDA kind : <<Allowlist(c, kind)>>))
ExecPolicyActions(c, w) ==
    When(On(c, <<"permissions">>) /\ "codex" \in ToSet(PermissionKinds(c)),
      <<Act("provision_execpolicy", "codex", CodexPath(w, <<"rules", "rig-managed.rules">>),
          [tools |-> RuleSet(ToolNames(c))])>>)

\* _approval_mode_value: what was not said keeps the posture of a machine
\* without questions.
ApprovalMode(c, kind) ==
    IF HarnessOn(c) /\ kind \in ToSet(Kinds(c)) THEN ResolvedMode(c, kind, TRUE) ELSE ValueFor(kind, TRUE)
GuardTarget == OmpPath(<<"extensions", "rig-permissions-guard.ts">>)
Instructions(kind) == Home(IF kind = "pi" THEN <<".config", "pi", "AGENTS.md">> ELSE <<".commandcode", "AGENTS.md">>)
Guard(kind) == Act("install_harness_guard", kind, GuardTarget, NoOptions)
Approval(c, kind) ==
    Act("provision_harness_approval", kind, OmpPath(<<"config.yml">>),
        [mode_value |-> Str(ApprovalMode(c, kind)), guard_target |-> Dir(GuardTarget)])
GuardsOf(c, kind) ==
    CASE kind = "omp" -> <<Guard(kind), Approval(c, kind)>>
      [] kind \in {"pi", "commandcode"} ->
           <<Act("provision_instruction_policy", kind, Instructions(kind), NoOptions)>>
      [] OTHER -> <<>>
GuardActions(c) ==
    When(On(c, <<"permissions">>), ForEach(PermissionKinds(c), LAMBDA kind : GuardsOf(c, kind)))

-----------------------------------------------------------------------------
(* The bridges of the hooks.                                               *)
BridgeTarget(c, w, kind) ==
    LET explicit == Knob(c, <<"harness">>, "settings_path")
        own == CASE kind = "claude-code" -> <<".", ".claude", "settings.json">>
                 [] kind = "codex" -> CodexPath(w, <<"config.toml">>)
                 [] kind = "opencode" -> <<".", ".opencode", "plugins", "zz-agent-tools-hook-bridge.js">>
                 [] OTHER -> OmpPath(<<"extensions", "zz-agent-tools-hook-bridge.ts">>)
    IN  IF kind = Primary(c) /\ Truthy(explicit) THEN PathOf(explicit) ELSE own
BridgeSuffix == [k \in {"codex", "opencode", "omp"} |-> CASE k = "codex" -> "toml" [] k = "opencode" -> "js" [] OTHER -> "ts"]
SuffixFits(c, w, kind) ==
    LET explicit == kind = Primary(c) /\ Truthy(Knob(c, <<"harness">>, "settings_path"))
        name == Last(BridgeTarget(c, w, kind))
        suffix == IF name \in DOMAIN Extensions THEN Extensions[name] ELSE ""
    IN  explicit /\ kind \in DOMAIN BridgeSuffix => suffix \in {"", BridgeSuffix[kind]}
\* What the descriptors' directory is to the bridge: pinned, or the one the
\* bridge's own default misses because Codex has another home.
BridgeHooksDirPinnedOnly(c, w, kind) == IF Pinned(c) THEN Dir(HookTargets(c, w)[1]) ELSE Null
BridgeHooksDir(c, w, kind) ==
    CASE Pinned(c) -> Dir(HookTargets(c, w)[1])
      [] ~Pinned(c) /\ kind = "codex" /\ w.codexHome # Home(<<".codex">>) -> Dir(CodexPath(w, <<"hooks">>))
      [] OTHER -> Null
\* codex_usage_hook_command.
StopHooks(c, w) ==
    On(c, <<"tg_ctl">>) /\ Knob(c, <<"tg_ctl">>, "codex_usage_hook") # Bool(FALSE) /\ w.telemetry
BridgeOn(c, w, kind) ==
    /\ On(c, <<"harness", "hook_bridge">>)
    /\ kind \in DOMAIN HooksDirs(w)
    /\ <<"bridge", kind>> \in w.carriers
    /\ SuffixFits(c, w, kind)
    /\ kind = "opencode" => BridgeTarget(c, w, kind)[1] # "." \/ w.rigYaml
Bridge(c, w, kind) ==
    Act("register_hook_bridge", "hook-bridge", BridgeTarget(c, w, kind),
        [kind |-> Str(kind), hooks_dir |-> BridgeHooksDir(c, w, kind),
         python |-> Or(Knob(c, <<"harness", "hook_bridge">>, "python"), Null),
         stop_hooks |-> Bool(kind = "codex" /\ StopHooks(c, w))])
BridgeActions(c, w) ==
    When(HarnessOn(c) /\ On(c, <<"agent_hooks">>),
         ForEach(Kinds(c), LAMBDA kind : When(BridgeOn(c, w, kind), <<Bridge(c, w, kind)>>)))

-----------------------------------------------------------------------------
(* The schedule, AGENTS.md, `gh ship`, the linters.                        *)
\* default_checker_path is the catalog's own; a file that is not there is no
\* schedule.
ModelsActions(c, w) ==
    LET checker == IF Truthy(Knob(c, <<"models">>, "checker_path"))
                   THEN PathOf(Knob(c, <<"models">>, "checker_path")) ELSE <<"catalog", "checker">>
        schedule == <<"models", "schedule">>
    IN  When(HasMap(c, <<"models">>) /\ On(c, <<"models">>) /\ checker \in w.carriers,
          <<Act("provision_schedule", "model-freshness", Home(<<"LaunchAgents">>),
              [label |-> Or(Knob(c, schedule, "label"), Str("default-label")),
               time |-> Get(c, schedule, "time", Str("default-time")), checker |-> Dir(checker)])>>)

SymlinkActions(c) ==
    When(On(c, <<"agents_md">>) /\ Knob(c, <<"agents_md">>, "symlink") # Bool(FALSE),
      <<Act("provision_agents_symlink", "symlink", <<".">>, NoOptions)>>)

\* The alias calls the delegator of the repository, and the catalog's script
\* where there is none.
ShipScript == <<"catalog", "ci", "ship", "ship.sh">>
AliasAsked(actions) ==
    \E a \in ToSet(actions) : a.kind = "install_ci" /\ a.item = "ship" /\ a.options["gh_alias"] = Bool(TRUE)
ShipActions(c, w, before) ==
    LET on == On(c, <<"ship_delegator">>) IN
    When((on \/ AliasAsked(before)) /\ ShipScript \in w.carriers,
      When(on, <<Act("provision_ship_delegator", "delegator", <<".">>, [canonical_ship |-> Dir(ShipScript)])>>)
        \o <<Act("provision_gh_ship_alias", "alias", Home(<<".config", "gh">>),
              [canonical_ship |-> IF on THEN Null ELSE Dir(ShipScript)])>>)

LinterFile(item, path, source, owned) ==
    Act("provision_linter_config", item, Expand(path), [source |-> source, rig_owned |-> Bool(owned)])
EnabledLinters(c) ==
    When(On(c, <<"linters">>), Where(SetToSeq(Entries(c, LinterItems)), LAMBDA e : ItemEnabled(c, e)))
LinterItem(c, e) == LinterFile(Last(e), Knob(c, e, "path")[2], Or(Knob(c, e, "source"), Null), FALSE)
LinterItemActions(c) == ForEach(EnabledLinters(c), LAMBDA e : <<LinterItem(c, e)>>)
LinterPaths(c) == {Knob(c, e, "path")[2] : e \in ToSet(EnabledLinters(c))}
HasRulePolicy(c) ==
    LET stack == At(c, <<"stack">>)
        segments == IF stack = Absent THEN {} ELSE ToSet(Stacks[stack[2]])
    IN  On(c, <<"linters">>) /\ ({"ts", "typescript"} \intersect segments # {} \/ At(c, LinterRules) # Absent)
PolicyBlocked(c, w) == "oxlint" \notin w.packages \/ (AntiSlopRequired(c) /\ "@oxlint/plugins" \notin w.packages)
OxfmtCarrier == <<"catalog", "linters", "oxc", ".oxfmtrc.jsonc">>
AntiSlopCarrier == <<"catalog", "vendor", "anti-slop">>
AntiSlopTarget == <<".", "tools", "oxlint", "anti-slop">>
FormatActions(c, w) ==
    When(".oxfmtrc.jsonc" \notin LinterPaths(c),
      IF "oxfmt" \in w.packages THEN <<LinterFile("rig-oxfmt-baseline", ".oxfmtrc.jsonc", Dir(OxfmtCarrier), TRUE)>>
      ELSE <<Act("format_policy_blocked", "formatter", <<".">>, NoOptions)>>)
PolicyActions(c, w) ==
    IF PolicyBlocked(c, w) THEN <<Act("lint_policy_blocked", "rules", <<".">>, NoOptions)>>
    ELSE <<LinterFile("rig-oxlint-policy", "oxlint.config.ts", Null, TRUE)>>
           \o When(AntiSlopRequired(c),
                <<Act("provision_linter_bundle", "anti-slop", AntiSlopTarget, [source |-> Dir(AntiSlopCarrier)])>>)
LinterActions(c, w) ==
    LinterItemActions(c) \o When(HasRulePolicy(c), FormatActions(c, w) \o PolicyActions(c, w))
\* A source the catalog does not have, a file rig's policy owns, a carrier
\* that is missing: each of them is a PlanError.
LintersRefused(c, w) ==
    \/ \E e \in ToSet(EnabledLinters(c)) :
         Given(c, e, "source") /\ Knob(c, e, "source") # Null /\ <<"catalog", Knob(c, e, "source")[2]>> \notin w.carriers
    \/ /\ HasRulePolicy(c)
       /\ \/ "oxlint.config.ts" \in LinterPaths(c)
          \/ ".oxfmtrc.jsonc" \notin LinterPaths(c) /\ "oxfmt" \in w.packages /\ OxfmtCarrier \notin w.carriers
          \/ ~PolicyBlocked(c, w) /\ AntiSlopRequired(c) /\ AntiSlopCarrier \notin w.carriers

-----------------------------------------------------------------------------
(* GitHub, and the blocks of the machine.                                  *)
Overrides(c, block) ==
    {<<Last(p), c[p]>> : p \in {q \in DOMAIN c : Under(q, block) /\ Last(q) # "enabled" /\ c[q] # Null}}
Contexts ==
    [workflow \in {"pr-checklist", "review-threads"} |->
       IF workflow = "pr-checklist" THEN "PR Checklist" ELSE "review-threads"]
\* The checks that the workflows this plan installs will report.
CheckContextsAnywhere(c, w) ==
    {Contexts[item.name] : item \in {i \in ToSet(EnabledIn(c, w, "ci")) : i.name \in DOMAIN Contexts}}
CheckContexts(c, w) ==
    IF RawTarget(c, "ci") # Str(Builtin["ci"]) THEN {}
    ELSE {Contexts[item.name] : item \in {i \in ToSet(EnabledIn(c, w, "ci")) : i.name \in DOMAIN Contexts}}
RequiredChecks(c, w) ==
    LET own == Knob(c, <<"github", "ruleset">>, "required_status_checks") IN
    IF TypeOf(own) = "array" THEN ToSet(own[3]) ELSE CheckContexts(c, w)
GitHub(c, w, name) ==
    LET overrides == RuleSet(Overrides(c, <<"github", name>>)) IN
    Act("provision_github", name, <<".">>,
        IF name = "ruleset"
        THEN [overrides |-> overrides, required_status_checks |-> RuleSet(RequiredChecks(c, w))]
        ELSE [overrides |-> overrides])
GitHubActions(c, w) ==
    ForEach(<<"ruleset", "merge", "actions", "ghas", "browser">>,
            LAMBDA name : When(On(c, <<"github", name>>), <<GitHub(c, w, name)>>))

\* The shell and macOS's autosave are settled here, not by the handler.
TmuxActions(c, w) ==
    LET knobs == {<<p, c[p]>> : p \in {q \in DOMAIN c : Under(q, <<"tmux">>)}} IN
    When(At(c, <<"tmux">>) = EmptyMap /\ On(c, <<"tmux">>),
      <<Act("provision_tmux", "config", PathOf(Get(c, <<"tmux">>, "conf_path", Str("~/.tmux.conf"))),
          [knobs |-> RuleSet(knobs), autosave |-> Bool(w.darwin /\ On(c, <<"tmux", "autosave">>))])>>)
EnvActions(c) ==
    When(At(c, <<"env">>) = EmptyMap /\ On(c, <<"env">>),
      <<Act("provision_env", "vars", PathOf(Get(c, <<"env">>, "rc_path", Str("~/.zshenv"))),
          [vars |-> RuleSet(Overrides(c, <<"env", "vars">>))])>>)
ExcludesActions(c) ==
    LET entries == Knob(c, <<"gitignore">>, "entries") IN
    When(On(c, <<"gitignore">>),
      <<Act("provision_global_excludes", "block", Home(<<".config", "git", "ignore">>),
          [entries |-> IF Truthy(entries) /\ TypeOf(entries) = "array" THEN entries ELSE Null,
           excludesfile |-> Or(Knob(c, <<"gitignore">>, "excludesfile"), Null)])>>)
\* Spotlight, and the tools, are off until they are switched on.
SpotlightActions(c) ==
    LET knob(key) == Or(Knob(c, <<"spotlight">>, key), Null) IN
    When(Truthy(Knob(c, <<"spotlight">>, "enabled")),
      <<Act("provision_spotlight", "exclude", <<"LaunchAgents">>,
          [roots |-> knob("roots"), deny |-> knob("deny"), extra |-> knob("extra"),
           label |-> knob("label"), max_depth |-> Knob(c, <<"spotlight">>, "max_depth")])>>)
\* int(None): max_depth may be null for the validator.
SpotlightCrashes(c) ==
    Truthy(Knob(c, <<"spotlight">>, "enabled")) /\ Knob(c, <<"spotlight">>, "max_depth") = Null

ToolSpecs(c) ==
    LET on == {e \in Entries(c, <<"tools", "items">>) : On(c, e)}
        bin == Or(Knob(c, <<"tools">>, "target"), Str("~/.local/bin"))
    IN  {<<Last(e), Or(Knob(c, e, "repo"), Str("its own")), PathOf(Or(Knob(c, e, "bin_dir"), bin))>> : e \in on}
ToolsActions(c) ==
    When(Truthy(Knob(c, <<"tools">>, "enabled")) /\ ToolSpecs(c) # {},
      <<Act("provision_tools", "ecosystem", <<"bin">>, [specs |-> RuleSet(ToolSpecs(c))])>>)
\* "haft" and "serena" stand for the files of the tool.
ToolEntries(c, name) ==
    CASE name = "haft" ->
           <<"haft">> \o When(Knob(c, <<"project_tools", "haft">>, "codex_mcp") # Bool(FALSE), <<"haft-codex-mcp">>)
      [] name = "serena" -> <<"serena">>
      [] OTHER -> When(Knob(c, <<"project_tools", "sverklo">>, "register") # Bool(FALSE), <<"sverklo-register">>)
                    \o When(Knob(c, <<"project_tools", "sverklo">>, "reindex") = Bool(TRUE), <<"sverklo-reindex">>)
ToolOn(c, name) == LET tool == <<"project_tools", name>> IN At(c, tool) = EmptyMap /\ On(c, tool)
ProjectTool(c, name, item) ==
    Act("provision_project_tool", item, <<".">>, [knobs |-> RuleSet(Overrides(c, <<"project_tools", name>>))])
ToolFiles(c, name) ==
    When(ToolOn(c, name), ForEach(ToolEntries(c, name), LAMBDA item : <<ProjectTool(c, name, item)>>))
ProjectToolActions(c) ==
    When(HasMap(c, <<"project_tools">>) /\ On(c, <<"project_tools">>),
         ForEach(<<"haft", "serena", "sverklo">>, LAMBDA name : ToolFiles(c, name)))
TgCtlActions(c) ==
    LET knob(key) == Knob(c, <<"tg_ctl">>, key) IN
    When(On(c, <<"tg_ctl">>),
      <<Act("provision_tg_ctl", "boot", <<"LaunchAgents">>,
          [label |-> Or(knob("label"), Null), boot |-> Get(c, <<"tg_ctl">>, "boot", Bool(TRUE)),
           bun_path |-> knob("bun_path"), tg_ctl_path |-> knob("tg_ctl_path"),
           config_dir |-> knob("config_dir")])>>)

-----------------------------------------------------------------------------
(* build: the actions in their order, or why there are none.               *)
Wiring(c, w) ==
    FlattenSeq(<<SkillActions(c, w), HookActions(c, w), DispatcherActions(c, w), CiActions(c, w), McpActions(c, w)>>)
Build(c, w) ==
    FlattenSeq(<<Wiring(c, w), HarnessActions(c, w), ModeActions(c), PermissionActions(c), ExecPolicyActions(c, w),
                 GuardActions(c), BridgeActions(c, w), ModelsActions(c, w), SymlinkActions(c),
                 ShipActions(c, w, Wiring(c, w)), LinterActions(c, w), ProjectToolActions(c), GitHubActions(c, w),
                 TmuxActions(c, w), EnvActions(c), ExcludesActions(c), SpotlightActions(c), ToolsActions(c),
                 TgCtlActions(c)>>)
\* _load_plan: the plan, or the error that stops it.
PlanOf(g, r, w) ==
    LET layer == IF w.rigYaml THEN r ELSE [p \in {} |-> Null]
        c == Loaded(g, layer)
        stops(verdict) == [verdict |-> verdict, actions |-> <<>>]
    IN  CASE ~Loads(g, layer) -> stops("invalid")
          [] \E n \in NameSets : NoSet(Knob(c, n[1], n[2])) -> stops("crash")
          [] HasUnknownItem(c, w) -> stops("unknown item")
          [] DescriptorsCollide(c, w) \/ LintersRefused(c, w) -> stops("PlanError")
          [] SpotlightCrashes(c) -> stops("crash")
          [] OTHER -> [verdict |-> "plan", actions |-> Build(c, w)]

-----------------------------------------------------------------------------
Init ==
    \E s \in Start :
        /\ global = s.global /\ repo = s.repo /\ world = s.world
        /\ plan = PlanOf(s.global, s.repo, s.world)
        /\ edits = 0

\* The user writes a key of a layer, by hand, with `rig config set` or in the
\* console, or deletes one.
SetKey(p, v) ==
    /\ CanSet(repo, p)
    /\ repo' = SetAt(repo, p, v)
    /\ UNCHANGED <<global, world>>
SetMachineKey(p, v) ==
    /\ CanSet(global, p)
    /\ global' = SetAt(global, p, v)
    /\ UNCHANGED <<repo, world>>
Without(c, p) == [q \in {r \in DOMAIN c : r # p /\ ~Under(r, p)} |-> c[q]]
DeleteKey(p) ==
    /\ \/ At(repo, p) # Absent /\ repo' = Without(repo, p) /\ UNCHANGED global
       \/ At(global, p) # Absent /\ global' = Without(global, p) /\ UNCHANGED repo
    /\ UNCHANGED world
\* agent-tools is updated, a package is installed, the environment differs.
WorldChanges(field, v) ==
    /\ world' = [world EXCEPT ![field] = v]
    /\ UNCHANGED <<global, repo>>
Changed ==
    \/ \E p \in DOMAIN Edits : \E v \in Edits[p] : SetKey(p, v)
    \/ \E p \in DOMAIN MachineEdits : \E v \in MachineEdits[p] : SetMachineKey(p, v)
    \/ \E p \in DOMAIN Edits \union DOMAIN MachineEdits : DeleteKey(p)
    \/ \E field \in DOMAIN Worlds : \E v \in Worlds[field] : WorldChanges(field, v)
\* rig plans anew after every change.
Planned == plan' = PlanOf(global', repo', world')

Next == edits < MaxEdits /\ edits' = edits + 1 /\ Changed /\ Planned
Spec == Init /\ [][Next]_vars

-----------------------------------------------------------------------------
Layer == IF world.rigYaml THEN repo ELSE [p \in {} |-> Null]
Config == Loaded(global, Layer)
Planning == plan.verdict = "plan"
Of(kinds) == {a \in ToSet(plan.actions) : a.kind \in kinds}

\* A configuration that the published schema and the validator both accept
\* never makes the builder raise anything but its own errors.
AcceptedBuilds ==
    plan.verdict = "crash" => ~(Loads(global, Layer) /\ SchemaAccepts(Merged(global, Layer)))

\* The dispatchers of agent-tools read these unless a bridge names another.
DispatcherReads ==
    [k \in {"claude-code", "codex", "opencode", "omp"} |->
       CASE k = "claude-code" -> LegacyHooks [] k = "codex" -> Home(<<".codex", "hooks">>)
         [] k = "opencode" -> Home(<<".config", "opencode", "hooks">>) [] OTHER -> OmpPath(<<"hooks">>)]
\* Every bridge the plan registers reads the directory into which the plan
\* installs the hooks, all of them: a bridge that reads elsewhere lets through
\* what a hook would have stopped.
BridgeReadsWhereHooksLand ==
    \A b \in Of({"register_hook_bridge"}) :
        LET own == b.options["hooks_dir"]
            reads == IF own = Null THEN DispatcherReads[b.options["kind"][2]] ELSE own[2]
        IN  \A h \in Of({"install_agent_hook"}) : [h EXCEPT !.target = Append(reads, Last(h.target))] \in Of({"install_agent_hook"})

\* What an action refers to is there because of an earlier action: the skill
\* a link points at, the guard an approval posture relies on, the delegator
\* `gh ship` calls; rules of the anti-slop plugin come with the plugin; and a
\* check the ruleset requires, unless the user lists them, is one a workflow
\* of this plan reports: a check nobody reports blocks every merge.
Before(i, kind, Test(_)) == \E j \in 1 .. i - 1 : plan.actions[j].kind = kind /\ Test(plan.actions[j])
ReferencesResolve ==
    \A i \in DOMAIN plan.actions :
        LET a == plan.actions[i] IN
        /\ a.kind = "link_skill_harness" => Before(i, "copy_skill", LAMBDA b : Dir(b.target) = a.options["source"])
        /\ a.kind = "provision_harness_approval" =>
             Before(i, "install_harness_guard", LAMBDA b : Dir(b.target) = a.options["guard_target"])
        /\ a.kind = "provision_gh_ship_alias" /\ a.options["canonical_ship"] = Null =>
             Before(i, "provision_ship_delegator", LAMBDA b : TRUE)
        /\ /\ a.kind = "provision_linter_config" /\ a.item = "rig-oxlint-policy"
           /\ a.options["rig_owned"] = Bool(TRUE) /\ AntiSlopRequired(Config)
           => \E b \in Of({"provision_linter_bundle"}) : b.target = AntiSlopTarget
        /\ /\ a.kind = "provision_github" /\ a.item = "ruleset"
           /\ ~Set_(Config, <<"github", "ruleset">>, "required_status_checks")
           => a.options["required_status_checks"][2] \subseteq
               {Contexts[w.item] : w \in {x \in Of({"install_ci"}) :
                  x.item \in DOMAIN Contexts /\ x.target = <<".", ".github", "workflows">>}}

\* The files and directories an action makes as a whole, so that a second
\* action on them undoes the first one on every apply.
Owned(a) ==
    CASE a.kind \in {"copy_skill", "link_skill_harness", "install_agent_hook", "install_harness_guard",
                     "provision_linter_config", "provision_linter_bundle"} -> {a.target}
      [] a.kind = "install_ci" /\ a.item # "ship" -> {Append(a.target, a.item)}
      [] a.kind = "register_hook_bridge" /\ a.options["kind"][2] \in {"opencode", "omp"} -> {a.target}
      [] OTHER -> {}
\* Two skills of one leaf name share a directory, and a linter item may lie
\* in the bundle of a plugin: nothing in the code looks at either.
SharedLeaf(a, b) ==
    /\ a.kind = b.kind /\ a.kind \in {"copy_skill", "link_skill_harness"} /\ a.item # b.item
InsideBundle(a, b) == a.kind = "provision_linter_bundle" /\ b.kind = "provision_linter_config"
SingleWriter ==
    \A i, j \in DOMAIN plan.actions :
        LET a == plan.actions[i]
            b == plan.actions[j]
        IN  i # j /\ ~SharedLeaf(a, b) /\ ~InsideBundle(a, b) =>
              \A p \in Owned(a), q \in Owned(b) : ~IsPrefix(p, q)

\* What a block switches off, and the kinds of action it pays for.
Switches ==
    {<<<<"skills">>, {"copy_skill", "link_skill_harness"}>>,
     <<<<"agent_hooks">>, {"install_agent_hook", "register_hook_bridge"}>>,
     <<<<"ci">>, {"install_ci"}>>,
     <<<<"mcp">>, {"register_mcp"}>>,
     <<<<"harness">>, {"apply_harness", "register_hook_bridge"}>>,
     <<<<"harness", "hook_bridge">>, {"register_hook_bridge"}>>,
     <<<<"permissions">>, {"provision_permissions", "provision_execpolicy",
         "install_harness_guard", "provision_harness_approval", "provision_instruction_policy"}>>,
     <<<<"models">>, {"provision_schedule"}>>,
     <<<<"agents_md">>, {"provision_agents_symlink"}>>,
     <<<<"ship_delegator">>, {"provision_ship_delegator"}>>,
     <<<<"linters">>, {"provision_linter_config", "provision_linter_bundle",
         "format_policy_blocked", "lint_policy_blocked"}>>,
     <<<<"project_tools">>, {"provision_project_tool"}>>,
     <<<<"tmux">>, {"provision_tmux"}>>,
     <<<<"env">>, {"provision_env"}>>,
     <<<<"gitignore">>, {"provision_global_excludes"}>>,
     <<<<"spotlight">>, {"provision_spotlight"}>>,
     <<<<"tools">>, {"provision_tools"}>>,
     <<<<"tg_ctl">>, {"provision_tg_ctl"}>>}
\* What a repository switches off stays out of its plan, whatever the machine's
\* configuration and the other blocks say; and the daemon's hook goes with it.
OptedOutStaysOut ==
    /\ \A s \in Switches : Knob(Layer, s[1], "enabled") = Bool(FALSE) => Of(s[2]) = {}
    /\ \A name \in {"ruleset", "merge", "actions", "ghas", "browser"} :
         Knob(Layer, <<"github", name>>, "enabled") = Bool(FALSE) =>
           \A a \in Of({"provision_github"}) : a.item # name
    /\ Knob(Layer, <<"tg_ctl">>, "enabled") = Bool(FALSE) =>
         \A b \in Of({"register_hook_bridge"}) : b.options["stop_hooks"] = Bool(FALSE)

\* The kinds of action an edit of a block may change.
Reach ==
    LET Of_(block) == UNION {s[2] : s \in {t \in Switches : t[1] = <<block>>}} IN
    [block \in TopBlocks |->
       CASE block = "defaults" -> Of_("skills") \union Of_("agent_hooks") \union Of_("ci") \union Of_("mcp")
                                    \union {"provision_github", "provision_gh_ship_alias"}
         [] block = "ci" -> {"install_ci", "provision_gh_ship_alias", "provision_github"}
         [] block = "harness" -> Of_("harness") \union Of_("permissions")
                                   \union {"link_skill_harness", "install_agent_hook"}
         [] block = "mode" -> {"record_mode", "provision_permissions"}
         [] block = "git_hooks" -> {"install_dispatcher"}
         [] block = "github" -> {"provision_github"}
         [] block = "ship_delegator" -> {"provision_ship_delegator", "provision_gh_ship_alias"}
         [] block = "tg_ctl" -> {"provision_tg_ctl", "register_hook_bridge"}
         [] OTHER -> Of_(block)]
Edited == {p[1] : p \in {q \in DOMAIN global \union DOMAIN global' : At(global, q) # At(global', q)}
                          \union {q \in DOMAIN repo \union DOMAIN repo' : At(repo, q) # At(repo', q)}}
Untouched(actions) ==
    LET reach == UNION {Reach[b] : b \in Edited} IN SelectSeq(actions, LAMBDA a : a.kind \notin reach)
\* An edit of one block changes the actions of that block and of those the
\* code derives from it, and leaves every other action and its place alone.
OnlyDependentsChange ==
    [][ /\ world' = world /\ Planning /\ plan'.verdict = "plan" /\ Edited \subseteq TopBlocks
        => Untouched(plan'.actions) = Untouched(plan.actions) ]_vars
=============================================================================
