---------------------------- MODULE ConfigSchema ----------------------------
(***************************************************************************)
(* The declarative registry of rig's configuration (riglib/config_schema): *)
(* every block with its keys and their JSON types.  The published          *)
(* rig.schema.json is generated from it, and the validator asks it which   *)
(* keys a block may have.                                                  *)
(*                                                                         *)
(* A configuration is a tree of mappings.  It is written down as the       *)
(* function from the paths of its leaves to their values; a path is a      *)
(* sequence of keys and no leaf lies below another.  A value carries its   *)
(* YAML type first, so values of different types can be compared.          *)
(***************************************************************************)
EXTENDS Integers, Sequences, FiniteSets, SequencesExt, Functions

Absent == <<"absent">>
Null == <<"null">>
EmptyMap == <<"object">>
Bool(b) == <<"boolean", b>>
Int_(n) == <<"integer", n>>
Str(s) == <<"string", s>>
EmptyStr == Str("")
StrList(s) == <<"array", "string", s>>
IntList(s) == <<"array", "integer", s>>

\* A string that breaks the format of any key that has one: a rule that is no
\* permission rule, a time that is not HH:MM, a path that leaves the repository.
Malformed == "?"

TypeOf(v) == v[1]
IsList(v, of) == v[1] = "array" /\ (v[3] = <<>> \/ v[2] = of)

-----------------------------------------------------------------------------
(* The tree.                                                               *)
Under(p, q) == Len(p) > Len(q) /\ SubSeq(p, 1, Len(q)) = q
HasMap(c, p) == \E q \in DOMAIN c : Under(q, p)
At(c, p) == IF p \in DOMAIN c THEN c[p] ELSE IF HasMap(c, p) THEN EmptyMap ELSE Absent
Knob(c, block, key) == At(c, Append(block, key))
Children(c, p) == {q[Len(p) + 1] : q \in {r \in DOMAIN c : Under(r, p)}}

\* set_path: missing mappings on the way are made, a leaf on the way is refused,
\* what lay below the path is replaced.
CanSet(c, p) == \A q \in DOMAIN c : Under(p, q) => c[q] = EmptyMap
SetAt(c, p, v) ==
    LET kept == {q \in DOMAIN c : q # p /\ ~Under(q, p) /\ ~Under(p, q)}
    IN  [q \in kept \union {p} |-> IF q = p THEN v ELSE c[q]]

\* _deep_merge: the layer over another one, mapping by mapping.
MergedUnder(base, over) ==
    [q \in DOMAIN base \union {r \in DOMAIN over : At(base, r) = Absent} |->
       IF q \in DOMAIN base THEN base[q] ELSE over[q]]
Merged(base, over) ==
    LET kept == {q \in DOMAIN base :
                   /\ q \notin DOMAIN over
                   /\ \A r \in DOMAIN over : ~Under(r, q) /\ (Under(q, r) => over[r] = EmptyMap)}
    IN  [q \in kept \union {r \in DOMAIN over : ~(over[r] = EmptyMap /\ HasMap(base, r))}
           |-> IF q \in DOMAIN over THEN over[q] ELSE base[q]]

-----------------------------------------------------------------------------
(* One key: the JSON types it admits, its enum (empty: any), the least     *)
(* integer, the type of a list's elements, and whether its strings have a  *)
(* format the schema states.                                               *)
Leaf(types, enum, least, of, format) ==
    [types |-> types, enum |-> enum, least |-> least, of |-> of, format |-> format]
Boolean == Leaf({"boolean"}, {}, 0, "any", FALSE)
String == Leaf({"string"}, {}, 0, "any", FALSE)
Patterned == [String EXCEPT !.format = TRUE]
Enum(S) == Leaf({"string"}, S, 0, "any", FALSE)
AtLeast(n) == Leaf({"integer"}, {}, n, "any", FALSE)
Strings == Leaf({"array"}, {}, 0, "string", FALSE)
Rules == [Strings EXCEPT !.format = TRUE]
Ports == Leaf({"array"}, {}, 1, "integer", FALSE)
StringMap == Leaf({"object"}, {}, 0, "string", FALSE)
Mapping == Leaf({"object"}, {}, 0, "any", FALSE)
Nullable(l) == [l EXCEPT !.types = @ \union {"null"}]

\* Leaf.to_node: what an editor checks a value against.
Fits(v, l) ==
    /\ TypeOf(v) \in l.types
    /\ TypeOf(v) = "string" => /\ l.enum = {} \/ v[2] \in l.enum
                               /\ l.format => v[2] # Malformed
    /\ TypeOf(v) = "integer" => v[2] >= l.least
    /\ TypeOf(v) = "array" =>
         /\ l.of # "any" => IsList(v, l.of)
         /\ l.enum # {} => \A i \in DOMAIN v[3] : v[3][i] \in l.enum
         /\ l.format => \A i \in DOMAIN v[3] : v[3][i] # Malformed
         /\ l.of = "integer" => \A i \in DOMAIN v[3] : v[3][i] >= l.least

HarnessKinds == {"claude-code", "codex", "opencode", "omp", "pi", "commandcode"}

-----------------------------------------------------------------------------
(* The blocks.  A key of a record is a key of the block.                   *)
DefaultsBlock ==
    [skills_target |-> String, hooks_target |-> String, ci_target |-> String,
     mcp_target |-> String, on_conflict |-> Enum({"skip", "overwrite", "backup"})]
DevServerBlock ==
    [script |-> String, url |-> String, ready_url |-> String, port |-> AtLeast(1), ports |-> Ports,
     process_matchers |-> Strings, logs_root |-> String]
DevE2eBlock ==
    [script |-> String, requires_server |-> Boolean, artifacts_root |-> String, logs_root |-> String]
SkillsBlock ==
    [enabled |-> Boolean, target |-> String, all |-> Boolean, known |-> Strings,
     harness_link |-> Boolean, harness_skill_dir |-> String]
UniversalBlock == [all |-> Boolean, disable |-> Strings, enable |-> Strings]
ByTypeBlock == [enable |-> Strings, disable |-> Strings]
ByStackBlock == [disable |-> Strings]
AgentHooksBlock ==
    [enabled |-> Boolean, target |-> String, target_kind |-> Enum({"claude-code", "generic"}),
     all |-> Boolean, known |-> Strings, worktree_only |-> Boolean, orchestrator_only |-> Boolean]
DispatcherBlock ==
    [enabled |-> Boolean, dir |-> String, runner |-> String, set_global_hooks_path |-> Boolean,
     install_local_retrofit_script |-> Boolean]
CiBlock == [enabled |-> Boolean, target |-> String, all |-> Boolean, known |-> Strings]
McpBlock == [enabled |-> Boolean, target |-> String, known |-> Strings]
McpItemBlock ==
    [enabled |-> Boolean, server |-> String, command |-> String, args |-> Strings, env |-> StringMap]
ModeBlock == [name |-> Enum({"standard", "autonomous"})]
ReviewFixBlock ==
    [enabled |-> Boolean, max_iterations |-> AtLeast(1), until |-> Enum({"clean", "budget", "manual"})]
QuorumBlock == [enabled |-> Boolean, min_iterations |-> AtLeast(1), min_models |-> AtLeast(2)]
EscalationBlock == [framework_skill |-> String, require_parallel_worktree_comparison |-> Boolean]
ComparisonBlock == [enabled |-> Boolean, candidates |-> AtLeast(2)]
DevToolsBlock == [allow |-> Rules]
ParallelismBlock ==
    [max_agents |-> AtLeast(1), max_worktrees |-> AtLeast(1), reserve_slots |-> AtLeast(0),
     limit_aware |-> Boolean]
HarnessBlock ==
    [enabled |-> Boolean, kind |-> Enum(HarnessKinds),
     kinds |-> [Strings EXCEPT !.enum = HarnessKinds],
     auto_mode |-> Boolean, self_merge |-> Boolean, mode |-> String, settings_path |-> String]
HookBridgeBlock == [enabled |-> Boolean, python |-> String]
PermissionsBlock ==
    [enabled |-> Boolean, kind |-> Nullable(Enum(HarnessKinds)), tools |-> Strings, extra |-> Strings,
     disable |-> Strings, allow |-> Rules, deny |-> Rules, ask |-> Rules, settings_path |-> String]
ModelsBlock == [enabled |-> Boolean, checker_path |-> String]
ModelsScheduleBlock == [time |-> String, label |-> String]
AgentsMdBlock == [enabled |-> Boolean, symlink |-> Boolean]
RulesetBlock ==
    [enabled |-> Boolean, name |-> String, require_pull_request |-> Boolean,
     required_reviews |-> AtLeast(0), required_conversation_resolution |-> Boolean,
     dismiss_stale_reviews |-> Boolean, block_force_push |-> Boolean,
     restrict_deletion |-> Boolean, require_linear_history |-> Boolean,
     require_signatures |-> Boolean, required_status_checks |-> Strings, admin_bypass |-> Boolean]
MergeBlock ==
    [enabled |-> Boolean, squash_merge |-> Boolean, merge_commit |-> Boolean,
     rebase_merge |-> Boolean, delete_branch_on_merge |-> Boolean, allow_auto_merge |-> Boolean,
     allow_update_branch |-> Boolean]
GhasBlock ==
    [enabled |-> Boolean, vulnerability_alerts |-> Boolean, automated_security_fixes |-> Boolean,
     secret_scanning |-> Boolean, secret_scanning_push_protection |-> Boolean,
     code_scanning_default_setup |-> Boolean]
ActionsBlock ==
    [enabled |-> Boolean, actions_enabled |-> Boolean,
     allowed_actions |-> Enum({"all", "local_only", "selected"}),
     default_workflow_permissions |-> Enum({"read", "write"}),
     can_approve_pull_request_reviews |-> Boolean]
BrowserBlock == [enabled |-> Boolean, discussions |-> Boolean, projects |-> Boolean]
TmuxBlock ==
    [enabled |-> Boolean, apply |-> Enum({"import", "block"}), conf_path |-> String,
     generated_dir |-> String]
TmuxParts ==
    [resurrect |-> [processes |-> Strings, capture_pane_contents |-> Boolean],
     continuum |-> [restore |-> Boolean, boot |-> Boolean, save_interval |-> AtLeast(1)],
     moshi |-> [enabled |-> Boolean], cc_restore |-> [enabled |-> Boolean],
     anti_sprawl |-> [enabled |-> Boolean, session |-> String],
     boot |-> [enabled |-> Boolean, label |-> String],
     autosave |-> [enabled |-> Boolean, label |-> String, stale_after |-> AtLeast(1)],
     login_shell |-> [enabled |-> Boolean, shell |-> String],
     pane_titles |-> [enabled |-> Boolean, position |-> Enum({"top", "bottom"}),
                      format |-> Patterned, clear_status_right |-> Boolean],
     focus_events |-> [enabled |-> Boolean]]
EnvBlock == [enabled |-> Boolean, rc_path |-> String, generated_dir |-> String, vars |-> StringMap]
GitignoreBlock == [enabled |-> Boolean, entries |-> Rules, excludesfile |-> String]
SpotlightBlockNullable ==
    [enabled |-> Boolean, roots |-> Strings, deny |-> Strings, extra |-> Strings, label |-> String,
     max_depth |-> Nullable(AtLeast(1))]
SpotlightBlock ==
    [enabled |-> Boolean, roots |-> Strings, deny |-> Strings, extra |-> Strings, label |-> String,
     max_depth |-> AtLeast(1)]
ToolsBlock == [enabled |-> Boolean, target |-> String]
ToolsItemBlock == [enabled |-> Boolean, repo |-> String, bin_dir |-> String]
TgCtlBlock ==
    [enabled |-> Boolean, boot |-> Boolean, codex_usage_hook |-> Nullable(Boolean),
     label |-> String, bun_path |-> String, tg_ctl_path |-> String, config_dir |-> String]
ShipDelegatorBlock == [enabled |-> Boolean]
LintersBlock == [enabled |-> Boolean, preview |-> Boolean]
LinterRulesBlock == [all |-> Boolean, enable |-> Strings, disable |-> Strings, severity |-> StringMap]
LinterItemBlock ==
    [tool |-> String, role |-> Enum({"linter", "formatter"}), path |-> String, content |-> String,
     source |-> String, enabled |-> Boolean]
LinterBundleBlock == [source |-> String, target |-> String, enabled |-> Boolean]
ProjectToolsBlock == [enabled |-> Boolean]
HaftBlock ==
    [enabled |-> Boolean, project_name |-> String, project_id |-> String, codex_mcp |-> Boolean]
HaftWorkflowBlock ==
    [mode |-> Enum({"standard", "tactical"}), require_decision |-> Boolean,
     require_verify |-> Boolean, allow_autonomy |-> Boolean]
SerenaBlock ==
    [enabled |-> Boolean, project_name |-> String, languages |-> Strings, read_only |-> Boolean,
     ignored_paths |-> Strings]
SverkloBlock == [enabled |-> Boolean, register |-> Boolean, reindex |-> Boolean]
AttachmentMode == Nullable(Enum({"link", "native"}))
TaskBlock ==
    [backend |-> Nullable(Enum({"github-issues", "linear"})), team |-> Nullable(String),
     project |-> Nullable(String), repo |-> Nullable(String), attachment_mode |-> AttachmentMode,
     projects |-> Nullable(Leaf({"array"}, {}, 0, "any", FALSE)), enforce |-> Nullable(Mapping),
     classify |-> Nullable(Mapping), session |-> Nullable(Mapping)]
TaskGithubBlock == [repo |-> Nullable(String)]
TaskLinearBlock ==
    [team |-> Nullable(String), project |-> Nullable(String), attachment_mode |-> AttachmentMode]

-----------------------------------------------------------------------------
(* The registry.  "*" stands for the name of an entry of an open map.      *)
TopLeaves == [version |-> AtLeast(1), agent_tools_source |-> String, stack |-> String]
TopBlocks ==
    {"defaults", "scripts", "dev", "skills", "agent_hooks", "git_hooks", "ci", "mcp", "mode",
     "harness", "permissions", "models", "agents_md", "github", "tmux", "env", "gitignore",
     "spotlight", "tools", "tg_ctl", "ship_delegator", "linters", "project_tools", "task"}
Autonomous == <<"mode", "autonomous">>
Blocks ==
    {<<<<"defaults">>, DefaultsBlock>>, <<<<"dev", "server">>, DevServerBlock>>,
     <<<<"dev", "e2e">>, DevE2eBlock>>, <<<<"dev", "e2e", "jobs", "*">>, DevE2eBlock>>,
     <<<<"skills">>, SkillsBlock>>, <<<<"skills", "universal">>, UniversalBlock>>,
     <<<<"skills", "by_type">>, ByTypeBlock>>, <<<<"skills", "by_stack">>, ByStackBlock>>,
     <<<<"agent_hooks">>, AgentHooksBlock>>, <<<<"git_hooks", "dispatcher">>, DispatcherBlock>>,
     <<<<"ci">>, CiBlock>>, <<<<"mcp">>, McpBlock>>, <<<<"mcp", "items", "*">>, McpItemBlock>>,
     <<<<"mode">>, ModeBlock>>, <<Autonomous \o <<"review_fix">>, ReviewFixBlock>>,
     <<Autonomous \o <<"decisions", "review_quorum">>, QuorumBlock>>,
     <<Autonomous \o <<"escalation">>, EscalationBlock>>,
     <<Autonomous \o <<"parallel_worktree_comparison">>, ComparisonBlock>>,
     <<Autonomous \o <<"development_tools">>, DevToolsBlock>>,
     <<Autonomous \o <<"parallelism">>, ParallelismBlock>>, <<<<"harness">>, HarnessBlock>>,
     <<<<"harness", "hook_bridge">>, HookBridgeBlock>>, <<<<"permissions">>, PermissionsBlock>>,
     <<<<"models">>, ModelsBlock>>, <<<<"models", "schedule">>, ModelsScheduleBlock>>,
     <<<<"agents_md">>, AgentsMdBlock>>, <<<<"github", "ruleset">>, RulesetBlock>>,
     <<<<"github", "merge">>, MergeBlock>>, <<<<"github", "ghas">>, GhasBlock>>,
     <<<<"github", "actions">>, ActionsBlock>>, <<<<"github", "browser">>, BrowserBlock>>,
     <<<<"tmux">>, TmuxBlock>>, <<<<"env">>, EnvBlock>>, <<<<"gitignore">>, GitignoreBlock>>,
     <<<<"spotlight">>, SpotlightBlock>>, <<<<"tools">>, ToolsBlock>>,
     <<<<"tools", "items", "*">>, ToolsItemBlock>>, <<<<"tg_ctl">>, TgCtlBlock>>,
     <<<<"ship_delegator">>, ShipDelegatorBlock>>, <<<<"linters">>, LintersBlock>>,
     <<<<"linters", "rules">>, LinterRulesBlock>>, <<<<"linters", "items", "*">>, LinterItemBlock>>,
     <<<<"linters", "bundles", "*">>, LinterBundleBlock>>,
     <<<<"project_tools">>, ProjectToolsBlock>>, <<<<"project_tools", "haft">>, HaftBlock>>,
     <<<<"project_tools", "haft", "workflow">>, HaftWorkflowBlock>>,
     <<<<"project_tools", "serena">>, SerenaBlock>>,
     <<<<"project_tools", "sverklo">>, SverkloBlock>>, <<<<"task">>, TaskBlock>>,
     <<<<"task", "github">>, TaskGithubBlock>>, <<<<"task", "linear">>, TaskLinearBlock>>}
      \union {<<<<"tmux", part>>, TmuxParts[part]>> : part \in DOMAIN TmuxParts}
Registry == [p \in {b[1] : b \in Blocks} |-> (CHOOSE b \in Blocks : b[1] = p)[2]]

\* Open maps whose entries are mappings the catalog gives their meaning.
OpenMaps ==
    {<<"skills", "by_type", "items">>, <<"skills", "by_stack", "items">>, <<"agent_hooks", "items">>,
     <<"git_hooks", "dispatcher", "fragments">>, <<"ci", "items">>}
ShapedMaps ==
    {<<"mcp", "items">>, <<"tools", "items">>, <<"linters", "items">>, <<"linters", "bundles">>,
     <<"dev", "e2e", "jobs">>}
BlockPaths == DOMAIN Registry \union OpenMaps

\* The path with the name of an open map's entry replaced by "*".
Node(p) ==
    [i \in DOMAIN p |->
       IF i > 1 /\ SubSeq(p, 1, i - 1) \in ShapedMaps THEN "*" ELSE p[i]]

\* block_child_keys: the keys a block may have, the names of its blocks and
\* its open map among them.
ChildKeys(block) ==
    LET b == Node(block) IN
    (IF b \in DOMAIN Registry THEN DOMAIN Registry[b] ELSE {})
      \union {p[Len(b) + 1] : p \in {q \in BlockPaths : Under(q, b)}}
      \union (IF b = <<"linters", "rules">> THEN {"groups"} ELSE {})

\* json_schema: what the published schema says of one leaf of a configuration.
NodeAccepts(p, v) ==
    LET n == Node(p)
        block == Front(n)
        up == Front(block)
        LeafAt(b, k) == b \in DOMAIN Registry /\ k \in DOMAIN Registry[b]
    IN  \/ Len(p) = 1 /\ p[1] \in DOMAIN TopLeaves /\ Fits(v, TopLeaves[p[1]])
        \/ p = <<"scope">> /\ TypeOf(v) = "string"
        \/ Len(p) = 1 /\ p[1] \in TopBlocks /\ v = EmptyMap
        \/ Len(n) > 1 /\ LeafAt(block, Last(n)) /\ Fits(v, Registry[block][Last(n)])
        \/ /\ Len(n) > 2 /\ LeafAt(up, Last(block))
           /\ "object" \in Registry[up][Last(block)].types
           /\ Registry[up][Last(block)].of = "string" => TypeOf(v) = "string"
        \/ v = EmptyMap /\ \E q \in BlockPaths : q = n \/ Under(q, n)
        \/ v = Null /\ p \in {<<"task", "github">>, <<"task", "linear">>}
        \/ \E m \in OpenMaps : Under(p, m) /\ (Len(p) = Len(m) + 1 => v = EmptyMap)
        \/ Len(p) = 4 /\ SubSeq(p, 1, 3) = <<"linters", "rules", "groups">> /\ TypeOf(v) = "boolean"
        \/ p = <<"linters", "rules", "groups">> /\ v = EmptyMap
        \/ Len(p) = 2 /\ p[1] = "scripts" /\ TypeOf(v) = "string" /\ v \notin {EmptyStr, Str(Malformed)}
        \/ /\ Len(p) = 3 /\ p[1] = "scripts" /\ p[3] = "cmd"
           /\ TypeOf(v) = "string" /\ v \notin {EmptyStr, Str(Malformed)}

\* The required keys: a linter item has a tool, a path and one of content and
\* source.
Entries(c, map) == {Append(map, name) : name \in Children(c, map)}
SchemaAccepts(c) ==
    /\ \A p \in DOMAIN c : NodeAccepts(p, c[p])
    /\ \A e \in Entries(c, <<"linters", "items">>) :
         /\ {"tool", "path"} \subseteq Children(c, e)
         /\ Cardinality(Children(c, e) \intersect {"content", "source"}) = 1
=============================================================================
