------------------------------ MODULE Reconcile ------------------------------
(***************************************************************************)
(* rig apply over a machine that others change too.  A plan's actions are   *)
(* handed one by one to the handlers of riglib/actions/runner.py; between   *)
(* any two of them, and between two runs, the user, the catalog and the     *)
(* tools rig drives change what a path holds; a handler may raise after     *)
(* some of its writes, and the process may die there.  riglib/drift.py      *)
(* judges the same plan against the disk.                                   *)
(*                                                                          *)
(* Modules CatalogHandlers, HookBridges, RepositoryHandlers, TmuxHandler    *)
(* and GitHubHandlers hold the handlers and the checks themselves.          *)
(***************************************************************************)
EXTENDS CatalogHandlers, HookBridges, RepositoryHandlers, TmuxHandler, GitHubHandlers

CONSTANTS
  Scenarios,  \* each [plan, start, world]: the plan's actions, the disk at first, and what
              \* others may put where
  MaxEdits,   \* bound on the changes others make
  MaxRuns     \* bound on the applies

VARIABLES
  case,     \* the scenario of this behaviour
  off,      \* the actions of the plan the config has switched off
  disk,     \* what each cell holds
  policy,   \* on_conflict of the run
  at,       \* the action the run has reached, 0 when no apply runs
  results,  \* one status per action handled in this run; "off" where it was switched off
  quiet,    \* nothing but this run's own writes since it began, and no handler raised
  saved,    \* the user's content in backups
  edits, runs

vars == <<case, off, disk, policy, at, results, quiet, saved, edits, runs>>

-----------------------------------------------------------------------------
(* _HANDLERS and _dispatch: the handler of each kind of action.             *)
Do(a, d, p) ==
  CASE a.kind = "copy_skill"                   -> CopySkill(a, d, p)
    [] a.kind = "link_skill_harness"           -> LinkSkill(a, d, p)
    [] a.kind = "install_agent_hook"           -> AgentHook(a, d, p)
    [] a.kind = "install_dispatcher"           -> InstallDispatcher(a, d, p)
    [] a.kind = "install_ci"                   -> InstallCi(a, d, p)
    [] a.kind = "register_mcp"                 -> RegisterMcp(a, d, p)
    [] a.kind = "apply_harness_claude"         -> ClaudeMode(a, d, p)
    [] a.kind = "apply_harness"                -> HarnessMode(a, d, p)
    [] a.kind = "provision_permissions"        -> Permissions(a, d, p)
    [] a.kind = "provision_execpolicy"         -> Execpolicy(a, d, p)
    [] a.kind = "install_harness_guard"        -> HarnessGuard(a, d, p)
    [] a.kind = "provision_instruction_policy" -> InstructionPolicy(a, d, p)
    [] a.kind = "register_hook_bridge"         -> HookBridge(a, d, p)
    [] a.kind = "provision_schedule"           -> Schedule(a, d, p)
    [] a.kind = "provision_agents_symlink"     -> AgentsSymlink(a, d, p)
    [] a.kind = "provision_ship_delegator"     -> ShipDelegator(a, d, p)
    [] a.kind = "provision_gh_ship_alias"      -> GhShipAlias(a, d, p)
    [] a.kind = "policy_blocked"               -> PolicyBlocked(a, d, p)
    [] a.kind = "provision_linter_config"      -> LinterConfig(a, d, p)
    [] a.kind = "provision_project_tool"       -> ProjectTool(a, d, p)
    [] a.kind = "provision_github_ruleset"     -> Ruleset(a, d, p)
    [] a.kind = "provision_github_merge"       -> Merge(a, d, p)
    [] a.kind = "provision_github_ghas"        -> Ghas(a, d, p)
    [] a.kind = "provision_github_actions"     -> GitHubActions(a, d, p)
    [] a.kind = "provision_github_browser"     -> Browser(a, d, p)
    [] a.kind = "provision_tmux"               -> Tmux(a, d, p)
    [] a.kind = "provision_env"                -> ProvisionEnv(a, d, p)
    [] a.kind = "provision_global_excludes"    -> GlobalExcludes(a, d, p)
    [] a.kind = "provision_spotlight"          -> Spotlight(a, d, p)
    [] a.kind = "provision_tools"              -> Tools(a, d, p)
    [] a.kind = "provision_tg_ctl"             -> TgCtl(a, d, p)

(* drift.detect: the check of each kind.                                    *)
Check(a, d) ==
  CASE a.kind = "copy_skill"                   -> CheckCopySkill(a, d)
    [] a.kind = "link_skill_harness"           -> CheckLinkSkill(a, d)
    [] a.kind = "install_agent_hook"           -> CheckAgentHook(a, d)
    [] a.kind = "install_dispatcher"           -> CheckDispatcher(a, d)
    [] a.kind = "install_ci"                   -> CheckCi(a, d)
    [] a.kind = "register_mcp"                 -> CheckMcp(a, d)
    [] a.kind = "apply_harness_claude"         -> CheckClaudeMode(a, d)
    [] a.kind = "apply_harness"                -> CheckHarnessMode(a, d)
    [] a.kind = "provision_permissions"        -> CheckPermissions(a, d)
    [] a.kind = "provision_execpolicy"         -> CheckExecpolicy(a, d)
    [] a.kind = "install_harness_guard"        -> CheckHarnessGuard(a, d)
    [] a.kind = "provision_instruction_policy" -> CheckInstructionPolicy(a, d)
    [] a.kind = "register_hook_bridge"         -> CheckHookBridge(a, d)
    [] a.kind = "provision_schedule"           -> CheckSchedule(a, d)
    [] a.kind = "provision_agents_symlink"     -> CheckAgentsSymlink(a, d)
    [] a.kind = "provision_ship_delegator"     -> CheckShipDelegator(a, d)
    [] a.kind = "provision_gh_ship_alias"      -> CheckGhShipAlias(a, d)
    [] a.kind = "policy_blocked"               -> CheckPolicyBlocked(a, d)
    [] a.kind = "provision_linter_config"      -> CheckLinterConfig(a, d)
    [] a.kind = "provision_project_tool"       -> CheckProjectTool(a, d)
    [] a.kind = "provision_github_ruleset"     -> CheckRuleset(a, d)
    [] a.kind = "provision_github_merge"       -> CheckMerge(a, d)
    [] a.kind = "provision_github_ghas"        -> CheckGhas(a, d)
    [] a.kind = "provision_github_actions"     -> CheckGitHubActions(a, d)
    [] a.kind = "provision_github_browser"     -> {}
    [] a.kind = "provision_tmux"               -> CheckTmux(a, d)
    [] a.kind = "provision_env"                -> CheckEnv(a, d)
    [] a.kind = "provision_global_excludes"    -> CheckGlobalExcludes(a, d)
    [] a.kind = "provision_spotlight"          -> CheckSpotlight(a, d)
    [] a.kind = "provision_tools"              -> CheckTools(a, d)
    [] a.kind = "provision_tg_ctl"             -> CheckTgCtl(a, d)

(* The extras of detect and the disabled checks of compute_drift_report:    *)
(* what is still seen of an action that is switched off.  A catalog item is *)
(* "known" by its content, anything else is "extra" to the declared ones.   *)
SwitchedOff(a, d) ==
  CASE a.kind = "copy_skill" ->
         IF ~Exists(d[a.target]) THEN {} ELSE IF d[a.target] = d[a.source] THEN {"known"} ELSE {"extra"}
    [] a.kind = "install_agent_hook" ->
         IF ~Exists(d[a.target]) THEN {}
         ELSE IF Keyed(d[a.target].has, "cmd") = Keyed(d[a.source].has, "cmd") THEN {"known"} ELSE {"extra"}
    [] a.kind = "install_ci" -> {m \in {"extra"} : a.slot # "ship" /\ d[a.target].form = "file"}
    [] a.kind = "register_mcp" -> {m \in {"extra"} : Entry(Held(d[a.file]), "mcpServers", a.server) # {}}
    [] a.kind = "install_dispatcher" -> CheckDisabledDispatcher(d, a.hooks_path, a.composers)
    [] a.kind = "provision_env" -> CheckDisabledEnv(a, d)
    [] a.kind = "provision_global_excludes" -> CheckDisabledExcludes(a, d)
    [] OTHER -> {}

(* The disk after a sequence of writes.                                     *)
Written(d, writes) ==
  [c \in DOMAIN d |-> IF \E i \in DOMAIN writes : writes[i][1] = c
                        THEN writes[Max({i \in DOMAIN writes : writes[i][1] = c})][2] ELSE d[c]]

UsersOn(d) == UNION {Users(d[c]) : c \in DOMAIN d}
Plan       == case.plan
Now        == Do(Plan[at], disk, policy)

-----------------------------------------------------------------------------
Init ==
  /\ case \in Scenarios
  /\ off = {}
  /\ disk = case.start
  /\ policy \in Policies
  /\ at = 0
  /\ results = <<>>
  /\ quiet = TRUE
  /\ saved = {}
  /\ edits = 0
  /\ runs = 0

(* A run begins: a plan under a policy.                                     *)
Begin(p) ==
  /\ at = 0
  /\ runs < MaxRuns
  /\ runs' = runs + 1
  /\ policy' = p
  /\ at' = 1
  /\ results' = <<>>
  /\ quiet' = TRUE
  /\ UNCHANGED <<case, off, disk, saved, edits>>

Handled(status, writes) ==
  /\ disk' = Written(disk, writes)
  /\ results' = Append(results, status)
  /\ at' = at + 1

(* run_plan: the next action's handler returns.                             *)
Handle ==
  /\ at \in (1..Len(Plan)) \ off
  /\ Handled(Now.status, Now.writes)
  /\ saved' = saved \cup UNION {Users(disk[c]) : c \in Now.saved}
  /\ UNCHANGED <<case, off, policy, quiet, edits, runs>>

(* An action the config has switched off is in no plan: the builder leaves *)
(* it out, and run_plan never reaches it.                                   *)
Skip ==
  /\ at \in (1..Len(Plan)) \cap off
  /\ Handled("off", <<>>)
  /\ UNCHANGED <<case, off, policy, quiet, saved, edits, runs>>

(* ... or raises out of its (n+1)st write, which run_plan turns into an     *)
(* "error" result, or takes the process with it.  What it backs up it has   *)
(* backed up by the time it overwrites it.                                  *)
Cut(n) ==
  /\ at \in (1..Len(Plan)) \ off
  /\ n < Len(Now.writes)
  /\ disk' = Written(disk, SubSeq(Now.writes, 1, n))
  /\ saved' = saved \cup UNION {Users(disk[c]) : c \in Now.saved}
  /\ quiet' = FALSE
  /\ UNCHANGED <<case, off, policy, edits, runs>>
Raise(n) == Cut(n) /\ results' = Append(results, "error") /\ at' = at + 1
Die(n)   == Cut(n) /\ results' = <<>> /\ at' = 0

Finish ==
  /\ at = Len(Plan) + 1
  /\ at' = 0
  /\ UNCHANGED <<case, off, disk, policy, results, quiet, saved, edits, runs>>

(* Someone else changes a cell: the user, a catalog update, a daemon.       *)
Change(c, p) ==
  /\ edits < MaxEdits
  /\ disk[c] # p
  /\ edits' = edits + 1
  /\ disk' = [disk EXCEPT ![c] = p]
  /\ quiet' = FALSE
  /\ UNCHANGED <<case, off, policy, at, results, saved, runs>>

(* The config switches an action off, or on again.                          *)
Switch(i) ==
  /\ at = 0
  /\ edits < MaxEdits
  /\ edits' = edits + 1
  /\ off' = IF i \in off THEN off \ {i} ELSE off \cup {i}
  /\ UNCHANGED <<case, disk, policy, at, results, quiet, saved, runs>>

Next ==
  \/ \E p \in Policies : Begin(p)
  \/ Handle
  \/ Skip
  \/ \E n \in 0..5 : Raise(n) \/ Die(n)
  \/ Finish
  \/ \E c \in DOMAIN case.world : \E p \in case.world[c] : Change(c, p)
  \/ \E i \in DOMAIN Plan : Switch(i)

Spec == Init /\ [][Next]_vars

-----------------------------------------------------------------------------
(* What rig sets to its own value under every policy (a link, a git or gh   *)
(* setting, a setting on GitHub, a list or an event of the wrong type), or  *)
(* backs up and removes under every policy (the predecessor's agent).       *)
SetOutright == {"to", "path", "ship", "rule", "event", "autoMode.allow"}
Retired     == {"stale"}

(* What the code takes for rig's own in a text, and may not be: in a tmux   *)
(* text all from a begin to the next end, though its own end be lost and    *)
(* that end another block's; in a crontab the line after the sentinel; and  *)
(* a crontab that cannot be listed, which counts as an empty one.           *)
Unlisted(c) ==
  \E i \in DOMAIN Plan : /\ Plan[i].kind = "provision_schedule" /\ Plan[i].platform = "cron"
                        /\ Plan[i].crontab = c /\ Broken(disk, Plan[i].crontab_list)
TakenForRigs(c) ==
  LET text == disk[c].text
  IN  {i \in DOMAIN text : \/ InRegion(text, "tmux", i)
                          \/ (i > 1 /\ text[i - 1] = <<"sentinel">>)
                          \/ Unlisted(c)}

(* No step of an apply, a raised or killed one included, loses what the     *)
(* user put in a file: skip leaves it there, backup leaves it there or in a *)
(* backup.  (on_conflict, whatever the handler.)  The lines TakenForRigs    *)
(* are the exception.                                                       *)
TakenLines == UNION {{disk[c].text[i] : i \in TakenForRigs(c)} : c \in DOMAIN disk}
Lost(policies) ==
  {f \in UsersOn(disk) \ (UsersOn(disk') \cup TakenLines) : policy \in policies /\ f[1] \notin SetOutright}
UserContentKept ==
  [][edits' = edits => /\ Lost({"skip"}) \subseteq {f \in saved' : f[1] \in Retired}
                       /\ Lost({"backup"}) \subseteq saved']_vars

(* In a text rig shares with the user, whatever the policy and wherever the *)
(* run stops, the user's lines stay as they are and in their order: all of  *)
(* them, or all but those TakenForRigs.  (docs/config-schema.md has no such *)
(* exception.)                                                              *)
HandWritten(text) == SelectSeq(text, LAMBDA l : l[1] = "user")
NotTaken(c) ==
  LinesAt(disk[c].text,
          SelectSeq([n \in DOMAIN disk[c].text |-> n], LAMBDA i : i \notin TakenForRigs(c)))
HandWrittenLinesKept ==
  [][edits' = edits =>
       \A c \in DOMAIN disk :
         HandWritten(disk'[c].text) \in {HandWritten(disk[c].text), HandWritten(NotTaken(c))}]_vars

(* A run that nobody disturbed and that reported no error.                  *)
Undisturbed == at = 0 /\ quiet /\ Len(results) = Len(Plan) /\ "error" \notin Range(results)
Ran         == {i \in DOMAIN results : results[i] # "off"}

(* A tmux text whose block has lost its end: the run has added a second     *)
(* block, which only the next one joins with what the first begin opens.    *)
Doubled(a) == a.kind = "provision_tmux" /\ Cardinality(Markers(disk[a.conf].text, "begin", "tmux")) > 1

(* The same apply again has nothing to do: the writes of one action are     *)
(* neither undone by a later one nor owed to a later run, bar one Doubled.  *)
SecondRunIsIdle ==
  Undisturbed => \A i \in Ran : Written(disk, Do(Plan[i], disk, policy).writes) = disk \/ Doubled(Plan[i])

(* What a run may leave drifted without an error: what only a human can     *)
(* decide, what GitHub, the plan or the network forbids, what cannot be     *)
(* read, what rig never deletes, what a dry run does not do.                *)
LeftOpen(a) ==
  CASE a.kind = "provision_agents_symlink" -> PairState(a, disk) = "conflict"
    [] a.kind = "provision_permissions" -> \E c \in a.containers : c.value # "listed"
    [] a.kind = "apply_harness" -> ModeProbe(a, disk) = "conflict"
    [] a.kind = "provision_global_excludes" ->
         BlockState(disk[ExcludesTarget(a, disk).path].text, "excludes", a.version) = "conflict"
    [] a.kind = "provision_github_ghas" ->
         \E i \in DOMAIN a.parts : ~Readable(disk[a.parts[i]]) \/ PlanLimited(disk[a.parts[i]])
    [] a.kind = "provision_github_ruleset" -> a.dry
    [] a.kind = "provision_project_tool" -> disk[a.cli].form = "absent"
    [] a.kind \in {"provision_ship_delegator", "provision_gh_ship_alias"} -> a.transient
    [] a.kind = "provision_tmux" -> Broken(disk, a.net) \/ Doubled(a)
    [] a.kind = "provision_schedule" -> a.platform = "cron" /\ Unlisted(a.crontab)
    [] OTHER -> FALSE

(* After any other undisturbed run under a policy that lets rig converge,   *)
(* `rig status` finds nothing missing or modified.                          *)
ApplyConverges ==
  Undisturbed /\ policy # "skip" =>
    \A i \in Ran : Check(Plan[i], disk) \subseteq {"extra"} \/ LeftOpen(Plan[i])

(* The cells of an action that its check does not look at.                  *)
Unwatched(a) ==
  CASE a.kind = "install_dispatcher" -> {a.retrofit_script}
    [] a.kind = "provision_github_browser" -> Range(a.toggles)
    [] a.kind = "provision_project_tool" -> {c \in {a.target} : a.operation = "reindex"}
    [] a.kind = "provision_tmux" -> {a.boot_agent, a.save_agent, a.continuum, a.snapshot}
    [] OTHER -> {}

(* Where `rig status` is clean, the next apply changes nothing but exec     *)
(* bits and those cells, whatever happened to the disk before.              *)
CleanMeansIdle ==
  at = 0 => \A i \in DOMAIN Plan, p \in Policies :
    Check(Plan[i], disk) = {} =>
      LET after == Written(disk, Do(Plan[i], disk, p).writes)
      IN  \A c \in DOMAIN disk \ Unwatched(Plan[i]) : Plain(after[c]) = Plain(disk[c])

(* What an apply put in place and the config then switched off is still     *)
(* seen by `rig status`, for the kinds that have a check for it.            *)
HasDisabledCheck(a) ==
  \/ a.kind \in {"copy_skill", "install_agent_hook", "register_mcp", "install_dispatcher", "provision_env",
                 "provision_global_excludes"}
  \/ a.kind = "install_ci" /\ a.slot # "ship"
SwitchedOffIsSeen ==
  Undisturbed => \A i \in off : results[i] \in Changed /\ HasDisabledCheck(Plan[i])
                                  => SwitchedOff(Plan[i], disk) # {}

=============================================================================
