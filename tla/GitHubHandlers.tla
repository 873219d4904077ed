--------------------------- MODULE GitHubHandlers ----------------------------
(***************************************************************************)
(* The handlers of riglib/actions/runner.py that reconcile a repository's   *)
(* settings on GitHub, with github_ruleset, github_merge, github_ghas,      *)
(* github_actions, github_browser and github_auth, their checks in          *)
(* riglib/drift.py, and the project tools that run a CLI of their own.      *)
(*                                                                          *)
(* GitHub's side is cells too: a.repo holds <<"repo">> where there is an    *)
(* origin remote; a.auth is "in" when `gh` is logged in; a setting's cell   *)
(* has form "file" and its facts, "unreadable" where the API refuses to     *)
(* show it, and <<"refuses", why>> when it refuses a write, why being       *)
(* "plan" or "other".                                                       *)
(***************************************************************************)
EXTENDS ManagedFiles

NoRemote(a, d)  == d[a.repo].form = "absent"
Readable(p)     == p.form # "unreadable"
Settings(p)     == p.has \ {f \in p.has : f[1] = "refuses"}
Refuses(p)      == \E f \in p.has : f[1] = "refuses"
PlanLimited(p)  == <<"refuses", "plan">> \in p.has
Setting(p, has) == [form |-> "file", has |-> has \cup (p.has \ Settings(p)), text |-> <<>>]

(* A write through the API: refused, or the facts has in the place of what  *)
(* the setting held.                                                        *)
Put(d, cell, has) ==
  IF Refuses(d[cell]) THEN Unchanged("error") ELSE Result("updated", <<<<cell, Setting(d[cell], has)>>>>, {})

(* _github_action_preamble: no remote, nothing to do; not logged in, an     *)
(* error, but never in a dry run.                                           *)
Preamble(a, d, out) ==
  IF NoRemote(a, d) THEN Unchanged("skipped")
  ELSE IF ~a.dry /\ d[a.auth].form # "in" THEN Unchanged("error") ELSE out

-----------------------------------------------------------------------------
(* build_ruleset_body, normalize_ruleset: the rules the options ask for;    *)
(* an option that is off leaves no rule.  Facts of a.rules are what both    *)
(* sides normalize to.  The repository's ruleset is absent, or the managed  *)
(* one; github_ruleset_state tells which.                                   *)
RulesetState(a, d) ==
  LET p == d[a.ruleset]
  IN  IF ~Readable(p) THEN "gh_error" ELSE IF p.form = "absent" THEN "create"
      ELSE IF Settings(p) = a.rules THEN "ok" ELSE "update"

Ruleset(a, d, policy) ==
  LET state == RulesetState(a, d)
      put   == Put(d, a.ruleset, a.rules)
  IN  Preamble(a, d,
        CASE state = "gh_error" -> Unchanged("error")
          [] state = "ok" -> Unchanged("skipped")
          [] state \in {"create", "update"} ->
               LET done == IF state = "create" THEN "created" ELSE "updated"
               IN  IF a.dry THEN Unchanged(done)
                   ELSE IF put.status = "error" THEN put ELSE [put EXCEPT !.status = done])

CheckRuleset(a, d) ==
  IF NoRemote(a, d) THEN {}
  ELSE CASE RulesetState(a, d) = "create" -> {"missing"}
         [] RulesetState(a, d) = "ok" -> {}
         [] OTHER -> {"modified"}

-----------------------------------------------------------------------------
(* github_merge_state, _do_provision_github_merge: one PATCH of the repo.   *)
Merge(a, d, policy) ==
  LET p == d[a.merge]
  IN  Preamble(a, d,
        IF ~Readable(p) THEN Unchanged("error")
        ELSE IF Settings(p) = a.knobs THEN Unchanged("skipped")
        ELSE IF a.dry THEN Unchanged("updated") ELSE Put(d, a.merge, a.knobs))

CheckMerge(a, d) ==
  {m \in {"modified"} : ~NoRemote(a, d) /\ (~Readable(d[a.merge]) \/ Settings(d[a.merge]) # a.knobs)}

-----------------------------------------------------------------------------
(* github_ghas_state, _do_provision_github_ghas: security_and_analysis in   *)
(* one PATCH, then each sub-resource and code scanning by itself, each a    *)
(* cell of a.parts with its desired facts.  What cannot be read is left     *)
(* alone and only degrades the action; so does a write the plan forbids.    *)
GhasPart(a, d, cell) ==
  LET p   == d[cell]
      put == Put(d, cell, a.wants)
  IN  IF ~Readable(p) THEN Unchanged("degraded")
      ELSE IF Settings(p) = a.wants THEN Unchanged("skipped")
      ELSE IF put.status = "error" /\ PlanLimited(p) THEN Unchanged("degraded") ELSE put

Ghas(a, d, policy) ==
  LET outs   == [i \in DOMAIN a.parts |-> GhasPart(a, d, a.parts[i])]
      synced == \A i \in DOMAIN a.parts :
                  Readable(d[a.parts[i]]) /\ Settings(d[a.parts[i]]) = a.wants
      status == IF "error" \in StatusesOf(outs) THEN "error"
                ELSE IF StatusesOf(outs) = {"skipped"} THEN "skipped" ELSE "updated"
  IN  Preamble(a, d,
        IF ~Readable(d[a.parts[1]]) THEN Unchanged("error")
        ELSE IF a.dry THEN Unchanged(IF synced THEN "skipped" ELSE "updated")
        ELSE Together(status, outs))

CheckGhas(a, d) ==
  {m \in {"modified"} : ~NoRemote(a, d) /\ \E i \in DOMAIN a.parts :
                          ~Readable(d[a.parts[i]]) \/ Settings(d[a.parts[i]]) # a.wants}

-----------------------------------------------------------------------------
(* github_actions_state, _do_provision_github_actions: the permissions,     *)
(* then, unless Actions are off, the workflow permissions.                  *)
ActionsState(a, d) ==
  LET perms == d[a.perms]
      wf    == d[a.workflow]
  IN  IF ~Readable(perms) THEN "gh_error"
      ELSE IF a.enabled /\ ~Readable(wf) THEN "gh_error"
      ELSE IF Settings(perms) = a.perm_facts /\ (~a.enabled \/ Settings(wf) = a.wf_facts)
        THEN "ok" ELSE "update"

GitHubActions(a, d, policy) ==
  LET state == ActionsState(a, d)
      perms == Put(d, a.perms, a.perm_facts)
      wf    == Put(d, a.workflow, a.wf_facts)
  IN  Preamble(a, d,
        IF state = "gh_error" THEN Unchanged("error")
        ELSE IF state = "ok" THEN Unchanged("skipped")
        ELSE IF a.dry THEN Unchanged("updated")
        ELSE IF perms.status = "error" \/ ~a.enabled THEN perms
        ELSE Together(wf.status, <<perms, wf>>))

CheckGitHubActions(a, d) == {m \in {"modified"} : ~NoRemote(a, d) /\ ActionsState(a, d) # "ok"}

-----------------------------------------------------------------------------
(* _do_provision_github_browser: the toggles the API lacks, one UI step     *)
(* each, when RIG_GH_BROWSER is set; driven on every apply, never checked   *)
(* back, and not part of drift.                                             *)
Browser(a, d, policy) ==
  LET drive == [i \in DOMAIN a.toggles |-> Put(d, a.toggles[i], a.wants)]
      stop  == {i \in DOMAIN drive : drive[i].status = "error"}
  IN  IF NoRemote(a, d) \/ ~a.browser THEN Unchanged("skipped")
      ELSE IF a.dry THEN Unchanged("updated")
      ELSE IF d[a.auth].form # "in" THEN Unchanged("error")
      ELSE IF stop # {} THEN Together("error", SubSeq(drive, 1, Min(stop) - 1))
      ELSE Together("updated", drive)

-----------------------------------------------------------------------------
(* resolve_entry, merge_codex_mcp_section: a project tool's file, or its    *)
(* section of .codex/config.toml, which takes the place of the section      *)
(* there is and of any table of the same name outside it.                   *)
CodexSection(has, version) ==
  {f \in has : f[1] \notin {"haft", "haft-table"}} \cup {<<"haft", version>>}
    \cup {f \in has : f[1] = "haft-table" /\ \E g \in has : g[1] = "haft"}
ToolEntry(a, d) ==
  IF a.operation = "codex_mcp" THEN Holding(CodexSection(Held(d[a.target]), a.version))
  ELSE Holding({<<"entry", a.version>>})

(* _do_provision_project_tool, run_sverklo: registering looks first,        *)
(* reindexing does it every time; no CLI is a skip.                         *)
Sverklo(a, d) ==
  LET now  == d[a.target].has
      done == IF a.operation = "register" THEN now \cup {<<"registered">>} ELSE now \cup {<<"indexed">>}
      here == a.operation = "register" /\ d[a.cli].form = "file" /\ <<"registered">> \in now
  IN  IF d[a.cli].form = "absent" \/ a.dry \/ here THEN Unchanged("skipped")
      ELSE IF d[a.cli].form = "broken" THEN Unchanged("error")
      ELSE Result("created", <<<<a.target, Holding(done)>>>>, {})

ProjectTool(a, d, policy) ==
  IF a.operation \in {"register", "reindex"} THEN Sverklo(a, d)
  ELSE IF a.escapes \/ d[a.target].form \notin {"absent", "file"} THEN Unchanged("error")
  ELSE WriteFile(d, a.target, ToolEntry(a, d), policy)

CheckProjectTool(a, d) ==
  CASE a.operation = "reindex" -> {}
    [] a.operation = "register" ->
         {m \in {"missing"} : d[a.cli].form # "file" \/ <<"registered">> \notin d[a.target].has}
    [] OTHER -> IF a.escapes \/ d[a.target].form \notin {"absent", "file"} THEN {"modified"}
                ELSE Differs(d[a.target], ToolEntry(a, d))

=============================================================================
