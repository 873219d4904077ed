------------------------- MODULE RepositoryHandlers --------------------------
(***************************************************************************)
(* Handlers of riglib/actions/runner.py for what a repository and its       *)
(* machine-wide companions hold: the AGENTS.md/CLAUDE.md pair, the ship     *)
(* delegator with its machine env file, the `gh ship` alias, the shell      *)
(* environment, git's global excludes, linter configs; and their checks in  *)
(* riglib/drift.py.  See ManagedFiles for cells, Results and policies.      *)
(***************************************************************************)
EXTENDS ManagedFiles

-----------------------------------------------------------------------------
(* resolve_agents_md: which of the two files is the real one, and what the  *)
(* other slot holds.  Any pair it cannot read as that is a conflict.        *)
PairState(a, d) ==
  LET one == d[a.agents]
      two == d[a.claude]
      beside(q, canonical) == IF q.form = "absent" THEN "create_link"
                              ELSE IF q = LinkTo(canonical) THEN "ok" ELSE "conflict"
  IN  CASE one.form = "file" /\ two.form = "file" -> IF one = two THEN "converge" ELSE "conflict"
        [] one.form = "file" /\ two.form # "file" -> beside(two, a.agents)
        [] one.form # "file" /\ two.form = "file" -> beside(one, a.claude)
        [] one.form # "file" /\ two.form # "file" ->
             IF one.form = "absent" /\ two.form = "absent" THEN "create_both" ELSE "conflict"

(* _do_provision_agents_symlink *)
AgentsSymlink(a, d, policy) ==
  LET state     == PairState(a, d)
      canonical == IF d[a.agents].form = "file" \/ d[a.claude].form # "file" THEN a.agents ELSE a.claude
      link      == IF canonical = a.agents THEN a.claude ELSE a.agents
      linked    == <<<<link, LinkTo(canonical)>>>>
  IN  CASE state \in {"ok", "conflict"} -> Unchanged("skipped")
        [] state = "create_link" -> Result("created", linked, {})
        [] state = "create_both" ->
             Result("created", <<<<canonical, Holding({<<"placeholder">>})>>>> \o linked, {})
        [] state = "converge" ->
             IF policy = "skip" THEN Unchanged("skipped")
             ELSE IF policy = "backup" THEN Result("backed_up", linked, {link})
             ELSE Result("updated", linked, {})

CheckAgentsSymlink(a, d) ==
  CASE PairState(a, d) = "ok" -> {}
    [] PairState(a, d) \in {"create_both", "create_link"} -> {"missing"}
    [] PairState(a, d) \in {"converge", "conflict"} -> {"modified"}

-----------------------------------------------------------------------------
(* The machine env file that pins AGENT_TOOLS_ROOT.                         *)
ShipEnv(root) == Holding({<<"rig-header">>, <<"root", root>>})

(* _reconcile_ship_env_file: a file with rig's header is rewritten under    *)
(* every policy, one without it under write_file's; a checkout in a         *)
(* temporary directory is never pinned.                                     *)
ShipEnvFile(a, d, policy) ==
  LET p == d[a.env]
  IN  IF p.form \notin {"absent", "file"} THEN Unchanged("refused")
      ELSE IF a.transient THEN Unchanged("skipped_transient")
      ELSE IF p = ShipEnv(a.root) THEN Unchanged("unchanged")
      ELSE LET out == Replace(d, a.env, ShipEnv(a.root), p.form = "absent" \/ <<"rig-header">> \in p.has, policy)
           IN  [out EXCEPT !.status = IF out.writes = <<>> THEN "skipped_user" ELSE "written"]

CheckShipEnvFile(a, d) ==
  LET p == d[a.env]
  IN  IF p.form \notin {"absent", "file"} THEN {"modified"}
      ELSE IF a.transient
        THEN {m \in {"modified"} : p.form = "file" /\ <<"root", "transient">> \in p.has}
      ELSE Differs(p, ShipEnv(a.root))

(* resolve_ship_delegator and _do_provision_ship_delegator: the env file,   *)
(* the delegator (one of rig's own is replaced under every policy), then    *)
(* its line in .git/info/exclude.  Whatever an unresolved env file or a     *)
(* user's delegator leaves open makes the whole action "skipped".           *)
Delegator(version) == Holding({<<"delegator", version>>})
RigDelegator(p)    == p.form = "file" /\ \E f \in p.has : f[1] = "delegator"
ShipDelegator(a, d, policy) ==
  LET p        == d[a.delegator]
      env      == IF a.self_hosted THEN Unchanged("unchanged") ELSE ShipEnvFile(a, d, policy)
      correct  == p.form = "file" /\ Plain(p) = Delegator(a.version)
      ignored  == d[a.exclude].form = "file" /\ BlockState(d[a.exclude].text, "ship", "rel") = "ok"
      file     == IF correct THEN Unchanged("updated")
                  ELSE WriteScript(d, a.delegator, Delegator(a.version),
                                   IF RigDelegator(p) THEN "overwrite" ELSE policy)
      exclude  == SpliceAlways(d, a.exclude, "ship", "rel")
      open     == env.status \in {"skipped_user", "skipped_transient"} \/ file.status = "skipped"
  IN  IF a.root = "none" THEN Unchanged("error")
      ELSE IF env.status = "refused" THEN Unchanged("error")
      ELSE IF p.form \notin {"absent", "file"} THEN Together("error", <<env>>)
      ELSE IF correct /\ ignored
        THEN Together(IF env.status = "written" THEN "updated" ELSE "skipped", <<env>>)
      ELSE IF exclude.status = "error" THEN Together("error", <<env, file>>)
      ELSE Together(IF open THEN "skipped" ELSE file.status, <<env, file, exclude>>)

CheckShipDelegator(a, d) ==
  LET p == d[a.delegator]
      ignored == d[a.exclude].form = "file" /\ BlockState(d[a.exclude].text, "ship", "rel") = "ok"
  IN  IF a.root = "none" THEN {"modified"}
      ELSE (IF a.self_hosted THEN {} ELSE CheckShipEnvFile(a, d))
           \cup Differs(p, Delegator(a.version))
           \cup {m \in {"missing"} : p.form = "file" /\ ~ignored}

(* _reconcile_gh_alias.  The alias lives in gh's own config: "file" with    *)
(* <<"ship", expansion>>; no gh, or a config it cannot read, is a skip.     *)
GhAlias(a, d, policy) ==
  LET p     == d[a.gh]
      now   == {f \in p.has : f[1] = "ship"}
      write == <<<<a.gh, [p EXCEPT !.has = (@ \ now) \cup {<<"ship", "rig">>}]>>>>
      fails == d[a.gh_cli].form = "broken"
  IN  IF p.form # "file" \/ now = {<<"ship", "rig">>} \/ (now # {} /\ policy = "skip") \/ a.dry
        THEN Unchanged("skipped")
      ELSE IF fails THEN Unchanged("error")
      ELSE Result(IF now = {} THEN "created" ELSE "updated", write, {})

(* _do_provision_gh_ship_alias with _merge_env_into_alias_result            *)
GhShipAlias(a, d, policy) ==
  LET env    == IF a.root = "none" THEN Unchanged("unchanged") ELSE ShipEnvFile(a, d, policy)
      alias  == GhAlias(a, d, policy)
      insync == alias.status = "skipped" /\ d[a.gh].form = "file" /\ <<"ship", "rig">> \in d[a.gh].has
      status == IF alias.status = "error" \/ env.status = "unchanged" THEN alias.status
                ELSE IF env.status # "written" THEN "skipped"
                ELSE IF insync THEN "updated" ELSE alias.status
  IN  IF env.status = "refused" THEN Unchanged("error") ELSE Together(status, <<env, alias>>)

CheckGhShipAlias(a, d) ==
  LET now == {f \in d[a.gh].has : f[1] = "ship"}
  IN  (IF a.root = "none" THEN {} ELSE CheckShipEnvFile(a, d))
      \cup (IF d[a.gh].form # "file" \/ now = {<<"ship", "rig">>} THEN {}
            ELSE IF now = {} THEN {"missing"} ELSE {"modified"})

-----------------------------------------------------------------------------
(* desired_rc_text: the current import line where it is, or at the end;     *)
(* imports of another generated_dir go.  Lines are <<"import", dir>>.       *)
RcText(text, dir) ==
  LET kept == SelectSeq(text, LAMBDA l : l[1] # "import" \/ l = <<"import", dir>>)
  IN  IF <<"import", dir>> \in Range(text) THEN kept ELSE Append(kept, <<"import", dir>>)

(* _do_provision_env: the generated file, then the import in the rc file.   *)
EnvFile(a) == Holding({<<"vars", a.vars>>})
ProvisionEnv(a, d, policy) ==
  LET rc   == d[a.rc]
      file == WriteFile(d, a.env, EnvFile(a), policy)
      wire == IF RcText(rc.text, a.dir) = rc.text THEN Unchanged("skipped")
              ELSE WriteFile(d, a.rc, Text(RcText(rc.text, a.dir)), policy)
      both == Together("updated", <<file, wire>>)
  IN  IF a.vars = "invalid" THEN Unchanged("error")
      ELSE IF rc.form \notin {"absent", "file"} THEN [file EXCEPT !.status = "error"]
      ELSE IF both.writes = <<>> THEN Unchanged("skipped") ELSE both

CheckEnv(a, d) ==
  LET rc == d[a.rc]
  IN  (IF a.vars = "invalid" THEN {"modified"} ELSE Differs(d[a.env], EnvFile(a)))
      \cup (IF rc.form \notin {"absent", "file"} THEN {"modified"}
            ELSE IF RcText(rc.text, a.dir) = rc.text THEN {}
            ELSE IF <<"import", a.dir>> \in Range(rc.text) THEN {"modified"} ELSE {"missing"})

(* check_disabled_env: the generated file, or an import of it, still there. *)
CheckDisabledEnv(a, d) ==
  {m \in {"extra"} : d[a.env].form = "file" \/ \E i \in DOMAIN d[a.rc].text : d[a.rc].text[i][1] = "import"}

-----------------------------------------------------------------------------
(* _resolve_excludes_target: the file git reads global excludes from, and   *)
(* whether core.excludesfile has to be set first.                           *)
ExcludesTarget(a, d) ==
  LET now == {f[2] : f \in d[a.gitconfig].has}
      path == IF a.override # "none" THEN a.override
              ELSE IF now # {} THEN CHOOSE c \in now : TRUE ELSE a.xdg
  IN  [path |-> path, set |-> now # {path}]

(* _do_provision_global_excludes: core.excludesfile is set before the file  *)
(* is looked at; a conflict in the file then makes the action "skipped".    *)
GlobalExcludes(a, d, policy) ==
  LET target == ExcludesTarget(a, d)
      key    == Holding({<<"excludesfile", target.path>>})
      set    == IF target.set THEN Result("created", <<<<a.gitconfig, key>>>>, {}) ELSE Unchanged("skipped")
      block  == SpliceAlways(d, target.path, "excludes", a.version)
      state  == BlockState(d[target.path].text, "excludes", a.version)
      status == IF d[target.path].form \notin {"absent", "file"} THEN "error"
                ELSE IF state = "conflict" THEN "skipped"
                ELSE IF state = "ok" THEN set.status
                ELSE IF state = "create" THEN "created" ELSE "updated"
  IN  IF target.set /\ d[a.git].form = "broken" THEN Unchanged("error")
      ELSE Together(status, <<set, block>>)

CheckGlobalExcludes(a, d) ==
  LET target == ExcludesTarget(a, d)
      p      == d[target.path]
  IN  {m \in {"missing"} : target.set}
      \cup (IF p.form = "absent" THEN {"missing"} ELSE IF p.form # "file" THEN {"modified"}
            ELSE BlockDrift(p, "excludes", a.version))

CheckDisabledAtXdg(a, d) ==  \* mutant: looks at git's default file only
  {m \in {"extra"} : Markers(d[a.xdg].text, "begin", "excludes") # {}}
CheckDisabledExcludes(a, d) ==
  {m \in {"extra"} : Markers(d[ExcludesTarget(a, d).path].text, "begin", "excludes") # {}}

-----------------------------------------------------------------------------
(* resolve_linter_config and _do_provision_linter_config: nothing is read   *)
(* or written through a symlink, a directory in the way, or out of the      *)
(* repository.  The blocked policies are errors by their plan alone.        *)
LinterConfig(a, d, policy) ==
  IF a.escapes \/ d[a.target].form \notin {"absent", "file"} THEN Unchanged("error")
  ELSE WriteFile(d, a.target, Holding({<<"config", a.version>>}), policy)
CheckLinterConfig(a, d) ==
  IF a.escapes \/ d[a.target].form \notin {"absent", "file"} THEN {"modified"}
  ELSE Differs(d[a.target], Holding({<<"config", a.version>>}))
PolicyBlocked(a, d, policy) == Unchanged("error")
CheckPolicyBlocked(a, d)    == {"modified"}

=============================================================================
