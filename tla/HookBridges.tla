---------------------------- MODULE HookBridges -----------------------------
(***************************************************************************)
(* register_hook_bridge of riglib/actions/runner.py, in its four formats,   *)
(* and its checks in riglib/drift.py: the entry that makes a harness call   *)
(* rig's hook dispatcher.  See ManagedFiles for cells, Results and policies.*)
(***************************************************************************)
EXTENDS SettingsHandlers

-----------------------------------------------------------------------------
(* JSON settings.  <<"hook", slot, command>> is the managed hook of an      *)
(* event and matcher; _upsert_bridge adds it, or brings it up to date       *)
(* unless the policy is skip.  An event that is no list starts empty.       *)
JsonBridge(a, d, policy) ==
  LET p      == d[a.file]
      has    == Held(p)
      absent == {s \in a.slots : Entry(has, "hook", s) = {}}
      stale  == {s \in a.slots \ absent : <<"hook", s, a.command>> \notin has}
      due    == absent \cup {s \in stale : policy # "skip"}
      kept   == {f \in has : ~(f[1] = "hook" /\ f[2] \in due) /\ ~(f[1] = "event" /\ f[2] = "shape")}
      saves  == p.form = "malformed" \/ (p.form = "file" /\ policy = "backup")
  IN  IF Refusal(p, policy) # "none" THEN Unchanged(Refusal(p, policy))
      ELSE IF Misshapen(has, "hooks") THEN Unchanged("error")
      ELSE IF due = {} THEN Unchanged("skipped")
      ELSE Result(IF saves THEN "backed_up" ELSE "created",
                  Rewrite(d, a.file, kept \cup {<<"hook", s, a.command>> : s \in due}),
                  {c \in {a.file} : saves})

CheckJsonBridge(a, d) ==
  LET has == Held(d[a.file])
      look(s) == IF Entry(has, "hook", s) = {} THEN {"missing"}
                 ELSE IF <<"hook", s, a.command>> \in has THEN {} ELSE {"modified"}
  IN  CASE d[a.file].form = "absent"    -> {"missing"}
        [] d[a.file].form = "malformed" -> {"modified"}
        [] OTHER                        -> UNION {look(s) : s \in a.slots}

-----------------------------------------------------------------------------
(* Codex's config.toml.  <<"block", version, style>> is rig's block, in the *)
(* style the rest of the file asks for; "half" stands for markers that do   *)
(* not pair, "unmanaged" for hooks of the user's own.                       *)
TomlConflict(has) == \E f \in has : f[1] \in {"half", "unmanaged"}
Blocks(has)       == {f \in has : f[1] = "block"}

(* Mutant of MergedToml: hooks that are switched off stay off.              *)
MergedTomlStaysOff(has, version) ==
  (has \ Blocks(has)) \cup {<<"block", version, IF <<"hooks", "dotted", "user">> \in has THEN "dotted" ELSE "plain">>}

(* merge_codex_hook_bridge_toml: hooks switched off are switched on, the    *)
(* block keeps its style unless hooks.* keys at the root forbid a table.    *)
MergedToml(has, version) ==
  LET style == IF <<"hooks", "dotted", "user">> \in has THEN "dotted"
               ELSE IF Blocks(has) # {} THEN (CHOOSE b \in Blocks(has) : TRUE)[3]
               ELSE IF <<"hooks", "table", "user">> \in has THEN "plain" ELSE "header"
      rest  == {f \in has \ Blocks(has) : f[1] # "feature"}
               \cup {<<"feature", "on">> : f \in {g \in has : g[1] = "feature"}}
  IN  rest \cup {<<"block", version, style>>}

(* _do_register_codex_hook_bridge *)
CodexBridge(a, d, policy) ==
  LET p      == d[a.file]
      has    == Held(p)
      merged == MergedToml(has, a.version)
      saves  == p.form = "file" /\ policy = "backup"
  IN  IF p.form \notin {"absent", "file"} THEN Unchanged("error")
      ELSE IF TomlConflict(has) THEN Unchanged(IF policy = "skip" THEN "skipped" ELSE "error")
      ELSE IF merged = has \/ (Blocks(has) # {} /\ policy = "skip") THEN Unchanged("skipped")
      ELSE Result(IF saves THEN "backed_up" ELSE IF p.form = "absent" THEN "created" ELSE "updated",
                  Rewrite(d, a.file, merged), {c \in {a.file} : saves})

CheckCodexBridge(a, d) ==
  LET p   == d[a.file]
      has == Held(p)
  IN  IF p.form = "absent" THEN {"missing"}
      ELSE IF p.form # "file" \/ TomlConflict(has) \/ \E f \in has : f[1] = "feature" /\ f[2] = "off"
        THEN {"modified"}
      ELSE IF Blocks(has) = {} THEN {"missing"}
      ELSE IF MergedToml(has, a.version) = has THEN {} ELSE {"modified"}

-----------------------------------------------------------------------------
(* Plugin files: a link to the agent tools' bridge, or a wrapper when the   *)
(* config sets hooks_dir (or, for omp, an interpreter).                     *)
Wrapper(version) == Holding({<<"wrapper", version>>})
Plugin(a) == IF a.wrapper THEN Wrapper(a.version) ELSE LinkTo(a.dest)
RigBridge == Path("symlink", {<<"to", "lib/hook_bridge">>}, <<>>)

(* _do_register_opencode_hook_bridge, its finalize included: any symlink is *)
(* re-pointed in link mode, and given up in wrapper mode, unsaved; what the *)
(* policy leaves alone ends the action before the clean-up of the old       *)
(* global plugin and the exclude block.                                     *)
OpencodeBridge(a, d, policy) ==
  LET p       == d[a.plugin]
      link    == p.form = "symlink"
      put     == Replace(d, a.plugin, Plugin(a), link /\ (~a.wrapper \/ policy # "skip"), policy)
      kept    == p # Plugin(a) /\ put.writes = <<>>
      old     == d[a.legacy] \in {RigBridge, LinkTo(a.dest)} /\ a.legacy # a.plugin
      exclude == IF a.exclude = "none" THEN Unchanged("skipped")
                 ELSE SpliceAlways(d, a.exclude, "opencode", "rel")
      cleaned == Result("skipped", IF old THEN <<<<a.legacy, Nothing>>>> ELSE <<>>, {})
      status  == IF exclude.status = "error" THEN "error"
                 ELSE IF put.status = "skipped" /\ (old \/ exclude.status # "skipped") THEN "updated"
                 ELSE put.status
  IN  IF d[a.dest].form # "file" THEN Unchanged("error")
      ELSE IF a.plugin = a.dest \/ kept THEN Unchanged("skipped")
      ELSE Together(status, <<put, cleaned, exclude>>)

CheckOpencodeBridge(a, d) ==
  LET p == d[a.plugin]
  IN  IF a.plugin = a.dest /\ d[a.dest].form = "file" THEN {}
      ELSE (IF p = Plugin(a)
              THEN {m \in {"missing"} : /\ a.exclude # "none"
                                        /\ \/ d[a.exclude].form # "file"
                                           \/ BlockState(d[a.exclude].text, "opencode", "rel") # "ok"}
              ELSE Differs(p, Plugin(a)))
           \cup {m \in {"modified"} : d[a.legacy] \in {RigBridge, LinkTo(a.dest)} /\ a.legacy # a.plugin}

(* _do_register_omp_hook_bridge: rig's own links and wrappers are replaced  *)
(* under every policy, a foreign symlink obeys it like a file.              *)
OmpOwned(a, p) == p \in {RigBridge, LinkTo(a.dest)} \/ (p.form = "file" /\ \E f \in p.has : f[1] = "wrapper")
OmpBridge(a, d, policy) ==
  IF d[a.dest].form # "file" THEN Unchanged("error")
  ELSE IF a.plugin = a.dest THEN Unchanged("skipped")
  ELSE Replace(d, a.plugin, Plugin(a), OmpOwned(a, d[a.plugin]), policy)

CheckOmpBridge(a, d) ==
  IF a.plugin = a.dest /\ d[a.dest].form = "file" THEN {} ELSE Differs(d[a.plugin], Plugin(a))

(* _do_register_hook_bridge and _check_hook_bridge, by format.              *)
HookBridge(a, d, policy) ==
  CASE a.format = "json"     -> JsonBridge(a, d, policy)
    [] a.format = "toml"     -> CodexBridge(a, d, policy)
    [] a.format = "opencode" -> OpencodeBridge(a, d, policy)
    [] a.format = "omp"      -> OmpBridge(a, d, policy)
CheckHookBridge(a, d) ==
  CASE a.format = "json"     -> CheckJsonBridge(a, d)
    [] a.format = "toml"     -> CheckCodexBridge(a, d)
    [] a.format = "opencode" -> CheckOpencodeBridge(a, d)
    [] a.format = "omp"      -> CheckOmpBridge(a, d)

=============================================================================
