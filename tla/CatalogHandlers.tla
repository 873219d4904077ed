-------------------------- MODULE CatalogHandlers ---------------------------
(***************************************************************************)
(* Handlers of riglib/actions/runner.py that install items of the agent     *)
(* tools catalog (skills, agent hooks, the git-hook dispatcher, CI) and the *)
(* checks of riglib/drift.py over the same items.                           *)
(*                                                                          *)
(* A handler takes its action, the disk and the conflict policy and returns *)
(* a Result; a check returns the directions ("missing", "modified",         *)
(* "extra") it would report.  An action's fields name the cells it reads    *)
(* and writes; a directory holds facts <<"file", name, version>>, and       *)
(* sources are cells too: the catalog changes between two applies.          *)
(***************************************************************************)
EXTENDS ManagedFiles

FileNamed(p, name) == {f \in p.has : f[1] = "file" /\ f[2] = name}
Contents(p, name)  == Holding({<<"text", f[3]>> : f \in FileNamed(p, name)})
Exists(p)          == p.form # "absent"

-----------------------------------------------------------------------------
(* _do_copy_skill, _check_copy_skill *)
CopySkill(a, d, policy) == WriteFile(d, a.target, d[a.source], policy)
CheckCopySkill(a, d)    == Differs(d[a.target], d[a.source])

(* _do_link_skill_harness: a link is re-pointed under every policy, a real  *)
(* entry is never touched.  a.link = a.dest is the skill's own directory.   *)
LinkSkill(a, d, policy) ==
  LET link == d[a.link]
  IN  IF ~Exists(d[a.dest]) THEN Unchanged("error")
      ELSE IF a.link = a.dest \/ link = LinkTo(a.dest) \/ (Exists(link) /\ link.form # "symlink")
        THEN Unchanged("skipped")
      ELSE Result(IF Exists(link) THEN "updated" ELSE "created", <<<<a.link, LinkTo(a.dest)>>>>, {})

CheckLinkSkill(a, d) ==
  CASE d[a.link].form = "absent"  -> {"missing"}
    [] d[a.link].form = "symlink" -> IF d[a.link] = LinkTo(a.dest) THEN {} ELSE {"modified"}
    [] OTHER                      -> {}

(* _do_install_agent_hook: the catalog's descriptor, with its command made  *)
(* absolute and on_error from the config.                                   *)
Descriptor(a, d) == Holding(d[a.source].has \cup {<<"on_error", a.on_error>>})
AgentHook(a, d, policy) ==
  IF d[a.source].form # "file" THEN Unchanged("error")
  ELSE WriteFile(d, a.target, Descriptor(a, d), policy)

CheckAgentHook(a, d) ==
  IF Exists(d[a.target]) /\ d[a.source].form # "file" THEN {}
  ELSE Differs(d[a.target], Descriptor(a, d))

-----------------------------------------------------------------------------
(* resolve_ci_workflow: the variant, workflow.yml, <slot>.yml, or the only  *)
(* other workflow of the item.                                              *)
Ymls == {"workflow-variant.yml", "workflow.yml", "slot.yml", "one.yml", "two.yml"}
CiWorkflow(a, d) ==
  LET here  == {n \in Ymls : FileNamed(d[a.source], n) # {}}
      first == SelectSeq((IF a.variant THEN <<"workflow-variant.yml">> ELSE <<>>)
                           \o <<"workflow.yml", "slot.yml">>, LAMBDA n : n \in here)
  IN  IF first # <<>> THEN first[1]
      ELSE IF Cardinality(here) = 1 THEN CHOOSE n \in here : TRUE ELSE "none"

(* _ci_companion_files: the item's scripts, not its tests or READMEs.  A    *)
(* companion's cell is its name.                                            *)
Companions(a, d) ==
  SetToSeq({n \in {"gate.mjs", "check.sh", "pull_request_template.md"} : FileNamed(d[a.source], n) # {}})

(* _do_install_ci *)
InstallCi(a, d, policy) ==
  LET src == d[a.source]
      wf  == CiWorkflow(a, d)
      out == WriteFile(d, a.target, Contents(src, wf), policy)
      put(n) == IF n = "pull_request_template.md" THEN WriteFile(d, n, Contents(src, n), policy)
                ELSE WriteScript(d, n, Contents(src, n), policy)
      extra  == [i \in DOMAIN Companions(a, d) |-> put(Companions(a, d)[i])]
      others == StatusesOf(extra)
      status == IF "backed_up" \in others \/ (out.status = "skipped" /\ others \cap Changed # {})
                  THEN RollUp(others) ELSE out.status
  IN  IF a.slot = "ship"
        THEN IF FileNamed(src, "ship.sh") = {} THEN Unchanged("error")
             ELSE WriteScript(d, a.target, Contents(src, "ship.sh"), policy)
      ELSE IF wf = "none" \/ (a.variant /\ FileNamed(src, "workflow-variant.yml") = {})
        THEN Unchanged("error")
      ELSE Together(status, <<out>> \o extra)

CheckCi(a, d) ==
  LET src == d[a.source]
      wf  == CiWorkflow(a, d)
  IN  CASE a.slot = "ship" ->
             IF Exists(d[a.target]) /\ FileNamed(src, "ship.sh") = {} THEN {}
             ELSE Differs(d[a.target], Contents(src, "ship.sh"))
        [] a.slot # "ship" /\ d[a.target].form # "file" -> {"missing"}
        [] a.slot # "ship" /\ d[a.target].form = "file" ->
             IF wf = "none" THEN {}
             ELSE Differs(d[a.target], Contents(src, wf))
                    \cup UNION {Differs(d[n], Contents(src, n)) : n \in Range(Companions(a, d))}

-----------------------------------------------------------------------------
(* _install_fragments: each enabled fragment by itself.  a.fragments is a   *)
(* sequence of [source, target, on].                                        *)
Fragments(a, d, policy) ==
  LET on == SelectSeq(a.fragments, LAMBDA f : f.on)
  IN  InTurn([i \in DOMAIN on |-> WriteScript(d, on[i].target, d[on[i].source], policy)])

(* core.hooksPath: read and set outside the conflict policy.                *)
HooksPath(a, d) ==
  LET want == Holding({<<"path", a.composers>>})
  IN  IF d[a.hooks_path] = want THEN Unchanged("skipped")
      ELSE Result("created", <<<<a.hooks_path, want>>>>, {})

(* _do_install_dispatcher: the runner, the composers, the fragments, the    *)
(* retrofit script, then core.hooksPath.                                    *)
Optional(wanted, out) == IF wanted THEN <<out>> ELSE <<>>
InstallDispatcher(a, d, policy) ==
  InTurn(<<WriteScript(d, a.runner, d[a.runner_source], policy),
           WriteScript(d, a.composers, d[a.composers_source], policy),
           Fragments(a, d, policy)>>
         \o Optional(a.retrofit, WriteScript(d, a.retrofit_script, d[a.runner_source], policy))
         \o Optional(a.set_hooks_path, HooksPath(a, d)))

(* _check_dispatcher: the composers one by one, a disabled fragment left on *)
(* disk as extra; the retrofit script is not looked at.                     *)
CheckDispatcher(a, d) ==
  LET composer(f) == Differs(IF FileNamed(d[a.composers], f[2]) = {} THEN Nothing
                             ELSE Contents(d[a.composers], f[2]),
                             Contents(d[a.composers_source], f[2]))
      fragment(f) == IF f.on THEN Differs(d[f.target], d[f.source])
                     ELSE IF Exists(d[f.target]) THEN {"extra"} ELSE {}
  IN  Differs(d[a.runner], d[a.runner_source])
        \cup UNION {composer(f) : f \in {g \in d[a.composers_source].has : g[1] = "file"}}
        \cup (IF a.set_hooks_path /\ d[a.hooks_path] # Holding({<<"path", a.composers>>})
                THEN {"modified"} ELSE {})
        \cup UNION {fragment(a.fragments[i]) : i \in DOMAIN a.fragments}

(* check_disabled_dispatcher: rig's composers still wired with the          *)
(* dispatcher off in the config.                                            *)
CheckDisabledDispatcher(d, hooksPath, composers) ==
  IF d[hooksPath] = Holding({<<"path", composers>>}) /\ FileNamed(d[composers], "pre-commit") # {}
    THEN {"extra"} ELSE {}

=============================================================================
