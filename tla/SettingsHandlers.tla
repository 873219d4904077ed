-------------------------- MODULE SettingsHandlers --------------------------
(***************************************************************************)
(* Handlers of riglib/actions/runner.py that edit an agent harness's own    *)
(* settings, which the user edits too: MCP servers, the mode key, the       *)
(* permission containers, the rule and instruction blocks and the guard;    *)
(* with the checks of riglib/drift.py.  See ManagedFiles for cells, Results *)
(* and policies.                                                            *)
(*                                                                          *)
(* A settings file holds <<key, value>> for a scalar key, <<container,      *)
(* entry, value>> for an entry, <<container, "shape", ...>> where the       *)
(* container is not of the type the handler expects.                        *)
(***************************************************************************)
EXTENDS ManagedFiles

Keyed(has, key)        == {f \in has : f[1] = key /\ Len(f) = 2}
Entry(has, box, entry) == {f \in has : f[1] = box /\ f[2] = entry}
Misshapen(has, box)    == \E f \in has : f[1] = box /\ f[2] = "shape"

(* The settings file with facts has instead of what it held.                *)
Rewrite(d, cell, has) == <<<<cell, Holding(has)>>>>

-----------------------------------------------------------------------------
(* _do_register_mcp: one entry of mcpServers.                               *)
RegisterMcp(a, d, policy) ==
  LET p     == d[a.file]
      has   == Held(p)
      mine  == <<"mcpServers", a.server, a.entry>>
      prior == Entry(has, "mcpServers", a.server)
      write == Rewrite(d, a.file, (has \ prior) \cup {mine})
  IN  IF a.entry = "none" THEN Unchanged("skipped")
      ELSE IF Refusal(p, policy) # "none" THEN Unchanged(Refusal(p, policy))
      ELSE IF Misshapen(has, "mcpServers") THEN Unchanged("error")
      ELSE IF prior = {} THEN Result("created", write, SavedOnLoad(d, a.file))
      ELSE IF prior = {mine} \/ policy = "skip" THEN Unchanged("skipped")
      ELSE IF policy = "backup" THEN Result("backed_up", write, {a.file})
      ELSE Result("updated", write, {})

(* _check_mcp: a file it cannot read counts as one without the entry.       *)
CheckMcp(a, d) ==
  LET p     == d[a.file]
      prior == Entry(Held(p), "mcpServers", a.server)
  IN  IF a.entry = "none" THEN {}
      ELSE IF prior = {} THEN {"missing"}
      ELSE IF prior = {<<"mcpServers", a.server, a.entry>>} THEN {} ELSE {"modified"}

-----------------------------------------------------------------------------
(* The self-merge carve-out: _ensure_self_merge_allow adds the rule to      *)
(* autoMode.allow, putting a fresh list in the place of one that is no      *)
(* list; _ensure_self_merge_permissions adds the ship rules to              *)
(* permissions.allow, unless that has no list to add to.                    *)
CarveOut  == <<"autoMode.allow", "rig", "listed">>
ShipRules == {<<"permissions.allow", r, "listed">> : r \in {"gh ship", "ship.sh"}}
WithCarveOut(has) == {f \in has : ~(f[1] = "autoMode.allow" /\ f[2] = "shape")} \cup {CarveOut}
WithShipRules(has) ==
  IF Misshapen(has, "permissions.allow") THEN has ELSE has \cup ShipRules

(* _do_apply_harness_claude_code: the mode key obeys the policy; the rules  *)
(* are added under any, but not beside a mode the user keeps.               *)
ClaudeMode(a, d, policy) ==
  LET p       == d[a.file]
      has     == Held(p)
      now     == Keyed(has, "defaultMode")
      mine    == <<"defaultMode", a.mode>>
      kept    == now # {} /\ now # {mine} /\ policy = "skip"
      wrote   == now # {mine} /\ ~kept
      merged  == IF ~a.self_merge THEN has
                 ELSE IF kept THEN WithCarveOut(has) ELSE WithShipRules(WithCarveOut(has))
      final   == IF wrote THEN (merged \ now) \cup {mine} ELSE merged
      status  == IF ~wrote THEN "updated" ELSE IF now = {} THEN "created"
                 ELSE IF policy = "backup" THEN "backed_up" ELSE "updated"
  IN  IF Refusal(p, policy) # "none" THEN Unchanged(Refusal(p, policy))
      ELSE IF Misshapen(has, "permissions") THEN Unchanged("error")
      ELSE IF final = has THEN Unchanged("skipped")
      ELSE Result(status, Rewrite(d, a.file, final),
                  SavedOnLoad(d, a.file) \cup {c \in {a.file} : status = "backed_up"})

CheckClaudeMode(a, d) ==
  LET p   == d[a.file]
      has == Held(p)
      now == Keyed(has, "defaultMode")
  IN  CASE p.form = "absent"    -> {"missing"}
        [] p.form = "malformed" -> {"modified"}
        [] OTHER ->
             (IF now = {} THEN {"missing"} ELSE IF now = {<<"defaultMode", a.mode>>} THEN {} ELSE {"modified"})
             \cup (IF /\ a.self_merge /\ p.form = "file"
                      /\ \/ CarveOut \notin has
                         \/ now = {<<"defaultMode", a.mode>>} /\ WithShipRules(has) # has
                     THEN {"missing"} ELSE {})

-----------------------------------------------------------------------------
(* harness_mode_probe: what another harness's mode key holds, as far as     *)
(* this Python has a parser for the file.                                   *)
ModeProbe(a, d) ==
  LET p == d[a.file]
  IN  CASE ~a.parser -> "unverifiable"
        [] a.parser /\ p.form = "absent" -> "absent"
        [] a.parser /\ p.form = "malformed" -> "malformed"
        [] a.parser /\ (p.form = "nonobject" \/ Misshapen(Held(p), "section")) -> "shape"
        [] a.parser /\ p.form = "file" /\ ~Misshapen(p.has, "section") ->
             IF Misshapen(p.has, "mode") THEN "conflict"
             ELSE IF Keyed(p.has, "mode") = {} THEN "missing" ELSE "present"

(* _do_apply_harness_mode *)
HarnessMode(a, d, policy) ==
  LET state == ModeProbe(a, d)
      has   == Held(d[a.file])
      now   == Keyed(has, "mode")
      write == Rewrite(d, a.file, (has \ now) \cup {<<"mode", a.mode>>})
  IN  CASE state \in {"unverifiable", "malformed", "shape"} -> Unchanged("error")
        [] state = "conflict" -> Unchanged("skipped")
        [] state = "present" /\ (now = {<<"mode", a.mode>>} \/ policy = "skip") -> Unchanged("skipped")
        [] state = "absent" -> Result("created", write, {})
        [] state = "missing" \/ (state = "present" /\ now # {<<"mode", a.mode>>} /\ policy # "skip") ->
             IF policy = "backup" THEN Result("backed_up", write, {a.file})
             ELSE Result("updated", write, {})

(* _check_harness_mode *)
CheckHarnessMode(a, d) ==
  LET state == ModeProbe(a, d)
  IN  CASE state \in {"absent", "missing"} -> {"missing"}
        [] state \in {"unverifiable", "malformed", "shape", "conflict"} -> {"modified"}
        [] state = "present" -> IF Keyed(Held(d[a.file]), "mode") = {<<"mode", a.mode>>} THEN {} ELSE {"modified"}

-----------------------------------------------------------------------------
(* _merge_permission_container: entries are only ever added.  In an array   *)
(* (value "listed") an entry is there or not; in an object the user's value *)
(* for a key stands.  A container is [box, entries, value].                 *)
MergedContainer(has, c) ==
  has \cup {<<c.box, e, c.value>> : e \in {x \in c.entries : Entry(has, c.box, x) = {}}}

(* _do_provision_permissions: all containers of the harness, in one write;  *)
(* a container of the wrong type stops the action before it.  The entries   *)
(* of two containers with one box are disjoint.                             *)
Permissions(a, d, policy) ==
  LET p      == d[a.file]
      has    == Held(p)
      merged == UNION {MergedContainer(has, c) : c \in a.containers}
      saves  == p.form = "malformed" \/ (p.form = "file" /\ policy = "backup")
  IN  IF Refusal(p, policy) # "none" THEN Unchanged(Refusal(p, policy))
      ELSE IF \E c \in a.containers : Misshapen(has, c.box) \/ Misshapen(has, "permissions")
        THEN Unchanged("error")
      ELSE IF merged \subseteq has THEN Unchanged("skipped")
      ELSE Result(IF saves THEN "backed_up" ELSE IF p.form = "absent" THEN "created" ELSE "updated",
                  Rewrite(d, a.file, has \cup merged), {c \in {a.file} : saves})

(* _check_permissions: a wrong type alone, else each missing or overridden  *)
(* entry.  What the user added is known, never drift.                       *)
CheckPermissions(a, d) ==
  LET p   == d[a.file]
      has == Held(p)
      look(c, e) == IF Entry(has, c.box, e) = {} THEN {"missing"}
                    ELSE IF <<c.box, e, c.value>> \in has THEN {} ELSE {"modified"}
  IN  IF p.form = "absent" THEN {"missing"}
      ELSE IF \/ p.form # "file" \/ Misshapen(has, "permissions")
              \/ \E c \in a.containers : Misshapen(has, c.box)
        THEN {"modified"}
      ELSE UNION {UNION {look(c, e) : e \in c.entries} : c \in a.containers}
             \cup (IF \E c \in a.containers : c.value = "listed" /\ Entry(has, c.box, "junk") # {}
                     THEN {"modified"} ELSE {})

-----------------------------------------------------------------------------
(* _do_provision_execpolicy and _do_provision_instruction_policy with their *)
(* checks: one managed block in a text of the user's.                       *)
Execpolicy(a, d, policy)        == SpliceInto(d, a.file, "execpolicy", a.version, policy)
CheckExecpolicy(a, d)           == BlockDrift(d[a.file], "execpolicy", a.version)
InstructionPolicy(a, d, policy) == SpliceInto(d, a.file, "policy", a.version, policy)
CheckInstructionPolicy(a, d)    == BlockDrift(d[a.file], "policy", a.version)

(* _do_install_harness_guard: writing the guard, or finding it current,     *)
(* also clears the incompatibility marker beside it.                        *)
Guard(a) == Holding({<<"guard", a.version>>})
HarnessGuard(a, d, policy) ==
  LET p       == d[a.file]
      cleared == IF d[a.marker].form = "absent" THEN <<>> ELSE <<<<a.marker, Nothing>>>>
      write   == <<<<a.file, Guard(a)>>>> \o cleared
  IN  CASE p.form = "absent" -> Result("created", write, {})
        [] p.form # "absent" /\ p = Guard(a) -> Result("skipped", cleared, {})
        [] p.form # "absent" /\ p # Guard(a) ->
             IF policy = "skip" THEN Unchanged("skipped")
             ELSE IF policy = "backup" THEN Result("backed_up", write, {a.file})
             ELSE Result("updated", write, {})

CheckHarnessGuard(a, d) ==
  IF d[a.file].form = "absent" THEN {"missing"}
  ELSE {m \in {"modified"} : d[a.file] # Guard(a) \/ d[a.marker].form # "absent"}

=============================================================================
