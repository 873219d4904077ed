----------------------------- MODULE TmuxHandler -----------------------------
(***************************************************************************)
(* provision_tmux: riglib/tmux.py, _do_provision_tmux and _tmux_activate of *)
(* riglib/actions/runner.py, and _check_tmux of riglib/drift.py.            *)
(*                                                                          *)
(* Lines of the user's tmux.conf: <<"user", n>>; <<"inline", n, "user">>, a *)
(* setting rig now generates, <<"retired", n, "user">> once commented out;  *)
(* <<"import", dir>>; and rig's block, in which nothing is looked at.       *)
(***************************************************************************)
EXTENDS HostServices

(* _strip_managed_block, _iter_scoped_lines: from a begin to the next end.  *)
InBlock(text, i) ==
  \E b \in Markers(text, "begin", "tmux") :
    b <= i /\ ~\E e \in Markers(text, "end", "tmux") : b < e /\ e < i

(* has_inline_rig_settings, neutralize_inline_rig_lines                     *)
Inline(text, i) == text[i][1] = "inline" /\ ~InBlock(text, i)
HasInline(text) == \E i \in DOMAIN text : Inline(text, i)
Neutralized(text) ==
  [i \in DOMAIN text |-> IF Inline(text, i) THEN <<"retired", text[i][2], "user">> ELSE text[i]]

(* splice_managed_block: between the first begin and the first end, when    *)
(* they come in that order; else one more block at the end.                 *)
TmuxBlock(text, version) ==
  LET first(kind) == Min(Markers(text, kind, "tmux"))
  IN  IF /\ Markers(text, "begin", "tmux") # {} /\ Markers(text, "end", "tmux") # {}
         /\ first("begin") < first("end")
        THEN SubSeq(text, 1, first("begin") - 1) \o Block("tmux", version)
               \o SubSeq(text, first("end") + 1, Len(text))
      ELSE text \o Block("tmux", version)

(* _tmux_conf_with_managed: in import mode rig's import is the last line    *)
(* and the only one.                                                        *)
TmuxConf(a, text) ==
  IF a.mode = "block" THEN TmuxBlock(Neutralized(text), a.version)
  ELSE Append(SelectSeq(Neutralized(text), LAMBDA l : l[1] # "import"), <<"import", a.dir>>)

-----------------------------------------------------------------------------
(* An agent of launchd: loaded when it is not, reloaded when this apply     *)
(* wrote its plist, left alone when a conflict made loading unsafe.         *)
TmuxAgent(a, d, agent, safe, rewritten) ==
  LET fails == Broken(d, a.ctl)
      put   == <<<<agent, Agent(a)>>>>
  IN  IF ~safe \/ (d[agent].form # "absent" /\ ~rewritten) THEN Unchanged("skipped")
      ELSE IF ~fails THEN Result("created", put, {})
      ELSE IF d[agent].form = "absent" THEN Unchanged("skipped")
      ELSE Result("skipped", <<<<agent, Nothing>>>>, {})

(* A missing plugin is cloned, over whatever half of it is there.           *)
TmuxPlugin(a, d, p) ==
  IF <<"entry">> \in d[p].has THEN Unchanged("skipped")
  ELSE IF Broken(d, a.net)
    THEN Result("skipped", IF d[p].form = "absent" THEN <<>> ELSE <<<<p, Nothing>>>>, {})
  ELSE Result("created", <<<<p, Path("dir", {<<"entry">>}, <<>>)>>>>, {})

(* _tmux_activate: directory, plugins, boot agent, autosave agent, the old  *)
(* continuum agent when rig's own is up, the first snapshot.  What fails is *)
(* a warning and never an error.                                            *)
TmuxActivate(a, d, safeBoot, bootRewritten, safeSave, saveRewritten) ==
  LET dir     == IF d[a.resurrect].form = "dir" THEN Unchanged("skipped")
                 ELSE Result("created", <<<<a.resurrect, Path("dir", {}, <<>>)>>>>, {})
      plugins == [i \in DOMAIN a.plugins |-> TmuxPlugin(a, d, a.plugins[i])]
      boot    == IF a.boot THEN TmuxAgent(a, d, a.boot_agent, safeBoot, bootRewritten) ELSE Unchanged("skipped")
      save    == IF a.autosave THEN TmuxAgent(a, d, a.save_agent, safeSave, saveRewritten)
                 ELSE Unchanged("skipped")
      active  == /\ a.boot /\ safeBoot
                 /\ boot.status = "created" \/ (Loaded([agent |-> a.boot_agent], d) /\ ~bootRewritten)
      stale   == IF active /\ d[a.continuum].form # "absent"
                   THEN Result("created", <<<<a.continuum, Nothing>>>>, {}) ELSE Unchanged("skipped")
      script  == <<"entry">> \in d[a.plugins[1]].has \/ ~Broken(d, a.net)
      shot    == IF d[a.snapshot].form = "absent" /\ d[a.server].form = "file" /\ script
                   THEN Result("created", <<<<a.snapshot, Holding({<<"snapshot">>})>>>>, {})
                 ELSE Unchanged("skipped")
  IN  IF a.dry THEN Unchanged("skipped") ELSE InTurn(<<dir>> \o plugins \o <<boot, save, stale, shot>>)

(* _do_provision_tmux: rig.tmux.conf, the scripts, the two plists, the      *)
(* user's tmux.conf (copied to a new backup whenever it has inline          *)
(* settings, under every policy), activation.                               *)
TmuxFile(d, cell, want, policy, script) ==
  IF script THEN LET out == WriteScript(d, cell, want, policy)
                 IN  [out EXCEPT !.status = IF out.writes # <<>> /\ @ = "skipped" THEN "created" ELSE @]
  ELSE WriteFile(d, cell, want, policy)
Tmux(a, d, policy) ==
  LET text(v)   == Holding({<<"text", v>>})
      conf      == TmuxFile(d, a.rig_conf, text(a.version), policy, FALSE)
      bootSh    == TmuxFile(d, a.boot_script, text(a.version), policy, TRUE)
      saveSh    == TmuxFile(d, a.save_script, text(a.version), policy, TRUE)
      bootPl    == IF a.boot THEN WriteFile(d, a.boot_plist, Plist(a), policy) ELSE Unchanged("skipped")
      savePl    == IF a.autosave THEN WriteFile(d, a.save_plist, Plist(a), policy) ELSE Unchanged("skipped")
      user      == d[a.conf].text
      copied    == IF HasInline(user) THEN Result("backed_up", <<>>, {a.conf}) ELSE Unchanged("skipped")
      differs   == TmuxConf(a, user) # user
      unwired   == differs /\ policy = "skip" /\ user # <<>>
      wire      == IF differs /\ ~unwired
                     THEN Result("created", <<<<a.conf, Text(TmuxConf(a, user))>>>>, {})
                   ELSE Unchanged("skipped")
      left(cell, want, out) == out.writes = <<>> /\ Plain(d[cell]) # Plain(want)
      act == TmuxActivate(a, d,
               ~(\/ unwired \/ left(a.boot_plist, Plist(a), bootPl)
                 \/ left(a.boot_script, text(a.version), bootSh)), bootPl.writes # <<>>,
               ~(\/ left(a.rig_conf, text(a.version), conf) \/ left(a.save_plist, Plist(a), savePl)
                 \/ left(a.save_script, text(a.version), saveSh)), savePl.writes # <<>>)
  IN  InTurn(<<conf, bootSh, saveSh, bootPl, savePl, copied, wire, act>>)

-----------------------------------------------------------------------------
(* _check_tmux: the agents are not looked at.                               *)
CheckTmuxConf(a, d) ==
  LET text == d[a.conf].text
      code == SelectSeq(text, LAMBDA l : l[1] # "retired")
      b    == Markers(text, "begin", "tmux")
      e    == Markers(text, "end", "tmux")
  IN  IF a.mode = "block"
        THEN IF b = {} \/ e = {} THEN {"missing"}
             ELSE IF /\ Min(b) < Min(e)
                     /\ SubSeq(text, Min(b), Min(e)) = Block("tmux", a.version)
               THEN {} ELSE {"modified"}
      ELSE IF <<"import", a.dir>> \notin Range(text) THEN {"missing"}
      ELSE {m \in {"modified"} : \/ \E l \in Range(text) : l[1] = "import" /\ l # <<"import", a.dir>>
                                 \/ Last(code) # <<"import", a.dir>>}

CheckTmux(a, d) ==
  LET want == Holding({<<"text", a.version>>})
      script(c) == Differs(d[c], want)
                     \cup {m \in {"modified"} : d[c].form = "file" /\ <<"x">> \notin d[c].has}
      plist(on, c) == IF on THEN Differs(d[c], Plist(a)) ELSE {m \in {"extra"} : d[c].form = "file"}
  IN  Differs(d[a.rig_conf], want) \cup script(a.boot_script) \cup script(a.save_script)
        \cup plist(a.boot, a.boot_plist) \cup plist(a.autosave, a.save_plist)
        \cup CheckTmuxConf(a, d)
        \cup {m \in {"missing"} : ~a.dry /\ \/ d[a.resurrect].form # "dir"
                                             \/ \E p \in Range(a.plugins) : <<"entry">> \notin d[p].has}

=============================================================================
