---------------------------- MODULE HostServices ----------------------------
(***************************************************************************)
(* Handlers of riglib/actions/runner.py that keep something running on the  *)
(* machine: the model-checker schedule, the Spotlight sweep, the Telegram   *)
(* daemon, tmux with its boot and autosave agents, and the CLI tools; and   *)
(* their checks in riglib/drift.py.                                         *)
(*                                                                          *)
(* An agent's cell holds <<"agent", version>> for the plist it was loaded   *)
(* from, which need not be the plist on disk.  a.ctl is launchctl's cell:   *)
(* "broken" when loading fails.  a.dry is the handler's dry run, which a    *)
(* sandboxed HOME also turns on.                                            *)
(***************************************************************************)
EXTENDS ManagedFiles

Plist(a)  == Holding({<<"plist", a.version>>})
Agent(a)  == Holding({<<"agent", a.version>>})
Loaded(a, d) == d[a.agent].form # "absent"
Broken(d, cell) == d[cell].form = "broken"

(* launchctl unload and load: a load that fails leaves nothing loaded.      *)
Reload(a, d) == Result(IF Broken(d, a.ctl) THEN "error" ELSE "updated",
                       <<<<a.agent, IF Broken(d, a.ctl) THEN Nothing ELSE Agent(a)>>>>, {})

(* The plist the policy left alone although it differs.                     *)
Kept(d, cell, want, out) == d[cell].form # "absent" /\ d[cell] # want /\ out.writes = <<>>

-----------------------------------------------------------------------------
(* _provision_launchd: an identical plist whose label is loaded is done,    *)
(* whatever that agent was loaded from.                                     *)
Launchd(a, d, policy) ==
  LET out    == WriteFile(d, a.plist, Plist(a), policy)
      load   == Reload(a, d)
      status == IF load.status = "error" THEN "error"
                ELSE IF out.status = "skipped" THEN "updated" ELSE out.status
  IN  IF Kept(d, a.plist, Plist(a), out) \/ (d[a.plist] = Plist(a) /\ (a.dry \/ Loaded(a, d)))
        THEN Unchanged("skipped")
      ELSE IF a.dry THEN out
      ELSE Together(status, <<out, load>>)

(* _read_crontab, crontab_with_managed, _provision_crontab.  The crontab    *)
(* holds <<"sentinel">>, <<"cron", version>> and the user's lines; one that *)
(* cannot be read counts as empty, and what is then written replaces it.    *)
ReadCrontab(a, d) == IF Broken(d, a.crontab_list) THEN <<>> ELSE d[a.crontab].text
CrontabWithAppended(text, version) ==  \* mutant of CrontabWith: the stale line stays
  text \o <<<<"sentinel">>, <<"cron", version>>>>
CrontabWith(text, version) ==
  LET managed(i) == text[i] = <<"sentinel">>
      after(i)   == i > 1 /\ managed(i - 1)
      pair       == <<<<"sentinel">>, <<"cron", version>>>>
  IN  IF ~\E i \in DOMAIN text : managed(i) THEN text \o pair
      ELSE FlattenSeq([i \in DOMAIN text |->
             IF managed(i) THEN pair ELSE IF after(i) THEN <<>> ELSE <<text[i]>>])
CrontabDue(text, version) ==
  \/ ~\E i \in DOMAIN text : text[i] = <<"sentinel">>
  \/ \E i \in DOMAIN text : text[i] = <<"sentinel">> /\ (i = Len(text) \/ text[i + 1] # <<"cron", version>>)
Crontab(a, d, policy) ==
  LET text == ReadCrontab(a, d)
  IN  IF ~CrontabDue(text, a.version) THEN Unchanged("skipped")
      ELSE IF a.dry THEN Unchanged("created")
      ELSE IF Broken(d, a.crontab_write) THEN Unchanged("error")
      ELSE Result("created", <<<<a.crontab, Text(CrontabWith(text, a.version))>>>>, {})

(* _do_provision_schedule and _check_schedule                               *)
Schedule(a, d, policy) == IF a.platform = "launchd" THEN Launchd(a, d, policy) ELSE Crontab(a, d, policy)
CheckPlistOnly(a, d) == Differs(d[a.plist], Plist(a))  \* mutant of CheckLaunchd
CheckLaunchd(a, d) ==
  CASE d[a.plist].form = "absent" -> {"missing"}
    [] d[a.plist].form # "absent" /\ d[a.plist] # Plist(a) -> {"modified"}
    [] d[a.plist] = Plist(a) -> {m \in {"missing"} : ~a.dry /\ ~Loaded(a, d)}
CheckSchedule(a, d) ==
  IF a.platform = "launchd" THEN CheckLaunchd(a, d)
  ELSE LET text == ReadCrontab(a, d)
       IN  IF a.dry THEN {}
           ELSE IF ~\E i \in DOMAIN text : text[i] = <<"sentinel">> THEN {"missing"}
           ELSE {m \in {"modified"} : CrontabDue(text, a.version)}

-----------------------------------------------------------------------------
(* spotlight.perform_sweep: a sentinel in each dependency directory that    *)
(* lacks one; a.dirs are cells, each a directory or absent.                 *)
Uncovered(a, d) == {c \in a.dirs : d[c].form = "dir" /\ <<"sentinel">> \notin d[c].has}
Sweep(a, d) ==
  LET due == SetToSeq(Uncovered(a, d))
  IN  Result(IF due = <<>> THEN "skipped" ELSE "created",
             [i \in DOMAIN due |-> <<due[i], [d[due[i]] EXCEPT !.has = @ \cup {<<"sentinel">>}]>>], {})

(* _do_provision_spotlight: the sweep, then the agent that repeats it.      *)
Spotlight(a, d, policy) ==
  LET sweep == Sweep(a, d)
      out   == WriteFile(d, a.plist, Plist(a), policy)
      load  == Reload(a, d)
  IN  IF ~a.darwin \/ (d[a.plist] = Plist(a) /\ (a.dry \/ Loaded(a, d))) THEN sweep
      ELSE IF Kept(d, a.plist, Plist(a), out) THEN [sweep EXCEPT !.status = "skipped"]
      ELSE IF a.dry THEN Together("created", <<sweep, out>>)
      ELSE Together(IF load.status = "error" THEN "error" ELSE "created", <<sweep, out, load>>)

CheckSpotlight(a, d) ==
  {m \in {"missing"} : Uncovered(a, d) # {}}
    \cup (IF ~a.darwin THEN {} ELSE IF d[a.plist].form = "absent" THEN {"missing"}
          ELSE {m \in {"modified"} : d[a.plist] # Plist(a)}
                 \cup {m \in {"missing"} : ~a.dry /\ ~Loaded(a, d)})

-----------------------------------------------------------------------------
(* _tg_ctl_teardown_stale: the predecessor's agent, booted out, backed up   *)
(* and removed.                                                             *)
StaleDaemon(a, d) ==
  IF d[a.stale].form # "file" \/ a.dry THEN Unchanged("skipped")
  ELSE Result("backed_up", <<<<a.stale_agent, Nothing>>, <<a.stale, Nothing>>>>, {a.stale})

(* _do_provision_tg_ctl                                                     *)
TgCtl(a, d, policy) ==
  LET stale   == StaleDaemon(a, d)
      out     == WriteFile(d, a.plist, Plist(a), policy)
      load    == Reload(a, d)
      changed == stale.writes # <<>> \/ out.writes # <<>>
      due     == changed \/ ~Loaded(a, d)
      parts   == <<stale, out>> \o (IF due /\ ~a.dry THEN <<load>> ELSE <<>>)
      backup  == stale.saved \cup out.saved # {}
      status  == IF due /\ ~a.dry /\ load.status = "error" THEN "error"
                 ELSE IF backup THEN "backed_up"
                 ELSE IF changed \/ (due /\ ~a.dry) THEN "created" ELSE "skipped"
  IN  IF ~a.darwin THEN Unchanged("skipped")
      ELSE IF ~a.boot \/ Kept(d, a.plist, Plist(a), out) THEN stale
      ELSE Together(status, parts)

CheckTgCtl(a, d) ==
  IF ~a.darwin THEN {}
  ELSE {m \in {"extra"} : d[a.stale].form = "file"}
       \cup (IF a.boot THEN CheckLaunchd(a, d) ELSE {m \in {"extra"} : d[a.plist].form = "file"})

-----------------------------------------------------------------------------
(* _provision_one_tool, _maybe_deploy_tool: deploy.sh runs on every apply,  *)
(* install.sh when the binary or its skill blurb is missing.  A tool's cell *)
(* holds <<"repo">>, <<"bin">>, <<"blurb">> and <<"install">>, what its     *)
(* install.sh manages to put in place.                                      *)
Installed(d, t) == {<<"bin">>, <<"blurb">>} \subseteq d[t].has
OneTool(a, d, t) ==
  IF <<"repo">> \notin d[t].has THEN Unchanged("error")
  ELSE IF Installed(d, t) THEN Unchanged("skipped")
  ELSE IF a.dry THEN Unchanged("installed")
  ELSE IF <<"broken">> \in d[t].has THEN Unchanged("error")
  ELSE Result("installed", <<<<t, [d[t] EXCEPT !.has = @ \cup {<<"bin">>, <<"blurb">>}]>>>>, {})

(* _do_provision_tools, _tools_result *)
Tools(a, d, policy) ==
  LET outs     == [i \in DOMAIN a.tools |-> OneTool(a, d, a.tools[i])]
      statuses == StatusesOf(outs)
  IN  Together(IF "error" \in statuses THEN "error"
               ELSE IF "installed" \in statuses THEN "created" ELSE "skipped", outs)

CheckTools(a, d) ==
  UNION {IF <<"bin">> \notin d[t].has THEN {"missing"}
         ELSE {m \in {"modified"} : <<"blurb">> \notin d[t].has} : t \in Range(a.tools)}

=============================================================================
