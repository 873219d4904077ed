# Verification of rig-cli

TLA+ modules, TLC configurations and TLAPS proofs kept beside rig
(`src/riglib`), the tool that reads a declared configuration, builds a plan of
actions from it and applies that plan to a developer machine: it copies skills,
links them into harnesses, merges settings, opens a web console, reports merged
pull requests and clears away finished git worktrees.

The files:

| File | Content |
|---|---|
| `<Component>.tla` | one component: state, one action per step of the code, properties |
| `<Part>Handlers.tla` and others without state | handlers and checks as functions of the disk, used by `Reconcile` |
| `MC<Component>.tla`, `.cfg` | a small instance of it for TLC |
| `<Component>Proofs.tla` | theorems about it for every value of its constants |
| `PROJECT.json` | components, runs, mutants, the map from definitions to source lines, hazards, findings, theorems |

Run `tlc -config MCApplyJobs.cfg MCApplyJobs` and `tlapm ApplyJobsProofs.tla`
in this directory, and likewise for the others. Operators whose comment says
"mutant" are variants of a definition with a plausible bug in it. No
specification uses them: each property of the passing runs is
accompanied in `PROJECT.json` by the mutant that breaks it.

## 1. Inventory

rig has no daemon that owns its state. Everything it keeps is files: two layers
of YAML configuration, what it installed, backups, receipts, watermarks, a
registry of repositories. Any number of `rig` processes, web consoles, scheduled
runs, agents and the user read and write them at the same time, nearly always
without a lock. So the hard questions are the same in most components: what a
read-modify-write loses, what a crash between two writes leaves, what was
checked and is stale when it is used.

| Component (sources under `src/riglib`) | State it keeps | Operations | Talks to |
|---|---|---|---|
| **config-web apply jobs** (`config_web_plan.py`, request handlers of `config_web.py`) | in memory: jobs by id, their order, the active one; per job a plan, rows, error, done | preview, start, poll, evict; a background thread per job | plan builder, apply engine through callbacks, the browser |
| **Config editing** (`config_web.py` `apply_edit`, `cli.py` `config set`, `config.py`) | `~/.config/rig/config.yaml`, `./rig.yaml` | read, set one key, write, validate, roll back | plan builder (the gate), every other process that edits a layer |
| **Apply engine and file actions** (`actions/runner.py` `run_plan`, `actions/fsutil.py`) | targets on disk, links, `.rig-bak-*` backups | write a file, copy a tree, link a skill, under `on_conflict` | user, other applies |
| **Harness approval** (`actions/runner.py`, `permissions.py`) | the config of a harness, a receipt beside it | adopt, install, converge, refuse, record the restore point | guard belt, user |
| **Daily report** (`daily/`) | `daily-state.json`: one watermark per repository | load, fetch a page per repository, print, save | `gh` |
| **Worktrees** (`worktree_gc.py`, `worktree.py`, `core_bare.py`) | git's own: worktrees, branches | list, classify, recheck, remove; create, remove; repair | git, `gh`, pgrep/lsof, agents at work |
| **Settings, hooks, MCP and instruction handlers** (`actions/runner.py`, `managed_config.py`) | keys and marked blocks in other programs' files | about thirty merge handlers | those programs, the user |
| **Plan builder** (`plan.py`, `catalog.py`, `stack.py`) | none, pure | resolve a config against the catalog into an ordered list of actions | all of the above |
| **Config schema** (`config.py`, `config_schema.py`, `layers.py`) | none, pure | validate, merge layers, set a path | |
| **Drift** (`drift.py`; `doctor.py`, `verify.py` only read as well) | none, reads disk | compare the plan with the disk | handlers |
| **Codex update** (`codex_update.py`) | a backup of the installed Codex | probe, copy, update, probe, restore | the update command, a second updater |
| Registry and fleet (`repository_registry.py`, `fleet*.py`) | `repositories.json` | register, prune, pass over all repositories | applies in each repository |
| **tmux, schedules, services** (`tmux.py`, `schedule.py`, ...) | service files, agents, a marked block of tmux.conf | install, load, repair | launchd, cron, tmux |
| **GitHub reconcile** (`github_*.py`) | settings of a repository at GitHub | read, compare, write | `gh` |
| Permissions, harness modes, linters | none, pure translation tables | | |
| Wizard, TUI, evolve, stats, CLI | front-ends and read-only views | | |

`PROJECT.json` lists each with its status. The hard behaviours, and what makes
each modelled component correct:

* **Apply jobs.** Requests are served one at a time, but the apply runs in its
  own thread while the config keeps changing and the browser keeps polling.
  Correct means: one apply at a time, the one in flight is never evicted,
  nothing runs that the user did not approve, a reported success is a success,
  and every accepted apply ends.
* **Config editing.** The console writes a layer first and validates it
  afterwards, `rig config set` validates first and writes afterwards; both write
  back a whole file they read earlier. Correct means: when the dust settles the
  config can be reconciled, and the answer to an edit says what is on disk:
  accepted, its own key is changed (and a left-over `scope` gone); refused, nothing
  is; and an edit that could not be taken back is reported as such.
* **File actions.** Each action is several system calls; the apply may die
  between any two. Correct means: what the user wrote is never lost unless the
  config says overwrite, a run without an error leaves what was declared, and
  running again does nothing.
* **Harness approval.** The config and the receipt that says who wrote it are
  two files. Correct means: rig never takes its own value for the user's, and
  the file it offers to restore is one it never wrote.
* **Daily report.** A watermark must not pass a pull request that nobody
  printed, over failed fetches, pages that are cut off, overlapping runs and
  crashes.
* **Worktree gc.** Everything it decides on is read minutes before it acts.
  Correct means: no commit and no uncommitted change is lost, no worktree in
  use is removed, the report is true.
* **Handlers and drift.** Thirty handlers merge into files that the user, other
  programs and one another change, and thirty checks judge the result. Correct
  means: nothing of the user's goes, an apply converges, applying again is idle,
  and `rig status` neither calls a machine clean that an apply would change nor
  overlooks what was switched off.
* **Plan builder and schema.** A pure function, but of sixty knobs in two layers
  with defaults derived from one another. Correct means: what is accepted can be
  built, what an action refers to is in the plan, no two actions own one path, a
  repository's opt-out holds, an edit moves only what depends on it.
* **Codex update.** A foreign command rewrites an installation for minutes while
  rig can die or lose patience. Correct means: a copy that works survives, the
  answer is true, and putting back breaks nothing that works.

## 2. The modules

### ApplyJobs

`job[j]` is the `ApplyJob` object with the locals of its thread (`todo`, the
positions still to dispatch), `thread[j]` the place in the thread's body, and
`jobs`, `order`, `active` are `_jobs`, `_job_order`, `_active_job_id`. `poll` is
the status request being answered; it reads `done`, `error` and the rows in three
separate steps while the thread writes them. `config` is what a load of the
layers would return now: `EditConfig` changes it at any moment. A plan is a list
of actions with key and options, so that "same keys, different options" is a
different plan; `Fingerprint` is injective on what the code hashes.

| Action | Code |
|---|---|
| `Preview` | `handle_plan_preview` |
| `Start` | `handle_apply` with `ApplyJobStore.start`, `_evict_if_over_capacity` and the spawn |
| `PollDone`, `PollError`, `PollRows`, `PollSend` | `handle_apply_status` |
| `OnStart`, `Dispatch` | one turn of `run_plan`'s loop with the job's callbacks |
| `RunPlanReturns`, `RunPlanRaises`, `ReportErrors`, `Finish` | the `try`/`except`/`finally` of the thread |
| `Restart` | the server process ends and is started again |

### ConfigEdit

Two layers as partial functions from keys to values, or absent, or garbled.
`Conflicts` are the combinations the plan builder rejects, `Scope` is the removed
key `scope`, which both editors drop from what they read (`DropScope`) and so from
the file they write. Each actor runs `apply_edit` (a console: read, capture,
truncate, write, gate, roll back) or `_cmd_config_set` (plan in memory, capture,
truncate, write, roll back). `write_text` is two steps, `Truncate` and `Write`,
because a truncated YAML file is a valid, empty config to every reader; when
somebody else wrote in between, `Fill` offers every result the file offsets can
produce.

Each file operation may fail, up to `MaxFailures`: the open, and the console's gate
when it reads the layers back (`OpenFails`); the write, which leaves any part of the
text (`WriteFails`, `Cut`); and the rollback itself, at its unlink or its open
(`RollbackFails`, the refused edit stays) or at its write (`RestoreFails`, a part of
the old text stays). The last two end at `unrestored`, where the command line warns
that the file "may contain the rejected edit" and the console's answer is the
`OSError`. `failures` counts; `overlap`, `touched`, `alone` and `stuck` (a rollback
failed) are history.

An edit overlaps when it writes a file that another has half-written, reads one
that another has not validated yet (`ReadsUnsettled`), or changes the layer that
another's plan or restore point takes for granted (`Relies`): with conflicts
between keys of one layer alone, the first two would not be all that can go wrong.

### FileActions

`target`, `link` and `backup` are the disk. One action per file system call:
the comparison, the move to a backup name, the removal, the creation, the
filling, the unlink, the symlink. `Crash` and `HandlerRaises` are possible at
each of them, `RunPlan` starts a run in the same second or the next one, with
new contents and a new policy, and the user changes files and links between runs.
`BackupName` is `backup_path` with its stamp and its `.1`, `.2` suffixes.

### HarnessApproval

One managed key. `config` says besides the value who set it and whether rig ever
wrote the file, `receipt` is the parsed receipt, `Torn`, or no file. The handler
is `Begin`, one action for each early return, `Adopt`, and for an installation
the four steps `OpenConfig`, `WriteConfig`, `OpenReceipt`, `WriteReceipt`.
`Merged` and `RestorePoint` are `_receipt_entries` and `_restore_point`.

### DailyWatermarks

`clock` in seconds, `mergedAt` the pull requests at GitHub, `watermark` the state
file, `run[r]` the locals of a process. `Begin` loads all watermarks, `Fetch` one
page per repository in any order, with any subset of malformed records,
`FetchFails` is any `GhError`, `Report` prints, `Save` replaces the file with the
*loaded* map overlaid with the new cursors. `Crash` is possible anywhere. `from`
is history: a repository's watermark stands for the stretch of time from there, the
lookback of the first run of those that led to it. `AgedPagesAreWhole` is what the
code takes for granted of full pages.

### WorktreeGc

A commit is the instant it was made, a tip the set of commits it reaches beyond
the trunk, so reachability is containment. The run is `List`, `Snapshot` (process
liveness and pull requests, once for the whole run; `gh` may fail), `Classify`
per worktree, then `Recheck`, `RemoveTree` and `DeleteBranch` per planned entry,
each of which may fail or half-fail, and `Report` or `Interrupted`. Everyone else
commits, checks out, pushes, prunes, merges or closes pull requests, edits files,
enters and leaves, locks, and deletes directories between any two of these.
`work` is every commit that nobody but gc could have dropped.

### ApplyService

The abstract specification of the interactive apply: what a tab is shown is
offered, an apply does a part of an offer, effect by effect in that order, each
at most once, never two applies at a time, and it may be said to have succeeded
only when everything was done without an error. There are no requests, threads,
callbacks, rows or evictions in it. `ApplyJobs!ImplementsService` maps `offered`
to the previews, `current` to the job whose thread is alive, `left` to the effects
its thread has not dispatched, `failed` to errors in the report or the thread, and
`outcome` to what `error` and `done` say. `Offer`, `Begin`, `Do`, `End` and `Die`
are what `Preview`, `Start`, `Dispatch`, `Finish` and `Restart` look like from
there; every other step of the code is a stutter.

### Reconcile and the handlers

`Reconcile` is `run_plan` and `drift.detect` over handlers that are functions:
each takes its action, the disk and `on_conflict` and returns the status, the
writes in order and what it backed up before them. The handlers and the checks of
one area share a module:

| Module | Handlers and checks |
|---|---|
| `ManagedFiles` | `fsutil.write_file`, the exec bit, the splice of marked blocks |
| `CatalogHandlers` | skills, agent hooks, the git-hook dispatcher, CI workflows |
| `SettingsHandlers` | MCP servers, harness modes, permissions, execpolicy, guard, instructions |
| `HookBridges` | the bridges of four formats (JSON, TOML, plugin, wrapper) |
| `RepositoryHandlers` | AGENTS.md, ship delegator, `gh ship`, environment, global excludes, linters |
| `HostServices` | schedules by launchd and cron, Spotlight, tg-ctl, CLI tools |
| `TmuxHandler` | `provision_tmux` |
| `GitHubHandlers` | ruleset, merge, security, Actions, browser, project tools |

A cell of the disk holds a form, a set of facts and the sequence of its lines; a
fact or a line with "user" in it is the user's. `Handle` is one turn of the loop,
`Raise(n)` and `Die(n)` let the handler get through `n` writes and then raise, or
take the process with it; `Change` is anybody else putting something into a cell
between two actions or two runs, `Switch` the config switching an action off or on.
`Check` and `SwitchedOff` are `drift.detect` and its extras and disabled checks.

### ConfigSchema, ConfigRules, PlanBuilder

`ConfigSchema` is the registry `config_schema.py` with the types the published
schema gives, and the merge of layers; `ConfigRules` the validator, written by hand
in `config.py`, block by block. A config is the function from the paths of its
leaves to typed values, so that null, a wrong type and an absent key are three
things. `PlanBuilder` is `plan.build`: `Build` strings together what the code's
`_build_*` functions append, with the options some handler or other action reads.
Its state is the two layers, the world the builder looks at (catalog, shipped
carriers, installed packages, project type, `RIG_CODEX_HOME`, ...) and the plan;
an edit of a layer or a change of the world is a step, after which rig plans anew.

### CodexUpdate

`disk` maps the names Codex is reached by to nothing, a link or a file, `backups`
is the backup directory, `upd[p]` the place and the locals of `safe_update` in
process `p`. `Begin`, `ProbePasses`, `ProbeFails` are the three rounds of
`probe_codex`; `CopyBegins`, `CopyEnds`, `ReadChain` the snapshot, any of which may
fail; `Launch`, `CommandExits`, `TimesOut` are `run_bounded`; `Replace` is one
`os.replace` of a rollback. `CommandChanges` is the update command, which lives in
a session of its own: it may write at any time from its start on, after an exit
and after the kill as well (a process that left the group), and when the updater
is dead. A working binary may fail a probe by being slow; a broken one never
passes. `disturbed` marks an update during which somebody else wrote.

### How they compose

`ApplyJobs` runs plans through the engine: a `Dispatch` is one entry of a plan,
its result the status the callback receives. `Reconcile` composes the handlers'
modules over one disk, handler by handler and write by write; `FileActions` and
`HarnessApproval` refine three of its handlers call by call, down to half-written
files. `PlanBuilder` reads configs with `ConfigRules` and `ConfigSchema`, and makes
the plans whose actions `Reconcile` runs. `ConfigEdit` is where `EditConfig` of
`ApplyJobs` and the edits of `PlanBuilder` come from. Each module leaves the others'
behaviour unconstrained where it reads it: `ApplyJobs` lets the config change to
anything at any moment, `Reconcile` the catalog and every file.

## 3. The runs

| Run | Question | Result |
|---|---|---|
| `apply_jobs` | one apply at a time, never evicted, only what was approved, no false success | holds |
| `apply_ends` | does the store implement the abstract service; is every accepted apply reported done | holds, the second under `FairSpec` |
| `config_edit` | can edits leave an unreconcilable config; is an undisturbed edit exact | the first holds as long as no two edits overlap on a half-written or unvalidated file and no rollback fails, the second always |
| `config_edit_two_consoles` | the docstring's "never leaves a written-but-unreconcilable config", two consoles | violated |
| `file_actions` | user content, backups, convergence, idempotence, with crashes | holds |
| `approval` | whose value is it, and what is the restore point | holds unless an apply dies between its two writes |
| `approval_crash` | the docstring's "instead of mistaking rig's own prior write for a user-set value", with a crash | violated |
| `daily` | is a pull request lost behind a watermark, is one repeated | holds with no more pull requests than a page |
| `worktree_gc` | commits, edits, users, the report | holds |
| `reconcile` | the user's content, convergence, idempotence, the truth of `rig status`, with crashes and raising handlers | holds with the exceptions below |
| `plan` | acceptance, references, ownership, opt-outs, locality of edits | holds with the exceptions below |
| `codex_update` | a working copy, the answer, the rollback, with crashes, hangs and two updaters | holds unless two backups take one name |

### Bounds, and why they are enough

* `apply_jobs`: two job ids, one tab, a store that retains **one** job, so that
  the second start evicts; two keys; four configs that differ in options, in the
  policy, in length and in whether a layer exists, each the smallest difference
  of its kind. A second tab would only post a fingerprint the first one can post.
  Ids are symmetric.
* `config_edit`: one console with its Global tab and one command line, three
  keys on two layers, three edits, two failures, initial layers with and without a
  `scope`. Three edits are the fewest in which two edits in turn set up the layers
  for a third, or one that overlaps is followed by another; two of the keys form
  the conflict, the third is the other layer's. Two failures are the fewest with
  which a write and the rollback it causes both fail. Two actors of one kind meet
  in `config_edit_two_consoles` and, for any number of them, in the proofs.
* `file_actions`: two runs and one user change over three actions: crash and
  retry, a same-second second backup, a change in between. Every step of a run is
  a function of what is on disk, so a third run finds no state that the second
  could not, except a third backup name in one second; `BackupName` takes the
  first free suffix whatever their number.
* `approval`: four applies and three user changes, which is install, edit,
  adopt, converge and once more; three modes so that a value can be neither the
  wanted nor the installed one.
* `daily`: three runs of two processes, two repositories, two pull requests,
  pages of two, a lookback of a second: one merge is before the first window and
  one in it. A full page still happens, and is then incomplete.
* `worktree_gc`: two worktrees over 48 initial repositories whose branches share
  a commit, any two changes, one gc run. Two changes are the fewest with which the
  listed and the present HEAD, branch and directory all differ.

* `reconcile`: some fifty scenarios, each a plan of one to five actions that
  share files, with a world: for every cell the forms, contents and markers its
  handler tells apart. Two runs and two changes by others (or switches) are the
  fewest in which an apply meets what another left half done or somebody changed
  behind it. No handler makes more than six writes, so `n` up to 5 cuts each of
  them at every place.
* `plan`: three repositories (an empty one, a team's with every harness, a web
  application's) under one machine's config, and every pair of nearly 150 edits
  and changes of the world. Two are the fewest in which one block's edit meets
  another's; a property that needs three knobs starts from a repository that has
  the others set.
* `codex_update`: two updaters, four names, three kinds of installation, any two
  changes by their commands, two rounds of seconds for the backups' names, and two
  steps per probe round, the first of which reads the version.

### Exceptions a property names

* `SetOutright`: a link, a git or `gh` setting, a setting on GitHub and a list of
  the wrong type are set under every policy. `Retired`: the predecessor's agent is
  backed up and removed even under `skip`.
* `TakenForRigs`: lines the code takes for its own and may be the user's (points
  5 to 7 of section 4): in a tmux text all from a BEGIN to the next END, in a crontab
  the line after the sentinel, and all of a crontab that cannot be listed. The
  scenarios contain each of the three. Nothing but these lines may go.
* `Doubled`: the run after a tmux block has lost its END marker adds a second block;
  only the one after that joins the two.
* `LeftOpen`: what a run may leave drifted without an error: a conflict only a
  human can settle, what GitHub or the subscription forbids, a dry run.
* `Unwatched`: cells a handler writes and its check does not look at.
* `SharedLeaf`, `InsideBundle`: two skills whose directories have one name are
  copied over one another (`plan.py:717`), and a linter item may lie inside a
  plugin's bundle.
* `clash`: two backups of one version in one second have one name.

Deadlock is checked in the two runs of `ApplyJobs`, which never stops. In the
others the bounded counters end the behaviour, which is why their configurations
switch the check off.

### Fairness

Only `FairSpec` of `ApplyJobs` has any: weak fairness of each apply thread, which
is the interpreter's and the operating system's scheduling of a runnable thread.
It does say that a handler does not block for ever; the docstring of
`ApplyJobStore` excludes this in the same way, as a known limitation. Nothing is
assumed of users, tabs or restarts. All other properties are safety properties
and need no fairness: the other components are commands that end, or do not, with
the process.

## 4. Where the code and its documentation disagree

Shown by a run:

1. **Two consoles, one global layer** (`config_web.py:382`). An edit's restore
   point is whatever the file holds when it starts, which can be another console's
   text before its gate; the rollback then puts the rejected text back. The same
   happens to a `rig config set` whose write fails; `BrokenOnlyByOverlapOrFailedRollback`
   excuses both as an overlap and states what is true without one.
2. **Death between config and receipt** (`actions/runner.py:1973`). The next
   apply with another intent finds rig's value, finds no receipt for it, and
   leaves it alone as the user's.

Met while modelling, and kept out of the properties by a bound or a named exception:

3. **A full page** (`daily/github.py:133`). Whether a page at its limit is
   complete is decided by when its oldest-*created* entry was *merged*. A pull
   request created earlier and merged within the window is not on the page, and
   the watermark passes it. `AgedPagesAreWhole` is the missing premise. With
   `PRs = {1, 2, 3}`, a lookback of 2 and `MaxTime = 4` one process makes TLC show it.
4. **A worktree whose directory disappears during a gc run**
   (`worktree_gc.py:1411`). The recheck of a missing, detached worktree asks about
   the commit in the listing, not about the one its HEAD names now. Without
   `vanished` in `WorkSurvives` TLC shows it.
5. **A crontab that cannot be listed** (`actions/runner.py:3481`). Every failure of
   `crontab -l` counts as an empty crontab, and the handler writes back rig's lines
   alone, while `docs/config-schema.md:1089` says that it "never disturbs the user's
   other crontab lines". Without `Unlisted` in `TakenForRigs` TLC shows it.
6. **A crontab line after rig's sentinel** (`actions/runner.py:3552`). The
   line after the sentinel comment is replaced as rig's without a look at it; one the user put there goes, against the same sentence. Without the second
   disjunct of `TakenForRigs` TLC shows it.
7. **A tmux.conf whose END marker was lost** (`tmux.py:1253`). A second block is
   appended; from then on everything between the old BEGIN and the new END is taken
   for rig's, while `docs/config-schema.md:1713` and the docstring (`tmux.py:1254`)
   promise that only what is between the markers is replaced. Without the first
   disjunct of `TakenForRigs` TLC shows it.
8. **A rollback that fails** (`config_web.py:388`, `cli.py:2947`). "Any failure ROLLS
   the file back to its exact prior bytes" (`config_web.py:327`, "identical
   to the CLI") is not so when the rollback's own open, write or unlink fails. The
   command line says so in its error; the console lets the `OSError` through.
   `BrokenOnlyByOverlapOrFailedRollback` excuses it as `stuck`, `SoloEditIsExact`
   holds it to the answer and to the two texts.
9. **`linters.bundles`** is in the registry (`config_schema.py:972`), in the
   published schema, in `docs/specs/rig-linter-bundles.md:82` and in the builder
   (`plan.py:1970`); the validator (`config.py:1738`) refuses it, so no config can
   have it.
10. **`spotlight.max_depth: null`** passes the validator and makes the builder raise
    `TypeError` (`plan.py:2648`), as does a number in a list of skill names. A load
    checks the validator's rules and never the published schema, so such a file
    makes every command that plans raise. The published schema refuses both;
    `AcceptedBuilds` says that it refuses everything on which the builder raises,
    for whoever edits with it, and does not say that rig itself does.
    `defaults.on_conflict: {}` makes the validator itself raise.
11. `git_hooks.dispatcher.runner: null` and `mcp.target: null` become a path called
    `None`; `_check_bool`'s docstring says null is refused, and it is not.
12. An MCP server that is there with another definition is overwritten under
    `backup`, the default, once the file is backed up (`actions/runner.py:711`);
    `docs/config-schema.md:394` says that a differing entry is never overwritten
    unless the policy is `overwrite`.

## 5. What is proved

Thirty-one theorems about eight of the modules: their types, and the safety and
action properties that their passing runs check. Each is proved for every value of the
constants, not only those of section 3: any set of configs, tabs, job ids, paths,
contents, branches, repositories or modes, any plan, any number of runs and
changes. The assumptions are the named ones of each module: well-typed plans and
initial states, markers (`None`, `Absent`, `Torn`, `NoFile`, `Detached`, ...) that
are not ordinary values, natural bounds, finitely many pull requests, a job store
that retains at least one job, as `_MAX_RETAINED_JOBS` does, and for `CodexUpdate`
finitely many names with the path among them, and links, in an installation or made
by a command, that lead to such names (a dangling link leads to a name where nothing
is). `PlanBuilder` assumes what a YAML parser and the discovery of the catalog
deliver, and no more: a file has finitely many keys, a list, the items of the catalog
and the descriptors of a hook are sequences, so are paths, and `.github/workflows`
names the repository's directory of that name.

| Theorem | Statement |
|---|---|
| `ApplyJobsProofs!TypeCorrect` | `[]TypeOK` |
| `ApplyJobsProofs!OneApplyAtATime` | `[]SingleFlight` |
| `ApplyJobsProofs!RunningJobIsFound` | `[]RunningIsPollable` |
| `ApplyJobsProofs!NothingUnapprovedRuns` | `[]OnlyApproved` |
| `ApplyJobsProofs!SuccessIsNeverFalse` | `[]SuccessIsTrue` |
| `ApplyJobsProofs!StoreImplementsService` | `ImplementsService`: the specification of `ApplyService` |
| `ConfigEditProofs!TypeCorrect` | `[]TypeOK` |
| `ConfigEditProofs!UndisturbedEditIsExact` | `[]SoloEditIsExact` |
| `ConfigEditProofs!LeftReconcilableBarOverlap` | `[]BrokenOnlyByOverlapOrFailedRollback` |
| `FileActionsProofs!TypeCorrect` | `[]TypeOK` |
| `FileActionsProofs!UserContentIsKept` | `[]UserContentSurvives` |
| `FileActionsProofs!CleanRunsConverge` | `[]CleanRunConverges` |
| `FileActionsProofs!ReapplyChangesNothing` | `ReapplyIsNoOp` |
| `FileActionsProofs!BackupsStay` | `BackupsAreKept` |
| `HarnessApprovalProofs!TypeCorrect` | `[]TypeOK` |
| `HarnessApprovalProofs!ConflictIsNeverRigs` | `[]ConflictIsTheUsersBarGap` |
| `HarnessApprovalProofs!RestorePointStaysOriginal` | `[]RestorePointIsOriginal` |
| `DailyWatermarksProofs!NothingIsLost` | `[]AgedPagesAreWhole => []NothingLost`, without `SameSecond` |
| `DailyWatermarksProofs!SmallRepositoriesLoseNothing` | `[]NothingLost`, when no repository has more than a page |
| `DailyWatermarksProofs!CalmRunsDoNotRepeat` | `[]RepeatsOnlyAfterTrouble` |
| `WorktreeGcProofs!TypeCorrect` | `[]TypeOK` |
| `WorktreeGcProofs!GcKeepsWork` | `[]WorkSurvives` |
| `WorktreeGcProofs!GcKeepsWhatIsInUse` | `[]InUseSurvives` |
| `WorktreeGcProofs!GcReportsTruly` | `[]ReportIsTrue` |
| `WorktreeGcProofs!GcRemovesOnlyFinished` | `RemovesOnlyFinished` |
| `CodexUpdateProofs!GoodCopyIsKept` | `[]GoodCopyKept` |
| `CodexUpdateProofs!RollbacksNeverBreak` | `RollbackNeverBreaks` |
| `CodexUpdateProofs!AnswersAreTrue` | `AnswerIsTrue` |
| `PlanBuilderProofs!SwitchedOffBlocksStayOut` | `[]OptedOutStaysOut` |
| `PlanBuilderProofs!BridgesReadTheHooks` | `[]BridgeReadsWhereHooksLand` |
| `PlanBuilderProofs!ActionsResolve` | `[]ReferencesResolve` |

The properties are not inductive as they stand; each proof module defines an
inductive invariant `IInv`, proves that `Init` establishes it and that every action
keeps it (a lemma per action or group of like actions, joined in `NextIInv`).

**ApplyJobs.** That two applies never run depends on the active id naming the one
in flight, on that id not having been evicted, and on `done` being false as long as
the thread lives. `IInv` is `TypeOK` and

* `FlightInv`: a thread that lives belongs to the active job, which is in `jobs`
  and is not done; `SingleFlight` and `RunningIsPollable` follow;
* `ApprovedInv`: what a job ran and what it will still run is within what its
  user approved, which is established at the start by the equality of the
  fingerprints and kept because the thread works from its own copy of the plan;
* `RowsInv`: while `run_plan` works, a row that is queued or running belongs to an
  action still to do; when it has returned there is none, so a job that closes
  without an error has only applied and skipped rows;
* `PollInv`: a poll that read `done` reads a job that no longer changes, whose
  error was written before it.

`RetainKeepsLast` says that the eviction loop leaves a sequence of ids in which the
job appended last still occurs. That the store implements `ApplyService` needs no
more than `IInv`: the steps that show up there are those of the job the mapping
calls current, and `FlightInv` says that it is the only one whose thread moves,
`RowsInv` that what its thread has left is what the service has left, `ApprovedInv`
that it was offered. Every other action leaves all mapped variables as they are.

**ConfigEdit.** `IInv` is `TypeOK`,

* `Paths`: which step belongs to which kind of actor;
* `Undisturbed`: step by step what the file of an edit holds as long as nobody
  else writes it, so that a rollback puts back exactly what was read, a write adds
  exactly the key to what was read without `scope`, and what a failed rollback
  leaves is made of the two texts (`CutIsPart`, `PartsAreMadeOfItsTexts`);
* `Settled`: as long as nothing overlapped and no rollback failed (`Calm`), both
  what an edit may put back and what a command line has planned fit the other layer
  as it is now, and with nobody in the middle of an edit the layers on disk fit. The
  first half is what makes the second inductive, and it is where `overlap` needs
  `Relies`.

**FileActions.** `IInv` is `TypeOK`, the finiteness of the set of backups,
`UserContentSurvives` and

* `StepInv`: what the current action found: it moves or removes only what differs
  and may be replaced, creates only where nothing is, fills only what it created.
  Without it the filling could overwrite the user's file;
* `StatusInv`: what an earlier action of the run reported as done is still in
  place, because a later action works on its path only where the path is *not* as
  declared (`EarlierElsewhere`); hence a run without an error converges, even when
  a plan names a path twice;
* `SettledInv`: a run that found everything in place never leaves the comparisons.

`BackupNameIsFresh` is the lemma behind both backups and user content: among one
more suffixes than there are backups one is free (`FreeSuffix`, by the pigeonhole
principle), so `backup_path` answers a name that nothing has.

**HarnessApproval.** `IInv` is `TypeOK`, `ConflictIsTheUsersBarGap` and

* `Attributed`: between applies, a value by rig has a receipt that names it, and a
  file rig wrote has a receipt that did not merely adopt it;
* `Restores`: the receipt on disk, and the one about to be written, restore a file
  rig never wrote. `_restore_point` keeps this because it takes the present file
  only without a readable receipt or after an adoption, and in both cases
  `Attributed` says that rig has not written it;
* `Prepared`: what an apply is about to record is what it does to the config.

All three assume that no apply died between the two writes (`gap`); the run
`approval_crash` shows that this is needed.

**DailyWatermarks.** `IInv` is the types (which `DailyWatermarksProofs` states: the
maps are partial functions), `TimeInv`, that nothing anybody knows lies in the
future, and

* `StretchInv`: the stretch behind every watermark, saved or loaded by a run, was
  printed; a cursor ends a stretch that this run found whole and that begins where
  the loaded watermark ends; what was found is printed before it is saved.

Then a save joins two stretches, whatever other runs saved since. The proof has two
premises. `~ SameSecond` is the second of the last watermark (section 7).
`AgedPagesAreWhole` is needed at exactly one place, the `Fetch` of a full page that
the code takes for complete, and point 3 of section 4 is what happens without it;
`SmallRepositoriesLoseNothing` discharges it for repositories with no more pull
requests than a page. For repetitions the invariant is `CalmInv`: as long as runs
are calm there is one at a time, on the watermarks it loaded, and all that was
printed lies behind them or behind the cursors it is about to save.

**WorktreeGc.** `IInv` is `TypeOK`, `WorkSurvives`, `InUseSurvives` and

* `ClockInv`, `HeadInv`, `StepInv`: a commit is younger than what it is built on,
  a checked-out branch exists, and what the run knows at each of its steps;
* `RecheckInv`: unless somebody changed something since, what the recheck of the
  entry being removed found still holds, its branch included;
* `MissingInv`: the one thing a recheck cannot see, the commit of a detached HEAD
  whose directory is gone, is the listed one or is in `vanished`;
* `ReportInv`: an entry reported removed is gone, but for the branch in work;
* `FinishedInv`: in a run that nobody disturbs the listing and the pull requests
  of the snapshot stay true, so that what was planned is finished.

Nothing in `WorkSurvives` depends on the listing, the snapshot or the plan: it
rests on the recheck alone. `RemovesOnlyFinished` does rest on them, and for that
reason is stated for undisturbed runs.

**CodexUpdate.** `IInv` says that a command runs only for an updater that launched
one (`Commanded`), that a backup is named after a version this run probed
(`Named`), that before the first command everything is as it passed its probes
(`Unchanged`), and that, without a `clash`, unfinished copies have names of their
own and finished ones are good (`OwnCopies`). So the first `Launch` has a good
backup behind it, and no later step writes to a finished one.

The other two need to know what an updater goes by that nobody disturbed
(`TrackInv`, inductive together with `IInv`): until its command runs the disk is what
it was; from the copy on that disk had a working Codex, the backup is its binary and
the chain its links; and during a rollback (`Restores`) what is still to be done is
what was there, never a link before the name it leads to, while the rest of the
trail is back and leads to nothing that is still to be done. That the order of
`restore_snapshot` is such an order is the lemma `PlanOfRestore`. It and the step
from there to a working Codex rest on where a walk along links goes, which is proved
without an induction: a walk is a function that some least number would have to be
the first to lack (`Unrolled`); it stays in every set closed under links that it
enters (`EntersClosed`); and as it has more steps than there are names, two of them
meet (`FS_PigeonHole`), so that its own trail is closed (`TrailIsClosed`) and no name
comes twice in a chain that ends (`WalkEnds`). In `RollbackKeeps` the entry put back
is either on the new trail, which then ends where the old one did, at the backup's
content, or off it, and then the trail is the one that led to a working Codex before.

**PlanBuilder.** The state is small: `IInv` says that both files and the world are
what a parser and a catalog deliver (`Parsed`, kept by every edit, deletion and
change of the world) and that the plan is the plan of them (`Fresh`). The work is in
`plan.build` itself, for every configuration and every catalog:

* one lemma per builder (`SkillActs`, `HookActs`, `GuardActs`, `LinterActs`, ...)
  says which kinds of action it appends and which block is on when it appends any;
* `Resolved`: in a sequence of actions, one that refers to another comes after it.
  Putting resolved parts one after the other is resolved again (`FlattenResolves`),
  so that `BuildIs` needs of each builder only its own part. `gh ship`'s alias and
  the approval posture are resolved within their builders, links within an item;
* `PaidFor`: every action of the plan is of a kind some block that is on pays for
  (`Paid`), and an action of a kind the properties look at is one of its builder's
  (`From`). With `OffIsOff`, that a repository's `false` survives the merge with the
  machine's layer, an opt-out holds;
* `BridgeReadsTarget`: the directory a bridge is told, or the default of its own
  dispatcher when it is told none, is one of the hooks' targets. The case that needs
  the argument is Codex with a home of its own;
* `ChecksAreReported`: a required check is derived only from the raw CI target's
  built-in default, and then the workflow lands in the repository.

What `FlattenSeq`, a recursive definition of the community modules, computes is not
proved by an induction over data: `FlattensExists` says that its partial results
exist up to any length, as there would be a least one up to which they do not.

### Only model-checked

* `ApplyEnds`: liveness under fairness and `ENABLED` are outside what the prover
  supports.
* The six properties of `Reconcile`: its actions are the cases of thirty handlers
  over one disk, and each property would be a proof per handler and per pair of
  handlers that share a file. The lemmas worth proving are about what they share
  (section 6).
* `AcceptedBuilds` of `PlanBuilder`: it relates the builder to a schema that no load
  enforces (point 10 of section 4), so a proof of it would say nothing about what
  a command does with the file it finds.
* `SingleWriter` and `OnlyDependentsChange` of `PlanBuilder`: the first is about
  the paths a user writes into a configuration, so it is a fact about the instance's
  and not about all (nothing keeps `ci.target` of one block and `path` of a linter
  item apart); the second relates the values of all
  options of a plan to those of another plan, knob by knob.

## 6. Plan

The order is by how much of what rig promises depends on the part.

| | Module | State |
|---|---|---|
| 1 | `ApplyJobs`, `ApplyJobsProofs` | done |
| 2 | `ConfigEdit`, `ConfigEditProofs` | done |
| 3 | `FileActions`, `FileActionsProofs` | done |
| 4 | `HarnessApproval`, `HarnessApprovalProofs` | done |
| 5 | `DailyWatermarks`, `DailyWatermarksProofs` | done |
| 6 | `WorktreeGc`, `WorktreeGcProofs` | done |
| 7 | `ApplyService` and `ImplementsService` | done, proved in `ApplyJobsProofs` |
| 8 | `Reconcile` and the handlers' modules | done; to be proved: lemmas about `WriteFile`, `Spliced` and the merges for every content |
| 9 | `ConfigSchema`, `ConfigRules`, `PlanBuilder`, `PlanBuilderProofs` | done |
| 10 | `CodexUpdate`, `CodexUpdateProofs` | done |
| 11 | registry and fleet | registration under a shared temporary name, passes over repositories |
| 12 | `worktree create` and `remove` | beside `WorktreeGc`: what a failed creation leaves, and its retry |

One more abstract specification is worth stating: a vault that never forgets what
was put into it unless told to, which `FileActions` implements with targets and
backups mapped to its content; a composition of two appliers over one disk belongs
with it.

## 7. What is not modelled, and the limits of what is

Not modelled at all: the components marked so in `PROJECT.json`, because they are
planned (section 6: registry and fleet) or because they are front-ends and
read-only views (stats, wizard, evolve).

Within the modelled components:

* `ApplyJobs` has one server process and spawns the thread in the step that
  registers the job; a failing `Thread.start()` would leave the store busy.
* `ConfigEdit` has no crash: a console that dies between its write and its gate
  leaves unvalidated text, and nothing in the code would find it. `config unset`
  and `init` write the same files and are not included. An edit of another key that
  goes in between the read and the write of one is lost, as both write whole files:
  the code has nothing against it and promises nothing, and `SoloEditIsExact`, which
  leaves edits with such a neighbour out (`touched`), does not catch it.
* `FileActions` has one apply at a time, and the user acts between runs. Under
  `skip` an existing file stays as it is, a torn one included, which is what
  `CleanRunConverges` says.
* `HarnessApproval` keeps the guard as it is during an apply: the code checks it
  once and does not hold it. One key stands for the managed keys.
* `DailyWatermarks` runs with `SameSecond = FALSE`: a pull request that merges in
  the second of the newest one already reported, after the fetch, is never
  reported, as the window excludes its start. The local clock is GitHub's.
* `WorktreeGc` treats one classification and one recheck as one step each, and
  excuses (`raced`) what changes between a recheck and the end of the removal it
  allowed: the code documents this instant. `vanished` excuses point 4 of section 4. A
  run is one; sizes, prompts and the parsing of git's and `gh`'s output are left out.
* `Reconcile` makes each write whole: torn files are `FileActions`' subject. The
  approval posture is `HarnessApproval`'s, and `provision_linter_bundle` is not
  dispatched. What a file says is abstracted to facts and lines; the generated text
  is one value per version. An apply that dies between a plist and its reload leaves
  a stale agent behind a current file; neither the handler nor the check looks at
  more than the file and the label.
* `PlanBuilder` leaves out notes and descriptions. Catalog discovery is a constant,
  `str()` of anything but a string is the same odd path, and the bundles of point 9
  are built but unreachable.
* `CodexUpdate` takes a copy from the backup and the move over its target as one
  step: the temporary file has the process id in its name and is nobody else's. An
  update that somebody disturbs is held to `GoodCopyKept` only.
