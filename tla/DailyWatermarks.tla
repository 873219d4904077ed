--------------------------- MODULE DailyWatermarks ---------------------------
(***************************************************************************)
(* `rig daily` (riglib/daily): the report of the pull requests merged since *)
(* the last run.  Each repository has a watermark in daily-state.json; a    *)
(* run loads all of them, fetches one page of merged pull requests per      *)
(* repository, prints those merged strictly after the repository's          *)
(* watermark and then replaces the state file atomically.  Runs may overlap *)
(* and die between any two of these steps.                                  *)
(*                                                                          *)
(* Time is counted in seconds, the resolution of mergedAt and of the saved  *)
(* watermarks; the local clock and GitHub's agree.  --since and --dry-run   *)
(* change no state and are left out.                                        *)
(***************************************************************************)
EXTENDS Integers, FiniteSets, FiniteSetsExt

CONSTANTS
  Repos,
  PRs,        \* pull request numbers: created in this order
  RepoOf,     \* the repository of a pull request
  Procs,      \* concurrent `rig daily` processes
  PageLimit,  \* _PAGE_LIMIT
  Lookback,   \* DEFAULT_LOOKBACK_HOURS
  SameSecond, \* whether pull requests may merge in a second that has been fetched
  MaxTime,    \* bound on the clock
  MaxRuns     \* bound on the runs started

ASSUME PRsAssumption  == PRs \subseteq Nat /\ IsFiniteSet(PRs) /\ RepoOf \in [PRs -> Repos]
ASSUME PageAssumption == PageLimit \in Nat \ {0} /\ Lookback \in Nat
ASSUME TimeAssumption == MaxTime \in Nat

Unmerged == -1
Times    == 0..MaxTime
NoMarks  == [repo \in {} |-> 0]

VARIABLES
  clock,     \* now, in seconds
  mergedAt,  \* pull request -> second of its merge
  watermark, \* daily-state.json: repository -> second, where there is an entry
  run,       \* process -> the locals of its run
  runs,      \* runs started, up to MaxRuns
  reported,  \* history: pull requests printed by some run
  from,      \* history: repository -> the instant from which runs have dealt with
             \* everything up to its watermark, each from where an earlier one ended
  calm       \* history: no run overlapped another, died before it saved what it
             \* printed, or had an incomplete page

vars == <<clock, mergedAt, watermark, run, runs, reported, from, calm>>

Merged(repo) == {p \in PRs : RepoOf[p] = repo /\ mergedAt[p] # Unmerged}

NoRun == [at |-> "idle", todo |-> {}, saved |-> NoMarks, now |-> 0, found |-> {},
          cursor |-> NoMarks, asked |-> NoMarks, base |-> NoMarks]

Init ==
  /\ clock = 0
  /\ mergedAt = [p \in PRs |-> Unmerged]
  /\ watermark = NoMarks
  /\ run = [r \in Procs |-> NoRun]
  /\ runs = 0
  /\ reported = {}
  /\ from = NoMarks
  /\ calm = TRUE

-----------------------------------------------------------------------------
(* GitHub and time *)

Tick ==
  /\ clock < MaxTime
  /\ clock' = clock + 1
  /\ UNCHANGED <<mergedAt, watermark, run, runs, reported, from, calm>>

(* A merge, in a second of its own or in the current one.                   *)
Merge(p, second) ==
  /\ mergedAt[p] = Unmerged
  /\ second \in Times
  /\ second = clock => SameSecond
  /\ clock' = second
  /\ mergedAt' = [mergedAt EXCEPT ![p] = second]
  /\ UNCHANGED <<watermark, run, runs, reported, from, calm>>

(* gh pr list --state merged --limit: newest created first.                 *)
Page(repo) ==
  {p \in Merged(repo) : Cardinality({q \in Merged(repo) : q > p}) < PageLimit}

-----------------------------------------------------------------------------
(* A run *)

(* load_watermarks and the snapshot of "now"; a process reports on the      *)
(* configured repositories or on those given with --repo.                   *)
Begin(r, repos) ==
  /\ run[r].at = "idle"
  /\ runs < MaxRuns
  /\ runs' = runs + 1
  /\ run' = [run EXCEPT ![r] =
       [at |-> "fetch", todo |-> repos, saved |-> watermark, now |-> clock, found |-> {},
        cursor |-> NoMarks, asked |-> NoMarks, base |-> from]]
  /\ calm' = (calm /\ \A q \in Procs : run[q].at = "idle")
  /\ UNCHANGED <<clock, mergedAt, watermark, reported, from>>

(* _since_for_repo                                                          *)
Since(r, repo) ==
  IF repo \in DOMAIN run[r].saved THEN run[r].saved[repo] ELSE clock - Lookback

(* _page_may_be_truncated: a full page whose oldest entry is not older than *)
(* the window.                                                              *)
MayBeTruncated(page, since) ==
  Cardinality(page) >= PageLimit /\ mergedAt[Min(page)] >= since

(* Mutant of Complete: a record that cannot be parsed is skipped silently.  *)
CompleteButForSkipped(page, bad, since) == ~MayBeTruncated(page, since)

(* FetchResult.complete, when the records `bad` of the page are malformed.  *)
Complete(page, bad, since) == bad = {} /\ ~MayBeTruncated(page, since)

(* Mutant of Found: an inclusive window.                                    *)
FoundInclusive(page, bad, since) == {p \in page \ bad : mergedAt[p] >= since}

(* _parse_and_filter                                                        *)
Found(page, bad, since) == {p \in page \ bad : mergedAt[p] > since}

(* {**marks, repo: second}                                                  *)
With(marks, repo, second) ==
  [other \in DOMAIN marks \cup {repo} |-> IF other = repo THEN second ELSE marks[other]]

(* The watermark of a complete fetch: the newest merge, or the run's now.   *)
Cursor(r, found) == IF found = {} THEN run[r].now ELSE Max({mergedAt[p] : p \in found})

(* The next repository of _fetch_all answers with a page.                   *)
Fetch(r, repo, bad) ==
  LET since    == Since(r, repo)
      found    == Found(Page(repo), bad, since)
      complete == Complete(Page(repo), bad, since)
  IN
  /\ run[r].at = "fetch"
  /\ repo \in run[r].todo
  /\ bad \subseteq Page(repo)
  /\ run' = [run EXCEPT
       ![r].todo   = @ \ {repo},
       ![r].found  = @ \cup found,
       ![r].cursor = IF complete THEN With(@, repo, Cursor(r, found)) ELSE @,
       ![r].asked  = With(@, repo, since)]
  /\ calm' = (calm /\ complete)
  /\ UNCHANGED <<clock, mergedAt, watermark, runs, reported, from>>

(* GhError: gh is missing, times out, fails or answers something unusable.  *)
FetchFails(r, repo) ==
  /\ run[r].at = "fetch"
  /\ repo \in run[r].todo
  /\ run' = [run EXCEPT ![r].todo = @ \ {repo}]
  /\ UNCHANGED <<clock, mergedAt, watermark, runs, reported, from, calm>>

(* Every repository failed: exit code 1 and no report.                      *)
NoReport(r) ==
  /\ run[r].at = "fetch"
  /\ run[r].todo = {}
  /\ DOMAIN run[r].asked = {}
  /\ run' = [run EXCEPT ![r] = NoRun]
  /\ UNCHANGED <<clock, mergedAt, watermark, runs, reported, from, calm>>

Reporting(r) == run[r].at = "fetch" /\ run[r].todo = {} /\ DOMAIN run[r].asked # {}

Report(r) ==
  /\ Reporting(r)
  /\ run' = [run EXCEPT ![r].at = "save"]
  /\ reported' = reported \cup run[r].found
  /\ UNCHANGED <<clock, mergedAt, watermark, runs, from, calm>>

(* {**under, **top}                                                         *)
Over(top, under) ==
  [repo \in DOMAIN top \cup DOMAIN under |->
     IF repo \in DOMAIN top THEN top[repo] ELSE under[repo]]

(* Where a first run began, the stretch up to its cursor begins.            *)
Start(r) ==
  [repo \in DOMAIN run[r].cursor \cup DOMAIN run[r].saved |->
     IF repo \in DOMAIN run[r].saved THEN run[r].base[repo] ELSE run[r].asked[repo]]

(* save_watermarks of {**saved, **updated}, when a fetch was complete.      *)
Save(r) ==
  /\ run[r].at = "save"
  /\ IF DOMAIN run[r].cursor = {}
       THEN UNCHANGED <<watermark, from>>
       ELSE /\ watermark' = Over(run[r].cursor, run[r].saved)
            /\ from' = Start(r)
  /\ run' = [run EXCEPT ![r] = NoRun]
  /\ UNCHANGED <<clock, mergedAt, runs, reported, calm>>

Crash(r) ==
  /\ run[r].at # "idle"
  /\ run' = [run EXCEPT ![r] = NoRun]
  /\ calm' = (calm /\ run[r].at # "save")
  /\ UNCHANGED <<clock, mergedAt, watermark, runs, reported, from>>

Next ==
  \/ Tick
  \/ \E p \in PRs, second \in {clock, clock + 1} : Merge(p, second)
  \/ \E r \in Procs, repos \in SUBSET Repos \ {{}} : Begin(r, repos)
  \/ \E r \in Procs, repo \in Repos :
       \/ \E bad \in SUBSET Page(repo) : Fetch(r, repo, bad)
       \/ FetchFails(r, repo)
  \/ \E r \in Procs : NoReport(r)
  \/ \E r \in Procs : Report(r)
  \/ \E r \in Procs : Save(r)
  \/ \E r \in Procs : Crash(r)

Spec == Init /\ [][Next]_vars

-----------------------------------------------------------------------------
(* What the code takes for granted of a full page whose oldest entry merged *)
(* before the window: that the older pull requests, which are not on it,    *)
(* did so too.                                                              *)
AgedPagesAreWhole ==
  \A r \in Procs : run[r].at = "fetch" => \A repo \in run[r].todo :
    LET page == Page(repo) IN
    Cardinality(page) >= PageLimit /\ ~ MayBeTruncated(page, Since(r, repo)) =>
      \A p \in Merged(repo) \ page : mergedAt[p] <= Since(r, repo)

(* Nothing is lost behind a watermark: a pull request merged in the time    *)
(* the saved watermark says is dealt with was printed, whatever fetches     *)
(* failed, whatever records were malformed, and however runs overlapped or  *)
(* died ("... instead of silently losing whatever this run couldn't see").  *)
(* That time begins where the first of the runs that led to this watermark  *)
(* looked back to: a run that overlaps the first one starts afresh.         *)
NothingLost ==
  \A repo \in DOMAIN watermark : \A p \in Merged(repo) :
    from[repo] < mergedAt[p] /\ mergedAt[p] <= watermark[repo] => p \in reported

(* `rig daily` never repeats a pull request, as long as no run overlaps     *)
(* another, dies between its report and its save, or sees an incomplete     *)
(* page, for which the code accepts a repetition.                           *)
RepeatsOnlyAfterTrouble ==
  \A r \in Procs : Reporting(r) /\ calm => run[r].found \cap reported = {}
=============================================================================
