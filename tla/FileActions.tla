----------------------------- MODULE FileActions -----------------------------
(***************************************************************************)
(* The apply engine and its two basic handlers: run_plan                    *)
(* (riglib/actions/runner.py) executes the actions of a plan in order,      *)
(* write_file and copy_tree (riglib/actions/fsutil.py) install content      *)
(* under a conflict policy, and _do_link_skill_harness links an installed   *)
(* skill into a harness.  An apply may crash between any two file system    *)
(* calls and is then simply run again; a call may raise, which run_plan     *)
(* records before it goes on.                                               *)
(***************************************************************************)
EXTENDS Naturals, Sequences, FiniteSets

CONSTANTS
  Paths,      \* targets of write_file/copy_tree actions
  LinkOf,     \* path -> whether the plan also links it into a harness
  Plan,       \* the plan: a sequence of [kind, path], a link after its file
  Wanted,     \* contents a config may declare for a path
  UserMade,   \* contents only a user writes
  Policies,   \* the values of on_conflict a config may declare
  Absent,     \* nothing at a path
  Torn,       \* what an interrupted write or copy leaves
  MaxRuns,    \* bound on the apply runs started
  MaxUser     \* bound on the user's changes

Contents  == Wanted \cup UserMade \cup {Absent, Torn}
Links     == {"none", "right", "wrong", "real"}
Linked    == {p \in Paths : LinkOf[p]}

ASSUME PlanAssumption ==
  /\ Plan \in Seq([kind: {"file", "link"}, path: Paths])
  /\ LinkOf \in [Paths -> BOOLEAN]
  /\ \A i \in DOMAIN Plan : Plan[i].kind = "link" => Plan[i].path \in Linked
ASSUME BoundsAssumption == MaxRuns \in Nat /\ MaxUser \in Nat
ASSUME ContentAssumption ==
  Wanted \cap UserMade = {} /\ {Absent, Torn} \cap (Wanted \cup UserMade) = {}

VARIABLES
  target,   \* path -> content on disk
  link,     \* linked path -> what is at its harness path
  backup,   \* <<path, stamp, suffix>> -> backed up content, for existing backups
  stamp,    \* the current second, as backup names print it
  declared, \* path -> content the current run installs
  policy,   \* on_conflict of the current run
  at,       \* index of the action being executed, 0 between runs
  step,     \* the next file system call of that action
  status,   \* the ActionResult statuses of the run so far
  runs,     \* apply runs started, up to MaxRuns
  changes,  \* user changes made, up to MaxUser
  owed,     \* history: <<path, content>> the user wrote and rig must not lose
  settled   \* history: the run found everything as it wants it

disk == <<target, link, backup>>
vars == <<target, link, backup, stamp, declared, policy, at, step, status, runs,
          changes, owed, settled>>

-----------------------------------------------------------------------------
Exists(p) == target[p] # Absent

(* Everything the plan wants is in place: a re-apply has nothing to do.     *)
InPlace(want, pol) ==
  /\ \A i \in DOMAIN Plan : Plan[i].kind = "file" =>
       \/ target[Plan[i].path] = want[Plan[i].path]
       \/ pol = "skip" /\ Exists(Plan[i].path)
  /\ \A i \in DOMAIN Plan : Plan[i].kind = "link" => link[Plan[i].path] \in {"right", "real"}

(* Mutant of BackupName: no suffix for a second backup in the same second.  *)
SameSecondName(p) == <<p, stamp, 0>>

(* backup_path: <target>.rig-bak-<stamp>, then .1, .2, ... while it exists. *)
BackupName(p) ==
  LET free == {n \in 0..Cardinality(DOMAIN backup) : <<p, stamp, n>> \notin DOMAIN backup}
  IN  <<p, stamp, CHOOSE n \in free : \A m \in free : n <= m>>

WithBackup(name, content) ==
  [n \in DOMAIN backup \cup {name} |-> IF n = name THEN content ELSE backup[n]]

Init ==
  /\ target \in [Paths -> UserMade \cup {Absent}]
  /\ link \in [Linked -> Links \ {"right"}]
  /\ backup = <<>>
  /\ stamp = 0
  /\ declared = [p \in Paths |-> Absent]
  /\ policy = "backup"
  /\ at = 0 /\ step = "check" /\ status = <<>>
  /\ runs = 0 /\ changes = 0
  /\ owed = {<<p, target[p]>> : p \in {q \in Paths : Exists(q)}}
  /\ settled = FALSE

-----------------------------------------------------------------------------
(* The environment *)

(* A new `rig apply` with the contents and the policy its config declares.  *)
(* Within one second several runs can start: the clock may or may not move. *)
RunPlan(want, pol, tick) ==
  /\ at = 0
  /\ runs < MaxRuns
  /\ runs' = runs + 1
  /\ stamp' = stamp + tick
  /\ declared' = want
  /\ policy' = pol
  /\ at' = 1 /\ step' = "check" /\ status' = <<>>
  /\ settled' = InPlace(want, pol)
  /\ UNCHANGED <<disk, changes, owed>>

(* Between runs the user replaces or deletes an installed file (what he     *)
(* replaces himself is no longer owed to him) or a harness path.            *)
UserWrites(p, c) ==
  /\ at = 0
  /\ changes < MaxUser
  /\ changes' = changes + 1
  /\ target' = [target EXCEPT ![p] = c]
  /\ owed' = (owed \ {<<p, target[p]>>}) \cup (IF c = Absent THEN {} ELSE {<<p, c>>})
  /\ UNCHANGED <<link, backup, stamp, declared, policy, at, step, status, runs, settled>>

UserLinks(p, l) ==
  /\ at = 0
  /\ changes < MaxUser
  /\ changes' = changes + 1
  /\ link' = [link EXCEPT ![p] = l]
  /\ UNCHANGED <<target, backup, stamp, declared, policy, at, step, status, runs, owed, settled>>

(* The apply process dies between two file system calls.                    *)
Crash ==
  /\ at # 0
  /\ at' = 0 /\ step' = "check" /\ status' = <<>>
  /\ UNCHANGED <<disk, stamp, declared, policy, runs, changes, owed, settled>>

-----------------------------------------------------------------------------
(* run_plan: the handler returns a result and the loop goes on; after the   *)
(* last action the report is complete until the process exits.              *)
Result(s) ==
  /\ status' = Append(status, s)
  /\ at' = at + 1
  /\ step' = "check"
  /\ UNCHANGED <<stamp, declared, policy, runs, changes, settled>>

Continue(next) ==
  /\ step' = next
  /\ UNCHANGED <<stamp, declared, policy, at, status, runs, changes, settled>>

Doing(kind, s) == at \in DOMAIN Plan /\ Plan[at].kind = kind /\ step = s
Here == Plan[at].path

Exit ==
  /\ at = Len(Plan) + 1
  /\ at' = 0
  /\ status' = <<>>
  /\ UNCHANGED <<disk, stamp, declared, policy, step, runs, changes, owed, settled>>

(* The handler raises, at a call or at the comparison that precedes it:     *)
(* run_plan records an error and goes on with the next action.              *)
HandlerRaises ==
  /\ at \in DOMAIN Plan
  /\ Result("error")
  /\ UNCHANGED <<disk, owed>>

(* write_file/copy_tree: an identical target is left as it is, and so is    *)
(* any existing one under on_conflict=skip.                                 *)
FileSkipped ==
  /\ Doing("file", "check")
  /\ Exists(Here)
  /\ target[Here] = declared[Here] \/ policy = "skip"
  /\ Result("skipped")
  /\ UNCHANGED <<disk, owed>>

(* Mutant of FileDiffers: forgets to move the target of a conflict aside.   *)
FileDiffersNoMove ==
  /\ Doing("file", "check")
  /\ target[Here] # declared[Here]
  /\ Exists(Here) => policy # "skip"
  /\ Continue(IF Exists(Here) /\ policy = "overwrite" THEN "remove" ELSE "create")
  /\ UNCHANGED <<disk, owed>>

(* Mutant of FileDiffers: never compares the contents.                      *)
FileDiffersAlways ==
  /\ Doing("file", "check")
  /\ Exists(Here) => policy # "skip"
  /\ Continue(IF ~Exists(Here) THEN "create"
              ELSE IF policy = "backup" THEN "move" ELSE "remove")
  /\ UNCHANGED <<disk, owed>>

FileDiffers ==
  /\ Doing("file", "check")
  /\ target[Here] # declared[Here]
  /\ Exists(Here) => policy # "skip"
  /\ Continue(IF ~Exists(Here) THEN "create"
              ELSE IF policy = "backup" THEN "move" ELSE "remove")
  /\ UNCHANGED <<disk, owed>>

(* Mutant of MoveAside: names the backup when nothing is left to back up.   *)
MoveAsideTooLate ==
  /\ Doing("file", "move")
  /\ target' = [target EXCEPT ![Here] = Absent]
  /\ backup' = WithBackup(BackupName(Here), target'[Here])
  /\ Continue("create")
  /\ UNCHANGED <<link, owed>>

(* on_conflict=backup: shutil.move to a fresh name ...                      *)
MoveAside ==
  /\ Doing("file", "move")
  /\ backup' = WithBackup(BackupName(Here), target[Here])
  /\ target' = [target EXCEPT ![Here] = Absent]
  /\ Continue("create")
  /\ UNCHANGED <<link, owed>>

(* ... on_conflict=overwrite: unlink or rmtree.                             *)
Remove ==
  /\ Doing("file", "remove")
  /\ target' = [target EXCEPT ![Here] = Absent]
  /\ owed' = owed \ {<<Here, target[Here]>>}
  /\ Continue("create")
  /\ UNCHANGED <<link, backup>>

(* write_text or copytree creates the target first and fills it then.       *)
CreateTarget ==
  /\ Doing("file", "create")
  /\ target' = [target EXCEPT ![Here] = Torn]
  /\ Continue("fill")
  /\ UNCHANGED <<link, backup, owed>>

FillTarget ==
  /\ Doing("file", "fill")
  /\ target' = [target EXCEPT ![Here] = declared[Here]]
  /\ Result("written")
  /\ UNCHANGED <<link, backup, owed>>

-----------------------------------------------------------------------------
(* _do_link_skill_harness *)

LinkRefused ==
  /\ Doing("link", "check")
  /\ ~Exists(Here)
  /\ Result("error")
  /\ UNCHANGED <<disk, owed>>

(* Mutant of LinkSkipped: takes any symlink for its own.                    *)
LinkSkippedAnySymlink ==
  /\ Doing("link", "check")
  /\ Exists(Here)
  /\ link[Here] # "none"
  /\ Result("skipped")
  /\ UNCHANGED <<disk, owed>>

(* A right link, or a real directory or file somebody put there.            *)
LinkSkipped ==
  /\ Doing("link", "check")
  /\ Exists(Here)
  /\ link[Here] \in {"right", "real"}
  /\ Result("skipped")
  /\ UNCHANGED <<disk, owed>>

LinkDiffers ==
  /\ Doing("link", "check")
  /\ Exists(Here)
  /\ link[Here] \in {"wrong", "none"}
  /\ Continue(IF link[Here] = "wrong" THEN "unlink" ELSE "symlink")
  /\ UNCHANGED <<disk, owed>>

Unlink ==
  /\ Doing("link", "unlink")
  /\ link' = [link EXCEPT ![Here] = "none"]
  /\ Continue("symlink")
  /\ UNCHANGED <<target, backup, owed>>

Symlink ==
  /\ Doing("link", "symlink")
  /\ link' = [link EXCEPT ![Here] = "right"]
  /\ Result("written")
  /\ UNCHANGED <<target, backup, owed>>

-----------------------------------------------------------------------------
Engine ==
  \/ FileSkipped
  \/ FileDiffers
  \/ MoveAside
  \/ Remove
  \/ CreateTarget
  \/ FillTarget
  \/ LinkRefused
  \/ LinkSkipped
  \/ LinkDiffers
  \/ Unlink
  \/ Symlink
  \/ HandlerRaises
  \/ Exit

Next ==
  \/ \E want \in [Paths -> Wanted], pol \in Policies, tick \in {0, 1} : RunPlan(want, pol, tick)
  \/ \E p \in Paths, c \in UserMade \cup {Absent} : UserWrites(p, c)
  \/ \E p \in Linked, l \in Links : UserLinks(p, l)
  \/ Crash
  \/ Engine

Spec == Init /\ [][Next]_vars

-----------------------------------------------------------------------------
(* The types of the disk, of the run and of the history; a backup holds      *)
(* something.                                                               *)
TypeOK ==
  /\ target \in [Paths -> Contents]
  /\ link \in [Linked -> Links]
  /\ DOMAIN backup \subseteq Paths \X Nat \X Nat
  /\ \A n \in DOMAIN backup : backup[n] \in Contents \ {Absent}
  /\ stamp \in 0..runs
  /\ declared \in [Paths -> Wanted \cup {Absent}]
  /\ policy \in Policies \cup {"backup"}
  /\ at \in 0..(Len(Plan) + 1)
  /\ step \in {"check", "move", "remove", "create", "fill", "unlink", "symlink"}
  /\ status \in Seq({"skipped", "written", "error"})
  /\ runs \in 0..MaxRuns /\ changes \in 0..MaxUser
  /\ owed \subseteq Paths \X UserMade
  /\ settled \in BOOLEAN

(* What a user wrote is on disk, at its path or in a backup of it, until he *)
(* replaces it himself or a run under on_conflict=overwrite removes it, for *)
(* every crash between the move and the write, every failed call, and any   *)
(* number of runs in one second.                                            *)
UserContentSurvives ==
  \A pc \in owed :
    \/ target[pc[1]] = pc[2]
    \/ \E n \in DOMAIN backup : n[1] = pc[1] /\ backup[n] = pc[2]

(* A run that reports no error leaves every file and link as the plan wants *)
(* it, whatever state earlier crashes left behind: torn files, moved files  *)
(* without a replacement, removed links.  Under on_conflict=skip an         *)
(* existing file, a torn one included, is left as it is.                    *)
CleanRunConverges ==
  at = Len(Plan) + 1 /\ (\A i \in DOMAIN status : status[i] # "error") =>
    InPlace(declared, policy)

(* Re-applying a config that is already in place touches nothing: no write, *)
(* no new backup, no relink.                                                *)
ReapplyIsNoOp == [][at # 0 /\ settled => UNCHANGED disk]_vars

(* A backup, once made, is never overwritten or lost.                       *)
BackupsAreKept ==
  [][\A n \in DOMAIN backup : n \in DOMAIN backup' /\ backup'[n] = backup[n]]_vars
=============================================================================
