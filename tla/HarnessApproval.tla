--------------------------- MODULE HarnessApproval ---------------------------
(***************************************************************************)
(* Provisioning the approval posture of a harness: the handler              *)
(* _do_provision_harness_approval (riglib/actions/runner.py) merges one key *)
(* into the harness's own config file and records in a receipt beside it    *)
(* what rig installed, what was there before and which backup to restore.   *)
(* A differing value is the user's and stays, unless the receipt says that  *)
(* rig installed it.                                                        *)
(*                                                                          *)
(* Config and receipt are two files, each truncated and then written; an    *)
(* apply may die between any two calls.  The user edits the config between  *)
(* applies.  What is backed up is kept under a fresh name (FileActions).    *)
(***************************************************************************)
EXTENDS Naturals

CONSTANTS
  Modes,       \* values of tools.approvalMode
  Interactive, \* the mode that asks: the only one that does not relax
  Policies,    \* values of on_conflict
  NoFile,      \* a file that does not exist, None for a backup
  Torn,        \* a receipt that is not JSON
  MaxRuns,     \* bound on the applies started
  MaxUser      \* bound on the user's changes

ASSUME ModesAssumption == Interactive \in Modes /\ "missing" \notin Modes /\ "odd" \notin Modes

VARIABLES
  config,  \* the harness config: its managed key, who wrote that, whether rig
           \* ever wrote the file; or NoFile
  receipt, \* the receipt, Torn or NoFile
  guard,   \* the guard belt is in place
  run,     \* the apply in progress
  runs,    \* applies started, up to MaxRuns
  changes, \* changes made by the user, up to MaxUser
  gap      \* history: an apply died after it opened the config for writing and
           \* before its receipt was complete

vars == <<config, receipt, guard, run, runs, changes, gap>>

(* The value of the managed key: a mode, missing, or "odd": an explicit     *)
(* null or a parent that is not an object.                                  *)
Values   == Modes \cup {"missing", "odd"}
Contents == [value: Values, by: {"user", "rig"}, rigWrote: BOOLEAN, parses: BOOLEAN]
Receipts == [previous: Modes \cup {"missing"}, installed: Modes, adopted: BOOLEAN,
             backup: Contents \cup {NoFile}]

ASSUME MarksAssumption ==
  NoFile \notin Contents \cup Receipts /\ Torn \notin Receipts /\ Torn # NoFile
ASSUME BoundsAssumption == MaxRuns \in Nat /\ MaxUser \in Nat

(* What an empty file, which a truncation leaves, means to its readers.     *)
Emptied == [value |-> "missing", by |-> "rig", rigWrote |-> TRUE, parses |-> TRUE]

Idle == [at |-> "idle", want |-> Interactive, policy |-> "skip", new |-> NoFile]

Init ==
  /\ config \in {NoFile} \cup
       [value: Values, by: {"user"}, rigWrote: {FALSE}, parses: BOOLEAN]
  /\ receipt = NoFile
  /\ guard \in BOOLEAN
  /\ run = Idle
  /\ runs = 0
  /\ changes = 0
  /\ gap = FALSE

-----------------------------------------------------------------------------
(* The environment *)

(* The user sets or removes the key, breaks or repairs the syntax.          *)
UserEdits(value, parses) ==
  /\ run.at = "idle"
  /\ changes < MaxUser
  /\ changes' = changes + 1
  /\ config' = [value |-> value, by |-> "user", parses |-> parses,
                rigWrote |-> config # NoFile /\ config.rigWrote]
  /\ UNCHANGED <<receipt, guard, run, runs, gap>>

UserDeletes ==
  /\ run.at = "idle"
  /\ changes < MaxUser
  /\ changes' = changes + 1
  /\ config' = NoFile
  /\ UNCHANGED <<receipt, guard, run, runs, gap>>

(* The guard action of another apply, or somebody removing the guard.       *)
GuardChanges ==
  /\ run.at = "idle"
  /\ guard' = ~guard
  /\ UNCHANGED <<config, receipt, run, runs, changes, gap>>

(* The apply process dies.                                                  *)
Crash ==
  /\ run.at # "idle"
  /\ run' = Idle
  /\ gap' = (gap \/ run.at \in {"write config", "open receipt", "write receipt"})
  /\ UNCHANGED <<config, receipt, guard, runs, changes>>

-----------------------------------------------------------------------------
(* What the handler reads *)

(* read_approval_receipt: {} when it is absent or not JSON.                 *)
Readable == receipt \notin {NoFile, Torn}

(* Mutant of RigInstalled: trusts the value, not the receipt.               *)
NothingRigInstalled(value) == FALSE

(* receipt_installed_values                                                 *)
RigInstalled(value) == Readable /\ receipt.installed = value

(* approval_lookup                                                          *)
Lookup == IF config = NoFile THEN "missing" ELSE config.value

Parses   == config # NoFile => config.parses
Refused  == run.want # Interactive /\ ~guard
Missing  == Lookup = "missing" \/ (Lookup # run.want /\ Lookup \in Modes /\ RigInstalled(Lookup))
Conflict == ~Missing /\ Lookup # run.want

(* Mutant of RestorePoint: always the backup made now.                      *)
LatestBackup(now) == now

(* _restore_point                                                           *)
RestorePoint(now) ==
  IF ~Readable THEN now
  ELSE IF receipt.backup # NoFile THEN receipt.backup
  ELSE IF receipt.adopted THEN now ELSE NoFile

(* Mutant of Merged: forgets what converged.                                *)
MergedWithOldValue(now) ==
  [previous |-> Lookup, installed |-> Lookup, adopted |-> FALSE, backup |-> RestorePoint(now)]

(* _receipt_entries: a converged key keeps the original previous value.     *)
Merged(now) ==
  [previous  |-> IF Lookup = "missing" THEN "missing" ELSE receipt.previous,
   installed |-> run.want,
   adopted   |-> FALSE,
   backup    |-> RestorePoint(now)]

Adopted ==
  [previous |-> run.want, installed |-> run.want, adopted |-> TRUE, backup |-> NoFile]

-----------------------------------------------------------------------------
(* The handler *)

Begin(want, policy) ==
  /\ run.at = "idle"
  /\ runs < MaxRuns
  /\ runs' = runs + 1
  /\ run' = [at |-> "check", want |-> want, policy |-> policy, new |-> NoFile]
  /\ UNCHANGED <<config, receipt, guard, changes, gap>>

Return(result) == run' = [run EXCEPT !.at = result]

(* "error": the guard is not in place, or the config cannot be parsed.      *)
ReturnError ==
  /\ run.at = "check"
  /\ Refused \/ ~Parses
  /\ Return("error")
  /\ UNCHANGED <<config, receipt, guard, runs, changes, gap>>

(* "skipped": a value the user set.                                         *)
ReturnConflict ==
  /\ run.at = "check"
  /\ ~Refused /\ Parses
  /\ Conflict
  /\ Return("conflict")
  /\ UNCHANGED <<config, receipt, guard, runs, changes, gap>>

(* "skipped": already current, or on_conflict=skip and a file to rewrite.   *)
ReturnSkipped ==
  /\ run.at = "check"
  /\ ~Refused /\ Parses /\ ~Conflict
  /\ \/ ~Missing /\ receipt # NoFile
     \/ Missing /\ config # NoFile /\ run.policy = "skip"
  /\ Return("skipped")
  /\ UNCHANGED <<config, receipt, guard, runs, changes, gap>>

(* A compatible value without a receipt: only a receipt is written.         *)
Adopt ==
  /\ run.at = "check"
  /\ ~Refused /\ Parses /\ ~Conflict /\ ~Missing
  /\ receipt = NoFile
  /\ receipt' = Torn
  /\ run' = [run EXCEPT !.at = "adopt", !.new = Adopted]
  /\ UNCHANGED <<config, guard, runs, changes, gap>>

AdoptReceipt ==
  /\ run.at = "adopt"
  /\ receipt' = run.new
  /\ config' = [config EXCEPT !.by = "rig"]
  /\ Return("updated")
  /\ UNCHANGED <<guard, runs, changes, gap>>

(* The backup, the new receipt's contents, and the truncation of the config.*)
OpenConfig ==
  /\ run.at = "check"
  /\ ~Refused /\ Parses /\ ~Conflict /\ Missing
  /\ config = NoFile \/ run.policy # "skip"
  /\ run' = [run EXCEPT !.at = "write config",
                        !.new = Merged(IF run.policy = "backup" THEN config ELSE NoFile)]
  /\ config' = Emptied
  /\ UNCHANGED <<receipt, guard, runs, changes, gap>>

WriteConfig ==
  /\ run.at = "write config"
  /\ config' = [Emptied EXCEPT !.value = run.want]
  /\ Return("open receipt")
  /\ UNCHANGED <<receipt, guard, runs, changes, gap>>

OpenReceipt ==
  /\ run.at = "open receipt"
  /\ receipt' = Torn
  /\ Return("write receipt")
  /\ UNCHANGED <<config, guard, runs, changes, gap>>

WriteReceipt ==
  /\ run.at = "write receipt"
  /\ receipt' = run.new
  /\ Return("updated")
  /\ UNCHANGED <<config, guard, runs, changes, gap>>

Results == {"error", "conflict", "skipped", "updated"}

End ==
  /\ run.at \in Results
  /\ run' = Idle
  /\ UNCHANGED <<config, receipt, guard, runs, changes, gap>>

Handler ==
  \/ ReturnError
  \/ ReturnConflict
  \/ ReturnSkipped
  \/ Adopt
  \/ AdoptReceipt
  \/ OpenConfig
  \/ WriteConfig
  \/ OpenReceipt
  \/ WriteReceipt
  \/ End

Next ==
  \/ \E value \in Values, parses \in BOOLEAN : UserEdits(value, parses)
  \/ UserDeletes
  \/ GuardChanges
  \/ \E want \in Modes, policy \in Policies : Begin(want, policy)
  \/ Handler
  \/ Crash

Spec == Init /\ [][Next]_vars

-----------------------------------------------------------------------------
(* The types of the two files and of the apply in progress.                 *)
TypeOK ==
  /\ config \in Contents \cup {NoFile}
  /\ receipt \in Receipts \cup {Torn, NoFile}
  /\ guard \in BOOLEAN
  /\ run \in [at: Results \cup {"idle", "check", "adopt", "write config", "open receipt",
                                 "write receipt"},
              want: Modes, policy: Policies \cup {"skip"}, new: Receipts \cup {NoFile}]
  /\ runs \in 0..MaxRuns /\ changes \in 0..MaxUser
  /\ gap \in BOOLEAN

(* A value left alone as the user's is one the user set: rig converges its  *)
(* own writes and those it adopted when the intent changes, "instead of     *)
(* mistaking rig's own prior write for a user-set value and leaving the     *)
(* harness relaxed forever" (receipt_installed_values).                     *)
ConflictIsTheUsers == run.at = "conflict" => config.by = "user"

(* ... which holds as long as no apply dies between its two writes.         *)
ConflictIsTheUsersBarGap == ~gap => ConflictIsTheUsers

(* The restore point a complete receipt names is a file that rig had never  *)
(* written, across adoptions, convergences and changes by the user, as long *)
(* as no apply died between its two writes (_restore_point).                *)
RestorePointIsOriginal ==
  ~gap /\ Readable /\ receipt.backup # NoFile => ~receipt.backup.rigWrote
=============================================================================
