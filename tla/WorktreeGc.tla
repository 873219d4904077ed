------------------------------ MODULE WorktreeGc ------------------------------
(***************************************************************************)
(* `rig worktree gc --yes` (riglib/worktree_gc.py): it lists every linked   *)
(* worktree, classifies each one against the checkout, the branch and the   *)
(* pull request, then rechecks and removes the planned ones one at a time,  *)
(* while agents go on working in the same repository.                       *)
(*                                                                          *)
(* A commit is the instant it was made and a tip is the set of commits it   *)
(* reaches beyond the trunk, so that containment of tips is reachability.   *)
(* One classification, one recheck and one git command are single steps;    *)
(* the others' changes fall between them.                                   *)
(***************************************************************************)
EXTENDS Naturals, FiniteSetsExt, TLC

CONSTANTS
  Trees, Branches,
  InitialRepos,  \* [tree, ref, pushed, pr, clock]: repositories to start from
  OlderThan,     \* --older-than-days, in instants
  MaxChanges,    \* bound on the changes others make
  MaxRuns,       \* bound on the gc runs
  NoTree,        \* a worktree that is not registered
  NoRef,         \* a branch that does not exist, or was not pushed
  Detached       \* the HEAD of a worktree on no branch

Heads    == Branches \cup {Detached}
Places   == {"present", "missing", "broken", "symlink"}
Resolved == {"merged", "closed"}

(* Tips, worktrees, pull requests and what a run remembers of a worktree,   *)
(* with instants of a set.                                                  *)
Tips(when)     == SUBSET when
Checkouts(when) ==
  [head : Heads, tip : Tips(when), born : when, place : Places,
   dirty : BOOLEAN, live : BOOLEAN, locked : BOOLEAN]
Requests(when) == [state : {"none", "open"} \cup Resolved, at : when]
Entries(when)  ==
  [head : Heads, tip : Tips(when), locked : BOOLEAN, prunable : BOOLEAN,
   live : BOOLEAN, pr : Requests(when)]

ASSUME MarksAssumption ==
  /\ MaxChanges \in Nat /\ Detached \notin Branches
  /\ NoTree \notin Trees \cup Checkouts(Nat) \cup Entries(Nat)

ASSUME ReposAssumption ==
  \A r \in InitialRepos :
    /\ r.clock \in Nat
    /\ \A tip \in Tips(0..r.clock + MaxChanges) : tip # NoRef
    /\ r.ref \in [Branches -> {NoRef} \cup Tips(0..r.clock)]
    /\ r.pushed \in [Branches -> {NoRef} \cup Tips(0..r.clock)]
    /\ r.pr \in [Branches -> Requests(0..r.clock)]
    /\ r.tree \in [Trees -> Checkouts(0..r.clock) \cup {NoTree}]
    /\ \A t \in Trees : r.tree[t] # NoTree =>
         /\ r.tree[t].head # Detached => r.ref[r.tree[t].head] # NoRef
         /\ r.tree[t].place = "missing" => ~ r.tree[t].dirty

VARIABLES
  ref,      \* local branch -> its tip
  pushed,   \* branch -> its remote-tracking ref
  pr,       \* branch -> its best pull request: [state, at]
  tree,     \* worktree -> its checkout and registration
  clock,    \* the present
  gc,       \* the gc process: the step it is at and the tree it works on
  seen,     \* worktree -> what the listing and the snapshots said of it
  pending,  \* worktrees still to be classified
  plan,     \* planned entries still to be removed
  outcome,  \* worktree -> how its entry ended, as the report tells it
  changes, runs,  \* bounded counters
  work,     \* history: commits that nobody but gc could have dropped
  harmed,   \* history: worktrees gc removed while dirty or in use
  raced,    \* history: a change fell between a recheck and the end of its removal
  moved,    \* history: a change was made since the listing
  vanished  \* history: commits on a detached HEAD whose directory was deleted
            \* in the middle of a run

repo    == <<ref, pushed, pr, tree, clock>>
run     == <<gc, seen, pending, plan, outcome, runs>>
history == <<work, harmed, raced, moved, vanished>>
vars    == <<repo, run, changes, history>>

Idle     == [at |-> "idle", tree |-> NoTree, stale |-> FALSE]
Listed   == {t \in Trees : tree[t] # NoTree}
NoPr     == [state |-> "none", at |-> 0]

-----------------------------------------------------------------------------
(* What git answers *)

HeadTip(t) == IF tree[t].head = Detached THEN tree[t].tip ELSE ref[tree[t].head]

Refs == {ref[b] : b \in Branches} \cup {pushed[b] : b \in Branches}

Reachable == UNION ((Refs \cup {HeadTip(t) : t \in Listed}) \ {NoRef})

(* _has_unpushed_commits: no ref but the branch's own contains the tip; an  *)
(* unresolvable one is reported unpushed.                                   *)
HasUnpushed(tip, own) ==
  \/ tip = NoRef
  \/ /\ tip # {}
     /\ \A b \in Branches :
          /\ pushed[b] # NoRef => ~ tip \subseteq pushed[b]
          /\ (b # own /\ ref[b] # NoRef) => ~ tip \subseteq ref[b]

LastActivity(t) == Max(HeadTip(t) \cup {tree[t].born})

CheckedOut(b) == \E t \in Listed : tree[t].head = b

-----------------------------------------------------------------------------
(* Classification *)

(* _prunable_unpushed_ref of the listed entry, asked of the repository now. *)
ListedRefUnpushed(t) ==
  HasUnpushed(IF seen[t].head = Detached THEN seen[t].tip ELSE ref[seen[t].head], seen[t].head)

(* Mutant of Outlived: asks how old the worktree is, not its last commit.   *)
OutlivedByAge(t) == tree[t].born > seen[t].pr.at

(* _branch_outlived_its_pr *)
Outlived(t) == LastActivity(t) > seen[t].pr.at

(* What _classify_clean_worktree removes, and plan_removable lets pass.     *)
CleanIsRemovable(t) ==
  /\ ~ HasUnpushed(HeadTip(t), tree[t].head)
  /\ \/ seen[t].pr.state \in Resolved /\ ~ Outlived(t)
     \/ /\ seen[t].pr = NoPr
        /\ gc.stale
        /\ clock - LastActivity(t) >= OlderThan

Removable(t) ==
  /\ ~ seen[t].live
  /\ ~ seen[t].locked
  /\ tree[t].place \notin {"symlink", "broken"}
  /\ IF seen[t].prunable \/ tree[t].place = "missing"
       THEN tree[t].place = "missing" /\ ~ ListedRefUnpushed(t)
       ELSE ~ tree[t].dirty /\ CleanIsRemovable(t)

(* A worktree that lost its .git pointer after the listing: git walks up    *)
(* and answers for the primary checkout, which may look removable.          *)
Misread(t) == tree[t].place = "broken" /\ ~ seen[t].prunable

(* Mutant of StillSafe: looks at the current HEAD and not at the branch     *)
(* that was planned and will be deleted.                                    *)
HeadOnlyStillSafe(t) ==
  /\ ~ tree[t].live
  /\ \/ /\ tree[t].place = "present"
        /\ ~ tree[t].dirty
        /\ ~ HasUnpushed(HeadTip(t), tree[t].head)
     \/ tree[t].place = "missing" /\ ~ ListedRefUnpushed(t)

(* Mutant of StillSafe: trusts the liveness snapshot of the planning.       *)
SnapshotStillSafe(t) ==
  /\ ~ seen[t].live
  /\ \/ /\ tree[t].place = "present"
        /\ ~ tree[t].dirty
        /\ ~ HasUnpushed(HeadTip(t), tree[t].head)
        /\ seen[t].head # Detached => ~ HasUnpushed(ref[seen[t].head], seen[t].head)
     \/ tree[t].place = "missing" /\ ~ ListedRefUnpushed(t)

(* _recheck_dirty_and_unpushed and the liveness check before it             *)
StillSafe(t) ==
  /\ ~ tree[t].live
  /\ \/ /\ tree[t].place = "present"
        /\ ~ tree[t].dirty
        /\ ~ HasUnpushed(HeadTip(t), tree[t].head)
        /\ seen[t].head # Detached => ~ HasUnpushed(ref[seen[t].head], seen[t].head)
     \/ tree[t].place = "missing" /\ ~ ListedRefUnpushed(t)

-----------------------------------------------------------------------------
(* The run *)

Init ==
  /\ \E r \in InitialRepos :
       ref = r.ref /\ pushed = r.pushed /\ pr = r.pr /\ tree = r.tree /\ clock = r.clock
  /\ gc = Idle
  /\ seen = [t \in Trees |-> NoTree]
  /\ pending = {} /\ plan = {}
  /\ outcome = [t \in Trees |-> "none"]
  /\ changes = 0 /\ runs = 0
  /\ work = Reachable
  /\ harmed = {} /\ vanished = {} /\ raced = FALSE /\ moved = FALSE

(* Mutant of List: takes the primary checkout for a worktree.               *)
ListWithPrimary(stale) ==
  /\ gc.at = "idle" /\ runs < MaxRuns /\ Listed # {}
  /\ gc' = [gc EXCEPT !.at = "snapshot", !.stale = stale]
  /\ seen' = seen
  /\ pending' = Listed \cup {NoTree}
  /\ outcome' = [t \in Trees |-> "none"]
  /\ runs' = runs + 1
  /\ moved' = FALSE
  /\ UNCHANGED <<repo, plan, changes, work, harmed, raced, vanished>>

(* git worktree list *)
List(stale) ==
  /\ gc.at = "idle" /\ runs < MaxRuns /\ Listed # {}
  /\ gc' = [gc EXCEPT !.at = "snapshot", !.stale = stale]
  /\ seen' = [t \in Trees |->
       IF tree[t] = NoTree THEN NoTree
       ELSE [head |-> tree[t].head, tip |-> HeadTip(t), locked |-> tree[t].locked,
             prunable |-> tree[t].place # "present", live |-> FALSE, pr |-> NoPr]]
  /\ pending' = Listed
  /\ outcome' = [t \in Trees |-> "none"]
  /\ runs' = runs + 1
  /\ moved' = FALSE
  /\ UNCHANGED <<repo, plan, changes, work, harmed, raced, vanished>>

(* One pgrep/lsof snapshot and one `gh pr list` for the whole run; when gh  *)
(* fails every branch reads as having no pull request.                      *)
Snapshot(ghAnswers) ==
  /\ gc.at = "snapshot"
  /\ gc' = [gc EXCEPT !.at = "classify"]
  /\ seen' = [t \in Trees |->
       IF t \notin pending THEN seen[t]
       ELSE [seen[t] EXCEPT !.live = tree[t] # NoTree /\ tree[t].live,
                            !.pr = IF ghAnswers /\ seen[t].head # Detached
                                     THEN pr[seen[t].head] ELSE NoPr]]
  /\ UNCHANGED <<repo, pending, plan, outcome, runs, changes, history>>

Classify(t) ==
  /\ gc.at = "classify" /\ t \in pending
  /\ pending' = pending \ {t}
  /\ \/ (Removable(t) \/ Misread(t)) /\ plan' = plan \cup {t}
     \/ ~ Removable(t) /\ plan' = plan
  /\ gc' = IF pending' = {} THEN [gc EXCEPT !.at = "execute"] ELSE gc
  /\ UNCHANGED <<repo, seen, outcome, runs, changes, history>>

(* An entry that raises is recorded and the loop goes on to the next.       *)
Recheck(t) ==
  /\ gc.at = "execute" /\ t \in plan
  /\ plan' = plan \ {t}
  /\ \/ /\ StillSafe(t) \/ Misread(t)
        /\ gc' = [gc EXCEPT !.at = "remove", !.tree = t]
        /\ UNCHANGED outcome
     \/ /\ ~ StillSafe(t)
        /\ outcome' = [outcome EXCEPT ![t] = "skipped"]
        /\ UNCHANGED gc
     \/ /\ outcome' = [outcome EXCEPT ![t] = "error"]
        /\ UNCHANGED gc
  /\ UNCHANGED <<repo, seen, pending, runs, changes, history>>

(* git worktree remove --force: refused for a locked or damaged worktree,   *)
(* and it may fail half-way, with files or the whole directory gone.        *)
RemoveTree ==
  LET t == gc.tree IN
  /\ gc.at = "remove"
  /\ tree[t].place \in {"present", "missing"} /\ ~ tree[t].locked
  /\ harmed' = IF tree[t].dirty \/ tree[t].live THEN harmed \cup {t} ELSE harmed
  /\ \/ /\ tree' = [tree EXCEPT ![t] = NoTree]
        /\ outcome' = [outcome EXCEPT ![t] = "removed"]
        /\ gc' = IF seen[t].head = Detached
                   THEN [gc EXCEPT !.at = "execute", !.tree = NoTree]
                   ELSE [gc EXCEPT !.at = "branch"]
     \/ /\ tree[t].place = "present"
        /\ \E place \in {"present", "missing", "broken"} :
             tree' = [tree EXCEPT ![t].place = place, ![t].dirty = place # "missing"]
        /\ outcome' = [outcome EXCEPT ![t] = "error"]
        /\ gc' = [gc EXCEPT !.at = "execute", !.tree = NoTree]
  /\ UNCHANGED <<ref, pushed, pr, clock, seen, pending, plan, runs, changes,
                 work, raced, moved, vanished>>

RemoveTreeFails ==
  /\ gc.at = "remove"
  /\ outcome' = [outcome EXCEPT ![gc.tree] = "error"]
  /\ gc' = [gc EXCEPT !.at = "execute", !.tree = NoTree]
  /\ UNCHANGED <<repo, seen, pending, plan, runs, changes, history>>

(* git branch -D: refused for a branch that is gone or checked out.         *)
DeleteBranch ==
  LET b == seen[gc.tree].head IN
  /\ gc.at = "branch"
  /\ ref[b] # NoRef /\ ~ CheckedOut(b)
  /\ ref' = [ref EXCEPT ![b] = NoRef]
  /\ gc' = [gc EXCEPT !.at = "execute", !.tree = NoTree]
  /\ UNCHANGED <<pushed, pr, tree, clock, seen, pending, plan, outcome, runs,
                 changes, history>>

(* Mutant of DeleteBranchFails: forgets the error.                          *)
DeleteBranchFailsSilently ==
  /\ gc.at = "branch"
  /\ gc' = [gc EXCEPT !.at = "execute", !.tree = NoTree]
  /\ UNCHANGED <<repo, seen, pending, plan, outcome, runs, changes, history>>

DeleteBranchFails ==
  /\ gc.at = "branch"
  /\ outcome' = [outcome EXCEPT ![gc.tree] = "error"]
  /\ gc' = [gc EXCEPT !.at = "execute", !.tree = NoTree]
  /\ UNCHANGED <<repo, seen, pending, plan, runs, changes, history>>

Report ==
  /\ gc.at = "execute" /\ plan = {}
  /\ gc' = Idle
  /\ UNCHANGED <<repo, seen, pending, plan, outcome, runs, changes, history>>

(* Ctrl-C or a kill: no report, and the worktrees are left as they are.     *)
Interrupted ==
  /\ gc.at # "idle"
  /\ gc' = Idle
  /\ pending' = {} /\ plan' = {}
  /\ outcome' = [t \in Trees |-> "none"]
  /\ UNCHANGED <<repo, seen, runs, changes, history>>

-----------------------------------------------------------------------------
(* Everyone else *)

Changed ==
  /\ changes < MaxChanges
  /\ changes' = changes + 1
  /\ clock' = clock + 1
  /\ raced' = (raced \/ gc.at \in {"remove", "branch"})
  /\ moved' = TRUE
  /\ UNCHANGED <<run, harmed>>

(* A commit that another's change leaves unreachable was dropped on purpose *)
Dropping == work' = work \cap Reachable'

Commit(t) ==
  /\ Changed
  /\ tree[t] # NoTree /\ tree[t].place = "present"
  /\ IF tree[t].head = Detached
       THEN /\ tree' = [tree EXCEPT ![t].tip = @ \cup {clock'}]
            /\ UNCHANGED ref
       ELSE /\ ref' = [ref EXCEPT ![tree[t].head] = @ \cup {clock'}]
            /\ UNCHANGED tree
  /\ work' = work \cup {clock'}
  /\ UNCHANGED <<pushed, pr, vanished>>

Checkout(t, head) ==
  /\ Changed
  /\ tree[t] # NoTree /\ tree[t].place = "present" /\ head # tree[t].head
  /\ head # Detached => ref[head] # NoRef /\ ~ CheckedOut(head)
  /\ tree' = [tree EXCEPT ![t].head = head,
                          ![t].tip = IF head = Detached THEN HeadTip(t) ELSE {}]
  /\ UNCHANGED <<ref, pushed, pr, vanished>>
  /\ Dropping

(* git push, or a fetch --prune after the remote branch was deleted         *)
Sync(b) ==
  /\ Changed
  /\ pushed' = [pushed EXCEPT ![b] = IF ref[b] # pushed[b] THEN ref[b] ELSE NoRef]
  /\ UNCHANGED <<ref, pr, tree, vanished>>
  /\ Dropping

UpdatePr(b) ==
  /\ Changed
  /\ \E state \in {"open"} \cup Resolved :
       pr' = [pr EXCEPT ![b] = [state |-> state, at |-> IF state = "open" THEN 0 ELSE clock']]
  /\ UNCHANGED <<ref, pushed, tree, work, vanished>>

(* Files are edited or cleaned up, an agent comes or goes, or somebody runs *)
(* git worktree lock or unlock.                                             *)
Use(t, what) ==
  /\ Changed
  /\ tree[t] # NoTree /\ tree[t].place = "present"
  /\ tree' = [tree EXCEPT ![t][what] = ~ @]
  /\ UNCHANGED <<ref, pushed, pr, work, vanished>>

(* The directory, its .git pointer or both are removed by hand.             *)
Damage(t, place) ==
  /\ Changed
  /\ tree[t] # NoTree /\ tree[t].place = "present"
  /\ tree' = [tree EXCEPT ![t].place = place,
                          ![t].dirty = @ /\ place = "broken", ![t].live = FALSE]
  /\ vanished' = IF gc.at # "idle" /\ place = "missing" /\ tree[t].head = Detached
                   THEN vanished \cup tree[t].tip ELSE vanished
  /\ UNCHANGED <<ref, pushed, pr, work>>

-----------------------------------------------------------------------------
Next ==
  \/ \E stale \in BOOLEAN : List(stale)
  \/ \E ghAnswers \in BOOLEAN : Snapshot(ghAnswers)
  \/ \E t \in Trees : Classify(t) \/ Recheck(t)
  \/ RemoveTree \/ RemoveTreeFails
  \/ DeleteBranch \/ DeleteBranchFails
  \/ Report \/ Interrupted
  \/ \E t \in Trees : Commit(t) \/ \E head \in Heads : Checkout(t, head)
  \/ \E b \in Branches : Sync(b) \/ UpdatePr(b)
  \/ \E t \in Trees : \E what \in {"dirty", "live", "locked"} : Use(t, what)
  \/ \E t \in Trees : \E place \in Places \ {"present"} : Damage(t, place)

Spec == Init /\ [][Next]_vars
-----------------------------------------------------------------------------
(* Properties *)

(* State types of the repository and of the run.                            *)
TypeOK ==
  /\ clock \in Nat
  /\ ref \in [Branches -> {NoRef} \cup Tips(0..clock)]
  /\ pushed \in [Branches -> {NoRef} \cup Tips(0..clock)]
  /\ pr \in [Branches -> Requests(0..clock)]
  /\ tree \in [Trees -> Checkouts(0..clock) \cup {NoTree}]
  /\ gc \in [at : {"idle", "snapshot", "classify", "execute", "remove", "branch"},
             tree : Trees \cup {NoTree}, stale : BOOLEAN]
  /\ seen \in [Trees -> Entries(0..clock) \cup {NoTree}]
  /\ pending \subseteq Trees /\ plan \subseteq Trees
  /\ outcome \in [Trees -> {"none", "removed", "skipped", "error"}]

(* A commit that is on no other branch and was never pushed is not lost to  *)
(* a gc run, whatever was committed, checked out, pushed or pruned since it *)
(* was planned and whatever the run removed before: the module docstring's  *)
(* "assume unsafe".  Excepted are the documented instants between a recheck *)
(* and the end of its removal, and the commits on a detached HEAD whose     *)
(* directory is deleted while the gc runs: the recheck of a missing         *)
(* worktree asks about the commit that was listed, not about the one its    *)
(* HEAD names now.                                                          *)
WorkSurvives == ~ raced => work \subseteq (Reachable \cup vanished)

(* A worktree with uncommitted files or with an agent in it is not removed, *)
(* even if it became so after it was planned.                               *)
InUseSurvives == ~ raced => harmed = {}

(* On a bare --yes a worktree that is still there goes only when the pull   *)
(* request of its branch was merged or closed and nothing was committed to  *)
(* the branch since: a branch that outlived its pull request is kept.       *)
RemovesOnlyFinished ==
  [][\A t \in Trees :
       (/\ tree[t] # NoTree /\ tree'[t] = NoTree
        /\ tree[t].place = "present" /\ ~ gc.stale /\ ~ moved)
       => /\ tree[t].head # Detached
          /\ pr[tree[t].head].state \in Resolved
          /\ \A c \in HeadTip(t) : c <= pr[tree[t].head].at]_vars

(* An entry reported removed without an error left neither its worktree nor *)
(* the branch it was planned with.                                          *)
ReportIsTrue ==
  \A t \in Trees :
    (outcome[t] = "removed" /\ gc.at # "branch")
    => tree[t] = NoTree /\ (seen[t].head # Detached => ref[seen[t].head] = NoRef)
=============================================================================
