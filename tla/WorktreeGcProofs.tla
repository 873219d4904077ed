--------------------------- MODULE WorktreeGcProofs ---------------------------
(***************************************************************************)
(* Theorems about WorktreeGc, for every set of worktrees and branches, every *)
(* repository to start from and every number of runs and changes: the types, *)
(* that neither commits nor files nor an agent's worktree are lost to a gc,  *)
(* that the report is true, and that a bare --yes removes only what its      *)
(* pull request finished.                                                    *)
(***************************************************************************)
EXTENDS WorktreeGc, NaturalsInduction, WellFoundedInduction, TLAPS

(* Every non-empty set of naturals has a least element. *)
LEMMA LeastElement ==
    ASSUME NEW S \in SUBSET Nat, S # {}
    PROVE  \E m \in S : \A k \in S : m <= k
<1>1. PICK m \in S : \A k \in S : <<k, m>> \notin OpToRel(<, Nat)
  BY NatLessThanWellFounded, WFMin
<1>2. ASSUME NEW k \in S PROVE m <= k
  <2>1. k \in Nat /\ m \in Nat /\ ~(k < m)
    BY <1>1 DEF OpToRel
  <2> QED BY <2>1
<1> QED BY <1>2

(* ... and every non-empty set of naturals up to a bound a greatest one. *)
LEMMA GreatestElement ==
    ASSUME NEW n \in Nat, NEW S \in SUBSET (0..n), S # {}
    PROVE  \E m \in S : \A k \in S : k <= m
<1> DEFINE Below == {d \in Nat : \E k \in S : d = n - k}
<1>1. \A k \in S : k \in 0..n /\ n - k \in Below
  OBVIOUS
<1>2. PICK d \in Below : \A e \in Below : d <= e
  <2>1. Below \in SUBSET Nat
    OBVIOUS
  <2> HIDE DEF Below
  <2>2. Below # {}
    BY <1>1
  <2> QED BY <2>1, <2>2, LeastElement
<1>3. PICK m \in S : d = n - m
  BY <1>2
<1>4. ASSUME NEW k \in S PROVE k <= m
  <2>1. k \in 0..n /\ m \in 0..n /\ d <= n - k
    BY <1>1, <1>2
  <2> QED BY <1>3, <2>1
<1> QED BY <1>4

(* What the gc still has to look at, and what it is about to remove.        *)
Queued   == pending \cup plan
Removing == {t \in Trees : gc.at = "remove" /\ t = gc.tree}

(* Every change takes an instant.                                           *)
ClockInv ==
  /\ changes \in 0..MaxChanges
  /\ \E r \in InitialRepos : clock = r.clock + changes

(* git keeps the branch a worktree is on, and a directory that is gone has  *)
(* no uncommitted files.                                                    *)
HeadInv ==
  \A t \in Listed :
    /\ tree[t].head # Detached => ref[tree[t].head] # NoRef
    /\ tree[t].place = "missing" => ~ tree[t].dirty

(* Where the run is, and what it knows of the worktrees it works on.        *)
StepInv ==
  /\ gc.at \in {"idle", "snapshot"} => plan = {}
  /\ gc.at \notin {"snapshot", "classify"} => pending = {}
  /\ \A t \in Queued : tree[t] # NoTree /\ seen[t] # NoTree
  /\ gc.at = "remove" =>
       gc.tree \in Trees \ plan /\ tree[gc.tree] # NoTree /\ seen[gc.tree] # NoTree
  /\ gc.at = "branch" =>
       /\ gc.tree \in Trees /\ tree[gc.tree] = NoTree /\ seen[gc.tree] # NoTree
       /\ seen[gc.tree].head # Detached

(* A recheck of a missing worktree on no branch asks about the commit it    *)
(* lost, unless the directory went while the gc was at work.                *)
MissingInv ==
  \A t \in Queued \cup Removing :
    tree[t].place = "missing" /\ tree[t].head = Detached =>
      tree[t].tip \subseteq vanished \/ (seen[t].head = Detached /\ seen[t].tip = tree[t].tip)

(* What the recheck found is so until the removal is over.                  *)
RecheckInv ==
  ~ raced =>
    /\ \A t \in Removing : StillSafe(t) \/ Misread(t)
    /\ gc.at = "branch" => ~ HasUnpushed(ref[seen[gc.tree].head], seen[gc.tree].head)

(* An entry reported removed is gone, but for the branch the run is at.     *)
ReportInv ==
  \A t \in Trees :
    outcome[t] = "removed" /\ ~ (gc.at = "branch" /\ gc.tree = t) =>
      /\ tree[t] = NoTree /\ seen[t] # NoTree
      /\ seen[t].head # Detached => ref[seen[t].head] = NoRef

(* In a run that nobody disturbs the listing and the snapshot stay true ... *)
ListingHolds(t) ==
  /\ seen[t].prunable = (tree[t].place # "present")
  /\ seen[t].head = tree[t].head
  /\ seen[t].pr # NoPr => tree[t].head # Detached /\ seen[t].pr = pr[tree[t].head]

(* ... and what was planned on a bare --yes has a finished pull request.    *)
Finished(t) ==
  tree[t].place = "present" /\ ~ gc.stale =>
    /\ tree[t].head # Detached
    /\ pr[tree[t].head].state \in Resolved
    /\ \A c \in HeadTip(t) : c <= pr[tree[t].head].at

FinishedInv ==
  ~ moved => /\ \A t \in pending : ListingHolds(t)
             /\ \A t \in plan \cup Removing : Finished(t)

IInv ==
  /\ TypeOK /\ ClockInv /\ HeadInv /\ StepInv
  /\ MissingInv /\ RecheckInv /\ ReportInv /\ FinishedInv
  /\ WorkSurvives /\ InUseSurvives
-----------------------------------------------------------------------------
(* What there was up to an instant there is up to any later one.            *)
LEMMA Widen ==
  ASSUME NEW m \in Nat, NEW n \in Nat, m <= n
  PROVE  /\ Tips(0..m) \subseteq Tips(0..n)
         /\ Checkouts(0..m) \subseteq Checkouts(0..n)
         /\ Requests(0..m) \subseteq Requests(0..n)
         /\ Entries(0..m) \subseteq Entries(0..n)
<1>1. 0..m \subseteq 0..n
  OBVIOUS
<1>2. Tips(0..m) \subseteq Tips(0..n)
  BY <1>1 DEF Tips
<1>3. Requests(0..m) \subseteq Requests(0..n)
  BY <1>1 DEF Requests
<1>4. Checkouts(0..m) \subseteq Checkouts(0..n)
  BY <1>1, <1>2 DEF Checkouts
<1>5. Entries(0..m) \subseteq Entries(0..n)
  BY <1>2, <1>3 DEF Entries
<1> QED BY <1>2, <1>3, <1>4, <1>5

(* The marks are no worktree, no entry and no tip of the present.           *)
LEMMA Marks ==
  ASSUME TypeOK, ClockInv
  PROVE  /\ NoTree \notin Trees /\ Detached \notin Branches
         /\ NoRef \notin Tips(0..clock)
         /\ changes < MaxChanges => NoRef \notin Tips(0..clock + 1)
         /\ \A n \in Nat : NoTree \notin Checkouts(0..n) /\ NoTree \notin Entries(0..n)
<1>1. PICK r \in InitialRepos : clock = r.clock + changes
  BY DEF ClockInv
<1>2. r.clock \in Nat /\ MaxChanges \in Nat /\ changes \in 0..MaxChanges
  BY MarksAssumption, ReposAssumption DEF ClockInv
<1>3. NoRef \notin Tips(0..r.clock + MaxChanges)
  BY ReposAssumption
<1>4. NoRef \notin Tips(0..clock)
  BY <1>1, <1>2, <1>3, Widen DEF TypeOK
<1>5. changes < MaxChanges => NoRef \notin Tips(0..clock + 1)
  BY <1>1, <1>2, <1>3, Widen DEF TypeOK
<1>6. ASSUME NEW n \in Nat
      PROVE  NoTree \notin Checkouts(0..n) /\ NoTree \notin Entries(0..n)
  <2>1. 0..n \subseteq Nat
    OBVIOUS
  <2>2. Tips(0..n) \subseteq Tips(Nat) /\ Requests(0..n) \subseteq Requests(Nat)
    BY <2>1 DEF Tips, Requests
  <2>3. Checkouts(0..n) \subseteq Checkouts(Nat) /\ Entries(0..n) \subseteq Entries(Nat)
    BY <2>1, <2>2 DEF Checkouts, Entries
  <2> QED BY <2>3, MarksAssumption
<1> QED BY <1>4, <1>5, <1>6, MarksAssumption

(* Where a commit is kept: in a branch, in a remote-tracking ref or under   *)
(* the HEAD of a worktree.                                                  *)
Held(c) ==
  \/ \E b \in Branches : ref[b] # NoRef /\ c \in ref[b]
  \/ \E b \in Branches : pushed[b] # NoRef /\ c \in pushed[b]
  \/ \E t \in Listed : HeadTip(t) # NoRef /\ c \in HeadTip(t)

LEMMA ReachableMeans ==
  /\ \A c : c \in Reachable <=> Held(c)
  /\ \A c : c \in Reachable' <=> Held(c)'
BY DEF Reachable, Refs, Held, Listed, HeadTip

(* What _has_unpushed_commits denies is in another ref.                     *)
LEMMA KeptElsewhere ==
  ASSUME NEW tip, NEW own, ~ HasUnpushed(tip, own)
  PROVE  \/ tip = {}
         \/ \E b \in Branches : pushed[b] # NoRef /\ tip \subseteq pushed[b]
         \/ \E b \in Branches \ {own} : ref[b] # NoRef /\ tip \subseteq ref[b]
BY DEF HasUnpushed

(* A checkout is where its HEAD is: at its branch's tip or at its own.      *)
LEMMA HeadTipType ==
  ASSUME TypeOK, ClockInv, HeadInv, NEW t \in Listed
  PROVE  /\ tree[t] \in Checkouts(0..clock)
         /\ HeadTip(t) \in Tips(0..clock) /\ HeadTip(t) # NoRef
<1>1. tree[t] \in Checkouts(0..clock)
  BY DEF TypeOK, Listed
<1>2. CASE tree[t].head = Detached
  BY <1>1, <1>2, Marks DEF HeadTip, Checkouts
<1>3. CASE tree[t].head # Detached
  <2>1. tree[t].head \in Branches /\ ref[tree[t].head] # NoRef
    BY <1>1, <1>3 DEF Checkouts, Heads, HeadInv
  <2> QED BY <1>3, <1>1, <2>1 DEF TypeOK, HeadTip
<1> QED BY <1>1, <1>2, <1>3

-----------------------------------------------------------------------------
LEMMA InitIInv == Init => IInv
<1> SUFFICES ASSUME Init PROVE IInv
  OBVIOUS
<1>1. PICK r \in InitialRepos :
        ref = r.ref /\ pushed = r.pushed /\ pr = r.pr /\ tree = r.tree /\ clock = r.clock
  BY DEF Init
<1>2. /\ clock \in Nat /\ changes = 0 /\ MaxChanges \in Nat
      /\ gc = Idle /\ pending = {} /\ plan = {}
      /\ outcome = [t \in Trees |-> "none"] /\ seen = [t \in Trees |-> NoTree]
      /\ work = Reachable /\ harmed = {}
  BY <1>1, ReposAssumption, MarksAssumption DEF Init
<1>3. TypeOK
  <2>1. /\ ref \in [Branches -> {NoRef} \cup Tips(0..clock)]
        /\ pushed \in [Branches -> {NoRef} \cup Tips(0..clock)]
        /\ pr \in [Branches -> Requests(0..clock)]
        /\ tree \in [Trees -> Checkouts(0..clock) \cup {NoTree}]
    BY <1>1, ReposAssumption
  <2>2. gc \in [at : {"idle", "snapshot", "classify", "execute", "remove", "branch"},
                tree : Trees \cup {NoTree}, stale : BOOLEAN]
    BY <1>2 DEF Idle
  <2> QED BY <2>1, <2>2, <1>2 DEF TypeOK
<1>4. ClockInv
  BY <1>1, <1>2 DEF ClockInv
<1>5. HeadInv
  BY <1>1, ReposAssumption DEF HeadInv, Listed
<1>6. gc.at = "idle" /\ Removing = {} /\ Queued = {}
  BY <1>2 DEF Idle, Removing, Queued
<1>7. StepInv
  BY <1>2, <1>6 DEF StepInv
<1>8. MissingInv /\ RecheckInv /\ ReportInv /\ FinishedInv
  BY <1>2, <1>6 DEF MissingInv, RecheckInv, ReportInv, FinishedInv
<1>9. WorkSurvives /\ InUseSurvives
  BY <1>2 DEF WorkSurvives, InUseSurvives
<1> QED BY <1>3, <1>4, <1>5, <1>7, <1>8, <1>9 DEF IInv

-----------------------------------------------------------------------------
(* A step of the gc that leaves the repository and the history alone keeps  *)
(* what is said of them.                                                    *)
LEMMA RepoKept ==
  ASSUME IInv, UNCHANGED <<repo, changes, history>>
  PROVE  ClockInv' /\ HeadInv' /\ WorkSurvives' /\ InUseSurvives'
<1>1. ClockInv'
  BY DEF IInv, ClockInv, repo
<1>2. HeadInv'
  BY DEF IInv, HeadInv, Listed, repo
<1>3. WorkSurvives'
  BY DEF IInv, WorkSurvives, Reachable, Refs, HeadTip, Listed, repo, history
<1>4. InUseSurvives'
  BY DEF IInv, InUseSurvives, history
<1> QED BY <1>1, <1>2, <1>3, <1>4

LEMMA ListKeeps ==
  ASSUME IInv, NEW stale \in BOOLEAN, List(stale)
  PROVE  IInv'
<1>0. /\ TypeOK /\ ClockInv /\ HeadInv /\ StepInv
      /\ MissingInv /\ RecheckInv /\ ReportInv /\ FinishedInv
      /\ WorkSurvives /\ InUseSurvives
  BY DEF IInv
<1> USE <1>0
<1>1. /\ UNCHANGED <<ref, pushed, pr, tree, clock, plan, changes, work, harmed, raced, vanished>>
      /\ gc' = [gc EXCEPT !.at = "snapshot", !.stale = stale]
      /\ pending' = Listed /\ plan = {}
      /\ outcome' = [t \in Trees |-> "none"]
      /\ seen' = [t \in Trees |->
           IF tree[t] = NoTree THEN NoTree
           ELSE [head |-> tree[t].head, tip |-> HeadTip(t), locked |-> tree[t].locked,
                 prunable |-> tree[t].place # "present", live |-> FALSE, pr |-> NoPr]]
  BY DEF List, repo, StepInv
<1>2. \A t \in Listed :
        [head |-> tree[t].head, tip |-> HeadTip(t), locked |-> tree[t].locked,
         prunable |-> tree[t].place # "present", live |-> FALSE, pr |-> NoPr] \in Entries(0..clock)
  <2> TAKE t \in Listed
  <2>1. tree[t] \in Checkouts(0..clock) /\ HeadTip(t) \in Tips(0..clock)
    BY HeadTipType
  <2>2. NoPr \in Requests(0..clock)
    BY DEF TypeOK, NoPr, Requests
  <2> QED BY <2>1, <2>2 DEF Entries, Checkouts
<1>3. seen' \in [Trees -> Entries(0..clock) \cup {NoTree}]
  BY <1>1, <1>2 DEF Listed
<1>4. gc' \in [at : {"idle", "snapshot", "classify", "execute", "remove", "branch"},
               tree : Trees \cup {NoTree}, stale : BOOLEAN] /\ gc'.at = "snapshot"
  BY <1>1 DEF TypeOK
<1>5. TypeOK'
  BY <1>1, <1>3, <1>4 DEF TypeOK, Listed
<1>6. ClockInv' /\ HeadInv'
  BY <1>1 DEF ClockInv, HeadInv, Listed
<1>7. \A t \in Listed :
        /\ seen'[t] # NoTree
        /\ seen'[t].head = tree[t].head /\ seen'[t].tip = HeadTip(t)
        /\ seen'[t].prunable = (tree[t].place # "present") /\ seen'[t].pr = NoPr
  BY <1>1, <1>2, Marks DEF Listed, TypeOK
<1>8. Queued' = Listed /\ Removing' = {}
  BY <1>1, <1>4 DEF Queued, Removing
<1>9. StepInv'
  BY <1>1, <1>4, <1>7, <1>8 DEF StepInv, Listed
<1>10. MissingInv'
  BY <1>1, <1>7, <1>8 DEF MissingInv, HeadTip
<1>11. RecheckInv' /\ ReportInv'
  BY <1>1, <1>4, <1>8 DEF RecheckInv, ReportInv
<1>12. FinishedInv'
  <2>1. \A t \in Listed : ListingHolds(t)'
    BY <1>1, <1>7 DEF ListingHolds, NoPr
  <2> QED BY <2>1, <1>1, <1>8 DEF FinishedInv
<1>13. WorkSurvives' /\ InUseSurvives'
  BY <1>1 DEF WorkSurvives, InUseSurvives, Reachable, Refs, HeadTip, Listed
<1> QED BY <1>5, <1>6, <1>9, <1>10, <1>11, <1>12, <1>13 DEF IInv

LEMMA SnapshotKeeps ==
  ASSUME IInv, NEW ghAnswers \in BOOLEAN, Snapshot(ghAnswers)
  PROVE  IInv'
<1>0. /\ TypeOK /\ ClockInv /\ HeadInv /\ StepInv
      /\ MissingInv /\ RecheckInv /\ ReportInv /\ FinishedInv
      /\ WorkSurvives /\ InUseSurvives
  BY DEF IInv
<1> USE <1>0
<1>1. /\ UNCHANGED <<repo, pending, plan, outcome, runs, changes, history>>
      /\ gc.at = "snapshot" /\ gc' = [gc EXCEPT !.at = "classify"] /\ plan = {}
      /\ seen' = [t \in Trees |->
           IF t \notin pending THEN seen[t]
           ELSE [seen[t] EXCEPT !.live = tree[t] # NoTree /\ tree[t].live,
                                !.pr = IF ghAnswers /\ seen[t].head # Detached
                                         THEN pr[seen[t].head] ELSE NoPr]]
  BY DEF Snapshot, StepInv
<1>2. UNCHANGED <<ref, pushed, pr, tree, clock, vanished, raced, moved>>
  BY <1>1 DEF repo, history
<1>3. \A t \in pending : t \in Trees /\ t \in Listed /\ seen[t] \in Entries(0..clock)
  BY DEF TypeOK, StepInv, Queued, Listed
<1>4. \A t \in pending :
        /\ seen'[t] \in Entries(0..clock)
        /\ seen'[t].head = seen[t].head /\ seen'[t].tip = seen[t].tip
        /\ seen'[t].prunable = seen[t].prunable
        /\ seen'[t].pr # NoPr => seen[t].head # Detached /\ seen'[t].pr = pr[seen[t].head]
  <2> TAKE t \in pending
  <2>1. seen[t] \in Entries(0..clock) /\ tree[t] \in Checkouts(0..clock)
    BY <1>3, HeadTipType
  <2>2. NoPr \in Requests(0..clock)
    BY DEF TypeOK, NoPr, Requests
  <2>3. seen[t].head # Detached => pr[seen[t].head] \in Requests(0..clock)
    BY <2>1 DEF TypeOK, Entries, Heads
  <2>4. (tree[t] # NoTree /\ tree[t].live) \in BOOLEAN
    OBVIOUS
  <2> QED BY <1>1, <1>3, <2>1, <2>2, <2>3, <2>4 DEF Entries
<1>5. \A t \in Trees : t \notin pending => seen'[t] = seen[t]
  BY <1>1
<1>6. seen' \in [Trees -> Entries(0..clock) \cup {NoTree}]
  BY <1>1, <1>4, <1>5 DEF TypeOK
<1>7. gc' \in [at : {"idle", "snapshot", "classify", "execute", "remove", "branch"},
               tree : Trees \cup {NoTree}, stale : BOOLEAN] /\ gc'.at = "classify"
  BY <1>1 DEF TypeOK
<1>8. TypeOK'
  BY <1>1, <1>2, <1>6, <1>7 DEF TypeOK
<1>9. Queued' = pending /\ Queued = pending /\ Removing' = {}
  BY <1>1, <1>7 DEF Queued, Removing
<1>10. StepInv'
  <2>1. \A t \in Queued' : tree'[t] # NoTree /\ seen'[t] # NoTree
    BY <1>2, <1>3, <1>4, <1>9, Marks DEF Listed, TypeOK
  <2> QED BY <2>1, <1>1, <1>7 DEF StepInv
<1>11. MissingInv'
  BY <1>2, <1>4, <1>9 DEF MissingInv
<1>12. RecheckInv'
  BY <1>7, <1>9 DEF RecheckInv
<1>13. ReportInv'
  BY <1>1, <1>2, <1>3, <1>5 DEF ReportInv, Listed
<1>14. FinishedInv'
  <2>1. ~ moved => \A t \in pending : ListingHolds(t)'
    BY <1>2, <1>4 DEF FinishedInv, ListingHolds
  <2> QED BY <2>1, <1>1, <1>2, <1>9 DEF FinishedInv
<1> QED BY <1>1, <1>8, <1>10, <1>11, <1>12, <1>13, <1>14, RepoKept DEF IInv

(* What makes a commit that was planned for removal finished work.          *)
LEMMA OutlivedSaysFinished ==
  ASSUME TypeOK, ClockInv, HeadInv, NEW t \in Listed,
         tree[t].head # Detached, seen[t].pr = pr[tree[t].head], ~ Outlived(t)
  PROVE  \A c \in HeadTip(t) : c <= pr[tree[t].head].at
<1> DEFINE S == HeadTip(t) \cup {tree[t].born}
<1>1. tree[t] \in Checkouts(0..clock) /\ HeadTip(t) \in Tips(0..clock) /\ clock \in Nat
  BY HeadTipType DEF TypeOK
<1>2. S \in SUBSET (0..clock) /\ S # {}
  BY <1>1 DEF Checkouts, Tips
<1>3. Max(S) \in S /\ \A c \in S : c <= Max(S)
  BY <1>1, <1>2, GreatestElement DEF Max
<1>4. tree[t].head \in Branches
  BY <1>1 DEF Checkouts, Heads
<1>5. pr[tree[t].head].at \in 0..clock
  BY <1>4 DEF TypeOK, Requests
<1>6. ~ (Max(S) > pr[tree[t].head].at)
  BY DEF Outlived, LastActivity
<1> HIDE DEF S
<1>7. \A c \in S : c <= pr[tree[t].head].at
  <2> TAKE c \in S
  <2>1. c \in 0..clock /\ Max(S) \in 0..clock /\ c <= Max(S)
    BY <1>2, <1>3
  <2> QED BY <2>1, <1>1, <1>5, <1>6
<1> QED BY <1>7 DEF S

LEMMA ClassifyKeeps ==
  ASSUME IInv, NEW t \in Trees, Classify(t)
  PROVE  IInv'
<1>0. /\ TypeOK /\ ClockInv /\ HeadInv /\ StepInv
      /\ MissingInv /\ RecheckInv /\ ReportInv /\ FinishedInv
      /\ WorkSurvives /\ InUseSurvives
  BY DEF IInv
<1> USE <1>0
<1>1. /\ UNCHANGED <<repo, changes, history>>
      /\ UNCHANGED <<ref, pushed, pr, tree, clock, seen, outcome, vanished, raced, moved>>
      /\ gc.at = "classify" /\ t \in pending /\ pending' = pending \ {t}
      /\ (plan' = plan \cup {t} /\ (Removable(t) \/ Misread(t))) \/ plan' = plan
      /\ gc' = IF pending' = {} THEN [gc EXCEPT !.at = "execute"] ELSE gc
  BY DEF Classify, repo, history
<1>2. gc' \in [at : {"idle", "snapshot", "classify", "execute", "remove", "branch"},
               tree : Trees \cup {NoTree}, stale : BOOLEAN]
      /\ gc'.at \in {"classify", "execute"} /\ (gc'.at = "execute" => pending' = {})
      /\ gc'.stale = gc.stale
  BY <1>1 DEF TypeOK
<1>3. TypeOK'
  BY <1>1, <1>2 DEF TypeOK
<1>4. Queued' \subseteq Queued /\ Removing' = {}
  BY <1>1, <1>2 DEF Queued, Removing
<1>5. StepInv'
  BY <1>1, <1>2, <1>4 DEF StepInv
<1>6. MissingInv' /\ RecheckInv' /\ ReportInv'
  BY <1>1, <1>2, <1>4 DEF MissingInv, RecheckInv, ReportInv
<1>7. FinishedInv'
  <2> SUFFICES ASSUME ~ moved PROVE FinishedInv'
    BY <1>1 DEF FinishedInv
  <2>1. \A u \in pending' : ListingHolds(u)'
    BY <1>1 DEF FinishedInv, ListingHolds
  <2>2. \A u \in plan : Finished(u)'
    BY <1>1, <1>2 DEF FinishedInv, Finished, HeadTip
  <2>3. ASSUME Removable(t) \/ Misread(t), tree[t].place = "present", ~ gc.stale
        PROVE  /\ tree[t].head # Detached
               /\ pr[tree[t].head].state \in Resolved
               /\ \A c \in HeadTip(t) : c <= pr[tree[t].head].at
    <3>1. ListingHolds(t)
      BY <1>1 DEF FinishedInv
    <3>2. CleanIsRemovable(t)
      BY <2>3, <3>1 DEF Removable, Misread, ListingHolds
    <3>3. seen[t].pr.state \in Resolved /\ ~ Outlived(t)
      BY <2>3, <3>2 DEF CleanIsRemovable
    <3>4. tree[t].head # Detached /\ seen[t].pr = pr[tree[t].head]
      BY <3>1, <3>3 DEF ListingHolds, NoPr, Resolved
    <3>5. t \in Listed
      BY <1>1 DEF StepInv, Queued, Listed
    <3> QED BY <3>3, <3>4, <3>5, OutlivedSaysFinished
  <2>4. \A u \in plan' : Finished(u)'
    BY <1>1, <1>2, <2>2, <2>3 DEF Finished, HeadTip
  <2> QED BY <1>4, <2>1, <2>4 DEF FinishedInv
<1> QED BY <1>1, <1>3, <1>5, <1>6, <1>7, RepoKept DEF IInv

LEMMA RecheckKeeps ==
  ASSUME IInv, NEW t \in Trees, Recheck(t)
  PROVE  IInv'
<1>0. /\ TypeOK /\ ClockInv /\ HeadInv /\ StepInv
      /\ MissingInv /\ RecheckInv /\ ReportInv /\ FinishedInv
      /\ WorkSurvives /\ InUseSurvives
  BY DEF IInv
<1> USE <1>0
<1>1. /\ UNCHANGED <<repo, changes, history>>
      /\ UNCHANGED <<ref, pushed, pr, tree, clock, seen, pending, vanished, raced, moved>>
      /\ gc.at = "execute" /\ t \in plan /\ plan' = plan \ {t} /\ pending = {}
  BY DEF Recheck, repo, history, StepInv
<1>2. \/ /\ gc' = [gc EXCEPT !.at = "remove", !.tree = t]
         /\ StillSafe(t) \/ Misread(t)
         /\ outcome' = outcome
      \/ /\ gc' = gc
         /\ \E how \in {"skipped", "error"} : outcome' = [outcome EXCEPT ![t] = how]
  BY DEF Recheck
<1>3. gc' \in [at : {"idle", "snapshot", "classify", "execute", "remove", "branch"},
               tree : Trees \cup {NoTree}, stale : BOOLEAN]
      /\ gc'.at \in {"execute", "remove"} /\ (gc'.at = "remove" => gc'.tree = t)
      /\ gc'.stale = gc.stale
  BY <1>1, <1>2 DEF TypeOK
<1>4. outcome' \in [Trees -> {"none", "removed", "skipped", "error"}]
  BY <1>2 DEF TypeOK
<1>5. TypeOK'
  BY <1>1, <1>3, <1>4 DEF TypeOK
<1>6. Queued' = plan \ {t} /\ Queued = plan /\ Removing' \subseteq {t}
  BY <1>1, <1>3 DEF Queued, Removing
<1>7. StepInv'
  BY <1>1, <1>3, <1>6 DEF StepInv
<1>8. MissingInv'
  BY <1>1, <1>6 DEF MissingInv
<1>9. RecheckInv'
  <2>1. gc'.at # "branch" /\ raced' = raced
    BY <1>1, <1>3
  <2>2. \A u \in Removing' : u = t /\ (StillSafe(t) \/ Misread(t))
    BY <1>1, <1>2, <1>3, <1>6 DEF Removing
  <2>3. StillSafe(t)' = StillSafe(t) /\ Misread(t)' = Misread(t)
    BY <1>1 DEF StillSafe, Misread, HeadTip, ListedRefUnpushed, HasUnpushed
  <2> QED BY <2>1, <2>2, <2>3 DEF RecheckInv
<1>10. ReportInv'
  BY <1>1, <1>2, <1>3 DEF ReportInv, TypeOK
<1>11. FinishedInv'
  BY <1>1, <1>3, <1>6 DEF FinishedInv, Finished, HeadTip
<1> QED BY <1>1, <1>5, <1>7, <1>8, <1>9, <1>10, <1>11, RepoKept DEF IInv

(* An entry that fails or is done, the end of a run and its interruption:   *)
(* the repository stays, and the run is at "execute" or over.               *)
LEMMA PutAsideKeeps ==
  ASSUME IInv, UNCHANGED <<repo, seen, changes, history>>,
         \/ /\ gc.at \in {"remove", "branch"} /\ UNCHANGED <<pending, plan>>
            /\ gc' = [gc EXCEPT !.at = "execute", !.tree = NoTree]
            /\ outcome' = [outcome EXCEPT ![gc.tree] = "error"]
         \/ gc.at = "execute" /\ gc' = Idle /\ plan = {} /\ UNCHANGED <<pending, plan, outcome>>
         \/ /\ gc' = Idle /\ pending' = {} /\ plan' = {}
            /\ outcome' = [u \in Trees |-> "none"]
  PROVE  IInv'
<1>0. /\ TypeOK /\ ClockInv /\ HeadInv /\ StepInv
      /\ MissingInv /\ RecheckInv /\ ReportInv /\ FinishedInv
      /\ WorkSurvives /\ InUseSurvives
  BY DEF IInv
<1> USE <1>0
<1>1. UNCHANGED <<ref, pushed, pr, tree, clock, vanished, raced, moved>>
  BY DEF repo, history
<1>2. gc' \in [at : {"idle", "snapshot", "classify", "execute", "remove", "branch"},
               tree : Trees \cup {NoTree}, stale : BOOLEAN]
      /\ gc'.at \in {"idle", "execute"} /\ (gc'.at = "execute" => gc'.stale = gc.stale)
  <2>1. CASE gc' = Idle
    BY <2>1 DEF Idle
  <2>2. CASE gc' = [gc EXCEPT !.at = "execute", !.tree = NoTree]
    BY <2>2 DEF TypeOK
  <2> QED BY <2>1, <2>2
<1>3. pending' = {} /\ plan' \subseteq plan /\ (gc'.at = "idle" => plan' = {})
  <2>1. CASE gc.at \in {"remove", "branch"} /\ UNCHANGED <<pending, plan>> /\ gc'.at = "execute"
    BY <2>1 DEF StepInv
  <2>2. CASE gc.at = "execute" /\ plan = {} /\ UNCHANGED <<pending, plan>>
    BY <2>2 DEF StepInv
  <2>3. CASE pending' = {} /\ plan' = {}
    BY <2>3
  <2> QED BY <2>1, <2>2, <2>3, <1>2
<1>4. /\ outcome' \in [Trees -> {"none", "removed", "skipped", "error"}]
      /\ \A u \in Trees : outcome'[u] = "removed" =>
           outcome[u] = "removed" /\ ~ (gc.at = "branch" /\ gc.tree = u)
  BY DEF TypeOK
<1>5. TypeOK'
  BY <1>1, <1>2, <1>3, <1>4 DEF TypeOK
<1>6. Queued' \subseteq Queued /\ Removing' = {}
  BY <1>2, <1>3 DEF Queued, Removing
<1>7. StepInv'
  BY <1>1, <1>2, <1>3, <1>6 DEF StepInv
<1>8. MissingInv' /\ RecheckInv'
  BY <1>1, <1>2, <1>6 DEF MissingInv, RecheckInv
<1>9. ReportInv'
  BY <1>1, <1>2, <1>4 DEF ReportInv
<1>10. FinishedInv'
  BY <1>1, <1>2, <1>3, <1>6 DEF FinishedInv, Finished, HeadTip
<1> QED BY <1>5, <1>7, <1>8, <1>9, <1>10, RepoKept DEF IInv

-----------------------------------------------------------------------------
(* A worktree that keeps its HEAD keeps what is reachable.                  *)
LEMMA SameHeads ==
  ASSUME TypeOK, ClockInv, NEW t \in Listed, NEW c \in Checkouts(0..clock),
         tree' = [tree EXCEPT ![t] = c], c.head = tree[t].head, c.tip = tree[t].tip,
         UNCHANGED <<ref, pushed>>
  PROVE  /\ tree' \in [Trees -> Checkouts(0..clock) \cup {NoTree}]
         /\ Listed' = Listed
         /\ \A u \in Trees : HeadTip(u)' = HeadTip(u)
         /\ Reachable' = Reachable
<1>1. t \in Trees /\ tree[t] # NoTree /\ c # NoTree
  BY Marks DEF Listed, TypeOK
<1>2. tree' \in [Trees -> Checkouts(0..clock) \cup {NoTree}]
  BY DEF TypeOK
<1>3. Listed' = Listed
  BY <1>1 DEF Listed, TypeOK
<1>4. \A u \in Trees : HeadTip(u)' = HeadTip(u)
  BY <1>1 DEF HeadTip, TypeOK
<1>5. {HeadTip(u) : u \in Listed}' = {HeadTip(u) : u \in Listed}
  BY <1>3, <1>4 DEF Listed
<1>6. Reachable' = Reachable
  BY <1>5 DEF Reachable, Refs
<1> QED BY <1>2, <1>3, <1>4, <1>6

(* A worktree whose recheck holds is not in use, has no uncommitted files,  *)
(* and its commits and those of the planned branch are in another ref.      *)
LEMMA RecheckedIsSafe ==
  ASSUME IInv, gc.at = "remove", ~ raced, tree[gc.tree].place \in {"present", "missing"}
  PROVE  /\ ~ tree[gc.tree].live /\ ~ tree[gc.tree].dirty
         /\ tree[gc.tree].place = "present" => ~ HasUnpushed(HeadTip(gc.tree), tree[gc.tree].head)
         /\ tree[gc.tree].place = "missing" => ~ ListedRefUnpushed(gc.tree)
         /\ seen[gc.tree].head # Detached =>
              ~ HasUnpushed(ref[seen[gc.tree].head], seen[gc.tree].head)
<1>1. gc.tree \in Removing /\ gc.tree \in Listed
  BY DEF IInv, StepInv, Removing, Listed
<1>2. StillSafe(gc.tree)
  BY <1>1 DEF IInv, RecheckInv, Misread
<1>3. tree[gc.tree].place = "missing" => ~ tree[gc.tree].dirty
  BY <1>1 DEF IInv, HeadInv
<1> QED BY <1>2, <1>3 DEF StillSafe, ListedRefUnpushed

(* Every commit under the HEAD of a worktree that passed its recheck is in  *)
(* a ref, or went with its directory while the gc was at work.              *)
LEMMA RemovedIsKept ==
  ASSUME IInv, gc.at = "remove", ~ raced, tree[gc.tree].place \in {"present", "missing"}
  PROVE  \A c \in HeadTip(gc.tree) :
           \/ \E b \in Branches : ref[b] # NoRef /\ c \in ref[b]
           \/ \E b \in Branches : pushed[b] # NoRef /\ c \in pushed[b]
           \/ c \in vanished
<1> DEFINE t == gc.tree
<1>1. t \in Removing /\ t \in Listed /\ tree[t] \in Checkouts(0..clock)
  BY HeadTipType DEF IInv, StepInv, Removing, Listed
<1>2. CASE tree[t].head # Detached
  <2>1. tree[t].head \in Branches /\ HeadTip(t) = ref[tree[t].head] /\ HeadTip(t) # NoRef
    BY <1>1, <1>2, HeadTipType DEF IInv, Checkouts, Heads, HeadTip
  <2> QED BY <2>1
<1>3. CASE tree[t].head = Detached /\ tree[t].place = "present"
  <2>1. ~ HasUnpushed(HeadTip(t), Detached)
    BY <1>3, RecheckedIsSafe
  <2> QED BY <2>1, KeptElsewhere
<1>4. CASE tree[t].head = Detached /\ tree[t].place = "missing"
  <2>1. HeadTip(t) = tree[t].tip
    BY <1>4 DEF HeadTip
  <2>2. CASE tree[t].tip \subseteq vanished
    BY <2>1, <2>2
  <2>3. CASE seen[t].head = Detached /\ seen[t].tip = tree[t].tip
    <3>1. ~ HasUnpushed(HeadTip(t), Detached)
      BY <1>4, <2>1, <2>3, RecheckedIsSafe DEF ListedRefUnpushed
    <3> QED BY <3>1, KeptElsewhere
  <2> QED BY <1>1, <1>4, <2>2, <2>3 DEF IInv, MissingInv
<1> QED BY <1>2, <1>3, <1>4

(* The worktree is unregistered ...                                         *)
LEMMA UnregisterKeeps ==
  ASSUME IInv, RemoveTree, tree' = [tree EXCEPT ![gc.tree] = NoTree]
  PROVE  IInv'
<1> DEFINE t == gc.tree
<1>0. /\ TypeOK /\ ClockInv /\ HeadInv /\ StepInv
      /\ MissingInv /\ RecheckInv /\ ReportInv /\ FinishedInv
      /\ WorkSurvives /\ InUseSurvives
  BY DEF IInv
<1> USE <1>0
<1>1. /\ UNCHANGED <<ref, pushed, pr, clock, seen, pending, plan, runs, changes,
                     work, raced, moved, vanished>>
      /\ gc.at = "remove" /\ tree[t].place \in {"present", "missing"}
      /\ harmed' = IF tree[t].dirty \/ tree[t].live THEN harmed \cup {t} ELSE harmed
      /\ t \in Trees \ plan /\ t \in Listed /\ pending = {} /\ seen[t] # NoTree
  BY DEF RemoveTree, StepInv, Listed
<1>2. /\ outcome' = [outcome EXCEPT ![t] = "removed"]
      /\ gc' = IF seen[t].head = Detached
                 THEN [gc EXCEPT !.at = "execute", !.tree = NoTree]
                 ELSE [gc EXCEPT !.at = "branch"]
  <2>1. \A place \in Places, dirty \in BOOLEAN :
          tree' # [tree EXCEPT ![t].place = place, ![t].dirty = dirty]
    <3> TAKE place \in Places, dirty \in BOOLEAN
    <3>1. tree[t] \in Checkouts(0..clock)
      BY <1>1, HeadTipType
    <3>2. [tree[t] EXCEPT !.place = place, !.dirty = dirty] \in Checkouts(0..clock)
      BY <3>1 DEF Checkouts
    <3>3. [tree[t] EXCEPT !.place = place, !.dirty = dirty] # NoTree
      BY <3>2, Marks DEF TypeOK
    <3>4. tree'[t] = NoTree
      BY <1>1 DEF TypeOK
    <3>5. [tree EXCEPT ![t].place = place, ![t].dirty = dirty][t]
            = [tree[t] EXCEPT !.place = place, !.dirty = dirty]
      BY <1>1 DEF TypeOK
    <3> QED BY <3>3, <3>4, <3>5
  <2> QED BY <2>1 DEF RemoveTree, Places
<1>3. /\ gc' \in [at : {"idle", "snapshot", "classify", "execute", "remove", "branch"},
                  tree : Trees \cup {NoTree}, stale : BOOLEAN]
      /\ gc'.at = IF seen[t].head = Detached THEN "execute" ELSE "branch"
      /\ gc'.at = "branch" => gc'.tree = t
      /\ gc'.stale = gc.stale
  BY <1>2 DEF TypeOK
<1>4. tree'[t] = NoTree /\ \A u \in Trees \ {t} : tree'[u] = tree[u]
  BY <1>1 DEF TypeOK
<1>5. outcome' \in [Trees -> {"none", "removed", "skipped", "error"}]
  BY <1>2 DEF TypeOK
<1>6. TypeOK'
  BY <1>1, <1>3, <1>5 DEF TypeOK
<1>7. Listed' = Listed \ {t}
  BY <1>4 DEF Listed
<1>8. ClockInv' /\ HeadInv'
  BY <1>1, <1>4, <1>7 DEF ClockInv, HeadInv, Listed
<1>9. Queued' = plan /\ Queued = plan /\ Removing' = {}
  BY <1>1, <1>3 DEF Queued, Removing
<1>10. StepInv'
  BY <1>1, <1>3, <1>4, <1>9 DEF StepInv, TypeOK
<1>11. MissingInv'
  BY <1>1, <1>4, <1>9 DEF MissingInv, TypeOK
<1>12. RecheckInv'
  <2>1. ~ raced /\ seen[t].head # Detached => ~ HasUnpushed(ref[seen[t].head], seen[t].head)
    BY <1>1, RecheckedIsSafe
  <2> QED BY <2>1, <1>1, <1>3, <1>9 DEF RecheckInv, HasUnpushed
<1>13. ReportInv'
  BY <1>1, <1>2, <1>3, <1>4 DEF ReportInv, TypeOK
<1>14. FinishedInv'
  BY <1>1, <1>3, <1>4, <1>9 DEF FinishedInv, Finished, HeadTip, TypeOK
<1>15. WorkSurvives'
  <2> SUFFICES ASSUME ~ raced, NEW c \in work PROVE c \in Reachable' \cup vanished
    BY <1>1 DEF WorkSurvives
  <2>1. c \in vanished \/ Held(c)
    BY ReachableMeans DEF WorkSurvives
  <2>2. c \in vanished \/ Held(c)'
    BY <1>1, <1>4, <1>7, <2>1, RemovedIsKept DEF Held, HeadTip, Listed
  <2> QED BY <2>2, ReachableMeans
<1>16. InUseSurvives'
  BY <1>1, RecheckedIsSafe DEF InUseSurvives
<1> QED BY <1>6, <1>8, <1>10, <1>11, <1>12, <1>13, <1>14, <1>15, <1>16 DEF IInv

(* ... or git fails half-way and leaves it damaged.                         *)
LEMMA DamagedByGcKeeps ==
  ASSUME IInv, RemoveTree, tree' # [tree EXCEPT ![gc.tree] = NoTree]
  PROVE  IInv'
<1> DEFINE t == gc.tree
<1>0. /\ TypeOK /\ ClockInv /\ HeadInv /\ StepInv
      /\ MissingInv /\ RecheckInv /\ ReportInv /\ FinishedInv
      /\ WorkSurvives /\ InUseSurvives
  BY DEF IInv
<1> USE <1>0
<1>1. /\ UNCHANGED <<ref, pushed, pr, clock, seen, pending, plan, runs, changes,
                     work, raced, moved, vanished>>
      /\ gc.at = "remove" /\ tree[t].place \in {"present", "missing"}
      /\ harmed' = IF tree[t].dirty \/ tree[t].live THEN harmed \cup {t} ELSE harmed
      /\ t \in Trees \ plan /\ t \in Listed /\ pending = {} /\ seen[t] # NoTree
      /\ outcome' = [outcome EXCEPT ![t] = "error"]
      /\ gc' = [gc EXCEPT !.at = "execute", !.tree = NoTree]
  BY DEF RemoveTree, StepInv, Listed
<1>2. PICK place \in {"present", "missing", "broken"} :
        tree' = [tree EXCEPT ![t].place = place, ![t].dirty = place # "missing"]
  BY DEF RemoveTree
<1> DEFINE c == [tree[t] EXCEPT !.place = place, !.dirty = place # "missing"]
<1>3. tree[t] \in Checkouts(0..clock)
  BY <1>1, HeadTipType
<1>4. /\ c \in Checkouts(0..clock) /\ c.head = tree[t].head /\ c.tip = tree[t].tip
      /\ c.place = "missing" => ~ c.dirty
  BY <1>3 DEF Checkouts, Places
<1>5. tree' = [tree EXCEPT ![t] = c]
  BY <1>2
<1> HIDE DEF c
<1>6. /\ tree' \in [Trees -> Checkouts(0..clock) \cup {NoTree}]
      /\ Listed' = Listed
      /\ \A u \in Trees : HeadTip(u)' = HeadTip(u)
      /\ Reachable' = Reachable
  BY <1>1, <1>4, <1>5, SameHeads
<1>7. tree'[t] = c /\ \A u \in Trees \ {t} : tree'[u] = tree[u]
  BY <1>1, <1>5 DEF TypeOK
<1>8. /\ gc' \in [at : {"idle", "snapshot", "classify", "execute", "remove", "branch"},
                  tree : Trees \cup {NoTree}, stale : BOOLEAN]
      /\ gc'.at = "execute" /\ gc'.stale = gc.stale
  BY <1>1 DEF TypeOK
<1>9. outcome' \in [Trees -> {"none", "removed", "skipped", "error"}]
  BY <1>1 DEF TypeOK
<1>10. TypeOK'
  BY <1>1, <1>6, <1>8, <1>9 DEF TypeOK
<1>11. ClockInv' /\ HeadInv'
  BY <1>1, <1>4, <1>6, <1>7 DEF ClockInv, HeadInv, Listed
<1>12. Queued' = plan /\ Queued = plan /\ Removing' = {}
  BY <1>1, <1>8 DEF Queued, Removing
<1>13. StepInv'
  BY <1>1, <1>7, <1>8, <1>12 DEF StepInv, TypeOK
<1>14. MissingInv' /\ RecheckInv'
  BY <1>1, <1>7, <1>8, <1>12 DEF MissingInv, RecheckInv, TypeOK
<1>15. ReportInv'
  BY <1>1, <1>7, <1>8 DEF ReportInv, TypeOK
<1>16. FinishedInv'
  BY <1>1, <1>6, <1>7, <1>8, <1>12 DEF FinishedInv, Finished, TypeOK
<1>17. WorkSurvives'
  BY <1>1, <1>6 DEF WorkSurvives
<1>18. InUseSurvives'
  BY <1>1, RecheckedIsSafe DEF InUseSurvives
<1> QED BY <1>10, <1>11, <1>13, <1>14, <1>15, <1>16, <1>17, <1>18 DEF IInv

LEMMA DeleteBranchKeeps ==
  ASSUME IInv, DeleteBranch
  PROVE  IInv'
<1> DEFINE b == seen[gc.tree].head
<1>0. /\ TypeOK /\ ClockInv /\ HeadInv /\ StepInv
      /\ MissingInv /\ RecheckInv /\ ReportInv /\ FinishedInv
      /\ WorkSurvives /\ InUseSurvives
  BY DEF IInv
<1> USE <1>0
<1>1. /\ gc.at = "branch" /\ ref[b] # NoRef /\ ~ CheckedOut(b)
      /\ ref' = [ref EXCEPT ![b] = NoRef]
      /\ gc' = [gc EXCEPT !.at = "execute", !.tree = NoTree]
      /\ UNCHANGED <<pushed, pr, tree, clock, seen, pending, plan, outcome, runs, changes,
                     work, harmed, raced, moved, vanished>>
  BY DEF DeleteBranch, history
<1>2. /\ gc.tree \in Trees /\ tree[gc.tree] = NoTree /\ b \in Branches
      /\ pending = {}
  BY <1>1 DEF StepInv, TypeOK, Entries, Heads
<1>3. ref'[b] = NoRef /\ \A d \in Branches \ {b} : ref'[d] = ref[d]
  BY <1>1, <1>2 DEF TypeOK
<1>4. /\ gc' \in [at : {"idle", "snapshot", "classify", "execute", "remove", "branch"},
                  tree : Trees \cup {NoTree}, stale : BOOLEAN]
      /\ gc'.at = "execute" /\ gc'.stale = gc.stale
  BY <1>1 DEF TypeOK
<1>5. ref' \in [Branches -> {NoRef} \cup Tips(0..clock)]
  BY <1>1 DEF TypeOK
<1>6. TypeOK'
  BY <1>1, <1>4, <1>5 DEF TypeOK
<1>7. Listed' = Listed
  BY <1>1 DEF Listed
<1>8. \A t \in Listed :
        /\ tree[t].head # Detached => tree[t].head \in Branches \ {b}
        /\ HeadTip(t)' = HeadTip(t)
  <2> TAKE t \in Listed
  <2>1. tree[t].head # b /\ tree[t].head \in Heads
    BY <1>1, HeadTipType DEF CheckedOut, Checkouts
  <2> QED BY <1>1, <1>3, <2>1 DEF HeadTip, Heads
<1>9. ClockInv' /\ HeadInv'
  BY <1>1, <1>3, <1>7, <1>8 DEF ClockInv, HeadInv
<1>10. Queued' = plan /\ Queued = plan /\ Removing' = {} /\ \A t \in plan : t \in Listed
  BY <1>1, <1>2, <1>4 DEF Queued, Removing, StepInv, Listed, TypeOK
<1>11. StepInv'
  BY <1>1, <1>4, <1>10 DEF StepInv
<1>12. MissingInv' /\ RecheckInv'
  BY <1>1, <1>4, <1>10 DEF MissingInv, RecheckInv
<1>13. ReportInv'
  <2> SUFFICES ASSUME NEW t \in Trees, outcome[t] = "removed"
               PROVE  /\ tree[t] = NoTree /\ seen[t] # NoTree
                      /\ seen[t].head # Detached => ref'[seen[t].head] = NoRef
    BY <1>1 DEF ReportInv
  <2>1. CASE t = gc.tree
    BY <1>1, <1>2, <1>3, <2>1 DEF StepInv
  <2>2. CASE t # gc.tree
    <3>1. /\ tree[t] = NoTree /\ seen[t] # NoTree
          /\ seen[t].head # Detached => ref[seen[t].head] = NoRef
      BY <2>2 DEF ReportInv
    <3>2. seen[t].head # Detached => seen[t].head \in Branches
      BY <3>1 DEF TypeOK, Entries, Heads
    <3> QED BY <1>3, <3>1, <3>2
  <2> QED BY <2>1, <2>2
<1>14. FinishedInv'
  BY <1>1, <1>2, <1>4, <1>8, <1>10 DEF FinishedInv, Finished
<1>15. WorkSurvives'
  <2> SUFFICES ASSUME ~ raced, NEW c \in work PROVE c \in Reachable' \cup vanished
    BY <1>1 DEF WorkSurvives
  <2>1. c \in vanished \/ Held(c)
    BY ReachableMeans DEF WorkSurvives
  <2>2. ~ HasUnpushed(ref[b], b)
    BY <1>1 DEF RecheckInv
  <2>3. c \in ref[b] => Held(c)'
    BY <1>1, <1>2, <1>3, <2>2, KeptElsewhere DEF Held
  <2>4. c \in vanished \/ Held(c)'
    BY <1>1, <1>3, <1>7, <1>8, <2>1, <2>3 DEF Held
  <2> QED BY <2>4, ReachableMeans
<1>16. InUseSurvives'
  BY <1>1 DEF InUseSurvives
<1> QED BY <1>6, <1>9, <1>11, <1>12, <1>13, <1>14, <1>15, <1>16 DEF IInv

-----------------------------------------------------------------------------
(* A change by others that registers and unregisters nothing leaves the run *)
(* where it is; from then on nothing is promised of a removal under way,    *)
(* nor of what was planned before it.                                       *)
LEMMA ChangedKeeps ==
  ASSUME IInv, Changed, \A t \in Trees : tree'[t] = NoTree <=> tree[t] = NoTree
  PROVE  /\ ClockInv' /\ StepInv' /\ RecheckInv' /\ FinishedInv' /\ InUseSurvives'
         /\ Listed' = Listed
         /\ clock' = clock + 1 /\ clock' \in Nat
         /\ NoRef \notin Tips(0..clock')
         /\ /\ gc' \in [at : {"idle", "snapshot", "classify", "execute", "remove", "branch"},
                        tree : Trees \cup {NoTree}, stale : BOOLEAN]
            /\ seen' \in [Trees -> Entries(0..clock') \cup {NoTree}]
            /\ pending' \subseteq Trees /\ plan' \subseteq Trees
            /\ outcome' \in [Trees -> {"none", "removed", "skipped", "error"}]
<1>0. TypeOK /\ ClockInv /\ StepInv /\ InUseSurvives
  BY DEF IInv
<1> USE <1>0
<1>1. /\ UNCHANGED <<gc, seen, pending, plan, outcome, runs, harmed>>
      /\ changes < MaxChanges /\ changes' = changes + 1 /\ clock' = clock + 1
      /\ raced' = (raced \/ gc.at \in {"remove", "branch"}) /\ moved' = TRUE
  BY DEF Changed, run
<1>2. clock' \in Nat /\ clock \in Nat /\ clock <= clock'
  BY <1>1 DEF TypeOK
<1>3. ClockInv'
  <2>1. PICK r \in InitialRepos : clock = r.clock + changes
    BY DEF ClockInv
  <2>2. r.clock \in Nat /\ MaxChanges \in Nat /\ changes \in 0..MaxChanges
    BY ReposAssumption, MarksAssumption DEF ClockInv
  <2> QED BY <1>1, <2>1, <2>2 DEF ClockInv
<1>4. NoRef \notin Tips(0..clock')
  BY <1>1, Marks
<1>5. seen' \in [Trees -> Entries(0..clock') \cup {NoTree}]
  BY <1>1, <1>2, Widen DEF TypeOK
<1>6. StepInv'
  BY <1>1 DEF StepInv, Queued, TypeOK
<1>7. RecheckInv' /\ FinishedInv' /\ InUseSurvives'
  BY <1>1 DEF RecheckInv, FinishedInv, InUseSurvives, Removing
<1>8. Listed' = Listed
  BY DEF Listed
<1> QED BY <1>1, <1>2, <1>3, <1>4, <1>5, <1>6, <1>7, <1>8 DEF TypeOK

LEMMA CommitKeeps ==
  ASSUME IInv, NEW t \in Trees, Commit(t)
  PROVE  IInv' /\ Listed' = Listed
<1>0. /\ TypeOK /\ ClockInv /\ HeadInv /\ MissingInv /\ ReportInv /\ WorkSurvives
  BY DEF IInv
<1> USE <1>0
<1>1. /\ Changed /\ t \in Listed /\ tree[t].place = "present"
      /\ work' = work \cup {clock'}
      /\ UNCHANGED <<pushed, pr, vanished, seen, gc, outcome, pending, plan>>
  BY DEF Commit, Listed, Changed, run
<1>2. tree[t] \in Checkouts(0..clock) /\ clock \in Nat /\ clock' = clock + 1 /\ clock' \in Nat
  BY <1>1, HeadTipType DEF TypeOK, Changed
<1>3. 0..clock \subseteq 0..clock' /\ clock' \in 0..clock'
  BY <1>2
<1>4. /\ Tips(0..clock) \subseteq Tips(0..clock') /\ Checkouts(0..clock) \subseteq Checkouts(0..clock')
      /\ Requests(0..clock) \subseteq Requests(0..clock')
  BY <1>2, Widen
<1>5. \/ /\ tree[t].head = Detached /\ ref' = ref
         /\ tree' = [tree EXCEPT ![t].tip = @ \cup {clock'}]
      \/ /\ tree[t].head # Detached /\ tree' = tree
         /\ ref' = [ref EXCEPT ![tree[t].head] = @ \cup {clock'}]
  BY DEF Commit
<1> DEFINE c == [tree[t] EXCEPT !.tip = @ \cup {clock'}]
<1>6. /\ c \in Checkouts(0..clock') /\ c # NoTree
      /\ c.head = tree[t].head /\ c.place = "present"
      /\ c.tip = tree[t].tip \cup {clock'}
  <2>1. c \in Checkouts(0..clock')
    BY <1>1, <1>2, <1>3, <1>4 DEF Checkouts, Tips
  <2>2. c # NoTree
    BY <1>2, <2>1, Marks
  <2> QED BY <1>1, <1>2, <2>1, <2>2 DEF Checkouts
<1>7. /\ tree[t].head # Detached => tree[t].head \in Branches /\ ref[tree[t].head] # NoRef
      /\ tree[t].head # Detached => ref[tree[t].head] \in Tips(0..clock)
  BY <1>1, <1>2 DEF HeadInv, Checkouts, Heads, TypeOK
<1>8. /\ tree' \in [Trees -> Checkouts(0..clock') \cup {NoTree}]
      /\ \A u \in Trees \ {t} : tree'[u] = tree[u]
      /\ tree'[t] = IF tree[t].head = Detached THEN c ELSE tree[t]
  <2>1. tree \in [Trees -> Checkouts(0..clock) \cup {NoTree}]
    BY DEF TypeOK
  <2>2. tree \in [Trees -> Checkouts(0..clock') \cup {NoTree}]
    <3> HIDE <1>0
    <3> DEFINE old == Checkouts(0..clock)
               new == Checkouts(0..clock')
    <3>1. old \subseteq new
      BY <1>4
    <3> HIDE DEF old, new
    <3>2. tree \in [Trees -> old \cup {NoTree}]
      BY <2>1 DEF old
    <3>3. tree \in [Trees -> new \cup {NoTree}]
      BY <3>1, <3>2
    <3> QED BY <3>3 DEF new
  <2> HIDE <1>0
  <2>3. \/ tree' = [tree EXCEPT ![t] = c] /\ tree[t].head = Detached
        \/ tree' = tree /\ tree[t].head # Detached
    BY <1>5
  <2> HIDE DEF c
  <2> QED BY <1>6, <2>2, <2>3
<1> HIDE DEF c
<1>9. \A u \in Trees : tree'[u] = NoTree <=> tree[u] = NoTree
  BY <1>1, <1>6, <1>8 DEF Listed
<1>10. \A u \in Listed : /\ tree'[u].head = tree[u].head /\ tree'[u].place = tree[u].place
                         /\ tree[u].place = "missing" => tree'[u] = tree[u]
  BY <1>1, <1>6, <1>8 DEF Listed
<1>11. /\ ref' \in [Branches -> {NoRef} \cup Tips(0..clock')]
       /\ \A b \in Branches : /\ ref[b] = NoRef <=> ref'[b] = NoRef
                              /\ ref[b] # NoRef => ref[b] \subseteq ref'[b]
       /\ tree[t].head # Detached => clock' \in ref'[tree[t].head]
  <2>1. CASE tree[t].head = Detached
    BY <1>4, <1>5, <2>1 DEF TypeOK
  <2>2. CASE tree[t].head # Detached
    <3>1. ref[tree[t].head] \cup {clock'} \in Tips(0..clock')
      BY <1>3, <1>4, <1>7, <2>2 DEF Tips
    <3>2. NoRef \notin Tips(0..clock')
      BY <1>1, <1>9, ChangedKeeps
    <3>3. /\ ref'[tree[t].head] = ref[tree[t].head] \cup {clock'}
          /\ \A b \in Branches \ {tree[t].head} : ref'[b] = ref[b]
          /\ DOMAIN ref' = Branches /\ ref' = [b \in Branches |-> ref'[b]]
      BY <1>5, <1>7, <2>2 DEF TypeOK
    <3>4. \A b \in Branches : ref'[b] \in {NoRef} \cup Tips(0..clock')
      BY <1>4, <3>1, <3>3 DEF TypeOK
    <3>5. ref' \in [Branches -> {NoRef} \cup Tips(0..clock')]
      BY <3>3, <3>4
    <3>6. ref'[tree[t].head] # NoRef /\ clock' \in ref'[tree[t].head]
      BY <3>1, <3>2, <3>3
    <3> QED BY <1>7, <2>2, <3>3, <3>5, <3>6
  <2> QED BY <2>1, <2>2
<1>12. /\ ClockInv' /\ StepInv' /\ RecheckInv' /\ FinishedInv' /\ InUseSurvives' /\ Listed' = Listed
       /\ TypeOK'
  BY <1>1, <1>2, <1>4, <1>8, <1>9, <1>11, ChangedKeeps DEF TypeOK
<1>13. HeadInv'
  <2> SUFFICES ASSUME NEW u \in Listed
               PROVE  /\ tree'[u].head # Detached => ref'[tree'[u].head] # NoRef
                      /\ tree'[u].place = "missing" => ~ tree'[u].dirty
    BY <1>12 DEF HeadInv
  <2>1. tree[u].head # Detached => tree[u].head \in Branches
    BY HeadTipType DEF Checkouts, Heads
  <2> QED BY <1>10, <1>11, <2>1 DEF HeadInv
<1>14. MissingInv'
  BY <1>1, <1>10, <1>12 DEF MissingInv, Queued, Removing, IInv, StepInv, Listed, TypeOK
<1>15. ReportInv'
  <2>1. \A u \in Trees : seen[u] # NoTree /\ seen[u].head # Detached => seen[u].head \in Branches
    BY DEF TypeOK, Entries, Heads
  <2> QED BY <1>1, <1>9, <1>11, <2>1 DEF ReportInv
<1>16. WorkSurvives'
  <2> SUFFICES ASSUME ~ raced, NEW d \in work \cup {clock'} PROVE d \in Reachable' \cup vanished
    BY <1>1 DEF WorkSurvives, Changed
  <2>1. d = clock' => Held(d)'
    <3>1. CASE tree[t].head = Detached
      <4>1. tree'[t].head = Detached /\ tree'[t].tip = c.tip /\ clock' \in c.tip
        BY <1>6, <1>8, <3>1
      <4>2. tree'[t].tip # NoRef
        <5>1. tree'[t].tip \in Tips(0..clock')
          BY <1>6, <4>1 DEF Checkouts
        <5> QED BY <1>1, <1>9, <5>1, ChangedKeeps
      <4> QED BY <1>1, <1>12, <4>1, <4>2 DEF Held, HeadTip
    <3>2. CASE tree[t].head # Detached
      BY <1>7, <1>11, <3>2 DEF Held
    <3> QED BY <3>1, <3>2
  <2>2. \A u \in Listed : HeadTip(u) \subseteq HeadTip(u)' /\ HeadTip(u)' # NoRef
    <3> TAKE u \in Listed
    <3>1. u \in Trees /\ (tree[u].head # Detached => tree[u].head \in Branches)
      BY HeadTipType DEF Checkouts, Heads, Listed
    <3>2. HeadTip(u) # NoRef
      BY HeadTipType
    <3>3. CASE tree[u].head # Detached
      <4>1. tree'[u].head = tree[u].head /\ tree[u].head \in Branches
        BY <1>10, <3>1, <3>3
      <4>2. HeadTip(u) = ref[tree[u].head] /\ HeadTip(u)' = ref'[tree[u].head]
        BY <3>3, <4>1 DEF HeadTip
      <4> QED BY <1>11, <3>2, <4>1, <4>2
    <3>4. CASE tree[u].head = Detached
      <4>1. tree'[u].head = Detached /\ tree[u].tip \subseteq tree'[u].tip
        BY <1>6, <1>8, <1>10, <3>4 DEF Listed
      <4>2. HeadTip(u)' # NoRef
        <5>1. tree'[u] \in Checkouts(0..clock')
          BY <1>8, <1>9, <3>1 DEF Listed
        <5>2. tree'[u].tip \in Tips(0..clock')
          BY <5>1 DEF Checkouts
        <5> QED BY <1>1, <1>9, <4>1, <5>2, ChangedKeeps DEF HeadTip
      <4> QED BY <3>4, <4>1, <4>2 DEF HeadTip
    <3> QED BY <3>3, <3>4
  <2>3. Held(d) => Held(d)'
    BY <1>1, <1>11, <1>12, <2>2 DEF Held
  <2> QED BY <2>1, <2>3, ReachableMeans DEF WorkSurvives
<1> QED BY <1>12, <1>13, <1>14, <1>15, <1>16 DEF IInv

(* A change by others that moves no branch keeps all but the work, if git   *)
(* keeps to its rules on HEADs and the commits of a directory that vanishes *)
(* under the gc are written down.                                           *)
LEMMA OthersKeep ==
  ASSUME IInv, Changed, UNCHANGED ref,
         pushed' \in [Branches -> {NoRef} \cup Tips(0..clock')],
         pr' \in [Branches -> Requests(0..clock')],
         tree' \in [Trees -> Checkouts(0..clock') \cup {NoTree}],
         \A u \in Trees : tree'[u] = NoTree <=> tree[u] = NoTree,
         \A u \in Listed :
           /\ tree'[u].head # Detached => ref[tree'[u].head] # NoRef
           /\ tree'[u].place = "missing" => ~ tree'[u].dirty
           /\ tree'[u].place = "missing" /\ tree'[u].head = Detached /\ gc.at # "idle" =>
                tree'[u] = tree[u] \/ tree'[u].tip \subseteq vanished',
         vanished \subseteq vanished'
  PROVE  WorkSurvives' => IInv'
<1>0. TypeOK /\ StepInv /\ MissingInv /\ ReportInv
  BY DEF IInv
<1> USE <1>0
<1>1. UNCHANGED <<gc, seen, pending, plan, outcome>>
  BY DEF Changed, run
<1>2. /\ ClockInv' /\ StepInv' /\ RecheckInv' /\ FinishedInv' /\ InUseSurvives'
      /\ Listed' = Listed /\ clock' = clock + 1 /\ clock' \in Nat /\ clock \in Nat
  BY ChangedKeeps DEF TypeOK
<1>3. Tips(0..clock) \subseteq Tips(0..clock')
  BY <1>2, Widen
<1>4. ref' \in [Branches -> {NoRef} \cup Tips(0..clock')]
  BY <1>3 DEF TypeOK
<1>5. TypeOK'
  BY <1>1, <1>2, <1>4, ChangedKeeps DEF TypeOK
<1>6. HeadInv'
  BY <1>2 DEF HeadInv
<1>7. MissingInv'
  <2> SUFFICES ASSUME NEW u \in Queued \cup Removing,
                      tree'[u].place = "missing", tree'[u].head = Detached
               PROVE  \/ tree'[u].tip \subseteq vanished'
                      \/ seen[u].head = Detached /\ seen[u].tip = tree'[u].tip
    BY <1>1 DEF MissingInv, Queued, Removing
  <2>1. u \in Listed /\ gc.at # "idle"
    BY DEF StepInv, Queued, Removing, Listed, TypeOK
  <2> QED BY <2>1 DEF MissingInv
<1>8. ReportInv'
  BY <1>1 DEF ReportInv
<1> QED BY <1>2, <1>5, <1>6, <1>7, <1>8 DEF IInv

(* What an edit of one worktree that is there asks of the rules.            *)
LEMMA EditKeeps ==
  ASSUME IInv, Changed, NEW t \in Trees, tree[t] # NoTree, NEW c \in Checkouts(0..clock),
         tree' = [tree EXCEPT ![t] = c], UNCHANGED <<ref, pushed, pr>>,
         c.head # Detached => ref[c.head] # NoRef,
         c.place = "missing" => ~ c.dirty,
         c.place = "missing" /\ c.head = Detached /\ gc.at # "idle" => c.tip \subseteq vanished',
         vanished \subseteq vanished'
  PROVE  (WorkSurvives' => IInv') /\ Listed' = Listed
<1>0. TypeOK /\ ClockInv /\ HeadInv
  BY DEF IInv
<1>1. clock' = clock + 1 /\ clock \in Nat /\ clock' \in Nat
  BY <1>0 DEF Changed, TypeOK
<1>2. /\ Tips(0..clock) \subseteq Tips(0..clock') /\ Checkouts(0..clock) \subseteq Checkouts(0..clock')
      /\ Requests(0..clock) \subseteq Requests(0..clock')
  BY <1>1, Widen
<1>3. /\ pushed' \in [Branches -> {NoRef} \cup Tips(0..clock')]
      /\ pr' \in [Branches -> Requests(0..clock')]
      /\ tree' \in [Trees -> Checkouts(0..clock') \cup {NoTree}]
  BY <1>0, <1>2 DEF TypeOK
<1>4. c # NoTree
  BY <1>0, <1>1, Marks
<1>5. \A u \in Trees : tree'[u] = IF u = t THEN c ELSE tree[u]
  BY <1>0 DEF TypeOK
<1>6. \A u \in Trees : tree'[u] = NoTree <=> tree[u] = NoTree
  BY <1>4, <1>5
<1>7. \A u \in Listed :
        /\ tree'[u].head # Detached => ref[tree'[u].head] # NoRef
        /\ tree'[u].place = "missing" => ~ tree'[u].dirty
        /\ tree'[u].place = "missing" /\ tree'[u].head = Detached /\ gc.at # "idle" =>
             tree'[u] = tree[u] \/ tree'[u].tip \subseteq vanished'
  <2> TAKE u \in Listed
  <2>1. CASE u = t
    BY <2>1, <1>5
  <2>2. CASE u # t
    BY <2>2, <1>0, <1>5 DEF HeadInv, Listed
  <2> QED BY <2>1, <2>2
<1>8. Listed' = Listed
  BY <1>6 DEF Listed
<1> QED BY <1>3, <1>6, <1>7, <1>8, OthersKeep

LEMMA CheckoutKeeps ==
  ASSUME IInv, NEW t \in Trees, NEW head \in Heads, Checkout(t, head)
  PROVE  IInv' /\ Listed' = Listed
<1> DEFINE c == [tree[t] EXCEPT !.head = head,
                                !.tip = IF head = Detached THEN HeadTip(t) ELSE {}]
<1>1. /\ Changed /\ tree[t] # NoTree /\ tree[t].place = "present"
      /\ head # Detached => ref[head] # NoRef
      /\ tree' = [tree EXCEPT ![t] = c]
      /\ UNCHANGED <<ref, pushed, pr, vanished>> /\ Dropping
  BY DEF Checkout
<1>2. tree[t] \in Checkouts(0..clock) /\ HeadTip(t) \in Tips(0..clock)
  BY <1>1, HeadTipType DEF IInv, Listed
<1>3. c \in Checkouts(0..clock) /\ c.head = head /\ c.place = "present"
  BY <1>1, <1>2 DEF Checkouts, Tips
<1> HIDE DEF c
<1>4. WorkSurvives'
  BY <1>1 DEF Dropping, WorkSurvives
<1> QED BY <1>1, <1>3, <1>4, EditKeeps

LEMMA SyncKeeps ==
  ASSUME IInv, NEW b \in Branches, Sync(b)
  PROVE  IInv'
<1>1. /\ Changed /\ UNCHANGED <<ref, pr, tree, vanished>> /\ Dropping
      /\ pushed' = [pushed EXCEPT ![b] = IF ref[b] # pushed[b] THEN ref[b] ELSE NoRef]
  BY DEF Sync
<1>2. TypeOK /\ HeadInv /\ clock' = clock + 1 /\ clock \in Nat /\ clock' \in Nat
  BY <1>1 DEF IInv, TypeOK, Changed
<1>3. /\ Tips(0..clock) \subseteq Tips(0..clock') /\ Checkouts(0..clock) \subseteq Checkouts(0..clock')
      /\ Requests(0..clock) \subseteq Requests(0..clock')
  BY <1>2, Widen
<1>4. /\ pushed' \in [Branches -> {NoRef} \cup Tips(0..clock')]
      /\ pr' \in [Branches -> Requests(0..clock')]
      /\ tree' \in [Trees -> Checkouts(0..clock') \cup {NoTree}]
  BY <1>1, <1>2, <1>3 DEF TypeOK
<1>5. WorkSurvives'
  BY <1>1 DEF Dropping, WorkSurvives
<1> QED BY <1>1, <1>2, <1>4, <1>5, OthersKeep DEF HeadInv

LEMMA UpdatePrKeeps ==
  ASSUME IInv, NEW b \in Branches, UpdatePr(b)
  PROVE  IInv'
<1>1. /\ Changed /\ UNCHANGED <<ref, pushed, tree, work, vanished>>
      /\ \E state \in {"open"} \cup Resolved :
           pr' = [pr EXCEPT ![b] = [state |-> state, at |-> IF state = "open" THEN 0 ELSE clock']]
  BY DEF UpdatePr
<1>2. TypeOK /\ HeadInv /\ clock' = clock + 1 /\ clock \in Nat /\ clock' \in Nat
  BY <1>1 DEF IInv, TypeOK, Changed
<1>3. /\ Tips(0..clock) \subseteq Tips(0..clock') /\ Checkouts(0..clock) \subseteq Checkouts(0..clock')
      /\ Requests(0..clock) \subseteq Requests(0..clock')
  BY <1>2, Widen
<1>4. PICK state \in {"open"} \cup Resolved :
        pr' = [pr EXCEPT ![b] = [state |-> state, at |-> IF state = "open" THEN 0 ELSE clock']]
  BY <1>1
<1>5. [state |-> state, at |-> IF state = "open" THEN 0 ELSE clock'] \in Requests(0..clock')
  BY <1>2 DEF Requests
<1>6. /\ pushed' \in [Branches -> {NoRef} \cup Tips(0..clock')]
      /\ pr' \in [Branches -> Requests(0..clock')]
      /\ tree' \in [Trees -> Checkouts(0..clock') \cup {NoTree}]
  BY <1>1, <1>2, <1>3, <1>4, <1>5 DEF TypeOK
<1>7. WorkSurvives'
  <2>1. UNCHANGED <<ref, pushed, tree, work, vanished>> /\ (raced => raced')
    BY <1>1 DEF Changed
  <2>2. Reachable' = Reachable
    BY <2>1 DEF Reachable, Refs, HeadTip, Listed
  <2> QED BY <2>1, <2>2 DEF IInv, WorkSurvives
<1> QED BY <1>1, <1>2, <1>6, <1>7, OthersKeep DEF HeadInv

LEMMA UseKeeps ==
  ASSUME IInv, NEW t \in Trees, NEW what \in {"dirty", "live", "locked"}, Use(t, what)
  PROVE  IInv' /\ Listed' = Listed
<1> DEFINE c == [tree[t] EXCEPT ![what] = ~ @]
<1>1. /\ Changed /\ tree[t] # NoTree /\ tree[t].place = "present"
      /\ tree' = [tree EXCEPT ![t] = c]
      /\ UNCHANGED <<ref, pushed, pr, work, vanished>>
  BY DEF Use
<1>2. TypeOK /\ ClockInv /\ HeadInv /\ t \in Listed /\ tree[t] \in Checkouts(0..clock)
  BY <1>1, HeadTipType DEF IInv, Listed
<1>3. /\ c \in Checkouts(0..clock) /\ c.head = tree[t].head /\ c.tip = tree[t].tip
      /\ c.place = "present"
  BY <1>1, <1>2 DEF Checkouts
<1> HIDE DEF c
<1>4. Reachable' = Reachable
  BY <1>1, <1>2, <1>3, SameHeads
<1>5. WorkSurvives'
  BY <1>1, <1>4 DEF IInv, WorkSurvives, Changed
<1> QED BY <1>1, <1>2, <1>3, <1>5, EditKeeps DEF HeadInv

LEMMA DamageKeeps ==
  ASSUME IInv, NEW t \in Trees, NEW place \in Places \ {"present"}, Damage(t, place)
  PROVE  IInv' /\ Listed' = Listed
<1> DEFINE c == [tree[t] EXCEPT !.place = place, !.dirty = @ /\ place = "broken", !.live = FALSE]
<1>1. /\ Changed /\ tree[t] # NoTree /\ tree[t].place = "present"
      /\ tree' = [tree EXCEPT ![t] = c]
      /\ vanished' = IF gc.at # "idle" /\ place = "missing" /\ tree[t].head = Detached
                       THEN vanished \cup tree[t].tip ELSE vanished
      /\ UNCHANGED <<ref, pushed, pr, work>>
  BY DEF Damage
<1>2. TypeOK /\ ClockInv /\ HeadInv /\ t \in Listed /\ tree[t] \in Checkouts(0..clock)
  BY <1>1, HeadTipType DEF IInv, Listed
<1>3. /\ c \in Checkouts(0..clock) /\ c.head = tree[t].head /\ c.tip = tree[t].tip
      /\ c.place = place /\ (c.dirty => place = "broken")
  BY <1>1, <1>2 DEF Checkouts
<1> HIDE DEF c
<1>4. Reachable' = Reachable
  BY <1>1, <1>2, <1>3, SameHeads
<1>5. WorkSurvives'
  BY <1>1, <1>4 DEF IInv, WorkSurvives, Changed
<1> QED BY <1>1, <1>2, <1>3, <1>5, EditKeeps DEF HeadInv

-----------------------------------------------------------------------------
LEMMA NextIInv == IInv /\ [Next]_vars => IInv'
<1> SUFFICES ASSUME IInv, [Next]_vars PROVE IInv'
  OBVIOUS
<1>1. ASSUME NEW stale \in BOOLEAN, List(stale) PROVE IInv'
  BY <1>1, ListKeeps
<1>2. ASSUME NEW ghAnswers \in BOOLEAN, Snapshot(ghAnswers) PROVE IInv'
  BY <1>2, SnapshotKeeps
<1>3. ASSUME NEW t \in Trees, Classify(t) \/ Recheck(t) PROVE IInv'
  BY <1>3, ClassifyKeeps, RecheckKeeps
<1>4. CASE RemoveTree
  BY <1>4, UnregisterKeeps, DamagedByGcKeeps
<1>5. CASE RemoveTreeFails \/ DeleteBranchFails
  BY <1>5, PutAsideKeeps DEF RemoveTreeFails, DeleteBranchFails
<1>6. CASE DeleteBranch
  BY <1>6, DeleteBranchKeeps
<1>7. CASE Report \/ Interrupted
  BY <1>7, PutAsideKeeps DEF Report, Interrupted
<1>8. ASSUME NEW t \in Trees, Commit(t) \/ \E head \in Heads : Checkout(t, head) PROVE IInv'
  BY <1>8, CommitKeeps, CheckoutKeeps
<1>9. ASSUME NEW b \in Branches, Sync(b) \/ UpdatePr(b) PROVE IInv'
  BY <1>9, SyncKeeps, UpdatePrKeeps
<1>10. ASSUME NEW t \in Trees, NEW what \in {"dirty", "live", "locked"}, Use(t, what) PROVE IInv'
  BY <1>10, UseKeeps
<1>11. ASSUME NEW t \in Trees, NEW place \in Places \ {"present"}, Damage(t, place) PROVE IInv'
  BY <1>11, DamageKeeps
<1>12. CASE UNCHANGED vars
  <2>0. /\ TypeOK /\ ClockInv /\ HeadInv /\ StepInv
        /\ MissingInv /\ RecheckInv /\ ReportInv /\ FinishedInv
        /\ WorkSurvives /\ InUseSurvives
    BY DEF IInv
  <2>1. UNCHANGED <<repo, changes, run, history>>
    BY <1>12 DEF vars, repo, run, history
  <2>2. TypeOK' /\ ClockInv' /\ HeadInv' /\ StepInv' /\ ReportInv'
    BY <2>0, <2>1 DEF repo, run, history, TypeOK, ClockInv, HeadInv, StepInv, ReportInv, Listed,
                      Queued, Removing
  <2>3. MissingInv' /\ RecheckInv'
    BY <2>0, <2>1 DEF repo, run, history, MissingInv, RecheckInv, Queued, Removing, StillSafe,
                      Misread, HeadTip, HasUnpushed, ListedRefUnpushed
  <2>4. FinishedInv'
    BY <2>0, <2>1 DEF repo, run, history, FinishedInv, ListingHolds, Finished, HeadTip, Removing
  <2>5. WorkSurvives'
    BY <2>0, <2>1 DEF repo, run, history, WorkSurvives, HeadTip, Reachable, Refs, Listed
  <2>6. InUseSurvives'
    BY <2>0, <2>1 DEF repo, run, history, InUseSurvives
  <2> QED BY <2>2, <2>3, <2>4, <2>5, <2>6 DEF IInv
<1> QED BY <1>1, <1>2, <1>3, <1>4, <1>5, <1>6, <1>7, <1>8, <1>9, <1>10, <1>11, <1>12 DEF Next

(* Every reachable state satisfies the inductive invariant.                 *)
THEOREM Invariance == Spec => []IInv
BY InitIInv, NextIInv, PTL DEF Spec

(* TypeOK for every repository: tips, checkouts, pull requests and what a   *)
(* run remembers are of the present or the past.                            *)
THEOREM TypeCorrect == Spec => []TypeOK
BY Invariance, PTL DEF IInv

(* WorkSurvives for every repository: no commit is lost to the gc, outside  *)
(* the window and the vanished directories the property names.              *)
THEOREM GcKeepsWork == Spec => []WorkSurvives
BY Invariance, PTL DEF IInv

(* InUseSurvives for every repository.                                      *)
THEOREM GcKeepsWhatIsInUse == Spec => []InUseSurvives
BY Invariance, PTL DEF IInv

(* ReportIsTrue for every repository.                                       *)
THEOREM GcReportsTruly == Spec => []ReportIsTrue
<1>1. IInv => ReportIsTrue
  BY DEF IInv, ReportInv, ReportIsTrue
<1> QED BY <1>1, Invariance, PTL

(* RemovesOnlyFinished for every repository: only the gc unregisters a      *)
(* worktree, and what it planned was finished.                              *)
THEOREM GcRemovesOnlyFinished == Spec => RemovesOnlyFinished
<1> DEFINE A == \A t \in Trees :
       (/\ tree[t] # NoTree /\ tree'[t] = NoTree
        /\ tree[t].place = "present" /\ ~ gc.stale /\ ~ moved)
       => /\ tree[t].head # Detached
          /\ pr[tree[t].head].state \in Resolved
          /\ \A c \in HeadTip(t) : c <= pr[tree[t].head].at
<1>1. ASSUME IInv, [Next]_vars PROVE [A]_vars
  <2> SUFFICES ASSUME NEW t \in Trees, tree[t] # NoTree, tree'[t] = NoTree,
                      tree[t].place = "present", ~ gc.stale, ~ moved
               PROVE  /\ tree[t].head # Detached
                      /\ pr[tree[t].head].state \in Resolved
                      /\ \A c \in HeadTip(t) : c <= pr[tree[t].head].at
    BY DEF A
  <2>1. CASE RemoveTree
    <3>1. gc.at = "remove" /\ (t # gc.tree => tree'[t] = tree[t])
      BY <2>1, <1>1 DEF RemoveTree, IInv, StepInv, TypeOK
    <3>2. t \in Removing
      BY <3>1 DEF Removing
    <3> QED BY <3>2, <1>1 DEF IInv, FinishedInv, Finished
  <2>2. CASE ~ RemoveTree
    <3>1. Listed' = Listed \/ tree' = tree
      BY <2>2, <1>1, CommitKeeps, CheckoutKeeps, UseKeeps, DamageKeeps
         DEF Next, vars, List, Snapshot, Classify, Recheck, RemoveTreeFails, DeleteBranch,
             DeleteBranchFails, Report, Interrupted, Sync, UpdatePr, repo
    <3> QED BY <3>1 DEF Listed
  <2> QED BY <2>1, <2>2
<1> QED BY <1>1, Invariance, PTL DEF Spec, RemovesOnlyFinished
=============================================================================
