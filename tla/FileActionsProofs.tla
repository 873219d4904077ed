-------------------------- MODULE FileActionsProofs --------------------------
(***************************************************************************)
(* Theorems about FileActions, for every plan, every set of paths and       *)
(* contents and every number of runs and changes: the types, that what the  *)
(* user wrote survives, that backups are kept, that a run without an error  *)
(* leaves what it declared and that a re-apply touches nothing.             *)
(***************************************************************************)
EXTENDS FileActions, NaturalsInduction, WellFoundedInduction, FiniteSetTheorems, SequenceTheorems, TLAPS

(* Every non-empty set of naturals has a least element. *)
LEMMA LeastElement ==
    ASSUME NEW S \in SUBSET Nat, S # {}
    PROVE  \E m \in S : \A k \in S : m <= k
<1>1. PICK m \in S : \A k \in S : <<k, m>> \notin OpToRel(<, Nat)
  BY NatLessThanWellFounded, WFMin
<1>2. ASSUME NEW k \in S PROVE m <= k
  <2>1. k \in Nat /\ m \in Nat /\ ~(k < m)
    BY <1>1 DEF OpToRel
  <2> QED BY <2>1
<1> QED BY <1>2

-----------------------------------------------------------------------------
(* Backup names *)

(* Among one more suffixes than there are backups one is free.              *)
LEMMA FreeSuffix ==
  ASSUME IsFiniteSet(DOMAIN backup), NEW p
  PROVE  /\ Cardinality(DOMAIN backup) \in Nat
         /\ \E n \in 0..Cardinality(DOMAIN backup) : <<p, stamp, n>> \notin DOMAIN backup
<1> DEFINE c == Cardinality(DOMAIN backup)
           f == [n \in 0..c |-> <<p, stamp, n>>]
<1>1. c \in Nat
  BY FS_CardinalityType
<1>2. IsFiniteSet(0..c) /\ Cardinality(0..c) = c + 1
  <2> HIDE DEF c
  <2> QED BY <1>1, FS_Interval
<1>3. ASSUME \A n \in 0..c : <<p, stamp, n>> \in DOMAIN backup PROVE FALSE
  <2>1. f \in [0..c -> DOMAIN backup]
    BY <1>3
  <2>2. Cardinality(DOMAIN backup) < Cardinality(0..c)
    BY <1>1, <1>2
  <2>3. \E x, y \in 0..c : x # y /\ f[x] = f[y]
    <3> HIDE DEF f, c
    <3> QED BY <1>2, <2>1, <2>2, FS_PigeonHole
  <2> QED BY <2>3
<1> QED BY <1>1, <1>3

(* backup_path returns a name of the path that nothing has.                 *)
LEMMA BackupNameIsFresh ==
  ASSUME IsFiniteSet(DOMAIN backup), NEW p
  PROVE  \E n \in Nat : /\ BackupName(p) = <<p, stamp, n>>
                        /\ <<p, stamp, n>> \notin DOMAIN backup
<1> DEFINE free == {n \in 0..Cardinality(DOMAIN backup) : <<p, stamp, n>> \notin DOMAIN backup}
           least(n) == \A m \in free : n <= m
           first == CHOOSE n \in free : least(n)
<1>1. free \in SUBSET Nat /\ free # {}
  BY FreeSuffix
<1>2. \E n \in free : least(n)
  <2> HIDE DEF free
  <2> QED BY <1>1, LeastElement
<1>3. first \in free
  <2> HIDE DEF free, least
  <2> QED BY <1>2
<1>4. BackupName(p) = <<p, stamp, first>>
  BY DEF BackupName
<1>5. first \in Nat /\ <<p, stamp, first>> \notin DOMAIN backup
  <2> HIDE DEF first
  <2> QED BY <1>1, <1>3
<1> HIDE DEF first
<1> QED BY <1>4, <1>5

-----------------------------------------------------------------------------
(* The inductive invariant *)

(* The two halves of TypeOK.                                                *)
DiskType ==
  /\ target \in [Paths -> Contents]
  /\ link \in [Linked -> Links]
  /\ DOMAIN backup \subseteq Paths \X Nat \X Nat
  /\ \A n \in DOMAIN backup : backup[n] \in Contents \ {Absent}
  /\ owed \subseteq Paths \X UserMade

RunType ==
  /\ stamp \in 0..runs
  /\ declared \in [Paths -> Wanted \cup {Absent}]
  /\ policy \in Policies \cup {"backup"}
  /\ at \in 0..(Len(Plan) + 1)
  /\ step \in {"check", "move", "remove", "create", "fill", "unlink", "symlink"}
  /\ status \in Seq({"skipped", "written", "error"})
  /\ runs \in 0..MaxRuns /\ changes \in 0..MaxUser
  /\ settled \in BOOLEAN

(* Where the run is tells what the current action found and did so far.     *)
StepInv ==
  /\ at \notin DOMAIN Plan => step = "check"
  /\ at # 0 => declared \in [Paths -> Wanted]
  /\ at \in DOMAIN Plan =>
       /\ step \in {"move", "remove", "create", "fill"} => Plan[at].kind = "file"
       /\ step \in {"unlink", "symlink"} => Plan[at].kind = "link"
       /\ step \in {"move", "remove"} =>
            Exists(Here) /\ target[Here] # declared[Here] /\ policy # "skip"
       /\ step = "create" => ~Exists(Here)
       /\ step = "fill" => target[Here] = Torn
       /\ step = "unlink" => link[Here] = "wrong"
       /\ step = "symlink" => link[Here] = "none"

(* Action i of the plan is in place.                                        *)
Done(i) ==
  /\ Plan[i].kind = "file" =>
       \/ target[Plan[i].path] = declared[Plan[i].path]
       \/ policy = "skip" /\ Exists(Plan[i].path)
  /\ Plan[i].kind = "link" => link[Plan[i].path] \in {"right", "real"}

(* What an earlier action of the run reported as done is still in place.    *)
StatusInv ==
  at # 0 =>
    /\ Len(status) = at - 1
    /\ \A i \in 1..(at - 1) : status[i] # "error" => Done(i)

(* A run that found everything in place is still only looking.              *)
SettledInv == at # 0 /\ settled => step = "check" /\ InPlace(declared, policy)

IInv ==
  /\ TypeOK /\ IsFiniteSet(DOMAIN backup)
  /\ StepInv /\ StatusInv /\ SettledInv /\ UserContentSurvives

-----------------------------------------------------------------------------
LEMMA PlanFacts ==
  /\ Len(Plan) \in Nat /\ DOMAIN Plan = 1..Len(Plan)
  /\ \A i \in DOMAIN Plan :
       /\ Plan[i].kind \in {"file", "link"}
       /\ Plan[i].path \in Paths
       /\ Plan[i].kind = "link" => Plan[i].path \in Linked
<1> DEFINE Action == [kind: {"file", "link"}, path: Paths]
<1>1. Plan \in Seq(Action)
  BY PlanAssumption
<1>2. Len(Plan) \in Nat /\ DOMAIN Plan = 1..Len(Plan)
  <2> HIDE DEF Action
  <2> QED BY <1>1
<1>3. \A i \in DOMAIN Plan : Plan[i] \in Action
  <2> HIDE DEF Action
  <2> QED BY <1>1
<1> QED BY <1>2, <1>3, PlanAssumption

LEMMA InitIInv == Init => IInv
<1> SUFFICES ASSUME Init PROVE IInv
  OBVIOUS
<1>1. DOMAIN backup = {}
  BY DEF Init
<1>2. IsFiniteSet(DOMAIN backup)
  BY <1>1, FS_EmptySet
<1>3. DiskType
  BY <1>1 DEF Init, DiskType, Contents, Links, Exists
<1>4. RunType
  <2>1. declared \in [Paths -> Wanted \cup {Absent}]
    BY DEF Init
  <2>2. status \in Seq({"skipped", "written", "error"})
    BY DEF Init
  <2>3. stamp \in 0..runs /\ runs \in 0..MaxRuns /\ changes \in 0..MaxUser
    BY BoundsAssumption DEF Init
  <2>4. at \in 0..(Len(Plan) + 1)
    BY PlanFacts DEF Init
  <2> QED BY <2>1, <2>2, <2>3, <2>4 DEF Init, RunType
<1>5. TypeOK
  BY <1>3, <1>4 DEF TypeOK, DiskType, RunType
<1>6. StepInv /\ StatusInv /\ SettledInv
  BY PlanFacts DEF Init, StepInv, StatusInv, SettledInv
<1>7. UserContentSurvives
  BY DEF Init, UserContentSurvives
<1> QED BY <1>2, <1>5, <1>6, <1>7 DEF IInv

(* An action that is finished, or whose comparison decided on a call, and   *)
(* after which what was done is still done.                                 *)
LEMMA ResultIInv ==
  ASSUME IInv, at \in DOMAIN Plan,
         NEW s \in {"skipped", "written", "error"}, Result(s),
         \A i \in 1..at : (IF i = at THEN s # "error" ELSE Done(i)) => Done(i)',
         settled => UNCHANGED disk
  PROVE  RunType' /\ StepInv' /\ StatusInv' /\ SettledInv'
<1> USE DEF IInv
<1>1. at \in Nat /\ at >= 1 /\ at <= Len(Plan) /\ at' = at + 1
  BY PlanFacts DEF Result
<1>2. RunType'
  BY <1>1, PlanFacts DEF TypeOK, RunType, Result
<1>3. StepInv'
  BY <1>1 DEF StepInv, Result
<1>4. StatusInv'
  <2>1. Len(status) = at - 1 /\ status \in Seq({"skipped", "written", "error"})
    BY <1>1 DEF StatusInv, TypeOK
  <2>2. status' = Append(status, s)
    BY DEF Result
  <2>3. /\ Len(status') = at
        /\ status'[at] = s
        /\ \A i \in 1..(at - 1) : status'[i] = status[i]
    BY <1>1, <2>1, <2>2
  <2>4. ASSUME NEW i \in 1..at, status'[i] # "error" PROVE Done(i)'
    <3>1. CASE i = at
      BY <1>1, <2>3, <2>4, <3>1
    <3>2. CASE i # at
      <4>1. i \in 1..(at - 1)
        BY <1>1, <3>2
      <4>2. Done(i)
        BY <1>1, <2>3, <2>4, <4>1 DEF StatusInv
      <4> QED BY <4>1, <4>2
    <3> QED BY <3>1, <3>2
  <2> HIDE DEF IInv
  <2> QED BY <1>1, <2>3, <2>4 DEF StatusInv
<1>5. SettledInv'
  BY <1>1 DEF SettledInv, InPlace, Exists, Result, disk
<1> QED BY <1>2, <1>3, <1>4, <1>5

LEMMA ContinueIInv ==
  ASSUME IInv, at \in DOMAIN Plan,
         NEW next \in {"move", "remove", "create", "fill", "unlink", "symlink"},
         Continue(next), StepInv',
         \A i \in 1..(at - 1) : Done(i) => Done(i)',
         ~settled
  PROVE  RunType' /\ StatusInv' /\ SettledInv'
<1>1. RunType'
  BY DEF IInv, TypeOK, RunType, Continue
<1>2. StatusInv'
  BY DEF IInv, StatusInv, Continue
<1>3. SettledInv'
  BY DEF SettledInv, Continue
<1> QED BY <1>1, <1>2, <1>3

(* The invariant after a step, from its parts.                              *)
LEMMA IInvParts ==
  ASSUME DiskType', RunType', IsFiniteSet(DOMAIN backup)', StepInv', StatusInv', SettledInv',
         UserContentSurvives'
  PROVE  IInv'
<1> QED BY DEF IInv, TypeOK, DiskType, RunType

-----------------------------------------------------------------------------
(* The steps that only look                                                 *)

LEMMA LookingKeepsDisk ==
  ASSUME IInv, UNCHANGED <<disk, owed>>
  PROVE  /\ DiskType' /\ IsFiniteSet(DOMAIN backup)' /\ UserContentSurvives'
         /\ UNCHANGED disk
         /\ UNCHANGED <<declared, policy>> => \A i \in DOMAIN Plan : Done(i) => Done(i)'
<1>1. UNCHANGED <<target, link, backup, owed>>
  BY DEF disk
<1>2. DiskType' /\ IsFiniteSet(DOMAIN backup)'
  BY <1>1 DEF IInv, TypeOK, DiskType
<1>3. UserContentSurvives'
  BY <1>1 DEF IInv, UserContentSurvives
<1>4. ASSUME UNCHANGED <<declared, policy>>, NEW i \in DOMAIN Plan, Done(i)
      PROVE  Done(i)'
  BY <1>1, <1>4 DEF Done, Exists
<1> QED BY <1>1, <1>2, <1>3, <1>4 DEF disk

LEMMA LookingResultIInv ==
  ASSUME IInv, FileSkipped \/ LinkRefused \/ LinkSkipped \/ HandlerRaises
  PROVE  IInv'
<1>1. at \in DOMAIN Plan /\ at \in 1..Len(Plan) /\ UNCHANGED <<disk, owed>>
  BY PlanFacts DEF FileSkipped, LinkRefused, LinkSkipped, HandlerRaises, Doing
<1>2. PICK s \in {"skipped", "error"} :
        Result(s) /\ (s # "error" => FileSkipped \/ LinkSkipped)
  BY DEF FileSkipped, LinkRefused, LinkSkipped, HandlerRaises
<1>3. \A i \in DOMAIN Plan : Done(i) => Done(i)'
  BY <1>1, <1>2, LookingKeepsDisk DEF Result
<1>4. FileSkipped \/ LinkSkipped => Done(at)
  BY <1>1 DEF FileSkipped, LinkSkipped, Doing, Done, Here
<1>5. \A i \in 1..at : (IF i = at THEN s # "error" ELSE Done(i)) => Done(i)'
  BY <1>1, <1>2, <1>3, <1>4, PlanFacts
<1>6. RunType' /\ StepInv' /\ StatusInv' /\ SettledInv'
  BY <1>1, <1>2, <1>5, LookingKeepsDisk, ResultIInv
<1> QED BY <1>1, <1>6, LookingKeepsDisk, IInvParts

(* A settled run has nothing to compare that differs.                       *)
LEMMA DiffersIsUnsettled ==
  ASSUME IInv, FileDiffers \/ LinkDiffers
  PROVE  ~settled
<1>1. at \in DOMAIN Plan /\ at # 0
  BY PlanFacts DEF FileDiffers, LinkDiffers, Doing
<1>2. CASE FileDiffers
  BY <1>1, <1>2 DEF IInv, SettledInv, InPlace, FileDiffers, Doing, Here
<1>3. CASE LinkDiffers
  BY <1>1, <1>3 DEF IInv, SettledInv, InPlace, LinkDiffers, Doing, Here
<1> QED BY <1>2, <1>3

LEMMA DiffersIInv ==
  ASSUME IInv, FileDiffers \/ LinkDiffers
  PROVE  IInv'
<1>1. /\ at \in DOMAIN Plan /\ at \in 1..Len(Plan) /\ UNCHANGED <<disk, owed>>
      /\ step = "check"
  BY PlanFacts DEF FileDiffers, LinkDiffers, Doing
<1>2. PICK next \in {"move", "remove", "create", "unlink", "symlink"} : Continue(next)
  BY DEF FileDiffers, LinkDiffers
<1>3. UNCHANGED <<target, link, declared, policy, at>>
  BY <1>1, <1>2 DEF disk, Continue
<1>4. StepInv'
  <2>1. at' # 0 => declared' \in [Paths -> Wanted]
    BY <1>1, <1>3, PlanFacts DEF IInv, StepInv
  <2>2. CASE FileDiffers
    BY <1>1, <1>3, <2>1, <2>2 DEF FileDiffers, Doing, Continue, StepInv, Here, Exists
  <2>3. CASE LinkDiffers
    BY <1>1, <1>3, <2>1, <2>3 DEF LinkDiffers, Doing, Continue, StepInv, Here, Exists
  <2> QED BY <2>2, <2>3
<1>5. \A i \in 1..(at - 1) : Done(i) => Done(i)'
  BY <1>1, <1>3, LookingKeepsDisk, PlanFacts
<1>6. RunType' /\ StatusInv' /\ SettledInv'
  BY <1>1, <1>2, <1>4, <1>5, DiffersIsUnsettled, ContinueIInv
<1> QED BY <1>1, <1>4, <1>6, LookingKeepsDisk, IInvParts

-----------------------------------------------------------------------------
(* The steps that change the disk                                           *)

(* While an action works on its path no earlier one of that path and kind   *)
(* counts as done.                                                          *)
LEMMA EarlierElsewhere ==
  ASSUME IInv, at \in DOMAIN Plan, step \in {"move", "remove", "create", "unlink", "symlink"},
         NEW i \in 1..(at - 1), Plan[i].kind = Plan[at].kind, Done(i)
  PROVE  Plan[i].path # Here
<1>1. at \in 1..Len(Plan) /\ i \in DOMAIN Plan
  BY PlanFacts
<1>2. Plan[i].path \in Paths /\ declared \in [Paths -> Wanted] /\ Absent \notin Wanted
  BY <1>1, PlanFacts, ContentAssumption DEF IInv, StepInv
<1> QED BY <1>1, <1>2 DEF IInv, StepInv, Done, Exists, Here

LEMMA WorkingIsUnsettled ==
  ASSUME IInv, at \in DOMAIN Plan, step # "check"
  PROVE  ~settled
<1> QED BY PlanFacts DEF IInv, SettledInv

LEMMA MoveAsideIInv ==
  ASSUME IInv, MoveAside
  PROVE  IInv'
<1>1. /\ at \in DOMAIN Plan /\ at \in 1..Len(Plan) /\ step = "move" /\ Here \in Paths
      /\ Plan[at].kind = "file" /\ Continue("create")
  BY PlanFacts DEF MoveAside, Doing, Here
<1>2. UNCHANGED <<link, owed, declared, policy, at, stamp>>
  BY DEF MoveAside, Continue
<1>3. PICK n \in Nat : BackupName(Here) = <<Here, stamp, n>>
                       /\ <<Here, stamp, n>> \notin DOMAIN backup
  BY BackupNameIsFresh DEF IInv
<1> DEFINE name == <<Here, stamp, n>>
<1>4. /\ DOMAIN backup' = DOMAIN backup \cup {name}
      /\ backup'[name] = target[Here]
      /\ \A m \in DOMAIN backup : backup'[m] = backup[m]
  BY <1>3 DEF MoveAside, WithBackup
<1>5. /\ target' \in [Paths -> Contents]
      /\ target'[Here] = Absent
      /\ \A p \in Paths \ {Here} : target'[p] = target[p]
  BY <1>1 DEF MoveAside, IInv, TypeOK, Contents
<1>6. IsFiniteSet(DOMAIN backup)'
  BY <1>4, FS_AddElement DEF IInv
<1>7. DiskType'
  <2>1. target[Here] \in Contents \ {Absent}
    BY <1>1 DEF IInv, TypeOK, StepInv, Exists
  <2>2. stamp \in Nat
    BY BoundsAssumption DEF IInv, TypeOK
  <2>3. DOMAIN backup' \subseteq Paths \X Nat \X Nat
    BY <1>1, <1>4, <2>2 DEF IInv, TypeOK
  <2>4. \A m \in DOMAIN backup' : backup'[m] \in Contents \ {Absent}
    BY <1>4, <2>1 DEF IInv, TypeOK
  <2> QED BY <1>2, <1>5, <2>3, <2>4 DEF IInv, TypeOK, DiskType
<1>8. UserContentSurvives'
  <2> SUFFICES ASSUME NEW pc \in owed
               PROVE  \/ target'[pc[1]] = pc[2]
                      \/ \E m \in DOMAIN backup' : m[1] = pc[1] /\ backup'[m] = pc[2]
    BY <1>2 DEF UserContentSurvives
  <2>1. pc[1] \in Paths
    BY DEF IInv, TypeOK
  <2>2. CASE \E m \in DOMAIN backup : m[1] = pc[1] /\ backup[m] = pc[2]
    BY <1>4, <2>2
  <2>3. CASE target[pc[1]] = pc[2] /\ pc[1] # Here
    BY <1>5, <2>1, <2>3
  <2>4. CASE target[pc[1]] = pc[2] /\ pc[1] = Here
    BY <1>4, <2>4
  <2> QED BY <2>2, <2>3, <2>4 DEF IInv, UserContentSurvives
<1>9. StepInv'
  BY <1>1, <1>2, <1>5 DEF IInv, StepInv, Continue, Exists, Here
<1>10. ASSUME NEW i \in 1..(at - 1), Done(i) PROVE Done(i)'
  <2>1. Plan[i].path \in Paths
    BY <1>1, PlanFacts
  <2>2. Plan[i].kind = "file" => Plan[i].path # Here
    BY <1>1, <1>10, EarlierElsewhere
  <2> QED BY <1>2, <1>5, <1>10, <2>1, <2>2 DEF Done, Exists
<1>11. RunType' /\ StatusInv' /\ SettledInv'
  BY <1>1, <1>9, <1>10, WorkingIsUnsettled, ContinueIInv
<1> QED BY <1>6, <1>7, <1>8, <1>9, <1>11, IInvParts

(* Replacing what is at the path, when what was there is not owed.          *)
LEMMA RetargetKeeps ==
  ASSUME IInv, Here \in Paths, NEW c \in Contents,
         target' = [target EXCEPT ![Here] = c], UNCHANGED <<link, backup>>,
         owed' \subseteq owed, \A pc \in owed' : pc[1] = Here => target[Here] # pc[2]
  PROVE  /\ DiskType' /\ IsFiniteSet(DOMAIN backup)' /\ UserContentSurvives'
         /\ target'[Here] = c
         /\ \A p \in Paths \ {Here} : target'[p] = target[p]
<1>1. /\ target' \in [Paths -> Contents]
      /\ target'[Here] = c
      /\ \A p \in Paths \ {Here} : target'[p] = target[p]
  BY DEF IInv, TypeOK
<1>2. DiskType' /\ IsFiniteSet(DOMAIN backup)'
  BY <1>1 DEF IInv, TypeOK, DiskType
<1>3. ASSUME NEW pc \in owed'
      PROVE  \/ target'[pc[1]] = pc[2]
             \/ \E m \in DOMAIN backup : m[1] = pc[1] /\ backup[m] = pc[2]
  <2>1. pc \in owed /\ pc[1] \in Paths
    BY <1>3 DEF IInv, TypeOK
  <2>2. CASE \E m \in DOMAIN backup : m[1] = pc[1] /\ backup[m] = pc[2]
    BY <2>2
  <2>3. CASE target[pc[1]] = pc[2]
    BY <1>1, <1>3, <2>1, <2>3
  <2> QED BY <2>1, <2>2, <2>3 DEF IInv, UserContentSurvives
<1>4. UserContentSurvives'
  BY <1>3 DEF UserContentSurvives
<1> QED BY <1>1, <1>2, <1>4

LEMMA RetargetIInv ==
  ASSUME IInv, Remove \/ CreateTarget
  PROVE  IInv'
<1>1. /\ at \in DOMAIN Plan /\ at \in 1..Len(Plan) /\ step \in {"remove", "create"}
      /\ Here \in Paths /\ Plan[at].kind = "file"
  BY PlanFacts DEF Remove, CreateTarget, Doing, Here
<1>2. PICK c \in {Absent, Torn}, next \in {"create", "fill"} :
        /\ target' = [target EXCEPT ![Here] = c]
        /\ Continue(next)
        /\ next = "create" => c = Absent
        /\ next = "fill" => c = Torn
  BY DEF Remove, CreateTarget
<1>3. UNCHANGED <<link, backup>> /\ owed' \subseteq owed
  BY DEF Remove, CreateTarget
<1>4. ASSUME NEW pc \in owed', pc[1] = Here PROVE target[Here] # pc[2]
  <2>1. pc[2] \in UserMade /\ pc = <<pc[1], pc[2]>>
    BY <1>3 DEF IInv, TypeOK
  <2>2. CASE Remove
    BY <1>4, <2>1, <2>2 DEF Remove
  <2>3. CASE CreateTarget
    <3>1. target[Here] = Absent
      BY <1>1, <2>3 DEF IInv, StepInv, CreateTarget, Doing, Exists
    <3> QED BY <2>1, <3>1, ContentAssumption
  <2> QED BY <2>2, <2>3
<1>5. c \in Contents
  BY DEF Contents
<1>6. /\ DiskType' /\ IsFiniteSet(DOMAIN backup)' /\ UserContentSurvives'
      /\ target'[Here] = c
      /\ \A p \in Paths \ {Here} : target'[p] = target[p]
  BY <1>1, <1>2, <1>3, <1>4, <1>5, RetargetKeeps
<1>7. StepInv'
  BY <1>1, <1>2, <1>3, <1>6 DEF IInv, StepInv, Continue, Exists, Here
<1>8. ASSUME NEW i \in 1..(at - 1), Done(i) PROVE Done(i)'
  <2>1. Plan[i].path \in Paths
    BY <1>1, PlanFacts
  <2>2. Plan[i].kind = "file" => Plan[i].path # Here
    BY <1>1, <1>8, EarlierElsewhere
  <2> QED BY <1>2, <1>3, <1>6, <1>8, <2>1, <2>2 DEF Done, Exists, Continue
<1>9. RunType' /\ StatusInv' /\ SettledInv'
  BY <1>1, <1>2, <1>7, <1>8, WorkingIsUnsettled, ContinueIInv
<1> QED BY <1>6, <1>7, <1>9, IInvParts

LEMMA FillTargetIInv ==
  ASSUME IInv, FillTarget
  PROVE  IInv'
<1>1. /\ at \in DOMAIN Plan /\ at \in 1..Len(Plan) /\ step = "fill"
      /\ Here \in Paths /\ Plan[at].kind = "file" /\ target[Here] = Torn
  BY PlanFacts DEF FillTarget, Doing, Here, IInv, StepInv
<1>2. /\ target' = [target EXCEPT ![Here] = declared[Here]] /\ Result("written")
      /\ UNCHANGED <<link, backup, owed, declared, policy>>
  BY DEF FillTarget, Result
<1>3. declared[Here] \in Wanted /\ declared[Here] \in Contents /\ declared[Here] # Absent
  BY <1>1, ContentAssumption DEF IInv, StepInv, Contents
<1>4. ASSUME NEW pc \in owed', pc[1] = Here PROVE target[Here] # pc[2]
  BY <1>1, <1>2, ContentAssumption DEF IInv, TypeOK
<1>5. /\ DiskType' /\ IsFiniteSet(DOMAIN backup)' /\ UserContentSurvives'
      /\ target'[Here] = declared[Here]
      /\ \A p \in Paths \ {Here} : target'[p] = target[p]
  BY <1>1, <1>2, <1>3, <1>4, RetargetKeeps
<1>6. ASSUME NEW i \in 1..at, IF i = at THEN "written" # "error" ELSE Done(i)
      PROVE  Done(i)'
  <2>1. Plan[i].path \in Paths
    BY <1>1, PlanFacts
  <2>2. CASE Plan[i].path = Here /\ Plan[i].kind = "file"
    BY <1>2, <1>5, <2>2 DEF Done
  <2>3. CASE Plan[i].kind # "file"
    BY <1>1, <1>2, <1>6, <2>3 DEF Done
  <2>4. CASE Plan[i].path # Here
    BY <1>1, <1>2, <1>5, <1>6, <2>1, <2>4 DEF Done, Exists, Here
  <2> QED BY <2>2, <2>3, <2>4
<1>7. RunType' /\ StepInv' /\ StatusInv' /\ SettledInv'
  BY <1>1, <1>2, <1>6, WorkingIsUnsettled, ResultIInv
<1> QED BY <1>5, <1>7, IInvParts

(* Unlinking and linking leave the targets and the backups alone.           *)
LEMMA LinkStepIInv ==
  ASSUME IInv, Unlink \/ Symlink
  PROVE  IInv'
<1>1. /\ at \in DOMAIN Plan /\ at \in 1..Len(Plan) /\ step \in {"unlink", "symlink"}
      /\ Here \in Linked /\ Plan[at].kind = "link"
  BY PlanFacts DEF Unlink, Symlink, Doing, Here
<1>2. UNCHANGED <<target, backup, owed, declared, policy>>
  BY DEF Unlink, Symlink, Continue, Result
<1>3. PICK l \in {"none", "right"} :
        /\ link' = [link EXCEPT ![Here] = l]
        /\ l = "none" => Unlink
        /\ l = "right" => Symlink
  BY DEF Unlink, Symlink
<1>4. /\ link' \in [Linked -> Links]
      /\ link'[Here] = l
      /\ \A p \in Linked \ {Here} : link'[p] = link[p]
  BY <1>1, <1>3 DEF IInv, TypeOK, Links
<1>5. DiskType' /\ IsFiniteSet(DOMAIN backup)' /\ UserContentSurvives'
  BY <1>2, <1>4 DEF IInv, TypeOK, DiskType, UserContentSurvives
<1>6. ASSUME NEW i \in 1..(at - 1), Done(i) PROVE Done(i)'
  <2>1. Plan[i].kind = "link" => Plan[i].path \in Linked /\ Plan[i].path # Here
    BY <1>1, <1>6, PlanFacts, EarlierElsewhere
  <2> QED BY <1>2, <1>4, <1>6, <2>1 DEF Done, Exists
<1>7. CASE Unlink
  <2>1. Continue("symlink")
    BY <1>7 DEF Unlink
  <2>2. l = "none"
    BY <1>1, <1>3, <1>7 DEF Unlink, Symlink, Doing
  <2>3. StepInv'
    BY <1>1, <1>2, <1>4, <2>1, <2>2 DEF IInv, StepInv, Continue, Here
  <2>4. RunType' /\ StatusInv' /\ SettledInv'
    BY <1>1, <1>6, <2>1, <2>3, WorkingIsUnsettled, ContinueIInv
  <2> QED BY <1>5, <2>3, <2>4, IInvParts
<1>8. CASE Symlink
  <2>1. Result("written") /\ l = "right"
    BY <1>1, <1>3, <1>8 DEF Unlink, Symlink, Doing
  <2>2. Plan[at].path = Here
    BY DEF Here
  <2>3. \A i \in 1..at : (IF i = at THEN "written" # "error" ELSE Done(i)) => Done(i)'
    BY <1>1, <1>4, <1>6, <2>1, <2>2 DEF Done
  <2>4. RunType' /\ StepInv' /\ StatusInv' /\ SettledInv'
    BY <1>1, <2>1, <2>3, WorkingIsUnsettled, ResultIInv
  <2> QED BY <1>5, <2>4, IInvParts
<1> QED BY <1>7, <1>8

-----------------------------------------------------------------------------
(* The steps of the environment and the end of a run                        *)

LEMMA RunPlanIInv ==
  ASSUME IInv, NEW want \in [Paths -> Wanted], NEW pol \in Policies, NEW tick \in {0, 1},
         RunPlan(want, pol, tick)
  PROVE  IInv'
<1>1. UNCHANGED <<target, link, backup, owed>>
  BY DEF RunPlan, disk
<1>2. /\ runs' = runs + 1 /\ stamp' = stamp + tick /\ runs < MaxRuns
      /\ declared' = want /\ policy' = pol
      /\ at' = 1 /\ step' = "check" /\ status' = <<>>
      /\ settled' = InPlace(want, pol) /\ changes' = changes
  BY DEF RunPlan
<1>3. DiskType' /\ IsFiniteSet(DOMAIN backup)' /\ UserContentSurvives'
  BY <1>1 DEF IInv, TypeOK, DiskType, UserContentSurvives
<1>4. RunType'
  <2>1. stamp' \in 0..runs' /\ runs' \in 0..MaxRuns /\ changes' \in 0..MaxUser
    BY <1>2, BoundsAssumption DEF IInv, TypeOK
  <2>2. status' \in Seq({"skipped", "written", "error"})
    BY <1>2
  <2>3. declared' \in [Paths -> Wanted \cup {Absent}] /\ at' \in 0..(Len(Plan) + 1)
    BY <1>2, PlanFacts
  <2>4. settled' \in BOOLEAN
    BY <1>2 DEF InPlace
  <2> QED BY <1>2, <2>1, <2>2, <2>3, <2>4 DEF RunType
<1>5. StepInv' /\ StatusInv'
  BY <1>2 DEF StepInv, StatusInv
<1>6. SettledInv'
  BY <1>1, <1>2 DEF SettledInv, InPlace, Exists
<1> QED BY <1>3, <1>4, <1>5, <1>6, IInvParts

LEMMA UserWritesIInv ==
  ASSUME IInv, NEW p \in Paths, NEW c \in UserMade \cup {Absent}, UserWrites(p, c)
  PROVE  IInv'
<1>1. /\ at = 0 /\ changes < MaxUser /\ changes' = changes + 1
      /\ target' = [target EXCEPT ![p] = c]
      /\ owed' = (owed \ {<<p, target[p]>>}) \cup (IF c = Absent THEN {} ELSE {<<p, c>>})
      /\ UNCHANGED <<link, backup, stamp, declared, policy, at, step, status, runs, settled>>
  BY DEF UserWrites
<1>2. /\ target' \in [Paths -> Contents]
      /\ target'[p] = c
      /\ \A q \in Paths \ {p} : target'[q] = target[q]
  BY <1>1 DEF IInv, TypeOK, Contents
<1>3. DiskType' /\ IsFiniteSet(DOMAIN backup)'
  BY <1>1, <1>2 DEF IInv, TypeOK, DiskType
<1>4. ASSUME NEW pc \in owed'
      PROVE  \/ target'[pc[1]] = pc[2]
             \/ \E m \in DOMAIN backup : m[1] = pc[1] /\ backup[m] = pc[2]
  <2>1. CASE pc = <<p, c>>
    BY <1>2, <2>1
  <2>2. CASE pc # <<p, c>>
    <3>1. pc \in owed /\ pc # <<p, target[p]>>
      BY <1>1, <1>4, <2>2
    <3>2. pc[1] \in Paths /\ pc = <<pc[1], pc[2]>>
      BY <3>1 DEF IInv, TypeOK
    <3>3. CASE target[pc[1]] = pc[2]
      BY <1>2, <3>1, <3>2, <3>3
    <3> QED BY <3>1, <3>3 DEF IInv, UserContentSurvives
  <2> QED BY <2>1, <2>2
<1>5. UserContentSurvives'
  BY <1>1, <1>4 DEF UserContentSurvives
<1>6. RunType'
  BY <1>1, BoundsAssumption DEF IInv, TypeOK, RunType
<1>7. StepInv' /\ StatusInv' /\ SettledInv'
  BY <1>1, PlanFacts DEF IInv, StepInv, StatusInv, SettledInv
<1> QED BY <1>3, <1>5, <1>6, <1>7, IInvParts

LEMMA UserLinksIInv ==
  ASSUME IInv, NEW p \in Linked, NEW l \in Links, UserLinks(p, l)
  PROVE  IInv'
<1>1. /\ at = 0 /\ changes < MaxUser /\ changes' = changes + 1
      /\ link' = [link EXCEPT ![p] = l]
      /\ UNCHANGED <<target, backup, stamp, declared, policy, at, step, status, runs,
                      owed, settled>>
  BY DEF UserLinks
<1>2. DiskType' /\ IsFiniteSet(DOMAIN backup)' /\ UserContentSurvives'
  BY <1>1 DEF IInv, TypeOK, DiskType, UserContentSurvives
<1>3. RunType'
  BY <1>1, BoundsAssumption DEF IInv, TypeOK, RunType
<1>4. StepInv' /\ StatusInv' /\ SettledInv'
  BY <1>1, PlanFacts DEF IInv, StepInv, StatusInv, SettledInv
<1> QED BY <1>2, <1>3, <1>4, IInvParts

(* A run that dies or exits leaves the disk as it is.                       *)
LEMMA RunEndsIInv ==
  ASSUME IInv, Crash \/ Exit
  PROVE  IInv'
<1>1. /\ at' = 0 /\ status' = <<>> /\ step' = "check"
      /\ UNCHANGED <<disk, stamp, declared, policy, runs, changes, owed, settled>>
  BY PlanFacts DEF Crash, Exit, IInv, StepInv
<1>2. DiskType' /\ IsFiniteSet(DOMAIN backup)' /\ UserContentSurvives'
  BY <1>1, LookingKeepsDisk
<1>3. RunType'
  <2>1. status' \in Seq({"skipped", "written", "error"}) /\ at' \in 0..(Len(Plan) + 1)
    BY <1>1, PlanFacts
  <2> QED BY <1>1, <2>1 DEF IInv, TypeOK, RunType
<1>4. StepInv' /\ StatusInv' /\ SettledInv'
  BY <1>1, PlanFacts DEF StepInv, StatusInv, SettledInv
<1> QED BY <1>2, <1>3, <1>4, IInvParts

LEMMA StutterIInv ==
  ASSUME IInv, UNCHANGED vars
  PROVE  IInv'
<1>1. UNCHANGED <<disk, owed, target, link, backup>>
      /\ UNCHANGED <<stamp, declared, policy, at, step, status, runs, changes, settled>>
  BY DEF vars, disk
<1>2. RunType' /\ StepInv' /\ StatusInv' /\ SettledInv'
  BY <1>1 DEF IInv, TypeOK, RunType, StepInv, StatusInv, SettledInv, InPlace, Done,
              Here, Exists
<1> QED BY <1>1, <1>2, LookingKeepsDisk, IInvParts

LEMMA NextIInv == IInv /\ [Next]_vars => IInv'
<1> SUFFICES ASSUME IInv, [Next]_vars PROVE IInv'
  OBVIOUS
<1>1. CASE \E want \in [Paths -> Wanted], pol \in Policies, tick \in {0, 1} :
             RunPlan(want, pol, tick)
  BY <1>1, RunPlanIInv
<1>2. CASE \E p \in Paths, c \in UserMade \cup {Absent} : UserWrites(p, c)
  BY <1>2, UserWritesIInv
<1>3. CASE \E p \in Linked, l \in Links : UserLinks(p, l)
  BY <1>3, UserLinksIInv
<1>4. CASE Crash \/ Exit
  BY <1>4, RunEndsIInv
<1>5. CASE FileSkipped \/ LinkRefused \/ LinkSkipped \/ HandlerRaises
  BY <1>5, LookingResultIInv
<1>6. CASE FileDiffers \/ LinkDiffers
  BY <1>6, DiffersIInv
<1>7. CASE MoveAside
  BY <1>7, MoveAsideIInv
<1>8. CASE Remove \/ CreateTarget
  BY <1>8, RetargetIInv
<1>9. CASE FillTarget
  BY <1>9, FillTargetIInv
<1>10. CASE Unlink \/ Symlink
  BY <1>10, LinkStepIInv
<1>11. CASE UNCHANGED vars
  BY <1>11, StutterIInv
<1> QED BY <1>1, <1>2, <1>3, <1>4, <1>5, <1>6, <1>7, <1>8, <1>9, <1>10, <1>11
        DEF Next, Engine

LEMMA Invariance == Spec => []IInv
<1> QED BY InitIInv, NextIInv, PTL DEF Spec

-----------------------------------------------------------------------------
(* Disk, run and history have their types (run_plan and its handlers).      *)
THEOREM TypeCorrect == Spec => []TypeOK
<1>1. IInv => TypeOK
  BY DEF IInv
<1> QED BY <1>1, Invariance, PTL

(* What the user wrote is at its path or in a backup of it, whatever run    *)
(* dies or fails at whatever call, unless on_conflict=overwrite removes it. *)
THEOREM UserContentIsKept == Spec => []UserContentSurvives
<1>1. IInv => UserContentSurvives
  BY DEF IInv
<1> QED BY <1>1, Invariance, PTL

(* A run that reports no error leaves what its plan wants, whatever earlier *)
(* runs left behind.                                                        *)
THEOREM CleanRunsConverge == Spec => []CleanRunConverges
<1>1. IInv => CleanRunConverges
  <2> SUFFICES ASSUME IInv, at = Len(Plan) + 1,
                      \A i \in DOMAIN status : status[i] # "error"
               PROVE  InPlace(declared, policy)
    BY DEF CleanRunConverges
  <2>1. DOMAIN status = 1..Len(Plan)
    BY PlanFacts DEF IInv, TypeOK, StatusInv
  <2>2. \A i \in DOMAIN Plan : Done(i)
    BY <2>1, PlanFacts DEF IInv, StatusInv
  <2> QED BY <2>2 DEF Done, InPlace
<1> QED BY <1>1, Invariance, PTL

(* A run of a config that is in place touches nothing on disk.              *)
THEOREM ReapplyChangesNothing == Spec => ReapplyIsNoOp
<1>1. IInv /\ [Next]_vars => [at # 0 /\ settled => UNCHANGED disk]_vars
  <2> SUFFICES ASSUME IInv, Next, at # 0, settled PROVE UNCHANGED disk
    OBVIOUS
  <2>1. step = "check"
    BY DEF IInv, SettledInv
  <2> QED BY <2>1 DEF Next, Engine, RunPlan, UserWrites, UserLinks, Crash, Exit, FileSkipped,
             FileDiffers, MoveAside, Remove, CreateTarget, FillTarget, LinkRefused,
             LinkSkipped, LinkDiffers, Unlink, Symlink, HandlerRaises, Doing
<1> QED BY <1>1, Invariance, PTL DEF Spec, ReapplyIsNoOp

(* No step overwrites or removes a backup: backup_path never answers a name *)
(* that is taken, in however many runs of one second.                       *)
THEOREM BackupsStay == Spec => BackupsAreKept
<1> DEFINE Kept == \A n \in DOMAIN backup : n \in DOMAIN backup' /\ backup'[n] = backup[n]
<1>1. IInv /\ [Next]_vars => [Kept]_vars
  <2> SUFFICES ASSUME IInv, Next PROVE Kept
    OBVIOUS
  <2>1. CASE MoveAside
    <3>1. BackupName(Here) \notin DOMAIN backup
      BY BackupNameIsFresh DEF IInv
    <3> QED BY <2>1, <3>1 DEF MoveAside, WithBackup
  <2>2. CASE ~MoveAside
    <3>1. UNCHANGED backup
      BY <2>2 DEF Next, Engine, RunPlan, UserWrites, UserLinks, Crash, Exit, FileSkipped,
             FileDiffers, Remove, CreateTarget, FillTarget, LinkRefused,
             LinkSkipped, LinkDiffers, Unlink, Symlink, HandlerRaises, disk
    <3> QED BY <3>1
  <2> QED BY <2>1, <2>2
<1> QED BY <1>1, Invariance, PTL DEF Spec, BackupsAreKept
=============================================================================
