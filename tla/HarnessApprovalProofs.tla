------------------------ MODULE HarnessApprovalProofs ------------------------
(***************************************************************************)
(* Theorems about HarnessApproval, for every set of modes and policies and  *)
(* every number of applies and changes: the types, that rig never takes its *)
(* own value for the user's, and that the restore point it names is a file  *)
(* it never wrote, as long as no apply died between its two writes.         *)
(***************************************************************************)
EXTENDS HarnessApproval, TLAPS

Writing == {"write config", "open receipt", "write receipt"}

(* A file with rig's value, or one rig wrote, has a receipt that says so,   *)
(* as long as no apply died in between.                                     *)
Attributed ==
  ~gap /\ run.at \notin Writing /\ config # NoFile =>
    /\ config.by = "rig" => Readable /\ receipt.installed = config.value
    /\ config.rigWrote => Readable /\ ~receipt.adopted

(* Receipts, on disk or about to be written, restore a file rig never wrote.*)
Restores ==
  ~gap => /\ Readable /\ receipt.backup # NoFile => ~receipt.backup.rigWrote
          /\ run.at \in Writing /\ run.new.backup # NoFile => ~run.new.backup.rigWrote

(* What the apply is about to record is what it does to the config.         *)
Prepared ==
  /\ run.at \in Writing =>
       /\ run.new \in Receipts /\ run.new.installed = run.want /\ ~run.new.adopted
       /\ config # NoFile
  /\ run.at \in {"open receipt", "write receipt"} => config.value = run.want
  /\ run.at = "adopt" =>
       /\ run.new = Adopted
       /\ config # NoFile /\ config.value = run.want
       /\ ~gap => ~config.rigWrote

(* A skipped conflict has a file.                                           *)
Skipped == run.at = "conflict" => config # NoFile

IInv == TypeOK /\ Attributed /\ Restores /\ Prepared /\ Skipped /\ ConflictIsTheUsersBarGap

-----------------------------------------------------------------------------
(* What a readable receipt and a config that exists are made of.            *)
LEMMA FileTypes ==
  ASSUME TypeOK
  PROVE  /\ Readable => receipt \in Receipts
         /\ config # NoFile => config \in Contents
         /\ Lookup \in Values
         /\ Lookup # "missing" => config # NoFile
         /\ "missing" \in Values
<1>1. Readable => receipt \in Receipts
  BY DEF TypeOK, Readable
<1>2. config # NoFile => config \in Contents
  BY DEF TypeOK
<1>3. "missing" \in Values
  BY DEF Values
<1>4. Lookup \in Values
  BY <1>2, <1>3 DEF Lookup, Contents
<1> QED BY <1>1, <1>2, <1>3, <1>4 DEF Lookup

LEMMA InitIInv == Init => IInv
<1> SUFFICES ASSUME Init PROVE IInv
  OBVIOUS
<1>1. TypeOK
  <2>1. config \in Contents \cup {NoFile}
    BY DEF Init, Contents
  <2>2. runs \in 0..MaxRuns /\ changes \in 0..MaxUser
    BY BoundsAssumption DEF Init
  <2> QED BY <2>1, <2>2, ModesAssumption DEF Init, TypeOK, Idle
<1>2. ~Readable
  BY DEF Init, Readable
<1>3. config # NoFile => config.by = "user" /\ config.rigWrote = FALSE
  BY DEF Init
<1>4. Attributed /\ Restores /\ Prepared /\ Skipped /\ ConflictIsTheUsersBarGap
  BY <1>2, <1>3 DEF Init, Idle, Attributed, Restores, Prepared, Skipped, Writing,
                  ConflictIsTheUsersBarGap, ConflictIsTheUsers
<1> QED BY <1>1, <1>4 DEF IInv

-----------------------------------------------------------------------------
(* The environment *)

LEMMA UserIInv ==
  ASSUME IInv,
         \/ \E value \in Values, parses \in BOOLEAN : UserEdits(value, parses)
         \/ UserDeletes
  PROVE  IInv'
<1>1. /\ run.at = "idle" /\ changes < MaxUser /\ changes' = changes + 1
      /\ UNCHANGED <<receipt, guard, run, runs, gap>>
  BY DEF UserEdits, UserDeletes
<1>2. \/ config' = NoFile
      \/ /\ config' \in Contents /\ config'.by = "user"
         /\ config'.rigWrote = (config # NoFile /\ config.rigWrote)
  <2>1. CASE UserDeletes
    BY <2>1 DEF UserDeletes
  <2>2. CASE \E value \in Values, parses \in BOOLEAN : UserEdits(value, parses)
    <3>1. PICK value \in Values, parses \in BOOLEAN : UserEdits(value, parses)
      BY <2>2
    <3>2. (config # NoFile /\ config.rigWrote) \in BOOLEAN
      OBVIOUS
    <3> QED BY <3>1, <3>2 DEF UserEdits, Contents
  <2> QED BY <2>1, <2>2
<1>3. TypeOK'
  <2>1. config' \in Contents \cup {NoFile}
    BY <1>2
  <2>2. changes' \in 0..MaxUser
    <3>1. changes \in 0..MaxUser
      BY DEF IInv, TypeOK
    <3> QED BY <1>1, <3>1, BoundsAssumption
  <2> QED BY <1>1, <2>1, <2>2 DEF IInv, TypeOK
<1>4. Attributed' /\ Restores'
  BY <1>1, <1>2 DEF IInv, Attributed, Restores, Readable, Writing
<1>5. Prepared' /\ Skipped' /\ ConflictIsTheUsersBarGap'
  BY <1>1 DEF Prepared, Skipped, Writing, ConflictIsTheUsersBarGap, ConflictIsTheUsers
<1> QED BY <1>3, <1>4, <1>5 DEF IInv

(* Begin, End and Crash touch the locals of the apply only.                 *)
LEMMA ApplyLifeIInv ==
  ASSUME IInv,
         \/ \E want \in Modes, policy \in Policies : Begin(want, policy)
         \/ End \/ Crash \/ GuardChanges
  PROVE  IInv'
<1>1. UNCHANGED <<config, receipt, changes>>
  BY DEF Begin, End, Crash, GuardChanges
<1>2. CASE \E want \in Modes, policy \in Policies : Begin(want, policy)
  <2>1. PICK want \in Modes, policy \in Policies : Begin(want, policy)
    BY <1>2
  <2>2. /\ run.at = "idle" /\ runs < MaxRuns /\ runs' = runs + 1 /\ UNCHANGED <<guard, gap>>
        /\ run' = [at |-> "check", want |-> want, policy |-> policy, new |-> NoFile]
    BY <2>1 DEF Begin
  <2>3. TypeOK'
    <3>1. runs' \in 0..MaxRuns
      <4>1. runs \in 0..MaxRuns
        BY DEF IInv, TypeOK
      <4> QED BY <2>2, <4>1, BoundsAssumption
    <3> QED BY <1>1, <2>2, <3>1 DEF IInv, TypeOK
  <2>4. Attributed' /\ Restores' /\ Prepared' /\ Skipped' /\ ConflictIsTheUsersBarGap'
    BY <1>1, <2>2 DEF IInv, Attributed, Restores, Readable, Prepared, Skipped, Writing,
                      ConflictIsTheUsersBarGap, ConflictIsTheUsers
  <2> QED BY <2>3, <2>4 DEF IInv
<1>3. CASE End \/ Crash
  <2>1. /\ run' = Idle /\ UNCHANGED <<guard, runs>>
        /\ gap' = (gap \/ run.at \in Writing)
    BY <1>3 DEF End, Crash, Writing, Results, IInv, TypeOK
  <2>2. TypeOK'
    BY <1>1, <2>1, ModesAssumption DEF IInv, TypeOK, Idle
  <2>3. Attributed' /\ Restores' /\ Prepared' /\ Skipped' /\ ConflictIsTheUsersBarGap'
    BY <1>1, <2>1 DEF IInv, Attributed, Restores, Readable, Prepared, Skipped, Writing, Idle,
                      ConflictIsTheUsersBarGap, ConflictIsTheUsers
  <2> QED BY <2>2, <2>3 DEF IInv
<1>4. CASE GuardChanges
  <2>1. run.at = "idle" /\ guard' = ~guard /\ UNCHANGED <<run, runs, gap>>
    BY <1>4 DEF GuardChanges
  <2>2. TypeOK'
    BY <1>1, <2>1 DEF IInv, TypeOK
  <2>3. Attributed' /\ Restores' /\ Prepared' /\ Skipped' /\ ConflictIsTheUsersBarGap'
    BY <1>1, <2>1 DEF IInv, Attributed, Restores, Readable, Prepared, Skipped, Writing,
                      ConflictIsTheUsersBarGap, ConflictIsTheUsers
  <2> QED BY <2>2, <2>3 DEF IInv
<1> QED BY <1>2, <1>3, <1>4

-----------------------------------------------------------------------------
(* The handler *)

(* A value rig put there is never in conflict: its receipt names it.        *)
LEMMA ConflictIsNotRigs ==
  ASSUME IInv, run.at = "check", Conflict
  PROVE  config # NoFile /\ (~gap => config.by = "user")
<1>1. config # NoFile /\ config \in Contents /\ Lookup = config.value
  BY FileTypes DEF IInv, Conflict, Missing, Lookup
<1>2. ASSUME ~gap, config.by = "rig" PROVE FALSE
  <2>1. Readable /\ receipt.installed = config.value
    BY <1>1, <1>2 DEF IInv, Attributed, Writing
  <2>2. config.value \in Modes
    BY <2>1, FileTypes DEF IInv, Receipts
  <2> QED BY <1>1, <2>1, <2>2 DEF Conflict, Missing, RigInstalled
<1> QED BY <1>1, <1>2 DEF Contents

LEMMA ReturnIInv ==
  ASSUME IInv, ReturnError \/ ReturnConflict \/ ReturnSkipped
  PROVE  IInv'
<1>1. PICK result \in {"error", "conflict", "skipped"} :
        run' = [run EXCEPT !.at = result] /\ (result = "conflict" => ReturnConflict)
  BY DEF ReturnError, ReturnConflict, ReturnSkipped, Return
<1>2. run.at = "check" /\ UNCHANGED <<config, receipt, guard, runs, changes, gap>>
  BY DEF ReturnError, ReturnConflict, ReturnSkipped
<1>3. /\ run'.at = result /\ run'.want = run.want
      /\ run'.policy = run.policy /\ run'.new = run.new
  BY <1>1 DEF IInv, TypeOK
<1>4. TypeOK'
  BY <1>1, <1>2 DEF IInv, TypeOK, Results
<1>5. Attributed' /\ Restores' /\ Prepared'
  BY <1>2, <1>3 DEF IInv, Attributed, Restores, Readable, Prepared, Writing
<1>6. Skipped' /\ ConflictIsTheUsersBarGap'
  <2>1. result = "conflict" => config # NoFile /\ (~gap => config.by = "user")
    BY <1>1, <1>2, ConflictIsNotRigs DEF ReturnConflict
  <2> QED BY <1>2, <1>3, <2>1 DEF Skipped, ConflictIsTheUsersBarGap, ConflictIsTheUsers
<1> QED BY <1>4, <1>5, <1>6 DEF IInv

(* A compatible value is taken over as it is.                               *)
LEMMA AdoptIInv ==
  ASSUME IInv, Adopt
  PROVE  IInv'
<1>1. /\ run.at = "check" /\ receipt = NoFile /\ receipt' = Torn
      /\ run' = [run EXCEPT !.at = "adopt", !.new = Adopted]
      /\ UNCHANGED <<config, guard, runs, changes, gap>>
  BY DEF Adopt
<1>2. /\ run'.at = "adopt" /\ run'.want = run.want /\ run'.policy = run.policy
      /\ run'.new = Adopted
  BY <1>1 DEF IInv, TypeOK
<1>3. Adopted \in Receipts
  BY DEF Adopted, Receipts, IInv, TypeOK
<1>4. config # NoFile /\ config.value = run.want
  BY FileTypes DEF IInv, Adopt, Conflict, Missing, Lookup
<1>5. ~gap => ~config.rigWrote
  BY <1>1, <1>4 DEF IInv, Attributed, Readable, Writing
<1>6. TypeOK'
  BY <1>1, <1>3 DEF IInv, TypeOK
<1>7. Attributed' /\ Restores'
  BY <1>1, <1>2 DEF IInv, Attributed, Restores, Readable, Writing
<1>8. Prepared' /\ Skipped' /\ ConflictIsTheUsersBarGap'
  <2>1. Adopted' = Adopted
    BY <1>2 DEF Adopted
  <2> QED BY <1>1, <1>2, <1>4, <1>5, <2>1
          DEF Prepared, Skipped, Writing, ConflictIsTheUsersBarGap, ConflictIsTheUsers
<1> QED BY <1>6, <1>7, <1>8 DEF IInv

LEMMA AdoptReceiptIInv ==
  ASSUME IInv, AdoptReceipt
  PROVE  IInv'
<1>1. /\ run.at = "adopt" /\ receipt' = run.new
      /\ config' = [config EXCEPT !.by = "rig"]
      /\ run' = [run EXCEPT !.at = "updated"]
      /\ UNCHANGED <<guard, runs, changes, gap>>
  BY DEF AdoptReceipt, Return
<1>2. /\ run'.at = "updated" /\ run'.want = run.want /\ run'.policy = run.policy
      /\ run'.new = run.new
  BY <1>1 DEF IInv, TypeOK
<1>3. /\ run.new = Adopted /\ config # NoFile /\ config.value = run.want
      /\ (~gap => ~config.rigWrote)
  BY <1>1 DEF IInv, Prepared
<1>4. Adopted \in Receipts
  BY DEF Adopted, Receipts, IInv, TypeOK
<1>5. config \in Contents
  BY <1>3 DEF IInv, TypeOK
<1>6. /\ config' \in Contents /\ config'.by = "rig" /\ config'.value = run.want
      /\ config'.rigWrote => config.rigWrote
  BY <1>1, <1>3, <1>5 DEF Contents
<1>7. TypeOK'
  BY <1>1, <1>3, <1>4, <1>6 DEF IInv, TypeOK, Results
<1>8. Attributed'
  <2>1. Readable'
    BY <1>1, <1>3, <1>4, MarksAssumption DEF Readable
  <2>2. receipt'.installed = config'.value
    BY <1>1, <1>3, <1>6 DEF Adopted
  <2>3. ~gap' => ~config'.rigWrote
    BY <1>1, <1>3, <1>6
  <2> QED BY <2>1, <2>2, <2>3 DEF Attributed
<1>9. Restores'
  BY <1>1, <1>2, <1>3 DEF Restores, Adopted, Writing
<1>10. Prepared' /\ Skipped' /\ ConflictIsTheUsersBarGap'
  BY <1>2 DEF Prepared, Skipped, Writing, ConflictIsTheUsersBarGap, ConflictIsTheUsers
<1> QED BY <1>7, <1>8, <1>9, <1>10 DEF IInv

(* What a new receipt restores is what the last one did, or a file that rig *)
(* has not written yet.                                                     *)
LEMMA RestorePointFacts ==
  ASSUME IInv, run.at = "check", NEW now \in {config, NoFile}
  PROVE  /\ RestorePoint(now) \in Contents \cup {NoFile}
         /\ ~gap /\ RestorePoint(now) # NoFile => ~RestorePoint(now).rigWrote
<1>1. now \in Contents \cup {NoFile} /\ (Readable => receipt \in Receipts)
  BY FileTypes DEF IInv, TypeOK
<1>2. RestorePoint(now) \in Contents \cup {NoFile}
  BY <1>1 DEF RestorePoint, Receipts
<1>3. ASSUME ~gap, RestorePoint(now) # NoFile PROVE ~RestorePoint(now).rigWrote
  <2>1. CASE Readable /\ receipt.backup # NoFile
    BY <1>3, <2>1 DEF IInv, Restores, RestorePoint
  <2>2. CASE ~(Readable /\ receipt.backup # NoFile)
    <3>1. RestorePoint(now) = now /\ now = config /\ (Readable => receipt.adopted)
      BY <1>3, <2>2 DEF RestorePoint
    <3> QED BY <1>3, <3>1 DEF IInv, Attributed, Writing
  <2> QED BY <2>1, <2>2
<1> QED BY <1>2, <1>3

LEMMA OpenConfigIInv ==
  ASSUME IInv, OpenConfig
  PROVE  IInv'
<1> DEFINE now == IF run.policy = "backup" THEN config ELSE NoFile
<1>1. /\ run.at = "check" /\ Missing
      /\ run' = [run EXCEPT !.at = "write config", !.new = Merged(now)]
      /\ config' = Emptied
      /\ UNCHANGED <<receipt, guard, runs, changes, gap>>
  BY DEF OpenConfig
<1>2. now \in {config, NoFile}
  OBVIOUS
<1> HIDE DEF now
<1>3. /\ run'.at = "write config" /\ run'.want = run.want /\ run'.policy = run.policy
      /\ run'.new = Merged(now)
  BY <1>1 DEF IInv, TypeOK
<1>4. /\ Merged(now).installed = run.want /\ ~Merged(now).adopted
      /\ Merged(now).backup = RestorePoint(now)
  BY DEF Merged
<1>5. Merged(now) \in Receipts
  <2>1. RestorePoint(now) \in Contents \cup {NoFile}
    BY <1>1, <1>2, RestorePointFacts
  <2>2. (IF Lookup = "missing" THEN "missing" ELSE receipt.previous) \in Modes \cup {"missing"}
    BY <1>1, FileTypes DEF IInv, Missing, RigInstalled, Receipts
  <2>3. run.want \in Modes
    BY DEF IInv, TypeOK
  <2> QED BY <2>1, <2>2, <2>3 DEF Merged, Receipts
<1>6. Emptied \in Contents
  BY DEF Emptied, Contents, Values
<1>7. TypeOK'
  BY <1>1, <1>5, <1>6 DEF IInv, TypeOK
<1>8. Attributed' /\ Skipped' /\ ConflictIsTheUsersBarGap'
  BY <1>3 DEF Attributed, Skipped, Writing, ConflictIsTheUsersBarGap, ConflictIsTheUsers
<1>9. Restores'
  <2>1. ~gap /\ Merged(now).backup # NoFile => ~Merged(now).backup.rigWrote
    BY <1>1, <1>2, <1>4, RestorePointFacts
  <2>2. ~gap /\ Readable /\ receipt.backup # NoFile => ~receipt.backup.rigWrote
    BY DEF IInv, Restores
  <2> QED BY <1>1, <1>3, <2>1, <2>2 DEF Restores, Readable
<1>10. Prepared'
  BY <1>1, <1>3, <1>4, <1>5, <1>6, MarksAssumption DEF Prepared
<1> QED BY <1>7, <1>8, <1>9, <1>10 DEF IInv

LEMMA WriteConfigIInv ==
  ASSUME IInv, WriteConfig
  PROVE  IInv'
<1>1. /\ run.at = "write config"
      /\ config' = [Emptied EXCEPT !.value = run.want]
      /\ run' = [run EXCEPT !.at = "open receipt"]
      /\ UNCHANGED <<receipt, guard, runs, changes, gap>>
  BY DEF WriteConfig, Return
<1>2. /\ run'.at = "open receipt" /\ run'.want = run.want /\ run'.policy = run.policy
      /\ run'.new = run.new
  BY <1>1 DEF IInv, TypeOK
<1>3. config' \in Contents /\ config'.value = run.want
  BY <1>1 DEF IInv, TypeOK, Emptied, Contents, Values
<1>4. TypeOK'
  BY <1>1, <1>3 DEF IInv, TypeOK
<1>5. Attributed' /\ Skipped' /\ ConflictIsTheUsersBarGap'
  BY <1>2 DEF Attributed, Skipped, Writing, ConflictIsTheUsersBarGap, ConflictIsTheUsers
<1>6. Restores' /\ Prepared'
  BY <1>1, <1>2, <1>3, MarksAssumption DEF IInv, Restores, Prepared, Readable, Writing
<1> QED BY <1>4, <1>5, <1>6 DEF IInv

LEMMA OpenReceiptIInv ==
  ASSUME IInv, OpenReceipt
  PROVE  IInv'
<1>1. /\ run.at = "open receipt" /\ receipt' = Torn
      /\ run' = [run EXCEPT !.at = "write receipt"]
      /\ UNCHANGED <<config, guard, runs, changes, gap>>
  BY DEF OpenReceipt, Return
<1>2. /\ run'.at = "write receipt" /\ run'.want = run.want /\ run'.policy = run.policy
      /\ run'.new = run.new
  BY <1>1 DEF IInv, TypeOK
<1>3. TypeOK'
  BY <1>1 DEF IInv, TypeOK
<1>4. Attributed' /\ Skipped' /\ ConflictIsTheUsersBarGap'
  BY <1>2 DEF Attributed, Skipped, Writing, ConflictIsTheUsersBarGap, ConflictIsTheUsers
<1>5. Restores' /\ Prepared'
  BY <1>1, <1>2 DEF IInv, Restores, Prepared, Readable, Writing
<1> QED BY <1>3, <1>4, <1>5 DEF IInv

LEMMA WriteReceiptIInv ==
  ASSUME IInv, WriteReceipt
  PROVE  IInv'
<1>1. /\ run.at = "write receipt" /\ receipt' = run.new
      /\ run' = [run EXCEPT !.at = "updated"]
      /\ UNCHANGED <<config, guard, runs, changes, gap>>
  BY DEF WriteReceipt, Return
<1>2. /\ run'.at = "updated" /\ run'.want = run.want /\ run'.policy = run.policy
      /\ run'.new = run.new
  BY <1>1 DEF IInv, TypeOK
<1>3. /\ run.new \in Receipts /\ run.new.installed = run.want /\ ~run.new.adopted
      /\ config # NoFile /\ config.value = run.want
  BY <1>1 DEF IInv, Prepared, Writing
<1>4. TypeOK'
  BY <1>1, <1>3 DEF IInv, TypeOK, Results
<1>5. Attributed'
  BY <1>1, <1>3, MarksAssumption DEF Attributed, Readable
<1>6. Restores'
  BY <1>1, <1>2, <1>3 DEF IInv, Restores, Writing
<1>7. Prepared' /\ Skipped' /\ ConflictIsTheUsersBarGap'
  BY <1>2 DEF Prepared, Skipped, Writing, ConflictIsTheUsersBarGap, ConflictIsTheUsers
<1> QED BY <1>4, <1>5, <1>6, <1>7 DEF IInv

-----------------------------------------------------------------------------
LEMMA NextIInv == IInv /\ [Next]_vars => IInv'
<1> SUFFICES ASSUME IInv, [Next]_vars PROVE IInv'
  OBVIOUS
<1>1. CASE \/ \E value \in Values, parses \in BOOLEAN : UserEdits(value, parses)
           \/ UserDeletes
  BY <1>1, UserIInv
<1>2. CASE \/ \E want \in Modes, policy \in Policies : Begin(want, policy)
           \/ End \/ Crash \/ GuardChanges
  BY <1>2, ApplyLifeIInv
<1>3. CASE ReturnError \/ ReturnConflict \/ ReturnSkipped
  BY <1>3, ReturnIInv
<1>4. CASE Adopt \/ AdoptReceipt
  BY <1>4, AdoptIInv, AdoptReceiptIInv
<1>5. CASE OpenConfig \/ WriteConfig \/ OpenReceipt \/ WriteReceipt
  BY <1>5, OpenConfigIInv, WriteConfigIInv, OpenReceiptIInv, WriteReceiptIInv
<1>6. CASE UNCHANGED vars
  <2>1. UNCHANGED <<config, receipt, guard, run, runs, changes, gap>>
    BY <1>6 DEF vars
  <2>2. TypeOK'
    BY <2>1 DEF IInv, TypeOK
  <2>3. Attributed' /\ Restores'
    BY <2>1 DEF IInv, Attributed, Restores, Readable
  <2>4. Prepared' /\ Skipped'
    BY <2>1 DEF IInv, Prepared, Adopted, Skipped
  <2>5. ConflictIsTheUsersBarGap'
    BY <2>1 DEF IInv, ConflictIsTheUsersBarGap, ConflictIsTheUsers
  <2> QED BY <2>2, <2>3, <2>4, <2>5 DEF IInv
<1> QED BY <1>1, <1>2, <1>3, <1>4, <1>5, <1>6 DEF Next, Handler

LEMMA Invariance == Spec => []IInv
<1> QED BY InitIInv, NextIInv, PTL DEF Spec

-----------------------------------------------------------------------------
(* Config, receipt and the apply in progress have their types.              *)
THEOREM TypeCorrect == Spec => []TypeOK
<1>1. IInv => TypeOK
  BY DEF IInv
<1> QED BY <1>1, Invariance, PTL

(* A value an apply leaves alone as the user's is the user's, as long as no *)
(* apply died between its two writes (_do_provision_harness_approval).      *)
THEOREM ConflictIsNeverRigs == Spec => []ConflictIsTheUsersBarGap
<1>1. IInv => ConflictIsTheUsersBarGap
  BY DEF IInv
<1> QED BY <1>1, Invariance, PTL

(* The restore point of a complete receipt is a file rig never wrote, as    *)
(* long as no apply died between its two writes (_restore_point).           *)
THEOREM RestorePointStaysOriginal == Spec => []RestorePointIsOriginal
<1>1. IInv => RestorePointIsOriginal
  BY DEF IInv, Restores, RestorePointIsOriginal
<1> QED BY <1>1, Invariance, PTL
=============================================================================
