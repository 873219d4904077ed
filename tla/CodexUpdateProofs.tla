-------------------------- MODULE CodexUpdateProofs --------------------------
(***************************************************************************)
(* Theorems about CodexUpdate, for every number of updaters, every way      *)
(* Codex is installed and everything update commands may do: from the       *)
(* moment one of them runs, a backup of a working Codex exists; a rollback  *)
(* never breaks a Codex that works; and what an undisturbed update answers  *)
(* is so.                                                                   *)
(***************************************************************************)
EXTENDS CodexUpdate, NaturalsInduction, WellFoundedInduction, FiniteSetTheorems, TLAPS

(* Every non-empty set of naturals has a least element. *)
LEMMA LeastElement ==
    ASSUME NEW S \in SUBSET Nat, S # {}
    PROVE  \E m \in S : \A k \in S : m <= k
<1>1. PICK m \in S : \A k \in S : <<k, m>> \notin OpToRel(<, Nat)
  BY NatLessThanWellFounded, WFMin
<1>2. ASSUME NEW k \in S PROVE m <= k
  <2>1. k \in Nat /\ m \in Nat /\ ~(k < m)
    BY <1>1 DEF OpToRel
  <2> QED BY <2>1
<1> QED BY <1>2

Good(content) == content \in {File(c) : c \in Works}
Kinds == {"v1", "v2"}

(* What EXCEPT relies on: every updater has all its fields.                 *)
Shape(u) == DOMAIN u = Updaters /\ \A p \in Updaters : DOMAIN u[p] = DOMAIN Fresh

(* A command was started by whoever waits for it, probes what it left or    *)
(* puts something back.                                                     *)
Commanded(u) ==
    \A p \in Updaters :
      /\ u[p].pc \in {"waiting", "restoring"} \/ u[p].stage \in {"candidate", "restored"} => p \in started
      /\ u[p].pc = "probing" => u[p].stage \in {"before", "candidate", "restored"}

(* The name of a backup is made of the version a probe of this run read.    *)
Named(u) ==
    \A p \in Updaters :
      /\ u[p].pc = "idle" => u[p].probes = 0
      /\ \/ u[p].pc = "resolving"
         \/ u[p].pc = "probing" /\ u[p].stage = "before" /\ u[p].probes # 0
         => u[p].version \in Kinds
      /\ u[p].pc \in {"copying", "reading", "launching"} => u[p].name \in DOMAIN backups

(* Until a command runs nothing changes on disk: what passed the probes is  *)
(* what is copied.                                                          *)
Unchanged(u) ==
    started = {} =>
      \A p \in Updaters :
        /\ u[p].pc \in {"resolving", "copying", "reading", "launching"} => Healthy(disk)
        /\ u[p].pc = "copying" => u[p].seen = Live(disk) /\ u[p].resolved = Resolved(disk)

(* As long as no backup takes the name of another one, an unfinished copy   *)
(* is the only one of its name, and a finished one is good.                 *)
OwnCopies(u) ==
    ~ clash =>
      /\ \A p \in Updaters : u[p].pc = "copying" => backups[u[p].name] = Torn
      /\ \A p, q \in Updaters :
           p # q /\ u[p].pc = "copying" /\ u[q].pc = "copying" => u[p].name # u[q].name
      /\ started = {} =>
           \A p \in Updaters : u[p].pc \in {"reading", "launching"} => Good(backups[u[p].name])

IInv ==
    /\ now \in 0 .. MaxSeconds
    /\ started \subseteq Updaters
    /\ clash \in BOOLEAN
    /\ DOMAIN backups = Kinds \X (0 .. MaxSeconds)
    /\ Shape(upd) /\ Commanded(upd) /\ Named(upd) /\ Unchanged(upd) /\ OwnCopies(upd)
    /\ GoodCopyKept

-----------------------------------------------------------------------------
(* What a backup holds while it is written, or before, is no Codex.         *)
LEMMA ContentFacts ==
    /\ ~ Good(Torn) /\ ~ Good(Missing) /\ Missing # Torn
    /\ \A d : Healthy(d) <=> Good(Live(d))
BY DEF Good, Torn, Missing, File, Works, Healthy

(* What two states of an updater have in common when only what history      *)
(* remembers of it differs.                                                 *)
Alike(v, u) ==
    /\ DOMAIN v = DOMAIN u
    /\ v.pc = u.pc /\ v.stage = u.stage /\ v.probes = u.probes /\ v.version = u.version
    /\ v.resolved = u.resolved /\ v.seen = u.seen /\ v.name = u.name

(* Disturbing changes what history remembers only.                          *)
LEMMA DisturbedIsHistory ==
    ASSUME NEW u, Shape(u), NEW hit
    PROVE  Shape(Disturbed(u, hit)) /\ \A p \in Updaters : Alike(Disturbed(u, hit)[p], u[p])
BY DEF Shape, Disturbed, Fresh, Alike

(* An updater that is over is at no stage.                                  *)
LEMMA OverFacts ==
    ASSUME NEW pc, NEW result
    PROVE  /\ DOMAIN Over(pc, result) = DOMAIN Fresh
           /\ Over(pc, result).pc = pc /\ Over(pc, result).stage = "none"
BY DEF Over, Fresh

(* History aside, the invariant says the same of both.                      *)
LEMMA AlikeFacts ==
    ASSUME NEW u, NEW v, Shape(u), Shape(v), \A p \in Updaters : Alike(v[p], u[p])
    PROVE  /\ Commanded(u) => Commanded(v)
           /\ Named(u) => Named(v)
           /\ Unchanged(u) => Unchanged(v)
           /\ OwnCopies(u) => OwnCopies(v)
BY DEF Alike, Commanded, Named, Unchanged, OwnCopies

(* The invariant holds at first ...                                         *)
LEMMA InitIInv == Init => IInv
<1> SUFFICES ASSUME Init PROVE IInv
  OBVIOUS
<1>1. now \in 0 .. MaxSeconds /\ DOMAIN backups = Kinds \X (0 .. MaxSeconds)
  BY SecondsAssumption DEF Init, Kinds
<1>2. DOMAIN upd = Updaters /\ \A p \in Updaters : upd[p] = Fresh
  BY DEF Init
<1>3. Fresh.pc = "idle" /\ Fresh.stage = "none" /\ Fresh.probes = 0
  BY DEF Fresh
<1>4. Shape(upd) /\ Commanded(upd) /\ Named(upd) /\ Unchanged(upd) /\ OwnCopies(upd)
  BY <1>2, <1>3 DEF Shape, Commanded, Named, Unchanged, OwnCopies
<1> QED BY <1>1, <1>4 DEF IInv, Init, GoodCopyKept

(* Steps of one updater that touch neither the disk nor a backup.           *)
LEMMA QuietStep ==
    ASSUME IInv, NEW p \in Updaters, NEW new,
           UNCHANGED <<disk, backups, now, clash>>, upd' = [upd EXCEPT ![p] = new],
           DOMAIN new = DOMAIN Fresh,
           started' \in SUBSET Updaters, started \subseteq started',
           new.pc \in {"waiting", "restoring"} \/ new.stage \in {"candidate", "restored"} => p \in started',
           new.pc = "probing" => new.stage \in {"before", "candidate", "restored"},
           \/ new.pc = "resolving"
           \/ new.pc = "probing" /\ new.stage = "before" /\ new.probes # 0
           => new.version \in Kinds,
           new.pc = "resolving" => Healthy(disk),
           new.pc \notin {"idle", "copying"},
           new.pc \in {"reading", "launching"} =>
             upd[p].pc \in {"reading", "launching"} /\ new.name = upd[p].name,
           started = {} /\ started' # {} => upd[p].pc = "launching"
    PROVE  IInv'
<1> USE DEF IInv
<1>1. /\ DOMAIN upd = Updaters
      /\ upd'[p] = new /\ \A q \in Updaters \ {p} : upd'[q] = upd[q]
  BY DEF Shape
<1>2. Shape(upd)'
  BY <1>1 DEF Shape
<1>3. Commanded(upd)'
  BY <1>1 DEF Commanded
<1>4. Named(upd)'
  BY <1>1 DEF Named
<1>5. Unchanged(upd)'
  <2>1. Healthy(disk)' = Healthy(disk) /\ Live(disk)' = Live(disk) /\ Resolved(disk)' = Resolved(disk)
    BY DEF Healthy, Live, Resolved, Walk
  <2> QED BY <1>1, <2>1 DEF Unchanged
<1>6. OwnCopies(upd)'
  BY <1>1 DEF OwnCopies, Good, File, Works
<1>7. GoodCopyKept'
  <2>1. CASE started # {}
    BY <2>1 DEF GoodCopyKept
  <2>2. CASE started = {} /\ started' # {} /\ ~ clash
    <3>1. upd[p].pc = "launching" /\ upd[p].name \in DOMAIN backups
      BY <2>2 DEF Named
    <3>2. Good(backups[upd[p].name])
      BY <2>2, <3>1 DEF OwnCopies
    <3> QED BY <3>1, <3>2 DEF GoodCopyKept, Good
  <2> QED BY <2>1, <2>2 DEF GoodCopyKept
<1> QED BY <1>2, <1>3, <1>4, <1>5, <1>6, <1>7

(* A command, or a rollback, changes the disk once one was started.         *)
LEMMA DiskStep ==
    ASSUME IInv, NEW u, Shape(u), UNCHANGED <<backups, now, clash, started>>, started # {},
           \A q \in Updaters : Alike(u[q], upd[q]), NEW hit, upd' = Disturbed(u, hit)
    PROVE  IInv'
<1> USE DEF IInv
<1>1. Shape(upd)' /\ \A q \in Updaters : Alike(upd'[q], u[q])
  BY DisturbedIsHistory
<1>2. \A q \in Updaters : Alike(upd'[q], upd[q])
  BY <1>1 DEF Alike
<1>3. Commanded(upd)' /\ Named(upd)'
  BY <1>2 DEF Alike, Commanded, Named
<1>4. Unchanged(upd)' /\ OwnCopies(upd)' /\ GoodCopyKept'
  BY <1>2 DEF Alike, Unchanged, OwnCopies, GoodCopyKept
<1> QED BY <1>1, <1>3, <1>4

(* A copy gets a name nobody uses, or it is a clash.                        *)
LEMMA CopyBeginsStep ==
    ASSUME IInv, NEW p \in Updaters, CopyBegins(p)
    PROVE  IInv'
<1> USE DEF IInv
<1> DEFINE name == BackupName(upd[p].version)
           u == [upd EXCEPT ![p].pc = "copying", ![p].name = name, ![p].version = "unknown",
                            ![p].resolved = Resolved(disk), ![p].seen = Live(disk)]
<1>1. /\ upd[p].pc = "resolving" /\ upd' = Disturbed(u, Sharing(p, name))
      /\ backups' = [backups EXCEPT ![name] = Torn]
      /\ clash' = (clash \/ backups[name] # Missing)
      /\ UNCHANGED <<disk, now, started>>
  BY DEF CopyBegins
<1>2. name \in DOMAIN backups
  <2>1. upd[p].version \in Kinds
    BY <1>1 DEF Named
  <2> QED BY <2>1 DEF BackupName
<1> HIDE DEF name
<1>3. /\ Shape(u) /\ u[p].pc = "copying" /\ u[p].name = name /\ u[p].stage = upd[p].stage
      /\ u[p].seen = Live(disk) /\ u[p].resolved = Resolved(disk)
      /\ \A q \in Updaters \ {p} : u[q] = upd[q]
  BY DEF Shape, Fresh
<1> HIDE DEF u
<1>4. Shape(upd)' /\ \A q \in Updaters : Alike(upd'[q], u[q])
  BY <1>1, <1>3, DisturbedIsHistory
<1>5. DOMAIN backups' = Kinds \X (0 .. MaxSeconds)
  BY <1>1
<1>6. clash' = FALSE => clash = FALSE /\ backups[name] = Missing
  BY <1>1
<1>7. Commanded(u) /\ \A q \in Updaters : upd'[q].pc = u[q].pc /\ upd'[q].stage = u[q].stage
  BY <1>3, <1>4 DEF Commanded, Alike
<1>8. Commanded(upd)'
  BY <1>1, <1>7 DEF Commanded
<1>9. Named(upd)'
  <2>1. Named(u)
    BY <1>2, <1>3 DEF Named
  <2> QED BY <1>1, <1>4, <1>5, <2>1 DEF Named, Alike
<1>10. Unchanged(upd)'
  <2>1. Unchanged(u)
    BY <1>1, <1>3 DEF Unchanged
  <2>2. Healthy(disk)' = Healthy(disk) /\ Live(disk)' = Live(disk) /\ Resolved(disk)' = Resolved(disk)
    BY <1>1 DEF Healthy, Live, Resolved, Walk
  <2> QED BY <1>1, <1>4, <2>1, <2>2 DEF Unchanged, Alike
<1>11. ASSUME ~ clash'
       PROVE  /\ \A q \in Updaters : u[q].pc = "copying" => backups'[u[q].name] = Torn
              /\ \A q, r \in Updaters :
                   q # r /\ u[q].pc = "copying" /\ u[r].pc = "copying" => u[q].name # u[r].name
              /\ started = {} =>
                   \A q \in Updaters :
                     u[q].pc \in {"reading", "launching"} => Good(backups'[u[q].name])
  <2>1. ~ clash /\ backups[name] = Missing
    BY <1>1, <1>11
  <2>2. ASSUME NEW q \in Updaters, q # p, upd[q].pc = "copying"
        PROVE  upd[q].name # name /\ backups'[upd[q].name] = Torn
    <3>1. upd[q].name \in DOMAIN backups /\ backups[upd[q].name] = Torn
      BY <2>1, <2>2 DEF OwnCopies, Named
    <3> QED BY <1>1, <2>1, <3>1, ContentFacts
  <2>3. ASSUME NEW q \in Updaters, started = {}, upd[q].pc \in {"reading", "launching"}
        PROVE  Good(backups'[upd[q].name])
    <3>1. upd[q].name \in DOMAIN backups /\ Good(backups[upd[q].name])
      BY <2>1, <2>3 DEF OwnCopies, Named
    <3>2. upd[q].name # name
      BY <2>1, <3>1, ContentFacts
    <3>3. backups'[upd[q].name] = backups[upd[q].name]
      BY <1>1, <3>1, <3>2
    <3> QED BY <3>1, <3>3
  <2>4. backups'[name] = Torn
    BY <1>1, <1>2
  <2>5. ASSUME NEW q \in Updaters, NEW r \in Updaters, q # r, u[q].pc = "copying", u[r].pc = "copying"
        PROVE  u[q].name # u[r].name
    BY <1>3, <2>1, <2>2, <2>5 DEF OwnCopies
  <2>6. \A q \in Updaters : u[q].pc = "copying" => backups'[u[q].name] = Torn
    BY <1>3, <2>2, <2>4
  <2>7. started = {} => \A q \in Updaters :
          u[q].pc \in {"reading", "launching"} => Good(backups'[u[q].name])
    BY <1>3, <2>3
  <2> QED BY <2>5, <2>6, <2>7
<1>12. OwnCopies(upd)'
  <2>1. \A q \in Updaters : upd'[q].pc = u[q].pc /\ upd'[q].name = u[q].name
    BY <1>4 DEF Alike
  <2> QED BY <1>1, <1>11, <2>1 DEF OwnCopies, Good
<1>13. GoodCopyKept'
  <2> SUFFICES ASSUME started # {}, ~ clash'
               PROVE  \E b \in DOMAIN backups' : Good(backups'[b])
    BY <1>1 DEF GoodCopyKept, Good
  <2>1. ~ clash /\ backups[name] = Missing
    BY <1>1
  <2>2. PICK b \in DOMAIN backups : Good(backups[b])
    BY <2>1 DEF GoodCopyKept, Good
  <2>3. b # name
    BY <2>1, <2>2, ContentFacts
  <2>4. backups'[b] = backups[b] /\ b \in DOMAIN backups'
    BY <1>1, <2>2, <2>3
  <2> QED BY <2>2, <2>4
<1>14. clash' \in BOOLEAN
  BY <1>1
<1> QED BY <1>1, <1>4, <1>5, <1>8, <1>9, <1>10, <1>12, <1>13, <1>14

(* A copy ends good as long as no command ran, and takes no other's place.  *)
LEMMA CopyEndsStep ==
    ASSUME IInv, NEW p \in Updaters, CopyEnds(p)
    PROVE  IInv'
<1> USE DEF IInv
<1> DEFINE name == upd[p].name
           source == disk[upd[p].resolved]
           u == [upd EXCEPT ![p].pc = "reading", ![p].seen = Missing]
<1>1. PICK copy \in {upd[p].seen} \union {f \in {source, Torn} : source # upd[p].seen /\ f[1] = "file"} :
        backups' = [backups EXCEPT ![name] = copy]
  BY DEF CopyEnds
<1>2. /\ upd[p].pc = "copying" /\ upd' = Disturbed(u, Sharing(p, name))
      /\ UNCHANGED <<disk, now, started, clash>>
  BY DEF CopyEnds
<1>3. name \in DOMAIN backups
  BY <1>2 DEF Named
<1>4. started = {} => Good(copy)
  <2>1. started = {} => upd[p].seen = Live(disk) /\ source = Live(disk) /\ Good(Live(disk))
    BY <1>2, ContentFacts DEF Unchanged, Live
  <2> QED BY <1>1, <2>1
<1>5. ~ clash => backups[name] = Torn
  BY <1>2 DEF OwnCopies
<1>6. /\ DOMAIN backups' = DOMAIN backups /\ backups'[name] = copy
      /\ \A b \in DOMAIN backups \ {name} : backups'[b] = backups[b]
  BY <1>1, <1>3
<1>7. /\ Shape(u) /\ u[p].pc = "reading" /\ u[p].name = name /\ u[p].stage = upd[p].stage
      /\ \A q \in Updaters \ {p} : u[q] = upd[q]
  BY DEF Shape, Fresh
<1> HIDE DEF u, source
<1>8. Shape(upd)' /\ \A q \in Updaters : Alike(upd'[q], u[q])
  BY <1>2, <1>7, DisturbedIsHistory
<1>9. Commanded(upd)'
  <2>1. Commanded(u)
    BY <1>7 DEF Commanded
  <2> QED BY <1>2, <1>8, <2>1 DEF Commanded, Alike
<1>10. Named(upd)'
  <2>1. Named(u)
    BY <1>3, <1>7 DEF Named
  <2> QED BY <1>6, <1>8, <2>1 DEF Named, Alike
<1>11. Unchanged(upd)'
  <2>1. Unchanged(u)
    BY <1>2, <1>7 DEF Unchanged
  <2>2. Healthy(disk)' = Healthy(disk) /\ Live(disk)' = Live(disk) /\ Resolved(disk)' = Resolved(disk)
    BY <1>2 DEF Healthy, Live, Resolved, Walk
  <2> QED BY <1>2, <1>8, <2>1, <2>2 DEF Unchanged, Alike
<1>12. ASSUME ~ clash
       PROVE  /\ \A q \in Updaters : u[q].pc = "copying" => backups'[u[q].name] = Torn
              /\ \A q, r \in Updaters :
                   q # r /\ u[q].pc = "copying" /\ u[r].pc = "copying" => u[q].name # u[r].name
              /\ started = {} =>
                   \A q \in Updaters :
                     u[q].pc \in {"reading", "launching"} => Good(backups'[u[q].name])
  <2>1. ASSUME NEW q \in Updaters, u[q].pc = "copying"
        PROVE  backups'[u[q].name] = Torn
    <3>1. q # p /\ upd[q].pc = "copying" /\ u[q].name = upd[q].name
      BY <1>7, <2>1
    <3>2. upd[q].name # name /\ upd[q].name \in DOMAIN backups /\ backups[upd[q].name] = Torn
      BY <1>2, <1>12, <3>1 DEF OwnCopies, Named
    <3> QED BY <1>6, <3>1, <3>2
  <2>2. ASSUME NEW q \in Updaters, NEW r \in Updaters, q # r, u[q].pc = "copying", u[r].pc = "copying"
        PROVE  u[q].name # u[r].name
    BY <1>7, <1>12, <2>2 DEF OwnCopies
  <2>3. ASSUME started = {}, NEW q \in Updaters, u[q].pc \in {"reading", "launching"}
        PROVE  Good(backups'[u[q].name])
    <3>1. CASE q = p
      BY <1>4, <1>6, <1>7, <2>3, <3>1
    <3>2. CASE q # p
      <4>1. upd[q].name \in DOMAIN backups /\ Good(backups[upd[q].name]) /\ u[q] = upd[q]
        BY <1>7, <1>12, <2>3, <3>2 DEF OwnCopies, Named
      <4>2. upd[q].name # name
        BY <1>5, <1>12, <4>1, ContentFacts
      <4> QED BY <1>6, <4>1, <4>2
    <3> QED BY <3>1, <3>2
  <2> QED BY <2>1, <2>2, <2>3
<1>13. OwnCopies(upd)'
  <2>1. \A q \in Updaters : upd'[q].pc = u[q].pc /\ upd'[q].name = u[q].name
    BY <1>8 DEF Alike
  <2> QED BY <1>2, <1>12, <2>1 DEF OwnCopies, Good
<1>14. GoodCopyKept'
  <2> SUFFICES ASSUME started # {}, ~ clash
               PROVE  \E b \in DOMAIN backups' : Good(backups'[b])
    BY <1>2 DEF GoodCopyKept, Good
  <2>1. PICK b \in DOMAIN backups : Good(backups[b])
    BY DEF GoodCopyKept, Good
  <2>2. b # name
    BY <1>5, <2>1, ContentFacts
  <2> QED BY <1>6, <2>1, <2>2
<1> QED BY <1>2, <1>6, <1>8, <1>9, <1>10, <1>11, <1>13, <1>14

(* ... and no step breaks it.                                               *)
LEMMA StepIInv == IInv /\ [Next]_vars => IInv'
<1> SUFFICES ASSUME IInv, [Next]_vars PROVE IInv'
  OBVIOUS
<1>0. /\ DOMAIN upd = Updaters /\ \A p \in Updaters : DOMAIN upd[p] = DOMAIN Fresh
      /\ started \in SUBSET Updaters
  BY DEF IInv, Shape
<1>1. CASE Tick
  <2>1. /\ UNCHANGED <<disk, backups, upd, started, clash>>
        /\ now' \in 0 .. MaxSeconds
    BY <1>1, SecondsAssumption DEF Tick, IInv
  <2> QED
    BY <2>1 DEF IInv, Shape, Commanded, Named, Unchanged, OwnCopies, GoodCopyKept
<1>2. ASSUME NEW p \in Updaters, Begin(p) PROVE IInv'
  <2> DEFINE new == [upd[p] EXCEPT !.pc = "probing", !.stage = "before", !.was = disk]
  <2>1. /\ upd' = [upd EXCEPT ![p] = new] /\ UNCHANGED <<disk, backups, now, started, clash>>
        /\ upd[p].pc = "idle"
    BY <1>0, <1>2 DEF Begin
  <2>2. /\ DOMAIN new = DOMAIN Fresh /\ new.pc = "probing" /\ new.stage = "before"
        /\ new.probes = upd[p].probes
    BY <1>0 DEF Fresh
  <2>3. new.probes = 0
    BY <2>1, <2>2 DEF IInv, Named
  <2> HIDE DEF new
  <2> QED BY <1>0, <2>1, <2>2, <2>3, QuietStep
<1>3. ASSUME NEW p \in Updaters, ProbePasses(p) PROVE IInv'
  <2> DEFINE first == upd[p].stage = "before" /\ upd[p].probes = 0
             u == [upd[p] EXCEPT !.version = IF first THEN Version(Live(disk)[2]) ELSE @]
             new == IF u.probes + 1 = ProbeSteps THEN After(u) ELSE [u EXCEPT !.probes = @ + 1]
  <2>1. /\ upd' = [upd EXCEPT ![p] = new] /\ UNCHANGED <<disk, backups, now, started, clash>>
        /\ upd[p].pc = "probing" /\ Healthy(disk)
    BY <1>3 DEF ProbePasses
  <2>2. /\ DOMAIN u = DOMAIN Fresh /\ u.pc = "probing" /\ u.stage = upd[p].stage
        /\ u.probes = upd[p].probes
        /\ u.version = IF first THEN Version(Live(disk)[2]) ELSE upd[p].version
    BY <1>0, <2>1 DEF Fresh
  <2>3. /\ u.stage \in {"before", "candidate", "restored"}
        /\ u.stage \in {"candidate", "restored"} => p \in started
    BY <2>1, <2>2 DEF IInv, Commanded
  <2>4. u.stage = "before" => u.version \in Kinds
    BY <2>1, <2>2 DEF IInv, Named, Version, Kinds
  <2> HIDE DEF u
  <2>5. CASE u.probes + 1 = ProbeSteps /\ u.stage = "before"
    <3>1. /\ DOMAIN After(u) = DOMAIN Fresh /\ After(u).pc = "resolving" /\ After(u).stage = "before"
          /\ After(u).version = u.version
      BY <2>2, <2>5 DEF After, Fresh
    <3>2. new = After(u)
      BY <2>5
    <3> HIDE DEF new
    <3> QED BY <1>0, <2>1, <2>4, <2>5, <3>1, <3>2, QuietStep
  <2>6. CASE u.probes + 1 = ProbeSteps /\ u.stage # "before"
    <3>1. DOMAIN After(u) = DOMAIN Fresh /\ After(u).pc = "done" /\ After(u).stage = "none"
      BY <2>3, <2>6, OverFacts DEF After
    <3>2. new = After(u)
      BY <2>6
    <3> HIDE DEF new
    <3> QED BY <1>0, <2>1, <3>1, <3>2, QuietStep
  <2>7. CASE u.probes + 1 # ProbeSteps
    <3>1. /\ DOMAIN new = DOMAIN Fresh /\ new.pc = "probing" /\ new.stage = u.stage
          /\ new.version = u.version
      BY <2>2, <2>7 DEF Fresh
    <3> HIDE DEF new
    <3> QED BY <1>0, <2>1, <2>3, <2>4, <3>1, QuietStep
  <2> QED BY <2>5, <2>6, <2>7
<1>4. ASSUME NEW p \in Updaters, NEW pc \in {"done", "dead"}, NEW result,
             upd' = [upd EXCEPT ![p] = Over(pc, result)],
             UNCHANGED <<disk, backups, now, started, clash>>
      PROVE  IInv'
  <2> DEFINE new == Over(pc, result)
  <2>1. DOMAIN new = DOMAIN Fresh /\ new.pc = pc /\ new.stage = "none" /\ upd' = [upd EXCEPT ![p] = new]
    BY <1>4, OverFacts
  <2> HIDE DEF new
  <2> QED BY <1>0, <1>4, <2>1, QuietStep
<1>5. ASSUME NEW p \in Updaters, p \in started, upd' = [upd EXCEPT ![p] = Restoring(upd[p])],
             UNCHANGED <<disk, backups, now, started, clash>>
      PROVE  IInv'
  <2> DEFINE new == Restoring(upd[p])
  <2>1. DOMAIN new = DOMAIN Fresh /\ new.pc = "restoring"
    BY <1>0 DEF Restoring, Fresh
  <2> HIDE DEF new
  <2> QED BY <1>0, <1>5, <2>1, QuietStep DEF new
<1>6. ASSUME NEW p \in Updaters, ProbeFails(p) PROVE IInv'
  <2>1. /\ upd[p].pc = "probing" /\ UNCHANGED <<disk, backups, now, started, clash>>
        /\ upd' = [upd EXCEPT ![p] =
             CASE upd[p].stage = "before" -> Over("done", "refused")
               [] upd[p].stage = "candidate" -> Restoring(upd[p])
               [] upd[p].stage = "restored" -> Over("done", "error")]
    BY <1>6 DEF ProbeFails
  <2>2. CASE upd[p].stage = "before"
    <3>1. upd' = [upd EXCEPT ![p] = Over("done", "refused")]
      BY <2>1, <2>2
    <3> QED BY <1>4, <2>1, <3>1
  <2>3. CASE upd[p].stage = "candidate"
    <3>1. upd' = [upd EXCEPT ![p] = Restoring(upd[p])] /\ p \in started
      BY <2>1, <2>3 DEF IInv, Commanded
    <3> QED BY <1>5, <2>1, <3>1
  <2>4. CASE upd[p].stage = "restored"
    <3>1. upd' = [upd EXCEPT ![p] = Over("done", "error")]
      BY <2>1, <2>4
    <3> QED BY <1>4, <2>1, <3>1
  <2> QED BY <2>1, <2>2, <2>3, <2>4 DEF IInv, Commanded
<1>7. ASSUME NEW p \in Updaters, ReadChain(p) PROVE IInv'
  <2> DEFINE new == [upd[p] EXCEPT !.pc = "launching", !.chain = Chain(disk)]
  <2>1. /\ upd' = [upd EXCEPT ![p] = new] /\ UNCHANGED <<disk, backups, now, started, clash>>
        /\ upd[p].pc = "reading"
    BY <1>0, <1>7 DEF ReadChain
  <2>2. /\ DOMAIN new = DOMAIN Fresh /\ new.pc = "launching" /\ new.stage = upd[p].stage
        /\ new.name = upd[p].name
    BY <1>0 DEF Fresh
  <2>3. new.stage \in {"candidate", "restored"} => p \in started
    BY <2>2 DEF IInv, Commanded
  <2> HIDE DEF new
  <2> QED BY <1>0, <2>1, <2>2, <2>3, QuietStep
<1>8. ASSUME NEW p \in Updaters, Launch(p) PROVE IInv'
  <2> DEFINE new == [upd[p] EXCEPT !.pc = "waiting"]
  <2>1. /\ upd' = [upd EXCEPT ![p] = new] /\ UNCHANGED <<disk, backups, now, clash>>
        /\ started' = started \union {p} /\ upd[p].pc = "launching"
    BY <1>0, <1>8 DEF Launch
  <2>2. DOMAIN new = DOMAIN Fresh /\ new.pc = "waiting"
    BY <1>0 DEF Fresh
  <2> HIDE DEF new
  <2> QED BY <1>0, <2>1, <2>2, QuietStep
<1>9. ASSUME NEW p \in Updaters, NEW change \in Changes, CommandChanges(p, change) PROVE IInv'
  <2>1. Shape(upd) /\ \A q \in Updaters : Alike(upd[q], upd[q])
    BY DEF IInv, Alike
  <2> QED BY <1>9, <2>1, DiskStep DEF CommandChanges
<1>10. ASSUME NEW p \in Updaters, NEW code \in {0, 1}, CommandExits(p, code) PROVE IInv'
  <2>1. /\ upd[p].pc = "waiting" /\ UNCHANGED <<disk, backups, now, started, clash>>
        /\ p \in started
    BY <1>10 DEF CommandExits, IInv, Commanded
  <2>2. CASE code # 0
    BY <1>5, <1>10, <2>1, <2>2 DEF CommandExits
  <2>3. CASE code = 0
    <3> DEFINE new == [upd[p] EXCEPT !.pc = "probing", !.stage = "candidate"]
    <3>1. upd' = [upd EXCEPT ![p] = new]
      BY <1>10, <2>3 DEF CommandExits
    <3>2. DOMAIN new = DOMAIN Fresh /\ new.pc = "probing" /\ new.stage = "candidate"
      BY <1>0 DEF Fresh
    <3> HIDE DEF new
    <3> QED BY <1>0, <2>1, <3>1, <3>2, QuietStep
  <2> QED BY <2>2, <2>3
<1>11. ASSUME NEW p \in Updaters, TimesOut(p) PROVE IInv'
  BY <1>5, <1>11 DEF TimesOut, IInv, Commanded
<1>12. ASSUME NEW p \in Updaters, Replace(p) PROVE IInv'
  <2> DEFINE u == [upd EXCEPT ![p].todo = Tail(@)]
  <2>1. /\ upd' = Disturbed(u, Updaters \ {p}) /\ UNCHANGED <<backups, now, clash, started>>
        /\ started # {}
    BY <1>12 DEF Replace, Puts, IInv, Commanded
  <2>2. Shape(u) /\ \A q \in Updaters : Alike(u[q], upd[q])
    BY <1>0 DEF Shape, Alike, Fresh
  <2> HIDE DEF u
  <2> QED BY <2>1, <2>2, DiskStep
<1>13. ASSUME NEW p \in Updaters, Restored(p) PROVE IInv'
  <2> DEFINE new == [upd[p] EXCEPT !.pc = "probing", !.stage = "restored"]
  <2>1. /\ upd' = [upd EXCEPT ![p] = new] /\ UNCHANGED <<disk, backups, now, started, clash>>
        /\ p \in started
    BY <1>0, <1>13 DEF Restored, IInv, Commanded
  <2>2. DOMAIN new = DOMAIN Fresh /\ new.pc = "probing" /\ new.stage = "restored"
    BY <1>0 DEF Fresh
  <2> HIDE DEF new
  <2> QED BY <1>0, <2>1, <2>2, QuietStep
<1>14. ASSUME NEW p \in Updaters, SnapshotFails(p) \/ RestoreFails(p) \/ Die(p) PROVE IInv'
  BY <1>4, <1>14 DEF SnapshotFails, RestoreFails, Die
<1>15. CASE UNCHANGED vars
  <2>1. /\ disk' = disk /\ backups' = backups /\ now' = now /\ upd' = upd
        /\ started' = started /\ clash' = clash
    BY <1>15 DEF vars
  <2> QED
    BY <2>1 DEF IInv, Shape, Commanded, Named, Unchanged, OwnCopies, GoodCopyKept
<1> QED
  BY <1>1, <1>2, <1>3, <1>6, <1>7, <1>8, <1>9, <1>10, <1>11, <1>12, <1>13, <1>14, <1>15,
     CopyBeginsStep, CopyEndsStep DEF Next

(* From the moment an update command runs there is a backup of a Codex that *)
(* works, whoever dies, fails or hangs and however updates overlap, unless  *)
(* two backups of one version took their names in the same second.          *)
THEOREM GoodCopyIsKept == Spec => []GoodCopyKept
<1>1. IInv => GoodCopyKept
  BY DEF IInv
<1> QED BY <1>1, InitIInv, StepIInv, PTL DEF Spec

-----------------------------------------------------------------------------
(* Where the links lead.  Trail is every name a lookup of the path passes.  *)
N == Cardinality(Names)
Follow(d, n) == IF d[n][1] = "link" THEN d[n][2] ELSE n
Unrolls(d, n, w) ==
    w = [k \in 0 .. n |-> IF k = 0 THEN "path"
                           ELSE IF d[w[k - 1]][1] = "link" THEN d[w[k - 1]][2] ELSE w[k - 1]]
Trail(d) == {Walk(d)[k] : k \in 0 .. N}
ClosedIn(d, C) == \A n \in C : d[n][1] = "link" => d[n][2] \in C

(* The walk has as many steps as there are names.                           *)
LEMMA NamesCount == N \in Nat
BY NamesAssumption, FS_CardinalityType DEF N

(* The function that follows links by recursion is there ...                *)
LEMMA Unrolled ==
    ASSUME NEW d, NEW n \in Nat
    PROVE  \E w : Unrolls(d, n, w)
<1> DEFINE Stuck == {k \in Nat : ~ \E w : Unrolls(d, k, w)}
<1>1. SUFFICES ASSUME Stuck # {} PROVE FALSE
  OBVIOUS
<1>2. PICK m \in Stuck : \A k \in Stuck : m <= k
  BY <1>1, LeastElement
<1>3. m # 0
  <2>1. Unrolls(d, 0, [k \in 0 .. 0 |-> "path"])
    BY DEF Unrolls
  <2> QED BY <1>2, <2>1
<1>4. PICK w : Unrolls(d, m - 1, w)
  BY <1>2, <1>3
<1> DEFINE v == [k \in 0 .. m |-> IF k = m THEN Follow(d, w[m - 1]) ELSE w[k]]
<1>5. \A k \in 0 .. m - 1 : v[k] = w[k]
  BY <1>2
<1>6. \A k \in 0 .. m :
        v[k] = IF k = 0 THEN "path"
               ELSE IF d[v[k - 1]][1] = "link" THEN d[v[k - 1]][2] ELSE v[k - 1]
  <2>1. ASSUME NEW k \in 0 .. m
        PROVE  v[k] = IF k = 0 THEN "path"
                      ELSE IF d[v[k - 1]][1] = "link" THEN d[v[k - 1]][2] ELSE v[k - 1]
    <3>1. CASE k = m
      <4>1. m - 1 \in 0 .. m - 1 /\ v[m] = Follow(d, w[m - 1])
        BY <1>2, <1>3
      <4>2. v[m - 1] = w[m - 1]
        BY <1>5, <4>1
      <4> HIDE DEF v
      <4> QED BY <1>3, <3>1, <4>1, <4>2 DEF Follow
    <3>2. CASE k # m
      <4>1. k \in 0 .. m - 1 /\ m - 1 \in Nat
        BY <1>2, <1>3, <2>1, <3>2
      <4>2. w[k] = IF k = 0 THEN "path" ELSE IF d[w[k - 1]][1] = "link" THEN d[w[k - 1]][2] ELSE w[k - 1]
        BY <1>4, <4>1 DEF Unrolls
      <4>3. k = 0 \/ k - 1 \in 0 .. m - 1
        BY <4>1
      <4> QED BY <1>5, <4>1, <4>2, <4>3
    <3> QED BY <3>1, <3>2
  <2> QED BY <2>1
<1>7. Unrolls(d, m, v)
  <2> DEFINE g == [k \in 0 .. m |-> IF k = 0 THEN "path"
                                    ELSE IF d[v[k - 1]][1] = "link" THEN d[v[k - 1]][2] ELSE v[k - 1]]
  <2>1. v = g
    BY <1>6
  <2> QED BY <2>1 DEF Unrolls
<1> QED BY <1>2, <1>7

(* ... so that Walk, which CHOOSEs it, takes one link at a step.            *)
LEMMA WalkSteps ==
    ASSUME NEW d
    PROVE  /\ Walk(d)[0] = "path"
           /\ \A k \in 1 .. N : Walk(d)[k] = Follow(d, Walk(d)[k - 1])
<1>1. PICK w : Unrolls(d, N, w)
  BY Unrolled, NamesCount
<1>2. Unrolls(d, N, Walk(d))
  BY <1>1, Zenon DEF Unrolls, Walk, N
<1> DEFINE v == Walk(d)
<1> HIDE DEF v
<1>3. v = [k \in 0 .. N |-> IF k = 0 THEN "path"
                            ELSE IF d[v[k - 1]][1] = "link" THEN d[v[k - 1]][2] ELSE v[k - 1]]
  BY <1>2, Zenon DEF Unrolls, v
<1>4. v[0] = "path" /\ \A k \in 1 .. N : v[k] = Follow(d, v[k - 1])
  <2>1. 0 \in 0 .. N /\ \A k \in 1 .. N : k \in 0 .. N /\ k # 0
    BY NamesCount
  <2>2. \A k \in 0 .. N :
          v[k] = IF k = 0 THEN "path" ELSE IF d[v[k - 1]][1] = "link" THEN d[v[k - 1]][2] ELSE v[k - 1]
    BY <1>3, Zenon
  <2> QED BY <2>1, <2>2 DEF Follow
<1> QED BY <1>4 DEF v

(* It starts at the path and stays among the names.                         *)
LEMMA TrailFacts ==
    ASSUME NEW d, IsDisk(d)
    PROVE  /\ "path" \in Trail(d) /\ Trail(d) \subseteq Names /\ Resolved(d) \in Trail(d)
           /\ \A k \in 0 .. N : Walk(d)[k] \in Names
<1> DEFINE w == Walk(d)
           Out == {k \in 0 .. N : w[k] \notin Names}
<1>1. w[0] = "path" /\ \A k \in 1 .. N : w[k] = Follow(d, w[k - 1])
  BY WalkSteps
<1> HIDE DEF w
<1>2. SUFFICES ASSUME Out # {} PROVE FALSE
  BY <1>1, NamesCount DEF Trail, Resolved, w, N
<1>3. PICK m \in Out : \A k \in Out : m <= k
  <2>1. Out \in SUBSET Nat
    BY NamesCount
  <2> HIDE DEF Out
  <2> QED BY <1>2, <2>1, LeastElement
<1>4. m # 0
  BY <1>1, <1>3, NamesAssumption
<1>5. m - 1 \in 0 .. N /\ w[m - 1] \in Names
  BY <1>3, <1>4, NamesCount
<1>6. w[m] = Follow(d, w[m - 1]) /\ w[m] \notin Names
  BY <1>1, <1>3, <1>4, NamesCount
<1>7. IsNode(d[w[m - 1]])
  BY <1>5 DEF IsDisk
<1>8. d[w[m - 1]][1] = "link" => d[w[m - 1]][2] \in Names
  <2> SUFFICES ASSUME d[w[m - 1]][1] = "link" PROVE d[w[m - 1]][2] \in Names
    OBVIOUS
  <2>1. PICK n \in Names : d[w[m - 1]] = Link(n)
    BY <1>7 DEF IsNode
  <2>2. Link(n)[2] = n
    BY DEF Link
  <2> QED BY <2>1, <2>2
<1> QED BY <1>5, <1>6, <1>8 DEF Follow

(* A closed set that the walk enters holds its end.                         *)
LEMMA EntersClosed ==
    ASSUME NEW d, NEW C, ClosedIn(d, C), NEW k \in 0 .. N, Walk(d)[k] \in C
    PROVE  \A i \in k .. N : Walk(d)[i] \in C
<1> DEFINE w == Walk(d)
           Out == {i \in k .. N : w[i] \notin C}
<1>1. \A i \in 1 .. N : w[i] = Follow(d, w[i - 1])
  BY WalkSteps
<1>2. w[k] \in C
  OBVIOUS
<1> HIDE DEF w
<1>3. SUFFICES ASSUME Out # {} PROVE FALSE
  BY DEF w
<1>4. PICK m \in Out : \A i \in Out : m <= i
  <2>1. Out \in SUBSET Nat
    BY NamesCount
  <2> HIDE DEF Out
  <2> QED BY <1>3, <2>1, LeastElement
<1>5. m # k /\ m \in k .. N
  BY <1>2, <1>4
<1>6. m - 1 \in k .. N /\ m \in 1 .. N
  BY <1>5, NamesCount
<1>7. w[m - 1] \in C
  BY <1>4, <1>6, NamesCount
<1>8. w[m] = Follow(d, w[m - 1])
  BY <1>1, <1>6
<1>9. Follow(d, w[m - 1]) \in C
  BY <1>7 DEF Follow, ClosedIn
<1> QED BY <1>4, <1>8, <1>9

(* The walk stays at the first name that is no link.                        *)
LEMMA Stays ==
    ASSUME NEW d, NEW k \in 0 .. N, d[Walk(d)[k]][1] # "link"
    PROVE  \A i \in k .. N : Walk(d)[i] = Walk(d)[k]
<1>1. ClosedIn(d, {Walk(d)[k]})
  BY DEF ClosedIn
<1> QED BY <1>1, EntersClosed

(* What is on the trail and no link is its end.                             *)
LEMMA EndOfTrail ==
    ASSUME NEW d, NEW f \in Trail(d), d[f][1] # "link"
    PROVE  Resolved(d) = f
<1>1. PICK k \in 0 .. N : f = Walk(d)[k]
  BY DEF Trail
<1> QED BY <1>1, Stays, NamesCount DEF Resolved, N

(* A closed set that has one name of the trail has its end.                 *)
LEMMA Reaches ==
    ASSUME NEW d, NEW C, ClosedIn(d, C), NEW n \in Trail(d), n \in C
    PROVE  Resolved(d) \in C
<1>1. PICK k \in 0 .. N : n = Walk(d)[k]
  BY DEF Trail
<1> QED BY <1>1, EntersClosed, NamesCount DEF Resolved, N

(* There are more steps than names: a walk that does not end is a circle.   *)
LEMMA TrailIsClosed ==
    ASSUME NEW d, IsDisk(d)
    PROVE  ClosedIn(d, Trail(d))
<1> DEFINE w == Walk(d)
<1>1. w[0] = "path" /\ \A k \in 1 .. N : w[k] = Follow(d, w[k - 1])
  BY WalkSteps
<1>2. \A k \in 0 .. N : w[k] \in Names
  BY TrailFacts
<1>3. \A C : "path" \in C /\ ClosedIn(d, C) => \A k \in 0 .. N : w[k] \in C
  BY <1>1, EntersClosed, NamesCount
<1> HIDE DEF w
<1>4. PICK i \in 0 .. N, j \in 0 .. N : i < j /\ w[i] = w[j]
  <2> DEFINE f == [k \in 0 .. N |-> w[k]]
  <2>1. IsFiniteSet(0 .. N) /\ Cardinality(0 .. N) = N + 1
    BY NamesCount, FS_Interval
  <2>2. f \in [0 .. N -> Names] /\ IsFiniteSet(Names) /\ Cardinality(Names) < Cardinality(0 .. N)
    BY <1>2, <2>1, NamesCount, NamesAssumption DEF N
  <2>3. \E x, y \in 0 .. N : x # y /\ f[x] = f[y]
    <3> HIDE DEF f
    <3> QED BY <2>1, <2>2, FS_PigeonHole
  <2>4. PICK x \in 0 .. N, y \in 0 .. N : x # y /\ w[x] = w[y]
    BY <2>3
  <2>5. x < y \/ y < x
    BY <2>4, NamesCount
  <2> QED BY <2>4, <2>5
<1> DEFINE C == {w[k] : k \in 0 .. j - 1}
<1>5. C \subseteq Trail(d) /\ "path" \in C
  BY <1>1, <1>4, NamesCount DEF Trail, w
<1>6. ClosedIn(d, C)
  <2> SUFFICES ASSUME NEW k \in 0 .. j - 1, d[w[k]][1] = "link" PROVE d[w[k]][2] \in C
    BY DEF ClosedIn
  <2>1. k + 1 \in 1 .. N /\ w[k + 1] = d[w[k]][2]
    BY <1>1, <1>4, NamesCount DEF Follow
  <2>2. CASE k + 1 = j
    BY <1>4, <2>1, <2>2
  <2>3. CASE k + 1 # j
    <3>1. k + 1 \in 0 .. j - 1
      BY <1>4, <2>3
    <3> QED BY <2>1, <3>1
  <2> QED BY <2>2, <2>3
<1>7. Trail(d) \subseteq C
  <2> HIDE DEF C
  <2> QED BY <1>3, <1>5, <1>6 DEF Trail, w
<1> QED BY <1>5, <1>6, <1>7

(* A walk that ends takes c links, one after another, each name once.       *)
LEMMA WalkEnds ==
    ASSUME NEW d, IsDisk(d), Live(d)[1] # "link"
    PROVE  \E c \in 0 .. N :
             /\ Walk(d)[c] = Resolved(d)
             /\ \A k \in 0 .. c - 1 : d[Walk(d)[k]][1] = "link" /\ d[Walk(d)[k]][2] = Walk(d)[k + 1]
             /\ \A k \in c .. N : Walk(d)[k] = Resolved(d)
             /\ \A i, k \in 0 .. c - 1 : i <= k => Walk(d)[k + 1] # Walk(d)[i]
<1> DEFINE w == Walk(d)
           Ends == {k \in 0 .. N : d[w[k]][1] # "link"}
<1>1. w[0] = "path" /\ \A k \in 1 .. N : w[k] = Follow(d, w[k - 1])
  BY WalkSteps
<1>2. \A k \in 0 .. N : d[w[k]][1] # "link" => w[k] = Resolved(d) /\ \A i \in k .. N : w[i] = w[k]
  BY Stays, NamesCount DEF Resolved, N
<1>3. N \in Ends
  BY NamesCount DEF Live, Resolved, N
<1>4. \A C : "path" \in C /\ ClosedIn(d, C) => Resolved(d) \in C
  BY Reaches, TrailFacts
<1> HIDE DEF w
<1>5. PICK c \in Ends : \A k \in Ends : c <= k
  <2>1. Ends \in SUBSET Nat
    BY NamesCount
  <2> HIDE DEF Ends
  <2> QED BY <1>3, <2>1, LeastElement
<1>6. c \in 0 .. N /\ w[c] = Resolved(d) /\ \A k \in c .. N : w[k] = Resolved(d)
  BY <1>2, <1>5
<1>7. \A k \in 0 .. c - 1 : d[w[k]][1] = "link"
  BY <1>5, <1>6, NamesCount
<1>8. \A k \in 0 .. c - 1 : d[w[k]][2] = w[k + 1]
  <2> SUFFICES ASSUME NEW k \in 0 .. c - 1 PROVE d[w[k]][2] = w[k + 1]
    OBVIOUS
  <2>1. k + 1 \in 1 .. N /\ (k + 1) - 1 = k
    BY <1>6, NamesCount
  <2> QED BY <1>1, <1>7, <2>1 DEF Follow
<1>9. ASSUME NEW i \in 0 .. c - 1, NEW k \in 0 .. c - 1, i <= k, w[k + 1] = w[i]
      PROVE  FALSE
  <2> DEFINE C == {w[j] : j \in 0 .. k}
  <2>1. ClosedIn(d, C)
    <3> SUFFICES ASSUME NEW j \in 0 .. k PROVE d[w[j]][2] \in C
      BY DEF ClosedIn
    <3>1. d[w[j]][2] = w[j + 1]
      BY <1>6, <1>8, NamesCount
    <3>2. CASE j = k
      BY <1>9, <3>1, <3>2
    <3>3. CASE j # k
      <4>1. j + 1 \in 0 .. k
        BY <3>3
      <4> QED BY <3>1, <4>1
    <3> QED BY <3>2, <3>3
  <2>2. "path" \in C
    BY <1>1, <1>6
  <2>3. PICK j \in 0 .. k : Resolved(d) = w[j]
    BY <1>4, <2>1, <2>2
  <2>4. d[w[j]][1] = "link" /\ d[w[c]][1] # "link"
    BY <1>5, <1>6, <1>7, NamesCount
  <2> QED BY <1>6, <2>3, <2>4
<1> QED BY <1>6, <1>7, <1>8, <1>9 DEF w

(* _read_symlink_chain reads just those links, in their order.              *)
LEMMA ChainIsWalk ==
    ASSUME NEW d, IsDisk(d), Live(d)[1] # "link"
    PROVE  \E c \in 0 .. N :
             /\ Chain(d) = [i \in 1 .. c |-> [name |-> Walk(d)[i - 1], node |-> d[Walk(d)[i - 1]]]]
             /\ Walk(d)[c] = Resolved(d)
             /\ \A k \in 0 .. c - 1 : d[Walk(d)[k]][1] = "link" /\ d[Walk(d)[k]][2] = Walk(d)[k + 1]
             /\ \A k \in c .. N : Walk(d)[k] = Resolved(d)
             /\ \A i, k \in 0 .. c - 1 : i <= k => Walk(d)[k + 1] # Walk(d)[i]
<1> DEFINE w == Walk(d)
           steps == {k \in 0 .. Cardinality(Names) - 1 : d[w[k]][1] = "link"}
<1>1. PICK c \in 0 .. N :
             /\ w[c] = Resolved(d)
             /\ \A k \in 0 .. c - 1 : d[w[k]][1] = "link" /\ d[w[k]][2] = w[k + 1]
             /\ \A k \in c .. N : w[k] = Resolved(d)
             /\ \A i, k \in 0 .. c - 1 : i <= k => w[k + 1] # w[i]
  BY WalkEnds
<1>2. Chain(d) = [i \in 1 .. Cardinality(steps) |-> [name |-> w[i - 1], node |-> d[w[i - 1]]]]
  BY DEF Chain
<1> HIDE DEF w
<1>3. d[Resolved(d)][1] # "link"
  BY DEF Live
<1>4. steps = 0 .. c - 1
  <2>1. ASSUME NEW k \in steps PROVE k \in 0 .. c - 1
    <3>1. k \in 0 .. N /\ ~ (k \in c .. N)
      BY <1>1, <1>3, NamesCount DEF N
    <3> QED BY <1>1, <3>1, NamesCount
  <2>2. 0 .. c - 1 \subseteq steps
    BY <1>1, NamesCount DEF N
  <2> QED BY <2>1, <2>2
<1>5. Cardinality(0 .. c - 1) = c
  BY <1>1, NamesCount, FS_Interval
<1>6. Chain(d) = [i \in 1 .. c |-> [name |-> w[i - 1], node |-> d[w[i - 1]]]]
  <2> HIDE DEF steps
  <2> QED BY <1>2, <1>4, <1>5
<1> HIDE DEF steps
<1> QED BY <1>1, <1>6 DEF w

(* The entries restore_snapshot works off, and the names still to be done.  *)
Links   == {Link(n) : n \in Names}
Entries == [name : Names, node : {Missing} \cup Links]
Todo(x) == {x.todo[i].name : i \in DOMAIN x.todo}

(* What is to be put back, for a disk of which the chain was read: each      *)
(* name of the trail, and never a link before what it leads to.             *)
LEMMA PlanOfRestore ==
    ASSUME NEW d, IsDisk(d), Live(d)[1] # "link",
           NEW x, x.chain = Chain(d), x.resolved = Resolved(d)
    PROVE  LET full == BinaryFirst(x) IN
           /\ full \in Seq(Entries)
           /\ {full[i].name : i \in DOMAIN full} = Trail(d)
           /\ \A i \in DOMAIN full :
                IF full[i].node = Missing THEN full[i].name = Resolved(d)
                ELSE full[i].node = d[full[i].name] /\ full[i].node[1] = "link"
           /\ \A i, j \in DOMAIN full : i <= j /\ full[i].node # Missing => full[j].name # full[i].node[2]
<1> DEFINE w == Walk(d)
           full == BinaryFirst(x)
<1>1. PICK c \in 0 .. N :
        /\ Chain(d) = [i \in 1 .. c |-> [name |-> w[i - 1], node |-> d[w[i - 1]]]]
        /\ w[c] = Resolved(d)
        /\ \A k \in 0 .. c - 1 : d[w[k]][1] = "link" /\ d[w[k]][2] = w[k + 1]
        /\ \A k \in c .. N : w[k] = Resolved(d)
        /\ \A i, k \in 0 .. c - 1 : i <= k => w[k + 1] # w[i]
  BY ChainIsWalk
<1>2. /\ w[0] = "path" /\ \A k \in 0 .. N : w[k] \in Names
      /\ Trail(d) = {w[k] : k \in 0 .. N}
  BY WalkSteps, TrailFacts DEF Trail
<1> HIDE DEF w
<1>3. c \in Nat /\ c <= N
  BY NamesCount
<1> DEFINE entry(i) == IF i = 1 THEN [name |-> Resolved(d), node |-> Missing]
                       ELSE [name |-> w[c - i + 1], node |-> d[w[c - i + 1]]]
<1>4. full = [i \in 1 .. c + 1 |-> entry(i)]
  <2>1. CASE c = 0
    <3>1. Chain(d) = <<>>
      BY <1>1, <2>1
    <3>2. full = <<[name |-> "path", node |-> Missing]>>
      BY <3>1 DEF BinaryFirst, Binary
    <3>3. 1 .. c + 1 = {1} /\ Resolved(d) = "path"
      BY <1>1, <1>2, <2>1
    <3> QED BY <3>2, <3>3
  <2>2. CASE c # 0
    <3>1. Chain(d) # <<>> /\ Len(Chain(d)) = c /\ DOMAIN Chain(d) = 1 .. c
      BY <1>1, <1>3, <2>2
    <3>2. full = <<[name |-> Resolved(d), node |-> Missing]>> \o Reverse(Chain(d))
      BY <3>1 DEF BinaryFirst, Binary
    <3>3. Reverse(Chain(d)) = [i \in 1 .. c |-> [name |-> w[c - i], node |-> d[w[c - i]]]]
      <4>1. Reverse(Chain(d)) = [i \in 1 .. c |-> Chain(d)[c - i + 1]]
        BY <3>1 DEF Reverse
      <4>2. \A i \in 1 .. c : c - i + 1 \in 1 .. c /\ (c - i + 1) - 1 = c - i
        BY <1>3
      <4>3. \A i \in 1 .. c : Chain(d)[c - i + 1] = [name |-> w[c - i], node |-> d[w[c - i]]]
        BY <1>1, <4>2
      <4> QED BY <4>1, <4>3
    <3>4. \A i \in 2 .. c + 1 : i - 1 \in 1 .. c /\ c - (i - 1) = c - i + 1
      BY <1>3
    <3> QED BY <1>3, <3>2, <3>3, <3>4
  <2> QED BY <2>1, <2>2
<1> HIDE DEF full
<1>5. \A i \in 2 .. c + 1 :
        /\ c - i + 1 \in 0 .. c - 1 /\ c - i + 1 \in 0 .. N
        /\ w[c - i + 1] \in Names /\ d[w[c - i + 1]] \in Links /\ d[w[c - i + 1]][1] = "link"
  <2> SUFFICES ASSUME NEW i \in 2 .. c + 1
               PROVE  /\ c - i + 1 \in 0 .. c - 1 /\ c - i + 1 \in 0 .. N
                      /\ w[c - i + 1] \in Names /\ d[w[c - i + 1]] \in Links
                      /\ d[w[c - i + 1]][1] = "link"
    OBVIOUS
  <2>1. c - i + 1 \in 0 .. c - 1 /\ c - i + 1 \in 0 .. N
    BY <1>3, NamesCount
  <2>2. w[c - i + 1] \in Names /\ d[w[c - i + 1]][1] = "link"
    BY <1>1, <1>2, <2>1
  <2> QED BY <2>1, <2>2 DEF IsDisk, IsNode, Links
<1>6. Missing \notin Links /\ Missing[1] # "link"
  BY DEF Missing, Links, Link
<1>7. Resolved(d) \in Names
  BY <1>1, <1>2, NamesCount
<1>8. DOMAIN full = 1 .. c + 1 /\ \A i \in 1 .. c + 1 : full[i] = entry(i)
  BY <1>4
<1>9. full \in Seq(Entries)
  <2>1. \A i \in 1 .. c + 1 : entry(i) \in Entries
    BY <1>3, <1>5, <1>7 DEF Entries
  <2> HIDE DEF entry
  <2> QED BY <1>3, <1>4, <2>1
<1>10. {full[i].name : i \in DOMAIN full} = Trail(d)
  <2>1. ASSUME NEW i \in 1 .. c + 1 PROVE full[i].name \in Trail(d)
    BY <1>1, <1>2, <1>3, <1>5, <1>8, NamesCount
  <2>2. ASSUME NEW k \in 0 .. N PROVE \E i \in 1 .. c + 1 : full[i].name = w[k]
    <3>1. CASE k < c
      <4>1. c - k + 1 \in 2 .. c + 1 /\ c - (c - k + 1) + 1 = k
        BY <1>3, <3>1, NamesCount
      <4> QED BY <1>8, <4>1
    <3>2. CASE ~ k < c
      <4>1. w[k] = Resolved(d) /\ 1 \in 1 .. c + 1
        BY <1>1, <1>3, <3>2, NamesCount
      <4> QED BY <1>8, <4>1
    <3> QED BY <3>1, <3>2
  <2> DEFINE names == {full[i].name : i \in 1 .. c + 1}
  <2>3. names \subseteq Trail(d)
    BY <2>1
  <2>4. Trail(d) \subseteq names
    BY <1>2, <2>2
  <2> QED BY <1>8, <2>3, <2>4
<1>11. \A i \in DOMAIN full :
         IF full[i].node = Missing THEN full[i].name = Resolved(d)
         ELSE full[i].node = d[full[i].name] /\ full[i].node[1] = "link"
  BY <1>3, <1>5, <1>6, <1>8
<1>12. ASSUME NEW i \in DOMAIN full, NEW j \in DOMAIN full, i <= j, full[i].node # Missing
       PROVE  full[j].name # full[i].node[2]
  <2>1. i \in 2 .. c + 1 /\ j \in 2 .. c + 1
    BY <1>3, <1>8, <1>12
  <2>2. c - j + 1 \in 0 .. c - 1 /\ c - i + 1 \in 0 .. c - 1 /\ c - j + 1 <= c - i + 1
    BY <1>3, <1>12, <2>1
  <2>3. w[(c - i + 1) + 1] # w[c - j + 1] /\ d[w[c - i + 1]][2] = w[(c - i + 1) + 1]
    BY <1>1, <2>2
  <2>4. full[i].node = d[w[c - i + 1]] /\ full[j].name = w[c - j + 1]
    BY <1>3, <1>8, <2>1
  <2> QED BY <2>3, <2>4
<1> QED BY <1>9, <1>10, <1>11, <1>12 DEF full
-----------------------------------------------------------------------------
(* What an undisturbed updater goes by.  Before its command runs the disk is*)
(* as it was; from the copy on, what was there worked, and the backup and   *)
(* what it remembers of the links are of that.                              *)
Slots     == Kinds \X (0 .. MaxSeconds)
Before(x) == \/ x.pc = "probing" /\ x.stage = "before"
             \/ x.pc \in {"resolving", "copying", "reading", "launching"}
Copied(x) == \/ x.pc \in {"reading", "launching", "waiting", "restoring"}
             \/ x.pc = "probing" /\ x.stage \in {"candidate", "restored"}

(* Of every updater, disturbed or not: the links it remembers are links, and*)
(* no backup is one.                                                        *)
Typed(x) ==
    /\ x.resolved \in Names /\ x.chain \in Seq(Entries) /\ x.todo \in Seq(Entries)
    /\ x.seen[1] # "link"
    /\ x.pc = "copying" \/ Copied(x) => x.name \in Slots

(* What is left to put back is what was there, never a link before what it  *)
(* leads to; and the rest of the trail is back.                             *)
Restores(x, d) ==
    /\ Todo(x) \subseteq Trail(x.was)
    /\ \A i \in DOMAIN x.todo :
         IF x.todo[i].node = Missing THEN x.todo[i].name = Resolved(x.was)
         ELSE x.todo[i].node = x.was[x.todo[i].name] /\ x.todo[i].node[1] = "link"
    /\ \A i, j \in DOMAIN x.todo : i <= j /\ x.todo[i].node # Missing => x.todo[j].name # x.todo[i].node[2]
    /\ \A n \in Trail(x.was) \ Todo(x) :
         d[n] = x.was[n] /\ (x.was[n][1] = "link" => x.was[n][2] \notin Todo(x))

Tracked(x, d, b) ==
    /\ Before(x) => d = x.was
    /\ Before(x) \/ Copied(x) => IsDisk(x.was)
    /\ x.pc \in {"resolving", "copying"} \/ Copied(x) => Good(Live(x.was))
    /\ x.pc = "copying" => x.seen = Live(x.was)
    /\ x.pc = "copying" \/ Copied(x) => x.resolved = Resolved(x.was)
    /\ Copied(x) => b[x.name] = Live(x.was)
    /\ Copied(x) /\ x.pc # "reading" => x.chain = Chain(x.was)
    /\ x.pc = "restoring" => Restores(x, d)
    /\ x.pc = "probing" /\ x.stage = "restored" => \A n \in Trail(x.was) : d[n] = x.was[n]

TrackInv ==
    /\ IsDisk(disk)
    /\ \A b \in Slots : backups[b][1] # "link"
    /\ \A p \in Updaters : Typed(upd[p]) /\ (~ upd[p].disturbed => Tracked(upd[p], disk, backups))

-----------------------------------------------------------------------------
(* What is to be restored is a sequence of entries, whatever disturbs.      *)
LEMMA PlanIsTyped ==
    ASSUME NEW x, x.chain \in Seq(Entries), x.resolved \in Names
    PROVE  BinaryFirst(x) \in Seq(Entries)
<1>1. \A n \in Names : Binary(n) \in Seq(Entries)
  BY DEF Binary, Entries
<1>2. Reverse(x.chain) \in Seq(Entries)
  <2>1. Len(x.chain) \in Nat /\ \A i \in 1 .. Len(x.chain) : x.chain[Len(x.chain) - i + 1] \in Entries
    OBVIOUS
  <2> QED BY <2>1 DEF Reverse
<1> QED BY <1>1, <1>2, NamesAssumption DEF BinaryFirst

(* A chain that is read is a sequence of entries, too.                      *)
LEMMA ChainIsTyped ==
    ASSUME NEW d, IsDisk(d), Live(d)[1] # "link"
    PROVE  Chain(d) \in Seq(Entries)
<1>1. PICK c \in 0 .. N :
        /\ Chain(d) = [i \in 1 .. c |-> [name |-> Walk(d)[i - 1], node |-> d[Walk(d)[i - 1]]]]
        /\ \A k \in 0 .. c - 1 : d[Walk(d)[k]][1] = "link"
  BY ChainIsWalk
<1>2. \A i \in 1 .. c : [name |-> Walk(d)[i - 1], node |-> d[Walk(d)[i - 1]]] \in Entries
  <2> SUFFICES ASSUME NEW i \in 1 .. c
               PROVE  Walk(d)[i - 1] \in Names /\ d[Walk(d)[i - 1]] \in Links
    BY DEF Entries
  <2>1. i - 1 \in 0 .. c - 1 /\ i - 1 \in 0 .. N
    BY NamesCount
  <2>2. Walk(d)[i - 1] \in Names
    BY <2>1, TrailFacts
  <2> QED BY <1>1, <2>1, <2>2 DEF IsDisk, IsNode, Links
<1>3. c \in Nat
  BY NamesCount
<1> DEFINE entry(i) == [name |-> Walk(d)[i - 1], node |-> d[Walk(d)[i - 1]]]
<1>4. Chain(d) = [i \in 1 .. c |-> entry(i)] /\ \A i \in 1 .. c : entry(i) \in Entries
  BY <1>1, <1>2
<1> HIDE DEF entry
<1> QED BY <1>3, <1>4

(* An updater that is over has nothing left to do.                          *)
LEMMA OverIsTyped ==
    ASSUME NEW pc \in {"idle", "done", "dead"}, NEW result
    PROVE  Typed(Over(pc, result)) /\ Over(pc, result).pc = pc
<1>1. <<>> \in Seq(Entries) /\ Missing[1] # "link"
  BY DEF Missing
<1>2. Over(pc, result).resolved = "path" /\ Over(pc, result).chain = <<>> /\ Over(pc, result).todo = <<>>
      /\ Over(pc, result).seen = Missing /\ Over(pc, result).pc = pc
  BY DEF Over, Fresh
<1> QED BY <1>1, <1>2, NamesAssumption DEF Typed, Copied

(* Nothing is said of an updater that has not begun or is over ...          *)
LEMMA NothingToTrack ==
    ASSUME NEW x, x.pc \in {"idle", "done", "dead"}, NEW d, NEW b
    PROVE  Tracked(x, d, b)
BY DEF Tracked, Before, Copied

(* ... and of the others nothing about other backups than their own.        *)
LEMMA TrackedByName ==
    ASSUME NEW x, NEW d, NEW b, NEW c, Tracked(x, d, b), Copied(x) => c[x.name] = b[x.name]
    PROVE  Tracked(x, d, c)
BY DEF Tracked

(* Steps of one updater that touch neither the disk nor a backup.           *)
LEMMA OwnStep ==
    ASSUME TrackInv, Shape(upd), NEW p \in Updaters, NEW new, upd' = [upd EXCEPT ![p] = new],
           UNCHANGED <<disk, backups>>,
           Typed(new), ~ new.disturbed => Tracked(new, disk, backups)
    PROVE  TrackInv'
<1>1. upd'[p] = new /\ \A q \in Updaters \ {p} : upd'[q] = upd[q]
  BY DEF Shape
<1> QED BY <1>1 DEF TrackInv

(* Nobody has begun.                                                        *)
LEMMA InitTrack == Init => TrackInv
<1> SUFFICES ASSUME Init PROVE TrackInv
  OBVIOUS
<1>1. Typed(Fresh) /\ \A d, b : Tracked(Fresh, d, b)
  <2>1. <<>> \in Seq(Entries) /\ Missing[1] # "link"
    BY DEF Missing
  <2>2. /\ Fresh.resolved = "path" /\ Fresh.chain = <<>> /\ Fresh.todo = <<>>
        /\ Fresh.seen = Missing /\ Fresh.pc = "idle"
    BY DEF Fresh
  <2> QED BY <2>1, <2>2, NamesAssumption, NothingToTrack DEF Typed, Copied
<1>2. IsDisk(disk) /\ \A b \in Slots : backups[b][1] # "link"
  BY DisksAssumption DEF Init, Slots, Kinds, Missing
<1> QED BY <1>1, <1>2 DEF Init, TrackInv

(* Another place in the update, the rest as it was.                         *)
Kin(v, u) ==
    /\ v.resolved = u.resolved /\ v.seen = u.seen /\ v.name = u.name /\ v.chain = u.chain
    /\ v.was = u.was /\ v.disturbed = u.disturbed

(* The rollback begins with all of the trail to be put back.                *)
LEMMA RestoringFacts ==
    ASSUME NEW x, DOMAIN x = DOMAIN Fresh, Typed(x), Copied(x), x.pc # "reading", NEW d, NEW b,
           ~ x.disturbed => Tracked(x, d, b)
    PROVE  /\ Typed(Restoring(x)) /\ (~ Restoring(x).disturbed => Tracked(Restoring(x), d, b))
<1> DEFINE new == Restoring(x)
<1>1. Kin(new, x) /\ new.pc = "restoring" /\ new.todo = BinaryFirst(x)
  BY DEF Kin, Restoring, Fresh
<1> HIDE DEF new
<1>2. Typed(new)
  BY <1>1, PlanIsTyped DEF Typed, Kin, Copied
<1>3. ASSUME ~ x.disturbed PROVE Tracked(new, d, b)
  <2>1. /\ IsDisk(x.was) /\ Good(Live(x.was)) /\ x.resolved = Resolved(x.was)
        /\ b[x.name] = Live(x.was) /\ x.chain = Chain(x.was)
    BY <1>3 DEF Tracked
  <2>2. Live(x.was)[1] # "link"
    BY <2>1 DEF Good, File
  <2>3. /\ {new.todo[i].name : i \in DOMAIN new.todo} = Trail(x.was)
        /\ \A i \in DOMAIN new.todo :
             IF new.todo[i].node = Missing THEN new.todo[i].name = Resolved(x.was)
             ELSE new.todo[i].node = x.was[new.todo[i].name] /\ new.todo[i].node[1] = "link"
        /\ \A i, j \in DOMAIN new.todo :
             i <= j /\ new.todo[i].node # Missing => new.todo[j].name # new.todo[i].node[2]
    BY <1>1, <2>1, <2>2, PlanOfRestore
  <2>4. Restores(new, d)
    BY <1>1, <2>3 DEF Restores, Todo, Kin
  <2> QED BY <1>1, <2>1, <2>4 DEF Tracked, Before, Copied, Kin
<1> QED BY <1>1, <1>2, <1>3 DEF Kin, new

(* What was there is the disk the update begins with.                       *)
LEMMA BeginTracked ==
    ASSUME IInv, TrackInv, NEW p \in Updaters, Begin(p)
    PROVE  TrackInv'
<1> DEFINE new == [upd[p] EXCEPT !.pc = "probing", !.stage = "before", !.was = disk]
<1>1. /\ upd' = [upd EXCEPT ![p] = new] /\ UNCHANGED <<disk, backups>> /\ upd[p].pc = "idle"
  BY DEF Begin, IInv, Shape
<1>2. /\ new.pc = "probing" /\ new.stage = "before" /\ new.was = disk
      /\ new.resolved = upd[p].resolved /\ new.chain = upd[p].chain /\ new.todo = upd[p].todo
      /\ new.seen = upd[p].seen
  BY DEF IInv, Shape, Fresh
<1> HIDE DEF new
<1>3. Typed(new)
  BY <1>2 DEF TrackInv, Typed, Copied
<1>4. Tracked(new, disk, backups)
  BY <1>2 DEF TrackInv, Tracked, Before, Copied
<1> QED BY <1>1, <1>3, <1>4, OwnStep DEF IInv

(* After the first round of probes, what was there is known to work.        *)
LEMMA ProbePassesTracked ==
    ASSUME IInv, TrackInv, NEW p \in Updaters, ProbePasses(p)
    PROVE  TrackInv'
<1> DEFINE first == upd[p].stage = "before" /\ upd[p].probes = 0
           u == [upd[p] EXCEPT !.version = IF first THEN Version(Live(disk)[2]) ELSE @]
           new == IF u.probes + 1 = ProbeSteps THEN After(u) ELSE [u EXCEPT !.probes = @ + 1]
<1>1. /\ upd' = [upd EXCEPT ![p] = new] /\ UNCHANGED <<disk, backups>>
      /\ upd[p].pc = "probing" /\ Healthy(disk)
  BY DEF ProbePasses
<1>2. /\ DOMAIN u = DOMAIN Fresh /\ u.pc = "probing" /\ u.stage = upd[p].stage
      /\ Kin(u, upd[p]) /\ u.todo = upd[p].todo
  BY <1>1 DEF IInv, Shape, Fresh, Kin
<1> HIDE DEF u
<1>3. u.stage \in {"before", "candidate", "restored"}
  BY <1>1, <1>2 DEF IInv, Commanded
<1>4. Typed(u) /\ (~ u.disturbed => Tracked(u, disk, backups))
  <2>1. Typed(upd[p]) /\ (~ upd[p].disturbed => Tracked(upd[p], disk, backups))
    BY DEF TrackInv
  <2> QED BY <1>1, <1>2, <2>1 DEF Typed, Tracked, Kin, Copied, Before, Restores, Todo
<1>5. CASE u.probes + 1 = ProbeSteps /\ u.stage = "before"
  <2>1. /\ new.pc = "resolving" /\ new.stage = "before" /\ Kin(new, u) /\ new.todo = u.todo
    BY <1>2, <1>5 DEF After, Fresh, Kin
  <2> HIDE DEF new
  <2>2. Typed(new)
    BY <1>4, <2>1 DEF Typed, Copied, Kin
  <2>3. ASSUME ~ new.disturbed PROVE Tracked(new, disk, backups)
    <3>1. disk = new.was /\ IsDisk(new.was)
      BY <1>2, <1>4, <1>5, <2>1, <2>3 DEF Tracked, Before, Kin
    <3>2. Good(Live(new.was))
      BY <1>1, <3>1, ContentFacts
    <3> QED BY <2>1, <3>1, <3>2 DEF Tracked, Before, Copied
  <2> QED BY <1>1, <2>2, <2>3, OwnStep DEF IInv
<1>6. CASE u.probes + 1 = ProbeSteps /\ u.stage # "before"
  <2>1. \E result : new = Over("done", result)
    BY <1>3, <1>6 DEF After
  <2> HIDE DEF new
  <2>2. Typed(new) /\ Tracked(new, disk, backups)
    BY <2>1, OverIsTyped, NothingToTrack
  <2> QED BY <1>1, <2>2, OwnStep DEF IInv
<1>7. CASE u.probes + 1 # ProbeSteps
  <2>1. /\ new.pc = u.pc /\ new.stage = u.stage /\ Kin(new, u) /\ new.todo = u.todo
    BY <1>2, <1>7 DEF Fresh, Kin
  <2> HIDE DEF new
  <2>2. Typed(new) /\ (~ new.disturbed => Tracked(new, disk, backups))
    BY <1>2, <1>4, <2>1 DEF Typed, Tracked, Kin, Copied, Before, Restores, Todo
  <2> QED BY <1>1, <2>2, OwnStep DEF IInv
<1> QED BY <1>5, <1>6, <1>7

(* Whoever ends, refused, failed or killed, is not tracked any more.        *)
LEMMA OverTracked ==
    ASSUME IInv, TrackInv, NEW p \in Updaters, NEW pc \in {"done", "dead"}, NEW result,
           upd' = [upd EXCEPT ![p] = Over(pc, result)], UNCHANGED <<disk, backups>>
    PROVE  TrackInv'
<1> DEFINE new == Over(pc, result)
<1>1. Typed(new) /\ new.pc = pc
  BY OverIsTyped
<1> HIDE DEF new
<1>2. Tracked(new, disk, backups)
  BY <1>1, NothingToTrack
<1>3. upd' = [upd EXCEPT ![p] = new]
  BY DEF new
<1> QED BY <1>1, <1>2, <1>3, OwnStep DEF IInv

(* A rollback begins.                                                       *)
LEMMA RestoringTracked ==
    ASSUME IInv, TrackInv, NEW p \in Updaters, Copied(upd[p]), upd[p].pc # "reading",
           upd' = [upd EXCEPT ![p] = Restoring(upd[p])], UNCHANGED <<disk, backups>>
    PROVE  TrackInv'
<1>1. DOMAIN upd[p] = DOMAIN Fresh /\ Typed(upd[p]) /\ (~ upd[p].disturbed => Tracked(upd[p], disk, backups))
  BY DEF IInv, Shape, TrackInv
<1> QED BY <1>1, RestoringFacts, OwnStep DEF IInv

(* A candidate that fails is rolled back, the rest ends the update.         *)
LEMMA ProbeFailsTracked ==
    ASSUME IInv, TrackInv, NEW p \in Updaters, ProbeFails(p)
    PROVE  TrackInv'
<1>1. /\ upd[p].pc = "probing" /\ UNCHANGED <<disk, backups>>
      /\ upd' = [upd EXCEPT ![p] =
           CASE upd[p].stage = "before" -> Over("done", "refused")
             [] upd[p].stage = "candidate" -> Restoring(upd[p])
             [] upd[p].stage = "restored" -> Over("done", "error")]
  BY DEF ProbeFails
<1>2. CASE upd[p].stage = "before"
  <2>1. upd' = [upd EXCEPT ![p] = Over("done", "refused")]
    BY <1>1, <1>2
  <2> QED BY <1>1, <2>1, OverTracked
<1>3. CASE upd[p].stage = "candidate"
  <2>1. upd' = [upd EXCEPT ![p] = Restoring(upd[p])] /\ Copied(upd[p]) /\ upd[p].pc # "reading"
    BY <1>1, <1>3 DEF Copied
  <2> QED BY <1>1, <2>1, RestoringTracked
<1>4. CASE upd[p].stage = "restored"
  <2>1. upd' = [upd EXCEPT ![p] = Over("done", "error")]
    BY <1>1, <1>4
  <2> QED BY <1>1, <2>1, OverTracked
<1> QED BY <1>1, <1>2, <1>3, <1>4 DEF IInv, Commanded

(* Whom a step disturbs is not tracked any more; the others are as they were.*)
LEMMA DisturbedFacts ==
    ASSUME NEW u, Shape(u), NEW hit, NEW q \in Updaters, Typed(u[q])
    PROVE  /\ Typed(Disturbed(u, hit)[q])
           /\ ~ Disturbed(u, hit)[q].disturbed =>
                Disturbed(u, hit)[q] = u[q] /\ (q \in hit => ~ Active(q))
<1> DEFINE v == Disturbed(u, hit)[q]
<1>1. CASE q \in hit /\ Active(q)
  <2>1. /\ v.disturbed = TRUE /\ v.pc = u[q].pc /\ v.stage = u[q].stage /\ v.resolved = u[q].resolved
        /\ v.chain = u[q].chain /\ v.todo = u[q].todo /\ v.seen = u[q].seen /\ v.name = u[q].name
    BY <1>1 DEF Shape, Disturbed, Fresh
  <2> HIDE DEF v
  <2> QED BY <2>1 DEF v, Typed, Copied
<1>2. CASE ~ (q \in hit /\ Active(q))
  <2>1. v = u[q]
    BY <1>2 DEF Disturbed
  <2> QED BY <1>2, <2>1
<1> QED BY <1>1, <1>2

(* Whose backup is overwritten is disturbed.                                *)
LEMMA CopyBeginsTracked ==
    ASSUME IInv, TrackInv, NEW p \in Updaters, CopyBegins(p)
    PROVE  TrackInv'
<1> DEFINE name == BackupName(upd[p].version)
           u == [upd EXCEPT ![p].pc = "copying", ![p].name = name, ![p].version = "unknown",
                            ![p].resolved = Resolved(disk), ![p].seen = Live(disk)]
<1>1. /\ upd[p].pc = "resolving" /\ Live(disk)[1] = "file" /\ upd' = Disturbed(u, Sharing(p, name))
      /\ backups' = [backups EXCEPT ![name] = Torn]
      /\ UNCHANGED disk
  BY DEF CopyBegins
<1>2. name \in Slots /\ DOMAIN backups = Slots
  BY <1>1 DEF IInv, Named, BackupName, Slots
<1>3. /\ Shape(u) /\ u[p].pc = "copying" /\ u[p].name = name /\ u[p].stage = upd[p].stage
      /\ u[p].seen = Live(disk) /\ u[p].resolved = Resolved(disk)
      /\ u[p].chain = upd[p].chain /\ u[p].todo = upd[p].todo
      /\ u[p].was = upd[p].was /\ u[p].disturbed = upd[p].disturbed
      /\ \A q \in Updaters \ {p} : u[q] = upd[q]
  BY DEF IInv, Shape, Fresh
<1>4. \A q \in Updaters \ {p} : q \notin Sharing(p, name) => upd[q].name # name
  BY DEF Sharing
<1>5. p \notin Sharing(p, name)
  BY DEF Sharing
<1> HIDE DEF u, name
<1>6. \A q \in Updaters : Typed(u[q])
  <2>1. Typed(u[p])
    BY <1>1, <1>2, <1>3, TrailFacts DEF TrackInv, Typed, Copied
  <2> QED BY <1>3, <2>1 DEF TrackInv
<1>7. backups'[name] = Torn /\ \A b \in Slots \ {name} : backups'[b] = backups[b]
  BY <1>1, <1>2
<1>8. \A b \in Slots : backups'[b][1] # "link"
  BY <1>7 DEF TrackInv, Torn, File
<1>9. ASSUME NEW q \in Updaters, ~ upd'[q].disturbed
      PROVE  Tracked(upd'[q], disk, backups')
  <2>1. upd'[q] = u[q] /\ (q \in Sharing(p, name) => ~ Active(q))
    BY <1>1, <1>3, <1>6, <1>9, DisturbedFacts
  <2>2. CASE q = p
    <3>1. Tracked(upd[p], disk, backups)
      BY <1>3, <1>9, <2>1, <2>2 DEF TrackInv
    <3>2. disk = upd[p].was /\ IsDisk(upd[p].was) /\ Good(Live(upd[p].was))
      BY <1>1, <3>1 DEF Tracked, Before
    <3> QED BY <1>3, <2>1, <2>2, <3>2 DEF Tracked, Before, Copied
  <2>3. CASE q # p
    <3>1. u[q] = upd[q] /\ Tracked(upd[q], disk, backups)
      BY <1>3, <1>9, <2>1, <2>3 DEF TrackInv
    <3>2. CASE Active(q)
      <4>1. upd[q].name # name
        BY <1>4, <2>1, <2>3, <3>2
      <4>2. Copied(upd[q]) => backups'[upd[q].name] = backups[upd[q].name]
        BY <1>7, <4>1 DEF TrackInv, Typed
      <4> QED BY <2>1, <3>1, <4>2, TrackedByName
    <3>3. CASE ~ Active(q)
      BY <2>1, <3>1, <3>3, NothingToTrack DEF Active
    <3> QED BY <3>2, <3>3
  <2> QED BY <2>2, <2>3
<1>10. ASSUME NEW q \in Updaters PROVE Typed(upd'[q])
  BY <1>1, <1>3, <1>6, DisturbedFacts
<1> QED BY <1>1, <1>8, <1>9, <1>10 DEF TrackInv

(* The copy of an undisturbed update is of what was there.                  *)
LEMMA CopyEndsTracked ==
    ASSUME IInv, TrackInv, NEW p \in Updaters, CopyEnds(p)
    PROVE  TrackInv'
<1> DEFINE name == upd[p].name
           source == disk[upd[p].resolved]
           u == [upd EXCEPT ![p].pc = "reading", ![p].seen = Missing]
<1>1. PICK copy \in {upd[p].seen} \union {f \in {source, Torn} : source # upd[p].seen /\ f[1] = "file"} :
        backups' = [backups EXCEPT ![name] = copy]
  BY DEF CopyEnds
<1>2. upd[p].pc = "copying" /\ upd' = Disturbed(u, Sharing(p, name)) /\ UNCHANGED disk
  BY DEF CopyEnds
<1>3. name \in Slots /\ DOMAIN backups = Slots
  BY <1>2 DEF TrackInv, Typed, IInv, Slots
<1>4. /\ Shape(u) /\ u[p].pc = "reading" /\ u[p].name = name /\ u[p].stage = upd[p].stage
      /\ u[p].seen = Missing /\ u[p].resolved = upd[p].resolved
      /\ u[p].chain = upd[p].chain /\ u[p].todo = upd[p].todo
      /\ u[p].was = upd[p].was /\ u[p].disturbed = upd[p].disturbed
      /\ \A q \in Updaters \ {p} : u[q] = upd[q]
  BY DEF IInv, Shape, Fresh
<1>5. \A q \in Updaters \ {p} : q \notin Sharing(p, name) => upd[q].name # name
  BY DEF Sharing
<1>6. copy[1] # "link"
  BY <1>1 DEF TrackInv, Typed
<1>7. ~ upd[p].disturbed => copy = Live(upd[p].was)
  <2> SUFFICES ASSUME ~ upd[p].disturbed PROVE copy = Live(upd[p].was)
    OBVIOUS
  <2>1. Tracked(upd[p], disk, backups)
    BY DEF TrackInv
  <2>2. upd[p].seen = Live(upd[p].was) /\ source = Live(upd[p].was)
    BY <1>2, <2>1 DEF Tracked, Before, Live
  <2> QED BY <1>1, <2>2
<1> HIDE DEF u, source
<1>8. \A q \in Updaters : Typed(u[q])
  <2>1. Missing[1] # "link"
    BY DEF Missing
  <2>2. Typed(u[p])
    BY <1>3, <1>4, <2>1 DEF TrackInv, Typed, Copied
  <2> QED BY <1>4, <2>2 DEF TrackInv
<1>9. backups'[name] = copy /\ \A b \in Slots \ {name} : backups'[b] = backups[b]
  BY <1>1, <1>3
<1>10. \A b \in Slots : backups'[b][1] # "link"
  BY <1>6, <1>9 DEF TrackInv
<1>11. ASSUME NEW q \in Updaters, ~ upd'[q].disturbed
       PROVE  Tracked(upd'[q], disk, backups')
  <2>1. upd'[q] = u[q] /\ (q \in Sharing(p, name) => ~ Active(q))
    BY <1>2, <1>4, <1>8, <1>11, DisturbedFacts
  <2>2. CASE q = p
    <3>1. Tracked(upd[p], disk, backups) /\ copy = Live(upd[p].was)
      BY <1>4, <1>7, <1>11, <2>1, <2>2 DEF TrackInv
    <3> QED BY <1>2, <1>4, <1>9, <2>1, <2>2, <3>1 DEF Tracked, Before, Copied
  <2>3. CASE q # p
    <3>1. u[q] = upd[q] /\ Tracked(upd[q], disk, backups)
      BY <1>4, <1>11, <2>1, <2>3 DEF TrackInv
    <3>2. CASE Active(q)
      <4>1. upd[q].name # name
        BY <1>5, <2>1, <2>3, <3>2
      <4>2. Copied(upd[q]) => backups'[upd[q].name] = backups[upd[q].name]
        BY <1>9, <4>1 DEF TrackInv, Typed
      <4> QED BY <2>1, <3>1, <4>2, TrackedByName
    <3>3. CASE ~ Active(q)
      BY <2>1, <3>1, <3>3, NothingToTrack DEF Active
    <3> QED BY <3>2, <3>3
  <2> QED BY <2>2, <2>3
<1>12. ASSUME NEW q \in Updaters PROVE Typed(upd'[q])
  BY <1>2, <1>4, <1>8, DisturbedFacts
<1> QED BY <1>2, <1>10, <1>11, <1>12 DEF TrackInv

(* The chain that is read is the chain of what was there.                   *)
LEMMA ReadChainTracked ==
    ASSUME IInv, TrackInv, NEW p \in Updaters, ReadChain(p)
    PROVE  TrackInv'
<1> DEFINE new == [upd[p] EXCEPT !.pc = "launching", !.chain = Chain(disk)]
<1>1. /\ upd' = [upd EXCEPT ![p] = new] /\ UNCHANGED <<disk, backups>>
      /\ upd[p].pc = "reading" /\ Live(disk)[1] # "link"
  BY DEF ReadChain, IInv, Shape
<1>2. /\ new.pc = "launching" /\ new.chain = Chain(disk) /\ new.todo = upd[p].todo
      /\ new.resolved = upd[p].resolved /\ new.seen = upd[p].seen /\ new.name = upd[p].name
      /\ new.was = upd[p].was /\ new.disturbed = upd[p].disturbed /\ new.stage = upd[p].stage
  BY DEF IInv, Shape, Fresh
<1> HIDE DEF new
<1>3. Typed(new)
  <2>1. Chain(disk) \in Seq(Entries)
    BY <1>1, ChainIsTyped DEF TrackInv
  <2> QED BY <1>1, <1>2, <2>1 DEF TrackInv, Typed, Copied
<1>4. ASSUME ~ new.disturbed PROVE Tracked(new, disk, backups)
  <2>1. Tracked(upd[p], disk, backups)
    BY <1>2, <1>4 DEF TrackInv
  <2> QED BY <1>1, <1>2, <2>1 DEF Tracked, Before, Copied
<1> QED BY <1>1, <1>3, <1>4, OwnStep DEF IInv

(* From the launch on the disk may change.                                  *)
LEMMA LaunchTracked ==
    ASSUME IInv, TrackInv, NEW p \in Updaters, Launch(p)
    PROVE  TrackInv'
<1> DEFINE new == [upd[p] EXCEPT !.pc = "waiting"]
<1>1. /\ upd' = [upd EXCEPT ![p] = new] /\ UNCHANGED <<disk, backups>>
      /\ upd[p].pc = "launching"
  BY DEF Launch, IInv, Shape
<1>2. Kin(new, upd[p]) /\ new.pc = "waiting" /\ new.todo = upd[p].todo /\ new.stage = upd[p].stage
  BY DEF IInv, Shape, Fresh, Kin
<1> HIDE DEF new
<1>3. Typed(new)
  BY <1>1, <1>2 DEF TrackInv, Typed, Copied, Kin
<1>4. ASSUME ~ new.disturbed PROVE Tracked(new, disk, backups)
  <2>1. Tracked(upd[p], disk, backups)
    BY <1>2, <1>4 DEF TrackInv, Kin
  <2> QED BY <1>1, <1>2, <2>1 DEF Tracked, Before, Copied, Kin
<1> QED BY <1>1, <1>3, <1>4, OwnStep DEF IInv

(* What the command left is probed, or what was there put back.             *)
LEMMA CommandExitsTracked ==
    ASSUME IInv, TrackInv, NEW p \in Updaters, NEW code \in {0, 1}, CommandExits(p, code)
    PROVE  TrackInv'
<1>1. upd[p].pc = "waiting" /\ UNCHANGED <<disk, backups>>
  BY DEF CommandExits
<1>2. CASE code # 0
  <2>1. upd' = [upd EXCEPT ![p] = Restoring(upd[p])]
    BY <1>2 DEF CommandExits
  <2> QED BY <1>1, <2>1, RestoringTracked DEF Copied
<1>3. CASE code = 0
  <2> DEFINE new == [upd[p] EXCEPT !.pc = "probing", !.stage = "candidate"]
  <2>1. upd' = [upd EXCEPT ![p] = new]
    BY <1>3 DEF CommandExits
  <2>2. Kin(new, upd[p]) /\ new.pc = "probing" /\ new.stage = "candidate" /\ new.todo = upd[p].todo
    BY DEF IInv, Shape, Fresh, Kin
  <2> HIDE DEF new
  <2>3. Typed(new)
    BY <1>1, <2>2 DEF TrackInv, Typed, Copied, Kin
  <2>4. ASSUME ~ new.disturbed PROVE Tracked(new, disk, backups)
    <3>1. Tracked(upd[p], disk, backups)
      BY <2>2, <2>4 DEF TrackInv, Kin
    <3> QED BY <1>1, <2>2, <3>1 DEF Tracked, Before, Copied, Kin
  <2> QED BY <1>1, <2>1, <2>3, <2>4, OwnStep DEF IInv
<1> QED BY <1>2, <1>3

(* A command that hangs is rolled back.                                     *)
LEMMA TimesOutTracked ==
    ASSUME IInv, TrackInv, NEW p \in Updaters, TimesOut(p)
    PROVE  TrackInv'
BY RestoringTracked DEF TimesOut, Copied

(* With nothing left to do, the trail is what it was.                       *)
LEMMA RestoredTracked ==
    ASSUME IInv, TrackInv, NEW p \in Updaters, Restored(p)
    PROVE  TrackInv'
<1> DEFINE new == [upd[p] EXCEPT !.pc = "probing", !.stage = "restored"]
<1>1. /\ upd' = [upd EXCEPT ![p] = new] /\ UNCHANGED <<disk, backups>>
      /\ upd[p].pc = "restoring" /\ upd[p].todo = <<>>
  BY DEF Restored, IInv, Shape
<1>2. Kin(new, upd[p]) /\ new.pc = "probing" /\ new.stage = "restored" /\ new.todo = upd[p].todo
  BY DEF IInv, Shape, Fresh, Kin
<1> HIDE DEF new
<1>3. Typed(new)
  BY <1>1, <1>2 DEF TrackInv, Typed, Copied, Kin
<1>4. ASSUME ~ new.disturbed PROVE Tracked(new, disk, backups)
  <2>1. Tracked(upd[p], disk, backups)
    BY <1>2, <1>4 DEF TrackInv, Kin
  <2>2. Restores(upd[p], disk) /\ Todo(upd[p]) = {}
    BY <1>1, <2>1 DEF Tracked, Todo
  <2>3. \A n \in Trail(new.was) : disk[n] = new.was[n]
    BY <1>2, <2>2 DEF Restores, Kin
  <2> QED BY <1>1, <1>2, <2>1, <2>3 DEF Tracked, Before, Copied, Kin
<1> QED BY <1>1, <1>3, <1>4, OwnStep DEF IInv

(* What a command changes is nothing an undisturbed update goes by.         *)
LEMMA CommandChangesTracked ==
    ASSUME IInv, TrackInv, NEW p \in Updaters, NEW change \in Changes, CommandChanges(p, change)
    PROVE  TrackInv'
<1> DEFINE hit == {q \in Updaters : q = p => upd[p].pc # "waiting"}
<1>1. /\ disk' = [disk EXCEPT ![change.name] = change.node]
      /\ upd' = Disturbed(upd, hit) /\ UNCHANGED backups
  BY DEF CommandChanges
<1>2. IsDisk(disk')
  <2>1. IsDisk(disk) /\ change.name \in Names /\ IsNode(change.node)
    BY DisksAssumption DEF TrackInv
  <2> QED BY <1>1, <2>1 DEF IsDisk
<1>3. ASSUME NEW q \in Updaters PROVE Typed(upd'[q])
  BY <1>1, DisturbedFacts DEF TrackInv, IInv
<1>4. ASSUME NEW q \in Updaters, ~ upd'[q].disturbed
      PROVE  Tracked(upd'[q], disk', backups')
  <2>1. upd'[q] = upd[q] /\ (q \in hit => ~ Active(q))
    BY <1>1, <1>4, DisturbedFacts DEF TrackInv, IInv
  <2>2. CASE Active(q)
    <3>1. upd[q].pc = "waiting" /\ Tracked(upd[q], disk, backups)
      BY <1>4, <2>1, <2>2 DEF TrackInv
    <3> QED BY <1>1, <2>1, <3>1 DEF Tracked, Before, Copied
  <2>3. CASE ~ Active(q)
    BY <2>1, <2>3, NothingToTrack DEF Active
  <2> QED BY <2>2, <2>3
<1>5. \A b \in Slots : backups'[b][1] # "link"
  BY <1>1 DEF TrackInv
<1> QED BY <1>2, <1>3, <1>4, <1>5 DEF TrackInv

(* What the next entry makes, and that it is what was there.                *)
LEMMA MadeIsWhatWas ==
    ASSUME TrackInv, NEW p \in Updaters, upd[p].pc = "restoring", upd[p].todo # <<>>
    PROVE  LET entry == Head(upd[p].todo) IN
           /\ 1 \in DOMAIN upd[p].todo /\ entry = upd[p].todo[1]
           /\ entry \in Entries /\ entry.name \in Todo(upd[p])
           /\ IsNode(Made(upd[p], entry))
           /\ ~ upd[p].disturbed =>
                /\ Made(upd[p], entry) = upd[p].was[entry.name]
                /\ entry.node = Missing => upd[p].was[entry.name][1] # "link"
                /\ entry.node # Missing => entry.node = upd[p].was[entry.name]
<1> DEFINE x == upd[p]
           entry == Head(x.todo)
<1>1. x.todo \in Seq(Entries) /\ x.name \in Slots
  BY DEF TrackInv, Typed, Copied
<1>2. 1 \in DOMAIN x.todo /\ entry = x.todo[1] /\ entry \in Entries
  BY <1>1
<1>3. entry.name \in Todo(x)
  BY <1>2 DEF Todo
<1>4. IsNode(Made(x, entry))
  <2>1. CASE entry.node = Missing
    <3>1. Made(x, entry) = backups[x.name] /\ backups[x.name][1] # "link"
      BY <1>1, <2>1 DEF Made, TrackInv
    <3> QED BY <3>1 DEF IsNode
  <2>2. CASE entry.node # Missing
    BY <1>2, <2>2 DEF Made, Entries, Links, IsNode
  <2> QED BY <2>1, <2>2
<1>5. ASSUME ~ x.disturbed
      PROVE  /\ Made(x, entry) = x.was[entry.name]
             /\ entry.node = Missing => x.was[entry.name][1] # "link"
             /\ entry.node # Missing => entry.node = x.was[entry.name]
  <2>1. Tracked(x, disk, backups)
    BY <1>5 DEF TrackInv
  <2>2. Restores(x, disk) /\ Good(Live(x.was)) /\ backups[x.name] = Live(x.was)
    BY <2>1 DEF Tracked, Copied
  <2>3. IF entry.node = Missing THEN entry.name = Resolved(x.was) ELSE entry.node = x.was[entry.name]
    BY <1>2, <2>2 DEF Restores
  <2>4. Live(x.was)[1] # "link"
    BY <2>2 DEF Good, File
  <2> QED BY <2>2, <2>3, <2>4 DEF Made, Live
<1> QED BY <1>2, <1>3, <1>4, <1>5

(* One more entry is back, and what it leads to was back before it.         *)
LEMMA ReplaceTracked ==
    ASSUME IInv, TrackInv, NEW p \in Updaters, Replace(p)
    PROVE  TrackInv'
<1> DEFINE x == upd[p]
           entry == Head(x.todo)
           u == [upd EXCEPT ![p].todo = Tail(@)]
<1>1. /\ x.pc = "restoring" /\ x.todo # <<>>
      /\ disk' = [disk EXCEPT ![entry.name] = Made(x, entry)]
      /\ upd' = Disturbed(u, Updaters \ {p}) /\ UNCHANGED backups
  BY DEF Replace, Puts
<1>2. /\ 1 \in DOMAIN x.todo /\ entry = x.todo[1]
      /\ entry \in Entries /\ entry.name \in Todo(x)
      /\ IsNode(Made(x, entry))
      /\ ~ x.disturbed =>
           /\ Made(x, entry) = x.was[entry.name]
           /\ entry.node = Missing => x.was[entry.name][1] # "link"
           /\ entry.node # Missing => entry.node = x.was[entry.name]
  BY <1>1, MadeIsWhatWas
<1>3. /\ Shape(u) /\ Kin(u[p], x) /\ u[p].pc = "restoring" /\ u[p].stage = x.stage
      /\ u[p].todo = Tail(x.todo)
      /\ \A q \in Updaters \ {p} : u[q] = upd[q]
  BY <1>1 DEF IInv, Shape, Fresh, Kin
<1> HIDE DEF u
<1>4. IsDisk(disk') /\ disk'[entry.name] = Made(x, entry)
      /\ \A n \in Names \ {entry.name} : disk'[n] = disk[n]
  <2>1. IsDisk(disk) /\ entry.name \in Names
    BY <1>2 DEF TrackInv, Entries
  <2> QED BY <1>1, <1>2, <2>1 DEF IsDisk
<1>5. x.todo \in Seq(Entries)
  BY DEF TrackInv, Typed
<1>6. Tail(x.todo) \in Seq(Entries) /\ \A i \in DOMAIN Tail(x.todo) :
        i + 1 \in DOMAIN x.todo /\ Tail(x.todo)[i] = x.todo[i + 1] /\ i \in Nat
  BY <1>1, <1>5
<1>7. \A q \in Updaters : Typed(u[q])
  <2>1. Typed(u[p])
    BY <1>1, <1>3, <1>6 DEF TrackInv, Typed, Copied, Kin
  <2> QED BY <1>3, <2>1 DEF TrackInv
<1>8. Todo(x) \subseteq Todo(u[p]) \cup {entry.name} /\ Todo(u[p]) \subseteq Todo(x)
  <2>1. \A i \in DOMAIN x.todo : i = 1 \/ (i - 1 \in DOMAIN Tail(x.todo) /\ Tail(x.todo)[i - 1] = x.todo[i])
    BY <1>1, <1>5
  <2>2. Todo(x) \subseteq Todo(u[p]) \cup {entry.name}
    <3> SUFFICES ASSUME NEW i \in DOMAIN x.todo
                 PROVE  x.todo[i].name \in Todo(u[p]) \cup {entry.name}
      BY DEF Todo
    <3>1. CASE i = 1
      BY <1>2, <3>1
    <3>2. CASE i # 1
      BY <1>3, <2>1, <3>2 DEF Todo
    <3> QED BY <3>1, <3>2
  <2>3. Todo(u[p]) \subseteq Todo(x)
    BY <1>3, <1>6 DEF Todo
  <2> QED BY <2>2, <2>3
<1>9. ASSUME NEW q \in Updaters, ~ upd'[q].disturbed
      PROVE  Tracked(upd'[q], disk', backups')
  <2>1. upd'[q] = u[q] /\ (q # p => ~ Active(q))
    BY <1>1, <1>3, <1>7, <1>9, DisturbedFacts
  <2>2. CASE q # p
    BY <1>3, <2>1, <2>2, NothingToTrack DEF Active
  <2>3. CASE q = p
    <3> DEFINE was == x.was
    <3>1. Tracked(x, disk, backups) /\ ~ x.disturbed
      BY <1>3, <1>9, <2>1, <2>3 DEF TrackInv, Kin
    <3>2. Restores(x, disk) /\ IsDisk(was)
      BY <1>1, <3>1 DEF Tracked, Copied
    <3>3. Todo(u[p]) \subseteq Trail(was)
      BY <1>8, <3>2 DEF Restores
    <3>4. \A i \in DOMAIN u[p].todo :
            IF u[p].todo[i].node = Missing THEN u[p].todo[i].name = Resolved(was)
            ELSE u[p].todo[i].node = was[u[p].todo[i].name] /\ u[p].todo[i].node[1] = "link"
      <4> SUFFICES ASSUME NEW i \in DOMAIN u[p].todo
                   PROVE  LET e == u[p].todo[i] IN
                          IF e.node = Missing THEN e.name = Resolved(was)
                          ELSE e.node = was[e.name] /\ e.node[1] = "link"
        OBVIOUS
      <4>1. i + 1 \in DOMAIN x.todo /\ u[p].todo[i] = x.todo[i + 1]
        BY <1>3, <1>6
      <4> QED BY <3>2, <4>1 DEF Restores
    <3>5. \A i, j \in DOMAIN u[p].todo :
            i <= j /\ u[p].todo[i].node # Missing => u[p].todo[j].name # u[p].todo[i].node[2]
      <4> SUFFICES ASSUME NEW i \in DOMAIN u[p].todo, NEW j \in DOMAIN u[p].todo,
                          i <= j, u[p].todo[i].node # Missing
                   PROVE  u[p].todo[j].name # u[p].todo[i].node[2]
        OBVIOUS
      <4>1. i + 1 \in DOMAIN x.todo /\ j + 1 \in DOMAIN x.todo /\ i + 1 <= j + 1
            /\ u[p].todo[i] = x.todo[i + 1] /\ u[p].todo[j] = x.todo[j + 1]
        BY <1>3, <1>6
      <4> QED BY <3>2, <4>1 DEF Restores
    <3>6. ASSUME NEW n \in Trail(was) \ Todo(u[p])
          PROVE  disk'[n] = was[n] /\ (was[n][1] = "link" => was[n][2] \notin Todo(u[p]))
      <4>1. CASE n = entry.name
        <5>1. disk'[n] = was[n]
          BY <1>2, <1>4, <3>1, <4>1
        <5>2. ASSUME was[n][1] = "link" PROVE was[n][2] \notin Todo(u[p])
          <6>1. entry.node # Missing /\ x.todo[1].node = was[n]
            BY <1>2, <3>1, <4>1, <5>2
          <6>2. \A j \in DOMAIN x.todo : x.todo[j].name # was[n][2]
            <7>1. \A j \in DOMAIN x.todo : 1 <= j
              BY <1>5
            <7>2. \A i, j \in DOMAIN x.todo :
                    i <= j /\ x.todo[i].node # Missing => x.todo[j].name # x.todo[i].node[2]
              BY <3>2 DEF Restores
            <7> QED BY <1>2, <6>1, <7>1, <7>2
          <6> QED BY <1>8, <6>2 DEF Todo
        <5> QED BY <5>1, <5>2
      <4>2. CASE n # entry.name
        <5>1. n \in Trail(was) \ Todo(x) /\ n \in Names
          BY <1>8, <3>2, <3>6, <4>2, TrailFacts
        <5> QED BY <1>4, <1>8, <3>2, <4>2, <5>1 DEF Restores
      <4> QED BY <4>1, <4>2
    <3>7. Restores(u[p], disk')
      <4>1. u[p].was = was
        BY <1>3 DEF Kin
      <4> QED BY <3>3, <3>4, <3>5, <3>6, <4>1 DEF Restores
    <3> QED BY <1>1, <1>3, <2>1, <2>3, <3>1, <3>7 DEF Tracked, Before, Copied, Kin
  <2> QED BY <2>2, <2>3
<1>10. ASSUME NEW q \in Updaters PROVE Typed(upd'[q])
  BY <1>1, <1>3, <1>7, DisturbedFacts
<1>11. \A b \in Slots : backups'[b][1] # "link"
  BY <1>1 DEF TrackInv
<1> QED BY <1>4, <1>9, <1>10, <1>11 DEF TrackInv

(* No step breaks what the invariant says of an undisturbed updater.        *)
LEMMA StepTrack == IInv /\ TrackInv /\ [Next]_vars => TrackInv'
<1> SUFFICES ASSUME IInv, TrackInv, [Next]_vars PROVE TrackInv'
  OBVIOUS
<1>1. ASSUME UNCHANGED <<disk, backups, upd>> PROVE TrackInv'
  BY <1>1 DEF TrackInv
<1>2. CASE Tick
  BY <1>1, <1>2 DEF Tick
<1>3. CASE UNCHANGED vars
  BY <1>1, <1>3 DEF vars
<1>4. ASSUME NEW p \in Updaters, SnapshotFails(p) \/ RestoreFails(p) \/ Die(p) PROVE TrackInv'
  BY <1>4, OverTracked DEF SnapshotFails, RestoreFails, Die
<1> QED
  BY <1>2, <1>3, <1>4, BeginTracked, ProbePassesTracked, ProbeFailsTracked, CopyBeginsTracked,
     CopyEndsTracked, ReadChainTracked, LaunchTracked, CommandChangesTracked, CommandExitsTracked,
     TimesOutTracked, ReplaceTracked, RestoredTracked DEF Next

-----------------------------------------------------------------------------
(* Putting one more entry back leaves a Codex that works.                   *)
LEMMA RollbackKeeps ==
    ASSUME TrackInv, NEW p \in Updaters, Replace(p), ~ upd[p].disturbed, Healthy(disk), IsDisk(disk')
    PROVE  Healthy(disk')
<1> DEFINE x == upd[p]
           entry == Head(x.todo)
           h == entry.name
           was == x.was
           C == {h} \cup (Trail(was) \ Todo(x))
<1>1. x.pc = "restoring" /\ x.todo # <<>> /\ disk' = [disk EXCEPT ![h] = Made(x, entry)]
  BY DEF Replace, Puts
<1>2. /\ 1 \in DOMAIN x.todo /\ entry = x.todo[1] /\ entry \in Entries /\ h \in Todo(x)
      /\ Made(x, entry) = was[h]
      /\ entry.node = Missing => was[h][1] # "link"
      /\ entry.node # Missing => entry.node = was[h]
  BY <1>1, MadeIsWhatWas
<1>3. Restores(x, disk) /\ IsDisk(was) /\ Good(Live(was))
  BY <1>1 DEF TrackInv, Tracked, Copied
<1>4. h \in Trail(was) /\ Trail(was) \subseteq Names /\ ClosedIn(was, Trail(was))
  BY <1>2, <1>3, TrailFacts, TrailIsClosed DEF Restores
<1>5. disk'[h] = was[h] /\ \A n \in Names \ {h} : disk'[n] = disk[n]
  BY <1>1, <1>2, <1>4 DEF TrackInv, IsDisk
<1>6. C \subseteq Trail(was) /\ \A n \in C : disk'[n] = was[n]
  BY <1>2, <1>3, <1>4, <1>5 DEF Restores
<1>7. \A n \in C : was[n][1] = "link" => was[n][2] \notin Todo(x)
  <2>1. was[h][1] = "link" => was[h][2] \notin Todo(x)
    <3> SUFFICES ASSUME was[h][1] = "link" PROVE \A j \in DOMAIN x.todo : x.todo[j].name # was[h][2]
      BY DEF Todo
    <3>1. \A j \in DOMAIN x.todo : 1 <= j
      <4>1. x.todo \in Seq(Entries)
        BY DEF TrackInv, Typed
      <4> QED BY <4>1
    <3>2. x.todo[1].node # Missing /\ x.todo[1].node = was[h]
      BY <1>2
    <3> QED BY <1>2, <1>3, <3>1, <3>2 DEF Restores
  <2> QED BY <1>3, <2>1 DEF Restores
<1>8. ClosedIn(was, C)
  BY <1>4, <1>6, <1>7 DEF ClosedIn
<1> HIDE DEF C
<1>9. Trail(disk') \subseteq Names /\ "path" \in Trail(disk') /\ ClosedIn(disk', Trail(disk'))
  BY TrailFacts, TrailIsClosed
<1>10. CASE h \in Trail(disk')
  <2> DEFINE both == Trail(disk') \cap C
  <2>1. ClosedIn(was, both) /\ h \in both
    BY <1>6, <1>8, <1>9, <1>10 DEF ClosedIn, C
  <2>2. Resolved(was) \in both
    <3> HIDE DEF both
    <3> QED BY <1>4, <2>1, Reaches
  <2>3. disk'[Resolved(was)] = Live(was) /\ Live(was)[1] # "link"
    BY <1>3, <1>6, <2>2 DEF Live, Good, File
  <2>4. Resolved(disk') = Resolved(was)
    BY <2>2, <2>3, EndOfTrail
  <2>5. Live(disk') = Live(was)
    BY <2>3, <2>4 DEF Live
  <2> QED BY <1>3, <2>5, ContentFacts
<1>11. CASE h \notin Trail(disk')
  <2> DEFINE trail == Trail(disk')
  <2>1. \A n \in trail : disk'[n] = disk[n]
    BY <1>5, <1>9, <1>11
  <2>2. ClosedIn(disk, trail) /\ "path" \in Trail(disk)
    BY <1>9, <2>1, TrailFacts DEF ClosedIn, TrackInv
  <2>3. Resolved(disk) \in trail
    <3> HIDE DEF trail
    <3> QED BY <1>9, <2>2, Reaches DEF trail
  <2>4. disk'[Resolved(disk)] = Live(disk) /\ Good(Live(disk)) /\ Live(disk)[1] # "link"
    BY <2>1, <2>3, ContentFacts DEF Live, Good, File
  <2>5. Resolved(disk') = Resolved(disk)
    BY <2>3, <2>4, EndOfTrail
  <2>6. Live(disk') = Live(disk)
    BY <2>4, <2>5 DEF Live
  <2> QED BY <2>4, <2>6, ContentFacts
<1> QED BY <1>10, <1>11

(* What AnswerIsTrue says of the answer an updater gives.                   *)
Answered(p) ==
    CASE upd'[p].result = "refused" -> disk' = upd[p].was
      [] upd'[p].result = "updated" -> Healthy(disk')
      [] upd'[p].result = "rolled_back" -> \A n \in Trail(upd[p].was) : disk'[n] = upd[p].was[n]
      [] upd'[p].result = "error" -> Kept(p) = Live(upd[p].was)

(* The answer of an updater that is over.                                   *)
LEMMA OverResult ==
    ASSUME NEW pc, NEW result
    PROVE  Over(pc, result).pc = pc /\ Over(pc, result).result = result
BY DEF Over, Fresh

(* The answers are given by the last probe, or by a call that fails.        *)
LEMMA AnswerStep ==
    ASSUME IInv, TrackInv, Next, NEW p \in Updaters,
           Active(p), upd'[p].pc = "done", ~ upd[p].disturbed
    PROVE  Answered(p)
<1>0. Shape(upd) /\ upd[p].pc # "done" /\ Tracked(upd[p], disk, backups)
  BY DEF IInv, TrackInv, Active
<1>3. ASSUME NEW a \in Updaters, ProbePasses(a) PROVE Answered(p)
  <2> DEFINE first == upd[a].stage = "before" /\ upd[a].probes = 0
             u == [upd[a] EXCEPT !.version = IF first THEN Version(Live(disk)[2]) ELSE @]
             new == IF u.probes + 1 = ProbeSteps THEN After(u) ELSE [u EXCEPT !.probes = @ + 1]
  <2>1. /\ upd' = [upd EXCEPT ![a] = new] /\ UNCHANGED <<disk, backups>>
        /\ upd[a].pc = "probing" /\ Healthy(disk)
    BY <1>3 DEF ProbePasses
  <2>2. /\ DOMAIN u = DOMAIN Fresh /\ u.pc = "probing" /\ u.stage = upd[a].stage
    BY <1>0, <2>1 DEF Shape, Fresh
  <2>3. u.stage \in {"before", "candidate", "restored"}
    BY <2>1, <2>2 DEF IInv, Commanded
  <2> HIDE DEF u
  <2>4. a = p /\ upd'[p] = new /\ new.pc = "done"
    BY <1>0, <2>1 DEF Shape
  <2>5. new = After(u) /\ u.stage # "before"
    BY <2>2, <2>4 DEF After, Fresh
  <2> HIDE DEF new
  <2>6. CASE u.stage = "candidate"
    <3>1. upd'[p].result = "updated"
      BY <2>4, <2>5, <2>6, OverResult DEF After
    <3>2. Healthy(disk')
      BY <2>1
    <3> QED BY <3>1, <3>2 DEF Answered
  <2>7. CASE u.stage = "restored"
    <3>1. upd'[p].result = "rolled_back"
      BY <2>4, <2>5, <2>7, OverResult DEF After
    <3>2. \A n \in Trail(upd[p].was) : disk'[n] = upd[p].was[n]
      BY <1>0, <2>1, <2>2, <2>4, <2>7 DEF Tracked
    <3> QED BY <3>1, <3>2 DEF Answered
  <2> QED BY <2>3, <2>5, <2>6, <2>7
<1>4. ASSUME NEW a \in Updaters, ProbeFails(a) PROVE Answered(p)
  <2>1. /\ upd[a].pc = "probing" /\ UNCHANGED <<disk, backups>>
        /\ upd' = [upd EXCEPT ![a] =
             CASE upd[a].stage = "before" -> Over("done", "refused")
               [] upd[a].stage = "candidate" -> Restoring(upd[a])
               [] upd[a].stage = "restored" -> Over("done", "error")]
    BY <1>4 DEF ProbeFails
  <2>2. CASE upd[a].stage = "before"
    <3>1. a = p /\ upd'[p].result = "refused"
      BY <1>0, <2>1, <2>2, OverResult DEF Shape
    <3>2. disk' = upd[p].was
      BY <1>0, <2>1, <2>2, <3>1 DEF Tracked, Before
    <3> QED BY <3>1, <3>2 DEF Answered
  <2>3. CASE upd[a].stage = "candidate"
    <3>1. Restoring(upd[a]).pc = "restoring"
      BY <1>0 DEF Restoring, Shape, Fresh
    <3> QED BY <1>0, <2>1, <2>3, <3>1 DEF Shape
  <2>4. CASE upd[a].stage = "restored"
    <3>1. a = p /\ upd'[p].result = "error"
      BY <1>0, <2>1, <2>4, OverResult DEF Shape
    <3>2. Kept(p) = Live(upd[p].was)
      BY <1>0, <2>1, <2>4, <3>1 DEF Tracked, Copied, Kept
    <3> QED BY <3>1, <3>2 DEF Answered
  <2> QED BY <2>1, <2>2, <2>3, <2>4 DEF IInv, Commanded
<1>5. ASSUME NEW a \in Updaters, SnapshotFails(a) PROVE Answered(p)
  <2>1. /\ upd[a].pc \in {"resolving", "copying", "reading"} /\ UNCHANGED disk
        /\ upd' = [upd EXCEPT ![a] = Over("done", "refused")]
    BY <1>5 DEF SnapshotFails
  <2>2. a = p /\ upd'[p].result = "refused"
    BY <1>0, <2>1, OverResult DEF Shape
  <2>3. disk' = upd[p].was
    BY <1>0, <2>1, <2>2 DEF Tracked, Before
  <2> QED BY <2>2, <2>3 DEF Answered
<1>6. ASSUME NEW a \in Updaters, RestoreFails(a) PROVE Answered(p)
  <2>1. upd[a].pc = "restoring" /\ upd' = [upd EXCEPT ![a] = Over("done", "error")]
    BY <1>6 DEF RestoreFails
  <2>2. a = p /\ upd'[p].result = "error"
    BY <1>0, <2>1, OverResult DEF Shape
  <2>3. Kept(p) = Live(upd[p].was)
    BY <1>0, <2>1, <2>2 DEF Tracked, Copied, Kept
  <2> QED BY <2>2, <2>3 DEF Answered
(* The other steps give no answer.                                          *)
<1>7. ASSUME NEW a \in Updaters, NEW new, upd' = [upd EXCEPT ![a] = new], new.pc # "done"
      PROVE  FALSE
  BY <1>0, <1>7 DEF Shape
<1>8. ASSUME NEW a \in Updaters, Begin(a) PROVE FALSE
  <2> DEFINE new == [upd[a] EXCEPT !.pc = "probing", !.stage = "before", !.was = disk]
  <2>1. upd' = [upd EXCEPT ![a] = new]
    BY <1>0, <1>8 DEF Begin, Shape
  <2>2. new.pc = "probing"
    BY <1>0 DEF Shape, Fresh
  <2> HIDE DEF new
  <2> QED BY <1>7, <2>1, <2>2
<1>9. ASSUME NEW a \in Updaters, ReadChain(a) PROVE FALSE
  <2> DEFINE new == [upd[a] EXCEPT !.pc = "launching", !.chain = Chain(disk)]
  <2>1. upd' = [upd EXCEPT ![a] = new] /\ new.pc = "launching"
    BY <1>0, <1>9 DEF ReadChain, Shape, Fresh
  <2> HIDE DEF new
  <2> QED BY <1>7, <2>1
<1>10. ASSUME NEW a \in Updaters, Launch(a) PROVE FALSE
  <2> DEFINE new == [upd[a] EXCEPT !.pc = "waiting"]
  <2>1. upd' = [upd EXCEPT ![a] = new] /\ new.pc = "waiting"
    BY <1>0, <1>10 DEF Launch, Shape, Fresh
  <2> HIDE DEF new
  <2> QED BY <1>7, <2>1
<1>11. ASSUME NEW a \in Updaters, upd' = [upd EXCEPT ![a] = Restoring(upd[a])] PROVE FALSE
  <2>1. Restoring(upd[a]).pc = "restoring"
    BY <1>0 DEF Restoring, Shape, Fresh
  <2> QED BY <1>0, <1>11, <2>1 DEF Shape
<1>12. ASSUME NEW a \in Updaters, NEW code \in {0, 1}, CommandExits(a, code) PROVE FALSE
  <2> DEFINE new == [upd[a] EXCEPT !.pc = "probing", !.stage = "candidate"]
  <2>1. upd' = [upd EXCEPT ![a] = Restoring(upd[a])] \/ upd' = [upd EXCEPT ![a] = new]
    BY <1>12 DEF CommandExits
  <2>2. new.pc = "probing"
    BY <1>0 DEF Shape, Fresh
  <2> HIDE DEF new
  <2> QED BY <1>7, <1>11, <2>1, <2>2
<1>13. ASSUME NEW a \in Updaters, Restored(a) PROVE FALSE
  <2> DEFINE new == [upd[a] EXCEPT !.pc = "probing", !.stage = "restored"]
  <2>1. upd' = [upd EXCEPT ![a] = new] /\ new.pc = "probing"
    BY <1>0, <1>13 DEF Restored, Shape, Fresh
  <2> HIDE DEF new
  <2> QED BY <1>7, <2>1
<1>14. ASSUME NEW a \in Updaters, Die(a) PROVE FALSE
  <2>1. upd' = [upd EXCEPT ![a] = Over("dead", "none")]
    BY <1>14 DEF Die
  <2> QED BY <1>0, <2>1, OverResult DEF Shape
<1>15. ASSUME NEW u, NEW hit, upd' = Disturbed(u, hit), Shape(u), u[p].pc = upd[p].pc \/ u[p].pc # "done"
       PROVE  FALSE
  BY <1>0, <1>15, DisturbedIsHistory DEF Alike
<1>16. ASSUME NEW a \in Updaters, CopyBegins(a) PROVE FALSE
  <2> DEFINE u == [upd EXCEPT ![a].pc = "copying", ![a].name = BackupName(upd[a].version),
                              ![a].version = "unknown", ![a].resolved = Resolved(disk),
                              ![a].seen = Live(disk)]
  <2>1. upd' = Disturbed(u, Sharing(a, BackupName(upd[a].version)))
    BY <1>16 DEF CopyBegins
  <2>2. Shape(u) /\ (u[p].pc = upd[p].pc \/ u[p].pc # "done")
    BY <1>0 DEF Shape, Fresh
  <2> HIDE DEF u
  <2> QED BY <1>15, <2>1, <2>2
<1>17. ASSUME NEW a \in Updaters, CopyEnds(a) PROVE FALSE
  <2> DEFINE u == [upd EXCEPT ![a].pc = "reading", ![a].seen = Missing]
  <2>1. upd' = Disturbed(u, Sharing(a, upd[a].name))
    BY <1>17 DEF CopyEnds
  <2>2. Shape(u) /\ (u[p].pc = upd[p].pc \/ u[p].pc # "done")
    BY <1>0 DEF Shape, Fresh
  <2> HIDE DEF u
  <2> QED BY <1>15, <2>1, <2>2
<1>18. ASSUME NEW a \in Updaters, Replace(a) PROVE FALSE
  <2> DEFINE u == [upd EXCEPT ![a].todo = Tail(@)]
  <2>1. upd' = Disturbed(u, Updaters \ {a})
    BY <1>18 DEF Replace, Puts
  <2>2. Shape(u) /\ (u[p].pc = upd[p].pc \/ u[p].pc # "done")
    BY <1>0 DEF Shape, Fresh
  <2> HIDE DEF u
  <2> QED BY <1>15, <2>1, <2>2
<1>19. ASSUME NEW a \in Updaters, NEW change \in Changes, CommandChanges(a, change) PROVE FALSE
  BY <1>0, <1>15, <1>19 DEF CommandChanges
<1>20. ~ Tick
  BY <1>0 DEF Tick
<1> QED
  BY <1>3, <1>4, <1>5, <1>6, <1>8, <1>9, <1>10, <1>11, <1>12, <1>13, <1>14, <1>16, <1>17, <1>18,
     <1>19, <1>20 DEF Next, TimesOut

-----------------------------------------------------------------------------
(* Putting binary and links back never breaks a Codex that works, whichever *)
(* of them the rollback is at: one that dies there leaves a working one, or *)
(* what the command had broken.                                             *)
THEOREM RollbacksNeverBreak == Spec => RollbackNeverBreaks
<1>1. ASSUME IInv, TrackInv, [Next]_vars
      PROVE  [ \A p \in Updaters : Replace(p) /\ ~upd[p].disturbed /\ Healthy(disk) => Healthy(disk') ]_vars
  <2>1. IsDisk(disk')
    BY <1>1, StepTrack DEF TrackInv
  <2> QED BY <1>1, <2>1, RollbackKeeps
<1> QED BY <1>1, InitIInv, StepIInv, InitTrack, StepTrack, PTL DEF Spec, RollbackNeverBreaks

(* What an update answers that no other process disturbed is so: refused,   *)
(* it changed nothing; updated, Codex works; rolled back, binary and links  *)
(* are what they were; an error leaves the Codex it began with in its       *)
(* backup.                                                                  *)
THEOREM AnswersAreTrue == Spec => AnswerIsTrue
<1>1. ASSUME IInv, TrackInv, [Next]_vars
      PROVE  [ \A p \in Updaters : Active(p) /\ upd'[p].pc = "done" /\ ~upd[p].disturbed =>
                 CASE upd'[p].result = "refused" -> disk' = upd[p].was
                   [] upd'[p].result = "updated" -> Healthy(disk')
                   [] upd'[p].result = "rolled_back" ->
                        \A n \in {Walk(upd[p].was)[k] : k \in 0 .. Cardinality(Names)} :
                          disk'[n] = upd[p].was[n]
                   [] upd'[p].result = "error" -> Kept(p) = Live(upd[p].was) ]_vars
  <2>1. CASE Next
    BY <1>1, <2>1, AnswerStep DEF Answered, Trail, N
  <2>2. CASE UNCHANGED vars
    BY <2>2
  <2> QED BY <1>1, <2>1, <2>2
<1> QED BY <1>1, InitIInv, StepIInv, InitTrack, StepTrack, PTL DEF Spec, AnswerIsTrue
=============================================================================
