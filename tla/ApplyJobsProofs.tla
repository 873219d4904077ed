-------------------------- MODULE ApplyJobsProofs --------------------------
(***************************************************************************)
(* Theorems about ApplyJobs, for every value of its constants: the types,   *)
(* that one server process runs at most one apply, that the running one can *)
(* be polled, that an apply executes nothing the user did not approve, and  *)
(* that a successful poll is true.                                          *)
(***************************************************************************)
EXTENDS ApplyJobs, NaturalsInduction, WellFoundedInduction, SequenceTheorems, TLAPS

(* Every non-empty set of naturals has a least element. *)
LEMMA LeastElement ==
    ASSUME NEW S \in SUBSET Nat, S # {}
    PROVE  \E m \in S : \A k \in S : m <= k
<1>1. PICK m \in S : \A k \in S : <<k, m>> \notin OpToRel(<, Nat)
  BY NatLessThanWellFounded, WFMin
<1>2. ASSUME NEW k \in S PROVE m <= k
  <2>1. k \in Nat /\ m \in Nat /\ ~(k < m)
    BY <1>1 DEF OpToRel
  <2> QED BY <2>1
<1> QED BY <1>2

(* The eviction loop leaves a sequence of job ids in which the running job, *)
(* appended last, still occurs.                                             *)
LEMMA RetainKeepsLast ==
  ASSUME NEW o \in Seq(JobIds), o # <<>>, NEW act \in JobIds, act = o[Len(o)]
  PROVE  /\ Retain(o, act, FALSE) \in Seq(JobIds)
         /\ \E n \in DOMAIN Retain(o, act, FALSE) : Retain(o, act, FALSE)[n] = act
<1> DEFINE fits(i) == (o[i] = act /\ ~FALSE) \/ Len(o) - i < MaxRetained
           good(i) == fits(i) /\ \A k \in 1..(i - 1) : ~fits(k)
           first   == CHOOSE i \in 1..Len(o) : good(i)
           S       == {i \in 1..Len(o) : fits(i)}
<1>1. Len(o) \in Nat /\ Len(o) >= 1
  OBVIOUS
<1>2. fits(Len(o))
  OBVIOUS
<1>3. \E i \in 1..Len(o) : good(i)
  <2>1. S \in SUBSET Nat /\ S # {}
    BY <1>1, <1>2
  <2>2. PICK m \in S : \A k \in S : m <= k
    <3> HIDE DEF S
    <3> QED BY <2>1, LeastElement
  <2>3. m \in 1..Len(o) /\ fits(m)
    BY <2>2
  <2>4. ASSUME NEW k \in 1..(m - 1), fits(k) PROVE FALSE
    <3>1. k \in S
      BY <2>3, <2>4, <1>1
    <3> QED BY <3>1, <2>2, <2>3, <2>4
  <2> QED BY <2>3, <2>4
<1>4. first \in 1..Len(o)
  <2> HIDE DEF good
  <2> QED BY <1>3
<1>5. Retain(o, act, FALSE) = SubSeq(o, first, Len(o))
  BY DEF Retain
<1>6. \A i \in first..Len(o) : o[i] \in JobIds
  BY <1>1, <1>4
<1>7. /\ SubSeq(o, first, Len(o)) \in Seq(JobIds)
      /\ Len(SubSeq(o, first, Len(o))) = Len(o) - first + 1
      /\ \A i \in 1..(Len(o) - first + 1) : SubSeq(o, first, Len(o))[i] = o[first + i - 1]
  <2> HIDE DEF first
  <2> QED BY <1>1, <1>4, <1>6, SubSeqProperties
<1>8. SubSeq(o, first, Len(o))[Len(o) - first + 1] = act
  <2> HIDE DEF first
  <2> QED BY <1>1, <1>4, <1>7
<1> QED
  <2> HIDE DEF first
  <2> DEFINE r == SubSeq(o, first, Len(o))
             n == Len(o) - first + 1
  <2>1. r \in Seq(JobIds) /\ n \in 1..Len(r) /\ r[n] = act
    BY <1>1, <1>4, <1>7, <1>8
  <2>2. DOMAIN r = 1..Len(r)
    BY <2>1
  <2> HIDE DEF r, n
  <2>3. r \in Seq(JobIds) /\ \E k \in DOMAIN r : r[k] = act
    BY <2>1, <2>2
  <2> QED BY <1>5, <2>3 DEF r
-----------------------------------------------------------------------------
(* The inductive invariant *)

Clean(rows) == \A k \in Keys : rows[k] \in {"absent", "applied", "skipped"}

(* A running job is the active one, known to the store and not done.        *)
FlightInv ==
  \A j \in JobIds : InFlight(j) => j = active /\ j \in jobs /\ ~job[j].done

(* What ran was approved, and so is what a running job still has to do.     *)
ApprovedInv ==
  \A j \in JobIds :
    /\ ran[j] \subseteq approved[j]
    /\ thread[j] = "none" => ran[j] = {}
    /\ InFlight(j) => \A i \in job[j].todo : Effect(job[j].plan, i) \in approved[j]

(* An unfinished row belongs to an action still to do, until run_plan       *)
(* returns; from then on a job without an error has clean rows.             *)
RowsInv ==
  \A j \in JobIds :
    /\ thread[j] \in {"spawned", "dispatching", "reporting"} =>
         \A k \in Keys : job[j].rows[k] \in {"queued", "running"} =>
           \E i \in job[j].todo : job[j].plan.actions[i].key = k
    /\ thread[j] = "reporting" => job[j].todo = {}
    /\ thread[j] = "closing" => job[j].error \/ Clean(job[j].rows)
    /\ job[j].done => thread[j] = "finished" /\ (job[j].error \/ Clean(job[j].rows))

(* A poll that read done = True reads a job that no longer changes.         *)
PollInv ==
  poll # None /\ poll.done =>
    /\ job[poll.id].done
    /\ poll.step # "error" /\ ~poll.error => ~job[poll.id].error
    /\ poll.step = "send" /\ ~poll.error => Clean(poll.rows)

IInv == TypeOK /\ FlightInv /\ ApprovedInv /\ RowsInv /\ PollInv

-----------------------------------------------------------------------------
LEMMA InitIInv == Init => IInv
<1> SUFFICES ASSUME Init PROVE IInv
  OBVIOUS
<1>1. TypeOK
  BY DEF Init, TypeOK, InFlight, Alive, Unborn, JobType, RowStatus
<1>2. FlightInv /\ ApprovedInv
  BY DEF Init, FlightInv, ApprovedInv, InFlight, Alive
<1>3. RowsInv /\ PollInv
  BY DEF Init, RowsInv, PollInv, Unborn
<1> QED BY <1>1, <1>2, <1>3 DEF IInv

(* A started job: its positions are positions of its plan, and its queued   *)
(* rows are the rows of those positions.                                    *)
LEMMA NewJobFacts ==
  ASSUME NEW plan \in Plans, NEW skip \in SUBSET Keys
  PROVE  LET new == NewJob(plan, skip) IN
         /\ new \in JobType
         /\ new.plan = plan
         /\ new.todo = {i \in DOMAIN plan.actions : plan.actions[i].key \notin skip}
         /\ ~new.done
         /\ \A k \in Keys : new.rows[k] \in {"queued", "running"} =>
              \E i \in new.todo : plan.actions[i].key = k
<1> DEFINE new == NewJob(plan, skip)
<1>1. DOMAIN plan.actions \subseteq Nat
  BY DEF Plans
<1>2. new.rows \in [Keys -> RowStatus]
  BY DEF NewJob, RowStatus
<1>3. new \in JobType
  BY <1>1, <1>2 DEF NewJob, JobType
<1>4. ASSUME NEW k \in Keys, new.rows[k] \in {"queued", "running"}
      PROVE  \E i \in new.todo : plan.actions[i].key = k
  <2>1. k \in KeysOf(plan) /\ k \notin skip
    BY <1>4 DEF NewJob
  <2>2. PICK i \in DOMAIN plan.actions : plan.actions[i].key = k
    BY <2>1 DEF KeysOf, Listed
  <2> QED BY <2>1, <2>2 DEF NewJob
<1> QED BY <1>3, <1>4 DEF NewJob

(* What an action of a plan does is a pair of an action and a policy.       *)
LEMMA EffectType ==
  ASSUME NEW plan \in Plans
  PROVE  /\ \A i \in DOMAIN plan.actions : Effect(plan, i) \in Actions \X Policies
         /\ \A skip : Effects(plan, skip) \in SUBSET (Actions \X Policies)
<1>1. \A i \in DOMAIN plan.actions : Effect(plan, i) \in Actions \X Policies
  BY DEF Plans, Effect
<1> QED BY <1>1 DEF Effects

(* What a thread writes into a row keeps the type of the job.               *)
LEMMA SetRowType ==
  ASSUME TypeOK, NEW j \in JobIds, InFlight(j), NEW i \in job[j].todo,
         NEW status \in RowStatus
  PROVE  /\ job[j].plan.actions[i].key \in Keys
         /\ SetRow(j, i, status) \in [Keys -> RowStatus]
<1>1. job[j].plan \in Plans /\ i \in DOMAIN job[j].plan.actions
  BY DEF TypeOK
<1>2. job[j].plan.actions[i] \in Actions
  BY <1>1 DEF Plans
<1>3. job[j].rows \in [Keys -> RowStatus]
  BY DEF TypeOK, JobType
<1> QED BY <1>2, <1>3, PlansAssumption DEF SetRow

LEMMA StartIInv ==
  ASSUME IInv, NEW t \in Tabs, NEW j \in JobIds, NEW skip \in SUBSET Keys,
         Start(t, j, skip)
  PROVE  IInv'
<1> DEFINE plan == PlanOf[config]
           o    == Append(order, j)
           kept == Retain(o, j, FALSE)
<1> USE DEF IInv
<1>1. plan \in Plans
  BY PlansAssumption DEF TypeOK
<1>2. o \in Seq(JobIds) /\ o # <<>> /\ o[Len(o)] = j
  BY DEF TypeOK
<1>3. kept \in Seq(JobIds) /\ \E n \in DOMAIN kept : kept[n] = j
  BY <1>2, RetainKeepsLast
<1>4. \A i \in JobIds : ~InFlight(i)
  BY DEF Start, Busy, FlightInv
<1>5. /\ job' = [job EXCEPT ![j] = NewJob(plan, skip)]
      /\ thread' = [thread EXCEPT ![j] = "spawned"]
      /\ order' = kept /\ active' = j
      /\ jobs' = {i \in jobs \cup {j} : \E n \in DOMAIN kept : kept[n] = i}
      /\ approved' = [approved EXCEPT ![j] = Effects(shown[t], skip)]
      /\ poll = None /\ poll' = None
      /\ ran' = ran /\ shown' = shown /\ config' = config
      /\ thread[j] = "none"
  BY DEF Start
<1> HIDE DEF plan, o, kept
<1>6. /\ NewJob(plan, skip) \in JobType
      /\ NewJob(plan, skip).plan = plan
      /\ NewJob(plan, skip).todo = {i \in DOMAIN plan.actions : plan.actions[i].key \notin skip}
      /\ ~NewJob(plan, skip).done
      /\ \A k \in Keys : NewJob(plan, skip).rows[k] \in {"queued", "running"} =>
           \E i \in NewJob(plan, skip).todo : plan.actions[i].key = k
  BY <1>1, NewJobFacts
<1>7. /\ job'[j] = NewJob(plan, skip)
      /\ \A i \in JobIds \ {j} : job'[i] = job[i] /\ thread'[i] = thread[i]
      /\ thread'[j] = "spawned"
  BY <1>5 DEF TypeOK
<1>8. \A i \in JobIds : InFlight(i)' => i = j
  BY <1>4, <1>7 DEF InFlight
<1>9. TypeOK'
  <2>1. job' \in [JobIds -> JobType]
    BY <1>5, <1>6 DEF TypeOK
  <2>2. thread' \in [JobIds -> Alive \cup {"none", "finished", "killed"}]
    BY <1>5 DEF TypeOK, Alive
  <2>3. \A i \in JobIds : InFlight(i)' =>
          job'[i].plan \in Plans /\ job'[i].todo \subseteq DOMAIN job'[i].plan.actions
    BY <1>1, <1>6, <1>7, <1>8
  <2>4. approved' \in [JobIds -> SUBSET (Actions \X Policies)]
    <3>1. shown[t] \in Plans
      BY DEF Start, TypeOK
    <3> QED BY <3>1, <1>5, EffectType DEF TypeOK
  <2> QED BY <2>1, <2>2, <2>3, <2>4, <1>3, <1>5 DEF TypeOK
<1>10. FlightInv'
  BY <1>3, <1>5, <1>6, <1>7, <1>8 DEF FlightInv
<1>11. ApprovedInv'
  <2>1. /\ approved'[j] = Effects(shown[t], skip)
        /\ \A i \in JobIds \ {j} : approved'[i] = approved[i]
        /\ ran[j] = {}
    BY <1>5 DEF TypeOK, ApprovedInv
  <2>2. shown[t] \in Plans /\ Fingerprint(plan) = Fingerprint(shown[t])
    BY DEF Start, Accepted, TypeOK, plan
  <2>3. shown[t].actions = plan.actions /\ shown[t].on_conflict = plan.on_conflict
    BY <2>2 DEF Fingerprint
  <2>4. \A i \in NewJob(plan, skip).todo : Effect(plan, i) \in Effects(shown[t], skip)
    BY <1>6, <2>3 DEF Effect, Effects
  <2> QED BY <1>5, <1>6, <1>7, <1>8, <2>1, <2>4 DEF ApprovedInv
<1>12. RowsInv'
  BY <1>6, <1>7 DEF RowsInv
<1>13. PollInv'
  BY <1>5 DEF PollInv
<1> QED BY <1>9, <1>10, <1>11, <1>12, <1>13

(* A thread step of a running job j keeps the invariant when it keeps the   *)
(* plan of j, sets its done flag only when it finishes, and leaves every    *)
(* other job alone: what remains to show is what it does to j's own rows,   *)
(* remaining actions and effects.                                           *)
LEMMA ThreadStepIInv ==
  ASSUME IInv, NEW j \in JobIds, InFlight(j),
         job' \in [JobIds -> JobType],
         thread' \in [JobIds -> Alive \cup {"none", "finished", "killed"}],
         \A i \in JobIds \ {j} :
           job'[i] = job[i] /\ thread'[i] = thread[i] /\ ran'[i] = ran[i],
         UNCHANGED <<config, shown, store, poll, approved>>,
         ran' \in [JobIds -> SUBSET (Actions \X Policies)],
         job'[j].plan = job[j].plan, job'[j].todo \subseteq job[j].todo,
         ran'[j] \subseteq approved[j],
         thread'[j] # "none",
         InFlight(j)' => ~job'[j].done,
         RowsInv'
  PROVE  IInv'
<1> USE DEF IInv
<1>1. TypeOK'
  <2>1. ASSUME NEW i \in JobIds, InFlight(i)'
        PROVE  job'[i].plan \in Plans /\ job'[i].todo \subseteq DOMAIN job'[i].plan.actions
    <3>1. CASE i = j
      BY <3>1 DEF TypeOK
    <3>2. CASE i # j
      BY <2>1, <3>2 DEF TypeOK, InFlight
    <3> QED BY <3>1, <3>2
  <2> QED BY <2>1 DEF TypeOK, store
<1>2. FlightInv'
  <2>1. ASSUME NEW i \in JobIds, InFlight(i)'
        PROVE  i = active' /\ i \in jobs' /\ ~job'[i].done
    <3>1. CASE i = j
      BY <2>1, <3>1 DEF FlightInv, store
    <3>2. CASE i # j
      BY <2>1, <3>2 DEF FlightInv, InFlight, store
    <3> QED BY <3>1, <3>2
  <2> QED BY <2>1 DEF FlightInv
<1>3. ApprovedInv'
  <2>1. ASSUME NEW i \in JobIds
        PROVE  /\ ran'[i] \subseteq approved'[i]
               /\ thread'[i] = "none" => ran'[i] = {}
               /\ InFlight(i)' =>
                    \A n \in job'[i].todo : Effect(job'[i].plan, n) \in approved'[i]
    <3>1. CASE i = j
      BY <3>1 DEF ApprovedInv
    <3>2. CASE i # j
      BY <3>2 DEF ApprovedInv, InFlight
    <3> QED BY <3>1, <3>2
  <2> QED BY <2>1 DEF ApprovedInv
<1>4. PollInv'
  <2>1. poll = None \/ poll \in PollType
    BY DEF TypeOK
  <2>2. ASSUME poll # None, poll.done
        PROVE  poll.id # j /\ job'[poll.id] = job[poll.id]
    <3>1. poll.id \in JobIds /\ job[poll.id].done
      BY <2>1, <2>2 DEF PollType, PollInv
    <3> QED BY <3>1 DEF FlightInv
  <2> QED BY <2>2 DEF PollInv
<1> QED BY <1>1, <1>2, <1>3, <1>4

(* Only the rows of j change, and only as RowsInv allows.                   *)
LEMMA OthersKeepRows ==
  ASSUME RowsInv, NEW j \in JobIds,
         \A i \in JobIds \ {j} : job'[i] = job[i] /\ thread'[i] = thread[i],
         thread'[j] \in {"spawned", "dispatching", "reporting"} =>
           \A k \in Keys : job'[j].rows[k] \in {"queued", "running"} =>
             \E i \in job'[j].todo : job'[j].plan.actions[i].key = k,
         thread'[j] = "reporting" => job'[j].todo = {},
         thread'[j] = "closing" => job'[j].error \/ Clean(job'[j].rows),
         job'[j].done => thread'[j] = "finished" /\ (job'[j].error \/ Clean(job'[j].rows))
  PROVE  RowsInv'
<1>1. ASSUME NEW i \in JobIds
      PROVE
    /\ thread'[i] \in {"spawned", "dispatching", "reporting"} =>
         \A k \in Keys : job'[i].rows[k] \in {"queued", "running"} =>
           \E n \in job'[i].todo : job'[i].plan.actions[n].key = k
    /\ thread'[i] = "reporting" => job'[i].todo = {}
    /\ thread'[i] = "closing" => job'[i].error \/ Clean(job'[i].rows)
    /\ job'[i].done => thread'[i] = "finished" /\ (job'[i].error \/ Clean(job'[i].rows))
  <2>1. CASE i = j
    BY <2>1
  <2>2. CASE i # j
    BY <2>2 DEF RowsInv
  <2> QED BY <2>1, <2>2
<1> QED BY <1>1 DEF RowsInv

LEMMA OnStartIInv ==
  ASSUME IInv, NEW j \in JobIds, NEW i \in job[j].todo, OnStart(j, i)
  PROVE  IInv'
<1> DEFINE rows == SetRow(j, i, "running")
           key  == job[j].plan.actions[i].key
<1>1. InFlight(j) /\ TypeOK /\ RowsInv /\ FlightInv /\ ApprovedInv
  BY DEF IInv, OnStart, InFlight, Alive
<1>2. key \in Keys /\ rows \in [Keys -> RowStatus]
  BY <1>1, SetRowType DEF RowStatus
<1>3. /\ job' = [job EXCEPT ![j].rows = rows]
      /\ thread' = [thread EXCEPT ![j] = "dispatching"]
      /\ thread[j] = "spawned"
      /\ UNCHANGED <<config, shown, store, poll, approved, ran>>
  BY DEF OnStart
<1>4. job[j] \in JobType
  BY <1>1 DEF TypeOK
<1>5. rows = [job[j].rows EXCEPT ![key] = "running"]
  BY DEF SetRow
<1> HIDE DEF rows, key
<1>6. /\ job'[j] = [job[j] EXCEPT !.rows = rows]
      /\ thread'[j] = "dispatching"
      /\ \A n \in JobIds \ {j} : job'[n] = job[n] /\ thread'[n] = thread[n] /\ ran'[n] = ran[n]
  BY <1>1, <1>3 DEF TypeOK
<1>7. job'[j] \in JobType
  BY <1>2, <1>4, <1>6 DEF JobType
<1>8. /\ job'[j].rows = rows /\ job'[j].plan = job[j].plan /\ job'[j].todo = job[j].todo
      /\ job'[j].done = job[j].done
  BY <1>4, <1>6 DEF JobType
<1>9. /\ job' \in [JobIds -> JobType]
      /\ thread' \in [JobIds -> Alive \cup {"none", "finished", "killed"}]
  BY <1>1, <1>3, <1>6, <1>7 DEF TypeOK, Alive
<1>10. ASSUME NEW k \in Keys, rows[k] \in {"queued", "running"}
       PROVE  \E n \in job[j].todo : job[j].plan.actions[n].key = k
  <2>1. CASE k = key
    BY <2>1 DEF key
  <2>2. CASE k # key
    <3>1. rows[k] = job[j].rows[k]
      BY <2>2, <1>4, <1>5 DEF JobType
    <3> QED BY <3>1, <1>1, <1>3, <1>10 DEF RowsInv
  <2> QED BY <2>1, <2>2
<1>11. ~job[j].done
  BY <1>1 DEF FlightInv
<1>12. RowsInv'
  <2>1. thread'[j] \in {"spawned", "dispatching", "reporting"} =>
          \A k \in Keys : job'[j].rows[k] \in {"queued", "running"} =>
            \E n \in job'[j].todo : job'[j].plan.actions[n].key = k
    BY <1>8, <1>10
  <2> QED BY <2>1, <1>1, <1>6, <1>8, <1>11, OthersKeepRows
<1>13. ran'[j] \subseteq approved[j] /\ ran' \in [JobIds -> SUBSET (Actions \X Policies)]
  BY <1>1, <1>3 DEF ApprovedInv, TypeOK
<1> QED BY <1>1, <1>3, <1>6, <1>8, <1>9, <1>11, <1>12, <1>13, ThreadStepIInv

LEMMA DispatchIInv ==
  ASSUME IInv, NEW j \in JobIds, NEW i \in job[j].todo, NEW status \in RowStatus,
         Dispatch(j, i, status)
  PROVE  IInv'
<1> DEFINE rows == SetRow(j, i, status)
           key  == job[j].plan.actions[i].key
<1>1. InFlight(j) /\ TypeOK /\ RowsInv /\ FlightInv /\ ApprovedInv
  BY DEF IInv, Dispatch, InFlight, Alive
<1>2. key \in Keys /\ rows \in [Keys -> RowStatus]
  BY <1>1, SetRowType
<1>3. /\ job' = [job EXCEPT ![j].rows = rows, ![j].todo = @ \ {i}]
      /\ thread' = [thread EXCEPT ![j] = "spawned"]
      /\ ran' = [ran EXCEPT ![j] = @ \cup {Effect(job[j].plan, i)}]
      /\ thread[j] = "dispatching"
      /\ status \in {"applied", "skipped", "error"}
      /\ UNCHANGED <<config, shown, store, poll, approved>>
  BY DEF Dispatch
<1>4. job[j] \in JobType
  BY <1>1 DEF TypeOK
<1>5. rows = [job[j].rows EXCEPT ![key] = status]
  BY DEF SetRow
<1>6. /\ Effect(job[j].plan, i) \in approved[j]
      /\ Effect(job[j].plan, i) \in Actions \X Policies
  BY <1>1, EffectType DEF ApprovedInv, TypeOK
<1> HIDE DEF rows, key
<1>7. /\ job'[j] = [job[j] EXCEPT !.rows = rows, !.todo = @ \ {i}]
      /\ thread'[j] = "spawned"
      /\ \A n \in JobIds \ {j} : job'[n] = job[n] /\ thread'[n] = thread[n] /\ ran'[n] = ran[n]
  BY <1>1, <1>3 DEF TypeOK
<1>8. job'[j] \in JobType
  BY <1>2, <1>4, <1>7 DEF JobType
<1>9. /\ job'[j].rows = rows /\ job'[j].plan = job[j].plan
      /\ job'[j].todo = job[j].todo \ {i} /\ job'[j].done = job[j].done
  BY <1>4, <1>7 DEF JobType
<1>10. /\ job' \in [JobIds -> JobType]
       /\ thread' \in [JobIds -> Alive \cup {"none", "finished", "killed"}]
  BY <1>1, <1>3, <1>7, <1>8 DEF TypeOK, Alive
<1>11. ASSUME NEW k \in Keys, rows[k] \in {"queued", "running"}
       PROVE  \E n \in job[j].todo \ {i} : job[j].plan.actions[n].key = k
  <2>1. k # key /\ rows[k] = job[j].rows[k]
    BY <1>2, <1>3, <1>4, <1>5, <1>11 DEF JobType
  <2>2. PICK n \in job[j].todo : job[j].plan.actions[n].key = k
    BY <2>1, <1>1, <1>3, <1>11 DEF RowsInv
  <2> QED BY <2>1, <2>2 DEF key
<1>12. ~job[j].done
  BY <1>1 DEF FlightInv
<1>13. RowsInv'
  <2>1. thread'[j] \in {"spawned", "dispatching", "reporting"} =>
          \A k \in Keys : job'[j].rows[k] \in {"queued", "running"} =>
            \E n \in job'[j].todo : job'[j].plan.actions[n].key = k
    BY <1>9, <1>11
  <2> QED BY <2>1, <1>1, <1>7, <1>9, <1>12, OthersKeepRows
<1>14. ran'[j] \subseteq approved[j] /\ ran' \in [JobIds -> SUBSET (Actions \X Policies)]
  <2>1. ran[j] \subseteq approved[j] /\ ran \in [JobIds -> SUBSET (Actions \X Policies)]
    BY <1>1 DEF ApprovedInv, TypeOK
  <2> QED BY <2>1, <1>3, <1>6
<1> QED BY <1>1, <1>3, <1>7, <1>9, <1>10, <1>12, <1>13, <1>14, ThreadStepIInv

(* The steps that write neither rows nor history.                           *)
LEMMA ClosingStepsIInv ==
  ASSUME IInv, NEW j \in JobIds,
         RunPlanReturns(j) \/ ReportErrors(j) \/ RunPlanRaises(j) \/ Finish(j)
  PROVE  IInv'
<1>1. /\ InFlight(j) /\ TypeOK /\ RowsInv /\ FlightInv /\ ApprovedInv
      /\ UNCHANGED <<config, shown, store, poll, approved>>
      /\ ran' = ran
  BY DEF IInv, RunPlanReturns, ReportErrors, RunPlanRaises, Finish, InFlight, Alive
<1>2. job[j] \in JobType /\ ~job[j].done
  BY <1>1 DEF TypeOK, FlightInv
<1>3. ran'[j] \subseteq approved[j] /\ ran' \in [JobIds -> SUBSET (Actions \X Policies)]
  BY <1>1 DEF ApprovedInv, TypeOK
<1> DEFINE Moves ==
      /\ job' \in [JobIds -> JobType]
      /\ thread' \in [JobIds -> Alive \cup {"none", "finished", "killed"}]
      /\ \A n \in JobIds \ {j} : job'[n] = job[n] /\ thread'[n] = thread[n] /\ ran'[n] = ran[n]
      /\ job'[j].plan = job[j].plan /\ job'[j].todo = job[j].todo
      /\ job'[j].rows = job[j].rows
      /\ thread'[j] # "none"
      /\ InFlight(j)' => ~job'[j].done
<1>4. CASE RunPlanReturns(j)
  <2>1. /\ job' = job /\ thread' = [thread EXCEPT ![j] = "reporting"]
        /\ thread[j] = "spawned" /\ job[j].todo = {}
    BY <1>4 DEF RunPlanReturns
  <2>2. thread'[j] = "reporting" /\ \A n \in JobIds \ {j} : thread'[n] = thread[n]
    BY <2>1, <1>1 DEF TypeOK
  <2>3. Moves
    BY <2>1, <2>2, <1>1, <1>2 DEF TypeOK, Alive
  <2>4. RowsInv'
    <3>1. \A k \in Keys : job[j].rows[k] \in {"queued", "running"} =>
            \E n \in job[j].todo : job[j].plan.actions[n].key = k
      BY <2>1, <1>1 DEF RowsInv
    <3> QED BY <3>1, <2>1, <2>2, <1>1, <1>2, OthersKeepRows
  <2> QED BY <2>3, <2>4, <1>1, <1>3, ThreadStepIInv
<1>5. CASE ReportErrors(j)
  <2> DEFINE err == \E k \in Keys : job[j].rows[k] = "error"
  <2>1. /\ job' = [job EXCEPT ![j].error = err] /\ thread' = [thread EXCEPT ![j] = "closing"]
        /\ thread[j] = "reporting"
    BY <1>5 DEF ReportErrors
  <2>2. err \in BOOLEAN /\ (err \/ Clean(job[j].rows))
    <3>1. job[j].rows \in [Keys -> RowStatus]
      BY <1>2 DEF JobType
    <3>2. \A k \in Keys : job[j].rows[k] \notin {"queued", "running"}
      BY <2>1, <1>1 DEF RowsInv
    <3> QED BY <3>1, <3>2 DEF Clean, RowStatus
  <2> HIDE DEF err
  <2>3. /\ job'[j] = [job[j] EXCEPT !.error = err] /\ thread'[j] = "closing"
        /\ \A n \in JobIds \ {j} : job'[n] = job[n] /\ thread'[n] = thread[n]
    BY <2>1, <1>1 DEF TypeOK
  <2>4. /\ job'[j] \in JobType /\ job'[j].error = err /\ job'[j].done = job[j].done
        /\ job'[j].rows = job[j].rows /\ job'[j].plan = job[j].plan /\ job'[j].todo = job[j].todo
    BY <2>2, <2>3, <1>2 DEF JobType
  <2>5. Moves
    BY <2>1, <2>3, <2>4, <1>1, <1>2 DEF TypeOK, Alive
  <2>6. RowsInv'
    BY <2>2, <2>3, <2>4, <1>1, <1>2, OthersKeepRows
  <2> QED BY <2>5, <2>6, <1>1, <1>3, ThreadStepIInv
<1>6. CASE RunPlanRaises(j)
  <2>1. /\ job' = [job EXCEPT ![j].error = TRUE] /\ thread' = [thread EXCEPT ![j] = "closing"]
    BY <1>6 DEF RunPlanRaises
  <2>2. /\ job'[j] = [job[j] EXCEPT !.error = TRUE] /\ thread'[j] = "closing"
        /\ \A n \in JobIds \ {j} : job'[n] = job[n] /\ thread'[n] = thread[n]
    BY <2>1, <1>1 DEF TypeOK
  <2>3. /\ job'[j] \in JobType /\ job'[j].error = TRUE /\ job'[j].done = job[j].done
        /\ job'[j].rows = job[j].rows /\ job'[j].plan = job[j].plan /\ job'[j].todo = job[j].todo
    BY <2>2, <1>2 DEF JobType
  <2>4. Moves
    BY <2>1, <2>2, <2>3, <1>1, <1>2 DEF TypeOK, Alive
  <2>5. RowsInv'
    BY <2>2, <2>3, <1>1, <1>2, OthersKeepRows
  <2> QED BY <2>4, <2>5, <1>1, <1>3, ThreadStepIInv
<1>7. CASE Finish(j)
  <2>1. /\ job' = [job EXCEPT ![j].done = TRUE] /\ thread' = [thread EXCEPT ![j] = "finished"]
        /\ thread[j] = "closing"
    BY <1>7 DEF Finish
  <2>2. /\ job'[j] = [job[j] EXCEPT !.done = TRUE] /\ thread'[j] = "finished"
        /\ \A n \in JobIds \ {j} : job'[n] = job[n] /\ thread'[n] = thread[n]
    BY <2>1, <1>1 DEF TypeOK
  <2>3. /\ job'[j] \in JobType /\ job'[j].error = job[j].error
        /\ job'[j].rows = job[j].rows /\ job'[j].plan = job[j].plan /\ job'[j].todo = job[j].todo
    BY <2>2, <1>2 DEF JobType
  <2>4. Moves
    BY <2>1, <2>2, <2>3, <1>1, <1>2 DEF TypeOK, InFlight, Alive
  <2>5. job[j].error \/ Clean(job[j].rows)
    BY <2>1, <1>1 DEF RowsInv
  <2>6. RowsInv'
    BY <2>2, <2>3, <2>5, <1>1, OthersKeepRows
  <2> QED BY <2>4, <2>6, <1>1, <1>3, ThreadStepIInv
<1> QED BY <1>4, <1>5, <1>6, <1>7

(* Requests that touch neither the store nor a job.                         *)
LEMMA RequestIInv ==
  ASSUME IInv,
         UNCHANGED <<job, thread, store, approved, ran>>,
         config' \in Configs, shown' \in [Tabs -> Plans \cup {None}],
         poll' \in PollType \cup {None}, PollInv'
  PROVE  IInv'
<1>1. TypeOK'
  BY DEF IInv, TypeOK, InFlight, store
<1>2. FlightInv' /\ ApprovedInv' /\ RowsInv'
  BY DEF IInv, FlightInv, ApprovedInv, RowsInv, InFlight, store
<1> QED BY <1>1, <1>2 DEF IInv

LEMMA PreviewIInv ==
  ASSUME IInv, NEW t \in Tabs, Preview(t)
  PROVE  IInv'
<1>1. PlanOf[config] \in Plans
  BY PlansAssumption DEF IInv, TypeOK
<1>2. shown' \in [Tabs -> Plans \cup {None}] /\ config' \in Configs
  BY <1>1 DEF Preview, IInv, TypeOK
<1>3. poll' = None /\ UNCHANGED <<job, thread, store, approved, ran>>
  BY DEF Preview
<1> QED BY <1>2, <1>3, RequestIInv DEF PollInv

LEMMA PollIInv ==
  ASSUME IInv, (\E j \in JobIds : PollDone(j)) \/ PollError \/ PollRows \/ PollSend
  PROVE  IInv'
<1>1. /\ UNCHANGED <<config, shown, job, thread, store, approved, ran>>
      /\ TypeOK /\ RowsInv /\ PollInv
  BY DEF IInv, PollDone, PollError, PollRows, PollSend
<1>2. config' \in Configs /\ shown' \in [Tabs -> Plans \cup {None}]
  BY <1>1 DEF TypeOK
<1>3. ASSUME NEW j \in JobIds, PollDone(j) PROVE IInv'
  <2>1. poll' = [id |-> j, step |-> "error", done |-> job[j].done,
                 error |-> FALSE, rows |-> Unborn.rows]
    BY <1>3 DEF PollDone
  <2>2. job[j].done \in BOOLEAN /\ Unborn.rows \in [Keys -> RowStatus]
    BY <1>1 DEF TypeOK, JobType, Unborn, RowStatus
  <2>3. poll' \in PollType
    BY <2>1, <2>2 DEF PollType
  <2>4. PollInv'
    BY <2>1, <1>1 DEF PollInv
  <2> QED BY <2>3, <2>4, <1>1, <1>2, RequestIInv
<1>4. ASSUME PollError \/ PollRows
      PROVE  poll # None /\ poll \in PollType /\ job[poll.id] \in JobType
  BY <1>4, <1>1 DEF PollError, PollRows, TypeOK, PollType
<1>5. CASE PollError
  <2>1. poll' = [poll EXCEPT !.step = "rows", !.error = job[poll.id].error]
        /\ poll.step = "error"
    BY <1>5 DEF PollError
  <2>2. job[poll.id].error \in BOOLEAN
    BY <1>4, <1>5 DEF JobType
  <2>3. /\ poll' \in PollType /\ poll'.id = poll.id /\ poll'.done = poll.done
        /\ poll'.step = "rows" /\ poll'.error = job[poll.id].error
    BY <2>1, <2>2, <1>4, <1>5 DEF PollType
  <2>4. PollInv'
    BY <2>3, <1>1, <1>4, <1>5 DEF PollInv
  <2> QED BY <2>3, <2>4, <1>1, <1>2, RequestIInv
<1>6. CASE PollRows
  <2>1. poll' = [poll EXCEPT !.step = "send", !.rows = job[poll.id].rows]
        /\ poll.step = "rows"
    BY <1>6 DEF PollRows
  <2>2. job[poll.id].rows \in [Keys -> RowStatus]
    BY <1>4, <1>6 DEF JobType
  <2>3. /\ poll' \in PollType /\ poll'.id = poll.id /\ poll'.done = poll.done
        /\ poll'.step = "send" /\ poll'.error = poll.error /\ poll'.rows = job[poll.id].rows
    BY <2>1, <2>2, <1>4, <1>6 DEF PollType
  <2>4. poll.done => job[poll.id].done
    BY <1>1, <1>4, <1>6 DEF PollInv
  <2>5. poll.done /\ ~poll.error => Clean(job[poll.id].rows)
    <3>1. poll.id \in JobIds
      BY <1>4, <1>6 DEF PollType
    <3>2. poll.done /\ ~poll.error => ~job[poll.id].error
      BY <2>1, <1>1, <1>4, <1>6 DEF PollInv
    <3> QED BY <3>1, <3>2, <2>4, <1>1 DEF RowsInv
  <2>6. PollInv'
    <3>1. poll.done => job'[poll.id].done
      BY <2>4, <1>1
    <3>2. poll.done /\ ~poll.error => Clean(poll'.rows)
      BY <2>3, <2>5
    <3>3. poll.done /\ ~poll.error => ~job'[poll.id].error
      BY <2>1, <1>1, <1>4, <1>6 DEF PollInv
    <3> QED BY <3>1, <3>2, <3>3, <2>3 DEF PollInv, Clean
  <2> QED BY <2>3, <2>6, <1>1, <1>2, RequestIInv
<1>7. CASE PollSend
  BY <1>7, <1>1, <1>2, RequestIInv DEF PollSend, PollInv
<1> QED BY <1>3, <1>5, <1>6, <1>7

LEMMA RestartIInv ==
  ASSUME IInv, Restart
  PROVE  IInv'
<1>1. \A j \in JobIds : ~InFlight(j)' /\ job'[j] = Unborn
  BY DEF Restart, InFlight, Alive
<1>2. TypeOK'
  <2>1. job' \in [JobIds -> JobType]
    BY DEF Restart, Unborn, JobType, RowStatus
  <2>2. thread' \in [JobIds -> Alive \cup {"none", "finished", "killed"}]
    BY DEF Restart
  <2> QED BY <2>1, <2>2, <1>1 DEF Restart, IInv, TypeOK
<1>3. FlightInv' /\ ApprovedInv'
  BY <1>1 DEF Restart, FlightInv, ApprovedInv
<1>4. RowsInv' /\ PollInv'
  BY DEF Restart, RowsInv, PollInv, Unborn
<1> QED BY <1>2, <1>3, <1>4 DEF IInv

LEMMA NextIInv == IInv /\ [Next]_vars => IInv'
<1> SUFFICES ASSUME IInv, [Next]_vars PROVE IInv'
  OBVIOUS
<1>1. ASSUME NEW c \in Configs, EditConfig(c) PROVE IInv'
  BY <1>1, RequestIInv DEF EditConfig, IInv, TypeOK, PollInv
<1>2. ASSUME NEW j \in JobIds, ThreadStep(j) PROVE IInv'
  BY <1>2, OnStartIInv, DispatchIInv, ClosingStepsIInv DEF ThreadStep
<1>3. CASE UNCHANGED vars
  BY <1>3, RequestIInv DEF vars, IInv, TypeOK, PollInv, store
<1> QED BY <1>1, <1>2, <1>3, PreviewIInv, StartIInv, PollIInv, RestartIInv DEF Next

LEMMA Invariance == Spec => []IInv
BY InitIInv, NextIInv, PTL DEF Spec

-----------------------------------------------------------------------------
(* The state of the store, its jobs and threads has its type.               *)
THEOREM TypeCorrect == Spec => []TypeOK
BY Invariance, PTL DEF IInv

(* Of two running applies of one server process, there is only one.         *)
THEOREM OneApplyAtATime == Spec => []SingleFlight
<1>1. IInv => SingleFlight
  BY DEF IInv, FlightInv, SingleFlight
<1> QED BY <1>1, Invariance, PTL

(* No eviction ever takes the running job out of the reach of a poll.       *)
THEOREM RunningJobIsFound == Spec => []RunningIsPollable
<1>1. IInv => RunningIsPollable
  BY DEF IInv, FlightInv, RunningIsPollable
<1> QED BY <1>1, Invariance, PTL

(* Nothing runs that the user did not see in the preview and leave selected.*)
THEOREM NothingUnapprovedRuns == Spec => []OnlyApproved
<1>1. IInv => OnlyApproved
  BY DEF IInv, ApprovedInv, OnlyApproved
<1> QED BY <1>1, Invariance, PTL

(* A poll that reports success reports a job all of whose rows succeeded.   *)
THEOREM SuccessIsNeverFalse == Spec => []SuccessIsTrue
<1>1. IInv => SuccessIsTrue
  BY DEF IInv, PollInv, SuccessIsTrue, Clean
<1> QED BY <1>1, Invariance, PTL

-----------------------------------------------------------------------------
(* ApplyJobs implements ApplyService.  What the mapping needs beside IInv:  *)
(* the keys of a running plan are unique, so that the row of an action still *)
(* to do tells nothing of another one, and a job that closes without an      *)
(* error has nothing left.                                                   *)
OrderInv ==
  \A j \in JobIds :
    /\ InFlight(j) => UniqueKeys(job[j].plan)
    /\ thread[j] \in {"spawned", "dispatching"} =>
         \A i \in job[j].todo : job[j].rows[job[j].plan.actions[i].key] \in {"queued", "running"}
    /\ thread[j] = "closing" => job[j].error \/ job[j].todo = {}

(* What the mapped variables are when some job runs, and when none does.    *)
Mapping ==
  /\ \A j \in JobIds : InFlight(j) => Running = j /\ Left = LeftOf(j) /\ Failed = FailedRow(j)
  /\ (\A j \in JobIds : ~InFlight(j)) => Running = None /\ Left = NothingOffered /\ Failed = FALSE

LEMMA MappingHolds == IInv => Mapping
<1> SUFFICES ASSUME IInv PROVE Mapping
  OBVIOUS
<1>1. ASSUME NEW j \in JobIds, InFlight(j)
      PROVE  Running = j /\ Left = LeftOf(j) /\ Failed = FailedRow(j)
  <2>1. \A i \in JobIds : InFlight(i) => i = j
    BY <1>1 DEF IInv, FlightInv
  <2>2. Running = j
    BY <1>1, <2>1 DEF Running
  <2>3. j # None
    BY NoneAssumption
  <2> QED BY <2>2, <2>3 DEF Left, Failed, FailedRow
<1>2. ASSUME \A j \in JobIds : ~InFlight(j)
      PROVE  Running = None /\ Left = NothingOffered /\ Failed = FALSE
  BY <1>2 DEF Running, Left, Failed
<1> QED BY <1>1, <1>2 DEF Mapping

(* Before and after a step.                                                 *)
LEMMA MappingKept == IInv /\ [Next]_vars => Mapping /\ Mapping'
BY MappingHolds, NextIInv, PTL

LEMMA InitOrderInv == Init => OrderInv
BY DEF Init, OrderInv, InFlight, Alive

(* A step of one thread keeps the order of the others.                      *)
LEMMA OthersKeepOrder ==
  ASSUME OrderInv, NEW j \in JobIds,
         \A i \in JobIds \ {j} : job'[i] = job[i] /\ thread'[i] = thread[i],
         InFlight(j)' => UniqueKeys(job'[j].plan),
         thread'[j] \in {"spawned", "dispatching"} =>
           \A i \in job'[j].todo : job'[j].rows[job'[j].plan.actions[i].key] \in {"queued", "running"},
         thread'[j] = "closing" => job'[j].error \/ job'[j].todo = {}
  PROVE  OrderInv'
<1>1. ASSUME NEW i \in JobIds, i # j
      PROVE
    /\ InFlight(i)' => UniqueKeys(job'[i].plan)
    /\ thread'[i] \in {"spawned", "dispatching"} =>
         \A n \in job'[i].todo : job'[i].rows[job'[i].plan.actions[n].key] \in {"queued", "running"}
    /\ thread'[i] = "closing" => job'[i].error \/ job'[i].todo = {}
  BY <1>1 DEF OrderInv, InFlight
<1> QED BY <1>1 DEF OrderInv, UniqueKeys

(* The position of an action is a position of its plan, its key its own.    *)
LEMMA TodoKeys ==
  ASSUME IInv, OrderInv, NEW j \in JobIds, InFlight(j), NEW i \in job[j].todo
  PROVE  /\ job[j].plan.actions[i].key \in Keys
         /\ \A n \in job[j].todo : n # i => job[j].plan.actions[n].key # job[j].plan.actions[i].key
<1>1. job[j].plan \in Plans /\ job[j].todo \subseteq DOMAIN job[j].plan.actions
  BY DEF IInv, TypeOK
<1>2. UniqueKeys(job[j].plan)
  BY DEF OrderInv
<1>3. job[j].plan.actions[i] \in Actions
  BY <1>1 DEF Plans
<1> QED BY <1>1, <1>2, <1>3, PlansAssumption DEF UniqueKeys

(* A thread step of a job that runs before and after it shows in the rows   *)
(* and the remaining positions of that job only.                            *)
LEMMA RunningStep ==
  ASSUME Mapping, Mapping', NEW j \in JobIds, InFlight(j), InFlight(j)', shown' = shown,
         \A i \in JobIds \ {j} : job'[i] = job[i] /\ thread'[i] = thread[i]
  PROVE  /\ UNCHANGED <<Offered, Running, Outcomes>>
         /\ Left = LeftOf(j) /\ Left' = LeftOf(j)'
         /\ Failed = FailedRow(j) /\ Failed' = FailedRow(j)'
<1>1. Running = j /\ Left = LeftOf(j) /\ Failed = FailedRow(j)
  BY DEF Mapping
<1>2. Running' = j /\ Left' = LeftOf(j)' /\ Failed' = FailedRow(j)'
  BY DEF Mapping
<1>3. Offered' = Offered
  BY DEF Offered
<1>4. ASSUME NEW i \in JobIds PROVE Outcome(i)' = Outcome(i)
  <2>1. CASE i = j
    <3>1. Outcome(j) = "running" /\ Outcome(j)' = "running"
      BY DEF Outcome, InFlight, Alive
    <3> QED BY <2>1, <3>1
  <2>2. CASE i # j
    BY <2>2 DEF Outcome, InFlight
  <2> QED BY <2>1, <2>2
<1>5. Outcomes' = Outcomes
  BY <1>4 DEF Outcomes
<1> QED BY <1>1, <1>2, <1>3, <1>5

LEMMA OnStartMaps ==
  ASSUME IInv, OrderInv, Mapping, Mapping', NEW j \in JobIds, NEW i \in job[j].todo, OnStart(j, i)
  PROVE  OrderInv' /\ UNCHANGED Service!vars
<1> DEFINE key == job[j].plan.actions[i].key
<1>1. /\ job' = [job EXCEPT ![j].rows = SetRow(j, i, "running")]
      /\ thread' = [thread EXCEPT ![j] = "dispatching"]
      /\ thread[j] = "spawned" /\ shown' = shown
      /\ TypeOK
  BY DEF OnStart, IInv
<1>2. InFlight(j) /\ job[j] \in JobType
  BY <1>1 DEF InFlight, Alive, TypeOK
<1>3. /\ job'[j] = [job[j] EXCEPT !.rows = SetRow(j, i, "running")]
      /\ thread'[j] = "dispatching" /\ InFlight(j)'
      /\ \A n \in JobIds \ {j} : job'[n] = job[n] /\ thread'[n] = thread[n]
  BY <1>1 DEF TypeOK, InFlight, Alive
<1>4. /\ key \in Keys
      /\ \A n \in job[j].todo : n # i => job[j].plan.actions[n].key # key
      /\ job[j].rows[key] \in {"queued", "running"}
      /\ UniqueKeys(job[j].plan)
  BY <1>1, <1>2, TodoKeys DEF OrderInv
<1>5. /\ job'[j].plan = job[j].plan /\ job'[j].todo = job[j].todo
      /\ job'[j].rows = [job[j].rows EXCEPT ![key] = "running"]
      /\ job[j].rows \in [Keys -> RowStatus]
  BY <1>2, <1>3 DEF JobType, SetRow
<1> HIDE DEF key
<1>6. \A k \in Keys : job'[j].rows[k] = IF k = key THEN "running" ELSE job[j].rows[k]
  BY <1>4, <1>5
<1>7. OrderInv'
  <2>1. ASSUME NEW n \in job[j].todo
        PROVE  job'[j].rows[job[j].plan.actions[n].key] \in {"queued", "running"}
    <3>1. job[j].plan.actions[n].key \in Keys
      BY <1>2, TodoKeys
    <3>2. job[j].rows[job[j].plan.actions[n].key] \in {"queued", "running"}
      BY <1>1 DEF OrderInv
    <3> QED BY <3>1, <3>2, <1>6
  <2> QED BY <2>1, <1>3, <1>4, <1>5, OthersKeepOrder
<1>8. LeftOf(j)' = LeftOf(j)
  BY <1>5 DEF LeftOf
<1>9. FailedRow(j)' = FailedRow(j)
  BY <1>4, <1>6 DEF FailedRow
<1> QED BY <1>1, <1>2, <1>3, <1>7, <1>8, <1>9, RunningStep DEF Service!vars

LEMMA DispatchMaps ==
  ASSUME IInv, OrderInv, Mapping, Mapping', NEW j \in JobIds, NEW i \in job[j].todo,
         NEW status \in RowStatus, Dispatch(j, i, status)
  PROVE  OrderInv' /\ i \in DOMAIN Left /\ Service!Do(i)
<1> DEFINE key == job[j].plan.actions[i].key
<1>1. /\ job' = [job EXCEPT ![j].rows = SetRow(j, i, status), ![j].todo = @ \ {i}]
      /\ thread' = [thread EXCEPT ![j] = "spawned"]
      /\ thread[j] = "dispatching" /\ shown' = shown
      /\ \A k \in job[j].todo : i <= k
      /\ TypeOK
  BY DEF Dispatch, IInv, IsNext
<1>2. InFlight(j) /\ job[j] \in JobType
  BY <1>1 DEF InFlight, Alive, TypeOK
<1>3. /\ job'[j] = [job[j] EXCEPT !.rows = SetRow(j, i, status), !.todo = @ \ {i}]
      /\ thread'[j] = "spawned" /\ InFlight(j)'
      /\ \A n \in JobIds \ {j} : job'[n] = job[n] /\ thread'[n] = thread[n]
  BY <1>1 DEF TypeOK, InFlight, Alive
<1>4. /\ key \in Keys
      /\ \A n \in job[j].todo : n # i => job[j].plan.actions[n].key # key
      /\ job[j].rows[key] \in {"queued", "running"}
      /\ UniqueKeys(job[j].plan)
  BY <1>1, <1>2, TodoKeys DEF OrderInv
<1>5. /\ job'[j].plan = job[j].plan /\ job'[j].todo = job[j].todo \ {i}
      /\ job'[j].rows = [job[j].rows EXCEPT ![key] = status]
      /\ job[j].rows \in [Keys -> RowStatus]
  BY <1>2, <1>3 DEF JobType, SetRow
<1> HIDE DEF key
<1>6. \A k \in Keys : job'[j].rows[k] = IF k = key THEN status ELSE job[j].rows[k]
  BY <1>4, <1>5
<1>7. OrderInv'
  <2>1. ASSUME NEW n \in job[j].todo \ {i}
        PROVE  job'[j].rows[job[j].plan.actions[n].key] \in {"queued", "running"}
    <3>1. job[j].plan.actions[n].key \in Keys /\ job[j].plan.actions[n].key # key
      BY <1>2, <1>4, TodoKeys
    <3>2. job[j].rows[job[j].plan.actions[n].key] \in {"queued", "running"}
      BY <1>1 DEF OrderInv
    <3> QED BY <3>1, <3>2, <1>6
  <2> QED BY <2>1, <1>3, <1>4, <1>5, OthersKeepOrder
<1>8. /\ UNCHANGED <<Offered, Running, Outcomes>>
      /\ Running # None
      /\ Left = LeftOf(j) /\ Left' = LeftOf(j)'
      /\ Failed = FailedRow(j) /\ Failed' = FailedRow(j)'
  BY <1>1, <1>2, <1>3, RunningStep, NoneAssumption DEF Mapping
<1>9. i \in DOMAIN Left /\ \A k \in DOMAIN Left : i <= k
  BY <1>1, <1>8 DEF LeftOf
<1>10. Left' = Service!Part(Left, DOMAIN Left \ {i})
  BY <1>5, <1>8 DEF LeftOf, Service!Part
<1>11. Failed' \in {Failed, TRUE}
  <2>1. FailedRow(j) => FailedRow(j)'
    BY <1>4, <1>6 DEF FailedRow
  <2> QED BY <2>1, <1>8 DEF FailedRow
<1> QED BY <1>7, <1>8, <1>9, <1>10, <1>11 DEF Service!Do

LEMMA ReturnMaps ==
  ASSUME IInv, OrderInv, Mapping, Mapping', NEW j \in JobIds,
         RunPlanReturns(j) \/ ReportErrors(j) \/ RunPlanRaises(j)
  PROVE  OrderInv' /\ UNCHANGED Service!vars
<1>1. /\ TypeOK /\ InFlight(j) /\ InFlight(j)' /\ shown' = shown
      /\ \A n \in JobIds \ {j} : job'[n] = job[n] /\ thread'[n] = thread[n]
  BY DEF IInv, TypeOK, RunPlanReturns, ReportErrors, RunPlanRaises, InFlight, Alive
<1>2. job[j] \in JobType
  BY <1>1 DEF TypeOK
<1>3. /\ thread'[j] \in {"reporting", "closing"}
      /\ job'[j].plan = job[j].plan /\ job'[j].todo = job[j].todo /\ job'[j].rows = job[j].rows
      /\ thread'[j] = "closing" => job'[j].error \/ job'[j].todo = {}
  <2>1. CASE RunPlanReturns(j)
    BY <2>1, <1>1, <1>2 DEF RunPlanReturns, TypeOK
  <2>2. CASE ReportErrors(j)
    <3> DEFINE err == \E k \in Keys : job[j].rows[k] = "error"
    <3>1. job'[j] = [job[j] EXCEPT !.error = err] /\ thread'[j] = "closing" /\ thread[j] = "reporting"
      BY <2>2, <1>1 DEF ReportErrors, TypeOK
    <3>2. job[j].todo = {}
      BY <3>1 DEF IInv, RowsInv
    <3> HIDE DEF err
    <3> QED BY <3>1, <3>2, <1>2 DEF JobType
  <2>3. CASE RunPlanRaises(j)
    <3>1. job'[j] = [job[j] EXCEPT !.error = TRUE] /\ thread'[j] = "closing"
      BY <2>3, <1>1 DEF RunPlanRaises, TypeOK
    <3> QED BY <3>1, <1>2 DEF JobType
  <2> QED BY <2>1, <2>2, <2>3
<1>4. OrderInv'
  <2>1. UniqueKeys(job'[j].plan)
    BY <1>1, <1>3 DEF OrderInv
  <2> QED BY <2>1, <1>1, <1>3, OthersKeepOrder
<1>5. LeftOf(j)' = LeftOf(j) /\ FailedRow(j)' = FailedRow(j)
  BY <1>3 DEF LeftOf, FailedRow
<1> QED BY <1>1, <1>4, <1>5, RunningStep DEF Service!vars

LEMMA FinishMaps ==
  ASSUME IInv, OrderInv, Mapping, Mapping', NEW j \in JobIds, Finish(j)
  PROVE  OrderInv' /\ \E how \in {"succeeded", "failed"} : Service!End(how)
<1> DEFINE how == IF job[j].error THEN "failed" ELSE "succeeded"
<1>1. /\ TypeOK /\ InFlight(j) /\ shown' = shown /\ thread[j] = "closing"
      /\ job' = [job EXCEPT ![j].done = TRUE] /\ thread' = [thread EXCEPT ![j] = "finished"]
  BY DEF IInv, Finish, InFlight, Alive
<1>2. job[j] \in JobType /\ \A i \in JobIds : InFlight(i) => i = j
  BY <1>1 DEF TypeOK, IInv, FlightInv
<1>3. /\ thread'[j] = "finished" /\ job'[j].error = job[j].error
      /\ \A n \in JobIds \ {j} : job'[n] = job[n] /\ thread'[n] = thread[n]
  BY <1>1, <1>2 DEF TypeOK, JobType
<1>4. \A i \in JobIds : ~InFlight(i)'
  BY <1>2, <1>3 DEF InFlight, Alive
<1>5. OrderInv'
  BY <1>3, <1>4, OthersKeepOrder
<1>6. /\ Running = j /\ Running # None /\ Left = LeftOf(j) /\ Failed = FailedRow(j)
      /\ Running' = None /\ Left' = NothingOffered /\ Failed' = FALSE
  BY <1>1, <1>4, NoneAssumption DEF Mapping
<1>7. Outcomes' = [Outcomes EXCEPT ![j] = how]
  <2>1. Outcome(j)' = how
    BY <1>3, <1>4 DEF Outcome
  <2>2. \A i \in JobIds \ {j} : Outcome(i)' = Outcome(i)
    BY <1>3 DEF Outcome, InFlight
  <2> HIDE DEF how
  <2> QED BY <2>1, <2>2 DEF Outcomes
<1>8. how = "succeeded" => Left = Service!Nothing /\ ~Failed
  <2>1. ASSUME ~job[j].error PROVE job[j].todo = {} /\ Clean(job[j].rows)
    BY <2>1, <1>1 DEF IInv, RowsInv, OrderInv
  <2> QED BY <2>1, <1>6 DEF LeftOf, FailedRow, Clean, Service!Nothing
<1>9. Service!Nothing = NothingOffered
  BY DEF Service!Nothing, NothingOffered
<1>10. Offered' = Offered
  BY <1>1 DEF Offered
<1>11. how \in {"succeeded", "failed"}
  OBVIOUS
<1> HIDE DEF how
<1>12. Service!End(how)
  BY <1>6, <1>7, <1>8, <1>9, <1>10 DEF Service!End
<1> QED BY <1>5, <1>11, <1>12

LEMMA StartMaps ==
  ASSUME IInv, OrderInv, Mapping, Mapping',
         NEW t \in Tabs, NEW j \in JobIds, NEW skip \in SUBSET Keys, Start(t, j, skip)
  PROVE  OrderInv' /\ \E S \in SUBSET DOMAIN Offered[t] : Service!Begin(t, j, S)
<1> DEFINE plan == PlanOf[config]
           new  == NewJob(plan, skip)
<1>1. plan \in Plans /\ TypeOK /\ shown[t] \in Plans
  BY PlansAssumption DEF IInv, TypeOK, Start
<1>2. \A i \in JobIds : ~InFlight(i)
  BY DEF Start, Busy, IInv, FlightInv
<1>3. /\ job' = [job EXCEPT ![j] = new] /\ thread' = [thread EXCEPT ![j] = "spawned"]
      /\ thread[j] = "none" /\ shown' = shown
      /\ UniqueKeys(plan) /\ Fingerprint(plan) = Fingerprint(shown[t])
  BY DEF Start, Accepted
<1>4. shown[t].actions = plan.actions /\ shown[t].on_conflict = plan.on_conflict
  BY <1>3 DEF Fingerprint
<1>5. /\ new.plan = plan
      /\ new.todo = {i \in DOMAIN plan.actions : plan.actions[i].key \notin skip}
      /\ \A k \in Keys : new.rows[k] = CASE k \notin KeysOf(plan) -> "absent"
                                         [] k \in KeysOf(plan) \cap skip -> "skipped"
                                         [] OTHER -> "queued"
  BY DEF NewJob
<1> HIDE DEF plan, new
<1>6. /\ job'[j] = new /\ thread'[j] = "spawned" /\ InFlight(j)'
      /\ \A n \in JobIds \ {j} : job'[n] = job[n] /\ thread'[n] = thread[n]
  BY <1>1, <1>3 DEF TypeOK, InFlight, Alive
<1>7. OrderInv'
  <2>1. ASSUME NEW i \in new.todo PROVE new.rows[plan.actions[i].key] \in {"queued", "running"}
    <3>1. /\ i \in DOMAIN plan.actions /\ plan.actions[i].key \notin skip
          /\ plan.actions[i] \in Actions
      BY <1>1, <1>5 DEF Plans
    <3>2. plan.actions[i].key \in KeysOf(plan) /\ plan.actions[i].key \in Keys
      BY <3>1, PlansAssumption DEF KeysOf, Listed
    <3> QED BY <3>1, <3>2, <1>5
  <2>2. UniqueKeys(job'[j].plan)
    BY <1>3, <1>5, <1>6
  <2> QED BY <2>1, <2>2, <1>5, <1>6, OthersKeepOrder
<1>8. /\ Running = None /\ Left = NothingOffered
      /\ Running' = j /\ Left' = LeftOf(j)' /\ Failed' = FailedRow(j)'
  BY <1>2, <1>6 DEF Mapping
<1>9. Offered[t] = OfferOf(shown[t]) /\ Offered' = Offered
  BY <1>1, <1>3, NoneAssumption DEF Offered
<1>10. DOMAIN Offered[t] = DOMAIN plan.actions /\ new.todo \subseteq DOMAIN plan.actions
  BY <1>4, <1>5, <1>9 DEF OfferOf
<1>11. Left' = Service!Part(Offered[t], new.todo)
  <2>1. Left' = [i \in new.todo |-> Effect(plan, i)]
    BY <1>5, <1>6, <1>8 DEF LeftOf
  <2>2. \A i \in new.todo : Offered[t][i] = Effect(plan, i)
    BY <1>4, <1>9, <1>10 DEF OfferOf, Effect
  <2>3. DOMAIN Offered[t] \cap new.todo = new.todo
    BY <1>10
  <2> QED BY <2>1, <2>2, <2>3 DEF Service!Part
<1>12. Failed' = FALSE
  BY <1>5, <1>6, <1>8 DEF FailedRow
<1>13. Outcomes[j] = "none" /\ Outcomes' = [Outcomes EXCEPT ![j] = "running"]
  <2>1. Outcome(j) = "none" /\ Outcome(j)' = "running"
    BY <1>3, <1>6 DEF Outcome, InFlight, Alive
  <2>2. \A i \in JobIds \ {j} : Outcome(i)' = Outcome(i)
    BY <1>6 DEF Outcome, InFlight
  <2> QED BY <2>1, <2>2 DEF Outcomes
<1>14. Service!Begin(t, j, new.todo)
  BY <1>8, <1>9, <1>11, <1>12, <1>13 DEF Service!Begin
<1> QED BY <1>7, <1>10, <1>14

LEMMA PreviewMaps ==
  ASSUME IInv, OrderInv, Mapping, Mapping', NEW t \in Tabs, Preview(t)
  PROVE  OrderInv' /\ Service!Offer(t)
<1> DEFINE plan == PlanOf[config]
<1>1. /\ plan \in Plans /\ config \in Configs /\ shown \in [Tabs -> Plans \cup {None}]
      /\ shown' = [shown EXCEPT ![t] = plan]
      /\ UNCHANGED <<job, thread>>
  BY PlansAssumption DEF IInv, TypeOK, Preview
<1>2. OrderInv'
  BY <1>1 DEF OrderInv, InFlight
<1>3. UNCHANGED <<Running, Left, Failed, Outcomes>>
  BY <1>1 DEF Running, Left, LeftOf, Failed, FailedRow, Outcomes, Outcome, InFlight
<1>4. OfferOf(plan) \in {OfferOf(PlanOf[c]) : c \in Configs}
  BY <1>1
<1> HIDE DEF plan
<1>5. Offered' = [Offered EXCEPT ![t] = OfferOf(plan)]
  <2>1. shown'[t] = plan /\ plan # None /\ \A u \in Tabs \ {t} : shown'[u] = shown[u]
    BY <1>1, NoneAssumption
  <2> QED BY <2>1 DEF Offered
<1> QED BY <1>2, <1>3, <1>4, <1>5 DEF Service!Offer

LEMMA RestartMaps ==
  ASSUME IInv, Mapping', Restart
  PROVE  OrderInv' /\ Service!Die
<1>1. /\ TypeOK /\ shown' = shown
      /\ thread' = [j \in JobIds |-> IF thread[j] = "none" THEN "none" ELSE "killed"]
  BY DEF IInv, Restart
<1>2. \A j \in JobIds : ~InFlight(j)' /\ thread'[j] \in {"none", "killed"}
  BY <1>1 DEF InFlight, Alive
<1>3. OrderInv'
  BY <1>2 DEF OrderInv
<1>4. Running' = None /\ Left' = NothingOffered /\ Failed' = FALSE /\ Offered' = Offered
  BY <1>1, <1>2 DEF Mapping, Offered
<1>5. ASSUME NEW j \in JobIds
      PROVE  Outcome(j)' = IF Outcome(j) = "none" THEN "none" ELSE "unknown"
  <2>1. CASE thread[j] = "none"
    BY <2>1, <1>1 DEF Outcome, InFlight, Alive
  <2>2. CASE thread[j] # "none"
    <3>1. Outcome(j)' = "unknown"
      BY <2>2, <1>1, <1>2 DEF Outcome
    <3>2. Outcome(j) # "none"
      BY <2>2, <1>1 DEF Outcome, TypeOK, InFlight
    <3> QED BY <3>1, <3>2
  <2> QED BY <2>1, <2>2
<1>6. Outcomes' = [j \in JobIds |-> IF Outcomes[j] = "none" THEN "none" ELSE "unknown"]
  BY <1>5 DEF Outcomes
<1> QED BY <1>3, <1>4, <1>6 DEF Service!Die, Service!Nothing, NothingOffered

LEMMA InitMaps == Init => Service!Init
<1> SUFFICES ASSUME Init PROVE Service!Init
  OBVIOUS
<1>1. \A j \in JobIds : ~InFlight(j)
  BY DEF Init, InFlight, Alive
<1>2. Running = None /\ Left = NothingOffered /\ Failed = FALSE
  BY <1>1 DEF Running, Left, Failed
<1>3. Offered = [t \in Tabs |-> Service!Nothing]
  BY DEF Init, Offered, NothingOffered, Service!Nothing
<1>4. Outcomes = [j \in JobIds |-> "none"]
  BY DEF Init, Outcomes, Outcome, InFlight, Alive
<1> QED BY <1>2, <1>3, <1>4 DEF Service!Init, Service!Nothing, NothingOffered

(* Every step of the store, its requests and its threads is a step of the   *)
(* service or invisible to its users.                                       *)
LEMMA NextMaps ==
  IInv /\ OrderInv /\ [Next]_vars => OrderInv' /\ [Service!Next]_(Service!vars)
<1> SUFFICES ASSUME IInv, OrderInv, [Next]_vars
             PROVE  OrderInv' /\ (Service!Next \/ UNCHANGED Service!vars)
  OBVIOUS
<1>1. Mapping /\ Mapping'
  BY MappingKept
<1>2. ASSUME UNCHANGED <<shown, job, thread>> PROVE OrderInv' /\ UNCHANGED Service!vars
  <2>1. OrderInv'
    BY <1>2 DEF OrderInv, InFlight
  <2> QED BY <1>2, <2>1 DEF Service!vars, Offered, Running, Left, LeftOf, Failed, FailedRow,
                            Outcomes, Outcome, InFlight
<1>3. CASE UNCHANGED vars \/ (\E c \in Configs : EditConfig(c)) \/ (\E j \in JobIds : PollDone(j))
             \/ PollError \/ PollRows \/ PollSend
  BY <1>2, <1>3 DEF vars, EditConfig, PollDone, PollError, PollRows, PollSend
<1>4. ASSUME NEW t \in Tabs, Preview(t) PROVE OrderInv' /\ Service!Next
  BY <1>1, <1>4, PreviewMaps DEF Service!Next
<1>5. ASSUME NEW t \in Tabs, NEW j \in JobIds, NEW skip \in SUBSET Keys, Start(t, j, skip)
      PROVE  OrderInv' /\ Service!Next
  BY <1>1, <1>5, StartMaps DEF Service!Next
<1>6. ASSUME NEW j \in JobIds, ThreadStep(j)
      PROVE  OrderInv' /\ (Service!Next \/ UNCHANGED Service!vars)
  <2>1. ASSUME NEW i \in job[j].todo, OnStart(j, i) PROVE OrderInv' /\ UNCHANGED Service!vars
    BY <1>1, <2>1, OnStartMaps
  <2>2. ASSUME NEW i \in job[j].todo, NEW s \in RowStatus, Dispatch(j, i, s)
        PROVE  OrderInv' /\ Service!Next
    BY <1>1, <2>2, DispatchMaps DEF Service!Next
  <2>3. ASSUME RunPlanReturns(j) \/ ReportErrors(j) \/ RunPlanRaises(j)
        PROVE  OrderInv' /\ UNCHANGED Service!vars
    BY <1>1, <2>3, ReturnMaps
  <2>4. ASSUME Finish(j) PROVE OrderInv' /\ Service!Next
    BY <1>1, <2>4, FinishMaps DEF Service!Next
  <2> QED BY <1>6, <2>1, <2>2, <2>3, <2>4 DEF ThreadStep
<1>7. CASE Restart
  BY <1>1, <1>7, RestartMaps DEF Service!Next
<1> QED BY <1>3, <1>4, <1>5, <1>6, <1>7 DEF Next

(* What the store and its threads do, seen by the users of the page, is     *)
(* what ApplyService promises them.                                         *)
THEOREM StoreImplementsService == Spec => ImplementsService
<1>1. Spec => [](IInv /\ OrderInv)
  BY InitIInv, NextIInv, InitOrderInv, NextMaps, PTL DEF Spec
<1>2. Spec => Service!Spec
  BY <1>1, InitMaps, NextMaps, PTL DEF Spec, Service!Spec
<1> QED BY <1>2 DEF ImplementsService
=============================================================================
