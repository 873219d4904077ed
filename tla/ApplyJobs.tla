------------------------------ MODULE ApplyJobs ------------------------------
(***************************************************************************)
(* The interactive apply of `rig config-web` (riglib/config_web_plan.py and *)
(* the request handlers of riglib/config_web.py).                           *)
(*                                                                          *)
(* A browser tab previews the plan of a scope, the user skips some of its   *)
(* actions and the tab posts the fingerprint of what it showed together     *)
(* with the skipped keys.  ApplyJobStore.start rebuilds the plan, refuses a *)
(* stale one, and hands the selected actions to a background thread that    *)
(* runs them through run_plan while the tab polls.  The HTTP server handles *)
(* one request at a time, so requests never overlap each other; they do     *)
(* overlap the apply thread and every other process that edits the config.  *)
(***************************************************************************)
EXTENDS Naturals, Sequences, FiniteSets

CONSTANTS
  Configs,      \* the states the declared config of the scope can be in
  PlanOf,       \* config -> the plan plan.build() makes of it
  Keys,         \* action keys (kind|category|item|descriptor|target)
  Actions,      \* planned actions: a key with its source and options
  Policies,     \* values of on_conflict
  JobIds,       \* the uuids a server run may hand out: bounds the starts
  Tabs,         \* browser tabs
  MaxRetained,  \* _MAX_RETAINED_JOBS
  None          \* Python's None

(* A plan is an ordered list of actions.  `declared` tells whether any      *)
(* config layer exists on disk (LoadedConfig.layers is not empty).          *)
Plans == [declared: BOOLEAN, on_conflict: Policies, actions: Seq(Actions)]

ASSUME PlansAssumption ==
  /\ PlanOf \in [Configs -> Plans]
  /\ \A a \in Actions : a.key \in Keys
  /\ Configs # {}
ASSUME RetainedAssumption == MaxRetained \in Nat \ {0}
ASSUME NoneAssumption == None \notin JobIds /\ None \notin Plans

RowStatus == {"absent", "queued", "running", "applied", "skipped", "error"}
Alive     == {"spawned", "dispatching", "reporting", "closing"}

VARIABLES
  config,   \* what a load of the config layers returns now
  shown,    \* tab -> the plan its preview displays, None before any preview
  job,      \* job id -> the ApplyJob object and the locals of its thread
  thread,   \* job id -> where its background thread is
  jobs,     \* ApplyJobStore._jobs: the ids a poll can find
  order,    \* ApplyJobStore._job_order
  active,   \* ApplyJobStore._active_job_id
  poll,     \* the status request being answered, None when there is none
  approved, \* history of this server run: job id -> what its user
            \* saw and did not skip
  ran       \* history of this server run: job id -> what its thread
            \* dispatched

store == <<jobs, order, active>>
vars  == <<config, shown, job, thread, jobs, order, active, poll, approved, ran>>

-----------------------------------------------------------------------------
(* Identity of a plan *)

Listed(plan) == {plan.actions[i] : i \in DOMAIN plan.actions}
KeysOf(plan) == {a.key : a \in Listed(plan)}

(* _assert_unique_action_keys *)
UniqueKeys(plan) ==
  \A i, k \in DOMAIN plan.actions :
    plan.actions[i].key = plan.actions[k].key => i = k

(* Mutant of Fingerprint: hashes the action keys only.                      *)
FingerprintOfKeys(plan) == [i \in DOMAIN plan.actions |-> plan.actions[i].key]

(* fingerprint_plan: the hash is injective on what it covers, the ordered   *)
(* actions (key, source path, options) and on_conflict.                     *)
Fingerprint(plan) == <<plan.on_conflict, plan.actions>>

(* What an action does to disk depends on the action and on on_conflict.    *)
Effect(plan, i) == <<plan.actions[i], plan.on_conflict>>
Effects(plan, skip) ==
  {Effect(plan, i) : i \in {k \in DOMAIN plan.actions : plan.actions[k].key \notin skip}}

-----------------------------------------------------------------------------
(* The job store *)

InFlight(j) == thread[j] \in Alive

(* Mutant of Busy: a job whose last action was dispatched counts as done.   *)
BusyUntilLastDispatch == active \in jobs /\ job[active].todo # {}

(* start: `active is not None and not active.done`, with the lookup through *)
(* _jobs.get that answers None for an evicted job.                          *)
Busy == active \in jobs /\ ~job[active].done

(* Mutant of Retain: pops from the back.                                    *)
RetainOldest(o, act, actDone) ==
  SubSeq(o, 1, IF Len(o) < MaxRetained THEN Len(o) ELSE MaxRetained)

(* _evict_if_over_capacity: pop from the front while there are too many,    *)
(* stopping at the active job while it still runs.                          *)
Retain(o, act, actDone) ==
  LET fits(i) == (o[i] = act /\ ~actDone) \/ Len(o) - i < MaxRetained
      first   == CHOOSE i \in 1..Len(o) : fits(i) /\ \A k \in 1..(i - 1) : ~fits(k)
  IN  SubSeq(o, first, Len(o))

(* Mutant of NewJob: positions counted from zero.                           *)
NewJobFromZero(plan, skip) ==
  [plan  |-> plan,
   todo  |-> {i \in 0..(Len(plan.actions) - 1) : plan.actions[i + 1].key \notin skip},
   rows  |-> [k \in Keys |-> IF k \in KeysOf(plan) THEN "queued" ELSE "absent"],
   error |-> FALSE,
   done  |-> FALSE]

(* The ApplyJob of an accepted start and the selected part of its plan.     *)
NewJob(plan, skip) ==
  [plan  |-> plan,
   todo  |-> {i \in DOMAIN plan.actions : plan.actions[i].key \notin skip},
   rows  |-> [k \in Keys |-> CASE k \notin KeysOf(plan) -> "absent"
                               [] k \in KeysOf(plan) \cap skip -> "skipped"
                               [] OTHER -> "queued"],
   error |-> FALSE,
   done  |-> FALSE]

Unborn == [plan |-> None, todo |-> {}, rows |-> [k \in Keys |-> "absent"],
           error |-> FALSE, done |-> FALSE]

Init ==
  /\ config \in Configs
  /\ shown = [t \in Tabs |-> None]
  /\ job = [j \in JobIds |-> Unborn]
  /\ thread = [j \in JobIds |-> "none"]
  /\ jobs = {}
  /\ order = <<>>
  /\ active = None
  /\ poll = None
  /\ approved = [j \in JobIds |-> {}]
  /\ ran = [j \in JobIds |-> {}]

-----------------------------------------------------------------------------
(* Requests.  `poll = None` is the single-threaded HTTPServer being free.   *)

(* An edit of the config by the /edit handler, the CLI or a text editor.    *)
EditConfig(c) ==
  /\ config' = c
  /\ UNCHANGED <<shown, job, thread, store, poll, approved, ran>>

(* handle_plan_preview; a scope without a config layer is refused.          *)
Preview(t) ==
  LET plan == PlanOf[config] IN
  /\ poll = None
  /\ plan.declared
  /\ UniqueKeys(plan)
  /\ shown' = [shown EXCEPT ![t] = plan]
  /\ UNCHANGED <<config, job, thread, store, poll, approved, ran>>

(* What start() checks after the busy test, on the plan it rebuilt.         *)
Accepted(plan, fingerprint, skip) ==
  /\ plan.declared
  /\ UniqueKeys(plan)
  /\ Fingerprint(plan) = fingerprint
  /\ skip \subseteq KeysOf(plan)

(* handle_apply: a refused start changes nothing, an accepted one registers *)
(* the job, evicts and spawns the thread.                                   *)
Start(t, j, skip) ==
  LET plan == PlanOf[config]
      o    == Append(order, j)
      kept == Retain(o, j, FALSE)
  IN
  /\ poll = None
  /\ shown[t] # None
  /\ thread[j] = "none"
  /\ ~Busy
  /\ Accepted(plan, Fingerprint(shown[t]), skip)
  /\ job' = [job EXCEPT ![j] = NewJob(plan, skip)]
  /\ thread' = [thread EXCEPT ![j] = "spawned"]
  /\ order' = kept
  /\ jobs' = {i \in jobs \cup {j} : \E n \in DOMAIN kept : kept[n] = i}
  /\ active' = j
  /\ approved' = [approved EXCEPT ![j] = Effects(shown[t], skip)]
  /\ UNCHANGED <<config, shown, poll, ran>>

(* handle_apply_status reads done, then error, then the rows, while the     *)
(* apply thread keeps running, and sends what it read.                      *)
PollDone(j) ==
  /\ poll = None
  /\ j \in jobs
  /\ poll' = [id |-> j, step |-> "error", done |-> job[j].done,
              error |-> FALSE, rows |-> Unborn.rows]
  /\ UNCHANGED <<config, shown, job, thread, store, approved, ran>>

PollError ==
  /\ poll # None
  /\ poll.step = "error"
  /\ poll' = [poll EXCEPT !.step = "rows", !.error = job[poll.id].error]
  /\ UNCHANGED <<config, shown, job, thread, store, approved, ran>>

PollRows ==
  /\ poll # None
  /\ poll.step = "rows"
  /\ poll' = [poll EXCEPT !.step = "send", !.rows = job[poll.id].rows]
  /\ UNCHANGED <<config, shown, job, thread, store, approved, ran>>

PollSend ==
  /\ poll # None
  /\ poll.step = "send"
  /\ poll' = None
  /\ UNCHANGED <<config, shown, job, thread, store, approved, ran>>

-----------------------------------------------------------------------------
(* The apply thread: run_plan with the job's on_start/progress callbacks    *)

SetRow(j, i, status) ==
  [job[j].rows EXCEPT ![job[j].plan.actions[i].key] = status]

(* Mutant of IsNext: the selected actions are a set, taken in any order.     *)
IsNextOfSet(j, i) == i \in job[j].todo

IsNext(j, i) == i \in job[j].todo /\ \A k \in job[j].todo : i <= k

OnStart(j, i) ==
  /\ thread[j] = "spawned"
  /\ IsNext(j, i)
  /\ thread' = [thread EXCEPT ![j] = "dispatching"]
  /\ job' = [job EXCEPT ![j].rows = SetRow(j, i, "running")]
  /\ UNCHANGED <<config, shown, store, poll, approved, ran>>

(* _dispatch, with every exception of a handler turned into an "error"      *)
(* result, then the progress callback.                                      *)
Dispatch(j, i, status) ==
  /\ thread[j] = "dispatching"
  /\ IsNext(j, i)
  /\ status \in {"applied", "skipped", "error"}
  /\ ran' = [ran EXCEPT ![j] = @ \cup {Effect(job[j].plan, i)}]
  /\ job' = [job EXCEPT ![j].rows = SetRow(j, i, status), ![j].todo = @ \ {i}]
  /\ thread' = [thread EXCEPT ![j] = "spawned"]
  /\ UNCHANGED <<config, shown, store, poll, approved>>

RunPlanReturns(j) ==
  /\ thread[j] = "spawned"
  /\ job[j].todo = {}
  /\ thread' = [thread EXCEPT ![j] = "reporting"]
  /\ UNCHANGED <<config, shown, job, store, poll, approved, ran>>

(* Mutant of ReportErrors: trusts run_plan to raise when an action fails.   *)
ReportNothing(j) ==
  /\ thread[j] = "reporting"
  /\ thread' = [thread EXCEPT ![j] = "closing"]
  /\ UNCHANGED <<config, shown, job, store, poll, approved, ran>>

(* `if report.errors: job.error = ...`                                      *)
ReportErrors(j) ==
  /\ thread[j] = "reporting"
  /\ job' = [job EXCEPT ![j].error = \E k \in Keys : job[j].rows[k] = "error"]
  /\ thread' = [thread EXCEPT ![j] = "closing"]
  /\ UNCHANGED <<config, shown, store, poll, approved, ran>>

(* `except Exception`: run_plan itself raised outside a handler.            *)
RunPlanRaises(j) ==
  /\ thread[j] \in {"spawned", "dispatching"}
  /\ job' = [job EXCEPT ![j].error = TRUE]
  /\ thread' = [thread EXCEPT ![j] = "closing"]
  /\ UNCHANGED <<config, shown, store, poll, approved, ran>>

(* Mutant of Finish: done is set on the success path only.                  *)
FinishIfClean(j) ==
  /\ thread[j] = "closing"
  /\ ~job[j].error
  /\ job' = [job EXCEPT ![j].done = TRUE]
  /\ thread' = [thread EXCEPT ![j] = "finished"]
  /\ UNCHANGED <<config, shown, store, poll, approved, ran>>

(* `finally: job.done = True`                                               *)
Finish(j) ==
  /\ thread[j] = "closing"
  /\ job' = [job EXCEPT ![j].done = TRUE]
  /\ thread' = [thread EXCEPT ![j] = "finished"]
  /\ UNCHANGED <<config, shown, store, poll, approved, ran>>

(* The server process ends, at any moment, and is started again: the store  *)
(* is in memory only and the apply thread is a daemon thread.               *)
Restart ==
  /\ thread' = [j \in JobIds |-> IF thread[j] = "none" THEN "none" ELSE "killed"]
  /\ job' = [j \in JobIds |-> Unborn]
  /\ jobs' = {}
  /\ order' = <<>>
  /\ active' = None
  /\ poll' = None
  /\ approved' = [j \in JobIds |-> {}]
  /\ ran' = [j \in JobIds |-> {}]
  /\ UNCHANGED <<config, shown>>

-----------------------------------------------------------------------------
ThreadStep(j) ==
  \/ \E i \in job[j].todo : OnStart(j, i)
  \/ \E i \in job[j].todo, s \in RowStatus : Dispatch(j, i, s)
  \/ RunPlanReturns(j)
  \/ ReportErrors(j)
  \/ RunPlanRaises(j)
  \/ Finish(j)

Next ==
  \/ \E c \in Configs : EditConfig(c)
  \/ \E t \in Tabs : Preview(t)
  \/ \E t \in Tabs, j \in JobIds, skip \in SUBSET Keys : Start(t, j, skip)
  \/ \E j \in JobIds : PollDone(j)
  \/ PollError
  \/ PollRows
  \/ PollSend
  \/ \E j \in JobIds : ThreadStep(j)
  \/ Restart

(* The interpreter schedules the apply thread; a handler that hangs forever *)
(* blocks every later apply, as the store's docstring says, and is excluded.*)
Spec     == Init /\ [][Next]_vars
FairSpec == Spec /\ \A j \in JobIds : WF_vars(ThreadStep(j))

-----------------------------------------------------------------------------
JobType ==
  [plan: Plans \cup {None}, todo: SUBSET Nat, rows: [Keys -> RowStatus],
   error: BOOLEAN, done: BOOLEAN]
PollType ==
  [id: JobIds, step: {"error", "rows", "send"}, done: BOOLEAN, error: BOOLEAN,
   rows: [Keys -> RowStatus]]

(* The type of every variable; a job whose thread runs has a plan, and      *)
(* its remaining positions are positions of that plan.                      *)
TypeOK ==
  /\ config \in Configs
  /\ shown \in [Tabs -> Plans \cup {None}]
  /\ job \in [JobIds -> JobType]
  /\ thread \in [JobIds -> Alive \cup {"none", "finished", "killed"}]
  /\ jobs \in SUBSET JobIds
  /\ order \in Seq(JobIds)
  /\ active \in JobIds \cup {None}
  /\ poll \in PollType \cup {None}
  /\ approved \in [JobIds -> SUBSET (Actions \X Policies)]
  /\ ran \in [JobIds -> SUBSET (Actions \X Policies)]
  /\ \A j \in JobIds : InFlight(j) =>
       job[j].plan \in Plans /\ job[j].todo \subseteq DOMAIN job[j].plan.actions

(* At most one apply runs in a server process, whatever tabs post and       *)
(* whatever was evicted: two would race on shared global files              *)
(* (ApplyJobStore docstring).                                               *)
SingleFlight ==
  \A j1, j2 \in JobIds : InFlight(j1) /\ InFlight(j2) => j1 = j2

(* A running job can always be polled: eviction of old jobs never takes the *)
(* job in flight, so its tab never sees a 404 while actions execute.        *)
RunningIsPollable == \A j \in JobIds : InFlight(j) => j \in jobs

(* Every action the machine executed for a job, with the options, source    *)
(* and conflict policy it ran under, is one the user was shown in the       *)
(* preview and did not skip, although the config can change between the     *)
(* preview and the apply and while the apply runs.                          *)
OnlyApproved == \A j \in JobIds : ran[j] \subseteq approved[j]

(* A poll that reports a finished job without an error shows every action   *)
(* of it executed or skipped: the page never toasts success over a failed   *)
(* or unfinished apply, although the fields are read one after another      *)
(* while the thread writes them.                                            *)
SuccessIsTrue ==
  poll # None /\ poll.step = "send" /\ poll.done /\ ~poll.error =>
    \A k \in Keys : poll.rows[k] \in {"absent", "applied", "skipped"}

(* What the user sees of the store, its jobs and threads: the state of      *)
(* ApplyService, function by function.                                      *)
OfferOf(plan) == [i \in DOMAIN plan.actions |-> Effect(plan, i)]
NothingOffered == [i \in {} |-> None]
Offered == [t \in Tabs |-> IF shown[t] = None THEN NothingOffered ELSE OfferOf(shown[t])]
Running == IF \E j \in JobIds : InFlight(j) THEN CHOOSE j \in JobIds : InFlight(j) ELSE None
LeftOf(j) == [i \in job[j].todo |-> Effect(job[j].plan, i)]
Left == IF Running = None THEN NothingOffered ELSE LeftOf(Running)
FailedRow(j) == \E k \in Keys : job[j].rows[k] = "error"
Failed == Running # None /\ FailedRow(Running)
Outcome(j) ==
  CASE thread[j] = "none" -> "none"
    [] InFlight(j) -> "running"
    [] thread[j] = "finished" -> IF job[j].error THEN "failed" ELSE "succeeded"
    [] thread[j] = "killed" -> "unknown"
Outcomes == [j \in JobIds |-> Outcome(j)]
Service == INSTANCE ApplyService WITH
  Applies <- JobIds,
  Offers  <- {OfferOf(PlanOf[c]) : c \in Configs},
  offered <- Offered,
  current <- Running,
  left    <- Left,
  failed  <- Failed,
  outcome <- Outcomes

(* The store, its threads and their callbacks implement the service that    *)
(* ApplyService describes: what a tab was shown is done in that order, each *)
(* action at most once and one apply at a time, and an apply is reported as *)
(* a success only after all of its part was done without an error.          *)
ImplementsService == Service!Spec

(* An accepted apply ends: its job is reported done, whatever its handlers  *)
(* and run_plan raise, unless the server process dies first.                *)
ApplyEnds ==
  \A j \in JobIds : InFlight(j) ~> (job[j].done \/ thread[j] = "killed")
=============================================================================
