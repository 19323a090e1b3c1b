----------------------------- MODULE AppScaling -----------------------------
(***************************************************************************)
(* Replicas of one application: manual scaling, autoscaling, scale to zero *)
(* after a time without traffic, and the wake-up by a visitor.             *)
(*                                                                         *)
(* Five tasks read and write the application's row of the scheduler's apps *)
(* table, always as a whole: the reconciler's loop, the handler of router  *)
(* traffic, the handler of VM failures, the API's scale request, and the   *)
(* API's synchronisation after a change of a job.  Three of them call      *)
(* scale_app, which works on the jobs table step by step.  What becomes of *)
(* a single job in a failing or racing agent call is in JobLifecycle; here *)
(* a call to an agent works or fails as a whole.                           *)
(*                                                                         *)
(* Time is counted in coarse units: a task that has begun ends within one  *)
(* unit, and so does the API's reaction to a published job update.         *)
(***************************************************************************)
EXTENDS Naturals, FiniteSets

CONSTANTS Places,         \* places for jobs: with none free, deploy_app is refused
          MinReplicas,  \* min_replicas of the application
          MaxReplicas,  \* max_replicas of the application
          Autoscaling,  \* autoscaling_enabled
          Loads,        \* what the metrics may say: none, low, mid, high
          Wanted,       \* the replica counts the user may ask for
          IdleTimeout,  \* router_idle_timeout_secs, in units of time
          Backoff,      \* restore_retry_backoff_secs, in units of time
          MaxTime,      \* bound: the clock stops here
          LastVisit,    \* bound: no visitor, request or failure after this time
          MaxAsked,     \* bound: visits and requests of the owner
          MaxFaults     \* bound: failed agent calls and failed VMs

ASSUME PlacesAssumption == IsFiniteSet(Places)
ASSUME ReplicasAssumption == MinReplicas \in Nat /\ MaxReplicas \in Nat /\ Wanted \subseteq Nat
ASSUME ScalingAssumption ==
  Autoscaling \in BOOLEAN /\ Loads \subseteq {"none", "low", "mid", "high"}
ASSUME TimeAssumption ==
  /\ IdleTimeout \in Nat \ {0} /\ Backoff \in Nat
  /\ MaxTime \in Nat \ {0} /\ LastVisit \in Nat /\ MaxAsked \in Nat /\ MaxFaults \in Nat

VARIABLES
  now,      \* the clock
  app,      \* the row of the apps table
  wanted,   \* desired_replicas in the API's own database
  news,     \* a job update the API has not reacted to yet
  status,   \* the jobs table, "none" when there is no row
  task,     \* what each of the five tasks is doing
  asked,    \* visits and requests so far
  faults,   \* failures so far
  woken     \* history: whether somebody "asked" for the application, or the API has
            \* "rewritten" its row, since it was last found idle ("no") with no
            \* reaction to an earlier demand still under way

vars == <<now, app, wanted, news, status, task, asked, faults, woken>>

Tasks   == {"reconciler", "router", "monitor", "api", "sync"}
Scalers == {"reconciler", "router", "api"}
Row == [desired : Nat, traffic : Nat, zeroed : Nat, retry : Nat]
NoRow == [desired |-> 0, traffic |-> 0, zeroed |-> 0, retry |-> 0]

(* The points of a task: its own, then those of scale_app. *)
Points == {"idle", "survey", "decide", "idleMark", "restoreMark", "minMark", "autoMark",
           "recordVisit", "probe", "visitMark", "loadRow", "setBackoff", "list", "config",
           "count", "spare", "resume", "grow", "shrink", "pausing"}

(* at: its point; since: the time it began; copy: its copy of the row; seen:
   the active jobs it counted; goal: the replicas it asks scale_app for; then:
   where it goes on when scale_app has succeeded; todo: the jobs a loop of
   scale_app has still to go through, boot: its deployments in progress, need:
   those still to begin; ok: no deployment failed. *)
Local == [at : Points, since : Nat, copy : Row, seen : Nat, goal : Nat, then : Points,
          todo : SUBSET Places, boot : SUBSET Places, need : Nat, ok : BOOLEAN]
Free == [at |-> "idle", since |-> 0, copy |-> NoRow, seen |-> 0, goal |-> 0,
         then |-> "idle", todo |-> {}, boot |-> {}, need |-> 0, ok |-> TRUE]

TypeOK ==
  /\ now \in 1 .. MaxTime
  /\ app \in Row
  /\ wanted \in Wanted
  /\ news \in BOOLEAN
  /\ status \in [Places -> {"none", "scheduled", "running", "paused", "failed"}]
  /\ task \in [Tasks -> Local]
  /\ asked \in 0 .. MaxAsked
  /\ faults \in 0 .. MaxFaults
  /\ woken \in {"no", "rewritten", "asked"}

Active == {j \in Places : status[j] \in {"scheduled", "running"}}
Count == Cardinality(Active)
Vacant == {j \in Places : status[j] = "none"}

(* An application that has been deployed and whose replicas all run; the first
   synchronisation, which dates its traffic, may be still to come. *)
Init ==
  /\ now = 1
  /\ wanted \in Wanted
  /\ news \in BOOLEAN
  /\ app = [desired |-> wanted, traffic |-> IF news THEN 0 ELSE 1, zeroed |-> 0, retry |-> 0]
  /\ LET S == CHOOSE S \in SUBSET Places : Cardinality(S) = wanted IN
       status = [j \in Places |-> IF j \in S THEN "running" ELSE "none"]
  /\ task = [p \in Tasks |-> Free]
  /\ asked = 0
  /\ faults = 0
  /\ woken = "asked"

-----------------------------------------------------------------------------
At(p, point) == task[p].at = point
Goto(p, point) == task' = [task EXCEPT ![p].at = point]
Begin(p, point) == At(p, "idle") /\ task' = [task EXCEPT ![p].at = point, ![p].since = now]
End(p) == task' = [task EXCEPT ![p] = Free]

(* Task p calls scale_app(n) and goes on at point "next" when it succeeds. *)
ScaleApp(p, n, next) ==
  task' = [task EXCEPT ![p].at = "count", ![p].goal = n, ![p].then = next]

(* scale_app returns; its callers give up when it failed. *)
Return(p, good) ==
  LET t == task[p] IN
    task' = [task EXCEPT ![p] =
      IF good /\ t.then # "idle"
        THEN [t EXCEPT !.at = t.then, !.todo = {}, !.boot = {}, !.need = 0] ELSE Free]

Fault == faults < MaxFaults /\ faults' = faults + 1
SetStatus(j, s) == status' = [status EXCEPT ![j] = IF @ = "none" THEN @ ELSE s]
Publish == news' = TRUE

rest == <<now, wanted, asked, woken>>

(* Somebody asks for the application. *)
Ask == /\ now <= LastVisit
       /\ asked < MaxAsked /\ asked' = asked + 1
       /\ woken' = "asked"

-----------------------------------------------------------------------------
(* scale_app, called by task p *)

(* The active jobs to go: those not running first. *)
Surplus(k) ==
  {K \in SUBSET Active :
     /\ Cardinality(K) = k
     /\ \A i \in Active \ K, j \in K : status[i] = "scheduled" => status[j] = "scheduled"}

CountReplicas(p) ==
  /\ At(p, "count")
  /\ LET goal == task[p].goal IN
       \/ Count = goal /\ Return(p, TRUE)
       \/ /\ Count > goal
          /\ \E K \in Surplus(Count - goal) :
               task' = [task EXCEPT ![p].at = "shrink", ![p].todo = K]
       \/ /\ Count \in 1 .. (goal - 1)
          /\ task' = [task EXCEPT ![p].at = "grow", ![p].need = goal - Count]
       \/ Count = 0 /\ goal > 0 /\ Goto(p, "spare")
  /\ UNCHANGED <<app, news, status, faults, rest>>

(* From zero: paused jobs are resumed before new ones are deployed; without
   any row to take the deployment's parameters from nothing is done. *)
FindSpare(p) ==
  /\ At(p, "spare")
  /\ LET paused == {j \in Places : status[j] = "paused"}
         goal == task[p].goal IN
       \/ \E K \in SUBSET paused :
            /\ K # {} /\ Cardinality(K) <= goal /\ (Cardinality(K) = goal \/ K = paused)
            /\ task' = [task EXCEPT ![p].at = "resume", ![p].todo = K, ![p].need = goal]
       \/ /\ paused = {} /\ Vacant # Places
          /\ task' = [task EXCEPT ![p].at = "grow", ![p].need = goal]
       \/ Vacant = Places /\ Return(p, TRUE)
  /\ UNCHANGED <<app, news, status, faults, rest>>

(* resume_app: a failure is only logged, a new job is deployed instead. *)
ResumeJob(p, j) ==
  /\ At(p, "resume") /\ j \in task[p].todo
  /\ \/ /\ status[j] # "none"
        /\ SetStatus(j, "running") /\ Publish
        /\ task' = [task EXCEPT ![p].todo = @ \ {j}, ![p].need = @ - 1]
        /\ UNCHANGED faults
     \/ /\ \/ status[j] = "none" /\ UNCHANGED faults
           \/ Fault
        /\ task' = [task EXCEPT ![p].todo = @ \ {j}]
        /\ UNCHANGED <<status, news>>
  /\ UNCHANGED <<app, rest>>

Resumed(p) ==
  /\ At(p, "resume") /\ task[p].todo = {}
  /\ IF task[p].need = 0 THEN Return(p, TRUE) ELSE Goto(p, "grow")
  /\ UNCHANGED <<app, news, status, faults, rest>>

(* A new job has a new id: its place is one that no task remembers.  Free
   places are interchangeable. *)
Fresh == {j \in Vacant : \A p \in Tasks : j \notin task[p].todo \cup task[p].boot}

(* deploy_app, for all missing replicas at the same time. *)
DeployBegins(p) ==
  /\ At(p, "grow") /\ task[p].need > 0
  /\ \/ /\ Fresh # {}
        /\ LET j == CHOOSE j \in Fresh : TRUE IN
             /\ status' = [status EXCEPT ![j] = "scheduled"]
             /\ task' = [task EXCEPT ![p].need = @ - 1, ![p].boot = @ \cup {j}]
     \/ /\ Fresh = {}
        /\ task' = [task EXCEPT ![p].need = @ - 1, ![p].ok = FALSE]
        /\ UNCHANGED status
  /\ UNCHANGED <<app, news, faults, rest>>

DeployEnds(p, j) ==
  /\ At(p, "grow") /\ j \in task[p].boot
  /\ \/ /\ SetStatus(j, "running") /\ Publish
        /\ task' = [task EXCEPT ![p].boot = @ \ {j}]
        /\ UNCHANGED faults
     \/ /\ status' = [status EXCEPT ![j] = "none"] /\ Fault
        /\ task' = [task EXCEPT ![p].boot = @ \ {j}, ![p].ok = FALSE]
        /\ UNCHANGED news
  /\ UNCHANGED <<app, rest>>

Grown(p) ==
  /\ At(p, "grow") /\ task[p].need = 0 /\ task[p].boot = {}
  /\ Return(p, task[p].ok)
  /\ UNCHANGED <<app, news, status, faults, rest>>

(* delete_app; a job that is gone already ends scale_app with an error. *)
DeleteJob(p, j) ==
  /\ At(p, "shrink") /\ task[p].goal > 0 /\ j \in task[p].todo
  /\ \/ /\ status[j] # "none"
        /\ status' = [status EXCEPT ![j] = "none"] /\ Publish
        /\ task' = [task EXCEPT ![p].todo = @ \ {j}]
     \/ status[j] = "none" /\ Return(p, FALSE) /\ UNCHANGED <<status, news>>
  /\ UNCHANGED <<app, faults, rest>>

(* Somebody came by since the row was marked as scaled to zero. *)
Busy == app.traffic > app.zeroed /\ now < app.traffic + IdleTimeout

(* pause_app, its checks: a paused job and a busy application are left alone. *)
CheckPause(p, j) ==
  /\ At(p, "shrink") /\ task[p].goal = 0 /\ j \in task[p].todo
  /\ \/ status[j] = "none" /\ Return(p, FALSE)
     \/ /\ status[j] # "none" /\ (status[j] = "paused" \/ Busy)
        /\ task' = [task EXCEPT ![p].todo = @ \ {j}]
     \/ /\ status[j] \notin {"none", "paused"} /\ ~Busy
        /\ task' = [task EXCEPT ![p].at = "pausing", ![p].todo = @ \ {j}, ![p].boot = {j}]
  /\ UNCHANGED <<app, news, status, faults, rest>>

(* pause_app, after the agent has paused or stopped the VM. *)
PauseJob(p, j) ==
  /\ At(p, "pausing") /\ j \in task[p].boot
  /\ \/ /\ SetStatus(j, "paused") /\ Publish
        /\ task' = [task EXCEPT ![p].at = "shrink", ![p].boot = {}]
        /\ UNCHANGED faults
     \/ Fault /\ Return(p, FALSE) /\ UNCHANGED <<status, news>>
  /\ UNCHANGED <<app, rest>>

Shrunk(p) ==
  /\ At(p, "shrink") /\ task[p].todo = {}
  /\ Return(p, TRUE)
  /\ UNCHANGED <<app, news, status, faults, rest>>

Scale(p) ==
  \/ CountReplicas(p) \/ FindSpare(p) \/ Resumed(p) \/ DeployBegins(p) \/ Grown(p) \/ Shrunk(p)
  \/ \E j \in Places : \/ ResumeJob(p, j) \/ DeployEnds(p, j)
                     \/ DeleteJob(p, j) \/ CheckPause(p, j) \/ PauseJob(p, j)

-----------------------------------------------------------------------------
(* The reconciler *)

(* list_all_apps: everything below works with this copy of the row. *)
ReadApps ==
  /\ At("reconciler", "idle")
  /\ task' = [task EXCEPT !["reconciler"] =
                [@ EXCEPT !.at = "survey", !.since = now, !.copy = app]]
  /\ UNCHANGED <<app, news, status, faults, rest>>

(* list_jobs, a look at the clock, reconcile_app_state_initialization. *)
SurveyJobs ==
  /\ At("reconciler", "survey")
  /\ LET t == task["reconciler"]
         start == Count > 0 /\ MinReplicas = 0 /\ t.copy.desired > 0 /\ t.copy.traffic = 0
         clear == Count > 0 /\ t.copy.retry > 0
         row == [t.copy EXCEPT !.traffic = IF start THEN now ELSE @,
                               !.retry = IF clear THEN 0 ELSE @] IN
       /\ task' = [task EXCEPT !["reconciler"] =
                     [@ EXCEPT !.at = "decide", !.since = now, !.seen = Count, !.copy = row]]
       /\ app' = IF start \/ clear THEN row ELSE app
  /\ UNCHANGED <<news, status, faults, rest>>

Copy == task["reconciler"].copy
Seen == task["reconciler"].seen
Since == task["reconciler"].since

Idle == /\ Seen > 0 /\ MinReplicas = 0 /\ Copy.traffic > 0
        /\ Since >= Copy.traffic + IdleTimeout
Unborn == Seen = 0 /\ Copy.zeroed = 0 /\ Copy.traffic = 0
Restorable == Seen = 0 /\ MinReplicas = 0 /\ Copy.desired > 0 /\ Copy.traffic > Copy.zeroed
Blocked(row, time) == row.retry > 0 /\ time < row.retry

(* Nobody but the reconciler has anything under way. *)
AtRest == ~news /\ \A p \in Tasks \ {"reconciler"} : At(p, "idle")

(* Mutant: the mark is not stored. *)
MarkIdleLate ==
  /\ At("reconciler", "decide") /\ Idle
  /\ ScaleApp("reconciler", 0, "idle")
  /\ woken' = IF AtRest THEN "no" ELSE woken
  /\ UNCHANGED <<now, wanted, asked, app, news, status, faults>>

(* reconcile_idle_timeout: the mark is set before the replicas are paused. *)
MarkIdle ==
  /\ At("reconciler", "decide") /\ Idle
  /\ app' = [Copy EXCEPT !.zeroed = Since]
  /\ ScaleApp("reconciler", 0, "idle")
  /\ woken' = IF AtRest THEN "no" ELSE woken
  /\ UNCHANGED <<now, wanted, asked, news, status, faults>>

(* reconcile_restore_from_zero *)
MarkUnborn ==
  /\ At("reconciler", "decide") /\ ~Idle /\ Unborn
  /\ app' = [Copy EXCEPT !.zeroed = Since]
  /\ End("reconciler")
  /\ UNCHANGED <<news, status, faults, rest>>

Restore ==
  /\ At("reconciler", "decide") /\ ~Idle /\ ~Unborn /\ Restorable
  /\ IF Blocked(Copy, Since)
       THEN End("reconciler")
       ELSE ScaleApp("reconciler", Copy.desired, "restoreMark")
  /\ UNCHANGED <<app, news, status, faults, rest>>

MarkRestored ==
  /\ At("reconciler", "restoreMark")
  /\ app' = [Copy EXCEPT !.zeroed = Since, !.retry = 0]
  /\ End("reconciler")
  /\ UNCHANGED <<news, status, faults, rest>>

RaiseToMinimum ==
  /\ At("reconciler", "decide") /\ Seen = 0 /\ ~Unborn /\ MinReplicas > 0
  /\ ScaleApp("reconciler", MinReplicas, "minMark")
  /\ UNCHANGED <<app, news, status, faults, rest>>

MarkMinimum ==
  /\ At("reconciler", "minMark")
  /\ app' = [Copy EXCEPT !.desired = MinReplicas]
  /\ End("reconciler")
  /\ UNCHANGED <<news, status, faults, rest>>

(* Neither idle nor at zero with a reason to leave it. *)
Steady == ~Idle /\ ~Unborn /\ ~Restorable /\ ~(Seen = 0 /\ MinReplicas > 0)

(* autoscale_next_replicas *)
NextReplicas(n, load) ==
  CASE load = "high" -> IF n + 1 <= MaxReplicas THEN n + 1 ELSE MaxReplicas
    [] load = "low" /\ n > MinReplicas -> n - 1
    [] OTHER -> n

(* reconcile_autoscaling: only active replicas have metrics. *)
Autoscale(load) ==
  /\ At("reconciler", "decide") /\ Steady /\ Autoscaling
  /\ Seen = 0 => load = "none"
  /\ LET goal == NextReplicas(Seen, load) IN
       IF goal = Seen
         THEN End("reconciler")
         ELSE task' = [task EXCEPT !["reconciler"] =
                [@ EXCEPT !.at = "count", !.goal = goal, !.then = "autoMark"]]
  /\ UNCHANGED <<app, news, status, faults, rest>>

MarkAutoscaled ==
  /\ At("reconciler", "autoMark")
  /\ app' = [Copy EXCEPT !.desired = task["reconciler"].goal]
  /\ End("reconciler")
  /\ UNCHANGED <<news, status, faults, rest>>

(* Mutant: replicas are added, never taken away. *)
ScaleManuallyUp ==
  /\ At("reconciler", "decide") /\ Steady /\ ~Autoscaling
  /\ IF Seen >= Copy.desired
       THEN End("reconciler")
       ELSE ScaleApp("reconciler", Copy.desired, "idle")
  /\ UNCHANGED <<app, news, status, faults, rest>>

(* reconcile_manual_scaling: whatever the reason for the difference. *)
ScaleManually ==
  /\ At("reconciler", "decide") /\ Steady /\ ~Autoscaling
  /\ IF Seen = Copy.desired
       THEN End("reconciler")
       ELSE ScaleApp("reconciler", Copy.desired, "idle")
  /\ UNCHANGED <<app, news, status, faults, rest>>

Reconciler ==
  \/ ReadApps \/ SurveyJobs \/ MarkIdle \/ MarkUnborn \/ Restore \/ MarkRestored
  \/ RaiseToMinimum \/ MarkMinimum \/ (\E load \in Loads : Autoscale(load))
  \/ MarkAutoscaled \/ ScaleManually \/ Scale("reconciler")

-----------------------------------------------------------------------------
(* The handler of router traffic.  The restore guard of the application lets
   one handler in; events that arrive meanwhile are dropped. *)
Visit ==
  /\ Ask
  /\ At("router", "idle")
  /\ task' = [task EXCEPT !["router"] =
                [@ EXCEPT !.at = "recordVisit", !.since = now, !.copy = app]]
  /\ UNCHANGED <<now, app, wanted, news, status, faults>>

RecordVisit ==
  /\ At("router", "recordVisit")
  /\ LET t == task["router"] IN
       /\ app' = [t.copy EXCEPT !.traffic = t.since]
       /\ task' = [task EXCEPT !["router"] =
                     [@ EXCEPT !.at = "probe", !.copy.traffic = t.since]]
  /\ UNCHANGED <<now, wanted, news, status, asked, faults, woken>>

(* Mutant: a paused job counts as a replica. *)
ProbeRows ==
  /\ At("router", "probe")
  /\ LET t == task["router"] IN
       IF Vacant = Places /\ t.copy.desired > 0 /\ ~Blocked(t.copy, t.since)
         THEN ScaleApp("router", t.copy.desired, "visitMark")
         ELSE End("router")
  /\ UNCHANGED <<app, news, status, faults, rest>>

Probe ==
  /\ At("router", "probe")
  /\ LET t == task["router"] IN
       IF Count = 0 /\ t.copy.desired > 0 /\ ~Blocked(t.copy, t.since)
         THEN ScaleApp("router", t.copy.desired, "visitMark")
         ELSE End("router")
  /\ UNCHANGED <<app, news, status, faults, rest>>

MarkVisited ==
  /\ At("router", "visitMark")
  /\ LET t == task["router"] IN app' = [t.copy EXCEPT !.zeroed = t.since, !.retry = 0]
  /\ End("router")
  /\ UNCHANGED <<news, status, faults, rest>>

Router == RecordVisit \/ Probe \/ MarkVisited \/ Scale("router")

-----------------------------------------------------------------------------
(* process_vm_failure: the job, then the backoff in the application's row. *)
VmFails(j) ==
  /\ now <= LastVisit
  /\ status[j] \in {"scheduled", "running", "paused"}
  /\ Begin("monitor", "loadRow")
  /\ SetStatus(j, "failed")
  /\ Fault
  /\ UNCHANGED <<app, news, rest>>

LoadRow ==
  /\ At("monitor", "loadRow")
  /\ task' = [task EXCEPT !["monitor"] = [@ EXCEPT !.at = "setBackoff", !.copy = app]]
  /\ UNCHANGED <<app, news, status, faults, rest>>

SetBackoff ==
  /\ At("monitor", "setBackoff")
  /\ LET t == task["monitor"] IN app' = [t.copy EXCEPT !.retry = t.since + Backoff]
  /\ Publish
  /\ End("monitor")
  /\ UNCHANGED <<status, faults, rest>>

-----------------------------------------------------------------------------
(* The API *)

(* scale_app_handler: its own database, the scheduler's scale_app when the
   application scales manually, then the row. *)
RequestScale(n) ==
  /\ Ask
  /\ At("api", "idle")
  /\ wanted' = n
  /\ task' = [task EXCEPT !["api"] =
                [@ EXCEPT !.at = IF Autoscaling THEN "config" ELSE "count",
                          !.since = now, !.goal = n, !.then = "config"]]
  /\ UNCHANGED <<now, app, news, status, faults>>

(* update_app_scaling_config: no column keeps its value. *)
WriteConfig(p) ==
  /\ At(p, "config")
  /\ app' = [desired |-> task[p].goal, traffic |-> now, zeroed |-> 0, retry |-> 0]
  /\ woken' = IF p = "sync" /\ woken = "no" THEN "rewritten" ELSE woken
  /\ End(p)
  /\ UNCHANGED <<now, wanted, news, status, asked, faults>>

(* sync_deployment_state, after a job update: it reads the API's own row. *)
Synchronise ==
  /\ news /\ news' = FALSE
  /\ At("sync", "idle")
  /\ task' = [task EXCEPT !["sync"] = [@ EXCEPT !.at = "list", !.since = now, !.goal = wanted]]
  /\ UNCHANGED <<app, status, faults, rest>>

(* notify_router: the row is rewritten when the scheduler lists a running job;
   the scheduler or the router may fail to answer. *)
NotifyRouter ==
  /\ At("sync", "list")
  /\ \/ /\ IF \E j \in Places : status[j] = "running" THEN Goto("sync", "config") ELSE End("sync")
        /\ UNCHANGED faults
     \/ Fault /\ End("sync")
  /\ UNCHANGED <<app, news, status, rest>>

-----------------------------------------------------------------------------
Tick ==
  /\ now < MaxTime
  /\ ~news
  /\ \A p \in Tasks : At(p, "idle") \/ task[p].since = now
  /\ now' = now + 1
  /\ UNCHANGED <<app, wanted, news, status, task, asked, faults, woken>>

Next ==
  \/ Reconciler
  \/ Visit \/ Router
  \/ (\E j \in Places : VmFails(j)) \/ LoadRow \/ SetBackoff
  \/ (\E n \in Wanted : RequestScale(n)) \/ Scale("api")
  \/ WriteConfig("api") \/ Synchronise \/ NotifyRouter \/ WriteConfig("sync")
  \/ Tick

Spec == Init /\ [][Next]_vars

(* The reconciler runs every two seconds, handlers that have begun go on, the
   API reacts to job updates, and time passes. *)
Fairness ==
  /\ WF_vars(Reconciler) /\ WF_vars(Router) /\ WF_vars(LoadRow \/ SetBackoff)
  /\ WF_vars(Scale("api") \/ WriteConfig("api"))
  /\ WF_vars(Synchronise) /\ WF_vars(NotifyRouter \/ WriteConfig("sync"))
  /\ WF_vars(Tick)

FairSpec == Spec /\ Fairness

-----------------------------------------------------------------------------
(* Properties *)

(* An autoscaled application that was found idle and has no active replica any
   more stays at zero until a visitor or its owner asks for it, or the API
   rewrites its row: no stale copy of the row and no reconciliation brings it
   back (reconcile_idle_timeout, reconcile_restore_from_zero). *)
WakesOnlyOnDemand ==
  [][Autoscaling /\ woken = "no" /\ Count = 0 => Active' = {}]_vars

(* An application that was found idle and has no active replica any more stays
   at zero until somebody asks for it, whatever way it is scaled: so the CLI
   tells its user, and a test of the reconciler its reader. *)
StaysAtZero == [][woken # "asked" /\ Count = 0 => Active' = {}]_vars

(* The reconciler takes replicas away because of low load. *)
ShedsLoad == LET t == task["reconciler"] IN t.then = "autoMark" /\ t.goal < t.seen

(* A visitor whose visit is handled while the application is at zero gets it
   started, as long as nothing fails and low load does not take replicas away:
   a copy of the row written late forgets no visit. *)
WakesUp ==
  [](faults = 0 /\ ~ShedsLoad) => ((At("router", "recordVisit") /\ Active = {}) ~> Active # {})

(* Whatever concurrent calls of scale_app have deployed too much or deleted too
   much, and whatever failed, the replicas end up as many as the row says, as
   long as one row of the jobs table is left to take the parameters of a
   deployment from. *)
ReplicasReturn == <>[](Count = app.desired \/ Vacant = Places)
=============================================================================
