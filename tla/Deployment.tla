----------------------------- MODULE Deployment -----------------------------
(***************************************************************************)
(* The deployments of ONE application as the API runs them: a request      *)
(* creates a deployment, at most one flow per application goes on with it  *)
(* (a build, the placement by the scheduler, the health check, the         *)
(* promotion and the end of the previous version), while the listener of   *)
(* job updates writes the same rows and sends the same route.              *)
(*                                                                         *)
(* Every task is a sequence of awaits: a task is a program counter, what   *)
(* it read from the database before, and the list of targets it is about   *)
(* to send.  Rare events (a restart of the API, a failed call, a request   *)
(* of a user that is not a deployment, a route overtaken by another) are   *)
(* remembered in "rare", so that a property can say which of them it needs *)
(* to be absent.                                                           *)
(*                                                                         *)
(* The application wants one replica and is scaled by hand.  Every two     *)
(* seconds, and at the end of a flow, the scheduler counts the running     *)
(* jobs of all its deployments together and deletes those in excess, in no *)
(* order: which of them, and the deletion, are two steps here.             *)
(***************************************************************************)
EXTENDS Naturals, FiniteSets

CONSTANTS
  Deps,       (* deployments of the application                             *)
  First,      (* the one that serves the application at the start           *)
  Tasks,      (* slots for request handlers and background flows            *)
  Listeners,  (* slots for tasks of the job update listener                 *)
  None,
  MaxRare,    (* bound on the kinds of rare events of one behaviour, each   *)
              (* happens once; those of Uncounted are not                   *)
  MaxAsked,   (* bound on the deployments asked for in a behaviour with a   *)
              (* counted rare event                                         *)
  MaxSurplus  (* bound on the jobs that scale_app deletes in a behaviour    *)

ASSUME DeploymentAssumption ==
  /\ First \in Deps
  /\ None \notin Deps \cup Tasks \cup Listeners
  /\ Tasks \cap Listeners = {}
  /\ MaxRare \in Nat /\ MaxAsked \in Nat /\ MaxSurplus \in Nat

VARIABLES
  row,     (* status of the deployment's row, "none" when there is no row   *)
  job,     (* deployments whose row has a job id                            *)
  build,   (* deployments whose row has a build id                          *)
  active,  (* apps.active_deployment_id                                     *)
  vm,      (* what the scheduler has of the deployment's job                *)
  surplus, (* deployments whose job scale_app is about to delete            *)
  routed,  (* targets the router has for the application's host             *)
  holder,  (* the task that holds the application's flow guard              *)
  task,    (* the tasks of the API                                          *)
  temp,    (* "pending" updates published by trigger_build, not yet heard   *)
  resumed, (* builds the restarted API has still to pick up                 *)
  rare     (* the rare events that have happened                            *)

vars == <<row, job, build, active, vm, surplus, routed, holder, task, temp, resumed, rare>>
store == <<row, job, build, active>>
api == <<holder, temp, resumed, surplus>>

RowStatuses == {"none", "BUILDING", "PENDING", "RUNNING", "DRAINING", "PAUSED", "STOPPED",
                "FAILED", "CANCELLED"}
VmStates == {"none", "running", "paused", "cancelled", "failed", "gone"}
Kinds == {"image", "build", "now", "resume", "record", "pause", "stop", "start", "sync"}
RareEvents == {"restart", "fault", "user", "overtaken", "outdated", "scaled"}
Uncounted == {"overtaken", "outdated"}
Slots == Tasks \cup Listeners

(* Program counters of a task that has been given the flow guard. *)
Guarded == {"build", "request", "schedule", "placed", "resume", "mark", "health", "undo", "undopause",
            "undofail", "promote", "list", "send", "drain", "drained", "scale"}
Counters == {"idle", "guard", "poll", "built", "vm", "row", "look", "ask", "apply"} \cup Guarded

Idle == [pc |-> "idle", kind |-> "sync", dep |-> None, seen |-> None, old |-> None, list |-> {},
         status |-> "none"]

(*------------------------------ The scheduler ----------------------------*)
(* status_name: the status the API gives to a job of the scheduler. *)
StatusName(d) ==
  CASE vm[d] = "running" -> "RUNNING"
    [] vm[d] = "paused" -> "PAUSED"
    [] vm[d] = "cancelled" -> "CANCELLED"
    [] vm[d] = "failed" -> "FAILED"
    [] OTHER -> "UNKNOWN"

RunningJobs == {d \in Deps : vm[d] = "running"}

(*---------------------------- Tasks and the guard ------------------------*)
Asked == Cardinality({d \in Deps \ {First} : row[d] # "none" \/ vm[d] # "none"})
Rare(e) ==
  /\ Asked <= MaxAsked
  /\ e \notin rare /\ Cardinality(rare \ Uncounted) < MaxRare
  /\ rare' = rare \cup {e}
Note(e, happens) == rare' = IF happens THEN rare \cup {e} ELSE rare

(* The scheduler pauses the job of deployment d.  Where it could not, it answers "no success", *)
(* which the flows do not look at.                                                             *)
PauseJob(d) ==
  \/ vm' = (IF vm[d] \in {"running", "cancelled"} THEN [vm EXCEPT ![d] = "paused"] ELSE vm) /\ UNCHANGED rare
  \/ vm[d] = "running" /\ UNCHANGED vm /\ Rare("fault")

(* scale_app: of the running jobs more than one is too many, and which of them is left is open; *)
(* with none running, one that is paused is resumed, or another one is deployed again.          *)
ScaleDown ==
  /\ \E one \in RunningJobs : RunningJobs # {one} /\ surplus' = surplus \cup (RunningJobs \ {one})
  /\ Cardinality(surplus' \cup {d \in Deps : vm[d] = "gone"}) <= MaxSurplus
  /\ UNCHANGED vm

Template(d) ==
  \/ vm[d] = "paused"
  \/ vm[d] \in {"cancelled", "failed"} /\ \A e \in Deps : vm[e] # "paused"

ScaleUp ==
  /\ RunningJobs = {}
  /\ \E d \in Deps : Template(d) /\ vm' = [vm EXCEPT ![d] = "running"]
  /\ UNCHANGED surplus

(* Or one runs already, or the call fails, which its callers only log. *)
ScaleApp == ScaleDown \/ ScaleUp \/ UNCHANGED <<vm, surplus>>

Goto(t, pc) == task' = [task EXCEPT ![t].pc = pc]

(* The task ends; dropping the guard removes the application from active_deployment_flows. *)
End(t) ==
  /\ task' = [task EXCEPT ![t] = Idle]
  /\ holder' = IF holder = t THEN None ELSE holder

(* A call of the task fails and "?" ends it where it is. *)
Abort(t) == Rare("fault") /\ End(t) /\ UNCHANGED <<store, vm, routed, temp, resumed, surplus>>

(* Mutant: the application is inserted whether it is in the set or not. *)
TryStartFlowAnyway(t) == holder' = t

TryStartFlow(t) == holder = None /\ holder' = t

(* update_deployment: the status and, where given, the job id of a row that exists. *)
SetStatus(d, status) == row' = IF row[d] = "none" THEN row ELSE [row EXCEPT ![d] = status]

(*------------------------------- Requests --------------------------------*)
(* deploy_app, deploy_app_version, trigger_app_build: the application is read, then its row. *)
Ask(t, d, kind) ==
  /\ task[t] = Idle
  /\ row[d] = "none" /\ vm[d] = "none"
  /\ rare \subseteq Uncounted \/ Asked < MaxAsked
  /\ row' = [row EXCEPT ![d] = "BUILDING"]
  /\ task' = [task EXCEPT ![t] = [Idle EXCEPT !.pc = "guard", !.kind = kind, !.dep = d,
                                             !.seen = active]]
  /\ UNCHANGED <<job, build, active, vm, routed, api, rare>>

(* Where a task goes once it has the guard. *)
AfterGuard(kind) ==
  CASE kind = "image" -> "schedule"
    [] kind = "build" -> "build"
    [] kind = "now" -> "promote"
    [] kind = "resume" -> "resume"

TakeGuard(t) ==
  /\ task[t].pc = "guard"
  /\ TryStartFlow(t)
  /\ Goto(t, AfterGuard(task[t].kind))
  /\ UNCHANGED <<store, vm, routed, temp, resumed, surplus, rare>>

(* "A deployment flow is already in progress": the row of the request stays as it is. *)
GuardRefused(t) ==
  /\ task[t].pc = "guard"
  /\ holder # None
  /\ End(t)
  /\ UNCHANGED <<store, vm, routed, temp, resumed, surplus, rare>>

(*--------------------------------- Builds --------------------------------*)
(* trigger_build: BUILDING is written and a pending job update is published. *)
TriggerBuild(t) ==
  /\ task[t].pc = "build"
  /\ SetStatus(task[t].dep, "BUILDING")
  /\ temp' = temp \cup {task[t].dep}
  /\ Goto(t, "request")
  /\ UNCHANGED <<job, build, active, vm, routed, holder, resumed, surplus, rare>>

BuildAccepted(t) ==
  /\ task[t].pc = "request"
  /\ SetStatus(task[t].dep, "BUILDING")
  /\ build' = build \cup {task[t].dep}
  /\ Goto(t, "poll")
  /\ UNCHANGED <<job, active, vm, routed, api, rare>>

BuildRefused(t) ==
  /\ task[t].pc = "request"
  /\ SetStatus(task[t].dep, "FAILED")
  /\ End(t)
  /\ UNCHANGED <<job, build, active, vm, routed, temp, resumed, surplus, rare>>

(* poll_and_deploy, build successful: the application and the deployment are read again ... *)
BuildSucceeded(t) ==
  /\ task[t].pc = "poll"
  /\ IF row[task[t].dep] = "none" THEN End(t)
       ELSE task' = [task EXCEPT ![t].pc = "built", ![t].seen = active] /\ UNCHANGED holder
  /\ UNCHANGED <<store, vm, routed, temp, resumed, surplus, rare>>

(* ... and the guard is taken, unless the task has it; a task that cannot have it leaves the *)
(* deployment BUILDING.                                                                      *)
DeployBuilt(t) ==
  /\ task[t].pc = "built"
  /\ \/ holder = t /\ Goto(t, "schedule") /\ UNCHANGED holder
     \/ holder # t /\ TryStartFlow(t) /\ Goto(t, "schedule")
     \/ holder \notin {t, None} /\ End(t)
  /\ UNCHANGED <<store, vm, routed, temp, resumed, surplus, rare>>

BuildFailed(t) ==
  /\ task[t].pc = "poll"
  /\ SetStatus(task[t].dep, "FAILED")
  /\ End(t)
  /\ UNCHANGED <<job, build, active, vm, routed, temp, resumed, surplus, rare>>

(*-------------------------- deploy_to_scheduler --------------------------*)
(* The scheduler has placed the deployment and its VM runs, or it answers that this failed. *)
Schedule(t) ==
  /\ task[t].pc = "schedule"
  /\ \E state \in {"running", "failed"} :
       /\ vm' = [vm EXCEPT ![task[t].dep] = state]
       /\ task' = [task EXCEPT ![t].pc = "placed",
                              ![t].status = IF state = "running" THEN "RUNNING" ELSE "FAILED"]
  /\ UNCHANGED <<store, routed, api, rare>>

(* The answer is written.  Where it says "failed" the build worker stops, and a direct *)
(* deployment goes on all the same.                                                    *)
Scheduled(t) ==
  /\ task[t].pc = "placed"
  /\ SetStatus(task[t].dep, task[t].status)
  /\ job' = IF row[task[t].dep] = "none" THEN job ELSE job \cup {task[t].dep}
  /\ IF task[t].kind = "build" /\ task[t].status = "FAILED" THEN End(t)
       ELSE task' = [task EXCEPT ![t].pc = "mark", ![t].status = "none"] /\ UNCHANGED holder
  /\ UNCHANGED <<build, active, vm, routed, temp, resumed, surplus, rare>>

(* No answer in time: the row says FAILED, and the VM may have been started all the same. *)
ScheduleUnanswered(t) ==
  /\ task[t].pc = "schedule"
  /\ Rare("fault")
  /\ \/ vm' = [vm EXCEPT ![task[t].dep] = "running"]
     \/ UNCHANGED vm
  /\ SetStatus(task[t].dep, "FAILED")
  /\ End(t)
  /\ UNCHANGED <<job, build, active, routed, temp, resumed, surplus>>

(*----------------------- The zero-downtime flow --------------------------*)
(* mark_previous_deployment_draining: the application is read once more; what the flow read *)
(* before it had the guard may be outdated by now.                                          *)
MarkDraining(t) ==
  /\ task[t].pc = "mark"
  /\ task' = [task EXCEPT ![t].old = active, ![t].pc = "health"]
  /\ IF active = None THEN UNCHANGED row ELSE SetStatus(active, "DRAINING")
  /\ Note("outdated", active # task[t].seen)
  /\ UNCHANGED <<job, build, active, vm, routed, api>>

(* Mutant: the answer of the health check is not looked at. *)
HealthyAnyway(t) ==
  /\ task[t].pc = "health"
  /\ Goto(t, "promote")
  /\ UNCHANGED <<store, vm, routed, api, rare>>

Healthy(t) ==
  /\ task[t].pc = "health"
  /\ vm[task[t].dep] = "running"
  /\ Goto(t, "promote")
  /\ UNCHANGED <<store, vm, routed, api, rare>>

(* No attempt of the health check has been answered with "healthy". *)
Unhealthy(t) ==
  /\ task[t].pc = "health"
  /\ Goto(t, "undo")
  /\ UNCHANGED <<store, vm, routed, api, rare>>

(* rollback_failed_promotion: the previous version's row, the new VM, the new row. *)
UndoDraining(t) ==
  /\ task[t].pc = "undo"
  /\ IF task[t].old = None THEN UNCHANGED row ELSE SetStatus(task[t].old, "RUNNING")
  /\ Goto(t, "undopause")
  /\ UNCHANGED <<job, build, active, vm, routed, api, rare>>

(* Mutant: the rollback leaves the new VM alone. *)
UndoVmNot(t) ==
  /\ task[t].pc = "undopause"
  /\ Goto(t, "undofail")
  /\ UNCHANGED <<store, vm, routed, api, rare>>

UndoVm(t) ==
  /\ task[t].pc = "undopause"
  /\ PauseJob(task[t].dep)
  /\ Goto(t, "undofail")
  /\ UNCHANGED <<store, routed, api>>

UndoRow(t) ==
  /\ task[t].pc = "undofail"
  /\ SetStatus(task[t].dep, "FAILED")
  /\ End(t)
  /\ UNCHANGED <<job, build, active, vm, routed, temp, resumed, surplus, rare>>

(* promote_deployment_to_active; a deployment whose row is gone cannot be made active. *)
Promote(t) ==
  /\ task[t].pc = "promote"
  /\ IF row[task[t].dep] = "none"
       THEN End(t) /\ UNCHANGED active
       ELSE active' = task[t].dep /\ Goto(t, "list") /\ UNCHANGED holder
  /\ UNCHANGED <<row, job, build, vm, routed, temp, resumed, surplus, rare>>

(* notify_router: the running jobs of the application are listed, then sent to the router. *)
ListTargets(t) ==
  /\ task[t].pc = "list"
  /\ task' = [task EXCEPT ![t].list = RunningJobs, ![t].pc = "send"]
  /\ UNCHANGED <<store, vm, routed, api, rare>>

(* The version a flow drains: the one its own, early copy of the application had as active. *)
(* The immediate promotion of a running deployment leaves the deployment itself out.        *)
Previous(t) ==
  IF task[t].kind = "now" /\ task[t].seen = task[t].dep THEN None ELSE task[t].seen

Drains(t) == task[t].kind \notin {"sync", "record"} /\ Previous(t) \in job

(* Only the flow with a health check asks for the desired replicas at its end. *)
Scales(t) == task[t].kind \in {"image", "build", "resume"}

AfterSend(t) ==
  IF Drains(t) \/ Scales(t)
    THEN /\ task' = [task EXCEPT ![t].pc = IF Drains(t) THEN "drain" ELSE "scale", ![t].list = {}]
         /\ UNCHANGED holder
    ELSE End(t)

(* The list may be out of date when it is sent: another task's newer list may be there already. *)
SendTargets(t) ==
  /\ task[t].pc = "send"
  /\ routed' = task[t].list
  /\ Note("overtaken", task[t].list # RunningJobs)
  /\ AfterSend(t)
  /\ UNCHANGED <<store, vm, temp, resumed, surplus>>

(* The router takes an update for older than, or as old as, the one it has, and says "success". *)
SendOvertaken(t) ==
  /\ task[t].pc = "send"
  /\ Note("overtaken", TRUE)
  /\ AfterSend(t)
  /\ UNCHANGED <<store, vm, routed, temp, resumed, surplus>>

(* drain_previous_deployment_after_promotion: the VM, then the row. *)
DrainVm(t) ==
  /\ task[t].pc = "drain"
  /\ PauseJob(Previous(t))
  /\ Goto(t, "drained")
  /\ UNCHANGED <<store, routed, api>>

DrainRow(t) ==
  /\ task[t].pc = "drained"
  /\ SetStatus(Previous(t), "PAUSED")
  /\ IF Scales(t) THEN Goto(t, "scale") /\ UNCHANGED holder ELSE End(t)
  /\ UNCHANGED <<job, build, active, vm, routed, temp, resumed, surplus, rare>>

(* "Ensuring desired replicas after promotion". *)
ScaleAfter(t) ==
  /\ task[t].pc = "scale"
  /\ ScaleApp
  /\ End(t)
  /\ UNCHANGED <<store, routed, temp, resumed, rare>>

CallFails(t) ==
  /\ task[t].pc \in {"undo", "undopause", "undofail", "list", "send", "drain", "drained", "scale"}
  /\ Abort(t)

(*------------------------ Other requests of a user -----------------------*)
(* activate_deployment: the application, the row and the job's status (the row's where the  *)
(* scheduler does not answer) are read without the guard; a deployment without a job is made *)
(* active at once, and without the guard.                                                    *)
Activate(t, d) ==
  /\ task[t] = Idle /\ row[d] # "none"
  /\ Rare("user")
  /\ \E kind \in {"record", "now", "resume"}, status \in {StatusName(d), row[d]} :
       /\ (kind = "record") <=> (d \notin job)
       /\ CASE kind = "record" -> row[d] # "FAILED"
            [] kind = "now" -> status = "RUNNING"
            [] kind = "resume" -> status \in {"PAUSED", "STOPPED", "UNKNOWN"}
       /\ task' = [task EXCEPT ![t] = [Idle EXCEPT !.dep = d, !.kind = kind, !.seen = active,
                                  !.pc = IF kind = "record" THEN "promote" ELSE "guard"]]
  /\ UNCHANGED <<store, vm, routed, api>>

(* resume_or_recover_deployment: the VM is resumed and the row says so ... *)
Resumed(t) ==
  /\ vm[task[t].dep] \notin {"none", "gone"}
  /\ vm' = [vm EXCEPT ![task[t].dep] = "running"]
  /\ SetStatus(task[t].dep, "RUNNING")

ResumeForFlow(t) ==
  /\ task[t].pc = "resume"
  /\ Resumed(t)
  /\ Goto(t, "mark")
  /\ UNCHANGED <<job, build, active, routed, api, rare>>

(* ... or a fresh replica is asked for, and nothing more is done with this deployment. *)
Recreated(t) ==
  /\ task[t].pc = "resume"
  /\ ScaleApp
  /\ End(t)
  /\ UNCHANGED <<store, routed, temp, resumed, rare>>

(* pause_deployment, stop_deployment, resume_deployment: the job, then the row, no guard.  The *)
(* scheduler cancels a stopped job and does not touch its VM; it resumes whatever it is asked. *)
Manual(t, d, kind) ==
  /\ task[t] = Idle /\ d \in job
  /\ kind \in {"pause", "stop", "start"}
  /\ Rare("user")
  /\ task' = [task EXCEPT ![t] = [Idle EXCEPT !.pc = "vm", !.kind = kind, !.dep = d]]
  /\ UNCHANGED <<store, vm, routed, api>>

ManualVm(t) ==
  LET d == task[t].dep IN
  /\ task[t].pc = "vm"
  /\ vm[d] \notin {"none", "gone"}
  /\ vm' = [vm EXCEPT ![d] = CASE task[t].kind = "pause" -> "paused"
                                [] task[t].kind = "stop" -> "cancelled"
                                [] task[t].kind = "start" -> "running"]
  /\ Goto(t, "row")
  /\ UNCHANGED <<store, routed, api, rare>>

ManualRefused(t) ==
  /\ task[t].pc = "vm"
  /\ End(t)
  /\ UNCHANGED <<store, vm, routed, temp, resumed, surplus, rare>>

ManualRow(t) ==
  /\ task[t].pc = "row"
  /\ SetStatus(task[t].dep, CASE task[t].kind = "pause" -> "PAUSED"
                              [] task[t].kind = "stop" -> "STOPPED"
                              [] task[t].kind = "start" -> "RUNNING")
  /\ End(t)
  /\ UNCHANGED <<job, build, active, vm, routed, temp, resumed, surplus, rare>>

(* delete_deployment_record: only the row goes; a reference from the application is cleared. *)
DeleteRecord(d) ==
  /\ d \in job
  /\ Rare("user")
  /\ row' = [row EXCEPT ![d] = "none"]
  /\ job' = job \ {d} /\ build' = build \ {d}
  /\ active' = IF active = d THEN None ELSE active
  /\ UNCHANGED <<vm, routed, task, api>>

(*----------------------- The job update listener -------------------------*)
StatusPriority(status) ==
  CASE status \in {"FAILED", "CANCELLED"} -> 5
    [] status \in {"RUNNING", "DRAINING", "PAUSED", "STOPPED"} -> 4
    [] status = "PENDING" -> 2
    [] status = "BUILDING" -> 1
    [] OTHER -> 0

ShouldApply(current, incoming, isActive) ==
  /\ current # incoming
  /\ CASE current = "DRAINING" -> incoming \in {"PAUSED", "STOPPED"}
       [] current \in {"PAUSED", "STOPPED"} /\ incoming = "RUNNING" -> isActive
       [] current \in {"FAILED", "CANCELLED"} /\ incoming = "RUNNING" -> FALSE
       [] OTHER -> StatusPriority(incoming) >= StatusPriority(current)

(* sync_deployment_state with the row's status as it was read and the reported one: the status *)
(* to be written, "none" when there is only a new address to write, or nothing to do at all.   *)
Decide(l, was, status) ==
  IF was # "none" /\ ShouldApply(was, status, active = task[l].dep)
    THEN task' = [task EXCEPT ![l].pc = "apply", ![l].status = status]
    ELSE \/ task' = [task EXCEPT ![l] = Idle]
         \/ /\ was # "none" /\ status = "RUNNING"
            /\ task' = [task EXCEPT ![l].pc = "apply", ![l].status = "none"]

(* start_nats_job_listener: an update is received, that of a deleted job says "stopped", then  *)
(* the row is read ...                                                                         *)
Hear(l, d) ==
  /\ task[l] = Idle /\ vm[d] # "none"
  /\ task' = [task EXCEPT ![l] = [Idle EXCEPT !.pc = "look", !.dep = d,
                !.status = IF vm[d] = "gone" THEN "STOPPED" ELSE StatusName(d)]]
  /\ UNCHANGED <<store, vm, routed, api, rare>>

HearPending(l, d) ==
  /\ task[l] = Idle /\ d \in temp
  /\ temp' = temp \ {d}
  /\ task' = [task EXCEPT ![l] = [Idle EXCEPT !.pc = "look", !.dep = d, !.status = "PENDING"]]
  /\ UNCHANGED <<store, vm, routed, holder, resumed, surplus, rare>>

ReadRow(l) ==
  /\ task[l].pc = "look"
  /\ Decide(l, row[task[l].dep], task[l].status)
  /\ UNCHANGED <<store, vm, routed, holder, temp, resumed, surplus, rare>>

(* ... and start_ip_sync_task the other way round: the row, then the job's status. *)
Poll(l, d) ==
  /\ task[l] = Idle /\ d \in job /\ row[d] \notin {"STOPPED", "FAILED", "CANCELLED"}
  /\ task' = [task EXCEPT ![l] = [Idle EXCEPT !.pc = "ask", !.dep = d, !.status = row[d]]]
  /\ UNCHANGED <<store, vm, routed, api, rare>>

ReadJob(l) ==
  /\ task[l].pc = "ask"
  /\ Decide(l, task[l].status, StatusName(task[l].dep))
  /\ UNCHANGED <<store, vm, routed, holder, temp, resumed, surplus, rare>>

(* The write, after what was read: whatever the row says by now is overwritten. *)
ApplyUpdate(l) ==
  /\ task[l].pc = "apply"
  /\ IF task[l].status = "none" THEN UNCHANGED row ELSE SetStatus(task[l].dep, task[l].status)
  /\ Goto(l, "list")
  /\ UNCHANGED <<job, build, active, vm, routed, api, rare>>

(*---------------------- The scheduler's reconciliation -------------------*)
(* reconcile_manual_scaling, every two seconds: the count is not the desired one. *)
Reconcile ==
  /\ ScaleDown \/ ScaleUp
  /\ UNCHANGED <<store, routed, holder, task, temp, resumed, rare>>

(* What the application would miss: the active version, one the router has, or one that has   *)
(* passed its health check and is about to be promoted.                                        *)
Needed(d) == d = active \/ d \in routed \/ \E t \in Slots : task[t].dep = d /\ task[t].pc = "promote"

(* delete_app for a job in excess, whatever has become of it since it was listed. *)
DeleteSurplus(d) ==
  /\ d \in surplus
  /\ surplus' = surplus \ {d}
  /\ vm' = [vm EXCEPT ![d] = "gone"]
  /\ IF Needed(d) THEN Rare("scaled") ELSE UNCHANGED rare
  /\ UNCHANGED <<store, routed, holder, task, temp, resumed>>

(*------------------------- Failures and restarts -------------------------*)
VmFails(d) ==
  /\ vm[d] = "running"
  /\ Rare("fault")
  /\ vm' = [vm EXCEPT ![d] = "failed"]
  /\ UNCHANGED <<store, routed, task, api>>

(* The API restarts: every task and the guards are gone; the routes are reconciled and the *)
(* builds that the database has as BUILDING are picked up again.                           *)
Restart ==
  /\ Rare("restart")
  /\ holder' = None /\ temp' = {}
  /\ resumed' = {d \in build : row[d] = "BUILDING"}
  /\ task' = [t \in Slots |-> IF t \in Listeners THEN [Idle EXCEPT !.pc = "list"] ELSE Idle]
  /\ UNCHANGED <<store, vm, surplus, routed>>

ResumeBuild(t, d) ==
  /\ task[t] = Idle /\ d \in resumed
  /\ resumed' = resumed \ {d}
  /\ holder' = IF holder = None THEN t ELSE holder
  /\ task' = [task EXCEPT ![t] = [Idle EXCEPT !.pc = "poll", !.kind = "build", !.dep = d]]
  /\ UNCHANGED <<store, vm, surplus, routed, temp, rare>>
-----------------------------------------------------------------------------
(* At the start the first deployment runs, is active and is what the router has. *)
Init ==
  /\ row = [d \in Deps |-> IF d = First THEN "RUNNING" ELSE "none"]
  /\ job = {First} /\ build = {} /\ active = First
  /\ vm = [d \in Deps |-> IF d = First THEN "running" ELSE "none"]
  /\ surplus = {} /\ routed = {First}
  /\ holder = None /\ temp = {} /\ resumed = {}
  /\ task = [t \in Slots |-> Idle]
  /\ rare = {}

BuildStep(t) ==
  \/ TriggerBuild(t) \/ BuildAccepted(t) \/ BuildRefused(t)
  \/ BuildSucceeded(t) \/ DeployBuilt(t) \/ BuildFailed(t)

FlowStep(t) ==
  \/ Schedule(t) \/ Scheduled(t) \/ ScheduleUnanswered(t)
  \/ MarkDraining(t) \/ Healthy(t) \/ Unhealthy(t)
  \/ UndoDraining(t) \/ UndoVm(t) \/ UndoRow(t)
  \/ Promote(t) \/ ListTargets(t) \/ SendTargets(t) \/ SendOvertaken(t)
  \/ DrainVm(t) \/ DrainRow(t) \/ ScaleAfter(t) \/ CallFails(t)
  \/ ResumeForFlow(t) \/ Recreated(t)

ManualStep(t) == ManualVm(t) \/ ManualRefused(t) \/ ManualRow(t)
ListenerStep(l) == ReadRow(l) \/ ReadJob(l) \/ ApplyUpdate(l)
Step(t) == TakeGuard(t) \/ GuardRefused(t) \/ BuildStep(t) \/ FlowStep(t) \/ ManualStep(t)
           \/ ListenerStep(t)

Next ==
  \/ \E t \in Slots : Step(t)
  \/ \E t \in Tasks, d \in Deps :
       \/ \E kind \in {"image", "build"} : Ask(t, d, kind)
       \/ Activate(t, d)
       \/ \E kind \in {"pause", "stop", "start"} : Manual(t, d, kind)
       \/ ResumeBuild(t, d)
  \/ \E l \in Listeners, d \in Deps : Hear(l, d) \/ HearPending(l, d) \/ Poll(l, d)
  \/ \E d \in Deps : VmFails(d) \/ DeleteRecord(d) \/ DeleteSurplus(d)
  \/ Reconcile \/ Restart

Spec == Init /\ [][Next]_vars

-----------------------------------------------------------------------------
TaskRecords ==
  [pc: Counters, kind: Kinds, dep: Deps \cup {None}, seen: Deps \cup {None},
   old: Deps \cup {None}, list: SUBSET Deps,
   status: RowStatuses \cup {"UNKNOWN"}]

(* Every table of the API, the scheduler and the router has its type, and only a deployment *)
(* with a row is active.                                                                    *)
TypeOK ==
  /\ row \in [Deps -> RowStatuses]
  /\ job \in SUBSET Deps /\ build \in SUBSET Deps
  /\ active \in Deps \cup {None}
  /\ vm \in [Deps -> VmStates]
  /\ surplus \in SUBSET {d \in Deps : vm[d] # "none"} /\ routed \in SUBSET Deps
  /\ holder \in Tasks \cup {None}
  /\ task \in [Slots -> TaskRecords]
  /\ temp \in SUBSET Deps /\ resumed \in SUBSET Deps
  /\ rare \in SUBSET RareEvents
  /\ active = None \/ row[active] # "none"

(* The tasks that only the holder of the flow guard may be. *)
InFlow(t) ==
  /\ t \in Tasks /\ task[t].pc \in Guarded
  /\ task[t].kind \in {"image", "build", "now", "resume"}

(* One application, one flow: whoever builds, places, promotes or drains for the application *)
(* holds its guard, through restarts and the polling of builds that were resumed.            *)
OneFlow == \A t \in Slots : InFlow(t) => holder = t

(* Zero downtime: there is always a target in the router's table whose VM runs. *)
Served == \E d \in routed : vm[d] = "running"

(* No flow, no leftovers: when nobody holds the guard the active version is the only one whose *)
(* VM runs, and no row is left DRAINING, whatever the builds, placements and health checks     *)
(* before came to, and whichever new version the scheduler's reconciliation deleted before it   *)
(* was promoted - as long as no flow drained a version it had read before it had the guard, and *)
(* the reconciliation did not delete the one that is needed while two versions run ("scaled").  *)
OneVersionRuns ==
  rare \subseteq {"overtaken"} /\ holder = None =>
    /\ RunningJobs = {active}
    /\ \A d \in Deps : row[d] # "DRAINING"

(* Deployments alone, of any number and outcome, in parallel with the job updates, never      *)
(* take the application down: what it takes is a user's request, a failure, an overtaken      *)
(* route, or the scheduler's reconciliation, which counts the two versions of a deployment    *)
(* together and may delete the one that is needed ("scaled").                                 *)
ServedByDeployments == rare = {} => Served
=============================================================================
