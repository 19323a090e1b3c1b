---------------------------- MODULE JobLifecycle ----------------------------
(***************************************************************************)
(* The job table of mikrom-scheduler and the microVMs of the agents.       *)
(*                                                                         *)
(* Every request, event and sweep of the scheduler runs in a tokio task of *)
(* its own; a task alternates between SQL statements on the jobs table,    *)
(* request/reply calls to an agent and best-effort publications, and any   *)
(* other task may run between two of them.  A call is a message to the     *)
(* agent: it may be lost, its answer may be lost or come too late, and a   *)
(* call the scheduler has given up on may still be executed afterwards.    *)
(*                                                                         *)
(* All jobs belong to one application.  A job and its microVM have one     *)
(* name: job_id and vm_id are created together and stored together.        *)
(***************************************************************************)
EXTENDS Naturals, FiniteSets

CONSTANTS Jobs,       \* the uuids deploy_app may draw
          Tasks,      \* handler invocations: each runs one handler, once
          NoJob,      \* the job of a task that has not started
          MaxFaults   \* bound: failed SQL statements and scheduler crashes

ASSUME JobsAssumption == NoJob \notin Jobs
ASSUME MaxFaultsAssumption == MaxFaults \in Nat

VARIABLES
  row,        \* the jobs table: status column, or "none" when there is no row
  drawn,      \* uuids deploy_app has drawn
  pc,         \* where each task stands
  job,        \* the job a task works on
  listed,     \* delete_all_by_app: the rows its SELECT returned
  todo,       \* delete_all_by_app: the listed rows still to be processed
  calls,      \* commands sent to agents and not yet executed or lost
  answered,   \* tasks whose current call was answered with success
  vm,         \* the agent's vms map: status of the VM, or "none"
  booting,    \* VMs with a background startup task in the agent
  proc,       \* VMs with a live hypervisor process in the agent's processes map
  stray,      \* VMs with a live process the agent has dropped from that map
  failures,   \* VmFailureEvents published and not yet consumed
  beat,       \* the worker heartbeat: its phase and the VMs it reports failed
  faults,     \* failed statements and crashes so far
  leaky       \* history: jobs that met one of the leak windows named below

schedulerVars == <<row, drawn, pc, job, listed, todo, answered, beat, faults>>
agentVars     == <<vm, booting, proc, stray, failures>>
vars == <<row, drawn, pc, job, listed, todo, calls, answered,
          vm, booting, proc, stray, failures, beat, faults, leaky>>

Statuses   == {"scheduled", "running", "failed", "cancelled", "paused", "stopped"}
VmStatuses == {"starting", "running", "stopped", "failed", "paused"}

(* The points at which a task waits for an agent, and what it waits for. *)
CallAt == [starting |-> "start", rollbackVm |-> "delete",
           pausing |-> "pause", pauseStopping |-> "stop",
           resuming |-> "resume", unresumePausing |-> "pause",
           unresumeStopping |-> "stop",
           deleting |-> "delete", expiring |-> "delete", wiping |-> "delete"]
Waiting == DOMAIN CallAt

(* The points before a SQL statement or a publication. *)
Local == {"startRow", "undoRow", "rollbackRead", "rollbackRow", "pauseRow",
          "resumeRow", "deleteRow", "deleteMark", "expireRow", "expireMark",
          "wipeNext", "wipeTell",
          "failRow", "tell"}
Points == {"idle", "done"} \cup Waiting \cup Local

Call == [op : {"start", "pause", "stop", "resume", "delete"}, job : Jobs, by : Tasks]

TypeOK ==
  /\ row \in [Jobs -> Statuses \cup {"none"}]
  /\ drawn \subseteq Jobs
  /\ pc \in [Tasks -> Points]
  /\ job \in [Tasks -> Jobs \cup {NoJob}]
  /\ listed \in [Tasks -> SUBSET Jobs]
  /\ todo \in [Tasks -> SUBSET Jobs]
  /\ calls \subseteq Call
  /\ answered \subseteq Tasks
  /\ vm \in [Jobs -> VmStatuses \cup {"none"}]
  /\ booting \subseteq Jobs
  /\ proc \subseteq Jobs
  /\ stray \subseteq Jobs
  /\ failures \subseteq Jobs
  /\ beat \in [phase : {"idle", "sent", "marking", "telling"},
               failed : SUBSET Jobs]
  /\ faults \in 0 .. MaxFaults
  /\ leaky \subseteq Jobs

Beat(p, S) == [phase |-> p, failed |-> S]
Quiet == Beat("idle", {})

Init ==
  /\ row = [j \in Jobs |-> "none"]
  /\ drawn = {}
  /\ pc = [t \in Tasks |-> "idle"]
  /\ job = [t \in Tasks |-> NoJob]
  /\ listed = [t \in Tasks |-> {}]
  /\ todo = [t \in Tasks |-> {}]
  /\ calls = {}
  /\ answered = {}
  /\ vm = [j \in Jobs |-> "none"]
  /\ booting = {}
  /\ proc = {}
  /\ stray = {}
  /\ failures = {}
  /\ beat = Quiet
  /\ faults = 0
  /\ leaky = {}

-----------------------------------------------------------------------------
(* SQL: every statement is atomic and no UPDATE looks at the old status.    *)

(* Mutant: an upsert instead of the update. *)
SetStatusUpsert(j, s) == row' = [row EXCEPT ![j] = s]

(* UPDATE jobs SET status = s WHERE job_id = j: no row, no effect. *)
SetStatus(j, s) == row' = [row EXCEPT ![j] = IF @ = "none" THEN @ ELSE s]

(* DELETE FROM jobs WHERE job_id = j *)
RemoveJob(j) == row' = [row EXCEPT ![j] = "none"]

Fault == faults < MaxFaults /\ faults' = faults + 1

-----------------------------------------------------------------------------
(* Requests to agents *)

(* What is left of a VM, or may still come of a start_vm on its way. *)
StartPending(j) == \E c \in calls : c.op = "start" /\ c.job = j
Alive(j) == vm[j] # "none" \/ j \in booting \cup proc \cup stray
Gone(j) == ~Alive(j) /\ ~StartPending(j)

Request(t, op, j) == calls' = calls \cup {[op |-> op, job |-> j, by |-> t]}

(* Task t is still waiting for the answer to c. *)
Awaits(c) == pc[c.by] \in Waiting /\ CallAt[pc[c.by]] = c.op /\ job[c.by] = c.job

(* The answer to t's call was a success. *)
Succeed(t, p, q) ==
  /\ pc[t] = p /\ t \in answered
  /\ pc' = [pc EXCEPT ![t] = q]
  /\ answered' = answered \ {t}

(* Mutant: no timeout on the request. *)
GiveUpOnAnswer(t, p, q) ==
  /\ t \in answered
  /\ pc[t] = p
  /\ pc' = [pc EXCEPT ![t] = q]
  /\ answered' = answered \ {t}

(* An error answer, no responder, or no answer within request_timeout: the
   caller cannot tell whether the command was, or will be, executed. *)
GiveUp(t, p, q) ==
  /\ pc[t] = p
  /\ pc' = [pc EXCEPT ![t] = q]
  /\ answered' = answered \ {t}

(* The leak windows: a call on j is given up while the VM is not gone. *)
LeakIfAlive(j) == leaky' = IF Gone(j) THEN leaky ELSE leaky \cup {j}

Step(t, p, q) == pc[t] = p /\ pc' = [pc EXCEPT ![t] = q]

Begin(t, j, q) ==
  /\ pc[t] = "idle"
  /\ pc' = [pc EXCEPT ![t] = q]
  /\ job' = [job EXCEPT ![t] = j]

wipeVars == <<listed, todo>>

-----------------------------------------------------------------------------
(* deploy_app *)

(* add_job, then start_vm. *)
AddJob(t, j) ==
  /\ j \notin drawn
  /\ Begin(t, j, "starting")
  /\ drawn' = drawn \cup {j}
  /\ row' = [row EXCEPT ![j] = "scheduled"]
  /\ Request(t, "start", j)
  /\ UNCHANGED <<wipeVars, answered, agentVars, beat, faults, leaky>>

StartAccepted(t) ==
  /\ Succeed(t, "starting", "startRow")
  /\ UNCHANGED <<row, drawn, job, wipeVars, calls, agentVars, beat, faults, leaky>>

StartFailed(t) ==
  /\ GiveUp(t, "starting", "undoRow")
  /\ LeakIfAlive(job[t])
  /\ UNCHANGED <<row, drawn, job, wipeVars, calls, agentVars, beat, faults>>

(* Mutant: the job is kept when start_vm failed. *)
UndoRowKept(t) ==
  /\ Step(t, "undoRow", "done")
  /\ UNCHANGED <<row, faults, drawn, job, wipeVars, calls, answered,
                 agentVars, beat, leaky>>

(* The job is removed when start_vm failed; a failed DELETE is only logged. *)
UndoRow(t) ==
  /\ Step(t, "undoRow", "done")
  /\ \/ RemoveJob(job[t]) /\ UNCHANGED faults
     \/ Fault /\ UNCHANGED row
  /\ UNCHANGED <<drawn, job, wipeVars, calls, answered, agentVars, beat, leaky>>

StartRow(t) ==
  /\ \/ /\ Step(t, "startRow", "tell")
        /\ SetStatus(job[t], "running")
        /\ UNCHANGED faults
     \/ /\ Step(t, "startRow", "rollbackRead")
        /\ Fault
        /\ UNCHANGED row
  /\ UNCHANGED <<drawn, job, wipeVars, calls, answered, agentVars, beat, leaky>>

(* rollback_failed_deploy: get_job (an error ends it), delete_vm, remove_job. *)
RollbackRead(t) ==
  /\ \/ /\ Step(t, "rollbackRead", "rollbackVm")
        /\ Request(t, "delete", job[t])
        /\ UNCHANGED faults
     \/ /\ Step(t, "rollbackRead", "done")
        /\ Fault
        /\ UNCHANGED calls
  /\ UNCHANGED <<row, drawn, job, wipeVars, answered, agentVars, beat, leaky>>

RollbackVm(t) ==
  /\ \/ Succeed(t, "rollbackVm", "rollbackRow") /\ UNCHANGED leaky
     \/ GiveUp(t, "rollbackVm", "rollbackRow") /\ LeakIfAlive(job[t])
  /\ UNCHANGED <<row, drawn, job, wipeVars, calls, agentVars, beat, faults>>

RollbackRow(t) ==
  /\ Step(t, "rollbackRow", "done")
  /\ \/ RemoveJob(job[t]) /\ UNCHANGED faults
     \/ Fault /\ UNCHANGED row
  /\ UNCHANGED <<drawn, job, wipeVars, calls, answered, agentVars, beat, leaky>>

(* publish_job_update_best_effort, the last thing a handler does: whether the
   update arrives changes nothing here. *)
Tell(t) ==
  /\ Step(t, "tell", "done")
  /\ UNCHANGED <<row, drawn, job, wipeVars, calls, answered, agentVars, beat, faults, leaky>>

-----------------------------------------------------------------------------
(* pause_app: a paused or stopped job is left alone; the abort on recent
   traffic changes nothing and is not a step. *)
PauseRead(t, j) ==
  /\ row[j] \notin {"none", "paused", "stopped"}
  /\ Begin(t, j, "pausing")
  /\ Request(t, "pause", j)
  /\ UNCHANGED <<row, drawn, wipeVars, answered, agentVars, beat, faults, leaky>>

Paused(t) ==
  /\ \/ Succeed(t, "pausing", "pauseRow")
     \/ Succeed(t, "pauseStopping", "pauseRow")
     \/ GiveUp(t, "pauseStopping", "done")
  /\ UNCHANGED <<row, drawn, job, wipeVars, calls, agentVars, beat, faults, leaky>>

PauseFallback(t) ==
  /\ GiveUp(t, "pausing", "pauseStopping")
  /\ Request(t, "stop", job[t])
  /\ UNCHANGED <<row, drawn, job, wipeVars, agentVars, beat, faults, leaky>>

PauseRow(t) ==
  /\ \/ Step(t, "pauseRow", "tell") /\ SetStatus(job[t], "paused") /\ UNCHANGED faults
     \/ Step(t, "pauseRow", "done") /\ Fault /\ UNCHANGED row
  /\ UNCHANGED <<drawn, job, wipeVars, calls, answered, agentVars, beat, leaky>>

-----------------------------------------------------------------------------
(* resume_app: no look at the status.  When the status cannot be stored the
   VM is paused again, and stopped if that fails. *)
ResumeRead(t, j) ==
  /\ row[j] # "none"
  /\ Begin(t, j, "resuming")
  /\ Request(t, "resume", j)
  /\ UNCHANGED <<row, drawn, wipeVars, answered, agentVars, beat, faults, leaky>>

Resumed(t) ==
  /\ \/ Succeed(t, "resuming", "resumeRow")
     \/ GiveUp(t, "resuming", "done")
     \/ Succeed(t, "unresumePausing", "done")
     \/ GiveUp(t, "unresumeStopping", "done")
  /\ UNCHANGED <<row, drawn, job, wipeVars, calls, agentVars, beat, faults, leaky>>

ResumeRow(t) ==
  /\ \/ /\ Step(t, "resumeRow", "tell")
        /\ SetStatus(job[t], "running")
        /\ UNCHANGED <<calls, faults>>
     \/ /\ Step(t, "resumeRow", "unresumePausing")
        /\ Fault
        /\ Request(t, "pause", job[t])
        /\ UNCHANGED row
  /\ UNCHANGED <<drawn, job, wipeVars, answered, agentVars, beat, leaky>>

UnresumeFallback(t) ==
  /\ GiveUp(t, "unresumePausing", "unresumeStopping")
  /\ Request(t, "stop", job[t])
  /\ UNCHANGED <<row, drawn, job, wipeVars, agentVars, beat, faults, leaky>>

-----------------------------------------------------------------------------
(* delete_app: the row goes whatever delete_vm answered; when it cannot be
   removed it is marked stopped instead. *)
DeleteRead(t, j) ==
  /\ row[j] # "none"
  /\ Begin(t, j, "deleting")
  /\ Request(t, "delete", j)
  /\ UNCHANGED <<row, drawn, wipeVars, answered, agentVars, beat, faults, leaky>>

DeletedVm(t) ==
  /\ \/ Succeed(t, "deleting", "deleteRow") /\ UNCHANGED leaky
     \/ GiveUp(t, "deleting", "deleteRow") /\ LeakIfAlive(job[t])
  /\ UNCHANGED <<row, drawn, job, wipeVars, calls, agentVars, beat, faults>>

DeleteRow(t) ==
  /\ \/ Step(t, "deleteRow", "tell") /\ RemoveJob(job[t]) /\ UNCHANGED faults
     \/ Step(t, "deleteRow", "deleteMark") /\ Fault /\ UNCHANGED row
     \/ Step(t, "deleteMark", "tell") /\ SetStatus(job[t], "stopped") /\ UNCHANGED faults
     \/ Step(t, "deleteMark", "done") /\ Fault /\ UNCHANGED row
  /\ UNCHANGED <<drawn, job, wipeVars, calls, answered, agentVars, beat, leaky>>

(* cancel_app: one UPDATE; the VM is not touched and nothing is published. *)
Cancel(t, j) ==
  /\ Begin(t, j, "done")
  /\ row[j] # "none" /\ SetStatus(j, "cancelled")
  /\ UNCHANGED <<drawn, wipeVars, calls, answered, agentVars, beat, faults, leaky>>

(* cleanup_expired_vms and cleanup_beta_deployments, one selected job: the row
   stays when the VM could not be deleted. *)
ExpireRead(t, j) ==
  /\ row[j] # "none"
  /\ Begin(t, j, "expiring")
  /\ Request(t, "delete", j)
  /\ UNCHANGED <<row, drawn, wipeVars, answered, agentVars, beat, faults, leaky>>

ExpiredVm(t) ==
  /\ \/ Succeed(t, "expiring", "expireRow")
     \/ GiveUp(t, "expiring", "done")
  /\ UNCHANGED <<row, drawn, job, wipeVars, calls, agentVars, beat, faults, leaky>>

ExpireRow(t) ==
  /\ \/ Step(t, "expireRow", "tell") /\ RemoveJob(job[t]) /\ UNCHANGED faults
     \/ Step(t, "expireRow", "expireMark") /\ Fault /\ UNCHANGED row
     \/ Step(t, "expireMark", "tell") /\ SetStatus(job[t], "stopped") /\ UNCHANGED faults
     \/ Step(t, "expireMark", "tell") /\ Fault /\ UNCHANGED row
  /\ UNCHANGED <<drawn, job, wipeVars, calls, answered, agentVars, beat, leaky>>

-----------------------------------------------------------------------------
(* delete_all_by_app: the listed jobs lose their VM one after the other, then
   one transaction removes every row the application has by then. *)
WipeList(t) ==
  /\ Step(t, "idle", "wipeNext")
  /\ LET found == {j \in Jobs : row[j] # "none"} IN
       /\ listed' = [listed EXCEPT ![t] = found]
       /\ todo' = [todo EXCEPT ![t] = found]
  /\ UNCHANGED <<row, drawn, job, calls, answered, agentVars, beat, faults, leaky>>

WipeNext(t, j) ==
  /\ j \in todo[t]
  /\ Step(t, "wipeNext", "wiping")
  /\ job' = [job EXCEPT ![t] = j]
  /\ todo' = [todo EXCEPT ![t] = @ \ {j}]
  /\ Request(t, "delete", j)
  /\ UNCHANGED <<row, drawn, listed, answered, agentVars, beat, faults, leaky>>

WipedVm(t) ==
  /\ \/ Succeed(t, "wiping", "wipeNext") /\ UNCHANGED leaky
     \/ GiveUp(t, "wiping", "wipeNext") /\ LeakIfAlive(job[t])
  /\ UNCHANGED <<row, drawn, job, wipeVars, calls, agentVars, beat, faults>>

(* Rows that were not listed go too: their VMs were never asked to stop. *)
WipeRows(t) ==
  /\ todo[t] = {}
  /\ \/ /\ Step(t, "wipeNext", "wipeTell")
        /\ row' = [j \in Jobs |-> "none"]
        /\ leaky' = leaky \cup {j \in Jobs \ listed[t] : row[j] # "none" /\ ~Gone(j)}
        /\ todo' = [todo EXCEPT ![t] = listed[t]]
        /\ UNCHANGED faults
     \/ /\ Step(t, "wipeNext", "done")
        /\ Fault
        /\ UNCHANGED <<row, leaky, todo>>
  /\ UNCHANGED <<drawn, job, listed, calls, answered, agentVars, beat>>

WipeTell(t) ==
  /\ \/ \E j \in todo[t] :
          /\ Step(t, "wipeTell", "wipeTell")
          /\ todo' = [todo EXCEPT ![t] = @ \ {j}]
     \/ /\ todo[t] = {}
        /\ Step(t, "wipeTell", "done")
        /\ UNCHANGED todo
  /\ UNCHANGED <<row, drawn, job, listed, calls, answered, agentVars, beat, faults, leaky>>

-----------------------------------------------------------------------------
(* process_vm_failure: an event for an unknown or terminal job is dropped. *)
FailRead(t, j) ==
  /\ j \in failures
  /\ row[j] \in {"scheduled", "running", "paused"}
  /\ Begin(t, j, "failRow")
  /\ failures' = failures \ {j}
  /\ UNCHANGED <<row, drawn, wipeVars, calls, answered, vm, booting, proc, stray,
                 beat, faults, leaky>>

FailRow(t) ==
  /\ \/ Step(t, "failRow", "tell") /\ SetStatus(job[t], "failed") /\ UNCHANGED faults
     \/ Step(t, "failRow", "done") /\ Fault /\ UNCHANGED row
  /\ UNCHANGED <<drawn, job, wipeVars, calls, answered, agentVars, beat, leaky>>

(* The event is lost on its way, or its handler returns early. *)
FailureIgnored(j) ==
  /\ j \in failures
  /\ failures' = failures \ {j}
  /\ UNCHANGED <<schedulerVars, calls, vm, booting, proc, stray, leaky>>

-----------------------------------------------------------------------------
(* process_worker_heartbeat.  The agent reports every VM it knows; only the
   failed ones matter here, so a heartbeat without any is not a step. *)
BeatSend ==
  /\ beat.phase = "idle"
  /\ \E j \in Jobs : vm[j] = "failed"
  /\ beat' = Beat("sent", {j \in Jobs : vm[j] = "failed"})
  /\ UNCHANGED <<row, drawn, pc, job, wipeVars, calls, answered,
                 agentVars, faults, leaky>>

BeatLost ==
  /\ beat.phase = "sent"
  /\ beat' = Quiet
  /\ UNCHANGED <<row, drawn, pc, job, wipeVars, calls, answered,
                 agentVars, faults, leaky>>

(* Mutant: the jobs still scheduled are looked at instead of the running ones. *)
BeatReadScheduled ==
  /\ beat.phase = "sent"
  /\ \/ /\ beat' = Beat("marking", {j \in beat.failed : row[j] = "scheduled"})
        /\ UNCHANGED faults
     \/ beat' = Quiet /\ Fault
  /\ UNCHANGED <<row, drawn, pc, job, wipeVars, calls, answered, agentVars, leaky>>

(* list_jobs(Running): the jobs to be marked are fixed here. *)
BeatRead ==
  /\ beat.phase = "sent"
  /\ \/ /\ beat' = Beat("marking", {j \in beat.failed : row[j] = "running"})
        /\ UNCHANGED faults
     \/ beat' = Quiet /\ Fault
  /\ UNCHANGED <<row, drawn, pc, job, wipeVars, calls, answered, agentVars, leaky>>

BeatMark(j) ==
  /\ beat.phase = "marking"
  /\ j \in beat.failed
  /\ \/ /\ SetStatus(j, "failed")
        /\ beat' = Beat("telling", beat.failed \ {j})
        /\ UNCHANGED faults
     \/ /\ Fault
        /\ beat' = Beat("marking", beat.failed \ {j})
        /\ UNCHANGED row
  /\ UNCHANGED <<drawn, pc, job, wipeVars, calls, answered, agentVars, leaky>>

BeatTell ==
  /\ beat.phase = "telling"
  /\ beat' = Beat("marking", beat.failed)
  /\ UNCHANGED <<row, drawn, pc, job, wipeVars, calls, answered, agentVars, faults, leaky>>

BeatEnd ==
  /\ beat.phase = "marking" /\ beat.failed = {}
  /\ beat' = Quiet
  /\ UNCHANGED <<row, drawn, pc, job, wipeVars, calls, answered,
                 agentVars, faults, leaky>>

-----------------------------------------------------------------------------
(* The scheduler process dies: its tasks and a heartbeat being handled are
   gone, the table, the commands already sent and the agents are not. *)
Crash ==
  /\ Fault
  /\ pc' = [t \in Tasks |-> IF pc[t] = "idle" THEN "idle" ELSE "done"]
  /\ answered' = {}
  /\ beat' = IF beat.phase = "sent" THEN beat ELSE Quiet
  /\ UNCHANGED <<row, drawn, job, wipeVars, calls, agentVars, leaky>>

-----------------------------------------------------------------------------
(* The agent, as the scheduler sees it. *)

(* c is executed with success; its caller hears of it if it still waits. *)
Executed(c) ==
  /\ calls' = calls \ {c}
  /\ answered' = IF Awaits(c) THEN answered \cup {c.by} ELSE answered

(* start_vm answers once the VM is registered; it boots in the background. *)
ExecStart(c) ==
  /\ c.op = "start" /\ vm[c.job] \notin {"starting", "running"}
  /\ Executed(c)
  /\ vm' = [vm EXCEPT ![c.job] = "starting"]
  /\ booting' = booting \cup {c.job}
  /\ UNCHANGED <<proc, stray, failures, leaky>>

(* start_vm, also on behalf of resume_vm, finds no hypervisor binary:
   set_failed, a failure event and an error answer. *)
ExecStartFails(c) ==
  /\ \/ c.op = "start" /\ vm[c.job] \notin {"starting", "running"}
     \/ c.op = "resume" /\ vm[c.job] # "none" /\ c.job \notin proc
  /\ calls' = calls \ {c}
  /\ vm' = [vm EXCEPT ![c.job] = "failed"]
  /\ failures' = failures \cup {c.job}
  /\ UNCHANGED <<answered, booting, proc, stray, leaky>>

(* pause_vm: a snapshot is taken and the process ends. *)
ExecPause(c) ==
  /\ c.op = "pause" /\ vm[c.job] # "none" /\ c.job \in proc
  /\ Executed(c)
  /\ vm' = [vm EXCEPT ![c.job] = "paused"]
  /\ proc' = proc \ {c.job}
  /\ UNCHANGED <<booting, stray, failures, leaky>>

ExecStop(c) ==
  /\ c.op = "stop" /\ vm[c.job] # "none"
  /\ Executed(c)
  /\ vm' = [vm EXCEPT ![c.job] = "stopped"]
  /\ proc' = proc \ {c.job}
  /\ UNCHANGED <<booting, stray, failures, leaky>>

(* Mutant: a VM the agent does not know is started from its snapshot. *)
ExecResumeUnknown(c) ==
  /\ c.op = "resume"
  /\ Executed(c)
  /\ vm' = [vm EXCEPT ![c.job] = "starting"]
  /\ booting' = booting \cup {c.job}
  /\ proc' = proc \ {c.job}
  /\ stray' = stray \cup (proc \cap {c.job})
  /\ UNCHANGED <<failures, leaky>>

(* resume_vm: in place, or a new start from the snapshot.  When the process
   is alive but does not answer, its handle is dropped and it lives on. *)
ExecResume(c) ==
  /\ c.op = "resume" /\ vm[c.job] # "none"
  /\ Executed(c)
  /\ \/ /\ c.job \in proc
        /\ vm' = [vm EXCEPT ![c.job] = "running"]
        /\ UNCHANGED <<booting, proc, stray>>
     \/ /\ vm' = [vm EXCEPT ![c.job] = "starting"]
        /\ booting' = booting \cup {c.job}
        /\ proc' = proc \ {c.job}
        /\ stray' = stray \cup (proc \cap {c.job})
  /\ UNCHANGED <<failures, leaky>>

(* delete_vm always answers success.  It kills the process it knows of; it
   does not stop a startup in the background, nor a start_vm still to come. *)
ExecDelete(c) ==
  /\ c.op = "delete"
  /\ Executed(c)
  /\ vm' = [vm EXCEPT ![c.job] = "none"]
  /\ proc' = IF vm[c.job] = "none" THEN proc ELSE proc \ {c.job}
  /\ leaky' = IF c.job \in booting \cup proc' \cup stray \/ StartPending(c.job)
              THEN leaky \cup {c.job} ELSE leaky
  /\ UNCHANGED <<booting, stray, failures>>

(* The command is lost, or fails without effect. *)
ExecNothing(c) ==
  /\ calls' = calls \ {c}
  /\ UNCHANGED <<answered, agentVars, leaky>>

Execute(c) ==
  /\ \/ ExecStart(c) \/ ExecStartFails(c) \/ ExecPause(c) \/ ExecStop(c)
     \/ ExecResume(c) \/ ExecDelete(c) \/ ExecNothing(c)
  /\ UNCHANGED <<row, drawn, pc, job, wipeVars, beat, faults>>

(* start_vm_background: the VM may have been deleted, stopped or started a
   second time meanwhile; the new process replaces the handle of an old one. *)
BootDone(j) ==
  /\ j \in booting
  /\ booting' = booting \ {j}
  /\ proc' = proc \cup {j}
  /\ stray' = stray \cup (proc \cap {j})
  /\ vm' = [vm EXCEPT ![j] = IF @ = "none" THEN @ ELSE "running"]
  /\ UNCHANGED <<schedulerVars, calls, failures, leaky>>

BootFailed(j) ==
  /\ j \in booting
  /\ booting' = booting \ {j}
  /\ vm' = [vm EXCEPT ![j] = IF @ = "none" THEN @ ELSE "failed"]
  /\ failures' = failures \cup {j}
  /\ UNCHANGED <<schedulerVars, calls, proc, stray, leaky>>

(* A process ends by itself.  run_gc drops its handle and restarts the VM with
   start_vm, which refuses because the status is still running or starting. *)
ProcessExit(j) ==
  /\ \/ /\ j \in proc
        /\ proc' = proc \ {j}
        /\ vm' = [vm EXCEPT ![j] = IF @ \in {"none", "running", "starting", "paused"}
                                  THEN @ ELSE "stopped"]
        /\ UNCHANGED stray
     \/ j \in stray /\ stray' = stray \ {j} /\ UNCHANGED <<proc, vm>>
  /\ UNCHANGED <<schedulerVars, calls, booting, failures, leaky>>

-----------------------------------------------------------------------------
(* The steps of a handler once it has begun. *)
Continue(t) ==
  \/ StartAccepted(t) \/ StartFailed(t) \/ UndoRow(t) \/ StartRow(t)
  \/ RollbackRead(t) \/ RollbackVm(t) \/ RollbackRow(t)
  \/ Tell(t)
  \/ Paused(t) \/ PauseFallback(t) \/ PauseRow(t)
  \/ Resumed(t) \/ ResumeRow(t) \/ UnresumeFallback(t)
  \/ DeletedVm(t) \/ DeleteRow(t)
  \/ ExpiredVm(t) \/ ExpireRow(t)
  \/ (\E j \in Jobs : WipeNext(t, j)) \/ WipedVm(t) \/ WipeRows(t) \/ WipeTell(t)
  \/ FailRow(t)

Start(t) ==
  \/ \E j \in Jobs : \/ AddJob(t, j) \/ PauseRead(t, j) \/ ResumeRead(t, j)
                     \/ DeleteRead(t, j) \/ Cancel(t, j) \/ ExpireRead(t, j)
                     \/ FailRead(t, j)
  \/ WipeList(t)

BeatHandled == BeatRead \/ (\E j \in Jobs : BeatMark(j)) \/ BeatTell \/ BeatEnd

Next ==
  \/ \E t \in Tasks : Start(t) \/ Continue(t)
  \/ \E j \in Jobs : FailureIgnored(j) \/ BootDone(j) \/ BootFailed(j) \/ ProcessExit(j)
  \/ BeatSend \/ BeatLost \/ BeatHandled
  \/ Crash
  \/ \E c \in calls : Execute(c)

Spec == Init /\ [][Next]_vars

(* Every await of a handler has a timeout or an answer, so a task that has
   begun goes on; startup tasks end; the agent sends a heartbeat every ten
   seconds, and not all of them are lost. *)
Fairness ==
  /\ \A t \in Tasks : WF_vars(Continue(t))
  /\ \A j \in Jobs : WF_vars(BootDone(j) \/ BootFailed(j))
  /\ WF_vars(BeatSend)
  /\ SF_vars(BeatHandled)

FairSpec == Spec /\ Fairness

-----------------------------------------------------------------------------
(* Properties *)

(* A microVM or a process outlives the row of its job only through one of the
   leak windows: a start_vm or delete_vm call given up on while the VM is not
   gone, a delete_vm executed before the start_vm it should undo or while the
   VM is still booting or has a stray process, or a row removed by
   delete_all_by_app that its listing had missed.  No other interleaving of
   deploy, pause, resume, cancel, sweep, failure, crash and late command
   leaves a VM nobody can address any more. *)
OrphanHasCause == \A j \in Jobs : row[j] = "none" /\ Alive(j) => j \in leaky

(* A row that was removed never comes back: whatever a handler still writes
   about a deleted job is lost, and job ids are never drawn twice. *)
RemovedIsFinal ==
  [][\A j \in Jobs : j \in drawn /\ row[j] = "none" => row'[j] = "none"]_vars

(* A job's microVM as its owner could see it: gone for good, lost to whoever
   would address it, or there. *)
Machine ==
  [j \in Jobs |-> IF j \notin drawn THEN "none"
                  ELSE IF Gone(j) THEN "gone"
                  ELSE IF j \in leaky THEN "lost" ELSE "present"]

Promise == INSTANCE JobTable WITH machine <- Machine

(* The handlers, the agents and all that is lost, late or repeated between them
   implement the table of JobTable: no step brings a microVM back, and no row
   goes while its microVM is there, unless it has met a leak window. *)
KeepsPromise == Promise!Spec

(* No handler hangs: whatever is lost on the way to an agent, a task that has
   begun comes to its end. *)
HandlersEnd == \A t \in Tasks : pc[t] # "idle" ~> pc[t] = "done"

(* A VM that failed is noticed although its failure event was lost, or was
   handled before start_job overwrote the status with running: the periodic
   heartbeat marks the job later on. *)
FailedVmIsNoticed ==
  \A j \in Jobs : (row[j] = "running" /\ vm[j] = "failed")
                   ~> ~(row[j] = "running" /\ vm[j] = "failed")

(* Without a crash and without a failed statement no job stays scheduled: its
   deployment ends in a start or in the removal of the row. *)
ScheduledIsLeft ==
  [](faults = 0) => \A j \in Jobs : row[j] = "scheduled" ~> row[j] # "scheduled"
=============================================================================
