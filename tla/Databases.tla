----------------------------- MODULE Databases ------------------------------
(***************************************************************************)
(* Databases of one tenant.  A request to create one is checked against    *)
(* the tenant's count, writes a row and starts a task that provisions      *)
(* storage at the pageserver and asks the scheduler for a VM, and that     *)
(* tries again after almost every error, with a new deployment each time.  *)
(* A request to delete one asks the scheduler to delete the VM of the      *)
(* active deployment and then removes the row.  The count is kept in a row *)
(* of its own, which no transaction ties to the others.  The scheduler is  *)
(* as the API sees it: it starts a VM or says that it has failed           *)
(* (JobLifecycle has the rest), and so is the pageserver, which asks at    *)
(* its start which tenants it should attach.                               *)
(*                                                                         *)
(* The deployment of a database's n-th attempt is numbered n.              *)
(***************************************************************************)
EXTENDS Naturals, FiniteSets

CONSTANTS
  Dbs,         (* databases that may be created, each once                  *)
  Requests,    (* requests of users that are handled at a time              *)
  Limit,       (* max_databases of the tenant's tier                        *)
  MaxAttempts, (* attempts of the provisioning task: 5 in the code          *)
  NoDb,
  MaxRare      (* bound on the kinds of failures of one behaviour           *)

ASSUME DatabasesAssumption ==
  /\ IsFiniteSet(Dbs) /\ NoDb \notin Dbs /\ IsFiniteSet(Requests)
  /\ Limit \in Nat /\ MaxAttempts \in Nat \ {0} /\ MaxRare \in Nat

Attempts == 1..MaxAttempts

VARIABLES
  row,      (* a database's row: status, active deployment, storage known   *)
  dep,      (* rows of deployments: none, without a job, with its job       *)
  count,    (* databases_count of the tenant                                *)
  task,     (* provisioning tasks: where they are, and their attempt        *)
  asked,    (* requests to deploy the scheduler has not handled             *)
  vm,       (* jobs of the scheduler, each with its VM                      *)
  attached, (* tenants the pageserver has attached                          *)
  req,      (* handlers of requests                                         *)
  rare      (* what happened that not every property survives               *)

dbVars == <<row, dep, count, task, asked, vm, attached, req, rare>>
outside == <<asked, vm, attached>>

(* "cut" is what ends a handler or a task early: a statement that fails, or a restart of the API. *)
Failures == {"unanswered", "cut", "neon", "reattach"}
Rare(e) ==
  /\ e \notin rare /\ Cardinality(rare \cap Failures) < MaxRare
  /\ rare' = rare \cup {e}

NoRow == [st |-> "none", active |-> 0, stored |-> FALSE]
Gone == [NoRow EXCEPT !.st = "gone"]
HasRow(d) == row[d].st \in {"pending", "running", "failed"}
Rows == {d \in Dbs : HasRow(d)}

(* Statements on the row of a database: where it is gone, nothing happens. *)
UpdateDatabaseStatus(d, st) == row' = IF HasRow(d) THEN [row EXCEPT ![d].st = st] ELSE row

(*--------------------------- The provisioning task -----------------------*)
NoTask == [at |-> "none", n |-> 1]
TaskAt(d, l) == task[d].at = l
TaskGoes(d, l) == task' = [task EXCEPT ![d].at = l]
Nth(d) == task[d].n

(* An error that is retried, after a pause, until the attempts are used up. *)
Retry(d) ==
  task' = [task EXCEPT ![d] = IF Nth(d) < MaxAttempts THEN [at |-> "look", n |-> Nth(d) + 1]
                              ELSE [at |-> "fail", n |-> Nth(d)]]

(* get_database; storage is provisioned once, under the ids that the row was made with. *)
Look(d) ==
  /\ TaskAt(d, "look")
  /\ ~ HasRow(d) \/ ~ row[d].stored
  /\ IF HasRow(d) THEN TaskGoes(d, "tenant") ELSE Retry(d)
  /\ UNCHANGED <<row, dep, count, outside, req, rare>>

CreateTenant(d) ==
  /\ TaskAt(d, "tenant")
  /\ attached' = attached \cup {d}
  /\ TaskGoes(d, "timeline")
  /\ UNCHANGED <<row, dep, count, asked, vm, req, rare>>

(* create_timeline and create_safekeeper_timeline: a pageserver that does not know the tenant *)
(* answers 404, which is not retried.                                                         *)
CreateTimeline(d) ==
  /\ TaskAt(d, "timeline")
  /\ TaskGoes(d, IF d \in attached THEN "record" ELSE "fail")
  /\ UNCHANGED <<row, dep, count, outside, req, rare>>

NeonFails(d) ==
  /\ task[d].at \in {"tenant", "timeline"}
  /\ Rare("neon")
  /\ Retry(d)
  /\ UNCHANGED <<row, dep, count, outside, req>>

UpdateProvisioning(d) ==
  /\ TaskAt(d, "record")
  /\ row' = IF HasRow(d) THEN [row EXCEPT ![d].stored = TRUE] ELSE row
  /\ TaskGoes(d, "deploy")
  /\ UNCHANGED <<dep, count, outside, req, rare>>

(* deploy_database reads the row again; a deployment refers to a database that exists. *)
CreateDeployment(d) ==
  /\ TaskAt(d, "deploy") \/ (TaskAt(d, "look") /\ HasRow(d) /\ row[d].stored)
  /\ IF HasRow(d) THEN dep' = [dep EXCEPT ![d][Nth(d)] = "new"] /\ TaskGoes(d, "activate")
     ELSE Retry(d) /\ UNCHANGED dep
  /\ UNCHANGED <<row, count, outside, req, rare>>

(* update_active_deployment, and the request to the scheduler. *)
Activate(d) ==
  /\ TaskAt(d, "activate")
  /\ row' = IF HasRow(d) THEN [row EXCEPT ![d].active = Nth(d)] ELSE row
  /\ asked' = asked \cup {<<d, Nth(d)>>}
  /\ TaskGoes(d, "wait")
  /\ UNCHANGED <<dep, count, vm, attached, req, rare>>

Waits(d, n) == TaskAt(d, "wait") /\ Nth(d) = n

(* Mutant: any answer will do. *)
SchedulerPleases(d, n) ==
  /\ <<d, n>> \in asked
  /\ asked' = asked \ {<<d, n>>}
  /\ \E ok \in BOOLEAN :
       /\ vm' = IF ok THEN vm \cup {<<d, n>>} ELSE vm
       /\ IF Waits(d, n) THEN TaskGoes(d, "info") ELSE UNCHANGED task
  /\ UNCHANGED <<row, dep, count, attached, req, rare>>

(* The scheduler starts a VM with its job, or has neither.  Nobody may be waiting any more. *)
SchedulerDeploys(d, n) ==
  /\ <<d, n>> \in asked
  /\ asked' = asked \ {<<d, n>>}
  /\ \E ok \in BOOLEAN :
       /\ vm' = IF ok THEN vm \cup {<<d, n>>} ELSE vm
       /\ IF Waits(d, n) THEN TaskGoes(d, IF ok THEN "info" ELSE "refused") ELSE UNCHANGED task
  /\ UNCHANGED <<row, dep, count, attached, req, rare>>

DeploymentRefused(d) ==
  /\ TaskAt(d, "refused")
  /\ UpdateDatabaseStatus(d, "failed")
  /\ Retry(d)
  /\ UNCHANGED <<dep, count, outside, req, rare>>

(* deploy_database_timeout, or an answer that was lost. *)
RequestFails(d) ==
  /\ TaskAt(d, "wait")
  /\ Rare("unanswered")
  /\ Retry(d)
  /\ UNCHANGED <<row, dep, count, outside, req>>

UpdateJobInfo(d) ==
  /\ TaskAt(d, "info")
  /\ dep' = IF dep[d][Nth(d)] = "none" THEN dep ELSE [dep EXCEPT ![d][Nth(d)] = "job"]
  /\ TaskGoes(d, "running")
  /\ UNCHANGED <<row, count, outside, req, rare>>

(* The status, whose failure nobody looks at, and get_deployment, which must find its row. *)
SetRunning(d) ==
  /\ TaskAt(d, "running")
  /\ UpdateDatabaseStatus(d, "running")
  /\ IF dep[d][Nth(d)] = "none" THEN Retry(d) ELSE task' = [task EXCEPT ![d] = NoTask]
  /\ UNCHANGED <<dep, count, outside, req, rare>>

(* Mutant: what went wrong is only logged. *)
LogOnly(d) ==
  /\ TaskAt(d, "fail")
  /\ task' = [task EXCEPT ![d] = NoTask]
  /\ UNCHANGED <<row, dep, count, outside, req, rare>>

SetFailed(d) ==
  /\ TaskAt(d, "fail")
  /\ UpdateDatabaseStatus(d, "failed")
  /\ task' = [task EXCEPT ![d] = NoTask]
  /\ UNCHANGED <<dep, count, outside, req, rare>>

(* A statement of the task fails: the attempt is over, except for a status that is not written. *)
StatementFails(d) ==
  /\ Rare("cut")
  /\ \/ task[d].at \in {"look", "record", "deploy", "activate", "info"} /\ Retry(d)
     \/ task[d].at \in {"running", "fail"} /\ task' = [task EXCEPT ![d] = NoTask]
  /\ UNCHANGED <<row, dep, count, outside, req>>

(*------------------------------- The requests ----------------------------*)
NoRequest == [at |-> "idle", db |-> NoDb, n |-> 0]
In(r, l) == req[r].at = l
GoRemove(r) == req' = [req EXCEPT ![r] = [@ EXCEPT !.at = "remove", !.n = 0]]
Go(r, l) == req' = [req EXCEPT ![r].at = l]
Fresh == {d \in Dbs : row[d].st = "none"}

(* Mutant: one more than the limit. *)
CheckDatabaseEntitlementLate == count <= Limit

CheckDatabaseEntitlement == count + 1 <= Limit

(* create_database: the check, the row with its task, the count. *)
Create(r) ==
  /\ In(r, "idle") /\ Fresh # {}
  /\ CheckDatabaseEntitlement
  /\ Go(r, "insert")
  /\ rare' = IF \E s \in Requests : req[s].at \in {"insert", "increment"}
             THEN rare \cup {"together"} ELSE rare
  /\ UNCHANGED <<row, dep, count, task, outside>>

Insert(r, d) ==
  /\ In(r, "insert") /\ d \in Fresh
  /\ row' = [row EXCEPT ![d] = [NoRow EXCEPT !.st = "pending"]]
  /\ task' = [task EXCEPT ![d].at = "look"]
  /\ req' = [req EXCEPT ![r] = [at |-> "increment", db |-> d, n |-> 0]]
  /\ UNCHANGED <<dep, count, outside, rare>>

InsertFails(r) ==
  /\ In(r, "insert")
  /\ Rare("cut") \/ (Fresh = {} /\ UNCHANGED rare)
  /\ req' = [req EXCEPT ![r] = NoRequest]
  /\ UNCHANGED <<row, dep, count, task, outside>>

IncrementDatabases(r) ==
  /\ In(r, "increment")
  /\ count' = count + 1
  /\ req' = [req EXCEPT ![r] = NoRequest]
  /\ UNCHANGED <<row, dep, task, outside, rare>>

(* delete_database: the row, its active deployment, the scheduler, the row, the count. *)
Delete(r, d) ==
  /\ In(r, "idle") /\ HasRow(d)
  /\ req' = [req EXCEPT ![r] = [at |-> IF row[d].active = 0 THEN "remove" ELSE "job",
                                db |-> d, n |-> row[d].active]]
  /\ rare' = IF TaskAt(d, "none") THEN rare ELSE rare \cup {"early"}
  /\ UNCHANGED <<row, dep, count, task, outside>>

GetDeployment(r) ==
  /\ In(r, "job")
  /\ IF dep[req[r].db][req[r].n] = "job" THEN Go(r, "stop") ELSE GoRemove(r)
  /\ UNCHANGED <<row, dep, count, task, outside, rare>>

(* The scheduler rejects a job it does not have; so does it after an answer was lost. *)
StopVm(r) ==
  LET j == <<req[r].db, req[r].n>> IN
  /\ In(r, "stop")
  /\ vm' = vm \ {j}
  /\ \/ j \in vm /\ GoRemove(r) /\ UNCHANGED rare
     \/ j \notin vm /\ req' = [req EXCEPT ![r] = NoRequest] /\ UNCHANGED rare
     \/ Rare("unanswered") /\ req' = [req EXCEPT ![r] = NoRequest]
  /\ UNCHANGED <<row, dep, count, task, asked, attached>>

(* The row, and its deployments with it; a row that is gone already is no error. *)
Remove(r) ==
  LET d == req[r].db IN
  /\ In(r, "remove")
  /\ row' = [row EXCEPT ![d] = Gone]
  /\ dep' = [dep EXCEPT ![d] = [n \in Attempts |-> "none"]]
  /\ Go(r, "decrement")
  /\ rare' = IF HasRow(d) THEN rare ELSE rare \cup {"crossed"}
  /\ UNCHANGED <<count, task, outside>>

(* GREATEST(0, ...): a deletion may be ahead of the creation's increment. *)
DecrementDatabases(r) ==
  /\ In(r, "decrement")
  /\ IF count = 0 THEN rare' = rare \cup {"crossed"} /\ UNCHANGED count
     ELSE count' = count - 1 /\ UNCHANGED rare
  /\ req' = [req EXCEPT ![r] = NoRequest]
  /\ UNCHANGED <<row, dep, task, outside>>

RequestStatementFails(r) ==
  /\ req[r].at \in {"increment", "job", "remove", "decrement"}
  /\ Rare("cut")
  /\ req' = [req EXCEPT ![r] = NoRequest]
  /\ UNCHANGED <<row, dep, count, task, outside>>

(*--------------------------------- The rest ------------------------------*)
(* re_attach, when the pageserver starts: tenants of failed databases and those whose ids are not *)
(* recorded yet are left out.                                                                     *)
ReAttach ==
  /\ attached' = {d \in Dbs : HasRow(d) /\ row[d].st # "failed" /\ row[d].stored}
  /\ IF \A d \in Dbs : TaskAt(d, "none") THEN UNCHANGED rare ELSE Rare("reattach")
  /\ UNCHANGED <<row, dep, count, task, asked, vm, req>>

(* The API is started again: tasks and handlers are gone, and nothing looks for what they left. *)
Restart ==
  /\ Rare("cut")
  /\ task' = [d \in Dbs |-> NoTask]
  /\ req' = [r \in Requests |-> NoRequest]
  /\ UNCHANGED <<row, dep, count, asked, vm, attached>>

DbInit ==
  /\ row = [d \in Dbs |-> NoRow]
  /\ dep = [d \in Dbs |-> [n \in Attempts |-> "none"]]
  /\ count = 0
  /\ task = [d \in Dbs |-> NoTask]
  /\ asked = {} /\ vm = {} /\ attached = {}
  /\ req = [r \in Requests |-> NoRequest]
  /\ rare = {}

ProvisionAndDeploy(d) ==
  \/ Look(d) \/ CreateTenant(d) \/ CreateTimeline(d) \/ UpdateProvisioning(d)
  \/ CreateDeployment(d) \/ Activate(d) \/ DeploymentRefused(d) \/ UpdateJobInfo(d)
  \/ SetRunning(d) \/ SetFailed(d)

ProvisioningFails(d) == NeonFails(d) \/ RequestFails(d) \/ StatementFails(d)

HandleRequest(r) ==
  \/ \E d \in Dbs : Insert(r, d)
  \/ InsertFails(r) \/ IncrementDatabases(r) \/ GetDeployment(r) \/ StopVm(r) \/ Remove(r)
  \/ DecrementDatabases(r)

DbNext ==
  \/ \E d \in Dbs : ProvisionAndDeploy(d) \/ ProvisioningFails(d)
  \/ \E d \in Dbs, n \in Attempts : SchedulerDeploys(d, n)
  \/ \E r \in Requests : Create(r) \/ HandleRequest(r) \/ RequestStatementFails(r)
  \/ \E r \in Requests, d \in Dbs : Delete(r, d)
  \/ ReAttach \/ Restart

DbSpec == DbInit /\ [][DbNext]_dbVars

(*-------------------------------- Properties -----------------------------*)
Settled(d) ==
  /\ TaskAt(d, "none") /\ \A n \in Attempts : <<d, n>> \notin asked
  /\ \A r \in Requests : req[r].db # d

(* When nothing is under way for a database, the scheduler has a VM for it exactly when its row   *)
(* says that it is running, and it is the VM of the active deployment, unless the API has given   *)
(* up on the scheduler, a statement has failed, the row was removed during the provisioning, or   *)
(* the API was started again (provision_and_deploy_database_with_retry, delete_database).  Its    *)
(* storage is attached then, unless the pageserver was started during a provisioning (re_attach). *)
RowsTellOfVms ==
  \A d \in Dbs :
    Settled(d) /\ rare \cap {"unanswered", "cut", "early"} = {} =>
      /\ {n \in Attempts : <<d, n>> \in vm} = IF row[d].st = "running" THEN {row[d].active} ELSE {}
      /\ row[d].st = "running" => d \in attached \/ "reattach" \in rare

(* When no request is handled, the count is that of the rows, and the tenant has no more      *)
(* databases than its tier allows, unless a statement has failed between a row and its count, *)
(* the API was started again, two requests have removed one row, a deletion was ahead of the  *)
(* creation's count, or two creations were checked together (check_entitlement,               *)
(* increment_databases, decrement_databases).                                                 *)
CountTellsOfRows ==
  (\A r \in Requests : In(r, "idle")) /\ rare \cap {"cut", "crossed"} = {} =>
    /\ count = Cardinality(Rows)
    /\ "together" \notin rare => count <= Limit

(* A database that is pending has a task that goes on with it and tells how it ended, unless a *)
(* statement has failed or the API was started again: nobody takes such a row up again         *)
(* (create_database, provision_and_deploy_database_with_retry).                                *)
PendingHasTask == \A d \in Dbs : row[d].st = "pending" /\ TaskAt(d, "none") => "cut" \in rare
=============================================================================
