---------------------------- MODULE Tenant_proofs -----------------------------
(***************************************************************************)
(* Proofs about the databases, the volumes and the plan of one tenant, for *)
(* any number of databases, volumes, requests, webhooks and failures.  The *)
(* three are proved one after the other, and none uses facts of another.   *)
(***************************************************************************)
EXTENDS Databases, Volumes, Billing, FiniteSetTheorems, SequenceTheorems, TLAPS

(*------------------------------- Databases -------------------------------*)
Stages ==
  {"none", "look", "tenant", "timeline", "record", "deploy", "activate", "wait", "info", "refused",
   "running", "fail"}
RowType ==
  [st : {"none", "pending", "running", "failed", "gone"}, active : Attempts \cup {0},
   stored : BOOLEAN]
TaskType == [at : Stages, n : Attempts]
ReqType ==
  [at : {"idle", "insert", "increment", "job", "stop", "remove", "decrement"},
   db : Dbs \cup {NoDb}, n : Attempts \cup {0}]
OnDb(q) ==
  /\ IF q.at \in {"idle", "insert"} THEN q.db = NoDb ELSE q.db \in Dbs
  /\ q.at \in {"job", "stop"} => q.n \in Attempts

RowTypes == row \in [Dbs -> RowType]
DepTypes == dep \in [Dbs -> [Attempts -> {"none", "new", "job"}]]
TaskTypes == task \in [Dbs -> TaskType]
ReqTypes == req \in [Requests -> ReqType] /\ \A r \in Requests : OnDb(req[r])
OutsideTypes ==
  asked \subseteq Dbs \X Attempts /\ vm \subseteq Dbs \X Attempts /\ attached \subseteq Dbs
DbTypes == RowTypes /\ DepTypes /\ TaskTypes /\ ReqTypes /\ OutsideTypes

(* Nothing that the rows do not survive has happened. *)
Calm == rare \cap {"unanswered", "cut", "early"} = {}
HasDisk(d) == d \in attached \/ "reattach" \in rare

(* The scheduler is asked for one VM at a time, and the task waits for it. *)
OneVm(d) == \A n \in Attempts : <<d, n>> \in asked => TaskAt(d, "wait") /\ n = Nth(d)
(* The only VM is that of the active deployment, once the task or the row knows of it. *)
HasVm(d) ==
  \A n \in Attempts : <<d, n>> \in vm =>
    n = row[d].active /\ (TaskAt(d, "info") \/ TaskAt(d, "running") \/ row[d].st = "running")
(* While a database is provisioned nobody deletes it. *)
Provisioned(d) ==
  ~TaskAt(d, "none") =>
    /\ row[d].st \in {"pending", "failed"}
    /\ \A r \in Requests : req[r].db = d => In(r, "increment")
    /\ task[d].at \in {"wait", "info", "running"} =>
         row[d].active = Nth(d) /\ dep[d][Nth(d)] # "none"
    /\ task[d].at \in {"info", "running"} => <<d, Nth(d)>> \in vm
    /\ TaskAt(d, "activate") => dep[d][Nth(d)] # "none"
    /\ TaskAt(d, "running") => dep[d][Nth(d)] = "job"
    /\ task[d].at \in {"deploy", "activate", "wait", "info", "running", "refused"} => row[d].stored
    /\ row[d].stored \/ TaskAt(d, "record") => HasDisk(d)
(* A running database has its VM, unless a deletion has already stopped it. *)
Running(d) ==
  row[d].st = "running" =>
    /\ row[d].active \in Attempts /\ dep[d][row[d].active] = "job"
    /\ row[d].stored /\ HasDisk(d)
    /\ <<d, row[d].active>> \in vm \/ \E r \in Requests : In(r, "remove") /\ req[r].db = d
(* A deletion is about the active deployment, and has stopped its VM before it removes the row. *)
Deletion(r) ==
  /\ req[r].at \in {"job", "stop"} /\ HasRow(req[r].db) => req[r].n = row[req[r].db].active
  /\ In(r, "remove") => \A n \in Attempts : <<req[r].db, n>> \notin vm

Good(d) == OneVm(d) /\ HasVm(d) /\ Provisioned(d) /\ Running(d)
Known == \A r \in Requests, d \in Dbs : req[r].db = d => row[d].st # "none"
RowsInv ==
  Known /\ (Calm =>
    /\ \A d \in Dbs : Good(d)
    /\ \A r \in Requests : Deletion(r))

(* Requests that have written a row and not counted it, and those that have removed one. *)
Uncounted == {r \in Requests : In(r, "increment")}
Removed == {r \in Requests : In(r, "decrement")}
Creating(r) == In(r, "insert") \/ In(r, "increment")
CountInv ==
  /\ count \in Nat
  /\ rare \cap {"cut", "crossed"} = {} =>
       count + Cardinality(Uncounted) = Cardinality(Rows) + Cardinality(Removed)
  /\ "together" \notin rare =>
       /\ count <= Limit
       /\ \A r, s \in Requests : Creating(r) /\ Creating(s) => r = s
       /\ \A r \in Requests : Creating(r) => count + 1 <= Limit


(* A task that ends or tries again is of its type. *)
LEMMA NoTaskTyped == NoTask \in TaskType
BY DatabasesAssumption DEF NoTask, TaskType, Stages, Attempts

(* Another attempt is one of the attempts there are. *)
LEMMA RetryTyped ==
  ASSUME TaskTypes, NEW d \in Dbs, Retry(d)
  PROVE  TaskTypes'
<1>1. Nth(d) \in Attempts /\ (Nth(d) < MaxAttempts => Nth(d) + 1 \in Attempts)
  BY DatabasesAssumption DEF TaskTypes, TaskType, Nth, Attempts
<1> QED
  BY <1>1 DEF Retry, TaskTypes, TaskType, Stages

(* The next thing a handler does is of its type. *)
LEMMA ReqSet ==
  ASSUME ReqTypes, NEW r \in Requests, NEW q \in ReqType, OnDb(q),
         req' = [req EXCEPT ![r] = q]
  PROVE  ReqTypes'
BY DEF ReqTypes, OnDb


(* Every step keeps the types. *)
LEMMA DbTypesKept ==
  DbTypes /\ [DbNext]_dbVars => DbTypes'
<1> SUFFICES ASSUME DbTypes, [DbNext]_dbVars PROVE DbTypes'
  OBVIOUS
<1>1. ASSUME NEW d \in Dbs, Look(d) PROVE DbTypes'
  <2>1. RowTypes' /\ DepTypes' /\ ReqTypes' /\ OutsideTypes'
    BY <1>1 DEF Look, TaskAt, HasRow, TaskGoes, Retry, Nth, outside, DbTypes, RowTypes, RowType,
       Attempts, DepTypes, ReqTypes, ReqType, OnDb, OutsideTypes
  <2>2. TaskTypes'
    BY <1>1, RetryTyped, NoTaskTyped DEF Look, TaskGoes, UpdateDatabaseStatus, DbTypes, TaskTypes,
       TaskType, Stages
  <2> QED
    BY <2>1, <2>2 DEF DbTypes
<1>2. ASSUME NEW d \in Dbs, CreateTenant(d) PROVE DbTypes'
  <2>1. RowTypes' /\ DepTypes' /\ ReqTypes'
    BY <1>2 DEF CreateTenant, TaskAt, TaskGoes, DbTypes, RowTypes, RowType, Attempts, DepTypes,
       ReqTypes, ReqType, OnDb
  <2>2. TaskTypes'
    BY <1>2 DEF CreateTenant, TaskAt, TaskGoes, DbTypes, TaskTypes, TaskType, Stages
  <2>3. OutsideTypes'
    BY <1>2 DEF CreateTenant, TaskAt, TaskGoes, DbTypes, OutsideTypes, TaskTypes, TaskType
  <2> QED
    BY <2>1, <2>2, <2>3 DEF DbTypes
<1>3. ASSUME NEW d \in Dbs, CreateTimeline(d) PROVE DbTypes'
  <2>1. RowTypes' /\ DepTypes' /\ ReqTypes' /\ OutsideTypes'
    BY <1>3 DEF CreateTimeline, TaskAt, TaskGoes, outside, DbTypes, RowTypes, RowType, Attempts,
       DepTypes, ReqTypes, ReqType, OnDb, OutsideTypes
  <2>2. TaskTypes'
    BY <1>3 DEF CreateTimeline, TaskAt, TaskGoes, outside, DbTypes, TaskTypes, TaskType, Stages
  <2> QED
    BY <2>1, <2>2 DEF DbTypes
<1>4. ASSUME NEW d \in Dbs, UpdateProvisioning(d) PROVE DbTypes'
  <2>1. DepTypes' /\ ReqTypes' /\ OutsideTypes'
    BY <1>4 DEF UpdateProvisioning, TaskAt, HasRow, TaskGoes, outside, DbTypes, DepTypes, Attempts,
       ReqTypes, ReqType, OnDb, OutsideTypes
  <2>2. RowTypes'
    BY <1>4 DEF UpdateProvisioning, TaskAt, HasRow, TaskGoes, outside, DbTypes, RowTypes, RowType,
       TaskTypes, TaskType
  <2>3. TaskTypes'
    BY <1>4 DEF UpdateProvisioning, TaskAt, HasRow, TaskGoes, outside, DbTypes, TaskTypes,
       TaskType, Stages
  <2> QED
    BY <2>1, <2>2, <2>3 DEF DbTypes
<1>5. ASSUME NEW d \in Dbs, CreateDeployment(d) PROVE DbTypes'
  <2>1. RowTypes' /\ ReqTypes' /\ OutsideTypes'
    BY <1>5 DEF CreateDeployment, TaskAt, HasRow, Nth, TaskGoes, Retry, outside, DbTypes, RowTypes,
       RowType, Attempts, ReqTypes, ReqType, OnDb, OutsideTypes
  <2>2. DepTypes'
    BY <1>5 DEF CreateDeployment, TaskAt, HasRow, Nth, TaskGoes, Retry, outside, DbTypes, DepTypes,
       TaskTypes, TaskType
  <2>3. TaskTypes'
    BY <1>5, RetryTyped, NoTaskTyped DEF CreateDeployment, TaskGoes, UpdateDatabaseStatus, DbTypes,
       TaskTypes, TaskType, Stages
  <2> QED
    BY <2>1, <2>2, <2>3 DEF DbTypes
<1>6. ASSUME NEW d \in Dbs, Activate(d) PROVE DbTypes'
  <2>1. DepTypes' /\ ReqTypes'
    BY <1>6 DEF Activate, TaskAt, HasRow, Nth, TaskGoes, DbTypes, DepTypes, Attempts, ReqTypes,
       ReqType, OnDb
  <2>2. RowTypes'
    BY <1>6 DEF Activate, TaskAt, HasRow, Nth, TaskGoes, DbTypes, RowTypes, RowType, TaskTypes,
       TaskType
  <2>3. TaskTypes'
    BY <1>6 DEF Activate, TaskAt, HasRow, Nth, TaskGoes, DbTypes, TaskTypes, TaskType, Stages
  <2>4. OutsideTypes'
    BY <1>6 DEF Activate, TaskAt, HasRow, Nth, TaskGoes, DbTypes, OutsideTypes, TaskTypes, TaskType
  <2> QED
    BY <2>1, <2>2, <2>3, <2>4 DEF DbTypes
<1>7. ASSUME NEW d \in Dbs, DeploymentRefused(d) PROVE DbTypes'
  <2>1. DepTypes' /\ ReqTypes' /\ OutsideTypes'
    BY <1>7 DEF DeploymentRefused, TaskAt, UpdateDatabaseStatus, HasRow, Retry, Nth, outside,
       DbTypes, DepTypes, Attempts, ReqTypes, ReqType, OnDb, OutsideTypes
  <2>2. RowTypes'
    BY <1>7 DEF DeploymentRefused, TaskAt, UpdateDatabaseStatus, HasRow, Retry, Nth, outside,
       DbTypes, RowTypes, RowType, TaskTypes, TaskType
  <2>3. TaskTypes'
    BY <1>7, RetryTyped, NoTaskTyped DEF DeploymentRefused, TaskGoes, UpdateDatabaseStatus,
       DbTypes, TaskTypes, TaskType, Stages
  <2> QED
    BY <2>1, <2>2, <2>3 DEF DbTypes
<1>8. ASSUME NEW d \in Dbs, UpdateJobInfo(d) PROVE DbTypes'
  <2>1. RowTypes' /\ ReqTypes' /\ OutsideTypes'
    BY <1>8 DEF UpdateJobInfo, TaskAt, Nth, TaskGoes, outside, DbTypes, RowTypes, RowType,
       Attempts, ReqTypes, ReqType, OnDb, OutsideTypes
  <2>2. DepTypes'
    BY <1>8 DEF UpdateJobInfo, TaskAt, Nth, TaskGoes, outside, DbTypes, DepTypes, TaskTypes,
       TaskType
  <2>3. TaskTypes'
    BY <1>8 DEF UpdateJobInfo, TaskAt, Nth, TaskGoes, outside, DbTypes, TaskTypes, TaskType, Stages
  <2> QED
    BY <2>1, <2>2, <2>3 DEF DbTypes
<1>9. ASSUME NEW d \in Dbs, SetRunning(d) PROVE DbTypes'
  <2>1. DepTypes' /\ ReqTypes' /\ OutsideTypes'
    BY <1>9 DEF SetRunning, TaskAt, UpdateDatabaseStatus, HasRow, Nth, Retry, NoTask, outside,
       DbTypes, DepTypes, Attempts, ReqTypes, ReqType, OnDb, OutsideTypes
  <2>2. RowTypes'
    BY <1>9 DEF SetRunning, TaskAt, UpdateDatabaseStatus, HasRow, Nth, Retry, NoTask, outside,
       DbTypes, RowTypes, RowType, TaskTypes, TaskType
  <2>3. TaskTypes'
    BY <1>9, RetryTyped, NoTaskTyped DEF SetRunning, TaskGoes, UpdateDatabaseStatus, DbTypes,
       TaskTypes, TaskType, Stages
  <2> QED
    BY <2>1, <2>2, <2>3 DEF DbTypes
<1>10. ASSUME NEW d \in Dbs, SetFailed(d) PROVE DbTypes'
  <2>1. DepTypes' /\ ReqTypes' /\ OutsideTypes'
    BY <1>10 DEF SetFailed, TaskAt, UpdateDatabaseStatus, HasRow, NoTask, outside, DbTypes,
       DepTypes, Attempts, ReqTypes, ReqType, OnDb, OutsideTypes
  <2>2. RowTypes'
    BY <1>10 DEF SetFailed, TaskAt, UpdateDatabaseStatus, HasRow, NoTask, outside, DbTypes,
       RowTypes, RowType, TaskTypes, TaskType
  <2>3. TaskTypes'
    BY <1>10, RetryTyped, NoTaskTyped DEF SetFailed, TaskGoes, UpdateDatabaseStatus, DbTypes,
       TaskTypes, TaskType, Stages
  <2> QED
    BY <2>1, <2>2, <2>3 DEF DbTypes
<1>11. ASSUME NEW d \in Dbs, NeonFails(d) PROVE DbTypes'
  <2>1. RowTypes' /\ DepTypes' /\ ReqTypes' /\ OutsideTypes'
    BY <1>11 DEF NeonFails, Retry, Nth, outside, DbTypes, RowTypes, RowType, Attempts, DepTypes,
       ReqTypes, ReqType, OnDb, OutsideTypes
  <2>2. TaskTypes'
    BY <1>11, RetryTyped, NoTaskTyped DEF NeonFails, TaskGoes, UpdateDatabaseStatus, DbTypes,
       TaskTypes, TaskType, Stages
  <2> QED
    BY <2>1, <2>2 DEF DbTypes
<1>12. ASSUME NEW d \in Dbs, RequestFails(d) PROVE DbTypes'
  <2>1. RowTypes' /\ DepTypes' /\ ReqTypes' /\ OutsideTypes'
    BY <1>12 DEF RequestFails, TaskAt, Retry, Nth, outside, DbTypes, RowTypes, RowType, Attempts,
       DepTypes, ReqTypes, ReqType, OnDb, OutsideTypes
  <2>2. TaskTypes'
    BY <1>12, RetryTyped, NoTaskTyped DEF RequestFails, TaskGoes, UpdateDatabaseStatus, DbTypes,
       TaskTypes, TaskType, Stages
  <2> QED
    BY <2>1, <2>2 DEF DbTypes
<1>13. ASSUME NEW d \in Dbs, StatementFails(d) PROVE DbTypes'
  <2>1. RowTypes' /\ DepTypes' /\ ReqTypes' /\ OutsideTypes'
    BY <1>13 DEF StatementFails, Retry, Nth, NoTask, outside, DbTypes, RowTypes, RowType, Attempts,
       DepTypes, ReqTypes, ReqType, OnDb, OutsideTypes
  <2>2. TaskTypes'
    BY <1>13, RetryTyped, NoTaskTyped DEF StatementFails, TaskGoes, UpdateDatabaseStatus, DbTypes,
       TaskTypes, TaskType, Stages
  <2> QED
    BY <2>1, <2>2 DEF DbTypes
<1>14. ASSUME NEW d \in Dbs, NEW n \in Attempts, SchedulerDeploys(d, n) PROVE DbTypes'
  <2>1. RowTypes' /\ DepTypes' /\ ReqTypes'
    BY <1>14 DEF SchedulerDeploys, Waits, TaskAt, Nth, TaskGoes, DbTypes, RowTypes, RowType,
       Attempts, DepTypes, ReqTypes, ReqType, OnDb
  <2>2. TaskTypes'
    BY <1>14 DEF SchedulerDeploys, Waits, TaskAt, Nth, TaskGoes, DbTypes, TaskTypes, TaskType,
       Stages
  <2>3. OutsideTypes'
    BY <1>14 DEF SchedulerDeploys, Waits, TaskAt, Nth, TaskGoes, DbTypes, OutsideTypes, TaskTypes,
       TaskType
  <2> QED
    BY <2>1, <2>2, <2>3 DEF DbTypes
<1>15. ASSUME NEW r \in Requests, Create(r) PROVE DbTypes'
  <2>1. RowTypes' /\ DepTypes' /\ TaskTypes' /\ OutsideTypes'
    BY <1>15 DEF Create, In, Fresh, Go, outside, DbTypes, RowTypes, RowType, Attempts, DepTypes,
       TaskTypes, TaskType, Stages, OutsideTypes
  <2>2. ReqTypes'
    BY <1>15 DEF Create, In, Fresh, Go, outside, DbTypes, ReqTypes, ReqType, OnDb, RowTypes,
       RowType, DepTypes
  <2> QED
    BY <2>1, <2>2 DEF DbTypes
<1>16. ASSUME NEW r \in Requests, NEW d \in Dbs, Insert(r, d) PROVE DbTypes'
  <2>1. DepTypes' /\ OutsideTypes'
    BY <1>16 DEF Insert, In, Fresh, NoRow, outside, DbTypes, DepTypes, Attempts, OutsideTypes
  <2>2. RowTypes'
    BY <1>16 DEF Insert, In, Fresh, NoRow, outside, DbTypes, RowTypes, RowType, TaskTypes, TaskType
  <2>3. TaskTypes'
    BY <1>16 DEF Insert, In, Fresh, NoRow, outside, DbTypes, TaskTypes, TaskType, Stages
  <2>4. ReqTypes'
    BY <1>16 DEF Insert, In, Fresh, NoRow, outside, DbTypes, ReqTypes, ReqType, OnDb, RowTypes,
       RowType, DepTypes
  <2> QED
    BY <2>1, <2>2, <2>3, <2>4 DEF DbTypes
<1>17. ASSUME NEW r \in Requests, InsertFails(r) PROVE DbTypes'
  <2>1. RowTypes' /\ DepTypes' /\ TaskTypes' /\ OutsideTypes'
    BY <1>17 DEF InsertFails, In, Fresh, NoRequest, outside, DbTypes, RowTypes, RowType, Attempts,
       DepTypes, TaskTypes, TaskType, Stages, OutsideTypes
  <2>2. ReqTypes'
    BY <1>17 DEF InsertFails, In, Fresh, NoRequest, outside, DbTypes, ReqTypes, ReqType, OnDb,
       RowTypes, RowType, DepTypes
  <2> QED
    BY <2>1, <2>2 DEF DbTypes
<1>18. ASSUME NEW r \in Requests, IncrementDatabases(r) PROVE DbTypes'
  <2>1. RowTypes' /\ DepTypes' /\ TaskTypes' /\ OutsideTypes'
    BY <1>18 DEF IncrementDatabases, In, NoRequest, outside, DbTypes, RowTypes, RowType, Attempts,
       DepTypes, TaskTypes, TaskType, Stages, OutsideTypes
  <2>2. ReqTypes'
    BY <1>18 DEF IncrementDatabases, In, NoRequest, outside, DbTypes, ReqTypes, ReqType, OnDb,
       RowTypes, RowType, DepTypes
  <2> QED
    BY <2>1, <2>2 DEF DbTypes
<1>19. ASSUME NEW r \in Requests, GetDeployment(r) PROVE DbTypes'
  <2>1. RowTypes' /\ DepTypes' /\ TaskTypes' /\ OutsideTypes'
    BY <1>19 DEF GetDeployment, In, Go, GoRemove, outside, DbTypes, RowTypes, RowType, Attempts,
       DepTypes, TaskTypes, TaskType, Stages, OutsideTypes
  <2>2. ReqTypes'
    <3>1. /\ [req[r] EXCEPT !.at = "stop"] \in ReqType
          /\ [[req[r] EXCEPT !.at = "remove"] EXCEPT !.n = 0] \in ReqType
      BY DEF DbTypes, ReqTypes, ReqType
    <3>2. /\ OnDb([req[r] EXCEPT !.at = "stop"])
          /\ OnDb([[req[r] EXCEPT !.at = "remove"] EXCEPT !.n = 0])
      BY <1>19 DEF GetDeployment, In, OnDb, DbTypes, ReqTypes, ReqType
    <3> QED
      BY <1>19, <3>1, <3>2, ReqSet DEF GetDeployment, Go, GoRemove, DbTypes, ReqTypes, ReqType
  <2> QED
    BY <2>1, <2>2 DEF DbTypes
<1>20. ASSUME NEW r \in Requests, StopVm(r) PROVE DbTypes'
  <2>1. RowTypes' /\ DepTypes' /\ TaskTypes'
    BY <1>20 DEF StopVm, In, GoRemove, NoRequest, DbTypes, RowTypes, RowType, Attempts, DepTypes,
       TaskTypes, TaskType, Stages
  <2>2. ReqTypes'
    <3>1. [[req[r] EXCEPT !.at = "remove"] EXCEPT !.n = 0] \in ReqType /\ NoRequest \in ReqType
      BY DEF DbTypes, ReqTypes, ReqType, NoRequest
    <3>2. OnDb([[req[r] EXCEPT !.at = "remove"] EXCEPT !.n = 0]) /\ OnDb(NoRequest)
      BY <1>20 DEF StopVm, In, OnDb, DbTypes, ReqTypes, ReqType, NoRequest
    <3>3. \/ req' = [req EXCEPT ![r] = [[req[r] EXCEPT !.at = "remove"] EXCEPT !.n = 0]]
          \/ req' = [req EXCEPT ![r] = NoRequest]
      BY <1>20 DEF StopVm, GoRemove
    <3> QED
      BY <3>1, <3>2, <3>3, ReqSet DEF DbTypes
  <2>3. OutsideTypes'
    BY <1>20 DEF StopVm, In, GoRemove, NoRequest, DbTypes, OutsideTypes, TaskTypes, TaskType
  <2> QED
    BY <2>1, <2>2, <2>3 DEF DbTypes
<1>21. ASSUME NEW r \in Requests, Remove(r) PROVE DbTypes'
  <2>1. TaskTypes' /\ OutsideTypes'
    BY <1>21 DEF Remove, In, Gone, NoRow, Attempts, Go, HasRow, outside, DbTypes, TaskTypes,
       TaskType, Stages, OutsideTypes
  <2>2. RowTypes'
    BY <1>21 DEF Remove, In, Gone, NoRow, Attempts, Go, HasRow, outside, DbTypes, RowTypes,
       RowType, TaskTypes, TaskType
  <2>3. DepTypes'
    BY <1>21 DEF Remove, In, Gone, NoRow, Attempts, Go, HasRow, outside, DbTypes, DepTypes,
       TaskTypes, TaskType
  <2>4. ReqTypes'
    BY <1>21 DEF Remove, In, Gone, NoRow, Attempts, Go, HasRow, outside, DbTypes, ReqTypes,
       ReqType, OnDb, RowTypes, RowType, DepTypes
  <2> QED
    BY <2>1, <2>2, <2>3, <2>4 DEF DbTypes
<1>22. ASSUME NEW r \in Requests, DecrementDatabases(r) PROVE DbTypes'
  <2>1. RowTypes' /\ DepTypes' /\ TaskTypes' /\ OutsideTypes'
    BY <1>22 DEF DecrementDatabases, In, NoRequest, outside, DbTypes, RowTypes, RowType, Attempts,
       DepTypes, TaskTypes, TaskType, Stages, OutsideTypes
  <2>2. ReqTypes'
    BY <1>22 DEF DecrementDatabases, In, NoRequest, outside, DbTypes, ReqTypes, ReqType, OnDb,
       RowTypes, RowType, DepTypes
  <2> QED
    BY <2>1, <2>2 DEF DbTypes
<1>23. ASSUME NEW r \in Requests, RequestStatementFails(r) PROVE DbTypes'
  <2>1. RowTypes' /\ DepTypes' /\ TaskTypes' /\ OutsideTypes'
    BY <1>23 DEF RequestStatementFails, NoRequest, outside, DbTypes, RowTypes, RowType, Attempts,
       DepTypes, TaskTypes, TaskType, Stages, OutsideTypes
  <2>2. ReqTypes'
    BY <1>23 DEF RequestStatementFails, NoRequest, outside, DbTypes, ReqTypes, ReqType, OnDb,
       RowTypes, RowType, DepTypes
  <2> QED
    BY <2>1, <2>2 DEF DbTypes
<1>24. ASSUME NEW r \in Requests, NEW d \in Dbs, Delete(r, d) PROVE DbTypes'
  <2>1. RowTypes' /\ DepTypes' /\ TaskTypes' /\ OutsideTypes'
    BY <1>24 DEF Delete, In, HasRow, TaskAt, outside, DbTypes, RowTypes, RowType, Attempts,
       DepTypes, TaskTypes, TaskType, Stages, OutsideTypes
  <2>2. ReqTypes'
    BY <1>24 DEF Delete, In, HasRow, TaskAt, outside, DbTypes, ReqTypes, ReqType, OnDb, RowTypes,
       RowType, DepTypes
  <2> QED
    BY <2>1, <2>2 DEF DbTypes
<1>25. CASE ReAttach
  <2>1. RowTypes' /\ DepTypes' /\ TaskTypes' /\ ReqTypes'
    BY <1>25 DEF ReAttach, HasRow, TaskAt, DbTypes, RowTypes, RowType, Attempts, DepTypes,
       TaskTypes, TaskType, Stages, ReqTypes, ReqType, OnDb
  <2>2. OutsideTypes'
    BY <1>25 DEF ReAttach, HasRow, TaskAt, DbTypes, OutsideTypes, TaskTypes, TaskType
  <2> QED
    BY <2>1, <2>2 DEF DbTypes
<1>26. CASE Restart
  <2>1. RowTypes' /\ DepTypes' /\ OutsideTypes'
    BY <1>26 DEF Restart, NoTask, NoRequest, DbTypes, RowTypes, RowType, Attempts, DepTypes,
       OutsideTypes
  <2>2. TaskTypes'
    BY <1>26, RetryTyped, NoTaskTyped DEF Restart, TaskGoes, UpdateDatabaseStatus, DbTypes,
       TaskTypes, TaskType, Stages
  <2>3. ReqTypes'
    BY <1>26 DEF Restart, NoTask, NoRequest, DbTypes, ReqTypes, ReqType, OnDb, RowTypes, RowType,
       DepTypes
  <2> QED
    BY <2>1, <2>2, <2>3 DEF DbTypes
<1>27. CASE UNCHANGED dbVars
  BY <1>27 DEF dbVars, outside, DbTypes, RowTypes, RowType, Attempts, DepTypes, TaskTypes,
     TaskType, Stages, ReqTypes, ReqType, OnDb, OutsideTypes
<1> QED
  BY <1>1, <1>2, <1>3, <1>4, <1>5, <1>6, <1>7, <1>8, <1>9, <1>10, <1>11, <1>12, <1>13, <1>14,
     <1>15, <1>16, <1>17, <1>18, <1>19, <1>20, <1>21, <1>22, <1>23, <1>24, <1>25, <1>26, <1>27 DEF
     DbNext, ProvisionAndDeploy, ProvisioningFails, HandleRequest

(* Every step keeps a task for every pending database. *)
LEMMA PendingKept ==
  DbTypes /\ PendingHasTask /\ [DbNext]_dbVars => PendingHasTask'
<1> SUFFICES ASSUME DbTypes, PendingHasTask, [DbNext]_dbVars PROVE PendingHasTask'
  OBVIOUS
<1>1. ASSUME NEW d \in Dbs, Look(d) PROVE PendingHasTask'
  BY <1>1 DEF Look, HasRow, TaskGoes, Retry, Nth, outside, PendingHasTask, TaskAt, DbTypes,
     RowTypes, RowType, TaskTypes, TaskType
<1>2. ASSUME NEW d \in Dbs, CreateTenant(d) PROVE PendingHasTask'
  BY <1>2 DEF CreateTenant, TaskGoes, PendingHasTask, TaskAt, DbTypes, RowTypes, RowType,
     TaskTypes, TaskType
<1>3. ASSUME NEW d \in Dbs, CreateTimeline(d) PROVE PendingHasTask'
  BY <1>3 DEF CreateTimeline, TaskGoes, outside, PendingHasTask, TaskAt, DbTypes, RowTypes,
     RowType, TaskTypes, TaskType
<1>4. ASSUME NEW d \in Dbs, UpdateProvisioning(d) PROVE PendingHasTask'
  BY <1>4 DEF UpdateProvisioning, HasRow, TaskGoes, outside, PendingHasTask, TaskAt, DbTypes,
     RowTypes, RowType, TaskTypes, TaskType
<1>5. ASSUME NEW d \in Dbs, CreateDeployment(d) PROVE PendingHasTask'
  BY <1>5 DEF CreateDeployment, HasRow, Nth, TaskGoes, Retry, outside, PendingHasTask, TaskAt,
     DbTypes, RowTypes, RowType, TaskTypes, TaskType
<1>6. ASSUME NEW d \in Dbs, Activate(d) PROVE PendingHasTask'
  BY <1>6 DEF Activate, HasRow, Nth, TaskGoes, PendingHasTask, TaskAt, DbTypes, RowTypes, RowType,
     TaskTypes, TaskType
<1>7. ASSUME NEW d \in Dbs, DeploymentRefused(d) PROVE PendingHasTask'
  BY <1>7 DEF DeploymentRefused, UpdateDatabaseStatus, HasRow, Retry, Nth, outside,
     PendingHasTask, TaskAt, DbTypes, RowTypes, RowType, TaskTypes, TaskType
<1>8. ASSUME NEW d \in Dbs, UpdateJobInfo(d) PROVE PendingHasTask'
  BY <1>8 DEF UpdateJobInfo, Nth, TaskGoes, outside, PendingHasTask, TaskAt, DbTypes, RowTypes,
     RowType, TaskTypes, TaskType
<1>9. ASSUME NEW d \in Dbs, SetRunning(d) PROVE PendingHasTask'
  BY <1>9 DEF SetRunning, UpdateDatabaseStatus, HasRow, Nth, Retry, NoTask, outside,
     PendingHasTask, TaskAt, DbTypes, RowTypes, RowType, TaskTypes, TaskType
<1>10. ASSUME NEW d \in Dbs, SetFailed(d) PROVE PendingHasTask'
  BY <1>10 DEF SetFailed, UpdateDatabaseStatus, HasRow, NoTask, outside, PendingHasTask, TaskAt,
     DbTypes, RowTypes, RowType, TaskTypes, TaskType
<1>11. ASSUME NEW d \in Dbs, NeonFails(d) PROVE PendingHasTask'
  BY <1>11 DEF NeonFails, Rare, Failures, Retry, Nth, outside, PendingHasTask, TaskAt, DbTypes,
     RowTypes, RowType, TaskTypes, TaskType
<1>12. ASSUME NEW d \in Dbs, RequestFails(d) PROVE PendingHasTask'
  BY <1>12 DEF RequestFails, Rare, Failures, Retry, Nth, outside, PendingHasTask, TaskAt, DbTypes,
     RowTypes, RowType, TaskTypes, TaskType
<1>13. ASSUME NEW d \in Dbs, StatementFails(d) PROVE PendingHasTask'
  BY <1>13 DEF StatementFails, Rare, Failures, Retry, Nth, NoTask, outside, PendingHasTask,
     TaskAt, DbTypes, RowTypes, RowType, TaskTypes, TaskType
<1>14. ASSUME NEW d \in Dbs, NEW n \in Attempts, SchedulerDeploys(d, n) PROVE PendingHasTask'
  BY <1>14 DEF SchedulerDeploys, Waits, Nth, TaskGoes, PendingHasTask, TaskAt, DbTypes, RowTypes,
     RowType, TaskTypes, TaskType
<1>15. ASSUME NEW r \in Requests, Create(r) PROVE PendingHasTask'
  BY <1>15 DEF Create, In, Fresh, Go, outside, PendingHasTask, TaskAt, DbTypes, RowTypes, RowType,
     TaskTypes, TaskType
<1>16. ASSUME NEW r \in Requests, NEW d \in Dbs, Insert(r, d) PROVE PendingHasTask'
  BY <1>16 DEF Insert, In, Fresh, NoRow, outside, PendingHasTask, TaskAt, DbTypes, RowTypes,
     RowType, TaskTypes, TaskType
<1>17. ASSUME NEW r \in Requests, InsertFails(r) PROVE PendingHasTask'
  BY <1>17 DEF InsertFails, In, Rare, Failures, Fresh, NoRequest, outside, PendingHasTask, TaskAt,
     DbTypes, RowTypes, RowType, TaskTypes, TaskType
<1>18. ASSUME NEW r \in Requests, IncrementDatabases(r) PROVE PendingHasTask'
  BY <1>18 DEF IncrementDatabases, In, NoRequest, outside, PendingHasTask, TaskAt, DbTypes,
     RowTypes, RowType, TaskTypes, TaskType
<1>19. ASSUME NEW r \in Requests, GetDeployment(r) PROVE PendingHasTask'
  BY <1>19 DEF GetDeployment, In, Go, GoRemove, outside, PendingHasTask, TaskAt, DbTypes, RowTypes,
     RowType, TaskTypes, TaskType
<1>20. ASSUME NEW r \in Requests, StopVm(r) PROVE PendingHasTask'
  BY <1>20 DEF StopVm, In, GoRemove, NoRequest, Rare, Failures, PendingHasTask, TaskAt, DbTypes,
     RowTypes, RowType, TaskTypes, TaskType
<1>21. ASSUME NEW r \in Requests, Remove(r) PROVE PendingHasTask'
  BY <1>21 DEF Remove, In, Gone, NoRow, Attempts, Go, HasRow, outside, PendingHasTask, TaskAt,
     DbTypes, RowTypes, RowType, TaskTypes, TaskType
<1>22. ASSUME NEW r \in Requests, DecrementDatabases(r) PROVE PendingHasTask'
  BY <1>22 DEF DecrementDatabases, In, NoRequest, outside, PendingHasTask, TaskAt, DbTypes,
     RowTypes, RowType, TaskTypes, TaskType
<1>23. ASSUME NEW r \in Requests, RequestStatementFails(r) PROVE PendingHasTask'
  BY <1>23 DEF RequestStatementFails, Rare, Failures, NoRequest, outside, PendingHasTask, TaskAt,
     DbTypes, RowTypes, RowType, TaskTypes, TaskType
<1>24. ASSUME NEW r \in Requests, NEW d \in Dbs, Delete(r, d) PROVE PendingHasTask'
  BY <1>24 DEF Delete, In, HasRow, outside, PendingHasTask, TaskAt, DbTypes, RowTypes, RowType,
     TaskTypes, TaskType
<1>25. CASE ReAttach
  BY <1>25 DEF ReAttach, HasRow, Rare, Failures, PendingHasTask, TaskAt, DbTypes, RowTypes,
     RowType, TaskTypes, TaskType
<1>26. CASE Restart
  BY <1>26 DEF Restart, Rare, Failures, NoTask, NoRequest, PendingHasTask, TaskAt, DbTypes,
     RowTypes, RowType, TaskTypes, TaskType
<1>27. CASE UNCHANGED dbVars
  BY <1>27 DEF dbVars, outside, PendingHasTask, TaskAt, DbTypes, RowTypes, RowType, TaskTypes,
     TaskType
<1> QED
  BY <1>1, <1>2, <1>3, <1>4, <1>5, <1>6, <1>7, <1>8, <1>9, <1>10, <1>11, <1>12, <1>13, <1>14,
     <1>15, <1>16, <1>17, <1>18, <1>19, <1>20, <1>21, <1>22, <1>23, <1>24, <1>25, <1>26, <1>27 DEF
     DbNext, ProvisionAndDeploy, ProvisioningFails, HandleRequest

(* The databases, and the requests that are about to count, are finitely many. *)
LEMMA Finite ==
  IsFiniteSet(Rows) /\ IsFiniteSet(Uncounted) /\ IsFiniteSet(Removed)
BY DatabasesAssumption, FS_Subset DEF Rows, Uncounted, Removed

(* A smaller number is within every limit. *)
LEMMA Smaller ==
  ASSUME NEW a \in Nat, NEW b \in Nat, NEW l \in Nat, a <= b
  PROVE  (b <= l => a <= l) /\ (b + 1 <= l => a + 1 <= l)
OBVIOUS

(* The count stays true, where rows, creations and deletions stay, or something has failed. *)
LEMMA CountStays ==
  ASSUME CountInv, rare \subseteq rare', count' = count,
         \A r \in Requests : Creating(r)' => Creating(r),
         \/ rare' \cap {"cut", "crossed"} # {}
         \/ Uncounted' = Uncounted /\ Removed' = Removed /\ Rows' = Rows
  PROVE  CountInv'
<1>1. rare' \cap {"cut", "crossed"} = {} =>
        count' + Cardinality(Uncounted') = Cardinality(Rows') + Cardinality(Removed')
  BY DEF CountInv
<1>2. "together" \notin rare' =>
       /\ count' <= Limit
       /\ \A r, s \in Requests : Creating(r)' /\ Creating(s)' => r = s
       /\ \A r \in Requests : Creating(r)' => count' + 1 <= Limit
  BY DEF CountInv
<1> QED
  BY <1>1, <1>2 DEF CountInv

(* Every step keeps the count true. *)
LEMMA CountKept ==
  DbTypes /\ CountInv /\ [DbNext]_dbVars => CountInv'
<1> SUFFICES ASSUME DbTypes, CountInv, [DbNext]_dbVars PROVE CountInv'
  OBVIOUS
<1>1. ASSUME NEW d \in Dbs, Look(d) PROVE CountInv'
  <2>1. \A e \in Dbs : HasRow(e)' <=> HasRow(e)
    BY <1>1 DEF Look, HasRow, UpdateDatabaseStatus, DbTypes, RowTypes, RowType
  <2>2. req' = req /\ count' = count /\ rare \subseteq rare'
    BY <1>1 DEF Look, Rare
  <2> QED
    BY <2>1, <2>2, CountStays DEF Rows, Uncounted, Removed, Creating, In
<1>2. ASSUME NEW d \in Dbs, CreateTenant(d) PROVE CountInv'
  <2>1. \A e \in Dbs : HasRow(e)' <=> HasRow(e)
    BY <1>2 DEF CreateTenant, HasRow, UpdateDatabaseStatus, DbTypes, RowTypes, RowType
  <2>2. req' = req /\ count' = count /\ rare \subseteq rare'
    BY <1>2 DEF CreateTenant, Rare
  <2> QED
    BY <2>1, <2>2, CountStays DEF Rows, Uncounted, Removed, Creating, In
<1>3. ASSUME NEW d \in Dbs, CreateTimeline(d) PROVE CountInv'
  <2>1. \A e \in Dbs : HasRow(e)' <=> HasRow(e)
    BY <1>3 DEF CreateTimeline, HasRow, UpdateDatabaseStatus, DbTypes, RowTypes, RowType
  <2>2. req' = req /\ count' = count /\ rare \subseteq rare'
    BY <1>3 DEF CreateTimeline, Rare
  <2> QED
    BY <2>1, <2>2, CountStays DEF Rows, Uncounted, Removed, Creating, In
<1>4. ASSUME NEW d \in Dbs, UpdateProvisioning(d) PROVE CountInv'
  <2>1. \A e \in Dbs : HasRow(e)' <=> HasRow(e)
    BY <1>4 DEF UpdateProvisioning, HasRow, UpdateDatabaseStatus, DbTypes, RowTypes, RowType
  <2>2. req' = req /\ count' = count /\ rare \subseteq rare'
    BY <1>4 DEF UpdateProvisioning, Rare
  <2> QED
    BY <2>1, <2>2, CountStays DEF Rows, Uncounted, Removed, Creating, In
<1>5. ASSUME NEW d \in Dbs, CreateDeployment(d) PROVE CountInv'
  <2>1. \A e \in Dbs : HasRow(e)' <=> HasRow(e)
    BY <1>5 DEF CreateDeployment, HasRow, UpdateDatabaseStatus, DbTypes, RowTypes, RowType
  <2>2. req' = req /\ count' = count /\ rare \subseteq rare'
    BY <1>5 DEF CreateDeployment, Rare
  <2> QED
    BY <2>1, <2>2, CountStays DEF Rows, Uncounted, Removed, Creating, In
<1>6. ASSUME NEW d \in Dbs, Activate(d) PROVE CountInv'
  <2>1. \A e \in Dbs : HasRow(e)' <=> HasRow(e)
    BY <1>6 DEF Activate, HasRow, UpdateDatabaseStatus, DbTypes, RowTypes, RowType
  <2>2. req' = req /\ count' = count /\ rare \subseteq rare'
    BY <1>6 DEF Activate, Rare
  <2> QED
    BY <2>1, <2>2, CountStays DEF Rows, Uncounted, Removed, Creating, In
<1>7. ASSUME NEW d \in Dbs, DeploymentRefused(d) PROVE CountInv'
  <2>1. \A e \in Dbs : HasRow(e)' <=> HasRow(e)
    BY <1>7 DEF DeploymentRefused, HasRow, UpdateDatabaseStatus, DbTypes, RowTypes, RowType
  <2>2. req' = req /\ count' = count /\ rare \subseteq rare'
    BY <1>7 DEF DeploymentRefused, Rare
  <2> QED
    BY <2>1, <2>2, CountStays DEF Rows, Uncounted, Removed, Creating, In
<1>8. ASSUME NEW d \in Dbs, UpdateJobInfo(d) PROVE CountInv'
  <2>1. \A e \in Dbs : HasRow(e)' <=> HasRow(e)
    BY <1>8 DEF UpdateJobInfo, HasRow, UpdateDatabaseStatus, DbTypes, RowTypes, RowType
  <2>2. req' = req /\ count' = count /\ rare \subseteq rare'
    BY <1>8 DEF UpdateJobInfo, Rare
  <2> QED
    BY <2>1, <2>2, CountStays DEF Rows, Uncounted, Removed, Creating, In
<1>9. ASSUME NEW d \in Dbs, SetRunning(d) PROVE CountInv'
  <2>1. \A e \in Dbs : HasRow(e)' <=> HasRow(e)
    BY <1>9 DEF SetRunning, HasRow, UpdateDatabaseStatus, DbTypes, RowTypes, RowType
  <2>2. req' = req /\ count' = count /\ rare \subseteq rare'
    BY <1>9 DEF SetRunning, Rare
  <2> QED
    BY <2>1, <2>2, CountStays DEF Rows, Uncounted, Removed, Creating, In
<1>10. ASSUME NEW d \in Dbs, SetFailed(d) PROVE CountInv'
  <2>1. \A e \in Dbs : HasRow(e)' <=> HasRow(e)
    BY <1>10 DEF SetFailed, HasRow, UpdateDatabaseStatus, DbTypes, RowTypes, RowType
  <2>2. req' = req /\ count' = count /\ rare \subseteq rare'
    BY <1>10 DEF SetFailed, Rare
  <2> QED
    BY <2>1, <2>2, CountStays DEF Rows, Uncounted, Removed, Creating, In
<1>11. ASSUME NEW d \in Dbs, NeonFails(d) PROVE CountInv'
  <2>1. \A e \in Dbs : HasRow(e)' <=> HasRow(e)
    BY <1>11 DEF NeonFails, HasRow, UpdateDatabaseStatus, DbTypes, RowTypes, RowType
  <2>2. req' = req /\ count' = count /\ rare \subseteq rare'
    BY <1>11 DEF NeonFails, Rare
  <2> QED
    BY <2>1, <2>2, CountStays DEF Rows, Uncounted, Removed, Creating, In
<1>12. ASSUME NEW d \in Dbs, RequestFails(d) PROVE CountInv'
  <2>1. \A e \in Dbs : HasRow(e)' <=> HasRow(e)
    BY <1>12 DEF RequestFails, HasRow, UpdateDatabaseStatus, DbTypes, RowTypes, RowType
  <2>2. req' = req /\ count' = count /\ rare \subseteq rare'
    BY <1>12 DEF RequestFails, Rare
  <2> QED
    BY <2>1, <2>2, CountStays DEF Rows, Uncounted, Removed, Creating, In
<1>13. ASSUME NEW d \in Dbs, StatementFails(d) PROVE CountInv'
  <2>1. \A e \in Dbs : HasRow(e)' <=> HasRow(e)
    BY <1>13 DEF StatementFails, HasRow, UpdateDatabaseStatus, DbTypes, RowTypes, RowType
  <2>2. req' = req /\ count' = count /\ rare \subseteq rare'
    BY <1>13 DEF StatementFails, Rare
  <2> QED
    BY <2>1, <2>2, CountStays DEF Rows, Uncounted, Removed, Creating, In
<1>14. ASSUME NEW d \in Dbs, NEW n \in Attempts, SchedulerDeploys(d, n) PROVE CountInv'
  <2>1. \A e \in Dbs : HasRow(e)' <=> HasRow(e)
    BY <1>14 DEF SchedulerDeploys, HasRow, UpdateDatabaseStatus, DbTypes, RowTypes, RowType
  <2>2. req' = req /\ count' = count /\ rare \subseteq rare'
    BY <1>14 DEF SchedulerDeploys, Rare
  <2> QED
    BY <2>1, <2>2, CountStays DEF Rows, Uncounted, Removed, Creating, In
<1>15. ASSUME NEW r \in Requests, Create(r) PROVE CountInv'
  <2>1. count' = count /\ rare \subseteq rare' /\ row' = row /\ count + 1 <= Limit
    BY <1>15 DEF Create, CheckDatabaseEntitlement
  <2>2. Uncounted' = Uncounted /\ Removed' = Removed /\ Rows' = Rows
    BY <1>15 DEF Create, Go, Uncounted, Removed, Rows, HasRow, In, DbTypes, ReqTypes, ReqType
  <2>3. ASSUME "together" \notin rare'
        PROVE  \A s, t \in Requests : Creating(s)' /\ Creating(t)' => s = t
    <3>1. \A s \in Requests : ~Creating(s)
      BY <1>15, <2>3 DEF Create, Creating, In
    <3>2. \A s \in Requests : Creating(s)' => s = r
      BY <1>15, <3>1 DEF Create, Go, Creating, In, DbTypes, ReqTypes
    <3> QED
      BY <3>2
  <2>4. count <= Limit
    BY <2>1, DatabasesAssumption DEF CountInv
  <2> QED
    BY <2>1, <2>2, <2>3, <2>4 DEF CountInv
<1>16. ASSUME NEW r \in Requests, NEW d \in Dbs, Insert(r, d) PROVE CountInv'
  <2>1. /\ d \notin Rows /\ Rows' = Rows \cup {d}
        /\ r \notin Uncounted /\ Uncounted' = Uncounted \cup {r} /\ Removed' = Removed
    BY <1>16 DEF Insert, Fresh, NoRow, Rows, HasRow, Uncounted, Removed, In, DbTypes, RowTypes,
       RowType, ReqTypes, ReqType
  <2>2. /\ Cardinality(Rows') = Cardinality(Rows) + 1
        /\ Cardinality(Uncounted') = Cardinality(Uncounted) + 1
    BY <2>1, Finite, FS_AddElement
  <2>3. count' = count /\ rare' = rare /\ \A s \in Requests : Creating(s)' => Creating(s)
    BY <1>16 DEF Insert, Creating, In, DbTypes, ReqTypes
  <2>4. rare' \cap {"cut", "crossed"} = {} =>
          count' + Cardinality(Uncounted') = Cardinality(Rows') + Cardinality(Removed')
    BY <2>1, <2>2, <2>3, Finite, FS_CardinalityType DEF CountInv
  <2>5. "together" \notin rare' =>
         /\ count' <= Limit
         /\ \A s, t \in Requests : Creating(s)' /\ Creating(t)' => s = t
         /\ \A s \in Requests : Creating(s)' => count' + 1 <= Limit
    BY <2>3 DEF CountInv
  <2> QED
    BY <2>3, <2>4, <2>5 DEF CountInv
<1>17. ASSUME NEW r \in Requests, InsertFails(r) PROVE CountInv'
  <2>1. /\ \A s \in Requests : Creating(s)' => Creating(s)
        /\ Uncounted' = Uncounted /\ Removed' = Removed
    BY <1>17 DEF InsertFails, Go, GoRemove, NoRequest, Creating, Uncounted, Removed, In, DbTypes,
       ReqTypes, ReqType
  <2>2. row' = row /\ count' = count /\ rare \subseteq rare'
    BY <1>17 DEF InsertFails, Rare
  <2> QED
    BY <2>1, <2>2, CountStays DEF Rows, HasRow
<1>18. ASSUME NEW r \in Requests, IncrementDatabases(r) PROVE CountInv'
  <2>1. /\ r \in Uncounted /\ Uncounted' = Uncounted \ {r}
        /\ Removed' = Removed /\ Rows' = Rows
    BY <1>18 DEF IncrementDatabases, NoRequest, Rows, HasRow, Uncounted, Removed, In, DbTypes,
       ReqTypes, ReqType
  <2>2. Cardinality(Uncounted') = Cardinality(Uncounted) - 1
    BY <2>1, Finite, FS_RemoveElement
  <2>3. /\ count' = count + 1 /\ rare' = rare /\ Creating(r)
        /\ \A s \in Requests : Creating(s)' => Creating(s) /\ s # r
    BY <1>18 DEF IncrementDatabases, NoRequest, Creating, In, DbTypes, ReqTypes
  <2>4. rare' \cap {"cut", "crossed"} = {} =>
          count' + Cardinality(Uncounted') = Cardinality(Rows') + Cardinality(Removed')
    BY <2>1, <2>2, <2>3, Finite, FS_CardinalityType DEF CountInv
  <2>5. "together" \notin rare' => count' <= Limit /\ \A s \in Requests : ~Creating(s)'
    BY <2>3 DEF CountInv
  <2> QED
    BY <2>3, <2>4, <2>5 DEF CountInv
<1>19. ASSUME NEW r \in Requests, GetDeployment(r) PROVE CountInv'
  <2>1. /\ \A s \in Requests : Creating(s)' => Creating(s)
        /\ Uncounted' = Uncounted /\ Removed' = Removed
    BY <1>19 DEF GetDeployment, Go, GoRemove, NoRequest, Creating, Uncounted, Removed, In, DbTypes,
       ReqTypes, ReqType
  <2>2. row' = row /\ count' = count /\ rare \subseteq rare'
    BY <1>19 DEF GetDeployment, Rare
  <2> QED
    BY <2>1, <2>2, CountStays DEF Rows, HasRow
<1>20. ASSUME NEW r \in Requests, StopVm(r) PROVE CountInv'
  <2>1. /\ [[req[r] EXCEPT !.at = "remove"] EXCEPT !.n = 0].at = "remove"
        /\ NoRequest.at = "idle"
    BY DEF NoRequest, DbTypes, ReqTypes, ReqType
  <2>2. PICK q : req' = [req EXCEPT ![r] = q] /\ q.at \in {"remove", "idle"}
    BY <1>20, <2>1 DEF StopVm, GoRemove
  <2>3. \A s \in Requests : /\ s # r => req'[s] = req[s]
                           /\ req'[r].at \in {"remove", "idle"} /\ req[r].at = "stop"
    BY <1>20, <2>2 DEF StopVm, In, DbTypes, ReqTypes
  <2>4. /\ \A s \in Requests : Creating(s)' => Creating(s)
        /\ Uncounted' = Uncounted /\ Removed' = Removed
    BY <2>3 DEF Creating, Uncounted, Removed, In
  <2>5. row' = row /\ count' = count /\ rare \subseteq rare'
    BY <1>20 DEF StopVm, Rare
  <2> QED
    BY <2>4, <2>5, CountStays DEF Rows, HasRow
<1>21. ASSUME NEW r \in Requests, Remove(r) PROVE CountInv'
  <2> DEFINE d == req[r].db
  <2>1. /\ d \in Dbs /\ Rows' = Rows \ {d} /\ Uncounted' = Uncounted
        /\ r \notin Removed /\ Removed' = Removed \cup {r}
    BY <1>21 DEF Remove, Go, Gone, NoRow, Rows, HasRow, Uncounted, Removed, In, DbTypes, RowTypes,
       RowType, ReqTypes, ReqType, OnDb
  <2>2. /\ count' = count /\ rare \subseteq rare' /\ (d \notin Rows => "crossed" \in rare')
        /\ \A s \in Requests : Creating(s)' => Creating(s)
    BY <1>21, <2>1 DEF Remove, Rows, Go, Creating, In, DbTypes, ReqTypes
  <2>3. Cardinality(Removed') = Cardinality(Removed) + 1
    BY <2>1, Finite, FS_AddElement
  <2>4. d \in Rows => Cardinality(Rows') = Cardinality(Rows) - 1
    BY <2>1, Finite, FS_RemoveElement
  <2>5. rare' \cap {"cut", "crossed"} = {} =>
          count' + Cardinality(Uncounted') = Cardinality(Rows') + Cardinality(Removed')
    BY <2>1, <2>2, <2>3, <2>4, Finite, FS_CardinalityType DEF CountInv
  <2>6. "together" \notin rare' =>
         /\ count' <= Limit
         /\ \A s, t \in Requests : Creating(s)' /\ Creating(t)' => s = t
         /\ \A s \in Requests : Creating(s)' => count' + 1 <= Limit
    BY <2>2 DEF CountInv
  <2> QED
    BY <2>2, <2>5, <2>6 DEF CountInv
<1>22. ASSUME NEW r \in Requests, DecrementDatabases(r) PROVE CountInv'
  <2>1. /\ r \in Removed /\ Removed' = Removed \ {r}
        /\ Uncounted' = Uncounted /\ Rows' = Rows
    BY <1>22 DEF DecrementDatabases, NoRequest, Rows, HasRow, Uncounted, Removed, In, DbTypes,
       ReqTypes, ReqType
  <2>2. Cardinality(Removed') = Cardinality(Removed) - 1
    BY <2>1, Finite, FS_RemoveElement
  <2>3. /\ rare \subseteq rare' /\ \A s \in Requests : Creating(s)' => Creating(s)
        /\ \/ count = 0 /\ count' = count /\ "crossed" \in rare'
           \/ count # 0 /\ count' = count - 1
    BY <1>22 DEF DecrementDatabases, NoRequest, Creating, In, DbTypes, ReqTypes
  <2>4. count' \in Nat /\ count' <= count
    BY <2>3 DEF CountInv
  <2>5. rare' \cap {"cut", "crossed"} = {} =>
          count' + Cardinality(Uncounted') = Cardinality(Rows') + Cardinality(Removed')
    BY <2>1, <2>2, <2>3, Finite, FS_CardinalityType DEF CountInv
  <2>6. "together" \notin rare' =>
         /\ count' <= Limit
         /\ \A s, t \in Requests : Creating(s)' /\ Creating(t)' => s = t
         /\ \A s \in Requests : Creating(s)' => count' + 1 <= Limit
    <3>1. /\ count \in Nat /\ Limit \in Nat
          /\ "together" \notin rare' => "together" \notin rare
      BY <2>3, DatabasesAssumption DEF CountInv
    <3>2. (count <= Limit => count' <= Limit) /\ (count + 1 <= Limit => count' + 1 <= Limit)
      BY <2>4, <3>1, Smaller
    <3> QED
      BY <2>3, <3>1, <3>2 DEF CountInv
  <2> QED
    BY <2>4, <2>5, <2>6 DEF CountInv
<1>23. ASSUME NEW r \in Requests, RequestStatementFails(r) PROVE CountInv'
  <2>1. \A s \in Requests : Creating(s)' => Creating(s)
    BY <1>23 DEF RequestStatementFails, NoRequest, Creating, In, DbTypes, ReqTypes, ReqType
  <2>2. count' = count /\ rare \subseteq rare' /\ "cut" \in rare'
    BY <1>23 DEF RequestStatementFails, Rare
  <2> QED
    BY <2>1, <2>2, CountStays
<1>24. ASSUME NEW r \in Requests, NEW d \in Dbs, Delete(r, d) PROVE CountInv'
  <2>1. /\ \A s \in Requests : Creating(s)' => Creating(s)
        /\ Uncounted' = Uncounted /\ Removed' = Removed
    BY <1>24 DEF Delete, Go, GoRemove, NoRequest, Creating, Uncounted, Removed, In, DbTypes,
       ReqTypes, ReqType
  <2>2. row' = row /\ count' = count /\ rare \subseteq rare'
    BY <1>24 DEF Delete, Rare
  <2> QED
    BY <2>1, <2>2, CountStays DEF Rows, HasRow
<1>25. CASE ReAttach
  <2>1. \A e \in Dbs : HasRow(e)' <=> HasRow(e)
    BY <1>25 DEF ReAttach, HasRow, UpdateDatabaseStatus, DbTypes, RowTypes, RowType
  <2>2. req' = req /\ count' = count /\ rare \subseteq rare'
    BY <1>25 DEF ReAttach, Rare
  <2> QED
    BY <2>1, <2>2, CountStays DEF Rows, Uncounted, Removed, Creating, In
<1>26. CASE Restart
  <2>1. \A s \in Requests : Creating(s)' => Creating(s)
    BY <1>26 DEF Restart, NoRequest, Creating, In, DbTypes, ReqTypes, ReqType
  <2>2. count' = count /\ rare \subseteq rare' /\ "cut" \in rare'
    BY <1>26 DEF Restart, Rare
  <2> QED
    BY <2>1, <2>2, CountStays
<1>27. CASE UNCHANGED dbVars
  BY <1>27, CountStays DEF dbVars, outside, Creating, Uncounted, Removed, Rows, HasRow, In
<1> QED
  BY <1>1, <1>2, <1>3, <1>4, <1>5, <1>6, <1>7, <1>8, <1>9, <1>10, <1>11, <1>12, <1>13, <1>14,
     <1>15, <1>16, <1>17, <1>18, <1>19, <1>20, <1>21, <1>22, <1>23, <1>24, <1>25, <1>26, <1>27 DEF
     DbNext, ProvisionAndDeploy, ProvisioningFails, HandleRequest

(*------------------------------ Rows and VMs -----------------------------*)
(* What a step does not touch of a database stays good. *)
LEMMA GoodStays ==
  ASSUME NEW e \in Dbs, Good(e), row'[e] = row[e], dep'[e] = dep[e], task'[e] = task[e],
         \A n \in Attempts : <<e, n>> \in asked' => <<e, n>> \in asked,
         \A n \in Attempts : <<e, n>> \in vm' <=> <<e, n>> \in vm,
         HasDisk(e) => HasDisk(e)', DbTypes,
         \A r \in Requests : req'[r].db = e => req'[r] = req[r],
         \A r \in Requests : In(r, "remove") /\ req[r].db = e => req'[r] = req[r]
  PROVE  Good(e)'
<1>1. Nth(e) \in Attempts /\ Nth(e)' = Nth(e) /\ \A l \in Stages : TaskAt(e, l)' <=> TaskAt(e, l)
  BY DEF Nth, TaskAt, DbTypes, TaskTypes, TaskType
<1>2. OneVm(e)'
  BY <1>1 DEF Good, OneVm, Stages
<1>3. HasVm(e)'
  BY <1>1 DEF Good, HasVm, Stages
<1>4. Provisioned(e)'
  BY <1>1 DEF Good, Provisioned, Stages, TaskAt, In
<1>5. Running(e)'
  BY DEF Good, Running, In
<1> QED
  BY <1>2, <1>3, <1>4, <1>5 DEF Good

(* What was true of a deletion stays true, where its database and its VMs are left alone. *)
LEMMA DeletionStays ==
  ASSUME NEW s \in Requests, Deletion(s), DbTypes, req'[s] = req[s],
         req[s].at \in {"job", "stop"} => row'[req[s].db] = row[req[s].db],
         \A n \in Attempts : <<req[s].db, n>> \in vm' => <<req[s].db, n>> \in vm
  PROVE  Deletion(s)'
BY DEF Deletion, In, HasRow

(* Nothing is to be shown once something has happened that the rows do not survive. *)
LEMMA NotCalm ==
  ASSUME RowsInv, ~ Calm', \A d \in Dbs : row[d].st # "none" => row'[d].st # "none",
         \A r \in Requests, d \in Dbs : req'[r].db = d => req[r].db = d \/ row'[d].st # "none"
  PROVE  RowsInv'
BY DEF RowsInv, Known

(* A step of a task, or of the scheduler for it, has only its database to think of. *)
LEMMA TaskStep ==
  ASSUME DbTypes, RowsInv, NEW d \in Dbs, req' = req, rare \subseteq rare',
         row[d].st # "none" => row'[d].st # "none",
         \A e \in Dbs : e # d =>
           /\ row'[e] = row[e] /\ dep'[e] = dep[e] /\ task'[e] = task[e]
           /\ \A n \in Attempts : <<e, n>> \in asked' => <<e, n>> \in asked
           /\ \A n \in Attempts : <<e, n>> \in vm' <=> <<e, n>> \in vm
           /\ HasDisk(e) => HasDisk(e)',
         Calm' => ~ TaskAt(d, "none") /\ Good(d)'
  PROVE  RowsInv'
<1>1. Known'
  BY DEF RowsInv, Known
<1>2. ASSUME Calm' PROVE (\A e \in Dbs : Good(e)') /\ \A s \in Requests : Deletion(s)'
  <2>1. (\A e \in Dbs : Good(e)) /\ (\A s \in Requests : Deletion(s)) /\ Calm
    BY <1>2 DEF RowsInv, Calm
  <2>2. \A e \in Dbs : Good(e)'
    BY <1>2, <2>1, GoodStays
  <2>3. \A s \in Requests : req[s].db = d => In(s, "increment")
    BY <1>2, <2>1 DEF Good, Provisioned
  <2>4. ASSUME NEW s \in Requests PROVE Deletion(s)'
    <3>1. CASE req[s].db = d
      BY <2>3, <3>1 DEF Deletion, In
    <3>2. CASE req[s].db # d /\ req[s].at \notin {"job", "stop", "remove"}
      BY <3>2 DEF Deletion, In
    <3>3. CASE req[s].db # d /\ req[s].at \in {"job", "stop", "remove"}
      <4>1. req[s].db \in Dbs
        BY <3>3 DEF DbTypes, ReqTypes, OnDb
      <4> QED
        BY <2>1, <3>3, <4>1, DeletionStays
    <3> QED
      BY <3>1, <3>2, <3>3
  <2> QED
    BY <2>2, <2>4
<1> QED
  BY <1>1, <1>2 DEF RowsInv

(* A step of a request has only its database and its own deletion to think of. *)
LEMMA RequestStep ==
  ASSUME DbTypes, RowsInv, NEW r \in Requests, rare \subseteq rare', asked' = asked,
         attached' = attached, Known',
         \A s \in Requests : s # r => req'[s] = req[s],
         \A e \in Dbs : req'[r].db # e /\ (In(r, "remove") => req[r].db # e) =>
           /\ row'[e] = row[e] /\ dep'[e] = dep[e] /\ task'[e] = task[e]
           /\ \A n \in Attempts : <<e, n>> \in vm' <=> <<e, n>> \in vm,
         \A e \in Dbs : Calm' /\ (req'[r].db = e \/ (In(r, "remove") /\ req[r].db = e)) =>
           Good(e)',
         Calm' => Deletion(r)',
         \A s \in Requests : Calm' /\ s # r /\ req[s].at \in {"job", "stop"} =>
           row'[req[s].db] = row[req[s].db] \/ ~ HasRow(req[s].db)',
         vm' \subseteq vm
  PROVE  RowsInv'
<1>1. ASSUME Calm' PROVE (\A e \in Dbs : Good(e)') /\ \A s \in Requests : Deletion(s)'
  <2>1. (\A e \in Dbs : Good(e)) /\ (\A s \in Requests : Deletion(s)) /\ Calm
    BY <1>1 DEF RowsInv, Calm
  <2>2. ASSUME NEW e \in Dbs PROVE Good(e)'
    <3>1. CASE req'[r].db = e \/ (In(r, "remove") /\ req[r].db = e)
      BY <1>1, <3>1
    <3>2. CASE ~ (req'[r].db = e \/ (In(r, "remove") /\ req[r].db = e))
      <4>1. HasDisk(e) => HasDisk(e)'
        BY DEF HasDisk
      <4>2. /\ \A s \in Requests : req'[s].db = e => req'[s] = req[s]
            /\ \A s \in Requests : In(s, "remove") /\ req[s].db = e => req'[s] = req[s]
        BY <3>2
      <4> QED
        BY <2>1, <3>2, <4>1, <4>2, GoodStays
    <3> QED
      BY <3>1, <3>2
  <2>3. ASSUME NEW s \in Requests, s # r PROVE Deletion(s)'
    <3>1. Deletion(s) /\ req'[s] = req[s]
      BY <2>1, <2>3
    <3>2. req[s].at \in {"job", "stop"} /\ HasRow(req[s].db)' =>
            row'[req[s].db] = row[req[s].db]
      BY <1>1, <2>3
    <3> QED
      BY <3>1, <3>2 DEF Deletion, In, HasRow
  <2> QED
    BY <1>1, <2>2, <2>3
<1> QED
  BY <1>1 DEF RowsInv


(* Every step keeps what the rows tell. *)
LEMMA RowsKept ==
  DbTypes /\ RowsInv /\ [DbNext]_dbVars => RowsInv'
<1> SUFFICES ASSUME DbTypes, RowsInv, [DbNext]_dbVars PROVE RowsInv'
  OBVIOUS
<1>1. ASSUME NEW d \in Dbs, Look(d) PROVE RowsInv'
  <2>1. req' = req /\ rare \subseteq rare' /\ (row[d].st # "none" => row'[d].st # "none")
    BY <1>1 DEF Look, TaskGoes, Retry, Nth, outside, HasRow, DbTypes, RowTypes, RowType
  <2>2. \A e \in Dbs : e # d =>
          /\ row'[e] = row[e] /\ dep'[e] = dep[e] /\ task'[e] = task[e]
          /\ \A k \in Attempts : <<e, k>> \in asked' => <<e, k>> \in asked
          /\ \A k \in Attempts : <<e, k>> \in vm' <=> <<e, k>> \in vm
          /\ HasDisk(e) => HasDisk(e)'
    BY <1>1 DEF Look, TaskGoes, Retry, Nth, outside, HasDisk, DbTypes, RowTypes, DepTypes,
       TaskTypes
  <2>3. ASSUME Calm' PROVE ~ TaskAt(d, "none") /\ Good(d)'
    <3>1. Good(d) /\ \A s \in Requests : Deletion(s)
      BY <2>1, <2>3 DEF RowsInv, Calm
    <3>2. ~ TaskAt(d, "none")
      BY <1>1, <3>1 DEF Look, TaskAt
    <3>3. OneVm(d)'
      BY <1>1, <3>1, <3>2 DEF Good, OneVm, Look, TaskGoes, Retry, Nth, outside, TaskAt, HasRow,
         Attempts, DbTypes, RowTypes, RowType, DepTypes, TaskTypes, TaskType, OutsideTypes
    <3>4. HasVm(d)'
      BY <1>1, <3>1, <3>2 DEF Good, OneVm, HasVm, Provisioned, Look, TaskGoes, Retry, Nth, outside,
         TaskAt, HasRow, Attempts, DbTypes, RowTypes, RowType, DepTypes, TaskTypes, TaskType,
         OutsideTypes
    <3>5. Provisioned(d)'
      BY <1>1, <3>1, <3>2 DEF Good, OneVm, HasVm, Provisioned, HasDisk, Look, TaskGoes, Retry,
         Nth, outside, TaskAt, HasRow, In, Attempts, DbTypes, RowTypes, RowType, DepTypes,
         TaskTypes, TaskType, OutsideTypes
    <3>6. Running(d)'
      BY <1>1, <3>1, <3>2 DEF Good, Provisioned, Running, HasDisk, Look, TaskGoes, Retry, Nth,
         outside, TaskAt, HasRow, In, Attempts, DbTypes, RowTypes, RowType, DepTypes, TaskTypes,
         TaskType, OutsideTypes
    <3> QED
      BY <3>2, <3>3, <3>4, <3>5, <3>6 DEF Good
  <2> QED
    BY <2>1, <2>2, <2>3, TaskStep
<1>2. ASSUME NEW d \in Dbs, CreateTenant(d) PROVE RowsInv'
  <2>1. req' = req /\ rare \subseteq rare' /\ (row[d].st # "none" => row'[d].st # "none")
    BY <1>2 DEF CreateTenant, TaskGoes, HasRow, DbTypes, RowTypes, RowType
  <2>2. \A e \in Dbs : e # d =>
          /\ row'[e] = row[e] /\ dep'[e] = dep[e] /\ task'[e] = task[e]
          /\ \A k \in Attempts : <<e, k>> \in asked' => <<e, k>> \in asked
          /\ \A k \in Attempts : <<e, k>> \in vm' <=> <<e, k>> \in vm
          /\ HasDisk(e) => HasDisk(e)'
    BY <1>2 DEF CreateTenant, TaskGoes, HasDisk, DbTypes, RowTypes, DepTypes, TaskTypes
  <2>3. ASSUME Calm' PROVE ~ TaskAt(d, "none") /\ Good(d)'
    <3>1. Good(d) /\ \A s \in Requests : Deletion(s)
      BY <2>1, <2>3 DEF RowsInv, Calm
    <3>2. ~ TaskAt(d, "none")
      BY <1>2, <3>1 DEF CreateTenant, TaskAt
    <3>3. OneVm(d)'
      BY <1>2, <3>1, <3>2 DEF Good, OneVm, CreateTenant, TaskGoes, TaskAt, HasRow, Attempts,
         DbTypes, RowTypes, RowType, DepTypes, TaskTypes, TaskType, OutsideTypes
    <3>4. HasVm(d)'
      BY <1>2, <3>1, <3>2 DEF Good, OneVm, HasVm, Provisioned, CreateTenant, TaskGoes, TaskAt,
         HasRow, Attempts, DbTypes, RowTypes, RowType, DepTypes, TaskTypes, TaskType, OutsideTypes
    <3>5. Provisioned(d)'
      BY <1>2, <3>1, <3>2 DEF Good, OneVm, HasVm, Provisioned, HasDisk, CreateTenant, TaskGoes,
         TaskAt, HasRow, In, Attempts, DbTypes, RowTypes, RowType, DepTypes, TaskTypes, TaskType,
         OutsideTypes
    <3>6. Running(d)'
      BY <1>2, <3>1, <3>2 DEF Good, Provisioned, Running, HasDisk, CreateTenant, TaskGoes,
         TaskAt, HasRow, In, Attempts, DbTypes, RowTypes, RowType, DepTypes, TaskTypes, TaskType,
         OutsideTypes
    <3> QED
      BY <3>2, <3>3, <3>4, <3>5, <3>6 DEF Good
  <2> QED
    BY <2>1, <2>2, <2>3, TaskStep
<1>3. ASSUME NEW d \in Dbs, CreateTimeline(d) PROVE RowsInv'
  <2>1. req' = req /\ rare \subseteq rare' /\ (row[d].st # "none" => row'[d].st # "none")
    BY <1>3 DEF CreateTimeline, TaskGoes, outside, HasRow, DbTypes, RowTypes, RowType
  <2>2. \A e \in Dbs : e # d =>
          /\ row'[e] = row[e] /\ dep'[e] = dep[e] /\ task'[e] = task[e]
          /\ \A k \in Attempts : <<e, k>> \in asked' => <<e, k>> \in asked
          /\ \A k \in Attempts : <<e, k>> \in vm' <=> <<e, k>> \in vm
          /\ HasDisk(e) => HasDisk(e)'
    BY <1>3 DEF CreateTimeline, TaskGoes, outside, HasDisk, DbTypes, RowTypes, DepTypes, TaskTypes
  <2>3. ASSUME Calm' PROVE ~ TaskAt(d, "none") /\ Good(d)'
    <3>1. Good(d) /\ \A s \in Requests : Deletion(s)
      BY <2>1, <2>3 DEF RowsInv, Calm
    <3>2. ~ TaskAt(d, "none")
      BY <1>3, <3>1 DEF CreateTimeline, TaskAt
    <3>3. OneVm(d)'
      BY <1>3, <3>1, <3>2 DEF Good, OneVm, CreateTimeline, TaskGoes, outside, TaskAt, HasRow,
         Attempts, DbTypes, RowTypes, RowType, DepTypes, TaskTypes, TaskType, OutsideTypes
    <3>4. HasVm(d)'
      BY <1>3, <3>1, <3>2 DEF Good, OneVm, HasVm, Provisioned, CreateTimeline, TaskGoes, outside,
         TaskAt, HasRow, Attempts, DbTypes, RowTypes, RowType, DepTypes, TaskTypes, TaskType,
         OutsideTypes
    <3>5. Provisioned(d)'
      BY <1>3, <3>1, <3>2 DEF Good, OneVm, HasVm, Provisioned, HasDisk, CreateTimeline, TaskGoes,
         outside, TaskAt, HasRow, In, Attempts, DbTypes, RowTypes, RowType, DepTypes, TaskTypes,
         TaskType, OutsideTypes
    <3>6. Running(d)'
      BY <1>3, <3>1, <3>2 DEF Good, Provisioned, Running, HasDisk, CreateTimeline, TaskGoes,
         outside, TaskAt, HasRow, In, Attempts, DbTypes, RowTypes, RowType, DepTypes, TaskTypes,
         TaskType, OutsideTypes
    <3> QED
      BY <3>2, <3>3, <3>4, <3>5, <3>6 DEF Good
  <2> QED
    BY <2>1, <2>2, <2>3, TaskStep
<1>4. ASSUME NEW d \in Dbs, UpdateProvisioning(d) PROVE RowsInv'
  <2>1. req' = req /\ rare \subseteq rare' /\ (row[d].st # "none" => row'[d].st # "none")
    BY <1>4 DEF UpdateProvisioning, TaskGoes, outside, HasRow, DbTypes, RowTypes, RowType
  <2>2. \A e \in Dbs : e # d =>
          /\ row'[e] = row[e] /\ dep'[e] = dep[e] /\ task'[e] = task[e]
          /\ \A k \in Attempts : <<e, k>> \in asked' => <<e, k>> \in asked
          /\ \A k \in Attempts : <<e, k>> \in vm' <=> <<e, k>> \in vm
          /\ HasDisk(e) => HasDisk(e)'
    BY <1>4 DEF UpdateProvisioning, TaskGoes, outside, HasDisk, DbTypes, RowTypes, DepTypes,
       TaskTypes
  <2>3. ASSUME Calm' PROVE ~ TaskAt(d, "none") /\ Good(d)'
    <3>1. Good(d) /\ \A s \in Requests : Deletion(s)
      BY <2>1, <2>3 DEF RowsInv, Calm
    <3>2. ~ TaskAt(d, "none")
      BY <1>4, <3>1 DEF UpdateProvisioning, TaskAt
    <3>3. OneVm(d)'
      BY <1>4, <3>1, <3>2 DEF Good, OneVm, UpdateProvisioning, TaskGoes, outside, TaskAt, HasRow,
         Attempts, DbTypes, RowTypes, RowType, DepTypes, TaskTypes, TaskType, OutsideTypes
    <3>4. HasVm(d)'
      BY <1>4, <3>1, <3>2 DEF Good, OneVm, HasVm, Provisioned, UpdateProvisioning, TaskGoes,
         outside, TaskAt, HasRow, Attempts, DbTypes, RowTypes, RowType, DepTypes, TaskTypes,
         TaskType, OutsideTypes
    <3>5. Provisioned(d)'
      BY <1>4, <3>1, <3>2 DEF Good, OneVm, HasVm, Provisioned, HasDisk, UpdateProvisioning,
         TaskGoes, outside, TaskAt, HasRow, In, Attempts, DbTypes, RowTypes, RowType, DepTypes,
         TaskTypes, TaskType, OutsideTypes
    <3>6. Running(d)'
      BY <1>4, <3>1, <3>2 DEF Good, Provisioned, Running, HasDisk, UpdateProvisioning, TaskGoes,
         outside, TaskAt, HasRow, In, Attempts, DbTypes, RowTypes, RowType, DepTypes, TaskTypes,
         TaskType, OutsideTypes
    <3> QED
      BY <3>2, <3>3, <3>4, <3>5, <3>6 DEF Good
  <2> QED
    BY <2>1, <2>2, <2>3, TaskStep
<1>5. ASSUME NEW d \in Dbs, CreateDeployment(d) PROVE RowsInv'
  <2>1. req' = req /\ rare \subseteq rare' /\ (row[d].st # "none" => row'[d].st # "none")
    BY <1>5 DEF CreateDeployment, Nth, TaskGoes, Retry, outside, HasRow, DbTypes, RowTypes, RowType
  <2>2. \A e \in Dbs : e # d =>
          /\ row'[e] = row[e] /\ dep'[e] = dep[e] /\ task'[e] = task[e]
          /\ \A k \in Attempts : <<e, k>> \in asked' => <<e, k>> \in asked
          /\ \A k \in Attempts : <<e, k>> \in vm' <=> <<e, k>> \in vm
          /\ HasDisk(e) => HasDisk(e)'
    BY <1>5 DEF CreateDeployment, Nth, TaskGoes, Retry, outside, HasDisk, DbTypes, RowTypes,
       DepTypes, TaskTypes
  <2>3. ASSUME Calm' PROVE ~ TaskAt(d, "none") /\ Good(d)'
    <3>1. Good(d) /\ \A s \in Requests : Deletion(s)
      BY <2>1, <2>3 DEF RowsInv, Calm
    <3>2. ~ TaskAt(d, "none")
      BY <1>5, <3>1 DEF CreateDeployment, TaskAt
    <3>3. OneVm(d)'
      BY <1>5, <3>1, <3>2 DEF Good, OneVm, CreateDeployment, Nth, TaskGoes, Retry, outside, TaskAt,
         HasRow, Attempts, DbTypes, RowTypes, RowType, DepTypes, TaskTypes, TaskType, OutsideTypes
    <3>4. HasVm(d)'
      BY <1>5, <3>1, <3>2 DEF Good, OneVm, HasVm, Provisioned, CreateDeployment, Nth, TaskGoes,
         Retry, outside, TaskAt, HasRow, Attempts, DbTypes, RowTypes, RowType, DepTypes, TaskTypes,
         TaskType, OutsideTypes
    <3>5. Provisioned(d)'
      <4>1. HasRow(d) /\ row[d].stored /\ HasDisk(d)
        BY <1>5, <3>1, <3>2 DEF Good, Provisioned, CreateDeployment, HasRow, TaskAt
      <4>2. /\ task'[d].at = "activate" /\ task'[d].n = Nth(d) /\ dep'[d][Nth(d)] = "new"
            /\ row' = row /\ req' = req /\ HasDisk(d)'
        BY <1>5, <4>1 DEF CreateDeployment, TaskGoes, Nth, HasDisk, outside, DbTypes, DepTypes,
           TaskTypes, TaskType
      <4> QED
        BY <3>1, <3>2, <4>1, <4>2 DEF Good, Provisioned, TaskAt, In, Nth
    <3>6. Running(d)'
      BY <1>5, <3>1, <3>2 DEF Good, Provisioned, Running, HasDisk, CreateDeployment, Nth,
         TaskGoes, Retry, outside, TaskAt, HasRow, In, Attempts, DbTypes, RowTypes, RowType,
         DepTypes, TaskTypes, TaskType, OutsideTypes
    <3> QED
      BY <3>2, <3>3, <3>4, <3>5, <3>6 DEF Good
  <2> QED
    BY <2>1, <2>2, <2>3, TaskStep
<1>6. ASSUME NEW d \in Dbs, Activate(d) PROVE RowsInv'
  <2>1. req' = req /\ rare \subseteq rare' /\ (row[d].st # "none" => row'[d].st # "none")
    BY <1>6 DEF Activate, Nth, TaskGoes, HasRow, DbTypes, RowTypes, RowType
  <2>2. \A e \in Dbs : e # d =>
          /\ row'[e] = row[e] /\ dep'[e] = dep[e] /\ task'[e] = task[e]
          /\ \A k \in Attempts : <<e, k>> \in asked' => <<e, k>> \in asked
          /\ \A k \in Attempts : <<e, k>> \in vm' <=> <<e, k>> \in vm
          /\ HasDisk(e) => HasDisk(e)'
    BY <1>6 DEF Activate, Nth, TaskGoes, HasDisk, DbTypes, RowTypes, DepTypes, TaskTypes
  <2>3. ASSUME Calm' PROVE ~ TaskAt(d, "none") /\ Good(d)'
    <3>1. Good(d) /\ \A s \in Requests : Deletion(s)
      BY <2>1, <2>3 DEF RowsInv, Calm
    <3>2. ~ TaskAt(d, "none")
      BY <1>6, <3>1 DEF Activate, TaskAt
    <3>3. OneVm(d)'
      BY <1>6, <3>1, <3>2 DEF Good, OneVm, Activate, Nth, TaskGoes, TaskAt, HasRow, Attempts,
         DbTypes, RowTypes, RowType, DepTypes, TaskTypes, TaskType, OutsideTypes
    <3>4. HasVm(d)'
      BY <1>6, <3>1, <3>2 DEF Good, OneVm, HasVm, Provisioned, Activate, Nth, TaskGoes, TaskAt,
         HasRow, Attempts, DbTypes, RowTypes, RowType, DepTypes, TaskTypes, TaskType, OutsideTypes
    <3>5. Provisioned(d)'
      BY <1>6, <3>1, <3>2 DEF Good, OneVm, HasVm, Provisioned, HasDisk, Activate, Nth, TaskGoes,
         TaskAt, HasRow, In, Attempts, DbTypes, RowTypes, RowType, DepTypes, TaskTypes, TaskType,
         OutsideTypes
    <3>6. Running(d)'
      BY <1>6, <3>1, <3>2 DEF Good, Provisioned, Running, HasDisk, Activate, Nth, TaskGoes,
         TaskAt, HasRow, In, Attempts, DbTypes, RowTypes, RowType, DepTypes, TaskTypes, TaskType,
         OutsideTypes
    <3> QED
      BY <3>2, <3>3, <3>4, <3>5, <3>6 DEF Good
  <2> QED
    BY <2>1, <2>2, <2>3, TaskStep
<1>7. ASSUME NEW d \in Dbs, DeploymentRefused(d) PROVE RowsInv'
  <2>1. req' = req /\ rare \subseteq rare' /\ (row[d].st # "none" => row'[d].st # "none")
    BY <1>7 DEF DeploymentRefused, UpdateDatabaseStatus, Retry, Nth, outside, HasRow, DbTypes,
       RowTypes, RowType
  <2>2. \A e \in Dbs : e # d =>
          /\ row'[e] = row[e] /\ dep'[e] = dep[e] /\ task'[e] = task[e]
          /\ \A k \in Attempts : <<e, k>> \in asked' => <<e, k>> \in asked
          /\ \A k \in Attempts : <<e, k>> \in vm' <=> <<e, k>> \in vm
          /\ HasDisk(e) => HasDisk(e)'
    BY <1>7 DEF DeploymentRefused, UpdateDatabaseStatus, Retry, Nth, outside, HasDisk, DbTypes,
       RowTypes, DepTypes, TaskTypes
  <2>3. ASSUME Calm' PROVE ~ TaskAt(d, "none") /\ Good(d)'
    <3>1. Good(d) /\ \A s \in Requests : Deletion(s)
      BY <2>1, <2>3 DEF RowsInv, Calm
    <3>2. ~ TaskAt(d, "none")
      BY <1>7, <3>1 DEF DeploymentRefused, TaskAt
    <3>3. OneVm(d)'
      BY <1>7, <3>1, <3>2 DEF Good, OneVm, DeploymentRefused, UpdateDatabaseStatus, Retry, Nth,
         outside, TaskAt, HasRow, Attempts, DbTypes, RowTypes, RowType, DepTypes, TaskTypes,
         TaskType, OutsideTypes
    <3>4. HasVm(d)'
      BY <1>7, <3>1, <3>2 DEF Good, OneVm, HasVm, Provisioned, DeploymentRefused,
         UpdateDatabaseStatus, Retry, Nth, outside, TaskAt, HasRow, Attempts, DbTypes, RowTypes,
         RowType, DepTypes, TaskTypes, TaskType, OutsideTypes
    <3>5. Provisioned(d)'
      BY <1>7, <3>1, <3>2 DEF Good, OneVm, HasVm, Provisioned, HasDisk, DeploymentRefused,
         UpdateDatabaseStatus, Retry, Nth, outside, TaskAt, HasRow, In, Attempts, DbTypes,
         RowTypes, RowType, DepTypes, TaskTypes, TaskType, OutsideTypes
    <3>6. Running(d)'
      BY <1>7, <3>1, <3>2 DEF Good, Provisioned, Running, HasDisk, DeploymentRefused,
         UpdateDatabaseStatus, Retry, Nth, outside, TaskAt, HasRow, In, Attempts, DbTypes,
         RowTypes, RowType, DepTypes, TaskTypes, TaskType, OutsideTypes
    <3> QED
      BY <3>2, <3>3, <3>4, <3>5, <3>6 DEF Good
  <2> QED
    BY <2>1, <2>2, <2>3, TaskStep
<1>8. ASSUME NEW d \in Dbs, UpdateJobInfo(d) PROVE RowsInv'
  <2>1. req' = req /\ rare \subseteq rare' /\ (row[d].st # "none" => row'[d].st # "none")
    BY <1>8 DEF UpdateJobInfo, Nth, TaskGoes, outside, HasRow, DbTypes, RowTypes, RowType
  <2>2. \A e \in Dbs : e # d =>
          /\ row'[e] = row[e] /\ dep'[e] = dep[e] /\ task'[e] = task[e]
          /\ \A k \in Attempts : <<e, k>> \in asked' => <<e, k>> \in asked
          /\ \A k \in Attempts : <<e, k>> \in vm' <=> <<e, k>> \in vm
          /\ HasDisk(e) => HasDisk(e)'
    BY <1>8 DEF UpdateJobInfo, Nth, TaskGoes, outside, HasDisk, DbTypes, RowTypes, DepTypes,
       TaskTypes
  <2>3. ASSUME Calm' PROVE ~ TaskAt(d, "none") /\ Good(d)'
    <3>1. Good(d) /\ \A s \in Requests : Deletion(s)
      BY <2>1, <2>3 DEF RowsInv, Calm
    <3>2. ~ TaskAt(d, "none")
      BY <1>8, <3>1 DEF UpdateJobInfo, TaskAt
    <3>3. OneVm(d)'
      BY <1>8, <3>1, <3>2 DEF Good, OneVm, UpdateJobInfo, Nth, TaskGoes, outside, TaskAt, HasRow,
         Attempts, DbTypes, RowTypes, RowType, DepTypes, TaskTypes, TaskType, OutsideTypes
    <3>4. HasVm(d)'
      BY <1>8, <3>1, <3>2 DEF Good, OneVm, HasVm, Provisioned, UpdateJobInfo, Nth, TaskGoes,
         outside, TaskAt, HasRow, Attempts, DbTypes, RowTypes, RowType, DepTypes, TaskTypes,
         TaskType, OutsideTypes
    <3>5. Provisioned(d)'
      <4>1. dep[d][Nth(d)] # "none" /\ <<d, Nth(d)>> \in vm /\ row[d].stored /\ HasDisk(d)
        BY <1>8, <3>1, <3>2 DEF Good, Provisioned, Running, UpdateJobInfo, TaskAt
      <4>2. /\ task'[d].at = "running" /\ task'[d].n = Nth(d) /\ dep'[d][Nth(d)] = "job"
            /\ row' = row /\ req' = req /\ vm' = vm /\ HasDisk(d)'
        BY <1>8, <4>1 DEF UpdateJobInfo, TaskGoes, Nth, HasDisk, outside, DbTypes, DepTypes,
           TaskTypes, TaskType
      <4> QED
        BY <3>1, <3>2, <4>1, <4>2, <1>8 DEF Good, Provisioned, UpdateJobInfo, TaskAt, In, Nth
    <3>6. Running(d)'
      BY <1>8, <3>1, <3>2 DEF Good, Provisioned, Running, HasDisk, UpdateJobInfo, Nth, TaskGoes,
         outside, TaskAt, HasRow, In, Attempts, DbTypes, RowTypes, RowType, DepTypes, TaskTypes,
         TaskType, OutsideTypes
    <3> QED
      BY <3>2, <3>3, <3>4, <3>5, <3>6 DEF Good
  <2> QED
    BY <2>1, <2>2, <2>3, TaskStep
<1>9. ASSUME NEW d \in Dbs, SetRunning(d) PROVE RowsInv'
  <2>1. req' = req /\ rare \subseteq rare' /\ (row[d].st # "none" => row'[d].st # "none")
    BY <1>9 DEF SetRunning, UpdateDatabaseStatus, Nth, Retry, NoTask, outside, HasRow, DbTypes,
       RowTypes, RowType
  <2>2. \A e \in Dbs : e # d =>
          /\ row'[e] = row[e] /\ dep'[e] = dep[e] /\ task'[e] = task[e]
          /\ \A k \in Attempts : <<e, k>> \in asked' => <<e, k>> \in asked
          /\ \A k \in Attempts : <<e, k>> \in vm' <=> <<e, k>> \in vm
          /\ HasDisk(e) => HasDisk(e)'
    BY <1>9 DEF SetRunning, UpdateDatabaseStatus, Nth, Retry, NoTask, outside, HasDisk, DbTypes,
       RowTypes, DepTypes, TaskTypes
  <2>3. ASSUME Calm' PROVE ~ TaskAt(d, "none") /\ Good(d)'
    <3>1. Good(d) /\ \A s \in Requests : Deletion(s)
      BY <2>1, <2>3 DEF RowsInv, Calm
    <3>2. ~ TaskAt(d, "none")
      BY <1>9, <3>1 DEF SetRunning, TaskAt
    <3>3. OneVm(d)'
      BY <1>9, <3>1, <3>2 DEF Good, OneVm, SetRunning, UpdateDatabaseStatus, Nth, Retry, NoTask,
         outside, TaskAt, HasRow, Attempts, DbTypes, RowTypes, RowType, DepTypes, TaskTypes,
         TaskType, OutsideTypes
    <3>4. HasVm(d)'
      BY <1>9, <3>1, <3>2 DEF Good, OneVm, HasVm, Provisioned, SetRunning, UpdateDatabaseStatus,
         Nth, Retry, NoTask, outside, TaskAt, HasRow, Attempts, DbTypes, RowTypes, RowType,
         DepTypes, TaskTypes, TaskType, OutsideTypes
    <3>5. Provisioned(d)'
      BY <1>9, <3>1, <3>2 DEF Good, OneVm, HasVm, Provisioned, HasDisk, SetRunning,
         UpdateDatabaseStatus, Nth, Retry, NoTask, outside, TaskAt, HasRow, In, Attempts, DbTypes,
         RowTypes, RowType, DepTypes, TaskTypes, TaskType, OutsideTypes
    <3>6. Running(d)'
      BY <1>9, <3>1, <3>2 DEF Good, Provisioned, Running, HasDisk, SetRunning,
         UpdateDatabaseStatus, Nth, Retry, NoTask, outside, TaskAt, HasRow, In, Attempts, DbTypes,
         RowTypes, RowType, DepTypes, TaskTypes, TaskType, OutsideTypes
    <3> QED
      BY <3>2, <3>3, <3>4, <3>5, <3>6 DEF Good
  <2> QED
    BY <2>1, <2>2, <2>3, TaskStep
<1>10. ASSUME NEW d \in Dbs, SetFailed(d) PROVE RowsInv'
  <2>1. req' = req /\ rare \subseteq rare' /\ (row[d].st # "none" => row'[d].st # "none")
    BY <1>10 DEF SetFailed, UpdateDatabaseStatus, NoTask, outside, HasRow, DbTypes, RowTypes,
       RowType
  <2>2. \A e \in Dbs : e # d =>
          /\ row'[e] = row[e] /\ dep'[e] = dep[e] /\ task'[e] = task[e]
          /\ \A k \in Attempts : <<e, k>> \in asked' => <<e, k>> \in asked
          /\ \A k \in Attempts : <<e, k>> \in vm' <=> <<e, k>> \in vm
          /\ HasDisk(e) => HasDisk(e)'
    BY <1>10 DEF SetFailed, UpdateDatabaseStatus, NoTask, outside, HasDisk, DbTypes, RowTypes,
       DepTypes, TaskTypes
  <2>3. ASSUME Calm' PROVE ~ TaskAt(d, "none") /\ Good(d)'
    <3>1. Good(d) /\ \A s \in Requests : Deletion(s)
      BY <2>1, <2>3 DEF RowsInv, Calm
    <3>2. ~ TaskAt(d, "none")
      BY <1>10, <3>1 DEF SetFailed, TaskAt
    <3>3. OneVm(d)'
      BY <1>10, <3>1, <3>2 DEF Good, OneVm, SetFailed, UpdateDatabaseStatus, NoTask, outside,
         TaskAt, HasRow, Attempts, DbTypes, RowTypes, RowType, DepTypes, TaskTypes, TaskType,
         OutsideTypes
    <3>4. HasVm(d)'
      BY <1>10, <3>1, <3>2 DEF Good, OneVm, HasVm, Provisioned, SetFailed, UpdateDatabaseStatus,
         NoTask, outside, TaskAt, HasRow, Attempts, DbTypes, RowTypes, RowType, DepTypes,
         TaskTypes, TaskType, OutsideTypes
    <3>5. Provisioned(d)'
      BY <1>10, <3>1, <3>2 DEF Good, OneVm, HasVm, Provisioned, HasDisk, SetFailed,
         UpdateDatabaseStatus, NoTask, outside, TaskAt, HasRow, In, Attempts, DbTypes, RowTypes,
         RowType, DepTypes, TaskTypes, TaskType, OutsideTypes
    <3>6. Running(d)'
      BY <1>10, <3>1, <3>2 DEF Good, Provisioned, Running, HasDisk, SetFailed,
         UpdateDatabaseStatus, NoTask, outside, TaskAt, HasRow, In, Attempts, DbTypes, RowTypes,
         RowType, DepTypes, TaskTypes, TaskType, OutsideTypes
    <3> QED
      BY <3>2, <3>3, <3>4, <3>5, <3>6 DEF Good
  <2> QED
    BY <2>1, <2>2, <2>3, TaskStep
<1>11. ASSUME NEW d \in Dbs, NeonFails(d) PROVE RowsInv'
  <2>1. req' = req /\ rare \subseteq rare' /\ (row[d].st # "none" => row'[d].st # "none")
    BY <1>11 DEF NeonFails, Rare, Failures, Retry, Nth, outside, HasRow, DbTypes, RowTypes, RowType
  <2>2. \A e \in Dbs : e # d =>
          /\ row'[e] = row[e] /\ dep'[e] = dep[e] /\ task'[e] = task[e]
          /\ \A k \in Attempts : <<e, k>> \in asked' => <<e, k>> \in asked
          /\ \A k \in Attempts : <<e, k>> \in vm' <=> <<e, k>> \in vm
          /\ HasDisk(e) => HasDisk(e)'
    BY <1>11 DEF NeonFails, Rare, Failures, Retry, Nth, outside, HasDisk, DbTypes, RowTypes,
       DepTypes, TaskTypes
  <2>3. ASSUME Calm' PROVE ~ TaskAt(d, "none") /\ Good(d)'
    <3>1. Good(d) /\ \A s \in Requests : Deletion(s)
      BY <2>1, <2>3 DEF RowsInv, Calm
    <3>2. ~ TaskAt(d, "none")
      BY <1>11, <3>1 DEF NeonFails, TaskAt
    <3>3. OneVm(d)'
      BY <1>11, <3>1, <3>2 DEF Good, OneVm, NeonFails, Rare, Failures, Retry, Nth, outside, TaskAt,
         HasRow, Attempts, DbTypes, RowTypes, RowType, DepTypes, TaskTypes, TaskType, OutsideTypes
    <3>4. HasVm(d)'
      BY <1>11, <3>1, <3>2 DEF Good, OneVm, HasVm, Provisioned, NeonFails, Rare, Failures, Retry,
         Nth, outside, TaskAt, HasRow, Attempts, DbTypes, RowTypes, RowType, DepTypes, TaskTypes,
         TaskType, OutsideTypes
    <3>5. Provisioned(d)'
      BY <1>11, <3>1, <3>2 DEF Good, OneVm, HasVm, Provisioned, HasDisk, NeonFails, Rare,
         Failures, Retry, Nth, outside, TaskAt, HasRow, In, Attempts, DbTypes, RowTypes, RowType,
         DepTypes, TaskTypes, TaskType, OutsideTypes
    <3>6. Running(d)'
      BY <1>11, <3>1, <3>2 DEF Good, Provisioned, Running, HasDisk, NeonFails, Rare, Failures,
         Retry, Nth, outside, TaskAt, HasRow, In, Attempts, DbTypes, RowTypes, RowType, DepTypes,
         TaskTypes, TaskType, OutsideTypes
    <3> QED
      BY <3>2, <3>3, <3>4, <3>5, <3>6 DEF Good
  <2> QED
    BY <2>1, <2>2, <2>3, TaskStep
<1>12. ASSUME NEW d \in Dbs, RequestFails(d) PROVE RowsInv'
  <2>1. ~ Calm' /\ row' = row /\ req' = req
    BY <1>12 DEF RequestFails, Rare, Calm
  <2> QED
    BY <2>1, NotCalm
<1>13. ASSUME NEW d \in Dbs, StatementFails(d) PROVE RowsInv'
  <2>1. ~ Calm' /\ row' = row /\ req' = req
    BY <1>13 DEF StatementFails, Rare, Calm
  <2> QED
    BY <2>1, NotCalm
<1>14. ASSUME NEW d \in Dbs, NEW n \in Attempts, SchedulerDeploys(d, n) PROVE RowsInv'
  <2>1. req' = req /\ rare \subseteq rare' /\ (row[d].st # "none" => row'[d].st # "none")
    BY <1>14 DEF SchedulerDeploys, Waits, Nth, TaskGoes, HasRow, DbTypes, RowTypes, RowType
  <2>2. \A e \in Dbs : e # d =>
          /\ row'[e] = row[e] /\ dep'[e] = dep[e] /\ task'[e] = task[e]
          /\ \A k \in Attempts : <<e, k>> \in asked' => <<e, k>> \in asked
          /\ \A k \in Attempts : <<e, k>> \in vm' <=> <<e, k>> \in vm
          /\ HasDisk(e) => HasDisk(e)'
    BY <1>14 DEF SchedulerDeploys, Waits, Nth, TaskGoes, HasDisk, DbTypes, RowTypes, DepTypes,
       TaskTypes
  <2>3. ASSUME Calm' PROVE ~ TaskAt(d, "none") /\ Good(d)'
    <3>1. Good(d) /\ \A s \in Requests : Deletion(s)
      BY <2>1, <2>3 DEF RowsInv, Calm
    <3>2. ~ TaskAt(d, "none")
      BY <1>14, <3>1 DEF Good, OneVm, SchedulerDeploys, TaskAt
    <3>3. OneVm(d)'
      BY <1>14, <3>1, <3>2 DEF Good, OneVm, SchedulerDeploys, Waits, Nth, TaskGoes, TaskAt, HasRow,
         Attempts, DbTypes, RowTypes, RowType, DepTypes, TaskTypes, TaskType, OutsideTypes
    <3>4. HasVm(d)'
      BY <1>14, <3>1, <3>2 DEF Good, OneVm, HasVm, Provisioned, SchedulerDeploys, Waits, Nth,
         TaskGoes, TaskAt, HasRow, Attempts, DbTypes, RowTypes, RowType, DepTypes, TaskTypes,
         TaskType, OutsideTypes
    <3>5. Provisioned(d)'
      BY <1>14, <3>1, <3>2 DEF Good, OneVm, HasVm, Provisioned, HasDisk, SchedulerDeploys, Waits,
         Nth, TaskGoes, TaskAt, HasRow, In, Attempts, DbTypes, RowTypes, RowType, DepTypes,
         TaskTypes, TaskType, OutsideTypes
    <3>6. Running(d)'
      BY <1>14, <3>1, <3>2 DEF Good, Provisioned, Running, HasDisk, SchedulerDeploys, Waits, Nth,
         TaskGoes, TaskAt, HasRow, In, Attempts, DbTypes, RowTypes, RowType, DepTypes, TaskTypes,
         TaskType, OutsideTypes
    <3> QED
      BY <3>2, <3>3, <3>4, <3>5, <3>6 DEF Good
  <2> QED
    BY <2>1, <2>2, <2>3, TaskStep
<1>15. ASSUME NEW r \in Requests, Create(r) PROVE RowsInv'
  <2>1. /\ row' = row /\ dep' = dep /\ task' = task /\ asked' = asked /\ vm' = vm
        /\ attached' = attached /\ rare \subseteq rare'
    BY <1>15 DEF Create, outside, Rare
  <2>2. /\ \A s \in Requests : s # r => req'[s] = req[s]
        /\ req'[r].db = NoDb /\ req'[r].at \in {"idle", "insert"} /\ ~ In(r, "remove")
    BY <1>15 DEF Create, Go, In, DbTypes, ReqTypes, ReqType, OnDb
  <2>3. Known'
    BY <2>1, <2>2, DatabasesAssumption DEF RowsInv, Known
  <2>4. Deletion(r)'
    BY <2>2 DEF Deletion, In
  <2>5. \A e \in Dbs : req'[r].db # e
    BY <2>2, DatabasesAssumption
  <2> QED
    BY <2>1, <2>2, <2>3, <2>4, <2>5, RequestStep
<1>16. ASSUME NEW r \in Requests, NEW d \in Dbs, Insert(r, d) PROVE RowsInv'
  <2>1. /\ row[d].st = "none" /\ row'[d].st = "pending" /\ row'[d].stored = FALSE
        /\ task'[d].at = "look" /\ dep' = dep /\ asked' = asked /\ vm' = vm
        /\ attached' = attached /\ rare' = rare
        /\ \A e \in Dbs : e # d => row'[e] = row[e] /\ task'[e] = task[e]
    BY <1>16 DEF Insert, Fresh, NoRow, outside, DbTypes, RowTypes, RowType, TaskTypes, TaskType
  <2>2. /\ \A s \in Requests : s # r => req'[s] = req[s]
        /\ req'[r].db = d /\ req'[r].at = "increment" /\ ~ In(r, "remove")
    BY <1>16 DEF Insert, In, DbTypes, ReqTypes
  <2>3. Known' /\ \A s \in Requests : req[s].db # d
    BY <2>1, <2>2 DEF RowsInv, Known
  <2>4. Deletion(r)'
    BY <2>2 DEF Deletion, In
  <2>5. ASSUME Calm' PROVE Good(d)'
    <3>1. Good(d)
      BY <2>1, <2>5 DEF RowsInv, Calm
    <3>2. TaskAt(d, "none") /\ \A k \in Attempts : <<d, k>> \notin asked /\ <<d, k>> \notin vm
      BY <2>1, <3>1 DEF Good, OneVm, HasVm, Provisioned, TaskAt
    <3>3. \A s \in Requests : req'[s].db = d => In(s, "increment")'
      BY <2>2, <2>3 DEF In
    <3> QED
      BY <2>1, <3>2, <3>3 DEF Good, OneVm, HasVm, Provisioned, Running, TaskAt
  <2>6. \A s \in Requests : s # r /\ req[s].at \in {"job", "stop"} =>
          row'[req[s].db] = row[req[s].db]
    BY <2>1, <2>3 DEF DbTypes, ReqTypes, OnDb
  <2> QED
    BY <2>1, <2>2, <2>3, <2>4, <2>5, <2>6, RequestStep
<1>17. ASSUME NEW r \in Requests, InsertFails(r) PROVE RowsInv'
  <2>1. /\ row' = row /\ dep' = dep /\ task' = task /\ asked' = asked /\ vm' = vm
        /\ attached' = attached /\ rare \subseteq rare'
    BY <1>17 DEF InsertFails, outside, Rare
  <2>2. /\ \A s \in Requests : s # r => req'[s] = req[s]
        /\ req'[r].db = NoDb /\ req'[r].at \in {"idle", "insert"} /\ ~ In(r, "remove")
    BY <1>17 DEF InsertFails, NoRequest, In, DbTypes, ReqTypes, ReqType, OnDb
  <2>3. Known'
    BY <2>1, <2>2, DatabasesAssumption DEF RowsInv, Known
  <2>4. Deletion(r)'
    BY <2>2 DEF Deletion, In
  <2>5. \A e \in Dbs : req'[r].db # e
    BY <2>2, DatabasesAssumption
  <2> QED
    BY <2>1, <2>2, <2>3, <2>4, <2>5, RequestStep
<1>18. ASSUME NEW r \in Requests, IncrementDatabases(r) PROVE RowsInv'
  <2>1. /\ row' = row /\ dep' = dep /\ task' = task /\ asked' = asked /\ vm' = vm
        /\ attached' = attached /\ rare \subseteq rare'
    BY <1>18 DEF IncrementDatabases, outside, Rare
  <2>2. /\ \A s \in Requests : s # r => req'[s] = req[s]
        /\ req'[r].db = NoDb /\ req'[r].at \in {"idle", "insert"} /\ ~ In(r, "remove")
    BY <1>18 DEF IncrementDatabases, NoRequest, In, DbTypes, ReqTypes, ReqType, OnDb
  <2>3. Known'
    BY <2>1, <2>2, DatabasesAssumption DEF RowsInv, Known
  <2>4. Deletion(r)'
    BY <2>2 DEF Deletion, In
  <2>5. \A e \in Dbs : req'[r].db # e
    BY <2>2, DatabasesAssumption
  <2> QED
    BY <2>1, <2>2, <2>3, <2>4, <2>5, RequestStep
<1>19. ASSUME NEW r \in Requests, GetDeployment(r) PROVE RowsInv'
  <2>0. PICK d \in Dbs : d = req[r].db
    BY <1>19 DEF GetDeployment, In, DbTypes, ReqTypes, OnDb
  <2>1. /\ row' = row /\ dep' = dep /\ task' = task /\ asked' = asked /\ vm' = vm
        /\ attached' = attached /\ rare' = rare
    BY <1>19, <2>0 DEF GetDeployment, outside
  <2>2. PICK q : req' = [req EXCEPT ![r] = q] /\ q.db = d /\
          (\/ q.at = "stop" /\ q.n = req[r].n /\ dep[d][req[r].n] = "job"
           \/ q.at = "remove" /\ dep[d][req[r].n] # "job")
    <3>1. /\ [req[r] EXCEPT !.at = "stop"].at = "stop"
          /\ [req[r] EXCEPT !.at = "stop"].db = req[r].db
          /\ [req[r] EXCEPT !.at = "stop"].n = req[r].n
          /\ [[req[r] EXCEPT !.at = "remove"] EXCEPT !.n = 0].at = "remove"
          /\ [[req[r] EXCEPT !.at = "remove"] EXCEPT !.n = 0].db = req[r].db
      BY DEF DbTypes, ReqTypes, ReqType
    <3>2. CASE dep[d][req[r].n] = "job"
      <4>1. req' = [req EXCEPT ![r] = [req[r] EXCEPT !.at = "stop"]]
        BY <1>19, <2>0, <3>2 DEF GetDeployment, Go
      <4> QED
        BY <2>0, <3>1, <3>2, <4>1
    <3>3. CASE dep[d][req[r].n] # "job"
      <4>1. req' = [req EXCEPT ![r] = [[req[r] EXCEPT !.at = "remove"] EXCEPT !.n = 0]]
        BY <1>19, <2>0, <3>3 DEF GetDeployment, GoRemove
      <4> QED
        BY <2>0, <3>1, <3>3, <4>1
    <3> QED
      BY <3>2, <3>3
  <2>3. /\ \A s \in Requests : s # r => req'[s] = req[s]
        /\ req'[r] = q /\ In(r, "job") /\ d \in Dbs
    BY <1>19, <2>0, <2>2 DEF GetDeployment, In, DbTypes, ReqTypes, OnDb
  <2>4. Known'
    BY <2>0, <2>1, <2>2, <2>3 DEF RowsInv, Known
  <2>5. ASSUME Calm' PROVE Good(d)' /\ Deletion(r)'
    <3>1. Good(d) /\ Deletion(r)
      BY <2>0, <2>1, <2>3, <2>5 DEF RowsInv, Calm
    <3>2. TaskAt(d, "none")
      BY <2>0, <2>3, <3>1 DEF Good, Provisioned, In
    <3>3. TaskAt(d, "none")' /\ \A s \in Requests : In(s, "remove") => req'[s] = req[s]
      BY <2>0, <2>1, <2>3, <3>2 DEF TaskAt, In
    <3>4. Good(d)'
      BY <2>0, <2>1, <3>1, <3>2, <3>3 DEF Good, OneVm, HasVm, Provisioned, Running, HasDisk,
         TaskAt, In
    <3>5. q.at = "remove" => \A k \in Attempts : <<d, k>> \notin vm
      <4> SUFFICES ASSUME q.at = "remove", NEW k \in Attempts, <<d, k>> \in vm PROVE FALSE
        OBVIOUS
      <4>1. k = row[d].active /\ row[d].st = "running"
        BY <3>1, <3>2 DEF Good, HasVm, TaskAt
      <4>2. dep[d][k] = "job" /\ req[r].n = k
        BY <2>0, <2>3, <3>1, <4>1 DEF Good, Running, Deletion, HasRow, In
      <4> QED
        BY <2>0, <2>2, <4>2
    <3> QED
      BY <2>0, <2>1, <2>2, <2>3, <3>1, <3>4, <3>5 DEF Deletion, In, HasRow
  <2> QED
    BY <2>0, <2>1, <2>2, <2>3, <2>4, <2>5, RequestStep DEF In
<1>20. ASSUME NEW r \in Requests, StopVm(r) PROVE RowsInv'
  <2>0. PICK d \in Dbs : d = req[r].db
    BY <1>20 DEF StopVm, In, DbTypes, ReqTypes, OnDb
  <2> DEFINE j == <<d, req[r].n>>
  <2>1. /\ row' = row /\ dep' = dep /\ task' = task /\ asked' = asked /\ vm' = vm \ {j}
        /\ attached' = attached /\ rare \subseteq rare'
    BY <1>20, <2>0 DEF StopVm, Rare
  <2>2. PICK q : req' = [req EXCEPT ![r] = q] /\
          (\/ q.at = "remove" /\ q.db = d /\ j \in vm
           \/ q = NoRequest /\ j \notin vm
           \/ q = NoRequest /\ "unanswered" \in rare')
    <3>1. /\ [[req[r] EXCEPT !.at = "remove"] EXCEPT !.n = 0].at = "remove"
          /\ [[req[r] EXCEPT !.at = "remove"] EXCEPT !.n = 0].db = req[r].db
      BY DEF DbTypes, ReqTypes, ReqType
    <3>2. CASE j \in vm /\ req' = [req EXCEPT ![r] =
                                     [[req[r] EXCEPT !.at = "remove"] EXCEPT !.n = 0]]
      BY <2>0, <3>1, <3>2
    <3>3. CASE j \notin vm /\ req' = [req EXCEPT ![r] = NoRequest]
      BY <3>3
    <3>4. CASE "unanswered" \in rare' /\ req' = [req EXCEPT ![r] = NoRequest]
      BY <3>4
    <3> QED
      BY <1>20, <2>0, <3>2, <3>3, <3>4 DEF StopVm, GoRemove, Rare
  <2>3. /\ \A s \in Requests : s # r => req'[s] = req[s]
        /\ req'[r] = q /\ In(r, "stop") /\ d \in Dbs
        /\ NoRequest.at = "idle" /\ NoRequest.db = NoDb
    BY <1>20, <2>0, <2>2 DEF StopVm, In, DbTypes, ReqTypes, OnDb, NoRequest
  <2>4. Known'
    BY <2>0, <2>1, <2>2, <2>3, DatabasesAssumption DEF RowsInv, Known
  <2>5. \A e \in Dbs : e # d => \A k \in Attempts : <<e, k>> \in vm' <=> <<e, k>> \in vm
    BY <2>1
  <2>6. ASSUME Calm' PROVE Good(d)' /\ Deletion(r)'
    <3>1. Good(d) /\ Deletion(r)
      BY <2>0, <2>1, <2>3, <2>6 DEF RowsInv, Calm
    <3>2. TaskAt(d, "none")
      BY <2>0, <2>3, <3>1 DEF Good, Provisioned, In
    <3>3. TaskAt(d, "none")' /\ \A s \in Requests : In(s, "remove") => req'[s] = req[s]
      BY <2>0, <2>1, <2>3, <3>2 DEF TaskAt, In
    <3>4. OneVm(d)' /\ HasVm(d)'
      BY <2>0, <2>1, <3>1, <3>2, <3>3 DEF Good, OneVm, HasVm, TaskAt
    <3>5. Provisioned(d)'
      BY <3>3 DEF Provisioned
    <3>6. CASE q.at = "remove" /\ q.db = d /\ j \in vm
      <4>1. Running(d)'
        BY <2>0, <2>1, <2>3, <3>1, <3>6 DEF Good, Running, HasDisk, In
      <4>2. \A k \in Attempts : <<d, k>> \notin vm'
        <5> SUFFICES ASSUME NEW k \in Attempts, <<d, k>> \in vm' PROVE FALSE
          OBVIOUS
        <5>1. <<d, k>> \in vm /\ k # req[r].n
          BY <2>1
        <5>2. k = row[d].active /\ row[d].st = "running"
          BY <3>1, <3>2, <5>1 DEF Good, HasVm, TaskAt
        <5> QED
          BY <2>0, <2>3, <3>1, <5>1, <5>2 DEF Deletion, HasRow, In
      <4> QED
        BY <2>0, <2>3, <3>4, <3>5, <3>6, <4>1, <4>2 DEF Good, Deletion, In
    <3>7. CASE q = NoRequest /\ j \notin vm
      <4>1. vm' = vm
        BY <2>0, <2>1, <3>7
      <4>2. Running(d)'
        BY <2>0, <2>1, <2>3, <3>1, <3>3, <4>1 DEF Good, Running, HasDisk, In
      <4> QED
        BY <2>0, <2>3, <3>4, <3>5, <3>7, <4>2 DEF Good, Deletion, In
    <3> QED
      BY <2>0, <2>2, <2>6, <3>6, <3>7 DEF Calm
  <2>7. ASSUME Calm', NEW e \in Dbs, req'[r].db # e
        PROVE  \A k \in Attempts : <<e, k>> \in vm' <=> <<e, k>> \in vm
    BY <2>0, <2>1, <2>2, <2>3, <2>5, <2>7 DEF Calm
  <2>8. CASE Calm'
    BY <2>0, <2>1, <2>2, <2>3, <2>4, <2>6, <2>7, <2>8, DatabasesAssumption, RequestStep DEF In
  <2>9. CASE ~ Calm'
    BY <2>0, <2>1, <2>2, <2>3, <2>4, <2>9 DEF RowsInv
  <2> QED
    BY <2>8, <2>9
<1>21. ASSUME NEW r \in Requests, Remove(r) PROVE RowsInv'
  <2>0. PICK d \in Dbs : d = req[r].db
    BY <1>21 DEF Remove, In, DbTypes, ReqTypes, OnDb
  <2>1. /\ task' = task /\ asked' = asked /\ vm' = vm
        /\ attached' = attached /\ rare \subseteq rare'
    BY <1>21, <2>0 DEF Remove, outside
  <2>2. /\ \A s \in Requests : s # r => req'[s] = req[s]
        /\ req'[r].at = "decrement" /\ req'[r].db = d /\ d \in Dbs /\ In(r, "remove")
    BY <1>21, <2>0 DEF Remove, Go, In, DbTypes, ReqTypes, ReqType, OnDb
  <2>3. /\ row'[d].st = "gone"
        /\ \A e \in Dbs : e # d => row'[e] = row[e] /\ dep'[e] = dep[e]
    BY <1>21, <2>0, <2>2 DEF Remove, Gone, NoRow, DbTypes, RowTypes, DepTypes
  <2>4. Known' /\ Deletion(r)'
    BY <2>0, <2>2, <2>3 DEF RowsInv, Known, Deletion, In
  <2>5. ASSUME Calm' PROVE Good(d)'
    <3>1. Good(d) /\ Deletion(r)
      BY <2>0, <2>1, <2>2, <2>5 DEF RowsInv, Calm
    <3>2. TaskAt(d, "none") /\ \A k \in Attempts : <<d, k>> \notin asked /\ <<d, k>> \notin vm
      BY <2>0, <2>2, <3>1 DEF Good, OneVm, Provisioned, Deletion, In, TaskAt
    <3> QED
      BY <2>0, <2>1, <2>3, <3>2 DEF Good, OneVm, HasVm, Provisioned, Running, TaskAt
  <2>6. \A s \in Requests : s # r /\ req[s].at \in {"job", "stop"} =>
          row'[req[s].db] = row[req[s].db] \/ ~ HasRow(req[s].db)'
    BY <2>0, <2>2, <2>3 DEF HasRow, DbTypes, ReqTypes, OnDb
  <2> QED
    BY <2>0, <2>1, <2>2, <2>3, <2>4, <2>5, <2>6, RequestStep
<1>22. ASSUME NEW r \in Requests, DecrementDatabases(r) PROVE RowsInv'
  <2>1. /\ row' = row /\ dep' = dep /\ task' = task /\ asked' = asked /\ vm' = vm
        /\ attached' = attached /\ rare \subseteq rare'
    BY <1>22 DEF DecrementDatabases, outside, Rare
  <2>2. /\ \A s \in Requests : s # r => req'[s] = req[s]
        /\ req'[r].db = NoDb /\ req'[r].at \in {"idle", "insert"} /\ ~ In(r, "remove")
    BY <1>22 DEF DecrementDatabases, NoRequest, In, DbTypes, ReqTypes, ReqType, OnDb
  <2>3. Known'
    BY <2>1, <2>2, DatabasesAssumption DEF RowsInv, Known
  <2>4. Deletion(r)'
    BY <2>2 DEF Deletion, In
  <2>5. \A e \in Dbs : req'[r].db # e
    BY <2>2, DatabasesAssumption
  <2> QED
    BY <2>1, <2>2, <2>3, <2>4, <2>5, RequestStep
<1>23. ASSUME NEW r \in Requests, RequestStatementFails(r) PROVE RowsInv'
  <2>1. ~ Calm' /\ row' = row
    BY <1>23 DEF RequestStatementFails, Rare, Calm
  <2>2. \A s \in Requests, e \in Dbs : req'[s].db = e => req[s].db = e
    BY <1>23, DatabasesAssumption DEF RequestStatementFails, NoRequest, DbTypes, ReqTypes
  <2> QED
    BY <2>1, <2>2, NotCalm
<1>24. ASSUME NEW r \in Requests, NEW d \in Dbs, Delete(r, d) PROVE RowsInv'
  <2>1. /\ row' = row /\ dep' = dep /\ task' = task /\ asked' = asked /\ vm' = vm
        /\ attached' = attached /\ rare \subseteq rare'
        /\ HasRow(d) /\ (TaskAt(d, "none") \/ "early" \in rare')
    BY <1>24 DEF Delete, outside
  <2>2. /\ \A s \in Requests : s # r => req'[s] = req[s]
        /\ req'[r].at = (IF row[d].active = 0 THEN "remove" ELSE "job")
        /\ req'[r].db = d /\ req'[r].n = row[d].active /\ In(r, "idle")
    BY <1>24 DEF Delete, In, DbTypes, ReqTypes, ReqType
  <2>3. Known'
    BY <2>1, <2>2 DEF RowsInv, Known, HasRow
  <2>4. ASSUME Calm' PROVE Good(d)' /\ Deletion(r)'
    <3>1. Good(d) /\ TaskAt(d, "none") /\ TaskAt(d, "none")'
      BY <2>1, <2>4 DEF RowsInv, Calm, TaskAt
    <3>2. \A s \in Requests : In(s, "remove") => req'[s] = req[s]
      BY <2>2 DEF In
    <3>3. Good(d)'
      BY <2>1, <3>1, <3>2 DEF Good, OneVm, HasVm, Provisioned, Running, HasDisk, TaskAt, In
    <3>4. row[d].active = 0 => \A k \in Attempts : <<d, k>> \notin vm
      BY <3>1 DEF Good, HasVm, Attempts
    <3> QED
      BY <2>1, <2>2, <3>3, <3>4 DEF Deletion, In
  <2> QED
    BY <2>1, <2>2, <2>3, <2>4, RequestStep DEF In
<1>25. CASE ReAttach
  <2>1. /\ row' = row /\ dep' = dep /\ task' = task /\ asked' = asked /\ vm' = vm
        /\ req' = req /\ rare \subseteq rare'
        /\ "reattach" \in rare' \/ \A e \in Dbs : TaskAt(e, "none")
    BY <1>25 DEF ReAttach, Rare
  <2>2. Known'
    BY <2>1 DEF RowsInv, Known
  <2>3. ASSUME Calm' PROVE (\A e \in Dbs : Good(e)') /\ \A s \in Requests : Deletion(s)'
    <3>1. (\A e \in Dbs : Good(e)) /\ \A s \in Requests : Deletion(s)
      BY <2>1, <2>3 DEF RowsInv, Calm
    <3>2. ASSUME NEW e \in Dbs PROVE Good(e)'
      <4>1. row[e].st = "running" => HasDisk(e)'
        BY <1>25, <3>1 DEF ReAttach, Good, Running, HasDisk, HasRow, Rare
      <4>2. OneVm(e)' /\ HasVm(e)' /\ Running(e)'
        BY <2>1, <3>1, <4>1 DEF Good, OneVm, HasVm, Running, TaskAt, Nth, In
      <4>3. Provisioned(e)'
        BY <2>1, <3>1 DEF Good, Provisioned, TaskAt, Nth, In, HasDisk
      <4> QED
        BY <4>2, <4>3 DEF Good
    <3>3. \A s \in Requests : Deletion(s)'
      BY <2>1, <3>1 DEF Deletion, In, HasRow
    <3> QED
      BY <3>2, <3>3
  <2> QED
    BY <2>2, <2>3 DEF RowsInv
<1>26. CASE Restart
  <2>1. ~ Calm' /\ row' = row
    BY <1>26 DEF Restart, Rare, Calm
  <2>2. \A s \in Requests, e \in Dbs : req'[s].db = e => req[s].db = e
    BY <1>26, DatabasesAssumption DEF Restart, NoRequest, DbTypes, ReqTypes
  <2> QED
    BY <2>1, <2>2, NotCalm
<1>27. CASE UNCHANGED dbVars
  BY <1>27 DEF dbVars, outside, RowsInv, Known, Calm, Good, OneVm, HasVm, Provisioned, Running,
     Deletion, HasDisk, TaskAt, Nth, In, HasRow
<1> QED
  BY <1>1, <1>2, <1>3, <1>4, <1>5, <1>6, <1>7, <1>8, <1>9, <1>10, <1>11, <1>12, <1>13, <1>14,
     <1>15, <1>16, <1>17, <1>18, <1>19, <1>20, <1>21, <1>22, <1>23, <1>24, <1>25, <1>26, <1>27 DEF
     DbNext, ProvisionAndDeploy, ProvisioningFails, HandleRequest

(*------------------------- The initial states ----------------------------*)
LEMMA DbInitTypes == DbInit => DbTypes
<1> SUFFICES ASSUME DbInit PROVE DbTypes
  OBVIOUS
<1>1. NoRow \in RowType /\ NoTask \in TaskType /\ NoRequest \in ReqType /\ OnDb(NoRequest)
  BY NoTaskTyped DEF NoRow, RowType, NoRequest, ReqType, OnDb
<1> QED
  BY <1>1 DEF DbInit, DbTypes, RowTypes, DepTypes, TaskTypes, ReqTypes, OutsideTypes

(* At first there are no databases to count. *)
LEMMA InitCount == DbInit => CountInv
<1> SUFFICES ASSUME DbInit PROVE CountInv
  OBVIOUS
<1>1. Rows = {} /\ Uncounted = {} /\ Removed = {} /\ \A r \in Requests : ~ Creating(r)
  BY DEF DbInit, Rows, HasRow, NoRow, Uncounted, Removed, Creating, In, NoRequest
<1> QED
  BY <1>1, FS_EmptySet, DatabasesAssumption DEF DbInit, CountInv

(* At first there is neither a row nor a VM. *)
LEMMA InitRows == DbInit => RowsInv
BY DatabasesAssumption DEF DbInit, RowsInv, Known, Good, OneVm, HasVm, Provisioned, Running,
   Deletion, NoRow, NoTask, NoRequest, TaskAt, In, HasRow

-----------------------------------------------------------------------------
(* The types: a request and a deployment name databases and attempts that there are. *)
THEOREM DatabasesTypeCorrect == DbSpec => []DbTypes
<1>1. DbInit => DbTypes
  BY DbInitTypes
<1>2. DbTypes /\ [DbNext]_dbVars => DbTypes'
  BY DbTypesKept
<1> QED
  BY <1>1, <1>2, PTL DEF DbSpec

(* A pending database has its task, unless a statement has failed or the API was started again *)
(* (create_database, provision_and_deploy_database_with_retry).                                *)
THEOREM PendingIsWorkedOn == DbSpec => []PendingHasTask
<1>1. DbInit => PendingHasTask
  BY DEF DbInit, PendingHasTask, NoRow
<1>2. DbTypes /\ PendingHasTask /\ [DbNext]_dbVars => PendingHasTask'
  BY PendingKept
<1> QED
  BY <1>1, <1>2, DatabasesTypeCorrect, PTL DEF DbSpec

(* When no request is handled the count is that of the rows, and within the limit of the tier,   *)
(* but for the failures and the crossings the property names (increment_databases,              *)
(* decrement_databases, check_entitlement).                                                      *)
THEOREM CountIsOfRows == DbSpec => []CountTellsOfRows
<1>1. DbInit => CountInv
  BY InitCount
<1>2. DbTypes /\ CountInv /\ [DbNext]_dbVars => CountInv'
  BY CountKept
<1>3. CountInv => CountTellsOfRows
  <2> SUFFICES ASSUME CountInv, \A r \in Requests : In(r, "idle"),
                      rare \cap {"cut", "crossed"} = {}
               PROVE  /\ count = Cardinality(Rows)
                      /\ "together" \notin rare => count <= Limit
    BY DEF CountTellsOfRows
  <2>1. Uncounted = {} /\ Removed = {}
    BY DEF Uncounted, Removed, In
  <2>2. count \in Nat /\ Cardinality(Rows) \in Nat /\ Cardinality({}) = 0
    BY Finite, FS_CardinalityType, FS_EmptySet DEF CountInv
  <2>3. count + Cardinality({}) = Cardinality(Rows) + Cardinality({})
    BY <2>1 DEF CountInv
  <2> QED
    BY <2>2, <2>3 DEF CountInv
<1> QED
  BY <1>1, <1>2, <1>3, DatabasesTypeCorrect, PTL DEF DbSpec

(* When nothing is under way for a database, the scheduler has a VM for it exactly when its row *)
(* says that it runs, that of the active deployment, but for the failures the property names    *)
(* (provision_and_deploy_database_with_retry, delete_database, re_attach).                      *)
THEOREM RowsAreRight == DbSpec => []RowsTellOfVms
<1>1. DbInit => RowsInv
  BY InitRows
<1>2. DbTypes /\ RowsInv /\ [DbNext]_dbVars => RowsInv'
  BY RowsKept
<1>3. DbTypes /\ RowsInv => RowsTellOfVms
  <2> SUFFICES ASSUME DbTypes, RowsInv, NEW d \in Dbs, Settled(d), Calm
               PROVE  /\ {n \in Attempts : <<d, n>> \in vm}
                           = IF row[d].st = "running" THEN {row[d].active} ELSE {}
                      /\ row[d].st = "running" => d \in attached \/ "reattach" \in rare
    BY DEF RowsTellOfVms, Calm
  <2>1. Good(d) /\ TaskAt(d, "none") /\ \A r \in Requests : req[r].db # d
    BY DEF RowsInv, Settled
  <2>2. \A n \in Attempts : <<d, n>> \in vm => n = row[d].active /\ row[d].st = "running"
    BY <2>1 DEF Good, HasVm, TaskAt
  <2>3. row[d].st = "running" =>
          row[d].active \in Attempts /\ <<d, row[d].active>> \in vm /\ HasDisk(d)
    BY <2>1 DEF Good, Running
  <2> QED
    BY <2>2, <2>3 DEF HasDisk
<1> QED
  BY <1>1, <1>2, <1>3, DatabasesTypeCorrect, PTL DEF DbSpec

(*-------------------------------- Volumes --------------------------------*)
AnyName == Names \cup {None} \cup Modes
AnyVol == Vols \cup {None}
Ops == {"none", "create", "delete", "snapshot", "unsnapshot", "restore", "clone", "attach"}
Points == {"idle", "insert", "count", "sent", "ok", "refused", "uncount", "write"}

(* Tables, images and VMs keep their types. *)
TableTypes ==
  /\ volume \in [Vols -> {"none", "row", "gone"}]
  /\ snapshot \in [Snaps -> [st : {"none", "row", "gone"}, vol : AnyVol, name : AnyName]]
  /\ attachment \in [Apps -> [Vols -> {"no"} \cup Modes]]
  /\ promised \in [Snaps -> {"none", "told", "unwanted"}]
ImageType ==
  [there : BOOLEAN, snaps : SUBSET AnyName, protected : SUBSET AnyName,
   parent : (AnyVol \X AnyName) \cup {None}]
ImageTypes == image \in [Vols -> ImageType]
GuestTypes ==
  guest \in [Apps -> [vols : SUBSET Vols, on : BOOLEAN, mapped : SUBSET Vols]]

(* A request names what it is about. *)
RequestTypes ==
  [op : Ops, at : Points, v : AnyVol, s : Snaps \cup {None}, name : AnyName,
   t : Vols \cup Apps \cup {None}]
Sound(q) ==
  /\ q.op = "none" => q.at = "idle"
  /\ q.op \notin {"none", "create"} => q.v \in Vols
  /\ q.op = "create" => q.at = "insert" \/ q.v \in Vols
  /\ q.op \in {"snapshot", "unsnapshot"} => q.s \in Snaps
  /\ q.op = "clone" => q.t \in Vols
  /\ q.op = "attach" => q.at = "write" /\ q.t \in Apps /\ q.name \in Modes
  /\ q.op \in {"snapshot", "unsnapshot", "restore", "clone"} =>
       q.at \in {"sent", "ok", "refused"}
HandlerTypes ==
  /\ handler \in [Handlers -> RequestTypes]
  /\ late \subseteq RequestTypes
  /\ \A q \in Pending : Sound(q)
  /\ \A q \in late : q.at = "sent"

TypeOK == TableTypes /\ ImageTypes /\ GuestTypes /\ HandlerTypes

(* What a handler that is about to attach a volume has found still holds, unless another one was *)
(* at it at the same time.                                                                       *)
Checked(q) == q.op = "attach" => MayAttach(q.t, q.v, q.name)
OwnersInv ==
  "overlap" \notin events =>
    /\ \A q \in Pending : Checked(q)
    /\ \A g, h \in Handlers :
         handler[g].op = "attach" /\ handler[h].op = "attach" /\ handler[g].v = handler[h].v =>
           g = h
    /\ OneOwner

(* A VM that runs has mapped its volumes, so that Ceph does not remove their images. *)
MappedInv ==
  \A a \in Apps : guest[a].on =>
    /\ guest[a].vols \subseteq guest[a].mapped
    /\ \A v \in guest[a].vols : image[v].there

(* The volume whose row or image a handler makes or removes. *)
Changes(h, v) ==
  \/ handler[h].op \in {"create", "delete"} /\ handler[h].at # "insert" /\ handler[h].v = v
  \/ handler[h].op = "clone" /\ handler[h].t = v

(* As long as nothing unusual has happened: no request is carried out after it was given up, one *)
(* handler at a time changes a volume, and it has its row first and its image last.              *)
Usual == events \cap {"unanswered", "raced", "revived"} = {}
RowsFirst == \A h \in Handlers, v \in Vols : Changes(h, v) => volume[v] # "none"
ImagesHaveRows == \A v \in Vols : image[v].there => Exists(v)
OneChanger == \A g, h \in Handlers, v \in Vols : Changes(g, v) /\ Changes(h, v) => g = h
Progress(h) ==
  /\ At(h, "delete", "ok") => ~image[handler[h].v].there
  /\ At(h, "create", "count") \/ At(h, "create", "sent") => Exists(handler[h].v)
  /\ At(h, "clone", "sent") => Exists(handler[h].t) /\ ~image[handler[h].t].there
  /\ At(h, "clone", "refused") => ~image[handler[h].t].there
InOrder == late = {} /\ ImagesHaveRows /\ OneChanger /\ \A h \in Handlers : Progress(h)
LeftInv == RowsFirst /\ (Usual => InOrder)

(* A snapshot whose owner was told of it, or is about to be, and has not asked to delete it. *)
Kept(s) == snapshot[s].st = "row" /\ snapshot[s].name \in image[snapshot[s].vol].snaps
Wanted(s) == promised[s] # "unwanted"
Owner(q) ==
  q.op = "snapshot" /\ Wanted(q.s) =>
    snapshot[q.s].st = "row" /\ (q.at = "ok" => Kept(q.s))

(* A request that removes the volume's snapshots finds none, and one that removes a snapshot is *)
(* the only one of that name.                                                                    *)
Harmless(q) ==
  /\ q.op = "delete" => SnapshotsOf(q.v) = {}
  /\ q.op = "clone" => SnapshotsOf(q.t) = {}
  /\ q.op = "unsnapshot" =>
       \A s \in SnapshotsOf(q.v) : snapshot[s].name = q.name => ~Wanted(s)

(* What a request about a snapshot says is what the row says, and deletion was asked for. *)
Asks(q) ==
  q.op \in {"snapshot", "unsnapshot"} =>
    /\ snapshot[q.s].st # "none" /\ snapshot[q.s].vol = q.v /\ snapshot[q.s].name = q.name
    /\ q.op = "unsnapshot" => ~Wanted(q.s)

RowsKnown ==
  \A s \in Snaps :
    /\ snapshot[s].st = "none" => promised[s] = "none"
    /\ snapshot[s].st # "none" => snapshot[s].vol \in Vols /\ volume[snapshot[s].vol] # "none"
NoneWithoutImage == \A v \in Vols : ~image[v].there => image[v].snaps = {}
OneOfAName ==
  \A r, s \in Snaps :
    /\ snapshot[r].st = "row" /\ snapshot[s].st = "row"
    /\ snapshot[r].vol = snapshot[s].vol /\ snapshot[r].name = snapshot[s].name
    => r = s
Promises == \A s \in Snaps : promised[s] = "told" => Kept(s)
Orderly == events \cap {"same name", "raced"} = {}
Neat == (\A q \in Pending : Owner(q) /\ Harmless(q)) /\ OneOfAName /\ Promises
SnapshotsInv ==
  /\ \A q \in Pending : Asks(q)
  /\ RowsKnown /\ NoneWithoutImage
  /\ Orderly => Neat

(* Handlers that have written the row of a volume they have not counted yet, and those that have *)
(* removed one.                                                                                  *)
ToCount == {h \in Handlers : At(h, "create", "count")}
ToUncount == {h \in Handlers : At(h, "delete", "uncount")}
(* Whoever is about to count a volume is the only one that changes it, and it is there. *)
Alone(h) ==
  At(h, "create", "count") =>
    Exists(handler[h].v) /\ \A g \in Handlers : Changes(g, handler[h].v) => g = h
Countable == events \cap {"cloned", "cut", "twice", "raced"} = {}
UsageInv ==
  /\ used \in Nat
  /\ Countable =>
       /\ used + Cardinality(ToCount) = Cardinality(Stored) + Cardinality(ToUncount)
       /\ \A h \in Handlers : Alone(h) /\ handler[h].op # "clone"

-----------------------------------------------------------------------------

(* What a request does to the images keeps their types. *)
LEMMA DoneTypes ==
  ASSUME TypeOK, NEW q \in RequestTypes, Sound(q)
  PROVE  Done(q) \in [Vols -> ImageType]
<1> USE DEF TypeOK, ImageTypes, ImageType, RequestTypes, Sound, AnyName, AnyVol, NoImage
<1>1. CASE q.op = "delete"
  BY <1>1 DEF Done, DeleteImage
<1>2. CASE q.op = "create"
  BY <1>2 DEF Done, CreateImage
<1>3. CASE q.op = "snapshot"
  BY <1>3 DEF Done, CreateImageSnapshot
<1>4. CASE q.op = "unsnapshot"
  <2> DEFINE i == [image EXCEPT ![q.v].snaps = @ \ {q.name}]
  <2>1. i \in [Vols -> ImageType]
    BY <1>4
  <2> HIDE DEF i
  <2>2. [i EXCEPT ![q.v].protected = @ \ {q.name}] \in [Vols -> ImageType]
    BY <2>1, <1>4
  <2>3. DeleteImageSnapshot(q.v, q.name) \in [Vols -> ImageType]
    BY <2>2 DEF DeleteImageSnapshot, i
  <2> QED
    BY <2>3, <1>4 DEF Done
<1>5. CASE q.op = "clone"
  <2> DEFINE i == [image EXCEPT ![q.v].protected = @ \cup {q.name}]
  <2>1. q.v \in Vols /\ q.t \in Vols /\ q.name \in AnyName
    BY <1>5
  <2>2. i \in [Vols -> ImageType]
    BY <2>1
  <2>3. [NoImage EXCEPT !.there = TRUE, !.parent = <<q.v, q.name>>] \in ImageType
    BY <2>1
  <2>4. CloneImage(q.v, q.name, q.t) \in [Vols -> ImageType]
    BY <2>1, <2>2, <2>3 DEF CloneImage
  <2> QED
    BY <2>2, <2>4, <1>5 DEF Done
<1>6. CASE q.op \notin {"delete", "create", "snapshot", "unsnapshot", "clone"}
  BY <1>6 DEF Done
<1> QED
  BY <1>1, <1>2, <1>3, <1>4, <1>5, <1>6

(* What a request does to the images: one is removed only by a request to delete it that       *)
(* succeeds, made only by one to create or clone it, and a snapshot's data is removed only by a *)
(* request to delete the snapshot or the volume (handle_command).                               *)
LEMMA DoneEffect ==
  ASSUME TypeOK, NEW q \in RequestTypes, Sound(q), NEW v \in Vols
  PROVE  /\ image[v].there /\ ~Done(q)[v].there =>
              q.op = "delete" /\ q.v = v /\ Mapped(v) = {}
         /\ ~image[v].there /\ Done(q)[v].there =>
              Succeeds(q) /\ ((q.op = "create" /\ q.v = v) \/ (q.op = "clone" /\ q.t = v))
         /\ q.op = "delete" /\ q.v = v /\ Succeeds(q) => ~Done(q)[v].there
         /\ q.op = "clone" /\ q.t = v /\ ~Succeeds(q) => Done(q)[v].there = image[v].there
         /\ \A n \in image[v].snaps \ Done(q)[v].snaps :
              \/ q.op = "delete" /\ q.v = v
              \/ q.op = "unsnapshot" /\ q.v = v /\ q.name = n
              \/ ~image[v].there
         /\ q.op = "snapshot" /\ q.v = v /\ Succeeds(q) => q.name \in Done(q)[v].snaps
         /\ ~Done(q)[v].there /\ image[v].snaps # {} /\ image[v].there => Done(q)[v].snaps = {}
         /\ ~Done(q)[v].there /\ image[v].snaps = {} => Done(q)[v].snaps = {}
<1> USE DEF TypeOK, ImageTypes, ImageType, RequestTypes, Sound, NoImage
<1>1. CASE q.op = "delete"
  BY <1>1 DEF Done, DeleteImage, Removable, Succeeds
<1>2. CASE q.op = "create"
  <2>1. CASE Succeeds(q)
    <3>1. q.op = "create" /\ ~image[q.v].there /\ Done(q) = CreateImage(q.v)
      BY <1>2, <2>1 DEF Succeeds, Done
    <3>2. /\ v # q.v => Done(q)[v] = image[v]
          /\ v = q.v => Done(q)[v].there /\ Done(q)[v].snaps = {}
      BY <3>1 DEF CreateImage
    <3> QED
      BY <1>2, <2>1, <3>1, <3>2
  <2>2. CASE ~Succeeds(q)
    <3>1. Done(q) = image
      BY <1>2, <2>2 DEF Done
    <3> QED
      BY <1>2, <3>1, <2>2
  <2> QED
    BY <2>1, <2>2
<1>3. CASE q.op = "snapshot"
  BY <1>3 DEF Done, CreateImageSnapshot, Succeeds
<1>4. CASE q.op = "unsnapshot"
  BY <1>4 DEF Done, DeleteImageSnapshot, Succeeds, HasSnapshot
<1>5. CASE q.op = "clone"
  <2>1. q.v \in Vols /\ q.t \in Vols
    BY <1>5
  <2>2. CASE Succeeds(q)
    <3>1. q.op = "clone" /\ ~image[q.t].there /\ Done(q) = CloneImage(q.v, q.name, q.t)
      BY <1>5, <2>2 DEF Succeeds, Done
    <3> DEFINE i == [image EXCEPT ![q.v].protected = @ \cup {q.name}]
               c == [NoImage EXCEPT !.there = TRUE, !.parent = <<q.v, q.name>>]
    <3>a. DOMAIN i = Vols /\ i[v].there = image[v].there /\ i[v].snaps = image[v].snaps
      BY <2>1
    <3>b. c.there /\ c.snaps = {}
      OBVIOUS
    <3>c. Done(q) = [i EXCEPT ![q.t] = c]
      BY <3>1 DEF CloneImage
    <3> HIDE DEF i, c
    <3>2. /\ v # q.t => /\ Done(q)[v].there = image[v].there
                      /\ Done(q)[v].snaps = image[v].snaps
          /\ v = q.t => Done(q)[v].there /\ Done(q)[v].snaps = {}
      BY <2>1, <3>a, <3>b, <3>c
    <3>3. CASE v = q.t
      <4>1. ~image[v].there /\ Done(q)[v].there /\ Done(q)[v].snaps = {}
        BY <3>1, <3>2, <3>3
      <4> HIDE DEF ImageTypes, NoImage, Sound
      <4> QED
        BY <1>5, <2>2, <3>3, <4>1
    <3>4. CASE v # q.t
      <4> HIDE DEF ImageTypes, NoImage, Sound
      <4> QED
        BY <1>5, <2>2, <3>2, <3>4
    <3> QED
      BY <3>3, <3>4
  <2>3. CASE ~Succeeds(q)
    <3>1. Done(q)[v].there = image[v].there /\ Done(q)[v].snaps = image[v].snaps
      BY <1>5, <2>1, <2>3 DEF Done, ImageType
    <3> QED
      BY <1>5, <2>3, <3>1
  <2> QED
    BY <2>2, <2>3
<1>6. CASE q.op \notin {"delete", "create", "snapshot", "unsnapshot", "clone"}
  BY <1>6 DEF Done, Succeeds
<1> QED
  BY <1>1, <1>2, <1>3, <1>4, <1>5, <1>6

(* The request of a handler is of its type. *)
LEMMA RequestTyped ==
  ASSUME TypeOK, NEW q, q \in Pending
  PROVE  q \in RequestTypes /\ Sound(q)
BY DEF TypeOK, HandlerTypes, Pending

(* What the next request of a handler must be. *)
LEMMA HandlerSet ==
  ASSUME HandlerTypes, NEW h \in Handlers, NEW r \in RequestTypes, Sound(r),
         handler' = [handler EXCEPT ![h] = r], late' \subseteq late \cup {handler[h]},
         \A q \in late' : q.at = "sent"
  PROVE  HandlerTypes'
<1>1. handler' \in [Handlers -> RequestTypes] /\ late' \subseteq RequestTypes
  BY DEF HandlerTypes
<1>2. Pending' \subseteq Pending \cup {r}
  BY DEF Pending, HandlerTypes
<1>3. \A q \in Pending' : Sound(q)
  BY <1>2 DEF HandlerTypes
<1> QED
  BY <1>1, <1>3 DEF HandlerTypes, Sound

(* A handler that does nothing has no request. *)
LEMMA IdleTyped == Idle \in RequestTypes /\ Sound(Idle)
BY DEF Idle, RequestTypes, Sound, Ops, Points, AnyName, AnyVol

(* Removing the row of a volume keeps the types of the tables. *)
LEMMA RemoveRowTypes ==
  ASSUME TableTypes, NEW v \in Vols, RemoveRow(v)
  PROVE  /\ volume' \in [Vols -> {"none", "row", "gone"}]
         /\ snapshot' \in [Snaps -> [st : {"none", "row", "gone"}, vol : AnyVol, name : AnyName]]
         /\ attachment' \in [Apps -> [Vols -> {"no"} \cup Modes]]
<1>1. volume' \in [Vols -> {"none", "row", "gone"}]
  BY DEF TableTypes, RemoveRow
<1>2. attachment' \in [Apps -> [Vols -> {"no"} \cup Modes]]
  BY DEF TableTypes, RemoveRow
<1>3. snapshot' \in [Snaps -> [st : {"none", "row", "gone"}, vol : AnyVol, name : AnyName]]
  BY DEF TableTypes, RemoveRow
<1> QED
  BY <1>1, <1>2, <1>3

(* A handler whose request the scheduler refuses has the same request still. *)
LEMMA RefusalTyped ==
  ASSUME TypeOK, NEW h \in Handlers, handler[h].at = "sent", Goto(h, "refused"),
         late' \subseteq late \cup {handler[h]}
  PROVE  /\ HandlerTypes'
         /\ \A g \in Handlers : g # h => handler'[g] = handler[g]
         /\ handler'[h] = [handler[h] EXCEPT !.at = "refused"]
         /\ handler'[h].op = handler[h].op /\ handler'[h].v = handler[h].v
         /\ handler'[h].s = handler[h].s /\ handler'[h].name = handler[h].name
         /\ handler'[h].t = handler[h].t /\ handler'[h].at = "refused"
<1> DEFINE r == [handler[h] EXCEPT !.at = "refused"]
<1>1. handler[h] \in RequestTypes /\ Sound(handler[h])
  BY RequestTyped DEF Pending
<1>2. r \in RequestTypes /\ Sound(r)
  BY <1>1 DEF RequestTypes, Sound, Points
<1>3. handler' = [handler EXCEPT ![h] = r] /\ \A q \in late' : q.at = "sent"
  BY DEF Goto, TypeOK, HandlerTypes
<1>4. HandlerTypes'
  BY <1>2, <1>3, HandlerSet DEF TypeOK
<1> QED
  BY <1>1, <1>3, <1>4 DEF TypeOK, HandlerTypes, RequestTypes

(* Every step keeps the types. *)
LEMMA TypesKept ==
  TypeOK /\ [Next]_vars => TypeOK'
<1> SUFFICES ASSUME TypeOK, [Next]_vars PROVE TypeOK'
  OBVIOUS
<1>1. ASSUME NEW h \in Handlers, CheckEntitlement(h) PROVE TypeOK'
  <2>1. TableTypes' /\ ImageTypes' /\ GuestTypes'
    BY <1>1 DEF CheckEntitlement, Begin, Busy, Idle, rows, TypeOK, TableTypes, AnyVol, AnyName,
       ImageTypes, ImageType, GuestTypes
  <2>2. HandlerTypes'
    <3> DEFINE r == [Idle EXCEPT !.op = "create", !.at = "insert"]
    <3>1. r \in RequestTypes /\ Sound(r)
      BY <1>1 DEF CheckEntitlement, Idle, TypeOK, HandlerTypes, Pending, RequestTypes, Sound, Ops,
         Points, AnyName, AnyVol, At, Busy
    <3> QED
      BY <1>1, <3>1, HandlerSet DEF CheckEntitlement, Idle, TypeOK, HandlerTypes, RequestTypes
  <2> QED
    BY <2>1, <2>2 DEF TypeOK
<1>2. ASSUME NEW h \in Handlers, IncrementVolumes(h) PROVE TypeOK'
  <2>1. TableTypes' /\ ImageTypes' /\ GuestTypes'
    BY <1>2 DEF IncrementVolumes, At, Goto, TypeOK, TableTypes, AnyVol, AnyName, ImageTypes,
       ImageType, GuestTypes
  <2>2. HandlerTypes'
    <3> DEFINE r == [handler[h] EXCEPT !.at = "sent"]
    <3>1. r \in RequestTypes /\ Sound(r)
      BY <1>2 DEF IncrementVolumes, Goto, TypeOK, HandlerTypes, Pending, RequestTypes, Sound, Ops,
         Points, AnyName, AnyVol, At, Busy
    <3> QED
      BY <1>2, <3>1, HandlerSet DEF IncrementVolumes, Goto, TypeOK, HandlerTypes, RequestTypes
  <2> QED
    BY <2>1, <2>2 DEF TypeOK
<1>3. ASSUME NEW h \in Handlers, DeleteVolume(h) PROVE TypeOK'
  <2>1. ImageTypes' /\ GuestTypes'
    BY <1>3 DEF DeleteVolume, At, RemoveRow, SnapshotsOf, Goto, Happens, If, Exists, TypeOK,
       ImageTypes, ImageType, AnyName, AnyVol, GuestTypes
  <2>2. TableTypes'
    <3>1. handler[h].v \in Vols
      BY <1>3 DEF DeleteVolume, At, TypeOK, HandlerTypes, Sound, Pending
    <3> QED
      BY <1>3, <3>1, RemoveRowTypes DEF DeleteVolume, TypeOK, TableTypes
  <2>3. HandlerTypes'
    <3> DEFINE r == [handler[h] EXCEPT !.at = "uncount"]
    <3>1. r \in RequestTypes /\ Sound(r)
      BY <1>3 DEF DeleteVolume, Goto, TypeOK, HandlerTypes, Pending, RequestTypes, Sound, Ops,
         Points, AnyName, AnyVol, At, Busy
    <3> QED
      BY <1>3, <3>1, HandlerSet DEF DeleteVolume, Goto, TypeOK, HandlerTypes, RequestTypes
  <2> QED
    BY <2>1, <2>2, <2>3 DEF TypeOK
<1>4. ASSUME NEW h \in Handlers, DecrementVolumes(h) PROVE TypeOK'
  <2>1. TableTypes' /\ ImageTypes' /\ GuestTypes'
    BY <1>4 DEF DecrementVolumes, At, End, Idle, TypeOK, TableTypes, AnyVol, AnyName, ImageTypes,
       ImageType, GuestTypes
  <2>2. HandlerTypes'
    BY <1>4, IdleTyped, HandlerSet DEF DecrementVolumes, End, rows, TypeOK, HandlerTypes
  <2> QED
    BY <2>1, <2>2 DEF TypeOK
<1>5. ASSUME NEW h \in Handlers, SnapshotCreated(h) PROVE TypeOK'
  <2>1. ImageTypes' /\ GuestTypes'
    BY <1>5 DEF SnapshotCreated, At, End, Idle, rows, TypeOK, ImageTypes, ImageType, AnyName,
       AnyVol, GuestTypes
  <2>2. TableTypes'
    BY <1>5 DEF SnapshotCreated, At, End, Idle, rows, TypeOK, TableTypes, HandlerTypes,
       RequestTypes, Sound, Pending, AnyName, AnyVol
  <2>3. HandlerTypes'
    BY <1>5, IdleTyped, HandlerSet DEF SnapshotCreated, End, rows, TypeOK, HandlerTypes
  <2> QED
    BY <2>1, <2>2, <2>3 DEF TypeOK
<1>6. ASSUME NEW h \in Handlers, DeleteSnapshot(h) PROVE TypeOK'
  <2>1. ImageTypes' /\ GuestTypes'
    BY <1>6 DEF DeleteSnapshot, At, End, Idle, TypeOK, ImageTypes, ImageType, AnyName, AnyVol,
       GuestTypes
  <2>2. TableTypes'
    <3>1. handler[h].s \in Snaps
      BY <1>6 DEF DeleteSnapshot, At, TypeOK, HandlerTypes, Sound, Pending
    <3> QED
      BY <1>6, <3>1 DEF DeleteSnapshot, TypeOK, TableTypes
  <2>3. HandlerTypes'
    BY <1>6, IdleTyped, HandlerSet DEF DeleteSnapshot, End, rows, TypeOK, HandlerTypes
  <2> QED
    BY <2>1, <2>2, <2>3 DEF TypeOK
<1>7. ASSUME NEW h \in Handlers, Attach(h) PROVE TypeOK'
  <2>1. ImageTypes' /\ GuestTypes'
    BY <1>7 DEF Attach, At, Exists, End, Idle, TypeOK, ImageTypes, ImageType, AnyName, AnyVol,
       GuestTypes
  <2>2. TableTypes'
    BY <1>7 DEF Attach, At, Exists, End, Idle, TypeOK, TableTypes, HandlerTypes, RequestTypes,
       Sound, Pending, AnyName, AnyVol
  <2>3. HandlerTypes'
    BY <1>7, IdleTyped, HandlerSet DEF Attach, End, rows, TypeOK, HandlerTypes
  <2> QED
    BY <2>1, <2>2, <2>3 DEF TypeOK
<1>8. ASSUME NEW h \in Handlers, Execute(h) PROVE TypeOK'
  <2>1. TableTypes' /\ GuestTypes'
    BY <1>8 DEF Execute, Goto, rows, TypeOK, TableTypes, AnyVol, AnyName, GuestTypes
  <2>2. ImageTypes'
    <3>1. handler[h] \in RequestTypes /\ Sound(handler[h])
      BY RequestTyped DEF Pending
    <3> QED
      BY <1>8, <3>1, DoneTypes DEF Execute, ImageTypes
  <2>3. HandlerTypes'
    <3> DEFINE r == [handler[h] EXCEPT !.at = IF Succeeds(handler[h]) THEN "ok" ELSE "refused"]
    <3>1. r \in RequestTypes /\ Sound(r)
      BY <1>8 DEF Execute, Goto, TypeOK, HandlerTypes, Pending, RequestTypes, Sound, Ops, Points,
         AnyName, AnyVol, At, Busy
    <3> QED
      BY <1>8, <3>1, HandlerSet DEF Execute, Goto, TypeOK, HandlerTypes, RequestTypes
  <2> QED
    BY <2>1, <2>2, <2>3 DEF TypeOK
<1>9. ASSUME NEW h \in Handlers, Refused(h) PROVE TypeOK'
  <2>1. ImageTypes' /\ GuestTypes'
    BY <1>9 DEF Refused, RemoveRow, SnapshotsOf, End, Idle, TypeOK, ImageTypes, ImageType,
       AnyName, AnyVol, GuestTypes
  <2>2. TableTypes'
    <3>1. CASE handler[h].op = "clone"
      <4>1. handler[h].t \in Vols
        BY <3>1 DEF TypeOK, HandlerTypes, Sound, Pending
      <4> QED
        BY <1>9, <3>1, <4>1, RemoveRowTypes DEF Refused, TypeOK, TableTypes
    <3>2. CASE handler[h].op # "clone"
      BY <1>9, <3>2 DEF Refused, TypeOK, TableTypes
    <3> QED
      BY <3>1, <3>2
  <2>3. HandlerTypes'
    BY <1>9, IdleTyped, HandlerSet DEF Refused, End, rows, TypeOK, HandlerTypes
  <2> QED
    BY <2>1, <2>2, <2>3 DEF TypeOK
<1>10. ASSUME NEW h \in Handlers, Accepted(h) PROVE TypeOK'
  <2>1. TableTypes' /\ ImageTypes' /\ GuestTypes'
    BY <1>10 DEF Accepted, End, Idle, rows, TypeOK, TableTypes, AnyVol, AnyName, ImageTypes,
       ImageType, GuestTypes
  <2>2. HandlerTypes'
    BY <1>10, IdleTyped, HandlerSet DEF Accepted, End, rows, TypeOK, HandlerTypes
  <2> QED
    BY <2>1, <2>2 DEF TypeOK
<1>11. ASSUME NEW h \in Handlers, GiveUp(h) PROVE TypeOK'
  <2>1. TableTypes' /\ ImageTypes' /\ GuestTypes'
    BY <1>11 DEF GiveUp, End, Idle, Happens, rows, TypeOK, TableTypes, AnyVol, AnyName,
       ImageTypes, ImageType, GuestTypes
  <2>2. HandlerTypes'
    <3>1. \A q \in late' : q.at = "sent"
      BY <1>11 DEF GiveUp, TypeOK, HandlerTypes
    <3> QED
      BY <1>11, <3>1, IdleTyped, HandlerSet DEF GiveUp, End, TypeOK
  <2> QED
    BY <2>1, <2>2 DEF TypeOK
<1>12. ASSUME NEW h \in Handlers, Cut(h) PROVE TypeOK'
  <2>1. TableTypes' /\ ImageTypes' /\ GuestTypes'
    BY <1>12 DEF Cut, End, Idle, Happens, rows, TypeOK, TableTypes, AnyVol, AnyName, ImageTypes,
       ImageType, GuestTypes
  <2>2. HandlerTypes'
    BY <1>12, IdleTyped, HandlerSet DEF Cut, End, rows, TypeOK, HandlerTypes
  <2> QED
    BY <2>1, <2>2 DEF TypeOK
<1>13. ASSUME NEW h \in Handlers, NEW v \in Vols, InsertVolume(h, v) PROVE TypeOK'
  <2>1. ImageTypes' /\ GuestTypes'
    BY <1>13 DEF InsertVolume, At, TypeOK, ImageTypes, ImageType, AnyName, AnyVol, GuestTypes
  <2>2. TableTypes'
    BY <1>13 DEF InsertVolume, At, TypeOK, TableTypes, HandlerTypes, RequestTypes, Sound, Pending,
       AnyName, AnyVol
  <2>3. HandlerTypes'
    <3> DEFINE r == [[handler[h] EXCEPT !.at = "count"] EXCEPT !.v = v]
    <3>1. r \in RequestTypes /\ Sound(r)
      BY <1>13 DEF InsertVolume, At, TypeOK, HandlerTypes, Pending, RequestTypes, Sound, Ops,
         Points, AnyVol
    <3>2. handler' = [handler EXCEPT ![h] = r]
      BY <1>13 DEF InsertVolume, TypeOK, HandlerTypes, RequestTypes
    <3> QED
      BY <1>13, <3>1, <3>2, HandlerSet DEF InsertVolume, TypeOK, HandlerTypes
  <2> QED
    BY <2>1, <2>2, <2>3 DEF TypeOK
<1>14. ASSUME NEW h \in Handlers, NEW v \in Vols, BeginDelete(h, v) PROVE TypeOK'
  <2>1. TableTypes' /\ ImageTypes' /\ GuestTypes'
    BY <1>14 DEF BeginDelete, Begin, Busy, Send, Happens, If, rows, TypeOK, TableTypes, AnyVol,
       AnyName, ImageTypes, ImageType, GuestTypes
  <2>2. HandlerTypes'
    <3> DEFINE r == [op |-> "delete", at |-> "sent", v |-> v, s |-> None, name |-> None, t |-> None]
    <3>1. r \in RequestTypes /\ Sound(r)
      BY <1>14 DEF BeginDelete, Send, TypeOK, HandlerTypes, Pending, RequestTypes, Sound, Ops,
         Points, AnyName, AnyVol, At, Busy
    <3> QED
      BY <1>14, <3>1, HandlerSet DEF BeginDelete, Send, TypeOK, HandlerTypes, RequestTypes
  <2> QED
    BY <2>1, <2>2 DEF TypeOK
<1>15. ASSUME NEW h \in Handlers, NEW v \in Vols, NEW a \in Apps, NEW mode \in Modes,
            ReadAttachments(h, a, v, mode) PROVE TypeOK'
  <2>1. TableTypes' /\ ImageTypes' /\ GuestTypes'
    BY <1>15 DEF ReadAttachments, Begin, Busy, Exists, Happens, If, Pending, rows, TypeOK,
       TableTypes, AnyVol, AnyName, ImageTypes, ImageType, GuestTypes
  <2>2. HandlerTypes'
    <3> DEFINE r == [op |-> "attach", at |-> "write", v |-> v, s |-> None, name |-> mode, t |-> a]
    <3>1. r \in RequestTypes /\ Sound(r)
      BY <1>15 DEF ReadAttachments, TypeOK, HandlerTypes, Pending, RequestTypes, Sound, Ops,
         Points, AnyName, AnyVol, At, Busy
    <3> QED
      BY <1>15, <3>1, HandlerSet DEF ReadAttachments, TypeOK, HandlerTypes, RequestTypes
  <2> QED
    BY <2>1, <2>2 DEF TypeOK
<1>16. ASSUME NEW h \in Handlers, NEW v \in Vols, NEW n \in Names, BeginRestore(h, v, n) PROVE
            TypeOK'
  <2>1. TableTypes' /\ ImageTypes' /\ GuestTypes'
    BY <1>16 DEF BeginRestore, Begin, Busy, Exists, Send, rows, TypeOK, TableTypes, AnyVol,
       AnyName, ImageTypes, ImageType, GuestTypes
  <2>2. HandlerTypes'
    <3> DEFINE r == [op |-> "restore", at |-> "sent", v |-> v, s |-> None, name |-> n, t |-> None]
    <3>1. r \in RequestTypes /\ Sound(r)
      BY <1>16 DEF BeginRestore, Send, TypeOK, HandlerTypes, Pending, RequestTypes, Sound, Ops,
         Points, AnyName, AnyVol, At, Busy
    <3> QED
      BY <1>16, <3>1, HandlerSet DEF BeginRestore, Send, TypeOK, HandlerTypes, RequestTypes
  <2> QED
    BY <2>1, <2>2 DEF TypeOK
<1>17. ASSUME NEW h \in Handlers, NEW v \in Vols, NEW n \in Names, NEW t \in Vols, BeginClone(h,
            v, n, t) PROVE TypeOK'
  <2>1. ImageTypes' /\ GuestTypes'
    BY <1>17 DEF BeginClone, Begin, Busy, Exists, Send, Happens, TypeOK, ImageTypes, ImageType,
       AnyName, AnyVol, GuestTypes
  <2>2. TableTypes'
    BY <1>17 DEF BeginClone, Begin, Busy, Exists, Send, Happens, TypeOK, TableTypes, HandlerTypes,
       RequestTypes, Sound, Pending, AnyName, AnyVol
  <2>3. HandlerTypes'
    <3> DEFINE r == [op |-> "clone", at |-> "sent", v |-> v, s |-> None, name |-> n, t |-> t]
    <3>1. r \in RequestTypes /\ Sound(r)
      BY <1>17 DEF BeginClone, Send, TypeOK, HandlerTypes, Pending, RequestTypes, Sound, Ops,
         Points, AnyName, AnyVol, At, Busy
    <3> QED
      BY <1>17, <3>1, HandlerSet DEF BeginClone, Send, TypeOK, HandlerTypes, RequestTypes
  <2> QED
    BY <2>1, <2>2, <2>3 DEF TypeOK
<1>18. ASSUME NEW h \in Handlers, NEW v \in Vols, NEW n \in Names, NEW s \in Snaps,
            BeginSnapshot(h, v, s, n) PROVE TypeOK'
  <2>1. ImageTypes' /\ GuestTypes'
    BY <1>18 DEF BeginSnapshot, Begin, Busy, Exists, Send, SnapshotsOf, Pending, Happens, If,
       TypeOK, ImageTypes, ImageType, AnyName, AnyVol, GuestTypes
  <2>2. TableTypes'
    BY <1>18 DEF BeginSnapshot, Begin, Busy, Exists, Send, SnapshotsOf, Pending, Happens, If,
       TypeOK, TableTypes, HandlerTypes, RequestTypes, Sound, AnyName, AnyVol
  <2>3. HandlerTypes'
    <3> DEFINE r == [op |-> "snapshot", at |-> "sent", v |-> v, s |-> s, name |-> n, t |-> None]
    <3>1. r \in RequestTypes /\ Sound(r)
      BY <1>18 DEF BeginSnapshot, Send, TypeOK, HandlerTypes, Pending, RequestTypes, Sound, Ops,
         Points, AnyName, AnyVol, At, Busy
    <3> QED
      BY <1>18, <3>1, HandlerSet DEF BeginSnapshot, Send, TypeOK, HandlerTypes, RequestTypes
  <2> QED
    BY <2>1, <2>2, <2>3 DEF TypeOK
<1>19. ASSUME NEW h \in Handlers, NEW s \in Snaps, BeginDeleteSnapshot(h, s) PROVE TypeOK'
  <2>1. ImageTypes' /\ GuestTypes'
    BY <1>19 DEF BeginDeleteSnapshot, Begin, Busy, Stored, Exists, SnapshotsOf, Send, rows,
       TypeOK, ImageTypes, ImageType, AnyName, AnyVol, GuestTypes
  <2>2. TableTypes'
    BY <1>19 DEF BeginDeleteSnapshot, Begin, Busy, Stored, Exists, SnapshotsOf, Send, rows,
       TypeOK, TableTypes, HandlerTypes, RequestTypes, Sound, Pending, AnyName, AnyVol
  <2>3. HandlerTypes'
    <3>1. PICK v \in Stored :
             s \in SnapshotsOf(v) /\ Send(h, "unsnapshot", v, s, snapshot[s].name, None)
      BY <1>19 DEF BeginDeleteSnapshot
    <3> DEFINE r == [op |-> "unsnapshot", at |-> "sent", v |-> v, s |-> s,
                     name |-> snapshot[s].name, t |-> None]
    <3>2. snapshot[s].name \in AnyName
      BY DEF TypeOK, TableTypes
    <3>3. r \in RequestTypes /\ Sound(r)
      BY <3>1, <3>2 DEF RequestTypes, Sound, Ops, Points, AnyVol, Stored
    <3> QED
      BY <1>19, <3>1, <3>3, HandlerSet DEF BeginDeleteSnapshot, Send, rows, TypeOK, HandlerTypes
  <2> QED
    BY <2>1, <2>2, <2>3 DEF TypeOK
<1>20. ASSUME NEW a \in Apps, Deploy(a) PROVE TypeOK'
  <2>1. TableTypes' /\ ImageTypes' /\ HandlerTypes'
    BY <1>20 DEF Deploy, rows, TypeOK, TableTypes, AnyVol, AnyName, ImageTypes, ImageType,
       HandlerTypes, RequestTypes, Ops, Points, Pending, Sound
  <2>2. GuestTypes'
    BY <1>20 DEF Deploy, rows, TypeOK, GuestTypes, AnyName, AnyVol
  <2> QED
    BY <2>1, <2>2 DEF TypeOK
<1>21. ASSUME NEW a \in Apps, Boot(a) PROVE TypeOK'
  <2>1. TableTypes' /\ HandlerTypes'
    BY <1>21 DEF Boot, NoImage, Happens, If, Exists, rows, TypeOK, TableTypes, AnyVol, AnyName,
       HandlerTypes, RequestTypes, Ops, Points, Pending, Sound
  <2>2. ImageTypes'
    BY <1>21 DEF Boot, TypeOK, ImageTypes, ImageType, GuestTypes, NoImage, AnyName, AnyVol
  <2>3. GuestTypes'
    BY <1>21 DEF Boot, TypeOK, GuestTypes
  <2> QED
    BY <2>1, <2>2, <2>3 DEF TypeOK
<1>22. ASSUME NEW a \in Apps, Stop(a) PROVE TypeOK'
  <2>1. TableTypes' /\ ImageTypes' /\ HandlerTypes'
    BY <1>22 DEF Stop, rows, TypeOK, TableTypes, AnyVol, AnyName, ImageTypes, ImageType,
       HandlerTypes, RequestTypes, Ops, Points, Pending, Sound
  <2>2. GuestTypes'
    <3>1. PICK left \in {{}, guest[a].mapped} :
             guest' = [guest EXCEPT ![a].on = FALSE, ![a].mapped = left]
      BY <1>22 DEF Stop
    <3>2. left \in SUBSET Vols
      BY DEF TypeOK, GuestTypes
    <3> DEFINE g == [guest EXCEPT ![a].on = FALSE]
    <3>3. g \in [Apps -> [vols : SUBSET Vols, on : BOOLEAN, mapped : SUBSET Vols]]
      BY DEF TypeOK, GuestTypes
    <3> HIDE DEF g
    <3>4. [g EXCEPT ![a].mapped = left]
            \in [Apps -> [vols : SUBSET Vols, on : BOOLEAN, mapped : SUBSET Vols]]
      BY <3>2, <3>3
    <3> QED
      BY <3>1, <3>4 DEF GuestTypes, g
  <2> QED
    BY <2>1, <2>2 DEF TypeOK
<1>23. ASSUME NEW a \in Apps, NEW v \in Vols, Detach(a, v) PROVE TypeOK'
  <2>1. ImageTypes' /\ GuestTypes' /\ HandlerTypes'
    BY <1>23 DEF Detach, TypeOK, ImageTypes, ImageType, AnyName, AnyVol, GuestTypes, HandlerTypes,
       RequestTypes, Ops, Points, Pending, Sound
  <2>2. TableTypes'
    BY <1>23 DEF Detach, TypeOK, TableTypes, HandlerTypes, RequestTypes, Sound, Pending, AnyName,
       AnyVol
  <2> QED
    BY <2>1, <2>2 DEF TypeOK
<1>24. ASSUME NEW q \in late, ExecuteLate(q) PROVE TypeOK'
  <2>1. TableTypes' /\ GuestTypes'
    BY <1>24 DEF ExecuteLate, rows, TypeOK, TableTypes, AnyVol, AnyName, GuestTypes
  <2>2. ImageTypes'
    <3>1. q \in RequestTypes /\ Sound(q)
      BY RequestTyped DEF Pending
    <3> QED
      BY <1>24, <3>1, DoneTypes DEF ExecuteLate, ImageTypes
  <2>3. HandlerTypes'
    BY <1>24 DEF ExecuteLate, rows, TypeOK, HandlerTypes, RequestTypes, Sound, Pending, AnyName,
       AnyVol
  <2> QED
    BY <2>1, <2>2, <2>3 DEF TypeOK
<1>25. ASSUME NEW h \in Handlers, NoWorker(h) PROVE TypeOK'
  BY <1>25, RefusalTyped DEF NoWorker, rows, TypeOK, TableTypes, ImageTypes, GuestTypes
<1>26. ASSUME NEW h \in Handlers, AgentTimeout(h) PROVE TypeOK'
  BY <1>26, RefusalTyped DEF AgentTimeout, rows, TypeOK, TableTypes, ImageTypes, GuestTypes
<1>27. CASE UNCHANGED vars
  BY <1>27 DEF vars, TypeOK, TableTypes, AnyVol, AnyName, ImageTypes, ImageType, GuestTypes,
     HandlerTypes, RequestTypes, Ops, Points, Pending, Sound
<1> QED
  BY <1>1, <1>2, <1>3, <1>4, <1>5, <1>6, <1>7, <1>8, <1>9, <1>10, <1>11, <1>12, <1>13, <1>14,
     <1>15, <1>16, <1>17, <1>18, <1>19, <1>20, <1>21, <1>22, <1>23, <1>24, <1>25, <1>26, <1>27 DEF Next

(* What is known of the owners stays, where no request to attach a volume goes on and volumes are *)
(* only detached.                                                                                 *)
LEMMA OwnersStay ==
  ASSUME TypeOK, OwnersInv, events \subseteq events', late' \subseteq Pending,
         \A g \in Handlers : handler'[g] = handler[g] \/ handler'[g].op # "attach",
         \A a \in Apps, v \in Vols : attachment'[a][v] \in {attachment[a][v], "no"}
  PROVE  OwnersInv'
<1> SUFFICES ASSUME "overlap" \notin events
             PROVE  /\ \A q \in Pending' : Checked(q)'
                    /\ \A g, h \in Handlers :
                         handler'[g].op = "attach" /\ handler'[h].op = "attach"
                           /\ handler'[g].v = handler'[h].v => g = h
                    /\ OneOwner'
  BY DEF OwnersInv
<1>1. ASSUME NEW q \in Pending' PROVE Checked(q)'
  <2>1. SUFFICES ASSUME q.op = "attach" PROVE MayAttach(q.t, q.v, q.name)'
    BY DEF Checked
  <2>2. q \in Pending
    BY <1>1, <2>1 DEF Pending
  <2>3. MayAttach(q.t, q.v, q.name) /\ q.v \in Vols
    BY <2>1, <2>2 DEF OwnersInv, Checked, TypeOK, HandlerTypes, Sound
  <2> QED
    BY <2>3 DEF MayAttach, Attached, TypeOK, TableTypes
<1>2. \A g, h \in Handlers :
        handler'[g].op = "attach" /\ handler'[h].op = "attach"
          /\ handler'[g].v = handler'[h].v => g = h
  BY DEF OwnersInv
<1>3. OneOwner'
  BY DEF OwnersInv, OneOwner
<1> QED
  BY <1>1, <1>2, <1>3

(* Every step keeps what is known of the owners of volumes. *)
LEMMA OwnersKept ==
  TypeOK /\ OwnersInv /\ [Next]_vars => OwnersInv'
<1> SUFFICES ASSUME TypeOK, OwnersInv, [Next]_vars PROVE OwnersInv'
  OBVIOUS
<1>1. ASSUME NEW h \in Handlers, CheckEntitlement(h) PROVE OwnersInv'
  BY <1>1, OwnersStay DEF CheckEntitlement, Begin, Busy, Idle, rows, Pending, TypeOK, TableTypes,
     HandlerTypes, RequestTypes
<1>2. ASSUME NEW h \in Handlers, IncrementVolumes(h) PROVE OwnersInv'
  BY <1>2, OwnersStay DEF IncrementVolumes, At, Goto, Pending, TypeOK, TableTypes, HandlerTypes,
     RequestTypes
<1>3. ASSUME NEW h \in Handlers, DeleteVolume(h) PROVE OwnersInv'
  BY <1>3, OwnersStay DEF DeleteVolume, At, RemoveRow, Goto, Happens, If, Exists, Pending, TypeOK,
     TableTypes, HandlerTypes, RequestTypes
<1>4. ASSUME NEW h \in Handlers, DecrementVolumes(h) PROVE OwnersInv'
  BY <1>4, OwnersStay DEF DecrementVolumes, At, End, Idle, Pending, TypeOK, TableTypes,
     HandlerTypes, RequestTypes
<1>5. ASSUME NEW h \in Handlers, SnapshotCreated(h) PROVE OwnersInv'
  BY <1>5, OwnersStay DEF SnapshotCreated, At, End, Idle, rows, Pending, TypeOK, TableTypes,
     HandlerTypes, RequestTypes
<1>6. ASSUME NEW h \in Handlers, DeleteSnapshot(h) PROVE OwnersInv'
  BY <1>6, OwnersStay DEF DeleteSnapshot, At, End, Idle, Pending, TypeOK, TableTypes,
     HandlerTypes, RequestTypes
<1>7. ASSUME NEW h \in Handlers, Attach(h) PROVE OwnersInv'
  BY <1>7 DEF Attach, At, End, Idle, OwnersInv, OneOwner, Checked, MayAttach, Attached, Exists,
     Pending, TypeOK, TableTypes, HandlerTypes, RequestTypes, Sound
<1>8. ASSUME NEW h \in Handlers, Execute(h) PROVE OwnersInv'
  <2>1. handler[h].op # "attach"
    BY <1>8 DEF Execute, TypeOK, HandlerTypes, Sound, Pending
  <2> QED
    BY <1>8, <2>1, OwnersStay DEF Execute, Goto, rows, Pending, TypeOK, TableTypes, HandlerTypes,
       RequestTypes
<1>9. ASSUME NEW h \in Handlers, Refused(h) PROVE OwnersInv'
  BY <1>9, OwnersStay DEF Refused, RemoveRow, End, Idle, Pending, TypeOK, TableTypes,
     HandlerTypes, RequestTypes
<1>10. ASSUME NEW h \in Handlers, Accepted(h) PROVE OwnersInv'
  BY <1>10, OwnersStay DEF Accepted, End, Idle, rows, Pending, TypeOK, TableTypes, HandlerTypes,
     RequestTypes
<1>11. ASSUME NEW h \in Handlers, GiveUp(h) PROVE OwnersInv'
  BY <1>11, OwnersStay DEF GiveUp, End, Idle, Happens, rows, Pending, TypeOK, TableTypes,
     HandlerTypes, RequestTypes
<1>12. ASSUME NEW h \in Handlers, Cut(h) PROVE OwnersInv'
  BY <1>12, OwnersStay DEF Cut, End, Idle, Happens, rows, Pending, TypeOK, TableTypes,
     HandlerTypes, RequestTypes
<1>13. ASSUME NEW h \in Handlers, NEW v \in Vols, InsertVolume(h, v) PROVE OwnersInv'
  BY <1>13, OwnersStay DEF InsertVolume, At, Pending, TypeOK, TableTypes, HandlerTypes,
     RequestTypes
<1>14. ASSUME NEW h \in Handlers, NEW v \in Vols, BeginDelete(h, v) PROVE OwnersInv'
  BY <1>14, OwnersStay DEF BeginDelete, Begin, Busy, Send, Happens, If, rows, Pending, TypeOK,
     TableTypes, HandlerTypes, RequestTypes
<1>15. ASSUME NEW h \in Handlers, NEW v \in Vols, NEW a \in Apps, NEW mode \in Modes,
            ReadAttachments(h, a, v, mode) PROVE OwnersInv'
  BY <1>15 DEF ReadAttachments, Begin, Busy, Happens, If, rows, OwnersInv, OneOwner, Checked,
     MayAttach, Attached, Exists, Pending, TypeOK, TableTypes, HandlerTypes, RequestTypes, Sound
<1>16. ASSUME NEW h \in Handlers, NEW v \in Vols, NEW n \in Names, BeginRestore(h, v, n) PROVE
            OwnersInv'
  BY <1>16, OwnersStay DEF BeginRestore, Begin, Busy, Exists, Send, rows, Pending, TypeOK,
     TableTypes, HandlerTypes, RequestTypes
<1>17. ASSUME NEW h \in Handlers, NEW v \in Vols, NEW n \in Names, NEW t \in Vols, BeginClone(h,
            v, n, t) PROVE OwnersInv'
  BY <1>17, OwnersStay DEF BeginClone, Begin, Busy, Exists, Send, Happens, Pending, TypeOK,
     TableTypes, HandlerTypes, RequestTypes
<1>18. ASSUME NEW h \in Handlers, NEW v \in Vols, NEW n \in Names, NEW s \in Snaps,
            BeginSnapshot(h, v, s, n) PROVE OwnersInv'
  BY <1>18, OwnersStay DEF BeginSnapshot, Begin, Busy, Exists, Send, Happens, If, Pending, TypeOK,
     TableTypes, HandlerTypes, RequestTypes
<1>19. ASSUME NEW h \in Handlers, NEW s \in Snaps, BeginDeleteSnapshot(h, s) PROVE OwnersInv'
  BY <1>19, OwnersStay DEF BeginDeleteSnapshot, Begin, Busy, Stored, Exists, Send, rows, Pending,
     TypeOK, TableTypes, HandlerTypes, RequestTypes
<1>20. ASSUME NEW a \in Apps, Deploy(a) PROVE OwnersInv'
  BY <1>20, OwnersStay DEF Deploy, rows, Pending, TypeOK, TableTypes, HandlerTypes, RequestTypes
<1>21. ASSUME NEW a \in Apps, Boot(a) PROVE OwnersInv'
  BY <1>21, OwnersStay DEF Boot, NoImage, Happens, If, Exists, rows, Pending, TypeOK, TableTypes,
     HandlerTypes, RequestTypes
<1>22. ASSUME NEW a \in Apps, Stop(a) PROVE OwnersInv'
  BY <1>22, OwnersStay DEF Stop, rows, Pending, TypeOK, TableTypes, HandlerTypes, RequestTypes
<1>23. ASSUME NEW a \in Apps, NEW v \in Vols, Detach(a, v) PROVE OwnersInv'
  BY <1>23, OwnersStay DEF Detach, Pending, TypeOK, TableTypes, HandlerTypes, RequestTypes
<1>24. ASSUME NEW q \in late, ExecuteLate(q) PROVE OwnersInv'
  BY <1>24, OwnersStay DEF ExecuteLate, rows, Pending, TypeOK, TableTypes, HandlerTypes,
     RequestTypes
<1>25. ASSUME NEW h \in Handlers, NoWorker(h) PROVE OwnersInv'
  <2>1. handler[h].op # "attach"
    BY <1>25 DEF NoWorker, TypeOK, HandlerTypes, Sound, Pending
  <2> QED
    BY <1>25, <2>1, RefusalTyped, OwnersStay DEF NoWorker, rows, Pending, TypeOK, TableTypes
<1>26. ASSUME NEW h \in Handlers, AgentTimeout(h) PROVE OwnersInv'
  <2>1. handler[h].op # "attach"
    BY <1>26 DEF AgentTimeout, TypeOK, HandlerTypes, Sound, Pending
  <2>2. late' \subseteq Pending /\ events \subseteq events' /\ attachment' = attachment
    BY <1>26 DEF AgentTimeout, Happens, rows, Pending
  <2>3. \A g \in Handlers : handler'[g] = handler[g] \/ handler'[g].op # "attach"
    BY <1>26, <2>1, RefusalTyped DEF AgentTimeout
  <2> QED
    BY <2>2, <2>3, OwnersStay
<1>27. CASE UNCHANGED vars
  BY <1>27 DEF vars, OwnersInv, OneOwner, Checked, MayAttach, Attached, Exists, Pending, TypeOK,
     TableTypes, HandlerTypes, RequestTypes, Sound
<1> QED
  BY <1>1, <1>2, <1>3, <1>4, <1>5, <1>6, <1>7, <1>8, <1>9, <1>10, <1>11, <1>12, <1>13, <1>14,
     <1>15, <1>16, <1>17, <1>18, <1>19, <1>20, <1>21, <1>22, <1>23, <1>24, <1>25, <1>26, <1>27 DEF Next

(* What running VMs have mapped stays, where only images that no VM has mapped go. *)
LEMMA MappedStay ==
  ASSUME TypeOK, MappedInv,
         \A a \in Apps : guest'[a] = guest[a] \/ ~guest'[a].on,
         \A v \in Vols : image[v].there /\ Mapped(v) # {} => image'[v].there
  PROVE  MappedInv'
BY DEF MappedInv, Mapped, TypeOK, GuestTypes

(* Every step keeps the images of running VMs. *)
LEMMA MappedKept ==
  TypeOK /\ MappedInv /\ [Next]_vars => MappedInv'
<1> SUFFICES ASSUME TypeOK, MappedInv, [Next]_vars PROVE MappedInv'
  OBVIOUS
<1>1. ASSUME NEW h \in Handlers, CheckEntitlement(h) PROVE MappedInv'
  BY <1>1, MappedStay DEF CheckEntitlement, Begin, Busy, Idle, rows, TypeOK, GuestTypes
<1>2. ASSUME NEW h \in Handlers, IncrementVolumes(h) PROVE MappedInv'
  BY <1>2, MappedStay DEF IncrementVolumes, At, Goto, TypeOK, GuestTypes
<1>3. ASSUME NEW h \in Handlers, DeleteVolume(h) PROVE MappedInv'
  BY <1>3, MappedStay DEF DeleteVolume, At, RemoveRow, Goto, Happens, If, Exists, TypeOK,
     GuestTypes
<1>4. ASSUME NEW h \in Handlers, DecrementVolumes(h) PROVE MappedInv'
  BY <1>4, MappedStay DEF DecrementVolumes, At, End, Idle, TypeOK, GuestTypes
<1>5. ASSUME NEW h \in Handlers, SnapshotCreated(h) PROVE MappedInv'
  BY <1>5, MappedStay DEF SnapshotCreated, At, End, Idle, rows, TypeOK, GuestTypes
<1>6. ASSUME NEW h \in Handlers, DeleteSnapshot(h) PROVE MappedInv'
  BY <1>6, MappedStay DEF DeleteSnapshot, At, End, Idle, TypeOK, GuestTypes
<1>7. ASSUME NEW h \in Handlers, Attach(h) PROVE MappedInv'
  BY <1>7, MappedStay DEF Attach, At, Exists, End, Idle, TypeOK, GuestTypes
<1>8. ASSUME NEW h \in Handlers, Execute(h) PROVE MappedInv'
  <2>1. handler[h] \in RequestTypes /\ Sound(handler[h])
    BY <1>8, RequestTyped DEF Pending
  <2>2. \A v \in Vols : image[v].there /\ Mapped(v) # {} => Done(handler[h])[v].there
    BY <2>1, DoneEffect
  <2> QED
    BY <1>8, <2>2, MappedStay DEF Execute
<1>9. ASSUME NEW h \in Handlers, Refused(h) PROVE MappedInv'
  BY <1>9, MappedStay DEF Refused, RemoveRow, End, Idle, TypeOK, GuestTypes
<1>10. ASSUME NEW h \in Handlers, Accepted(h) PROVE MappedInv'
  BY <1>10, MappedStay DEF Accepted, End, Idle, rows, TypeOK, GuestTypes
<1>11. ASSUME NEW h \in Handlers, GiveUp(h) PROVE MappedInv'
  BY <1>11, MappedStay DEF GiveUp, End, Idle, Happens, rows, TypeOK, GuestTypes
<1>12. ASSUME NEW h \in Handlers, Cut(h) PROVE MappedInv'
  BY <1>12, MappedStay DEF Cut, End, Idle, Happens, rows, TypeOK, GuestTypes
<1>13. ASSUME NEW h \in Handlers, NEW v \in Vols, InsertVolume(h, v) PROVE MappedInv'
  BY <1>13, MappedStay DEF InsertVolume, At, TypeOK, GuestTypes
<1>14. ASSUME NEW h \in Handlers, NEW v \in Vols, BeginDelete(h, v) PROVE MappedInv'
  BY <1>14, MappedStay DEF BeginDelete, Begin, Busy, Send, Happens, If, rows, TypeOK, GuestTypes
<1>15. ASSUME NEW h \in Handlers, NEW v \in Vols, NEW a \in Apps, NEW mode \in Modes,
            ReadAttachments(h, a, v, mode) PROVE MappedInv'
  BY <1>15, MappedStay DEF ReadAttachments, Begin, Busy, Exists, Happens, If, rows, TypeOK,
     GuestTypes
<1>16. ASSUME NEW h \in Handlers, NEW v \in Vols, NEW n \in Names, BeginRestore(h, v, n) PROVE
            MappedInv'
  BY <1>16, MappedStay DEF BeginRestore, Begin, Busy, Exists, Send, rows, TypeOK, GuestTypes
<1>17. ASSUME NEW h \in Handlers, NEW v \in Vols, NEW n \in Names, NEW t \in Vols, BeginClone(h,
            v, n, t) PROVE MappedInv'
  BY <1>17, MappedStay DEF BeginClone, Begin, Busy, Exists, Send, Happens, TypeOK, GuestTypes
<1>18. ASSUME NEW h \in Handlers, NEW v \in Vols, NEW n \in Names, NEW s \in Snaps,
            BeginSnapshot(h, v, s, n) PROVE MappedInv'
  BY <1>18, MappedStay DEF BeginSnapshot, Begin, Busy, Exists, Send, Happens, If, TypeOK,
     GuestTypes
<1>19. ASSUME NEW h \in Handlers, NEW s \in Snaps, BeginDeleteSnapshot(h, s) PROVE MappedInv'
  BY <1>19, MappedStay DEF BeginDeleteSnapshot, Begin, Busy, Stored, Exists, Send, rows, TypeOK,
     GuestTypes
<1>20. ASSUME NEW a \in Apps, Deploy(a) PROVE MappedInv'
  BY <1>20, MappedStay DEF Deploy, rows, TypeOK, GuestTypes
<1>21. ASSUME NEW a \in Apps, Boot(a) PROVE MappedInv'
  BY <1>21 DEF Boot, MappedInv, TypeOK, GuestTypes, ImageTypes, ImageType, NoImage
<1>22. ASSUME NEW a \in Apps, Stop(a) PROVE MappedInv'
  <2>1. PICK left \in {{}, guest[a].mapped} :
          guest' = [guest EXCEPT ![a].on = FALSE, ![a].mapped = left]
    BY <1>22 DEF Stop
  <2> DEFINE g == [guest EXCEPT ![a].on = FALSE]
  <2>2. /\ DOMAIN g = Apps /\ ~g[a].on
        /\ \A b \in Apps : b # a => g[b] = guest[b]
        /\ g[a] \in [vols : SUBSET Vols, on : BOOLEAN, mapped : SUBSET Vols]
    BY DEF TypeOK, GuestTypes
  <2>3. guest' = [g EXCEPT ![a].mapped = left]
    BY <2>1
  <2> HIDE DEF g
  <2>4. \A b \in Apps : guest'[b] = guest[b] \/ ~guest'[b].on
    BY <2>2, <2>3
  <2> QED
    BY <1>22, <2>4, MappedStay DEF Stop
<1>23. ASSUME NEW a \in Apps, NEW v \in Vols, Detach(a, v) PROVE MappedInv'
  BY <1>23, MappedStay DEF Detach, TypeOK, GuestTypes
<1>24. ASSUME NEW q \in late, ExecuteLate(q) PROVE MappedInv'
  <2>1. q \in RequestTypes /\ Sound(q)
    BY <1>24, RequestTyped DEF Pending, ExecuteLate
  <2>2. \A v \in Vols : image[v].there /\ Mapped(v) # {} => Done(q)[v].there
    BY <2>1, DoneEffect
  <2> QED
    BY <1>24, <2>2, MappedStay DEF ExecuteLate
<1>25. ASSUME NEW h \in Handlers, NoWorker(h) PROVE MappedInv'
  BY <1>25, MappedStay DEF NoWorker, rows
<1>26. ASSUME NEW h \in Handlers, AgentTimeout(h) PROVE MappedInv'
  BY <1>26, MappedStay DEF AgentTimeout, rows
<1>27. CASE UNCHANGED vars
  BY <1>27 DEF vars, MappedInv
<1> QED
  BY <1>1, <1>2, <1>3, <1>4, <1>5, <1>6, <1>7, <1>8, <1>9, <1>10, <1>11, <1>12, <1>13, <1>14,
     <1>15, <1>16, <1>17, <1>18, <1>19, <1>20, <1>21, <1>22, <1>23, <1>24, <1>25, <1>26, <1>27 DEF Next

(* Requests that change no row and no image keep the order. *)
LEMMA LeftStay ==
  ASSUME TypeOK, LeftInv, events \subseteq events',
         late' = late \/ "unanswered" \in events', volume' = volume,
         \A v \in Vols : image'[v].there = image[v].there,
         \A g \in Handlers : \/ handler'[g] = handler[g]
                             \/ handler'[g].op \notin {"create", "delete", "clone"}
                             \/ handler'[g].op = "create" /\ handler'[g].at = "insert"
  PROVE  LeftInv'
<1>1. RowsFirst'
  BY DEF LeftInv, RowsFirst, Changes
<1>2. ASSUME Usual' PROVE InOrder'
  <2>1. InOrder /\ late' = {}
    BY <1>2 DEF LeftInv, Usual, InOrder
  <2>2. ImagesHaveRows'
    BY <2>1 DEF InOrder, ImagesHaveRows, Exists
  <2>3. OneChanger'
    BY <2>1 DEF InOrder, OneChanger, Changes
  <2>4. ASSUME NEW h \in Handlers PROVE Progress(h)'
    <3>1. CASE handler'[h] = handler[h]
      <4>1. Progress(h)
        BY <2>1 DEF InOrder
      <4>2. handler[h].op # "none" /\ handler[h].at # "insert" => handler[h].v \in Vols
        BY DEF TypeOK, HandlerTypes, Sound, Pending
      <4>3. handler[h].op = "clone" => handler[h].t \in Vols
        BY DEF TypeOK, HandlerTypes, Sound, Pending
      <4> QED
        BY <3>1, <4>1, <4>2, <4>3 DEF Progress, At, Exists
    <3>2. CASE handler'[h] # handler[h]
      BY <3>2 DEF Progress, At
    <3> QED
      BY <3>1, <3>2
  <2> QED
    BY <2>1, <2>2, <2>3, <2>4 DEF InOrder
<1> QED
  BY <1>1, <1>2 DEF LeftInv

(* The row of a volume that nobody else changes, and that has no image, may go. *)
LEMMA RowMayGo ==
  ASSUME TypeOK, LeftInv, NEW h \in Handlers, NEW v \in Vols, Changes(h, v), RemoveRow(v),
         Usual => ~image[v].there, events \subseteq events', late' = late, image' = image,
         \A g \in Handlers : g # h => handler'[g] = handler[g],
         \A w \in Vols : Changes(h, w)' => Changes(h, w),
         Progress(h)'
  PROVE  LeftInv'
<1>0. \A w \in Vols : /\ volume[w] # "none" => volume'[w] # "none"
                      /\ w # v => volume'[w] = volume[w]
  BY DEF RemoveRow, TypeOK, TableTypes
<1>1. RowsFirst'
  BY <1>0 DEF LeftInv, RowsFirst, Changes, TypeOK
<1>2. ASSUME Usual' PROVE InOrder'
  <2>1. InOrder /\ late' = {} /\ ~image[v].there
    BY <1>2 DEF LeftInv, Usual, InOrder
  <2>2. ImagesHaveRows'
    BY <2>1, <1>0 DEF InOrder, ImagesHaveRows, Exists, TypeOK
  <2>3. OneChanger'
    BY <2>1 DEF InOrder, OneChanger, Changes
  <2>4. ASSUME NEW g \in Handlers PROVE Progress(g)'
    <3>1. CASE g = h
      BY <3>1
    <3>2. CASE g # h
      <4>1. Progress(g) /\ handler'[g] = handler[g] /\ ~Changes(g, v)
        BY <2>1, <3>2 DEF InOrder, OneChanger
      <4>2. handler[g].op = "create" /\ handler[g].at # "insert" => handler[g].v \in Vols
        BY DEF TypeOK, HandlerTypes, Sound, Pending
      <4>3. handler[g].op = "clone" => handler[g].t \in Vols
        BY DEF TypeOK, HandlerTypes, Sound, Pending
      <4> QED
        BY <4>1, <4>2, <4>3, <1>0 DEF Progress, At, Exists, Changes, TypeOK
    <3> QED
      BY <3>1, <3>2
  <2> QED
    BY <2>1, <2>2, <2>3, <2>4 DEF InOrder
<1> QED
  BY <1>1, <1>2 DEF LeftInv

(* Every step keeps what is known of images and rows. *)
LEMMA LeftKept ==
  TypeOK /\ LeftInv /\ [Next]_vars => LeftInv'
<1> SUFFICES ASSUME TypeOK, LeftInv, [Next]_vars PROVE LeftInv'
  OBVIOUS
<1>1. ASSUME NEW h \in Handlers, CheckEntitlement(h) PROVE LeftInv'
  BY <1>1, LeftStay DEF CheckEntitlement, Begin, Busy, Idle, rows, TypeOK, HandlerTypes,
     RequestTypes
<1>2. ASSUME NEW h \in Handlers, IncrementVolumes(h) PROVE LeftInv'
  <2>1. RowsFirst'
    BY <1>2 DEF IncrementVolumes, Goto, At, LeftInv, RowsFirst, Changes, TypeOK, HandlerTypes,
       RequestTypes
  <2>2. ASSUME Usual' PROVE InOrder'
    <3>1. InOrder
      BY <1>2, <2>2 DEF IncrementVolumes, LeftInv, Usual
    <3>2. late' = {} /\ ImagesHaveRows'
      BY <1>2, <3>1 DEF IncrementVolumes, InOrder, ImagesHaveRows, Exists
    <3>3. OneChanger'
      BY <1>2, <3>1 DEF IncrementVolumes, Goto, At, InOrder, OneChanger, Changes, TypeOK,
         HandlerTypes, RequestTypes
    <3>4. ASSUME NEW g \in Handlers PROVE Progress(g)'
      BY <1>2, <3>1 DEF IncrementVolumes, Goto, InOrder, Progress, At, Exists, TypeOK,
         HandlerTypes, RequestTypes
    <3> QED
      BY <3>2, <3>3, <3>4 DEF InOrder
  <2> QED
    BY <2>1, <2>2 DEF LeftInv
<1>3. ASSUME NEW h \in Handlers, DeleteVolume(h) PROVE LeftInv'
  <2> DEFINE v == handler[h].v
  <2>1. v \in Vols /\ RemoveRow(v) /\ Changes(h, v)
    BY <1>3 DEF DeleteVolume, At, Changes, TypeOK, HandlerTypes, Sound, Pending
  <2>2. Usual => ~image[v].there
    BY <1>3 DEF DeleteVolume, LeftInv, InOrder, Progress
  <2>3. /\ events \subseteq events' /\ late' = late /\ image' = image
        /\ \A g \in Handlers : g # h => handler'[g] = handler[g]
    BY <1>3 DEF DeleteVolume, Happens, Goto, TypeOK, HandlerTypes
  <2>4. (\A w \in Vols : Changes(h, w)' => Changes(h, w)) /\ Progress(h)'
    BY <1>3 DEF DeleteVolume, Goto, At, Changes, Progress, TypeOK, HandlerTypes, RequestTypes
  <2> QED
    BY <2>1, <2>2, <2>3, <2>4, RowMayGo
<1>4. ASSUME NEW h \in Handlers, DecrementVolumes(h) PROVE LeftInv'
  BY <1>4, LeftStay DEF DecrementVolumes, At, End, Idle, TypeOK, HandlerTypes, RequestTypes
<1>5. ASSUME NEW h \in Handlers, SnapshotCreated(h) PROVE LeftInv'
  BY <1>5, LeftStay DEF SnapshotCreated, At, End, Idle, rows, TypeOK, HandlerTypes, RequestTypes
<1>6. ASSUME NEW h \in Handlers, DeleteSnapshot(h) PROVE LeftInv'
  BY <1>6, LeftStay DEF DeleteSnapshot, At, End, Idle, TypeOK, HandlerTypes, RequestTypes
<1>7. ASSUME NEW h \in Handlers, Attach(h) PROVE LeftInv'
  BY <1>7, LeftStay DEF Attach, At, Exists, End, Idle, TypeOK, HandlerTypes, RequestTypes
<1>8. ASSUME NEW h \in Handlers, Execute(h) PROVE LeftInv'
  <2> DEFINE q == handler[h]
  <2>1. q \in RequestTypes /\ Sound(q) /\ q.at = "sent"
    BY <1>8, RequestTyped DEF Execute, Pending
  <2>2. /\ volume' = volume /\ late' = late /\ events' = events /\ image' = Done(q)
        /\ handler' \in [Handlers -> RequestTypes]
        /\ \A g \in Handlers : g # h => handler'[g] = handler[g]
        /\ handler'[h].op = q.op /\ handler'[h].v = q.v /\ handler'[h].t = q.t
        /\ handler'[h].at = IF Succeeds(q) THEN "ok" ELSE "refused"
    BY <1>8, <2>1, TypesKept DEF Execute, Goto, rows, TypeOK, HandlerTypes, RequestTypes, Next
  <2>3. CASE q.op \notin {"create", "delete", "clone"}
    <3>1. \A v \in Vols : image'[v].there = image[v].there
      BY <2>1, <2>2, <2>3, DoneEffect, DoneTypes DEF TypeOK, ImageTypes, ImageType
    <3> QED
      BY <2>2, <2>3, <3>1, LeftStay
  <2>4. CASE q.op \in {"create", "delete", "clone"}
    <3> DEFINE v == IF q.op = "clone" THEN q.t ELSE q.v
    <3>1. v \in Vols /\ Changes(h, v)
      BY <2>1, <2>4 DEF Sound, Changes
    <3>2. RowsFirst'
      BY <2>1, <2>2 DEF LeftInv, RowsFirst, Changes
    <3>3. ASSUME Usual' PROVE InOrder'
      <4>1. InOrder
        BY <2>2, <3>3 DEF LeftInv, Usual
      <4>2. late' = {} /\ OneChanger'
        BY <2>1, <2>2, <4>1 DEF InOrder, OneChanger, Changes
      <4>3. Progress(h)
        BY <4>1 DEF InOrder
      <4>4. \A w \in Vols : w # v => Done(q)[w].there = image[w].there
        BY <2>1, <2>4, DoneEffect, DoneTypes DEF TypeOK, ImageTypes, ImageType
      <4>5. Done(q)[v].there /\ ~image[v].there => Exists(v)
        BY <2>1, <2>4, <3>1, <4>3, DoneEffect DEF Progress, At
      <4>6. ImagesHaveRows'
        BY <2>2, <4>1, <4>4, <4>5 DEF InOrder, ImagesHaveRows, Exists
      <4>7. Progress(h)'
        BY <2>1, <2>2, <2>4, <3>1, <4>3, DoneEffect DEF Progress, At, Exists
      <4>8. ASSUME NEW g \in Handlers, g # h PROVE Progress(g)'
        <5>1. Progress(g) /\ ~Changes(g, v) /\ handler'[g] = handler[g]
          BY <2>2, <3>1, <4>1, <4>8 DEF InOrder, OneChanger
        <5>2. handler[g].op \in {"create", "delete"} /\ handler[g].at # "insert" =>
             handler[g].v \in Vols
          BY DEF TypeOK, HandlerTypes, Sound, Pending
        <5>3. handler[g].op = "clone" => handler[g].t \in Vols
          BY DEF TypeOK, HandlerTypes, Sound, Pending
        <5> QED
          BY <2>2, <4>4, <5>1, <5>2, <5>3 DEF Progress, At, Exists, Changes
      <4> QED
        BY <4>2, <4>6, <4>7, <4>8 DEF InOrder
    <3> QED
      BY <3>2, <3>3 DEF LeftInv
  <2> QED
    BY <2>3, <2>4
<1>9. ASSUME NEW h \in Handlers, Refused(h) PROVE LeftInv'
  <2>1. CASE handler[h].op = "clone"
    <3> DEFINE v == handler[h].t
    <3>1. v \in Vols /\ RemoveRow(v) /\ Changes(h, v)
      BY <1>9, <2>1 DEF Refused, Changes, TypeOK, HandlerTypes, Sound, Pending
    <3>2. Usual => ~image[v].there
      BY <1>9, <2>1 DEF Refused, LeftInv, InOrder, Progress, At
    <3>3. /\ events \subseteq events' /\ late' = late /\ image' = image
          /\ \A g \in Handlers : g # h => handler'[g] = handler[g]
      BY <1>9 DEF Refused, End, TypeOK, HandlerTypes
    <3>4. (\A w \in Vols : Changes(h, w)' => Changes(h, w)) /\ Progress(h)'
      BY <1>9 DEF Refused, End, Idle, At, Changes, Progress, TypeOK, HandlerTypes
    <3> QED
      BY <3>1, <3>2, <3>3, <3>4, RowMayGo
  <2>2. CASE handler[h].op # "clone"
    BY <1>9, <2>2, LeftStay DEF Refused, End, Idle, TypeOK, HandlerTypes, RequestTypes
  <2> QED
    BY <2>1, <2>2
<1>10. ASSUME NEW h \in Handlers, Accepted(h) PROVE LeftInv'
  BY <1>10, LeftStay DEF Accepted, End, Idle, rows, TypeOK, HandlerTypes, RequestTypes
<1>11. ASSUME NEW h \in Handlers, GiveUp(h) PROVE LeftInv'
  BY <1>11, LeftStay DEF GiveUp, End, Idle, Happens, rows, TypeOK, HandlerTypes, RequestTypes
<1>12. ASSUME NEW h \in Handlers, Cut(h) PROVE LeftInv'
  BY <1>12, LeftStay DEF Cut, End, Idle, Happens, rows, TypeOK, HandlerTypes, RequestTypes
<1>13. ASSUME NEW h \in Handlers, NEW v \in Vols, InsertVolume(h, v) PROVE LeftInv'
  <2>1. RowsFirst'
    BY <1>13 DEF InsertVolume, LeftInv, RowsFirst, Changes, At, TypeOK, TableTypes, HandlerTypes,
       RequestTypes
  <2>2. ASSUME Usual' PROVE InOrder'
    <3>1. InOrder /\ late' = {} /\ image' = image
      BY <1>13, <2>2 DEF InsertVolume, LeftInv, Usual, InOrder, Happens
    <3>2. \A g \in Handlers : ~Changes(g, v)
      BY <1>13, <2>2 DEF InsertVolume, LeftInv, RowsFirst, Changes
    <3>3. ImagesHaveRows'
      BY <1>13, <3>1 DEF InsertVolume, InOrder, ImagesHaveRows, Exists, TypeOK, TableTypes
    <3>4. OneChanger'
      BY <1>13, <3>1, <3>2 DEF InsertVolume, At, InOrder, OneChanger, Changes, TypeOK,
         HandlerTypes, RequestTypes
    <3>5. ASSUME NEW g \in Handlers PROVE Progress(g)'
      BY <1>13, <3>1, <3>2 DEF InsertVolume, At, InOrder, ImagesHaveRows, Progress, Exists,
         Changes, TypeOK, TableTypes, HandlerTypes, RequestTypes, Sound, Pending
    <3> QED
      BY <3>1, <3>3, <3>4, <3>5 DEF InOrder
  <2> QED
    BY <2>1, <2>2 DEF LeftInv
<1>14. ASSUME NEW h \in Handlers, NEW v \in Vols, BeginDelete(h, v) PROVE LeftInv'
  <2>1. RowsFirst'
    BY <1>14 DEF BeginDelete, rows, LeftInv, RowsFirst, Changes, Begin, Busy, Send, Deletable,
       Exists, TypeOK, TableTypes, HandlerTypes, RequestTypes
  <2>2. ASSUME Usual' PROVE InOrder'
    <3>1. InOrder /\ late' = {} /\ image' = image
      BY <1>14, <2>2 DEF BeginDelete, rows, LeftInv, Usual, InOrder, Happens
    <3>2. \A g \in Handlers : ~Changes(g, v)
      BY <1>14, <2>2 DEF BeginDelete, rows, LeftInv, RowsFirst, Usual, Happens, If, Changing,
         Changes, Pending
    <3>3. ImagesHaveRows'
      BY <1>14, <3>1 DEF BeginDelete, rows, InOrder, ImagesHaveRows, Exists, TypeOK, TableTypes
    <3>4. OneChanger'
      BY <1>14, <3>1, <3>2 DEF BeginDelete, rows, Begin, Busy, Send, Deletable, Exists, InOrder,
         OneChanger, Changes, TypeOK, HandlerTypes, RequestTypes
    <3>5. ASSUME NEW g \in Handlers PROVE Progress(g)'
      BY <1>14, <3>1, <3>2 DEF BeginDelete, rows, Begin, Busy, Send, Deletable, Exists, InOrder,
         ImagesHaveRows, Progress, At, Changes, TypeOK, TableTypes, HandlerTypes, RequestTypes,
         Sound, Pending
    <3> QED
      BY <3>1, <3>3, <3>4, <3>5 DEF InOrder
  <2> QED
    BY <2>1, <2>2 DEF LeftInv
<1>15. ASSUME NEW h \in Handlers, NEW v \in Vols, NEW a \in Apps, NEW mode \in Modes,
            ReadAttachments(h, a, v, mode) PROVE LeftInv'
  BY <1>15, LeftStay DEF ReadAttachments, Begin, Busy, Exists, Happens, If, rows, TypeOK,
     HandlerTypes, RequestTypes
<1>16. ASSUME NEW h \in Handlers, NEW v \in Vols, NEW n \in Names, BeginRestore(h, v, n) PROVE
            LeftInv'
  BY <1>16, LeftStay DEF BeginRestore, Begin, Busy, Exists, Send, rows, TypeOK, HandlerTypes,
     RequestTypes
<1>17. ASSUME NEW h \in Handlers, NEW v \in Vols, NEW n \in Names, NEW t \in Vols, BeginClone(h,
            v, n, t) PROVE LeftInv'
  <2>1. RowsFirst'
    BY <1>17 DEF BeginClone, LeftInv, RowsFirst, Changes, Begin, Busy, Send, TypeOK, TableTypes,
       HandlerTypes, RequestTypes
  <2>2. ASSUME Usual' PROVE InOrder'
    <3>1. InOrder /\ late' = {} /\ image' = image
      BY <1>17, <2>2 DEF BeginClone, LeftInv, Usual, InOrder, Happens
    <3>2. \A g \in Handlers : ~Changes(g, t)
      BY <1>17, <2>2 DEF BeginClone, LeftInv, RowsFirst, Changes
    <3>3. ImagesHaveRows'
      BY <1>17, <3>1 DEF BeginClone, InOrder, ImagesHaveRows, Exists, TypeOK, TableTypes
    <3>4. OneChanger'
      BY <1>17, <3>1, <3>2 DEF BeginClone, Begin, Busy, Send, InOrder, OneChanger, Changes,
         TypeOK, HandlerTypes, RequestTypes
    <3>5. ASSUME NEW g \in Handlers PROVE Progress(g)'
      BY <1>17, <3>1, <3>2 DEF BeginClone, Begin, Busy, Send, InOrder, ImagesHaveRows, Progress,
         At, Exists, Changes, TypeOK, TableTypes, HandlerTypes, RequestTypes, Sound, Pending
    <3> QED
      BY <3>1, <3>3, <3>4, <3>5 DEF InOrder
  <2> QED
    BY <2>1, <2>2 DEF LeftInv
<1>18. ASSUME NEW h \in Handlers, NEW v \in Vols, NEW n \in Names, NEW s \in Snaps,
            BeginSnapshot(h, v, s, n) PROVE LeftInv'
  BY <1>18, LeftStay DEF BeginSnapshot, Begin, Busy, Exists, Send, Happens, If, TypeOK,
     HandlerTypes, RequestTypes
<1>19. ASSUME NEW h \in Handlers, NEW s \in Snaps, BeginDeleteSnapshot(h, s) PROVE LeftInv'
  BY <1>19, LeftStay DEF BeginDeleteSnapshot, Begin, Busy, Stored, Exists, Send, rows, TypeOK,
     HandlerTypes, RequestTypes
<1>20. ASSUME NEW a \in Apps, Deploy(a) PROVE LeftInv'
  BY <1>20, LeftStay DEF Deploy, rows, TypeOK, HandlerTypes, RequestTypes
<1>21. ASSUME NEW a \in Apps, Boot(a) PROVE LeftInv'
  <2> DEFINE missing == {v \in guest[a].vols : ~image[v].there}
  <2>1. /\ volume' = volume /\ handler' = handler /\ late' = late /\ events \subseteq events'
        /\ \A v \in Vols : image'[v].there <=> (v \in missing \/ image[v].there)
    BY <1>21 DEF Boot, rows, Happens, NoImage
  <2>2. RowsFirst'
    BY <2>1 DEF LeftInv, RowsFirst, Changes
  <2>3. ASSUME Usual' PROVE InOrder'
    <3>1. InOrder
      BY <2>1, <2>3 DEF LeftInv, Usual
    <3>2. \A v \in missing : Exists(v) /\ ~Changing(v)
      BY <1>21, <2>3 DEF Boot, Happens, If, Usual
    <3>3. \A v \in missing, g \in Handlers : ~Changes(g, v)
      BY <3>2 DEF Changing, Changes, Pending
    <3>4. late' = {} /\ ImagesHaveRows' /\ OneChanger'
      BY <2>1, <3>1, <3>2 DEF InOrder, ImagesHaveRows, Exists, OneChanger, Changes
    <3>5. ASSUME NEW g \in Handlers PROVE Progress(g)'
      <4>1. Progress(g)
        BY <3>1 DEF InOrder
      <4>2. handler[g].op \in {"create", "delete"} /\ handler[g].at # "insert" =>
             handler[g].v \in Vols
        BY DEF TypeOK, HandlerTypes, Sound, Pending
      <4>3. handler[g].op = "clone" => handler[g].t \in Vols
        BY DEF TypeOK, HandlerTypes, Sound, Pending
      <4> QED
        BY <2>1, <3>3, <4>1, <4>2, <4>3 DEF Progress, At, Exists, Changes
    <3> QED
      BY <3>4, <3>5 DEF InOrder
  <2> QED
    BY <2>2, <2>3 DEF LeftInv
<1>22. ASSUME NEW a \in Apps, Stop(a) PROVE LeftInv'
  BY <1>22, LeftStay DEF Stop, rows, TypeOK, HandlerTypes, RequestTypes
<1>23. ASSUME NEW a \in Apps, NEW v \in Vols, Detach(a, v) PROVE LeftInv'
  BY <1>23, LeftStay DEF Detach, TypeOK, HandlerTypes, RequestTypes
<1>24. ASSUME NEW q \in late, ExecuteLate(q) PROVE LeftInv'
  <2>1. RowsFirst'
    BY <1>24 DEF ExecuteLate, rows, LeftInv, RowsFirst, Changes
  <2>2. ~Usual'
    BY <1>24 DEF ExecuteLate, LeftInv, InOrder, Usual
  <2> QED
    BY <2>1, <2>2 DEF LeftInv
<1>25. ASSUME NEW h \in Handlers, NoWorker(h) PROVE LeftInv'
  <2>1. /\ volume' = volume /\ late' = late /\ events' = events /\ image' = image
        /\ handler[h].at = "sent" /\ handler'[h].at = "refused"
        /\ \A g \in Handlers : g # h => handler'[g] = handler[g]
        /\ handler'[h].op = handler[h].op /\ handler'[h].v = handler[h].v
        /\ handler'[h].t = handler[h].t
    BY <1>25, RefusalTyped DEF NoWorker, rows
  <2>2. \A g \in Handlers, v \in Vols : Changes(g, v)' => Changes(g, v)
    BY <2>1 DEF Changes
  <2>3. RowsFirst'
    BY <2>1, <2>2 DEF LeftInv, RowsFirst
  <2>4. ASSUME Usual' PROVE InOrder'
    <3>1. InOrder
      BY <2>1, <2>4 DEF LeftInv, Usual
    <3>2. late' = {} /\ OneChanger' /\ ImagesHaveRows'
      BY <2>1, <2>2, <3>1 DEF InOrder, OneChanger, ImagesHaveRows, Exists
    <3>3. ASSUME NEW g \in Handlers PROVE Progress(g)'
      <4>1. Progress(g)
        BY <3>1 DEF InOrder
      <4> QED
        BY <2>1, <4>1 DEF Progress, At, Exists
    <3> QED
      BY <3>2, <3>3 DEF InOrder
  <2> QED
    BY <2>3, <2>4 DEF LeftInv
<1>26. ASSUME NEW h \in Handlers, AgentTimeout(h) PROVE LeftInv'
  <2>1. /\ volume' = volume /\ "unanswered" \in events' /\ handler[h].at = "sent"
        /\ \A g \in Handlers : g # h => handler'[g] = handler[g]
        /\ handler'[h].op = handler[h].op /\ handler'[h].v = handler[h].v
        /\ handler'[h].t = handler[h].t
    BY <1>26, RefusalTyped DEF AgentTimeout, Happens, rows
  <2>2. \A g \in Handlers, v \in Vols : Changes(g, v)' => Changes(g, v)
    BY <2>1 DEF Changes
  <2>3. RowsFirst' /\ ~Usual'
    BY <2>1, <2>2 DEF LeftInv, RowsFirst, Usual
  <2> QED
    BY <2>3 DEF LeftInv
<1>27. CASE UNCHANGED vars
  BY <1>27 DEF vars, LeftInv, RowsFirst, InOrder, ImagesHaveRows, OneChanger, Progress, At,
     Changes, Usual, Exists
<1> QED
  BY <1>1, <1>2, <1>3, <1>4, <1>5, <1>6, <1>7, <1>8, <1>9, <1>10, <1>11, <1>12, <1>13, <1>14,
     <1>15, <1>16, <1>17, <1>18, <1>19, <1>20, <1>21, <1>22, <1>23, <1>24, <1>25, <1>26, <1>27 DEF Next

(* What the rows say stays, where rows and promises stay and no new request is about a snapshot. *)
LEMMA SnapshotsStay ==
  ASSUME TypeOK, SnapshotsInv, events \subseteq events', snapshot' = snapshot,
         promised' = promised,
         \A v \in Vols : volume[v] # "none" => volume'[v] # "none",
         \A v \in Vols : image'[v].snaps = image[v].snaps
                       /\ (image[v].there => image'[v].there),
         \A q \in Pending' :
           \/ q \in Pending \/ q.op \notin {"snapshot", "unsnapshot", "delete", "clone"}
           \/ q.op = "delete" /\ SnapshotsOf(q.v) = {}
  PROVE  SnapshotsInv'
<1>1. \A q \in Pending' : Asks(q)'
  BY DEF SnapshotsInv, Asks, Wanted
<1>2. RowsKnown' /\ NoneWithoutImage'
  BY DEF SnapshotsInv, RowsKnown, NoneWithoutImage
<1>3. ASSUME Orderly' PROVE Neat'
  <2>1. Neat
    BY <1>3 DEF SnapshotsInv, Orderly
  <2>2. \A s \in Snaps : Kept(s) => Kept(s)'
    BY DEF SnapshotsInv, RowsKnown, Kept
  <2>3. ASSUME NEW q \in Pending' PROVE Owner(q)' /\ Harmless(q)'
    <3>1. CASE q \in Pending
      <4>1. Owner(q) /\ Harmless(q) /\ (q.op = "snapshot" => q.s \in Snaps)
        BY <2>1, <3>1 DEF Neat, TypeOK, HandlerTypes, Sound
      <4> QED
        BY <2>2, <4>1 DEF Owner, Harmless, Wanted, SnapshotsOf
    <3>2. CASE q.op \notin {"snapshot", "unsnapshot", "delete", "clone"}
      BY <3>2 DEF Owner, Harmless
    <3>3. CASE q.op = "delete" /\ SnapshotsOf(q.v) = {}
      BY <3>3 DEF Owner, Harmless, SnapshotsOf
    <3> QED
      BY <2>3, <3>1, <3>2, <3>3
  <2>4. OneOfAName' /\ Promises'
    BY <2>1, <2>2 DEF Neat, OneOfAName, Promises
  <2> QED
    BY <2>3, <2>4 DEF Neat
<1> QED
  BY <1>1, <1>2, <1>3 DEF SnapshotsInv

(* What a request does to the images takes no data of a snapshot that is wanted. *)
LEMMA DoneKeeps ==
  ASSUME TypeOK, SnapshotsInv, Orderly, NEW q \in Pending, NEW s \in Snaps, Wanted(s), Kept(s)
  PROVE  snapshot[s].name \in Done(q)[snapshot[s].vol].snaps
<1> DEFINE v == snapshot[s].vol
           n == snapshot[s].name
<1>1. v \in Vols /\ n \in image[v].snaps /\ s \in SnapshotsOf(v) /\ image[v].there
  BY DEF SnapshotsInv, RowsKnown, NoneWithoutImage, Kept, SnapshotsOf
<1>2. q \in RequestTypes /\ Sound(q) /\ Harmless(q)
  BY RequestTyped DEF SnapshotsInv, Neat
<1>3. q.op = "delete" => q.v # v
  BY <1>1, <1>2 DEF Harmless
<1>4. q.op = "unsnapshot" /\ q.v = v => q.name # n
  BY <1>1, <1>2 DEF Harmless
<1> HIDE DEF v, n
<1>5. n \notin image[v].snaps \ Done(q)[v].snaps
  BY <1>1, <1>2, <1>3, <1>4, DoneEffect
<1> QED
  BY <1>1, <1>5 DEF v, n

(* An agent that carries out a request keeps what the rows say. *)
LEMMA SnapshotsAfterDone ==
  ASSUME TypeOK, SnapshotsInv, NEW q \in Pending, image' = Done(q), volume' = volume,
         snapshot' = snapshot, promised' = promised, events' = events,
         \A p \in Pending' :
           \/ p \in Pending
           \/ /\ p.op = q.op /\ p.v = q.v /\ p.s = q.s /\ p.name = q.name /\ p.t = q.t
              /\ p.at = IF Succeeds(q) THEN "ok" ELSE "refused"
  PROVE  SnapshotsInv'
<1>1. q \in RequestTypes /\ Sound(q)
  BY RequestTyped
<1>2. \A p \in Pending' : Asks(p)'
  BY DEF SnapshotsInv, Asks, Wanted
<1>3. RowsKnown'
  BY DEF SnapshotsInv, RowsKnown
<1>4. ASSUME NEW v \in Vols, ~Done(q)[v].there PROVE Done(q)[v].snaps = {}
  <2>1. ~image[v].there => image[v].snaps = {}
    BY DEF SnapshotsInv, NoneWithoutImage
  <2>2. CASE image[v].snaps = {}
    BY <1>1, <1>4, <2>2, DoneEffect
  <2>3. CASE image[v].there /\ image[v].snaps # {}
    BY <1>1, <1>4, <2>3, DoneEffect
  <2> QED
    BY <2>1, <2>2, <2>3
<1>5. NoneWithoutImage'
  BY <1>4 DEF NoneWithoutImage
<1>6. ASSUME Orderly' PROVE Neat'
  <2>1. Orderly /\ Neat
    BY <1>6 DEF SnapshotsInv, Orderly
  <2>2. \A s \in Snaps : Wanted(s) /\ Kept(s) => Kept(s)'
    BY <2>1, DoneKeeps DEF Kept
  <2>3. ASSUME NEW p \in Pending' PROVE Owner(p)' /\ Harmless(p)'
    <3>1. CASE p \in Pending
      <4>1. Owner(p) /\ Harmless(p) /\ (p.op = "snapshot" => p.s \in Snaps)
        BY <2>1, <3>1 DEF Neat, TypeOK, HandlerTypes, Sound
      <4> QED
        BY <2>2, <4>1 DEF Owner, Harmless, Wanted, Kept, SnapshotsOf
    <3>2. CASE p \notin Pending
      <4>1. Owner(q) /\ Harmless(q) /\ Asks(q)
        BY <2>1 DEF Neat, SnapshotsInv
      <4>2. Harmless(p)'
        BY <3>2, <4>1 DEF Harmless, Wanted, SnapshotsOf
      <4>3. ASSUME q.op = "snapshot", Succeeds(q) PROVE q.name \in Done(q)[q.v].snaps
        BY <1>1, <4>3, DoneEffect DEF Sound
      <4>4. Owner(p)'
        BY <3>2, <4>1, <4>3 DEF Owner, Asks, Wanted, Kept
      <4> QED
        BY <4>2, <4>4
    <3> QED
      BY <3>1, <3>2
  <2>4. OneOfAName' /\ Promises'
    BY <2>1, <2>2 DEF Neat, OneOfAName, Promises, Wanted
  <2> QED
    BY <2>3, <2>4 DEF Neat
<1> QED
  BY <1>2, <1>3, <1>5, <1>6 DEF SnapshotsInv

(* A request that is refused, and nothing is done of it, changes nothing of what the rows say. *)
LEMMA SnapshotsRefused ==
  ASSUME TypeOK, SnapshotsInv, NEW h \in Handlers, image' = image, volume' = volume,
         snapshot' = snapshot, promised' = promised, events \subseteq events',
         \A q \in Pending' : q \in Pending \/ q = [handler[h] EXCEPT !.at = "refused"]
  PROVE  SnapshotsInv'
<1> DEFINE r == [handler[h] EXCEPT !.at = "refused"]
<1>1. handler[h] \in Pending /\ handler[h] \in RequestTypes
  BY RequestTyped DEF Pending
<1>2. /\ r.op = handler[h].op /\ r.v = handler[h].v /\ r.s = handler[h].s
      /\ r.name = handler[h].name /\ r.t = handler[h].t /\ r.at = "refused"
  BY <1>1 DEF RequestTypes
<1>3. \A q \in Pending' : q \in Pending \/ q = r
  OBVIOUS
<1> HIDE DEF r
<1>4. \A q \in Pending' : Asks(q)'
  BY <1>1, <1>2, <1>3 DEF SnapshotsInv, Asks, Wanted
<1>5. RowsKnown' /\ NoneWithoutImage'
  BY DEF SnapshotsInv, RowsKnown, NoneWithoutImage
<1>6. ASSUME Orderly' PROVE Neat'
  <2>1. Neat
    BY <1>6 DEF SnapshotsInv, Orderly
  <2>2. \A q \in Pending' : Owner(q)' /\ Harmless(q)'
    BY <1>1, <1>2, <1>3, <2>1 DEF Neat, Owner, Harmless, Wanted, Kept, SnapshotsOf
  <2>3. OneOfAName' /\ Promises'
    BY <2>1 DEF Neat, OneOfAName, Promises, Kept
  <2> QED
    BY <2>2, <2>3 DEF Neat
<1> QED
  BY <1>4, <1>5, <1>6 DEF SnapshotsInv

(* The row of a volume whose snapshots nobody has may go. *)
LEMMA SnapshotsWithoutRow ==
  ASSUME TypeOK, SnapshotsInv, NEW v \in Vols, RemoveRow(v), events \subseteq events',
         Orderly => SnapshotsOf(v) = {}, image' = image, promised' = promised,
         \A q \in Pending' :
           \/ q \in Pending \/ q.op \notin {"snapshot", "unsnapshot", "delete", "clone"}
           \/ q.op = "delete" /\ q.v = v
  PROVE  SnapshotsInv'
<1>1. \A w \in Vols : volume[w] # "none" => volume'[w] # "none"
  BY DEF RemoveRow, TypeOK, TableTypes
<1>2. SnapshotsOf(v) = {} => snapshot' = snapshot
  BY DEF RemoveRow, TypeOK, TableTypes
<1>3. CASE Orderly
  BY <1>1, <1>2, <1>3, SnapshotsStay
<1>4. CASE ~Orderly
  <2>1. \A s \in Snaps : /\ snapshot'[s].vol = snapshot[s].vol
                         /\ snapshot'[s].name = snapshot[s].name
                         /\ snapshot[s].st = "none" <=> snapshot'[s].st = "none"
    BY DEF RemoveRow, SnapshotsOf, TypeOK, TableTypes
  <2>2. ASSUME NEW q \in Pending' PROVE Asks(q)'
    <3>1. CASE q \in Pending
      <4>1. Asks(q) /\ (q.op \in {"snapshot", "unsnapshot"} => q.s \in Snaps)
        BY <3>1 DEF SnapshotsInv, TypeOK, HandlerTypes, Sound
      <4> QED
        BY <2>1, <4>1 DEF Asks, Wanted
    <3>2. CASE q \notin Pending
      BY <3>2 DEF Asks
    <3> QED
      BY <3>1, <3>2
  <2>3. RowsKnown'
    BY <1>1, <2>1 DEF SnapshotsInv, RowsKnown
  <2>4. NoneWithoutImage' /\ ~Orderly'
    BY <1>4 DEF SnapshotsInv, NoneWithoutImage, Orderly
  <2> QED
    BY <2>2, <2>3, <2>4 DEF SnapshotsInv
<1> QED
  BY <1>3, <1>4

(* Every step keeps what is known of snapshots. *)
LEMMA SnapshotsKept ==
  TypeOK /\ SnapshotsInv /\ [Next]_vars => SnapshotsInv'
<1> SUFFICES ASSUME TypeOK, SnapshotsInv, [Next]_vars PROVE SnapshotsInv'
  OBVIOUS
<1>1. ASSUME NEW h \in Handlers, CheckEntitlement(h) PROVE SnapshotsInv'
  <2>1. \A q \in Pending' : q \in Pending \/ q.op = "create"
    BY <1>1 DEF CheckEntitlement, Idle, Pending, TypeOK, HandlerTypes
  <2> QED
    BY <1>1, <2>1, SnapshotsStay DEF CheckEntitlement, rows
<1>2. ASSUME NEW h \in Handlers, IncrementVolumes(h) PROVE SnapshotsInv'
  BY <1>2, SnapshotsStay DEF IncrementVolumes, At, Goto, Pending, TypeOK, TableTypes,
     HandlerTypes, RequestTypes, ImageTypes, ImageType
<1>3. ASSUME NEW h \in Handlers, DeleteVolume(h) PROVE SnapshotsInv'
  <2> DEFINE v == handler[h].v
  <2>1. v \in Vols /\ RemoveRow(v)
    BY <1>3 DEF DeleteVolume, At, TypeOK, HandlerTypes, Sound, Pending
  <2>2. Orderly => SnapshotsOf(v) = {}
    BY <1>3 DEF DeleteVolume, At, SnapshotsInv, Neat, Harmless, Pending
  <2>3. \A q \in Pending' : q \in Pending \/ (q.op = "delete" /\ q.v = v)
    BY <1>3 DEF DeleteVolume, At, Goto, Pending, TypeOK, HandlerTypes, RequestTypes
  <2> HIDE DEF v
  <2> QED
    BY <1>3, <2>1, <2>2, <2>3, SnapshotsWithoutRow DEF DeleteVolume, Happens
<1>4. ASSUME NEW h \in Handlers, DecrementVolumes(h) PROVE SnapshotsInv'
  BY <1>4, SnapshotsStay DEF DecrementVolumes, At, End, Idle, Pending, TypeOK, TableTypes,
     HandlerTypes, RequestTypes, ImageTypes, ImageType
<1>5. ASSUME NEW h \in Handlers, SnapshotCreated(h) PROVE SnapshotsInv'
  <2>1. \A q \in Pending' : Asks(q)'
    BY <1>5 DEF SnapshotCreated, End, Idle, rows, SnapshotsInv, Asks, Wanted, TypeOK, TableTypes,
       HandlerTypes, RequestTypes, Sound, Pending
  <2>2. RowsKnown' /\ NoneWithoutImage'
    BY <1>5 DEF SnapshotCreated, At, rows, SnapshotsInv, RowsKnown, NoneWithoutImage, Asks,
       TypeOK, TableTypes, HandlerTypes, RequestTypes, Sound, Pending
  <2>3. ASSUME Orderly' PROVE Neat'
    <3>1. Neat
      BY <1>5, <2>3 DEF SnapshotCreated, SnapshotsInv, Orderly, Happens
    <3>2. ASSUME NEW q \in Pending' PROVE Owner(q)'
      BY <1>5, <3>1 DEF SnapshotCreated, End, Idle, rows, Neat, Owner, Wanted, Kept, TypeOK,
         TableTypes, HandlerTypes, RequestTypes, Sound, Pending
    <3>3. ASSUME NEW q \in Pending' PROVE Harmless(q)'
      BY <1>5, <3>1 DEF SnapshotCreated, End, Idle, rows, Neat, Harmless, SnapshotsOf, Wanted,
         TypeOK, TableTypes, HandlerTypes, RequestTypes, Sound, Pending
    <3>4. OneOfAName'
      BY <1>5, <3>1 DEF SnapshotCreated, rows, Neat, OneOfAName
    <3>5. Promises'
      BY <1>5, <3>1 DEF SnapshotCreated, At, rows, Neat, Promises, Owner, Wanted, Kept, TypeOK,
         TableTypes, HandlerTypes, RequestTypes, Sound, Pending
    <3> QED
      BY <3>2, <3>3, <3>4, <3>5 DEF Neat
  <2> QED
    BY <2>1, <2>2, <2>3 DEF SnapshotsInv
<1>6. ASSUME NEW h \in Handlers, DeleteSnapshot(h) PROVE SnapshotsInv'
  <2>1. \A q \in Pending' : Asks(q)'
    BY <1>6 DEF DeleteSnapshot, At, End, Idle, SnapshotsInv, Asks, Wanted, TypeOK, TableTypes,
       HandlerTypes, RequestTypes, Sound, Pending
  <2>2. RowsKnown' /\ NoneWithoutImage'
    BY <1>6 DEF DeleteSnapshot, At, SnapshotsInv, RowsKnown, NoneWithoutImage, Asks, TypeOK,
       TableTypes, HandlerTypes, RequestTypes, Sound, Pending
  <2>3. ASSUME Orderly' PROVE Neat'
    <3>1. Neat
      BY <1>6, <2>3 DEF DeleteSnapshot, SnapshotsInv, Orderly, Happens
    <3>2. ASSUME NEW q \in Pending' PROVE Owner(q)'
      BY <1>6, <3>1 DEF DeleteSnapshot, At, End, Idle, SnapshotsInv, Asks, Neat, Owner, Wanted,
         Kept, TypeOK, TableTypes, HandlerTypes, RequestTypes, Sound, Pending
    <3>3. ASSUME NEW q \in Pending' PROVE Harmless(q)'
      BY <1>6, <3>1 DEF DeleteSnapshot, At, End, Idle, Neat, Harmless, SnapshotsOf, Wanted,
         TypeOK, TableTypes, HandlerTypes, RequestTypes, Sound, Pending
    <3>4. OneOfAName'
      BY <1>6, <3>1 DEF DeleteSnapshot, At, Neat, OneOfAName, TypeOK, TableTypes, HandlerTypes,
         RequestTypes, Sound, Pending
    <3>5. Promises'
      BY <1>6, <3>1 DEF DeleteSnapshot, At, SnapshotsInv, Asks, Neat, Promises, Wanted, Kept,
         TypeOK, TableTypes, HandlerTypes, RequestTypes, Sound, Pending
    <3> QED
      BY <3>2, <3>3, <3>4, <3>5 DEF Neat
  <2> QED
    BY <2>1, <2>2, <2>3 DEF SnapshotsInv
<1>7. ASSUME NEW h \in Handlers, Attach(h) PROVE SnapshotsInv'
  BY <1>7, SnapshotsStay DEF Attach, At, Exists, End, Idle, Pending, TypeOK, TableTypes,
     HandlerTypes, RequestTypes, ImageTypes, ImageType
<1>8. ASSUME NEW h \in Handlers, Execute(h) PROVE SnapshotsInv'
  <2>1. handler[h] \in Pending
    BY DEF Pending
  <2>2. \A p \in Pending' :
          \/ p \in Pending
          \/ /\ p.op = handler[h].op /\ p.v = handler[h].v /\ p.s = handler[h].s
             /\ p.name = handler[h].name /\ p.t = handler[h].t
             /\ p.at = IF Succeeds(handler[h]) THEN "ok" ELSE "refused"
    BY <1>8 DEF Execute, Goto, Pending, TypeOK, HandlerTypes, RequestTypes
  <2> QED
    BY <1>8, <2>1, <2>2, SnapshotsAfterDone DEF Execute, rows
<1>9. ASSUME NEW h \in Handlers, Refused(h) PROVE SnapshotsInv'
  <2>1. CASE handler[h].op = "clone"
    <3> DEFINE v == handler[h].t
    <3>1. v \in Vols /\ RemoveRow(v)
      BY <1>9, <2>1 DEF Refused, TypeOK, HandlerTypes, Sound, Pending
    <3>2. Orderly => SnapshotsOf(v) = {}
      BY <2>1 DEF SnapshotsInv, Neat, Harmless, Pending
    <3>3. \A q \in Pending' :
            q \in Pending \/ q.op \notin {"snapshot", "unsnapshot", "delete", "clone"}
      BY <1>9 DEF Refused, End, Idle, Pending, TypeOK, HandlerTypes
    <3> HIDE DEF v
    <3> QED
      BY <1>9, <3>1, <3>2, <3>3, SnapshotsWithoutRow DEF Refused
  <2>2. CASE handler[h].op # "clone"
    BY <1>9, <2>2, SnapshotsStay DEF Refused, End, Idle, Pending, TypeOK, HandlerTypes
  <2> QED
    BY <2>1, <2>2
<1>10. ASSUME NEW h \in Handlers, Accepted(h) PROVE SnapshotsInv'
  BY <1>10, SnapshotsStay DEF Accepted, End, Idle, rows, Pending, TypeOK, TableTypes,
     HandlerTypes, RequestTypes, ImageTypes, ImageType
<1>11. ASSUME NEW h \in Handlers, GiveUp(h) PROVE SnapshotsInv'
  BY <1>11, SnapshotsStay DEF GiveUp, End, Idle, Happens, rows, Pending, TypeOK, TableTypes,
     HandlerTypes, RequestTypes, ImageTypes, ImageType
<1>12. ASSUME NEW h \in Handlers, Cut(h) PROVE SnapshotsInv'
  BY <1>12, SnapshotsStay DEF Cut, End, Idle, Happens, rows, Pending, TypeOK, TableTypes,
     HandlerTypes, RequestTypes, ImageTypes, ImageType
<1>13. ASSUME NEW h \in Handlers, NEW v \in Vols, InsertVolume(h, v) PROVE SnapshotsInv'
  <2>1. \A q \in Pending' : q \in Pending \/ q.op = "create"
    BY <1>13 DEF InsertVolume, At, Pending, TypeOK, HandlerTypes, RequestTypes
  <2> QED
    BY <1>13, <2>1, SnapshotsStay DEF InsertVolume, TypeOK, TableTypes
<1>14. ASSUME NEW h \in Handlers, NEW v \in Vols, BeginDelete(h, v) PROVE SnapshotsInv'
  <2>p. \A q \in Pending' : q \in Pending \/ (q.op = "delete" /\ q.v = v)
    BY <1>14 DEF BeginDelete, Send, Pending, TypeOK, HandlerTypes
  <2>1. \A q \in Pending' : Asks(q)'
    BY <1>14, <2>p DEF BeginDelete, rows, SnapshotsInv, Asks, Wanted
  <2>2. RowsKnown' /\ NoneWithoutImage'
    BY <1>14 DEF BeginDelete, rows, SnapshotsInv, RowsKnown, NoneWithoutImage, TypeOK, TableTypes
  <2>3. ASSUME Orderly' PROVE Neat'
    <3>1. Neat
      BY <1>14, <2>3 DEF BeginDelete, SnapshotsInv, Orderly, Happens
    <3>2. ASSUME NEW q \in Pending' PROVE Owner(q)'
      BY <1>14, <2>p, <3>1 DEF BeginDelete, rows, Neat, Owner, Wanted, Kept
    <3>3. ASSUME NEW q \in Pending' PROVE Harmless(q)'
      BY <1>14, <2>p, <3>1 DEF BeginDelete, rows, SnapshotsInv, RowsKnown, Neat, Harmless, Wanted,
         SnapshotsOf, Deletable
    <3>4. OneOfAName'
      BY <1>14, <3>1 DEF BeginDelete, rows, Neat, OneOfAName
    <3>5. Promises'
      BY <1>14, <3>1 DEF BeginDelete, rows, Neat, Promises, Kept
    <3> QED
      BY <3>2, <3>3, <3>4, <3>5 DEF Neat
  <2> QED
    BY <2>1, <2>2, <2>3 DEF SnapshotsInv
<1>15. ASSUME NEW h \in Handlers, NEW v \in Vols, NEW a \in Apps, NEW mode \in Modes,
            ReadAttachments(h, a, v, mode) PROVE SnapshotsInv'
  BY <1>15, SnapshotsStay DEF ReadAttachments, Begin, Busy, Exists, Happens, If, rows, Pending,
     TypeOK, TableTypes, HandlerTypes, RequestTypes, ImageTypes, ImageType
<1>16. ASSUME NEW h \in Handlers, NEW v \in Vols, NEW n \in Names, BeginRestore(h, v, n) PROVE
            SnapshotsInv'
  BY <1>16, SnapshotsStay DEF BeginRestore, Begin, Busy, Exists, Send, rows, Pending, TypeOK,
     TableTypes, HandlerTypes, RequestTypes, ImageTypes, ImageType
<1>17. ASSUME NEW h \in Handlers, NEW v \in Vols, NEW n \in Names, NEW t \in Vols, BeginClone(h,
            v, n, t) PROVE SnapshotsInv'
  <2>p. \A q \in Pending' : q \in Pending \/ (q.op = "clone" /\ q.t = t)
    BY <1>17 DEF BeginClone, Send, Pending, TypeOK, HandlerTypes
  <2>1. \A q \in Pending' : Asks(q)'
    BY <1>17, <2>p DEF BeginClone, rows, SnapshotsInv, Asks, Wanted
  <2>2. RowsKnown' /\ NoneWithoutImage'
    BY <1>17 DEF BeginClone, rows, SnapshotsInv, RowsKnown, NoneWithoutImage, TypeOK, TableTypes
  <2>3. ASSUME Orderly' PROVE Neat'
    <3>1. Neat
      BY <1>17, <2>3 DEF BeginClone, SnapshotsInv, Orderly, Happens
    <3>2. ASSUME NEW q \in Pending' PROVE Owner(q)'
      BY <1>17, <2>p, <3>1 DEF BeginClone, rows, Neat, Owner, Wanted, Kept
    <3>3. ASSUME NEW q \in Pending' PROVE Harmless(q)'
      BY <1>17, <2>p, <3>1 DEF BeginClone, rows, SnapshotsInv, RowsKnown, Neat, Harmless, Wanted,
         SnapshotsOf
    <3>4. OneOfAName'
      BY <1>17, <3>1 DEF BeginClone, rows, Neat, OneOfAName
    <3>5. Promises'
      BY <1>17, <3>1 DEF BeginClone, rows, Neat, Promises, Kept
    <3> QED
      BY <3>2, <3>3, <3>4, <3>5 DEF Neat
  <2> QED
    BY <2>1, <2>2, <2>3 DEF SnapshotsInv
<1>18. ASSUME NEW h \in Handlers, NEW v \in Vols, NEW n \in Names, NEW s \in Snaps,
            BeginSnapshot(h, v, s, n) PROVE SnapshotsInv'
  <2>s. Send(h, "snapshot", v, s, n, None) /\ late' = late
    BY <1>18 DEF BeginSnapshot
  <2>p. \A q \in Pending' :
          \/ q \in Pending
          \/ /\ q.op = "snapshot" /\ q.v = v /\ q.s = s /\ q.name = n
             /\ q.at = "sent"
    BY <2>s DEF Send, Pending, TypeOK, HandlerTypes
  <2>r. /\ snapshot[s].st = "none" /\ volume[v] = "row" /\ promised' = promised
        /\ volume' = volume /\ image' = image
        /\ snapshot' = [snapshot EXCEPT ![s] = [st |-> "row", vol |-> v, name |-> n]]
    BY <1>18 DEF BeginSnapshot, Exists
  <2>q. \A q \in Pending : q.op \in {"snapshot", "unsnapshot"} => q.s \in Snaps /\ q.s # s
    BY <2>r DEF SnapshotsInv, Asks, TypeOK, HandlerTypes, Sound
  <2>o. ASSUME Orderly'
        PROVE  /\ \A o \in SnapshotsOf(v) : snapshot[o].name # n
               /\ \A q \in Pending : ~(q.v = v /\ q.name = n)
               /\ ~Changing(v)
    <3> DEFINE namesakes == {o \in SnapshotsOf(v) : snapshot[o].name = n}
               others == {q \in Pending : q.v = v /\ q.name = n}
    <3>1. events' = events \cup (If("same name", namesakes # {} \/ others # {})
                               \cup If("raced", Changing(v)))
      BY <1>18 DEF BeginSnapshot, Happens
    <3>2. "same name" \notin events' /\ "raced" \notin events'
      BY <2>o DEF Orderly
    <3>3. namesakes = {} /\ others = {} /\ ~Changing(v)
      BY <3>1, <3>2 DEF If
    <3> QED
      BY <3>3
  <2>1. \A q \in Pending' : Asks(q)'
    BY <2>p, <2>q, <2>r DEF SnapshotsInv, Asks, Wanted, TypeOK, TableTypes
  <2>2. RowsKnown' /\ NoneWithoutImage'
    BY <2>r DEF SnapshotsInv, RowsKnown, NoneWithoutImage, TypeOK, TableTypes
  <2>3. ASSUME Orderly' PROVE Neat'
    <3>1. Neat
      BY <1>18, <2>3 DEF BeginSnapshot, SnapshotsInv, Orderly, Happens
    <3>2. ASSUME NEW q \in Pending' PROVE Owner(q)'
      BY <2>p, <2>q, <2>r, <3>1 DEF Neat, Owner, Wanted, Kept, TypeOK, TableTypes
    <3>3. ASSUME NEW q \in Pending' PROVE Harmless(q)'
      <4>1. CASE q \in Pending
        <5>1. Harmless(q) /\ (q.op = "delete" => q.v # v)
              /\ (q.op = "clone" => q.t # v)
          BY <2>3, <2>o, <3>1, <4>1 DEF Neat, Changing
        <5>2. \A w : w # v => SnapshotsOf(w)' = SnapshotsOf(w)
          BY <2>r DEF SnapshotsOf, TypeOK, TableTypes
        <5>3. SnapshotsOf(v)' \subseteq SnapshotsOf(v) \cup {s}
          BY <2>r DEF SnapshotsOf, TypeOK, TableTypes
        <5>4. \A r \in Snaps : r # s => snapshot'[r] = snapshot[r]
          BY <2>r DEF TypeOK, TableTypes
        <5>5. snapshot'[s].name = n /\ ~(q.v = v /\ q.name = n)
          BY <2>3, <2>o, <2>r, <4>1 DEF TypeOK, TableTypes
        <5>6. \A w : SnapshotsOf(w) \subseteq Snaps \ {s}
          BY <2>r DEF SnapshotsOf
        <5> QED
          BY <2>r, <5>1, <5>2, <5>3, <5>4, <5>5, <5>6 DEF Harmless, Wanted
      <4>2. CASE q \notin Pending
        BY <2>p, <4>2 DEF Harmless
      <4> QED
        BY <4>1, <4>2
    <3>4. OneOfAName'
      BY <2>3, <2>o, <2>r, <3>1 DEF Neat, OneOfAName, SnapshotsOf, TypeOK, TableTypes
    <3>5. Promises'
      BY <2>r, <3>1 DEF Neat, Promises, SnapshotsInv, RowsKnown, Kept, TypeOK, TableTypes
    <3> QED
      BY <3>2, <3>3, <3>4, <3>5 DEF Neat
  <2> QED
    BY <2>1, <2>2, <2>3 DEF SnapshotsInv
<1>19. ASSUME NEW h \in Handlers, NEW s \in Snaps, BeginDeleteSnapshot(h, s) PROVE SnapshotsInv'
  <2>0. PICK v \in Stored :
          s \in SnapshotsOf(v) /\ Send(h, "unsnapshot", v, s, snapshot[s].name, None)
    BY <1>19 DEF BeginDeleteSnapshot
  <2>p. \A q \in Pending' :
          \/ q \in Pending
          \/ q.op = "unsnapshot" /\ q.v = v /\ q.s = s /\ q.name = snapshot[s].name
    BY <1>19, <2>0 DEF BeginDeleteSnapshot, Send, Pending, TypeOK, HandlerTypes
  <2>1. \A q \in Pending' : Asks(q)'
    BY <1>19, <2>0, <2>p DEF BeginDeleteSnapshot, rows, SnapshotsOf, SnapshotsInv, Asks, Wanted,
       TypeOK, TableTypes, HandlerTypes, Sound
  <2>2. RowsKnown' /\ NoneWithoutImage'
    BY <1>19, <2>0 DEF BeginDeleteSnapshot, rows, SnapshotsOf, SnapshotsInv, RowsKnown,
       NoneWithoutImage, TypeOK, TableTypes
  <2>3. ASSUME Orderly' PROVE Neat'
    <3>1. Neat
      BY <1>19, <2>3 DEF BeginDeleteSnapshot, SnapshotsInv, Orderly, Happens
    <3>2. ASSUME NEW q \in Pending' PROVE Owner(q)'
      BY <1>19, <2>p, <3>1 DEF BeginDeleteSnapshot, rows, Neat, Owner, Wanted, Kept, TypeOK,
         TableTypes, HandlerTypes, Sound
    <3>3. ASSUME NEW q \in Pending' PROVE Harmless(q)'
      BY <1>19, <2>0, <2>p, <3>1 DEF BeginDeleteSnapshot, rows, Neat, OneOfAName, Harmless,
         Wanted, SnapshotsOf, TypeOK, TableTypes
    <3>4. OneOfAName'
      BY <1>19, <3>1 DEF BeginDeleteSnapshot, rows, Neat, OneOfAName
    <3>5. Promises'
      BY <1>19, <3>1 DEF BeginDeleteSnapshot, rows, Neat, Promises, Kept, TypeOK, TableTypes
    <3> QED
      BY <3>2, <3>3, <3>4, <3>5 DEF Neat
  <2> QED
    BY <2>1, <2>2, <2>3 DEF SnapshotsInv
<1>20. ASSUME NEW a \in Apps, Deploy(a) PROVE SnapshotsInv'
  BY <1>20, SnapshotsStay DEF Deploy, rows, Pending, TypeOK, TableTypes, HandlerTypes,
     RequestTypes, ImageTypes, ImageType
<1>21. ASSUME NEW a \in Apps, Boot(a) PROVE SnapshotsInv'
  <2>1. \A v \in Vols : image[v].there => image'[v] = image[v]
    BY <1>21 DEF Boot
  <2>2. \A v \in Vols : ~image[v].there => image'[v].snaps \in {{}, image[v].snaps}
    BY <1>21 DEF Boot, NoImage
  <2>3. \A v \in Vols : /\ image'[v].snaps = image[v].snaps
                        /\ image[v].there => image'[v].there
    BY <2>1, <2>2 DEF SnapshotsInv, NoneWithoutImage
  <2> QED
    BY <1>21, <2>3, SnapshotsStay DEF Boot, rows, Happens, Pending
<1>22. ASSUME NEW a \in Apps, Stop(a) PROVE SnapshotsInv'
  BY <1>22, SnapshotsStay DEF Stop, rows, Pending, TypeOK, TableTypes, HandlerTypes, RequestTypes,
     ImageTypes, ImageType
<1>23. ASSUME NEW a \in Apps, NEW v \in Vols, Detach(a, v) PROVE SnapshotsInv'
  BY <1>23, SnapshotsStay DEF Detach, Pending, TypeOK, TableTypes, HandlerTypes, RequestTypes,
     ImageTypes, ImageType
<1>24. ASSUME NEW q \in late, ExecuteLate(q) PROVE SnapshotsInv'
  <2>1. q \in Pending /\ Pending' \subseteq Pending
    BY <1>24 DEF ExecuteLate, Pending
  <2> QED
    BY <1>24, <2>1, SnapshotsAfterDone DEF ExecuteLate, rows
<1>25. ASSUME NEW h \in Handlers, NoWorker(h) PROVE SnapshotsInv'
  <2>1. \A q \in Pending' : q \in Pending \/ q = [handler[h] EXCEPT !.at = "refused"]
    <3>1. /\ \A g \in Handlers : g # h => handler'[g] = handler[g]
          /\ handler'[h] = [handler[h] EXCEPT !.at = "refused"]
      BY <1>25, RefusalTyped DEF NoWorker
    <3>2. late' \subseteq late \cup {handler[h]}
      BY <1>25 DEF NoWorker
    <3> QED
      BY <3>1, <3>2 DEF Pending
  <2> QED
    BY <1>25, <2>1, SnapshotsRefused DEF NoWorker, rows
<1>26. ASSUME NEW h \in Handlers, AgentTimeout(h) PROVE SnapshotsInv'
  <2>1. \A q \in Pending' : q \in Pending \/ q = [handler[h] EXCEPT !.at = "refused"]
    <3>1. /\ \A g \in Handlers : g # h => handler'[g] = handler[g]
          /\ handler'[h] = [handler[h] EXCEPT !.at = "refused"]
      BY <1>26, RefusalTyped DEF AgentTimeout
    <3>2. late' \subseteq late \cup {handler[h]}
      BY <1>26 DEF AgentTimeout
    <3> QED
      BY <3>1, <3>2 DEF Pending
  <2> QED
    BY <1>26, <2>1, SnapshotsRefused DEF AgentTimeout, Happens, rows
<1>27. CASE UNCHANGED vars
  BY <1>27, SnapshotsStay DEF vars, rows, Pending
<1> QED
  BY <1>1, <1>2, <1>3, <1>4, <1>5, <1>6, <1>7, <1>8, <1>9, <1>10, <1>11, <1>12, <1>13, <1>14,
     <1>15, <1>16, <1>17, <1>18, <1>19, <1>20, <1>21, <1>22, <1>23, <1>24, <1>25, <1>26, <1>27 DEF Next

(*------------------------------ The usage --------------------------------*)
LEMMA CountedFinite ==
  IsFiniteSet(Stored) /\ IsFiniteSet(ToCount) /\ IsFiniteSet(ToUncount)
BY VolumesAssumption, FS_Subset DEF Stored, ToCount, ToUncount

(* Nothing is to be shown once the usage is not to be relied on. *)
LEMMA NotCountable ==
  ASSUME UsageInv, used' = used, ~ Countable'
  PROVE  UsageInv'
BY DEF UsageInv

(* The usage stays true, where rows and counting handlers stay, and nobody else turns to a *)
(* volume that is about to be counted.                                                     *)
LEMMA UsageStays ==
  ASSUME UsageInv, used' = used, events \subseteq events', volume' = volume,
         \A h \in Handlers : At(h, "create", "count")' <=> At(h, "create", "count"),
         \A h \in Handlers : At(h, "delete", "uncount")' <=> At(h, "delete", "uncount"),
         \A h \in Handlers : At(h, "create", "count") => handler'[h].v = handler[h].v,
         Countable' => \A g, h \in Handlers :
           At(h, "create", "count") /\ Changes(g, handler[h].v)' => Changes(g, handler[h].v),
         Countable' => \A h \in Handlers : handler'[h].op = "clone" => handler[h].op = "clone"
  PROVE  UsageInv'
<1>1. ToCount' = ToCount /\ ToUncount' = ToUncount /\ Stored' = Stored
  BY DEF ToCount, ToUncount, Stored, Exists
<1>2. Countable' => Countable
  BY DEF Countable
<1>3. ASSUME Countable', NEW h \in Handlers PROVE Alone(h)' /\ handler'[h].op # "clone"
  <2>1. Alone(h) /\ handler[h].op # "clone"
    BY <1>2, <1>3 DEF UsageInv
  <2>2. handler'[h].op # "clone"
    BY <1>3, <2>1
  <2>3. Alone(h)'
    <3> SUFFICES ASSUME At(h, "create", "count")'
                 PROVE  /\ Exists(handler[h].v)'
                        /\ \A g \in Handlers : Changes(g, handler[h].v)' => g = h
      BY DEF Alone
    <3>1. At(h, "create", "count") /\ handler'[h].v = handler[h].v /\ Exists(handler[h].v)
      BY <2>1 DEF Alone
    <3>2. \A g \in Handlers : Changes(g, handler[h].v) => g = h
      BY <2>1, <3>1 DEF Alone
    <3>3. \A g \in Handlers : Changes(g, handler[h].v)' => Changes(g, handler[h].v)
      BY <1>3, <3>1 DEF Changes
    <3> QED
      BY <3>1, <3>2, <3>3 DEF Exists
  <2> QED
    BY <2>2, <2>3
<1> QED
  BY <1>1, <1>2, <1>3 DEF UsageInv

(* Every volume about to be counted is there and is another one, so that there is one to uncount. *)
LEMMA FewToCount ==
  ASSUME TypeOK, UsageInv, Countable
  PROVE  Cardinality(ToCount) <= Cardinality(Stored)
<1> SUFFICES ASSUME Cardinality(Stored) < Cardinality(ToCount) PROVE FALSE
  BY CountedFinite, FS_CardinalityType
<1> DEFINE f == [h \in ToCount |-> handler[h].v]
<1>1. \A h \in ToCount : handler[h].v \in Stored
  <2> SUFFICES ASSUME NEW h \in ToCount PROVE handler[h].v \in Stored
    OBVIOUS
  <2>1. h \in Handlers /\ At(h, "create", "count") /\ Exists(handler[h].v)
    BY DEF UsageInv, Alone, ToCount
  <2>2. handler[h].v \in Vols
    BY <2>1 DEF TypeOK, HandlerTypes, Pending, Sound, At
  <2> QED
    BY <2>1, <2>2 DEF Stored
<1>2. f \in [ToCount -> Stored] /\ \A h \in ToCount : f[h] = handler[h].v
  BY <1>1
<1> HIDE DEF f
<1>3. PICK g \in ToCount, h \in ToCount : g # h /\ f[g] = f[h]
  BY <1>2, CountedFinite, FS_PigeonHole
<1>4. At(g, "create", "count") /\ Alone(h) /\ g \in Handlers /\ At(h, "create", "count")
  BY DEF UsageInv, ToCount
<1>5. handler[g].v = handler[h].v
  BY <1>2, <1>3
<1> QED
  BY <1>3, <1>4, <1>5 DEF Alone, Changes, At


(* Every step keeps the usage true. *)
LEMMA UsageKept ==
  TypeOK /\ LeftInv /\ UsageInv /\ [Next]_vars => UsageInv'
<1> SUFFICES ASSUME TypeOK, LeftInv, UsageInv, [Next]_vars PROVE UsageInv'
  OBVIOUS
<1>1. ASSUME NEW h \in Handlers, CheckEntitlement(h) PROVE UsageInv'
  <2>1. used' = used /\ volume' = volume /\ events \subseteq events'
    BY <1>1 DEF CheckEntitlement, rows, Happens, If
  <2>2. /\ \A g \in Handlers : At(g, "create", "count")' <=> At(g, "create", "count")
        /\ \A g \in Handlers : At(g, "delete", "uncount")' <=> At(g, "delete", "uncount")
        /\ \A g \in Handlers : At(g, "create", "count") => handler'[g].v = handler[g].v
        /\ \A g \in Handlers, w \in Vols : Changes(g, w)' => Changes(g, w)
        /\ \A g \in Handlers : handler'[g].op = "clone" => handler[g].op = "clone"
    BY <1>1 DEF CheckEntitlement, At, Begin, Busy, End, Goto, Send, Idle, Changes, TypeOK,
       HandlerTypes, RequestTypes
  <2>3. \A g \in Handlers : At(g, "create", "count") => handler[g].v \in Vols
    BY DEF TypeOK, HandlerTypes, Pending, Sound, At
  <2> QED
    BY <2>1, <2>2, <2>3, UsageStays
<1>2. ASSUME NEW h \in Handlers, IncrementVolumes(h) PROVE UsageInv'
  <2>1. /\ h \in ToCount /\ ToCount' = ToCount \ {h}
        /\ ToUncount' = ToUncount /\ Stored' = Stored
    BY <1>2 DEF IncrementVolumes, Goto, ToCount, ToUncount, Stored, Exists, At, TypeOK,
       HandlerTypes, RequestTypes
  <2>2. Cardinality(ToCount') = Cardinality(ToCount) - 1
    BY <2>1, CountedFinite, FS_RemoveElement
  <2>3. used' = used + 1 /\ events' = events /\ volume' = volume
    BY <1>2 DEF IncrementVolumes
  <2>4. Countable' =>
          used' + Cardinality(ToCount') = Cardinality(Stored') + Cardinality(ToUncount')
    BY <2>1, <2>2, <2>3, CountedFinite, FS_CardinalityType DEF UsageInv, Countable
  <2>5. ASSUME NEW g \in Handlers
        PROVE  /\ handler'[g].op = handler[g].op /\ handler'[g].v = handler[g].v
               /\ At(g, "create", "count")' => At(g, "create", "count")
               /\ \A w \in Vols : Changes(g, w)' => Changes(g, w)
               /\ At(g, "create", "count") => handler[g].v \in Vols
    BY <1>2 DEF IncrementVolumes, Goto, At, Changes, TypeOK, HandlerTypes, RequestTypes, Pending,
       Sound
  <2>6. Countable' => \A g \in Handlers : Alone(g)' /\ handler'[g].op # "clone"
    BY <2>3, <2>5 DEF UsageInv, Countable, Alone, Exists
  <2> QED
    BY <2>3, <2>4, <2>6 DEF UsageInv
<1>3. ASSUME NEW h \in Handlers, DeleteVolume(h) PROVE UsageInv'
  <2>0. PICK w \in Vols : w = handler[h].v
    BY <1>3 DEF DeleteVolume, At, TypeOK, HandlerTypes, Pending, Sound
  <2>1. /\ used' = used /\ events \subseteq events' /\ (Exists(w) \/ "twice" \in events')
        /\ At(h, "delete", "ok") /\ Changes(h, w)
    BY <1>3, <2>0 DEF DeleteVolume, Happens, If, At, Changes
  <2>2. CASE ~ Exists(w)
    BY <2>1, <2>2, NotCountable DEF Countable
  <2>3. CASE Exists(w)
    <3>1. /\ h \notin ToUncount /\ ToUncount' = ToUncount \cup {h} /\ ToCount' = ToCount
      BY <1>3 DEF DeleteVolume, Goto, ToCount, ToUncount, At, TypeOK, HandlerTypes, RequestTypes
    <3>2. w \in Stored /\ Stored' = Stored \ {w} /\ \A x \in Vols \ {w} : volume'[x] = volume[x]
      BY <1>3, <2>0, <2>3 DEF DeleteVolume, RemoveRow, Stored, Exists, TypeOK, TableTypes
    <3>3. /\ Cardinality(ToUncount') = Cardinality(ToUncount) + 1
          /\ Cardinality(Stored') = Cardinality(Stored) - 1
      BY <3>1, <3>2, CountedFinite, FS_AddElement, FS_RemoveElement
    <3>4. Countable' =>
            used' + Cardinality(ToCount') = Cardinality(Stored') + Cardinality(ToUncount')
      BY <2>1, <3>1, <3>2, <3>3, CountedFinite, FS_CardinalityType DEF UsageInv, Countable
    <3>5. ASSUME NEW g \in Handlers
          PROVE  /\ handler'[g].op = handler[g].op /\ handler'[g].v = handler[g].v
                 /\ At(g, "create", "count")' => At(g, "create", "count")
                 /\ \A x \in Vols : Changes(g, x)' => Changes(g, x)
                 /\ At(g, "create", "count") => handler[g].v \in Vols /\ g # h
      BY <1>3 DEF DeleteVolume, Goto, At, Changes, TypeOK, HandlerTypes, RequestTypes, Pending,
         Sound
    <3>6. ASSUME Countable', NEW g \in Handlers PROVE Alone(g)' /\ handler'[g].op # "clone"
      <4>1. Alone(g) /\ handler[g].op # "clone"
        BY <2>1, <3>6 DEF UsageInv, Countable
      <4>2. At(g, "create", "count") => handler[g].v # w
        BY <2>1, <3>5, <4>1 DEF Alone
      <4> QED
        BY <3>2, <3>5, <4>1, <4>2 DEF Alone, Exists
    <3> QED
      BY <2>1, <3>4, <3>6 DEF UsageInv
  <2> QED
    BY <2>2, <2>3
<1>4. ASSUME NEW h \in Handlers, DecrementVolumes(h) PROVE UsageInv'
  <2>1. /\ h \in ToUncount /\ ToUncount' = ToUncount \ {h}
        /\ ToCount' = ToCount /\ Stored' = Stored
    BY <1>4 DEF DecrementVolumes, End, Idle, ToCount, ToUncount, Stored, Exists, At, TypeOK,
       HandlerTypes, RequestTypes
  <2>2. Cardinality(ToUncount') = Cardinality(ToUncount) - 1
    BY <2>1, CountedFinite, FS_RemoveElement
  <2>3. /\ used' = (IF used = 0 THEN 0 ELSE used - 1) /\ events' = events /\ volume' = volume
        /\ Cardinality(ToCount) \in Nat /\ Cardinality(ToUncount) \in Nat
        /\ Cardinality(ToUncount') \in Nat /\ Cardinality(Stored) \in Nat
    BY <1>4, <2>1, CountedFinite, FS_CardinalityType, FS_Subset DEF DecrementVolumes
  <2>4. ASSUME Countable'
        PROVE  used' + Cardinality(ToCount') = Cardinality(Stored') + Cardinality(ToUncount')
    <3>1. /\ used \in Nat
          /\ used + Cardinality(ToCount) = Cardinality(Stored) + Cardinality(ToUncount)
          /\ Cardinality(ToCount) <= Cardinality(Stored)
      BY <2>3, <2>4, FewToCount DEF UsageInv, Countable
    <3>2. used # 0
      BY <2>2, <2>3, <3>1
    <3> QED
      BY <2>1, <2>2, <2>3, <3>1, <3>2
  <2>5. ASSUME NEW g \in Handlers
        PROVE  /\ handler'[g].op = "clone" => handler[g].op = "clone"
               /\ At(g, "create", "count")' =>
                    At(g, "create", "count") /\ handler'[g].v = handler[g].v
               /\ \A w \in Vols : Changes(g, w)' => Changes(g, w)
               /\ At(g, "create", "count") => handler[g].v \in Vols
    BY <1>4 DEF DecrementVolumes, End, Idle, At, Changes, TypeOK, HandlerTypes, RequestTypes,
       Pending, Sound
  <2>6. Countable' => \A g \in Handlers : Alone(g)' /\ handler'[g].op # "clone"
    BY <2>3, <2>5 DEF UsageInv, Countable, Alone, Exists
  <2>7. used' \in Nat
    BY <2>3 DEF UsageInv
  <2> QED
    BY <2>4, <2>6, <2>7 DEF UsageInv
<1>5. ASSUME NEW h \in Handlers, SnapshotCreated(h) PROVE UsageInv'
  <2>1. used' = used /\ volume' = volume /\ events \subseteq events'
    BY <1>5 DEF SnapshotCreated, rows, Happens, If
  <2>2. /\ \A g \in Handlers : At(g, "create", "count")' <=> At(g, "create", "count")
        /\ \A g \in Handlers : At(g, "delete", "uncount")' <=> At(g, "delete", "uncount")
        /\ \A g \in Handlers : At(g, "create", "count") => handler'[g].v = handler[g].v
        /\ \A g \in Handlers, w \in Vols : Changes(g, w)' => Changes(g, w)
        /\ \A g \in Handlers : handler'[g].op = "clone" => handler[g].op = "clone"
    BY <1>5 DEF SnapshotCreated, At, Begin, Busy, End, Goto, Send, Idle, Changes, TypeOK,
       HandlerTypes, RequestTypes
  <2>3. \A g \in Handlers : At(g, "create", "count") => handler[g].v \in Vols
    BY DEF TypeOK, HandlerTypes, Pending, Sound, At
  <2> QED
    BY <2>1, <2>2, <2>3, UsageStays
<1>6. ASSUME NEW h \in Handlers, DeleteSnapshot(h) PROVE UsageInv'
  <2>1. used' = used /\ volume' = volume /\ events \subseteq events'
    BY <1>6 DEF DeleteSnapshot, rows, Happens, If
  <2>2. /\ \A g \in Handlers : At(g, "create", "count")' <=> At(g, "create", "count")
        /\ \A g \in Handlers : At(g, "delete", "uncount")' <=> At(g, "delete", "uncount")
        /\ \A g \in Handlers : At(g, "create", "count") => handler'[g].v = handler[g].v
        /\ \A g \in Handlers, w \in Vols : Changes(g, w)' => Changes(g, w)
        /\ \A g \in Handlers : handler'[g].op = "clone" => handler[g].op = "clone"
    BY <1>6 DEF DeleteSnapshot, At, Begin, Busy, End, Goto, Send, Idle, Changes, TypeOK,
       HandlerTypes, RequestTypes
  <2>3. \A g \in Handlers : At(g, "create", "count") => handler[g].v \in Vols
    BY DEF TypeOK, HandlerTypes, Pending, Sound, At
  <2> QED
    BY <2>1, <2>2, <2>3, UsageStays
<1>7. ASSUME NEW h \in Handlers, Attach(h) PROVE UsageInv'
  <2>1. used' = used /\ volume' = volume /\ events \subseteq events'
    BY <1>7 DEF Attach, rows, Happens, If
  <2>2. /\ \A g \in Handlers : At(g, "create", "count")' <=> At(g, "create", "count")
        /\ \A g \in Handlers : At(g, "delete", "uncount")' <=> At(g, "delete", "uncount")
        /\ \A g \in Handlers : At(g, "create", "count") => handler'[g].v = handler[g].v
        /\ \A g \in Handlers, w \in Vols : Changes(g, w)' => Changes(g, w)
        /\ \A g \in Handlers : handler'[g].op = "clone" => handler[g].op = "clone"
    BY <1>7 DEF Attach, At, Begin, Busy, End, Goto, Send, Idle, Changes, TypeOK, HandlerTypes,
       RequestTypes
  <2>3. \A g \in Handlers : At(g, "create", "count") => handler[g].v \in Vols
    BY DEF TypeOK, HandlerTypes, Pending, Sound, At
  <2> QED
    BY <2>1, <2>2, <2>3, UsageStays
<1>8. ASSUME NEW h \in Handlers, Execute(h) PROVE UsageInv'
  <2>1. used' = used /\ volume' = volume /\ events \subseteq events'
    BY <1>8 DEF Execute, rows, Happens, If
  <2>2. /\ \A g \in Handlers : At(g, "create", "count")' <=> At(g, "create", "count")
        /\ \A g \in Handlers : At(g, "delete", "uncount")' <=> At(g, "delete", "uncount")
        /\ \A g \in Handlers : At(g, "create", "count") => handler'[g].v = handler[g].v
        /\ \A g \in Handlers, w \in Vols : Changes(g, w)' => Changes(g, w)
        /\ \A g \in Handlers : handler'[g].op = "clone" => handler[g].op = "clone"
    BY <1>8 DEF Execute, At, Begin, Busy, End, Goto, Send, Idle, Changes, TypeOK, HandlerTypes,
       RequestTypes
  <2>3. \A g \in Handlers : At(g, "create", "count") => handler[g].v \in Vols
    BY DEF TypeOK, HandlerTypes, Pending, Sound, At
  <2> QED
    BY <2>1, <2>2, <2>3, UsageStays
<1>9. ASSUME NEW h \in Handlers, Refused(h) PROVE UsageInv'
  <2>1. CASE handler[h].op = "clone"
    <3>1. used' = used /\ events' = events /\ ~ Countable
      BY <1>9, <2>1 DEF Refused, UsageInv
    <3> QED
      BY <3>1, NotCountable DEF Countable
  <2>2. CASE handler[h].op # "clone"
    <3>1. used' = used /\ volume' = volume /\ events \subseteq events'
      BY <1>9, <2>2 DEF Refused, rows, Happens, If
    <3>2. /\ \A g \in Handlers : At(g, "create", "count")' <=> At(g, "create", "count")
          /\ \A g \in Handlers : At(g, "delete", "uncount")' <=> At(g, "delete", "uncount")
          /\ \A g \in Handlers : At(g, "create", "count") => handler'[g].v = handler[g].v
          /\ \A g \in Handlers, w \in Vols : Changes(g, w)' => Changes(g, w)
          /\ \A g \in Handlers : handler'[g].op = "clone" => handler[g].op = "clone"
      BY <1>9, <2>2 DEF Refused, At, Begin, Busy, End, Goto, Send, Idle, Changes, TypeOK,
         HandlerTypes, RequestTypes
    <3>3. \A g \in Handlers : At(g, "create", "count") => handler[g].v \in Vols
      BY DEF TypeOK, HandlerTypes, Pending, Sound, At
    <3> QED
      BY <3>1, <3>2, <3>3, UsageStays
  <2> QED
    BY <2>1, <2>2
<1>10. ASSUME NEW h \in Handlers, Accepted(h) PROVE UsageInv'
  <2>1. used' = used /\ volume' = volume /\ events \subseteq events'
    BY <1>10 DEF Accepted, rows, Happens, If
  <2>2. /\ \A g \in Handlers : At(g, "create", "count")' <=> At(g, "create", "count")
        /\ \A g \in Handlers : At(g, "delete", "uncount")' <=> At(g, "delete", "uncount")
        /\ \A g \in Handlers : At(g, "create", "count") => handler'[g].v = handler[g].v
        /\ \A g \in Handlers, w \in Vols : Changes(g, w)' => Changes(g, w)
        /\ \A g \in Handlers : handler'[g].op = "clone" => handler[g].op = "clone"
    BY <1>10 DEF Accepted, At, Begin, Busy, End, Goto, Send, Idle, Changes, TypeOK, HandlerTypes,
       RequestTypes
  <2>3. \A g \in Handlers : At(g, "create", "count") => handler[g].v \in Vols
    BY DEF TypeOK, HandlerTypes, Pending, Sound, At
  <2> QED
    BY <2>1, <2>2, <2>3, UsageStays
<1>11. ASSUME NEW h \in Handlers, GiveUp(h) PROVE UsageInv'
  <2>1. used' = used /\ volume' = volume /\ events \subseteq events'
    BY <1>11 DEF GiveUp, rows, Happens, If
  <2>2. /\ \A g \in Handlers : At(g, "create", "count")' <=> At(g, "create", "count")
        /\ \A g \in Handlers : At(g, "delete", "uncount")' <=> At(g, "delete", "uncount")
        /\ \A g \in Handlers : At(g, "create", "count") => handler'[g].v = handler[g].v
        /\ \A g \in Handlers, w \in Vols : Changes(g, w)' => Changes(g, w)
        /\ \A g \in Handlers : handler'[g].op = "clone" => handler[g].op = "clone"
    BY <1>11 DEF GiveUp, At, Begin, Busy, End, Goto, Send, Idle, Changes, TypeOK, HandlerTypes,
       RequestTypes
  <2>3. \A g \in Handlers : At(g, "create", "count") => handler[g].v \in Vols
    BY DEF TypeOK, HandlerTypes, Pending, Sound, At
  <2> QED
    BY <2>1, <2>2, <2>3, UsageStays
<1>12. ASSUME NEW h \in Handlers, Cut(h) PROVE UsageInv'
  <2>1. used' = used /\ ~ Countable'
    BY <1>12 DEF Cut, rows, Happens, Countable
  <2> QED
    BY <2>1, NotCountable
<1>13. ASSUME NEW h \in Handlers, NEW v \in Vols, InsertVolume(h, v) PROVE UsageInv'
  <2>1. /\ h \notin ToCount /\ ToCount' = ToCount \cup {h} /\ ToUncount' = ToUncount
        /\ v \notin Stored /\ Stored' = Stored \cup {v}
    BY <1>13 DEF InsertVolume, ToCount, ToUncount, Stored, Exists, At, TypeOK, TableTypes,
       HandlerTypes, RequestTypes
  <2>2. /\ Cardinality(ToCount') = Cardinality(ToCount) + 1
        /\ Cardinality(Stored') = Cardinality(Stored) + 1
    BY <2>1, CountedFinite, FS_AddElement
  <2>3. used' = used /\ events' = events /\ volume[v] = "none"
    BY <1>13 DEF InsertVolume
  <2>4. Countable' =>
          used' + Cardinality(ToCount') = Cardinality(Stored') + Cardinality(ToUncount')
    BY <2>1, <2>2, <2>3, CountedFinite, FS_CardinalityType DEF UsageInv, Countable
  <2>5. /\ \A g \in Handlers : g # h => handler'[g] = handler[g]
        /\ handler'[h].op = "create" /\ handler'[h].at = "count" /\ handler'[h].v = v
        /\ \A g \in Handlers, w \in Vols : Changes(g, w)' => Changes(g, w) \/ (g = h /\ w = v)
        /\ \A g \in Handlers : ~ Changes(g, v)
        /\ \A w \in Vols : Exists(w) => Exists(w)' /\ w # v
        /\ Exists(v)'
    BY <1>13 DEF InsertVolume, At, Changes, TypeOK, TableTypes, HandlerTypes, RequestTypes,
       Exists, LeftInv, RowsFirst
  <2>6. \A g \in Handlers : At(g, "create", "count") => handler[g].v \in Vols
    BY DEF TypeOK, HandlerTypes, Pending, Sound, At
  <2>7. ASSUME Countable', NEW g \in Handlers PROVE Alone(g)' /\ handler'[g].op # "clone"
    <3>1. Alone(g) /\ handler[g].op # "clone"
      BY <2>3, <2>7 DEF UsageInv, Countable
    <3>2. CASE g = h
      BY <2>5, <3>2 DEF Alone
    <3>3. CASE g # h
      BY <2>5, <2>6, <3>1, <3>3 DEF Alone, At
    <3> QED
      BY <3>2, <3>3
  <2> QED
    BY <2>3, <2>4, <2>7 DEF UsageInv
<1>14. ASSUME NEW h \in Handlers, NEW v \in Vols, BeginDelete(h, v) PROVE UsageInv'
  <2>1. /\ used' = used /\ volume' = volume /\ events \subseteq events'
        /\ Changing(v) => "raced" \in events'
    BY <1>14 DEF BeginDelete, rows, Happens, If
  <2>2. /\ \A g \in Handlers : At(g, "create", "count")' <=> At(g, "create", "count")
        /\ \A g \in Handlers : At(g, "delete", "uncount")' <=> At(g, "delete", "uncount")
        /\ \A g \in Handlers : At(g, "create", "count") => handler'[g].v = handler[g].v
        /\ \A g \in Handlers, w \in Vols : Changes(g, w)' => Changes(g, w) \/ w = v
        /\ \A g \in Handlers : handler'[g].op = "clone" => handler[g].op = "clone"
    BY <1>14 DEF BeginDelete, At, Begin, Busy, Send, Changes, TypeOK, HandlerTypes, RequestTypes
  <2>3. \A g \in Handlers : At(g, "create", "count") => handler[g].v \in Vols
    BY DEF TypeOK, HandlerTypes, Pending, Sound, At
  <2>4. Countable' => \A g \in Handlers : At(g, "create", "count") => handler[g].v # v
    BY <2>1 DEF Countable, Changing, Pending, At
  <2> QED
    BY <2>1, <2>2, <2>3, <2>4, UsageStays
<1>15. ASSUME NEW h \in Handlers, NEW v \in Vols, NEW a \in Apps, NEW mode \in Modes,
            ReadAttachments(h, a, v, mode) PROVE UsageInv'
  <2>1. used' = used /\ volume' = volume /\ events \subseteq events'
    BY <1>15 DEF ReadAttachments, rows, Happens, If
  <2>2. /\ \A g \in Handlers : At(g, "create", "count")' <=> At(g, "create", "count")
        /\ \A g \in Handlers : At(g, "delete", "uncount")' <=> At(g, "delete", "uncount")
        /\ \A g \in Handlers : At(g, "create", "count") => handler'[g].v = handler[g].v
        /\ \A g \in Handlers, w \in Vols : Changes(g, w)' => Changes(g, w)
        /\ \A g \in Handlers : handler'[g].op = "clone" => handler[g].op = "clone"
    BY <1>15 DEF ReadAttachments, At, Begin, Busy, End, Goto, Send, Idle, Changes, TypeOK,
       HandlerTypes, RequestTypes
  <2>3. \A g \in Handlers : At(g, "create", "count") => handler[g].v \in Vols
    BY DEF TypeOK, HandlerTypes, Pending, Sound, At
  <2> QED
    BY <2>1, <2>2, <2>3, UsageStays
<1>16. ASSUME NEW h \in Handlers, NEW v \in Vols, NEW n \in Names, BeginRestore(h, v, n) PROVE
            UsageInv'
  <2>1. used' = used /\ volume' = volume /\ events \subseteq events'
    BY <1>16 DEF BeginRestore, rows, Happens, If
  <2>2. /\ \A g \in Handlers : At(g, "create", "count")' <=> At(g, "create", "count")
        /\ \A g \in Handlers : At(g, "delete", "uncount")' <=> At(g, "delete", "uncount")
        /\ \A g \in Handlers : At(g, "create", "count") => handler'[g].v = handler[g].v
        /\ \A g \in Handlers, w \in Vols : Changes(g, w)' => Changes(g, w)
        /\ \A g \in Handlers : handler'[g].op = "clone" => handler[g].op = "clone"
    BY <1>16 DEF BeginRestore, At, Begin, Busy, End, Goto, Send, Idle, Changes, TypeOK,
       HandlerTypes, RequestTypes
  <2>3. \A g \in Handlers : At(g, "create", "count") => handler[g].v \in Vols
    BY DEF TypeOK, HandlerTypes, Pending, Sound, At
  <2> QED
    BY <2>1, <2>2, <2>3, UsageStays
<1>17. ASSUME NEW h \in Handlers, NEW v \in Vols, NEW n \in Names, NEW t \in Vols, BeginClone(h,
            v, n, t) PROVE UsageInv'
  <2>1. used' = used /\ ~ Countable'
    BY <1>17 DEF BeginClone, rows, Happens, Countable
  <2> QED
    BY <2>1, NotCountable
<1>18. ASSUME NEW h \in Handlers, NEW v \in Vols, NEW n \in Names, NEW s \in Snaps,
            BeginSnapshot(h, v, s, n) PROVE UsageInv'
  <2>1. used' = used /\ volume' = volume /\ events \subseteq events'
    BY <1>18 DEF BeginSnapshot, rows, Happens, If
  <2>2. /\ \A g \in Handlers : At(g, "create", "count")' <=> At(g, "create", "count")
        /\ \A g \in Handlers : At(g, "delete", "uncount")' <=> At(g, "delete", "uncount")
        /\ \A g \in Handlers : At(g, "create", "count") => handler'[g].v = handler[g].v
        /\ \A g \in Handlers, w \in Vols : Changes(g, w)' => Changes(g, w)
        /\ \A g \in Handlers : handler'[g].op = "clone" => handler[g].op = "clone"
    BY <1>18 DEF BeginSnapshot, At, Begin, Busy, End, Goto, Send, Idle, Changes, TypeOK,
       HandlerTypes, RequestTypes
  <2>3. \A g \in Handlers : At(g, "create", "count") => handler[g].v \in Vols
    BY DEF TypeOK, HandlerTypes, Pending, Sound, At
  <2> QED
    BY <2>1, <2>2, <2>3, UsageStays
<1>19. ASSUME NEW h \in Handlers, NEW s \in Snaps, BeginDeleteSnapshot(h, s) PROVE UsageInv'
  <2>1. used' = used /\ volume' = volume /\ events \subseteq events'
    BY <1>19 DEF BeginDeleteSnapshot, rows, Happens, If
  <2>2. /\ \A g \in Handlers : At(g, "create", "count")' <=> At(g, "create", "count")
        /\ \A g \in Handlers : At(g, "delete", "uncount")' <=> At(g, "delete", "uncount")
        /\ \A g \in Handlers : At(g, "create", "count") => handler'[g].v = handler[g].v
        /\ \A g \in Handlers, w \in Vols : Changes(g, w)' => Changes(g, w)
        /\ \A g \in Handlers : handler'[g].op = "clone" => handler[g].op = "clone"
    BY <1>19 DEF BeginDeleteSnapshot, At, Begin, Busy, End, Goto, Send, Idle, Changes, TypeOK,
       HandlerTypes, RequestTypes
  <2>3. \A g \in Handlers : At(g, "create", "count") => handler[g].v \in Vols
    BY DEF TypeOK, HandlerTypes, Pending, Sound, At
  <2> QED
    BY <2>1, <2>2, <2>3, UsageStays
<1>20. ASSUME NEW a \in Apps, Deploy(a) PROVE UsageInv'
  <2>1. used' = used /\ volume' = volume /\ events \subseteq events'
    BY <1>20 DEF Deploy, rows, Happens, If
  <2>2. /\ \A g \in Handlers : At(g, "create", "count")' <=> At(g, "create", "count")
        /\ \A g \in Handlers : At(g, "delete", "uncount")' <=> At(g, "delete", "uncount")
        /\ \A g \in Handlers : At(g, "create", "count") => handler'[g].v = handler[g].v
        /\ \A g \in Handlers, w \in Vols : Changes(g, w)' => Changes(g, w)
        /\ \A g \in Handlers : handler'[g].op = "clone" => handler[g].op = "clone"
    BY <1>20 DEF Deploy, At, Begin, Busy, End, Goto, Send, Idle, Changes, TypeOK, HandlerTypes,
       RequestTypes
  <2>3. \A g \in Handlers : At(g, "create", "count") => handler[g].v \in Vols
    BY DEF TypeOK, HandlerTypes, Pending, Sound, At
  <2> QED
    BY <2>1, <2>2, <2>3, UsageStays
<1>21. ASSUME NEW a \in Apps, Boot(a) PROVE UsageInv'
  <2>1. used' = used /\ volume' = volume /\ events \subseteq events'
    BY <1>21 DEF Boot, rows, Happens, If
  <2>2. /\ \A g \in Handlers : At(g, "create", "count")' <=> At(g, "create", "count")
        /\ \A g \in Handlers : At(g, "delete", "uncount")' <=> At(g, "delete", "uncount")
        /\ \A g \in Handlers : At(g, "create", "count") => handler'[g].v = handler[g].v
        /\ \A g \in Handlers, w \in Vols : Changes(g, w)' => Changes(g, w)
        /\ \A g \in Handlers : handler'[g].op = "clone" => handler[g].op = "clone"
    BY <1>21 DEF Boot, At, Begin, Busy, End, Goto, Send, Idle, Changes, TypeOK, HandlerTypes,
       RequestTypes
  <2>3. \A g \in Handlers : At(g, "create", "count") => handler[g].v \in Vols
    BY DEF TypeOK, HandlerTypes, Pending, Sound, At
  <2> QED
    BY <2>1, <2>2, <2>3, UsageStays
<1>22. ASSUME NEW a \in Apps, Stop(a) PROVE UsageInv'
  <2>1. used' = used /\ volume' = volume /\ events \subseteq events'
    BY <1>22 DEF Stop, rows, Happens, If
  <2>2. /\ \A g \in Handlers : At(g, "create", "count")' <=> At(g, "create", "count")
        /\ \A g \in Handlers : At(g, "delete", "uncount")' <=> At(g, "delete", "uncount")
        /\ \A g \in Handlers : At(g, "create", "count") => handler'[g].v = handler[g].v
        /\ \A g \in Handlers, w \in Vols : Changes(g, w)' => Changes(g, w)
        /\ \A g \in Handlers : handler'[g].op = "clone" => handler[g].op = "clone"
    BY <1>22 DEF Stop, At, Begin, Busy, End, Goto, Send, Idle, Changes, TypeOK, HandlerTypes,
       RequestTypes
  <2>3. \A g \in Handlers : At(g, "create", "count") => handler[g].v \in Vols
    BY DEF TypeOK, HandlerTypes, Pending, Sound, At
  <2> QED
    BY <2>1, <2>2, <2>3, UsageStays
<1>23. ASSUME NEW a \in Apps, NEW v \in Vols, Detach(a, v) PROVE UsageInv'
  <2>1. used' = used /\ volume' = volume /\ events \subseteq events'
    BY <1>23 DEF Detach, rows, Happens, If
  <2>2. /\ \A g \in Handlers : At(g, "create", "count")' <=> At(g, "create", "count")
        /\ \A g \in Handlers : At(g, "delete", "uncount")' <=> At(g, "delete", "uncount")
        /\ \A g \in Handlers : At(g, "create", "count") => handler'[g].v = handler[g].v
        /\ \A g \in Handlers, w \in Vols : Changes(g, w)' => Changes(g, w)
        /\ \A g \in Handlers : handler'[g].op = "clone" => handler[g].op = "clone"
    BY <1>23 DEF Detach, At, Begin, Busy, End, Goto, Send, Idle, Changes, TypeOK, HandlerTypes,
       RequestTypes
  <2>3. \A g \in Handlers : At(g, "create", "count") => handler[g].v \in Vols
    BY DEF TypeOK, HandlerTypes, Pending, Sound, At
  <2> QED
    BY <2>1, <2>2, <2>3, UsageStays
<1>24. ASSUME NEW q \in late, ExecuteLate(q) PROVE UsageInv'
  <2>1. used' = used /\ volume' = volume /\ events \subseteq events'
    BY <1>24 DEF ExecuteLate, rows, Happens, If
  <2>2. /\ \A g \in Handlers : At(g, "create", "count")' <=> At(g, "create", "count")
        /\ \A g \in Handlers : At(g, "delete", "uncount")' <=> At(g, "delete", "uncount")
        /\ \A g \in Handlers : At(g, "create", "count") => handler'[g].v = handler[g].v
        /\ \A g \in Handlers, w \in Vols : Changes(g, w)' => Changes(g, w)
        /\ \A g \in Handlers : handler'[g].op = "clone" => handler[g].op = "clone"
    BY <1>24 DEF ExecuteLate, At, Begin, Busy, End, Goto, Send, Idle, Changes, TypeOK,
       HandlerTypes, RequestTypes
  <2>3. \A g \in Handlers : At(g, "create", "count") => handler[g].v \in Vols
    BY DEF TypeOK, HandlerTypes, Pending, Sound, At
  <2> QED
    BY <2>1, <2>2, <2>3, UsageStays
<1>25. ASSUME NEW h \in Handlers, NoWorker(h) PROVE UsageInv'
  <2>1. used' = used /\ volume' = volume /\ events \subseteq events'
    BY <1>25 DEF NoWorker, rows, Happens
  <2>2. /\ \A g \in Handlers : At(g, "create", "count")' <=> At(g, "create", "count")
        /\ \A g \in Handlers : At(g, "delete", "uncount")' <=> At(g, "delete", "uncount")
        /\ \A g \in Handlers : At(g, "create", "count") => handler'[g].v = handler[g].v
        /\ \A g \in Handlers, w \in Vols : Changes(g, w)' => Changes(g, w)
        /\ \A g \in Handlers : handler'[g].op = "clone" => handler[g].op = "clone"
    BY <1>25, RefusalTyped DEF NoWorker, At, Changes
  <2>3. \A g \in Handlers : At(g, "create", "count") => handler[g].v \in Vols
    BY DEF TypeOK, HandlerTypes, Pending, Sound, At
  <2> QED
    BY <2>1, <2>2, <2>3, UsageStays
<1>26. ASSUME NEW h \in Handlers, AgentTimeout(h) PROVE UsageInv'
  <2>1. used' = used /\ volume' = volume /\ events \subseteq events'
    BY <1>26 DEF AgentTimeout, rows, Happens
  <2>2. /\ \A g \in Handlers : At(g, "create", "count")' <=> At(g, "create", "count")
        /\ \A g \in Handlers : At(g, "delete", "uncount")' <=> At(g, "delete", "uncount")
        /\ \A g \in Handlers : At(g, "create", "count") => handler'[g].v = handler[g].v
        /\ \A g \in Handlers, w \in Vols : Changes(g, w)' => Changes(g, w)
        /\ \A g \in Handlers : handler'[g].op = "clone" => handler[g].op = "clone"
    BY <1>26, RefusalTyped DEF AgentTimeout, At, Changes
  <2>3. \A g \in Handlers : At(g, "create", "count") => handler[g].v \in Vols
    BY DEF TypeOK, HandlerTypes, Pending, Sound, At
  <2> QED
    BY <2>1, <2>2, <2>3, UsageStays
<1>27. CASE UNCHANGED vars
  BY <1>27, UsageStays DEF vars, At, Changes
<1> QED
  BY <1>1, <1>2, <1>3, <1>4, <1>5, <1>6, <1>7, <1>8, <1>9, <1>10, <1>11, <1>12, <1>13, <1>14,
     <1>15, <1>16, <1>17, <1>18, <1>19, <1>20, <1>21, <1>22, <1>23, <1>24, <1>25, <1>26, <1>27 DEF Next


(* At first nothing is stored. *)
LEMMA InitUsage == Init => UsageInv
<1> SUFFICES ASSUME Init PROVE UsageInv
  OBVIOUS
<1>1. Stored = {} /\ ToCount = {} /\ ToUncount = {}
  BY DEF Init, Stored, Exists, ToCount, ToUncount, At, Idle
<1> QED
  BY <1>1, FS_EmptySet DEF Init, UsageInv, Alone, At, Idle

-----------------------------------------------------------------------------
(* The initial state. *)
LEMMA InitTypes == Init => TypeOK
<1> SUFFICES ASSUME Init PROVE TypeOK
  OBVIOUS
<1> USE DEF Init, AnyName, AnyVol
<1>1. TableTypes
  BY DEF TableTypes, NoSnapshot
<1>2. ImageTypes
  BY DEF ImageTypes, ImageType, NoImage
<1>3. GuestTypes
  BY DEF GuestTypes
<1>4. HandlerTypes
  <2>1. handler \in [Handlers -> RequestTypes] /\ late = {}
    BY IdleTyped
  <2>2. \A q \in Pending : q = Idle
    BY DEF Pending
  <2> QED
    BY <2>1, <2>2, IdleTyped DEF HandlerTypes
<1> QED
  BY <1>1, <1>2, <1>3, <1>4 DEF TypeOK

(* At first nothing is attached. *)
LEMMA InitOwners == Init => OwnersInv
BY DEF Init, OwnersInv, Checked, OneOwner, Pending, Idle

(* At first no VM runs. *)
LEMMA InitMapped == Init => MappedInv
BY DEF Init, MappedInv

(* At first there are no images. *)
LEMMA InitLeft == Init => LeftInv
<1> SUFFICES ASSUME Init PROVE LeftInv
  OBVIOUS
<1>1. \A h \in Handlers : handler[h].op = "none" /\ handler[h].at = "idle"
  BY DEF Init, Idle
<1>2. RowsFirst /\ OneChanger
  BY <1>1 DEF RowsFirst, OneChanger, Changes
<1>3. \A h \in Handlers : Progress(h)
  BY <1>1 DEF Progress, At
<1>4. late = {} /\ ImagesHaveRows
  BY DEF Init, ImagesHaveRows, NoImage
<1> QED
  BY <1>2, <1>3, <1>4 DEF LeftInv, InOrder

(* At first no snapshot is promised. *)
LEMMA InitSnapshots == Init => SnapshotsInv
<1> SUFFICES ASSUME Init PROVE SnapshotsInv
  OBVIOUS
<1>1. \A q \in Pending : q.op = "none"
  BY DEF Init, Pending, Idle
<1>2. \A q \in Pending : Asks(q) /\ Owner(q) /\ Harmless(q)
  BY <1>1 DEF Asks, Owner, Harmless
<1>3. RowsKnown /\ NoneWithoutImage /\ OneOfAName /\ Promises
  BY DEF Init, NoSnapshot, NoImage, RowsKnown, NoneWithoutImage, OneOfAName, Promises
<1> QED
  BY <1>2, <1>3 DEF SnapshotsInv, Neat

-----------------------------------------------------------------------------
(* The types: a request names volumes, snapshots and applications that there are. *)
THEOREM VolumesTypeCorrect == Spec => []TypeOK
<1>1. Init => TypeOK
  BY InitTypes
<1>2. TypeOK /\ [Next]_vars => TypeOK'
  BY TypesKept
<1> QED
  BY <1>1, <1>2, PTL DEF Spec

(* A volume one application has for itself alone is attached to no other, unless two requests to *)
(* attach it were handled at the same time (volumes.rs:297-324).                                 *)
THEOREM OwnersAreAlone == Spec => []OneOwner
<1>1. Init => OwnersInv
  BY InitOwners
<1>2. TypeOK /\ OwnersInv /\ [Next]_vars => OwnersInv'
  BY OwnersKept
<1>3. OwnersInv => OneOwner
  BY DEF OwnersInv, OneOwner
<1> QED
  BY <1>1, <1>2, <1>3, VolumesTypeCorrect, PTL DEF Spec

(* A VM that runs has the images of all its volumes, whatever is detached or deleted meanwhile *)
(* (ceph.rs:351-387).                                                                          *)
THEOREM ImagesInUseStay == Spec => []InUseIsKept
<1>1. Init => MappedInv
  BY InitMapped
<1>2. TypeOK /\ MappedInv /\ [Next]_vars => MappedInv'
  BY MappedKept
<1>3. MappedInv => InUseIsKept
  BY DEF MappedInv, InUseIsKept
<1> QED
  BY <1>1, <1>2, <1>3, VolumesTypeCorrect, PTL DEF Spec

(* When nothing is under way, every image has its row, unless a request was given up, a volume *)
(* was deleted while it was changed, or a VM made its image anew (volumes.rs:463-520).         *)
THEOREM ImagesHaveOwners == Spec => []NothingIsLeftOver
<1>1. Init => LeftInv
  BY InitLeft
<1>2. TypeOK /\ LeftInv /\ [Next]_vars => LeftInv'
  BY LeftKept
<1>3. LeftInv => NothingIsLeftOver
  BY DEF LeftInv, InOrder, ImagesHaveRows, Usual, NothingIsLeftOver
<1> QED
  BY <1>1, <1>2, <1>3, VolumesTypeCorrect, PTL DEF Spec

(* A snapshot its owner was told of lasts until they ask to delete it, unless it was begun while *)
(* its volume was being deleted or shares its name (volumes.rs:405-608).                         *)
THEOREM SnapshotsStayPromised == Spec => []SnapshotsLast
<1>1. Init => SnapshotsInv
  BY InitSnapshots
<1>2. TypeOK /\ SnapshotsInv /\ [Next]_vars => SnapshotsInv'
  BY SnapshotsKept
<1>3. SnapshotsInv => SnapshotsLast
  BY DEF SnapshotsInv, Neat, Promises, Kept, Orderly, SnapshotsLast
<1> QED
  BY <1>1, <1>2, <1>3, VolumesTypeCorrect, PTL DEF Spec

(* When nothing is under way, the usage the tier is checked against is the number of volumes, *)
(* unless a clone was made, a handler ended between two statements, or a volume was deleted   *)
(* by two requests at a time (volumes.rs:100-180).                                            *)
THEOREM UsageIsOfRows == Spec => []UsageIsTrue
<1>1. Init => UsageInv /\ LeftInv
  BY InitUsage, InitLeft
<1>2. TypeOK /\ LeftInv /\ UsageInv /\ [Next]_vars => UsageInv' /\ LeftInv'
  BY UsageKept, LeftKept
<1>3. UsageInv => UsageIsTrue
  <2> SUFFICES ASSUME UsageInv, Quiet, Countable PROVE used = Cardinality(Stored)
    BY DEF UsageIsTrue, Countable
  <2>1. ToCount = {} /\ ToUncount = {}
    BY DEF Quiet, Busy, ToCount, ToUncount, At
  <2>2. used \in Nat /\ Cardinality(Stored) \in Nat /\ Cardinality({}) = 0
    BY CountedFinite, FS_CardinalityType, FS_EmptySet DEF UsageInv
  <2>3. used + Cardinality({}) = Cardinality(Stored) + Cardinality({})
    BY <2>1 DEF UsageInv
  <2> QED
    BY <2>2, <2>3
<1> QED
  BY <1>1, <1>2, <1>3, VolumesTypeCorrect, PTL DEF Spec

(*-------------------------------- Billing --------------------------------*)
(* The parts of BillingTypeOK: Polar, the tables, the handlers, the history. *)
PolarTypes ==
  /\ customer \in BOOLEAN /\ sub \in Products \cup {Nil}
  /\ sent \in Seq(Events) /\ Len(sent) <= MaxPublished
BillTypes ==
  /\ due \subseteq 1..Len(sent) /\ deliveries \subseteq 1..Len(sent)
  /\ bill \in Bills \cup {Nil}
HookType ==
  [at : {"free", "load", "write", "assign"}, id : Nat, bill : Bills \cup {Nil}]
OnEvent(h) ==
  /\ IF h.at = "free" THEN h = Free ELSE h.id \in 1..Len(sent)
  /\ h.at = "assign" => HasTier(sent[h.id])
HookTypes == hook \in [Hooks -> HookType] /\ \A t \in Hooks : OnEvent(hook[t])
HistoryTypes ==
  /\ newest \in 0..Len(sent) /\ owed \in Bills \cup {Nil}
  /\ upset \subseteq {"overlap", "late", "failed", "restart"}
  /\ mishaps \subseteq {"unrecorded", "failed", "restart"}

(* What Polar publishes tells of what it holds: the last event that writes all of a row names *)
(* the tenant's product.                                                                      *)
LastWhole(id) == Whole(sent[id]) /\ \A later \in (id + 1)..Len(sent) : ~ Whole(sent[later])
TellsOf(e) ==
  /\ e.kind = "subscription" => sub = Nil \/ e.product = sub
  /\ e.kind = "state" => e.product = sub
  /\ e.kind = "deleted" => sub = Nil
PolarInv ==
  /\ \A id \in 1..Len(sent) : sent[id].kind = "subscription" => sent[id].product \in Products
  /\ \A id \in 1..Len(sent) : LastWhole(id) => TellsOf(sent[id])

(* A handler that has met nobody will make of the row what is owed. *)
AtMostOne == \A t, u \in Working : t = u
Becomes(t) ==
  /\ HookAt(t, "load") => owed = Apply(bill, EventOf(t))
  /\ HookAt(t, "write") => owed = Apply(hook[t].bill, EventOf(t))
  /\ HookAt(t, "assign") => owed = Assigned(bill, TierOf[EventOf(t).product])
OneInv ==
  upset \subseteq {"late"} =>
    AtMostOne /\ (Working = {} => bill = owed) /\ \A t \in Hooks : Becomes(t)

(* An event that no handler has begun with. *)
Untold(v) == /\ v \in due /\ v \notin deliveries
             /\ \A t \in Hooks : hook[t].at # "free" => hook[t].id # v
NewerUntold == \A v \in 1..Len(sent) : v > newest => Untold(v)

(* As long as nothing is upset, what is owed is what the newest of the events that write all of *)
(* a row and have been told makes of any row.                                                   *)
UntoldAfter(w) == \A v \in 1..newest : v > w /\ Whole(sent[v]) => Untold(v)
LastTold(w) == w \in 1..newest /\ Whole(sent[w]) /\ owed = Apply(Nil, sent[w]) /\ UntoldAfter(w)
OrderInv == upset = {} => UntoldAfter(0) \/ \E w \in 1..newest : LastTold(w)

BillingTypes == PolarTypes /\ BillTypes /\ HookTypes /\ HistoryTypes
BillingIInv == BillingTypes /\ PolarInv /\ OneInv /\ NewerUntold /\ OrderInv

(*------------------------------- Operators -------------------------------*)
(* An assignment gives a row a tier. *)
LEMMA AssignedIsTyped ==
  ASSUME NEW r \in Bills \cup {Nil}, NEW tier \in Slugs
  PROVE  Assigned(r, tier) \in Bills /\ Assigned(r, tier).plan = tier
BY NilAssumption DEF Assigned, Bills

(* A row made from an event is a row. *)
LEMMA RowIsTyped ==
  ASSUME NEW r \in Bills \cup {Nil}, NEW e \in Events
  PROVE  RowFromEvent(r, e) \in Bills
<1>1. Blank \in Bills
  BY DEF Blank, Bills
<1>2. e.product \in Products \cup {Nil}
  BY DEF Events
<1>3. [plan |-> e.product, product |-> e.product] \in Bills
  BY <1>2 DEF Bills
<1> QED
  BY <1>1, <1>3 DEF RowFromEvent

(* An event with a tier has one of the tiers. *)
LEMMA TierIsTyped ==
  ASSUME NEW e \in Events, HasTier(e), e.kind = "subscription" => e.product \in Products
  PROVE  TierOf[e.product] \in Slugs
BY DEF HasTier, Slugs

(* What an event makes of a row is a row. *)
LEMMA ApplyIsTyped ==
  ASSUME NEW r \in Bills \cup {Nil}, NEW e \in Events, e.kind = "subscription" => e.product \in Products
  PROVE  Apply(r, e) \in Bills
BY RowIsTyped, TierIsTyped, AssignedIsTyped DEF Apply

(* An event that writes all of a row does not care for what was there. *)
LEMMA WholeForgets ==
  ASSUME NEW e, Whole(e), NEW r, NEW s
  PROVE  Apply(r, e) = Apply(s, e)
BY DEF Whole, Apply, RowFromEvent

(* A customer's event leaves a row as it is. *)
LEMMA CustomerLeaves ==
  ASSUME NEW e, ~ Whole(e), NEW r, r # Nil
  PROVE  Apply(r, e) = r
BY DEF Whole, Apply, RowFromEvent, HasTier

(* The event a handler works on. *)
LEMMA EventIsTyped ==
  ASSUME BillingTypes, PolarInv, NEW t \in Hooks, hook[t].at # "free"
  PROVE  /\ EventOf(t) \in Events /\ hook[t].id \in 1..Len(sent)
         /\ EventOf(t).kind = "subscription" => EventOf(t).product \in Products
<1>1. hook[t].id \in 1..Len(sent)
  BY DEF BillingTypes, HookTypes, OnEvent
<1> QED
  BY <1>1 DEF EventOf, BillingTypes, PolarTypes, PolarInv

(* The initial state satisfies the invariant. *)
LEMMA BillingInitIInv == BillingInit => BillingIInv
<1> SUFFICES ASSUME BillingInit PROVE BillingIInv
  OBVIOUS
<1>1. Default \in Slugs /\ Nil \in Bills \cup {Nil}
  BY BillingAssumption DEF Slugs
<1>2. Assigned(Nil, Default) \in Bills
  BY <1>1, AssignedIsTyped
<1>3. Len(sent) = 0 /\ sent \in Seq(Events)
  BY DEF BillingInit
<1>4. PolarTypes /\ BillTypes /\ HistoryTypes
  <2>1. PolarTypes
    <3>1. MaxPublished \in Nat
      BY BillingAssumption
    <3>2. customer \in BOOLEAN /\ sub \in Products \cup {Nil}
      BY DEF BillingInit
    <3>3. Len(sent) <= MaxPublished
      BY <1>3, <3>1
    <3> QED
      BY <1>3, <3>2, <3>3 DEF PolarTypes
  <2>2. BillTypes
    BY <1>2 DEF BillingInit, BillTypes
  <2>3. 0 \in 0..Len(sent)
    BY <1>3
  <2>4. HistoryTypes
    BY <1>2, <2>3 DEF BillingInit, HistoryTypes
  <2> QED
    BY <2>1, <2>2, <2>4
<1>5. HookTypes
  BY DEF BillingInit, HookTypes, HookType, OnEvent, Free
<1>6. PolarInv /\ NewerUntold
  BY <1>3 DEF PolarInv, NewerUntold
<1>7. Working = {} /\ \A t \in Hooks : hook[t].at = "free"
  BY DEF BillingInit, Working, Free
<1>8. OneInv
  BY <1>7 DEF BillingInit, OneInv, AtMostOne, Becomes, HookAt
<1>9. OrderInv
  BY DEF BillingInit, OrderInv, UntoldAfter
<1> QED
  BY <1>4, <1>5, <1>6, <1>8, <1>9 DEF BillingIInv, BillingTypes

(*--------------------------------- Polar ---------------------------------*)
(* What a new event changes. *)
LEMMA Published ==
  ASSUME BillingTypes, NEW e \in Events, Publish(e)
  PROVE  /\ sent' \in Seq(Events) /\ Len(sent') = Len(sent) + 1 /\ Len(sent') <= MaxPublished
         /\ sent'[Len(sent) + 1] = e /\ \A i \in 1..Len(sent) : sent'[i] = sent[i]
         /\ due' = due \cup {Len(sent) + 1}
         /\ Len(sent) \in Nat
<1>1. sent \in Seq(Events) /\ sent' = Append(sent, e) /\ Len(sent) < MaxPublished
  BY DEF BillingTypes, PolarTypes, Publish
<1>2. /\ sent' \in Seq(Events) /\ Len(sent') = Len(sent) + 1
      /\ sent'[Len(sent) + 1] = e /\ \A i \in 1..Len(sent) : sent'[i] = sent[i]
      /\ Len(sent) \in Nat
  BY <1>1, AppendProperties, LenProperties
<1>3. MaxPublished \in Nat
  BY BillingAssumption
<1> QED
  BY <1>1, <1>2, <1>3 DEF Publish

(* A new event, which tells of what Polar holds now, disturbs nobody. *)
LEMMA PublishIInv ==
  ASSUME BillingIInv, NEW e \in Events, Publish(e),
         UNCHANGED <<deliveries, bill, hook, history>>,
         customer' \in BOOLEAN, sub' \in Products \cup {Nil},
         e.kind = "subscription" => e.product \in Products,
         Whole(e) => TellsOf(e)',
         ~ Whole(e) => sub' = sub
  PROVE  BillingIInv'
<1> USE DEF BillingIInv
<1>1. /\ sent' \in Seq(Events) /\ Len(sent') = Len(sent) + 1 /\ Len(sent') <= MaxPublished
      /\ sent'[Len(sent) + 1] = e /\ \A i \in 1..Len(sent) : sent'[i] = sent[i]
      /\ due' = due \cup {Len(sent) + 1}
      /\ Len(sent) \in Nat
  BY Published
<1>2. UNCHANGED <<newest, owed, upset, mishaps>>
  BY DEF history
<1>3. PolarTypes'
  BY <1>1 DEF PolarTypes
<1>4. BillTypes' /\ HistoryTypes'
  <2>1. \A i \in 0..Len(sent) : i \in 0..Len(sent')
    BY <1>1
  <2>2. \A i \in 1..Len(sent) : i \in 1..Len(sent')
    BY <1>1
  <2>3. Len(sent) + 1 \in 1..Len(sent')
    BY <1>1
  <2> QED
    BY <1>1, <1>2, <2>1, <2>2, <2>3 DEF BillingTypes, BillTypes, HistoryTypes
<1>5. HookTypes'
  <2> SUFFICES ASSUME NEW t \in Hooks PROVE OnEvent(hook[t])'
    BY DEF BillingTypes, HookTypes
  <2>1. OnEvent(hook[t]) /\ hook'[t] = hook[t]
    BY DEF BillingTypes, HookTypes
  <2>2. CASE hook[t].at = "free"
    BY <2>1, <2>2 DEF OnEvent, Free
  <2>3. CASE hook[t].at # "free"
    <3>1. hook[t].id \in 1..Len(sent)
      BY <2>1, <2>3 DEF OnEvent
    <3>2. hook[t].id \in 1..Len(sent') /\ sent'[hook[t].id] = sent[hook[t].id]
      BY <3>1, <1>1
    <3> QED
      BY <2>1, <2>3, <3>2 DEF OnEvent, HasTier
  <2> QED
    BY <2>2, <2>3
<1>6. PolarInv'
  <2>1. ASSUME NEW id \in 1..Len(sent') PROVE id \in 1..Len(sent) \/ id = Len(sent) + 1
    BY <1>1
  <2>2. \A id \in 1..Len(sent') : sent'[id].kind = "subscription" => sent'[id].product \in Products
    BY <1>1, <2>1 DEF PolarInv
  <2>3. ASSUME NEW id \in 1..Len(sent'), LastWhole(id)' PROVE TellsOf(sent[id])'
    <3>1. CASE id = Len(sent) + 1
      BY <3>1, <1>1, <2>3 DEF LastWhole, Whole
    <3>2. CASE id \in 1..Len(sent)
      <4>1. Len(sent) + 1 \in (id + 1)..Len(sent')
        BY <3>2, <1>1
      <4>2. ~ Whole(e) /\ sub' = sub
        BY <4>1, <2>3, <1>1 DEF LastWhole, Whole
      <4>3. ASSUME NEW later \in (id + 1)..Len(sent)
            PROVE  later \in 1..Len(sent) /\ later \in (id + 1)..Len(sent')
        BY <3>2, <1>1
      <4>4. LastWhole(id)
        BY <4>3, <3>2, <2>3, <1>1 DEF LastWhole, Whole
      <4>5. TellsOf(sent[id])
        BY <4>4, <3>2 DEF PolarInv
      <4> QED
        BY <4>2, <4>5, <3>2, <1>1 DEF TellsOf
    <3> QED
      BY <2>1, <3>1, <3>2
  <2> QED
    BY <2>2, <2>3 DEF PolarInv
<1>7. ASSUME NEW t \in Hooks, hook[t].at # "free" PROVE EventOf(t)' = EventOf(t)
  BY <1>1, <1>7, EventIsTyped DEF EventOf
<1>8. OneInv'
  <2>1. Working' = Working
    BY DEF Working
  <2>2. ASSUME NEW t \in Hooks, Becomes(t) PROVE Becomes(t)'
    BY <1>2, <1>7, <2>2 DEF Becomes, HookAt
  <2> QED
    BY <1>2, <2>1, <2>2 DEF OneInv, AtMostOne
<1>9. ASSUME NEW v \in 1..Len(sent), Untold(v) PROVE Untold(v)'
  BY <1>1, <1>9 DEF Untold
<1>10. NewerUntold'
  <2> SUFFICES ASSUME NEW v \in 1..Len(sent'), v > newest PROVE Untold(v)'
    BY <1>2 DEF NewerUntold
  <2>1. CASE v \in 1..Len(sent)
    BY <2>1, <1>9 DEF NewerUntold
  <2>2. CASE v = Len(sent) + 1
    <3>1. v \notin 1..Len(sent)
      BY <2>2, <1>1
    <3>2. v \in due' /\ v \notin deliveries'
      BY <3>1, <2>2, <1>1 DEF BillingTypes, BillTypes
    <3>3. \A t \in Hooks : hook[t].at # "free" => hook[t].id # v
      BY <3>1, EventIsTyped
    <3> QED
      BY <3>2, <3>3 DEF Untold
  <2> QED
    BY <2>1, <2>2, <1>1
<1>11. OrderInv'
  <2>1. newest \in 0..Len(sent)
    BY DEF BillingTypes, HistoryTypes
  <2>2. ASSUME NEW v \in 1..newest PROVE v \in 1..Len(sent) /\ sent'[v] = sent[v]
    BY <1>1, <2>1
  <2>3. ASSUME NEW w, UntoldAfter(w) PROVE UntoldAfter(w)'
    BY <1>2, <1>9, <2>2, <2>3 DEF UntoldAfter
  <2>4. ASSUME NEW w \in 1..newest, LastTold(w) PROVE LastTold(w)'
    BY <1>2, <2>2, <2>3, <2>4 DEF LastTold
  <2> QED
    BY <1>2, <2>3, <2>4 DEF OrderInv
<1> QED
  BY <1>3, <1>4, <1>5, <1>6, <1>8, <1>10, <1>11 DEF BillingTypes

(* Subscriptions, and the customer's own events. *)
LEMMA PolarIInv ==
  ASSUME BillingIInv,
         (\E p \in Products : Subscribe(p)) \/ Renew \/ Revoke \/ CustomerDeleted \/ StateChanged \/ OpenPortal
  PROVE  BillingIInv'
<1>1. ASSUME NEW kind \in {"customer", "deleted", "state", "subscription"},
             NEW p \in Products \cup {Nil}
      PROVE  /\ Event(kind, p) \in Events
             /\ Event(kind, p).kind = kind /\ Event(kind, p).product = p
  BY DEF Event, Events
<1>2. customer \in BOOLEAN /\ sub \in Products \cup {Nil}
  BY DEF BillingIInv, BillingTypes, PolarTypes
<1>3. ASSUME NEW p \in Products, Subscribe(p) PROVE BillingIInv'
  BY <1>1, <1>2, <1>3, PublishIInv DEF Subscribe, TellsOf, Whole
<1>4. CASE Revoke
  BY <1>1, <1>2, <1>4, PublishIInv DEF Revoke, TellsOf, Whole
<1>5. CASE CustomerDeleted
  BY <1>1, <1>2, <1>5, PublishIInv DEF CustomerDeleted, TellsOf, Whole
<1>6. CASE StateChanged
  BY <1>1, <1>2, <1>6, PublishIInv DEF StateChanged, TellsOf, Whole
<1>7. CASE OpenPortal
  BY <1>1, <1>2, <1>7, PublishIInv DEF OpenPortal, TellsOf, Whole
<1>8. CASE Renew
  BY <1>1, <1>2, <1>8, PublishIInv DEF Renew, TellsOf, Whole
<1> QED
  BY <1>3, <1>4, <1>5, <1>6, <1>7, <1>8

(*-------------------------------- Handlers -------------------------------*)
(* The plan's row and the row a handler has read. *)
LEMMA RowsAreTyped ==
  ASSUME BillingTypes
  PROVE  /\ bill \in Bills \cup {Nil} /\ owed \in Bills \cup {Nil}
         /\ \A t \in Hooks : hook[t].bill \in Bills \cup {Nil}
BY DEF BillingTypes, BillTypes, HistoryTypes, HookTypes, HookType

(* A step that begins with no event leaves the events' order as it was. *)
LEMMA OrderStays ==
  ASSUME NewerUntold, OrderInv, UNCHANGED <<sent, deliveries, newest, owed>>, upset' = {} => upset = {},
         \A t \in Hooks : hook'[t].at # "free" => hook[t].at # "free" /\ hook'[t].id = hook[t].id,
         \A v \in due \ due' :
           v \in deliveries \/ \E t \in Hooks : hook[t].at # "free" /\ hook[t].id = v
  PROVE  NewerUntold' /\ OrderInv'
<1>1. ASSUME NEW v, Untold(v) PROVE Untold(v)'
  BY <1>1 DEF Untold
<1>2. NewerUntold'
  BY <1>1 DEF NewerUntold
<1>3. ASSUME NEW w, UntoldAfter(w) PROVE UntoldAfter(w)'
  BY <1>1, <1>3 DEF UntoldAfter
<1>4. ASSUME NEW w \in 1..newest, LastTold(w) PROVE LastTold(w)'
  BY <1>3, <1>4 DEF LastTold
<1>5. OrderInv'
  BY <1>3, <1>4 DEF OrderInv
<1> QED
  BY <1>2, <1>5

(* PolarInv speaks of what Polar holds. *)
LEMMA PolarStays == ASSUME PolarInv, UNCHANGED polar PROVE PolarInv'
BY DEF PolarInv, polar, LastWhole, TellsOf

(* A delivery that is known already. *)
LEMMA SkipKnownIInv ==
  ASSUME BillingIInv, NEW t \in Hooks, NEW id \in due, SkipKnown(t, id)
  PROVE  BillingIInv'
<1> USE DEF BillingIInv
<1>1. /\ due' = due \ {id} /\ id \in deliveries
      /\ UNCHANGED <<customer, sub, sent, deliveries, bill, hook, newest, owed, upset, mishaps>>
  BY DEF SkipKnown, polar, history
<1>2. BillingTypes'
  BY <1>1 DEF BillingTypes, PolarTypes, BillTypes, HookTypes, OnEvent, HistoryTypes
<1>3. NewerUntold' /\ OrderInv'
  BY <1>1, OrderStays
<1>4. OneInv'
  BY <1>1 DEF OneInv, AtMostOne, Working, Becomes, HookAt, EventOf
<1>5. PolarInv'
  BY PolarStays DEF SkipKnown
<1> QED
  BY <1>2, <1>3, <1>4, <1>5

(* A handler begins with an event. *)
LEMMA AcceptIInv ==
  ASSUME BillingIInv, NEW t \in Hooks, FirstFree(t), NEW id \in due, Accept(t, id),
         UNCHANGED <<polar, due, bill>>,
         deliveries' = deliveries \/ deliveries' = deliveries \cup {id},
         mishaps' = mishaps \/ mishaps' = mishaps \cup {"unrecorded"}
  PROVE  BillingIInv'
<1> USE DEF BillingIInv
<1> DEFINE e == sent[id]
           taken == [at |-> "load", id |-> id, bill |-> Nil]
<1>1. id \in 1..Len(sent) /\ Len(sent) \in Nat /\ newest \in 0..Len(sent) /\ sent \in Seq(Events)
  BY LenProperties DEF BillingTypes, BillTypes, PolarTypes, HistoryTypes
<1>2. /\ UNCHANGED <<customer, sub, sent, due, bill>>
      /\ hook' = [hook EXCEPT ![t] = taken]
      /\ owed' = Apply(owed, e)
      /\ newest' = IF id > newest THEN id ELSE newest
  BY DEF polar, Accept
<1>3. /\ upset' \subseteq {"overlap", "late", "failed", "restart"}
      /\ upset' \subseteq {"late"} => Working = {} /\ (Whole(e) \/ upset \subseteq {"late"})
      /\ upset' = {} => Working = {} /\ ~ (id < newest) /\ (Whole(e) \/ upset = {})
  BY DEF Accept, BillingTypes, HistoryTypes
<1>4. e \in Events /\ (e.kind = "subscription" => e.product \in Products)
  BY <1>1 DEF PolarInv
<1>5. owed' \in Bills
  BY <1>2, <1>4, ApplyIsTyped, RowsAreTyped
<1>6. newest' \in 0..Len(sent) /\ newest' \in Nat /\ newest' >= newest /\ newest' >= id
  BY <1>1, <1>2
<1>7. hook \in [Hooks -> HookType] /\ hook[t].at = "free"
  BY DEF BillingTypes, HookTypes, FirstFree, HookAt
<1>8. hook'[t] = taken /\ \A u \in Hooks : u # t => hook'[u] = hook[u]
  BY <1>2, <1>7
<1>9. taken \in HookType
  BY <1>1 DEF HookType
<1>10. hook' \in [Hooks -> HookType]
  BY <1>2, <1>7, <1>9
<1>11. ASSUME NEW u \in Hooks PROVE OnEvent(hook[u])'
  <2>1. CASE u = t
    BY <1>1, <1>2, <1>8, <2>1 DEF OnEvent
  <2>2. CASE u # t
    BY <1>2, <1>8, <2>2 DEF OnEvent, BillingTypes, HookTypes, HasTier
  <2> QED
    BY <2>1, <2>2
<1>12. BillingTypes'
  <2>1. PolarTypes'
    BY <1>2 DEF BillingTypes, PolarTypes
  <2>2. BillTypes'
    BY <1>1, <1>2 DEF BillingTypes, BillTypes
  <2>3. HookTypes'
    BY <1>10, <1>11 DEF HookTypes
  <2>4. HistoryTypes'
    BY <1>2, <1>3, <1>5, <1>6 DEF BillingTypes, HistoryTypes
  <2> QED
    BY <2>1, <2>2, <2>3, <2>4 DEF BillingTypes
<1>13. PolarInv'
  BY PolarStays
<1>14. OneInv'
  <2> SUFFICES ASSUME upset' \subseteq {"late"}
               PROVE  /\ AtMostOne' /\ Working' # {}
                      /\ \A u \in Hooks : Becomes(u)'
    BY DEF OneInv
  <2>1. Working = {}
    BY <1>3
  <2>2. ASSUME NEW u \in Hooks PROVE hook'[u].at = "free" \/ u = t
    <3>1. hook[u].at \in {"free", "load", "write", "assign"}
      BY <1>7 DEF HookType
    <3> QED
      BY <1>8, <2>1, <3>1 DEF Working
  <2>3. Working' = {t}
    BY <1>8, <2>2 DEF Working
  <2>4. Apply(owed, e) = Apply(bill, e)
    <3>1. CASE Whole(e)
      BY <3>1, WholeForgets
    <3>2. CASE upset \subseteq {"late"}
      BY <3>2, <2>1 DEF OneInv
    <3> QED
      BY <1>3, <3>1, <3>2
  <2>5. Becomes(t)'
    BY <1>2, <1>8, <2>4 DEF Becomes, HookAt, EventOf, Apply, RowFromEvent, HasTier, Assigned
  <2>6. ASSUME NEW u \in Hooks, u # t PROVE Becomes(u)'
    BY <2>2, <2>6 DEF Becomes, HookAt
  <2> QED
    BY <2>3, <2>5, <2>6 DEF AtMostOne
<1>15. ASSUME NEW v, v # id, Untold(v) PROVE Untold(v)'
  <2>1. v \in due' /\ v \notin deliveries'
    BY <1>2, <1>15 DEF Untold
  <2>2. ASSUME NEW u \in Hooks, hook'[u].at # "free" PROVE hook'[u].id # v
    BY <1>8, <1>15, <2>2 DEF Untold
  <2> QED
    BY <2>1, <2>2 DEF Untold
<1>16. ASSUME NEW v \in 1..Len(sent), v > newest, v # id PROVE Untold(v)'
  BY <1>15, <1>16 DEF NewerUntold
<1>17. NewerUntold'
  <2> SUFFICES ASSUME NEW v \in 1..Len(sent), v > newest' PROVE Untold(v)'
    BY <1>2 DEF NewerUntold
  <2>1. v > newest /\ v # id
    BY <1>1, <1>6
  <2> QED
    BY <2>1, <1>16
<1>18. OrderInv'
  <2> SUFFICES ASSUME upset' = {} PROVE UntoldAfter(0)' \/ \E w \in 1..newest' : LastTold(w)'
    BY DEF OrderInv
  <2>1. newest' = id /\ newest <= id
    BY <1>1, <1>2, <1>3
  <2>2. CASE Whole(e)
    <3>1. id \in 1..newest'
      BY <1>1, <2>1
    <3>2. owed' = Apply(Nil, e)
      BY <1>2, <2>2, WholeForgets
    <3>3. UntoldAfter(id)'
      <4>1. \A v \in 1..id : ~ (v > id)
        BY <1>1
      <4> QED
        BY <2>1, <4>1 DEF UntoldAfter
    <3>4. Whole(sent[id])' /\ Apply(Nil, sent[id])' = Apply(Nil, e)
      BY <1>2, <2>2 DEF Whole, Apply, RowFromEvent, HasTier, Assigned
    <3> QED
      BY <3>1, <3>2, <3>3, <3>4 DEF LastTold
  <2>3. CASE ~ Whole(e)
    <3>1. upset = {}
      BY <1>3, <2>3
    <3>2. ASSUME NEW w \in 0..newest, UntoldAfter(w) PROVE UntoldAfter(w)'
      <4> SUFFICES ASSUME NEW v \in 1..newest', v > w, Whole(sent[v]) PROVE Untold(v)'
        BY <1>2 DEF UntoldAfter
      <4>1. v # id /\ v \in 1..Len(sent)
        BY <1>1, <2>1, <2>3
      <4>2. CASE v > newest
        BY <4>1, <4>2, <1>16
      <4>3. CASE v \in 1..newest
        BY <4>1, <4>3, <3>2, <1>15 DEF UntoldAfter
      <4> QED
        BY <4>1, <4>2, <4>3, <1>1
    <3>3. ASSUME NEW w \in 1..newest, LastTold(w) PROVE w \in 1..newest' /\ LastTold(w)'
      <4>1. w \in 1..Len(sent) /\ w \in 1..newest'
        BY <1>1, <1>6
      <4>2. sent[w] \in Events /\ (sent[w].kind = "subscription" => sent[w].product \in Products)
        BY <4>1, <1>1 DEF PolarInv
      <4>3. Apply(Nil, sent[w]) # Nil
        BY <4>2, ApplyIsTyped, NilAssumption
      <4>4. owed' = owed
        BY <1>2, <2>3, <3>3, <4>3, CustomerLeaves DEF LastTold
      <4>5. w \in 0..newest
        BY <1>1
      <4> QED
        BY <1>2, <3>2, <3>3, <4>1, <4>4, <4>5
           DEF LastTold, Whole, Apply, RowFromEvent, HasTier, Assigned
    <3>4. 0 \in 0..newest
      BY <1>1
    <3> QED
      BY <3>1, <3>2, <3>3, <3>4 DEF OrderInv
  <2> QED
    BY <2>2, <2>3
<1> QED
  BY <1>12, <1>13, <1>14, <1>17, <1>18

(* The identifier is recorded, or cannot be. *)
LEMMA RecordIInv ==
  ASSUME BillingIInv, NEW t \in Hooks, NEW id \in due, Record(t, id) \/ RecordFails(t, id)
  PROVE  BillingIInv'
<1>1. CASE Record(t, id)
  BY <1>1, AcceptIInv DEF Record
<1>2. CASE RecordFails(t, id)
  BY <1>2, AcceptIInv DEF RecordFails, Mishap
<1> QED
  BY <1>1, <1>2

(* A handler with an event is at work, and it is the only one while nothing is upset. *)
LEMMA HandlerIsTyped ==
  ASSUME BillingIInv, NEW t \in Hooks, hook[t].at # "free"
  PROVE  /\ hook \in [Hooks -> HookType] /\ t \in Working
         /\ EventOf(t) \in Events /\ hook[t].id \in 1..Len(sent)
         /\ EventOf(t).kind = "subscription" => EventOf(t).product \in Products
         /\ hook[t].bill \in Bills \cup {Nil} /\ bill \in Bills \cup {Nil}
<1>1. hook \in [Hooks -> HookType]
  BY DEF BillingIInv, BillingTypes, HookTypes
<1>2. hook[t].at \in {"load", "write", "assign"}
  BY <1>1 DEF HookType
<1> QED
  BY <1>1, <1>2, EventIsTyped, RowsAreTyped DEF BillingIInv, Working

(* What a step of a handler leaves to prove. *)
LEMMA HandlerIInv ==
  ASSUME BillingIInv, NEW t \in Hooks, hook[t].at # "free", NEW h,
         UNCHANGED <<polar, deliveries, newest, owed>>,
         hook' = [hook EXCEPT ![t] = h],
         h = Free \/ (h \in HookType /\ h.at # "free" /\ h.id = hook[t].id
                      /\ (h.at = "assign" => HasTier(EventOf(t)))),
         due' = due \/ due' = due \ {hook[t].id},
         bill' \in Bills \cup {Nil},
         mishaps' \subseteq {"unrecorded", "failed", "restart"},
         upset' = upset \/ upset' = upset \cup {"failed"},
         upset' \subseteq {"late"} /\ Working = {t} /\ Becomes(t) =>
           /\ h = Free => bill' = owed
           /\ h.at = "load" => owed = Apply(bill', EventOf(t))
           /\ h.at = "write" => owed = Apply(h.bill, EventOf(t))
           /\ h.at = "assign" => owed = Assigned(bill', TierOf[EventOf(t).product])
  PROVE  BillingIInv'
<1> USE DEF BillingIInv
<1>1. UNCHANGED <<customer, sub, sent, deliveries, newest, owed>>
  BY DEF polar
<1>2. /\ hook \in [Hooks -> HookType] /\ t \in Working
      /\ hook[t].id \in 1..Len(sent)
  BY HandlerIsTyped
<1>3. hook'[t] = h /\ \A u \in Hooks : u # t => hook'[u] = hook[u]
  BY <1>2
<1>4. Free \in HookType /\ Free.at = "free"
  BY DEF Free, HookType
<1>5. BillingTypes'
  <2>1. PolarTypes'
    BY <1>1 DEF BillingTypes, PolarTypes
  <2>2. BillTypes'
    BY <1>1 DEF BillingTypes, BillTypes
  <2>3. HookTypes'
    <3>1. hook' \in [Hooks -> HookType]
      BY <1>2, <1>4
    <3>2. ASSUME NEW u \in Hooks PROVE OnEvent(hook[u])'
      <4>1. CASE u = t /\ h = Free
        BY <4>1, <1>3, <1>4 DEF OnEvent
      <4>2. CASE u = t /\ h # Free
        BY <4>2, <1>1, <1>2, <1>3 DEF OnEvent, EventOf, HasTier
      <4>3. CASE u # t
        BY <4>3, <1>1, <1>3 DEF OnEvent, BillingTypes, HookTypes, HasTier
      <4> QED
        BY <4>1, <4>2, <4>3
    <3> QED
      BY <3>1, <3>2 DEF HookTypes
  <2>4. HistoryTypes'
    BY <1>1 DEF BillingTypes, HistoryTypes
  <2> QED
    BY <2>1, <2>2, <2>3, <2>4 DEF BillingTypes
<1>6. PolarInv'
  BY PolarStays
<1>7. OneInv'
  <2> SUFFICES ASSUME upset' \subseteq {"late"}
               PROVE  /\ AtMostOne' /\ (Working' = {} => bill' = owed')
                      /\ \A u \in Hooks : Becomes(u)'
    BY DEF OneInv
  <2>1. upset' = upset /\ AtMostOne /\ Becomes(t)
    BY DEF OneInv
  <2>2. Working = {t}
    BY <1>2, <2>1 DEF AtMostOne
  <2>3. ASSUME NEW u \in Hooks, u # t PROVE hook'[u].at = "free"
    <3>1. hook[u].at \in {"free", "load", "write", "assign"}
      BY <1>2 DEF HookType
    <3> QED
      BY <1>3, <2>2, <2>3, <3>1 DEF Working
  <2>4. Working' \subseteq {t}
    BY <2>3 DEF Working
  <2>5. Working' = {} => h = Free
    <3> SUFFICES ASSUME h # Free PROVE t \in Working'
      OBVIOUS
    <3>1. h.at \in {"load", "write", "assign"}
      BY DEF HookType
    <3> QED
      BY <1>3, <3>1 DEF Working
  <2>6. Becomes(t)'
    <3>1. CASE h = Free
      BY <3>1, <1>3, <1>4 DEF Becomes, HookAt
    <3>2. CASE h # Free
      <4>1. EventOf(t)' = EventOf(t)
        BY <1>1, <1>3, <3>2 DEF EventOf
      <4> QED
        BY <1>1, <1>3, <2>1, <2>2, <4>1 DEF Becomes, HookAt, Apply, RowFromEvent, HasTier, Assigned
    <3> QED
      BY <3>1, <3>2
  <2>7. ASSUME NEW u \in Hooks, u # t PROVE Becomes(u)'
    BY <2>3, <2>7 DEF Becomes, HookAt
  <2> QED
    BY <1>1, <2>1, <2>2, <2>4, <2>5, <2>6, <2>7 DEF AtMostOne
<1>8. NewerUntold' /\ OrderInv'
  <2>1. \A u \in Hooks : hook'[u].at # "free" => hook[u].at # "free" /\ hook'[u].id = hook[u].id
    BY <1>3, <1>4
  <2>2. upset' = {} => upset = {}
    OBVIOUS
  <2> QED
    BY <1>1, <2>1, <2>2, OrderStays
<1> QED
  BY <1>5, <1>6, <1>7, <1>8

(* The steps of a handler. *)
LEMMA LoadIInv == ASSUME BillingIInv, NEW t \in Hooks, Load(t) PROVE BillingIInv'
<1>1. HookAt(t, "load") /\ hook[t].at # "free"
  BY DEF Load, HookAt
<1>2. hook \in [Hooks -> HookType] /\ bill \in Bills \cup {Nil}
  BY <1>1, HandlerIsTyped
<1> DEFINE h == [hook[t] EXCEPT !.at = "write", !.bill = bill]
<1>3. hook' = [hook EXCEPT ![t] = h] /\ h \in HookType /\ h.at = "write" /\ h.id = hook[t].id /\ h.bill = bill
  BY <1>2 DEF Load, HookType
<1>4. h # Free
  BY <1>3 DEF Free
<1> QED
  BY <1>1, <1>2, <1>3, <1>4, HandlerIInv
     DEF Load, history, Becomes, BillingIInv, BillingTypes, HistoryTypes

(* The row is written; the tier is still to come, or the handler is done. *)
LEMMA WriteIInv == ASSUME BillingIInv, NEW t \in Hooks, Write(t) PROVE BillingIInv'
<1>1. HookAt(t, "write") /\ hook[t].at # "free"
  BY DEF Write, HookAt
<1>2. /\ hook \in [Hooks -> HookType] /\ hook[t].bill \in Bills \cup {Nil} /\ EventOf(t) \in Events
  BY <1>1, HandlerIsTyped
<1>3. bill' = RowFromEvent(hook[t].bill, EventOf(t)) /\ bill' \in Bills
  BY <1>2, RowIsTyped DEF Write
<1>4. mishaps' = mishaps /\ upset' = upset /\ UNCHANGED <<polar, deliveries, newest, owed>>
      /\ mishaps \subseteq {"unrecorded", "failed", "restart"}
  BY DEF Write, history, BillingIInv, BillingTypes, HistoryTypes
<1>5. CASE HasTier(EventOf(t))
  <2> DEFINE h == [hook[t] EXCEPT !.at = "assign"]
  <2>1. hook' = [hook EXCEPT ![t] = h] /\ h \in HookType /\ h.at = "assign" /\ h.id = hook[t].id /\ due' = due
    BY <1>2, <1>5 DEF Write, HookGoes, HookType
  <2>2. h # Free
    BY <2>1 DEF Free
  <2>3. Becomes(t) => owed = Assigned(bill', TierOf[EventOf(t).product])
    BY <1>1, <1>3, <1>5 DEF Becomes, Apply
  <2> HIDE DEF h
  <2> QED
    BY <1>1, <1>3, <1>4, <1>5, <2>1, <2>2, <2>3, HandlerIInv
<1>6. CASE ~ HasTier(EventOf(t))
  <2>1. hook' = [hook EXCEPT ![t] = Free] /\ due' = due \ {hook[t].id}
    BY <1>6 DEF Write, Answer
  <2>2. Becomes(t) => owed = bill'
    BY <1>1, <1>3, <1>6 DEF Becomes, Apply
  <2>3. Free.at = "free"
    BY DEF Free
  <2> QED
    BY <1>1, <1>3, <1>4, <2>1, <2>2, <2>3, HandlerIInv
<1> QED
  BY <1>5, <1>6

(* The tier is assigned. *)
LEMMA AssignIInv == ASSUME BillingIInv, NEW t \in Hooks, Assign(t) PROVE BillingIInv'
<1>1. HookAt(t, "assign") /\ hook[t].at # "free"
  BY DEF Assign, HookAt
<1>2. HasTier(EventOf(t))
  BY <1>1 DEF BillingIInv, BillingTypes, HookTypes, OnEvent, HookAt, EventOf
<1>3. bill' \in Bills
  BY <1>1, <1>2, HandlerIsTyped, TierIsTyped, AssignedIsTyped DEF Assign
<1>4. hook' = [hook EXCEPT ![t] = Free] /\ due' = due \ {hook[t].id}
  BY DEF Assign, Answer
<1>5. mishaps' = mishaps /\ upset' = upset /\ UNCHANGED <<polar, deliveries, newest, owed>>
      /\ mishaps \subseteq {"unrecorded", "failed", "restart"}
  BY DEF Assign, history, BillingIInv, BillingTypes, HistoryTypes
<1>6. Becomes(t) => bill' = owed
  BY <1>1 DEF Becomes, Assign
<1>7. Free.at = "free"
  BY DEF Free
<1> QED
  BY <1>1, <1>3, <1>4, <1>5, <1>6, <1>7, HandlerIInv

(* A handler that fails upsets the row. *)
LEMMA HandlerFailsIInv ==
  ASSUME BillingIInv, NEW t \in Hooks, WebhookFails(t) \/ AssignFails(t) PROVE BillingIInv'
<1>1. hook[t].at # "free"
  BY DEF WebhookFails, AssignFails, HookAt
<1>2. hook' = [hook EXCEPT ![t] = Free] /\ (due' = due \/ due' = due \ {hook[t].id})
  BY DEF WebhookFails, AssignFails, Answer, Refuse
<1>3. /\ UNCHANGED <<polar, deliveries, bill, newest, owed>>
      /\ mishaps' = mishaps \cup {"failed"} /\ upset' = upset \cup {"failed"}
  BY DEF WebhookFails, AssignFails, Mishap
<1>4. mishaps \subseteq {"unrecorded", "failed", "restart"} /\ bill \in Bills \cup {Nil}
  BY DEF BillingIInv, BillingTypes, HistoryTypes, BillTypes
<1>5. Free.at = "free"
  BY DEF Free
<1>6. ~ (upset' \subseteq {"late"}) /\ mishaps' \subseteq {"unrecorded", "failed", "restart"}
  BY <1>3, <1>4
<1> QED
  BY <1>1, <1>2, <1>3, <1>4, <1>5, <1>6, HandlerIInv

(* The API is started again. *)
LEMMA ApiRestartsIInv == BillingIInv /\ ApiRestarts => BillingIInv'
<1> SUFFICES ASSUME BillingIInv, ApiRestarts PROVE BillingIInv'
  OBVIOUS
<1> USE DEF BillingIInv
<1>1. /\ UNCHANGED <<customer, sub, sent, due, deliveries, newest, owed>>
      /\ hook' = [t \in Hooks |-> Free] /\ upset' = upset \cup {"restart"}
      /\ mishaps' = mishaps \cup {"restart"}
  BY DEF ApiRestarts, Mishap, polar
<1>2. Default \in Slugs
  BY BillingAssumption DEF Slugs
<1>3. bill' \in Bills \cup {Nil}
  BY <1>2, AssignedIsTyped, RowsAreTyped DEF ApiRestarts
<1>4. ~ (upset' \subseteq {"late"})
  BY <1>1
<1>5. \A t \in Hooks : hook'[t] = Free /\ hook'[t].at = "free"
  BY <1>1 DEF Free
<1>6. HookTypes'
  BY <1>1, <1>5 DEF HookTypes, HookType, OnEvent, Free
<1>7. BillingTypes'
  BY <1>1, <1>3, <1>6 DEF BillingTypes, PolarTypes, BillTypes, HistoryTypes
<1>8. NewerUntold' /\ OrderInv'
  BY <1>1, <1>4, <1>5, OrderStays
<1>9. PolarInv' /\ OneInv'
  BY <1>4, PolarStays DEF OneInv, ApiRestarts
<1> QED
  BY <1>7, <1>8, <1>9

(* Every step keeps the invariant, and so does one that changes nothing. *)
LEMMA BillingNextIInv == BillingIInv /\ [BillingNext]_billingVars => BillingIInv'
<1> SUFFICES ASSUME BillingIInv, [BillingNext]_billingVars PROVE BillingIInv'
  OBVIOUS
<1>1. ASSUME NEW t \in Hooks, NEW id \in due, SkipKnown(t, id) \/ Record(t, id) \/ RecordFails(t, id)
      PROVE  BillingIInv'
  BY <1>1, SkipKnownIInv, RecordIInv
<1>2. ASSUME NEW t \in Hooks, Handle(t) \/ WebhookFails(t) \/ AssignFails(t)
      PROVE  BillingIInv'
  BY <1>2, LoadIInv, WriteIInv, AssignIInv, HandlerFailsIInv DEF Handle
<1>3. CASE UNCHANGED billingVars
  <2>1. /\ UNCHANGED <<customer, sub, sent, due, deliveries, bill, hook>>
        /\ UNCHANGED <<newest, owed, upset, mishaps>> /\ UNCHANGED polar
    BY <1>3 DEF billingVars, polar, history
  <2>2. BillingTypes'
    BY <2>1 DEF BillingIInv, BillingTypes, PolarTypes, BillTypes, HookTypes, OnEvent, HasTier, HistoryTypes
  <2>3. OneInv'
    BY <2>1 DEF BillingIInv, OneInv, AtMostOne, Working, Becomes, HookAt, EventOf, Apply,
                RowFromEvent, HasTier, Assigned
  <2>4. NewerUntold' /\ OrderInv'
    BY <2>1, OrderStays DEF BillingIInv
  <2>5. PolarInv'
    BY <2>1, PolarStays DEF BillingIInv
  <2> QED
    BY <2>2, <2>3, <2>4, <2>5 DEF BillingIInv
<1> QED
  BY <1>1, <1>2, <1>3, PolarIInv, ApiRestartsIInv DEF BillingNext

(* The invariant holds of the specification. *)
LEMMA BillingIInvHolds == BillingSpec => []BillingIInv
BY BillingInitIInv, BillingNextIInv, PTL DEF BillingSpec

(* Whether a step has met an event that was published alone is known in every state. *)
ClearType == clear \in BOOLEAN
LEMMA ClearIsTyped == BillingSpec => []ClearType
<1>1. BillingInit => ClearType
  BY DEF BillingInit, ClearType
<1>2. ClearType /\ [BillingNext]_billingVars => ClearType'
  <2> SUFFICES ASSUME clear \in BOOLEAN, [BillingNext]_billingVars PROVE clear' \in BOOLEAN
    BY DEF ClearType
  <2>1. Answered \in BOOLEAN
    BY DEF Answered
  <2>2. ASSUME NEW e, Publish(e) PROVE clear' \in BOOLEAN
    BY <2>1, <2>2 DEF Publish
  <2>3. ASSUME NEW p \in Products, Subscribe(p) PROVE clear' \in BOOLEAN
    BY <2>2, <2>3 DEF Subscribe
  <2>4. CASE Renew \/ Revoke \/ CustomerDeleted \/ StateChanged \/ OpenPortal
    BY <2>2, <2>4 DEF Renew, Revoke, CustomerDeleted, StateChanged, OpenPortal
  <2>5. ASSUME NEW t \in Hooks, NEW id \in due, SkipKnown(t, id) \/ Record(t, id) \/ RecordFails(t, id)
        PROVE  clear' \in BOOLEAN
    BY <2>5 DEF SkipKnown, Record, RecordFails, Mishap
  <2>6. ASSUME NEW t \in Hooks, Handle(t) \/ WebhookFails(t) \/ AssignFails(t)
        PROVE  clear' \in BOOLEAN
    BY <2>6 DEF Handle, Load, Write, Assign, WebhookFails, AssignFails, Mishap
  <2>7. CASE ApiRestarts
    BY <2>7 DEF ApiRestarts, Mishap
  <2>8. CASE UNCHANGED billingVars
    BY <2>8 DEF billingVars
  <2> QED
    BY <2>3, <2>4, <2>5, <2>6, <2>7, <2>8 DEF BillingNext
<1> QED
  BY <1>1, <1>2, PTL DEF BillingSpec

(*-------------------------------- Theorems -------------------------------*)
(* A handler has a delivery, rows have the columns they should, and Polar asks only for what it *)
(* has published, in every state of the webhooks' handling, for every number of handlers.       *)
THEOREM BillingTypeCorrect == BillingSpec => []BillingTypeOK
<1>1. BillingIInv /\ ClearType => BillingTypeOK
  <2> SUFFICES ASSUME BillingIInv, clear \in BOOLEAN PROVE BillingTypeOK
    BY DEF ClearType
  <2> DEFINE Workers == {Free} \cup [at : {"load", "write", "assign"},
                                      id : 1..Len(sent), bill : Bills \cup {Nil}]
  <2>1. ASSUME NEW t \in Hooks PROVE hook[t] \in Workers
    BY DEF BillingIInv, BillingTypes, HookTypes, HookType, OnEvent
  <2>2. hook \in [Hooks -> Workers]
    BY <2>1 DEF BillingIInv, BillingTypes, HookTypes
  <2> QED
    BY <2>2 DEF BillingTypeOK, BillingIInv, BillingTypes, PolarTypes, BillTypes, HistoryTypes
<1> QED
  BY <1>1, BillingIInvHolds, ClearIsTyped, PTL

(* handle_polar_webhook_with_secret: handlers that do not meet, fail or get cut off leave the row *)
(* that the handling of one event after the other gives.                                          *)
THEOREM RowIsAsIfOneByOne == BillingSpec => []AsIfOneByOne
<1>1. BillingIInv => AsIfOneByOne
  BY DEF BillingIInv, OneInv, AsIfOneByOne
<1> QED
  BY <1>1, BillingIInvHolds, PTL

(* get_tenant_tier: once Polar has had all its answers, and the newest event, which tells of the   *)
(* subscription as it is, was handled last and alone, the tenant has the tier that it pays for.    *)
THEOREM TenantHasItsTier == BillingSpec => []TierIsOwed
<1>1. BillingIInv => TierIsOwed
  <2> SUFFICES ASSUME BillingIInv, due = {}, Working = {}, upset = {}, ToldLast
               PROVE  Tier = TierOwed
    BY DEF TierIsOwed, Answered
  <2> USE DEF BillingIInv
  <2>1. PICK id \in 1..Len(sent) :
          /\ \A later \in (id + 1)..Len(sent) : ~ Whole(sent[later])
          /\ sent[id].kind \in IF sub = Nil THEN {"state", "deleted"} ELSE {"subscription"}
    BY DEF ToldLast
  <2>2. Len(sent) \in Nat /\ sent \in Seq(Events) /\ newest \in 0..Len(sent)
    BY LenProperties DEF BillingTypes, PolarTypes, HistoryTypes
  <2>3. \A v : ~ Untold(v)
    BY DEF Untold
  <2>4. newest = Len(sent)
    <3>1. ~ (Len(sent) > newest)
      BY <2>1, <2>2, <2>3 DEF NewerUntold
    <3> QED
      BY <2>2, <3>1
  <2>5. Whole(sent[id]) /\ LastWhole(id)
    BY <2>1 DEF Whole, LastWhole
  <2>6. ~ UntoldAfter(0)
    BY <2>1, <2>2, <2>3, <2>4, <2>5 DEF UntoldAfter
  <2>7. PICK w \in 1..newest : LastTold(w)
    BY <2>6 DEF OrderInv
  <2>8. w = id
    <3>1. ~ (id > w)
      BY <2>1, <2>3, <2>4, <2>5, <2>7 DEF LastTold, UntoldAfter
    <3>2. ~ (w > id)
      <4> SUFFICES ASSUME w > id PROVE FALSE
        OBVIOUS
      <4>1. w \in (id + 1)..Len(sent)
        BY <2>1, <2>2, <2>4, <2>7
      <4> QED
        BY <2>1, <2>7, <4>1 DEF LastTold
    <3> QED
      BY <2>1, <2>2, <2>7, <3>1, <3>2
  <2> DEFINE e == sent[id]
  <2>9. e \in Events /\ (e.kind = "subscription" => e.product \in Products)
    BY <2>1, <2>2 DEF PolarInv
  <2>10. bill = Apply(Nil, e) /\ bill \in Bills
    BY <2>7, <2>8, <2>9, ApplyIsTyped DEF OneInv, LastTold
  <2>11. TellsOf(e)
    BY <2>1, <2>5 DEF PolarInv
  <2>12. bill # Nil
    BY <2>10, NilAssumption
  <2>13. sub \in Products \cup {Nil} /\ Nil \notin Products
    BY BillingAssumption DEF BillingTypes, PolarTypes
  <2>14. CASE sub = Nil
    <3>1. RowFromEvent(Nil, e).plan = Nil /\ ~ HasTier(e)
      BY <2>1, <2>11, <2>14 DEF RowFromEvent, HasTier, TellsOf, Blank
    <3>2. bill.plan \notin Slugs
      BY <3>1, <2>10 DEF Apply, Slugs
    <3> QED
      BY <3>2, <2>14 DEF Tier, TierOwed
  <2>15. CASE sub # Nil
    <3>1. e.kind = "subscription" /\ e.product = sub /\ sub \in Products
      BY <2>1, <2>11, <2>13, <2>15 DEF TellsOf
    <3>2. RowFromEvent(Nil, e).plan = sub /\ RowFromEvent(Nil, e) \in Bills
      BY <3>1, <2>9, RowIsTyped DEF RowFromEvent
    <3>3. CASE TierOf[sub] # Nil
      <4>1. HasTier(e) /\ TierOf[sub] \in Slugs
        BY <3>1, <3>3 DEF HasTier, Slugs
      <4>2. bill.plan = TierOf[sub]
        BY <2>10, <3>1, <3>2, <4>1, AssignedIsTyped DEF Apply
      <4> QED
        BY <2>12, <2>15, <3>3, <4>1, <4>2 DEF Tier, TierOwed
    <3>4. CASE TierOf[sub] = Nil
      <4>1. bill.plan = sub
        BY <2>10, <3>1, <3>2, <3>4 DEF Apply, HasTier
      <4>2. sub \notin Slugs
        BY <3>1, BillingAssumption DEF Slugs
      <4> QED
        BY <3>4, <4>1, <4>2 DEF Tier, TierOwed
    <3> QED
      BY <3>3, <3>4
  <2> QED
    BY <2>14, <2>15
<1> QED
  BY <1>1, BillingIInvHolds, PTL
===============================================================================
