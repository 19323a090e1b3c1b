------------------------------- MODULE Builds -------------------------------
(***************************************************************************)
(* Image builds: the task of the API that asks for a build and follows it, *)
(* and the builder that runs it.  The builder answers a request before it  *)
(* records the build; it keeps its records in memory and saves all of them *)
(* to one file after every change.  The API is told the result by a        *)
(* message, and asks for the status every two seconds besides.             *)
(*                                                                         *)
(* A build is named by the deployment it is for.  Of the rows of the API   *)
(* only what the build decides is kept: "deployed" stands for the flow     *)
(* that goes on with the image.                                            *)
(***************************************************************************)
EXTENDS Naturals, FiniteSets, Sequences

CONSTANTS
  Builds,
  None,
  Permits,    (* MAX_CONCURRENT_BUILDS                                      *)
  MaxRare     (* bound on the kinds of failures of one behaviour            *)

ASSUME BuildsAssumption ==
  /\ None \notin Builds /\ IsFiniteSet(Builds)
  /\ Permits \in Nat \ {0} /\ MaxRare \in Nat

VARIABLES
  row,     (* status of the deployment's row                                *)
  named,   (* builds whose row has the build id                             *)
  api,     (* the API's task for a build: where it is and what it was told  *)
  told,    (* status messages its subscription holds                        *)
  up,      (* "up", "stopping" or "down"                                    *)
  queue,   (* requests the builder has received and not started             *)
  task,    (* the builder's task for a build: where it is, its snapshot     *)
  mem,     (* records and counters in memory                                *)
  file,    (* records and counters in the state file                        *)
  lock,    (* the task that holds io_lock                                   *)
  cleaner, (* the clean-up worker is alive                                  *)
  result,  (* what became of the build itself                               *)
  rare     (* what happened that not every property survives                *)

vars == <<row, named, api, told, up, queue, task, mem, file, lock, cleaner, result, rare>>
rows == <<row, named>>
builder == <<up, queue, task, mem, file, lock, cleaner, result>>

Records == [Builds -> {"none", "building", "success", "failed"}]
NoRecords == [b \in Builds |-> "none"]
Counters == {"started", "succeeded", "failed", "cancelled"}
NoCounts == [c \in Counters |-> 0]
Store == [rec : Records, count : [Counters -> 0 .. Cardinality(Builds)]]
EmptyStore == [rec |-> NoRecords, count |-> NoCounts]

Counted == {"builder stop", "api crash", "save", "expired", "error"}
RareEvents == Counted \cup {"timeout", "too early", "skipped", "cut"}
Rare(e) ==
  /\ e \notin rare /\ Cardinality(rare \cap Counted) < MaxRare
  /\ rare' = rare \cup {e}

(*--------------------------------- The API -------------------------------*)
Goto(b, pc) == api' = [api EXCEPT ![b] = pc]

(* trigger_build: the row is BUILDING, the request goes to the builder that is up. *)
TriggerBuild(b) ==
  /\ api[b] = "idle" /\ row[b] = "none"
  /\ row' = [row EXCEPT ![b] = "building"]
  /\ Goto(b, "asked")
  /\ queue' = IF up = "up" THEN Append(queue, b) ELSE queue
  /\ UNCHANGED <<named, told, up, task, mem, file, lock, cleaner, result, rare>>

(* The request is not answered in time; the builder may still start the build. *)
Unanswered(b) ==
  /\ api[b] = "asked"
  /\ row' = [row EXCEPT ![b] = "failed"]
  /\ Goto(b, "end")
  /\ rare' = rare \cup {"timeout"}
  /\ UNCHANGED <<named, told, builder>>

(* The build id is written, and poll_and_deploy subscribes before its first look. *)
Named(b) ==
  /\ api[b] = "answered"
  /\ named' = named \cup {b}
  /\ Goto(b, "look")
  /\ UNCHANGED <<row, told, builder, rare>>

(* Mutant: a build whose record is not final has failed. *)
StatusOfFinal(b) == IF mem.rec[b] \in {"none", "building"} THEN "failed" ELSE mem.rec[b]

(* The status the builder answers: a build it has no record of has failed. *)
StatusOf(b) == IF mem.rec[b] = "none" THEN "failed" ELSE mem.rec[b]
Early(b) == rare' = IF up = "up" /\ mem.rec[b] = "none" /\ task[b].pc = "insert"
                    THEN rare \cup {"too early"} ELSE rare

(* Mutant: only a success ends the task. *)
DecideOnSuccess(b, status) ==
  IF status # "success"
  THEN Goto(b, "wait") /\ UNCHANGED row
  ELSE /\ row' = [row EXCEPT ![b] = "deployed"]
       /\ Goto(b, "end")

(* What the task does with a status: it waits on, or it ends and drops its subscription. *)
Decide(b, status) ==
  IF status = "building"
  THEN Goto(b, "wait") /\ UNCHANGED row
  ELSE /\ row' = [row EXCEPT ![b] = IF status = "success" THEN "deployed" ELSE "failed"]
       /\ Goto(b, "end")

Unread(b, status, rest) ==
  told' = [told EXCEPT ![b] = IF status = "building" THEN rest ELSE <<>>]

(* The first look, and the fallback every two seconds.  Where nothing answers, the build is *)
(* taken to be running.                                                                     *)
GetBuildStatus(b) ==
  /\ api[b] \in {"look", "wait"}
  /\ LET status == IF up = "up" THEN StatusOf(b) ELSE "building" IN
     Decide(b, status) /\ Unread(b, status, told[b])
  /\ Early(b)
  /\ UNCHANGED <<named, builder>>

StatusMessage(b) ==
  /\ api[b] = "wait" /\ told[b] # <<>>
  /\ LET status == Head(told[b]) IN Decide(b, status) /\ Unread(b, status, Tail(told[b]))
  /\ UNCHANGED <<named, builder, rare>>

(* Where an error of the API's database, or of the subscription, ends the task.  The row stays   *)
(* BUILDING: the failure of an unanswered request or of a build cannot be written, nor the build *)
(* id; the task cannot subscribe; the application or the deployment cannot be read or written    *)
(* once the build has succeeded; a task cannot be made after a restart.                          *)
MayGiveUp(b) ==
  \/ api[b] \in {"asked", "answered", "look"}
  \/ api[b] = "wait" /\ told[b] # <<>> /\ Head(told[b]) # "building"
  \/ api[b] = "wait" /\ up = "up" /\ StatusOf(b) # "building"
  \/ api[b] = "idle" /\ row[b] = "building" /\ b \in named

GivesUp(b) ==
  /\ MayGiveUp(b)
  /\ Rare("error")
  /\ Goto(b, "quit") /\ told' = [told EXCEPT ![b] = <<>>]
  /\ UNCHANGED <<rows, builder>>

(* After a restart the task may have found another flow of the application under way: it follows *)
(* the build without the guard, and drops the image when the other flow is not over yet.         *)
Skip(b) ==
  /\ api[b] \in {"look", "wait"} /\ "api crash" \in rare
  /\ up = "up" /\ StatusOf(b) = "success"
  /\ Goto(b, "end") /\ told' = [told EXCEPT ![b] = <<>>]
  /\ rare' = rare \cup {"skipped"}
  /\ UNCHANGED <<rows, builder>>

ApiCrash ==
  /\ \E b \in Builds : api[b] \notin {"idle", "end"}
  /\ Rare("api crash")
  /\ api' = [b \in Builds |-> IF api[b] = "end" /\ row[b] # "building" THEN "end" ELSE "idle"]
  /\ told' = [b \in Builds |-> <<>>]
  /\ UNCHANGED <<rows, builder>>

(* resume_pending_builds: rows that are BUILDING and have a build id. *)
ResumePending(b) ==
  /\ api[b] = "idle" /\ row[b] = "building" /\ b \in named
  /\ Goto(b, "look")
  /\ UNCHANGED <<rows, told, builder, rare>>

(*------------------------------- The builder -----------------------------*)
Running == {b \in Builds : task[b].pc \notin {"none", "end"}}
Step(b, pc) == task' = [task EXCEPT ![b].pc = pc]

(* The messages a subscribed task has not read yet. *)
Tell(b, status) ==
  told' = IF api[b] \in {"look", "wait"} THEN [told EXCEPT ![b] = Append(@, status)]
                                                      ELSE told

(* A permit is taken for the request at the head; it is answered before anything is recorded. *)
StartBuild ==
  /\ up = "up" /\ queue # <<>> /\ Cardinality(Running) < Permits
  /\ LET b == Head(queue) IN
     /\ task' = [task EXCEPT ![b].pc = "insert"]
     /\ api' = IF api[b] = "asked" THEN [api EXCEPT ![b] = "answered"] ELSE api
  /\ queue' = Tail(queue)
  /\ UNCHANGED <<rows, told, up, mem, file, lock, cleaner, result, rare>>

(* insert_new: the record, and the counter right after it. *)
Insert(b) ==
  /\ task[b].pc = "insert"
  /\ mem' = [rec |-> [mem.rec EXCEPT ![b] = "building"],
             count |-> [mem.count EXCEPT !["started"] = @ + 1]]
  /\ Step(b, "save")
  /\ UNCHANGED <<rows, api, told, up, queue, file, lock, cleaner, result, rare>>

(* Mutant: the snapshot is taken without io_lock. *)
SnapshotAnyway(b) ==
  /\ task[b].pc \in {"save", "save result"}
  /\ lock' = b
  /\ task' = [task EXCEPT ![b] = [pc |-> IF @.pc = "save" THEN "write" ELSE "write result",
                                  snap |-> mem]]
  /\ UNCHANGED <<rows, api, told, up, queue, mem, file, cleaner, result, rare>>

(* persist: under io_lock a snapshot is taken, written beside the file and renamed over it. *)
Snapshot(b) ==
  /\ task[b].pc \in {"save", "save result"}
  /\ lock = None /\ lock' = b
  /\ task' = [task EXCEPT ![b] = [pc |-> IF @.pc = "save" THEN "write" ELSE "write result",
                                  snap |-> mem]]
  /\ UNCHANGED <<rows, api, told, up, queue, mem, file, cleaner, result, rare>>

WriteSnapshot(b) ==
  /\ task[b].pc \in {"write", "write result"}
  /\ \/ file' = task[b].snap /\ UNCHANGED rare
     \/ UNCHANGED file /\ Rare("save")
  /\ lock' = None
  /\ task' = [task EXCEPT ![b] = [pc |-> IF @.pc = "write" THEN "build" ELSE "publish",
                                  snap |-> EmptyStore]]
  /\ UNCHANGED <<rows, api, told, up, queue, mem, cleaner, result>>

(* build_image: cloned, built, and pushed to the registry, or an error on the way.  A builder *)
(* that is stopping may still finish a build that is past its last check.                     *)
BuildImage(b) ==
  /\ task[b].pc = "build"
  /\ \E r \in {"success", "failed"} : result' = [result EXCEPT ![b] = r]
  /\ Step(b, "finalize")
  /\ UNCHANGED <<rows, api, told, up, queue, mem, file, lock, cleaner, rare>>

(* The builder is stopping: the build is cancelled at its next check. *)
Cancel(b) ==
  /\ task[b].pc = "build" /\ up = "stopping"
  /\ result' = [result EXCEPT ![b] = "cancelled"]
  /\ Step(b, "finalize")
  /\ UNCHANGED <<rows, api, told, up, queue, mem, file, lock, cleaner, rare>>

Ended == [success |-> "succeeded", failed |-> "failed", cancelled |-> "cancelled"]

(* Mutant: a build that was cancelled is counted as a failed one besides. *)
FinalizeTwice(b) ==
  /\ task[b].pc = "finalize"
  /\ mem' = [rec |-> [mem.rec EXCEPT ![b] = IF result[b] = "success" THEN "success" ELSE "failed"],
             count |-> [c \in Counters |->
               IF c = Ended[result[b]] \/ (c = "failed" /\ result[b] # "success")
               THEN mem.count[c] + 1 ELSE mem.count[c]]]
  /\ Step(b, "save result")
  /\ UNCHANGED <<rows, api, told, up, queue, file, lock, cleaner, result, rare>>

(* finalize_success, finalize_failure, finalize_cancelled. *)
Finalize(b) ==
  /\ task[b].pc = "finalize"
  /\ mem' = [rec |-> [mem.rec EXCEPT ![b] = IF result[b] = "success" THEN "success" ELSE "failed"],
             count |-> [mem.count EXCEPT ![Ended[result[b]]] = @ + 1]]
  /\ Step(b, "save result")
  /\ UNCHANGED <<rows, api, told, up, queue, file, lock, cleaner, result, rare>>

PublishStatus(b) ==
  /\ task[b].pc = "publish"
  /\ Tell(b, IF result[b] = "success" THEN "success" ELSE "failed")
  /\ Step(b, "end")
  /\ UNCHANGED <<rows, api, up, queue, mem, file, lock, cleaner, result, rare>>

(* monitor_git_metadata: the commit is recorded and saved, and the status published, while the *)
(* build goes on.                                                                               *)
TellMetadata(b) ==
  /\ task[b].pc = "build" /\ told[b] = <<>> /\ lock = None
  /\ \/ file' = mem /\ UNCHANGED rare
     \/ UNCHANGED file /\ Rare("save")
  /\ Tell(b, mem.rec[b])
  /\ UNCHANGED <<rows, api, up, queue, task, mem, lock, cleaner, result>>

(*------------------------ Clean-up, stop and restart ---------------------*)
(* The retention time is over.  It is an hour, so that the API is not following the build: it *)
(* has ended with it, or was stopped.  The worker ends with the first file it cannot write.   *)
RemoveExpired ==
  /\ up = "up" /\ cleaner /\ lock = None
  /\ \E b \in Builds :
       /\ mem.rec[b] \in {"success", "failed"} /\ task[b].pc \in {"none", "end"}
       /\ api[b] \in {"idle", "end", "quit"}
       /\ mem' = [mem EXCEPT !.rec[b] = "none"]
       /\ \/ Rare("expired") /\ file' = mem' /\ UNCHANGED cleaner
          \/ Rare("save") /\ cleaner' = FALSE /\ UNCHANGED file
  /\ UNCHANGED <<rows, api, told, up, queue, task, lock, result>>

Stop ==
  /\ up = "up"
  /\ Rare("builder stop")
  /\ up' = "stopping"
  /\ UNCHANGED <<rows, api, told, queue, task, mem, file, lock, cleaner, result>>

(* The builder ends: ten seconds after it was told to stop, or at once. *)
Exit ==
  /\ \/ up = "stopping"
     \/ up = "up" /\ "builder stop" \notin rare /\ Cardinality(rare \cap Counted) < MaxRare
  /\ rare' = rare \cup {"builder stop"} \cup (IF Running # {} THEN {"cut"} ELSE {})
  /\ up' = "down"
  /\ queue' = <<>> /\ lock' = None /\ mem' = EmptyStore
  /\ task' = [b \in Builds |-> [pc |-> IF task[b].pc = "none" THEN "none" ELSE "end",
                                snap |-> EmptyStore]]
  /\ result' = [b \in Builds |-> IF result[b] = "none" /\ task[b].pc # "none" THEN "cut"
                                                                              ELSE result[b]]
  /\ UNCHANGED <<rows, api, told, file, cleaner>>

(* BuildStore::load: what was being built has failed; the counters are taken as they are. *)
Load ==
  /\ up = "down"
  /\ up' = "up" /\ cleaner' = TRUE
  /\ mem' = [file EXCEPT !.rec = [b \in Builds |-> IF @[b] = "building" THEN "failed" ELSE @[b]]]
  /\ file' = mem'
  /\ UNCHANGED <<rows, api, told, queue, task, lock, result, rare>>

(*----------------------------- Specification -----------------------------*)
Init ==
  /\ row = [b \in Builds |-> "none"] /\ named = {}
  /\ api = [b \in Builds |-> "idle"]
  /\ told = [b \in Builds |-> <<>>]
  /\ up = "up" /\ queue = <<>> /\ lock = None /\ cleaner = TRUE
  /\ task = [b \in Builds |-> [pc |-> "none", snap |-> EmptyStore]]
  /\ mem = EmptyStore /\ file = EmptyStore
  /\ result = [b \in Builds |-> "none"] /\ rare = {}

Follow(b) == \/ Named(b) \/ GetBuildStatus(b) \/ StatusMessage(b)
Record(b) ==
  \/ Insert(b) \/ Snapshot(b) \/ WriteSnapshot(b) \/ Cancel(b)
  \/ Finalize(b) \/ PublishStatus(b)

Done ==
  /\ \A b \in Builds :
       api[b] \in {"end", "quit"} \/ (api[b] = "idle" /\ b \notin named /\ row[b] = "building")
  /\ up = "up" /\ Running = {} /\ queue = <<>>
  /\ UNCHANGED vars

Next ==
  \/ \E b \in Builds : \/ TriggerBuild(b) \/ Unanswered(b) \/ ResumePending(b) \/ Follow(b)
                       \/ Skip(b) \/ GivesUp(b)
                       \/ Record(b) \/ BuildImage(b) \/ TellMetadata(b)
  \/ StartBuild \/ RemoveExpired \/ ApiCrash \/ Stop \/ Exit \/ Load
  \/ Done

Spec == Init /\ [][Next]_vars

(* Builds end, the tasks of both programs go on, and a builder that ended is started again.  A *)
(* request is answered or given up.                                                            *)
Fairness ==
  /\ \A b \in Builds : /\ WF_vars(Follow(b)) /\ WF_vars(Record(b)) /\ WF_vars(BuildImage(b))
                       /\ WF_vars(Unanswered(b)) /\ WF_vars(ResumePending(b))
  /\ WF_vars(StartBuild) /\ WF_vars(Load) /\ WF_vars(Exit /\ up = "stopping")

FairSpec == Spec /\ Fairness

(*------------------------------- Properties ------------------------------*)
TaskCounters == {"none", "insert", "save", "write", "build", "finalize", "save result",
                 "write result", "publish", "end"}

(* Every variable keeps its type; no counter exceeds the number of builds there are. *)
TypeOK ==
  /\ row \in [Builds -> {"none", "building", "failed", "deployed"}] /\ named \subseteq Builds
  /\ api \in [Builds -> {"idle", "asked", "answered", "look", "wait", "end", "quit"}]
  /\ told \in [Builds -> Seq({"building", "success", "failed"})]
  /\ up \in {"up", "stopping", "down"} /\ queue \in Seq(Builds)
  /\ task \in [Builds -> [pc : TaskCounters, snap : Store]]
  /\ mem \in Store /\ file \in Store
  /\ lock \in Builds \cup {None} /\ cleaner \in BOOLEAN
  /\ result \in [Builds -> {"none", "success", "failed", "cancelled", "cut"}]
  /\ rare \subseteq RareEvents

(* A deployment is marked as failed because its build has failed: otherwise the request was not *)
(* answered in time, the API asked before the builder had recorded the build, the builder was   *)
(* stopped, or the record was removed before the API had asked again.                           *)
FailedHasCause ==
  \A b \in Builds : row[b] = "failed" =>
    \/ result[b] = "failed"
    \/ rare \cap {"timeout", "too early", "builder stop", "expired", "save"} # {}

Saving == {"save", "write", "save result", "write result"}

(* When no build has a change to save, the file holds what the memory holds, whatever the order *)
(* in which the builds saved theirs: unless a file could not be written.                        *)
SavedAtRest ==
  /\ up = "up" /\ "save" \notin rare
  /\ \A b \in Builds : task[b].pc \notin Saving
  => file = mem

Building == Cardinality({b \in Builds : mem.rec[b] = "building"})

(* The counters of the metrics agree with each other at rest, also after the builder was       *)
(* stopped, unless a build had not ended when it exited, or had ended and its result could not  *)
(* be written to the file: the restart finds it unfinished, and it is counted as started and    *)
(* never as ended.                                                                              *)
CountsAgree ==
  /\ Running = {} /\ up # "down"
  /\ "cut" \notin rare /\ ~({"save", "builder stop"} \subseteq rare)
  => mem.count["started"] =
       mem.count["succeeded"] + mem.count["failed"] + mem.count["cancelled"] + Building

(* Every row leaves BUILDING, through builds that queue for a permit, messages that are missed, *)
(* and restarts of the builder: unless the API stopped before the row had its build id, or found *)
(* another flow of the application when it took the build up again, or an error ended the task   *)
(* that follows the build.  A build so given up is followed again once the API has restarted.    *)
RowEnds ==
  \A b \in Builds : row[b] = "building"
    ~> \/ row[b] # "building" \/ api[b] = "quit"
       \/ "api crash" \in rare /\ (b \notin named \/ "skipped" \in rare)
=============================================================================
