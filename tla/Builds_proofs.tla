----------------------------- MODULE Builds_proofs -----------------------------
(***************************************************************************)
(* Proofs about image builds, for any number of builds, permits, restarts  *)
(* and failures.  FailedHasCause needs to know what the records and the    *)
(* messages say while nothing has gone wrong (CauseInv), SavedAtRest what  *)
(* the holder of io_lock is about to write (SavedInv), CountsAgree that    *)
(* memory, file and snapshots are each balanced (CountInv).                *)
(***************************************************************************)
EXTENDS Builds, FiniteSetTheorems, TLAPS

(* The types; that the counters are bounded is a property of its own (BoundInv). *)
Stores == [rec : Records, count : [Counters -> Nat]]
ApiTypes ==
  /\ row \in [Builds -> {"none", "building", "failed", "deployed"}] /\ named \subseteq Builds
  /\ api \in [Builds -> {"idle", "asked", "answered", "look", "wait", "end", "quit"}]
  /\ told \in [Builds -> Seq({"building", "success", "failed"})]
BuilderTypes ==
  /\ up \in {"up", "stopping", "down"} /\ queue \in Seq(Builds)
  /\ lock \in Builds \cup {None} /\ cleaner \in BOOLEAN
  /\ result \in [Builds -> {"none", "success", "failed", "cancelled", "cut"}]
StoreTypes ==
  task \in [Builds -> [pc : TaskCounters, snap : Stores]] /\ mem \in Stores /\ file \in Stores
RareTypes == rare \subseteq RareEvents
Types == ApiTypes /\ BuilderTypes /\ StoreTypes /\ RareTypes

(* What is at work and holds the lock, and what a request in the queue is about. *)
At(b, S) == task[b].pc \in S
Active == {"save", "write", "build", "finalize"}
Writing == {"write", "write result"}
Unsaved == {"save", "save result"}
Recorded == \A b \in Builds : mem.rec[b] = "building" <=> At(b, Active)
Locked == \A b \in Builds : At(b, Writing) <=> lock = b
Resulted == \A b \in Builds : At(b, {"finalize"}) => result[b] \in DOMAIN Ended
Stopped ==
  up = "down" => /\ mem = EmptyStore /\ lock = None /\ queue = <<>>
                 /\ \A b \in Builds : At(b, {"none", "end"})
Queued ==
  /\ \A i, j \in DOMAIN queue : queue[i] = queue[j] => i = j
  /\ \A i \in DOMAIN queue : At(queue[i], {"none"}) /\ row[queue[i]] # "none"
Untouched == \A b \in Builds : row[b] = "none" => At(b, {"none"})
Points == Recorded /\ Locked /\ Resulted /\ Stopped /\ Queued /\ Untouched

(* FailedHasCause: as long as no cause was met, "failed" is the result wherever it is said. *)
Causes == {"timeout", "too early", "builder stop", "expired", "save"}
Faultless == rare \cap Causes = {}
Followed(b) ==
  api[b] \in {"answered", "look", "wait"} \/ b \in named => ~At(b, {"none"})
Told(b) == \A i \in DOMAIN told[b] : told[b][i] = "failed" => result[b] = "failed"
Resolved(b) ==
  /\ row[b] = "failed" => result[b] = "failed"
  /\ mem.rec[b] = "failed" => result[b] = "failed"
  /\ mem.rec[b] = "none" => At(b, {"none", "insert"})
  /\ At(b, {"none", "insert"} \cup (Active \ {"finalize"})) => result[b] = "none"
  /\ ~At(b, {"none", "insert"} \cup (Active \ {"finalize"})) => result[b] \in {"success", "failed"}
CauseInv ==
  Faultless => up = "up" /\ \A b \in Builds : Followed(b) /\ Told(b) /\ Resolved(b)

(* SavedAtRest: whoever writes has the last snapshot, or somebody will take a newer one. *)
WillSave == \E c \in Builds : At(c, Unsaved)
SavedInv ==
  "save" \notin rare =>
    /\ \A b \in Builds : At(b, Writing) => task[b].snap = mem \/ WillSave
    /\ up # "down" /\ lock = None => file = mem \/ WillSave

(* CountsAgree: every store is balanced, and when the builder is down no unfinished build is in *)
(* the file.                                                                                     *)
Open(s) == {b \in Builds : s.rec[b] = "building"}
Balanced(s) ==
  s.count["started"] =
    s.count["succeeded"] + s.count["failed"] + s.count["cancelled"] + Cardinality(Open(s))
Uncut == "cut" \notin rare /\ ~({"save", "builder stop"} \subseteq rare)
CountInv ==
  Uncut =>
    /\ Balanced(mem) /\ Balanced(file) /\ \A b \in Builds : Balanced(task[b].snap)
    /\ up = "down" => "builder stop" \in rare /\ Open(file) = {}

(* TypeOK: a build is counted once when it begins and once when it ends. *)
Begun == {b \in Builds : ~At(b, {"none", "insert"})}
Finished == {b \in Builds : At(b, {"save result", "write result", "publish", "end"})}
Bounded(s) ==
  /\ s.count["started"] <= Cardinality(Begun)
  /\ \A c \in Counters \ {"started"} : s.count[c] <= Cardinality(Finished)
BoundInv == Bounded(mem) /\ Bounded(file) /\ \A b \in Builds : Bounded(task[b].snap)

IInv == Types /\ Points /\ CauseInv /\ SavedInv /\ CountInv /\ BoundInv

-----------------------------------------------------------------------------
(* What the steps do, field by field. *)
Goes(b, S) == task'[b].pc \in S /\ \A c \in Builds : c # b => task'[c] = task[c]
Statuses == {"building", "success", "failed"}
Ends == Counters \ {"started"}

(* The steps of the API leave the builder alone. *)
ApiStep ==
  \/ \E b \in Builds : \/ TriggerBuild(b) \/ Unanswered(b) \/ ResumePending(b) \/ Named(b)
                       \/ GetBuildStatus(b) \/ StatusMessage(b) \/ Skip(b) \/ GivesUp(b)
  \/ ApiCrash
(* They touch nothing of it, and what they record as rare is not about it. *)
LEMMA ApiQuiet ==
  ASSUME ApiStep
  PROVE  /\ UNCHANGED <<up, task, mem, file, lock, cleaner, result>>
         /\ rare \subseteq rare'
         /\ rare' \cap {"save", "builder stop", "cut", "expired"} \subseteq rare
BY DEF ApiStep, TriggerBuild, Unanswered, ResumePending, Named, GetBuildStatus, StatusMessage,
   Skip, GivesUp, ApiCrash, Rare, Early, builder, rows

(* The store of a builder that has just been installed. *)
LEMMA EmptyTypes == EmptyStore \in Stores
BY DEF EmptyStore, Stores, NoRecords, NoCounts, Records

(* What is put behind the messages is the last of them. *)
LEMMA AppendedTo ==
  ASSUME NEW s \in Seq(Statuses), NEW m \in Statuses
  PROVE  /\ Append(s, m) \in Seq(Statuses)
         /\ \A i \in DOMAIN Append(s, m) :
              Append(s, m)[i] = m \/ \E j \in DOMAIN s : s[j] = Append(s, m)[i]
<1>1. PICK t : t = Append(s, m)
  OBVIOUS
<1>2. Len(t) = Len(s) + 1 /\ t[Len(s) + 1] = m /\ \A i \in 1 .. Len(s) : t[i] = s[i]
  BY <1>1
<1>3. Len(s) \in Nat /\ DOMAIN t = 1 .. Len(t) /\ DOMAIN s = 1 .. Len(s) /\ t \in Seq(Statuses)
  BY <1>1
<1>4. \A i \in 1 .. Len(t) : i = Len(s) + 1 \/ i \in 1 .. Len(s)
  BY <1>2, <1>3
<1>5. \A i \in DOMAIN t : t[i] = m \/ \E j \in DOMAIN s : s[j] = t[i]
  BY <1>2, <1>3, <1>4
<1> QED
  BY <1>1, <1>3, <1>5

(* A message is put behind those the API has not read, or nobody listens. *)
Says(b, s) ==
  \A i \in DOMAIN told'[b] : told'[b][i] = s \/ \E j \in DOMAIN told[b] : told[b][j] = told'[b][i]
(* Telling the API adds the status to what it has not read. *)
LEMMA TellDoes ==
  ASSUME Types, NEW b \in Builds, NEW s \in Statuses, Tell(b, s)
  PROVE  /\ told' \in [Builds -> Seq(Statuses)] /\ Says(b, s)
         /\ \A c \in Builds : c # b => told'[c] = told[c]
<1>1. told \in [Builds -> Seq(Statuses)]
  BY DEF Types, ApiTypes, Statuses
<1>2. CASE told' = told
  BY <1>1, <1>2 DEF Says
<1>3. CASE told' = [told EXCEPT ![b] = Append(told[b], s)]
  <2>1. PICK u, t : u = told[b] /\ t = Append(u, s)
    OBVIOUS
  <2>2. u \in Seq(Statuses)
    BY <1>1, <2>1
  <2>3. t \in Seq(Statuses) /\ \A i \in DOMAIN t : t[i] = s \/ \E j \in DOMAIN u : u[j] = t[i]
    BY <2>1, <2>2, AppendedTo
  <2>4. told' = [told EXCEPT ![b] = t]
    BY <1>3, <2>1
  <2> QED
    <3>1. u = told[b]
      BY <2>1
    <3> QED
      BY <1>1, <2>3, <2>4, <3>1 DEF Says
<1> QED
  BY <1>2, <1>3 DEF Tell

(* A request that is appended to the queue. *)
LEMMA Appended ==
  ASSUME BuilderTypes, NEW b \in Builds
  PROVE  queue \in Seq(Builds) /\ Append(queue, b) \in Seq(Builds)
BY DEF BuilderTypes

(* A queue without messages. *)
LEMMA NoMessages == << >> \in Seq(Statuses)
OBVIOUS

(* What a status does to the row and the task that follows the build. *)
LEMMA Decided ==
  ASSUME ApiTypes, NEW b \in Builds, NEW status \in Statuses, NEW rest \in Seq(Statuses),
         Decide(b, status), Unread(b, status, rest)
  PROVE  /\ row' \in [Builds -> {"none", "building", "failed", "deployed"}]
         /\ api' \in [Builds -> {"idle", "asked", "answered", "look", "wait", "end", "quit"}]
         /\ told' \in [Builds -> Seq(Statuses)]
         /\ \A c \in Builds : c # b => row'[c] = row[c] /\ api'[c] = api[c] /\ told'[c] = told[c]
         /\ row'[b] = "failed" => row[b] = "failed" \/ status = "failed"
         /\ row'[b] = "none" => row[b] = "none"
         /\ api'[b] \in {"wait", "end"} /\ told'[b] \in {rest, << >>}
<1>1. CASE status = "building"
  BY <1>1 DEF Decide, Unread, Goto, ApiTypes, Statuses
<1>2. CASE status # "building"
  <2>1. /\ row' = [row EXCEPT ![b] = IF status = "success" THEN "deployed" ELSE "failed"]
        /\ api' = [api EXCEPT ![b] = "end"] /\ told' = [told EXCEPT ![b] = << >>]
    BY <1>2 DEF Decide, Unread, Goto
  <2>2. << >> \in Seq(Statuses)
    OBVIOUS
  <2> QED
    BY <1>2, <2>1, <2>2 DEF ApiTypes, Statuses
<1> QED
  BY <1>1, <1>2

(* The builder has a status for every build. *)
LEMMA StatusTypes ==
  ASSUME Types, NEW b \in Builds
  PROVE  /\ StatusOf(b) \in Statuses
         /\ StatusOf(b) = "failed" => mem.rec[b] \in {"none", "failed"}
BY DEF StatusOf, Types, StoreTypes, Stores, Records, Statuses

(* The first look, or the next one. *)
LEMMA GetBuildStatusDoes ==
  ASSUME Types, NEW b \in Builds, GetBuildStatus(b)
  PROVE  \E status \in Statuses :
           /\ Decide(b, status) /\ Unread(b, status, told[b])
           /\ status = "failed" => up = "up" /\ StatusOf(b) = "failed"
BY StatusTypes DEF GetBuildStatus, Statuses

(* A message, which is the first of those that were not read. *)
LEMMA StatusMessageDoes ==
  ASSUME Types, NEW b \in Builds, StatusMessage(b)
  PROVE  /\ Head(told[b]) \in Statuses /\ Tail(told[b]) \in Seq(Statuses)
         /\ told[b] # << >> /\ told[b] \in Seq(Statuses)
         /\ Decide(b, Head(told[b])) /\ Unread(b, Head(told[b]), Tail(told[b]))
BY DEF StatusMessage, Types, ApiTypes, Statuses

(* A task of the builder goes on. *)
LEMMA StepGoes ==
  ASSUME StoreTypes, NEW b \in Builds, NEW p \in TaskCounters, Step(b, p)
  PROVE  /\ Goes(b, {p}) /\ task'[b].snap = task[b].snap
         /\ task' \in [Builds -> [pc : TaskCounters, snap : Stores]]
BY DEF Step, StoreTypes, Goes

(* The record of a build and the counter. *)
LEMMA InsertDoes ==
  ASSUME Types, NEW b \in Builds, Insert(b)
  PROVE  /\ At(b, {"insert"}) /\ Goes(b, {"save"}) /\ task'[b].snap = task[b].snap
         /\ mem'.rec[b] = "building" /\ \A c \in Builds : c # b => mem'.rec[c] = mem.rec[c]
         /\ mem'.count["started"] = mem.count["started"] + 1
         /\ \A k \in Ends : mem'.count[k] = mem.count[k]
         /\ mem' \in Stores /\ task' \in [Builds -> [pc : TaskCounters, snap : Stores]]
         /\ UNCHANGED <<row, named, api, told, up, queue, file, lock, cleaner, result, rare>>
<1>1. "save" \in TaskCounters
  BY DEF TaskCounters
<1>2. /\ Goes(b, {"save"}) /\ task'[b].snap = task[b].snap
      /\ task' \in [Builds -> [pc : TaskCounters, snap : Stores]]
  BY <1>1, StepGoes DEF Insert, Types
<1>3. mem' = [rec |-> [mem.rec EXCEPT ![b] = "building"],
              count |-> [mem.count EXCEPT !["started"] = @ + 1]]
  BY DEF Insert
<1>4. mem.rec \in Records /\ mem.count \in [Counters -> Nat]
  BY DEF Types, StoreTypes, Stores
<1>5. [mem.rec EXCEPT ![b] = "building"] \in Records
  BY <1>4 DEF Records
<1>6. [mem.count EXCEPT !["started"] = @ + 1] \in [Counters -> Nat]
  BY <1>4 DEF Counters
<1>7. mem' \in Stores
  BY <1>3, <1>5, <1>6 DEF Stores
<1>8. /\ mem'.rec[b] = "building" /\ \A c \in Builds : c # b => mem'.rec[c] = mem.rec[c]
  BY <1>3, <1>4 DEF Records
<1>9. /\ mem'.count["started"] = mem.count["started"] + 1
      /\ \A k \in Ends : mem'.count[k] = mem.count[k]
  BY <1>3, <1>4 DEF Counters, Ends
<1>10. At(b, {"insert"}) /\ UNCHANGED <<row, named, api, told, up, queue, file, lock, cleaner,
                                        result, rare>>
  BY DEF Insert, At, rows
<1> QED
  BY <1>2, <1>7, <1>8, <1>9, <1>10

(* The snapshot is that of the memory, and is taken with the lock. *)
LEMMA SnapshotDoes ==
  ASSUME Types, NEW b \in Builds, Snapshot(b)
  PROVE  /\ \/ At(b, {"save"}) /\ Goes(b, {"write"})
            \/ At(b, {"save result"}) /\ Goes(b, {"write result"})
         /\ task'[b].snap = mem /\ lock = None /\ lock' = b
         /\ task' \in [Builds -> [pc : TaskCounters, snap : Stores]]
         /\ UNCHANGED <<row, named, api, told, up, queue, mem, file, cleaner, result, rare>>
<1>1. /\ task[b].pc \in {"save", "save result"} /\ lock = None /\ lock' = b
      /\ task' = [task EXCEPT ![b] = [pc |-> IF task[b].pc = "save"
                                             THEN "write" ELSE "write result",
                                      snap |-> mem]]
      /\ UNCHANGED <<row, named, api, told, up, queue, mem, file, cleaner, result, rare>>
  BY DEF Snapshot, rows
<1>2. task \in [Builds -> [pc : TaskCounters, snap : Stores]] /\ mem \in Stores
  BY DEF Types, StoreTypes
<1>3. task' \in [Builds -> [pc : TaskCounters, snap : Stores]]
  BY <1>1, <1>2 DEF TaskCounters
<1> QED
  BY <1>1, <1>2, <1>3 DEF Goes, At

(* The snapshot becomes the file, or could not be written. *)
LEMMA WriteSnapshotDoes ==
  ASSUME Types, NEW b \in Builds, WriteSnapshot(b)
  PROVE  /\ \/ At(b, {"write"}) /\ Goes(b, {"build"})
            \/ At(b, {"write result"}) /\ Goes(b, {"publish"})
         /\ task'[b].snap = EmptyStore /\ lock' = None
         /\ task' \in [Builds -> [pc : TaskCounters, snap : Stores]]
         /\ \/ file' = task[b].snap /\ rare' = rare
            \/ file' = file /\ rare' = rare \cup {"save"}
         /\ UNCHANGED <<row, named, api, told, up, queue, mem, cleaner, result>>
<1>1. /\ task[b].pc \in {"write", "write result"} /\ lock' = None
      /\ task' = [task EXCEPT ![b] = [pc |-> IF task[b].pc = "write" THEN "build" ELSE "publish",
                                      snap |-> EmptyStore]]
      /\ UNCHANGED <<row, named, api, told, up, queue, mem, cleaner, result>>
      /\ \/ file' = task[b].snap /\ rare' = rare
         \/ file' = file /\ rare' = rare \cup {"save"}
  BY DEF WriteSnapshot, Rare, rows
<1>2. task \in [Builds -> [pc : TaskCounters, snap : Stores]] /\ EmptyStore \in Stores
  BY EmptyTypes DEF Types, StoreTypes
<1>3. task' \in [Builds -> [pc : TaskCounters, snap : Stores]]
  BY <1>1, <1>2 DEF TaskCounters
<1> QED
  BY <1>1, <1>2, <1>3 DEF Goes, At

(* A build comes to a result. *)
LEMMA BuildImageDoes ==
  ASSUME Types, NEW b \in Builds, BuildImage(b)
  PROVE  /\ At(b, {"build"}) /\ Goes(b, {"finalize"}) /\ task'[b].snap = task[b].snap
         /\ task' \in [Builds -> [pc : TaskCounters, snap : Stores]]
         /\ result'[b] \in {"success", "failed"}
         /\ \A c \in Builds : c # b => result'[c] = result[c]
         /\ result' \in [Builds -> {"none", "success", "failed", "cancelled", "cut"}]
         /\ UNCHANGED <<row, named, api, told, up, queue, mem, file, lock, cleaner, rare>>
<1>1. "finalize" \in TaskCounters
  BY DEF TaskCounters
<1>2. /\ Goes(b, {"finalize"}) /\ task'[b].snap = task[b].snap
      /\ task' \in [Builds -> [pc : TaskCounters, snap : Stores]]
  BY <1>1, StepGoes DEF BuildImage, Types
<1> QED
  BY <1>2 DEF BuildImage, At, Types, BuilderTypes, rows

(* It is cancelled. *)
LEMMA CancelDoes ==
  ASSUME Types, NEW b \in Builds, Cancel(b)
  PROVE  /\ At(b, {"build"}) /\ Goes(b, {"finalize"}) /\ task'[b].snap = task[b].snap
         /\ task' \in [Builds -> [pc : TaskCounters, snap : Stores]] /\ up = "stopping"
         /\ result'[b] = "cancelled" /\ \A c \in Builds : c # b => result'[c] = result[c]
         /\ result' \in [Builds -> {"none", "success", "failed", "cancelled", "cut"}]
         /\ UNCHANGED <<row, named, api, told, up, queue, mem, file, lock, cleaner, rare>>
<1>1. "finalize" \in TaskCounters
  BY DEF TaskCounters
<1>2. /\ Goes(b, {"finalize"}) /\ task'[b].snap = task[b].snap
      /\ task' \in [Builds -> [pc : TaskCounters, snap : Stores]]
  BY <1>1, StepGoes DEF Cancel, Types
<1> QED
  BY <1>2 DEF Cancel, At, Types, BuilderTypes, rows

(* The result is recorded and counted. *)
LEMMA FinalizeDoes ==
  ASSUME Types, Resulted, NEW b \in Builds, Finalize(b)
  PROVE  /\ At(b, {"finalize"}) /\ Goes(b, {"save result"}) /\ task'[b].snap = task[b].snap
         /\ mem'.rec[b] = IF result[b] = "success" THEN "success" ELSE "failed"
         /\ \A c \in Builds : c # b => mem'.rec[c] = mem.rec[c]
         /\ \E k \in Ends : /\ mem'.count[k] = mem.count[k] + 1
                            /\ \A j \in Counters : j # k => mem'.count[j] = mem.count[j]
         /\ mem' \in Stores /\ task' \in [Builds -> [pc : TaskCounters, snap : Stores]]
         /\ UNCHANGED <<row, named, api, told, up, queue, file, lock, cleaner, result, rare>>
<1>1. "save result" \in TaskCounters
  BY DEF TaskCounters
<1>2. /\ Goes(b, {"save result"}) /\ task'[b].snap = task[b].snap
      /\ task' \in [Builds -> [pc : TaskCounters, snap : Stores]]
  BY <1>1, StepGoes DEF Finalize, Types
<1>3. At(b, {"finalize"}) /\ UNCHANGED <<row, named, api, told, up, queue, file, lock, cleaner,
                                         result, rare>>
  BY DEF Finalize, At, rows
<1>4. PICK k \in Ends : k = Ended[result[b]]
  BY <1>3 DEF Resulted, Ended, Ends, Counters
<1>5. mem' = [rec |-> [mem.rec EXCEPT ![b] = IF result[b] = "success" THEN "success" ELSE "failed"],
              count |-> [mem.count EXCEPT ![k] = @ + 1]]
  BY <1>4 DEF Finalize
<1>6. mem.rec \in Records /\ mem.count \in [Counters -> Nat]
  BY DEF Types, StoreTypes, Stores
<1>7. [mem.rec EXCEPT ![b] = IF result[b] = "success" THEN "success" ELSE "failed"] \in Records
  BY <1>6 DEF Records
<1>8. [mem.count EXCEPT ![k] = @ + 1] \in [Counters -> Nat]
  BY <1>6 DEF Counters, Ends
<1>9. mem' \in Stores
  BY <1>5, <1>7, <1>8 DEF Stores
<1>10. /\ mem'.rec[b] = IF result[b] = "success" THEN "success" ELSE "failed"
       /\ \A c \in Builds : c # b => mem'.rec[c] = mem.rec[c]
  BY <1>5, <1>6 DEF Records
<1>11. /\ mem'.count[k] = mem.count[k] + 1
       /\ \A j \in Counters : j # k => mem'.count[j] = mem.count[j]
  BY <1>5, <1>6 DEF Ends
<1> QED
  BY <1>2, <1>3, <1>9, <1>10, <1>11

(* The result is published, and the API may be listening. *)
LEMMA PublishStatusDoes ==
  ASSUME Types, NEW b \in Builds, PublishStatus(b)
  PROVE  /\ At(b, {"publish"}) /\ Goes(b, {"end"}) /\ task'[b].snap = task[b].snap
         /\ task' \in [Builds -> [pc : TaskCounters, snap : Stores]]
         /\ told' \in [Builds -> Seq(Statuses)]
         /\ Says(b, IF result[b] = "success" THEN "success" ELSE "failed")
         /\ \A c \in Builds : c # b => told'[c] = told[c]
         /\ UNCHANGED <<row, named, api, up, queue, mem, file, lock, cleaner, result, rare>>
<1>1. "end" \in TaskCounters
  BY DEF TaskCounters
<1>2. /\ Goes(b, {"end"}) /\ task'[b].snap = task[b].snap
      /\ task' \in [Builds -> [pc : TaskCounters, snap : Stores]]
  BY <1>1, StepGoes DEF PublishStatus, Types
<1>3. PICK s \in Statuses : s = IF result[b] = "success" THEN "success" ELSE "failed"
  BY DEF Statuses
<1>4. Tell(b, s)
  BY <1>3 DEF PublishStatus
<1> QED
  BY <1>2, <1>3, <1>4, TellDoes DEF PublishStatus, At, rows

(* The commit is saved and published while the build goes on. *)
LEMMA TellMetadataDoes ==
  ASSUME Types, Recorded, NEW b \in Builds, TellMetadata(b)
  PROVE  /\ At(b, {"build"}) /\ lock = None
         /\ told' \in [Builds -> Seq(Statuses)]
         /\ Says(b, "building")
         /\ \A c \in Builds : c # b => told'[c] = told[c]
         /\ \/ file' = mem /\ rare' = rare
            \/ file' = file /\ rare' = rare \cup {"save"}
         /\ UNCHANGED <<row, named, api, up, queue, task, mem, lock, cleaner, result>>
<1>1. At(b, {"build"}) /\ mem.rec[b] = "building"
  BY DEF TellMetadata, At, Recorded, Active
<1>2. "building" \in Statuses /\ Tell(b, "building")
  BY <1>1 DEF TellMetadata, Statuses
<1> QED
  BY <1>1, <1>2, TellDoes DEF TellMetadata, Rare, rows

(* The builder takes a request. *)
LEMMA StartBuildDoes ==
  ASSUME Types, StartBuild
  PROVE  /\ queue # << >> /\ Head(queue) \in Builds /\ queue' = Tail(queue) /\ up = "up"
         /\ Goes(Head(queue), {"insert"}) /\ task'[Head(queue)].snap = task[Head(queue)].snap
         /\ task' \in [Builds -> [pc : TaskCounters, snap : Stores]]
         /\ api' \in [Builds -> {"idle", "asked", "answered", "look", "wait", "end", "quit"}]
         /\ \A c \in Builds : api'[c] = api[c] \/ c = Head(queue)
         /\ UNCHANGED <<row, named, told, up, mem, file, lock, cleaner, result, rare>>
<1>1. queue # << >> /\ Head(queue) \in Builds
  BY DEF StartBuild, Types, BuilderTypes
<1>2. PICK b \in Builds : b = Head(queue)
  BY <1>1
<1>3. /\ Step(b, "insert") /\ queue' = Tail(queue) /\ up = "up"
      /\ api' = IF api[b] = "asked" THEN [api EXCEPT ![b] = "answered"] ELSE api
      /\ UNCHANGED <<row, named, told, up, mem, file, lock, cleaner, result, rare>>
  BY <1>2 DEF StartBuild, Step, rows
<1>4. "insert" \in TaskCounters
  BY DEF TaskCounters
<1>5. /\ Goes(b, {"insert"}) /\ task'[b].snap = task[b].snap
      /\ task' \in [Builds -> [pc : TaskCounters, snap : Stores]]
  BY <1>3, <1>4, StepGoes DEF Types
<1>6. /\ api' \in [Builds -> {"idle", "asked", "answered", "look", "wait", "end", "quit"}]
      /\ \A c \in Builds : api'[c] = api[c] \/ c = b
  BY <1>3 DEF Types, ApiTypes
<1> QED
  BY <1>1, <1>2, <1>3, <1>5, <1>6

(* A record is removed, and the file is written or not. *)
LEMMA RemoveExpiredDoes ==
  ASSUME Types, RemoveExpired
  PROVE  /\ lock = None /\ up = "up"
         /\ \E b \in Builds :
              /\ mem.rec[b] \in {"success", "failed"} /\ At(b, {"none", "end"})
              /\ mem'.rec[b] = "none" /\ \A c \in Builds : c # b => mem'.rec[c] = mem.rec[c]
         /\ mem'.count = mem.count /\ mem' \in Stores
         /\ \/ file' = mem' /\ rare' = rare \cup {"expired"}
            \/ file' = file /\ rare' = rare \cup {"save"}
         /\ cleaner' \in BOOLEAN
         /\ UNCHANGED <<row, named, api, told, up, queue, task, lock, result>>
<1>1. PICK b \in Builds :
        /\ mem.rec[b] \in {"success", "failed"} /\ task[b].pc \in {"none", "end"}
        /\ mem' = [mem EXCEPT !.rec[b] = "none"]
        /\ \/ Rare("expired") /\ file' = mem' /\ UNCHANGED cleaner
           \/ Rare("save") /\ cleaner' = FALSE /\ UNCHANGED file
  BY DEF RemoveExpired
<1>2. mem \in [rec : Records, count : [Counters -> Nat]]
  BY DEF Types, StoreTypes, Stores
<1>3. mem' = [rec |-> [mem.rec EXCEPT ![b] = "none"], count |-> mem.count]
  BY <1>1, <1>2
<1>4. [mem.rec EXCEPT ![b] = "none"] \in Records
  BY <1>2 DEF Records
<1>5. mem' \in Stores /\ mem'.count = mem.count
  BY <1>2, <1>3, <1>4 DEF Stores
<1>6. mem'.rec[b] = "none" /\ \A c \in Builds : c # b => mem'.rec[c] = mem.rec[c]
  BY <1>2, <1>3 DEF Records
<1>7. /\ \/ file' = mem' /\ rare' = rare \cup {"expired"}
         \/ file' = file /\ rare' = rare \cup {"save"}
      /\ cleaner' \in BOOLEAN
  BY <1>1 DEF Rare, Types, BuilderTypes
<1>8. lock = None /\ up = "up" /\ UNCHANGED <<row, named, api, told, up, queue, task, lock,
                                              result>>
  BY DEF RemoveExpired, rows
<1> QED
  BY <1>1, <1>5, <1>6, <1>7, <1>8 DEF At

(* The builder is told to stop. *)
LEMMA StopDoes ==
  ASSUME Stop
  PROVE  /\ up = "up" /\ up' = "stopping" /\ rare' = rare \cup {"builder stop"}
         /\ UNCHANGED <<row, named, api, told, queue, task, mem, file, lock, cleaner, result>>
BY DEF Stop, Rare, rows

(* It ends, and what it had in memory is gone. *)
LEMMA ExitDoes ==
  ASSUME Types, Exit
  PROVE  /\ up # "down" /\ up' = "down" /\ queue' = << >> /\ lock' = None /\ mem' = EmptyStore
         /\ \A b \in Builds : /\ task'[b].pc = IF task[b].pc = "none" THEN "none" ELSE "end"
                              /\ task'[b].snap = EmptyStore
         /\ task' \in [Builds -> [pc : TaskCounters, snap : Stores]]
         /\ result' \in [Builds -> {"none", "success", "failed", "cancelled", "cut"}]
         /\ rare \subseteq rare' /\ rare' \subseteq rare \cup {"builder stop", "cut"}
         /\ "builder stop" \in rare' /\ (Running # {} => "cut" \in rare')
         /\ UNCHANGED <<row, named, api, told, file, cleaner>>
<1>1. /\ up # "down" /\ up' = "down" /\ queue' = << >> /\ lock' = None /\ mem' = EmptyStore
      /\ rare' = rare \cup {"builder stop"} \cup (IF Running # {} THEN {"cut"} ELSE {})
      /\ UNCHANGED <<row, named, api, told, file, cleaner>>
  BY DEF Exit, rows
<1>2. task' = [b \in Builds |-> [pc |-> IF task[b].pc = "none" THEN "none" ELSE "end",
                                 snap |-> EmptyStore]]
  BY DEF Exit
<1>3. \A b \in Builds : /\ task'[b].pc = IF task[b].pc = "none" THEN "none" ELSE "end"
                        /\ task'[b].snap = EmptyStore
  BY <1>2
<1>4. task' \in [Builds -> [pc : TaskCounters, snap : Stores]]
  BY <1>2, EmptyTypes DEF TaskCounters
<1>5. result' \in [Builds -> {"none", "success", "failed", "cancelled", "cut"}]
  BY DEF Exit, Types, BuilderTypes
<1> QED
  BY <1>1, <1>3, <1>4, <1>5

(* It is started again: what was being built has failed. *)
LEMMA LoadDoes ==
  ASSUME Types, Load
  PROVE  /\ up = "down" /\ up' = "up" /\ file' = mem' /\ mem'.count = file.count
         /\ \A b \in Builds :
              mem'.rec[b] = IF file.rec[b] = "building" THEN "failed" ELSE file.rec[b]
         /\ mem' \in Stores /\ cleaner' = TRUE
         /\ UNCHANGED <<row, named, api, told, queue, task, lock, result, rare>>
<1>1. file \in [rec : Records, count : [Counters -> Nat]]
  BY DEF Types, StoreTypes, Stores
<1>2. mem' = [rec |-> [b \in Builds |-> IF file.rec[b] = "building" THEN "failed" ELSE file.rec[b]],
              count |-> file.count]
  BY <1>1 DEF Load
<1>3. [b \in Builds |-> IF file.rec[b] = "building" THEN "failed" ELSE file.rec[b]] \in Records
  BY <1>1 DEF Records
<1>4. mem' \in Stores
  BY <1>1, <1>2, <1>3 DEF Stores
<1> QED
  BY <1>2, <1>4 DEF Load, rows


-----------------------------------------------------------------------------
(* Types *)
LEMMA InitTypes == Init => Types
<1> SUFFICES ASSUME Init PROVE Types
  OBVIOUS
<1>1. ApiTypes
  BY DEF Init, ApiTypes
<1>2. BuilderTypes
  BY DEF Init, BuilderTypes
<1>3. StoreTypes
  BY EmptyTypes DEF Init, StoreTypes, TaskCounters
<1> QED
  BY <1>1, <1>2, <1>3 DEF Init, Types, RareTypes

(* The steps of the API keep its types. *)
LEMMA ApiTypesKept ==
  ASSUME Types, ApiStep
  PROVE  ApiTypes' /\ queue' \in Seq(Builds) /\ RareTypes'
<1> USE DEF Types, RareTypes, RareEvents, Counted
<1>1. ASSUME NEW b \in Builds, TriggerBuild(b)
      PROVE  ApiTypes' /\ queue' \in Seq(Builds) /\ RareTypes'
  <2>1. queue \in Seq(Builds) /\ Append(queue, b) \in Seq(Builds)
    BY Appended
  <2>2. queue' \in {queue, Append(queue, b)}
    BY <1>1 DEF TriggerBuild
  <2>3. ApiTypes' /\ RareTypes'
    BY <1>1 DEF TriggerBuild, Goto, ApiTypes
  <2> QED
    BY <2>1, <2>2, <2>3
<1>2. ASSUME NEW b \in Builds, Unanswered(b)
      PROVE  ApiTypes' /\ queue' \in Seq(Builds) /\ RareTypes'
  BY <1>2 DEF Unanswered, Goto, ApiTypes, BuilderTypes, builder
<1>3. ASSUME NEW b \in Builds, ResumePending(b)
      PROVE  ApiTypes' /\ queue' \in Seq(Builds) /\ RareTypes'
  BY <1>3 DEF ResumePending, Goto, ApiTypes, BuilderTypes, builder, rows
<1>4. ASSUME NEW b \in Builds, Named(b) PROVE ApiTypes' /\ queue' \in Seq(Builds) /\ RareTypes'
  BY <1>4 DEF Named, Goto, ApiTypes, BuilderTypes, builder
<1>5. ASSUME NEW b \in Builds, GetBuildStatus(b)
      PROVE  ApiTypes' /\ queue' \in Seq(Builds) /\ RareTypes'
  <2>1. PICK s \in Statuses : Decide(b, s) /\ Unread(b, s, told[b])
    BY <1>5, GetBuildStatusDoes
  <2>2. told[b] \in Seq(Statuses)
    BY DEF ApiTypes, Statuses
  <2>3. named' = named /\ queue' = queue /\ RareTypes'
    BY <1>5 DEF GetBuildStatus, Early, builder
  <2>4. ApiTypes
    OBVIOUS
  <2> QED
    BY <2>1, <2>2, <2>3, <2>4, Decided DEF ApiTypes, BuilderTypes, Statuses
<1>6. ASSUME NEW b \in Builds, StatusMessage(b)
      PROVE  ApiTypes' /\ queue' \in Seq(Builds) /\ RareTypes'
  <2>1. named' = named /\ queue' = queue /\ RareTypes'
    BY <1>6 DEF StatusMessage, builder
  <2>2. ApiTypes
    OBVIOUS
  <2> QED
    BY <1>6, <2>1, <2>2, StatusMessageDoes, Decided DEF ApiTypes, BuilderTypes, Statuses
<1>7. ASSUME NEW b \in Builds, Skip(b) PROVE ApiTypes' /\ queue' \in Seq(Builds) /\ RareTypes'
  <2>1. << >> \in Seq({"building", "success", "failed"})
    BY NoMessages DEF Statuses
  <2> QED
    BY <1>7, <2>1 DEF Skip, Goto, ApiTypes, BuilderTypes, builder, rows
<1>8. ASSUME ApiCrash PROVE ApiTypes' /\ queue' \in Seq(Builds) /\ RareTypes'
  <2>1. << >> \in Seq({"building", "success", "failed"})
    BY NoMessages DEF Statuses
  <2> QED
    BY <1>8, <2>1 DEF ApiCrash, Rare, ApiTypes, BuilderTypes, builder, rows
<1>9. ASSUME NEW b \in Builds, GivesUp(b) PROVE ApiTypes' /\ queue' \in Seq(Builds) /\ RareTypes'
  <2>1. << >> \in Seq({"building", "success", "failed"})
    BY NoMessages DEF Statuses
  <2> QED
    BY <1>9, <2>1 DEF GivesUp, Rare, Goto, ApiTypes, BuilderTypes, builder, rows
<1> QED
  BY <1>1, <1>2, <1>3, <1>4, <1>5, <1>6, <1>7, <1>8, <1>9 DEF ApiStep

(* Every step keeps the types. *)
LEMMA TypesKept ==
  ASSUME Types, Recorded, Resulted, [Next]_vars
  PROVE  Types'
<1>1. CASE ApiStep
  BY <1>1, ApiQuiet, ApiTypesKept DEF Types, BuilderTypes, StoreTypes
<1>2. ASSUME NEW b \in Builds, Insert(b) PROVE Types'
  <2>1. ApiTypes'
    BY <1>2, InsertDoes DEF Types, ApiTypes, Statuses
  <2>2. BuilderTypes'
    BY <1>2, InsertDoes DEF Types, BuilderTypes, ApiTypes, StoreTypes
  <2>3. StoreTypes'
    BY <1>2, InsertDoes DEF Types, StoreTypes
  <2>4. RareTypes'
    BY <1>2, InsertDoes DEF Types, RareTypes, RareEvents, Counted
  <2> QED
    BY <2>1, <2>2, <2>3, <2>4 DEF Types
<1>3. ASSUME NEW b \in Builds, Snapshot(b) PROVE Types'
  <2>1. ApiTypes'
    BY <1>3, SnapshotDoes DEF Types, ApiTypes, Statuses
  <2>2. BuilderTypes'
    BY <1>3, SnapshotDoes DEF Types, BuilderTypes, ApiTypes, StoreTypes
  <2>3. StoreTypes'
    BY <1>3, SnapshotDoes DEF Types, StoreTypes
  <2>4. RareTypes'
    BY <1>3, SnapshotDoes DEF Types, RareTypes, RareEvents, Counted
  <2> QED
    BY <2>1, <2>2, <2>3, <2>4 DEF Types
<1>4. ASSUME NEW b \in Builds, WriteSnapshot(b) PROVE Types'
  <2>1. ApiTypes'
    BY <1>4, WriteSnapshotDoes DEF Types, ApiTypes, Statuses
  <2>2. BuilderTypes'
    BY <1>4, WriteSnapshotDoes DEF Types, BuilderTypes, ApiTypes, StoreTypes
  <2>3. StoreTypes'
    BY <1>4, WriteSnapshotDoes DEF Types, StoreTypes
  <2>4. RareTypes'
    BY <1>4, WriteSnapshotDoes DEF Types, RareTypes, RareEvents, Counted
  <2> QED
    BY <2>1, <2>2, <2>3, <2>4 DEF Types
<1>5. ASSUME NEW b \in Builds, Cancel(b) PROVE Types'
  <2>1. ApiTypes'
    BY <1>5, CancelDoes DEF Types, ApiTypes, Statuses
  <2>2. BuilderTypes'
    BY <1>5, CancelDoes DEF Types, BuilderTypes, ApiTypes, StoreTypes
  <2>3. StoreTypes'
    BY <1>5, CancelDoes DEF Types, StoreTypes
  <2>4. RareTypes'
    BY <1>5, CancelDoes DEF Types, RareTypes, RareEvents, Counted
  <2> QED
    BY <2>1, <2>2, <2>3, <2>4 DEF Types
<1>6. ASSUME NEW b \in Builds, Finalize(b) PROVE Types'
  <2>1. ApiTypes'
    BY <1>6, FinalizeDoes DEF Types, ApiTypes, Statuses
  <2>2. BuilderTypes'
    BY <1>6, FinalizeDoes DEF Types, BuilderTypes, ApiTypes, StoreTypes
  <2>3. StoreTypes'
    BY <1>6, FinalizeDoes DEF Types, StoreTypes
  <2>4. RareTypes'
    BY <1>6, FinalizeDoes DEF Types, RareTypes, RareEvents, Counted
  <2> QED
    BY <2>1, <2>2, <2>3, <2>4 DEF Types
<1>7. ASSUME NEW b \in Builds, PublishStatus(b) PROVE Types'
  <2>1. ApiTypes'
    BY <1>7, PublishStatusDoes DEF Types, ApiTypes, Statuses
  <2>2. BuilderTypes'
    BY <1>7, PublishStatusDoes DEF Types, BuilderTypes, ApiTypes, StoreTypes
  <2>3. StoreTypes'
    BY <1>7, PublishStatusDoes DEF Types, StoreTypes
  <2>4. RareTypes'
    BY <1>7, PublishStatusDoes DEF Types, RareTypes, RareEvents, Counted
  <2> QED
    BY <2>1, <2>2, <2>3, <2>4 DEF Types
<1>8. ASSUME NEW b \in Builds, BuildImage(b) PROVE Types'
  <2>1. ApiTypes'
    BY <1>8, BuildImageDoes DEF Types, ApiTypes, Statuses
  <2>2. BuilderTypes'
    BY <1>8, BuildImageDoes DEF Types, BuilderTypes, ApiTypes, StoreTypes
  <2>3. StoreTypes'
    BY <1>8, BuildImageDoes DEF Types, StoreTypes
  <2>4. RareTypes'
    BY <1>8, BuildImageDoes DEF Types, RareTypes, RareEvents, Counted
  <2> QED
    BY <2>1, <2>2, <2>3, <2>4 DEF Types
<1>9. ASSUME NEW b \in Builds, TellMetadata(b) PROVE Types'
  <2>1. ApiTypes'
    BY <1>9, TellMetadataDoes DEF Types, ApiTypes, Statuses
  <2>2. BuilderTypes'
    BY <1>9, TellMetadataDoes DEF Types, BuilderTypes, ApiTypes, StoreTypes
  <2>3. StoreTypes'
    BY <1>9, TellMetadataDoes DEF Types, StoreTypes
  <2>4. RareTypes'
    BY <1>9, TellMetadataDoes DEF Types, RareTypes, RareEvents, Counted
  <2> QED
    BY <2>1, <2>2, <2>3, <2>4 DEF Types
<1>10. CASE StartBuild
  <2>1. ApiTypes'
    BY <1>10, StartBuildDoes DEF Types, ApiTypes, Statuses
  <2>2. BuilderTypes'
    <3>1. Tail(queue) \in Seq(Builds)
      BY <1>10, StartBuildDoes DEF Types, BuilderTypes
    <3> QED
      BY <1>10, <3>1, StartBuildDoes DEF Types, BuilderTypes
  <2>3. StoreTypes'
    BY <1>10, StartBuildDoes DEF Types, StoreTypes
  <2>4. RareTypes'
    BY <1>10, StartBuildDoes DEF Types, RareTypes, RareEvents, Counted
  <2> QED
    BY <2>1, <2>2, <2>3, <2>4 DEF Types
<1>11. CASE RemoveExpired
  <2>1. ApiTypes'
    BY <1>11, RemoveExpiredDoes DEF Types, ApiTypes, Statuses
  <2>2. BuilderTypes'
    BY <1>11, RemoveExpiredDoes DEF Types, BuilderTypes, ApiTypes, StoreTypes
  <2>3. StoreTypes'
    BY <1>11, RemoveExpiredDoes DEF Types, StoreTypes
  <2>4. RareTypes'
    BY <1>11, RemoveExpiredDoes DEF Types, RareTypes, RareEvents, Counted
  <2> QED
    BY <2>1, <2>2, <2>3, <2>4 DEF Types
<1>12. CASE Stop
  <2>1. ApiTypes'
    BY <1>12, StopDoes DEF Types, ApiTypes, Statuses
  <2>2. BuilderTypes'
    BY <1>12, StopDoes DEF Types, BuilderTypes, ApiTypes, StoreTypes
  <2>3. StoreTypes'
    BY <1>12, StopDoes DEF Types, StoreTypes
  <2>4. RareTypes'
    BY <1>12, StopDoes DEF Types, RareTypes, RareEvents, Counted
  <2> QED
    BY <2>1, <2>2, <2>3, <2>4 DEF Types
<1>13. CASE Exit
  <2>1. ApiTypes'
    BY <1>13, ExitDoes DEF Types, ApiTypes, Statuses
  <2>2. BuilderTypes'
    <3>1. << >> \in Seq(Builds)
      OBVIOUS
    <3> QED
      BY <1>13, <3>1, ExitDoes DEF Types, BuilderTypes
  <2>3. StoreTypes'
    BY <1>13, ExitDoes, EmptyTypes DEF Types, StoreTypes
  <2>4. RareTypes'
    BY <1>13, ExitDoes DEF Types, RareTypes, RareEvents, Counted
  <2> QED
    BY <2>1, <2>2, <2>3, <2>4 DEF Types
<1>14. CASE Load
  <2>1. ApiTypes'
    BY <1>14, LoadDoes DEF Types, ApiTypes, Statuses
  <2>2. BuilderTypes'
    BY <1>14, LoadDoes DEF Types, BuilderTypes, ApiTypes, StoreTypes
  <2>3. StoreTypes'
    BY <1>14, LoadDoes DEF Types, StoreTypes
  <2>4. RareTypes'
    BY <1>14, LoadDoes DEF Types, RareTypes, RareEvents, Counted
  <2> QED
    BY <2>1, <2>2, <2>3, <2>4 DEF Types
<1>15. CASE UNCHANGED vars
  BY <1>15 DEF vars, Types, ApiTypes, BuilderTypes, StoreTypes, RareTypes, RareEvents, Counted,
     Statuses
<1> QED
  BY <1>1, <1>2, <1>3, <1>4, <1>5, <1>6, <1>7, <1>8, <1>9, <1>10, <1>11, <1>12, <1>13, <1>14,
     <1>15 DEF Next, Follow, Record, Done, ApiStep


-----------------------------------------------------------------------------
(* The points of the builds. *)
LEMMA InitPoints == Init => Points
<1> SUFFICES ASSUME Init PROVE Points
  OBVIOUS
<1>1. Recorded
  BY DEF Init, Recorded, At, Active, EmptyStore, NoRecords
<1>2. Locked /\ Resulted /\ Stopped /\ Untouched
  BY BuildsAssumption DEF Init, Locked, Resulted, Stopped, Untouched, At, Writing
<1>3. Queued
  <2>1. queue = << >>
    BY DEF Init
  <2>2. DOMAIN queue = {}
    BY <2>1
  <2> QED
    BY <2>2 DEF Queued
<1> QED
  BY <1>1, <1>2, <1>3 DEF Points


(* A request that is taken is that of a build that has not begun. *)
LEMMA StartsNew ==
  ASSUME Types, Points, StartBuild
  PROVE  At(Head(queue), {"none"})
<1>1. Head(queue) = queue[1] /\ 1 \in DOMAIN queue
  BY StartBuildDoes DEF Types, BuilderTypes
<1> QED
  BY <1>1 DEF Points, Queued

(* A record says building as long as the build does. *)
LEMMA RecordedKept ==
  ASSUME Types, Points, [Next]_vars
  PROVE  Recorded'
<1>1. CASE ApiStep
  BY <1>1, ApiQuiet DEF Points, Recorded, Stopped, Resulted, At, Goes, Active, EmptyStore,
     NoRecords
<1>2. ASSUME NEW b \in Builds, Insert(b) PROVE Recorded'
  BY <1>2, InsertDoes DEF Points, Recorded, Stopped, Resulted, At, Goes, Active, EmptyStore,
     NoRecords
<1>3. ASSUME NEW b \in Builds, Snapshot(b) PROVE Recorded'
  BY <1>3, SnapshotDoes DEF Points, Recorded, Stopped, Resulted, At, Goes, Active, EmptyStore,
     NoRecords
<1>4. ASSUME NEW b \in Builds, WriteSnapshot(b) PROVE Recorded'
  BY <1>4, WriteSnapshotDoes DEF Points, Recorded, Stopped, Resulted, At, Goes, Active,
     EmptyStore, NoRecords
<1>5. ASSUME NEW b \in Builds, Cancel(b) PROVE Recorded'
  BY <1>5, CancelDoes DEF Points, Recorded, Stopped, Resulted, At, Goes, Active, EmptyStore,
     NoRecords
<1>6. ASSUME NEW b \in Builds, Finalize(b) PROVE Recorded'
  <2>1. /\ At(b, {"finalize"}) /\ Goes(b, {"save result"}) /\ mem'.rec[b] # "building"
        /\ \A c \in Builds : c # b => mem'.rec[c] = mem.rec[c]
    BY <1>6, FinalizeDoes DEF Points
  <2> QED
    BY <2>1 DEF Points, Recorded, At, Goes, Active
<1>7. ASSUME NEW b \in Builds, PublishStatus(b) PROVE Recorded'
  BY <1>7, PublishStatusDoes DEF Points, Recorded, Stopped, Resulted, At, Goes, Active,
     EmptyStore, NoRecords
<1>8. ASSUME NEW b \in Builds, BuildImage(b) PROVE Recorded'
  BY <1>8, BuildImageDoes DEF Points, Recorded, Stopped, Resulted, At, Goes, Active, EmptyStore,
     NoRecords
<1>9. ASSUME NEW b \in Builds, TellMetadata(b) PROVE Recorded'
  BY <1>9, TellMetadataDoes DEF Points, Recorded, Stopped, Resulted, At, Goes, Active, EmptyStore,
     NoRecords
<1>10. CASE StartBuild
  <2>1. PICK b \in Builds : b = Head(queue)
    BY <1>10, StartBuildDoes
  <2>2. Goes(b, {"insert"}) /\ mem' = mem
    BY <1>10, <2>1, StartBuildDoes
  <2>3. At(b, {"none"})
    BY <1>10, <2>1, StartsNew
  <2> QED
    BY <2>2, <2>3 DEF Points, Recorded, At, Goes, Active
<1>11. CASE RemoveExpired
  BY <1>11, RemoveExpiredDoes DEF Points, Recorded, Stopped, Resulted, At, Goes, Active,
     EmptyStore, NoRecords
<1>12. CASE Stop
  BY <1>12, StopDoes DEF Points, Recorded, Stopped, Resulted, At, Goes, Active, EmptyStore,
     NoRecords
<1>13. CASE Exit
  <2>1. \A b \in Builds : task'[b].pc \in {"none", "end"} /\ mem'.rec[b] = "none"
    <3>1. mem' = EmptyStore /\ \A b \in Builds : EmptyStore.rec[b] = "none"
      BY <1>13, ExitDoes DEF EmptyStore, NoRecords
    <3> QED
      BY <1>13, <3>1, ExitDoes
  <2> QED
    BY <2>1 DEF Recorded, At, Active
<1>14. CASE Load
  BY <1>14, LoadDoes DEF Points, Stopped, Recorded, At, Active
<1>15. CASE UNCHANGED vars
  BY <1>15 DEF vars, Points, Recorded, Stopped, Resulted, At, Goes, Active, EmptyStore, NoRecords
<1> QED
  BY <1>1, <1>2, <1>3, <1>4, <1>5, <1>6, <1>7, <1>8, <1>9, <1>10, <1>11, <1>12, <1>13, <1>14,
     <1>15 DEF Next, Follow, Record, Done, ApiStep

(* Whoever writes holds the lock. *)
LEMMA LockedKept ==
  ASSUME Types, Points, [Next]_vars
  PROVE  Locked'
<1>1. CASE ApiStep
  BY <1>1, ApiQuiet, BuildsAssumption DEF Points, Locked, Stopped, Resulted, Recorded, At, Goes,
     Writing
<1>2. ASSUME NEW b \in Builds, Insert(b) PROVE Locked'
  BY <1>2, InsertDoes, BuildsAssumption DEF Points, Locked, Stopped, Resulted, Recorded, At, Goes,
     Writing
<1>3. ASSUME NEW b \in Builds, Snapshot(b) PROVE Locked'
  BY <1>3, SnapshotDoes, BuildsAssumption DEF Points, Locked, Stopped, Resulted, Recorded, At,
     Goes, Writing
<1>4. ASSUME NEW b \in Builds, WriteSnapshot(b) PROVE Locked'
  BY <1>4, WriteSnapshotDoes, BuildsAssumption DEF Points, Locked, Stopped, Resulted, Recorded,
     At, Goes, Writing
<1>5. ASSUME NEW b \in Builds, Cancel(b) PROVE Locked'
  BY <1>5, CancelDoes, BuildsAssumption DEF Points, Locked, Stopped, Resulted, Recorded, At, Goes,
     Writing
<1>6. ASSUME NEW b \in Builds, Finalize(b) PROVE Locked'
  BY <1>6, FinalizeDoes, BuildsAssumption DEF Points, Locked, Stopped, Resulted, Recorded, At,
     Goes, Writing
<1>7. ASSUME NEW b \in Builds, PublishStatus(b) PROVE Locked'
  BY <1>7, PublishStatusDoes, BuildsAssumption DEF Points, Locked, Stopped, Resulted, Recorded,
     At, Goes, Writing
<1>8. ASSUME NEW b \in Builds, BuildImage(b) PROVE Locked'
  BY <1>8, BuildImageDoes, BuildsAssumption DEF Points, Locked, Stopped, Resulted, Recorded, At,
     Goes, Writing
<1>9. ASSUME NEW b \in Builds, TellMetadata(b) PROVE Locked'
  BY <1>9, TellMetadataDoes, BuildsAssumption DEF Points, Locked, Stopped, Resulted, Recorded, At,
     Goes, Writing
<1>10. CASE StartBuild
  <2>1. PICK b \in Builds : b = Head(queue)
    BY <1>10, StartBuildDoes
  <2>2. Goes(b, {"insert"}) /\ lock' = lock
    BY <1>10, <2>1, StartBuildDoes
  <2>3. At(b, {"none"})
    BY <1>10, <2>1, StartsNew
  <2> QED
    BY <2>2, <2>3 DEF Points, Locked, At, Goes, Writing
<1>11. CASE RemoveExpired
  BY <1>11, RemoveExpiredDoes, BuildsAssumption DEF Points, Locked, Stopped, Resulted, Recorded,
     At, Goes, Writing
<1>12. CASE Stop
  BY <1>12, StopDoes, BuildsAssumption DEF Points, Locked, Stopped, Resulted, Recorded, At, Goes,
     Writing
<1>13. CASE Exit
  BY <1>13, ExitDoes, BuildsAssumption DEF Points, Locked, Stopped, Resulted, Recorded, At, Goes,
     Writing
<1>14. CASE Load
  BY <1>14, LoadDoes, BuildsAssumption DEF Points, Locked, Stopped, Resulted, Recorded, At, Goes,
     Writing
<1>15. CASE UNCHANGED vars
  BY <1>15 DEF vars, Points, Locked, Stopped, Resulted, Recorded, At, Goes, Writing
<1> QED
  BY <1>1, <1>2, <1>3, <1>4, <1>5, <1>6, <1>7, <1>8, <1>9, <1>10, <1>11, <1>12, <1>13, <1>14,
     <1>15 DEF Next, Follow, Record, Done, ApiStep

(* A build that is to be recorded has its result. *)
LEMMA ResultedKept ==
  ASSUME Types, Points, [Next]_vars
  PROVE  Resulted'
<1>1. CASE ApiStep
  BY <1>1, ApiQuiet DEF Points, Resulted, Recorded, Ended, At, Goes
<1>2. ASSUME NEW b \in Builds, Insert(b) PROVE Resulted'
  BY <1>2, InsertDoes DEF Points, Resulted, Recorded, Ended, At, Goes
<1>3. ASSUME NEW b \in Builds, Snapshot(b) PROVE Resulted'
  BY <1>3, SnapshotDoes DEF Points, Resulted, Recorded, Ended, At, Goes
<1>4. ASSUME NEW b \in Builds, WriteSnapshot(b) PROVE Resulted'
  BY <1>4, WriteSnapshotDoes DEF Points, Resulted, Recorded, Ended, At, Goes
<1>5. ASSUME NEW b \in Builds, Cancel(b) PROVE Resulted'
  BY <1>5, CancelDoes DEF Points, Resulted, Recorded, Ended, At, Goes
<1>6. ASSUME NEW b \in Builds, Finalize(b) PROVE Resulted'
  BY <1>6, FinalizeDoes DEF Points, Resulted, Recorded, Ended, At, Goes
<1>7. ASSUME NEW b \in Builds, PublishStatus(b) PROVE Resulted'
  BY <1>7, PublishStatusDoes DEF Points, Resulted, Recorded, Ended, At, Goes
<1>8. ASSUME NEW b \in Builds, BuildImage(b) PROVE Resulted'
  BY <1>8, BuildImageDoes DEF Points, Resulted, Recorded, Ended, At, Goes
<1>9. ASSUME NEW b \in Builds, TellMetadata(b) PROVE Resulted'
  BY <1>9, TellMetadataDoes DEF Points, Resulted, Recorded, Ended, At, Goes
<1>10. CASE StartBuild
  BY <1>10, StartBuildDoes DEF Points, Resulted, Recorded, Ended, At, Goes
<1>11. CASE RemoveExpired
  BY <1>11, RemoveExpiredDoes DEF Points, Resulted, Recorded, Ended, At, Goes
<1>12. CASE Stop
  BY <1>12, StopDoes DEF Points, Resulted, Recorded, Ended, At, Goes
<1>13. CASE Exit
  BY <1>13, ExitDoes DEF Points, Resulted, Recorded, Ended, At, Goes
<1>14. CASE Load
  BY <1>14, LoadDoes DEF Points, Resulted, Recorded, Ended, At, Goes
<1>15. CASE UNCHANGED vars
  BY <1>15 DEF vars, Points, Resulted, Recorded, Ended, At, Goes
<1> QED
  BY <1>1, <1>2, <1>3, <1>4, <1>5, <1>6, <1>7, <1>8, <1>9, <1>10, <1>11, <1>12, <1>13, <1>14,
     <1>15 DEF Next, Follow, Record, Done, ApiStep

(* A builder that is down does nothing. *)
LEMMA StoppedKept ==
  ASSUME Types, Points, [Next]_vars
  PROVE  Stopped'
<1>1. CASE ApiStep
  <2>1. up = "down" => queue' = << >>
    BY <1>1 DEF ApiStep, TriggerBuild, Unanswered, ResumePending, Named, GetBuildStatus,
       StatusMessage, Skip, GivesUp, ApiCrash, builder, Points, Stopped
  <2> QED
    BY <1>1, <2>1, ApiQuiet DEF Points, Stopped, At
<1>2. ASSUME NEW b \in Builds, Insert(b) PROVE Stopped'
  BY <1>2, InsertDoes DEF Points, Stopped, Resulted, Recorded, At, Goes
<1>3. ASSUME NEW b \in Builds, Snapshot(b) PROVE Stopped'
  BY <1>3, SnapshotDoes DEF Points, Stopped, Resulted, Recorded, At, Goes
<1>4. ASSUME NEW b \in Builds, WriteSnapshot(b) PROVE Stopped'
  BY <1>4, WriteSnapshotDoes DEF Points, Stopped, Resulted, Recorded, At, Goes
<1>5. ASSUME NEW b \in Builds, Cancel(b) PROVE Stopped'
  BY <1>5, CancelDoes DEF Points, Stopped, Resulted, Recorded, At, Goes
<1>6. ASSUME NEW b \in Builds, Finalize(b) PROVE Stopped'
  BY <1>6, FinalizeDoes DEF Points, Stopped, Resulted, Recorded, At, Goes
<1>7. ASSUME NEW b \in Builds, PublishStatus(b) PROVE Stopped'
  BY <1>7, PublishStatusDoes DEF Points, Stopped, Resulted, Recorded, At, Goes
<1>8. ASSUME NEW b \in Builds, BuildImage(b) PROVE Stopped'
  BY <1>8, BuildImageDoes DEF Points, Stopped, Resulted, Recorded, At, Goes
<1>9. ASSUME NEW b \in Builds, TellMetadata(b) PROVE Stopped'
  BY <1>9, TellMetadataDoes DEF Points, Stopped, Resulted, Recorded, At, Goes
<1>10. CASE StartBuild
  BY <1>10, StartBuildDoes DEF Points, Stopped, Resulted, Recorded, At, Goes
<1>11. CASE RemoveExpired
  BY <1>11, RemoveExpiredDoes DEF Points, Stopped, Resulted, Recorded, At, Goes
<1>12. CASE Stop
  BY <1>12, StopDoes DEF Points, Stopped, Resulted, Recorded, At, Goes
<1>13. CASE Exit
  BY <1>13, ExitDoes DEF Points, Stopped, Resulted, Recorded, At, Goes
<1>14. CASE Load
  BY <1>14, LoadDoes DEF Points, Stopped, Resulted, Recorded, At, Goes
<1>15. CASE UNCHANGED vars
  BY <1>15 DEF vars, Points, Stopped, Resulted, Recorded, At, Goes
<1> QED
  BY <1>1, <1>2, <1>3, <1>4, <1>5, <1>6, <1>7, <1>8, <1>9, <1>10, <1>11, <1>12, <1>13, <1>14,
     <1>15 DEF Next, Follow, Record, Done, ApiStep


(* A row that there is stays. *)
LEMMA RowsStay ==
  ASSUME Types, ApiStep, NEW b \in Builds, row[b] # "none"
  PROVE  row'[b] # "none"
<1>1. CASE \E c \in Builds : TriggerBuild(c) \/ Unanswered(c) \/ ResumePending(c)
               \/ Named(c) \/ Skip(c) \/ GivesUp(c)
  BY <1>1 DEF TriggerBuild, Unanswered, ResumePending, Named, Skip, GivesUp, Types, ApiTypes, rows
<1>2. ASSUME NEW c \in Builds, GetBuildStatus(c) PROVE row'[b] # "none"
  <2>1. told[c] \in Seq(Statuses) /\ ApiTypes
    BY DEF Types, ApiTypes, Statuses
  <2> QED
    BY <1>2, <2>1, GetBuildStatusDoes, Decided
<1>3. ASSUME NEW c \in Builds, StatusMessage(c) PROVE row'[b] # "none"
  BY <1>3, StatusMessageDoes, Decided DEF Types
<1>4. CASE ApiCrash
  BY <1>4 DEF ApiCrash, rows
<1> QED
  BY <1>1, <1>2, <1>3, <1>4 DEF ApiStep


(* Where no build begins and none is asked for, the queue stays as it should be. *)
LEMMA QueueStays ==
  ASSUME Types, Queued, queue' = queue,
         \A c \in Builds : At(c, {"none"}) => At(c, {"none"})',
         \A c \in Builds : row[c] # "none" => row'[c] # "none"
  PROVE  Queued'
<1>1. \A i \in DOMAIN queue : queue[i] \in Builds
  BY DEF Types, BuilderTypes
<1> QED
  BY <1>1 DEF Queued

(* A request in the queue is the only one of its build. *)
LEMMA QueuedKept ==
  ASSUME Types, Points, [Next]_vars
  PROVE  Queued'
<1>1. CASE ApiStep
  <2>1. CASE \E b \in Builds : TriggerBuild(b)
    <3>1. PICK b \in Builds : TriggerBuild(b)
      BY <2>1
    <3>2. queue \in Seq(Builds) /\ queue' \in {queue, Append(queue, b)}
      BY <3>1 DEF TriggerBuild, Types, BuilderTypes
    <3>3. \A i \in DOMAIN queue : queue[i] # b
      BY <3>1 DEF TriggerBuild, Points, Queued
    <3>4. task[b].pc = "none" /\ task' = task /\ row'[b] # "none"
      BY <3>1 DEF TriggerBuild, Points, Untouched, At, Types, ApiTypes
    <3>5. \A c \in Builds : row[c] # "none" => row'[c] # "none"
      BY <1>1, RowsStay
    <3> QED
      BY <3>2, <3>3, <3>4, <3>5 DEF Points, Queued, At
  <2>2. CASE queue' = queue
    BY <1>1, <2>2, RowsStay, ApiQuiet, QueueStays DEF Points, At
  <2> QED
    BY <1>1, <2>1, <2>2 DEF ApiStep, Unanswered, ResumePending, Named, GetBuildStatus,
       StatusMessage, Skip, GivesUp, ApiCrash, builder
<1>2. ASSUME NEW b \in Builds, Insert(b) PROVE Queued'
  BY <1>2, InsertDoes, QueueStays DEF Points, At, Goes
<1>3. ASSUME NEW b \in Builds, Snapshot(b) PROVE Queued'
  BY <1>3, SnapshotDoes, QueueStays DEF Points, At, Goes
<1>4. ASSUME NEW b \in Builds, WriteSnapshot(b) PROVE Queued'
  BY <1>4, WriteSnapshotDoes, QueueStays DEF Points, At, Goes
<1>5. ASSUME NEW b \in Builds, Cancel(b) PROVE Queued'
  BY <1>5, CancelDoes, QueueStays DEF Points, At, Goes
<1>6. ASSUME NEW b \in Builds, Finalize(b) PROVE Queued'
  BY <1>6, FinalizeDoes, QueueStays DEF Points, At, Goes
<1>7. ASSUME NEW b \in Builds, PublishStatus(b) PROVE Queued'
  BY <1>7, PublishStatusDoes, QueueStays DEF Points, At, Goes
<1>8. ASSUME NEW b \in Builds, BuildImage(b) PROVE Queued'
  BY <1>8, BuildImageDoes, QueueStays DEF Points, At, Goes
<1>9. ASSUME NEW b \in Builds, TellMetadata(b) PROVE Queued'
  BY <1>9, TellMetadataDoes, QueueStays DEF Points, At, Goes
<1>10. CASE StartBuild
  <2>1. queue \in Seq(Builds) /\ queue # << >> /\ queue' = Tail(queue)
    BY <1>10, StartBuildDoes DEF Types, BuilderTypes
  <2>2. Len(queue) \in Nat /\ Len(queue) > 0 /\ Len(queue') = Len(queue) - 1
    BY <2>1
  <2>3. \A i \in DOMAIN queue' : i + 1 \in DOMAIN queue /\ queue'[i] = queue[i + 1] /\ i + 1 # 1
    BY <2>1, <2>2
  <2>4. 1 \in DOMAIN queue /\ Head(queue) = queue[1]
    BY <2>1, <2>2
  <2>5. \A i \in DOMAIN queue' : i \in Nat
    BY <2>1
  <2>6. \A i, j \in DOMAIN queue' : queue'[i] = queue'[j] => i = j
    <3>1. \A i, j \in DOMAIN queue : queue[i] = queue[j] => i = j
      BY DEF Points, Queued
    <3> QED
      BY <2>3, <2>5, <3>1
  <2>7. ASSUME NEW i \in DOMAIN queue' PROVE task'[queue'[i]].pc = "none" /\ row'[queue'[i]] # "none"
    <3>1. PICK b : b = queue'[i]
      OBVIOUS
    <3>2. /\ i + 1 \in DOMAIN queue /\ b = queue[i + 1] /\ i + 1 # 1 /\ queue \in Seq(Builds)
      BY <2>3, <3>1 DEF Types, BuilderTypes
    <3>3. b \in Builds
      BY <3>2
    <3>4. b # Head(queue) /\ At(b, {"none"}) /\ row[b] # "none"
      BY <2>4, <3>2 DEF Points, Queued
    <3>5. task'[b] = task[b] /\ row' = row
      BY <1>10, <3>3, <3>4, StartBuildDoes DEF Goes
    <3> QED
      BY <3>1, <3>4, <3>5 DEF At
  <2> QED
    BY <2>6, <2>7 DEF Queued, At
<1>11. CASE RemoveExpired
  BY <1>11, RemoveExpiredDoes, QueueStays DEF Points, At, Goes
<1>12. CASE Stop
  BY <1>12, StopDoes, QueueStays DEF Points, At, Goes
<1>13. CASE Exit
  <2>1. queue' = << >>
    BY <1>13, ExitDoes
  <2>2. DOMAIN queue' = {}
    BY <2>1
  <2> QED
    BY <2>2 DEF Queued
<1>14. CASE Load
  BY <1>14, LoadDoes, QueueStays DEF Points, At, Goes
<1>15. CASE UNCHANGED vars
  BY <1>15, QueueStays DEF vars, Points, At
<1> QED
  BY <1>1, <1>2, <1>3, <1>4, <1>5, <1>6, <1>7, <1>8, <1>9, <1>10, <1>11, <1>12, <1>13, <1>14,
     <1>15 DEF Next, Follow, Record, Done, ApiStep

(* A build that was not asked for is not begun. *)
LEMMA UntouchedKept ==
  ASSUME Types, Points, [Next]_vars
  PROVE  Untouched'
<1>1. CASE ApiStep
  BY <1>1, RowsStay, ApiQuiet DEF Points, Untouched, At
<1>2. ASSUME NEW b \in Builds, Insert(b) PROVE Untouched'
  BY <1>2, InsertDoes DEF Points, Untouched, Recorded, Resulted, Queued, At, Goes
<1>3. ASSUME NEW b \in Builds, Snapshot(b) PROVE Untouched'
  BY <1>3, SnapshotDoes DEF Points, Untouched, Recorded, Resulted, Queued, At, Goes
<1>4. ASSUME NEW b \in Builds, WriteSnapshot(b) PROVE Untouched'
  BY <1>4, WriteSnapshotDoes DEF Points, Untouched, Recorded, Resulted, Queued, At, Goes
<1>5. ASSUME NEW b \in Builds, Cancel(b) PROVE Untouched'
  BY <1>5, CancelDoes DEF Points, Untouched, Recorded, Resulted, Queued, At, Goes
<1>6. ASSUME NEW b \in Builds, Finalize(b) PROVE Untouched'
  BY <1>6, FinalizeDoes DEF Points, Untouched, Recorded, Resulted, Queued, At, Goes
<1>7. ASSUME NEW b \in Builds, PublishStatus(b) PROVE Untouched'
  BY <1>7, PublishStatusDoes DEF Points, Untouched, Recorded, Resulted, Queued, At, Goes
<1>8. ASSUME NEW b \in Builds, BuildImage(b) PROVE Untouched'
  BY <1>8, BuildImageDoes DEF Points, Untouched, Recorded, Resulted, Queued, At, Goes
<1>9. ASSUME NEW b \in Builds, TellMetadata(b) PROVE Untouched'
  BY <1>9, TellMetadataDoes DEF Points, Untouched, Recorded, Resulted, Queued, At, Goes
<1>10. CASE StartBuild
  <2>1. Head(queue) = queue[1] /\ 1 \in DOMAIN queue
    BY <1>10, StartBuildDoes DEF Types, BuilderTypes
  <2> QED
    BY <1>10, <2>1, StartBuildDoes DEF Points, Untouched, Queued, At, Goes
<1>11. CASE RemoveExpired
  BY <1>11, RemoveExpiredDoes DEF Points, Untouched, Recorded, Resulted, Queued, At, Goes
<1>12. CASE Stop
  BY <1>12, StopDoes DEF Points, Untouched, Recorded, Resulted, Queued, At, Goes
<1>13. CASE Exit
  BY <1>13, ExitDoes DEF Points, Untouched, Recorded, Resulted, Queued, At, Goes
<1>14. CASE Load
  BY <1>14, LoadDoes DEF Points, Untouched, Recorded, Resulted, Queued, At, Goes
<1>15. CASE UNCHANGED vars
  BY <1>15 DEF vars, Points, Untouched, Recorded, Resulted, Queued, At, Goes
<1> QED
  BY <1>1, <1>2, <1>3, <1>4, <1>5, <1>6, <1>7, <1>8, <1>9, <1>10, <1>11, <1>12, <1>13, <1>14,
     <1>15 DEF Next, Follow, Record, Done, ApiStep


(* All of it. *)
LEMMA PointsKept ==
  ASSUME Types, Points, [Next]_vars
  PROVE  Points'
BY RecordedKept, LockedKept, ResultedKept, StoppedKept, QueuedKept, UntouchedKept DEF Points

-----------------------------------------------------------------------------
(* FailedHasCause *)

(* An API that follows a build has been answered; it fails a row because of what it was told or *)
(* has read, and forgets messages.                                                              *)
Follows(b) == Followed(b)'
Fails(b) == row'[b] = "failed" => row[b] = "failed" \/ result[b] = "failed"
Forgets(b) == \A i \in DOMAIN told'[b] : \E j \in DOMAIN told[b] : told[b][j] = told'[b][i]
(* What is left of the messages was there before. *)
LEMMA Forgotten ==
  ASSUME NEW s \in Seq(Statuses), NEW t \in {s, << >>, Tail(s)}, s # << >> \/ t \in {s, << >>}
  PROVE  \A i \in DOMAIN t : \E j \in DOMAIN s : s[j] = t[i]
<1>1. CASE t = s
  BY <1>1
<1>2. CASE t = << >>
  BY <1>2
<1>3. CASE t = Tail(s) /\ s # << >>
  <2>1. \A i \in DOMAIN t : i + 1 \in DOMAIN s /\ s[i + 1] = t[i]
    BY <1>3
  <2> QED
    BY <2>1
<1> QED
  BY <1>1, <1>2, <1>3

(* While nothing has gone wrong the API follows, fails and forgets as it should. *)
LEMMA ApiCause ==
  ASSUME Types, Points, CauseInv, ApiStep, Faultless'
  PROVE  \A c \in Builds : Follows(c) /\ Fails(c) /\ Forgets(c)
<1> USE DEF Follows, Fails, Forgets
<1>0. /\ Faultless /\ up = "up" /\ \A c \in Builds : Followed(c) /\ Told(c) /\ Resolved(c)
      /\ task' = task
  BY ApiQuiet DEF CauseInv, Faultless, Causes
<1>1. CASE \E b \in Builds : TriggerBuild(b) \/ ResumePending(b) \/ Named(b)
  <2>1. told' = told
    BY <1>1 DEF TriggerBuild, ResumePending, Named, rows
  <2>2. \A c \in Builds : Follows(c)
    BY <1>0, <1>1 DEF TriggerBuild, ResumePending, Named, Goto, rows, Followed, At, Types,
       ApiTypes
  <2>3. \A c \in Builds : Fails(c)
    BY <1>1 DEF TriggerBuild, ResumePending, Named, rows, Types, ApiTypes
  <2> QED
    BY <2>1, <2>2, <2>3
<1>2. CASE \E b \in Builds : Unanswered(b)
  BY <1>2 DEF Unanswered, Faultless, Causes
<1>3. ASSUME NEW b \in Builds, GetBuildStatus(b)
      PROVE  \A c \in Builds : Follows(c) /\ Fails(c) /\ Forgets(c)
  <2>1. PICK s \in Statuses : /\ Decide(b, s) /\ Unread(b, s, told[b])
                              /\ s = "failed" => up = "up" /\ StatusOf(b) = "failed"
    BY <1>3, GetBuildStatusDoes
  <2>2. told[b] \in Seq(Statuses) /\ ApiTypes
    BY DEF Types, ApiTypes, Statuses
  <2>3. /\ \A c \in Builds : c # b => row'[c] = row[c] /\ api'[c] = api[c] /\ told'[c] = told[c]
        /\ row'[b] = "failed" => row[b] = "failed" \/ s = "failed"
        /\ api'[b] \in {"wait", "end"} /\ told'[b] \in {told[b], << >>} /\ named' = named
    BY <1>3, <2>1, <2>2, Decided DEF GetBuildStatus
  <2>4. api[b] \in {"look", "wait"}
    BY <1>3 DEF GetBuildStatus
  <2>5. \A c \in Builds : Follows(c)
    BY <1>0, <2>3, <2>4 DEF Followed, At
  <2>6. s = "failed" => result[b] = "failed"
    <3>1. s = "failed" => mem.rec[b] \in {"none", "failed"}
      BY <2>1, StatusTypes
    <3>2. mem.rec[b] = "none" /\ s = "failed" => At(b, {"insert"})
      BY <1>0, <2>4 DEF Resolved, Followed, At
    <3>3. mem.rec[b] = "none" /\ s = "failed" => "too early" \in rare'
      BY <1>0, <1>3, <3>2 DEF GetBuildStatus, Early, At
    <3> QED
      BY <1>0, <3>1, <3>3 DEF Resolved, Faultless, Causes
  <2>7. \A c \in Builds : Fails(c)
    BY <1>0, <2>3, <2>6
  <2>8. \A c \in Builds : Forgets(c)
    BY <2>2, <2>3, Forgotten
  <2> QED
    BY <2>5, <2>7, <2>8
<1>4. ASSUME NEW b \in Builds, StatusMessage(b)
      PROVE  \A c \in Builds : Follows(c) /\ Fails(c) /\ Forgets(c)
  <2>1. /\ Head(told[b]) \in Statuses /\ Tail(told[b]) \in Seq(Statuses)
        /\ told[b] # << >> /\ told[b] \in Seq(Statuses) /\ ApiTypes
        /\ Decide(b, Head(told[b])) /\ Unread(b, Head(told[b]), Tail(told[b]))
    BY <1>4, StatusMessageDoes DEF Types
  <2>2. /\ \A c \in Builds : c # b => row'[c] = row[c] /\ api'[c] = api[c] /\ told'[c] = told[c]
        /\ row'[b] = "failed" => row[b] = "failed" \/ Head(told[b]) = "failed"
        /\ api'[b] \in {"wait", "end"} /\ told'[b] \in {Tail(told[b]), << >>} /\ named' = named
    BY <1>4, <2>1, Decided DEF StatusMessage
  <2>3. api[b] \in {"look", "wait"}
    BY <1>4 DEF StatusMessage
  <2>4. \A c \in Builds : Follows(c)
    BY <1>0, <2>2, <2>3 DEF Followed, At
  <2>5. Head(told[b]) = "failed" => result[b] = "failed"
    <3>1. 1 \in DOMAIN told[b] /\ Head(told[b]) = told[b][1]
      BY <2>1
    <3> QED
      BY <1>0, <3>1 DEF Told
  <2>6. \A c \in Builds : Fails(c)
    BY <1>0, <2>2, <2>5
  <2>7. Forgets(b)
    <3>1. PICK u, t : u = told[b] /\ t = told'[b]
      OBVIOUS
    <3>2. u \in Seq(Statuses) /\ t \in {u, << >>, Tail(u)} /\ u # << >>
      BY <2>1, <2>2, <3>1
    <3>3. \A i \in DOMAIN t : \E j \in DOMAIN u : u[j] = t[i]
      BY <3>2, Forgotten
    <3> QED
      BY <3>1, <3>3
  <2>8. \A c \in Builds : Forgets(c)
    BY <2>2, <2>7
  <2> QED
    BY <2>4, <2>6, <2>8
<1>5. ASSUME NEW b \in Builds, Skip(b) \/ GivesUp(b)
      PROVE  \A c \in Builds : Follows(c) /\ Fails(c) /\ Forgets(c)
  <2>1. /\ \A c \in Builds : told'[c] = told[c] \/ told'[c] = << >>
        /\ \A c \in Builds : api'[c] = api[c] \/ api'[c] \in {"end", "quit"}
        /\ row' = row /\ named' = named
    BY <1>5 DEF Skip, GivesUp, Goto, rows, Types, ApiTypes
  <2>2. \A c \in Builds : told[c] \in Seq(Statuses)
    BY DEF Types, ApiTypes, Statuses
  <2>3. \A c \in Builds : Follows(c)
    BY <1>0, <2>1 DEF Followed, At
  <2> QED
    BY <2>1, <2>2, <2>3, Forgotten
<1>6. ASSUME ApiCrash
      PROVE  \A c \in Builds : Follows(c) /\ Fails(c) /\ Forgets(c)
  <2>1. \A c \in Builds : told'[c] = << >> /\ api'[c] \in {"idle", "end"}
    BY <1>6 DEF ApiCrash
  <2>2. row' = row /\ named' = named
    BY <1>6 DEF ApiCrash, rows
  <2>3. \A c \in Builds : told[c] \in Seq(Statuses)
    BY DEF Types, ApiTypes, Statuses
  <2>4. \A c \in Builds : Follows(c)
    BY <1>0, <2>1, <2>2 DEF Followed, At
  <2> QED
    BY <2>1, <2>2, <2>3, <2>4, Forgotten
<1> QED
  BY <1>1, <1>2, <1>3, <1>4, <1>5, <1>6 DEF ApiStep

(* At first no build has failed. *)
LEMMA InitCause == Init => CauseInv
BY DEF Init, CauseInv, Followed, Told, Resolved, At, Active, EmptyStore, NoRecords

(* As long as nothing has gone wrong, whoever says failed tells of a failed build. *)
LEMMA CauseKept ==
  ASSUME Types, Points, CauseInv, [Next]_vars
  PROVE  CauseInv'
<1>1. CASE ApiStep
  <2>1. SUFFICES ASSUME Faultless' PROVE CauseInv'
    BY DEF CauseInv
  <2>2. \A c \in Builds : Follows(c) /\ Fails(c) /\ Forgets(c)
    BY <1>1, <2>1, ApiCause
  <2>3. /\ up = "up" /\ (\A c \in Builds : Told(c) /\ Resolved(c))
        /\ UNCHANGED <<up, task, mem, result>>
    BY <1>1, <2>1, ApiQuiet DEF CauseInv, Faultless, Causes
  <2>4. \A c \in Builds : Resolved(c)'
    BY <2>2, <2>3 DEF Resolved, Fails, At
  <2>5. \A c \in Builds : Told(c)'
    BY <2>2, <2>3 DEF Told, Forgets
  <2> QED
    BY <2>2, <2>3, <2>4, <2>5 DEF CauseInv, Follows
<1>2. ASSUME NEW b \in Builds, Insert(b) PROVE CauseInv'
  <2>1. SUFFICES ASSUME Faultless' PROVE CauseInv'
    BY DEF CauseInv
  <2>2. up = "up" /\ \A c \in Builds : Followed(c) /\ Told(c) /\ Resolved(c)
    BY <1>2, <2>1, InsertDoes DEF Points, CauseInv, Faultless, Causes
  <2>3. \A c \in Builds : Resolved(c)'
    BY <1>2, <2>2, InsertDoes DEF Points, Resolved, At, Goes, Active
  <2>4. \A c \in Builds : Followed(c)'
    BY <1>2, <2>2, InsertDoes DEF Points, Followed, At, Goes
  <2>5. \A c \in Builds : Told(c)'
    BY <1>2, <2>2, InsertDoes DEF Points, Told, Resolved, At, Active
  <2> QED
    BY <1>2, <2>2, <2>3, <2>4, <2>5, InsertDoes DEF Points, CauseInv
<1>3. ASSUME NEW b \in Builds, Snapshot(b) PROVE CauseInv'
  BY <1>3, SnapshotDoes DEF Points, CauseInv, Faultless, Causes, Followed, Told, Resolved, At,
     Goes, Active
<1>4. ASSUME NEW b \in Builds, WriteSnapshot(b) PROVE CauseInv'
  BY <1>4, WriteSnapshotDoes DEF Points, CauseInv, Faultless, Causes, Followed, Told, Resolved,
     At, Goes, Active
<1>5. ASSUME NEW b \in Builds, Cancel(b) PROVE CauseInv'
  BY <1>5, CancelDoes DEF Points, CauseInv, Faultless, Causes, Followed, Told, Resolved, At, Goes,
     Active
<1>6. ASSUME NEW b \in Builds, Finalize(b) PROVE CauseInv'
  <2>1. SUFFICES ASSUME Faultless' PROVE CauseInv'
    BY DEF CauseInv
  <2>2. up = "up" /\ \A c \in Builds : Followed(c) /\ Told(c) /\ Resolved(c)
    BY <1>6, <2>1, FinalizeDoes DEF Points, CauseInv, Faultless, Causes
  <2>3. \A c \in Builds : Resolved(c)'
    <3>1. /\ At(b, {"finalize"}) /\ Goes(b, {"save result"})
          /\ mem'.rec[b] = IF result[b] = "success" THEN "success" ELSE "failed"
          /\ \A c \in Builds : c # b => mem'.rec[c] = mem.rec[c]
          /\ UNCHANGED <<row, result>>
      BY <1>6, FinalizeDoes DEF Points
    <3>2. result[b] \in {"success", "failed"}
      BY <2>2, <3>1 DEF Resolved, At, Active
    <3> QED
      BY <2>2, <3>1, <3>2 DEF Resolved, At, Goes, Active
  <2>4. \A c \in Builds : Followed(c)'
    BY <1>6, <2>2, FinalizeDoes DEF Points, Followed, At, Goes
  <2>5. \A c \in Builds : Told(c)'
    BY <1>6, <2>2, FinalizeDoes DEF Points, Told, Resolved, At, Active
  <2> QED
    BY <1>6, <2>2, <2>3, <2>4, <2>5, FinalizeDoes DEF Points, CauseInv
<1>7. ASSUME NEW b \in Builds, PublishStatus(b) PROVE CauseInv'
  <2>1. SUFFICES ASSUME Faultless' PROVE CauseInv'
    BY DEF CauseInv
  <2>2. up' = "up" /\ \A c \in Builds : Followed(c)' /\ Resolved(c)'
    BY <1>7, <2>1, PublishStatusDoes DEF Points, CauseInv, Faultless, Causes, Followed, Resolved,
       At, Goes, Active
  <2>3. \A c \in Builds : Told(c)
    BY <1>7, <2>1, PublishStatusDoes DEF Points, CauseInv, Faultless, Causes
  <2>4. told[b] \in Seq(Statuses) /\ result' = result
    BY <1>7, PublishStatusDoes DEF Points, Types, ApiTypes, Statuses
  <2>5. PICK s \in Statuses : Says(b, s) /\ (s = "failed" => result[b] = "failed")
    BY <1>7, <2>1, PublishStatusDoes DEF CauseInv, Faultless, Causes, Resolved, At, Active,
       Statuses
  <2>6. Told(b)'
    <3>1. s = "failed" => result'[b] = "failed"
      BY <2>4, <2>5
    <3>2. Told(b) /\ result' = result
      BY <2>3, <2>4
    <3> QED
      BY <2>5, <3>1, <3>2 DEF Told, Says
  <2>7. \A c \in Builds : c # b => Told(c)'
    BY <1>7, <2>3, <2>4, PublishStatusDoes DEF Points, Told
  <2> QED
    BY <2>2, <2>6, <2>7 DEF CauseInv
<1>8. ASSUME NEW b \in Builds, BuildImage(b) PROVE CauseInv'
  <2>1. SUFFICES ASSUME Faultless' PROVE CauseInv'
    BY DEF CauseInv
  <2>2. up = "up" /\ \A c \in Builds : Followed(c) /\ Told(c) /\ Resolved(c)
    BY <1>8, <2>1, BuildImageDoes DEF Points, CauseInv, Faultless, Causes
  <2>3. \A c \in Builds : Resolved(c)'
    BY <1>8, <2>2, BuildImageDoes DEF Points, Resolved, At, Goes, Active
  <2>4. \A c \in Builds : Followed(c)'
    BY <1>8, <2>2, BuildImageDoes DEF Points, Followed, At, Goes
  <2>5. \A c \in Builds : Told(c)'
    BY <1>8, <2>2, BuildImageDoes DEF Points, Told, Resolved, At, Active
  <2> QED
    BY <1>8, <2>2, <2>3, <2>4, <2>5, BuildImageDoes DEF Points, CauseInv
<1>9. ASSUME NEW b \in Builds, TellMetadata(b) PROVE CauseInv'
  <2>1. SUFFICES ASSUME Faultless' PROVE CauseInv'
    BY DEF CauseInv
  <2>2. up' = "up" /\ \A c \in Builds : Followed(c)' /\ Resolved(c)'
    BY <1>9, <2>1, TellMetadataDoes DEF Points, CauseInv, Faultless, Causes, Followed, Resolved,
       At, Goes, Active
  <2>3. \A c \in Builds : Told(c)
    BY <1>9, <2>1, TellMetadataDoes DEF Points, CauseInv, Faultless, Causes
  <2>4. told[b] \in Seq(Statuses) /\ result' = result
    BY <1>9, TellMetadataDoes DEF Points, Types, ApiTypes, Statuses
  <2>5. PICK s \in Statuses : Says(b, s) /\ (s = "failed" => result[b] = "failed")
    BY <1>9, TellMetadataDoes DEF Points, Statuses
  <2>6. Told(b)'
    <3>1. s = "failed" => result'[b] = "failed"
      BY <2>4, <2>5
    <3>2. Told(b) /\ result' = result
      BY <2>3, <2>4
    <3> QED
      BY <2>5, <3>1, <3>2 DEF Told, Says
  <2>7. \A c \in Builds : c # b => Told(c)'
    BY <1>9, <2>3, <2>4, TellMetadataDoes DEF Points, Told
  <2> QED
    BY <2>2, <2>6, <2>7 DEF CauseInv
<1>10. CASE StartBuild
  <2>1. PICK b \in Builds : b = Head(queue)
    BY <1>10, StartBuildDoes
  <2>2. Goes(b, {"insert"}) /\ At(b, {"none"}) /\ \A c \in Builds : api'[c] = api[c] \/ c = b
    BY <1>10, <2>1, StartBuildDoes, StartsNew
  <2>3. UNCHANGED <<row, named, told, up, mem, result, rare>>
    BY <1>10, StartBuildDoes
  <2>4. SUFFICES ASSUME Faultless PROVE CauseInv'
    BY <2>3 DEF CauseInv, Faultless
  <2>5. up = "up" /\ \A c \in Builds : Followed(c) /\ Told(c) /\ Resolved(c)
    BY <2>4 DEF CauseInv
  <2>6. \A c \in Builds : Resolved(c)'
    BY <2>2, <2>3, <2>5 DEF Resolved, At, Goes, Active
  <2>7. \A c \in Builds : Followed(c)'
    BY <2>2, <2>3, <2>5 DEF Followed, At, Goes
  <2>8. \A c \in Builds : Told(c)'
    BY <2>3, <2>5 DEF Told
  <2> QED
    BY <2>3, <2>5, <2>6, <2>7, <2>8 DEF CauseInv
<1>11. CASE RemoveExpired
  BY <1>11, RemoveExpiredDoes DEF Points, CauseInv, Faultless, Causes, Followed, Told, Resolved,
     At, Goes, Active
<1>12. CASE Stop
  BY <1>12, StopDoes DEF Points, CauseInv, Faultless, Causes, Followed, Told, Resolved, At, Goes,
     Active
<1>13. CASE Exit
  BY <1>13, ExitDoes DEF Points, CauseInv, Faultless, Causes, Followed, Told, Resolved, At, Goes,
     Active
<1>14. CASE Load
  BY <1>14, LoadDoes DEF Points, CauseInv, Faultless, Causes, Followed, Told, Resolved, At, Goes,
     Active
<1>15. CASE UNCHANGED vars
  BY <1>15 DEF vars, Points, CauseInv, Faultless, Causes, Followed, Told, Resolved, At, Goes,
     Active
<1> QED
  BY <1>1, <1>2, <1>3, <1>4, <1>5, <1>6, <1>7, <1>8, <1>9, <1>10, <1>11, <1>12, <1>13, <1>14,
     <1>15 DEF Next, Follow, Record, Done, ApiStep


-----------------------------------------------------------------------------
(* SavedAtRest *)
LEMMA InitSaved == Init => SavedInv
<1> SUFFICES ASSUME Init PROVE SavedInv
  OBVIOUS
<1>1. file = mem /\ \A b \in Builds : task[b].pc = "none"
  BY DEF Init
<1> QED
  BY <1>1 DEF SavedInv, At, Writing

(* Whoever writes has what is in memory, unless somebody will write later. *)
LEMMA SavedKept ==
  ASSUME Types, Points, SavedInv, [Next]_vars
  PROVE  SavedInv'
<1>1. CASE ApiStep
  <2>1. UNCHANGED <<up, task, mem, file, lock>> /\ rare \subseteq rare'
    BY <1>1, ApiQuiet
  <2> QED
    BY <2>1 DEF SavedInv, WillSave, At
<1>2. ASSUME NEW b \in Builds, Insert(b) PROVE SavedInv'
  <2>1. At(b, Unsaved)' /\ rare' = rare
    BY <1>2, InsertDoes DEF At, Goes, Unsaved
  <2> QED
    BY <2>1 DEF SavedInv, WillSave
<1>3. ASSUME NEW b \in Builds, Snapshot(b) PROVE SavedInv'
  <2>1. lock' = b /\ task'[b].snap = mem' /\ Goes(b, Writing)
    BY <1>3, SnapshotDoes DEF Goes, Writing
  <2>2. \A c \in Builds : ~At(c, Writing)
    BY <1>3, SnapshotDoes, BuildsAssumption DEF Points, Locked
  <2>3. \A c \in Builds : At(c, Writing)' => task'[c].snap = mem'
    BY <2>1, <2>2 DEF At, Goes
  <2>4. lock' # None
    BY <2>1, BuildsAssumption
  <2> QED
    BY <2>3, <2>4 DEF SavedInv
<1>4. ASSUME NEW b \in Builds, WriteSnapshot(b) PROVE SavedInv'
  <2>1. SUFFICES ASSUME "save" \notin rare' PROVE SavedInv'
    BY DEF SavedInv
  <2>2. /\ file' = task[b].snap /\ rare' = rare /\ mem' = mem
        /\ At(b, Writing) /\ Goes(b, {"build", "publish"})
    BY <1>4, <2>1, WriteSnapshotDoes DEF At, Writing, Goes
  <2>3. \A c \in Builds : ~At(c, Writing)'
    BY <2>2 DEF Points, Locked, At, Goes, Writing
  <2>4. WillSave => WillSave'
    BY <2>2 DEF WillSave, At, Goes, Writing, Unsaved
  <2>5. task[b].snap = mem \/ WillSave
    BY <2>1, <2>2 DEF SavedInv
  <2> QED
    BY <2>2, <2>3, <2>4, <2>5 DEF SavedInv
<1>5. ASSUME NEW b \in Builds, Cancel(b) PROVE SavedInv'
  <2>1. WillSave => WillSave'
    BY <1>5, CancelDoes DEF WillSave, At, Goes, Unsaved
  <2> QED
    BY <1>5, <2>1, CancelDoes DEF SavedInv, At, Goes, Writing
<1>6. ASSUME NEW b \in Builds, Finalize(b) PROVE SavedInv'
  <2>1. At(b, Unsaved)' /\ rare' = rare
    BY <1>6, FinalizeDoes DEF At, Goes, Unsaved, Points
  <2> QED
    BY <2>1 DEF SavedInv, WillSave
<1>7. ASSUME NEW b \in Builds, PublishStatus(b) PROVE SavedInv'
  <2>1. WillSave => WillSave'
    BY <1>7, PublishStatusDoes DEF WillSave, At, Goes, Unsaved
  <2> QED
    BY <1>7, <2>1, PublishStatusDoes DEF SavedInv, At, Goes, Writing
<1>8. ASSUME NEW b \in Builds, BuildImage(b) PROVE SavedInv'
  <2>1. WillSave => WillSave'
    BY <1>8, BuildImageDoes DEF WillSave, At, Goes, Unsaved
  <2> QED
    BY <1>8, <2>1, BuildImageDoes DEF SavedInv, At, Goes, Writing
<1>9. ASSUME NEW b \in Builds, TellMetadata(b) PROVE SavedInv'
  <2>1. SUFFICES ASSUME "save" \notin rare' PROVE SavedInv'
    BY DEF SavedInv
  <2>2. file' = mem' /\ task' = task /\ lock = None
    BY <1>9, <2>1, TellMetadataDoes DEF Points
  <2>3. \A c \in Builds : ~At(c, Writing)
    BY <2>2, BuildsAssumption DEF Points, Locked
  <2> QED
    BY <2>2, <2>3 DEF SavedInv, At
<1>10. CASE StartBuild
  <2>1. PICK b \in Builds : b = Head(queue)
    BY <1>10, StartBuildDoes
  <2>2. Goes(b, {"insert"}) /\ At(b, {"none"}) /\ UNCHANGED <<up, mem, file, lock, rare>>
    BY <1>10, <2>1, StartBuildDoes, StartsNew
  <2>3. WillSave => WillSave'
    BY <2>2 DEF WillSave, At, Goes, Unsaved
  <2> QED
    BY <2>2, <2>3 DEF SavedInv, At, Goes, Writing
<1>11. CASE RemoveExpired
  <2>1. SUFFICES ASSUME "save" \notin rare' PROVE SavedInv'
    BY DEF SavedInv
  <2>2. file' = mem' /\ task' = task /\ lock = None
    BY <1>11, <2>1, RemoveExpiredDoes
  <2>3. \A b \in Builds : ~At(b, Writing)
    BY <2>2, BuildsAssumption DEF Points, Locked
  <2> QED
    BY <2>2, <2>3 DEF SavedInv, At
<1>12. CASE Stop
  BY <1>12, StopDoes DEF Points, SavedInv, WillSave, Locked, Stopped, At, Goes, Writing, Unsaved,
     Types, BuilderTypes
<1>13. CASE Exit
  <2>1. up' = "down" /\ \A b \in Builds : task'[b].pc \in {"none", "end"}
    BY <1>13, ExitDoes
  <2> QED
    BY <2>1 DEF SavedInv, At, Writing
<1>14. CASE Load
  <2>1. file' = mem' /\ task' = task /\ \A b \in Builds : At(b, {"none", "end"})
    BY <1>14, LoadDoes DEF Points, Stopped
  <2> QED
    BY <2>1 DEF SavedInv, At, Writing
<1>15. CASE UNCHANGED vars
  BY <1>15 DEF vars, Points, SavedInv, WillSave, Locked, Stopped, At, Goes, Writing, Unsaved,
     Types, BuilderTypes
<1> QED
  BY <1>1, <1>2, <1>3, <1>4, <1>5, <1>6, <1>7, <1>8, <1>9, <1>10, <1>11, <1>12, <1>13, <1>14,
     <1>15 DEF Next, Follow, Record, Done, ApiStep


-----------------------------------------------------------------------------
(* CountsAgree *)

(* The number of unfinished builds. *)
LEMMA OpenIsFinite ==
  ASSUME NEW s
  PROVE  IsFiniteSet(Open(s)) /\ Cardinality(Open(s)) \in Nat
<1>1. Open(s) \subseteq Builds
  BY DEF Open
<1> QED
  BY <1>1, BuildsAssumption, FS_Subset, FS_CardinalityType

(* A build that is opened is one more. *)
LEMMA OneMore ==
  ASSUME NEW s, NEW t, NEW b \in Builds, s.rec[b] # "building", t.rec[b] = "building",
         \A c \in Builds : c # b => t.rec[c] = s.rec[c]
  PROVE  Cardinality(Open(t)) = Cardinality(Open(s)) + 1
<1>1. Open(t) = Open(s) \cup {b} /\ b \notin Open(s)
  BY DEF Open
<1> QED
  BY <1>1, OpenIsFinite, FS_AddElement

(* The records decide what is unfinished. *)
LEMMA SameOpen ==
  ASSUME NEW s, NEW t, \A c \in Builds : t.rec[c] = "building" <=> s.rec[c] = "building"
  PROVE  Open(t) = Open(s)
BY DEF Open

(* An empty store is balanced. *)
LEMMA EmptyBalance == Balanced(EmptyStore) /\ Open(EmptyStore) = {}
<1>1. Open(EmptyStore) = {}
  BY DEF Open, EmptyStore, NoRecords
<1>2. \A c \in Counters : EmptyStore.count[c] = 0
  BY DEF EmptyStore, NoCounts
<1> QED
  BY <1>1, <1>2, FS_EmptySet DEF Balanced, Counters

(* A build that begins, and one that ends, keep the balance. *)
LEMMA BeginBalances ==
  ASSUME NEW s \in Stores, NEW t \in Stores, NEW b \in Builds, Balanced(s),
         s.rec[b] # "building", t.rec[b] = "building",
         \A c \in Builds : c # b => t.rec[c] = s.rec[c],
         t.count["started"] = s.count["started"] + 1, \A k \in Ends : t.count[k] = s.count[k]
  PROVE  Balanced(t)
<1>1. Cardinality(Open(t)) = Cardinality(Open(s)) + 1
  BY OneMore
<1>2. \A k \in Counters : s.count[k] \in Nat
  BY DEF Stores
<1> QED
  BY <1>1, <1>2, OpenIsFinite DEF Balanced, Ends, Counters

(* One that ends leaves the unfinished ones and is counted as ended. *)
LEMMA EndBalances ==
  ASSUME NEW s \in Stores, NEW t \in Stores, NEW b \in Builds, NEW k \in Ends, Balanced(s),
         s.rec[b] = "building", t.rec[b] # "building",
         \A c \in Builds : c # b => t.rec[c] = s.rec[c],
         t.count[k] = s.count[k] + 1, \A j \in Counters : j # k => t.count[j] = s.count[j]
  PROVE  Balanced(t)
<1>1. Cardinality(Open(s)) = Cardinality(Open(t)) + 1
  BY OneMore
<1>2. \A j \in Counters : s.count[j] \in Nat
  BY DEF Stores
<1> QED
  BY <1>1, <1>2, OpenIsFinite DEF Balanced, Ends, Counters

(* Where the counters are the same and so are the unfinished builds. *)
LEMMA SameBalance ==
  ASSUME NEW s, NEW t, Balanced(s), t.count = s.count, Open(t) = Open(s)
  PROVE  Balanced(t)
BY DEF Balanced

(* At first all stores are empty. *)
LEMMA InitCount == Init => CountInv
BY EmptyBalance DEF Init, CountInv

(* Where the balances are kept and the builder is up, or it stays down and its file too. *)
Balances == Balanced(mem) /\ Balanced(file) /\ \A b \in Builds : Balanced(task[b].snap)

(* Every store stays balanced. *)
LEMMA CountKept ==
  ASSUME Types, Points, SavedInv, CountInv, [Next]_vars
  PROVE  CountInv'
<1>1. CASE ApiStep
  <2>1. SUFFICES ASSUME Uncut' PROVE CountInv'
    BY DEF CountInv
  <2>2. rare \subseteq rare'
    BY <1>1, ApiQuiet
  <2>3. Uncut /\ Balances /\ (up = "down" => "builder stop" \in rare /\ Open(file) = {})
    BY <2>1, <2>2 DEF CountInv, Uncut, Balances
  <2>4. UNCHANGED <<mem, file, task, up>>
    BY <1>1, ApiQuiet
  <2> QED
    BY <2>2, <2>3, <2>4 DEF CountInv, Balances
<1>2. ASSUME NEW b \in Builds, Insert(b) PROVE CountInv'
  <2>1. SUFFICES ASSUME Uncut' PROVE CountInv'
    BY DEF CountInv
  <2>2. rare \subseteq rare'
    BY <1>2, InsertDoes DEF Points
  <2>3. Uncut /\ Balances /\ (up = "down" => "builder stop" \in rare /\ Open(file) = {})
    BY <2>1, <2>2 DEF CountInv, Uncut, Balances
  <2>4. /\ UNCHANGED <<file, up, rare>> /\ task'[b].snap = task[b].snap
        /\ \A c \in Builds : c # b => task'[c] = task[c]
    BY <1>2, InsertDoes DEF Goes
  <2>5. mem.rec[b] # "building"
    BY <1>2, InsertDoes DEF Points, Recorded, At, Active
  <2>6. Balanced(mem')
    <3>1. /\ mem'.rec[b] = "building" /\ \A c \in Builds : c # b => mem'.rec[c] = mem.rec[c]
          /\ mem'.count["started"] = mem.count["started"] + 1
          /\ \A k \in Ends : mem'.count[k] = mem.count[k]
          /\ mem \in Stores /\ mem' \in Stores
      BY <1>2, InsertDoes DEF Types, StoreTypes
    <3> QED
      BY <2>3, <2>5, <3>1, BeginBalances DEF Balances
  <2> QED
    BY <2>3, <2>4, <2>6 DEF CountInv, Balances, Balanced
<1>3. ASSUME NEW b \in Builds, Snapshot(b) PROVE CountInv'
  <2>1. SUFFICES ASSUME Uncut' PROVE CountInv'
    BY DEF CountInv
  <2>2. rare \subseteq rare'
    BY <1>3, SnapshotDoes DEF Points
  <2>3. Uncut /\ Balances /\ (up = "down" => "builder stop" \in rare /\ Open(file) = {})
    BY <2>1, <2>2 DEF CountInv, Uncut, Balances
  <2>4. /\ UNCHANGED <<mem, file, up, rare>> /\ task'[b].snap = mem
        /\ \A c \in Builds : c # b => task'[c] = task[c]
    BY <1>3, SnapshotDoes DEF Goes
  <2> QED
    BY <2>3, <2>4 DEF CountInv, Balances
<1>4. ASSUME NEW b \in Builds, WriteSnapshot(b) PROVE CountInv'
  <2>1. SUFFICES ASSUME Uncut' PROVE CountInv'
    BY DEF CountInv
  <2>2. rare \subseteq rare'
    BY <1>4, WriteSnapshotDoes DEF Points
  <2>3. Uncut /\ Balances /\ (up = "down" => "builder stop" \in rare /\ Open(file) = {})
    BY <2>1, <2>2 DEF CountInv, Uncut, Balances
  <2>4. /\ UNCHANGED <<mem, up>> /\ task'[b].snap = EmptyStore /\ file' \in {file, task[b].snap}
        /\ \A c \in Builds : c # b => task'[c] = task[c]
    BY <1>4, WriteSnapshotDoes DEF Goes
  <2>5. up # "down"
    BY <1>4, WriteSnapshotDoes DEF Points, Stopped, At
  <2> QED
    BY <2>3, <2>4, <2>5, EmptyBalance DEF CountInv, Balances
<1>5. ASSUME NEW b \in Builds, Cancel(b) PROVE CountInv'
  <2>1. SUFFICES ASSUME Uncut' PROVE CountInv'
    BY DEF CountInv
  <2>2. rare \subseteq rare'
    BY <1>5, CancelDoes DEF Points
  <2>3. Uncut /\ Balances /\ (up = "down" => "builder stop" \in rare /\ Open(file) = {})
    BY <2>1, <2>2 DEF CountInv, Uncut, Balances
  <2>4. /\ UNCHANGED <<mem, file, up, rare>> /\ task'[b].snap = task[b].snap
        /\ \A c \in Builds : c # b => task'[c] = task[c]
    BY <1>5, CancelDoes DEF Goes
  <2> QED
    BY <2>3, <2>4 DEF CountInv, Balances
<1>6. ASSUME NEW b \in Builds, Finalize(b) PROVE CountInv'
  <2>1. SUFFICES ASSUME Uncut' PROVE CountInv'
    BY DEF CountInv
  <2>2. rare \subseteq rare'
    BY <1>6, FinalizeDoes DEF Points
  <2>3. Uncut /\ Balances /\ (up = "down" => "builder stop" \in rare /\ Open(file) = {})
    BY <2>1, <2>2 DEF CountInv, Uncut, Balances
  <2>4. /\ UNCHANGED <<file, up, rare>> /\ task'[b].snap = task[b].snap
        /\ \A c \in Builds : c # b => task'[c] = task[c]
    BY <1>6, FinalizeDoes DEF Goes, Points
  <2>5. mem.rec[b] = "building"
    BY <1>6, FinalizeDoes DEF Points, Recorded, At, Active
  <2>6. Balanced(mem')
    <3>1. PICK k \in Ends : /\ mem'.count[k] = mem.count[k] + 1
                            /\ \A j \in Counters : j # k => mem'.count[j] = mem.count[j]
      BY <1>6, FinalizeDoes DEF Points
    <3>2. /\ mem'.rec[b] # "building" /\ \A c \in Builds : c # b => mem'.rec[c] = mem.rec[c]
          /\ mem \in Stores /\ mem' \in Stores
      BY <1>6, FinalizeDoes DEF Points, Types, StoreTypes
    <3> QED
      BY <2>3, <2>5, <3>1, <3>2, EndBalances DEF Balances
  <2> QED
    BY <2>3, <2>4, <2>6 DEF CountInv, Balances, Balanced
<1>7. ASSUME NEW b \in Builds, PublishStatus(b) PROVE CountInv'
  <2>1. SUFFICES ASSUME Uncut' PROVE CountInv'
    BY DEF CountInv
  <2>2. rare \subseteq rare'
    BY <1>7, PublishStatusDoes DEF Points
  <2>3. Uncut /\ Balances /\ (up = "down" => "builder stop" \in rare /\ Open(file) = {})
    BY <2>1, <2>2 DEF CountInv, Uncut, Balances
  <2>4. /\ UNCHANGED <<mem, file, up, rare>> /\ task'[b].snap = task[b].snap
        /\ \A c \in Builds : c # b => task'[c] = task[c]
    BY <1>7, PublishStatusDoes DEF Goes
  <2> QED
    BY <2>3, <2>4 DEF CountInv, Balances
<1>8. ASSUME NEW b \in Builds, BuildImage(b) PROVE CountInv'
  <2>1. SUFFICES ASSUME Uncut' PROVE CountInv'
    BY DEF CountInv
  <2>2. rare \subseteq rare'
    BY <1>8, BuildImageDoes DEF Points
  <2>3. Uncut /\ Balances /\ (up = "down" => "builder stop" \in rare /\ Open(file) = {})
    BY <2>1, <2>2 DEF CountInv, Uncut, Balances
  <2>4. /\ UNCHANGED <<mem, file, up, rare>> /\ task'[b].snap = task[b].snap
        /\ \A c \in Builds : c # b => task'[c] = task[c]
    BY <1>8, BuildImageDoes DEF Goes
  <2> QED
    BY <2>3, <2>4 DEF CountInv, Balances
<1>9. ASSUME NEW b \in Builds, TellMetadata(b) PROVE CountInv'
  <2>1. SUFFICES ASSUME Uncut' PROVE CountInv'
    BY DEF CountInv
  <2>2. rare \subseteq rare'
    BY <1>9, TellMetadataDoes DEF Points
  <2>3. Uncut /\ Balances /\ (up = "down" => "builder stop" \in rare /\ Open(file) = {})
    BY <2>1, <2>2 DEF CountInv, Uncut, Balances
  <2>4. UNCHANGED <<mem, up, task>> /\ file' \in {file, mem}
    BY <1>9, TellMetadataDoes DEF Points
  <2>5. up # "down"
    BY <1>9, TellMetadataDoes DEF Points, Stopped, At
  <2> QED
    BY <2>3, <2>4, <2>5 DEF CountInv, Balances
<1>10. CASE StartBuild
  <2>1. SUFFICES ASSUME Uncut' PROVE CountInv'
    BY DEF CountInv
  <2>2. rare \subseteq rare'
    BY <1>10, StartBuildDoes DEF Points
  <2>3. Uncut /\ Balances /\ (up = "down" => "builder stop" \in rare /\ Open(file) = {})
    BY <2>1, <2>2 DEF CountInv, Uncut, Balances
  <2>4. PICK b \in Builds : b = Head(queue)
    BY <1>10, StartBuildDoes
  <2>5. /\ UNCHANGED <<mem, file, up, rare>> /\ task'[b].snap = task[b].snap
        /\ \A c \in Builds : c # b => task'[c] = task[c]
    BY <1>10, <2>4, StartBuildDoes DEF Goes
  <2> QED
    BY <2>3, <2>5 DEF CountInv, Balances
<1>11. CASE RemoveExpired
  <2>1. SUFFICES ASSUME Uncut' PROVE CountInv'
    BY DEF CountInv
  <2>2. rare \subseteq rare'
    BY <1>11, RemoveExpiredDoes DEF Points
  <2>3. Uncut /\ Balances /\ (up = "down" => "builder stop" \in rare /\ Open(file) = {})
    BY <2>1, <2>2 DEF CountInv, Uncut, Balances
  <2>4. PICK b \in Builds :
          /\ mem.rec[b] \in {"success", "failed"}
          /\ mem'.rec[b] = "none" /\ \A c \in Builds : c # b => mem'.rec[c] = mem.rec[c]
    BY <1>11, RemoveExpiredDoes
  <2>5. \A c \in Builds : mem'.rec[c] = "building" <=> mem.rec[c] = "building"
    BY <2>4
  <2>6. Open(mem') = Open(mem) /\ mem'.count = mem.count
    BY <1>11, <2>5, RemoveExpiredDoes, SameOpen
  <2>7. Balanced(mem')
    BY <2>3, <2>6, SameBalance DEF Balances
  <2>8. file' \in {mem', file} /\ UNCHANGED <<up, task>> /\ up = "up"
    BY <1>11, RemoveExpiredDoes
  <2> QED
    BY <2>3, <2>7, <2>8 DEF CountInv, Balances, Balanced
<1>12. CASE Stop
  <2>1. SUFFICES ASSUME Uncut' PROVE CountInv'
    BY DEF CountInv
  <2>2. rare \subseteq rare'
    BY <1>12, StopDoes DEF Points
  <2>3. Uncut /\ Balances /\ (up = "down" => "builder stop" \in rare /\ Open(file) = {})
    BY <2>1, <2>2 DEF CountInv, Uncut, Balances
  <2>4. UNCHANGED <<mem, file, task>> /\ up' # "down"
    BY <1>12, StopDoes
  <2> QED
    BY <2>3, <2>4 DEF CountInv, Balances
<1>13. CASE Exit
  <2>1. SUFFICES ASSUME Uncut' PROVE CountInv'
    BY DEF CountInv
  <2>2. rare \subseteq rare'
    BY <1>13, ExitDoes
  <2>3. Uncut /\ Balances /\ (up = "down" => "builder stop" \in rare /\ Open(file) = {})
    BY <2>1, <2>2 DEF CountInv, Uncut, Balances
  <2>4. /\ "builder stop" \in rare' /\ "cut" \notin rare' /\ "save" \notin rare /\ Running = {}
        /\ up # "down"
    BY <1>13, <2>1, <2>2, ExitDoes DEF Uncut
  <2>5. \A b \in Builds : At(b, {"none", "end"})
    BY <2>4 DEF Running, At
  <2>6. lock = None /\ ~WillSave
    BY <2>5 DEF Points, Locked, WillSave, At, Writing, Unsaved, Types, BuilderTypes
  <2>7. file = mem
    BY <2>4, <2>6 DEF SavedInv
  <2>8. Open(file) = {}
    BY <2>5, <2>7 DEF Open, Points, Recorded, At, Active
  <2>9. /\ mem' = EmptyStore /\ file' = file /\ up' = "down"
        /\ \A b \in Builds : task'[b].snap = EmptyStore
    BY <1>13, ExitDoes
  <2> QED
    BY <2>3, <2>4, <2>8, <2>9, EmptyBalance DEF CountInv, Balances
<1>14. CASE Load
  <2>1. SUFFICES ASSUME Uncut' PROVE CountInv'
    BY DEF CountInv
  <2>2. rare \subseteq rare'
    BY <1>14, LoadDoes
  <2>3. Uncut /\ Balances /\ (up = "down" => "builder stop" \in rare /\ Open(file) = {})
    BY <2>1, <2>2 DEF CountInv, Uncut, Balances
  <2>4. Open(file) = {} /\ up' = "up" /\ UNCHANGED task /\ file' = mem'
    BY <1>14, <2>3, LoadDoes
  <2>5. \A b \in Builds : mem'.rec[b] # "building" /\ file.rec[b] # "building"
    BY <1>14, LoadDoes, <2>4 DEF Open
  <2>6. Open(mem') = Open(file) /\ mem'.count = file.count
    BY <1>14, <2>5, LoadDoes, SameOpen
  <2>7. Balanced(mem')
    BY <2>3, <2>6, SameBalance DEF Balances
  <2> QED
    BY <2>3, <2>4, <2>7 DEF CountInv, Balances, Balanced
<1>15. CASE UNCHANGED vars
  BY <1>15 DEF vars, CountInv, Uncut, Balanced, Open
<1> QED
  BY <1>1, <1>2, <1>3, <1>4, <1>5, <1>6, <1>7, <1>8, <1>9, <1>10, <1>11, <1>12, <1>13, <1>14,
     <1>15 DEF Next, Follow, Record, Done, ApiStep


-----------------------------------------------------------------------------
(* TypeOK *)

(* How many builds have begun and ended. *)
LEMMA Sizes ==
  /\ Cardinality(Begun) \in Nat /\ Cardinality(Finished) \in Nat
  /\ Cardinality(Begun) <= Cardinality(Builds) /\ Cardinality(Finished) <= Cardinality(Builds)
<1>1. Begun \subseteq Builds /\ Finished \subseteq Builds
  BY DEF Begun, Finished
<1> QED
  BY <1>1, BuildsAssumption, FS_Subset, FS_CardinalityType

(* No build is begun or ended twice, or is as if it had not. *)
Grown ==
  /\ Cardinality(Begun) <= Cardinality(Begun')
  /\ Cardinality(Finished) <= Cardinality(Finished')
(* Both sets grow while no build goes back. *)
LEMMA Grow ==
  ASSUME \A c \in Builds : At(c, {"none", "insert"})' => At(c, {"none", "insert"}),
         \A c \in Builds : At(c, {"save result", "write result", "publish", "end"})
                             => At(c, {"save result", "write result", "publish", "end"})'
  PROVE  Grown
<1>1. PICK s, t, u, v : s = Begun /\ t = Begun' /\ u = Finished /\ v = Finished'
  OBVIOUS
<1>2. t \subseteq Builds /\ v \subseteq Builds /\ s \subseteq t /\ u \subseteq v
  BY <1>1 DEF Begun, Finished
<1>3. IsFiniteSet(t) /\ IsFiniteSet(v)
  BY <1>2, BuildsAssumption, FS_Subset
<1>4. Cardinality(s) <= Cardinality(t) /\ Cardinality(u) <= Cardinality(v)
  BY <1>2, <1>3, FS_Subset
<1> QED
  BY <1>1, <1>4 DEF Grown

(* A build that is recorded is one more that has begun. *)
LEMMA OneBegun ==
  ASSUME Types, NEW b \in Builds, At(b, {"insert"}), Goes(b, {"save"})
  PROVE  /\ Cardinality(Begun') = Cardinality(Begun) + 1
         /\ Cardinality(Finished') = Cardinality(Finished)
<1>1. PICK s, t, u, v : s = Begun /\ t = Begun' /\ u = Finished /\ v = Finished'
  OBVIOUS
<1>2. t = s \cup {b} /\ b \notin s /\ s \subseteq Builds
  BY <1>1 DEF Begun, At, Goes
<1>3. v = u
  BY <1>1 DEF Finished, At, Goes
<1>4. Cardinality(t) = Cardinality(s) + 1
  BY <1>2, BuildsAssumption, FS_Subset, FS_AddElement
<1> QED
  BY <1>1, <1>3, <1>4

(* A build whose result is recorded is one more that has ended. *)
LEMMA OneFinished ==
  ASSUME Types, NEW b \in Builds, At(b, {"finalize"}), Goes(b, {"save result"})
  PROVE  /\ Cardinality(Finished') = Cardinality(Finished) + 1
         /\ Cardinality(Begun') = Cardinality(Begun)
<1>1. PICK s, t, u, v : s = Finished /\ t = Finished' /\ u = Begun /\ v = Begun'
  OBVIOUS
<1>2. t = s \cup {b} /\ b \notin s /\ s \subseteq Builds
  BY <1>1 DEF Finished, At, Goes
<1>3. v = u
  BY <1>1 DEF Begun, At, Goes
<1>4. Cardinality(t) = Cardinality(s) + 1
  BY <1>2, BuildsAssumption, FS_Subset, FS_AddElement
<1> QED
  BY <1>1, <1>3, <1>4

(* An empty store has counted nothing. *)
LEMMA EmptyCounts == \A c \in Counters : EmptyStore.count[c] = 0
BY DEF EmptyStore, NoCounts

(* At first nothing is counted. *)
LEMMA InitBound == Init => BoundInv
<1> SUFFICES ASSUME Init PROVE BoundInv
  OBVIOUS
<1>1. mem = EmptyStore /\ file = EmptyStore /\ \A b \in Builds : task[b].snap = EmptyStore
  BY DEF Init
<1>2. Bounded(EmptyStore)
  BY EmptyCounts, Sizes DEF Bounded, Counters
<1> QED
  BY <1>1, <1>2 DEF BoundInv, Bounded

(* A store that was bounded is bounded while the builds go on. *)
WillBe(s) ==
  /\ s.count["started"] <= Cardinality(Begun')
  /\ \A c \in Counters \ {"started"} : s.count[c] <= Cardinality(Finished')
(* The sets of the next state are finite too. *)
LEMMA SizesNext == Cardinality(Begun') \in Nat /\ Cardinality(Finished') \in Nat
<1>1. Begun' \subseteq Builds /\ Finished' \subseteq Builds
  BY DEF Begun, Finished
<1> QED
  BY <1>1, BuildsAssumption, FS_Subset, FS_CardinalityType

(* What was in bounds stays in bounds when the sets grow. *)
LEMMA StillBounded ==
  ASSUME NEW s \in Stores, Bounded(s), Grown
  PROVE  WillBe(s)
<1>1. \A c \in Counters : s.count[c] \in Nat
  BY DEF Stores
<1>2. \A c \in Counters \ {"started"} : s.count[c] <= Cardinality(Finished')
  BY <1>1, Sizes, SizesNext DEF Bounded, Grown
<1>3. s.count["started"] <= Cardinality(Begun')
  BY <1>1, Sizes, SizesNext DEF Bounded, Grown, Counters
<1> QED
  BY <1>2, <1>3 DEF WillBe

(* So do all the stores there are. *)
LEMMA AllStillBounded ==
  ASSUME Types, BoundInv, Grown
  PROVE  WillBe(mem) /\ WillBe(file) /\ WillBe(EmptyStore) /\ \A b \in Builds : WillBe(task[b].snap)
<1>1. mem \in Stores /\ file \in Stores /\ \A b \in Builds : task[b].snap \in Stores
  BY DEF Types, StoreTypes
<1>2. WillBe(EmptyStore)
  BY EmptyCounts, SizesNext DEF WillBe, Counters
<1> QED
  BY <1>1, <1>2, StillBounded DEF BoundInv

(* No store counts more builds than have begun, and ended. *)
LEMMA BoundKept ==
  ASSUME Types, Points, BoundInv, [Next]_vars
  PROVE  BoundInv'
<1>1. CASE ApiStep
  <2>1. Grown
    BY <1>1, ApiQuiet, Grow DEF At, Goes
  <2>2. WillBe(mem) /\ WillBe(file) /\ WillBe(EmptyStore)
                    /\ \A c \in Builds : WillBe(task[c].snap)
    BY <2>1, AllStillBounded
  <2>3. UNCHANGED <<mem, file, task>>
    BY <1>1, ApiQuiet
  <2> QED
    BY <2>2, <2>3 DEF BoundInv, Bounded, WillBe
<1>2. ASSUME NEW b \in Builds, Insert(b) PROVE BoundInv'
  <2>1. /\ Cardinality(Begun') = Cardinality(Begun) + 1
        /\ Cardinality(Finished') = Cardinality(Finished)
    BY <1>2, InsertDoes, OneBegun
  <2>2. Grown
    BY <2>1, Sizes DEF Grown
  <2>3. WillBe(file) /\ \A c \in Builds : WillBe(task[c].snap)
    BY <2>2, AllStillBounded
  <2>4. file' = file /\ \A c \in Builds : task'[c].snap = task[c].snap
    BY <1>2, InsertDoes DEF Goes
  <2>5. WillBe(mem')
    <3>1. /\ mem'.count["started"] = mem.count["started"] + 1
          /\ \A k \in Counters \ {"started"} : mem'.count[k] = mem.count[k]
          /\ mem.count["started"] \in Nat
      BY <1>2, InsertDoes DEF Ends, Types, StoreTypes, Stores, Counters
    <3>2. mem.count["started"] + 1 <= Cardinality(Begun')
      BY <2>1, <3>1, Sizes DEF BoundInv, Bounded
    <3> QED
      BY <2>1, <3>1, <3>2 DEF BoundInv, Bounded, WillBe
  <2> QED
    BY <2>3, <2>4, <2>5 DEF BoundInv, Bounded, WillBe
<1>3. ASSUME NEW b \in Builds, Snapshot(b) PROVE BoundInv'
  <2>1. Grown
    BY <1>3, SnapshotDoes, Grow DEF At, Goes
  <2>2. WillBe(mem) /\ WillBe(file) /\ WillBe(EmptyStore)
                    /\ \A c \in Builds : WillBe(task[c].snap)
    BY <2>1, AllStillBounded
  <2>3. /\ UNCHANGED <<mem, file>>
        /\ \A c \in Builds : task'[c].snap \in {task[c].snap, mem}
    BY <1>3, SnapshotDoes DEF Goes
  <2> QED
    BY <2>2, <2>3 DEF BoundInv, Bounded, WillBe
<1>4. ASSUME NEW b \in Builds, WriteSnapshot(b) PROVE BoundInv'
  <2>1. Grown
    BY <1>4, WriteSnapshotDoes, Grow DEF At, Goes
  <2>2. WillBe(mem) /\ WillBe(file) /\ WillBe(EmptyStore)
                    /\ \A c \in Builds : WillBe(task[c].snap)
    BY <2>1, AllStillBounded
  <2>3. /\ mem' = mem /\ file' \in {file, task[b].snap}
        /\ \A c \in Builds : task'[c].snap \in {task[c].snap, EmptyStore}
    BY <1>4, WriteSnapshotDoes DEF Goes
  <2> QED
    BY <2>2, <2>3 DEF BoundInv, Bounded, WillBe
<1>5. ASSUME NEW b \in Builds, Cancel(b) PROVE BoundInv'
  <2>1. Grown
    BY <1>5, CancelDoes, Grow DEF At, Goes
  <2>2. WillBe(mem) /\ WillBe(file) /\ WillBe(EmptyStore)
                    /\ \A c \in Builds : WillBe(task[c].snap)
    BY <2>1, AllStillBounded
  <2>3. /\ UNCHANGED <<mem, file>> /\ \A c \in Builds : task'[c].snap = task[c].snap
    BY <1>5, CancelDoes DEF Goes
  <2> QED
    BY <2>2, <2>3 DEF BoundInv, Bounded, WillBe
<1>6. ASSUME NEW b \in Builds, Finalize(b) PROVE BoundInv'
  <2>1. /\ Cardinality(Finished') = Cardinality(Finished) + 1
        /\ Cardinality(Begun') = Cardinality(Begun)
    BY <1>6, FinalizeDoes, OneFinished DEF Points
  <2>2. Grown
    BY <2>1, Sizes DEF Grown
  <2>3. WillBe(file) /\ WillBe(mem) /\ \A c \in Builds : WillBe(task[c].snap)
    BY <2>2, AllStillBounded
  <2>4. file' = file /\ \A c \in Builds : task'[c].snap = task[c].snap
    BY <1>6, FinalizeDoes DEF Goes, Points
  <2>5. PICK k \in Ends : /\ mem'.count[k] = mem.count[k] + 1
                          /\ \A j \in Counters : j # k => mem'.count[j] = mem.count[j]
    BY <1>6, FinalizeDoes DEF Points
  <2>6. WillBe(mem')
    <3>1. mem.count[k] \in Nat /\ k \in Counters /\ k # "started" /\ "started" \in Counters
      BY DEF Ends, Types, StoreTypes, Stores, Counters
    <3>2. mem.count[k] <= Cardinality(Finished)
      BY <3>1 DEF BoundInv, Bounded
    <3>3. mem'.count[k] <= Cardinality(Finished')
      BY <2>1, <2>5, <3>1, <3>2, Sizes
    <3> QED
      BY <2>3, <2>5, <3>1, <3>3 DEF WillBe
  <2> QED
    BY <2>3, <2>4, <2>6 DEF BoundInv, Bounded, WillBe
<1>7. ASSUME NEW b \in Builds, PublishStatus(b) PROVE BoundInv'
  <2>1. Grown
    BY <1>7, PublishStatusDoes, Grow DEF At, Goes
  <2>2. WillBe(mem) /\ WillBe(file) /\ WillBe(EmptyStore)
                    /\ \A c \in Builds : WillBe(task[c].snap)
    BY <2>1, AllStillBounded
  <2>3. /\ UNCHANGED <<mem, file>> /\ \A c \in Builds : task'[c].snap = task[c].snap
    BY <1>7, PublishStatusDoes DEF Goes
  <2> QED
    BY <2>2, <2>3 DEF BoundInv, Bounded, WillBe
<1>8. ASSUME NEW b \in Builds, BuildImage(b) PROVE BoundInv'
  <2>1. Grown
    BY <1>8, BuildImageDoes, Grow DEF At, Goes
  <2>2. WillBe(mem) /\ WillBe(file) /\ WillBe(EmptyStore)
                    /\ \A c \in Builds : WillBe(task[c].snap)
    BY <2>1, AllStillBounded
  <2>3. /\ UNCHANGED <<mem, file>> /\ \A c \in Builds : task'[c].snap = task[c].snap
    BY <1>8, BuildImageDoes DEF Goes
  <2> QED
    BY <2>2, <2>3 DEF BoundInv, Bounded, WillBe
<1>9. ASSUME NEW b \in Builds, TellMetadata(b) PROVE BoundInv'
  <2>1. Grown
    BY <1>9, TellMetadataDoes, Grow DEF At, Goes, Points
  <2>2. WillBe(mem) /\ WillBe(file) /\ WillBe(EmptyStore)
                    /\ \A c \in Builds : WillBe(task[c].snap)
    BY <2>1, AllStillBounded
  <2>3. mem' = mem /\ task' = task /\ file' \in {file, mem}
    BY <1>9, TellMetadataDoes DEF Points
  <2> QED
    BY <2>2, <2>3 DEF BoundInv, Bounded, WillBe
<1>10. CASE StartBuild
  <2>0. PICK b \in Builds : b = Head(queue)
    BY <1>10, StartBuildDoes
  <2>1. Grown
    <3>1. At(b, {"none"}) /\ Goes(b, {"insert"})
      BY <1>10, <2>0, StartBuildDoes, StartsNew
    <3> QED
      BY <3>1, Grow DEF At, Goes
  <2>2. WillBe(mem) /\ WillBe(file) /\ WillBe(EmptyStore)
                    /\ \A c \in Builds : WillBe(task[c].snap)
    BY <2>1, AllStillBounded
  <2>3. /\ UNCHANGED <<mem, file>> /\ \A c \in Builds : task'[c].snap = task[c].snap
    BY <1>10, <2>0, StartBuildDoes DEF Goes
  <2> QED
    BY <2>2, <2>3 DEF BoundInv, Bounded, WillBe
<1>11. CASE RemoveExpired
  <2>1. Grown
    BY <1>11, RemoveExpiredDoes, Grow DEF At, Goes
  <2>2. WillBe(mem) /\ WillBe(file) /\ WillBe(EmptyStore)
                    /\ \A c \in Builds : WillBe(task[c].snap)
    BY <2>1, AllStillBounded
  <2>3. mem'.count = mem.count /\ file' \in {file, mem'} /\ task' = task
    BY <1>11, RemoveExpiredDoes
  <2>4. WillBe(mem')
    BY <2>2, <2>3 DEF WillBe
  <2> QED
    BY <2>2, <2>3, <2>4 DEF BoundInv, Bounded, WillBe
<1>12. CASE Stop
  <2>1. Grown
    BY <1>12, StopDoes, Grow DEF At, Goes
  <2>2. WillBe(mem) /\ WillBe(file) /\ WillBe(EmptyStore)
                    /\ \A c \in Builds : WillBe(task[c].snap)
    BY <2>1, AllStillBounded
  <2>3. UNCHANGED <<mem, file, task>>
    BY <1>12, StopDoes
  <2> QED
    BY <2>2, <2>3 DEF BoundInv, Bounded, WillBe
<1>13. CASE Exit
  <2>1. Grown
    BY <1>13, ExitDoes, Grow DEF At, Goes
  <2>2. WillBe(mem) /\ WillBe(file) /\ WillBe(EmptyStore)
                    /\ \A c \in Builds : WillBe(task[c].snap)
    BY <2>1, AllStillBounded
  <2>3. /\ mem' = EmptyStore /\ file' = file
        /\ \A b \in Builds : task'[b].snap = EmptyStore
    BY <1>13, ExitDoes
  <2> QED
    BY <2>2, <2>3 DEF BoundInv, Bounded, WillBe
<1>14. CASE Load
  <2>1. Grown
    BY <1>14, LoadDoes, Grow DEF At, Goes
  <2>2. WillBe(mem) /\ WillBe(file) /\ WillBe(EmptyStore)
                    /\ \A c \in Builds : WillBe(task[c].snap)
    BY <2>1, AllStillBounded
  <2>3. mem'.count = file.count /\ file' = mem' /\ task' = task
    BY <1>14, LoadDoes
  <2>4. WillBe(mem')
    BY <2>2, <2>3 DEF WillBe
  <2> QED
    BY <2>2, <2>3, <2>4 DEF BoundInv, Bounded, WillBe
<1>15. CASE UNCHANGED vars
  BY <1>15 DEF vars, BoundInv, Bounded, Begun, Finished, At
<1> QED
  BY <1>1, <1>2, <1>3, <1>4, <1>5, <1>6, <1>7, <1>8, <1>9, <1>10, <1>11, <1>12, <1>13, <1>14,
     <1>15 DEF Next, Follow, Record, Done, ApiStep


(* The types and the bounds are those TypeOK states. *)
LEMMA BoundTypes ==
  ASSUME Types, BoundInv
  PROVE  TypeOK
<1>1. ASSUME NEW s \in Stores, Bounded(s)
      PROVE  s \in Store
  <2>1. Cardinality(Builds) \in Nat
    BY BuildsAssumption, FS_CardinalityType
  <2>2. \A c \in Counters : s.count[c] \in Nat /\ s.count[c] <= Cardinality(Builds)
    <3>1. \A c \in Counters : s.count[c] \in Nat
      BY DEF Stores
    <3>2. s.count["started"] <= Cardinality(Builds)
      BY <1>1, <2>1, <3>1, Sizes DEF Bounded, Counters
    <3>3. ASSUME NEW c \in Counters \ {"started"}
          PROVE  s.count[c] <= Cardinality(Builds)
      <4>1. s.count[c] <= Cardinality(Finished) /\ s.count[c] \in Nat
        BY <1>1, <3>1 DEF Bounded
      <4> QED
        BY <2>1, <4>1, Sizes
    <3> QED
      BY <3>1, <3>2, <3>3
  <2>3. s.count \in [Counters -> 0 .. Cardinality(Builds)]
    BY <2>1, <2>2 DEF Stores
  <2> QED
    BY <2>3 DEF Stores, Store
<1>2. mem \in Store /\ file \in Store /\ \A b \in Builds : task[b].snap \in Store
  BY <1>1 DEF Types, StoreTypes, BoundInv
<1>3. task \in [Builds -> [pc : TaskCounters, snap : Store]]
  BY <1>2 DEF Types, StoreTypes
<1> QED
  BY <1>2, <1>3 DEF Types, ApiTypes, BuilderTypes, RareTypes, TypeOK

-----------------------------------------------------------------------------
(* The theorems *)

(* Every reachable state satisfies the invariant. *)
LEMMA Invariant == Spec => []IInv
<1>1. Init => IInv
  BY InitTypes, InitPoints, InitCause, InitSaved, InitCount, InitBound DEF IInv
<1>2. IInv /\ [Next]_vars => IInv'
  <2>1. IInv => Types /\ Points /\ CauseInv /\ SavedInv /\ CountInv
              /\ BoundInv /\ Recorded /\ Resulted
    BY DEF IInv, Points
  <2> QED
    BY <2>1, TypesKept, PointsKept, CauseKept, SavedKept, CountKept, BoundKept DEF IInv
<1> QED
  BY <1>1, <1>2, PTL DEF Spec

(* Every variable keeps its type, and no counter exceeds the number of builds: each is counted *)
(* once when it begins and once when it ends, whatever is loaded from the file.                *)
THEOREM TypeCorrect == Spec => []TypeOK
<1>1. IInv => TypeOK
  BY BoundTypes DEF IInv
<1> QED
  BY <1>1, Invariant, PTL

(* A deployment is failed only because its build has failed, unless a request was not answered *)
(* in time, was answered too early, or the builder was stopped, forgot or could not save.      *)
THEOREM FailuresHaveCause == Spec => []FailedHasCause
<1>1. IInv => FailedHasCause
  BY DEF IInv, CauseInv, Faultless, Causes, Resolved, FailedHasCause
<1> QED
  BY <1>1, Invariant, PTL

(* When no build has a change to save, the file holds what the memory holds, in whatever order *)
(* the builds saved theirs.                                                                    *)
THEOREM FileIsSaved == Spec => []SavedAtRest
<1>1. IInv => SavedAtRest
  <2>1. SUFFICES ASSUME IInv, up = "up", "save" \notin rare,
                        \A b \in Builds : task[b].pc \notin Saving
                 PROVE  file = mem
    BY DEF SavedAtRest
  <2>2. ~WillSave /\ \A b \in Builds : ~At(b, Writing)
    BY <2>1 DEF WillSave, At, Writing, Unsaved, Saving
  <2>3. lock = None
    BY <2>1, <2>2 DEF IInv, Types, BuilderTypes, Points, Locked
  <2> QED
    BY <2>1, <2>2, <2>3 DEF IInv, SavedInv
<1> QED
  BY <1>1, Invariant, PTL

(* The counters of the metrics agree at rest, also after a restart, unless a build was cut or *)
(* its result could not be saved.                                                             *)
THEOREM CountersAgree == Spec => []CountsAgree
<1>1. IInv => CountsAgree
  BY DEF IInv, CountInv, Uncut, Balanced, Open, CountsAgree, Building
<1> QED
  BY <1>1, Invariant, PTL

===============================================================================
