------------------------------- MODULE Volumes ------------------------------
(***************************************************************************)
(* Volumes of one tenant: their rows and the tenant's usage in the API's   *)
(* database, their images in Ceph, and the VMs that map them.  Every       *)
(* request is handled by a task of the API that reads, writes a row and    *)
(* asks an agent, through the scheduler, to do the same to the image; no   *)
(* transaction spans two of these steps, and the answer may not come.  A   *)
(* VM keeps the list of volumes it was deployed with, and an agent that    *)
(* boots it makes the images that are missing.                             *)
(*                                                                         *)
(* What an image holds, mount points and sizes are left out: every volume  *)
(* counts as one, and restoring a snapshot changes nothing kept here.      *)
(***************************************************************************)
EXTENDS Naturals, FiniteSets

CONSTANTS
  Vols,       (* volumes that may be created, each once                     *)
  Snaps,      (* rows of snapshots that may be written, each once           *)
  Names,      (* names a user may give to a snapshot                        *)
  Apps,       (* applications of the tenant                                 *)
  Handlers,   (* requests that are handled at a time                        *)
  MaxVolumes, (* max_volumes of the tenant's tier                           *)
  None,
  MaxRequests,(* bound on the requests of one behaviour                     *)
  MaxEvents   (* bound on the kinds of unusual events of one behaviour      *)

ASSUME VolumesAssumption == IsFiniteSet(Vols) /\ IsFiniteSet(Handlers)

VARIABLES
  volume,     (* rows of volumes                                            *)
  snapshot,   (* rows of snapshots, with their volume and name              *)
  attachment, (* app_volumes: the mode in which an application has a volume *)
  used,       (* volumes_count of the tenant                                *)
  image,      (* RBD images, with their snapshots and the one they are of   *)
  guest,      (* an application's job: its volumes, if it runs, what is mapped *)
  handler,    (* what each handler does and how far it is                   *)
  begun,      (* requests so far                                            *)
  late,       (* requests nobody waits for and an agent may yet carry out   *)
  promised,   (* what users were told of snapshots, or asked, last          *)
  events      (* what happened that not every property survives             *)

vars == <<volume, snapshot, attachment, used, image, guest, handler, begun, late,
                promised, events>>
rows == <<volume, snapshot, attachment, used>>

NoSnapshot == [st |-> "none", vol |-> None, name |-> None]
NoImage == [there |-> FALSE, snaps |-> {}, protected |-> {}, parent |-> None]
Idle == [op |-> "none", at |-> "idle", v |-> None, s |-> None, name |-> None, t |-> None]

Exists(v) == volume[v] = "row"
Stored == {v \in Vols : Exists(v)}
SnapshotsOf(v) == {s \in Snaps : snapshot[s].st = "row" /\ snapshot[s].vol = v}
Attached(v) == {a \in Apps : attachment[a][v] # "no"}

Happens(E) == events' = events \cup E /\ Cardinality(events') <= MaxEvents
If(e, b) == IF b THEN {e} ELSE {}

Busy(h) == handler[h].at # "idle"
At(h, op, at) == handler[h].op = op /\ handler[h].at = at
Goto(h, at) == handler' = [handler EXCEPT ![h].at = at]
End(h) == handler' = [handler EXCEPT ![h] = Idle]
Begin(h) == ~Busy(h) /\ begun < MaxRequests /\ begun' = begun + 1
Send(h, op, v, s, n, t) ==
  handler' = [handler EXCEPT ![h] =
    [op |-> op, at |-> "sent", v |-> v, s |-> s, name |-> n, t |-> t]]

(* Requests whose handlers have not ended, or that an agent may still carry out. *)
Pending == {handler[h] : h \in Handlers} \cup late
Changing(v) == \E q \in Pending : q.t = v \/ (q.op \in {"create", "delete"} /\ q.v = v)

(*--------------------------------- Agents --------------------------------*)

Mapped(v) == {a \in Apps : v \in guest[a].mapped}
Children(v, n) == {w \in Vols : image[w].parent = <<v, n>>}

CreateImage(v) == [image EXCEPT ![v] = [NoImage EXCEPT !.there = TRUE]]

(* Mutant: an image is removed though a VM has it mapped. *)
RemovableBusy(v) == image[v].protected = {}
Removable(v) == Mapped(v) = {} /\ image[v].protected = {}

(* Snapshots are purged first; one that is protected stays, and the image with it. *)
DeleteImage(v) ==
  IF Removable(v) THEN [image EXCEPT ![v] = NoImage]
  ELSE IF Mapped(v) = {} THEN [image EXCEPT ![v].snaps = @ \cap image[v].protected]
  ELSE image

CreateImageSnapshot(v, n) == [image EXCEPT ![v].snaps = @ \cup {n}]
DeleteImageSnapshot(v, n) ==
  [image EXCEPT ![v].snaps = @ \ {n}, ![v].protected = @ \ {n}]
CloneImage(v, n, t) ==
  [image EXCEPT ![v].protected = @ \cup {n},
                ![t] = [NoImage EXCEPT !.there = TRUE, !.parent = <<v, n>>]]

HasSnapshot(q) == image[q.v].there /\ q.name \in image[q.v].snaps
Succeeds(q) ==
  \/ q.op = "create" /\ ~image[q.v].there
  \/ q.op = "delete" /\ Removable(q.v)
  \/ q.op = "snapshot" /\ image[q.v].there /\ q.name \notin image[q.v].snaps
  \/ q.op = "unsnapshot" /\ HasSnapshot(q) /\ Children(q.v, q.name) = {}
  \/ q.op = "restore" /\ HasSnapshot(q)
  \/ q.op = "clone" /\ HasSnapshot(q) /\ ~image[q.t].there

(* What a request does to the images; one that fails may still have done a part of it. *)
Done(q) ==
  CASE q.op = "delete" -> DeleteImage(q.v)
    [] q.op = "create" /\ Succeeds(q) -> CreateImage(q.v)
    [] q.op = "snapshot" /\ Succeeds(q) -> CreateImageSnapshot(q.v, q.name)
    [] q.op = "unsnapshot" /\ Succeeds(q) -> DeleteImageSnapshot(q.v, q.name)
    [] q.op = "clone" /\ Succeeds(q) -> CloneImage(q.v, q.name, q.t)
    [] q.op = "clone" /\ HasSnapshot(q) /\ ~Succeeds(q) ->
         [image EXCEPT ![q.v].protected = @ \cup {q.name}]
    [] OTHER -> image

(* The agent has answered, and the scheduler with it. *)
Execute(h) ==
  /\ handler[h].at = "sent"
  /\ image' = Done(handler[h])
  /\ Goto(h, IF Succeeds(handler[h]) THEN "ok" ELSE "refused")
  /\ UNCHANGED <<rows, guest, begun, late, promised, events>>

(* pick_any_healthy_worker: nobody is asked. *)
NoWorker(h) ==
  /\ handler[h].at = "sent"
  /\ Goto(h, "refused")
  /\ UNCHANGED <<rows, image, guest, begun, late, promised, events>>

(* request_with_timeout: the scheduler refuses as the agent did not answer it in time, and the *)
(* agent may carry the request out all the same.                                               *)
AgentTimeout(h) ==
  /\ handler[h].at = "sent"
  /\ Goto(h, "refused")
  /\ late' = late \cup {handler[h]}
  /\ Happens({"unanswered"})
  /\ UNCHANGED <<rows, image, guest, begun, promised>>

ExecuteLate(q) ==
  /\ q \in late
  /\ late' = late \ {q}
  /\ image' = Done(q)
  /\ UNCHANGED <<rows, guest, handler, begun, promised, events>>

(* A VM is deployed with the volumes the application has at that time.  Those to be written by *)
(* many are directories of CephFS; the others are images, also those to be read by many.       *)
Deploy(a) ==
  /\ ~guest[a].on
  /\ guest' = [guest EXCEPT ![a].vols = {v \in Vols : attachment[a][v] \in {"rwo", "rox"}}]
  /\ UNCHANGED <<rows, image, handler, begun, late, promised, events>>

(* Its boot makes the images that are missing, and maps all of them. *)
Boot(a) ==
  /\ ~guest[a].on /\ guest[a].vols # {}
  /\ guest' = [guest EXCEPT ![a].on = TRUE, ![a].mapped = guest[a].vols]
  /\ LET missing == {v \in guest[a].vols : ~image[v].there} IN
       /\ image' = [v \in Vols |->
            IF v \in missing THEN [NoImage EXCEPT !.there = TRUE] ELSE image[v]]
       /\ Happens(If("revived", \E v \in missing : ~Exists(v) \/ Changing(v)))
  /\ UNCHANGED <<rows, handler, begun, late, promised>>

(* Firecracker's manager unmaps its volumes, if it can; Cloud Hypervisor's never does. *)
Stop(a) ==
  /\ guest[a].on
  /\ \E left \in {{}, guest[a].mapped} :
       guest' = [guest EXCEPT ![a].on = FALSE, ![a].mapped = left]
  /\ UNCHANGED <<rows, image, handler, begun, late, promised, events>>

(*----------------------------- Creating volumes --------------------------*)

CheckEntitlement(h) ==
  /\ Begin(h) /\ used + 1 <= MaxVolumes
  /\ handler' = [handler EXCEPT ![h] = [Idle EXCEPT !.op = "create", !.at = "insert"]]
  /\ UNCHANGED <<rows, image, guest, late, promised, events>>

InsertVolume(h, v) ==
  /\ At(h, "create", "insert") /\ volume[v] = "none"
  /\ volume' = [volume EXCEPT ![v] = "row"]
  /\ handler' = [handler EXCEPT ![h].at = "count", ![h].v = v]
  /\ UNCHANGED <<snapshot, attachment, used, image, guest, begun, late, promised, events>>

(* Mutant: the volume is counted when its image is there. *)
IncrementVolumesLate(h) ==
  \/ /\ At(h, "create", "count")
     /\ Goto(h, "sent")
     /\ UNCHANGED <<rows, image, guest, begun, late, promised, events>>
  \/ /\ At(h, "create", "ok")
     /\ used' = used + 1
     /\ End(h)
     /\ UNCHANGED <<volume, snapshot, attachment, image, guest, begun, late, promised, events>>
IncrementVolumes(h) ==
  /\ At(h, "create", "count")
  /\ used' = used + 1
  /\ Goto(h, "sent")
  /\ UNCHANGED <<volume, snapshot, attachment, image, guest, begun, late, promised, events>>

(* A clone is neither checked against the tier nor counted. *)
BeginClone(h, v, n, t) ==
  /\ Begin(h) /\ Exists(v) /\ volume[t] = "none"
  /\ volume' = [volume EXCEPT ![t] = "row"]
  /\ Send(h, "clone", v, None, n, t)
  /\ Happens({"cloned"})
  /\ UNCHANGED <<snapshot, attachment, used, image, guest, late, promised>>

(*----------------------------- Deleting volumes --------------------------*)

(* The row takes its attachments and snapshots with it. *)
RemoveRow(v) ==
  /\ volume' = [volume EXCEPT ![v] = IF @ = "row" THEN "gone" ELSE @]
  /\ attachment' = [a \in Apps |-> [attachment[a] EXCEPT ![v] = "no"]]
  /\ snapshot' = [s \in Snaps |-> IF s \in SnapshotsOf(v) THEN [snapshot[s] EXCEPT !.st = "gone"]
                                                          ELSE snapshot[s]]

(* Mutant: a volume that has snapshots may be deleted, as its image's are purged. *)
DeletableWithSnapshots(v) == Exists(v) /\ Attached(v) = {}
Deletable(v) == Exists(v) /\ SnapshotsOf(v) = {} /\ Attached(v) = {}

BeginDelete(h, v) ==
  /\ Begin(h) /\ Deletable(v)
  /\ Send(h, "delete", v, None, None, None)
  /\ Happens(If("raced", Changing(v)))
  /\ UNCHANGED <<rows, image, guest, late, promised>>

(* Mutant: the row is deleted whatever the agent says of the image. *)
DeleteVolumeAnyway(h) ==
  /\ handler[h].op = "delete" /\ handler[h].at \in {"ok", "refused"}
  /\ RemoveRow(handler[h].v)
  /\ Goto(h, "uncount")
  /\ Happens(If("twice", ~Exists(handler[h].v)))
  /\ UNCHANGED <<used, image, guest, begun, late, promised>>
DeleteVolume(h) ==
  /\ At(h, "delete", "ok")
  /\ RemoveRow(handler[h].v)
  /\ Goto(h, "uncount")
  /\ Happens(If("twice", ~Exists(handler[h].v)))
  /\ UNCHANGED <<used, image, guest, begun, late, promised>>

DecrementVolumes(h) ==
  /\ At(h, "delete", "uncount")
  /\ used' = IF used = 0 THEN 0 ELSE used - 1
  /\ End(h)
  /\ UNCHANGED <<volume, snapshot, attachment, image, guest, begun, late, promised, events>>

(*-------------------------------- Snapshots ------------------------------*)

(* A name may be given twice: the second row will never have a snapshot of its own. *)
BeginSnapshot(h, v, s, n) ==
  /\ Begin(h) /\ Exists(v) /\ snapshot[s].st = "none"
  /\ snapshot' = [snapshot EXCEPT ![s] = [st |-> "row", vol |-> v, name |-> n]]
  /\ Send(h, "snapshot", v, s, n, None)
  /\ LET namesakes == {o \in SnapshotsOf(v) : snapshot[o].name = n}
         others == {q \in Pending : q.v = v /\ q.name = n} IN
       Happens(If("same name", namesakes # {} \/ others # {}) \cup If("raced", Changing(v)))
  /\ UNCHANGED <<volume, attachment, used, image, guest, late, promised>>

SnapshotCreated(h) ==
  /\ At(h, "snapshot", "ok")
  /\ promised' = [promised EXCEPT ![handler[h].s] = IF @ = "none" THEN "told" ELSE @]
  /\ End(h)
  /\ UNCHANGED <<rows, image, guest, begun, late, events>>

BeginDeleteSnapshot(h, s) ==
  /\ Begin(h)
  /\ \E v \in Stored :
       s \in SnapshotsOf(v) /\ Send(h, "unsnapshot", v, s, snapshot[s].name, None)
  /\ promised' = [promised EXCEPT ![s] = "unwanted"]
  /\ UNCHANGED <<rows, image, guest, late, events>>

DeleteSnapshot(h) ==
  /\ At(h, "unsnapshot", "ok")
  /\ snapshot' = [snapshot EXCEPT ![handler[h].s].st = "gone"]
  /\ End(h)
  /\ UNCHANGED <<volume, attachment, used, image, guest, begun, late, promised, events>>

(* No row is looked at but the volume's, nor whether a VM has it. *)
BeginRestore(h, v, n) ==
  /\ Begin(h) /\ Exists(v)
  /\ Send(h, "restore", v, None, n, None)
  /\ UNCHANGED <<rows, image, guest, late, promised, events>>

(*------------------------------- Attachments -----------------------------*)

(* VolumeAccessMode: read and written by one application or by many, or read by many. *)
Modes == {"rwo", "rwx", "rox"}

(* Mutant: a volume may be shared when the request does not ask for it alone. *)
MayAttachShared(a, v, mode) == mode = "rwo" => Attached(v) \ {a} = {}
MayAttach(a, v, mode) ==
  /\ mode = "rwo" => Attached(v) \ {a} = {}
  /\ \A b \in Attached(v) \ {a} : attachment[b][v] # "rwo"

ReadAttachments(h, a, v, mode) ==
  /\ Begin(h) /\ Exists(v) /\ MayAttach(a, v, mode)
  /\ handler' = [handler EXCEPT ![h] =
       [op |-> "attach", at |-> "write", v |-> v, s |-> None, name |-> mode, t |-> a]]
  /\ Happens(If("overlap", \E q \in Pending : q.op = "attach" /\ q.v = v))
  /\ UNCHANGED <<rows, image, guest, late, promised>>

Attach(h) ==
  /\ At(h, "attach", "write")
  /\ LET q == handler[h] IN
       attachment' = IF Exists(q.v) THEN [attachment EXCEPT ![q.t][q.v] = q.name] ELSE attachment
  /\ End(h)
  /\ UNCHANGED <<volume, snapshot, used, image, guest, begun, late, promised, events>>

Detach(a, v) ==
  /\ attachment[a][v] # "no"
  /\ attachment' = [attachment EXCEPT ![a][v] = "no"]
  /\ UNCHANGED <<volume, snapshot, used, image, guest, handler, begun, late, promised, events>>

(*---------------------------- Ends of requests ---------------------------*)

(* Only a clone that is refused takes its row back. *)
Refused(h) ==
  /\ handler[h].at = "refused"
  /\ IF handler[h].op = "clone" THEN RemoveRow(handler[h].t)
     ELSE UNCHANGED <<volume, snapshot, attachment>>
  /\ End(h)
  /\ UNCHANGED <<used, image, guest, begun, late, promised, events>>

Accepted(h) ==
  /\ handler[h].at = "ok" /\ handler[h].op \in {"create", "clone", "restore"}
  /\ End(h)
  /\ UNCHANGED <<rows, image, guest, begun, late, promised, events>>

(* No answer in time: the request was lost, will be carried out, or was. *)
GiveUp(h) ==
  /\ handler[h].at \in {"sent", "ok", "refused"}
  /\ End(h)
  /\ late' \in IF handler[h].at = "sent" THEN {late, late \cup {handler[h]}} ELSE {late}
  /\ Happens({"unanswered"})
  /\ UNCHANGED <<rows, image, guest, begun, promised>>

(* A statement fails, or the API restarts. *)
Cut(h) ==
  /\ handler[h].at \in {"insert", "count", "uncount"}
  /\ End(h)
  /\ Happens({"cut"})
  /\ UNCHANGED <<rows, image, guest, begun, late, promised>>

Init ==
  /\ volume = [v \in Vols |-> "none"]
  /\ snapshot = [s \in Snaps |-> NoSnapshot]
  /\ attachment = [a \in Apps |-> [v \in Vols |-> "no"]]
  /\ used = 0
  /\ image = [v \in Vols |-> NoImage]
  /\ guest = [a \in Apps |-> [vols |-> {}, on |-> FALSE, mapped |-> {}]]
  /\ handler = [h \in Handlers |-> Idle]
  /\ promised = [s \in Snaps |-> "none"]
  /\ begun = 0 /\ late = {} /\ events = {}

Next ==
  \/ \E h \in Handlers :
       \/ CheckEntitlement(h) \/ IncrementVolumes(h) \/ DeleteVolume(h) \/ DecrementVolumes(h)
       \/ SnapshotCreated(h) \/ DeleteSnapshot(h) \/ Attach(h)
       \/ Execute(h) \/ NoWorker(h) \/ AgentTimeout(h)
       \/ Refused(h) \/ Accepted(h) \/ GiveUp(h) \/ Cut(h)
       \/ \E v \in Vols :
            \/ InsertVolume(h, v) \/ BeginDelete(h, v)
            \/ \E a \in Apps, mode \in Modes : ReadAttachments(h, a, v, mode)
            \/ \E n \in Names :
                 \/ BeginRestore(h, v, n)
                 \/ \E t \in Vols : BeginClone(h, v, n, t)
                 \/ \E s \in Snaps : BeginSnapshot(h, v, s, n)
       \/ \E s \in Snaps : BeginDeleteSnapshot(h, s)
  \/ \E a \in Apps : Deploy(a) \/ Boot(a) \/ Stop(a) \/ \E v \in Vols : Detach(a, v)
  \/ \E q \in late : ExecuteLate(q)

Spec == Init /\ [][Next]_vars

(*------------------------------- Properties ------------------------------*)

Quiet == (\A h \in Handlers : ~Busy(h)) /\ late = {}

(* A volume one application has for itself alone is attached to no other, unless two requests to *)
(* attach it were handled at the same time: both read the attachments before either wrote. *)
OneOwner ==
  \A v \in Vols, a, b \in Apps :
    a # b /\ attachment[a][v] = "rwo" /\ attachment[b][v] # "no" => "overlap" \in events

(* A snapshot its owner was told of is there, row and data, until they ask to delete it: deleting *)
(* the volume is refused.  But one that was begun while its volume was being deleted goes with *)
(* the volume, and deleting the row of a failed snapshot deletes the data of its namesake. *)
SnapshotsLast ==
  \A s \in Snaps : promised[s] = "told" =>
    \/ snapshot[s].st = "row" /\ snapshot[s].name \in image[snapshot[s].vol].snaps
    \/ events \cap {"same name", "raced"} # {}

(* When nothing is under way, every image has its row: a row is removed after its image, and    *)
(* that of a clone when the clone was refused.  But a request may be carried out after its       *)
(* handler gave up, or after the scheduler itself did and had the clone's row removed; a volume  *)
(* may be deleted while its image is being made; and a VM that boots with a volume that was      *)
(* deleted since it was deployed makes it anew, as does one that boots while it is being deleted. *)
NothingIsLeftOver ==
  Quiet => \A v \in Vols :
    image[v].there => Exists(v) \/ events \cap {"unanswered", "raced", "revived"} # {}

(* A VM that runs has the images of all its volumes: detaching a volume does not take it from the *)
(* VM, and deleting it then is refused by the agent. *)
InUseIsKept == \A a \in Apps : guest[a].on => \A v \in guest[a].vols : image[v].there

(* When nothing is under way, the tenant's usage tells of its volumes, failed ones included, *)
(* unless a clone was made, a handler ended between two statements, or a volume was deleted by *)
(* two requests at a time. *)
UsageIsTrue ==
  Quiet =>
    \/ used = Cardinality(Stored)
    \/ events \cap {"cloned", "cut", "twice", "raced"} # {}
=============================================================================
