------------------------------- MODULE Fleet --------------------------------
(***************************************************************************)
(* The nodes of the cluster as the scheduler knows them: heartbeats that   *)
(* register a node and bring its metrics, the choice of a worker for a VM, *)
(* and the WireGuard mesh.  The scheduler computes from the rows of the    *)
(* nodes and of the jobs what every node should know of the others, and    *)
(* sends it, every second and after every heartbeat.  A node configures    *)
(* its device, and skips an update that equals the last one that went      *)
(* well.  Routers are nodes without metrics, so that no VM is put there.   *)
(* The mesh is followed on one node: every node gets an update of its own  *)
(* and handles it in the same way.                                         *)
(*                                                                         *)
(* A VM is given one slot of its worker from its start, but the metrics of *)
(* a host tell the memory that is in use: a VM that does not use what it   *)
(* was given is not counted.  Of the addresses of a peer only those of its *)
(* VMs are kept, and of the life of a job what the mesh and the choice     *)
(* look at (JobLifecycle has the rest).                                    *)
(***************************************************************************)
EXTENDS Naturals, FiniteSets

CONSTANTS
  Workers, Routers,
  Here,       (* the node whose device is followed                          *)
  Jobs,
  Addressed,  (* jobs of a network with a prefix: their VM has an address   *)
  Broadcasts, (* broadcasts of the mesh that may be under way at once       *)
  None,
  Slots,      (* VMs a worker has room for                                  *)
  MaxChange,  (* bound on nodes that stop and start                         *)
  MaxRare     (* bound on the kinds of failures of one behaviour            *)

ASSUME FleetAssumption ==
  /\ IsFiniteSet(Workers) /\ IsFiniteSet(Routers) /\ Workers \cap Routers = {}
  /\ IsFiniteSet(Jobs) /\ Addressed \subseteq Jobs /\ Here \in Workers \cup Routers
  /\ None \notin Workers \cup Routers \cup Jobs
  /\ Slots \in Nat /\ MaxChange \in Nat /\ MaxRare \in Nat

Nodes == Workers \cup Routers

VARIABLES
  up,      (* nodes that are running                                        *)
  row,     (* a node's row: none, or the age of its last heartbeat          *)
  counted, (* VMs whose memory the metrics of the row count, None before   *)
           (* the first ones                                                *)
  late,    (* a heartbeat whose handler is held up: node and VMs            *)
  job,     (* a job's row, and the worker that was chosen                   *)
  vms,     (* VMs that run on a worker                                      *)
  sending, (* a broadcast: what it has read                                 *)
  inbox,   (* the mesh update Here has not handled yet                      *)
  dev,     (* peers of the WireGuard device, None without a device          *)
  cache,   (* last_peers: the last update that went well                    *)
  changes,
  blind,   (* workers chosen by metrics that did not count a VM placed there *)
  rare     (* what happened that not every property survives                *)

fleetVars == <<up, row, counted, late, job, vms, sending, inbox, dev, cache, changes,
               blind, rare>>
registry == <<row, counted, late>>
mesh == <<sending, inbox, dev, cache>>
placement == <<job, vms, blind>>

(* What a node is told: its peers, and the VMs whose addresses lead to each of them. *)
Peerings == [peers : SUBSET Nodes, ips : [Nodes -> SUBSET Jobs]]
Alone == [peers |-> {}, ips |-> [n \in Nodes |-> {}]]

(* "fault" stands for what every property survives: heartbeats that are lost or overtaken, a row *)
(* or a device that cannot be written.                                                          *)
Failures == {"fault", "unresolved", "routes", "no device"}
Rare(e) ==
  /\ e \notin rare /\ Cardinality(rare \cap Failures) < MaxRare
  /\ rare' = rare \cup {e}

(*-------------------------------- Heartbeats -----------------------------*)
(* register and update_metrics; the heartbeat of a router has no metrics. *)
Registered(n) == row' = [row EXCEPT ![n] = "fresh"]
UpdateMetrics(n, seen) ==
  counted' = IF n \in Workers THEN [counted EXCEPT ![n] = seen] ELSE counted

(* MetricsManager::collect: any of the host's VMs may use what it was given, or not yet. *)
VmsSeen(n) == IF n \in Workers THEN SUBSET vms[n] ELSE {{}}

(* start_heartbeat_loop and process_worker_heartbeat.  Where the jobs cannot be listed, the *)
(* metrics stay what they were.                                                             *)
Heartbeat(n) ==
  /\ n \in up
  /\ Registered(n)
  /\ \/ (\E seen \in VmsSeen(n) : UpdateMetrics(n, seen)) /\ UNCHANGED rare
     \/ Rare("fault") /\ UNCHANGED counted
  /\ UNCHANGED <<up, late, placement, mesh, changes>>

(* Every heartbeat is handled by a task of its own: this one is overtaken. *)
HeartbeatDelayed(n) ==
  /\ n \in up
  /\ Rare("fault")
  /\ \E seen \in VmsSeen(n) : late' = <<n, seen>>
  /\ UNCHANGED <<up, row, counted, placement, mesh, changes>>

HeartbeatLate ==
  /\ late # None
  /\ UpdateMetrics(late[1], late[2])
  /\ Registered(late[1])
  /\ late' = None
  /\ UNCHANGED <<up, placement, mesh, changes, rare>>

(* Thirty seconds without a heartbeat: three of them were lost, or the node is not running. *)
Age(n) ==
  /\ row[n] = "fresh"
  /\ IF n \in up THEN Rare("fault") ELSE UNCHANGED rare
  /\ row' = [row EXCEPT ![n] = "old"]
  /\ UNCHANGED <<up, counted, late, placement, mesh, changes>>

(*-------------------------- Choice of a worker ---------------------------*)
Available(w) == row[w] = "fresh" /\ counted[w] # None

(* Mutant: a worker that is just full has room for one more. *)
CanFitOneMore(w) == Cardinality(counted[w]) <= Slots

CanFitVm(w) == Cardinality(counted[w]) < Slots

Placed(w) == vms[w] \cup {j \in Jobs : job[j].st = "scheduled" /\ job[j].host = w}

(* select_best_worker, and the row that is added: which worker of those that fit is a matter of *)
(* their loads.                                                                                 *)
SelectBestWorker(j, w) ==
  /\ job[j].st = "none"
  /\ Available(w) /\ CanFitVm(w)
  /\ job' = [job EXCEPT ![j] = [st |-> "scheduled", host |-> w]]
  /\ blind' = IF Placed(w) \subseteq counted[w] THEN blind ELSE blind \cup {w}
  /\ UNCHANGED <<up, registry, vms, mesh, changes, rare>>

NoWorkerFits(j) ==
  /\ job[j].st = "none"
  /\ \A w \in Workers : ~ (Available(w) /\ CanFitVm(w))
  /\ job' = [job EXCEPT ![j].st = "ended"]
  /\ UNCHANGED <<up, registry, vms, mesh, changes, blind, rare>>

(* start_vm and start_job; an agent that does not answer has the row removed. *)
StartVm(j) ==
  LET w == job[j].host IN
  /\ job[j].st = "scheduled"
  /\ IF w \in up
     THEN /\ vms' = [vms EXCEPT ![w] = @ \cup {j}]
          /\ job' = [job EXCEPT ![j].st = "running"]
     ELSE job' = [job EXCEPT ![j].st = "ended"] /\ UNCHANGED vms
  /\ UNCHANGED <<up, registry, mesh, changes, blind, rare>>

(* The job is deleted, cancelled or has failed; its VM is gone with it. *)
EndJob(j) ==
  /\ job[j].st = "running"
  /\ job' = [job EXCEPT ![j].st = "ended"]
  /\ vms' = [w \in Workers |-> vms[w] \ {j}]
  /\ UNCHANGED <<up, registry, mesh, changes, blind, rare>>

(*--------------------------------- The mesh ------------------------------*)
ActiveNodes == {n \in Nodes : row[n] = "fresh"}
JobsOn(n) == {j \in Addressed : job[j].st \in {"scheduled", "running"} /\ job[j].host = n}
NoJobs == [n \in Nodes |-> {}]

(* calculate_mesh_updates, for the node Here. *)
Update(ips) ==
  [peers |-> ActiveNodes \ {Here},
   ips |-> [p \in Nodes |-> IF p \in ActiveNodes \ {Here} THEN ips[p] ELSE {}]]
AllJobs == [n \in Nodes |-> JobsOn(n)]

Sent(u) == inbox' = IF Here \in up /\ row[Here] # "none" THEN u ELSE None

(* broadcast_mesh_updates, every second.  Every node that has a row is told, also one that is  *)
(* said to be old.  Where the jobs cannot be read, nobody has any.  Messages arrive in the order *)
(* in which they are sent; here the next one is sent when the last one has been handled.       *)
EverySecond ==
  /\ inbox = None
  /\ \/ Sent(Update(AllJobs)) /\ UNCHANGED rare
     \/ Sent(Update(NoJobs)) /\ Rare("fault")
  /\ UNCHANGED <<up, registry, placement, sending, dev, cache, changes>>

(* The same in the task of a heartbeat, which others overtake. *)
CalculateMeshUpdates(t) ==
  /\ sending[t] = None
  /\ sending' = [sending EXCEPT ![t] = Update(AllJobs)]
  /\ UNCHANGED <<up, registry, placement, inbox, dev, cache, changes, rare>>

BroadcastMeshUpdates(t) ==
  /\ sending[t] # None /\ inbox = None
  /\ Sent(sending[t])
  /\ sending' = [sending EXCEPT ![t] = None]
  /\ UNCHANGED <<up, registry, placement, dev, cache, changes, rare>>

Handled == Here \in up /\ inbox # None /\ inbox' = None

SkipUpdate ==
  /\ Handled /\ cache = inbox
  /\ UNCHANGED <<up, registry, placement, sending, dev, cache, changes, rare>>

Without(u, p) == [peers |-> u.peers \ {p}, ips |-> [u.ips EXCEPT ![p] = {}]]

(* A peer whose address cannot be resolved is left out, and the update has gone well. *)
UpdatePeers ==
  /\ Handled /\ cache # inbox /\ dev # None
  /\ cache' = inbox
  /\ \/ dev' = inbox /\ UNCHANGED rare
     \/ /\ Rare("unresolved")
        /\ \E p \in inbox.peers : dev' = Without(inbox, p)
  /\ UNCHANGED <<up, registry, placement, sending, changes>>

(* Mutant: the update is remembered before the device has taken it. *)
UpdatePeersEarly ==
  /\ Handled /\ cache # inbox
  /\ \/ dev = None /\ UNCHANGED <<dev, rare>>
     \/ dev # None /\ Rare("fault") /\ UNCHANGED dev
     \/ dev # None /\ Rare("routes") /\ dev' = inbox
  /\ cache' = inbox
  /\ UNCHANGED <<up, registry, placement, sending, changes>>

(* The device does not take the update; or it does, and the routes then fail.  In neither case *)
(* is the update remembered.                                                                   *)
UpdatePeersFails ==
  /\ Handled /\ cache # inbox
  /\ \/ dev = None /\ UNCHANGED <<dev, rare>>
     \/ dev # None /\ Rare("fault") /\ UNCHANGED dev
     \/ dev # None /\ Rare("routes") /\ dev' = inbox
  /\ UNCHANGED <<up, registry, placement, sending, cache, changes>>

(*--------------------------- Nodes stop and start ------------------------*)
Crash(n) ==
  /\ n \in up /\ changes < MaxChange
  /\ changes' = changes + 1
  /\ up' = up \ {n}
  /\ vms' = [w \in Workers |-> IF w = n THEN {} ELSE vms[w]]
  /\ IF n = Here THEN inbox' = None /\ dev' = None /\ cache' = None
                 ELSE UNCHANGED <<inbox, dev, cache>>
  /\ UNCHANGED <<registry, job, sending, blind, rare>>

(* WireGuardManager::init: the device is made anew, or an error is logged and there is none. *)
Boot(n) ==
  /\ n \notin up
  /\ up' = up \cup {n}
  /\ \/ dev' = (IF n = Here THEN Alone ELSE dev) /\ UNCHANGED rare
     \/ n = Here /\ Rare("no device") /\ UNCHANGED dev
  /\ UNCHANGED <<registry, placement, sending, inbox, cache, changes>>

(*------------------------------ Specification ----------------------------*)
FleetInit ==
  /\ up = Nodes
  /\ row = [n \in Nodes |-> "none"]
  /\ counted = [w \in Workers |-> None]
  /\ late = None
  /\ job = [j \in Jobs |-> [st |-> "none", host |-> None]]
  /\ vms = [w \in Workers |-> {}]
  /\ sending = [t \in Broadcasts |-> None]
  /\ inbox = None /\ dev = Alone /\ cache = None
  /\ changes = 0 /\ blind = {} /\ rare = {}

Listen == SkipUpdate \/ UpdatePeers \/ UpdatePeersFails

FleetNext ==
  \/ \E n \in Nodes : \/ Heartbeat(n) \/ HeartbeatDelayed(n) \/ Age(n)
                      \/ Crash(n) \/ Boot(n)
  \/ HeartbeatLate \/ EverySecond \/ Listen
  \/ \E j \in Jobs : \/ \E w \in Workers : SelectBestWorker(j, w)
                     \/ NoWorkerFits(j) \/ StartVm(j) \/ EndJob(j)
  \/ \E t \in Broadcasts : CalculateMeshUpdates(t) \/ BroadcastMeshUpdates(t)

FleetSpec == FleetInit /\ [][FleetNext]_fleetVars

(* Heartbeats and broadcasts are periodic, their handlers and the listeners go on, and the row *)
(* of a node that is silent grows old.                                                         *)
FleetFairness ==
  /\ \A n \in Nodes : /\ WF_fleetVars(Heartbeat(n))
                      /\ WF_fleetVars(Age(n) /\ n \notin up)
  /\ WF_fleetVars(HeartbeatLate) /\ WF_fleetVars(Listen)
  /\ \A j \in Jobs : WF_fleetVars(StartVm(j))
  /\ SF_fleetVars(EverySecond) /\ \A t \in Broadcasts : WF_fleetVars(BroadcastMeshUpdates(t))

FleetFairSpec == FleetSpec /\ FleetFairness

(*------------------------------- Properties ------------------------------*)
(* Every variable keeps its type, and no node is its own peer. *)
FleetTypeOK ==
  /\ up \subseteq Nodes /\ row \in [Nodes -> {"none", "fresh", "old"}]
  /\ counted \in [Workers -> (SUBSET Jobs) \cup {None}]
  /\ late \in (Nodes \X SUBSET Jobs) \cup {None}
  /\ job \in [Jobs -> [st : {"none", "scheduled", "running", "ended"},
                       host : Workers \cup {None}]]
  /\ vms \in [Workers -> SUBSET Jobs]
  /\ sending \in [Broadcasts -> Peerings \cup {None}]
  /\ inbox \in Peerings \cup {None} /\ dev \in Peerings \cup {None}
  /\ cache \in Peerings \cup {None}
  /\ dev # None => Here \notin dev.peers
  /\ changes \in 0 .. MaxChange /\ blind \subseteq Workers /\ rare \subseteq Failures

(* A worker is given more VMs than it has room for only if it was itself chosen for one of     *)
(* them by metrics that did not count a VM placed there before: the VM had not started, or had  *)
(* not yet used what it was given, at the heartbeat.  Nothing is reserved.  Metrics that count  *)
(* a VM that is gone do no harm, nor do those of another worker; nothing else overcommits.      *)
OvercommitHasCause ==
  \A w \in Workers : Cardinality(vms[w]) > Slots => w \in blind

(* The update the agent remembers, and will skip when it comes again, is what its device has,   *)
(* at every moment and in whatever order updates, failures and restarts come: unless a peer was *)
(* left out, or the device had taken another update before the routes failed (update_peers).    *)
RememberedIsOnDevice ==
  cache # None => dev = cache \/ rare \cap {"unresolved", "routes"} # {}

Settled == Here \in up => dev = Update(AllJobs)

(* Once nodes and jobs are at rest the device has the peers and addresses it should have,      *)
(* whatever the order of the broadcasts: unless a peer was left out of an update that was then  *)
(* remembered, the routes failed after the device had changed (a return to the update remembered *)
(* is then skipped), or a node runs without a device.                                           *)
MeshConverges ==
  <>[](Settled \/ rare \cap {"unresolved", "routes", "no device"} # {})
=============================================================================
