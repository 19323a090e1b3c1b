# Mikrom in TLA+

Mikrom runs applications in Firecracker or Cloud Hypervisor microVMs. An API
server keeps users, applications, deployments, databases and volumes; a builder
makes images; a scheduler places jobs on workers and scales them; an agent on
every worker runs the microVMs; routers bring HTTP traffic to them; a WireGuard
mesh connects the nodes. They talk over NATS, by requests with a timeout and by
publications that may be lost, and each keeps its own state.

This directory holds TLA+ models of the parts where the difficulty lies, TLC
configurations that check them on small instances, and proofs for TLAPS.

| module | about | run | proofs |
|---|---|---|---|
| `JobLifecycle` | the scheduler's jobs table against the agents' microVMs | `job` | `JobLifecycle_proofs` |
| `JobTable` | what a client of the scheduler may rely on; `JobLifecycle` implements it | `job` | `JobLifecycle_proofs` |
| `AppScaling` | the replicas of one application: scaling, scale to zero, wake-up | `scaling_auto`, `scaling_manual`, `scaling_wakes` | `Scheduling_proofs` |
| `Fleet` | nodes, heartbeats, placement and the WireGuard mesh | `fleet` | `Scheduling_proofs` |
| `VmManager` | one Firecracker microVM in an agent | `hypervisors` | `VmManager_proofs` |
| `StateFile` | the agent's state file and the tasks that write it | `state_file` | `Agent_proofs` |
| `CloudHypervisor` | one Cloud Hypervisor VM in an agent | `hypervisors` | `Agent_proofs` |
| `Deployment` | the deployments of one application in the API | `deployment` | `Deployment_proofs` |
| `Builds` | image builds: the API's task and the builder | `builds` | `Builds_proofs` |
| `Router` | the routers' control plane and the certificates of one host | `router` | `Router_proofs` |
| `Databases` | the databases of one tenant | `storage` | `Tenant_proofs` |
| `Volumes` | the volumes of one tenant, their images and the VMs that map them | `storage` | `Tenant_proofs` |
| `Billing` | the plan of one tenant and the webhooks that change it | `billing` | `Tenant_proofs` |

`MCTenantStorage` instantiates both `Databases` and `Volumes`, `MCHypervisors` both
`VmManager` and `CloudHypervisor`; every other module that has a run, `X`, has its instance
in `MCX`.

To check: `tlc -config JobLifecycle.cfg MCJobLifecycle.tla`, and so on (the
module and the configuration of every run are in PROJECT.json); to prove:
`tlapm JobLifecycle_proofs.tla`, and so on.

## Inventory

| component | state | operations | hard part | what makes it correct |
|---|---|---|---|---|
| scheduler, job lifecycle (`mikrom-scheduler/src/application/{deployment,lifecycle,heartbeats}.rs`) | jobs table | deploy, pause, resume, delete, delete all, cancel, sweeps, failure events, heartbeats | every handler is a task that alternates between SQL and agent calls; calls time out and are executed later | no microVM without a row, removed rows stay removed, failures are noticed, handlers end |
| scheduler, scaling (`scaling.rs`, `router_restore.rs`) | apps table, jobs table | scale_app, reconciler, traffic, backoff, configuration | five tasks read the row and write it back as a whole | asleep until asked for, awake when asked for, as many replicas as desired |
| scheduler, placement (`deployment.rs`, `domain/worker.rs`) | workers table | score and select a worker | metrics as old as a heartbeat, nothing reserved | overcommitted only by metrics that do not count all VMs |
| scheduler, mesh (`event_loop.rs`), network (`mikrom-network/`) | workers table, peers of a device, the last update | peers of each node, update of the device | overtaken broadcasts, half applied updates that are remembered | the device ends with the peers the rows ask for |
| agent, Firecracker manager (`mikrom-agent/src/firecracker/`) | vms map, processes map, state file | start, background startup, pause, resume, stop, delete, garbage collection, recovery | two locks, a state file with concurrent writers, processes that die | status and process agree, the file survives a crash |
| agent, Cloud Hypervisor manager (`mikrom-agent/src/cloud_hypervisor/`) | vms map, process map, a state file and a directory per VM | start, background boot, stop, delete, garbage collection, adoption | maps without a common lock, pids of another program | a VM is held or gone, and the scheduler learns of it |
| agent, server (`server.rs`) | NATS session, queue of failure events | commands, heartbeats, session loss | reconnection while commands run | no failure is forgotten |
| agent, storage (`ceph.rs`, `firecracker/volumes.rs`) | RBD images | create, delete, snapshot, clone, map | watchers, images made anew | nothing in use is removed, nothing is left over |
| api, deployments (`mikrom-api/src/application/deployment/`) | deployments, active deployment, flow guard | build, release, promote, drain, activate, pause, delete | long workflow over builder and scheduler, restarts | one flow, one version that runs, always served |
| api, synchronisation (`sync.rs`, `lib.rs`) | deployment status, routes | job updates, route updates | late and reordered updates, rows read earlier | statuses do not go backwards, routes name running replicas |
| api, databases (`application/database/`) | databases, deployments of databases, count | create, provision with retries, delete, re-attach | retries of what was done, deletion meanwhile | rows tell of VMs, the count tells of rows |
| api, volumes (`application/volumes.rs`) | volumes, snapshots, attachments, usage | create, delete, attach, snapshot, restore, clone | no transaction spans row, image and usage | one owner, snapshots last, nothing left over |
| api, billing (`application/billing.rs`, `entitlements.rs`) | billing row, deliveries | webhooks, tier assignment | redelivery, concurrency, order | as if handled one by one, the right tier in the end |
| api, certificates (`infrastructure/acme.rs`) | recorded expiry | challenge, order, publication | lost publications, failure between two steps | recorded is stored, no challenge left |
| api, others | users, tenants, tokens, rate limits | one request each | limits | |
| router, control plane (`mikrom-router/src/application/control_plane/`) | routes, challenges, certificates, versions, cache file; a database shared by all routers | updates, resync, restart | slow routers, failed writes, versions forgotten | routers agree in the end, what is served was stored |
| router, proxy (`application/proxy/`) | health of backends | proxying, circuit breaker, traffic events | one request | |
| builder (`mikrom-builder/`) | records and counters, state file, permits | build, status, cancel, expiry, restart | answer before the record, concurrent saves | every build ends, file and counters agree |
| dns (`mikrom-dns/`) | names | updates from jobs and heartbeats, resolution | one name for all replicas, lost updates | |
| cli, app, proto, init, eBPF, ansible, terraform | none of the control plane's | | | |

The scheduler calls agents by request; agents send heartbeats and failure events
to the scheduler; the scheduler publishes job updates to the API and the mesh to
the nodes; the API calls the scheduler and the builder by request and publishes
routes and certificates to the routers; the routers publish traffic events to
the scheduler.

The modules meet in these calls. `JobLifecycle` sees the agent as its callers
do, one step per command; `VmManager` opens that step for one VM, and there
writing the state file is one step; `StateFile` opens that one.
`CloudHypervisor` does the same for the other hypervisor, with the part of the
scheduler that believes it. `AppScaling` takes the calls of `JobLifecycle` as
steps that work or fail; `Deployment` and `Databases` see of the scheduler
whether a VM runs and that an answer may not come; `Builds` ends where
`Deployment` takes the image; `Router` receives the routes `Deployment` sends.

Most properties have an exception: an event after which the code does not keep
them. Such events are recorded in a history variable (`leaky`, `overlapped`,
`upset`, `rare`, `events`) at the step that causes them, so that a property says
exactly what it takes to break it. No action reads a history variable but to
bound the number of events; in `Builds`, `Skip` reads that the API has restarted, which
is when the step can happen.

## JobLifecycle and JobTable

**State.** `row` is the status column of the jobs table. Each task of `Tasks`
runs one handler: `pc` is the await at which it stands, `job` its job, `listed`
and `todo` the rows of delete_all_by_app. `calls` are commands on their way to
an agent, `answered` the tasks whose answer is there. `vm`, `booting`, `proc`,
`stray` and `failures` are the agent: its vms map, startup tasks, processes map,
living processes it has no handle of, failure events. `beat` is the worker
heartbeat. `leaky` is a history variable.

**Actions.** A handler is one action per await: `AddJob`, `StartAccepted`,
`StartFailed`, `UndoRow`, `StartRow` and so on for deploy_app; every action
contains all that happens before the next await. A call is a message in `calls`;
the agent executes it (`Exec...`), loses it or fails (`ExecNothing`), and the
caller gives up at any moment (`GiveUp`: error, no responder, timeout, lost
answer), also when the command is executed later. `Crash` is the end of the
scheduler process. `BootDone`, `BootFailed` and `ProcessExit` are what happens in
the agent by itself.

**Abstractions.** All jobs belong to one application; job and VM have one name,
since they are drawn together. A failed SQL statement is one that was not
executed. Job updates are published best effort and nothing in the scheduler
depends on them, so `Tell` only ends the handler. One heartbeat is under way at
a time, and one that reports no failed VM is no step. Tenant checks and the
traffic check of pause_app return early and change nothing. The branch of
resume_app for a worker that is gone is left out: no code unregisters a worker.
The agent's locks, its state file and its restart are not in this module.

**Bounds.** Every task runs one handler, so the tasks bound the concurrency and
the length of a behaviour, and a finished behaviour stops (`CHECK_DEADLOCK
FALSE`). `MaxFaults` bounds failed statements and crashes together. One job and
two tasks give every pair of handlers; the agent's boots, exits, late commands
and heartbeats come at any point between their steps.

**Run `job`.** `OrphanHasCause` says that a VM or process without a row has
met a named leak window: a start or delete call given up on, a delete that
overtakes its start or a boot, a row removed by delete_all_by_app that it had
not listed. So these are all the windows there are. `KeepsPromise` is
the refinement: with a job's VM seen as `Machine` (to come, present, written off,
gone), every behaviour of the handlers and agents is one of `JobTable`. In particular
late writes of other handlers do not bring a removed row back (`RemovedIsFinal`).
`HandlersEnd`, `FailedVmIsNoticed` (with events lost, and with start_job
overwriting failed) and `ScheduledIsLeft` (no job stays scheduled unless a
statement failed or the scheduler died) are the liveness of it.

**Fairness.** Tokio polls every ready task and every request has a timeout, so a
handler goes on: weak fairness of `Continue`. A startup task ends. The agent's
loop sends heartbeats, and not every one of them is lost: strong fairness of
`BeatHandled`.

**Proofs.** `JobLifecycle_proofs` proves `TypeOK`, `RemovedIsFinal`,
`OrphanHasCause` and `KeepsPromise` for any sets of jobs and tasks and any bound
on faults, from the two assumptions of the module. `OrphanHasCause` is not
inductive: a handler that is about to remove a row must already have seen to the
VM. The invariant `IInv` therefore adds what is known of a task's job (`Known`: a
task that has begun has a job that was drawn; a job not drawn has no row, no VM
and no call) and, for each point from which a row is removed, that the VM is gone
or the job is leaky (`Removal`). `HandsOffSafe`, `GivenUpSafe` and `AgentKeeps`
carry that over the steps of handlers, of callers that give up and of the agent.
The refinement rests on the same invariant: an action that removes rows maps to
`Remove`, and there `IInv` says that the VMs are gone or lost.

## AppScaling

**State.** `app` is the application's row of the scheduler's apps table (desired
replicas, last traffic, last scale to zero, retry after), `wanted` the count in
the API's own database, `status` the jobs table, `news` a published job update
the API has not reacted to. `task` holds, for each of the five tasks, its point,
its copy of the row and what scale_app is working on. `now` is a coarse clock:
a task that has begun is done before the second tick, the API's reaction before
the first. `asked`, `faults` are bounds. `woken` is a history variable: who has asked for
the application since it was last found idle by a reconciler that was alone at work
(`AtRest`): nobody, nobody but the API has rewritten its row, or a visitor or its owner.

**Actions.** `ReadApps` to `ScaleManually` are the reconciler, `Visit` to
`MarkVisited` the handler of router traffic, `VmFails` to `SetBackoff` the
handler of VM failures, `RequestScale` and `WriteConfig` the API's handler,
`Synchronise`, `NotifyRouter` and `WriteConfig` the API's reaction to a job
update: it reads its deployments, tells the router, and writes the row. scale_app
is a subroutine for three of them, from `CountReplicas` to `Shrunk`. Writes of the
row take every column from the task's copy, as update_app_config does.

**Abstractions.** An agent call works or fails as a whole, within `MaxFaults`;
SQL statements do not fail here. The router's restore guard lets one handler in,
so there is one router task and visits meanwhile are dropped. One request of the
owner and one synchronisation at a time; a synchronisation that follows from
another one is left out. A job is a place that is used again once no task
remembers the job it stood for (`Fresh`). The third SELECT of scale_app is read
together with the second. One scheduler runs. Deleting the application is left
out. The API forces min_replicas to 0 today; 1 is the column's older default and
is used in the manual run.

**Runs.** `scaling_auto`: one replica, the load none or low, `MaxTime` 4 with an idle
timeout of 2, so that the application falls asleep and is woken. It checks
`WakesOnlyOnDemand` (asleep until somebody asks or the API rewrites the row, whatever stale
copies are written back) and `WakesUp` (a visitor who finds no active replica gets one,
whatever the scale-down was doing, unless something fails or low load takes replicas away).
`scaling_manual`: three places, two replicas wanted at most, a request of the owner, a visit
and a failure; `ReplicasReturn`: whatever overlapping calls have deployed or deleted too
much, the count is in the end what the row says, or there is no row of the jobs table left.
`scaling_wakes` is expected to fail. It checks `StaysAtZero`, which is what the CLI says
("All apps scale to zero automatically after inactivity.") and what a test of the reconciler
says ("Should stay at 0 replicas because min_replicas is 0 and no traffic"): an application
found idle stays at zero until somebody asks for it. It has one replica, no autoscaling, no
failures and nobody who asks, and the reconciler deploys the replica again by manual
scaling.

**Fairness.** The reconciler runs every two seconds for ever; handlers end; the
API polls; time passes. Each is weak fairness of a task's steps.

**Proofs.** `Scheduling_proofs` proves `TypeOK` and `WakesOnlyOnDemand` for any finite set
of places, any number of replicas and requests, any timeouts and any load. The action
property needs to know that nobody is about to activate a replica. So the invariant
`ScalingIInv` says, as long as `woken` is "no", that the row, the copy the
reconciler will write back and every row in flight are marked idle (visited once, and
zeroed no earlier than the idle timeout after it), that router and API have nothing under
way, and that the reconciler stands where it reads, decides, or pauses towards zero. A row
marked idle makes every branch of the reconciler that scales up false, because
`traffic > zeroed` fails; a reconciliation that began earlier would still hold an unmarked
copy, which is why the history begins at a reconciler that is alone. `StaysAtZero` shows
that the condition that the application is autoscaled is needed.

## Fleet

**State.** `up` are the nodes that run, `row` a node's row in the workers table
with the age of its heartbeat, `counted` the VMs in its metrics, `late` a heartbeat
whose handler is held up. `job` and `vms` are the jobs with their worker and what
runs there, `blind` the workers that were once chosen by metrics which did not count a VM
placed there. `sending` is a broadcast that has read the nodes and not sent, `inbox`
the update one node (`Here`) has not handled, `dev` its device, `cache` the list
it remembers.

**Actions.** `Heartbeat`, `HeartbeatDelayed`, `HeartbeatLate`, `Age` are the
registry; `SelectBestWorker`, `NoWorkerFits`, `StartVm`, `EndJob` the placement
with as much of a job's life as it needs; `EverySecond`, `CalculateMeshUpdates`,
`BroadcastMeshUpdates` the two senders of the mesh; `SkipUpdate`, `UpdatePeers`,
`UpdatePeersFails` the node. `Crash` and `Boot` are a node's machine.

**Abstractions.** A VM is given one slot; of the score only its condition matters, so any
worker with room may be chosen. The code compares with the memory of the host that is in
use, which a VM takes as it needs it: a heartbeat counts any part of the VMs that run
(`VmsSeen`). Every node handles its own update in the same way, so one device is followed.
Routers are nodes without metrics.

**Run `fleet`.** Two workers with one slot each, two jobs, one of them with an
address, one node that stops and starts, one kind of failure. There is no router in
this instance: a node without VMs adds nothing to either property.
`OvercommitHasCause`: a worker has more VMs than room only if it was once chosen by metrics
that did not count a VM placed there: one placed since the heartbeat, one that had not
started, or one that did not use what it was given. `MeshConverges`: the device ends with the
peers and addresses the rows ask for, through any order of broadcasts, unless a
name was not resolved, routes failed after the device had changed, or the node
runs without a device.

**Fairness.** Nodes that run send heartbeats and handle what they receive, the
scheduler's ticks go on (strong, as a tick may be overtaken), handlers end.

**Proofs.** `Scheduling_proofs` proves `FleetTypeOK`, `OvercommitHasCause` and
`RememberedIsOnDevice` for any nodes, VMs, broadcasts and slots. The last is what
`MeshConverges` rests on: the list a node remembers, for which it skips equal ones, is on its
device at every moment, unless a name was not resolved or only the routes failed. A worker's
VMs alone
are not bounded inductively, because a job that has been placed will still start: the
invariant `PlacedInv` bounds the jobs placed on a worker, started or not, by its slots as long
as nothing was placed blindly, and a placement that is not blind has counted all of these.
`RememberInv` adds that a node that is down remembers nothing, and `OwnPeerInv` that no update,
wherever it is on its way, names the node it is for.

## VmManager

**State.** `vm` is the VM's status in the manager's table (`vms`), `proc` its
entry in the table of processes, each under a lock of its own in the code; `alive`
are the VM's processes that live, `doomed` those a dropped startup guard is about
to kill, `disk` the VM's record in the state file. Each of `slot` is a task that
runs a command and, after start_vm was answered, the boot it has left behind: its
next step, the process in its hands, and whether delete_vm has called stop_vm.
`gc` and `restart` are the garbage collector and the restart it has spawned.
`overlapped` and `abandoned` are history.

**Actions.** An operation is one action per critical section: `Start`,
`Prepare`, `Spawn`, `Configure`, `MarkRunning`, `Track`, `SetFailed` for start_vm
and its boot; `MarkStopping` to `RemoveEntry` for stop_vm and delete_vm; `Pause`,
`MarkPaused`; `Resume` to `LookUp`; `CollectExited`, `Decide`, `SaveCollected`
for run_gc. `Save` is the call of persist_runtime_state_to_disk that ends most of
them. `ProcessDies`, `Crash` and `Load` are the environment and the restart.

**Abstractions.** One VM; others only meet it in the locks and in the state file.
Artefacts on disk (sockets, chroots, snapshots, volumes) and the network are left
out, and so is whether the guest inside a process is paused. The lock of the
processes is held while a process is killed or paused, so these are single steps.
A save is two steps, the copy under the locks and the write without them; what the
file holds after saves that overlapped is left open here (an older copy, a torn file),
`StateFile` shows how it comes about. A process that
listens on the socket may or may not follow delete_vm's request to stop.

**Run `hypervisors`, for Firecracker.** Two tasks, two commands of any kind (the first is the
start), one failure or death of a process or failed save and one crash of the agent; five
processes are as many as can be spawned. Two tasks and the garbage collector give every
pair of operations; longer sequences of commands, as pause and resume, are covered by the
proofs of `NoStrayProcess` and `SavedWhenQuiet`, not for `Settles`. `NoStrayProcess`: as long
as commands do not overlap, no process is lost whatever fails. `SavedWhenQuiet`: the state
file ends up with the final status whatever operations overlap, unless the last save itself
overlapped another one or failed. `Settles`: no VM stays starting or stopping unless the
agent dies, except a VM whose kernel `start_vm` has refused: that one stays `Starting` in
table and state file with nobody at work on it, and every later start is refused
(manager.rs:445, 395), until it is stopped. The two managers share nothing, so that in
`MCHypervisors` the VM belongs to one of them from the start. `CHECK_DEADLOCK FALSE`: a VM
of Cloud Hypervisor is booted once, and then there may be nothing left to do.

**Fairness.** Tasks go on: every request to a process has a timeout. Spawned
tasks run, the garbage collector runs every five seconds, systemd starts the agent
again. Nothing is assumed of commands, deaths and crashes.

**Proofs.** `VmManager_proofs` proves `TypeOK`, `SavedWhenQuiet` and `NoStrayProcess` for
any tasks, processes, commands, failures and crashes. `SavedWhenQuiet` is about rest, so its
invariant says why rest is reached with the right file: as long as the file does not have
the status, the only copy on its way has it (`Kept`), or the garbage collector or a task
stands at a point from which every way leads to a save (`Saving`). `NoStrayProcess` is about
the case in which nothing overlaps; there the invariant `HeldInv` says that one task works
at most (`Alone`), where the VM's live process may be while it stands at each of its points
(`Within`: nowhere, in the table, or in the hands of the boot), and which status the table
has meanwhile (`Boots`). Both need `Down`: an agent that is down has forgotten its tables
and tasks.

## StateFile

**State.** `memory` is the table, as the number of its last change; `content`
what inodes hold; `tmp` and `state` the inodes the two names stand for; `task` the
next step, the copy and the open file of each task. `saved` and `overlapped` are
history.

**Actions.** `Copy`, `Open`, `Write`, `Rename` are persist_runtime_state_to_disk,
`Fail` its error return at any of them, `Change` a command that changes the table,
`GcPersists` a round of the garbage collector, `AgentCrashes` and `LoadState` the
agent's restart.
`Write` stands for all the writes of one call: the result is its own copy, or a
mixture when another task has written to the inode in between.

**Run `state_file`.** `WholeUnlessOverlapped`, at every moment and through failures
and a crash; `FileCatchesUp`: the rounds of the garbage collector repair whatever
overlapping calls have left. Two commands, the garbage collector, two changes,
a failure and a crash; four inodes are one per task and the state file's. Fairness
is that of `VmManager`.

**Proofs.** `Agent_proofs` proves `FileTypeOK` and `WholeUnlessOverlapped` for
any set of callers and any bounds. The state file is safe when it is
written, because it was whole when it was renamed; so the invariant says, while
no two calls have overlapped, that at most one task is in a call (`Alone`), that
the temporary file belongs to that call and is whole once it has been written
(`TmpIsMine`), that the two names stand for different inodes (`Apart`), and that
the state file holds the last copy that was renamed (`StateIsSaved`).

## CloudHypervisor

**State.** `job` is the scheduler's row, `known` the manager's table of VMs,
`handle` its table of processes (a child, or one found at the start), `live` the
process, `tap`, `dir` and `file` what lies on the host; `boot`, `handling` and `collector` are
the boot, the tasks of stop and delete commands and the garbage collector.
`alien` says that the recorded pid is another program's.

**Actions.** `BootNetwork` to `BootPersist` are start_vm_background, with
`BootFailed` its error return at each; `StopOrDelete` to `Answer` are stop_vm
and delete_vm; `CollectDead` to `EraseEnded` run_gc; `Heartbeat` what the scheduler learns;
`Outage` (of the agent, or of the host) and `Adopt` the restart, which adopts every
process whose recorded pid is alive.

**Abstractions.** The scheduler draws a new id for every VM, so it boots once. The
directory and the state file are erased in one step. Balloons, migration and pause
are left out; a pause ends in a stop because the manager cannot pause.

**Run `hypervisors`, for Cloud Hypervisor.** Two tasks, three commands, two failures, two
crashes. `EachVmIsHeld`: process, table of processes and table of VMs agree at rest, unless
a command has met a boot or a crash came at a bad moment. `GoneIsGone`: a deleted VM leaves
no process, entry, directory or device, however many stops and deletes overlap; a deletion
during which a command met the boot, or a crash came at a bad moment, is exempt altogether.
`BootIsKnown`: what the scheduler believes to run does run in the end, or it learns that the
boot failed, unless the process has ended with nobody to tell.

**Fairness.** As in `VmManager`.

**Proofs.** `Agent_proofs` proves `ChTypeOK`, `EachVmIsHeld` and
`GoneIsGone` for any tasks and bounds. The invariant says, for every next step of
boot, commands and garbage collector, what it has already done to process, tables
and files, as long as nothing upset it.

## Deployment

**State.** `row`, `job`, `build`, `active` are the API's database: a deployment's status,
whether it has a job and a build id, and the application's active deployment. `vm` is what
the scheduler has of the deployment's job, `surplus` the jobs it is about to delete as too
many, `routed` the targets the router has. `holder` is the task with the application's flow
guard; `task` are the request handlers and background flows (`Tasks`) and the tasks of the
listener of job updates (`Listeners`), each with its point, the active deployment it has
read, the version it will drain and the list of targets it will send. `temp` are updates
trigger_build has published, `resumed` builds a restarted API has still to pick up, `rare`
is history.

**Actions.** `Ask` to `DeployBuilt` are a request up to its placement; `Schedule` to
`ScaleAfter` the zero-downtime flow with its error returns (`Unhealthy`, `UndoVm`,
`CallFails`); `Reconcile` and `DeleteSurplus` the scheduler's manual scaling, which runs
beside it; `Activate`, `Manual` and `DeleteRecord` what a user may ask besides;
`Hear` to `ApplyUpdate` the listener and the periodic synchronisation; `VmFails`,
`Restart` and `ResumeBuild` the environment.

**Abstractions.** One application that desires one replica and is scaled by hand, with one
job per deployment: a job that replaces another one counts as its deployment's. Autoscaling
and the idle timeout are `AppScaling`'s. The build is one
step here (`Builds` has the rest). The route is a set of deployments; `SendOvertaken`
is a list that reaches the router after a newer one, or is dropped for its second.

**Run `deployment`.** Three deployments, the first one active, two tasks, one listener, one
counted rare event and one job deleted by scale_app. `OneFlow`: whoever builds, places,
promotes or drains holds the guard, through restarts and resumed builds. `OneVersionRuns`:
when nobody holds the guard the active version is the only one that runs and no row is
DRAINING, unless there was a restart, a failed call, a request of a user, a flow that
drained what it had read before it had the guard, or a reconciliation that deleted, of the
two versions that run during a deployment, the one that is active, routed or about to be
promoted (`scaled`). A new version it deletes earlier than that only makes the deployment
fail. `ServedByDeployments`: deployments alone never leave the router without a target that
runs, with the same exception. All three are safety properties; a flow may wait for ever for
a build.

**Proofs.** `Deployment_proofs` proves `TypeOK`, `OneFlow`, `OneVersionRuns` and
`ServedByDeployments` for any deployments, tasks, listeners and rare events. `OneFlow`
becomes inductive with what is known of each task's point (`Points`): a listener never
stands at a point of a flow and never drains, a task that asks for the guard goes on with
a flow, a status to be written is that of a row. `OneVersionRuns` is false in the middle
of a flow, so `FlowInv` says of every point of the flow of the guard's holder which
versions may run and which row may be DRAINING there (`Flow`), that without a holder only
the active one runs (`Steady`), and that those who wait for the guard have changed nothing
yet (`Waiting`). `ServedByDeployments` rests on
both: the router has the active version, but from the promotion until the new targets are
sent, when it has the one that was active before (`RouteInv`), and that one still runs
(`Flow`): if the reconciliation deletes it meanwhile, the router has it and `scaled` is noted.
At the end of a flow only the active version runs, so that scale_app finds nothing to do.

## Builds

**State.** `row`, `named`, `api`, `told` are the API: a deployment's status, the rows
with a build id, the task that follows the build, the status messages it was sent.
`up`, `queue`, `task`, `mem`, `file`, `lock`, `cleaner`, `result` are the builder: its
process, requests, tasks of builds, records and counters in memory and in the file,
the lock of the file, and what became of each build. `rare` is history.

**Actions.** `TriggerBuild` to `ResumePending` are the API's worker with its subscription
and its polling, which an error ends (`GivesUp`); `StartBuild` to `TellMetadata` a build,
which is answered (`StartBuild`) before it is recorded (`Insert`) and saves all records
twice (`Snapshot`, `WriteSnapshot`); `Cancel`, `RemoveExpired`, `Stop`, `Exit` and `Load`
are the rest of the builder, `ApiCrash` and `Unanswered` what goes wrong at the other end.

**Run `builds`.** Two builds, two permits, two kinds of counted failures beside the
uncounted ones (a request unanswered, a question that comes too early). `FailedHasCause`: a
row fails for a named reason only. `SavedAtRest`: the file holds what memory holds when
nobody has anything to save. `CountsAgree`: started is the sum of the other counters and
what still builds, restarts included, unless a build was cut or its result not written
before a restart. `RowEnds`: rows leave BUILDING, except that of a task that has ended with
an error before the row was written, and those a restart cannot take up.

**Fairness.** Tasks of API and builder go on, a build ends, the API picks up what it
has resumed, a builder that was told to stop exits and is started again.

**Proofs.** `Builds_proofs` proves `TypeOK` and the run's three invariants, for any number
of builds, permits, failures and restarts. They share `Points`: a record says building as
long as its build is at work, whoever writes has the lock, a request in the queue is the
only one of its build. `CauseInv` says of records, messages and results that as long as
nothing has gone wrong "failed" is said of a failed build only. `SavedInv`: whoever writes
has what is in memory, or somebody will take a newer snapshot. `CountInv`: memory, file and
every snapshot are balanced, and a builder that is down has left no unfinished build in the
file; this is where the exception of `CountsAgree` about a result that was not written came
from, which the proof needed and the run, with one kind of failure, had not met. `BoundInv`
counts what has begun and ended, so that no counter exceeds the builds there are.

## Router

**State.** `clock` and `made` number seconds and updates of the route, `outbox` are
updates stamped and not yet published; `db` is the database the routers share, with
`stored` the values its route has had; `router` is each router's process, memory,
versions and cache file, `inbox` its messages; `order` holds each ACME order of the host,
with the publications of its challenge (`adds`) and what it has left `undone`; `recorded` is
the certificate the API has recorded.

**Actions.** `NotifyRouter` and `Publish` are the API; `Ignore`, `UpdateRouteTargets`,
`AddCertificate`, `ChangeToken`, `StoreRoute` and its siblings, `RouteNotStored` and its
siblings, `ReadAll`, `UpdateState` the select loop of a router; `Crash`, `Boot`,
`FirstSync`, `Subscribe` its start; `Certify` is one order, from `NewOrder` to
`SendCertificate`. The worker takes one host after the other, but a deployment or a new
hostname asks for a certificate in a task of its own: `NewOrderBeside` is an order whose need
was looked up before another one recorded its certificate. `ValidBefore` is an authorization
the CA still has, for which nothing sleeps; its clean-up may carry the second of the challenge
and is then ignored by the routers. `OrderFails` is an error return wherever the code has one:
before the clean-up it leaves the challenge, after the record it leaves the certificate
unpublished.

**Run `router`.** Two routers that listen (one that starts is one that was restarted), two
updates of the route or orders, a challenge published at most twice (45 times in the code:
the count only decides when the order gives up), at most two messages waiting at a router
(publishing waits for room), one kind of failure; overlapping orders count as one. Each
order has a token of its own: an authorization that is re-used with its token by an
overlapping order is not followed. `RoutersAgree`, `RecordedIsStored`, `NoChallengeLeft` and
`ServedWasStored` name the events after which they do not hold: a message missed by a router
that was starting, two updates of one second, a slow router or a resync that put an older
route back, a failed write, a crash of the API. For an order they name what it has left
undone, and not the failure: any other order of the same behaviour is still covered.

**Proofs.** `Router_proofs` proves `TypeOK` and the run's four properties for any number
of routers, updates and orders. What all four rest on is `BaseInv`: stamps are never of the
future, a router that does not listen has no messages, the cache file is what the memory
is, a resync has forgotten the versions. `ServedWasStored` needs that a value being stored
can be taken back to one that was (`ServesStored`). The other three are about values on
their way: `Lasts(x, w)` says that value `w` of item `x` is the last word on it (if the
database does not have it, some router will still write it, and nobody has anything of `x`
to write after it), `Taken` that no router will take the message for an old one. A
challenge has them because nothing of it is of a later second than itself until it is
deleted (`TokenStamps`), the certificate because nobody has one of the current second while
an order is under way (`CertStamps`); when orders overlap only `CertComes` is left, that
a router that has the version of a certificate has stored one or is about to. Routes
need in addition that their updates are stamped in the order they were made (`Ordered`),
which is what two updates of one second break.

## Databases and Volumes

**State of `Databases`.** `row`, `dep`, `count` are the API's tables, `task` the
provisioning task of each database, `asked` and `vm` the scheduler, `attached` the
pageserver, `req` the handlers of requests.

**Actions.** `Look` to `SetRunning` are one attempt of the provisioning, `Retry` in any
of its errors the next one; `Create` to `IncrementDatabases` and `Delete` to
`DecrementDatabases` the handlers; `ReAttach` the pageserver's question at its start,
`Restart` the API's.

**State of `Volumes`.** `volume`, `snapshot`, `attachment`, `used` are the API's tables,
`image` Ceph with snapshots, protection and clones, `guest` the VM of each application
with the volumes it was deployed with and those it has mapped, `handler` and `late` the
requests under way and those given up. `promised`, `events` are history.

**Actions.** `CheckEntitlement` to `Cut` are the handlers, one action per statement or
call; `Execute` and `ExecuteLate` the agent that carries a request out, `NoWorker` a refusal
of the scheduler for want of one, `AgentTimeout` a refusal because the agent has not answered
in time, which may still carry the request out; `Deploy`, `Boot`,
`Stop` the VMs, `Detach` the one handler that is a single statement.

**Abstractions.** A volume is exclusive, shared by writers (a CephFS directory) or by readers
(an RBD image, like an exclusive one). What an image holds, sizes, mount points and CephFS are
left out, so restoring a snapshot changes nothing here. One agent carries out all requests: the
scheduler chooses any, and they share the pool.

**Run `storage`.** Handlers of databases and of volumes share no row and no lock, so that
interleaving them adds nothing: `MCTenantStorage` chooses one of the two at the start, and
the run is the sum of both. Databases: two of them, two requests at a time, a limit of
one, two attempts (5 in the code: the third repeats the second), one kind of failure.
Volumes: two of them, two snapshots of one name, two applications, four requests, two at
a time, two kinds of unusual events. `CHECK_DEADLOCK FALSE`: every database and volume is
created once, and then there is nothing left to ask for.
`RowsTellOfVms`, `CountTellsOfRows`, `PendingHasTask` say that rows, VMs and counts agree at
rest; `OneOwner`, `SnapshotsLast`, `NothingIsLeftOver`, `InUseIsKept`, `UsageIsTrue` that an
exclusive volume has one owner, a snapshot lasts, images have rows, what a VM uses stays,
and the usage is the number of volumes. Their exceptions are the events named in them.

**Proofs of `Databases`.** `Tenant_proofs` proves `DbTypes`, `PendingHasTask`,
`CountTellsOfRows` and `RowsTellOfVms` for any databases, attempts, requests and limit.
The count is wrong between a row and its count, so `CountInv` balances count, rows,
creations not counted yet and deletions not discounted yet; the limit holds because one
request that has been checked is under way at a time. `RowsInv` says of each point of the
provisioning and of a deletion what the scheduler has been asked, what it runs and what
the row says.

**Proofs of `Volumes`.** `Tenant_proofs` proves `TypeOK` and the five properties of
volumes, for any number of all its parts. Each has an invariant of its own. `OwnersInv`:
what a handler found before it attaches still holds. `MappedInv`: a VM that runs has
mapped its volumes, so that Ceph does not remove them. `LeftInv`: one handler at a time
changes a volume, and makes its row first and removes its image first. `SnapshotsInv`: a
request that removes snapshots finds none that is wanted, and names are not used twice.
`UsageInv` balances usage, rows and the handlers that stand between the two.

## Billing

**State.** `customer`, `sub`, `sent`, `due` are the payment provider: the subscription, the
events published, those not yet answered well; `deliveries`, `bill`, `hook` the API.
`newest`, `owed`, `upset` and `mishaps` are history: `owed` is the row that handling one event
after the other gives; `clear`, that nothing has failed since the newest event, which was
published when all others had been answered.

**Actions.** `Subscribe` (`Renew`: the next period) to `OpenPortal` are the provider,
`SkipKnown`, `Record`, `Load`, `Write`, `Assign` a webhook's handler with its failures,
`ApiRestarts` the start of the API, which runs migrate_existing_tenants.

**Run `billing`.** Three events in any order, two handlers, one kind of failure.
`AsIfOneByOne`: the row is `owed` at rest, unless two handlers overlapped, one failed or the
API was started again since the last event that writes all of it. `TierIsOwed`: when the
provider has all its answers the tenant has the tier it pays for, if the subscription was
told last, alone, and nothing upset it: after a restart a tenant that pays is on the default
tier, and nothing is claimed. `TierHeals` says when it gets its tier back: webhooks come to
rest whatever has happened, and one event of the subscription that is published when all
others are answered, and is the last thing to happen, sets the tier right. `CHECK_DEADLOCK
FALSE`: three events handled are the end.

**Fairness.** The provider repeats what was not answered well; handlers go on.

**Proofs.** `Tenant_proofs` proves `BillingTypeOK`, `AsIfOneByOne` and `TierIsOwed` for any
number of events, handlers and mishaps, any products and any tiers. `AsIfOneByOne` is false
while a handler is at work, so `OneInv` says of each of its points what it will still make
of the row: as long as nothing but lateness has upset the handling, one handler at most is
at work, and the row it has read or will write leads to `owed`. `TierIsOwed` relates the row
to the provider and not to the history, so it needs two more parts: `PolarInv`, that the last
event which writes the whole row tells of the subscription as it is, and `OrderInv`, that
`owed` is decided by the newest such event handled, with `NewerUntold` for those that are
still due.

## What the code does not keep

The exceptions in the properties are what the models found. The more notable ones, each
reached by the run of its module when the exception is taken out of the property:

- Two calls of the agent that persist its state at the same time write to the same
  temporary file; a mixture or the older copy may become the state file (`StateFile`,
  `overlapped`; `VmManager`, `inDoubt`).
- A VM deleted while it boots ends up with a live process and no entry, with either
  hypervisor (`VmManager`, `overlapped`; `CloudHypervisor`, `upset`).
- A VM whose kernel start_vm refuses stays Starting in table and state file, and can neither
  be started again nor is it reported as failed (`refused`).
- The automatic restart of a VM whose process has ended is refused by start_vm, because the
  status still says running; a Cloud Hypervisor VM that exits just disappears from the
  heartbeats and its job stays Running (`untold`).
- "Check if PID is still alive and is cloud-hypervisor" (`cloud_hypervisor/manager.rs:1134`)
  checks the first half only: after a reboot of the host another program may be adopted, and
  killed with the VM (`alien`).
- Scaling two or more replicas to zero undoes itself: pausing the first one makes the API
  rewrite the row with traffic now. An application that is scaled by
  hand is paused and resumed for ever, as the idle timeout and manual scaling undo each other
  (run `scaling_wakes`). An application autoscaled to zero by low load stores
  that it desires zero replicas, and then ignores visitors. A whole-row write erases a visit
  or a new count of the owner that came between read and write. `traffic > zeroed` is strict: a
  visit in the second of the zero mark is forgotten while a backoff is pending.
- Two overlapping scale-downs may delete every replica together with the rows a new
  deployment would be copied from, which is why `ReplicasReturn` asks for a row to be left.
- During a deployment two versions run and one replica is desired: the scheduler's manual
  scaling, every two seconds, counts both and deletes one of them, in no order, so that a
  zero-downtime deployment may take away the version that is served (`scaled`).
- A flow drains the version that was active before it had the guard, and may so pause the
  one just promoted; a deployment whose placement was not answered is FAILED and may run.
- A router that resyncs forgets the versions and may then put an older route back into the
  database all routers share; equal seconds drop the second update.
- An error or a crash between the record of a certificate and its message leaves the host
  without it until the recorded one is about to end, two months later. An error between
  the publication of a challenge and its clean-up leaves the challenge in the routers'
  database, as does a clean-up in the second of its challenge (`undone`). Of two overlapping
  orders the routers may keep the certificate of the one and the API the expiry of the other.
- The builder answers before it records: a question asked in between is told that the build
  has failed (`too early`).
- An error of the API's database or subscription ends the task that follows a build; its row
  stays BUILDING until the API is started again, and for ever if it has no build id yet
  (`deployment/worker.rs`:291, 333, 439; `service.rs`:793, 813).
- Capacity is the memory of the host that is free at a heartbeat, not what its VMs were given:
  VMs that have just started, or are idle, are not counted and the host is over-allotted
  (`domain/worker.rs`:31).
- A peer that does not resolve is left out and the update is remembered as done, so equal
  updates are skipped until something else changes (`unresolved`).
- Every start of the API puts all tenants back on the default tier, those that pay too,
  although the comment says that it only sees to it that all have one (`entitlements.rs`:43);
  customer.state_changed leaves a product's name where a slug is expected; a webhook whose
  handler failed after its delivery was recorded is lost.
- A database deleted while it is provisioned may leave a VM; one whose task was lost to a
  restart stays pending for ever.
- Deleting the row of a snapshot that failed for its name deletes the data of its namesake.
  A VM that boots with a volume deleted since makes an empty image of it. A clone that the
  scheduler refuses because the agent has not answered in time loses its row, and its image
  may be made all the same. Cloned volumes are
  not counted and are discounted when deleted.

All of them but one are exceptions named inside properties that hold. Of the manual scaling
the repository says the opposite, and the run `scaling_wakes` checks what it says.

## What is proved, what is only checked

The proofs hold for every value of the constants that the assumptions of the module
(`...Assumption`) allow: they are that the special values are different from the
identifiers, that the bounds are natural numbers, and that what is counted is finite. So
the bounds on requests, failures, restarts and the clock, which keep the runs finite, are
no restriction of the theorems. Every theorem has the same
shape: an invariant `IInv` that is inductive, one lemma per group of actions that
says that the group keeps it, and a last step of temporal logic. Where a property
is not inductive, the section of the module says what `IInv` adds to it.

Only checked by TLC, because they are out of the prover's reach:

- liveness under fairness: `HandlersEnd`, `FailedVmIsNoticed`, `ScheduledIsLeft`,
  `WakesUp`, `ReplicasReturn`, `Settles`, `FileCatchesUp`, `BootIsKnown`, `RowEnds`,
  `MeshConverges`, `TierHeals`.

Every safety invariant and action property the passing runs check, and the refinement, is
a theorem; so is the type invariant of every module but `JobTable`, whose only state is
mapped.

## Not modelled

- **api: users, tenants, authentication, rate limits, GitHub's webhooks.** Each request is
  a few statements of one row, and the order of requests matters to none of them.
- **router: proxy and health.** The circuit breaker and the health of backends are kept per
  request with atomics; the traffic event it publishes is the input of `AppScaling`.
- **dns.** A name per application, replaced by each job update and each heartbeat.
- **agent: network, metrics, logs, image builder.** Calls of the operating system.
- **agent: locks of the Firecracker manager.** `VmManager` has one VM and takes each lock for
  the steps it protects. That two operations take the two locks in opposite orders is
  listed as a hazard and not modelled.
- **agent: balloons, migration, the queue of unsent failure events, kernel images.**
- **storage: CephFS, sizes, what an image holds.** A file system made over an unreadable
  superblock and one volume mapped by two VMs are beyond `Volumes`.
- **proto, cli, app, init, eBPF, ansible, terraform.** They keep none of the control plane's
  state.

## Plan

What is left, in this order:

1. the locks of the Firecracker manager, for several VMs;
2. the names dns serves, and the health of backends in the proxy;
3. the API's requests that are one statement each: users, tenants, tokens and rate limits.
