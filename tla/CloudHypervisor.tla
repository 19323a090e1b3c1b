--------------------------- MODULE CloudHypervisor ---------------------------
(***************************************************************************)
(* The agent's Cloud Hypervisor manager and one VM: the table of VMs the   *)
(* agent reports, the table of processes, the VM's process, its TAP        *)
(* device, its directory and the state file in it.                         *)
(*                                                                         *)
(* A start command is answered before anything is done; a task boots the   *)
(* VM, and what it fails with is known only from the agent's heartbeats.   *)
(* The tables have no common lock, so the steps of the boot, of stop and   *)
(* delete commands and of the garbage collector interleave.  The manager   *)
(* cannot pause: the scheduler falls back to a stop and writes Paused.     *)
(*                                                                         *)
(* The scheduler makes a new VM id for every VM it starts: a VM is booted  *)
(* at most once.                                                           *)
(***************************************************************************)
EXTENDS Naturals

CONSTANTS Handlers,    \* tasks that handle stop and delete commands
          MaxOrders,   \* bound: stop and delete commands
          MaxMishaps,  \* bound: failures, lost answers, processes that die by themselves
          MaxOutages   \* bound: crashes of the agent and reboots of the host

ASSUME ChBoundsAssumption == MaxOrders \in Nat /\ MaxMishaps \in Nat /\ MaxOutages \in Nat

VARIABLES
  job,       \* the scheduler's job
  known,     \* the status in the table of VMs
  handle,    \* the process in the table of processes: a child, or one found at the start
  live,      \* the VM's process is alive
  alien,     \* the pid in the state file is another program's
  tap, dir, file,
  boot,      \* the next step of the boot
  handling,  \* the next steps of the commands
  collector, \* the next step of the garbage collector
  serving,
  orders, mishaps, outages,
  untold,    \* history: the scheduler was not told that the process ended
  upset      \* history: a boot met a command or the death of its process, or a crash
             \* interrupted something, met a VM without a file, or freed the pid for others

vmTables == <<known, handle>>
onHost == <<dir, file>>
tally == <<orders, mishaps, outages>>
chVars == <<job, vmTables, live, alien, tap, onHost, boot, handling, collector, serving, tally,
            untold, upset>>

Handling == [at : {"idle", "take", "end", "forget", "erase", "orphan", "answer"},
             held : BOOLEAN, purge : BOOLEAN]
Idle == [at |-> "idle", held |-> FALSE, purge |-> FALSE]

ChTypeOK ==
  /\ job \in {"none", "running", "failed", "paused", "gone"}
  /\ known \in {"absent", "running", "failed"} /\ handle \in {"none", "child", "found"}
  /\ live \in BOOLEAN /\ alien \in BOOLEAN /\ tap \in BOOLEAN /\ dir \in BOOLEAN
  /\ file \in BOOLEAN /\ serving \in BOOLEAN /\ untold \in BOOLEAN /\ upset \in BOOLEAN
  /\ boot \in {"idle", "network", "disks", "spawn", "create", "configure", "track", "tell",
               "persist", "failed"}
  /\ handling \in [Handlers -> Handling]
  /\ collector \in {"idle", "drop", "forget", "erase"}
  /\ orders \in 0 .. MaxOrders /\ mishaps \in 0 .. MaxMishaps /\ outages \in 0 .. MaxOutages

ChInit ==
  /\ job = "none" /\ known = "absent" /\ handle = "none"
  /\ live = FALSE /\ alien = FALSE /\ tap = FALSE /\ dir = FALSE /\ file = FALSE
  /\ boot = "idle" /\ handling = [t \in Handlers |-> Idle] /\ collector = "idle" /\ serving = TRUE
  /\ orders = 0 /\ mishaps = 0 /\ outages = 0 /\ untold = FALSE /\ upset = FALSE

Mishap == mishaps < MaxMishaps /\ mishaps' = mishaps + 1
HandlerAt(t, point) == serving /\ handling[t].at = point
HandlerGoes(t, point) == handling' = [handling EXCEPT ![t].at = point]
Erase == dir' = FALSE /\ file' = FALSE
Busy == boot # "idle" \/ collector # "idle" \/ \E t \in Handlers : handling[t].at # "idle"

(* is_pid_alive looks for a process with this pid, whatever it runs. *)
PidAlive == live \/ alien

-----------------------------------------------------------------------------
(* start_vm: answered at once; start_vm_background in a task. *)
StartVm ==
  /\ serving /\ job = "none"
  /\ job' = "running" /\ boot' = "network"
  /\ UNCHANGED <<vmTables, live, alien, tap, onHost, handling, collector, serving, tally, untold,
                 upset>>

BootStep(from) == serving /\ boot = from
BootAside == <<job, alien, handling, collector, serving, orders, outages, untold, upset>>

(* get_vm_paths makes the directory; setup_tap and setup_routing. *)
BootNetwork ==
  /\ BootStep("network")
  /\ dir' = TRUE
  /\ \/ tap' = TRUE /\ boot' = "disks" /\ UNCHANGED mishaps
     \/ Mishap /\ tap' \in BOOLEAN /\ boot' = "failed"
  /\ UNCHANGED <<BootAside, vmTables, live, file>>

(* The root file system and the volumes. *)
BootDisks ==
  /\ BootStep("disks")
  /\ \/ boot' = "spawn" /\ UNCHANGED mishaps
     \/ Mishap /\ boot' = "failed"
  /\ UNCHANGED <<BootAside, vmTables, live, tap, onHost>>

(* The log file and the socket are in the directory. *)
BootSpawn ==
  /\ BootStep("spawn")
  /\ \/ dir /\ live' = TRUE /\ boot' = "create" /\ UNCHANGED mishaps
     \/ /\ \/ ~dir /\ UNCHANGED mishaps
           \/ Mishap
        /\ boot' = "failed" /\ UNCHANGED live
  /\ UNCHANGED <<BootAside, vmTables, tap, onHost>>

(* Mutant: the process of a failed boot is not killed on drop. *)
BootCreateLeaky ==
  /\ BootStep("create")
  /\ \/ live /\ dir /\ boot' = "configure" /\ UNCHANGED <<live, mishaps>>
     \/ /\ \/ (~live \/ ~dir) /\ UNCHANGED mishaps
           \/ Mishap
        /\ boot' = "failed" /\ UNCHANGED live
  /\ UNCHANGED <<BootAside, vmTables, tap, onHost>>

(* The socket, vm.create and vm.boot, each checked again when it times out.
   The process of a boot that fails is dropped, and killed by that. *)
BootCreate ==
  /\ BootStep("create")
  /\ \/ live /\ dir /\ boot' = "configure" /\ UNCHANGED <<live, mishaps>>
     \/ /\ \/ (~live \/ ~dir) /\ UNCHANGED mishaps
           \/ Mishap
        /\ boot' = "failed" /\ live' = FALSE
  /\ UNCHANGED <<BootAside, vmTables, tap, onHost>>

(* configure_database_vm, for a database: its failure is the only one that
   removes the TAP device. *)
BootConfigure ==
  /\ BootStep("configure")
  /\ \/ boot' = "track" /\ UNCHANGED <<live, tap, mishaps>>
     \/ Mishap /\ live' = FALSE /\ tap' = FALSE /\ boot' = "failed"
  /\ UNCHANGED <<BootAside, vmTables, onHost>>

BootTrack ==
  /\ BootStep("track")
  /\ handle' = "child" /\ boot' = "tell"
  /\ UNCHANGED <<BootAside, known, live, tap, onHost, mishaps>>

BootTell ==
  /\ BootStep("tell")
  /\ known' = "running" /\ boot' = "persist"
  /\ UNCHANGED <<BootAside, handle, live, tap, onHost, mishaps>>

(* persist_vm_state needs the entry in the table and the directory, and the
   lock a stop holds until the process is dead; its failure is a warning. *)
BootPersist ==
  /\ BootStep("persist") /\ \A t \in Handlers : handling[t].at # "end"
  /\ IF known # "absent" /\ dir
       THEN \/ file' = TRUE /\ UNCHANGED mishaps
            \/ Mishap /\ UNCHANGED file
       ELSE UNCHANGED <<file, mishaps>>
  /\ boot' = "idle"
  /\ UNCHANGED <<BootAside, vmTables, live, tap, dir>>

(* Mutant: the failure of the background task is only logged. *)
BootFailedLogged ==
  /\ BootStep("failed")
  /\ boot' = "idle"
  /\ UNCHANGED <<BootAside, known, handle, live, tap, onHost, mishaps>>

BootFailed ==
  /\ BootStep("failed")
  /\ known' = "failed" /\ boot' = "idle"
  /\ UNCHANGED <<BootAside, handle, live, tap, onHost, mishaps>>

Boot ==
  \/ BootNetwork \/ BootDisks \/ BootSpawn \/ BootCreate \/ BootConfigure
  \/ BootTrack \/ BootTell \/ BootPersist \/ BootFailed

-----------------------------------------------------------------------------
(* The scheduler pauses a running VM, which the agent must know, or deletes
   the application, whose job is gone whatever the agent answers. *)
StopOrDelete(t) ==
  /\ HandlerAt(t, "idle") /\ orders < MaxOrders /\ orders' = orders + 1
  /\ \/ /\ job = "running" /\ known # "absent"
        /\ handling' = [handling EXCEPT ![t].at = "take"] /\ UNCHANGED job
     \/ /\ job # "none" /\ job' = "gone"
        /\ handling' = [handling EXCEPT ![t].at = "take", ![t].purge = TRUE]
  /\ upset' = (upset \/ boot # "idle")
  /\ UNCHANGED <<vmTables, live, alien, tap, onHost, boot, collector, serving, mishaps, outages,
                 untold>>

TaskAside == <<alien, boot, collector, serving, orders, outages, upset>>

(* stop_vm takes the process out of the table ... *)
Take(t) ==
  /\ HandlerAt(t, "take")
  /\ handle' = "none"
  /\ handling' = [handling EXCEPT ![t].at = IF handle = "none" THEN "forget" ELSE "end",
                          ![t].held = (handle = "found")]
  /\ UNCHANGED <<TaskAside, job, known, live, tap, onHost, mishaps, untold>>

(* Mutant: a guest that ignores the power button is left running. *)
PressButton(t) ==
  /\ HandlerAt(t, "end")
  /\ live' \in {live, FALSE} /\ tap' = FALSE /\ HandlerGoes(t, "forget")
  /\ UNCHANGED <<TaskAside, job, vmTables, onHost, mishaps, untold>>

(* ... presses the power button, waits five seconds, and kills what is left:
   for a process found at the start, whatever has its pid. *)
End(t) ==
  /\ HandlerAt(t, "end")
  /\ live' = FALSE /\ tap' = FALSE
  /\ alien' = (alien /\ ~handling[t].held)
  /\ handling' = [handling EXCEPT ![t].at = "forget", ![t].held = FALSE]
  /\ UNCHANGED <<boot, collector, serving, orders, outages, upset, job, vmTables, onHost,
                 mishaps, untold>>

ForgetVm(t) ==
  /\ HandlerAt(t, "forget")
  /\ known' = "absent" /\ HandlerGoes(t, "erase")
  /\ UNCHANGED <<TaskAside, job, handle, live, tap, onHost, mishaps, untold>>

EraseState(t) ==
  /\ HandlerAt(t, "erase")
  /\ Erase /\ HandlerGoes(t, IF handling[t].purge THEN "orphan" ELSE "answer")
  /\ UNCHANGED <<TaskAside, job, vmTables, live, tap, mishaps, untold>>

(* The rest of delete_vm: a process that a socket or a state file in the
   directory still leads to is shut down, and everything is removed again.
   stop_vm has just removed the directory. *)
DeleteOrphan(t) ==
  /\ HandlerAt(t, "orphan")
  /\ live' \in (IF dir THEN {live, FALSE} ELSE {live})
  /\ file => live' = FALSE
  /\ tap' = FALSE /\ Erase /\ known' = "absent"
  /\ handling' = [handling EXCEPT ![t] = Idle]
  /\ UNCHANGED <<TaskAside, job, handle, mishaps, untold>>

(* The answer to a stop, which may be lost; pause_app then writes Paused. *)
Answer(t) ==
  /\ HandlerAt(t, "answer")
  /\ handling' = [handling EXCEPT ![t] = Idle]
  /\ \/ job' = (IF job = "running" THEN "paused" ELSE job) /\ UNCHANGED <<mishaps, untold>>
     \/ Mishap /\ untold' = TRUE /\ UNCHANGED job
  /\ UNCHANGED <<TaskAside, vmTables, live, tap, onHost>>

HandlerStep(t) == Take(t) \/ End(t) \/ ForgetVm(t) \/ EraseState(t) \/ DeleteOrphan(t) \/ Answer(t)

-----------------------------------------------------------------------------
(* run_gc, every ten seconds: a process that has ended is dropped, and with it
   all that is known of the VM. *)
GcAside == <<job, alien, boot, handling, serving, tally, untold, upset>>

CollectDead ==
  /\ serving /\ collector = "idle" /\ handle # "none"
  /\ IF handle = "found" THEN ~PidAlive ELSE ~live
  /\ collector' = "drop"
  /\ UNCHANGED <<GcAside, vmTables, live, tap, onHost>>

Drop ==
  /\ serving /\ collector = "drop" /\ collector' = "forget"
  /\ IF handle = "none" THEN UNCHANGED <<live, tap>> ELSE live' = FALSE /\ tap' = FALSE
  /\ handle' = "none"
  /\ UNCHANGED <<GcAside, known, onHost>>

ForgetEnded ==
  /\ serving /\ collector = "forget" /\ collector' = "erase"
  /\ known' = "absent"
  /\ UNCHANGED <<GcAside, handle, live, tap, onHost>>

EraseEnded ==
  /\ serving /\ collector = "erase" /\ collector' = "idle"
  /\ Erase
  /\ UNCHANGED <<GcAside, vmTables, live, tap>>

RunGc == CollectDead \/ Drop \/ ForgetEnded \/ EraseEnded

(* report_heartbeat: a running job whose VM the agent reports failed. *)
Heartbeat ==
  /\ serving /\ known = "failed" /\ job = "running"
  /\ job' = "failed"
  /\ UNCHANGED <<vmTables, live, alien, tap, onHost, boot, handling, collector, serving, tally,
                 untold, upset>>

-----------------------------------------------------------------------------
(* The guest powers off or the process dies; nobody tells the scheduler. *)
VmDies ==
  /\ live /\ live' = FALSE /\ Mishap
  /\ untold' = TRUE /\ upset' = (upset \/ boot # "idle")
  /\ UNCHANGED <<job, vmTables, alien, tap, onHost, boot, handling, collector, serving, orders,
                 outages>>

(* The agent dies, with the VM's process or without it, or the whole host. *)
Outage ==
  /\ serving /\ outages < MaxOutages /\ outages' = outages + 1
  /\ serving' = FALSE /\ known' = "absent" /\ handle' = "none"
  /\ boot' = "idle" /\ handling' = [t \in Handlers |-> Idle] /\ collector' = "idle"
  /\ \/ live' \in {live, FALSE} /\ UNCHANGED <<alien, tap>>
     \/ live' = FALSE /\ alien' \in {file, FALSE} /\ tap' = FALSE
  /\ upset' = (upset \/ Busy \/ alien' \/ (live /\ ~file))
  /\ untold' = TRUE
  /\ UNCHANGED <<job, onHost, orders, mishaps>>

(* load_runtime_state adopts the pid of the state file if it is alive;
   cleanup_all_stale_resources removes the directories of other VMs. *)
Adopt ==
  /\ ~serving /\ serving' = TRUE
  /\ IF file /\ PidAlive
       THEN known' = "running" /\ handle' = "found" /\ UNCHANGED onHost
       ELSE Erase /\ UNCHANGED vmTables
  /\ UNCHANGED <<job, live, alien, tap, boot, handling, collector, tally, untold, upset>>

ChNext ==
  \/ StartVm \/ Boot
  \/ \E t \in Handlers : StopOrDelete(t) \/ HandlerStep(t)
  \/ RunGc \/ Heartbeat \/ VmDies \/ Outage \/ Adopt

ChSpec == ChInit /\ [][ChNext]_chVars

(* A task goes on, the collector and the heartbeats come every ten seconds, and
   the agent is started again. *)
ChFairness ==
  /\ WF_chVars(Boot) /\ \A t \in Handlers : WF_chVars(HandlerStep(t))
  /\ WF_chVars(RunGc) /\ WF_chVars(Heartbeat) /\ WF_chVars(Adopt)

ChFairSpec == ChSpec /\ ChFairness

-----------------------------------------------------------------------------
(* Properties *)

HostQuiet == serving /\ ~Busy /\ ~(handle # "none" /\ ~live)

(* As long as no command has met a boot and no crash has come at a bad moment
   (upset), a VM at rest has a process exactly if the agent has it in the table of
   processes, and then it is in the table of VMs as running: also when the
   agent has been restarted in between and found the VM in its state file. *)
EachVmIsHeld ==
  (HostQuiet /\ ~upset) => (live <=> handle # "none") /\ (live <=> known = "running")

(* A VM whose application has been deleted leaves no process, no entry, no
   directory and no TAP device, however many stops and deletes of it overlap
   each other and the garbage collector.  A deletion in which a command or the
   death of the process has met the boot, or a crash came at a bad moment
   (upset), is exempt altogether: there the code may leave any of these. *)
GoneIsGone ==
  (HostQuiet /\ job = "gone" /\ ~upset /\ \A t \in Handlers : handling[t].at = "idle")
    => ~live /\ known = "absent" /\ ~tap /\ ~dir

(* A VM that the scheduler believes to run does run in the end, or the
   scheduler learns that its boot failed, unless its process has ended without
   anybody telling, or the agent has died. *)
BootIsKnown == [](~untold /\ ~upset) => <>[](job = "running" => live /\ known = "running")
=============================================================================
