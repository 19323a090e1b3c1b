------------------------------ MODULE VmManager ------------------------------
(***************************************************************************)
(* The agent's Firecracker manager and one microVM: its entry in the table *)
(* of VMs, its entry in the table of processes, its processes, and its     *)
(* record in the state file.                                               *)
(*                                                                         *)
(* Every command is handled in a task of its own, and start_vm leaves a    *)
(* task behind that boots the VM after the command was answered.  The two  *)
(* tables have a lock each, released between the steps of an operation; so *)
(* the steps of commands, boots and the garbage collector interleave.  A   *)
(* microVM only meets others in the locks and the state file.              *)
(*                                                                         *)
(* To save is to copy the tables under their locks and to write the copy   *)
(* once they are released; a copy on its way is state of the task.  Saves  *)
(* that overlap share the temporary file: which copy the file has then, or *)
(* whether it is whole, is open here; how it comes about is in StateFile.  *)
(***************************************************************************)
EXTENDS Naturals

CONSTANTS Slots,        \* tasks that handle commands and boot the VM
          Collector,    \* the task of the garbage collector
          Procs,        \* processes of the VM
          NoProc,
          MaxCommands,  \* bound: commands
          MaxFaults,    \* bound: failures, and processes that die by themselves
          MaxCrashes    \* bound: crashes of the agent

ASSUME ProcsAssumption == NoProc \notin Procs
ASSUME CollectorAssumption == Collector \notin Slots
ASSUME BoundsAssumption == MaxCommands \in Nat /\ MaxFaults \in Nat /\ MaxCrashes \in Nat

VARIABLES
  vm,          \* the status in the table of VMs, "absent" without an entry
  proc,        \* the process in the table of processes
  alive,       \* the processes that are alive
  doomed,      \* processes of failed boots, about to be killed
  disk,        \* the record in the state file
  copy,        \* the copies of the tables that are about to be written
  slot,        \* the tasks
  gc,          \* the next step of the garbage collector
  restart,     \* an automatic restart has been spawned
  up,          \* the agent runs
  started,     \* the scheduler has sent its start command
  commands, faults, crashes,
  overlapped,  \* history: a command or boot began during another one
  abandoned,   \* history: live processes forgotten by resume_vm
  inDoubt,     \* history: the last save has failed or overlapped another one
  refused      \* history: start_vm has refused the kernel

tables == <<vm, proc>>
saves == <<copy, inDoubt>>
counters == <<commands, faults, crashes>>
vars == <<tables, alive, doomed, disk, saves, slot, gc, restart, up, started, counters,
          overlapped, abandoned, refused>>

Statuses == {"absent", "starting", "running", "paused", "stopping", "stopped", "failed"}
Points == {"idle", "start", "save", "write", "prepare", "spawn", "configure", "running", "track",
           "fail", "stop", "kill", "stopped", "orphan", "remove", "pause", "paused",
           "resume", "patch", "giveUp", "forget",
           "look"}

(* at: the next step; then: the step after the record is saved; held: the
   process in the hands of a boot; purge: stop_vm was called by delete_vm. *)
Local == [at : Points, then : Points \ {"write"}, held : Procs \cup {NoProc}, purge : BOOLEAN]
Free == [at |-> "idle", then |-> "idle", held |-> NoProc, purge |-> FALSE]
Record == [vm : Statuses, proc : Procs \cup {NoProc}]
Nothing == [vm |-> "absent", proc |-> NoProc]

(* Not a record: no copy is on its way; the file cannot be parsed. *)
NoCopy == [vm |-> "none", proc |-> NoProc]
Torn == [vm |-> "torn", proc |-> NoProc]
Savers == Slots \cup {Collector}

TypeOK ==
  /\ vm \in Statuses /\ proc \in Procs \cup {NoProc}
  /\ alive \subseteq Procs /\ doomed \subseteq alive
  /\ disk \in Record \cup {Torn} /\ copy \in [Savers -> Record \cup {NoCopy}]
  /\ slot \in [Slots -> Local]
  /\ gc \in {"idle", "decide", "save", "saveAndRestart", "write", "writeAndRestart"}
  /\ restart \in BOOLEAN /\ up \in BOOLEAN /\ started \in BOOLEAN
  /\ commands \in 0 .. MaxCommands /\ faults \in 0 .. MaxFaults /\ crashes \in 0 .. MaxCrashes
  /\ overlapped \in BOOLEAN /\ abandoned \subseteq Procs
  /\ inDoubt \in BOOLEAN /\ refused \in BOOLEAN

Init ==
  /\ vm = "absent" /\ proc = NoProc /\ alive = {} /\ doomed = {}
  /\ disk = Nothing /\ copy = [p \in Savers |-> NoCopy]
  /\ slot = [t \in Slots |-> Free]
  /\ gc = "idle" /\ restart = FALSE /\ up = TRUE /\ started = FALSE
  /\ commands = 0 /\ faults = 0 /\ crashes = 0
  /\ overlapped = FALSE /\ abandoned = {} /\ inDoubt = FALSE /\ refused = FALSE

-----------------------------------------------------------------------------
At(t, point) == up /\ slot[t].at = point
Goto(t, point) == slot' = [slot EXCEPT ![t].at = point]
SaveThen(t, point) == slot' = [slot EXCEPT ![t].at = "save", ![t].then = point]
Finish(t) == slot' = [slot EXCEPT ![t] = Free]

(* An entry that is gone is not brought back. *)
SetStatus(s) == vm' = IF vm = "absent" THEN "absent" ELSE s

Fault == faults < MaxFaults /\ faults' = faults + 1
Fresh == Procs \ (alive \cup {proc, disk.proc} \cup {copy[p].proc : p \in Savers}
                           \cup {slot[t].held : t \in Slots})

(* What most steps leave alone. *)
others == <<gc, restart, up, started, commands, crashes, overlapped, abandoned>>
aside == <<others, saves, refused>>

(* persist_runtime_state_to_disk takes a copy while it holds both locks: a
   record for every entry of the table of VMs.  Of a VM that should have no
   process load_runtime_state does not read one. *)
Holding(p) == copy[p] # NoCopy

Copy(p) ==
  /\ copy' = [copy EXCEPT ![p] =
       [vm |-> vm, proc |-> IF vm \in {"starting", "running", "stopping"} THEN proc ELSE NoProc]]
  /\ inDoubt' = (\E q \in Savers : Holding(q))

(* It writes the copy to the temporary file and renames that; a failure is
   ignored.  Of saves that overlap one may write into the other's file, before
   or after it is renamed, and find nothing to rename. *)
Write(p) ==
  /\ copy' = [copy EXCEPT ![p] = NoCopy]
  /\ \/ ~inDoubt /\ disk' = copy[p] /\ UNCHANGED <<inDoubt, faults>>
     \/ /\ inDoubt /\ disk' \in {disk, Torn} \cup {copy[q] : q \in {o \in Savers : Holding(o)}}
        /\ UNCHANGED <<inDoubt, faults>>
     \/ Fault /\ inDoubt' = TRUE /\ UNCHANGED disk

SaveCopy(t) ==
  /\ At(t, "save")
  /\ Copy(t)
  /\ Goto(t, "write")
  /\ UNCHANGED <<tables, alive, doomed, disk, faults, others, refused>>

SaveWrite(t) ==
  /\ At(t, "write")
  /\ Write(t)
  /\ IF slot[t].then = "idle" THEN Finish(t) ELSE Goto(t, slot[t].then)
  /\ UNCHANGED <<tables, alive, doomed, others, refused>>

-----------------------------------------------------------------------------
(* Commands.  The agent looks the VM up first, except to start or delete it;
   the scheduler sends one start command for a VM.  Tasks are alike: which of
   the free ones begins makes no difference. *)
Begin(t, point, purge) ==
  /\ At(t, "idle") /\ t = CHOOSE u \in Slots : slot[u].at = "idle"
  /\ slot' = [slot EXCEPT ![t] = [Free EXCEPT !.at = point, !.purge = purge]]
  /\ overlapped' = (overlapped \/ \E u \in Slots : slot[u].at # "idle")

Command(t) ==
  /\ commands < MaxCommands /\ commands' = commands + 1
  /\ \/ ~started /\ started' = TRUE /\ Begin(t, "start", FALSE)
     \/ started /\ Begin(t, "stop", TRUE) /\ UNCHANGED started
     \/ /\ vm # "absent" /\ UNCHANGED started
        /\ \E point \in {"stop", "pause", "resume"} : Begin(t, point, FALSE)
  /\ UNCHANGED <<tables, alive, doomed, disk, saves, gc, restart, up, faults, crashes,
                 abandoned, refused>>

(* The task run_gc has spawned. *)
AutoRestart(t) ==
  /\ restart /\ restart' = FALSE
  /\ Begin(t, "start", FALSE)
  /\ UNCHANGED <<tables, alive, doomed, disk, saves, gc, up, started, counters, abandoned,
                 refused>>

-----------------------------------------------------------------------------
(* start_vm *)
Start(t) ==
  /\ At(t, "start")
  /\ IF vm \in {"running", "starting", "stopping"}
       THEN Finish(t) /\ UNCHANGED vm
       ELSE vm' = "starting" /\ SaveThen(t, "prepare")
  /\ UNCHANGED <<proc, alive, doomed, disk, faults, aside>>

(* start_vm looks for the binary and reads the kernel; start_vm_background, the
   task it leaves behind, prepares the root file system and the network; then a
   process, and its configuration through the API socket.  A guard kills the
   process of a boot that fails.  An error of validate_kernel_image is returned
   as it is: the status stays. *)
Prepare(t) ==
  /\ At(t, "prepare")
  /\ \/ Goto(t, "spawn") /\ UNCHANGED <<faults, refused>>
     \/ Fault /\ Goto(t, "fail") /\ UNCHANGED refused
     \/ Fault /\ Finish(t) /\ refused' = TRUE
  /\ UNCHANGED <<tables, alive, doomed, disk, others, saves>>

Spawn(t) ==
  /\ At(t, "spawn")
  /\ \/ /\ Fresh # {}
        /\ LET q == CHOOSE q \in Fresh : TRUE IN
             /\ alive' = alive \cup {q}
             /\ slot' = [slot EXCEPT ![t].at = "configure", ![t].held = q]
        /\ UNCHANGED faults
     \/ Fault /\ Goto(t, "fail") /\ UNCHANGED alive
  /\ UNCHANGED <<tables, doomed, disk, aside>>

(* After a snapshot that cannot be loaded, a process that cannot be configured
   either is replaced. *)
Configure(t) ==
  /\ At(t, "configure")
  /\ \/ /\ slot[t].held \in alive
        /\ Goto(t, "running")
        /\ UNCHANGED <<alive, doomed, faults>>
     \/ /\ \/ slot[t].held \notin alive /\ UNCHANGED faults
           \/ Fault
        /\ doomed' = doomed \cup ({slot[t].held} \cap alive)
        /\ slot' = [slot EXCEPT ![t].at = "fail", ![t].held = NoProc]
        /\ UNCHANGED alive
     \/ /\ Fault
        /\ alive' = alive \ {slot[t].held}
        /\ slot' = [slot EXCEPT ![t].at = "spawn", ![t].held = NoProc]
        /\ UNCHANGED doomed
  /\ UNCHANGED <<tables, disk, aside>>

(* finalize_startup: the status, then the process, each under its lock. *)
MarkRunning(t) ==
  /\ At(t, "running")
  /\ SetStatus("running")
  /\ Goto(t, "track")
  /\ UNCHANGED <<proc, alive, doomed, disk, faults, aside>>

Track(t) ==
  /\ At(t, "track")
  /\ proc' = slot[t].held
  /\ slot' = [slot EXCEPT ![t] = [Free EXCEPT !.at = "save"]]
  /\ UNCHANGED <<vm, alive, doomed, disk, faults, aside>>

(* Mutant: the failure is reported, the status is not changed. *)
SetFailedNot(t) ==
  /\ At(t, "fail")
  /\ UNCHANGED vm
  /\ SaveThen(t, "idle")
  /\ UNCHANGED <<proc, alive, doomed, disk, faults, aside>>

(* set_failed *)
SetFailed(t) ==
  /\ At(t, "fail")
  /\ SetStatus("failed")
  /\ SaveThen(t, "idle")
  /\ UNCHANGED <<proc, alive, doomed, disk, faults, aside>>

(* VmStartupGuard's drop, in a task of its own. *)
KillDoomed ==
  /\ up /\ doomed # {}
  /\ alive' = alive \ doomed /\ doomed' = {}
  /\ UNCHANGED <<tables, disk, slot, faults, aside>>

-----------------------------------------------------------------------------
(* stop_vm; delete_vm goes on where stop_vm returns. *)
MarkStopping(t) ==
  /\ At(t, "stop")
  /\ IF vm # "absent"
       THEN vm' = "stopping" /\ Goto(t, "kill")
       ELSE UNCHANGED vm /\ IF slot[t].purge THEN Goto(t, "orphan") ELSE Finish(t)
  /\ UNCHANGED <<proc, alive, doomed, disk, faults, aside>>

(* Mutant: the process is taken from the table and not killed. *)
ForgetTracked(t) ==
  /\ At(t, "kill")
  /\ proc' = NoProc
  /\ Goto(t, "stopped")
  /\ UNCHANGED <<vm, alive, doomed, disk, faults, aside>>

(* The lock of the processes is held until the process is dead. *)
KillTracked(t) ==
  /\ At(t, "kill")
  /\ proc' = NoProc
  /\ alive' = alive \ {proc}
  /\ doomed' = doomed \ {proc}
  /\ Goto(t, "stopped")
  /\ UNCHANGED <<vm, disk, faults, aside>>

MarkStopped(t) ==
  /\ At(t, "stopped")
  /\ SetStatus("stopped")
  /\ SaveThen(t, IF slot[t].purge THEN "orphan" ELSE "idle")
  /\ UNCHANGED <<proc, alive, doomed, disk, faults, aside>>

(* stop_orphaned_process: a process that listens on the VM's socket may do what
   it is asked for. *)
StopOrphan(t) ==
  /\ At(t, "orphan")
  /\ \/ UNCHANGED <<alive, doomed>>
     \/ \E q \in alive : alive' = alive \ {q} /\ doomed' = doomed \ {q}
  /\ Goto(t, "remove")
  /\ UNCHANGED <<tables, disk, faults, aside>>

(* Mutant: the entry is removed and the state file keeps its record. *)
RemoveEntryOnly(t) ==
  /\ At(t, "remove")
  /\ vm' = "absent"
  /\ Finish(t)
  /\ UNCHANGED <<proc, alive, doomed, disk, faults, aside>>

RemoveEntry(t) ==
  /\ At(t, "remove")
  /\ vm' = "absent"
  /\ SaveThen(t, "idle")
  /\ UNCHANGED <<proc, alive, doomed, disk, faults, aside>>

-----------------------------------------------------------------------------
(* pause_vm: a snapshot, and the process is killed, all under the lock of the
   processes; a failure leaves the process there. *)
Pause(t) ==
  /\ At(t, "pause")
  /\ \/ /\ proc \in alive
        /\ alive' = alive \ {proc} /\ doomed' = doomed \ {proc} /\ proc' = NoProc
        /\ Goto(t, "paused")
        /\ UNCHANGED faults
     \/ /\ \/ proc \notin alive /\ UNCHANGED faults
           \/ Fault
        /\ Finish(t)
        /\ UNCHANGED <<proc, alive, doomed>>
  /\ UNCHANGED <<vm, disk, aside>>

MarkPaused(t) ==
  /\ At(t, "paused")
  /\ SetStatus("paused")
  /\ SaveThen(t, "idle")
  /\ UNCHANGED <<proc, alive, doomed, disk, faults, aside>>

(* resume_vm looks at the process under the lock and acts without it. *)
Resume(t) ==
  /\ At(t, "resume")
  /\ \/ proc = NoProc /\ SetStatus("stopped") /\ SaveThen(t, "look")
     \/ proc \in alive /\ Goto(t, "patch") /\ UNCHANGED vm
     \/ proc \in Procs \ alive /\ Goto(t, "giveUp") /\ UNCHANGED vm
  /\ UNCHANGED <<proc, alive, doomed, disk, faults, aside>>

ResumeInPlace(t) ==
  /\ At(t, "patch")
  /\ \/ SetStatus("running") /\ SaveThen(t, "idle") /\ UNCHANGED faults
     \/ Fault /\ Goto(t, "giveUp") /\ UNCHANGED vm
  /\ UNCHANGED <<proc, alive, doomed, disk, aside>>

GiveUp(t) ==
  /\ At(t, "giveUp")
  /\ SetStatus("stopped")
  /\ Goto(t, "forget")
  /\ UNCHANGED <<proc, alive, doomed, disk, faults, aside>>

(* The process is taken from the table, alive or not. *)
Forget(t) ==
  /\ At(t, "forget")
  /\ proc' = NoProc
  /\ abandoned' = abandoned \cup ({proc} \cap alive)
  /\ SaveThen(t, "look")
  /\ UNCHANGED <<vm, alive, doomed, disk, saves, faults, gc, restart, up, started, commands,
                 crashes, overlapped, refused>>

(* get_vm, before start_vm is called. *)
LookUp(t) ==
  /\ At(t, "look")
  /\ IF vm = "absent" THEN Finish(t) ELSE Goto(t, "start")
  /\ UNCHANGED <<tables, alive, doomed, disk, faults, aside>>

Step(t) ==
  \/ SaveCopy(t) \/ SaveWrite(t) \/ Start(t) \/ Prepare(t) \/ Spawn(t) \/ Configure(t)
  \/ MarkRunning(t) \/ Track(t) \/ SetFailed(t) \/ MarkStopping(t) \/ KillTracked(t) \/ MarkStopped(t) \/ StopOrphan(t)
  \/ RemoveEntry(t) \/ Pause(t) \/ MarkPaused(t) \/ Resume(t) \/ ResumeInPlace(t) \/ GiveUp(t)
  \/ Forget(t) \/ LookUp(t)

-----------------------------------------------------------------------------
(* run_gc: a process that has ended is taken from the table; what becomes of
   its VM is decided afterwards, under the other lock. *)
CollectExited ==
  /\ up /\ gc = "idle"
  /\ IF proc \in Procs \ alive
       THEN proc' = NoProc /\ gc' = "decide"
       ELSE gc' = "save" /\ UNCHANGED proc
  /\ UNCHANGED <<vm, alive, doomed, disk, saves, slot, restart, up, started, counters,
                 overlapped, abandoned, refused>>

Decide ==
  /\ up /\ gc = "decide"
  /\ gc' = IF vm \in {"running", "starting"} THEN "saveAndRestart" ELSE "save"
  /\ vm' = IF vm \in {"stopping", "stopped", "failed"} THEN "stopped" ELSE vm
  /\ UNCHANGED <<proc, alive, doomed, disk, saves, slot, restart, up, started, counters,
                 overlapped, abandoned, refused>>

CopyCollected ==
  /\ up /\ gc \in {"save", "saveAndRestart"}
  /\ gc' = IF gc = "save" THEN "write" ELSE "writeAndRestart"
  /\ Copy(Collector)
  /\ UNCHANGED <<tables, alive, doomed, disk, slot, restart, up, started, counters, overlapped,
                 abandoned, refused>>

WriteCollected ==
  /\ up /\ gc \in {"write", "writeAndRestart"} /\ gc' = "idle"
  /\ Write(Collector)
  /\ restart' = (restart \/ gc = "writeAndRestart")
  /\ UNCHANGED <<tables, alive, doomed, slot, up, started, commands, crashes, overlapped,
                 abandoned, refused>>

Collect == CollectExited \/ Decide \/ CopyCollected \/ WriteCollected

-----------------------------------------------------------------------------
(* A process of the VM ends by itself. *)
ProcessDies(q) ==
  /\ q \in alive
  /\ alive' = alive \ {q} /\ doomed' = doomed \ {q}
  /\ Fault
  /\ UNCHANGED <<tables, disk, slot, aside>>

(* The agent's process dies; its children may outlive it. *)
Crash ==
  /\ up /\ up' = FALSE
  /\ crashes < MaxCrashes /\ crashes' = crashes + 1
  /\ alive' \in SUBSET alive /\ doomed' = {}
  /\ vm' = "absent" /\ proc' = NoProc
  /\ slot' = [t \in Slots |-> Free] /\ copy' = [p \in Savers |-> NoCopy]
  /\ gc' = "idle" /\ restart' = FALSE
  /\ UNCHANGED <<disk, started, commands, faults, overlapped, abandoned, inDoubt, refused>>

(* load_runtime_state: a VM that should have a process is kept with it, or
   dropped when the process is dead, which is saved; other VMs are kept without
   one.  From a torn file nothing is loaded. *)
Load ==
  /\ ~up /\ up' = TRUE
  /\ \/ disk = Torn /\ inDoubt' = TRUE /\ UNCHANGED <<tables, disk, faults>>
     \/ /\ disk.vm \in {"starting", "running", "stopping"} /\ disk.proc \in alive
        /\ vm' = disk.vm /\ proc' = disk.proc /\ inDoubt' = FALSE /\ UNCHANGED <<disk, faults>>
     \/ /\ disk.vm \in {"starting", "running", "stopping"} /\ disk.proc \notin alive
        /\ \/ disk' = Nothing /\ inDoubt' = FALSE /\ UNCHANGED faults
           \/ Fault /\ inDoubt' = TRUE /\ UNCHANGED disk
        /\ UNCHANGED tables
     \/ /\ disk.vm \in {"absent", "paused", "stopped", "failed"}
        /\ vm' = disk.vm /\ inDoubt' = FALSE /\ UNCHANGED <<proc, disk, faults>>
  /\ UNCHANGED <<alive, doomed, copy, slot, gc, restart, started, commands, crashes, overlapped,
                 abandoned, refused>>

Next ==
  \/ \E t \in Slots : Command(t) \/ AutoRestart(t) \/ Step(t)
  \/ KillDoomed \/ Collect
  \/ (\E q \in Procs : ProcessDies(q))
  \/ Crash \/ Load

Spec == Init /\ [][Next]_vars

(* A task that has begun goes on, a spawned task begins, the garbage collector
   runs every five seconds, and the agent is started again after a crash. *)
Fairness ==
  /\ \A t \in Slots : WF_vars(Step(t))
  /\ WF_vars(\E t \in Slots : AutoRestart(t))
  /\ WF_vars(KillDoomed) /\ WF_vars(Collect) /\ WF_vars(Load)

FairSpec == Spec /\ Fairness

-----------------------------------------------------------------------------
(* Properties *)

(* Nothing is under way in the agent. *)
Quiet ==
  /\ up /\ gc = "idle" /\ ~restart /\ doomed = {}
  /\ \A t \in Slots : slot[t].at = "idle"

(* As long as commands and boots have not overlapped and the agent has not
   died, a VM at rest has the process in the table if it is running, and no
   process otherwise: however boots fail, processes die and the garbage
   collector comes in between.  Only resume_vm gives up a live process. *)
NoStrayProcess ==
  (Quiet /\ ~overlapped /\ crashes = 0)
    => alive \ abandoned \subseteq (IF vm = "running" THEN {proc} ELSE {})

(* When nothing is under way the state file has the VM's status, whatever
   operations have overlapped before: a restart finds it.  Except when the last
   save has failed or has overlapped another one: then an older copy may be in
   the file, or none, until a save that meets no other, as the garbage
   collector's next round may be. *)
SavedWhenQuiet == (Quiet /\ ~inDoubt) => disk.vm = vm

(* Unless the agent dies, a VM does not stay between two statuses, whatever
   commands overlap and whatever fails; only start_vm, when it refuses the
   kernel, leaves one starting with nobody at work on it. *)
Settles ==
  [](crashes = 0) => <>[](vm \notin {"starting", "stopping"} \/ (refused /\ vm = "starting"))

=============================================================================
