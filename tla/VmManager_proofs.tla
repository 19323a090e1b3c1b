--------------------------- MODULE VmManager_proofs ---------------------------
(***************************************************************************)
(* Proofs about the Firecracker manager and one microVM, for any number of *)
(* commands, tasks, processes, failures and crashes.                       *)
(*                                                                         *)
(* SavedWhenQuiet is inductive with the points of a task that are still    *)
(* followed by a save (Saving) and the copy that is on its way (Kept),     *)
(* whatever operations overlap.                                            *)
(* NoStrayProcess needs to know, at every point of the only task, where    *)
(* the live process of the VM may be: in the table, in the hands of the    *)
(* boot, or nowhere (Within).                                              *)
(***************************************************************************)
EXTENDS VmManager, TLAPS

(* The parts of TypeOK. *)
ProcessTypes ==
  vm \in Statuses /\ proc \in Procs \cup {NoProc} /\ alive \subseteq Procs /\ doomed \subseteq alive
DiskTypes == disk \in Record \cup {Torn} /\ copy \in [Savers -> Record \cup {NoCopy}]
TaskTypes == slot \in [Slots -> Local]
FlagTypes ==
  /\ gc \in {"idle", "decide", "save", "saveAndRestart", "write", "writeAndRestart"}
  /\ restart \in BOOLEAN /\ up \in BOOLEAN /\ started \in BOOLEAN
  /\ overlapped \in BOOLEAN /\ abandoned \subseteq Procs
  /\ inDoubt \in BOOLEAN /\ refused \in BOOLEAN
CountTypes ==
  commands \in 0 .. MaxCommands /\ faults \in 0 .. MaxFaults /\ crashes \in 0 .. MaxCrashes

(* Boots hold different processes, and no doomed one. *)
Apart ==
  /\ \A t \in Slots : slot[t].held \notin doomed
  /\ \A t, u \in Slots : slot[t].held = slot[u].held => t = u \/ slot[t].held = NoProc

(* A dead agent has forgotten its tables and its tasks. *)
Down ==
  ~up => /\ crashes # 0 /\ vm = "absent" /\ proc = NoProc
         /\ (\A t \in Slots : slot[t].at = "idle") /\ gc = "idle"

-----------------------------------------------------------------------------
(* SavedWhenQuiet *)

(* From these points every way leads to a save. *)
SavePoints == {"save", "spawn", "configure", "running", "track", "fail", "kill",
               "stopped", "remove", "paused", "giveUp", "forget"}
Saving ==
  (\E t \in Slots : slot[t].at \in SavePoints) \/ gc \in {"decide", "save", "saveAndRestart"}

(* A task has a copy from the one step of a save to the other. *)
Copies ==
  /\ \A t \in Slots : Holding(t) <=> slot[t].at = "write"
  /\ Holding(Collector) <=> gc \in {"write", "writeAndRestart"}

(* The status is in the only copy on its way, or else in the file. *)
OneSaves == \A p, q \in Savers : Holding(p) /\ Holding(q) => p = q
Kept ==
  \/ \E p \in Savers : Holding(p) /\ copy[p].vm = vm
  \/ (\A p \in Savers : ~Holding(p)) /\ disk.vm = vm

SavedInv == Down /\ Copies /\ (up /\ ~inDoubt => OneSaves /\ (Saving \/ Kept))

-----------------------------------------------------------------------------
(* NoStrayProcess *)

(* The live processes that somebody has to account for. *)
Live == alive \ (abandoned \cup doomed)

(* At rest the running VM has the process in the table. *)
Resting == Live \subseteq (IF vm = "running" THEN {proc} ELSE {})

(* Where the live process of the VM may be while task t is at its point. *)
Gone(t) ==
  \/ slot[t].at \in {"prepare", "spawn", "fail", "stopped", "orphan", "remove", "paused"}
  \/ slot[t].at \in {"save", "write"} /\ slot[t].then \in {"prepare", "orphan"}
Within(t) ==
  /\ Gone(t) => Live = {}
  /\ slot[t].at \in {"configure", "running", "track"} => Live \subseteq {slot[t].held}
  /\ slot[t].at \in {"kill", "giveUp", "forget"} => Live \subseteq {proc}
  /\ slot[t].at \in {"start", "look", "stop", "pause", "resume", "patch"} => Resting
  /\ slot[t].at \in {"save", "write"} =>
       Resting /\ slot[t].then \in {"idle", "prepare", "orphan", "look"}

(* Nobody else changes the status while a boot goes on. *)
Boots(t) ==
  /\ slot[t].at \in {"prepare", "spawn", "configure", "running"} => vm = "starting"
  /\ slot[t].at \in {"save", "write"} /\ slot[t].then = "prepare" => vm = "starting"
  /\ slot[t].at = "track" => vm = "running"

Alone == \A t, u \in Slots : slot[t].at # "idle" /\ slot[u].at # "idle" => t = u
HeldInv ==
  (~overlapped /\ crashes = 0) =>
    /\ Alone
    /\ \A t \in Slots : slot[t].at # "idle" => Within(t) /\ Boots(t)
    /\ (\A t \in Slots : slot[t].at = "idle") => Resting


-----------------------------------------------------------------------------
(* The types. *)
Types == ProcessTypes /\ DiskTypes /\ TaskTypes /\ FlagTypes /\ CountTypes /\ Apart

(* TypeOK follows from its parts. *)
LEMMA TypeParts == Types => TypeOK
BY DEF TypeOK, Types, ProcessTypes, DiskTypes, TaskTypes, FlagTypes, CountTypes, Apart

(* The initial state is well typed and satisfies the invariants. *)
LEMMA InitTypes == Init => Types
<1> SUFFICES ASSUME Init PROVE Types
  OBVIOUS
<1>1. ProcessTypes /\ DiskTypes /\ TaskTypes
  BY DEF Init, ProcessTypes, DiskTypes, TaskTypes, Statuses, Record, Nothing, Local, Points, Free
<1>2. FlagTypes
  BY DEF Init, FlagTypes
<1>3. CountTypes
  BY BoundsAssumption DEF Init, CountTypes
<1>4. Apart
  BY DEF Init, Apart, Free
<1> QED
  BY <1>1, <1>2, <1>3, <1>4 DEF Types

(* At first nothing is under way. *)
LEMMA InitRest == Init => SavedInv /\ HeldInv
BY DEF Init, SavedInv, Down, HeldInv, Alone, Resting, Live, Free, Copies, OneSaves, Kept, Holding,
   Savers, Nothing

(* A bounded counter that goes up stays within its bound. *)
LEMMA Counted ==
  ASSUME NEW n, NEW m \in Nat, n \in 0 .. m, n < m
  PROVE  n + 1 \in 0 .. m
OBVIOUS

(* Where nobody gets a process, boots still hold different ones. *)
Sheds == \A u \in Slots : slot'[u].held \in {slot[u].held, NoProc}

(* Processes stay apart when tasks only let go of them. *)
LEMMA ApartStays ==
  ASSUME ProcessTypes, Apart, Sheds, doomed' \subseteq doomed
  PROVE  Apart'
BY ProcsAssumption DEF ProcessTypes, Apart, Sheds

(* The ways a task goes on are well typed. *)
LEMMA TaskGoesOn ==
  ASSUME TaskTypes, NEW t \in Slots, NEW p \in Points,
         Goto(t, p) \/ (p # "write" /\ SaveThen(t, p)) \/ Finish(t)
  PROVE  TaskTypes' /\ Sheds
<1>1. Free \in Local /\ Free.held = NoProc
  BY DEF Free, Local, Points
<1>2. "save" \in Points
  BY DEF Points
<1>3. CASE Goto(t, p)
  BY <1>3 DEF TaskTypes, Goto, Local, Sheds
<1>4. CASE p # "write" /\ SaveThen(t, p)
  <2>1. TaskTypes'
    BY <1>4, <1>2 DEF TaskTypes, SaveThen, Local
  <2> QED
    BY <1>4, <2>1 DEF TaskTypes, SaveThen, Local, Sheds
<1>5. CASE Finish(t)
  BY <1>5, <1>1 DEF Finish, TaskTypes, Sheds
<1> QED
  BY <1>3, <1>4, <1>5

(* A boot takes a process or gives it away. *)
LEMMA BootHolds ==
  ASSUME TaskTypes, NEW t \in Slots, NEW p \in Points, NEW h \in Procs \cup {NoProc},
         slot' = [slot EXCEPT ![t].at = p, ![t].held = h]
  PROVE  TaskTypes'
BY DEF TaskTypes, Local

(* A boot that has ended is about to save, and holds nothing. *)
LEMMA BootGives ==
  ASSUME TaskTypes, NEW t \in Slots, slot' = [slot EXCEPT ![t] = [Free EXCEPT !.at = "save"]]
  PROVE  TaskTypes' /\ Sheds
<1>1. /\ [Free EXCEPT !.at = "save"] \in Local
      /\ [Free EXCEPT !.at = "save"].held = NoProc
  BY DEF Free, Local, Points
<1> QED
  BY <1>1 DEF TaskTypes, Sheds

(* A task begins. *)
LEMMA TaskBegins ==
  ASSUME TaskTypes, NEW t \in Slots, NEW p \in Points, NEW b \in BOOLEAN, Begin(t, p, b)
  PROVE  TaskTypes' /\ Sheds
<1>1. /\ [Free EXCEPT !.at = p, !.purge = b] \in Local
      /\ [Free EXCEPT !.at = p, !.purge = b].held = NoProc
  BY DEF Free, Local, Points
<1> QED
  BY <1>1 DEF Begin, TaskTypes, Sheds

(* A copy of the tables, and the file it is written to, are well typed. *)
LEMMA CopyTyped ==
  ASSUME ProcessTypes, DiskTypes, NEW p \in Savers, Copy(p), disk' = disk
  PROVE  DiskTypes'
BY DEF ProcessTypes, DiskTypes, Copy, Record

LEMMA WriteTyped ==
  ASSUME Types, NEW p \in Savers, Write(p), commands' = commands, crashes' = crashes,
         ~inDoubt => Holding(p)
  PROVE  DiskTypes' /\ CountTypes' /\ inDoubt' \in BOOLEAN
<1>1. copy' \in [Savers -> Record \cup {NoCopy}]
  BY DEF Write, Types, DiskTypes
<1>2. disk' \in Record \cup {Torn}
  BY DEF Write, Types, DiskTypes, Holding
<1>3. CountTypes'
  BY Counted, BoundsAssumption DEF Write, Fault, Types, CountTypes
<1>4. inDoubt' \in BOOLEAN
  BY DEF Write, Types, FlagTypes
<1> QED
  BY <1>1, <1>2, <1>3, <1>4 DEF DiskTypes

(* Every step keeps the types. *)
LEMMA TypesKept ==
  Types /\ SavedInv /\ [Next]_vars => Types'
<1> SUFFICES ASSUME Types, SavedInv, [Next]_vars PROVE Types'
  OBVIOUS
<1>1. ASSUME NEW t \in Slots, Command(t) PROVE Types'
  <2>1. ProcessTypes' /\ DiskTypes'
    BY <1>1 DEF Command, Begin, At, Free, tables, saves, Types, ProcessTypes, Statuses,
       DiskTypes, Record
  <2>2. TaskTypes'
    <3>1. PICK p \in Points, b \in BOOLEAN : Begin(t, p, b)
      BY <1>1 DEF Command, Points
    <3> QED
      BY <3>1, TaskBegins DEF Types
  <2>3. FlagTypes'
    BY <1>1 DEF Command, Begin, At, Free, tables, saves, Types, FlagTypes
  <2>4. CountTypes'
    BY <1>1, Counted, BoundsAssumption DEF Command, Types, CountTypes
  <2>5. Apart'
    <3>1. PICK p \in Points, b \in BOOLEAN : Begin(t, p, b)
      BY <1>1 DEF Command, Points
    <3>2. doomed' = doomed
      BY <1>1 DEF Command
    <3> QED
      BY <3>1, <3>2, TaskBegins, ApartStays DEF Types
  <2> QED
    BY <2>1, <2>2, <2>3, <2>4, <2>5 DEF Types
<1>2. ASSUME NEW t \in Slots, AutoRestart(t) PROVE Types'
  <2>1. ProcessTypes' /\ DiskTypes' /\ CountTypes'
    BY <1>2 DEF AutoRestart, Begin, At, Free, tables, saves, counters, Types, ProcessTypes,
       Statuses,
       DiskTypes, Record, CountTypes
  <2>2. TaskTypes'
    <3>1. "start" \in Points
      BY DEF Points
    <3> QED
      BY <1>2, <3>1, TaskBegins DEF AutoRestart, Types
  <2>3. FlagTypes'
    BY <1>2 DEF AutoRestart, Begin, At, Free, tables, saves, counters, Types, FlagTypes
  <2>4. Apart'
    <3>1. "start" \in Points
      BY DEF Points
    <3> QED
      BY <1>2, <3>1, TaskBegins, ApartStays DEF AutoRestart, Types
  <2> QED
    BY <2>1, <2>2, <2>3, <2>4 DEF Types
<1>3. ASSUME NEW t \in Slots, SaveCopy(t) PROVE Types'
  <2>1. ProcessTypes' /\ FlagTypes' /\ CountTypes'
    BY <1>3 DEF SaveCopy, Copy, tables, others, Types, ProcessTypes, FlagTypes, CountTypes
  <2>2. DiskTypes'
    BY <1>3, CopyTyped DEF SaveCopy, Types, Savers
  <2>3. TaskTypes' /\ Sheds
    <3>1. "write" \in Points
      BY DEF Points
    <3> QED
      BY <1>3, <3>1, TaskGoesOn DEF SaveCopy, Types
  <2>4. Apart'
    BY <1>3, <2>3, ApartStays DEF SaveCopy, Types
  <2> QED
    BY <2>1, <2>2, <2>3, <2>4 DEF Types
<1>31. ASSUME NEW t \in Slots, SaveWrite(t) PROVE Types'
  <2>1. ProcessTypes'
    BY <1>31 DEF SaveWrite, tables, Types, ProcessTypes
  <2>2. DiskTypes' /\ CountTypes' /\ inDoubt' \in BOOLEAN
    BY <1>31, WriteTyped DEF SaveWrite, At, others, Savers, SavedInv, Copies
  <2>3. FlagTypes'
    BY <1>31, <2>2 DEF SaveWrite, others, Types, FlagTypes
  <2>4. TaskTypes' /\ Sheds
    <3>1. slot[t].then \in Points
      BY DEF Types, TaskTypes, Local
    <3> QED
      BY <1>31, <3>1, TaskGoesOn DEF SaveWrite, Types
  <2>5. Apart'
    BY <1>31, <2>4, ApartStays DEF SaveWrite, Types
  <2> QED
    BY <2>1, <2>2, <2>3, <2>4, <2>5 DEF Types
<1>4. ASSUME NEW t \in Slots, Start(t) PROVE Types'
  <2>1. FlagTypes' /\ CountTypes'
    BY <1>4 DEF Start, At, Finish, Free, SaveThen, aside, others, saves, Types, FlagTypes,
       CountTypes
  <2>2. ProcessTypes'
    BY <1>4 DEF Start, At, Finish, Free, SaveThen, aside, others, saves, Types, ProcessTypes,
       DiskTypes,
       TaskTypes, Statuses, Record, Local
  <2>3. DiskTypes'
    BY <1>4 DEF Start, At, Finish, Free, SaveThen, aside, others, saves, Types, DiskTypes,
       ProcessTypes, Record,
       Statuses
  <2>4. TaskTypes'
    BY <1>4, TaskGoesOn DEF Start, Types, TaskTypes, Local, Points
  <2>5. Apart'
    BY <1>4, ApartStays, TaskGoesOn DEF Start, aside, others, saves, Types, Local, Points,
       TaskTypes
  <2> QED
    BY <2>1, <2>2, <2>3, <2>4, <2>5 DEF Types
<1>5. ASSUME NEW t \in Slots, Prepare(t) PROVE Types'
  <2>1. ProcessTypes' /\ DiskTypes'
    BY <1>5 DEF Prepare, tables, saves, Types, ProcessTypes, DiskTypes
  <2>5. FlagTypes'
    BY <1>5 DEF Prepare, others, saves, Types, FlagTypes
  <2>2. TaskTypes'
    BY <1>5, TaskGoesOn DEF Prepare, Types, TaskTypes, Local, Points
  <2>3. CountTypes'
    BY <1>5, Counted, BoundsAssumption DEF Prepare, Fault, others, Types, CountTypes
  <2>4. Apart'
    BY <1>5, ApartStays, TaskGoesOn DEF Prepare, aside, others, saves, Types, Local, Points,
       TaskTypes
  <2> QED
    BY <2>1, <2>2, <2>3, <2>4, <2>5 DEF Types
<1>6. ASSUME NEW t \in Slots, Spawn(t) PROVE Types'
  <2>1. DiskTypes' /\ FlagTypes'
    BY <1>6 DEF Spawn, At, Fresh, Fault, Goto, tables, aside, others, saves, Types, DiskTypes,
       Record, Statuses,
       FlagTypes
  <2>2. ProcessTypes'
    BY <1>6 DEF Spawn, At, Fresh, Fault, Goto, tables, aside, others, saves, Types, ProcessTypes,
       DiskTypes,
       TaskTypes, Statuses, Record, Local
  <2>3. TaskTypes'
    <3>1. "configure" \in Points /\ "fail" \in Points
      BY DEF Points
    <3>2. ASSUME Fresh # {}, slot' = [slot EXCEPT ![t].at = "configure",
                                                  ![t].held = CHOOSE q \in Fresh : TRUE]
          PROVE  TaskTypes'
      <4>1. (CHOOSE q \in Fresh : TRUE) \in Procs \cup {NoProc}
        BY <3>2 DEF Fresh
      <4> QED
        BY <3>1, <3>2, <4>1, BootHolds DEF Types
    <3> QED
      BY <1>6, <3>1, <3>2, TaskGoesOn DEF Spawn, Types
  <2>4. CountTypes'
    BY <1>6, Counted, BoundsAssumption DEF Spawn, Fault, aside, others, saves, Types, CountTypes
  <2>5. Apart'
    BY <1>6 DEF Spawn, At, Fresh, Fault, Goto, tables, aside, others, saves, Types, Apart,
       TaskTypes, Local,
       ProcessTypes
  <2> QED
    BY <2>1, <2>2, <2>3, <2>4, <2>5 DEF Types
<1>7. ASSUME NEW t \in Slots, Configure(t) PROVE Types'
  <2>1. DiskTypes' /\ FlagTypes'
    BY <1>7 DEF Configure, At, Goto, Fault, tables, aside, others, saves, Types, DiskTypes,
       Record, Statuses,
       FlagTypes
  <2>2. ProcessTypes'
    <3>1. vm' = vm /\ proc' = proc
      BY <1>7 DEF Configure, tables
    <3>2. alive' \subseteq Procs /\ doomed' \subseteq alive'
      BY <1>7 DEF Configure, Types, ProcessTypes, Apart, At
    <3> QED
      BY <3>1, <3>2 DEF Types, ProcessTypes
  <2>3. TaskTypes'
    <3>1. "running" \in Points /\ "fail" \in Points /\ "spawn" \in Points
      BY DEF Points
    <3> QED
      BY <1>7, <3>1, TaskGoesOn, BootHolds DEF Configure, Types
  <2>4. CountTypes'
    BY <1>7, Counted, BoundsAssumption DEF Configure, Fault, aside, others, saves, Types,
       CountTypes
  <2>5. Apart'
    <3>1. CASE Goto(t, "running") /\ doomed' = doomed
      BY <3>1, TaskGoesOn, ApartStays DEF Types, Points
    <3>2. ASSUME NEW p, slot' = [slot EXCEPT ![t].at = p, ![t].held = NoProc],
                 doomed' \subseteq doomed \cup {slot[t].held}
          PROVE  Apart'
      <4>1. /\ slot'[t].held = NoProc
            /\ \A u \in Slots : u # t => slot'[u].held = slot[u].held
        BY <3>2 DEF Types, TaskTypes, Local
      <4>2. NoProc \notin doomed'
        BY <1>7, ProcsAssumption DEF Configure, Types, ProcessTypes
      <4> QED
        BY <3>2, <4>1, <4>2 DEF Types, Apart
    <3>3. CASE Goto(t, "running") /\ UNCHANGED <<alive, doomed, faults>>
      BY <3>1, <3>3
    <3>4. CASE /\ doomed' = doomed \cup ({slot[t].held} \cap alive)
               /\ slot' = [slot EXCEPT ![t].at = "fail", ![t].held = NoProc]
      BY <3>2, <3>4
    <3>5. CASE /\ slot' = [slot EXCEPT ![t].at = "spawn", ![t].held = NoProc]
               /\ UNCHANGED doomed
      BY <3>2, <3>5
    <3> QED
      BY <1>7, <3>3, <3>4, <3>5 DEF Configure
  <2> QED
    BY <2>1, <2>2, <2>3, <2>4, <2>5 DEF Types
<1>8. ASSUME NEW t \in Slots, MarkRunning(t) PROVE Types'
  <2>1. FlagTypes' /\ CountTypes'
    BY <1>8 DEF MarkRunning, At, SetStatus, Goto, aside, others, saves, Types, FlagTypes,
       CountTypes
  <2>2. ProcessTypes'
    BY <1>8 DEF MarkRunning, At, SetStatus, Goto, aside, others, saves, Types, ProcessTypes,
       DiskTypes,
       TaskTypes, Statuses, Record, Local
  <2>3. DiskTypes'
    BY <1>8 DEF MarkRunning, At, SetStatus, Goto, aside, others, saves, Types, DiskTypes,
       ProcessTypes, Record,
       Statuses
  <2>4. TaskTypes'
    BY <1>8, TaskGoesOn DEF MarkRunning, Types, TaskTypes, Local, Points
  <2>5. Apart'
    BY <1>8, ApartStays, TaskGoesOn DEF MarkRunning, aside, others, saves, Types, Local, Points,
       TaskTypes
  <2> QED
    BY <2>1, <2>2, <2>3, <2>4, <2>5 DEF Types
<1>9. ASSUME NEW t \in Slots, Track(t) PROVE Types'
  <2>1. FlagTypes' /\ CountTypes'
    BY <1>9 DEF Track, At, Free, aside, others, saves, Types, FlagTypes, CountTypes
  <2>2. ProcessTypes'
    BY <1>9 DEF Track, At, Free, aside, others, saves, Types, ProcessTypes, DiskTypes, TaskTypes,
       Statuses,
       Record, Local
  <2>3. DiskTypes'
    BY <1>9 DEF Track, At, Free, aside, others, saves, Types, DiskTypes, ProcessTypes, Record,
       Statuses
  <2>4. TaskTypes'
    BY <1>9, BootGives DEF Track, Types
  <2>5. Apart'
    BY <1>9, BootGives, ApartStays DEF Track, Types
  <2> QED
    BY <2>1, <2>2, <2>3, <2>4, <2>5 DEF Types
<1>10. ASSUME NEW t \in Slots, SetFailed(t) PROVE Types'
  <2>1. FlagTypes' /\ CountTypes'
    BY <1>10 DEF SetFailed, At, SetStatus, SaveThen, aside, others, saves, Types, FlagTypes,
       CountTypes
  <2>2. ProcessTypes'
    BY <1>10 DEF SetFailed, At, SetStatus, SaveThen, aside, others, saves, Types, ProcessTypes,
       DiskTypes,
       TaskTypes, Statuses, Record, Local
  <2>3. DiskTypes'
    BY <1>10 DEF SetFailed, At, SetStatus, SaveThen, aside, others, saves, Types, DiskTypes,
       ProcessTypes,
       Record, Statuses
  <2>4. TaskTypes'
    BY <1>10, TaskGoesOn DEF SetFailed, Types, TaskTypes, Local, Points
  <2>5. Apart'
    BY <1>10, ApartStays, TaskGoesOn DEF SetFailed, aside, others, saves, Types, Local, Points,
       TaskTypes
  <2> QED
    BY <2>1, <2>2, <2>3, <2>4, <2>5 DEF Types
<1>11. ASSUME NEW t \in Slots, MarkStopping(t) PROVE Types'
  <2>1. FlagTypes' /\ CountTypes'
    BY <1>11 DEF MarkStopping, At, Goto, Finish, Free, aside, others, saves, Types, FlagTypes,
       CountTypes
  <2>2. ProcessTypes'
    BY <1>11 DEF MarkStopping, At, Goto, Finish, Free, aside, others, saves, Types, ProcessTypes,
       DiskTypes,
       TaskTypes, Statuses, Record, Local
  <2>3. DiskTypes'
    BY <1>11 DEF MarkStopping, At, Goto, Finish, Free, aside, others, saves, Types, DiskTypes,
       ProcessTypes,
       Record, Statuses
  <2>4. TaskTypes'
    BY <1>11, TaskGoesOn DEF MarkStopping, Types, TaskTypes, Local, Points
  <2>5. Apart'
    BY <1>11, ApartStays, TaskGoesOn DEF MarkStopping, aside, others, saves, Types, Local,
       Points, TaskTypes
  <2> QED
    BY <2>1, <2>2, <2>3, <2>4, <2>5 DEF Types
<1>12. ASSUME NEW t \in Slots, KillTracked(t) PROVE Types'
  <2>1. FlagTypes' /\ CountTypes'
    BY <1>12 DEF KillTracked, At, Goto, aside, others, saves, Types, FlagTypes, CountTypes
  <2>2. ProcessTypes'
    BY <1>12 DEF KillTracked, At, Goto, aside, others, saves, Types, ProcessTypes, DiskTypes,
       TaskTypes,
       Statuses, Record, Local
  <2>3. DiskTypes'
    BY <1>12 DEF KillTracked, At, Goto, aside, others, saves, Types, DiskTypes, ProcessTypes,
       Record, Statuses
  <2>4. TaskTypes'
    BY <1>12, TaskGoesOn DEF KillTracked, Types, TaskTypes, Local, Points
  <2>5. Apart'
    BY <1>12, ApartStays, TaskGoesOn DEF KillTracked, aside, others, saves, Types, Local, Points,
       TaskTypes
  <2> QED
    BY <2>1, <2>2, <2>3, <2>4, <2>5 DEF Types
<1>13. ASSUME NEW t \in Slots, MarkStopped(t) PROVE Types'
  <2>1. FlagTypes' /\ CountTypes'
    BY <1>13 DEF MarkStopped, At, SetStatus, SaveThen, aside, others, saves, Types, FlagTypes,
       CountTypes
  <2>2. ProcessTypes'
    BY <1>13 DEF MarkStopped, At, SetStatus, SaveThen, aside, others, saves, Types, ProcessTypes,
       DiskTypes,
       TaskTypes, Statuses, Record, Local
  <2>3. DiskTypes'
    BY <1>13 DEF MarkStopped, At, SetStatus, SaveThen, aside, others, saves, Types, DiskTypes,
       ProcessTypes,
       Record, Statuses
  <2>4. TaskTypes'
    BY <1>13, TaskGoesOn DEF MarkStopped, Types, TaskTypes, Local, Points
  <2>5. Apart'
    BY <1>13, ApartStays, TaskGoesOn DEF MarkStopped, aside, others, saves, Types, Local, Points,
       TaskTypes
  <2> QED
    BY <2>1, <2>2, <2>3, <2>4, <2>5 DEF Types
<1>14. ASSUME NEW t \in Slots, StopOrphan(t) PROVE Types'
  <2>1. DiskTypes' /\ FlagTypes' /\ CountTypes'
    BY <1>14 DEF StopOrphan, At, Goto, tables, aside, others, saves, Types, DiskTypes, Record,
       Statuses,
       FlagTypes, CountTypes
  <2>2. ProcessTypes'
    BY <1>14 DEF StopOrphan, At, Goto, tables, aside, others, saves, Types, ProcessTypes,
       DiskTypes, TaskTypes,
       Statuses, Record, Local
  <2>3. TaskTypes'
    BY <1>14, TaskGoesOn DEF StopOrphan, Types, TaskTypes, Local, Points
  <2>4. Apart'
    BY <1>14, ApartStays, TaskGoesOn DEF StopOrphan, aside, others, saves, Types, Local, Points,
       TaskTypes
  <2> QED
    BY <2>1, <2>2, <2>3, <2>4 DEF Types
<1>15. ASSUME NEW t \in Slots, RemoveEntry(t) PROVE Types'
  <2>1. FlagTypes' /\ CountTypes'
    BY <1>15 DEF RemoveEntry, At, SaveThen, aside, others, saves, Types, FlagTypes, CountTypes
  <2>2. ProcessTypes'
    BY <1>15 DEF RemoveEntry, At, SaveThen, aside, others, saves, Types, ProcessTypes, DiskTypes,
       TaskTypes,
       Statuses, Record, Local
  <2>3. DiskTypes'
    BY <1>15 DEF RemoveEntry, At, SaveThen, aside, others, saves, Types, DiskTypes, ProcessTypes,
       Record,
       Statuses
  <2>4. TaskTypes'
    BY <1>15, TaskGoesOn DEF RemoveEntry, Types, TaskTypes, Local, Points
  <2>5. Apart'
    BY <1>15, ApartStays, TaskGoesOn DEF RemoveEntry, aside, others, saves, Types, Local, Points,
       TaskTypes
  <2> QED
    BY <2>1, <2>2, <2>3, <2>4, <2>5 DEF Types
<1>16. ASSUME NEW t \in Slots, Pause(t) PROVE Types'
  <2>1. FlagTypes'
    BY <1>16 DEF Pause, At, Goto, Fault, Finish, Free, aside, others, saves, Types, FlagTypes
  <2>2. ProcessTypes'
    BY <1>16 DEF Pause, At, Goto, Fault, Finish, Free, aside, others, saves, Types, ProcessTypes,
       DiskTypes,
       TaskTypes, Statuses, Record, Local
  <2>3. DiskTypes'
    BY <1>16 DEF Pause, At, Goto, Fault, Finish, Free, aside, others, saves, Types, DiskTypes,
       ProcessTypes,
       Record, Statuses
  <2>4. TaskTypes'
    BY <1>16, TaskGoesOn DEF Pause, Types, TaskTypes, Local, Points
  <2>5. CountTypes'
    BY <1>16, Counted, BoundsAssumption DEF Pause, Fault, aside, others, saves, Types, CountTypes
  <2>6. Apart'
    BY <1>16, ApartStays, TaskGoesOn DEF Pause, aside, others, saves, Types, Local, Points,
       TaskTypes
  <2> QED
    BY <2>1, <2>2, <2>3, <2>4, <2>5, <2>6 DEF Types
<1>17. ASSUME NEW t \in Slots, MarkPaused(t) PROVE Types'
  <2>1. FlagTypes' /\ CountTypes'
    BY <1>17 DEF MarkPaused, At, SetStatus, SaveThen, aside, others, saves, Types, FlagTypes,
       CountTypes
  <2>2. ProcessTypes'
    BY <1>17 DEF MarkPaused, At, SetStatus, SaveThen, aside, others, saves, Types, ProcessTypes,
       DiskTypes,
       TaskTypes, Statuses, Record, Local
  <2>3. DiskTypes'
    BY <1>17 DEF MarkPaused, At, SetStatus, SaveThen, aside, others, saves, Types, DiskTypes,
       ProcessTypes,
       Record, Statuses
  <2>4. TaskTypes'
    BY <1>17, TaskGoesOn DEF MarkPaused, Types, TaskTypes, Local, Points
  <2>5. Apart'
    BY <1>17, ApartStays, TaskGoesOn DEF MarkPaused, aside, others, saves, Types, Local, Points,
       TaskTypes
  <2> QED
    BY <2>1, <2>2, <2>3, <2>4, <2>5 DEF Types
<1>18. ASSUME NEW t \in Slots, Resume(t) PROVE Types'
  <2>1. FlagTypes' /\ CountTypes'
    BY <1>18 DEF Resume, At, SetStatus, SaveThen, Goto, aside, others, saves, Types, FlagTypes,
       CountTypes
  <2>2. ProcessTypes'
    BY <1>18 DEF Resume, At, SetStatus, SaveThen, Goto, aside, others, saves, Types,
       ProcessTypes, DiskTypes,
       TaskTypes, Statuses, Record, Local
  <2>3. DiskTypes'
    BY <1>18 DEF Resume, At, SetStatus, SaveThen, Goto, aside, others, saves, Types, DiskTypes,
       ProcessTypes,
       Record, Statuses
  <2>4. TaskTypes'
    BY <1>18, TaskGoesOn DEF Resume, Types, TaskTypes, Local, Points
  <2>5. Apart'
    BY <1>18, ApartStays, TaskGoesOn DEF Resume, aside, others, saves, Types, Local, Points,
       TaskTypes
  <2> QED
    BY <2>1, <2>2, <2>3, <2>4, <2>5 DEF Types
<1>19. ASSUME NEW t \in Slots, ResumeInPlace(t) PROVE Types'
  <2>1. FlagTypes'
    BY <1>19 DEF ResumeInPlace, At, SetStatus, SaveThen, Fault, Goto, aside, others, saves,
       Types, FlagTypes
  <2>2. ProcessTypes'
    BY <1>19 DEF ResumeInPlace, At, SetStatus, SaveThen, Fault, Goto, aside, others, saves,
       Types, ProcessTypes,
       DiskTypes, TaskTypes, Statuses, Record, Local
  <2>3. DiskTypes'
    BY <1>19 DEF ResumeInPlace, At, SetStatus, SaveThen, Fault, Goto, aside, others, saves,
       Types, DiskTypes,
       ProcessTypes, Record, Statuses
  <2>4. TaskTypes'
    BY <1>19, TaskGoesOn DEF ResumeInPlace, Types, TaskTypes, Local, Points
  <2>5. CountTypes'
    BY <1>19, Counted, BoundsAssumption DEF ResumeInPlace, Fault, aside, others, saves, Types,
       CountTypes
  <2>6. Apart'
    BY <1>19, ApartStays, TaskGoesOn DEF ResumeInPlace, aside, others, saves, Types, Local,
       Points, TaskTypes
  <2> QED
    BY <2>1, <2>2, <2>3, <2>4, <2>5, <2>6 DEF Types
<1>20. ASSUME NEW t \in Slots, GiveUp(t) PROVE Types'
  <2>1. FlagTypes' /\ CountTypes'
    BY <1>20 DEF GiveUp, At, SetStatus, Goto, aside, others, saves, Types, FlagTypes, CountTypes
  <2>2. ProcessTypes'
    BY <1>20 DEF GiveUp, At, SetStatus, Goto, aside, others, saves, Types, ProcessTypes,
       DiskTypes, TaskTypes,
       Statuses, Record, Local
  <2>3. DiskTypes'
    BY <1>20 DEF GiveUp, At, SetStatus, Goto, aside, others, saves, Types, DiskTypes,
       ProcessTypes, Record,
       Statuses
  <2>4. TaskTypes'
    BY <1>20, TaskGoesOn DEF GiveUp, Types, TaskTypes, Local, Points
  <2>5. Apart'
    BY <1>20, ApartStays, TaskGoesOn DEF GiveUp, aside, others, saves, Types, Local, Points,
       TaskTypes
  <2> QED
    BY <2>1, <2>2, <2>3, <2>4, <2>5 DEF Types
<1>21. ASSUME NEW t \in Slots, Forget(t) PROVE Types'
  <2>1. CountTypes'
    BY <1>21 DEF Forget, At, SaveThen, saves, Types, CountTypes
  <2>2. ProcessTypes'
    BY <1>21 DEF Forget, At, SaveThen, saves, Types, ProcessTypes, DiskTypes, TaskTypes, Statuses,
       Record, Local
  <2>3. DiskTypes'
    BY <1>21 DEF Forget, At, SaveThen, saves, Types, DiskTypes, ProcessTypes, Record, Statuses
  <2>4. TaskTypes'
    BY <1>21, TaskGoesOn DEF Forget, Types, TaskTypes, Local, Points
  <2>5. FlagTypes'
    <3>1. abandoned' \subseteq Procs
      BY <1>21 DEF Forget, Types, ProcessTypes, FlagTypes
    <3> QED
      BY <1>21, <3>1 DEF Forget, saves, Types, FlagTypes
  <2>6. Apart'
    BY <1>21, ApartStays, TaskGoesOn DEF Forget, Types, Local, Points, TaskTypes
  <2> QED
    BY <2>1, <2>2, <2>3, <2>4, <2>5, <2>6 DEF Types
<1>22. ASSUME NEW t \in Slots, LookUp(t) PROVE Types'
  <2>1. ProcessTypes' /\ DiskTypes' /\ FlagTypes' /\ CountTypes'
    BY <1>22 DEF LookUp, At, Finish, Free, Goto, tables, aside, others, saves, Types,
       ProcessTypes, Statuses,
       DiskTypes, Record, FlagTypes, CountTypes
  <2>2. TaskTypes'
    BY <1>22, TaskGoesOn DEF LookUp, Types, TaskTypes, Local, Points
  <2>3. Apart'
    BY <1>22, ApartStays, TaskGoesOn DEF LookUp, aside, others, saves, Types, Local, Points,
       TaskTypes
  <2> QED
    BY <2>1, <2>2, <2>3 DEF Types
<1>23. CASE KillDoomed
  <2>1. DiskTypes' /\ TaskTypes' /\ FlagTypes' /\ CountTypes'
    BY <1>23 DEF KillDoomed, tables, aside, others, saves, Types, DiskTypes, Record, Statuses,
       TaskTypes, Local,
       Points, FlagTypes, CountTypes
  <2>2. ProcessTypes'
    BY <1>23 DEF KillDoomed, tables, aside, others, saves, Types, ProcessTypes, DiskTypes,
       TaskTypes, Statuses,
       Record, Local
  <2>3. Apart'
    BY <1>23 DEF KillDoomed, tables, aside, others, saves, Types, Apart, TaskTypes, Local,
       ProcessTypes
  <2> QED
    BY <2>1, <2>2, <2>3 DEF Types
<1>24. CASE CollectExited
  <2>1. TaskTypes' /\ CountTypes' /\ Apart'
    BY <1>24 DEF CollectExited, counters, saves, Types, TaskTypes, Local, Points, CountTypes, Apart
  <2>2. ProcessTypes'
    BY <1>24 DEF CollectExited, counters, saves, Types, ProcessTypes, DiskTypes, TaskTypes,
       Statuses,
       Record, Local
  <2>3. DiskTypes'
    BY <1>24 DEF CollectExited, counters, saves, Types, DiskTypes, ProcessTypes, Record, Statuses
  <2>4. FlagTypes'
    BY <1>24 DEF CollectExited, counters, saves, Types, FlagTypes
  <2> QED
    BY <2>1, <2>2, <2>3, <2>4 DEF Types
<1>25. CASE Decide
  <2>1. TaskTypes' /\ CountTypes' /\ Apart'
    BY <1>25 DEF Decide, counters, saves, Types, TaskTypes, Local, Points, CountTypes, Apart
  <2>2. ProcessTypes'
    BY <1>25 DEF Decide, counters, saves, Types, ProcessTypes, DiskTypes, TaskTypes, Statuses,
       Record,
       Local
  <2>3. DiskTypes'
    BY <1>25 DEF Decide, counters, saves, Types, DiskTypes, ProcessTypes, Record, Statuses
  <2>4. FlagTypes'
    BY <1>25 DEF Decide, counters, saves, Types, FlagTypes
  <2> QED
    BY <2>1, <2>2, <2>3, <2>4 DEF Types
<1>26. CASE CopyCollected
  <2>1. ProcessTypes' /\ TaskTypes' /\ CountTypes' /\ Apart' /\ FlagTypes'
    BY <1>26 DEF CopyCollected, Copy, tables, counters, Types, ProcessTypes, TaskTypes, CountTypes,
       Apart, FlagTypes
  <2>2. DiskTypes'
    BY <1>26, CopyTyped DEF CopyCollected, Types, Savers
  <2> QED
    BY <2>1, <2>2 DEF Types
<1>32. CASE WriteCollected
  <2>1. ProcessTypes' /\ TaskTypes' /\ Apart'
    BY <1>32 DEF WriteCollected, tables, Types, ProcessTypes, TaskTypes, Apart
  <2>2. DiskTypes' /\ CountTypes' /\ inDoubt' \in BOOLEAN
    BY <1>32, WriteTyped DEF WriteCollected, Savers, SavedInv, Copies
  <2>3. FlagTypes'
    BY <1>32, <2>2 DEF WriteCollected, Types, FlagTypes
  <2> QED
    BY <2>1, <2>2, <2>3 DEF Types
<1>27. ASSUME NEW q \in Procs, ProcessDies(q) PROVE Types'
  <2>1. DiskTypes' /\ TaskTypes' /\ FlagTypes'
    BY <1>27 DEF ProcessDies, Fault, tables, aside, others, saves, Types, DiskTypes, Record,
       Statuses, TaskTypes,
       Local, Points, FlagTypes
  <2>2. ProcessTypes'
    BY <1>27 DEF ProcessDies, Fault, tables, aside, others, saves, Types, ProcessTypes,
       DiskTypes, TaskTypes,
       Statuses, Record, Local
  <2>3. CountTypes'
    BY <1>27, Counted, BoundsAssumption DEF ProcessDies, Fault, aside, others, saves, Types,
       CountTypes
  <2>4. Apart'
    BY <1>27 DEF ProcessDies, Fault, tables, aside, others, saves, Types, Apart, TaskTypes,
       Local, ProcessTypes
  <2> QED
    BY <2>1, <2>2, <2>3, <2>4 DEF Types
<1>28. CASE Crash
  <2>1. ProcessTypes'
    BY <1>28 DEF Crash, Free, Types, ProcessTypes, DiskTypes, TaskTypes, Statuses, Record, Local
  <2>2. DiskTypes'
    BY <1>28 DEF Crash, Free, Types, DiskTypes, ProcessTypes, Record, Statuses
  <2>3. TaskTypes'
    BY <1>28 DEF Crash, Free, Types, TaskTypes, Local, Points
  <2>4. FlagTypes'
    BY <1>28 DEF Crash, Free, Types, FlagTypes
  <2>5. CountTypes'
    BY <1>28, Counted, BoundsAssumption DEF Crash, Types, CountTypes
  <2>6. Apart'
    BY <1>28 DEF Crash, Free, Types, Apart, TaskTypes, Local, ProcessTypes
  <2> QED
    BY <2>1, <2>2, <2>3, <2>4, <2>5, <2>6 DEF Types
<1>29. CASE Load
  <2>1. TaskTypes' /\ Apart'
    BY <1>29 DEF Load, Types, TaskTypes, Apart
  <2>2. ProcessTypes'
    BY <1>29 DEF Load, tables, Types, ProcessTypes, DiskTypes, Torn, Statuses, Record
  <2>3. DiskTypes'
    BY <1>29 DEF Load, Nothing, Types, DiskTypes, Record, Statuses
  <2>4. FlagTypes'
    BY <1>29 DEF Load, Types, FlagTypes
  <2>5. CountTypes'
    BY <1>29, Counted, BoundsAssumption DEF Load, Fault, Types, CountTypes
  <2> QED
    BY <2>1, <2>2, <2>3, <2>4, <2>5 DEF Types
<1>30. CASE UNCHANGED vars
  BY <1>30 DEF vars, tables, counters, saves, Types, ProcessTypes, Statuses, DiskTypes, Record,
     TaskTypes, Local, Points, FlagTypes, CountTypes, Apart
<1> QED
  BY <1>1, <1>2, <1>3, <1>4, <1>5, <1>6, <1>7, <1>8, <1>9, <1>10, <1>11, <1>12, <1>13, <1>14,
     <1>15, <1>16, <1>17, <1>18, <1>19, <1>20, <1>21, <1>22, <1>23, <1>24, <1>25, <1>26, <1>27,
     <1>28, <1>29, <1>30, <1>31, <1>32 DEF Next, Step, Collect

(* A step of task t in which nothing is copied or written: it ends at a point from
   which the task saves, or changes nothing that has to be saved. *)
LEMMA TaskKeeps ==
  ASSUME SavedInv, NEW t \in Slots, up, up' = up, copy' = copy, inDoubt' = inDoubt, gc' = gc,
         slot[t].at # "write", slot'[t].at # "write",
         \A u \in Slots : u # t => slot'[u] = slot[u],
         \/ slot'[t].at \in SavePoints
         \/ slot[t].at \notin SavePoints /\ vm' = vm /\ disk' = disk
  PROVE  SavedInv'
<1>1. Down' /\ Copies'
  BY DEF SavedInv, Down, Copies, Holding
<1>2. Saving => Saving'
  BY DEF Saving
<1>3. slot'[t].at \in SavePoints => Saving'
  BY DEF Saving
<1>4. vm' = vm /\ disk' = disk /\ Kept => Kept'
  BY DEF Kept, Holding
<1>5. OneSaves => OneSaves'
  BY DEF OneSaves, Holding
<1> QED
  BY <1>1, <1>2, <1>3, <1>4, <1>5 DEF SavedInv

(* A copy is the newest one; it is the only one, or there is doubt. *)
LEMMA CopyKeeps ==
  ASSUME Types, NEW p \in Savers, Copy(p), vm' = vm, ~inDoubt'
  PROVE  OneSaves' /\ Kept'
<1>1. copy'[p].vm = vm /\ \A q \in Savers : q # p => copy'[q] = NoCopy
  BY DEF Copy, Holding, Types, DiskTypes
<1>2. copy'[p] # NoCopy
  BY <1>1 DEF NoCopy, Types, ProcessTypes, Statuses
<1> QED
  BY <1>1, <1>2 DEF OneSaves, Kept, Holding

(* The only copy on its way is written. *)
LEMMA WriteKeeps ==
  ASSUME Types, NEW p \in Savers, Write(p), Holding(p), vm' = vm, OneSaves, Kept, ~inDoubt'
  PROVE  OneSaves' /\ Kept'
<1>1. ~inDoubt /\ disk' = copy[p] /\ copy' = [copy EXCEPT ![p] = NoCopy]
  BY DEF Write
<1>2. copy[p].vm = vm /\ \A q \in Savers : q # p => ~Holding(q)
  BY DEF Kept, OneSaves
<1>3. \A q \in Savers : copy'[q] = NoCopy
  BY <1>1, <1>2 DEF Holding, Types, DiskTypes
<1> QED
  BY <1>1, <1>2, <1>3 DEF OneSaves, Kept, Holding

(* Copying and writing change who holds a copy. *)
LEMMA CopyHolds ==
  ASSUME Types, NEW p \in Savers, Copy(p)
  PROVE  Holding(p)' /\ \A q \in Savers : q # p => Holding(q)' = Holding(q)
BY DEF Copy, Holding, NoCopy, Types, DiskTypes, ProcessTypes, Statuses

LEMMA WriteHolds ==
  ASSUME Types, NEW p \in Savers, Write(p)
  PROVE  ~Holding(p)' /\ \A q \in Savers : q # p => Holding(q)' = Holding(q)
BY DEF Write, Holding, Types, DiskTypes

(* Every step keeps the invariant of the state file. *)
LEMMA SavedKept ==
  Types /\ SavedInv /\ [Next]_vars => SavedInv'
<1> SUFFICES ASSUME Types, SavedInv, [Next]_vars PROVE SavedInv'
  OBVIOUS
<1>1. ASSUME NEW t \in Slots, Command(t) PROVE SavedInv'
  <2>1. /\ up /\ up' = up /\ copy' = copy /\ inDoubt' = inDoubt /\ gc' = gc
        /\ slot[t].at # "write" /\ slot'[t].at # "write"
        /\ \A u \in Slots : u # t => slot'[u] = slot[u]
    BY <1>1 DEF Command, Begin, At, Free, tables, saves, Types, TaskTypes, Local, SavePoints
  <2>2. slot'[t].at \in SavePoints \/ (slot[t].at \notin SavePoints /\ vm' = vm /\ disk' = disk)
    BY <1>1 DEF Command, Begin, At, Free, tables, saves, Types, TaskTypes, Local, SavePoints
  <2> QED
    BY <2>1, <2>2, TaskKeeps
<1>2. ASSUME NEW t \in Slots, AutoRestart(t) PROVE SavedInv'
  <2>1. /\ up /\ up' = up /\ copy' = copy /\ inDoubt' = inDoubt /\ gc' = gc
        /\ slot[t].at # "write" /\ slot'[t].at # "write"
        /\ \A u \in Slots : u # t => slot'[u] = slot[u]
    BY <1>2 DEF AutoRestart, Begin, At, Free, tables, saves, counters, Types, TaskTypes, Local,
       SavePoints
  <2>2. slot'[t].at \in SavePoints \/ (slot[t].at \notin SavePoints /\ vm' = vm /\ disk' = disk)
    BY <1>2 DEF AutoRestart, Begin, At, Free, tables, saves, counters, Types, TaskTypes, Local,
       SavePoints
  <2> QED
    BY <2>1, <2>2, TaskKeeps
<1>3. ASSUME NEW t \in Slots, SaveCopy(t) PROVE SavedInv'
  <2>1. /\ t \in Savers /\ t # Collector /\ up /\ up' = up /\ gc' = gc /\ vm' = vm /\ Copy(t)
        /\ slot'[t].at = "write" /\ \A u \in Slots : u # t => slot'[u] = slot[u]
    BY <1>3, CollectorAssumption DEF SaveCopy, At, Goto, others, tables, Savers, Types, TaskTypes,
       Local
  <2>2. Copies'
    BY <2>1, CopyHolds DEF SavedInv, Copies, Savers
  <2> QED
    BY <2>1, <2>2, CopyKeeps DEF SavedInv, Down
<1>31. ASSUME NEW t \in Slots, SaveWrite(t) PROVE SavedInv'
  <2>1. /\ t \in Savers /\ t # Collector /\ up /\ up' = up /\ gc' = gc /\ vm' = vm /\ Write(t)
        /\ slot[t].at = "write" /\ slot'[t].at # "write"
        /\ \A u \in Slots : u # t => slot'[u] = slot[u]
    BY <1>31, CollectorAssumption DEF SaveWrite, At, Goto, Finish, Free, others, tables, Savers,
       Types, TaskTypes, Local
  <2>2. Copies' /\ Holding(t)
    BY <2>1, WriteHolds DEF SavedInv, Copies, Savers
  <2>3. Saving => Saving'
    BY <2>1 DEF Saving, SavePoints
  <2>4. ~inDoubt' => ~inDoubt
    BY <2>1 DEF Write
  <2>5. OneSaves => OneSaves'
    BY <2>1, WriteHolds DEF OneSaves
  <2> QED
    BY <2>1, <2>2, <2>3, <2>4, <2>5, WriteKeeps DEF SavedInv, Down
<1>4. ASSUME NEW t \in Slots, Start(t) PROVE SavedInv'
  <2>1. /\ up /\ up' = up /\ copy' = copy /\ inDoubt' = inDoubt /\ gc' = gc
        /\ slot[t].at # "write" /\ slot'[t].at # "write"
        /\ \A u \in Slots : u # t => slot'[u] = slot[u]
    BY <1>4 DEF Start, At, Finish, Free, SaveThen, aside, others, saves, Types, TaskTypes, Local,
       SavePoints
  <2>2. slot'[t].at \in SavePoints \/ (slot[t].at \notin SavePoints /\ vm' = vm /\ disk' = disk)
    BY <1>4 DEF Start, At, Finish, Free, SaveThen, aside, others, saves, Types, TaskTypes, Local,
       SavePoints
  <2> QED
    BY <2>1, <2>2, TaskKeeps
<1>5. ASSUME NEW t \in Slots, Prepare(t) PROVE SavedInv'
  <2>1. /\ up /\ up' = up /\ copy' = copy /\ inDoubt' = inDoubt /\ gc' = gc
        /\ slot[t].at # "write" /\ slot'[t].at # "write"
        /\ \A u \in Slots : u # t => slot'[u] = slot[u]
    BY <1>5 DEF Prepare, At, Goto, Finish, Free, Fault, tables, aside, others, saves, Types,
       TaskTypes, Local,
       SavePoints
  <2>2. slot'[t].at \in SavePoints \/ (slot[t].at \notin SavePoints /\ vm' = vm /\ disk' = disk)
    BY <1>5 DEF Prepare, At, Goto, Finish, Free, Fault, tables, aside, others, saves, Types,
       TaskTypes, Local,
       SavePoints
  <2> QED
    BY <2>1, <2>2, TaskKeeps
<1>6. ASSUME NEW t \in Slots, Spawn(t) PROVE SavedInv'
  <2>1. /\ up /\ up' = up /\ copy' = copy /\ inDoubt' = inDoubt /\ gc' = gc
        /\ slot[t].at # "write" /\ slot'[t].at # "write"
        /\ \A u \in Slots : u # t => slot'[u] = slot[u]
    BY <1>6 DEF Spawn, At, Fault, Goto, tables, aside, others, saves, Types, TaskTypes, Local,
       SavePoints
  <2>2. slot'[t].at \in SavePoints \/ (slot[t].at \notin SavePoints /\ vm' = vm /\ disk' = disk)
    BY <1>6 DEF Spawn, At, Fault, Goto, tables, aside, others, saves, Types, TaskTypes, Local,
       SavePoints
  <2> QED
    BY <2>1, <2>2, TaskKeeps
<1>7. ASSUME NEW t \in Slots, Configure(t) PROVE SavedInv'
  <2>1. /\ up /\ up' = up /\ copy' = copy /\ inDoubt' = inDoubt /\ gc' = gc
        /\ slot[t].at # "write" /\ slot'[t].at # "write"
        /\ \A u \in Slots : u # t => slot'[u] = slot[u]
    BY <1>7 DEF Configure, At, Goto, Fault, tables, aside, others, saves, Types, TaskTypes, Local,
       SavePoints
  <2>2. slot'[t].at \in SavePoints \/ (slot[t].at \notin SavePoints /\ vm' = vm /\ disk' = disk)
    BY <1>7 DEF Configure, At, Goto, Fault, tables, aside, others, saves, Types, TaskTypes, Local,
       SavePoints
  <2> QED
    BY <2>1, <2>2, TaskKeeps
<1>8. ASSUME NEW t \in Slots, MarkRunning(t) PROVE SavedInv'
  <2>1. /\ up /\ up' = up /\ copy' = copy /\ inDoubt' = inDoubt /\ gc' = gc
        /\ slot[t].at # "write" /\ slot'[t].at # "write"
        /\ \A u \in Slots : u # t => slot'[u] = slot[u]
    BY <1>8 DEF MarkRunning, At, SetStatus, Goto, aside, others, saves, Types, TaskTypes, Local,
       SavePoints
  <2>2. slot'[t].at \in SavePoints \/ (slot[t].at \notin SavePoints /\ vm' = vm /\ disk' = disk)
    BY <1>8 DEF MarkRunning, At, SetStatus, Goto, aside, others, saves, Types, TaskTypes, Local,
       SavePoints
  <2> QED
    BY <2>1, <2>2, TaskKeeps
<1>9. ASSUME NEW t \in Slots, Track(t) PROVE SavedInv'
  <2>1. /\ up /\ up' = up /\ copy' = copy /\ inDoubt' = inDoubt /\ gc' = gc
        /\ slot[t].at # "write" /\ slot'[t].at # "write"
        /\ \A u \in Slots : u # t => slot'[u] = slot[u]
    BY <1>9 DEF Track, At, Free, aside, others, saves, Types, TaskTypes, Local, SavePoints
  <2>2. slot'[t].at \in SavePoints \/ (slot[t].at \notin SavePoints /\ vm' = vm /\ disk' = disk)
    BY <1>9 DEF Track, At, Free, aside, others, saves, Types, TaskTypes, Local, SavePoints
  <2> QED
    BY <2>1, <2>2, TaskKeeps
<1>10. ASSUME NEW t \in Slots, SetFailed(t) PROVE SavedInv'
  <2>1. /\ up /\ up' = up /\ copy' = copy /\ inDoubt' = inDoubt /\ gc' = gc
        /\ slot[t].at # "write" /\ slot'[t].at # "write"
        /\ \A u \in Slots : u # t => slot'[u] = slot[u]
    BY <1>10 DEF SetFailed, At, SetStatus, SaveThen, aside, others, saves, Types, TaskTypes, Local,
       SavePoints
  <2>2. slot'[t].at \in SavePoints \/ (slot[t].at \notin SavePoints /\ vm' = vm /\ disk' = disk)
    BY <1>10 DEF SetFailed, At, SetStatus, SaveThen, aside, others, saves, Types, TaskTypes, Local,
       SavePoints
  <2> QED
    BY <2>1, <2>2, TaskKeeps
<1>11. ASSUME NEW t \in Slots, MarkStopping(t) PROVE SavedInv'
  <2>1. /\ up /\ up' = up /\ copy' = copy /\ inDoubt' = inDoubt /\ gc' = gc
        /\ slot[t].at # "write" /\ slot'[t].at # "write"
        /\ \A u \in Slots : u # t => slot'[u] = slot[u]
    BY <1>11 DEF MarkStopping, At, Goto, Finish, Free, aside, others, saves, Types, TaskTypes,
       Local, SavePoints
  <2>2. slot'[t].at \in SavePoints \/ (slot[t].at \notin SavePoints /\ vm' = vm /\ disk' = disk)
    BY <1>11 DEF MarkStopping, At, Goto, Finish, Free, aside, others, saves, Types, TaskTypes,
       Local, SavePoints
  <2> QED
    BY <2>1, <2>2, TaskKeeps
<1>12. ASSUME NEW t \in Slots, KillTracked(t) PROVE SavedInv'
  <2>1. /\ up /\ up' = up /\ copy' = copy /\ inDoubt' = inDoubt /\ gc' = gc
        /\ slot[t].at # "write" /\ slot'[t].at # "write"
        /\ \A u \in Slots : u # t => slot'[u] = slot[u]
    BY <1>12 DEF KillTracked, At, Goto, aside, others, saves, Types, TaskTypes, Local, SavePoints
  <2>2. slot'[t].at \in SavePoints \/ (slot[t].at \notin SavePoints /\ vm' = vm /\ disk' = disk)
    BY <1>12 DEF KillTracked, At, Goto, aside, others, saves, Types, TaskTypes, Local, SavePoints
  <2> QED
    BY <2>1, <2>2, TaskKeeps
<1>13. ASSUME NEW t \in Slots, MarkStopped(t) PROVE SavedInv'
  <2>1. /\ up /\ up' = up /\ copy' = copy /\ inDoubt' = inDoubt /\ gc' = gc
        /\ slot[t].at # "write" /\ slot'[t].at # "write"
        /\ \A u \in Slots : u # t => slot'[u] = slot[u]
    BY <1>13 DEF MarkStopped, At, SetStatus, SaveThen, aside, others, saves, Types, TaskTypes,
       Local, SavePoints
  <2>2. slot'[t].at \in SavePoints \/ (slot[t].at \notin SavePoints /\ vm' = vm /\ disk' = disk)
    BY <1>13 DEF MarkStopped, At, SetStatus, SaveThen, aside, others, saves, Types, TaskTypes,
       Local, SavePoints
  <2> QED
    BY <2>1, <2>2, TaskKeeps
<1>14. ASSUME NEW t \in Slots, StopOrphan(t) PROVE SavedInv'
  <2>1. /\ up /\ up' = up /\ copy' = copy /\ inDoubt' = inDoubt /\ gc' = gc
        /\ slot[t].at # "write" /\ slot'[t].at # "write"
        /\ \A u \in Slots : u # t => slot'[u] = slot[u]
    BY <1>14 DEF StopOrphan, At, Goto, tables, aside, others, saves, Types, TaskTypes, Local,
       SavePoints
  <2>2. slot'[t].at \in SavePoints \/ (slot[t].at \notin SavePoints /\ vm' = vm /\ disk' = disk)
    BY <1>14 DEF StopOrphan, At, Goto, tables, aside, others, saves, Types, TaskTypes, Local,
       SavePoints
  <2> QED
    BY <2>1, <2>2, TaskKeeps
<1>15. ASSUME NEW t \in Slots, RemoveEntry(t) PROVE SavedInv'
  <2>1. /\ up /\ up' = up /\ copy' = copy /\ inDoubt' = inDoubt /\ gc' = gc
        /\ slot[t].at # "write" /\ slot'[t].at # "write"
        /\ \A u \in Slots : u # t => slot'[u] = slot[u]
    BY <1>15 DEF RemoveEntry, At, SaveThen, aside, others, saves, Types, TaskTypes, Local,
       SavePoints
  <2>2. slot'[t].at \in SavePoints \/ (slot[t].at \notin SavePoints /\ vm' = vm /\ disk' = disk)
    BY <1>15 DEF RemoveEntry, At, SaveThen, aside, others, saves, Types, TaskTypes, Local,
       SavePoints
  <2> QED
    BY <2>1, <2>2, TaskKeeps
<1>16. ASSUME NEW t \in Slots, Pause(t) PROVE SavedInv'
  <2>1. /\ up /\ up' = up /\ copy' = copy /\ inDoubt' = inDoubt /\ gc' = gc
        /\ slot[t].at # "write" /\ slot'[t].at # "write"
        /\ \A u \in Slots : u # t => slot'[u] = slot[u]
    BY <1>16 DEF Pause, At, Goto, Fault, Finish, Free, aside, others, saves, Types, TaskTypes,
       Local, SavePoints
  <2>2. slot'[t].at \in SavePoints \/ (slot[t].at \notin SavePoints /\ vm' = vm /\ disk' = disk)
    BY <1>16 DEF Pause, At, Goto, Fault, Finish, Free, aside, others, saves, Types, TaskTypes,
       Local, SavePoints
  <2> QED
    BY <2>1, <2>2, TaskKeeps
<1>17. ASSUME NEW t \in Slots, MarkPaused(t) PROVE SavedInv'
  <2>1. /\ up /\ up' = up /\ copy' = copy /\ inDoubt' = inDoubt /\ gc' = gc
        /\ slot[t].at # "write" /\ slot'[t].at # "write"
        /\ \A u \in Slots : u # t => slot'[u] = slot[u]
    BY <1>17 DEF MarkPaused, At, SetStatus, SaveThen, aside, others, saves, Types, TaskTypes,
       Local, SavePoints
  <2>2. slot'[t].at \in SavePoints \/ (slot[t].at \notin SavePoints /\ vm' = vm /\ disk' = disk)
    BY <1>17 DEF MarkPaused, At, SetStatus, SaveThen, aside, others, saves, Types, TaskTypes,
       Local, SavePoints
  <2> QED
    BY <2>1, <2>2, TaskKeeps
<1>18. ASSUME NEW t \in Slots, Resume(t) PROVE SavedInv'
  <2>1. /\ up /\ up' = up /\ copy' = copy /\ inDoubt' = inDoubt /\ gc' = gc
        /\ slot[t].at # "write" /\ slot'[t].at # "write"
        /\ \A u \in Slots : u # t => slot'[u] = slot[u]
    BY <1>18 DEF Resume, At, SetStatus, SaveThen, Goto, aside, others, saves, Types, TaskTypes,
       Local, SavePoints
  <2>2. slot'[t].at \in SavePoints \/ (slot[t].at \notin SavePoints /\ vm' = vm /\ disk' = disk)
    BY <1>18 DEF Resume, At, SetStatus, SaveThen, Goto, aside, others, saves, Types, TaskTypes,
       Local, SavePoints
  <2> QED
    BY <2>1, <2>2, TaskKeeps
<1>19. ASSUME NEW t \in Slots, ResumeInPlace(t) PROVE SavedInv'
  <2>1. /\ up /\ up' = up /\ copy' = copy /\ inDoubt' = inDoubt /\ gc' = gc
        /\ slot[t].at # "write" /\ slot'[t].at # "write"
        /\ \A u \in Slots : u # t => slot'[u] = slot[u]
    BY <1>19 DEF ResumeInPlace, At, SetStatus, SaveThen, Fault, Goto, aside, others, saves, Types,
       TaskTypes, Local, SavePoints
  <2>2. slot'[t].at \in SavePoints \/ (slot[t].at \notin SavePoints /\ vm' = vm /\ disk' = disk)
    BY <1>19 DEF ResumeInPlace, At, SetStatus, SaveThen, Fault, Goto, aside, others, saves, Types,
       TaskTypes, Local, SavePoints
  <2> QED
    BY <2>1, <2>2, TaskKeeps
<1>20. ASSUME NEW t \in Slots, GiveUp(t) PROVE SavedInv'
  <2>1. /\ up /\ up' = up /\ copy' = copy /\ inDoubt' = inDoubt /\ gc' = gc
        /\ slot[t].at # "write" /\ slot'[t].at # "write"
        /\ \A u \in Slots : u # t => slot'[u] = slot[u]
    BY <1>20 DEF GiveUp, At, SetStatus, Goto, aside, others, saves, Types, TaskTypes, Local,
       SavePoints
  <2>2. slot'[t].at \in SavePoints \/ (slot[t].at \notin SavePoints /\ vm' = vm /\ disk' = disk)
    BY <1>20 DEF GiveUp, At, SetStatus, Goto, aside, others, saves, Types, TaskTypes, Local,
       SavePoints
  <2> QED
    BY <2>1, <2>2, TaskKeeps
<1>21. ASSUME NEW t \in Slots, Forget(t) PROVE SavedInv'
  <2>1. /\ up /\ up' = up /\ copy' = copy /\ inDoubt' = inDoubt /\ gc' = gc
        /\ slot[t].at # "write" /\ slot'[t].at # "write"
        /\ \A u \in Slots : u # t => slot'[u] = slot[u]
    BY <1>21 DEF Forget, At, SaveThen, saves, Types, TaskTypes, Local, SavePoints
  <2>2. slot'[t].at \in SavePoints \/ (slot[t].at \notin SavePoints /\ vm' = vm /\ disk' = disk)
    BY <1>21 DEF Forget, At, SaveThen, saves, Types, TaskTypes, Local, SavePoints
  <2> QED
    BY <2>1, <2>2, TaskKeeps
<1>22. ASSUME NEW t \in Slots, LookUp(t) PROVE SavedInv'
  <2>1. /\ up /\ up' = up /\ copy' = copy /\ inDoubt' = inDoubt /\ gc' = gc
        /\ slot[t].at # "write" /\ slot'[t].at # "write"
        /\ \A u \in Slots : u # t => slot'[u] = slot[u]
    BY <1>22 DEF LookUp, At, Finish, Free, Goto, tables, aside, others, saves, Types, TaskTypes,
       Local, SavePoints
  <2>2. slot'[t].at \in SavePoints \/ (slot[t].at \notin SavePoints /\ vm' = vm /\ disk' = disk)
    BY <1>22 DEF LookUp, At, Finish, Free, Goto, tables, aside, others, saves, Types, TaskTypes,
       Local, SavePoints
  <2> QED
    BY <2>1, <2>2, TaskKeeps
<1>23. CASE KillDoomed
  BY <1>23 DEF KillDoomed, tables, aside, others, saves, SavedInv, Down, Copies, OneSaves, Kept,
     Holding, Saving
<1>24. CASE CollectExited
  <2>1. Saving' /\ up /\ up' = up
    BY <1>24 DEF CollectExited, Saving
  <2> QED
    BY <1>24, <2>1 DEF CollectExited, saves, SavedInv, Down, Copies, OneSaves, Holding
<1>25. CASE Decide
  <2>1. Saving' /\ up /\ up' = up
    BY <1>25 DEF Decide, Saving
  <2> QED
    BY <1>25, <2>1 DEF Decide, saves, SavedInv, Down, Copies, OneSaves, Holding
<1>26. CASE CopyCollected
  <2>1. /\ up /\ up' = up /\ slot' = slot /\ vm' = vm /\ Copy(Collector) /\ Collector \in Savers
        /\ gc' \in {"write", "writeAndRestart"}
    BY <1>26 DEF CopyCollected, tables, Savers
  <2>2. Copies'
    BY <2>1, CopyHolds, CollectorAssumption DEF SavedInv, Copies, Savers
  <2> QED
    BY <2>1, <2>2, CopyKeeps DEF SavedInv, Down
<1>32. CASE WriteCollected
  <2>1. /\ up /\ up' = up /\ slot' = slot /\ vm' = vm /\ Write(Collector) /\ Collector \in Savers
        /\ gc \in {"write", "writeAndRestart"} /\ gc' = "idle"
    BY <1>32 DEF WriteCollected, tables, Savers
  <2>2. Copies' /\ Holding(Collector)
    BY <2>1, WriteHolds, CollectorAssumption DEF SavedInv, Copies, Savers
  <2>3. Saving => Saving'
    BY <2>1 DEF Saving
  <2>4. ~inDoubt' => ~inDoubt
    BY <2>1 DEF Write
  <2>5. OneSaves => OneSaves'
    BY <2>1, WriteHolds DEF OneSaves
  <2> QED
    BY <2>1, <2>2, <2>3, <2>4, <2>5, WriteKeeps DEF SavedInv, Down
<1>27. ASSUME NEW q \in Procs, ProcessDies(q) PROVE SavedInv'
  BY <1>27 DEF ProcessDies, Fault, tables, aside, others, saves, SavedInv, Down, Copies, OneSaves,
     Kept, Holding, Saving
<1>28. CASE Crash
  <2>1. Down' /\ ~up'
    BY <1>28 DEF Crash, Free, Down, Types, CountTypes
  <2>2. Copies'
    BY <1>28 DEF Crash, Free, Copies, Holding, Savers
  <2> QED
    BY <2>1, <2>2 DEF SavedInv
<1>29. CASE Load
  <2>1. up' /\ copy' = copy /\ slot' = slot /\ gc' = gc /\ \A p \in Savers : ~Holding(p)
    BY <1>29 DEF Load, SavedInv, Down, Copies, Savers
  <2>2. ~inDoubt' => disk'.vm = vm'
    BY <1>29 DEF Load, tables, SavedInv, Down, Nothing
  <2> QED
    BY <2>1, <2>2 DEF SavedInv, Down, Copies, OneSaves, Kept, Holding
<1>30. CASE UNCHANGED vars
  BY <1>30 DEF vars, tables, counters, saves, SavedInv, Down, Copies, OneSaves, Kept, Holding,
     Saving
<1> QED
  BY <1>1, <1>2, <1>3, <1>4, <1>5, <1>6, <1>7, <1>8, <1>9, <1>10, <1>11, <1>12, <1>13, <1>14,
     <1>15, <1>16, <1>17, <1>18, <1>19, <1>20, <1>21, <1>22, <1>23, <1>24, <1>25, <1>26, <1>27,
     <1>28, <1>29, <1>30, <1>31, <1>32 DEF Next, Step, Collect

(* A step of a task that is at work: it is the only one, so only its new point matters. *)
LEMMA OneWorks ==
  ASSUME HeldInv, NEW t \in Slots, slot[t].at # "idle", crashes' = crashes,
         overlapped' = overlapped,
         \A u \in Slots : u # t => slot'[u] = slot[u],
         (~overlapped /\ crashes = 0 /\ Within(t) /\ Boots(t))
            => /\ slot'[t].at # "idle" => Within(t)' /\ Boots(t)'
               /\ slot'[t].at = "idle" => Resting'
  PROVE  HeldInv'
<1> SUFFICES ASSUME ~overlapped', crashes' = 0
             PROVE  /\ Alone'
                    /\ \A u \in Slots : slot'[u].at # "idle" => Within(u)' /\ Boots(u)'
                    /\ (\A u \in Slots : slot'[u].at = "idle") => Resting'
  BY DEF HeldInv
<1>1. ~overlapped /\ crashes = 0 /\ Within(t) /\ Boots(t) /\ Alone
  BY DEF HeldInv
<1>2. \A u \in Slots : u # t => slot'[u].at = "idle"
  BY <1>1 DEF Alone
<1>3. Alone'
  BY <1>2 DEF Alone
<1> QED
  BY <1>1, <1>2, <1>3

(* A task begins: it is the only one, or an overlap is remembered. *)
LEMMA OneBegins ==
  ASSUME HeldInv, NEW t \in Slots, crashes' = crashes,
         overlapped' = (overlapped \/ \E u \in Slots : slot[u].at # "idle"),
         \A u \in Slots : u # t => slot'[u] = slot[u],
         slot'[t].at \in {"start", "stop", "pause", "resume"}, Resting => Resting'
  PROVE  HeldInv'
<1> SUFFICES ASSUME ~overlapped', crashes' = 0
             PROVE  /\ Alone'
                    /\ \A u \in Slots : slot'[u].at # "idle" => Within(u)' /\ Boots(u)'
                    /\ (\A u \in Slots : slot'[u].at = "idle") => Resting'
  BY DEF HeldInv
<1>1. Resting' /\ \A u \in Slots : slot[u].at = "idle"
  BY DEF HeldInv
<1>2. \A u \in Slots : u # t => slot'[u].at = "idle"
  BY <1>1
<1>3. Within(t)' /\ Boots(t)'
  BY <1>1 DEF Within, Boots, Gone
<1> QED
  BY <1>1, <1>2, <1>3 DEF Alone

(* A step of no task: what holds at each point and at rest is kept. *)
LEMMA NoTaskWorks ==
  ASSUME HeldInv, slot' = slot, crashes' = crashes, overlapped' = overlapped,
         Resting => Resting',
         \A t \in Slots : slot[t].at # "idle" /\ Within(t) /\ Boots(t) => Within(t)' /\ Boots(t)'
  PROVE  HeldInv'
BY DEF HeldInv, Alone


(* Every step keeps the invariant of the processes. *)
LEMMA HeldKept ==
  Types /\ SavedInv /\ HeldInv /\ [Next]_vars => HeldInv'
<1> SUFFICES ASSUME Types, SavedInv, HeldInv, [Next]_vars PROVE HeldInv'
  OBVIOUS
<1>1. ASSUME NEW t \in Slots, Command(t) PROVE HeldInv'
  <2>1. /\ crashes' = crashes /\ (Resting => Resting')
        /\ overlapped' = (overlapped \/ \E u \in Slots : slot[u].at # "idle")
    BY <1>1 DEF Command, Begin, counters, tables, Resting, Live
  <2>2. /\ \A u \in Slots : u # t => slot'[u] = slot[u]
        /\ slot'[t].at \in {"start", "stop", "pause", "resume"}
    BY <1>1 DEF Command, Begin, At, Free, Types, TaskTypes, Local
  <2> QED
    BY <2>1, <2>2, OneBegins
<1>2. ASSUME NEW t \in Slots, AutoRestart(t) PROVE HeldInv'
  <2>1. /\ crashes' = crashes /\ (Resting => Resting')
        /\ overlapped' = (overlapped \/ \E u \in Slots : slot[u].at # "idle")
    BY <1>2 DEF AutoRestart, Begin, counters, tables, Resting, Live
  <2>2. /\ \A u \in Slots : u # t => slot'[u] = slot[u]
        /\ slot'[t].at \in {"start", "stop", "pause", "resume"}
    BY <1>2 DEF AutoRestart, Begin, At, Free, Types, TaskTypes, Local
  <2> QED
    BY <2>1, <2>2, OneBegins
<1>3. ASSUME NEW t \in Slots, SaveCopy(t) PROVE HeldInv'
  <2>1. /\ slot[t].at # "idle" /\ crashes' = crashes /\ overlapped' = overlapped
        /\ \A u \in Slots : u # t => slot'[u] = slot[u]
    BY <1>3 DEF SaveCopy, At, Goto, tables, aside, others, saves, Types, TaskTypes, Local
  <2>2. ASSUME Within(t), Boots(t)
        PROVE  /\ slot'[t].at # "idle" => Within(t)' /\ Boots(t)'
               /\ slot'[t].at = "idle" => Resting'
    BY <1>3, <2>2 DEF SaveCopy, At, Goto, tables, aside, others, saves, Types, ProcessTypes,
       TaskTypes,
       Local, Within, Boots, Gone, Resting, Live
  <2> QED
    BY <2>1, <2>2, OneWorks
<1>31. ASSUME NEW t \in Slots, SaveWrite(t) PROVE HeldInv'
  <2>1. /\ slot[t].at # "idle" /\ crashes' = crashes /\ overlapped' = overlapped
        /\ \A u \in Slots : u # t => slot'[u] = slot[u]
    BY <1>31 DEF SaveWrite, At, Finish, Free, Goto, tables, aside, others, saves, Types,
       TaskTypes, Local
  <2>2. ASSUME Within(t), Boots(t)
        PROVE  /\ slot'[t].at # "idle" => Within(t)' /\ Boots(t)'
               /\ slot'[t].at = "idle" => Resting'
    BY <1>31, <2>2 DEF SaveWrite, At, Finish, Free, Goto, tables, aside, others, saves, Types,
       ProcessTypes, TaskTypes,
       Local, Within, Boots, Gone, Resting, Live
  <2> QED
    BY <2>1, <2>2, OneWorks
<1>4. ASSUME NEW t \in Slots, Start(t) PROVE HeldInv'
  <2>1. /\ slot[t].at # "idle" /\ crashes' = crashes /\ overlapped' = overlapped
        /\ \A u \in Slots : u # t => slot'[u] = slot[u]
    BY <1>4 DEF Start, At, Finish, Free, SaveThen, aside, others, saves, Types, TaskTypes, Local
  <2>2. ASSUME Within(t), Boots(t)
        PROVE  /\ slot'[t].at # "idle" => Within(t)' /\ Boots(t)'
               /\ slot'[t].at = "idle" => Resting'
    BY <1>4, <2>2 DEF Start, At, Finish, Free, SaveThen, aside, others, saves, Types,
       ProcessTypes, TaskTypes,
       Local, Within, Boots, Gone, Resting, Live
  <2> QED
    BY <2>1, <2>2, OneWorks
<1>5. ASSUME NEW t \in Slots, Prepare(t) PROVE HeldInv'
  <2>1. /\ slot[t].at # "idle" /\ crashes' = crashes /\ overlapped' = overlapped
        /\ \A u \in Slots : u # t => slot'[u] = slot[u]
    BY <1>5 DEF Prepare, At, Goto, Finish, Free, Fault, tables, aside, others, saves, Types,
       TaskTypes, Local
  <2>2. ASSUME Within(t), Boots(t)
        PROVE  /\ slot'[t].at # "idle" => Within(t)' /\ Boots(t)'
               /\ slot'[t].at = "idle" => Resting'
    BY <1>5, <2>2 DEF Prepare, At, Goto, Finish, Free, Fault, tables, aside, others, saves,
       Types, ProcessTypes, TaskTypes,
       Local, Within, Boots, Gone, Resting, Live
  <2> QED
    BY <2>1, <2>2, OneWorks
<1>6. ASSUME NEW t \in Slots, Spawn(t) PROVE HeldInv'
  <2>1. /\ slot[t].at # "idle" /\ crashes' = crashes /\ overlapped' = overlapped
        /\ \A u \in Slots : u # t => slot'[u] = slot[u]
    BY <1>6 DEF Spawn, At, Fault, Goto, tables, aside, others, saves, Types, TaskTypes, Local
  <2>2. ASSUME Within(t), Boots(t)
        PROVE  /\ slot'[t].at # "idle" => Within(t)' /\ Boots(t)'
               /\ slot'[t].at = "idle" => Resting'
    BY <1>6, <2>2 DEF Spawn, At, Fault, Goto, tables, aside, others, saves, Fresh, Types,
       ProcessTypes,
       TaskTypes, Local, Within, Boots, Gone, Resting, Live
  <2> QED
    BY <2>1, <2>2, OneWorks
<1>7. ASSUME NEW t \in Slots, Configure(t) PROVE HeldInv'
  <2>1. /\ slot[t].at # "idle" /\ crashes' = crashes /\ overlapped' = overlapped
        /\ \A u \in Slots : u # t => slot'[u] = slot[u]
    BY <1>7 DEF Configure, At, Goto, Fault, tables, aside, others, saves, Types, TaskTypes, Local
  <2>2. ASSUME Within(t), Boots(t)
        PROVE  /\ slot'[t].at # "idle" => Within(t)' /\ Boots(t)'
               /\ slot'[t].at = "idle" => Resting'
    BY <1>7, <2>2 DEF Configure, At, Goto, Fault, tables, aside, others, saves, Types,
       ProcessTypes, TaskTypes,
       Local, Within, Boots, Gone, Resting, Live
  <2> QED
    BY <2>1, <2>2, OneWorks
<1>8. ASSUME NEW t \in Slots, MarkRunning(t) PROVE HeldInv'
  <2>1. /\ slot[t].at # "idle" /\ crashes' = crashes /\ overlapped' = overlapped
        /\ \A u \in Slots : u # t => slot'[u] = slot[u]
    BY <1>8 DEF MarkRunning, At, SetStatus, Goto, aside, others, saves, Types, TaskTypes, Local
  <2>2. ASSUME Within(t), Boots(t)
        PROVE  /\ slot'[t].at # "idle" => Within(t)' /\ Boots(t)'
               /\ slot'[t].at = "idle" => Resting'
    BY <1>8, <2>2 DEF MarkRunning, At, SetStatus, Goto, aside, others, saves, Types,
       ProcessTypes, TaskTypes,
       Local, Within, Boots, Gone, Resting, Live
  <2> QED
    BY <2>1, <2>2, OneWorks
<1>9. ASSUME NEW t \in Slots, Track(t) PROVE HeldInv'
  <2>1. /\ slot[t].at # "idle" /\ crashes' = crashes /\ overlapped' = overlapped
        /\ \A u \in Slots : u # t => slot'[u] = slot[u]
    BY <1>9 DEF Track, At, Free, aside, others, saves, Types, TaskTypes, Local
  <2>2. ASSUME Within(t), Boots(t)
        PROVE  /\ slot'[t].at # "idle" => Within(t)' /\ Boots(t)'
               /\ slot'[t].at = "idle" => Resting'
    BY <1>9, <2>2 DEF Track, At, Free, aside, others, saves, Types, ProcessTypes, TaskTypes,
       Local, Within,
       Boots, Gone, Resting, Live
  <2> QED
    BY <2>1, <2>2, OneWorks
<1>10. ASSUME NEW t \in Slots, SetFailed(t) PROVE HeldInv'
  <2>1. /\ slot[t].at # "idle" /\ crashes' = crashes /\ overlapped' = overlapped
        /\ \A u \in Slots : u # t => slot'[u] = slot[u]
    BY <1>10 DEF SetFailed, At, SetStatus, SaveThen, aside, others, saves, Types, TaskTypes, Local
  <2>2. ASSUME Within(t), Boots(t)
        PROVE  /\ slot'[t].at # "idle" => Within(t)' /\ Boots(t)'
               /\ slot'[t].at = "idle" => Resting'
    BY <1>10, <2>2 DEF SetFailed, At, SetStatus, SaveThen, aside, others, saves, Types,
       ProcessTypes, TaskTypes,
       Local, Within, Boots, Gone, Resting, Live
  <2> QED
    BY <2>1, <2>2, OneWorks
<1>11. ASSUME NEW t \in Slots, MarkStopping(t) PROVE HeldInv'
  <2>1. /\ slot[t].at # "idle" /\ crashes' = crashes /\ overlapped' = overlapped
        /\ \A u \in Slots : u # t => slot'[u] = slot[u]
    BY <1>11 DEF MarkStopping, At, Goto, Finish, Free, aside, others, saves, Types, TaskTypes,
       Local
  <2>2. ASSUME Within(t), Boots(t)
        PROVE  /\ slot'[t].at # "idle" => Within(t)' /\ Boots(t)'
               /\ slot'[t].at = "idle" => Resting'
    BY <1>11, <2>2 DEF MarkStopping, At, Goto, Finish, Free, aside, others, saves, Types,
       ProcessTypes,
       TaskTypes, Local, Within, Boots, Gone, Resting, Live
  <2> QED
    BY <2>1, <2>2, OneWorks
<1>12. ASSUME NEW t \in Slots, KillTracked(t) PROVE HeldInv'
  <2>1. /\ slot[t].at # "idle" /\ crashes' = crashes /\ overlapped' = overlapped
        /\ \A u \in Slots : u # t => slot'[u] = slot[u]
    BY <1>12 DEF KillTracked, At, Goto, aside, others, saves, Types, TaskTypes, Local
  <2>2. ASSUME Within(t), Boots(t)
        PROVE  /\ slot'[t].at # "idle" => Within(t)' /\ Boots(t)'
               /\ slot'[t].at = "idle" => Resting'
    BY <1>12, <2>2 DEF KillTracked, At, Goto, aside, others, saves, Types, ProcessTypes,
       TaskTypes, Local,
       Within, Boots, Gone, Resting, Live
  <2> QED
    BY <2>1, <2>2, OneWorks
<1>13. ASSUME NEW t \in Slots, MarkStopped(t) PROVE HeldInv'
  <2>1. /\ slot[t].at # "idle" /\ crashes' = crashes /\ overlapped' = overlapped
        /\ \A u \in Slots : u # t => slot'[u] = slot[u]
    BY <1>13 DEF MarkStopped, At, SetStatus, SaveThen, aside, others, saves, Types, TaskTypes,
       Local
  <2>2. ASSUME Within(t), Boots(t)
        PROVE  /\ slot'[t].at # "idle" => Within(t)' /\ Boots(t)'
               /\ slot'[t].at = "idle" => Resting'
    BY <1>13, <2>2 DEF MarkStopped, At, SetStatus, SaveThen, aside, others, saves, Types,
       ProcessTypes,
       TaskTypes, Local, Within, Boots, Gone, Resting, Live
  <2> QED
    BY <2>1, <2>2, OneWorks
<1>14. ASSUME NEW t \in Slots, StopOrphan(t) PROVE HeldInv'
  <2>1. /\ slot[t].at # "idle" /\ crashes' = crashes /\ overlapped' = overlapped
        /\ \A u \in Slots : u # t => slot'[u] = slot[u]
    BY <1>14 DEF StopOrphan, At, Goto, tables, aside, others, saves, Types, TaskTypes, Local
  <2>2. ASSUME Within(t), Boots(t)
        PROVE  /\ slot'[t].at # "idle" => Within(t)' /\ Boots(t)'
               /\ slot'[t].at = "idle" => Resting'
    BY <1>14, <2>2 DEF StopOrphan, At, Goto, tables, aside, others, saves, Types, ProcessTypes,
       TaskTypes, Local,
       Within, Boots, Gone, Resting, Live
  <2> QED
    BY <2>1, <2>2, OneWorks
<1>15. ASSUME NEW t \in Slots, RemoveEntry(t) PROVE HeldInv'
  <2>1. /\ slot[t].at # "idle" /\ crashes' = crashes /\ overlapped' = overlapped
        /\ \A u \in Slots : u # t => slot'[u] = slot[u]
    BY <1>15 DEF RemoveEntry, At, SaveThen, aside, others, saves, Types, TaskTypes, Local
  <2>2. ASSUME Within(t), Boots(t)
        PROVE  /\ slot'[t].at # "idle" => Within(t)' /\ Boots(t)'
               /\ slot'[t].at = "idle" => Resting'
    BY <1>15, <2>2 DEF RemoveEntry, At, SaveThen, aside, others, saves, Types, ProcessTypes,
       TaskTypes, Local,
       Within, Boots, Gone, Resting, Live
  <2> QED
    BY <2>1, <2>2, OneWorks
<1>16. ASSUME NEW t \in Slots, Pause(t) PROVE HeldInv'
  <2>1. /\ slot[t].at # "idle" /\ crashes' = crashes /\ overlapped' = overlapped
        /\ \A u \in Slots : u # t => slot'[u] = slot[u]
    BY <1>16 DEF Pause, At, Goto, Fault, Finish, Free, aside, others, saves, Types, TaskTypes,
       Local
  <2>2. ASSUME Within(t), Boots(t)
        PROVE  /\ slot'[t].at # "idle" => Within(t)' /\ Boots(t)'
               /\ slot'[t].at = "idle" => Resting'
    BY <1>16, <2>2 DEF Pause, At, Goto, Fault, Finish, Free, aside, others, saves, Types,
       ProcessTypes,
       TaskTypes, Local, Within, Boots, Gone, Resting, Live
  <2> QED
    BY <2>1, <2>2, OneWorks
<1>17. ASSUME NEW t \in Slots, MarkPaused(t) PROVE HeldInv'
  <2>1. /\ slot[t].at # "idle" /\ crashes' = crashes /\ overlapped' = overlapped
        /\ \A u \in Slots : u # t => slot'[u] = slot[u]
    BY <1>17 DEF MarkPaused, At, SetStatus, SaveThen, aside, others, saves, Types, TaskTypes, Local
  <2>2. ASSUME Within(t), Boots(t)
        PROVE  /\ slot'[t].at # "idle" => Within(t)' /\ Boots(t)'
               /\ slot'[t].at = "idle" => Resting'
    BY <1>17, <2>2 DEF MarkPaused, At, SetStatus, SaveThen, aside, others, saves, Types,
       ProcessTypes, TaskTypes,
       Local, Within, Boots, Gone, Resting, Live
  <2> QED
    BY <2>1, <2>2, OneWorks
<1>18. ASSUME NEW t \in Slots, Resume(t) PROVE HeldInv'
  <2>1. /\ slot[t].at = "resume" /\ crashes' = crashes /\ overlapped' = overlapped
        /\ proc' = proc /\ Live' = Live /\ \A u \in Slots : u # t => slot'[u] = slot[u]
    BY <1>18 DEF Resume, At, SetStatus, SaveThen, Goto, aside, others, saves, Types, TaskTypes,
       Local, Live
  <2>2. \/ proc = NoProc /\ vm' # "running" /\ slot'[t].at = "save" /\ slot'[t].then = "look"
        \/ vm' = vm /\ slot'[t].at = "patch"
        \/ proc \in Procs \ alive /\ vm' = vm /\ slot'[t].at = "giveUp"
    BY <1>18 DEF Resume, At, SetStatus, SaveThen, Goto, Types, TaskTypes, Local
  <2>3. Within(t) => Resting
    BY <2>1 DEF Within
  <2>4. Live \subseteq Procs
    BY DEF Live, Types, ProcessTypes
  <2>5. ASSUME Within(t), proc = NoProc, vm' # "running"
        PROVE  Resting'
    BY <2>1, <2>3, <2>4, <2>5, ProcsAssumption DEF Resting
  <2>6. Within(t) => Live \subseteq {proc}
    BY <2>3 DEF Resting
  <2>7. ASSUME Within(t), vm' = vm
        PROVE  Resting'
    BY <2>1, <2>3, <2>7 DEF Resting
  <2>8. ASSUME Within(t)
        PROVE  Within(t)' /\ Boots(t)'
    BY <2>1, <2>2, <2>5, <2>6, <2>7, <2>8 DEF Within, Boots, Gone
  <2> QED
    BY <2>1, <2>2, <2>8, OneWorks
<1>19. ASSUME NEW t \in Slots, ResumeInPlace(t) PROVE HeldInv'
  <2>1. /\ slot[t].at # "idle" /\ crashes' = crashes /\ overlapped' = overlapped
        /\ \A u \in Slots : u # t => slot'[u] = slot[u]
    BY <1>19 DEF ResumeInPlace, At, SetStatus, SaveThen, Fault, Goto, aside, others, saves,
       Types, TaskTypes,
       Local
  <2>2. ASSUME Within(t), Boots(t)
        PROVE  /\ slot'[t].at # "idle" => Within(t)' /\ Boots(t)'
               /\ slot'[t].at = "idle" => Resting'
    BY <1>19, <2>2 DEF ResumeInPlace, At, SetStatus, SaveThen, Fault, Goto, aside, others, saves,
       Types,
       ProcessTypes, TaskTypes, Local, Within, Boots, Gone, Resting, Live
  <2> QED
    BY <2>1, <2>2, OneWorks
<1>20. ASSUME NEW t \in Slots, GiveUp(t) PROVE HeldInv'
  <2>1. /\ slot[t].at # "idle" /\ crashes' = crashes /\ overlapped' = overlapped
        /\ \A u \in Slots : u # t => slot'[u] = slot[u]
    BY <1>20 DEF GiveUp, At, SetStatus, Goto, aside, others, saves, Types, TaskTypes, Local
  <2>2. ASSUME Within(t), Boots(t)
        PROVE  /\ slot'[t].at # "idle" => Within(t)' /\ Boots(t)'
               /\ slot'[t].at = "idle" => Resting'
    BY <1>20, <2>2 DEF GiveUp, At, SetStatus, Goto, aside, others, saves, Types, ProcessTypes,
       TaskTypes, Local,
       Within, Boots, Gone, Resting, Live
  <2> QED
    BY <2>1, <2>2, OneWorks
<1>21. ASSUME NEW t \in Slots, Forget(t) PROVE HeldInv'
  <2>1. /\ slot[t].at # "idle" /\ crashes' = crashes /\ overlapped' = overlapped
        /\ \A u \in Slots : u # t => slot'[u] = slot[u]
    BY <1>21 DEF Forget, At, SaveThen, saves, Types, TaskTypes, Local
  <2>2. ASSUME Within(t), Boots(t)
        PROVE  /\ slot'[t].at # "idle" => Within(t)' /\ Boots(t)'
               /\ slot'[t].at = "idle" => Resting'
    BY <1>21, <2>2 DEF Forget, At, SaveThen, saves, Types, ProcessTypes, TaskTypes, Local,
       Within, Boots,
       Gone, Resting, Live
  <2> QED
    BY <2>1, <2>2, OneWorks
<1>22. ASSUME NEW t \in Slots, LookUp(t) PROVE HeldInv'
  <2>1. /\ slot[t].at # "idle" /\ crashes' = crashes /\ overlapped' = overlapped
        /\ \A u \in Slots : u # t => slot'[u] = slot[u]
    BY <1>22 DEF LookUp, At, Finish, Free, Goto, tables, aside, others, saves, Types, TaskTypes,
       Local
  <2>2. ASSUME Within(t), Boots(t)
        PROVE  /\ slot'[t].at # "idle" => Within(t)' /\ Boots(t)'
               /\ slot'[t].at = "idle" => Resting'
    BY <1>22, <2>2 DEF LookUp, At, Finish, Free, Goto, tables, aside, others, saves, Types,
       ProcessTypes,
       TaskTypes, Local, Within, Boots, Gone, Resting, Live
  <2> QED
    BY <2>1, <2>2, OneWorks
<1>23. CASE KillDoomed
  <2>1. slot' = slot /\ crashes' = crashes /\ overlapped' = overlapped
    BY <1>23 DEF KillDoomed, aside, others, saves
  <2>2. Resting => Resting'
    BY <1>23 DEF KillDoomed, aside, others, saves, tables, Types, ProcessTypes, Resting, Live
  <2>3. ASSUME NEW t \in Slots, slot[t].at # "idle", Within(t), Boots(t)
        PROVE  Within(t)' /\ Boots(t)'
    BY <1>23, <2>2, <2>3 DEF KillDoomed, aside, others, saves, tables, Types, ProcessTypes,
       Within, Boots, Gone,
       Live
  <2> QED
    BY <2>1, <2>2, <2>3, NoTaskWorks
<1>24. CASE CollectExited
  <2>1. slot' = slot /\ crashes' = crashes /\ overlapped' = overlapped
    BY <1>24 DEF CollectExited, counters
  <2>2. Resting => Resting'
    BY <1>24 DEF CollectExited, counters, saves, Types, ProcessTypes, Resting, Live
  <2>3. ASSUME NEW t \in Slots, slot[t].at # "idle", Within(t), Boots(t)
        PROVE  Within(t)' /\ Boots(t)'
    BY <1>24, <2>2, <2>3 DEF CollectExited, counters, saves, Types, ProcessTypes, Within, Boots,
       Gone,
       Live
  <2> QED
    BY <2>1, <2>2, <2>3, NoTaskWorks
<1>25. CASE Decide
  <2>1. slot' = slot /\ crashes' = crashes /\ overlapped' = overlapped
    BY <1>25 DEF Decide, counters
  <2>2. Resting => Resting'
    BY <1>25 DEF Decide, counters, saves, Types, ProcessTypes, Resting, Live
  <2>3. ASSUME NEW t \in Slots, slot[t].at # "idle", Within(t), Boots(t)
        PROVE  Within(t)' /\ Boots(t)'
    BY <1>25, <2>2, <2>3 DEF Decide, counters, saves, Types, ProcessTypes, Within, Boots, Gone,
       Live
  <2> QED
    BY <2>1, <2>2, <2>3, NoTaskWorks
<1>26. CASE CopyCollected
  <2>1. slot' = slot /\ crashes' = crashes /\ overlapped' = overlapped
    BY <1>26 DEF CopyCollected, counters
  <2>2. Resting => Resting'
    BY <1>26 DEF CopyCollected, counters, tables, Types, ProcessTypes, Resting, Live
  <2>3. ASSUME NEW t \in Slots, slot[t].at # "idle", Within(t), Boots(t)
        PROVE  Within(t)' /\ Boots(t)'
    BY <1>26, <2>2, <2>3 DEF CopyCollected, counters, tables, Types, ProcessTypes, Within, Boots,
       Gone, Live
  <2> QED
    BY <2>1, <2>2, <2>3, NoTaskWorks
<1>32. CASE WriteCollected
  <2>1. slot' = slot /\ crashes' = crashes /\ overlapped' = overlapped
    BY <1>32 DEF WriteCollected, counters
  <2>2. Resting => Resting'
    BY <1>32 DEF WriteCollected, counters, tables, Types, ProcessTypes, Resting, Live
  <2>3. ASSUME NEW t \in Slots, slot[t].at # "idle", Within(t), Boots(t)
        PROVE  Within(t)' /\ Boots(t)'
    BY <1>32, <2>2, <2>3 DEF WriteCollected, counters, tables, Types, ProcessTypes, Within, Boots,
       Gone, Live
  <2> QED
    BY <2>1, <2>2, <2>3, NoTaskWorks
<1>27. ASSUME NEW q \in Procs, ProcessDies(q) PROVE HeldInv'
  <2>1. slot' = slot /\ crashes' = crashes /\ overlapped' = overlapped
    BY <1>27 DEF ProcessDies, aside, others, saves
  <2>2. Resting => Resting'
    BY <1>27 DEF ProcessDies, aside, others, saves, tables, Fault, Types, ProcessTypes, Resting,
       Live
  <2>3. ASSUME NEW t \in Slots, slot[t].at # "idle", Within(t), Boots(t)
        PROVE  Within(t)' /\ Boots(t)'
    BY <1>27, <2>2, <2>3 DEF ProcessDies, aside, others, saves, tables, Fault, Types,
       ProcessTypes, Within,
       Boots, Gone, Live
  <2> QED
    BY <2>1, <2>2, <2>3, NoTaskWorks
<1>28. CASE Crash
  <2>1. crashes' # 0
    BY <1>28 DEF Crash, Types, CountTypes
  <2> QED
    BY <2>1 DEF HeldInv
<1>29. CASE Load
  <2>1. crashes' # 0
    BY <1>29 DEF Load, SavedInv, Down, counters
  <2> QED
    BY <2>1 DEF HeldInv
<1>30. CASE UNCHANGED vars
  BY <1>30 DEF vars, tables, counters, HeldInv, Alone, Within, Boots, Gone, Resting, Live
<1> QED
  BY <1>1, <1>2, <1>3, <1>4, <1>5, <1>6, <1>7, <1>8, <1>9, <1>10, <1>11, <1>12, <1>13, <1>14,
     <1>15, <1>16, <1>17, <1>18, <1>19, <1>20, <1>21, <1>22, <1>23, <1>24, <1>25, <1>26, <1>27,
     <1>28, <1>29, <1>30, <1>31, <1>32 DEF Next, Step, Collect

-----------------------------------------------------------------------------
(* Every reachable state is well typed. *)
THEOREM TypeCorrect == Spec => []TypeOK
<1>1. Init => Types /\ SavedInv
  BY InitTypes, InitRest
<1>2. Types /\ SavedInv /\ [Next]_vars => (Types /\ SavedInv)'
  BY TypesKept, SavedKept
<1>3. Types => TypeOK
  BY TypeParts
<1> QED
  BY <1>1, <1>2, <1>3, PTL DEF Spec

(* When nothing is under way the state file has the VM's status, whatever operations
   have overlapped before, unless the last save failed or overlapped another one. *)
THEOREM FileHasTheStatus == Spec => []SavedWhenQuiet
<1>1. Init => Types /\ SavedInv
  BY InitTypes, InitRest
<1>2. Types /\ SavedInv /\ [Next]_vars => (Types /\ SavedInv)'
  BY TypesKept, SavedKept
<1>3. SavedInv => SavedWhenQuiet
  BY DEF SavedInv, SavedWhenQuiet, Quiet, Saving, SavePoints, Copies, Kept, Savers
<1> QED
  BY <1>1, <1>2, <1>3, PTL DEF Spec

(* A VM at rest has the process in the table if it runs, and no process otherwise, as
   long as commands and boots have not overlapped and the agent has not died. *)
THEOREM ProcessesAreHeld == Spec => []NoStrayProcess
<1>1. Init => Types /\ SavedInv /\ HeldInv
  BY InitTypes, InitRest
<1>2. Types /\ SavedInv /\ HeldInv /\ [Next]_vars => (Types /\ SavedInv /\ HeldInv)'
  BY TypesKept, SavedKept, HeldKept
<1>3. HeldInv => NoStrayProcess
  BY DEF HeldInv, NoStrayProcess, Quiet, Resting, Live
<1> QED
  BY <1>1, <1>2, <1>3, PTL DEF Spec

=============================================================================
