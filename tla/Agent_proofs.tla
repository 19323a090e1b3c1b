----------------------------- MODULE Agent_proofs -----------------------------
(***************************************************************************)
(* Proofs about the agent's state file and its Cloud Hypervisor manager,   *)
(* for any number of tasks, commands, failures and crashes.  The two are   *)
(* proved one after the other, and neither uses facts of the other.        *)
(***************************************************************************)
EXTENDS StateFile, CloudHypervisor, TLAPS

(*------------------------------- StateFile -------------------------------*)
(* At most one call is under way. *)
Alone == \A p, q \in Tasks : Persisting(p) /\ Persisting(q) => p = q

(* The temporary file belongs to the call under way, and holds what that call
   has written so far. *)
TmpIsMine ==
  \A p \in Tasks :
    /\ task[p].at = "write" => tmp = task[p].fd /\ content[task[p].fd] = Empty
    /\ task[p].at = "rename" => tmp = task[p].fd /\ content[task[p].fd] = Whole(task[p].copy)

StateIsSaved == IF state = NoFile THEN saved = 0 ELSE content[state] = Whole(saved)

Apart == tmp # NoFile => tmp # state

(* The inductive invariant. *)
FileIInv == FileTypeOK /\ (~overlapped => Alone /\ TmpIsMine /\ StateIsSaved /\ Apart)

-----------------------------------------------------------------------------
(* The parts of FileTypeOK: the counters, the tasks, the files. *)
FileCounterTypes ==
  /\ memory \in Nat /\ changes \in Nat /\ changes <= MaxChanges
  /\ agentCrashes \in Nat /\ agentCrashes <= MaxAgentCrashes
  /\ failures \in Nat /\ failures <= MaxFailures
  /\ saved \in Nat
Opened(p) == task[p].fd # NoFile <=> task[p].at \in {"write", "rename"}
CallTypes == task \in [Tasks -> Call] /\ \A p \in Tasks : Opened(p)
FileTypes ==
  /\ content \in [Inodes -> Contents]
  /\ tmp \in Inodes \cup {NoFile} /\ state \in Inodes \cup {NoFile}
FileFlagTypes == loaded \in BOOLEAN /\ overlapped \in BOOLEAN

(* FileTypeOK is the conjunction of its parts. *)
LEMMA FileTypeParts == FileTypeOK <=> FileCounterTypes /\ CallTypes /\ FileTypes /\ FileFlagTypes
<1>1. ASSUME NEW n \in Nat, NEW v PROVE v \in 0 .. n <=> v \in Nat /\ v <= n
  OBVIOUS
<1> QED
  BY <1>1, FileBoundsAssumption DEF FileTypeOK, FileCounterTypes, CallTypes, Opened, FileTypes, FileFlagTypes

(* The contents a file can have. *)
LEMMA ContentsTypes ==
  Empty \in Contents /\ Torn \in Contents /\ \A v \in Nat : Whole(v) \in Contents
BY DEF Empty, Torn, Whole, Contents

(* The initial state satisfies the invariant. *)
LEMMA FileInitIInv == FileInit => FileIInv
<1> SUFFICES ASSUME FileInit PROVE FileIInv
  OBVIOUS
<1>1. FileTypeOK
  <2>1. FileCounterTypes
    BY FileBoundsAssumption DEF FileInit, FileCounterTypes
  <2>2. CallTypes
    BY DEF FileInit, CallTypes, Opened, Call, Free
  <2>3. FileTypes /\ FileFlagTypes
    BY ContentsTypes DEF FileInit, FileTypes, FileFlagTypes
  <2> QED
    BY <2>1, <2>2, <2>3, FileTypeParts
<1>2. Alone /\ TmpIsMine /\ StateIsSaved /\ Apart
  BY DEF FileInit, Alone, TmpIsMine, StateIsSaved, Apart, Persisting, Free
<1> QED
  BY <1>1, <1>2 DEF FileIInv

(* Every step preserves the types of the counters. *)
LEMMA FileCounterStep == FileTypeOK /\ [FileNext]_fileVars => FileCounterTypes'
<1> SUFFICES ASSUME FileCounterTypes, CallTypes, FileTypes, [FileNext]_fileVars PROVE FileCounterTypes'
  BY FileTypeParts
<1> USE FileBoundsAssumption DEF FileCounterTypes, files, bounds
<1>1. ASSUME NEW p \in Tasks, Change(p) PROVE FileCounterTypes'
  BY <1>1 DEF Change
<1>2. ASSUME NEW p \in Tasks, Copy(p) \/ Open(p) \/ Write(p) PROVE FileCounterTypes'
  BY <1>2 DEF Copy, Open, Write
<1>3. ASSUME NEW p \in Tasks, Rename(p) PROVE FileCounterTypes'
  <2>1. task[p].copy \in Nat
    BY DEF CallTypes, Call
  <2> QED
    BY <1>3, <2>1 DEF Rename
<1>4. ASSUME NEW p \in Tasks, Fail(p) PROVE FileCounterTypes'
  BY <1>4 DEF Fail
<1>5. CASE GcPersists \/ AgentCrashes
  BY <1>5 DEF GcPersists, AgentCrashes
<1>6. CASE LoadState
  <2>1. state # NoFile => content[state].version \in Nat
    BY DEF FileTypes, Contents
  <2> QED
    BY <1>6, <2>1 DEF LoadState
<1>7. CASE UNCHANGED fileVars
  BY <1>7 DEF fileVars
<1> QED
  BY <1>1, <1>2, <1>3, <1>4, <1>5, <1>6, <1>7 DEF FileNext, Persist

(* Every step preserves the types of the tasks: a task has opened a file
   exactly while it writes and renames. *)
LEMMA CallStep == FileTypeOK /\ [FileNext]_fileVars => CallTypes'
<1> SUFFICES ASSUME FileCounterTypes, CallTypes, FileTypes, [FileNext]_fileVars PROVE CallTypes'
  BY FileTypeParts
<1> USE InodesAssumption DEF CallTypes, Opened, Call
<1>1. ASSUME NEW p \in Tasks, Change(p) PROVE CallTypes'
  BY <1>1 DEF Change, CallerAt
<1>2. ASSUME NEW p \in Tasks, Copy(p) PROVE CallTypes'
  BY <1>2 DEF Copy, CallerAt, FileCounterTypes
<1>3. ASSUME NEW p \in Tasks, Open(p) PROVE CallTypes'
  <2>1. PICK i \in Inodes : task' = [task EXCEPT ![p].at = "write", ![p].fd = i]
    BY <1>3 DEF Open, Unused, FileTypes
  <2> QED
    BY <2>1
<1>4. ASSUME NEW p \in Tasks, Write(p) PROVE CallTypes'
  BY <1>4 DEF Write, CallerAt
<1>5. ASSUME NEW p \in Tasks, task' = [task EXCEPT ![p] = Free] PROVE CallTypes'
  BY <1>5 DEF Free
<1>6. ASSUME NEW p \in Tasks, Rename(p) \/ Fail(p) PROVE CallTypes'
  BY <1>5, <1>6 DEF Rename, Fail
<1>7. ASSUME task' = [task EXCEPT ![Gc].at = "copy"], task[Gc].at = "idle" PROVE CallTypes'
  BY <1>7 DEF Tasks
<1>8. CASE GcPersists
  BY <1>7, <1>8 DEF GcPersists, CallerAt
<1>9. CASE AgentCrashes
  BY <1>9 DEF AgentCrashes, Free
<1>10. CASE UNCHANGED task
  BY <1>10
<1>11. CASE LoadState
  <2>1. CASE task' = [task EXCEPT ![Gc] = [Free EXCEPT !.at = "copy"]]
    BY <2>1 DEF Free, Tasks
  <2> QED
    BY <1>10, <1>11, <2>1 DEF LoadState
<1> QED
  BY <1>1, <1>2, <1>3, <1>4, <1>6, <1>8, <1>9, <1>10, <1>11 DEF FileNext, Persist, fileVars

(* Every step preserves the types of the files and flags. *)
LEMMA FileStep == FileTypeOK /\ [FileNext]_fileVars => (FileTypes /\ FileFlagTypes)'
<1> SUFFICES ASSUME CallTypes, FileTypes, FileFlagTypes, [FileNext]_fileVars PROVE (FileTypes /\ FileFlagTypes)'
  BY FileTypeParts
<1> USE ContentsTypes DEF FileTypes, FileFlagTypes, files, bounds
<1>1. ASSUME NEW p \in Tasks, Change(p) \/ Copy(p) PROVE (FileTypes /\ FileFlagTypes)'
  BY <1>1 DEF Change, Copy
<1>2. ASSUME NEW p \in Tasks, Open(p) PROVE (FileTypes /\ FileFlagTypes)'
  <2>1. PICK i \in Inodes : tmp' = i /\ content' = [content EXCEPT ![i] = Empty]
    BY <1>2 DEF Open, Unused
  <2> QED
    BY <1>2, <2>1 DEF Open
<1>3. ASSUME NEW p \in Tasks, Write(p) PROVE (FileTypes /\ FileFlagTypes)'
  <2>1. PICK c \in {Whole(task[p].copy), Torn} :
          content' = [content EXCEPT ![task[p].fd] = c]
    BY <1>3 DEF Write
  <2>2. c \in Contents
    BY <2>1 DEF CallTypes, Call
  <2> QED
    BY <1>3, <2>1, <2>2 DEF Write
<1>4. ASSUME NEW p \in Tasks, Rename(p) PROVE (FileTypes /\ FileFlagTypes)'
  BY <1>4 DEF Rename
<1>5. ASSUME NEW p \in Tasks, Fail(p) PROVE (FileTypes /\ FileFlagTypes)'
  BY <1>5 DEF Fail
<1>6. CASE GcPersists \/ AgentCrashes \/ LoadState
  BY <1>6 DEF GcPersists, AgentCrashes, LoadState
<1>7. CASE UNCHANGED fileVars
  BY <1>7 DEF fileVars
<1> QED
  BY <1>1, <1>2, <1>3, <1>4, <1>5, <1>6, <1>7 DEF FileNext, Persist

-----------------------------------------------------------------------------
(* How the call under way, the temporary file and the state file are related as
   long as no two calls have overlapped. *)
FileSafe == Alone /\ TmpIsMine /\ StateIsSaved /\ Apart

(* Every step preserves this, unless it is the beginning of an overlap. *)
LEMMA FileSafeStep == FileIInv /\ [FileNext]_fileVars => (~overlapped => FileSafe)'
<1> SUFFICES ASSUME CallTypes, FileTypes, FileFlagTypes, ~overlapped => FileSafe,
                    [FileNext]_fileVars, ~overlapped'
             PROVE  FileSafe'
  BY FileTypeParts DEF FileIInv, FileSafe
<1> USE InodesAssumption DEF files, bounds
<1>0. ~overlapped /\ FileSafe
  <2>1. ASSUME NEW p \in Tasks, Copy(p) PROVE ~overlapped
    BY <2>1 DEF Copy
  <2>2. ~overlapped
    BY <2>1 DEF FileNext, Persist, Change, Open, Write, Rename, Fail, GcPersists, AgentCrashes, LoadState, fileVars
  <2> QED
    BY <2>2
<1> USE DEF FileSafe, Alone, TmpIsMine, StateIsSaved, Apart, Persisting
<1>1. ASSUME NEW p \in Tasks, Change(p) PROVE FileSafe'
  BY <1>0, <1>1 DEF Change, CallerAt, CallTypes, Call
<1>2. ASSUME NEW p \in Tasks, Copy(p) PROVE FileSafe'
  BY <1>0, <1>2 DEF Copy, CallerAt, CallTypes, Call
<1>3. ASSUME NEW p \in Tasks, Open(p) PROVE FileSafe'
  <2>1. PICK i \in Inodes :
          /\ tmp' = i
          /\ content' = [content EXCEPT ![i] = Empty]
          /\ task' = [task EXCEPT ![p].at = "write", ![p].fd = i]
          /\ i # state
    BY <1>0, <1>3 DEF Open, Unused, FileTypes
  <2>2. \A q \in Tasks : Persisting(q) => q = p
    BY <1>0, <1>3 DEF Open, CallerAt
  <2>3. /\ \A q \in Tasks \ {p} : task'[q] = task[q]
        /\ task'[p].at = "write" /\ task'[p].fd = i
    BY <2>1 DEF CallTypes, Call
  <2>4. Alone' /\ TmpIsMine'
    <3>1. \A q \in Tasks \ {p} : task'[q].at \notin {"open", "write", "rename"}
      BY <2>2, <2>3
    <3>2. content'[i] = Empty
      BY <2>1 DEF FileTypes
    <3> QED
      BY <2>1, <2>3, <3>1, <3>2
  <2>5. StateIsSaved'
    BY <1>0, <1>3, <2>1 DEF Open, FileTypes
  <2>6. Apart'
    BY <1>3, <2>1 DEF Open
  <2> QED
    BY <2>4, <2>5, <2>6
<1>4. ASSUME NEW p \in Tasks, Write(p) PROVE FileSafe'
  <2>1. tmp = task[p].fd /\ content[task[p].fd] = Empty /\ task[p].fd \in Inodes
    BY <1>0, <1>4 DEF Write, CallerAt, CallTypes, Opened, Call
  <2>2. content' = [content EXCEPT ![task[p].fd] = Whole(task[p].copy)]
    BY <1>4, <2>1 DEF Write
  <2>3. \A q \in Tasks : Persisting(q) => q = p
    BY <1>0, <1>4 DEF Write, CallerAt
  <2> QED
    BY <1>0, <1>4, <2>1, <2>2, <2>3 DEF Write, CallTypes, Call, FileTypes
<1>5. ASSUME NEW p \in Tasks, Rename(p) PROVE FileSafe'
  <2>1. tmp = task[p].fd /\ content[tmp] = Whole(task[p].copy) /\ tmp # NoFile
    BY <1>0, <1>5 DEF Rename, CallerAt, CallTypes, Opened, Call
  <2>2. \A q \in Tasks : Persisting(q) => q = p
    BY <1>0, <1>5 DEF Rename, CallerAt
  <2> QED
    BY <1>0, <1>5, <2>1, <2>2 DEF Rename, CallTypes, Call, Free
<1>6. ASSUME NEW p \in Tasks, Fail(p) PROVE FileSafe'
  <2>1. task[p].at = "write" => tmp = task[p].fd /\ tmp # NoFile
    BY <1>0 DEF CallTypes, Opened
  <2>2. \A q \in Tasks : Persisting(q) => q = p
    BY <1>0, <1>6 DEF Fail
  <2> QED
    BY <1>0, <1>6, <2>1, <2>2 DEF Fail, CallTypes, FileTypes, Call, Free
<1>7. CASE GcPersists
  BY <1>0, <1>7 DEF GcPersists, CallerAt, CallTypes, Call, Tasks
<1>8. CASE AgentCrashes
  BY <1>0, <1>8 DEF AgentCrashes, Free
<1>9. CASE LoadState
  BY <1>0, <1>9 DEF LoadState, CallTypes, Call, Tasks, Free
<1>10. CASE UNCHANGED fileVars
  BY <1>0, <1>10 DEF fileVars
<1> QED
  BY <1>1, <1>2, <1>3, <1>4, <1>5, <1>6, <1>7, <1>8, <1>9, <1>10 DEF FileNext, Persist

-----------------------------------------------------------------------------
(* The invariant holds in every behaviour. *)
THEOREM FileIInvHolds == FileSpec => []FileIInv
<1>1. (FileTypeOK <=> FileCounterTypes /\ CallTypes /\ FileTypes /\ FileFlagTypes)'
  BY FileTypeParts, PTL
<1>2. FileIInv /\ [FileNext]_fileVars => FileIInv'
  BY <1>1, FileCounterStep, CallStep, FileStep, FileSafeStep DEF FileIInv, FileSafe
<1> QED
  BY FileInitIInv, <1>2, PTL DEF FileSpec

(* Type correctness of the state file's model, for any number of tasks. *)
THEOREM FileTypeCorrect == FileSpec => []FileTypeOK
<1>1. FileIInv => FileTypeOK
  BY DEF FileIInv
<1> QED
  BY FileIInvHolds, <1>1, PTL

(* Without overlapping calls the state file is complete at every moment and
   holds what the last successful call has copied, across any failures and
   crashes: writing to a temporary file and renaming it does what it is meant
   to do when the calls are kept apart. *)
THEOREM WholeWithoutOverlap == FileSpec => []WholeUnlessOverlapped
<1>1. FileIInv => WholeUnlessOverlapped
  BY DEF FileIInv, StateIsSaved, WholeUnlessOverlapped
<1> QED
  BY FileIInvHolds, <1>1, PTL

(*---------------------------- CloudHypervisor ----------------------------*)
Resting == \A t \in Handlers : handling[t].at = "idle"
Ending == \E t \in Handlers : handling[t].at = "end"
Purging == \E t \in Handlers : handling[t].at # "idle" /\ handling[t].purge

(* Before the start command there is nothing. *)
Before ==
  job = "none" => /\ boot = "idle" /\ collector = "idle" /\ Resting
                  /\ known = "absent" /\ handle = "none" /\ ~live

(* A boot is alone, and each of its steps finds what the ones before have left. *)
BootAlone == boot # "idle" => serving /\ collector = "idle" /\ Resting /\ job # "gone"
BootState ==
  /\ boot \in {"network", "disks", "spawn", "failed"} =>
       ~live /\ handle = "none" /\ known = "absent"
  /\ boot \in {"create", "configure", "track"} => live /\ handle = "none" /\ known = "absent"
  /\ boot = "tell" => live /\ handle # "none" /\ known = "absent"
  /\ boot = "persist" => live /\ handle # "none" /\ known = "running"

(* A dead agent has forgotten everything, and a process is in the state file. *)
Down ==
  ~serving => /\ known = "absent" /\ handle = "none" /\ boot = "idle" /\ collector = "idle"
              /\ Resting
              /\ live => file

(* A process in the table has not been touched by any command; a live one out of
   the table is about to be killed; an entry without a process is about to go. *)
Held ==
  serving /\ boot = "idle" =>
    /\ handle # "none" => /\ known = "running" /\ collector \in {"idle", "drop"}
                          /\ \A t \in Handlers : handling[t].at \in {"idle", "take"}
    /\ live => handle # "none" \/ Ending
    /\ known = "running" =>
         \/ handle # "none" \/ collector = "forget"
         \/ \E t \in Handlers : handling[t].at \in {"end", "forget"}

(* A deleted VM is being purged, or nothing of it is left; what purges does not
   answer instead. *)
Purged ==
  /\ job = "gone" =>
       \/ Purging
       \/ ~dir /\ ~file /\ ~tap /\ known = "absent" /\ handle = "none" /\ (live => Ending)
  /\ \A t \in Handlers : handling[t].at = "answer" => ~handling[t].purge

Calm == ~alien /\ Before /\ BootAlone /\ BootState /\ Down /\ Held /\ Purged

-----------------------------------------------------------------------------
(* The parts of ChTypeOK: truth values, the other variables, the tasks. *)
FlagTypes ==
  /\ live \in BOOLEAN /\ alien \in BOOLEAN /\ tap \in BOOLEAN /\ dir \in BOOLEAN
  /\ file \in BOOLEAN /\ serving \in BOOLEAN /\ untold \in BOOLEAN /\ upset \in BOOLEAN
PlainTypes ==
  /\ job \in {"none", "running", "failed", "paused", "gone"}
  /\ known \in {"absent", "running", "failed"} /\ handle \in {"none", "child", "found"}
  /\ boot \in {"idle", "network", "disks", "spawn", "create", "configure", "track", "tell",
               "persist", "failed"}
  /\ collector \in {"idle", "drop", "forget", "erase"}
  /\ orders \in 0 .. MaxOrders /\ mishaps \in 0 .. MaxMishaps /\ outages \in 0 .. MaxOutages
TaskTypes == handling \in [Handlers -> Handling]

(* ChTypeOK is the conjunction of its parts. *)
LEMMA TypeParts == ChTypeOK <=> FlagTypes /\ PlainTypes /\ TaskTypes
BY DEF ChTypeOK, FlagTypes, PlainTypes, TaskTypes

(* The inductive invariant. *)
IInv == FlagTypes /\ PlainTypes /\ TaskTypes /\ (~upset => Calm)
-----------------------------------------------------------------------------
(* The initial state satisfies the invariant. *)
LEMMA InitIInv == ChInit => IInv
<1> SUFFICES ASSUME ChInit PROVE IInv
  OBVIOUS
<1>1. FlagTypes
  BY Zenon DEF ChInit, FlagTypes
<1>2. PlainTypes /\ TaskTypes
  BY ChBoundsAssumption DEF ChInit, PlainTypes, TaskTypes, Handling, Idle
<1>3. Calm
  BY DEF ChInit, Calm, Before, BootAlone, BootState, Down, Held, Purged, Idle, Resting, Ending,
    Purging
<1> QED
  BY <1>1, <1>2, <1>3 DEF IInv

(* The process of a boot goes on with it or dies with it. *)
LEMMA CreateOrKill ==
  /\ BootCreate => (boot' = "configure" /\ live') \/ (boot' = "failed" /\ ~live')
  /\ BootConfigure => (boot' = "track" /\ (live => live')) \/ (boot' = "failed" /\ ~live')
<1>1. BootCreate => \/ boot' = "configure" /\ live /\ live' = live
                    \/ boot' = "failed" /\ live' = FALSE
  BY SMT DEF BootCreate
<1>2. BootConfigure => \/ boot' = "track" /\ live' = live
                       \/ boot' = "failed" /\ live' = FALSE
  BY SMT DEF BootConfigure
<1>3. ASSUME live' = live PROVE live => live'
  BY <1>3
<1>4. ASSUME live' = FALSE PROVE ~live'
  BY <1>4
<1> QED
  BY <1>1, <1>2, <1>3, <1>4, Zenon

(* A step of the boot preserves the invariant. *)
LEMMA BootStepPreserves ==
  ASSUME IInv, Boot
  PROVE IInv'
<1>1. CASE BootNetwork
  <2>1. FlagTypes'
    BY <1>1, Zenon DEF IInv, FlagTypes, BootNetwork, vmTables, BootStep, BootAside, Mishap
  <2>2. PlainTypes' /\ TaskTypes'
    BY <1>1, ChBoundsAssumption DEF IInv, PlainTypes, TaskTypes, Handling, Idle, BootNetwork,
      vmTables, BootStep, BootAside, Mishap
  <2>3. ~upset' => ~upset /\ Calm
    BY <1>1 DEF IInv, BootNetwork, vmTables, BootStep, BootAside, Mishap
  <2>4. ~upset' => Calm'
    BY <1>1, <2>3 DEF IInv, FlagTypes, PlainTypes, TaskTypes, Handling, Idle, Calm, Before,
      BootAlone, BootState, Down, Held, Purged, Resting, Ending, Purging, BootNetwork, vmTables,
      BootStep, BootAside, Mishap
  <2> QED
    BY <2>1, <2>2, <2>4 DEF IInv
<1>2. CASE BootDisks
  <2>1. FlagTypes'
    BY <1>2, Zenon DEF IInv, FlagTypes, BootDisks, vmTables, onHost, BootStep, BootAside, Mishap
  <2>2. PlainTypes' /\ TaskTypes'
    BY <1>2, ChBoundsAssumption DEF IInv, PlainTypes, TaskTypes, Handling, Idle, BootDisks,
      vmTables, onHost, BootStep, BootAside, Mishap
  <2>3. ~upset' => ~upset /\ Calm
    BY <1>2 DEF IInv, BootDisks, vmTables, onHost, BootStep, BootAside, Mishap
  <2>4. ~upset' => Calm'
    BY <1>2, <2>3 DEF IInv, FlagTypes, PlainTypes, TaskTypes, Handling, Idle, Calm, Before,
      BootAlone, BootState, Down, Held, Purged, Resting, Ending, Purging, BootDisks, vmTables,
      onHost, BootStep, BootAside, Mishap
  <2> QED
    BY <2>1, <2>2, <2>4 DEF IInv
<1>3. CASE BootSpawn
  <2>1. FlagTypes'
    BY <1>3, Zenon DEF IInv, FlagTypes, BootSpawn, vmTables, onHost, BootStep, BootAside, Mishap
  <2>2. PlainTypes' /\ TaskTypes'
    BY <1>3, ChBoundsAssumption DEF IInv, PlainTypes, TaskTypes, Handling, Idle, BootSpawn,
      vmTables, onHost, BootStep, BootAside, Mishap
  <2>3. ~upset' => ~upset /\ Calm
    BY <1>3 DEF IInv, BootSpawn, vmTables, onHost, BootStep, BootAside, Mishap
  <2>4. ~upset' => Calm'
    BY <1>3, <2>3 DEF IInv, FlagTypes, PlainTypes, TaskTypes, Handling, Idle, Calm, Before,
      BootAlone, BootState, Down, Held, Purged, Resting, Ending, Purging, BootSpawn, vmTables,
      onHost, BootStep, BootAside, Mishap
  <2> QED
    BY <2>1, <2>2, <2>4 DEF IInv
<1>4. CASE BootCreate
  <2>1. FlagTypes'
    BY <1>4, Zenon DEF IInv, FlagTypes, BootCreate, vmTables, onHost, BootStep, BootAside, Mishap
  <2>2. PlainTypes' /\ TaskTypes'
    BY <1>4, ChBoundsAssumption DEF IInv, PlainTypes, TaskTypes, Handling, Idle, BootCreate,
      vmTables, onHost, BootStep, BootAside, Mishap
  <2>3. ~upset' => ~upset /\ Calm
    BY <1>4 DEF IInv, BootCreate, vmTables, onHost, BootStep, BootAside, Mishap
  <2>4. ~upset' => Calm'
    BY <1>4, <2>3, CreateOrKill DEF IInv, FlagTypes, PlainTypes, TaskTypes, Handling, Idle, Calm,
      Before, BootAlone, BootState, Down, Held, Purged, Resting, Ending, Purging, BootCreate,
      vmTables, onHost, BootStep, BootAside, Mishap
  <2> QED
    BY <2>1, <2>2, <2>4 DEF IInv
<1>5. CASE BootConfigure
  <2>1. FlagTypes'
    BY <1>5, Zenon DEF IInv, FlagTypes, BootConfigure, vmTables, onHost, BootStep, BootAside,
      Mishap
  <2>2. PlainTypes' /\ TaskTypes'
    BY <1>5, ChBoundsAssumption DEF IInv, PlainTypes, TaskTypes, Handling, Idle, BootConfigure,
      vmTables, onHost, BootStep, BootAside, Mishap
  <2>3. ~upset' => ~upset /\ Calm
    BY <1>5 DEF IInv, BootConfigure, vmTables, onHost, BootStep, BootAside, Mishap
  <2>4. ~upset' => Calm'
    BY <1>5, <2>3, CreateOrKill DEF IInv, FlagTypes, PlainTypes, TaskTypes, Handling, Idle, Calm,
      Before, BootAlone, BootState, Down, Held, Purged, Resting, Ending, Purging, BootConfigure,
      vmTables, onHost, BootStep, BootAside, Mishap
  <2> QED
    BY <2>1, <2>2, <2>4 DEF IInv
<1>6. CASE BootTrack
  <2>1. FlagTypes'
    BY <1>6, Zenon DEF IInv, FlagTypes, BootTrack, onHost, BootStep, BootAside
  <2>2. PlainTypes' /\ TaskTypes'
    BY <1>6, ChBoundsAssumption DEF IInv, PlainTypes, TaskTypes, Handling, Idle, BootTrack,
      onHost, BootStep, BootAside
  <2>3. ~upset' => ~upset /\ Calm
    BY <1>6 DEF IInv, BootTrack, onHost, BootStep, BootAside
  <2>4. ~upset' => Calm'
    BY <1>6, <2>3 DEF IInv, FlagTypes, PlainTypes, TaskTypes, Handling, Idle, Calm, Before,
      BootAlone, BootState, Down, Held, Purged, Resting, Ending, Purging, BootTrack, onHost,
      BootStep, BootAside
  <2> QED
    BY <2>1, <2>2, <2>4 DEF IInv
<1>7. CASE BootTell
  <2>1. FlagTypes'
    BY <1>7, Zenon DEF IInv, FlagTypes, BootTell, onHost, BootStep, BootAside
  <2>2. PlainTypes' /\ TaskTypes'
    BY <1>7, ChBoundsAssumption DEF IInv, PlainTypes, TaskTypes, Handling, Idle, BootTell, onHost,
      BootStep, BootAside
  <2>3. ~upset' => ~upset /\ Calm
    BY <1>7 DEF IInv, BootTell, onHost, BootStep, BootAside
  <2>4. ~upset' => Calm'
    BY <1>7, <2>3 DEF IInv, FlagTypes, PlainTypes, TaskTypes, Handling, Idle, Calm, Before,
      BootAlone, BootState, Down, Held, Purged, Resting, Ending, Purging, BootTell, onHost,
      BootStep, BootAside
  <2> QED
    BY <2>1, <2>2, <2>4 DEF IInv
<1>8. CASE BootPersist
  <2>1. FlagTypes'
    BY <1>8, Zenon DEF IInv, FlagTypes, BootPersist, vmTables, BootStep, BootAside, Mishap
  <2>2. PlainTypes' /\ TaskTypes'
    BY <1>8, ChBoundsAssumption DEF IInv, PlainTypes, TaskTypes, Handling, Idle, BootPersist,
      vmTables, BootStep, BootAside, Mishap
  <2>3. ~upset' => ~upset /\ Calm
    BY <1>8 DEF IInv, BootPersist, vmTables, BootStep, BootAside, Mishap
  <2>4. ~upset' => Calm'
    BY <1>8, <2>3 DEF IInv, FlagTypes, PlainTypes, TaskTypes, Handling, Idle, Calm, Before,
      BootAlone, BootState, Down, Held, Purged, Resting, Ending, Purging, BootPersist, vmTables,
      BootStep, BootAside, Mishap
  <2> QED
    BY <2>1, <2>2, <2>4 DEF IInv
<1>9. CASE BootFailed
  <2>1. FlagTypes'
    BY <1>9, Zenon DEF IInv, FlagTypes, BootFailed, onHost, BootStep, BootAside
  <2>2. PlainTypes' /\ TaskTypes'
    BY <1>9, ChBoundsAssumption DEF IInv, PlainTypes, TaskTypes, Handling, Idle, BootFailed,
      onHost, BootStep, BootAside
  <2>3. ~upset' => ~upset /\ Calm
    BY <1>9 DEF IInv, BootFailed, onHost, BootStep, BootAside
  <2>4. ~upset' => Calm'
    BY <1>9, <2>3 DEF IInv, FlagTypes, PlainTypes, TaskTypes, Handling, Idle, Calm, Before,
      BootAlone, BootState, Down, Held, Purged, Resting, Ending, Purging, BootFailed, onHost,
      BootStep, BootAside
  <2> QED
    BY <2>1, <2>2, <2>4 DEF IInv
<1> QED
  BY <1>1, <1>2, <1>3, <1>4, <1>5, <1>6, <1>7, <1>8, <1>9 DEF Boot

(* A step of a command preserves the invariant. *)
LEMMA TaskStepPreserves ==
  ASSUME IInv, NEW t \in Handlers, HandlerStep(t)
  PROVE IInv'
<1>1. CASE Take(t)
  <2>1. FlagTypes'
    BY <1>1, Zenon DEF IInv, FlagTypes, Take, onHost, HandlerAt, TaskAside
  <2>2. handling'[t] \in Handling
    BY <1>1 DEF IInv, TaskTypes, Handling, Take, HandlerAt
  <2>3. PlainTypes' /\ TaskTypes'
    BY <1>1, ChBoundsAssumption, <2>2 DEF IInv, PlainTypes, TaskTypes, Handling, Idle, Take,
      onHost, HandlerAt, TaskAside
  <2>4. ~upset' => ~upset /\ Calm
    BY <1>1 DEF IInv, Take, onHost, HandlerAt, TaskAside
  <2>5. ~upset' => Calm'
    BY <1>1, <2>4 DEF IInv, FlagTypes, PlainTypes, TaskTypes, Handling, Idle, Calm, Before,
      BootAlone, BootState, Down, Held, Purged, Resting, Ending, Purging, Take, onHost, HandlerAt,
      TaskAside
  <2> QED
    BY <2>1, <2>3, <2>5 DEF IInv
<1>2. CASE End(t)
  <2>1. FlagTypes'
    BY <1>2, Zenon DEF IInv, FlagTypes, End, vmTables, onHost, HandlerAt
  <2>2. PlainTypes' /\ TaskTypes'
    BY <1>2, ChBoundsAssumption DEF IInv, PlainTypes, TaskTypes, Handling, Idle, End, vmTables,
      onHost, HandlerAt
  <2>3. ~upset' => ~upset /\ Calm
    BY <1>2 DEF IInv, End, vmTables, onHost, HandlerAt
  <2>4. ~upset' => Calm'
    BY <1>2, <2>3 DEF IInv, FlagTypes, PlainTypes, TaskTypes, Handling, Idle, Calm, Before,
      BootAlone, BootState, Down, Held, Purged, Resting, Ending, Purging, End, vmTables, onHost,
      HandlerAt
  <2> QED
    BY <2>1, <2>2, <2>4 DEF IInv
<1>3. CASE ForgetVm(t)
  <2>1. FlagTypes'
    BY <1>3, Zenon DEF IInv, FlagTypes, ForgetVm, onHost, HandlerAt, HandlerGoes, TaskAside
  <2>2. PlainTypes' /\ TaskTypes'
    BY <1>3, ChBoundsAssumption DEF IInv, PlainTypes, TaskTypes, Handling, Idle, ForgetVm, onHost,
      HandlerAt, HandlerGoes, TaskAside
  <2>3. ~upset' => ~upset /\ Calm
    BY <1>3 DEF IInv, ForgetVm, onHost, HandlerAt, HandlerGoes, TaskAside
  <2>4. ~upset' => Calm'
    BY <1>3, <2>3 DEF IInv, FlagTypes, PlainTypes, TaskTypes, Handling, Idle, Calm, Before,
      BootAlone, BootState, Down, Held, Purged, Resting, Ending, Purging, ForgetVm, onHost,
      HandlerAt, HandlerGoes, TaskAside
  <2> QED
    BY <2>1, <2>2, <2>4 DEF IInv
<1>4. CASE EraseState(t)
  <2>1. FlagTypes'
    BY <1>4, Zenon DEF IInv, FlagTypes, EraseState, vmTables, HandlerAt, HandlerGoes, TaskAside,
      Erase
  <2>2. PlainTypes' /\ TaskTypes'
    BY <1>4, ChBoundsAssumption DEF IInv, PlainTypes, TaskTypes, Handling, Idle, EraseState,
      vmTables, HandlerAt, HandlerGoes, TaskAside, Erase
  <2>3. ~upset' => ~upset /\ Calm
    BY <1>4 DEF IInv, EraseState, vmTables, HandlerAt, HandlerGoes, TaskAside, Erase
  <2>4. ~upset' => Calm'
    BY <1>4, <2>3 DEF IInv, FlagTypes, PlainTypes, TaskTypes, Handling, Idle, Calm, Before,
      BootAlone, BootState, Down, Held, Purged, Resting, Ending, Purging, EraseState, vmTables,
      HandlerAt, HandlerGoes, TaskAside, Erase
  <2> QED
    BY <2>1, <2>2, <2>4 DEF IInv
<1>5. CASE DeleteOrphan(t)
  <2>1. FlagTypes'
    BY <1>5, Zenon DEF IInv, FlagTypes, DeleteOrphan, HandlerAt, TaskAside, Erase
  <2>2. PlainTypes' /\ TaskTypes'
    BY <1>5, ChBoundsAssumption DEF IInv, PlainTypes, TaskTypes, Handling, Idle, DeleteOrphan,
      HandlerAt, TaskAside, Erase
  <2>3. ~upset' => ~upset /\ Calm
    BY <1>5 DEF IInv, DeleteOrphan, HandlerAt, TaskAside, Erase
  <2>4. ~upset' => Calm'
    BY <1>5, <2>3 DEF IInv, FlagTypes, PlainTypes, TaskTypes, Handling, Idle, Calm, Before,
      BootAlone, BootState, Down, Held, Purged, Resting, Ending, Purging, DeleteOrphan, HandlerAt,
      TaskAside, Erase
  <2> QED
    BY <2>1, <2>2, <2>4 DEF IInv
<1>6. CASE Answer(t)
  <2>1. FlagTypes'
    BY <1>6, Zenon DEF IInv, FlagTypes, Answer, vmTables, onHost, HandlerAt, TaskAside, Mishap
  <2>2. PlainTypes' /\ TaskTypes'
    BY <1>6, ChBoundsAssumption DEF IInv, PlainTypes, TaskTypes, Handling, Idle, Answer, vmTables,
      onHost, HandlerAt, TaskAside, Mishap
  <2>3. ~upset' => ~upset /\ Calm
    BY <1>6 DEF IInv, Answer, vmTables, onHost, HandlerAt, TaskAside, Mishap
  <2>4. job' = "gone" => job = "gone"
    BY <1>6 DEF Answer
  <2>5. ~upset' => ~alien'
    BY <1>6, <2>3 DEF IInv, FlagTypes, PlainTypes, TaskTypes, Handling, Idle, Calm, Before,
      BootAlone, BootState, Down, Held, Purged, Resting, Ending, Purging, Answer, vmTables,
      onHost, HandlerAt, TaskAside, Mishap
  <2>6. ~upset' => Before'
    BY <1>6, <2>3 DEF IInv, FlagTypes, PlainTypes, TaskTypes, Handling, Idle, Calm, Before,
      BootAlone, BootState, Down, Held, Purged, Resting, Ending, Purging, Answer, vmTables,
      onHost, HandlerAt, TaskAside, Mishap
  <2>7. ~upset' => BootAlone'
    BY <1>6, <2>3 DEF IInv, FlagTypes, PlainTypes, TaskTypes, Handling, Idle, Calm, Before,
      BootAlone, BootState, Down, Held, Purged, Resting, Ending, Purging, Answer, vmTables,
      onHost, HandlerAt, TaskAside, Mishap
  <2>8. ~upset' => BootState'
    BY <1>6, <2>3, <2>4 DEF IInv, FlagTypes, PlainTypes, TaskTypes, Handling, Idle, Calm, Before,
      BootAlone, BootState, Down, Held, Purged, Resting, Ending, Purging, Answer, vmTables,
      onHost, HandlerAt, TaskAside, Mishap
  <2>9. ~upset' => Down'
    BY <1>6, <2>3 DEF IInv, FlagTypes, PlainTypes, TaskTypes, Handling, Idle, Calm, Before,
      BootAlone, BootState, Down, Held, Purged, Resting, Ending, Purging, Answer, vmTables,
      onHost, HandlerAt, TaskAside, Mishap
  <2>10. ~upset' => Held'
    BY <1>6, <2>3 DEF IInv, FlagTypes, PlainTypes, TaskTypes, Handling, Idle, Calm, Before,
      BootAlone, BootState, Down, Held, Purged, Resting, Ending, Purging, Answer, vmTables,
      onHost, HandlerAt, TaskAside, Mishap
  <2>11. ~upset' => Purged'
    BY <1>6, <2>3, <2>4 DEF IInv, FlagTypes, PlainTypes, TaskTypes, Handling, Idle, Calm, Before,
      BootAlone, BootState, Down, Held, Purged, Resting, Ending, Purging, Answer, vmTables,
      onHost, HandlerAt, TaskAside, Mishap
  <2> QED
    BY <2>1, <2>2, <2>5, <2>6, <2>7, <2>8, <2>9, <2>10, <2>11 DEF IInv, Calm
<1> QED
  BY <1>1, <1>2, <1>3, <1>4, <1>5, <1>6 DEF HandlerStep

(* A step of the garbage collector preserves the invariant. *)
LEMMA GcStepPreserves ==
  ASSUME IInv, RunGc
  PROVE IInv'
<1>1. CASE CollectDead
  <2>1. FlagTypes'
    BY <1>1, Zenon DEF IInv, FlagTypes, CollectDead, vmTables, onHost, GcAside, PidAlive, tally
  <2>2. PlainTypes' /\ TaskTypes'
    BY <1>1, ChBoundsAssumption DEF IInv, PlainTypes, TaskTypes, Handling, Idle, CollectDead,
      vmTables, onHost, GcAside, PidAlive, tally
  <2>3. ~upset' => ~upset /\ Calm
    BY <1>1 DEF IInv, CollectDead, vmTables, onHost, GcAside, PidAlive, tally
  <2>4. ~upset' => Calm'
    BY <1>1, <2>3 DEF IInv, FlagTypes, PlainTypes, TaskTypes, Handling, Idle, Calm, Before,
      BootAlone, BootState, Down, Held, Purged, Resting, Ending, Purging, CollectDead, vmTables,
      onHost, GcAside, PidAlive, tally
  <2> QED
    BY <2>1, <2>2, <2>4 DEF IInv
<1>2. CASE Drop
  <2>1. FlagTypes'
    BY <1>2, Zenon DEF IInv, FlagTypes, Drop, onHost, GcAside, tally
  <2>2. PlainTypes' /\ TaskTypes'
    BY <1>2, ChBoundsAssumption DEF IInv, PlainTypes, TaskTypes, Handling, Idle, Drop, onHost,
      GcAside, tally
  <2>3. ~upset' => ~upset /\ Calm
    BY <1>2 DEF IInv, Drop, onHost, GcAside, tally
  <2>4. ~upset' => Calm'
    BY <1>2, <2>3 DEF IInv, FlagTypes, PlainTypes, TaskTypes, Handling, Idle, Calm, Before,
      BootAlone, BootState, Down, Held, Purged, Resting, Ending, Purging, Drop, onHost, GcAside,
      tally
  <2> QED
    BY <2>1, <2>2, <2>4 DEF IInv
<1>3. CASE ForgetEnded
  <2>1. FlagTypes'
    BY <1>3, Zenon DEF IInv, FlagTypes, ForgetEnded, onHost, GcAside, tally
  <2>2. PlainTypes' /\ TaskTypes'
    BY <1>3, ChBoundsAssumption DEF IInv, PlainTypes, TaskTypes, Handling, Idle, ForgetEnded,
      onHost, GcAside, tally
  <2>3. ~upset' => ~upset /\ Calm
    BY <1>3 DEF IInv, ForgetEnded, onHost, GcAside, tally
  <2>4. ~upset' => Calm'
    BY <1>3, <2>3 DEF IInv, FlagTypes, PlainTypes, TaskTypes, Handling, Idle, Calm, Before,
      BootAlone, BootState, Down, Held, Purged, Resting, Ending, Purging, ForgetEnded, onHost,
      GcAside, tally
  <2> QED
    BY <2>1, <2>2, <2>4 DEF IInv
<1>4. CASE EraseEnded
  <2>1. FlagTypes'
    BY <1>4, Zenon DEF IInv, FlagTypes, EraseEnded, vmTables, GcAside, Erase, tally
  <2>2. PlainTypes' /\ TaskTypes'
    BY <1>4, ChBoundsAssumption DEF IInv, PlainTypes, TaskTypes, Handling, Idle, EraseEnded,
      vmTables, GcAside, Erase, tally
  <2>3. ~upset' => ~upset /\ Calm
    BY <1>4 DEF IInv, EraseEnded, vmTables, GcAside, Erase, tally
  <2>4. ~upset' => Calm'
    BY <1>4, <2>3 DEF IInv, FlagTypes, PlainTypes, TaskTypes, Handling, Idle, Calm, Before,
      BootAlone, BootState, Down, Held, Purged, Resting, Ending, Purging, EraseEnded, vmTables,
      GcAside, Erase, tally
  <2> QED
    BY <2>1, <2>2, <2>4 DEF IInv
<1> QED
  BY <1>1, <1>2, <1>3, <1>4 DEF RunGc

(* A command, a message, a death or a restart preserves the invariant. *)
LEMMA OtherStepPreserves ==
  ASSUME IInv,
         \/ StartVm \/ (\E t \in Handlers : StopOrDelete(t)) \/ Heartbeat \/ VmDies
         \/ Outage \/ Adopt \/ UNCHANGED chVars
  PROVE IInv'
<1>1. CASE StartVm
  <2>1. FlagTypes'
    BY <1>1, Zenon DEF IInv, FlagTypes, StartVm, vmTables, onHost, tally
  <2>2. PlainTypes' /\ TaskTypes'
    BY <1>1, ChBoundsAssumption DEF IInv, PlainTypes, TaskTypes, Handling, Idle, StartVm,
      vmTables, onHost, tally
  <2>3. ~upset' => ~upset /\ Calm
    BY <1>1 DEF IInv, StartVm, vmTables, onHost, tally
  <2>4. ~upset' => Calm'
    BY <1>1, <2>3 DEF IInv, FlagTypes, PlainTypes, TaskTypes, Handling, Idle, Calm, Before,
      BootAlone, BootState, Down, Held, Purged, Resting, Ending, Purging, StartVm, vmTables,
      onHost, tally
  <2> QED
    BY <2>1, <2>2, <2>4 DEF IInv
<1>2. ASSUME NEW t \in Handlers, StopOrDelete(t) PROVE IInv'
  <2>1. FlagTypes'
    BY <1>2, Zenon DEF IInv, FlagTypes, StopOrDelete, vmTables, onHost, HandlerAt
  <2>2. PlainTypes' /\ TaskTypes'
    BY <1>2, ChBoundsAssumption DEF IInv, PlainTypes, TaskTypes, Handling, Idle, StopOrDelete,
      vmTables, onHost, HandlerAt
  <2>3. ~upset' => ~upset /\ Calm
    BY <1>2 DEF IInv, StopOrDelete, vmTables, onHost, HandlerAt
  <2>4. ~upset' => Calm'
    BY <1>2, <2>3 DEF IInv, FlagTypes, PlainTypes, TaskTypes, Handling, Idle, Calm, Before,
      BootAlone, BootState, Down, Held, Purged, Resting, Ending, Purging, StopOrDelete, vmTables,
      onHost, HandlerAt
  <2> QED
    BY <2>1, <2>2, <2>4 DEF IInv
<1>3. CASE Heartbeat
  <2>1. FlagTypes'
    BY <1>3, Zenon DEF IInv, FlagTypes, Heartbeat, vmTables, onHost, tally
  <2>2. PlainTypes' /\ TaskTypes'
    BY <1>3, ChBoundsAssumption DEF IInv, PlainTypes, TaskTypes, Handling, Idle, Heartbeat,
      vmTables, onHost, tally
  <2>3. ~upset' => ~upset /\ Calm
    BY <1>3 DEF IInv, Heartbeat, vmTables, onHost, tally
  <2>4. ~upset' => Calm'
    BY <1>3, <2>3 DEF IInv, FlagTypes, PlainTypes, TaskTypes, Handling, Idle, Calm, Before,
      BootAlone, BootState, Down, Held, Purged, Resting, Ending, Purging, Heartbeat, vmTables,
      onHost, tally
  <2> QED
    BY <2>1, <2>2, <2>4 DEF IInv
<1>4. CASE VmDies
  <2>1. FlagTypes'
    BY <1>4, Zenon DEF IInv, FlagTypes, VmDies, vmTables, onHost, Mishap
  <2>2. PlainTypes' /\ TaskTypes'
    BY <1>4, ChBoundsAssumption DEF IInv, PlainTypes, TaskTypes, Handling, Idle, VmDies, vmTables,
      onHost, Mishap
  <2>3. ~upset' => ~upset /\ Calm
    BY <1>4 DEF IInv, VmDies, vmTables, onHost, Mishap
  <2>4. ~upset' => Calm'
    BY <1>4, <2>3 DEF IInv, FlagTypes, PlainTypes, TaskTypes, Handling, Idle, Calm, Before,
      BootAlone, BootState, Down, Held, Purged, Resting, Ending, Purging, VmDies, vmTables,
      onHost, Mishap
  <2> QED
    BY <2>1, <2>2, <2>4 DEF IInv
<1>5. CASE Outage
  <2>1. FlagTypes'
    BY <1>5, Zenon DEF IInv, FlagTypes, Outage, onHost, Busy
  <2>2. PlainTypes' /\ TaskTypes'
    BY <1>5, ChBoundsAssumption DEF IInv, PlainTypes, TaskTypes, Handling, Idle, Outage, onHost,
      Busy
  <2>3. ~upset' => ~upset /\ Calm
    BY <1>5 DEF IInv, Outage, onHost, Busy
  <2>4. ~upset' => Calm'
    BY <1>5, <2>3 DEF IInv, FlagTypes, PlainTypes, TaskTypes, Handling, Idle, Calm, Before,
      BootAlone, BootState, Down, Held, Purged, Resting, Ending, Purging, Outage, onHost, Busy
  <2> QED
    BY <2>1, <2>2, <2>4 DEF IInv
<1>6. CASE Adopt
  <2>1. FlagTypes'
    BY <1>6, Zenon DEF IInv, FlagTypes, Adopt, vmTables, onHost, tally, Erase, PidAlive
  <2>2. PlainTypes' /\ TaskTypes'
    BY <1>6, ChBoundsAssumption DEF IInv, PlainTypes, TaskTypes, Handling, Idle, Adopt, vmTables,
      onHost, tally, Erase, PidAlive
  <2>3. ~upset' => ~upset /\ Calm
    BY <1>6 DEF IInv, Adopt, vmTables, onHost, tally, Erase, PidAlive
  <2>4. ~upset' => Calm'
    <3>1. CASE file /\ PidAlive
      BY <1>6, <2>3, <3>1 DEF IInv, FlagTypes, PlainTypes, TaskTypes, Handling, Idle, Calm,
        Before, BootAlone, BootState, Down, Held, Purged, Resting, Ending, Purging, Adopt, vmTables,
        onHost, tally, Erase, PidAlive
    <3>2. CASE ~(file /\ PidAlive)
      BY <1>6, <2>3, <3>2 DEF IInv, FlagTypes, PlainTypes, TaskTypes, Handling, Idle, Calm,
        Before, BootAlone, BootState, Down, Held, Purged, Resting, Ending, Purging, Adopt, vmTables,
        onHost, tally, Erase, PidAlive
    <3> QED
      BY <3>1, <3>2
  <2> QED
    BY <2>1, <2>2, <2>4 DEF IInv
<1>7. CASE UNCHANGED chVars
  BY <1>7 DEF chVars, vmTables, onHost, tally, IInv, FlagTypes, PlainTypes, TaskTypes, Calm,
    Before, BootAlone, BootState, Down, Held, Purged, Resting, Ending, Purging, Handling
<1> QED
  BY <1>1, <1>2, <1>3, <1>4, <1>5, <1>6, <1>7

(* The invariant is inductive. *)
LEMMA NextIInv == IInv /\ [ChNext]_chVars => IInv'
BY BootStepPreserves, TaskStepPreserves, GcStepPreserves, OtherStepPreserves DEF ChNext

(* Every reachable state satisfies the invariant. *)
LEMMA Inductive == ChSpec => []IInv
BY InitIInv, NextIInv, PTL DEF ChSpec

-----------------------------------------------------------------------------
(* The variables keep their types: a step finds no status, step or counter the
   manager does not know. *)
THEOREM TypeCorrect == ChSpec => []ChTypeOK
<1>1. IInv => ChTypeOK
  BY TypeParts DEF IInv
<1> QED
  BY <1>1, Inductive, PTL

(* Unless a command meets a boot or a crash comes at a bad moment, process,
   table of processes and table of VMs agree whenever the manager rests. *)
THEOREM VmsAreHeld == ChSpec => []EachVmIsHeld
<1>1. IInv => EachVmIsHeld
  BY DEF IInv, FlagTypes, PlainTypes, TaskTypes, Calm, Before, BootAlone, BootState, Down, Held,
    Ending, Resting, EachVmIsHeld, HostQuiet, Busy
<1> QED
  BY <1>1, Inductive, PTL

(* Unless a command or the death of the process has met the boot, or a crash
   came at a bad moment, delete_vm leaves no process, entry, directory and TAP
   device, however many other stops and deletes overlap it. *)
THEOREM NothingIsLeft == ChSpec => []GoneIsGone
<1>1. IInv => GoneIsGone
  BY DEF IInv, FlagTypes, PlainTypes, TaskTypes, Calm, Held, Purged, Purging, Ending, GoneIsGone,
    HostQuiet, Busy
<1> QED
  BY <1>1, Inductive, PTL
===============================================================================
