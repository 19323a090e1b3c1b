------------------------------ MODULE StateFile ------------------------------
(***************************************************************************)
(* The agent's state file, agent-state.json: what the Firecracker manager  *)
(* writes of its table of VMs and finds again after a restart.             *)
(*                                                                         *)
(* persist_runtime_state_to_disk takes a copy of the table under its       *)
(* locks, releases them, writes the copy to agent-state.json.tmp and       *)
(* renames that file over agent-state.json.  Every command for a VM, every *)
(* start in the background and the garbage collector call it, each in its  *)
(* own task; nothing keeps two calls apart, and the name of the temporary  *)
(* file is the same for all.                                               *)
(*                                                                         *)
(* A file name stands for an inode; a task that has opened a file goes on  *)
(* writing to its inode whatever becomes of the name.  The table is        *)
(* abstracted to the number of its last change.                            *)
(***************************************************************************)
EXTENDS Naturals

CONSTANTS Callers,     \* tasks that run commands and background starts
          Gc,          \* the task of the garbage collector
          Inodes,      \* one more than there are tasks is enough
          NoFile,      \* the inode of a name without a file
          MaxChanges,  \* bound: changes of the table
          MaxAgentCrashes, \* bound: crashes of the agent
          MaxFailures  \* bound: failed file operations

ASSUME TasksAssumption == Gc \notin Callers
ASSUME InodesAssumption == NoFile \notin Inodes
ASSUME FileBoundsAssumption == MaxChanges \in Nat /\ MaxAgentCrashes \in Nat /\ MaxFailures \in Nat

VARIABLES
  memory,      \* the table of VMs, 0 when it is empty
  changes,     \* changes of the table so far
  loaded,      \* the agent runs and has loaded its state
  task,        \* what each task does
  content,     \* what the inodes hold
  tmp,         \* the inode of agent-state.json.tmp
  state,       \* the inode of agent-state.json
  agentCrashes,\* crashes so far
  failures,    \* failures so far
  saved,       \* history: what the last successful call has taken a copy of
  overlapped   \* history: a call began during another one

files == <<content, tmp, state>>
bounds == <<agentCrashes, failures>>
fileVars == <<memory, changes, loaded, task, files, bounds, saved, overlapped>>

Tasks == Callers \cup {Gc}
Contents == [kind : {"empty", "whole", "torn"}, version : Nat]
Empty == [kind |-> "empty", version |-> 0]
Torn  == [kind |-> "torn", version |-> 0]
Whole(v) == [kind |-> "whole", version |-> v]

(* at: the next step of the task; copy: its copy of the table; fd: the inode
   it has opened. *)
Call == [at : {"idle", "copy", "open", "write", "rename"}, copy : Nat,
          fd : Inodes \cup {NoFile}]
Free == [at |-> "idle", copy |-> 0, fd |-> NoFile]

FileTypeOK ==
  /\ memory \in Nat /\ changes \in 0 .. MaxChanges
  /\ loaded \in BOOLEAN
  /\ task \in [Tasks -> Call]
  /\ \A p \in Tasks : task[p].fd # NoFile <=> task[p].at \in {"write", "rename"}
  /\ content \in [Inodes -> Contents]
  /\ tmp \in Inodes \cup {NoFile} /\ state \in Inodes \cup {NoFile}
  /\ agentCrashes \in 0 .. MaxAgentCrashes /\ failures \in 0 .. MaxFailures
  /\ saved \in Nat
  /\ overlapped \in BOOLEAN

FileInit ==
  /\ memory = 0 /\ changes = 0
  /\ loaded = TRUE
  /\ task = [p \in Tasks |-> Free]
  /\ content = [i \in Inodes |-> Empty]
  /\ tmp = NoFile /\ state = NoFile
  /\ agentCrashes = 0 /\ failures = 0
  /\ saved = 0
  /\ overlapped = FALSE

-----------------------------------------------------------------------------
CallerAt(p, point) == loaded /\ task[p].at = point
Persisting(p) == task[p].at \in {"open", "write", "rename"}

(* A task changes the table, once or several times, and then persists it. *)
Change(p) ==
  /\ CallerAt(p, "idle") \/ CallerAt(p, "copy")
  /\ changes < MaxChanges
  /\ changes' = changes + 1
  /\ memory' = changes + 1
  /\ task' = [task EXCEPT ![p].at = "copy"]
  /\ UNCHANGED <<loaded, files, bounds, saved, overlapped>>

(* Mutant: the garbage collector persists no table that is on disk already. *)
CollectOnce ==
  /\ CallerAt(Gc, "idle") /\ state = NoFile
  /\ task' = [task EXCEPT ![Gc].at = "copy"]
  /\ UNCHANGED <<memory, changes, loaded, files, bounds, saved, overlapped>>

(* The garbage collector persists the table in every round, changed or not. *)
GcPersists ==
  /\ CallerAt(Gc, "idle")
  /\ task' = [task EXCEPT ![Gc].at = "copy"]
  /\ UNCHANGED <<memory, changes, loaded, files, bounds, saved, overlapped>>

(* Both locks are held while the copy is taken. *)
Copy(p) ==
  /\ CallerAt(p, "copy")
  /\ task' = [task EXCEPT ![p].at = "open", ![p].copy = memory]
  /\ overlapped' = (overlapped \/ \E q \in Tasks \ {p} : Persisting(q))
  /\ UNCHANGED <<memory, changes, loaded, files, bounds, saved>>

(* tokio::fs::write opens the temporary file, creating or truncating it ... *)
Unused == Inodes \ ({tmp, state} \cup {task[p].fd : p \in Tasks})

Open(p) ==
  /\ CallerAt(p, "open")
  /\ LET i == IF tmp = NoFile THEN CHOOSE i \in Unused : TRUE ELSE tmp IN
       /\ tmp = NoFile => Unused # {}
       /\ tmp' = i
       /\ content' = [content EXCEPT ![i] = Empty]
       /\ task' = [task EXCEPT ![p].at = "write", ![p].fd = i]
  /\ UNCHANGED <<memory, changes, loaded, state, bounds, saved, overlapped>>

(* ... and writes from its beginning: what another task has written meanwhile
   is overwritten, its end remains when it was longer. *)
Write(p) ==
  /\ CallerAt(p, "write")
  /\ LET i == task[p].fd
         new == Whole(task[p].copy) IN
       \E c \in {new} \cup (IF content[i] \in {Empty, new} THEN {} ELSE {Torn}) :
         content' = [content EXCEPT ![i] = c]
  /\ task' = [task EXCEPT ![p].at = "rename"]
  /\ UNCHANGED <<memory, changes, loaded, tmp, state, bounds, saved, overlapped>>

(* The rename takes whatever the name stands for; it fails when another task
   has renamed the file already. *)
Rename(p) ==
  /\ CallerAt(p, "rename")
  /\ IF tmp = NoFile
       THEN UNCHANGED <<tmp, state, saved>>
       ELSE state' = tmp /\ tmp' = NoFile /\ saved' = task[p].copy
  /\ task' = [task EXCEPT ![p] = Free]
  /\ UNCHANGED <<memory, changes, loaded, content, bounds, overlapped>>

(* Mutant: the error of a failed write is not returned. *)
FailWritten(p) ==
  /\ loaded /\ Persisting(p)
  /\ failures < MaxFailures /\ failures' = failures + 1
  /\ task' = IF task[p].at = "write" THEN [task EXCEPT ![p].at = "rename"]
             ELSE [task EXCEPT ![p] = Free]
  /\ \/ UNCHANGED content
     \/ task[p].at = "write" /\ content' = [content EXCEPT ![task[p].fd] = Torn]
  /\ UNCHANGED <<memory, changes, loaded, tmp, state, agentCrashes, saved, overlapped>>

(* A failure ends the call; a write may have got through in part.  No caller
   looks at the result. *)
Fail(p) ==
  /\ loaded /\ Persisting(p)
  /\ failures < MaxFailures /\ failures' = failures + 1
  /\ task' = [task EXCEPT ![p] = Free]
  /\ \/ UNCHANGED content
     \/ task[p].at = "write" /\ content' = [content EXCEPT ![task[p].fd] = Torn]
  /\ UNCHANGED <<memory, changes, loaded, tmp, state, agentCrashes, saved, overlapped>>

Persist(p) == Copy(p) \/ Open(p) \/ Write(p) \/ Rename(p)

-----------------------------------------------------------------------------
(* The agent's process dies; the files stay. *)
AgentCrashes ==
  /\ loaded /\ loaded' = FALSE
  /\ agentCrashes < MaxAgentCrashes /\ agentCrashes' = agentCrashes + 1
  /\ memory' = 0
  /\ task' = [p \in Tasks |-> Free]
  /\ UNCHANGED <<changes, files, failures, saved, overlapped>>

(* load_runtime_state, before any other task is started.  A file that cannot be
   parsed is reported and the agent starts with an empty table.  Records of VMs
   whose processes are dead are dropped, and then the rest is persisted. *)
LoadState ==
  /\ ~loaded /\ loaded' = TRUE
  /\ LET found == IF state # NoFile /\ content[state].kind = "whole"
                    THEN content[state].version ELSE 0 IN
       \/ memory' = found /\ UNCHANGED <<changes, task>>
       \/ /\ found # 0
          /\ changes < MaxChanges
          /\ changes' = changes + 1
          /\ memory' = changes + 1
          /\ task' = [task EXCEPT ![Gc] = [Free EXCEPT !.at = "copy"]]
  /\ UNCHANGED <<files, bounds, saved, overlapped>>

FileNext ==
  \/ \E p \in Tasks : Change(p) \/ Persist(p) \/ Fail(p)
  \/ GcPersists
  \/ AgentCrashes \/ LoadState

FileSpec == FileInit /\ [][FileNext]_fileVars

(* A call that has begun goes on, the garbage collector runs every five
   seconds, and the agent is started again after a crash. *)
FileFairness ==
  /\ \A p \in Tasks : WF_fileVars(Persist(p))
  /\ WF_fileVars(GcPersists)
  /\ WF_fileVars(LoadState)

FileFairSpec == FileSpec /\ FileFairness

-----------------------------------------------------------------------------
(* Properties *)

(* As long as no two calls have been under way at the same time, the state file
   holds what the last successful call has taken a copy of, complete, at every
   moment: whatever fails, and wherever the agent dies. *)
WholeUnlessOverlapped ==
  ~overlapped => IF state = NoFile THEN saved = 0 ELSE content[state] = Whole(saved)

(* When the table no longer changes and nothing fails any more, the file ends up
   equal to the table, whatever overlapping calls have left: a stale copy or
   a torn file lasts until the next round of the garbage collector. *)
FileCatchesUp == <>[](loaded /\ state # NoFile /\ content[state] = Whole(memory))
=============================================================================
