------------------------ MODULE JobLifecycle_proofs ------------------------
(***************************************************************************)
(* Proofs about the job table: type correctness, removed rows stay removed *)
(* and VMs without a row have one of the named causes, for any number of   *)
(* jobs, handlers and faults.                                              *)
(***************************************************************************)
EXTENDS JobLifecycle, TLAPS

(* The points at which a task has no job of its own. *)
NoSubject == {"idle", "done", "wipeNext", "wipeTell"}

Subjects == \A t \in Tasks : pc[t] \notin NoSubject => job[t] \in Jobs

TypeInv == TypeOK /\ Subjects

(* Which points wait for an agent, and which of them for a delete_vm. *)
LEMMA PointsDef ==
  /\ Waiting = {"starting", "rollbackVm", "pausing", "pauseStopping", "resuming",
                "unresumePausing", "unresumeStopping", "deleting", "expiring", "wiping"}
  /\ \A p \in Waiting :
       CallAt[p] = "delete" <=> p \in {"rollbackVm", "deleting", "expiring", "wiping"}
BY DEF Waiting, CallAt

-----------------------------------------------------------------------------
(* A step of a handler keeps the types. *)
LEMMA TypeHandler == \A t \in Tasks : TypeInv /\ (Start(t) \/ Continue(t)) => TypeInv'
<1> SUFFICES ASSUME NEW t \in Tasks, TypeInv, Start(t) \/ Continue(t) PROVE TypeInv'
  OBVIOUS
<1> USE JobsAssumption, MaxFaultsAssumption, PointsDef
    DEF TypeInv, TypeOK, Subjects, NoSubject, Points, Local, Statuses, wipeVars, agentVars
<1>1. ASSUME NEW j \in Jobs, AddJob(t, j) PROVE TypeInv'
  BY <1>1 DEF AddJob, Begin, Request, Call
<1>2. ASSUME NEW j \in Jobs, PauseRead(t, j) PROVE TypeInv'
  BY <1>2 DEF PauseRead, Begin, Request, Call
<1>3. ASSUME NEW j \in Jobs, ResumeRead(t, j) PROVE TypeInv'
  BY <1>3 DEF ResumeRead, Begin, Request, Call
<1>4. ASSUME NEW j \in Jobs, DeleteRead(t, j) PROVE TypeInv'
  BY <1>4 DEF DeleteRead, Begin, Request, Call
<1>5. ASSUME NEW j \in Jobs, Cancel(t, j) PROVE TypeInv'
  BY <1>5 DEF Cancel, Begin, SetStatus
<1>6. ASSUME NEW j \in Jobs, ExpireRead(t, j) PROVE TypeInv'
  BY <1>6 DEF ExpireRead, Begin, Request, Call
<1>7. ASSUME NEW j \in Jobs, FailRead(t, j) PROVE TypeInv'
  BY <1>7 DEF FailRead, Begin
<1>8. ASSUME WipeList(t) PROVE TypeInv'
  BY <1>8 DEF WipeList, Step
<1>9. ASSUME StartAccepted(t) PROVE TypeInv'
  BY <1>9 DEF StartAccepted, Succeed
<1>10. ASSUME StartFailed(t) PROVE TypeInv'
  BY <1>10 DEF StartFailed, GiveUp, LeakIfAlive
<1>11. ASSUME UndoRow(t) PROVE TypeInv'
  BY <1>11 DEF UndoRow, Step, RemoveJob, Fault
<1>12. ASSUME StartRow(t) PROVE TypeInv'
  BY <1>12 DEF StartRow, Step, SetStatus, Fault
<1>13. ASSUME RollbackRead(t) PROVE TypeInv'
  BY <1>13 DEF RollbackRead, Step, Request, Call, Fault
<1>14. ASSUME RollbackVm(t) PROVE TypeInv'
  BY <1>14 DEF RollbackVm, Succeed, GiveUp, LeakIfAlive
<1>15. ASSUME RollbackRow(t) PROVE TypeInv'
  BY <1>15 DEF RollbackRow, Step, RemoveJob, Fault
<1>16. ASSUME Tell(t) PROVE TypeInv'
  BY <1>16 DEF Tell, Step
<1>17. ASSUME Paused(t) PROVE TypeInv'
  BY <1>17 DEF Paused, Succeed, GiveUp
<1>18. ASSUME PauseFallback(t) PROVE TypeInv'
  BY <1>18 DEF PauseFallback, GiveUp, Request, Call
<1>19. ASSUME PauseRow(t) PROVE TypeInv'
  BY <1>19 DEF PauseRow, Step, SetStatus, Fault
<1>20. ASSUME Resumed(t) PROVE TypeInv'
  BY <1>20 DEF Resumed, Succeed, GiveUp
<1>21. ASSUME ResumeRow(t) PROVE TypeInv'
  BY <1>21 DEF ResumeRow, Step, SetStatus, Request, Call, Fault
<1>22. ASSUME UnresumeFallback(t) PROVE TypeInv'
  BY <1>22 DEF UnresumeFallback, GiveUp, Request, Call
<1>23. ASSUME DeletedVm(t) PROVE TypeInv'
  BY <1>23 DEF DeletedVm, Succeed, GiveUp, LeakIfAlive
<1>24. ASSUME DeleteRow(t) PROVE TypeInv'
  BY <1>24 DEF DeleteRow, Step, RemoveJob, SetStatus, Fault
<1>25. ASSUME ExpiredVm(t) PROVE TypeInv'
  BY <1>25 DEF ExpiredVm, Succeed, GiveUp
<1>26. ASSUME ExpireRow(t) PROVE TypeInv'
  BY <1>26 DEF ExpireRow, Step, RemoveJob, SetStatus, Fault
<1>27. ASSUME NEW j \in Jobs, WipeNext(t, j) PROVE TypeInv'
  BY <1>27 DEF WipeNext, Step, Request, Call
<1>28. ASSUME WipedVm(t) PROVE TypeInv'
  BY <1>28 DEF WipedVm, Succeed, GiveUp, LeakIfAlive
<1>29. ASSUME WipeRows(t) PROVE TypeInv'
  BY <1>29 DEF WipeRows, Step, Fault
<1>30. ASSUME WipeTell(t) PROVE TypeInv'
  BY <1>30 DEF WipeTell, Step
<1>31. ASSUME FailRow(t) PROVE TypeInv'
  BY <1>31 DEF FailRow, Step, SetStatus, Fault
<1> QED
  BY <1>1, <1>2, <1>3, <1>4, <1>5, <1>6, <1>7, <1>8, <1>9, <1>10, <1>11, <1>12, <1>13,
     <1>14, <1>15, <1>16, <1>17, <1>18, <1>19, <1>20, <1>21, <1>22, <1>23, <1>24, <1>25,
     <1>26, <1>27, <1>28, <1>29, <1>30, <1>31 DEF Start, Continue

(* A step of a heartbeat, of a background startup, of a process, and a crash. *)
LEMMA TypeBackground ==
  ASSUME TypeInv,
         \/ \E j \in Jobs : FailureIgnored(j) \/ BootDone(j) \/ BootFailed(j) \/ ProcessExit(j)
         \/ BeatSend \/ BeatLost \/ BeatHandled \/ Crash
  PROVE  TypeInv'
<1> USE JobsAssumption, MaxFaultsAssumption
    DEF TypeInv, TypeOK, Subjects, NoSubject, Points, Statuses, VmStatuses, wipeVars, agentVars
<1>1. ASSUME NEW j \in Jobs, FailureIgnored(j) PROVE TypeInv'
  BY <1>1 DEF FailureIgnored, schedulerVars
<1>2. ASSUME NEW j \in Jobs, BootDone(j) PROVE TypeInv'
  BY <1>2 DEF BootDone, schedulerVars
<1>3. ASSUME NEW j \in Jobs, BootFailed(j) PROVE TypeInv'
  BY <1>3 DEF BootFailed, schedulerVars
<1>4. ASSUME NEW j \in Jobs, ProcessExit(j) PROVE TypeInv'
  BY <1>4 DEF ProcessExit, schedulerVars
<1>5. ASSUME BeatSend PROVE TypeInv'
  BY <1>5 DEF BeatSend, Beat
<1>6. ASSUME BeatLost PROVE TypeInv'
  BY <1>6 DEF BeatLost, Quiet, Beat
<1>7. ASSUME BeatRead PROVE TypeInv'
  BY <1>7 DEF BeatRead, Quiet, Beat, Fault
<1>8. ASSUME NEW j \in Jobs, BeatMark(j) PROVE TypeInv'
  BY <1>8 DEF BeatMark, Beat, SetStatus, Fault
<1>9. ASSUME BeatTell PROVE TypeInv'
  BY <1>9 DEF BeatTell, Beat
<1>10. ASSUME BeatEnd PROVE TypeInv'
  BY <1>10 DEF BeatEnd, Quiet, Beat
<1>11. ASSUME Crash PROVE TypeInv'
  BY <1>11 DEF Crash, Quiet, Beat, Fault
<1> QED
  BY <1>1, <1>2, <1>3, <1>4, <1>5, <1>6, <1>7, <1>8, <1>9, <1>10, <1>11 DEF BeatHandled

(* A command executed by an agent. *)
LEMMA TypeAgent == \A c \in calls : TypeInv /\ Execute(c) => TypeInv'
<1> SUFFICES ASSUME NEW c \in calls, TypeInv, Execute(c) PROVE TypeInv'
  OBVIOUS
<1> DEFINE Scheduler == UNCHANGED <<row, drawn, pc, job, wipeVars, beat, faults>>
<1> USE JobsAssumption
    DEF TypeInv, TypeOK, Subjects, VmStatuses, Call, Executed, wipeVars, agentVars
<1>1. ASSUME ExecStart(c), Scheduler PROVE TypeInv'
  BY <1>1 DEF ExecStart
<1>2. ASSUME ExecStartFails(c), Scheduler PROVE TypeInv'
  BY <1>2 DEF ExecStartFails
<1>3. ASSUME ExecPause(c), Scheduler PROVE TypeInv'
  BY <1>3 DEF ExecPause
<1>4. ASSUME ExecStop(c), Scheduler PROVE TypeInv'
  BY <1>4 DEF ExecStop
<1>5. ASSUME ExecResume(c), Scheduler PROVE TypeInv'
  BY <1>5 DEF ExecResume
<1>6. ASSUME ExecDelete(c), Scheduler PROVE TypeInv'
  BY <1>6 DEF ExecDelete
<1>7. ASSUME ExecNothing(c), Scheduler PROVE TypeInv'
  BY <1>7 DEF ExecNothing
<1> QED
  BY <1>1, <1>2, <1>3, <1>4, <1>5, <1>6, <1>7 DEF Execute

(* The initial state is well typed. *)
LEMMA TypeInit == Init => TypeInv
BY JobsAssumption, MaxFaultsAssumption
   DEF Init, TypeInv, TypeOK, Subjects, NoSubject, Points, Quiet, Beat

(* Every step keeps the types: one case for the handlers, one for the rest, one
   for the agent. *)
LEMMA TypeStep == TypeInv /\ [Next]_vars => TypeInv'
<1> SUFFICES ASSUME TypeInv, [Next]_vars PROVE TypeInv'
  OBVIOUS
<1>1. CASE \E t \in Tasks : Start(t) \/ Continue(t)
  BY <1>1, TypeHandler
<1>2. CASE \/ \E j \in Jobs : FailureIgnored(j) \/ BootDone(j) \/ BootFailed(j) \/ ProcessExit(j)
           \/ BeatSend \/ BeatLost \/ BeatHandled \/ Crash
  BY <1>2, TypeBackground
<1>3. CASE \E c \in calls : Execute(c)
  BY <1>3, TypeAgent
<1>4. CASE UNCHANGED vars
  BY <1>4 DEF vars, TypeInv, TypeOK, Subjects
<1> QED
  BY <1>1, <1>2, <1>3, <1>4 DEF Next

(* Every variable keeps its type: no handler writes a status, a point or a
   command the others do not know. *)
THEOREM TypeCorrect == Spec => []TypeOK
<1>1. TypeInv => TypeOK
  BY DEF TypeInv
<1> QED
  BY <1>1, TypeInit, TypeStep, PTL DEF Spec

-----------------------------------------------------------------------------
(* Removed rows: every statement that writes a status spares absent rows, and
   the only INSERT is for a uuid that was never drawn before. *)
LEMMA RemovedStep ==
  ASSUME TypeInv, [Next]_vars, NEW j \in Jobs, j \in drawn, row[j] = "none"
  PROVE  row'[j] = "none"
<1> USE DEF TypeInv, TypeOK
<1>1. ASSUME NEW t \in Tasks, Start(t) PROVE row'[j] = "none"
  BY <1>1 DEF Start, AddJob, PauseRead, ResumeRead, DeleteRead, Cancel, ExpireRead, FailRead,
              WipeList, SetStatus
<1>2. ASSUME NEW t \in Tasks, Continue(t) PROVE row'[j] = "none"
  <2>1. CASE \/ StartAccepted(t) \/ StartFailed(t) \/ UndoRow(t) \/ StartRow(t)
             \/ RollbackRead(t) \/ RollbackVm(t) \/ RollbackRow(t) \/ Tell(t)
    BY <2>1 DEF StartAccepted, StartFailed, UndoRow, StartRow, RollbackRead, RollbackVm,
                RollbackRow, Tell, RemoveJob, SetStatus
  <2>2. CASE \/ Paused(t) \/ PauseFallback(t) \/ PauseRow(t)
             \/ Resumed(t) \/ ResumeRow(t) \/ UnresumeFallback(t)
    BY <2>2 DEF Paused, PauseFallback, PauseRow, Resumed, ResumeRow, UnresumeFallback, SetStatus
  <2>3. CASE DeletedVm(t) \/ DeleteRow(t) \/ ExpiredVm(t) \/ ExpireRow(t) \/ FailRow(t)
    BY <2>3 DEF DeletedVm, DeleteRow, ExpiredVm, ExpireRow, FailRow, RemoveJob, SetStatus
  <2>4. CASE (\E k \in Jobs : WipeNext(t, k)) \/ WipedVm(t) \/ WipeRows(t) \/ WipeTell(t)
    BY <2>4 DEF WipeNext, WipedVm, WipeRows, WipeTell
  <2> QED
    BY <1>2, <2>1, <2>2, <2>3, <2>4 DEF Continue
<1>3. ASSUME \/ \E k \in Jobs : FailureIgnored(k) \/ BootDone(k) \/ BootFailed(k) \/ ProcessExit(k)
             \/ BeatSend \/ BeatLost \/ BeatHandled \/ Crash
      PROVE  row'[j] = "none"
  BY <1>3 DEF FailureIgnored, BootDone, BootFailed, ProcessExit, BeatSend, BeatLost, BeatHandled,
              BeatRead, BeatMark, BeatTell, BeatEnd, Crash, SetStatus, schedulerVars
<1>4. ASSUME NEW c \in calls, Execute(c) PROVE row'[j] = "none"
  BY <1>4 DEF Execute
<1>5. CASE UNCHANGED vars
  BY <1>5 DEF vars
<1> QED
  BY <1>1, <1>2, <1>3, <1>4, <1>5 DEF Next

(* A job that was removed stays removed, whatever handlers, heartbeats and
   late answers still write about it. *)
THEOREM RemovedRowsStayRemoved == Spec => RemovedIsFinal
<1>1. TypeInv /\ [Next]_vars
        => [\A j \in Jobs : j \in drawn /\ row[j] = "none" => row'[j] = "none"]_vars
  BY RemovedStep
<1> QED
  BY <1>1, TypeInit, TypeStep, PTL DEF Spec, RemovedIsFinal

-----------------------------------------------------------------------------
(* Orphans.  A job is safe to forget when nothing is left of its VM and no
   start_vm is on its way, or when it has met a leak window. *)
SafeJobs == {j \in Jobs : Gone(j) \/ j \in leaky}

(* The points at which the next statement may remove the row. *)
Removing == {"undoRow", "rollbackRow", "deleteRow", "expireRow"}
DeleteWaits == {"rollbackVm", "deleting", "expiring", "wiping"}

Known ==
  /\ \A t \in Tasks : job[t] \in drawn \cup {NoJob} /\ listed[t] \cup todo[t] \subseteq drawn
  /\ \A j \in Jobs : row[j] # "none" => j \in drawn
  /\ \A t \in answered : pc[t] \in Waiting

(* Why the rows that are gone, and those about to go, have no VM left: the
   delete_vm was answered, or its failure was noted as a leak. *)
Removal ==
  /\ \A j \in Jobs : row[j] = "none" => j \in SafeJobs
  /\ \A t \in Tasks : pc[t] \in Removing => job[t] \in SafeJobs
  /\ \A t \in answered : pc[t] \in DeleteWaits => job[t] \in SafeJobs
  /\ \A t \in Tasks : pc[t] = "wipeNext" => listed[t] \subseteq SafeJobs \cup todo[t]
  /\ \A t \in Tasks : pc[t] = "wiping" => listed[t] \subseteq SafeJobs \cup todo[t] \cup {job[t]}

IInv == TypeInv /\ Known /\ Removal

(* A step of a handler keeps what is known of the jobs of tasks. *)
LEMMA KnownHandler ==
  \A t \in Tasks : TypeInv /\ Known /\ (Start(t) \/ Continue(t)) => Known'
<1> SUFFICES ASSUME NEW t \in Tasks, TypeInv, Known, Start(t) \/ Continue(t) PROVE Known'
  OBVIOUS
<1> USE JobsAssumption, PointsDef DEF TypeInv, TypeOK, Known, wipeVars
<1>1. ASSUME NEW j \in Jobs, AddJob(t, j) PROVE Known'
  BY <1>1 DEF AddJob, Begin
<1>2. ASSUME NEW j \in Jobs, PauseRead(t, j) PROVE Known'
  BY <1>2 DEF PauseRead, Begin
<1>3. ASSUME NEW j \in Jobs, ResumeRead(t, j) PROVE Known'
  BY <1>3 DEF ResumeRead, Begin
<1>4. ASSUME NEW j \in Jobs, DeleteRead(t, j) PROVE Known'
  BY <1>4 DEF DeleteRead, Begin
<1>5. ASSUME NEW j \in Jobs, Cancel(t, j) PROVE Known'
  BY <1>5 DEF Cancel, Begin, SetStatus
<1>6. ASSUME NEW j \in Jobs, ExpireRead(t, j) PROVE Known'
  BY <1>6 DEF ExpireRead, Begin
<1>7. ASSUME NEW j \in Jobs, FailRead(t, j) PROVE Known'
  BY <1>7 DEF FailRead, Begin
<1>8. ASSUME WipeList(t) PROVE Known'
  BY <1>8 DEF WipeList, Step
<1>9. ASSUME StartAccepted(t) PROVE Known'
  BY <1>9 DEF StartAccepted, Succeed
<1>10. ASSUME StartFailed(t) PROVE Known'
  BY <1>10 DEF StartFailed, GiveUp
<1>11. ASSUME UndoRow(t) PROVE Known'
  BY <1>11 DEF UndoRow, Step, RemoveJob
<1>12. ASSUME StartRow(t) PROVE Known'
  BY <1>12 DEF StartRow, Step, SetStatus
<1>13. ASSUME RollbackRead(t) PROVE Known'
  BY <1>13 DEF RollbackRead, Step
<1>14. ASSUME RollbackVm(t) PROVE Known'
  BY <1>14 DEF RollbackVm, Succeed, GiveUp
<1>15. ASSUME RollbackRow(t) PROVE Known'
  BY <1>15 DEF RollbackRow, Step, RemoveJob
<1>16. ASSUME Tell(t) PROVE Known'
  BY <1>16 DEF Tell, Step
<1>17. ASSUME Paused(t) PROVE Known'
  BY <1>17 DEF Paused, Succeed, GiveUp
<1>18. ASSUME PauseFallback(t) PROVE Known'
  BY <1>18 DEF PauseFallback, GiveUp
<1>19. ASSUME PauseRow(t) PROVE Known'
  BY <1>19 DEF PauseRow, Step, SetStatus
<1>20. ASSUME Resumed(t) PROVE Known'
  BY <1>20 DEF Resumed, Succeed, GiveUp
<1>21. ASSUME ResumeRow(t) PROVE Known'
  BY <1>21 DEF ResumeRow, Step, SetStatus
<1>22. ASSUME UnresumeFallback(t) PROVE Known'
  BY <1>22 DEF UnresumeFallback, GiveUp
<1>23. ASSUME DeletedVm(t) PROVE Known'
  BY <1>23 DEF DeletedVm, Succeed, GiveUp
<1>24. ASSUME DeleteRow(t) PROVE Known'
  BY <1>24 DEF DeleteRow, Step, RemoveJob, SetStatus
<1>25. ASSUME ExpiredVm(t) PROVE Known'
  BY <1>25 DEF ExpiredVm, Succeed, GiveUp
<1>26. ASSUME ExpireRow(t) PROVE Known'
  BY <1>26 DEF ExpireRow, Step, RemoveJob, SetStatus
<1>27. ASSUME NEW j \in Jobs, WipeNext(t, j) PROVE Known'
  BY <1>27 DEF WipeNext, Step
<1>28. ASSUME WipedVm(t) PROVE Known'
  BY <1>28 DEF WipedVm, Succeed, GiveUp
<1>29. ASSUME WipeRows(t) PROVE Known'
  BY <1>29 DEF WipeRows, Step
<1>30. ASSUME WipeTell(t) PROVE Known'
  BY <1>30 DEF WipeTell, Step
<1>31. ASSUME FailRow(t) PROVE Known'
  BY <1>31 DEF FailRow, Step, SetStatus
<1> QED
  BY <1>1, <1>2, <1>3, <1>4, <1>5, <1>6, <1>7, <1>8, <1>9, <1>10, <1>11, <1>12, <1>13,
     <1>14, <1>15, <1>16, <1>17, <1>18, <1>19, <1>20, <1>21, <1>22, <1>23, <1>24, <1>25,
     <1>26, <1>27, <1>28, <1>29, <1>30, <1>31 DEF Start, Continue

(* A handler never touches an agent's state, forgets no leak and starts no VM
   but that of the job it has just stored. *)
HandsOff ==
  /\ UNCHANGED <<vm, booting, proc, stray>>
  /\ leaky \subseteq leaky'
  /\ \A c \in calls' : c.op = "start" => c \in calls \/ (c.job \notin drawn /\ row'[c.job] # "none")

SafeKept ==
  \A j \in SafeJobs : j \in drawn \/ row'[j] = "none" => j \in SafeJobs'

(* Every step but add_job sends no start_vm at all. *)
Passive ==
  /\ UNCHANGED <<vm, booting, proc, stray>>
  /\ leaky \subseteq leaky'
  /\ \A c \in calls' : c.op = "start" => c \in calls

(* A handler touches no VM; it may send a start_vm, but then for a job it has
   just drawn. *)
LEMMA HandlerHandsOff ==
  \A t \in Tasks : TypeInv /\ (Start(t) \/ Continue(t)) => HandsOff
<1> SUFFICES ASSUME NEW t \in Tasks, TypeInv, Start(t) \/ Continue(t) PROVE HandsOff
  OBVIOUS
<1>1. ASSUME NEW j \in Jobs, AddJob(t, j) PROVE HandsOff
  <2>1. row'[j] = "scheduled" /\ j \notin drawn
    BY <1>1 DEF AddJob, TypeInv, TypeOK
  <2>2. \A c \in calls' : c \in calls \/ c.job = j
    BY <1>1 DEF AddJob, Request
  <2>3. UNCHANGED <<vm, booting, proc, stray, leaky>>
    BY <1>1 DEF AddJob, agentVars
  <2> QED
    BY <2>1, <2>2, <2>3 DEF HandsOff
<1>2. ASSUME Passive PROVE HandsOff
  BY <1>2 DEF Passive, HandsOff
<1> USE DEF Passive, agentVars, wipeVars
<1>3. CASE \/ WipeList(t)
           \/ \E j \in Jobs : \/ PauseRead(t, j) \/ ResumeRead(t, j) \/ DeleteRead(t, j)
                             \/ Cancel(t, j) \/ ExpireRead(t, j) \/ FailRead(t, j)
  <2>1. Passive
    BY <1>3 DEF PauseRead, ResumeRead, DeleteRead, Cancel, ExpireRead, FailRead, WipeList, Request
  <2> QED
    BY <2>1, <1>2
<1>4. CASE \/ StartAccepted(t) \/ StartFailed(t) \/ UndoRow(t) \/ StartRow(t)
           \/ RollbackRead(t) \/ RollbackVm(t) \/ RollbackRow(t) \/ Tell(t)
  <2>1. Passive
    BY <1>4 DEF StartAccepted, StartFailed, UndoRow, StartRow, RollbackRead, RollbackVm,
                RollbackRow, Tell, LeakIfAlive, Request
  <2> QED
    BY <2>1, <1>2
<1>5. CASE \/ Paused(t) \/ PauseFallback(t) \/ PauseRow(t)
           \/ Resumed(t) \/ ResumeRow(t) \/ UnresumeFallback(t)
  <2>1. Passive
    BY <1>5 DEF Paused, PauseFallback, PauseRow, Resumed, ResumeRow, UnresumeFallback, Request
  <2> QED
    BY <2>1, <1>2
<1>6. CASE DeletedVm(t) \/ DeleteRow(t) \/ ExpiredVm(t) \/ ExpireRow(t) \/ FailRow(t)
  <2>1. Passive
    BY <1>6 DEF DeletedVm, DeleteRow, ExpiredVm, ExpireRow, FailRow, LeakIfAlive
  <2> QED
    BY <2>1, <1>2
<1>7. CASE (\E k \in Jobs : WipeNext(t, k)) \/ WipedVm(t) \/ WipeRows(t) \/ WipeTell(t)
  <2>1. Passive
    BY <1>7 DEF WipeNext, WipedVm, WipeRows, WipeTell, LeakIfAlive, Request
  <2> QED
    BY <2>1, <1>2
<1> QED
  BY <1>1, <1>3, <1>4, <1>5, <1>6, <1>7 DEF Start, Continue

(* Under such a step a job that is safe to be without a row stays so. *)
LEMMA HandsOffSafe ==
  ASSUME TypeInv, HandsOff PROVE SafeKept
<1> SUFFICES ASSUME NEW j \in SafeJobs, j \in drawn \/ row'[j] = "none" PROVE j \in SafeJobs'
  BY DEF SafeKept
<1>1. CASE j \in leaky
  BY <1>1 DEF HandsOff, SafeJobs
<1>2. CASE Gone(j)
  <2>1. ~Alive(j)'
    BY <1>2 DEF HandsOff, Gone, Alive
  <2>2. ~StartPending(j)'
    BY <1>2 DEF HandsOff, Gone, StartPending
  <2> QED
    BY <2>1, <2>2 DEF SafeJobs, Gone
<1> QED
  BY <1>1, <1>2 DEF SafeJobs

(* A call that is given up leaves its job safe: gone, or noted. *)
LEMMA GivenUpSafe ==
  ASSUME NEW j \in Jobs, LeakIfAlive(j), UNCHANGED <<calls, agentVars>>
  PROVE  j \in SafeJobs'
BY DEF LeakIfAlive, SafeJobs, Gone, Alive, StartPending, agentVars

(* What a step of task t leaves alone, and what it owes for itself. *)
Frame(t) ==
  /\ \A u \in Tasks \ {t} : /\ pc'[u] = pc[u] /\ job'[u] = job[u]
                           /\ listed'[u] = listed[u] /\ todo'[u] = todo[u]
  /\ answered' \subseteq answered \ {t}

Own(t) ==
  /\ \A j \in Jobs : row'[j] = "none" => row[j] = "none" \/ j \in SafeJobs'
  /\ pc'[t] \in Removing => job'[t] \in SafeJobs'
  /\ pc'[t] = "wipeNext" => listed'[t] \subseteq SafeJobs' \cup todo'[t]
  /\ pc'[t] = "wiping" => listed'[t] \subseteq SafeJobs' \cup todo'[t] \cup {job'[t]}

(* A step of a handler leaves the other handlers alone. *)
LEMMA HandlerFrame ==
  \A t \in Tasks : TypeInv /\ Known /\ (Start(t) \/ Continue(t)) => Frame(t)
<1> SUFFICES ASSUME NEW t \in Tasks, TypeInv, Known, Start(t) \/ Continue(t) PROVE Frame(t)
  OBVIOUS
<1> USE PointsDef DEF TypeInv, TypeOK, Known, Frame, wipeVars
<1>1. ASSUME NEW j \in Jobs, AddJob(t, j) PROVE Frame(t)
  BY <1>1 DEF AddJob, Begin
<1>2. ASSUME NEW j \in Jobs, PauseRead(t, j) PROVE Frame(t)
  BY <1>2 DEF PauseRead, Begin
<1>3. ASSUME NEW j \in Jobs, ResumeRead(t, j) PROVE Frame(t)
  BY <1>3 DEF ResumeRead, Begin
<1>4. ASSUME NEW j \in Jobs, DeleteRead(t, j) PROVE Frame(t)
  BY <1>4 DEF DeleteRead, Begin
<1>5. ASSUME NEW j \in Jobs, Cancel(t, j) PROVE Frame(t)
  BY <1>5 DEF Cancel, Begin
<1>6. ASSUME NEW j \in Jobs, ExpireRead(t, j) PROVE Frame(t)
  BY <1>6 DEF ExpireRead, Begin
<1>7. ASSUME NEW j \in Jobs, FailRead(t, j) PROVE Frame(t)
  BY <1>7 DEF FailRead, Begin
<1>8. ASSUME WipeList(t) PROVE Frame(t)
  BY <1>8 DEF WipeList, Step
<1>9. ASSUME StartAccepted(t) PROVE Frame(t)
  BY <1>9 DEF StartAccepted, Succeed
<1>10. ASSUME StartFailed(t) PROVE Frame(t)
  BY <1>10 DEF StartFailed, GiveUp
<1>11. ASSUME UndoRow(t) PROVE Frame(t)
  BY <1>11 DEF UndoRow, Step
<1>12. ASSUME StartRow(t) PROVE Frame(t)
  BY <1>12 DEF StartRow, Step
<1>13. ASSUME RollbackRead(t) PROVE Frame(t)
  BY <1>13 DEF RollbackRead, Step
<1>14. ASSUME RollbackVm(t) PROVE Frame(t)
  BY <1>14 DEF RollbackVm, Succeed, GiveUp
<1>15. ASSUME RollbackRow(t) PROVE Frame(t)
  BY <1>15 DEF RollbackRow, Step
<1>16. ASSUME Tell(t) PROVE Frame(t)
  BY <1>16 DEF Tell, Step
<1>17. ASSUME Paused(t) PROVE Frame(t)
  BY <1>17 DEF Paused, Succeed, GiveUp
<1>18. ASSUME PauseFallback(t) PROVE Frame(t)
  BY <1>18 DEF PauseFallback, GiveUp
<1>19. ASSUME PauseRow(t) PROVE Frame(t)
  BY <1>19 DEF PauseRow, Step
<1>20. ASSUME Resumed(t) PROVE Frame(t)
  BY <1>20 DEF Resumed, Succeed, GiveUp
<1>21. ASSUME ResumeRow(t) PROVE Frame(t)
  BY <1>21 DEF ResumeRow, Step
<1>22. ASSUME UnresumeFallback(t) PROVE Frame(t)
  BY <1>22 DEF UnresumeFallback, GiveUp
<1>23. ASSUME DeletedVm(t) PROVE Frame(t)
  BY <1>23 DEF DeletedVm, Succeed, GiveUp
<1>24. ASSUME DeleteRow(t) PROVE Frame(t)
  BY <1>24 DEF DeleteRow, Step
<1>25. ASSUME ExpiredVm(t) PROVE Frame(t)
  BY <1>25 DEF ExpiredVm, Succeed, GiveUp
<1>26. ASSUME ExpireRow(t) PROVE Frame(t)
  BY <1>26 DEF ExpireRow, Step
<1>27. ASSUME NEW j \in Jobs, WipeNext(t, j) PROVE Frame(t)
  BY <1>27 DEF WipeNext, Step
<1>28. ASSUME WipedVm(t) PROVE Frame(t)
  BY <1>28 DEF WipedVm, Succeed, GiveUp
<1>29. ASSUME WipeRows(t) PROVE Frame(t)
  BY <1>29 DEF WipeRows, Step
<1>30. ASSUME WipeTell(t) PROVE Frame(t)
  BY <1>30 DEF WipeTell, Step
<1>31. ASSUME FailRow(t) PROVE Frame(t)
  BY <1>31 DEF FailRow, Step
<1> QED
  BY <1>1, <1>2, <1>3, <1>4, <1>5, <1>6, <1>7, <1>8, <1>9, <1>10, <1>11, <1>12, <1>13,
     <1>14, <1>15, <1>16, <1>17, <1>18, <1>19, <1>20, <1>21, <1>22, <1>23, <1>24, <1>25,
     <1>26, <1>27, <1>28, <1>29, <1>30, <1>31 DEF Start, Continue

(* So a handler only has to account for itself. *)
LEMMA FrameOwn ==
  ASSUME IInv, NEW t \in Tasks, Frame(t), Own(t), SafeKept
  PROVE  Removal'
<1> USE JobsAssumption DEF IInv, Known, Removal, SafeKept
<1>0. SafeJobs \subseteq Jobs
  BY DEF SafeJobs
<1>1. ASSUME NEW j \in Jobs, row'[j] = "none" PROVE j \in SafeJobs'
  BY <1>0, <1>1 DEF Own
<1>2. ASSUME NEW u \in Tasks, pc'[u] \in Removing PROVE job'[u] \in SafeJobs'
  BY <1>0, <1>2 DEF Own, Frame
<1>3. ASSUME NEW u \in answered', pc'[u] \in DeleteWaits PROVE job'[u] \in SafeJobs'
  BY <1>0, <1>3 DEF Own, Frame, TypeInv, TypeOK
<1>4. ASSUME NEW u \in Tasks, pc'[u] = "wipeNext"
      PROVE  listed'[u] \subseteq SafeJobs' \cup todo'[u]
  BY <1>0, <1>4 DEF Own, Frame
<1>5. ASSUME NEW u \in Tasks, pc'[u] = "wiping"
      PROVE  listed'[u] \subseteq SafeJobs' \cup todo'[u] \cup {job'[u]}
  BY <1>0, <1>5 DEF Own, Frame
<1> QED
  BY <1>1, <1>2, <1>3, <1>4, <1>5

(* A handler removes a row only when the VM is gone or the job is leaky. *)
LEMMA RemovalHandler ==
  \A t \in Tasks : IInv /\ (Start(t) \/ Continue(t)) => Removal'
<1> SUFFICES ASSUME NEW t \in Tasks, IInv, Start(t) \/ Continue(t) PROVE Own(t)
  BY HandlerHandsOff, HandsOffSafe, HandlerFrame, FrameOwn DEF IInv
<1>0. SafeKept
  BY HandlerHandsOff, HandsOffSafe DEF IInv
<1>a. /\ pc \in [Tasks -> Points] /\ job \in [Tasks -> Jobs \cup {NoJob}]
      /\ row \in [Jobs -> Statuses \cup {"none"}]
      /\ listed \in [Tasks -> SUBSET Jobs] /\ todo \in [Tasks -> SUBSET Jobs]
  BY DEF IInv, TypeInv, TypeOK
<1>b. Known /\ Removal
  BY DEF IInv
<1>c. pc[t] \notin NoSubject => job[t] \in Jobs
  BY DEF IInv, TypeInv, Subjects
<1> USE JobsAssumption, PointsDef, <1>0, <1>a, <1>b, <1>c
    DEF Known, Removal, Own, SafeKept, Removing, DeleteWaits, NoSubject, wipeVars
<1>1. ASSUME NEW j \in Jobs, AddJob(t, j) PROVE Own(t)
  BY <1>1 DEF AddJob, Begin, Request
<1>2. ASSUME NEW j \in Jobs, PauseRead(t, j) PROVE Own(t)
  BY <1>2 DEF PauseRead, Begin, Request
<1>3. ASSUME NEW j \in Jobs, ResumeRead(t, j) PROVE Own(t)
  BY <1>3 DEF ResumeRead, Begin, Request
<1>4. ASSUME NEW j \in Jobs, DeleteRead(t, j) PROVE Own(t)
  BY <1>4 DEF DeleteRead, Begin, Request
<1>5. ASSUME NEW j \in Jobs, Cancel(t, j) PROVE Own(t)
  BY <1>5 DEF Cancel, Begin, SetStatus
<1>6. ASSUME NEW j \in Jobs, ExpireRead(t, j) PROVE Own(t)
  BY <1>6 DEF ExpireRead, Begin, Request
<1>7. ASSUME NEW j \in Jobs, FailRead(t, j) PROVE Own(t)
  BY <1>7 DEF FailRead, Begin
<1>8. ASSUME WipeList(t) PROVE Own(t)
  BY <1>8 DEF WipeList, Step
<1>9. ASSUME StartAccepted(t) PROVE Own(t)
  BY <1>9 DEF StartAccepted, Succeed
<1>10. ASSUME StartFailed(t) PROVE Own(t)
  <2>1. job[t] \in Jobs /\ job[t] \in drawn
    BY <1>10 DEF StartFailed, GiveUp
  <2>2. job[t] \in SafeJobs'
    BY <1>10, <2>1, GivenUpSafe DEF StartFailed, GiveUp
  <2> QED
    BY <1>10, <2>1, <2>2 DEF StartFailed, GiveUp
<1>11. ASSUME UndoRow(t) PROVE Own(t)
  BY <1>11 DEF UndoRow, Step, RemoveJob
<1>12. ASSUME StartRow(t) PROVE Own(t)
  BY <1>12 DEF StartRow, Step, SetStatus
<1>13. ASSUME RollbackRead(t) PROVE Own(t)
  BY <1>13 DEF RollbackRead, Step, Request
<1>14. ASSUME RollbackVm(t) PROVE Own(t)
  <2>1. job[t] \in Jobs /\ job[t] \in drawn
    BY <1>14 DEF RollbackVm, Succeed, GiveUp
  <2>2. job[t] \in SafeJobs'
    BY <1>14, <2>1, GivenUpSafe DEF RollbackVm, Succeed, GiveUp
  <2> QED
    BY <1>14, <2>1, <2>2 DEF RollbackVm, Succeed, GiveUp
<1>15. ASSUME RollbackRow(t) PROVE Own(t)
  BY <1>15 DEF RollbackRow, Step, RemoveJob
<1>16. ASSUME Tell(t) PROVE Own(t)
  BY <1>16 DEF Tell, Step
<1>17. ASSUME Paused(t) PROVE Own(t)
  BY <1>17 DEF Paused, Succeed, GiveUp
<1>18. ASSUME PauseFallback(t) PROVE Own(t)
  BY <1>18 DEF PauseFallback, GiveUp, Request
<1>19. ASSUME PauseRow(t) PROVE Own(t)
  BY <1>19 DEF PauseRow, Step, SetStatus
<1>20. ASSUME Resumed(t) PROVE Own(t)
  BY <1>20 DEF Resumed, Succeed, GiveUp
<1>21. ASSUME ResumeRow(t) PROVE Own(t)
  BY <1>21 DEF ResumeRow, Step, SetStatus, Request
<1>22. ASSUME UnresumeFallback(t) PROVE Own(t)
  BY <1>22 DEF UnresumeFallback, GiveUp, Request
<1>23. ASSUME DeletedVm(t) PROVE Own(t)
  <2>1. job[t] \in Jobs /\ job[t] \in drawn
    BY <1>23 DEF DeletedVm, Succeed, GiveUp
  <2>2. job[t] \in SafeJobs'
    BY <1>23, <2>1, GivenUpSafe DEF DeletedVm, Succeed, GiveUp
  <2> QED
    BY <1>23, <2>1, <2>2 DEF DeletedVm, Succeed, GiveUp
<1>24. ASSUME DeleteRow(t) PROVE Own(t)
  BY <1>24 DEF DeleteRow, Step, RemoveJob, SetStatus
<1>25. ASSUME ExpiredVm(t) PROVE Own(t)
  BY <1>25 DEF ExpiredVm, Succeed, GiveUp
<1>26. ASSUME ExpireRow(t) PROVE Own(t)
  BY <1>26 DEF ExpireRow, Step, RemoveJob, SetStatus
<1>27. ASSUME NEW j \in Jobs, WipeNext(t, j) PROVE Own(t)
  BY <1>27 DEF WipeNext, Step, Request
<1>28. ASSUME WipedVm(t) PROVE Own(t)
  <2>1. job[t] \in Jobs /\ job[t] \in drawn
    BY <1>28 DEF WipedVm, Succeed, GiveUp
  <2>2. job[t] \in SafeJobs'
    BY <1>28, <2>1, GivenUpSafe DEF WipedVm, Succeed, GiveUp
  <2> QED
    BY <1>28, <2>1, <2>2 DEF WipedVm, Succeed, GiveUp
<1>29. ASSUME WipeRows(t) PROVE Own(t)
  <2>1. ASSUME pc'[t] = "wipeTell" PROVE Jobs \subseteq SafeJobs'
    <3>1. ASSUME NEW j \in Jobs, row[j] = "none" PROVE j \in SafeJobs'
      BY <1>29, <2>1, <3>1 DEF WipeRows, Step, SafeJobs, Gone, Alive, StartPending, agentVars
    <3>2. ASSUME NEW j \in listed[t] PROVE j \in SafeJobs'
      BY <1>29, <3>2 DEF WipeRows, Step
    <3>3. ASSUME NEW j \in Jobs \ listed[t], row[j] # "none" PROVE j \in SafeJobs'
      BY <1>29, <2>1, <3>3 DEF WipeRows, Step, SafeJobs, Gone, Alive, StartPending, agentVars
    <3> QED
      BY <3>1, <3>2, <3>3
  <2>2. row' = row \/ pc'[t] = "wipeTell"
    BY <1>29 DEF WipeRows, Step
  <2> QED
    BY <1>29, <2>1, <2>2 DEF WipeRows, Step
<1>30. ASSUME WipeTell(t) PROVE Own(t)
  BY <1>30 DEF WipeTell, Step
<1>31. ASSUME FailRow(t) PROVE Own(t)
  BY <1>31 DEF FailRow, Step, SetStatus
<1> QED
  BY <1>1, <1>2, <1>3, <1>4, <1>5, <1>6, <1>7, <1>8, <1>9, <1>10, <1>11, <1>12, <1>13,
     <1>14, <1>15, <1>16, <1>17, <1>18, <1>19, <1>20, <1>21, <1>22, <1>23, <1>24, <1>25,
     <1>26, <1>27, <1>28, <1>29, <1>30, <1>31 DEF Start, Continue

(* Heartbeats, failure events, background startups, process exits and crashes:
   no row appears or disappears, no task moves on, no VM is started. *)
Outside ==
  /\ UNCHANGED <<drawn, job, listed, todo>>
  /\ \A j \in Jobs : row'[j] = "none" <=> row[j] = "none"
  /\ \A u \in Tasks : pc'[u] = pc[u] \/ pc'[u] \in {"idle", "done"}
  /\ \A u \in answered' : u \in answered /\ pc'[u] = pc[u]

(* A step that touches neither rows nor tasks keeps the invariant if the safe
   jobs stay safe. *)
LEMMA OutsideKeeps ==
  ASSUME IInv, Outside, SafeKept
  PROVE  Known' /\ Removal'
<1> USE JobsAssumption DEF IInv, TypeInv, TypeOK, Outside
<1>1. Known'
  BY DEF Known
<1>2. \A j \in Jobs : row'[j] = "none" => j \in SafeJobs'
  BY DEF Removal, SafeKept
<1>3. SafeJobs \subseteq Jobs
  BY DEF SafeJobs
<1>4. \A u \in Tasks : job[u] \in SafeJobs => job'[u] \in SafeJobs'
  BY <1>3 DEF Known, SafeKept
<1>5. ASSUME NEW u \in Tasks PROVE listed[u] \cap SafeJobs \subseteq SafeJobs'
  BY <1>3 DEF Known, SafeKept
<1>6. \A u \in Tasks : pc'[u] \in Removing => job'[u] \in SafeJobs'
  BY <1>4 DEF Removal, Removing
<1>7. \A u \in answered' : pc'[u] \in DeleteWaits => job'[u] \in SafeJobs'
  BY <1>4 DEF Removal
<1>8. ASSUME NEW u \in Tasks, pc'[u] = "wipeNext"
      PROVE  listed'[u] \subseteq SafeJobs' \cup todo'[u]
  BY <1>5, <1>8 DEF Removal
<1>9. ASSUME NEW u \in Tasks, pc'[u] = "wiping"
      PROVE  listed'[u] \subseteq SafeJobs' \cup todo'[u] \cup {job'[u]}
  BY <1>5, <1>9 DEF Removal
<1> QED
  BY <1>1, <1>2, <1>6, <1>7, <1>8, <1>9 DEF Removal, Removing, DeleteWaits

(* Heartbeats, events, boots, exits and crashes are such steps. *)
LEMMA BackgroundOutside ==
  ASSUME IInv,
         \/ \E j \in Jobs : FailureIgnored(j) \/ BootDone(j) \/ BootFailed(j) \/ ProcessExit(j)
         \/ BeatSend \/ BeatLost \/ BeatHandled \/ Crash
  PROVE  Outside /\ SafeKept
<1> USE DEF IInv, TypeInv, TypeOK, schedulerVars, agentVars, wipeVars
<1>1. CASE \E j \in Jobs : FailureIgnored(j) \/ BootDone(j) \/ BootFailed(j) \/ ProcessExit(j)
  <2>1. Outside
    BY <1>1 DEF FailureIgnored, BootDone, BootFailed, ProcessExit, Outside
  <2>2. UNCHANGED <<calls, leaky>>
    BY <1>1 DEF FailureIgnored, BootDone, BootFailed, ProcessExit
  <2>3. ASSUME NEW k \in Jobs, ~Alive(k) PROVE ~Alive(k)'
    BY <1>1, <2>3 DEF FailureIgnored, BootDone, BootFailed, ProcessExit, Alive
  <2> QED
    BY <2>1, <2>2, <2>3 DEF SafeKept, SafeJobs, Gone, StartPending
<1>2. CASE BeatSend \/ BeatLost \/ BeatHandled \/ Crash
  <2>1. Outside
    BY <1>2 DEF BeatSend, BeatLost, BeatHandled, BeatRead, BeatMark, BeatTell, BeatEnd, Crash,
                SetStatus, Outside
  <2>2. UNCHANGED <<calls, leaky, vm, booting, proc, stray>>
    BY <1>2 DEF BeatSend, BeatLost, BeatHandled, BeatRead, BeatMark, BeatTell, BeatEnd, Crash
  <2> QED
    BY <2>1, <2>2 DEF SafeKept, SafeJobs, Gone, Alive, StartPending
<1> QED
  BY <1>1, <1>2

-----------------------------------------------------------------------------
(* Commands executed by an agent *)
LEMMA ExecuteSafeKept == \A c \in calls : IInv /\ Execute(c) => SafeKept
<1> SUFFICES ASSUME NEW c \in calls, IInv, Execute(c),
                    NEW j \in SafeJobs
             PROVE  j \in SafeJobs'
  BY DEF SafeKept
<1> USE DEF IInv, TypeInv, TypeOK, Call, agentVars
<1>1. calls' = calls \ {c} /\ leaky \subseteq leaky'
  BY DEF Execute, ExecStart, ExecStartFails, ExecPause, ExecStop, ExecResume, ExecDelete,
         ExecNothing, Executed
<1>2. CASE j \in leaky
  BY <1>1, <1>2 DEF SafeJobs
<1>3. CASE Gone(j)
  <2>1. ~StartPending(j)'
    BY <1>1, <1>3 DEF Gone, StartPending
  <2>2. ~(c.op = "start" /\ c.job = j) /\ vm[j] = "none" /\ j \notin booting \cup proc \cup stray
    BY <1>3 DEF Gone, Alive, StartPending, SafeJobs
  <2>3. c.job \in Jobs /\ j \in Jobs
    BY DEF SafeJobs
  <2>4. ~Alive(j)'
    <3>1. CASE ExecStart(c)
      BY <2>2, <2>3, <3>1 DEF ExecStart, Alive
    <3>2. CASE ExecStartFails(c)
      BY <2>2, <2>3, <3>2 DEF ExecStartFails, Alive
    <3>3. CASE ExecPause(c) \/ ExecStop(c)
      BY <2>2, <2>3, <3>3 DEF ExecPause, ExecStop, Alive
    <3>4. CASE ExecResume(c)
      BY <2>2, <2>3, <3>4 DEF ExecResume, Alive
    <3>5. CASE ExecDelete(c) \/ ExecNothing(c)
      BY <2>2, <2>3, <3>5 DEF ExecDelete, ExecNothing, Alive
    <3> QED
      BY <3>1, <3>2, <3>3, <3>4, <3>5 DEF Execute
  <2> QED
    BY <2>1, <2>3, <2>4 DEF SafeJobs, Gone
<1> QED
  BY <1>2, <1>3 DEF SafeJobs

(* When the agent answers a delete_vm that is still awaited, the VM is gone or
   the job is leaky. *)
LEMMA ExecuteAnswers ==
  ASSUME IInv, NEW c \in calls, Execute(c), NEW u \in answered', u \notin answered
  PROVE  pc[u] \in Waiting /\ (pc[u] \in DeleteWaits => job[u] \in SafeJobs')
<1> USE PointsDef DEF IInv, TypeInv, TypeOK, Call
<1>1. u = c.by /\ Awaits(c)
  BY DEF Execute, ExecStart, ExecStartFails, ExecPause, ExecStop, ExecResume, ExecDelete,
         ExecNothing, Executed
<1>2. pc[u] \in Waiting /\ CallAt[pc[u]] = c.op /\ job[u] = c.job
  BY <1>1 DEF Awaits
<1>3. ASSUME pc[u] \in DeleteWaits PROVE c.job \in SafeJobs'
  <2>1. c.op = "delete" /\ c.job \in Jobs
    BY <1>2, <1>3 DEF DeleteWaits
  <2>2. ExecDelete(c)
    BY <2>1 DEF Execute, ExecStart, ExecStartFails, ExecPause, ExecStop, ExecResume, ExecNothing
  <2>3. calls' = calls \ {c} /\ vm'[c.job] = "none" /\ UNCHANGED <<booting, stray>>
    BY <2>1, <2>2 DEF ExecDelete, Executed
  <2>4. CASE c.job \in leaky'
    BY <2>1, <2>4 DEF SafeJobs
  <2>5. CASE c.job \notin leaky'
    <3>1. c.job \notin booting' \cup proc' \cup stray' /\ ~StartPending(c.job)
      BY <2>1, <2>2, <2>3, <2>5 DEF ExecDelete
    <3>2. \A d \in calls' : ~(d.op = "start" /\ d.job = c.job)
      BY <2>3, <3>1 DEF StartPending
    <3> QED
      BY <2>1, <2>3, <3>1, <3>2 DEF SafeJobs, Gone, Alive, StartPending
  <2> QED
    BY <2>4, <2>5
<1> QED
  BY <1>2, <1>3

(* A command the agent executes keeps the invariant. *)
LEMMA AgentKeeps == \A c \in calls : IInv /\ Execute(c) => Known' /\ Removal'
<1> SUFFICES ASSUME NEW c \in calls, IInv, Execute(c) PROVE Known' /\ Removal'
  OBVIOUS
<1>1. UNCHANGED <<row, drawn, pc, job, listed, todo>>
  BY DEF Execute, wipeVars
<1>2. SafeJobs \subseteq SafeJobs'
  <2>1. \A j \in SafeJobs : row[j] = "none" \/ j \in drawn
    BY DEF IInv, Known, SafeJobs
  <2> QED
    BY <1>1, <2>1, ExecuteSafeKept DEF SafeKept
<1>3. \A u \in answered' \ answered :
         pc[u] \in Waiting /\ (pc[u] \in DeleteWaits => job[u] \in SafeJobs')
  BY ExecuteAnswers
<1>4. Waiting' = Waiting /\ Removing' = Removing /\ DeleteWaits' = DeleteWaits
  BY DEF Waiting, CallAt, Removing, DeleteWaits
<1>5. Known'
  BY <1>1, <1>3, <1>4 DEF IInv, Known
<1>6. Removal'
  BY <1>1, <1>2, <1>3, <1>4 DEF IInv, Removal
<1> QED
  BY <1>5, <1>6

-----------------------------------------------------------------------------
(* The invariant holds at the beginning: no VM, no call, no task. *)
LEMMA IInvInit == Init => IInv
<1> SUFFICES ASSUME Init PROVE IInv
  OBVIOUS
<1>1. \A j \in Jobs : Gone(j)
  BY DEF Init, Gone, Alive, StartPending
<1>2. Known
  BY DEF Init, Known
<1>3. Removal
  BY <1>1 DEF Init, Removal, SafeJobs, Removing, DeleteWaits
<1> QED
  BY <1>2, <1>3, TypeInit DEF IInv

(* Every step preserves the invariant. *)
LEMMA IInvStep == IInv /\ [Next]_vars => IInv'
<1> SUFFICES ASSUME IInv, [Next]_vars PROVE IInv'
  OBVIOUS
<1>1. TypeInv'
  BY TypeStep DEF IInv
<1>2. CASE \E t \in Tasks : Start(t) \/ Continue(t)
  BY <1>1, <1>2, KnownHandler, RemovalHandler DEF IInv
<1>3. CASE \/ \E j \in Jobs : FailureIgnored(j) \/ BootDone(j) \/ BootFailed(j) \/ ProcessExit(j)
           \/ BeatSend \/ BeatLost \/ BeatHandled \/ Crash
  <2>1. Outside /\ SafeKept
    BY <1>3, BackgroundOutside
  <2> QED
    BY <1>1, <2>1, OutsideKeeps DEF IInv
<1>4. CASE \E c \in calls : Execute(c)
  BY <1>1, <1>4, AgentKeeps DEF IInv
<1>5. CASE UNCHANGED vars
  <2>1. Known'
    BY <1>5 DEF vars, IInv, Known
  <2>2. Removal'
    BY <1>5 DEF vars, IInv, Removal, SafeJobs, Gone, Alive, StartPending, Removing, DeleteWaits
  <2> QED
    BY <1>1, <2>1, <2>2 DEF IInv
<1> QED
  BY <1>2, <1>3, <1>4, <1>5 DEF Next

(* A VM or a process without a row has met one of the leak windows, for any
   number of jobs and handlers, and whatever is lost, late or crashes. *)
THEOREM OrphansHaveACause == Spec => []OrphanHasCause
<1>1. IInv => OrphanHasCause
  BY DEF IInv, Removal, OrphanHasCause, SafeJobs, Gone
<1> QED
  BY <1>1, IInvInit, IInvStep, PTL DEF Spec

-----------------------------------------------------------------------------
(* Refinement.  A job that was never drawn has left no trace. *)
Fresh == \A j \in Jobs : j \notin drawn => Gone(j) /\ j \notin leaky

RInv == IInv /\ Fresh

(* A VM that is gone stays gone, but for the job that is just drawn. *)
GoneKept == \A j \in Jobs : Gone(j) => Gone(j)' \/ (j \notin drawn /\ j \in drawn')

(* A step of a handler after add_job draws no job, changes no VM and starts none. *)
Tame ==
  /\ UNCHANGED <<drawn, vm, booting, proc, stray>>
  /\ \A c \in calls \cup calls' : c.op = "start" => (c \in calls <=> c \in calls')

(* Then every job is gone just as it was. *)
LEMMA TameGone == ASSUME Tame, NEW j \in Jobs PROVE Gone(j)' <=> Gone(j)
<1>1. Alive(j)' <=> Alive(j)
  BY DEF Tame, Alive
<1>2. StartPending(j)' <=> StartPending(j)
  BY DEF Tame, StartPending
<1> QED
  BY <1>1, <1>2 DEF Gone

(* What a tame step does to the rows and to the VMs written off, in terms of JobTable. *)
Same == row' = row /\ leaky' = leaky
Noted(j) == row' = row /\ leaky' \in {leaky, leaky \cup {j}}
Reports(j) ==
  /\ leaky' = leaky
  /\ \E s \in Statuses \ {"scheduled"} :
       row' = [row EXCEPT ![j] = IF @ = "none" THEN @ ELSE s]
Removes(j) == leaky' = leaky /\ row' = [row EXCEPT ![j] = "none"] /\ j \in SafeJobs
Wipes ==
  /\ row' = [j \in Jobs |-> "none"]
  /\ leaky' = leaky \cup {j \in Jobs : row[j] # "none" /\ j \notin SafeJobs}

Effect(j) == Same \/ Noted(j) \/ Reports(j) \/ Removes(j)

(* What the steps of a handler do, job by job. *)
LEMMA HandlerEffect ==
  ASSUME RInv, NEW t \in Tasks, Start(t) \/ Continue(t), \A j \in Jobs : ~AddJob(t, j)
  PROVE  Tame /\ (Same \/ Wipes \/ \E j \in drawn : Effect(j))
<1>a. /\ pc \in [Tasks -> Points] /\ job \in [Tasks -> Jobs \cup {NoJob}]
      /\ row \in [Jobs -> Statuses \cup {"none"}] /\ drawn \subseteq Jobs /\ leaky \subseteq Jobs
  BY DEF RInv, IInv, TypeInv, TypeOK
<1>b. pc[t] \notin NoSubject => job[t] \in Jobs /\ job[t] \in drawn
  BY JobsAssumption, <1>a DEF RInv, IInv, TypeInv, Subjects, Known
<1>c. pc[t] \in Removing => job[t] \in SafeJobs
  BY DEF RInv, IInv, Removal
<1> USE <1>a, <1>b, <1>c DEF Tame, Effect, NoSubject, wipeVars, agentVars
<1>1. CASE \/ WipeList(t)
           \/ \E j \in Jobs : \/ PauseRead(t, j) \/ ResumeRead(t, j) \/ DeleteRead(t, j)
                              \/ ExpireRead(t, j) \/ FailRead(t, j)
  <2>1. Tame
    BY <1>1 DEF PauseRead, ResumeRead, DeleteRead, ExpireRead, FailRead, WipeList, Request
  <2>2. Same
    BY <1>1 DEF PauseRead, ResumeRead, DeleteRead, ExpireRead, FailRead, WipeList, Same
  <2> QED
    BY <2>1, <2>2
<1>2. ASSUME NEW j \in Jobs, Cancel(t, j) PROVE Tame /\ \E k \in drawn : Effect(k)
  <2>1. j \in drawn /\ "cancelled" \in Statuses \ {"scheduled"}
    BY <1>2 DEF Cancel, RInv, IInv, Known, Statuses
  <2>2. Tame
    BY <1>2 DEF Cancel
  <2>3. Reports(j)
    BY <1>2, <2>1 DEF Cancel, SetStatus, Reports
  <2> QED
    BY <2>1, <2>2, <2>3
<1>3. CASE \/ StartAccepted(t) \/ RollbackRead(t) \/ Tell(t) \/ Paused(t) \/ PauseFallback(t)
           \/ Resumed(t) \/ UnresumeFallback(t) \/ ExpiredVm(t) \/ WipeTell(t)
           \/ \E k \in Jobs : WipeNext(t, k)
  <2>1. Tame
    BY <1>3 DEF StartAccepted, RollbackRead, Tell, Paused, PauseFallback, Resumed,
                UnresumeFallback, ExpiredVm, WipeTell, WipeNext, Request
  <2>2. Same
    BY <1>3 DEF StartAccepted, RollbackRead, Tell, Paused, PauseFallback, Resumed,
                UnresumeFallback, ExpiredVm, WipeTell, WipeNext, Same
  <2> QED
    BY <2>1, <2>2
<1>4. CASE StartFailed(t) \/ RollbackVm(t) \/ DeletedVm(t) \/ WipedVm(t)
  <2>1. Tame
    BY <1>4 DEF StartFailed, RollbackVm, DeletedVm, WipedVm
  <2>2. pc[t] \notin NoSubject
    BY <1>4 DEF StartFailed, RollbackVm, DeletedVm, WipedVm, Succeed, GiveUp
  <2>3. Noted(job[t])
    BY <1>4 DEF StartFailed, RollbackVm, DeletedVm, WipedVm, LeakIfAlive, Noted
  <2> QED
    BY <2>1, <2>2, <2>3
<1>5. CASE \/ UndoRow(t) \/ RollbackRow(t) \/ StartRow(t) \/ PauseRow(t) \/ ResumeRow(t)
           \/ DeleteRow(t) \/ ExpireRow(t) \/ FailRow(t)
  <2>1. Tame
    BY <1>5 DEF UndoRow, RollbackRow, StartRow, PauseRow, ResumeRow, DeleteRow, ExpireRow,
                FailRow, Request
  <2>2. pc[t] \notin NoSubject
    BY <1>5 DEF UndoRow, RollbackRow, StartRow, PauseRow, ResumeRow, DeleteRow, ExpireRow,
                FailRow, Step
  <2>3. CASE StartRow(t) \/ PauseRow(t) \/ ResumeRow(t) \/ FailRow(t)
    <3>1. Same \/ Reports(job[t])
      BY <2>3 DEF StartRow, PauseRow, ResumeRow, FailRow, SetStatus, Same, Reports, Statuses
    <3> QED
      BY <2>1, <2>2, <3>1
  <2>4. CASE UndoRow(t) \/ RollbackRow(t)
    <3>1. Same \/ Removes(job[t])
      BY <2>4 DEF UndoRow, RollbackRow, Step, RemoveJob, Same, Removes, Removing
    <3> QED
      BY <2>1, <2>2, <3>1
  <2>5. CASE DeleteRow(t) \/ ExpireRow(t)
    <3>1. Same \/ Reports(job[t]) \/ Removes(job[t])
      BY <2>5 DEF DeleteRow, ExpireRow, Step, SetStatus, RemoveJob, Same, Reports, Removes,
                  Removing, Statuses
    <3> QED
      BY <2>1, <2>2, <3>1
  <2> QED
    BY <1>5, <2>3, <2>4, <2>5
<1>6. CASE WipeRows(t)
  <2>1. Tame
    BY <1>6 DEF WipeRows
  <2>2. CASE row' = row /\ leaky' = leaky
    BY <2>1, <2>2 DEF Same
  <2>3. CASE /\ row' = [j \in Jobs |-> "none"]
             /\ leaky' = leaky \cup {j \in Jobs \ listed[t] : row[j] # "none" /\ ~Gone(j)}
    <3>1. listed[t] \subseteq SafeJobs
      BY <1>6 DEF WipeRows, Step, RInv, IInv, Removal
    <3>2. Wipes
      BY <2>3, <3>1 DEF Wipes, SafeJobs
    <3> QED
      BY <2>1, <3>2
  <2> QED
    BY <1>6, <2>2, <2>3 DEF WipeRows
<1> QED
  BY <1>1, <1>2, <1>3, <1>4, <1>5, <1>6 DEF Start, Continue

(* Such a step is one of JobTable. *)
LEMMA TameSimulated ==
  ASSUME RInv, Tame, Same \/ Wipes \/ \E j \in drawn : Effect(j)
  PROVE  [Promise!Next]_<<row, Machine>> /\ Fresh'
<1>a. /\ row \in [Jobs -> Statuses \cup {"none"}] /\ drawn \subseteq Jobs
      /\ \A j \in Jobs : row[j] # "none" => j \in drawn
      /\ \A j \in Jobs : row[j] = "none" => j \in SafeJobs
  BY DEF RInv, IInv, TypeInv, TypeOK, Known, Removal
<1>b. \A j \in Jobs : Gone(j)' <=> Gone(j)
  BY TameGone DEF RInv
<1>c. drawn' = drawn
  BY DEF Tame
<1>d. \A j \in Jobs : j \notin drawn => Gone(j) /\ j \notin leaky
  BY DEF RInv, Fresh
<1> USE <1>a, <1>b, <1>c, <1>d
<1>1. CASE Same
  BY <1>1 DEF Same, Machine, Fresh
<1>2. ASSUME NEW j \in drawn, Noted(j) PROVE [Promise!Next]_<<row, Machine>> /\ Fresh'
  <2>1. Fresh'
    BY <1>2 DEF Noted, Fresh
  <2>2. CASE Machine[j] = "present"
    <3>1. Machine' = Machine \/ Machine' = [Machine EXCEPT ![j] = "lost"]
      BY <1>2, <2>2 DEF Noted, Machine
    <3> QED
      BY <1>2, <2>1, <2>2, <3>1 DEF Noted, Promise!Next, Promise!Fade
  <2>3. CASE Machine[j] # "present"
    <3>1. Machine' = Machine
      BY <1>2, <2>3 DEF Noted, Machine
    <3> QED
      BY <1>2, <2>1, <3>1 DEF Noted
  <2> QED
    BY <2>2, <2>3
<1>3. ASSUME NEW j \in drawn, Reports(j) PROVE [Promise!Next]_<<row, Machine>> /\ Fresh'
  <2>1. Machine' = Machine /\ Fresh'
    BY <1>3 DEF Reports, Machine, Fresh
  <2>2. PICK s \in Statuses \ {"scheduled"} :
               row' = [row EXCEPT ![j] = IF @ = "none" THEN @ ELSE s]
    BY <1>3 DEF Reports
  <2>3. CASE row[j] = "none"
    BY <2>1, <2>2, <2>3
  <2>4. CASE row[j] # "none"
    BY <2>1, <2>2, <2>4 DEF Statuses, Promise!Statuses, Promise!Next, Promise!Report
  <2> QED
    BY <2>3, <2>4
<1>4. ASSUME NEW j \in drawn, Removes(j) PROVE [Promise!Next]_<<row, Machine>> /\ Fresh'
  <2>1. Machine' = Machine /\ Fresh'
    BY <1>4 DEF Removes, Machine, Fresh
  <2>2. CASE row[j] = "none"
    BY <1>4, <2>1, <2>2 DEF Removes
  <2>3. CASE row[j] # "none"
    <3>1. row' = [k \in Jobs |-> IF k \in {j} THEN "none" ELSE row[k]]
      BY <1>4 DEF Removes
    <3>2. Machine[j] # "present"
      BY <1>4 DEF Removes, SafeJobs, Machine
    <3>3. Machine = [k \in Jobs |-> IF k \in {j} /\ Machine[k] = "present" THEN "lost"
                                                                      ELSE Machine[k]]
      BY <3>2 DEF Machine
    <3>4. Promise!Remove({j})
      BY <2>1, <2>3, <3>1, <3>3 DEF Promise!Remove
    <3> QED
      BY <2>1, <3>4 DEF Promise!Next
  <2> QED
    BY <2>2, <2>3
<1>5. CASE Wipes
  <2> DEFINE S == {j \in Jobs : row[j] # "none"}
  <2>1. Fresh'
    BY <1>5 DEF Wipes, Fresh
  <2>2. row' = [j \in Jobs |-> IF j \in S THEN "none" ELSE row[j]]
    BY <1>5 DEF Wipes
  <2>3. ASSUME NEW j \in Jobs
        PROVE  Machine'[j] = IF j \in S /\ Machine[j] = "present" THEN "lost" ELSE Machine[j]
    BY <1>5, <2>3 DEF Wipes, Machine, SafeJobs
  <2>4. Machine' = [j \in Jobs |-> IF j \in S /\ Machine[j] = "present" THEN "lost"
                                                                    ELSE Machine[j]]
    BY <2>3 DEF Machine
  <2>5. Promise!Remove(S)
    BY <2>2, <2>4 DEF Promise!Remove
  <2> QED
    BY <2>1, <2>5 DEF Promise!Next
<1> QED
  BY <1>1, <1>2, <1>3, <1>4, <1>5 DEF Effect

(* add_job stores a row and sends the first start_vm of a job. *)
LEMMA AddJobSimulated ==
  ASSUME RInv, NEW t \in Tasks, NEW j \in Jobs, AddJob(t, j)
  PROVE  [Promise!Next]_<<row, Machine>> /\ Fresh'
<1> USE DEF AddJob, agentVars
<1>a. /\ row \in [Jobs -> Statuses \cup {"none"}] /\ drawn \subseteq Jobs /\ leaky \subseteq Jobs
      /\ \A k \in Jobs : row[k] # "none" => k \in drawn
      /\ \A k \in Jobs : k \notin drawn => Gone(k) /\ k \notin leaky
  BY DEF RInv, IInv, TypeInv, TypeOK, Known, Fresh
<1>1. \A k \in Jobs : Alive(k)' <=> Alive(k)
  BY DEF Alive
<1>2. calls' = calls \cup {[op |-> "start", job |-> j, by |-> t]}
  BY DEF Request
<1>3. \A k \in Jobs \ {j} : StartPending(k)' <=> StartPending(k)
  BY <1>2 DEF StartPending
<1>4. StartPending(j)'
  <2> DEFINE c == [op |-> "start", job |-> j, by |-> t]
  <2>1. c \in calls' /\ c.op = "start" /\ c.job = j
    BY <1>2
  <2> QED
    BY <2>1 DEF StartPending
<1>5. /\ \A k \in Jobs \ {j} : Gone(k)' <=> Gone(k)
      /\ ~Gone(j)'
  BY <1>1, <1>3, <1>4 DEF Gone
<1>6. Fresh'
  BY <1>a, <1>5 DEF Fresh
<1>7. Machine[j] = "none" /\ row[j] = "none"
  BY <1>a DEF Machine
<1>8. Machine' = [Machine EXCEPT ![j] = "present"]
  BY <1>a, <1>5 DEF Machine
<1>9. Promise!Create(j)
  BY <1>7, <1>8 DEF Promise!Create
<1> QED
  BY <1>6, <1>9 DEF Promise!Next

(* A step that touches the VM of one job, and no row, ends that VM or writes it off. *)
LEMMA FadeSimulated ==
  ASSUME RInv, NEW j \in Jobs, UNCHANGED <<row, drawn>>, leaky' \in {leaky, leaky \cup {j}},
         j \notin drawn => leaky' = leaky,
         \A k \in Jobs : Gone(k) => Gone(k)',
         \A k \in Jobs \ {j} : Gone(k)' => Gone(k)
  PROVE  [Promise!Next]_<<row, Machine>> /\ Fresh'
<1>a. \A k \in Jobs : k \notin drawn => Gone(k) /\ k \notin leaky
  BY DEF RInv, Fresh
<1>1. Fresh'
  BY <1>a DEF Fresh
<1>2. \A k \in Jobs \ {j} : Machine'[k] = Machine[k]
  BY DEF Machine
<1>3. \/ Machine'[j] = Machine[j]
      \/ Machine[j] = "present" /\ Machine'[j] = "lost"
      \/ Machine[j] \in {"present", "lost"} /\ Machine'[j] = "gone"
  BY <1>a DEF Machine
<1>4. Machine' = [Machine EXCEPT ![j] = Machine'[j]]
  BY <1>2 DEF Machine
<1>5. CASE Machine'[j] = Machine[j]
  <2>1. Machine' = Machine
    BY <1>2, <1>5 DEF Machine
  <2> QED
    BY <1>1, <2>1
<1>6. CASE Machine'[j] # Machine[j]
  <2>1. Promise!Fade(j)
    BY <1>3, <1>4, <1>6 DEF Promise!Fade
  <2> QED
    BY <1>1, <2>1 DEF Promise!Next
<1> QED
  BY <1>5, <1>6

(* Boots, exits, heartbeats, events and crashes. *)
LEMMA BackgroundSimulated ==
  ASSUME RInv,
         \/ \E j \in Jobs : FailureIgnored(j) \/ BootDone(j) \/ BootFailed(j) \/ ProcessExit(j)
         \/ BeatSend \/ BeatLost \/ BeatHandled \/ Crash
  PROVE  [Promise!Next]_<<row, Machine>> /\ Fresh'
<1> USE DEF agentVars, schedulerVars, wipeVars
<1>a. /\ vm \in [Jobs -> VmStatuses \cup {"none"}] /\ booting \subseteq Jobs
      /\ row \in [Jobs -> Statuses \cup {"none"}]
      /\ \A j \in Jobs : row[j] # "none" => j \in drawn
  BY DEF RInv, IInv, TypeInv, TypeOK, Known
<1>1. ASSUME NEW j \in Jobs, FailureIgnored(j) \/ BootDone(j) \/ BootFailed(j) \/ ProcessExit(j)
      PROVE  [Promise!Next]_<<row, Machine>> /\ Fresh'
  <2>1. UNCHANGED <<row, drawn, leaky, calls>>
    BY <1>1 DEF FailureIgnored, BootDone, BootFailed, ProcessExit
  <2>2. \A k \in Jobs : StartPending(k)' <=> StartPending(k)
    BY <2>1 DEF StartPending
  <2>3. \A k \in Jobs : ~Alive(k) => ~Alive(k)'
    BY <1>a, <1>1 DEF FailureIgnored, BootDone, BootFailed, ProcessExit, Alive
  <2>4. \A k \in Jobs \ {j} : ~Alive(k)' => ~Alive(k)
    BY <1>a, <1>1 DEF FailureIgnored, BootDone, BootFailed, ProcessExit, Alive
  <2>5. /\ \A k \in Jobs : Gone(k) => Gone(k)'
        /\ \A k \in Jobs \ {j} : Gone(k)' => Gone(k)
    BY <2>2, <2>3, <2>4 DEF Gone
  <2> QED
    BY <2>1, <2>5, FadeSimulated
<1>2. CASE BeatSend \/ BeatLost \/ BeatHandled \/ Crash
  <2>1. Tame
    BY <1>2 DEF BeatSend, BeatLost, BeatHandled, BeatRead, BeatMark, BeatTell, BeatEnd, Crash, Tame
  <2>2. ASSUME NEW j \in Jobs, BeatMark(j) PROVE Same \/ (j \in drawn /\ Reports(j))
    <3>1. CASE row[j] = "none"
      BY <1>a, <2>2, <3>1 DEF BeatMark, SetStatus, Same
    <3>2. CASE row[j] # "none"
      BY <1>a, <2>2, <3>2 DEF BeatMark, SetStatus, Same, Reports, Statuses
    <3> QED
      BY <3>1, <3>2
  <2>3. Same \/ \E j \in drawn : Effect(j)
    BY <1>2, <2>2 DEF BeatSend, BeatLost, BeatHandled, BeatRead, BeatTell, BeatEnd, Crash, Same,
                     Effect
  <2> QED
    BY <2>1, <2>3, TameSimulated
<1> QED
  BY <1>1, <1>2

(* Commands executed by an agent: only the job they name is concerned. *)
LEMMA ExecuteSimulated ==
  ASSUME RInv, NEW c \in calls, Execute(c)
  PROVE  [Promise!Next]_<<row, Machine>> /\ Fresh'
<1> USE DEF RInv, IInv, TypeInv, TypeOK, Call, agentVars
<1>1. /\ UNCHANGED <<row, drawn>> /\ calls' = calls \ {c} /\ c.job \in Jobs
      /\ leaky' \in {leaky, leaky \cup {c.job}}
  BY DEF Execute, ExecStart, ExecStartFails, ExecPause, ExecStop, ExecResume, ExecDelete,
         ExecNothing, Executed
<1>2. \A k \in Jobs \ {c.job} : Alive(k)' <=> Alive(k)
  BY <1>1 DEF Execute, ExecStart, ExecStartFails, ExecPause, ExecStop, ExecResume, ExecDelete,
         ExecNothing, Alive
<1>3. \A k \in Jobs \ {c.job} : StartPending(k)' <=> StartPending(k)
  BY <1>1 DEF StartPending
<1>4. Gone(c.job) => Gone(c.job)' /\ leaky' = leaky
  <2> SUFFICES ASSUME Gone(c.job) PROVE Gone(c.job)' /\ leaky' = leaky
    OBVIOUS
  <2>1. /\ c.op # "start" /\ vm[c.job] = "none" /\ c.job \notin booting \cup proc \cup stray
        /\ ~StartPending(c.job)
    BY DEF Gone, Alive, StartPending
  <2>2. ~StartPending(c.job)'
    BY <1>1, <2>1 DEF StartPending
  <2>3. CASE ExecDelete(c)
    BY <1>1, <2>1, <2>2, <2>3 DEF ExecDelete, Gone, Alive
  <2>4. CASE ~ExecDelete(c)
    BY <1>1, <2>1, <2>2, <2>4 DEF Execute, ExecStart, ExecStartFails, ExecPause, ExecStop,
                                  ExecResume, ExecNothing, Gone, Alive
  <2> QED
    BY <2>3, <2>4
<1>5. /\ \A k \in Jobs : Gone(k) => Gone(k)'
      /\ \A k \in Jobs \ {c.job} : Gone(k)' => Gone(k)
  BY <1>2, <1>3, <1>4 DEF Gone
<1>6. c.job \notin drawn => leaky' = leaky
  BY <1>1, <1>4 DEF Fresh
<1> QED
  BY <1>1, <1>5, <1>6, FadeSimulated

(* Every step of the handlers and agents is a step of the table, or none. *)
LEMMA StepSimulated == RInv /\ [Next]_vars => RInv' /\ [Promise!Next]_<<row, Machine>>
<1> SUFFICES ASSUME RInv, [Next]_vars PROVE Fresh' /\ [Promise!Next]_<<row, Machine>>
  BY IInvStep DEF RInv
<1>1. CASE \E t \in Tasks : Start(t) \/ Continue(t)
  <2>1. PICK t \in Tasks : Start(t) \/ Continue(t)
    BY <1>1
  <2>2. CASE \E j \in Jobs : AddJob(t, j)
    BY <2>2, AddJobSimulated
  <2>3. CASE \A j \in Jobs : ~AddJob(t, j)
    BY <2>1, <2>3, HandlerEffect, TameSimulated
  <2> QED
    BY <2>2, <2>3
<1>2. CASE \/ \E j \in Jobs : FailureIgnored(j) \/ BootDone(j) \/ BootFailed(j) \/ ProcessExit(j)
           \/ BeatSend \/ BeatLost \/ BeatHandled \/ Crash
  BY <1>2, BackgroundSimulated
<1>3. CASE \E c \in calls : Execute(c)
  BY <1>3, ExecuteSimulated
<1>4. CASE UNCHANGED vars
  BY <1>4 DEF vars, RInv, Fresh, Machine, Gone, Alive, StartPending
<1> QED
  BY <1>1, <1>2, <1>3, <1>4 DEF Next

(* The scheduler and its agents implement the abstract table of JobTable, for
   any number of jobs, handlers and faults: rows are created and removed once, a
   microVM never comes back, and none is forgotten without being written off. *)
THEOREM SchedulerKeepsItsPromise == Spec => KeepsPromise
<1>1. Init => RInv /\ Promise!Init
  <2> SUFFICES ASSUME Init PROVE RInv /\ Promise!Init
    OBVIOUS
  <2>1. IInv
    BY IInvInit
  <2>2. \A j \in Jobs : Gone(j) /\ j \notin leaky /\ j \notin drawn
    BY DEF Init, Gone, Alive, StartPending
  <2>3. Machine = [j \in Jobs |-> "none"]
    BY <2>2 DEF Machine
  <2> QED
    BY <2>1, <2>2, <2>3 DEF RInv, Fresh, Init, Promise!Init
<1> QED
  BY <1>1, StepSimulated, PTL DEF Spec, KeepsPromise, Promise!Spec

=============================================================================
