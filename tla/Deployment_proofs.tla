-------------------------- MODULE Deployment_proofs --------------------------
(***************************************************************************)
(* Proofs about the API's deployments of one application, for any number   *)
(* of deployments, tasks, listeners and rare events.                       *)
(***************************************************************************)
EXTENDS Deployment, TLAPS

(* A listener only reads, decides, writes and sends the route, and never drains. *)
ListenerPoints == {"idle", "look", "ask", "apply", "list", "send"}
Listening ==
  \A l \in Listeners : /\ task[l].pc \in ListenerPoints /\ task[l].kind = "sync"
                       /\ task[l].pc \in {"look", "ask", "apply"} => task[l].dep \in Deps

(* A task that has begun has its deployment, and never decides about updates; one that will ask *)
(* for the guard goes on with a flow, any other with what a user has asked for.                  *)
Working ==
  \A t \in Tasks : /\ task[t].pc \notin {"look", "ask", "apply"}
                   /\ task[t].pc # "idle" => task[t].dep \in Deps
                   /\ task[t].pc = "guard" => task[t].kind \in {"image", "build", "now", "resume"}
                   /\ task[t].pc \in {"vm", "row"} => task[t].kind \in {"pause", "stop", "start"}

(* What is written to a row is a status of a row. *)
Writing ==
  \A t \in Slots : /\ task[t].pc = "placed" => task[t].status \in {"RUNNING", "FAILED"}
                   /\ task[t].pc \in {"ask", "apply"} => task[t].status # "UNKNOWN"

Points == Listening /\ Working /\ Writing
IInv == TypeOK /\ Points /\ OneFlow

-----------------------------------------------------------------------------
(* A status that the scheduler cannot name is never written (should_apply_status_update). *)
LEMMA UnknownIsNotApplied ==
  ASSUME NEW was \in RowStatuses, was # "none", NEW isActive
  PROVE  ~ShouldApply(was, "UNKNOWN", isActive)
<1>1. StatusPriority("UNKNOWN") = 0
  BY DEF StatusPriority
<1>2. StatusPriority(was) \in {1, 2, 4, 5}
  BY DEF StatusPriority, RowStatuses
<1> QED
  BY <1>1, <1>2 DEF ShouldApply, RowStatuses

(* A task asks for the guard of the application. *)
LEMMA GuardKeeps ==
  ASSUME IInv, NEW t \in Slots,
         \/ TakeGuard(t)
         \/ GuardRefused(t)
  PROVE  IInv'
<1> USE DeploymentAssumption DEF IInv, Points, Slots
<1>1. CASE TakeGuard(t)
  <2>1. TypeOK'
    BY <1>1 DEF TakeGuard, Goto, TryStartFlow, AfterGuard, store, TypeOK, TaskRecords,
       Counters, Guarded, Kinds, RowStatuses, VmStates, RareEvents, Listening, ListenerPoints,
       Working, Writing
  <2>2. Points'
    BY <1>1 DEF TakeGuard, Goto, TryStartFlow, AfterGuard, store, TypeOK, TaskRecords,
       RowStatuses, Listening, ListenerPoints, Working, Writing
  <2>3. OneFlow'
    BY <1>1 DEF TakeGuard, Goto, TryStartFlow, AfterGuard, store, TypeOK, TaskRecords,
       OneFlow, InFlow, Guarded, Listening, ListenerPoints, Working
  <2> QED
    BY <2>1, <2>2, <2>3
<1>2. CASE GuardRefused(t)
  <2>1. TypeOK'
    BY <1>2 DEF GuardRefused, End, store, Idle, TypeOK, TaskRecords, Counters, Guarded, Kinds,
       RowStatuses, VmStates, RareEvents, Listening, ListenerPoints, Working, Writing
  <2>2. Points'
    BY <1>2 DEF GuardRefused, End, store, Idle, TypeOK, TaskRecords, RowStatuses, Listening,
       ListenerPoints, Working, Writing
  <2>3. OneFlow'
    BY <1>2 DEF GuardRefused, End, store, Idle, TypeOK, TaskRecords, OneFlow, InFlow, Guarded,
       Listening, ListenerPoints, Working
  <2> QED
    BY <2>1, <2>2, <2>3
<1> QED
  BY <1>1, <1>2

(* The build of a deployment. *)
LEMMA BuildKeeps ==
  ASSUME IInv, NEW t \in Slots,
         \/ TriggerBuild(t)
         \/ BuildAccepted(t)
         \/ BuildRefused(t)
         \/ BuildSucceeded(t)
         \/ DeployBuilt(t)
         \/ BuildFailed(t)
  PROVE  IInv'
<1> USE DeploymentAssumption DEF IInv, Points, Slots
<1>1. CASE TriggerBuild(t)
  <2>1. TypeOK'
    BY <1>1 DEF TriggerBuild, Goto, SetStatus, TypeOK, TaskRecords, Counters, Guarded, Kinds,
       RowStatuses, VmStates, RareEvents, Listening, ListenerPoints, Working, Writing
  <2>2. Points'
    BY <1>1 DEF TriggerBuild, Goto, SetStatus, TypeOK, TaskRecords, RowStatuses, Listening,
       ListenerPoints, Working, Writing
  <2>3. OneFlow'
    BY <1>1 DEF TriggerBuild, Goto, SetStatus, TypeOK, TaskRecords, OneFlow, InFlow, Guarded,
       Listening, ListenerPoints, Working
  <2> QED
    BY <2>1, <2>2, <2>3
<1>2. CASE BuildAccepted(t)
  <2>1. TypeOK'
    BY <1>2 DEF BuildAccepted, Goto, SetStatus, api, TypeOK, TaskRecords, Counters, Guarded,
       Kinds, RowStatuses, VmStates, RareEvents, Listening, ListenerPoints, Working, Writing
  <2>2. Points'
    BY <1>2 DEF BuildAccepted, Goto, SetStatus, api, TypeOK, TaskRecords, RowStatuses,
       Listening, ListenerPoints, Working, Writing
  <2>3. OneFlow'
    BY <1>2 DEF BuildAccepted, Goto, SetStatus, api, TypeOK, TaskRecords, OneFlow, InFlow,
       Guarded, Listening, ListenerPoints, Working
  <2> QED
    BY <2>1, <2>2, <2>3
<1>3. CASE BuildRefused(t)
  <2>1. TypeOK'
    BY <1>3 DEF BuildRefused, End, SetStatus, Idle, TypeOK, TaskRecords, Counters, Guarded,
       Kinds, RowStatuses, VmStates, RareEvents, Listening, ListenerPoints, Working, Writing
  <2>2. Points'
    BY <1>3 DEF BuildRefused, End, SetStatus, Idle, TypeOK, TaskRecords, RowStatuses,
       Listening, ListenerPoints, Working, Writing
  <2>3. OneFlow'
    BY <1>3 DEF BuildRefused, End, SetStatus, Idle, TypeOK, TaskRecords, OneFlow, InFlow,
       Guarded, Listening, ListenerPoints, Working
  <2> QED
    BY <2>1, <2>2, <2>3
<1>4. CASE BuildSucceeded(t)
  <2>1. TypeOK'
    BY <1>4 DEF BuildSucceeded, End, store, Idle, TypeOK, TaskRecords, Counters, Guarded,
       Kinds, RowStatuses, VmStates, RareEvents, Listening, ListenerPoints, Working, Writing
  <2>2. Points'
    BY <1>4 DEF BuildSucceeded, End, store, Idle, TypeOK, TaskRecords, RowStatuses, Listening,
       ListenerPoints, Working, Writing
  <2>3. OneFlow'
    BY <1>4 DEF BuildSucceeded, End, store, Idle, TypeOK, TaskRecords, OneFlow, InFlow,
       Guarded, Listening, ListenerPoints, Working
  <2> QED
    BY <2>1, <2>2, <2>3
<1>5. CASE DeployBuilt(t)
  <2>1. TypeOK'
    BY <1>5 DEF DeployBuilt, Goto, End, TryStartFlow, store, Idle, TypeOK, TaskRecords,
       Counters, Guarded, Kinds, RowStatuses, VmStates, RareEvents, Listening, ListenerPoints,
       Working, Writing
  <2>2. Points'
    BY <1>5 DEF DeployBuilt, Goto, End, TryStartFlow, store, Idle, TypeOK, TaskRecords,
       RowStatuses, Listening, ListenerPoints, Working, Writing
  <2>3. OneFlow'
    BY <1>5 DEF DeployBuilt, Goto, End, TryStartFlow, store, Idle, TypeOK, TaskRecords,
       OneFlow, InFlow, Guarded, Listening, ListenerPoints, Working
  <2> QED
    BY <2>1, <2>2, <2>3
<1>6. CASE BuildFailed(t)
  <2>1. TypeOK'
    BY <1>6 DEF BuildFailed, End, SetStatus, Idle, TypeOK, TaskRecords, Counters, Guarded,
       Kinds, RowStatuses, VmStates, RareEvents, Listening, ListenerPoints, Working, Writing
  <2>2. Points'
    BY <1>6 DEF BuildFailed, End, SetStatus, Idle, TypeOK, TaskRecords, RowStatuses,
       Listening, ListenerPoints, Working, Writing
  <2>3. OneFlow'
    BY <1>6 DEF BuildFailed, End, SetStatus, Idle, TypeOK, TaskRecords, OneFlow, InFlow,
       Guarded, Listening, ListenerPoints, Working
  <2> QED
    BY <2>1, <2>2, <2>3
<1> QED
  BY <1>1, <1>2, <1>3, <1>4, <1>5, <1>6

(* The placement by the scheduler. *)
LEMMA PlacementKeeps ==
  ASSUME IInv, NEW t \in Slots,
         \/ Schedule(t)
         \/ Scheduled(t)
         \/ ScheduleUnanswered(t)
         \/ ResumeForFlow(t)
         \/ Recreated(t)
  PROVE  IInv'
<1> USE DeploymentAssumption DEF IInv, Points, Slots
<1>1. CASE Schedule(t)
  <2>1. TypeOK'
    BY <1>1 DEF Schedule, store, api, TypeOK, TaskRecords, Counters, Guarded, Kinds,
       RowStatuses, VmStates, RareEvents, Listening, ListenerPoints, Working, Writing
  <2>2. Points'
    BY <1>1 DEF Schedule, store, api, TypeOK, TaskRecords, RowStatuses, Listening,
       ListenerPoints, Working, Writing
  <2>3. OneFlow'
    BY <1>1 DEF Schedule, store, api, TypeOK, TaskRecords, OneFlow, InFlow, Guarded,
       Listening, ListenerPoints, Working
  <2> QED
    BY <2>1, <2>2, <2>3
<1>2. CASE Scheduled(t)
  <2>1. TypeOK'
    BY <1>2 DEF Scheduled, End, SetStatus, Idle, TypeOK, TaskRecords, Counters, Guarded,
       Kinds, RowStatuses, VmStates, RareEvents, Listening, ListenerPoints, Working, Writing
  <2>2. Points'
    BY <1>2 DEF Scheduled, End, SetStatus, Idle, TypeOK, TaskRecords, RowStatuses, Listening,
       ListenerPoints, Working, Writing
  <2>3. OneFlow'
    BY <1>2 DEF Scheduled, End, SetStatus, Idle, TypeOK, TaskRecords, OneFlow, InFlow,
       Guarded, Listening, ListenerPoints, Working
  <2> QED
    BY <2>1, <2>2, <2>3
<1>3. CASE ScheduleUnanswered(t)
  <2>1. TypeOK'
    BY <1>3 DEF ScheduleUnanswered, End, Rare, SetStatus, Idle, TypeOK, TaskRecords, Counters,
       Guarded, Kinds, RowStatuses, VmStates, RareEvents, Listening, ListenerPoints, Working,
       Writing
  <2>2. Points'
    BY <1>3 DEF ScheduleUnanswered, End, Rare, SetStatus, Idle, TypeOK, TaskRecords,
       RowStatuses, Listening, ListenerPoints, Working, Writing
  <2>3. OneFlow'
    BY <1>3 DEF ScheduleUnanswered, End, Rare, SetStatus, Idle, TypeOK, TaskRecords, OneFlow,
       InFlow, Guarded, Listening, ListenerPoints, Working
  <2> QED
    BY <2>1, <2>2, <2>3
<1>4. CASE ResumeForFlow(t)
  <2>1. TypeOK'
    BY <1>4 DEF ResumeForFlow, Goto, Resumed, api, SetStatus, TypeOK, TaskRecords, Counters,
       Guarded, Kinds, RowStatuses, VmStates, RareEvents, Listening, ListenerPoints, Working,
       Writing
  <2>2. Points'
    BY <1>4 DEF ResumeForFlow, Goto, Resumed, api, SetStatus, TypeOK, TaskRecords,
       RowStatuses, Listening, ListenerPoints, Working, Writing
  <2>3. OneFlow'
    BY <1>4 DEF ResumeForFlow, Goto, Resumed, api, SetStatus, TypeOK, TaskRecords, OneFlow,
       InFlow, Guarded, Listening, ListenerPoints, Working
  <2> QED
    BY <2>1, <2>2, <2>3
<1>5. CASE Recreated(t)
  <2>1. TypeOK'
    BY <1>5 DEF Recreated, ScaleApp, ScaleDown, ScaleUp, Template, RunningJobs, End, store,
       Idle, TypeOK, TaskRecords, Counters, Guarded, Kinds, RowStatuses, VmStates, RareEvents,
       Listening, ListenerPoints, Working, Writing
  <2>2. Points'
    BY <1>5 DEF Recreated, ScaleApp, ScaleDown, ScaleUp, Template, RunningJobs, End, store,
       Idle, TypeOK, TaskRecords, RowStatuses, Listening, ListenerPoints, Working, Writing
  <2>3. OneFlow'
    BY <1>5 DEF Recreated, ScaleApp, ScaleDown, ScaleUp, Template, RunningJobs, End, store,
       Idle, TypeOK, TaskRecords, OneFlow, InFlow, Guarded, Listening, ListenerPoints, Working
  <2> QED
    BY <2>1, <2>2, <2>3
<1> QED
  BY <1>1, <1>2, <1>3, <1>4, <1>5

(* The zero-downtime flow. *)
LEMMA FlowKeeps ==
  ASSUME IInv, NEW t \in Slots,
         \/ MarkDraining(t)
         \/ Healthy(t)
         \/ Unhealthy(t)
         \/ UndoDraining(t)
         \/ UndoVm(t)
         \/ UndoRow(t)
         \/ Promote(t)
         \/ ListTargets(t)
         \/ SendTargets(t)
         \/ SendOvertaken(t)
         \/ DrainVm(t)
         \/ DrainRow(t)
         \/ CallFails(t)
         \/ ScaleAfter(t)
  PROVE  IInv'
<1> USE DeploymentAssumption DEF IInv, Points, Slots
<1>1. CASE MarkDraining(t)
  <2>1. TypeOK'
    BY <1>1 DEF MarkDraining, Note, SetStatus, api, TypeOK, TaskRecords, Counters, Guarded,
       Kinds, RowStatuses, VmStates, RareEvents, Listening, ListenerPoints, Working, Writing
  <2>2. Points'
    BY <1>1 DEF MarkDraining, Note, SetStatus, api, TypeOK, TaskRecords, RowStatuses,
       Listening, ListenerPoints, Working, Writing
  <2>3. OneFlow'
    BY <1>1 DEF MarkDraining, Note, SetStatus, api, TypeOK, TaskRecords, OneFlow, InFlow,
       Guarded, Listening, ListenerPoints, Working
  <2> QED
    BY <2>1, <2>2, <2>3
<1>2. CASE Healthy(t)
  <2>1. TypeOK'
    BY <1>2 DEF Healthy, Goto, store, api, TypeOK, TaskRecords, Counters, Guarded, Kinds,
       RowStatuses, VmStates, RareEvents, Listening, ListenerPoints, Working, Writing
  <2>2. Points'
    BY <1>2 DEF Healthy, Goto, store, api, TypeOK, TaskRecords, RowStatuses, Listening,
       ListenerPoints, Working, Writing
  <2>3. OneFlow'
    BY <1>2 DEF Healthy, Goto, store, api, TypeOK, TaskRecords, OneFlow, InFlow, Guarded,
       Listening, ListenerPoints, Working
  <2> QED
    BY <2>1, <2>2, <2>3
<1>3. CASE Unhealthy(t)
  <2>1. TypeOK'
    BY <1>3 DEF Unhealthy, Goto, store, api, TypeOK, TaskRecords, Counters, Guarded, Kinds,
       RowStatuses, VmStates, RareEvents, Listening, ListenerPoints, Working, Writing
  <2>2. Points'
    BY <1>3 DEF Unhealthy, Goto, store, api, TypeOK, TaskRecords, RowStatuses, Listening,
       ListenerPoints, Working, Writing
  <2>3. OneFlow'
    BY <1>3 DEF Unhealthy, Goto, store, api, TypeOK, TaskRecords, OneFlow, InFlow, Guarded,
       Listening, ListenerPoints, Working
  <2> QED
    BY <2>1, <2>2, <2>3
<1>4. CASE UndoDraining(t)
  <2>1. TypeOK'
    BY <1>4 DEF UndoDraining, Goto, SetStatus, api, TypeOK, TaskRecords, Counters, Guarded,
       Kinds, RowStatuses, VmStates, RareEvents, Listening, ListenerPoints, Working, Writing
  <2>2. Points'
    BY <1>4 DEF UndoDraining, Goto, SetStatus, api, TypeOK, TaskRecords, RowStatuses,
       Listening, ListenerPoints, Working, Writing
  <2>3. OneFlow'
    BY <1>4 DEF UndoDraining, Goto, SetStatus, api, TypeOK, TaskRecords, OneFlow, InFlow,
       Guarded, Listening, ListenerPoints, Working
  <2> QED
    BY <2>1, <2>2, <2>3
<1>5. CASE UndoVm(t)
  <2>1. TypeOK'
    BY <1>5 DEF UndoVm, PauseJob, Goto, store, api, Rare, TypeOK, TaskRecords, Counters,
       Guarded, Kinds, RowStatuses, VmStates, RareEvents, Listening, ListenerPoints, Working,
       Writing
  <2>2. Points'
    BY <1>5 DEF UndoVm, PauseJob, Goto, store, api, Rare, TypeOK, TaskRecords, RowStatuses,
       Listening, ListenerPoints, Working, Writing
  <2>3. OneFlow'
    BY <1>5 DEF UndoVm, PauseJob, Goto, store, api, Rare, TypeOK, TaskRecords, OneFlow,
       InFlow, Guarded, Listening, ListenerPoints, Working
  <2> QED
    BY <2>1, <2>2, <2>3
<1>6. CASE UndoRow(t)
  <2>1. TypeOK'
    BY <1>6 DEF UndoRow, End, SetStatus, Idle, TypeOK, TaskRecords, Counters, Guarded, Kinds,
       RowStatuses, VmStates, RareEvents, Listening, ListenerPoints, Working, Writing
  <2>2. Points'
    BY <1>6 DEF UndoRow, End, SetStatus, Idle, TypeOK, TaskRecords, RowStatuses, Listening,
       ListenerPoints, Working, Writing
  <2>3. OneFlow'
    BY <1>6 DEF UndoRow, End, SetStatus, Idle, TypeOK, TaskRecords, OneFlow, InFlow, Guarded,
       Listening, ListenerPoints, Working
  <2> QED
    BY <2>1, <2>2, <2>3
<1>7. CASE Promote(t)
  <2>1. TypeOK'
    BY <1>7 DEF Promote, Goto, End, Idle, TypeOK, TaskRecords, Counters, Guarded, Kinds,
       RowStatuses, VmStates, RareEvents, Listening, ListenerPoints, Working, Writing
  <2>2. Points'
    BY <1>7 DEF Promote, Goto, End, Idle, TypeOK, TaskRecords, RowStatuses, Listening,
       ListenerPoints, Working, Writing
  <2>3. OneFlow'
    BY <1>7 DEF Promote, Goto, End, Idle, TypeOK, TaskRecords, OneFlow, InFlow, Guarded,
       Listening, ListenerPoints, Working
  <2> QED
    BY <2>1, <2>2, <2>3
<1>8. CASE ListTargets(t)
  <2>1. TypeOK'
    BY <1>8 DEF ListTargets, store, api, RunningJobs, TypeOK, TaskRecords, Counters, Guarded,
       Kinds, RowStatuses, VmStates, RareEvents, Listening, ListenerPoints, Working, Writing
  <2>2. Points'
    BY <1>8 DEF ListTargets, store, api, RunningJobs, TypeOK, TaskRecords, RowStatuses,
       Listening, ListenerPoints, Working, Writing
  <2>3. OneFlow'
    BY <1>8 DEF ListTargets, store, api, RunningJobs, TypeOK, TaskRecords, OneFlow, InFlow,
       Guarded, Listening, ListenerPoints, Working
  <2> QED
    BY <2>1, <2>2, <2>3
<1>9. CASE SendTargets(t)
  <2>1. TypeOK'
    BY <1>9 DEF SendTargets, Note, AfterSend, store, End, Idle, Previous, RunningJobs, TypeOK,
       TaskRecords, Counters, Guarded, Kinds, RowStatuses, VmStates, RareEvents, Listening,
       ListenerPoints, Working, Writing
  <2>2. Points'
    <3>1. CASE Drains(t) \/ Scales(t)
      <4>1. t \in Tasks
        BY <3>1 DEF Drains, Scales, Listening
      <4> QED
        BY <1>9, <3>1, <4>1 DEF SendTargets, AfterSend, TypeOK, TaskRecords, Listening,
           ListenerPoints, Working, Writing
    <3>2. CASE ~(Drains(t) \/ Scales(t))
      BY <1>9, <3>2 DEF SendTargets, AfterSend, End, Idle, TypeOK, TaskRecords, Listening,
         ListenerPoints, Working, Writing
    <3> QED
      BY <3>1, <3>2
  <2>3. OneFlow'
    BY <1>9 DEF SendTargets, Note, AfterSend, store, End, Idle, Previous, RunningJobs, TypeOK,
       TaskRecords, OneFlow, InFlow, Guarded, Listening, ListenerPoints, Working
  <2> QED
    BY <2>1, <2>2, <2>3
<1>10. CASE SendOvertaken(t)
  <2>1. TypeOK'
    BY <1>10 DEF SendOvertaken, Note, AfterSend, store, End, Idle, Previous, RunningJobs, TypeOK,
       TaskRecords, Counters, Guarded, Kinds, RowStatuses, VmStates, RareEvents, Listening,
       ListenerPoints, Working, Writing
  <2>2. Points'
    <3>1. CASE Drains(t) \/ Scales(t)
      <4>1. t \in Tasks
        BY <3>1 DEF Drains, Scales, Listening
      <4> QED
        BY <1>10, <3>1, <4>1 DEF SendOvertaken, AfterSend, TypeOK, TaskRecords, Listening,
           ListenerPoints, Working, Writing
    <3>2. CASE ~(Drains(t) \/ Scales(t))
      BY <1>10, <3>2 DEF SendOvertaken, AfterSend, End, Idle, TypeOK, TaskRecords,
         Listening, ListenerPoints, Working, Writing
    <3> QED
      BY <3>1, <3>2
  <2>3. OneFlow'
    BY <1>10 DEF SendOvertaken, Note, AfterSend, store, End, Idle, Previous, TypeOK,
       TaskRecords, OneFlow, InFlow, Guarded, Listening, ListenerPoints, Working
  <2> QED
    BY <2>1, <2>2, <2>3
<1>11. CASE DrainVm(t)
  <2>1. TypeOK'
    BY <1>11 DEF DrainVm, PauseJob, Goto, Previous, store, api, Rare, TypeOK, TaskRecords,
       Counters, Guarded, Kinds, RowStatuses, VmStates, RareEvents, Listening, ListenerPoints,
       Working, Writing
  <2>2. Points'
    BY <1>11 DEF DrainVm, PauseJob, Goto, Previous, store, api, Rare, TypeOK, TaskRecords,
       RowStatuses, Listening, ListenerPoints, Working, Writing
  <2>3. OneFlow'
    BY <1>11 DEF DrainVm, PauseJob, Goto, Previous, store, api, Rare, TypeOK, TaskRecords,
       OneFlow, InFlow, Guarded, Listening, ListenerPoints, Working
  <2> QED
    BY <2>1, <2>2, <2>3
<1>12. CASE DrainRow(t)
  <2>1. TypeOK'
    <3>1. row' \in [Deps -> RowStatuses] /\ (active = None \/ row'[active] # "none")
      BY <1>12 DEF DrainRow, SetStatus, TypeOK, RowStatuses
    <3>2. task' \in [Slots -> TaskRecords] /\ holder' \in Tasks \cup {None}
      <4>1. CASE Scales(t)
        BY <1>12, <4>1 DEF DrainRow, Goto, TypeOK, TaskRecords, Counters, Guarded
      <4>2. CASE ~Scales(t)
        BY <1>12, <4>2 DEF DrainRow, End, Idle, TypeOK, TaskRecords, Counters, Guarded, Kinds,
           RowStatuses
      <4> QED
        BY <4>1, <4>2
    <3> QED
      BY <1>12, <3>1, <3>2 DEF DrainRow, TypeOK
  <2>2. Points'
    BY <1>12 DEF DrainRow, Scales, Goto, End, SetStatus, Previous, Idle, TypeOK, TaskRecords,
       RowStatuses, Listening, ListenerPoints, Working, Writing
  <2>3. OneFlow'
    BY <1>12 DEF DrainRow, Scales, Goto, End, SetStatus, Previous, Idle, TypeOK, TaskRecords,
       OneFlow, InFlow, Guarded, Listening, ListenerPoints, Working
  <2> QED
    BY <2>1, <2>2, <2>3
<1>13. CASE CallFails(t)
  <2>1. TypeOK'
    BY <1>13 DEF CallFails, Abort, End, Rare, store, Idle, TypeOK, TaskRecords, Counters,
       Guarded, Kinds, RowStatuses, VmStates, RareEvents, Listening, ListenerPoints, Working,
       Writing
  <2>2. Points'
    BY <1>13 DEF CallFails, Abort, End, Rare, store, Idle, TypeOK, TaskRecords, RowStatuses,
       Listening, ListenerPoints, Working, Writing
  <2>3. OneFlow'
    BY <1>13 DEF CallFails, Abort, End, Rare, store, Idle, TypeOK, TaskRecords, OneFlow,
       InFlow, Guarded, Listening, ListenerPoints, Working
  <2> QED
    BY <2>1, <2>2, <2>3
<1>14. CASE ScaleAfter(t)
  <2>1. TypeOK'
    BY <1>14 DEF ScaleAfter, ScaleApp, ScaleDown, ScaleUp, Template, RunningJobs, End, Idle,
       store, TypeOK, TaskRecords, Counters, Guarded, Kinds, RowStatuses, VmStates,
       RareEvents, Listening, ListenerPoints, Working, Writing
  <2>2. Points'
    BY <1>14 DEF ScaleAfter, ScaleApp, ScaleDown, ScaleUp, Template, RunningJobs, End, Idle,
       store, TypeOK, TaskRecords, RowStatuses, Listening, ListenerPoints, Working, Writing
  <2>3. OneFlow'
    BY <1>14 DEF ScaleAfter, ScaleApp, ScaleDown, ScaleUp, Template, RunningJobs, End, Idle,
       store, TypeOK, TaskRecords, OneFlow, InFlow, Guarded, Listening, ListenerPoints,
       Working
  <2> QED
    BY <2>1, <2>2, <2>3
<1> QED
  BY <1>1, <1>2, <1>3, <1>4, <1>5, <1>6, <1>7, <1>8, <1>9, <1>10, <1>11, <1>12, <1>13, <1>14

(* What a user asks for beside deployments. *)
LEMMA ManualKeeps ==
  ASSUME IInv, NEW t \in Slots,
         \/ ManualVm(t)
         \/ ManualRefused(t)
         \/ ManualRow(t)
  PROVE  IInv'
<1> USE DeploymentAssumption DEF IInv, Points, Slots
<1>1. CASE ManualVm(t)
  <2>1. TypeOK'
    BY <1>1 DEF ManualVm, Goto, store, api, TypeOK, TaskRecords, Counters, Guarded, Kinds,
       RowStatuses, VmStates, RareEvents, Listening, ListenerPoints, Working, Writing
  <2>2. Points'
    BY <1>1 DEF ManualVm, Goto, store, api, TypeOK, TaskRecords, RowStatuses, Listening,
       ListenerPoints, Working, Writing
  <2>3. OneFlow'
    BY <1>1 DEF ManualVm, Goto, store, api, TypeOK, TaskRecords, OneFlow, InFlow, Guarded,
       Listening, ListenerPoints, Working
  <2> QED
    BY <2>1, <2>2, <2>3
<1>2. CASE ManualRefused(t)
  <2>1. TypeOK'
    BY <1>2 DEF ManualRefused, End, store, Idle, TypeOK, TaskRecords, Counters, Guarded,
       Kinds, RowStatuses, VmStates, RareEvents, Listening, ListenerPoints, Working, Writing
  <2>2. Points'
    BY <1>2 DEF ManualRefused, End, store, Idle, TypeOK, TaskRecords, RowStatuses, Listening,
       ListenerPoints, Working, Writing
  <2>3. OneFlow'
    BY <1>2 DEF ManualRefused, End, store, Idle, TypeOK, TaskRecords, OneFlow, InFlow,
       Guarded, Listening, ListenerPoints, Working
  <2> QED
    BY <2>1, <2>2, <2>3
<1>3. CASE ManualRow(t)
  <2>1. TypeOK'
    BY <1>3 DEF ManualRow, End, SetStatus, Idle, TypeOK, TaskRecords, Counters, Guarded,
       Kinds, RowStatuses, VmStates, RareEvents, Listening, ListenerPoints, Working, Writing
  <2>2. Points'
    BY <1>3 DEF ManualRow, End, SetStatus, Idle, TypeOK, TaskRecords, RowStatuses, Listening,
       ListenerPoints, Working, Writing
  <2>3. OneFlow'
    BY <1>3 DEF ManualRow, End, SetStatus, Idle, TypeOK, TaskRecords, OneFlow, InFlow,
       Guarded, Listening, ListenerPoints, Working
  <2> QED
    BY <2>1, <2>2, <2>3
<1> QED
  BY <1>1, <1>2, <1>3

(* The decisions of the listeners. *)
LEMMA ListenerKeeps ==
  ASSUME IInv, NEW t \in Slots,
         \/ ReadRow(t)
         \/ ReadJob(t)
         \/ ApplyUpdate(t)
  PROVE  IInv'
<1> USE DeploymentAssumption DEF IInv, Points, Slots
<1>1. CASE ReadRow(t)
  <2>1. TypeOK'
    BY <1>1 DEF ReadRow, Decide, store, ShouldApply, Idle, StatusPriority, TypeOK,
       TaskRecords, Counters, Guarded, Kinds, RowStatuses, VmStates, RareEvents, Listening,
       ListenerPoints, Working, Writing
  <2>2. Points'
    BY <1>1 DEF ReadRow, Decide, store, ShouldApply, Idle, StatusPriority, TypeOK,
       TaskRecords, RowStatuses, Listening, ListenerPoints, Working, Writing
  <2>3. OneFlow'
    BY <1>1 DEF ReadRow, Decide, store, ShouldApply, Idle, StatusPriority, TypeOK,
       TaskRecords, OneFlow, InFlow, Guarded, Listening, ListenerPoints, Working
  <2> QED
    BY <2>1, <2>2, <2>3
<1>2. CASE ReadJob(t)
  <2>1. TypeOK'
    BY <1>2 DEF ReadJob, Decide, StatusName, store, ShouldApply, Idle, StatusPriority, TypeOK,
       TaskRecords, Counters, Guarded, Kinds, RowStatuses, VmStates, RareEvents, Listening,
       ListenerPoints, Working, Writing
  <2>2. Points'
    <3> DEFINE was == task[t].status
               now == StatusName(task[t].dep)
               applies == was # "none" /\ ShouldApply(was, now, active = task[t].dep)
    <3>1. t \in Listeners /\ task[t].pc = "ask" /\ was \in RowStatuses
      BY <1>2 DEF ReadJob, TypeOK, TaskRecords, Working, Writing
    <3>2. CASE applies
      <4>1. now # "UNKNOWN"
        BY <3>1, <3>2, UnknownIsNotApplied
      <4>2. task' = [task EXCEPT ![t].pc = "apply", ![t].status = now]
        BY <1>2, <3>2 DEF ReadJob, Decide
      <4> HIDE DEF now, was, applies
      <4> QED
        BY <3>1, <4>1, <4>2 DEF TypeOK, TaskRecords, Listening, ListenerPoints, Working,
           Writing
    <3>3. CASE ~applies
      <4>1. \/ task' = [task EXCEPT ![t] = Idle]
            \/ task' = [task EXCEPT ![t].pc = "apply", ![t].status = "none"]
        BY <1>2, <3>3 DEF ReadJob, Decide
      <4> HIDE DEF now, was, applies
      <4> QED
        BY <3>1, <4>1 DEF Idle, TypeOK, TaskRecords, Listening, ListenerPoints, Working,
           Writing
    <3> QED
      BY <3>2, <3>3
  <2>3. OneFlow'
    BY <1>2 DEF ReadJob, Decide, StatusName, store, ShouldApply, Idle, StatusPriority, TypeOK,
       TaskRecords, OneFlow, InFlow, Guarded, Listening, ListenerPoints, Working
  <2> QED
    BY <2>1, <2>2, <2>3
<1>3. CASE ApplyUpdate(t)
  <2>1. TypeOK'
    BY <1>3 DEF ApplyUpdate, Goto, SetStatus, api, TypeOK, TaskRecords, Counters, Guarded,
       Kinds, RowStatuses, VmStates, RareEvents, Listening, ListenerPoints, Working, Writing
  <2>2. Points'
    BY <1>3 DEF ApplyUpdate, Goto, SetStatus, api, TypeOK, TaskRecords, RowStatuses,
       Listening, ListenerPoints, Working, Writing
  <2>3. OneFlow'
    BY <1>3 DEF ApplyUpdate, Goto, SetStatus, api, TypeOK, TaskRecords, OneFlow, InFlow,
       Guarded, Listening, ListenerPoints, Working
  <2> QED
    BY <2>1, <2>2, <2>3
<1> QED
  BY <1>1, <1>2, <1>3

(* Requests begin, and a restarted API takes a build up again. *)
LEMMA RequestKeeps ==
  ASSUME IInv, NEW t \in Tasks, NEW d \in Deps,
         \/ \E kind \in {"image", "build"} : Ask(t, d, kind)
         \/ Activate(t, d)
         \/ \E kind \in {"pause", "stop", "start"} : Manual(t, d, kind)
         \/ ResumeBuild(t, d)
  PROVE  IInv'
<1> USE DeploymentAssumption DEF IInv, Points, Slots
<1>1. CASE \E kind \in {"image", "build"} : Ask(t, d, kind)
  <2>1. TypeOK'
    <3>1. task' \in [Slots -> TaskRecords]
      <4> PICK kind \in {"image", "build"} : Ask(t, d, kind)
        BY <1>1
      <4> DEFINE new == [Idle EXCEPT !.pc = "guard", !.kind = kind, !.dep = d, !.seen = active]
      <4>1. new \in TaskRecords
        BY DEF Idle, TypeOK, TaskRecords, Counters, Kinds, RowStatuses
      <4>2. task' = [task EXCEPT ![t] = new]
        BY DEF Ask
      <4> HIDE DEF new
      <4> QED
        BY <4>1, <4>2 DEF TypeOK
    <3> QED
      BY <1>1, <3>1 DEF Ask, api, TypeOK, RowStatuses
  <2>2. Points'
    BY <1>1 DEF Ask, Idle, api, TypeOK, TaskRecords, RowStatuses, Listening, ListenerPoints,
       Working, Writing
  <2>3. OneFlow'
    BY <1>1 DEF Ask, Idle, api, TypeOK, TaskRecords, OneFlow, InFlow, Guarded, Listening,
       ListenerPoints, Working
  <2> QED
    BY <2>1, <2>2, <2>3
<1>2. CASE Activate(t, d)
  <2>1. TypeOK'
    <3>1. task' \in [Slots -> TaskRecords]
      <4> PICK kind \in {"record", "now", "resume"} :
            task' = [task EXCEPT ![t] = [Idle EXCEPT !.dep = d, !.kind = kind, !.seen = active,
                                            !.pc = IF kind = "record" THEN "promote" ELSE "guard"]]
        BY <1>2 DEF Activate
      <4> DEFINE new == [Idle EXCEPT !.dep = d, !.kind = kind, !.seen = active,
                                     !.pc = IF kind = "record" THEN "promote" ELSE "guard"]
      <4>1. new \in TaskRecords
        BY DEF Idle, TypeOK, TaskRecords, Counters, Guarded, Kinds, RowStatuses
      <4>2. task' = [task EXCEPT ![t] = new]
        OBVIOUS
      <4> HIDE DEF new
      <4> QED
        BY <4>1, <4>2 DEF TypeOK
    <3> QED
      BY <1>2, <3>1 DEF Activate, Rare, store, api, TypeOK, RareEvents
  <2>2. Points'
    BY <1>2 DEF Activate, Rare, StatusName, Idle, store, api, TypeOK, TaskRecords,
       RowStatuses, Listening, ListenerPoints, Working, Writing
  <2>3. OneFlow'
    BY <1>2 DEF Activate, Rare, StatusName, Idle, store, api, TypeOK, TaskRecords, OneFlow,
       InFlow, Guarded, Listening, ListenerPoints, Working
  <2> QED
    BY <2>1, <2>2, <2>3
<1>3. CASE \E kind \in {"pause", "stop", "start"} : Manual(t, d, kind)
  <2>1. TypeOK'
    <3>1. task' \in [Slots -> TaskRecords]
      <4> PICK kind \in {"pause", "stop", "start"} : Manual(t, d, kind)
        BY <1>3
      <4> DEFINE new == [Idle EXCEPT !.pc = "vm", !.kind = kind, !.dep = d]
      <4>1. new \in TaskRecords
        BY DEF Idle, TaskRecords, Counters, Kinds, RowStatuses
      <4>2. task' = [task EXCEPT ![t] = new]
        BY DEF Manual
      <4> HIDE DEF new
      <4> QED
        BY <4>1, <4>2 DEF TypeOK
    <3> QED
      BY <1>3, <3>1 DEF Manual, Rare, store, api, TypeOK, RareEvents
  <2>2. Points'
    BY <1>3 DEF Manual, Rare, Idle, store, api, TypeOK, TaskRecords, RowStatuses, Listening,
       ListenerPoints, Working, Writing
  <2>3. OneFlow'
    BY <1>3 DEF Manual, Rare, Idle, store, api, TypeOK, TaskRecords, OneFlow, InFlow, Guarded,
       Listening, ListenerPoints, Working
  <2> QED
    BY <2>1, <2>2, <2>3
<1>4. CASE ResumeBuild(t, d)
  <2>1. TypeOK'
    BY <1>4 DEF ResumeBuild, Idle, store, TypeOK, TaskRecords, Counters, Guarded, Kinds,
       RowStatuses, VmStates, RareEvents, Listening, ListenerPoints, Working, Writing
  <2>2. Points'
    BY <1>4 DEF ResumeBuild, Idle, store, TypeOK, TaskRecords, RowStatuses, Listening,
       ListenerPoints, Working, Writing
  <2>3. OneFlow'
    BY <1>4 DEF ResumeBuild, Idle, store, TypeOK, TaskRecords, OneFlow, InFlow, Guarded,
       Listening, ListenerPoints, Working
  <2> QED
    BY <2>1, <2>2, <2>3
<1> QED
  BY <1>1, <1>2, <1>3, <1>4

(* Updates reach the listeners. *)
LEMMA HearKeeps ==
  ASSUME IInv, NEW l \in Listeners, NEW d \in Deps,
         \/ Hear(l, d)
         \/ HearPending(l, d)
         \/ Poll(l, d)
  PROVE  IInv'
<1> USE DeploymentAssumption DEF IInv, Points, Slots
<1>1. CASE Hear(l, d)
  <2>1. TypeOK'
    BY <1>1 DEF Hear, StatusName, Idle, store, api, TypeOK, TaskRecords, Counters, Guarded,
       Kinds, RowStatuses, VmStates, RareEvents, Listening, ListenerPoints, Working, Writing
  <2>2. Points'
    BY <1>1 DEF Hear, StatusName, Idle, store, api, TypeOK, TaskRecords, RowStatuses,
       Listening, ListenerPoints, Working, Writing
  <2>3. OneFlow'
    BY <1>1 DEF Hear, StatusName, Idle, store, api, TypeOK, TaskRecords, OneFlow, InFlow,
       Guarded, Listening, ListenerPoints, Working
  <2> QED
    BY <2>1, <2>2, <2>3
<1>2. CASE HearPending(l, d)
  <2>1. TypeOK'
    BY <1>2 DEF HearPending, Idle, store, TypeOK, TaskRecords, Counters, Guarded, Kinds,
       RowStatuses, VmStates, RareEvents, Listening, ListenerPoints, Working, Writing
  <2>2. Points'
    BY <1>2 DEF HearPending, Idle, store, TypeOK, TaskRecords, RowStatuses, Listening,
       ListenerPoints, Working, Writing
  <2>3. OneFlow'
    BY <1>2 DEF HearPending, Idle, store, TypeOK, TaskRecords, OneFlow, InFlow, Guarded,
       Listening, ListenerPoints, Working
  <2> QED
    BY <2>1, <2>2, <2>3
<1>3. CASE Poll(l, d)
  <2>1. TypeOK'
    BY <1>3 DEF Poll, Idle, store, api, TypeOK, TaskRecords, Counters, Guarded, Kinds,
       RowStatuses, VmStates, RareEvents, Listening, ListenerPoints, Working, Writing
  <2>2. Points'
    BY <1>3 DEF Poll, Idle, store, api, TypeOK, TaskRecords, RowStatuses, Listening,
       ListenerPoints, Working, Writing
  <2>3. OneFlow'
    BY <1>3 DEF Poll, Idle, store, api, TypeOK, TaskRecords, OneFlow, InFlow, Guarded,
       Listening, ListenerPoints, Working
  <2> QED
    BY <2>1, <2>2, <2>3
<1> QED
  BY <1>1, <1>2, <1>3

(* Virtual machines fail, records and jobs in excess are deleted, the API restarts. *)
LEMMA OutsideKeeps ==
  ASSUME IInv, NEW d \in Deps,
         \/ VmFails(d)
         \/ DeleteRecord(d)
         \/ Restart
         \/ DeleteSurplus(d)
         \/ Reconcile
  PROVE  IInv'
<1> USE DeploymentAssumption DEF IInv, Points, Slots
<1>1. CASE VmFails(d)
  <2>1. TypeOK'
    BY <1>1 DEF VmFails, Rare, store, api, TypeOK, TaskRecords, Counters, Guarded, Kinds,
       RowStatuses, VmStates, RareEvents, Listening, ListenerPoints, Working, Writing
  <2>2. Points'
    BY <1>1 DEF VmFails, Rare, store, api, TypeOK, TaskRecords, RowStatuses, Listening,
       ListenerPoints, Working, Writing
  <2>3. OneFlow'
    BY <1>1 DEF VmFails, Rare, store, api, TypeOK, TaskRecords, OneFlow, InFlow, Guarded,
       Listening, ListenerPoints, Working
  <2> QED
    BY <2>1, <2>2, <2>3
<1>2. CASE DeleteRecord(d)
  <2>1. TypeOK'
    BY <1>2 DEF DeleteRecord, Rare, api, TypeOK, TaskRecords, Counters, Guarded, Kinds,
       RowStatuses, VmStates, RareEvents, Listening, ListenerPoints, Working, Writing
  <2>2. Points'
    BY <1>2 DEF DeleteRecord, Rare, api, TypeOK, TaskRecords, RowStatuses, Listening,
       ListenerPoints, Working, Writing
  <2>3. OneFlow'
    BY <1>2 DEF DeleteRecord, Rare, api, TypeOK, TaskRecords, OneFlow, InFlow, Guarded,
       Listening, ListenerPoints, Working
  <2> QED
    BY <2>1, <2>2, <2>3
<1>3. CASE Restart
  <2>1. TypeOK'
    BY <1>3 DEF Restart, Rare, Idle, store, TypeOK, TaskRecords, Counters, Guarded, Kinds,
       RowStatuses, VmStates, RareEvents, Listening, ListenerPoints, Working, Writing
  <2>2. Points'
    BY <1>3 DEF Restart, Rare, Idle, store, TypeOK, TaskRecords, RowStatuses, Listening,
       ListenerPoints, Working, Writing
  <2>3. OneFlow'
    BY <1>3 DEF Restart, Rare, Idle, store, TypeOK, TaskRecords, OneFlow, InFlow, Guarded,
       Listening, ListenerPoints, Working
  <2> QED
    BY <2>1, <2>2, <2>3
<1>4. CASE DeleteSurplus(d)
  <2>1. TypeOK'
    <3>1. vm' \in [Deps -> VmStates] /\ surplus' \in SUBSET {e \in Deps : vm'[e] # "none"}
      BY <1>4 DEF DeleteSurplus, TypeOK, VmStates
    <3>2. rare' \in SUBSET RareEvents
      BY <1>4 DEF DeleteSurplus, Rare, TypeOK, RareEvents
    <3> QED
      BY <1>4, <3>1, <3>2 DEF DeleteSurplus, store, TypeOK
  <2>2. Points'
    BY <1>4 DEF DeleteSurplus, Rare, store, TypeOK, TaskRecords, RowStatuses, Listening,
       ListenerPoints, Working, Writing
  <2>3. OneFlow'
    BY <1>4 DEF DeleteSurplus, Rare, store, TypeOK, TaskRecords, OneFlow, InFlow, Guarded,
       Listening, ListenerPoints, Working
  <2> QED
    BY <2>1, <2>2, <2>3
<1>5. CASE Reconcile
  <2>1. TypeOK'
    BY <1>5 DEF Reconcile, ScaleApp, ScaleDown, ScaleUp, Template, RunningJobs, store, TypeOK,
       TaskRecords, Counters, Guarded, Kinds, RowStatuses, VmStates, RareEvents, Listening,
       ListenerPoints, Working, Writing
  <2>2. Points'
    BY <1>5 DEF Reconcile, ScaleApp, ScaleDown, ScaleUp, Template, RunningJobs, store, TypeOK,
       TaskRecords, RowStatuses, Listening, ListenerPoints, Working, Writing
  <2>3. OneFlow'
    BY <1>5 DEF Reconcile, ScaleApp, ScaleDown, ScaleUp, Template, RunningJobs, store, TypeOK,
       TaskRecords, OneFlow, InFlow, Guarded, Listening, ListenerPoints, Working
  <2> QED
    BY <2>1, <2>2, <2>3
<1> QED
  BY <1>1, <1>2, <1>3, <1>4, <1>5

(* Every reachable state satisfies the first invariant. *)
LEMMA Inductive == Init /\ [][Next]_vars => []IInv
<1>1. Init => IInv
  BY DeploymentAssumption DEF Init, IInv, Points, Listening, ListenerPoints, Working, Writing,
     OneFlow, InFlow, Guarded, TypeOK, TaskRecords, Counters, Kinds, RowStatuses, VmStates,
     RareEvents, Slots, Idle
<1>2. IInv /\ [Next]_vars => IInv'
  <2> SUFFICES ASSUME IInv, [Next]_vars PROVE IInv'
    OBVIOUS
  <2>1. CASE \E t \in Slots : Step(t)
    BY <2>1, GuardKeeps, BuildKeeps, PlacementKeeps, FlowKeeps, ManualKeeps, ListenerKeeps DEF
       Step, BuildStep, FlowStep, ManualStep, ListenerStep
  <2>2. CASE \E t \in Tasks, d \in Deps :
               \/ \E kind \in {"image", "build"} : Ask(t, d, kind)
               \/ Activate(t, d)
               \/ \E kind \in {"pause", "stop", "start"} : Manual(t, d, kind)
               \/ ResumeBuild(t, d)
    BY <2>2, RequestKeeps
  <2>3. CASE \E l \in Listeners, d \in Deps : Hear(l, d) \/ HearPending(l, d) \/ Poll(l, d)
    BY <2>3, HearKeeps
  <2>4. CASE (\E d \in Deps : VmFails(d) \/ DeleteRecord(d) \/ DeleteSurplus(d)) \/ Reconcile \/ Restart
    BY <2>4, DeploymentAssumption, OutsideKeeps
  <2>5. CASE UNCHANGED vars
    BY <2>5 DEF vars, IInv, Points, Listening, ListenerPoints, Working, Writing, OneFlow,
       InFlow, TypeOK, TaskRecords
  <2> QED
    BY <2>1, <2>2, <2>3, <2>4, <2>5 DEF Next
<1> QED
  BY <1>1, <1>2, PTL

(* Tables, tasks and routes keep their types, and only a deployment with a row is active,     *)
(* whatever is asked for, deleted, restarted or lost.                                          *)
THEOREM TypeCorrect == Spec => []TypeOK
  BY Inductive, PTL DEF Spec, IInv

(* One application, one flow, for any number of requests, listeners and restarts              *)
(* (DeploymentFlowGuard, try_start_flow).                                                      *)
THEOREM FlowIsExclusive == Spec => []OneFlow
  BY Inductive, PTL DEF Spec, IInv
-----------------------------------------------------------------------------
(***************************************************************************)
(* OneVersionRuns and ServedByDeployments: where the running VMs, the      *)
(* draining rows and the targets of the router are at each point of the    *)
(* flow, as long as no rare event has happened.                            *)
(***************************************************************************)
Calm == rare \subseteq {"overtaken"}

(* The points of a flow, in their order: until the VM is placed, until it is promoted, when *)
(* it is given up, and after it was promoted.                                                *)
Placing == {"build", "request", "poll", "built", "schedule"}
Trying == {"placed", "mark", "health", "promote", "undo", "undopause"}
Promoted == {"list", "send", "drain", "drained", "scale"}
FlowPoints == Placing \cup Trying \cup {"undofail"} \cup Promoted

Runs(d) == vm[d] = "running"
Drained(d) == row[d] # "DRAINING"

(* Only deployments of S run; only those of S are DRAINING. *)
RunAmong(S) == \A d \in Deps : Runs(d) => d \in S
DrainAmong(S) == \A d \in Deps : ~Drained(d) => d \in S

(* What is known at the point of task t. *)
Flow(t) ==
  LET d == task[t].dep
      pc == task[t].pc
  IN
  /\ pc \in Placing \cup {"guard"} => d # active /\ vm[d] = "none"
  /\ pc \in Placing \cup {"undofail"} => RunAmong({active}) /\ DrainAmong({})
  /\ pc \in Trying => d # active /\ RunAmong({active, d})
  /\ pc \in {"placed", "mark", "undopause"} => DrainAmong({})
  /\ pc = "placed" => (Runs(d) => task[t].status # "FAILED")
  /\ pc \in {"health", "promote", "undo"} => task[t].seen = active /\ DrainAmong({active})
  /\ pc \in {"health", "undo"} => task[t].old = active
  /\ pc = "promote" => Runs(d)
  /\ pc \in Promoted => /\ active = d /\ task[t].seen \in job \ {d}
                        /\ DrainAmong({task[t].seen})
  /\ pc \in {"list", "send", "drain"} => RunAmong({d, task[t].seen})
  /\ pc \in {"list", "send"} /\ rare = {} => Runs(task[t].seen)
  /\ pc \in {"drained", "scale"} => RunAmong({d})
  /\ pc = "scale" => DrainAmong({})
  /\ pc \in (Trying \ {"placed"}) \cup {"undofail"} \cup Promoted => d \in job

(* The guard is held at a point of a flow and nowhere else; other tasks wait for it, with a *)
(* deployment of their own.                                                                   *)
Waiting ==
  /\ holder # None => task[holder].pc \in FlowPoints
  /\ \A t \in Tasks : task[t].pc # "idle" =>
       /\ task[t].kind \in {"image", "build"}
       /\ task[t].pc = "guard" \/ (holder = t /\ task[t].pc \in FlowPoints)
       /\ row[task[t].dep] # "none"
  /\ \A t, u \in Tasks :
       task[t].pc # "idle" /\ task[u].pc # "idle" /\ task[t].dep = task[u].dep => t = u

(* The listeners never write DRAINING. *)
NeverDraining ==
  \A l \in Listeners : task[l].pc \in {"look", "apply"} => task[l].status # "DRAINING"

Steady ==
  /\ resumed = {} /\ active \in job /\ Runs(active)
  /\ holder = None => RunAmong({active}) /\ DrainAmong({})
  /\ \A t \in Tasks : Flow(t)

FlowInv == NeverDraining /\ (Calm => Waiting /\ Steady)

(* Until the new targets are sent the router has the previous version, then the active one. *)
Sending(t) == task[t].pc \in {"list", "send"}
RouteInv ==
  rare = {} => /\ \A t \in Tasks : Sending(t) => task[t].seen \in routed
               /\ (\A t \in Tasks : ~Sending(t)) => active \in routed


-----------------------------------------------------------------------------
(* The initial state. *)
LEMMA InitFlow == Init => FlowInv /\ RouteInv
BY DeploymentAssumption DEF Init, FlowInv, RouteInv, NeverDraining, Waiting, Steady, Flow,
   RunAmong, DrainAmong, Runs, Drained, Idle, Placing, Trying, Promoted, FlowPoints, Slots,
   Sending

(* A step that is none of a flow: updates are heard and applied. *)
LEMMA Aside ==
  ASSUME FlowInv, NeverDraining', Calm' => Calm, rare' = {} => rare = {},
         UNCHANGED <<active, vm, holder, resumed>>, job' = job,
         \A t \in Tasks : task'[t] = task[t],
         \A d \in Deps : (row[d] # "none" => row'[d] # "none") /\ (Drained(d) => Drained(d)'),
         IInv
  PROVE  FlowInv'
<1> SUFFICES ASSUME Calm' PROVE Waiting' /\ Steady'
  BY DEF FlowInv
<1>1. Waiting /\ Steady
  BY DEF FlowInv
<1>2. holder \in Tasks \cup {None} /\ \A t \in Tasks : task[t].pc # "idle" => task[t].dep \in Deps
  BY DEF IInv, TypeOK, Points, Working
<1>3. Waiting'
  BY <1>1, <1>2 DEF Waiting
<1>4. \A S : (RunAmong(S) => RunAmong(S)') /\ (DrainAmong(S) => DrainAmong(S)')
  BY DEF RunAmong, DrainAmong, Runs, Drained
<1>5. \A t \in Tasks : Flow(t)'
  <2> SUFFICES ASSUME NEW t \in Tasks PROVE Flow(t)'
    OBVIOUS
  <2>1. Flow(t) /\ task'[t] = task[t]
    BY <1>1 DEF Steady
  <2>2. \A d : Runs(d)' <=> Runs(d)
    BY DEF Runs
  <2> QED
    BY <2>1, <2>2, <1>4 DEF Flow
<1>6. Steady'
  BY <1>1, <1>4, <1>5 DEF Steady, Runs
<1> QED
  BY <1>3, <1>6

(* What a flow may change, when it goes on or ends. *)
LEMMA FlowMoves ==
  ASSUME IInv, Waiting, Steady, NEW t \in Tasks, holder = t,
         \A u \in Tasks : u # t => task'[u] = task[u],
         resumed' = resumed, active' \in {active, task[t].dep},
         \A d \in Deps : d # task[t].dep /\ vm[d] = "none" => vm'[d] = "none",
         \A d \in Deps : row[d] # "none" => row'[d] # "none",
         active' \in job', Runs(active)',
         \/ /\ holder' = t /\ task'[t].pc \in FlowPoints /\ task'[t].dep = task[t].dep
            /\ task'[t].kind = task[t].kind /\ Flow(t)'
         \/ holder' = None /\ task'[t] = Idle /\ RunAmong({active})' /\ DrainAmong({})'
  PROVE  Waiting' /\ Steady'
<1>1. t # None /\ task[t].pc \in FlowPoints
  BY DeploymentAssumption DEF Waiting
<1>2. task[t].pc # "idle"
  BY <1>1 DEF FlowPoints, Placing, Trying, Promoted
<1>3. \A u \in Tasks : u # t => task[u].pc \in {"idle", "guard"}
  BY DEF Waiting
<1>4. \A u \in Tasks : u # t /\ task[u].pc # "idle" => task[u].dep \in Deps \ {task[t].dep}
  BY <1>2 DEF Waiting, IInv, Points, Working
<1>5. \A u \in Tasks : u # t => Flow(u)'
  <2> SUFFICES ASSUME NEW u \in Tasks, u # t PROVE Flow(u)'
    OBVIOUS
  <2>1. Flow(u) /\ task'[u] = task[u]
    BY DEF Steady
  <2>2. CASE task[u].pc = "idle"
    BY <2>1, <2>2 DEF Flow, Placing, Trying, Promoted
  <2>3. CASE task[u].pc = "guard"
    <3>1. task[u].dep # active /\ vm[task[u].dep] = "none"
      BY <2>1, <2>3 DEF Flow
    <3>2. task[u].dep # active' /\ vm'[task[u].dep] = "none"
      BY <3>1, <1>4, <2>3
    <3> QED
      BY <2>1, <2>3, <3>2 DEF Flow, Placing, Trying, Promoted
  <2> QED
    BY <1>3, <2>2, <2>3
<1>6. Idle.pc = "idle"
  BY DEF Idle
<1>7. CASE /\ holder' = t /\ task'[t].pc \in FlowPoints /\ task'[t].dep = task[t].dep
           /\ task'[t].kind = task[t].kind /\ Flow(t)'
  <2>1. Waiting'
    BY <1>1, <1>2, <1>4, <1>7 DEF Waiting, IInv, Points, Working
  <2>2. Steady'
    BY <1>1, <1>5, <1>7 DEF Steady
  <2> QED
    BY <2>1, <2>2
<1>8. CASE holder' = None /\ task'[t] = Idle /\ RunAmong({active})' /\ DrainAmong({})'
  <2>1. Flow(t)'
    BY <1>6, <1>8 DEF Flow, Placing, Trying, Promoted
  <2>2. Waiting'
    BY <1>3, <1>4, <1>6, <1>8 DEF Waiting, IInv, Points, Working
  <2>3. Steady'
    BY <1>5, <1>8, <2>1 DEF Steady
  <2> QED
    BY <2>2, <2>3
<1> QED
  BY <1>7, <1>8

(* The task at a point of a flow holds the guard. *)
LEMMA Owner ==
  ASSUME IInv, FlowInv, Calm, NEW t \in Slots, task[t].pc # "idle", task[t].pc # "guard",
         t \in Tasks \/ task[t].pc \notin ListenerPoints
  PROVE  /\ t \in Tasks /\ holder = t /\ Waiting /\ Steady /\ Flow(t)
         /\ task[t].pc \in FlowPoints /\ row[task[t].dep] # "none"
         /\ task[t].kind \in {"image", "build"} /\ task[t].dep \in Deps
BY DEF IInv, FlowInv, Waiting, Steady, Slots, Points, Listening, Working

(* Nobody but the holder is at such a point, and nothing changes where nobody is. *)
LEMMA NotCalm ==
  ASSUME FlowInv, NeverDraining', ~Calm'
  PROVE  FlowInv'
BY DEF FlowInv

(* An event once noted stays noted. *)
LEMMA Noted ==
  /\ \A e, b : Note(e, b) => /\ (Calm' => Calm) /\ (b /\ Calm' => e = "overtaken")
                             /\ (rare' = {} => rare = {} /\ ~b)
  /\ \A e : Rare(e) /\ e # "overtaken" => ~Calm' /\ rare' # {}
BY DEF Note, Rare, Calm


(* trigger_build. *)
LEMMA TriggerBuildFlows ==
  ASSUME IInv, FlowInv, NEW t \in Tasks, TriggerBuild(t)
  PROVE  FlowInv'
<1>1. \A u \in Slots : u # t => task'[u] = task[u]
  BY DEF TriggerBuild, SetStatus, Goto, IInv, TypeOK, TaskRecords, Slots
<1>2. NeverDraining'
  BY <1>1, DeploymentAssumption DEF FlowInv, NeverDraining, Slots
<1>3. Calm' => Calm
  BY Noted DEF TriggerBuild, Calm
<1> SUFFICES ASSUME Calm' PROVE Waiting' /\ Steady'
  BY <1>2 DEF FlowInv
<1>4. /\ holder = t /\ Waiting /\ Steady /\ Flow(t) /\ row[task[t].dep] # "none"
      /\ task[t].kind \in {"image", "build"} /\ task[t].dep \in Deps /\ active \in Deps /\ t # None
      /\ active \in job /\ Runs(active)
  BY <1>3, Owner, DeploymentAssumption DEF TriggerBuild, Slots, IInv, TypeOK, Steady
<1>5. /\ resumed' = resumed /\ active' \in {active, task[t].dep}
      /\ \A d \in Deps : d # task[t].dep /\ vm[d] = "none" => vm'[d] = "none"
      /\ \A d \in Deps : row[d] # "none" => row'[d] # "none"
  BY <1>4, DeploymentAssumption DEF TriggerBuild, SetStatus, Goto, IInv, TypeOK, TaskRecords
<1>6. active' \in job' /\ Runs(active)'
  BY <1>4, Noted DEF TriggerBuild, SetStatus, Goto, IInv, TypeOK, TaskRecords, Flow, RunAmong,
     DrainAmong, Runs, Drained, Placing, Trying, Promoted, FlowPoints
<1>7. /\ holder' = t /\ task'[t].pc \in FlowPoints /\ task'[t].dep = task[t].dep
      /\ task'[t].kind = task[t].kind /\ Flow(t)'
  BY <1>4, Noted, DeploymentAssumption DEF TriggerBuild, SetStatus, Goto, IInv, TypeOK,
     TaskRecords, Flow, RunAmong, DrainAmong, Runs, Drained, Placing, Trying, Promoted,
     FlowPoints
<1> QED
  BY <1>1, <1>4, <1>5, <1>6, <1>7, FlowMoves DEF Slots

(* The build is accepted. *)
LEMMA BuildAcceptedFlows ==
  ASSUME IInv, FlowInv, NEW t \in Tasks, BuildAccepted(t)
  PROVE  FlowInv'
<1>1. \A u \in Slots : u # t => task'[u] = task[u]
  BY DEF BuildAccepted, SetStatus, Goto, api, IInv, TypeOK, TaskRecords, Slots
<1>2. NeverDraining'
  BY <1>1, DeploymentAssumption DEF FlowInv, NeverDraining, Slots
<1>3. Calm' => Calm
  BY Noted DEF BuildAccepted, api, Calm
<1> SUFFICES ASSUME Calm' PROVE Waiting' /\ Steady'
  BY <1>2 DEF FlowInv
<1>4. /\ holder = t /\ Waiting /\ Steady /\ Flow(t) /\ row[task[t].dep] # "none"
      /\ task[t].kind \in {"image", "build"} /\ task[t].dep \in Deps /\ active \in Deps /\ t # None
      /\ active \in job /\ Runs(active)
  BY <1>3, Owner, DeploymentAssumption DEF BuildAccepted, Slots, IInv, TypeOK, Steady
<1>5. /\ resumed' = resumed /\ active' \in {active, task[t].dep}
      /\ \A d \in Deps : d # task[t].dep /\ vm[d] = "none" => vm'[d] = "none"
      /\ \A d \in Deps : row[d] # "none" => row'[d] # "none"
  BY <1>4, DeploymentAssumption DEF BuildAccepted, SetStatus, Goto, api, IInv, TypeOK,
     TaskRecords
<1>6. active' \in job' /\ Runs(active)'
  BY <1>4, Noted DEF BuildAccepted, SetStatus, Goto, api, IInv, TypeOK, TaskRecords, Flow,
     RunAmong, DrainAmong, Runs, Drained, Placing, Trying, Promoted, FlowPoints
<1>7. /\ holder' = t /\ task'[t].pc \in FlowPoints /\ task'[t].dep = task[t].dep
      /\ task'[t].kind = task[t].kind /\ Flow(t)'
  BY <1>4, Noted, DeploymentAssumption DEF BuildAccepted, SetStatus, Goto, api, IInv, TypeOK,
     TaskRecords, Flow, RunAmong, DrainAmong, Runs, Drained, Placing, Trying, Promoted,
     FlowPoints
<1> QED
  BY <1>1, <1>4, <1>5, <1>6, <1>7, FlowMoves DEF Slots

(* The build is refused. *)
LEMMA BuildRefusedFlows ==
  ASSUME IInv, FlowInv, NEW t \in Tasks, BuildRefused(t)
  PROVE  FlowInv'
<1>1. \A u \in Slots : u # t => task'[u] = task[u]
  BY DEF BuildRefused, SetStatus, End, Idle, IInv, TypeOK, TaskRecords, Slots
<1>2. NeverDraining'
  BY <1>1, DeploymentAssumption DEF FlowInv, NeverDraining, Slots
<1>3. Calm' => Calm
  BY Noted DEF BuildRefused, Calm
<1> SUFFICES ASSUME Calm' PROVE Waiting' /\ Steady'
  BY <1>2 DEF FlowInv
<1>4. /\ holder = t /\ Waiting /\ Steady /\ Flow(t) /\ row[task[t].dep] # "none"
      /\ task[t].kind \in {"image", "build"} /\ task[t].dep \in Deps /\ active \in Deps /\ t # None
      /\ active \in job /\ Runs(active)
  BY <1>3, Owner, DeploymentAssumption DEF BuildRefused, Slots, IInv, TypeOK, Steady
<1>5. /\ resumed' = resumed /\ active' \in {active, task[t].dep}
      /\ \A d \in Deps : d # task[t].dep /\ vm[d] = "none" => vm'[d] = "none"
      /\ \A d \in Deps : row[d] # "none" => row'[d] # "none"
  BY <1>4, DeploymentAssumption DEF BuildRefused, SetStatus, End, Idle, IInv, TypeOK,
     TaskRecords
<1>6. active' \in job' /\ Runs(active)'
  BY <1>4, Noted DEF BuildRefused, SetStatus, End, Idle, IInv, TypeOK, TaskRecords, Flow,
     RunAmong, DrainAmong, Runs, Drained, Placing, Trying, Promoted, FlowPoints
<1>7. holder' = None /\ task'[t] = Idle /\ RunAmong({active})' /\ DrainAmong({})'
  <2>1. /\ task[t].pc = "request" /\ holder' = None /\ task'[t] = Idle
        /\ UNCHANGED <<job, active, vm>>
        /\ \A e \in Deps : row'[e] = row[e] \/ row'[e] = "FAILED" 
    BY <1>4, Noted, DeploymentAssumption DEF BuildRefused, SetStatus, End, IInv, TypeOK,
       TaskRecords, Slots
  <2>2. RunAmong({active})'
    BY <1>4, <2>1 DEF Flow, RunAmong, DrainAmong, Runs, Drained, Placing, Trying, Promoted,
       FlowPoints
  <2>3. DrainAmong({})'
    BY <1>4, <2>1 DEF Flow, RunAmong, DrainAmong, Runs, Drained, Placing, Trying, Promoted,
       FlowPoints
  <2> QED
    BY <1>4, <2>1, <2>2, <2>3
<1> QED
  BY <1>1, <1>4, <1>5, <1>6, <1>7, FlowMoves DEF Slots

(* The build has succeeded. *)
LEMMA BuildSucceededFlows ==
  ASSUME IInv, FlowInv, NEW t \in Tasks, BuildSucceeded(t)
  PROVE  FlowInv'
<1>1. \A u \in Slots : u # t => task'[u] = task[u]
  BY DEF BuildSucceeded, End, Idle, store, IInv, TypeOK, TaskRecords, Slots
<1>2. NeverDraining'
  BY <1>1, DeploymentAssumption DEF FlowInv, NeverDraining, Slots
<1>3. Calm' => Calm
  BY Noted DEF BuildSucceeded, store, Calm
<1> SUFFICES ASSUME Calm' PROVE Waiting' /\ Steady'
  BY <1>2 DEF FlowInv
<1>4. /\ holder = t /\ Waiting /\ Steady /\ Flow(t) /\ row[task[t].dep] # "none"
      /\ task[t].kind \in {"image", "build"} /\ task[t].dep \in Deps /\ active \in Deps /\ t # None
      /\ active \in job /\ Runs(active)
  BY <1>3, Owner, DeploymentAssumption DEF BuildSucceeded, Slots, IInv, TypeOK, Steady
<1>5. /\ resumed' = resumed /\ active' \in {active, task[t].dep}
      /\ \A d \in Deps : d # task[t].dep /\ vm[d] = "none" => vm'[d] = "none"
      /\ \A d \in Deps : row[d] # "none" => row'[d] # "none"
  BY <1>4, DeploymentAssumption DEF BuildSucceeded, End, Idle, store, IInv, TypeOK, TaskRecords
<1>6. active' \in job' /\ Runs(active)'
  BY <1>4, Noted DEF BuildSucceeded, End, Idle, store, IInv, TypeOK, TaskRecords, Flow,
     RunAmong, DrainAmong, Runs, Drained, Placing, Trying, Promoted, FlowPoints
<1>7. \/ /\ holder' = t /\ task'[t].pc \in FlowPoints /\ task'[t].dep = task[t].dep
         /\ task'[t].kind = task[t].kind /\ Flow(t)'
      \/ holder' = None /\ task'[t] = Idle /\ RunAmong({active})' /\ DrainAmong({})'
  BY <1>4, Noted, DeploymentAssumption DEF BuildSucceeded, End, Idle, store, IInv, TypeOK,
     TaskRecords, Flow, RunAmong, DrainAmong, Runs, Drained, Placing, Trying, Promoted,
     FlowPoints
<1> QED
  BY <1>1, <1>4, <1>5, <1>6, <1>7, FlowMoves DEF Slots

(* The built image is deployed. *)
LEMMA DeployBuiltFlows ==
  ASSUME IInv, FlowInv, NEW t \in Tasks, DeployBuilt(t)
  PROVE  FlowInv'
<1>1. \A u \in Slots : u # t => task'[u] = task[u]
  BY DEF DeployBuilt, Goto, TryStartFlow, End, Idle, store, IInv, TypeOK, TaskRecords, Slots
<1>2. NeverDraining'
  BY <1>1, DeploymentAssumption DEF FlowInv, NeverDraining, Slots
<1>3. Calm' => Calm
  BY Noted DEF DeployBuilt, store, Calm
<1> SUFFICES ASSUME Calm' PROVE Waiting' /\ Steady'
  BY <1>2 DEF FlowInv
<1>4. /\ holder = t /\ Waiting /\ Steady /\ Flow(t) /\ row[task[t].dep] # "none"
      /\ task[t].kind \in {"image", "build"} /\ task[t].dep \in Deps /\ active \in Deps /\ t # None
      /\ active \in job /\ Runs(active)
  BY <1>3, Owner, DeploymentAssumption DEF DeployBuilt, Slots, IInv, TypeOK, Steady
<1>5. /\ resumed' = resumed /\ active' \in {active, task[t].dep}
      /\ \A d \in Deps : d # task[t].dep /\ vm[d] = "none" => vm'[d] = "none"
      /\ \A d \in Deps : row[d] # "none" => row'[d] # "none"
  BY <1>4, DeploymentAssumption DEF DeployBuilt, Goto, TryStartFlow, End, Idle, store, IInv,
     TypeOK, TaskRecords
<1>6. active' \in job' /\ Runs(active)'
  BY <1>4, Noted DEF DeployBuilt, Goto, TryStartFlow, End, Idle, store, IInv, TypeOK,
     TaskRecords, Flow, RunAmong, DrainAmong, Runs, Drained, Placing, Trying, Promoted,
     FlowPoints
<1>7. \/ /\ holder' = t /\ task'[t].pc \in FlowPoints /\ task'[t].dep = task[t].dep
         /\ task'[t].kind = task[t].kind /\ Flow(t)'
      \/ holder' = None /\ task'[t] = Idle /\ RunAmong({active})' /\ DrainAmong({})'
  BY <1>4, Noted, DeploymentAssumption DEF DeployBuilt, Goto, TryStartFlow, End, Idle, store,
     IInv, TypeOK, TaskRecords, Flow, RunAmong, DrainAmong, Runs, Drained, Placing, Trying,
     Promoted, FlowPoints
<1> QED
  BY <1>1, <1>4, <1>5, <1>6, <1>7, FlowMoves DEF Slots

(* The build has failed. *)
LEMMA BuildFailedFlows ==
  ASSUME IInv, FlowInv, NEW t \in Tasks, BuildFailed(t)
  PROVE  FlowInv'
<1>1. \A u \in Slots : u # t => task'[u] = task[u]
  BY DEF BuildFailed, SetStatus, End, Idle, IInv, TypeOK, TaskRecords, Slots
<1>2. NeverDraining'
  BY <1>1, DeploymentAssumption DEF FlowInv, NeverDraining, Slots
<1>3. Calm' => Calm
  BY Noted DEF BuildFailed, Calm
<1> SUFFICES ASSUME Calm' PROVE Waiting' /\ Steady'
  BY <1>2 DEF FlowInv
<1>4. /\ holder = t /\ Waiting /\ Steady /\ Flow(t) /\ row[task[t].dep] # "none"
      /\ task[t].kind \in {"image", "build"} /\ task[t].dep \in Deps /\ active \in Deps /\ t # None
      /\ active \in job /\ Runs(active)
  BY <1>3, Owner, DeploymentAssumption DEF BuildFailed, Slots, IInv, TypeOK, Steady
<1>5. /\ resumed' = resumed /\ active' \in {active, task[t].dep}
      /\ \A d \in Deps : d # task[t].dep /\ vm[d] = "none" => vm'[d] = "none"
      /\ \A d \in Deps : row[d] # "none" => row'[d] # "none"
  BY <1>4, DeploymentAssumption DEF BuildFailed, SetStatus, End, Idle, IInv, TypeOK, TaskRecords
<1>6. active' \in job' /\ Runs(active)'
  BY <1>4, Noted DEF BuildFailed, SetStatus, End, Idle, IInv, TypeOK, TaskRecords, Flow,
     RunAmong, DrainAmong, Runs, Drained, Placing, Trying, Promoted, FlowPoints
<1>7. holder' = None /\ task'[t] = Idle /\ RunAmong({active})' /\ DrainAmong({})'
  <2>1. /\ task[t].pc = "poll" /\ holder' = None /\ task'[t] = Idle
        /\ UNCHANGED <<job, active, vm>>
        /\ \A e \in Deps : row'[e] = row[e] \/ row'[e] = "FAILED" 
    BY <1>4, Noted, DeploymentAssumption DEF BuildFailed, SetStatus, End, IInv, TypeOK,
       TaskRecords, Slots
  <2>2. RunAmong({active})'
    BY <1>4, <2>1 DEF Flow, RunAmong, DrainAmong, Runs, Drained, Placing, Trying, Promoted,
       FlowPoints
  <2>3. DrainAmong({})'
    BY <1>4, <2>1 DEF Flow, RunAmong, DrainAmong, Runs, Drained, Placing, Trying, Promoted,
       FlowPoints
  <2> QED
    BY <1>4, <2>1, <2>2, <2>3
<1> QED
  BY <1>1, <1>4, <1>5, <1>6, <1>7, FlowMoves DEF Slots

(* The scheduler places the deployment. *)
LEMMA ScheduleFlows ==
  ASSUME IInv, FlowInv, NEW t \in Tasks, Schedule(t)
  PROVE  FlowInv'
<1>1. \A u \in Slots : u # t => task'[u] = task[u]
  BY DEF Schedule, store, api, IInv, TypeOK, TaskRecords, Slots
<1>2. NeverDraining'
  BY <1>1, DeploymentAssumption DEF FlowInv, NeverDraining, Slots
<1>3. Calm' => Calm
  BY Noted DEF Schedule, store, api, Calm
<1> SUFFICES ASSUME Calm' PROVE Waiting' /\ Steady'
  BY <1>2 DEF FlowInv
<1>4. /\ holder = t /\ Waiting /\ Steady /\ Flow(t) /\ row[task[t].dep] # "none"
      /\ task[t].kind \in {"image", "build"} /\ task[t].dep \in Deps /\ active \in Deps /\ t # None
      /\ active \in job /\ Runs(active)
  BY <1>3, Owner, DeploymentAssumption DEF Schedule, Slots, IInv, TypeOK, Steady
<1>5. /\ resumed' = resumed /\ active' \in {active, task[t].dep}
      /\ \A d \in Deps : d # task[t].dep /\ vm[d] = "none" => vm'[d] = "none"
      /\ \A d \in Deps : row[d] # "none" => row'[d] # "none"
  BY <1>4, DeploymentAssumption DEF Schedule, store, api, IInv, TypeOK, TaskRecords
<1>6. active' \in job' /\ Runs(active)'
  BY <1>4, Noted DEF Schedule, store, api, IInv, TypeOK, TaskRecords, Flow, RunAmong,
     DrainAmong, Runs, Drained, Placing, Trying, Promoted, FlowPoints
<1>7. /\ holder' = t /\ task'[t].pc \in FlowPoints /\ task'[t].dep = task[t].dep
      /\ task'[t].kind = task[t].kind /\ Flow(t)'
  <2>1. /\ task[t].pc = "schedule" /\ task'[t].pc = "placed" /\ holder' = t
        /\ task'[t].dep = task[t].dep /\ task'[t].kind = task[t].kind
        /\ task'[t].seen = task[t].seen
        /\ UNCHANGED <<row, job, active>> /\ \A e \in Deps : e # task[t].dep => vm'[e] = vm[e]
        /\ vm'[task[t].dep] = "running" => task'[t].status # "FAILED" 
    BY <1>4, Noted, DeploymentAssumption DEF Schedule, store, api, IInv, TypeOK, TaskRecords,
       Slots
  <2>2. Flow(t)'
    BY <1>4, <2>1 DEF Flow, RunAmong, DrainAmong, Runs, Drained, Placing, Trying, Promoted,
       FlowPoints
  <2>3. task'[t].pc \in FlowPoints
    BY <1>4, <2>1 DEF Placing, Trying, Promoted, FlowPoints
  <2> QED
    BY <1>4, <2>1, <2>2, <2>3
<1> QED
  BY <1>1, <1>4, <1>5, <1>6, <1>7, FlowMoves DEF Slots

(* The answer of the scheduler is written. *)
LEMMA ScheduledFlows ==
  ASSUME IInv, FlowInv, NEW t \in Tasks, Scheduled(t)
  PROVE  FlowInv'
<1>1. \A u \in Slots : u # t => task'[u] = task[u]
  BY DEF Scheduled, SetStatus, End, Idle, IInv, TypeOK, TaskRecords, Slots
<1>2. NeverDraining'
  BY <1>1, DeploymentAssumption DEF FlowInv, NeverDraining, Slots
<1>3. Calm' => Calm
  BY Noted DEF Scheduled, Calm
<1> SUFFICES ASSUME Calm' PROVE Waiting' /\ Steady'
  BY <1>2 DEF FlowInv
<1>4. /\ holder = t /\ Waiting /\ Steady /\ Flow(t) /\ row[task[t].dep] # "none"
      /\ task[t].kind \in {"image", "build"} /\ task[t].dep \in Deps /\ active \in Deps /\ t # None
      /\ active \in job /\ Runs(active)
  BY <1>3, Owner, DeploymentAssumption DEF Scheduled, Slots, IInv, TypeOK, Steady
<1>5. /\ resumed' = resumed /\ active' \in {active, task[t].dep}
      /\ \A d \in Deps : d # task[t].dep /\ vm[d] = "none" => vm'[d] = "none"
      /\ \A d \in Deps : row[d] # "none" => row'[d] # "none"
  <2>1. UNCHANGED <<resumed, active, vm>>
    BY DEF Scheduled
  <2>2. \A d \in Deps : row'[d] = row[d] \/ row'[d] = task[t].status
    BY DEF Scheduled, SetStatus, IInv, TypeOK
  <2>3. task[t].pc = "placed"
    BY DEF Scheduled
  <2>4. task[t].status # "none"
    BY <2>3 DEF IInv, Points, Writing, Slots
  <2> QED
    BY <2>1, <2>2, <2>4
<1>6. active' \in job' /\ Runs(active)'
  BY <1>4, Noted DEF Scheduled, SetStatus, End, Idle, IInv, TypeOK, TaskRecords, Flow, RunAmong,
     DrainAmong, Runs, Drained, Placing, Trying, Promoted, FlowPoints
<1>7. \/ /\ holder' = t /\ task'[t].pc \in FlowPoints /\ task'[t].dep = task[t].dep
         /\ task'[t].kind = task[t].kind /\ Flow(t)'
      \/ holder' = None /\ task'[t] = Idle /\ RunAmong({active})' /\ DrainAmong({})'
  <2>1. /\ task[t].pc = "placed" /\ UNCHANGED <<vm, active>> /\ job' = job \cup {task[t].dep}
        /\ \A e \in Deps : row'[e] = row[e] \/ row'[e] = task[t].status
        /\ task[t].status # "DRAINING"
        /\ \/ task[t].status = "FAILED" /\ holder' = None /\ task'[t] = Idle
           \/ /\ task'[t].pc = "mark" /\ holder' = t /\ task'[t].dep = task[t].dep
              /\ task'[t].kind = task[t].kind /\ task'[t].seen = task[t].seen
    BY <1>4, Noted, DeploymentAssumption DEF Scheduled, SetStatus, End, Points, Writing, IInv,
       TypeOK, TaskRecords, Slots
  <2>2. (task'[t].pc = "mark" /\ holder' = t) => Flow(t)' /\ task'[t].pc \in FlowPoints
    BY <1>4, <2>1 DEF Flow, RunAmong, DrainAmong, Runs, Drained, Placing, Trying, Promoted,
       FlowPoints
  <2>3. task'[t] = Idle => RunAmong({active})' /\ DrainAmong({})'
    BY <1>4, <2>1 DEF Flow, RunAmong, DrainAmong, Runs, Drained, Placing, Trying, Promoted,
       FlowPoints, Idle
  <2> QED
    BY <1>4, <2>1, <2>2, <2>3
<1> QED
  BY <1>1, <1>4, <1>5, <1>6, <1>7, FlowMoves DEF Slots

(* mark_previous_deployment_draining. *)
LEMMA MarkDrainingFlows ==
  ASSUME IInv, FlowInv, NEW t \in Tasks, MarkDraining(t)
  PROVE  FlowInv'
<1>1. \A u \in Slots : u # t => task'[u] = task[u]
  BY DEF MarkDraining, SetStatus, api, IInv, TypeOK, TaskRecords, Slots
<1>2. NeverDraining'
  BY <1>1, DeploymentAssumption DEF FlowInv, NeverDraining, Slots
<1>3. Calm' => Calm
  BY Noted DEF MarkDraining, api, Calm
<1> SUFFICES ASSUME Calm' PROVE Waiting' /\ Steady'
  BY <1>2 DEF FlowInv
<1>4. /\ holder = t /\ Waiting /\ Steady /\ Flow(t) /\ row[task[t].dep] # "none"
      /\ task[t].kind \in {"image", "build"} /\ task[t].dep \in Deps /\ active \in Deps /\ t # None
      /\ active \in job /\ Runs(active)
  BY <1>3, Owner, DeploymentAssumption DEF MarkDraining, Slots, IInv, TypeOK, Steady
<1>5. /\ resumed' = resumed /\ active' \in {active, task[t].dep}
      /\ \A d \in Deps : d # task[t].dep /\ vm[d] = "none" => vm'[d] = "none"
      /\ \A d \in Deps : row[d] # "none" => row'[d] # "none"
  BY <1>4, DeploymentAssumption DEF MarkDraining, SetStatus, api, IInv, TypeOK, TaskRecords
<1>6. active' \in job' /\ Runs(active)'
  BY <1>4, Noted DEF MarkDraining, SetStatus, api, IInv, TypeOK, TaskRecords, Flow, RunAmong,
     DrainAmong, Runs, Drained, Placing, Trying, Promoted, FlowPoints
<1>7. /\ holder' = t /\ task'[t].pc \in FlowPoints /\ task'[t].dep = task[t].dep
      /\ task'[t].kind = task[t].kind /\ Flow(t)'
  <2>1. /\ task[t].pc = "mark" /\ task'[t].pc = "health" /\ holder' = t
        /\ task'[t].dep = task[t].dep /\ task'[t].kind = task[t].kind
        /\ task'[t].seen = task[t].seen
        /\ UNCHANGED <<vm, job, active>> /\ \A e \in Deps : e # active => row'[e] = row[e]
        /\ task'[t].old = active /\ task[t].seen = active
    BY <1>4, Noted, DeploymentAssumption DEF MarkDraining, SetStatus, api, Calm, IInv, TypeOK,
       TaskRecords, Slots
  <2>2. Flow(t)'
    BY <1>4, <2>1 DEF Flow, RunAmong, DrainAmong, Runs, Drained, Placing, Trying, Promoted,
       FlowPoints
  <2>3. task'[t].pc \in FlowPoints
    BY <1>4, <2>1 DEF Placing, Trying, Promoted, FlowPoints
  <2> QED
    BY <1>4, <2>1, <2>2, <2>3
<1> QED
  BY <1>1, <1>4, <1>5, <1>6, <1>7, FlowMoves DEF Slots

(* The new version is healthy. *)
LEMMA HealthyFlows ==
  ASSUME IInv, FlowInv, NEW t \in Tasks, Healthy(t)
  PROVE  FlowInv'
<1>1. \A u \in Slots : u # t => task'[u] = task[u]
  BY DEF Healthy, Goto, store, api, IInv, TypeOK, TaskRecords, Slots
<1>2. NeverDraining'
  BY <1>1, DeploymentAssumption DEF FlowInv, NeverDraining, Slots
<1>3. Calm' => Calm
  BY Noted DEF Healthy, store, api, Calm
<1> SUFFICES ASSUME Calm' PROVE Waiting' /\ Steady'
  BY <1>2 DEF FlowInv
<1>4. /\ holder = t /\ Waiting /\ Steady /\ Flow(t) /\ row[task[t].dep] # "none"
      /\ task[t].kind \in {"image", "build"} /\ task[t].dep \in Deps /\ active \in Deps /\ t # None
      /\ active \in job /\ Runs(active)
  BY <1>3, Owner, DeploymentAssumption DEF Healthy, Slots, IInv, TypeOK, Steady
<1>5. /\ resumed' = resumed /\ active' \in {active, task[t].dep}
      /\ \A d \in Deps : d # task[t].dep /\ vm[d] = "none" => vm'[d] = "none"
      /\ \A d \in Deps : row[d] # "none" => row'[d] # "none"
  BY <1>4, DeploymentAssumption DEF Healthy, Goto, store, api, IInv, TypeOK, TaskRecords
<1>6. active' \in job' /\ Runs(active)'
  BY <1>4, Noted DEF Healthy, Goto, store, api, IInv, TypeOK, TaskRecords, Flow, RunAmong,
     DrainAmong, Runs, Drained, Placing, Trying, Promoted, FlowPoints
<1>7. /\ holder' = t /\ task'[t].pc \in FlowPoints /\ task'[t].dep = task[t].dep
      /\ task'[t].kind = task[t].kind /\ Flow(t)'
  BY <1>4, Noted, DeploymentAssumption DEF Healthy, Goto, store, api, IInv, TypeOK, TaskRecords,
     Flow, RunAmong, DrainAmong, Runs, Drained, Placing, Trying, Promoted, FlowPoints
<1> QED
  BY <1>1, <1>4, <1>5, <1>6, <1>7, FlowMoves DEF Slots

(* It is not. *)
LEMMA UnhealthyFlows ==
  ASSUME IInv, FlowInv, NEW t \in Tasks, Unhealthy(t)
  PROVE  FlowInv'
<1>1. \A u \in Slots : u # t => task'[u] = task[u]
  BY DEF Unhealthy, Goto, store, api, IInv, TypeOK, TaskRecords, Slots
<1>2. NeverDraining'
  BY <1>1, DeploymentAssumption DEF FlowInv, NeverDraining, Slots
<1>3. Calm' => Calm
  BY Noted DEF Unhealthy, store, api, Calm
<1> SUFFICES ASSUME Calm' PROVE Waiting' /\ Steady'
  BY <1>2 DEF FlowInv
<1>4. /\ holder = t /\ Waiting /\ Steady /\ Flow(t) /\ row[task[t].dep] # "none"
      /\ task[t].kind \in {"image", "build"} /\ task[t].dep \in Deps /\ active \in Deps /\ t # None
      /\ active \in job /\ Runs(active)
  BY <1>3, Owner, DeploymentAssumption DEF Unhealthy, Slots, IInv, TypeOK, Steady
<1>5. /\ resumed' = resumed /\ active' \in {active, task[t].dep}
      /\ \A d \in Deps : d # task[t].dep /\ vm[d] = "none" => vm'[d] = "none"
      /\ \A d \in Deps : row[d] # "none" => row'[d] # "none"
  BY <1>4, DeploymentAssumption DEF Unhealthy, Goto, store, api, IInv, TypeOK, TaskRecords
<1>6. active' \in job' /\ Runs(active)'
  BY <1>4, Noted DEF Unhealthy, Goto, store, api, IInv, TypeOK, TaskRecords, Flow, RunAmong,
     DrainAmong, Runs, Drained, Placing, Trying, Promoted, FlowPoints
<1>7. /\ holder' = t /\ task'[t].pc \in FlowPoints /\ task'[t].dep = task[t].dep
      /\ task'[t].kind = task[t].kind /\ Flow(t)'
  BY <1>4, Noted, DeploymentAssumption DEF Unhealthy, Goto, store, api, IInv, TypeOK,
     TaskRecords, Flow, RunAmong, DrainAmong, Runs, Drained, Placing, Trying, Promoted,
     FlowPoints
<1> QED
  BY <1>1, <1>4, <1>5, <1>6, <1>7, FlowMoves DEF Slots

(* rollback_failed_promotion: the row of the previous version. *)
LEMMA UndoDrainingFlows ==
  ASSUME IInv, FlowInv, NEW t \in Tasks, UndoDraining(t)
  PROVE  FlowInv'
<1>1. \A u \in Slots : u # t => task'[u] = task[u]
  BY DEF UndoDraining, SetStatus, Goto, api, IInv, TypeOK, TaskRecords, Slots
<1>2. NeverDraining'
  BY <1>1, DeploymentAssumption DEF FlowInv, NeverDraining, Slots
<1>3. Calm' => Calm
  BY Noted DEF UndoDraining, api, Calm
<1> SUFFICES ASSUME Calm' PROVE Waiting' /\ Steady'
  BY <1>2 DEF FlowInv
<1>4. /\ holder = t /\ Waiting /\ Steady /\ Flow(t) /\ row[task[t].dep] # "none"
      /\ task[t].kind \in {"image", "build"} /\ task[t].dep \in Deps /\ active \in Deps /\ t # None
      /\ active \in job /\ Runs(active)
  BY <1>3, Owner, DeploymentAssumption DEF UndoDraining, Slots, IInv, TypeOK, Steady
<1>5. /\ resumed' = resumed /\ active' \in {active, task[t].dep}
      /\ \A d \in Deps : d # task[t].dep /\ vm[d] = "none" => vm'[d] = "none"
      /\ \A d \in Deps : row[d] # "none" => row'[d] # "none"
  BY <1>4, DeploymentAssumption DEF UndoDraining, SetStatus, Goto, api, IInv, TypeOK,
     TaskRecords
<1>6. active' \in job' /\ Runs(active)'
  BY <1>4, Noted DEF UndoDraining, SetStatus, Goto, api, IInv, TypeOK, TaskRecords, Flow,
     RunAmong, DrainAmong, Runs, Drained, Placing, Trying, Promoted, FlowPoints
<1>7. /\ holder' = t /\ task'[t].pc \in FlowPoints /\ task'[t].dep = task[t].dep
      /\ task'[t].kind = task[t].kind /\ Flow(t)'
  BY <1>4, Noted, DeploymentAssumption DEF UndoDraining, SetStatus, Goto, api, IInv, TypeOK,
     TaskRecords, Flow, RunAmong, DrainAmong, Runs, Drained, Placing, Trying, Promoted,
     FlowPoints
<1> QED
  BY <1>1, <1>4, <1>5, <1>6, <1>7, FlowMoves DEF Slots

(* The new VM is paused. *)
LEMMA UndoVmFlows ==
  ASSUME IInv, FlowInv, NEW t \in Tasks, UndoVm(t)
  PROVE  FlowInv'
<1>1. \A u \in Slots : u # t => task'[u] = task[u]
  BY DEF UndoVm, PauseJob, Goto, store, api, IInv, TypeOK, TaskRecords, Slots
<1>2. NeverDraining'
  BY <1>1, DeploymentAssumption DEF FlowInv, NeverDraining, Slots
<1>3. Calm' => Calm
  BY Noted DEF UndoVm, PauseJob, store, api, Calm
<1> SUFFICES ASSUME Calm' PROVE Waiting' /\ Steady'
  BY <1>2 DEF FlowInv
<1>4. /\ holder = t /\ Waiting /\ Steady /\ Flow(t) /\ row[task[t].dep] # "none"
      /\ task[t].kind \in {"image", "build"} /\ task[t].dep \in Deps /\ active \in Deps /\ t # None
      /\ active \in job /\ Runs(active)
  BY <1>3, Owner, DeploymentAssumption DEF UndoVm, Slots, IInv, TypeOK, Steady
<1>5. /\ resumed' = resumed /\ active' \in {active, task[t].dep}
      /\ \A d \in Deps : d # task[t].dep /\ vm[d] = "none" => vm'[d] = "none"
      /\ \A d \in Deps : row[d] # "none" => row'[d] # "none"
  BY <1>4, DeploymentAssumption DEF UndoVm, PauseJob, Goto, store, api, IInv, TypeOK,
     TaskRecords
<1>6. active' \in job' /\ Runs(active)'
  BY <1>4, Noted DEF UndoVm, PauseJob, Goto, store, api, IInv, TypeOK, TaskRecords, Flow,
     RunAmong, DrainAmong, Runs, Drained, Placing, Trying, Promoted, FlowPoints
<1>7. /\ holder' = t /\ task'[t].pc \in FlowPoints /\ task'[t].dep = task[t].dep
      /\ task'[t].kind = task[t].kind /\ Flow(t)'
  BY <1>4, Noted, DeploymentAssumption DEF UndoVm, PauseJob, Goto, store, api, IInv, TypeOK,
     TaskRecords, Flow, RunAmong, DrainAmong, Runs, Drained, Placing, Trying, Promoted,
     FlowPoints
<1> QED
  BY <1>1, <1>4, <1>5, <1>6, <1>7, FlowMoves DEF Slots

(* The new row fails. *)
LEMMA UndoRowFlows ==
  ASSUME IInv, FlowInv, NEW t \in Tasks, UndoRow(t)
  PROVE  FlowInv'
<1>1. \A u \in Slots : u # t => task'[u] = task[u]
  BY DEF UndoRow, SetStatus, End, Idle, IInv, TypeOK, TaskRecords, Slots
<1>2. NeverDraining'
  BY <1>1, DeploymentAssumption DEF FlowInv, NeverDraining, Slots
<1>3. Calm' => Calm
  BY Noted DEF UndoRow, Calm
<1> SUFFICES ASSUME Calm' PROVE Waiting' /\ Steady'
  BY <1>2 DEF FlowInv
<1>4. /\ holder = t /\ Waiting /\ Steady /\ Flow(t) /\ row[task[t].dep] # "none"
      /\ task[t].kind \in {"image", "build"} /\ task[t].dep \in Deps /\ active \in Deps /\ t # None
      /\ active \in job /\ Runs(active)
  BY <1>3, Owner, DeploymentAssumption DEF UndoRow, Slots, IInv, TypeOK, Steady
<1>5. /\ resumed' = resumed /\ active' \in {active, task[t].dep}
      /\ \A d \in Deps : d # task[t].dep /\ vm[d] = "none" => vm'[d] = "none"
      /\ \A d \in Deps : row[d] # "none" => row'[d] # "none"
  BY <1>4, DeploymentAssumption DEF UndoRow, SetStatus, End, Idle, IInv, TypeOK, TaskRecords
<1>6. active' \in job' /\ Runs(active)'
  BY <1>4, Noted DEF UndoRow, SetStatus, End, Idle, IInv, TypeOK, TaskRecords, Flow, RunAmong,
     DrainAmong, Runs, Drained, Placing, Trying, Promoted, FlowPoints
<1>7. holder' = None /\ task'[t] = Idle /\ RunAmong({active})' /\ DrainAmong({})'
  <2>1. /\ task[t].pc = "undofail" /\ holder' = None /\ task'[t] = Idle
        /\ UNCHANGED <<job, active, vm>>
        /\ \A e \in Deps : row'[e] = row[e] \/ row'[e] = "FAILED" 
    BY <1>4, Noted, DeploymentAssumption DEF UndoRow, SetStatus, End, IInv, TypeOK,
       TaskRecords, Slots
  <2>2. RunAmong({active})'
    BY <1>4, <2>1 DEF Flow, RunAmong, DrainAmong, Runs, Drained, Placing, Trying, Promoted,
       FlowPoints
  <2>3. DrainAmong({})'
    BY <1>4, <2>1 DEF Flow, RunAmong, DrainAmong, Runs, Drained, Placing, Trying, Promoted,
       FlowPoints
  <2> QED
    BY <1>4, <2>1, <2>2, <2>3
<1> QED
  BY <1>1, <1>4, <1>5, <1>6, <1>7, FlowMoves DEF Slots

(* promote_deployment_to_active. *)
LEMMA PromoteFlows ==
  ASSUME IInv, FlowInv, NEW t \in Tasks, Promote(t)
  PROVE  FlowInv'
<1>1. \A u \in Slots : u # t => task'[u] = task[u]
  BY DEF Promote, End, Idle, Goto, IInv, TypeOK, TaskRecords, Slots
<1>2. NeverDraining'
  BY <1>1, DeploymentAssumption DEF FlowInv, NeverDraining, Slots
<1>3. Calm' => Calm
  BY Noted DEF Promote, Calm
<1> SUFFICES ASSUME Calm' PROVE Waiting' /\ Steady'
  BY <1>2 DEF FlowInv
<1>4. /\ holder = t /\ Waiting /\ Steady /\ Flow(t) /\ row[task[t].dep] # "none"
      /\ task[t].kind \in {"image", "build"} /\ task[t].dep \in Deps /\ active \in Deps /\ t # None
      /\ active \in job /\ Runs(active)
  BY <1>3, Owner, DeploymentAssumption DEF Promote, Slots, IInv, TypeOK, Steady
<1>5. /\ resumed' = resumed /\ active' \in {active, task[t].dep}
      /\ \A d \in Deps : d # task[t].dep /\ vm[d] = "none" => vm'[d] = "none"
      /\ \A d \in Deps : row[d] # "none" => row'[d] # "none"
  BY <1>4, DeploymentAssumption DEF Promote, End, Idle, Goto, IInv, TypeOK, TaskRecords
<1>6. active' \in job' /\ Runs(active)'
  BY <1>4, Noted DEF Promote, End, Idle, Goto, IInv, TypeOK, TaskRecords, Flow, RunAmong,
     DrainAmong, Runs, Drained, Placing, Trying, Promoted, FlowPoints
<1>7. \/ /\ holder' = t /\ task'[t].pc \in FlowPoints /\ task'[t].dep = task[t].dep
         /\ task'[t].kind = task[t].kind /\ Flow(t)'
      \/ holder' = None /\ task'[t] = Idle /\ RunAmong({active})' /\ DrainAmong({})'
  <2>1. /\ task[t].pc = "promote" /\ task'[t].pc = "list" /\ holder' = t
        /\ task'[t].dep = task[t].dep /\ task'[t].kind = task[t].kind
        /\ task'[t].seen = task[t].seen
        /\ UNCHANGED <<vm, job, row>> /\ active' = task[t].dep
    BY <1>4, Noted, DeploymentAssumption DEF Promote, Goto, IInv, TypeOK, TaskRecords, Slots
  <2>2. Flow(t)'
    BY <1>4, <2>1 DEF Flow, RunAmong, DrainAmong, Runs, Drained, Placing, Trying, Promoted,
       FlowPoints
  <2>3. task'[t].pc \in FlowPoints
    BY <1>4, <2>1 DEF Placing, Trying, Promoted, FlowPoints
  <2> QED
    BY <1>4, <2>1, <2>2, <2>3
<1> QED
  BY <1>1, <1>4, <1>5, <1>6, <1>7, FlowMoves DEF Slots

(* The targets are listed. *)
LEMMA ListTargetsFlows ==
  ASSUME IInv, FlowInv, NEW t \in Tasks, ListTargets(t)
  PROVE  FlowInv'
<1>1. \A u \in Slots : u # t => task'[u] = task[u]
  BY DEF ListTargets, store, api, IInv, TypeOK, TaskRecords, Slots
<1>2. NeverDraining'
  BY <1>1, DeploymentAssumption DEF FlowInv, NeverDraining, Slots
<1>3. Calm' => Calm
  BY Noted DEF ListTargets, store, api, Calm
<1> SUFFICES ASSUME Calm' PROVE Waiting' /\ Steady'
  BY <1>2 DEF FlowInv
<1>4. /\ holder = t /\ Waiting /\ Steady /\ Flow(t) /\ row[task[t].dep] # "none"
      /\ task[t].kind \in {"image", "build"} /\ task[t].dep \in Deps /\ active \in Deps /\ t # None
      /\ active \in job /\ Runs(active)
  BY <1>3, Owner, DeploymentAssumption DEF ListTargets, Slots, IInv, TypeOK, Steady
<1>5. /\ resumed' = resumed /\ active' \in {active, task[t].dep}
      /\ \A d \in Deps : d # task[t].dep /\ vm[d] = "none" => vm'[d] = "none"
      /\ \A d \in Deps : row[d] # "none" => row'[d] # "none"
  BY <1>4, DeploymentAssumption DEF ListTargets, store, api, IInv, TypeOK, TaskRecords
<1>6. active' \in job' /\ Runs(active)'
  BY <1>4, Noted DEF ListTargets, store, api, IInv, TypeOK, TaskRecords, Flow, RunAmong,
     DrainAmong, Runs, Drained, Placing, Trying, Promoted, FlowPoints
<1>7. /\ holder' = t /\ task'[t].pc \in FlowPoints /\ task'[t].dep = task[t].dep
      /\ task'[t].kind = task[t].kind /\ Flow(t)'
  <2>1. /\ task[t].pc = "list" /\ task'[t].pc = "send" /\ holder' = t
        /\ task'[t].dep = task[t].dep /\ task'[t].kind = task[t].kind
        /\ task'[t].seen = task[t].seen
        /\ UNCHANGED <<vm, job, row, active, rare>>
    BY <1>4, Noted, DeploymentAssumption DEF ListTargets, store, api, IInv, TypeOK,
       TaskRecords, Slots
  <2>2. Flow(t)'
    BY <1>4, <2>1 DEF Flow, RunAmong, DrainAmong, Runs, Drained, Placing, Trying, Promoted,
       FlowPoints
  <2>3. task'[t].pc \in FlowPoints
    BY <1>4, <2>1 DEF Placing, Trying, Promoted, FlowPoints
  <2> QED
    BY <1>4, <2>1, <2>2, <2>3
<1> QED
  BY <1>1, <1>4, <1>5, <1>6, <1>7, FlowMoves DEF Slots

(* The targets are sent. *)
LEMMA SendTargetsFlows ==
  ASSUME IInv, FlowInv, NEW t \in Tasks, SendTargets(t)
  PROVE  FlowInv'
<1>1. \A u \in Slots : u # t => task'[u] = task[u]
  BY DEF SendTargets, AfterSend, Drains, Scales, Previous, End, Idle, store, IInv, TypeOK,
     TaskRecords, Slots
<1>2. NeverDraining'
  BY <1>1, DeploymentAssumption DEF FlowInv, NeverDraining, Slots
<1>3. Calm' => Calm
  BY Noted DEF SendTargets, store, AfterSend, Calm
<1> SUFFICES ASSUME Calm' PROVE Waiting' /\ Steady'
  BY <1>2 DEF FlowInv
<1>4. /\ holder = t /\ Waiting /\ Steady /\ Flow(t) /\ row[task[t].dep] # "none"
      /\ task[t].kind \in {"image", "build"} /\ task[t].dep \in Deps /\ active \in Deps /\ t # None
      /\ active \in job /\ Runs(active)
  BY <1>3, Owner, DeploymentAssumption DEF SendTargets, Slots, IInv, TypeOK, Steady
<1>5. /\ resumed' = resumed /\ active' \in {active, task[t].dep}
      /\ \A d \in Deps : d # task[t].dep /\ vm[d] = "none" => vm'[d] = "none"
      /\ \A d \in Deps : row[d] # "none" => row'[d] # "none"
  BY <1>4, DeploymentAssumption DEF SendTargets, AfterSend, Drains, Scales, Previous, End, Idle,
     store, IInv, TypeOK, TaskRecords
<1>6. active' \in job' /\ Runs(active)'
  BY <1>4, Noted DEF SendTargets, AfterSend, Drains, Scales, Previous, End, Idle, store, IInv,
     TypeOK, TaskRecords, Flow, RunAmong, DrainAmong, Runs, Drained, Placing, Trying, Promoted,
     FlowPoints
<1>7. \/ /\ holder' = t /\ task'[t].pc \in FlowPoints /\ task'[t].dep = task[t].dep
         /\ task'[t].kind = task[t].kind /\ Flow(t)'
      \/ holder' = None /\ task'[t] = Idle /\ RunAmong({active})' /\ DrainAmong({})'
  BY <1>4, Noted, DeploymentAssumption DEF SendTargets, AfterSend, Drains, Scales, Previous,
     End, Idle, store, IInv, TypeOK, TaskRecords, Flow, RunAmong, DrainAmong, Runs, Drained,
     Placing, Trying, Promoted, FlowPoints
<1> QED
  BY <1>1, <1>4, <1>5, <1>6, <1>7, FlowMoves DEF Slots

(* The router has newer targets. *)
LEMMA SendOvertakenFlows ==
  ASSUME IInv, FlowInv, NEW t \in Tasks, SendOvertaken(t)
  PROVE  FlowInv'
<1>1. \A u \in Slots : u # t => task'[u] = task[u]
  BY DEF SendOvertaken, AfterSend, Drains, Scales, Previous, End, Idle, store, IInv, TypeOK,
     TaskRecords, Slots
<1>2. NeverDraining'
  BY <1>1, DeploymentAssumption DEF FlowInv, NeverDraining, Slots
<1>3. Calm' => Calm
  BY Noted DEF SendOvertaken, store, AfterSend, Calm
<1> SUFFICES ASSUME Calm' PROVE Waiting' /\ Steady'
  BY <1>2 DEF FlowInv
<1>4. /\ holder = t /\ Waiting /\ Steady /\ Flow(t) /\ row[task[t].dep] # "none"
      /\ task[t].kind \in {"image", "build"} /\ task[t].dep \in Deps /\ active \in Deps /\ t # None
      /\ active \in job /\ Runs(active)
  BY <1>3, Owner, DeploymentAssumption DEF SendOvertaken, Slots, IInv, TypeOK, Steady
<1>5. /\ resumed' = resumed /\ active' \in {active, task[t].dep}
      /\ \A d \in Deps : d # task[t].dep /\ vm[d] = "none" => vm'[d] = "none"
      /\ \A d \in Deps : row[d] # "none" => row'[d] # "none"
  BY <1>4, DeploymentAssumption DEF SendOvertaken, AfterSend, Drains, Scales, Previous, End,
     Idle, store, IInv, TypeOK, TaskRecords
<1>6. active' \in job' /\ Runs(active)'
  BY <1>4, Noted DEF SendOvertaken, AfterSend, Drains, Scales, Previous, End, Idle, store, IInv,
     TypeOK, TaskRecords, Flow, RunAmong, DrainAmong, Runs, Drained, Placing, Trying, Promoted,
     FlowPoints
<1>7. /\ holder' = t /\ task'[t].pc \in FlowPoints /\ task'[t].dep = task[t].dep
      /\ task'[t].kind = task[t].kind /\ Flow(t)'
  <2>1. task[t].pc = "send" /\ Drains(t)
    BY <1>4 DEF SendOvertaken, Drains, Previous, Flow, Promoted
  <2>2. /\ task'[t].pc = "drain" /\ holder' = t /\ task'[t].dep = task[t].dep
        /\ task'[t].kind = task[t].kind /\ task'[t].seen = task[t].seen
        /\ UNCHANGED <<vm, job, row, active>>
    BY <1>4, <2>1, DeploymentAssumption DEF SendOvertaken, AfterSend, store, IInv, TypeOK,
       TaskRecords, Slots
  <2> QED
    BY <1>4, <2>1, <2>2 DEF Flow, RunAmong, DrainAmong, Runs, Drained, Placing, Trying, Promoted,
       FlowPoints
<1> QED
  BY <1>1, <1>4, <1>5, <1>6, <1>7, FlowMoves DEF Slots

(* The VM of the previous version is paused. *)
LEMMA DrainVmFlows ==
  ASSUME IInv, FlowInv, NEW t \in Tasks, DrainVm(t)
  PROVE  FlowInv'
<1>1. \A u \in Slots : u # t => task'[u] = task[u]
  BY DEF DrainVm, PauseJob, Previous, Goto, store, api, IInv, TypeOK, TaskRecords, Slots
<1>2. NeverDraining'
  BY <1>1, DeploymentAssumption DEF FlowInv, NeverDraining, Slots
<1>3. Calm' => Calm
  BY Noted DEF DrainVm, PauseJob, store, api, Calm
<1> SUFFICES ASSUME Calm' PROVE Waiting' /\ Steady'
  BY <1>2 DEF FlowInv
<1>4. /\ holder = t /\ Waiting /\ Steady /\ Flow(t) /\ row[task[t].dep] # "none"
      /\ task[t].kind \in {"image", "build"} /\ task[t].dep \in Deps /\ active \in Deps /\ t # None
      /\ active \in job /\ Runs(active)
  BY <1>3, Owner, DeploymentAssumption DEF DrainVm, Slots, IInv, TypeOK, Steady
<1>5. /\ resumed' = resumed /\ active' \in {active, task[t].dep}
      /\ \A d \in Deps : d # task[t].dep /\ vm[d] = "none" => vm'[d] = "none"
      /\ \A d \in Deps : row[d] # "none" => row'[d] # "none"
  BY <1>4, DeploymentAssumption DEF DrainVm, PauseJob, Previous, Goto, store, api, IInv, TypeOK,
     TaskRecords
<1>6. active' \in job' /\ Runs(active)'
  BY <1>4, Noted DEF DrainVm, PauseJob, Previous, Goto, store, api, IInv, TypeOK, TaskRecords,
     Flow, RunAmong, DrainAmong, Runs, Drained, Placing, Trying, Promoted, FlowPoints
<1>7. /\ holder' = t /\ task'[t].pc \in FlowPoints /\ task'[t].dep = task[t].dep
      /\ task'[t].kind = task[t].kind /\ Flow(t)'
  <2>1. /\ task[t].pc = "drain" /\ task'[t].pc = "drained" /\ holder' = t
        /\ task'[t].dep = task[t].dep /\ task'[t].kind = task[t].kind
        /\ task'[t].seen = task[t].seen
        /\ UNCHANGED <<job, row, active>>
        /\ \A e \in Deps : vm'[e] = "running" => vm[e] = "running" /\ e # task[t].seen
    BY <1>4, Noted, DeploymentAssumption DEF DrainVm, PauseJob, Previous, Goto, store, api,
       IInv, TypeOK, TaskRecords, Slots
  <2>2. Flow(t)'
    BY <1>4, <2>1 DEF Flow, RunAmong, DrainAmong, Runs, Drained, Placing, Trying, Promoted,
       FlowPoints
  <2>3. task'[t].pc \in FlowPoints
    BY <1>4, <2>1 DEF Placing, Trying, Promoted, FlowPoints
  <2> QED
    BY <1>4, <2>1, <2>2, <2>3
<1> QED
  BY <1>1, <1>4, <1>5, <1>6, <1>7, FlowMoves DEF Slots

(* The row of the previous version. *)
LEMMA DrainRowFlows ==
  ASSUME IInv, FlowInv, NEW t \in Tasks, DrainRow(t)
  PROVE  FlowInv'
<1>1. \A u \in Slots : u # t => task'[u] = task[u]
  BY DEF DrainRow, SetStatus, Previous, Scales, Goto, End, Idle, IInv, TypeOK, TaskRecords,
     Slots
<1>2. NeverDraining'
  BY <1>1, DeploymentAssumption DEF FlowInv, NeverDraining, Slots
<1>3. Calm' => Calm
  BY Noted DEF DrainRow, Calm
<1> SUFFICES ASSUME Calm' PROVE Waiting' /\ Steady'
  BY <1>2 DEF FlowInv
<1>4. /\ holder = t /\ Waiting /\ Steady /\ Flow(t) /\ row[task[t].dep] # "none"
      /\ task[t].kind \in {"image", "build"} /\ task[t].dep \in Deps /\ active \in Deps /\ t # None
      /\ active \in job /\ Runs(active)
  BY <1>3, Owner, DeploymentAssumption DEF DrainRow, Slots, IInv, TypeOK, Steady
<1>5. /\ resumed' = resumed /\ active' \in {active, task[t].dep}
      /\ \A d \in Deps : d # task[t].dep /\ vm[d] = "none" => vm'[d] = "none"
      /\ \A d \in Deps : row[d] # "none" => row'[d] # "none"
  BY <1>4, DeploymentAssumption DEF DrainRow, SetStatus, Previous, Scales, Goto, End, Idle,
     IInv, TypeOK, TaskRecords
<1>6. active' \in job' /\ Runs(active)'
  BY <1>4, Noted DEF DrainRow, SetStatus, Previous, Scales, Goto, End, Idle, IInv, TypeOK,
     TaskRecords, Flow, RunAmong, DrainAmong, Runs, Drained, Placing, Trying, Promoted,
     FlowPoints
<1>7. /\ holder' = t /\ task'[t].pc \in FlowPoints /\ task'[t].dep = task[t].dep
      /\ task'[t].kind = task[t].kind /\ Flow(t)'
  <2>1. /\ task[t].pc = "drained" /\ task'[t].pc = "scale" /\ holder' = t
        /\ task'[t].dep = task[t].dep /\ task'[t].kind = task[t].kind
        /\ task'[t].seen = task[t].seen
        /\ UNCHANGED <<job, active, vm>>
        /\ (row'[task[t].seen] # "DRAINING" \/ task[t].seen \notin Deps)
        /\ \A e \in Deps : row'[e] = row[e] \/ row'[e] = "PAUSED"
    BY <1>4, Noted, DeploymentAssumption DEF DrainRow, Scales, Goto, Previous, SetStatus,
       IInv, TypeOK, TaskRecords, Slots
  <2>2. DrainAmong({})'
    BY <1>4, <2>1 DEF Flow, DrainAmong, Drained, Promoted
  <2>3. Flow(t)'
    BY <1>4, <2>1, <2>2 DEF Flow, RunAmong, DrainAmong, Runs, Drained, Placing, Trying,
       Promoted, FlowPoints
  <2>4. task'[t].pc \in FlowPoints
    BY <2>1 DEF Promoted, FlowPoints
  <2> QED
    BY <1>4, <2>1, <2>3, <2>4
<1> QED
  BY <1>1, <1>4, <1>5, <1>6, <1>7, FlowMoves DEF Slots

(* The flow asks for the desired replicas: only the active version runs, so that nothing is too *)
(* many.                                                                                         *)
LEMMA ScaleAfterFlows ==
  ASSUME IInv, FlowInv, NEW t \in Tasks, ScaleAfter(t)
  PROVE  FlowInv'
<1>1. \A u \in Slots : u # t => task'[u] = task[u]
  BY DEF ScaleAfter, End, Idle, store, IInv, TypeOK, TaskRecords, Slots
<1>2. NeverDraining'
  BY <1>1, DeploymentAssumption DEF FlowInv, NeverDraining, Slots
<1>3. Calm' => Calm
  BY DEF ScaleAfter, Calm
<1> SUFFICES ASSUME Calm' PROVE Waiting' /\ Steady'
  BY <1>2 DEF FlowInv
<1>4. /\ holder = t /\ Waiting /\ Steady /\ Flow(t) /\ row[task[t].dep] # "none"
      /\ task[t].kind \in {"image", "build"} /\ task[t].dep \in Deps /\ active \in Deps /\ t # None
      /\ active \in job /\ Runs(active)
  BY <1>3, Owner, DeploymentAssumption DEF ScaleAfter, Slots, IInv, TypeOK, Steady,
     ListenerPoints
<1>5. vm' = vm
  BY <1>4 DEF ScaleAfter, ScaleApp, ScaleDown, ScaleUp, RunningJobs, Runs
<1>6. holder' = None /\ task'[t] = Idle /\ UNCHANGED <<row, job, active, resumed>>
  BY <1>4, DeploymentAssumption DEF ScaleAfter, End, store, IInv, TypeOK, Slots
<1>7. RunAmong({active})' /\ DrainAmong({})'
  BY <1>4, <1>5, <1>6 DEF ScaleAfter, Flow, RunAmong, DrainAmong, Runs, Drained, Promoted
<1> QED
  BY <1>1, <1>4, <1>5, <1>6, <1>7, FlowMoves DEF Slots, Runs

(* The scheduler counts the running jobs: the active one runs, so that none is added. *)
LEMMA ReconcileFlows ==
  ASSUME IInv, FlowInv, Reconcile
  PROVE  FlowInv'
<1>1. UNCHANGED <<row, job, active, holder, task, resumed, rare>>
  BY DEF Reconcile, store
<1>2. NeverDraining' /\ (Calm' <=> Calm)
  BY <1>1 DEF FlowInv, NeverDraining, Calm
<1> SUFFICES ASSUME Calm PROVE FlowInv'
  BY <1>2 DEF FlowInv
<1>3. vm' = vm
  BY DEF FlowInv, Steady, Runs, Reconcile, ScaleDown, ScaleUp, RunningJobs, IInv, TypeOK
<1> QED
  BY <1>1, <1>2, <1>3 DEF FlowInv, NeverDraining, Calm, Waiting, Steady, Flow, RunAmong,
     DrainAmong, Runs, Drained

(* A job in excess is deleted: where no rare event is noted it is none that is needed. *)
LEMMA DeleteSurplusFlows ==
  ASSUME IInv, FlowInv, RouteInv, NEW d \in Deps, DeleteSurplus(d)
  PROVE  FlowInv'
<1>1. UNCHANGED <<row, job, active, holder, task, resumed>>
  BY DEF DeleteSurplus, store
<1>2. NeverDraining'
  BY <1>1 DEF FlowInv, NeverDraining
<1>3. CASE Needed(d)
  <2>1. ~Calm'
    BY <1>3, Noted DEF DeleteSurplus
  <2> QED
    BY <1>2, <2>1, NotCalm
<1>4. CASE ~Needed(d)
  <2>1. rare' = rare
    BY <1>4 DEF DeleteSurplus
  <2> SUFFICES ASSUME Calm PROVE Waiting' /\ Steady'
    BY <1>2, <2>1 DEF FlowInv, Calm
  <2>2. Waiting /\ Steady
    BY DEF FlowInv
  <2>3. /\ d # active /\ d \notin routed /\ vm[d] # "none"
        /\ \A t \in Slots : task[t].pc = "promote" => task[t].dep # d
    BY <1>4 DEF Needed, DeleteSurplus, IInv, TypeOK
  <2>4. /\ \A e \in Deps : e # d => vm'[e] = vm[e]
        /\ vm'[d] = "gone"
    BY DEF DeleteSurplus, IInv, TypeOK
  <2>5. \A e \in Deps : Runs(e)' => Runs(e)
    BY <2>4 DEF Runs
  <2>6. \A S : (RunAmong(S) => RunAmong(S)') /\ (DrainAmong(S) => DrainAmong(S)')
    BY <1>1, <2>5 DEF RunAmong, DrainAmong, Drained
  <2>7. Waiting'
    BY <1>1, <2>2 DEF Waiting
  <2>8. ASSUME NEW t \in Tasks PROVE Flow(t)'
    <3>1. Flow(t) /\ (task[t].pc = "idle" \/ task[t].dep \in Deps)
      BY <2>2 DEF Steady, IInv, Points, Working
    <3>2. task[t].pc \in Placing \cup {"guard"} => vm'[task[t].dep] = "none"
      BY <1>1, <2>3, <2>4, <3>1 DEF Flow, Placing
    <3>3. task[t].pc = "promote" => Runs(task[t].dep)'
      BY <1>1, <2>3, <2>4, <3>1 DEF Flow, Runs, Slots
    <3>4. task[t].pc \in {"list", "send"} /\ rare = {} => Runs(task[t].seen)'
      <4>1. task[t].pc \in {"list", "send"} /\ rare = {} =>
              task[t].seen \in routed /\ task[t].seen \in Deps /\ Runs(task[t].seen)
        BY <3>1 DEF RouteInv, Sending, Flow, IInv, TypeOK
      <4> QED
        BY <1>1, <4>1, <2>3, <2>4 DEF Runs
    <3>5. task[t].pc = "placed" => (Runs(task[t].dep)' => task[t].status # "FAILED")
      BY <1>1, <2>5, <3>1 DEF Flow
    <3> QED
      BY <1>1, <2>1, <2>6, <3>1, <3>2, <3>3, <3>4, <3>5 DEF Flow
  <2>9. Steady'
    BY <1>1, <2>2, <2>3, <2>4, <2>6, <2>8 DEF Steady, Runs, IInv, TypeOK
  <2> QED
    BY <2>7, <2>9
<1> QED
  BY <1>3, <1>4


(* A request has a row and a deployment of its own, and waits for the guard. *)
LEMMA AskFlows ==
  ASSUME IInv, FlowInv, NEW t \in Tasks, NEW d \in Deps, NEW kind \in {"image", "build"},
         Ask(t, d, kind)
  PROVE  FlowInv'
<1>1. /\ \A u \in Slots : u # t => task'[u] = task[u]
      /\ task'[t].pc = "guard" /\ task'[t].dep = d /\ task'[t].kind = kind
  BY DEF Ask, Idle, IInv, TypeOK, Slots
<1>2. NeverDraining'
  BY <1>1, DeploymentAssumption DEF FlowInv, NeverDraining, Slots
<1>3. UNCHANGED <<job, active, vm, holder, resumed, rare>> /\ row[d] = "none" /\ vm[d] = "none"
  BY DEF Ask, api
<1>4. /\ row'[d] = "BUILDING" /\ \A e \in Deps : e # d => row'[e] = row[e]
      /\ task[t].pc = "idle"
  BY DEF Ask, IInv, TypeOK, Idle
<1> SUFFICES ASSUME Calm' PROVE Waiting' /\ Steady'
  BY <1>2 DEF FlowInv
<1>5. Waiting /\ Steady
  BY <1>3 DEF FlowInv, Calm
<1>6. /\ \A u \in Tasks : task[u].pc # "idle" => task[u].dep \in Deps \ {d}
      /\ holder # t /\ d # active
  BY <1>3, <1>4, <1>5, DeploymentAssumption DEF Waiting, IInv, TypeOK, Points, Working,
     FlowPoints, Placing, Trying, Promoted
<1>7. Waiting'
  <2>1. holder \in Tasks \cup {None}
    BY DEF IInv, TypeOK
  <2>2. holder' # None => task'[holder'].pc \in FlowPoints
    BY <1>1, <1>3, <1>5, <1>6, <2>1 DEF Waiting, Slots
  <2>3. \A u \in Tasks : task'[u].pc # "idle" =>
          /\ task'[u].kind \in {"image", "build"}
          /\ task'[u].pc = "guard" \/ (holder' = u /\ task'[u].pc \in FlowPoints)
          /\ row'[task'[u].dep] # "none"
    BY <1>1, <1>3, <1>4, <1>5, <1>6 DEF Waiting, Slots
  <2>4. \A u, v \in Tasks :
          task'[u].pc # "idle" /\ task'[v].pc # "idle" /\ task'[u].dep = task'[v].dep => u = v
    BY <1>1, <1>5, <1>6 DEF Waiting, Slots
  <2> QED
    BY <2>2, <2>3, <2>4 DEF Waiting
<1>8. \A S : (RunAmong(S) => RunAmong(S)') /\ (DrainAmong(S) => DrainAmong(S)')
  BY <1>3, <1>4 DEF RunAmong, DrainAmong, Runs, Drained
<1>9. \A u \in Tasks : Flow(u)'
  <2> SUFFICES ASSUME NEW u \in Tasks PROVE Flow(u)'
    OBVIOUS
  <2>1. CASE u = t
    BY <1>1, <1>3, <1>6, <2>1 DEF Flow, Placing, Trying, Promoted
  <2>2. CASE u # t
    <3>1. Flow(u) /\ task'[u] = task[u]
      BY <1>1, <1>5, <2>2 DEF Steady, Slots
    <3>2. \A e : Runs(e)' <=> Runs(e)
      BY <1>3 DEF Runs
    <3> QED
      BY <1>3, <1>8, <3>1, <3>2 DEF Flow
  <2> QED
    BY <2>1, <2>2
<1>10. Steady'
  BY <1>3, <1>5, <1>8, <1>9 DEF Steady, Runs
<1> QED
  BY <1>7, <1>10

(* A waiting task is given the guard, or sent away. *)
LEMMA TakeGuardFlows ==
  ASSUME IInv, FlowInv, NEW t \in Tasks, TakeGuard(t)
  PROVE  FlowInv'
<1>1. /\ \A u \in Slots : u # t => task'[u] = task[u]
      /\ task'[t].pc = AfterGuard(task[t].kind) /\ task[t].pc = "guard"
      /\ task'[t].dep = task[t].dep /\ task'[t].kind = task[t].kind
  BY DEF TakeGuard, Goto, IInv, TypeOK, TaskRecords, Slots
<1>2. NeverDraining'
  BY <1>1, DeploymentAssumption DEF FlowInv, NeverDraining, Slots
<1>3. UNCHANGED <<row, job, active, vm, resumed, rare>> /\ holder = None /\ holder' = t
  BY DEF TakeGuard, TryStartFlow, store
<1> SUFFICES ASSUME Calm' PROVE Waiting' /\ Steady'
  BY <1>2 DEF FlowInv
<1>4. Waiting /\ Steady /\ t # None
  BY <1>3, DeploymentAssumption DEF FlowInv, Calm
<1>5. task'[t].pc \in {"schedule", "build"}
  BY <1>1, <1>4 DEF Waiting, AfterGuard
<1>6. Waiting'
  <2>1. task'[t].pc \in FlowPoints /\ task'[t].pc # "guard"
    BY <1>5 DEF FlowPoints, Placing
  <2>2. \A u \in Tasks : task[u].pc # "idle" =>
          /\ task[u].kind \in {"image", "build"} /\ row[task[u].dep] # "none"
          /\ task[u].pc = "guard"
    BY <1>3, <1>4, DeploymentAssumption DEF Waiting
  <2>3. \A u \in Tasks : task'[u].pc # "idle" =>
          /\ task'[u].kind \in {"image", "build"}
          /\ task'[u].pc = "guard" \/ (holder' = u /\ task'[u].pc \in FlowPoints)
          /\ row'[task'[u].dep] # "none"
    <3>1. ASSUME NEW u \in Tasks, u # t, task'[u].pc # "idle"
          PROVE  /\ task'[u].kind \in {"image", "build"} /\ task'[u].pc = "guard"
                 /\ row'[task'[u].dep] # "none"
      BY <1>1, <1>3, <2>2, <3>1 DEF Slots
    <3>2. task'[t].kind \in {"image", "build"} /\ row'[task'[t].dep] # "none"
      BY <1>1, <1>3, <2>2
    <3> QED
      BY <1>3, <2>1, <3>1, <3>2
  <2>4. \A u \in Tasks : task'[u].dep = task[u].dep /\ (task[u].pc = "idle" => task'[u].pc = "idle")
    BY <1>1 DEF Slots
  <2>5. \A u, v \in Tasks :
          task'[u].pc # "idle" /\ task'[v].pc # "idle" /\ task'[u].dep = task'[v].dep => u = v
    BY <1>4, <2>4 DEF Waiting
  <2> QED
    BY <1>3, <2>1, <2>3, <2>5 DEF Waiting
<1>7. \A S : (RunAmong(S) => RunAmong(S)') /\ (DrainAmong(S) => DrainAmong(S)')
  BY <1>3 DEF RunAmong, DrainAmong, Runs, Drained
<1>8. \A u \in Tasks : Flow(u)'
  <2> SUFFICES ASSUME NEW u \in Tasks PROVE Flow(u)'
    OBVIOUS
  <2>1. CASE u = t
    <3>1. Flow(t) /\ RunAmong({active}) /\ DrainAmong({})
      BY <1>3, <1>4 DEF Steady
    <3> QED
      BY <1>1, <1>3, <1>5, <1>7, <2>1, <3>1 DEF Flow, Placing, Trying, Promoted
  <2>2. CASE u # t
    <3>1. Flow(u) /\ task'[u] = task[u]
      BY <1>1, <1>4, <2>2 DEF Steady, Slots
    <3>2. \A e : Runs(e)' <=> Runs(e)
      BY <1>3 DEF Runs
    <3> QED
      BY <1>3, <1>7, <3>1, <3>2 DEF Flow
  <2> QED
    BY <2>1, <2>2
<1>9. Steady'
  BY <1>3, <1>4, <1>8 DEF Steady, Runs
<1> QED
  BY <1>6, <1>9

(* It is sent away, and ends. *)
LEMMA GuardRefusedFlows ==
  ASSUME IInv, FlowInv, NEW t \in Tasks, GuardRefused(t)
  PROVE  FlowInv'
<1>1. /\ \A u \in Slots : u # t => task'[u] = task[u]
      /\ task'[t] = Idle /\ task[t].pc = "guard" /\ Idle.pc = "idle"
  BY DEF GuardRefused, End, Idle, IInv, TypeOK, Slots
<1>2. NeverDraining'
  BY <1>1, DeploymentAssumption DEF FlowInv, NeverDraining, Slots
<1> SUFFICES ASSUME Calm' PROVE Waiting' /\ Steady'
  BY <1>2 DEF FlowInv
<1>3. UNCHANGED <<row, job, active, vm, resumed, rare>> /\ holder # None
  BY DEF GuardRefused, store
<1>4. Waiting /\ Steady
  BY <1>3 DEF FlowInv, Calm
<1>5. holder # t
  BY <1>1, <1>3, <1>4 DEF Waiting, FlowPoints, Placing, Trying, Promoted
<1>6. holder' = holder /\ holder \in Tasks
  BY <1>3, <1>5 DEF GuardRefused, End, IInv, TypeOK
<1>7. Waiting'
  BY <1>1, <1>3, <1>4, <1>5, <1>6 DEF Waiting, Slots
<1>8. \A S : (RunAmong(S) => RunAmong(S)') /\ (DrainAmong(S) => DrainAmong(S)')
  BY <1>3 DEF RunAmong, DrainAmong, Runs, Drained
<1>9. \A u \in Tasks : Flow(u)'
  <2> SUFFICES ASSUME NEW u \in Tasks PROVE Flow(u)'
    OBVIOUS
  <2>1. CASE u = t
    BY <1>1, <2>1 DEF Flow, Placing, Trying, Promoted
  <2>2. CASE u # t
    <3>1. Flow(u) /\ task'[u] = task[u]
      BY <1>1, <1>4, <2>2 DEF Steady, Slots
    <3>2. \A e : Runs(e)' <=> Runs(e)
      BY <1>3 DEF Runs
    <3> QED
      BY <1>3, <1>8, <3>1, <3>2 DEF Flow
  <2> QED
    BY <2>1, <2>2
<1>10. Steady'
  BY <1>3, <1>4, <1>6, <1>9 DEF Steady, Runs
<1> QED
  BY <1>7, <1>10


(* A listener lists the targets. *)
LEMMA ListTargetsAside ==
  ASSUME IInv, FlowInv, NEW l \in Listeners, ListTargets(l)
  PROVE  FlowInv'
<1>1. l \in Slots /\ l \notin Tasks /\ task[l].kind = "sync"
  BY DeploymentAssumption DEF Slots, IInv, Points, Listening
<1>2. /\ \A u \in Slots : u # l => task'[u] = task[u]
      /\ UNCHANGED <<active, vm, resumed>> /\ job' = job
  BY <1>1 DEF ListTargets, store, api, IInv, TypeOK
<1>3. holder' = holder
  BY <1>1, DeploymentAssumption DEF ListTargets, store, api, IInv, TypeOK
<1>4. NeverDraining'
  BY <1>1, <1>2, DeploymentAssumption DEF ListTargets, store, api, IInv, TypeOK, TaskRecords,
     FlowInv, NeverDraining, Slots
<1>5. (Calm' => Calm) /\ (rare' = {} => rare = {})
  BY Noted DEF ListTargets, store, api, Calm
<1>6. \A e \in Deps : (row[e] # "none" => row'[e] # "none") /\ (Drained(e) => Drained(e)')
  BY <1>1 DEF ListTargets, store, Drained, IInv, TypeOK, FlowInv, NeverDraining
<1> QED
  BY <1>1, <1>2, <1>3, <1>4, <1>5, <1>6, Aside, DeploymentAssumption DEF Slots

(* It sends them. *)
LEMMA SendTargetsAside ==
  ASSUME IInv, FlowInv, NEW l \in Listeners, SendTargets(l)
  PROVE  FlowInv'
<1>1. l \in Slots /\ l \notin Tasks /\ task[l].kind = "sync"
  BY DeploymentAssumption DEF Slots, IInv, Points, Listening
<1>2. /\ \A u \in Slots : u # l => task'[u] = task[u]
      /\ UNCHANGED <<active, vm, resumed>> /\ job' = job
  BY <1>1 DEF SendTargets, AfterSend, Drains, Scales, Previous, End, Idle, store, IInv, TypeOK
<1>3. holder' = holder
  BY <1>1, DeploymentAssumption DEF SendTargets, AfterSend, Drains, Scales, Previous, End, Idle,
     store, IInv, TypeOK
<1>4. NeverDraining'
  BY <1>1, <1>2, DeploymentAssumption DEF SendTargets, AfterSend, Drains, Scales, Previous, End,
     Idle, store, IInv, TypeOK, TaskRecords, FlowInv, NeverDraining, Slots
<1>5. (Calm' => Calm) /\ (rare' = {} => rare = {})
  BY Noted DEF SendTargets, store, Calm
<1>6. \A e \in Deps : (row[e] # "none" => row'[e] # "none") /\ (Drained(e) => Drained(e)')
  BY <1>1 DEF SendTargets, store, Drained, IInv, TypeOK, FlowInv, NeverDraining
<1> QED
  BY <1>1, <1>2, <1>3, <1>4, <1>5, <1>6, Aside, DeploymentAssumption DEF Slots

(* The router has newer ones. *)
LEMMA SendOvertakenAside ==
  ASSUME IInv, FlowInv, NEW l \in Listeners, SendOvertaken(l)
  PROVE  FlowInv'
<1>1. l \in Slots /\ l \notin Tasks /\ task[l].kind = "sync"
  BY DeploymentAssumption DEF Slots, IInv, Points, Listening
<1>2. /\ \A u \in Slots : u # l => task'[u] = task[u]
      /\ UNCHANGED <<active, vm, resumed>> /\ job' = job
  BY <1>1 DEF SendOvertaken, AfterSend, Drains, Scales, Previous, End, Idle, store, IInv, TypeOK
<1>3. holder' = holder
  BY <1>1, DeploymentAssumption DEF SendOvertaken, AfterSend, Drains, Scales, Previous, End,
     Idle, store, IInv, TypeOK
<1>4. NeverDraining'
  BY <1>1, <1>2, DeploymentAssumption DEF SendOvertaken, AfterSend, Drains, Scales, Previous,
     End, Idle, store, IInv, TypeOK, TaskRecords, FlowInv, NeverDraining, Slots
<1>5. (Calm' => Calm) /\ (rare' = {} => rare = {})
  BY Noted DEF SendOvertaken, store, Calm
<1>6. \A e \in Deps : (row[e] # "none" => row'[e] # "none") /\ (Drained(e) => Drained(e)')
  BY <1>1 DEF SendOvertaken, store, Drained, IInv, TypeOK, FlowInv, NeverDraining
<1> QED
  BY <1>1, <1>2, <1>3, <1>4, <1>5, <1>6, Aside, DeploymentAssumption DEF Slots

(* It has read the row. *)
LEMMA ReadRowAside ==
  ASSUME IInv, FlowInv, NEW l \in Listeners, ReadRow(l)
  PROVE  FlowInv'
<1>1. l \in Slots /\ l \notin Tasks /\ task[l].kind = "sync"
  BY DeploymentAssumption DEF Slots, IInv, Points, Listening
<1>2. /\ \A u \in Slots : u # l => task'[u] = task[u]
      /\ UNCHANGED <<active, vm, resumed>> /\ job' = job
  BY <1>1 DEF ReadRow, Decide, Idle, store, IInv, TypeOK
<1>3. holder' = holder
  BY <1>1, DeploymentAssumption DEF ReadRow, Decide, Idle, store, IInv, TypeOK
<1>4. NeverDraining'
  <2>1. task[l].status # "DRAINING"
    BY DEF ReadRow, FlowInv, NeverDraining
  <2>2. PICK s : s = task[l].status
    OBVIOUS
  <2>3. task'[l].pc = "idle" \/ (task'[l].pc = "apply" /\ task'[l].status \in {s, "none"})
    BY <1>1, <2>2 DEF ReadRow, Decide, Idle, IInv, TypeOK, TaskRecords
  <2> QED
    BY <1>1, <1>2, <2>1, <2>2, <2>3, DeploymentAssumption DEF FlowInv, NeverDraining, Slots
<1>5. (Calm' => Calm) /\ (rare' = {} => rare = {})
  BY Noted DEF ReadRow, store, Calm
<1>6. \A e \in Deps : (row[e] # "none" => row'[e] # "none") /\ (Drained(e) => Drained(e)')
  BY <1>1 DEF ReadRow, store, Drained, IInv, TypeOK, FlowInv, NeverDraining
<1> QED
  BY <1>1, <1>2, <1>3, <1>4, <1>5, <1>6, Aside, DeploymentAssumption DEF Slots

(* It has read the job's status. *)
LEMMA ReadJobAside ==
  ASSUME IInv, FlowInv, NEW l \in Listeners, ReadJob(l)
  PROVE  FlowInv'
<1>1. l \in Slots /\ l \notin Tasks /\ task[l].kind = "sync"
  BY DeploymentAssumption DEF Slots, IInv, Points, Listening
<1>2. /\ \A u \in Slots : u # l => task'[u] = task[u]
      /\ UNCHANGED <<active, vm, resumed>> /\ job' = job
  BY <1>1 DEF ReadJob, Decide, Idle, store, IInv, TypeOK
<1>3. holder' = holder
  BY <1>1, DeploymentAssumption DEF ReadJob, Decide, Idle, store, IInv, TypeOK
<1>4. NeverDraining'
  <2>1. StatusName(task[l].dep) # "DRAINING"
    BY DEF StatusName
  <2>2. PICK s : s = StatusName(task[l].dep)
    OBVIOUS
  <2>3. task'[l].pc = "idle" \/ (task'[l].pc = "apply" /\ task'[l].status \in {s, "none"})
    BY <1>1, <2>2 DEF ReadJob, Decide, Idle, IInv, TypeOK, TaskRecords
  <2> QED
    BY <1>1, <1>2, <2>1, <2>2, <2>3, DeploymentAssumption DEF FlowInv, NeverDraining, Slots
<1>5. (Calm' => Calm) /\ (rare' = {} => rare = {})
  BY Noted DEF ReadJob, store, Calm
<1>6. \A e \in Deps : (row[e] # "none" => row'[e] # "none") /\ (Drained(e) => Drained(e)')
  BY <1>1 DEF ReadJob, store, Drained, IInv, TypeOK, FlowInv, NeverDraining
<1> QED
  BY <1>1, <1>2, <1>3, <1>4, <1>5, <1>6, Aside, DeploymentAssumption DEF Slots

(* It applies the update. *)
LEMMA ApplyUpdateAside ==
  ASSUME IInv, FlowInv, NEW l \in Listeners, ApplyUpdate(l)
  PROVE  FlowInv'
<1>1. l \in Slots /\ l \notin Tasks /\ task[l].kind = "sync"
  BY DeploymentAssumption DEF Slots, IInv, Points, Listening
<1>2. /\ \A u \in Slots : u # l => task'[u] = task[u]
      /\ UNCHANGED <<active, vm, resumed>> /\ job' = job
  BY <1>1 DEF ApplyUpdate, SetStatus, Goto, api, IInv, TypeOK
<1>3. holder' = holder
  BY <1>1, DeploymentAssumption DEF ApplyUpdate, SetStatus, Goto, api, IInv, TypeOK
<1>4. NeverDraining'
  BY <1>1, <1>2, DeploymentAssumption DEF ApplyUpdate, SetStatus, Goto, api, IInv, TypeOK,
     TaskRecords, FlowInv, NeverDraining, Slots
<1>5. (Calm' => Calm) /\ (rare' = {} => rare = {})
  BY Noted DEF ApplyUpdate, api, Calm
<1>6. \A e \in Deps : (row[e] # "none" => row'[e] # "none") /\ (Drained(e) => Drained(e)')
  BY <1>1 DEF ApplyUpdate, SetStatus, Drained, IInv, TypeOK, FlowInv, NeverDraining
<1> QED
  BY <1>1, <1>2, <1>3, <1>4, <1>5, <1>6, Aside, DeploymentAssumption DEF Slots

(* An update is received. *)
LEMMA HearAside ==
  ASSUME IInv, FlowInv, NEW l \in Listeners, NEW d \in Deps, Hear(l, d)
  PROVE  FlowInv'
<1>1. l \in Slots /\ l \notin Tasks /\ task[l].kind = "sync"
  BY DeploymentAssumption DEF Slots, IInv, Points, Listening
<1>2. /\ \A u \in Slots : u # l => task'[u] = task[u]
      /\ UNCHANGED <<active, vm, resumed>> /\ job' = job
  BY <1>1 DEF Hear, Idle, store, api, IInv, TypeOK
<1>3. holder' = holder
  BY <1>1, DeploymentAssumption DEF Hear, Idle, store, api, IInv, TypeOK
<1>4. NeverDraining'
  BY <1>1, <1>2, DeploymentAssumption DEF Hear, Idle, store, api, StatusName, IInv, TypeOK,
     TaskRecords, FlowInv, NeverDraining, Slots
<1>5. (Calm' => Calm) /\ (rare' = {} => rare = {})
  BY Noted DEF Hear, store, api, Calm
<1>6. \A e \in Deps : (row[e] # "none" => row'[e] # "none") /\ (Drained(e) => Drained(e)')
  BY <1>1 DEF Hear, store, Drained, IInv, TypeOK, FlowInv, NeverDraining
<1> QED
  BY <1>1, <1>2, <1>3, <1>4, <1>5, <1>6, Aside, DeploymentAssumption DEF Slots

(* An update of a build is received. *)
LEMMA HearPendingAside ==
  ASSUME IInv, FlowInv, NEW l \in Listeners, NEW d \in Deps, HearPending(l, d)
  PROVE  FlowInv'
<1>1. l \in Slots /\ l \notin Tasks /\ task[l].kind = "sync"
  BY DeploymentAssumption DEF Slots, IInv, Points, Listening
<1>2. /\ \A u \in Slots : u # l => task'[u] = task[u]
      /\ UNCHANGED <<active, vm, resumed>> /\ job' = job
  BY <1>1 DEF HearPending, Idle, store, IInv, TypeOK
<1>3. holder' = holder
  BY <1>1, DeploymentAssumption DEF HearPending, Idle, store, IInv, TypeOK
<1>4. NeverDraining'
  BY <1>1, <1>2, DeploymentAssumption DEF HearPending, Idle, store, IInv, TypeOK, TaskRecords,
     FlowInv, NeverDraining, Slots
<1>5. (Calm' => Calm) /\ (rare' = {} => rare = {})
  BY Noted DEF HearPending, store, Calm
<1>6. \A e \in Deps : (row[e] # "none" => row'[e] # "none") /\ (Drained(e) => Drained(e)')
  BY <1>1 DEF HearPending, store, Drained, IInv, TypeOK, FlowInv, NeverDraining
<1> QED
  BY <1>1, <1>2, <1>3, <1>4, <1>5, <1>6, Aside, DeploymentAssumption DEF Slots

(* A row is to be synchronised. *)
LEMMA PollAside ==
  ASSUME IInv, FlowInv, NEW l \in Listeners, NEW d \in Deps, Poll(l, d)
  PROVE  FlowInv'
<1>1. l \in Slots /\ l \notin Tasks /\ task[l].kind = "sync"
  BY DeploymentAssumption DEF Slots, IInv, Points, Listening
<1>2. /\ \A u \in Slots : u # l => task'[u] = task[u]
      /\ UNCHANGED <<active, vm, resumed>> /\ job' = job
  BY <1>1 DEF Poll, Idle, store, api, IInv, TypeOK
<1>3. holder' = holder
  BY <1>1, DeploymentAssumption DEF Poll, Idle, store, api, IInv, TypeOK
<1>4. NeverDraining'
  BY <1>1, <1>2, DeploymentAssumption DEF Poll, Idle, store, api, IInv, TypeOK, TaskRecords,
     FlowInv, NeverDraining, Slots
<1>5. (Calm' => Calm) /\ (rare' = {} => rare = {})
  BY Noted DEF Poll, store, api, Calm
<1>6. \A e \in Deps : (row[e] # "none" => row'[e] # "none") /\ (Drained(e) => Drained(e)')
  BY <1>1 DEF Poll, store, Drained, IInv, TypeOK, FlowInv, NeverDraining
<1> QED
  BY <1>1, <1>2, <1>3, <1>4, <1>5, <1>6, Aside, DeploymentAssumption DEF Slots


(* Rare events end the calm. *)
LEMMA RareFlows ==
  ASSUME IInv, FlowInv,
         \/ \E t \in Slots : ScheduleUnanswered(t) \/ CallFails(t)
         \/ \E t \in Tasks, d \in Deps :
              Activate(t, d) \/ \E kind \in {"pause", "stop", "start"} : Manual(t, d, kind)
         \/ \E d \in Deps : VmFails(d) \/ DeleteRecord(d)
         \/ Restart
  PROVE  FlowInv'
<1>1. ~Calm'
  BY Noted DEF ScheduleUnanswered, CallFails, Abort, Activate, Manual, VmFails, DeleteRecord,
     Restart
<1>2. ASSUME NEW t \in Slots, ScheduleUnanswered(t) \/ CallFails(t)
      PROVE  NeverDraining'
  BY <1>2 DEF ScheduleUnanswered, CallFails, Abort, End, Idle, IInv, TypeOK, FlowInv,
     NeverDraining, Slots
<1>3. ASSUME NEW t \in Tasks, NEW d \in Deps, NEW kind \in {"pause", "stop", "start"},
             Activate(t, d) \/ Manual(t, d, kind)
      PROVE  NeverDraining'
  <2>1. \A u \in Slots : u # t => task'[u] = task[u]
    BY <1>3 DEF Activate, Manual, IInv, TypeOK
  <2> QED
    BY <2>1, DeploymentAssumption DEF FlowInv, NeverDraining, Slots
<1>4. ASSUME NEW d \in Deps, VmFails(d) \/ DeleteRecord(d)
      PROVE  NeverDraining'
  BY <1>4 DEF VmFails, DeleteRecord, FlowInv, NeverDraining
<1>5. ASSUME Restart
      PROVE  NeverDraining'
  <2>1. \A l \in Listeners : task'[l].pc = "list"
    BY <1>5 DEF Restart, Idle, Slots
  <2> QED
    BY <2>1 DEF NeverDraining
<1>6. NeverDraining'
  <2>1. CASE \E t \in Slots : ScheduleUnanswered(t) \/ CallFails(t)
    BY <2>1, <1>2
  <2>2. CASE \E t \in Tasks, d \in Deps :
               Activate(t, d) \/ \E kind \in {"pause", "stop", "start"} : Manual(t, d, kind)
    <3>1. CASE \E t \in Tasks, d \in Deps : Activate(t, d)
      BY <3>1, <1>3
    <3>2. CASE \E t \in Tasks, d \in Deps, kind \in {"pause", "stop", "start"} : Manual(t, d, kind)
      BY <3>2, <1>3
    <3> QED
      BY <2>2, <3>1, <3>2
  <2>3. CASE \E d \in Deps : VmFails(d) \/ DeleteRecord(d)
    BY <2>3, <1>4
  <2> QED
    BY <2>1, <2>2, <2>3, <1>5
<1> QED
  BY <1>1, <1>6, NotCalm

(* Without requests of a user or restarts no task resumes, recovers or takes a build up *)
(* again, and nothing a user has asked for is under way.                                 *)
LEMMA UserFlows ==
  ASSUME IInv, FlowInv,
         \/ \E t \in Slots : ResumeForFlow(t) \/ Recreated(t) \/ ManualStep(t)
         \/ \E t \in Tasks, d \in Deps : ResumeBuild(t, d)
  PROVE  FlowInv'
<1>1. ASSUME NEW t \in Slots, ResumeForFlow(t) \/ Recreated(t) \/ ManualStep(t)
      PROVE  FlowInv'
  <2>1. t \in Tasks /\ task[t].pc \in {"resume", "vm", "row"}
    BY <1>1 DEF ResumeForFlow, Recreated, ManualStep, ManualVm, ManualRefused, ManualRow,
       IInv, Points, Listening, ListenerPoints, Slots
  <2>2. (\A u \in Slots : u # t => task'[u] = task[u]) /\ rare' = rare
    BY <1>1 DEF ResumeForFlow, Recreated, ManualStep, ManualVm, ManualRefused, ManualRow,
       Goto, End, api, IInv, TypeOK
  <2>3. NeverDraining'
    BY <2>1, <2>2, DeploymentAssumption DEF FlowInv, NeverDraining, Slots
  <2>4. ~Calm
    BY <2>1 DEF FlowInv, Waiting, FlowPoints, Placing, Trying, Promoted
  <2> QED
    BY <2>2, <2>3, <2>4, NotCalm DEF Calm
<1>2. ASSUME NEW t \in Tasks, NEW d \in Deps, ResumeBuild(t, d)
      PROVE  FlowInv'
  <2>1. (\A u \in Slots : u # t => task'[u] = task[u]) /\ rare' = rare /\ resumed # {}
    BY <1>2 DEF ResumeBuild, IInv, TypeOK
  <2>2. NeverDraining'
    BY <2>1, DeploymentAssumption DEF FlowInv, NeverDraining, Slots
  <2> QED
    BY <2>1, <2>2, NotCalm DEF FlowInv, Steady, Calm
<1> QED
  BY <1>1, <1>2


(* Every step keeps the invariant of the flow. *)
LEMMA FlowKept ==
  IInv /\ FlowInv /\ RouteInv /\ [Next]_vars => FlowInv'
<1> SUFFICES ASSUME IInv, FlowInv, RouteInv, [Next]_vars PROVE FlowInv'
  OBVIOUS
<1>1. ASSUME NEW t \in Slots, TakeGuard(t) PROVE FlowInv'
  BY <1>1, TakeGuardFlows DEF Slots, IInv, Points, Listening, ListenerPoints, Working, TakeGuard
<1>2. ASSUME NEW t \in Slots, GuardRefused(t) PROVE FlowInv'
  BY <1>2, GuardRefusedFlows DEF Slots, IInv, Points, Listening, ListenerPoints, Working,
     GuardRefused
<1>3. ASSUME NEW t \in Slots, TriggerBuild(t) PROVE FlowInv'
  BY <1>3, TriggerBuildFlows DEF Slots, IInv, Points, Listening, ListenerPoints, Working,
     TriggerBuild
<1>4. ASSUME NEW t \in Slots, BuildAccepted(t) PROVE FlowInv'
  BY <1>4, BuildAcceptedFlows DEF Slots, IInv, Points, Listening, ListenerPoints, Working,
     BuildAccepted
<1>5. ASSUME NEW t \in Slots, BuildRefused(t) PROVE FlowInv'
  BY <1>5, BuildRefusedFlows DEF Slots, IInv, Points, Listening, ListenerPoints, Working,
     BuildRefused
<1>6. ASSUME NEW t \in Slots, BuildSucceeded(t) PROVE FlowInv'
  BY <1>6, BuildSucceededFlows DEF Slots, IInv, Points, Listening, ListenerPoints, Working,
     BuildSucceeded
<1>7. ASSUME NEW t \in Slots, DeployBuilt(t) PROVE FlowInv'
  BY <1>7, DeployBuiltFlows DEF Slots, IInv, Points, Listening, ListenerPoints, Working,
     DeployBuilt
<1>8. ASSUME NEW t \in Slots, BuildFailed(t) PROVE FlowInv'
  BY <1>8, BuildFailedFlows DEF Slots, IInv, Points, Listening, ListenerPoints, Working,
     BuildFailed
<1>9. ASSUME NEW t \in Slots, Schedule(t) PROVE FlowInv'
  BY <1>9, ScheduleFlows DEF Slots, IInv, Points, Listening, ListenerPoints, Working, Schedule
<1>10. ASSUME NEW t \in Slots, Scheduled(t) PROVE FlowInv'
  BY <1>10, ScheduledFlows DEF Slots, IInv, Points, Listening, ListenerPoints, Working,
     Scheduled
<1>11. ASSUME NEW t \in Slots, MarkDraining(t) PROVE FlowInv'
  BY <1>11, MarkDrainingFlows DEF Slots, IInv, Points, Listening, ListenerPoints, Working,
     MarkDraining
<1>12. ASSUME NEW t \in Slots, Healthy(t) PROVE FlowInv'
  BY <1>12, HealthyFlows DEF Slots, IInv, Points, Listening, ListenerPoints, Working, Healthy
<1>13. ASSUME NEW t \in Slots, Unhealthy(t) PROVE FlowInv'
  BY <1>13, UnhealthyFlows DEF Slots, IInv, Points, Listening, ListenerPoints, Working,
     Unhealthy
<1>14. ASSUME NEW t \in Slots, UndoDraining(t) PROVE FlowInv'
  BY <1>14, UndoDrainingFlows DEF Slots, IInv, Points, Listening, ListenerPoints, Working,
     UndoDraining
<1>15. ASSUME NEW t \in Slots, UndoVm(t) PROVE FlowInv'
  BY <1>15, UndoVmFlows DEF Slots, IInv, Points, Listening, ListenerPoints, Working, UndoVm
<1>16. ASSUME NEW t \in Slots, UndoRow(t) PROVE FlowInv'
  BY <1>16, UndoRowFlows DEF Slots, IInv, Points, Listening, ListenerPoints, Working, UndoRow
<1>17. ASSUME NEW t \in Slots, Promote(t) PROVE FlowInv'
  BY <1>17, PromoteFlows DEF Slots, IInv, Points, Listening, ListenerPoints, Working, Promote
<1>18. ASSUME NEW t \in Slots, ListTargets(t) PROVE FlowInv'
  BY <1>18, ListTargetsFlows, ListTargetsAside DEF Slots
<1>19. ASSUME NEW t \in Slots, SendTargets(t) PROVE FlowInv'
  BY <1>19, SendTargetsFlows, SendTargetsAside DEF Slots
<1>20. ASSUME NEW t \in Slots, SendOvertaken(t) PROVE FlowInv'
  BY <1>20, SendOvertakenFlows, SendOvertakenAside DEF Slots
<1>21. ASSUME NEW t \in Slots, DrainVm(t) PROVE FlowInv'
  BY <1>21, DrainVmFlows DEF Slots, IInv, Points, Listening, ListenerPoints, Working, DrainVm
<1>22. ASSUME NEW t \in Slots, DrainRow(t) PROVE FlowInv'
  BY <1>22, DrainRowFlows DEF Slots, IInv, Points, Listening, ListenerPoints, Working, DrainRow
<1>23. ASSUME NEW t \in Slots, ScheduleUnanswered(t) PROVE FlowInv'
  BY <1>23, RareFlows
<1>24. ASSUME NEW t \in Slots, CallFails(t) PROVE FlowInv'
  BY <1>24, RareFlows
<1>25. ASSUME NEW t \in Slots, ResumeForFlow(t) PROVE FlowInv'
  BY <1>25, UserFlows
<1>26. ASSUME NEW t \in Slots, Recreated(t) PROVE FlowInv'
  BY <1>26, UserFlows
<1>27. ASSUME NEW t \in Slots, ManualVm(t) PROVE FlowInv'
  BY <1>27, UserFlows DEF ManualStep
<1>28. ASSUME NEW t \in Slots, ManualRefused(t) PROVE FlowInv'
  BY <1>28, UserFlows DEF ManualStep
<1>29. ASSUME NEW t \in Slots, ManualRow(t) PROVE FlowInv'
  BY <1>29, UserFlows DEF ManualStep
<1>30. ASSUME NEW t \in Slots, ReadRow(t) PROVE FlowInv'
  BY <1>30, ReadRowAside DEF Slots, IInv, Points, Listening, ListenerPoints, Working, ReadRow
<1>31. ASSUME NEW t \in Slots, ReadJob(t) PROVE FlowInv'
  BY <1>31, ReadJobAside DEF Slots, IInv, Points, Listening, ListenerPoints, Working, ReadJob
<1>32. ASSUME NEW t \in Slots, ApplyUpdate(t) PROVE FlowInv'
  BY <1>32, ApplyUpdateAside DEF Slots, IInv, Points, Listening, ListenerPoints, Working,
     ApplyUpdate
<1>33. ASSUME NEW t \in Tasks, NEW d \in Deps, NEW kind \in {"image", "build"}, Ask(t, d, kind)
      PROVE FlowInv'
  BY <1>33, AskFlows
<1>34. ASSUME NEW t \in Tasks, NEW d \in Deps, Activate(t, d) PROVE FlowInv'
  BY <1>34, RareFlows
<1>35. ASSUME NEW t \in Tasks, NEW d \in Deps, NEW kind \in {"pause", "stop", "start"}, Manual(t,
      d, kind) PROVE FlowInv'
  BY <1>35, RareFlows
<1>36. ASSUME NEW t \in Tasks, NEW d \in Deps, ResumeBuild(t, d) PROVE FlowInv'
  BY <1>36, UserFlows
<1>37. ASSUME NEW t \in Listeners, NEW d \in Deps, Hear(t, d) PROVE FlowInv'
  BY <1>37, HearAside
<1>38. ASSUME NEW t \in Listeners, NEW d \in Deps, HearPending(t, d) PROVE FlowInv'
  BY <1>38, HearPendingAside
<1>39. ASSUME NEW t \in Listeners, NEW d \in Deps, Poll(t, d) PROVE FlowInv'
  BY <1>39, PollAside
<1>40. ASSUME NEW d \in Deps, VmFails(d) PROVE FlowInv'
  BY <1>40, RareFlows
<1>41. ASSUME NEW d \in Deps, DeleteRecord(d) PROVE FlowInv'
  BY <1>41, RareFlows
<1>42. CASE Restart
  BY <1>42, RareFlows
<1>43. ASSUME NEW t \in Slots, ScaleAfter(t) PROVE FlowInv'
  BY <1>43, ScaleAfterFlows DEF Slots, IInv, Points, Listening, ListenerPoints, Working,
     ScaleAfter
<1>44. ASSUME NEW d \in Deps, DeleteSurplus(d) PROVE FlowInv'
  BY <1>44, DeleteSurplusFlows
<1>45. CASE Reconcile
  BY <1>45, ReconcileFlows
<1>46. CASE UNCHANGED vars
  BY <1>46 DEF vars, FlowInv, NeverDraining, Calm, Waiting, Steady, Flow, RunAmong, DrainAmong,
     Runs, Drained
<1> QED
  BY <1>1, <1>2, <1>3, <1>4, <1>5, <1>6, <1>7, <1>8, <1>9, <1>10, <1>11, <1>12, <1>13, <1>14,
     <1>15, <1>16, <1>17, <1>18, <1>19, <1>20, <1>21, <1>22, <1>23, <1>24, <1>25, <1>26, <1>27,
     <1>28, <1>29, <1>30, <1>31, <1>32, <1>33, <1>34, <1>35, <1>36, <1>37, <1>38, <1>39, <1>40,
     <1>41, <1>42, <1>43, <1>44, <1>45, <1>46 DEF Next, Step, BuildStep, FlowStep, ManualStep, ListenerStep


(* A step that sends nothing and promotes nothing. *)
LEMMA RouteStays ==
  ASSUME RouteInv, rare' = {} => rare = {}, routed' = routed, active' = active,
         \A u \in Tasks : /\ Sending(u)' <=> Sending(u)
                          /\ Sending(u) => task'[u].seen = task[u].seen
  PROVE  RouteInv'
BY DEF RouteInv

(* The holder of the guard is the only task that may be sending. *)
LEMMA OneSender ==
  ASSUME IInv, FlowInv, Calm, NEW t \in Tasks, task[t].pc \notin {"idle", "guard"},
         NEW u \in Tasks, u # t
  PROVE  ~Sending(u)
BY DEF FlowInv, Waiting, Sending


(* Every step keeps the invariant of the routes. *)
LEMMA RouteKept ==
  IInv /\ FlowInv /\ RouteInv /\ [Next]_vars => RouteInv'
<1> SUFFICES ASSUME IInv, FlowInv, RouteInv, [Next]_vars PROVE RouteInv'
  OBVIOUS
<1>1. ASSUME NEW t \in Slots, TakeGuard(t) PROVE RouteInv'
  <2>1. (rare' = {} => rare = {}) /\ routed' = routed /\ active' = active
    BY <1>1, Noted DEF TakeGuard, store
  <2>2. \A u \in Tasks : /\ Sending(u)' <=> Sending(u)
                         /\ Sending(u) => task'[u].seen = task[u].seen
    BY <1>1, DeploymentAssumption DEF TakeGuard, TryStartFlow, Goto, AfterGuard, store,
       Sending, IInv, TypeOK, TaskRecords, Slots, Points, Listening, ListenerPoints, Working
  <2> QED
    BY <2>1, <2>2, RouteStays
<1>2. ASSUME NEW t \in Slots, GuardRefused(t) PROVE RouteInv'
  <2>1. (rare' = {} => rare = {}) /\ routed' = routed /\ active' = active
    BY <1>2, Noted DEF GuardRefused, store
  <2>2. \A u \in Tasks : /\ Sending(u)' <=> Sending(u)
                         /\ Sending(u) => task'[u].seen = task[u].seen
    BY <1>2, DeploymentAssumption DEF GuardRefused, End, Idle, store, Sending, IInv, TypeOK,
       TaskRecords, Slots
  <2> QED
    BY <2>1, <2>2, RouteStays
<1>3. ASSUME NEW t \in Slots, TriggerBuild(t) PROVE RouteInv'
  <2>1. (rare' = {} => rare = {}) /\ routed' = routed /\ active' = active
    BY <1>3, Noted DEF TriggerBuild
  <2>2. \A u \in Tasks : /\ Sending(u)' <=> Sending(u)
                         /\ Sending(u) => task'[u].seen = task[u].seen
    BY <1>3, DeploymentAssumption DEF TriggerBuild, SetStatus, Goto, Sending, IInv, TypeOK,
       TaskRecords, Slots
  <2> QED
    BY <2>1, <2>2, RouteStays
<1>4. ASSUME NEW t \in Slots, BuildAccepted(t) PROVE RouteInv'
  <2>1. (rare' = {} => rare = {}) /\ routed' = routed /\ active' = active
    BY <1>4, Noted DEF BuildAccepted, api
  <2>2. \A u \in Tasks : /\ Sending(u)' <=> Sending(u)
                         /\ Sending(u) => task'[u].seen = task[u].seen
    BY <1>4, DeploymentAssumption DEF BuildAccepted, SetStatus, Goto, api, Sending, IInv,
       TypeOK, TaskRecords, Slots
  <2> QED
    BY <2>1, <2>2, RouteStays
<1>5. ASSUME NEW t \in Slots, BuildRefused(t) PROVE RouteInv'
  <2>1. (rare' = {} => rare = {}) /\ routed' = routed /\ active' = active
    BY <1>5, Noted DEF BuildRefused
  <2>2. \A u \in Tasks : /\ Sending(u)' <=> Sending(u)
                         /\ Sending(u) => task'[u].seen = task[u].seen
    BY <1>5, DeploymentAssumption DEF BuildRefused, SetStatus, End, Idle, Sending, IInv,
       TypeOK, TaskRecords, Slots
  <2> QED
    BY <2>1, <2>2, RouteStays
<1>6. ASSUME NEW t \in Slots, BuildSucceeded(t) PROVE RouteInv'
  <2>1. (rare' = {} => rare = {}) /\ routed' = routed /\ active' = active
    BY <1>6, Noted DEF BuildSucceeded, store
  <2>2. \A u \in Tasks : /\ Sending(u)' <=> Sending(u)
                         /\ Sending(u) => task'[u].seen = task[u].seen
    BY <1>6, DeploymentAssumption DEF BuildSucceeded, End, Idle, store, Sending, IInv, TypeOK,
       TaskRecords, Slots
  <2> QED
    BY <2>1, <2>2, RouteStays
<1>7. ASSUME NEW t \in Slots, DeployBuilt(t) PROVE RouteInv'
  <2>1. (rare' = {} => rare = {}) /\ routed' = routed /\ active' = active
    BY <1>7, Noted DEF DeployBuilt, store
  <2>2. \A u \in Tasks : /\ Sending(u)' <=> Sending(u)
                         /\ Sending(u) => task'[u].seen = task[u].seen
    BY <1>7, DeploymentAssumption DEF DeployBuilt, Goto, TryStartFlow, End, Idle, store,
       Sending, IInv, TypeOK, TaskRecords, Slots
  <2> QED
    BY <2>1, <2>2, RouteStays
<1>8. ASSUME NEW t \in Slots, BuildFailed(t) PROVE RouteInv'
  <2>1. (rare' = {} => rare = {}) /\ routed' = routed /\ active' = active
    BY <1>8, Noted DEF BuildFailed
  <2>2. \A u \in Tasks : /\ Sending(u)' <=> Sending(u)
                         /\ Sending(u) => task'[u].seen = task[u].seen
    BY <1>8, DeploymentAssumption DEF BuildFailed, SetStatus, End, Idle, Sending, IInv,
       TypeOK, TaskRecords, Slots
  <2> QED
    BY <2>1, <2>2, RouteStays
<1>9. ASSUME NEW t \in Slots, Schedule(t) PROVE RouteInv'
  <2>1. (rare' = {} => rare = {}) /\ routed' = routed /\ active' = active
    BY <1>9, Noted DEF Schedule, store, api
  <2>2. \A u \in Tasks : /\ Sending(u)' <=> Sending(u)
                         /\ Sending(u) => task'[u].seen = task[u].seen
    BY <1>9, DeploymentAssumption DEF Schedule, store, api, Sending, IInv, TypeOK,
       TaskRecords, Slots
  <2> QED
    BY <2>1, <2>2, RouteStays
<1>10. ASSUME NEW t \in Slots, Scheduled(t) PROVE RouteInv'
  <2>1. (rare' = {} => rare = {}) /\ routed' = routed /\ active' = active
    BY <1>10, Noted DEF Scheduled
  <2>2. \A u \in Tasks : /\ Sending(u)' <=> Sending(u)
                         /\ Sending(u) => task'[u].seen = task[u].seen
    BY <1>10, DeploymentAssumption DEF Scheduled, SetStatus, End, Idle, Sending, IInv, TypeOK,
       TaskRecords, Slots
  <2> QED
    BY <2>1, <2>2, RouteStays
<1>11. ASSUME NEW t \in Slots, MarkDraining(t) PROVE RouteInv'
  <2>1. (rare' = {} => rare = {}) /\ routed' = routed /\ active' = active
    BY <1>11, Noted DEF MarkDraining, api
  <2>2. \A u \in Tasks : /\ Sending(u)' <=> Sending(u)
                         /\ Sending(u) => task'[u].seen = task[u].seen
    BY <1>11, DeploymentAssumption DEF MarkDraining, SetStatus, api, Sending, IInv, TypeOK,
       TaskRecords, Slots
  <2> QED
    BY <2>1, <2>2, RouteStays
<1>12. ASSUME NEW t \in Slots, Healthy(t) PROVE RouteInv'
  <2>1. (rare' = {} => rare = {}) /\ routed' = routed /\ active' = active
    BY <1>12, Noted DEF Healthy, store, api
  <2>2. \A u \in Tasks : /\ Sending(u)' <=> Sending(u)
                         /\ Sending(u) => task'[u].seen = task[u].seen
    BY <1>12, DeploymentAssumption DEF Healthy, Goto, store, api, Sending, IInv, TypeOK,
       TaskRecords, Slots
  <2> QED
    BY <2>1, <2>2, RouteStays
<1>13. ASSUME NEW t \in Slots, Unhealthy(t) PROVE RouteInv'
  <2>1. (rare' = {} => rare = {}) /\ routed' = routed /\ active' = active
    BY <1>13, Noted DEF Unhealthy, store, api
  <2>2. \A u \in Tasks : /\ Sending(u)' <=> Sending(u)
                         /\ Sending(u) => task'[u].seen = task[u].seen
    BY <1>13, DeploymentAssumption DEF Unhealthy, Goto, store, api, Sending, IInv, TypeOK,
       TaskRecords, Slots
  <2> QED
    BY <2>1, <2>2, RouteStays
<1>14. ASSUME NEW t \in Slots, UndoDraining(t) PROVE RouteInv'
  <2>1. (rare' = {} => rare = {}) /\ routed' = routed /\ active' = active
    BY <1>14, Noted DEF UndoDraining, api
  <2>2. \A u \in Tasks : /\ Sending(u)' <=> Sending(u)
                         /\ Sending(u) => task'[u].seen = task[u].seen
    BY <1>14, DeploymentAssumption DEF UndoDraining, SetStatus, Goto, api, Sending, IInv,
       TypeOK, TaskRecords, Slots
  <2> QED
    BY <2>1, <2>2, RouteStays
<1>15. ASSUME NEW t \in Slots, UndoVm(t) PROVE RouteInv'
  <2>1. (rare' = {} => rare = {}) /\ routed' = routed /\ active' = active
    BY <1>15, Noted DEF UndoVm, PauseJob, store, api
  <2>2. \A u \in Tasks : /\ Sending(u)' <=> Sending(u)
                         /\ Sending(u) => task'[u].seen = task[u].seen
    BY <1>15, DeploymentAssumption DEF UndoVm, PauseJob, Goto, store, api, Sending, IInv,
       TypeOK, TaskRecords, Slots
  <2> QED
    BY <2>1, <2>2, RouteStays
<1>16. ASSUME NEW t \in Slots, UndoRow(t) PROVE RouteInv'
  <2>1. (rare' = {} => rare = {}) /\ routed' = routed /\ active' = active
    BY <1>16, Noted DEF UndoRow
  <2>2. \A u \in Tasks : /\ Sending(u)' <=> Sending(u)
                         /\ Sending(u) => task'[u].seen = task[u].seen
    BY <1>16, DeploymentAssumption DEF UndoRow, SetStatus, End, Idle, Sending, IInv, TypeOK,
       TaskRecords, Slots
  <2> QED
    BY <2>1, <2>2, RouteStays
<1>17. ASSUME NEW t \in Slots, Promote(t) PROVE RouteInv'
  <2> SUFFICES ASSUME rare' = {} PROVE RouteInv'
    BY DEF RouteInv
  <2>1. Calm /\ rare = {} /\ task[t].pc = "promote"
    BY <1>17 DEF Promote, Calm
  <2>2. t \in Tasks /\ Flow(t) /\ row[task[t].dep] # "none"
    BY <2>1, Owner DEF ListenerPoints
  <2>3. task[t].seen = active /\ \A u \in Tasks : ~Sending(u)
    BY <2>1, <2>2, OneSender DEF Flow, Sending
  <2>4. active \in routed /\ routed' = routed
    BY <1>17, <2>1, <2>3 DEF RouteInv, Promote
  <2>5. /\ \A u \in Slots : u # t => task'[u] = task[u]
        /\ task'[t].pc = "list" /\ task'[t].seen = task[t].seen
    BY <1>17, <2>2 DEF Promote, Goto, IInv, TypeOK, TaskRecords
  <2> QED
    BY <2>2, <2>3, <2>4, <2>5 DEF RouteInv, Sending, Slots
<1>18. ASSUME NEW t \in Slots, ListTargets(t) PROVE RouteInv'
  <2>1. (rare' = {} => rare = {}) /\ routed' = routed /\ active' = active
    BY <1>18, Noted DEF ListTargets, store, api
  <2>2. \A u \in Tasks : /\ Sending(u)' <=> Sending(u)
                         /\ Sending(u) => task'[u].seen = task[u].seen
    BY <1>18, DeploymentAssumption DEF ListTargets, store, api, Sending, IInv, TypeOK,
       TaskRecords, Slots
  <2> QED
    BY <2>1, <2>2, RouteStays
<1>19. ASSUME NEW t \in Slots, SendTargets(t) PROVE RouteInv'
  <2> SUFFICES ASSUME rare' = {} PROVE RouteInv'
    BY DEF RouteInv
  <2>1. Calm /\ rare = {} /\ routed' = RunningJobs /\ active' = active /\ task[t].pc = "send"
    BY <1>19, Noted DEF SendTargets, store, Calm
  <2>2. Waiting /\ Steady /\ active \in RunningJobs
    BY <2>1 DEF FlowInv, Steady, Runs, RunningJobs, IInv, TypeOK
  <2>3. \A u \in Slots : u # t => task'[u] = task[u]
    BY <1>19 DEF SendTargets, AfterSend, End, IInv, TypeOK
  <2>4. CASE t \in Tasks
    <3>1. \A u \in Tasks : u # t => ~Sending(u)
      BY <2>1, <2>4, OneSender
    <3>2. task'[t].pc \in {"drain", "scale", "idle"}
      BY <1>19 DEF SendTargets, AfterSend, End, Idle, IInv, TypeOK, TaskRecords
    <3>3. \A u \in Tasks : ~Sending(u)'
      BY <2>3, <3>1, <3>2 DEF Sending, Slots
    <3> QED
      BY <2>1, <2>2, <3>3 DEF RouteInv
  <2>5. CASE t \in Listeners
    <3>1. \A u \in Tasks : Sending(u) => task[u].seen \in RunningJobs
      BY <2>1, <2>2 DEF Steady, Flow, Sending, Promoted, Runs, RunningJobs, IInv, TypeOK
    <3>2. \A u \in Tasks : task'[u] = task[u]
      BY <2>3, <2>5, DeploymentAssumption DEF Slots
    <3> QED
      BY <2>1, <2>2, <3>1, <3>2 DEF RouteInv, Sending
  <2> QED
    BY <2>4, <2>5 DEF Slots
<1>20. ASSUME NEW t \in Slots, SendOvertaken(t) PROVE RouteInv'
  <2>1. rare' # {}
    BY <1>20, Noted DEF SendOvertaken
  <2> QED
    BY <2>1 DEF RouteInv
<1>21. ASSUME NEW t \in Slots, DrainVm(t) PROVE RouteInv'
  <2>1. (rare' = {} => rare = {}) /\ routed' = routed /\ active' = active
    BY <1>21, Noted DEF DrainVm, PauseJob, store, api
  <2>2. \A u \in Tasks : /\ Sending(u)' <=> Sending(u)
                         /\ Sending(u) => task'[u].seen = task[u].seen
    BY <1>21, DeploymentAssumption DEF DrainVm, PauseJob, Previous, Goto, store, api, Sending,
       IInv, TypeOK, TaskRecords, Slots
  <2> QED
    BY <2>1, <2>2, RouteStays
<1>22. ASSUME NEW t \in Slots, DrainRow(t) PROVE RouteInv'
  <2>1. (rare' = {} => rare = {}) /\ routed' = routed /\ active' = active
    BY <1>22, Noted DEF DrainRow
  <2>2. \A u \in Tasks : /\ Sending(u)' <=> Sending(u)
                         /\ Sending(u) => task'[u].seen = task[u].seen
    BY <1>22, DeploymentAssumption DEF DrainRow, SetStatus, Previous, Scales, Goto, End, Idle,
       Sending, IInv, TypeOK, TaskRecords, Slots
  <2> QED
    BY <2>1, <2>2, RouteStays
<1>23. ASSUME NEW t \in Slots, ScheduleUnanswered(t) PROVE RouteInv'
  <2>1. rare' # {}
    BY <1>23, Noted DEF ScheduleUnanswered
  <2> QED
    BY <2>1 DEF RouteInv
<1>24. ASSUME NEW t \in Slots, CallFails(t) PROVE RouteInv'
  <2>1. rare' # {}
    BY <1>24, Noted DEF CallFails, Abort
  <2> QED
    BY <2>1 DEF RouteInv
<1>25. ASSUME NEW t \in Slots, ResumeForFlow(t) PROVE RouteInv'
  <2>1. (rare' = {} => rare = {}) /\ routed' = routed /\ active' = active
    BY <1>25, Noted DEF ResumeForFlow, api, Resumed
  <2>2. \A u \in Tasks : /\ Sending(u)' <=> Sending(u)
                         /\ Sending(u) => task'[u].seen = task[u].seen
    BY <1>25, DeploymentAssumption DEF ResumeForFlow, SetStatus, Goto, api, Sending, IInv,
       TypeOK, TaskRecords, Slots
  <2> QED
    BY <2>1, <2>2, RouteStays
<1>26. ASSUME NEW t \in Slots, Recreated(t) PROVE RouteInv'
  <2>1. (rare' = {} => rare = {}) /\ routed' = routed /\ active' = active
    BY <1>26, Noted DEF Recreated, store
  <2>2. \A u \in Tasks : /\ Sending(u)' <=> Sending(u)
                         /\ Sending(u) => task'[u].seen = task[u].seen
    BY <1>26, DeploymentAssumption DEF Recreated, ScaleApp, ScaleDown, ScaleUp, Template,
       RunningJobs, End, Idle, store, Sending, IInv, TypeOK, TaskRecords, Slots
  <2> QED
    BY <2>1, <2>2, RouteStays
<1>27. ASSUME NEW t \in Slots, ManualVm(t) PROVE RouteInv'
  <2>1. (rare' = {} => rare = {}) /\ routed' = routed /\ active' = active
    BY <1>27, Noted DEF ManualVm, store, api
  <2>2. \A u \in Tasks : /\ Sending(u)' <=> Sending(u)
                         /\ Sending(u) => task'[u].seen = task[u].seen
    BY <1>27, DeploymentAssumption DEF ManualVm, Goto, store, api, Sending, IInv, TypeOK,
       TaskRecords, Slots
  <2> QED
    BY <2>1, <2>2, RouteStays
<1>28. ASSUME NEW t \in Slots, ManualRefused(t) PROVE RouteInv'
  <2>1. (rare' = {} => rare = {}) /\ routed' = routed /\ active' = active
    BY <1>28, Noted DEF ManualRefused, store
  <2>2. \A u \in Tasks : /\ Sending(u)' <=> Sending(u)
                         /\ Sending(u) => task'[u].seen = task[u].seen
    BY <1>28, DeploymentAssumption DEF ManualRefused, End, Idle, store, Sending, IInv, TypeOK,
       TaskRecords, Slots
  <2> QED
    BY <2>1, <2>2, RouteStays
<1>29. ASSUME NEW t \in Slots, ManualRow(t) PROVE RouteInv'
  <2>1. (rare' = {} => rare = {}) /\ routed' = routed /\ active' = active
    BY <1>29, Noted DEF ManualRow
  <2>2. \A u \in Tasks : /\ Sending(u)' <=> Sending(u)
                         /\ Sending(u) => task'[u].seen = task[u].seen
    BY <1>29, DeploymentAssumption DEF ManualRow, SetStatus, End, Idle, Sending, IInv, TypeOK,
       TaskRecords, Slots
  <2> QED
    BY <2>1, <2>2, RouteStays
<1>30. ASSUME NEW t \in Slots, ReadRow(t) PROVE RouteInv'
  <2>1. (rare' = {} => rare = {}) /\ routed' = routed /\ active' = active
    BY <1>30, Noted DEF ReadRow, store
  <2>2. \A u \in Tasks : /\ Sending(u)' <=> Sending(u)
                         /\ Sending(u) => task'[u].seen = task[u].seen
    BY <1>30, DeploymentAssumption DEF ReadRow, Decide, Idle, store, Sending, IInv, TypeOK,
       TaskRecords, Slots, Points, Listening, ListenerPoints, Working
  <2> QED
    BY <2>1, <2>2, RouteStays
<1>31. ASSUME NEW t \in Slots, ReadJob(t) PROVE RouteInv'
  <2>1. (rare' = {} => rare = {}) /\ routed' = routed /\ active' = active
    BY <1>31, Noted DEF ReadJob, store
  <2>2. \A u \in Tasks : /\ Sending(u)' <=> Sending(u)
                         /\ Sending(u) => task'[u].seen = task[u].seen
    BY <1>31, DeploymentAssumption DEF ReadJob, Decide, Idle, store, Sending, IInv, TypeOK,
       TaskRecords, Slots, Points, Listening, ListenerPoints, Working
  <2> QED
    BY <2>1, <2>2, RouteStays
<1>32. ASSUME NEW t \in Slots, ApplyUpdate(t) PROVE RouteInv'
  <2>1. (rare' = {} => rare = {}) /\ routed' = routed /\ active' = active
    BY <1>32, Noted DEF ApplyUpdate, api
  <2>2. \A u \in Tasks : /\ Sending(u)' <=> Sending(u)
                         /\ Sending(u) => task'[u].seen = task[u].seen
    BY <1>32, DeploymentAssumption DEF ApplyUpdate, SetStatus, Goto, api, Sending, IInv,
       TypeOK, TaskRecords, Slots, Points, Listening, ListenerPoints, Working
  <2> QED
    BY <2>1, <2>2, RouteStays
<1>33. ASSUME NEW t \in Tasks, NEW d \in Deps, NEW kind \in {"image", "build"}, Ask(t, d, kind)
      PROVE RouteInv'
  <2>1. (rare' = {} => rare = {}) /\ routed' = routed /\ active' = active
    BY <1>33, Noted DEF Ask, api
  <2>2. \A u \in Tasks : /\ Sending(u)' <=> Sending(u)
                         /\ Sending(u) => task'[u].seen = task[u].seen
    BY <1>33, DeploymentAssumption DEF Ask, Idle, api, Sending, IInv, TypeOK, TaskRecords,
       Slots
  <2> QED
    BY <2>1, <2>2, RouteStays
<1>34. ASSUME NEW t \in Tasks, NEW d \in Deps, Activate(t, d) PROVE RouteInv'
  <2>1. rare' # {}
    BY <1>34, Noted DEF Activate
  <2> QED
    BY <2>1 DEF RouteInv
<1>35. ASSUME NEW t \in Tasks, NEW d \in Deps, NEW kind \in {"pause", "stop", "start"}, Manual(t,
      d, kind) PROVE RouteInv'
  <2>1. rare' # {}
    BY <1>35, Noted DEF Manual
  <2> QED
    BY <2>1 DEF RouteInv
<1>36. ASSUME NEW t \in Tasks, NEW d \in Deps, ResumeBuild(t, d) PROVE RouteInv'
  <2>1. (rare' = {} => rare = {}) /\ routed' = routed /\ active' = active
    BY <1>36, Noted DEF ResumeBuild, store
  <2>2. \A u \in Tasks : /\ Sending(u)' <=> Sending(u)
                         /\ Sending(u) => task'[u].seen = task[u].seen
    BY <1>36, DeploymentAssumption DEF ResumeBuild, Idle, store, Sending, IInv, TypeOK,
       TaskRecords, Slots
  <2> QED
    BY <2>1, <2>2, RouteStays
<1>37. ASSUME NEW t \in Listeners, NEW d \in Deps, Hear(t, d) PROVE RouteInv'
  <2>1. (rare' = {} => rare = {}) /\ routed' = routed /\ active' = active
    BY <1>37, Noted DEF Hear, store, api
  <2>2. \A u \in Tasks : /\ Sending(u)' <=> Sending(u)
                         /\ Sending(u) => task'[u].seen = task[u].seen
    BY <1>37, DeploymentAssumption DEF Hear, Idle, store, api, Sending, IInv, TypeOK,
       TaskRecords, Slots
  <2> QED
    BY <2>1, <2>2, RouteStays
<1>38. ASSUME NEW t \in Listeners, NEW d \in Deps, HearPending(t, d) PROVE RouteInv'
  <2>1. (rare' = {} => rare = {}) /\ routed' = routed /\ active' = active
    BY <1>38, Noted DEF HearPending, store
  <2>2. \A u \in Tasks : /\ Sending(u)' <=> Sending(u)
                         /\ Sending(u) => task'[u].seen = task[u].seen
    BY <1>38, DeploymentAssumption DEF HearPending, Idle, store, Sending, IInv, TypeOK,
       TaskRecords, Slots
  <2> QED
    BY <2>1, <2>2, RouteStays
<1>39. ASSUME NEW t \in Listeners, NEW d \in Deps, Poll(t, d) PROVE RouteInv'
  <2>1. (rare' = {} => rare = {}) /\ routed' = routed /\ active' = active
    BY <1>39, Noted DEF Poll, store, api
  <2>2. \A u \in Tasks : /\ Sending(u)' <=> Sending(u)
                         /\ Sending(u) => task'[u].seen = task[u].seen
    BY <1>39, DeploymentAssumption DEF Poll, Idle, store, api, Sending, IInv, TypeOK,
       TaskRecords, Slots
  <2> QED
    BY <2>1, <2>2, RouteStays
<1>40. ASSUME NEW d \in Deps, VmFails(d) PROVE RouteInv'
  <2>1. rare' # {}
    BY <1>40, Noted DEF VmFails
  <2> QED
    BY <2>1 DEF RouteInv
<1>41. ASSUME NEW d \in Deps, DeleteRecord(d) PROVE RouteInv'
  <2>1. rare' # {}
    BY <1>41, Noted DEF DeleteRecord
  <2> QED
    BY <2>1 DEF RouteInv
<1>42. CASE Restart
  <2>1. rare' # {}
    BY <1>42, Noted DEF Restart
  <2> QED
    BY <2>1 DEF RouteInv
<1>43. ASSUME NEW t \in Slots, ScaleAfter(t) PROVE RouteInv'
  <2>1. (rare' = {} => rare = {}) /\ routed' = routed /\ active' = active
    BY <1>43 DEF ScaleAfter, store
  <2>2. \A u \in Tasks : /\ Sending(u)' <=> Sending(u)
                         /\ Sending(u) => task'[u].seen = task[u].seen
    BY <1>43, DeploymentAssumption DEF ScaleAfter, End, Idle, Sending, IInv, TypeOK,
       TaskRecords, Slots
  <2> QED
    BY <2>1, <2>2, RouteStays
<1>44. ASSUME NEW d \in Deps, DeleteSurplus(d) PROVE RouteInv'
  BY <1>44, Noted DEF DeleteSurplus, store, RouteInv, Sending
<1>45. CASE Reconcile
  BY <1>45 DEF Reconcile, store, RouteInv, Sending
<1>46. CASE UNCHANGED vars
  BY <1>46 DEF vars, RouteInv, Sending
<1> QED
  BY <1>1, <1>2, <1>3, <1>4, <1>5, <1>6, <1>7, <1>8, <1>9, <1>10, <1>11, <1>12, <1>13, <1>14,
     <1>15, <1>16, <1>17, <1>18, <1>19, <1>20, <1>21, <1>22, <1>23, <1>24, <1>25, <1>26, <1>27,
     <1>28, <1>29, <1>30, <1>31, <1>32, <1>33, <1>34, <1>35, <1>36, <1>37, <1>38, <1>39, <1>40,
     <1>41, <1>42, <1>43, <1>44, <1>45, <1>46 DEF Next, Step, BuildStep, FlowStep, ManualStep, ListenerStep


(* Every reachable state satisfies all of the invariants. *)
LEMMA FlowInductive == Init /\ [][Next]_vars => [](IInv /\ FlowInv /\ RouteInv)
<1>1. Init => FlowInv /\ RouteInv
  BY InitFlow
<1>2. IInv /\ FlowInv /\ RouteInv /\ [Next]_vars => FlowInv' /\ RouteInv'
  BY FlowKept, RouteKept
<1> QED
  BY <1>1, <1>2, Inductive, PTL

(* When nobody holds the guard the active version is the only one that runs, and no row is *)
(* DRAINING, for any number of deployments, as long as no flow drained what it had read     *)
(* before it had the guard and the scheduler did not delete, of two running versions, the    *)
(* one that is needed.                                                                       *)
THEOREM VersionsEnd == Spec => []OneVersionRuns
<1>1. IInv /\ FlowInv => OneVersionRuns
  <2> SUFFICES ASSUME IInv, FlowInv, Calm, holder = None
               PROVE  RunningJobs = {active} /\ \A d \in Deps : row[d] # "DRAINING"
    BY DEF OneVersionRuns, Calm
  <2>1. Runs(active) /\ active \in Deps /\ RunAmong({active}) /\ DrainAmong({})
    BY DEF FlowInv, Steady, IInv, TypeOK
  <2> QED
    BY <2>1 DEF RunningJobs, Runs, RunAmong, DrainAmong, Drained
<1> QED
  BY <1>1, FlowInductive, PTL DEF Spec

(* Deployments, job updates and the scheduler's reconciliation never leave the router without a *)
(* target that runs, except where the reconciliation deletes the version that is needed.        *)
THEOREM AlwaysServed == Spec => []ServedByDeployments
<1>1. IInv /\ FlowInv /\ RouteInv => ServedByDeployments
  <2> SUFFICES ASSUME IInv, FlowInv, RouteInv, rare = {}
               PROVE  Served
    BY DEF ServedByDeployments
  <2>1. Steady
    BY DEF FlowInv, Calm
  <2>2. CASE \E t \in Tasks : Sending(t)
    BY <2>1, <2>2 DEF Steady, Flow, Sending, Promoted, RouteInv, Served, Runs
  <2>3. CASE \A t \in Tasks : ~Sending(t)
    BY <2>1, <2>3 DEF Steady, RouteInv, Served, Runs
  <2> QED
    BY <2>2, <2>3
<1> QED
  BY <1>1, FlowInductive, PTL DEF Spec

=============================================================================
