-------------------------- MODULE Scheduling_proofs ---------------------------
(***************************************************************************)
(* Proofs about the scheduler's scaling of an application and about its    *)
(* workers, for any number of places, replicas, nodes, jobs and failures.  *)
(* The two are proved one after the other, and neither uses facts of the   *)
(* other.                                                                  *)
(***************************************************************************)
EXTENDS AppScaling, Fleet, FiniteSetTheorems, TLAPS

(*------------------------------ AppScaling -------------------------------*)
(* No task has begun in the future, and a task that resumes jobs asks for as many as it tries. *)
Timed == \A p \in Tasks : task[p].since <= now
RoomToResume == \A p \in Tasks : At(p, "resume") => Cardinality(task[p].todo) <= task[p].need
Base == TypeOK /\ Timed /\ RoomToResume

(* A row that was marked as scaled to zero after the application had been idle for long enough. *)
MarkedIdle(line, time) ==
  0 < line.traffic /\ line.traffic + IdleTimeout <= line.zeroed /\ line.zeroed <= time

(* Once an application is idle and nobody has asked for it, its row is marked, so is every copy *)
(* of the row that will be written back, and the reconciler does no more than pause it.         *)
CopiesMarked ==
  /\ MarkedIdle(app, now)
  /\ At("monitor", "setBackoff") => MarkedIdle(task["monitor"].copy, now)
  /\ At("reconciler", "survey") \/ At("reconciler", "decide") => MarkedIdle(Copy, now)
  /\ At("reconciler", "decide") => Copy.zeroed <= Since
NobodyScalesUp ==
  /\ At("router", "idle") /\ At("api", "idle")
  /\ task["reconciler"].at \in {"idle", "survey", "decide", "count", "shrink", "pausing"}
  /\ task["reconciler"].at \in {"count", "shrink", "pausing"} =>
       task["reconciler"].goal = 0 /\ task["reconciler"].then = "idle"
Asleep == Autoscaling /\ woken = "no" => MinReplicas = 0 /\ CopiesMarked /\ NobodyScalesUp

ScalingIInv == Base /\ Asleep

(*------------------------------- Counting --------------------------------*)
(* Sets of places are finite, and the number of active replicas is the number of active jobs. *)
LEMMA PlacesAreFinite ==
  ASSUME NEW S \in SUBSET Places
  PROVE  IsFiniteSet(S) /\ Cardinality(S) \in Nat /\ (Cardinality(S) = 0 <=> S = {})
<1>1. IsFiniteSet(S)
  BY PlacesAssumption, FS_Subset
<1> QED
  BY <1>1, FS_CardinalityType, FS_EmptySet

(* The number of active replicas counts the active jobs. *)
LEMMA ReplicasAreCounted == Count \in Nat /\ (Count = 0 <=> Active = {})
BY PlacesAreFinite DEF Count, Active

(* A job taken from a set leaves one job less. *)
LEMMA OneJobLess ==
  ASSUME NEW S \in SUBSET Places, NEW j \in S
  PROVE  Cardinality(S \ {j}) = Cardinality(S) - 1
BY PlacesAreFinite, FS_RemoveElement

(*--------------------------------- Steps ---------------------------------*)
LEMMA Constants ==
  /\ MinReplicas \in Nat /\ MaxReplicas \in Nat /\ Wanted \subseteq Nat
  /\ IdleTimeout \in Nat /\ IdleTimeout > 0 /\ Backoff \in Nat /\ MaxTime \in Nat
  /\ MaxAsked \in Nat /\ MaxFaults \in Nat
BY ReplicasAssumption, TimeAssumption

(* The tasks, their copies and the clock are typed. *)
LEMMA TasksAreTyped ==
  ASSUME Base
  PROVE  /\ task \in [Tasks -> Local] /\ app \in Row /\ now \in Nat
         /\ \A p \in Tasks : task[p] \in Local /\ task[p].since <= now
         /\ \A p \in Tasks : /\ task[p].todo \in SUBSET Places /\ task[p].boot \in SUBSET Places
                             /\ task[p].goal \in Nat /\ task[p].need \in Nat /\ task[p].seen \in Nat
                             /\ task[p].since \in Nat /\ task[p].copy \in Row /\ task[p].then \in Points
                             /\ task[p].at \in Points
         /\ status \in [Places -> {"none", "scheduled", "running", "paused", "failed"}]
         /\ Free \in Local
<1>1. Free \in Local
  BY DEF Free, Local, NoRow, Row, Points
<1>2. now \in Nat
  BY Constants DEF Base, TypeOK
<1>3. ASSUME NEW p \in Tasks
      PROVE  /\ task[p] \in Local /\ task[p].since <= now
             /\ task[p].todo \in SUBSET Places /\ task[p].boot \in SUBSET Places
             /\ task[p].goal \in Nat /\ task[p].need \in Nat /\ task[p].seen \in Nat
             /\ task[p].since \in Nat /\ task[p].copy \in Row /\ task[p].then \in Points
             /\ task[p].at \in Points
  <2>1. task[p] \in Local /\ task[p].since <= now
    BY DEF Base, TypeOK, Timed
  <2> QED
    BY <2>1 DEF Local
<1> QED
  BY <1>1, <1>2, <1>3 DEF Base, TypeOK

(* A step of one task leaves the others where they are. *)
LEMMA TaskStep ==
  ASSUME Base, NEW p \in Tasks, NEW l \in Local, task' = [task EXCEPT ![p] = l],
         now' = now, l.since <= now, l.at = "resume" => Cardinality(l.todo) <= l.need
  PROVE  /\ task' \in [Tasks -> Local] /\ Timed' /\ RoomToResume' /\ task'[p] = l
         /\ \A q \in Tasks : q # p => task'[q] = task[q]
<1>1. task \in [Tasks -> Local]
  BY TasksAreTyped
<1>2. task'[p] = l /\ \A q \in Tasks : q # p => task'[q] = task[q]
  BY <1>1
<1>3. task' \in [Tasks -> Local]
  BY <1>1
<1>4. Timed'
  <2> SUFFICES ASSUME NEW q \in Tasks PROVE task'[q].since <= now
    BY DEF Timed
  <2> QED
    BY <1>2 DEF Base, Timed
<1>5. RoomToResume'
  <2> SUFFICES ASSUME NEW q \in Tasks, At(q, "resume")'
               PROVE  Cardinality(task'[q].todo) <= task'[q].need
    BY DEF RoomToResume
  <2>1. CASE q = p
    BY <2>1, <1>2 DEF At
  <2>2. CASE q # p
    BY <2>2, <1>2 DEF At, Base, RoomToResume
  <2> QED
    BY <2>1, <2>2
<1> QED
  BY <1>2, <1>3, <1>4, <1>5

(* What the end of a task, and the return of scale_app, make of a task. *)
LEMMA Ended ==
  ASSUME Base, NEW p \in Tasks, End(p), now' = now
  PROVE  /\ task' \in [Tasks -> Local] /\ Timed' /\ RoomToResume' /\ task'[p] = Free
         /\ \A q \in Tasks : q # p => task'[q] = task[q]
<1>1. Free \in Local /\ Free.since = 0 /\ Free.at # "resume" /\ now \in Nat
  BY TasksAreTyped DEF Free
<1>2. Free.since <= now
  BY <1>1
<1>3. task' = [task EXCEPT ![p] = Free]
  BY DEF End
<1> HIDE DEF Free
<1> QED
  BY <1>1, <1>2, <1>3, TaskStep

(* The return of scale_app leaves nothing to go through. *)
LEMMA Returned ==
  ASSUME Base, NEW p \in Tasks, NEW good \in BOOLEAN, Return(p, good), now' = now
  PROVE  /\ task' \in [Tasks -> Local] /\ Timed' /\ RoomToResume'
         /\ \A q \in Tasks : q # p => task'[q] = task[q]
         /\ task[p].then = "idle" => task'[p] = Free
<1> DEFINE t == task[p]
           r == [t EXCEPT !.at = t.then, !.todo = {}, !.boot = {}, !.need = 0]
           l == IF good /\ t.then # "idle" THEN r ELSE Free
<1>1. /\ t \in Local /\ t.since <= now /\ t.since \in Nat /\ now \in Nat /\ Free \in Local
      /\ t.then \in Points
  BY TasksAreTyped
<1>2. r \in Local /\ r.since = t.since /\ r.todo = {} /\ r.need = 0
  BY <1>1 DEF Local
<1>3. Cardinality({}) = 0
  BY FS_EmptySet
<1>4. Free.since = 0 /\ Free.at # "resume"
  BY DEF Free
<1>5. task' = [task EXCEPT ![p] = l]
  BY DEF Return
<1>6. l \in Local
  BY <1>1, <1>2
<1>7. l.since <= now
  BY <1>1, <1>2, <1>4
<1>8. l.at = "resume" => Cardinality(l.todo) <= l.need
  BY <1>2, <1>3, <1>4
<1>9. t.then = "idle" => l = Free
  OBVIOUS
<1> HIDE DEF l
<1> QED
  BY <1>5, <1>6, <1>7, <1>8, <1>9, TaskStep

(*------------------------------- scale_app -------------------------------*)
(* The job states. *)
States == {"none", "scheduled", "running", "paused", "failed"}

(* A job that changes state has one. *)
LEMMA StatusIsTyped ==
  ASSUME Base, NEW j \in Places, NEW s \in States, SetStatus(j, s) \/ status' = [status EXCEPT ![j] = s]
  PROVE  status' \in [Places -> States]
<1>1. status \in [Places -> States]
  BY TasksAreTyped DEF States
<1> QED
  BY <1>1 DEF SetStatus

(* Failures stay within their bound. *)
LEMMA FaultIsTyped == ASSUME Base, Fault PROVE faults' \in 0..MaxFaults
BY Constants DEF Base, TypeOK, Fault

(* A step that leaves the row and the history alone keeps the types when it types the rest. *)
LEMMA StepIsTyped ==
  ASSUME Base, UNCHANGED <<app, now, wanted, asked, woken>>,
         task' \in [Tasks -> Local], Timed', RoomToResume',
         status' \in [Places -> States], news' \in BOOLEAN, faults' \in 0..MaxFaults
  PROVE  Base'
BY DEF Base, TypeOK, States

(* What every step of scale_app leaves alone. *)
ScaledBy(p) ==
  /\ Base' /\ UNCHANGED <<app, now, wanted, asked, woken>>
  /\ \A q \in Tasks : q # p => task'[q] = task[q]

(* scale_app counts; asked for none, it ends or shrinks. *)
LEMMA CountReplicasBase ==
  ASSUME Base, NEW p \in Tasks, CountReplicas(p)
  PROVE  /\ ScaledBy(p) /\ status' = status
         /\ task[p].goal = 0 /\ task[p].then = "idle" =>
              task'[p] = Free \/ (task'[p].at = "shrink" /\ task'[p].goal = 0 /\ task'[p].then = "idle")
<1> DEFINE t == task[p]
           goal == t.goal
<1>1. UNCHANGED <<app, now, wanted, asked, woken, news, status, faults>>
  BY DEF CountReplicas, rest
<1>2. /\ t \in Local /\ t.since <= now /\ goal \in Nat /\ t.todo \in SUBSET Places
      /\ status \in [Places -> States] /\ news \in BOOLEAN /\ faults \in 0..MaxFaults
      /\ task \in [Tasks -> Local]
  BY TasksAreTyped DEF Base, TypeOK, States
<1>3. Count \in Nat
  BY ReplicasAreCounted
<1> DEFINE Good(l) == l \in Local /\ l.since <= now /\ l.at # "resume" /\ task' = [task EXCEPT ![p] = l]
<1>4. ASSUME NEW l, Good(l) PROVE ScaledBy(p) /\ task'[p] = l
  BY <1>1, <1>2, <1>4, TaskStep, StepIsTyped DEF ScaledBy
<1>5. CASE Count = goal /\ Return(p, TRUE)
  BY <1>1, <1>2, <1>5, Returned, StepIsTyped DEF ScaledBy
<1>6. ASSUME NEW K \in Surplus(Count - goal), task' = [task EXCEPT ![p].at = "shrink", ![p].todo = K]
      PROVE  ScaledBy(p) /\ task'[p].at = "shrink" /\ task'[p].goal = goal /\ task'[p].then = t.then
  <2> DEFINE l == [t EXCEPT !.at = "shrink", !.todo = K]
  <2>1. K \in SUBSET Places
    BY DEF Surplus, Active
  <2>2. l \in Local /\ l.since = t.since /\ l.at = "shrink" /\ l.goal = goal /\ l.then = t.then
    BY <1>2, <2>1 DEF Local, Points
  <2>3. task' = [task EXCEPT ![p] = l]
    BY <1>6
  <2> HIDE DEF l
  <2> QED
    BY <1>2, <1>4, <2>2, <2>3
<1>7. ASSUME Count \in 1..(goal - 1), task' = [task EXCEPT ![p].at = "grow", ![p].need = goal - Count]
      PROVE  ScaledBy(p) /\ goal # 0
  <2> DEFINE l == [t EXCEPT !.at = "grow", !.need = goal - Count]
  <2>1. goal - Count \in Nat /\ goal # 0
    BY <1>2, <1>3, <1>7
  <2>2. l \in Local /\ l.since = t.since /\ l.at = "grow"
    BY <1>2, <2>1 DEF Local, Points
  <2>3. task' = [task EXCEPT ![p] = l]
    BY <1>7
  <2> HIDE DEF l
  <2> QED
    BY <1>2, <1>4, <2>1, <2>2, <2>3
<1>8. ASSUME goal > 0, Goto(p, "spare")
      PROVE  ScaledBy(p) /\ goal # 0
  <2> DEFINE l == [t EXCEPT !.at = "spare"]
  <2>1. l \in Local /\ l.since = t.since /\ l.at = "spare"
    BY <1>2 DEF Local, Points
  <2>2. task' = [task EXCEPT ![p] = l]
    BY <1>8 DEF Goto
  <2>3. goal # 0
    BY <1>2, <1>8
  <2> HIDE DEF l
  <2> QED
    BY <1>2, <1>4, <2>1, <2>2, <2>3
<1> HIDE DEF Good
<1>9. \/ Count = goal /\ Return(p, TRUE)
      \/ \E K \in Surplus(Count - goal) : task' = [task EXCEPT ![p].at = "shrink", ![p].todo = K]
      \/ Count \in 1..(goal - 1) /\ task' = [task EXCEPT ![p].at = "grow", ![p].need = goal - Count]
      \/ goal > 0 /\ Goto(p, "spare")
  BY DEF CountReplicas
<1>10. CASE Count = goal /\ Return(p, TRUE)
  BY <1>1, <1>5, <1>10, Returned
<1>11. CASE \E K \in Surplus(Count - goal) : task' = [task EXCEPT ![p].at = "shrink", ![p].todo = K]
  BY <1>1, <1>6, <1>11
<1>12. CASE Count \in 1..(goal - 1) /\ task' = [task EXCEPT ![p].at = "grow", ![p].need = goal - Count]
  BY <1>1, <1>7, <1>12
<1>13. CASE goal > 0 /\ Goto(p, "spare")
  BY <1>1, <1>8, <1>13
<1> QED
  BY <1>9, <1>10, <1>11, <1>12, <1>13

(* From zero, scale_app resumes, deploys or gives up. *)
LEMMA FindSpareBase ==
  ASSUME Base, NEW p \in Tasks, FindSpare(p) PROVE ScaledBy(p)
<1> DEFINE t == task[p]
           goal == t.goal
<1>1. UNCHANGED <<app, now, wanted, asked, woken, news, status, faults>>
  BY DEF FindSpare, rest
<1>2. /\ t \in Local /\ t.since <= now /\ goal \in Nat
      /\ status \in [Places -> States] /\ news \in BOOLEAN /\ faults \in 0..MaxFaults
  BY TasksAreTyped DEF Base, TypeOK, States
<1>3. ASSUME NEW l \in Local, l.since <= now, l.at = "resume" => Cardinality(l.todo) <= l.need,
             task' = [task EXCEPT ![p] = l]
      PROVE  ScaledBy(p)
  BY <1>1, <1>2, <1>3, TaskStep, StepIsTyped DEF ScaledBy
<1>4. ASSUME NEW K \in SUBSET Places, Cardinality(K) <= goal,
             task' = [task EXCEPT ![p].at = "resume", ![p].todo = K, ![p].need = goal]
      PROVE  ScaledBy(p)
  <2> DEFINE l == [t EXCEPT !.at = "resume", !.todo = K, !.need = goal]
  <2>1. l \in Local /\ l.since = t.since /\ l.todo = K /\ l.need = goal
    BY <1>2 DEF Local, Points
  <2>2. task' = [task EXCEPT ![p] = l]
    BY <1>4
  <2> HIDE DEF l
  <2> QED
    BY <1>2, <1>3, <1>4, <2>1, <2>2
<1>5. ASSUME task' = [task EXCEPT ![p].at = "grow", ![p].need = goal] PROVE ScaledBy(p)
  <2> DEFINE l == [t EXCEPT !.at = "grow", !.need = goal]
  <2>1. l \in Local /\ l.since = t.since /\ l.at # "resume"
    BY <1>2 DEF Local, Points
  <2>2. task' = [task EXCEPT ![p] = l]
    BY <1>5
  <2> HIDE DEF l
  <2> QED
    BY <1>2, <1>3, <2>1, <2>2
<1>6. ASSUME Return(p, TRUE) PROVE ScaledBy(p)
  BY <1>1, <1>2, <1>6, Returned, StepIsTyped DEF ScaledBy
<1>7. \/ \E K \in SUBSET Places :
           /\ Cardinality(K) <= goal
           /\ task' = [task EXCEPT ![p].at = "resume", ![p].todo = K, ![p].need = goal]
      \/ task' = [task EXCEPT ![p].at = "grow", ![p].need = goal]
      \/ Return(p, TRUE)
  BY DEF FindSpare
<1> QED
  BY <1>4, <1>5, <1>6, <1>7

(* A job is resumed, or not, and one job less is left. *)
LEMMA ResumeBase ==
  ASSUME Base, NEW p \in Tasks, (\E j \in Places : ResumeJob(p, j)) \/ Resumed(p) PROVE ScaledBy(p)
<1> DEFINE t == task[p]
<1>1. UNCHANGED <<app, now, wanted, asked, woken>>
  BY DEF ResumeJob, Resumed, rest
<1>2. /\ t \in Local /\ t.since <= now /\ t.need \in Nat /\ t.todo \in SUBSET Places
      /\ status \in [Places -> States] /\ news \in BOOLEAN /\ faults \in 0..MaxFaults
  BY TasksAreTyped DEF Base, TypeOK, States
<1>3. ASSUME NEW l \in Local, l.since <= now, l.at = "resume" => Cardinality(l.todo) <= l.need,
             task' = [task EXCEPT ![p] = l],
             status' \in [Places -> States], news' \in BOOLEAN, faults' \in 0..MaxFaults
      PROVE  ScaledBy(p)
  BY <1>1, <1>2, <1>3, TaskStep, StepIsTyped DEF ScaledBy
<1>4. ASSUME NEW j \in Places, ResumeJob(p, j) PROVE ScaledBy(p)
  <2>1. j \in t.todo /\ At(p, "resume")
    BY <1>4 DEF ResumeJob
  <2>2. Cardinality(t.todo) <= t.need
    BY <2>1 DEF Base, RoomToResume
  <2>3. /\ Cardinality(t.todo \ {j}) = Cardinality(t.todo) - 1
        /\ Cardinality(t.todo \ {j}) \in Nat /\ Cardinality(t.todo) \in Nat /\ t.todo \ {j} \in SUBSET Places
    BY <1>2, <2>1, OneJobLess, PlacesAreFinite
  <2>4. t.need - 1 \in Nat /\ Cardinality(t.todo \ {j}) <= t.need - 1 /\ Cardinality(t.todo \ {j}) <= t.need
    BY <1>2, <2>2, <2>3
  <2>5. ASSUME SetStatus(j, "running"), Publish, UNCHANGED faults,
               task' = [task EXCEPT ![p].todo = @ \ {j}, ![p].need = @ - 1]
        PROVE  ScaledBy(p)
    <3> DEFINE l == [t EXCEPT !.todo = @ \ {j}, !.need = @ - 1]
    <3>1. l \in Local /\ l.since = t.since /\ l.todo = t.todo \ {j} /\ l.need = t.need - 1
      BY <1>2, <2>3, <2>4 DEF Local
    <3>2. task' = [task EXCEPT ![p] = l]
      BY <2>5
    <3>3. status' \in [Places -> States] /\ news' \in BOOLEAN /\ faults' \in 0..MaxFaults
      BY <1>2, <2>5, StatusIsTyped DEF States, Publish
    <3> HIDE DEF l
    <3> QED
      BY <1>2, <1>3, <2>4, <3>1, <3>2, <3>3
  <2>6. ASSUME UNCHANGED faults \/ Fault, task' = [task EXCEPT ![p].todo = @ \ {j}],
               UNCHANGED <<status, news>>
        PROVE  ScaledBy(p)
    <3> DEFINE l == [t EXCEPT !.todo = @ \ {j}]
    <3>1. l \in Local /\ l.since = t.since /\ l.todo = t.todo \ {j} /\ l.need = t.need
      BY <1>2, <2>3 DEF Local
    <3>2. task' = [task EXCEPT ![p] = l]
      BY <2>6
    <3>3. status' \in [Places -> States] /\ news' \in BOOLEAN /\ faults' \in 0..MaxFaults
      BY <1>2, <2>6, FaultIsTyped
    <3> HIDE DEF l
    <3> QED
      BY <1>2, <1>3, <2>4, <3>1, <3>2, <3>3
  <2> QED
    BY <1>4, <2>5, <2>6 DEF ResumeJob
<1>5. ASSUME Resumed(p) PROVE ScaledBy(p)
  <2>1. UNCHANGED <<news, status, faults>>
    BY <1>5 DEF Resumed
  <2>2. CASE Return(p, TRUE)
    BY <1>1, <1>2, <2>1, <2>2, Returned, StepIsTyped DEF ScaledBy
  <2>3. CASE Goto(p, "grow")
    <3> DEFINE l == [t EXCEPT !.at = "grow"]
    <3>1. l \in Local /\ l.since = t.since /\ l.at = "grow"
      BY <1>2 DEF Local, Points
    <3>2. task' = [task EXCEPT ![p] = l]
      BY <2>3 DEF Goto
    <3> HIDE DEF l
    <3> QED
      BY <1>2, <1>3, <2>1, <3>1, <3>2
  <2> QED
    BY <1>5, <2>2, <2>3 DEF Resumed
<1> QED
  BY <1>4, <1>5

(* A step of scale_app within a loop. *)
LEMMA ScaleStep ==
  ASSUME Base, NEW p \in Tasks, UNCHANGED <<app, now, wanted, asked, woken>>,
         NEW l \in Local, l.since <= now, l.at # "resume", task' = [task EXCEPT ![p] = l],
         status' \in [Places -> States], news' \in BOOLEAN, faults' \in 0..MaxFaults
  PROVE  ScaledBy(p) /\ task'[p] = l
BY TaskStep, StepIsTyped DEF ScaledBy

(* A step with which scale_app returns. *)
LEMMA ScaleReturns ==
  ASSUME Base, NEW p \in Tasks, UNCHANGED <<app, now, wanted, asked, woken>>,
         NEW good \in BOOLEAN, Return(p, good),
         status' \in [Places -> States], news' \in BOOLEAN, faults' \in 0..MaxFaults
  PROVE  ScaledBy(p) /\ (task[p].then = "idle" => task'[p] = Free)
BY Returned, StepIsTyped DEF ScaledBy

(* Deployments begin and end. *)
LEMMA GrowBase ==
  ASSUME Base, NEW p \in Tasks,
         DeployBegins(p) \/ (\E j \in Places : DeployEnds(p, j)) \/ Grown(p)
  PROVE  ScaledBy(p)
<1> DEFINE t == task[p]
<1>1. UNCHANGED <<app, now, wanted, asked, woken>> /\ At(p, "grow")
  BY DEF DeployBegins, DeployEnds, Grown, rest
<1>2. /\ t \in Local /\ t.since <= now /\ t.need \in Nat /\ t.boot \in SUBSET Places
      /\ status \in [Places -> States] /\ news \in BOOLEAN /\ faults \in 0..MaxFaults
      /\ t.at = "grow" /\ t.ok \in BOOLEAN
  BY <1>1, TasksAreTyped DEF Base, TypeOK, States, At, Local
<1>3. ASSUME DeployBegins(p) PROVE ScaledBy(p)
  <2>1. t.need - 1 \in Nat /\ UNCHANGED <<news, faults>>
    BY <1>2, <1>3 DEF DeployBegins
  <2>2. ASSUME NEW j \in Places, status' = [status EXCEPT ![j] = "scheduled"],
               task' = [task EXCEPT ![p].need = @ - 1, ![p].boot = @ \cup {j}]
        PROVE  ScaledBy(p)
    <3> DEFINE l == [t EXCEPT !.need = @ - 1, !.boot = @ \cup {j}]
    <3>1. l \in Local /\ l.since = t.since /\ l.at = "grow"
      BY <1>2, <2>1 DEF Local
    <3>2. task' = [task EXCEPT ![p] = l] /\ status' \in [Places -> States]
      BY <1>2, <2>2 DEF States
    <3> HIDE DEF l
    <3> QED
      BY <1>1, <1>2, <2>1, <3>1, <3>2, ScaleStep
  <2>3. ASSUME task' = [task EXCEPT ![p].need = @ - 1, ![p].ok = FALSE], UNCHANGED status
        PROVE  ScaledBy(p)
    <3> DEFINE l == [t EXCEPT !.need = @ - 1, !.ok = FALSE]
    <3>1. l \in Local /\ l.since = t.since /\ l.at = "grow"
      BY <1>2, <2>1 DEF Local
    <3>2. task' = [task EXCEPT ![p] = l]
      BY <2>3
    <3> HIDE DEF l
    <3> QED
      BY <1>1, <1>2, <2>1, <2>3, <3>1, <3>2, ScaleStep
  <2>4. Fresh # {} => (CHOOSE j \in Fresh : TRUE) \in Places
    BY DEF Fresh, Vacant
  <2> QED
    BY <1>3, <2>2, <2>3, <2>4 DEF DeployBegins
<1>4. ASSUME NEW j \in Places, DeployEnds(p, j) PROVE ScaledBy(p)
  <2>1. /\ status' \in [Places -> States] /\ news' \in BOOLEAN /\ faults' \in 0..MaxFaults
        /\ \/ task' = [task EXCEPT ![p].boot = @ \ {j}]
           \/ task' = [task EXCEPT ![p].boot = @ \ {j}, ![p].ok = FALSE]
    BY <1>2, <1>4, FaultIsTyped, StatusIsTyped DEF DeployEnds, States, Publish
  <2>2. ASSUME NEW ok \in BOOLEAN, task' = [task EXCEPT ![p] = [t EXCEPT !.boot = @ \ {j}, !.ok = ok]]
        PROVE  ScaledBy(p)
    <3> DEFINE l == [t EXCEPT !.boot = @ \ {j}, !.ok = ok]
    <3>1. l \in Local /\ l.since = t.since /\ l.at = "grow"
      BY <1>2 DEF Local
    <3>2. task' = [task EXCEPT ![p] = l]
      BY <2>2
    <3> HIDE DEF l
    <3> QED
      BY <1>1, <1>2, <2>1, <3>1, <3>2, ScaleStep
  <2>3. t = [t EXCEPT !.ok = t.ok] /\ [t EXCEPT !.boot = @ \ {j}] = [t EXCEPT !.boot = @ \ {j}, !.ok = t.ok]
    BY <1>2 DEF Local
  <2>4. CASE task' = [task EXCEPT ![p].boot = @ \ {j}]
    BY <1>2, <2>2, <2>3, <2>4
  <2>5. CASE task' = [task EXCEPT ![p].boot = @ \ {j}, ![p].ok = FALSE]
    BY <2>2, <2>5
  <2> QED
    BY <2>1, <2>4, <2>5
<1>5. ASSUME Grown(p) PROVE ScaledBy(p)
  BY <1>1, <1>2, <1>5, ScaleReturns DEF Grown
<1> QED
  BY <1>3, <1>4, <1>5

(* Where a task is that takes replicas away, and what becomes of the jobs meanwhile. *)
Shrinking(p) ==
  /\ status' = status \/ \E j \in Places : status' = [status EXCEPT ![j] = "none"] \/ SetStatus(j, "paused")
  /\ task[p].then = "idle" /\ task[p].goal = 0 =>
       \/ task'[p] = Free
       \/ /\ task'[p].at \in {"shrink", "pausing"}
          /\ task'[p].goal = 0 /\ task'[p].then = "idle"

(* Jobs are deleted or paused. *)
LEMMA ShrinkBase ==
  ASSUME Base, NEW p \in Tasks,
         \/ \E j \in Places : DeleteJob(p, j) \/ CheckPause(p, j) \/ PauseJob(p, j)
         \/ Shrunk(p)
  PROVE  ScaledBy(p) /\ Shrinking(p)
<1> DEFINE t == task[p]
<1>1. UNCHANGED <<app, now, wanted, asked, woken>> /\ t.at \in {"shrink", "pausing"}
  BY DEF DeleteJob, CheckPause, PauseJob, Shrunk, rest, At
<1>2. /\ t \in Local /\ t.since <= now /\ t.todo \in SUBSET Places
      /\ status \in [Places -> States] /\ news \in BOOLEAN /\ faults \in 0..MaxFaults
  BY TasksAreTyped DEF Base, TypeOK, States
<1>3. ASSUME NEW j \in Places, DeleteJob(p, j) PROVE ScaledBy(p) /\ Shrinking(p)
  <2>1. faults' = faults /\ j \in t.todo
    BY <1>3 DEF DeleteJob
  <2>2. CASE /\ status' = [status EXCEPT ![j] = "none"] /\ Publish
             /\ task' = [task EXCEPT ![p].todo = @ \ {j}]
    <3> DEFINE l == [t EXCEPT !.todo = @ \ {j}]
    <3>1. l \in Local /\ l.since = t.since /\ l.at = t.at /\ l.goal = t.goal /\ l.then = t.then
      BY <1>2 DEF Local
    <3>2. task' = [task EXCEPT ![p] = l]
      BY <2>2
    <3>3. status' \in [Places -> States] /\ news' \in BOOLEAN
      BY <2>2, StatusIsTyped DEF States, Publish
    <3> HIDE DEF l
    <3>4. ScaledBy(p) /\ task'[p] = l
      BY <1>1, <1>2, <2>1, <3>1, <3>2, <3>3, ScaleStep
    <3> QED
      BY <1>1, <2>2, <3>1, <3>4 DEF Shrinking
  <2>3. CASE Return(p, FALSE) /\ UNCHANGED <<status, news>>
    BY <1>1, <1>2, <2>1, <2>3, ScaleReturns DEF Shrinking
  <2> QED
    BY <1>3, <2>2, <2>3 DEF DeleteJob
<1>4. ASSUME NEW j \in Places, CheckPause(p, j) PROVE ScaledBy(p) /\ Shrinking(p)
  <2>1. UNCHANGED <<news, status, faults>> /\ t.at = "shrink"
    BY <1>4 DEF CheckPause, At
  <2>2. CASE Return(p, FALSE)
    BY <1>1, <1>2, <2>1, <2>2, ScaleReturns DEF Shrinking
  <2>3. CASE task' = [task EXCEPT ![p].todo = @ \ {j}]
    <3> DEFINE l == [t EXCEPT !.todo = @ \ {j}]
    <3>1. l \in Local /\ l.since = t.since /\ l.at = t.at /\ l.goal = t.goal /\ l.then = t.then
      BY <1>2 DEF Local
    <3>2. task' = [task EXCEPT ![p] = l]
      BY <2>3
    <3> HIDE DEF l
    <3>3. ScaledBy(p) /\ task'[p] = l
      BY <1>1, <1>2, <2>1, <3>1, <3>2, ScaleStep
    <3> QED
      BY <1>1, <2>1, <3>1, <3>3 DEF Shrinking
  <2>4. CASE task' = [task EXCEPT ![p].at = "pausing", ![p].todo = @ \ {j}, ![p].boot = {j}]
    <3> DEFINE l == [t EXCEPT !.at = "pausing", !.todo = @ \ {j}, !.boot = {j}]
    <3>1. l \in Local /\ l.since = t.since /\ l.at = "pausing" /\ l.goal = t.goal /\ l.then = t.then
      BY <1>2 DEF Local, Points
    <3>2. task' = [task EXCEPT ![p] = l]
      BY <2>4
    <3> HIDE DEF l
    <3>3. ScaledBy(p) /\ task'[p] = l
      BY <1>1, <1>2, <2>1, <3>1, <3>2, ScaleStep
    <3> QED
      BY <2>1, <3>1, <3>3 DEF Shrinking
  <2> QED
    BY <1>4, <2>2, <2>3, <2>4 DEF CheckPause
<1>5. ASSUME NEW j \in Places, PauseJob(p, j) PROVE ScaledBy(p) /\ Shrinking(p)
  <2>1. CASE /\ SetStatus(j, "paused") /\ Publish /\ UNCHANGED faults
             /\ task' = [task EXCEPT ![p].at = "shrink", ![p].boot = {}]
    <3> DEFINE l == [t EXCEPT !.at = "shrink", !.boot = {}]
    <3>1. l \in Local /\ l.since = t.since /\ l.at = "shrink" /\ l.goal = t.goal /\ l.then = t.then
      BY <1>2 DEF Local, Points
    <3>2. task' = [task EXCEPT ![p] = l]
      BY <2>1
    <3>3. status' \in [Places -> States] /\ news' \in BOOLEAN
      BY <2>1, StatusIsTyped DEF States, Publish
    <3> HIDE DEF l
    <3>4. ScaledBy(p) /\ task'[p] = l
      BY <1>1, <1>2, <2>1, <3>1, <3>2, <3>3, ScaleStep
    <3> QED
      BY <2>1, <3>1, <3>4 DEF Shrinking
  <2>2. CASE Fault /\ Return(p, FALSE) /\ UNCHANGED <<status, news>>
    BY <1>1, <1>2, <2>2, FaultIsTyped, ScaleReturns DEF Shrinking
  <2> QED
    BY <1>5, <2>1, <2>2 DEF PauseJob
<1>6. ASSUME Shrunk(p) PROVE ScaledBy(p) /\ Shrinking(p)
  BY <1>1, <1>2, <1>6, ScaleReturns DEF Shrunk, Shrinking
<1> QED
  BY <1>3, <1>4, <1>5, <1>6

(* Every step of scale_app keeps the types. *)
LEMMA ScaleBase == ASSUME Base, NEW p \in Tasks, Scale(p) PROVE ScaledBy(p)
BY CountReplicasBase, FindSpareBase, ResumeBase, GrowBase, ShrinkBase DEF Scale

(*------------------------------- The tasks -------------------------------*)
(* The rest of the state has its types in the next state. *)
RestTyped ==
  /\ app' \in Row /\ wanted' \in Wanted /\ asked' \in 0..MaxAsked
  /\ woken' \in {"no", "rewritten", "asked"}
  /\ status' \in [Places -> States] /\ news' \in BOOLEAN /\ faults' \in 0..MaxFaults

(* A step of a task's own keeps the types. *)
LEMMA OwnStep ==
  ASSUME Base, NEW p \in Tasks, RestTyped, now' = now,
         NEW l \in Local, l.since <= now, l.at # "resume", task' = [task EXCEPT ![p] = l]
  PROVE  Base' /\ task'[p] = l /\ \A q \in Tasks : q # p => task'[q] = task[q]
<1>1. /\ task' \in [Tasks -> Local] /\ Timed' /\ RoomToResume' /\ task'[p] = l
      /\ \A q \in Tasks : q # p => task'[q] = task[q]
  BY TaskStep
<1> QED
  BY <1>1 DEF RestTyped, Base, TypeOK, States

(* A task ends. *)
LEMMA OwnEnd ==
  ASSUME Base, NEW p \in Tasks, RestTyped, now' = now, End(p)
  PROVE  Base' /\ task'[p] = Free /\ \A q \in Tasks : q # p => task'[q] = task[q]
<1>1. /\ task' \in [Tasks -> Local] /\ Timed' /\ RoomToResume' /\ task'[p] = Free
      /\ \A q \in Tasks : q # p => task'[q] = task[q]
  BY Ended
<1> QED
  BY <1>1 DEF RestTyped, Base, TypeOK, States

(* scale_app is called. *)
LEMMA OwnScale ==
  ASSUME Base, NEW p \in Tasks, RestTyped, now' = now, NEW n \in Nat, NEW next \in Points,
         ScaleApp(p, n, next)
  PROVE  /\ Base' /\ \A q \in Tasks : q # p => task'[q] = task[q]
         /\ task'[p].at = "count" /\ task'[p].goal = n /\ task'[p].then = next
<1> DEFINE l == [task[p] EXCEPT !.at = "count", !.goal = n, !.then = next]
<1>1. task[p] \in Local /\ task[p].since <= now
  BY TasksAreTyped
<1>2. l \in Local /\ l.since = task[p].since /\ l.at = "count" /\ l.goal = n /\ l.then = next
  BY <1>1 DEF Local, Points
<1>3. task' = [task EXCEPT ![p] = l]
  BY DEF ScaleApp
<1> HIDE DEF l
<1> QED
  BY <1>1, <1>2, <1>3, OwnStep

(* What is left alone keeps its types. *)
LEMMA UnchangedIsTyped ==
  ASSUME Base
  PROVE  /\ app \in Row /\ wanted \in Wanted /\ asked \in 0..MaxAsked
         /\ woken \in {"no", "rewritten", "asked"}
         /\ status \in [Places -> States] /\ news \in BOOLEAN /\ faults \in 0..MaxFaults
BY DEF Base, TypeOK, States

(* The reconciler reads the rows, and counts. *)
LEMMA ReadAppsBase ==
  ASSUME Base, ReadApps
  PROVE  /\ Base' /\ \A q \in Tasks : q # "reconciler" => task'[q] = task[q]
         /\ task'["reconciler"].at = "survey" /\ task'["reconciler"].copy = app
         /\ UNCHANGED <<app, news, status, faults, rest>>
<1> DEFINE t == task["reconciler"]
           l == [t EXCEPT !.at = "survey", !.since = now, !.copy = app]
<1>1. /\ UNCHANGED <<app, news, status, faults, rest>> /\ task' = [task EXCEPT !["reconciler"] = l]
      /\ now' = now
  BY DEF ReadApps, rest
<1>2. t \in Local /\ app \in Row /\ now \in Nat /\ "reconciler" \in Tasks
  BY TasksAreTyped DEF Tasks
<1>3. l \in Local /\ l.at = "survey" /\ l.since = now /\ l.copy = app
  BY <1>2 DEF Local, Points
<1>4. RestTyped
  BY <1>1, UnchangedIsTyped DEF RestTyped, rest
<1> HIDE DEF l
<1>5. l.since <= now /\ l.at # "resume"
  BY <1>2, <1>3
<1> QED
  BY <1>1, <1>2, <1>3, <1>4, <1>5, OwnStep

(* The reconciler lists the jobs: it may date the traffic of a row without, and clears the backoff. *)
LEMMA SurveyJobsBase ==
  ASSUME Base, SurveyJobs
  PROVE  /\ Base' /\ \A q \in Tasks : q # "reconciler" => task'[q] = task[q]
         /\ task'["reconciler"].at = "decide" /\ task'["reconciler"].since = now
         /\ Copy.traffic # 0 => Copy'.traffic = Copy.traffic
         /\ Copy'.zeroed = Copy.zeroed
         /\ app' = app \/ app' = Copy'
         /\ UNCHANGED <<news, status, faults, rest>>
<1> DEFINE t == task["reconciler"]
           start == Count > 0 /\ MinReplicas = 0 /\ t.copy.desired > 0 /\ t.copy.traffic = 0
           clear == Count > 0 /\ t.copy.retry > 0
           line == [t.copy EXCEPT !.traffic = IF start THEN now ELSE @,
                                 !.retry = IF clear THEN 0 ELSE @]
           l == [t EXCEPT !.at = "decide", !.since = now, !.seen = Count, !.copy = line]
<1>1. /\ UNCHANGED <<news, status, faults, rest>> /\ task' = [task EXCEPT !["reconciler"] = l]
      /\ now' = now /\ app' = IF start \/ clear THEN line ELSE app
  BY DEF SurveyJobs, rest
<1>2. t \in Local /\ t.copy \in Row /\ app \in Row /\ now \in Nat /\ "reconciler" \in Tasks
  BY TasksAreTyped DEF Tasks
<1>3. line \in Row /\ line.zeroed = t.copy.zeroed /\ (t.copy.traffic # 0 => line.traffic = t.copy.traffic)
  BY <1>2 DEF Row
<1> HIDE DEF line
<1>4. l \in Local /\ l.at = "decide" /\ l.since = now /\ l.copy = line
  BY <1>2, <1>3, ReplicasAreCounted DEF Local, Points
<1>5. RestTyped
  BY <1>1, <1>2, <1>3, UnchangedIsTyped DEF RestTyped, rest
<1> HIDE DEF l
<1>6. l.since <= now /\ l.at # "resume"
  BY <1>2, <1>4
<1>7. Base' /\ task'["reconciler"] = l /\ \A q \in Tasks : q # "reconciler" => task'[q] = task[q]
  BY <1>1, <1>2, <1>4, <1>5, <1>6, OwnStep
<1> QED
  BY <1>1, <1>3, <1>4, <1>7 DEF Copy

(* The copy of the reconciler, marked, is a row. *)
LEMMA CopyIsTyped ==
  ASSUME Base
  PROVE  /\ Copy \in Row /\ Seen \in Nat /\ Since \in Nat /\ Since <= now
         /\ \A n \in Nat : /\ [Copy EXCEPT !.zeroed = n] \in Row
                           /\ [Copy EXCEPT !.zeroed = n, !.retry = 0] \in Row
                           /\ [Copy EXCEPT !.desired = n] \in Row
<1>1. "reconciler" \in Tasks
  BY DEF Tasks
<1>2. Copy \in Row /\ Seen \in Nat /\ Since \in Nat /\ Since <= now
  BY <1>1, TasksAreTyped DEF Copy, Seen, Since
<1> QED
  BY <1>2 DEF Row

(* The reconciler marks the row and asks for no replica. *)
LEMMA MarkIdleBase ==
  ASSUME Base, MarkIdle
  PROVE  /\ Base' /\ \A q \in Tasks : q # "reconciler" => task'[q] = task[q]
         /\ task'["reconciler"].at = "count" /\ task'["reconciler"].goal = 0
         /\ task'["reconciler"].then = "idle"
         /\ app' = [Copy EXCEPT !.zeroed = Since]
         /\ now' = now /\ status' = status
<1>1. UNCHANGED <<now, wanted, asked, news, status, faults>> /\ app' = [Copy EXCEPT !.zeroed = Since]
      /\ ScaleApp("reconciler", 0, "idle") /\ woken' \in {"no", woken}
  BY DEF MarkIdle
<1>2. "reconciler" \in Tasks /\ "idle" \in Points
  BY DEF Tasks, Points
<1>3. RestTyped
  BY <1>1, UnchangedIsTyped, CopyIsTyped DEF RestTyped
<1> QED
  BY <1>1, <1>2, <1>3, OwnScale

(* NextReplicas is a number, and nothing comes of no load. *)
LEMMA NextReplicasIsTyped ==
  ASSUME NEW n \in Nat, NEW load
  PROVE  NextReplicas(n, load) \in Nat /\ (load = "none" => NextReplicas(n, load) = n)
BY Constants DEF NextReplicas

(* The other decisions of the reconciler. *)
Decides == MarkUnborn \/ Restore \/ RaiseToMinimum \/ (\E load \in Loads : Autoscale(load)) \/ ScaleManually
Marks == MarkRestored \/ MarkMinimum \/ MarkAutoscaled

(* Decisions, and the marks that follow them, keep the types. *)
LEMMA DecidesBase ==
  ASSUME Base, Decides \/ Marks
  PROVE  /\ Base' /\ \A q \in Tasks : q # "reconciler" => task'[q] = task[q]
         /\ UNCHANGED <<news, status, faults, rest>>
<1>1. UNCHANGED <<news, status, faults, rest>> /\ now' = now
  BY DEF Decides, Marks, MarkUnborn, Restore, RaiseToMinimum, Autoscale, ScaleManually,
         MarkRestored, MarkMinimum, MarkAutoscaled, rest
<1>2. "reconciler" \in Tasks /\ {"idle", "restoreMark", "minMark", "autoMark"} \subseteq Points
  BY DEF Tasks, Points
<1>3. task["reconciler"].goal \in Nat
  BY <1>2, TasksAreTyped
<1>4. app' \in Row
  BY <1>3, Constants, UnchangedIsTyped, CopyIsTyped
     DEF Decides, Marks, MarkUnborn, Restore, RaiseToMinimum, Autoscale, ScaleManually,
         MarkRestored, MarkMinimum, MarkAutoscaled
<1>5. RestTyped
  BY <1>1, <1>4, UnchangedIsTyped DEF RestTyped, rest
<1>6. ASSUME NEW n \in Nat, NEW next \in {"idle", "restoreMark", "minMark", "autoMark"},
             ScaleApp("reconciler", n, next)
      PROVE  Base' /\ \A q \in Tasks : q # "reconciler" => task'[q] = task[q]
  BY <1>1, <1>2, <1>5, <1>6, OwnScale
<1>7. ASSUME End("reconciler")
      PROVE  Base' /\ \A q \in Tasks : q # "reconciler" => task'[q] = task[q]
  BY <1>1, <1>2, <1>5, <1>7, OwnEnd
<1>8. Copy.desired \in Nat
  BY CopyIsTyped DEF Row
<1>9. CASE MarkUnborn \/ Marks
  BY <1>1, <1>7, <1>9 DEF MarkUnborn, Marks, MarkRestored, MarkMinimum, MarkAutoscaled
<1>10. CASE Restore
  BY <1>1, <1>6, <1>7, <1>8, <1>10 DEF Restore
<1>11. CASE RaiseToMinimum
  BY <1>1, <1>6, <1>11, Constants DEF RaiseToMinimum
<1>12. ASSUME NEW load \in Loads, Autoscale(load)
       PROVE  Base' /\ \A q \in Tasks : q # "reconciler" => task'[q] = task[q]
  <2> DEFINE goal == NextReplicas(Seen, load)
  <2>1. goal \in Nat
    BY NextReplicasIsTyped, CopyIsTyped
  <2>2. End("reconciler") \/ ScaleApp("reconciler", goal, "autoMark")
    BY <1>12 DEF Autoscale, ScaleApp
  <2> HIDE DEF goal
  <2> QED
    BY <1>6, <1>7, <2>1, <2>2
<1>13. CASE ScaleManually
  BY <1>1, <1>6, <1>7, <1>8, <1>13 DEF ScaleManually
<1> QED
  BY <1>1, <1>9, <1>10, <1>11, <1>12, <1>13 DEF Decides

(* A visit, and what the handler of router traffic makes of it. *)
LEMMA RouterBase ==
  ASSUME Base, Visit \/ RecordVisit \/ Probe \/ MarkVisited
  PROVE  /\ Base' /\ (Visit => woken' = "asked") /\ (~ Visit => ~ At("router", "idle") /\ woken' = woken)
         /\ status' = status
<1> DEFINE t == task["router"]
<1>1. UNCHANGED <<now, wanted, news, status, faults>> /\ asked' \in 0..MaxAsked /\ woken' \in {"asked", woken}
  BY Constants, UnchangedIsTyped
     DEF Visit, RecordVisit, Probe, MarkVisited, Ask, rest
<1>2. /\ t \in Local /\ t.copy \in Row /\ t.since \in Nat /\ t.since <= now /\ app \in Row /\ now \in Nat
      /\ "router" \in Tasks /\ {"recordVisit", "probe", "idle", "visitMark"} \subseteq Points
  BY TasksAreTyped DEF Tasks, Points
<1>3. /\ [t.copy EXCEPT !.traffic = t.since] \in Row /\ t.copy.desired \in Nat
      /\ [t.copy EXCEPT !.zeroed = t.since, !.retry = 0] \in Row
  BY <1>2 DEF Row
<1>4. app' \in Row
  BY <1>2, <1>3 DEF Visit, RecordVisit, Probe, MarkVisited
<1>5. RestTyped
  BY <1>1, <1>4, UnchangedIsTyped DEF RestTyped
<1>6. CASE Visit
  <2> DEFINE l == [t EXCEPT !.at = "recordVisit", !.since = now, !.copy = app]
  <2>1. l \in Local /\ l.since = now /\ l.at = "recordVisit"
    BY <1>2 DEF Local
  <2>2. task' = [task EXCEPT !["router"] = l]
    BY <1>6 DEF Visit
  <2> HIDE DEF l
  <2>3. l.since <= now
    BY <1>2, <2>1
  <2>4. woken' = "asked"
    BY <1>6 DEF Visit, Ask
  <2> QED
    BY <1>1, <1>2, <1>5, <1>6, <2>1, <2>2, <2>3, <2>4, OwnStep
<1>7. CASE RecordVisit
  <2> DEFINE l == [t EXCEPT !.at = "probe", !.copy.traffic = t.since]
  <2>1. l \in Local /\ l.since = t.since /\ l.at = "probe"
    BY <1>2, <1>3 DEF Local
  <2>2. task' = [task EXCEPT !["router"] = l]
    BY <1>7 DEF RecordVisit
  <2> HIDE DEF l
  <2>3. At("router", "recordVisit") /\ woken' = woken
    BY <1>7 DEF RecordVisit
  <2>4. ~ Visit
    BY <2>3 DEF Visit, At
  <2> QED
    BY <1>1, <1>2, <1>5, <2>1, <2>2, <2>3, <2>4, OwnStep DEF At
<1>8. CASE Probe
  <2>1. At("router", "probe") /\ woken' = woken
    BY <1>8 DEF Probe, rest
  <2>2. ~ Visit
    BY <2>1 DEF Visit, At
  <2>3. CASE ScaleApp("router", t.copy.desired, "visitMark")
    BY <1>1, <1>2, <1>3, <1>5, <2>1, <2>2, <2>3, OwnScale DEF At
  <2>4. CASE End("router")
    BY <1>1, <1>2, <1>5, <2>1, <2>2, <2>4, OwnEnd DEF At
  <2> QED
    BY <1>8, <2>3, <2>4 DEF Probe
<1>9. CASE MarkVisited
  <2>1. At("router", "visitMark") /\ End("router") /\ woken' = woken
    BY <1>9 DEF MarkVisited, rest
  <2>2. ~ Visit
    BY <2>1 DEF Visit, At
  <2> QED
    BY <1>1, <1>2, <1>5, <2>1, <2>2, OwnEnd DEF At
<1> QED
  BY <1>6, <1>7, <1>8, <1>9

(* The handler of VM failures: what it reads, and what it writes back. *)
LEMMA MonitorBase ==
  ASSUME Base, (\E j \in Places : VmFails(j)) \/ LoadRow \/ SetBackoff
  PROVE  /\ Base' /\ \A q \in Tasks : q # "monitor" => task'[q] = task[q]
         /\ now' = now /\ woken' = woken
         /\ At("monitor", "setBackoff")' => task'["monitor"].copy = app
         /\ \/ app' = app
            \/ /\ At("monitor", "setBackoff") /\ app'.traffic = task["monitor"].copy.traffic
               /\ app'.zeroed = task["monitor"].copy.zeroed
         /\ status' = status \/ \E j \in Places : SetStatus(j, "failed")
<1> DEFINE t == task["monitor"]
<1>1. UNCHANGED rest /\ UNCHANGED <<now, wanted, asked, woken>>
  BY DEF VmFails, LoadRow, SetBackoff, rest
<1>2. /\ t \in Local /\ t.copy \in Row /\ t.since \in Nat /\ t.since <= now /\ app \in Row /\ now \in Nat
      /\ "monitor" \in Tasks /\ {"loadRow", "setBackoff", "idle"} \subseteq Points
  BY TasksAreTyped DEF Tasks, Points
<1>3. ASSUME NEW j \in Places, VmFails(j)
      PROVE  /\ Base' /\ \A q \in Tasks : q # "monitor" => task'[q] = task[q]
             /\ task'["monitor"].at = "loadRow" /\ app' = app /\ SetStatus(j, "failed")
  <2> DEFINE l == [t EXCEPT !.at = "loadRow", !.since = now]
  <2>1. l \in Local /\ l.since = now /\ l.at = "loadRow"
    BY <1>2 DEF Local
  <2>2. task' = [task EXCEPT !["monitor"] = l] /\ UNCHANGED <<app, news>> /\ Fault /\ SetStatus(j, "failed")
    BY <1>3 DEF VmFails, Begin
  <2> HIDE DEF l
  <2>3. l.since <= now
    BY <1>2, <2>1
  <2>4. RestTyped
    BY <1>1, <2>2, UnchangedIsTyped, StatusIsTyped, FaultIsTyped DEF RestTyped, States
  <2> QED
    BY <1>1, <1>2, <2>1, <2>2, <2>3, <2>4, OwnStep
<1>4. ASSUME LoadRow
      PROVE  /\ Base' /\ \A q \in Tasks : q # "monitor" => task'[q] = task[q]
             /\ task'["monitor"].copy = app /\ app' = app /\ status' = status
  <2> DEFINE l == [t EXCEPT !.at = "setBackoff", !.copy = app]
  <2>1. l \in Local /\ l.since = t.since /\ l.at = "setBackoff" /\ l.copy = app
    BY <1>2 DEF Local
  <2>2. task' = [task EXCEPT !["monitor"] = l] /\ UNCHANGED <<app, news, status, faults>>
    BY <1>4 DEF LoadRow
  <2> HIDE DEF l
  <2>3. RestTyped
    BY <1>1, <2>2, UnchangedIsTyped DEF RestTyped
  <2> QED
    BY <1>1, <1>2, <2>1, <2>2, <2>3, OwnStep
<1>5. ASSUME SetBackoff
      PROVE  /\ Base' /\ \A q \in Tasks : q # "monitor" => task'[q] = task[q]
             /\ task'["monitor"] = Free /\ status' = status /\ At("monitor", "setBackoff")
             /\ app'.traffic = t.copy.traffic /\ app'.zeroed = t.copy.zeroed
  <2>1. /\ UNCHANGED <<status, faults>> /\ news' = TRUE /\ End("monitor") /\ At("monitor", "setBackoff")
        /\ app' = [t.copy EXCEPT !.retry = t.since + Backoff]
    BY <1>5 DEF SetBackoff, Publish
  <2>2. app' \in Row /\ app'.traffic = t.copy.traffic /\ app'.zeroed = t.copy.zeroed
    BY <1>2, <2>1, Constants DEF Row
  <2>3. RestTyped
    BY <1>1, <2>1, <2>2, UnchangedIsTyped DEF RestTyped
  <2> QED
    BY <1>1, <1>2, <2>1, <2>2, <2>3, OwnEnd
<1>6. Free.at = "idle"
  BY DEF Free
<1> QED
  BY <1>1, <1>3, <1>4, <1>5, <1>6 DEF At

(* The API's request and its write of the row, and its synchronisation. *)
LEMMA ApiBase ==
  ASSUME Base,
         \/ (\E n \in Wanted : RequestScale(n)) \/ WriteConfig("api") \/ WriteConfig("sync")
         \/ Synchronise \/ NotifyRouter
  PROVE  /\ Base' /\ status' = status
         /\ \/ woken' # "no" \/ ~ At("api", "idle")
            \/ /\ \A q \in Tasks : q # "sync" => task'[q] = task[q]
               /\ UNCHANGED <<app, now, woken>>
<1>1. "sync" \in Tasks /\ "api" \in Tasks /\ {"list", "config", "count", "idle"} \subseteq Points
  BY DEF Tasks, Points
<1>2. now \in Nat /\ Free \in Local
      /\ \A p \in Tasks : /\ task[p] \in Local /\ task[p].since \in Nat /\ task[p].since <= now
                          /\ task[p].goal \in Nat
  BY TasksAreTyped
<1>3. ASSUME NEW n \in Wanted, RequestScale(n) PROVE Base' /\ status' = status /\ woken' = "asked"
  <2> DEFINE l == [task["api"] EXCEPT !.at = IF Autoscaling THEN "config" ELSE "count",
                                      !.since = now, !.goal = n, !.then = "config"]
  <2>1. /\ UNCHANGED <<now, app, news, status, faults>> /\ task' = [task EXCEPT !["api"] = l]
        /\ wanted' = n /\ woken' = "asked" /\ asked < MaxAsked /\ asked' = asked + 1
    BY <1>3 DEF RequestScale, Ask
  <2>2. l \in Local /\ l.since = now /\ l.at # "resume"
    BY <1>1, <1>2, Constants DEF Local
  <2> HIDE DEF l
  <2>3. l.since <= now
    BY <1>2, <2>2
  <2>4. asked' \in 0..MaxAsked
    BY <2>1, UnchangedIsTyped, Constants
  <2>5. RestTyped
    BY <2>1, <2>4, UnchangedIsTyped DEF RestTyped
  <2> QED
    BY <1>1, <2>1, <2>2, <2>3, <2>5, OwnStep
<1>4. ASSUME NEW p \in {"api", "sync"}, WriteConfig(p)
      PROVE  /\ Base' /\ status' = status /\ ~ At(p, "idle")
             /\ p = "sync" => woken' # "no"
  <2>1. /\ UNCHANGED <<now, wanted, news, status, asked, faults>> /\ End(p) /\ At(p, "config")
        /\ app' = [desired |-> task[p].goal, traffic |-> now, zeroed |-> 0, retry |-> 0]
        /\ woken' = IF p = "sync" /\ woken = "no" THEN "rewritten" ELSE woken
    BY <1>4 DEF WriteConfig
  <2>2. app' \in Row
    BY <1>1, <1>2, <2>1 DEF Row
  <2>3. woken' \in {"no", "rewritten", "asked"}
    BY <2>1, UnchangedIsTyped
  <2>4. RestTyped
    BY <2>1, <2>2, <2>3, UnchangedIsTyped DEF RestTyped
  <2> QED
    BY <1>1, <2>1, <2>4, OwnEnd DEF At
<1>5. ASSUME Synchronise
      PROVE  /\ Base' /\ status' = status /\ UNCHANGED <<app, now, woken>>
             /\ \A q \in Tasks : q # "sync" => task'[q] = task[q]
  <2> DEFINE l == [task["sync"] EXCEPT !.at = "list", !.since = now, !.goal = wanted]
  <2>1. /\ UNCHANGED <<app, status, faults, now, wanted, asked, woken>> /\ news' = FALSE
        /\ task' = [task EXCEPT !["sync"] = l]
    BY <1>5 DEF Synchronise, rest
  <2>2. wanted \in Nat
    BY UnchangedIsTyped, Constants
  <2>3. l \in Local /\ l.since = now /\ l.at = "list"
    BY <1>1, <1>2, <2>2 DEF Local
  <2> HIDE DEF l
  <2>4. l.since <= now
    BY <1>2, <2>3
  <2>5. RestTyped
    BY <2>1, UnchangedIsTyped DEF RestTyped
  <2> QED
    BY <1>1, <2>1, <2>3, <2>4, <2>5, OwnStep
<1>6. ASSUME NotifyRouter
      PROVE  /\ Base' /\ status' = status /\ UNCHANGED <<app, now, woken>>
             /\ \A q \in Tasks : q # "sync" => task'[q] = task[q]
  <2> DEFINE l == [task["sync"] EXCEPT !.at = "config"]
  <2>1. /\ UNCHANGED <<app, status, news, now, wanted, asked, woken>>
        /\ faults' = faults \/ Fault
        /\ End("sync") \/ task' = [task EXCEPT !["sync"] = l]
    BY <1>6 DEF NotifyRouter, Goto, rest
  <2>2. l \in Local /\ l.since = task["sync"].since /\ l.at = "config"
    BY <1>1, <1>2 DEF Local
  <2> HIDE DEF l
  <2>3. l.since <= now
    BY <1>1, <1>2, <2>2
  <2>4. RestTyped
    BY <2>1, UnchangedIsTyped, FaultIsTyped DEF RestTyped
  <2> QED
    BY <1>1, <2>1, <2>2, <2>3, <2>4, OwnStep, OwnEnd
<1> QED
  BY <1>3, <1>4, <1>5, <1>6

(* The clock. *)
LEMMA TickBase ==
  ASSUME Base, Tick
  PROVE  Base' /\ now' = now + 1 /\ UNCHANGED <<app, status, task, woken>>
<1>1. now' = now + 1 /\ UNCHANGED <<app, wanted, news, status, task, asked, faults, woken>> /\ now < MaxTime
  BY DEF Tick
<1>2. now \in Nat /\ now' \in 1..MaxTime /\ now \in 1..MaxTime
  BY <1>1, Constants DEF Base, TypeOK
<1>3. Timed'
  <2> SUFFICES ASSUME NEW p \in Tasks PROVE task[p].since <= now'
    BY <1>1 DEF Timed
  <2>1. task[p].since \in Nat /\ task[p].since <= now
    BY TasksAreTyped
  <2> QED
    BY <1>1, <1>2, <2>1
<1> QED
  BY <1>1, <1>2, <1>3 DEF Base, TypeOK, RoomToResume, At

(* The initial states. *)
LEMMA ScalingInitIInv == Init => ScalingIInv
<1> SUFFICES ASSUME Init PROVE ScalingIInv
  OBVIOUS
<1>1. \A p \in Tasks : task[p] = Free
  BY DEF Init
<1>2. Free \in Local /\ Free.since = 0 /\ Free.at = "idle"
  BY DEF Free, Local, NoRow, Row, Points
<1>3. task \in [Tasks -> Local]
  BY <1>2 DEF Init
<1>4. app \in Row
  <2>1. wanted \in Nat
    BY Constants DEF Init
  <2> QED
    BY <2>1 DEF Init, Row
<1>5. now = 1 /\ now \in 1..MaxTime /\ asked \in 0..MaxAsked /\ faults \in 0..MaxFaults
  BY TimeAssumption DEF Init
<1>6. status \in [Places -> States]
  BY DEF Init, States
<1>7. TypeOK
  BY <1>3, <1>4, <1>5, <1>6 DEF Init, TypeOK, States
<1>8. Timed /\ RoomToResume
  BY <1>1, <1>2, <1>5 DEF Timed, RoomToResume, At
<1>9. Asleep
  BY DEF Init, Asleep
<1> QED
  BY <1>7, <1>8, <1>9 DEF ScalingIInv, Base

(*--------------------------------- Asleep --------------------------------*)
(* A step that ends, pauses or fails a job, or none, activates none. *)
Quiet ==
  \/ status' = status
  \/ \E j \in Places : \/ status' = [status EXCEPT ![j] = "none"]
                       \/ SetStatus(j, "paused") \/ SetStatus(j, "failed")

(* What is active after such a step was active before. *)
LEMMA QuietActivatesNone == ASSUME Base, Quiet PROVE Active' \subseteq Active
<1>1. status \in [Places -> States]
  BY TasksAreTyped DEF States
<1>2. ASSUME NEW i \in Places, status'[i] \in {"scheduled", "running"} PROVE status'[i] = status[i]
  BY <1>1, <1>2 DEF Quiet, SetStatus
<1> QED
  BY <1>2 DEF Active

(* Time does not take the mark away, nor does a change of the row's other columns. *)
LEMMA MarkStays ==
  ASSUME Base, Base', now' = now \/ now' = now + 1, NEW line \in Row, MarkedIdle(line, now),
         NEW other \in Row, other.traffic = line.traffic, other.zeroed = line.zeroed
  PROVE  MarkedIdle(other, now')
<1>1. now \in Nat /\ line.zeroed \in Nat
  BY TasksAreTyped DEF Row
<1> QED
  BY <1>1 DEF MarkedIdle

(* Steps that are none of the reconciler's, and leave the row alone. *)
LEMMA OthersSleep ==
  ASSUME ScalingIInv, Autoscaling, woken = "no", Base',
         \A q \in {"reconciler", "router", "api", "monitor"} : task'[q] = task[q],
         app' = app, now' = now \/ now' = now + 1
  PROVE  Asleep'
<1>1. MinReplicas = 0 /\ CopiesMarked /\ NobodyScalesUp
  BY DEF ScalingIInv, Asleep
<1>2. app \in Row /\ Copy \in Row /\ task["monitor"].copy \in Row
  BY TasksAreTyped, CopyIsTyped DEF ScalingIInv, Tasks
<1>3. NobodyScalesUp'
  BY <1>1 DEF NobodyScalesUp, At
<1>4. \A line \in Row : MarkedIdle(line, now) => MarkedIdle(line, now')
  BY MarkStays DEF ScalingIInv
<1>5. Copy' = Copy /\ Since' = Since
  BY DEF Copy, Since
<1>6. CopiesMarked'
  BY <1>1, <1>2, <1>4, <1>5 DEF CopiesMarked, At
<1> QED
  BY <1>1, <1>3, <1>6 DEF Asleep

(* The handler of VM failures writes back a marked row. *)
LEMMA MonitorSleeps ==
  ASSUME ScalingIInv, Autoscaling, woken = "no",
         (\E j \in Places : VmFails(j)) \/ LoadRow \/ SetBackoff
  PROVE  Asleep' /\ Quiet
<1>1. MinReplicas = 0 /\ CopiesMarked /\ NobodyScalesUp /\ Base
  BY DEF ScalingIInv, Asleep
<1>2. /\ Base' /\ \A q \in Tasks : q # "monitor" => task'[q] = task[q]
      /\ now' = now /\ woken' = woken
      /\ At("monitor", "setBackoff")' => task'["monitor"].copy = app
      /\ \/ app' = app
         \/ /\ At("monitor", "setBackoff") /\ app'.traffic = task["monitor"].copy.traffic
            /\ app'.zeroed = task["monitor"].copy.zeroed
      /\ status' = status \/ \E j \in Places : SetStatus(j, "failed")
  BY <1>1, MonitorBase
<1>3. app \in Row /\ app' \in Row /\ task["monitor"].copy \in Row
  BY <1>1, <1>2, TasksAreTyped DEF Tasks, Base, TypeOK
<1>4. task'["reconciler"] = task["reconciler"] /\ task'["router"] = task["router"] /\ task'["api"] = task["api"]
  BY <1>2 DEF Tasks
<1>5. MarkedIdle(app', now')
  BY <1>1, <1>2, <1>3, MarkStays DEF CopiesMarked
<1>6. MarkedIdle(app, now')
  BY <1>1, <1>2 DEF CopiesMarked
<1>7. CopiesMarked'
  BY <1>1, <1>2, <1>4, <1>5, <1>6 DEF CopiesMarked, At, Copy, Since
<1>8. NobodyScalesUp'
  BY <1>1, <1>4 DEF NobodyScalesUp, At
<1> QED
  BY <1>1, <1>2, <1>7, <1>8 DEF Asleep, Quiet

(* The reconciler finds the application idle. *)
LEMMA MarkIdleSleeps ==
  ASSUME ScalingIInv, Autoscaling, MarkIdle
  PROVE  Asleep' /\ Quiet
<1>1. Base
  BY DEF ScalingIInv
<1>2. /\ Base' /\ \A q \in Tasks : q # "reconciler" => task'[q] = task[q]
      /\ task'["reconciler"].at = "count" /\ task'["reconciler"].goal = 0
      /\ task'["reconciler"].then = "idle"
      /\ app' = [Copy EXCEPT !.zeroed = Since]
      /\ now' = now /\ status' = status
  BY <1>1, MarkIdleBase
<1> SUFFICES ASSUME woken' = "no" PROVE MinReplicas = 0 /\ CopiesMarked' /\ NobodyScalesUp'
  BY <1>2 DEF Asleep, Quiet
<1>3. /\ MinReplicas = 0 /\ Copy.traffic > 0 /\ Since >= Copy.traffic + IdleTimeout
      /\ woken = "no" \/ AtRest
  BY DEF MarkIdle, Idle
<1>4. /\ At("router", "idle") /\ At("api", "idle")
      /\ At("monitor", "setBackoff") => MarkedIdle(task["monitor"].copy, now)
  <2>1. CASE AtRest
    BY <2>1 DEF AtRest, At, Tasks
  <2>2. CASE woken = "no"
    BY <2>2 DEF ScalingIInv, Asleep, CopiesMarked, NobodyScalesUp
  <2> QED
    BY <1>3, <2>1, <2>2
<1>5. task'["router"] = task["router"] /\ task'["api"] = task["api"] /\ task'["monitor"] = task["monitor"]
  BY <1>2 DEF Tasks
<1>6. Copy \in Row /\ Since <= now
  BY <1>1, CopyIsTyped
<1>7. app'.traffic = Copy.traffic /\ app'.zeroed = Since
  BY <1>2, <1>6 DEF Row
<1>8. MarkedIdle(app', now)
  BY <1>3, <1>6, <1>7 DEF MarkedIdle
<1>9. CopiesMarked'
  BY <1>2, <1>4, <1>5, <1>8 DEF CopiesMarked, At
<1>10. NobodyScalesUp'
  BY <1>2, <1>4, <1>5 DEF NobodyScalesUp, At
<1> QED
  BY <1>3, <1>9, <1>10

(* The reconciler's other decisions: none wakes an application that is marked. *)
LEMMA DecidesSleeps ==
  ASSUME ScalingIInv, Autoscaling, woken = "no", Decides \/ Marks
  PROVE  Asleep' /\ Quiet
<1>1. MinReplicas = 0 /\ CopiesMarked /\ NobodyScalesUp /\ Base
  BY DEF ScalingIInv, Asleep
<1>2. /\ Base' /\ \A q \in Tasks : q # "reconciler" => task'[q] = task[q]
      /\ UNCHANGED <<news, status, faults, rest>>
  BY <1>1, DecidesBase
<1>3. ~ Marks
  BY <1>1 DEF NobodyScalesUp, Marks, MarkRestored, MarkMinimum, MarkAutoscaled, At
<1>4. At("reconciler", "decide")
  BY <1>3 DEF Decides, MarkUnborn, Restore, RaiseToMinimum, Autoscale, ScaleManually
<1>5. MarkedIdle(Copy, now) /\ Copy.zeroed <= Since
  BY <1>1, <1>4 DEF CopiesMarked
<1>6. /\ Copy \in Row /\ Seen \in Nat /\ Since \in Nat
      /\ Copy.traffic \in Nat /\ Copy.zeroed \in Nat
  BY <1>1, CopyIsTyped DEF Row
<1>7. /\ Copy.traffic > 0 /\ Copy.traffic <= Copy.zeroed /\ Copy.zeroed # 0
      /\ Since >= Copy.traffic + IdleTimeout
  BY <1>5, <1>6, Constants DEF MarkedIdle
<1>8. ~ Unborn /\ ~ Restorable /\ (Seen > 0 => Idle)
  BY <1>1, <1>6, <1>7 DEF Unborn, Restorable, Idle
<1>9. PICK load \in Loads : Autoscale(load)
  BY <1>1, <1>3, <1>8, Constants
     DEF Decides, MarkUnborn, Restore, RaiseToMinimum, ScaleManually
<1>10. Seen = 0 /\ load = "none"
  BY <1>6, <1>8, <1>9 DEF Autoscale, Steady
<1>11. End("reconciler") /\ app' = app
  BY <1>6, <1>9, <1>10, NextReplicasIsTyped DEF Autoscale
<1>12. now' = now
  BY <1>2 DEF rest
<1>13. task'["reconciler"] = Free
  BY <1>1, <1>11, <1>12, Ended DEF Tasks
<1>14. /\ task'["router"] = task["router"] /\ task'["api"] = task["api"]
       /\ task'["monitor"] = task["monitor"] /\ Free.at = "idle"
  BY <1>2 DEF Tasks, Free
<1>15. CopiesMarked' /\ NobodyScalesUp'
  BY <1>1, <1>11, <1>12, <1>13, <1>14 DEF CopiesMarked, NobodyScalesUp, At
<1> QED
  BY <1>1, <1>2, <1>15 DEF Asleep, Quiet

(* The reconciler reads a marked row, and keeps the mark. *)
LEMMA ReadsSleep ==
  ASSUME ScalingIInv, Autoscaling, woken = "no", ReadApps \/ SurveyJobs
  PROVE  Asleep' /\ Quiet
<1>1. MinReplicas = 0 /\ CopiesMarked /\ NobodyScalesUp /\ Base
  BY DEF ScalingIInv, Asleep
<1>2. CASE ReadApps
  <2>1. /\ \A q \in Tasks : q # "reconciler" => task'[q] = task[q]
        /\ task'["reconciler"].at = "survey" /\ task'["reconciler"].copy = app
        /\ UNCHANGED <<app, news, status, faults, rest>>
    BY <1>1, <1>2, ReadAppsBase
  <2>2. /\ task'["router"] = task["router"] /\ task'["api"] = task["api"]
        /\ task'["monitor"] = task["monitor"] /\ now' = now
    BY <2>1 DEF Tasks, rest
  <2>3. CopiesMarked' /\ NobodyScalesUp'
    BY <1>1, <2>1, <2>2 DEF CopiesMarked, NobodyScalesUp, At, Copy
  <2> QED
    BY <1>1, <2>1, <2>3 DEF Asleep, Quiet
<1>3. CASE SurveyJobs
  <2>1. /\ Base' /\ \A q \in Tasks : q # "reconciler" => task'[q] = task[q]
        /\ task'["reconciler"].at = "decide" /\ task'["reconciler"].since = now
        /\ Copy.traffic # 0 => Copy'.traffic = Copy.traffic
        /\ Copy'.zeroed = Copy.zeroed
        /\ app' = app \/ app' = Copy'
        /\ UNCHANGED <<news, status, faults, rest>>
    BY <1>1, <1>3, SurveyJobsBase
  <2>2. /\ task'["router"] = task["router"] /\ task'["api"] = task["api"]
        /\ task'["monitor"] = task["monitor"] /\ now' = now /\ Since' = now
    BY <2>1 DEF Tasks, rest, Since
  <2>3. At("reconciler", "survey")
    BY <1>3 DEF SurveyJobs
  <2>4. MarkedIdle(Copy, now)
    BY <1>1, <2>3 DEF CopiesMarked
  <2>5. Copy' \in Row /\ Copy \in Row
    <3>1. "reconciler" \in Tasks /\ task' \in [Tasks -> Local]
      BY <2>1 DEF Base, TypeOK, Tasks
    <3>2. task'["reconciler"] \in Local
      BY <3>1
    <3> QED
      BY <1>1, <3>2, CopyIsTyped DEF Copy, Local
  <2>6. Copy'.traffic = Copy.traffic
    BY <2>1, <2>4, <2>5 DEF MarkedIdle, Row
  <2>7. MarkedIdle(Copy', now') /\ Copy'.zeroed <= now
    BY <2>1, <2>2, <2>4, <2>6 DEF MarkedIdle
  <2>8. MarkedIdle(app', now')
    BY <1>1, <2>1, <2>2, <2>7 DEF CopiesMarked
  <2>9. CopiesMarked'
    BY <1>1, <2>2, <2>7, <2>8 DEF CopiesMarked, At
  <2>10. NobodyScalesUp'
    BY <1>1, <2>1, <2>2 DEF NobodyScalesUp, At
  <2> QED
    BY <1>1, <2>1, <2>9, <2>10 DEF Asleep, Quiet
<1> QED
  BY <1>2, <1>3

(* The reconciler pauses what is left, and goes back to sleep. *)
LEMMA ScaleSleeps ==
  ASSUME ScalingIInv, Autoscaling, woken = "no", Scale("reconciler")
  PROVE  Asleep' /\ Quiet
<1> DEFINE t == task["reconciler"]
<1>1. MinReplicas = 0 /\ CopiesMarked /\ NobodyScalesUp /\ Base /\ "reconciler" \in Tasks
  BY DEF ScalingIInv, Asleep, Tasks
<1>2. ScaledBy("reconciler")
  BY <1>1, ScaleBase
<1>3. t.at \in {"idle", "survey", "decide", "count", "shrink", "pausing"}
  BY <1>1 DEF NobodyScalesUp
<1>4. \/ CountReplicas("reconciler")
      \/ \E j \in Places : \/ DeleteJob("reconciler", j) \/ CheckPause("reconciler", j)
                           \/ PauseJob("reconciler", j)
      \/ Shrunk("reconciler")
  BY <1>3 DEF Scale, FindSpare, ResumeJob, Resumed, DeployBegins, DeployEnds, Grown, At
<1>5. t.at \in {"count", "shrink", "pausing"}
  BY <1>4 DEF CountReplicas, DeleteJob, CheckPause, PauseJob, Shrunk, At
<1>6. t.goal = 0 /\ t.then = "idle"
  BY <1>1, <1>5 DEF NobodyScalesUp
<1>7. /\ Quiet
      /\ \/ task'["reconciler"] = Free
         \/ /\ task'["reconciler"].at \in {"shrink", "pausing"}
            /\ task'["reconciler"].goal = 0 /\ task'["reconciler"].then = "idle"
  <2>1. CASE CountReplicas("reconciler")
    BY <1>1, <1>6, <2>1, CountReplicasBase DEF Quiet
  <2>2. CASE \/ \E j \in Places : \/ DeleteJob("reconciler", j) \/ CheckPause("reconciler", j)
                                  \/ PauseJob("reconciler", j)
             \/ Shrunk("reconciler")
    BY <1>1, <1>6, <2>2, ShrinkBase DEF Quiet, Shrinking
  <2> QED
    BY <1>4, <2>1, <2>2
<1>8. /\ task'["router"] = task["router"] /\ task'["api"] = task["api"]
      /\ task'["monitor"] = task["monitor"] /\ app' = app /\ now' = now
  BY <1>2 DEF ScaledBy, Tasks
<1>9. Free.at = "idle"
  BY DEF Free
<1>10. CopiesMarked' /\ NobodyScalesUp'
  BY <1>1, <1>7, <1>8, <1>9 DEF CopiesMarked, NobodyScalesUp, At
<1> QED
  BY <1>1, <1>7, <1>10 DEF Asleep

(*--------------------------------- Next ----------------------------------*)
(* Every step keeps the types. *)
LEMMA BaseStays == Base /\ [Next]_vars => Base'
<1> SUFFICES ASSUME Base, [Next]_vars PROVE Base'
  OBVIOUS
<1>1. CASE Reconciler
  <2>1. "reconciler" \in Tasks
    BY DEF Tasks
  <2>2. Scale("reconciler") => Base'
    BY <2>1, ScaleBase DEF ScaledBy
  <2> QED
    BY <1>1, <2>2, ReadAppsBase, SurveyJobsBase, MarkIdleBase, DecidesBase
       DEF Reconciler, Decides, Marks
<1>2. CASE Visit \/ Router
  <2>1. "router" \in Tasks
    BY DEF Tasks
  <2>2. Scale("router") => Base'
    BY <2>1, ScaleBase DEF ScaledBy
  <2> QED
    BY <1>2, <2>2, RouterBase DEF Router
<1>3. CASE Scale("api")
  <2>1. "api" \in Tasks
    BY DEF Tasks
  <2> QED
    BY <1>3, <2>1, ScaleBase DEF ScaledBy
<1>4. CASE UNCHANGED vars
  BY <1>4 DEF vars, Base, TypeOK, Timed, RoomToResume, At
<1> QED
  BY <1>1, <1>2, <1>3, <1>4, MonitorBase, ApiBase, TickBase DEF Next

(* As long as an autoscaled application sleeps, no step activates a job, and it goes on sleeping. *)
LEMMA SleepStays ==
  ASSUME ScalingIInv, [Next]_vars, Autoscaling
  PROVE  Asleep' /\ (woken = "no" => Active' \subseteq Active)
<1>1. Base /\ Base'
  BY BaseStays DEF ScalingIInv
<1>2. CASE woken # "no" /\ ~ MarkIdle
  <2>1. woken' # "no"
    <3>1. CASE UNCHANGED vars
      BY <1>2, <3>1 DEF vars
    <3>2. CASE Reconciler
      <4>1. "reconciler" \in Tasks
        BY DEF Tasks
      <4>2. Scale("reconciler") => woken' = woken
        BY <1>1, <4>1, ScaleBase DEF ScaledBy
      <4> QED
        BY <1>1, <1>2, <3>2, <4>2, ReadAppsBase, SurveyJobsBase, DecidesBase
           DEF Reconciler, Decides, Marks, rest
    <3>3. CASE Visit \/ Router \/ Scale("api")
      <4>1. "router" \in Tasks /\ "api" \in Tasks
        BY DEF Tasks
      <4>2. Scale("router") \/ Scale("api") => woken' = woken
        BY <1>1, <4>1, ScaleBase DEF ScaledBy
      <4>3. Visit \/ RecordVisit \/ Probe \/ MarkVisited => woken' \in {"asked", woken}
        BY <1>1, RouterBase
      <4> QED
        BY <1>2, <3>3, <4>2, <4>3 DEF Router
    <3>4. CASE \/ \E n \in Wanted : RequestScale(n)
               \/ WriteConfig("api") \/ WriteConfig("sync") \/ Synchronise \/ NotifyRouter
      BY <1>2, <3>4 DEF RequestScale, Ask, WriteConfig, Synchronise, NotifyRouter, rest
    <3>5. CASE (\E j \in Places : VmFails(j)) \/ LoadRow \/ SetBackoff
      BY <1>1, <1>2, <3>5, MonitorBase
    <3>6. CASE Tick
      BY <1>2, <3>6 DEF Tick
    <3> QED
      BY <3>1, <3>2, <3>3, <3>4, <3>5, <3>6 DEF Next
  <2> QED
    BY <1>2, <2>1 DEF Asleep
<1>3. CASE MarkIdle
  BY <1>1, <1>3, MarkIdleSleeps, QuietActivatesNone
<1>4. CASE woken = "no" /\ ~ MarkIdle
  <2>1. At("router", "idle") /\ At("api", "idle")
    BY <1>4 DEF ScalingIInv, Asleep, NobodyScalesUp
  <2>2. ~ Scale("router") /\ ~ Scale("api")
    BY <2>1 DEF Scale, CountReplicas, FindSpare, Resumed, DeployBegins, Grown, Shrunk, ResumeJob,
                DeployEnds, DeleteJob, CheckPause, PauseJob, At
  <2>3. CASE Reconciler
    BY <1>1, <1>4, <2>3, ReadsSleep, DecidesSleeps, ScaleSleeps, QuietActivatesNone
       DEF Reconciler, Decides, Marks
  <2>4. CASE Visit \/ Router
    <3>1. Visit \/ RecordVisit \/ Probe \/ MarkVisited
      BY <2>2, <2>4 DEF Router
    <3>2. status' = status /\ woken' = "asked"
      BY <1>1, <2>1, <3>1, RouterBase
    <3> QED
      BY <1>1, <3>2, QuietActivatesNone DEF Quiet, Asleep
  <2>5. CASE \/ \E n \in Wanted : RequestScale(n)
             \/ WriteConfig("api") \/ WriteConfig("sync") \/ Synchronise \/ NotifyRouter
    <3>1. /\ status' = status
          /\ \/ woken' # "no" \/ ~ At("api", "idle")
             \/ /\ \A q \in Tasks : q # "sync" => task'[q] = task[q]
                /\ UNCHANGED <<app, now, woken>>
      BY <1>1, <2>5, ApiBase
    <3>2. CASE woken' # "no"
      BY <1>1, <3>1, <3>2, QuietActivatesNone DEF Quiet, Asleep
    <3>3. CASE (\A q \in Tasks : q # "sync" => task'[q] = task[q]) /\ UNCHANGED <<app, now, woken>>
      <4>1. \A q \in {"reconciler", "router", "api", "monitor"} : task'[q] = task[q]
        BY <3>3 DEF Tasks
      <4> QED
        BY <1>1, <1>4, <3>1, <3>3, <4>1, OthersSleep, QuietActivatesNone DEF Quiet
    <3> QED
      BY <2>1, <3>1, <3>2, <3>3
  <2>6. CASE (\E j \in Places : VmFails(j)) \/ LoadRow \/ SetBackoff
    BY <1>1, <1>4, <2>6, MonitorSleeps, QuietActivatesNone
  <2>7. CASE Tick
    BY <1>1, <1>4, <2>7, TickBase, OthersSleep, QuietActivatesNone DEF Quiet
  <2>8. CASE UNCHANGED vars
    BY <1>1, <1>4, <2>8, OthersSleep, QuietActivatesNone DEF vars, Quiet
  <2> QED
    BY <2>2, <2>3, <2>4, <2>5, <2>6, <2>7, <2>8 DEF Next
<1> QED
  BY <1>2, <1>3, <1>4

(* Every step keeps the invariant. *)
LEMMA ScalingNextIInv == ScalingIInv /\ [Next]_vars => ScalingIInv'
BY BaseStays, SleepStays DEF ScalingIInv, Asleep

(* The invariant holds of the specification. *)
LEMMA ScalingIInvHolds == Spec => []ScalingIInv
BY ScalingInitIInv, ScalingNextIInv, PTL DEF Spec

(*-------------------------------- Theorems -------------------------------*)
(* The tables, the row and the five tasks have the types they should, for every number of places, *)
(* replicas and failures.                                                                         *)
THEOREM ScalingTypeCorrect == Spec => []TypeOK
<1>1. ScalingIInv => TypeOK
  BY DEF ScalingIInv, Base
<1> QED
  BY <1>1, ScalingIInvHolds, PTL

(* reconcile_idle_timeout, reconcile_restore_from_zero: an autoscaled application that was found *)
(* idle and has no replica left gets none before it is asked for or the API rewrites its row.    *)
THEOREM IdleStaysAtZero == Spec => WakesOnlyOnDemand
<1>1. ScalingIInv /\ [Next]_vars => [Autoscaling /\ woken = "no" /\ Count = 0 => Active' = {}]_vars
  <2> SUFFICES ASSUME ScalingIInv, [Next]_vars, Autoscaling, woken = "no", Count = 0
               PROVE  Active' = {}
    OBVIOUS
  <2>1. Active = {}
    BY ReplicasAreCounted
  <2>2. Active' \subseteq Active
    BY SleepStays
  <2> QED
    BY <2>1, <2>2
<1> QED
  BY <1>1, ScalingIInvHolds, PTL DEF Spec, WakesOnlyOnDemand

(*--------------------------------- Fleet ---------------------------------*)
(* The parts of FleetTypeOK, by who writes them. *)
RegistryTypes ==
  /\ up \subseteq Nodes /\ row \in [Nodes -> {"none", "fresh", "old"}]
  /\ counted \in [Workers -> (SUBSET Jobs) \cup {None}]
  /\ late \in (Nodes \X SUBSET Jobs) \cup {None}
PlacementTypes ==
  /\ job \in [Jobs -> [st : {"none", "scheduled", "running", "ended"}, host : Workers \cup {None}]]
  /\ vms \in [Workers -> SUBSET Jobs] /\ blind \subseteq Workers
MeshTypes ==
  /\ sending \in [Broadcasts -> Peerings \cup {None}] /\ inbox \in Peerings \cup {None}
  /\ dev \in Peerings \cup {None} /\ cache \in Peerings \cup {None}
BoundTypes == changes \in 0 .. MaxChange /\ rare \subseteq Failures

(* No update on its way has the node itself among its peers. *)
NotOwnPeer(u) == u # None => Here \notin u.peers
OwnPeerInv == (\A t \in Broadcasts : NotOwnPeer(sending[t])) /\ NotOwnPeer(inbox) /\ NotOwnPeer(dev)

(* What is placed on a worker, started or not, has room there. *)
PlacedInv == \A w \in Workers \ blind : Cardinality(Placed(w)) <= Slots

(* A node that is down remembers nothing. *)
RememberInv == RememberedIsOnDevice /\ (Here \notin up => cache = None)

FleetTypes == RegistryTypes /\ PlacementTypes /\ MeshTypes /\ BoundTypes
FleetIInv == FleetTypes /\ OwnPeerInv /\ PlacedInv /\ RememberInv

(* An update is made of the nodes and jobs, without the node it is for. *)
LEMMA UpdateIsTyped ==
  ASSUME NEW ips \in [Nodes -> SUBSET Jobs]
  PROVE  Update(ips) \in Peerings /\ NotOwnPeer(Update(ips))
BY DEF Update, Peerings, NotOwnPeer, ActiveNodes

(* What the jobs' rows say is a set of jobs for each node. *)
LEMMA JobsAreTyped == AllJobs \in [Nodes -> SUBSET Jobs] /\ NoJobs \in [Nodes -> SUBSET Jobs]
BY FleetAssumption DEF AllJobs, NoJobs, JobsOn

(* A new device knows of nobody. *)
LEMMA AloneIsTyped == Alone \in Peerings /\ NotOwnPeer(Alone)
BY DEF Alone, Peerings, NotOwnPeer

(* A peer less is an update still. *)
LEMMA WithoutIsTyped ==
  ASSUME NEW u \in Peerings, NotOwnPeer(u), NEW p, u # None
  PROVE  Without(u, p) \in Peerings /\ NotOwnPeer(Without(u, p))
BY DEF Without, Peerings, NotOwnPeer

(* What is placed on a worker is a finite set. *)
LEMMA PlacedIsFinite ==
  ASSUME PlacementTypes, NEW w \in Workers
  PROVE  IsFiniteSet(Placed(w)) /\ IsFiniteSet(vms[w]) /\ vms[w] \subseteq Placed(w)
<1>1. Placed(w) \subseteq Jobs
  BY DEF Placed, PlacementTypes
<1>2. vms[w] \subseteq Placed(w)
  BY DEF Placed
<1> QED
  BY <1>1, <1>2, FS_Subset, FleetAssumption

(* The initial state satisfies the invariant. *)
LEMMA FleetInitIInv == FleetInit => FleetIInv
<1> SUFFICES ASSUME FleetInit PROVE FleetIInv
  OBVIOUS
<1>1. RegistryTypes /\ PlacementTypes
  <2>1. up \subseteq Nodes /\ row \in [Nodes -> {"none", "fresh", "old"}] /\ late = None
    BY DEF FleetInit
  <2>2. counted \in [Workers -> (SUBSET Jobs) \cup {None}]
    BY DEF FleetInit
  <2>3. PlacementTypes
    BY DEF FleetInit, PlacementTypes
  <2> QED
    BY <2>1, <2>2, <2>3 DEF RegistryTypes
<1>2. MeshTypes /\ OwnPeerInv
  BY AloneIsTyped DEF FleetInit, MeshTypes, OwnPeerInv, NotOwnPeer
<1>3. BoundTypes
  BY FleetAssumption DEF FleetInit, BoundTypes
<1>4. PlacedInv
  <2> SUFFICES ASSUME NEW w \in Workers PROVE Cardinality(Placed(w)) <= Slots
    BY DEF PlacedInv
  <2>1. Placed(w) = {}
    BY DEF Placed, FleetInit
  <2> QED
    BY <2>1, FS_EmptySet, FleetAssumption
<1>5. RememberInv
  BY DEF RememberInv, RememberedIsOnDevice, FleetInit
<1> QED
  BY <1>1, <1>2, <1>3, <1>4, <1>5 DEF FleetIInv, FleetTypes

(* Placements survive what leaves jobs and VMs alone. *)
LEMMA PlacedUnchanged ==
  ASSUME PlacedInv, UNCHANGED placement
  PROVE  PlacedInv'
BY DEF PlacedInv, Placed, placement

(* ... and what places nothing new. *)
LEMMA PlacedFewer ==
  ASSUME PlacedInv, PlacementTypes, UNCHANGED blind,
         \A w \in Workers : Placed(w)' \subseteq Placed(w)
  PROVE  PlacedInv'
<1> SUFFICES ASSUME NEW w \in Workers \ blind PROVE Cardinality(Placed(w)') <= Slots
  BY DEF PlacedInv
<1>1. Cardinality(Placed(w)) <= Slots
  BY DEF PlacedInv
<1>2. IsFiniteSet(Placed(w))
  BY PlacedIsFinite
<1>3. Placed(w)' \subseteq Placed(w)
  OBVIOUS
<1>4. Cardinality(Placed(w)') <= Cardinality(Placed(w)) /\ IsFiniteSet(Placed(w)')
  BY <1>2, <1>3, FS_Subset
<1>5. Cardinality(Placed(w)) \in Nat /\ Cardinality(Placed(w)') \in Nat
  BY <1>2, <1>4, FS_CardinalityType
<1> QED
  BY <1>1, <1>4, <1>5, FleetAssumption

(* A failure is remembered. *)
LEMMA RareGrows ==
  ASSUME BoundTypes, NEW e \in Failures, Rare(e)
  PROVE  rare' \subseteq Failures /\ rare \subseteq rare' /\ e \in rare'
BY DEF BoundTypes, Rare

(* Heartbeats and the age of rows. *)
LEMMA HeartbeatsIInv ==
  ASSUME FleetIInv, NEW n \in Nodes,
         Heartbeat(n) \/ HeartbeatDelayed(n) \/ Age(n) \/ HeartbeatLate
  PROVE  FleetIInv'
<1> USE DEF FleetIInv, FleetTypes
<1>1. UNCHANGED <<up, placement, mesh, changes>>
  BY DEF Heartbeat, HeartbeatDelayed, Age, HeartbeatLate
<1>2. rare' \subseteq Failures /\ rare \subseteq rare'
  <2>1. UNCHANGED rare \/ Rare("fault")
    BY DEF Heartbeat, HeartbeatDelayed, Age, HeartbeatLate
  <2> QED
    BY <2>1, RareGrows DEF Failures, BoundTypes
<1>3. RegistryTypes'
  <2>1. ASSUME NEW v \in Nodes PROVE VmsSeen(v) \subseteq SUBSET Jobs
    BY <2>1 DEF VmsSeen, PlacementTypes
  <2>2. ASSUME NEW v \in Nodes, NEW s \in SUBSET Jobs, UpdateMetrics(v, s)
        PROVE  counted' \in [Workers -> (SUBSET Jobs) \cup {None}]
    BY <2>2 DEF UpdateMetrics, RegistryTypes
  <2>3. ASSUME NEW v \in Nodes, Registered(v) PROVE row' \in [Nodes -> {"none", "fresh", "old"}]
    BY <2>3 DEF Registered, RegistryTypes
  <2>4. CASE Heartbeat(n)
    BY <2>1, <2>2, <2>3, <2>4 DEF Heartbeat, RegistryTypes
  <2>5. CASE HeartbeatDelayed(n)
    BY <2>1, <2>5 DEF HeartbeatDelayed, RegistryTypes
  <2>6. CASE Age(n)
    BY <2>6 DEF Age, RegistryTypes
  <2>7. CASE HeartbeatLate
    <3>1. late[1] \in Nodes /\ late[2] \in SUBSET Jobs
      BY <2>7 DEF HeartbeatLate, RegistryTypes
    <3> QED
      BY <3>1, <2>2, <2>3, <2>7 DEF HeartbeatLate, RegistryTypes
  <2> QED
    BY <2>4, <2>5, <2>6, <2>7
<1>4. PlacementTypes' /\ MeshTypes' /\ OwnPeerInv'
  BY <1>1 DEF placement, mesh, PlacementTypes, MeshTypes, OwnPeerInv, NotOwnPeer
<1>5. BoundTypes'
  BY <1>1, <1>2 DEF BoundTypes
<1>6. PlacedInv'
  BY <1>1, <1>2, PlacedUnchanged
<1>7. RememberInv'
  BY <1>1, <1>2 DEF mesh, RememberInv, RememberedIsOnDevice
<1> QED
  BY <1>3, <1>4, <1>5, <1>6, <1>7

(* A worker is chosen: its metrics count all that has been placed there, or the choice was blind. *)
LEMMA SelectIInv ==
  ASSUME FleetIInv, NEW j \in Jobs, NEW w \in Workers, SelectBestWorker(j, w)
  PROVE  FleetIInv'
<1> USE DEF FleetIInv, FleetTypes
<1>1. UNCHANGED <<up, registry, vms, mesh, changes, rare>>
  BY DEF SelectBestWorker
<1>2. RegistryTypes' /\ MeshTypes' /\ OwnPeerInv'
  BY <1>1 DEF registry, mesh, RegistryTypes, MeshTypes, OwnPeerInv, NotOwnPeer
<1>3. PlacementTypes'
  BY <1>1 DEF SelectBestWorker, PlacementTypes
<1>4. blind \subseteq blind' /\ BoundTypes'
  BY <1>1 DEF SelectBestWorker, BoundTypes
<1>5. RememberInv'
  BY <1>1, <1>4 DEF mesh, RememberInv, RememberedIsOnDevice
<1>6. PlacedInv'
  <2> SUFFICES ASSUME NEW v \in Workers \ blind'
               PROVE  Cardinality(Placed(v)') <= Slots
    BY DEF PlacedInv
  <2>1. Cardinality(Placed(v)) <= Slots
    BY <1>4 DEF PlacedInv
  <2>2. v = w => Placed(w) \subseteq counted[w] /\ Cardinality(counted[w]) < Slots
    BY DEF SelectBestWorker, CanFitVm
  <2>3. CASE v # w
    <3>1. Placed(v)' = Placed(v)
      BY <1>1, <2>3 DEF SelectBestWorker, Placed, PlacementTypes
    <3> QED
      BY <3>1, <2>1
  <2>4. CASE v = w
    <3>1. Placed(w)' = Placed(w) \cup {j}
      BY <1>1 DEF SelectBestWorker, Placed, PlacementTypes
    <3>2. IsFiniteSet(Placed(w))
      BY PlacedIsFinite
    <3>3. /\ IsFiniteSet(Placed(w) \cup {j})
          /\ \/ Cardinality(Placed(w) \cup {j}) = Cardinality(Placed(w))
             \/ Cardinality(Placed(w) \cup {j}) = Cardinality(Placed(w)) + 1
      BY <3>2, FS_AddElement
    <3>4. IsFiniteSet(counted[w])
      <4>1. counted[w] \subseteq Jobs
        BY DEF SelectBestWorker, Available, RegistryTypes
      <4> QED
        BY <4>1, FS_Subset, FleetAssumption
    <3>5. Cardinality(Placed(w)) <= Cardinality(counted[w])
      BY <2>2, <2>4, <3>4, FS_Subset
    <3>6. Cardinality(Placed(w)) \in Nat /\ Cardinality(counted[w]) \in Nat
      BY <3>2, <3>4, FS_CardinalityType
    <3> QED
      BY <2>2, <2>4, <3>1, <3>3, <3>5, <3>6, FleetAssumption
  <2> QED
    BY <2>3, <2>4
<1> QED
  BY <1>2, <1>3, <1>4, <1>5, <1>6

(* The later life of a job: its VM was counted where it was placed. *)
LEMMA JobsIInv ==
  ASSUME FleetIInv, NEW j \in Jobs, NoWorkerFits(j) \/ StartVm(j) \/ EndJob(j)
  PROVE  FleetIInv'
<1> USE DEF FleetIInv, FleetTypes
<1>1. UNCHANGED <<up, registry, mesh, changes, blind, rare>>
  BY DEF NoWorkerFits, StartVm, EndJob
<1>2. RegistryTypes' /\ MeshTypes' /\ OwnPeerInv' /\ BoundTypes' /\ RememberInv'
  BY <1>1 DEF registry, mesh, RegistryTypes, MeshTypes, OwnPeerInv, NotOwnPeer, BoundTypes,
              RememberInv, RememberedIsOnDevice
<1>3. PlacementTypes' /\ \A w \in Workers : Placed(w)' \subseteq Placed(w)
  <2>1. CASE NoWorkerFits(j)
    BY <2>1 DEF NoWorkerFits, PlacementTypes, Placed
  <2>2. CASE StartVm(j)
    <3>1. PlacementTypes'
      BY <2>2 DEF StartVm, PlacementTypes
    <3>2. ASSUME NEW w \in Workers PROVE Placed(w)' \subseteq Placed(w)
      BY <2>2 DEF StartVm, PlacementTypes, Placed
    <3> QED
      BY <3>1, <3>2
  <2>3. CASE EndJob(j)
    BY <2>3 DEF EndJob, PlacementTypes, Placed
  <2> QED
    BY <2>1, <2>2, <2>3
<1>4. PlacedInv'
  BY <1>1, <1>3, PlacedFewer
<1> QED
  BY <1>2, <1>3, <1>4

(* Updates of the mesh are made and sent. *)
LEMMA BroadcastIInv ==
  ASSUME FleetIInv,
         EverySecond \/ \E t \in Broadcasts : CalculateMeshUpdates(t) \/ BroadcastMeshUpdates(t)
  PROVE  FleetIInv'
<1> USE DEF FleetIInv, FleetTypes
<1>1. UNCHANGED <<up, registry, placement, dev, cache, changes>>
  BY DEF EverySecond, CalculateMeshUpdates, BroadcastMeshUpdates
<1>2. rare' \subseteq Failures /\ rare \subseteq rare'
  <2>1. UNCHANGED rare \/ Rare("fault")
    BY DEF EverySecond, CalculateMeshUpdates, BroadcastMeshUpdates
  <2> QED
    BY <2>1, RareGrows DEF Failures, BoundTypes
<1>3. RegistryTypes' /\ PlacementTypes' /\ BoundTypes'
  BY <1>1, <1>2 DEF registry, placement, RegistryTypes, PlacementTypes, BoundTypes
<1>4. MeshTypes' /\ OwnPeerInv'
  <2>1. ASSUME NEW u \in Peerings, NotOwnPeer(u), Sent(u)
        PROVE  inbox' \in Peerings \cup {None} /\ NotOwnPeer(inbox')
    BY <2>1 DEF Sent, NotOwnPeer
  <2>2. Update(AllJobs) \in Peerings /\ NotOwnPeer(Update(AllJobs))
    BY UpdateIsTyped, JobsAreTyped
  <2>3. Update(NoJobs) \in Peerings /\ NotOwnPeer(Update(NoJobs))
    BY UpdateIsTyped, JobsAreTyped
  <2>4. CASE EverySecond
    <3>1. inbox' \in Peerings \cup {None} /\ NotOwnPeer(inbox')
      BY <2>1, <2>2, <2>3, <2>4 DEF EverySecond
    <3> QED
      BY <3>1, <2>4, <1>1 DEF EverySecond, MeshTypes, OwnPeerInv, NotOwnPeer
  <2>5. ASSUME NEW t \in Broadcasts, CalculateMeshUpdates(t) PROVE MeshTypes' /\ OwnPeerInv'
    <3>1. sending' = [sending EXCEPT ![t] = Update(AllJobs)] /\ inbox' = inbox
      BY <2>5 DEF CalculateMeshUpdates
    <3>2. MeshTypes'
      BY <3>1, <2>2, <1>1 DEF MeshTypes
    <3>3. ASSUME NEW v \in Broadcasts PROVE NotOwnPeer(sending'[v])
      BY <3>1, <2>2 DEF MeshTypes, OwnPeerInv
    <3>4. NotOwnPeer(inbox') /\ NotOwnPeer(dev')
      BY <3>1, <1>1 DEF OwnPeerInv
    <3> QED
      BY <3>2, <3>3, <3>4 DEF OwnPeerInv, NotOwnPeer
  <2>6. ASSUME NEW t \in Broadcasts, BroadcastMeshUpdates(t) PROVE MeshTypes' /\ OwnPeerInv'
    <3>1. inbox' \in Peerings \cup {None} /\ NotOwnPeer(inbox')
      BY <2>1, <2>6 DEF BroadcastMeshUpdates, MeshTypes, OwnPeerInv
    <3> QED
      BY <3>1, <2>6, <1>1 DEF BroadcastMeshUpdates, MeshTypes, OwnPeerInv, NotOwnPeer
  <2> QED
    BY <2>4, <2>5, <2>6
<1>5. PlacedInv'
  BY <1>1, <1>2, PlacedUnchanged
<1>6. RememberInv'
  BY <1>1, <1>2 DEF RememberInv, RememberedIsOnDevice
<1> QED
  BY <1>3, <1>4, <1>5, <1>6

(* An update is handled: it is remembered together with the change of the device. *)
LEMMA ListenIInv ==
  ASSUME FleetIInv, Listen
  PROVE  FleetIInv'
<1> USE DEF FleetIInv, FleetTypes
<1>1. /\ UNCHANGED <<up, registry, placement, sending, changes>>
      /\ Here \in up /\ inbox # None /\ inbox' = None
  BY DEF Listen, SkipUpdate, UpdatePeers, UpdatePeersFails, Handled
<1>2. rare' \subseteq Failures /\ rare \subseteq rare'
  <2>1. UNCHANGED rare \/ \E e \in Failures : Rare(e)
    BY DEF Listen, SkipUpdate, UpdatePeers, UpdatePeersFails, Failures
  <2> QED
    BY <2>1, RareGrows DEF BoundTypes
<1>3. RegistryTypes' /\ PlacementTypes' /\ BoundTypes'
  BY <1>1, <1>2 DEF registry, placement, RegistryTypes, PlacementTypes, BoundTypes
<1>4. PlacedInv'
  BY <1>1, <1>2, PlacedUnchanged
<1>5. inbox \in Peerings /\ NotOwnPeer(inbox)
  BY <1>1 DEF MeshTypes, OwnPeerInv
<1>6. /\ dev' \in Peerings \cup {None} /\ cache' \in Peerings \cup {None} /\ NotOwnPeer(dev')
      /\ RememberedIsOnDevice'
  <2>1. CASE SkipUpdate
    BY <2>1 DEF SkipUpdate, MeshTypes, OwnPeerInv, NotOwnPeer, RememberInv, RememberedIsOnDevice
  <2>2. CASE UpdatePeers /\ dev' = inbox
    BY <2>2, <1>5 DEF UpdatePeers, RememberedIsOnDevice
  <2>3. CASE UpdatePeers /\ Rare("unresolved") /\ \E p \in inbox.peers : dev' = Without(inbox, p)
    <3>1. cache' = inbox /\ "unresolved" \in rare'
      BY <2>3, RareGrows DEF UpdatePeers, Failures
    <3>2. dev' \in Peerings /\ NotOwnPeer(dev')
      BY <2>3, <1>1, <1>5, WithoutIsTyped
    <3> QED
      BY <3>1, <3>2, <1>5 DEF RememberedIsOnDevice
  <2>4. CASE UpdatePeersFails /\ UNCHANGED dev
    BY <2>4, <1>2 DEF UpdatePeersFails, MeshTypes, OwnPeerInv, NotOwnPeer, RememberInv,
                      RememberedIsOnDevice
  <2>5. CASE UpdatePeersFails /\ Rare("routes") /\ dev' = inbox
    <3>1. cache' = cache /\ "routes" \in rare'
      BY <2>5, RareGrows DEF UpdatePeersFails, Failures
    <3> QED
      BY <3>1, <2>5, <1>5 DEF RememberedIsOnDevice, MeshTypes
  <2>6. UpdatePeers => \/ dev' = inbox
                       \/ Rare("unresolved") /\ \E p \in inbox.peers : dev' = Without(inbox, p)
    BY DEF UpdatePeers
  <2>7. UpdatePeersFails => \/ UNCHANGED dev
                            \/ Rare("routes") /\ dev' = inbox
    BY DEF UpdatePeersFails
  <2> QED
    BY <2>1, <2>2, <2>3, <2>4, <2>5, <2>6, <2>7 DEF Listen
<1>7. MeshTypes' /\ OwnPeerInv'
  BY <1>1, <1>6 DEF MeshTypes, OwnPeerInv, NotOwnPeer
<1>8. RememberInv'
  BY <1>1, <1>6 DEF RememberInv
<1> QED
  BY <1>3, <1>4, <1>7, <1>8

(* Nodes stop with their VMs and their memory, and start without. *)
LEMMA NodesIInv ==
  ASSUME FleetIInv, NEW n \in Nodes, Crash(n) \/ Boot(n)
  PROVE  FleetIInv'
<1> USE DEF FleetIInv, FleetTypes
<1>1. UNCHANGED <<registry, job, sending, blind>>
  BY DEF Crash, Boot, placement
<1>2. rare' \subseteq Failures /\ rare \subseteq rare'
  <2>1. UNCHANGED rare \/ Rare("no device")
    BY DEF Crash, Boot
  <2> QED
    BY <2>1, RareGrows DEF Failures, BoundTypes
<1>3. RegistryTypes' /\ BoundTypes'
  <2>1. up' \subseteq Nodes
    BY DEF Crash, Boot, RegistryTypes
  <2>2. changes' \in 0 .. MaxChange
    <3>1. \/ UNCHANGED changes
          \/ changes < MaxChange /\ changes' = changes + 1
      BY DEF Crash, Boot
    <3>2. MaxChange \in Nat /\ changes \in 0 .. MaxChange
      BY FleetAssumption DEF BoundTypes
    <3> QED
      BY <3>1, <3>2
  <2> QED
    BY <1>1, <1>2, <2>1, <2>2 DEF registry, RegistryTypes, BoundTypes
<1>4. PlacementTypes' /\ \A w \in Workers : Placed(w)' \subseteq Placed(w)
  BY <1>1 DEF Crash, Boot, placement, PlacementTypes, Placed
<1>5. PlacedInv'
  BY <1>1, <1>4, PlacedFewer
<1>6. MeshTypes' /\ OwnPeerInv'
  BY <1>1, AloneIsTyped DEF Crash, Boot, MeshTypes, OwnPeerInv, NotOwnPeer
<1>7. RememberInv'
  <2>1. CASE Crash(n) /\ n = Here
    BY <2>1 DEF Crash, RememberInv, RememberedIsOnDevice
  <2>2. CASE Crash(n) /\ n # Here
    BY <2>2, <1>2 DEF Crash, RememberInv, RememberedIsOnDevice
  <2>3. CASE Boot(n) /\ n = Here
    BY <2>3, <1>2 DEF Boot, RememberInv, RememberedIsOnDevice
  <2>4. CASE Boot(n) /\ n # Here
    BY <2>4, <1>2 DEF Boot, RememberInv, RememberedIsOnDevice
  <2> QED
    BY <2>1, <2>2, <2>3, <2>4
<1> QED
  BY <1>3, <1>4, <1>5, <1>6, <1>7

(* Every step keeps the invariant. *)
LEMMA FleetNextIInv == FleetIInv /\ [FleetNext]_fleetVars => FleetIInv'
<1> SUFFICES ASSUME FleetIInv, [FleetNext]_fleetVars PROVE FleetIInv'
  OBVIOUS
<1>1. CASE UNCHANGED fleetVars
  BY <1>1 DEF fleetVars, FleetIInv, FleetTypes, RegistryTypes, PlacementTypes, MeshTypes, BoundTypes,
              OwnPeerInv, NotOwnPeer, PlacedInv, Placed, RememberInv, RememberedIsOnDevice
<1>2. CASE FleetNext
  <2>1. CASE \E n \in Nodes : Heartbeat(n) \/ HeartbeatDelayed(n) \/ Age(n)
    BY <2>1, HeartbeatsIInv
  <2>2. CASE HeartbeatLate
    BY <2>2, FleetAssumption, HeartbeatsIInv DEF Nodes
  <2>3. CASE \E n \in Nodes : Crash(n) \/ Boot(n)
    BY <2>3, NodesIInv
  <2>4. CASE Listen
    BY <2>4, ListenIInv
  <2>5. CASE EverySecond \/ \E t \in Broadcasts : CalculateMeshUpdates(t) \/ BroadcastMeshUpdates(t)
    BY <2>5, BroadcastIInv
  <2>6. CASE \E j \in Jobs, w \in Workers : SelectBestWorker(j, w)
    BY <2>6, SelectIInv
  <2>7. CASE \E j \in Jobs : NoWorkerFits(j) \/ StartVm(j) \/ EndJob(j)
    BY <2>7, JobsIInv
  <2> QED
    BY <1>2, <2>1, <2>2, <2>3, <2>4, <2>5, <2>6, <2>7 DEF FleetNext
<1> QED
  BY <1>1, <1>2

(* The invariant holds of the specification. *)
LEMMA FleetIInvHolds == FleetSpec => []FleetIInv
BY FleetInitIInv, FleetNextIInv, PTL DEF FleetSpec

(* Every reachable state is well typed, and no node is its own peer. *)
THEOREM FleetTypeCorrect == FleetSpec => []FleetTypeOK
<1>1. FleetIInv => FleetTypeOK
  BY DEF FleetIInv, FleetTypes, RegistryTypes, PlacementTypes, MeshTypes, BoundTypes, OwnPeerInv,
         NotOwnPeer, FleetTypeOK
<1> QED
  BY <1>1, FleetIInvHolds, PTL

(* A worker for which every choice was made by metrics that counted all that had been placed *)
(* there, by whatever order of heartbeats, has room for its VMs: select_best_worker overcommits *)
(* by metrics that count too little, and in no other way.                                     *)
THEOREM PlacedHasRoom == FleetSpec => []OvercommitHasCause
<1>1. FleetIInv => OvercommitHasCause
  <2> SUFFICES ASSUME FleetIInv, NEW w \in Workers \ blind
               PROVE  ~ (Cardinality(vms[w]) > Slots)
    BY DEF OvercommitHasCause
  <2>1. Cardinality(Placed(w)) <= Slots
    BY DEF FleetIInv, PlacedInv
  <2>2. IsFiniteSet(Placed(w)) /\ vms[w] \subseteq Placed(w)
    BY PlacedIsFinite DEF FleetIInv, FleetTypes
  <2>3. Cardinality(vms[w]) <= Cardinality(Placed(w)) /\ IsFiniteSet(vms[w])
    BY <2>2, FS_Subset
  <2>4. Cardinality(vms[w]) \in Nat /\ Cardinality(Placed(w)) \in Nat
    BY <2>2, <2>3, FS_CardinalityType
  <2> QED
    BY <2>1, <2>3, <2>4, FleetAssumption
<1> QED
  BY <1>1, FleetIInvHolds, PTL

(* The remembered update is on the device. *)
THEOREM RememberedStays == FleetSpec => []RememberedIsOnDevice
<1>1. FleetIInv => RememberedIsOnDevice
  BY DEF FleetIInv, RememberInv
<1> QED
  BY <1>1, FleetIInvHolds, PTL
===============================================================================
