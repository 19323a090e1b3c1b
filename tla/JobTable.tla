------------------------------ MODULE JobTable ------------------------------
(***************************************************************************)
(* What the scheduler promises of a job, whoever asks and whatever is lost *)
(* on the way: a row is created once, with its microVM; its status may     *)
(* change as long as it is there, and it is removed once; a microVM that   *)
(* is gone does not come back; and a row whose microVM is still there is   *)
(* removed only if that microVM is written off as lost.  JobLifecycle says *)
(* when that happens, and implements this specification.                   *)
(***************************************************************************)
CONSTANT Jobs

VARIABLES
  row,     \* a job's status, or "none" when the table has no row for it
  machine  \* a job's microVM, what is left of it and what may still come of it

Statuses == {"scheduled", "running", "failed", "cancelled", "paused", "stopped"}

Init ==
  /\ row = [j \in Jobs |-> "none"]
  /\ machine = [j \in Jobs |-> "none"]

Create(j) ==
  /\ row[j] = "none" /\ machine[j] = "none"
  /\ row' = [row EXCEPT ![j] = "scheduled"]
  /\ machine' = [machine EXCEPT ![j] = "present"]

(* Any status may follow any other; none goes back to scheduled. *)
Report(j, s) ==
  /\ row[j] # "none"
  /\ row' = [row EXCEPT ![j] = s]
  /\ UNCHANGED machine

Remove(S) ==
  /\ \A j \in S : row[j] # "none"
  /\ row' = [j \in Jobs |-> IF j \in S THEN "none" ELSE row[j]]
  /\ machine' = [j \in Jobs |-> IF j \in S /\ machine[j] = "present" THEN "lost"
                                                                    ELSE machine[j]]

(* The microVM is written off, or ends. *)
Fade(j) ==
  /\ \/ machine[j] = "present" /\ machine' = [machine EXCEPT ![j] = "lost"]
     \/ machine[j] \in {"present", "lost"} /\ machine' = [machine EXCEPT ![j] = "gone"]
  /\ UNCHANGED row

Next ==
  \/ \E j \in Jobs : Create(j) \/ Fade(j) \/ \E s \in Statuses \ {"scheduled"} : Report(j, s)
  \/ \E S \in SUBSET Jobs : Remove(S)

Spec == Init /\ [][Next]_<<row, machine>>
=============================================================================
