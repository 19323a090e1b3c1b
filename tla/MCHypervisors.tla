---------------------------- MODULE MCHypervisors ----------------------------
(***************************************************************************)
(* The agent's two managers of microVMs.  Each has its own tables, files   *)
(* and processes, so that interleaving the two adds nothing: in every      *)
(* behaviour the VM is one of Firecracker or one of Cloud Hypervisor, and  *)
(* the fairness assumed is that of its manager.                            *)
(***************************************************************************)
EXTENDS VmManager, CloudHypervisor

VARIABLE hypervisor

HypervisorInit == Init /\ ChInit /\ hypervisor \in {"Firecracker", "CloudHypervisor"}

HypervisorNext ==
  \/ hypervisor = "Firecracker" /\ Next /\ UNCHANGED <<hypervisor, chVars>>
  \/ hypervisor = "CloudHypervisor" /\ ChNext /\ UNCHANGED <<hypervisor, vars>>

HypervisorSpec ==
  /\ HypervisorInit /\ [][HypervisorNext]_<<hypervisor, vars, chVars>>
  /\ \/ hypervisor = "Firecracker" /\ Fairness
     \/ hypervisor = "CloudHypervisor" /\ ChFairness
=============================================================================
