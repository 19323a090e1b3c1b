---------------------------- MODULE MCDeployment ----------------------------
(* Instances of Deployment for TLC. *)
EXTENDS Deployment, TLC

Symmetry == Permutations(Deps \ {First}) \cup Permutations(Tasks)
=============================================================================
