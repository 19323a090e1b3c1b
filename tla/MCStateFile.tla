----------------------------- MODULE MCStateFile -----------------------------
(* The state file for TLC: the instances are given by the .cfg files.  Their
   properties are temporal, so no symmetry is declared. *)
EXTENDS StateFile, TLC
=============================================================================
