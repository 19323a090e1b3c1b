---------------------------- MODULE MCAppScaling ----------------------------
(* AppScaling on small instances. *)
EXTENDS AppScaling
=============================================================================
