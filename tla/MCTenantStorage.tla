--------------------------- MODULE MCTenantStorage --------------------------
(***************************************************************************)
(* What a tenant may store data in: databases and volumes.  Their handlers *)
(* share no row and no lock, so that interleaving the two adds nothing:    *)
(* every behaviour has requests for one of the two kinds, and the same     *)
(* identifiers serve for databases and volumes, and for their handlers.    *)
(***************************************************************************)
EXTENDS Databases, Volumes, TLC

VARIABLE kind

StorageInit == DbInit /\ Init /\ kind \in {"databases", "volumes"}

StorageNext ==
  \/ kind = "databases" /\ DbNext /\ UNCHANGED <<kind, vars>>
  \/ kind = "volumes" /\ Next /\ UNCHANGED <<kind, dbVars>>

StorageSpec == StorageInit /\ [][StorageNext]_<<kind, vars, dbVars>>

Symmetry == Permutations(Dbs) \cup Permutations(Requests)
=============================================================================
