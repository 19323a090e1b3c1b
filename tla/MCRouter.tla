------------------------------ MODULE MCRouter ------------------------------
EXTENDS Router, TLC

Symmetry == Permutations(Routers) \cup Permutations(Orders)
=============================================================================
