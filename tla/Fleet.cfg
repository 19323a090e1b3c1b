SPECIFICATION FleetFairSpec
CONSTANTS
  Workers = {w1, w2}
  Routers = {}
  Here = w1
  Jobs = {j1, j2}
  Addressed = {j1}
  Broadcasts = {t1}
  None = None
  Slots = 1
  MaxChange = 1
  MaxRare = 1
INVARIANTS OvercommitHasCause
PROPERTIES MeshConverges
