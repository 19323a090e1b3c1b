SPECIFICATION StorageSpec
CONSTANTS
  Dbs = {d1, d2}
  Requests = {r1, r2}
  Limit = 1
  MaxAttempts = 2
  NoDb = NoDb
  None = None
  Vols = {d1, d2}
  Handlers = {r1, r2}
  MaxRare = 1
  Snaps = {s1, s2}
  Names = {n}
  Apps = {a1, a2}
  MaxVolumes = 1
  MaxRequests = 4
  MaxEvents = 2
SYMMETRY Symmetry
INVARIANTS RowsTellOfVms CountTellsOfRows PendingHasTask
  OneOwner SnapshotsLast NothingIsLeftOver InUseIsKept UsageIsTrue
CHECK_DEADLOCK FALSE
