CONSTANTS
  Places = {j1}
  MinReplicas = 0
  MaxReplicas = 1
  Autoscaling = TRUE
  Loads = {"none", "low"}
  Wanted = {1}
  IdleTimeout = 2
  Backoff = 3
  MaxTime = 4
  LastVisit = 3
  MaxAsked = 1
  MaxFaults = 1
SPECIFICATION FairSpec
PROPERTIES WakesOnlyOnDemand WakesUp
