CONSTANTS
  Places = {j1}
  MinReplicas = 0
  MaxReplicas = 1
  Autoscaling = FALSE
  Loads = {"none"}
  Wanted = {1}
  IdleTimeout = 2
  Backoff = 3
  MaxTime = 4
  LastVisit = 3
  MaxAsked = 0
  MaxFaults = 0
SPECIFICATION FairSpec
PROPERTY StaysAtZero
