CONSTANTS
  Places = {j1, j2, j3}
  MinReplicas = 1
  MaxReplicas = 2
  Autoscaling = FALSE
  Loads = {"none"}
  Wanted = {1, 2}
  IdleTimeout = 2
  Backoff = 3
  MaxTime = 1
  LastVisit = 1
  MaxAsked = 1
  MaxFaults = 1
SPECIFICATION FairSpec
PROPERTY ReplicasReturn
