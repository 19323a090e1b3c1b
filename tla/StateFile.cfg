CONSTANTS
  Callers = {c1, c2}
  Gc = gc
  Inodes = {i1, i2, i3, i4}
  NoFile = NoFile
  MaxChanges = 2
  MaxAgentCrashes = 1
  MaxFailures = 1
SPECIFICATION FileFairSpec
INVARIANTS WholeUnlessOverlapped
PROPERTY FileCatchesUp
