SPECIFICATION HypervisorSpec
CONSTANTS
  Slots = {t1, t2}
  Procs = {q1, q2, q3, q4, q5}
  NoProc = NoProc
  Collector = Collector
  MaxCommands = 2
  MaxFaults = 1
  MaxCrashes = 1
  Handlers = {t1, t2}
  MaxOrders = 3
  MaxMishaps = 2
  MaxOutages = 2
INVARIANTS NoStrayProcess SavedWhenQuiet EachVmIsHeld GoneIsGone
PROPERTIES Settles BootIsKnown
CHECK_DEADLOCK FALSE
