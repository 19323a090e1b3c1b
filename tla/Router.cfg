SPECIFICATION Spec
CONSTANTS
  Routers = {r1, r2}
  Orders = {o1, o2}
  None = None
  MaxRoute = 2
  MaxWork = 2
  MaxAdd = 2
  MaxInbox = 2
  MaxRare = 1
SYMMETRY Symmetry
INVARIANTS RoutersAgree RecordedIsStored NoChallengeLeft ServedWasStored
