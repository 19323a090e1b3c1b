SPECIFICATION FairSpec
CONSTANTS
  Builds = {b1, b2}
  None = None
  Permits = 2
  MaxRare = 2
INVARIANTS FailedHasCause SavedAtRest CountsAgree
PROPERTIES RowEnds
