CONSTANTS
  d0 = d0
  d1 = d1
  d2 = d2
  t1 = t1
  t2 = t2
  l1 = l1
  Deps = {d0, d1, d2}
  First = d0
  Tasks = {t1, t2}
  Listeners = {l1}
  None = None
  MaxRare = 1
  MaxAsked = 1
  MaxSurplus = 1
SYMMETRY Symmetry
SPECIFICATION Spec
INVARIANTS OneFlow OneVersionRuns ServedByDeployments
