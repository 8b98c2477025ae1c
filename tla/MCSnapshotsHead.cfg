\* retain, and a snapshot that was written after it read the list.
SPECIFICATION Spec
CONSTANTS
  Worker = {w1, w2}
  Key = {k1, k2, k3}
  Branch = {b}
  None = None
  Lockings = {TRUE}
  MaxDepth = 1
  MaxTime = 3
  MaxCrashes = 0
PROPERTY
  BranchesKeepTheirHead
