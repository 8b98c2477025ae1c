\* Every call ends, whatever the others hold.
SPECIFICATION Spec
CONSTANTS
  Worker = {w1, w2}
  Key = {k1, k2}
  Branch = {b}
  None = None
  Lockings = {TRUE}
  MaxDepth = 1
  MaxTime = 3
  MaxCrashes = 1
PROPERTY
  CallsEnd
