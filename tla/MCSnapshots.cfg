\* Two Workers on files in OPFS with locks, or on records in IndexedDB.
SPECIFICATION Spec
CONSTANTS
  Worker = {w1, w2}
  Key = {k1, k2, k3}
  Branch = {b}
  None = None
  Lockings = {TRUE, FALSE}
  MaxDepth = 1
  MaxTime = 3
  MaxCrashes = 1
SYMMETRY Interchangeable
INVARIANTS
  ChainsAreWhole
  ReadersKeepTheirFiles
PROPERTY
  ImplementsSnapshotStore
