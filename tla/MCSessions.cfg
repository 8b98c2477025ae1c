\* A database of four chunks: cut to one, it grows with a hole again.
SPECIFICATION Spec
CONSTANTS
  N = 4
  NoPage = NoPage
  Key = {k1, k2}
  None = None
  MaxDepth = 2
  MaxWrites = 3
  MaxMoves = 2
  MaxStored = 3
  Written = {0, 3}
  Cuts = {1}
SYMMETRY Interchangeable
CHECK_DEADLOCK FALSE
INVARIANTS
  TypeOK
  MovesChangeNothing
  WaitingForksKeepTheirState
  SavesHoldTheirState
