\* Four connections, five files.  Once these are registered and every
\* connection is kept open by a statement, nothing is left to do.
SPECIFICATION FilesSpec
CONSTANTS
  Conn = {a, b, c, d}
  MaxFiles = 5
SYMMETRY Interchangeable
INVARIANTS
  ReadersKeepTheFile
  UnreadIsReleased
CHECK_DEADLOCK FALSE
