\* Two Workers, two databases, one name.
SPECIFICATION Spec
CONSTANTS
  Worker = {w1, w2}
  Db = {d1, d2}
  None = None
  MaxCommits = 2
  MaxFaults = 2
SYMMETRY Interchangeable
INVARIANTS
  FilesAreReleased
  OpensTheLastCommit
  LossIsReported
