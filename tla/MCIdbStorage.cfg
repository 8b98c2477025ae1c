\* A chunk is a page; a file of three, cut and grown again before it is stored.
SPECIFICATION Spec
CONSTANTS
  N = 3
  PerChunk = 1
  MaxCommits = 3
  MaxWritten = 2
  MaxCrashes = 1
  HookFails = FALSE
INVARIANTS
  TypeOK
  StoredIsACommit
  FlushedMeansStored
  QuietMeansStored
