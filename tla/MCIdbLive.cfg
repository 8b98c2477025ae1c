\* Two pages in a chunk, so a file may end inside one; the hook may fail.
SPECIFICATION Spec
CONSTANTS
  N = 2
  PerChunk = 2
  MaxCommits = 2
  MaxWritten = 2
  MaxCrashes = 0
  HookFails = TRUE
INVARIANT
  StoredIsACommit
PROPERTIES
  FlushSettles
  NameSettles
