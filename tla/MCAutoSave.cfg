\* A session that saves by itself, over two Statement objects and one
\* address, which SQLite may give to either.
SPECIFICATION AutoSpec
CONSTANTS
  Stmt = {s1, s2}
  Ptr = {p1}
  MaxCommits = 2
INVARIANTS
  NothingDangles
  RowsHaveTheirNames
  ClosedIsGone
PROPERTIES
  StoppedSavesNothing
  CommitsSettle
