\* Three connections to an overlay and its fork, of two chunks.
SPECIFICATION Spec
CONSTANTS
  Conn = {c1, c2, c3}
  Ov = {o1, o2}
  PageId = {p1, p2, p3, p4, p5, p6}
  N = 2
  None = None
  MaxCommits = 2
INVARIANTS
  TypeOK
  LocksAreCounted
  ReadersSeeOneCommit
  ForksAreIsolated
  PagesAreCounted
PROPERTY
  WritersGetIn
