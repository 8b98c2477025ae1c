SPECIFICATION Spec
CONSTANTS
  N = 2
  NoPage = NoPage
  Fork = {f1, f2}
  MaxTxn = 1
  Own = 8
SYMMETRY Symmetry
INVARIANTS
  TypeOK
  KeepsItsView
  FailsOnlyIfCopyFailed
  MainReadsLastCommit
