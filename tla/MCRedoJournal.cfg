SPECIFICATION Spec
CONSTANTS
  N = 2
  NoPage = NoPage
  MaxTxn = 2
  MaxRecords = 2
  JournalLimit = 1
  Salts = {1, 2, 3}
  Torn = 9
  Old = 8
  Rare = {}
INVARIANTS
  TypeOK
  ReadsLastCommit
  FlushedIsStored
  RecoversACommit
PROPERTY ImplementsDurableFile
