--------------------------- MODULE MCFileStorage ---------------------------
EXTENDS FileStorage, TLC

Interchangeable == Permutations(Worker) \union Permutations(Db)
=============================================================================
