------------------------- MODULE MCDatabaseManager -------------------------
(* DatabaseManager.tla on a few interchangeable files and transcriptions.   *)
EXTENDS DatabaseManager, TLC

CONSTANTS f1, f2, t1, t2

Symmetry == Permutations(Filenames) \cup Permutations(Transcriptions)
=============================================================================
