--------------------------- MODULE MCRecordCache ---------------------------
(* One or two tasks of a process with one or two records.                  *)
EXTENDS RecordCache, TLC

Symmetry == Permutations(Fiber) \cup Permutations(Key)
=============================================================================
