--------------------------- MODULE MCRecordLocks ---------------------------
(* Two connections that compete for two records.                  *)
EXTENDS RecordLocks, TLC

Symmetry == Permutations(Conn) \cup Permutations(Key)
=============================================================================
