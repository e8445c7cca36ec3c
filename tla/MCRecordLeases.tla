--------------------------- MODULE MCRecordLeases ---------------------------
(* Two browsers that edit one record.                                      *)
EXTENDS RecordLeases, TLC

Symmetry == Permutations(Client)
=============================================================================
