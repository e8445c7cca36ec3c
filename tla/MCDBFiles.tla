------------------------------ MODULE MCDBFiles ------------------------------
(* Two programs that create and delete a file, whose name is written in    *)
(* two ways.                                                               *)
EXTENDS DBFiles, TLC

Symmetry == Permutations(Proc) \cup Permutations(Spelling)
=============================================================================
