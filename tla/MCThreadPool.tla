---------------------------- MODULE MCThreadPool ----------------------------
(* Two threads that share a pool of one or two workers.                    *)
EXTENDS ThreadPool, TLC

Symmetry == Permutations(Client)
=============================================================================
