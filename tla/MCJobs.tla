------------------------------- MODULE MCJobs -------------------------------
(* One or two programs that run a few jobs on a pool of one or two workers. *)
EXTENDS Jobs, TLC

Symmetry == Permutations(Client)
=============================================================================
