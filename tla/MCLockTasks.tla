---------------------------- MODULE MCLockTasks ----------------------------
(* Two connections, with one task each, and with a second task on one.     *)
EXTENDS LockTasks, TLC

CONSTANTS c1, c2, f1, f2, f3

OneEach == f1 :> c1 @@ f2 :> c2
TwoAndOne == f1 :> c1 @@ f2 :> c1 @@ f3 :> c2

\* With TwoAndOne the tasks of the one connection are alike.
Symmetry == Permutations({f1, f2}) \cup Permutations(Key)
=============================================================================
