---------------------------- MODULE MCClientCache ----------------------------
EXTENDS ClientCache, TLC

MCWindows == Permutations(Window)

\* The names of requests are theirs.
MCOwnKeys == [r \in Request |-> r]

\* escape() and '_' for '%': "A B" and "A_20B" have one name.
MCOneKey == [r \in Request |-> IF r.kind = "READ" THEN Read(CHOOSE k \in Key : TRUE) ELSE r]
===============================================================================
