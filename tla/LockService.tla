---------------------------- MODULE LockService ----------------------------
(***************************************************************************)
(* What record locking promises the programs that use it: at any moment a  *)
(* record lock is owned by at most one database connection, only a free    *)
(* lock can be acquired, and only its owner can give it up.  The detailed  *)
(* specifications of var::lock and of its callers implement this one.      *)
(***************************************************************************)
CONSTANTS Conn,    \* database connections
          Key,     \* lockable things: a file name and a record key, hashed
          NoConn   \* the owner of a lock that nobody has

VARIABLE owner     \* owner[k]: the connection that owns the lock of k

TypeOK == owner \in [Key -> Conn \cup {NoConn}]

Init == owner = [k \in Key |-> NoConn]

\* A connection acquires a lock that is free.
Acquire(c, k) ==
  /\ owner[k] = NoConn
  /\ owner' = [owner EXCEPT ![k] = c]

\* A connection gives up one, several or all of the locks it owns.
Release(c, K) ==
  /\ \A k \in K : owner[k] = c
  /\ owner' = [k \in Key |-> IF k \in K THEN NoConn ELSE owner[k]]

Next ==
  \/ \E c \in Conn, k \in Key : Acquire(c, k)
  \/ \E c \in Conn, K \in SUBSET Key : Release(c, K)

Spec == Init /\ [][Next]_owner
=============================================================================
