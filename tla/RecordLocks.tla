---------------------------- MODULE RecordLocks ----------------------------
(***************************************************************************)
(* Record locks of the database client: var::lock, var::unlock,            *)
(* var::unlockall and the transaction calls that change what a lock is     *)
(* (src/var/vardb.cpp), over the advisory locks of the PostgreSQL server.  *)
(*                                                                         *)
(* Each connection keeps a cache of the locks it believes it has           *)
(* (DBconn::locks_) and a flag that says whether it is in a transaction    *)
(* (DBconn::in_transaction_).  The flag decides which of the two server    *)
(* locks a call takes: a session lock, that stacks, or a transaction lock, *)
(* that the server drops when the transaction ends.  The server's state    *)
(* (session, xact, status) is external: it is modelled from the statements *)
(* the client sends.  One call of a connection is one step: its fibers are *)
(* the subject of module LockTasks.                                        *)
(***************************************************************************)
EXTENDS Naturals, FiniteSets

CONSTANTS Conn,      \* database connections, of one or of several processes
          Key,       \* hashes of a file name and a record key
          NoConn,    \* stands for "no connection" in Owner
          MaxDepth   \* bound: how often one session lock is stacked up

ASSUME NoConnAssumption   == NoConn \notin Conn
ASSUME MaxDepthAssumption == MaxDepth \in Nat \ {0}

VARIABLES
  locks_,            \* locks_[c]: DBconn::locks_, the client's lock cache
  in_transaction_,   \* in_transaction_[c]: DBconn::in_transaction_
  status,            \* status[c]: PQtransactionStatus, or CLOSED: no DBconn
  session,           \* session[c][k]: depth of the server's session lock
  xact,              \* xact[c]: the server's transaction locks
  result             \* what the most recent call returned

server == <<status, session, xact>>
vars == <<locks_, in_transaction_, server, result>>

Status == {"IDLE", "INTRANS", "INERROR", "UNKNOWN", "CLOSED"}

\* lock() returns 1, 2, "" or 0; the other calls true or false; any may throw.
Result == {"granted", "have_in_trans", "already_locked", "refused",
           "true", "false", "throw"}

TypeOK ==
  /\ locks_ \in [Conn -> SUBSET Key]
  /\ in_transaction_ \in [Conn -> BOOLEAN]
  /\ status \in [Conn -> Status]
  /\ session \in [Conn -> [Key -> 0..MaxDepth]]
  /\ xact \in [Conn -> SUBSET Key]
  /\ result \in Result

NoSession == [k \in Key |-> 0]

Init ==
  /\ locks_ = [c \in Conn |-> {}]
  /\ in_transaction_ = [c \in Conn |-> FALSE]
  /\ status = [c \in Conn |-> "IDLE"]
  /\ session = [c \in Conn |-> NoSession]
  /\ xact = [c \in Conn |-> {}]
  /\ result = "true"

-----------------------------------------------------------------------------
(* The server.                                                             *)

ServerHolds(c) == xact[c] \cup {k \in Key : session[c][k] > 0}

\* An advisory lock can be taken when no other connection has it.
Available(c, k) == \A d \in Conn \ {c} : k \notin ServerHolds(d)

\* Statements are refused in an aborted transaction and on a lost connection.
Accepts(c) == status[c] \in {"IDLE", "INTRANS"}

\* SELECT PG_TRY_ADVISORY_LOCK: stacks, and outlives any transaction.
TryAdvisoryLock(c, k) ==
  /\ session[c][k] < MaxDepth
  /\ session' = [session EXCEPT ![c][k] = @ + 1]
  /\ UNCHANGED <<status, xact>>

\* SELECT PG_TRY_ADVISORY_XACT_LOCK: outside a transaction block the
\* statement is a transaction of its own and the lock is gone with it.
TryAdvisoryXactLock(c, k) ==
  /\ xact' = IF status[c] = "INTRANS"
             THEN [xact EXCEPT ![c] = @ \cup {k}] ELSE xact
  /\ UNCHANGED <<status, session>>

\* END and ROLLBACK drop the transaction locks and no session lock.
EndTransaction(c) ==
  /\ status' = [status EXCEPT ![c] = "IDLE"]
  /\ xact' = [xact EXCEPT ![c] = {}]
  /\ UNCHANGED session

\* A session that ends, for whatever reason, loses all its locks.
EndSession(c, s) ==
  /\ status' = [status EXCEPT ![c] = s]
  /\ session' = [session EXCEPT ![c] = NoSession]
  /\ xact' = [xact EXCEPT ![c] = {}]

-----------------------------------------------------------------------------
(* The client's calls.                                                     *)

Connected(c) == status[c] # "CLOSED"

Forget(c) == locks_' = [locks_ EXCEPT ![c] = {}]

Return(r) == result' = r

\* lock() of a key in the cache: 2 inside a transaction, "" outside it.  The
\* server is not asked.
LockCached(c, k) ==
  /\ Connected(c)
  /\ k \in locks_[c]
  /\ Return(IF in_transaction_[c] THEN "have_in_trans" ELSE "already_locked")
  /\ UNCHANGED <<locks_, in_transaction_, server>>

\* Variant: the server is asked for a lock that is cached, too.
LockAskedAgain(c, k) ==
  /\ Accepts(c)
  /\ Available(c, k)
  /\ IF in_transaction_[c] THEN TryAdvisoryXactLock(c, k)
                           ELSE TryAdvisoryLock(c, k)
  /\ locks_' = [locks_ EXCEPT ![c] = @ \cup {k}]
  /\ Return("granted")
  /\ UNCHANGED in_transaction_

LockGranted(c, k) ==
  /\ k \notin locks_[c]
  /\ Accepts(c)
  /\ Available(c, k)
  /\ IF in_transaction_[c] THEN TryAdvisoryXactLock(c, k)
                           ELSE TryAdvisoryLock(c, k)
  /\ locks_' = [locks_ EXCEPT ![c] = @ \cup {k}]
  /\ Return("granted")
  /\ UNCHANGED in_transaction_

LockRefused(c, k) ==
  /\ k \notin locks_[c]
  /\ Accepts(c)
  /\ ~Available(c, k)
  /\ Return("refused")
  /\ UNCHANGED <<locks_, in_transaction_, server>>

LockFails(c, k) ==
  /\ Connected(c)
  /\ k \notin locks_[c]
  /\ ~Accepts(c)
  /\ Return("throw")
  /\ UNCHANGED <<locks_, in_transaction_, server>>

Lock(c, k) ==
  LockCached(c, k) \/ LockGranted(c, k) \/ LockRefused(c, k) \/ LockFails(c, k)

\* Variants: the cache is not looked at; the key stays in it; a transaction
\* does not matter.
UnlockUncached(c, k) ==
  /\ Connected(c)
  /\ ~in_transaction_[c] /\ Accepts(c)
  /\ locks_' = [locks_ EXCEPT ![c] = @ \ {k}]
  /\ session' = [session EXCEPT ![c][k] = @ - 1]
  /\ Return("true")
  /\ UNCHANGED <<in_transaction_, status, xact>>

UnlockKeepsCache(c, k) ==
  /\ Connected(c)
  /\ ~in_transaction_[c] /\ k \in locks_[c] /\ Accepts(c)
  /\ session' = [session EXCEPT ![c][k] = IF @ > 0 THEN @ - 1 ELSE 0]
  /\ Return("true")
  /\ UNCHANGED <<locks_, in_transaction_, status, xact>>

UnlockInTransaction(c, k) ==
  /\ Connected(c)
  /\ k \in locks_[c] /\ Accepts(c)
  /\ locks_' = [locks_ EXCEPT ![c] = @ \ {k}]
  /\ session' = [session EXCEPT ![c][k] = IF @ > 0 THEN @ - 1 ELSE 0]
  /\ Return("true")
  /\ UNCHANGED <<in_transaction_, status, xact>>

\* unlock(): no effect inside a transaction or on a key that is not cached.
\* Otherwise the key leaves the cache before the server is asked.
Unlock(c, k) ==
  /\ Connected(c)
  /\ IF in_transaction_[c] \/ k \notin locks_[c]
     THEN /\ Return("false")
          /\ UNCHANGED <<locks_, session>>
     ELSE /\ locks_' = [locks_ EXCEPT ![c] = @ \ {k}]
          /\ IF Accepts(c)
             THEN /\ session' = [session EXCEPT ![c][k] = IF @ > 0 THEN @ - 1 ELSE 0]
                  /\ Return("true")
             ELSE /\ Return("throw")
                  /\ UNCHANGED session
  /\ UNCHANGED <<in_transaction_, status, xact>>

\* Variant: only the cache is cleared.
UnlockallForgets(c) ==
  /\ Connected(c)
  /\ Forget(c)
  /\ Return("true")
  /\ UNCHANGED <<in_transaction_, server>>

\* unlockall(): as unlock(); with an empty cache the server is not asked.
Unlockall(c) ==
  /\ Connected(c)
  /\ IF in_transaction_[c] \/ locks_[c] = {}
     THEN /\ Return(IF in_transaction_[c] THEN "false" ELSE "true")
          /\ UNCHANGED <<locks_, session>>
     ELSE /\ Forget(c)
          /\ session' = IF Accepts(c) THEN [session EXCEPT ![c] = NoSession]
                                      ELSE session
          /\ Return(IF Accepts(c) THEN "true" ELSE "false")
  /\ UNCHANGED <<in_transaction_, status, xact>>

\* begintrans(): BEGIN inside a transaction only warns, so the nested call
\* succeeds too.
Begintrans(c) ==
  /\ Connected(c)
  /\ IF Accepts(c)
     THEN /\ status' = [status EXCEPT ![c] = "INTRANS"]
          /\ in_transaction_' = [in_transaction_ EXCEPT ![c] = TRUE]
          /\ Return("true")
     ELSE /\ Return("false")
          /\ UNCHANGED <<status, in_transaction_>>
  /\ UNCHANGED <<locks_, session, xact>>

\* Variant: the lock cache outlives the transaction.
RollbackKeepsCache(c) ==
  /\ Connected(c)
  /\ status[c] # "UNKNOWN"
  /\ EndTransaction(c)
  /\ in_transaction_' = [in_transaction_ EXCEPT ![c] = FALSE]
  /\ Return("true")
  /\ UNCHANGED locks_

\* rollbacktrans(): the flag and the lock cache are only touched if ROLLBACK
\* succeeds.  Outside a transaction ROLLBACK warns and succeeds.
Rollbacktrans(c) ==
  /\ Connected(c)
  /\ IF status[c] # "UNKNOWN"
     THEN /\ EndTransaction(c)
          /\ in_transaction_' = [in_transaction_ EXCEPT ![c] = FALSE]
          /\ Forget(c)
          /\ Return("true")
     ELSE /\ Return("false")
          /\ UNCHANGED <<locks_, in_transaction_, server>>

\* Variant: the flag is not reset.
CommitKeepsFlag(c) ==
  /\ Connected(c)
  /\ Forget(c)
  /\ Return("true")
  /\ status[c] # "UNKNOWN" /\ EndTransaction(c)
  /\ UNCHANGED in_transaction_

\* committrans(): the flag and the lock cache are reset whatever happens; an
\* aborted transaction is rolled back and reported as false.
Committrans(c) ==
  /\ Connected(c)
  /\ in_transaction_' = [in_transaction_ EXCEPT ![c] = FALSE]
  /\ Forget(c)
  /\ Return(IF Accepts(c) THEN "true" ELSE "false")
  /\ IF status[c] # "UNKNOWN" THEN EndTransaction(c) ELSE UNCHANGED server

\* Any statement of a transaction fails on the server, such as insertrecord()
\* of a key that exists: the server aborts the transaction at once and drops
\* its locks; the client learns only that the call failed.
StatementFails(c) ==
  /\ status[c] = "INTRANS"
  /\ status' = [status EXCEPT ![c] = "INERROR"]
  /\ xact' = [xact EXCEPT ![c] = {}]
  /\ Return("false")
  /\ UNCHANGED <<locks_, in_transaction_, session>>

\* The server ends the session (restart, timeout, network).  Nothing on the
\* client changes.
ConnectionLost(c) ==
  /\ status[c] \notin {"UNKNOWN", "CLOSED"}
  /\ EndSession(c, "UNKNOWN")
  /\ UNCHANGED <<locks_, in_transaction_, result>>

\* disconnect(): PQfinish, and the DBconn with its cache is erased.
Disconnect(c) ==
  /\ Connected(c)
  /\ EndSession(c, "CLOSED")
  /\ Forget(c)
  /\ in_transaction_' = [in_transaction_ EXCEPT ![c] = FALSE]
  /\ Return("true")

\* connect(): a new DBconn, with no lock and no transaction.
Connect(c) ==
  /\ status[c] = "CLOSED"
  /\ status' = [status EXCEPT ![c] = "IDLE"]
  /\ Return("true")
  /\ UNCHANGED <<locks_, in_transaction_, session, xact>>

Next ==
  \E c \in Conn :
    \/ \E k \in Key : Lock(c, k) \/ Unlock(c, k)
    \/ Unlockall(c)
    \/ Begintrans(c)
    \/ Rollbacktrans(c)
    \/ Committrans(c)
    \/ StatementFails(c)
    \/ ConnectionLost(c)
    \/ Disconnect(c)
    \/ Connect(c)

Spec == Init /\ [][Next]_vars

-----------------------------------------------------------------------------
(* Using locks as the TODO in lock() proposes: "consider preventing        *)
(* begintrans if lock cache not empty", and ending only a transaction that *)
(* was begun.                                                              *)

DisciplinedNext ==
  \E c \in Conn :
    \/ \E k \in Key : Lock(c, k) \/ Unlock(c, k)
    \/ Unlockall(c)
    \/ (in_transaction_[c] \/ locks_[c] = {}) /\ Begintrans(c)
    \/ in_transaction_[c] /\ (Rollbacktrans(c) \/ Committrans(c))
    \/ StatementFails(c)
    \/ ConnectionLost(c)
    \/ Disconnect(c)
    \/ Connect(c)

DisciplinedSpec == Init /\ [][DisciplinedNext]_vars

-----------------------------------------------------------------------------
(* Properties.                                                             *)

\* A connection owns a lock while lock() would tell it so and the server
\* still executes its statements.
Owns(c, k) == k \in locks_[c] /\ Accepts(c)

\* At most one connection owns a record lock, whatever is interleaved: the
\* cache is never ahead of the server, although transactions, failed
\* statements and lost connections take locks away behind the cache's back.
MutualExclusion ==
  \A c, d \in Conn, k \in Key : Owns(c, k) /\ Owns(d, k) => c = d

\* in_transaction_ picks the kind of lock to take and whether unlock() may
\* act, so it must agree with the server's transaction on a live connection:
\* a transaction lock taken outside a transaction would be lost at once.
ModeAgrees ==
  \A c \in Conn :
    /\ status[c] = "IDLE" => ~in_transaction_[c]
    /\ status[c] \in {"INTRANS", "INERROR"} => in_transaction_[c]

\* "Locks inside transactions are unlockable and automatically unlocked on
\* commit/rollback": while a transaction lasts, no call of any connection
\* takes a lock out of the cache or away from the server.
TransactionKeepsLocks ==
  [][\A c \in Conn :
       status[c] = "INTRANS" /\ status'[c] = "INTRANS" =>
         /\ locks_[c] \subseteq locks_'[c]
         /\ ServerHolds(c) \subseteq ServerHolds(c)']_vars

\* "Locks outside transactions remain for the duration of the connection and
\* can be unlocked/relocked or unlockall'd": the server has no session lock
\* that the cache has forgotten, since unlock() and unlockall() release
\* nothing that is not cached.
SessionLocksReleasable ==
  \A c \in Conn, k \in Key :
    session[c][k] > 0 /\ ~in_transaction_[c] => k \in locks_[c]

\* "NB return "" if ALREADY locked on this connection": a lock never stacks
\* up on the server, where it would need as many unlocks.
LocksDoNotStack == \A c \in Conn, k \in Key : session[c][k] <= 1

\* The owner of each lock, as LockService has it.
Owner ==
  [k \in Key |-> IF \E c \in Conn : Owns(c, k)
                 THEN CHOOSE c \in Conn : Owns(c, k) ELSE NoConn]

\* The calls implement the promise of record locking.
Service == INSTANCE LockService WITH owner <- Owner
ImplementsLockService == Service!Spec
=============================================================================
