----------------------------- MODULE LockTasks -----------------------------
(***************************************************************************)
(* Record locks when tasks share a connection.  The tasks of a process are *)
(* fibers; a call that needs the server gives way to the others in         *)
(* async_PQexec (src/var/vardb_async.cpp), for the mutex of the connection *)
(* if another fiber has it, and for the server's answer.  So every call of *)
(* RecordLocks has three steps here: Start, which looks at the lock cache  *)
(* and the transaction flag and takes the mutex if it is free, Exec, the   *)
(* statement on the server, and Finish, what the call does with the        *)
(* answer.  A fiber that waits for the mutex may be overtaken: unlocking   *)
(* it wakes a waiter, and whoever runs first has it.                       *)
(***************************************************************************)
EXTENDS RecordLocks

CONSTANTS Fiber,      \* tasks
          NoFiber,    \* nobody has the mutex
          ConnOf      \* ConnOf[f]: the connection task f works on

ASSUME FiberAssumption ==
  NoFiber \notin Fiber /\ IsFiniteSet(Fiber) /\ ConnOf \in [Fiber -> Conn]

VARIABLES mutex_,     \* mutex_[c]: DBconn::mutex_
          pc, stmt,   \* what each fiber is doing, and its statement
          ok          \* ok[f]: the answer

fibers == <<mutex_, pc, stmt, ok>>
tvars == <<vars, fibers>>

Statement ==
  [sql : {"lock", "xact_lock", "unlock"}, key : Key]
    \cup [sql : {"unlock_all", "begin", "rollback", "end"}]
NoStatement == [sql |-> "none"]

TasksTypeOK ==
  /\ TypeOK
  /\ mutex_ \in [Conn -> Fiber \cup {NoFiber}]
  /\ pc \in [Fiber -> {"idle", "wait", "sent", "done"}]
  /\ stmt \in [Fiber -> Statement \cup {NoStatement}]
  /\ ok \in [Fiber -> BOOLEAN]
  \* the mutex is with the fiber whose statement is on its way
  /\ \A f \in Fiber : pc[f] \in {"sent", "done"} <=> mutex_[ConnOf[f]] = f

TasksInit ==
  /\ Init
  /\ mutex_ = [c \in Conn |-> NoFiber]
  /\ pc = [f \in Fiber |-> "idle"]
  /\ stmt = [f \in Fiber |-> NoStatement]
  /\ ok = [f \in Fiber |-> FALSE]

-----------------------------------------------------------------------------
(* Start: up to the mutex.                                                 *)

Send(f) ==
  /\ pc' = [pc EXCEPT ![f] = "sent"]
  /\ mutex_' = [mutex_ EXCEPT ![ConnOf[f]] = f]

Ask(f, s) ==
  /\ pc[f] = "idle"
  /\ stmt' = [stmt EXCEPT ![f] = s]
  /\ IF mutex_[ConnOf[f]] = NoFiber THEN Send(f)
     ELSE pc' = [pc EXCEPT ![f] = "wait"] /\ UNCHANGED mutex_
  /\ UNCHANGED <<ok, server, result>>

\* A key in the cache needs no server: LockCached.
LockStart(f, k) ==
  LET c == ConnOf[f] IN
  /\ k \notin locks_[c]
  /\ Ask(f, [sql |-> IF in_transaction_[c] THEN "xact_lock" ELSE "lock",
              key |-> k])
  /\ UNCHANGED <<locks_, in_transaction_>>

\* Variant: the key leaves the cache when the answer is there.
UnlockStartKeepingCache(f, k) ==
  LET c == ConnOf[f] IN
  /\ ~in_transaction_[c] /\ k \in locks_[c]
  /\ Ask(f, [sql |-> "unlock", key |-> k])
  /\ UNCHANGED <<locks_, in_transaction_>>

UnlockStart(f, k) ==
  LET c == ConnOf[f] IN
  /\ ~in_transaction_[c] /\ k \in locks_[c]
  /\ locks_' = [locks_ EXCEPT ![c] = @ \ {k}]
  /\ Ask(f, [sql |-> "unlock", key |-> k])
  /\ UNCHANGED in_transaction_

UnlockallStart(f) ==
  LET c == ConnOf[f] IN
  /\ ~in_transaction_[c] /\ locks_[c] # {}
  /\ Forget(c)
  /\ Ask(f, [sql |-> "unlock_all"])
  /\ UNCHANGED in_transaction_

BegintransStart(f) ==
  /\ Ask(f, [sql |-> "begin"])
  /\ UNCHANGED <<locks_, in_transaction_>>

RollbacktransStart(f) ==
  /\ Ask(f, [sql |-> "rollback"])
  /\ UNCHANGED <<locks_, in_transaction_>>

\* Variant: the cache is cleared when the answer is there.
CommittransStartKeepingCache(f) ==
  LET c == ConnOf[f] IN
  /\ in_transaction_' = [in_transaction_ EXCEPT ![c] = FALSE]
  /\ Ask(f, [sql |-> "end"])
  /\ UNCHANGED locks_

\* libpq says ACTIVE, not INERROR, while another fiber's statement runs.
CommittransStart(f) ==
  LET c == ConnOf[f]
      aborted == status[c] = "INERROR" /\ mutex_[c] = NoFiber IN
  /\ in_transaction_' = [in_transaction_ EXCEPT ![c] = FALSE]
  /\ Forget(c)
  /\ Ask(f, [sql |-> IF aborted THEN "rollback" ELSE "end"])

-----------------------------------------------------------------------------
(* Exec: the server has the statement.                                     *)

GetMutex(f) ==
  /\ pc[f] = "wait" /\ mutex_[ConnOf[f]] = NoFiber
  /\ Send(f)
  /\ UNCHANGED <<stmt, ok, vars>>

Run(f, answer) ==
  /\ pc[f] = "sent"
  /\ pc' = [pc EXCEPT ![f] = "done"]
  /\ ok' = [ok EXCEPT ![f] = answer]
  /\ UNCHANGED <<mutex_, stmt, locks_, in_transaction_, result>>

\* The statement of f is s.
Sends(f, s) == pc[f] = "sent" /\ stmt[f].sql = s

LockExec(f) ==
  LET c == ConnOf[f]
      k == stmt[f].key IN
  /\ Sends(f, "lock") \/ Sends(f, "xact_lock")
  /\ Accepts(c) /\ Available(c, k)
  /\ IF stmt[f].sql = "xact_lock" THEN TryAdvisoryXactLock(c, k)
                                  ELSE TryAdvisoryLock(c, k)
  /\ Run(f, TRUE)

LockRefusedExec(f) ==
  LET c == ConnOf[f] IN
  /\ Sends(f, "lock") \/ Sends(f, "xact_lock")
  /\ Accepts(c) /\ ~Available(c, stmt[f].key)
  /\ Run(f, FALSE)
  /\ UNCHANGED server

UnlockExec(f) ==
  LET c == ConnOf[f] IN
  /\ Sends(f, "unlock") /\ Accepts(c)
  /\ session' = [session EXCEPT
       ![c][stmt[f].key] = IF @ > 0 THEN @ - 1 ELSE 0]
  /\ Run(f, TRUE)
  /\ UNCHANGED <<status, xact>>

UnlockallExec(f) ==
  LET c == ConnOf[f] IN
  /\ Sends(f, "unlock_all") /\ Accepts(c)
  /\ session' = [session EXCEPT ![c] = NoSession]
  /\ Run(f, TRUE)
  /\ UNCHANGED <<status, xact>>

BegintransExec(f) ==
  LET c == ConnOf[f] IN
  /\ Sends(f, "begin") /\ Accepts(c)
  /\ status' = [status EXCEPT ![c] = "INTRANS"]
  /\ Run(f, TRUE)
  /\ UNCHANGED <<session, xact>>

EndExec(f) ==
  LET c == ConnOf[f] IN
  /\ Sends(f, "rollback") \/ Sends(f, "end")
  /\ status[c] # "UNKNOWN"
  /\ EndTransaction(c)
  /\ Run(f, TRUE)

\* In an aborted transaction and on a lost connection.
ExecFails(f) ==
  LET c == ConnOf[f] IN
  /\ ~Accepts(c)
  /\ status[c] = "INERROR" => ~Sends(f, "rollback") /\ ~Sends(f, "end")
  /\ Run(f, FALSE)
  /\ UNCHANGED server

-----------------------------------------------------------------------------
(* Finish: the fiber has the answer and lets go of the mutex.              *)

Finish(f) ==
  LET c == ConnOf[f] IN
  /\ pc[f] = "done"
  /\ mutex_' = [mutex_ EXCEPT ![c] = NoFiber]
  /\ pc' = [pc EXCEPT ![f] = "idle"]
  /\ stmt' = [stmt EXCEPT ![f] = NoStatement]
  /\ ok' = [ok EXCEPT ![f] = FALSE]
  /\ UNCHANGED <<server, result>>

Answered(f, S) == pc[f] = "done" /\ ok[f] /\ stmt[f].sql \in S

LockFinish(f) ==
  LET c == ConnOf[f] IN
  /\ Answered(f, {"lock", "xact_lock"})
  /\ locks_' = [locks_ EXCEPT ![c] = @ \cup {stmt[f].key}]
  /\ Finish(f)
  /\ UNCHANGED in_transaction_

BegintransFinish(f) ==
  LET c == ConnOf[f] IN
  /\ Answered(f, {"begin"})
  /\ in_transaction_' =
       [in_transaction_ EXCEPT ![c] = @ \/ status[c] = "INTRANS"]
  /\ Finish(f)
  /\ UNCHANGED locks_

RollbacktransFinish(f) ==
  LET c == ConnOf[f] IN
  /\ Answered(f, {"rollback"})
  /\ in_transaction_' = [in_transaction_ EXCEPT ![c] = FALSE]
  /\ Forget(c)
  /\ Finish(f)

\* unlock(), unlockall() and committrans() have done it all before; a call
\* that fails, or a lock that is refused, changes nothing.
OtherFinish(f) ==
  /\ Answered(f, {"unlock", "unlock_all", "end"}) \/ ~ok[f]
  /\ Finish(f)
  /\ UNCHANGED <<locks_, in_transaction_>>

-----------------------------------------------------------------------------

\* The server ends the session; what is being executed fails.
Lost(c) ==
  /\ ConnectionLost(c)
  /\ ok' = [f \in Fiber |-> ok[f] /\ ConnOf[f] # c]
  /\ UNCHANGED <<mutex_, pc, stmt>>

\* A statement of another kind fails in between.
Fails(c) ==
  /\ mutex_[c] = NoFiber
  /\ StatementFails(c)
  /\ UNCHANGED fibers

LockSteps(f) ==
  \/ \E k \in Key : LockStart(f, k) \/ UnlockStart(f, k)
  \/ GetMutex(f)
  \/ LockExec(f) \/ LockRefusedExec(f) \/ UnlockExec(f) \/ ExecFails(f)
  \/ LockFinish(f) \/ OtherFinish(f)

TransactionSteps(f) ==
  \/ UnlockallStart(f) \/ UnlockallExec(f)
  \/ BegintransStart(f) \/ RollbacktransStart(f) \/ CommittransStart(f)
  \/ BegintransExec(f) \/ EndExec(f)
  \/ BegintransFinish(f) \/ RollbacktransFinish(f)

TasksNext ==
  \/ \E f \in Fiber : LockSteps(f) \/ TransactionSteps(f)
  \/ \E c \in Conn : Lost(c) \/ Fails(c)

TasksSpec == TasksInit /\ [][TasksNext]_tvars

\* Tasks that share a connection only lock and unlock; unlockall() and
\* transactions are for a task with a connection of its own.
Alone(f) == \A g \in Fiber \ {f} : ConnOf[g] # ConnOf[f]

ApartNext ==
  \/ \E f \in Fiber : LockSteps(f) \/ (Alone(f) /\ TransactionSteps(f))
  \/ \E c \in Conn : Lost(c) \/ Fails(c)

ApartSpec == TasksInit /\ [][ApartNext]_tvars

-----------------------------------------------------------------------------
(* Properties.                                                             *)

\* A task that calls lock() now is told that the lock is here.
Told(c, k) == Owns(c, k) /\ \E f \in Fiber : ConnOf[f] = c /\ pc[f] = "idle"

\* "If another connection attempts to place an identical lock on the same
\* database it will be denied": the tasks of two connections are never told
\* at the same time that they have the same lock, while tasks that share a
\* connection only lock and unlock (ApartSpec).
TasksExclude ==
  \A c, d \in Conn, k \in Key : Told(c, k) /\ Told(d, k) => c = d

\* The lock cache is backed by the server whenever a task can look at it,
\* whatever the tasks do between its calls.
CacheIsBacked ==
  \A c \in Conn, k \in Key : Told(c, k) => k \in ServerHolds(c)
=============================================================================
