---------------------------- MODULE RecordCache ----------------------------
(***************************************************************************)
(* The record cache of a database connection: var::readc, writec, deletec, *)
(* clearcache, and what the calls that change records or transactions do   *)
(* to it (src/var/vardb.cpp, DBpool.cpp).                                  *)
(*                                                                         *)
(* The tasks of a process are fibers that share its connection.  As in     *)
(* LockTasks, a call that needs the server has three steps: Start, up to   *)
(* where it takes the mutex of the connection, or waits for it             *)
(* (async_PQexec), Exec, the statement on the server, and Finish, when the *)
(* fiber goes on with the result.  Other fibers run in between, and other  *)
(* processes change records.  A record is the number of the change that    *)
(* made it, and whether it does not exist, is empty or is full.            *)
(***************************************************************************)
EXTENDS Naturals, FiniteSets

CONSTANTS Fiber,      \* the tasks of the process
          Key,        \* record keys of a file
          None,       \* no fiber, no entry, no statement
          Program,    \* a cache entry that the program made with writec()
          MaxWrite    \* bound: how many changes are made

ASSUME FiberAssumption == None \notin Fiber /\ IsFiniteSet(Fiber)
ASSUME MaxWriteAssumption == MaxWrite \in Nat

VARIABLES
  db,                 \* db[k]: the committed record
  pending,            \* pending[k]: as our transaction has left it
  status,             \* the transaction on the server
  in_transaction_,    \* DBconn::in_transaction_
  dbcache_,           \* dbcache_[k]: DBconn::dbcache_
  mutex_,             \* DBconn::mutex_: the fiber that has it
  pc, stmt, outcome,  \* what each fiber is doing, and what it got
  lastWrite,          \* number of the last change
  known,              \* known[k]: the last change of k this program made
  knownBefore,        \* the same, before the transaction
  dead                \* changes that were rolled back

server == <<db, pending, status>>
fibers == <<mutex_, pc, stmt, outcome>>
ghosts == <<lastWrite, known, knownBefore, dead>>
vars == <<server, in_transaction_, dbcache_, fibers, ghosts>>

Record == [n : 0..MaxWrite, is : {"none", "empty", "full"}]
\* What the cache has of a record: its text.  "" stands for no record, too.
Entry == [n : 0..MaxWrite, text : {"", "data"}]
Text(r) == [n |-> r.n, text |-> IF r.is = "full" THEN "data" ELSE ""]

ASSUME NoneAssumption ==
  /\ None \notin Record \cup Entry /\ Program \notin Entry
  /\ None # Program

Change ==
  {"write", "insertrecord", "updaterecord", "deleterecord", "updatekey"}
Statement ==
  [do : Change \cup {"readc", "writef"}, key : Key, to : Key]
    \cup [do : {"begin", "rollback", "end"}]

TypeOK ==
  /\ db \in [Key -> Record]
  /\ pending \in [Key -> Record \cup {None}]
  /\ status \in {"IDLE", "INTRANS", "INERROR", "UNKNOWN"}
  /\ in_transaction_ \in BOOLEAN
  /\ dbcache_ \in [Key -> Entry \cup {None, Program}]
  /\ mutex_ \in Fiber \cup {None}
  /\ pc \in [Fiber -> {"idle", "wait", "sent", "done"}]
  /\ \A f \in Fiber : pc[f] \in {"sent", "done"} <=> mutex_ = f
  /\ stmt \in [Fiber -> Statement \cup {None}]
  /\ outcome \in [Fiber -> [ok : BOOLEAN, rec : Record \cup {None}]]
  /\ lastWrite \in 0..MaxWrite
  /\ known \in [Key -> 0..MaxWrite] /\ knownBefore \in [Key -> 0..MaxWrite]
  /\ dead \subseteq 1..MaxWrite

Unchanged == [k \in Key |-> None]
Failure == [ok |-> FALSE, rec |-> None]
Done == [ok |-> TRUE, rec |-> None]

Init ==
  /\ db \in [Key -> {r \in Record : r.n = 0}]
  /\ pending = Unchanged
  /\ status = "IDLE"
  /\ in_transaction_ = FALSE
  /\ dbcache_ = Unchanged
  /\ mutex_ = None
  /\ pc = [f \in Fiber |-> "idle"]
  /\ stmt = [f \in Fiber |-> None]
  /\ outcome = [f \in Fiber |-> Failure]
  /\ lastWrite = 0
  /\ known = [k \in Key |-> 0] /\ knownBefore = known
  /\ dead = {}

-----------------------------------------------------------------------------
(* Start: what a call does before it needs the server.                     *)

Send(f) == mutex_' = f /\ pc' = [pc EXCEPT ![f] = "sent"]

\* The fiber goes for the mutex with statement s.
Ask(f, s) ==
  /\ pc[f] = "idle"
  /\ stmt' = [stmt EXCEPT ![f] = s]
  /\ IF mutex_ = None THEN Send(f)
     ELSE pc' = [pc EXCEPT ![f] = "wait"] /\ UNCHANGED mutex_
  /\ UNCHANGED outcome

\* The bound leaves room for the changes of all fibers.
Room == lastWrite + Cardinality({f \in Fiber : pc[f] # "idle"}) < MaxWrite

\* deletec() of the keys in K.
Drop(K) == dbcache_' = [k \in Key |-> IF k \in K THEN None ELSE dbcache_[k]]

\* readc() of a key that is not in the cache.  One that is there is returned
\* without any step.
ReadcStart(f, k) ==
  /\ dbcache_[k] = None
  /\ Ask(f, [do |-> "readc", key |-> k, to |-> k])
  /\ UNCHANGED <<server, in_transaction_, dbcache_, ghosts>>

\* write(), insertrecord(), updaterecord() and deleterecord() call deletec()
\* first.
ChangeStart(f, o, k) ==
  /\ Room
  /\ Drop({k})
  /\ Ask(f, [do |-> o, key |-> k, to |-> k])
  /\ UNCHANGED <<server, in_transaction_, ghosts>>

\* Variant: only the old key is dropped from the cache.
UpdatekeyStartOldOnly(f, k, k2) ==
  /\ Room
  /\ Drop({k})
  /\ Ask(f, [do |-> "updatekey", key |-> k, to |-> k2])
  /\ UNCHANGED <<server, in_transaction_, ghosts>>

UpdatekeyStart(f, k, k2) ==
  /\ Room
  /\ Drop({k, k2})
  /\ Ask(f, [do |-> "updatekey", key |-> k, to |-> k2])
  /\ UNCHANGED <<server, in_transaction_, ghosts>>

\* writef() reads the record, changes a field and writes it.
WritefStart(f, k) ==
  /\ Room
  /\ Ask(f, [do |-> "writef", key |-> k, to |-> k])
  /\ UNCHANGED <<server, in_transaction_, dbcache_, ghosts>>

Writec(f, k) ==
  /\ pc[f] = "idle"
  /\ dbcache_' = [dbcache_ EXCEPT ![k] = Program]
  /\ UNCHANGED <<server, in_transaction_, fibers, ghosts>>

Deletec(f, k) ==
  /\ pc[f] = "idle"
  /\ Drop({k})
  /\ UNCHANGED <<server, in_transaction_, fibers, ghosts>>

Clearcache(f) ==
  /\ pc[f] = "idle"
  /\ Drop(Key)
  /\ UNCHANGED <<server, in_transaction_, fibers, ghosts>>

BegintransStart(f) ==
  /\ Drop(Key)
  /\ Ask(f, [do |-> "begin"])
  /\ UNCHANGED <<server, in_transaction_, ghosts>>

\* Variant: the cache outlives the transaction.
RollbacktransStartKeeping(f) ==
  /\ Ask(f, [do |-> "rollback"])
  /\ UNCHANGED <<server, in_transaction_, dbcache_, ghosts>>

RollbacktransStart(f) ==
  /\ Drop(Key)
  /\ Ask(f, [do |-> "rollback"])
  /\ UNCHANGED <<server, in_transaction_, ghosts>>

\* committrans() resets the flag first, and rolls back a transaction that is
\* aborted.  libpq says ACTIVE while another fiber's statement runs.
CommittransStart(f) ==
  LET aborted == status = "INERROR" /\ mutex_ = None IN
  /\ Drop(Key)
  /\ in_transaction_' = FALSE
  /\ Ask(f, [do |-> IF aborted THEN "rollback" ELSE "end"])
  /\ UNCHANGED <<server, ghosts>>

-----------------------------------------------------------------------------
(* Exec: the statement on the server.                                      *)

Accepts == status \in {"IDLE", "INTRANS"}

\* The changes that are not committed.
Uncommitted == {pending[k].n : k \in {j \in Key : pending[j] # None}}

\* The record as our session sees it.
Seen(k) == IF pending[k] = None THEN db[k] ELSE pending[k]

\* The server rolls the transaction back, if there is one.
Abort(s) ==
  /\ status' = s
  /\ pending' = Unchanged
  /\ dead' = dead \cup Uncommitted
  /\ known' = IF status = "INTRANS" THEN knownBefore ELSE known
  /\ UNCHANGED <<db, lastWrite, knownBefore>>

GetMutex(f) ==
  /\ pc[f] = "wait" /\ mutex_ = None
  /\ Send(f)
  /\ UNCHANGED <<server, in_transaction_, dbcache_, stmt, outcome, ghosts>>

\* The statement of f has result r.
Run(f, r) ==
  /\ pc[f] = "sent"
  /\ pc' = [pc EXCEPT ![f] = "done"]
  /\ outcome' = [outcome EXCEPT ![f] = r]
  /\ UNCHANGED <<mutex_, stmt, in_transaction_, dbcache_>>

ExecRead(f) ==
  /\ pc[f] = "sent" /\ stmt[f].do \in {"readc", "writef"}
  /\ Accepts
  /\ Run(f, [ok |-> TRUE, rec |-> Seen(stmt[f].key)])
  /\ UNCHANGED <<server, ghosts>>

Exists(k) == Seen(k).is # "none"

\* INSERT of a key that exists, UPDATE of a key to one that exists.
Duplicate(s) ==
  \/ s.do = "insertrecord" /\ Exists(s.key)
  \/ s.do = "updatekey" /\ Exists(s.key) /\ Exists(s.to)

NoRows(s) ==
  s.do \in {"updaterecord", "deleterecord", "updatekey"} /\ ~Exists(s.key)

\* The records that statement s can leave at its last key.
Made(s) ==
  [n : {lastWrite + 1},
   is : CASE s.do = "deleterecord" -> {"none"}
          [] s.do = "updatekey"    -> {Seen(s.key).is}
          [] OTHER                 -> {"empty", "full"}]

ExecChange(f) ==
  LET s == stmt[f] IN
  /\ pc[f] = "sent" /\ s.do \in Change
  /\ Accepts /\ ~Duplicate(s) /\ ~NoRows(s)
  /\ \E r \in Made(s) :
       LET new(old) ==
             [k \in Key |-> CASE k = s.to  -> r
                             [] k # s.to /\ k = s.key -> [r EXCEPT !.is = "none"]
                             [] OTHER     -> old[k]] IN
       /\ IF status = "INTRANS" THEN pending' = new(pending) /\ UNCHANGED db
                                ELSE db' = new(db) /\ UNCHANGED pending
       /\ Run(f, [ok |-> TRUE, rec |-> r])
  /\ lastWrite' = lastWrite + 1
  /\ UNCHANGED <<status, known, knownBefore, dead>>

ExecNoRows(f) ==
  /\ pc[f] = "sent" /\ stmt[f].do \in Change
  /\ Accepts /\ NoRows(stmt[f])
  /\ Run(f, Failure)
  /\ UNCHANGED <<server, ghosts>>

\* A statement that fails, as a duplicate, as the victim of a deadlock or in
\* an aborted transaction, aborts the transaction.
ExecFails(f) ==
  /\ pc[f] = "sent" /\ stmt[f].do \notin {"rollback", "end"}
  /\ Run(f, Failure)
  /\ IF status = "INTRANS" THEN Abort("INERROR")
                           ELSE UNCHANGED <<server, ghosts>>

ExecBegin(f) ==
  /\ pc[f] = "sent" /\ stmt[f].do = "begin"
  /\ Accepts
  /\ Run(f, Done)
  /\ status' = "INTRANS"
  /\ knownBefore' = IF status = "IDLE" THEN known ELSE knownBefore
  /\ UNCHANGED <<db, pending, lastWrite, known, dead>>

\* ROLLBACK, and END of an aborted transaction.
ExecRollback(f) ==
  /\ pc[f] = "sent"
  /\ \/ stmt[f].do = "rollback" /\ status # "UNKNOWN"
     \/ stmt[f].do = "end" /\ status = "INERROR"
  /\ Run(f, Done)
  /\ Abort("IDLE")

ExecEnd(f) ==
  /\ pc[f] = "sent" /\ stmt[f].do = "end"
  /\ Accepts
  /\ Run(f, Done)
  /\ status' = "IDLE"
  /\ db' = [k \in Key |-> Seen(k)]
  /\ pending' = Unchanged
  /\ UNCHANGED ghosts

ExecNoServer(f) ==
  /\ pc[f] = "sent" /\ stmt[f].do \in {"rollback", "end"}
  /\ status = "UNKNOWN"
  /\ Run(f, Failure)
  /\ UNCHANGED <<server, ghosts>>

-----------------------------------------------------------------------------
(* Finish: the fiber has its result and goes on.                           *)

\* The call of f returns.
Return(f) ==
  /\ pc[f] = "done"
  /\ mutex_' = None
  /\ pc' = [pc EXCEPT ![f] = "idle"]
  /\ stmt' = [stmt EXCEPT ![f] = None]
  /\ outcome' = [outcome EXCEPT ![f] = Failure]

\* A record that does not exist is cached, too; a read that fails throws.
ReadcFinish(f) ==
  /\ pc[f] = "done" /\ stmt[f].do = "readc"
  /\ dbcache_' = IF outcome[f].ok
       THEN [dbcache_ EXCEPT ![stmt[f].key] = Text(outcome[f].rec)]
       ELSE dbcache_
  /\ Return(f)
  /\ UNCHANGED <<server, in_transaction_, ghosts>>

\* The second half of writef() is a write(), that takes the mutex again
\* before any other fiber runs.
WritefGoesOn(f) ==
  /\ pc[f] = "done" /\ stmt[f].do = "writef" /\ outcome[f].ok
  /\ Drop({stmt[f].key})
  /\ pc' = [pc EXCEPT ![f] = "sent"]
  /\ stmt' = [stmt EXCEPT ![f].do = "write"]
  /\ outcome' = [outcome EXCEPT ![f] = Failure]
  /\ UNCHANGED <<mutex_, server, in_transaction_, ghosts>>

WritefFails(f) ==
  /\ pc[f] = "done" /\ stmt[f].do = "writef" /\ ~outcome[f].ok
  /\ Return(f)
  /\ UNCHANGED <<server, in_transaction_, dbcache_, ghosts>>

ChangeFinish(f) ==
  /\ pc[f] = "done" /\ stmt[f].do \in Change
  /\ known' = [k \in Key |->
       IF outcome[f].ok /\ k \in {stmt[f].key, stmt[f].to}
       THEN outcome[f].rec.n ELSE known[k]]
  /\ Return(f)
  /\ UNCHANGED <<server, in_transaction_, dbcache_, lastWrite, knownBefore,
                 dead>>

BegintransFinish(f) ==
  /\ pc[f] = "done" /\ stmt[f].do = "begin"
  /\ in_transaction_' =
       (in_transaction_ \/ (outcome[f].ok /\ status = "INTRANS"))
  /\ Return(f)
  /\ UNCHANGED <<server, dbcache_, ghosts>>

RollbacktransFinish(f) ==
  /\ pc[f] = "done" /\ stmt[f].do = "rollback"
  /\ in_transaction_' = (in_transaction_ /\ ~outcome[f].ok)
  /\ Return(f)
  /\ UNCHANGED <<server, dbcache_, ghosts>>

CommittransFinish(f) ==
  /\ pc[f] = "done" /\ stmt[f].do = "end"
  /\ Return(f)
  /\ UNCHANGED <<server, in_transaction_, dbcache_, ghosts>>

-----------------------------------------------------------------------------
(* The rest of the world.                                                  *)

\* Another process changes a record that our transaction has not changed.
OtherWrites(k) ==
  /\ Room /\ pending[k] = None
  /\ lastWrite' = lastWrite + 1
  /\ \E r \in [n : {lastWrite'}, is : {"none", "empty", "full"}] :
       db' = [db EXCEPT ![k] = r]
  /\ UNCHANGED <<pending, status, in_transaction_, dbcache_, fibers, known,
                 knownBefore, dead>>

\* The server ends the session; the statement that runs fails.
ConnectionLost ==
  /\ status # "UNKNOWN"
  /\ Abort("UNKNOWN")
  /\ outcome' = [f \in Fiber |-> Failure]
  /\ UNCHANGED <<in_transaction_, dbcache_, mutex_, pc, stmt>>

Next ==
  \/ \E f \in Fiber :
       \/ \E k \in Key :
            \/ ReadcStart(f, k) \/ WritefStart(f, k)
            \/ Writec(f, k) \/ Deletec(f, k)
            \/ \E o \in Change \ {"updatekey"} : ChangeStart(f, o, k)
            \/ \E k2 \in Key \ {k} : UpdatekeyStart(f, k, k2)
       \/ Clearcache(f)
       \/ BegintransStart(f) \/ RollbacktransStart(f) \/ CommittransStart(f)
       \/ GetMutex(f)
       \/ ExecRead(f) \/ ExecChange(f) \/ ExecNoRows(f) \/ ExecFails(f)
       \/ ExecBegin(f) \/ ExecRollback(f) \/ ExecEnd(f) \/ ExecNoServer(f)
       \/ ReadcFinish(f) \/ ChangeFinish(f)
       \/ WritefGoesOn(f) \/ WritefFails(f)
       \/ BegintransFinish(f) \/ RollbacktransFinish(f)
       \/ CommittransFinish(f)
  \/ \E k \in Key : OtherWrites(k)
  \/ ConnectionLost

Spec == Init /\ [][Next]_vars

\* Tasks that keep apart: no two calls in progress concern the same record,
\* unless both only read it, and none is in progress beside a call that
\* begins or ends a transaction.
Keyed(s) == s.do \notin {"begin", "rollback", "end"}

Apart ==
  \A f, g \in Fiber :
    f # g /\ pc[f] # "idle" /\ pc[g] # "idle" =>
      /\ Keyed(stmt[f]) /\ Keyed(stmt[g])
      /\ \/ {stmt[f].key, stmt[f].to} \cap {stmt[g].key, stmt[g].to} = {}
         \/ stmt[f].do = "readc" /\ stmt[g].do = "readc"

ApartSpec == Init /\ [][Next /\ Apart']_vars

-----------------------------------------------------------------------------
(* Properties.                                                             *)

Cached(k) == dbcache_[k] \notin {None, Program}

\* "to prevent any future readc() getting known obsolete records": the cache
\* never has a record that the program itself has changed since, however the
\* change was made and whatever was rolled back.
CacheNotObsolete == \A k \in Key : Cached(k) => dbcache_[k].n >= known[k]

\* Outside a transaction the cache has nothing that is not committed, whether
\* a transaction was rolled back, aborted by a failing statement or lost with
\* the connection.
CacheIsCommitted ==
  ~in_transaction_ =>
    \A k \in Key : Cached(k) => dbcache_[k].n \notin dead \cup Uncommitted

\* readc() is "Same as read()": as long as the record that was cached is the
\* one that is there, a cache hit says what read() says, that the record
\* exists or not.
HitAgreesWithRead ==
  \A k \in Key :
    Cached(k) /\ dbcache_[k].n = Seen(k).n =>
      (dbcache_[k].text # "" <=> Exists(k))
=============================================================================
