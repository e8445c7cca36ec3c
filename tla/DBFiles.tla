------------------------------- MODULE DBFiles -------------------------------
(***************************************************************************)
(* Creating, deleting and opening the files of a database (createfile,     *)
(* deletefile, open and detach of src/var/vardb.cpp): tables of the        *)
(* PostgreSQL server.                                                      *)
(*                                                                         *)
(* createfile() asks whether the file exists, then sends one statement     *)
(* that takes the advisory lock of the file name and makes the table, then *)
(* opens it.  Each of these is a step, and other processes come in         *)
(* between.  Each process has one connection, and a cache of the files it  *)
(* has opened (thread_file_handles).  One file is modelled.  Its table has *)
(* the normalized name, and the advisory lock the name as it was written:  *)
(* "Docs" and "docs" are one table and two locks.  A temporary file        *)
(* ("_temp") is a table of its own for each process.                       *)
(***************************************************************************)
EXTENDS Naturals, FiniteSets

CONSTANTS Proc,        \* processes
          NoProc,      \* nobody
          Temporary,   \* the file name ends in "_temp"
          Spelling     \* the ways to write the file name

ASSUME FileAssumption ==
  NoProc \notin Proc /\ Temporary \in BOOLEAN /\ Spelling # {}

VARIABLES
  table,       \* table[s]: the table exists, committed
  changer,     \* changer[s]: the transaction that has made or dropped it
  changed,     \* changed[s]: whether it exists in that transaction
  users,       \* transactions that have read or written it
  advisory,    \* advisory[k]: who has the session lock of spelling k
  trans,       \* trans[p]: the transaction of the connection
  thread_file_handles,  \* the processes that have a handle cached
  spelling,    \* how the last createfile() of each process has the name
  pc,          \* the step each call is at
  answer,      \* what it has returned
  made         \* the processes whose CREATE TABLE has made the table

server == <<table, changer, changed, users, advisory, trans>>
filesVars == <<server, thread_file_handles, spelling, pc, answer, made>>

\* Where the table of p is.
Site(p) == IF Temporary THEN p ELSE NoProc
Sites == {Site(p) : p \in Proc}

Answer == {"none", "true", "false", "exists", "throw", "duplicate"}

FilesTypeOK ==
  /\ table \in [Sites -> BOOLEAN] /\ changed \in [Sites -> BOOLEAN]
  /\ changer \in [Sites -> Proc \cup {NoProc}]
  /\ advisory \in [Spelling -> Proc \cup {NoProc}]
  /\ spelling \in [Proc -> Spelling]
  /\ trans \in [Proc -> {"IDLE", "INTRANS", "INERROR", "CLOSED"}]
  /\ thread_file_handles \subseteq Proc /\ made \subseteq Proc
  /\ pc \in [Proc -> {"idle", "create", "conflict", "reopen", "delete"}]
  /\ answer \in [Proc -> Answer]
  \* what a transaction has changed or used is its own until it ends
  /\ users \subseteq {p \in Proc : trans[p] = "INTRANS"}
  /\ \A s \in Sites : changer[s] = NoProc \/ trans[changer[s]] = "INTRANS"

FilesInit ==
  /\ table \in [Sites -> BOOLEAN]
  /\ Temporary => \A s \in Sites : ~table[s]
  /\ changer = [s \in Sites |-> NoProc] /\ changed = [s \in Sites |-> FALSE]
  /\ users = {} /\ advisory = [k \in Spelling |-> NoProc]
  /\ trans = [p \in Proc |-> "IDLE"]
  /\ thread_file_handles = {} /\ made = {}
  /\ spelling \in [Proc -> Spelling]
  /\ pc = [p \in Proc |-> "idle"]
  /\ answer = [p \in Proc |-> "none"]

-----------------------------------------------------------------------------
(* The server.                                                             *)

Accepts(p) == trans[p] \in {"IDLE", "INTRANS"}

\* The table exists for p: committed, or changed by its own transaction.
TableExists(p) == IF changer[Site(p)] = p THEN changed[Site(p)] ELSE table[Site(p)]

\* Another transaction that is not over has changed the table.
Changing(p) == changer[Site(p)] \notin {p, NoProc}

\* CREATE or DROP leaves the table as v.
Leave(p, v) ==
  IF trans[p] = "INTRANS"
  THEN /\ changer' = [changer EXCEPT ![Site(p)] = p]
       /\ changed' = [changed EXCEPT ![Site(p)] = v]
       /\ UNCHANGED table
  ELSE /\ table' = [table EXCEPT ![Site(p)] = v]
       /\ UNCHANGED <<changer, changed>>

\* The transaction of p ends; what it has changed stays or not.
End(p, commit, s) ==
  LET mine == changer[Site(p)] = p IN
  /\ trans' = [trans EXCEPT ![p] = s]
  /\ table' = [table EXCEPT ![Site(p)] =
       /\ ~(s = "CLOSED" /\ Temporary)
       /\ IF mine /\ commit THEN changed[Site(p)] ELSE @]
  /\ changer' = [changer EXCEPT ![Site(p)] = IF mine THEN NoProc ELSE @]
  /\ changed' = [changed EXCEPT ![Site(p)] = ~mine /\ @]
  /\ users' = users \ {p}

\* A statement of p fails, and so does its transaction.
Abort(p) ==
  IF trans[p] = "INTRANS" THEN End(p, FALSE, "INERROR")
  ELSE UNCHANGED <<table, changer, changed, users, trans>>

-----------------------------------------------------------------------------
(* createfile                                                              *)

Return(p, a) ==
  /\ pc' = [pc EXCEPT ![p] = "idle"]
  /\ answer' = [answer EXCEPT ![p] = a]

Goto(p, s) == pc' = [pc EXCEPT ![p] = s] /\ UNCHANGED answer

\* open() without a connection believes the handle that is cached; otherwise
\* it asks the server, and throws if that fails.
OpensCached(p) == p \in thread_file_handles
Finds(p) == Accepts(p) /\ TableExists(p)

Calls(p) == pc[p] = "idle" /\ trans[p] # "CLOSED"

\* "Fail neatly if the file already exists".
CreatefileExists(p) ==
  /\ Calls(p)
  /\ OpensCached(p) \/ Finds(p)
  /\ thread_file_handles' = thread_file_handles \cup {p}
  /\ Return(p, "exists")
  /\ UNCHANGED <<server, spelling, made>>

CreatefileStart(p) ==
  /\ Calls(p)
  /\ ~OpensCached(p) /\ ~Finds(p)
  /\ \E k \in Spelling : spelling' = [spelling EXCEPT ![p] = k]
  /\ made' = made \ {p}
  /\ IF Accepts(p) THEN Goto(p, "create") ELSE Return(p, "throw")
  /\ UNCHANGED <<server, thread_file_handles>>

FreeFor(p) == advisory[spelling[p]] \in {p, NoProc}

\* CREATE TABLE IF NOT EXISTS.  If there is no table yet, but another
\* transaction has made one that is not committed, it runs into that.
MakeTable(p) ==
  IF TableExists(p) THEN
    /\ Goto(p, "reopen")
    /\ UNCHANGED <<table, changer, changed, users, trans, made>>
  ELSE IF Changing(p) /\ changed[Site(p)] THEN
    /\ Goto(p, "conflict")
    /\ UNCHANGED <<table, changer, changed, users, trans, made>>
  ELSE
    /\ Leave(p, TRUE)
    /\ made' = made \cup {p}
    /\ Goto(p, "reopen")
    /\ UNCHANGED <<users, trans>>

\* Variant: the lock is gone with the statement.
CreateTableUnlocking(p) ==
  /\ pc[p] = "create"
  /\ FreeFor(p)
  /\ MakeTable(p)
  /\ UNCHANGED <<advisory, thread_file_handles, spelling>>

\* PERFORM pg_advisory_lock waits until no other session has the lock of the
\* name as it is written.  It is a lock of the session, that no end of a
\* statement or transaction drops.
CreateTable(p) ==
  /\ pc[p] = "create"
  /\ FreeFor(p) /\ advisory' = [advisory EXCEPT ![spelling[p]] = p]
  /\ MakeTable(p)
  /\ UNCHANGED <<thread_file_handles, spelling>>

\* When the other transaction is over its table is there, and this one's is a
\* "duplicate key value", or it is not.
CreateTableAfterConflict(p) ==
  /\ pc[p] = "conflict"
  /\ ~Changing(p)
  /\ IF table[Site(p)]
     THEN /\ Abort(p)
          /\ Return(p, "duplicate")
          /\ UNCHANGED made
     ELSE /\ Leave(p, TRUE)
          /\ made' = made \cup {p}
          /\ Goto(p, "reopen")
          /\ UNCHANGED <<users, trans>>
  /\ UNCHANGED <<advisory, thread_file_handles, spelling>>

\* The new file is opened "to get prepared statements".
CreatefileEnds(p) ==
  /\ pc[p] = "reopen"
  /\ Return(p, IF TableExists(p) THEN "true" ELSE "false")
  /\ thread_file_handles' =
       IF TableExists(p) THEN thread_file_handles \cup {p} ELSE thread_file_handles
  /\ UNCHANGED <<server, spelling, made>>

-----------------------------------------------------------------------------
(* deletefile, open, detach and the use of a file.                         *)

\* open() with the connection asks the server; then the handle is forgotten.
DeletefileStart(p) ==
  /\ Calls(p)
  /\ IF Finds(p)
     THEN /\ Goto(p, "delete")
          /\ thread_file_handles' = thread_file_handles \ {p}
     ELSE /\ Return(p, IF Accepts(p) THEN "false" ELSE "throw")
          /\ UNCHANGED thread_file_handles
  /\ UNCHANGED <<server, spelling, made>>

\* DROP TABLE waits for every transaction that has used the table.
DropTable(p) ==
  /\ pc[p] = "delete"
  /\ IF TableExists(p)
     THEN /\ ~Changing(p) /\ (Temporary \/ users \subseteq {p})
          /\ Leave(p, FALSE)
          /\ Return(p, "true")
          /\ UNCHANGED <<users, trans>>
     ELSE /\ Abort(p)
          /\ Return(p, "throw")
  /\ UNCHANGED <<advisory, thread_file_handles, spelling, made>>

Open(p) ==
  /\ Calls(p)
  /\ ~OpensCached(p) /\ Finds(p)
  /\ thread_file_handles' = thread_file_handles \cup {p}
  /\ UNCHANGED <<server, spelling, pc, answer, made>>

Detach(p) ==
  /\ Calls(p) /\ OpensCached(p)
  /\ thread_file_handles' = thread_file_handles \ {p}
  /\ UNCHANGED <<server, spelling, pc, answer, made>>

\* A record is read or written with the handle.  The table may be gone.
UseFile(p) ==
  /\ Calls(p) /\ OpensCached(p) /\ Accepts(p) /\ ~Changing(p)
  /\ IF TableExists(p)
     THEN /\ users' = IF trans[p] = "INTRANS" THEN users \cup {p} ELSE users
          /\ UNCHANGED <<table, changer, changed, trans>>
     ELSE Abort(p)
  /\ UNCHANGED <<advisory, thread_file_handles, spelling, pc, answer, made>>

-----------------------------------------------------------------------------
(* Transactions, connections and failures.                                 *)

Begintrans(p) ==
  /\ Calls(p) /\ trans[p] = "IDLE"
  /\ trans' = [trans EXCEPT ![p] = "INTRANS"]
  /\ UNCHANGED <<table, changer, changed, users, advisory,
                 thread_file_handles, spelling, pc, answer, made>>

\* Variant: the client resets its flag and the server is not told.
EndTransactionLocally(p) ==
  /\ Calls(p) /\ trans[p] \in {"INTRANS", "INERROR"}
  /\ trans' = [trans EXCEPT ![p] = "IDLE"]
  /\ UNCHANGED <<table, changer, changed, users, advisory,
                 thread_file_handles, spelling, pc, answer, made>>

\* committrans() and rollbacktrans(): neither looks at the cached handles.
EndTransaction(p) ==
  /\ Calls(p) /\ trans[p] \in {"INTRANS", "INERROR"}
  /\ \E commit \in BOOLEAN : End(p, commit /\ trans[p] = "INTRANS", "IDLE")
  /\ UNCHANGED <<advisory, thread_file_handles, spelling, pc, answer, made>>

\* Without the session locks of p.
Unlocked(p) ==
  [k \in Spelling |-> IF advisory[k] = p THEN NoProc ELSE advisory[k]]

\* unlockall() of a connection with record locks drops the session's locks.
Unlockall(p) ==
  /\ Calls(p) /\ trans[p] = "IDLE"
  /\ Unlocked(p) # advisory /\ advisory' = Unlocked(p)
  /\ UNCHANGED <<table, changer, changed, users, trans, thread_file_handles,
                 spelling, pc, answer, made>>

\* disconnect(), or the end of the process in whatever it was doing.
SessionEnds(p) ==
  /\ trans[p] # "CLOSED"
  /\ End(p, FALSE, "CLOSED")
  /\ advisory' = Unlocked(p)
  /\ thread_file_handles' = thread_file_handles \ {p}
  /\ made' = made \ {p}
  /\ Return(p, "none")
  /\ UNCHANGED spelling

Connect(p) ==
  /\ trans[p] = "CLOSED"
  /\ trans' = [trans EXCEPT ![p] = "IDLE"]
  /\ UNCHANGED <<table, changer, changed, users, advisory,
                 thread_file_handles, spelling, pc, answer, made>>

\* Whom the statement of p waits for.
WaitsFor(p) ==
  CASE pc[p] = "create" -> {advisory[spelling[p]]} \ {p, NoProc}
    [] pc[p] = "conflict" -> {changer[Site(p)]} \ {p, NoProc}
    [] pc[p] = "delete" /\ TableExists(p) /\ ~Temporary ->
         ({changer[Site(p)]} \cup users) \ {p, NoProc}
    [] OTHER -> {}

\* The server ends a deadlock by failing a statement: createfile() returns
\* false, deletefile() throws.
Deadlock(p) ==
  /\ \E q \in WaitsFor(p) : p \in WaitsFor(q)
  /\ Abort(p)
  /\ Return(p, IF pc[p] = "delete" THEN "throw" ELSE "false")
  /\ UNCHANGED <<advisory, thread_file_handles, spelling, made>>

\* The next step of a call.
StepOfCall(p) ==
  \/ CreateTable(p) \/ CreateTableAfterConflict(p) \/ CreatefileEnds(p)
  \/ DropTable(p) \/ Deadlock(p)

FilesNext ==
  \E p \in Proc :
    \/ CreatefileExists(p) \/ CreatefileStart(p) \/ DeletefileStart(p)
    \/ StepOfCall(p)
    \/ Open(p) \/ Detach(p) \/ UseFile(p)
    \/ Begintrans(p) \/ EndTransaction(p) \/ Unlockall(p)
    \/ SessionEnds(p) \/ Connect(p)

FilesSpec == FilesInit /\ [][FilesNext]_filesVars

\* The server queues those that wait, programs end the transactions they
\* begin.
FilesFairSpec ==
  FilesSpec /\ \A p \in Proc : SF_filesVars(StepOfCall(p)) /\ SF_filesVars(EndTransaction(p))

-----------------------------------------------------------------------------
(* Properties.                                                             *)

\* "Wrap in advisory lock to avoid race to create": a createfile() runs into a
\* table in the making, and may then be refused as a duplicate, only if whoever
\* makes it has written the name otherwise.  Of those that write it alike and
\* have found no file none is refused, although the first may be in a transaction
\* that commits later.
NoDuplicate ==
  \A p \in Proc :
    pc[p] = "conflict" /\ Changing(p) /\ changed[Site(p)] =>
      spelling[changer[Site(p)]] # spelling[p]

(* The following do not hold.                                              *)

\* "avoid race to create after concurrent failure to open": none is a duplicate.
NeverDuplicate == \A p \in Proc : answer[p] # "duplicate"

\* Every createfile() returns: the session lock of another process may stay as
\* long as that is connected.
CreatefileReturns ==
  \A p \in Proc : (pc[p] = "create") ~> (pc[p] = "idle")

\* createfile() is true for the one process that has made the file: others
\* are told that it exists.
CreatorIsOne ==
  [][\A p \in Proc :
       pc[p] = "reopen" /\ pc'[p] = "idle" /\ answer'[p] = "true"
         => p \in made]_filesVars

\* createfile() says that a file exists only when it does.
RefusalIsTrue ==
  [][\A p \in Proc : CreatefileExists(p) /\ Accepts(p) => TableExists(p)]_filesVars
=============================================================================
