---------------------------- MODULE FilesProofs ----------------------------
(***************************************************************************)
(* Proofs about the files that several processes use: those of a database  *)
(* (DBFiles) and those that carry the requests of the web service          *)
(* (RequestFiles).                                                         *)
(*                                                                         *)
(* No createfile() runs into the table that another is making, for any     *)
(* number of processes and for files of both kinds, unless the two write   *)
(* the name in different ways.  A table that a transaction has made and    *)
(* not yet committed is there only while the session of that transaction   *)
(* has the advisory lock of the name as it was written (MakerHasLock), and *)
(* whoever comes to CREATE TABLE has the lock of its own spelling.         *)
(*                                                                         *)
(* However many calls, listeners, names, crashes, failures and timeouts    *)
(* there are, on the assumption that no number is drawn while something    *)
(* still goes by it, the work of a call is committed at most once, what a  *)
(* gateway reads is the answer to its own call, and what it is told is     *)
(* true.  None of the three is inductive: they rest on where a call's      *)
(* request can be.  It is with its gateway, which has not renamed it yet,  *)
(* or in one ~N.1, or with one listener, and while it is there nothing of  *)
(* it was committed; or its work is in the open transaction of one         *)
(* listener that has failed, and then nobody will be told that there was   *)
(* no request (OpenWork).  A response that NET may have written meanwhile  *)
(* is an error, which says nothing.                                        *)
(***************************************************************************)
EXTENDS DBFiles, RequestFiles, TLAPS

-----------------------------------------------------------------------------
(* The files of a database.                                                *)


\* A temporary table is changed by its own process only.
OwnTables ==
  Temporary => \A p \in Proc : changer[p] \in {p, NoProc}

\* Whoever has made a table in a transaction that is not over has the lock of the
\* name as it has written it,
MakerHasLock ==
  \A s \in Sites :
    changer[s] # NoProc /\ changed[s] => advisory[spelling[changer[s]]] = changer[s]

\* ... and so has a createfile() that runs into one.
ConflictHasLock ==
  \A p \in Proc : pc[p] = "conflict" => advisory[spelling[p]] = p

FilesInv == FilesTypeOK /\ OwnTables /\ MakerHasLock /\ ConflictHasLock

LEMMA InitFilesInv == FilesInit => FilesInv
  BY FileAssumption
  DEF FilesInit, FilesInv, FilesTypeOK, OwnTables, MakerHasLock, ConflictHasLock,
      Sites, Site, Answer

\* What a process takes of the locks is its own.
LEMMA TakesLock ==
  ASSUME FilesInv, NEW p \in Proc, FreeFor(p),
         advisory' = [advisory EXCEPT ![spelling[p]] = p], UNCHANGED spelling
  PROVE  /\ advisory' \in [Spelling -> Proc \cup {NoProc}]
         /\ advisory'[spelling'[p]] = p
         /\ \A q \in Proc : advisory[spelling[q]] = q => advisory'[spelling'[q]] = q
  BY FileAssumption DEF FilesInv, FilesTypeOK, FreeFor

\* A table that is made is its maker's, who has the lock.
LEMMA LeaveKeeps ==
  ASSUME FilesInv, NEW p \in Proc, NEW made_ \in BOOLEAN, Leave(p, made_),
         UNCHANGED spelling, advisory'[spelling'[p]] = p \/ ~made_,
         \A q \in Proc : advisory[spelling[q]] = q => advisory'[spelling'[q]] = q
  PROVE  /\ table' \in [Sites -> BOOLEAN] /\ changed' \in [Sites -> BOOLEAN]
         /\ changer' \in [Sites -> Proc \cup {NoProc}]
         /\ \A s \in Sites : changer'[s] = NoProc \/ trans[changer'[s]] = "INTRANS"
         /\ OwnTables' /\ MakerHasLock'
  <1>1. Site(p) \in Sites
    BY DEF Sites
  <1>2. /\ changer \in [Sites -> Proc \cup {NoProc}]
        /\ changed \in [Sites -> BOOLEAN] /\ table \in [Sites -> BOOLEAN]
        /\ \A s \in Sites : changer[s] = NoProc \/ trans[changer[s]] = "INTRANS"
        /\ OwnTables /\ MakerHasLock
    BY DEF FilesInv, FilesTypeOK
  <1>3. CASE trans[p] = "INTRANS"
    <2>1. /\ changer' = [changer EXCEPT ![Site(p)] = p]
          /\ changed' = [changed EXCEPT ![Site(p)] = made_]
          /\ table' = table
      BY <1>3 DEF Leave
    <2>2. OwnTables'
      BY <1>2, <2>1 DEF OwnTables, Site, Sites
    <2>3. MakerHasLock'
      <3>1. ASSUME NEW s \in Sites, changer'[s] # NoProc, changed'[s]
            PROVE  advisory'[spelling'[changer'[s]]] = changer'[s]
        <4>1. CASE s = Site(p)
          BY <1>1, <1>2, <2>1, <3>1, <4>1
        <4>2. CASE s # Site(p)
          <5>1. changer'[s] = changer[s] /\ changed[s] /\ changer[s] \in Proc
            BY <1>2, <2>1, <3>1, <4>2
          <5>2. QED
            BY <1>2, <3>1, <5>1 DEF MakerHasLock
        <4>3. QED
          BY <4>1, <4>2
      <3>2. QED
        BY <3>1 DEF MakerHasLock
    <2>4. QED
      BY <1>1, <1>2, <1>3, <2>1, <2>2, <2>3
  <1>4. CASE trans[p] # "INTRANS"
    <2>1. /\ table' = [table EXCEPT ![Site(p)] = made_]
          /\ UNCHANGED <<changer, changed>>
      BY <1>4 DEF Leave
    <2>2. QED
      BY <1>1, <1>2, <2>1 DEF OwnTables, MakerHasLock
  <1>5. QED
    BY <1>3, <1>4

\* The end of a transaction keeps the parts of the invariant it concerns.
LEMMA EndKeeps ==
  ASSUME FilesInv, NEW p \in Proc, NEW commit \in BOOLEAN,
         NEW s \in {"IDLE", "INERROR", "CLOSED"},
         End(p, commit, s)
  PROVE  /\ table' \in [Sites -> BOOLEAN] /\ changed' \in [Sites -> BOOLEAN]
         /\ changer' \in [Sites -> Proc \cup {NoProc}]
         /\ trans' \in [Proc -> {"IDLE", "INTRANS", "INERROR", "CLOSED"}]
         /\ users' \subseteq {q \in Proc : trans'[q] = "INTRANS"}
         /\ \A t \in Sites : changer'[t] = NoProc \/ trans'[changer'[t]] = "INTRANS"
         /\ Temporary => \A q \in Proc : changer'[q] \in {q, NoProc}
         /\ \A t \in Sites :
              changer'[t] # NoProc /\ changed'[t] =>
                /\ changer[t] = changer'[t] /\ changed[t]
                /\ changer[t] # p
  <1> DEFINE mine == changer[Site(p)] = p
  <1>1. Site(p) \in Sites
    BY DEF Sites
  <1>2. \A t \in Sites : changer[t] = p => t = Site(p)
    BY FileAssumption DEF FilesInv, OwnTables, Sites, Site
  <1>3. /\ changer \in [Sites -> Proc \cup {NoProc}]
        /\ changed \in [Sites -> BOOLEAN] /\ table \in [Sites -> BOOLEAN]
        /\ trans \in [Proc -> {"IDLE", "INTRANS", "INERROR", "CLOSED"}]
        /\ users \subseteq {q \in Proc : trans[q] = "INTRANS"}
        /\ \A t \in Sites : changer[t] = NoProc \/ trans[changer[t]] = "INTRANS"
    BY DEF FilesInv, FilesTypeOK
  <1>4. /\ changer' = [changer EXCEPT ![Site(p)] = IF mine THEN NoProc ELSE @]
        /\ changed' = [changed EXCEPT ![Site(p)] = ~mine /\ @]
        /\ trans' = [trans EXCEPT ![p] = s]
        /\ users' = users \ {p}
    BY DEF End
  <1>5. table' \in [Sites -> BOOLEAN]
    BY <1>1, <1>3 DEF End
  <1>6. changed' \in [Sites -> BOOLEAN]
    BY <1>1, <1>3, <1>4
  <1>7. /\ changer' \in [Sites -> Proc \cup {NoProc}]
        /\ trans' \in [Proc -> {"IDLE", "INTRANS", "INERROR", "CLOSED"}]
        /\ users' \subseteq {q \in Proc : trans'[q] = "INTRANS"}
    BY <1>1, <1>3, <1>4
  <1>8. \A t \in Sites : changer'[t] = NoProc \/ (changer'[t] = changer[t] /\ changer[t] # p)
    BY <1>1, <1>2, <1>3, <1>4
  <1>9. \A t \in Sites : changer'[t] = NoProc \/ trans'[changer'[t]] = "INTRANS"
    BY <1>3, <1>4, <1>8
  <1>10. Temporary => \A q \in Proc : changer'[q] \in {q, NoProc}
    BY <1>8 DEF FilesInv, OwnTables, Sites, Site
  <1>11. \A t \in Sites : changed'[t] => changed[t]
    BY <1>1, <1>3, <1>4
  <1> QED
    BY <1>5, <1>6, <1>7, <1>8, <1>9, <1>10, <1>11

\* A statement that fails keeps them, too.
LEMMA AbortKeeps ==
  ASSUME FilesInv, NEW p \in Proc, Abort(p)
  PROVE  /\ table' \in [Sites -> BOOLEAN] /\ changed' \in [Sites -> BOOLEAN]
         /\ changer' \in [Sites -> Proc \cup {NoProc}]
         /\ trans' \in [Proc -> {"IDLE", "INTRANS", "INERROR", "CLOSED"}]
         /\ users' \subseteq {q \in Proc : trans'[q] = "INTRANS"}
         /\ \A t \in Sites : changer'[t] = NoProc \/ trans'[changer'[t]] = "INTRANS"
         /\ Temporary => \A q \in Proc : changer'[q] \in {q, NoProc}
         /\ \A t \in Sites :
              changer'[t] # NoProc /\ changed'[t] =>
                changer[t] = changer'[t] /\ changed[t]
  <1>1. CASE trans[p] = "INTRANS"
    <2>1. End(p, FALSE, "INERROR")
      BY <1>1 DEF Abort
    <2> QED
      BY <2>1, EndKeeps
  <1>2. CASE trans[p] # "INTRANS"
    BY <1>2 DEF Abort, FilesInv, FilesTypeOK, OwnTables
  <1> QED
    BY <1>1, <1>2

\* Whoever makes a table, or runs into one, has the lock.
LEMMA CreateKeeps == ASSUME FilesInv, NEW p \in Proc, CreateTable(p) PROVE FilesInv'
  <1> USE DEF FilesInv
  <1>1. /\ pc[p] = "create" /\ MakeTable(p)
        /\ UNCHANGED <<thread_file_handles, spelling>>
    BY DEF CreateTable
  <1>2. /\ advisory' \in [Spelling -> Proc \cup {NoProc}]
        /\ advisory'[spelling'[p]] = p
        /\ \A q \in Proc : advisory[spelling[q]] = q => advisory'[spelling'[q]] = q
    BY TakesLock DEF CreateTable
  <1>3. ASSUME NEW step \in {"reopen", "conflict"}, pc' = [pc EXCEPT ![p] = step]
        PROVE  /\ pc' \in [Proc -> {"idle", "create", "conflict", "reopen", "delete"}]
               /\ ConflictHasLock'
    <2>1. \A q \in Proc : q # p => pc'[q] = pc[q]
      BY <1>3 DEF FilesTypeOK
    <2>2. QED
      BY <1>2, <1>3, <2>1 DEF ConflictHasLock, FilesTypeOK
  <1>4. CASE UNCHANGED <<table, changer, changed, users, trans, made, answer>>
    <2>1. \E step \in {"reopen", "conflict"} : pc' = [pc EXCEPT ![p] = step]
      BY <1>1, <1>4 DEF MakeTable, Goto
    <2>2. FilesTypeOK'
      BY <1>1, <1>2, <1>3, <1>4, <2>1 DEF FilesTypeOK
    <2>3. MakerHasLock'
      BY <1>1, <1>2, <1>4 DEF MakerHasLock, FilesTypeOK
    <2>4. OwnTables' /\ ConflictHasLock'
      BY <1>3, <1>4, <2>1 DEF OwnTables
    <2> QED
      BY <2>2, <2>3, <2>4
  <1>5. CASE /\ Leave(p, TRUE) /\ made' = made \cup {p}
             /\ Goto(p, "reopen") /\ UNCHANGED <<users, trans>>
    <2>1. pc' = [pc EXCEPT ![p] = "reopen"] /\ UNCHANGED answer
      BY <1>5 DEF Goto
    <2>2. /\ table' \in [Sites -> BOOLEAN] /\ changed' \in [Sites -> BOOLEAN]
          /\ changer' \in [Sites -> Proc \cup {NoProc}]
          /\ \A s \in Sites : changer'[s] = NoProc \/ trans[changer'[s]] = "INTRANS"
          /\ OwnTables' /\ MakerHasLock'
      BY <1>1, <1>2, <1>5, LeaveKeeps
    <2>3. FilesTypeOK'
      BY <1>1, <1>2, <1>3, <1>5, <2>1, <2>2 DEF FilesTypeOK
    <2> QED
      BY <1>3, <2>1, <2>2, <2>3
  <1> QED
    BY <1>1, <1>4, <1>5 DEF MakeTable, Goto

\* ... and still has it when the other transaction is over.
LEMMA AfterConflictKeeps ==
  ASSUME FilesInv, NEW p \in Proc, CreateTableAfterConflict(p)
  PROVE  FilesInv'
  <1> USE DEF FilesInv
  <1>1. /\ pc[p] = "conflict" /\ UNCHANGED <<advisory, thread_file_handles, spelling>>
        /\ advisory'[spelling'[p]] = p
    BY DEF CreateTableAfterConflict, ConflictHasLock
  <1>2. ASSUME NEW step \in {"reopen", "idle"}, pc' = [pc EXCEPT ![p] = step]
        PROVE  /\ pc' \in [Proc -> {"idle", "create", "conflict", "reopen", "delete"}]
               /\ ConflictHasLock'
    BY <1>1, <1>2 DEF ConflictHasLock, FilesTypeOK
  <1>3. CASE table[Site(p)]
    <2>1. /\ Abort(p) /\ UNCHANGED made
          /\ pc' = [pc EXCEPT ![p] = "idle"]
          /\ answer' = [answer EXCEPT ![p] = "duplicate"]
      BY <1>3 DEF CreateTableAfterConflict, Return
    <2>2. FilesTypeOK'
      BY <1>1, <1>2, <2>1, AbortKeeps DEF FilesTypeOK, Answer
    <2>3. OwnTables' /\ MakerHasLock' /\ ConflictHasLock'
      BY <1>1, <1>2, <2>1, AbortKeeps DEF OwnTables, MakerHasLock
    <2> QED
      BY <2>2, <2>3
  <1>4. CASE ~table[Site(p)]
    <2>1. /\ Leave(p, TRUE) /\ made' = made \cup {p}
          /\ pc' = [pc EXCEPT ![p] = "reopen"] /\ UNCHANGED <<answer, users, trans>>
      BY <1>4 DEF CreateTableAfterConflict, Goto
    <2>2. /\ table' \in [Sites -> BOOLEAN] /\ changed' \in [Sites -> BOOLEAN]
          /\ changer' \in [Sites -> Proc \cup {NoProc}]
          /\ \A s \in Sites : changer'[s] = NoProc \/ trans[changer'[s]] = "INTRANS"
          /\ OwnTables' /\ MakerHasLock'
      BY <1>1, <2>1, LeaveKeeps
    <2>3. FilesTypeOK'
      BY <1>1, <1>2, <2>1, <2>2 DEF FilesTypeOK
    <2> QED
      BY <1>2, <2>1, <2>2, <2>3
  <1> QED
    BY <1>3, <1>4

\* A table that is dropped is not in the making.
LEMMA DropKeeps == ASSUME FilesInv, NEW p \in Proc, DropTable(p) PROVE FilesInv'
  <1> USE DEF FilesInv
  <1>1. /\ pc[p] = "delete"
        /\ UNCHANGED <<advisory, thread_file_handles, spelling, made>>
    BY DEF DropTable
  <1>2. ASSUME pc' = [pc EXCEPT ![p] = "idle"]
        PROVE  /\ pc' \in [Proc -> {"idle", "create", "conflict", "reopen", "delete"}]
               /\ ConflictHasLock'
    BY <1>1, <1>2 DEF ConflictHasLock, FilesTypeOK
  <1>3. CASE TableExists(p)
    <2>1. /\ Leave(p, FALSE) /\ UNCHANGED <<users, trans>>
          /\ pc' = [pc EXCEPT ![p] = "idle"]
          /\ answer' = [answer EXCEPT ![p] = "true"]
      BY <1>3 DEF DropTable, Return
    <2>2. /\ table' \in [Sites -> BOOLEAN] /\ changed' \in [Sites -> BOOLEAN]
          /\ changer' \in [Sites -> Proc \cup {NoProc}]
          /\ \A s \in Sites : changer'[s] = NoProc \/ trans[changer'[s]] = "INTRANS"
          /\ OwnTables' /\ MakerHasLock'
      BY <1>1, <2>1, LeaveKeeps
    <2>3. FilesTypeOK'
      BY <1>1, <1>2, <2>1, <2>2 DEF FilesTypeOK, Answer
    <2> QED
      BY <1>2, <2>1, <2>2, <2>3
  <1>4. CASE ~TableExists(p)
    <2>1. /\ Abort(p)
          /\ pc' = [pc EXCEPT ![p] = "idle"]
          /\ answer' = [answer EXCEPT ![p] = "throw"]
      BY <1>4 DEF DropTable, Return
    <2>2. FilesTypeOK'
      BY <1>1, <1>2, <2>1, AbortKeeps DEF FilesTypeOK, Answer
    <2>3. OwnTables' /\ MakerHasLock' /\ ConflictHasLock'
      BY <1>1, <1>2, <2>1, AbortKeeps DEF OwnTables, MakerHasLock
    <2> QED
      BY <2>2, <2>3
  <1> QED
    BY <1>3, <1>4

\* A createfile() that starts has no table in the making: it has found none.
LEMMA StartKeeps ==
  ASSUME FilesInv, NEW p \in Proc, CreatefileStart(p)
  PROVE  FilesInv'
  <1> USE DEF FilesInv
  <1>1. /\ pc[p] = "idle" /\ ~Finds(p) /\ made' = made \ {p}
        /\ \E step \in {"create", "idle"} : pc' = [pc EXCEPT ![p] = step]
        /\ answer' \in [Proc -> Answer]
        /\ UNCHANGED <<server, thread_file_handles>>
    BY DEF CreatefileStart, Calls, Return, Goto, FilesTypeOK, Answer
  <1>2. PICK k \in Spelling : spelling' = [spelling EXCEPT ![p] = k]
    BY DEF CreatefileStart
  <1>3. \A s \in Sites : changer[s] = p => ~changed[s]
    <2>1. ASSUME NEW s \in Sites, changer[s] = p, changed[s]
          PROVE  FALSE
      <3>1. s = Site(p)
        BY <2>1, FileAssumption DEF OwnTables, Sites, Site
      <3>2. trans[p] = "INTRANS"
        BY <2>1, FileAssumption DEF FilesTypeOK
      <3>3. QED
        BY <1>1, <2>1, <3>1, <3>2 DEF Finds, Accepts, TableExists
    <2>2. QED
      BY <2>1
  <1>4. FilesTypeOK'
    BY <1>1, <1>2 DEF server, FilesTypeOK
  <1>5. OwnTables'
    BY <1>1 DEF server, OwnTables
  <1>6. MakerHasLock'
    <2>1. ASSUME NEW s \in Sites, changer[s] # NoProc, changed[s]
          PROVE  advisory[spelling'[changer[s]]] = changer[s]
      <3>1. changer[s] \in Proc /\ changer[s] # p
        BY <1>3, <2>1 DEF FilesTypeOK
      <3>2. spelling'[changer[s]] = spelling[changer[s]]
        BY <1>2, <3>1 DEF FilesTypeOK
      <3>3. QED
        BY <2>1, <3>2 DEF MakerHasLock
    <2>2. QED
      BY <1>1, <2>1 DEF server, MakerHasLock
  <1>7. ConflictHasLock'
    BY <1>1, <1>2 DEF server, ConflictHasLock, FilesTypeOK
  <1> QED
    BY <1>4, <1>5, <1>6, <1>7

\* Every step keeps the invariant.
LEMMA NextFilesInv == FilesInv /\ [FilesNext]_filesVars => FilesInv'
  <1> SUFFICES ASSUME FilesInv, [FilesNext]_filesVars PROVE FilesInv'
    OBVIOUS
  <1> USE DEF FilesInv
  <1>1. ASSUME NEW p \in Proc,
               \/ CreatefileExists(p) \/ CreatefileEnds(p) \/ DeletefileStart(p)
               \/ Open(p) \/ Detach(p)
        PROVE  FilesInv'
    <2>1. UNCHANGED <<server, spelling>>
      BY <1>1 DEF CreatefileExists, CreatefileEnds, DeletefileStart, Open, Detach
    <2>2. /\ thread_file_handles' \subseteq Proc /\ made' \subseteq Proc
          /\ pc' \in [Proc -> {"idle", "create", "conflict", "reopen", "delete"}]
          /\ answer' \in [Proc -> Answer]
          /\ \A q \in Proc : pc'[q] = "conflict" => pc[q] = "conflict"
      BY <1>1 DEF CreatefileExists, CreatefileEnds, DeletefileStart, Open, Detach,
                  Return, Goto, FilesTypeOK, Answer
    <2> QED
      BY <2>1, <2>2 DEF server, FilesTypeOK, OwnTables, MakerHasLock, ConflictHasLock
  <1>start. ASSUME NEW p \in Proc, CreatefileStart(p) PROVE FilesInv'
    BY <1>start, StartKeeps
  <1>after. ASSUME NEW p \in Proc, CreateTableAfterConflict(p) PROVE FilesInv'
    BY <1>after, AfterConflictKeeps
  <1>2. ASSUME NEW p \in Proc, CreateTable(p) PROVE FilesInv'
    BY <1>2, CreateKeeps
  <1>3. ASSUME NEW p \in Proc, DropTable(p) PROVE FilesInv'
    BY <1>3, DropKeeps
  <1>4. ASSUME NEW p \in Proc, Deadlock(p) PROVE FilesInv'
    <2>1. /\ Abort(p) /\ UNCHANGED <<advisory, thread_file_handles, spelling, made>>
          /\ pc' = [pc EXCEPT ![p] = "idle"]
          /\ \E a \in {"false", "throw"} : answer' = [answer EXCEPT ![p] = a]
      BY <1>4 DEF Deadlock, Return
    <2>2. FilesTypeOK'
      BY <2>1, AbortKeeps DEF FilesTypeOK, Answer
    <2>3. OwnTables' /\ MakerHasLock' /\ ConflictHasLock'
      BY <2>1, AbortKeeps DEF OwnTables, MakerHasLock, ConflictHasLock, FilesTypeOK
    <2> QED
      BY <2>2, <2>3
  <1>5. ASSUME NEW p \in Proc, UseFile(p) PROVE FilesInv'
    <2>1. UNCHANGED <<advisory, thread_file_handles, spelling, pc, answer, made>>
      BY <1>5 DEF UseFile
    <2>2. CASE TableExists(p)
      BY <1>5, <2>1, <2>2
      DEF UseFile, FilesTypeOK, OwnTables, MakerHasLock, ConflictHasLock
    <2>3. CASE ~TableExists(p)
      <3>1. Abort(p)
        BY <1>5, <2>3 DEF UseFile
      <3>2. FilesTypeOK'
        BY <2>1, <3>1, AbortKeeps DEF FilesTypeOK
      <3>3. OwnTables' /\ MakerHasLock' /\ ConflictHasLock'
        BY <2>1, <3>1, AbortKeeps DEF OwnTables, MakerHasLock, ConflictHasLock
      <3> QED
        BY <3>2, <3>3
    <2> QED
      BY <2>2, <2>3
  <1>6. ASSUME NEW p \in Proc, Begintrans(p) PROVE FilesInv'
    BY <1>6, FileAssumption
    DEF Begintrans, FilesTypeOK, OwnTables, MakerHasLock, ConflictHasLock
  <1>7. ASSUME NEW p \in Proc, EndTransaction(p) PROVE FilesInv'
    <2>1. UNCHANGED <<advisory, thread_file_handles, spelling, pc, answer, made>>
      BY <1>7 DEF EndTransaction
    <2>2. PICK commit \in BOOLEAN : End(p, commit, "IDLE")
      BY <1>7 DEF EndTransaction
    <2>3. FilesTypeOK'
      BY <2>1, <2>2, EndKeeps DEF FilesTypeOK
    <2>4. OwnTables' /\ MakerHasLock' /\ ConflictHasLock'
      BY <2>1, <2>2, EndKeeps DEF OwnTables, MakerHasLock, ConflictHasLock
    <2> QED
      BY <2>3, <2>4
  <1>8. ASSUME NEW p \in Proc, Unlockall(p) PROVE FilesInv'
    BY <1>8, FileAssumption
    DEF Unlockall, Unlocked, Calls, FilesTypeOK, OwnTables, MakerHasLock, ConflictHasLock
  <1>9. ASSUME NEW p \in Proc, SessionEnds(p) PROVE FilesInv'
    <2>1. /\ End(p, FALSE, "CLOSED")
          /\ advisory' = Unlocked(p) /\ UNCHANGED spelling
          /\ thread_file_handles' = thread_file_handles \ {p}
          /\ made' = made \ {p}
          /\ pc' = [pc EXCEPT ![p] = "idle"]
          /\ answer' = [answer EXCEPT ![p] = "none"]
      BY <1>9 DEF SessionEnds, Return
    <2>2. FilesTypeOK'
      BY <2>1, EndKeeps DEF FilesTypeOK, Answer, Unlocked
    <2>3. \A t \in Sites :
            changer'[t] # NoProc /\ changed'[t] =>
              changer[t] = changer'[t] /\ changed[t] /\ changer[t] # p
      BY <2>1, EndKeeps
    <2>4. MakerHasLock'
      BY <2>1, <2>3 DEF MakerHasLock, Unlocked, FilesTypeOK
    <2>5. OwnTables'
      BY <2>1, EndKeeps DEF OwnTables
    <2>6. ConflictHasLock'
      BY <2>1 DEF ConflictHasLock, Unlocked, FilesTypeOK
    <2> QED
      BY <2>2, <2>4, <2>5, <2>6
  <1>10. ASSUME NEW p \in Proc, Connect(p) PROVE FilesInv'
    BY <1>10, FileAssumption
    DEF Connect, FilesTypeOK, OwnTables, MakerHasLock, ConflictHasLock
  <1>11. CASE UNCHANGED filesVars
    BY <1>11 DEF filesVars, server, FilesTypeOK, OwnTables, MakerHasLock, ConflictHasLock
  <1> QED
    BY <1>1, <1>start, <1>after, <1>2, <1>3, <1>4, <1>5, <1>6, <1>7, <1>8, <1>9,
       <1>10, <1>11
    DEF FilesNext, StepOfCall

\* The inductive invariant holds throughout.
THEOREM FilesInvariance == FilesSpec => []FilesInv
  BY InitFilesInv, NextFilesInv, PTL DEF FilesSpec

\* The variables keep their ranges; what a transaction has changed or used is
\* its own until it ends.
THEOREM FilesTypeCorrect == FilesSpec => []FilesTypeOK
  BY FilesInvariance, PTL DEF FilesInv

\* A createfile() runs into a table in the making only if its maker has written
\* the name otherwise, however many processes have found no file at the same time,
\* in transactions or not.
THEOREM CreateNeverCollides == FilesSpec => []NoDuplicate
  <1>1. FilesInv => NoDuplicate
    <2> SUFFICES ASSUME FilesInv, NEW p \in Proc, pc[p] = "conflict", Changing(p),
                        changed[Site(p)]
        PROVE  spelling[changer[Site(p)]] # spelling[p]
      BY DEF NoDuplicate
    <2>1. Site(p) \in Sites
      BY DEF Sites
    <2>2. advisory[spelling[p]] = p
      BY DEF FilesInv, ConflictHasLock
    <2>3. /\ changer[Site(p)] \notin {p, NoProc}
          /\ advisory[spelling[changer[Site(p)]]] = changer[Site(p)]
      BY <2>1 DEF FilesInv, MakerHasLock, Changing
    <2>4. QED
      BY <2>2, <2>3
  <1>2. QED
    BY <1>1, FilesInvariance, PTL

-----------------------------------------------------------------------------
(* The files of requests.                                                  *)


Named(g) == gateway[g].name # NoName
Preparing(g) == gateway[g].pc \in {"name", "data", "request", "rename"}
Awaiting(g) == gateway[g].pc \in {"receipt", "start", "response"}
Busy(l) == listener[l].pc # "wait"
Working(l) == listener[l].pc \in {"claimed", "data", "process"}
Answering(l) == listener[l].pc \in {"reply", "response", "fill"}

\* Everything there is belongs to a call that was made.
Numbered ==
  /\ \A g \in Gateway : gateway[g].pc # "free" => gateway[g].call \in 1..lastCall
  /\ \A n \in Name, x \in Extension :
       file[n][x] # NoFile => file[n][x].call \in 1..lastCall
  /\ \A l \in Listener :
       /\ Busy(l) => listener[l].claim.call \in 1..lastCall
       /\ listener[l].last.name # NoName => listener[l].last.call \in 1..lastCall
       /\ \A c \in listener[l].open : c \in 1..lastCall
  /\ \A c \in 1..MaxCalls : c > lastCall => done[c] = 0

\* A gateway has a name from ChooseName on, a listener from its claim on.
NamesKnown ==
  /\ \A g \in Gateway : Named(g) <=> gateway[g].pc \notin {"free", "name"}
  /\ \A l \in Listener : Busy(l) <=> listener[l].name # NoName

\* No two gateways have one call, nor one name.
OneGateway ==
  \A g, h \in Gateway :
    g # h =>
      /\ gateway[g].pc # "free" /\ gateway[h].pc # "free" =>
           gateway[h].call # gateway[g].call
      /\ Named(g) => gateway[h].name # gateway[g].name

\* What there is under a gateway's name is of the gateway's call.
OwnFiles ==
  \A g \in Gateway, x \in Extension :
    Named(g) /\ file[gateway[g].name][x] # NoFile =>
      file[gateway[g].name][x].call = gateway[g].call

OwnListener ==
  \A g \in Gateway, l \in Listener :
    Named(g) =>
      /\ listener[l].name = gateway[g].name =>
           listener[l].claim.call = gateway[g].call
      /\ listener[l].last.name = gateway[g].name =>
           listener[l].last.call = gateway[g].call

\* A name has one listener, and then no request; nor has one that NET would
\* answer at.
OneListener ==
  \A l \in Listener :
    /\ Busy(l) =>
         /\ file[listener[l].name]["1"] = NoFile
         /\ \A k \in Listener : k # l =>
              /\ listener[k].name # listener[l].name
              /\ listener[k].last.name # listener[l].name
    /\ listener[l].last.name # NoName => file[listener[l].last.name]["1"] = NoFile

\* ~N.1$ is a request that is about to be renamed.
NotRenamed ==
  \A n \in Name :
    file[n]["1$"] # NoFile =>
      \E g \in Gateway : gateway[g].name = n /\ gateway[g].pc = "rename"

\* The data a listener will read, or has read, is of its own claim.
DataOf(f, c) == f = NoFile \/ f = [call |-> c, text |-> "data"]

DataIsRequests ==
  /\ \A n \in Name :
       file[n]["1"] # NoFile => DataOf(file[n]["2"], file[n]["1"].call)
  /\ \A l \in Listener :
       /\ listener[l].pc \in {"claimed", "data"} =>
            DataOf(file[listener[l].name]["2"], listener[l].claim.call)
       /\ listener[l].pc = "process" =>
            DataOf(listener[l].data, listener[l].claim.call)

\* What is under the name of a gateway, stage by stage.
Prepared ==
  \A g \in Gateway :
    Preparing(g) /\ Named(g) =>
      /\ file[gateway[g].name]["1"] = NoFile
      /\ DataOf(file[gateway[g].name]["2"], gateway[g].call)
      /\ file[gateway[g].name]["3"] = NoFile
      /\ \A l \in Listener :
           /\ listener[l].name # gateway[g].name
           /\ listener[l].last.name # gateway[g].name

NothingToDelete ==
  \A g \in Gateway : Named(g) => file[gateway[g].name]["4"] = NoFile

ReplyTo(f, c) == f = [call |-> c, text |-> "reply"]

Responded ==
  \A g \in Gateway :
    Awaiting(g) =>
      /\ file[gateway[g].name]["1"] # NoFile => file[gateway[g].name]["3"] = NoFile
      /\ \/ DataOf(file[gateway[g].name]["2"], gateway[g].call)
         \/ ReplyTo(file[gateway[g].name]["2"], gateway[g].call)
      /\ file[gateway[g].name]["3"] # NoFile =>
           \/ ReplyTo(file[gateway[g].name]["2"], gateway[g].call)
           \/ file[gateway[g].name]["3"].text = "error"

Responding ==
  \A g \in Gateway, l \in Listener :
    Awaiting(g) /\ listener[l].name = gateway[g].name =>
      /\ listener[l].pc # "fill" => file[gateway[g].name]["3"] = NoFile
      /\ listener[l].pc = "fill" => file[gateway[g].name]["3"].text = "empty"
      /\ listener[l].pc \in {"response", "fill"} =>
           ReplyTo(file[gateway[g].name]["2"], gateway[g].call)

\* The request of a call is at one place.
OneRequest ==
  /\ \A n, m \in Name :
       n # m /\ file[n]["1"] # NoFile /\ file[m]["1"] # NoFile =>
         file[m]["1"].call # file[n]["1"].call
  /\ \A n \in Name, l \in Listener :
       file[n]["1"] # NoFile /\ Busy(l) =>
         file[n]["1"].call # listener[l].claim.call
  /\ \A l, k \in Listener :
       l # k /\ Busy(l) /\ Busy(k) =>
         listener[k].claim.call # listener[l].claim.call

\* ... and if the call is under way it is with its gateway, or under its name.
WithGateway ==
  \A g \in Gateway :
    gateway[g].pc # "free" =>
      /\ \A n \in Name :
           file[n]["1"] # NoFile /\ file[n]["1"].call = gateway[g].call =>
             Awaiting(g) /\ gateway[g].name = n
      /\ \A l \in Listener :
           Busy(l) /\ listener[l].claim.call = gateway[g].call =>
             Awaiting(g) /\ gateway[g].name = listener[l].name

\* While there is a request nothing of it was committed.
NotYetDone ==
  /\ \A n \in Name : file[n]["1"] # NoFile => done[file[n]["1"].call] = 0
  /\ \A l \in Listener : Working(l) => done[listener[l].claim.call] = 0
  /\ \A g \in Gateway : Preparing(g) => done[gateway[g].call] = 0

\* What is said of a call, by a listener, in a response or by a gateway that
\* has read it, is true.
TrueOf(c, text) ==
  /\ text = "ok" => done[c] = 1
  /\ text = "no_request" => done[c] = 0

ResultIsTrue ==
  \A g \in Gateway :
    /\ Awaiting(g) =>
         /\ TrueOf(gateway[g].call, file[gateway[g].name]["3"].text)
         /\ \A l \in Listener :
              Answering(l) /\ listener[l].name = gateway[g].name =>
                TrueOf(gateway[g].call, listener[l].data.text)
    /\ gateway[g].pc = "clean" => TrueOf(gateway[g].call, gateway[g].answer)

\* A call whose work is in an open transaction is at no other place, and will
\* not be told what would be false after a commit.
OpenWork ==
  \A l \in Listener : \A c \in listener[l].open :
    /\ done[c] = 0
    /\ \A n \in Name : file[n]["1"] # NoFile => file[n]["1"].call # c
    /\ \A k \in Listener :
         /\ Busy(k) => listener[k].claim.call # c
         /\ k # l => c \notin listener[k].open
    /\ \A g \in Gateway :
         gateway[g].pc # "free" /\ gateway[g].call = c =>
           /\ ~Preparing(g)
           /\ Awaiting(g) => file[gateway[g].name]["3"].text # "no_request"
           /\ gateway[g].pc = "clean" => gateway[g].answer # "no_request"

IInv ==
  /\ RequestTypeOK
  /\ Numbered /\ NamesKnown /\ OneGateway /\ OwnFiles /\ OwnListener
  /\ OneListener /\ NotRenamed /\ DataIsRequests /\ Prepared
  /\ NothingToDelete /\ Responded /\ Responding
  /\ OneRequest /\ WithGateway /\ NotYetDone /\ ResultIsTrue /\ AtMostOnce
  /\ OpenWork

-----------------------------------------------------------------------------
(* What an update of the files changes.                                    *)

Files == [Name -> [Extension -> Content]]

\* What is not there is a content too.
LEMMA NoFileContent == NoFile \in Content
  <1>1. 0 \in 0..MaxCalls
    BY RequestAssumption
  <1>2. QED
    BY <1>1 DEF NoFile, Content

\* oswrite() of one file.
LEMMA PutFile ==
  ASSUME file \in Files, NEW n \in Name, NEW x \in Extension,
         NEW content \in Content, Put(n, x, content)
  PROVE  /\ file' \in Files
         /\ file'[n][x] = content
         /\ \A m \in Name, y \in Extension :
              m # n \/ y # x => file'[m][y] = file[m][y]
  <1> DEFINE own == [file[n] EXCEPT ![x] = content]
  <1>1. own \in [Extension -> Content]
    BY DEF Files
  <1>2. file' = [file EXCEPT ![n] = own]
    BY DEF Put
  <1>3. file' \in Files
    BY <1>1, <1>2 DEF Files
  <1>4. /\ file'[n] = own
        /\ \A m \in Name \ {n} : file'[m] = file[m]
    BY <1>2 DEF Files
  <1>5. QED
    BY <1>3, <1>4 DEF Files

\* osdelete() of files of one name.
LEMMA DeleteFiles ==
  ASSUME file \in Files, NEW n \in Name, NEW X \in SUBSET Extension, Delete(n, X)
  PROVE  /\ file' \in Files
         /\ \A x \in X : file'[n][x] = NoFile
         /\ \A m \in Name, y \in Extension :
              m # n \/ y \notin X => file'[m][y] = file[m][y]
  <1> DEFINE own == [x \in Extension |-> IF x \in X THEN NoFile ELSE file[n][x]]
  <1>1. NoFile \in Content
    BY NoFileContent
  <1>2. own \in [Extension -> Content]
    BY <1>1 DEF Files
  <1>3. file' = [file EXCEPT ![n] = own]
    BY DEF Delete, Files
  <1>4. file' \in Files
    BY <1>2, <1>3 DEF Files
  <1>5. /\ file'[n] = own
        /\ \A m \in Name \ {n} : file'[m] = file[m]
    BY <1>3 DEF Files
  <1>6. QED
    BY <1>4, <1>5 DEF Files

\* osrename() of one file to another.
LEMMA RenameFile ==
  ASSUME file \in Files, NEW n \in Name,
         file' = [file EXCEPT ![n]["1"] = file[n]["1$"], ![n]["1$"] = NoFile]
  PROVE  /\ file' \in Files
         /\ file'[n]["1"] = file[n]["1$"] /\ file'[n]["1$"] = NoFile
         /\ \A m \in Name, y \in Extension :
              m # n \/ y \notin {"1", "1$"} => file'[m][y] = file[m][y]
  <1> DEFINE own == [file[n] EXCEPT !["1"] = file[n]["1$"], !["1$"] = NoFile]
  <1>1. NoFile \in Content
    BY NoFileContent
  <1>2. own \in [Extension -> Content]
    BY <1>1 DEF Files, Extension
  <1>3. file' = [file EXCEPT ![n] = own]
    BY DEF Files, Extension
  <1>4. file' \in Files
    BY <1>2, <1>3 DEF Files
  <1>5. /\ file'[n] = own
        /\ \A m \in Name \ {n} : file'[m] = file[m]
    BY <1>3 DEF Files
  <1>6. QED
    BY <1>4, <1>5 DEF Files, Extension

\* The file that stays when the gateway may not delete: ~N.4 is written.
LEMMA LeaveFile ==
  ASSUME file \in Files, NEW n \in Name, NEW content \in Content,
         file' = [file EXCEPT ![n]["1"] = NoFile, ![n]["4"] = content]
  PROVE  /\ file' \in Files
         /\ file'[n]["1"] = NoFile /\ file'[n]["4"] = content
         /\ \A m \in Name, y \in Extension :
              m # n \/ y \notin {"1", "4"} => file'[m][y] = file[m][y]
  <1> DEFINE own == [file[n] EXCEPT !["1"] = NoFile, !["4"] = content]
  <1>1. NoFile \in Content
    BY NoFileContent
  <1>2. own \in [Extension -> Content]
    BY <1>1 DEF Files, Extension
  <1>3. file' = [file EXCEPT ![n] = own]
    BY DEF Files, Extension
  <1>4. file' \in Files
    BY <1>2, <1>3 DEF Files
  <1>5. /\ file'[n] = own
        /\ \A m \in Name \ {n} : file'[m] = file[m]
    BY <1>3 DEF Files
  <1>6. QED
    BY <1>4, <1>5 DEF Files, Extension

-----------------------------------------------------------------------------
(* What a step of a gateway or a listener changes.                         *)

\* The names in use are names, and the numbers are numbers.
LEMMA Known ==
  ASSUME IInv
  PROVE  /\ NoName \notin Name
         /\ lastCall \in Nat /\ MaxCalls \in Nat /\ lastCall <= MaxCalls
         /\ \A g \in Gateway : Named(g) => gateway[g].name \in Name
         /\ \A l \in Listener :
              /\ listener[l].name # NoName => listener[l].name \in Name
              /\ listener[l].last.name # NoName => listener[l].last.name \in Name
              /\ listener[l].open \subseteq 1..MaxCalls
  <1>1. RequestTypeOK
    BY DEF IInv
  <1>2. \A l \in Listener :
          /\ listener[l].name \in Name \cup {NoName}
          /\ listener[l].last.name \in Name \cup {NoName}
          /\ listener[l].open \in SUBSET (1..MaxCalls)
    BY <1>1 DEF RequestTypeOK
  <1>3. \A g \in Gateway : gateway[g].name \in Name \cup {NoName}
    BY <1>1 DEF RequestTypeOK
  <1>4. lastCall \in Nat /\ MaxCalls \in Nat /\ lastCall <= MaxCalls
    BY <1>1, RequestAssumption DEF RequestTypeOK
  <1>5. QED
    BY <1>2, <1>3, <1>4, RequestAssumption DEF Named

GatewayState ==
  [pc : {"free", "name", "data", "request", "rename", "receipt", "start",
         "response", "clean"},
   call : 0..MaxCalls, name : Name \cup {NoName}, data : BOOLEAN,
   sends : BOOLEAN, tries : 0..2,
   answer : {"none", "ok", "error", "no_request"}]

GatewayStates == [Gateway -> GatewayState]

Lasts == [call : 0..MaxCalls, name : Name \cup {NoName}]

ListenerState ==
  [pc : {"wait", "claimed", "data", "process", "reply", "response", "fill"},
   claim : Content, name : Name \cup {NoName}, data : Content,
   last : Lasts,
   open : SUBSET (1..MaxCalls)]

ListenerStates == [Listener -> ListenerState]

LEMMA GatewayBecomes ==
  ASSUME gateway \in GatewayStates, NEW g \in Gateway, NEW new \in GatewayState,
         gateway' = [gateway EXCEPT ![g] = new]
  PROVE  /\ gateway' \in GatewayStates
         /\ gateway'[g] = new
         /\ \A h \in Gateway : h # g => gateway'[h] = gateway[h]
  BY DEF GatewayStates

LEMMA ListenerBecomes ==
  ASSUME listener \in ListenerStates, NEW l \in Listener, NEW new \in ListenerState,
         listener' = [listener EXCEPT ![l] = new]
  PROVE  /\ listener' \in ListenerStates
         /\ listener'[l] = new
         /\ \A k \in Listener : k # l => listener'[k] = listener[k]
  BY DEF ListenerStates

\* A gateway goes on to its next step.
LEMMA GatewayGoes ==
  ASSUME gateway \in GatewayStates, NEW g \in Gateway,
         NEW to \in {"data", "request", "rename", "receipt", "start", "response"},
         Goes(g, to)
  PROVE  /\ gateway' \in GatewayStates
         /\ gateway'[g].pc = to
         /\ gateway'[g].call = gateway[g].call
         /\ gateway'[g].name = gateway[g].name
         /\ \A h \in Gateway : h # g => gateway'[h] = gateway[h]
  BY DEF GatewayStates, GatewayState, Goes

\* A call returns.
LEMMA GatewayReturns ==
  ASSUME gateway \in GatewayStates, NEW g \in Gateway, Returns(g)
  PROVE  /\ gateway' \in GatewayStates
         /\ gateway'[g].pc = "free" /\ gateway'[g].name = NoName
         /\ \A h \in Gateway : h # g => gateway'[h] = gateway[h]
  <1>1. 0 \in 0..MaxCalls
    BY RequestAssumption
  <1>2. QED
    BY <1>1 DEF GatewayStates, GatewayState, Returns, Free

\* A listener goes on to its next step.
LEMMA ListenerMoves ==
  ASSUME listener \in ListenerStates, NEW l \in Listener,
         NEW to \in {"data", "response", "fill"}, Moves(l, to)
  PROVE  /\ listener' \in ListenerStates
         /\ listener'[l].pc = to
         /\ listener'[l].claim = listener[l].claim
         /\ listener'[l].name = listener[l].name
         /\ listener'[l].data = listener[l].data
         /\ listener'[l].last = listener[l].last
         /\ listener'[l].open = listener[l].open
         /\ \A k \in Listener : k # l => listener'[k] = listener[k]
  BY DEF ListenerStates, ListenerState, Moves

\* A listener waits for a request again.
LEMMA ListenerWaits ==
  ASSUME listener \in ListenerStates, NEW l \in Listener,
         NEW last \in Lasts,
         NEW open \in SUBSET (1..MaxCalls),
         listener' = [listener EXCEPT ![l] =
                        [Waiting EXCEPT !.last = last, !.open = open]]
  PROVE  /\ listener' \in ListenerStates
         /\ listener'[l].pc = "wait" /\ listener'[l].name = NoName
         /\ listener'[l].last = last /\ listener'[l].open = open
         /\ \A k \in Listener : k # l => listener'[k] = listener[k]
  <1> DEFINE new == [Waiting EXCEPT !.last = last, !.open = open]
  <1>1. /\ new \in ListenerState
        /\ new.pc = "wait" /\ new.name = NoName
        /\ new.last = last /\ new.open = open
    BY NoFileContent DEF ListenerState, Waiting, NoClaim
  <1> HIDE DEF new
  <1>2. listener' = [listener EXCEPT ![l] = new]
    BY DEF new
  <1>3. QED
    BY <1>1, <1>2, ListenerBecomes

\* ... and NET would answer where it would have.
LEMMA ListenerAgain ==
  ASSUME listener \in ListenerStates, NEW l \in Listener, Again(l)
  PROVE  /\ listener' \in ListenerStates
         /\ listener'[l].pc = "wait" /\ listener'[l].name = NoName
         /\ listener'[l].last = listener[l].last
         /\ listener'[l].open = listener[l].open
         /\ \A k \in Listener : k # l => listener'[k] = listener[k]
  <1>1. /\ listener[l].last \in Lasts
        /\ listener[l].open \in SUBSET (1..MaxCalls)
    BY DEF ListenerStates, ListenerState
  <1>2. QED
    BY <1>1, ListenerWaits DEF Again

-----------------------------------------------------------------------------
(* The steps of a gateway preserve the invariant.                          *)

\* A new call has a number that nothing has.
LEMMA CallStep ==
  ASSUME IInv, NEW g \in Gateway, Call(g)
  PROVE  IInv'
  <1>1. /\ gateway' \in GatewayStates
        /\ gateway'[g].pc = "name" /\ gateway'[g].name = NoName
        /\ gateway'[g].call = lastCall + 1
        /\ \A h \in Gateway : h # g => gateway'[h] = gateway[h]
    <2>1. lastCall + 1 \in 0..MaxCalls
      BY RequestAssumption DEF Call, IInv, RequestTypeOK
    <2>2. PICK sends \in BOOLEAN :
            gateway' = [gateway EXCEPT ![g] =
              [Free EXCEPT !.pc = "name", !.call = lastCall + 1, !.data = sends,
                 !.sends = sends]]
      BY DEF Call
    <2> DEFINE new == [Free EXCEPT !.pc = "name", !.call = lastCall + 1,
                         !.data = sends, !.sends = sends]
    <2>3. /\ new \in GatewayState
          /\ new.pc = "name" /\ new.name = NoName /\ new.call = lastCall + 1
      <3>1. Free \in GatewayState /\ Free.name = NoName
        BY RequestAssumption DEF Free, GatewayState
      <3>2. QED
        BY <2>1, <3>1 DEF GatewayState
    <2>4. gateway \in GatewayStates
      BY DEF IInv, RequestTypeOK, GatewayStates, GatewayState
    <2> HIDE DEF new
    <2>5. QED
      BY <2>2, <2>3, <2>4, GatewayBecomes DEF new
  <1>2. /\ lastCall \in Nat /\ lastCall' = lastCall + 1 /\ lastCall' \in 1..MaxCalls
        /\ gateway[g].pc = "free"
        /\ UNCHANGED <<file, listener, done, faults>>
    BY RequestAssumption DEF Call, Gateways, IInv, RequestTypeOK
  <1> USE DEF IInv, Extension, NamesKnown, Named, Preparing, Awaiting, Busy, Working,
              Answering
  <1>10. RequestTypeOK'
    BY Known, <1>1, <1>2
    DEF RequestTypeOK, GatewayStates, GatewayState, ListenerStates,
        ListenerState, Lasts, Files
  <1>11. Numbered' /\ NamesKnown'
    BY Known, <1>1, <1>2 DEF Numbered
  <1>12. OneGateway' /\ NotRenamed' /\ NothingToDelete'
    BY SMTT(30), Known, <1>1, <1>2
    DEF OneGateway, Numbered, NotRenamed, NothingToDelete
  <1>13. OwnFiles' /\ OwnListener'
    BY Known, <1>1, <1>2 DEF OwnFiles, OneGateway, Numbered, OwnListener
  <1>14. OneListener' /\ DataIsRequests' /\ Prepared'
    BY Known, <1>1, <1>2 DEF OneListener, DataIsRequests, Prepared, OneGateway
  <1>15. Responded' /\ Responding'
    BY Known, <1>1, <1>2 DEF Responded, OneGateway, Responding
  <1>16. OneRequest' /\ WithGateway'
    BY SMTT(30), Known, <1>1, <1>2 DEF OneRequest, WithGateway, Numbered
  <1>17. NotYetDone' /\ AtMostOnce'
    BY SMTT(30), Known, <1>1, <1>2
    DEF NotYetDone, Numbered, AtMostOnce
  <1>true. ResultIsTrue'
    BY SMTT(30), Known, <1>1, <1>2
    DEF ResultIsTrue, TrueOf, OneGateway, OneListener
  <1>open. OpenWork'
    BY SMTT(30), Known, <1>1, <1>2
    DEF OpenWork, OneGateway, Numbered
  <1>18. QED
    BY <1>10, <1>11, <1>12, <1>13, <1>14, <1>15, <1>16, <1>17, <1>true, <1>open

\* A name is chosen that there is nothing of.
LEMMA ChooseNameStep ==
  ASSUME IInv, DrawsDiffer, NEW g \in Gateway, ChooseName(g)
  PROVE  IInv'
  <1>1. PICK n \in Name :
          gateway' = [gateway EXCEPT ![g].name = n,
            ![g].pc = IF gateway[g].data THEN "data" ELSE "request"]
    BY DEF ChooseName
  <1>2. /\ gateway' \in GatewayStates
        /\ gateway'[g].pc \in {"data", "request"} /\ gateway'[g].name = n
        /\ gateway'[g].call = gateway[g].call
        /\ \A h \in Gateway : h # g => gateway'[h] = gateway[h]
    <2> DEFINE new == [gateway[g] EXCEPT !.name = n,
                         !.pc = IF gateway[g].data THEN "data" ELSE "request"]
    <2>1. gateway \in GatewayStates
      BY DEF IInv, RequestTypeOK, GatewayStates, GatewayState
    <2>2. /\ new \in GatewayState
          /\ new.pc \in {"data", "request"} /\ new.name = n
          /\ new.call = gateway[g].call
      BY ZenonT(60), <2>1 DEF GatewayStates, GatewayState
    <2>3. gateway' = [gateway EXCEPT ![g] = new]
      BY <1>1, <2>1 DEF GatewayStates
    <2> HIDE DEF new
    <2>4. QED
      BY <2>1, <2>2, <2>3, GatewayBecomes
  <1>3. /\ gateway[g].pc = "name" /\ n # NoName
        /\ \A x \in Extension : file[n][x] = NoFile
        /\ \A h \in Gateway : gateway[h].name # n
        /\ \A l \in Listener : listener[l].name # n /\ listener[l].last.name # n
        /\ UNCHANGED <<file, listener, done, lastCall, faults>>
    <2>1. gateway[g].pc = "name" /\ UNCHANGED <<file, listener, done, lastCall, faults>>
      BY DEF ChooseName, Gateways
    <2>2. ~InUse(n)
      BY <1>2, <2>1 DEF DrawsDiffer
    <2>3. QED
      BY <2>1, <2>2, RequestAssumption DEF InUse, Exists
  <1> USE DEF IInv, Extension, NamesKnown, Named, Preparing, Awaiting, Busy, Working,
              Answering
  <1>10. RequestTypeOK'
    BY Known, <1>2, <1>3
    DEF RequestTypeOK, GatewayStates, GatewayState, ListenerStates,
        ListenerState, Lasts, Files
  <1>11. Numbered' /\ NamesKnown'
    BY Known, <1>2, <1>3 DEF Numbered
  <1>12. OneGateway' /\ NotRenamed' /\ NothingToDelete'
    BY Known, <1>2, <1>3 DEF OneGateway, NotRenamed, NothingToDelete
  <1>13. OwnFiles' /\ OwnListener'
    BY Known, <1>2, <1>3 DEF OwnFiles, OneGateway, OwnListener
  <1>14. OneListener' /\ DataIsRequests' /\ Prepared'
    BY Known, <1>2, <1>3
    DEF OneListener, DataIsRequests, Prepared, OneGateway, DataOf
  <1>15. Responded' /\ Responding'
    BY Known, <1>2, <1>3 DEF Responded, OneGateway, Responding
  <1>16. OneRequest' /\ WithGateway'
    BY Known, <1>2, <1>3 DEF OneRequest, WithGateway
  <1>17. NotYetDone' /\ AtMostOnce'
    BY SMTT(30), Known, <1>2, <1>3
    DEF NotYetDone, Numbered, AtMostOnce
  <1>true. ResultIsTrue'
    BY SMTT(30), Known, <1>2, <1>3
    DEF ResultIsTrue, TrueOf, OneGateway, OneListener
  <1>open. OpenWork'
    BY SMTT(30), Known, <1>2, <1>3
    DEF OpenWork, OneGateway, Numbered
  <1>18. QED
    BY <1>10, <1>11, <1>12, <1>13, <1>14, <1>15, <1>16, <1>17, <1>true, <1>open

\* A call returns: what is left under its name is no gateway's.
LEMMA LeaveStep ==
  ASSUME IInv, NEW g \in Gateway, Returns(g),
         gateway[g].pc \notin {"free", "name"},
         gateway[g].pc = "rename" => file[gateway[g].name]["1$"] = NoFile,
         file' \in Files,
         \A m \in Name, x \in Extension :
           m # gateway[g].name => file'[m][x] = file[m][x],
         \A x \in Extension \ {"4"} :
           file'[gateway[g].name][x] \in {NoFile, file[gateway[g].name][x]},
         file'[gateway[g].name]["4"] # NoFile =>
           file'[gateway[g].name]["4"].call \in 1..lastCall,
         UNCHANGED <<listener, done, lastCall>>,
         faults' \in 0..MaxFaults
  PROVE  IInv'
  <1>1. /\ gateway' \in GatewayStates
        /\ gateway'[g].pc = "free" /\ gateway'[g].name = NoName
        /\ \A h \in Gateway : h # g => gateway'[h] = gateway[h]
    BY GatewayReturns DEF IInv, RequestTypeOK, GatewayStates, GatewayState
  <1>2. gateway[g].name \in Name
    BY DEF IInv, RequestTypeOK, NamesKnown, Named
  <1> USE DEF IInv, Extension, NamesKnown, Named, Preparing, Awaiting, Busy, Working,
              Answering
  <1>10. RequestTypeOK'
    BY Known, <1>1, <1>2
    DEF RequestTypeOK, GatewayStates, GatewayState, ListenerStates,
        ListenerState, Lasts, Files
  <1>11. Numbered' /\ NamesKnown'
    BY SMTT(30), Known, <1>1, <1>2 DEF Numbered
  <1>12. OneGateway' /\ NotRenamed' /\ NothingToDelete'
    BY Known, <1>1, <1>2 DEF OneGateway, NotRenamed, NothingToDelete
  <1>13. OwnFiles' /\ OwnListener'
    BY SMTT(30), Known, <1>1, <1>2 DEF OwnFiles, OneGateway, OwnListener
  <1>14. OneListener'
    BY Known, <1>1, <1>2 DEF OneListener
  <1>15. DataIsRequests'
    BY Known, <1>1, <1>2 DEF DataIsRequests, DataOf
  <1>16. Prepared'
    BY Known, <1>1, <1>2 DEF Prepared, OneGateway
  <1>17. Responded' /\ Responding'
    BY SMTT(30), Known, <1>1, <1>2 DEF Responded, OneGateway, Responding
  <1>18. OneRequest' /\ WithGateway'
    BY SMTT(30), Known, <1>1, <1>2 DEF OneRequest, WithGateway
  <1>19. NotYetDone' /\ AtMostOnce'
    BY SMTT(30), Known, <1>1, <1>2
    DEF NotYetDone, Numbered, AtMostOnce
  <1>true. ResultIsTrue'
    BY SMTT(30), Known, <1>1, <1>2
    DEF ResultIsTrue, TrueOf, OneGateway, OneListener
  <1>open. OpenWork'
    BY SMTT(30), Known, <1>1, <1>2
    DEF OpenWork, OneGateway, Numbered
  <1>20. QED
    BY <1>10, <1>11, <1>12, <1>13, <1>14, <1>15, <1>16, <1>17, <1>18, <1>19, <1>true, <1>open

\* A file cannot be created.
LEMMA WriteFileFails ==
  ASSUME IInv, NEW g \in Gateway, gateway[g].pc \in {"data", "request"},
         Fault, Returns(g), UNCHANGED <<file, Gateways, lastCall>>
  PROVE  IInv'
  <1>1. faults' \in 0..MaxFaults
    BY RequestAssumption DEF Fault, IInv, RequestTypeOK
  <1>2. /\ file' \in Files
        /\ file'[gateway[g].name]["4"] # NoFile =>
             file'[gateway[g].name]["4"].call \in 1..lastCall
    BY DEF IInv, RequestTypeOK, Files, Numbered, NamesKnown, Named, Extension
  <1>3. QED
    BY <1>1, <1>2, LeaveStep DEF Gateways

LEMMA WriteDataStep ==
  ASSUME IInv, NEW g \in Gateway, WriteData(g)
  PROVE  IInv'
  <1> DEFINE c == gateway[g].call
             n == gateway[g].name
             content == [call |-> c, text |-> "data"]
  <1>1. CASE Put(n, "2", content) /\ Goes(g, "request")
             /\ UNCHANGED <<Gateways, lastCall, faults>>
    <2>1. n \in Name /\ gateway[g].pc = "data" /\ c \in 1..lastCall
      BY DEF IInv, RequestTypeOK, NamesKnown, Named, Numbered, WriteData
    <2>2. content \in Content /\ content # NoFile /\ content.call = c /\ DataOf(content, c)
      BY <2>1 DEF NoFile, Content, DataOf, IInv, RequestTypeOK
    <2> HIDE DEF content
    <2>3. /\ file' \in Files
          /\ file'[n]["2"] = content
          /\ \A m \in Name, y \in Extension :
               m # n \/ y # "2" => file'[m][y] = file[m][y]
      BY <1>1, <2>1, <2>2, PutFile DEF IInv, RequestTypeOK, Files, Extension
    <2>4. /\ gateway' \in GatewayStates
          /\ gateway'[g].pc = "request"
          /\ gateway'[g].call = gateway[g].call
          /\ gateway'[g].name = gateway[g].name
          /\ \A h \in Gateway : h # g => gateway'[h] = gateway[h]
      BY <1>1, GatewayGoes DEF IInv, RequestTypeOK, GatewayStates, GatewayState
    <2>5. UNCHANGED <<listener, done, lastCall, faults>>
      BY <1>1 DEF Gateways
    <2> USE DEF IInv, Extension, NamesKnown, Named, Preparing, Awaiting, Busy, Working,
                Answering
    <2>10. RequestTypeOK'
      BY Known, <2>1, <2>2, <2>3, <2>4, <2>5
      DEF RequestTypeOK, GatewayStates, GatewayState, ListenerStates,
          ListenerState, Lasts, Files
    <2>11. Numbered' /\ NamesKnown'
      BY Known, <2>1, <2>2, <2>3, <2>4, <2>5 DEF Numbered
    <2>12. OneGateway' /\ NotRenamed' /\ NothingToDelete'
      BY Known, <2>1, <2>2, <2>3, <2>4, <2>5
      DEF OneGateway, NotRenamed, NothingToDelete
    <2>13. OwnFiles'
      <3>1. ASSUME NEW h \in Gateway, NEW x \in Extension, Named(h)',
                   (file[gateway[h].name][x] # NoFile)'
            PROVE  (file[gateway[h].name][x].call = gateway[h].call)'
        <4>1. CASE h = g
          BY Known, <3>1, <4>1, <2>1, <2>2, <2>3, <2>4, <2>5 DEF OwnFiles
        <4>2. CASE h # g
          BY SMTT(30), Known, <3>1, <4>2, <2>1, <2>2, <2>3, <2>4, <2>5
          DEF OwnFiles, OneGateway
        <4>3. QED
          BY <4>1, <4>2
      <3>2. QED
        BY <3>1 DEF OwnFiles
    <2>14. OwnListener'
      BY Known, <2>1, <2>2, <2>3, <2>4, <2>5 DEF OwnListener, OneGateway
    <2>15. OneListener' /\ DataIsRequests' /\ Prepared'
      BY SMTT(30), Known, <2>1, <2>2, <2>3, <2>4, <2>5
      DEF OneListener, DataIsRequests, Prepared, OneGateway
    <2>16. Responded' /\ Responding'
      BY Known, <2>1, <2>2, <2>3, <2>4, <2>5
      DEF Responded, OneGateway, Responding
    <2>17. OneRequest' /\ WithGateway'
      BY Known, <2>1, <2>2, <2>3, <2>4, <2>5 DEF OneRequest, WithGateway
    <2>18. NotYetDone' /\ AtMostOnce'
      BY SMTT(30), Known, <2>1, <2>2, <2>3, <2>4, <2>5
      DEF NotYetDone, Numbered, AtMostOnce
    <2>true. ResultIsTrue'
      BY SMTT(30), Known, <2>1, <2>2, <2>3, <2>4, <2>5
      DEF ResultIsTrue, TrueOf, OneGateway, OneListener
    <2>open. OpenWork'
      BY SMTT(30), Known, <2>1, <2>2, <2>3, <2>4, <2>5
      DEF OpenWork, OneGateway, Numbered
    <2>19. QED
      BY <2>10, <2>11, <2>12, <2>13, <2>14, <2>15, <2>16, <2>17, <2>18, <2>true, <2>open
  <1>2. CASE Fault /\ Returns(g) /\ UNCHANGED <<file, Gateways, lastCall>>
    BY <1>2, WriteFileFails DEF WriteData
  <1>3. QED
    BY <1>1, <1>2 DEF WriteData, WriteFile

LEMMA WriteRequestStep ==
  ASSUME IInv, NEW g \in Gateway, WriteRequest(g)
  PROVE  IInv'
  <1> DEFINE c == gateway[g].call
             n == gateway[g].name
             request == Request(c, gateway[g].sends)
  <1>1. CASE Put(n, "1$", request) /\ Goes(g, "rename")
             /\ UNCHANGED <<Gateways, lastCall, faults>>
    <2>1. n \in Name /\ gateway[g].pc = "request" /\ c \in 1..lastCall
      BY DEF IInv, RequestTypeOK, NamesKnown, Named, Numbered, WriteRequest
    <2>2. request \in Content /\ request # NoFile /\ request.call = c
      BY <2>1 DEF Request, NoFile, Content, IInv, RequestTypeOK
    <2> HIDE DEF request
    <2>3. /\ file' \in Files
          /\ file'[n]["1$"] = request
          /\ \A m \in Name, y \in Extension :
               m # n \/ y # "1$" => file'[m][y] = file[m][y]
      BY <1>1, <2>1, <2>2, PutFile DEF IInv, RequestTypeOK, Files, Extension
    <2>4. /\ gateway' \in GatewayStates
          /\ gateway'[g].pc = "rename"
          /\ gateway'[g].call = gateway[g].call
          /\ gateway'[g].name = gateway[g].name
          /\ \A h \in Gateway : h # g => gateway'[h] = gateway[h]
      BY <1>1, GatewayGoes DEF IInv, RequestTypeOK, GatewayStates, GatewayState
    <2>5. UNCHANGED <<listener, done, lastCall, faults>>
      BY <1>1 DEF Gateways
    <2> USE DEF IInv, Extension, NamesKnown, Named, Preparing, Awaiting, Busy, Working,
                Answering
    <2>10. RequestTypeOK'
      BY Known, <2>1, <2>2, <2>3, <2>4, <2>5
      DEF RequestTypeOK, GatewayStates, GatewayState, ListenerStates,
          ListenerState, Lasts, Files
    <2>11. Numbered' /\ NamesKnown'
      BY Known, <2>1, <2>2, <2>3, <2>4, <2>5 DEF Numbered
    <2>12. OneGateway' /\ NotRenamed' /\ NothingToDelete'
      BY Known, <2>1, <2>2, <2>3, <2>4, <2>5
      DEF OneGateway, NotRenamed, NothingToDelete
    <2>13. OwnFiles'
      BY SMTT(30), Known, <2>1, <2>2, <2>3, <2>4, <2>5 DEF OwnFiles, OneGateway
    <2>14. OwnListener'
      BY Known, <2>1, <2>2, <2>3, <2>4, <2>5 DEF OwnListener, OneGateway
    <2>15. OneListener' /\ DataIsRequests' /\ Prepared'
      BY Known, <2>1, <2>2, <2>3, <2>4, <2>5
      DEF OneListener, DataIsRequests, Prepared, OneGateway
    <2>16. Responded' /\ Responding'
      BY Known, <2>1, <2>2, <2>3, <2>4, <2>5
      DEF Responded, OneGateway, Responding
    <2>17. OneRequest' /\ WithGateway'
      BY Known, <2>1, <2>2, <2>3, <2>4, <2>5 DEF OneRequest, WithGateway
    <2>18. NotYetDone' /\ AtMostOnce'
      BY SMTT(30), Known, <2>1, <2>2, <2>3, <2>4, <2>5
      DEF NotYetDone, Numbered, AtMostOnce
    <2>true. ResultIsTrue'
      BY SMTT(30), Known, <2>1, <2>2, <2>3, <2>4, <2>5
      DEF ResultIsTrue, TrueOf, OneGateway, OneListener
    <2>open. OpenWork'
      BY SMTT(30), Known, <2>1, <2>2, <2>3, <2>4, <2>5
      DEF OpenWork, OneGateway, Numbered
    <2>19. QED
      BY <2>10, <2>11, <2>12, <2>13, <2>14, <2>15, <2>16, <2>17, <2>18, <2>true, <2>open
  <1>2. CASE Fault /\ Returns(g) /\ UNCHANGED <<file, Gateways, lastCall>>
    BY <1>2, WriteFileFails DEF WriteRequest
  <1>3. QED
    BY <1>1, <1>2 DEF WriteRequest, WriteFile

\* ~N.1$ becomes ~N.1: there is no ~N.1 yet.
LEMMA RenamedStep ==
  ASSUME IInv, NEW g \in Gateway, RenameRequest(g),
         file[gateway[g].name]["1$"] # NoFile
  PROVE  IInv'
  <1> DEFINE n == gateway[g].name
  <1>1. /\ gateway[g].pc = "rename" /\ n \in Name
        /\ file[n]["1"] = NoFile
        /\ file[n]["1$"].call = gateway[g].call
    BY SMTT(30)
    DEF RenameRequest, Exists, IInv, RequestTypeOK, NamesKnown, Named, Prepared,
           Preparing, OwnFiles, Extension
  <1>2. /\ Goes(g, "receipt")
        /\ file' = [file EXCEPT ![n]["1"] = file[n]["1$"], ![n]["1$"] = NoFile]
    BY <1>1 DEF RenameRequest, Exists
  <1>3. /\ file' \in Files
        /\ file'[n]["1"] = file[n]["1$"] /\ file'[n]["1$"] = NoFile
        /\ \A m \in Name, y \in Extension :
             m # n \/ y \notin {"1", "1$"} => file'[m][y] = file[m][y]
    BY <1>1, <1>2, RenameFile DEF IInv, RequestTypeOK, Files
  <1>4. /\ gateway' \in GatewayStates
        /\ gateway'[g].pc = "receipt"
        /\ gateway'[g].call = gateway[g].call
        /\ gateway'[g].name = gateway[g].name
        /\ \A h \in Gateway : h # g => gateway'[h] = gateway[h]
    BY <1>2, GatewayGoes DEF IInv, RequestTypeOK, GatewayStates, GatewayState
  <1>5. UNCHANGED <<listener, done, lastCall, faults>>
    BY DEF RenameRequest, Gateways
  <1> USE DEF IInv, Extension, NamesKnown, Named, Preparing, Awaiting, Busy, Working,
              Answering
  <1>10. RequestTypeOK'
    BY Known, <1>1, <1>3, <1>4, <1>5
    DEF RequestTypeOK, GatewayStates, GatewayState, ListenerStates,
        ListenerState, Lasts, Files
  <1>11. Numbered' /\ NamesKnown'
    BY Known, <1>1, <1>3, <1>4, <1>5 DEF Numbered
  <1>12. OneGateway' /\ NotRenamed' /\ NothingToDelete'
    BY SMTT(30), Known, <1>1, <1>3, <1>4, <1>5
    DEF OneGateway, NotRenamed, NothingToDelete
  <1>13. OwnFiles'
    <2>1. ASSUME NEW h \in Gateway, NEW x \in Extension, Named(h)',
                 (file[gateway[h].name][x] # NoFile)'
          PROVE  (file[gateway[h].name][x].call = gateway[h].call)'
      <3>1. CASE h = g
        BY SMTT(30), Known, <2>1, <3>1, <1>1, <1>3, <1>4, <1>5 DEF OwnFiles
      <3>2. CASE h # g
        BY SMTT(30), Known, <2>1, <3>2, <1>1, <1>3, <1>4, <1>5
        DEF OwnFiles, OneGateway
      <3>3. QED
        BY <3>1, <3>2
    <2>2. QED
      BY <2>1 DEF OwnFiles
  <1>14. OwnListener'
    BY Known, <1>1, <1>3, <1>4, <1>5 DEF OwnListener, OneGateway
  <1>15. OneListener' /\ DataIsRequests' /\ Prepared'
    BY SMTT(30), Known, <1>1, <1>3, <1>4, <1>5
    DEF OneListener, Prepared, DataIsRequests, OneGateway
  <1>16. Responded' /\ Responding'
    BY SMTT(30), Known, <1>1, <1>3, <1>4, <1>5
    DEF Responded, OneGateway, Prepared, Responding
  <1>17. OneRequest' /\ WithGateway'
    BY SMTT(30), Known, <1>1, <1>3, <1>4, <1>5
    DEF OneRequest, WithGateway, OneGateway
  <1>18. NotYetDone' /\ AtMostOnce'
    BY SMTT(30), Known, <1>1, <1>3, <1>4, <1>5
    DEF NotYetDone, Numbered, AtMostOnce
  <1>true. ResultIsTrue'
    <2>1. /\ file'[n]["3"].text = "none"
          /\ \A l \in Listener : listener[l].name # n
      BY SMTT(30), <1>1, <1>3 DEF Prepared, NoFile
    <2>2. QED
      BY SMTT(30), Known, <2>1, <1>1, <1>3, <1>4, <1>5 DEF ResultIsTrue, TrueOf
  <1>open. OpenWork'
    BY SMTT(30), Known, <1>1, <1>3, <1>4, <1>5
    DEF OpenWork, OneGateway, Numbered
  <1>19. QED
    BY <1>10, <1>11, <1>12, <1>13, <1>14, <1>15, <1>16, <1>17, <1>18, <1>true, <1>open

LEMMA RenameRequestStep ==
  ASSUME IInv, NEW g \in Gateway, RenameRequest(g)
  PROVE  IInv'
  <1>1. CASE file[gateway[g].name]["1$"] = NoFile
    <2>1. /\ gateway[g].pc = "rename" /\ Returns(g)
          /\ UNCHANGED <<file, Gateways, lastCall, faults>>
      BY <1>1 DEF RenameRequest, Exists
    <2>2. gateway[g].name \in Name
      BY <2>1 DEF IInv, RequestTypeOK, NamesKnown, Named
    <2>3. /\ file' \in Files /\ faults' \in 0..MaxFaults
          /\ file'[gateway[g].name]["4"] # NoFile =>
               file'[gateway[g].name]["4"].call \in 1..lastCall
      BY <2>1, <2>2 DEF IInv, RequestTypeOK, Files, Numbered, Extension
    <2>4. QED
      BY <1>1, <2>1, <2>2, <2>3, LeaveStep DEF Gateways
  <1>2. CASE file[gateway[g].name]["1$"] # NoFile
    BY <1>2, RenamedStep
  <1>3. QED
    BY <1>1, <1>2

\* The gateway waits on: for the receipt, the start or the response.
LEMMA AwaitStep ==
  ASSUME IInv, NEW g \in Gateway, gateway[g].pc \in {"receipt", "start"},
         NEW to \in {"start", "response"}, Goes(g, to),
         UNCHANGED <<file, listener, done, lastCall, faults>>
  PROVE  IInv'
  <1>1. /\ gateway' \in GatewayStates
        /\ gateway'[g].pc = to
        /\ gateway'[g].call = gateway[g].call
        /\ gateway'[g].name = gateway[g].name
        /\ \A h \in Gateway : h # g => gateway'[h] = gateway[h]
    BY GatewayGoes DEF IInv, RequestTypeOK, GatewayStates, GatewayState
  <1> USE DEF IInv, Extension, NamesKnown, Named, Preparing, Awaiting, Busy, Working,
              Answering
  <1>10. RequestTypeOK'
    BY Known, <1>1
    DEF RequestTypeOK, GatewayStates, GatewayState, ListenerStates,
        ListenerState, Lasts, Files
  <1>11. Numbered' /\ NamesKnown'
    BY Known, <1>1 DEF Numbered
  <1>12. OneGateway' /\ NotRenamed' /\ NothingToDelete'
    BY Known, <1>1 DEF OneGateway, NotRenamed, NothingToDelete
  <1>13. OwnFiles' /\ OwnListener'
    BY SMTT(30), Known, <1>1 DEF OwnFiles, OneGateway, OwnListener
  <1>14. OneListener' /\ DataIsRequests' /\ Prepared'
    BY Known, <1>1 DEF OneListener, DataIsRequests, Prepared, OneGateway
  <1>15. Responded' /\ Responding'
    BY Known, <1>1 DEF Responded, OneGateway, Responding
  <1>16. OneRequest' /\ WithGateway'
    BY SMTT(30), Known, <1>1 DEF OneRequest, WithGateway
  <1>17. NotYetDone' /\ AtMostOnce'
    BY SMTT(30), Known, <1>1
    DEF NotYetDone, Numbered, AtMostOnce
  <1>true. ResultIsTrue'
    BY SMTT(30), Known, <1>1
    DEF ResultIsTrue, TrueOf, OneGateway, OneListener
  <1>open. OpenWork'
    BY SMTT(30), Known, <1>1
    DEF OpenWork, OneGateway, Numbered
  <1>18. QED
    BY <1>10, <1>11, <1>12, <1>13, <1>14, <1>15, <1>16, <1>17, <1>true, <1>open

\* The start failed: the request is taken back.
LEMMA StartStep ==
  ASSUME IInv, NEW g \in Gateway, Start(g)
  PROVE  IInv'
  <1>1. CASE Goes(g, "response") /\ UNCHANGED file
    BY <1>1, AwaitStep DEF Start, Gateways
  <1>2. CASE Delete(gateway[g].name, {"1"}) /\ Returns(g)
    <2>1. gateway[g].name \in Name /\ gateway[g].pc = "start"
      BY DEF Start, IInv, RequestTypeOK, NamesKnown, Named
    <2>2. {"1"} \in SUBSET Extension /\ file \in Files /\ faults' \in 0..MaxFaults
      BY DEF Start, Extension, Files, IInv, RequestTypeOK
    <2>3. /\ file' \in Files
          /\ \A x \in {"1"} : file'[gateway[g].name][x] = NoFile
          /\ \A m \in Name, y \in Extension :
               m # gateway[g].name \/ y \notin {"1"} => file'[m][y] = file[m][y]
      BY <1>2, <2>1, <2>2, DeleteFiles
    <2>4. file'[gateway[g].name]["4"] # NoFile =>
            file'[gateway[g].name]["4"].call \in 1..lastCall
      BY <2>1, <2>3 DEF IInv, Numbered, Extension
    <2>5. QED
      BY <1>2, <2>1, <2>2, <2>3, <2>4, LeaveStep DEF Start, Gateways, Extension
  <1>3. QED
    BY <1>1, <1>2 DEF Start

\* The call is given up: everything stays where it is.
LEMMA GiveUpStep ==
  ASSUME IInv, NEW g \in Gateway, GiveUp(g)
  PROVE  IInv'
  <1>1. gateway[g].name \in Name /\ gateway[g].pc = "response"
    BY DEF GiveUp, IInv, RequestTypeOK, NamesKnown, Named
  <1>2. /\ file' \in Files /\ faults' \in 0..MaxFaults
        /\ file'[gateway[g].name]["4"] # NoFile =>
             file'[gateway[g].name]["4"].call \in 1..lastCall
    BY <1>1 DEF GiveUp, Gateways, IInv, RequestTypeOK, Files, Numbered, Extension
  <1>3. QED
    BY <1>1, <1>2, LeaveStep DEF GiveUp, Gateways

\* A response was read.  There is nothing of the request left, and what the
\* call is told is true.
LEMMA AnsweredStep ==
  ASSUME IInv, NEW g \in Gateway, gateway[g].pc = "response",
         file[gateway[g].name]["1"] = NoFile,
         \A l \in Listener : listener[l].name # gateway[g].name,
         gateway' \in GatewayStates,
         gateway'[g].pc = "clean",
         gateway'[g].call = gateway[g].call,
         gateway'[g].name = gateway[g].name,
         gateway'[g].answer = file[gateway[g].name]["3"].text,
         \A h \in Gateway : h # g => gateway'[h] = gateway[h],
         UNCHANGED <<file, listener, done, lastCall, faults>>
  PROVE  IInv'
  <1> USE DEF IInv, Extension, NamesKnown, Named, Preparing, Awaiting, Busy, Working,
              Answering
  <1>10. RequestTypeOK'
    BY Known
    DEF RequestTypeOK, GatewayStates, GatewayState, ListenerStates,
        ListenerState, Lasts, Files
  <1>11. Numbered' /\ NamesKnown'
    BY Known DEF Numbered
  <1>12. OneGateway' /\ NotRenamed' /\ NothingToDelete'
    BY SMTT(30), Known DEF OneGateway, NotRenamed, NothingToDelete
  <1>13. OwnFiles' /\ OwnListener'
    BY SMTT(30), Known DEF OwnFiles, OneGateway, OwnListener
  <1>14. OneListener' /\ DataIsRequests' /\ Prepared'
    BY Known DEF OneListener, DataIsRequests, Prepared, OneGateway
  <1>15. Responded' /\ Responding'
    BY Known DEF Responded, OneGateway, Responding
  <1>16. OneRequest' /\ WithGateway'
    BY SMTT(30), Known DEF OneRequest, WithGateway
  <1>17. NotYetDone' /\ AtMostOnce'
    BY SMTT(30), Known
    DEF NotYetDone, Numbered, AtMostOnce
  <1>true. ResultIsTrue'
    BY SMTT(30), Known
    DEF ResultIsTrue, TrueOf, OneGateway, OneListener
  <1>open. OpenWork'
    BY SMTT(30), Known
    DEF OpenWork, OneGateway, Numbered
  <1>18. QED
    BY <1>10, <1>11, <1>12, <1>13, <1>14, <1>15, <1>16, <1>17, <1>true, <1>open

\* The request was not found, and is to be sent again.  Nothing of it is in an
\* open transaction.
LEMMA ResendStep ==
  ASSUME IInv, NEW g \in Gateway, gateway[g].pc = "response",
         file[gateway[g].name]["1"] = NoFile,
         \A l \in Listener : listener[l].name # gateway[g].name,
         done[gateway[g].call] = 0,
         file[gateway[g].name]["3"].text = "no_request",
         gateway' \in GatewayStates,
         gateway'[g].pc = "name",
         gateway'[g].call = gateway[g].call,
         gateway'[g].name = NoName,
         \A h \in Gateway : h # g => gateway'[h] = gateway[h],
         UNCHANGED <<file, listener, done, lastCall, faults>>
  PROVE  IInv'
  <1> USE DEF IInv, Extension, NamesKnown, Named, Preparing, Awaiting, Busy, Working,
              Answering
  <1>10. RequestTypeOK'
    BY Known
    DEF RequestTypeOK, GatewayStates, GatewayState, ListenerStates,
        ListenerState, Lasts, Files
  <1>11. Numbered' /\ NamesKnown'
    BY Known DEF Numbered
  <1>12. OneGateway' /\ NotRenamed' /\ NothingToDelete'
    BY Known DEF OneGateway, NotRenamed, NothingToDelete
  <1>13. OwnFiles' /\ OwnListener'
    BY Known DEF OwnFiles, OneGateway, OwnListener
  <1>14. OneListener' /\ DataIsRequests' /\ Prepared'
    BY Known DEF OneListener, DataIsRequests, Prepared, OneGateway
  <1>15. Responded' /\ Responding'
    BY Known DEF Responded, OneGateway, Responding
  <1>16. OneRequest' /\ WithGateway'
    BY SMTT(30), Known DEF OneRequest, WithGateway
  <1>17. NotYetDone' /\ AtMostOnce'
    BY SMTT(30), Known
    DEF NotYetDone, Numbered, AtMostOnce
  <1>true. ResultIsTrue'
    BY SMTT(30), Known
    DEF ResultIsTrue, TrueOf, OneGateway, OneListener
  <1>open. OpenWork'
    BY SMTT(30), Known
    DEF OpenWork, OneGateway, Numbered
  <1>18. QED
    BY <1>10, <1>11, <1>12, <1>13, <1>14, <1>15, <1>16, <1>17, <1>true, <1>open

\* A response that was read is the end of the call's request: it may be sent
\* again.
LEMMA ReadResponseStep ==
  ASSUME IInv, NEW g \in Gateway, ReadResponse(g)
  PROVE  IInv'
  <1> DEFINE n == gateway[g].name
             text == file[n]["3"].text
             again == Resendable(text) /\ gateway[g].tries < 2
             new == [gateway[g] EXCEPT
                       !.pc = IF again THEN "name" ELSE "clean",
                       !.name = IF again THEN NoName ELSE n,
                       !.tries = IF again THEN @ + 1 ELSE @,
                       !.data = IF again THEN FALSE ELSE @,
                       !.answer = text]
  <1>1. /\ gateway[g].pc = "response" /\ n \in Name
        /\ text \in {"ok", "error", "no_request"}
    BY ZenonT(60) DEF ReadResponse, IInv, RequestTypeOK, NamesKnown, Named
  <1>same. UNCHANGED <<file, listener, done, lastCall, faults>>
    BY DEF ReadResponse, Gateways
  <1>there. file[n]["3"] # NoFile
    <2>1. NoFile.text = "none"
      BY DEF NoFile
    <2>2. QED
      BY <1>1, <2>1
  <1>2. /\ file[n]["1"] = NoFile
        /\ \A l \in Listener : listener[l].name # n
    BY <1>1, <1>there DEF IInv, Responded, Responding, Awaiting
  <1>3. TrueOf(gateway[g].call, text)
    BY <1>1 DEF IInv, ResultIsTrue, Awaiting
  <1>4. again => done[gateway[g].call] = 0
    BY <1>3 DEF TrueOf, Resendable
  <1>5. gateway \in GatewayStates
    BY DEF IInv, RequestTypeOK, GatewayStates, GatewayState
  <1>6. new \in GatewayState
    <2>1. gateway[g].tries \in 0..2 /\ gateway[g] \in GatewayState
      BY <1>5 DEF GatewayStates, GatewayState
    <2>2. again => gateway[g].tries + 1 \in 0..2
      BY <2>1
    <2>3. text \in {"none", "ok", "error", "no_request"}
      BY <1>1
    <2> HIDE DEF text, again
    <2>4. CASE again
      BY ZenonT(60), <1>1, <2>1, <2>2, <2>3, <2>4 DEF GatewayState
    <2>5. CASE ~again
      BY <1>1, <2>1, <2>3, <2>5 DEF GatewayState
    <2>6. QED
      BY <2>4, <2>5
  <1>7. gateway' = [gateway EXCEPT ![g] = new]
    BY <1>5 DEF ReadResponse, GatewayStates
  <1>8. /\ new.call = gateway[g].call
        /\ again => new.pc = "name" /\ new.name = NoName
        /\ ~again => new.pc = "clean" /\ new.name = n /\ new.answer = text
    BY <1>5 DEF GatewayStates, GatewayState
  <1> HIDE DEF new, again, text
  <1>9. /\ gateway' \in GatewayStates
        /\ gateway'[g] = new
        /\ \A h \in Gateway : h # g => gateway'[h] = gateway[h]
    BY <1>5, <1>6, <1>7, GatewayBecomes
  <1>10. CASE again
    BY <1>1, <1>2, <1>4, <1>8, <1>9, <1>10, <1>same, ResendStep DEF again, text, Resendable
  <1>11. CASE ~again
    BY <1>1, <1>2, <1>8, <1>9, <1>11, <1>same, AnsweredStep DEF text
  <1>12. QED
    BY <1>10, <1>11

\* The files are deleted, or left to the listener.
LEMMA CleanUpStep ==
  ASSUME IInv, NEW g \in Gateway, CleanUp(g)
  PROVE  IInv'
  <1> DEFINE n == gateway[g].name
             left == [call |-> gateway[g].call, text |-> "ok"]
  <1>1. /\ gateway[g].pc = "clean" /\ n \in Name /\ file \in Files
        /\ gateway[g].call \in 1..lastCall /\ faults \in 0..MaxFaults
    BY SMTT(30) DEF CleanUp, IInv, RequestTypeOK, NamesKnown, Named, Numbered, Files
  <1>2. CASE Delete(n, {"1", "2", "3"}) /\ UNCHANGED faults
    <2>1. /\ file' \in Files
          /\ \A x \in {"1", "2", "3"} : file'[n][x] = NoFile
          /\ \A m \in Name, y \in Extension :
               m # n \/ y \notin {"1", "2", "3"} => file'[m][y] = file[m][y]
      BY <1>1, <1>2, DeleteFiles DEF Extension
    <2>2. file'[n]["4"] # NoFile => file'[n]["4"].call \in 1..lastCall
      BY <1>1, <2>1 DEF IInv, Numbered, Extension
    <2>3. QED
      BY <1>1, <1>2, <2>1, <2>2, LeaveStep DEF CleanUp, Gateways, Extension
  <1>3. CASE Fault /\ file' = [file EXCEPT ![n]["1"] = NoFile, ![n]["4"] = left]
    <2>1. left \in Content /\ left.call = gateway[g].call
      BY <1>1, Known DEF Content
    <2>2. faults' \in 0..MaxFaults
      BY SMTT(30), <1>1, <1>3, RequestAssumption DEF Fault
    <2> HIDE DEF left
    <2>3. /\ file' \in Files
          /\ file'[n]["1"] = NoFile /\ file'[n]["4"] = left
          /\ \A m \in Name, y \in Extension :
               m # n \/ y \notin {"1", "4"} => file'[m][y] = file[m][y]
      BY <1>1, <1>3, <2>1, LeaveFile
    <2>4. QED
      BY <1>1, <2>1, <2>2, <2>3, LeaveStep DEF CleanUp, Gateways, Extension
  <1>4. QED
    BY <1>2, <1>3 DEF CleanUp

-----------------------------------------------------------------------------
(* The steps of a listener preserve the invariant.                         *)

\* The request goes from ~N.1 to the listener.
LEMMA ClaimStep ==
  ASSUME IInv, NEW l \in Listener, Claim(l)
  PROVE  IInv'
  <1>1. PICK n \in Name :
          /\ Exists(n, "1")
          /\ Delete(n, {"1"})
          /\ listener' = [listener EXCEPT ![l].claim = file[n]["1"],
                            ![l].name = n, ![l].pc = "claimed"]
    BY DEF Claim
  <1> DEFINE new == [listener[l] EXCEPT !.claim = file[n]["1"], !.name = n,
                       !.pc = "claimed"]
  <1>2. /\ listener \in ListenerStates /\ file \in Files
        /\ file[n]["1"] \in Content
    BY DEF IInv, RequestTypeOK, ListenerStates, ListenerState, Lasts, Files, Extension
  <1>3. /\ new \in ListenerState
        /\ new.pc = "claimed" /\ new.name = n /\ new.claim = file[n]["1"]
        /\ new.last = listener[l].last /\ new.open = listener[l].open
    BY <1>2 DEF ListenerStates, ListenerState
  <1>4. listener' = [listener EXCEPT ![l] = new]
    BY <1>1, <1>2 DEF ListenerStates
  <1> HIDE DEF new
  <1>5. /\ listener' \in ListenerStates
        /\ listener'[l].pc = "claimed" /\ listener'[l].name = n
        /\ listener'[l].claim = file[n]["1"]
        /\ listener'[l].last = listener[l].last /\ listener'[l].open = listener[l].open
        /\ \A k \in Listener : k # l => listener'[k] = listener[k]
    BY <1>2, <1>3, <1>4, ListenerBecomes
  <1>6. /\ file' \in Files
        /\ file'[n]["1"] = NoFile
        /\ \A m \in Name, y \in Extension :
             m # n \/ y # "1" => file'[m][y] = file[m][y]
    BY <1>1, <1>2, DeleteFiles DEF Extension
  <1>7. /\ listener[l].pc = "wait" /\ file[n]["1"] # NoFile /\ n # NoName
        /\ \A k \in Listener : listener[k].name # n /\ listener[k].last.name # n
    BY <1>1, Known DEF Claim, Exists, IInv, OneListener, NamesKnown
  <1>8. UNCHANGED <<gateway, done, lastCall, faults>>
    BY DEF Claim, Listeners
  <1> USE DEF IInv, Extension, NamesKnown, Named, Preparing, Awaiting, Busy, Working,
              Answering
  <1>10. RequestTypeOK'
    BY Known, <1>5, <1>6, <1>7, <1>8
    DEF RequestTypeOK, GatewayStates, GatewayState, ListenerStates,
        ListenerState, Lasts, Files
  <1>11. Numbered' /\ NamesKnown'
    BY SMTT(30), Known, <1>5, <1>6, <1>7, <1>8 DEF Numbered
  <1>12. OneGateway' /\ NotRenamed' /\ NothingToDelete'
    BY Known, <1>5, <1>6, <1>7, <1>8
    DEF OneGateway, NotRenamed, NothingToDelete
  <1>13. OwnFiles' /\ OwnListener'
    BY SMTT(30), Known, <1>5, <1>6, <1>7, <1>8 DEF OwnFiles, OneGateway, OwnListener
  <1>14. OneListener' /\ DataIsRequests' /\ Prepared'
    BY Known, <1>5, <1>6, <1>7, <1>8
    DEF OneListener, DataIsRequests, Prepared, OneGateway
  <1>15. Responded' /\ Responding'
    BY Known, <1>5, <1>6, <1>7, <1>8 DEF Responded, OneGateway, Responding
  <1>16. OneRequest' /\ WithGateway'
    BY SMTT(30), Known, <1>5, <1>6, <1>7, <1>8 DEF OneRequest, WithGateway
  <1>17. NotYetDone' /\ AtMostOnce'
    BY SMTT(30), Known, <1>5, <1>6, <1>7, <1>8
    DEF NotYetDone, Numbered, AtMostOnce
  <1>true. ResultIsTrue'
    BY SMTT(30), Known, <1>5, <1>6, <1>7, <1>8
    DEF ResultIsTrue, TrueOf, OneGateway, OneListener
  <1>open. OpenWork'
    BY SMTT(30), Known, <1>5, <1>6, <1>7, <1>8
    DEF OpenWork, OneGateway, Numbered
  <1>18. QED
    BY <1>10, <1>11, <1>12, <1>13, <1>14, <1>15, <1>16, <1>17, <1>true, <1>open

\* A listener that drops its claim, or dies.  It may forget where NET would answer
\* and what is in its transaction.
LEMMA ListenerGoneStep ==
  ASSUME IInv, NEW l \in Listener,
         listener' \in ListenerStates,
         listener'[l].pc = "wait", listener'[l].name = NoName,
         listener'[l].last \in {NoLast, listener[l].last},
         listener'[l].open \in {{}, listener[l].open},
         \A k \in Listener : k # l => listener'[k] = listener[k],
         faults' \in 0..MaxFaults,
         UNCHANGED <<file, gateway, done, lastCall>>
  PROVE  IInv'
  <1>1. NoLast.name = NoName
    BY DEF NoLast
  <1> USE DEF IInv, Extension, NamesKnown, Named, Preparing, Awaiting, Busy, Working,
              Answering
  <1>10. RequestTypeOK'
    BY Known, <1>1
    DEF RequestTypeOK, GatewayStates, GatewayState, ListenerStates,
        ListenerState, Lasts, Files
  <1>11. Numbered'
    BY SMTT(30), Known, <1>1
    DEF Numbered
  <1>12. NamesKnown'
    BY Known, <1>1
  <1>13. OneGateway' /\ NotRenamed' /\ NothingToDelete'
    BY SMTT(30), Known, <1>1
    DEF OneGateway, NotRenamed, NothingToDelete
  <1>14. OwnFiles' /\ OwnListener'
    BY SMTT(30), Known, <1>1
    DEF OwnFiles, OneGateway, OwnListener
  <1>15. OneListener'
    BY SMTT(30), Known, <1>1
    DEF OneListener
  <1>16. DataIsRequests' /\ Prepared'
    BY SMTT(30), Known, <1>1
    DEF DataIsRequests, Prepared, OneGateway
  <1>17. Responded' /\ Responding'
    BY SMTT(30), Known, <1>1
    DEF Responded, OneGateway, Responding
  <1>18. OneRequest' /\ WithGateway'
    BY SMTT(30), Known, <1>1
    DEF OneRequest, WithGateway
  <1>19. NotYetDone' /\ AtMostOnce'
    BY SMTT(30), Known, <1>1
    DEF NotYetDone, AtMostOnce
  <1>true. ResultIsTrue'
    BY SMTT(30), Known, <1>1
    DEF ResultIsTrue, TrueOf, OneGateway, OneListener
  <1>20. OpenWork'
    BY SMTT(30), Known, <1>1
    DEF OpenWork, OneGateway, Numbered
  <1>21. QED
    BY <1>10, <1>11, <1>12, <1>13, <1>14, <1>15,
       <1>16, <1>17, <1>18, <1>19, <1>20, <1>true

LEMMA CrashStep ==
  ASSUME IInv, NEW l \in Listener, Crash(l)
  PROVE  IInv'
  <1>1. faults' \in 0..MaxFaults
    BY RequestAssumption DEF Crash, Fault, IInv, RequestTypeOK
  <1>2. NoLast \in Lasts
    BY RequestAssumption DEF NoLast, Lasts
  <1>3. /\ Waiting \in ListenerState
        /\ Waiting.pc = "wait" /\ Waiting.name = NoName
        /\ Waiting.last = NoLast /\ Waiting.open = {}
    BY <1>2, NoFileContent DEF ListenerState, Waiting, NoClaim
  <1>4. /\ listener' \in ListenerStates
        /\ listener'[l].pc = "wait" /\ listener'[l].name = NoName
        /\ listener'[l].last = NoLast /\ listener'[l].open = {}
        /\ \A k \in Listener : k # l => listener'[k] = listener[k]
    <2>1. listener \in ListenerStates /\ listener' = [listener EXCEPT ![l] = Waiting]
      BY DEF Crash, IInv, RequestTypeOK, ListenerStates, ListenerState, Lasts
    <2>2. QED
      BY <1>3, <2>1, ListenerBecomes
  <1>5. QED
    BY <1>1, <1>4, ListenerGoneStep DEF Crash, Listeners

\* A fault is counted.
LEMMA FaultsBounded ==
  ASSUME faults \in 0..MaxFaults, UNCHANGED faults \/ Fault
  PROVE  faults' \in 0..MaxFaults
  BY RequestAssumption DEF Fault

\* NET answers with an error, under a name whose request was claimed, and by no
\* other listener.
LEMMA FailsStep ==
  ASSUME IInv, NEW l \in Listener, Fails(l)
  PROVE  IInv'
  <1> DEFINE c == listener[l].claim.call
  <1>1. PICK at \in AnswersAt(l) :
          IF at.name = NoName
          THEN UNCHANGED file
          ELSE Put(at.name, "3", [call |-> at.call, text |-> "error"])
    BY DEF Fails
  <1>2. PICK left \in {{}, listener[l].open,
                      listener[l].open \cup
                        IF listener[l].pc = "process" THEN {c} ELSE {}} :
          listener' = [listener EXCEPT ![l] = [Waiting EXCEPT !.open = left]]
    BY DEF Fails
  <1>3. /\ UNCHANGED <<gateway, lastCall, done>> /\ faults' \in 0..MaxFaults
        /\ listener \in ListenerStates /\ file \in Files
    BY FaultsBounded
    DEF Fails, Listeners, IInv, RequestTypeOK, ListenerStates, ListenerState, Lasts, Files
  <1>4. Busy(l) => c \in 1..lastCall /\ c \in 1..MaxCalls
    <2>1. Busy(l) => c \in 1..lastCall
      BY DEF IInv, Numbered
    <2>2. QED
      BY <2>1, Known
  <1>5. at.name # NoName =>
          /\ at.name \in Name /\ at.call \in 1..lastCall
          /\ file[at.name]["1"] = NoFile
          /\ \A k \in Listener : k # l => listener[k].name # at.name
          /\ \A g \in Gateway : Named(g) /\ gateway[g].name = at.name =>
               ~Preparing(g) /\ at.call = gateway[g].call
    <2>1. CASE at = listener[l].last
      BY SMTT(30), Known, <2>1
      DEF IInv, Numbered, OneListener, OwnListener, Prepared, NamesKnown, Busy
    <2>2. CASE /\ listener[l].pc = "data" /\ at.name = listener[l].name
               /\ at.call = c
      BY SMTT(30), Known, <1>4, <2>2
      DEF IInv, OneListener, OwnListener, Prepared, NamesKnown, Busy
    <2>3. QED
      BY <2>1, <2>2 DEF AnswersAt
  <1>6. left \in SUBSET (1..MaxCalls)
    BY <1>3, <1>4 DEF ListenerStates, ListenerState, Busy
  <1>7. /\ listener' \in ListenerStates
        /\ listener'[l].pc = "wait" /\ listener'[l].name = NoName
        /\ listener'[l].last.name = NoName
        /\ listener'[l].open = left
        /\ \A k \in Listener : k # l => listener'[k] = listener[k]
    <2> DEFINE new == [Waiting EXCEPT !.open = left]
    <2>1. NoLast \in Lasts /\ NoLast.name = NoName
      BY RequestAssumption DEF NoLast, Lasts
    <2>2. /\ new \in ListenerState
          /\ new.pc = "wait" /\ new.name = NoName
          /\ new.last = NoLast /\ new.open = left
      BY <1>6, <2>1, NoFileContent DEF ListenerState, Waiting, NoClaim
    <2> HIDE DEF new
    <2>3. listener' = [listener EXCEPT ![l] = new]
      BY <1>2 DEF new
    <2>4. QED
      BY <1>3, <2>1, <2>2, <2>3, ListenerBecomes
  <1>8. /\ file' \in Files
        /\ at.name # NoName =>
             file'[at.name]["3"].text = "error" /\ file'[at.name]["3"].call = at.call
        /\ \A m \in Name, y \in Extension :
             m # at.name \/ y # "3" => file'[m][y] = file[m][y]
    <2>1. CASE at.name = NoName
      BY <1>1, <1>3, <2>1
    <2>2. CASE at.name # NoName
      <3>1. at.call \in 0..MaxCalls
        BY <1>5, <2>2, Known
      <3>2. [call |-> at.call, text |-> "error"] \in Content /\ "3" \in Extension
        BY <3>1 DEF Content, Extension
      <3>3. QED
        BY <1>1, <1>3, <1>5, <2>2, <3>2, PutFile
    <2>3. QED
      BY <2>1, <2>2
  <1>9. NoFile.text = "none"
    BY DEF NoFile
  <1> USE DEF IInv, Extension, NamesKnown, Named, Preparing, Awaiting, Busy, Working,
              Answering
  <1>10. RequestTypeOK'
    BY Known, <1>3, <1>7, <1>8
    DEF RequestTypeOK, GatewayStates, GatewayState, ListenerStates,
        ListenerState, Lasts, Files
  <1>11. Numbered'
    BY SMTT(30), Known, <1>2, <1>3, <1>4, <1>5, <1>7, <1>8 DEF Numbered
  <1>12. NamesKnown'
    BY Known, <1>3, <1>7
  <1>13. OneGateway' /\ NotRenamed' /\ NothingToDelete'
    BY SMTT(30), Known, <1>3, <1>7, <1>8 DEF OneGateway, NotRenamed, NothingToDelete
  <1>14. OwnFiles'
    BY SMTT(30), Known, <1>3, <1>5, <1>7, <1>8 DEF OwnFiles
  <1>15. OwnListener'
    BY SMTT(30), Known, <1>3, <1>7 DEF OwnListener
  <1>16. OneListener' /\ DataIsRequests'
    BY SMTT(30), Known, <1>3, <1>7, <1>8 DEF OneListener, DataIsRequests
  <1>17. Prepared'
    BY SMTT(30), Known, <1>3, <1>5, <1>7, <1>8 DEF Prepared
  <1>18. Responded'
    BY SMTT(30), Known, <1>3, <1>5, <1>7, <1>8 DEF Responded
  <1>19. Responding'
    BY SMTT(30), Known, <1>3, <1>5, <1>7, <1>8 DEF Responding
  <1>20. OneRequest' /\ WithGateway'
    BY SMTT(30), Known, <1>3, <1>7, <1>8 DEF OneRequest, WithGateway
  <1>21. NotYetDone' /\ AtMostOnce'
    BY SMTT(30), Known, <1>3, <1>7, <1>8 DEF NotYetDone, AtMostOnce
  <1>22. ResultIsTrue'
    BY SMTT(30), Known, <1>3, <1>7, <1>8 DEF ResultIsTrue, TrueOf
  <1>23. OpenWork'
    <2> SUFFICES ASSUME NEW k \in Listener, NEW d \in listener'[k].open
        PROVE  /\ done[d] = 0
               /\ \A n \in Name : file'[n]["1"] # NoFile => file'[n]["1"].call # d
               /\ \A j \in Listener :
                    /\ listener'[j].pc # "wait" => listener'[j].claim.call # d
                    /\ j # k => d \notin listener'[j].open
               /\ \A g \in Gateway :
                    gateway[g].pc # "free" /\ gateway[g].call = d =>
                      /\ ~Preparing(g)
                      /\ Awaiting(g) => file'[gateway[g].name]["3"].text # "no_request"
                      /\ gateway[g].pc = "clean" => gateway[g].answer # "no_request"
      BY <1>3 DEF OpenWork
    <2>1. CASE d \in listener[k].open
      <3>1. \A j \in Listener : j # k => d \notin listener'[j].open
        BY SMTT(30), <1>2, <1>7, <2>1 DEF OpenWork
      <3>2. QED
        BY SMTT(30), Known, <1>7, <1>8, <2>1, <3>1 DEF OpenWork
    <2>2. CASE d \notin listener[k].open
      <3>1. k = l /\ listener[l].pc = "process" /\ d = c
        BY <1>2, <1>7, <2>2
      <3>2. done[d] = 0
        BY <3>1 DEF NotYetDone
      <3>3. /\ \A n \in Name : file'[n]["1"] # NoFile => file'[n]["1"].call # d
            /\ \A j \in Listener :
                 listener'[j].pc # "wait" => listener'[j].claim.call # d
        BY SMTT(30), <1>7, <1>8, <3>1 DEF OneRequest
      <3>4. \A j \in Listener : j # k => d \notin listener'[j].open
        BY <1>7, <3>1 DEF OpenWork
      <3>5. ASSUME NEW g \in Gateway, gateway[g].pc # "free", gateway[g].call = d
            PROVE  Awaiting(g) /\ file'[gateway[g].name]["3"].text # "no_request"
        <4>1. Awaiting(g) /\ gateway[g].name = listener[l].name
          BY <3>1, <3>5 DEF WithGateway
        <4>2. file[gateway[g].name]["3"].text = "none"
          BY <1>9, <3>1, <4>1 DEF Responding
        <4>3. QED
          BY Known, <1>8, <4>1, <4>2
      <3>6. QED
        BY <3>2, <3>3, <3>4, <3>5
    <2>3. QED
      BY <2>1, <2>2
  <1>24. QED
    BY <1>10, <1>11, <1>12, <1>13, <1>14, <1>15, <1>16, <1>17, <1>18, <1>19,
       <1>20, <1>21, <1>22, <1>23

LEMMA GotLinkStep ==
  ASSUME IInv, NEW l \in Listener, GotLink(l)
  PROVE  IInv'
  <1>1. /\ listener[l].pc = "claimed" /\ listener \in ListenerStates
        /\ UNCHANGED <<file, gateway, done, lastCall, faults>>
    BY DEF GotLink, Listeners, IInv, RequestTypeOK, ListenerStates, ListenerState, Lasts
  <1>2. CASE Moves(l, "data")
    <2>1. /\ listener' \in ListenerStates
          /\ listener'[l].pc = "data"
          /\ listener'[l].claim = listener[l].claim
          /\ listener'[l].name = listener[l].name
          /\ listener'[l].data = listener[l].data
          /\ listener'[l].last = listener[l].last
          /\ listener'[l].open = listener[l].open
          /\ \A k \in Listener : k # l => listener'[k] = listener[k]
      BY <1>1, <1>2, ListenerMoves
    <2> USE DEF IInv, Extension, NamesKnown, Named, Preparing, Awaiting, Busy, Working,
                Answering
    <2>10. RequestTypeOK'
      BY Known, <1>1, <2>1
      DEF RequestTypeOK, GatewayStates, GatewayState, ListenerStates,
          ListenerState, Lasts, Files
    <2>11. Numbered'
      BY SMTT(30), Known, <1>1, <2>1
      DEF Numbered
    <2>12. NamesKnown'
      BY Known, <1>1, <2>1
    <2>13. OneGateway' /\ NotRenamed' /\ NothingToDelete'
      BY SMTT(30), Known, <1>1, <2>1
      DEF OneGateway, NotRenamed, NothingToDelete
    <2>14. OwnFiles' /\ OwnListener'
      BY SMTT(30), Known, <1>1, <2>1
      DEF OwnFiles, OneGateway, OwnListener
    <2>15. OneListener'
      BY SMTT(30), Known, <1>1, <2>1
      DEF OneListener
    <2>16. DataIsRequests' /\ Prepared'
      BY SMTT(30), Known, <1>1, <2>1
      DEF DataIsRequests, Prepared, OneGateway
    <2>17. Responded' /\ Responding'
      BY SMTT(30), Known, <1>1, <2>1
      DEF Responded, OneGateway, Responding
    <2>18. OneRequest' /\ WithGateway'
      BY SMTT(30), Known, <1>1, <2>1
      DEF OneRequest, WithGateway
    <2>19. NotYetDone' /\ AtMostOnce'
      BY SMTT(30), Known, <1>1, <2>1
      DEF NotYetDone, AtMostOnce
    <2>true. ResultIsTrue'
      BY SMTT(30), Known, <1>1, <2>1
      DEF ResultIsTrue, TrueOf, OneGateway, OneListener
    <2>20. OpenWork'
      BY SMTT(30), Known, <1>1, <2>1
      DEF OpenWork, OneGateway, Numbered
    <2>21. QED
      BY <2>10, <2>11, <2>12, <2>13, <2>14, <2>15,
         <2>16, <2>17, <2>18, <2>19, <2>20, <2>true
  <1>3. CASE Again(l)
    <2>1. /\ listener' \in ListenerStates
          /\ listener'[l].pc = "wait" /\ listener'[l].name = NoName
          /\ listener'[l].last = listener[l].last
          /\ listener'[l].open = listener[l].open
          /\ \A k \in Listener : k # l => listener'[k] = listener[k]
      BY <1>1, <1>3, ListenerAgain
    <2>2. QED
      BY <1>1, <2>1, ListenerGoneStep DEF IInv, RequestTypeOK
  <1>4. QED
    BY <1>2, <1>3 DEF GotLink

\* A listener has read the data of its request.
LEMMA ListenerReads ==
  ASSUME listener \in ListenerStates, NEW l \in Listener, NEW data \in Content,
         NEW last \in Lasts,
         listener' = [listener EXCEPT ![l].data = data, ![l].pc = "process",
                                      ![l].last = last]
  PROVE  /\ listener' \in ListenerStates
         /\ listener'[l].pc = "process"
         /\ listener'[l].name = listener[l].name
         /\ listener'[l].claim = listener[l].claim
         /\ listener'[l].data = data
         /\ listener'[l].last = last /\ listener'[l].open = listener[l].open
         /\ \A k \in Listener : k # l => listener'[k] = listener[k]
  <1>1. ASSUME NEW old \in ListenerState
        PROVE  LET new == [old EXCEPT !.data = data, !.pc = "process", !.last = last]
               IN  /\ new \in ListenerState
                   /\ new.pc = "process" /\ new.name = old.name
                   /\ new.claim = old.claim /\ new.data = data
                   /\ new.last = last /\ new.open = old.open
    BY DEF ListenerState
  <1>2. listener' = [listener EXCEPT ![l] =
                       [listener[l] EXCEPT !.data = data, !.pc = "process",
                                           !.last = last]]
    BY DEF ListenerStates
  <1>3. listener[l] \in ListenerState
    BY DEF ListenerStates
  <1> DEFINE new == [listener[l] EXCEPT !.data = data, !.pc = "process", !.last = last]
  <1>4. /\ new \in ListenerState
        /\ new.pc = "process" /\ new.name = listener[l].name
        /\ new.claim = listener[l].claim /\ new.data = data
        /\ new.last = last /\ new.open = listener[l].open
    BY <1>1, <1>3
  <1>5. listener' = [listener EXCEPT ![l] = new]
    BY <1>2
  <1> HIDE DEF new
  <1>6. QED
    BY <1>4, <1>5, ListenerBecomes

\* The data goes from ~N.2 to the listener.
LEMMA ReadDataStep ==
  ASSUME IInv, NEW l \in Listener, ReadData(l)
  PROVE  IInv'
  <1> DEFINE n == listener[l].name
             own == [call |-> listener[l].claim.call, name |-> n]
  <1>1. /\ listener[l].pc = "data" /\ n \in Name
        /\ listener \in ListenerStates /\ file \in Files
        /\ file[n]["2"] \in Content
    <2>1. /\ listener[l].pc = "data"
          /\ listener \in ListenerStates /\ file \in Files
      BY DEF ReadData, IInv, RequestTypeOK, ListenerStates, ListenerState, Lasts, Files
    <2>2. n \in Name
      BY <2>1, Known DEF IInv, NamesKnown, Busy
    <2>3. QED
      BY <2>1, <2>2 DEF Files, Extension
  <1>2. own \in Lasts
    <2>1. listener[l].claim \in Content
      BY <1>1 DEF ListenerStates, ListenerState
    <2>2. QED
      BY <1>1, <2>1 DEF Content, Lasts
  <1>3. listener' = [listener EXCEPT ![l].data = file[n]["2"], ![l].pc = "process",
                                     ![l].last = own]
    BY DEF ReadData
  <1>own. own.name = n /\ own.call = listener[l].claim.call
    OBVIOUS
  <1> HIDE DEF own
  <1>4. /\ listener' \in ListenerStates
        /\ listener'[l].pc = "process" /\ listener'[l].name = n
        /\ listener'[l].claim = listener[l].claim
        /\ listener'[l].data = file[n]["2"]
        /\ listener'[l].last = own /\ listener'[l].open = listener[l].open
        /\ \A k \in Listener : k # l => listener'[k] = listener[k]
    <2> DEFINE data == file[n]["2"]
    <2>1. /\ data \in Content /\ listener \in ListenerStates
          /\ listener' = [listener EXCEPT ![l].data = data, ![l].pc = "process",
                                         ![l].last = own]
      BY <1>1, <1>3
    <2> HIDE DEF data
    <2>2. /\ listener' \in ListenerStates
          /\ listener'[l].pc = "process"
          /\ listener'[l].name = listener[l].name
          /\ listener'[l].claim = listener[l].claim
          /\ listener'[l].data = data
          /\ listener'[l].last = own /\ listener'[l].open = listener[l].open
          /\ \A k \in Listener : k # l => listener'[k] = listener[k]
      BY ZenonT(60), <1>2, <2>1, ListenerReads
    <2>3. QED
      BY <2>2 DEF data
  <1>5. /\ file' \in Files
        /\ file'[n]["2"] = NoFile
        /\ \A m \in Name, y \in Extension :
             m # n \/ y # "2" => file'[m][y] = file[m][y]
    BY <1>1, DeleteFiles DEF Extension, ReadData
  <1>6. UNCHANGED <<gateway, done, lastCall, faults>>
    BY DEF ReadData, Listeners
  <1> USE DEF IInv, Extension, NamesKnown, Named, Preparing, Awaiting, Busy, Working,
              Answering
  <1>10. RequestTypeOK'
    BY Known, <1>own, <1>1, <1>4, <1>5, <1>6
    DEF RequestTypeOK, GatewayStates, GatewayState, ListenerStates,
        ListenerState, Lasts, Files
  <1>11. Numbered' /\ NamesKnown'
    BY Known, <1>own, <1>1, <1>4, <1>5, <1>6 DEF Numbered
  <1>12. OneGateway' /\ NotRenamed' /\ NothingToDelete'
    BY Known, <1>own, <1>1, <1>4, <1>5, <1>6
    DEF OneGateway, NotRenamed, NothingToDelete
  <1>13. OwnFiles' /\ OwnListener'
    BY SMTT(30), Known, <1>own, <1>1, <1>4, <1>5, <1>6 DEF OwnFiles, OneGateway, OwnListener
  <1>14. OneListener' /\ DataIsRequests' /\ Prepared'
    BY SMTT(30), Known, <1>own, <1>1, <1>4, <1>5, <1>6
    DEF OneListener, DataIsRequests, DataOf, Prepared, OneGateway
  <1>15. Responded' /\ Responding'
    <2>1. ASSUME NEW g \in Gateway, Awaiting(g), gateway[g].name = n
          PROVE  DataOf(file'[n]["2"], gateway[g].call) /\ file'[n]["3"] = NoFile
      BY SMTT(30), <1>1, <1>5, <2>1 DEF Responding, DataOf
    <2>2. Responded'
      BY SMTT(30), Known, <1>5, <1>6, <2>1 DEF Responded
    <2>3. Responding'
      BY SMTT(30), Known, <1>1, <1>4, <1>5, <1>6, <2>1 DEF Responding, OneListener
    <2>4. QED
      BY <2>2, <2>3
  <1>16. OneRequest' /\ WithGateway'
    BY SMTT(30), Known, <1>own, <1>1, <1>4, <1>5, <1>6 DEF OneRequest, WithGateway
  <1>17. NotYetDone' /\ AtMostOnce'
    BY SMTT(30), Known, <1>own, <1>1, <1>4, <1>5, <1>6
    DEF NotYetDone, Numbered, AtMostOnce
  <1>true. ResultIsTrue'
    BY SMTT(30), Known, <1>own, <1>1, <1>4, <1>5, <1>6
    DEF ResultIsTrue, TrueOf, OneGateway, OneListener
  <1>open. OpenWork'
    BY SMTT(30), Known, <1>own, <1>1, <1>4, <1>5, <1>6
    DEF OpenWork, OneGateway, Numbered
  <1>18. QED
    BY <1>10, <1>11, <1>12, <1>13, <1>14, <1>15, <1>16, <1>17, <1>true, <1>open

\* A commit is the first of all that is in it.
LEMMA CommitsOnce ==
  ASSUME IInv, NEW l \in Listener, listener[l].pc = "process",
         NEW own \in {{}, {listener[l].claim.call}}, Commits(l, own)
  PROVE  /\ done' \in [1..MaxCalls -> Nat]
         /\ done'[listener[l].claim.call] = IF own = {} THEN 0 ELSE 1
         /\ \A d \in 1..MaxCalls :
              d # listener[l].claim.call =>
                done'[d] = IF d \in listener[l].open THEN 1 ELSE done[d]
  <1> DEFINE c == listener[l].claim.call
             open == listener[l].open
  <1>1. done \in [1..MaxCalls -> Nat]
    BY DEF IInv, RequestTypeOK
  <1>2. done' = [d \in 1..MaxCalls |-> done[d] + IF d \in own \cup open THEN 1 ELSE 0]
    BY <1>1 DEF Commits
  <1>3. c \in 1..MaxCalls /\ done[c] = 0
    <2>1. c \in 1..lastCall /\ done[c] = 0
      BY DEF IInv, Numbered, NotYetDone, Busy, Working
    <2>2. QED
      BY <2>1, Known
  <1>4. c \notin open /\ \A d \in 1..MaxCalls : d \in open => done[d] = 0
    BY <1>3 DEF IInv, OpenWork, Busy
  <1> HIDE DEF c, open
  <1>5. \A d \in 1..MaxCalls : d # c => (d \in own \cup open <=> d \in open)
    BY DEF c
  <1>6. own = {} \/ c \in own
    BY DEF c
  <1>7. done' \in [1..MaxCalls -> Nat]
    BY <1>1, <1>2
  <1>8. done'[c] = IF own = {} THEN 0 ELSE 1
    BY <1>2, <1>3, <1>4, <1>6
  <1>9. ASSUME NEW d \in 1..MaxCalls, d # c
        PROVE  done'[d] = IF d \in open THEN 1 ELSE done[d]
    BY <1>1, <1>2, <1>4, <1>5, <1>9
  <1>10. QED
    BY <1>7, <1>8, <1>9 DEF c, open

\* A request that was processed is nowhere any more, and what the response will
\* say is true.
LEMMA ProcessedStep ==
  ASSUME IInv, NEW l \in Listener, listener[l].pc = "process",
         NEW text,
         listener' \in ListenerStates,
         listener'[l].pc = "reply",
         listener'[l].name = listener[l].name,
         listener'[l].claim = listener[l].claim,
         listener'[l].last = listener[l].last,
         listener'[l].open \in {{}, listener[l].open},
         listener'[l].data.text = text,
         \A k \in Listener : k # l => listener'[k] = listener[k],
         done' \in [1..MaxCalls -> Nat],
         done'[listener[l].claim.call] <= 1,
         text = "ok" => done'[listener[l].claim.call] = 1,
         text = "no_request" => done'[listener[l].claim.call] = 0,
         \A d \in 1..MaxCalls : d # listener[l].claim.call =>
           \/ done'[d] = done[d]
           \/ d \in listener[l].open /\ done'[d] = 1 /\ listener'[l].open = {},
         UNCHANGED <<file, gateway, lastCall>>, faults' \in 0..MaxFaults
  PROVE  IInv'
  <1> DEFINE c == listener[l].claim.call
  <1>1. c \in 1..lastCall /\ c \in 1..MaxCalls /\ c <= lastCall
    <2>1. c \in 1..lastCall
      BY DEF IInv, Numbered, Busy
    <2>2. QED
      BY <2>1, Known
  <1>2. \A n \in Name : file[n]["1"] # NoFile =>
          done'[file[n]["1"].call] = done[file[n]["1"].call]
    <2>1. \A n \in Name : file[n]["1"] # NoFile =>
            /\ file[n]["1"].call \in 1..lastCall
            /\ file[n]["1"].call # c
      BY DEF IInv, Numbered, OneRequest, Busy, Extension
    <2>2. \A n \in Name : file[n]["1"] # NoFile => file[n]["1"].call \in 1..MaxCalls
      BY <2>1, Known
    <2>3. QED
      BY <2>1, <2>2 DEF IInv, OpenWork
  <1>3. \A k \in Listener : k # l /\ Busy(k) =>
          done'[listener[k].claim.call] = done[listener[k].claim.call]
    <2>1. \A k \in Listener : k # l /\ Busy(k) =>
            /\ listener[k].claim.call \in 1..lastCall
            /\ listener[k].claim.call # c
      BY DEF IInv, Numbered, OneRequest, Busy
    <2>2. \A k \in Listener : k # l /\ Busy(k) =>
            listener[k].claim.call \in 1..MaxCalls
      BY <2>1, Known
    <2>3. QED
      BY <2>1, <2>2 DEF IInv, OpenWork
  <1>4. \A g \in Gateway : gateway[g].pc # "free" =>
          /\ gateway[g].call \in 1..MaxCalls
          /\ gateway[g].call = c => Awaiting(g) /\ gateway[g].name = listener[l].name
          /\ gateway[g].call # c /\ Preparing(g) =>
               done'[gateway[g].call] = done[gateway[g].call]
    <2>1. \A g \in Gateway : gateway[g].pc # "free" =>
            /\ gateway[g].call \in 1..lastCall
            /\ gateway[g].call = c => Awaiting(g) /\ gateway[g].name = listener[l].name
      BY DEF IInv, Numbered, WithGateway, Busy
    <2>2. \A g \in Gateway : gateway[g].pc # "free" => gateway[g].call \in 1..MaxCalls
      BY <2>1, Known
    <2>3. QED
      BY <2>1, <2>2 DEF IInv, OpenWork
  <1>5. listener[l].name # NoName
    BY DEF IInv, NamesKnown, Busy
  <1>6. \A g \in Gateway : Awaiting(g) /\ gateway[g].name = listener[l].name =>
          /\ file[gateway[g].name]["3"].text = "none"
          /\ gateway[g].call = c
          /\ \A k \in Listener : k # l => listener[k].name # gateway[g].name
    <2>1. NoFile.text = "none"
      BY DEF NoFile
    <2>2. QED
      BY <1>5, <2>1 DEF IInv, Responding, OneListener, OwnListener, Busy, Named
  <1>8. AtMostOnce'
    <2>1. DOMAIN done = 1..MaxCalls /\ DOMAIN done' = 1..MaxCalls
      BY DEF IInv, RequestTypeOK
    <2>2. \A d \in 1..MaxCalls : done[d] <= 1
      BY <2>1 DEF IInv, AtMostOnce
    <2>3. QED
      BY <2>1, <2>2 DEF AtMostOnce
  <1> USE DEF IInv, Extension, NamesKnown, Named, Preparing, Awaiting, Busy, Working,
              Answering
  <1>10. RequestTypeOK'
    BY Known, <1>1
    DEF RequestTypeOK, GatewayStates, GatewayState, ListenerStates,
        ListenerState, Lasts, Files
  <1>11. Numbered'
    BY SMTT(30), Known, <1>1 DEF Numbered
  <1>12. NamesKnown'
    BY Known, <1>1
  <1>13. OneGateway' /\ NotRenamed' /\ NothingToDelete'
    BY Known, <1>1 DEF OneGateway, NotRenamed, NothingToDelete
  <1>14. OwnFiles' /\ OwnListener'
    BY SMTT(30), Known, <1>1 DEF OwnFiles, OneGateway, OwnListener
  <1>15. OneListener' /\ DataIsRequests' /\ Prepared'
    BY SMTT(30), Known, <1>1 DEF OneListener, DataIsRequests, Prepared, OneGateway
  <1>16. Responded' /\ Responding'
    BY SMTT(30), Known, <1>1 DEF Responded, OneGateway, Responding
  <1>17. OneRequest'
    BY SMTT(30), Known, <1>1 DEF OneRequest
  <1>18. WithGateway'
    BY Known, <1>1 DEF WithGateway
  <1>19. NotYetDone'
    BY SMTT(30), <1>2, <1>3, <1>4 DEF NotYetDone
  <1>20. ResultIsTrue'
    <2> SUFFICES ASSUME NEW g \in Gateway
        PROVE  /\ Awaiting(g) =>
                    /\ TrueOf(gateway[g].call, file[gateway[g].name]["3"].text)'
                    /\ \A k \in Listener :
                         Answering(k)' /\ listener'[k].name = gateway[g].name =>
                           TrueOf(gateway[g].call, listener[k].data.text)'
               /\ gateway[g].pc = "clean" => TrueOf(gateway[g].call, gateway[g].answer)'
      BY DEF ResultIsTrue
    <2>1. CASE gateway[g].pc # "free" /\ gateway[g].call = c
      BY SMTT(30), <1>4, <1>6, <2>1 DEF TrueOf
    <2>2. CASE gateway[g].pc # "free" /\ gateway[g].call # c
      <3>1. gateway[g].pc = "clean" => TrueOf(gateway[g].call, gateway[g].answer)'
        BY SMTT(30), <1>4, <2>2 DEF ResultIsTrue, OpenWork, TrueOf
      <3>2. Awaiting(g) => TrueOf(gateway[g].call, file[gateway[g].name]["3"].text)'
        BY SMTT(30), <1>4, <2>2 DEF ResultIsTrue, OpenWork, TrueOf
      <3>3. ASSUME Awaiting(g), NEW k \in Listener,
                   Answering(k)', listener'[k].name = gateway[g].name
            PROVE  TrueOf(gateway[g].call, listener[k].data.text)'
        <4>1. k # l
          BY <1>6, <2>2, <3>3
        <4>2. /\ listener'[k] = listener[k] /\ listener[k].claim.call = gateway[g].call
              /\ TrueOf(gateway[g].call, listener[k].data.text)
          BY <3>3, <4>1 DEF ResultIsTrue, OwnListener
        <4>3. done'[gateway[g].call] = done[gateway[g].call]
          BY <1>3, <3>3, <4>1, <4>2
        <4>4. QED
          BY <4>2, <4>3 DEF TrueOf
      <3>4. QED
        BY <3>1, <3>2, <3>3
    <2>3. QED
      BY <2>1, <2>2
  <1>21. OpenWork'
    <2> SUFFICES ASSUME NEW k \in Listener, NEW d \in listener'[k].open
        PROVE  /\ done'[d] = 0
               /\ \A n \in Name : file[n]["1"] # NoFile => file[n]["1"].call # d
               /\ \A j \in Listener :
                    /\ listener'[j].pc # "wait" => listener'[j].claim.call # d
                    /\ j # k => d \notin listener'[j].open
               /\ \A g \in Gateway :
                    gateway[g].pc # "free" /\ gateway[g].call = d =>
                      /\ ~Preparing(g)
                      /\ Awaiting(g) => file[gateway[g].name]["3"].text # "no_request"
                      /\ gateway[g].pc = "clean" => gateway[g].answer # "no_request"
      BY DEF OpenWork
    <2>1. d \in listener[k].open /\ d # c /\ d \in 1..MaxCalls
      BY Known DEF OpenWork
    <2>2. done'[d] = 0
      <3>1. done[d] = 0 /\ (k # l => d \notin listener[l].open)
        BY <2>1 DEF OpenWork
      <3>2. QED
        BY <2>1, <3>1
    <2>3. \A j \in Listener : j # k => d \notin listener'[j].open
      BY <2>1 DEF OpenWork
    <2>4. \A j \in Listener :
            listener'[j].pc # "wait" => listener'[j].claim.call # d
      BY <2>1 DEF OpenWork
    <2>5. QED
      BY <2>1, <2>2, <2>3, <2>4 DEF OpenWork
  <1>22. QED
    BY <1>8, <1>10, <1>11, <1>12, <1>13, <1>14, <1>15, <1>16, <1>17, <1>18,
       <1>19, <1>20, <1>21

\* The request is processed: it is nowhere any more.
LEMMA ProcessStep ==
  ASSUME IInv, NEW l \in Listener, Process(l)
  PROVE  IInv'
  <1> DEFINE c == listener[l].claim.call
  <1>1. /\ listener[l].pc = "process"
        /\ c \in 1..MaxCalls
        /\ done[c] = 0 /\ done \in [1..MaxCalls -> Nat]
        /\ UNCHANGED <<file, gateway, lastCall>>
    <2>1. listener[l].pc = "process" /\ UNCHANGED <<file, gateway, lastCall>>
      BY DEF Process, Listeners
    <2>2. c \in 1..lastCall /\ done[c] = 0
      BY <2>1 DEF IInv, Numbered, NotYetDone, Busy, Working
    <2>3. QED
      BY <2>1, <2>2, Known DEF IInv, RequestTypeOK
  <1>2. PICK text \in {"ok", "error", "no_request"}, open \in {{}, listener[l].open} :
          /\ Result(l, text, open)
          /\ UNCHANGED faults \/ Fault
          /\ \/ text # "no_request" /\ open = {} /\ Commits(l, {c})
             \/ text # "ok" /\ open = {} /\ Commits(l, {})
             \/ text # "ok" /\ UNCHANGED done
    <2>1. CASE \E text \in {"ok", "error"} :
                 Result(l, text, {}) /\ Commits(l, {c}) /\ UNCHANGED faults
      BY <2>1
    <2>2. CASE Result(l, "error", {}) /\ Commits(l, {}) /\ UNCHANGED faults
      BY <2>2
    <2>3. CASE Result(l, "error", {}) /\ UNCHANGED <<done, faults>>
      BY <2>3
    <2>4. CASE Result(l, "no_request", {}) /\ Commits(l, {}) /\ Fault
      BY <2>4
    <2>5. CASE Result(l, "error", listener[l].open) /\ UNCHANGED <<done, faults>>
      BY <2>5
    <2>6. QED
      BY <2>1, <2>2, <2>3, <2>4, <2>5 DEF Process
  <1>3. /\ done' \in [1..MaxCalls -> Nat]
        /\ done'[c] <= 1
        /\ text = "ok" => done'[c] = 1
        /\ text = "no_request" => done'[c] = 0
        /\ \A d \in 1..MaxCalls : d # c =>
             \/ done'[d] = done[d]
             \/ d \in listener[l].open /\ done'[d] = 1 /\ open = {}
    <2>1. CASE text # "no_request" /\ open = {} /\ Commits(l, {c})
      <3>1. {c} \in {{}, {c}} /\ {c} # {}
        OBVIOUS
      <3>2. /\ done' \in [1..MaxCalls -> Nat]
            /\ done'[c] = 1
            /\ \A d \in 1..MaxCalls :
                 d # c => done'[d] = IF d \in listener[l].open THEN 1 ELSE done[d]
        BY <1>1, <2>1, <3>1, CommitsOnce
      <3>3. QED
        BY <1>1, <2>1, <3>2
    <2>2. CASE text # "ok" /\ open = {} /\ Commits(l, {})
      <3>1. {} \in {{}, {c}}
        OBVIOUS
      <3>2. /\ done' \in [1..MaxCalls -> Nat]
            /\ done'[c] = 0
            /\ \A d \in 1..MaxCalls :
                 d # c => done'[d] = IF d \in listener[l].open THEN 1 ELSE done[d]
        BY <1>1, <2>2, <3>1, CommitsOnce
      <3>3. QED
        BY <1>1, <2>2, <3>2
    <2>3. CASE text # "ok" /\ UNCHANGED done
      BY <1>1, <2>3
    <2>4. QED
      BY <1>2, <2>1, <2>2, <2>3
  <1>4. faults' \in 0..MaxFaults
    <2>1. faults \in 0..MaxFaults /\ (UNCHANGED faults \/ Fault)
      BY <1>2 DEF IInv, RequestTypeOK
    <2>2. QED
      BY <2>1, FaultsBounded
  <1> DEFINE data == [listener[l].data EXCEPT !.text = text]
             new == [listener[l] EXCEPT !.data = data, !.pc = "reply", !.open = open]
  <1>5. listener \in ListenerStates
    BY DEF IInv, RequestTypeOK, ListenerStates, ListenerState, Lasts
  <1>6. data \in Content /\ data.text = text
    <2>1. listener[l].data \in Content
      BY <1>5 DEF ListenerStates, ListenerState
    <2>2. QED
      BY <2>1 DEF Content
  <1>7. listener' = [listener EXCEPT ![l] = new]
    <2>1. [listener[l].data EXCEPT !.text = text] = data
      OBVIOUS
    <2>2. QED
      BY <1>2, <1>5, <2>1 DEF Result, ListenerStates
  <1> HIDE DEF data
  <1>8. /\ new \in ListenerState
        /\ new.pc = "reply" /\ new.name = listener[l].name
        /\ new.claim = listener[l].claim /\ new.data = data
        /\ new.last = listener[l].last /\ new.open = open
    <2>1. listener[l] \in ListenerState /\ open \in SUBSET (1..MaxCalls)
      BY <1>5 DEF ListenerStates, ListenerState
    <2>2. QED
      BY <1>6, <2>1 DEF ListenerState
  <1> HIDE DEF new
  <1>9. /\ listener' \in ListenerStates
        /\ listener'[l].pc = "reply" /\ listener'[l].name = listener[l].name
        /\ listener'[l].claim = listener[l].claim
        /\ listener'[l].last = listener[l].last
        /\ listener'[l].open = open
        /\ listener'[l].data.text = text
        /\ \A k \in Listener : k # l => listener'[k] = listener[k]
    BY <1>5, <1>6, <1>7, <1>8, ListenerBecomes
  <1>10. QED
    BY <1>1, <1>2, <1>3, <1>4, <1>9, ProcessedStep

\* A call's number is not 0.
LEMMA NumberOfCall ==
  ASSUME NEW a \in Nat, NEW b \in Nat, a <= b, NEW c \in 1..a
  PROVE  c \in 0..b /\ c # 0
  OBVIOUS

\* What a listener writes is of its claim's call.
LEMMA ReplyContent ==
  ASSUME NEW l \in Listener, listener[l].claim.call \in 1..lastCall,
         lastCall \in Nat, MaxCalls \in Nat, lastCall <= MaxCalls,
         NEW text \in {"none", "request", "request+data", "data", "reply", "ok",
                       "error", "no_request", "empty"}
  PROVE  /\ Reply(l, text) \in Content /\ Reply(l, text) # NoFile
         /\ Reply(l, text).call = listener[l].claim.call
         /\ Reply(l, text).text = text
  <1>1. /\ listener[l].claim.call \in 0..MaxCalls
        /\ listener[l].claim.call # 0
    BY NumberOfCall
  <1>2. QED
    BY <1>1 DEF Reply, Content, NoFile

\* The data that goes back is written.
LEMMA WriteReplyStep ==
  ASSUME IInv, NEW l \in Listener, WriteReply(l)
  PROVE  IInv'
  <1> DEFINE n == listener[l].name
             c == listener[l].claim.call
             reply == Reply(l, "reply")
  <1>1. /\ listener[l].pc = "reply" /\ n \in Name /\ c \in 1..lastCall
    <2>1. listener[l].pc = "reply"
      BY DEF WriteReply
    <2>2. QED
      BY <2>1, Known DEF IInv, NamesKnown, Numbered, Busy
  <1>2. /\ reply \in Content /\ reply # NoFile
        /\ reply.call = c /\ ReplyTo(reply, c)
    BY <1>1, Known DEF Reply, Content, NoFile, ReplyTo
  <1>3. /\ listener' \in ListenerStates
        /\ listener'[l].pc = "response" /\ listener'[l].name = listener[l].name
        /\ listener'[l].claim = listener[l].claim
        /\ listener'[l].data = listener[l].data
        /\ listener'[l].last = listener[l].last /\ listener'[l].open = listener[l].open
        /\ \A k \in Listener : k # l => listener'[k] = listener[k]
    BY ListenerMoves
    DEF WriteReply, IInv, RequestTypeOK, ListenerStates, ListenerState, Lasts
  <1> HIDE DEF reply
  <1>5. /\ file' \in Files
        /\ file'[n]["2"] = reply
        /\ \A m \in Name, y \in Extension :
             m # n \/ y # "2" => file'[m][y] = file[m][y]
    BY <1>1, <1>2, PutFile
    DEF WriteReply, reply, Extension, Files, IInv, RequestTypeOK
  <1>6. UNCHANGED <<gateway, done, lastCall, faults>>
    BY DEF WriteReply, Listeners
  <1> USE DEF IInv, Extension, NamesKnown, Named, Preparing, Awaiting, Busy, Working,
              Answering
  <1>10. RequestTypeOK'
    BY Known, <1>1, <1>2, <1>3, <1>5, <1>6
    DEF RequestTypeOK, GatewayStates, GatewayState, ListenerStates,
        ListenerState, Lasts, Files
  <1>11. Numbered' /\ NamesKnown'
    BY Known, <1>1, <1>2, <1>3, <1>5, <1>6 DEF Numbered
  <1>12. OneGateway' /\ NotRenamed' /\ NothingToDelete'
    BY Known, <1>1, <1>2, <1>3, <1>5, <1>6
    DEF OneGateway, NotRenamed, NothingToDelete
  <1>13. OwnFiles'
    <2>1. ASSUME NEW h \in Gateway, NEW x \in Extension, Named(h)',
                 (file[gateway[h].name][x] # NoFile)'
          PROVE  (file[gateway[h].name][x].call = gateway[h].call)'
      <3>1. CASE gateway[h].name = n
        BY SMTT(30), Known, <2>1, <3>1, <1>1, <1>2, <1>3, <1>5, <1>6
        DEF OwnFiles, OwnListener
      <3>2. CASE gateway[h].name # n
        BY SMTT(30), Known, <2>1, <3>2, <1>1, <1>2, <1>3, <1>5, <1>6
        DEF OwnFiles
      <3>3. QED
        BY <3>1, <3>2
    <2>2. QED
      BY <2>1 DEF OwnFiles
  <1>14. OwnListener'
    BY Known, <1>1, <1>2, <1>3, <1>5, <1>6 DEF OwnListener, OneGateway
  <1>15. OneListener' /\ DataIsRequests' /\ Prepared'
    BY SMTT(30), Known, <1>1, <1>2, <1>3, <1>5, <1>6
    DEF OneListener, DataIsRequests, Prepared, OneGateway
  <1>16. Responded' /\ Responding'
    BY SMTT(30), Known, <1>1, <1>2, <1>3, <1>5, <1>6
    DEF Responded, OneGateway, Responding, OwnListener, OneListener
  <1>17. OneRequest' /\ WithGateway'
    BY SMTT(30), Known, <1>1, <1>2, <1>3, <1>5, <1>6
    DEF OneRequest, WithGateway
  <1>18. NotYetDone' /\ AtMostOnce'
    BY SMTT(30), Known, <1>1, <1>2, <1>3, <1>5, <1>6
    DEF NotYetDone, Numbered, AtMostOnce
  <1>true. ResultIsTrue'
    BY SMTT(30), Known, <1>1, <1>2, <1>3, <1>5, <1>6
    DEF ResultIsTrue, TrueOf, OneGateway, OneListener
  <1>open. OpenWork'
    BY SMTT(30), Known, <1>1, <1>2, <1>3, <1>5, <1>6
    DEF OpenWork, OneGateway, Numbered
  <1>19. QED
    BY <1>10, <1>11, <1>12, <1>13, <1>14, <1>15, <1>16, <1>17, <1>18, <1>true, <1>open

\* The response is there, and has no text yet.
LEMMA CreateResponseStep ==
  ASSUME IInv, NEW l \in Listener, CreateResponse(l)
  PROVE  IInv'
  <1> DEFINE n == listener[l].name
             c == listener[l].claim.call
             reply == Reply(l, "empty")
  <1>1. /\ listener[l].pc = "response" /\ n \in Name /\ c \in 1..lastCall
    <2>1. listener[l].pc = "response"
      BY DEF CreateResponse
    <2>2. QED
      BY <2>1, Known DEF IInv, NamesKnown, Numbered, Busy
  <1>2. /\ reply \in Content /\ reply # NoFile
        /\ reply.call = c /\ reply.text = "empty"
    BY <1>1, Known DEF Reply, Content, NoFile
  <1>3. /\ listener' \in ListenerStates
        /\ listener'[l].pc = "fill" /\ listener'[l].name = listener[l].name
        /\ listener'[l].claim = listener[l].claim
        /\ listener'[l].data = listener[l].data
        /\ listener'[l].last = listener[l].last /\ listener'[l].open = listener[l].open
        /\ \A k \in Listener : k # l => listener'[k] = listener[k]
    BY ListenerMoves
    DEF CreateResponse, IInv, RequestTypeOK, ListenerStates, ListenerState, Lasts
  <1> HIDE DEF reply
  <1>4. /\ file' \in Files
        /\ file'[n]["3"] = reply
        /\ \A m \in Name, y \in Extension :
             m # n \/ y # "3" => file'[m][y] = file[m][y]
    BY <1>1, <1>2, PutFile
    DEF CreateResponse, reply, Extension, Files, IInv, RequestTypeOK
  <1>5. UNCHANGED <<gateway, done, lastCall, faults>>
    BY DEF CreateResponse, Listeners
  <1> USE DEF IInv, Extension, NamesKnown, Named, Preparing, Awaiting, Busy, Working,
              Answering
  <1>10. RequestTypeOK'
    BY Known, <1>1, <1>2, <1>3, <1>4, <1>5
    DEF RequestTypeOK, GatewayStates, GatewayState, ListenerStates,
        ListenerState, Lasts, Files
  <1>11. Numbered' /\ NamesKnown'
    BY Known, <1>1, <1>2, <1>3, <1>4, <1>5 DEF Numbered
  <1>12. OneGateway' /\ NotRenamed' /\ NothingToDelete'
    BY Known, <1>1, <1>2, <1>3, <1>4, <1>5
    DEF OneGateway, NotRenamed, NothingToDelete
  <1>13. OwnFiles'
    <2>1. ASSUME NEW h \in Gateway, NEW x \in Extension, Named(h)',
                 (file[gateway[h].name][x] # NoFile)'
          PROVE  (file[gateway[h].name][x].call = gateway[h].call)'
      <3>1. CASE gateway[h].name = n
        BY SMTT(30), Known, <2>1, <3>1, <1>1, <1>2, <1>3, <1>4, <1>5
        DEF OwnFiles, OwnListener
      <3>2. CASE gateway[h].name # n
        BY Known, <2>1, <3>2, <1>1, <1>2, <1>3, <1>4, <1>5 DEF OwnFiles
      <3>3. QED
        BY <3>1, <3>2
    <2>2. QED
      BY <2>1 DEF OwnFiles
  <1>14. OwnListener'
    BY Known, <1>1, <1>2, <1>3, <1>4, <1>5 DEF OwnListener, OneGateway
  <1>15. OneListener' /\ DataIsRequests' /\ Prepared'
    BY SMTT(30), Known, <1>1, <1>2, <1>3, <1>4, <1>5
    DEF OneListener, DataIsRequests, Prepared, OneGateway
  <1>16. Responded' /\ Responding'
    BY Known, <1>1, <1>2, <1>3, <1>4, <1>5
    DEF Responded, OneGateway, Responding, OneListener
  <1>17. OneRequest' /\ WithGateway'
    BY SMTT(30), Known, <1>1, <1>2, <1>3, <1>4, <1>5 DEF OneRequest, WithGateway
  <1>18. NotYetDone' /\ AtMostOnce'
    BY SMTT(30), Known, <1>1, <1>2, <1>3, <1>4, <1>5
    DEF NotYetDone, Numbered, AtMostOnce
  <1>true. ResultIsTrue'
    BY SMTT(30), Known, <1>1, <1>2, <1>3, <1>4, <1>5
    DEF ResultIsTrue, TrueOf, OneGateway, OneListener
  <1>open. OpenWork'
    BY SMTT(30), Known, <1>1, <1>2, <1>3, <1>4, <1>5
    DEF OpenWork, OneGateway, Numbered
  <1>19. QED
    BY <1>10, <1>11, <1>12, <1>13, <1>14, <1>15, <1>16, <1>17, <1>18, <1>true, <1>open

\* The response has its text, and the listener waits again.
LEMMA FillResponseStep ==
  ASSUME IInv, NEW l \in Listener, FillResponse(l)
  PROVE  IInv'
  <1> DEFINE n == listener[l].name
             c == listener[l].claim.call
             reply == Reply(l, listener[l].data.text)
  <1>1. /\ listener[l].pc = "fill" /\ n \in Name /\ c \in 1..lastCall
    <2>1. listener[l].pc = "fill"
      BY DEF FillResponse
    <2>2. QED
      BY <2>1, Known DEF IInv, NamesKnown, Numbered, Busy
  <1>2. /\ reply \in Content /\ reply # NoFile
        /\ reply.call = c /\ reply.text = listener[l].data.text
    <2>1. listener[l].data.text \in
            {"none", "request", "request+data", "data", "reply", "ok", "error",
             "no_request", "empty"}
      BY DEF IInv, RequestTypeOK, Content
    <2>2. QED
      BY <1>1, <2>1, Known, ReplyContent
  <1>3. /\ listener' \in ListenerStates
        /\ listener'[l].pc = "wait" /\ listener'[l].name = NoName
        /\ listener'[l].last = listener[l].last /\ listener'[l].open = listener[l].open
        /\ \A k \in Listener : k # l => listener'[k] = listener[k]
    BY ListenerAgain
    DEF FillResponse, IInv, RequestTypeOK, ListenerStates, ListenerState, Lasts
  <1> HIDE DEF reply
  <1>4. /\ file' \in Files
        /\ file'[n]["3"] = reply
        /\ \A m \in Name, y \in Extension :
             m # n \/ y # "3" => file'[m][y] = file[m][y]
    BY <1>1, <1>2, PutFile
    DEF FillResponse, reply, Extension, Files, IInv, RequestTypeOK
  <1>5. UNCHANGED <<gateway, done, lastCall, faults>>
    BY DEF FillResponse, Listeners
  <1> USE DEF IInv, Extension, NamesKnown, Named, Preparing, Awaiting, Busy, Working,
              Answering
  <1>10. RequestTypeOK'
    BY Known, <1>1, <1>2, <1>3, <1>4, <1>5
    DEF RequestTypeOK, GatewayStates, GatewayState, ListenerStates,
        ListenerState, Lasts, Files
  <1>11. Numbered' /\ NamesKnown'
    BY SMTT(30), Known, <1>1, <1>2, <1>3, <1>4, <1>5 DEF Numbered
  <1>12. OneGateway' /\ NotRenamed' /\ NothingToDelete'
    BY Known, <1>1, <1>2, <1>3, <1>4, <1>5
    DEF OneGateway, NotRenamed, NothingToDelete
  <1>13. OwnFiles'
    <2>1. ASSUME NEW h \in Gateway, NEW x \in Extension, Named(h)',
                 (file[gateway[h].name][x] # NoFile)'
          PROVE  (file[gateway[h].name][x].call = gateway[h].call)'
      <3>1. CASE gateway[h].name = n
        BY SMTT(30), Known, <2>1, <3>1, <1>1, <1>2, <1>3, <1>4, <1>5
        DEF OwnFiles, OwnListener
      <3>2. CASE gateway[h].name # n
        BY Known, <2>1, <3>2, <1>1, <1>2, <1>3, <1>4, <1>5 DEF OwnFiles
      <3>3. QED
        BY <3>1, <3>2
    <2>2. QED
      BY <2>1 DEF OwnFiles
  <1>14. OwnListener'
    BY Known, <1>1, <1>2, <1>3, <1>4, <1>5 DEF OwnListener, OneGateway
  <1>15. OneListener' /\ DataIsRequests' /\ Prepared'
    BY SMTT(30), Known, <1>1, <1>2, <1>3, <1>4, <1>5
    DEF OneListener, DataIsRequests, Prepared, OneGateway
  <1>16. Responded' /\ Responding'
    BY SMTT(30), Known, <1>1, <1>2, <1>3, <1>4, <1>5
    DEF Responded, OneGateway, Responding, OneListener
  <1>17. OneRequest' /\ WithGateway'
    BY SMTT(30), Known, <1>1, <1>2, <1>3, <1>4, <1>5 DEF OneRequest, WithGateway
  <1>18. NotYetDone' /\ AtMostOnce'
    BY SMTT(30), Known, <1>1, <1>2, <1>3, <1>4, <1>5
    DEF NotYetDone, Numbered, AtMostOnce
  <1>true. ResultIsTrue'
    BY SMTT(30), Known, <1>1, <1>2, <1>3, <1>4, <1>5
    DEF ResultIsTrue, TrueOf, OneGateway, OneListener
  <1>open. OpenWork'
    <2> SUFFICES ASSUME NEW k \in Listener, NEW d \in listener[k].open
        PROVE  /\ done[d] = 0
               /\ \A m \in Name : file'[m]["1"] # NoFile => file'[m]["1"].call # d
               /\ \A j \in Listener :
                    /\ listener'[j].pc # "wait" => listener'[j].claim.call # d
                    /\ j # k => d \notin listener'[j].open
               /\ \A g \in Gateway :
                    gateway[g].pc # "free" /\ gateway[g].call = d =>
                      /\ ~Preparing(g)
                      /\ Awaiting(g) => file'[gateway[g].name]["3"].text # "no_request"
                      /\ gateway[g].pc = "clean" => gateway[g].answer # "no_request"
      BY <1>3, <1>5 DEF OpenWork
    <2>1. d # c
      BY <1>1 DEF OpenWork
    <2>2. /\ done[d] = 0
          /\ \A m \in Name : file'[m]["1"] # NoFile => file'[m]["1"].call # d
      BY <1>1, <1>4 DEF OpenWork
    <2>3. \A j \in Listener :
            /\ listener'[j].pc # "wait" => listener'[j].claim.call # d
            /\ j # k => d \notin listener'[j].open
      BY <1>3 DEF OpenWork
    <2>4. ASSUME NEW g \in Gateway, gateway[g].pc # "free", gateway[g].call = d
          PROVE  /\ ~Preparing(g)
                 /\ Awaiting(g) => file'[gateway[g].name]["3"].text # "no_request"
                 /\ gateway[g].pc = "clean" => gateway[g].answer # "no_request"
      <3>1. Awaiting(g) => gateway[g].name # n
        BY <1>1, <2>1, <2>4 DEF OwnListener
      <3>2. Awaiting(g) => gateway[g].name \in Name
        BY Known
      <3>3. Awaiting(g) => file'[gateway[g].name]["3"] = file[gateway[g].name]["3"]
        BY <1>4, <3>1, <3>2
      <3>4. QED
        BY <2>4, <3>3 DEF OpenWork
    <2>5. QED
      BY <2>2, <2>3, <2>4
  <1>19. QED
    BY <1>10, <1>11, <1>12, <1>13, <1>14, <1>15, <1>16, <1>17, <1>18, <1>true, <1>open

\* Files are deleted only under names that no gateway has.
LEMMA DeleteOldFilesStep ==
  ASSUME IInv, DeleteOldFiles
  PROVE  IInv'
  <1>1. PICK n \in Name :
          \/ Exists(n, "4") /\ Delete(n, {"4", "2", "3"})
          \/ /\ \E x \in Extension : Exists(n, x)
             /\ ~\E g \in Gateway : gateway[g].name = n
             /\ ~\E l \in Listener : listener[l].name = n
             /\ Delete(n, Extension)
    BY DEF DeleteOldFiles
  <1>2. /\ \A g \in Gateway : gateway[g].name # n
        /\ n # NoName /\ file \in Files
    BY <1>1, Known DEF Exists, IInv, NothingToDelete, Named, RequestTypeOK, Files
  <1>3. PICK X \in SUBSET Extension : Delete(n, X) /\ "2" \in X
    <2>1. {"4", "2", "3"} \in SUBSET Extension /\ Extension \in SUBSET Extension
      BY DEF Extension
    <2>2. "2" \in Extension
      BY DEF Extension
    <2>3. QED
      BY <1>1, <2>1, <2>2
  <1>4. /\ file' \in Files
        /\ \A x \in X : file'[n][x] = NoFile
        /\ \A m \in Name, y \in Extension :
             m # n \/ y \notin X => file'[m][y] = file[m][y]
    BY <1>2, <1>3, DeleteFiles
  <1>5. \A m \in Name, x \in Extension :
          file'[m][x] = IF m = n /\ x \in X THEN NoFile ELSE file[m][x]
    BY <1>4
  <1>6. UNCHANGED <<gateway, listener, done, lastCall, faults>>
    BY DEF DeleteOldFiles
  <1> USE DEF IInv, Extension, NamesKnown, Named, Preparing, Awaiting, Busy, Working,
              Answering
  <1>10. RequestTypeOK'
    BY Known, <1>2, <1>3, <1>4, <1>6
    DEF RequestTypeOK, GatewayStates, GatewayState, ListenerStates,
        ListenerState, Lasts, Files
  <1>11. Numbered' /\ NamesKnown'
    BY Known, <1>2, <1>3, <1>4, <1>6 DEF Numbered
  <1>12. OneGateway' /\ NotRenamed' /\ NothingToDelete'
    BY SMTT(30), Known, <1>2, <1>3, <1>4, <1>6
    DEF OneGateway, NotRenamed, NothingToDelete
  <1>13. OwnFiles' /\ OwnListener'
    BY Known, <1>2, <1>3, <1>4, <1>6 DEF OwnFiles, OneGateway, OwnListener
  <1>14. OneListener' /\ DataIsRequests' /\ Prepared'
    BY SMTT(30), Known, <1>2, <1>3, <1>4, <1>6
    DEF OneListener, DataIsRequests, DataOf, Prepared, OneGateway
  <1>15. Responded' /\ Responding'
    BY Known, <1>2, <1>3, <1>4, <1>6 DEF Responded, OneGateway, Responding
  <1>16. OneRequest' /\ WithGateway'
    BY Known, <1>2, <1>3, <1>4, <1>6 DEF OneRequest, WithGateway
  <1>17. NotYetDone' /\ AtMostOnce'
    BY SMTT(30), Known, <1>2, <1>3, <1>4, <1>6
    DEF NotYetDone, Numbered, AtMostOnce
  <1>true. ResultIsTrue'
    BY SMTT(30), Known, <1>2, <1>3, <1>4, <1>6
    DEF ResultIsTrue, TrueOf, OneGateway, OneListener
  <1>open. OpenWork'
    BY SMTT(30), Known, <1>2, <1>3, <1>4, <1>6
    DEF OpenWork, OneGateway, Numbered
  <1>18. QED
    BY <1>10, <1>11, <1>12, <1>13, <1>14, <1>15, <1>16, <1>17, <1>true, <1>open

-----------------------------------------------------------------------------
(* The theorems.                                                           *)

\* There are no calls and no files.
LEMMA InitIInv ==
  ASSUME Init
  PROVE  IInv
  <1>1. RequestTypeOK
    BY RequestAssumption, NoFileContent
    DEF RequestTypeOK, Init, Free, Waiting, NoClaim, NoLast
  <1>2. /\ \A n \in Name, x \in Extension : file[n][x] = NoFile
        /\ \A g \in Gateway : gateway[g].pc = "free" /\ gateway[g].name = NoName
        /\ \A l \in Listener :
             /\ listener[l].pc = "wait" /\ listener[l].name = NoName
             /\ listener[l].last.name = NoName /\ listener[l].open = {}
        /\ \A c \in 1..MaxCalls : done[c] = 0
        /\ DOMAIN done = 1..MaxCalls
    BY DEF Init, Free, Waiting, NoLast
  <1>3. Numbered /\ NamesKnown /\ OneGateway /\ OwnFiles /\ OwnListener
    BY <1>2 DEF Numbered, NamesKnown, OneGateway, OwnFiles, OwnListener, Named, Busy
  <1>4. OneListener /\ NotRenamed /\ DataIsRequests /\ Prepared
    BY <1>2, RequestAssumption
    DEF OneListener, NotRenamed, DataIsRequests, Prepared, Named, Busy, Extension
  <1>5. NothingToDelete /\ Responded /\ Responding
    BY <1>2 DEF NothingToDelete, Responded, Responding, Named, Awaiting
  <1>6. OneRequest /\ WithGateway /\ NotYetDone
    BY <1>2
    DEF OneRequest, WithGateway, NotYetDone, Busy, Working, Preparing, Extension
  <1>7. ResultIsTrue /\ AtMostOnce /\ OpenWork
    BY <1>2 DEF ResultIsTrue, AtMostOnce, OpenWork, Awaiting
  <1>8. QED
    BY <1>1, <1>3, <1>4, <1>5, <1>6, <1>7 DEF IInv

\* Every step keeps every request at one place.
LEMMA NextIInv ==
  ASSUME IInv, [DifferNext]_vars
  PROVE  IInv'
  <1>1. ASSUME NEW g \in Gateway, Call(g) \/ Steps(g) \/ Start(g), DrawsDiffer
        PROVE  IInv'
    <2>1. CASE Call(g)
      BY <2>1, CallStep
    <2>2. CASE ChooseName(g)
      BY <1>1, <2>2, ChooseNameStep
    <2>3. CASE WriteData(g)
      BY <2>3, WriteDataStep
    <2>4. CASE WriteRequest(g)
      BY <2>4, WriteRequestStep
    <2>5. CASE RenameRequest(g)
      BY <2>5, RenameRequestStep
    <2>6. CASE AwaitReceipt(g)
      BY <2>6, AwaitStep DEF AwaitReceipt, Gateways
    <2>7. CASE Start(g)
      BY <2>7, StartStep
    <2>8. CASE GiveUp(g)
      BY <2>8, GiveUpStep
    <2>9. CASE ReadResponse(g)
      BY <2>9, ReadResponseStep
    <2>10. CASE CleanUp(g)
      BY <2>10, CleanUpStep
    <2>11. QED
      BY <1>1, <2>1, <2>2, <2>3, <2>4, <2>5, <2>6, <2>7, <2>8, <2>9, <2>10
      DEF Steps
  <1>2. ASSUME NEW l \in Listener, Serves(l) \/ Fails(l) \/ Crash(l)
        PROVE  IInv'
    <2>1. CASE Claim(l)
      BY <2>1, ClaimStep
    <2>2. CASE GotLink(l)
      BY <2>2, GotLinkStep
    <2>3. CASE ReadData(l)
      BY <2>3, ReadDataStep
    <2>4. CASE Process(l)
      BY <2>4, ProcessStep
    <2>5. CASE WriteReply(l)
      BY <2>5, WriteReplyStep
    <2>6. CASE CreateResponse(l)
      BY <2>6, CreateResponseStep
    <2>7. CASE FillResponse(l)
      BY <2>7, FillResponseStep
    <2>8. CASE Crash(l)
      BY <2>8, CrashStep
    <2>9. CASE Fails(l)
      BY <2>9, FailsStep
    <2>10. QED
      BY <1>2, <2>1, <2>2, <2>3, <2>4, <2>5, <2>6, <2>7, <2>8, <2>9 DEF Serves
  <1>3. CASE DeleteOldFiles
    BY SMTT(30), <1>3, DeleteOldFilesStep
  <1>4. CASE UNCHANGED vars
    BY <1>4
    DEF vars, IInv, RequestTypeOK, Numbered, NamesKnown, OneGateway, OwnFiles,
        OwnListener, OneListener, NotRenamed, DataIsRequests, Prepared,
        NothingToDelete, Responded, Responding, OneRequest, WithGateway,
        NotYetDone, ResultIsTrue, TrueOf, AtMostOnce, OpenWork, Named, Preparing,
        Awaiting, Busy, Working, Answering
  <1>5. QED
    BY <1>1, <1>2, <1>3, <1>4 DEF DifferNext, Next

\* What the three properties rest on holds throughout, as long as no number is
\* drawn that something still goes by.
THEOREM RequestsInvariant == DifferSpec => []IInv
  <1>1. Init => IInv
    BY InitIInv
  <1>2. IInv /\ [DifferNext]_vars => IInv'
    BY NextIInv
  <1>3. QED
    BY <1>1, <1>2, PTL DEF DifferSpec

\* The variables stay in their ranges, on the same assumption.
THEOREM RequestTypeCorrect == DifferSpec => []RequestTypeOK
  <1>1. IInv => RequestTypeOK
    BY DEF IInv
  <1>2. QED
    BY <1>1, RequestsInvariant, PTL

\* As long as no number in use is drawn: the work of a request that was claimed,
\* timed out, sent again, answered with an error, or left in the transaction of
\* a listener that failed, is committed at most once.
THEOREM ProcessedAtMostOnce == DifferSpec => []AtMostOnce
  <1>1. IInv => AtMostOnce
    BY DEF IInv
  <1>2. QED
    BY <1>1, RequestsInvariant, PTL

\* As long as no number in use is drawn: what a gateway is about to read is of
\* its own call, with the reply unless it is an error, and a request is
\* processed with its own data or none.
THEOREM AnswersAreOwn == DifferSpec => []OwnAnswer
  <1>1. IInv => OwnAnswer
    <2> SUFFICES ASSUME IInv PROVE OwnAnswer
      OBVIOUS
    <2>1. ASSUME NEW g \in Gateway, gateway[g].pc = "response",
                 file[gateway[g].name]["3"] # NoFile
          PROVE  /\ file[gateway[g].name]["3"].call = gateway[g].call
                 /\ \/ file[gateway[g].name]["2"] =
                         [call |-> gateway[g].call, text |-> "reply"]
                    \/ /\ file[gateway[g].name]["3"].text = "error"
                       /\ file[gateway[g].name]["2"] \in
                            {NoFile, [call |-> gateway[g].call, text |-> "data"]}
      BY <2>1
      DEF IInv, NamesKnown, Named, OwnFiles, Responded, ReplyTo, DataOf, Awaiting,
          Extension
    <2>2. ASSUME NEW l \in Listener, listener[l].pc = "process"
          PROVE  \/ listener[l].data = NoFile
                 \/ listener[l].data =
                      [call |-> listener[l].claim.call, text |-> "data"]
      BY <2>2 DEF IInv, DataIsRequests, DataOf
    <2>3. QED
      BY <2>1, <2>2 DEF OwnAnswer
  <1>2. QED
    BY <1>1, RequestsInvariant, PTL

\* As long as no number in use is drawn: a call that is told "OK" was committed,
\* and one that is told that there was no request was not.
THEOREM AnswersAreTrue == DifferSpec => []AnswerIsTrue
  <1>1. IInv => AnswerIsTrue
    BY DEF IInv, ResultIsTrue, TrueOf, AnswerIsTrue
  <1>2. QED
    BY <1>1, RequestsInvariant, PTL
=============================================================================
