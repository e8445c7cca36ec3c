------------------------- MODULE RecordLocksProofs -------------------------
(***************************************************************************)
(* Theorems about RecordLocks and, in the second part, about LockTasks,    *)
(* for any connections, keys, tasks and stacking bound.                    *)
(*                                                                         *)
(* MutualExclusion is not inductive: it rests on the server, which the     *)
(* client consults only for keys its cache does not have.  IInv says what  *)
(* ties the two together.                                                  *)
(*                                                                         *)
(* With tasks a call is cut in three, and the cache and the server agree   *)
(* only when no call is in between.  TasksIInv says what is owed           *)
(* meanwhile: on a connection that tasks share, how often a key is still   *)
(* to be unlocked or to be put in the cache; on one of a task of its own,  *)
(* at which calls the cache may be ahead of the server.                    *)
(***************************************************************************)
EXTENDS LockTasks, FiniteSetTheorems, TLAPS

\* The server grants an advisory lock to one session at a time.
ServerExclusive ==
  \A c, d \in Conn, k \in Key :
    k \in ServerHolds(c) /\ k \in ServerHolds(d) => c = d

\* What a usable connection has in its cache it has on the server.
CacheBacked == \A c \in Conn, k \in Key : Owns(c, k) => k \in ServerHolds(c)

\* A connection that is closed left nothing behind for the next one.
ClosedIsFresh ==
  \A c \in Conn : status[c] = "CLOSED" => locks_[c] = {} /\ ~in_transaction_[c]

IInv ==
  /\ TypeOK
  /\ ModeAgrees
  /\ ServerExclusive
  /\ CacheBacked
  /\ ClosedIsFresh

\* The initial state satisfies the inductive invariant.
LEMMA InitIInv == Init => IInv
  BY MaxDepthAssumption
  DEF Init, IInv, TypeOK, ModeAgrees, ServerExclusive, CacheBacked, ClosedIsFresh,
      Owns, Accepts, ServerHolds, NoSession, Status, Result

\* Every call keeps the variables in their ranges.
LEMMA NextTypeOK == TypeOK /\ [Next]_vars => TypeOK'
  <1> SUFFICES ASSUME TypeOK, [Next]_vars PROVE TypeOK'
    OBVIOUS
  <1> USE DEF TypeOK, Result
  <1>1. ASSUME NEW c \in Conn, NEW k \in Key, Lock(c, k) PROVE TypeOK'
    <2>1. CASE LockCached(c, k)
      BY <2>1 DEF LockCached, Return, server
    <2>2. CASE LockGranted(c, k)
      <3>1. CASE in_transaction_[c]
        BY <2>2, <3>1 DEF LockGranted, Return, TryAdvisoryXactLock
      <3>2. CASE ~in_transaction_[c]
        <4>1. session[c][k] + 1 \in 0..MaxDepth
          BY <2>2, <3>2, MaxDepthAssumption DEF LockGranted, TryAdvisoryLock
        <4>2. session' \in [Conn -> [Key -> 0..MaxDepth]]
          <5> DEFINE deeper == [session[c] EXCEPT ![k] = session[c][k] + 1]
          <5>1. deeper \in [Key -> 0..MaxDepth]
            BY <4>1
          <5>2. session' = [session EXCEPT ![c] = deeper]
            BY <2>2, <3>2 DEF LockGranted, TryAdvisoryLock
          <5>3. QED
            BY <5>1, <5>2
        <4>3. QED
          BY <2>2, <3>2, <4>2 DEF LockGranted, TryAdvisoryLock, Return
      <3>3. QED
        BY <3>1, <3>2
    <2>3. CASE LockRefused(c, k)
      BY <2>3 DEF LockRefused, Return, server
    <2>4. CASE LockFails(c, k)
      BY <2>4 DEF LockFails, Return, server
    <2>5. QED
      BY <1>1, <2>1, <2>2, <2>3, <2>4 DEF Lock
  <1>2. ASSUME NEW c \in Conn, NEW k \in Key, Unlock(c, k) PROVE TypeOK'
    <2> DEFINE fewer == IF session[c][k] > 0 THEN session[c][k] - 1 ELSE 0
    <2>1. fewer \in 0..MaxDepth
      BY MaxDepthAssumption
    <2> DEFINE lighter == [session[c] EXCEPT ![k] = fewer]
    <2>2. lighter \in [Key -> 0..MaxDepth]
      BY <2>1
    <2>3. CASE session' = session
      BY <1>2, <2>3 DEF Unlock, Return
    <2>4. CASE session' = [session EXCEPT ![c] = lighter]
      <3>1. session' \in [Conn -> [Key -> 0..MaxDepth]]
        BY <2>2, <2>4
      <3>2. locks_' \in [Conn -> SUBSET Key]
        BY <1>2 DEF Unlock
      <3>3. result' \in Result
        BY <1>2, Zenon DEF Unlock, Return
      <3>4. QED
        BY <1>2, <3>1, <3>2, <3>3 DEF Unlock
    <2>5. session' \in {session, [session EXCEPT ![c] = lighter]}
      BY <1>2 DEF Unlock
    <2>6. QED
      BY <2>3, <2>4, <2>5
  <1>3. ASSUME NEW c \in Conn, Unlockall(c) PROVE TypeOK'
    <2>1. session' \in [Conn -> [Key -> 0..MaxDepth]]
      BY <1>3, MaxDepthAssumption DEF Unlockall, NoSession
    <2>2. result' \in Result
      BY <1>3, Zenon DEF Unlockall, Return
    <2>3. QED
      BY <1>3, <2>1, <2>2 DEF Unlockall, Forget
  <1>4. ASSUME NEW c \in Conn, Begintrans(c) PROVE TypeOK'
    BY <1>4 DEF Begintrans, Return, Status
  <1>5. ASSUME NEW c \in Conn, Rollbacktrans(c) PROVE TypeOK'
    BY <1>5 DEF Rollbacktrans, Return, Forget, EndTransaction, server, Status
  <1>6. ASSUME NEW c \in Conn, Committrans(c) PROVE TypeOK'
    BY <1>6 DEF Committrans, Return, Forget, EndTransaction, server, Status
  <1>7. ASSUME NEW c \in Conn, StatementFails(c) PROVE TypeOK'
    BY <1>7 DEF StatementFails, Return, Status
  <1>8. ASSUME NEW c \in Conn, ConnectionLost(c) PROVE TypeOK'
    BY <1>8, MaxDepthAssumption DEF ConnectionLost, EndSession, NoSession, Status
  <1>9. ASSUME NEW c \in Conn, Disconnect(c) PROVE TypeOK'
    BY <1>9, MaxDepthAssumption
    DEF Disconnect, EndSession, NoSession, Return, Forget, Status
  <1>10. ASSUME NEW c \in Conn, Connect(c) PROVE TypeOK'
    BY <1>10 DEF Connect, Return, Status
  <1>11. CASE UNCHANGED vars
    BY <1>11 DEF vars, server
  <1>12. QED
    BY <1>1, <1>2, <1>3, <1>4, <1>5, <1>6, <1>7, <1>8, <1>9, <1>10, <1>11 DEF Next

\* The part of the invariant that ties the cache to the server.
Tied == ModeAgrees /\ ServerExclusive /\ CacheBacked /\ ClosedIsFresh

\* A step after which c has no lock left in its cache, or is not usable, and
\* no connection has more on the server than before, keeps the cache tied.
LEMMA LosingLocks ==
  ASSUME CacheBacked, ServerExclusive, NEW c \in Conn,
         \A d \in Conn : ServerHolds(d)' \subseteq ServerHolds(d),
         \A d \in Conn \ {c} : /\ ServerHolds(d)' = ServerHolds(d)
                               /\ status'[d] = status[d]
                               /\ locks_'[d] = locks_[d],
         locks_'[c] = {} \/ ~Accepts(c)'
  PROVE  ServerExclusive' /\ CacheBacked'
  <1>1. ServerExclusive'
    BY DEF ServerExclusive
  <1>2. CacheBacked'
    BY DEF CacheBacked, Owns, Accepts
  <1>3. QED
    BY <1>1, <1>2

\* Every call preserves the inductive invariant.
LEMMA NextIInv == IInv /\ [Next]_vars => IInv'
  <1> SUFFICES ASSUME IInv, [Next]_vars PROVE IInv'
    OBVIOUS
  <1>0. TypeOK'
    BY NextTypeOK DEF IInv
  <1>a. TypeOK /\ ModeAgrees /\ ServerExclusive /\ CacheBacked /\ ClosedIsFresh
    BY DEF IInv
  <1>1. ASSUME NEW c \in Conn, NEW k \in Key, Lock(c, k) PROVE Tied'
    <2>1. CASE UNCHANGED <<locks_, in_transaction_, server>>
      BY <1>a, <2>1 DEF Tied, ModeAgrees, ServerExclusive, CacheBacked,
                        ClosedIsFresh, ServerHolds, Owns, Accepts, server
    <2>2. CASE LockGranted(c, k)
      <3>1. /\ in_transaction_' = in_transaction_ /\ status' = status
            /\ Accepts(c) /\ Available(c, k)
            /\ locks_' = [locks_ EXCEPT ![c] = @ \cup {k}]
        BY <2>2 DEF LockGranted, TryAdvisoryLock, TryAdvisoryXactLock
      <3>2. /\ ServerHolds(c)' = ServerHolds(c) \cup {k}
            /\ \A d \in Conn \ {c} : ServerHolds(d)' = ServerHolds(d)
        <4>1. CASE in_transaction_[c]
          <5>1. status[c] = "INTRANS"
            BY <1>a, <3>1, <4>1 DEF ModeAgrees, Accepts
          <5>2. /\ xact' = [xact EXCEPT ![c] = @ \cup {k}]
                /\ session' = session
            BY <2>2, <4>1, <5>1 DEF LockGranted, TryAdvisoryXactLock
          <5>3. QED
            BY <1>a, <5>2 DEF TypeOK, ServerHolds
        <4>2. CASE ~in_transaction_[c]
          <5>1. /\ session' = [session EXCEPT ![c][k] = @ + 1]
                /\ xact' = xact
            BY <2>2, <4>2 DEF LockGranted, TryAdvisoryLock
          <5>2. \A d \in Conn, j \in Key :
                   session'[d][j] = IF d = c /\ j = k THEN session[d][j] + 1
                                                      ELSE session[d][j]
            BY <1>a, <5>1 DEF TypeOK
          <5>3. \A d \in Conn, j \in Key : session[d][j] \in 0..MaxDepth
            BY <1>a DEF TypeOK
          <5>4. QED
            BY <1>a, <5>1, <5>2, <5>3, MaxDepthAssumption DEF ServerHolds
        <4>3. QED
          BY <4>1, <4>2
      <3>3. ServerExclusive'
        BY <1>a, <3>1, <3>2 DEF ServerExclusive, Available
      <3>4. CacheBacked'
        BY <1>a, <3>1, <3>2 DEF CacheBacked, Owns, Accepts, TypeOK
      <3>5. ModeAgrees' /\ ClosedIsFresh'
        BY <1>a, <3>1 DEF ModeAgrees, ClosedIsFresh, Accepts, TypeOK
      <3>6. QED
        BY <3>3, <3>4, <3>5 DEF Tied
    <2>3. QED
      BY <1>1, <2>1, <2>2 DEF Lock, LockCached, LockRefused, LockFails
  <1>2. ASSUME NEW c \in Conn, NEW k \in Key, Unlock(c, k) PROVE Tied'
    <2>1. /\ in_transaction_' = in_transaction_ /\ status' = status /\ xact' = xact
          /\ \A d \in Conn, j \in Key : j \in locks_'[d] => j \in locks_[d]
      BY <1>a, <1>2 DEF Unlock, TypeOK
    <2>2. \A d \in Conn, j \in Key :
             session'[d][j] > 0 <=>
               IF d = c /\ j = k THEN session'[d][j] > 0 ELSE session[d][j] > 0
      <3>1. CASE session' = session
        BY <3>1
      <3>2. CASE session' = [session EXCEPT ![c][k] = IF @ > 0 THEN @ - 1 ELSE 0]
        BY <1>a, <3>2 DEF TypeOK
      <3>3. QED
        BY <1>2, <3>1, <3>2 DEF Unlock
    <2>3. session'[c][k] > 0 => session[c][k] > 0
      <3>1. CASE session' = session
        BY <3>1
      <3>2. CASE session' = [session EXCEPT ![c][k] = IF @ > 0 THEN @ - 1 ELSE 0]
        <4>1. session'[c][k] = IF session[c][k] > 0 THEN session[c][k] - 1 ELSE 0
          BY <1>a, <3>2 DEF TypeOK
        <4>2. session[c][k] \in Nat
          BY <1>a, MaxDepthAssumption DEF TypeOK
        <4>3. QED
          BY <4>1, <4>2
      <3>3. QED
        BY <1>2, <3>1, <3>2 DEF Unlock
    <2>4. session' = session \/ k \notin locks_'[c]
      BY <1>a, <1>2 DEF Unlock, TypeOK
    <2>5. ServerExclusive'
      BY <1>a, <2>1, <2>2, <2>3 DEF ServerExclusive, ServerHolds
    <2>6. CacheBacked'
      BY <1>a, <2>1, <2>2, <2>4 DEF CacheBacked, Owns, Accepts, ServerHolds, TypeOK
    <2>7. ModeAgrees' /\ ClosedIsFresh'
      BY <1>a, <2>1, <1>0 DEF ModeAgrees, ClosedIsFresh, TypeOK
    <2>8. QED
      BY <2>5, <2>6, <2>7 DEF Tied
  <1>3. ASSUME NEW c \in Conn, Unlockall(c) PROVE Tied'
    <2>1. CASE UNCHANGED <<locks_, session>>
      BY <1>a, <1>3, <2>1
      DEF Unlockall, Tied, ModeAgrees, ServerExclusive, CacheBacked, ClosedIsFresh,
          ServerHolds, Owns, Accepts
    <2>2. CASE Forget(c) /\ session' \in {session, [session EXCEPT ![c] = NoSession]}
      <3>1. /\ in_transaction_' = in_transaction_ /\ status' = status
            /\ xact' = xact /\ locks_' = [locks_ EXCEPT ![c] = {}]
        BY <1>3, <2>2 DEF Unlockall, Forget
      <3>2. /\ \A d \in Conn : ServerHolds(d)' \subseteq ServerHolds(d)
            /\ \A d \in Conn \ {c} : ServerHolds(d)' = ServerHolds(d)
        BY <1>a, <2>2, <3>1 DEF ServerHolds, NoSession, TypeOK
      <3>3. ServerExclusive' /\ CacheBacked'
        BY <1>a, <3>1, <3>2, LosingLocks DEF TypeOK
      <3>4. ModeAgrees' /\ ClosedIsFresh'
        BY <1>a, <3>1 DEF ModeAgrees, ClosedIsFresh, TypeOK
      <3>5. QED
        BY <3>3, <3>4 DEF Tied
    <2>3. QED
      BY <1>3, <2>1, <2>2 DEF Unlockall
  <1>4. ASSUME NEW c \in Conn, Begintrans(c) PROVE Tied'
    <2>1. locks_' = locks_ /\ session' = session /\ xact' = xact
      BY <1>4 DEF Begintrans
    <2>2. ServerExclusive'
      BY <1>a, <2>1 DEF ServerExclusive, ServerHolds
    <2>3. \A d \in Conn : Accepts(d)' <=> Accepts(d)
      BY <1>a, <1>4 DEF Begintrans, Accepts, TypeOK
    <2>4. CacheBacked'
      BY <1>a, <2>1, <2>3 DEF CacheBacked, Owns, ServerHolds
    <2>5. ModeAgrees' /\ ClosedIsFresh'
      BY <1>a, <1>4 DEF Begintrans, Accepts, ModeAgrees, ClosedIsFresh, TypeOK
    <2>6. QED
      BY <2>2, <2>4, <2>5 DEF Tied
  <1>5. ASSUME NEW c \in Conn, Connected(c), Forget(c),
               in_transaction_' = [in_transaction_ EXCEPT ![c] = FALSE],
               EndTransaction(c) \/ (status[c] = "UNKNOWN" /\ UNCHANGED server)
        PROVE  Tied'
    <2>1. /\ \A d \in Conn : ServerHolds(d)' \subseteq ServerHolds(d)
          /\ \A d \in Conn \ {c} : /\ ServerHolds(d)' = ServerHolds(d)
                                   /\ status'[d] = status[d]
      BY <1>a, <1>5 DEF EndTransaction, server, ServerHolds, TypeOK
    <2>2. /\ locks_'[c] = {} /\ ~in_transaction_'[c]
          /\ \A d \in Conn \ {c} : locks_'[d] = locks_[d]
          /\ \A d \in Conn \ {c} : in_transaction_'[d] = in_transaction_[d]
      BY <1>a, <1>5 DEF Forget, TypeOK
    <2>3. status'[c] \in {"IDLE", "UNKNOWN"}
      BY <1>a, <1>5 DEF EndTransaction, server, TypeOK
    <2>4. ServerExclusive' /\ CacheBacked'
      BY <1>a, <2>1, <2>2, LosingLocks
    <2>5. ModeAgrees' /\ ClosedIsFresh'
      BY <1>a, <2>1, <2>2, <2>3 DEF ModeAgrees, ClosedIsFresh
    <2>6. QED
      BY <2>4, <2>5 DEF Tied
  <1>6. ASSUME NEW c \in Conn, Rollbacktrans(c) PROVE Tied'
    <2>1. CASE status[c] # "UNKNOWN"
      BY <1>5, <1>6, <2>1 DEF Rollbacktrans
    <2>2. CASE status[c] = "UNKNOWN"
      BY <1>a, <1>6, <2>2
      DEF Rollbacktrans, Tied, ModeAgrees, ServerExclusive, CacheBacked,
          ClosedIsFresh, ServerHolds, Owns, Accepts, server
    <2>3. QED
      BY <2>1, <2>2
  <1>7. ASSUME NEW c \in Conn, Committrans(c) PROVE Tied'
    BY <1>5, <1>7 DEF Committrans
  <1>8. ASSUME NEW c \in Conn, StatementFails(c) PROVE Tied'
    <2>1. /\ locks_' = locks_ /\ in_transaction_' = in_transaction_
          /\ status[c] = "INTRANS" /\ status' = [status EXCEPT ![c] = "INERROR"]
          /\ xact' = [xact EXCEPT ![c] = {}] /\ session' = session
      BY <1>8 DEF StatementFails
    <2>2. /\ \A d \in Conn : ServerHolds(d)' \subseteq ServerHolds(d)
          /\ \A d \in Conn \ {c} : ServerHolds(d)' = ServerHolds(d)
      BY <1>a, <2>1 DEF ServerHolds, TypeOK
    <2>3. ServerExclusive' /\ CacheBacked'
      BY <1>a, <2>1, <2>2, LosingLocks DEF TypeOK, Accepts
    <2>4. ModeAgrees' /\ ClosedIsFresh'
      BY <1>a, <2>1 DEF ModeAgrees, ClosedIsFresh, TypeOK
    <2>5. QED
      BY <2>3, <2>4 DEF Tied
  <1>9. ASSUME NEW c \in Conn, NEW s \in {"UNKNOWN", "CLOSED"}, EndSession(c, s),
               \/ s = "UNKNOWN" /\ UNCHANGED <<locks_, in_transaction_>>
               \/ /\ Forget(c)
                  /\ in_transaction_' = [in_transaction_ EXCEPT ![c] = FALSE]
        PROVE  Tied'
    <2>1. /\ status' = [status EXCEPT ![c] = s]
          /\ ServerHolds(c)' = {}
          /\ \A d \in Conn \ {c} : ServerHolds(d)' = ServerHolds(d)
      BY <1>a, <1>9 DEF EndSession, NoSession, ServerHolds, TypeOK
    <2>2. \A d \in Conn \ {c} : /\ locks_'[d] = locks_[d]
                                /\ in_transaction_'[d] = in_transaction_[d]
      BY <1>a, <1>9 DEF Forget, TypeOK
    <2>3. ServerExclusive' /\ CacheBacked'
      BY <1>a, <2>1, <2>2, LosingLocks DEF TypeOK, Accepts
    <2>4. s = "CLOSED" => locks_'[c] = {} /\ ~in_transaction_'[c]
      BY <1>a, <1>9 DEF Forget, TypeOK
    <2>5. ModeAgrees' /\ ClosedIsFresh'
      BY <1>a, <2>1, <2>2, <2>4 DEF ModeAgrees, ClosedIsFresh, TypeOK
    <2>6. QED
      BY <2>3, <2>5 DEF Tied
  <1>10. ASSUME NEW c \in Conn, ConnectionLost(c) PROVE Tied'
    BY <1>9, <1>10 DEF ConnectionLost
  <1>11. ASSUME NEW c \in Conn, Disconnect(c) PROVE Tied'
    BY <1>9, <1>11 DEF Disconnect
  <1>12. ASSUME NEW c \in Conn, Connect(c) PROVE Tied'
    <2>1. /\ UNCHANGED <<locks_, in_transaction_, session, xact>>
          /\ status[c] = "CLOSED" /\ status' = [status EXCEPT ![c] = "IDLE"]
      BY <1>12 DEF Connect
    <2>2. QED
      BY <1>a, <2>1 DEF Tied, ModeAgrees, ServerExclusive, CacheBacked,
                        ClosedIsFresh, ServerHolds, Owns, Accepts, TypeOK
  <1>13. ASSUME UNCHANGED <<locks_, in_transaction_, server>> PROVE Tied'
    BY <1>a, <1>13 DEF Tied, ModeAgrees, ServerExclusive, CacheBacked,
                      ClosedIsFresh, ServerHolds, Owns, Accepts, server
  <1>14. Tied'
    <2>1. CASE Next
      BY <2>1, <1>1, <1>2, <1>3, <1>4, <1>6, <1>7, <1>8, <1>10, <1>11, <1>12, Zenon
      DEF Next
    <2>2. CASE UNCHANGED vars
      BY <2>2, <1>13 DEF vars
    <2>3. QED
      BY <2>1, <2>2
  <1>15. QED
    BY <1>0, <1>14 DEF IInv, Tied

\* The inductive invariant holds in every state of every behaviour.
THEOREM Invariance == Spec => []IInv
  BY InitIInv, NextIInv, PTL DEF Spec

\* Type correctness of the lock caches and of the server's lock table.
THEOREM TypeCorrect == Spec => []TypeOK
  <1>1. IInv => TypeOK
    BY DEF IInv
  <1>2. QED
    BY <1>1, Invariance, PTL

\* var::lock never lets two usable connections own the same record, however
\* many connections and keys there are.
THEOREM LockIsExclusive == Spec => []MutualExclusion
  <1>1. IInv => MutualExclusion
    BY DEF IInv, MutualExclusion, CacheBacked, ServerExclusive
  <1>2. QED
    BY <1>1, Invariance, PTL

\* The transaction flag of a live connection agrees with the server, so that
\* lock() always takes the kind of lock that lasts as long as it should.
THEOREM TransactionFlagAgrees == Spec => []ModeAgrees
  <1>1. IInv => ModeAgrees
    BY DEF IInv
  <1>2. QED
    BY <1>1, Invariance, PTL
-----------------------------------------------------------------------------
(* Transactions keep their locks.                                          *)

\* A call that leaves the transaction open takes none of its locks away.
LEMMA StepKeepsLocks ==
  ASSUME IInv, IInv', Next, NEW c \in Conn,
         status[c] = "INTRANS", status'[c] = "INTRANS"
  PROVE  /\ locks_[c] \subseteq locks_'[c]
         /\ ServerHolds(c) \subseteq ServerHolds(c)'
  <1> DEFINE Kept == /\ locks_[c] \subseteq locks_'[c]
                     /\ ServerHolds(c) \subseteq ServerHolds(c)'
  <1>a. TypeOK /\ in_transaction_[c]
    BY DEF IInv, ModeAgrees
  <1>1. ASSUME NEW d \in Conn, NEW k \in Key, Lock(d, k) PROVE Kept
    <2>1. CASE UNCHANGED <<locks_, server>>
      BY <2>1 DEF server, ServerHolds
    <2>2. CASE LockGranted(d, k)
      <3>1. locks_' = [locks_ EXCEPT ![d] = @ \cup {k}]
        BY <2>2 DEF LockGranted
      <3>2. \/ session' = session /\ xact' \in {xact, [xact EXCEPT ![d] = @ \cup {k}]}
            \/ c # d /\ xact' = xact /\ session'[c] = session[c]
        BY <1>a, <2>2 DEF LockGranted, TryAdvisoryLock, TryAdvisoryXactLock, TypeOK
      <3>3. QED
        BY <1>a, <3>1, <3>2 DEF TypeOK, ServerHolds
    <2>3. QED
      BY <1>1, <2>1, <2>2 DEF Lock, LockCached, LockRefused, LockFails
  <1>2. ASSUME NEW d \in Conn, NEW k \in Key, Unlock(d, k) PROVE Kept
    <2>1. xact' = xact
      BY <1>2 DEF Unlock
    <2>2. CASE d = c
      BY <1>a, <1>2, <2>1, <2>2 DEF Unlock, ServerHolds
    <2>3. CASE d # c
      <3>1. locks_'[c] = locks_[c] /\ session'[c] = session[c]
        BY <1>a, <1>2, <2>3 DEF Unlock, TypeOK
      <3>2. QED
        BY <2>1, <3>1 DEF ServerHolds
    <2>4. QED
      BY <2>2, <2>3
  <1>3. ASSUME NEW d \in Conn, Unlockall(d) PROVE Kept
    <2>1. xact' = xact
      BY <1>3 DEF Unlockall
    <2>2. CASE d = c
      BY <1>a, <1>3, <2>1, <2>2 DEF Unlockall, ServerHolds
    <2>3. CASE d # c
      <3>1. locks_'[c] = locks_[c] /\ session'[c] = session[c]
        BY <1>a, <1>3, <2>3 DEF Unlockall, Forget, TypeOK
      <3>2. QED
        BY <2>1, <3>1 DEF ServerHolds
    <2>4. QED
      BY <2>2, <2>3
  <1>4. ASSUME NEW d \in Conn, Begintrans(d) PROVE Kept
    BY <1>4 DEF Begintrans, ServerHolds
  <1>5. ASSUME NEW d \in Conn, Rollbacktrans(d) PROVE Kept
    BY <1>a, <1>5 DEF Rollbacktrans, Forget, EndTransaction, ServerHolds, server, TypeOK
  <1>6. ASSUME NEW d \in Conn, Committrans(d) PROVE Kept
    BY <1>a, <1>6 DEF Committrans, Forget, EndTransaction, ServerHolds, server, TypeOK
  <1>7. ASSUME NEW d \in Conn, StatementFails(d) PROVE Kept
    BY <1>a, <1>7 DEF StatementFails, ServerHolds, TypeOK
  <1>8. ASSUME NEW d \in Conn, ConnectionLost(d) PROVE Kept
    BY <1>a, <1>8 DEF ConnectionLost, EndSession, ServerHolds, TypeOK
  <1>9. ASSUME NEW d \in Conn, Disconnect(d) PROVE Kept
    BY <1>a, <1>9 DEF Disconnect, EndSession, Forget, ServerHolds, TypeOK
  <1>10. ASSUME NEW d \in Conn, Connect(d) PROVE Kept
    BY <1>10 DEF Connect, ServerHolds
  <1>11. QED
    BY <1>1, <1>2, <1>3, <1>4, <1>5, <1>6, <1>7, <1>8, <1>9, <1>10, Zenon DEF Next

\* The locks of a transaction stay with it until it ends, in the client's
\* cache and on the server, whatever this or another connection calls.
THEOREM TransactionLocksLast == Spec => TransactionKeepsLocks
  <1> DEFINE Keeps == \A c \in Conn :
                        status[c] = "INTRANS" /\ status'[c] = "INTRANS" =>
                          /\ locks_[c] \subseteq locks_'[c]
                          /\ ServerHolds(c) \subseteq ServerHolds(c)'
  <1>1. IInv /\ IInv' /\ [Next]_vars => [Keeps]_vars
    <2>1. SUFFICES ASSUME IInv, IInv', Next PROVE Keeps
      BY Zenon
    <2>2. QED
      BY <2>1, StepKeepsLocks, Zenon
  <1>2. QED
    BY <1>1, Invariance, PTL DEF Spec, TransactionKeepsLocks

-----------------------------------------------------------------------------
(* Refinement of LockService.                                              *)

\* Whoever owns a lock is the owner that LockService sees.
LEMMA OwnerIsOwner ==
  ASSUME MutualExclusion, NEW k \in Key
  PROVE  /\ \A c \in Conn : Owns(c, k) => Owner[k] = c
         /\ (\A c \in Conn : ~Owns(c, k)) => Owner[k] = NoConn
  BY DEF Owner, MutualExclusion

\* When only c's ownership changes and c loses locks, LockService releases.
LEMMA LossIsRelease ==
  ASSUME MutualExclusion, MutualExclusion', NEW c \in Conn,
         \A d \in Conn \ {c}, k \in Key : Owns(d, k)' <=> Owns(d, k),
         \A k \in Key : Owns(c, k)' => Owns(c, k)
  PROVE  Service!Next
  <1> DEFINE Released == {k \in Key : Owns(c, k) /\ ~Owns(c, k)'}
  <1>1. \A k \in Released : Owner[k] = c
    BY OwnerIsOwner
  <1>2. \A k \in Key : Owner'[k] = IF k \in Released THEN NoConn ELSE Owner[k]
    <2>1. TAKE k \in Key
    <2>2. CASE k \in Released
      <3>1. \A d \in Conn : ~Owns(d, k)'
        BY <2>2 DEF MutualExclusion
      <3>2. QED
        BY <2>2, <3>1 DEF Owner
    <2>3. CASE k \notin Released
      <3>1. \A d \in Conn : Owns(d, k)' <=> Owns(d, k)
        BY <2>3
      <3>2. Owner'[k] = Owner[k]
        BY <3>1 DEF Owner
      <3>3. QED
        BY <2>3, <3>2
    <2>4. QED
      BY <2>2, <2>3
  <1>3. Owner' = [k \in Key |-> IF k \in Released THEN NoConn ELSE Owner[k]]
    BY <1>2 DEF Owner
  <1>4. Service!Release(c, Released)
    BY <1>1, <1>3 DEF Service!Release
  <1>5. QED
    BY <1>4 DEF Service!Next

\* When only c's ownership changes and c gains k, LockService acquires.
LEMMA GainIsAcquire ==
  ASSUME MutualExclusion, MutualExclusion', NEW c \in Conn, NEW k \in Key,
         \A d \in Conn, j \in Key :
            Owns(d, j)' <=> Owns(d, j) \/ (d = c /\ j = k),
         \A d \in Conn : ~Owns(d, k)
  PROVE  Service!Acquire(c, k)
  <1>1. Owner[k] = NoConn
    BY OwnerIsOwner
  <1>2. Owner'[k] = c
    BY DEF Owner, MutualExclusion
  <1>3. \A j \in Key \ {k} : Owner'[j] = Owner[j]
    <2>1. TAKE j \in Key \ {k}
    <2>2. \A d \in Conn : Owns(d, j)' <=> Owns(d, j)
      OBVIOUS
    <2>3. QED
      BY <2>2 DEF Owner
  <1>4. Owner' = [Owner EXCEPT ![k] = c]
    BY <1>2, <1>3 DEF Owner
  <1>5. QED
    BY <1>1, <1>4 DEF Service!Acquire
\* A step in which every connection owns what it owned stutters.
LEMMA SameOwnership ==
  ASSUME \A d \in Conn, k \in Key : Owns(d, k)' <=> Owns(d, k)
  PROVE  Owner' = Owner
  <1>1. \A k \in Key : Owner'[k] = Owner[k]
    BY DEF Owner
  <1>2. QED
    BY <1>1 DEF Owner

\* Every call is an acquisition, a release or a stutter of LockService.
LEMMA StepRefines ==
  ASSUME IInv, IInv', [Next]_vars
  PROVE  [Service!Next]_Owner
  <1>a. TypeOK /\ ModeAgrees /\ ServerExclusive /\ CacheBacked /\ ClosedIsFresh
    BY DEF IInv
  <1>b. MutualExclusion /\ MutualExclusion'
    BY DEF IInv, MutualExclusion, CacheBacked, ServerExclusive
  <1>l. ASSUME NEW c \in Conn,
               \A d \in Conn \ {c} : locks_'[d] = locks_[d] /\ status'[d] = status[d],
               \/ locks_'[c] \subseteq locks_[c] /\ (Accepts(c)' => Accepts(c))
               \/ locks_'[c] = {}
               \/ ~Accepts(c)'
        PROVE  [Service!Next]_Owner
    <2>1. \A d \in Conn \ {c}, k \in Key : Owns(d, k)' <=> Owns(d, k)
      BY <1>l DEF Owns, Accepts
    <2>2. \A k \in Key : Owns(c, k)' => Owns(c, k)
      BY <1>l DEF Owns
    <2>3. QED
      BY <1>b, <2>1, <2>2, LossIsRelease
  <1>1. ASSUME NEW c \in Conn, NEW k \in Key, Lock(c, k) PROVE [Service!Next]_Owner
    <2>1. CASE UNCHANGED <<locks_, server>>
      BY <2>1, SameOwnership DEF server, Owns, Accepts
    <2>2. CASE LockGranted(c, k)
      <3>1. /\ locks_' = [locks_ EXCEPT ![c] = @ \cup {k}]
            /\ status' = status /\ Accepts(c) /\ Available(c, k) /\ k \notin locks_[c]
        BY <2>2 DEF LockGranted, TryAdvisoryLock, TryAdvisoryXactLock
      <3>2. \A d \in Conn, j \in Key :
               Owns(d, j)' <=> Owns(d, j) \/ (d = c /\ j = k)
        BY <1>a, <3>1 DEF Owns, Accepts, TypeOK
      <3>3. \A d \in Conn : ~Owns(d, k)
        BY <1>a, <3>1 DEF CacheBacked, Available, Owns
      <3>4. QED
        BY <1>b, <3>2, <3>3, GainIsAcquire DEF Service!Next
    <2>3. QED
      BY <1>1, <2>1, <2>2 DEF Lock, LockCached, LockRefused, LockFails
  <1>2. ASSUME NEW c \in Conn, NEW k \in Key, Unlock(c, k) PROVE [Service!Next]_Owner
    <2>1. /\ \A d \in Conn \ {c} : locks_'[d] = locks_[d]
          /\ status' = status /\ locks_'[c] \subseteq locks_[c]
      BY <1>a, <1>2 DEF Unlock, TypeOK
    <2>2. QED
      BY <1>l, <2>1 DEF Accepts
  <1>3. ASSUME NEW c \in Conn, Unlockall(c) PROVE [Service!Next]_Owner
    <2>1. /\ \A d \in Conn \ {c} : locks_'[d] = locks_[d]
          /\ status' = status /\ locks_'[c] \subseteq locks_[c]
      BY <1>a, <1>3 DEF Unlockall, Forget, TypeOK
    <2>2. QED
      BY <1>l, <2>1 DEF Accepts
  <1>4. ASSUME NEW c \in Conn, Begintrans(c) PROVE [Service!Next]_Owner
    BY <1>a, <1>4, SameOwnership DEF Begintrans, Owns, Accepts, TypeOK
  <1>5. ASSUME NEW c \in Conn, Rollbacktrans(c) PROVE [Service!Next]_Owner
    <2>1. CASE UNCHANGED <<locks_, server>>
      BY <2>1, SameOwnership DEF server, Owns, Accepts
    <2>2. CASE EndTransaction(c) /\ Forget(c)
      <3>1. /\ \A d \in Conn \ {c} : locks_'[d] = locks_[d] /\ status'[d] = status[d]
            /\ locks_'[c] = {}
        BY <1>a, <2>2 DEF EndTransaction, Forget, TypeOK
      <3>2. QED
        BY <1>l, <3>1
    <2>3. QED
      BY <1>5, <2>1, <2>2 DEF Rollbacktrans
  <1>6. ASSUME NEW c \in Conn, Committrans(c) PROVE [Service!Next]_Owner
    <2>1. /\ \A d \in Conn \ {c} : locks_'[d] = locks_[d] /\ status'[d] = status[d]
          /\ locks_'[c] = {}
      BY <1>a, <1>6 DEF Committrans, EndTransaction, Forget, server, TypeOK
    <2>2. QED
      BY <1>l, <2>1
  <1>7. ASSUME NEW c \in Conn, StatementFails(c) PROVE [Service!Next]_Owner
    <2>1. /\ \A d \in Conn \ {c} : locks_'[d] = locks_[d] /\ status'[d] = status[d]
          /\ ~Accepts(c)'
      BY <1>a, <1>7 DEF StatementFails, Accepts, TypeOK
    <2>2. QED
      BY <1>l, <2>1
  <1>8. ASSUME NEW c \in Conn, ConnectionLost(c) PROVE [Service!Next]_Owner
    <2>1. /\ \A d \in Conn \ {c} : locks_'[d] = locks_[d] /\ status'[d] = status[d]
          /\ ~Accepts(c)'
      BY <1>a, <1>8 DEF ConnectionLost, EndSession, Accepts, TypeOK
    <2>2. QED
      BY <1>l, <2>1
  <1>9. ASSUME NEW c \in Conn, Disconnect(c) PROVE [Service!Next]_Owner
    <2>1. /\ \A d \in Conn \ {c} : locks_'[d] = locks_[d] /\ status'[d] = status[d]
          /\ locks_'[c] = {}
      BY <1>a, <1>9 DEF Disconnect, EndSession, Forget, TypeOK
    <2>2. QED
      BY <1>l, <2>1
  <1>10. ASSUME NEW c \in Conn, Connect(c) PROVE [Service!Next]_Owner
    <2>1. \A d \in Conn, k \in Key : Owns(d, k)' <=> Owns(d, k)
      BY <1>a, <1>10 DEF Connect, ClosedIsFresh, Owns, Accepts, TypeOK
    <2>2. QED
      BY <2>1, SameOwnership
  <1>11. CASE UNCHANGED vars
    BY <1>11, SameOwnership DEF vars, server, Owns, Accepts
  <1>12. CASE Next
    BY <1>12, <1>1, <1>2, <1>3, <1>4, <1>5, <1>6, <1>7, <1>8, <1>9, <1>10, Zenon DEF Next
  <1>13. QED
    BY <1>11, <1>12

\* The lock and transaction calls implement LockService: one owner at a time,
\* who alone can give the lock up.
THEOREM RefinesLockService == Spec => ImplementsLockService
  <1>1. Init => Service!Init
    BY DEF Init, Service!Init, Owner, Owns
  <1>2. IInv /\ IInv' /\ [Next]_vars => [Service!Next]_Owner
    BY StepRefines
  <1>3. QED
    BY <1>1, <1>2, Invariance, PTL DEF Spec, ImplementsLockService, Service!Spec
-----------------------------------------------------------------------------
(* The discipline of the TODO: no transaction begins with a lock cached.   *)

\* Session locks are cached, do not stack, and never coexist with a
\* transaction; a connection that is lost or closed has none.
SessionTied ==
  \A c \in Conn, k \in Key :
    session[c][k] > 0 =>
      /\ session[c][k] = 1
      /\ k \in locks_[c]
      /\ ~in_transaction_[c]
      /\ status[c] = "IDLE"

DInv == IInv /\ SessionTied

\* A disciplined step is a step.
LEMMA DisciplinedIsNext == DisciplinedNext => Next
  BY Zenon DEF DisciplinedNext, Next

\* A step preserves SessionTied if it leaves a connection's cache, flag and
\* session locks as they are, or leaves it without session locks.
LEMMA SessionTiedStep ==
  ASSUME SessionTied,
         \A c \in Conn :
           \/ session'[c] = NoSession
           \/ /\ session'[c] = session[c]
              /\ in_transaction_'[c] = in_transaction_[c]
              /\ locks_[c] \subseteq locks_'[c]
              /\ status'[c] = status[c]
  PROVE  SessionTied'
  BY DEF SessionTied, NoSession

\* Without session locks there is nothing to tie.
LEMMA NoneHeld ==
  ASSUME TypeOK, NEW c \in Conn, \A k \in Key : ~(session[c][k] > 0)
  PROVE  session[c] = NoSession
  BY MaxDepthAssumption DEF TypeOK, NoSession

\* Disciplined calls preserve the stronger invariant.
LEMMA DisciplinedDInv == DInv /\ [DisciplinedNext]_vars => DInv'
  <1> SUFFICES ASSUME DInv, [DisciplinedNext]_vars PROVE DInv'
    OBVIOUS
  <1>a. IInv' /\ TypeOK /\ TypeOK' /\ SessionTied /\ ModeAgrees
    <2>1. [Next]_vars
      BY DisciplinedIsNext
    <2>2. QED
      BY <2>1, NextIInv DEF DInv, IInv
  <1>b. ASSUME NEW c \in Conn, in_transaction_[c] \/ status[c] # "IDLE" \/ locks_[c] = {}
        PROVE  session[c] = NoSession
    BY <1>a, <1>b, NoneHeld DEF SessionTied
  <1>1. ASSUME NEW c \in Conn, NEW k \in Key, Lock(c, k) PROVE SessionTied'
    <2>1. CASE UNCHANGED <<locks_, in_transaction_, server>>
      BY <1>a, <2>1 DEF SessionTied, server
    <2>2. CASE LockGranted(c, k) /\ in_transaction_[c]
      BY <1>a, <2>2, SessionTiedStep DEF LockGranted, TryAdvisoryXactLock, TypeOK
    <2>3. CASE LockGranted(c, k) /\ ~in_transaction_[c]
      <3>1. /\ k \notin locks_[c] /\ locks_' = [locks_ EXCEPT ![c] = @ \cup {k}]
            /\ session' = [session EXCEPT ![c][k] = @ + 1]
            /\ in_transaction_' = in_transaction_ /\ status' = status
            /\ status[c] = "IDLE"
        BY <1>a, <2>3 DEF LockGranted, TryAdvisoryLock, Accepts, ModeAgrees
      <3>2. session[c][k] = 0
        BY <1>a, <3>1, MaxDepthAssumption DEF SessionTied, TypeOK
      <3>3. \A d \in Conn, j \in Key :
               session'[d][j] = IF d = c /\ j = k THEN 1 ELSE session[d][j]
        BY <1>a, <3>1, <3>2 DEF TypeOK
      <3>4. QED
        BY <1>a, <2>3, <3>1, <3>3 DEF SessionTied, TypeOK
    <2>4. QED
      BY <1>1, <2>1, <2>2, <2>3 DEF Lock, LockCached, LockRefused, LockFails
  <1>2. ASSUME NEW c \in Conn, NEW k \in Key, Unlock(c, k) PROVE SessionTied'
    <2>1. CASE UNCHANGED <<locks_, session>>
      BY <1>a, <1>2, <2>1 DEF Unlock, SessionTied
    <2>2. CASE ~Accepts(c)
      <3>1. session[c] = NoSession
        BY <1>b, <2>2 DEF Accepts
      <3>2. session' = session
        BY <1>2, <2>2 DEF Unlock
      <3>3. QED
        BY <1>a, <1>2, <3>1, <3>2, SessionTiedStep DEF Unlock, TypeOK
    <2>3. CASE Accepts(c) /\ ~in_transaction_[c] /\ k \in locks_[c]
      <3>1. /\ in_transaction_' = in_transaction_ /\ status' = status
            /\ locks_' = [locks_ EXCEPT ![c] = @ \ {k}]
            /\ session' = [session EXCEPT ![c][k] = IF @ > 0 THEN @ - 1 ELSE 0]
        BY <1>2, <2>3 DEF Unlock
      <3>2. session[c][k] \in {0, 1}
        BY <1>a, MaxDepthAssumption DEF SessionTied, TypeOK
      <3>3. \A d \in Conn, j \in Key :
               session'[d][j] = IF d = c /\ j = k THEN 0 ELSE session[d][j]
        <4>1. (IF session[c][k] > 0 THEN session[c][k] - 1 ELSE 0) = 0
          BY <3>2
        <4>2. QED
          BY <1>a, <3>1, <4>1 DEF TypeOK
      <3>4. QED
        BY <1>a, <3>1, <3>3 DEF SessionTied, TypeOK
    <2>4. QED
      BY <1>2, <2>1, <2>2, <2>3 DEF Unlock
  <1>3. ASSUME NEW c \in Conn, Unlockall(c) PROVE SessionTied'
    <2>1. CASE UNCHANGED <<locks_, session>>
      BY <1>a, <1>3, <2>1 DEF Unlockall, SessionTied
    <2>2. CASE ~in_transaction_[c] /\ Forget(c)
      <3>1. session'[c] = NoSession
        <4>1. CASE Accepts(c) /\ locks_[c] # {}
          BY <1>a, <1>3, <2>2, <4>1 DEF Unlockall, TypeOK
        <4>2. CASE ~Accepts(c) \/ locks_[c] = {}
          <5>1. session[c] = NoSession
            BY <1>b, <4>2 DEF Accepts
          <5>2. session' = session
            BY <1>3, <2>2, <4>2 DEF Unlockall
          <5>3. QED
            BY <5>1, <5>2
        <4>3. QED
          BY <4>1, <4>2
      <3>2. /\ in_transaction_' = in_transaction_ /\ status' = status
            /\ \A d \in Conn \ {c} : /\ session'[d] = session[d]
                                     /\ locks_'[d] = locks_[d]
        BY <1>a, <1>3, <2>2 DEF Unlockall, Forget, TypeOK
      <3>3. QED
        BY <1>a, <3>1, <3>2, SessionTiedStep
    <2>3. QED
      BY <1>3, <2>1, <2>2 DEF Unlockall
  <1>4. ASSUME NEW c \in Conn, in_transaction_[c] \/ locks_[c] = {}, Begintrans(c)
        PROVE  SessionTied'
    <2>1. session'[c] = NoSession
      BY <1>b, <1>4 DEF Begintrans
    <2>2. QED
      BY <1>a, <1>4, <2>1, SessionTiedStep DEF Begintrans, TypeOK
  <1>5. ASSUME NEW c \in Conn, in_transaction_[c], Rollbacktrans(c) \/ Committrans(c)
        PROVE  SessionTied'
    <2>1. session'[c] = NoSession
      BY <1>b, <1>5 DEF Rollbacktrans, Committrans, EndTransaction, server
    <2>2. /\ session' = session
          /\ \A d \in Conn \ {c} : /\ in_transaction_'[d] = in_transaction_[d]
                                   /\ locks_'[d] = locks_[d]
                                   /\ status'[d] = status[d]
      BY <1>a, <1>5
      DEF Rollbacktrans, Committrans, EndTransaction, Forget, server, TypeOK
    <2>3. QED
      BY <1>a, <2>1, <2>2, SessionTiedStep
  <1>6. ASSUME NEW c \in Conn, StatementFails(c) PROVE SessionTied'
    <2>1. session'[c] = NoSession
      BY <1>b, <1>6 DEF StatementFails
    <2>2. QED
      BY <1>a, <1>6, <2>1, SessionTiedStep DEF StatementFails, TypeOK
  <1>7. ASSUME NEW c \in Conn, ConnectionLost(c) \/ Disconnect(c) PROVE SessionTied'
    <2>1. session'[c] = NoSession
      BY <1>a, <1>7 DEF ConnectionLost, Disconnect, EndSession, TypeOK
    <2>2. QED
      BY <1>a, <1>7, <2>1, SessionTiedStep
      DEF ConnectionLost, Disconnect, EndSession, Forget, TypeOK
  <1>8. ASSUME NEW c \in Conn, Connect(c) PROVE SessionTied'
    <2>1. session'[c] = NoSession
      BY <1>b, <1>8 DEF Connect
    <2>2. QED
      BY <1>a, <1>8, <2>1, SessionTiedStep DEF Connect, TypeOK
  <1>9. CASE DisciplinedNext
    <2>1. SessionTied'
      BY <1>9, <1>1, <1>2, <1>3, <1>4, <1>5, <1>6, <1>7, <1>8, Zenon DEF DisciplinedNext
    <2>2. QED
      BY <1>a, <2>1 DEF DInv
  <1>10. CASE UNCHANGED vars
    BY <1>a, <1>10 DEF DInv, SessionTied, vars, server
  <1>11. QED
    BY <1>9, <1>10

\* If no transaction begins while a lock is cached, and none is ended that
\* was not begun, then every session lock can be released and none stacks up.
THEOREM DisciplineSuffices ==
  DisciplinedSpec => [](SessionLocksReleasable /\ LocksDoNotStack)
  <1>1. Init => DInv
    BY InitIInv DEF Init, DInv, SessionTied, NoSession
  <1>2. DInv => SessionLocksReleasable /\ LocksDoNotStack
    BY MaxDepthAssumption
    DEF DInv, IInv, TypeOK, SessionTied, SessionLocksReleasable, LocksDoNotStack
  <1>3. QED
    BY <1>1, <1>2, DisciplinedDInv, PTL DEF DisciplinedSpec

-----------------------------------------------------------------------------
(* Locks under tasks (LockTasks): while tasks that share a connection only *)
(* lock and unlock, a task is never told that it has a lock that the       *)
(* server does not have for it, and two connections are never told that    *)
(* they have the same one.                                                 *)

\* A mutex is with a task of its connection.
MutexOfOwn == \A c \in Conn : mutex_[c] # NoFiber => ConnOf[mutex_[c]] = c

\* A statement is there while its call is in progress, not otherwise; a task
\* that is alone need not wait for the mutex.
StatementOfCall(f) ==
  /\ IF pc[f] = "idle" THEN stmt[f] = NoStatement ELSE stmt[f] \in Statement
  /\ Alone(f) => pc[f] # "wait"

\* No transaction is ever on a connection that tasks share.
SharedHasNoTransaction(f) ==
  ~Alone(f) =>
    /\ ~in_transaction_[ConnOf[f]]
    /\ status[ConnOf[f]] \in {"IDLE", "UNKNOWN"}
    /\ stmt[f].sql \in {"none", "lock", "unlock"}

\* The fibers of c that will release the session lock k or put it in the
\* cache, and NoFiber for the cache that has it.
Owing(c, k) ==
  {f \in Fiber :
     /\ ConnOf[f] = c /\ pc[f] # "idle" /\ stmt[f].key = k
     /\ \/ stmt[f].sql = "unlock" /\ pc[f] \in {"wait", "sent"}
        \/ stmt[f].sql = "lock" /\ pc[f] = "done" /\ ok[f]}

Debts(c, k) == Owing(c, k) \cup {g \in {NoFiber} : k \in locks_[c]}

\* The server has a session lock as often as that.
DebtsCovered(f) ==
  ~Alone(f) /\ Accepts(ConnOf[f]) =>
    \A k \in Key : Cardinality(Debts(ConnOf[f], k)) <= session[ConnOf[f]][k]

\* On the connection of a task of its own the cache is ahead of the server
\* only during a rollbacktrans(), unless the server does not execute anything.
AloneIsBacked(f) ==
  Alone(f) /\ Accepts(ConnOf[f]) /\ stmt[f].sql # "rollback" =>
    locks_[ConnOf[f]] \subseteq ServerHolds(ConnOf[f])

\* What such a call has made of the cache before its statement, and what it
\* knows of the server after it.
AloneKnows(f) ==
  Alone(f) =>
    LET c == ConnOf[f] IN
    /\ stmt[f].sql = "unlock" /\ pc[f] = "sent" => stmt[f].key \notin locks_[c]
    /\ stmt[f].sql \in {"unlock_all", "end"} => locks_[c] = {}
    /\ stmt[f].sql \in {"lock", "xact_lock"} /\ pc[f] = "done" /\ ok[f] =>
         stmt[f].key \in ServerHolds(c)
    /\ stmt[f].sql = "xact_lock" => in_transaction_[c]
    /\ stmt[f].sql = "end" => ~in_transaction_[c]
    /\ stmt[f].sql # "rollback" /\ in_transaction_[c] => status[c] # "IDLE"
    /\ stmt[f].sql = "rollback" /\ pc[f] = "done" /\ ~ok[f] => ~Accepts(c)

TaskInv(f) ==
  /\ StatementOfCall(f) /\ SharedHasNoTransaction(f) /\ DebtsCovered(f)
  /\ AloneIsBacked(f) /\ AloneKnows(f)

TasksIInv ==
  TasksTypeOK /\ ServerExclusive /\ MutexOfOwn /\ \A f \in Fiber : TaskInv(f)

-----------------------------------------------------------------------------
(* Statements.                                                             *)

\* A statement about one key, and one about none.
LEMMA StatementFor ==
  ASSUME NEW o \in {"lock", "xact_lock", "unlock"}, NEW k \in Key
  PROVE  [sql |-> o, key |-> k] \in Statement
  BY DEF Statement

LEMMA StatementAlone ==
  ASSUME NEW o \in {"unlock_all", "begin", "rollback", "end"}
  PROVE  [sql |-> o] \in Statement
  BY DEF Statement

LEMMA KeyOf ==
  ASSUME NEW s \in Statement
  PROVE  /\ s.sql \in {"lock", "xact_lock", "unlock", "unlock_all", "begin",
                       "rollback", "end"}
         /\ s.sql \in {"lock", "xact_lock", "unlock"} => s.key \in Key
  BY DEF Statement

LEMMA NoStatementIs == NoStatement.sql = "none"
  BY DEF NoStatement

\* Who shares a connection is not alone.
LEMMA Sharing ==
  ASSUME NEW f \in Fiber, NEW g \in Fiber, f # g, ConnOf[f] = ConnOf[g]
  PROVE  ~Alone(f) /\ ~Alone(g)
  BY DEF Alone

-----------------------------------------------------------------------------
(* Counting.                                                               *)

LEMMA Counts ==
  ASSUME NEW S, S \subseteq Fiber \cup {NoFiber}
  PROVE  IsFiniteSet(S) /\ Cardinality(S) \in Nat
  <1>1. IsFiniteSet(Fiber \cup {NoFiber})
    BY FiberAssumption, FS_AddElement
  <1>2. QED
    BY <1>1, FS_Subset, FS_CardinalityType

LEMMA CountsOrdered ==
  ASSUME NEW S, S \subseteq Fiber \cup {NoFiber}, NEW T, T \subseteq S
  PROVE  Cardinality(T) <= Cardinality(S)
  BY Counts, FS_Subset

LEMMA CountsOneMore ==
  ASSUME NEW S, S \subseteq Fiber \cup {NoFiber}, NEW x \in Fiber \cup {NoFiber},
         NEW T, T \subseteq S \cup {x}
  PROVE  Cardinality(T) <= Cardinality(S) + 1
  <1>1. CASE x \in S
    BY <1>1, Counts, CountsOrdered
  <1>2. CASE x \notin S
    <2>1. Cardinality(S \cup {x}) = Cardinality(S) + 1
      BY <1>2, Counts, FS_AddElement
    <2>2. QED
      BY <2>1, CountsOrdered
  <1>3. QED
    BY <1>1, <1>2

LEMMA CountsOneFewer ==
  ASSUME NEW S, S \subseteq Fiber \cup {NoFiber}, NEW x \in S,
         NEW T, T \subseteq S \ {x}
  PROVE  Cardinality(T) + 1 <= Cardinality(S)
  <1>1. IsFiniteSet(S) /\ Cardinality(S) \in Nat /\ S # {}
    BY Counts
  <1>2. Cardinality(S \ {x}) = Cardinality(S) - 1
    BY <1>1, FS_RemoveElement
  <1>3. /\ Cardinality(T) <= Cardinality(S \ {x})
        /\ Cardinality(T) \in Nat /\ Cardinality(S \ {x}) \in Nat
    BY Counts, CountsOrdered
  <1>4. QED
    BY <1>1, <1>2, <1>3

\* One goes and another comes.
LEMMA CountsAsBefore ==
  ASSUME NEW S, S \subseteq Fiber \cup {NoFiber}, NEW x \in S,
         NEW y \in Fiber \cup {NoFiber}, NEW T, T \subseteq (S \ {x}) \cup {y}
  PROVE  Cardinality(T) <= Cardinality(S)
  <1>1. /\ Cardinality(T) <= Cardinality(S \ {x}) + 1
        /\ Cardinality(S \ {x}) + 1 <= Cardinality(S)
    BY CountsOneMore, CountsOneFewer
  <1>2. Cardinality(T) \in Nat /\ Cardinality(S \ {x}) \in Nat /\ Cardinality(S) \in Nat
    BY Counts
  <1>3. QED
    BY <1>1, <1>2

LEMMA DebtsTyped ==
  ASSUME NEW c, NEW k
  PROVE  /\ Debts(c, k) \subseteq Fiber \cup {NoFiber}
         /\ Debts(c, k)' \subseteq Fiber \cup {NoFiber}
         /\ Cardinality(Debts(c, k)) \in Nat /\ Cardinality(Debts(c, k)') \in Nat
  <1>1. Debts(c, k) \subseteq Fiber \cup {NoFiber}
    BY DEF Debts, Owing
  <1>2. Debts(c, k)' \subseteq Fiber \cup {NoFiber}
    BY DEF Debts, Owing
  <1>3. QED
    BY <1>1, <1>2, Counts

-----------------------------------------------------------------------------
(* A step of one task leaves the other connections and tasks alone.        *)

OnlyOf(f) ==
  /\ \A g \in Fiber \ {f} : pc'[g] = pc[g] /\ stmt'[g] = stmt[g] /\ ok'[g] = ok[g]
  /\ \A d \in Conn \ {ConnOf[f]} :
       /\ locks_'[d] = locks_[d] /\ in_transaction_'[d] = in_transaction_[d]
       /\ status'[d] = status[d] /\ session'[d] = session[d] /\ xact'[d] = xact[d]
       /\ mutex_'[d] = mutex_[d]
  /\ mutex_'[ConnOf[f]] \in {NoFiber, f, mutex_[ConnOf[f]]}

\* So the invariant is lost at its own connection or nowhere.
LEMMA StepOfOne ==
  ASSUME TasksIInv, NEW f \in Fiber, OnlyOf(f), TasksTypeOK', TaskInv(f)',
         \A k \in ServerHolds(ConnOf[f])' :
           k \in ServerHolds(ConnOf[f]) \/ Available(ConnOf[f], k)
  PROVE  TasksIInv'
  <1> DEFINE c == ConnOf[f]
  <1>0. c \in Conn /\ \A g \in Fiber : ConnOf[g] \in Conn
    BY FiberAssumption
  <1>1. ServerExclusive'
    <2>1. \A d \in Conn \ {c} : ServerHolds(d)' = ServerHolds(d)
      BY DEF OnlyOf, ServerHolds
    <2>2. QED
      BY <1>0, <2>1 DEF TasksIInv, ServerExclusive, Available
  <1>2. MutexOfOwn'
    BY <1>0 DEF TasksIInv, MutexOfOwn, OnlyOf
  <1>3. ASSUME NEW g \in Fiber, g # f, ConnOf[g] = c PROVE TaskInv(g)'
    <2>1. ~Alone(f) /\ ~Alone(g)
      BY <1>3, Sharing
    <2>2. pc'[g] = pc[g] /\ stmt'[g] = stmt[g] /\ TaskInv(g)
      BY <1>3 DEF OnlyOf, TasksIInv
    <2>3. StatementOfCall(g)' /\ SharedHasNoTransaction(g)'
      BY <1>3, <2>1, <2>2 DEF TaskInv, StatementOfCall, SharedHasNoTransaction
    <2>4. DebtsCovered(g)'
      BY <1>3, <2>1 DEF TaskInv, DebtsCovered
    <2>5. QED
      BY <2>1, <2>3, <2>4 DEF TaskInv, AloneIsBacked, AloneKnows
  <1>4. ASSUME NEW g \in Fiber, ConnOf[g] # c PROVE TaskInv(g)'
    <2> DEFINE d == ConnOf[g]
    <2>1. /\ pc'[g] = pc[g] /\ stmt'[g] = stmt[g] /\ ok'[g] = ok[g]
          /\ locks_'[d] = locks_[d] /\ in_transaction_'[d] = in_transaction_[d]
          /\ status'[d] = status[d] /\ session'[d] = session[d]
          /\ ServerHolds(d)' = ServerHolds(d) /\ Accepts(d)' = Accepts(d)
      BY <1>0, <1>4 DEF OnlyOf, ServerHolds, Accepts
    <2>2. TaskInv(g)
      BY DEF TasksIInv
    <2>3. ASSUME NEW k PROVE Debts(d, k)' = Debts(d, k)
      <3>1. \A h \in Fiber : ConnOf[h] = d =>
              pc'[h] = pc[h] /\ stmt'[h] = stmt[h] /\ ok'[h] = ok[h]
        BY <1>4 DEF OnlyOf
      <3>2. Owing(d, k)' = Owing(d, k)
        BY <3>1 DEF Owing
      <3>3. QED
        BY <2>1, <3>2 DEF Debts
    <2>4. StatementOfCall(g)' /\ SharedHasNoTransaction(g)'
      BY <2>1, <2>2 DEF TaskInv, StatementOfCall, SharedHasNoTransaction
    <2>5. DebtsCovered(g)'
      BY <2>1, <2>2, <2>3 DEF TaskInv, DebtsCovered
    <2>6. AloneIsBacked(g)' /\ AloneKnows(g)'
      BY <2>1, <2>2 DEF TaskInv, AloneIsBacked, AloneKnows
    <2>7. QED
      BY <2>4, <2>5, <2>6 DEF TaskInv
  <1>5. \A g \in Fiber : TaskInv(g)'
    BY <1>3, <1>4
  <1>6. QED
    BY <1>1, <1>2, <1>5 DEF TasksIInv

-----------------------------------------------------------------------------
(* The pieces that steps are made of.                                      *)

\* The part of the type invariant about calls.
FibersTyped ==
  /\ mutex_ \in [Conn -> Fiber \cup {NoFiber}]
  /\ pc \in [Fiber -> {"idle", "wait", "sent", "done"}]
  /\ stmt \in [Fiber -> Statement \cup {NoStatement}]
  /\ ok \in [Fiber -> BOOLEAN]
  /\ \A f \in Fiber : pc[f] \in {"sent", "done"} <=> mutex_[ConnOf[f]] = f

\* What a step makes of the calls: p, s and a are what it makes of its own.
Moves(f, p, s, a) ==
  /\ FibersTyped'
  /\ pc'[f] = p /\ stmt'[f] = s /\ ok'[f] = a
  /\ \A g \in Fiber \ {f} : pc'[g] = pc[g] /\ stmt'[g] = stmt[g] /\ ok'[g] = ok[g]
  /\ \A d \in Conn \ {ConnOf[f]} : mutex_'[d] = mutex_[d]
  /\ mutex_'[ConnOf[f]] \in {NoFiber, f, mutex_[ConnOf[f]]}

LEMMA AskMoves ==
  ASSUME TasksIInv, NEW f \in Fiber, NEW s \in Statement, Ask(f, s)
  PROVE  \/ Moves(f, "sent", s, ok[f])
         \/ Moves(f, "wait", s, ok[f]) /\ ~Alone(f)
  <1> USE FiberAssumption DEF Ask, Send, Moves, FibersTyped
  <1>1. FibersTyped /\ MutexOfOwn
    BY DEF TasksIInv, TasksTypeOK
  <1>2. CASE mutex_[ConnOf[f]] = NoFiber
    BY <1>1, <1>2
  <1>3. CASE mutex_[ConnOf[f]] # NoFiber
    <2>1. mutex_[ConnOf[f]] \in Fiber /\ ConnOf[mutex_[ConnOf[f]]] = ConnOf[f]
      BY <1>1, <1>3 DEF MutexOfOwn
    <2>2. mutex_[ConnOf[f]] # f
      BY <1>1
    <2>3. ~Alone(f)
      BY <2>1, <2>2, Sharing
    <2>4. QED
      BY <1>1, <1>3, <2>3
  <1>4. QED
    BY <1>2, <1>3

LEMMA RunMoves ==
  ASSUME TasksIInv, NEW f \in Fiber, NEW a \in BOOLEAN, Run(f, a)
  PROVE  Moves(f, "done", stmt[f], a) /\ pc[f] = "sent" /\ stmt[f] \in Statement
  <1>1. FibersTyped /\ StatementOfCall(f)
    BY DEF TasksIInv, TasksTypeOK, FibersTyped, TaskInv
  <1>2. QED
    BY <1>1, FiberAssumption DEF Run, Moves, FibersTyped, StatementOfCall

LEMMA FinishMoves ==
  ASSUME TasksIInv, NEW f \in Fiber, Finish(f)
  PROVE  Moves(f, "idle", NoStatement, FALSE) /\ pc[f] = "done" /\ stmt[f] \in Statement
  <1>1. FibersTyped /\ StatementOfCall(f)
    BY DEF TasksIInv, TasksTypeOK, FibersTyped, TaskInv
  <1>2. QED
    BY <1>1, FiberAssumption DEF Finish, Moves, FibersTyped, StatementOfCall

\* A session lock is stacked, and unstacked.
LEMMA Deeper ==
  ASSUME TypeOK, NEW c \in Conn, NEW k \in Key, TryAdvisoryLock(c, k)
  PROVE  /\ session' \in [Conn -> [Key -> 0..MaxDepth]]
         /\ \A d \in Conn, j \in Key :
              session'[d][j] = IF d = c /\ j = k THEN session[d][j] + 1
                                                 ELSE session[d][j]
         /\ \A d \in Conn \ {c} : session'[d] = session[d]
  <1> DEFINE deeper == [session[c] EXCEPT ![k] = session[c][k] + 1]
  <1>1. session[c][k] + 1 \in 0..MaxDepth
    BY MaxDepthAssumption DEF TryAdvisoryLock, TypeOK
  <1>2. deeper \in [Key -> 0..MaxDepth]
    BY <1>1 DEF TypeOK
  <1>3. session' = [session EXCEPT ![c] = deeper]
    BY DEF TryAdvisoryLock
  <1>4. QED
    BY <1>2, <1>3 DEF TypeOK

LEMMA Lighter ==
  ASSUME TypeOK, NEW c \in Conn, NEW k \in Key,
         session' = [session EXCEPT ![c][k] = IF @ > 0 THEN @ - 1 ELSE 0]
  PROVE  /\ session' \in [Conn -> [Key -> 0..MaxDepth]]
         /\ \A d \in Conn, j \in Key :
              session'[d][j] = IF d = c /\ j = k /\ session[d][j] > 0
                               THEN session[d][j] - 1 ELSE session[d][j]
         /\ \A d \in Conn \ {c} : session'[d] = session[d]
  <1> DEFINE fewer == IF session[c][k] > 0 THEN session[c][k] - 1 ELSE 0
             lighter == [session[c] EXCEPT ![k] = fewer]
  <1>1. session[c][k] \in 0..MaxDepth
    BY DEF TypeOK
  <1>2. fewer \in 0..MaxDepth
    BY <1>1, MaxDepthAssumption
  <1>3. lighter \in [Key -> 0..MaxDepth]
    BY <1>2 DEF TypeOK
  <1>4. session' = [session EXCEPT ![c] = lighter]
    OBVIOUS
  <1>5. fewer = IF session[c][k] > 0 THEN session[c][k] - 1 ELSE session[c][k]
    BY <1>1, MaxDepthAssumption
  <1>6. QED
    BY <1>3, <1>4, <1>5 DEF TypeOK

-----------------------------------------------------------------------------
(* The steps.                                                              *)

\* The connection is of no use any more, and its calls fail.
LEMMA LosingConnection ==
  ASSUME TasksIInv, NEW c \in Conn, Lost(c) \/ Fails(c)
  PROVE  TasksIInv'
  <1> USE DEF StatementFails
  <1>0. /\ TypeOK /\ FibersTyped /\ ServerExclusive /\ MutexOfOwn
        /\ \A g \in Fiber : ConnOf[g] \in Conn /\ TaskInv(g)
    BY FiberAssumption DEF TasksIInv, TasksTypeOK, FibersTyped
  <1>1. /\ UNCHANGED <<mutex_, pc, stmt, locks_, in_transaction_>>
        /\ status'[c] \in {"UNKNOWN", "INERROR"} /\ ~Accepts(c)'
        /\ \A d \in Conn \ {c} : /\ status'[d] = status[d] /\ session'[d] = session[d]
                                 /\ xact'[d] = xact[d]
        /\ \A g \in Fiber : ok'[g] = ok[g] \/ (ok'[g] = FALSE /\ ConnOf[g] = c)
        /\ TypeOK'
    <2>1. CASE Lost(c)
      <3>1. /\ status' = [status EXCEPT ![c] = "UNKNOWN"]
            /\ session' = [session EXCEPT ![c] = NoSession]
            /\ xact' = [xact EXCEPT ![c] = {}]
            /\ UNCHANGED <<mutex_, pc, stmt, locks_, in_transaction_, result>>
        BY <2>1 DEF Lost, ConnectionLost, EndSession
      <3>2. NoSession \in [Key -> 0..MaxDepth]
        BY MaxDepthAssumption DEF NoSession
      <3>3. \A g \in Fiber : ok'[g] = ok[g] \/ (ok'[g] = FALSE /\ ConnOf[g] = c)
        <4>1. ok' = [g \in Fiber |-> ok[g] /\ ConnOf[g] # c]
          BY <2>1 DEF Lost
        <4>2. ASSUME NEW g \in Fiber PROVE ok[g] \in BOOLEAN
          BY <1>0 DEF FibersTyped
        <4>3. ASSUME NEW g \in Fiber
              PROVE  ok'[g] = ok[g] \/ (ok'[g] = FALSE /\ ConnOf[g] = c)
          <5>1. ok'[g] = (ok[g] /\ ConnOf[g] # c)
            BY <4>1
          <5>2. QED
            BY <4>2, <5>1, Zenon
        <4>4. QED
          BY <4>3
      <3>4. TypeOK'
        BY <1>0, <3>1, <3>2 DEF TypeOK, Status
      <3>5. QED
        BY <1>0, <3>1, <3>3, <3>4 DEF Accepts, TypeOK
    <2>2. CASE Fails(c)
      BY <1>0, <2>2 DEF Fails, Return, fibers, TypeOK, Accepts, Status, Result
    <2>3. QED
      BY <2>1, <2>2
  <1>2. ok' \in [Fiber -> BOOLEAN]
    BY <1>0, ZenonT(60) DEF Lost, Fails, fibers, FibersTyped
  <1>3. TasksTypeOK'
    BY <1>0, <1>1, <1>2, ZenonT(60) DEF TasksTypeOK, FibersTyped
  <1>4. \A d \in Conn : ServerHolds(d)' \subseteq ServerHolds(d)
    <2>1. \A d \in Conn \ {c} : ServerHolds(d)' = ServerHolds(d)
      BY <1>1 DEF ServerHolds
    <2>2. ServerHolds(c)' \subseteq ServerHolds(c)
      BY <1>0
      DEF Lost, ConnectionLost, EndSession, NoSession, Fails, ServerHolds,
          TypeOK
    <2>3. QED
      BY <2>1, <2>2
  <1>5. ServerExclusive' /\ MutexOfOwn'
    BY <1>0, <1>1, <1>4 DEF ServerExclusive, MutexOfOwn
  <1>6. ASSUME NEW g \in Fiber, ConnOf[g] = c PROVE TaskInv(g)'
    <2>1. StatementOfCall(g)'
      BY <1>0, <1>1 DEF TaskInv, StatementOfCall
    <2>2. SharedHasNoTransaction(g)'
      <3>1. CASE Lost(c)
        BY <1>0, <1>1, <1>6, <3>1
        DEF Lost, ConnectionLost, EndSession, TaskInv, SharedHasNoTransaction, TypeOK
      <3>2. CASE Fails(c)
        BY <1>0, <1>6, <3>2 DEF Fails, TaskInv, SharedHasNoTransaction
      <3>3. QED
        BY <3>1, <3>2
    <2>3. DebtsCovered(g)' /\ AloneIsBacked(g)'
      BY <1>1, <1>6 DEF DebtsCovered, AloneIsBacked
    <2>4. pc[g] = "done" => ~ok'[g]
      <3>1. CASE Lost(c)
        BY <1>6, <3>1 DEF Lost
      <3>2. CASE Fails(c)
        BY <1>0, <1>6, <3>2, FiberAssumption DEF Fails, FibersTyped
      <3>3. QED
        BY <3>1, <3>2
    <2>5. AloneKnows(g)'
      BY <1>0, <1>1, <1>6, <2>4 DEF TaskInv, AloneKnows
    <2>6. QED
      BY <2>1, <2>2, <2>3, <2>5 DEF TaskInv
  <1>7. ASSUME NEW g \in Fiber, ConnOf[g] # c PROVE TaskInv(g)'
    <2> DEFINE d == ConnOf[g]
    <2>1. /\ pc'[g] = pc[g] /\ stmt'[g] = stmt[g] /\ ok'[g] = ok[g]
          /\ locks_'[d] = locks_[d] /\ in_transaction_'[d] = in_transaction_[d]
          /\ status'[d] = status[d] /\ session'[d] = session[d]
          /\ ServerHolds(d)' = ServerHolds(d) /\ Accepts(d)' = Accepts(d)
      BY <1>0, <1>1, <1>7 DEF ServerHolds, Accepts
    <2>2. ASSUME NEW k PROVE Debts(d, k)' = Debts(d, k)
      <3>1. \A h \in Fiber : ConnOf[h] = d => ok'[h] = ok[h]
        BY <1>1, <1>7
      <3>2. Owing(d, k)' = Owing(d, k)
        BY <1>1, <3>1 DEF Owing
      <3>3. QED
        BY <2>1, <3>2 DEF Debts
    <2>3. StatementOfCall(g)' /\ SharedHasNoTransaction(g)'
      BY <1>0, <2>1 DEF TaskInv, StatementOfCall, SharedHasNoTransaction
    <2>4. DebtsCovered(g)'
      BY <1>0, <2>1, <2>2 DEF TaskInv, DebtsCovered
    <2>5. AloneIsBacked(g)' /\ AloneKnows(g)'
      BY <1>0, <2>1 DEF TaskInv, AloneIsBacked, AloneKnows
    <2>6. QED
      BY <2>3, <2>4, <2>5 DEF TaskInv
  <1>8. QED
    BY <1>3, <1>5, <1>6, <1>7 DEF TasksIInv

LEMMA TasksNextIInv == TasksIInv /\ [ApartNext]_tvars => TasksIInv'
  <1> SUFFICES ASSUME TasksIInv, [ApartNext]_tvars PROVE TasksIInv'
    OBVIOUS
  <1>1. ASSUME NEW f \in Fiber, NEW k \in Key, LockStart(f, k)
        PROVE  TasksIInv'
    <2> DEFINE c == ConnOf[f]
    <2> USE <1>1 DEF LockStart
    <2>0. c \in Conn /\ TaskInv(f) /\ TasksTypeOK /\ TypeOK
      BY FiberAssumption DEF TasksIInv, TasksTypeOK
    <2> DEFINE s == [sql |-> IF in_transaction_[c] THEN "xact_lock" ELSE "lock", key |-> k]
    <2>s. s \in Statement /\ Ask(f, s)
      BY StatementFor
    <2>a. \/ Moves(f, "sent", s, ok[f])
          \/ Moves(f, "wait", s, ok[f]) /\ ~Alone(f)
      BY <2>s, AskMoves
    <2>x. /\ UNCHANGED <<locks_, in_transaction_, status, session, xact, result>>
          /\ pc[f] = "idle" /\ k \notin locks_[c]
          /\ s.sql = IF in_transaction_[c] THEN "xact_lock" ELSE "lock"
      BY DEF Ask, server
    <2> HIDE DEF s
    <2>b. TypeOK'
      BY <2>0, <2>a, <2>x DEF TypeOK
    <2>c. OnlyOf(f) /\ TasksTypeOK'
      BY <2>0, <2>a, <2>b, <2>x
      DEF TasksTypeOK, FibersTyped, Moves, OnlyOf, TypeOK
    <2>d. \A j \in ServerHolds(c)' : j \in ServerHolds(c) \/ Available(c, j)
      BY <2>0, <2>x DEF ServerHolds
    <2>e. StatementOfCall(f)' /\ SharedHasNoTransaction(f)'
      BY <2>0, <2>a, <2>x, <2>s, NoStatementIs
      DEF TaskInv, StatementOfCall, SharedHasNoTransaction, TypeOK, Moves
    <2>f. DebtsCovered(f)'
      <3>1. \A j \in Key : Debts(c, j)' \subseteq Debts(c, j)
        BY <2>0, <2>a, <2>x
        DEF Debts, Owing, TaskInv, StatementOfCall, Moves, TypeOK
      <3>2. \A j \in Key : Cardinality(Debts(c, j)') <= Cardinality(Debts(c, j))
        BY <3>1, DebtsTyped, CountsOrdered
      <3>3. Accepts(c)' = Accepts(c) /\ session' = session
        BY <2>x DEF Accepts
      <3>4. QED
        BY <2>0, <3>2, <3>3, DebtsTyped DEF TaskInv, DebtsCovered, TypeOK
    <2>g. AloneIsBacked(f)'
      BY <2>0, <2>a, <2>x, <2>s, NoStatementIs
      DEF TaskInv, AloneIsBacked, AloneKnows, StatementOfCall, Moves, TypeOK,
          ServerHolds, Accepts
    <2>h. AloneKnows(f)'
      BY <2>0, <2>a, <2>x, <2>s, NoStatementIs
      DEF TaskInv, AloneKnows, StatementOfCall, Moves, TypeOK, ServerHolds,
          Accepts
    <2>i. QED
      BY <2>c, <2>d, <2>e, <2>f, <2>g, <2>h, StepOfOne DEF TaskInv
  <1>2. ASSUME NEW f \in Fiber, NEW k \in Key, UnlockStart(f, k)
        PROVE  TasksIInv'
    <2> DEFINE c == ConnOf[f]
    <2> USE <1>2 DEF UnlockStart
    <2>0. c \in Conn /\ TaskInv(f) /\ TasksTypeOK /\ TypeOK
      BY FiberAssumption DEF TasksIInv, TasksTypeOK
    <2> DEFINE s == [sql |-> "unlock", key |-> k]
    <2>s. s \in Statement /\ Ask(f, s)
      BY StatementFor
    <2>a. \/ Moves(f, "sent", s, ok[f])
          \/ Moves(f, "wait", s, ok[f]) /\ ~Alone(f)
      BY <2>s, AskMoves
    <2>x. /\ UNCHANGED <<in_transaction_, status, session, xact, result>>
          /\ pc[f] = "idle" /\ k \in locks_[c] /\ ~in_transaction_[c]
          /\ locks_' = [locks_ EXCEPT ![c] = @ \ {k}]
          /\ s.sql = "unlock" /\ s.key = k
      BY DEF Ask, server
    <2> HIDE DEF s
    <2>b. TypeOK'
      BY <2>0, <2>a, <2>x DEF TypeOK
    <2>c. OnlyOf(f) /\ TasksTypeOK'
      BY <2>0, <2>a, <2>b, <2>x
      DEF TasksTypeOK, FibersTyped, Moves, OnlyOf, TypeOK
    <2>d. \A j \in ServerHolds(c)' : j \in ServerHolds(c) \/ Available(c, j)
      BY <2>0, <2>x DEF ServerHolds
    <2>e. StatementOfCall(f)' /\ SharedHasNoTransaction(f)'
      BY <2>0, <2>a, <2>x, <2>s, NoStatementIs
      DEF TaskInv, StatementOfCall, SharedHasNoTransaction, TypeOK, Moves
    <2>f. DebtsCovered(f)'
      <3>1. ASSUME NEW j \in Key
            PROVE  Cardinality(Debts(c, j)') <= Cardinality(Debts(c, j))
        <4>1. CASE j = k
          <5>1. NoFiber \in Debts(c, k)
            BY <2>x DEF Debts
          <5>2. Debts(c, k)' \subseteq (Debts(c, k) \ {NoFiber}) \cup {f}
            BY <2>0, <2>a, <2>x, FiberAssumption
            DEF Debts, Owing, Moves, TypeOK
          <5>3. QED
            BY <4>1, <5>1, <5>2, CountsAsBefore, DebtsTyped
        <4>2. CASE j # k
          <5>1. Debts(c, j)' \subseteq Debts(c, j)
            BY <2>0, <2>a, <2>x, <4>2 DEF Debts, Owing, Moves, TypeOK
          <5>2. QED
            BY <5>1, DebtsTyped, CountsOrdered
        <4>3. QED
          BY <4>1, <4>2
      <3>2. Accepts(c)' = Accepts(c) /\ session' = session
        BY <2>x DEF Accepts
      <3>3. QED
        BY <2>0, <3>1, <3>2, DebtsTyped DEF TaskInv, DebtsCovered, TypeOK
    <2>g. AloneIsBacked(f)'
      BY <2>0, <2>a, <2>x, <2>s, NoStatementIs
      DEF TaskInv, AloneIsBacked, AloneKnows, StatementOfCall, Moves, TypeOK,
          ServerHolds, Accepts
    <2>h. AloneKnows(f)'
      BY <2>0, <2>a, <2>x, <2>s, NoStatementIs
      DEF TaskInv, AloneKnows, StatementOfCall, Moves, TypeOK, ServerHolds,
          Accepts
    <2>i. QED
      BY <2>c, <2>d, <2>e, <2>f, <2>g, <2>h, StepOfOne DEF TaskInv
  <1>3. ASSUME NEW f \in Fiber, GetMutex(f)
        PROVE  TasksIInv'
    <2> DEFINE c == ConnOf[f]
    <2> USE <1>3 DEF GetMutex
    <2>0. c \in Conn /\ TaskInv(f) /\ TasksTypeOK /\ TypeOK
      BY FiberAssumption DEF TasksIInv, TasksTypeOK
    <2>a. Moves(f, "sent", stmt[f], ok[f]) /\ ~Alone(f)
      BY <2>0, FiberAssumption
      DEF Send, Moves, TasksTypeOK, FibersTyped, TaskInv, StatementOfCall
    <2>x. UNCHANGED <<locks_, in_transaction_, status, session, xact, result>> /\ pc[f] = "wait"
      BY DEF vars, server
    <2>b. TypeOK'
      BY <2>0, <2>a, <2>x DEF TypeOK
    <2>c. OnlyOf(f) /\ TasksTypeOK'
      BY <2>0, <2>a, <2>b, <2>x
      DEF TasksTypeOK, FibersTyped, Moves, OnlyOf, TypeOK
    <2>d. \A j \in ServerHolds(c)' : j \in ServerHolds(c) \/ Available(c, j)
      BY <2>0, <2>x DEF ServerHolds
    <2>e. StatementOfCall(f)' /\ SharedHasNoTransaction(f)'
      BY <2>0, <2>a, <2>x
      DEF TaskInv, StatementOfCall, SharedHasNoTransaction, TypeOK, Moves
    <2>f. DebtsCovered(f)'
      <3>1. \A j \in Key : Debts(c, j)' \subseteq Debts(c, j)
        BY <2>0, <2>a, <2>x
        DEF Debts, Owing, TaskInv, StatementOfCall, Moves, TypeOK
      <3>2. \A j \in Key : Cardinality(Debts(c, j)') <= Cardinality(Debts(c, j))
        BY <3>1, DebtsTyped, CountsOrdered
      <3>3. Accepts(c)' = Accepts(c) /\ session' = session
        BY <2>x DEF Accepts
      <3>4. QED
        BY <2>0, <3>2, <3>3, DebtsTyped DEF TaskInv, DebtsCovered, TypeOK
    <2>g. AloneIsBacked(f)'
      BY <2>0, <2>a, <2>x
      DEF TaskInv, AloneIsBacked, AloneKnows, StatementOfCall, Moves, TypeOK,
          ServerHolds, Accepts
    <2>h. AloneKnows(f)'
      BY <2>0, <2>a, <2>x
      DEF TaskInv, AloneKnows, StatementOfCall, Moves, TypeOK, ServerHolds,
          Accepts
    <2>i. QED
      BY <2>c, <2>d, <2>e, <2>f, <2>g, <2>h, StepOfOne DEF TaskInv
  <1>4. ASSUME NEW f \in Fiber, LockExec(f)
        PROVE  TasksIInv'
    <2> DEFINE c == ConnOf[f]
    <2> USE <1>4 DEF LockExec, Sends
    <2>0. c \in Conn /\ TaskInv(f) /\ TasksTypeOK /\ TypeOK
      BY FiberAssumption DEF TasksIInv, TasksTypeOK
    <2>a. Moves(f, "done", stmt[f], TRUE) /\ pc[f] = "sent" /\ stmt[f] \in Statement
      BY RunMoves
    <2> DEFINE k == stmt[f].key
    <2>k. k \in Key /\ Accepts(c) /\ Available(c, k)
      BY <2>a, KeyOf
    <2>x. /\ UNCHANGED <<locks_, in_transaction_, status, result>>
          /\ xact' \in [Conn -> SUBSET Key] /\ session' \in [Conn -> [Key -> 0..MaxDepth]]
          /\ \A d \in Conn \ {c} : xact'[d] = xact[d] /\ session'[d] = session[d]
          /\ k \in ServerHolds(c)'
          /\ \A j \in Key : j # k => (j \in ServerHolds(c)' <=> j \in ServerHolds(c))
          /\ stmt[f].sql = "lock" => \A j \in Key :
               session'[c][j] = IF j = k THEN session[c][j] + 1 ELSE session[c][j]
      <3>1. UNCHANGED <<locks_, in_transaction_, status, result>>
        BY DEF Run, TryAdvisoryXactLock, TryAdvisoryLock
      <3>2. CASE stmt[f].sql = "xact_lock"
        <4>1. Alone(f) /\ status[c] = "INTRANS"
          BY <2>0, <2>k, <3>2
          DEF TaskInv, SharedHasNoTransaction, AloneKnows, Accepts
        <4>2. xact' = [xact EXCEPT ![c] = @ \cup {k}] /\ session' = session
          BY <3>2, <4>1 DEF TryAdvisoryXactLock
        <4>3. QED
          BY <2>0, <2>k, <3>1, <3>2, <4>2 DEF TypeOK, ServerHolds
      <3>3. CASE stmt[f].sql = "lock"
        <4>1. TryAdvisoryLock(c, k) /\ xact' = xact
          BY <3>3 DEF TryAdvisoryLock
        <4>2. /\ session' \in [Conn -> [Key -> 0..MaxDepth]]
              /\ \A d \in Conn, j \in Key :
                   session'[d][j] = IF d = c /\ j = k THEN session[d][j] + 1
                                                     ELSE session[d][j]
              /\ \A d \in Conn \ {c} : session'[d] = session[d]
          BY <2>0, <2>k, <4>1, Deeper
        <4>3. session[c][k] \in Nat
          BY <2>0, <2>k, MaxDepthAssumption DEF TypeOK
        <4>4. session'[c][k] > 0
          BY <2>0, <2>k, <4>2, <4>3
        <4>5. k \in ServerHolds(c)'
          BY <2>k, <4>4 DEF ServerHolds
        <4>6. ASSUME NEW j \in Key, j # k PROVE j \in ServerHolds(c)' <=> j \in ServerHolds(c)
          BY <2>0, <4>1, <4>2, <4>6 DEF ServerHolds
        <4>7. QED
          BY <2>0, <3>1, <4>1, <4>2, <4>5, <4>6 DEF TypeOK
      <3>4. QED
        BY <3>2, <3>3
    <2>b. TypeOK'
      BY <2>0, <2>a, <2>x DEF TypeOK
    <2>c. OnlyOf(f) /\ TasksTypeOK'
      BY <2>0, <2>a, <2>b, <2>x
      DEF TasksTypeOK, FibersTyped, Moves, OnlyOf, TypeOK
    <2>d. \A j \in ServerHolds(c)' : j \in ServerHolds(c) \/ Available(c, j)
      <3>1. ServerHolds(c)' \subseteq Key
        BY <2>0, <2>x DEF ServerHolds
      <3>2. QED
        BY <2>k, <2>x, <3>1
    <2>e. StatementOfCall(f)' /\ SharedHasNoTransaction(f)'
      BY <2>0, <2>a, <2>x
      DEF TaskInv, StatementOfCall, SharedHasNoTransaction, TypeOK, Moves
    <2>f. DebtsCovered(f)'
      <3>1. CASE ~Alone(f)
        <4>1. stmt[f].sql = "lock"
          BY <2>0, <3>1 DEF TaskInv, SharedHasNoTransaction
        <4>2. Accepts(c)
          BY <2>k
        <4>3. ASSUME NEW j \in Key
              PROVE  Cardinality(Debts(c, j)') <= session'[c][j]
          <5>0. Cardinality(Debts(c, j)) <= session[c][j] /\ session[c][j] \in Nat
            BY <2>0, <3>1, <4>2, MaxDepthAssumption
            DEF TaskInv, DebtsCovered, TypeOK
          <5>1. CASE j = k
            <6>1. Debts(c, j)' \subseteq Debts(c, j) \cup {f}
              BY <5>1, <2>0, <2>a, <2>x DEF Debts, Owing, Moves
            <6>2. Cardinality(Debts(c, j)') <= Cardinality(Debts(c, j)) + 1
              BY <6>1, CountsOneMore, DebtsTyped
            <6>3. session'[c][j] = session[c][j] + 1
              BY <5>1, <2>k, <2>x, <4>1
            <6>4. QED
              BY <5>0, <5>1, <6>2, <6>3, DebtsTyped
          <5>2. CASE j # k
            <6>1. Debts(c, j)' \subseteq Debts(c, j)
              BY <2>0, <2>a, <2>x, <5>2 DEF Debts, Owing, Moves
            <6>2. Cardinality(Debts(c, j)') <= Cardinality(Debts(c, j))
              BY <6>1, CountsOrdered, DebtsTyped
            <6>3. session'[c][j] = session[c][j]
              BY <2>x, <4>1, <5>2
            <6>4. QED
              BY <5>0, <6>2, <6>3, DebtsTyped
          <5>3. QED
            BY <5>1, <5>2
        <4>4. QED
          BY <4>3 DEF DebtsCovered
      <3>2. QED
        BY <3>1 DEF DebtsCovered
    <2>g. AloneIsBacked(f)'
      <3>1. ASSUME Alone(f), stmt[f].sql # "rollback"
            PROVE  locks_[c] \subseteq ServerHolds(c)'
        <4>1. locks_[c] \subseteq ServerHolds(c) /\ locks_[c] \subseteq Key
          BY <2>0, <2>k, <3>1 DEF TaskInv, AloneIsBacked, TypeOK
        <4>2. QED
          BY <2>x, <4>1
      <3>2. QED
        BY <2>a, <2>x, <3>1 DEF AloneIsBacked, Moves
    <2>h. AloneKnows(f)'
      BY <2>0, <2>a, <2>k, <2>x DEF TaskInv, AloneKnows, Moves, Accepts
    <2>i. QED
      BY <2>c, <2>d, <2>e, <2>f, <2>g, <2>h, StepOfOne DEF TaskInv
  <1>5. ASSUME NEW f \in Fiber, LockRefusedExec(f)
        PROVE  TasksIInv'
    <2> DEFINE c == ConnOf[f]
    <2> USE <1>5 DEF LockRefusedExec, Sends
    <2>0. c \in Conn /\ TaskInv(f) /\ TasksTypeOK /\ TypeOK
      BY FiberAssumption DEF TasksIInv, TasksTypeOK
    <2>a. Moves(f, "done", stmt[f], FALSE) /\ pc[f] = "sent" /\ stmt[f] \in Statement
      BY RunMoves
    <2>x. UNCHANGED <<locks_, in_transaction_, status, session, xact, result>>
      BY DEF Run, server
    <2>b. TypeOK'
      BY <2>0, <2>a, <2>x DEF TypeOK
    <2>c. OnlyOf(f) /\ TasksTypeOK'
      BY <2>0, <2>a, <2>b, <2>x
      DEF TasksTypeOK, FibersTyped, Moves, OnlyOf, TypeOK
    <2>d. \A j \in ServerHolds(c)' : j \in ServerHolds(c) \/ Available(c, j)
      BY <2>0, <2>x DEF ServerHolds
    <2>e. StatementOfCall(f)' /\ SharedHasNoTransaction(f)'
      BY <2>0, <2>a, <2>x
      DEF TaskInv, StatementOfCall, SharedHasNoTransaction, TypeOK, Moves
    <2>f. DebtsCovered(f)'
      <3>1. \A j \in Key : Debts(c, j)' \subseteq Debts(c, j)
        BY <2>0, <2>a, <2>x
        DEF Debts, Owing, TaskInv, StatementOfCall, Moves, TypeOK
      <3>2. \A j \in Key : Cardinality(Debts(c, j)') <= Cardinality(Debts(c, j))
        BY <3>1, DebtsTyped, CountsOrdered
      <3>3. Accepts(c)' = Accepts(c) /\ session' = session
        BY <2>x DEF Accepts
      <3>4. QED
        BY <2>0, <3>2, <3>3, DebtsTyped DEF TaskInv, DebtsCovered, TypeOK
    <2>g. AloneIsBacked(f)'
      BY <2>0, <2>a, <2>x
      DEF TaskInv, AloneIsBacked, AloneKnows, StatementOfCall, Moves, TypeOK,
          ServerHolds, Accepts
    <2>h. AloneKnows(f)'
      BY <2>0, <2>a, <2>x
      DEF TaskInv, AloneKnows, StatementOfCall, Moves, TypeOK, ServerHolds,
          Accepts
    <2>i. QED
      BY <2>c, <2>d, <2>e, <2>f, <2>g, <2>h, StepOfOne DEF TaskInv
  <1>6. ASSUME NEW f \in Fiber, UnlockExec(f)
        PROVE  TasksIInv'
    <2> DEFINE c == ConnOf[f]
    <2> USE <1>6 DEF UnlockExec, Sends
    <2>0. c \in Conn /\ TaskInv(f) /\ TasksTypeOK /\ TypeOK
      BY FiberAssumption DEF TasksIInv, TasksTypeOK
    <2>a. Moves(f, "done", stmt[f], TRUE) /\ pc[f] = "sent" /\ stmt[f] \in Statement
      BY RunMoves
    <2> DEFINE k == stmt[f].key
    <2>k. k \in Key /\ Accepts(c) /\ stmt[f].sql = "unlock"
      BY <2>a, KeyOf
    <2>x. /\ UNCHANGED <<locks_, in_transaction_, status, result, xact>>
          /\ session' \in [Conn -> [Key -> 0..MaxDepth]]
          /\ \A d \in Conn, j \in Key :
               session'[d][j] = IF d = c /\ j = k /\ session[d][j] > 0
                                THEN session[d][j] - 1 ELSE session[d][j]
          /\ \A d \in Conn \ {c} : session'[d] = session[d]
      <3>1. UNCHANGED <<locks_, in_transaction_, status, result, xact>>
        BY DEF Run
      <3>2. session' = [session EXCEPT ![c][k] = IF @ > 0 THEN @ - 1 ELSE 0]
        OBVIOUS
      <3> HIDE <1>6
      <3>3. QED
        BY <2>0, <2>k, <3>1, <3>2, Lighter, Zenon
    <2>l. \A j \in Key : session[c][j] \in Nat /\ (session'[c][j] > 0 => session[c][j] > 0)
      <3>1. ASSUME NEW j \in Key
            PROVE  session[c][j] \in Nat /\ (session'[c][j] > 0 => session[c][j] > 0)
        <4>1. session[c][j] \in Nat
          BY <2>0, MaxDepthAssumption DEF TypeOK
        <4>2. session'[c][j] = IF j = k /\ session[c][j] > 0
                              THEN session[c][j] - 1 ELSE session[c][j]
          BY <2>0, <2>x
        <4>3. QED
          BY <4>1, <4>2
      <3>2. QED
        BY <3>1
    <2>b. TypeOK'
      BY <2>0, <2>a, <2>x DEF TypeOK
    <2>c. OnlyOf(f) /\ TasksTypeOK'
      BY <2>0, <2>a, <2>b, <2>x
      DEF TasksTypeOK, FibersTyped, Moves, OnlyOf, TypeOK
    <2>d. \A j \in ServerHolds(c)' : j \in ServerHolds(c) \/ Available(c, j)
      BY <2>x, <2>l DEF ServerHolds
    <2>e. StatementOfCall(f)' /\ SharedHasNoTransaction(f)'
      BY <2>0, <2>a, <2>x
      DEF TaskInv, StatementOfCall, SharedHasNoTransaction, TypeOK, Moves
    <2>f. DebtsCovered(f)'
      <3>1. CASE ~Alone(f)
        <4>1. ASSUME NEW j \in Key
              PROVE  Cardinality(Debts(c, j)') <= session'[c][j]
          <5>0. Cardinality(Debts(c, j)) <= session[c][j] /\ session[c][j] \in Nat
            BY <2>0, <2>k, <2>l, <3>1 DEF TaskInv, DebtsCovered
          <5>1. CASE j = k
            <6>1. f \in Debts(c, j)
              BY <5>1, <2>a, <2>k DEF Debts, Owing
            <6>2. Debts(c, j)' \subseteq Debts(c, j) \ {f}
              BY <5>1, <2>0, <2>a, <2>k, <2>x, FiberAssumption
              DEF Debts, Owing, Moves
            <6>3. Cardinality(Debts(c, j)') + 1 <= Cardinality(Debts(c, j))
              BY <6>1, <6>2, CountsOneFewer, DebtsTyped
            <6>4. session[c][j] > 0
              BY <5>0, <5>1, <6>3, DebtsTyped
            <6>5. session'[c][j] = session[c][j] - 1
              BY <5>1, <2>0, <2>k, <2>x, <6>4
            <6>6. QED
              BY <5>0, <5>1, <6>3, <6>5, DebtsTyped
          <5>2. CASE j # k
            <6>1. Debts(c, j)' \subseteq Debts(c, j)
              BY <2>0, <2>a, <2>x, <5>2 DEF Debts, Owing, Moves
            <6>2. Cardinality(Debts(c, j)') <= Cardinality(Debts(c, j))
              BY <6>1, CountsOrdered, DebtsTyped
            <6>3. session'[c][j] = session[c][j]
              BY <2>0, <2>x, <5>2
            <6>4. QED
              BY <5>0, <6>2, <6>3, DebtsTyped
          <5>3. QED
            BY <5>1, <5>2
        <4>2. QED
          BY <4>1 DEF DebtsCovered
      <3>2. QED
        BY <3>1 DEF DebtsCovered
    <2>g. AloneIsBacked(f)'
      <3>1. ASSUME Alone(f) PROVE locks_[c] \subseteq ServerHolds(c)'
        <4>1. /\ locks_[c] \subseteq ServerHolds(c) /\ locks_[c] \subseteq Key
              /\ k \notin locks_[c]
          BY <2>0, <2>a, <2>k, <3>1
          DEF TaskInv, AloneIsBacked, AloneKnows, TypeOK
        <4>2. \A j \in Key \ {k} : session'[c][j] = session[c][j]
          BY <2>0, <2>x
        <4>3. QED
          BY <2>x, <4>1, <4>2 DEF ServerHolds
      <3>2. QED
        BY <2>x, <3>1 DEF AloneIsBacked
    <2>h. AloneKnows(f)'
      BY <2>0, <2>a, <2>k, <2>x DEF TaskInv, AloneKnows, Moves, Accepts
    <2>i. QED
      BY <2>c, <2>d, <2>e, <2>f, <2>g, <2>h, StepOfOne DEF TaskInv
  <1>7. ASSUME NEW f \in Fiber, ExecFails(f)
        PROVE  TasksIInv'
    <2> DEFINE c == ConnOf[f]
    <2> USE <1>7 DEF ExecFails
    <2>0. c \in Conn /\ TaskInv(f) /\ TasksTypeOK /\ TypeOK
      BY FiberAssumption DEF TasksIInv, TasksTypeOK
    <2>a. Moves(f, "done", stmt[f], FALSE) /\ pc[f] = "sent" /\ stmt[f] \in Statement
      BY RunMoves
    <2>x. UNCHANGED <<locks_, in_transaction_, status, session, xact, result>> /\ ~Accepts(c)
      BY DEF Run, server
    <2>b. TypeOK'
      BY <2>0, <2>a, <2>x DEF TypeOK
    <2>c. OnlyOf(f) /\ TasksTypeOK'
      BY <2>0, <2>a, <2>b, <2>x
      DEF TasksTypeOK, FibersTyped, Moves, OnlyOf, TypeOK
    <2>d. \A j \in ServerHolds(c)' : j \in ServerHolds(c) \/ Available(c, j)
      BY <2>0, <2>x DEF ServerHolds
    <2>e. StatementOfCall(f)' /\ SharedHasNoTransaction(f)'
      BY <2>0, <2>a, <2>x
      DEF TaskInv, StatementOfCall, SharedHasNoTransaction, TypeOK, Moves
    <2>f. DebtsCovered(f)'
      BY <2>x DEF DebtsCovered, Accepts
    <2>g. AloneIsBacked(f)'
      BY <2>0, <2>a, <2>x
      DEF TaskInv, AloneIsBacked, AloneKnows, StatementOfCall, Moves, TypeOK,
          ServerHolds, Accepts
    <2>h. AloneKnows(f)'
      BY <2>0, <2>a, <2>x
      DEF TaskInv, AloneKnows, StatementOfCall, Moves, TypeOK, ServerHolds,
          Accepts
    <2>i. QED
      BY <2>c, <2>d, <2>e, <2>f, <2>g, <2>h, StepOfOne DEF TaskInv
  <1>8. ASSUME NEW f \in Fiber, LockFinish(f)
        PROVE  TasksIInv'
    <2> DEFINE c == ConnOf[f]
    <2> USE <1>8 DEF LockFinish, Answered
    <2>0. c \in Conn /\ TaskInv(f) /\ TasksTypeOK /\ TypeOK
      BY FiberAssumption DEF TasksIInv, TasksTypeOK
    <2>a. Moves(f, "idle", NoStatement, FALSE) /\ pc[f] = "done" /\ stmt[f] \in Statement
      BY FinishMoves
    <2> DEFINE k == stmt[f].key
    <2>k. k \in Key
      BY <2>a, KeyOf
    <2>x. /\ UNCHANGED <<in_transaction_, status, session, xact, result>>
          /\ locks_' = [locks_ EXCEPT ![c] = @ \cup {k}]
          /\ locks_' \in [Conn -> SUBSET Key]
      BY <2>0, <2>k DEF Finish, server, TypeOK
    <2>b. TypeOK'
      BY <2>0, <2>a, <2>x DEF TypeOK
    <2>c. OnlyOf(f) /\ TasksTypeOK'
      BY <2>0, <2>a, <2>b, <2>x
      DEF TasksTypeOK, FibersTyped, Moves, OnlyOf, TypeOK
    <2>d. \A j \in ServerHolds(c)' : j \in ServerHolds(c) \/ Available(c, j)
      BY <2>0, <2>x DEF ServerHolds
    <2>e. StatementOfCall(f)' /\ SharedHasNoTransaction(f)'
      BY <2>0, <2>a, <2>x, NoStatementIs
      DEF TaskInv, StatementOfCall, SharedHasNoTransaction, TypeOK, Moves
    <2>f. DebtsCovered(f)'
      <3>1. CASE ~Alone(f)
        <4>1. stmt[f].sql = "lock"
          BY <2>0, <3>1 DEF TaskInv, SharedHasNoTransaction
        <4>2. ASSUME NEW j \in Key
              PROVE  Cardinality(Debts(c, j)') <= Cardinality(Debts(c, j))
          <5>1. CASE j = k
            <6>1. f \in Debts(c, j)
              BY <5>1, <2>a, <4>1 DEF Debts, Owing
            <6>2. Debts(c, j)' \subseteq (Debts(c, j) \ {f}) \cup {NoFiber}
              BY <5>1, <2>0, <2>a, <2>x, FiberAssumption
              DEF Debts, Owing, Moves
            <6>3. QED
              BY <5>1, <6>1, <6>2, CountsAsBefore, DebtsTyped
          <5>2. CASE j # k
            <6>1. Debts(c, j)' \subseteq Debts(c, j)
              BY <2>0, <2>a, <2>x, <5>2 DEF Debts, Owing, Moves, TypeOK
            <6>2. QED
              BY <6>1, CountsOrdered, DebtsTyped
          <5>3. QED
            BY <5>1, <5>2
        <4>3. Accepts(c)' = Accepts(c) /\ session' = session
          BY <2>x DEF Accepts
        <4>4. QED
          BY <2>0, <4>2, <4>3, DebtsTyped DEF TaskInv, DebtsCovered, TypeOK
      <3>2. QED
        BY <3>1 DEF DebtsCovered
    <2>g. AloneIsBacked(f)'
      BY <2>0, <2>a, <2>x, NoStatementIs
      DEF TaskInv, AloneIsBacked, AloneKnows, StatementOfCall, Moves, TypeOK,
          ServerHolds, Accepts
    <2>h. AloneKnows(f)'
      BY <2>0, <2>a, <2>x, NoStatementIs
      DEF TaskInv, AloneKnows, StatementOfCall, Moves, TypeOK, ServerHolds,
          Accepts
    <2>i. QED
      BY <2>c, <2>d, <2>e, <2>f, <2>g, <2>h, StepOfOne DEF TaskInv
  <1>9. ASSUME NEW f \in Fiber, OtherFinish(f)
        PROVE  TasksIInv'
    <2> DEFINE c == ConnOf[f]
    <2> USE <1>9 DEF OtherFinish, Answered
    <2>0. c \in Conn /\ TaskInv(f) /\ TasksTypeOK /\ TypeOK
      BY FiberAssumption DEF TasksIInv, TasksTypeOK
    <2>a. Moves(f, "idle", NoStatement, FALSE) /\ pc[f] = "done" /\ stmt[f] \in Statement
      BY FinishMoves
    <2>x. UNCHANGED <<locks_, in_transaction_, status, session, xact, result>>
      BY DEF Finish, server
    <2>b. TypeOK'
      BY <2>0, <2>a, <2>x DEF TypeOK
    <2>c. OnlyOf(f) /\ TasksTypeOK'
      BY <2>0, <2>a, <2>b, <2>x
      DEF TasksTypeOK, FibersTyped, Moves, OnlyOf, TypeOK
    <2>d. \A j \in ServerHolds(c)' : j \in ServerHolds(c) \/ Available(c, j)
      BY <2>0, <2>x DEF ServerHolds
    <2>e. StatementOfCall(f)' /\ SharedHasNoTransaction(f)'
      BY <2>0, <2>a, <2>x, NoStatementIs
      DEF TaskInv, StatementOfCall, SharedHasNoTransaction, TypeOK, Moves
    <2>f. DebtsCovered(f)'
      <3>1. \A j \in Key : Debts(c, j)' \subseteq Debts(c, j)
        BY <2>0, <2>a, <2>x
        DEF Debts, Owing, TaskInv, StatementOfCall, Moves, TypeOK
      <3>2. \A j \in Key : Cardinality(Debts(c, j)') <= Cardinality(Debts(c, j))
        BY <3>1, DebtsTyped, CountsOrdered
      <3>3. Accepts(c)' = Accepts(c) /\ session' = session
        BY <2>x DEF Accepts
      <3>4. QED
        BY <2>0, <3>2, <3>3, DebtsTyped DEF TaskInv, DebtsCovered, TypeOK
    <2>g. AloneIsBacked(f)'
      BY <2>0, <2>a, <2>x, NoStatementIs
      DEF TaskInv, AloneIsBacked, AloneKnows, StatementOfCall, Moves, TypeOK,
          ServerHolds, Accepts
    <2>h. AloneKnows(f)'
      BY <2>0, <2>a, <2>x, NoStatementIs
      DEF TaskInv, AloneKnows, StatementOfCall, Moves, TypeOK, ServerHolds,
          Accepts
    <2>i. QED
      BY <2>c, <2>d, <2>e, <2>f, <2>g, <2>h, StepOfOne DEF TaskInv
  <1>10. ASSUME NEW f \in Fiber, UnlockallStart(f), Alone(f)
        PROVE  TasksIInv'
    <2> DEFINE c == ConnOf[f]
    <2> USE <1>10 DEF UnlockallStart, Forget
    <2>0. c \in Conn /\ TaskInv(f) /\ TasksTypeOK /\ TypeOK
      BY FiberAssumption DEF TasksIInv, TasksTypeOK
    <2> DEFINE s == [sql |-> "unlock_all"]
    <2>s. s \in Statement /\ Ask(f, s)
      BY StatementAlone
    <2>a. Moves(f, "sent", s, ok[f])
      BY <2>s, AskMoves
    <2>x. /\ UNCHANGED <<in_transaction_, status, session, xact, result>>
          /\ locks_' = [locks_ EXCEPT ![c] = {}] /\ ~in_transaction_[c]
          /\ s.sql = "unlock_all"
      BY DEF Ask, server
    <2> HIDE DEF s
    <2>b. TypeOK'
      BY <2>0, <2>a, <2>x DEF TypeOK
    <2>c. OnlyOf(f) /\ TasksTypeOK'
      BY <2>0, <2>a, <2>b, <2>x
      DEF TasksTypeOK, FibersTyped, Moves, OnlyOf, TypeOK
    <2>d. \A j \in ServerHolds(c)' : j \in ServerHolds(c) \/ Available(c, j)
      BY <2>0, <2>x DEF ServerHolds
    <2>e. StatementOfCall(f)' /\ SharedHasNoTransaction(f)'
      BY <2>0, <2>a, <2>x, <2>s, NoStatementIs
      DEF TaskInv, StatementOfCall, SharedHasNoTransaction, TypeOK, Moves
    <2>f. DebtsCovered(f)'
      BY DEF DebtsCovered
    <2>g. AloneIsBacked(f)'
      BY <2>0, <2>a, <2>x, <2>s, NoStatementIs
      DEF TaskInv, AloneIsBacked, AloneKnows, StatementOfCall, Moves, TypeOK,
          ServerHolds, Accepts
    <2>h. AloneKnows(f)'
      BY <2>0, <2>a, <2>x, <2>s, NoStatementIs
      DEF TaskInv, AloneKnows, StatementOfCall, Moves, TypeOK, ServerHolds,
          Accepts
    <2>i. QED
      BY <2>c, <2>d, <2>e, <2>f, <2>g, <2>h, StepOfOne DEF TaskInv
  <1>11. ASSUME NEW f \in Fiber, UnlockallExec(f), Alone(f)
        PROVE  TasksIInv'
    <2> DEFINE c == ConnOf[f]
    <2> USE <1>11 DEF UnlockallExec, Sends
    <2>0. c \in Conn /\ TaskInv(f) /\ TasksTypeOK /\ TypeOK
      BY FiberAssumption DEF TasksIInv, TasksTypeOK
    <2>a. Moves(f, "done", stmt[f], TRUE) /\ pc[f] = "sent" /\ stmt[f] \in Statement
      BY RunMoves
    <2>x. /\ UNCHANGED <<locks_, in_transaction_, status, xact, result>>
          /\ session' = [session EXCEPT ![c] = NoSession]
          /\ session' \in [Conn -> [Key -> 0..MaxDepth]]
          /\ locks_[c] = {}
      BY <2>0, MaxDepthAssumption
      DEF Run, NoSession, TypeOK, TaskInv, AloneKnows
    <2>b. TypeOK'
      BY <2>0, <2>a, <2>x DEF TypeOK
    <2>c. OnlyOf(f) /\ TasksTypeOK'
      BY <2>0, <2>a, <2>b, <2>x
      DEF TasksTypeOK, FibersTyped, Moves, OnlyOf, TypeOK
    <2>d. \A j \in ServerHolds(c)' : j \in ServerHolds(c) \/ Available(c, j)
      BY <2>0, <2>x DEF ServerHolds, NoSession, TypeOK
    <2>e. StatementOfCall(f)' /\ SharedHasNoTransaction(f)'
      BY <2>0, <2>a, <2>x
      DEF TaskInv, StatementOfCall, SharedHasNoTransaction, TypeOK, Moves
    <2>f. DebtsCovered(f)'
      BY DEF DebtsCovered
    <2>g. AloneIsBacked(f)'
      BY <2>0, <2>a, <2>x
      DEF TaskInv, AloneIsBacked, AloneKnows, StatementOfCall, Moves, TypeOK,
          ServerHolds, Accepts
    <2>h. AloneKnows(f)'
      BY <2>0, <2>a, <2>x
      DEF TaskInv, AloneKnows, StatementOfCall, Moves, TypeOK, ServerHolds,
          Accepts
    <2>i. QED
      BY <2>c, <2>d, <2>e, <2>f, <2>g, <2>h, StepOfOne DEF TaskInv
  <1>12. ASSUME NEW f \in Fiber, BegintransStart(f), Alone(f)
        PROVE  TasksIInv'
    <2> DEFINE c == ConnOf[f]
    <2> USE <1>12 DEF BegintransStart
    <2>0. c \in Conn /\ TaskInv(f) /\ TasksTypeOK /\ TypeOK
      BY FiberAssumption DEF TasksIInv, TasksTypeOK
    <2> DEFINE s == [sql |-> "begin"]
    <2>s. s \in Statement /\ Ask(f, s)
      BY StatementAlone
    <2>a. Moves(f, "sent", s, ok[f])
      BY <2>s, AskMoves
    <2>x. /\ UNCHANGED <<locks_, in_transaction_, status, session, xact, result>>
          /\ pc[f] = "idle" /\ s.sql = "begin"
      BY DEF Ask, server
    <2> HIDE DEF s
    <2>b. TypeOK'
      BY <2>0, <2>a, <2>x DEF TypeOK
    <2>c. OnlyOf(f) /\ TasksTypeOK'
      BY <2>0, <2>a, <2>b, <2>x
      DEF TasksTypeOK, FibersTyped, Moves, OnlyOf, TypeOK
    <2>d. \A j \in ServerHolds(c)' : j \in ServerHolds(c) \/ Available(c, j)
      BY <2>0, <2>x DEF ServerHolds
    <2>e. StatementOfCall(f)' /\ SharedHasNoTransaction(f)'
      BY <2>0, <2>a, <2>x, <2>s, NoStatementIs
      DEF TaskInv, StatementOfCall, SharedHasNoTransaction, TypeOK, Moves
    <2>f. DebtsCovered(f)'
      BY DEF DebtsCovered
    <2>g. AloneIsBacked(f)'
      BY <2>0, <2>a, <2>x, <2>s, NoStatementIs
      DEF TaskInv, AloneIsBacked, AloneKnows, StatementOfCall, Moves, TypeOK,
          ServerHolds, Accepts
    <2>h. AloneKnows(f)'
      BY <2>0, <2>a, <2>x, <2>s, NoStatementIs
      DEF TaskInv, AloneKnows, StatementOfCall, Moves, TypeOK, ServerHolds,
          Accepts
    <2>i. QED
      BY <2>c, <2>d, <2>e, <2>f, <2>g, <2>h, StepOfOne DEF TaskInv
  <1>13. ASSUME NEW f \in Fiber, RollbacktransStart(f), Alone(f)
        PROVE  TasksIInv'
    <2> DEFINE c == ConnOf[f]
    <2> USE <1>13 DEF RollbacktransStart
    <2>0. c \in Conn /\ TaskInv(f) /\ TasksTypeOK /\ TypeOK
      BY FiberAssumption DEF TasksIInv, TasksTypeOK
    <2> DEFINE s == [sql |-> "rollback"]
    <2>s. s \in Statement /\ Ask(f, s)
      BY StatementAlone
    <2>a. Moves(f, "sent", s, ok[f])
      BY <2>s, AskMoves
    <2>x. /\ UNCHANGED <<locks_, in_transaction_, status, session, xact, result>>
          /\ pc[f] = "idle" /\ s.sql = "rollback"
      BY DEF Ask, server
    <2> HIDE DEF s
    <2>b. TypeOK'
      BY <2>0, <2>a, <2>x DEF TypeOK
    <2>c. OnlyOf(f) /\ TasksTypeOK'
      BY <2>0, <2>a, <2>b, <2>x
      DEF TasksTypeOK, FibersTyped, Moves, OnlyOf, TypeOK
    <2>d. \A j \in ServerHolds(c)' : j \in ServerHolds(c) \/ Available(c, j)
      BY <2>0, <2>x DEF ServerHolds
    <2>e. StatementOfCall(f)' /\ SharedHasNoTransaction(f)'
      BY <2>0, <2>a, <2>x, <2>s, NoStatementIs
      DEF TaskInv, StatementOfCall, SharedHasNoTransaction, TypeOK, Moves
    <2>f. DebtsCovered(f)'
      BY DEF DebtsCovered
    <2>g. AloneIsBacked(f)'
      BY <2>0, <2>a, <2>x, <2>s, NoStatementIs
      DEF TaskInv, AloneIsBacked, AloneKnows, StatementOfCall, Moves, TypeOK,
          ServerHolds, Accepts
    <2>h. AloneKnows(f)'
      BY <2>0, <2>a, <2>x, <2>s, NoStatementIs
      DEF TaskInv, AloneKnows, StatementOfCall, Moves, TypeOK, ServerHolds,
          Accepts
    <2>i. QED
      BY <2>c, <2>d, <2>e, <2>f, <2>g, <2>h, StepOfOne DEF TaskInv
  <1>14. ASSUME NEW f \in Fiber, CommittransStart(f), Alone(f)
        PROVE  TasksIInv'
    <2> DEFINE c == ConnOf[f]
    <2> USE <1>14 DEF CommittransStart, Forget
    <2>0. c \in Conn /\ TaskInv(f) /\ TasksTypeOK /\ TypeOK
      BY FiberAssumption DEF TasksIInv, TasksTypeOK
    <2>s. PICK s \in Statement : Ask(f, s) /\ s.sql \in {"rollback", "end"}
      BY StatementAlone
    <2>a. Moves(f, "sent", s, ok[f])
      BY <2>s, AskMoves
    <2>x. /\ UNCHANGED <<status, session, xact, result>> /\ pc[f] = "idle"
          /\ locks_' = [locks_ EXCEPT ![c] = {}]
          /\ in_transaction_' = [in_transaction_ EXCEPT ![c] = FALSE]
      BY <2>s DEF Ask, server
    <2>b. TypeOK'
      BY <2>0, <2>a, <2>x DEF TypeOK
    <2>c. OnlyOf(f) /\ TasksTypeOK'
      <3>1. \A d \in Conn \ {c} :
              locks_'[d] = locks_[d] /\ in_transaction_'[d] = in_transaction_[d]
        BY <2>0, <2>x DEF TypeOK
      <3>2. OnlyOf(f)
        BY <2>a, <2>x, <3>1 DEF Moves, OnlyOf
      <3>3. QED
        BY <2>a, <2>b, <3>2 DEF TasksTypeOK, FibersTyped, Moves
    <2>d. \A j \in ServerHolds(c)' : j \in ServerHolds(c) \/ Available(c, j)
      BY <2>0, <2>x DEF ServerHolds
    <2>e. StatementOfCall(f)' /\ SharedHasNoTransaction(f)'
      BY <2>0, <2>a, <2>x DEF StatementOfCall, SharedHasNoTransaction, Moves
    <2>f. DebtsCovered(f)'
      BY DEF DebtsCovered
    <2>g. AloneIsBacked(f)'
      BY <2>0, <2>a, <2>x, <2>s, NoStatementIs
      DEF TaskInv, AloneIsBacked, AloneKnows, StatementOfCall, Moves, TypeOK,
          ServerHolds, Accepts
    <2>h. AloneKnows(f)'
      BY <2>0, <2>a, <2>s, <2>x DEF AloneKnows, Moves, TypeOK
    <2>i. QED
      BY <2>c, <2>d, <2>e, <2>f, <2>g, <2>h, StepOfOne DEF TaskInv
  <1>15. ASSUME NEW f \in Fiber, BegintransExec(f), Alone(f)
        PROVE  TasksIInv'
    <2> DEFINE c == ConnOf[f]
    <2> USE <1>15 DEF BegintransExec, Sends
    <2>0. c \in Conn /\ TaskInv(f) /\ TasksTypeOK /\ TypeOK
      BY FiberAssumption DEF TasksIInv, TasksTypeOK
    <2>a. Moves(f, "done", stmt[f], TRUE) /\ pc[f] = "sent" /\ stmt[f] \in Statement
      BY RunMoves
    <2>x. /\ UNCHANGED <<locks_, in_transaction_, session, xact, result>>
          /\ status' = [status EXCEPT ![c] = "INTRANS"]
          /\ status' \in [Conn -> Status] /\ Accepts(c)
      BY <2>0 DEF Run, TypeOK, Status
    <2>b. TypeOK'
      BY <2>0, <2>a, <2>x DEF TypeOK
    <2>c. OnlyOf(f) /\ TasksTypeOK'
      BY <2>0, <2>a, <2>b, <2>x
      DEF TasksTypeOK, FibersTyped, Moves, OnlyOf, TypeOK
    <2>d. \A j \in ServerHolds(c)' : j \in ServerHolds(c) \/ Available(c, j)
      BY <2>0, <2>x DEF ServerHolds
    <2>e. StatementOfCall(f)' /\ SharedHasNoTransaction(f)'
      BY <2>0, <2>a, <2>x
      DEF TaskInv, StatementOfCall, SharedHasNoTransaction, TypeOK, Moves
    <2>f. DebtsCovered(f)'
      BY DEF DebtsCovered
    <2>g. AloneIsBacked(f)'
      BY <2>0, <2>a, <2>x
      DEF TaskInv, AloneIsBacked, AloneKnows, StatementOfCall, Moves, TypeOK,
          ServerHolds, Accepts
    <2>h. AloneKnows(f)'
      BY <2>0, <2>a, <2>x
      DEF TaskInv, AloneKnows, StatementOfCall, Moves, TypeOK, ServerHolds,
          Accepts
    <2>i. QED
      BY <2>c, <2>d, <2>e, <2>f, <2>g, <2>h, StepOfOne DEF TaskInv
  <1>16. ASSUME NEW f \in Fiber, EndExec(f), Alone(f)
        PROVE  TasksIInv'
    <2> DEFINE c == ConnOf[f]
    <2> USE <1>16 DEF EndExec, Sends, EndTransaction
    <2>0. c \in Conn /\ TaskInv(f) /\ TasksTypeOK /\ TypeOK
      BY FiberAssumption DEF TasksIInv, TasksTypeOK
    <2>a. Moves(f, "done", stmt[f], TRUE) /\ pc[f] = "sent" /\ stmt[f] \in Statement
      BY RunMoves
    <2>x. /\ UNCHANGED <<locks_, in_transaction_, session, result>>
          /\ status' = [status EXCEPT ![c] = "IDLE"]
          /\ status' \in [Conn -> Status]
          /\ xact' = [xact EXCEPT ![c] = {}]
          /\ stmt[f].sql = "end" => locks_[c] = {}
      BY <2>0 DEF Run, TypeOK, Status, TaskInv, AloneKnows
    <2>b. TypeOK'
      BY <2>0, <2>a, <2>x DEF TypeOK
    <2>c. OnlyOf(f) /\ TasksTypeOK'
      BY <2>0, <2>a, <2>b, <2>x
      DEF TasksTypeOK, FibersTyped, Moves, OnlyOf, TypeOK
    <2>d. \A j \in ServerHolds(c)' : j \in ServerHolds(c) \/ Available(c, j)
      BY <2>0, <2>x DEF ServerHolds
    <2>e. StatementOfCall(f)' /\ SharedHasNoTransaction(f)'
      BY <2>0, <2>a, <2>x
      DEF TaskInv, StatementOfCall, SharedHasNoTransaction, TypeOK, Moves
    <2>f. DebtsCovered(f)'
      BY DEF DebtsCovered
    <2>g. AloneIsBacked(f)'
      BY <2>0, <2>a, <2>x
      DEF TaskInv, AloneIsBacked, AloneKnows, StatementOfCall, Moves, TypeOK,
          ServerHolds, Accepts
    <2>h. AloneKnows(f)'
      BY <2>0, <2>a, <2>x
      DEF TaskInv, AloneKnows, StatementOfCall, Moves, TypeOK, ServerHolds,
          Accepts
    <2>i. QED
      BY <2>c, <2>d, <2>e, <2>f, <2>g, <2>h, StepOfOne DEF TaskInv
  <1>17. ASSUME NEW f \in Fiber, BegintransFinish(f), Alone(f)
        PROVE  TasksIInv'
    <2> DEFINE c == ConnOf[f]
    <2> USE <1>17 DEF BegintransFinish, Answered
    <2>0. c \in Conn /\ TaskInv(f) /\ TasksTypeOK /\ TypeOK
      BY FiberAssumption DEF TasksIInv, TasksTypeOK
    <2>a. Moves(f, "idle", NoStatement, FALSE) /\ pc[f] = "done" /\ stmt[f] \in Statement
      BY FinishMoves
    <2>x. /\ UNCHANGED <<locks_, status, session, xact, result>>
          /\ in_transaction_' = [in_transaction_ EXCEPT ![c] = @ \/ status[c] = "INTRANS"]
          /\ in_transaction_' \in [Conn -> BOOLEAN]
          /\ in_transaction_'[c] => status[c] # "IDLE"
      BY <2>0 DEF Finish, server, TypeOK, TaskInv, AloneKnows
    <2>b. TypeOK'
      BY <2>0, <2>a, <2>x DEF TypeOK
    <2>c. OnlyOf(f) /\ TasksTypeOK'
      BY <2>0, <2>a, <2>b, <2>x
      DEF TasksTypeOK, FibersTyped, Moves, OnlyOf, TypeOK
    <2>d. \A j \in ServerHolds(c)' : j \in ServerHolds(c) \/ Available(c, j)
      BY <2>0, <2>x DEF ServerHolds
    <2>e. StatementOfCall(f)' /\ SharedHasNoTransaction(f)'
      BY <2>0, <2>a, <2>x, NoStatementIs
      DEF TaskInv, StatementOfCall, SharedHasNoTransaction, TypeOK, Moves
    <2>f. DebtsCovered(f)'
      BY DEF DebtsCovered
    <2>g. AloneIsBacked(f)'
      BY <2>0, <2>a, <2>x, NoStatementIs
      DEF TaskInv, AloneIsBacked, AloneKnows, StatementOfCall, Moves, TypeOK,
          ServerHolds, Accepts
    <2>h. AloneKnows(f)'
      BY <2>0, <2>a, <2>x, NoStatementIs
      DEF TaskInv, AloneKnows, StatementOfCall, Moves, TypeOK, ServerHolds,
          Accepts
    <2>i. QED
      BY <2>c, <2>d, <2>e, <2>f, <2>g, <2>h, StepOfOne DEF TaskInv
  <1>18. ASSUME NEW f \in Fiber, RollbacktransFinish(f), Alone(f)
        PROVE  TasksIInv'
    <2> DEFINE c == ConnOf[f]
    <2> USE <1>18 DEF RollbacktransFinish, Answered, Forget
    <2>0. c \in Conn /\ TaskInv(f) /\ TasksTypeOK /\ TypeOK
      BY FiberAssumption DEF TasksIInv, TasksTypeOK
    <2>a. Moves(f, "idle", NoStatement, FALSE) /\ pc[f] = "done" /\ stmt[f] \in Statement
      BY FinishMoves
    <2>x. /\ UNCHANGED <<status, session, xact, result>>
          /\ locks_' = [locks_ EXCEPT ![c] = {}]
          /\ in_transaction_' = [in_transaction_ EXCEPT ![c] = FALSE]
      BY DEF Finish, server
    <2>b. TypeOK'
      BY <2>0, <2>a, <2>x DEF TypeOK
    <2>c. OnlyOf(f) /\ TasksTypeOK'
      <3>1. \A d \in Conn \ {c} :
              locks_'[d] = locks_[d] /\ in_transaction_'[d] = in_transaction_[d]
        BY <2>0, <2>x DEF TypeOK
      <3>2. OnlyOf(f)
        BY <2>a, <2>x, <3>1 DEF Moves, OnlyOf
      <3>3. QED
        BY <2>a, <2>b, <3>2 DEF TasksTypeOK, FibersTyped, Moves
    <2>d. \A j \in ServerHolds(c)' : j \in ServerHolds(c) \/ Available(c, j)
      BY <2>0, <2>x DEF ServerHolds
    <2>e. StatementOfCall(f)' /\ SharedHasNoTransaction(f)'
      BY <2>0, <2>a, <2>x, NoStatementIs
      DEF TaskInv, StatementOfCall, SharedHasNoTransaction, TypeOK, Moves
    <2>f. DebtsCovered(f)'
      BY DEF DebtsCovered
    <2>g. AloneIsBacked(f)'
      BY <2>0, <2>a, <2>x, NoStatementIs
      DEF TaskInv, AloneIsBacked, AloneKnows, StatementOfCall, Moves, TypeOK,
          ServerHolds, Accepts
    <2>h. AloneKnows(f)'
      BY <2>0, <2>a, <2>x, NoStatementIs
      DEF TaskInv, AloneKnows, StatementOfCall, Moves, TypeOK, ServerHolds,
          Accepts
    <2>i. QED
      BY <2>c, <2>d, <2>e, <2>f, <2>g, <2>h, StepOfOne DEF TaskInv
  <1>19. ASSUME NEW c \in Conn, Lost(c) \/ Fails(c) PROVE TasksIInv'
    BY <1>19, LosingConnection
  <1>20. CASE UNCHANGED tvars
    <2>1. UNCHANGED <<locks_, in_transaction_, status, session, xact, result,
                      mutex_, pc, stmt, ok>>
      BY <1>20 DEF tvars, vars, server, fibers
    <2>2. TasksTypeOK'
      BY <2>1 DEF TasksIInv, TasksTypeOK, TypeOK
    <2>3. ServerExclusive' /\ MutexOfOwn'
      BY <2>1 DEF TasksIInv, ServerExclusive, ServerHolds, MutexOfOwn
    <2>4. ASSUME NEW g \in Fiber PROVE TaskInv(g)'
      <3>1. \A k : Debts(ConnOf[g], k)' = Debts(ConnOf[g], k)
        BY <2>1 DEF Debts, Owing
      <3>2. TaskInv(g)
        BY DEF TasksIInv
      <3>3. StatementOfCall(g)' /\ SharedHasNoTransaction(g)' /\ DebtsCovered(g)'
        BY <2>1, <3>1, <3>2
        DEF TaskInv, StatementOfCall, SharedHasNoTransaction, DebtsCovered, Accepts
      <3>4. AloneIsBacked(g)' /\ AloneKnows(g)'
        BY <2>1, <3>2
        DEF TaskInv, AloneIsBacked, AloneKnows, Accepts, ServerHolds
      <3>5. QED
        BY <3>3, <3>4 DEF TaskInv
    <2>5. QED
      BY <2>2, <2>3, <2>4 DEF TasksIInv
  <1>21. ASSUME NEW f \in Fiber, LockSteps(f) PROVE TasksIInv'
    BY <1>21, <1>1, <1>2, <1>3, <1>4, <1>5, <1>6, <1>7, <1>8, <1>9
    DEF LockSteps
  <1>22. ASSUME NEW f \in Fiber, Alone(f), TransactionSteps(f) PROVE TasksIInv'
    BY <1>22, <1>10, <1>11, <1>12, <1>13, <1>14, <1>15, <1>16, <1>17, <1>18
    DEF TransactionSteps
  <1>23. QED
    BY <1>19, <1>20, <1>21, <1>22 DEF ApartNext

LEMMA TasksInitIInv == TasksInit => TasksIInv
  <1> SUFFICES ASSUME TasksInit PROVE TasksIInv
    OBVIOUS
  <1> USE FiberAssumption DEF TasksInit, Init
  <1>1. TasksTypeOK
    <2>1. NoSession \in [Key -> 0..MaxDepth]
      BY MaxDepthAssumption DEF NoSession
    <2>2. TypeOK
      BY <2>1 DEF TypeOK, Status, Result
    <2>3. QED
      BY <2>2 DEF TasksTypeOK
  <1>2. ServerExclusive /\ MutexOfOwn
    BY DEF ServerExclusive, ServerHolds, NoSession, MutexOfOwn
  <1>3. ASSUME NEW f \in Fiber PROVE TaskInv(f)
    <2>1. ASSUME NEW k \in Key
          PROVE  Cardinality(Debts(ConnOf[f], k)) <= session[ConnOf[f]][k]
      <3>1. Debts(ConnOf[f], k) = {}
        BY DEF Debts, Owing
      <3>2. QED
        BY <3>1, FS_EmptySet DEF NoSession
    <2>2. QED
      BY <2>1, NoStatementIs
      DEF TaskInv, StatementOfCall, SharedHasNoTransaction, DebtsCovered,
          AloneIsBacked, AloneKnows
  <1>4. QED
    BY <1>1, <1>2, <1>3 DEF TasksIInv

-----------------------------------------------------------------------------
(* The theorems.                                                           *)

\* Whoever is told that the lock is here has it on the server.
LEMMA BackedByInvariant == TasksIInv => CacheIsBacked
  <1> SUFFICES ASSUME TasksIInv, NEW c \in Conn, NEW k \in Key, Told(c, k)
               PROVE  k \in ServerHolds(c)
    BY DEF CacheIsBacked
  <1>1. PICK f \in Fiber : ConnOf[f] = c /\ pc[f] = "idle"
    BY DEF Told
  <1>2. k \in locks_[c] /\ Accepts(c) /\ TaskInv(f)
    BY DEF Told, Owns, TasksIInv
  <1>3. CASE Alone(f)
    BY <1>1, <1>2, <1>3, NoStatementIs
    DEF TaskInv, AloneIsBacked, StatementOfCall
  <1>4. CASE ~Alone(f)
    <2>1. Cardinality(Debts(c, k)) <= session[c][k] /\ session[c][k] \in Nat
      BY <1>1, <1>2, <1>4, MaxDepthAssumption
      DEF TaskInv, DebtsCovered, TasksIInv, TasksTypeOK, TypeOK
    <2>2. NoFiber \in Debts(c, k)
      BY <1>2 DEF Debts
    <2>3. Cardinality({}) + 1 <= Cardinality(Debts(c, k)) /\ Cardinality({}) = 0
      BY <2>2, CountsOneFewer, DebtsTyped, FS_EmptySet
    <2>4. session[c][k] > 0
      BY <2>1, <2>3, DebtsTyped
    <2>5. QED
      BY <2>4 DEF ServerHolds
  <1>5. QED
    BY <1>3, <1>4

\* The inductive invariant holds in every state while tasks that share a
\* connection only lock and unlock.
THEOREM TasksInvariance == ApartSpec => []TasksIInv
  BY TasksInitIInv, TasksNextIInv, PTL DEF ApartSpec

\* The variables are of their types, and the mutex of a connection is with the
\* task whose statement is on its way.
THEOREM TasksTypeCorrect == ApartSpec => []TasksTypeOK
  BY TasksInvariance, PTL DEF TasksIInv

\* While tasks that share a connection only lock and unlock, the lock cache is
\* backed by the server whenever a task can look at it, for any number of them.
THEOREM CacheBackedByServer == ApartSpec => []CacheIsBacked
  BY TasksInvariance, BackedByInvariant, PTL

\* "If another connection attempts to place an identical lock on the same
\* database it will be denied": the tasks of two connections are never told
\* at the same time that they have the same lock, as long as tasks that share a
\* connection only lock and unlock single records (ApartSpec).
THEOREM TasksAreExcluded == ApartSpec => []TasksExclude
  <1>1. TasksIInv => TasksExclude
    BY BackedByInvariant DEF TasksIInv, CacheIsBacked, TasksExclude, ServerExclusive
  <1>2. QED
    BY <1>1, TasksInvariance, PTL
=============================================================================
