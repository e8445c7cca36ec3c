------------------------- MODULE RecordCacheProofs -------------------------
(***************************************************************************)
(* Proofs about RecordCache, for any number of tasks that keep apart, any  *)
(* records and any number of changes: readc() gives neither what the       *)
(* program itself has changed since nor, outside a transaction, what is    *)
(* not committed.                                                          *)
(*                                                                         *)
(* Both are about the cache.  IInv adds what they depend on: what the      *)
(* server has of the records, whether the server is in a transaction when  *)
(* the program believes that it is not, what a task has read and not put   *)
(* in the cache yet, and what it has dropped from the cache for a call     *)
(* that is in progress.                                                    *)
(***************************************************************************)
EXTENDS RecordCache, FiniteSetTheorems, TLAPS

\* What TypeOK says of the fibers.
FibersTyped ==
  /\ mutex_ \in Fiber \cup {None}
  /\ pc \in [Fiber -> {"idle", "wait", "sent", "done"}]
  /\ \A f \in Fiber : pc[f] \in {"sent", "done"} <=> mutex_ = f
  /\ stmt \in [Fiber -> Statement \cup {None}]
  /\ outcome \in [Fiber -> [ok : BOOLEAN, rec : Record \cup {None}]]

Busy(f) == pc[f] # "idle"
Unsent(f) == pc[f] \in {"wait", "sent"}
Succeeded(f) == pc[f] = "done" /\ outcome[f].ok

\* The fibers that will still change a record.
Changing ==
  {f \in Fiber : \/ Unsent(f) /\ stmt[f].do \in Change
                 \/ Busy(f) /\ stmt[f].do = "writef"}

\* MaxWrite leaves room for them.
RoomLeft == lastWrite + Cardinality(Changing) <= MaxWrite

\* A call in progress has a statement; writef() is about one record.
HasStatement ==
  \A f \in Fiber : Busy(f) =>
    /\ stmt[f] \in Statement
    /\ stmt[f].do = "writef" => stmt[f].to = stmt[f].key

\* What is numbered has been done.
NumberedSoFar ==
  /\ \A k \in Key : /\ db[k].n <= lastWrite /\ known[k] <= lastWrite
                    /\ pending[k] # None => pending[k].n \in 1..lastWrite
  /\ dead \subseteq 1..lastWrite

\* Only a transaction that is running has changes that are not committed;
\* what is committed is neither one of them nor was it rolled back.
PendingInTransaction == status # "INTRANS" => pending = Unchanged

CommittedApart ==
  /\ \A k \in Key : db[k].n \notin dead \cup Uncommitted
  /\ Uncommitted \cap dead = {}

\* What the program knows of is still there, or was changed since; if the
\* transaction is rolled back, what it knew of before.
KnownIsThere ==
  \A k \in Key :
    /\ knownBefore[k] <= known[k]
    /\ known[k] <= Seen(k).n
    /\ status = "INTRANS" => knownBefore[k] <= db[k].n

\* A call that changes records has dropped them from the cache, a call that
\* begins or ends a transaction has dropped all.
Dropped ==
  \A f \in Fiber : Busy(f) =>
    /\ stmt[f].do \in Change => ~Cached(stmt[f].key) /\ ~Cached(stmt[f].to)
    /\ ~Keyed(stmt[f]) => \A k \in Key : ~Cached(k)

\* in_transaction_ is FALSE in a transaction of the server only while the call
\* that ends or begins it is in progress.
FlagAgrees ==
  /\ \/ in_transaction_
     \/ status \in {"IDLE", "UNKNOWN"}
     \/ \E f \in Fiber :
          \/ Unsent(f) /\ stmt[f].do \in {"rollback", "end"}
          \/ Succeeded(f) /\ stmt[f].do = "begin"
  /\ \A f \in Fiber :
       /\ Succeeded(f) /\ stmt[f].do = "begin" => status = "INTRANS"
       /\ pc[f] = "done" /\ stmt[f].do \in {"rollback", "end"} =>
            status \in {"IDLE", "UNKNOWN"}

\* What a task has read and is about to put in the cache.
ReadIsNew ==
  \A f \in Fiber : Succeeded(f) /\ stmt[f].do = "readc" =>
    /\ outcome[f].rec \in Record
    /\ known[stmt[f].key] <= outcome[f].rec.n
    /\ ~in_transaction_ => outcome[f].rec.n \notin dead \cup Uncommitted

\* What a task has changed and is about to know of.
ChangeIsThere ==
  \A f \in Fiber : Succeeded(f) /\ stmt[f].do \in Change =>
    /\ outcome[f].rec \in Record
    /\ \A k \in {stmt[f].key, stmt[f].to} :
         known[k] <= outcome[f].rec.n /\ outcome[f].rec.n <= Seen(k).n

ServerInv ==
  NumberedSoFar /\ PendingInTransaction /\ CommittedApart /\ KnownIsThere

IInv ==
  /\ TypeOK /\ HasStatement /\ Apart /\ RoomLeft /\ ServerInv
  /\ Dropped /\ FlagAgrees /\ ReadIsNew /\ ChangeIsThere
  /\ CacheNotObsolete /\ CacheIsCommitted

-----------------------------------------------------------------------------
(* Records, texts and numbers.                                             *)

\* A record, and what the cache has of it, has a number; neither is None.
LEMMA EntryTyped ==
  ASSUME NEW e \in Entry
  PROVE  e.n \in Nat /\ e # None /\ e # Program
  <1>1. e.n \in 0..MaxWrite
    BY Zenon DEF Entry
  <1>2. QED
    BY <1>1, MaxWriteAssumption, NoneAssumption

LEMMA RecordTyped ==
  ASSUME NEW r \in Record
  PROVE  /\ r.n \in Nat /\ r.n \in 0..MaxWrite /\ r # None
         /\ Text(r) \in Entry /\ Text(r).n = r.n
         /\ Text(r) # None /\ Text(r) # Program
  <1>1. r.n \in 0..MaxWrite /\ r.n \in Nat
    BY MaxWriteAssumption DEF Record
  <1>2. Text(r) \in Entry /\ Text(r).n = r.n
    BY <1>1, Zenon DEF Text, Entry
  <1>3. QED
    BY <1>1, <1>2, NoneAssumption

LEMMA Typed ==
  /\ \A r \in Record :
       /\ r.n \in Nat /\ r.n \in 0..MaxWrite /\ r # None
       /\ Text(r) \in Entry /\ Text(r).n = r.n
       /\ Text(r) # None /\ Text(r) # Program
  /\ \A e \in Entry : e.n \in Nat /\ e # None /\ e # Program
  /\ None \notin Fiber /\ None # Program /\ MaxWrite \in Nat
  BY RecordTyped, EntryTyped, NoneAssumption, FiberAssumption,
     MaxWriteAssumption

\* The keys of a statement, and the statements that calls ask for.
LEMMA KeysOf ==
  ASSUME NEW s \in Statement, s.do \in Change \cup {"readc", "writef"}
  PROVE  s.key \in Key /\ s.to \in Key
  BY DEF Statement, Change

LEMMA StatementIs ==
  ASSUME NEW s \in Statement
  PROVE  s.do \in Change \cup {"readc", "writef", "begin", "rollback", "end"}
  BY DEF Statement

LEMMA StatementFor ==
  ASSUME NEW o \in Change \cup {"readc", "writef"}, NEW k \in Key, NEW k2 \in Key
  PROVE  [do |-> o, key |-> k, to |-> k2] \in Statement
  BY DEF Statement

LEMMA StatementAlone ==
  ASSUME NEW o \in {"begin", "rollback", "end"}
  PROVE  [do |-> o] \in Statement
  BY DEF Statement

LEMMA StatementOfWritef ==
  ASSUME NEW s \in Statement, s.do = "writef"
  PROVE  [s EXCEPT !.do = "write"] \in Statement
  BY DEF Statement, Change

-----------------------------------------------------------------------------
(* Counting.                                                               *)

LEMMA Counts ==
  ASSUME NEW S, S \subseteq Fiber
  PROVE  IsFiniteSet(S) /\ Cardinality(S) \in Nat
  BY FiberAssumption, FS_Subset, FS_CardinalityType

LEMMA CountsOrdered ==
  ASSUME NEW S, NEW T, S \subseteq Fiber, T \subseteq S
  PROVE  Cardinality(T) <= Cardinality(S)
  BY Counts, FS_Subset

LEMMA CountsOneMore ==
  ASSUME NEW S, NEW T, S \subseteq Fiber, NEW f \in Fiber, T \subseteq S \cup {f}
  PROVE  Cardinality(T) <= Cardinality(S) + 1
  <1>1. CASE f \in S
    BY <1>1, Counts, CountsOrdered
  <1>2. CASE f \notin S
    <2>1. Cardinality(S \cup {f}) = Cardinality(S) + 1
      BY <1>2, Counts, FS_AddElement
    <2>2. QED
      BY <2>1, CountsOrdered
  <1>3. QED
    BY <1>1, <1>2

LEMMA CountsOneFewer ==
  ASSUME NEW S, S \subseteq Fiber, NEW f \in S, NEW T, T \subseteq S \ {f}
  PROVE  Cardinality(T) + 1 <= Cardinality(S)
  <1>1. IsFiniteSet(S) /\ Cardinality(S) \in Nat /\ S # {}
    BY Counts
  <1>2. Cardinality(S \ {f}) = Cardinality(S) - 1
    BY <1>1, FS_RemoveElement
  <1>3. /\ Cardinality(T) <= Cardinality(S \ {f})
        /\ Cardinality(T) \in Nat /\ Cardinality(S \ {f}) \in Nat
    BY Counts, CountsOrdered
  <1>4. QED
    BY <1>1, <1>2, <1>3

\* The room is as much as before when no fiber comes to change a record.
LEMMA RoomStays ==
  ASSUME TypeOK, RoomLeft, Changing' \subseteq Changing, UNCHANGED lastWrite
  PROVE  RoomLeft'
  <1>1. Changing \subseteq Fiber /\ lastWrite \in Nat
    BY MaxWriteAssumption DEF Changing, TypeOK
  <1>2. /\ Cardinality(Changing') <= Cardinality(Changing)
        /\ Cardinality(Changing) \in Nat /\ Cardinality(Changing') \in Nat
    BY <1>1, Counts, CountsOrdered
  <1>3. QED
    BY <1>1, <1>2, MaxWriteAssumption DEF RoomLeft

\* A fiber that is going to change a record has found room for it.
LEMMA RoomTaken ==
  ASSUME TypeOK, Room, NEW f \in Fiber, Changing' \subseteq Changing \cup {f},
         UNCHANGED lastWrite
  PROVE  RoomLeft'
  <1> DEFINE S == {g \in Fiber : pc[g] # "idle"}
  <1>1. Changing \subseteq S /\ S \subseteq Fiber /\ lastWrite \in Nat
    BY MaxWriteAssumption DEF Changing, TypeOK, Unsent, Busy
  <1>2. lastWrite + Cardinality(S) < MaxWrite
    BY DEF Room
  <1> HIDE DEF S
  <1>3. Changing' \subseteq S \cup {f}
    BY <1>1
  <1>4. /\ Cardinality(Changing') <= Cardinality(S) + 1
        /\ Cardinality(S) \in Nat
    BY <1>1, <1>3, Counts, CountsOneMore
  <1>5. Cardinality(Changing') \in Nat
    BY Counts DEF Changing
  <1>6. QED
    BY <1>1, <1>2, <1>4, <1>5, MaxWriteAssumption DEF RoomLeft

-----------------------------------------------------------------------------
(* The pieces that calls are made of.                                      *)

LEMMA TypedFibers == TypeOK => FibersTyped
  BY DEF TypeOK, FibersTyped

LEMMA AskKeeps ==
  ASSUME FibersTyped, HasStatement, NEW f \in Fiber, NEW s \in Statement, Ask(f, s),
         s.do = "writef" => s.to = s.key
  PROVE  FibersTyped' /\ HasStatement'
  <1>1. CASE mutex_ = None
    BY <1>1, Typed DEF FibersTyped, HasStatement, Busy, Ask, Send
  <1>2. CASE mutex_ # None
    BY <1>2, Typed DEF FibersTyped, HasStatement, Busy, Ask, Send
  <1>3. QED
    BY <1>1, <1>2

LEMMA RunKeeps ==
  ASSUME FibersTyped, HasStatement, NEW f \in Fiber,
         NEW r \in [ok : BOOLEAN, rec : Record \cup {None}], Run(f, r)
  PROVE  FibersTyped' /\ HasStatement'
  BY Typed DEF FibersTyped, HasStatement, Busy, Run

LEMMA FailureTyped ==
  /\ Failure \in [ok : BOOLEAN, rec : Record \cup {None}]
  /\ Done \in [ok : BOOLEAN, rec : Record \cup {None}]
  /\ ~Failure.ok /\ Done.ok
  BY DEF Failure, Done

LEMMA ReturnKeeps ==
  ASSUME FibersTyped, HasStatement, NEW f \in Fiber, Return(f)
  PROVE  FibersTyped' /\ HasStatement'
  BY Typed, FailureTyped DEF FibersTyped, HasStatement, Busy, Return

\* The server rolls back.
LEMMA AbortKeeps ==
  ASSUME TypeOK, ServerInv, NEW s \in {"IDLE", "INERROR", "UNKNOWN"}, Abort(s)
  PROVE  /\ ServerInv'
         /\ pending' = Unchanged /\ pending' \in [Key -> Record \cup {None}]
         /\ known' \in [Key -> 0..MaxWrite] /\ dead' \subseteq 1..MaxWrite
         /\ Uncommitted' = {} /\ dead' = dead \cup Uncommitted
         /\ \A k \in Key : known'[k] <= known[k] /\ known'[k] \in Nat
  <1>1. pending' = Unchanged /\ Uncommitted' = {}
    BY DEF Abort, Unchanged, Uncommitted
  <1>2. Uncommitted \subseteq 1..lastWrite /\ lastWrite \in 0..MaxWrite
    BY DEF Uncommitted, ServerInv, NumberedSoFar, TypeOK
  <1>3. \A k \in Key : known'[k] <= known[k] /\ known'[k] \in Nat
    BY Typed DEF Abort, TypeOK, ServerInv, KnownIsThere
  <1>4. NumberedSoFar'
    BY <1>1, <1>2, Typed
    DEF Abort, NumberedSoFar, ServerInv, TypeOK, KnownIsThere, Unchanged
  <1>5. PendingInTransaction' /\ CommittedApart'
    BY <1>1 DEF Abort, PendingInTransaction, CommittedApart, ServerInv
  <1>6. KnownIsThere'
    BY <1>1, Typed DEF Abort, KnownIsThere, ServerInv, PendingInTransaction,
                       Seen, Unchanged, TypeOK
  <1>7. QED
    BY <1>1, <1>2, <1>3, <1>4, <1>5, <1>6, Typed
    DEF Abort, ServerInv, Unchanged, TypeOK

\* A statement changes a record, committed or as the transaction leaves it.
LEMMA ExecChangeMakes ==
  ASSUME TypeOK, HasStatement, NEW f \in Fiber, ExecChange(f), lastWrite < MaxWrite
  PROVE  \E r \in Record :
           /\ r.n = lastWrite + 1
           /\ Run(f, [ok |-> TRUE, rec |-> r])
           /\ db' \in [Key -> Record]
           /\ pending' \in [Key -> Record \cup {None}]
           /\ \A k \in Key :
                IF k \in {stmt[f].key, stmt[f].to}
                THEN IF status = "INTRANS"
                     THEN /\ pending'[k] \in Record /\ pending'[k].n = lastWrite + 1
                          /\ db'[k] = db[k]
                     ELSE db'[k].n = lastWrite + 1 /\ pending'[k] = pending[k]
                ELSE db'[k] = db[k] /\ pending'[k] = pending[k]
  <1> DEFINE s == stmt[f]
  <1>1. s.key \in Key /\ s.to \in Key /\ s \in Statement /\ s.do \in Change
    BY KeysOf DEF ExecChange, HasStatement, Busy
  <1> DEFINE new(r, old) ==
        [k \in Key |-> CASE k = s.to  -> r
                        [] k # s.to /\ k = s.key -> [r EXCEPT !.is = "none"]
                        [] OTHER     -> old[k]]
  <1>2. PICK r \in Made(s) :
          /\ IF status = "INTRANS" THEN pending' = new(r, pending) /\ UNCHANGED db
                                   ELSE db' = new(r, db) /\ UNCHANGED pending
          /\ Run(f, [ok |-> TRUE, rec |-> r])
    BY DEF ExecChange
  <1>3. lastWrite + 1 \in 0..MaxWrite
    BY MaxWriteAssumption DEF TypeOK
  <1>4. s.do = "updatekey" => Seen(s.key).is \in {"none", "empty", "full"}
    <2>1. Seen(s.key) \in Record
      BY <1>1 DEF TypeOK, Seen
    <2>2. QED
      BY <2>1 DEF Record
  <1>5. r \in Record /\ r.n = lastWrite + 1
    <2>1. CASE s.do = "deleterecord"
      BY <1>2, <1>3, <2>1 DEF Made, Record
    <2>2. CASE s.do = "updatekey"
      BY <1>2, <1>3, <1>4, <2>2 DEF Made, Record
    <2>3. CASE s.do \notin {"deleterecord", "updatekey"}
      BY <1>2, <1>3, <2>3 DEF Made, Record
    <2>4. QED
      BY <2>1, <2>2, <2>3
  <1>6. [r EXCEPT !.is = "none"] \in Record /\ [r EXCEPT !.is = "none"].n = lastWrite + 1
    BY <1>5 DEF Record
  <1>7. ASSUME NEW old, NEW k \in Key
        PROVE  /\ k \in {s.key, s.to} =>
                    new(r, old)[k] \in Record /\ new(r, old)[k].n = lastWrite + 1
               /\ k \notin {s.key, s.to} => new(r, old)[k] = old[k]
    <2>1. CASE k = s.to
      BY <1>5, <2>1
    <2>2. CASE k # s.to /\ k = s.key
      BY <1>6, <2>2
    <2>3. CASE k \notin {s.key, s.to}
      BY <2>3
    <2>4. QED
      BY <2>1, <2>2, <2>3
  <1>8. CASE status = "INTRANS"
    <2>1. pending' = new(r, pending) /\ db' = db
      BY <1>2, <1>8
    <2>2. \A k \in Key : pending'[k] \in Record \cup {None}
      BY <1>7, <2>1 DEF TypeOK
    <2>3. pending' \in [Key -> Record \cup {None}]
      BY <2>1, <2>2
    <2>4. QED
      BY <1>2, <1>5, <1>7, <1>8, <2>1, <2>3 DEF TypeOK
  <1>9. CASE status # "INTRANS"
    <2>1. db' = new(r, db) /\ pending' = pending
      BY <1>2, <1>9
    <2>2. \A k \in Key : db'[k] \in Record
      BY <1>7, <2>1 DEF TypeOK
    <2>3. db' \in [Key -> Record]
      BY <2>1, <2>2
    <2>4. QED
      BY <1>2, <1>5, <1>7, <1>9, <2>1, <2>3 DEF TypeOK
  <1>10. QED
    BY <1>8, <1>9

\* In a call that neither begins nor ends a transaction, and while there is
\* something in the cache, the server is in a transaction only if the program
\* believes so.
LEMMA ReadsCommitted ==
  ASSUME IInv, ~in_transaction_, NEW f \in Fiber, Busy(f), Keyed(stmt[f])
  PROVE  /\ status \in {"IDLE", "UNKNOWN"} /\ pending = Unchanged
         /\ Uncommitted = {} /\ \A k \in Key : Seen(k) = db[k]
  <1>1. ASSUME NEW g \in Fiber, Busy(g) PROVE Keyed(stmt[g])
    BY <1>1 DEF IInv, Apart, Busy
  <1>2. status \in {"IDLE", "UNKNOWN"}
    BY <1>1 DEF IInv, FlagAgrees, Unsent, Succeeded, Busy, Keyed
  <1>3. pending = Unchanged
    BY <1>2 DEF IInv, ServerInv, PendingInTransaction
  <1>4. QED
    BY <1>2, <1>3 DEF Uncommitted, Unchanged, Seen

LEMMA CachesCommitted ==
  ASSUME IInv, ~in_transaction_, NEW k \in Key, Cached(k)
  PROVE  status \in {"IDLE", "UNKNOWN"} /\ pending = Unchanged /\ Uncommitted = {}
  <1>1. ASSUME NEW g \in Fiber, Busy(g) PROVE Keyed(stmt[g])
    BY <1>1 DEF IInv, Dropped
  <1>2. status \in {"IDLE", "UNKNOWN"}
    BY <1>1 DEF IInv, FlagAgrees, Unsent, Succeeded, Busy, Keyed
  <1>3. pending = Unchanged
    BY <1>2 DEF IInv, ServerInv, PendingInTransaction
  <1>4. QED
    BY <1>2, <1>3 DEF Uncommitted, Unchanged

LEMMA CacheTyped ==
  ASSUME TypeOK, NEW k \in Key, Cached(k)
  PROVE  dbcache_[k] \in Entry /\ dbcache_[k].n \in Nat
  BY Typed DEF TypeOK, Cached

-----------------------------------------------------------------------------
(* The steps.                                                              *)

LEMMA NextIInv == IInv /\ [Next /\ Apart']_vars => IInv'
  <1> SUFFICES ASSUME IInv, [Next /\ Apart']_vars PROVE IInv'
    OBVIOUS
  <1>1. ASSUME NEW f \in Fiber, NEW k \in Key, ReadcStart(f, k), Apart'
        PROVE  IInv'
    <2> USE <1>1, Typed
            DEF IInv, ServerInv, ReadcStart, Ask, server, ghosts, Send
    <2> DEFINE s == [do |-> "readc", key |-> k, to |-> k]
    <2>a. s \in Statement /\ Ask(f, s)
      BY StatementFor DEF Change
    <2>b. FibersTyped' /\ HasStatement'
      BY <2>a, AskKeeps, TypedFibers DEF Change
    <2>1. TypeOK'
      BY <2>b DEF TypeOK, FibersTyped
    <2>2. HasStatement'
      BY <2>b
    <2>3. Apart'
      BY <1>1
    <2>4. RoomLeft'
      <3>1. Changing' \subseteq Changing
        BY DEF Changing, TypeOK, Unsent, Busy, Change
      <3>2. QED
        BY <3>1, RoomStays
    <2>5. ServerInv'
      BY DEF ServerInv, NumberedSoFar, PendingInTransaction, CommittedApart,
             KnownIsThere, Uncommitted, Seen, TypeOK
    <2>6. Dropped'
      BY KeysOf
      DEF Dropped, TypeOK, Cached, Keyed, Apart, Busy, HasStatement, Change
    <2>7. FlagAgrees'
      BY DEF FlagAgrees, TypeOK, Unsent, Succeeded, Apart, Busy, Keyed, Change
    <2>8. ReadIsNew'
      BY DEF ReadIsNew, TypeOK, Unsent, Succeeded, Apart, Busy, Keyed,
             Uncommitted
    <2>9. ChangeIsThere'
      BY DEF ChangeIsThere, TypeOK, Succeeded, Seen, Change
    <2>10. CacheNotObsolete'
      BY DEF CacheNotObsolete, TypeOK, Cached
    <2>11. CacheIsCommitted'
      BY DEF CacheIsCommitted, TypeOK, Cached, Uncommitted
    <2>12. QED
      BY <2>1, <2>2, <2>3, <2>4, <2>5, <2>6, <2>7, <2>8, <2>9, <2>10, <2>11
  <1>2. ASSUME NEW f \in Fiber, NEW k \in Key, WritefStart(f, k), Apart'
        PROVE  IInv'
    <2> USE <1>2, Typed
            DEF IInv, ServerInv, WritefStart, Ask, server, ghosts, Send
    <2> DEFINE s == [do |-> "writef", key |-> k, to |-> k]
    <2>a. s \in Statement /\ Ask(f, s)
      BY StatementFor DEF Change
    <2>b. FibersTyped' /\ HasStatement'
      BY <2>a, AskKeeps, TypedFibers DEF Change
    <2>1. TypeOK'
      BY <2>b DEF TypeOK, FibersTyped
    <2>2. HasStatement'
      BY <2>b
    <2>3. Apart'
      BY <1>2
    <2>4. RoomLeft'
      <3>1. Changing' \subseteq Changing \cup {f}
        BY DEF Changing, TypeOK, Unsent, Busy, Change
      <3>2. QED
        BY <3>1, RoomTaken
    <2>5. ServerInv'
      BY DEF ServerInv, NumberedSoFar, PendingInTransaction, CommittedApart,
             KnownIsThere, Uncommitted, Seen, TypeOK
    <2>6. Dropped'
      BY KeysOf
      DEF Dropped, TypeOK, Cached, Keyed, Apart, Busy, HasStatement, Change
    <2>7. FlagAgrees'
      BY DEF FlagAgrees, TypeOK, Unsent, Succeeded, Apart, Busy, Keyed, Change
    <2>8. ReadIsNew'
      BY DEF ReadIsNew, TypeOK, Unsent, Succeeded, Apart, Busy, Keyed,
             Uncommitted
    <2>9. ChangeIsThere'
      BY DEF ChangeIsThere, TypeOK, Succeeded, Seen, Change
    <2>10. CacheNotObsolete'
      BY DEF CacheNotObsolete, TypeOK, Cached
    <2>11. CacheIsCommitted'
      BY DEF CacheIsCommitted, TypeOK, Cached, Uncommitted
    <2>12. QED
      BY <2>1, <2>2, <2>3, <2>4, <2>5, <2>6, <2>7, <2>8, <2>9, <2>10, <2>11
  <1>3. ASSUME NEW f \in Fiber, NEW k \in Key, Writec(f, k), Apart'
        PROVE  IInv'
    <2> USE <1>3, Typed DEF IInv, ServerInv, Writec, server, fibers, ghosts
    <2>b. FibersTyped' /\ HasStatement'
      BY DEF FibersTyped, TypeOK, HasStatement, Busy
    <2>1. TypeOK'
      BY <2>b DEF TypeOK, FibersTyped
    <2>2. HasStatement'
      BY <2>b
    <2>3. Apart'
      BY <1>3
    <2>4. RoomLeft'
      <3>1. Changing' \subseteq Changing
        BY DEF Changing, TypeOK, Unsent, Busy, Change
      <3>2. QED
        BY <3>1, RoomStays
    <2>5. ServerInv'
      BY DEF ServerInv, NumberedSoFar, PendingInTransaction, CommittedApart,
             KnownIsThere, Uncommitted, Seen, TypeOK
    <2>6. Dropped'
      BY KeysOf
      DEF Dropped, TypeOK, Cached, Keyed, Apart, Busy, HasStatement, Change
    <2>7. FlagAgrees'
      BY DEF FlagAgrees, TypeOK, Unsent, Succeeded, Apart, Busy, Keyed, Change
    <2>8. ReadIsNew'
      BY DEF ReadIsNew, TypeOK, Unsent, Succeeded, Apart, Busy, Keyed,
             Uncommitted
    <2>9. ChangeIsThere'
      BY DEF ChangeIsThere, TypeOK, Succeeded, Seen, Change
    <2>10. CacheNotObsolete'
      BY DEF CacheNotObsolete, TypeOK, Cached
    <2>11. CacheIsCommitted'
      BY DEF CacheIsCommitted, TypeOK, Cached, Uncommitted
    <2>12. QED
      BY <2>1, <2>2, <2>3, <2>4, <2>5, <2>6, <2>7, <2>8, <2>9, <2>10, <2>11
  <1>4. ASSUME NEW f \in Fiber, NEW k \in Key, Deletec(f, k), Apart'
        PROVE  IInv'
    <2> USE <1>4, Typed
            DEF IInv, ServerInv, Deletec, Drop, server, fibers, ghosts
    <2>b. FibersTyped' /\ HasStatement'
      BY DEF FibersTyped, TypeOK, HasStatement, Busy
    <2>1. TypeOK'
      BY <2>b DEF TypeOK, FibersTyped
    <2>2. HasStatement'
      BY <2>b
    <2>3. Apart'
      BY <1>4
    <2>4. RoomLeft'
      <3>1. Changing' \subseteq Changing
        BY DEF Changing, TypeOK, Unsent, Busy, Change
      <3>2. QED
        BY <3>1, RoomStays
    <2>5. ServerInv'
      BY DEF ServerInv, NumberedSoFar, PendingInTransaction, CommittedApart,
             KnownIsThere, Uncommitted, Seen, TypeOK
    <2>6. Dropped'
      BY KeysOf
      DEF Dropped, TypeOK, Cached, Keyed, Apart, Busy, HasStatement, Change
    <2>7. FlagAgrees'
      BY DEF FlagAgrees, TypeOK, Unsent, Succeeded, Apart, Busy, Keyed, Change
    <2>8. ReadIsNew'
      BY DEF ReadIsNew, TypeOK, Unsent, Succeeded, Apart, Busy, Keyed,
             Uncommitted
    <2>9. ChangeIsThere'
      BY DEF ChangeIsThere, TypeOK, Succeeded, Seen, Change
    <2>10. CacheNotObsolete'
      BY DEF CacheNotObsolete, TypeOK, Cached
    <2>11. CacheIsCommitted'
      BY DEF CacheIsCommitted, TypeOK, Cached, Uncommitted
    <2>12. QED
      BY <2>1, <2>2, <2>3, <2>4, <2>5, <2>6, <2>7, <2>8, <2>9, <2>10, <2>11
  <1>5. ASSUME NEW f \in Fiber, NEW k \in Key,
               NEW o \in Change \ {"updatekey"}, ChangeStart(f, o, k), Apart'
        PROVE  IInv'
    <2> USE <1>5, Typed
            DEF IInv, ServerInv, ChangeStart, Drop, Ask, server, ghosts, Send
    <2> DEFINE s == [do |-> o, key |-> k, to |-> k]
    <2>a. s \in Statement /\ Ask(f, s)
      BY StatementFor DEF Change
    <2>b. FibersTyped' /\ HasStatement'
      BY <2>a, AskKeeps, TypedFibers DEF Change
    <2>1. TypeOK'
      BY <2>b DEF TypeOK, FibersTyped
    <2>2. HasStatement'
      BY <2>b
    <2>3. Apart'
      BY <1>5
    <2>4. RoomLeft'
      <3>1. Changing' \subseteq Changing \cup {f}
        BY DEF Changing, TypeOK, Unsent, Busy, Change
      <3>2. QED
        BY <3>1, RoomTaken
    <2>5. ServerInv'
      BY DEF ServerInv, NumberedSoFar, PendingInTransaction, CommittedApart,
             KnownIsThere, Uncommitted, Seen, TypeOK
    <2>6. Dropped'
      BY KeysOf
      DEF Dropped, TypeOK, Cached, Keyed, Apart, Busy, HasStatement, Change
    <2>7. FlagAgrees'
      BY DEF FlagAgrees, TypeOK, Unsent, Succeeded, Apart, Busy, Keyed, Change
    <2>8. ReadIsNew'
      BY DEF ReadIsNew, TypeOK, Unsent, Succeeded, Apart, Busy, Keyed,
             Uncommitted
    <2>9. ChangeIsThere'
      BY DEF ChangeIsThere, TypeOK, Succeeded, Seen, Change
    <2>10. CacheNotObsolete'
      BY DEF CacheNotObsolete, TypeOK, Cached
    <2>11. CacheIsCommitted'
      BY DEF CacheIsCommitted, TypeOK, Cached, Uncommitted
    <2>12. QED
      BY <2>1, <2>2, <2>3, <2>4, <2>5, <2>6, <2>7, <2>8, <2>9, <2>10, <2>11
  <1>6. ASSUME NEW f \in Fiber, NEW k \in Key, NEW k2 \in Key \ {k},
               UpdatekeyStart(f, k, k2), Apart'
        PROVE  IInv'
    <2> USE <1>6, Typed
            DEF IInv, ServerInv, UpdatekeyStart, Drop, Ask, server, ghosts,
                Send
    <2> DEFINE s == [do |-> "updatekey", key |-> k, to |-> k2]
    <2>a. s \in Statement /\ Ask(f, s)
      BY StatementFor DEF Change
    <2>b. FibersTyped' /\ HasStatement'
      BY <2>a, AskKeeps, TypedFibers DEF Change
    <2>1. TypeOK'
      BY <2>b DEF TypeOK, FibersTyped
    <2>2. HasStatement'
      BY <2>b
    <2>3. Apart'
      BY <1>6
    <2>4. RoomLeft'
      <3>1. Changing' \subseteq Changing \cup {f}
        BY DEF Changing, TypeOK, Unsent, Busy, Change
      <3>2. QED
        BY <3>1, RoomTaken
    <2>5. ServerInv'
      BY DEF ServerInv, NumberedSoFar, PendingInTransaction, CommittedApart,
             KnownIsThere, Uncommitted, Seen, TypeOK
    <2>6. Dropped'
      BY KeysOf
      DEF Dropped, TypeOK, Cached, Keyed, Apart, Busy, HasStatement, Change
    <2>7. FlagAgrees'
      BY DEF FlagAgrees, TypeOK, Unsent, Succeeded, Apart, Busy, Keyed, Change
    <2>8. ReadIsNew'
      BY DEF ReadIsNew, TypeOK, Unsent, Succeeded, Apart, Busy, Keyed,
             Uncommitted
    <2>9. ChangeIsThere'
      BY DEF ChangeIsThere, TypeOK, Succeeded, Seen, Change
    <2>10. CacheNotObsolete'
      BY DEF CacheNotObsolete, TypeOK, Cached
    <2>11. CacheIsCommitted'
      BY DEF CacheIsCommitted, TypeOK, Cached, Uncommitted
    <2>12. QED
      BY <2>1, <2>2, <2>3, <2>4, <2>5, <2>6, <2>7, <2>8, <2>9, <2>10, <2>11
  <1>7. ASSUME NEW f \in Fiber, Clearcache(f), Apart'
        PROVE  IInv'
    <2> USE <1>7, Typed
            DEF IInv, ServerInv, Clearcache, Drop, server, fibers, ghosts
    <2>b. FibersTyped' /\ HasStatement'
      BY DEF FibersTyped, TypeOK, HasStatement, Busy
    <2>1. TypeOK'
      BY <2>b DEF TypeOK, FibersTyped
    <2>2. HasStatement'
      BY <2>b
    <2>3. Apart'
      BY <1>7
    <2>4. RoomLeft'
      <3>1. Changing' \subseteq Changing
        BY DEF Changing, TypeOK, Unsent, Busy, Change
      <3>2. QED
        BY <3>1, RoomStays
    <2>5. ServerInv'
      BY DEF ServerInv, NumberedSoFar, PendingInTransaction, CommittedApart,
             KnownIsThere, Uncommitted, Seen, TypeOK
    <2>6. Dropped'
      BY KeysOf
      DEF Dropped, TypeOK, Cached, Keyed, Apart, Busy, HasStatement, Change
    <2>7. FlagAgrees'
      BY DEF FlagAgrees, TypeOK, Unsent, Succeeded, Apart, Busy, Keyed, Change
    <2>8. ReadIsNew'
      BY DEF ReadIsNew, TypeOK, Unsent, Succeeded, Apart, Busy, Keyed,
             Uncommitted
    <2>9. ChangeIsThere'
      BY DEF ChangeIsThere, TypeOK, Succeeded, Seen, Change
    <2>10. CacheNotObsolete'
      BY DEF CacheNotObsolete, TypeOK, Cached
    <2>11. CacheIsCommitted'
      BY DEF CacheIsCommitted, TypeOK, Cached, Uncommitted
    <2>12. QED
      BY <2>1, <2>2, <2>3, <2>4, <2>5, <2>6, <2>7, <2>8, <2>9, <2>10, <2>11
  <1>8. ASSUME NEW f \in Fiber, BegintransStart(f), Apart'
        PROVE  IInv'
    <2> USE <1>8, Typed
            DEF IInv, ServerInv, BegintransStart, Drop, Ask, server, ghosts,
                Send
    <2> DEFINE s == [do |-> "begin"]
    <2>a. s \in Statement /\ Ask(f, s)
      BY StatementAlone DEF Change
    <2>b. FibersTyped' /\ HasStatement'
      BY <2>a, AskKeeps, TypedFibers DEF Change
    <2>1. TypeOK'
      BY <2>b DEF TypeOK, FibersTyped
    <2>2. HasStatement'
      BY <2>b
    <2>3. Apart'
      BY <1>8
    <2>4. RoomLeft'
      <3>1. Changing' \subseteq Changing
        BY DEF Changing, TypeOK, Unsent, Busy, Change
      <3>2. QED
        BY <3>1, RoomStays
    <2>5. ServerInv'
      BY DEF ServerInv, NumberedSoFar, PendingInTransaction, CommittedApart,
             KnownIsThere, Uncommitted, Seen, TypeOK
    <2>6. Dropped'
      BY KeysOf
      DEF Dropped, TypeOK, Cached, Keyed, Apart, Busy, HasStatement, Change
    <2>7. FlagAgrees'
      BY DEF FlagAgrees, TypeOK, Unsent, Succeeded, Apart, Busy, Keyed, Change
    <2>8. ReadIsNew'
      BY DEF ReadIsNew, TypeOK, Unsent, Succeeded, Apart, Busy, Keyed,
             Uncommitted
    <2>9. ChangeIsThere'
      BY DEF ChangeIsThere, TypeOK, Succeeded, Seen, Change
    <2>10. CacheNotObsolete'
      BY DEF CacheNotObsolete, TypeOK, Cached
    <2>11. CacheIsCommitted'
      BY DEF CacheIsCommitted, TypeOK, Cached, Uncommitted
    <2>12. QED
      BY <2>1, <2>2, <2>3, <2>4, <2>5, <2>6, <2>7, <2>8, <2>9, <2>10, <2>11
  <1>9. ASSUME NEW f \in Fiber, RollbacktransStart(f), Apart'
        PROVE  IInv'
    <2> USE <1>9, Typed
            DEF IInv, ServerInv, RollbacktransStart, Drop, Ask, server, ghosts,
                Send
    <2> DEFINE s == [do |-> "rollback"]
    <2>a. s \in Statement /\ Ask(f, s)
      BY StatementAlone DEF Change
    <2>b. FibersTyped' /\ HasStatement'
      BY <2>a, AskKeeps, TypedFibers DEF Change
    <2>1. TypeOK'
      BY <2>b DEF TypeOK, FibersTyped
    <2>2. HasStatement'
      BY <2>b
    <2>3. Apart'
      BY <1>9
    <2>4. RoomLeft'
      <3>1. Changing' \subseteq Changing
        BY DEF Changing, TypeOK, Unsent, Busy, Change
      <3>2. QED
        BY <3>1, RoomStays
    <2>5. ServerInv'
      BY DEF ServerInv, NumberedSoFar, PendingInTransaction, CommittedApart,
             KnownIsThere, Uncommitted, Seen, TypeOK
    <2>6. Dropped'
      BY KeysOf
      DEF Dropped, TypeOK, Cached, Keyed, Apart, Busy, HasStatement, Change
    <2>7. FlagAgrees'
      BY DEF FlagAgrees, TypeOK, Unsent, Succeeded, Apart, Busy, Keyed, Change
    <2>8. ReadIsNew'
      BY DEF ReadIsNew, TypeOK, Unsent, Succeeded, Apart, Busy, Keyed,
             Uncommitted
    <2>9. ChangeIsThere'
      BY DEF ChangeIsThere, TypeOK, Succeeded, Seen, Change
    <2>10. CacheNotObsolete'
      BY DEF CacheNotObsolete, TypeOK, Cached
    <2>11. CacheIsCommitted'
      BY DEF CacheIsCommitted, TypeOK, Cached, Uncommitted
    <2>12. QED
      BY <2>1, <2>2, <2>3, <2>4, <2>5, <2>6, <2>7, <2>8, <2>9, <2>10, <2>11
  <1>10. ASSUME NEW f \in Fiber, CommittransStart(f), Apart'
        PROVE  IInv'
    <2> USE <1>10, Typed
            DEF IInv, ServerInv, CommittransStart, Drop, Ask, server, ghosts,
                Send
    <2>a. PICK s \in Statement : Ask(f, s) /\ s.do \in {"rollback", "end"}
      BY StatementAlone
    <2>b. FibersTyped' /\ HasStatement'
      BY <2>a, AskKeeps, TypedFibers DEF Change
    <2>1. TypeOK'
      BY <2>b DEF TypeOK, FibersTyped
    <2>2. HasStatement'
      BY <2>b
    <2>3. Apart'
      BY <1>10
    <2>4. RoomLeft'
      <3>1. Changing' \subseteq Changing
        BY DEF Changing, TypeOK, Unsent, Busy, Change
      <3>2. QED
        BY <3>1, RoomStays
    <2>5. ServerInv'
      BY DEF ServerInv, NumberedSoFar, PendingInTransaction, CommittedApart,
             KnownIsThere, Uncommitted, Seen, TypeOK
    <2>6. Dropped'
      BY KeysOf
      DEF Dropped, TypeOK, Cached, Keyed, Apart, Busy, HasStatement, Change
    <2>7. FlagAgrees'
      BY DEF FlagAgrees, TypeOK, Unsent, Succeeded, Apart, Busy, Keyed, Change
    <2>8. ReadIsNew'
      BY DEF ReadIsNew, TypeOK, Unsent, Succeeded, Apart, Busy, Keyed,
             Uncommitted
    <2>9. ChangeIsThere'
      BY DEF ChangeIsThere, TypeOK, Succeeded, Seen, Change
    <2>10. CacheNotObsolete'
      BY DEF CacheNotObsolete, TypeOK, Cached
    <2>11. CacheIsCommitted'
      BY DEF CacheIsCommitted, TypeOK, Cached, Uncommitted
    <2>12. QED
      BY <2>1, <2>2, <2>3, <2>4, <2>5, <2>6, <2>7, <2>8, <2>9, <2>10, <2>11
  <1>11. ASSUME NEW f \in Fiber, GetMutex(f), Apart'
        PROVE  IInv'
    <2> USE <1>11, Typed DEF IInv, ServerInv, GetMutex, Send, server, ghosts
    <2>b. FibersTyped' /\ HasStatement'
      BY DEF FibersTyped, TypeOK, HasStatement, Busy
    <2>1. TypeOK'
      BY <2>b DEF TypeOK, FibersTyped
    <2>2. HasStatement'
      BY <2>b
    <2>3. Apart'
      BY <1>11
    <2>4. RoomLeft'
      <3>1. Changing' \subseteq Changing
        BY DEF Changing, TypeOK, Unsent, Busy, Change
      <3>2. QED
        BY <3>1, RoomStays
    <2>5. ServerInv'
      BY DEF ServerInv, NumberedSoFar, PendingInTransaction, CommittedApart,
             KnownIsThere, Uncommitted, Seen, TypeOK
    <2>6. Dropped'
      BY KeysOf
      DEF Dropped, TypeOK, Cached, Keyed, Apart, Busy, HasStatement, Change
    <2>7. FlagAgrees'
      BY DEF FlagAgrees, TypeOK, Unsent, Succeeded, Apart, Busy, Keyed, Change
    <2>8. ReadIsNew'
      BY DEF ReadIsNew, TypeOK, Unsent, Succeeded, Apart, Busy, Keyed,
             Uncommitted
    <2>9. ChangeIsThere'
      BY DEF ChangeIsThere, TypeOK, Succeeded, Seen, Change
    <2>10. CacheNotObsolete'
      BY DEF CacheNotObsolete, TypeOK, Cached
    <2>11. CacheIsCommitted'
      BY DEF CacheIsCommitted, TypeOK, Cached, Uncommitted
    <2>12. QED
      BY <2>1, <2>2, <2>3, <2>4, <2>5, <2>6, <2>7, <2>8, <2>9, <2>10, <2>11
  <1>12. ASSUME NEW f \in Fiber, ExecRead(f), Apart'
        PROVE  IInv'
    <2> USE <1>12, Typed
            DEF IInv, ServerInv, ExecRead, Accepts, Run, server, ghosts
    <2>m. \A g \in Fiber \ {f} : pc[g] \notin {"sent", "done"}
      BY DEF TypeOK
    <2>r. Seen(stmt[f].key) \in Record
      BY KeysOf DEF Seen, TypeOK, HasStatement, Busy
    <2>b. FibersTyped' /\ HasStatement'
      BY <2>r, RunKeeps, FailureTyped, TypedFibers
    <2>1. TypeOK'
      BY <2>b DEF TypeOK, FibersTyped
    <2>2. HasStatement'
      BY <2>b
    <2>3. Apart'
      BY <1>12
    <2>4. RoomLeft'
      <3>1. Changing' \subseteq Changing
        BY DEF Changing, TypeOK, Unsent, Busy, Change
      <3>2. QED
        BY <3>1, RoomStays
    <2>5. ServerInv'
      BY DEF ServerInv, NumberedSoFar, PendingInTransaction, CommittedApart,
             KnownIsThere, Uncommitted, Seen, TypeOK
    <2>6. Dropped'
      BY KeysOf
      DEF Dropped, TypeOK, Cached, Keyed, Apart, Busy, HasStatement, Change
    <2>7. FlagAgrees'
      BY DEF FlagAgrees, TypeOK, Unsent, Succeeded, Apart, Busy, Keyed, Change
    <2>8. ReadIsNew'
      <3>1. CASE stmt[f].do = "readc"
        <4>1. stmt[f].key \in Key
          BY <3>1, KeysOf DEF HasStatement, Busy
        <4>2. ~in_transaction_ => Uncommitted = {} /\ Seen(stmt[f].key) = db[stmt[f].key]
          BY <3>1, <4>1, ReadsCommitted DEF Busy, Keyed
        <4>3. Uncommitted' = Uncommitted
          BY DEF Uncommitted
        <4>4. QED
          BY <2>m, <2>r, <3>1, <4>1, <4>2, <4>3
          DEF ReadIsNew, Succeeded, KnownIsThere, CommittedApart, TypeOK
      <3>2. CASE stmt[f].do # "readc"
        BY <2>m, <3>2 DEF ReadIsNew, Succeeded, TypeOK, Uncommitted
      <3>3. QED
        BY <3>1, <3>2
    <2>9. ChangeIsThere'
      BY DEF ChangeIsThere, TypeOK, Succeeded, Seen, Change
    <2>10. CacheNotObsolete'
      BY DEF CacheNotObsolete, TypeOK, Cached
    <2>11. CacheIsCommitted'
      BY DEF CacheIsCommitted, TypeOK, Cached, Uncommitted
    <2>12. QED
      BY <2>1, <2>2, <2>3, <2>4, <2>5, <2>6, <2>7, <2>8, <2>9, <2>10, <2>11
  <1>13. ASSUME NEW f \in Fiber, ExecChange(f), Apart'
        PROVE  IInv'
    <2> USE <1>13, Typed
            DEF IInv, ServerInv, ExecChange, Accepts, Duplicate, NoRows, Run
    <2>m. \A g \in Fiber \ {f} : pc[g] \notin {"sent", "done"}
      BY DEF TypeOK
    <2>s. f \in Changing /\ stmt[f] \in Statement /\ stmt[f].do \in Change /\ pc[f] = "sent"
      BY DEF Changing, Unsent, HasStatement, Busy
    <2>k. stmt[f].key \in Key /\ stmt[f].to \in Key
      BY <2>s, KeysOf
    <2>l. lastWrite < MaxWrite /\ lastWrite \in Nat
      <3>1. Cardinality(Changing) \in Nat /\ Cardinality({}) + 1 <= Cardinality(Changing)
        BY <2>s, Counts, CountsOneFewer DEF Changing
      <3>2. Cardinality({}) = 0
        BY FS_EmptySet
      <3>3. QED
        BY <3>1, <3>2 DEF RoomLeft, TypeOK
    <2>r. PICK r \in Record :
            /\ r.n = lastWrite + 1
            /\ Run(f, [ok |-> TRUE, rec |-> r])
            /\ db' \in [Key -> Record]
            /\ pending' \in [Key -> Record \cup {None}]
            /\ \A k \in Key :
                 IF k \in {stmt[f].key, stmt[f].to}
                 THEN IF status = "INTRANS"
                      THEN /\ pending'[k] \in Record /\ pending'[k].n = lastWrite + 1
                           /\ db'[k] = db[k]
                      ELSE db'[k].n = lastWrite + 1 /\ pending'[k] = pending[k]
                 ELSE db'[k] = db[k] /\ pending'[k] = pending[k]
      BY <2>l, ExecChangeMakes
    <2>b. FibersTyped' /\ HasStatement'
      BY <2>r, RunKeeps, TypedFibers
    <2>n. \A k \in Key : Seen(k)'.n =
             IF k \in {stmt[f].key, stmt[f].to} THEN lastWrite + 1 ELSE Seen(k).n
      BY <2>r DEF Seen, PendingInTransaction, Unchanged, Accepts
    <2>1. TypeOK'
      <3>1. lastWrite' \in 0..MaxWrite
        BY <2>l
      <3>2. QED
        BY <2>b, <2>r, <3>1 DEF TypeOK, FibersTyped
    <2>2. HasStatement'
      BY <2>b
    <2>3. Apart'
      BY <1>13
    <2>4. RoomLeft'
      <3>1. Changing' \subseteq Changing \ {f}
        BY <2>s DEF Changing, TypeOK, Unsent, Busy, Change
      <3>2. /\ Cardinality(Changing') + 1 <= Cardinality(Changing)
            /\ Cardinality(Changing') \in Nat /\ Cardinality(Changing) \in Nat
        BY <2>s, <3>1, Counts, CountsOneFewer DEF Changing
      <3>3. QED
        BY <2>l, <3>2 DEF RoomLeft
    <2>5. ServerInv'
      <3>1. NumberedSoFar'
        BY <2>r, <2>l, SMTT(30) DEF NumberedSoFar, TypeOK
      <3>2. PendingInTransaction'
        BY <2>r DEF PendingInTransaction
      <3>3. CommittedApart'
        <4>1. Uncommitted' \subseteq Uncommitted \cup {lastWrite + 1}
          BY <2>r DEF Uncommitted
        <4>2. lastWrite + 1 \notin dead \cup Uncommitted
          BY <2>l DEF NumberedSoFar, Uncommitted
        <4>3. status # "INTRANS" => Uncommitted' = {}
          BY <3>2 DEF PendingInTransaction, Uncommitted, Unchanged
        <4>4. QED
          BY <2>r, <2>l, <4>1, <4>2, <4>3
          DEF CommittedApart, NumberedSoFar, TypeOK
      <3>4. KnownIsThere'
        <4>1. ASSUME NEW k \in Key
              PROVE  /\ knownBefore'[k] <= known'[k] /\ known'[k] <= Seen(k)'.n
                     /\ status' = "INTRANS" => knownBefore'[k] <= db'[k].n
          <5>1. known[k] <= lastWrite /\ known[k] \in Nat /\ knownBefore[k] \in Nat
            BY DEF NumberedSoFar, TypeOK
          <5>2. knownBefore[k] <= known[k] /\ known[k] <= Seen(k).n
            BY DEF KnownIsThere
          <5>3. known[k] <= Seen(k)'.n
            BY <2>n, <2>l, <5>1, <5>2
          <5>4. status = "INTRANS" => knownBefore[k] <= db'[k].n
            BY <2>r DEF KnownIsThere
          <5>5. QED
            BY <5>2, <5>3, <5>4
        <4>2. QED
          BY <4>1 DEF KnownIsThere
      <3>5. QED
        BY <3>1, <3>2, <3>3, <3>4
    <2>6. Dropped'
      BY KeysOf
      DEF Dropped, TypeOK, Cached, Keyed, Apart, Busy, HasStatement, Change
    <2>7. FlagAgrees'
      BY DEF FlagAgrees, TypeOK, Unsent, Succeeded, Apart, Busy, Keyed, Change
    <2>8. ReadIsNew'
      BY <2>m, <2>s DEF ReadIsNew, Succeeded, TypeOK, Change
    <2>9. ChangeIsThere'
      <3>1. ASSUME NEW k \in {stmt[f].key, stmt[f].to}
            PROVE  known[k] <= lastWrite + 1 /\ Seen(k)'.n = lastWrite + 1
        BY <2>k, <2>l, <2>n DEF NumberedSoFar, TypeOK
      <3>2. outcome'[f].rec = r
        BY <2>r DEF TypeOK
      <3>3. QED
        BY <2>m, <2>l, <2>r, <3>1, <3>2 DEF ChangeIsThere, Succeeded, TypeOK
    <2>10. CacheNotObsolete'
      BY DEF CacheNotObsolete, TypeOK, Cached
    <2>11. CacheIsCommitted'
      <3> SUFFICES ASSUME ~in_transaction_, NEW k \in Key, Cached(k)
                   PROVE  dbcache_[k].n \notin dead' \cup Uncommitted'
        BY DEF CacheIsCommitted, Cached
      <3>1. status # "INTRANS" /\ pending = Unchanged
        BY CachesCommitted
      <3>2. Uncommitted' = {}
        BY <3>1 DEF Uncommitted, Unchanged
      <3>3. QED
        BY <3>2 DEF CacheIsCommitted
    <2>12. QED
      BY <2>1, <2>2, <2>3, <2>4, <2>5, <2>6, <2>7, <2>8, <2>9, <2>10, <2>11
  <1>14. ASSUME NEW f \in Fiber, ExecNoRows(f), Apart'
        PROVE  IInv'
    <2> USE <1>14, Typed
            DEF IInv, ServerInv, ExecNoRows, Accepts, NoRows, Run, Failure,
                server, ghosts
    <2>m. \A g \in Fiber \ {f} : pc[g] \notin {"sent", "done"}
      BY DEF TypeOK
    <2>b. FibersTyped' /\ HasStatement'
      BY RunKeeps, FailureTyped, TypedFibers
    <2>1. TypeOK'
      BY <2>b DEF TypeOK, FibersTyped
    <2>2. HasStatement'
      BY <2>b
    <2>3. Apart'
      BY <1>14
    <2>4. RoomLeft'
      <3>1. Changing' \subseteq Changing
        BY DEF Changing, TypeOK, Unsent, Busy, Change
      <3>2. QED
        BY <3>1, RoomStays
    <2>5. ServerInv'
      BY DEF ServerInv, NumberedSoFar, PendingInTransaction, CommittedApart,
             KnownIsThere, Uncommitted, Seen, TypeOK
    <2>6. Dropped'
      BY KeysOf
      DEF Dropped, TypeOK, Cached, Keyed, Apart, Busy, HasStatement, Change
    <2>7. FlagAgrees'
      BY DEF FlagAgrees, TypeOK, Unsent, Succeeded, Apart, Busy, Keyed, Change
    <2>8. ReadIsNew'
      BY DEF ReadIsNew, TypeOK, Unsent, Succeeded, Apart, Busy, Keyed,
             Uncommitted
    <2>9. ChangeIsThere'
      BY DEF ChangeIsThere, TypeOK, Succeeded, Seen, Change
    <2>10. CacheNotObsolete'
      BY DEF CacheNotObsolete, TypeOK, Cached
    <2>11. CacheIsCommitted'
      BY DEF CacheIsCommitted, TypeOK, Cached, Uncommitted
    <2>12. QED
      BY <2>1, <2>2, <2>3, <2>4, <2>5, <2>6, <2>7, <2>8, <2>9, <2>10, <2>11
  <1>15. ASSUME NEW f \in Fiber, ExecFails(f), Apart'
        PROVE  IInv'
    <2> USE <1>15, Typed
            DEF IInv, ServerInv, ExecFails, Run, Failure, Abort, server, ghosts
    <2>m. \A g \in Fiber \ {f} : pc[g] \notin {"sent", "done"}
      BY DEF TypeOK
    <2>b. FibersTyped' /\ HasStatement'
      BY RunKeeps, FailureTyped, TypedFibers
    <2>1. TypeOK'
      <3>1. CASE status = "INTRANS"
        BY <2>b, <3>1, AbortKeeps DEF TypeOK, FibersTyped
      <3>2. CASE status # "INTRANS"
        BY <3>2, <2>b DEF TypeOK, FibersTyped
      <3>3. QED
        BY <3>1, <3>2
    <2>2. HasStatement'
      BY <2>b
    <2>3. Apart'
      BY <1>15
    <2>4. RoomLeft'
      <3>1. Changing' \subseteq Changing
        BY DEF Changing, TypeOK, Unsent, Busy, Change
      <3>2. QED
        BY <3>1, RoomStays
    <2>5. ServerInv'
      <3>1. CASE status = "INTRANS"
        BY <3>1, AbortKeeps
      <3>2. CASE status # "INTRANS"
        <4>1. UNCHANGED <<db, pending, status, lastWrite, known, knownBefore, dead>>
          BY <3>2
        <4>2. QED
          BY <4>1
          DEF NumberedSoFar, PendingInTransaction, CommittedApart,
              KnownIsThere, Uncommitted, Seen
      <3>3. QED
        BY <3>1, <3>2
    <2>6. Dropped'
      BY KeysOf
      DEF Dropped, TypeOK, Cached, Keyed, Apart, Busy, HasStatement, Change
    <2>7. FlagAgrees'
      BY DEF FlagAgrees, TypeOK, Unsent, Succeeded, Apart, Busy, Keyed, Change
    <2>8. ReadIsNew'
      BY DEF ReadIsNew, TypeOK, Unsent, Succeeded, Apart, Busy, Keyed,
             Uncommitted
    <2>9. ChangeIsThere'
      BY DEF ChangeIsThere, TypeOK, Succeeded, Seen, Change
    <2>10. CacheNotObsolete'
      <3>a. CASE status = "INTRANS"
        <4> SUFFICES ASSUME NEW k \in Key, Cached(k)
                     PROVE  dbcache_[k].n >= known'[k]
          BY DEF CacheNotObsolete, Cached
        <4>1. known'[k] <= known[k] /\ known'[k] \in Nat /\ known[k] \in Nat
          BY <3>a, AbortKeeps DEF TypeOK
        <4>2. QED
          BY <4>1, CacheTyped DEF CacheNotObsolete
      <3>b. CASE status # "INTRANS"
        BY <3>b DEF CacheNotObsolete, Cached
      <3>c. QED
        BY <3>a, <3>b
    <2>11. CacheIsCommitted'
      <3>a. CASE status = "INTRANS"
        <4> SUFFICES ASSUME ~in_transaction_, NEW k \in Key, Cached(k)
                     PROVE  dbcache_[k].n \notin dead' \cup Uncommitted'
          BY DEF CacheIsCommitted, Cached
        <4>1. Uncommitted = {}
          BY CachesCommitted
        <4>2. QED
          BY <3>a, <4>1, AbortKeeps DEF CacheIsCommitted
      <3>b. CASE status # "INTRANS"
        BY <3>b DEF CacheIsCommitted, Cached, Uncommitted
      <3>c. QED
        BY <3>a, <3>b
    <2>12. QED
      BY <2>1, <2>2, <2>3, <2>4, <2>5, <2>6, <2>7, <2>8, <2>9, <2>10, <2>11
  <1>16. ASSUME NEW f \in Fiber, ExecBegin(f), Apart'
        PROVE  IInv'
    <2> USE <1>16, Typed DEF IInv, ServerInv, ExecBegin, Accepts, Run, Done
    <2>m. \A g \in Fiber \ {f} : pc[g] \notin {"sent", "done"}
      BY DEF TypeOK
    <2>b. FibersTyped' /\ HasStatement'
      BY RunKeeps, FailureTyped, TypedFibers
    <2>1. TypeOK'
      BY <2>b DEF TypeOK, FibersTyped
    <2>2. HasStatement'
      BY <2>b
    <2>3. Apart'
      BY <1>16
    <2>4. RoomLeft'
      <3>1. Changing' \subseteq Changing
        BY DEF Changing, TypeOK, Unsent, Busy, Change
      <3>2. QED
        BY <3>1, RoomStays
    <2>5. ServerInv'
      <3>1. NumberedSoFar' /\ CommittedApart'
        BY DEF NumberedSoFar, CommittedApart, Uncommitted
      <3>2. PendingInTransaction'
        BY DEF PendingInTransaction
      <3>3. KnownIsThere'
        <4>1. status = "IDLE" => \A k \in Key : Seen(k) = db[k]
          BY DEF PendingInTransaction, Unchanged, Seen
        <4>2. QED
          BY <4>1 DEF KnownIsThere, Seen, TypeOK
      <3>4. QED
        BY <3>1, <3>2, <3>3
    <2>6. Dropped'
      BY KeysOf
      DEF Dropped, TypeOK, Cached, Keyed, Apart, Busy, HasStatement, Change
    <2>7. FlagAgrees'
      BY DEF FlagAgrees, TypeOK, Unsent, Succeeded, Apart, Busy, Keyed, Change
    <2>8. ReadIsNew'
      BY DEF ReadIsNew, TypeOK, Unsent, Succeeded, Apart, Busy, Keyed,
             Uncommitted
    <2>9. ChangeIsThere'
      BY DEF ChangeIsThere, TypeOK, Succeeded, Seen, Change
    <2>10. CacheNotObsolete'
      BY DEF CacheNotObsolete, TypeOK, Cached
    <2>11. CacheIsCommitted'
      BY DEF CacheIsCommitted, TypeOK, Cached, Uncommitted
    <2>12. QED
      BY <2>1, <2>2, <2>3, <2>4, <2>5, <2>6, <2>7, <2>8, <2>9, <2>10, <2>11
  <1>17. ASSUME NEW f \in Fiber, ExecRollback(f), Apart'
        PROVE  IInv'
    <2> USE <1>17, Typed DEF IInv, ServerInv, ExecRollback, Run, Done, Abort
    <2>m. \A g \in Fiber \ {f} : pc[g] \notin {"sent", "done"}
      BY DEF TypeOK
    <2>b. FibersTyped' /\ HasStatement'
      BY RunKeeps, FailureTyped, TypedFibers
    <2>1. TypeOK'
      BY <2>b, AbortKeeps DEF TypeOK, FibersTyped
    <2>2. HasStatement'
      BY <2>b
    <2>3. Apart'
      BY <1>17
    <2>4. RoomLeft'
      <3>1. Changing' \subseteq Changing
        BY DEF Changing, TypeOK, Unsent, Busy, Change
      <3>2. QED
        BY <3>1, RoomStays
    <2>5. ServerInv'
      BY AbortKeeps
    <2>6. Dropped'
      BY KeysOf
      DEF Dropped, TypeOK, Cached, Keyed, Apart, Busy, HasStatement, Change
    <2>7. FlagAgrees'
      BY DEF FlagAgrees, TypeOK, Unsent, Succeeded, Apart, Busy, Keyed, Change
    <2>8. ReadIsNew'
      BY DEF ReadIsNew, TypeOK, Unsent, Succeeded, Apart, Busy, Keyed,
             Uncommitted
    <2>9. ChangeIsThere'
      BY DEF ChangeIsThere, TypeOK, Succeeded, Seen, Change
    <2>10. CacheNotObsolete'
      <3> SUFFICES ASSUME NEW k \in Key, Cached(k)
                   PROVE  dbcache_[k].n >= known'[k]
        BY DEF CacheNotObsolete, Cached
      <3>1. known'[k] <= known[k] /\ known'[k] \in Nat /\ known[k] \in Nat
        BY AbortKeeps DEF TypeOK
      <3>2. QED
        BY <3>1, CacheTyped DEF CacheNotObsolete
    <2>11. CacheIsCommitted'
      <3> SUFFICES ASSUME ~in_transaction_, NEW k \in Key, Cached(k)
                   PROVE  dbcache_[k].n \notin dead' \cup Uncommitted'
        BY DEF CacheIsCommitted, Cached
      <3>1. Uncommitted = {}
        BY CachesCommitted
      <3>2. QED
        BY <3>1, AbortKeeps DEF CacheIsCommitted
    <2>12. QED
      BY <2>1, <2>2, <2>3, <2>4, <2>5, <2>6, <2>7, <2>8, <2>9, <2>10, <2>11
  <1>18. ASSUME NEW f \in Fiber, ExecEnd(f), Apart'
        PROVE  IInv'
    <2> USE <1>18, Typed
            DEF IInv, ServerInv, ExecEnd, Accepts, Run, Done, ghosts
    <2>m. \A g \in Fiber \ {f} : pc[g] \notin {"sent", "done"}
      BY DEF TypeOK
    <2>b. FibersTyped' /\ HasStatement'
      BY RunKeeps, FailureTyped, TypedFibers
    <2>e. /\ pending' = Unchanged /\ Uncommitted' = {} /\ db' \in [Key -> Record]
          /\ \A k \in Key : db'[k] = Seen(k) /\ Seen(k)' = Seen(k)
      BY DEF Seen, Unchanged, Uncommitted, TypeOK
    <2>f. pending' \in [Key -> Record \cup {None}]
      BY <2>e DEF Unchanged
    <2>1. TypeOK'
      BY <2>b, <2>e, <2>f DEF TypeOK, FibersTyped
    <2>2. HasStatement'
      BY <2>b
    <2>3. Apart'
      BY <1>18
    <2>4. RoomLeft'
      <3>1. Changing' \subseteq Changing
        BY DEF Changing, TypeOK, Unsent, Busy, Change
      <3>2. QED
        BY <3>1, RoomStays
    <2>5. ServerInv'
      <3>1. NumberedSoFar'
        <4>1. \A k \in Key : db'[k].n <= lastWrite /\ pending'[k] = None
          BY <2>e DEF NumberedSoFar, Seen, TypeOK, Unchanged
        <4>2. QED
          BY <4>1 DEF NumberedSoFar
      <3>2. PendingInTransaction'
        BY <2>e DEF PendingInTransaction
      <3>3. CommittedApart'
        <4>1. \A k \in Key : db'[k].n \notin dead
          BY <2>e DEF CommittedApart, Seen, Uncommitted
        <4>2. QED
          BY <2>e, <4>1 DEF CommittedApart
      <3>4. KnownIsThere'
        BY <2>e DEF KnownIsThere
      <3>5. QED
        BY <3>1, <3>2, <3>3, <3>4
    <2>6. Dropped'
      BY KeysOf
      DEF Dropped, TypeOK, Cached, Keyed, Apart, Busy, HasStatement, Change
    <2>7. FlagAgrees'
      BY DEF FlagAgrees, TypeOK, Unsent, Succeeded, Apart, Busy, Keyed, Change
    <2>8. ReadIsNew'
      BY DEF ReadIsNew, TypeOK, Unsent, Succeeded, Apart, Busy, Keyed,
             Uncommitted
    <2>9. ChangeIsThere'
      BY DEF ChangeIsThere, TypeOK, Succeeded, Seen, Change
    <2>10. CacheNotObsolete'
      BY DEF CacheNotObsolete, TypeOK, Cached
    <2>11. CacheIsCommitted'
      BY <2>e DEF CacheIsCommitted, Cached
    <2>12. QED
      BY <2>1, <2>2, <2>3, <2>4, <2>5, <2>6, <2>7, <2>8, <2>9, <2>10, <2>11
  <1>19. ASSUME NEW f \in Fiber, ExecNoServer(f), Apart'
        PROVE  IInv'
    <2> USE <1>19, Typed
            DEF IInv, ServerInv, ExecNoServer, Run, Failure, server, ghosts
    <2>m. \A g \in Fiber \ {f} : pc[g] \notin {"sent", "done"}
      BY DEF TypeOK
    <2>b. FibersTyped' /\ HasStatement'
      BY RunKeeps, FailureTyped, TypedFibers
    <2>1. TypeOK'
      BY <2>b DEF TypeOK, FibersTyped
    <2>2. HasStatement'
      BY <2>b
    <2>3. Apart'
      BY <1>19
    <2>4. RoomLeft'
      <3>1. Changing' \subseteq Changing
        BY DEF Changing, TypeOK, Unsent, Busy, Change
      <3>2. QED
        BY <3>1, RoomStays
    <2>5. ServerInv'
      BY DEF ServerInv, NumberedSoFar, PendingInTransaction, CommittedApart,
             KnownIsThere, Uncommitted, Seen, TypeOK
    <2>6. Dropped'
      BY KeysOf
      DEF Dropped, TypeOK, Cached, Keyed, Apart, Busy, HasStatement, Change
    <2>7. FlagAgrees'
      BY DEF FlagAgrees, TypeOK, Unsent, Succeeded, Apart, Busy, Keyed, Change
    <2>8. ReadIsNew'
      BY DEF ReadIsNew, TypeOK, Unsent, Succeeded, Apart, Busy, Keyed,
             Uncommitted
    <2>9. ChangeIsThere'
      BY DEF ChangeIsThere, TypeOK, Succeeded, Seen, Change
    <2>10. CacheNotObsolete'
      BY DEF CacheNotObsolete, TypeOK, Cached
    <2>11. CacheIsCommitted'
      BY DEF CacheIsCommitted, TypeOK, Cached, Uncommitted
    <2>12. QED
      BY <2>1, <2>2, <2>3, <2>4, <2>5, <2>6, <2>7, <2>8, <2>9, <2>10, <2>11
  <1>20. ASSUME NEW f \in Fiber, ReadcFinish(f), Apart'
        PROVE  IInv'
    <2> USE <1>20, Typed
            DEF IInv, ServerInv, ReadcFinish, Return, server, ghosts, Failure
    <2>b. FibersTyped' /\ HasStatement'
      BY ReturnKeeps, TypedFibers
    <2>k. stmt[f].key \in Key /\ Busy(f) /\ Keyed(stmt[f])
      BY KeysOf DEF HasStatement, Busy, Keyed
    <2>c. /\ dbcache_' \in [Key -> Entry \cup {None, Program}]
          /\ \A k \in Key : Cached(k)' =>
               \/ k # stmt[f].key /\ Cached(k) /\ dbcache_'[k] = dbcache_[k]
               \/ k = stmt[f].key /\ ~outcome[f].ok /\ Cached(k) /\ dbcache_'[k] = dbcache_[k]
               \/ /\ k = stmt[f].key /\ outcome[f].ok /\ outcome[f].rec \in Record
                  /\ dbcache_'[k].n = outcome[f].rec.n
      BY <2>k DEF Cached, TypeOK, ReadIsNew, Succeeded
    <2>1. TypeOK'
      BY <2>b, <2>c DEF TypeOK, FibersTyped
    <2>2. HasStatement'
      BY <2>b
    <2>3. Apart'
      BY <1>20
    <2>4. RoomLeft'
      <3>1. Changing' \subseteq Changing
        BY DEF Changing, TypeOK, Unsent, Busy, Change
      <3>2. QED
        BY <3>1, RoomStays
    <2>5. ServerInv'
      BY DEF ServerInv, NumberedSoFar, PendingInTransaction, CommittedApart,
             KnownIsThere, Uncommitted, Seen, TypeOK
    <2>6. Dropped'
      <3> SUFFICES ASSUME NEW g \in Fiber, g # f, Busy(g)
                   PROVE  /\ stmt[g].do \in Change => ~Cached(stmt[g].key)' /\ ~Cached(stmt[g].to)'
                          /\ ~Keyed(stmt[g]) => \A k \in Key : ~Cached(k)'
        BY DEF Dropped, Busy, TypeOK, Cached, Keyed
      <3>1. /\ Keyed(stmt[g])
            /\ stmt[g].do \in Change => stmt[f].key \notin {stmt[g].key, stmt[g].to}
        BY <2>k DEF Apart, Busy, Change
      <3>2. stmt[g].do \in Change => stmt[g].key \in Key /\ stmt[g].to \in Key
        BY KeysOf DEF HasStatement
      <3>3. QED
        BY <2>c, <3>1, <3>2 DEF Dropped
    <2>7. FlagAgrees'
      BY DEF FlagAgrees, TypeOK, Unsent, Succeeded, Apart, Busy, Keyed, Change
    <2>8. ReadIsNew'
      BY DEF ReadIsNew, TypeOK, Unsent, Succeeded, Apart, Busy, Keyed,
             Uncommitted
    <2>9. ChangeIsThere'
      BY DEF ChangeIsThere, TypeOK, Succeeded, Seen, Change
    <2>10. CacheNotObsolete'
      <3> SUFFICES ASSUME NEW k \in Key, Cached(k)' PROVE dbcache_'[k].n >= known[k]
        BY DEF CacheNotObsolete
      <3>1. CASE Cached(k) /\ dbcache_'[k] = dbcache_[k]
        BY <3>1 DEF CacheNotObsolete
      <3>2. CASE k = stmt[f].key /\ outcome[f].ok /\ dbcache_'[k].n = outcome[f].rec.n
        BY <3>2, <2>k DEF ReadIsNew, Succeeded, TypeOK
      <3>3. QED
        BY <2>c, <3>1, <3>2
    <2>11. CacheIsCommitted'
      <3> SUFFICES ASSUME ~in_transaction_, NEW k \in Key, Cached(k)'
                   PROVE  dbcache_'[k].n \notin dead \cup Uncommitted
        BY DEF CacheIsCommitted, Uncommitted
      <3>1. CASE Cached(k) /\ dbcache_'[k] = dbcache_[k]
        BY <3>1 DEF CacheIsCommitted
      <3>2. CASE k = stmt[f].key /\ outcome[f].ok /\ dbcache_'[k].n = outcome[f].rec.n
        BY <3>2 DEF ReadIsNew, Succeeded
      <3>3. QED
        BY <2>c, <3>1, <3>2
    <2>12. QED
      BY <2>1, <2>2, <2>3, <2>4, <2>5, <2>6, <2>7, <2>8, <2>9, <2>10, <2>11
  <1>21. ASSUME NEW f \in Fiber, ChangeFinish(f), Apart'
        PROVE  IInv'
    <2> USE <1>21, Typed
            DEF IInv, ServerInv, ChangeFinish, Return, server, Failure
    <2>b. FibersTyped' /\ HasStatement'
      BY ReturnKeeps, TypedFibers
    <2>k. /\ stmt[f].key \in Key /\ stmt[f].to \in Key /\ Busy(f) /\ Keyed(stmt[f])
          /\ ~Cached(stmt[f].key) /\ ~Cached(stmt[f].to)
      BY KeysOf DEF HasStatement, Busy, Keyed, Dropped, Change
    <2>c. \A k \in Key :
            /\ known'[k] \in 0..MaxWrite /\ known[k] <= known'[k] /\ known'[k] <= Seen(k).n
            /\ k \notin {stmt[f].key, stmt[f].to} => known'[k] = known[k]
      <3> SUFFICES ASSUME NEW k \in Key
                   PROVE  /\ known'[k] \in 0..MaxWrite /\ known[k] <= known'[k]
                          /\ known'[k] <= Seen(k).n
                          /\ k \notin {stmt[f].key, stmt[f].to} => known'[k] = known[k]
        OBVIOUS
      <3>1. known[k] \in 0..MaxWrite /\ known[k] \in Nat /\ known[k] <= Seen(k).n
        BY DEF TypeOK, KnownIsThere
      <3>2. CASE outcome[f].ok /\ k \in {stmt[f].key, stmt[f].to}
        <4>1. known'[k] = outcome[f].rec.n
          BY <3>2
        <4>2. QED
          BY <3>2, <4>1 DEF ChangeIsThere, Succeeded
      <3>3. CASE ~(outcome[f].ok /\ k \in {stmt[f].key, stmt[f].to})
        BY <3>1, <3>3
      <3>4. QED
        BY <3>2, <3>3
    <2>d. \A k \in Key : Seen(k)' = Seen(k) /\ Seen(k) \in Record /\ Seen(k).n <= lastWrite
      BY DEF Seen, TypeOK, NumberedSoFar
    <2>1. TypeOK'
      BY <2>b, <2>c DEF TypeOK, FibersTyped
    <2>2. HasStatement'
      BY <2>b
    <2>3. Apart'
      BY <1>21
    <2>4. RoomLeft'
      <3>1. Changing' \subseteq Changing
        BY DEF Changing, TypeOK, Unsent, Busy, Change
      <3>2. QED
        BY <3>1, RoomStays
    <2>5. ServerInv'
      <3>1. NumberedSoFar'
        BY <2>c, <2>d DEF NumberedSoFar, TypeOK
      <3>2. PendingInTransaction' /\ CommittedApart'
        BY DEF PendingInTransaction, CommittedApart, Uncommitted
      <3>3. KnownIsThere'
        BY <2>c, <2>d DEF KnownIsThere, TypeOK
      <3>4. QED
        BY <3>1, <3>2, <3>3
    <2>6. Dropped'
      BY KeysOf
      DEF Dropped, TypeOK, Cached, Keyed, Apart, Busy, HasStatement, Change
    <2>7. FlagAgrees'
      BY DEF FlagAgrees, TypeOK, Unsent, Succeeded, Apart, Busy, Keyed, Change
    <2>8. ReadIsNew'
      BY DEF ReadIsNew, TypeOK, Unsent, Succeeded, Apart, Busy, Keyed,
             Uncommitted
    <2>9. ChangeIsThere'
      BY DEF ChangeIsThere, TypeOK, Succeeded, Seen, Change
    <2>10. CacheNotObsolete'
      BY <2>k, <2>c DEF CacheNotObsolete, Cached
    <2>11. CacheIsCommitted'
      BY DEF CacheIsCommitted, TypeOK, Cached, Uncommitted
    <2>12. QED
      BY <2>1, <2>2, <2>3, <2>4, <2>5, <2>6, <2>7, <2>8, <2>9, <2>10, <2>11
  <1>22. ASSUME NEW f \in Fiber, WritefGoesOn(f), Apart'
        PROVE  IInv'
    <2> USE <1>22, Typed
            DEF IInv, ServerInv, WritefGoesOn, Drop, Failure, server, ghosts
    <2>b. FibersTyped' /\ HasStatement'
      BY StatementOfWritef, FailureTyped
      DEF FibersTyped, TypeOK, HasStatement, Busy
    <2>1. TypeOK'
      BY <2>b DEF TypeOK, FibersTyped
    <2>2. HasStatement'
      BY <2>b
    <2>3. Apart'
      BY <1>22
    <2>4. RoomLeft'
      <3>1. Changing' \subseteq Changing
        BY DEF Changing, TypeOK, Unsent, Busy, Change
      <3>2. QED
        BY <3>1, RoomStays
    <2>5. ServerInv'
      BY DEF ServerInv, NumberedSoFar, PendingInTransaction, CommittedApart,
             KnownIsThere, Uncommitted, Seen, TypeOK
    <2>6. Dropped'
      <3>1. /\ stmt[f].key \in Key /\ stmt'[f].key = stmt[f].key /\ stmt'[f].to = stmt[f].key
            /\ stmt'[f].do = "write"
        BY KeysOf DEF HasStatement, Busy, TypeOK, Statement
      <3>2. \A k \in Key : Cached(k)' => Cached(k) /\ k # stmt[f].key
        BY <3>1 DEF Cached
      <3>3. ASSUME NEW g \in Fiber, g # f, Busy(g)'
            PROVE  /\ stmt'[g].do \in Change => ~Cached(stmt[g].key)' /\ ~Cached(stmt[g].to)'
                   /\ ~Keyed(stmt'[g]) => \A k \in Key : ~Cached(k)'
        <4>1. stmt'[g] = stmt[g] /\ Busy(g)
          BY <3>3 DEF Busy, TypeOK
        <4>2. stmt[g].do \in Change => stmt[g].key \in Key /\ stmt[g].to \in Key
          BY <4>1, KeysOf DEF HasStatement
        <4>3. QED
          BY <3>2, <4>1, <4>2 DEF Dropped
      <3>4. ~Cached(stmt[f].key)' /\ Keyed(stmt'[f])
        BY <3>1, <3>2 DEF Keyed
      <3>5. ASSUME NEW g \in Fiber, Busy(g)'
            PROVE  /\ stmt'[g].do \in Change => ~Cached(stmt[g].key)' /\ ~Cached(stmt[g].to)'
                   /\ ~Keyed(stmt'[g]) => \A k \in Key : ~Cached(k)'
        <4>1. CASE g = f
          BY <3>1, <3>4, <4>1
        <4>2. CASE g # f
          <5>1. stmt'[g] = stmt[g]
            BY <4>2 DEF TypeOK
          <5>2. QED
            BY <3>3, <3>5, <4>2, <5>1
        <4>3. QED
          BY <4>1, <4>2
      <3>6. QED
        BY <3>5 DEF Dropped, Busy, Keyed
    <2>7. FlagAgrees'
      BY DEF FlagAgrees, TypeOK, Unsent, Succeeded, Apart, Busy, Keyed, Change
    <2>8. ReadIsNew'
      BY DEF ReadIsNew, TypeOK, Unsent, Succeeded, Apart, Busy, Keyed,
             Uncommitted
    <2>9. ChangeIsThere'
      BY DEF ChangeIsThere, TypeOK, Succeeded, Seen, Change
    <2>10. CacheNotObsolete'
      BY DEF CacheNotObsolete, TypeOK, Cached
    <2>11. CacheIsCommitted'
      BY DEF CacheIsCommitted, TypeOK, Cached, Uncommitted
    <2>12. QED
      BY <2>1, <2>2, <2>3, <2>4, <2>5, <2>6, <2>7, <2>8, <2>9, <2>10, <2>11
  <1>23. ASSUME NEW f \in Fiber, WritefFails(f), Apart'
        PROVE  IInv'
    <2> USE <1>23, Typed
            DEF IInv, ServerInv, WritefFails, Return, server, ghosts, Failure
    <2>b. FibersTyped' /\ HasStatement'
      BY ReturnKeeps, TypedFibers
    <2>1. TypeOK'
      BY <2>b DEF TypeOK, FibersTyped
    <2>2. HasStatement'
      BY <2>b
    <2>3. Apart'
      BY <1>23
    <2>4. RoomLeft'
      <3>1. Changing' \subseteq Changing
        BY DEF Changing, TypeOK, Unsent, Busy, Change
      <3>2. QED
        BY <3>1, RoomStays
    <2>5. ServerInv'
      BY DEF ServerInv, NumberedSoFar, PendingInTransaction, CommittedApart,
             KnownIsThere, Uncommitted, Seen, TypeOK
    <2>6. Dropped'
      BY KeysOf
      DEF Dropped, TypeOK, Cached, Keyed, Apart, Busy, HasStatement, Change
    <2>7. FlagAgrees'
      BY DEF FlagAgrees, TypeOK, Unsent, Succeeded, Apart, Busy, Keyed, Change
    <2>8. ReadIsNew'
      BY DEF ReadIsNew, TypeOK, Unsent, Succeeded, Apart, Busy, Keyed,
             Uncommitted
    <2>9. ChangeIsThere'
      BY DEF ChangeIsThere, TypeOK, Succeeded, Seen, Change
    <2>10. CacheNotObsolete'
      BY DEF CacheNotObsolete, TypeOK, Cached
    <2>11. CacheIsCommitted'
      BY DEF CacheIsCommitted, TypeOK, Cached, Uncommitted
    <2>12. QED
      BY <2>1, <2>2, <2>3, <2>4, <2>5, <2>6, <2>7, <2>8, <2>9, <2>10, <2>11
  <1>24. ASSUME NEW f \in Fiber, BegintransFinish(f), Apart'
        PROVE  IInv'
    <2> USE <1>24, Typed
            DEF IInv, ServerInv, BegintransFinish, Return, server, ghosts,
                Failure
    <2>b. FibersTyped' /\ HasStatement'
      BY ReturnKeeps, TypedFibers
    <2>1. TypeOK'
      BY <2>b DEF TypeOK, FibersTyped
    <2>2. HasStatement'
      BY <2>b
    <2>3. Apart'
      BY <1>24
    <2>4. RoomLeft'
      <3>1. Changing' \subseteq Changing
        BY DEF Changing, TypeOK, Unsent, Busy, Change
      <3>2. QED
        BY <3>1, RoomStays
    <2>5. ServerInv'
      BY DEF ServerInv, NumberedSoFar, PendingInTransaction, CommittedApart,
             KnownIsThere, Uncommitted, Seen, TypeOK
    <2>6. Dropped'
      BY KeysOf
      DEF Dropped, TypeOK, Cached, Keyed, Apart, Busy, HasStatement, Change
    <2>7. FlagAgrees'
      BY DEF FlagAgrees, TypeOK, Unsent, Succeeded, Apart, Busy, Keyed, Change
    <2>8. ReadIsNew'
      BY DEF ReadIsNew, TypeOK, Unsent, Succeeded, Apart, Busy, Keyed,
             Uncommitted
    <2>9. ChangeIsThere'
      BY DEF ChangeIsThere, TypeOK, Succeeded, Seen, Change
    <2>10. CacheNotObsolete'
      BY DEF CacheNotObsolete, TypeOK, Cached
    <2>11. CacheIsCommitted'
      BY DEF CacheIsCommitted, TypeOK, Cached, Uncommitted
    <2>12. QED
      BY <2>1, <2>2, <2>3, <2>4, <2>5, <2>6, <2>7, <2>8, <2>9, <2>10, <2>11
  <1>25. ASSUME NEW f \in Fiber, RollbacktransFinish(f), Apart'
        PROVE  IInv'
    <2> USE <1>25, Typed
            DEF IInv, ServerInv, RollbacktransFinish, Return, server, ghosts,
                Failure
    <2>b. FibersTyped' /\ HasStatement'
      BY ReturnKeeps, TypedFibers
    <2>1. TypeOK'
      BY <2>b DEF TypeOK, FibersTyped
    <2>2. HasStatement'
      BY <2>b
    <2>3. Apart'
      BY <1>25
    <2>4. RoomLeft'
      <3>1. Changing' \subseteq Changing
        BY DEF Changing, TypeOK, Unsent, Busy, Change
      <3>2. QED
        BY <3>1, RoomStays
    <2>5. ServerInv'
      BY DEF ServerInv, NumberedSoFar, PendingInTransaction, CommittedApart,
             KnownIsThere, Uncommitted, Seen, TypeOK
    <2>6. Dropped'
      BY KeysOf
      DEF Dropped, TypeOK, Cached, Keyed, Apart, Busy, HasStatement, Change
    <2>7. FlagAgrees'
      BY DEF FlagAgrees, TypeOK, Unsent, Succeeded, Apart, Busy, Keyed, Change
    <2>8. ReadIsNew'
      BY DEF ReadIsNew, TypeOK, Unsent, Succeeded, Apart, Busy, Keyed,
             Uncommitted
    <2>9. ChangeIsThere'
      BY DEF ChangeIsThere, TypeOK, Succeeded, Seen, Change
    <2>10. CacheNotObsolete'
      BY DEF CacheNotObsolete, TypeOK, Cached
    <2>11. CacheIsCommitted'
      <3>1. \A k \in Key : ~Cached(k)
        BY DEF Dropped, Busy, Keyed
      <3>2. QED
        BY <3>1 DEF CacheIsCommitted, Cached
    <2>12. QED
      BY <2>1, <2>2, <2>3, <2>4, <2>5, <2>6, <2>7, <2>8, <2>9, <2>10, <2>11
  <1>26. ASSUME NEW f \in Fiber, CommittransFinish(f), Apart'
        PROVE  IInv'
    <2> USE <1>26, Typed
            DEF IInv, ServerInv, CommittransFinish, Return, server, ghosts,
                Failure
    <2>b. FibersTyped' /\ HasStatement'
      BY ReturnKeeps, TypedFibers
    <2>1. TypeOK'
      BY <2>b DEF TypeOK, FibersTyped
    <2>2. HasStatement'
      BY <2>b
    <2>3. Apart'
      BY <1>26
    <2>4. RoomLeft'
      <3>1. Changing' \subseteq Changing
        BY DEF Changing, TypeOK, Unsent, Busy, Change
      <3>2. QED
        BY <3>1, RoomStays
    <2>5. ServerInv'
      BY DEF ServerInv, NumberedSoFar, PendingInTransaction, CommittedApart,
             KnownIsThere, Uncommitted, Seen, TypeOK
    <2>6. Dropped'
      BY KeysOf
      DEF Dropped, TypeOK, Cached, Keyed, Apart, Busy, HasStatement, Change
    <2>7. FlagAgrees'
      BY DEF FlagAgrees, TypeOK, Unsent, Succeeded, Apart, Busy, Keyed, Change
    <2>8. ReadIsNew'
      BY DEF ReadIsNew, TypeOK, Unsent, Succeeded, Apart, Busy, Keyed,
             Uncommitted
    <2>9. ChangeIsThere'
      BY DEF ChangeIsThere, TypeOK, Succeeded, Seen, Change
    <2>10. CacheNotObsolete'
      BY DEF CacheNotObsolete, TypeOK, Cached
    <2>11. CacheIsCommitted'
      BY DEF CacheIsCommitted, TypeOK, Cached, Uncommitted
    <2>12. QED
      BY <2>1, <2>2, <2>3, <2>4, <2>5, <2>6, <2>7, <2>8, <2>9, <2>10, <2>11
  <1>27. ASSUME NEW k \in Key, OtherWrites(k), Apart' PROVE IInv'
    <2> USE <1>27, Typed DEF IInv, ServerInv, OtherWrites, fibers
    <2>r. PICK r \in [n : {lastWrite + 1}, is : {"none", "empty", "full"}] :
            db' = [db EXCEPT ![k] = r]
      OBVIOUS
    <2>l. lastWrite + 1 \in 0..MaxWrite /\ lastWrite \in Nat
      <3>1. Cardinality({f \in Fiber : pc[f] # "idle"}) \in Nat
        BY Counts
      <3>2. QED
        BY <3>1 DEF Room, TypeOK
    <2>d. r \in Record /\ r.n = lastWrite + 1
      BY <2>l DEF Record
    <2>n. \A j \in Key : /\ db'[j] \in Record
                         /\ j = k => db'[j].n = lastWrite + 1 /\ Seen(j)'.n = lastWrite + 1
                         /\ j # k => db'[j] = db[j] /\ Seen(j)' = Seen(j)
      BY <2>r, <2>d DEF TypeOK, Seen
    <2>u. Uncommitted' = Uncommitted
      BY DEF Uncommitted
    <2>1. TypeOK'
      BY <2>l, <2>r, <2>d DEF TypeOK
    <2>2. HasStatement'
      BY DEF HasStatement, Busy
    <2>3. RoomLeft'
      <3> DEFINE S == {f \in Fiber : pc[f] # "idle"}
      <3>1. Changing' = Changing /\ Changing \subseteq S /\ S \subseteq Fiber
        BY DEF Changing, Unsent, Busy
      <3>2. lastWrite + Cardinality(S) < MaxWrite
        BY DEF Room
      <3> HIDE DEF S
      <3>3. /\ Cardinality(Changing) <= Cardinality(S)
            /\ Cardinality(Changing) \in Nat /\ Cardinality(S) \in Nat
        BY <3>1, Counts, CountsOrdered
      <3>4. QED
        BY <2>l, <3>1, <3>2, <3>3 DEF RoomLeft
    <2>4. NumberedSoFar'
      BY <2>n, <2>l DEF NumberedSoFar, TypeOK
    <2>5. PendingInTransaction'
      BY DEF PendingInTransaction
    <2>6. CommittedApart'
      <3>1. lastWrite + 1 \notin dead \cup Uncommitted
        BY <2>l DEF NumberedSoFar, Uncommitted
      <3>2. QED
        BY <2>n, <2>u, <3>1 DEF CommittedApart
    <2>7. KnownIsThere'
      <3>1. \A j \in Key : known[j] <= lastWrite /\ known[j] \in Nat /\ knownBefore[j] \in Nat
        BY DEF NumberedSoFar, TypeOK
      <3>2. QED
        BY <2>n, <2>l, <3>1 DEF KnownIsThere
    <2>8. Dropped' /\ FlagAgrees'
      BY DEF Dropped, FlagAgrees, Cached, Busy, Unsent, Succeeded
    <2>9. ReadIsNew'
      BY <2>u DEF ReadIsNew, Succeeded
    <2>10. ChangeIsThere'
      <3> SUFFICES ASSUME NEW f \in Fiber, Succeeded(f), stmt[f].do \in Change,
                          NEW j \in {stmt[f].key, stmt[f].to}
                   PROVE  known[j] <= outcome[f].rec.n /\ outcome[f].rec.n <= Seen(j)'.n
        BY DEF ChangeIsThere, Succeeded
      <3>1. j \in Key
        BY KeysOf DEF HasStatement, Busy, Succeeded
      <3>2. /\ known[j] <= outcome[f].rec.n /\ outcome[f].rec.n <= Seen(j).n
            /\ outcome[f].rec \in Record
        BY DEF ChangeIsThere
      <3>3. Seen(j).n <= lastWrite /\ Seen(j).n \in Nat
        BY <3>1 DEF Seen, NumberedSoFar, TypeOK
      <3>4. QED
        BY <2>n, <2>l, <3>1, <3>2, <3>3
    <2>11. CacheNotObsolete' /\ CacheIsCommitted'
      BY <2>u DEF CacheNotObsolete, CacheIsCommitted, Cached
    <2>12. QED
      BY <2>1, <2>2, <2>3, <2>4, <2>5, <2>6, <2>7, <2>8, <2>9, <2>10, <2>11
  <1>28. ASSUME ConnectionLost, Apart' PROVE IInv'
    <2> USE <1>28, Typed DEF IInv, ServerInv, ConnectionLost
    <2>a. Abort("UNKNOWN") /\ \A f \in Fiber : ~outcome'[f].ok
      BY FailureTyped
    <2>1. TypeOK'
      BY <2>a, AbortKeeps, FailureTyped DEF TypeOK, Abort
    <2>2. HasStatement' /\ ServerInv'
      BY <2>a, AbortKeeps DEF HasStatement, Busy
    <2>3. RoomLeft'
      <3>1. Changing' \subseteq Changing /\ UNCHANGED lastWrite
        BY DEF Changing, Unsent, Busy, Abort
      <3>2. QED
        BY <3>1, RoomStays
    <2>4. Dropped'
      BY DEF Dropped, Busy, Cached
    <2>5. FlagAgrees'
      BY <2>a DEF FlagAgrees, Succeeded, Abort
    <2>6. ReadIsNew' /\ ChangeIsThere'
      BY <2>a DEF ReadIsNew, ChangeIsThere, Succeeded
    <2>7. CacheNotObsolete'
      <3> SUFFICES ASSUME NEW k \in Key, Cached(k)
                   PROVE  dbcache_[k].n >= known'[k]
        BY DEF CacheNotObsolete, Cached
      <3>1. known'[k] <= known[k] /\ known'[k] \in Nat /\ known[k] \in Nat
        BY <2>a, AbortKeeps DEF TypeOK
      <3>2. QED
        BY <3>1, CacheTyped DEF CacheNotObsolete
    <2>8. CacheIsCommitted'
      <3> SUFFICES ASSUME ~in_transaction_, NEW k \in Key, Cached(k)
                   PROVE  dbcache_[k].n \notin dead' \cup Uncommitted'
        BY DEF CacheIsCommitted, Cached
      <3>1. Uncommitted = {}
        BY CachesCommitted
      <3>2. QED
        BY <2>a, <3>1, AbortKeeps DEF CacheIsCommitted
    <2>9. QED
      BY <2>1, <2>2, <2>3, <2>4, <2>5, <2>6, <2>7, <2>8
  <1>29. CASE UNCHANGED vars
    <2> USE <1>29 DEF vars, server, fibers, ghosts, IInv, ServerInv
    <2>1. TypeOK' /\ HasStatement'
      BY DEF TypeOK, HasStatement, Busy
    <2>2. Apart' /\ RoomLeft'
      BY DEF Apart, RoomLeft, Changing, Unsent, Busy
    <2>3. ServerInv'
      BY DEF NumberedSoFar, PendingInTransaction, CommittedApart, KnownIsThere,
             Seen, Uncommitted
    <2>4. Dropped' /\ FlagAgrees'
      BY DEF Dropped, FlagAgrees, Cached, Busy, Unsent, Succeeded
    <2>5. ReadIsNew' /\ ChangeIsThere'
      BY DEF ReadIsNew, ChangeIsThere, Succeeded, Seen, Uncommitted
    <2>6. CacheNotObsolete' /\ CacheIsCommitted'
      BY DEF CacheNotObsolete, CacheIsCommitted, Cached, Uncommitted
    <2>7. QED
      BY <2>1, <2>2, <2>3, <2>4, <2>5, <2>6
  <1>30. QED
    BY <1>1, <1>2, <1>3, <1>4, <1>5, <1>6, <1>7, <1>8, <1>9, <1>10, <1>11,
       <1>12, <1>13, <1>14, <1>15, <1>16, <1>17, <1>18, <1>19, <1>20, <1>21,
       <1>22, <1>23, <1>24, <1>25, <1>26, <1>27, <1>28, <1>29
    DEF Next

LEMMA InitIInv == Init => IInv
  <1> SUFFICES ASSUME Init PROVE IInv
    OBVIOUS
  <1> USE Typed
  <1>1. TypeOK
    <2>1. Unchanged \in [Key -> Record \cup {None}] /\ Unchanged \in [Key -> Entry \cup {None, Program}]
      BY DEF Unchanged
    <2>2. db \in [Key -> Record] /\ 0 \in 0..MaxWrite
      BY DEF Init
    <2>3. QED
      BY <2>1, <2>2, FailureTyped DEF Init, TypeOK
  <1>2. HasStatement /\ Apart /\ Dropped /\ FlagAgrees /\ ReadIsNew /\ ChangeIsThere
    BY DEF Init, HasStatement, Apart, Dropped, FlagAgrees, ReadIsNew,
           ChangeIsThere, Busy, Unsent, Succeeded
  <1>3. RoomLeft
    <2>1. Changing = {}
      BY DEF Init, Changing, Unsent, Busy
    <2>2. QED
      BY <2>1, FS_EmptySet DEF Init, RoomLeft
  <1>4. Uncommitted = {} /\ \A k \in Key : ~Cached(k) /\ Seen(k) = db[k] /\ db[k].n = 0
    BY DEF Init, Uncommitted, Unchanged, Cached, Seen
  <1>5. ServerInv /\ CacheNotObsolete /\ CacheIsCommitted
    BY <1>4 DEF Init, ServerInv, NumberedSoFar, PendingInTransaction,
                CommittedApart, KnownIsThere, CacheNotObsolete,
                CacheIsCommitted, Unchanged
  <1>6. QED
    BY <1>1, <1>2, <1>3, <1>5 DEF IInv

-----------------------------------------------------------------------------
(* The theorems.                                                           *)

\* The inductive invariant holds in every state while tasks keep apart.
THEOREM Invariance == ApartSpec => []IInv
  BY InitIInv, NextIInv, PTL DEF ApartSpec

\* The cache, the statements and their results are of their types, and the
\* numbers of the changes stay within their bound.
THEOREM TypeCorrect == ApartSpec => []TypeOK
  BY Invariance, PTL DEF IInv

\* "to prevent any future readc() getting known obsolete records": for tasks
\* that keep apart, the cache never has a record that the program has itself
\* changed since, by whatever call and whatever has failed in between.
THEOREM CacheIsNotObsolete == ApartSpec => []CacheNotObsolete
  BY Invariance, PTL DEF IInv

\* Outside a transaction the cache has nothing that was rolled back or that is
\* not committed, for tasks that keep apart.
THEOREM CacheHasCommitted == ApartSpec => []CacheIsCommitted
  BY Invariance, PTL DEF IInv
=============================================================================
