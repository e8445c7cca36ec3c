------------------------- MODULE RecordLeasesProofs -------------------------
(***************************************************************************)
(* Proofs about RecordLeases, for any number of browsers and any bounds:   *)
(* no lease is left that nobody can end, but those of answers that were    *)
(* lost; no update is lost when the file has a DATE_TIME; and while the    *)
(* clock does not pass midnight a lease is found expired when its time is  *)
(* over and only then.                                                     *)
(*                                                                         *)
(* The statements of requests interleave in any order.  What orders them   *)
(* is what IInv is about: which requests have the row lock of the LOCKS    *)
(* row, and what they have put there; which have the advisory lock of the  *)
(* record; and which have a session id to present.                         *)
(***************************************************************************)
EXTENDS RecordLeases, FiniteSetTheorems, TLAPS

\* Requests that are about to be given a new session id.
Asking ==
  {c \in Client :
     pc[c] \in {"readu_lock", "readu_expire", "readu_check", "readu_write"}}

\* Requests that are about to write the record.
Writing ==
  {c \in Client : pc[c] \in {"write_check", "write_renew", "write_lock",
                             "write_stamp", "write_store"}}

\* The bounds leave room for the requests that are running.
RoomLeft ==
  /\ lastSession + Cardinality(Asking) <= MaxSessions
  /\ lastWrite + Cardinality(Writing) <= MaxWrites + Cardinality(Client)

\* READU is for those that have no session id, the others present theirs.
SessionPresented ==
  \A c \in Client :
    /\ c \in Asking \/ pc[c] \in {"readu_refused", "readu_granted"} =>
         session[c] = 0
    /\ c \in Writing \/ pc[c] \in {"relock_lock", "relock_write",
                                   "unlock_lock", "unlock_delete"} =>
         session[c] # 0
    /\ c \in Writing => op[c] \in Write

\* The LOCKS row that a transaction has left is no row, the new lease that the
\* request is to answer with, or the lease it has presented.
RowIsOfRequest ==
  \A c \in Client :
    /\ rowLock = c =>
         \/ pc[c] \in {"readu_check", "readu_write"} /\ pending = NoRow
         \/ pc[c] = "readu_granted" /\ pending.sid # 0
         \/ /\ pc[c] \in {"write_lock", "write_stamp", "write_store"}
            /\ pending.sid = session[c]
    /\ pc[c] \in {"readu_granted", "write_lock", "write_stamp", "write_store"} =>
         rowLock = c

\* From the check of the time stamp on the record is the request's.
StampHolds ==
  \A c \in Client :
    /\ pc[c] \in {"write_stamp", "write_store"} => advisory = c
    /\ pc[c] = "write_store" /\ op[c] # "DELETE" /\ HasDateTime =>
         record \in {0, base[c]}

\* The expiry of a lease is as long after its beginning as it should be.
Timed(r) == r.sid # 0 => r.expiry = r.since + LeaseTicks

ExpiryIsTime ==
  MaxClock < TicksPerDay =>
    /\ Timed(lease) /\ Timed(pending)
    /\ \A c \in Client : dostime[c].time = dostime[c].at

IInv ==
  /\ TypeOK /\ RoomLeft /\ SessionPresented /\ RowIsOfRequest /\ StampHolds
  /\ ExpiryIsTime /\ NoOrphanLease


-----------------------------------------------------------------------------
(* Counting.                                                               *)

\* Sets of browsers have a number of members.
LEMMA Counts ==
  ASSUME NEW S, S \subseteq Client
  PROVE  /\ IsFiniteSet(S)
         /\ Cardinality(S) \in Nat /\ Cardinality(Client) \in Nat
         /\ Cardinality(S) <= Cardinality(Client)
  BY ClientAssumption, FS_Subset, FS_CardinalityType

LEMMA CountsOrdered ==
  ASSUME NEW S, NEW T, S \subseteq Client, T \subseteq S
  PROVE  Cardinality(T) <= Cardinality(S)
  BY Counts, FS_Subset

\* One more and one fewer.
LEMMA CountsOneMore ==
  ASSUME NEW S, S \subseteq Client, NEW c \in Client, c \notin S
  PROVE  Cardinality(S \cup {c}) = Cardinality(S) + 1
  BY Counts, FS_AddElement

LEMMA CountsOneFewer ==
  ASSUME NEW S, S \subseteq Client, NEW c \in S
  PROVE  Cardinality(S \ {c}) = Cardinality(S) - 1 /\ Cardinality(S) > 0
  <1>1. IsFiniteSet(S) /\ Cardinality(S) \in Nat /\ S # {}
    BY Counts
  <1>2. Cardinality(S) # 0
    BY <1>1, FS_EmptySet
  <1>3. Cardinality(S \ {c}) = Cardinality(S) - 1
    BY <1>1, FS_RemoveElement
  <1>4. QED
    BY <1>1, <1>2, <1>3

\* The numbers that RoomLeft is about.
LEMMA RoomTyped ==
  ASSUME TypeOK
  PROVE  /\ Asking \subseteq Client /\ Writing \subseteq Client
         /\ Asking' \subseteq Client /\ Writing' \subseteq Client
         /\ lastSession \in Nat /\ lastWrite \in Nat
         /\ MaxSessions \in Nat /\ MaxWrites \in Nat
         /\ Cardinality(Client) \in Nat
         /\ Cardinality(Asking) \in Nat /\ Cardinality(Writing) \in Nat
  <1>1. Asking \subseteq Client /\ Writing \subseteq Client
    BY DEF Asking, Writing
  <1>2. Asking' \subseteq Client /\ Writing' \subseteq Client
    BY DEF Asking, Writing
  <1>3. QED
    BY <1>1, <1>2, Counts, BoundsAssumption DEF TypeOK, Session, Version

\* There is as much room as before when no request comes to ask for a session
\* id or to write.
LEMMA RoomStays ==
  ASSUME TypeOK, RoomLeft, Asking' \subseteq Asking, Writing' \subseteq Writing,
         UNCHANGED <<lastSession, lastWrite>>
  PROVE  RoomLeft'
  <1>1. /\ Cardinality(Asking') <= Cardinality(Asking)
        /\ Cardinality(Writing') <= Cardinality(Writing)
        /\ Cardinality(Asking') \in Nat /\ Cardinality(Writing') \in Nat
    BY RoomTyped, CountsOrdered, Counts
  <1>2. QED
    BY <1>1, RoomTyped DEF RoomLeft

-----------------------------------------------------------------------------
(* The clock and the leases that are written.                              *)

\* Before midnight both parts of the clock are read at one time.
LEMMA ClockIsRead ==
  ASSUME TypeOK, MaxClock < TicksPerDay, NEW t \in Dostime
  PROVE  t.time = t.at
  <1>1. clock \in 0..MaxClock /\ TicksPerDay \in Nat /\ clock < TicksPerDay
    BY TimeAssumption DEF TypeOK
  <1>2. clock > 0 => clock % TicksPerDay # 0
    BY <1>1
  <1>3. QED
    BY <1>2 DEF Dostime

LEMMA ClockTyped ==
  ASSUME TypeOK, NEW t \in Dostime
  PROVE  t \in [time : 0..(MaxClock + TicksPerDay), at : 0..MaxClock]
  BY TimeAssumption DEF TypeOK, Dostime

LEMMA RowTyped ==
  ASSUME NEW s \in Session \ {0},
         NEW t \in [time : 0..(MaxClock + TicksPerDay), at : 0..MaxClock]
  PROVE  Row(s, t) \in Rows /\ Row(s, t).sid = s /\ Row(s, t) # NoRow
  <1>1. t.time + LeaseTicks \in Nat
    BY TimeAssumption
  <1>2. Row(s, t).sid = s /\ NoRow.sid = 0
    BY DEF Row, NoRow
  <1>3. Row(s, t) \in [sid : Session, expiry : Nat, since : 0..MaxClock]
    BY <1>1 DEF Row
  <1>4. QED
    BY <1>2, <1>3 DEF Rows

LEMMA NoRowTyped == NoRow \in Rows
  BY TimeAssumption, BoundsAssumption DEF NoRow, Rows, Session

-----------------------------------------------------------------------------
(* The steps.                                                              *)

LEMMA NextIInv == IInv /\ [Next]_vars => IInv'
  <1> SUFFICES ASSUME IInv, [Next]_vars PROVE IInv'
    OBVIOUS
  <1>1. ASSUME NEW c \in Client, ReaduStart(c) PROVE IInv'
    <2> USE <1>1 DEF IInv, ReaduStart, Goto
    <2>1. TypeOK'
      BY BoundsAssumption, TimeAssumption, ClientAssumption
      DEF TypeOK, Session, Version, Rows, Step, Row, Dostime
    <2>2. RoomLeft'
      <3> DEFINE S == {d \in Client : pc[d] # "idle" /\ session[d] = 0}
      <3>1. /\ Asking' = Asking \cup {c} /\ c \notin Asking /\ Writing' = Writing
            /\ Asking \subseteq S /\ S \subseteq Client
        BY DEF Asking, Writing, SessionPresented, TypeOK
      <3>2. lastSession + Cardinality(S) < MaxSessions
        OBVIOUS
      <3> HIDE DEF S
      <3>3. /\ Cardinality(Asking') = Cardinality(Asking) + 1
            /\ Cardinality(Asking) <= Cardinality(S) /\ Cardinality(S) \in Nat
        BY <3>1, RoomTyped, Counts, CountsOrdered, CountsOneMore
      <3>4. QED
        BY <3>1, <3>2, <3>3, RoomTyped DEF RoomLeft
    <2>3. SessionPresented'
      BY ClientAssumption DEF SessionPresented, Asking, Writing, TypeOK
    <2>4. RowIsOfRequest'
      BY ClientAssumption
      DEF RowIsOfRequest, SessionPresented, Asking, Writing, TypeOK, Row
    <2>5. StampHolds'
      BY ClientAssumption
      DEF StampHolds, SessionPresented, Asking, Writing, TypeOK
    <2>6. ExpiryIsTime'
      BY ClockIsRead DEF ExpiryIsTime, Timed, TypeOK, Row, RowIsOfRequest
    <2>7. NoOrphanLease'
      BY ClientAssumption
      DEF NoOrphanLease, SessionPresented, RowIsOfRequest, Asking, Writing,
          TypeOK, Row
    <2>8. QED
      BY <2>1, <2>2, <2>3, <2>4, <2>5, <2>6, <2>7 DEF IInv
  <1>2. ASSUME NEW c \in Client, Lockrecord(c) PROVE IInv'
    <2> USE <1>2 DEF IInv, Lockrecord, Free, Goto, Take, Seen, NoRow, Expired
    <2>1. TypeOK'
      BY BoundsAssumption, TimeAssumption, ClientAssumption, SMTT(30)
      DEF TypeOK, Session, Version, Rows, Step, Row, Dostime
    <2>2. RoomLeft'
      BY RoomStays DEF Asking, Writing, TypeOK
    <2>3. SessionPresented'
      BY ClientAssumption DEF SessionPresented, Asking, Writing, TypeOK
    <2>4. RowIsOfRequest'
      BY ClientAssumption
      DEF RowIsOfRequest, SessionPresented, Asking, Writing, TypeOK, Row
    <2>5. StampHolds'
      BY ClientAssumption
      DEF StampHolds, SessionPresented, Asking, Writing, TypeOK
    <2>6. ExpiryIsTime'
      BY ClockIsRead DEF ExpiryIsTime, Timed, TypeOK, Row, RowIsOfRequest
    <2>7. NoOrphanLease'
      BY ClientAssumption
      DEF NoOrphanLease, SessionPresented, RowIsOfRequest, Asking, Writing,
          TypeOK, Row
    <2>8. QED
      BY <2>1, <2>2, <2>3, <2>4, <2>5, <2>6, <2>7 DEF IInv
  <1>3. ASSUME NEW c \in Client, LockrecordExpire(c) PROVE IInv'
    <2> USE <1>3 DEF IInv, LockrecordExpire, Delete, Goto, Seen, NoRow, Change
    <2>1. TypeOK'
      BY BoundsAssumption, TimeAssumption, ClientAssumption
      DEF TypeOK, Session, Version, Rows, Step, Row, Dostime
    <2>2. RoomLeft'
      BY RoomStays DEF Asking, Writing, TypeOK
    <2>3. SessionPresented'
      BY ClientAssumption DEF SessionPresented, Asking, Writing, TypeOK
    <2>4. RowIsOfRequest'
      BY ClientAssumption
      DEF RowIsOfRequest, SessionPresented, Asking, Writing, TypeOK, Row
    <2>5. StampHolds'
      BY ClientAssumption
      DEF StampHolds, SessionPresented, Asking, Writing, TypeOK
    <2>6. ExpiryIsTime'
      BY ClockIsRead DEF ExpiryIsTime, Timed, TypeOK, Row, RowIsOfRequest
    <2>7. NoOrphanLease'
      BY ClientAssumption
      DEF NoOrphanLease, SessionPresented, RowIsOfRequest, Asking, Writing,
          TypeOK, Row
    <2>8. QED
      BY <2>1, <2>2, <2>3, <2>4, <2>5, <2>6, <2>7 DEF IInv
  <1>4. ASSUME NEW c \in Client, LeaselockCheck(c) PROVE IInv'
    <2> USE <1>4 DEF IInv, LeaselockCheck, Goto, Seen, NoRow, Expired
    <2>1. TypeOK'
      BY BoundsAssumption, TimeAssumption, ClientAssumption
      DEF TypeOK, Session, Version, Rows, Step, Row, Dostime
    <2>2. RoomLeft'
      BY RoomStays DEF Asking, Writing, TypeOK
    <2>3. SessionPresented'
      BY ClientAssumption DEF SessionPresented, Asking, Writing, TypeOK
    <2>4. RowIsOfRequest'
      BY ClientAssumption
      DEF RowIsOfRequest, SessionPresented, Asking, Writing, TypeOK, Row
    <2>5. StampHolds'
      BY ClientAssumption
      DEF StampHolds, SessionPresented, Asking, Writing, TypeOK
    <2>6. ExpiryIsTime'
      BY ClockIsRead DEF ExpiryIsTime, Timed, TypeOK, Row, RowIsOfRequest
    <2>7. NoOrphanLease'
      BY ClientAssumption
      DEF NoOrphanLease, SessionPresented, RowIsOfRequest, Asking, Writing,
          TypeOK, Row
    <2>8. QED
      BY <2>1, <2>2, <2>3, <2>4, <2>5, <2>6, <2>7 DEF IInv
  <1>5. ASSUME NEW c \in Client, LeaselockWrite(c) PROVE IInv'
    <2> USE <1>5 DEF IInv, LeaselockWrite, Change, Goto
    <2>a. c \in Asking /\ Cardinality(Asking) > 0
      BY RoomTyped, CountsOneFewer DEF Asking
    <2>b. lastSession + 1 \in Session \ {0}
      BY <2>a, RoomTyped DEF RoomLeft, Session
    <2>c. /\ pending' = Row(lastSession + 1, dostime[c]) /\ pending' \in Rows
          /\ pending'.sid = lastSession + 1 /\ pending'.sid # 0
      BY <2>b, RowTyped DEF TypeOK
    <2>1. TypeOK'
      BY <2>b, <2>c DEF TypeOK, Step
    <2>2. RoomLeft'
      <3>1. Asking' = Asking \ {c} /\ Writing' = Writing
        BY DEF Asking, Writing, TypeOK
      <3>2. Cardinality(Asking') = Cardinality(Asking) - 1
        BY <2>a, <3>1, RoomTyped, CountsOneFewer
      <3>3. QED
        BY <3>1, <3>2, RoomTyped DEF RoomLeft
    <2>3. SessionPresented'
      BY ClientAssumption DEF SessionPresented, Asking, Writing, TypeOK
    <2>4. RowIsOfRequest'
      BY <2>c, ClientAssumption DEF RowIsOfRequest, TypeOK
    <2>5. StampHolds'
      BY ClientAssumption
      DEF StampHolds, SessionPresented, Asking, Writing, TypeOK
    <2>6. ExpiryIsTime'
      BY ClockIsRead DEF ExpiryIsTime, Timed, TypeOK, Row, RowIsOfRequest
    <2>7. NoOrphanLease'
      BY ClientAssumption
      DEF NoOrphanLease, SessionPresented, RowIsOfRequest, Asking, Writing,
          TypeOK, Row
    <2>8. QED
      BY <2>1, <2>2, <2>3, <2>4, <2>5, <2>6, <2>7 DEF IInv
  <1>6. ASSUME NEW c \in Client, ReaduAnswer(c) PROVE IInv'
    <2> USE <1>6 DEF IInv, ReaduAnswer, Commit, Release, Seen, NoRow
    <2>1. TypeOK'
      <3>1. pending.sid \in Session /\ lease' \in Rows /\ pending' \in Rows
        BY NoRowTyped DEF TypeOK, Rows
      <3>2. QED
        BY <3>1 DEF TypeOK, Step
    <2>2. RoomLeft'
      BY RoomStays DEF Asking, Writing, TypeOK
    <2>3. SessionPresented'
      BY ClientAssumption DEF SessionPresented, Asking, Writing, TypeOK
    <2>4. RowIsOfRequest'
      BY ClientAssumption
      DEF RowIsOfRequest, SessionPresented, Asking, Writing, TypeOK, Row
    <2>5. StampHolds'
      BY ClientAssumption
      DEF StampHolds, SessionPresented, Asking, Writing, TypeOK
    <2>6. ExpiryIsTime'
      BY ClockIsRead DEF ExpiryIsTime, Timed, TypeOK, Row, RowIsOfRequest
    <2>7. NoOrphanLease'
      BY ClientAssumption
      DEF NoOrphanLease, SessionPresented, RowIsOfRequest, Asking, Writing,
          TypeOK, Row
    <2>8. QED
      BY <2>1, <2>2, <2>3, <2>4, <2>5, <2>6, <2>7 DEF IInv
  <1>7. ASSUME NEW c \in Client, ReaduDenied(c) PROVE IInv'
    <2> USE <1>7 DEF IInv, ReaduDenied, NoRow, Release, Goto
    <2>1. TypeOK'
      BY BoundsAssumption, TimeAssumption, ClientAssumption
      DEF TypeOK, Session, Version, Rows, Step, Row, Dostime
    <2>2. RoomLeft'
      BY RoomStays DEF Asking, Writing, TypeOK
    <2>3. SessionPresented'
      BY ClientAssumption DEF SessionPresented, Asking, Writing, TypeOK
    <2>4. RowIsOfRequest'
      BY ClientAssumption
      DEF RowIsOfRequest, SessionPresented, Asking, Writing, TypeOK, Row
    <2>5. StampHolds'
      BY ClientAssumption
      DEF StampHolds, SessionPresented, Asking, Writing, TypeOK
    <2>6. ExpiryIsTime'
      BY ClockIsRead DEF ExpiryIsTime, Timed, TypeOK, Row, RowIsOfRequest
    <2>7. NoOrphanLease'
      BY ClientAssumption
      DEF NoOrphanLease, SessionPresented, RowIsOfRequest, Asking, Writing,
          TypeOK, Row
    <2>8. QED
      BY <2>1, <2>2, <2>3, <2>4, <2>5, <2>6, <2>7 DEF IInv
  <1>8. ASSUME NEW c \in Client, NEW o \in Write, WriteStart(c, o) PROVE IInv'
    <2> USE <1>8 DEF IInv, WriteStart, Goto
    <2>1. TypeOK'
      BY BoundsAssumption, TimeAssumption, ClientAssumption
      DEF TypeOK, Session, Version, Rows, Step, Row, Dostime
    <2>2. RoomLeft'
      <3>1. /\ Writing' = Writing \cup {c} /\ c \notin Writing /\ Asking' = Asking
        BY DEF Asking, Writing, TypeOK
      <3>2. /\ Cardinality(Writing') \in Nat
            /\ Cardinality(Writing') <= Cardinality(Client)
        BY RoomTyped, Counts
      <3>3. QED
        BY <3>1, <3>2, RoomTyped DEF RoomLeft
    <2>3. SessionPresented'
      BY ClientAssumption DEF SessionPresented, Asking, Writing, TypeOK
    <2>4. RowIsOfRequest'
      BY ClientAssumption
      DEF RowIsOfRequest, SessionPresented, Asking, Writing, TypeOK, Row
    <2>5. StampHolds'
      BY ClientAssumption
      DEF StampHolds, SessionPresented, Asking, Writing, TypeOK
    <2>6. ExpiryIsTime'
      BY ClockIsRead DEF ExpiryIsTime, Timed, TypeOK, Row, RowIsOfRequest
    <2>7. NoOrphanLease'
      BY ClientAssumption
      DEF NoOrphanLease, SessionPresented, RowIsOfRequest, Asking, Writing,
          TypeOK, Row
    <2>8. QED
      BY <2>1, <2>2, <2>3, <2>4, <2>5, <2>6, <2>7 DEF IInv
  <1>9. ASSUME NEW c \in Client, WriteCheck(c) PROVE IInv'
    <2> USE <1>9 DEF IInv, WriteCheck, Seen, Goto, Commit, Release, NoRow
    <2>1. TypeOK'
      BY NoRowTyped DEF TypeOK, Step
    <2>2. RoomLeft'
      BY RoomStays DEF Asking, Writing, TypeOK
    <2>3. SessionPresented'
      BY ClientAssumption DEF SessionPresented, Asking, Writing, TypeOK
    <2>4. RowIsOfRequest'
      BY ClientAssumption
      DEF RowIsOfRequest, SessionPresented, Asking, Writing, TypeOK, Row
    <2>5. StampHolds'
      BY ClientAssumption
      DEF StampHolds, SessionPresented, Asking, Writing, TypeOK
    <2>6. ExpiryIsTime'
      BY ClockIsRead DEF ExpiryIsTime, Timed, TypeOK, Row, RowIsOfRequest
    <2>7. NoOrphanLease'
      BY ClientAssumption
      DEF NoOrphanLease, SessionPresented, RowIsOfRequest, Asking, Writing,
          TypeOK, Row
    <2>8. QED
      BY <2>1, <2>2, <2>3, <2>4, <2>5, <2>6, <2>7 DEF IInv
  <1>10. ASSUME NEW c \in Client, WriteRenew(c) PROVE IInv'
    <2> USE <1>10 DEF IInv, WriteRenew, Change, Goto
    <2>a. /\ pending' \in Rows /\ pending'.sid = session[c]
          /\ \E t \in Dostime : pending' = Row(session[c], t)
      BY ClockTyped, RowTyped DEF SessionPresented, Writing, TypeOK
    <2>1. TypeOK'
      BY <2>a DEF TypeOK, Step
    <2>2. RoomLeft'
      BY RoomStays DEF Asking, Writing, TypeOK
    <2>3. SessionPresented'
      BY ClientAssumption DEF SessionPresented, Asking, Writing, TypeOK
    <2>4. RowIsOfRequest'
      BY ClientAssumption
      DEF RowIsOfRequest, SessionPresented, Asking, Writing, TypeOK, Row
    <2>5. StampHolds'
      BY ClientAssumption
      DEF StampHolds, SessionPresented, Asking, Writing, TypeOK
    <2>6. ExpiryIsTime'
      BY ClockIsRead DEF ExpiryIsTime, Timed, TypeOK, Row, RowIsOfRequest
    <2>7. NoOrphanLease'
      BY ClientAssumption
      DEF NoOrphanLease, SessionPresented, RowIsOfRequest, Asking, Writing,
          TypeOK, Row
    <2>8. QED
      BY <2>1, <2>2, <2>3, <2>4, <2>5, <2>6, <2>7 DEF IInv
  <1>11. ASSUME NEW c \in Client, Properlock(c) PROVE IInv'
    <2> USE <1>11
            DEF IInv, Properlock, Free, Take, Goto, Commit, Release, Seen,
                NoRow
    <2>1. TypeOK'
      BY BoundsAssumption, TimeAssumption, ClientAssumption
      DEF TypeOK, Session, Version, Rows, Step, Row, Dostime
    <2>2. RoomLeft'
      BY RoomStays DEF Asking, Writing, TypeOK
    <2>3. SessionPresented'
      BY ClientAssumption DEF SessionPresented, Asking, Writing, TypeOK
    <2>4. RowIsOfRequest'
      BY ClientAssumption
      DEF RowIsOfRequest, SessionPresented, Asking, Writing, TypeOK, Row
    <2>5. StampHolds'
      BY ClientAssumption
      DEF StampHolds, SessionPresented, Asking, Writing, TypeOK
    <2>6. ExpiryIsTime'
      BY ClockIsRead DEF ExpiryIsTime, Timed, TypeOK, Row, RowIsOfRequest
    <2>7. NoOrphanLease'
      BY ClientAssumption
      DEF NoOrphanLease, SessionPresented, RowIsOfRequest, Asking, Writing,
          TypeOK, Row
    <2>8. QED
      BY <2>1, <2>2, <2>3, <2>4, <2>5, <2>6, <2>7 DEF IInv
  <1>12. ASSUME NEW c \in Client, WriteStamp(c) PROVE IInv'
    <2> USE <1>12
            DEF IInv, WriteStamp, StampDiffers, Commit, Goto, Release, Seen,
                NoRow
    <2>1. TypeOK'
      BY BoundsAssumption, TimeAssumption, ClientAssumption
      DEF TypeOK, Session, Version, Rows, Step, Row, Dostime
    <2>2. RoomLeft'
      BY RoomStays DEF Asking, Writing, TypeOK
    <2>3. SessionPresented'
      BY ClientAssumption DEF SessionPresented, Asking, Writing, TypeOK
    <2>4. RowIsOfRequest'
      BY ClientAssumption
      DEF RowIsOfRequest, SessionPresented, Asking, Writing, TypeOK, Row
    <2>5. StampHolds'
      BY ClientAssumption
      DEF StampHolds, SessionPresented, Asking, Writing, TypeOK
    <2>6. ExpiryIsTime'
      BY ClockIsRead DEF ExpiryIsTime, Timed, TypeOK, Row, RowIsOfRequest
    <2>7. NoOrphanLease'
      BY ClientAssumption
      DEF NoOrphanLease, SessionPresented, RowIsOfRequest, Asking, Writing,
          TypeOK, Row
    <2>8. QED
      BY <2>1, <2>2, <2>3, <2>4, <2>5, <2>6, <2>7 DEF IInv
  <1>13. ASSUME NEW c \in Client, WriteStore(c) PROVE IInv'
    <2> USE <1>13
            DEF IInv, WriteStore, LeaseAfterWrite, Release, Goto, Seen, NoRow
    <2>a. c \in Writing /\ Cardinality(Writing) > 0
      BY RoomTyped, CountsOneFewer DEF Writing
    <2>b. /\ Asking' = Asking /\ Writing' = Writing \ {c}
          /\ Cardinality(Writing') = Cardinality(Writing) - 1
      BY <2>a, RoomTyped, CountsOneFewer DEF Asking, Writing, TypeOK
    <2>c. lastWrite + 1 \in Version /\ 0 \in Version /\ 0 \in Session
      <3>1. Cardinality(Writing) <= Cardinality(Client)
        BY RoomTyped, Counts
      <3>2. QED
        BY <2>a, <3>1, RoomTyped DEF RoomLeft, Version, Session
    <2>1. TypeOK'
      <3>1. lease' \in Rows /\ pending' \in Rows
        BY NoRowTyped DEF TypeOK
      <3>2. QED
        BY <2>c, <3>1 DEF TypeOK, Step
    <2>2. RoomLeft'
      BY <2>b, RoomTyped DEF RoomLeft
    <2>3. SessionPresented'
      BY ClientAssumption DEF SessionPresented, Asking, Writing, TypeOK
    <2>4. RowIsOfRequest'
      BY ClientAssumption
      DEF RowIsOfRequest, SessionPresented, Asking, Writing, TypeOK, Row
    <2>5. StampHolds'
      BY ClientAssumption
      DEF StampHolds, SessionPresented, Asking, Writing, TypeOK
    <2>6. ExpiryIsTime'
      BY ClockIsRead DEF ExpiryIsTime, Timed, TypeOK, Row, RowIsOfRequest
    <2>7. NoOrphanLease'
      BY ClientAssumption
      DEF NoOrphanLease, SessionPresented, RowIsOfRequest, Asking, Writing,
          TypeOK, Row
    <2>8. QED
      BY <2>1, <2>2, <2>3, <2>4, <2>5, <2>6, <2>7 DEF IInv
  <1>14. ASSUME NEW c \in Client, WriteDenied(c) PROVE IInv'
    <2> USE <1>14 DEF IInv, WriteDenied, Commit, Release, Seen, NoRow
    <2>1. TypeOK'
      BY BoundsAssumption, TimeAssumption, ClientAssumption
      DEF TypeOK, Session, Version, Rows, Step, Row, Dostime
    <2>2. RoomLeft'
      BY RoomStays DEF Asking, Writing, TypeOK
    <2>3. SessionPresented'
      BY ClientAssumption DEF SessionPresented, Asking, Writing, TypeOK
    <2>4. RowIsOfRequest'
      BY ClientAssumption
      DEF RowIsOfRequest, SessionPresented, Asking, Writing, TypeOK, Row
    <2>5. StampHolds'
      BY ClientAssumption
      DEF StampHolds, SessionPresented, Asking, Writing, TypeOK
    <2>6. ExpiryIsTime'
      BY ClockIsRead DEF ExpiryIsTime, Timed, TypeOK, Row, RowIsOfRequest
    <2>7. NoOrphanLease'
      BY ClientAssumption
      DEF NoOrphanLease, SessionPresented, RowIsOfRequest, Asking, Writing,
          TypeOK, Row
    <2>8. QED
      BY <2>1, <2>2, <2>3, <2>4, <2>5, <2>6, <2>7 DEF IInv
  <1>15. ASSUME NEW c \in Client, RelockStart(c) PROVE IInv'
    <2> USE <1>15 DEF IInv, RelockStart, SessionStart, Goto
    <2>1. TypeOK'
      BY BoundsAssumption, TimeAssumption, ClientAssumption
      DEF TypeOK, Session, Version, Rows, Step, Row, Dostime
    <2>2. RoomLeft'
      BY RoomStays DEF Asking, Writing, TypeOK
    <2>3. SessionPresented'
      BY ClientAssumption DEF SessionPresented, Asking, Writing, TypeOK
    <2>4. RowIsOfRequest'
      BY ClientAssumption
      DEF RowIsOfRequest, SessionPresented, Asking, Writing, TypeOK, Row
    <2>5. StampHolds'
      BY ClientAssumption
      DEF StampHolds, SessionPresented, Asking, Writing, TypeOK
    <2>6. ExpiryIsTime'
      BY ClockIsRead DEF ExpiryIsTime, Timed, TypeOK, Row, RowIsOfRequest
    <2>7. NoOrphanLease'
      BY ClientAssumption
      DEF NoOrphanLease, SessionPresented, RowIsOfRequest, Asking, Writing,
          TypeOK, Row
    <2>8. QED
      BY <2>1, <2>2, <2>3, <2>4, <2>5, <2>6, <2>7 DEF IInv
  <1>16. ASSUME NEW c \in Client, UnlockStart(c) PROVE IInv'
    <2> USE <1>16 DEF IInv, UnlockStart, SessionStart, Goto
    <2>1. TypeOK'
      BY BoundsAssumption, TimeAssumption, ClientAssumption
      DEF TypeOK, Session, Version, Rows, Step, Row, Dostime
    <2>2. RoomLeft'
      BY RoomStays DEF Asking, Writing, TypeOK
    <2>3. SessionPresented'
      BY ClientAssumption DEF SessionPresented, Asking, Writing, TypeOK
    <2>4. RowIsOfRequest'
      BY ClientAssumption
      DEF RowIsOfRequest, SessionPresented, Asking, Writing, TypeOK, Row
    <2>5. StampHolds'
      BY ClientAssumption
      DEF StampHolds, SessionPresented, Asking, Writing, TypeOK
    <2>6. ExpiryIsTime'
      BY ClockIsRead DEF ExpiryIsTime, Timed, TypeOK, Row, RowIsOfRequest
    <2>7. NoOrphanLease'
      BY ClientAssumption
      DEF NoOrphanLease, SessionPresented, RowIsOfRequest, Asking, Writing,
          TypeOK, Row
    <2>8. QED
      BY <2>1, <2>2, <2>3, <2>4, <2>5, <2>6, <2>7 DEF IInv
  <1>17. ASSUME NEW c \in Client, RelockCheck(c) PROVE IInv'
    <2> USE <1>17
            DEF IInv, RelockCheck, RawlockThen, Free, Seen, Take, Goto, Commit,
                Release, NoRow
    <2>1. TypeOK'
      BY BoundsAssumption, TimeAssumption, ClientAssumption
      DEF TypeOK, Session, Version, Rows, Step, Row, Dostime
    <2>2. RoomLeft'
      BY RoomStays DEF Asking, Writing, TypeOK
    <2>3. SessionPresented'
      BY ClientAssumption DEF SessionPresented, Asking, Writing, TypeOK
    <2>4. RowIsOfRequest'
      BY ClientAssumption
      DEF RowIsOfRequest, SessionPresented, Asking, Writing, TypeOK, Row
    <2>5. StampHolds'
      BY ClientAssumption
      DEF StampHolds, SessionPresented, Asking, Writing, TypeOK
    <2>6. ExpiryIsTime'
      BY ClockIsRead DEF ExpiryIsTime, Timed, TypeOK, Row, RowIsOfRequest
    <2>7. NoOrphanLease'
      BY ClientAssumption
      DEF NoOrphanLease, SessionPresented, RowIsOfRequest, Asking, Writing,
          TypeOK, Row
    <2>8. QED
      BY <2>1, <2>2, <2>3, <2>4, <2>5, <2>6, <2>7 DEF IInv
  <1>18. ASSUME NEW c \in Client, RelockWrite(c) PROVE IInv'
    <2> USE <1>18 DEF IInv, RelockWrite, Release, Goto, NoRow
    <2>a. /\ lease' \in Rows /\ lease'.sid = session[c]
          /\ \E t \in Dostime : lease' = Row(session[c], t)
      BY ClockTyped, RowTyped DEF SessionPresented, TypeOK
    <2>1. TypeOK'
      BY <2>a, NoRowTyped DEF TypeOK, Step
    <2>2. RoomLeft'
      BY RoomStays DEF Asking, Writing, TypeOK
    <2>3. SessionPresented'
      BY ClientAssumption DEF SessionPresented, Asking, Writing, TypeOK
    <2>4. RowIsOfRequest'
      BY ClientAssumption
      DEF RowIsOfRequest, SessionPresented, Asking, Writing, TypeOK, Row
    <2>5. StampHolds'
      BY ClientAssumption
      DEF StampHolds, SessionPresented, Asking, Writing, TypeOK
    <2>6. ExpiryIsTime'
      BY ClockIsRead DEF ExpiryIsTime, Timed, TypeOK, Row, RowIsOfRequest
    <2>7. NoOrphanLease'
      BY ClientAssumption
      DEF NoOrphanLease, SessionPresented, RowIsOfRequest, Asking, Writing,
          TypeOK, Row
    <2>8. QED
      BY <2>1, <2>2, <2>3, <2>4, <2>5, <2>6, <2>7 DEF IInv
  <1>19. ASSUME NEW c \in Client, UnlockCheck(c) PROVE IInv'
    <2> USE <1>19
            DEF IInv, UnlockCheck, RawlockThen, Free, Seen, Take, Goto, Commit,
                Release, NoRow
    <2>1. TypeOK'
      BY BoundsAssumption, TimeAssumption, ClientAssumption
      DEF TypeOK, Session, Version, Rows, Step, Row, Dostime
    <2>2. RoomLeft'
      BY RoomStays DEF Asking, Writing, TypeOK
    <2>3. SessionPresented'
      BY ClientAssumption DEF SessionPresented, Asking, Writing, TypeOK
    <2>4. RowIsOfRequest'
      BY ClientAssumption
      DEF RowIsOfRequest, SessionPresented, Asking, Writing, TypeOK, Row
    <2>5. StampHolds'
      BY ClientAssumption
      DEF StampHolds, SessionPresented, Asking, Writing, TypeOK
    <2>6. ExpiryIsTime'
      BY ClockIsRead DEF ExpiryIsTime, Timed, TypeOK, Row, RowIsOfRequest
    <2>7. NoOrphanLease'
      BY ClientAssumption
      DEF NoOrphanLease, SessionPresented, RowIsOfRequest, Asking, Writing,
          TypeOK, Row
    <2>8. QED
      BY <2>1, <2>2, <2>3, <2>4, <2>5, <2>6, <2>7 DEF IInv
  <1>20. ASSUME NEW c \in Client, UnlockDelete(c) PROVE IInv'
    <2> USE <1>20 DEF IInv, UnlockDelete, NoRow, Release, Goto
    <2>1. TypeOK'
      BY BoundsAssumption, TimeAssumption, ClientAssumption
      DEF TypeOK, Session, Version, Rows, Step, Row, Dostime
    <2>2. RoomLeft'
      BY RoomStays DEF Asking, Writing, TypeOK
    <2>3. SessionPresented'
      BY ClientAssumption DEF SessionPresented, Asking, Writing, TypeOK
    <2>4. RowIsOfRequest'
      BY ClientAssumption
      DEF RowIsOfRequest, SessionPresented, Asking, Writing, TypeOK, Row
    <2>5. StampHolds'
      BY ClientAssumption
      DEF StampHolds, SessionPresented, Asking, Writing, TypeOK
    <2>6. ExpiryIsTime'
      BY ClockIsRead DEF ExpiryIsTime, Timed, TypeOK, Row, RowIsOfRequest
    <2>7. NoOrphanLease'
      BY ClientAssumption
      DEF NoOrphanLease, SessionPresented, RowIsOfRequest, Asking, Writing,
          TypeOK, Row
    <2>8. QED
      BY <2>1, <2>2, <2>3, <2>4, <2>5, <2>6, <2>7 DEF IInv
  <1>21. ASSUME NEW c \in Client, Fails(c) PROVE IInv'
    <2> USE <1>21 DEF IInv, Fails, Release, Goto, NoRow
    <2>1. TypeOK'
      BY BoundsAssumption, TimeAssumption, ClientAssumption
      DEF TypeOK, Session, Version, Rows, Step, Row, Dostime
    <2>2. RoomLeft'
      BY RoomStays DEF Asking, Writing, TypeOK
    <2>3. SessionPresented'
      BY ClientAssumption DEF SessionPresented, Asking, Writing, TypeOK
    <2>4. RowIsOfRequest'
      BY ClientAssumption
      DEF RowIsOfRequest, SessionPresented, Asking, Writing, TypeOK, Row
    <2>5. StampHolds'
      BY ClientAssumption
      DEF StampHolds, SessionPresented, Asking, Writing, TypeOK
    <2>6. ExpiryIsTime'
      BY ClockIsRead DEF ExpiryIsTime, Timed, TypeOK, Row, RowIsOfRequest
    <2>7. NoOrphanLease'
      BY ClientAssumption
      DEF NoOrphanLease, SessionPresented, RowIsOfRequest, Asking, Writing,
          TypeOK, Row
    <2>8. QED
      BY <2>1, <2>2, <2>3, <2>4, <2>5, <2>6, <2>7 DEF IInv
  <1>22. ASSUME NEW c \in Client, Abandon(c) PROVE IInv'
    <2> USE <1>22 DEF IInv, Abandon
    <2>1. TypeOK'
      <3>1. session[c] \in Session /\ 0 \in Session
        BY BoundsAssumption DEF TypeOK, Session
      <3>2. abandoned' \subseteq Session /\ session' \in [Client -> Session]
        BY <3>1 DEF TypeOK
      <3>3. QED
        BY <3>2 DEF TypeOK
    <2>2. RoomLeft'
      BY RoomStays DEF Asking, Writing, TypeOK
    <2>3. SessionPresented'
      BY ClientAssumption DEF SessionPresented, Asking, Writing, TypeOK
    <2>4. RowIsOfRequest'
      BY ClientAssumption
      DEF RowIsOfRequest, SessionPresented, Asking, Writing, TypeOK, Row
    <2>5. StampHolds'
      BY ClientAssumption
      DEF StampHolds, SessionPresented, Asking, Writing, TypeOK
    <2>6. ExpiryIsTime'
      BY ClockIsRead DEF ExpiryIsTime, Timed, TypeOK, Row, RowIsOfRequest
    <2>7. NoOrphanLease'
      BY ClientAssumption
      DEF NoOrphanLease, SessionPresented, RowIsOfRequest, Asking, Writing,
          TypeOK, Row
    <2>8. QED
      BY <2>1, <2>2, <2>3, <2>4, <2>5, <2>6, <2>7 DEF IInv
  <1>23. ASSUME Tick PROVE IInv'
    <2> USE <1>23 DEF Tick, IInv
    <2>1. TypeOK'
      <3>1. clock + 1 \in 0..MaxClock
        BY TimeAssumption DEF TypeOK
      <3>2. QED
        BY <3>1 DEF TypeOK
    <2>2. RoomLeft'
      BY RoomStays DEF Asking, Writing
    <2>3. SessionPresented' /\ RowIsOfRequest' /\ StampHolds'
      BY DEF SessionPresented, RowIsOfRequest, StampHolds, Asking, Writing
    <2>4. ExpiryIsTime' /\ NoOrphanLease'
      BY DEF ExpiryIsTime, Timed, NoOrphanLease
    <2>5. QED
      BY <2>1, <2>2, <2>3, <2>4 DEF IInv
  <1>24. CASE UNCHANGED vars
    BY <1>24, RoomStays
    DEF vars, IInv, TypeOK, SessionPresented, RowIsOfRequest, StampHolds,
        ExpiryIsTime, Timed, NoOrphanLease, Asking, Writing, Rows
  <1>25. QED
    BY <1>1, <1>2, <1>3, <1>4, <1>5, <1>6, <1>7, <1>8, <1>9, <1>10, <1>11,
       <1>12, <1>13, <1>14, <1>15, <1>16, <1>17, <1>18, <1>19, <1>20, <1>21,
       <1>22, <1>23, <1>24
    DEF Next, RequestStep

LEMMA InitIInv == Init => IInv
  <1> SUFFICES ASSUME Init PROVE IInv
    OBVIOUS
  <1>1. Asking = {} /\ Writing = {}
    BY DEF Init, Asking, Writing
  <1>2. Cardinality({}) = 0 /\ Cardinality(Client) \in Nat
    BY FS_EmptySet, Counts
  <1>3. TypeOK
    <2>1. /\ 0 \in Version /\ 1 \in Version /\ 0 \in Session
          /\ 0 \in 0..MaxClock /\ 0 \in 0..(MaxClock + TicksPerDay)
      BY <1>2, BoundsAssumption, TimeAssumption DEF Version, Session
    <2>2. QED
      BY <2>1, NoRowTyped DEF Init, TypeOK, Step, Write
  <1>4. RoomLeft
    BY <1>1, <1>2, BoundsAssumption DEF Init, RoomLeft
  <1>5. SessionPresented /\ StampHolds
    BY DEF Init, SessionPresented, StampHolds, Asking, Writing
  <1>6. RowIsOfRequest /\ ExpiryIsTime /\ NoOrphanLease
    BY ClientAssumption
    DEF Init, RowIsOfRequest, ExpiryIsTime, Timed, NoOrphanLease, NoRow
  <1>7. QED
    BY <1>3, <1>4, <1>5, <1>6 DEF IInv

-----------------------------------------------------------------------------
(* The theorems.                                                           *)

\* The inductive invariant holds in every state: the rows and locks that the
\* statements of a request find are those that its own earlier statements have
\* left, whatever other requests have done in between.
THEOREM Invariance == Spec => []IInv
  BY InitIInv, NextIInv, PTL DEF Spec

\* The values that the requests leave in LOCKS and in the clients are of their
\* types; the session ids and versions stay within their bounds.
THEOREM TypeCorrect == Spec => []TypeOK
  BY Invariance, PTL DEF IInv

\* listen.cpp: a request that fails, is refused or is denied at any point
\* leaves no row in LOCKS but one that some client can still present.  Excepted
\* are the rows of READU requests whose answer was lost (abandoned): nobody
\* knows their session ids, and they stay until they expire.
THEOREM NoLeaseIsOrphaned == Spec => []NoOrphanLease
  BY Invariance, PTL DEF IInv

\* Only the client that has the advisory lock of the record stores it, and it
\* has compared the time stamp since it has that lock.
LEMMA StoreIsOfReader ==
  ASSUME HasDateTime, IInv, [Next]_vars, NEW c \in Client,
         pc[c] = "write_store", record' # record, record' # 0
  PROVE  record \in {0, base[c]}
  <1>1. advisory = c /\ (op[c] # "DELETE" => record \in {0, base[c]})
    BY DEF IInv, StampHolds
  <1>2. ASSUME NEW d \in Client, WriteStore(d) PROVE op[c] # "DELETE"
    <2>1. pc[d] = "write_store" /\ op[d] # "DELETE"
      BY <1>2 DEF WriteStore
    <2>2. advisory = d
      BY <2>1 DEF IInv, StampHolds
    <2>3. QED
      BY <1>1, <2>1, <2>2
  <1>3. PICK d \in Client : WriteStore(d)
    <2>1. CASE UNCHANGED vars
      BY <2>1 DEF vars
    <2>2. CASE Tick
      BY <2>2 DEF Tick
    <2>3. ASSUME NEW d \in Client,
                 \/ ReaduStart(d) \/ RelockStart(d) \/ UnlockStart(d)
                 \/ \E o \in Write : WriteStart(d, o)
                 \/ Fails(d) \/ Abandon(d)
          PROVE  FALSE
      BY <2>3 DEF ReaduStart, RelockStart, UnlockStart, SessionStart,
                  WriteStart, Fails, Abandon
    <2>4. ASSUME NEW d \in Client, RequestStep(d), ~WriteStore(d) PROVE FALSE
      BY <2>4 DEF RequestStep, Lockrecord, LockrecordExpire, LeaselockCheck,
                  LeaselockWrite, ReaduAnswer, ReaduDenied, WriteCheck,
                  WriteRenew, Properlock, WriteStamp, WriteDenied, RelockCheck,
                  RelockWrite, UnlockCheck, UnlockDelete, RawlockThen
    <2>5. QED
      BY <2>1, <2>2, <2>3, <2>4 DEF Next
  <1>4. QED
    BY <1>1, <1>2, <1>3

\* "Somebody else has updated this record": when the file has a DATE_TIME, no
\* write replaces a version of the record that its client has not read, for any
\* number of clients that read, lease, write, fail and let leases expire.
THEOREM NoUpdateIsLost ==
  ASSUME HasDateTime
  PROVE  Spec => NoLostUpdate
  <1>1. IInv /\ [Next]_vars =>
          [\A c \in Client :
             pc[c] = "write_store" /\ record' # record /\ record' # 0
               => record \in {0, base[c]}]_vars
    BY StoreIsOfReader
  <1>2. QED
    BY <1>1, Invariance, PTL DEF Spec, NoLostUpdate

\* lockrecord() alone takes a READU from the look at the lease to the deletion
\* of an expired one, or to the refusal.
LEMMA JudgedByLockrecord ==
  ASSUME TypeOK, [Next]_vars, NEW c \in Client, pc[c] = "readu_lock",
         pc'[c] \in {"readu_expire", "readu_refused"}
  PROVE  Lockrecord(c)
  <1>1. CASE UNCHANGED vars
    BY <1>1 DEF vars
  <1>2. CASE Tick
    BY <1>2 DEF Tick
  <1>3. ASSUME NEW d \in Client,
               \/ ReaduStart(d) \/ RelockStart(d) \/ UnlockStart(d)
               \/ \E o \in Write : WriteStart(d, o)
               \/ Fails(d) \/ Abandon(d)
        PROVE  FALSE
    BY <1>3 DEF ReaduStart, RelockStart, UnlockStart, SessionStart, WriteStart,
                Fails, Abandon, Goto, TypeOK
  <1>4. ASSUME NEW d \in Client, RequestStep(d), ~Lockrecord(d) PROVE FALSE
    <2>1. \E s \in Step : pc' = [pc EXCEPT ![d] = s] /\ pc[d] # "readu_lock"
      BY <1>4 DEF RequestStep, LockrecordExpire, LeaselockCheck,
                  LeaselockWrite, ReaduAnswer, ReaduDenied, WriteCheck,
                  WriteRenew, Properlock, WriteStamp, WriteStore, WriteDenied,
                  RelockCheck, RelockWrite, UnlockCheck, UnlockDelete,
                  RawlockThen, Commit, Goto, Step
    <2>2. QED
      BY <2>1 DEF TypeOK
  <1>5. ASSUME NEW d \in Client, Lockrecord(d) PROVE d = c
    BY <1>5 DEF Lockrecord, Goto, TypeOK
  <1>6. QED
    BY <1>1, <1>2, <1>3, <1>4, <1>5 DEF Next, RequestStep

\* What lockrecord() makes of the lease that it finds, before midnight.
LEMMA LeaseIsJudged ==
  ASSUME MaxClock < TicksPerDay, IInv, NEW c \in Client, Free(c), Lockrecord(c)
  PROVE  /\ pc'[c] = "readu_expire" => clock >= lease.since + LeaseTicks
         /\ pc'[c] = "readu_refused" => clock < lease.since + LeaseTicks
  <1>1. Seen(c) = lease /\ (lease.sid # 0 => lease.expiry = lease.since + LeaseTicks)
    BY DEF IInv, RowIsOfRequest, ExpiryIsTime, Timed, Lockrecord, Seen
  <1>2. PICK t \in Dostime :
          pc' = [pc EXCEPT ![c] = IF lease = NoRow THEN "readu_check"
                                  ELSE IF Expired(lease, t) THEN "readu_expire"
                                                            ELSE "readu_refused"]
    BY <1>1 DEF Lockrecord, Goto
  <1>3. t.time = clock
    BY ClockIsRead DEF IInv, Dostime
  <1>4. /\ pc'[c] = "readu_expire" => lease # NoRow /\ Expired(lease, t)
        /\ pc'[c] = "readu_refused" => lease # NoRow /\ ~Expired(lease, t)
    BY <1>2 DEF IInv, TypeOK
  <1>5. lease # NoRow => lease.sid # 0
    BY DEF IInv, TypeOK, Rows
  <1>6. clock \in Nat /\ lease.expiry \in Nat /\ lease.since \in Nat /\ LeaseTicks \in Nat
    BY TimeAssumption DEF IInv, TypeOK, Rows
  <1>7. QED
    BY <1>1, <1>3, <1>4, <1>5, <1>6 DEF Expired

\* "lockduration is the number of minutes to automatic lock expiry": while the
\* clock does not pass midnight, READU finds a lease expired only when its time
\* is over, and refuses on account of a lease only while it is not.
THEOREM LeasesAreJudgedRightly ==
  ASSUME MaxClock < TicksPerDay
  PROVE  Spec => ExpiryJudgedRightly
  <1>1. IInv /\ [Next]_vars =>
          [\A c \in Client :
             pc[c] = "readu_lock" /\ Free(c) =>
               /\ pc'[c] = "readu_expire" => clock >= lease.since + LeaseTicks
               /\ pc'[c] = "readu_refused" => clock < lease.since + LeaseTicks]_vars
    BY JudgedByLockrecord, LeaseIsJudged DEF IInv
  <1>2. QED
    BY <1>1, Invariance, PTL DEF Spec, ExpiryJudgedRightly
=============================================================================
