---------------------------- MODULE RecordLeases ----------------------------
(***************************************************************************)
(* Leases on records: what the READU, WRITE, WRITEU, DELETE, RELOCK and    *)
(* UNLOCK requests of the web service do to the LOCKS file                 *)
(* (service/src/srv/listen.cpp, and lockrecord() of exodus/exoprog.cpp).   *)
(*                                                                         *)
(* A browser that wants to edit a record asks for a lease: a row of the    *)
(* LOCKS file that holds a session id and an expiry time.  Later requests  *)
(* present the session id.  Each request runs in a transaction of its own, *)
(* on some server process, so that several interleave at the granularity   *)
(* of their SQL statements.  Two locks of the server order them: the       *)
(* advisory lock of the record, that is tried and never waited for         *)
(* (RecordLocks), and the row lock that an update or delete of the LOCKS   *)
(* row holds until the transaction ends, that is waited for.               *)
(*                                                                         *)
(* One record is modelled: leases of different records share nothing.      *)
(* Subsidiary leases (request6, "masterlock") are left out.                *)
(***************************************************************************)
EXTENDS Integers, FiniteSets

CONSTANTS
  Client,          \* browser windows, each with at most one request running
  NoClient,        \* nobody
  HasDateTime,     \* the file has a DATE_TIME field to compare on WRITE
  MaxSessions,     \* bound: session ids given out
  MaxWrites,       \* bound: requests that write the record
  MaxClock,        \* bound: how far the clock runs
  TicksPerDay,     \* the resolution of the clock
  LeaseTicks       \* lockmins: how long a lease lasts

ASSUME ClientAssumption == NoClient \notin Client /\ IsFiniteSet(Client)
ASSUME BoundsAssumption == MaxSessions \in Nat /\ MaxWrites \in Nat \ {0}
ASSUME TimeAssumption ==
  /\ TicksPerDay \in Nat \ {0} /\ LeaseTicks \in Nat \ {0} /\ MaxClock \in Nat

VARIABLES
  clock,           \* ticks since the start of the first day
  lease,           \* the committed LOCKS row of the record
  rowLock,         \* the transaction that has updated or deleted that row
  pending,         \* the row as rowLock's transaction has left it
  advisory,        \* the transaction that has the record's advisory lock
  record,          \* the committed version of the record, 0 if there is none
  pc,              \* the step each client's request is at
  op,              \* the request
  session,         \* the session id each client has, 0 if none
  base,            \* the version each client has read
  dostime,         \* the time each READU has read, and when it was read
  lastSession, lastWrite,    \* the most recent session id and version
  abandoned        \* session ids that no client remembers

vars == <<clock, lease, rowLock, pending, advisory, record, pc, op, session,
          base, dostime, lastSession, lastWrite, abandoned>>

-----------------------------------------------------------------------------
\* getdostime() and lockrecord(): the day and the time of day.  ostime() is
\* read before date(), so that midnight may come in between: the last moment
\* of a day is then taken for the last moment of the next.  at is the time it
\* really is (no field of LOCKS: it is for the properties).
Dostime ==
  [at : {clock},
   time : {clock} \cup
          (IF clock > 0 /\ clock % TicksPerDay = 0
           THEN {clock - 1 + TicksPerDay} ELSE {})]

NoRow == [sid |-> 0, expiry |-> 0, since |-> 0]

\* The lease of session s, when the clock reads t.
Row(s, t) == [sid |-> s, expiry |-> t.time + LeaseTicks, since |-> t.at]

Step ==
  {"idle", "readu_lock", "readu_expire", "readu_check", "readu_write",
   "readu_refused", "readu_granted", "write_check", "write_renew",
   "write_lock", "write_stamp", "write_store", "relock_lock", "relock_write",
   "unlock_lock", "unlock_delete"}

Write == {"WRITE", "WRITEU", "DELETE"}

Session == 0..MaxSessions
Version == 0..(MaxWrites + Cardinality(Client))
Rows == {r \in [sid : Session, expiry : Nat, since : 0..MaxClock] :
           r.sid = 0 => r = NoRow}

TypeOK ==
  /\ clock \in 0..MaxClock
  /\ lease \in Rows /\ pending \in Rows
  /\ rowLock \in Client \cup {NoClient} /\ advisory \in Client \cup {NoClient}
  /\ record \in Version /\ lastWrite \in Version
  /\ pc \in [Client -> Step]
  /\ op \in [Client -> Write \cup {"READU", "RELOCK", "UNLOCK"}]
  /\ session \in [Client -> Session] /\ lastSession \in Session
  /\ base \in [Client -> Version]
  /\ dostime \in [Client -> [time : 0..(MaxClock + TicksPerDay), at : 0..MaxClock]]
  /\ abandoned \subseteq Session

Init ==
  /\ clock = 0
  /\ lease = NoRow /\ pending = NoRow /\ rowLock = NoClient
  /\ advisory = NoClient
  /\ record \in {0, 1}
  /\ pc = [c \in Client |-> "idle"]
  /\ op = [c \in Client |-> "READU"]
  /\ session = [c \in Client |-> 0]
  /\ base = [c \in Client |-> 0]
  /\ dostime = [c \in Client |-> [time |-> 0, at |-> 0]]
  /\ lastSession = 0
  /\ lastWrite = 1
  /\ abandoned = {}

-----------------------------------------------------------------------------
(* Transactions.                                                           *)

\* The LOCKS row that c's transaction sees (READ COMMITTED).
Seen(c) == IF rowLock = c THEN pending ELSE lease

\* c's transaction leaves the row as r; it waits for another that has changed
\* the row and is not over.
Change(c, r) ==
  /\ rowLock \in {c, NoClient}
  /\ rowLock' = c
  /\ pending' = r
  /\ UNCHANGED lease

\* A delete that finds no row waits for nobody and changes nothing.
Delete(c) ==
  IF Seen(c) = NoRow THEN UNCHANGED <<rowLock, pending, lease>>
                     ELSE Change(c, NoRow)

\* The transaction ends: the server drops its locks.
Release(c) ==
  /\ advisory' = IF advisory = c THEN NoClient ELSE advisory
  /\ rowLock' = IF rowLock = c THEN NoClient ELSE rowLock
  /\ pending' = IF rowLock = c THEN NoRow ELSE pending

\* process(): committrans() after process2(), whatever it answered.
Commit(c) ==
  /\ Release(c)
  /\ lease' = Seen(c)
  /\ pc' = [pc EXCEPT ![c] = "idle"]

Free(c) == advisory \in {c, NoClient}

Take(c) == advisory' = c

Goto(c, s) == pc' = [pc EXCEPT ![c] = s]

-----------------------------------------------------------------------------
(* READU: leaselock() over lockrecord().                                   *)

ReaduStart(c) ==
  /\ pc[c] = "idle"
  /\ session[c] = 0
  /\ lastSession + Cardinality({d \in Client : pc[d] # "idle" /\ session[d] = 0})
       < MaxSessions
  /\ Goto(c, "readu_lock")
  /\ op' = [op EXCEPT ![c] = "READU"]
  /\ UNCHANGED <<clock, lease, rowLock, pending, advisory, record, session,
                 base, lastSession, lastWrite, abandoned, dostime>>

\* Variant: a lease still counts in the last moment of its time.
ExpiredLate(r, t) == r.expiry < t.time

Expired(r, t) == r.expiry <= t.time

\* lockrecord(): the advisory lock, then the lease as another has left it.
\* unlock() in a transaction does nothing: a refused request keeps the lock
\* until it commits.
Lockrecord(c) ==
  /\ pc[c] = "readu_lock"
  /\ IF ~Free(c)
     THEN Goto(c, "readu_refused") /\ UNCHANGED advisory
     ELSE /\ Take(c)
          /\ \E t \in Dostime :
               Goto(c, IF Seen(c) = NoRow THEN "readu_check"
                       ELSE IF Expired(Seen(c), t) THEN "readu_expire"
                                                   ELSE "readu_refused")
  /\ UNCHANGED <<clock, lease, rowLock, pending, record, op, session, base,
                 lastSession, lastWrite, abandoned, dostime>>

\* lockrecord(): "remove lock if expired".
LockrecordExpire(c) ==
  /\ pc[c] = "readu_expire"
  /\ Delete(c)
  /\ Goto(c, "readu_check")
  /\ UNCHANGED <<clock, advisory, record, op, session, base, lastSession,
                 lastWrite, abandoned, dostime>>

\* leaselock(): reads the clock and looks at the lease again.
LeaselockCheck(c) ==
  /\ pc[c] = "readu_check"
  /\ \E t \in Dostime :
       /\ dostime' = [dostime EXCEPT ![c] = t]
       /\ Goto(c, IF Seen(c) # NoRow /\ ~Expired(Seen(c), t)
                  THEN "readu_refused" ELSE "readu_write")
  /\ UNCHANGED <<clock, lease, rowLock, pending, advisory, record, op,
                 session, base, lastSession, lastWrite, abandoned>>

\* leaselock(): writes the lease with a new session id.
LeaselockWrite(c) ==
  /\ pc[c] = "readu_write"
  /\ lastSession' = lastSession + 1
  /\ Change(c, Row(lastSession', dostime[c]))
  /\ Goto(c, "readu_granted")
  /\ UNCHANGED <<clock, advisory, record, op, session, base, lastWrite,
                 abandoned, dostime>>

\* The record is read after the lease is obtained or refused.  The response
\* may be lost on its way to the browser.
ReaduAnswer(c) ==
  /\ pc[c] \in {"readu_granted", "readu_refused"}
  /\ base' = [base EXCEPT ![c] = record]
  /\ \/ /\ pc[c] = "readu_granted"
        /\ session' = [session EXCEPT ![c] = pending.sid]
        /\ UNCHANGED abandoned
     \/ /\ pc[c] = "readu_granted"
        /\ abandoned' = abandoned \cup {pending.sid}
        /\ UNCHANGED session
     \/ /\ pc[c] = "readu_refused"
        /\ UNCHANGED <<session, abandoned>>
  /\ Commit(c)
  /\ UNCHANGED <<clock, record, op, lastSession, lastWrite, dostime>>

\* The user may read but not update (authorised(), checkcompany(), postread):
\* leaseunlock() deletes the new lease in the same transaction.
ReaduDenied(c) ==
  /\ pc[c] = "readu_granted"
  /\ lease' = NoRow
  /\ Release(c)
  /\ Goto(c, "idle")
  /\ UNCHANGED <<clock, record, op, session, base, lastSession, lastWrite,
                 abandoned, dostime>>

-----------------------------------------------------------------------------
(* WRITE, WRITEU and DELETE.                                               *)

WriteStart(c, o) ==
  /\ pc[c] = "idle"
  /\ session[c] # 0
  /\ lastWrite < MaxWrites
  /\ Goto(c, "write_check")
  /\ op' = [op EXCEPT ![c] = o]
  /\ UNCHANGED <<clock, lease, rowLock, pending, advisory, record, session,
                 base, lastSession, lastWrite, abandoned, dostime>>

\* "make sure that the record is already leaselocked to the user".
WriteCheck(c) ==
  /\ pc[c] = "write_check"
  /\ IF Seen(c).sid = session[c]
     THEN /\ Goto(c, "write_renew")
          /\ UNCHANGED <<lease, rowLock, pending, advisory>>
     ELSE Commit(c)
  /\ UNCHANGED <<clock, record, op, session, base, lastSession, lastWrite,
                 abandoned, dostime>>

\* "update the leaselock session time": writes back the row it has read.
WriteRenew(c) ==
  /\ pc[c] = "write_renew"
  /\ \E t \in Dostime : Change(c, Row(session[c], t))
  /\ Goto(c, "write_lock")
  /\ UNCHANGED <<clock, advisory, record, op, session, base, lastSession,
                 lastWrite, abandoned, dostime>>

\* Variant: properlock() waits for the advisory lock.
ProperlockWaiting(c) ==
  /\ pc[c] = "write_lock"
  /\ Free(c)
  /\ Take(c)
  /\ Goto(c, "write_stamp")
  /\ UNCHANGED <<lease, rowLock, pending, clock, record, op, session, base,
                 lastSession, lastWrite, abandoned, dostime>>

\* properlock(): no wait.  The handle's file name is not the one leases are
\* kept under, so that lockrecord() finds no lease here.
Properlock(c) ==
  /\ pc[c] = "write_lock"
  /\ IF Free(c)
     THEN /\ Take(c)
          /\ Goto(c, "write_stamp")
          /\ UNCHANGED <<lease, rowLock, pending>>
     ELSE Commit(c)
  /\ UNCHANGED <<clock, record, op, session, base, lastSession, lastWrite,
                 abandoned, dostime>>

\* Variant: the time stamps are not compared.
StampIgnored(c) == op[c] = "DELETE" /\ record = 0

\* "double check not updated by somebody else": only if the file has a
\* DATE_TIME, not for DELETE, and not if the record is not there any more.
\* A record that is not there cannot be deleted.
StampDiffers(c) ==
  IF op[c] = "DELETE" THEN record = 0
  ELSE HasDateTime /\ record # 0 /\ record # base[c]

WriteStamp(c) ==
  /\ pc[c] = "write_stamp"
  /\ IF StampDiffers(c)
     THEN Commit(c)
     ELSE /\ Goto(c, "write_store")
          /\ UNCHANGED <<lease, rowLock, pending, advisory>>
  /\ UNCHANGED <<clock, record, op, session, base, lastSession, lastWrite,
                 abandoned, dostime>>

\* An empty record, another company's, one that the user may not delete, or a
\* prewrite or predelete that sets req.valid = 0: the renewed lease stays.
WriteDenied(c) ==
  /\ pc[c] = "write_store"
  /\ Commit(c)
  /\ UNCHANGED <<clock, record, op, session, base, lastSession, lastWrite,
                 abandoned, dostime>>

\* Variant: the lease is never deleted.
LeaseKept(c) == Seen(c)

\* The lease stays for WRITE only.
LeaseAfterWrite(c) == IF op[c] = "WRITE" THEN Seen(c) ELSE NoRow

\* The record is written or deleted.
WriteStore(c) ==
  /\ pc[c] = "write_store"
  /\ lastWrite' = lastWrite + 1
  /\ record' = IF op[c] = "DELETE" THEN 0 ELSE lastWrite'
  /\ base' = [base EXCEPT ![c] = record']
  /\ lease' = LeaseAfterWrite(c)
  /\ Release(c)
  /\ Goto(c, "idle")
  /\ session' = IF op[c] = "WRITE" THEN session ELSE [session EXCEPT ![c] = 0]
  /\ UNCHANGED <<clock, op, lastSession, abandoned, dostime>>

-----------------------------------------------------------------------------
(* RELOCK and UNLOCK: rawlock(), that does not look at the lease.          *)

SessionStart(c, o, s) ==
  /\ pc[c] = "idle"
  /\ session[c] # 0
  /\ Goto(c, s)
  /\ op' = [op EXCEPT ![c] = o]
  /\ UNCHANGED <<clock, lease, rowLock, pending, advisory, record, session,
                 base, lastSession, lastWrite, abandoned, dostime>>

RelockStart(c) == SessionStart(c, "RELOCK", "relock_lock")
UnlockStart(c) == SessionStart(c, "UNLOCK", "unlock_lock")

\* The advisory lock and the check of the session id, then step s.
RawlockThen(c, here, s) ==
  /\ pc[c] = here
  /\ IF Free(c) /\ Seen(c).sid = session[c]
     THEN /\ Take(c)
          /\ Goto(c, s)
          /\ UNCHANGED <<lease, rowLock, pending>>
     ELSE Commit(c)
  /\ UNCHANGED <<clock, record, op, session, base, lastSession, lastWrite,
                 abandoned, dostime>>

RelockCheck(c) == RawlockThen(c, "relock_lock", "relock_write")
UnlockCheck(c) == RawlockThen(c, "unlock_lock", "unlock_delete")

\* leaselock() of a RELOCK extends the lease, or takes it again if a WRITE
\* has changed it in between.
RelockWrite(c) ==
  /\ pc[c] = "relock_write"
  /\ rowLock \in {c, NoClient}
  /\ \E t \in Dostime : lease' = Row(session[c], t)
  /\ Release(c)
  /\ Goto(c, "idle")
  /\ UNCHANGED <<clock, record, op, session, base, lastSession, lastWrite,
                 abandoned, dostime>>

\* leaseunlock() deletes the lease.
UnlockDelete(c) ==
  /\ pc[c] = "unlock_delete"
  /\ rowLock \in {c, NoClient}
  /\ lease' = NoRow
  /\ Release(c)
  /\ Goto(c, "idle")
  /\ session' = [session EXCEPT ![c] = 0]
  /\ UNCHANGED <<clock, record, op, base, lastSession, lastWrite, abandoned,
                 dostime>>

-----------------------------------------------------------------------------
(* Failures and time.                                                      *)

\* A VarError rolls the request back; so does the server if the process dies.
\* The browser keeps its session id.
Fails(c) ==
  /\ pc[c] # "idle"
  /\ Release(c)
  /\ Goto(c, "idle")
  /\ UNCHANGED <<clock, lease, record, op, session, base, lastSession,
                 lastWrite, abandoned, dostime>>

\* The user closes the window or opens another record: the lease is left.
Abandon(c) ==
  /\ pc[c] = "idle"
  /\ session[c] # 0
  /\ abandoned' = abandoned \cup {session[c]}
  /\ session' = [session EXCEPT ![c] = 0]
  /\ UNCHANGED <<clock, lease, rowLock, pending, advisory, record, pc, op,
                 base, lastSession, lastWrite, dostime>>

Tick ==
  /\ clock < MaxClock
  /\ clock' = clock + 1
  /\ UNCHANGED <<lease, rowLock, pending, advisory, record, pc, op, session,
                 base, lastSession, lastWrite, abandoned, dostime>>

\* The next step of a request that is running.
RequestStep(c) ==
  \/ Lockrecord(c) \/ LockrecordExpire(c) \/ LeaselockCheck(c)
  \/ LeaselockWrite(c) \/ ReaduAnswer(c) \/ ReaduDenied(c)
  \/ WriteCheck(c) \/ WriteRenew(c) \/ Properlock(c) \/ WriteStamp(c)
  \/ WriteStore(c) \/ WriteDenied(c)
  \/ RelockCheck(c) \/ RelockWrite(c) \/ UnlockCheck(c) \/ UnlockDelete(c)

Next ==
  \/ \E c \in Client :
       \/ ReaduStart(c) \/ RelockStart(c) \/ UnlockStart(c)
       \/ \E o \in Write : WriteStart(c, o)
       \/ RequestStep(c)
       \/ Fails(c) \/ Abandon(c)
  \/ Tick

Spec == Init /\ [][Next]_vars

\* A server process runs its request to the end.  Strong fairness: the server
\* queues the transactions that wait for a row lock, so that each gets it.
FairSpec == Spec /\ \A c \in Client : SF_vars(RequestStep(c))

-----------------------------------------------------------------------------
(* Properties.                                                             *)

\* No write replaces a version of the record that its client has not read
\* (listen4: "Somebody else has updated this record").  Between the check of
\* the session id, of the time stamp and the write others may read, lease,
\* write, fail and let leases expire.
NoLostUpdate ==
  [][\A c \in Client :
       pc[c] = "write_store" /\ record' # record /\ record' # 0
         => record \in {0, base[c]}]_vars

\* A lease that stays behind is one that some client can use or that was
\* abandoned: no request, failed or not, leaves another row in LOCKS.
NoOrphanLease ==
  lease.sid # 0 =>
    lease.sid \in abandoned \/ \E c \in Client : session[c] = lease.sid

\* Requests wait for each other's row lock while they hold the advisory lock
\* and the other way round, and still every request is answered.
RequestsAnswered ==
  \A c \in Client : pc[c] # "idle" ~> pc[c] = "idle"

\* "lockduration is the number of minutes to automatic lock expiry": READU
\* finds a lease expired only when its time is over, and refuses on account of
\* a lease only while it is not.
ExpiryJudgedRightly ==
  [][\A c \in Client :
       pc[c] = "readu_lock" /\ Free(c) =>
         /\ pc'[c] = "readu_expire" => clock >= lease.since + LeaseTicks
         /\ pc'[c] = "readu_refused" => clock < lease.since + LeaseTicks]_vars

\* A lease belongs to its session until it expires: before that only the
\* session's own requests end it.
LeaseHeldToExpiry ==
  [][lease.sid # 0 /\ lease'.sid # lease.sid =>
       \/ clock >= lease.since + LeaseTicks
       \/ \E c \in Client : session[c] = lease.sid /\ pc'[c] # pc[c]]_vars
=============================================================================
