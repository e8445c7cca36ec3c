# A TLA+ model of exodus

Exodus is a C++ library and runtime for multivalue programs on PostgreSQL:
variables (`var`) that are strings, numbers and arrays at once, database files
that are tables of key and text, programs that run as shared libraries, in
threads and in fibers, a web service built from such programs, and the pages that
edit records through it. This directory models the parts of it where several
actors meet, or one actor's events come in any order, checks the models with TLC
and proves theorems about them with TLAPS.

## 1. The system

### Components, state and operations

| component | source | state it keeps | operations that change it |
|---|---|---|---|
| connections | `var/vardb.cpp`, `DBpool.cpp`, `DBconn.cpp` | per thread: numbered connections, default connections | connect, disconnect, disconnectall |
| record locks | `var/vardb.cpp` 1676-1862 | per connection: `locks_` (a set of hashes), `in_transaction_`; in the server: advisory locks | lock, unlock, unlockall, begintrans, committrans, rollbacktrans |
| record cache | `var/vardb.cpp` 1317-1411, `DBpool.cpp` | per connection: `dbcache_` (hash to text) | readc, writec, deletec, clearcache, every write |
| files | `var/vardb.cpp` 1013-1290, 2646-2793 | per thread: `thread_file_handles`; in the server: tables | open, detach, createfile, deletefile, renamefile, clearfile |
| cursors | `var/vardb.cpp` 3559-5839 | per thread: `thread_dbresults`; in the server: cursors | select, readnext, savelist, ... |
| async statements | `var/vardb_async.cpp`, `task_mutex.cpp`, `task_scheduler.cpp` | per connection: a fiber mutex; per thread: the scheduler | every SQL statement |
| async tasks | `exodus/task_manager.cpp`, `result_range.cpp` | fibers, a result channel of 128, the first exception | async, set_async_result, async_results |
| thread pool | `exodus/threadpool.cpp` | queue, threads, four counters, one mutex and condition variable | enqueue, set_max_threads, shutdown, reset |
| parallel jobs | `exodus/job.cpp`, `job_manager.cpp`, `threadsafequeue.cpp` | per program: a result queue; per job: a promise; global: the pool | run, run_results, reset_run, shutdown_run |
| leases | `service/src/srv/listen.cpp`, `exodus/exoprog.cpp` 1380-1481 | the LOCKS file: session id and expiry of each record that is being edited | READU, WRITE, WRITEU, DELETE, RELOCK, UNLOCK |
| request loop | `service/src/srv/listen.cpp`, `net.cpp`, `service/src/exo/waiting.cpp`, `scripts/server.js` | request and reply files, locks on them | exodusdblink_send_byfile, waiting, got_link, process, request_exit |
| event handlers of a page | `scripts/client.js` | `geventhandler`, `gblockevents`, the XMLHTTP of a request | exodusdblink, exodus_resume, exodusconfirm, exodusnote |
| documents of forms | `scripts/dbform.js`, `db.js` | `gkey`, `glocked`, `gloaded`, `gchangesmade`, the relocker, the session id | opendoc, writedoc, deletedoc, cleardoc, unlockdoc, saveandorcleardoc, relockdoc |
| rows of forms | `scripts/dbform.js`, `gds.js`, `client.js` | `gds.data`, the rows of the HTML table, `gpreviouselement`, `gpreviousvalue` | validateupdate, form_insertrow, form_deleterow, insertallrows, exoduspopup, sorttable, form_filter |
| conversions | `scripts/exodus.js`, `client.js`, `db.js`, `gds.js` | none | DATE, TIME, NUMBER, YEAR_PERIOD, rev2obj, obj2rev |
| cache of the client | `scripts/client.js` | `gcache`, shared by windows | loadcache, readcache, writecache, prunecache, trimcache, clearcache |
| the rest | `var/var*.cpp`, `exodus/exocallable.cpp`, `cli/`, `service/` | values, loaded libraries | see section 7 |

### How they interact

* A program calls `lock()`, `read()`, `write()` on a file handle; the handle has
  a connection number; the connection has the lock cache, the record cache and
  the transaction flag. Each of these is a copy of something the server has.
* Every statement goes through `async_PQexec_impl`, which holds a fiber mutex of
  the connection from sending to the result, and lets other fibers of the
  thread run meanwhile. What a call has read from `locks_`, `dbcache_` or
  `in_transaction_` before that may have changed after it.
* A web request is one transaction (`process()`); it takes the advisory lock of
  the record (`lockrecord()`, never waiting) and the row lock of the LOCKS row
  (implicitly, waiting), in both orders.
* A page sends a request to the gateway (`scripts/` is `service/www/3/exodus/scripts/`),
  which writes it to a file; a listener renames the file, processes it and
  writes the reply to two more; the gateway polls for them and sends the reply back. When
  the listener fails, NET, the program that runs it, writes an error in its place.
  The page's handler, a generator, has yielded meanwhile and is resumed by
  whatever reply or answer of the user comes. Its READU, WRITE, UNLOCK and RELOCK are
  what the leases are about; what it reads goes to a cache that windows share.
* `run()` puts a job on the one global thread pool; the job pushes its
  environment to the queue of the program that ran it; `run_results()` waits for
  as many as the global count says.

### What is hard

State read before an await and used after it (locks, cache, transaction flag);
copies in the program of what the server drops by itself (failed statement, lost
connection); leases that are judged, renewed and overwritten by statements of
different transactions, with a clock that is read in two parts; a pool whose
counters are read and written in and out of its mutex; a count that is global
beside a queue that is not; a lock that outlives the statement that was meant to
hold it. In the pages: one variable for the handler to resume while replies that
nobody waits for come too; eight ways to leave a document with unsaved changes;
rows that exist three times and are moved, copied and deleted; files whose names are
used again by later calls; caches up a chain of windows that open and close.
`PROJECT.json` lists each hazard at its line.

### What makes each part correct

* locks: two connections are never both told that they have the same lock; a
  transaction keeps its locks to its end; what was locked can be unlocked.
* cache: `readc()` never gives what the program knows to be obsolete, nor what
  was rolled back.
* leases: no update is lost; a lease lasts until it expires; no lease is left
  that nobody can end; every request is answered.
* pool and jobs: every task once; no task without a worker; shutdown processes
  all; every result to the program that ran the job; loops over results end.
* files: two creations of a file do not collide.
* request files: a call gets its own answer; one that says OK or "no request" is true; the
  work of no request is committed twice.
* documents: unless a stray reply takes the place of an answer, no edit is dropped without
  the user's word; no record is overwritten with
  the fields of another or over an update of another browser; no lease is forgotten.
* rows: what is shown is what will be stored, and the rules of the dictionary hold
  after any sequence of events.
* conversions: what is typed is stored as what it means or refused; what is shown and
  typed again is the same.
* cache: a window does not read what it has itself made obsolete, unless the answer arrived
  after it had.

## 2. Modules

| module | models | extends |
|---|---|---|
| `LockService` | the promise: a lock has at most one owner; an owner can release any set of its locks | |
| `RecordLocks` | lock, unlock, unlockall, transactions, connect and disconnect; one call is one step | |
| `LockTasks` | the same calls of several fibers of a connection, in three steps each | `RecordLocks` |
| `RecordLocksProofs` | theorems about the locks and about the fibers | `LockTasks`, `TLAPS` |
| `RecordCache` | the record cache, the writing calls and transactions of the fibers of one connection, in three steps each | |
| `RecordCacheProofs` | theorems about it | `RecordCache`, `TLAPS` |
| `RecordLeases` | the lease requests of the web service, one step for each SQL statement that matters | |
| `RecordLeasesProofs` | theorems about it | `RecordLeases`, `TLAPS` |
| `ThreadPool` | enqueue, workers, resizing, shutdown, reset, destruction | |
| `Jobs` | run, run_results, reset_run and the promises, on that pool | `ThreadPool` |
| `ThreadPoolProofs` | theorems about the pool and the jobs | `Jobs`, `TLAPS` |
| `DBFiles` | createfile, deletefile, open, detach of several processes | |
| `RequestFiles` | the files between gateway and listener, one step for each file operation | |
| `FilesProofs` | theorems about the files of databases and of requests | `DBFiles`, `RequestFiles`, `TLAPS` |
| `ClientRequests` | the handlers of a page and the requests they wait for | |
| `FormDocument` | the document of a form: a handler from one yield to the next is one step | `ClientRequests` |
| `FormDocumentProofs` | theorems about it | `FormDocument`, `TLAPS` |
| `FormRows` | the rows of a table on a form: an event is one step | |
| `FormRowsProofs` | theorems about it | `FormRows`, `TLAPS` |
| `ClientDates` | dates, times and periods, as operators | |
| `ClientNumbers` | numbers, as operators | `ClientDates` |
| `ClientRecords` | records, rows, amounts and tables, as operators | |
| `ClientValues` | the conversions as steps, and what they should be | `ClientNumbers`, `ClientRecords` |
| `ClientCache` | the cache of several windows | |
| `ClientCacheProofs` | theorems about it | `ClientCache`, `TLAPS` |
| `MC*` | the sets, symmetries and cfg files of the runs | |

### RecordLocks

`locks_[c]` and `in_transaction_[c]` are the fields of `DBconn`; `session` and
`xact` are what PostgreSQL holds for the session (a depth for each lock, as
session locks stack) and for the transaction; `status` is what
`PQtransactionStatus` says. `Lock` is the disjunction of its four ends: answered
from the cache, granted, refused, failed. `StatementFails` is any statement that
aborts a transaction (`insertrecord()` of a duplicate is the usual one): the
server drops the locks of the transaction, `locks_` keeps them. `ConnectionLost`
ends the session in the server and leaves the program as it is.

`MutualExclusion` is about what programs are told: a lock counts while it is in
`locks_` of a connection whose session is up and whose transaction is not
aborted. `Service` is the refinement mapping: the owner of a key is the
connection whose cache has it and whose statements the server still executes.

### LockTasks and RecordCache

A call is cut where fibers can change: *start* (checks of the caches, up to the
mutex of the connection), the *statement* in the server, and *finish* (from the
result to the return). `mutex_` is the `TaskMutex` of the connection; a fiber that
waits gets it at any time after it is free, which is more than the fair queue
of boost allows and adds no interleaving of statements that the queue excludes
for all programs. In `RecordCache` a record is a version number, with whether its
text is empty, and the cache has texts; `known[k]` is the newest version that the
program has read or written, `dead` the versions that were rolled back: both are
only for the properties.

`ApartSpec` states what the cache needs: calls of the same record, and
transactions, of different fibers do not overlap. `Spec` drops that, and then
`CacheNotObsolete` fails (section 5). `ApartSpec` of `LockTasks` leaves
`unlockall()` and transactions to tasks that are alone on their connection;
`TasksSpec` drops that, and then `TasksExclude` fails (section 5).

### RecordLeases

One record. `lease` is the committed row of the LOCKS file, `rowLock` and `pending`
the transaction that has changed it and what it has left (`READ COMMITTED`: others
see the committed row and wait to change it), `advisory` the advisory lock.
`pc` is at the statement that a request executes next; the steps are cut where
two transactions can affect each other: the advisory lock, each read of the LOCKS
row, each write of it, each read and write of the record. Everything between two
such statements is in one step. A session id is a number, never given out twice
(in the code it is random). `Dostime` is the clock as `getdostime()` puts it
together. `WriteDenied` stands for all the refusals between the check of the
time stamp and the write; `ReaduDenied` for those after a lease was granted.

### ThreadPool and Jobs

A step is a critical section of the pool's mutex or one access of a counter
outside of it, so that `WorkerTakes` (inside) and `WorkerStarts`
(`running_task_count`, outside) are two steps. `workers` is the vector of threads,
which only grows; `Notify` comes after the mutex is released, and a wait may
return spuriously. `done`, `dropped` and `desired` are for the properties. `Jobs`
composes each pool action with what the job or the program does in it: `RunJob`
is `Enqueue`, `JobEnds` is `TaskEnds` with the push to the result queue,
`JobIsDestroyed` is `WorkerGoesOn` with the end of the promise. `run_results()` is
the `std::generator` form, which reads the count once.

### DBFiles

One file, which is a table for all processes or, for `_temp` names
(`Temporary`), one for each. Its name may be written in several ways (`Spelling`): the table
has the normalized name (`vardb.cpp:2669`), the lock of `createfile()` is that of the name as
it is written (2680). `changer` and `changed` are the transaction that has
created or dropped the table and not ended, `users` the transactions that have it
open, `advisory` the session lock of each spelling. `open()` with no connection
believes `thread_file_handles`; with a connection it asks the server. `made` and
`answer` are for the properties. `deletefile()` is modelled as it is called from
programs, by a connection or a file name that is not a handle.

### RequestFiles

`file[n][x]` is the file `~n.x`, with the number of the call that wrote it, which only
the properties read. `gateway` is at the step of `exodusdblink_send_byfile()` it
executes next, `listener` at the step of `waiting()`, `got_link()`,
`request_init()`, `process()` and `request_exit()`. Waits that end by time or by the
file are choices. `Process` is the whole transaction: it is committed also after a response of
"Error:" (the code has no rollback for those), rolled back after a `VarError`. `Crash` ends a
listener between any two steps: its locks and its transaction go, its files stay. `Fails` is an
error that the listener does not catch, or an abort: NET writes "Error: ..." to the response
file that was named last (`last`) with the data file as it is, and runs the listener again; a
transaction that an abort has left open (`open`) is committed with that of the next request.
`done` counts the commits of a call's work. `DeleteOldFiles` is the removal of files
that a `~N.4` names and of those that are an hour old.

`ChooseName` takes any number: `FileExists()` is asked with an asterisk and finds no file.
`DifferSpec` assumes of the nine million numbers that none is drawn that is in use (`DrawsDiffer`),
also by a listener that would answer at it; `Spec` does not, and then `OwnAnswer` and
`AnswerIsTrue` fail (section 5).

### ClientRequests and FormDocument

A handler is a generator; `handler.at` is where it has yielded and the rest of the
record are the locals it needs when it goes on. `request` is the one
XMLHTTP that handlers share, `relock` that of a RELOCK. The pieces that handlers
call (`UnlockDoc`, `ClearOrUnlock`, `SaveAndOrClear`, `ShowDoc`...) are operators named
for the functions, each of which ends in a yield or in the end of the handler; the
actions are the events of the user (`EnterKey`, `SaveRecord`, `LeaveRecord`, `DeleteRecord`,
`Type`, `Undo`, ...), the replies, the answers of the user and the turns of the
relocker. The server has the lease and the version of each record (`RecordLeases` has
the statements behind that), one request of `listen.cpp` being one step: a request may be refused
before it changes anything (`ServeRefused`), after its lease was renewed (`ServeRenewed`: a row
that is locked, a `DATE_TIME` that differs, a `prewrite`), or answered with an error although the
record is written (`ServeWrite`: a `postwrite` that sets `valid` to 0). The answer to a write may
have a warning, at which the handler yields once more (`GotWritten`). `OtherEdits` is what other
browsers do. `past` is for the properties. Hooks of a form (`form_postread` and others) may refuse or not.

### FormRows

`form.data` is `gds.data.group1`, each row with the TR its elements are in; `form.screen`
the TRs of the table; `form.cur` is `gpreviouselement` with `gpreviousvalue`. The
column `code` is required, unique and looked up; `amount` is sequential and has a
total that depends on it. An event runs to its end, with its validation; a loop over rows
or lines is a fold of the operator that is its body (`RefillRow`, `PasteLine`, `SwapRow`, ...).
`past.kinds` has the exceptional things that have happened to the record, which
some properties except; the bound `MaxKinds` says how many kinds one record may have.

### ClientDates, ClientNumbers, ClientRecords, ClientValues

A text is a sequence of digits and separators. The operators are the conversions
(`DateIn` is `DATE('ICONV')`, and so on) and the properties compare them with
definitions that are not taken from the code: the days that follow each other, the
lengths of months, the order of texts, the number that digits in groups are. `ClientValues` has
an action for each conversion, so that the next-state relation enumerates the inputs:
days and months one after the other, the rest from the sets of the instance. What is stored is
what remains after `gds_setx2()` and `obj2rev()` (`Stored`): of 0, which is 31/12/1967 as a day
and 00:00 as a time, nothing.

### ClientCache

`gcache[w]` is the window whose object the variable `gcache` of `w` refers to, so that
windows share; `values` are the entries in the order in which they were first put. A
record is a version; `known[w]` is what the window has itself written, in three ways
(with the button, when the form closes, by deleting), because the code forgets
different things after each. One data set; a request is asked and served in one step.

## 3. Runs

`PROJECT.json` says of each run what it shows.

| run | instance | states | what it decides |
|---|---|---|---|
| `record_locks` | 2 connections, 2 keys, depth 2 | 5.4 k | safety of locks, refinement of `LockService` |
| `leases` | 2 browsers, 2 sessions, 3 writes, one day | 256 k | no lost update, no orphan, expiry judged exactly, every request answered |
| `record_cache` | 2 fibers, 2 keys, 3 writes | 1.6 M | the cache is neither obsolete nor rolled back |
| `lock_tasks` | 2 fibers on one connection, 1 on another, 2 keys, depth 3 | 400 k | exclusion at every await |
| `thread_pool` | 2 clients, sizes 0, 1 and 2, 4 tasks | 54 k | each task once, none stranded, each is run |
| `jobs` | 2 programs, sizes 1 and 2, 2 tasks, 1 reset | 144 k | counts, results, the end of the loop |
| `db_files` | 2 processes, 2 spellings | 151 k | no collision of those that write the name alike |
| `form_document` | 2 records, 1 fault, 2 sessions, 2 versions, leases of one turn | 2.7 M | no edit, update or lease is lost, but for the exceptions stated |
| `request_files` | 2 gateways, 2 listeners, 4 names, 2 calls, 1 fault | 264 k | own answers, work done once, told truly |
| `form_rows` | 3 rows, 3 codes, 3 amounts, 1 line pasted | 86 k | rows stay together, rules hold |
| `client_values` | 73,049 days, 1,200 months, 2,880 minutes and sets of the rest | 127 k | conversions mean what they should, and what of them is stored |
| `client_cache` | 3 windows, 1 record, 1 write, 2 requests at once | 1.1 M | no window reads what it made obsolete, unless it arrived late |

Each module also has a type invariant (`TypeOK`, `TasksTypeOK`, `JobsTypeOK`,
`RequestTypeOK`), which holds in the same instances when it is added to the
configuration. The runs of `record_locks` and `db_files` list theirs. `NoForgottenLease`,
`RowsValid`, `CalendarKept`, `NumbersKept`, `RecordsKept` and `SavesForgotten` are
conjunctions of named parts: TLC evaluates each part in every state.

These hold as well, with the configuration of the run changed as said:

| run | change | holds |
|---|---|---|
| `record_locks` | `DisciplinedSpec` | `SessionLocksReleasable`, `LocksDoNotStack` |
| `lock_tasks` | `TasksSpec`, `Fiber = {f1, f2}`, `ConnOf <- OneEach`, `MaxDepth = 2`, no `SYMMETRY` | the properties of the run: transactions of a fiber that has its connection alone |
| `leases` | `Spec`, `TicksPerDay = 2` | `NoOrphanLease`, `NoLostUpdate`, across midnight |
| `form_rows` | `MaxKinds = 4`, or `MaxFiltered = 3` | the properties of the run |
| `client_cache` | two windows, `MaxWrites = 3` | the properties of the run |

The other configurations beside the runs are the counterexamples of section 5.

### Bounds, and why they are enough

* Two connections, fibers, browsers or programs: every property compares two
  actors; a third adds only another of the same. `MCLockTasks` has
  a third fiber because two share a connection. For `DBFiles` the
  proof covers any number of processes.
* Two keys where calls of one key affect another (clearing all locks or all the
  cache, `updatekey()`); one where they do not.
* `MaxDepth` 2 (3 with two fibers of one connection, which can each add one): one
  more than a lock may be held.
* `MaxSessions` 2: a lease and the one that takes it over. `MaxWrites` 3: a write
  of each browser after the first version. `MaxClock` 2: a
  lease taken, expired and taken over.
* `MaxWrite` 3: a version, its successor and one that is rolled back. The guard
  leaves room for the changes of all calls that are open.
* `MaxTask` 4 with up to two threads: two that run, one that waits and one that
  comes after a resize; 2 in `jobs`: one for each program, or one before and one
  after `reset_run()`.
* `MaxFaults` 1: each property that faults can break breaks with one. `LeaseTurns` 0 in
  `form_document`: a lease lasts until the next turn of the relocker, whose RELOCK (or a WRITE)
  renews it when it is served before somebody else takes the record: every order of expiry,
  renewal and takeover is there. The run's `VIEW` makes one of the states that no property and
  no later step tells apart: what else happened after a stray reply (which excuses everything),
  and the lease of a RELOCK that comes too late.
* Two gateways, listeners and calls in `request_files`: one call, or what is left of it, is in
  the way of the other. Four names: one for each call, and one for each that is sent again while
  a listener would still answer at the first.
* Two spellings in `db_files`: two processes that write the name alike, or not.
* Three rows in `form_rows`: the first, the last and one between them; a record that is empty
  and one with two rows that are in order by one column only. `MaxKinds` 1: the
  kinds are exceptions of different properties, which do not need each other;
  section 3 has an instance where all happen. `MaxFiltered` 2: a row that is
  hidden and one that is not; section 3 has an instance with three rows.
* `client_values` has all days and months of the range that the code takes. Typed texts have each
  part at, below and above its limit, with and without separators. `MaxDigits` 3 stands for 14
  (no property of the run types more).
* Three windows in `client_cache`: a window, its opener and the opener of that, or two
  windows of one opener. One entry in a cache more than `MaxEntries` 1 is trimmed.
* Model values are symmetric, except in the runs with liveness properties, which
  have no `SYMMETRY`.

`CHECK_DEADLOCK FALSE` is given where a system really stops: `RecordLeases`, whose
sessions, writes and clock are bounded; `FormDocument`, `RequestFiles` and `ClientCache`, whose
sessions, versions, calls, windows and writes are; `ClientValues`, after the last input; `ThreadPool`, after the destructor; `Jobs`, when
all tasks of the bound have been run. In all other runs deadlock is checked.

### Fairness

* `RecordLeases.FairSpec`: strong fairness of the next step of each request. A
  server process runs its request to the end, and PostgreSQL queues those that
  wait for a row lock, so that a wait that can end again and again does end.
* `ThreadPool.FairSpec` and `Jobs.Fairness`: weak fairness of each thread, and every
  task ends. That holds for jobs; it does not for services that are run on the pool
  and loop for ever (see the hazard at `serve_any.cpp:78`).
* `DBFiles.FilesFairSpec` (strong fairness of each process's call, as PostgreSQL queues
  waiters and breaks deadlocks, and of the end of transactions) and `RequestFiles.FairSpec`
  (weak fairness of the steps of a call, but for the wait for the starter of a service, of each
  listener and of the removal of old files) are for the liveness properties of section 5,
  which fail: that a process disconnects, or a service starts, is not assumed.
* The connections, locks, caches, files, requests, forms and conversions have safety
  properties only.

## 4. What is proved

For every set of connections, keys and processes, of fibers, browsers, clients of the
pool, gateways, listeners, file names and forms, and for every bound on changes, sessions, time,
tasks, calls, faults, windows and writes:

`RecordLocksProofs`, of calls that are one step
* `TypeCorrect`, `TransactionFlagAgrees`, `LockIsExclusive`, `TransactionLocksLast`,
  `RefinesLockService`: `Spec` has `TypeOK`, `ModeAgrees`, `MutualExclusion`,
  `TransactionKeepsLocks` and implements `LockService`.
* `DisciplineSuffices`: `DisciplinedSpec` has `SessionLocksReleasable` and
  `LocksDoNotStack`.

`MutualExclusion` is about caches and not inductive: nothing in it says that what a
cache has is also in the server. The invariant `IInv` adds `ServerExclusive` (the
server has one owner for a key, over both kinds of lock), `CacheBacked` (what the
cache has is held in the server, unless the transaction is aborted or the
connection lost) and `ClosedIsFresh` (a connection that is closed has nothing);
`ModeAgrees` is part of it because the kind of lock that is asked for depends on the
flag. Each action keeps each part. The refinement theorem maps the calls that end
transactions and sessions to a release of everything the connection owns and the
rest to `Acquire`, `Release` of one key, or a stutter. For the disciplined programs
`DInv` adds `SessionTied`: what the server holds for the session is in the cache,
once.

`RecordLocksProofs`, of the calls of fibers
* `TasksTypeCorrect`: `TasksTypeOK`. `CacheBackedByServer`: `CacheIsBacked`.
  `TasksAreExcluded`: `TasksExclude`. All of `ApartSpec`, for finitely many fibers: those that
  share a connection only lock and unlock single records.

The invariant `IInv` does not help here: cache and server agree when no
call is in between, and with several fibers there may never be such a moment. Where
fibers share a connection, `DebtsCovered` counts instead: the depth of a session lock in the
server is at least the number of fibers that will still unlock it or put it in the
cache, and one more while the cache has it. The statement of a `lock()` adds at least as much
to the depth as to the debts, that of an `unlock()` takes one from both. On the connection of a fiber of
its own (`AloneIsBacked`, `AloneKnows`) the cache is ahead of the server during a
`rollbacktrans()` only, and the call that is in progress knows what the server will
answer. `SharedHasNoTransaction`, `MutexOfOwn`, `StatementOfCall` and `ServerExclusive` are
what these need. `StepOfOne` reduces a step to the connection it is on, so that each action is
judged for the fibers of that one.

`RecordCacheProofs`
* `TypeCorrect`: `TypeOK`. `CacheIsNotObsolete`: `CacheNotObsolete`.
  `CacheHasCommitted`: `CacheIsCommitted`. All of `ApartSpec`, for finitely many fibers.

What `readc()` returns is of the past, so the invariant says what is true of each place that a
version can be: `ServerInv` of the tables (numbers grow; only a transaction that runs
has changes that are not committed; what was committed is never one that was rolled back;
what the program knows of is there or was changed since), `ReadIsNew` of what a fiber has
read and not yet put in the cache, `ChangeIsThere` of a change whose call has not
returned, `Dropped` of what a call in progress has removed from the cache, and
`FlagAgrees` of the server when the program believes that it is in no transaction. `Apart`
and `RoomLeft` are part of it: the fiber that has read a record is the only one
that is at it, and the bound on changes leaves room for those that were begun.

`RecordLeasesProofs`
* `TypeCorrect`: `TypeOK`. `NoLeaseIsOrphaned`: `NoOrphanLease`, which excepts the leases of
  READU requests whose answer was lost: they stay until they expire.
* `NoUpdateIsLost`: `NoLostUpdate`, for files with a `DATE_TIME` (`HasDateTime`).
* `LeasesAreJudgedRightly`: `ExpiryJudgedRightly`, for a clock that does not pass midnight
  (`MaxClock < TicksPerDay`).

Both hypotheses are needed, and section 5 has what happens without them. The invariant
follows a request through its statements: `RowIsOfRequest` says what the row of the lock file is
while a request has its row lock (none, the lease it is about to grant, or the one
presented), `StampHolds` that from the check of the time stamp to the write the request has the
advisory lock of the record and the record is the one that was read, `SessionPresented` which
requests have a session id, and `ExpiryIsTime` that the expiry of each row, committed or
pending, is counted from when it was granted.

`FilesProofs`, of the files of a database
* `FilesTypeCorrect`: `FilesTypeOK`, with the part that says that a changed table belongs to a
  transaction that is running.
* `CreateNeverCollides`: `NoDuplicate`: a creation runs into one that is not committed only if the
  name is written otherwise.

`NoDuplicate` needs to know who can be in the way of a creator. `FilesInv` adds `OwnTables`
(a temporary table is changed only by its process) and `MakerHasLock` (who has made a
table and not committed has the session lock of the name as it wrote it): a process that has
passed the lock of the same spelling then finds no uncommitted table of another. It is exactly because
the lock is of the session, and survives until the transaction is over, that this
holds; with a lock that ends with the statement it fails (the variant
`CreateTableUnlocking`), which is the other side of the failure of `CreatefileReturns` in section 5.

`ThreadPoolProofs`, of the pool
* `TypeCorrect`: `TypeOK`; neither counter falls below zero, and no more workers run a
  task than live.
* `NoTaskStranded`: `PendingHasWorker`. `TasksAreOnce`: `EveryTaskOnce`.
  `ShutdownRunsAll`: `ShutdownProcessesAll`.

That no task is stranded depends on `enqueue()` judging by counters. The invariant adds
`CountersAgree`: they are the cardinalities of the sets of workers that live and that
run a task. When no worker lives, none runs, so that a pool that is not stopped has room and
`enqueue()` makes one; and a worker leaves only when the queue is empty. `PendingApart`,
`HeldApart`, `EndedApart` and `NoneLost` say where a task is; `DroppedAtEnd`, that tasks are
thrown away by the destructor only, after which nobody calls the pool. When the workers have been
joined none lives, so nothing is pending, and what is at no worker and was not thrown
away has been run.

`ThreadPoolProofs`, of the jobs
* `JobsTypeCorrect`: `JobsTypeOK`. `RunCountIsRight`: `RunCountIsPending`.
  `ResultsComeOnce`: `EveryResultOnce`. `JobsKeepPool`: `PendingHasWorker`,
  `EveryTaskOnce` and `ShutdownProcessesAll`. All of `JobsSpec`.

A step of `Jobs` is a step of the pool or changes nothing of it but the count of results
(`JobsStepOfPool`), so that the invariant and the promises of
the pool hold here as well: a task ends once, and its result is pushed once.
From there `QueuedApart`, `PoppedApart` and `YieldedOnce` say that it is in one place: in
the queue of the program that ran it (`Owned`), popped by its loop, or yielded. The count
of jobs is not decremented below zero, so that `RunCountIsPending` needs to know that what a loop
pops is a job that was run and not yielded, of which at least one is then pending.
`OneResets` is for the `reset_run()` of a program while others run jobs.

`FilesProofs`, of the files of requests
* `RequestTypeCorrect`: `RequestTypeOK`.
* `ProcessedAtMostOnce`: `AtMostOnce`. `AnswersAreOwn`: `OwnAnswer`. `AnswersAreTrue`:
  `AnswerIsTrue`.

All four are of `DifferSpec`, as the run is: no number is drawn while a file, a call or a listener
goes by it. The code leaves that to chance (section 5 has what happens otherwise). None of them
says that an error means that nothing was done: the code answers errors over commits.

The invariant follows a request: it is with its gateway, which has not renamed it yet, or in one
`~N.1`, or with one listener (`OneRequest`, `WithGateway`), and while it is there nothing of it
was committed (`NotYetDone`) and the name that its gateway waits at has no response but an error
of NET (`Responded`, `Responding`). Or its work is in the open transaction of a listener that has
failed (`OpenWork`), and then no request of it is left, and its gateway will not be told "no
request". A gateway sends a request again only after it has read that, so that no
other copy is left; a listener that dies takes its claim along. What a name holds is of the call
that drew it (`OwnFiles`, `OwnListener`), also where NET would answer for a listener, which makes
the response that is read the call's own.

`FormDocumentProofs`
* `TypeCorrect`: `TypeOK`. `ChangesAreKept`: `EditsKept`. `WritesAreOwn`: `WritesItsOwn`.
  `NoUpdateIsOverwritten`: `NoLostUpdate`. `NoLeaseIsForgotten`: `NoForgottenLease`.

All of `Spec`, with `UpdateOnly` or without, for any keys, length of leases, sessions, versions
and faults. `EditsKept` excepts what happens after a stray reply has resumed a handler, and
`NoForgottenLease` also requests that were lost or given up. A handler of a form is a chain of pieces that call each other, and an action
starts such a chain at some event, answer or reply. The proof follows the pieces: `Outcome(f)` says
what a piece leaves behind that was called with the form `f` (the document that is locked
stays the same until its release was sent and answered, a request is of the document of
the form, a question is asked about one that is locked), and there is a lemma for each
piece, from the last one, `OpenRead`, to `SaveAndOrClear`. An action then only has to
show what its piece is called with (`Called`, `Suits`) and what goes on around it
(`Continues`), and `GoesOn` concludes.

The invariant needs, for `EditsKept`, that changes which are about to be dropped were decided to be
before (`EditsSettled`): between the decision and the release of the lock there are requests
and questions, at which the form still has its changes. For `NoLostUpdate`, that a write on
its way is of the document, the key and the session that the form has (`WriteOfForm`,
`RequestOfHandler`), also when its handler gave it up, and that while the form has the
lease the record is the one it has read (`BaseIsRead`), which an answer must bring about
(`AnswerHolds`), and which holds while a warning about the write waits for the user (`WrittenOf`): a session id is given once, so a lease with the session of the form was nobody
else's in between. For `WritesItsOwn`, that the fields on the screen are those of the
document that is locked, unless its opening was refused after it was locked, and then it is
released at once (`ShownIsLocked`). For `NoForgottenLease`, who knows of each lease: the form,
the answer that grants it, the UNLOCK of a page that is loaded, or the cookie (`LeasesKnown`).

`FormRowsProofs`
* `RowsTypeCorrect`: `TypeOK`. `ShownAsStored`: `ShownIsStored`. `RowsStayValid`: `RowsValid`.
  `TotalStaysCurrent`: `TotalIsCurrent`. `ChangesStayNoted`: `ChangesNoted`. They follow from
  `RowsInvariance`, the inductive invariant `IInv`. All of `Spec`, for any number of rows,
  pasted lines and values and all kinds of exceptional events.

Assumed of the constants are `RowsAssumption` (what the sets are) and `RecordsAssumption`: the
records that are opened keep the rules, as those that such a form has filled do.

`IInv` says that the form is `Good`: it is `Whole` and keeps its `Promises`. `Whole` is the triple
bookkeeping of the code: each data row has a TR of its own, the one at its place, and the cursor
and the element that `Escape` remembers are nowhere or in the table. The promises are the
properties of the runs, each unless the kind of event has happened that excepts it, and two that
make them inductive. `OldIsStored`: `gpreviousvalue` is what the record has in the cell under the
cursor; otherwise `validateupdate()`, which compares the screen with it, would take a change for
none. `NoneHidden`: without a filter every row can be seen, because a required element that
cannot be seen is not required. An event of a kind that is excepted weakens what follows, so
that `Good` is relative to the kinds.

`Ready` is a `Good` form with nothing to validate: `ValidateUpdateGood` and `UpdatedReady` say that
this is what `validateupdate()` leaves when it returns true, and the rest of each handler is
shown to keep a `Ready` form `Good`. `AmountInOrder` is the reason why comparing an amount with
the neighbours that are not blank is enough for all rows to ascend, and `CodeSetRules`,
`AmountSetRules` carry the rules from cell to cell. `InsertRowComes` and `RowGone` follow a row
that comes or goes, `ReordersGood` any permutation of the rows; `SwapRowsIs` shows that the
swapping of TRs in `sorttable()` ends in the same permutation as that of the data rows, which is not
so after each single swap, and `SortOrderPerm` that an order by value and place is a permutation
(`PermOnto`, a pigeonhole argument). `SetPrevious` after a popup, the
pasted lines of which some are refused, and the rows that a popup replaces are the handlers that
set the cursor themselves (`PastedGood`, `RefillGood`, `ReplacedGood`).

The totals, the pasted lines, the swaps and the added rows are folds. What a fold returns for
sequences of every length is proved through its trace: `FoldTrace` gives for each fold the sequence of
the results of its steps, and what holds of a trace is shown up to its length by `UpTo`, an induction
stated for a set of numbers, not for a predicate, which `LeastNumber` proves from the
well-foundedness of the natural numbers.

`ClientCacheProofs`
* `TypeCorrect`: `TypeOK`. `SavesAreForgotten`: `SavesForgotten`.
  `SelectionsAreRefreshed`: `SelectionsRefreshed`. Both except entries that were already old
  when they arrived (`late`). All of `Spec`, for any windows, also infinitely
  many, any records and sizes, and any names of requests, also those that clash.

A save prunes the caches that the window reaches when it is answered. What it reaches later
may be others: it loads its cache when it first needs one, so do the windows above it, and openers
close. The invariant says that nothing old comes in that way (`Loading`): a cache that is
loaded is that of the opener, which every window below reached already, or a new one, and the
new one is empty, because a cache with entries is of some open window (`EntriesUsed`) and a
window that made one has it itself (`CachesMade`). A window that has not loaded a cache has saved
nothing (`WriterHasCache`), and one that is closed is nobody's opener (`ClosedHasNothing`), so
that a chain only gets shorter (`ChainWithin`: a chain is the least set that has the opener of
each of its members). That pruning by name leaves no entry of the request needs the names to be
those of the requests, once each (`EntriesNamed`); the lemmas about lists say that of `Put`,
`Without`, `Trimmed` and `PrunedBySave`. For late entries see `client.js:2639` in section 5.

The assumptions on constants are those of the modules: the null values are not members of
the sets, the bounds are natural numbers, the fibers of `LockTasks` and `RecordCache` and the
browsers of `RecordLeases` are finitely many.

Only model-checked: all liveness (the prover has no fairness and no `ENABLED`), and of the
pages the conversions. `ClientValues` compares operators that compute over digits, days and
words with definitions that are not those of the code: for every input that would be an
induction over numbers and texts for each of them, along recursions of the code that differ from
those of the definitions. Their inputs are bounded, and the run goes over all of them.

## 5. Findings

Where the code does something else than its comments and documents say. To see
one, run the configuration named, or the one named with the change in brackets
and the property in place of those it lists (as `INVARIANT` when it is about a state, as
`PROPERTY` otherwise); TLC finds the property violated.

In the library and the service:

| configuration | property | source | what happens |
|---|---|---|---|
| `MCRecordLocksForgotten` | `SessionLocksReleasable` | `vardb.cpp:2523` | the end of a transaction forgets the session locks taken before it; nothing releases them |
| `MCLockTasks` [`TasksSpec`] | `TasksExclude` | `vardb.cpp:1723` | one task ends a transaction while another awaits a lock: the cache has a lock the server does not |
| `MCDBFilesCreator` [`FilesFairSpec`] | `CreatefileReturns` | `vardb.cpp:2680` | "to gain lock with wait and create release all together": `pg_advisory_lock` outlives the statement, and other creations of the name wait until the creator disconnects |
| `MCDBFilesCreator` [`Spelling = {k1, k2}`] | `NeverDuplicate` | `vardb.cpp:2680` | "avoid race to create": two ways to write one file name take two locks, and one creation is a duplicate |
| `MCRecordLeases` [`Spec`, `HasDateTime = FALSE`] | `NoLostUpdate` | `listen.cpp:2063` | no `DATE_TIME` field: WRITE passes its check, its lease expires and is taken over, and the update of the other is overwritten |
| `MCRecordLeases` [`Spec`, `TicksPerDay = 2`] | `ExpiryJudgedRightly` | `listen.cpp:3048` | time is read before date: at midnight a fresh lease is found expired |
| `MCRecordLeases` [`Spec`] | `LeaseHeldToExpiry` | `exoprog.cpp:1441` | READU judges the committed lease, waits for its renewal and deletes that |
| `MCRecordCache` [`Spec`] | `CacheNotObsolete` | `vardb.cpp:1366` | `readc()` of one task caches what it read before the `write()` of another |
| `MCRecordCache` [`Spec`, `Fiber = {f1}`] | `HitAgreesWithRead` | `vardb.cpp:1344` | an empty record is found by `read()` and not by the second `readc()` |
| `MCLockTasks` [the property] | `LocksDoNotStack` | `vardb.cpp:1756` | two tasks take one lock twice; one `unlock()` leaves it |
| `MCThreadPoolDesired` | `DesiredIsMaximum` | `threadpool.cpp:178` | dead workers are counted: more threads than were set |
| `MCThreadPoolDesired` [the property] | `CapacityIsUsed` | `threadpool.cpp:134` | a taken task is not counted yet: no worker is made for the next |
| `MCJobsTwoPrograms` | `EveryLoopEnds` | `job_manager.cpp:50` | a program waits for the results of another's jobs |
| `MCJobsTwoPrograms` [`JobsSpec`] | `BatchesAreSeparate` | `job_manager.cpp:45` | `reset_run()` keeps old results, the new loop yields them |
| `MCJobsTwoPrograms` [`JobsSpec`] | `FutureHasEnvironment` | `job.cpp:145` | the future of a job that ended normally is broken |
| `MCDBFilesCreator` | `CreatorIsOne` | `vardb.cpp:2669` | `createfile()` is true for two processes |
| `MCDBFilesCreator` [the property] | `RefusalIsTrue` | `vardb.cpp:2660` | "already exists" of a file that was deleted |
| `MCRequestFilesResend` [`FairSpec`, `MaxFaults = 0`] | `CallsReturn` | `server.js:615` | "waits up to 60 seconds": the wait for the start of a service has no end, the time compared is always that of the start |
| `MCRequestFilesResend` [`MaxFaults = 0`] | `ErrorIsNotDone` | `listen.cpp:1472` | "COMMIT (or ROLLBACK if any error)": a response of "Error:" is committed |
| `MCRequestFilesResend` | `ResendCarriesData` | `server.js:341` | a request that is sent again after `ERROR: NO REQUEST` is sent without its data |
| `MCRequestFilesResend` [`MaxFaults = 0`] | `GivenUpIsNotDone` | `server.js:494` | a call that has returned "No response" is processed afterwards |
| `MCRequestFilesResend` [`Spec`, `Name = {n1, n2}`, `MaxCalls = 2`, `MaxFaults = 0`] | `OwnAnswer`, `AnswerIsTrue` | `server.js:363` | `FileExists()` takes no wildcard: a number that is in use is not noticed, and a call reads another's answer |

In the pages:

| configuration | property | source | what happens |
|---|---|---|---|
| `MCFormDocumentEdits` | `EditsAlwaysKept` | `client.js:2383` | the reply to a RELOCK answers a question to the user, and edits are dropped |
| `MCFormDocumentEdits` [`MaxFaults = 0`] | `LockedIsRelocked` | `dbform.js:4849` | "restart the relocker if failed to save": a failed save returns before that |
| `MCFormDocumentEdits` [`MaxFaults = 0`, `UpdateOnly = TRUE`] | `UpdateOnlyCreatesNothing` | `dbform.js:3954` | the missing record is refused but its lock is kept; saving creates it |
| `MCFormRowsEscape` [`Kinds = {"adopted"}`] | `ShownAlwaysStored` | `dbform.js:7811` | a popup over a value that is being typed takes it for the stored one: it is shown and never stored |
| `MCFormRowsEscape` | `ChangesAlwaysNoted` | `dbform.js:4643` | Escape takes back `gchangesmade` though other rows were changed since: closing does not ask |
| `MCFormRowsEscape` [`Kinds = {"replaced"}`] | `TotalAlwaysCurrent` | `dbform.js:7446` | rows replaced by a popup stay in the total of another column |
| `MCFormRowsEscape` [`Kinds = {"filtered"}`] | `SavedRowsComplete` | `dbform.js:5660` | a required value is not required in a row that is filtered away |
| `MCFormRowsEscape` [`Kinds = {}`] | `SortIsStable` | `client.js:3876` | "STABLE!!!": a descending sort reverses rows of equal value |
| `MCFormRowsEscape` [`Kinds = {"filtered"}`] | `AppendedRowShows` | `gds.js:645` | a new row is a clone of the first one, hidden if that is |
| `MCClientValuesNumbers` [the property] | `ListedDatesTaken` | `exodus.js:956` | of the listed formats with the year in front only y/m/d is taken |
| `MCClientValuesNumbers` [the property] | `ListedTimesStored` | `client.js:6775` | of the times that the message lists, 00:00 is taken and not stored, and 12.75 is refused like 12:75 |
| `MCClientValuesNumbers` [the property] | `CenturiesAgree` | `exodus.js:1647` | `ADDCENT()` and `CENTURY()` differ at 50 |
| `MCClientValuesNumbers` [the property] | `EveryTableTurned` | `exodus.js:418` | "go back and fill any missing elements" fails for tables whose first row is not a longest |
| `MCClientValuesNumbers` | `EitherFormatIsMeant` | `client.js:1419` | numbers like 999.999.999,99 are not taken: separators are removed in the other format only |
| `MCClientValuesNumbers` [the property] | `LargeNumbersRefused` | `exodus.js:721` | "max 14 digits": any number of digits without a point is taken |
| `MCClientCacheLate` [`Lists = {"SELECT", "INDEX"}`] | `IndexesRefreshed` | `dbform.js:3607` | the pruned prefix is not that of any request: lists of index values stay old |
| `MCClientCacheLate` [the property] | `DeletedForgotten` | `dbform.js:3765` | a deleted record stays in the cache |
| `MCClientCacheLate` | `SavesStayForgotten` | `client.js:2639` | an answer that was asked before a save is kept after it |
| `MCClientCacheLate` [`Key = {k1, k2}`, `CacheKey <- MCOneKey`] | `AnswersAreOwn` | `client.js:3649` | `cachekey()` gives two requests one name |
| `MCClientCacheLate` [the property] | `InitialIsOldest` | `client.js:3560` | an entry that is written again keeps its place: the newest may be trimmed first |

Met while modelling and not stated as a property: 31/12/1967 is day 0, which is taken and
shown but not stored, and days before it have no weekday; years 0000 to 0099 become 1900 to
1999; `DATE_TIME` goes back a day past midnight; `exodusconvarray()` fills the
global `i` instead of its own; `exodus_val_time()` writes back the old other time; the
`EXPIRED` branch of `relockdoc()` cannot be reached over http; a WRITEU that is sent
again after its response was lost is reported as failed though it was saved.

## 6. Plan

Done: locks, leases, cache, tasks, pool, jobs and files of the library and the
service; then the way from a page to it: request files, the documents and the rows of
forms, the conversions and the cache of the pages.

To model, in this order:
1. `LockedUpdate`: the programs of `test/test_asyncupd.cpp`: lock, begin, read, write, commit,
   unlock, composed from `RecordLocks`, with an atomic counter as abstract specification.
2. `FormDocument` over `RecordLeases` and `RequestFiles`: the server of a page is now the
   abstract one (leases, versions, lost and late answers); to be shown is that the two
   detailed modules together implement it.
3. The start, the number and the end of listeners.
4. `TaskManager`: fibers, the result channel, exceptions that the loop rethrows, the
   end of the manager.
5. `Connections`: numbers, defaults, `disconnectall()`, the reconnection of handles.
6. `Cursors`: the cache of results under `clearcache()` and transactions.
7. `renamefile()` and `clearfile()` in `DBFiles`, the record cache over a file that is
   cleared, the `ResultRange` form of `run_results()`.
8. Insertion and removal in multi-level strings as operators against a reference.

To prove: that a call of `LockTasks` that is not interleaved is a step of `RecordLocks`, as a
step of `Jobs` is one of the pool.

## 7. What is not modelled

* Cursors, select lists, the task manager and the numbering of connections:
  planned, see above.
* Of leases: subsidiary leases, automatic keys, a `prewrite` that changes the key,
  requests that are cancelled because the service stops, the collision of random
  session ids.
* Of the request loop: how listeners are started, limited in number and stopped. NET is modelled
  by what it does to the files (`Fails`), with its response written in one step; `RESPOND` of
  `listen2.cpp`, which nobody calls, and `%DIRECTOUTPUT%` are left out.
* Of `createfile()`: a name that ends in `_TEMP`, which is normalized to that of a temporary file
  but makes an ordinary one.
* Of the pool: resizing by one thread while another shuts the pool down, for which
  the code gives no order.
* Of forms: hooks other than whether they refuse, more than one table and nested
  groups, keys of several parts, uploads, the layout of the elements. In `FormDocument` a
  form has one page and its windows are in `ClientCache`; a page is loaded, closed and
  loaded again, but not opened twice with one session. A `prewrite` that changes the key of what
  is written (`listen.cpp:2172`) is left out.
* Of the client's cache: an opener whose page is loaded again while its windows stay open
  (its `gcache` starts anew), several data sets, answers that fail, and a read of a raw
  record list that is warned about (`client.js:1773`). A request is asked in one step and
  answered in another; the server answers it with the records of the moment it is asked.
* Of conversions: `DATE_TIME` with time zones, text formats and check digits, the
  rounding of binary fractions (numbers have three decimals here and are exact).
* Menus, the calendar widget, the rest of the pages' scripts and the vendored editor:
  input and output of one user.
* Dictionaries and the translation of select sentences into SQL, values, strings,
  numbers, dates, regular expressions, the operating system interface, program
  loading: text to text or input and output, with little state that actors share.
* The applications of the service, the command line programs, build and packaging.
* PostgreSQL is modelled from how the code uses it (advisory locks, row locks,
  `READ COMMITTED`, failed transactions, DDL in transactions); these definitions are
  marked external in the map, as are the file system, random numbers, `Date.UTC`, failures,
  other browsers and the opening and closing of windows.
