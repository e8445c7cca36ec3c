-------------------------------- MODULE Jobs --------------------------------
(***************************************************************************)
(* Jobs: run(), run_results(), run_count(), shutdown_run() and reset_run() *)
(* of the programs of a process (src/exodus/job_manager.cpp, job.cpp,      *)
(* threadsafequeue.cpp), on the thread pool they share (ThreadPool).       *)
(*                                                                         *)
(* Every program object is a JobManager with a result queue of its own;    *)
(* threadpool1, with the count of tasks, is global.  A job is the task of  *)
(* the same number.                                                        *)
(***************************************************************************)
EXTENDS ThreadPool

CONSTANTS Nobody,     \* the program of a job that is not there yet
          MaxBatch    \* bound: how often reset_run() is called
ASSUME NobodyAssumption   == Nobody \notin Client
ASSUME MaxBatchAssumption == MaxBatch \in Nat

VARIABLES
  owner,            \* owner[t]: the program that ran job t
  batchOf, batch,   \* batches are what reset_run() separates
  promise,          \* promise[t]: what the future of job t has
  result_queue_,    \* result_queue_[p]: jobs of p that are over
  loop,             \* loop[p]: how many results run_results() has to wait for
  popped,           \* popped[p]: the result that it has popped
  yielded           \* the results that loops have been given

programs == <<loop, popped, yielded>>
jobs == <<owner, batchOf, batch, promise, result_queue_, programs>>
jvars == <<vars, jobs>>

JobsTypeOK ==
  /\ TypeOK
  /\ owner \in [Task -> Client \cup {Nobody}]
  /\ batch \in 0..MaxBatch /\ batchOf \in [Task -> 0..batch]
  /\ promise \in [Task -> {"none", "value", "exception", "broken"}]
  /\ result_queue_ \in [Client -> Seq(Task)]
  /\ loop \in [Client -> 0..MaxTask]
  /\ popped \in [Client -> Task \cup {NoTask}]
  /\ yielded \in Seq(Task)

JobsInit ==
  /\ Init
  /\ owner = [t \in Task |-> Nobody]
  /\ batch = 0 /\ batchOf = [t \in Task |-> 0]
  /\ promise = [t \in Task |-> "none"]
  /\ result_queue_ = [p \in Client |-> <<>>]
  /\ loop = [p \in Client |-> 0]
  /\ popped = [p \in Client |-> NoTask]
  /\ yielded = <<>>

-----------------------------------------------------------------------------

\* A program that is in the loop over its results does nothing else.
Free(p) == loop[p] = 0

\* run(): a job on the pool, that will push to the queue of its program.  If
\* the pool is stopped the job has an exception, and that is all.
RunJob(p) ==
  /\ Free(p)
  /\ Enqueue(p)
  /\ owner' = [owner EXCEPT ![enqueued'] = p]
  /\ batchOf' = [batchOf EXCEPT ![enqueued'] = batch]
  /\ UNCHANGED <<batch, promise, result_queue_, programs>>

\* Variant: a program that fails has only an exception.
JobEndsUnreported(w) ==
  LET t == workers[w].task IN
  /\ TaskEnds(w)
  /\ \/ /\ result_queue_' =
             [result_queue_ EXCEPT ![owner[t]] = Append(@, t)]
        /\ UNCHANGED promise
     \/ /\ promise' = [promise EXCEPT ![t] = "exception"]
        /\ UNCHANGED result_queue_
  /\ UNCHANGED <<owner, batchOf, batch, programs>>

\* The program of the job comes to its end or fails; both are pushed, the
\* promise is kept only for the failure.
JobEnds(w) ==
  LET t == workers[w].task IN
  /\ TaskEnds(w)
  /\ result_queue_' = [result_queue_ EXCEPT ![owner[t]] = Append(@, t)]
  /\ \/ UNCHANGED promise
     \/ promise' = [promise EXCEPT ![t] = "exception"]
  /\ UNCHANGED <<owner, batchOf, batch, programs>>

\* With the task goes the last reference to its promise.
JobIsDestroyed(w) ==
  LET t == workers[w].task IN
  /\ WorkerGoesOn(w)
  /\ promise' = [promise EXCEPT ![t] = IF @ = "none" THEN "broken" ELSE @]
  /\ UNCHANGED <<owner, batchOf, batch, result_queue_, programs>>

WorkerMoves(w) ==
  /\ \/ WorkerTakes(w) \/ WorkerWaits(w) \/ WorkerExits(w)
     \/ WorkerStarts(w)
  /\ UNCHANGED jobs

\* run_results() waits for as many results as run_count() says.
RunResults(p) ==
  /\ client[p] = "idle" /\ Free(p) /\ Running
  /\ loop' = [loop EXCEPT ![p] = total_tasks_enqueued]
  /\ UNCHANGED <<vars, owner, batchOf, batch, promise, result_queue_, popped,
                 yielded>>

\* Variant: the result is left in the queue.
WaitAndCopy(p) ==
  /\ loop[p] > 0 /\ popped[p] = NoTask
  /\ result_queue_[p] # <<>>
  /\ popped' = [popped EXCEPT ![p] = Head(result_queue_[p])]
  /\ UNCHANGED <<vars, owner, batchOf, batch, promise, result_queue_, loop,
                 yielded>>

WaitAndPop(p) ==
  /\ loop[p] > 0 /\ popped[p] = NoTask
  /\ result_queue_[p] # <<>>
  /\ popped' = [popped EXCEPT ![p] = Head(result_queue_[p])]
  /\ result_queue_' = [result_queue_ EXCEPT ![p] = Tail(@)]
  /\ UNCHANGED <<vars, owner, batchOf, batch, promise, loop, yielded>>

\* Variant: the count is left as it is.
YieldResultUncounted(p) ==
  /\ loop[p] > 0 /\ popped[p] # NoTask
  /\ yielded' = Append(yielded, popped[p])
  /\ popped' = [popped EXCEPT ![p] = NoTask]
  /\ loop' = [loop EXCEPT ![p] = @ - 1]
  /\ UNCHANGED <<vars, owner, batchOf, batch, promise, result_queue_>>

YieldResult(p) ==
  /\ loop[p] > 0 /\ popped[p] # NoTask
  /\ total_tasks_enqueued' =
       IF total_tasks_enqueued > 0 THEN total_tasks_enqueued - 1 ELSE 0
  /\ yielded' = Append(yielded, popped[p])
  /\ popped' = [popped EXCEPT ![p] = NoTask]
  /\ loop' = [loop EXCEPT ![p] = @ - 1]
  /\ UNCHANGED <<pending_tasks, workers, max_worker_id_, live_worker_count,
                 running_task_count, client, history>>
  /\ UNCHANGED <<owner, batchOf, batch, promise, result_queue_>>

ResultStep(p) == WaitAndPop(p) \/ YieldResult(p)

PoolCalls(p) ==
  /\ \/ Free(p) /\ Shutdown(p)
     \/ Free(p) /\ \E n \in Threads : SetMaxThreads(p, n)
     \/ Notify(p) \/ ShutdownReturns(p)
  /\ UNCHANGED jobs

\* reset_run(): the pool is made anew, the result queues are not.
ResetRun(p) ==
  /\ Free(p)
  /\ \/ batch < MaxBatch /\ Reset(p) /\ UNCHANGED batch
     \/ \E n \in Threads : ResetReturns(p, n) /\ batch' = batch + 1
  /\ UNCHANGED <<owner, batchOf, promise, result_queue_, programs>>

-----------------------------------------------------------------------------

JobsNext ==
  \/ \E p \in Client :
       RunJob(p) \/ RunResults(p) \/ ResultStep(p) \/ PoolCalls(p) \/ ResetRun(p)
  \/ \E w \in DOMAIN workers :
       WorkerMoves(w) \/ JobEnds(w) \/ JobIsDestroyed(w)

JobsSpec == JobsInit /\ [][JobsNext]_jvars

\* Threads that can go on do, and every job comes to its end.
Fairness ==
  /\ \A p \in Client :
       WF_jvars(ResultStep(p)) /\ WF_jvars(PoolCalls(p) /\ ClientStep(p))
  /\ \A w \in Task : WF_jvars(WorkerMoves(w) \/ JobIsDestroyed(w))
                     /\ WF_jvars(JobEnds(w))

FairJobsSpec == JobsSpec /\ Fairness

-----------------------------------------------------------------------------
(* Properties.                                                             *)

Image(s) == {s[i] : i \in DOMAIN s}

\* run_count() is "the number of jobs run and pending results": what was run
\* and is not yielded yet, wherever it is on its way.  reset_run() gives up
\* what is pending.
RunCountIsPending ==
  batch = 0 => total_tasks_enqueued + Len(yielded) = enqueued

\* The loop over run_results() ends, before and after reset_run() and a
\* shutdown of the pool, as long as no other program of the process has run a
\* job: every result that the loop has counted comes.
RunResultsEnd ==
  \A p \in Client :
    (loop[p] > 0) ~> (loop[p] = 0 \/ \E t \in Task : owner[t] \notin {p, Nobody})

\* "Process all run results in parallel as they become available": the same
\* without that condition.
EveryLoopEnds == \A p \in Client : (loop[p] > 0) ~> (loop[p] = 0)

\* No result comes twice, or to a program that did not run the job.
EveryResultOnce ==
  /\ Cardinality(Image(yielded)) = Len(yielded)
  /\ \A p \in Client : \A t \in Image(result_queue_[p]) \cup {popped[p]} :
       t # NoTask => owner[t] = p /\ t \notin Image(yielded)

\* After "a new batch of jobs" is started its loop yields results of that
\* batch.
BatchesAreSeparate ==
  [][\A p \in Client : popped'[p] # popped[p] /\ popped'[p] # NoTask =>
       batchOf[popped'[p]] = batch]_jvars

\* "When it has finished, access all its environment variables": the future
\* of a job that has come to its normal end has the environment.
FutureHasEnvironment ==
  \A t \in done : promise[t] # "broken"
=============================================================================
