----------------------------- MODULE ThreadPool -----------------------------
(***************************************************************************)
(* The thread pool that runs jobs (src/exodus/threadpool.cpp): enqueue,    *)
(* the loop of a worker thread, set_max_threads, shutdown, reset and the   *)
(* destructor.                                                             *)
(*                                                                         *)
(* One step is one critical section of the pool's mutex, or one access to  *)
(* an atomic counter outside of it.  A task that a worker has popped is    *)
(* "taken", then counted in running_task_count ("running"), over ("ran")   *)
(* and no longer counted.                                                  *)
(***************************************************************************)
EXTENDS Naturals, Sequences, FiniteSets

CONSTANTS Client,     \* threads that use the pool
          Threads,    \* the sizes that are asked for
          MaxTask     \* bound: how many tasks are enqueued

ASSUME ThreadsAssumption == Threads \subseteq Nat \ {0}
ASSUME MaxTaskAssumption == MaxTask \in Nat

VARIABLES
  pending_tasks,          \* the queue
  workers,                \* workers[id]: every thread made, dead or alive
  max_worker_id_, live_worker_count, running_task_count,
  total_tasks_enqueued,
  client,                 \* where each client is in its call
  enqueued,               \* how many tasks there have been
  done, dropped,          \* those that have run, and those thrown away
  desired                 \* the number of workers last asked for

counters == <<max_worker_id_, live_worker_count, running_task_count,
              total_tasks_enqueued>>
history == <<enqueued, done, dropped, desired>>
vars == <<pending_tasks, workers, counters, client, history>>

Task == 1..MaxTask
NoTask == 0
Busy == {"taken", "running", "ran"}
Worker == [at : {"ready", "waiting", "dead"} \cup Busy, task : Task \cup {NoTask}]

TypeOK ==
  /\ pending_tasks \in Seq(Task) /\ Len(pending_tasks) <= MaxTask
  /\ workers \in Seq(Worker) /\ Len(workers) <= MaxTask
  /\ max_worker_id_ \in Nat
  /\ live_worker_count \in 0..MaxTask
  /\ running_task_count \in 0..live_worker_count
  /\ total_tasks_enqueued \in 0..MaxTask
  /\ client \in [Client -> {"idle", "notify", "shutdown", "reset", "ended"}]
  /\ enqueued \in 0..MaxTask
  /\ done \subseteq Task /\ dropped \subseteq Task
  /\ desired \in Nat

Init ==
  /\ pending_tasks = <<>> /\ workers = <<>>
  /\ max_worker_id_ \in Threads /\ desired = max_worker_id_
  /\ live_worker_count = 0 /\ running_task_count = 0
  /\ total_tasks_enqueued = 0
  /\ client = [c \in Client |-> "idle"]
  /\ enqueued = 0 /\ done = {} /\ dropped = {}

-----------------------------------------------------------------------------
(* The clients.                                                            *)

Goes(c, from, to) == client[c] = from /\ client' = [client EXCEPT ![c] = to]

Running == \A c \in Client : client[c] \notin {"reset", "ended"}

\* "Enqueue on stopped ThreadPool"
Stopped == max_worker_id_ = 0 /\ live_worker_count = 0

\* A worker is made if running plus queued tasks exceed the live workers and
\* there is capacity.
NeedsWorker ==
  /\ running_task_count + Len(pending_tasks) + 1 > live_worker_count
  /\ live_worker_count < max_worker_id_

Enqueue(c) ==
  /\ Running /\ ~Stopped /\ enqueued < MaxTask
  /\ Goes(c, "idle", "notify")
  /\ pending_tasks' = Append(pending_tasks, enqueued + 1)
  /\ enqueued' = enqueued + 1
  /\ total_tasks_enqueued' = total_tasks_enqueued + 1
  /\ IF NeedsWorker
     THEN /\ workers' = Append(workers, [at |-> "ready", task |-> NoTask])
          /\ live_worker_count' = live_worker_count + 1
     ELSE UNCHANGED <<workers, live_worker_count>>
  /\ UNCHANGED <<max_worker_id_, running_task_count, done, dropped, desired>>

At(s) == {w \in DOMAIN workers : workers[w].at = s}

Wake(W) == workers' = [w \in DOMAIN workers |->
  IF w \in W THEN [workers[w] EXCEPT !.at = "ready"] ELSE workers[w]]

\* Variant: nobody is woken.
NotifyNobody(c) ==
  /\ Goes(c, "notify", "idle")
  /\ UNCHANGED <<pending_tasks, workers, counters, history>>

\* condition->notify_one(), after the mutex is released.
Notify(c) ==
  /\ Goes(c, "notify", "idle")
  /\ \/ At("waiting") = {} /\ UNCHANGED workers
     \/ \E w \in At("waiting") : Wake({w})
  /\ UNCHANGED <<pending_tasks, counters, history>>

\* The threshold is set so that n more than the dead workers may live.
SetMaxThreads(c, n) ==
  /\ \A d \in Client : client[d] \in {"idle", "notify"}
  /\ client[c] = "idle"
  /\ max_worker_id_' =
       IF n = 0 THEN 0 ELSE Len(workers) + n - live_worker_count
  /\ Wake(At("waiting"))
  /\ desired' = n
  /\ UNCHANGED <<pending_tasks, live_worker_count, running_task_count,
                 total_tasks_enqueued, client, enqueued, done, dropped>>

\* shutdown() signals and joins; reset() then makes the pool anew, and nobody
\* else may be inside it.
Signal ==
  /\ max_worker_id_' = 0
  /\ Wake(At("waiting"))
  /\ desired' = 0
  /\ UNCHANGED <<live_worker_count, running_task_count, total_tasks_enqueued,
                 enqueued, done>>

Shutdown(c) ==
  /\ \A d \in Client : client[d] \in {"idle", "notify"}
  /\ Goes(c, "idle", "shutdown")
  /\ Signal
  /\ UNCHANGED <<pending_tasks, dropped>>

Joined == \A w \in DOMAIN workers : workers[w].at = "dead"

ShutdownReturns(c) ==
  /\ Joined
  /\ Goes(c, "shutdown", "idle")
  /\ UNCHANGED <<pending_tasks, workers, counters, history>>

Reset(c) ==
  /\ \A d \in Client : client[d] = "idle"
  /\ Goes(c, "idle", "reset")
  /\ Signal
  /\ UNCHANGED <<pending_tasks, dropped>>

ResetReturns(c, n) ==
  /\ Joined
  /\ Goes(c, "reset", "idle")
  /\ pending_tasks' = <<>> /\ workers' = <<>>
  /\ max_worker_id_' = n /\ desired' = n
  /\ live_worker_count' = 0 /\ running_task_count' = 0
  /\ total_tasks_enqueued' = 0
  /\ UNCHANGED <<enqueued, done, dropped>>

\* The destructor throws away what is pending, then waits for the workers.
Destroy(c) ==
  /\ \A d \in Client : client[d] = "idle"
  /\ Goes(c, "idle", "ended")
  /\ pending_tasks' = <<>>
  /\ dropped' = dropped \cup {pending_tasks[i] : i \in DOMAIN pending_tasks}
  /\ Signal

ClientStep(c) ==
  \/ Notify(c)
  \/ ShutdownReturns(c)
  \/ \E n \in Threads : ResetReturns(c, n)

-----------------------------------------------------------------------------
(* The worker threads.                                                     *)

Moves(w, from, to) ==
  /\ w \in DOMAIN workers /\ workers[w].at = from
  /\ workers' = [workers EXCEPT ![w].at = to]

MayExit(w) == max_worker_id_ = 0 \/ w >= max_worker_id_

\* Variant: the task is left in the queue.
WorkerTakesCopy(w) ==
  /\ w \in DOMAIN workers /\ workers[w].at = "ready"
  /\ pending_tasks # <<>>
  /\ workers' =
       [workers EXCEPT ![w] = [at |-> "taken", task |-> Head(pending_tasks)]]
  /\ UNCHANGED <<pending_tasks, counters, client, history>>

WorkerTakes(w) ==
  /\ w \in DOMAIN workers /\ workers[w].at = "ready"
  /\ pending_tasks # <<>>
  /\ workers' =
       [workers EXCEPT ![w] = [at |-> "taken", task |-> Head(pending_tasks)]]
  /\ pending_tasks' = Tail(pending_tasks)
  /\ UNCHANGED <<counters, client, history>>

WorkerWaits(w) ==
  /\ pending_tasks = <<>> /\ ~MayExit(w)
  /\ Moves(w, "ready", "waiting")
  /\ UNCHANGED <<pending_tasks, counters, client, history>>

\* Variant: a worker that is to stop leaves the queue as it is.
WorkerExitsAtOnce(w) ==
  /\ MayExit(w)
  /\ Moves(w, "ready", "dead")
  /\ live_worker_count' = live_worker_count - 1
  /\ UNCHANGED <<pending_tasks, max_worker_id_, running_task_count,
                 total_tasks_enqueued, client, history>>

WorkerExits(w) ==
  /\ pending_tasks = <<>> /\ MayExit(w)
  /\ Moves(w, "ready", "dead")
  /\ live_worker_count' = live_worker_count - 1
  /\ UNCHANGED <<pending_tasks, max_worker_id_, running_task_count,
                 total_tasks_enqueued, client, history>>

WorkerStarts(w) ==
  /\ Moves(w, "taken", "running")
  /\ running_task_count' = running_task_count + 1
  /\ UNCHANGED <<pending_tasks, max_worker_id_, live_worker_count,
                 total_tasks_enqueued, client, history>>

\* The task itself.
TaskEnds(w) ==
  /\ Moves(w, "running", "ran")
  /\ done' = done \cup {workers[w].task}
  /\ UNCHANGED <<pending_tasks, counters, client, enqueued, dropped, desired>>

WorkerGoesOn(w) ==
  /\ w \in DOMAIN workers /\ workers[w].at = "ran"
  /\ workers' = [workers EXCEPT ![w] = [at |-> "ready", task |-> NoTask]]
  /\ running_task_count' = running_task_count - 1
  /\ UNCHANGED <<pending_tasks, max_worker_id_, live_worker_count,
                 total_tasks_enqueued, client, history>>

WorkerStep(w) ==
  \/ WorkerTakes(w) \/ WorkerWaits(w) \/ WorkerExits(w)
  \/ WorkerStarts(w) \/ WorkerGoesOn(w)

\* A wait may return without a notification.
SpuriousWakeup(w) ==
  /\ Moves(w, "waiting", "ready")
  /\ UNCHANGED <<pending_tasks, counters, client, history>>

-----------------------------------------------------------------------------

Next ==
  \/ \E c \in Client :
       \/ Enqueue(c) \/ Shutdown(c) \/ Reset(c) \/ Destroy(c)
       \/ \E n \in Threads \cup {0} : SetMaxThreads(c, n)
       \/ ClientStep(c)
  \/ \E w \in DOMAIN workers :
       WorkerStep(w) \/ TaskEnds(w) \/ SpuriousWakeup(w)

Spec == Init /\ [][Next]_vars

\* Threads that can go on do, and every task comes to its end.
FairSpec ==
  /\ Spec
  /\ \A c \in Client : WF_vars(ClientStep(c))
  /\ \A w \in Task : WF_vars(WorkerStep(w)) /\ WF_vars(TaskEnds(w))

-----------------------------------------------------------------------------
(* Properties.                                                             *)

Alive == {w \in DOMAIN workers : workers[w].at # "dead"}

\* No task is stranded: while one is pending there is a live worker, whatever
\* sizes were set and however many workers have left, and the counter that
\* enqueue() judges by counts the live workers.
PendingHasWorker ==
  /\ pending_tasks # <<>> => Alive # {}
  /\ live_worker_count = Cardinality(Alive)

\* A task is at one place: pending, with one worker, over or thrown away.
EveryTaskOnce ==
  \A t \in 1..enqueued :
    LET places ==
          {<<"pending", i>> : i \in {j \in DOMAIN pending_tasks :
                                       pending_tasks[j] = t}}
          \cup {<<"worker", w>> : w \in {v \in DOMAIN workers :
                 workers[v].task = t /\ workers[v].at \in {"taken", "running"}}}
          \cup {<<"done", t>> : x \in done \cap {t}}
          \cup {<<"dropped", t>> : x \in dropped \cap {t}}
    IN  Cardinality(places) = 1

\* shutdown() "Blocks until all workers exit, processing all pending tasks".
ShutdownProcessesAll ==
  [][\A c \in Client :
       client[c] = "shutdown" /\ client'[c] = "idle" =>
         1..enqueued \subseteq done /\ Alive = {}]_vars

\* Every task that was enqueued is run in the end, unless the pool is
\* destroyed first, and shutdown() and reset() return.
TasksRun ==
  /\ \A t \in Task : (t <= enqueued) ~> (t \in done \cup dropped)
  /\ \A c \in Client : (client[c] \in {"shutdown", "reset"}) ~> (client[c] = "idle")

\* "Sets the desired number of live workers": there are never made more.
DesiredIsMaximum ==
  [][live_worker_count' > live_worker_count =>
       live_worker_count' <= desired']_vars

\* "Creates a new worker if the number of running tasks plus queued tasks
\* exceeds the number of live workers and capacity exists": when enqueue()
\* returns, no pending task waits behind a running one while there is
\* capacity.
CapacityIsUsed ==
  [][\A c \in Client : Enqueue(c) /\ live_worker_count' < max_worker_id_' =>
       Cardinality({w \in DOMAIN workers' : workers'[w].at \in {"taken", "running"}})
         + Len(pending_tasks') <= live_worker_count']_vars
=============================================================================
