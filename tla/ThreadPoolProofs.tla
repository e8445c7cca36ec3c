-------------------------- MODULE ThreadPoolProofs --------------------------
(***************************************************************************)
(* Proofs about ThreadPool and Jobs, for any number of clients, workers,   *)
(* tasks, sizes asked for and batches.  Of the pool: no task is stranded,  *)
(* every task is at one place, and when shutdown() returns every task has  *)
(* been run.  Of the jobs: no result comes twice or to a program that did  *)
(* not run it, and until the first reset_run() run_count() is the number   *)
(* of jobs whose result has not been given to a loop.                      *)
(*                                                                         *)
(* That no task is stranded is due to the counters: enqueue() decides by   *)
(* them, so they must be the numbers of workers that live and that run a   *)
(* task, whatever happens between the critical sections.  What shutdown()  *)
(* promises follows from that, and from tasks being thrown away at the end *)
(* of the pool only.                                                       *)
(*                                                                         *)
(* The pool makes a task end once, so the result of a job is pushed once;  *)
(* from there on it is in one queue, with the program that has popped it,  *)
(* or yielded.  The count of tasks stops at zero; that it never gets there *)
(* too early follows from what is popped being a job that was run and not  *)
(* yielded yet.                                                            *)
(***************************************************************************)
EXTENDS Jobs, FiniteSetTheorems, SequenceTheorems, TLAPS

RunsTask(w) == workers[w].at \in {"running", "ran"}
HoldsTask(w) == workers[w].at \in {"taken", "running"}
Counted == {w \in DOMAIN workers : RunsTask(w)}

\* The counters are what they are taken for.
CountersAgree ==
  /\ live_worker_count = Cardinality(Alive)
  /\ running_task_count = Cardinality(Counted)

\* There are no more entries than tasks, and a worker that is at a task has one.
Bounded ==
  /\ Len(pending_tasks) <= enqueued
  /\ Len(workers) <= enqueued
  /\ total_tasks_enqueued <= enqueued

NotStranded == pending_tasks # <<>> => Alive # {}

\* No task is twice in the queue, or in it and somewhere else.
PendingApart ==
  \A i \in DOMAIN pending_tasks :
    /\ pending_tasks[i] \in 1..enqueued
    /\ pending_tasks[i] \notin done \cup dropped
    /\ \A j \in DOMAIN pending_tasks :
         j # i => pending_tasks[j] # pending_tasks[i]

\* No task is with two workers, or with one and somewhere else.
HeldApart ==
  \A w \in DOMAIN workers :
    HoldsTask(w) =>
      /\ workers[w].task \in 1..enqueued
      /\ workers[w].task \notin done \cup dropped
      /\ \A i \in DOMAIN pending_tasks : pending_tasks[i] # workers[w].task
      /\ \A v \in DOMAIN workers :
           v # w /\ HoldsTask(v) => workers[v].task # workers[w].task

EndedApart ==
  /\ done \subseteq 1..enqueued /\ dropped \subseteq 1..enqueued
  /\ done \cap dropped = {}

\* No task is lost.
NoneLost ==
  \A t \in 1..enqueued :
    \/ t \in done \cup dropped
    \/ \E i \in DOMAIN pending_tasks : pending_tasks[i] = t
    \/ \E w \in DOMAIN workers : HoldsTask(w) /\ workers[w].task = t

\* Tasks are thrown away by the destructor, and nobody uses the pool after it.
DroppedAtEnd ==
  /\ dropped # {} => \E c \in Client : client[c] = "ended"
  /\ \A c, d \in Client : client[c] = "ended" /\ d # c => client[d] = "idle"

IInv ==
  /\ TypeOK /\ CountersAgree /\ Bounded /\ NotStranded
  /\ PendingApart /\ HeldApart /\ EndedApart /\ NoneLost /\ DroppedAtEnd

-----------------------------------------------------------------------------
(* Workers, and the sets that are counted.                                 *)

\* A thread that runs a task lives, and both are counted by natural numbers.
LEMMA CountsFinite ==
  ASSUME NEW W \in Seq(Worker), NEW A, NEW R,
         A = {w \in DOMAIN W : W[w].at # "dead"},
         R = {w \in DOMAIN W : W[w].at \in {"running", "ran"}}
  PROVE  /\ IsFiniteSet(A) /\ Cardinality(A) \in 0..Len(W)
         /\ IsFiniteSet(R) /\ Cardinality(R) \in 0..Cardinality(A)
  <1>1. Len(W) \in Nat /\ DOMAIN W = 1..Len(W)
    OBVIOUS
  <1>2. IsFiniteSet(1..Len(W)) /\ Cardinality(1..Len(W)) = Len(W)
    BY SMTT(30), <1>1, FS_Interval
  <1>3. A \in SUBSET (1..Len(W)) /\ R \in SUBSET A
    BY <1>1
  <1>4. IsFiniteSet(A) /\ Cardinality(A) <= Len(W)
    BY <1>2, <1>3, FS_Subset
  <1>5. IsFiniteSet(R) /\ Cardinality(R) <= Cardinality(A)
    BY <1>3, <1>4, FS_Subset
  <1>6. Cardinality(A) \in Nat /\ Cardinality(R) \in Nat
    BY <1>4, <1>5, FS_CardinalityType
  <1>7. QED
    BY <1>1, <1>4, <1>5, <1>6

\* The same of the workers there are.
LEMMA AliveFinite ==
  ASSUME TypeOK
  PROVE  /\ IsFiniteSet(Alive) /\ Cardinality(Alive) \in 0..Len(workers)
         /\ IsFiniteSet(Counted) /\ Cardinality(Counted) \in 0..Cardinality(Alive)
  BY CountsFinite DEF TypeOK, Alive, Counted, RunsTask

\* The ranges follow from what the counters count.
LEMMA TypeFollows ==
  ASSUME pending_tasks' \in Seq(Task), workers' \in Seq(Worker),
         max_worker_id_' \in Nat, total_tasks_enqueued' \in Nat,
         client' \in [Client -> {"idle", "notify", "shutdown", "reset", "ended"}],
         enqueued' \in 0..MaxTask, desired' \in Nat,
         done' \subseteq 1..enqueued', dropped' \subseteq 1..enqueued',
         Bounded', CountersAgree'
  PROVE  TypeOK'
  <1>1. MaxTask \in Nat
    BY MaxTaskAssumption
  <1>2. /\ Cardinality(Alive') \in 0..Len(workers')
        /\ Cardinality(Counted') \in 0..Cardinality(Alive')
    BY CountsFinite DEF Alive, Counted, RunsTask
  <1>3. /\ Len(pending_tasks') <= MaxTask /\ Len(workers') <= MaxTask
        /\ total_tasks_enqueued' \in 0..MaxTask
    BY <1>1 DEF Bounded
  <1>4. live_worker_count' \in 0..MaxTask /\ running_task_count' \in 0..live_worker_count'
    BY <1>1, <1>2, <1>3 DEF CountersAgree
  <1>5. 1..enqueued' \subseteq Task
    BY <1>1 DEF Task
  <1>6. QED
    BY <1>3, <1>4, <1>5 DEF TypeOK

\* One worker changes.
LEMMA WorkerBecomes ==
  ASSUME workers \in Seq(Worker), NEW w \in DOMAIN workers, NEW new \in Worker,
         workers' = [workers EXCEPT ![w] = new]
  PROVE  /\ workers' \in Seq(Worker) /\ Len(workers') = Len(workers)
         /\ DOMAIN workers' = DOMAIN workers
         /\ workers'[w] = new
         /\ \A v \in DOMAIN workers : v # w => workers'[v] = workers[v]
  BY ExceptSeq

\* A worker goes on with its task, if it has one.
LEMMA WorkerChanges ==
  ASSUME TypeOK, NEW w, NEW from, NEW to \in {"ready", "waiting", "dead"} \cup Busy,
         Moves(w, from, to)
  PROVE  /\ w \in DOMAIN workers /\ workers[w].at = from
         /\ workers' \in Seq(Worker) /\ Len(workers') = Len(workers)
         /\ DOMAIN workers' = DOMAIN workers
         /\ workers'[w].at = to /\ workers'[w].task = workers[w].task
         /\ \A v \in DOMAIN workers : v # w => workers'[v] = workers[v]
  <1> DEFINE new == [workers[w] EXCEPT !.at = to]
  <1>1. w \in DOMAIN workers /\ workers[w].at = from /\ workers \in Seq(Worker)
    BY DEF Moves, TypeOK
  <1>2. workers[w] \in Worker
    BY <1>1
  <1>3. new \in Worker /\ new.at = to /\ new.task = workers[w].task
    BY <1>2 DEF Worker
  <1>4. workers' = [workers EXCEPT ![w] = new]
    BY DEF Moves
  <1> HIDE DEF new
  <1>5. QED
    BY <1>1, <1>3, <1>4, WorkerBecomes

\* A notification takes workers from waiting to ready.
LEMMA Woken ==
  ASSUME TypeOK, NEW W, W \subseteq At("waiting"), Wake(W)
  PROVE  /\ workers' \in Seq(Worker) /\ Len(workers') = Len(workers)
         /\ DOMAIN workers' = DOMAIN workers
         /\ \A v \in DOMAIN workers :
              /\ workers'[v].task = workers[v].task
              /\ \/ workers'[v].at = workers[v].at
                 \/ workers[v].at = "waiting" /\ workers'[v].at = "ready"
  <1>1. /\ workers \in Seq(Worker)
        /\ Len(workers) \in Nat /\ DOMAIN workers = 1..Len(workers)
    BY DEF TypeOK
  <1>2. \A v \in DOMAIN workers :
          /\ workers[v] \in Worker
          /\ workers'[v] = IF v \in W THEN [workers[v] EXCEPT !.at = "ready"]
                                      ELSE workers[v]
    BY <1>1 DEF Wake
  <1>3. \A v \in DOMAIN workers :
          /\ workers'[v] \in Worker
          /\ workers'[v].task = workers[v].task
          /\ \/ workers'[v].at = workers[v].at
             \/ workers[v].at = "waiting" /\ workers'[v].at = "ready"
    BY <1>2 DEF Worker, At
  <1>4. workers' = [v \in 1..Len(workers) |-> workers'[v]]
    BY <1>1 DEF Wake
  <1>5. workers' \in Seq(Worker) /\ Len(workers') = Len(workers)
    BY <1>1, <1>3, <1>4, IsASeq
  <1>6. QED
    BY <1>1, <1>3, <1>5

-----------------------------------------------------------------------------
(* The steps.                                                              *)

\* Workers wait or are woken, sizes are set, calls begin and return: no task
\* changes its place and no worker comes or goes.
LEMMA SettledStep ==
  ASSUME IInv,
         workers' \in Seq(Worker), Len(workers') = Len(workers),
         DOMAIN workers' = DOMAIN workers,
         \A v \in DOMAIN workers :
           /\ workers'[v].task = workers[v].task
           /\ \/ workers'[v].at = workers[v].at
              \/ /\ workers[v].at \in {"ready", "waiting"}
                 /\ workers'[v].at \in {"ready", "waiting"},
         UNCHANGED <<pending_tasks, live_worker_count, running_task_count,
                     total_tasks_enqueued, enqueued, done, dropped>>,
         max_worker_id_' \in Nat, desired' \in Nat,
         client' \in [Client -> {"idle", "notify", "shutdown", "reset", "ended"}],
         DroppedAtEnd'
  PROVE  IInv'
  <1>1. Alive' = Alive /\ Counted' = Counted
    BY DEF Alive, Counted, RunsTask
  <1>2. CountersAgree'
    BY <1>1 DEF IInv, CountersAgree
  <1>3. Bounded'
    BY DEF IInv, Bounded
  <1>4. NotStranded'
    BY <1>1 DEF IInv, NotStranded
  <1>5. PendingApart' /\ EndedApart'
    BY DEF IInv, PendingApart, EndedApart
  <1>6. HeldApart'
    BY DEF IInv, HeldApart, HoldsTask
  <1>7. NoneLost'
    BY DEF IInv, NoneLost, HoldsTask
  <1>8. TypeOK'
    BY <1>2, <1>3, <1>5, TypeFollows, MaxTaskAssumption DEF IInv, TypeOK, EndedApart
  <1>9. QED
    BY <1>2, <1>3, <1>4, <1>5, <1>6, <1>7, <1>8 DEF IInv

\* A client's step that does not touch the pool keeps what is known of clients.
LEMMA ClientGoes ==
  ASSUME IInv, NEW c \in Client, NEW from,
         NEW to \in {"idle", "notify", "shutdown", "reset"},
         Goes(c, from, to), from \in {"idle", "notify", "shutdown", "reset"},
         Running \/ to = "idle", UNCHANGED dropped
  PROVE  /\ client' \in [Client -> {"idle", "notify", "shutdown", "reset", "ended"}]
         /\ DroppedAtEnd'
  BY DEF IInv, TypeOK, Goes, DroppedAtEnd, Running

LEMMA NotifyStep ==
  ASSUME IInv, NEW c \in Client, Notify(c)
  PROVE  IInv'
  <1>1. /\ client' \in [Client -> {"idle", "notify", "shutdown", "reset", "ended"}]
        /\ DroppedAtEnd'
    BY ClientGoes DEF Notify, history
  <1>2. CASE UNCHANGED workers
    BY <1>1, <1>2, SettledStep DEF Notify, counters, history, IInv, TypeOK
  <1>3. CASE \E w \in At("waiting") : Wake({w})
    <2>1. PICK w \in At("waiting") : Wake({w})
      BY <1>3
    <2>2. /\ workers' \in Seq(Worker) /\ Len(workers') = Len(workers)
          /\ DOMAIN workers' = DOMAIN workers
          /\ \A v \in DOMAIN workers :
               /\ workers'[v].task = workers[v].task
               /\ \/ workers'[v].at = workers[v].at
                  \/ workers[v].at = "waiting" /\ workers'[v].at = "ready"
      BY <2>1, Woken DEF IInv
    <2>3. QED
      BY <1>1, <2>2, SettledStep DEF Notify, counters, history, IInv, TypeOK
  <1>4. QED
    BY <1>2, <1>3 DEF Notify

\* A size is set, or the pool is told to stop.
LEMMA ThresholdStep ==
  ASSUME IInv, max_worker_id_' \in Nat, desired' \in Nat, Wake(At("waiting")),
         UNCHANGED <<pending_tasks, live_worker_count, running_task_count,
                     total_tasks_enqueued, enqueued, done, dropped>>,
         client' \in [Client -> {"idle", "notify", "shutdown", "reset", "ended"}],
         DroppedAtEnd'
  PROVE  IInv'
  <1>1. /\ workers' \in Seq(Worker) /\ Len(workers') = Len(workers)
        /\ DOMAIN workers' = DOMAIN workers
        /\ \A v \in DOMAIN workers :
             /\ workers'[v].task = workers[v].task
             /\ \/ workers'[v].at = workers[v].at
                \/ workers[v].at = "waiting" /\ workers'[v].at = "ready"
    BY Woken DEF IInv
  <1>2. QED
    BY <1>1, SettledStep

LEMMA SetMaxThreadsStep ==
  ASSUME IInv, NEW c \in Client, NEW n \in Threads \cup {0}, SetMaxThreads(c, n)
  PROVE  IInv'
  <1>1. n \in Nat /\ live_worker_count \in 0..Len(workers) /\ Len(workers) \in Nat
    <2>1. live_worker_count \in 0..Len(workers) /\ Len(workers) \in Nat
      BY AliveFinite DEF IInv, CountersAgree, TypeOK
    <2>2. n \in Nat
      BY ThreadsAssumption
    <2>3. QED
      BY <2>1, <2>2
  <1>2. max_worker_id_' \in Nat
    BY <1>1 DEF SetMaxThreads
  <1>3. /\ client' \in [Client -> {"idle", "notify", "shutdown", "reset", "ended"}]
        /\ DroppedAtEnd'
    BY DEF SetMaxThreads, IInv, TypeOK, DroppedAtEnd
  <1>4. QED
    BY <1>1, <1>2, <1>3, ThresholdStep DEF SetMaxThreads

LEMMA ShutdownStep ==
  ASSUME IInv, NEW c \in Client, Shutdown(c) \/ Reset(c)
  PROVE  IInv'
  <1>1. /\ client' \in [Client -> {"idle", "notify", "shutdown", "reset", "ended"}]
        /\ DroppedAtEnd'
    BY DEF Shutdown, Reset, Goes, IInv, TypeOK, DroppedAtEnd
  <1>2. /\ Signal
        /\ UNCHANGED <<pending_tasks, dropped>>
    BY DEF Shutdown, Reset
  <1>3. QED
    BY <1>1, <1>2, ThresholdStep DEF Signal

LEMMA ShutdownReturnsStep ==
  ASSUME IInv, NEW c \in Client, ShutdownReturns(c)
  PROVE  IInv'
  <1>1. /\ client' \in [Client -> {"idle", "notify", "shutdown", "reset", "ended"}]
        /\ DroppedAtEnd'
    BY ClientGoes DEF ShutdownReturns, history
  <1>2. QED
    BY <1>1, SettledStep DEF ShutdownReturns, counters, history, IInv, TypeOK

\* A task is enqueued, and a worker made if that is needed.  When no worker
\* lives it is: none runs a task, and a pool that is not stopped has room.
LEMMA EnqueueStep ==
  ASSUME IInv, NEW c \in Client, Enqueue(c)
  PROVE  IInv'
  <1> DEFINE t == enqueued + 1
             new == [at |-> "ready", task |-> NoTask]
             born == Len(workers) + 1
  <1>1. /\ enqueued \in Nat /\ enqueued' = t /\ t \in Task /\ t \in 0..MaxTask
        /\ 1..t = 1..enqueued \cup {t} /\ t \notin 1..enqueued
        /\ total_tasks_enqueued \in Nat
        /\ total_tasks_enqueued' = total_tasks_enqueued + 1
        /\ UNCHANGED <<max_worker_id_, running_task_count, done, dropped, desired>>
    BY SMTT(30), MaxTaskAssumption DEF Enqueue, IInv, TypeOK, Task
  <1>2. /\ pending_tasks \in Seq(Task) /\ pending_tasks' = Append(pending_tasks, t)
        /\ workers \in Seq(Worker)
    BY DEF Enqueue, IInv, TypeOK
  <1>3. /\ pending_tasks' \in Seq(Task)
        /\ Len(pending_tasks) \in Nat /\ Len(pending_tasks') = Len(pending_tasks) + 1
        /\ pending_tasks'[Len(pending_tasks) + 1] = t
        /\ \A i \in 1..Len(pending_tasks) : pending_tasks'[i] = pending_tasks[i]
        /\ DOMAIN pending_tasks = 1..Len(pending_tasks)
        /\ DOMAIN pending_tasks' = 1..(Len(pending_tasks) + 1)
    BY <1>1, <1>2
  <1>4. /\ client' \in [Client -> {"idle", "notify", "shutdown", "reset", "ended"}]
        /\ DroppedAtEnd'
    BY <1>1, ClientGoes DEF Enqueue
  <1>5. new \in Worker /\ new.at = "ready"
    BY DEF Worker
  <1> HIDE DEF new, t
  \* Whether a worker is made or not, the others stay and it is at no task.
  <1>6. /\ workers' \in Seq(Worker) /\ Len(workers') \in {Len(workers), born}
        /\ \A w \in DOMAIN workers : w \in DOMAIN workers' /\ workers'[w] = workers[w]
        /\ \A w \in DOMAIN workers' : w \notin DOMAIN workers => workers'[w].at = "ready"
        /\ CountersAgree'
        /\ NotStranded'
    <2>1. CASE NeedsWorker
      <3>1. /\ workers' = Append(workers, new)
            /\ live_worker_count' = live_worker_count + 1
        BY <2>1 DEF Enqueue, new
      <3>2. /\ workers' \in Seq(Worker)
            /\ Len(workers) \in Nat /\ Len(workers') = born
            /\ workers'[born] = new
            /\ \A w \in 1..Len(workers) : workers'[w] = workers[w]
            /\ DOMAIN workers = 1..Len(workers) /\ DOMAIN workers' = 1..born
        BY <1>2, <1>5, <3>1
      <3>3. DOMAIN workers' = DOMAIN workers \cup {born} /\ born \notin DOMAIN workers
        BY <3>2
      <3>4. /\ Alive' = Alive \cup {born} /\ born \notin Alive
            /\ Counted' = Counted
        <4> HIDE DEF born
        <4>1. QED
          BY <1>5, <3>2, <3>3 DEF Alive, Counted, RunsTask
      <3>5. Cardinality(Alive') = Cardinality(Alive) + 1
        BY <3>4, AliveFinite, FS_AddElement DEF IInv
      <3>6. QED
        BY <1>1, <1>5, <3>1, <3>2, <3>3, <3>4, <3>5
        DEF IInv, CountersAgree, NotStranded
    <2>2. CASE ~NeedsWorker
      <3>1. UNCHANGED <<workers, live_worker_count>>
        BY <2>2 DEF Enqueue
      <3>2. Alive' = Alive /\ Counted' = Counted
        BY <3>1 DEF Alive, Counted, RunsTask
      <3>3. Alive # {}
        <4>1. SUFFICES ASSUME Alive = {} PROVE FALSE
          OBVIOUS
        <4>2. live_worker_count = 0 /\ running_task_count = 0
          <5>1. Cardinality(Alive) = 0
            BY <4>1, FS_EmptySet
          <5>2. Cardinality(Counted) = 0
            BY <5>1, AliveFinite DEF IInv
          <5>3. QED
            BY <5>1, <5>2 DEF IInv, CountersAgree
        <4>3. max_worker_id_ > 0
          BY <4>2 DEF Enqueue, Stopped, IInv, TypeOK
        <4>4. NeedsWorker
          BY <1>3, <4>2, <4>3 DEF NeedsWorker
        <4>5. QED
          BY <2>2, <4>4
      <3>4. QED
        BY <1>1, <1>2, <3>1, <3>2, <3>3 DEF IInv, CountersAgree, NotStranded
    <2>3. QED
      BY <2>1, <2>2
  <1>7. Bounded'
    BY <1>1, <1>2, <1>3, <1>6 DEF IInv, Bounded
  <1>8. PendingApart'
    BY SMTT(30), <1>1, <1>3 DEF IInv, PendingApart, EndedApart
  <1>9. EndedApart'
    BY <1>1 DEF IInv, EndedApart
  <1>10. HeldApart'
    BY SMTT(30), <1>1, <1>3, <1>6 DEF IInv, HeldApart, HoldsTask
  <1>11. NoneLost'
    <2>1. ASSUME NEW u \in 1..enqueued, u \notin done \cup dropped
          PROVE  \/ \E i \in DOMAIN pending_tasks' : pending_tasks'[i] = u
                 \/ \E w \in DOMAIN workers' :
                      HoldsTask(w)' /\ workers'[w].task = u
      <3>1. CASE \E i \in DOMAIN pending_tasks : pending_tasks[i] = u
        BY <1>3, <3>1
      <3>2. CASE \E w \in DOMAIN workers : HoldsTask(w) /\ workers[w].task = u
        BY <1>6, <3>2 DEF HoldsTask
      <3>3. QED
        BY <2>1, <3>1, <3>2 DEF IInv, NoneLost
    <2>2. \E i \in DOMAIN pending_tasks' : pending_tasks'[i] = t
      BY <1>3
    <2>3. QED
      BY <1>1, <2>1, <2>2 DEF NoneLost
  <1>12. TypeOK'
    BY <1>1, <1>3, <1>4, <1>6, <1>7, <1>9, TypeFollows
    DEF IInv, TypeOK, EndedApart
  <1>13. QED
    BY <1>4, <1>6, <1>7, <1>8, <1>9, <1>10, <1>11, <1>12 DEF IInv

\* A pool whose workers have left has no task in the queue: what reset() makes
\* anew is empty already.
LEMMA ResetReturnsStep ==
  ASSUME IInv, NEW c \in Client, NEW n \in Threads, ResetReturns(c, n)
  PROVE  IInv'
  <1>1. Alive = {} /\ pending_tasks = <<>>
    BY DEF ResetReturns, Joined, Alive, IInv, NotStranded
  <1>2. /\ pending_tasks' = <<>> /\ workers' = <<>>
        /\ max_worker_id_' = n /\ desired' = n
        /\ live_worker_count' = 0 /\ running_task_count' = 0
        /\ total_tasks_enqueued' = 0
        /\ UNCHANGED <<enqueued, done, dropped>>
    BY DEF ResetReturns
  <1>3. /\ Len(pending_tasks') = 0 /\ DOMAIN pending_tasks' = {}
        /\ Len(workers') = 0 /\ DOMAIN workers' = {}
        /\ pending_tasks' \in Seq(Task) /\ workers' \in Seq(Worker)
    BY <1>2
  <1>4. Alive' = {} /\ Counted' = {}
    BY <1>3 DEF Alive, Counted
  <1>5. CountersAgree'
    BY <1>2, <1>4, FS_EmptySet DEF CountersAgree
  <1>6. Bounded' /\ EndedApart'
    BY <1>2, <1>3 DEF IInv, TypeOK, Bounded, EndedApart
  <1>7. NotStranded' /\ PendingApart' /\ HeldApart'
    BY <1>2, <1>3 DEF NotStranded, PendingApart, HeldApart
  <1>8. NoneLost'
    <2>1. \A w \in DOMAIN workers : ~HoldsTask(w)
      BY <1>1 DEF Alive, HoldsTask
    <2>2. DOMAIN pending_tasks = {}
      BY <1>1
    <2>3. QED
      BY <1>2, <2>1, <2>2 DEF IInv, NoneLost
  <1>9. /\ client' \in [Client -> {"idle", "notify", "shutdown", "reset", "ended"}]
        /\ DroppedAtEnd'
    BY ClientGoes DEF ResetReturns
  <1>10. TypeOK'
    BY <1>2, <1>3, <1>5, <1>6, <1>9, TypeFollows, ThreadsAssumption
    DEF IInv, TypeOK, EndedApart
  <1>11. QED
    BY <1>5, <1>6, <1>7, <1>8, <1>9, <1>10 DEF IInv

\* What is thrown away is what was in the queue.
LEMMA DestroyStep ==
  ASSUME IInv, NEW c \in Client, Destroy(c)
  PROVE  IInv'
  <1>1. /\ pending_tasks' = <<>> /\ desired' = 0 /\ max_worker_id_' = 0
        /\ dropped' = dropped \cup {pending_tasks[i] : i \in DOMAIN pending_tasks}
        /\ Wake(At("waiting"))
        /\ UNCHANGED <<live_worker_count, running_task_count,
                       total_tasks_enqueued, enqueued, done>>
    BY DEF Destroy, Signal
  <1>2. /\ workers' \in Seq(Worker) /\ Len(workers') = Len(workers)
        /\ DOMAIN workers' = DOMAIN workers
        /\ \A v \in DOMAIN workers :
             /\ workers'[v].task = workers[v].task
             /\ \/ workers'[v].at = workers[v].at
                \/ workers[v].at = "waiting" /\ workers'[v].at = "ready"
    BY <1>1, Woken DEF IInv
  <1>3. /\ pending_tasks' \in Seq(Task) /\ Len(pending_tasks') = 0
        /\ DOMAIN pending_tasks' = {}
    BY <1>1
  <1>4. Alive' = Alive /\ Counted' = Counted
    BY <1>2 DEF Alive, Counted, RunsTask
  <1>5. CountersAgree' /\ Bounded'
    BY <1>1, <1>2, <1>3, <1>4 DEF IInv, TypeOK, CountersAgree, Bounded
  <1>6. NotStranded' /\ PendingApart'
    BY <1>1, <1>3 DEF NotStranded, PendingApart
  <1>7. EndedApart'
    BY <1>1 DEF IInv, PendingApart, EndedApart
  <1>8. HeldApart'
    BY <1>1, <1>2, <1>3 DEF IInv, HeldApart, HoldsTask
  <1>9. NoneLost'
    BY <1>1, <1>2 DEF IInv, NoneLost, HoldsTask
  <1>10. /\ client' \in [Client -> {"idle", "notify", "shutdown", "reset", "ended"}]
         /\ DroppedAtEnd'
    <2>1. /\ client' = [client EXCEPT ![c] = "ended"]
          /\ \A d \in Client : client[d] = "idle"
      BY DEF Destroy, Goes
    <2>2. QED
      BY <2>1 DEF IInv, TypeOK, DroppedAtEnd
  <1>11. TypeOK'
    BY <1>1, <1>2, <1>3, <1>5, <1>7, <1>10, TypeFollows, MaxTaskAssumption
    DEF IInv, TypeOK, EndedApart
  <1>12. QED
    BY <1>5, <1>6, <1>7, <1>8, <1>9, <1>10, <1>11 DEF IInv

\* The first task goes from the queue to a worker.
LEMMA WorkerTakesStep ==
  ASSUME IInv, NEW w \in DOMAIN workers, WorkerTakes(w)
  PROVE  IInv'
  <1> DEFINE t == Head(pending_tasks)
             new == [at |-> "taken", task |-> t]
             n == Len(pending_tasks)
  <1>1. /\ workers[w].at = "ready" /\ workers \in Seq(Worker)
        /\ pending_tasks \in Seq(Task) /\ pending_tasks # <<>>
        /\ pending_tasks' = Tail(pending_tasks)
        /\ workers' = [workers EXCEPT ![w] = new]
        /\ UNCHANGED <<counters, client, history>>
    BY DEF WorkerTakes, IInv, TypeOK
  <1>2. /\ t \in Task /\ t = pending_tasks[1] /\ n \in Nat \ {0}
        /\ pending_tasks' \in Seq(Task) /\ Len(pending_tasks') = n - 1
        /\ DOMAIN pending_tasks = 1..n /\ DOMAIN pending_tasks' = 1..(n - 1)
        /\ \A i \in 1..(n - 1) : pending_tasks'[i] = pending_tasks[i + 1]
    BY <1>1
  <1>3. new \in Worker /\ new.at = "taken" /\ new.task = t
    BY <1>2 DEF Worker, Busy
  <1> HIDE DEF new, t
  <1>4. /\ workers' \in Seq(Worker) /\ Len(workers') = Len(workers)
        /\ DOMAIN workers' = DOMAIN workers
        /\ workers'[w].at = "taken" /\ workers'[w].task = t
        /\ \A v \in DOMAIN workers : v # w => workers'[v] = workers[v]
    BY <1>1, <1>3, WorkerBecomes
  <1>5. UNCHANGED <<max_worker_id_, live_worker_count, running_task_count,
                    total_tasks_enqueued, client, enqueued, done, dropped, desired>>
    BY <1>1 DEF counters, history
  <1>6. Alive' = Alive /\ Counted' = Counted /\ w \in Alive
    BY <1>1, <1>4 DEF Alive, Counted, RunsTask
  <1>7. CountersAgree' /\ NotStranded'
    BY <1>5, <1>6 DEF IInv, CountersAgree, NotStranded
  <1>8. Bounded'
    BY <1>2, <1>4, <1>5 DEF IInv, TypeOK, Bounded
  <1>9. /\ t \in 1..enqueued /\ t \notin done \cup dropped
        /\ \A i \in 1..(n - 1) : pending_tasks'[i] # t
        /\ \A v \in DOMAIN workers : HoldsTask(v) => workers[v].task # t
    <2>1. 1 \in DOMAIN pending_tasks
      BY <1>2
    <2>2. \A i \in 1..(n - 1) : i + 1 \in DOMAIN pending_tasks /\ i + 1 # 1
      BY <1>2
    <2>3. /\ t \in 1..enqueued /\ t \notin done \cup dropped
          /\ \A i \in DOMAIN pending_tasks : i # 1 => pending_tasks[i] # t
      BY <1>2, <2>1 DEF IInv, PendingApart
    <2>4. \A v \in DOMAIN workers : HoldsTask(v) => workers[v].task # t
      BY <1>2, <2>1 DEF IInv, HeldApart
    <2>5. \A i \in 1..(n - 1) : pending_tasks'[i] # t
      BY <1>2, <2>2, <2>3
    <2>6. QED
      BY <2>3, <2>4, <2>5
  <1>10. PendingApart' /\ EndedApart' /\ DroppedAtEnd'
    <2>1. EndedApart' /\ DroppedAtEnd'
      BY <1>5 DEF IInv, EndedApart, DroppedAtEnd
    <2>2. \A i \in 1..(n - 1) :
            i + 1 \in DOMAIN pending_tasks /\ pending_tasks'[i] = pending_tasks[i + 1]
      BY <1>2
    <2>3. \A i, j \in 1..(n - 1) : i # j => i + 1 # j + 1
      BY <1>2
    <2>4. ASSUME NEW i \in 1..(n - 1)
          PROVE  /\ pending_tasks'[i] \in 1..enqueued
                 /\ pending_tasks'[i] \notin done \cup dropped
                 /\ \A j \in 1..(n - 1) :
                      j # i => pending_tasks'[j] # pending_tasks'[i]
      <3> HIDE DEF n
      <3>1. QED
        BY <2>2, <2>3 DEF IInv, PendingApart
    <2>5. PendingApart'
      <3> HIDE DEF n
      <3>1. QED
        BY <1>2, <1>5, <2>4 DEF PendingApart
    <2>6. QED
      BY <2>1, <2>5
  <1>11. HeldApart'
    <2>1. ASSUME NEW v \in DOMAIN workers, HoldsTask(v)'
          PROVE  /\ workers'[v].task \in 1..enqueued
                 /\ workers'[v].task \notin done \cup dropped
                 /\ \A i \in DOMAIN pending_tasks' :
                      pending_tasks'[i] # workers'[v].task
      <3>1. CASE v = w
        BY <1>2, <1>4, <1>9, <3>1
      <3>2. CASE v # w
        <4>1. HoldsTask(v) /\ workers'[v].task = workers[v].task
          BY <1>4, <2>1, <3>2 DEF HoldsTask
        <4>2. \A i \in 1..(n - 1) :
                i + 1 \in DOMAIN pending_tasks
                /\ pending_tasks'[i] = pending_tasks[i + 1]
          BY <1>2
        <4>3. QED
          BY SMTT(30), <1>2, <4>1, <4>2 DEF IInv, HeldApart
      <3>3. QED
        BY <3>1, <3>2
    <2>2. ASSUME NEW v \in DOMAIN workers, NEW u \in DOMAIN workers, u # v,
                 HoldsTask(v)', HoldsTask(u)'
          PROVE  workers'[u].task # workers'[v].task
      BY SMTT(30), <1>4, <1>9, <2>2 DEF IInv, HeldApart, HoldsTask
    <2>3. QED
      BY <1>4, <1>5, <2>1, <2>2 DEF HeldApart
  <1>12. NoneLost'
    <2>1. ASSUME NEW u \in 1..enqueued, u \notin done \cup dropped
          PROVE  \/ \E i \in DOMAIN pending_tasks' : pending_tasks'[i] = u
                 \/ \E v \in DOMAIN workers' :
                      HoldsTask(v)' /\ workers'[v].task = u
      <3>1. CASE u = t
        BY <1>4, <3>1 DEF HoldsTask
      <3>2. CASE \E i \in DOMAIN pending_tasks : pending_tasks[i] = u /\ u # t
        <4>1. PICK i \in DOMAIN pending_tasks : pending_tasks[i] = u /\ u # t
          BY <3>2
        <4>2. i - 1 \in 1..(n - 1) /\ pending_tasks'[i - 1] = u
          BY <1>2, <4>1
        <4>3. QED
          BY <1>2, <4>2
      <3>3. CASE \E v \in DOMAIN workers : HoldsTask(v) /\ workers[v].task = u
        BY <1>1, <1>4, <3>3 DEF HoldsTask
      <3>4. QED
        BY <2>1, <3>1, <3>2, <3>3 DEF IInv, NoneLost
    <2>2. QED
      BY <1>5, <2>1 DEF NoneLost
  <1>13. TypeOK'
    BY <1>2, <1>4, <1>5, <1>7, <1>8, <1>10, TypeFollows, MaxTaskAssumption
    DEF IInv, TypeOK, EndedApart
  <1>14. QED
    BY <1>7, <1>8, <1>10, <1>11, <1>12, <1>13 DEF IInv

LEMMA WorkerWaitsStep ==
  ASSUME IInv, NEW w \in DOMAIN workers, WorkerWaits(w) \/ SpuriousWakeup(w)
  PROVE  IInv'
  <1>1. Moves(w, "ready", "waiting") \/ Moves(w, "waiting", "ready")
    BY DEF WorkerWaits, SpuriousWakeup
  <1>2. UNCHANGED <<pending_tasks, counters, client, history>>
    BY DEF WorkerWaits, SpuriousWakeup
  <1>3. /\ workers' \in Seq(Worker) /\ Len(workers') = Len(workers)
        /\ DOMAIN workers' = DOMAIN workers
        /\ \A v \in DOMAIN workers :
             /\ workers'[v].task = workers[v].task
             /\ \/ workers'[v].at = workers[v].at
                \/ /\ workers[v].at \in {"ready", "waiting"}
                   /\ workers'[v].at \in {"ready", "waiting"}
    <2>1. CASE Moves(w, "ready", "waiting")
      BY <2>1, WorkerChanges DEF IInv
    <2>2. CASE Moves(w, "waiting", "ready")
      BY <2>2, WorkerChanges DEF IInv
    <2>3. QED
      BY <1>1, <2>1, <2>2
  <1>4. QED
    BY <1>2, <1>3, SettledStep DEF counters, history, IInv, TypeOK, DroppedAtEnd

\* A worker leaves when there is nothing in the queue, and is no longer
\* counted.
LEMMA WorkerExitsStep ==
  ASSUME IInv, NEW w \in DOMAIN workers, WorkerExits(w)
  PROVE  IInv'
  <1>1. /\ pending_tasks = <<>> /\ Moves(w, "ready", "dead")
        /\ live_worker_count' = live_worker_count - 1
        /\ UNCHANGED <<pending_tasks, max_worker_id_, running_task_count,
                       total_tasks_enqueued, client, enqueued, done, dropped,
                       desired>>
    BY DEF WorkerExits, history
  <1>2. /\ workers[w].at = "ready"
        /\ workers' \in Seq(Worker) /\ Len(workers') = Len(workers)
        /\ DOMAIN workers' = DOMAIN workers
        /\ workers'[w].at = "dead" /\ workers'[w].task = workers[w].task
        /\ \A v \in DOMAIN workers : v # w => workers'[v] = workers[v]
    BY <1>1, WorkerChanges DEF IInv
  <1>3. Alive' = Alive \ {w} /\ w \in Alive /\ Counted' = Counted
    BY <1>2 DEF Alive, Counted, RunsTask
  <1>4. Cardinality(Alive') = Cardinality(Alive) - 1
    BY <1>3, AliveFinite, FS_RemoveElement DEF IInv
  <1>5. CountersAgree' /\ NotStranded'
    BY <1>1, <1>3, <1>4 DEF IInv, CountersAgree, NotStranded
  <1>6. Bounded' /\ PendingApart' /\ EndedApart' /\ DroppedAtEnd'
    BY <1>1, <1>2 DEF IInv, Bounded, PendingApart, EndedApart, DroppedAtEnd
  <1>7. HeldApart'
    BY <1>1, <1>2 DEF IInv, HeldApart, HoldsTask
  <1>8. NoneLost'
    BY <1>1, <1>2 DEF IInv, NoneLost, HoldsTask
  <1>9. TypeOK'
    BY <1>1, <1>2, <1>5, <1>6, TypeFollows DEF IInv, TypeOK, EndedApart
  <1>10. QED
    BY <1>5, <1>6, <1>7, <1>8, <1>9 DEF IInv

\* A task is counted as running after it was taken.
LEMMA WorkerStartsStep ==
  ASSUME IInv, NEW w \in DOMAIN workers, WorkerStarts(w)
  PROVE  IInv'
  <1>1. /\ Moves(w, "taken", "running")
        /\ running_task_count' = running_task_count + 1
        /\ UNCHANGED <<pending_tasks, max_worker_id_, live_worker_count,
                       total_tasks_enqueued, client, enqueued, done, dropped,
                       desired>>
    BY DEF WorkerStarts, history
  <1>2. /\ workers[w].at = "taken"
        /\ workers' \in Seq(Worker) /\ Len(workers') = Len(workers)
        /\ DOMAIN workers' = DOMAIN workers
        /\ workers'[w].at = "running" /\ workers'[w].task = workers[w].task
        /\ \A v \in DOMAIN workers : v # w => workers'[v] = workers[v]
    BY <1>1, WorkerChanges DEF IInv, Busy
  <1>3. Alive' = Alive /\ Counted' = Counted \cup {w} /\ w \notin Counted
    BY <1>2 DEF Alive, Counted, RunsTask
  <1>4. Cardinality(Counted') = Cardinality(Counted) + 1
    BY <1>3, AliveFinite, FS_AddElement DEF IInv
  <1>5. CountersAgree' /\ NotStranded'
    BY <1>1, <1>3, <1>4 DEF IInv, CountersAgree, NotStranded
  <1>6. Bounded' /\ PendingApart' /\ EndedApart' /\ DroppedAtEnd'
    BY <1>1, <1>2 DEF IInv, Bounded, PendingApart, EndedApart, DroppedAtEnd
  <1>7. HeldApart'
    BY <1>1, <1>2 DEF IInv, HeldApart, HoldsTask
  <1>8. NoneLost'
    BY <1>1, <1>2 DEF IInv, NoneLost, HoldsTask
  <1>9. TypeOK'
    BY <1>1, <1>2, <1>5, <1>6, TypeFollows DEF IInv, TypeOK, EndedApart
  <1>10. QED
    BY <1>5, <1>6, <1>7, <1>8, <1>9 DEF IInv

\* A task is over.
LEMMA TaskEndsStep ==
  ASSUME IInv, NEW w \in DOMAIN workers, TaskEnds(w)
  PROVE  IInv'
  <1> DEFINE t == workers[w].task
  <1>1. /\ Moves(w, "running", "ran")
        /\ done' = done \cup {t}
        /\ UNCHANGED <<pending_tasks, max_worker_id_, live_worker_count,
                       running_task_count, total_tasks_enqueued, client, enqueued,
                       dropped, desired>>
    BY DEF TaskEnds, counters
  <1>2. /\ workers[w].at = "running"
        /\ workers' \in Seq(Worker) /\ Len(workers') = Len(workers)
        /\ DOMAIN workers' = DOMAIN workers
        /\ workers'[w].at = "ran" /\ workers'[w].task = t
        /\ \A v \in DOMAIN workers : v # w => workers'[v] = workers[v]
    BY <1>1, WorkerChanges DEF IInv, Busy
  <1>3. Alive' = Alive /\ Counted' = Counted
    BY <1>2 DEF Alive, Counted, RunsTask
  <1>4. /\ t \in 1..enqueued /\ t \notin dropped
        /\ \A i \in DOMAIN pending_tasks : pending_tasks[i] # t
        /\ \A v \in DOMAIN workers : v # w /\ HoldsTask(v) => workers[v].task # t
    BY <1>2 DEF IInv, HeldApart, HoldsTask
  <1>5. CountersAgree' /\ NotStranded'
    BY <1>1, <1>3 DEF IInv, CountersAgree, NotStranded
  <1>6. Bounded' /\ PendingApart' /\ EndedApart' /\ DroppedAtEnd'
    BY <1>1, <1>2, <1>4
    DEF IInv, Bounded, PendingApart, EndedApart, DroppedAtEnd
  <1>7. HeldApart'
    BY SMTT(30), <1>1, <1>2, <1>4 DEF IInv, HeldApart, HoldsTask
  <1>8. NoneLost'
    BY <1>1, <1>2 DEF IInv, NoneLost, HoldsTask
  <1>9. TypeOK'
    BY <1>1, <1>2, <1>5, <1>6, TypeFollows DEF IInv, TypeOK, EndedApart
  <1>10. QED
    BY <1>5, <1>6, <1>7, <1>8, <1>9 DEF IInv

\* The worker is no longer counted as running a task.
LEMMA WorkerGoesOnStep ==
  ASSUME IInv, NEW w \in DOMAIN workers, WorkerGoesOn(w)
  PROVE  IInv'
  <1> DEFINE new == [at |-> "ready", task |-> NoTask]
  <1>1. /\ workers[w].at = "ran" /\ workers \in Seq(Worker)
        /\ workers' = [workers EXCEPT ![w] = new]
        /\ running_task_count' = running_task_count - 1
        /\ UNCHANGED <<pending_tasks, max_worker_id_, live_worker_count,
                       total_tasks_enqueued, client, enqueued, done, dropped,
                       desired>>
    BY DEF WorkerGoesOn, history, IInv, TypeOK
  <1>2. new \in Worker /\ new.at = "ready"
    BY DEF Worker
  <1> HIDE DEF new
  <1>3. /\ workers' \in Seq(Worker) /\ Len(workers') = Len(workers)
        /\ DOMAIN workers' = DOMAIN workers
        /\ workers'[w].at = "ready"
        /\ \A v \in DOMAIN workers : v # w => workers'[v] = workers[v]
    BY <1>1, <1>2, WorkerBecomes
  <1>4. Alive' = Alive /\ Counted' = Counted \ {w} /\ w \in Counted
    BY <1>1, <1>3 DEF Alive, Counted, RunsTask
  <1>5. Cardinality(Counted') = Cardinality(Counted) - 1
    BY <1>4, AliveFinite, FS_RemoveElement DEF IInv
  <1>6. CountersAgree' /\ NotStranded'
    BY <1>1, <1>4, <1>5 DEF IInv, CountersAgree, NotStranded
  <1>7. Bounded' /\ PendingApart' /\ EndedApart' /\ DroppedAtEnd'
    BY <1>1, <1>3 DEF IInv, Bounded, PendingApart, EndedApart, DroppedAtEnd
  <1>8. HeldApart'
    BY <1>1, <1>3 DEF IInv, HeldApart, HoldsTask
  <1>9. NoneLost'
    BY <1>1, <1>3 DEF IInv, NoneLost, HoldsTask
  <1>10. TypeOK'
    BY <1>1, <1>3, <1>6, <1>7, TypeFollows DEF IInv, TypeOK, EndedApart
  <1>11. QED
    BY <1>6, <1>7, <1>8, <1>9, <1>10 DEF IInv

-----------------------------------------------------------------------------
(* The theorems.                                                           *)

\* There is no task and no worker.
LEMMA InitIInv ==
  ASSUME Init
  PROVE  IInv
  <1>1. /\ Alive = {} /\ Counted = {}
        /\ Len(pending_tasks) = 0 /\ DOMAIN pending_tasks = {}
        /\ Len(workers) = 0 /\ DOMAIN workers = {}
    BY DEF Init, Alive, Counted
  <1>2. TypeOK
    BY <1>1, ThreadsAssumption, MaxTaskAssumption DEF Init, TypeOK
  <1>3. CountersAgree
    BY <1>1, FS_EmptySet DEF Init, CountersAgree
  <1>4. Bounded /\ NotStranded /\ PendingApart /\ HeldApart
    BY <1>1 DEF Init, Bounded, NotStranded, PendingApart, HeldApart
  <1>5. EndedApart /\ NoneLost /\ DroppedAtEnd
    BY DEF Init, EndedApart, NoneLost, DroppedAtEnd
  <1>6. QED
    BY <1>2, <1>3, <1>4, <1>5 DEF IInv

\* Every critical section keeps the counters and the places of the tasks.
LEMMA NextIInv ==
  ASSUME IInv, [Next]_vars
  PROVE  IInv'
  <1>1. ASSUME NEW c \in Client,
               \/ Enqueue(c) \/ Shutdown(c) \/ Reset(c) \/ Destroy(c)
               \/ \E n \in Threads \cup {0} : SetMaxThreads(c, n)
               \/ ClientStep(c)
        PROVE  IInv'
    <2>1. CASE Enqueue(c)
      BY <2>1, EnqueueStep
    <2>2. CASE Shutdown(c) \/ Reset(c)
      BY <2>2, ShutdownStep
    <2>3. CASE Destroy(c)
      BY <2>3, DestroyStep
    <2>4. CASE \E n \in Threads \cup {0} : SetMaxThreads(c, n)
      BY <2>4, SetMaxThreadsStep
    <2>5. CASE Notify(c)
      BY <2>5, NotifyStep
    <2>6. CASE ShutdownReturns(c)
      BY <2>6, ShutdownReturnsStep
    <2>7. CASE \E n \in Threads : ResetReturns(c, n)
      BY <2>7, ResetReturnsStep
    <2>8. QED
      BY <1>1, <2>1, <2>2, <2>3, <2>4, <2>5, <2>6, <2>7 DEF ClientStep
  <1>2. ASSUME NEW w \in DOMAIN workers,
               WorkerStep(w) \/ TaskEnds(w) \/ SpuriousWakeup(w)
        PROVE  IInv'
    <2>1. CASE WorkerTakes(w)
      BY <2>1, WorkerTakesStep
    <2>2. CASE WorkerWaits(w) \/ SpuriousWakeup(w)
      BY <2>2, WorkerWaitsStep
    <2>3. CASE WorkerExits(w)
      BY <2>3, WorkerExitsStep
    <2>4. CASE WorkerStarts(w)
      BY <2>4, WorkerStartsStep
    <2>5. CASE TaskEnds(w)
      BY <2>5, TaskEndsStep
    <2>6. CASE WorkerGoesOn(w)
      BY <2>6, WorkerGoesOnStep
    <2>7. QED
      BY <1>2, <2>1, <2>2, <2>3, <2>4, <2>5, <2>6 DEF WorkerStep
  <1>3. CASE UNCHANGED vars
    <2>1. /\ UNCHANGED <<pending_tasks, workers, max_worker_id_, live_worker_count,
                         running_task_count, total_tasks_enqueued, client,
                         enqueued, done, dropped, desired>>
      BY <1>3 DEF vars, counters, history
    <2>2. QED
      BY <2>1, SettledStep DEF IInv, TypeOK, DroppedAtEnd
  <1>4. QED
    BY <1>1, <1>2, <1>3 DEF Next

\* The counters and the places of the tasks are right throughout.
THEOREM PoolInvariant == Spec => []IInv
  <1>1. Init => IInv
    BY InitIInv
  <1>2. IInv /\ [Next]_vars => IInv'
    BY NextIInv
  <1>3. QED
    BY <1>1, <1>2, PTL DEF Spec

\* The variables stay in their ranges: neither counter goes below zero, nor
\* more workers run a task than live.
THEOREM TypeCorrect == Spec => []TypeOK
  <1>1. IInv => TypeOK
    BY DEF IInv
  <1>2. QED
    BY <1>1, PoolInvariant, PTL

\* While a task is pending a worker lives, and the counter of live workers
\* that enqueue() judges by is right.
THEOREM NoTaskStranded == Spec => []PendingHasWorker
  <1>1. IInv => PendingHasWorker
    BY DEF IInv, CountersAgree, NotStranded, PendingHasWorker
  <1>2. QED
    BY <1>1, PoolInvariant, PTL

LEMMA TaskIsOnce ==
  IInv => EveryTaskOnce
  <1> SUFFICES ASSUME IInv, NEW t \in 1..enqueued
               PROVE  LET places ==
                            {<<"pending", i>> : i \in {j \in DOMAIN pending_tasks :
                                                         pending_tasks[j] = t}}
                            \cup {<<"worker", w>> : w \in {v \in DOMAIN workers :
                                    workers[v].task = t
                                    /\ workers[v].at \in {"taken", "running"}}}
                            \cup {<<"done", t>> : x \in done \cap {t}}
                            \cup {<<"dropped", t>> : x \in dropped \cap {t}}
                      IN  Cardinality(places) = 1
    BY DEF EveryTaskOnce
  <1> DEFINE queue == {j \in DOMAIN pending_tasks : pending_tasks[j] = t}
             hands == {v \in DOMAIN workers :
                         workers[v].task = t
                         /\ workers[v].at \in {"taken", "running"}}
             places == {<<"pending", i>> : i \in queue}
                       \cup {<<"worker", w>> : w \in hands}
                       \cup {<<"done", t>> : x \in done \cap {t}}
                       \cup {<<"dropped", t>> : x \in dropped \cap {t}}
  <1>1. \E p : places = {p}
    <2>1. CASE t \in done
      <3>1. t \notin dropped /\ queue = {} /\ hands = {}
        BY <2>1 DEF IInv, EndedApart, PendingApart, HeldApart, HoldsTask
      <3>2. places = {<<"done", t>>}
        <4> HIDE DEF queue, hands
        <4>1. QED
          BY <2>1, <3>1
      <3>3. QED
        BY <3>2
    <2>2. CASE t \in dropped
      <3>1. t \notin done /\ queue = {} /\ hands = {}
        BY <2>2 DEF IInv, EndedApart, PendingApart, HeldApart, HoldsTask
      <3>2. places = {<<"dropped", t>>}
        <4> HIDE DEF queue, hands
        <4>1. QED
          BY <2>2, <3>1
      <3>3. QED
        BY <3>2
    <2>3. CASE \E i \in DOMAIN pending_tasks : pending_tasks[i] = t
      <3>1. PICK i \in DOMAIN pending_tasks : pending_tasks[i] = t
        BY <2>3
      <3>2. t \notin done /\ t \notin dropped /\ queue = {i} /\ hands = {}
        BY <3>1 DEF IInv, PendingApart, HeldApart, HoldsTask
      <3>3. places = {<<"pending", i>>}
        <4> HIDE DEF queue, hands
        <4>1. QED
          BY <3>2
      <3>4. QED
        BY <3>3
    <2>4. CASE \E w \in DOMAIN workers : HoldsTask(w) /\ workers[w].task = t
      <3>1. PICK w \in DOMAIN workers : HoldsTask(w) /\ workers[w].task = t
        BY <2>4
      <3>2. t \notin done /\ t \notin dropped /\ queue = {} /\ hands = {w}
        BY <3>1 DEF IInv, HeldApart, HoldsTask
      <3>3. places = {<<"worker", w>>}
        <4> HIDE DEF queue, hands
        <4>1. QED
          BY <3>2
      <3>4. QED
        BY <3>3
    <2>5. QED
      BY <2>1, <2>2, <2>3, <2>4 DEF IInv, NoneLost
  <1> HIDE DEF places
  <1>2. Cardinality(places) = 1
    BY <1>1, FS_Singleton
  <1>3. QED
    BY <1>2 DEF places

\* Every task is pending, with one worker, over or thrown away: one of them,
\* once.
THEOREM TasksAreOnce == Spec => []EveryTaskOnce
  BY TaskIsOnce, PoolInvariant, PTL

LEMMA ShutdownStepRuns ==
  IInv /\ [Next]_vars =>
    \A c \in Client :
      client[c] = "shutdown" /\ client'[c] = "idle" =>
        1..enqueued \subseteq done /\ Alive = {}
  <1> SUFFICES ASSUME IInv, [Next]_vars, NEW c \in Client,
                      client[c] = "shutdown", client'[c] = "idle"
               PROVE  1..enqueued \subseteq done /\ Alive = {}
    OBVIOUS
  <1>1. ShutdownReturns(c)
    <2>1. CASE \E w \in DOMAIN workers :
                 WorkerStep(w) \/ TaskEnds(w) \/ SpuriousWakeup(w)
      <3>1. UNCHANGED client
        BY <2>1
        DEF WorkerStep, WorkerTakes, WorkerWaits, WorkerExits, WorkerStarts,
            WorkerGoesOn, TaskEnds, SpuriousWakeup
      <3>2. QED
        BY <3>1
    <2>2. ASSUME NEW d \in Client, NEW from, NEW to, Goes(d, from, to),
                 from = "shutdown" => ShutdownReturns(d)
          PROVE  ShutdownReturns(c)
      <3>1. d = c
        BY <2>2 DEF Goes, IInv, TypeOK
      <3>2. QED
        BY <2>2, <3>1 DEF Goes
    <2>3. CASE \E d \in Client :
                 \/ Enqueue(d) \/ Shutdown(d) \/ Reset(d) \/ Destroy(d)
                 \/ \E n \in Threads \cup {0} : SetMaxThreads(d, n)
                 \/ ClientStep(d)
      <3>1. PICK d \in Client :
              \/ Enqueue(d) \/ Shutdown(d) \/ Reset(d) \/ Destroy(d)
              \/ \E n \in Threads \cup {0} : SetMaxThreads(d, n)
              \/ ClientStep(d)
        BY <2>3
      <3>2. CASE \E n \in Threads \cup {0} : SetMaxThreads(d, n)
        BY <3>2 DEF SetMaxThreads
      <3>3. CASE Enqueue(d) \/ Shutdown(d) \/ Reset(d) \/ Destroy(d)
        BY <3>3, <2>2 DEF Enqueue, Shutdown, Reset, Destroy
      <3>4. CASE ClientStep(d)
        BY <3>4, <2>2 DEF ClientStep, Notify, ShutdownReturns, ResetReturns
      <3>5. QED
        BY <3>1, <3>2, <3>3, <3>4
    <2>4. CASE UNCHANGED vars
      BY <2>4 DEF vars
    <2>5. QED
      BY <2>1, <2>3, <2>4 DEF Next
  <1>2. Alive = {}
    BY <1>1 DEF ShutdownReturns, Joined, Alive
  <1>3. DOMAIN pending_tasks = {} /\ \A w \in DOMAIN workers : ~HoldsTask(w)
    BY <1>2 DEF IInv, NotStranded, Alive, HoldsTask
  <1>4. dropped = {}
    BY DEF IInv, DroppedAtEnd
  <1>5. QED
    BY <1>2, <1>3, <1>4 DEF IInv, NoneLost

\* When shutdown() returns every task has been run, and no worker lives.
THEOREM ShutdownRunsAll == Spec => ShutdownProcessesAll
  <1>1. IInv /\ [Next]_vars =>
          [\A c \in Client :
             client[c] = "shutdown" /\ client'[c] = "idle" =>
               1..enqueued \subseteq done /\ Alive = {}]_vars
    BY ShutdownStepRuns
  <1>2. QED
    BY <1>1, PoolInvariant, PTL DEF Spec, ShutdownProcessesAll

-----------------------------------------------------------------------------
(* The jobs of the pool: programs and their queues of results.             *)

\* Every job that was run has the program that ran it.
Owned == \A t \in 1..enqueued : owner[t] \in Client

\* A result in a queue is that of a job of its program that is over; it is
\* there once, and neither popped nor yielded.
QueuedApart ==
  \A p \in Client : \A i \in DOMAIN result_queue_[p] :
    LET t == result_queue_[p][i] IN
    /\ t \in done /\ owner[t] = p
    /\ t # popped[p] /\ t \notin Image(yielded)
    /\ \A j \in DOMAIN result_queue_[p] : j # i => result_queue_[p][j] # t

PoppedApart ==
  \A p \in Client : LET t == popped[p] IN
    t # NoTask => t \in done /\ owner[t] = p /\ t \notin Image(yielded)

YieldedOnce ==
  Image(yielded) \subseteq done /\ Cardinality(Image(yielded)) = Len(yielded)

\* One program at a time is in reset_run(), and it was let in.
OneResets ==
  \A c \in Client : client[c] = "reset" =>
    batch < MaxBatch /\ \A d \in Client \ {c} : client[d] # "reset"

JobsInv ==
  /\ IInv /\ JobsTypeOK
  /\ Owned /\ QueuedApart /\ PoppedApart /\ YieldedOnce
  /\ RunCountIsPending /\ OneResets

-----------------------------------------------------------------------------
(* Sequences of results.                                                   *)

LEMMA AppendedResult ==
  ASSUME NEW s \in Seq(Task), NEW t \in Task
  PROVE  /\ Append(s, t) \in Seq(Task) /\ Len(Append(s, t)) = Len(s) + 1
         /\ Len(s) \in Nat /\ DOMAIN s = 1..Len(s)
         /\ DOMAIN Append(s, t) = 1..(Len(s) + 1)
         /\ Append(s, t)[Len(s) + 1] = t
         /\ \A i \in 1..Len(s) : Append(s, t)[i] = s[i]
         /\ Image(Append(s, t)) = Image(s) \cup {t}
  <1>1. /\ Append(s, t) \in Seq(Task) /\ Len(Append(s, t)) = Len(s) + 1
        /\ Len(s) \in Nat /\ DOMAIN s = 1..Len(s)
        /\ DOMAIN Append(s, t) = 1..(Len(s) + 1)
        /\ Append(s, t)[Len(s) + 1] = t
        /\ \A i \in 1..Len(s) : Append(s, t)[i] = s[i]
    OBVIOUS
  <1> DEFINE a == Append(s, t)
  <1> HIDE DEF a
  <1>2. Image(a) = Image(s) \cup {t}
    <2>0. /\ DOMAIN s = 1..Len(s) /\ DOMAIN a = 1..(Len(s) + 1) /\ Len(s) \in Nat
          /\ a[Len(s) + 1] = t /\ \A i \in 1..Len(s) : a[i] = s[i]
      BY <1>1 DEF a
    <2>1. \A i \in 1..(Len(s) + 1) : i \in 1..Len(s) \/ i = Len(s) + 1
      BY <2>0
    <2>2. Len(s) + 1 \in 1..(Len(s) + 1) /\ \A i \in 1..Len(s) : i \in 1..(Len(s) + 1)
      BY <2>0
    <2>3. QED
      BY <2>0, <2>1, <2>2 DEF Image
  <1>3. QED
    BY <1>1, <1>2 DEF a

LEMMA PoppedResult ==
  ASSUME NEW s \in Seq(Task), s # <<>>
  PROVE  /\ Tail(s) \in Seq(Task) /\ Head(s) = s[1] /\ Head(s) \in Task
         /\ 1 \in DOMAIN s
         /\ \A i \in DOMAIN Tail(s) : i + 1 \in DOMAIN s /\ Tail(s)[i] = s[i + 1]
                                      /\ i \in Nat /\ i + 1 # 1
  OBVIOUS

-----------------------------------------------------------------------------
(* The steps.                                                              *)

\* The pool goes on, and neither a job is over nor a result moved.
LEMMA QuietStep ==
  ASSUME JobsInv, IInv', OneResets',
         UNCHANGED <<owner, batchOf, batch, result_queue_, popped, yielded,
                     enqueued, done, total_tasks_enqueued>>,
         promise' \in [Task -> {"none", "value", "exception", "broken"}],
         loop' \in [Client -> 0..MaxTask]
  PROVE  JobsInv'
  <1>1. JobsTypeOK'
    BY DEF JobsInv, JobsTypeOK, IInv
  <1>2. Owned' /\ RunCountIsPending'
    BY DEF JobsInv, Owned, RunCountIsPending
  <1>3. QueuedApart' /\ PoppedApart' /\ YieldedOnce'
    BY DEF JobsInv, QueuedApart, PoppedApart, YieldedOnce, Image
  <1>4. QED
    BY <1>1, <1>2, <1>3 DEF JobsInv

\* What the pool has for every task number is in 1..enqueued.
LEMMA DoneIsEnqueued ==
  ASSUME JobsInv
  PROVE  /\ done \subseteq 1..enqueued /\ enqueued \in Nat /\ 1..enqueued \subseteq Task
         /\ enqueued <= MaxTask /\ total_tasks_enqueued \in Nat
         /\ IsFiniteSet(1..enqueued) /\ Cardinality(1..enqueued) = enqueued
         /\ NoTask \notin Task
  <1>1. enqueued \in 0..MaxTask /\ MaxTask \in Nat /\ total_tasks_enqueued \in 0..MaxTask
    BY MaxTaskAssumption DEF JobsInv, IInv, TypeOK
  <1>2. 1..enqueued \subseteq Task
    BY <1>1 DEF Task
  <1>3. IsFiniteSet(1..enqueued) /\ Cardinality(1..enqueued) = enqueued
    <2>1. 1 \in Int /\ enqueued \in Int
      BY <1>1
    <2>2. Cardinality(1..enqueued) = IF 1 > enqueued THEN 0 ELSE enqueued - 1 + 1
      BY <2>1, FS_Interval
    <2>3. IsFiniteSet(1..enqueued)
      BY <2>1, FS_Interval
    <2>4. QED
      BY <1>1, <2>2, <2>3
  <1>4. QED
    BY <1>1, <1>2, <1>3 DEF JobsInv, IInv, EndedApart, NoTask, Task

\* A job is run: it has its program, and no result yet.
LEMMA RunJobStep ==
  ASSUME JobsInv, NEW p \in Client, RunJob(p)
  PROVE  JobsInv'
  <1>1. /\ enqueued' = enqueued + 1 /\ enqueued' \in Task
        /\ total_tasks_enqueued' = total_tasks_enqueued + 1
        /\ owner' = [owner EXCEPT ![enqueued'] = p]
        /\ batchOf' = [batchOf EXCEPT ![enqueued'] = batch]
        /\ UNCHANGED <<batch, promise, result_queue_, loop, popped, yielded, done>>
        /\ client' = [client EXCEPT ![p] = "notify"]
    BY DoneIsEnqueued, MaxTaskAssumption
    DEF RunJob, Enqueue, programs, Goes, JobsInv, IInv, TypeOK, Task
  <1>2. IInv'
    BY EnqueueStep DEF RunJob, JobsInv
  <1>3. /\ owner'[enqueued'] = p
        /\ \A t \in Task : t # enqueued' => owner'[t] = owner[t]
        /\ owner' \in [Task -> Client \cup {Nobody}]
    BY <1>1 DEF JobsInv, JobsTypeOK
  <1>4. \A t \in 1..enqueued : t \in Task /\ t # enqueued'
    BY <1>1, DoneIsEnqueued
  <1>5. JobsTypeOK'
    <2>1. batchOf' \in [Task -> 0..batch]
      BY <1>1 DEF JobsInv, JobsTypeOK
    <2>2. QED
      BY <1>1, <1>2, <1>3, <2>1 DEF JobsInv, JobsTypeOK, IInv
  <1>6. Owned'
    <2>1. \A t \in 1..enqueued' : t \in 1..enqueued \/ t = enqueued'
      BY <1>1, DoneIsEnqueued
    <2>2. QED
      BY <1>3, <1>4, <2>1 DEF JobsInv, Owned
  <1>7. \A t \in done : owner'[t] = owner[t]
    BY <1>3, <1>4, DoneIsEnqueued
  <1>8. QueuedApart'
    BY <1>1, <1>7 DEF JobsInv, QueuedApart
  <1>9. PoppedApart'
    BY <1>1, <1>7 DEF JobsInv, PoppedApart
  <1>10. YieldedOnce'
    BY <1>1 DEF JobsInv, YieldedOnce, Image
  <1>11. RunCountIsPending'
    <2>1. Len(yielded) \in Nat
      BY DEF JobsInv, JobsTypeOK
    <2>2. QED
      BY <1>1, <2>1, DoneIsEnqueued DEF JobsInv, RunCountIsPending
  <1>12. OneResets'
    BY <1>1 DEF JobsInv, OneResets, IInv, TypeOK
  <1>13. QED
    BY <1>2, <1>5, <1>6, <1>8, <1>9, <1>10, <1>11, <1>12 DEF JobsInv

LEMMA RunResultsStep ==
  ASSUME JobsInv, NEW p \in Client, RunResults(p)
  PROVE  JobsInv'
  <1>1. UNCHANGED vars
    BY DEF RunResults
  <1>2. IInv'
    BY <1>1, NextIInv DEF JobsInv
  <1>3. UNCHANGED <<enqueued, done, total_tasks_enqueued, client>>
    BY <1>1 DEF vars, counters, history
  <1>4. OneResets'
    BY <1>3 DEF JobsInv, OneResets, RunResults
  <1>5. /\ loop' \in [Client -> 0..MaxTask]
        /\ promise' \in [Task -> {"none", "value", "exception", "broken"}]
    BY DEF RunResults, JobsInv, IInv, TypeOK, JobsTypeOK
  <1>6. QED
    BY <1>2, <1>3, <1>4, <1>5, QuietStep DEF RunResults

\* The first result of a queue goes to its program.
LEMMA WaitAndPopStep ==
  ASSUME JobsInv, NEW p \in Client, WaitAndPop(p)
  PROVE  JobsInv'
  <1> DEFINE s == result_queue_[p]
             t == Head(s)
  <1>1. /\ UNCHANGED <<owner, batchOf, batch, promise, loop, yielded>>
        /\ UNCHANGED vars
        /\ popped[p] = NoTask /\ s # <<>> /\ s \in Seq(Task)
        /\ popped' = [popped EXCEPT ![p] = t]
        /\ result_queue_' = [result_queue_ EXCEPT ![p] = Tail(s)]
    BY DEF WaitAndPop, JobsInv, JobsTypeOK
  <1>2. UNCHANGED <<enqueued, done, total_tasks_enqueued, client>>
    BY <1>1 DEF vars, counters, history
  <1>3. IInv'
    BY <1>1, NextIInv DEF JobsInv
  <1>4. /\ Tail(s) \in Seq(Task) /\ t = s[1] /\ t \in Task /\ 1 \in DOMAIN s
        /\ \A i \in DOMAIN Tail(s) : i + 1 \in DOMAIN s /\ Tail(s)[i] = s[i + 1]
                                     /\ i \in Nat /\ i + 1 # 1
    BY <1>1, PoppedResult
  <1>5. /\ popped'[p] = t /\ result_queue_'[p] = Tail(s)
        /\ \A q \in Client \ {p} : popped'[q] = popped[q]
                                   /\ result_queue_'[q] = result_queue_[q]
    BY <1>1 DEF JobsInv, JobsTypeOK
  <1>6. /\ t \in done /\ owner[t] = p /\ t \notin Image(yielded)
        /\ \A j \in DOMAIN s : j # 1 => s[j] # t
    BY <1>4 DEF JobsInv, QueuedApart
  <1>7. JobsTypeOK'
    BY <1>1, <1>3, <1>4 DEF JobsInv, JobsTypeOK, IInv
  <1>8. QueuedApart'
    <2>1. ASSUME NEW i \in DOMAIN Tail(s)
          PROVE  LET r == Tail(s)[i] IN
                 /\ r \in done /\ owner[r] = p /\ r # t /\ r \notin Image(yielded)
                 /\ \A j \in DOMAIN Tail(s) : j # i => Tail(s)[j] # r
      <3>1. Tail(s)[i] = s[i + 1] /\ i + 1 \in DOMAIN s /\ i + 1 # 1
        BY <1>4
      <3>2. \A j \in DOMAIN Tail(s) : j # i => j + 1 # i + 1 /\ j + 1 \in DOMAIN s
                                               /\ Tail(s)[j] = s[j + 1]
        BY <1>4
      <3>3. QED
        BY <1>6, <3>1, <3>2 DEF JobsInv, QueuedApart
    <2>2. ASSUME NEW q \in Client \ {p}, NEW i \in DOMAIN result_queue_[q]
          PROVE  LET r == result_queue_[q][i] IN
                 /\ r \in done /\ owner[r] = q /\ r # popped[q] /\ r \notin Image(yielded)
                 /\ \A j \in DOMAIN result_queue_[q] : j # i => result_queue_[q][j] # r
      BY DEF JobsInv, QueuedApart
    <2> HIDE DEF s, t
    <2>3. Image(yielded)' = Image(yielded)
      BY <1>1
    <2>4. QED
      BY <1>1, <1>2, <1>5, <2>1, <2>2, <2>3 DEF QueuedApart
  <1> HIDE DEF s, t
  <1>9. PoppedApart' /\ YieldedOnce'
    <2>1. Image(yielded)' = Image(yielded)
      BY <1>1
    <2>2. QED
      BY <1>1, <1>2, <1>5, <1>6, <2>1 DEF JobsInv, PoppedApart, YieldedOnce
  <1>10. Owned' /\ RunCountIsPending' /\ OneResets'
    BY <1>1, <1>2 DEF JobsInv, Owned, RunCountIsPending, OneResets
  <1>11. QED
    BY <1>3, <1>7, <1>8, <1>9, <1>10 DEF JobsInv

\* A loop is given a result.  It is one more of the jobs that were run, so the
\* count was not yet zero.
LEMMA YieldResultStep ==
  ASSUME JobsInv, NEW p \in Client, YieldResult(p)
  PROVE  JobsInv'
  <1> DEFINE t == popped[p]
  <1>1. /\ t # NoTask /\ loop[p] > 0
        /\ total_tasks_enqueued' =
             IF total_tasks_enqueued > 0 THEN total_tasks_enqueued - 1 ELSE 0
        /\ yielded' = Append(yielded, t)
        /\ popped' = [popped EXCEPT ![p] = NoTask]
        /\ loop' = [loop EXCEPT ![p] = @ - 1]
        /\ UNCHANGED <<pending_tasks, workers, max_worker_id_, live_worker_count,
                       running_task_count, client, enqueued, done, dropped, desired>>
        /\ UNCHANGED <<owner, batchOf, batch, promise, result_queue_>>
    BY DEF YieldResult, history
  <1>2. t \in Task /\ t \in done /\ owner[t] = p /\ t \notin Image(yielded)
    BY <1>1 DEF JobsInv, JobsTypeOK, PoppedApart
  <1>3. /\ yielded \in Seq(Task) /\ Image(yielded) \subseteq done
        /\ Cardinality(Image(yielded)) = Len(yielded) /\ Len(yielded) \in Nat
    BY DEF JobsInv, JobsTypeOK, YieldedOnce
  <1>4. /\ yielded' \in Seq(Task) /\ Len(yielded') = Len(yielded) + 1
        /\ Image(yielded') = Image(yielded) \cup {t}
    BY <1>1, <1>2, <1>3, AppendedResult
  <1>5. popped'[p] = NoTask /\ \A q \in Client \ {p} : popped'[q] = popped[q]
    BY <1>1 DEF JobsInv, JobsTypeOK
  <1> HIDE DEF t
  <1>6. IsFiniteSet(Image(yielded))
    BY <1>3, DoneIsEnqueued, FS_Subset
  <1>7. Cardinality(Image(yielded) \cup {t}) = Len(yielded) + 1
    BY <1>2, <1>3, <1>6, FS_AddElement
  <1>8. Len(yielded) + 1 <= enqueued
    <2>1. Image(yielded) \cup {t} \in SUBSET (1..enqueued)
      BY <1>2, <1>3, DoneIsEnqueued
    <2>2. Cardinality(Image(yielded) \cup {t}) <= Cardinality(1..enqueued)
      BY <2>1, DoneIsEnqueued, FS_Subset
    <2>3. QED
      BY <1>7, <2>2, DoneIsEnqueued
  <1>9. total_tasks_enqueued' \in 0..total_tasks_enqueued /\ total_tasks_enqueued \in Nat
    BY <1>1, DoneIsEnqueued
  <1>10. IInv'
    <2>1. TypeOK'
      BY <1>1, <1>9, MaxTaskAssumption DEF JobsInv, IInv, TypeOK
    <2>2. Bounded'
      BY <1>1, <1>9, DoneIsEnqueued DEF JobsInv, IInv, Bounded
    <2>3. CountersAgree' /\ NotStranded' /\ DroppedAtEnd'
      BY <1>1 DEF JobsInv, IInv, CountersAgree, NotStranded, DroppedAtEnd,
                  Alive, Counted, RunsTask
    <2>4. PendingApart' /\ HeldApart' /\ EndedApart' /\ NoneLost'
      BY <1>1 DEF JobsInv, IInv, PendingApart, HeldApart, EndedApart, NoneLost,
                  HoldsTask
    <2>5. QED
      BY <2>1, <2>2, <2>3, <2>4 DEF IInv
  <1>11. JobsTypeOK'
    <2>1. loop' \in [Client -> 0..MaxTask]
      BY <1>1, MaxTaskAssumption DEF JobsInv, JobsTypeOK
    <2>2. popped' \in [Client -> Task \cup {NoTask}]
      BY <1>1 DEF JobsInv, JobsTypeOK
    <2>3. QED
      BY <1>1, <1>4, <1>10, <2>1, <2>2 DEF JobsInv, JobsTypeOK, IInv
  <1>12. QueuedApart'
    <2>1. ASSUME NEW q \in Client, NEW i \in DOMAIN result_queue_[q]
          PROVE  /\ result_queue_[q][i] # t /\ result_queue_[q][i] # popped'[q]
                 /\ result_queue_[q][i] \in done
      <3>1. result_queue_[q][i] \in done /\ owner[result_queue_[q][i]] = q
            /\ result_queue_[q][i] # popped[q]
        BY DEF JobsInv, QueuedApart
      <3>2. result_queue_[q][i] # NoTask
        BY <3>1, DoneIsEnqueued
      <3>3. QED
        BY <1>2, <1>5, <3>1, <3>2 DEF t
    <2>2. Image(yielded)' = Image(yielded) \cup {t}
      BY <1>4
    <2>3. QED
      BY <1>1, <2>1, <2>2 DEF JobsInv, QueuedApart
  <1>13. PoppedApart'
    <2>1. Image(yielded)' = Image(yielded) \cup {t}
      BY <1>4
    <2>2. \A q \in Client \ {p} : popped[q] # NoTask => popped[q] # t
      BY <1>2 DEF JobsInv, PoppedApart
    <2>3. QED
      BY <1>1, <1>5, <2>1, <2>2 DEF JobsInv, PoppedApart
  <1>14. YieldedOnce'
    <2>1. Image(yielded)' = Image(yielded) \cup {t}
      BY <1>4
    <2>2. QED
      BY <1>1, <1>2, <1>3, <1>4, <1>7, <2>1 DEF YieldedOnce
  <1>15. RunCountIsPending'
    <2> SUFFICES ASSUME batch = 0
                 PROVE  total_tasks_enqueued' + Len(yielded') = enqueued
      BY <1>1 DEF RunCountIsPending
    <2>1. total_tasks_enqueued + Len(yielded) = enqueued
      BY DEF JobsInv, RunCountIsPending
    <2>2. total_tasks_enqueued > 0
      BY <1>3, <1>8, <2>1, DoneIsEnqueued
    <2>3. total_tasks_enqueued' = total_tasks_enqueued - 1
      BY <1>1, <2>2
    <2>4. QED
      BY <1>3, <1>4, <2>1, <2>3, DoneIsEnqueued
  <1>16. Owned' /\ OneResets'
    BY <1>1 DEF JobsInv, Owned, OneResets
  <1>17. QED
    BY <1>10, <1>11, <1>12, <1>13, <1>14, <1>15, <1>16 DEF JobsInv

\* shutdown(), set_max_threads() and notifications do not count a task.
LEMMA PoolCallsStep ==
  ASSUME JobsInv, NEW p \in Client, PoolCalls(p)
  PROVE  JobsInv'
  <1>1. UNCHANGED <<owner, batchOf, batch, promise, result_queue_, loop, popped, yielded>>
    BY DEF PoolCalls, jobs, programs
  <1>2. \/ Shutdown(p) \/ Notify(p) \/ ShutdownReturns(p)
        \/ \E n \in Threads : SetMaxThreads(p, n)
    BY DEF PoolCalls
  <1>3. IInv'
    BY <1>2, ShutdownStep, NotifyStep, ShutdownReturnsStep, SetMaxThreadsStep
    DEF JobsInv
  <1>4. UNCHANGED <<enqueued, done, total_tasks_enqueued>>
    BY <1>2
    DEF Shutdown, Signal, Notify, ShutdownReturns, SetMaxThreads, counters,
        history
  <1>5. \/ client' = [client EXCEPT ![p] = "idle"]
        \/ client' = [client EXCEPT ![p] = "shutdown"]
        \/ client' = client
    BY <1>2 DEF Shutdown, Notify, ShutdownReturns, SetMaxThreads, Goes
  <1>6. OneResets'
    BY <1>1, <1>5 DEF JobsInv, OneResets, IInv, TypeOK
  <1>7. QED
    BY <1>1, <1>3, <1>4, <1>6, QuietStep DEF JobsInv, JobsTypeOK

\* reset_run() counts from zero; from then on RunCountIsPending says nothing.
LEMMA ResetRunStep ==
  ASSUME JobsInv, NEW p \in Client, ResetRun(p)
  PROVE  JobsInv'
  <1>1. UNCHANGED <<owner, batchOf, promise, result_queue_, loop, popped, yielded>>
    BY DEF ResetRun, programs
  <1>2. CASE batch < MaxBatch /\ Reset(p) /\ UNCHANGED batch
    <2>1. IInv'
      BY <1>2, ShutdownStep DEF JobsInv
    <2>2. UNCHANGED <<enqueued, done, total_tasks_enqueued>>
      BY <1>2 DEF Reset, Signal
    <2>3. OneResets'
      BY <1>2 DEF Reset, Goes, JobsInv, OneResets, IInv, TypeOK
    <2>4. QED
      BY <1>1, <1>2, <2>1, <2>2, <2>3, QuietStep DEF JobsInv, JobsTypeOK
  <1>3. CASE \E n \in Threads : ResetReturns(p, n) /\ batch' = batch + 1
    <2>1. PICK n \in Threads : ResetReturns(p, n) /\ batch' = batch + 1
      BY <1>3
    <2>2. IInv'
      BY <2>1, ResetReturnsStep DEF JobsInv
    <2>3. /\ UNCHANGED <<enqueued, done>> /\ client[p] = "reset"
          /\ client' = [client EXCEPT ![p] = "idle"]
      BY <2>1 DEF ResetReturns, Goes
    <2>4. batch' \in 0..MaxBatch /\ batch' # 0 /\ 0..batch \subseteq 0..batch'
      BY <2>1, <2>3, MaxBatchAssumption DEF JobsInv, OneResets, JobsTypeOK
    <2>5. JobsTypeOK'
      <3>1. batchOf' \in [Task -> 0..batch']
        BY <1>1, <2>4 DEF JobsInv, JobsTypeOK
      <3>2. QED
        BY <1>1, <2>2, <2>4, <3>1 DEF JobsInv, JobsTypeOK, IInv
    <2>6. OneResets'
      BY <2>3 DEF JobsInv, OneResets, IInv, TypeOK
    <2>7. Owned' /\ RunCountIsPending'
      BY <1>1, <2>3, <2>4 DEF JobsInv, Owned, RunCountIsPending
    <2>8. QueuedApart' /\ PoppedApart' /\ YieldedOnce'
      BY <1>1, <2>3 DEF JobsInv, QueuedApart, PoppedApart, YieldedOnce, Image
    <2>9. QED
      BY <2>2, <2>5, <2>6, <2>7, <2>8 DEF JobsInv
  <1>4. QED
    BY <1>2, <1>3 DEF ResetRun

\* A worker thread moves, but no job comes to its end.
LEMMA WorkerMovesStep ==
  ASSUME JobsInv, NEW w \in DOMAIN workers, WorkerMoves(w) \/ JobIsDestroyed(w)
  PROVE  JobsInv'
  <1>1. UNCHANGED <<owner, batchOf, batch, result_queue_, loop, popped, yielded>>
    BY DEF WorkerMoves, JobIsDestroyed, jobs, programs
  <1>2. WorkerStep(w)
    BY DEF WorkerMoves, JobIsDestroyed, WorkerStep
  <1>3. IInv'
    BY <1>2, NextIInv DEF JobsInv, Next
  <1>4. UNCHANGED <<enqueued, done, total_tasks_enqueued, client>>
    BY <1>2
    DEF WorkerStep, WorkerTakes, WorkerWaits, WorkerExits, WorkerStarts, 
                WorkerGoesOn, counters, history
  <1>5. promise' \in [Task -> {"none", "value", "exception", "broken"}]
    BY DEF WorkerMoves, JobIsDestroyed, jobs, JobsInv, JobsTypeOK
  <1>6. OneResets'
    BY <1>1, <1>4 DEF JobsInv, OneResets
  <1>7. QED
    BY <1>1, <1>3, <1>4, <1>5, <1>6, QuietStep DEF JobsInv, JobsTypeOK

\* A job is over, for the first time: its result is nowhere yet.
LEMMA JobEndsStep ==
  ASSUME JobsInv, NEW w \in DOMAIN workers, JobEnds(w)
  PROVE  JobsInv'
  <1> DEFINE t == workers[w].task
             p == owner[t]
             s == result_queue_[p]
             a == Append(s, t)
  <1>1. /\ workers[w].at = "running" /\ done' = done \cup {t}
        /\ UNCHANGED <<enqueued, total_tasks_enqueued, client>>
        /\ UNCHANGED <<owner, batchOf, batch, loop, popped, yielded>>
        /\ result_queue_' = [result_queue_ EXCEPT ![p] = a]
        /\ promise' \in [Task -> {"none", "value", "exception", "broken"}]
    BY DEF JobEnds, TaskEnds, Moves, counters, programs, JobsInv, JobsTypeOK
  <1>2. IInv'
    BY TaskEndsStep DEF JobEnds, JobsInv
  <1>3. t \in 1..enqueued /\ t \notin done /\ t \in Task
    BY <1>1, DoneIsEnqueued DEF JobsInv, IInv, HeldApart, HoldsTask
  <1>4. p \in Client /\ p = owner[t] /\ s = result_queue_[p] /\ s \in Seq(Task)
    BY <1>3 DEF JobsInv, Owned, JobsTypeOK
  <1> HIDE DEF t, p, s
  <1>5. /\ a \in Seq(Task)
        /\ Len(s) \in Nat /\ DOMAIN s = 1..Len(s)
        /\ DOMAIN a = 1..(Len(s) + 1)
        /\ a[Len(s) + 1] = t
        /\ \A i \in 1..Len(s) : a[i] = s[i]
    BY <1>3, <1>4, AppendedResult
  <1> HIDE DEF a
  <1>6. /\ result_queue_'[p] = a
        /\ \A q \in Client \ {p} : result_queue_'[q] = result_queue_[q]
        /\ result_queue_' \in [Client -> Seq(Task)]
    BY <1>1, <1>4, <1>5 DEF JobsInv, JobsTypeOK
  <1>7. /\ t \notin Image(yielded) /\ \A q \in Client : popped[q] # t
        /\ \A q \in Client : \A i \in DOMAIN result_queue_[q] : result_queue_[q][i] # t
    <2>1. t # NoTask
      BY <1>3, DoneIsEnqueued
    <2>2. QED
      BY <1>3, <2>1 DEF JobsInv, YieldedOnce, PoppedApart, QueuedApart
  <1>8. JobsTypeOK'
    <2>1. IInv' /\ TypeOK'
      BY <1>2 DEF IInv
    <2>2. QED
      BY <1>1, <1>6, <2>1 DEF JobsInv, JobsTypeOK
  <1>9. QueuedApart'
    <2>1. \A i \in DOMAIN a : \/ i = Len(s) + 1 /\ a[i] = t
                              \/ i \in DOMAIN s /\ a[i] = s[i] /\ s[i] # t
      <3>1. \A i \in DOMAIN s : s[i] # t
        BY <1>4, <1>7
      <3>2. \A i \in DOMAIN a : i = Len(s) + 1 \/ i \in DOMAIN s
        BY <1>5
      <3>3. \A i \in DOMAIN s : a[i] = s[i]
        BY <1>5
      <3>4. a[Len(s) + 1] = t
        BY <1>5
      <3>5. ASSUME NEW i \in DOMAIN a
            PROVE  \/ i = Len(s) + 1 /\ a[i] = t
                   \/ i \in DOMAIN s /\ a[i] = s[i] /\ s[i] # t
        <4>1. CASE i = Len(s) + 1
          BY <3>4, <4>1
        <4>2. CASE i \in DOMAIN s
          BY <3>1, <3>3, <4>2
        <4>3. QED
          BY <3>2, <4>1, <4>2
      <3>6. QED
        BY <3>5
    <2>2. \A i \in DOMAIN s :
            /\ s[i] \in done /\ owner[s[i]] = p /\ s[i] # popped[p]
            /\ s[i] \notin Image(yielded)
            /\ \A j \in DOMAIN s : j # i => s[j] # s[i]
      BY <1>4 DEF JobsInv, QueuedApart
    <2>3. ASSUME NEW i \in DOMAIN a
          PROVE  /\ a[i] \in done' /\ owner[a[i]] = p /\ a[i] # popped[p]
                 /\ a[i] \notin Image(yielded)
                 /\ \A j \in DOMAIN a : j # i => a[j] # a[i]
      <3>1. CASE i = Len(s) + 1 /\ a[i] = t
        BY <1>1, <1>4, <1>7, <2>1, <3>1
      <3>2. CASE i \in DOMAIN s /\ a[i] = s[i] /\ s[i] # t
        BY <1>1, <2>1, <2>2, <3>2
      <3>3. QED
        BY <2>1, <3>1, <3>2
    <2>4. Image(yielded)' = Image(yielded)
      BY <1>1
    <2>5. ASSUME NEW q \in Client, NEW i \in DOMAIN result_queue_'[q]
          PROVE  LET r == result_queue_'[q][i] IN
                 /\ r \in done' /\ owner'[r] = q /\ r # popped'[q]
                 /\ r \notin Image(yielded)'
                 /\ \A j \in DOMAIN result_queue_'[q] : j # i => result_queue_'[q][j] # r
      <3>1. CASE q = p
        <4>1. result_queue_'[q] = a /\ i \in DOMAIN a
          BY <1>6, <3>1
        <4>2. QED
          BY <1>1, <2>3, <2>4, <3>1, <4>1
      <3>2. CASE q # p
        <4>1. result_queue_'[q] = result_queue_[q] /\ i \in DOMAIN result_queue_[q]
          BY <1>6, <3>2
        <4>2. QED
          BY <1>1, <2>4, <4>1 DEF JobsInv, QueuedApart
      <3>3. QED
        BY <3>1, <3>2
    <2>6. QED
      BY <2>5 DEF QueuedApart
  <1>10. PoppedApart' /\ YieldedOnce'
    <2>1. Image(yielded)' = Image(yielded)
      BY <1>1
    <2>2. QED
      BY <1>1, <2>1 DEF JobsInv, PoppedApart, YieldedOnce
  <1>11. Owned' /\ RunCountIsPending' /\ OneResets'
    BY <1>1 DEF JobsInv, Owned, RunCountIsPending, OneResets
  <1>12. QED
    BY <1>2, <1>8, <1>9, <1>10, <1>11 DEF JobsInv

-----------------------------------------------------------------------------
(* The theorems.                                                           *)

LEMMA InitJobsInv ==
  ASSUME JobsInit
  PROVE  JobsInv
  <1>1. IInv
    BY InitIInv DEF JobsInit
  <1>2. JobsTypeOK
    BY <1>1, MaxTaskAssumption, MaxBatchAssumption
    DEF JobsInit, JobsTypeOK, IInv
  <1>3. Image(yielded) = {} /\ Len(yielded) = 0
    BY DEF JobsInit, Image
  <1>4. YieldedOnce
    BY <1>3, FS_EmptySet DEF YieldedOnce
  <1>5. Owned /\ RunCountIsPending /\ OneResets
    BY <1>3 DEF JobsInit, Init, Owned, RunCountIsPending, OneResets
  <1>6. QueuedApart /\ PoppedApart
    BY DEF JobsInit, QueuedApart, PoppedApart
  <1>7. QED
    BY <1>1, <1>2, <1>4, <1>5, <1>6 DEF JobsInv

LEMMA NextJobsInv ==
  ASSUME JobsInv, [JobsNext]_jvars
  PROVE  JobsInv'
  <1>1. CASE UNCHANGED jvars
    <2>1. UNCHANGED vars /\ UNCHANGED jobs
      BY <1>1 DEF jvars
    <2>2. IInv'
      BY <2>1, NextIInv DEF JobsInv
    <2>3. UNCHANGED <<owner, batchOf, batch, promise, result_queue_, loop, popped,
                      yielded, enqueued, done, total_tasks_enqueued, client>>
      BY <2>1 DEF vars, counters, history, jobs, programs
    <2>4. OneResets'
      BY <2>3 DEF JobsInv, OneResets
    <2>5. QED
      BY <2>2, <2>3, <2>4, QuietStep DEF JobsInv, JobsTypeOK
  <1>2. CASE JobsNext
    BY <1>2, RunJobStep, RunResultsStep, WaitAndPopStep, YieldResultStep,
       PoolCallsStep, ResetRunStep, WorkerMovesStep, JobEndsStep
    DEF JobsNext, ResultStep
  <1>3. QED
    BY <1>1, <1>2

\* The inductive invariant holds in every state, with that of the pool.
THEOREM JobsInvariant == JobsSpec => []JobsInv
  <1>1. JobsInit => JobsInv
    BY InitJobsInv
  <1>2. JobsInv /\ [JobsNext]_jvars => JobsInv'
    BY NextJobsInv
  <1>3. QED
    BY <1>1, <1>2, PTL DEF JobsSpec

\* The variables are of their types: every queue has jobs, every loop waits for
\* no more results than there are tasks.
THEOREM JobsTypeCorrect == JobsSpec => []JobsTypeOK
  BY JobsInvariant, PTL DEF JobsInv

\* run_count() is "the number of jobs run and pending results", until the
\* first reset_run(), whatever programs and workers do at the same time.
THEOREM RunCountIsRight == JobsSpec => []RunCountIsPending
  BY JobsInvariant, PTL DEF JobsInv

\* No result comes twice, or to a program that did not run the job.
THEOREM ResultsComeOnce == JobsSpec => []EveryResultOnce
  <1>1. JobsInv => EveryResultOnce
    <2> SUFFICES ASSUME JobsInv PROVE EveryResultOnce
      OBVIOUS
    <2>1. \A p \in Client : \A t \in Image(result_queue_[p]) :
            owner[t] = p /\ t \notin Image(yielded)
      BY DEF JobsInv, QueuedApart, Image
    <2>2. QED
      BY <2>1 DEF JobsInv, PoppedApart, YieldedOnce, EveryResultOnce
  <1>2. QED
    BY <1>1, JobsInvariant, PTL


\* A step of the jobs is a step of the pool, but for the count of results that
\* have been yielded, which the pool itself never looks at.
LEMMA JobsStepOfPool ==
  ASSUME [JobsNext]_jvars
  PROVE  \/ [Next]_vars
         \/ UNCHANGED <<pending_tasks, workers, max_worker_id_, live_worker_count,
                        running_task_count, client, history>>
  <1>1. CASE UNCHANGED jvars
    BY <1>1 DEF jvars
  <1>2. ASSUME NEW p \in Client, RunJob(p)
        PROVE  [Next]_vars
    BY <1>2 DEF RunJob, Next
  <1>3. ASSUME NEW p \in Client, RunResults(p) \/ WaitAndPop(p)
        PROVE  [Next]_vars
    BY <1>3 DEF RunResults, WaitAndPop
  <1>4. ASSUME NEW p \in Client, YieldResult(p)
        PROVE  UNCHANGED <<pending_tasks, workers, max_worker_id_, live_worker_count,
                           running_task_count, client, history>>
    BY <1>4 DEF YieldResult
  <1>5. ASSUME NEW p \in Client, PoolCalls(p)
        PROVE  [Next]_vars
    BY <1>5 DEF PoolCalls, ClientStep, Next
  <1>6. ASSUME NEW p \in Client, ResetRun(p)
        PROVE  [Next]_vars
    BY <1>6 DEF ResetRun, ClientStep, Next
  <1>7. ASSUME NEW w \in DOMAIN workers, WorkerMoves(w) \/ JobIsDestroyed(w)
        PROVE  [Next]_vars
    BY <1>7 DEF WorkerMoves, JobIsDestroyed, WorkerStep, Next
  <1>8. ASSUME NEW w \in DOMAIN workers, JobEnds(w)
        PROVE  [Next]_vars
    BY <1>8 DEF JobEnds, Next
  <1>9. QED
    BY <1>1, <1>2, <1>3, <1>4, <1>5, <1>6, <1>7, <1>8 DEF JobsNext, ResultStep

\* Programs that run jobs, loop over results and reset keep what the pool
\* promises: no job is stranded, lost or run twice, and when shutdown() returns
\* every job has been run.
THEOREM JobsKeepPool ==
  JobsSpec => [](PendingHasWorker /\ EveryTaskOnce) /\ ShutdownProcessesAll
  <1>1. JobsInv => PendingHasWorker /\ EveryTaskOnce
    BY TaskIsOnce DEF JobsInv, IInv, CountersAgree, NotStranded, PendingHasWorker
  <1>2. JobsInv /\ [JobsNext]_jvars =>
          [\A c \in Client :
             client[c] = "shutdown" /\ client'[c] = "idle" =>
               1..enqueued \subseteq done /\ Alive = {}]_vars
    <2> SUFFICES ASSUME JobsInv, [JobsNext]_jvars, NEW c \in Client,
                        client[c] = "shutdown", client'[c] = "idle"
                 PROVE  1..enqueued \subseteq done /\ Alive = {}
      OBVIOUS
    <2>1. [Next]_vars
      BY JobsStepOfPool
    <2>2. QED
      BY <2>1, ShutdownStepRuns DEF JobsInv
  <1>3. QED
    BY <1>1, <1>2, JobsInvariant, PTL DEF JobsSpec, ShutdownProcessesAll
=============================================================================
