----------------------------- MODULE Threadpool -----------------------------
(***************************************************************************)
(* The thread pool of src/threadpool/threadpool.c: callers of              *)
(* threadpool_submit, threadpool_shutdown and threadpool_wait, worker      *)
(* threads running worker_fn, and the work queue between them.             *)
(*                                                                         *)
(* There are two locks. pool->lock guards the pool, and a submit holds it  *)
(* while it starts a thread and fills the queue: submitting is the task of *)
(* the call that holds it, NoTask when the lock is free. wq->lock guards   *)
(* the queue; its critical sections contain no step of another thread, so  *)
(* each is one action, or part of one.                                     *)
(***************************************************************************)
EXTENDS Integers, Sequences, FiniteSets

CONSTANTS
  Tasks,       \* the tasks callers submit, each once
  Waiters,     \* the threads that call threadpool_wait
  MaxThreads,  \* pool->max_threads
  NoTask       \* NULL where a task pointer is expected

ASSUME ThreadpoolAssumption ==
  /\ NoTask \notin Tasks
  /\ MaxThreads \in Nat \ {0}

Threads == 1 .. MaxThreads   \* thread w is pool->threads[w - 1]

VARIABLES
  list,        \* wq->list, the queued tasks, first to run first
  num,         \* wq->num
  wqstatus,    \* wq->status
  threads_num, \* pool->threads_num
  status,      \* pool->status
  submitting,  \* the task whose submit call holds pool->lock
  worker,      \* where every thread is
  work,        \* the task a thread is running
  waiter,      \* where every caller of threadpool_wait is
  accepted,    \* the tasks submit put on the queue
  rejected,    \* the tasks submit returned -1 for
  runs         \* how often each task has run

queueVars == <<list, num, wqstatus>>
poolVars == <<threads_num, status>>
taskVars == <<accepted, rejected, runs>>
vars == <<queueVars, poolVars, submitting, worker, work, waiter, taskVars>>

Alive(w) == worker[w] \notin {"none", "dead"}
LockFree == submitting = NoTask

\* threadpool_create and init_workqueue.
Init ==
  /\ list = <<>> /\ num = 0 /\ wqstatus = "RUNNING"
  /\ threads_num = 0 /\ status = "RUNNING"
  /\ submitting = NoTask
  /\ worker = [w \in Threads |-> "none"]
  /\ work = [w \in Threads |-> NoTask]
  /\ waiter = [v \in Waiters |-> "idle"]
  /\ accepted = {} /\ rejected = {}
  /\ runs = [t \in Tasks |-> 0]

\* pthread_cond_signal: one of the threads waiting on the condition, if any,
\* goes back to the loop it waits in; broadcast: all of them do.
SignalOne(state, back) ==
  LET asleep == {x \in DOMAIN state : state[x] = "waiting"}
  IN  IF asleep = {} THEN {state} ELSE {[state EXCEPT ![x] = back] : x \in asleep}

SignalAll(state, back) ==
  [x \in DOMAIN state |-> IF state[x] = "waiting" THEN back ELSE state[x]]

----------------------------------------------------------------------------
(* threadpool_submit. A definition whose name starts with Bad is a slip a  *)
(* change of the next definition could make; no specification uses it.     *)

BadBelowLimit == threads_num <= MaxThreads

\* A submit starts a thread as long as there are fewer than max_threads.
BelowLimit == threads_num < MaxThreads

\* The test of num behind its increment.
BadPutWakes == IF num + 1 = 0 THEN SignalOne(worker, "get") ELSE {worker}

\* workqueue_put signals when the queue was empty.
PutWakes == IF num = 0 THEN SignalOne(worker, "get") ELSE {worker}

New(t) == t \notin accepted \cup rejected

\* The pool is not running, or pthread_create fails: -1.
SubmitFails(t) ==
  /\ LockFree /\ New(t)
  /\ status # "RUNNING" \/ BelowLimit
  /\ rejected' = rejected \cup {t}
  /\ UNCHANGED <<queueVars, poolVars, submitting, worker, work, waiter, accepted, runs>>

\* pool->lock is taken and, below the limit, create_new_thread starts the
\* thread threads[threads_num].
SubmitBegin(t) ==
  /\ LockFree /\ New(t) /\ status = "RUNNING"
  /\ submitting' = t
  /\ IF BelowLimit
     THEN /\ worker' = [worker EXCEPT ![threads_num + 1] = "get"]
          /\ threads_num' = threads_num + 1
     ELSE UNCHANGED <<worker, threads_num>>
  /\ UNCHANGED <<queueVars, status, work, waiter, taskVars>>

\* workqueue_put and the unlocks.
SubmitPut ==
  /\ submitting # NoTask
  /\ list' = Append(list, submitting)
  /\ num' = num + 1
  /\ worker' \in PutWakes
  /\ accepted' = accepted \cup {submitting}
  /\ submitting' = NoTask
  /\ UNCHANGED <<wqstatus, poolVars, work, waiter, rejected, runs>>

----------------------------------------------------------------------------
(* worker_fn                                                               *)

\* The entry is not taken off the list.
BadRest == list

Rest == Tail(list)

\* A stopped queue hands out nothing more.
BadNothingToGet == num = 0 \/ wqstatus # "RUNNING"

NothingToGet == num = 0

\* The last thread out, and a shutdown without threads, signal one caller of
\* threadpool_wait; otherwise nobody is woken.
BadStopWakes(stopped) == {waiter}

StopWakes(stopped) == IF stopped THEN SignalOne(waiter, "woken") ELSE {waiter}

\* workqueue_get with work on the queue. The loop over the list takes its
\* first entry.
workqueue_get(w) ==
  /\ worker[w] = "get" /\ num # 0
  /\ work' = [work EXCEPT ![w] = Head(list)]
  /\ list' = Rest
  /\ num' = num - 1
  /\ worker' = [worker EXCEPT ![w] = "run"]
  /\ UNCHANGED <<wqstatus, poolVars, submitting, waiter, taskVars>>

\* workqueue_get on an empty queue: wait, or return NULL when it is stopped.
WorkerIdle(w) ==
  /\ worker[w] = "get" /\ NothingToGet
  /\ worker' = [worker EXCEPT ![w] = IF wqstatus = "RUNNING" THEN "waiting" ELSE "exit"]
  /\ UNCHANGED <<queueVars, poolVars, submitting, work, waiter, taskVars>>

\* pthread_cond_wait may return without a signal.
WorkerSpuriousWakeup(w) ==
  /\ worker[w] = "waiting"
  /\ worker' = [worker EXCEPT ![w] = "get"]
  /\ UNCHANGED <<queueVars, poolVars, submitting, work, waiter, taskVars>>

\* do_work: do_task, clean_task, and the work entry is freed.
do_work(w) ==
  /\ worker[w] = "run"
  /\ runs' = [runs EXCEPT ![work[w]] = @ + 1]
  /\ work' = [work EXCEPT ![w] = NoTask]
  /\ worker' = [worker EXCEPT ![w] = "get"]
  /\ UNCHANGED <<queueVars, poolVars, submitting, waiter, accepted, rejected>>

\* The end of worker_fn: the last thread out stops the pool and signals.
WorkerExit(w) ==
  /\ worker[w] = "exit" /\ LockFree
  /\ worker' = [worker EXCEPT ![w] = "dead"]
  /\ threads_num' = threads_num - 1
  /\ status' = IF threads_num = 1 THEN "STOPPED" ELSE status
  /\ waiter' \in StopWakes(threads_num = 1)
  /\ UNCHANGED <<queueVars, submitting, work, taskVars>>

----------------------------------------------------------------------------
(* threadpool_shutdown and threadpool_wait                                 *)

\* workqueue_stop with a signal where it has a broadcast.
BadQueueStopWakes == SignalOne(worker, "get")

QueueStopWakes == {SignalAll(worker, "get")}

\* The pool stays RUNNING until its last thread is gone; or is STOPPED at
\* once, as NOT_WAIT might suggest.
BadStatusRunning == IF threads_num = 0 THEN "STOPPED" ELSE status
BadStatusNotWait == "STOPPED"

StatusAfterShutdown == IF threads_num = 0 THEN "STOPPED" ELSE "STOPPING"

\* Nothing reads the pool between the two assignments of status: the caller
\* holds pool->lock. Its argument type is not used.
threadpool_shutdown ==
  /\ LockFree
  /\ wqstatus' = "STOPPING"
  /\ worker' \in QueueStopWakes
  /\ status' = StatusAfterShutdown
  /\ waiter' \in StopWakes(threads_num = 0)
  /\ UNCHANGED <<list, num, threads_num, submitting, work, taskVars>>

\* The call and every return from pthread_cond_wait test the status.
threadpool_wait(v) ==
  /\ waiter[v] \in {"idle", "woken"} /\ LockFree
  /\ waiter' = [waiter EXCEPT ![v] = IF status = "STOPPED" THEN "returned" ELSE "waiting"]
  /\ UNCHANGED <<queueVars, poolVars, submitting, worker, work, taskVars>>

WaiterSpuriousWakeup(v) ==
  /\ waiter[v] = "waiting"
  /\ waiter' = [waiter EXCEPT ![v] = "woken"]
  /\ UNCHANGED <<queueVars, poolVars, submitting, worker, work, taskVars>>

----------------------------------------------------------------------------
Next ==
  \/ \E t \in Tasks : SubmitFails(t) \/ SubmitBegin(t)
  \/ SubmitPut
  \/ \E w \in Threads : \/ workqueue_get(w)
                        \/ WorkerIdle(w)
                        \/ WorkerSpuriousWakeup(w)
                        \/ do_work(w)
                        \/ WorkerExit(w)
  \/ threadpool_shutdown
  \/ \E v \in Waiters : threadpool_wait(v) \/ WaiterSpuriousWakeup(v)

Spec == Init /\ [][Next]_vars

\* A thread that can take a step takes one, tasks return, and locks are
\* handed to those who ask. Nobody has to call, and no spurious wakeup has
\* to happen.
Fairness ==
  /\ WF_vars(SubmitPut)
  /\ \A w \in Threads : /\ WF_vars(workqueue_get(w) \/ WorkerIdle(w))
                        /\ WF_vars(do_work(w))
                        /\ WF_vars(WorkerExit(w))
  /\ \A v \in Waiters : WF_vars(waiter[v] = "woken" /\ threadpool_wait(v))

LiveSpec == Spec /\ Fairness

----------------------------------------------------------------------------
(* Properties                                                              *)

Statuses == {"RUNNING", "STOPPING", "STOPPED"}

TypeOK ==
  /\ list \in Seq(Tasks) /\ num \in Nat /\ wqstatus \in {"RUNNING", "STOPPING"}
  /\ threads_num \in 0 .. MaxThreads /\ status \in Statuses
  /\ submitting \in Tasks \cup {NoTask}
  /\ worker \in [Threads -> {"none", "get", "waiting", "run", "exit", "dead"}]
  /\ work \in [Threads -> Tasks \cup {NoTask}]
  /\ waiter \in [Waiters -> {"idle", "waiting", "woken", "returned"}]
  /\ accepted \subseteq Tasks /\ rejected \subseteq Tasks
  /\ runs \in [Tasks -> Nat]

Queued == {list[i] : i \in DOMAIN list}
Running == {work[w] : w \in {v \in Threads : worker[v] = "run"}}
Done == {t \in Tasks : runs[t] > 0}

\* The counters agree with what they count, though they are changed by
\* several functions under two locks: num with the list, threads_num with
\* the threads that were started and have not left worker_fn.
Counters ==
  /\ num = Len(list)
  /\ threads_num = Cardinality({w \in Threads : Alive(w)})

\* An accepted task is in exactly one place, once: on the queue, with one
\* worker, or finished after one run; a task threadpool_submit refused is
\* nowhere, so its caller may reuse it.
TaskRunsOnce ==
  /\ accepted = Queued \cup Running \cup Done
  /\ Queued \cap Running = {} /\ Queued \cap Done = {} /\ Running \cap Done = {}
  /\ \A i, j \in DOMAIN list : list[i] = list[j] => i = j
  /\ \A w, v \in Threads :
       worker[w] = "run" /\ worker[v] = "run" /\ work[w] = work[v] => w = v
  /\ \A t \in Tasks : runs[t] <= 1
  /\ accepted \cap rejected = {}

\* The pool is STOPPED, and threadpool_wait returns, only when every accepted
\* task has run and every thread has left the queue.
DrainBeforeStop ==
  status = "STOPPED" \/ (\E v \in Waiters : waiter[v] = "returned") =>
    /\ status = "STOPPED"
    /\ accepted = Done
    /\ \A w \in Threads : ~Alive(w)

\* workqueue_put signals only when the queue was empty. That is enough: while
\* there is work, some thread is awake and will look at the queue again.
NoLostWakeup == num > 0 => \E w \in Threads : worker[w] \in {"get", "run"}

\* create_new_thread writes the handle of the thread it starts into
\* threads[threads_num]. Threads leave and threads_num shrinks, yet the entry
\* written is never that of a thread started before.
ThreadSlotsFresh ==
  [][threads_num' > threads_num => worker[threads_num + 1] = "none"]_vars

\* The pool implements TaskService: threadpool_submit accepts or refuses,
\* workers perform, threadpool_shutdown closes and status reports the end.
Service == INSTANCE TaskService WITH
  refused <- rejected, done <- Done,
  phase <- CASE status = "RUNNING" -> "open"
             [] status = "STOPPING" -> "closing"
             [] status = "STOPPED" -> "closed"

ServiceSpec == Service!ServiceSpec

\* Every accepted task is run in the end, with or without a shutdown.
AcceptedTasksRun == \A t \in Tasks : t \in accepted ~> t \in Done

\* Once threadpool_shutdown has been called the pool reaches STOPPED.
ShutdownCompletes == status = "STOPPING" ~> status = "STOPPED"

\* Once the pool is being shut down some caller of threadpool_wait returns.
\* The last thread out signals one of them, so no more than that holds.
WaitReturns ==
  (\E v \in Waiters : waiter[v] \in {"waiting", "woken"}) /\ status # "RUNNING"
    ~> \E v \in Waiters : waiter[v] = "returned"
============================================================================
