-------------------------- MODULE ThreadpoolProofs --------------------------
(***************************************************************************)
(* Proofs about Threadpool, for any tasks, waiters and number of threads.  *)
(*                                                                         *)
(* None of the invariants is inductive alone. Why the pool is drained when *)
(* it is STOPPED depends on pool->lock: while a submit holds it the pool   *)
(* is RUNNING (LockInv), a thread leaves only a stopped and empty queue,   *)
(* and a queue with work has a thread (StopInv). That threads_num counts   *)
(* the threads needs that a running pool fills threads[] from the front    *)
(* (SlotInv).                                                              *)
(***************************************************************************)
EXTENDS Threadpool, FiniteSetTheorems, TLAPS

WorkInv == \A w \in Threads : worker[w] = "run" => work[w] \in Tasks

SlotInv ==
  status = "RUNNING" =>
    \A w \in Threads : /\ worker[w] = "none" <=> w > threads_num
                       /\ worker[w] \notin {"exit", "dead"}

LockInv ==
  submitting # NoTask =>
    /\ status = "RUNNING"
    /\ submitting \notin accepted \cup rejected
    /\ threads_num > 0

StopInv ==
  /\ wqstatus = "RUNNING" <=> status = "RUNNING"
  /\ \A w \in Threads : worker[w] = "exit" => num = 0 /\ status # "RUNNING"
  /\ status = "STOPPED" <=> status # "RUNNING" /\ threads_num = 0
  /\ num > 0 => threads_num > 0
  /\ \A v \in Waiters : waiter[v] = "returned" => status = "STOPPED"

IInv == TypeOK /\ Counters /\ WorkInv /\ SlotInv /\ LockInv /\ StopInv

----------------------------------------------------------------------------
(* What a signal does to the threads it may wake.                          *)

\* pthread_cond_signal changes nothing but the place of a waiting thread.
LEMMA SignalOneEffect ==
  ASSUME NEW S, NEW R, NEW state \in [S -> R], NEW back \in R,
         NEW new \in SignalOne(state, back)
  PROVE  /\ new \in [S -> R]
         /\ \A x \in S : new[x] = state[x] \/ (state[x] = "waiting" /\ new[x] = back)
  BY DEF SignalOne

WorkerStates == {"none", "get", "waiting", "run", "exit", "dead"}
WaiterStates == {"idle", "waiting", "woken", "returned"}

\* Worker states that differ by wakeups only.
Woken == /\ worker' \in [Threads -> WorkerStates]
         /\ \A w \in Threads : \/ worker'[w] = worker[w]
                               \/ worker[w] = "waiting" /\ worker'[w] = "get"

WokenWaiters ==
  /\ waiter' \in [Waiters -> WaiterStates]
  /\ \A v \in Waiters : \/ waiter'[v] = waiter[v]
                        \/ waiter[v] = "waiting" /\ waiter'[v] = "woken"

\* workqueue_put wakes at most waiting threads.
LEMMA PutWoken ==
  ASSUME TypeOK, worker' \in PutWakes  PROVE Woken
<1>1. CASE num = 0
  <2>1. worker' \in SignalOne(worker, "get")  BY <1>1 DEF PutWakes
  <2>2. worker \in [Threads -> WorkerStates]  BY DEF TypeOK, WorkerStates
  <2>3. "get" \in WorkerStates  BY DEF WorkerStates
  <2> QED  BY <2>1, <2>2, <2>3, SignalOneEffect DEF Woken
<1>2. CASE num # 0
  BY <1>2 DEF PutWakes, Woken, TypeOK, WorkerStates
<1> QED  BY <1>1, <1>2

\* workqueue_stop does too.
LEMMA StopWoken ==
  ASSUME TypeOK, worker' \in QueueStopWakes  PROVE Woken
<1>1. worker' = SignalAll(worker, "get")  BY DEF QueueStopWakes
<1>2. worker \in [Threads -> WorkerStates]  BY DEF TypeOK, WorkerStates
<1>3. "get" \in WorkerStates  BY DEF WorkerStates
<1> QED  BY <1>1, <1>2, <1>3 DEF SignalAll, Woken

\* The signal to threadpool_wait wakes at most waiting callers.
LEMMA WaitersWoken ==
  ASSUME TypeOK, NEW stopped \in BOOLEAN, waiter' \in StopWakes(stopped)
  PROVE  WokenWaiters
<1>1. CASE stopped
  <2>1. waiter' \in SignalOne(waiter, "woken")  BY <1>1 DEF StopWakes
  <2>2. waiter \in [Waiters -> WaiterStates]  BY DEF TypeOK, WaiterStates
  <2>3. "woken" \in WaiterStates  BY DEF WaiterStates
  <2> QED  BY <2>1, <2>2, <2>3, SignalOneEffect DEF WokenWaiters
<1>2. CASE ~stopped
  BY <1>2 DEF StopWakes, WokenWaiters, TypeOK, WaiterStates
<1> QED  BY <1>1, <1>2

----------------------------------------------------------------------------
(* The inductive invariant.                                                *)

AliveSet == {w \in Threads : Alive(w)}

\* Sets of threads have a cardinality.
LEMMA ThreadsFinite == IsFiniteSet(Threads) /\ \A S : S \subseteq Threads => IsFiniteSet(S)
<1>1. IsFiniteSet(Threads)  BY FS_Interval, ThreadpoolAssumption DEF Threads
<1> QED  BY <1>1, FS_Subset

\* Initially the invariant holds.
LEMMA InitIInv == Init => IInv
<1> SUFFICES ASSUME Init PROVE IInv  OBVIOUS
<1>1. TypeOK  BY ThreadpoolAssumption DEF Init, TypeOK, Statuses
<1>2. Counters
  <2>1. {w \in Threads : Alive(w)} = {}  BY DEF Init, Alive
  <2> QED  BY <2>1, FS_EmptySet DEF Init, Counters
<1>3. WorkInv /\ LockInv /\ StopInv  BY DEF Init, WorkInv, LockInv, StopInv
<1>4. SlotInv  BY ThreadpoolAssumption DEF Init, SlotInv, Threads
<1> QED  BY <1>1, <1>2, <1>3, <1>4 DEF IInv

\* A threadpool_submit that returns -1 keeps the invariant.
LEMMA SubmitFailsIInv ==
  ASSUME IInv, NEW t \in Tasks, SubmitFails(t)  PROVE IInv'
BY DEF IInv, SubmitFails, TypeOK, Counters, WorkInv, SlotInv, LockInv, StopInv,
       queueVars, poolVars, LockFree, Alive

\* So does one that takes the lock: a thread it starts is a fresh one.
LEMMA SubmitBeginIInv ==
  ASSUME IInv, NEW t \in Tasks, SubmitBegin(t)  PROVE IInv'
<1> USE ThreadpoolAssumption DEF IInv
<1> DEFINE new == threads_num + 1
<1>0. status = "RUNNING" /\ UNCHANGED <<list, num, wqstatus, status, work, waiter, accepted, rejected, runs>>
  BY DEF SubmitBegin, queueVars, taskVars
<1>1. CASE ~BelowLimit
  <2>1. UNCHANGED <<worker, threads_num>>  BY <1>1 DEF SubmitBegin
  <2>2. threads_num > 0  BY <1>1 DEF BelowLimit, TypeOK
  <2>3. TypeOK'  BY <1>0, <2>1 DEF TypeOK, SubmitBegin
  <2>4. Counters'  BY <1>0, <2>1 DEF Counters, Alive
  <2>5. WorkInv' /\ SlotInv' /\ StopInv'  BY <1>0, <2>1 DEF WorkInv, SlotInv, StopInv
  <2>6. LockInv'  BY <1>0, <2>1, <2>2 DEF LockInv, SubmitBegin, New
  <2> QED  BY <2>3, <2>4, <2>5, <2>6
<1>2. CASE BelowLimit
  <2>1. /\ worker' = [worker EXCEPT ![new] = "get"]
        /\ threads_num' = new
    BY <1>2 DEF SubmitBegin
  <2>2. new \in Threads /\ worker[new] = "none"
    BY <1>0, <1>2 DEF BelowLimit, TypeOK, Threads, SlotInv
  <2>3. TypeOK'  BY <1>0, <1>2, <2>1, <2>2 DEF TypeOK, SubmitBegin, BelowLimit
  <2>4. AliveSet' = AliveSet \cup {new} /\ new \notin AliveSet
    BY <2>1, <2>2 DEF AliveSet, Alive, TypeOK
  <2>5. Cardinality(AliveSet') = Cardinality(AliveSet) + 1
    <3>1. IsFiniteSet(AliveSet)  BY ThreadsFinite DEF AliveSet
    <3> QED  BY <3>1, <2>4, FS_AddElement
  <2>6. Counters'  BY <1>0, <2>1, <2>5 DEF Counters, AliveSet, TypeOK
  <2>7. WorkInv'  BY <1>0, <2>1, <2>2 DEF WorkInv, TypeOK
  <2>8. SlotInv'  BY <1>0, <2>1, <2>2 DEF SlotInv, TypeOK, Threads
  <2>9. StopInv'  BY <1>0, <2>1, <2>2 DEF StopInv, TypeOK
  <2>10. LockInv'  BY <1>0, <2>1 DEF LockInv, SubmitBegin, New, TypeOK
  <2> QED  BY <2>3, <2>6, <2>7, <2>8, <2>9, <2>10
<1> QED  BY <1>1, <1>2

\* workqueue_put keeps the invariant: the submit holds the lock of a running
\* pool that has a thread.
LEMMA SubmitPutIInv ==
  ASSUME IInv, SubmitPut  PROVE IInv'
<1> USE DEF IInv
<1>0. UNCHANGED <<wqstatus, threads_num, status, work, waiter, rejected, runs>>
  BY DEF SubmitPut, poolVars
<1>1. Woken  BY PutWoken DEF SubmitPut
<1>2. submitting \in Tasks /\ status = "RUNNING" /\ threads_num > 0
  BY DEF SubmitPut, LockInv, TypeOK
<1>3. TypeOK'  BY <1>0, <1>1, <1>2 DEF TypeOK, SubmitPut, Woken, WorkerStates
<1>4. AliveSet' = AliveSet  BY <1>1 DEF AliveSet, Alive, Woken
<1>5. Counters'
  <2>1. num' = Len(list')  BY <1>2 DEF Counters, SubmitPut, TypeOK
  <2> QED  BY <1>0, <1>4, <2>1 DEF Counters, AliveSet
<1>6. WorkInv' /\ SlotInv'  BY <1>0, <1>1 DEF WorkInv, SlotInv, Woken
<1>7. StopInv'  BY <1>0, <1>1, <1>2 DEF StopInv, Woken, SubmitPut, SlotInv
<1>8. LockInv'  BY DEF LockInv, SubmitPut
<1> QED  BY <1>3, <1>5, <1>6, <1>7, <1>8

\* Taking the first entry off the queue keeps the invariant.
LEMMA GetIInv ==
  ASSUME IInv, NEW w \in Threads, workqueue_get(w)  PROVE IInv'
<1> USE DEF IInv
<1>0. UNCHANGED <<wqstatus, threads_num, status, submitting, waiter, accepted, rejected, runs>>
  BY DEF workqueue_get, poolVars, taskVars
<1>1. list # <<>> /\ Head(list) \in Tasks /\ Tail(list) \in Seq(Tasks)
      /\ Len(Tail(list)) = Len(list) - 1
  BY DEF workqueue_get, Counters, TypeOK
<1>2. TypeOK'  BY <1>0, <1>1 DEF TypeOK, workqueue_get, Rest
<1>3. AliveSet' = AliveSet  BY DEF AliveSet, Alive, workqueue_get, TypeOK
<1>4. Counters'  BY <1>0, <1>1, <1>3 DEF Counters, AliveSet, workqueue_get, Rest, TypeOK
<1>5. WorkInv'  BY <1>0, <1>1 DEF WorkInv, workqueue_get, TypeOK
<1>6. SlotInv' /\ LockInv'  BY <1>0 DEF SlotInv, LockInv, workqueue_get, TypeOK
<1>7. StopInv'  BY <1>0 DEF StopInv, workqueue_get, TypeOK
<1> QED  BY <1>2, <1>4, <1>5, <1>6, <1>7

\* A thread that finds the queue empty waits, or leaves when it is stopped.
LEMMA IdleIInv ==
  ASSUME IInv, NEW w \in Threads, WorkerIdle(w)  PROVE IInv'
<1> USE DEF IInv
<1>0. UNCHANGED <<list, num, wqstatus, threads_num, status, submitting, work, waiter, accepted, rejected, runs>>
  BY DEF WorkerIdle, poolVars, taskVars, queueVars
<1>1. TypeOK'  BY <1>0 DEF TypeOK, WorkerIdle
<1>2. AliveSet' = AliveSet  BY DEF AliveSet, Alive, WorkerIdle, TypeOK
<1>3. Counters'  BY <1>0, <1>2 DEF Counters, AliveSet
<1>4. WorkInv' /\ LockInv'  BY <1>0 DEF WorkInv, LockInv, WorkerIdle, TypeOK
<1>5. SlotInv'  BY <1>0 DEF SlotInv, StopInv, WorkerIdle, TypeOK
<1>6. StopInv'  BY <1>0 DEF StopInv, WorkerIdle, NothingToGet, TypeOK
<1> QED  BY <1>1, <1>3, <1>4, <1>5, <1>6

\* A spurious wakeup keeps the invariant.
LEMMA WakeupIInv ==
  ASSUME IInv, NEW w \in Threads, WorkerSpuriousWakeup(w)  PROVE IInv'
<1> USE DEF IInv
<1>0. UNCHANGED <<list, num, wqstatus, threads_num, status, submitting, work, waiter, accepted, rejected, runs>>
  BY DEF WorkerSpuriousWakeup, poolVars, taskVars, queueVars
<1>1. TypeOK'  BY <1>0 DEF TypeOK, WorkerSpuriousWakeup
<1>2. AliveSet' = AliveSet  BY DEF AliveSet, Alive, WorkerSpuriousWakeup, TypeOK
<1>3. Counters'  BY <1>0, <1>2 DEF Counters, AliveSet
<1>4. WorkInv' /\ LockInv'  BY <1>0 DEF WorkInv, LockInv, WorkerSpuriousWakeup, TypeOK
<1>5. SlotInv' /\ StopInv'  BY <1>0 DEF SlotInv, StopInv, WorkerSpuriousWakeup, TypeOK
<1> QED  BY <1>1, <1>3, <1>4, <1>5

\* Running a task keeps the invariant.
LEMMA DoWorkIInv ==
  ASSUME IInv, NEW w \in Threads, do_work(w)  PROVE IInv'
<1> USE DEF IInv
<1>0. UNCHANGED <<list, num, wqstatus, threads_num, status, submitting, waiter, accepted, rejected>>
  BY DEF do_work, poolVars, queueVars
<1>1. work[w] \in Tasks  BY DEF do_work, WorkInv
<1>2. TypeOK'  BY <1>0, <1>1 DEF TypeOK, do_work
<1>3. AliveSet' = AliveSet  BY DEF AliveSet, Alive, do_work, TypeOK
<1>4. Counters'  BY <1>0, <1>3 DEF Counters, AliveSet
<1>5. WorkInv' /\ LockInv'  BY <1>0 DEF WorkInv, LockInv, do_work, TypeOK
<1>6. SlotInv' /\ StopInv'  BY <1>0 DEF SlotInv, StopInv, do_work, TypeOK
<1> QED  BY <1>2, <1>4, <1>5, <1>6

\* The end of worker_fn keeps the invariant: the thread leaves an empty
\* queue, and the last one stops the pool.
LEMMA ExitIInv ==
  ASSUME IInv, NEW w \in Threads, WorkerExit(w)  PROVE IInv'
<1> USE DEF IInv
<1>0. UNCHANGED <<list, num, wqstatus, submitting, work, accepted, rejected, runs>>
  BY DEF WorkerExit, taskVars, queueVars
<1>1. WokenWaiters
  BY WaitersWoken DEF WorkerExit
<1>2. AliveSet' = AliveSet \ {w} /\ w \in AliveSet
  BY DEF AliveSet, Alive, WorkerExit, TypeOK
<1>3. Cardinality(AliveSet') = threads_num - 1 /\ threads_num > 0
  <2>1. IsFiniteSet(AliveSet)  BY ThreadsFinite DEF AliveSet
  <2>2. Cardinality(AliveSet') = Cardinality(AliveSet) - 1  BY <2>1, <1>2, FS_RemoveElement
  <2>3. AliveSet # {}  BY <1>2
  <2>4. Cardinality(AliveSet) # 0  BY <2>1, <2>3, FS_EmptySet
  <2> QED  BY <2>2, <2>4 DEF Counters, AliveSet, TypeOK
<1>4. TypeOK'
  <2>1. threads_num' \in 0 .. MaxThreads
    BY <1>3, ThreadpoolAssumption DEF TypeOK, WorkerExit
  <2>2. status' \in Statuses  BY DEF TypeOK, WorkerExit, Statuses
  <2>3. worker' \in [Threads -> WorkerStates]  BY DEF TypeOK, WorkerExit, WorkerStates
  <2> QED  BY <1>0, <1>1, <2>1, <2>2, <2>3 DEF TypeOK, WorkerStates, WokenWaiters, WaiterStates
<1>5. Counters'  BY <1>0, <1>3 DEF Counters, AliveSet, WorkerExit
<1>6. status # "RUNNING" /\ num = 0  BY DEF WorkerExit, StopInv
<1>7. WorkInv' /\ SlotInv' /\ LockInv'
  BY <1>0, <1>6 DEF WorkInv, SlotInv, LockInv, WorkerExit, LockFree, TypeOK
<1>8. StopInv'  BY <1>0, <1>1, <1>3, <1>6 DEF StopInv, WorkerExit, TypeOK, WokenWaiters
<1> QED  BY <1>4, <1>5, <1>7, <1>8

\* threadpool_shutdown keeps the invariant, also when called again.
LEMMA ShutdownIInv ==
  ASSUME IInv, threadpool_shutdown  PROVE IInv'
<1> USE DEF IInv
<1>0. UNCHANGED <<list, num, threads_num, submitting, work, accepted, rejected, runs>>
  BY DEF threadpool_shutdown, taskVars
<1>1. WokenWaiters  BY WaitersWoken DEF threadpool_shutdown
<1>2. Woken  BY StopWoken DEF threadpool_shutdown
<1>3. status' \in {"STOPPING", "STOPPED"} /\ (status' = "STOPPED" <=> threads_num = 0)
  BY DEF threadpool_shutdown, StatusAfterShutdown
<1>4. TypeOK'
  BY <1>0, <1>1, <1>2, <1>3 DEF TypeOK, threadpool_shutdown, Woken, WorkerStates,
     WokenWaiters, WaiterStates, Statuses
<1>5. AliveSet' = AliveSet  BY <1>2 DEF AliveSet, Alive, Woken
<1>6. Counters'  BY <1>0, <1>5 DEF Counters, AliveSet
<1>7. WorkInv' /\ SlotInv' /\ LockInv'
  BY <1>0, <1>2, <1>3 DEF WorkInv, SlotInv, LockInv, threadpool_shutdown, LockFree, Woken
<1>8. StopInv'
  BY <1>0, <1>1, <1>2, <1>3 DEF StopInv, threadpool_shutdown, TypeOK, Woken, WokenWaiters
<1> QED  BY <1>4, <1>6, <1>7, <1>8

\* The steps of threadpool_wait keep the invariant.
LEMMA WaitIInv ==
  ASSUME IInv, NEW v \in Waiters, threadpool_wait(v) \/ WaiterSpuriousWakeup(v)
  PROVE  IInv'
<1> USE DEF IInv
<1>0. UNCHANGED <<list, num, wqstatus, threads_num, status, submitting, worker, work, accepted, rejected, runs>>
  BY DEF threadpool_wait, WaiterSpuriousWakeup, poolVars, taskVars, queueVars
<1>1. TypeOK'  BY <1>0 DEF TypeOK, threadpool_wait, WaiterSpuriousWakeup
<1>2. Counters'  BY <1>0 DEF Counters, Alive
<1>3. WorkInv' /\ LockInv' /\ SlotInv'  BY <1>0 DEF WorkInv, LockInv, SlotInv
<1>4. StopInv'  BY <1>0 DEF StopInv, threadpool_wait, WaiterSpuriousWakeup, TypeOK
<1> QED  BY <1>1, <1>2, <1>3, <1>4

\* Every step keeps the invariant.
LEMMA NextIInv == IInv /\ [Next]_vars => IInv'
<1> SUFFICES ASSUME IInv, [Next]_vars PROVE IInv'  OBVIOUS
<1>1. ASSUME NEW t \in Tasks, SubmitFails(t) PROVE IInv'  BY <1>1, SubmitFailsIInv
<1>2. ASSUME NEW t \in Tasks, SubmitBegin(t) PROVE IInv'  BY <1>2, SubmitBeginIInv
<1>3. CASE SubmitPut  BY <1>3, SubmitPutIInv
<1>4. ASSUME NEW w \in Threads, workqueue_get(w) PROVE IInv'  BY <1>4, GetIInv
<1>5. ASSUME NEW w \in Threads, WorkerIdle(w) PROVE IInv'  BY <1>5, IdleIInv
<1>6. ASSUME NEW w \in Threads, WorkerSpuriousWakeup(w) PROVE IInv'  BY <1>6, WakeupIInv
<1>7. ASSUME NEW w \in Threads, do_work(w) PROVE IInv'  BY <1>7, DoWorkIInv
<1>8. ASSUME NEW w \in Threads, WorkerExit(w) PROVE IInv'  BY <1>8, ExitIInv
<1>9. CASE threadpool_shutdown  BY <1>9, ShutdownIInv
<1>10. ASSUME NEW v \in Waiters, threadpool_wait(v) \/ WaiterSpuriousWakeup(v) PROVE IInv'
  BY <1>10, WaitIInv
<1>11. CASE UNCHANGED vars
  BY <1>11 DEF vars, queueVars, poolVars, taskVars, IInv, TypeOK, Counters, Alive,
     WorkInv, SlotInv, LockInv, StopInv
<1> QED
  BY <1>1, <1>2, <1>3, <1>4, <1>5, <1>6, <1>7, <1>8, <1>9, <1>10, <1>11 DEF Next

\* The strengthened invariant holds in every reachable state of the pool.
THEOREM PoolInvariant == Spec => []IInv
<1>1. Init => IInv  BY InitIInv
<1>2. IInv /\ [Next]_vars => IInv'  BY NextIInv
<1> QED  BY <1>1, <1>2, PTL DEF Spec

\* The pool is type correct: the C variables stay within their ranges, and
\* threads_num within 0 .. max_threads.
THEOREM PoolTypeOK == Spec => []TypeOK
<1>1. IInv => TypeOK  BY DEF IInv
<1> QED  BY <1>1, PoolInvariant, PTL

\* num counts the queue and threads_num the threads, for every number of
\* threads and tasks.
THEOREM PoolCounters == Spec => []Counters
<1>1. IInv => Counters  BY DEF IInv
<1> QED  BY <1>1, PoolInvariant, PTL

\* create_new_thread always writes a fresh entry of threads[].
THEOREM PoolThreadSlotsFresh == Spec => ThreadSlotsFresh
<1>1. IInv /\ [Next]_vars => [threads_num' > threads_num => worker[threads_num + 1] = "none"]_vars
  <2> SUFFICES ASSUME IInv, [Next]_vars, threads_num' > threads_num
               PROVE  worker[threads_num + 1] = "none"
    OBVIOUS
  <2> USE DEF IInv, TypeOK
  <2>1. ASSUME NEW t \in Tasks, SubmitBegin(t) PROVE worker[threads_num + 1] = "none"
    BY <2>1, ThreadpoolAssumption DEF SubmitBegin, BelowLimit, SlotInv, Threads
  <2>2. ASSUME NEW w \in Threads, WorkerExit(w) PROVE FALSE
    BY <2>2 DEF WorkerExit
  <2> QED
    BY <2>1, <2>2 DEF Next, SubmitFails, SubmitPut, workqueue_get, WorkerIdle,
       WorkerSpuriousWakeup, do_work, threadpool_shutdown, threadpool_wait,
       WaiterSpuriousWakeup, vars, poolVars
<1> QED  BY <1>1, PoolInvariant, PTL DEF Spec, ThreadSlotsFresh

----------------------------------------------------------------------------
(* Every accepted task in one place, once.                                 *)

\* What the queue holds after an append.
LEMMA AppendRange ==
  ASSUME NEW s \in Seq(Tasks), NEW t \in Tasks
  PROVE  /\ DOMAIN s = 1 .. Len(s) /\ Len(s) \in Nat
         /\ DOMAIN Append(s, t) = 1 .. Len(s) + 1
         /\ \A i \in 1 .. Len(s) : Append(s, t)[i] = s[i]
         /\ Append(s, t)[Len(s) + 1] = t
OBVIOUS

\* What the queue holds when its first entry is gone.
LEMMA TailRange ==
  ASSUME NEW s \in Seq(Tasks), s # <<>>
  PROVE  /\ DOMAIN s = 1 .. Len(s) /\ Len(s) \in Nat \ {0}
         /\ DOMAIN Tail(s) = 1 .. Len(s) - 1
         /\ \A i \in 1 .. Len(s) - 1 : Tail(s)[i] = s[i + 1]
         /\ Head(s) = s[1]
OBVIOUS

\* A step that moves no task keeps TaskRunsOnce: a wakeup, a thread that
\* starts, waits or ends, a caller of threadpool_wait.
LEMMA NoTaskMoved ==
  ASSUME TaskRunsOnce, UNCHANGED <<list, work, accepted, runs>>,
         \A w \in Threads : worker'[w] = "run" <=> worker[w] = "run",
         accepted \cap rejected' = {}
  PROVE  TaskRunsOnce'
<1>1. Queued' = Queued /\ Done' = Done  BY DEF Queued, Done
<1>2. Running' = Running  BY DEF Running
<1> QED  BY <1>1, <1>2 DEF TaskRunsOnce

\* workqueue_put moves the task being submitted to the queue.
LEMMA SubmitPutOnce ==
  ASSUME IInv, TaskRunsOnce, SubmitPut  PROVE TaskRunsOnce'
<1> USE DEF IInv
<1>0. UNCHANGED <<work, rejected, runs>>  BY DEF SubmitPut
<1>1. submitting \in Tasks /\ submitting \notin accepted \cup rejected
  BY DEF SubmitPut, LockInv, TypeOK
<1>2. list' = Append(list, submitting) /\ accepted' = accepted \cup {submitting}
  BY DEF SubmitPut
<1>3. Running' = Running
  <2>1. Woken  BY PutWoken DEF SubmitPut
  <2> QED  BY <1>0, <2>1 DEF Running, Woken
<1>4. Done' = Done  BY <1>0 DEF Done
<1>5. list \in Seq(Tasks)  BY DEF TypeOK
<1>6. Queued' = Queued \cup {submitting}
  BY <1>1, <1>2, <1>5, AppendRange DEF Queued
<1>7. submitting \notin Queued \cup Running \cup Done  BY <1>1 DEF TaskRunsOnce
<1>8. \A i, j \in DOMAIN list' : list'[i] = list'[j] => i = j
  <2>1. \A i \in DOMAIN list : list[i] # submitting  BY <1>7 DEF Queued
  <2> QED  BY <1>1, <1>2, <1>5, <2>1, AppendRange DEF TaskRunsOnce
<1>9. \A w, v \in Threads :
        worker'[w] = "run" /\ worker'[v] = "run" /\ work'[w] = work'[v] => w = v
  <2>1. Woken  BY PutWoken DEF SubmitPut
  <2> QED  BY <1>0, <2>1 DEF TaskRunsOnce, Woken
<1> QED  BY <1>0, <1>1, <1>2, <1>3, <1>4, <1>6, <1>7, <1>8, <1>9 DEF TaskRunsOnce

\* workqueue_get moves the first queued task to one worker.
LEMMA GetOnce ==
  ASSUME IInv, TaskRunsOnce, NEW w \in Threads, workqueue_get(w)  PROVE TaskRunsOnce'
<1> USE DEF IInv
<1>0. UNCHANGED <<accepted, rejected, runs>>  BY DEF workqueue_get, taskVars
<1>1. list # <<>> /\ list \in Seq(Tasks)  BY DEF workqueue_get, Counters, TypeOK
<1>2. /\ list' = Tail(list)
      /\ work' = [work EXCEPT ![w] = Head(list)]
      /\ worker' = [worker EXCEPT ![w] = "run"]
      /\ worker[w] = "get"
  BY DEF workqueue_get, Rest
<1>3. Head(list) \in Queued  BY <1>1, TailRange DEF Queued
<1>4. Queued' = Queued \ {Head(list)}
  <2>1. Queued' \subseteq Queued  BY <1>1, <1>2, TailRange DEF Queued
  <2>2. Head(list) \notin Queued'
    BY <1>1, <1>2, TailRange DEF Queued, TaskRunsOnce
  <2>3. ASSUME NEW i \in DOMAIN list, list[i] # Head(list)  PROVE list[i] \in Queued'
    <3>1. i - 1 \in DOMAIN Tail(list) /\ Tail(list)[i - 1] = list[i]
      BY <1>1, <2>3, TailRange
    <3> QED  BY <3>1, <1>2 DEF Queued
  <2> QED  BY <2>1, <2>2, <2>3 DEF Queued
<1>5. Running' = Running \cup {Head(list)}
  BY <1>2 DEF Running, TypeOK
<1>6. Done' = Done  BY <1>0 DEF Done
<1>7. \A i, j \in DOMAIN list' : list'[i] = list'[j] => i = j
  BY <1>1, <1>2, TailRange DEF TaskRunsOnce
<1>8. \A u, v \in Threads :
        worker'[u] = "run" /\ worker'[v] = "run" /\ work'[u] = work'[v] => u = v
  <2>1. \A v \in Threads : worker[v] = "run" => work[v] # Head(list)
    BY <1>3 DEF TaskRunsOnce, Running
  <2> QED  BY <1>2, <2>1 DEF TaskRunsOnce, TypeOK
<1> QED  BY <1>0, <1>3, <1>4, <1>5, <1>6, <1>7, <1>8 DEF TaskRunsOnce

\* do_work moves a worker's task to the finished ones.
LEMMA DoWorkOnce ==
  ASSUME IInv, TaskRunsOnce, NEW w \in Threads, do_work(w)  PROVE TaskRunsOnce'
<1> USE DEF IInv
<1>0. UNCHANGED <<list, accepted, rejected>>  BY DEF do_work, queueVars
<1>1. work[w] \in Tasks /\ worker[w] = "run" /\ work[w] \in Running
  BY DEF do_work, WorkInv, Running
<1>2. /\ runs' = [runs EXCEPT ![work[w]] = runs[work[w]] + 1]
      /\ work' = [work EXCEPT ![w] = NoTask]
      /\ worker' = [worker EXCEPT ![w] = "get"]
  BY DEF do_work
<1>3. Queued' = Queued  BY <1>0 DEF Queued
<1>4. Running' = Running \ {work[w]}
  BY <1>1, <1>2 DEF Running, TypeOK, TaskRunsOnce
<1>5. runs[work[w]] = 0
  BY <1>1 DEF TaskRunsOnce, Done, TypeOK
<1>6. Done' = Done \cup {work[w]}
  BY <1>1, <1>2, <1>5 DEF Done, TypeOK
<1>7. \A t \in Tasks : runs'[t] <= 1
  BY <1>1, <1>2, <1>5 DEF TypeOK, TaskRunsOnce
<1>8. \A u, v \in Threads :
        worker'[u] = "run" /\ worker'[v] = "run" /\ work'[u] = work'[v] => u = v
  BY <1>2 DEF TaskRunsOnce, TypeOK
<1> QED  BY <1>0, <1>1, <1>3, <1>4, <1>6, <1>7, <1>8 DEF TaskRunsOnce

\* No step of the pool loses, duplicates or repeats a task.
LEMMA NextOnce == IInv /\ TaskRunsOnce /\ [Next]_vars => TaskRunsOnce'
<1> SUFFICES ASSUME IInv, TaskRunsOnce, [Next]_vars PROVE TaskRunsOnce'  OBVIOUS
<1>0. accepted \cap rejected = {} /\ worker \in [Threads -> WorkerStates]
  BY DEF TaskRunsOnce, IInv, TypeOK, WorkerStates
<1>1. ASSUME NEW t \in Tasks, SubmitFails(t) PROVE TaskRunsOnce'
  BY <1>0, <1>1, NoTaskMoved DEF SubmitFails, New, queueVars
<1>2. ASSUME NEW t \in Tasks, SubmitBegin(t) PROVE TaskRunsOnce'
  <2>1. \A w \in Threads : worker'[w] = "run" <=> worker[w] = "run"
    BY <1>0, <1>2, ThreadpoolAssumption DEF SubmitBegin, BelowLimit, SlotInv, IInv, TypeOK, Threads
  <2> QED  BY <1>0, <1>2, <2>1, NoTaskMoved DEF SubmitBegin, queueVars, taskVars
<1>3. CASE SubmitPut  BY <1>3, SubmitPutOnce
<1>4. ASSUME NEW w \in Threads, workqueue_get(w) PROVE TaskRunsOnce'  BY <1>4, GetOnce
<1>5. ASSUME NEW w \in Threads, WorkerIdle(w) \/ WorkerSpuriousWakeup(w) PROVE TaskRunsOnce'
  BY <1>0, <1>5, NoTaskMoved DEF WorkerIdle, WorkerSpuriousWakeup, queueVars, taskVars
<1>6. ASSUME NEW w \in Threads, do_work(w) PROVE TaskRunsOnce'  BY <1>6, DoWorkOnce
<1>7. ASSUME NEW w \in Threads, WorkerExit(w) PROVE TaskRunsOnce'
  BY <1>0, <1>7, NoTaskMoved DEF WorkerExit, queueVars, taskVars
<1>8. CASE threadpool_shutdown
  <2>1. Woken  BY <1>8, StopWoken DEF threadpool_shutdown, IInv
  <2> QED  BY <1>0, <1>8, <2>1, NoTaskMoved DEF threadpool_shutdown, Woken, taskVars
<1>9. ASSUME NEW v \in Waiters, threadpool_wait(v) \/ WaiterSpuriousWakeup(v) PROVE TaskRunsOnce'
  BY <1>0, <1>9, NoTaskMoved DEF threadpool_wait, WaiterSpuriousWakeup, queueVars, taskVars
<1>10. CASE UNCHANGED vars
  BY <1>0, <1>10, NoTaskMoved DEF vars, queueVars, taskVars
<1> QED
  BY <1>1, <1>2, <1>3, <1>4, <1>5, <1>6, <1>7, <1>8, <1>9, <1>10 DEF Next

\* An accepted task is on the queue, with one worker or finished after one
\* run, and a refused one is nowhere, whatever the number of threads.
THEOREM PoolTaskRunsOnce == Spec => []TaskRunsOnce
<1>1. Init => TaskRunsOnce
  BY DEF Init, TaskRunsOnce, Queued, Running, Done
<1>2. IInv /\ TaskRunsOnce /\ [Next]_vars => TaskRunsOnce'  BY NextOnce
<1> QED  BY <1>1, <1>2, PoolInvariant, PTL DEF Spec

\* Between them the two invariants say that a stopped pool is drained.
LEMMA StoppedIsDrained == IInv /\ TaskRunsOnce => DrainBeforeStop
<1> SUFFICES ASSUME IInv, TaskRunsOnce, status = "STOPPED"
             PROVE  accepted = Done /\ \A w \in Threads : ~Alive(w)
  BY DEF DrainBeforeStop, IInv, StopInv
<1>1. threads_num = 0 /\ num = 0  BY DEF IInv, StopInv, TypeOK
<1>2. AliveSet = {}
  <2>1. IsFiniteSet(AliveSet)  BY ThreadsFinite DEF AliveSet
  <2>2. Cardinality(AliveSet) = 0  BY <1>1 DEF IInv, Counters, AliveSet
  <2> QED  BY <2>1, <2>2, FS_EmptySet
<1>3. \A w \in Threads : ~Alive(w)  BY <1>2 DEF AliveSet
<1>4. Running = {}  BY <1>3 DEF Running, Alive
<1>5. Queued = {}
  <2>1. list \in Seq(Tasks) /\ Len(list) = 0  BY <1>1 DEF IInv, Counters, TypeOK
  <2> QED  BY <2>1 DEF Queued
<1> QED  BY <1>3, <1>4, <1>5 DEF TaskRunsOnce

\* threadpool_wait returns only when every accepted task has run and every
\* thread is gone.
THEOREM PoolDrainBeforeStop == Spec => []DrainBeforeStop
BY PoolInvariant, PoolTaskRunsOnce, StoppedIsDrained, PTL

----------------------------------------------------------------------------
(* No lost wakeup, though workqueue_put signals only an empty queue.       *)

\* While a submit holds the lock some thread is past its start and not
\* leaving.
LEMMA SubmitHasThread ==
  ASSUME IInv, submitting # NoTask
  PROVE  \E w \in Threads : worker[w] \in {"get", "waiting", "run"}
<1>1. status = "RUNNING" /\ threads_num > 0  BY DEF IInv, LockInv
<1>2. AliveSet # {}
  <2>1. Cardinality(AliveSet) # 0  BY <1>1 DEF IInv, Counters, AliveSet, TypeOK
  <2> QED  BY <2>1, FS_EmptySet
<1>3. PICK w \in Threads : Alive(w)  BY <1>2 DEF AliveSet
<1>4. worker[w] \notin {"exit", "dead", "none"}
  BY <1>1, <1>3 DEF IInv, SlotInv, Alive
<1> QED  BY <1>4 DEF IInv, TypeOK

\* The signal of workqueue_put leaves a thread that will look at the queue:
\* the one it wakes or, when nobody waits, one that is up.
LEMMA PutKeepsAwake ==
  ASSUME IInv, NoLostWakeup, SubmitPut
  PROVE  \E w \in Threads : worker'[w] \in {"get", "run"}
<1>1. CASE num > 0
  <2>1. worker' = worker  BY <1>1 DEF SubmitPut, PutWakes, IInv, TypeOK
  <2> QED  BY <1>1, <2>1 DEF NoLostWakeup
<1>2. CASE num = 0
  <2>0. worker' \in SignalOne(worker, "get") /\ worker \in [Threads -> WorkerStates]
    BY <1>2 DEF SubmitPut, PutWakes, IInv, TypeOK, WorkerStates
  <2> DEFINE asleep == {x \in DOMAIN worker : worker[x] = "waiting"}
  <2>1. CASE asleep = {}
    <3>1. worker' = worker  BY <2>0, <2>1 DEF SignalOne
    <3>2. PICK w \in Threads : worker[w] \in {"get", "waiting", "run"}
      BY SubmitHasThread DEF SubmitPut
    <3>3. worker[w] # "waiting"  BY <2>0, <2>1
    <3> QED  BY <3>1, <3>2, <3>3
  <2>2. CASE asleep # {}
    <3>1. PICK x \in asleep : worker' = [worker EXCEPT ![x] = "get"]
      BY <2>0, <2>2 DEF SignalOne
    <3>2. x \in Threads  BY <2>0
    <3> QED  BY <2>0, <3>1, <3>2
  <2> QED  BY <2>1, <2>2
<1> QED  BY <1>1, <1>2 DEF IInv, TypeOK

\* No step leaves work on the queue and every thread asleep.
LEMMA NextAwake == IInv /\ NoLostWakeup /\ [Next]_vars => NoLostWakeup'
<1> SUFFICES ASSUME IInv, NoLostWakeup, [Next]_vars PROVE NoLostWakeup'  OBVIOUS
<1>0. num \in Nat /\ worker \in [Threads -> WorkerStates]
  BY DEF IInv, TypeOK, WorkerStates
<1>1. ASSUME NEW t \in Tasks, SubmitFails(t) PROVE NoLostWakeup'
  BY <1>1 DEF NoLostWakeup, SubmitFails, queueVars
<1>2. ASSUME NEW t \in Tasks, SubmitBegin(t) PROVE NoLostWakeup'
  BY <1>0, <1>2 DEF NoLostWakeup, SubmitBegin, queueVars
<1>3. CASE SubmitPut  BY <1>3, PutKeepsAwake DEF NoLostWakeup
<1>4. ASSUME NEW w \in Threads, workqueue_get(w) PROVE NoLostWakeup'
  BY <1>0, <1>4 DEF NoLostWakeup, workqueue_get
<1>5. ASSUME NEW w \in Threads, WorkerIdle(w) PROVE NoLostWakeup'
  BY <1>0, <1>5 DEF NoLostWakeup, WorkerIdle, NothingToGet, queueVars
<1>6. ASSUME NEW w \in Threads, WorkerSpuriousWakeup(w) PROVE NoLostWakeup'
  BY <1>0, <1>6 DEF NoLostWakeup, WorkerSpuriousWakeup, queueVars
<1>7. ASSUME NEW w \in Threads, do_work(w) PROVE NoLostWakeup'
  BY <1>0, <1>7 DEF NoLostWakeup, do_work, queueVars
<1>8. ASSUME NEW w \in Threads, WorkerExit(w) PROVE NoLostWakeup'
  BY <1>0, <1>8 DEF NoLostWakeup, WorkerExit, IInv, StopInv, queueVars
<1>9. CASE threadpool_shutdown
  <2>1. Woken  BY <1>9, StopWoken DEF threadpool_shutdown, IInv
  <2>2. num' = num  BY <1>9 DEF threadpool_shutdown
  <2> QED  BY <2>1, <2>2 DEF NoLostWakeup, Woken
<1>10. ASSUME NEW v \in Waiters, threadpool_wait(v) \/ WaiterSpuriousWakeup(v) PROVE NoLostWakeup'
  BY <1>10 DEF NoLostWakeup, threadpool_wait, WaiterSpuriousWakeup, queueVars
<1>11. CASE UNCHANGED vars
  BY <1>11 DEF NoLostWakeup, vars, queueVars
<1> QED
  BY <1>1, <1>2, <1>3, <1>4, <1>5, <1>6, <1>7, <1>8, <1>9, <1>10, <1>11 DEF Next

\* While there is work some thread is awake, so the signal on the transition
\* from empty is enough.
THEOREM PoolNoLostWakeup == Spec => []NoLostWakeup
<1>1. Init => NoLostWakeup  BY DEF Init, NoLostWakeup
<1>2. IInv /\ NoLostWakeup /\ [Next]_vars => NoLostWakeup'  BY NextAwake
<1> QED  BY <1>1, <1>2, PoolInvariant, PTL DEF Spec

----------------------------------------------------------------------------
(* The pool implements TaskService.                                        *)

\* Every step of the pool is a step of the service or leaves it alone.
LEMMA StepRefines ==
  ASSUME IInv, TaskRunsOnce, DrainBeforeStop', [Next]_vars
  PROVE  [Service!ServiceNext]_(Service!serviceVars)
<1> USE DEF IInv, Service!serviceVars
<1>0. status \in Statuses  BY DEF TypeOK
<1>1. ASSUME NEW t \in Tasks, SubmitFails(t) PROVE Service!Refuse(t)
  BY <1>1 DEF SubmitFails, New, Service!Refuse, Done, poolVars
<1>2. CASE SubmitPut
  <2>1. submitting \in Tasks /\ status = "RUNNING" /\ submitting \notin accepted \cup rejected
    BY <1>2 DEF SubmitPut, LockInv, TypeOK
  <2>2. Service!Accept(submitting)
    BY <1>2, <2>1 DEF SubmitPut, Service!Accept, Done, poolVars
  <2> QED  BY <2>1, <2>2 DEF Service!ServiceNext
<1>3. ASSUME NEW w \in Threads, do_work(w) PROVE Service!ServiceNext
  <2>1. work[w] \in Tasks /\ work[w] \in Running  BY <1>3 DEF do_work, WorkInv, Running
  <2>2. runs[work[w]] = 0 /\ work[w] \in accepted \ Done
    BY <2>1 DEF TaskRunsOnce, Done, TypeOK
  <2>3. Done' = Done \cup {work[w]}
    BY <1>3, <2>1, <2>2 DEF do_work, Done, TypeOK
  <2>4. Service!Perform(work[w])
    BY <1>3, <2>2, <2>3 DEF do_work, Service!Perform, poolVars
  <2> QED  BY <2>1, <2>4 DEF Service!ServiceNext
<1>4. ASSUME status' = "STOPPED", UNCHANGED <<accepted, rejected, runs>>
      PROVE  Service!Closed
  BY <1>4 DEF DrainBeforeStop, Service!Closed, Done
<1>5. ASSUME NEW w \in Threads, WorkerExit(w) PROVE [Service!ServiceNext]_(Service!serviceVars)
  <2>1. UNCHANGED <<accepted, rejected, runs>>  BY <1>5 DEF WorkerExit, taskVars
  <2>2. CASE status' = "STOPPED"  BY <1>4, <2>1, <2>2 DEF Service!ServiceNext
  <2>3. CASE status' = status  BY <2>1, <2>3 DEF Done
  <2> QED  BY <1>5, <2>2, <2>3 DEF WorkerExit
<1>6. CASE threadpool_shutdown
  <2>1. UNCHANGED <<accepted, rejected, runs>>  BY <1>6 DEF threadpool_shutdown, taskVars
  <2>2. CASE status' = "STOPPED"  BY <1>4, <2>1, <2>2 DEF Service!ServiceNext
  <2>3. CASE status' = "STOPPING" /\ status = "RUNNING"
    <3>1. Service!Close  BY <2>1, <2>3 DEF Service!Close, Done
    <3> QED  BY <3>1 DEF Service!ServiceNext
  <2>4. CASE status' = "STOPPING" /\ status = "STOPPING"  BY <2>1, <2>4 DEF Done
  <2>5. status' = "STOPPING" => status # "STOPPED"
    BY <1>6 DEF threadpool_shutdown, StatusAfterShutdown, StopInv
  <2> QED
    BY <1>0, <1>6, <2>2, <2>3, <2>4, <2>5 DEF threadpool_shutdown, StatusAfterShutdown, Statuses
<1>7. ASSUME UNCHANGED <<accepted, rejected, runs, status>>
      PROVE  UNCHANGED Service!serviceVars
  BY <1>7 DEF Done
<1>8. ASSUME NEW t \in Tasks, SubmitBegin(t) PROVE UNCHANGED Service!serviceVars
  BY <1>7, <1>8 DEF SubmitBegin, taskVars
<1>9. ASSUME NEW w \in Threads,
             workqueue_get(w) \/ WorkerIdle(w) \/ WorkerSpuriousWakeup(w)
      PROVE  UNCHANGED Service!serviceVars
  BY <1>7, <1>9 DEF workqueue_get, WorkerIdle, WorkerSpuriousWakeup, taskVars, poolVars
<1>10. ASSUME NEW v \in Waiters, threadpool_wait(v) \/ WaiterSpuriousWakeup(v)
       PROVE  UNCHANGED Service!serviceVars
  BY <1>7, <1>10 DEF threadpool_wait, WaiterSpuriousWakeup, taskVars, poolVars
<1>11. CASE UNCHANGED vars
  BY <1>7, <1>11 DEF vars, taskVars, poolVars
<1> QED
  BY <1>1, <1>2, <1>3, <1>5, <1>6, <1>8, <1>9, <1>10, <1>11 DEF Next, Service!ServiceNext

\* The pool implements TaskService for any tasks, callers and threads: its
\* threads, queue, locks and wakeups show the caller nothing but tasks
\* accepted or refused, performed once, and a stop after the last of them.
THEOREM PoolImplementsService == Spec => ServiceSpec
<1>1. Init => Service!ServiceInit
  BY DEF Init, Service!ServiceInit, Done
<1>2. IInv /\ TaskRunsOnce /\ DrainBeforeStop' /\ [Next]_vars
        => [Service!ServiceNext]_(Service!serviceVars)
  BY StepRefines
<1> QED
  BY <1>1, <1>2, PoolInvariant, PoolTaskRunsOnce, PoolDrainBeforeStop, PTL
     DEF Spec, ServiceSpec, Service!ServiceSpec

============================================================================
