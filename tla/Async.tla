------------------------------- MODULE Async --------------------------------
(***************************************************************************)
(* Coroutines that wait for futures: coroutine/asyncio/future.c, the       *)
(* blocking calls of coroutine/processor.c that the executor runs, and the *)
(* connections of coroutine/asyncio/streams.c. Composed with Scheduler,    *)
(* whose steps a coroutine takes while it is not inside one of these       *)
(* calls.                                                                  *)
(*                                                                         *)
(* The future of the k-th call of coroutine c is <<c, k>>. A future is     *)
(* finished by an executor thread, at any moment, or by a reader callback, *)
(* which the thread of the scheduler runs from its event loop. The         *)
(* executor is known by its contract (TaskService): an accepted task runs  *)
(* once, in any order with others. event_loop_add_reader and its dispatch  *)
(* are only declared in the repository; they are modelled by how streams.c *)
(* uses them: the callback registered last for a descriptor is called when *)
(* the descriptor is ready, until it is removed.                           *)
(*                                                                         *)
(* sched_co_resume takes no lock. What it reads of a list and what it      *)
(* stores there are separate steps of an executor thread. Its append may   *)
(* overlap with others and with the scheduler's pops; coroutines are lost  *)
(* then, as in Scheduler. If its list_del overlaps with a change of the    *)
(* same list nothing is known of the lists any more (fault "race").        *)
(***************************************************************************)
EXTENDS Scheduler

CONSTANT Calls   \* bound on the futures the coroutines make, together

ASSUME AsyncAssumption == Calls \in Nat

Futures == Cos \X (1 .. Calls)
CoOf(f) == f[1]

VARIABLES
  await,    \* where a coroutine is: "idle", outside the calls, or a step of
            \* future_await
  calls,    \* how many futures a coroutine has made
  fstatus,  \* f->status, "none" before the future exists, "freed" after
  job,      \* who finishes a future, and how far it has got
  co_queue, \* the coroutines future_await has put on sched->co_queue
  readers,  \* the futures the registered reader callbacks will finish
  hand,     \* sched_co_resume on an executor thread: the scheduler, what it
            \* has read of the coroutine's list, and the last ready coroutine
  unwaited  \* history: the coroutines that found a future finished and did
            \* not wait for it

asyncVars == <<await, calls, fstatus, job, co_queue, readers, hand, unwaited>>
allVars == <<vars, asyncVars>>

NoHand == [to |-> 1, seen |-> <<>>, prev |-> NoCo]

AsyncInit ==
  /\ Init
  /\ await = [c \in Cos |-> "idle"]
  /\ calls = [c \in Cos |-> 0]
  /\ fstatus = [f \in Futures |-> "none"]
  /\ job = [f \in Futures |-> "none"]
  /\ co_queue = [s \in Scheds |-> {}]
  /\ readers = [s \in Scheds |-> {}]
  /\ hand = [f \in Futures |-> NoHand]
  /\ unwaited = {}

\* The future coroutine c waits for.
Awaited(c) == <<c, calls[c]>>
JobGoes(f, step) == job' = [job EXCEPT ![f] = step]

\* Scheduler s runs a coroutine that is at the given step.
RunsAt(s, step) == Ok /\ pc[s] = "run" /\ await[co_curr[s]] = step

----------------------------------------------------------------------------
(* Calls of a running coroutine. A definition whose name starts with Bad   *)
(* is a slip a change of the next definition could make; no specification  *)
(* uses it.                                                                *)

\* future_create: the future the coroutine on s makes next.
NewFuture(s) == <<co_curr[s], calls[co_curr[s]] + 1>>

\* The future is known to nobody before the call hands it on, in the same
\* step.
processors_create_co_future(s, who) ==
  LET c == co_curr[s]
      f == NewFuture(s)
  IN  /\ RunsAt(s, "idle")
      /\ Cardinality({g \in Futures : fstatus[g] # "none"}) < Calls
      /\ calls' = [calls EXCEPT ![c] = @ + 1]
      /\ fstatus' = [fstatus EXCEPT ![f] = "PENDING"]
      /\ JobGoes(f, who)
      /\ await' = [await EXCEPT ![c] = "test"]
      /\ UNCHANGED <<vars, co_queue, hand, unwaited>>

\* The result of threadpool_submit is not looked at.
processors_getaddrinfo(s) ==
  /\ \E who \in {"queued", "refused"} : processors_create_co_future(s, who)
  /\ UNCHANGED readers

\* f is what the callback registered for a descriptor will finish; old are
\* those it took the place of.
event_loop_add_reader(s, f, old) ==
  readers' = [readers EXCEPT ![s] = (@ \ old) \cup {f}]

\* The coroutines of a scheduler read from one connection. conn->rwaiter is
\* what the callback finishes: a second read takes the place of the first.
connection_read(s) ==
  /\ processors_create_co_future(s, "read")
  /\ event_loop_add_reader(s, NewFuture(s), {f \in readers[s] : job[f] = "read"})

\* Every attempt has a descriptor of its own.
async_tcp_connect(s) ==
  /\ processors_create_co_future(s, "connect")
  /\ event_loop_add_reader(s, NewFuture(s), {})

\* connect is in progress: without that the call returns and nothing has
\* changed. What the future brings is not looked at.
asyncio_open_connection(s) == async_tcp_connect(s)

\* future_await up to the test. A finished future is taken and freed.
AwaitTest(s) ==
  LET c == co_curr[s]
      finished == fstatus[Awaited(c)] = "FINISHED"
  IN  /\ RunsAt(s, "test")
      /\ await' = [await EXCEPT ![c] = IF finished THEN "idle" ELSE "suspend"]
      /\ fstatus' = [fstatus EXCEPT ![Awaited(c)] = IF finished THEN "freed" ELSE @]
      /\ unwaited' = IF finished THEN unwaited \cup {c} ELSE unwaited
      /\ UNCHANGED <<vars, calls, job, co_queue, readers, hand>>

\* processors_await: sched_suspend_coroutine puts the coroutine on co_queue ...
AwaitQueue(s) ==
  /\ RunsAt(s, "suspend") /\ lock[s] = Nobody
  /\ co_queue' = [co_queue EXCEPT ![s] = @ \cup {co_curr[s]}]
  /\ await' = [await EXCEPT ![co_curr[s]] = "queued"]
  /\ UNCHANGED <<vars, calls, fstatus, job, readers, hand, unwaited>>

\* ... and schedule_yield_coroutine leaves it. From the unlock on it may be
\* resumed.
AwaitSwap(s) ==
  /\ RunsAt(s, "queued")
  /\ await' = [await EXCEPT ![co_curr[s]] = "waiting"]
  /\ costatus' = [costatus EXCEPT ![co_curr[s]] = "WAITING"]
  /\ Goto(s, "loop")
  /\ UNCHANGED <<schedVars, append, life, left, procVars, fault,
                 calls, fstatus, job, co_queue, readers, hand, unwaited>>

\* The coroutine has been resumed: it takes the result, whatever the status,
\* and frees the future.
AwaitReturns(s) ==
  LET c == co_curr[s]
  IN  /\ RunsAt(s, "waiting")
      /\ await' = [await EXCEPT ![c] = "idle"]
      /\ fstatus' = [fstatus EXCEPT ![Awaited(c)] = "freed"]
      /\ UNCHANGED <<vars, calls, job, co_queue, readers, hand, unwaited>>

AsyncStep(s) ==
  \/ AwaitTest(s) \/ AwaitQueue(s) \/ AwaitSwap(s) \/ AwaitReturns(s)

----------------------------------------------------------------------------
(* future_set_result and its callback, sched_co_resume.                    *)

\* The status is left for after the callback.
BadFinished(f) == fstatus

\* The future is finished before the callback is looked at.
Finished(f) == [fstatus EXCEPT ![f] = "FINISHED"]

\* The schedulers that have co->list on one of their lists. After the
\* list_del of co_queue_popleft, while the coroutine runs, there is none and
\* co->list is poison.
ListedOn(c) ==
  {s \in Scheds : c \in co_queue[s] \cup timers[s] \cup {ready[s][i] : i \in DOMAIN ready[s]}}

OnReady(s, c) == \E i \in DOMAIN ready[s] : ready[s][i] = c

\* The list of scheduler s that co->list is on. The sleeping coroutines are
\* on co_queue too.
ListOf(s, c) ==
  IF OnReady(s, c) THEN <<"ready", ready[s], tail[s]>>
  ELSE <<"co_queue", co_queue[s], timers[s]>>

\* co->list is taken off the ready queue while a thread is about to link
\* another coroutine behind what it read of the queue.
DelDuringAppend(s, c) ==
  /\ OnReady(s, c)
  /\ \/ \E x \in Threads : /\ append[x].co # NoCo /\ append[x].to = s
                           /\ pc[x] \in {"submit", "yield", "resume"}
     \/ \E f \in Futures : job[f] = "link" /\ hand[f].to = s

\* What list_del of co->list meets: a coroutine that has ended is freed, one
\* that is on no list has poison for pointers, and one that sleeps is woken
\* with its timer still armed, which is not followed further.
ListDelFault(c) ==
  CASE life[c] = "done" -> "co"
    [] life[c] # "done" /\ ListedOn(c) = {} -> "poison"
    [] \E s \in Scheds : c \in timers[s] -> "asleep"
    [] OTHER -> "none"

\* A queue, which holds c at most once, without c.
Unlinked(queue, c) ==
  IF \E i \in DOMAIN queue : queue[i] = c
  THEN LET i == CHOOSE i \in DOMAIN queue : queue[i] = c
       IN  SubSeq(queue, 1, i - 1) \o SubSeq(queue, i + 1, Len(queue))
  ELSE queue

\* The coroutine is left on co_queue.
BadListDel(s, c) == UNCHANGED <<ready, tail, co_queue>>

\* list_del of co->list, on scheduler s. The last entry of the ready queue
\* leaves the one before it behind as the last.
ListDel(s, c) ==
  /\ ready' = [ready EXCEPT ![s] = Unlinked(@, c)]
  /\ tail' = [tail EXCEPT ![s] =
                IF ready[s] = <<>> \/ ready[s][Len(ready[s])] # c THEN @
                ELSE IF ready'[s] = <<>> THEN NoCo ELSE ready'[s][Len(ready'[s])]]
  /\ co_queue' = [co_queue EXCEPT ![s] = @ \ {c}]

\* sync_getaddr_info on an executor thread, the call it wraps and
\* future_set_result up to the store of the status.
future_set_result(f) ==
  /\ Ok /\ job[f] = "queued"
  /\ fault' = IF fstatus[f] = "freed" THEN "future" ELSE fault
  /\ fstatus' = Finished(f)
  /\ JobGoes(f, "set")
  /\ UNCHANGED <<schedVars, pc, append, coVars, procVars,
                 await, calls, co_queue, readers, hand, unwaited>>

\* f->done_callback and f->done_args are read from the future ...
ReadCallback(f) ==
  /\ Ok /\ job[f] = "set"
  /\ fault' = IF fstatus[f] = "freed" THEN "future" ELSE fault
  /\ JobGoes(f, "callback")
  /\ UNCHANGED <<schedVars, pc, append, coVars, procVars,
                 await, calls, fstatus, co_queue, readers, hand, unwaited>>

\* ... and sched_co_resume reads co->sched and the neighbours on the list ...
ResumeReads(f) ==
  /\ Ok /\ job[f] = "callback"
  /\ fault' = ListDelFault(CoOf(f))
  /\ JobGoes(f, "unlink")
  /\ \E s \in Scheds :
       /\ fault' = "none" => s \in ListedOn(CoOf(f))
       /\ hand' = [hand EXCEPT ![f] = [to |-> s, seen |-> ListOf(s, CoOf(f)), prev |-> NoCo]]
  /\ UNCHANGED <<schedVars, pc, append, coVars, procVars,
                 await, calls, fstatus, co_queue, readers, unwaited>>

\* ... takes the coroutine off, marks it and reads the end of the ready
\* queue ...
ResumeUnlinks(f) ==
  LET s == hand[f].to
  IN  /\ Ok /\ job[f] = "unlink"
      /\ fault' = IF hand[f].seen # ListOf(s, CoOf(f)) \/ DelDuringAppend(s, CoOf(f))
                  THEN "race" ELSE fault
      /\ ListDel(s, CoOf(f))
      /\ costatus' = [costatus EXCEPT ![CoOf(f)] = "RUNNABLE"]
      /\ hand' = [hand EXCEPT ![f] = [to |-> s, seen |-> <<>>, prev |-> tail'[s]]]
      /\ JobGoes(f, "link")
      /\ UNCHANGED <<status, timers, co_nums, co_curr, lock, stack, freed, pc, append,
                     life, left, procVars, await, calls, fstatus, readers, unwaited>>

\* A store to the next pointer of a coroutine that was the last ready one: it
\* may be on co_queue by now, or have ended.
LinkFault(prev) ==
  CASE prev \in Cos /\ life[prev] = "done" -> "co"
    [] \E s \in Scheds : prev \in co_queue[s] \cup timers[s] -> "race"
    [] OTHER -> "none"

\* ... and links it there.
ResumeLinks(f) ==
  LET s == hand[f].to
  IN  /\ Ok /\ job[f] = "link"
      /\ fault' = LinkFault(hand[f].prev)
      /\ LinksBehind(s, hand[f].prev, CoOf(f))
      /\ hand' = [hand EXCEPT ![f] = NoHand]
      /\ JobGoes(f, "over")
      /\ UNCHANGED <<status, timers, co_nums, co_curr, lock, stack, freed, pc, append,
                     coVars, procVars, await, calls, fstatus, co_queue, readers, unwaited>>

ExecutorStep(f) ==
  \/ future_set_result(f) \/ ReadCallback(f)
  \/ ResumeReads(f) \/ ResumeUnlinks(f) \/ ResumeLinks(f)

\* The callback stays registered.
BadRemoveReader(s, f) == readers[s]

event_loop_remove_reader(s, f) == readers[s] \ {f}

\* A reader callback: the reader is removed, the future finished, and
\* sched_co_resume goes on as for a timer. The thread of the scheduler does
\* it all, the coroutine cannot run in between, so that the order of removing
\* and finishing does not matter.
set_future(s, f) ==
  LET broken == CASE fstatus[f] = "freed" -> "future"
                  [] fstatus[f] # "freed" /\ DelDuringAppend(s, CoOf(f)) -> "race"
                  [] OTHER -> ListDelFault(CoOf(f))
  IN  /\ Ok /\ pc[s] = "timers" /\ f \in readers[s]
      /\ readers' = [readers EXCEPT ![s] = event_loop_remove_reader(s, f)]
      /\ fstatus' = Finished(f)
      /\ fault' = broken
      /\ ListDel(s, CoOf(f))
      /\ costatus' = [costatus EXCEPT ![CoOf(f)] = "RUNNABLE"]
      /\ append' = [append EXCEPT ![s] = [co |-> CoOf(f), to |-> s, prev |-> tail'[s]]]
      /\ Goto(s, "resume")
      /\ UNCHANGED <<status, timers, co_nums, co_curr, lock, stack, freed, life, left,
                     procVars, await, calls, job, hand, unwaited>>

\* With EAGAIN, or EINPROGRESS from connect, a callback does nothing.
connection_read_data_nonblock(s, f) == job[f] = "read" /\ set_future(s, f)
tcp_connect(s, f) == job[f] = "connect" /\ set_future(s, f)

ReaderReady(s, f) == connection_read_data_nonblock(s, f) \/ tcp_connect(s, f)

----------------------------------------------------------------------------
\* The steps of Scheduler. A running coroutine takes them outside the calls.
SchedulerStep(x) ==
  /\ x \in Scheds /\ pc[x] = "run" => await[co_curr[x]] = "idle"
  /\ \/ x \in Scheds /\ SchedStep(x)
     \/ SubmitStep(x)
     \/ x = Main /\ MainStep
  /\ UNCHANGED asyncVars

SchedulerMay(x) ==
  /\ x \in Scheds /\ pc[x] = "run" => await[co_curr[x]] = "idle"
  /\ \/ \E c \in Cos : SubmitTurn(x, c)
     \/ x \in Scheds /\ SchedSpuriousWakeup(x)
     \/ x = Main /\ MainSpuriousWakeup
  /\ UNCHANGED asyncVars

TimerExpires(s, c) == ResumeBegin(s, c) /\ UNCHANGED asyncVars

AsyncNext ==
  \/ \E x \in Threads : SchedulerStep(x) \/ SchedulerMay(x)
  \/ \E s \in Scheds : \/ \E c \in Cos : TimerExpires(s, c)
                       \/ \E f \in Futures : ReaderReady(s, f)
                       \/ processors_getaddrinfo(s) \/ connection_read(s)
                       \/ asyncio_open_connection(s)
                       \/ AsyncStep(s)
  \/ \E f \in Futures : ExecutorStep(f)

AsyncSpec == AsyncInit /\ [][AsyncNext]_allVars

\* As in Scheduler; accepted tasks run, executor threads get on, and every
\* descriptor is ready at some time.
AsyncFairness ==
  /\ \A x \in Threads : WF_allVars(SchedulerStep(x))
  /\ \A s \in Scheds : /\ WF_allVars(AsyncStep(s))
                       /\ \A c \in Cos : SF_allVars(TimerExpires(s, c))
                       /\ \A f \in Futures : SF_allVars(ReaderReady(s, f))
  /\ \A f \in Futures : WF_allVars(ExecutorStep(f))

AsyncLiveSpec == AsyncSpec /\ AsyncFairness

----------------------------------------------------------------------------
(* Properties                                                              *)

ExecutorSteps == {"queued", "set", "callback", "unlink", "link", "over"}

\* Where a coroutine is, with the places futures add: on co_queue, and in the
\* hands of an executor thread.
AsyncPlaces(c) ==
  Places(c)
    \cup {<<"co_queue", s>> : s \in {r \in Scheds : c \in co_queue[r]}}
    \cup {<<"executor", f>> : f \in {g \in Futures : CoOf(g) = c /\ job[g] = "link"}}

\* The scheduler a place belongs to.
Home(p) ==
  CASE p[1] = "append" -> append[p[2]].to
    [] p[1] = "executor" -> hand[p[2]].to
    [] OTHER -> p[2]

\* The appends of sched_co_resume take no lock. However they overlap with each
\* other, with submits, yields and pops, coroutines may get lost but none gets
\* into two queues, or runs while it is in one. The exception is a coroutine
\* on its way out of processors_await, which may be resumed while it still
\* runs: the queue it is in belongs to the scheduler it runs on, whose thread
\* alone takes coroutines from it. Nothing is said of a list_del that overlaps
\* with a change of its own list.
AsyncOnePlace ==
  Ok => \A c \in Cos :
          /\ AsyncPlaces(c) # {} => c \in Unfinished
          /\ \A p, q \in AsyncPlaces(c) : p # q =>
               /\ await[c] = "queued" /\ "running" \in {p[1], q[1]}
               /\ Home(p) = Home(q)

\* Scheduler s has resumed a coroutine inside future_await whose future is
\* not finished.
WokenEarly(s) ==
  RunsAt(s, "waiting") /\ fstatus[Awaited(co_curr[s])] # "FINISHED"

\* "must set before done_callback, because done_ballback may wake_up
\* future_await." (future_set_result): a coroutine that has waited for each of
\* its futures is woken by its own future and finds it finished. One that found
\* an earlier future finished without waiting can be woken by the late callback
\* of that one.
WakesAreOwn == \A s \in Scheds : WokenEarly(s) => co_curr[s] \in unwaited

\* Futures finished by the event loop are safe: as long as nothing was given
\* to the executor no future is used after it was freed, no coroutine is
\* resumed that is not on co_queue, and none is woken early.
LoopFuturesSafe ==
  (\A f \in Futures : job[f] \notin ExecutorSteps) =>
    /\ fault \notin {"future", "co", "poison", "asleep", "race"}
    /\ \A s \in Scheds : ~WokenEarly(s)

\* Nobody will finish the future c waits for: the executor refused the task,
\* or another read has taken its place on the connection.
Abandoned(c) ==
  /\ calls[c] > 0 /\ fstatus[Awaited(c)] = "PENDING"
  /\ \/ job[Awaited(c)] = "refused"
     \/ job[Awaited(c)] = "read" /\ \A s \in Scheds : Awaited(c) \notin readers[s]

\* Every coroutine that waits for a future goes on and ends in the end,
\* unless a fault stops the program, its future is abandoned, or an unlocked
\* append has lost a coroutine.
AsyncCoroutinesEnd ==
  \A c \in Cos : life[c] = "new" ~>
    \/ life[c] = "done" \/ fault # "none"
    \/ Abandoned(c)
    \/ \E d \in Unfinished : AsyncPlaces(d) = {}
============================================================================
