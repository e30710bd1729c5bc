----------------------------- MODULE Scheduler -----------------------------
(***************************************************************************)
(* The coroutine scheduler: src/coroutine/sched/core.c (one scheduler per  *)
(* OS thread), coroutine/processor.c (the processors and their shutdown),  *)
(* coroutine/coroutine.c and the wait group of coroutine/sync/sync.c. The  *)
(* main thread creates coroutines and calls coroutine_loop; a running      *)
(* coroutine may create others, yield, sleep or end.                       *)
(*                                                                         *)
(* A coroutine runs on the one stack of its scheduler: stack[s] is the     *)
(* coroutine whose frames lie there. Appending to the ready queue takes    *)
(* two steps, reading the last entry and linking the new one behind it,    *)
(* because sched_co_resume does it without the lock: of two appends to the *)
(* same entry one is lost, and so is what is linked behind a lost entry.   *)
(* processors_submit, which several threads call at a time, takes four.    *)
(*                                                                         *)
(* Time is abstract: a timer may expire whenever process_expired_timers    *)
(* looks. After a fault nothing is known of the program.                   *)
(***************************************************************************)
EXTENDS Integers, Sequences, FiniteSets

CONSTANTS
  Cos,       \* the coroutines that can be created
  P,         \* g_ps->p_nums
  Suspends,  \* bound on how often one coroutine yields or sleeps
  NoCo       \* NULL where a coroutine is expected

ASSUME SchedulerAssumption ==
  /\ IsFiniteSet(Cos) /\ NoCo \notin Cos
  /\ P \in Nat \ {0}
  /\ Suspends \in Nat

Scheds == 1 .. P
Main == 0                      \* the main thread
Threads == {Main} \cup Scheds
Nobody == -1                   \* no thread

VARIABLES
  status,    \* sched->status
  ready,     \* sched->co_ready_queue, along the next pointers
  tail,      \* the prev pointer of its head, NoCo if that is the head itself
  timers,    \* the sleeping coroutines, on sched->co_timer_heap and co_queue
  co_nums,   \* sched->co_nums
  co_curr,   \* sched->co_curr
  lock,      \* the thread that holds sched->lock between two of its steps
  stack,     \* the coroutine whose frames are on sched->stack
  freed,     \* the schedulers sched_exit has freed
  pc,        \* where every thread is
  append,    \* the append to a ready queue a thread has begun: the coroutine,
             \* the scheduler, and the last entry as the thread read it
  p_turn,    \* g_ps->p_turn, the scheduler the next coroutine goes to
  wg,        \* the value of the wait group
  costatus,  \* co->status
  life,      \* "none", "new" (has not run), "started" or "done"
  left,      \* how many suspends a coroutine has left
  joined,    \* main thread: the scheduler exit_all_processors is at
  unstopped, \* history: the schedulers whose stop their start has overwritten
  fault

schedVars == <<status, ready, tail, timers, co_nums, co_curr, lock, stack, freed>>
coVars == <<costatus, life, left>>
procVars == <<p_turn, wg, joined, unstopped>>
vars == <<schedVars, pc, append, coVars, procVars, fault>>

NoAppend == [co |-> NoCo, to |-> 1, prev |-> NoCo]

\* sched_create, for every scheduler.
sched_create ==
  /\ status = [s \in Scheds |-> "CREATED"]
  /\ ready = [s \in Scheds |-> <<>>]
  /\ tail = [s \in Scheds |-> NoCo]
  /\ timers = [s \in Scheds |-> {}]
  /\ co_nums = [s \in Scheds |-> 0]
  /\ co_curr = [s \in Scheds |-> NoCo]
  /\ lock = [s \in Scheds |-> Nobody]
  /\ stack = [s \in Scheds |-> NoCo]
  /\ freed = {}

\* coroutine_init: processors_create has started a thread per scheduler.
Init ==
  /\ sched_create
  /\ pc = [x \in Threads |-> IF x = Main THEN "create" ELSE "start"]
  /\ append = [x \in Threads |-> NoAppend]
  /\ p_turn = 1 /\ wg = 0 /\ joined = 1 /\ unstopped = {}
  /\ costatus = [c \in Cos |-> "RUNNABLE"]
  /\ life = [c \in Cos |-> "none"]
  /\ left = [c \in Cos |-> Suspends]
  /\ fault = "none"

Ok == fault = "none"
Goto(x, step) == pc' = [pc EXCEPT ![x] = step]

\* Thread x goes to step, and scheduler s, if it waits on its condition
\* variable, is signalled.
GotoAndSignal(x, step, s) ==
  pc' = [y \in Threads |-> IF y = x THEN step
                           ELSE IF y = s /\ pc[y] = "wait" THEN "check" ELSE pc[y]]

\* __list_add of c between prev and the head: what followed prev is cut off,
\* and if prev is not in the queue any more c is not either.
Linked(queue, prev, c) ==
  IF prev = NoCo THEN <<c>>
  ELSE IF \E i \in DOMAIN queue : queue[i] = prev
  THEN Append(SubSeq(queue, 1, CHOOSE i \in DOMAIN queue : queue[i] = prev), c)
  ELSE queue

\* If another append has come in since prev was read, its store to the prev
\* pointer of the head may be the later one.
LinksBehind(s, prev, c) ==
  /\ ready' = [ready EXCEPT ![s] = Linked(@, prev, c)]
  /\ \/ tail' = [tail EXCEPT ![s] = c]
     \/ prev # tail[s] /\ tail' = tail

Begins(x, c, s) ==
  append' = [append EXCEPT ![x] = [co |-> c, to |-> s, prev |-> tail[s]]]
Ends(x) ==
  /\ LinksBehind(append[x].to, append[x].prev, append[x].co)
  /\ append' = [append EXCEPT ![x] = NoAppend]

----------------------------------------------------------------------------
(* Creating a coroutine, by the main thread or by a running coroutine. A   *)
(* definition whose name starts with Bad is a slip a change of the next    *)
(* definition could make; no specification uses it.                        *)

\* processors_submit without the wait group.
BadWaitGroupAdd(val) == wg

wait_group_add(val) == wg + val

\* A coroutine that has not run can be picked by schedule.
_co_new(c) ==
  /\ life[c] = "none"
  /\ life' = [life EXCEPT ![c] = "new"]
  /\ costatus' = [costatus EXCEPT ![c] = "RUNNABLE"]

\* The first coroutine is counted before the test.
BadFirstCo(s) == co_nums[s] = 1

\* sched_sched signals a scheduler that has no coroutine.
FirstCo(s) == co_nums[s] = 0

\* coroutine_create, and processors_submit up to the read of p_turn ...
SubmitTurn(x, c) ==
  /\ Ok /\ pc[x] = (IF x = Main THEN "create" ELSE "run")
  /\ _co_new(c)
  /\ append' = [append EXCEPT ![x] = [co |-> c, to |-> p_turn, prev |-> NoCo]]
  /\ Goto(x, "turn")
  /\ UNCHANGED <<schedVars, left, procVars, fault>>

\* ... which is stored, without a lock and perhaps read a second time ...
SubmitAdd(x) ==
  /\ Ok /\ pc[x] = "turn"
  /\ \E turn \in {append[x].to, p_turn} : p_turn' = (turn % P) + 1
  /\ wg' = wait_group_add(1)
  /\ Goto(x, "add")
  /\ UNCHANGED <<schedVars, append, coVars, joined, unstopped, fault>>

\* ... and sched_sched: the lock, and the last entry of the ready queue ...
SubmitBegin(x) ==
  LET s == append[x].to
  IN  /\ Ok /\ pc[x] = "add" /\ lock[s] = Nobody
      /\ lock' = [lock EXCEPT ![s] = x]
      /\ Begins(x, append[x].co, s)
      /\ Goto(x, "submit")
      /\ UNCHANGED <<status, ready, tail, timers, co_nums, co_curr, stack, freed,
                     coVars, procVars, fault>>

\* ... behind which the coroutine is linked, after a signal if the scheduler
\* has none, and counted.
SubmitEnd(x) ==
  LET s == append[x].to
      back == IF x = Main THEN "create" ELSE "run"
  IN  /\ Ok /\ pc[x] = "submit"
      /\ co_nums' = [co_nums EXCEPT ![s] = @ + 1]
      /\ lock' = [lock EXCEPT ![s] = Nobody]
      /\ IF FirstCo(s) THEN GotoAndSignal(x, back, s) ELSE Goto(x, back)
      /\ Ends(x)
      /\ UNCHANGED <<status, timers, co_curr, stack, freed, coVars, procVars, fault>>

----------------------------------------------------------------------------
(* The thread of a scheduler: sched_run_entry and main_loop.               *)

SchedStart(s) ==
  /\ Ok /\ pc[s] = "start"
  /\ status' = [status EXCEPT ![s] = "RUNNING"]
  /\ unstopped' = unstopped \cup {r \in {s} : status[r] = "STOPPED"}
  /\ Goto(s, "loop")
  /\ UNCHANGED <<ready, tail, timers, co_nums, co_curr, lock, stack, freed, append,
                 coVars, p_turn, wg, joined, fault>>

\* The loop condition, read without the lock.
LoopTest(s) ==
  /\ Ok /\ pc[s] = "loop"
  /\ Goto(s, IF status[s] = "RUNNING" THEN "check" ELSE "exit")
  /\ UNCHANGED <<schedVars, append, coVars, procVars, fault>>

\* The status is not looked at before the thread waits.
BadAfterCheck(s) == IF co_nums[s] # 0 THEN "pick" ELSE "wait"

AfterCheck(s) ==
  IF co_nums[s] # 0 THEN "pick"
  ELSE IF status[s] # "RUNNING" THEN "exit" ELSE "wait"

CheckCoNums(s) ==
  /\ Ok /\ pc[s] = "check" /\ lock[s] = Nobody
  /\ Goto(s, AfterCheck(s))
  /\ UNCHANGED <<schedVars, append, coVars, procVars, fault>>

SchedSpuriousWakeup(s) ==
  /\ Ok /\ pc[s] = "wait"
  /\ Goto(s, "check")
  /\ UNCHANGED <<schedVars, append, coVars, procVars, fault>>

\* pick_one_co finds no ready coroutine.
PickNone(s) ==
  /\ Ok /\ pc[s] = "pick" /\ lock[s] = Nobody /\ ready[s] = <<>>
  /\ co_curr' = [co_curr EXCEPT ![s] = NoCo]
  /\ Goto(s, "timers")
  /\ UNCHANGED <<status, ready, tail, timers, co_nums, lock, stack, freed, append,
                 coVars, procVars, fault>>

\* pick_one_co and schedule. A new coroutine builds its frames on the stack;
\* the frames of one that is not CO_RUNNABLE are copied back; otherwise the
\* coroutine goes on with what lies there.
PickAndSchedule(s) ==
  LET co == Head(ready[s])
      framed == life[co] = "new" \/ costatus[co] # "RUNNABLE"
  IN  /\ Ok /\ pc[s] = "pick" /\ lock[s] = Nobody /\ ready[s] # <<>>
      /\ ready' = [ready EXCEPT ![s] = Tail(@)]
      /\ tail' = [tail EXCEPT ![s] = IF Tail(ready[s]) = <<>> THEN NoCo ELSE @]
      /\ co_curr' = [co_curr EXCEPT ![s] = co]
      /\ stack' = [stack EXCEPT ![s] = IF framed THEN co ELSE @]
      /\ fault' = IF framed \/ stack[s] = co THEN fault ELSE "stack"
      /\ costatus' = [costatus EXCEPT ![co] = "RUNNABLE"]
      /\ life' = [life EXCEPT ![co] = "started"]
      /\ Goto(s, "run")
      /\ UNCHANGED <<status, timers, co_nums, lock, freed, append, left, procVars>>

----------------------------------------------------------------------------
(* A running coroutine.                                                    *)

\* schedule_yield_coroutine
LeavesStack(s) ==
  LET co == co_curr[s]
  IN  /\ left' = [left EXCEPT ![co] = @ - 1]
      /\ costatus' = [costatus EXCEPT ![co] = "WAITING"]
      /\ Goto(s, "loop")
      /\ UNCHANGED <<status, co_nums, co_curr, stack, freed, life, procVars, fault>>

MaySuspend(s) == Ok /\ pc[s] = "run" /\ lock[s] = Nobody /\ left[co_curr[s]] > 0

\* sched_yield_coroutine: the lock and the last entry of the ready queue ...
YieldBegin(s) ==
  /\ MaySuspend(s)
  /\ lock' = [lock EXCEPT ![s] = s]
  /\ Begins(s, co_curr[s], s)
  /\ Goto(s, "yield")
  /\ UNCHANGED <<status, ready, tail, timers, co_nums, co_curr, stack, freed, coVars,
                 procVars, fault>>

\* ... behind which the coroutine is linked.
YieldEnd(s) ==
  /\ Ok /\ pc[s] = "yield"
  /\ lock' = [lock EXCEPT ![s] = Nobody]
  /\ Ends(s)
  /\ LeavesStack(s)
  /\ UNCHANGED timers

\* The timer that resumes a coroutine, which is on co_queue meanwhile.
co_timer_after(s, c) == timers' = [timers EXCEPT ![s] = @ \cup {c}]

sched_delay(s) ==
  /\ MaySuspend(s)
  /\ co_timer_after(s, co_curr[s])
  /\ LeavesStack(s)
  /\ UNCHANGED <<ready, tail, lock, append>>

processors_suspend(s) == YieldBegin(s) \/ YieldEnd(s) \/ sched_delay(s)

\* co_wrapper: the coroutine function has returned ...
CoReturns(s) ==
  /\ Ok /\ pc[s] = "run" /\ lock[s] = Nobody
  /\ life' = [life EXCEPT ![co_curr[s]] = "done"]
  /\ co_nums' = [co_nums EXCEPT ![s] = @ - 1]
  /\ Goto(s, "done")
  /\ UNCHANGED <<status, ready, tail, timers, co_curr, lock, stack, freed, append,
                 costatus, left, procVars, fault>>

\* ... and processors_coroutine_done: wait_group_done signals when the value
\* gets 0.
CoDone(s) ==
  /\ Ok /\ pc[s] = "done"
  /\ wg' = wg - 1
  /\ pc' = [pc EXCEPT ![s] = "loop",
                      ![Main] = IF wg = 1 /\ @ = "waitgroup" THEN "join" ELSE @]
  /\ UNCHANGED <<schedVars, append, coVars, p_turn, joined, unstopped, fault>>

----------------------------------------------------------------------------
(* Timers: process_expired_timers, before and after the event loop.        *)

\* The expired timer stays on the heap.
BadWithoutTop(s, c) == timers[s]

\* heap_pop of the expired timer.
WithoutTop(s, c) == timers[s] \ {c}

\* A timer has expired: heap_pop, co_timer_run, and sched_co_resume up to the
\* read of the last ready coroutine.
ResumeBegin(s, c) ==
  /\ Ok /\ pc[s] = "timers" /\ c \in timers[s]
  /\ timers' = [timers EXCEPT ![s] = WithoutTop(s, c)]
  /\ costatus' = [costatus EXCEPT ![c] = "RUNNABLE"]
  /\ Begins(s, c, s)
  /\ Goto(s, "resume")
  /\ UNCHANGED <<status, ready, tail, co_nums, co_curr, lock, stack, freed, life, left,
                 procVars, fault>>

\* The coroutine is linked behind that one.
ResumeEnd(s) ==
  /\ Ok /\ pc[s] = "resume"
  /\ Ends(s)
  /\ Goto(s, "timers")
  /\ UNCHANGED <<status, timers, co_nums, co_curr, lock, stack, freed, coVars,
                 procVars, fault>>

\* No timer is due, event_loop_run returns: back to main_loop.
TimersEnd(s) ==
  /\ Ok /\ pc[s] = "timers"
  /\ Goto(s, "loop")
  /\ UNCHANGED <<schedVars, append, coVars, procVars, fault>>

sched_exit(s) ==
  /\ Ok /\ pc[s] = "exit"
  /\ freed' = freed \cup {s}
  /\ Goto(s, "dead")
  /\ UNCHANGED <<status, ready, tail, timers, co_nums, co_curr, lock, stack, append,
                 coVars, procVars, fault>>

----------------------------------------------------------------------------
(* coroutine_loop on the main thread: processors_join.                     *)

CallLoop ==
  /\ Ok /\ pc[Main] = "create"
  /\ Goto(Main, "join")
  /\ UNCHANGED <<schedVars, append, coVars, procVars, fault>>

\* wait_group_wait that lets the last coroutine go on.
BadAfterWgTest == IF wg > 1 THEN "waitgroup" ELSE "stop"

AfterWgTest == IF wg # 0 THEN "waitgroup" ELSE "stop"

wait_group_wait ==
  /\ Ok /\ pc[Main] = "join"
  /\ Goto(Main, AfterWgTest)
  /\ UNCHANGED <<schedVars, append, coVars, procVars, fault>>

MainSpuriousWakeup ==
  /\ Ok /\ pc[Main] = "waitgroup"
  /\ Goto(Main, "join")
  /\ UNCHANGED <<schedVars, append, coVars, procVars, fault>>

\* exit_all_processors, for scheduler joined: sched_wakeup stores the status ...
WakeupStop ==
  /\ Ok /\ pc[Main] = "stop" /\ lock[joined] = Nobody
  /\ lock' = [lock EXCEPT ![joined] = Main]
  /\ status' = [status EXCEPT ![joined] = "STOPPED"]
  /\ Goto(Main, "signal")
  /\ UNCHANGED <<ready, tail, timers, co_nums, co_curr, stack, freed, append, coVars,
                 procVars, fault>>

\* ... signals and unlocks, in a structure that sched_exit may have freed.
WakeupSignal ==
  /\ Ok /\ pc[Main] = "signal"
  /\ lock' = [lock EXCEPT ![joined] = Nobody]
  /\ fault' = IF joined \in freed THEN "sched" ELSE fault
  /\ GotoAndSignal(Main, "pthread_join", joined)
  /\ UNCHANGED <<status, ready, tail, timers, co_nums, co_curr, stack, freed, append,
                 coVars, procVars>>

\* The loop over the schedulers with <= for <.
BadMoreScheds == joined <= P

MoreScheds == joined < P

JoinThread ==
  /\ Ok /\ pc[Main] = "pthread_join" /\ pc[joined] = "dead"
  /\ joined' = IF MoreScheds THEN joined + 1 ELSE joined
  /\ Goto(Main, IF MoreScheds THEN "stop" ELSE "destroy")
  /\ UNCHANGED <<schedVars, append, coVars, p_turn, wg, unstopped, fault>>

\* processors_destory sets g_ps to NULL; g_ps->executor follows.
processors_destory ==
  /\ Ok /\ pc[Main] = "destroy"
  /\ fault' = "g_ps"
  /\ Goto(Main, "shutdown")
  /\ UNCHANGED <<schedVars, append, coVars, procVars>>

----------------------------------------------------------------------------
SchedStep(s) ==
  \/ SchedStart(s) \/ LoopTest(s) \/ CheckCoNums(s)
  \/ PickNone(s) \/ PickAndSchedule(s)
  \/ processors_suspend(s) \/ CoReturns(s) \/ CoDone(s)
  \/ ResumeEnd(s) \/ TimersEnd(s) \/ sched_exit(s)

\* What is left of a processors_submit that has begun.
SubmitStep(x) == SubmitAdd(x) \/ SubmitBegin(x) \/ SubmitEnd(x)

MainStep ==
  \/ CallLoop \/ wait_group_wait \/ WakeupStop \/ WakeupSignal
  \/ JoinThread \/ processors_destory

Next ==
  \/ \E x \in Threads : (\E c \in Cos : SubmitTurn(x, c)) \/ SubmitStep(x)
  \/ \E s \in Scheds : \/ SchedStep(s)
                       \/ SchedSpuriousWakeup(s)
                       \/ \E c \in Cos : ResumeBegin(s, c)
  \/ MainStep
  \/ MainSpuriousWakeup

Spec == Init /\ [][Next]_vars

\* Threads run, a coroutine that is scheduled gets on, every timer expires
\* at some time, and the program calls coroutine_loop.
Fairness ==
  /\ \A x \in Threads : WF_vars(SubmitStep(x))
  /\ \A s \in Scheds : /\ WF_vars(SchedStep(s))
                       /\ \A c \in Cos : SF_vars(ResumeBegin(s, c))
  /\ WF_vars(MainStep)

LiveSpec == Spec /\ Fairness

----------------------------------------------------------------------------
(* Properties                                                              *)

Submitting == {"turn", "add", "submit"}
MainSteps == Submitting \cup {"create", "join", "waitgroup", "stop", "signal",
                              "pthread_join", "destroy", "shutdown"}
SchedSteps == Submitting \cup {"start", "loop", "check", "wait", "pick", "run", "yield",
                               "done", "timers", "resume", "exit", "dead"}

TypeOK ==
  /\ status \in [Scheds -> {"CREATED", "RUNNING", "STOPPED"}]
  /\ ready \in [Scheds -> Seq(Cos)] /\ tail \in [Scheds -> Cos \cup {NoCo}]
  /\ timers \in [Scheds -> SUBSET Cos]
  /\ co_nums \in [Scheds -> Nat] /\ co_curr \in [Scheds -> Cos \cup {NoCo}]
  /\ lock \in [Scheds -> Threads \cup {Nobody}]
  /\ stack \in [Scheds -> Cos \cup {NoCo}] /\ freed \subseteq Scheds
  /\ DOMAIN pc = Threads
  /\ pc[Main] \in MainSteps /\ \A s \in Scheds : pc[s] \in SchedSteps
  /\ append \in [Threads -> [co : Cos \cup {NoCo}, to : Scheds, prev : Cos \cup {NoCo}]]
  /\ p_turn \in Scheds /\ wg \in Nat /\ joined \in Scheds /\ unstopped \subseteq Scheds
  /\ costatus \in [Cos -> {"RUNNABLE", "WAITING"}]
  /\ life \in [Cos -> {"none", "new", "started", "done"}]
  /\ left \in [Cos -> 0 .. Suspends]
  /\ fault \in {"none", "stack", "sched", "g_ps"}

Created == {c \in Cos : life[c] # "none"}
Unfinished == {c \in Cos : life[c] \in {"new", "started"}}

\* Where a coroutine is: a position of a ready queue, asleep on a scheduler,
\* running on one, or in the hands of a thread that appends it.
Places(c) ==
  (UNION {{<<"ready", s, i>> : i \in {j \in DOMAIN ready[s] : ready[s][j] = c}} :
            s \in Scheds})
    \cup {<<"asleep", s>> : s \in {r \in Scheds : c \in timers[r]}}
    \cup {<<"running", s>> :
            s \in {r \in Scheds : pc[r] \in {"run"} \cup Submitting /\ co_curr[r] = c}}
    \cup {<<"append", x>> : x \in {y \in Threads : append[y].co = c}}

\* A thread is at turn with coroutine c, which the wait group does not know yet.
Turning(c) == \E x \in Threads : pc[x] = "turn" /\ append[x].co = c

\* The wait group counts the coroutines that exist, the counters of the
\* schedulers those they were given, though submitting and ending a coroutine
\* change them in separate steps of different threads.
CountersAgree ==
  /\ wg = Cardinality({c \in Unfinished : ~Turning(c)})
            + Cardinality({s \in Scheds : pc[s] = "done"})
  /\ Cardinality(Unfinished) =
       Cardinality({p \in Scheds \X (1 .. Cardinality(Cos)) : p[2] <= co_nums[p[1]]})
         + Cardinality({x \in Threads : pc[x] \in Submitting})

\* A coroutine is in at most one place: running on one scheduler, queued once
\* on one, asleep, or being appended. It never runs on two threads at once,
\* and one that has ended is nowhere.
OnePlace ==
  \A c \in Cos : Cardinality(Places(c)) <= IF c \in Unfinished THEN 1 ELSE 0

\* processors_join goes beyond the wait group, and schedulers are stopped and
\* freed, only when every coroutine that was created has ended.
JoinAfterAllDone ==
  pc[Main] \in {"stop", "signal", "pthread_join", "destroy", "shutdown"} \/ freed # {}
    => Unfinished = {}

\* exit_all_processors has told scheduler s to stop.
Told(s) ==
  \/ s < joined
  \/ s = joined /\ pc[Main] \in {"signal", "pthread_join", "destroy", "shutdown"}

\* The signal of a submit is never lost: a scheduler that waits on its
\* condition variable has no coroutine. Nor is the signal of sched_wakeup,
\* which its sender still holds the lock for: a scheduler that was told to
\* stop waits only if its own start has overwritten what it was told
\* (sched_run_entry), which is what LoopExits shows.
NoMissedWakeup ==
  \A s \in Scheds : pc[s] = "wait" =>
    /\ co_nums[s] = 0
    /\ Told(s) => s \in unstopped \/ lock[s] = Main

(* What comments and documents say and the code does not do.               *)

\* "resched shoule restore stack first" (schedule): a coroutine goes on only
\* on a stack that holds its own frames.
ResumedOnOwnStack == fault # "stack"

\* Without coroutines the program ends (docs/coroutine.md): the main thread
\* stops and joins every scheduler.
LoopExits ==
  pc[Main] = "join" ~> pc[Main] = "shutdown" \/ fault # "none"
============================================================================
