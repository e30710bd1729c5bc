---------------------------- MODULE AsyncProofs ----------------------------
(***************************************************************************)
(* Proofs about Async, for any coroutines, any number of schedulers and    *)
(* any number of futures.                                                  *)
(*                                                                         *)
(* Nothing is known after a fault, so the invariant is about states        *)
(* without one. It says of every coroutine c where it is and what may      *)
(* still touch it: PlacePart(c) that it is in one place, on one scheduler; *)
(* FuturePart(c) that of its futures only the last one is unfinished       *)
(* business, unless it went past an earlier one without waiting. Each step *)
(* moves at most one coroutine: for the others Stays or SameFutures holds, *)
(* and the same lemma serves every step.                                   *)
(***************************************************************************)
EXTENDS Async, SchedulerProofs

USE DEF Running, Appending, Submitting

Nums == 1 .. Calls

\* Coroutine c is the current one of scheduler s.
OnCpu(c, s) == pc[s] \in Running /\ co_curr[s] = c
RunAt(c, s) == pc[s] = "run" /\ co_curr[s] = c

AsyncKinds == {"ready", "asleep", "running", "append", "co_queue"}

\* Coroutine c is in a place of kind k on thread x. On its way out of
\* processors_await a coroutine still runs, but may be resumed already; AwaitInv
\* is about that.
In(c, k, x) ==
  \/ k = "ready" /\ x \in Scheds /\ InReady(c, x)
  \/ k = "asleep" /\ x \in Scheds /\ c \in timers[x]
  \/ k = "running" /\ x \in Scheds /\ OnCpu(c, x) /\ await[c] # "queued"
  \/ k = "append" /\ x \in Threads /\ append[x].co = c
  \/ k = "co_queue" /\ x \in Scheds /\ c \in co_queue[x]

\* An executor thread has taken c off its list.
Held(c, n) == job[<<c, n>>] = "link"

\* The scheduler a place belongs to.
HomeOf(k, x) == IF k = "append" THEN append[x].to ELSE x

Alive(c) == life[c] \in {"new", "started"}

PlacesInv(c) ==
  /\ \A k, l \in AsyncKinds, x, y \in Threads : In(c, k, x) /\ In(c, l, y) => k = l /\ x = y
  /\ \A s, r \in Scheds : OnCpu(c, s) /\ OnCpu(c, r) => s = r /\ Alive(c)
  /\ \A k \in AsyncKinds, x \in Threads : In(c, k, x) => Alive(c)

HeldInv(c) ==
  \A n \in Nums : Held(c, n) =>
    /\ Alive(c)
    /\ \A m \in Nums : Held(c, m) => m = n
    /\ \A k \in AsyncKinds, x \in Threads : ~In(c, k, x)

\* Wherever c is, it is with scheduler s.
AtHome(c, s) ==
  /\ \A k \in AsyncKinds, x \in Threads : In(c, k, x) => HomeOf(k, x) = s
  /\ \A r \in Scheds : OnCpu(c, r) => r = s
  /\ \A n \in Nums : Held(c, n) => hand[<<c, n>>].to = s

InCall == {"test", "suspend", "queued"}

\* Inside future_await a coroutine runs; on its way out it is on co_queue,
\* with an executor thread, or resumed already, on its own scheduler.
AwaitInv(c) ==
  /\ await[c] \in InCall => \E s \in Scheds : RunAt(c, s)
  /\ await[c] = "queued" =>
       /\ \A k \in AsyncKinds, x \in Threads : In(c, k, x) => k \in {"ready", "co_queue"}
       /\ \A s \in Scheds : OnCpu(c, s) => AtHome(c, s)

\* A reader belongs to the scheduler of its coroutine.
HomeInv(c) == \A s \in Scheds, n \in Nums : <<c, n>> \in readers[s] => AtHome(c, s)

PlacePart(c) == PlacesInv(c) /\ HeldInv(c) /\ AwaitInv(c) /\ HomeInv(c)

\* The list an executor thread has read has the coroutine.
SeenListed(c, n) ==
  LET seen == hand[<<c, n>>].seen
  IN  \/ seen[1] = "ready" /\ \E i \in DOMAIN seen[2] : seen[2][i] = c
      \/ seen[1] = "co_queue" /\ c \in seen[2]

NumInv(c, n) ==
  /\ calls[c] < n => /\ fstatus[<<c, n>>] = "none" /\ job[<<c, n>>] = "none"
                     /\ \A s \in Scheds : <<c, n>> \notin readers[s]
  /\ n <= calls[c] => fstatus[<<c, n>>] # "none" /\ life[c] # "none"
  /\ \A s \in Scheds : <<c, n>> \in readers[s] => job[<<c, n>>] \in {"read", "connect"}
  /\ job[<<c, n>>] \in {"set", "callback", "unlink", "link", "over"}
       => fstatus[<<c, n>>] \in {"FINISHED", "freed"}
  /\ job[<<c, n>>] = "unlink" => SeenListed(c, n)

FutureInv(c) ==
  /\ \A n \in Nums : NumInv(c, n)
  /\ await[c] # "idle" => calls[c] \in Nums /\ fstatus[Awaited(c)] \in {"PENDING", "FINISHED"}

\* Nobody will touch c for the sake of this future.
Dead(c, n) ==
  job[<<c, n>>] \in {"over", "read", "connect"} /\ \A s \in Scheds : <<c, n>> \notin readers[s]

\* A coroutine that has waited for each of its futures is woken by the last
\* one only.
OwnInv(c) ==
  c \notin unwaited =>
    /\ \A n \in Nums : n < calls[c] \/ (n = calls[c] /\ await[c] = "idle") => Dead(c, n)
    /\ await[c] \in {"queued", "waiting"} =>
         \/ \E s \in Scheds : c \in co_queue[s]
         \/ fstatus[Awaited(c)] = "FINISHED" /\ (Held(c, calls[c]) \/ Dead(c, calls[c]))

NoExec == \A f \in Futures : job[f] \notin ExecutorSteps

\* Without the executor a future is finished only while its coroutine waits.
LoopInv(c) ==
  NoExec =>
    /\ c \notin unwaited
    /\ await[c] \in InCall => fstatus[Awaited(c)] = "PENDING"
    /\ \A n \in Nums, s \in Scheds : <<c, n>> \in readers[s] => fstatus[<<c, n>>] = "PENDING"

FuturePart(c) == FutureInv(c) /\ OwnInv(c) /\ LoopInv(c)

SchedTypes ==
  /\ ready \in [Scheds -> Seq(Cos)] /\ tail \in [Scheds -> Cos \cup {NoCo}]
  /\ timers \in [Scheds -> SUBSET Cos]
  /\ DOMAIN co_curr = Scheds /\ DOMAIN pc = Threads /\ p_turn \in Scheds
  /\ append \in [Threads -> [co : Cos \cup {NoCo}, to : Scheds, prev : Cos \cup {NoCo}]]
  /\ life \in [Cos -> {"none", "new", "started", "done"}]

AsyncTypes ==
  /\ await \in [Cos -> {"idle", "test", "suspend", "queued", "waiting"}]
  /\ calls \in [Cos -> 0 .. Calls]
  /\ fstatus \in [Futures -> {"none", "PENDING", "FINISHED", "freed"}]
  /\ job \in [Futures -> {"none", "refused", "read", "connect"} \cup ExecutorSteps]
  /\ co_queue \in [Scheds -> SUBSET Cos] /\ readers \in [Scheds -> SUBSET Futures]
  /\ DOMAIN hand = Futures
  /\ \A f \in Futures : hand[f].to \in Scheds /\ hand[f].prev \in Cos \cup {NoCo}

StepsInv ==
  /\ \A x \in Threads : append[x].co # NoCo <=> pc[x] \in Appending
  /\ \A s \in Scheds : /\ pc[s] \in {"resume", "yield"} => append[s].to = s
                       /\ pc[s] \in Running => co_curr[s] \in Cos
                       /\ pc[s] \in Submitting => await[co_curr[s]] = "idle"
  /\ Distinct

CosInv == \A c \in Cos : PlacePart(c) /\ FuturePart(c)

SoundInv == SchedTypes /\ AsyncTypes /\ StepsInv /\ CosInv

LoopFault == fault \in {"future", "co", "poison", "asleep", "race"}

AsyncInv ==
  /\ Ok => SoundInv
  /\ NoExec => ~LoopFault

----------------------------------------------------------------------------
(* Futures, and what steps leave alone.                                    *)

\* A future is a coroutine and a number.
LEMMA FutureFacts ==
  /\ \A c \in Cos, n \in Nums : <<c, n>> \in Futures /\ CoOf(<<c, n>>) = c
  /\ \A f \in Futures : CoOf(f) \in Cos /\ f[2] \in Nums /\ f = <<CoOf(f), f[2]>>
  /\ \A f \in Futures, c \in Cos, n \in Nums : f = <<c, n>> => CoOf(f) = c
BY DEF Futures, CoOf, Nums

\* A coroutine that stays where it is, or is lost.
Stays(c) ==
  /\ \A k \in AsyncKinds, x \in Threads :
       In(c, k, x)' => In(c, k, x) /\ HomeOf(k, x)' = HomeOf(k, x)
  /\ \A s \in Scheds : OnCpu(c, s)' => OnCpu(c, s)
  /\ \A n \in Nums : Held(c, n)' => Held(c, n) /\ hand'[<<c, n>>].to = hand[<<c, n>>].to
  /\ Alive(c) => Alive(c)'
  /\ await'[c] = "queued" => await[c] = "queued"
  /\ await'[c] \in InCall => \E s \in Scheds : RunAt(c, s)'
  /\ \A s \in Scheds, n \in Nums : <<c, n>> \in readers'[s] => AtHome(c, s)

\* It keeps what is said of its place.
LEMMA StaysKeeps ==
  ASSUME NEW c \in Cos, PlacePart(c), Stays(c)  PROVE PlacePart(c)'
<1> USE DEF Stays
<1>1. PlacesInv(c)'  BY DEF PlacePart, PlacesInv
<1>2. HeldInv(c)'  BY DEF PlacePart, HeldInv
<1>3. ASSUME NEW s \in Scheds, AtHome(c, s)  PROVE AtHome(c, s)'
  BY <1>3 DEF AtHome
<1>4. AwaitInv(c)'  BY <1>3 DEF PlacePart, AwaitInv
<1>5. HomeInv(c)'  BY <1>3 DEF HomeInv
<1> QED  BY <1>1, <1>2, <1>4, <1>5 DEF PlacePart

\* A coroutine that gets to the place k1, x1, or into the hands of future n1,
\* with scheduler h.
Goes(c, k1, x1, n1, h) ==
  /\ \A k \in AsyncKinds, x \in Threads :
       In(c, k, x)' => k = k1 /\ x = x1 /\ HomeOf(k, x)' = h /\ Alive(c)'
  /\ \A s \in Scheds : OnCpu(c, s)' => s = h /\ Alive(c)'
  /\ \A n \in Nums : Held(c, n)' =>
       /\ n = n1 /\ hand'[<<c, n>>].to = h /\ Alive(c)'
       /\ \A k \in AsyncKinds, x \in Threads : ~In(c, k, x)'
  /\ await'[c] \in InCall => \E s \in Scheds : RunAt(c, s)'
  /\ await'[c] = "queued" => k1 \in {"ready", "co_queue"}
  /\ \A s \in Scheds, n \in Nums : <<c, n>> \in readers'[s] => s = h

\* What is said of its place holds there.
LEMMA GoesKeeps ==
  ASSUME NEW c \in Cos, NEW k1, NEW x1, NEW n1, NEW h, Goes(c, k1, x1, n1, h)
  PROVE  PlacePart(c)'
<1> USE DEF Goes
<1>1. PlacesInv(c)'  BY DEF PlacesInv
<1>2. HeldInv(c)'  BY DEF HeldInv
<1>3. AtHome(c, h)'  BY DEF AtHome
<1>4. AwaitInv(c)'  BY <1>3 DEF AwaitInv
<1>5. HomeInv(c)'  BY <1>3 DEF HomeInv
<1> QED  BY <1>1, <1>2, <1>4, <1>5 DEF PlacePart

\* A coroutine nobody awaits, finishes or resumes.
SameFutures(c) ==
  /\ await'[c] = await[c] /\ calls'[c] = calls[c]
  /\ c \in unwaited' <=> c \in unwaited
  /\ life[c] # "none" => life'[c] # "none"
  /\ \A s \in Scheds : c \in co_queue[s] => c \in co_queue'[s]
  /\ \A n \in Nums : /\ fstatus'[<<c, n>>] = fstatus[<<c, n>>]
                     /\ job'[<<c, n>>] = job[<<c, n>>] /\ hand'[<<c, n>>] = hand[<<c, n>>]
                     /\ \A s \in Scheds : <<c, n>> \in readers'[s] => <<c, n>> \in readers[s]

\* It keeps what is said of its futures.
LEMMA SameFuturesKeeps ==
  ASSUME NEW c \in Cos, FuturePart(c), SameFutures(c), NoExec' => NoExec
  PROVE  FuturePart(c)'
<1> USE DEF SameFutures
<1>1. ASSUME NEW n \in Nums  PROVE NumInv(c, n)'
  <2>1. NumInv(c, n)  BY DEF FuturePart, FutureInv
  <2>2. SeenListed(c, n)' <=> SeenListed(c, n)  BY DEF SeenListed
  <2> QED  BY <2>1, <2>2 DEF NumInv
<1>2. Awaited(c)' = Awaited(c) /\ Awaited(c) = <<c, calls[c]>>  BY DEF Awaited
<1>3. calls[c] \in Nums => fstatus'[Awaited(c)] = fstatus[Awaited(c)]  BY <1>2
<1>4. FutureInv(c)'
  BY <1>1, <1>2, <1>3 DEF FuturePart, FutureInv
<1>5. \A n \in Nums : Dead(c, n) => Dead(c, n)'  BY DEF Dead
<1>6. \A n \in Nums : Held(c, n)' <=> Held(c, n)  BY DEF Held
<1>7. OwnInv(c)'
  <2>1. await[c] # "idle" => calls[c] \in Nums  BY DEF FuturePart, FutureInv
  <2> QED  BY <1>2, <1>3, <1>5, <1>6, <2>1 DEF FuturePart, OwnInv
<1>8. LoopInv(c)'
  <2>1. await[c] # "idle" => calls[c] \in Nums  BY DEF FuturePart, FutureInv
  <2> QED  BY <1>2, <1>3, <2>1 DEF FuturePart, LoopInv, InCall
<1> QED  BY <1>4, <1>7, <1>8 DEF FuturePart

\* A step of Scheduler leaves futures alone.
LEMMA SchedulerFutures ==
  ASSUME SoundInv, UNCHANGED asyncVars, \A c \in Cos : life[c] # "none" => life'[c] # "none"
  PROVE  AsyncTypes' /\ \A c \in Cos : FuturePart(c)'
<1>1. /\ await' = await /\ calls' = calls /\ fstatus' = fstatus /\ job' = job
      /\ co_queue' = co_queue /\ readers' = readers /\ hand' = hand /\ unwaited' = unwaited
  BY DEF asyncVars
<1>2. AsyncTypes'  BY <1>1 DEF SoundInv, AsyncTypes
<1>3. NoExec' => NoExec  BY <1>1 DEF NoExec
<1>4. ASSUME NEW c \in Cos  PROVE FuturePart(c)'
  <2>1. SameFutures(c)  BY <1>1 DEF SameFutures
  <2> QED  BY <1>3, <2>1, SameFuturesKeeps DEF SoundInv, CosInv
<1> QED  BY <1>2, <1>4

----------------------------------------------------------------------------
(* The steps of Scheduler.                                                 *)

\* An assignment to pc moves a thread.
LEMMA AsyncGoto ==
  ASSUME DOMAIN pc = Threads, NEW x \in Threads, NEW step
  PROVE  /\ Goto(x, step) => Moves(x, step) /\ DOMAIN pc' = Threads
         /\ \A s \in Scheds : GotoAndSignal(x, step, s) => Moves(x, step) /\ DOMAIN pc' = Threads
<1>1. ASSUME Goto(x, step)  PROVE Moves(x, step) /\ DOMAIN pc' = Threads
  BY <1>1 DEF Goto, Moves, Woken
<1>2. ASSUME NEW s \in Scheds, GotoAndSignal(x, step, s)
      PROVE  Moves(x, step) /\ DOMAIN pc' = Threads
  BY <1>2, ThreadFacts DEF GotoAndSignal, Moves, Woken
<1> QED  BY <1>1, <1>2

\* A step of Scheduler that does not move c.
Aside(c) ==
  /\ \A s \in Scheds : InReady(c, s)' => InReady(c, s)
  /\ \A s \in Scheds : c \in timers'[s] => c \in timers[s]
  /\ \A s \in Scheds : OnCpu(c, s)' => OnCpu(c, s)
  /\ \A s \in Scheds : RunAt(c, s) /\ await[c] # "idle" => RunAt(c, s)'
  /\ \A x \in Threads : append'[x].co = c => append[x].co = c /\ append'[x].to = append[x].to
  /\ Alive(c) => Alive(c)'

\* c stays where it is.
LEMMA AsideStays ==
  ASSUME SoundInv, NEW c \in Cos, Aside(c), UNCHANGED asyncVars  PROVE PlacePart(c)'
<1>1. /\ await' = await /\ job' = job /\ co_queue' = co_queue /\ readers' = readers /\ hand' = hand
  BY DEF asyncVars
<1>2. ASSUME NEW k \in AsyncKinds, NEW x \in Threads, In(c, k, x)'
      PROVE  In(c, k, x) /\ HomeOf(k, x)' = HomeOf(k, x)
  <2>1. In(c, k, x)  BY <1>1, <1>2 DEF In, Aside
  <2>2. k = "append" => append'[x].co = c  BY <1>2 DEF In
  <2> QED  BY <2>1, <2>2 DEF HomeOf, Aside
<1>3. PlacePart(c)  BY DEF SoundInv, CosInv
<1>4. await'[c] \in InCall => \E s \in Scheds : RunAt(c, s)'
  BY <1>1, <1>3 DEF PlacePart, AwaitInv, Aside, InCall
<1>5. \A s \in Scheds, n \in Nums : <<c, n>> \in readers'[s] => AtHome(c, s)
  BY <1>1, <1>3 DEF PlacePart, HomeInv
<1>6. Stays(c)  BY <1>1, <1>2, <1>4, <1>5 DEF Stays, Aside, Held
<1> QED  BY <1>3, <1>6, StaysKeeps

\* Steps that move no coroutine.
QuietPc ==
  /\ \A y \in Threads : \A step \in Running \cup Appending : pc'[y] = step <=> pc[y] = step
  /\ \A s \in Scheds : pc[s] \in Running => co_curr'[s] = co_curr[s]
  /\ DOMAIN co_curr' = Scheds /\ DOMAIN pc' = Threads

\* They keep the invariant.
LEMMA QuietSound ==
  ASSUME SoundInv, UNCHANGED <<ready, tail, timers, append, p_turn, life>>, UNCHANGED asyncVars,
         QuietPc
  PROVE  SoundInv'
<1>1. \A c \in Cos, s \in Scheds : (OnCpu(c, s)' <=> OnCpu(c, s)) /\ (RunAt(c, s) => RunAt(c, s)')
  BY ThreadFacts DEF QuietPc, OnCpu, RunAt
<1>2. ASSUME NEW c \in Cos  PROVE PlacePart(c)'
  <2>1. Aside(c)  BY <1>1 DEF Aside, InReady, Alive
  <2> QED  BY <2>1, AsideStays
<1>3. AsyncTypes' /\ \A c \in Cos : FuturePart(c)'  BY SchedulerFutures
<1>4. SchedTypes'  BY DEF SoundInv, SchedTypes, QuietPc
<1>5. StepsInv'
  <2>1. await' = await  BY DEF asyncVars
  <2>2. Distinct'  BY DEF SoundInv, StepsInv, Distinct
  <2> QED  BY <2>1, <2>2, ThreadFacts DEF SoundInv, StepsInv, QuietPc
<1> QED  BY <1>2, <1>3, <1>4, <1>5 DEF SoundInv, CosInv

\* The steps of a scheduler's thread around a coroutine.
LEMMA QuietSchedSound ==
  ASSUME SoundInv, NEW s \in Scheds, UNCHANGED asyncVars,
         \/ SchedStart(s) \/ LoopTest(s) \/ CheckCoNums(s) \/ SchedSpuriousWakeup(s)
         \/ PickNone(s) \/ TimersEnd(s) \/ sched_exit(s)
  PROVE  SoundInv'
<1>1. DOMAIN pc = Threads /\ DOMAIN co_curr = Scheds /\ s \in Threads
  BY ThreadFacts DEF SoundInv, SchedTypes
<1>2. PICK step \in {"loop", "check", "exit", "pick", "wait", "timers", "dead"} :
        /\ Goto(s, step) /\ pc[s] \notin Running \cup Appending
        /\ UNCHANGED <<ready, tail, timers, append, p_turn, life>>
        /\ DOMAIN co_curr' = Scheds /\ \A r \in Scheds \ {s} : co_curr'[r] = co_curr[r]
  BY <1>1 DEF SchedStart, LoopTest, CheckCoNums, AfterCheck, SchedSpuriousWakeup, PickNone,
              TimersEnd, sched_exit, schedVars, coVars, procVars
<1>3. Moves(s, step) /\ DOMAIN pc' = Threads  BY <1>1, <1>2, AsyncGoto
<1>4. QuietPc  BY <1>2, <1>3, ThreadFacts DEF QuietPc, Moves, Woken
<1> QED  BY <1>2, <1>4, QuietSound

\* processors_coroutine_done
LEMMA CoDoneSound ==
  ASSUME SoundInv, NEW s \in Scheds, UNCHANGED asyncVars, CoDone(s)  PROVE SoundInv'
<1>1. DOMAIN pc = Threads /\ DOMAIN co_curr = Scheds /\ s \in Threads /\ s # Main
      /\ Main \in Threads /\ Main \notin Scheds
  BY ThreadFacts DEF SoundInv, SchedTypes
<1>2. /\ pc[s] = "done" /\ UNCHANGED <<ready, tail, timers, append, p_turn, life, co_curr>>
      /\ pc' = [pc EXCEPT ![s] = "loop",
                          ![Main] = IF wg = 1 /\ @ = "waitgroup" THEN "join" ELSE @]
  BY DEF CoDone, schedVars, coVars
<1>3. DOMAIN pc' = Threads /\ Moves(s, "loop")
  BY <1>1, <1>2 DEF Moves, Woken
<1>4. QuietPc  BY <1>1, <1>2, <1>3, ThreadFacts DEF QuietPc, Moves, Woken
<1> QED  BY <1>2, <1>4, QuietSound

\* The main thread.
LEMMA MainSound ==
  ASSUME SoundInv, MainStep \/ MainSpuriousWakeup, UNCHANGED asyncVars, Ok'  PROVE SoundInv'
<1>1. DOMAIN pc = Threads /\ DOMAIN co_curr = Scheds /\ Main \in Threads
  BY ThreadFacts DEF SoundInv, SchedTypes
<1>2. ~processors_destory  BY DEF processors_destory, Ok
<1>3. PICK step \in {"join", "waitgroup", "stop", "signal", "pthread_join", "destroy"} :
        /\ \/ Goto(Main, step)
           \/ GotoAndSignal(Main, step, joined)
        /\ pc[Main] \notin Running \cup Appending
        /\ UNCHANGED <<ready, tail, timers, append, p_turn, life, co_curr>>
  BY <1>2 DEF MainStep, CallLoop, wait_group_wait, AfterWgTest, WakeupStop, WakeupSignal,
              JoinThread, MainSpuriousWakeup, schedVars, coVars, procVars
<1>4. Moves(Main, step) /\ DOMAIN pc' = Threads
  <2>1. CASE Goto(Main, step)  BY <1>1, <2>1, AsyncGoto
  <2>2. CASE GotoAndSignal(Main, step, joined)
    BY <1>1, <2>2 DEF GotoAndSignal, Moves, Woken
  <2> QED  BY <1>3, <2>1, <2>2
<1>5. QuietPc  BY <1>1, <1>3, <1>4, ThreadFacts DEF QuietPc, Moves, Woken
<1> QED  BY <1>3, <1>5, QuietSound

\* A coroutine that leaves the place k0, x0 for k1, x1 on the same scheduler.
Shifts(c, k0, x0, k1, x1) ==
  /\ In(c, k0, x0) /\ await[c] \notin InCall
  /\ \A k \in AsyncKinds, x \in Threads :
       In(c, k, x)' => k = k1 /\ x = x1 /\ HomeOf(k, x)' = HomeOf(k0, x0) /\ Alive(c)'
  /\ \A s \in Scheds : OnCpu(c, s)' => s = HomeOf(k0, x0) /\ Alive(c)'

\* What is said of its place holds there.
LEMMA ShiftKeeps ==
  ASSUME SoundInv, UNCHANGED asyncVars, NEW c \in Cos, NEW k0 \in AsyncKinds, NEW x0 \in Threads,
         NEW k1, NEW x1, Shifts(c, k0, x0, k1, x1)
  PROVE  PlacePart(c)'
<1> PICK h : h = HomeOf(k0, x0)  OBVIOUS
<1>1. /\ await' = await /\ job' = job /\ readers' = readers /\ hand' = hand
  BY DEF asyncVars
<1>2. PlacePart(c)  BY DEF SoundInv, CosInv
<1>3. \A n \in Nums : ~Held(c, n)'
  BY <1>1, <1>2 DEF Shifts, PlacePart, HeldInv, Held
<1>4. \A s \in Scheds, n \in Nums : <<c, n>> \in readers'[s] => s = h
  BY <1>1, <1>2 DEF Shifts, PlacePart, HomeInv, AtHome
<1>5. await'[c] \notin InCall /\ await'[c] # "queued"  BY <1>1 DEF Shifts, InCall
<1>6. Goes(c, k1, x1, 0, h)  BY <1>3, <1>4, <1>5 DEF Goes, Shifts
<1> QED  BY <1>6, GoesKeeps

\* A step of Scheduler that moves d only.
LEMMA ShiftSound ==
  ASSUME SoundInv, UNCHANGED asyncVars, NEW d \in Cos, PlacePart(d)',
         \A c \in Cos \ {d} : Aside(c), SchedTypes', StepsInv',
         \A c \in Cos : life[c] # "none" => life'[c] # "none"
  PROVE  SoundInv'
<1>1. \A c \in Cos : PlacePart(c)'  BY AsideStays
<1>2. AsyncTypes' /\ \A c \in Cos : FuturePart(c)'  BY SchedulerFutures
<1> QED  BY <1>1, <1>2 DEF SoundInv, CosInv

\* A coroutine that is not on co_queue and does not run is outside the calls,
\* unless it is ready on a scheduler that runs.
LEMMA OffCpu ==
  ASSUME SoundInv, NEW c \in Cos, NEW k \in {"ready", "asleep", "append"}, NEW x \in Threads,
         In(c, k, x), k = "ready" => pc[x] \notin Running
  PROVE  await[c] \notin InCall /\ \A s \in Scheds : ~OnCpu(c, s)
<1>1. PlacePart(c) /\ k \in AsyncKinds /\ "running" \in AsyncKinds
  BY DEF SoundInv, CosInv, AsyncKinds
<1>2. ASSUME NEW s \in Scheds, OnCpu(c, s)  PROVE FALSE
  <2>1. s \in Threads  BY ThreadFacts
  <2>2. CASE await[c] # "queued"
    <3>1. In(c, "running", s)  BY <1>2, <2>2 DEF In
    <3> QED  BY <1>1, <2>1, <3>1 DEF PlacePart, PlacesInv
  <2>3. CASE await[c] = "queued"
    <3>1. k = "ready" /\ AtHome(c, s)  BY <1>1, <1>2, <2>3 DEF PlacePart, AwaitInv
    <3>2. x = s  BY <1>1, <3>1 DEF AtHome, HomeOf
    <3> QED  BY <1>2, <3>1, <3>2 DEF OnCpu
  <2> QED  BY <2>2, <2>3
<1>3. await[c] \notin InCall
  BY <1>1, <1>2 DEF PlacePart, AwaitInv, RunAt, OnCpu
<1> QED  BY <1>2, <1>3

\* A coroutine outside the calls that runs is in this place only.
LEMMA OnlyRuns ==
  ASSUME SoundInv, NEW s \in Scheds, pc[s] = "run", await[co_curr[s]] = "idle"
  PROVE  /\ co_curr[s] \in Cos /\ s \in Threads /\ In(co_curr[s], "running", s) /\ Alive(co_curr[s])
         /\ \A k \in AsyncKinds, x \in Threads : In(co_curr[s], k, x) => k = "running" /\ x = s
         /\ \A r \in Scheds : OnCpu(co_curr[s], r) => r = s
         /\ HomeOf("running", s) = s /\ await[co_curr[s]] \notin InCall
<1>1. co_curr[s] \in Cos /\ s \in Threads  BY ThreadFacts DEF SoundInv, StepsInv
<1>2. PlacePart(co_curr[s]) /\ "running" \in AsyncKinds  BY <1>1 DEF SoundInv, CosInv, AsyncKinds
<1>3. In(co_curr[s], "running", s) /\ OnCpu(co_curr[s], s)  BY DEF In, OnCpu
<1> QED  BY <1>1, <1>2, <1>3 DEF PlacePart, PlacesInv, HomeOf, InCall

\* pick_one_co and schedule.
LEMMA PickSound ==
  ASSUME SoundInv, NEW s \in Scheds, UNCHANGED asyncVars, PickAndSchedule(s)  PROVE SoundInv'
<1> PICK co : co = Head(ready[s])  OBVIOUS
<1>0. SchedTypes /\ StepsInv  BY DEF SoundInv
<1>1. /\ UNCHANGED <<timers, append, p_turn>> /\ pc[s] = "pick" /\ ready[s] # <<>>
      /\ ready' = [ready EXCEPT ![s] = Tail(ready[s])]
      /\ co_curr' = [co_curr EXCEPT ![s] = co] /\ life' = [life EXCEPT ![co] = "started"]
  BY DEF PickAndSchedule, procVars
<1>2. /\ Moves(s, "run") /\ DOMAIN pc' = Threads /\ s \in Threads /\ pc'[s] = "run"
      /\ \A y \in Threads \ {s} : pc'[y] = pc[y]
  BY <1>0, ThreadFacts DEF PickAndSchedule, SchedTypes, Goto, Moves, Woken
<1>3. /\ co \in Cos /\ ready' \in [Scheds -> Seq(Cos)] /\ Distinct'
      /\ InReady(co, s) /\ ~InReady(co, s)'
      /\ \A r \in Scheds : \A d : InReady(d, r)' => InReady(d, r)
  BY <1>0, <1>1, FirstLeaves DEF SchedTypes, StepsInv
<1>4. co_curr'[s] = co /\ DOMAIN co_curr' = Scheds /\ \A r \in Scheds \ {s} : co_curr'[r] = co_curr[r]
  BY <1>0, <1>1 DEF SchedTypes
<1>5. co \in Cos /\ In(co, "ready", s)  BY <1>3 DEF In
<1>6. await[co] \notin InCall /\ \A r \in Scheds : ~OnCpu(co, r)  BY <1>1, <1>2, <1>5, OffCpu
<1>7. /\ life' \in [Cos -> {"none", "new", "started", "done"}] /\ life'[co] = "started"
      /\ \A c \in Cos \ {co} : life'[c] = life[c]
  BY <1>0, <1>1, <1>5 DEF SchedTypes
<1>8. /\ \A c \in Cos \ {co}, r \in Scheds : OnCpu(c, r)' => OnCpu(c, r)
      /\ \A c \in Cos, r \in Scheds : RunAt(c, r) => RunAt(c, r)'
      /\ \A r \in Scheds : OnCpu(co, r)' => r = s
  BY <1>1, <1>2, <1>4, <1>6, ThreadFacts DEF OnCpu, RunAt
<1>9. ASSUME NEW c \in Cos \ {co}  PROVE Aside(c)
  BY <1>1, <1>3, <1>7, <1>8 DEF Aside, Alive
<1>10. PlacePart(co)'
  <2>1. PlacePart(co) /\ "ready" \in AsyncKinds  BY <1>5 DEF SoundInv, CosInv, AsyncKinds
  <2>2. ASSUME NEW k \in AsyncKinds, NEW x \in Threads, In(co, k, x)'
        PROVE  k = "running" /\ x = s
    <3>1. CASE k = "running"  BY <1>8, <2>2, <3>1 DEF In
    <3>2. CASE k # "running"
      <4>1. co_queue' = co_queue  BY DEF asyncVars
      <4>2. In(co, k, x)  BY <1>1, <1>3, <2>2, <3>2, <4>1 DEF In
      <4>3. k = "ready" /\ x = s  BY <1>2, <1>5, <2>1, <4>2 DEF PlacePart, PlacesInv
      <4> QED  BY <1>3, <2>2, <4>3 DEF In
    <3> QED  BY <3>1, <3>2
  <2>3. HomeOf("ready", s) = s /\ HomeOf("running", s)' = s  BY DEF HomeOf
  <2>4. Shifts(co, "ready", s, "running", s)
    BY <1>5, <1>6, <1>7, <1>8, <2>2, <2>3 DEF Shifts, Alive
  <2> QED  BY <1>2, <1>5, <2>1, <2>4, ShiftKeeps
<1>11. SchedTypes'
  <2>1. tail' \in [Scheds -> Cos \cup {NoCo}]  BY <1>0 DEF PickAndSchedule, SchedTypes
  <2> QED  BY <1>0, <1>1, <1>2, <1>3, <1>4, <1>7, <2>1 DEF SchedTypes
<1>12. StepsInv'
  <2>1. await' = await  BY DEF asyncVars
  <2>2. Distinct'  BY <1>3
  <2> QED  BY <1>0, <1>1, <1>2, <1>4, <1>5, <2>1, <2>2, ThreadFacts DEF StepsInv
<1>13. \A c \in Cos : life[c] # "none" => life'[c] # "none"  BY <1>7
<1> QED  BY <1>5, <1>9, <1>10, <1>11, <1>12, <1>13, ShiftSound

\* Where the threads are when the coroutine of s leaves it.
LEMMA LeavesCpu ==
  ASSUME SoundInv, NEW s \in Scheds, pc[s] = "run", NEW step \in {"loop", "done"}, Goto(s, step),
         UNCHANGED <<co_curr, append>>, UNCHANGED asyncVars, Distinct'
  PROVE  /\ DOMAIN pc' = Threads /\ StepsInv'
         /\ \A c : \A r \in Scheds : OnCpu(c, r)' => OnCpu(c, r) /\ r # s
         /\ \A c : \A r \in Scheds : RunAt(c, r) /\ c # co_curr[s] => RunAt(c, r)'
<1>0. SchedTypes /\ StepsInv  BY DEF SoundInv
<1>1. /\ DOMAIN pc' = Threads /\ s \in Threads /\ pc'[s] = step
      /\ \A y \in Threads \ {s} : pc'[y] = pc[y]
  BY <1>0, ThreadFacts DEF SchedTypes, Goto
<1>2. StepsInv'
  <2>1. await' = await  BY DEF asyncVars
  <2> QED  BY <1>0, <1>1, <2>1, ThreadFacts DEF StepsInv
<1> QED  BY <1>1, <1>2, ThreadFacts DEF OnCpu, RunAt

\* sched_yield_coroutine up to the read of the last entry.
LEMMA YieldBeginSound ==
  ASSUME SoundInv, NEW s \in Scheds, UNCHANGED asyncVars, YieldBegin(s),
         await[co_curr[s]] = "idle"
  PROVE  SoundInv'
<1> PICK co : co = co_curr[s]  OBVIOUS
<1>0. SchedTypes /\ StepsInv  BY DEF SoundInv
<1>1. /\ UNCHANGED <<ready, tail, timers, co_curr, life, p_turn>> /\ pc[s] = "run"
      /\ Goto(s, "yield")
      /\ append' = [append EXCEPT ![s] = [co |-> co, to |-> s, prev |-> tail[s]]]
  BY DEF YieldBegin, MaySuspend, Begins, coVars, procVars
<1>2. /\ co \in Cos /\ s \in Threads /\ In(co, "running", s) /\ Alive(co)
      /\ \A k \in AsyncKinds, x \in Threads : In(co, k, x) => k = "running" /\ x = s
      /\ \A r \in Scheds : OnCpu(co, r) => r = s
      /\ HomeOf("running", s) = s /\ await[co] \notin InCall
  BY <1>1, OnlyRuns
<1>3. /\ DOMAIN pc' = Threads /\ pc'[s] = "yield" /\ \A y \in Threads \ {s} : pc'[y] = pc[y]
  BY <1>0, <1>1, <1>2 DEF SchedTypes, Goto
<1>4. /\ append' \in [Threads -> [co : Cos \cup {NoCo}, to : Scheds, prev : Cos \cup {NoCo}]]
      /\ append'[s].co = co /\ append'[s].to = s
      /\ \A y \in Threads \ {s} : append'[y] = append[y]
  BY <1>0, <1>1, <1>2 DEF SchedTypes
<1>5. Distinct' /\ \A r \in Scheds : \A d : InReady(d, r)' <=> InReady(d, r)
  BY <1>0, <1>1 DEF StepsInv, Distinct, InReady
<1>6. /\ \A c : \A r \in Scheds : OnCpu(c, r)' => OnCpu(c, r) /\ r # s
      /\ \A c : \A r \in Scheds : RunAt(c, r) /\ c # co => RunAt(c, r)'
  BY <1>1, <1>3, ThreadFacts DEF OnCpu, RunAt
<1>7. ASSUME NEW c \in Cos \ {co}  PROVE Aside(c)
  BY <1>1, <1>4, <1>5, <1>6 DEF Aside, Alive
<1>8. PlacePart(co)'
  <2>1. ASSUME NEW k \in AsyncKinds, NEW x \in Threads, In(co, k, x)'
        PROVE  k = "append" /\ x = s
    <3>1. co_queue' = co_queue /\ await' = await  BY DEF asyncVars
    <3>2. In(co, k, x) \/ (k = "append" /\ x = s)
      BY <1>1, <1>4, <1>5, <1>6, <2>1, <3>1 DEF In
    <3>3. ~(k = "running" /\ x = s)  BY <1>6, <2>1 DEF In
    <3> QED  BY <1>2, <3>2, <3>3
  <2>2. HomeOf("append", s)' = s  BY <1>4 DEF HomeOf
  <2>3. Shifts(co, "running", s, "append", s)
    BY <1>1, <1>2, <1>6, <2>1, <2>2 DEF Shifts, Alive
  <2> QED  BY <1>2, <2>3, ShiftKeeps DEF AsyncKinds
<1>9. SchedTypes'  BY <1>0, <1>1, <1>3, <1>4 DEF SchedTypes
<1>10. StepsInv'
  <2>1. await' = await /\ co # NoCo  BY <1>2, ThreadFacts DEF asyncVars
  <2> QED  BY <1>0, <1>1, <1>3, <1>4, <1>5, <2>1, ThreadFacts DEF StepsInv
<1> QED  BY <1>1, <1>2, <1>7, <1>8, <1>9, <1>10, ShiftSound

\* sched_delay
LEMMA DelaySound ==
  ASSUME SoundInv, NEW s \in Scheds, UNCHANGED asyncVars, sched_delay(s),
         await[co_curr[s]] = "idle"
  PROVE  SoundInv'
<1> PICK co : co = co_curr[s]  OBVIOUS
<1>0. SchedTypes /\ StepsInv  BY DEF SoundInv
<1>1. /\ UNCHANGED <<ready, tail, append, p_turn, co_curr, life>> /\ pc[s] = "run"
      /\ Goto(s, "loop") /\ timers' = [timers EXCEPT ![s] = @ \cup {co}]
  BY DEF sched_delay, MaySuspend, LeavesStack, procVars, co_timer_after
<1>2. /\ co \in Cos /\ s \in Threads /\ In(co, "running", s) /\ Alive(co)
      /\ \A k \in AsyncKinds, x \in Threads : In(co, k, x) => k = "running" /\ x = s
      /\ \A r \in Scheds : OnCpu(co, r) => r = s
      /\ HomeOf("running", s) = s /\ await[co] \notin InCall
  BY <1>1, OnlyRuns
<1>3. /\ timers' \in [Scheds -> SUBSET Cos]
      /\ \A r \in Scheds : \A d : d \in timers'[r] => d \in timers[r] \/ (d = co /\ r = s)
  BY <1>0, <1>1, <1>2 DEF SchedTypes
<1>4. Distinct' /\ \A r \in Scheds : \A d : InReady(d, r)' <=> InReady(d, r)
  BY <1>0, <1>1 DEF StepsInv, Distinct, InReady
<1>5. /\ DOMAIN pc' = Threads /\ StepsInv'
      /\ \A c : \A r \in Scheds : OnCpu(c, r)' => OnCpu(c, r) /\ r # s
      /\ \A c : \A r \in Scheds : RunAt(c, r) /\ c # co => RunAt(c, r)'
  BY <1>1, <1>4, LeavesCpu
<1>6. ASSUME NEW c \in Cos \ {co}  PROVE Aside(c)
  BY <1>1, <1>3, <1>4, <1>5 DEF Aside, Alive
<1>7. PlacePart(co)'
  <2>1. ASSUME NEW k \in AsyncKinds, NEW x \in Threads, In(co, k, x)'
        PROVE  k = "asleep" /\ x = s
    <3>1. co_queue' = co_queue /\ await' = await  BY DEF asyncVars
    <3>2. In(co, k, x) \/ (k = "asleep" /\ x = s)
      BY <1>1, <1>3, <1>4, <1>5, <2>1, <3>1 DEF In
    <3>3. ~(k = "running" /\ x = s)  BY <1>5, <2>1 DEF In
    <3> QED  BY <1>2, <3>2, <3>3
  <2>2. HomeOf("asleep", s)' = s  BY DEF HomeOf
  <2>3. Shifts(co, "running", s, "asleep", s)
    BY <1>1, <1>2, <1>5, <2>1, <2>2 DEF Shifts, Alive
  <2> QED  BY <1>2, <2>3, ShiftKeeps DEF AsyncKinds
<1>8. SchedTypes'  BY <1>0, <1>1, <1>3, <1>5 DEF SchedTypes
<1> QED  BY <1>1, <1>2, <1>5, <1>6, <1>7, <1>8, ShiftSound

\* co_wrapper after the coroutine function.
LEMMA ReturnsSound ==
  ASSUME SoundInv, NEW s \in Scheds, UNCHANGED asyncVars, CoReturns(s),
         await[co_curr[s]] = "idle"
  PROVE  SoundInv'
<1> PICK co : co = co_curr[s]  OBVIOUS
<1>0. SchedTypes /\ StepsInv  BY DEF SoundInv
<1>1. /\ UNCHANGED <<ready, tail, timers, append, p_turn, co_curr>> /\ pc[s] = "run"
      /\ Goto(s, "done") /\ life' = [life EXCEPT ![co] = "done"]
  BY DEF CoReturns, procVars
<1>2. /\ co \in Cos /\ s \in Threads /\ In(co, "running", s) /\ Alive(co)
      /\ \A k \in AsyncKinds, x \in Threads : In(co, k, x) => k = "running" /\ x = s
      /\ \A r \in Scheds : OnCpu(co, r) => r = s
      /\ HomeOf("running", s) = s /\ await[co] \notin InCall
  BY <1>1, OnlyRuns
<1>3. /\ life' \in [Cos -> {"none", "new", "started", "done"}] /\ life'[co] = "done"
      /\ \A c \in Cos \ {co} : life'[c] = life[c]
  BY <1>0, <1>1, <1>2 DEF SchedTypes
<1>4. Distinct' /\ \A r \in Scheds : \A d : InReady(d, r)' <=> InReady(d, r)
  BY <1>0, <1>1 DEF StepsInv, Distinct, InReady
<1>5. /\ DOMAIN pc' = Threads /\ StepsInv'
      /\ \A c : \A r \in Scheds : OnCpu(c, r)' => OnCpu(c, r) /\ r # s
      /\ \A c : \A r \in Scheds : RunAt(c, r) /\ c # co => RunAt(c, r)'
  BY <1>1, <1>4, LeavesCpu
<1>6. ASSUME NEW c \in Cos \ {co}  PROVE Aside(c)
  BY <1>1, <1>3, <1>4, <1>5 DEF Aside, Alive
<1>7. PlacePart(co)'
  <2>1. ASSUME NEW k \in AsyncKinds, NEW x \in Threads, In(co, k, x)'
        PROVE  FALSE
    <3>1. co_queue' = co_queue /\ await' = await  BY DEF asyncVars
    <3>2. In(co, k, x)  BY <1>1, <1>4, <1>5, <2>1, <3>1 DEF In
    <3>3. ~(k = "running" /\ x = s)  BY <1>5, <2>1 DEF In
    <3> QED  BY <1>2, <3>2, <3>3
  <2>2. Shifts(co, "running", s, "running", s)
    BY <1>2, <1>5, <2>1 DEF Shifts
  <2> QED  BY <1>2, <2>2, ShiftKeeps DEF AsyncKinds
<1>8. SchedTypes'  BY <1>0, <1>1, <1>3, <1>5 DEF SchedTypes
<1>9. \A c \in Cos : life[c] # "none" => life'[c] # "none"  BY <1>3
<1> QED  BY <1>2, <1>5, <1>6, <1>7, <1>8, <1>9, ShiftSound

\* process_expired_timers and sched_co_resume up to the read of the last entry.
LEMMA ResumeBeginSound ==
  ASSUME SoundInv, NEW s \in Scheds, NEW co \in Cos, UNCHANGED asyncVars, ResumeBegin(s, co)
  PROVE  SoundInv'
<1>0. SchedTypes /\ StepsInv  BY DEF SoundInv
<1>1. /\ UNCHANGED <<ready, tail, co_curr, life, p_turn>> /\ pc[s] = "timers" /\ co \in timers[s]
      /\ timers' = [timers EXCEPT ![s] = timers[s] \ {co}] /\ Goto(s, "resume")
      /\ append' = [append EXCEPT ![s] = [co |-> co, to |-> s, prev |-> tail[s]]]
  BY DEF ResumeBegin, Begins, WithoutTop, procVars
<1>2. /\ DOMAIN pc' = Threads /\ s \in Threads /\ pc'[s] = "resume"
      /\ \A y \in Threads \ {s} : pc'[y] = pc[y]
  BY <1>0, <1>1, ThreadFacts DEF SchedTypes, Goto
<1>3. /\ timers' \in [Scheds -> SUBSET Cos] /\ co \notin timers'[s]
      /\ \A r \in Scheds : \A d : d \in timers'[r] => d \in timers[r]
  BY <1>0, <1>1 DEF SchedTypes
<1>4. /\ append' \in [Threads -> [co : Cos \cup {NoCo}, to : Scheds, prev : Cos \cup {NoCo}]]
      /\ append'[s].co = co /\ append'[s].to = s
      /\ \A y \in Threads \ {s} : append'[y] = append[y]
  BY <1>0, <1>1, <1>2 DEF SchedTypes
<1>5. In(co, "asleep", s) /\ PlacePart(co) /\ "asleep" \in AsyncKinds
  BY <1>1 DEF In, SoundInv, CosInv, AsyncKinds
<1>6. await[co] \notin InCall /\ \A r \in Scheds : ~OnCpu(co, r)  BY <1>2, <1>5, OffCpu
<1>7. Distinct' /\ \A r \in Scheds : \A d : InReady(d, r)' <=> InReady(d, r)
  BY <1>0, <1>1 DEF StepsInv, Distinct, InReady
<1>8. \A c : \A r \in Scheds : (OnCpu(c, r)' => OnCpu(c, r)) /\ (RunAt(c, r) => RunAt(c, r)')
  BY <1>1, <1>2, ThreadFacts DEF OnCpu, RunAt
<1>9. ASSUME NEW c \in Cos \ {co}  PROVE Aside(c)
  BY <1>1, <1>3, <1>4, <1>7, <1>8 DEF Aside, Alive
<1>10. PlacePart(co)'
  <2>1. ASSUME NEW k \in AsyncKinds, NEW x \in Threads, In(co, k, x)'
        PROVE  k = "append" /\ x = s
    <3>1. co_queue' = co_queue /\ await' = await  BY DEF asyncVars
    <3>2. In(co, k, x) \/ (k = "append" /\ x = s)
      BY <1>1, <1>3, <1>4, <1>7, <1>8, <2>1, <3>1 DEF In
    <3>3. ~(k = "asleep" /\ x = s)  BY <1>3, <2>1 DEF In
    <3> QED  BY <1>2, <1>5, <3>2, <3>3 DEF PlacePart, PlacesInv
  <2>2. HomeOf("asleep", s) = s /\ HomeOf("append", s)' = s  BY <1>4 DEF HomeOf
  <2>3. Alive(co) /\ Alive(co)'  BY <1>1, <1>2, <1>5 DEF PlacePart, PlacesInv, Alive
  <2>4. Shifts(co, "asleep", s, "append", s)
    BY <1>5, <1>6, <1>8, <2>1, <2>2, <2>3 DEF Shifts
  <2> QED  BY <1>2, <1>5, <2>4, ShiftKeeps
<1>11. SchedTypes'  BY <1>0, <1>1, <1>2, <1>3, <1>4 DEF SchedTypes
<1>12. StepsInv'
  <2>1. await' = await  BY DEF asyncVars
  <2> QED  BY <1>0, <1>1, <1>2, <1>4, <1>7, <2>1, ThreadFacts DEF StepsInv
<1> QED  BY <1>1, <1>9, <1>10, <1>11, <1>12, ShiftSound

\* The end of an append.
LEMMA EndsSound ==
  ASSUME SoundInv, NEW x \in Threads, UNCHANGED asyncVars,
         pc[x] \in {"submit", "yield", "resume"}, Ends(x),
         NEW step, step \notin Appending, Moves(x, step), DOMAIN pc' = Threads,
         step = "run" => pc[x] = "submit", UNCHANGED <<timers, co_curr, life, p_turn>>
  PROVE  SoundInv'
<1> PICK co, s : co = append[x].co /\ s = append[x].to  OBVIOUS
<1>0. SchedTypes /\ StepsInv  BY DEF SoundInv
<1>1. append[x] \in [co : Cos \cup {NoCo}, to : Scheds, prev : Cos \cup {NoCo}]
  BY <1>0 DEF SchedTypes
<1>2. co \in Cos /\ s \in Scheds /\ append[x].prev \in Cos \cup {NoCo}
  <2>1. co # NoCo  BY <1>0 DEF StepsInv
  <2> QED  BY <1>1, <2>1
<1>3. In(co, "append", x) /\ PlacePart(co) /\ "append" \in AsyncKinds /\ "ready" \in AsyncKinds
  BY <1>2 DEF In, SoundInv, CosInv, AsyncKinds
<1>4. ~InReady(co, s)
  <2>1. ~In(co, "ready", s)  BY <1>2, <1>3, ThreadFacts DEF PlacePart, PlacesInv
  <2> QED  BY <1>2, <2>1 DEF In
<1>5. LinksBehind(s, append[x].prev, co) /\ append' = [append EXCEPT ![x] = NoAppend]
  BY DEF Ends
<1>6. /\ ready' \in [Scheds -> Seq(Cos)] /\ tail' \in [Scheds -> Cos \cup {NoCo}] /\ Distinct'
      /\ \A r \in Scheds : \A d : InReady(d, r)' => InReady(d, r) \/ (d = co /\ r = s)
  <2>1. PICK prev \in Cos \cup {NoCo} : LinksBehind(s, prev, co)  BY <1>2, <1>5
  <2>2. ready \in [Scheds -> Seq(Cos)] /\ tail \in [Scheds -> Cos \cup {NoCo}] /\ Distinct
    BY <1>0 DEF SchedTypes, StepsInv
  <2> QED  BY <1>2, <1>4, <2>1, <2>2, LinkQueue
<1>7. /\ append' \in [Threads -> [co : Cos \cup {NoCo}, to : Scheds, prev : Cos \cup {NoCo}]]
      /\ append'[x].co = NoCo /\ \A y \in Threads \ {x} : append'[y] = append[y]
  BY <1>0, <1>5, ThreadFacts DEF SchedTypes, NoAppend
<1>8. await[co] \notin InCall /\ \A r \in Scheds : ~OnCpu(co, r)  BY <1>2, <1>3, OffCpu
<1>9. /\ pc'[x] = step
      /\ \A y \in Threads \ {x} : \A l \in Running \cup Appending : pc'[y] = l <=> pc[y] = l
  BY DEF Moves, Woken
<1>10. \A c : \A r \in Scheds : (OnCpu(c, r)' => OnCpu(c, r)) /\ (RunAt(c, r) => RunAt(c, r)')
  BY <1>9, ThreadFacts DEF OnCpu, RunAt
<1>11. ASSUME NEW c \in Cos \ {co}  PROVE Aside(c)
  <2>1. c # NoCo  BY ThreadFacts
  <2> QED  BY <1>6, <1>7, <1>10, <2>1 DEF Aside, Alive
<1>12. PlacePart(co)'
  <2>1. ASSUME NEW k \in AsyncKinds, NEW y \in Threads, In(co, k, y)'
        PROVE  k = "ready" /\ y = s
    <3>1. co_queue' = co_queue /\ await' = await  BY DEF asyncVars
    <3>2. co # NoCo  BY <1>2, ThreadFacts
    <3>3. ~(k = "append" /\ y = x)  BY <1>7, <2>1, <3>2 DEF In
    <3>4. In(co, k, y) \/ (k = "ready" /\ y = s)
      BY <1>6, <1>7, <1>10, <2>1, <3>1, <3>3 DEF In
    <3> QED  BY <1>3, <3>3, <3>4 DEF PlacePart, PlacesInv
  <2>2. HomeOf("append", x) = s /\ HomeOf("ready", s)' = s  BY DEF HomeOf
  <2>3. Alive(co) /\ Alive(co)'  BY <1>3 DEF PlacePart, PlacesInv, Alive
  <2>4. Shifts(co, "append", x, "ready", s)
    BY <1>3, <1>8, <1>10, <2>1, <2>2, <2>3 DEF Shifts
  <2> QED  BY <1>2, <1>3, <2>4, ShiftKeeps
<1>13. SchedTypes'  BY <1>0, <1>6, <1>7 DEF SchedTypes
<1>14. StepsInv'
  <2>1. await' = await /\ Distinct'  BY <1>6 DEF asyncVars
  <2>2. \A y \in Threads : append'[y].co # NoCo <=> pc'[y] \in Appending
    BY <1>0, <1>7, <1>9 DEF StepsInv
  <2>3. ASSUME NEW r \in Scheds
        PROVE  /\ pc'[r] \in {"resume", "yield"} => append'[r].to = r
               /\ pc'[r] \in Running => co_curr'[r] \in Cos
               /\ pc'[r] \in Submitting => await'[co_curr'[r]] = "idle"
    <3>1. CASE r = x  BY <1>0, <1>9, <2>1, <3>1 DEF StepsInv
    <3>2. CASE r # x  BY <1>0, <1>7, <1>9, <2>1, <3>2, ThreadFacts DEF StepsInv
    <3> QED  BY <3>1, <3>2
  <2> QED  BY <2>1, <2>2, <2>3 DEF StepsInv
<1> QED  BY <1>2, <1>11, <1>12, <1>13, <1>14, ShiftSound

\* The rest of sched_sched, of sched_yield_coroutine, and of sched_co_resume on
\* the thread of a scheduler.
LEMMA AppendEndsSound ==
  ASSUME SoundInv, NEW x \in Threads, UNCHANGED asyncVars,
         SubmitEnd(x) \/ (x \in Scheds /\ (YieldEnd(x) \/ ResumeEnd(x)))
  PROVE  SoundInv'
<1>0. DOMAIN pc = Threads /\ append[x].to \in Scheds  BY DEF SoundInv, SchedTypes
<1>1. CASE SubmitEnd(x)
  <2> PICK back \in {"create", "run"} : back = IF x = Main THEN "create" ELSE "run"  OBVIOUS
  <2>1. /\ pc[x] = "submit" /\ Ends(x) /\ UNCHANGED <<timers, co_curr, life, p_turn>>
        /\ GotoAndSignal(x, back, append[x].to) \/ Goto(x, back)
    BY <1>1 DEF SubmitEnd, coVars, procVars
  <2>2. Moves(x, back) /\ DOMAIN pc' = Threads  BY <1>0, <2>1, AsyncGoto
  <2> QED  BY <2>1, <2>2, EndsSound
<1>2. CASE x \in Scheds /\ ResumeEnd(x)
  <2>1. pc[x] = "resume" /\ Ends(x) /\ UNCHANGED <<timers, co_curr, life, p_turn>> /\ Goto(x, "timers")
    BY <1>2 DEF ResumeEnd, coVars, procVars
  <2>2. Moves(x, "timers") /\ DOMAIN pc' = Threads  BY <1>0, <2>1, AsyncGoto
  <2> QED  BY <2>1, <2>2, EndsSound
<1>3. CASE x \in Scheds /\ YieldEnd(x)
  <2>1. pc[x] = "yield" /\ Ends(x) /\ UNCHANGED <<timers, co_curr, life, p_turn>> /\ Goto(x, "loop")
    BY <1>3 DEF YieldEnd, LeavesStack, procVars
  <2>2. Moves(x, "loop") /\ DOMAIN pc' = Threads  BY <1>0, <2>1, AsyncGoto
  <2> QED  BY <2>1, <2>2, EndsSound
<1> QED  BY <1>1, <1>2, <1>3

\* A coroutine that does not exist is nowhere and has no future.
LEMMA NewNowhere ==
  ASSUME SoundInv, NEW c \in Cos, life[c] = "none"
  PROVE  /\ await[c] = "idle" /\ \A k \in AsyncKinds, x \in Threads : ~In(c, k, x)
         /\ \A s \in Scheds : ~OnCpu(c, s)
         /\ \A n \in Nums : ~Held(c, n) /\ \A s \in Scheds : <<c, n>> \notin readers[s]
<1>1. PlacePart(c) /\ FuturePart(c) /\ ~Alive(c)  BY DEF SoundInv, CosInv, Alive
<1>2. calls[c] \notin Nums
  <2>1. ASSUME calls[c] \in Nums  PROVE FALSE
    <3>1. NumInv(c, calls[c])  BY <1>1, <2>1 DEF FuturePart, FutureInv
    <3>2. calls[c] <= calls[c]  BY <2>1 DEF Nums
    <3> QED  BY <3>1, <3>2 DEF NumInv
  <2> QED  BY <2>1
<1>3. await[c] = "idle"  BY <1>1, <1>2 DEF FuturePart, FutureInv
<1>4. \A k \in AsyncKinds, x \in Threads : ~In(c, k, x)  BY <1>1 DEF PlacePart, PlacesInv
<1>5. ASSUME NEW s \in Scheds, OnCpu(c, s)  PROVE FALSE
  <2>1. In(c, "running", s)  BY <1>3, <1>5 DEF In
  <2> QED  BY <1>4, <2>1, ThreadFacts DEF AsyncKinds
<1>6. ASSUME NEW n \in Nums  PROVE ~Held(c, n) /\ \A s \in Scheds : <<c, n>> \notin readers[s]
  <2>1. ~Held(c, n)  BY <1>1 DEF PlacePart, HeldInv
  <2>2. NumInv(c, n)  BY <1>1 DEF FuturePart, FutureInv
  <2>3. calls[c] \in 0 .. Calls /\ Calls \in Nat  BY AsyncAssumption DEF SoundInv, AsyncTypes
  <2>4. n <= calls[c] \/ calls[c] < n  BY <2>3 DEF Nums
  <2> QED  BY <2>1, <2>2, <2>4 DEF NumInv
<1> QED  BY <1>3, <1>4, <1>5, <1>6

\* coroutine_create up to the read of p_turn.
LEMMA SubmitTurnSound ==
  ASSUME SoundInv, NEW x \in Threads, NEW co \in Cos, UNCHANGED asyncVars, SubmitTurn(x, co),
         x \in Scheds /\ pc[x] = "run" => await[co_curr[x]] = "idle"
  PROVE  SoundInv'
<1>0. SchedTypes /\ StepsInv  BY DEF SoundInv
<1>1. /\ UNCHANGED <<ready, tail, timers, co_curr, p_turn>>
      /\ pc[x] = (IF x = Main THEN "create" ELSE "run") /\ Goto(x, "turn")
      /\ life[co] = "none" /\ life' = [life EXCEPT ![co] = "new"]
      /\ append' = [append EXCEPT ![x] = [co |-> co, to |-> p_turn, prev |-> NoCo]]
  BY DEF SubmitTurn, _co_new, schedVars, procVars
<1>2. /\ DOMAIN pc' = Threads /\ pc'[x] = "turn" /\ \A y \in Threads \ {x} : pc'[y] = pc[y]
      /\ x \in Scheds => pc[x] = "run" /\ await[co_curr[x]] = "idle"
  BY <1>0, <1>1, ThreadFacts DEF SchedTypes, Goto
<1>3. p_turn \in Scheds  BY <1>0 DEF SchedTypes
<1>4. /\ append' \in [Threads -> [co : Cos \cup {NoCo}, to : Scheds, prev : Cos \cup {NoCo}]]
      /\ append'[x].co = co /\ append'[x].to = p_turn
      /\ \A y \in Threads \ {x} : append'[y] = append[y]
  BY <1>0, <1>1, <1>3 DEF SchedTypes
<1>5. /\ life' \in [Cos -> {"none", "new", "started", "done"}] /\ life'[co] = "new"
      /\ \A c \in Cos \ {co} : life'[c] = life[c]
  BY <1>0, <1>1 DEF SchedTypes
<1>6. Distinct' /\ \A r \in Scheds : \A d : InReady(d, r)' <=> InReady(d, r)
  BY <1>0, <1>1 DEF StepsInv, Distinct, InReady
<1>7. /\ \A c : \A r \in Scheds : OnCpu(c, r)' <=> OnCpu(c, r)
      /\ \A c : \A r \in Scheds : RunAt(c, r) /\ await[c] # "idle" => RunAt(c, r)'
  BY <1>1, <1>2, ThreadFacts DEF OnCpu, RunAt
<1>8. ASSUME NEW c \in Cos \ {co}  PROVE Aside(c)
  BY <1>1, <1>4, <1>5, <1>6, <1>7 DEF Aside, Alive
<1>9. PlacePart(co)'
  <2>1. /\ await[co] = "idle" /\ \A k \in AsyncKinds, y \in Threads : ~In(co, k, y)
        /\ \A s \in Scheds : ~OnCpu(co, s)
        /\ \A n \in Nums : ~Held(co, n) /\ \A s \in Scheds : <<co, n>> \notin readers[s]
    BY <1>1, NewNowhere
  <2>2. co_queue' = co_queue /\ await' = await /\ job' = job /\ readers' = readers
    BY DEF asyncVars
  <2>3. ASSUME NEW k \in AsyncKinds, NEW y \in Threads, In(co, k, y)'
        PROVE  k = "append" /\ y = x /\ HomeOf(k, y)' = p_turn /\ Alive(co)'
    <3>1. In(co, k, y) \/ (k = "append" /\ y = x)
      BY <1>1, <1>4, <1>6, <1>7, <2>2, <2>3 DEF In
    <3> QED  BY <1>4, <1>5, <2>1, <3>1 DEF HomeOf, Alive
  <2>4. PICK h : h = p_turn  OBVIOUS
  <2>5. Goes(co, "append", x, 0, h)
    BY <1>7, <2>1, <2>2, <2>3, <2>4 DEF Goes, Held, InCall
  <2> QED  BY <2>5, GoesKeeps
<1>10. SchedTypes'  BY <1>0, <1>1, <1>2, <1>3, <1>4, <1>5 DEF SchedTypes
<1>11. StepsInv'
  <2>1. await' = await /\ co # NoCo  BY ThreadFacts DEF asyncVars
  <2>2. \A y \in Threads : append'[y].co # NoCo <=> pc'[y] \in Appending
    BY <1>0, <1>2, <1>4, <2>1 DEF StepsInv
  <2>3. ASSUME NEW r \in Scheds
        PROVE  /\ pc'[r] \in {"resume", "yield"} => append'[r].to = r
               /\ pc'[r] \in Running => co_curr'[r] \in Cos
               /\ pc'[r] \in Submitting => await'[co_curr'[r]] = "idle"
    <3>1. CASE r = x  BY <1>0, <1>1, <1>2, <2>1, <3>1 DEF StepsInv
    <3>2. CASE r # x  BY <1>0, <1>1, <1>2, <1>4, <2>1, <3>2, ThreadFacts DEF StepsInv
    <3> QED  BY <3>1, <3>2
  <2> QED  BY <1>6, <2>2, <2>3 DEF StepsInv
<1>12. \A c \in Cos : life[c] # "none" => life'[c] # "none"  BY <1>5
<1> QED  BY <1>8, <1>9, <1>10, <1>11, <1>12, ShiftSound

\* The store to p_turn, and sched_sched up to the read of the last entry: the
\* coroutine stays in the hands of the thread.
LEMMA SubmitGoesSound ==
  ASSUME SoundInv, NEW x \in Threads, UNCHANGED asyncVars, SubmitAdd(x) \/ SubmitBegin(x)
  PROVE  SoundInv'
<1>0. SchedTypes /\ StepsInv  BY DEF SoundInv
<1>1. append[x].to \in Scheds /\ append[x].co \in Cos \cup {NoCo} /\ p_turn \in Scheds
  BY <1>0 DEF SchedTypes
<1>2. PICK step \in {"add", "submit"} :
        /\ pc[x] \in {"turn", "add"} /\ Goto(x, step)
        /\ UNCHANGED <<ready, tail, timers, co_curr, life>> /\ p_turn' \in Scheds
        /\ append' \in [Threads -> [co : Cos \cup {NoCo}, to : Scheds, prev : Cos \cup {NoCo}]]
        /\ \A y \in Threads : append'[y].co = append[y].co /\ append'[y].to = append[y].to
  <2>1. CASE SubmitAdd(x)
    <3>1. PICK turn \in Scheds : p_turn' = (turn % P) + 1  BY <1>1, <2>1 DEF SubmitAdd
    <3>2. turn \in Nat /\ P \in Nat /\ P > 0  BY ThreadFacts DEF Scheds
    <3>3. turn % P \in 0 .. P - 1  BY <3>2
    <3>4. p_turn' \in Scheds  BY <3>1, <3>2, <3>3 DEF Scheds
    <3> QED  BY <1>0, <2>1, <3>4 DEF SubmitAdd, SchedTypes, schedVars, coVars
  <2>2. CASE SubmitBegin(x)
    <3>1. /\ pc[x] = "add" /\ Goto(x, "submit")
          /\ UNCHANGED <<ready, tail, timers, co_curr, life, p_turn>>
          /\ append' = [append EXCEPT ![x] =
                          [co |-> append[x].co, to |-> append[x].to, prev |-> tail[append[x].to]]]
      BY <2>2 DEF SubmitBegin, Begins, coVars, procVars
    <3>2. tail[append[x].to] \in Cos \cup {NoCo}  BY <1>0, <1>1 DEF SchedTypes
    <3> QED  BY <1>0, <1>1, <3>1, <3>2 DEF SchedTypes
  <2> QED  BY <2>1, <2>2
<1>3. DOMAIN pc' = Threads /\ pc'[x] = step /\ \A y \in Threads \ {x} : pc'[y] = pc[y]
  BY <1>0, <1>2 DEF SchedTypes, Goto
<1>4. Distinct' /\ \A r \in Scheds : \A d : InReady(d, r)' <=> InReady(d, r)
  BY <1>0, <1>2 DEF StepsInv, Distinct, InReady
<1>5. \A c : \A r \in Scheds : (OnCpu(c, r)' <=> OnCpu(c, r)) /\ (RunAt(c, r) => RunAt(c, r)')
  BY <1>2, <1>3, ThreadFacts DEF OnCpu, RunAt
<1>6. ASSUME NEW c \in Cos  PROVE PlacePart(c)'
  <2>1. Aside(c)  BY <1>2, <1>4, <1>5 DEF Aside, Alive
  <2> QED  BY <2>1, AsideStays
<1>7. AsyncTypes' /\ \A c \in Cos : FuturePart(c)'  BY <1>2, SchedulerFutures
<1>8. SchedTypes'  BY <1>0, <1>2, <1>3 DEF SchedTypes
<1>9. StepsInv'
  <2>1. await' = await  BY DEF asyncVars
  <2>2. \A y \in Threads : append'[y].co # NoCo <=> pc'[y] \in Appending
    BY <1>0, <1>2, <1>3 DEF StepsInv
  <2>3. ASSUME NEW r \in Scheds
        PROVE  /\ pc'[r] \in {"resume", "yield"} => append'[r].to = r
               /\ pc'[r] \in Running => co_curr'[r] \in Cos
               /\ pc'[r] \in Submitting => await'[co_curr'[r]] = "idle"
    <3>1. CASE r = x  BY <1>0, <1>2, <1>3, <2>1, <3>1 DEF StepsInv
    <3>2. CASE r # x  BY <1>0, <1>2, <1>3, <2>1, <3>2, ThreadFacts DEF StepsInv
    <3> QED  BY <3>1, <3>2
  <2> QED  BY <1>4, <2>2, <2>3 DEF StepsInv
<1> QED  BY <1>6, <1>7, <1>8, <1>9 DEF SoundInv, CosInv

\* Every step of Scheduler keeps the invariant while there is no fault.
LEMMA SchedulerSound ==
  ASSUME SoundInv, Ok', \/ \E x \in Threads : SchedulerStep(x) \/ SchedulerMay(x)
                        \/ \E s \in Scheds, c \in Cos : TimerExpires(s, c)
  PROVE  SoundInv'
<1>1. ASSUME NEW x \in Threads, SchedulerStep(x)  PROVE SoundInv'
  <2>1. UNCHANGED asyncVars /\ (x \in Scheds /\ pc[x] = "run" => await[co_curr[x]] = "idle")
    BY <1>1 DEF SchedulerStep
  <2>2. CASE x \in Scheds /\ SchedStep(x)
    <3>1. CASE SchedStart(x) \/ LoopTest(x) \/ CheckCoNums(x) \/ PickNone(x) \/ TimersEnd(x)
               \/ sched_exit(x)
      BY <2>1, <2>2, <3>1, QuietSchedSound
    <3>2. CASE PickAndSchedule(x)  BY <2>1, <2>2, <3>2, PickSound
    <3>3. CASE YieldBegin(x)
      <4>1. pc[x] = "run"  BY <3>3 DEF YieldBegin, MaySuspend
      <4> QED  BY <2>1, <2>2, <3>3, <4>1, YieldBeginSound
    <3>4. CASE sched_delay(x)
      <4>1. pc[x] = "run"  BY <3>4 DEF sched_delay, MaySuspend
      <4> QED  BY <2>1, <2>2, <3>4, <4>1, DelaySound
    <3>5. CASE CoReturns(x)
      <4>1. pc[x] = "run"  BY <3>5 DEF CoReturns
      <4> QED  BY <2>1, <2>2, <3>5, <4>1, ReturnsSound
    <3>6. CASE CoDone(x)  BY <2>1, <2>2, <3>6, CoDoneSound
    <3>7. CASE YieldEnd(x) \/ ResumeEnd(x)  BY <2>1, <2>2, <3>7, AppendEndsSound
    <3> QED  BY <2>2, <3>1, <3>2, <3>3, <3>4, <3>5, <3>6, <3>7 DEF SchedStep, processors_suspend
  <2>3. CASE SubmitStep(x)
    BY <2>1, <2>3, SubmitGoesSound, AppendEndsSound DEF SubmitStep
  <2>4. CASE MainStep  BY <2>1, <2>4, MainSound
  <2> QED  BY <1>1, <2>2, <2>3, <2>4 DEF SchedulerStep
<1>2. ASSUME NEW x \in Threads, SchedulerMay(x)  PROVE SoundInv'
  <2>1. UNCHANGED asyncVars /\ (x \in Scheds /\ pc[x] = "run" => await[co_curr[x]] = "idle")
    BY <1>2 DEF SchedulerMay
  <2>2. CASE \E c \in Cos : SubmitTurn(x, c)  BY <2>1, <2>2, SubmitTurnSound
  <2>3. CASE x \in Scheds /\ SchedSpuriousWakeup(x)  BY <2>1, <2>3, QuietSchedSound
  <2>4. CASE MainSpuriousWakeup  BY <2>1, <2>4, MainSound
  <2> QED  BY <1>2, <2>2, <2>3, <2>4 DEF SchedulerMay
<1>3. ASSUME NEW s \in Scheds, NEW c \in Cos, TimerExpires(s, c)  PROVE SoundInv'
  BY <1>3, ResumeBeginSound DEF TimerExpires
<1> QED  BY <1>1, <1>2, <1>3

----------------------------------------------------------------------------
(* The calls of a running coroutine.                                       *)

\* A step that is not about c.
Apart(c) ==
  /\ Aside(c) /\ SameFutures(c)
  /\ \A s \in Scheds : c \in co_queue'[s] => c \in co_queue[s]

\* It keeps everything that is said of c.
LEMMA ApartKeeps ==
  ASSUME SoundInv, NEW c \in Cos, Apart(c), NoExec' => NoExec
  PROVE  PlacePart(c)' /\ FuturePart(c)'
<1>1. PlacePart(c) /\ FuturePart(c)  BY DEF SoundInv, CosInv
<1>2. Aside(c) /\ SameFutures(c) /\ \A s \in Scheds : c \in co_queue'[s] => c \in co_queue[s]
  BY DEF Apart
<1>3. await'[c] = await[c]  BY <1>2 DEF SameFutures
<1>4. ASSUME NEW k \in AsyncKinds, NEW x \in Threads, In(c, k, x)'
      PROVE  In(c, k, x) /\ HomeOf(k, x)' = HomeOf(k, x)
  <2>1. In(c, k, x)  BY <1>2, <1>3, <1>4 DEF In, Aside
  <2>2. k = "append" => append'[x].co = c  BY <1>4 DEF In
  <2> QED  BY <1>2, <2>1, <2>2 DEF HomeOf, Aside
<1>5. \A n \in Nums : Held(c, n)' => Held(c, n) /\ hand'[<<c, n>>].to = hand[<<c, n>>].to
  BY <1>2 DEF SameFutures, Held
<1>6. await'[c] \in InCall => \E s \in Scheds : RunAt(c, s)'
  BY <1>1, <1>2, <1>3 DEF PlacePart, AwaitInv, Aside, InCall
<1>7. \A s \in Scheds, n \in Nums : <<c, n>> \in readers'[s] => AtHome(c, s)
  BY <1>1, <1>2 DEF PlacePart, HomeInv, SameFutures
<1>8. Stays(c)  BY <1>2, <1>3, <1>4, <1>5, <1>6, <1>7 DEF Stays, Aside
<1> QED  BY <1>1, <1>2, <1>8, StaysKeeps, SameFuturesKeeps

\* A step that is about d only.
LEMMA ApartSound ==
  ASSUME SoundInv, NEW d \in Cos, PlacePart(d)', FuturePart(d)', \A c \in Cos \ {d} : Apart(c),
         NoExec' => NoExec, SchedTypes', AsyncTypes', StepsInv'
  PROVE  SoundInv'
<1>1. \A c \in Cos : PlacePart(c)' /\ FuturePart(c)'  BY ApartKeeps
<1> QED  BY <1>1 DEF SoundInv, CosInv

\* What Async leaves alone of Scheduler in most of its steps.
Still == UNCHANGED <<ready, tail, timers, co_curr, pc, append, p_turn, life>>

\* Such a step does not move c.
LEMMA StillAside ==
  ASSUME Still
  PROVE  /\ \A c : Aside(c)
         /\ \A c : \A s \in Scheds : /\ OnCpu(c, s)' <=> OnCpu(c, s)
                                     /\ RunAt(c, s)' <=> RunAt(c, s)
                                     /\ InReady(c, s)' <=> InReady(c, s)
         /\ \A c : Alive(c)' <=> Alive(c)
         /\ \A k, x : HomeOf(k, x)' = HomeOf(k, x)
         /\ SoundInv => SchedTypes'
         /\ SoundInv /\ (\A s \in Scheds : pc[s] \in Submitting => await'[co_curr[s]] = "idle")
              => StepsInv'
<1> USE DEF Still
<1>1. \A c : \A s \in Scheds : /\ OnCpu(c, s)' <=> OnCpu(c, s)
                               /\ RunAt(c, s)' <=> RunAt(c, s)
                               /\ InReady(c, s)' <=> InReady(c, s)
  BY DEF OnCpu, RunAt, InReady
<1>2. \A c : Alive(c)' <=> Alive(c)  BY DEF Alive
<1>3. \A c : Aside(c)  BY <1>1, <1>2 DEF Aside
<1>4. \A k, x : HomeOf(k, x)' = HomeOf(k, x)  BY DEF HomeOf
<1>5. SoundInv => SchedTypes'  BY DEF SoundInv, SchedTypes
<1>6. ASSUME SoundInv, \A s \in Scheds : pc[s] \in Submitting => await'[co_curr[s]] = "idle"
      PROVE  StepsInv'
  <2>1. Distinct'  BY <1>6 DEF SoundInv, StepsInv, Distinct
  <2> QED  BY <1>6, <2>1 DEF SoundInv, StepsInv
<1> QED  BY <1>1, <1>2, <1>3, <1>4, <1>5, <1>6

\* The coroutine that a scheduler runs inside a call.
LEMMA Runs ==
  ASSUME SoundInv, NEW s \in Scheds, pc[s] = "run"
  PROVE  /\ co_curr[s] \in Cos /\ s \in Threads
         /\ RunAt(co_curr[s], s) /\ OnCpu(co_curr[s], s)
         /\ \A r \in Scheds : OnCpu(co_curr[s], r) => r = s
         /\ PlacePart(co_curr[s]) /\ FuturePart(co_curr[s])
         /\ \A r \in Scheds : pc[r] \in Submitting => co_curr[r] # co_curr[s]
<1>1. co_curr[s] \in Cos /\ s \in Threads  BY ThreadFacts DEF SoundInv, StepsInv
<1>2. PlacePart(co_curr[s]) /\ FuturePart(co_curr[s])  BY <1>1 DEF SoundInv, CosInv
<1>3. RunAt(co_curr[s], s) /\ OnCpu(co_curr[s], s)  BY DEF RunAt, OnCpu
<1>4. \A r \in Scheds : OnCpu(co_curr[s], r) => r = s  BY <1>2, <1>3 DEF PlacePart, PlacesInv
<1>5. \A r \in Scheds : pc[r] \in Submitting => co_curr[r] # co_curr[s]  BY <1>4 DEF OnCpu
<1> QED  BY <1>1, <1>2, <1>3, <1>4, <1>5

\* future_await up to the test.
LEMMA AwaitTestSound ==
  ASSUME SoundInv, NEW s \in Scheds, AwaitTest(s)  PROVE SoundInv'
<1> PICK d : d = co_curr[s]  OBVIOUS
<1> PICK f : f = Awaited(d)  OBVIOUS
<1> PICK finished \in BOOLEAN : finished <=> fstatus[f] = "FINISHED"  OBVIOUS
<1>0. AsyncTypes /\ Nums = 1 .. Calls  BY DEF SoundInv, Nums
<1>1. /\ Still /\ UNCHANGED <<calls, job, co_queue, readers, hand>> /\ pc[s] = "run"
      /\ await[d] = "test"
      /\ await' = [await EXCEPT ![d] = IF finished THEN "idle" ELSE "suspend"]
      /\ fstatus' = [fstatus EXCEPT ![f] = IF finished THEN "freed" ELSE @]
      /\ unwaited' = IF finished THEN unwaited \cup {d} ELSE unwaited
  BY DEF AwaitTest, RunsAt, Still, vars, schedVars, coVars, procVars
<1>2. /\ d \in Cos /\ s \in Threads /\ RunAt(d, s) /\ PlacePart(d) /\ FuturePart(d)
      /\ \A r \in Scheds : pc[r] \in Submitting => co_curr[r] # d
  BY <1>1, Runs
<1>3. calls[d] \in Nums /\ f = <<d, calls[d]>> /\ f \in Futures
      /\ f = Awaited(d)' /\ fstatus[f] \in {"PENDING", "FINISHED"}
  BY <1>1, <1>2, FutureFacts DEF FuturePart, FutureInv, Awaited
<1>4. /\ await'[d] = (IF finished THEN "idle" ELSE "suspend")
      /\ \A c \in Cos \ {d} : await'[c] = await[c]
      /\ fstatus'[f] = (IF finished THEN "freed" ELSE fstatus[f])
      /\ \A g \in Futures \ {f} : fstatus'[g] = fstatus[g]
  BY <1>0, <1>1, <1>2, <1>3 DEF AsyncTypes
<1>5. AsyncTypes'  BY <1>0, <1>1, <1>3 DEF AsyncTypes
<1>6. SchedTypes' /\ StepsInv'
  <2>1. \A r \in Scheds : pc[r] \in Submitting => await'[co_curr[r]] = "idle"
    BY <1>2, <1>4 DEF SoundInv, StepsInv
  <2> QED  BY <1>1, <2>1, StillAside
<1>7. NoExec' <=> NoExec  BY <1>1 DEF NoExec
<1>8. ASSUME NEW c \in Cos \ {d}  PROVE Apart(c)
  <2>1. Aside(c)  BY <1>1, StillAside
  <2>2. \A n \in Nums : <<c, n>> \in Futures \ {f}  BY <1>3, FutureFacts
  <2>3. c \in unwaited' <=> c \in unwaited  BY <1>1
  <2> QED  BY <1>1, <1>4, <2>1, <2>2, <2>3 DEF Apart, SameFutures, Still
<1>9. PlacePart(d)'
  <2>1. \A k \in AsyncKinds, x \in Threads : In(d, k, x)' => In(d, k, x)
    BY <1>1, <1>4, StillAside DEF In, Still
  <2>2. Stays(d)
    BY <1>1, <1>2, <1>4, <2>1, StillAside DEF Stays, Held, PlacePart, HomeInv
  <2> QED  BY <1>2, <2>2, StaysKeeps
<1>10. FuturePart(d)'
  <2>1. ASSUME NEW n \in Nums  PROVE NumInv(d, n)'
    <3>1. NumInv(d, n) /\ <<d, n>> \in Futures  BY <1>2, FutureFacts DEF FuturePart, FutureInv
    <3>2. SeenListed(d, n)' <=> SeenListed(d, n)  BY <1>1 DEF SeenListed
    <3>3. \/ fstatus'[<<d, n>>] = fstatus[<<d, n>>]
          \/ fstatus[<<d, n>>] = "FINISHED" /\ fstatus'[<<d, n>>] = "freed"
      BY <1>4, <3>1
    <3> QED  BY <1>1, <3>1, <3>2, <3>3 DEF NumInv, Still
  <2>2. FutureInv(d)'  BY <1>1, <1>3, <1>4, <2>1 DEF FutureInv
  <2>3. OwnInv(d)'
    <3>1. CASE finished  BY <1>1, <3>1 DEF OwnInv
    <3>2. CASE ~finished
      <4>1. \A n \in Nums : Dead(d, n)' <=> Dead(d, n)  BY <1>1 DEF Dead
      <4> QED  BY <1>1, <1>2, <1>4, <3>2, <4>1 DEF FuturePart, OwnInv
    <3> QED  BY <3>1, <3>2
  <2>4. LoopInv(d)'
    <3> SUFFICES ASSUME NoExec  PROVE LoopInv(d)'  BY <1>7 DEF LoopInv
    <3>1. /\ fstatus[f] = "PENDING" /\ d \notin unwaited
          /\ \A n \in Nums, r \in Scheds : <<d, n>> \in readers[r] => fstatus[<<d, n>>] = "PENDING"
      BY <1>1, <1>2, <1>3 DEF FuturePart, LoopInv, InCall
    <3>2. ~finished  BY <3>1
    <3>3. \A g \in Futures : fstatus'[g] = fstatus[g]  BY <1>4, <3>2
    <3>4. \A n \in Nums : fstatus'[<<d, n>>] = fstatus[<<d, n>>]  BY <1>2, <3>3, FutureFacts
    <3> QED  BY <1>1, <1>3, <3>1, <3>2, <3>4 DEF LoopInv
  <2> QED  BY <2>2, <2>3, <2>4 DEF FuturePart
<1> QED  BY <1>2, <1>5, <1>6, <1>7, <1>8, <1>9, <1>10, ApartSound

\* sched_suspend_coroutine
LEMMA AwaitQueueSound ==
  ASSUME SoundInv, NEW s \in Scheds, AwaitQueue(s)  PROVE SoundInv'
<1> PICK d : d = co_curr[s]  OBVIOUS
<1>0. AsyncTypes  BY DEF SoundInv
<1>1. /\ Still /\ UNCHANGED <<calls, fstatus, job, readers, hand, unwaited>> /\ pc[s] = "run"
      /\ await[d] = "suspend" /\ await' = [await EXCEPT ![d] = "queued"]
      /\ co_queue' = [co_queue EXCEPT ![s] = @ \cup {d}]
  BY DEF AwaitQueue, RunsAt, Still, vars, schedVars, coVars, procVars
<1>2. /\ d \in Cos /\ s \in Threads /\ RunAt(d, s) /\ OnCpu(d, s) /\ PlacePart(d) /\ FuturePart(d)
      /\ \A r \in Scheds : OnCpu(d, r) => r = s
      /\ \A r \in Scheds : pc[r] \in Submitting => co_curr[r] # d
  BY <1>1, Runs
<1>3. await'[d] = "queued" /\ \A c \in Cos \ {d} : await'[c] = await[c]
  BY <1>0, <1>1, <1>2 DEF AsyncTypes
<1>4. /\ co_queue' \in [Scheds -> SUBSET Cos] /\ d \in co_queue'[s]
      /\ \A r \in Scheds : \A c : c \in co_queue[r] => c \in co_queue'[r]
      /\ \A r \in Scheds : \A c : c \in co_queue'[r] => c \in co_queue[r] \/ (c = d /\ r = s)
  BY <1>0, <1>1, <1>2 DEF AsyncTypes
<1>5. AsyncTypes'  BY <1>0, <1>1, <1>4 DEF AsyncTypes
<1>6. SchedTypes' /\ StepsInv'
  <2>1. \A r \in Scheds : pc[r] \in Submitting => await'[co_curr[r]] = "idle"
    BY <1>2, <1>3 DEF SoundInv, StepsInv
  <2> QED  BY <1>1, <2>1, StillAside
<1>7. NoExec' <=> NoExec  BY <1>1 DEF NoExec
<1>8. ASSUME NEW c \in Cos \ {d}  PROVE Apart(c)
  <2>1. Aside(c)  BY <1>1, StillAside
  <2> QED  BY <1>1, <1>3, <1>4, <2>1 DEF Apart, SameFutures, Still
<1>9. PlacePart(d)'
  <2>1. In(d, "running", s) /\ "running" \in AsyncKinds  BY <1>1, <1>2 DEF In, AsyncKinds
  <2>2. /\ \A k \in AsyncKinds, x \in Threads : In(d, k, x) => k = "running" /\ x = s
        /\ Alive(d) /\ \A n \in Nums : ~Held(d, n)
        /\ \A r \in Scheds, n \in Nums : <<d, n>> \in readers[r] => r = s
    BY <1>2, <2>1 DEF PlacePart, PlacesInv, HeldInv, HomeInv, AtHome
  <2>3. ASSUME NEW k \in AsyncKinds, NEW x \in Threads, In(d, k, x)'
        PROVE  k = "co_queue" /\ x = s /\ HomeOf(k, x)' = s /\ Alive(d)'
    <3>1. In(d, k, x) \/ (k = "co_queue" /\ x = s)
      BY <1>1, <1>3, <1>4, <2>3, StillAside DEF In, Still
    <3>2. k # "running"  BY <1>3, <2>3 DEF In
    <3> QED  BY <1>1, <2>2, <3>1, <3>2, StillAside DEF HomeOf
  <2>4. Goes(d, "co_queue", s, 0, s)
    BY <1>1, <1>2, <2>2, <2>3, StillAside DEF Goes, Held
  <2> QED  BY <1>2, <2>4, GoesKeeps
<1>10. FuturePart(d)'
  <2>1. Awaited(d)' = Awaited(d)  BY <1>1 DEF Awaited
  <2>2. ASSUME NEW n \in Nums  PROVE NumInv(d, n)' /\ (Dead(d, n)' <=> Dead(d, n))
    <3>1. NumInv(d, n)  BY <1>2 DEF FuturePart, FutureInv
    <3>2. SeenListed(d, n)' <=> SeenListed(d, n)  BY <1>1 DEF SeenListed
    <3> QED  BY <1>1, <3>1, <3>2 DEF NumInv, Still, Dead
  <2>3. FutureInv(d)'  BY <1>1, <1>2, <2>1, <2>2 DEF FuturePart, FutureInv
  <2>4. OwnInv(d)'  BY <1>1, <1>2, <1>3, <1>4, <2>2 DEF FuturePart, OwnInv
  <2>5. LoopInv(d)'  BY <1>1, <1>2, <1>7, <2>1 DEF FuturePart, LoopInv, InCall
  <2> QED  BY <2>3, <2>4, <2>5 DEF FuturePart
<1> QED  BY <1>2, <1>5, <1>6, <1>7, <1>8, <1>9, <1>10, ApartSound

\* schedule_yield_coroutine
LEMMA AwaitSwapSound ==
  ASSUME SoundInv, NEW s \in Scheds, AwaitSwap(s)  PROVE SoundInv'
<1> PICK d : d = co_curr[s]  OBVIOUS
<1>0. AsyncTypes /\ SchedTypes /\ StepsInv  BY DEF SoundInv
<1>1. /\ UNCHANGED <<ready, tail, timers, co_curr, append, p_turn, life>>
      /\ UNCHANGED <<calls, fstatus, job, co_queue, readers, hand, unwaited>> /\ pc[s] = "run"
      /\ Goto(s, "loop") /\ await[d] = "queued" /\ await' = [await EXCEPT ![d] = "waiting"]
  BY DEF AwaitSwap, RunsAt, schedVars, procVars
<1>2. /\ d \in Cos /\ s \in Threads /\ PlacePart(d) /\ FuturePart(d)
      /\ \A r \in Scheds : OnCpu(d, r) => r = s
      /\ \A r \in Scheds : pc[r] \in Submitting => co_curr[r] # d
  BY <1>1, Runs
<1>3. await'[d] = "waiting" /\ \A c \in Cos \ {d} : await'[c] = await[c]
  BY <1>0, <1>1, <1>2 DEF AsyncTypes
<1>4. /\ DOMAIN pc' = Threads /\ pc'[s] = "loop" /\ \A y \in Threads \ {s} : pc'[y] = pc[y]
  BY <1>0, <1>1, <1>2 DEF SchedTypes, Goto
<1>5. AsyncTypes'  BY <1>0, <1>1 DEF AsyncTypes
<1>6. SchedTypes'  BY <1>0, <1>1, <1>4 DEF SchedTypes
<1>7. Distinct' /\ \A c : \A r \in Scheds : InReady(c, r)' <=> InReady(c, r)
  BY <1>0, <1>1 DEF StepsInv, Distinct, InReady
<1>8. StepsInv'
  <2>1. \A y \in Threads : append'[y].co # NoCo <=> pc'[y] \in Appending
    BY <1>0, <1>1, <1>4 DEF StepsInv
  <2>2. ASSUME NEW r \in Scheds
        PROVE  /\ pc'[r] \in {"resume", "yield"} => append'[r].to = r
               /\ pc'[r] \in Running => co_curr'[r] \in Cos
               /\ pc'[r] \in Submitting => await'[co_curr'[r]] = "idle"
    <3>1. CASE r = s  BY <1>4, <3>1
    <3>2. CASE r # s
      <4>1. pc'[r] = pc[r]  BY <1>4, <3>2, ThreadFacts
      <4> QED  BY <1>0, <1>1, <1>2, <1>3, <4>1 DEF StepsInv
    <3> QED  BY <3>1, <3>2
  <2> QED  BY <1>7, <2>1, <2>2 DEF StepsInv
<1>9. NoExec' <=> NoExec  BY <1>1 DEF NoExec
<1>10. /\ \A c : \A r \in Scheds : OnCpu(c, r)' => OnCpu(c, r) /\ r # s
       /\ \A c : \A r \in Scheds : RunAt(c, r) /\ c # d => RunAt(c, r)'
       /\ \A c : Alive(c)' <=> Alive(c)
  BY <1>1, <1>4, ThreadFacts DEF OnCpu, RunAt, Alive
<1>11. ASSUME NEW c \in Cos \ {d}  PROVE Apart(c)
  BY <1>1, <1>3, <1>7, <1>10 DEF Apart, Aside, SameFutures
<1>12. PlacePart(d)'
  <2>1. \A k \in AsyncKinds, x \in Threads : In(d, k, x)' => In(d, k, x)
    BY <1>1, <1>2, <1>7, <1>10 DEF In
  <2>2. \A k \in AsyncKinds, x \in Threads : HomeOf(k, x)' = HomeOf(k, x)  BY <1>1 DEF HomeOf
  <2>3. Stays(d)
    BY <1>1, <1>2, <1>3, <1>10, <2>1, <2>2 DEF Stays, Held, InCall, PlacePart, HomeInv
  <2> QED  BY <1>2, <2>3, StaysKeeps
<1>13. FuturePart(d)'
  <2>1. Awaited(d)' = Awaited(d)  BY <1>1 DEF Awaited
  <2>2. ASSUME NEW n \in Nums
        PROVE  NumInv(d, n)' /\ (Dead(d, n)' <=> Dead(d, n)) /\ (Held(d, n)' <=> Held(d, n))
    <3>1. NumInv(d, n)  BY <1>2 DEF FuturePart, FutureInv
    <3>2. SeenListed(d, n)' <=> SeenListed(d, n)  BY <1>1 DEF SeenListed
    <3> QED  BY <1>1, <3>1, <3>2 DEF NumInv, Dead, Held
  <2>3. FutureInv(d)' /\ calls[d] \in Nums
    BY <1>1, <1>2, <2>1, <2>2 DEF FuturePart, FutureInv
  <2>4. OwnInv(d)'  BY <1>1, <1>2, <1>3, <2>1, <2>2, <2>3 DEF FuturePart, OwnInv
  <2>5. LoopInv(d)'  BY <1>1, <1>2, <1>3, <1>9 DEF FuturePart, LoopInv, InCall
  <2> QED  BY <2>3, <2>4, <2>5 DEF FuturePart
<1> QED  BY <1>2, <1>5, <1>6, <1>8, <1>9, <1>11, <1>12, <1>13, ApartSound

\* A coroutine that has been resumed inside future_await, and never went past a
\* future without waiting, finds its own future finished, and nobody will touch
\* it again.
LEMMA ResumedOwn ==
  ASSUME SoundInv, NEW s \in Scheds, pc[s] = "run", await[co_curr[s]] = "waiting",
         co_curr[s] \notin unwaited
  PROVE  /\ fstatus[Awaited(co_curr[s])] = "FINISHED"
         /\ calls[co_curr[s]] \in Nums /\ Dead(co_curr[s], calls[co_curr[s]])
<1> PICK d : d = co_curr[s]  OBVIOUS
<1>1. d \in Cos /\ s \in Threads /\ OnCpu(d, s) /\ PlacePart(d) /\ FuturePart(d)  BY Runs
<1>2. In(d, "running", s) /\ "running" \in AsyncKinds /\ "co_queue" \in AsyncKinds
  BY <1>1 DEF In, AsyncKinds
<1>3. \A r \in Scheds : d \notin co_queue[r]
  BY <1>1, <1>2, ThreadFacts DEF PlacePart, PlacesInv, In
<1>4. calls[d] \in Nums  BY <1>1 DEF FuturePart, FutureInv
<1>5. ~Held(d, calls[d])  BY <1>1, <1>2, <1>4 DEF PlacePart, HeldInv
<1> QED  BY <1>1, <1>3, <1>4, <1>5 DEF FuturePart, OwnInv

\* future_await after the wait.
LEMMA AwaitReturnsSound ==
  ASSUME SoundInv, NEW s \in Scheds, AwaitReturns(s)  PROVE SoundInv'
<1> PICK d : d = co_curr[s]  OBVIOUS
<1> PICK f : f = Awaited(d)  OBVIOUS
<1>0. AsyncTypes  BY DEF SoundInv
<1>1. /\ Still /\ UNCHANGED <<calls, job, co_queue, readers, hand, unwaited>> /\ pc[s] = "run"
      /\ await[d] = "waiting" /\ await' = [await EXCEPT ![d] = "idle"]
      /\ fstatus' = [fstatus EXCEPT ![f] = "freed"]
  BY DEF AwaitReturns, RunsAt, Still, vars, schedVars, coVars, procVars
<1>2. /\ d \in Cos /\ s \in Threads /\ PlacePart(d) /\ FuturePart(d)
      /\ \A r \in Scheds : pc[r] \in Submitting => co_curr[r] # d
  BY <1>1, Runs
<1>3. calls[d] \in Nums /\ f = <<d, calls[d]>> /\ f \in Futures
  BY <1>1, <1>2, FutureFacts DEF FuturePart, FutureInv, Awaited
<1>4. /\ await'[d] = "idle" /\ \A c \in Cos \ {d} : await'[c] = await[c]
      /\ fstatus'[f] = "freed" /\ \A g \in Futures \ {f} : fstatus'[g] = fstatus[g]
  BY <1>0, <1>1, <1>2, <1>3 DEF AsyncTypes
<1>5. AsyncTypes'  BY <1>0, <1>1 DEF AsyncTypes
<1>6. SchedTypes' /\ StepsInv'
  <2>1. \A r \in Scheds : pc[r] \in Submitting => await'[co_curr[r]] = "idle"
    BY <1>2, <1>4 DEF SoundInv, StepsInv
  <2> QED  BY <1>1, <2>1, StillAside
<1>7. NoExec' <=> NoExec  BY <1>1 DEF NoExec
<1>8. ASSUME NEW c \in Cos \ {d}  PROVE Apart(c)
  <2>1. Aside(c)  BY <1>1, StillAside
  <2>2. \A n \in Nums : <<c, n>> \in Futures \ {f}  BY <1>3, FutureFacts
  <2> QED  BY <1>1, <1>4, <2>1, <2>2 DEF Apart, SameFutures, Still
<1>9. PlacePart(d)'
  <2>1. \A k \in AsyncKinds, x \in Threads : In(d, k, x)' => In(d, k, x)
    BY <1>1, <1>4, StillAside DEF In, Still
  <2>2. Stays(d)
    BY <1>1, <1>2, <1>4, <2>1, StillAside DEF Stays, Held, PlacePart, HomeInv, InCall
  <2> QED  BY <1>2, <2>2, StaysKeeps
<1>10. d \notin unwaited => Dead(d, calls[d])  BY <1>1, ResumedOwn
<1>11. FuturePart(d)'
  <2>1. ASSUME NEW n \in Nums  PROVE NumInv(d, n)' /\ (Dead(d, n)' <=> Dead(d, n))
    <3>1. NumInv(d, n) /\ <<d, n>> \in Futures
      BY <1>2, FutureFacts DEF FuturePart, FutureInv
    <3>2. SeenListed(d, n)' <=> SeenListed(d, n)  BY <1>1 DEF SeenListed
    <3>3. CASE n # calls[d]
      <4>1. fstatus'[<<d, n>>] = fstatus[<<d, n>>]  BY <1>3, <1>4, <3>1, <3>3
      <4> QED  BY <1>1, <3>1, <3>2, <4>1 DEF NumInv, Dead, Still
    <3>4. CASE n = calls[d]
      <4>1. fstatus'[<<d, n>>] = "freed" /\ n <= calls[d] /\ ~(calls[d] < n)
        BY <1>3, <1>4, <3>4 DEF Nums
      <4> QED  BY <1>1, <3>1, <3>2, <4>1 DEF NumInv, Dead, Still
    <3> QED  BY <3>3, <3>4
  <2>2. FutureInv(d)'  BY <1>4, <2>1 DEF FutureInv
  <2>3. OwnInv(d)'
    <3>1. ASSUME d \notin unwaited, NEW n \in Nums, n < calls[d] \/ n = calls[d]  PROVE Dead(d, n)
      BY <1>2, <1>10, <3>1 DEF FuturePart, OwnInv
    <3> QED  BY <1>1, <1>4, <2>1, <3>1 DEF OwnInv
  <2>4. LoopInv(d)'
    <3> SUFFICES ASSUME NoExec  PROVE LoopInv(d)'  BY <1>7 DEF LoopInv
    <3>1. /\ d \notin unwaited
          /\ \A n \in Nums, r \in Scheds : <<d, n>> \in readers[r] => fstatus[<<d, n>>] = "PENDING"
      BY <1>2 DEF FuturePart, LoopInv
    <3>2. \A n \in Nums, r \in Scheds : <<d, n>> \in readers[r] => n # calls[d]
      BY <1>10, <3>1 DEF Dead
    <3>3. \A n \in Nums : n # calls[d] => fstatus'[<<d, n>>] = fstatus[<<d, n>>]
      BY <1>2, <1>3, <1>4, FutureFacts
    <3> QED  BY <1>1, <1>4, <3>1, <3>2, <3>3 DEF LoopInv, InCall
  <2> QED  BY <2>2, <2>3, <2>4 DEF FuturePart
<1> QED  BY <1>2, <1>5, <1>6, <1>7, <1>8, <1>9, <1>11, ApartSound

\* There is room for the next future of a coroutine: its earlier ones are
\* among those counted.
LEMMA RoomForFuture ==
  ASSUME SoundInv, NEW d \in Cos, Cardinality({g \in Futures : fstatus[g] # "none"}) < Calls
  PROVE  calls[d] + 1 \in Nums
<1> PICK made : made = {g \in Futures : fstatus[g] # "none"}  OBVIOUS
<1> PICK k \in 0 .. Calls : k = calls[d]  BY DEF SoundInv, AsyncTypes
<1> PICK name : name = [n \in 1 .. k |-> <<d, n>>]  OBVIOUS
<1>1. Calls \in Nat /\ k \in Nat /\ Nums = 1 .. Calls  BY AsyncAssumption DEF Nums
<1>2. IsFiniteSet(Futures)
  <2>1. IsFiniteSet(1 .. Calls) /\ IsFiniteSet(Cos)
    BY <1>1, FS_Interval, SchedulerAssumption
  <2> QED  BY <2>1, FS_Product DEF Futures
<1>3. IsFiniteSet(made) /\ Cardinality(made) \in Nat  BY <1>2, FS_Subset, FS_CardinalityType
<1>4. ASSUME NEW n \in 1 .. k  PROVE <<d, n>> \in made
  <2>1. n \in Nums /\ n <= k  BY <1>1
  <2>2. NumInv(d, n)  BY <2>1 DEF SoundInv, CosInv, FuturePart, FutureInv
  <2> QED  BY <2>1, <2>2, FutureFacts DEF NumInv
<1>5. name \in [1 .. k -> made]  BY <1>4
<1>6. name \in Injection(1 .. k, made)  BY <1>5 DEF Injection, IsInjective
<1>7. Cardinality(1 .. k) <= Cardinality(made)  BY <1>3, <1>6, FS_Injection
<1>8. Cardinality(1 .. k) = k  BY <1>1, FS_Interval
<1>9. k < Calls
  <2>1. Cardinality(made) < Calls  OBVIOUS
  <2> QED  BY <1>1, <1>3, <1>7, <1>8, <2>1
<1> QED  BY <1>1, <1>9

\* Which readers there are after a call: f may be added on s.
AddsReader(s, f, who) ==
  /\ readers' \in [Scheds -> SUBSET Futures]
  /\ \A r \in Scheds, g \in Futures :
       g \in readers'[r] => g \in readers[r] \/ (g = f /\ r = s /\ who \in {"read", "connect"})

\* A call of a coroutine that makes a future.
LEMMA CreateSound ==
  ASSUME SoundInv, NEW s \in Scheds, NEW who \in {"queued", "refused", "read", "connect"},
         processors_create_co_future(s, who), AddsReader(s, NewFuture(s), who)
  PROVE  SoundInv'
<1> PICK d : d = co_curr[s]  OBVIOUS
<1> PICK new : new = calls[d] + 1  OBVIOUS
<1> PICK f : f = <<d, new>>  OBVIOUS
<1>0. AsyncTypes /\ Calls \in Nat /\ Nums = 1 .. Calls  BY AsyncAssumption DEF SoundInv, Nums
<1>1. /\ Still /\ UNCHANGED <<co_queue, hand, unwaited>> /\ pc[s] = "run" /\ await[d] = "idle"
      /\ Cardinality({g \in Futures : fstatus[g] # "none"}) < Calls
      /\ calls' = [calls EXCEPT ![d] = @ + 1]
      /\ fstatus' = [fstatus EXCEPT ![f] = "PENDING"]
      /\ job' = [job EXCEPT ![f] = who]
      /\ await' = [await EXCEPT ![d] = "test"]
  BY DEF processors_create_co_future, NewFuture, RunsAt, JobGoes, Still, vars, schedVars, coVars,
         procVars
<1>2. /\ d \in Cos /\ s \in Threads /\ RunAt(d, s) /\ PlacePart(d) /\ FuturePart(d)
      /\ \A r \in Scheds : OnCpu(d, r) => r = s
      /\ \A r \in Scheds : pc[r] \in Submitting => co_curr[r] # d
  BY <1>1, Runs
<1>3. new \in Nums /\ f \in Futures /\ calls[d] \in Nat /\ calls[d] \in 0 .. Calls
  <2>1. new \in Nums  BY <1>1, <1>2, RoomForFuture
  <2>2. calls[d] \in 0 .. Calls  BY <1>0, <1>2 DEF AsyncTypes
  <2> QED  BY <1>2, <2>1, <2>2, FutureFacts
<1>4. /\ await'[d] = "test" /\ \A c \in Cos \ {d} : await'[c] = await[c]
      /\ calls'[d] = new /\ \A c \in Cos \ {d} : calls'[c] = calls[c]
      /\ fstatus'[f] = "PENDING" /\ \A g \in Futures \ {f} : fstatus'[g] = fstatus[g]
      /\ job'[f] = who /\ \A g \in Futures \ {f} : job'[g] = job[g]
  BY <1>0, <1>1, <1>2, <1>3 DEF AsyncTypes
<1>5. /\ readers' \in [Scheds -> SUBSET Futures]
      /\ \A r \in Scheds, g \in Futures :
           g \in readers'[r] => g \in readers[r] \/ (g = f /\ r = s /\ who \in {"read", "connect"})
  BY DEF AddsReader, NewFuture
<1>6. AsyncTypes'
  <2>1. calls' \in [Cos -> 0 .. Calls]
    <3>1. calls[d] + 1 \in 0 .. Calls  BY <1>0, <1>3
    <3> QED  BY <1>0, <1>1, <3>1 DEF AsyncTypes
  <2>2. who \in {"none", "refused", "read", "connect"} \cup ExecutorSteps  BY DEF ExecutorSteps
  <2>3. job' \in [Futures -> {"none", "refused", "read", "connect"} \cup ExecutorSteps]
    BY <1>0, <1>1, <2>2 DEF AsyncTypes
  <2> QED  BY <1>0, <1>1, <1>5, <2>1, <2>3 DEF AsyncTypes
<1>7. SchedTypes' /\ StepsInv'
  <2>1. \A r \in Scheds : pc[r] \in Submitting => await'[co_curr[r]] = "idle"
    BY <1>2, <1>4 DEF SoundInv, StepsInv
  <2> QED  BY <1>1, <2>1, StillAside
<1>8. NumInv(d, new) /\ calls[d] < new  BY <1>2, <1>3 DEF FuturePart, FutureInv
<1>9. job[f] = "none" /\ \A r \in Scheds : f \notin readers[r]  BY <1>8 DEF NumInv
<1>10. NoExec' => NoExec
  BY <1>4, <1>9 DEF NoExec, ExecutorSteps
<1>11. ASSUME NEW c \in Cos \ {d}  PROVE Apart(c)
  <2>1. Aside(c)  BY <1>1, StillAside
  <2>2. \A n \in Nums : <<c, n>> \in Futures \ {f}  BY FutureFacts
  <2> QED  BY <1>1, <1>4, <1>5, <2>1, <2>2 DEF Apart, SameFutures, Still
<1>12. PlacePart(d)'
  <2>1. \A k \in AsyncKinds, x \in Threads : In(d, k, x)' => In(d, k, x)
    BY <1>1, <1>4, StillAside DEF In, Still
  <2>2. \A n \in Nums : Held(d, n)' => Held(d, n)
    BY <1>2, <1>3, <1>4, FutureFacts DEF Held
  <2>3. AtHome(d, s)
    <3>1. In(d, "running", s) /\ "running" \in AsyncKinds
      BY <1>1, <1>2 DEF In, AsyncKinds, RunAt, OnCpu
    <3>2. \A k \in AsyncKinds, x \in Threads : In(d, k, x) => k = "running" /\ x = s
      BY <1>2, <3>1 DEF PlacePart, PlacesInv
    <3>3. \A n \in Nums : ~Held(d, n)  BY <1>2, <3>1 DEF PlacePart, HeldInv
    <3> QED  BY <1>2, <3>2, <3>3 DEF AtHome, HomeOf
  <2>4. \A r \in Scheds, n \in Nums : <<d, n>> \in readers'[r] => AtHome(d, r)
    BY <1>2, <1>5, <2>3, FutureFacts DEF PlacePart, HomeInv
  <2>5. Stays(d)
    BY <1>1, <1>2, <1>4, <2>1, <2>2, <2>4, StillAside DEF Stays
  <2> QED  BY <1>2, <2>5, StaysKeeps
<1>13. ASSUME NEW n \in Nums, n # new
       PROVE  /\ <<d, n>> \in Futures \ {f}
              /\ fstatus'[<<d, n>>] = fstatus[<<d, n>>] /\ job'[<<d, n>>] = job[<<d, n>>]
              /\ \A r \in Scheds : <<d, n>> \in readers'[r] => <<d, n>> \in readers[r]
  <2>1. <<d, n>> \in Futures \ {f}  BY <1>2, <1>13, FutureFacts
  <2> QED  BY <1>4, <1>5, <2>1
<1>14. FuturePart(d)'
  <2>1. ASSUME NEW n \in Nums  PROVE NumInv(d, n)'
    <3>1. CASE n = new
      <4>1. life'[d] # "none"
        <5>1. In(d, "running", s) /\ "running" \in AsyncKinds
          BY <1>1, <1>2 DEF In, AsyncKinds, RunAt, OnCpu
        <5>2. Alive(d)  BY <1>2, <5>1 DEF PlacePart, PlacesInv
        <5> QED  BY <1>1, <5>2 DEF Alive, Still
      <4>2. ~(calls'[d] < n)  BY <1>0, <1>4, <3>1
      <4>3. \A r \in Scheds : f \in readers'[r] => who \in {"read", "connect"}
        BY <1>3, <1>5, <1>9
      <4> QED  BY <1>4, <3>1, <4>1, <4>2, <4>3 DEF NumInv
    <3>2. CASE n # new
      <4>1. NumInv(d, n)  BY <1>2 DEF FuturePart, FutureInv
      <4>2. SeenListed(d, n)' <=> SeenListed(d, n)  BY <1>1 DEF SeenListed
      <4>3. (calls'[d] < n => calls[d] < n) /\ (n <= calls'[d] => n <= calls[d])
        BY <1>0, <1>3, <1>4, <3>2
      <4> QED  BY <1>1, <1>13, <3>2, <4>1, <4>2, <4>3 DEF NumInv, Still
    <3> QED  BY <3>1, <3>2
  <2>2. Awaited(d)' = f  BY <1>4 DEF Awaited
  <2>3. FutureInv(d)'  BY <1>3, <1>4, <2>1, <2>2 DEF FutureInv
  <2>4. OwnInv(d)'
    <3>1. ASSUME d \notin unwaited, NEW n \in Nums, n < new  PROVE Dead(d, n)'
      <4>1. n < calls[d] \/ n = calls[d]  BY <1>0, <1>3, <3>1
      <4>2. Dead(d, n) /\ n # new  BY <1>0, <1>1, <1>2, <3>1, <4>1 DEF FuturePart, OwnInv
      <4> QED  BY <1>13, <4>2 DEF Dead
    <3> QED  BY <1>1, <1>4, <3>1 DEF OwnInv
  <2>5. LoopInv(d)'
    <3> SUFFICES ASSUME NoExec  PROVE LoopInv(d)'  BY <1>10 DEF LoopInv
    <3>1. /\ d \notin unwaited
          /\ \A n \in Nums, r \in Scheds : <<d, n>> \in readers[r] => fstatus[<<d, n>>] = "PENDING"
      BY <1>2 DEF FuturePart, LoopInv
    <3> QED  BY <1>1, <1>4, <1>13, <2>2, <3>1 DEF LoopInv
  <2> QED  BY <2>3, <2>4, <2>5 DEF FuturePart
<1> QED  BY <1>2, <1>6, <1>7, <1>10, <1>11, <1>12, <1>14, ApartSound

\* The calls that make a future.
LEMMA CallsSound ==
  ASSUME SoundInv, NEW s \in Scheds,
         processors_getaddrinfo(s) \/ connection_read(s) \/ asyncio_open_connection(s)
  PROVE  SoundInv'
<1>0. readers \in [Scheds -> SUBSET Futures]  BY DEF SoundInv, AsyncTypes
<1>1. CASE processors_getaddrinfo(s)
  <2>1. PICK who \in {"queued", "refused"} : processors_create_co_future(s, who)
    BY <1>1 DEF processors_getaddrinfo
  <2>2. AddsReader(s, NewFuture(s), who)  BY <1>0, <1>1 DEF processors_getaddrinfo, AddsReader
  <2> QED  BY <2>1, <2>2, CreateSound
<1>2. ASSUME NEW who \in {"read", "connect"}, processors_create_co_future(s, who), NEW old,
             event_loop_add_reader(s, NewFuture(s), old)
      PROVE  SoundInv'
  <2>1. NewFuture(s) \in Futures
    <3>1. /\ pc[s] = "run" /\ Cardinality({g \in Futures : fstatus[g] # "none"}) < Calls
      BY <1>2 DEF processors_create_co_future, RunsAt
    <3>2. co_curr[s] \in Cos  BY <3>1, Runs
    <3>3. calls[co_curr[s]] + 1 \in Nums  BY <3>1, <3>2, RoomForFuture
    <3> QED  BY <3>2, <3>3, FutureFacts DEF NewFuture
  <2>2. AddsReader(s, NewFuture(s), who)  BY <1>0, <1>2, <2>1 DEF event_loop_add_reader, AddsReader
  <2> QED  BY <1>2, <2>2, CreateSound
<1>3. CASE connection_read(s)
  <2>1. processors_create_co_future(s, "read")  BY <1>3 DEF connection_read
  <2>2. PICK old : event_loop_add_reader(s, NewFuture(s), old)  BY <1>3 DEF connection_read
  <2> QED  BY <1>2, <2>1, <2>2
<1>4. CASE asyncio_open_connection(s)
  BY <1>2, <1>4 DEF asyncio_open_connection, async_tcp_connect
<1> QED  BY <1>1, <1>3, <1>4

----------------------------------------------------------------------------
(* The executor.                                                           *)

\* An executor thread goes on with the n-th future of d and moves no coroutine.
JobMoves(d, n, step) ==
  /\ Still /\ UNCHANGED <<await, calls, co_queue, readers, unwaited>>
  /\ job[<<d, n>>] \in {"queued", "set", "callback"} /\ step \in {"set", "callback", "unlink"}
  /\ job' = [job EXCEPT ![<<d, n>>] = step]
  /\ \/ fstatus' = fstatus /\ job[<<d, n>>] # "queued"
     \/ fstatus' = [fstatus EXCEPT ![<<d, n>>] = "FINISHED"] /\ fstatus[<<d, n>>] # "freed"
  /\ DOMAIN hand' = Futures
  /\ hand'[<<d, n>>].to \in Scheds /\ hand'[<<d, n>>].prev \in Cos \cup {NoCo}
  /\ \A g \in Futures \ {<<d, n>>} : hand'[g] = hand[g]
  /\ step = "unlink" => SeenListed(d, n)'

\* The invariant is kept.
LEMMA JobSound ==
  ASSUME SoundInv, NEW d \in Cos, NEW n \in Nums, NEW step, JobMoves(d, n, step)  PROVE SoundInv'
<1> PICK f : f = <<d, n>>  OBVIOUS
<1>0. AsyncTypes /\ PlacePart(d) /\ FuturePart(d) /\ f \in Futures
  BY FutureFacts DEF SoundInv, CosInv
<1>1. /\ Still /\ UNCHANGED <<await, calls, co_queue, readers, unwaited>>
      /\ job[f] \in {"queued", "set", "callback"} /\ step \in {"set", "callback", "unlink"}
      /\ \A g \in Futures \ {f} : hand'[g] = hand[g]
      /\ step = "unlink" => SeenListed(d, n)'
  BY DEF JobMoves
<1>2. job'[f] = step /\ \A g \in Futures \ {f} : job'[g] = job[g]
  BY <1>0 DEF JobMoves, AsyncTypes
<1>3. AsyncTypes'
  <2>1. step \in {"none", "refused", "read", "connect"} \cup ExecutorSteps
    BY <1>1 DEF ExecutorSteps
  <2>2. job' \in [Futures -> {"none", "refused", "read", "connect"} \cup ExecutorSteps]
    BY <1>0, <2>1 DEF AsyncTypes, JobMoves
  <2>3. fstatus' \in [Futures -> {"none", "PENDING", "FINISHED", "freed"}]
    BY <1>0 DEF AsyncTypes, JobMoves
  <2>4. /\ DOMAIN hand' = Futures
        /\ \A g \in Futures : hand'[g].to \in Scheds /\ hand'[g].prev \in Cos \cup {NoCo}
    BY <1>0 DEF AsyncTypes, JobMoves
  <2> QED  BY <1>0, <1>1, <2>2, <2>3, <2>4 DEF AsyncTypes
<1>4. ~NoExec'  BY <1>0, <1>1, <1>2 DEF NoExec, ExecutorSteps
<1>5. SchedTypes' /\ StepsInv'
  <2>1. \A r \in Scheds : pc[r] \in Submitting => await'[co_curr[r]] = "idle"
    BY <1>1 DEF SoundInv, StepsInv
  <2> QED  BY <1>1, <2>1, StillAside
<1>6. \A g \in Futures \ {f} : fstatus'[g] = fstatus[g]  BY <1>0 DEF JobMoves, AsyncTypes
<1>7. NumInv(d, n)  BY <1>0 DEF FuturePart, FutureInv
<1>8. /\ fstatus'[f] = fstatus[f] \/ fstatus'[f] = "FINISHED"
      /\ fstatus'[f] \in {"FINISHED", "freed"}
      /\ ~(calls[d] < n) /\ \A r \in Scheds : f \notin readers[r]
  BY <1>0, <1>1, <1>7 DEF JobMoves, AsyncTypes, NumInv
<1>9. ASSUME NEW c \in Cos \ {d}  PROVE Apart(c)
  <2>1. Aside(c)  BY <1>1, StillAside
  <2>2. \A m \in Nums : <<c, m>> \in Futures \ {f}  BY FutureFacts
  <2> QED  BY <1>1, <1>2, <1>6, <2>1, <2>2 DEF Apart, SameFutures, Still
<1>10. PlacePart(d)'
  <2>1. \A k \in AsyncKinds, x \in Threads : In(d, k, x)' => In(d, k, x)
    BY <1>1, StillAside DEF In, Still
  <2>2. ASSUME NEW m \in Nums, Held(d, m)'
        PROVE  Held(d, m) /\ hand'[<<d, m>>].to = hand[<<d, m>>].to
    <3>1. <<d, m>> \in Futures \ {f}  BY <1>1, <1>2, <2>2, FutureFacts DEF Held
    <3> QED  BY <1>1, <1>2, <2>2, <3>1 DEF Held
  <2>3. Stays(d)
    BY <1>0, <1>1, <2>1, <2>2, StillAside DEF Stays, PlacePart, AwaitInv, HomeInv
  <2> QED  BY <1>0, <2>3, StaysKeeps
<1>11. ASSUME NEW m \in Nums, m # n
       PROVE  /\ fstatus'[<<d, m>>] = fstatus[<<d, m>>] /\ job'[<<d, m>>] = job[<<d, m>>]
              /\ hand'[<<d, m>>] = hand[<<d, m>>]
  <2>1. <<d, m>> \in Futures \ {f}  BY <1>11, FutureFacts
  <2> QED  BY <1>1, <1>2, <1>6, <2>1
<1>12. FuturePart(d)'
  <2>1. ASSUME NEW m \in Nums  PROVE NumInv(d, m)'
    <3>1. CASE m = n
      BY <1>1, <1>2, <1>7, <1>8, <3>1 DEF NumInv, Still
    <3>2. CASE m # n
      <4>1. NumInv(d, m)  BY <1>0 DEF FuturePart, FutureInv
      <4>2. SeenListed(d, m)' <=> SeenListed(d, m)  BY <1>11, <3>2 DEF SeenListed
      <4> QED  BY <1>1, <1>11, <3>2, <4>1, <4>2 DEF NumInv, Still
    <3> QED  BY <3>1, <3>2
  <2>2. /\ Awaited(d)' = Awaited(d) /\ Awaited(d) = <<d, calls[d]>>
        /\ await[d] # "idle" => calls[d] \in Nums
    BY <1>0, <1>1 DEF Awaited, FuturePart, FutureInv
  <2>3. calls[d] \in Nums =>
          fstatus'[Awaited(d)] = fstatus[Awaited(d)] \/ fstatus'[Awaited(d)] = "FINISHED"
    BY <1>8, <1>11, <2>2
  <2>4. FutureInv(d)'  BY <1>0, <1>1, <2>1, <2>2, <2>3 DEF FuturePart, FutureInv
  <2>5. \A m \in Nums : (Dead(d, m) => Dead(d, m)') /\ (Held(d, m) => Held(d, m)')
    BY <1>1, <1>11 DEF Dead, Held
  <2>6. OwnInv(d)'  BY <1>0, <1>1, <2>2, <2>3, <2>5 DEF FuturePart, OwnInv
  <2>7. LoopInv(d)'  BY <1>4 DEF LoopInv
  <2> QED  BY <2>4, <2>6, <2>7 DEF FuturePart
<1> QED  BY <1>3, <1>4, <1>5, <1>9, <1>10, <1>12, ApartSound

\* future_set_result, and sched_co_resume up to what it reads of the lists.
LEMMA FinishSound ==
  ASSUME SoundInv, Ok', NEW f \in Futures, future_set_result(f) \/ ReadCallback(f) \/ ResumeReads(f)
  PROVE  SoundInv'
<1> PICK d \in Cos, n \in Nums : f = <<d, n>> /\ CoOf(f) = d  BY FutureFacts
<1>0. AsyncTypes  BY DEF SoundInv
<1>1. CASE future_set_result(f)
  <2>1. fstatus[f] # "freed"  BY <1>1 DEF future_set_result, Ok
  <2>2. JobMoves(d, n, "set")
    BY <1>0, <1>1, <2>1 DEF future_set_result, Finished, JobGoes, JobMoves, Still, schedVars, coVars,
                            procVars, AsyncTypes
  <2> QED  BY <2>2, JobSound
<1>2. CASE ReadCallback(f)
  <2>1. JobMoves(d, n, "callback")
    BY <1>0, <1>2 DEF ReadCallback, JobGoes, JobMoves, Still, schedVars, coVars, procVars, AsyncTypes
  <2> QED  BY <2>1, JobSound
<1>3. CASE ResumeReads(f)
  <2>1. ListDelFault(d) = "none" /\ fault' = "none"  BY <1>3 DEF ResumeReads, Ok
  <2>2. \A s \in Scheds : d \notin timers[s]  BY <2>1 DEF ListDelFault
  <2>3. PICK s \in Scheds :
          /\ s \in ListedOn(d)
          /\ hand' = [hand EXCEPT ![f] = [to |-> s, seen |-> ListOf(s, d), prev |-> NoCo]]
    BY <1>3, <2>1 DEF ResumeReads
  <2>4. hand'[f].to = s /\ hand'[f].seen = ListOf(s, d) /\ hand'[f].prev = NoCo
    BY <1>0, <2>3 DEF AsyncTypes
  <2>5. SeenListed(d, n)'
    <3>1. CASE OnReady(s, d)
      <4>1. hand'[f].seen[1] = "ready" /\ hand'[f].seen[2] = ready[s]  BY <2>4, <3>1 DEF ListOf
      <4> QED  BY <3>1, <4>1 DEF OnReady, SeenListed
    <3>2. CASE ~OnReady(s, d)
      <4>1. hand'[f].seen[1] = "co_queue" /\ hand'[f].seen[2] = co_queue[s]
        BY <2>4, <3>2 DEF ListOf
      <4>2. d \in co_queue[s]  BY <2>2, <2>3, <3>2 DEF ListedOn, OnReady
      <4> QED  BY <4>1, <4>2 DEF SeenListed
    <3> QED  BY <3>1, <3>2
  <2>6. JobMoves(d, n, "unlink")
    BY <1>0, <1>3, <2>3, <2>4, <2>5 DEF ResumeReads, JobGoes, JobMoves, Still, schedVars, coVars,
                                        procVars, AsyncTypes
  <2> QED  BY <2>6, JobSound
<1> QED  BY <1>1, <1>2, <1>3

\* What list_del makes of a queue: c is gone, the rest stays in order.
LEMMA UnlinkedEffect ==
  ASSUME NEW queue \in Seq(Cos), NoneTwice(queue), NEW c \in Cos
  PROVE  /\ Unlinked(queue, c) \in Seq(Cos) /\ NoneTwice(Unlinked(queue, c))
         /\ \A i \in DOMAIN Unlinked(queue, c) :
              /\ Unlinked(queue, c)[i] # c
              /\ \E j \in DOMAIN queue : Unlinked(queue, c)[i] = queue[j]
<1>1. CASE ~\E i \in DOMAIN queue : queue[i] = c
  <2>1. Unlinked(queue, c) = queue  BY <1>1 DEF Unlinked
  <2> QED  BY <1>1, <2>1
<1>2. CASE \E i \in DOMAIN queue : queue[i] = c
  <2> DEFINE at == CHOOSE i \in DOMAIN queue : queue[i] = c
  <2>1. PICK k, len : k = at /\ len = Len(queue)  OBVIOUS
  <2>2. k \in 1 .. len /\ queue[k] = c /\ len \in Nat /\ DOMAIN queue = 1 .. len
    BY <1>2, <2>1
  <2>3. PICK a, b : a = SubSeq(queue, 1, k - 1) /\ b = SubSeq(queue, k + 1, len)  OBVIOUS
  <2>4. Unlinked(queue, c) = a \o b  BY <1>2, <2>1, <2>3 DEF Unlinked
  <2> HIDE DEF at
  <2>5. /\ a \in Seq(Cos) /\ Len(a) = k - 1 /\ \A i \in 1 .. k - 1 : a[i] = queue[i]
    <3>1. \A i \in 1 .. k - 1 : queue[i] \in Cos  BY <2>2
    <3>2. /\ a \in Seq(Cos) /\ Len(a) = IF 1 <= k - 1 THEN (k - 1) - 1 + 1 ELSE 0
          /\ \A i \in 1 .. (k - 1) - 1 + 1 : a[i] = queue[1 + i - 1]
      BY <2>2, <2>3, <3>1, SubSeqProperties
    <3> QED  BY <2>2, <3>2
  <2>6. /\ b \in Seq(Cos) /\ Len(b) = len - k /\ \A i \in 1 .. len - k : b[i] = queue[k + i]
    <3>1. \A i \in k + 1 .. len : queue[i] \in Cos  BY <2>2
    <3>2. /\ b \in Seq(Cos) /\ Len(b) = IF k + 1 <= len THEN len - (k + 1) + 1 ELSE 0
          /\ \A i \in 1 .. len - (k + 1) + 1 : b[i] = queue[k + 1 + i - 1]
      BY <2>2, <2>3, <3>1, SubSeqProperties
    <3>3. Len(b) = len - k  BY <2>2, <3>2
    <3>4. ASSUME NEW i \in 1 .. len - k  PROVE b[i] = queue[k + i]
      <4>1. i \in 1 .. len - (k + 1) + 1 /\ k + 1 + i - 1 = k + i  BY <2>2
      <4> QED  BY <3>2, <4>1
    <3> QED  BY <3>2, <3>3, <3>4
  <2>7. PICK new : new = a \o b  OBVIOUS
  <2>8. /\ new \in Seq(Cos) /\ Len(new) = len - 1 /\ DOMAIN new = 1 .. len - 1
        /\ \A i \in 1 .. len - 1 : new[i] = IF i <= k - 1 THEN a[i] ELSE b[i - (k - 1)]
    <3>1. /\ new \in Seq(Cos) /\ Len(new) = Len(a) + Len(b)
          /\ \A i \in 1 .. Len(a) + Len(b) : new[i] = IF i <= Len(a) THEN a[i] ELSE b[i - Len(a)]
      BY <2>5, <2>6, <2>7, ConcatProperties
    <3>2. Len(a) + Len(b) = len - 1 /\ Len(a) = k - 1  BY <2>2, <2>5, <2>6
    <3> QED  BY <3>1, <3>2
  <2>9. ASSUME NEW i \in 1 .. len - 1
        PROVE  new[i] = queue[IF i < k THEN i ELSE i + 1]
    <3>1. CASE i < k
      <4>1. i <= k - 1 /\ i \in 1 .. k - 1  BY <2>2, <3>1
      <4> QED  BY <2>5, <2>8, <3>1, <4>1
    <3>2. CASE ~(i < k)
      <4>1. PICK j : j = i - (k - 1)  OBVIOUS
      <4>2. j \in 1 .. len - k /\ k + j = i + 1 /\ ~(i <= k - 1)  BY <2>2, <3>2, <4>1
      <4>3. new[i] = b[j] /\ b[j] = queue[k + j]  BY <2>6, <2>8, <4>1, <4>2
      <4> QED  BY <3>2, <4>2, <4>3
    <3> QED  BY <3>1, <3>2
  <2>10. ASSUME NEW i \in 1 .. len - 1
         PROVE  (IF i < k THEN i ELSE i + 1) \in DOMAIN queue /\ (IF i < k THEN i ELSE i + 1) # k
    BY <2>2
  <2>11. ASSUME NEW i \in DOMAIN new
         PROVE  new[i] # c /\ \E j \in DOMAIN queue : new[i] = queue[j]
    <3>1. PICK j \in DOMAIN queue : j # k /\ new[i] = queue[j]  BY <2>8, <2>9, <2>10
    <3>2. queue[j] # queue[k] /\ k \in DOMAIN queue  BY <2>2, <3>1 DEF NoneTwice
    <3> QED  BY <2>2, <3>1, <3>2
  <2>12. NoneTwice(new)
    <3> SUFFICES ASSUME NEW i \in 1 .. len - 1, NEW j \in 1 .. len - 1, new[i] = new[j]
                 PROVE  i = j
      BY <2>8 DEF NoneTwice
    <3>1. (IF i < k THEN i ELSE i + 1) = (IF j < k THEN j ELSE j + 1)
      BY <2>9, <2>10 DEF NoneTwice
    <3> QED  BY <2>2, <3>1
  <2> QED  BY <2>4, <2>7, <2>8, <2>11, <2>12
<1> QED  BY <1>1, <1>2

\* list_del of c on scheduler s.
LEMMA DelQueue ==
  ASSUME SoundInv, NEW s \in Scheds, NEW c \in Cos, ListDel(s, c)
  PROVE  /\ ready' \in [Scheds -> Seq(Cos)] /\ tail' \in [Scheds -> Cos \cup {NoCo}] /\ Distinct'
         /\ co_queue' \in [Scheds -> SUBSET Cos]
         /\ ~InReady(c, s)' /\ c \notin co_queue'[s]
         /\ \A d : \A r \in Scheds : /\ InReady(d, r)' => InReady(d, r)
                                     /\ d \in co_queue'[r] => d \in co_queue[r]
                                     /\ d \in co_queue[r] /\ d # c => d \in co_queue'[r]
<1> PICK new : new = Unlinked(ready[s], c)  OBVIOUS
<1>1. /\ ready \in [Scheds -> Seq(Cos)] /\ tail \in [Scheds -> Cos \cup {NoCo}]
      /\ co_queue \in [Scheds -> SUBSET Cos] /\ \A r \in Scheds : NoneTwice(ready[r])
  BY DEF SoundInv, SchedTypes, AsyncTypes, StepsInv, Distinct
<1>2. /\ new \in Seq(Cos) /\ NoneTwice(new)
      /\ \A i \in DOMAIN new : new[i] # c /\ \E j \in DOMAIN ready[s] : new[i] = ready[s][j]
  <2>1. ready[s] \in Seq(Cos) /\ NoneTwice(ready[s])  BY <1>1
  <2> QED  BY <2>1, UnlinkedEffect
<1>3. /\ ready' = [ready EXCEPT ![s] = new] /\ co_queue' = [co_queue EXCEPT ![s] = @ \ {c}]
      /\ tail' = [tail EXCEPT ![s] =
                    IF ready[s] = <<>> \/ ready[s][Len(ready[s])] # c THEN @
                    ELSE IF ready'[s] = <<>> THEN NoCo ELSE ready'[s][Len(ready'[s])]]
  BY DEF ListDel
<1>4. ready'[s] = new /\ \A r \in Scheds \ {s} : ready'[r] = ready[r]  BY <1>1, <1>3
<1>5. ready' \in [Scheds -> Seq(Cos)]  BY <1>1, <1>2, <1>3
<1>6. tail' \in [Scheds -> Cos \cup {NoCo}]
  <2>1. new # <<>> => new[Len(new)] \in Cos
    <3>1. new # <<>> => Len(new) \in 1 .. Len(new)  BY <1>2
    <3> QED  BY <1>2, <3>1
  <2> QED  BY <1>1, <1>3, <1>4, <2>1
<1>7. Distinct'  BY <1>1, <1>2, <1>4 DEF Distinct
<1>8. ~InReady(c, s)'  BY <1>2, <1>4 DEF InReady
<1>9. ASSUME NEW d, NEW r \in Scheds, InReady(d, r)'  PROVE InReady(d, r)
  <2>1. CASE r = s  BY <1>2, <1>4, <1>9, <2>1 DEF InReady
  <2>2. CASE r # s
    <3>1. ready'[r] = ready[r]  BY <1>4, <2>2
    <3> QED  BY <1>9, <3>1 DEF InReady
  <2> QED  BY <2>1, <2>2
<1>10. /\ co_queue' \in [Scheds -> SUBSET Cos] /\ c \notin co_queue'[s]
       /\ \A d : \A r \in Scheds : /\ d \in co_queue'[r] => d \in co_queue[r]
                                   /\ d \in co_queue[r] /\ d # c => d \in co_queue'[r]
  BY <1>1, <1>3
<1> QED  BY <1>5, <1>6, <1>7, <1>8, <1>9, <1>10

\* A coroutine on a list of scheduler s is nowhere else, and belongs to s.
LEMMA Listed ==
  ASSUME SoundInv, NEW c \in Cos, NEW s \in Scheds, NEW k0 \in {"ready", "co_queue"}, In(c, k0, s)
  PROVE  /\ Alive(c) /\ \A n \in Nums : ~Held(c, n)
         /\ \A k \in AsyncKinds, x \in Threads : In(c, k, x) => k = k0 /\ x = s
         /\ \A r \in Scheds : OnCpu(c, r) => r = s /\ await[c] = "queued"
         /\ \A r \in Scheds, n \in Nums : <<c, n>> \in readers[r] => r = s
<1>1. PlacePart(c) /\ k0 \in AsyncKinds /\ "running" \in AsyncKinds /\ s \in Threads
  BY ThreadFacts DEF SoundInv, CosInv, AsyncKinds
<1>2. /\ Alive(c) /\ \A n \in Nums : ~Held(c, n)
      /\ \A k \in AsyncKinds, x \in Threads : In(c, k, x) => k = k0 /\ x = s
  BY <1>1 DEF PlacePart, PlacesInv, HeldInv
<1>3. HomeOf(k0, s) = s  BY DEF HomeOf
<1>4. ASSUME NEW r \in Scheds, OnCpu(c, r)  PROVE r = s /\ await[c] = "queued"
  <2>1. CASE await[c] # "queued"
    <3>1. In(c, "running", r) /\ r \in Threads  BY <1>4, <2>1, ThreadFacts DEF In
    <3> QED  BY <1>1, <1>2, <3>1
  <2>2. CASE await[c] = "queued"
    <3>1. AtHome(c, r)  BY <1>1, <1>4, <2>2 DEF PlacePart, AwaitInv
    <3> QED  BY <1>1, <1>3, <2>2, <3>1 DEF AtHome
  <2> QED  BY <2>1, <2>2
<1>5. \A r \in Scheds, n \in Nums : <<c, n>> \in readers[r] => r = s
  BY <1>1, <1>3 DEF PlacePart, HomeInv, AtHome
<1> QED  BY <1>2, <1>4, <1>5

\* A future on which a thread of the executor works is the last one of a
\* coroutine that has waited for each.
LEMMA WorkOnLast ==
  ASSUME SoundInv, NEW d \in Cos, NEW n \in Nums, job[<<d, n>>] \in {"unlink", "link"}
  PROVE  /\ fstatus[<<d, n>>] \in {"FINISHED", "freed"} /\ NumInv(d, n)
         /\ \A s \in Scheds : <<d, n>> \notin readers[s]
         /\ ~(calls[d] < n)
         /\ d \notin unwaited /\ await[d] # "idle" =>
              n = calls[d] /\ fstatus[<<d, n>>] = "FINISHED" /\ Awaited(d) = <<d, n>>
<1>1. FuturePart(d) /\ calls[d] \in 0 .. Calls /\ Nums = 1 .. Calls /\ Calls \in Nat
  BY AsyncAssumption DEF SoundInv, CosInv, AsyncTypes, Nums
<1>2. NumInv(d, n)  BY <1>1 DEF FuturePart, FutureInv
<1>3. /\ fstatus[<<d, n>>] \in {"FINISHED", "freed"} /\ ~(calls[d] < n)
      /\ \A s \in Scheds : <<d, n>> \notin readers[s]
  BY <1>2 DEF NumInv
<1>4. ASSUME d \notin unwaited, await[d] # "idle"
      PROVE  n = calls[d] /\ fstatus[<<d, n>>] = "FINISHED" /\ Awaited(d) = <<d, n>>
  <2>1. ~Dead(d, n)  BY DEF Dead
  <2>2. ~(n < calls[d])  BY <1>1, <1>4, <2>1 DEF FuturePart, OwnInv
  <2>3. n = calls[d]  BY <1>1, <1>3, <2>2
  <2>4. Awaited(d) = <<d, n>>  BY <2>3 DEF Awaited
  <2> QED  BY <1>1, <1>3, <1>4, <2>3, <2>4 DEF FuturePart, FutureInv
<1> QED  BY <1>2, <1>3, <1>4

\* sched_co_resume on an executor thread takes the coroutine off its list.
LEMMA UnlinksSound ==
  ASSUME SoundInv, Ok', NEW f \in Futures, ResumeUnlinks(f)  PROVE SoundInv'
<1> PICK d \in Cos, n \in Nums : f = <<d, n>> /\ CoOf(f) = d  BY FutureFacts
<1> PICK s : s = hand[f].to  OBVIOUS
<1>0. SchedTypes /\ AsyncTypes /\ StepsInv /\ PlacePart(d) /\ FuturePart(d) /\ s \in Scheds
  BY DEF SoundInv, CosInv, AsyncTypes
<1>1. /\ UNCHANGED <<timers, co_curr, pc, append, p_turn, life>>
      /\ UNCHANGED <<await, calls, fstatus, readers, unwaited>>
      /\ job[f] = "unlink" /\ job' = [job EXCEPT ![f] = "link"] /\ ListDel(s, d)
      /\ hand[f].seen = ListOf(s, d)
      /\ hand' = [hand EXCEPT ![f] = [to |-> s, seen |-> <<>>, prev |-> tail'[s]]]
  BY DEF ResumeUnlinks, JobGoes, procVars, Ok
<1>2. /\ ready' \in [Scheds -> Seq(Cos)] /\ tail' \in [Scheds -> Cos \cup {NoCo}] /\ Distinct'
      /\ co_queue' \in [Scheds -> SUBSET Cos]
      /\ ~InReady(d, s)' /\ d \notin co_queue'[s]
      /\ \A c : \A r \in Scheds : /\ InReady(c, r)' => InReady(c, r)
                                  /\ c \in co_queue'[r] => c \in co_queue[r]
                                  /\ c \in co_queue[r] /\ c # d => c \in co_queue'[r]
  BY <1>0, <1>1, DelQueue
<1>3. /\ fstatus[f] \in {"FINISHED", "freed"} /\ NumInv(d, n)
      /\ \A r \in Scheds : f \notin readers[r]
      /\ ~(calls[d] < n)
      /\ d \notin unwaited /\ await[d] # "idle" =>
           n = calls[d] /\ fstatus[f] = "FINISHED" /\ Awaited(d) = f
  BY <1>1, WorkOnLast
<1>4. PICK k0 \in {"ready", "co_queue"} : In(d, k0, s)
  <2>1. SeenListed(d, n)  BY <1>1, <1>3 DEF NumInv
  <2>2. CASE OnReady(s, d)  BY <1>0, <2>2 DEF OnReady, In, InReady
  <2>3. CASE ~OnReady(s, d)
    <3>1. hand[f].seen[1] = "co_queue" /\ hand[f].seen[2] = co_queue[s]  BY <1>1, <2>3 DEF ListOf
    <3> QED  BY <1>0, <2>1, <3>1 DEF SeenListed, In
  <2> QED  BY <2>2, <2>3
<1>5. /\ Alive(d) /\ \A m \in Nums : ~Held(d, m)
      /\ \A k \in AsyncKinds, x \in Threads : In(d, k, x) => k = k0 /\ x = s
      /\ \A r \in Scheds : OnCpu(d, r) => r = s /\ await[d] = "queued"
      /\ \A r \in Scheds, m \in Nums : <<d, m>> \in readers[r] => r = s
  BY <1>0, <1>4, Listed
<1>6. job'[f] = "link" /\ \A g \in Futures \ {f} : job'[g] = job[g]  BY <1>0, <1>1 DEF AsyncTypes
<1>7. /\ DOMAIN hand' = Futures /\ hand'[f].to = s /\ hand'[f].prev \in Cos \cup {NoCo}
      /\ \A g \in Futures \ {f} : hand'[g] = hand[g]
  BY <1>0, <1>1, <1>2 DEF AsyncTypes
<1>8. AsyncTypes'
  <2>1. job' \in [Futures -> {"none", "refused", "read", "connect"} \cup ExecutorSteps]
    BY <1>0, <1>1 DEF AsyncTypes, ExecutorSteps
  <2>2. \A g \in Futures : hand'[g].to \in Scheds /\ hand'[g].prev \in Cos \cup {NoCo}
    BY <1>0, <1>7 DEF AsyncTypes
  <2> QED  BY <1>0, <1>1, <1>2, <1>7, <2>1, <2>2 DEF AsyncTypes
<1>9. SchedTypes'  BY <1>0, <1>1, <1>2 DEF SchedTypes
<1>10. StepsInv'
  <2>1. Distinct'  BY <1>2
  <2> QED  BY <1>0, <1>1, <2>1 DEF StepsInv
<1>11. ~NoExec'  BY <1>6 DEF NoExec, ExecutorSteps
<1>12. /\ \A c : \A r \in Scheds : (OnCpu(c, r)' <=> OnCpu(c, r)) /\ (RunAt(c, r)' <=> RunAt(c, r))
       /\ \A c : Alive(c)' <=> Alive(c)
  BY <1>1 DEF OnCpu, RunAt, Alive
<1>13. ASSUME NEW c \in Cos \ {d}  PROVE Apart(c)
  <2>1. Aside(c)  BY <1>1, <1>2, <1>12 DEF Aside
  <2>2. \A m \in Nums : <<c, m>> \in Futures \ {f}  BY FutureFacts
  <2> QED  BY <1>1, <1>2, <1>6, <1>7, <2>1, <2>2 DEF Apart, SameFutures
<1>14. ASSUME NEW m \in Nums, m # n
       PROVE  job'[<<d, m>>] = job[<<d, m>>] /\ hand'[<<d, m>>] = hand[<<d, m>>]
  <2>1. <<d, m>> \in Futures \ {f}  BY <1>14, FutureFacts
  <2> QED  BY <1>6, <1>7, <2>1
<1>15. PlacePart(d)'
  <2>1. ASSUME NEW k \in AsyncKinds, NEW x \in Threads, In(d, k, x)'  PROVE FALSE
    <3>1. In(d, k, x)  BY <1>1, <1>2, <1>12, <2>1 DEF In
    <3>2. k = k0 /\ x = s  BY <1>5, <3>1
    <3> QED  BY <1>2, <2>1, <3>2 DEF In
  <2>2. ASSUME NEW m \in Nums, Held(d, m)'  PROVE m = n /\ hand'[<<d, m>>].to = s
    BY <1>5, <1>7, <1>14, <2>2 DEF Held
  <2>3. await'[d] \in InCall => \E r \in Scheds : RunAt(d, r)'
    BY <1>0, <1>1, <1>12 DEF PlacePart, AwaitInv
  <2>4. Goes(d, "ready", s, n, s)
    BY <1>1, <1>5, <1>12, <2>1, <2>2, <2>3 DEF Goes
  <2> QED  BY <2>4, GoesKeeps
<1>16. FuturePart(d)'
  <2>1. ASSUME NEW m \in Nums  PROVE NumInv(d, m)'
    <3>1. CASE m = n  BY <1>1, <1>3, <1>6, <3>1 DEF NumInv
    <3>2. CASE m # n
      <4>1. NumInv(d, m)  BY <1>0 DEF FuturePart, FutureInv
      <4>2. SeenListed(d, m)' <=> SeenListed(d, m)  BY <1>14, <3>2 DEF SeenListed
      <4> QED  BY <1>1, <1>14, <3>2, <4>1, <4>2 DEF NumInv
    <3> QED  BY <3>1, <3>2
  <2>2. Awaited(d)' = Awaited(d)  BY <1>1 DEF Awaited
  <2>3. FutureInv(d)'  BY <1>0, <1>1, <2>1, <2>2 DEF FuturePart, FutureInv
  <2>4. \A m \in Nums : Dead(d, m) => Dead(d, m)'  BY <1>1, <1>14 DEF Dead
  <2>5. ASSUME d \notin unwaited, await[d] \in {"queued", "waiting"}
        PROVE  fstatus'[Awaited(d)'] = "FINISHED" /\ Held(d, calls[d])'
    BY <1>1, <1>3, <1>6, <2>2, <2>5 DEF Held
  <2>6. OwnInv(d)'  BY <1>0, <1>1, <2>4, <2>5 DEF FuturePart, OwnInv
  <2>7. LoopInv(d)'  BY <1>11 DEF LoopInv
  <2> QED  BY <2>3, <2>6, <2>7 DEF FuturePart
<1> QED  BY <1>8, <1>9, <1>10, <1>11, <1>13, <1>15, <1>16, ApartSound

\* ... and links it behind the last ready coroutine.
LEMMA LinksSound ==
  ASSUME SoundInv, NEW f \in Futures, ResumeLinks(f)  PROVE SoundInv'
<1> PICK d \in Cos, n \in Nums : f = <<d, n>> /\ CoOf(f) = d  BY FutureFacts
<1> PICK s : s = hand[f].to  OBVIOUS
<1>0. SchedTypes /\ AsyncTypes /\ StepsInv /\ PlacePart(d) /\ FuturePart(d) /\ s \in Scheds
  BY DEF SoundInv, CosInv, AsyncTypes
<1>1. /\ UNCHANGED <<timers, co_curr, pc, append, p_turn, life>>
      /\ UNCHANGED <<await, calls, fstatus, co_queue, readers, unwaited>>
      /\ job[f] = "link" /\ job' = [job EXCEPT ![f] = "over"] /\ LinksBehind(s, hand[f].prev, d)
      /\ hand' = [hand EXCEPT ![f] = NoHand]
  BY DEF ResumeLinks, JobGoes, procVars, coVars
<1>2. /\ fstatus[f] \in {"FINISHED", "freed"} /\ NumInv(d, n)
      /\ \A r \in Scheds : f \notin readers[r]
      /\ ~(calls[d] < n)
      /\ d \notin unwaited /\ await[d] # "idle" =>
           n = calls[d] /\ fstatus[f] = "FINISHED" /\ Awaited(d) = f
  BY <1>1, WorkOnLast
<1>3. /\ Held(d, n) /\ Alive(d) /\ \A m \in Nums : Held(d, m) => m = n
      /\ \A k \in AsyncKinds, x \in Threads : ~In(d, k, x)
  BY <1>0, <1>1 DEF Held, PlacePart, HeldInv
<1>4. ASSUME NEW r \in Scheds, OnCpu(d, r) \/ \E m \in Nums : <<d, m>> \in readers[r]
      PROVE  r = s
  <2>1. CASE OnCpu(d, r) /\ await[d] # "queued"
    <3>1. In(d, "running", r)  BY <2>1 DEF In
    <3> QED  BY <1>3, <3>1, ThreadFacts DEF AsyncKinds
  <2>2. CASE ~(OnCpu(d, r) /\ await[d] # "queued")
    <3>1. AtHome(d, r)  BY <1>0, <1>4, <2>2 DEF PlacePart, AwaitInv, HomeInv
    <3> QED  BY <1>3, <3>1 DEF AtHome
  <2> QED  BY <2>1, <2>2
<1>5. ~InReady(d, s)
  <2>1. ~In(d, "ready", s)  BY <1>0, <1>3, ThreadFacts DEF AsyncKinds
  <2> QED  BY <1>0, <2>1 DEF In
<1>6. /\ ready' \in [Scheds -> Seq(Cos)] /\ tail' \in [Scheds -> Cos \cup {NoCo}] /\ Distinct'
      /\ \A r \in Scheds : \A c : InReady(c, r)' => InReady(c, r) \/ (c = d /\ r = s)
  <2>1. PICK prev \in Cos \cup {NoCo} : LinksBehind(s, prev, d)  BY <1>0, <1>1 DEF AsyncTypes
  <2>2. ready \in [Scheds -> Seq(Cos)] /\ tail \in [Scheds -> Cos \cup {NoCo}] /\ Distinct
    BY <1>0 DEF SchedTypes, StepsInv
  <2> QED  BY <1>0, <1>5, <2>1, <2>2, LinkQueue
<1>7. job'[f] = "over" /\ \A g \in Futures \ {f} : job'[g] = job[g]  BY <1>0, <1>1 DEF AsyncTypes
<1>8. /\ DOMAIN hand' = Futures /\ hand'[f].to = 1 /\ hand'[f].prev = NoCo
      /\ \A g \in Futures \ {f} : hand'[g] = hand[g]
  BY <1>0, <1>1 DEF AsyncTypes, NoHand
<1>9. AsyncTypes'
  <2>1. job' \in [Futures -> {"none", "refused", "read", "connect"} \cup ExecutorSteps]
    BY <1>0, <1>1 DEF AsyncTypes, ExecutorSteps
  <2>2. \A g \in Futures : hand'[g].to \in Scheds /\ hand'[g].prev \in Cos \cup {NoCo}
    BY <1>0, <1>8, ThreadFacts DEF AsyncTypes
  <2> QED  BY <1>0, <1>1, <1>8, <2>1, <2>2 DEF AsyncTypes
<1>10. SchedTypes'  BY <1>0, <1>1, <1>6 DEF SchedTypes
<1>11. StepsInv'
  <2>1. Distinct'  BY <1>6
  <2> QED  BY <1>0, <1>1, <2>1 DEF StepsInv
<1>12. ~NoExec'  BY <1>7 DEF NoExec, ExecutorSteps
<1>13. /\ \A c : \A r \in Scheds : (OnCpu(c, r)' <=> OnCpu(c, r)) /\ (RunAt(c, r)' <=> RunAt(c, r))
       /\ \A c : Alive(c)' <=> Alive(c)
  BY <1>1 DEF OnCpu, RunAt, Alive
<1>14. ASSUME NEW c \in Cos \ {d}  PROVE Apart(c)
  <2>1. Aside(c)  BY <1>1, <1>6, <1>13 DEF Aside
  <2>2. \A m \in Nums : <<c, m>> \in Futures \ {f}  BY FutureFacts
  <2> QED  BY <1>1, <1>7, <1>8, <2>1, <2>2 DEF Apart, SameFutures
<1>15. ASSUME NEW m \in Nums, m # n
       PROVE  job'[<<d, m>>] = job[<<d, m>>] /\ hand'[<<d, m>>] = hand[<<d, m>>]
  <2>1. <<d, m>> \in Futures \ {f}  BY <1>15, FutureFacts
  <2> QED  BY <1>7, <1>8, <2>1
<1>16. PlacePart(d)'
  <2>1. ASSUME NEW k \in AsyncKinds, NEW x \in Threads, In(d, k, x)'
        PROVE  k = "ready" /\ x = s /\ HomeOf(k, x)' = s
    <3>1. In(d, k, x) \/ (k = "ready" /\ x = s)  BY <1>1, <1>6, <1>13, <2>1 DEF In
    <3> QED  BY <1>3, <3>1 DEF HomeOf
  <2>2. \A m \in Nums : ~Held(d, m)'  BY <1>3, <1>7, <1>15 DEF Held
  <2>3. await'[d] \in InCall => \E r \in Scheds : RunAt(d, r)'
    BY <1>0, <1>1, <1>13 DEF PlacePart, AwaitInv
  <2>4. Goes(d, "ready", s, n, s)
    BY <1>1, <1>3, <1>4, <1>13, <2>1, <2>2, <2>3 DEF Goes
  <2> QED  BY <2>4, GoesKeeps
<1>17. FuturePart(d)'
  <2>1. ASSUME NEW m \in Nums  PROVE NumInv(d, m)'
    <3>1. CASE m = n  BY <1>1, <1>2, <1>7, <3>1 DEF NumInv
    <3>2. CASE m # n
      <4>1. NumInv(d, m)  BY <1>0 DEF FuturePart, FutureInv
      <4>2. SeenListed(d, m)' <=> SeenListed(d, m)  BY <1>15, <3>2 DEF SeenListed
      <4> QED  BY <1>1, <1>15, <3>2, <4>1, <4>2 DEF NumInv
    <3> QED  BY <3>1, <3>2
  <2>2. Awaited(d)' = Awaited(d)  BY <1>1 DEF Awaited
  <2>3. FutureInv(d)'  BY <1>0, <1>1, <2>1, <2>2 DEF FuturePart, FutureInv
  <2>4. \A m \in Nums : Dead(d, m) => Dead(d, m)'  BY <1>1, <1>15 DEF Dead
  <2>5. ASSUME d \notin unwaited, await[d] \in {"queued", "waiting"}
        PROVE  fstatus'[Awaited(d)'] = "FINISHED" /\ Dead(d, calls[d])'
    BY <1>1, <1>2, <1>7, <2>2, <2>5 DEF Dead
  <2>6. OwnInv(d)'  BY <1>0, <1>1, <2>4, <2>5 DEF FuturePart, OwnInv
  <2>7. LoopInv(d)'  BY <1>12 DEF LoopInv
  <2> QED  BY <2>3, <2>6, <2>7 DEF FuturePart
<1> QED  BY <1>9, <1>10, <1>11, <1>12, <1>14, <1>16, <1>17, ApartSound

----------------------------------------------------------------------------
(* The event loop.                                                         *)

\* While scheduler s is in its event loop the coroutine of one of its readers
\* is not inside a call, and is with s.
LEMMA ReaderWaits ==
  ASSUME SoundInv, NEW s \in Scheds, pc[s] = "timers", NEW d \in Cos, NEW n \in Nums,
         <<d, n>> \in readers[s]
  PROVE  /\ AtHome(d, s) /\ await[d] \notin InCall /\ \A r \in Scheds : ~OnCpu(d, r)
         /\ NumInv(d, n) /\ job[<<d, n>>] \in {"read", "connect"} /\ ~(calls[d] < n)
         /\ \A r \in Scheds : <<d, n>> \in readers[r] /\ ListedOn(d) # {} => r = s
         /\ d \notin unwaited => n = calls[d] /\ await[d] = "waiting" /\ Awaited(d) = <<d, n>>
<1>0. PlacePart(d) /\ FuturePart(d) /\ AsyncTypes /\ Nums = 1 .. Calls /\ Calls \in Nat
  BY AsyncAssumption DEF SoundInv, CosInv, Nums
<1>1. AtHome(d, s)  BY <1>0 DEF PlacePart, HomeInv
<1>2. \A r \in Scheds : ~OnCpu(d, r)  BY <1>1 DEF AtHome, OnCpu
<1>3. await[d] \notin InCall  BY <1>0, <1>2 DEF PlacePart, AwaitInv, RunAt, OnCpu
<1>4. NumInv(d, n)  BY <1>0 DEF FuturePart, FutureInv
<1>5. job[<<d, n>>] \in {"read", "connect"} /\ ~(calls[d] < n)  BY <1>4 DEF NumInv
<1>6. ASSUME NEW r \in Scheds, <<d, n>> \in readers[r], ListedOn(d) # {}  PROVE r = s
  <2>1. AtHome(d, r)  BY <1>0, <1>6 DEF PlacePart, HomeInv
  <2>2. PICK q \in Scheds : In(d, "ready", q) \/ In(d, "asleep", q) \/ In(d, "co_queue", q)
    BY <1>6 DEF ListedOn, In, InReady
  <2>3. q \in Threads  BY ThreadFacts
  <2> QED  BY <1>1, <2>1, <2>2, <2>3 DEF AtHome, AsyncKinds
<1>7. ASSUME d \notin unwaited
      PROVE  n = calls[d] /\ await[d] = "waiting" /\ Awaited(d) = <<d, n>>
  <2>1. ~Dead(d, n)  BY DEF Dead
  <2>2. calls[d] \in 0 .. Calls
        /\ await[d] \in {"idle", "test", "suspend", "queued", "waiting"}
    BY <1>0 DEF AsyncTypes
  <2>3. ~(n < calls[d]) /\ ~(n = calls[d] /\ await[d] = "idle")
    BY <1>0, <1>7, <2>1 DEF FuturePart, OwnInv
  <2>4. n = calls[d]  BY <1>0, <1>5, <2>2, <2>3
  <2> QED  BY <1>3, <2>2, <2>3, <2>4 DEF InCall, Awaited
<1> QED  BY <1>1, <1>2, <1>3, <1>4, <1>5, <1>6, <1>7

\* Without the executor the event loop resumes a coroutine from co_queue.
LEMMA LoopResumes ==
  ASSUME SoundInv, NoExec, NEW s \in Scheds, NEW f \in Futures, set_future(s, f)
  PROVE  fault' = "none"
<1> PICK d \in Cos, n \in Nums : f = <<d, n>> /\ CoOf(f) = d  BY FutureFacts
<1>1. pc[s] = "timers" /\ f \in readers[s]  BY DEF set_future
<1>2. PlacePart(d) /\ FuturePart(d)  BY DEF SoundInv, CosInv
<1>3. fstatus[f] = "PENDING" /\ d \notin unwaited  BY <1>1, <1>2 DEF FuturePart, LoopInv
<1>4. n = calls[d] /\ await[d] = "waiting" /\ Awaited(d) = f  BY <1>1, <1>3, ReaderWaits
<1>5. PICK r \in Scheds : d \in co_queue[r]
  BY <1>2, <1>3, <1>4 DEF FuturePart, OwnInv
<1>6. In(d, "co_queue", r)  BY <1>5 DEF In
<1>7. /\ Alive(d)
      /\ \A k \in AsyncKinds, x \in Threads : In(d, k, x) => k = "co_queue" /\ x = r
  BY <1>6, Listed
<1>8. \A q \in Scheds : ~InReady(d, q) /\ d \notin timers[q]
  <2>1. ASSUME NEW q \in Scheds  PROVE ~In(d, "ready", q) /\ ~In(d, "asleep", q)
    BY <1>7, ThreadFacts DEF AsyncKinds
  <2> QED  BY <2>1 DEF In
<1>9. ListedOn(d) # {}  BY <1>5 DEF ListedOn
<1>10. ListDelFault(d) = "none"
  BY <1>7, <1>8, <1>9 DEF ListDelFault, Alive
<1>11. ~DelDuringAppend(s, d)  BY <1>8 DEF DelDuringAppend, OnReady, InReady
<1> QED  BY <1>3, <1>10, <1>11 DEF set_future

\* A reader callback.
LEMMA ReaderSound ==
  ASSUME SoundInv, Ok', NEW s \in Scheds, NEW f \in Futures, set_future(s, f)  PROVE SoundInv'
<1> PICK d \in Cos, n \in Nums : f = <<d, n>> /\ CoOf(f) = d  BY FutureFacts
<1>0. SchedTypes /\ AsyncTypes /\ StepsInv /\ PlacePart(d) /\ FuturePart(d) /\ s \in Threads
  BY ThreadFacts DEF SoundInv, CosInv
<1>1. /\ UNCHANGED <<timers, co_curr, p_turn, life, await, calls, job, hand, unwaited>>
      /\ pc[s] = "timers" /\ Goto(s, "resume") /\ f \in readers[s] /\ ListDel(s, d)
      /\ readers' = [readers EXCEPT ![s] = readers[s] \ {f}]
      /\ fstatus' = [fstatus EXCEPT ![f] = "FINISHED"]
      /\ append' = [append EXCEPT ![s] = [co |-> d, to |-> s, prev |-> tail'[s]]]
  BY DEF set_future, event_loop_remove_reader, Finished, procVars
<1>2. ListDelFault(d) = "none"  BY DEF set_future, Ok
<1>3. ListedOn(d) # {} /\ \A r \in Scheds : d \notin timers[r]  BY <1>2 DEF ListDelFault
<1>4. /\ AtHome(d, s) /\ await[d] \notin InCall /\ \A r \in Scheds : ~OnCpu(d, r)
      /\ NumInv(d, n) /\ job[f] \in {"read", "connect"} /\ ~(calls[d] < n)
      /\ \A r \in Scheds : f \in readers[r] => r = s
      /\ d \notin unwaited => n = calls[d] /\ await[d] = "waiting" /\ Awaited(d) = f
  BY <1>1, <1>3, ReaderWaits
<1>5. PICK k0 \in {"ready", "co_queue"} : In(d, k0, s)
  <2>1. PICK q \in Scheds : In(d, "ready", q) \/ In(d, "co_queue", q)
    BY <1>3 DEF ListedOn, In, InReady
  <2>2. q = s  BY <1>4, <2>1, ThreadFacts DEF AtHome, HomeOf, AsyncKinds
  <2> QED  BY <2>1, <2>2
<1>6. /\ Alive(d) /\ \A m \in Nums : ~Held(d, m)
      /\ \A k \in AsyncKinds, x \in Threads : In(d, k, x) => k = k0 /\ x = s
      /\ \A r \in Scheds, m \in Nums : <<d, m>> \in readers[r] => r = s
  BY <1>5, Listed
<1>7. /\ ready' \in [Scheds -> Seq(Cos)] /\ tail' \in [Scheds -> Cos \cup {NoCo}] /\ Distinct'
      /\ co_queue' \in [Scheds -> SUBSET Cos]
      /\ ~InReady(d, s)' /\ d \notin co_queue'[s]
      /\ \A c : \A r \in Scheds : /\ InReady(c, r)' => InReady(c, r)
                                  /\ c \in co_queue'[r] => c \in co_queue[r]
                                  /\ c \in co_queue[r] /\ c # d => c \in co_queue'[r]
  BY <1>1, DelQueue
<1>8. /\ append' \in [Threads -> [co : Cos \cup {NoCo}, to : Scheds, prev : Cos \cup {NoCo}]]
      /\ append'[s].co = d /\ append'[s].to = s
      /\ \A y \in Threads \ {s} : append'[y] = append[y]
  <2>1. tail'[s] \in Cos \cup {NoCo}  BY <1>7
  <2> QED  BY <1>0, <1>1, <2>1 DEF SchedTypes
<1>9. /\ DOMAIN pc' = Threads /\ pc'[s] = "resume" /\ \A y \in Threads \ {s} : pc'[y] = pc[y]
  BY <1>0, <1>1 DEF SchedTypes, Goto
<1>10. fstatus'[f] = "FINISHED" /\ \A g \in Futures \ {f} : fstatus'[g] = fstatus[g]
  BY <1>0, <1>1 DEF AsyncTypes
<1>11. /\ readers' \in [Scheds -> SUBSET Futures] /\ f \notin readers'[s]
       /\ \A r \in Scheds, g \in Futures : g \in readers'[r] => g \in readers[r]
  BY <1>0, <1>1 DEF AsyncTypes
<1>12. \A r \in Scheds : f \notin readers'[r]  BY <1>4, <1>11
<1>13. AsyncTypes'  BY <1>0, <1>1, <1>7, <1>11 DEF AsyncTypes
<1>14. SchedTypes'  BY <1>0, <1>1, <1>7, <1>8, <1>9 DEF SchedTypes
<1>15. StepsInv'
  <2>1. Distinct' /\ d # NoCo  BY <1>7, ThreadFacts
  <2> QED  BY <1>0, <1>1, <1>8, <1>9, <2>1, ThreadFacts DEF StepsInv
<1>16. NoExec' <=> NoExec  BY <1>1 DEF NoExec
<1>17. /\ \A c : \A r \in Scheds : (OnCpu(c, r)' => OnCpu(c, r)) /\ (RunAt(c, r) => RunAt(c, r)')
       /\ \A c : Alive(c)' <=> Alive(c)
  BY <1>1, <1>9, ThreadFacts DEF OnCpu, RunAt, Alive
<1>18. ASSUME NEW c \in Cos \ {d}  PROVE Apart(c)
  <2>1. Aside(c)  BY <1>1, <1>7, <1>8, <1>17 DEF Aside
  <2>2. \A m \in Nums : <<c, m>> \in Futures \ {f}  BY FutureFacts
  <2> QED  BY <1>1, <1>7, <1>10, <1>11, <2>1, <2>2 DEF Apart, SameFutures
<1>19. PlacePart(d)'
  <2>1. ASSUME NEW k \in AsyncKinds, NEW x \in Threads, In(d, k, x)'
        PROVE  k = "append" /\ x = s /\ HomeOf(k, x)' = s
    <3>1. In(d, k, x) \/ (k = "append" /\ x = s)
      BY <1>1, <1>7, <1>8, <1>17, <2>1 DEF In
    <3>2. ~(k = k0 /\ x = s)  BY <1>7, <2>1 DEF In
    <3> QED  BY <1>6, <1>8, <3>1, <3>2 DEF HomeOf
  <2>2. \A m \in Nums : ~Held(d, m)'  BY <1>1, <1>6 DEF Held
  <2>3. \A r \in Scheds, m \in Nums : <<d, m>> \in readers'[r] => r = s
    BY <1>6, <1>11, FutureFacts
  <2>4. Goes(d, "append", s, n, s)
    BY <1>1, <1>4, <1>6, <1>17, <2>1, <2>2, <2>3 DEF Goes, InCall
  <2> QED  BY <2>4, GoesKeeps
<1>20. ASSUME NEW m \in Nums, m # n
       PROVE  /\ fstatus'[<<d, m>>] = fstatus[<<d, m>>]
              /\ \A r \in Scheds : <<d, m>> \in readers'[r] => <<d, m>> \in readers[r]
  <2>1. <<d, m>> \in Futures \ {f}  BY <1>20, FutureFacts
  <2> QED  BY <1>10, <1>11, <2>1
<1>21. FuturePart(d)'
  <2>1. ASSUME NEW m \in Nums  PROVE NumInv(d, m)'
    <3>1. NumInv(d, m)  BY <1>0 DEF FuturePart, FutureInv
    <3>2. SeenListed(d, m)' <=> SeenListed(d, m)  BY <1>1 DEF SeenListed
    <3>3. CASE m = n  BY <1>1, <1>4, <1>10, <1>12, <3>3 DEF NumInv
    <3>4. CASE m # n  BY <1>1, <1>20, <3>1, <3>2, <3>4 DEF NumInv
    <3> QED  BY <3>3, <3>4
  <2>2. /\ Awaited(d)' = Awaited(d) /\ Awaited(d) = <<d, calls[d]>>
        /\ await[d] # "idle" => calls[d] \in Nums
    BY <1>0, <1>1 DEF Awaited, FuturePart, FutureInv
  <2>3. calls[d] \in Nums =>
          fstatus'[Awaited(d)] = fstatus[Awaited(d)] \/ fstatus'[Awaited(d)] = "FINISHED"
    BY <1>10, <1>20, <2>2
  <2>4. FutureInv(d)'  BY <1>0, <1>1, <2>1, <2>2, <2>3 DEF FuturePart, FutureInv
  <2>5. \A m \in Nums : Dead(d, m) => Dead(d, m)'  BY <1>1, <1>12, <1>20 DEF Dead
  <2>6. Dead(d, n)'  BY <1>1, <1>4, <1>12 DEF Dead
  <2>7. OwnInv(d)'  BY <1>0, <1>1, <1>4, <1>10, <2>2, <2>5, <2>6 DEF FuturePart, OwnInv
  <2>8. LoopInv(d)'  BY <1>0, <1>1, <1>4, <1>12, <1>16, <1>20 DEF FuturePart, LoopInv
  <2> QED  BY <2>4, <2>7, <2>8 DEF FuturePart
<1> QED  BY <1>13, <1>14, <1>15, <1>16, <1>18, <1>19, <1>21, ApartSound

----------------------------------------------------------------------------
(* The theorems.                                                           *)

\* The invariant holds at the start.
LEMMA AsyncInitInv ==
  AsyncInit => AsyncInv
<1> SUFFICES ASSUME AsyncInit  PROVE AsyncInv  OBVIOUS
<1> USE DEF AsyncInit
<1>1. IInv  BY InitIInv
<1>2. SchedTypes  BY <1>1 DEF IInv, TypeOK, SchedTypes
<1>3. AsyncTypes
  BY AsyncAssumption, ThreadFacts DEF AsyncTypes, NoHand, ExecutorSteps
<1>4. /\ fault = "none" /\ \A x \in Threads : pc[x] \in {"create", "start"} /\ append[x].co = NoCo
      /\ \A s \in Scheds : ready[s] = <<>> /\ timers[s] = {} /\ co_queue[s] = {} /\ readers[s] = {}
  BY DEF Init, sched_create, NoAppend
<1>5. StepsInv  BY <1>1, <1>4, ThreadFacts DEF IInv, PlaceInv, StepInv, StepsInv
<1>6. ASSUME NEW c \in Cos  PROVE PlacePart(c) /\ FuturePart(c)
  <2>1. \A s \in Scheds : ~OnCpu(c, s)  BY <1>4, ThreadFacts DEF OnCpu
  <2>2. \A k \in AsyncKinds, x \in Threads : ~In(c, k, x)
    BY <1>4, <2>1, ThreadFacts DEF In, InReady
  <2>3. \A n \in Nums : job[<<c, n>>] = "none" /\ fstatus[<<c, n>>] = "none"  BY FutureFacts
  <2>4. await[c] = "idle" /\ calls[c] = 0 /\ c \notin unwaited  OBVIOUS
  <2>5. PlacePart(c)
    BY <1>4, <2>1, <2>2, <2>3, <2>4 DEF PlacePart, PlacesInv, HeldInv, AwaitInv, HomeInv, Held, InCall
  <2>6. ASSUME NEW n \in Nums  PROVE 0 < n /\ ~(n <= 0) /\ ~(n < 0) /\ n # 0
    BY AsyncAssumption DEF Nums
  <2>7. FutureInv(c)  BY <1>4, <2>3, <2>4, <2>6 DEF FutureInv, NumInv
  <2>8. OwnInv(c)  BY <2>4, <2>6 DEF OwnInv
  <2>9. LoopInv(c)  BY <1>4, <2>4 DEF LoopInv, InCall
  <2> QED  BY <2>5, <2>7, <2>8, <2>9 DEF FuturePart
<1>7. SoundInv  BY <1>2, <1>3, <1>5, <1>6 DEF SoundInv, CosInv
<1> QED  BY <1>4, <1>7 DEF AsyncInv, LoopFault

\* A step of Scheduler makes no fault of the event loop.
LEMMA SchedulerFault ==
  ASSUME Ok, \/ \E x \in Threads : SchedulerStep(x) \/ SchedulerMay(x)
             \/ \E s \in Scheds, c \in Cos : TimerExpires(s, c)
  PROVE  ~LoopFault'
<1>1. ASSUME NEW x, SchedStep(x) \/ SubmitStep(x) \/ MainStep \/ SchedSpuriousWakeup(x)
                   \/ MainSpuriousWakeup
      PROVE  fault' \in {"none", "stack", "sched", "g_ps"}
  BY <1>1 DEF Ok, SchedStep, MainStep, SubmitStep, SubmitAdd, SubmitBegin, SubmitEnd,
       SchedSpuriousWakeup, MainSpuriousWakeup, SchedStart, LoopTest, CheckCoNums,
       PickNone, PickAndSchedule, processors_suspend, YieldBegin, YieldEnd, sched_delay,
       MaySuspend, LeavesStack, CoReturns, CoDone, ResumeEnd, TimersEnd, sched_exit,
       CallLoop, wait_group_wait, WakeupStop, WakeupSignal, JoinThread, processors_destory
<1>2. ASSUME NEW x, NEW c, SubmitTurn(x, c) \/ ResumeBegin(x, c)  PROVE fault' = "none"
  BY <1>2 DEF Ok, SubmitTurn, ResumeBegin
<1> QED  BY <1>1, <1>2 DEF SchedulerStep, SchedulerMay, TimerExpires, LoopFault

\* Every step keeps the invariant.
LEMMA AsyncStepInv ==
  AsyncInv /\ [AsyncNext]_allVars => AsyncInv'
<1> SUFFICES ASSUME AsyncInv, [AsyncNext]_allVars  PROVE AsyncInv'  OBVIOUS
<1>1. CASE UNCHANGED allVars
  <2>0. /\ UNCHANGED <<ready, tail, timers, append, p_turn, life, pc, co_curr, fault>>
        /\ UNCHANGED asyncVars
    BY <1>1 DEF allVars, vars, schedVars, coVars, procVars
  <2>1. (Ok' <=> Ok) /\ (LoopFault' <=> LoopFault) /\ job' = job
    BY <2>0 DEF Ok, LoopFault, asyncVars
  <2>2. NoExec' <=> NoExec  BY <2>1 DEF NoExec
  <2>3. ASSUME Ok'  PROVE SoundInv'
    <3>1. SoundInv  BY <2>1, <2>3 DEF AsyncInv
    <3>2. QuietPc  BY <2>0, <3>1 DEF QuietPc, SoundInv, SchedTypes
    <3> QED  BY <2>0, <3>1, <3>2, QuietSound
  <2> QED  BY <2>1, <2>2, <2>3 DEF AsyncInv
<1>2. ASSUME \/ \E x \in Threads : SchedulerStep(x) \/ SchedulerMay(x)
             \/ \E s \in Scheds, c \in Cos : TimerExpires(s, c)
      PROVE  AsyncInv'
  <2>1. Ok
    BY <1>2 DEF SchedulerStep, SchedulerMay, TimerExpires, SchedStep, MainStep, SubmitTurn,
       SubmitStep, SubmitAdd, SubmitBegin, SubmitEnd, ResumeBegin,
       SchedSpuriousWakeup, MainSpuriousWakeup, SchedStart, LoopTest, CheckCoNums,
       PickNone, PickAndSchedule, processors_suspend, YieldBegin, YieldEnd, sched_delay,
       MaySuspend, LeavesStack, CoReturns, CoDone, ResumeEnd, TimersEnd, sched_exit,
       CallLoop, wait_group_wait, WakeupStop, WakeupSignal, JoinThread, processors_destory
  <2>2. SoundInv  BY <2>1 DEF AsyncInv
  <2>3. ~LoopFault'  BY <1>2, <2>1, SchedulerFault
  <2>4. Ok' => SoundInv'  BY <1>2, <2>2, SchedulerSound
  <2> QED  BY <2>3, <2>4 DEF AsyncInv
<1>3. ASSUME NEW s \in Scheds, NEW f \in Futures, ReaderReady(s, f)  PROVE AsyncInv'
  <2>1. set_future(s, f)
    BY <1>3 DEF ReaderReady, connection_read_data_nonblock, tcp_connect
  <2>2. Ok /\ job' = job  BY <2>1 DEF set_future
  <2>3. SoundInv  BY <2>2 DEF AsyncInv
  <2>4. Ok' => SoundInv'  BY <2>1, <2>3, ReaderSound
  <2>5. NoExec' => ~LoopFault'
    <3>1. NoExec' <=> NoExec  BY <2>2 DEF NoExec
    <3> QED  BY <2>1, <2>3, <3>1, LoopResumes DEF LoopFault
  <2> QED  BY <2>4, <2>5 DEF AsyncInv
<1>4. ASSUME NEW s \in Scheds, \/ processors_getaddrinfo(s) \/ connection_read(s)
                              \/ asyncio_open_connection(s) \/ AsyncStep(s)
      PROVE  AsyncInv'
  <2>1. Ok /\ fault' = fault
    BY <1>4 DEF processors_getaddrinfo, connection_read, asyncio_open_connection, async_tcp_connect,
       processors_create_co_future, AsyncStep, AwaitTest, AwaitQueue, AwaitSwap, AwaitReturns,
       RunsAt, vars
  <2>2. SoundInv /\ ~LoopFault'  BY <2>1 DEF AsyncInv, Ok, LoopFault
  <2>3. SoundInv'
    BY <1>4, <2>2, CallsSound, AwaitTestSound, AwaitQueueSound, AwaitSwapSound, AwaitReturnsSound
       DEF AsyncStep
  <2> QED  BY <2>2, <2>3 DEF AsyncInv
<1>5. ASSUME NEW f \in Futures, ExecutorStep(f)  PROVE AsyncInv'
  <2>1. Ok /\ job[f] \in ExecutorSteps
    BY <1>5 DEF ExecutorStep, future_set_result, ReadCallback, ResumeReads, ResumeUnlinks,
                ResumeLinks, ExecutorSteps
  <2>2. SoundInv  BY <2>1 DEF AsyncInv
  <2>3. Ok' => SoundInv'
    BY <1>5, <2>2, FinishSound, UnlinksSound, LinksSound DEF ExecutorStep
  <2>4. PICK step \in ExecutorSteps : job' = [job EXCEPT ![f] = step]
    BY <1>5 DEF ExecutorStep, future_set_result, ReadCallback, ResumeReads, ResumeUnlinks,
                ResumeLinks, ExecutorSteps, JobGoes
  <2>5. ~NoExec'
    <3>1. job'[f] = step  BY <2>2, <2>4 DEF SoundInv, AsyncTypes
    <3> QED  BY <3>1 DEF NoExec
  <2> QED  BY <2>3, <2>5 DEF AsyncInv
<1> QED  BY <1>1, <1>2, <1>3, <1>4, <1>5 DEF AsyncNext

\* What a member p of AsyncPlaces(c) is: a place in the sense of In, the hands
\* of an executor thread, or the scheduler c is about to leave.
PlainAt(c, p) ==
  /\ p[1] \in AsyncKinds /\ p[2] \in Threads /\ In(c, p[1], p[2])
  /\ p[1] = "ready" => /\ p = <<p[1], p[2], p[3]>> /\ p[2] \in Scheds
                       /\ p[3] \in DOMAIN ready[p[2]] /\ ready[p[2]][p[3]] = c
  /\ p[1] # "ready" => p = <<p[1], p[2]>>

HandAt(c, p) == \E n \in Nums : Held(c, n) /\ p = <<"executor", <<c, n>>>>

LeavingAt(c, p) ==
  \E s \in Scheds : OnCpu(c, s) /\ await[c] = "queued" /\ p = <<"running", s>>

\* There are no others.
LEMMA AsyncPlaceIs ==
  ASSUME NEW c \in Cos, NEW p \in AsyncPlaces(c)
  PROVE  PlainAt(c, p) \/ HandAt(c, p) \/ LeavingAt(c, p)
<1>1. CASE p \in Places(c)
  <2>1. /\ p[1] \in Kinds /\ p[2] \in Threads /\ At(c, p[1], p[2])
        /\ p[1] = "ready" => /\ p = <<p[1], p[2], p[3]>> /\ p[2] \in Scheds
                             /\ p[3] \in DOMAIN ready[p[2]] /\ ready[p[2]][p[3]] = c
        /\ p[1] # "ready" => p = <<p[1], p[2]>>
    BY <1>1, PlaceIsAt
  <2>2. CASE p[1] = "running" /\ await[c] = "queued"
    <3>1. p[2] \in Scheds /\ OnCpu(c, p[2]) /\ p = <<"running", p[2]>>
      BY <2>1, <2>2 DEF At, OnCpu
    <3> QED  BY <2>2, <3>1 DEF LeavingAt
  <2>3. CASE ~(p[1] = "running" /\ await[c] = "queued")
    <3>1. In(c, p[1], p[2]) /\ p[1] \in AsyncKinds
      BY <2>1, <2>3 DEF At, In, OnCpu, Kinds, AsyncKinds
    <3> QED  BY <2>1, <3>1 DEF PlainAt
  <2> QED  BY <2>2, <2>3
<1>2. CASE \E s \in Scheds : c \in co_queue[s] /\ p = <<"co_queue", s>>
  BY <1>2, ThreadFacts DEF PlainAt, In, AsyncKinds
<1>3. CASE \E f \in Futures : CoOf(f) = c /\ job[f] = "link" /\ p = <<"executor", f>>
  <2>1. PICK f \in Futures : CoOf(f) = c /\ job[f] = "link" /\ p = <<"executor", f>>  BY <1>3
  <2>2. f[2] \in Nums /\ f = <<c, f[2]>>  BY <2>1, FutureFacts
  <2> QED  BY <2>1, <2>2 DEF Held, HandAt
<1>4. \/ p \in Places(c)
      \/ p \in {<<"co_queue", s>> : s \in {r \in Scheds : c \in co_queue[r]}}
      \/ p \in {<<"executor", f>> : f \in {g \in Futures : CoOf(g) = c /\ job[g] = "link"}}
  BY DEF AsyncPlaces
<1> QED  BY <1>1, <1>2, <1>3, <1>4

\* In the hands of an executor thread a coroutine is in no other place, unless it
\* is about to leave its scheduler.
LEMMA HandOnly ==
  ASSUME NEW c \in Cos, PlacePart(c), NEW p, NEW q, HandAt(c, p), PlainAt(c, q) \/ HandAt(c, q)
  PROVE  p = q
<1>1. PICK n \in Nums : Held(c, n) /\ p = <<"executor", <<c, n>>>>  BY DEF HandAt
<1>2. /\ \A m \in Nums : Held(c, m) => m = n
      /\ \A k \in AsyncKinds, x \in Threads : ~In(c, k, x)
  BY <1>1 DEF PlacePart, HeldInv
<1>3. HandAt(c, q)  BY <1>2 DEF PlainAt
<1>4. PICK m \in Nums : Held(c, m) /\ q = <<"executor", <<c, m>>>>  BY <1>3 DEF HandAt
<1> QED  BY <1>1, <1>2, <1>4

\* One place in the sense of PlacePart is one position.
LEMMA PlainOnly ==
  ASSUME NEW c \in Cos, PlacePart(c), Distinct, NEW p, NEW q, PlainAt(c, p), PlainAt(c, q)
  PROVE  p = q
<1>1. p[1] = q[1] /\ p[2] = q[2]  BY DEF PlainAt, PlacePart, PlacesInv
<1>2. CASE p[1] = "ready"
  <2>1. p[3] = q[3]  BY <1>1, <1>2 DEF PlainAt, Distinct, NoneTwice
  <2>2. p = <<p[1], p[2], p[3]>> /\ q = <<q[1], q[2], q[3]>>  BY <1>1, <1>2 DEF PlainAt
  <2> QED  BY <1>1, <2>1, <2>2
<1>3. CASE p[1] # "ready"
  <2>1. p = <<p[1], p[2]>> /\ q = <<q[1], q[2]>>  BY <1>1, <1>3 DEF PlainAt
  <2> QED  BY <1>1, <2>1
<1> QED  BY <1>2, <1>3

\* Wherever a coroutine is that is about to leave scheduler s, it is with s.
LEMMA LeavingHome ==
  ASSUME NEW c \in Cos, PlacePart(c), NEW s \in Scheds, OnCpu(c, s), await[c] = "queued",
         NEW p \in AsyncPlaces(c)
  PROVE  Home(p) = s
<1>1. AtHome(c, s)  BY DEF PlacePart, AwaitInv
<1>2. CASE PlainAt(c, p)
  <2>1. HomeOf(p[1], p[2]) = s /\ p[1] # "executor"  BY <1>1, <1>2 DEF PlainAt, AtHome, AsyncKinds
  <2> QED  BY <2>1 DEF HomeOf, Home
<1>3. CASE HandAt(c, p)
  <2>1. PICK n \in Nums : Held(c, n) /\ p = <<"executor", <<c, n>>>>  BY <1>3 DEF HandAt
  <2> QED  BY <1>1, <2>1 DEF AtHome, Home
<1>4. CASE LeavingAt(c, p)
  <2>1. PICK r \in Scheds : OnCpu(c, r) /\ p = <<"running", r>>  BY <1>4 DEF LeavingAt
  <2>2. r = s  BY <2>1 DEF PlacePart, PlacesInv
  <2> QED  BY <2>1, <2>2 DEF Home
<1> QED  BY <1>2, <1>3, <1>4, AsyncPlaceIs

\* The invariant implies the property.
LEMMA SoundOnePlace ==
  AsyncInv => AsyncOnePlace
<1> SUFFICES ASSUME AsyncInv, Ok, NEW c \in Cos
             PROVE  /\ AsyncPlaces(c) # {} => c \in Unfinished
                    /\ \A p, q \in AsyncPlaces(c) : p # q =>
                         /\ await[c] = "queued" /\ "running" \in {p[1], q[1]}
                         /\ Home(p) = Home(q)
  BY DEF AsyncOnePlace
<1>0. PlacePart(c) /\ Distinct  BY DEF AsyncInv, SoundInv, StepsInv, CosInv
<1>1. ASSUME NEW p \in AsyncPlaces(c)  PROVE c \in Unfinished
  <2>1. Alive(c)
    BY <1>0, AsyncPlaceIs DEF PlainAt, HandAt, LeavingAt, PlacePart, PlacesInv, HeldInv
  <2> QED  BY <2>1 DEF Alive, Unfinished
<1>2. ASSUME NEW p \in AsyncPlaces(c), NEW q \in AsyncPlaces(c), p # q
      PROVE  /\ await[c] = "queued" /\ "running" \in {p[1], q[1]}
             /\ Home(p) = Home(q)
  <2>1. LeavingAt(c, p) \/ LeavingAt(c, q)
    BY <1>0, <1>2, AsyncPlaceIs, HandOnly, PlainOnly
  <2>2. PICK s \in Scheds : /\ OnCpu(c, s) /\ await[c] = "queued"
                            /\ p = <<"running", s>> \/ q = <<"running", s>>
    BY <2>1 DEF LeavingAt
  <2>3. Home(p) = s /\ Home(q) = s  BY <1>0, <2>2, LeavingHome
  <2> QED  BY <2>2, <2>3
<1> QED  BY <1>1, <1>2

\* The inductive invariant holds in every reachable state.
THEOREM AsyncInvariance ==
  AsyncSpec => []AsyncInv
BY AsyncInitInv, AsyncStepInv, PTL DEF AsyncSpec

\* However the unlocked appends of sched_co_resume overlap with each other, with
\* submits, yields and pops, no coroutine gets into two queues, or runs while it
\* is in one, save one on its way out of processors_await, which may be resumed
\* while it still runs: its queue is then one of the scheduler it runs on. After
\* a fault, which a list_del that overlaps with a change of its list is, nothing
\* is known.
THEOREM NeverTwiceAsync ==
  AsyncSpec => []AsyncOnePlace
BY SoundOnePlace, AsyncInvariance, PTL

\* A coroutine that has waited for each of its futures is woken inside
\* future_await by its own future, and finds it finished.
THEOREM WokenByOwn ==
  AsyncSpec => []WakesAreOwn
<1>1. AsyncInv => WakesAreOwn
  <2> SUFFICES ASSUME AsyncInv, NEW s \in Scheds, WokenEarly(s), co_curr[s] \notin unwaited
               PROVE  FALSE
    BY DEF WakesAreOwn
  <2>1. Ok /\ pc[s] = "run" /\ await[co_curr[s]] = "waiting"  BY DEF WokenEarly, RunsAt
  <2>2. SoundInv  BY <2>1 DEF AsyncInv
  <2> QED  BY <2>1, <2>2, ResumedOwn DEF WokenEarly
<1> QED  BY <1>1, AsyncInvariance, PTL

\* As long as nothing is given to the executor, the event loop uses no future
\* after it was freed, resumes only coroutines on co_queue, and wakes none early.
THEOREM LoopSafe ==
  AsyncSpec => []LoopFuturesSafe
<1>1. AsyncInv => LoopFuturesSafe
  <2> SUFFICES ASSUME AsyncInv, NoExec
               PROVE  ~LoopFault /\ \A s \in Scheds : ~WokenEarly(s)
    BY DEF LoopFuturesSafe, NoExec, LoopFault
  <2>1. ASSUME NEW s \in Scheds, WokenEarly(s)  PROVE FALSE
    <3>1. Ok /\ pc[s] = "run" /\ await[co_curr[s]] = "waiting"  BY <2>1 DEF WokenEarly, RunsAt
    <3>2. SoundInv  BY <3>1 DEF AsyncInv
    <3>3. co_curr[s] \notin unwaited  BY <3>1, <3>2, Runs DEF FuturePart, LoopInv
    <3> QED  BY <2>1, <3>1, <3>2, <3>3, ResumedOwn DEF WokenEarly
  <2> QED  BY <2>1 DEF AsyncInv
<1> QED  BY <1>1, AsyncInvariance, PTL
============================================================================
