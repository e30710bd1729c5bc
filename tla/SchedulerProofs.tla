-------------------------- MODULE SchedulerProofs --------------------------
(***************************************************************************)
(* Proofs about Scheduler, for any coroutines and any number of schedulers.*)
(*                                                                         *)
(* None of the invariants is inductive alone. That a coroutine is in one   *)
(* place (OnePlace) is stated without positions here: At names the place,  *)
(* Distinct says that a ready queue holds nothing twice. The counters need *)
(* it: a scheduler that ends a coroutine has counted it, because co_nums   *)
(* is at least the number of coroutines that are at the scheduler          *)
(* (CountInv), which is only true while these are different coroutines.    *)
(* At least, not exactly: an append that is lost leaves its coroutine      *)
(* counted. That the shutdown finds every coroutine done needs the         *)
(* counters, and that only the shutdown stops a scheduler (StopInv). What  *)
(* a scheduler was told (ToldInv) is a second invariant beside this one.   *)
(***************************************************************************)
EXTENDS Scheduler, FiniteSetTheorems, SequenceTheorems, TLAPS

InReady(c, s) == \E i \in DOMAIN ready[s] : ready[s][i] = c

Kinds == {"ready", "asleep", "running", "append"}

\* A scheduler at one of these runs a coroutine, a thread at one of those has
\* one to append.
Running == {"run", "turn", "add", "submit"}
Appending == {"turn", "add", "submit", "yield", "resume"}
USE DEF Running, Appending

\* Coroutine c is in a place of kind k on thread x.
At(c, k, x) ==
  \/ k = "ready" /\ x \in Scheds /\ InReady(c, x)
  \/ k = "asleep" /\ x \in Scheds /\ c \in timers[x]
  \/ k = "running" /\ x \in Scheds /\ pc[x] \in Running /\ co_curr[x] = c
  \/ k = "append" /\ x \in Threads /\ append[x].co = c

OneAt ==
  \A c \in Cos, k, l \in Kinds, x, y \in Threads :
    At(c, k, x) /\ At(c, l, y) => k = l /\ x = y

AtLife ==
  \A c \in Cos, k \in Kinds, x \in Threads : At(c, k, x) => c \in Unfinished

NoneTwice(queue) ==
  \A i, j \in DOMAIN queue : queue[i] = queue[j] => i = j

Distinct == \A s \in Scheds : NoneTwice(ready[s])

PlaceInv == OneAt /\ AtLife /\ Distinct

StepInv ==
  /\ \A x \in Threads : append[x].co # NoCo <=> pc[x] \in Appending
  /\ \A s \in Scheds : /\ pc[s] \in {"resume", "yield"} => append[s].to = s
                       /\ pc[s] \in Running => co_curr[s] \in Cos
                       /\ pc[s] = "yield" => append[s].co = co_curr[s] /\ left[co_curr[s]] > 0

LockInv ==
  /\ \A x \in Threads : pc[x] \in {"submit", "yield"} => lock[append[x].to] = x
  /\ pc[Main] = "signal" => lock[joined] = Main

Stopping == pc[Main] \in {"stop", "signal", "pthread_join", "destroy", "shutdown"}

StopInv ==
  /\ \A s \in Scheds :
       pc[s] \in {"exit", "dead"} \/ s \in freed \/ status[s] = "STOPPED" => Stopping
  /\ \A s \in Scheds : pc[s] # "start" => status[s] # "CREATED"
  /\ Stopping => Unfinished = {}

\* The coroutines at scheduler s.
Mine(s) ==
  {c \in Cos : \/ InReady(c, s) \/ c \in timers[s]
               \/ pc[s] \in Running /\ co_curr[s] = c
               \/ pc[s] \in {"resume", "yield"} /\ append[s].co = c}

CountInv ==
  \A s \in Scheds : Cardinality(Mine(s)) <= co_nums[s] /\ co_nums[s] <= Cardinality(Cos)

\* A scheduler waits only while it has no coroutine and need not stop, or the
\* signal is still to come. What it was told is another matter (ToldInv).
WaitInv ==
  \A s \in Scheds : pc[s] = "wait" =>
    co_nums[s] = 0 /\ (status[s] = "RUNNING" \/ lock[s] = Main)

IInv ==
  /\ TypeOK /\ PlaceInv /\ StepInv /\ LockInv /\ StopInv
  /\ CountInv /\ CountersAgree /\ WaitInv

----------------------------------------------------------------------------
(* Threads, finite sets, and the append to a queue.                        *)

\* The main thread is not a scheduler, and Nobody is no thread.
LEMMA ThreadFacts ==
  /\ P \in Nat /\ P >= 1 /\ 1 \in Scheds
  /\ Main \in Threads /\ Main \notin Scheds /\ Nobody \notin Threads
  /\ \A s \in Scheds : s \in Threads /\ s # Main
  /\ \A x \in Threads : x = Main \/ x \in Scheds
  /\ NoCo \notin Cos
BY SchedulerAssumption DEF Scheds, Threads, Main, Nobody

\* Sets of threads and of coroutines are finite.
LEMMA Finite ==
  /\ \A S : S \subseteq Threads => IsFiniteSet(S) /\ Cardinality(S) \in Nat
  /\ \A S : S \subseteq Scheds => IsFiniteSet(S) /\ Cardinality(S) \in Nat
  /\ \A S : S \subseteq Cos => /\ IsFiniteSet(S) /\ Cardinality(S) \in Nat
                             /\ Cardinality(S) <= Cardinality(Cos)
<1>1. IsFiniteSet(Scheds)  BY FS_Interval, ThreadFacts DEF Scheds
<1>2. IsFiniteSet(Threads)  BY <1>1, FS_AddElement DEF Threads
<1>3. IsFiniteSet(Cos)  BY SchedulerAssumption
<1> QED  BY <1>1, <1>2, <1>3, FS_Subset, FS_CardinalityType

\* What __list_add of a new entry makes of a queue: it holds nothing else
\* that is new, and nothing twice.
LEMMA LinkedEffect ==
  ASSUME NEW queue \in Seq(Cos), NEW prev \in Cos \cup {NoCo}, NEW c \in Cos,
         NoneTwice(queue), \A i \in DOMAIN queue : queue[i] # c
  PROVE  /\ Linked(queue, prev, c) \in Seq(Cos)
         /\ NoneTwice(Linked(queue, prev, c))
         /\ \A i \in DOMAIN Linked(queue, prev, c) :
              \/ Linked(queue, prev, c)[i] = c
              \/ \E j \in DOMAIN queue : Linked(queue, prev, c)[i] = queue[j]
<1>1. CASE prev = NoCo
  <2>1. Linked(queue, prev, c) = <<c>>  BY <1>1 DEF Linked
  <2> QED  BY <2>1 DEF NoneTwice
<1>2. CASE prev # NoCo /\ \E i \in DOMAIN queue : queue[i] = prev
  <2> DEFINE n == CHOOSE i \in DOMAIN queue : queue[i] = prev
             first == SubSeq(queue, 1, n)
             new == Append(first, c)
  <2>1. n \in 1 .. Len(queue)  BY <1>2
  <2>2. Linked(queue, prev, c) = new  BY <1>2 DEF Linked
  <2> HIDE DEF n
  <2>3. first \in Seq(Cos) /\ Len(first) = n /\ \A i \in 1 .. n : first[i] = queue[i]
    BY <2>1, SubSeqProperties
  <2> HIDE DEF first
  <2>4. /\ new \in Seq(Cos) /\ Len(new) = n + 1 /\ new[n + 1] = c
        /\ \A i \in 1 .. n : new[i] = queue[i]
    BY <2>1, <2>3, AppendProperties
  <2>5. DOMAIN new = 1 .. n + 1 /\ DOMAIN queue = 1 .. Len(queue) /\ n \in Nat
    BY <2>1, <2>4
  <2> HIDE DEF new
  <2>6. NoneTwice(new)
    <3> SUFFICES ASSUME NEW i \in 1 .. n + 1, NEW j \in 1 .. n + 1, new[i] = new[j]
                 PROVE  i = j
      BY <2>5 DEF NoneTwice
    <3>1. CASE i \in 1 .. n /\ j \in 1 .. n
      BY <3>1, <2>1, <2>4, <2>5 DEF NoneTwice
    <3>2. CASE i = n + 1 /\ j \in 1 .. n
      BY <3>2, <2>1, <2>4, <2>5
    <3>3. CASE j = n + 1 /\ i \in 1 .. n
      BY <3>3, <2>1, <2>4, <2>5
    <3> QED  BY <3>1, <3>2, <3>3, <2>5
  <2>7. \A i \in DOMAIN new : new[i] = c \/ \E j \in DOMAIN queue : new[i] = queue[j]
    <3> SUFFICES ASSUME NEW i \in 1 .. n + 1, i # n + 1
                 PROVE  \E j \in DOMAIN queue : new[i] = queue[j]
      BY <2>4, <2>5
    <3>1. i \in 1 .. n /\ i \in DOMAIN queue  BY <2>1, <2>5
    <3> QED  BY <3>1, <2>4
  <2> QED  BY <2>2, <2>4, <2>6, <2>7
<1>3. CASE prev # NoCo /\ ~\E i \in DOMAIN queue : queue[i] = prev
  <2>1. Linked(queue, prev, c) = queue  BY <1>3 DEF Linked
  <2> QED  BY <2>1
<1> QED  BY <1>1, <1>2, <1>3

----------------------------------------------------------------------------
(* What a step does to the program locations, the places and the counts.   *)

\* A signal may move a thread that waits.
Woken(y) ==
  \/ pc'[y] = pc[y]
  \/ pc[y] = "wait" /\ pc'[y] = "check"
  \/ pc[y] = "waitgroup" /\ pc'[y] = "join"

\* Thread x goes to step, the others are at most woken.
Moves(x, step) == pc'[x] = step /\ \A y \in Threads \ {x} : Woken(y)

\* The assignments to pc.
LEMMA GotoMoves ==
  ASSUME TypeOK, NEW x \in Threads, NEW step, Goto(x, step)
  PROVE  /\ Moves(x, step) /\ DOMAIN pc' = Threads
         /\ \A y \in Threads \ {x} : pc'[y] = pc[y]
BY DEF TypeOK, Goto, Moves, Woken

\* The same with a signal to scheduler s.
LEMMA SignalMoves ==
  ASSUME TypeOK, NEW x \in Threads, NEW step, NEW s \in Scheds, step # "wait",
         GotoAndSignal(x, step, s)
  PROVE  /\ Moves(x, step) /\ DOMAIN pc' = Threads
         /\ pc'[s] # "wait"
         /\ \A y \in Threads \ {x, s} : pc'[y] = pc[y]
BY ThreadFacts DEF GotoAndSignal, Moves, Woken

\* Program locations keep their type.
LEMMA PcType ==
  ASSUME TypeOK, NEW x \in Threads, NEW step, Moves(x, step),
         x = Main => step \in MainSteps, x # Main => step \in SchedSteps
  PROVE  pc'[Main] \in MainSteps /\ \A s \in Scheds : pc'[s] \in SchedSteps
<1>1. pc'[Main] \in MainSteps
  BY ThreadFacts DEF TypeOK, Moves, Woken, MainSteps, Submitting
<1>2. ASSUME NEW s \in Scheds  PROVE pc'[s] \in SchedSteps
  <2>1. pc[s] \in SchedSteps /\ s \in Threads /\ s # Main  BY ThreadFacts DEF TypeOK
  <2>2. CASE s = x  BY <2>1, <2>2 DEF Moves
  <2>3. CASE s # x  BY <2>1, <2>3 DEF Moves, Woken, SchedSteps, Submitting
  <2> QED  BY <2>2, <2>3
<1> QED  BY <1>1, <1>2

\* If no coroutine gets to a new place, each is still in one.
LEMMA StayOne ==
  ASSUME OneAt,
         \A c \in Cos, k \in Kinds, x \in Threads : At(c, k, x)' => At(c, k, x)
  PROVE  OneAt'
BY DEF OneAt

\* Coroutine c0 moves to one place, no other gets to a new one.
Moved(c0, k0, x0) ==
  /\ \A c \in Cos \ {c0}, k \in Kinds, x \in Threads : At(c, k, x)' => At(c, k, x)
  /\ \A k \in Kinds, x \in Threads : At(c0, k, x)' => k = k0 /\ x = x0

\* If one coroutine moves to one place, each is still in one.
LEMMA MoveOne ==
  ASSUME OneAt, NEW c0, NEW k0, NEW x0, Moved(c0, k0, x0)
  PROVE  OneAt'
<1> USE DEF Moved
<1> SUFFICES ASSUME NEW c \in Cos, NEW k \in Kinds, NEW l \in Kinds,
                    NEW x \in Threads, NEW y \in Threads, At(c, k, x)', At(c, l, y)'
             PROVE  k = l /\ x = y
  BY DEF OneAt
<1>1. CASE c = c0  BY <1>1
<1>2. CASE c # c0
  <2>1. At(c, k, x) /\ At(c, l, y)  BY <1>2
  <2> QED  BY <2>1 DEF OneAt
<1> QED  BY <1>1, <1>2

Done == {s \in Scheds : pc[s] = "done"}
Known == {c \in Unfinished : ~Turning(c)}
Submitters == {x \in Threads : pc[x] \in {"turn", "add", "submit"}}
Counted == {p \in Scheds \X (1 .. Cardinality(Cos)) : p[2] <= co_nums[p[1]]}

\* The counters with these names.
LEMMA CountersNamed ==
  CountersAgree <=> /\ wg = Cardinality(Known) + Cardinality(Done)
                    /\ Cardinality(Unfinished) = Cardinality(Counted) + Cardinality(Submitters)
BY DEF CountersAgree, Done, Submitters, Submitting, Counted, Known

\* The sets counted are finite.
LEMMA CountedFinite ==
  /\ IsFiniteSet(Done) /\ Cardinality(Done) \in Nat
  /\ IsFiniteSet(Submitters) /\ Cardinality(Submitters) \in Nat
  /\ IsFiniteSet(Unfinished) /\ Cardinality(Unfinished) \in Nat
  /\ Cardinality(Unfinished) <= Cardinality(Cos)
  /\ IsFiniteSet(Known) /\ Cardinality(Known) \in Nat
  /\ IsFiniteSet(Counted) /\ Cardinality(Counted) \in Nat
<1>1. /\ Done \subseteq Scheds /\ Submitters \subseteq Threads
      /\ Unfinished \subseteq Cos /\ Known \subseteq Cos
  BY DEF Done, Submitters, Unfinished, Known
<1>2. IsFiniteSet(Scheds) /\ IsFiniteSet(Cos) /\ Cardinality(Cos) \in Nat  BY Finite
<1>3. IsFiniteSet(1 .. Cardinality(Cos))  BY <1>2, FS_Interval
<1>4. IsFiniteSet(Scheds \X (1 .. Cardinality(Cos)))  BY <1>2, <1>3, FS_Product
<1>5. IsFiniteSet(Counted)  BY <1>4, FS_Subset DEF Counted
<1>6. Cardinality(Counted) \in Nat  BY <1>5, FS_CardinalityType
<1> QED  BY <1>1, <1>5, <1>6, Finite

\* Steps that neither move a coroutine nor count one: what they keep. co_curr
\* of a scheduler that runs nothing may change.
Quiet ==
  /\ UNCHANGED <<ready, timers, co_nums, append, coVars, wg>>
  /\ DOMAIN co_curr' = Scheds
  /\ \A s \in Scheds : co_curr'[s] = co_curr[s] \/ pc'[s] \notin Running \cup {"yield"}

Passive == {"create", "join", "waitgroup", "stop", "signal", "pthread_join", "destroy",
            "shutdown", "start", "loop", "check", "wait", "pick", "timers", "exit", "dead"}

\* A quiet step between passive locations.
LEMMA QuietStep ==
  ASSUME IInv, NEW x \in Threads, NEW step \in Passive, pc[x] \in Passive,
         Moves(x, step), Quiet
  PROVE  PlaceInv' /\ StepInv' /\ CountInv' /\ CountersAgree' /\ Unfinished' = Unfinished
<1> USE DEF IInv
<1>1. \A y \in Threads : \A step2 \in {"turn", "add", "submit", "yield", "resume", "run", "done"} :
        pc'[y] = step2 <=> pc[y] = step2
  BY DEF Moves, Woken, Passive
<1>2. UNCHANGED <<ready, timers, co_nums, append, costatus, life, left, wg>>
  BY DEF Quiet, coVars
<1>3. Unfinished' = Unfinished  BY <1>2 DEF Unfinished
<1>4. \A s \in Scheds : pc'[s] \in Running \cup {"yield"} =>
        pc[s] = pc'[s] /\ co_curr'[s] = co_curr[s]
  BY <1>1, ThreadFacts DEF Quiet
<1>5. \A c \in Cos, k \in Kinds, y \in Threads : At(c, k, y)' => At(c, k, y)
  BY <1>2, <1>4 DEF At, InReady
<1>6. PlaceInv'
  <2>1. OneAt'  BY <1>5, StayOne DEF PlaceInv
  <2>2. AtLife'  BY <1>3, <1>5 DEF PlaceInv, AtLife
  <2>3. Distinct'  BY <1>2 DEF PlaceInv, Distinct
  <2> QED  BY <2>1, <2>2, <2>3 DEF PlaceInv
<1>7. StepInv'  BY <1>1, <1>2, <1>4, ThreadFacts DEF StepInv
<1>8. CountInv'
  <2> SUFFICES ASSUME NEW s \in Scheds
               PROVE  Cardinality(Mine(s)') <= co_nums[s] /\ co_nums[s] <= Cardinality(Cos)
    BY <1>2 DEF CountInv
  <2>1. Mine(s)' \subseteq Mine(s)
    BY <1>1, <1>2, <1>4, ThreadFacts DEF Mine, InReady
  <2>2. IsFiniteSet(Mine(s)) /\ Cardinality(Mine(s)) \in Nat  BY Finite DEF Mine
  <2>3. Cardinality(Mine(s)') <= Cardinality(Mine(s)) /\ Cardinality(Mine(s)') \in Nat
    BY <2>1, <2>2, FS_Subset, FS_CardinalityType
  <2>4. co_nums[s] \in Nat  BY DEF TypeOK
  <2> QED  BY <2>2, <2>3, <2>4 DEF CountInv
<1>9. CountersAgree'
  <2>1. Done' = Done /\ Submitters' = Submitters /\ Counted' = Counted
    BY <1>1, <1>2, ThreadFacts DEF Done, Submitters, Counted
  <2>2. Known' = Known  BY <1>1, <1>2, <1>3 DEF Known, Turning
  <2> QED  BY <1>2, <1>3, <2>1, <2>2 DEF CountersAgree, Done, Submitters, Submitting, Counted, Known
<1> QED  BY <1>3, <1>6, <1>7, <1>8, <1>9

----------------------------------------------------------------------------
(* The steps that move no coroutine.                                       *)

\* WaitInv and LockInv for a step that takes and releases no lock.
LEMMA QuietLocks ==
  ASSUME IInv, NEW x \in Threads, NEW step, Moves(x, step),
         step \notin {"submit", "yield", "signal", "wait"},
         UNCHANGED <<lock, co_nums, append, status>>, joined' = joined
  PROVE  LockInv' /\ WaitInv'
<1> USE DEF IInv
<1>1. \A y \in Threads : \A step2 \in {"submit", "yield", "signal", "wait"} :
        pc'[y] = step2 => pc[y] = step2
  BY DEF Moves, Woken
<1>2. LockInv'  BY <1>1, ThreadFacts DEF LockInv
<1>3. WaitInv'  BY <1>1, ThreadFacts DEF WaitInv
<1> QED  BY <1>2, <1>3

\* A thread of a scheduler starts.
LEMMA SchedStartIInv ==
  ASSUME IInv, NEW s \in Scheds, SchedStart(s)  PROVE IInv'
<1> USE DEF IInv
<1>0. /\ UNCHANGED <<ready, tail, timers, co_nums, co_curr, lock, stack, freed, append,
                     costatus, life, left, p_turn, wg, joined, fault>>
      /\ pc[s] = "start" /\ status' = [status EXCEPT ![s] = "RUNNING"]
      /\ unstopped' \subseteq Scheds
  BY DEF SchedStart, coVars, TypeOK
<1>1. /\ Moves(s, "loop") /\ DOMAIN pc' = Threads
      /\ \A y \in Threads \ {s} : pc'[y] = pc[y]
  BY GotoMoves, ThreadFacts DEF SchedStart
<1>2. Quiet  BY <1>0 DEF Quiet, coVars, TypeOK
<1>3. PlaceInv' /\ StepInv' /\ CountInv' /\ CountersAgree' /\ Unfinished' = Unfinished
  BY <1>0, <1>1, <1>2, QuietStep, ThreadFacts DEF Passive
<1>4. TypeOK'
  <2>1. pc'[Main] \in MainSteps /\ \A r \in Scheds : pc'[r] \in SchedSteps
    BY <1>1, PcType, ThreadFacts DEF SchedSteps, Submitting
  <2> QED  BY <1>0, <1>1, <2>1 DEF TypeOK
<1>5. LockInv'  BY <1>0, <1>1, ThreadFacts DEF LockInv, Moves
<1>6. StopInv'
  BY <1>0, <1>1, <1>3, ThreadFacts DEF StopInv, Stopping, Moves, TypeOK
<1>7. WaitInv'
  BY <1>0, <1>1, ThreadFacts DEF WaitInv, Moves, TypeOK
<1> QED  BY <1>3, <1>4, <1>5, <1>6, <1>7

\* Steps of a scheduler's thread that change nothing but where it is: the
\* tests of main_loop, a wakeup, the end of the event loop.
LEMMA SchedTestIInv ==
  ASSUME IInv, NEW s \in Scheds,
         LoopTest(s) \/ CheckCoNums(s) \/ SchedSpuriousWakeup(s) \/ TimersEnd(s)
  PROVE  IInv'
<1> USE DEF IInv
<1>0. UNCHANGED <<status, ready, tail, timers, co_nums, co_curr, lock, stack, freed, append,
                  costatus, life, left, p_turn, wg, joined, unstopped, fault>>
  BY DEF LoopTest, CheckCoNums, SchedSpuriousWakeup, TimersEnd, schedVars, coVars, procVars
<1>1. PICK step \in {"loop", "check", "exit", "pick", "wait"} :
        /\ Goto(s, step) /\ pc[s] \in {"loop", "check", "wait", "timers"}
        /\ step = "exit" => status[s] # "RUNNING"
        /\ step = "wait" => co_nums[s] = 0 /\ status[s] = "RUNNING"
  BY DEF LoopTest, CheckCoNums, SchedSpuriousWakeup, TimersEnd, AfterCheck
<1>2. /\ Moves(s, step) /\ DOMAIN pc' = Threads
      /\ \A y \in Threads \ {s} : pc'[y] = pc[y]
  BY <1>1, GotoMoves, ThreadFacts
<1>3. Quiet  BY <1>0 DEF Quiet, coVars, TypeOK
<1>4. PlaceInv' /\ StepInv' /\ CountInv' /\ CountersAgree' /\ Unfinished' = Unfinished
  BY <1>1, <1>2, <1>3, QuietStep, ThreadFacts DEF Passive
<1>5. TypeOK'
  <2>1. pc'[Main] \in MainSteps /\ \A r \in Scheds : pc'[r] \in SchedSteps
    BY <1>1, <1>2, PcType, ThreadFacts DEF SchedSteps, Submitting
  <2> QED  BY <1>0, <1>2, <2>1 DEF TypeOK
<1>6. LockInv'  BY <1>0, <1>1, <1>2, ThreadFacts DEF LockInv, Moves
<1>7. StopInv'
  <2>1. Stopping' <=> Stopping  BY <1>2, ThreadFacts DEF Stopping
  <2>2. step = "exit" => Stopping  BY <1>1, ThreadFacts DEF StopInv, TypeOK
  <2> QED  BY <1>0, <1>1, <1>2, <1>4, <2>1, <2>2, ThreadFacts DEF StopInv, Moves
<1>8. WaitInv'
  BY <1>0, <1>1, <1>2, ThreadFacts DEF WaitInv, Moves
<1> QED  BY <1>4, <1>5, <1>6, <1>7, <1>8

\* pick_one_co finds nothing.
LEMMA PickNoneIInv ==
  ASSUME IInv, NEW s \in Scheds, PickNone(s)  PROVE IInv'
<1> USE DEF IInv
<1>0. /\ UNCHANGED <<status, ready, tail, timers, co_nums, lock, stack, freed, append,
                     costatus, life, left, p_turn, wg, joined, unstopped, fault>>
      /\ pc[s] = "pick" /\ co_curr' = [co_curr EXCEPT ![s] = NoCo]
  BY DEF PickNone, coVars, procVars
<1>1. /\ Moves(s, "timers") /\ DOMAIN pc' = Threads
      /\ \A y \in Threads \ {s} : pc'[y] = pc[y]
  BY GotoMoves, ThreadFacts DEF PickNone
<1>2. Quiet  BY <1>0, <1>1 DEF Quiet, coVars, TypeOK, Moves
<1>3. PlaceInv' /\ StepInv' /\ CountInv' /\ CountersAgree' /\ Unfinished' = Unfinished
  BY <1>0, <1>1, <1>2, QuietStep, ThreadFacts DEF Passive
<1>4. TypeOK'
  <2>1. pc'[Main] \in MainSteps /\ \A r \in Scheds : pc'[r] \in SchedSteps
    BY <1>1, PcType, ThreadFacts DEF SchedSteps, Submitting
  <2> QED  BY <1>0, <1>1, <2>1 DEF TypeOK
<1>5. LockInv' /\ WaitInv'  BY <1>0, <1>1, QuietLocks, ThreadFacts
<1>6. StopInv'
  BY <1>0, <1>1, <1>3, ThreadFacts DEF StopInv, Stopping, Moves
<1> QED  BY <1>3, <1>4, <1>5, <1>6

\* sched_exit.
LEMMA ExitIInv ==
  ASSUME IInv, NEW s \in Scheds, sched_exit(s)  PROVE IInv'
<1> USE DEF IInv
<1>0. /\ UNCHANGED <<status, ready, tail, timers, co_nums, co_curr, lock, stack, append,
                     costatus, life, left, p_turn, wg, joined, unstopped, fault>>
      /\ pc[s] = "exit" /\ freed' = freed \cup {s}
  BY DEF sched_exit, coVars, procVars
<1>1. /\ Moves(s, "dead") /\ DOMAIN pc' = Threads
      /\ \A y \in Threads \ {s} : pc'[y] = pc[y]
  BY GotoMoves, ThreadFacts DEF sched_exit
<1>2. Quiet  BY <1>0 DEF Quiet, coVars, TypeOK
<1>3. PlaceInv' /\ StepInv' /\ CountInv' /\ CountersAgree' /\ Unfinished' = Unfinished
  BY <1>0, <1>1, <1>2, QuietStep, ThreadFacts DEF Passive
<1>4. TypeOK'
  <2>1. pc'[Main] \in MainSteps /\ \A r \in Scheds : pc'[r] \in SchedSteps
    BY <1>1, PcType, ThreadFacts DEF SchedSteps, Submitting
  <2> QED  BY <1>0, <1>1, <2>1 DEF TypeOK
<1>5. LockInv' /\ WaitInv'  BY <1>0, <1>1, QuietLocks, ThreadFacts
<1>6. StopInv'
  BY <1>0, <1>1, <1>3, ThreadFacts DEF StopInv, Stopping, Moves
<1> QED  BY <1>3, <1>4, <1>5, <1>6

\* The main thread calls coroutine_loop, tests the wait group, is woken.
LEMMA MainTestIInv ==
  ASSUME IInv, CallLoop \/ wait_group_wait \/ MainSpuriousWakeup  PROVE IInv'
<1> USE DEF IInv
<1>0. UNCHANGED <<status, ready, tail, timers, co_nums, co_curr, lock, stack, freed, append,
                  costatus, life, left, p_turn, wg, joined, unstopped, fault>>
  BY DEF CallLoop, wait_group_wait, MainSpuriousWakeup, schedVars, coVars, procVars
<1>1. PICK step \in {"join", "waitgroup", "stop"} :
        /\ Goto(Main, step) /\ pc[Main] \in {"create", "join", "waitgroup"}
        /\ step = "stop" => wg = 0
  BY DEF CallLoop, wait_group_wait, MainSpuriousWakeup, AfterWgTest
<1>2. /\ Moves(Main, step) /\ DOMAIN pc' = Threads
      /\ \A y \in Threads \ {Main} : pc'[y] = pc[y]
  BY <1>1, GotoMoves, ThreadFacts
<1>3. Quiet  BY <1>0 DEF Quiet, coVars, TypeOK
<1>4. PlaceInv' /\ StepInv' /\ CountInv' /\ CountersAgree' /\ Unfinished' = Unfinished
  BY <1>1, <1>2, <1>3, QuietStep, ThreadFacts DEF Passive
<1>5. TypeOK'
  <2>1. pc'[Main] \in MainSteps /\ \A r \in Scheds : pc'[r] \in SchedSteps
    BY <1>1, <1>2, PcType, ThreadFacts DEF MainSteps, Submitting
  <2> QED  BY <1>0, <1>2, <2>1 DEF TypeOK
<1>6. LockInv' /\ WaitInv'  BY <1>0, <1>1, <1>2, QuietLocks, ThreadFacts
<1>7. StopInv'
  <2>1. ~Stopping  BY <1>1 DEF Stopping
  <2>2. step = "stop" => Unfinished = {}
    <3> SUFFICES ASSUME wg = 0, NEW c \in Unfinished  PROVE FALSE  BY <1>1
    <3>1. Cardinality(Known) = 0  BY CountersNamed, CountedFinite
    <3>2. Known = {}  BY <3>1, CountedFinite, FS_EmptySet
    <3>3. PICK x \in Threads : pc[x] = "turn"  BY <3>2 DEF Known, Turning
    <3>4. x \in Scheds  BY <1>1, <3>3, ThreadFacts
    <3>5. co_curr[x] \in Cos /\ At(co_curr[x], "running", x)  BY <3>3, <3>4 DEF StepInv, At
    <3>6. co_curr[x] \in Unfinished  BY <3>5 DEF PlaceInv, AtLife, Kinds
    <3>7. PICK y \in Threads : append[y].co = co_curr[x]  BY <3>2, <3>6 DEF Known, Turning
    <3>8. At(co_curr[x], "append", y)  BY <3>7 DEF At
    <3> QED  BY <3>5, <3>8 DEF PlaceInv, OneAt, Kinds
  <2> QED  BY <1>0, <1>1, <1>2, <1>4, <2>1, <2>2, ThreadFacts DEF StopInv, Moves, Stopping
<1> QED  BY <1>4, <1>5, <1>6, <1>7

\* sched_wakeup stores the status, with the lock.
LEMMA WakeupStopIInv ==
  ASSUME IInv, WakeupStop  PROVE IInv'
<1> USE DEF IInv
<1>0. /\ UNCHANGED <<ready, tail, timers, co_nums, co_curr, stack, freed, append,
                     costatus, life, left, p_turn, wg, joined, unstopped, fault>>
      /\ pc[Main] = "stop" /\ lock[joined] = Nobody
      /\ lock' = [lock EXCEPT ![joined] = Main]
      /\ status' = [status EXCEPT ![joined] = "STOPPED"]
  BY DEF WakeupStop, coVars, procVars
<1>1. /\ Moves(Main, "signal") /\ DOMAIN pc' = Threads
      /\ \A y \in Threads \ {Main} : pc'[y] = pc[y]
  BY GotoMoves, ThreadFacts DEF WakeupStop
<1>2. Quiet  BY <1>0 DEF Quiet, coVars, TypeOK
<1>3. PlaceInv' /\ StepInv' /\ CountInv' /\ CountersAgree' /\ Unfinished' = Unfinished
  BY <1>0, <1>1, <1>2, QuietStep, ThreadFacts DEF Passive
<1>4. TypeOK'
  <2>1. pc'[Main] \in MainSteps /\ \A r \in Scheds : pc'[r] \in SchedSteps
    BY <1>1, PcType, ThreadFacts DEF MainSteps, Submitting
  <2> QED  BY <1>0, <1>1, <2>1, ThreadFacts DEF TypeOK
<1>5. LockInv'
  <2>1. \A x \in Threads : pc'[x] \in {"submit", "yield"} => lock[append[x].to] = x
    BY <1>1 DEF LockInv, Moves
  <2>2. \A x \in Threads : append[x].to \in Scheds  BY DEF TypeOK
  <2> QED  BY <1>0, <1>1, <2>1, <2>2, ThreadFacts DEF LockInv, Moves, TypeOK
<1>6. StopInv'
  BY <1>0, <1>1, <1>3, ThreadFacts DEF StopInv, Stopping, Moves, TypeOK
<1>7. WaitInv'
  BY <1>0, <1>1, ThreadFacts DEF WaitInv, Moves, TypeOK
<1> QED  BY <1>3, <1>4, <1>5, <1>6, <1>7

\* It signals and unlocks.
LEMMA WakeupSignalIInv ==
  ASSUME IInv, WakeupSignal  PROVE IInv'
<1> USE DEF IInv
<1>0. /\ UNCHANGED <<status, ready, tail, timers, co_nums, co_curr, stack, freed, append,
                     costatus, life, left, p_turn, wg, joined, unstopped>>
      /\ pc[Main] = "signal" /\ lock[joined] = Main /\ joined \in Scheds
      /\ lock' = [lock EXCEPT ![joined] = Nobody]
      /\ fault' \in {fault, "sched"}
  BY DEF WakeupSignal, coVars, procVars, LockInv, TypeOK
<1>1. /\ Moves(Main, "pthread_join") /\ DOMAIN pc' = Threads
      /\ pc'[joined] # "wait"
      /\ \A y \in Threads \ {Main, joined} : pc'[y] = pc[y]
  BY <1>0, SignalMoves, ThreadFacts DEF WakeupSignal
<1>2. Quiet  BY <1>0 DEF Quiet, coVars, TypeOK
<1>3. PlaceInv' /\ StepInv' /\ CountInv' /\ CountersAgree' /\ Unfinished' = Unfinished
  BY <1>0, <1>1, <1>2, QuietStep, ThreadFacts DEF Passive
<1>4. TypeOK'
  <2>1. pc'[Main] \in MainSteps /\ \A r \in Scheds : pc'[r] \in SchedSteps
    BY <1>1, PcType, ThreadFacts DEF MainSteps, Submitting
  <2> QED  BY <1>0, <1>1, <2>1, ThreadFacts DEF TypeOK
<1>5. LockInv'
  <2>1. \A x \in Threads : pc'[x] \in {"submit", "yield"} => x # Main /\ lock[append[x].to] = x
    BY <1>1 DEF LockInv, Moves, Woken
  <2>2. \A x \in Threads : append[x].to \in Scheds  BY DEF TypeOK
  <2> QED  BY <1>0, <1>1, <2>1, <2>2, ThreadFacts DEF LockInv, Moves, TypeOK
<1>6. StopInv'
  <2>1. \A r \in Scheds : /\ pc'[r] \in {"exit", "dead"} => pc[r] \in {"exit", "dead"}
                          /\ pc'[r] # "start" => pc[r] # "start"
    BY <1>1, ThreadFacts DEF Moves, Woken
  <2>2. Stopping /\ Stopping'  BY <1>0, <1>1 DEF Stopping, Moves
  <2> QED  BY <1>0, <1>3, <2>1, <2>2 DEF StopInv
<1>7. WaitInv'
  BY <1>0, <1>1, ThreadFacts DEF WaitInv, Moves, TypeOK
<1> QED  BY <1>3, <1>4, <1>5, <1>6, <1>7

\* The main thread joins a scheduler's thread, and then frees g_ps.
LEMMA JoinIInv ==
  ASSUME IInv, JoinThread \/ processors_destory  PROVE IInv'
<1> USE DEF IInv
<1>0. UNCHANGED <<status, ready, tail, timers, co_nums, co_curr, lock, stack, freed, append,
                  costatus, life, left, p_turn, wg, unstopped>>
  BY DEF JoinThread, processors_destory, schedVars, coVars, procVars
<1>1. PICK step \in {"stop", "destroy", "shutdown"} :
        /\ Goto(Main, step) /\ pc[Main] \in {"pthread_join", "destroy"}
        /\ joined' \in Scheds /\ fault' \in {fault, "g_ps"}
  <2>1. CASE JoinThread
    <3>1. CASE MoreScheds
      <4>1. joined + 1 \in Scheds  BY <3>1, ThreadFacts DEF MoreScheds, TypeOK, Scheds
      <4>2. Goto(Main, "stop") /\ joined' = joined + 1 /\ fault' = fault
        BY <2>1, <3>1 DEF JoinThread
      <4> QED  BY <2>1, <4>1, <4>2 DEF JoinThread
    <3>2. CASE ~MoreScheds
      <4>1. Goto(Main, "destroy") /\ joined' = joined /\ fault' = fault /\ joined \in Scheds
        BY <2>1, <3>2 DEF JoinThread, TypeOK
      <4> QED  BY <2>1, <4>1 DEF JoinThread
    <3> QED  BY <3>1, <3>2
  <2>2. CASE processors_destory
    BY <2>2 DEF processors_destory, procVars, TypeOK
  <2> QED  BY <2>1, <2>2
<1>2. /\ Moves(Main, step) /\ DOMAIN pc' = Threads
      /\ \A y \in Threads \ {Main} : pc'[y] = pc[y]
  BY <1>1, GotoMoves, ThreadFacts
<1>3. Quiet  BY <1>0 DEF Quiet, coVars, TypeOK
<1>4. PlaceInv' /\ StepInv' /\ CountInv' /\ CountersAgree' /\ Unfinished' = Unfinished
  BY <1>1, <1>2, <1>3, QuietStep, ThreadFacts DEF Passive
<1>5. TypeOK'
  <2>1. pc'[Main] \in MainSteps /\ \A r \in Scheds : pc'[r] \in SchedSteps
    BY <1>1, <1>2, PcType, ThreadFacts DEF MainSteps, Submitting
  <2> QED  BY <1>0, <1>1, <1>2, <2>1 DEF TypeOK
<1>6. LockInv'  BY <1>0, <1>1, <1>2, ThreadFacts DEF LockInv, Moves
<1>7. StopInv'
  BY <1>0, <1>1, <1>2, <1>4, ThreadFacts DEF StopInv, Stopping, Moves
<1>8. WaitInv'
  BY <1>0, <1>1, <1>2, ThreadFacts DEF WaitInv, Moves
<1> QED  BY <1>4, <1>5, <1>6, <1>7, <1>8

----------------------------------------------------------------------------
(* Steps that move a coroutine.                                            *)

\* Linking a coroutine into the ready queue of s adds it to nothing else.
LEMMA LinkQueue ==
  ASSUME ready \in [Scheds -> Seq(Cos)], tail \in [Scheds -> Cos \cup {NoCo}], Distinct,
         NEW s \in Scheds, NEW prev \in Cos \cup {NoCo}, NEW c \in Cos,
         ~InReady(c, s), LinksBehind(s, prev, c)
  PROVE  /\ ready' \in [Scheds -> Seq(Cos)] /\ tail' \in [Scheds -> Cos \cup {NoCo}]
         /\ Distinct'
         /\ \A r \in Scheds \ {s} : ready'[r] = ready[r]
         /\ \A r \in Scheds : \A d : InReady(d, r)' => InReady(d, r) \/ (d = c /\ r = s)
<1> DEFINE new == Linked(ready[s], prev, c)
<1>1. ready \in [Scheds -> Seq(Cos)] /\ tail \in [Scheds -> Cos \cup {NoCo}]  OBVIOUS
<1>2. ready[s] \in Seq(Cos) /\ NoneTwice(ready[s]) /\ \A i \in DOMAIN ready[s] : ready[s][i] # c
  BY <1>1 DEF Distinct, InReady
<1>3. /\ new \in Seq(Cos) /\ NoneTwice(new)
      /\ \A i \in DOMAIN new : new[i] = c \/ \E j \in DOMAIN ready[s] : new[i] = ready[s][j]
  BY <1>2, LinkedEffect
<1>4. /\ ready' = [ready EXCEPT ![s] = new]
      /\ tail' = [tail EXCEPT ![s] = c] \/ tail' = tail
  BY DEF LinksBehind
<1> HIDE DEF new
<1>5. ready' \in [Scheds -> Seq(Cos)] /\ tail' \in [Scheds -> Cos \cup {NoCo}]
  BY <1>1, <1>3, <1>4
<1>6. ready'[s] = new /\ \A r \in Scheds \ {s} : ready'[r] = ready[r]  BY <1>1, <1>4
<1>7. Distinct'
  BY <1>3, <1>6 DEF Distinct
<1>8. ASSUME NEW r \in Scheds, NEW d, InReady(d, r)'
      PROVE  InReady(d, r) \/ (d = c /\ r = s)
  <2>1. CASE r = s
    BY <1>3, <1>6, <1>8, <2>1 DEF InReady
  <2>2. CASE r # s
    <3>1. ready'[r] = ready[r]  BY <1>6, <2>2
    <3> QED  BY <1>8, <3>1 DEF InReady
  <2> QED  BY <2>1, <2>2
<1> QED  BY <1>5, <1>6, <1>7, <1>8

\* The same in a typed state.
LEMMA LinkPlaces ==
  ASSUME TypeOK, Distinct, NEW s \in Scheds, NEW prev \in Cos \cup {NoCo}, NEW c \in Cos,
         ~InReady(c, s), LinksBehind(s, prev, c)
  PROVE  /\ ready' \in [Scheds -> Seq(Cos)] /\ tail' \in [Scheds -> Cos \cup {NoCo}]
         /\ Distinct'
         /\ \A r \in Scheds \ {s} : ready'[r] = ready[r]
         /\ \A r \in Scheds : \A d : InReady(d, r)' => InReady(d, r) \/ (d = c /\ r = s)
BY LinkQueue DEF TypeOK

\* No scheduler gets a coroutine, none counts one.
LEMMA MineShrinks ==
  ASSUME TypeOK, CountInv, co_nums' = co_nums, \A s \in Scheds : Mine(s)' \subseteq Mine(s)
  PROVE  CountInv'
<1> SUFFICES ASSUME NEW s \in Scheds
             PROVE  Cardinality(Mine(s)') <= co_nums[s] /\ co_nums[s] <= Cardinality(Cos)
  BY DEF CountInv
<1>1. IsFiniteSet(Mine(s)) /\ Cardinality(Mine(s)) \in Nat  BY Finite DEF Mine
<1>2. Mine(s)' \subseteq Mine(s)  OBVIOUS
<1>3. Cardinality(Mine(s)') <= Cardinality(Mine(s)) /\ Cardinality(Mine(s)') \in Nat
  BY <1>1, <1>2, FS_Subset, FS_CardinalityType
<1>4. co_nums[s] \in Nat  BY DEF TypeOK
<1> QED  BY <1>1, <1>3, <1>4 DEF CountInv

\* No thread gets to the read of p_turn or beyond it.
LEMMA KnownKept ==
  ASSUME Unfinished' = Unfinished,
         \A x \in Threads : /\ pc'[x] = "turn" <=> pc[x] = "turn"
                            /\ pc[x] = "turn" => append'[x] = append[x]
  PROVE  Known' = Known
BY DEF Known, Turning

\* No thread begins or ends to submit or to end a coroutine.
LEMMA CountersKept ==
  ASSUME CountersAgree, UNCHANGED <<co_nums, wg>>, Unfinished' = Unfinished,
         \A x \in Threads : /\ \A step \in {"turn", "add", "submit", "done"} :
                                 pc'[x] = step <=> pc[x] = step
                            /\ pc[x] = "turn" => append'[x] = append[x]
  PROVE  CountersAgree'
<1>0. Known' = Known  BY KnownKept
<1>1. Done' = Done /\ Submitters' = Submitters /\ Counted' = Counted /\ Known' = Known
  BY <1>0, ThreadFacts DEF Done, Submitters, Counted
<1>2. CountersAgree' <=> /\ wg' = Cardinality(Known') + Cardinality(Done')
                         /\ Cardinality(Unfinished') = Cardinality(Counted') + Cardinality(Submitters')
  BY DEF CountersAgree, Done, Submitters, Submitting, Counted, Known
<1> QED  BY <1>1, <1>2, CountersNamed

\* A scheduler that runs a coroutine runs an unfinished one, which is nowhere else.
LEMMA RunsOne ==
  ASSUME IInv, NEW s \in Scheds, pc[s] = "run"
  PROVE  /\ co_curr[s] \in Cos /\ co_curr[s] \in Unfinished /\ ~Stopping
         /\ At(co_curr[s], "running", s) /\ ~InReady(co_curr[s], s)
<1> USE DEF IInv
<1>1. co_curr[s] \in Cos  BY DEF StepInv
<1>2. At(co_curr[s], "running", s) /\ s \in Threads  BY ThreadFacts DEF At
<1>3. co_curr[s] \in Unfinished  BY <1>1, <1>2 DEF PlaceInv, AtLife, Kinds
<1>4. ~At(co_curr[s], "ready", s)  BY <1>1, <1>2 DEF PlaceInv, OneAt, Kinds
<1> QED  BY <1>1, <1>2, <1>3, <1>4 DEF At, StopInv

\* The first coroutine leaves the ready queue of s, the others stay.
LEMMA FirstLeaves ==
  ASSUME ready \in [Scheds -> Seq(Cos)], Distinct, NEW s \in Scheds, ready[s] # <<>>,
         NEW co, co = Head(ready[s]), ready' = [ready EXCEPT ![s] = Tail(ready[s])]
  PROVE  /\ co \in Cos /\ ready' \in [Scheds -> Seq(Cos)] /\ Distinct'
         /\ InReady(co, s) /\ ~InReady(co, s)'
         /\ \A r \in Scheds : \A d : InReady(d, r)' => InReady(d, r)
<1>1. ready[s] \in Seq(Cos) /\ NoneTwice(ready[s])  BY DEF Distinct
<1>2. /\ co \in Cos /\ co = ready[s][1] /\ 1 \in DOMAIN ready[s] /\ Tail(ready[s]) \in Seq(Cos)
      /\ \A i \in DOMAIN Tail(ready[s]) : /\ i + 1 \in DOMAIN ready[s] /\ i + 1 # 1
                                          /\ Tail(ready[s])[i] = ready[s][i + 1]
  <2>1. /\ co \in Cos /\ Tail(ready[s]) \in Seq(Cos)
        /\ Len(Tail(ready[s])) = Len(ready[s]) - 1
        /\ \A i \in 1 .. Len(Tail(ready[s])) : Tail(ready[s])[i] = ready[s][i + 1]
    BY <1>1, HeadTailProperties
  <2>2. Len(ready[s]) \in Nat /\ Len(ready[s]) >= 1 /\ DOMAIN ready[s] = 1 .. Len(ready[s])
    BY <1>1
  <2>3. DOMAIN Tail(ready[s]) = 1 .. Len(Tail(ready[s]))  BY <2>1
  <2> QED  BY <1>1, <2>1, <2>2, <2>3
<1>3. ready'[s] = Tail(ready[s]) /\ \A r \in Scheds \ {s} : ready'[r] = ready[r]
  OBVIOUS
<1>4. ready' \in [Scheds -> Seq(Cos)]  BY <1>2
<1>5. ASSUME NEW r \in Scheds, NEW d, InReady(d, r)'  PROVE InReady(d, r)
  <2>1. CASE r = s
    <3>1. PICK i \in DOMAIN Tail(ready[s]) : Tail(ready[s])[i] = d
      BY <1>3, <1>5, <2>1 DEF InReady
    <3>2. i + 1 \in DOMAIN ready[s] /\ ready[s][i + 1] = d  BY <1>2, <3>1
    <3> QED  BY <2>1, <3>2 DEF InReady
  <2>2. CASE r # s
    <3>1. ready'[r] = ready[r]  BY <1>3, <2>2
    <3> QED  BY <1>5, <3>1 DEF InReady
  <2> QED  BY <2>1, <2>2
<1>6. InReady(co, s) /\ ~InReady(co, s)' /\ NoneTwice(ready'[s])
  BY <1>1, <1>2, <1>3 DEF InReady, NoneTwice
<1>7. Distinct'  BY <1>3, <1>6 DEF Distinct
<1> QED  BY <1>2, <1>4, <1>5, <1>6, <1>7

\* pick_one_co takes the first coroutine and schedule runs it.
LEMMA PickIInv ==
  ASSUME IInv, NEW s \in Scheds, PickAndSchedule(s)  PROVE IInv'
<1> USE DEF IInv
<1> PICK co : co = Head(ready[s])  OBVIOUS
<1>0. /\ UNCHANGED <<status, timers, co_nums, lock, freed, append, left, p_turn, wg, joined, unstopped>>
      /\ pc[s] = "pick" /\ ready[s] # <<>>
      /\ ready' = [ready EXCEPT ![s] = Tail(ready[s])]
      /\ co_curr' = [co_curr EXCEPT ![s] = co]
      /\ life' = [life EXCEPT ![co] = "started"]
      /\ costatus' = [costatus EXCEPT ![co] = "RUNNABLE"]
  BY DEF PickAndSchedule, procVars
<1>1. /\ Moves(s, "run") /\ DOMAIN pc' = Threads
      /\ \A y \in Threads \ {s} : pc'[y] = pc[y]
  BY GotoMoves, ThreadFacts DEF PickAndSchedule
<1>2. /\ co \in Cos /\ ready' \in [Scheds -> Seq(Cos)] /\ Distinct'
      /\ InReady(co, s) /\ ~InReady(co, s)'
      /\ \A r \in Scheds : \A d : InReady(d, r)' => InReady(d, r)
  BY <1>0, FirstLeaves DEF TypeOK, PlaceInv
<1>3. /\ stack' \in [Scheds -> Cos \cup {NoCo}] /\ tail' \in [Scheds -> Cos \cup {NoCo}]
      /\ fault' \in {fault, "stack"}
  BY <1>2 DEF PickAndSchedule, TypeOK
<1>4. s \in Threads /\ At(co, "ready", s) /\ co \in Unfinished
  <2>1. At(co, "ready", s) /\ s \in Threads  BY <1>2, ThreadFacts DEF At
  <2> QED  BY <1>2, <2>1 DEF PlaceInv, AtLife, Kinds
<1>5. Unfinished' = Unfinished
  BY <1>0, <1>4 DEF Unfinished, TypeOK
<1>6. co_curr'[s] = co /\ \A r \in Scheds \ {s} : co_curr'[r] = co_curr[r]  BY <1>0 DEF TypeOK
<1>7. \A c \in Cos, k \in Kinds, x \in Threads :
         At(c, k, x)' => At(c, k, x) \/ (c = co /\ k = "running" /\ x = s)
  BY <1>0, <1>1, <1>2, <1>6 DEF At
<1>8. ASSUME NEW k \in Kinds, NEW x \in Threads, At(co, k, x)'
       PROVE  k = "running" /\ x = s
  <2>1. SUFFICES ASSUME At(co, k, x)  PROVE FALSE  BY <1>2, <1>7, <1>8
  <2>2. k = "ready" /\ x = s  BY <1>2, <1>4, <2>1 DEF PlaceInv, OneAt, Kinds
  <2> QED  BY <1>2, <1>8, <2>2 DEF At
<1>9. PlaceInv'
  <2>1. OneAt'
    <3>1. Moved(co, "running", s)  BY <1>7, <1>8 DEF Moved
    <3> QED  BY <3>1, MoveOne DEF PlaceInv
  <2>2. AtLife'  BY <1>4, <1>5, <1>7 DEF PlaceInv, AtLife
  <2> QED  BY <1>2, <2>1, <2>2 DEF PlaceInv
<1>10. TypeOK'
  <2>1. pc'[Main] \in MainSteps /\ \A r \in Scheds : pc'[r] \in SchedSteps
    BY <1>1, PcType, ThreadFacts DEF SchedSteps, Submitting
  <2>2. ready' \in [Scheds -> Seq(Cos)] /\ co_curr' \in [Scheds -> Cos \cup {NoCo}]
    BY <1>0, <1>2 DEF TypeOK
  <2>3. /\ costatus' \in [Cos -> {"RUNNABLE", "WAITING"}]
        /\ life' \in [Cos -> {"none", "new", "started", "done"}]
    BY <1>0, <1>2 DEF TypeOK
  <2> QED  BY <1>0, <1>1, <1>3, <2>1, <2>2, <2>3 DEF TypeOK
<1>11. StepInv'
  <2>1. co \in Cos  BY <1>2
  <2> QED  BY <1>0, <1>1, <1>6, <2>1, ThreadFacts DEF StepInv, Moves
<1>12. LockInv' /\ WaitInv'  BY <1>0, <1>1, QuietLocks, ThreadFacts
<1>13. StopInv'
  BY <1>0, <1>1, <1>5, ThreadFacts DEF StopInv, Stopping, Moves
<1>14. CountInv'
  <2>1. ASSUME NEW r \in Scheds, NEW c \in Cos, c \in Mine(r)'  PROVE c \in Mine(r)
    <3>1. CASE r = s  BY <1>0, <1>1, <1>2, <1>6, <2>1, <3>1 DEF Mine, Moves
    <3>2. CASE r # s
      <4>1. pc'[r] = pc[r] /\ co_curr'[r] = co_curr[r]  BY <1>1, <1>6, <3>2, ThreadFacts
      <4> QED  BY <1>0, <1>2, <2>1, <4>1 DEF Mine
    <3> QED  BY <3>1, <3>2
  <2>2. \A r \in Scheds : Mine(r)' \subseteq Mine(r)  BY <2>1 DEF Mine
  <2> QED  BY <1>0, <2>2, MineShrinks
<1>15. CountersAgree'
  BY <1>0, <1>1, <1>5, CountersKept DEF Moves
<1> QED  BY <1>9, <1>10, <1>11, <1>12, <1>13, <1>14, <1>15

\* schedule_yield_coroutine: what a yield and a sleep do.
LEMMA LeavesKeeps ==
  ASSUME IInv, NEW s \in Scheds, LeavesStack(s), co_curr[s] \in Cos, left[co_curr[s]] > 0,
         pc[s] \in {"run", "yield"}
  PROVE  /\ UNCHANGED <<status, co_nums, co_curr, stack, freed, life,
                        p_turn, wg, joined, unstopped, fault>>
         /\ Moves(s, "loop") /\ DOMAIN pc' = Threads
         /\ \A y \in Threads \ {s} : pc'[y] = pc[y]
         /\ pc'[Main] \in MainSteps /\ \A r \in Scheds : pc'[r] \in SchedSteps
         /\ costatus' \in [Cos -> {"RUNNABLE", "WAITING"}] /\ left' \in [Cos -> 0 .. Suspends]
         /\ StopInv' /\ Unfinished' = Unfinished
<1> USE DEF IInv
<1>0. /\ UNCHANGED <<status, co_nums, co_curr, stack, freed, life,
                     p_turn, wg, joined, unstopped, fault>>
      /\ left' = [left EXCEPT ![co_curr[s]] = left[co_curr[s]] - 1]
      /\ costatus' = [costatus EXCEPT ![co_curr[s]] = "WAITING"]
  BY DEF LeavesStack, procVars
<1>1. /\ Moves(s, "loop") /\ DOMAIN pc' = Threads
      /\ \A y \in Threads \ {s} : pc'[y] = pc[y]
  BY GotoMoves, ThreadFacts DEF LeavesStack
<1>2. pc'[Main] \in MainSteps /\ \A r \in Scheds : pc'[r] \in SchedSteps
  BY <1>1, PcType, ThreadFacts DEF SchedSteps, Submitting
<1>3. costatus' \in [Cos -> {"RUNNABLE", "WAITING"}] /\ left' \in [Cos -> 0 .. Suspends]
  <2>1. left[co_curr[s]] \in 0 .. Suspends  BY DEF TypeOK
  <2>2. left[co_curr[s]] - 1 \in 0 .. Suspends  BY <2>1, SchedulerAssumption
  <2> QED  BY <1>0, <2>2 DEF TypeOK
<1>4. Unfinished' = Unfinished  BY <1>0 DEF Unfinished
<1>5. StopInv'  BY <1>0, <1>1, <1>4, ThreadFacts DEF StopInv, Stopping, Moves
<1> QED  BY <1>0, <1>1, <1>2, <1>3, <1>4, <1>5

\* sched_yield_coroutine takes the lock and reads the last ready coroutine.
LEMMA YieldBeginIInv ==
  ASSUME IInv, NEW s \in Scheds, YieldBegin(s)  PROVE IInv'
<1> USE DEF IInv
<1> PICK co : co = co_curr[s]  OBVIOUS
<1>0. /\ UNCHANGED <<status, ready, tail, timers, co_nums, co_curr, stack, freed,
                     costatus, life, left, p_turn, wg, joined, unstopped, fault>>
      /\ pc[s] = "run" /\ left[co] > 0 /\ lock[s] = Nobody
      /\ lock' = [lock EXCEPT ![s] = s]
      /\ append' = [append EXCEPT ![s] = [co |-> co, to |-> s, prev |-> tail[s]]]
  BY DEF YieldBegin, MaySuspend, Begins, coVars, procVars
<1>1. /\ Moves(s, "yield") /\ DOMAIN pc' = Threads /\ s \in Threads /\ pc'[s] = "yield"
      /\ \A y \in Threads \ {s} : pc'[y] = pc[y]
  BY GotoMoves, ThreadFacts DEF YieldBegin, Moves
<1>2. co \in Cos /\ co \in Unfinished /\ At(co, "running", s)  BY <1>0, RunsOne
<1>3. /\ append'[s].co = co /\ append'[s].to = s
      /\ \A y \in Threads \ {s} : append'[y] = append[y]
  BY <1>0, <1>1 DEF TypeOK
<1>4. append' \in [Threads -> [co : Cos \cup {NoCo}, to : Scheds, prev : Cos \cup {NoCo}]]
  <2>1. tail[s] \in Cos \cup {NoCo}  BY DEF TypeOK
  <2>2. [co |-> co, to |-> s, prev |-> tail[s]] \in
          [co : Cos \cup {NoCo}, to : Scheds, prev : Cos \cup {NoCo}]
    BY <1>2, <2>1
  <2> QED  BY <1>0, <1>1, <2>2 DEF TypeOK
<1>5. /\ lock' \in [Scheds -> Threads \cup {Nobody}] /\ lock'[s] = s
      /\ \A r \in Scheds \ {s} : lock'[r] = lock[r]
  BY <1>0, <1>1 DEF TypeOK
<1>6. Unfinished' = Unfinished  BY <1>0 DEF Unfinished
<1>7. \A c \in Cos, k \in Kinds, x \in Threads :
        At(c, k, x)' => At(c, k, x) \/ (c = co /\ k = "append" /\ x = s)
  BY <1>0, <1>1, <1>3, ThreadFacts DEF At, InReady
<1>8. ASSUME NEW k \in Kinds, NEW x \in Threads, At(co, k, x)'
      PROVE  k = "append" /\ x = s
  <2>1. SUFFICES ASSUME At(co, k, x)  PROVE FALSE  BY <1>2, <1>7, <1>8
  <2>2. k = "running" /\ x = s  BY <1>1, <1>2, <2>1 DEF PlaceInv, OneAt, Kinds
  <2> QED  BY <1>1, <1>8, <2>2 DEF At
<1>9. PlaceInv'
  <2>1. OneAt'
    <3>1. Moved(co, "append", s)  BY <1>7, <1>8 DEF Moved
    <3> QED  BY <3>1, MoveOne DEF PlaceInv
  <2>2. AtLife'  BY <1>2, <1>6, <1>7 DEF PlaceInv, AtLife
  <2>3. Distinct'  BY <1>0 DEF PlaceInv, Distinct
  <2> QED  BY <2>1, <2>2, <2>3 DEF PlaceInv
<1>10. TypeOK'
  <2>1. pc'[Main] \in MainSteps /\ \A r \in Scheds : pc'[r] \in SchedSteps
    BY <1>1, PcType, ThreadFacts DEF SchedSteps, Submitting
  <2> QED  BY <1>0, <1>1, <1>4, <1>5, <2>1 DEF TypeOK
<1>11. StepInv'
  <2>1. co \in Cos /\ NoCo \notin Cos  BY <1>2, ThreadFacts
  <2>2. ASSUME NEW y \in Threads  PROVE append'[y].co # NoCo <=> pc'[y] \in Appending
    BY <1>1, <1>3, <2>1 DEF StepInv
  <2>3. ASSUME NEW r \in Scheds
        PROVE  /\ pc'[r] \in {"resume", "yield"} => append'[r].to = r
               /\ pc'[r] \in Running => co_curr'[r] \in Cos
               /\ pc'[r] = "yield" => append'[r].co = co_curr'[r] /\ left'[co_curr'[r]] > 0
    BY <1>0, <1>1, <1>3, ThreadFacts DEF StepInv
  <2> QED  BY <2>2, <2>3 DEF StepInv
<1>12. LockInv'
  <2>1. ASSUME NEW y \in Threads, pc'[y] \in {"submit", "yield"}  PROVE lock'[append'[y].to] = y
    <3>1. CASE y = s  BY <1>3, <1>5, <3>1
    <3>2. CASE y # s
      <4>1. pc[y] \in {"submit", "yield"} /\ append'[y] = append[y] /\ append[y].to \in Scheds
        BY <1>1, <1>3, <2>1, <3>2 DEF TypeOK
      <4>2. lock[append[y].to] = y  BY <4>1 DEF LockInv
      <4> QED  BY <1>0, <1>5, <4>1, <4>2, ThreadFacts
    <3> QED  BY <3>1, <3>2
  <2>2. pc'[Main] = "signal" => lock'[joined'] = Main
    <3> SUFFICES ASSUME pc'[Main] = "signal"  PROVE lock'[joined] = Main  BY <1>0
    <3>1. lock[joined] = Main /\ joined \in Scheds
      BY <1>1, ThreadFacts DEF LockInv, TypeOK
    <3> QED  BY <1>0, <1>5, <3>1, ThreadFacts
  <2> QED  BY <2>1, <2>2 DEF LockInv
<1>13. WaitInv'
  <2> SUFFICES ASSUME NEW r \in Scheds, pc'[r] = "wait"
               PROVE  co_nums[r] = 0 /\ (status[r] = "RUNNING" \/ lock'[r] = Main)
    BY <1>0 DEF WaitInv
  <2>1. r # s /\ pc[r] = "wait"  BY <1>1, ThreadFacts
  <2> QED  BY <1>5, <2>1 DEF WaitInv
<1>14. StopInv'  BY <1>0, <1>1, <1>6, ThreadFacts DEF StopInv, Stopping
<1>15. CountersAgree'  BY <1>0, <1>1, <1>3, <1>6, CountersKept
<1>16. CountInv'
  <2>1. ASSUME NEW r \in Scheds, NEW c \in Cos, c \in Mine(r)'  PROVE c \in Mine(r)
    <3>1. CASE r = s  BY <1>0, <1>1, <1>3, <2>1, <3>1 DEF Mine, InReady
    <3>2. CASE r # s
      <4>1. pc'[r] = pc[r] /\ append'[r] = append[r]  BY <1>1, <1>3, <3>2, ThreadFacts
      <4> QED  BY <1>0, <2>1, <4>1 DEF Mine, InReady
    <3> QED  BY <3>1, <3>2
  <2>2. \A r \in Scheds : Mine(r)' \subseteq Mine(r)  BY <2>1 DEF Mine
  <2> QED  BY <1>0, <2>2, MineShrinks
<1> QED  BY <1>9, <1>10, <1>11, <1>12, <1>13, <1>14, <1>15, <1>16

\* sched_delay.
LEMMA DelayIInv ==
  ASSUME IInv, NEW s \in Scheds, sched_delay(s)  PROVE IInv'
<1> USE DEF IInv
<1> PICK co : co = co_curr[s]  OBVIOUS
<1>0. UNCHANGED <<lock, append>> /\ pc[s] = "run" /\ LeavesStack(s) /\ left[co] > 0
  BY DEF sched_delay, MaySuspend
<1>1. /\ co \in Cos /\ co \in Unfinished /\ At(co, "running", s) /\ s \in Threads
  BY <1>0, RunsOne, ThreadFacts
<1>9. /\ UNCHANGED <<status, co_nums, co_curr, stack, freed, life,
                     p_turn, wg, joined, unstopped, fault>>
      /\ Moves(s, "loop") /\ DOMAIN pc' = Threads
      /\ \A y \in Threads \ {s} : pc'[y] = pc[y]
      /\ pc'[Main] \in MainSteps /\ \A r \in Scheds : pc'[r] \in SchedSteps
      /\ costatus' \in [Cos -> {"RUNNABLE", "WAITING"}] /\ left' \in [Cos -> 0 .. Suspends]
      /\ StopInv' /\ Unfinished' = Unfinished
  BY <1>0, <1>1, LeavesKeeps
<1>10. StepInv'
  <2>1. ASSUME NEW r \in Scheds, pc'[r] = "yield"
        PROVE  append'[r].co = co_curr'[r] /\ left'[co_curr'[r]] > 0
    <3>1. r # s /\ pc[r] = "yield"  BY <1>9, <2>1, ThreadFacts DEF Moves
    <3>2. append[r].co = co_curr[r] /\ left[co_curr[r]] > 0 /\ co_curr[r] \in Cos
      <4>1. append[r].co \in Cos \cup {NoCo} /\ append[r].co # NoCo
        BY <3>1, ThreadFacts DEF StepInv, TypeOK
      <4> QED  BY <3>1, <4>1 DEF StepInv
    <3>3. At(co_curr[r], "append", r)  BY <3>2, ThreadFacts DEF At
    <3>4. co_curr[r] # co  BY <1>1, <3>2, <3>3, ThreadFacts DEF PlaceInv, OneAt, Kinds
    <3> QED  BY <1>0, <1>9, <3>2, <3>4 DEF LeavesStack, TypeOK
  <2> QED  BY <1>0, <1>9, <2>1, ThreadFacts DEF StepInv, Moves
<1>11. LockInv' /\ WaitInv'  BY <1>0, <1>9, QuietLocks, ThreadFacts
<1>12. CountersAgree'  BY <1>0, <1>9, CountersKept DEF Moves
<1>2. /\ UNCHANGED <<ready, tail>> /\ timers' = [timers EXCEPT ![s] = timers[s] \cup {co}]
  BY DEF sched_delay, co_timer_after
<1>3. timers' \in [Scheds -> SUBSET Cos] /\ timers'[s] = timers[s] \cup {co}
      /\ \A r \in Scheds \ {s} : timers'[r] = timers[r]
  BY <1>1, <1>2 DEF TypeOK
<1>4. \A c \in Cos, k \in Kinds, x \in Threads :
        At(c, k, x)' => At(c, k, x) \/ (c = co /\ k = "asleep" /\ x = s)
  BY <1>0, <1>9, <1>2, <1>3, ThreadFacts DEF At, Moves, InReady
<1>5. ASSUME NEW k \in Kinds, NEW x \in Threads, At(co, k, x)'
      PROVE  k = "asleep" /\ x = s
  <2>1. SUFFICES ASSUME At(co, k, x)  PROVE FALSE  BY <1>1, <1>4, <1>5
  <2>2. k = "running" /\ x = s  BY <1>1, <2>1 DEF PlaceInv, OneAt, Kinds
  <2> QED  BY <1>0, <1>9, <1>5, <2>2 DEF At, Moves
<1>6. PlaceInv'
  <2>1. OneAt'
    <3>1. Moved(co, "asleep", s)  BY <1>4, <1>5 DEF Moved
    <3> QED  BY <3>1, MoveOne DEF PlaceInv
  <2>2. AtLife'  BY <1>0, <1>9, <1>1, <1>4 DEF PlaceInv, AtLife
  <2>3. Distinct'  BY <1>2 DEF PlaceInv, Distinct
  <2> QED  BY <2>1, <2>2, <2>3 DEF PlaceInv
<1>7. TypeOK'  BY <1>0, <1>9, <1>2, <1>3 DEF TypeOK
<1>8. CountInv'
  <2>1. ASSUME NEW r \in Scheds, NEW c \in Cos, c \in Mine(r)'  PROVE c \in Mine(r)
    <3>1. CASE r = s  BY <1>0, <1>9, <1>2, <1>3, <2>1, <3>1 DEF Mine, Moves, InReady
    <3>2. CASE r # s
      <4>1. pc'[r] = pc[r]  BY <1>0, <1>9, <3>2, ThreadFacts
      <4> QED  BY <1>0, <1>9, <1>2, <1>3, <2>1, <3>2, <4>1 DEF Mine, InReady
    <3> QED  BY <3>1, <3>2
  <2>2. \A r \in Scheds : Mine(r)' \subseteq Mine(r)  BY <2>1 DEF Mine
  <2> QED  BY <1>0, <1>9, <2>2, MineShrinks
<1> QED  BY <1>9, <1>10, <1>11, <1>12, <1>6, <1>7, <1>8

\* A timer has expired: its coroutine is about to be appended.
LEMMA ResumeBeginIInv ==
  ASSUME IInv, NEW s \in Scheds, NEW co \in Cos, ResumeBegin(s, co)  PROVE IInv'
<1> USE DEF IInv
<1>0. /\ UNCHANGED <<status, ready, tail, co_nums, co_curr, lock, stack, freed, life, left,
                     p_turn, wg, joined, unstopped, fault>>
      /\ pc[s] = "timers" /\ co \in timers[s]
      /\ timers' = [timers EXCEPT ![s] = timers[s] \ {co}]
      /\ costatus' = [costatus EXCEPT ![co] = "RUNNABLE"]
      /\ append' = [append EXCEPT ![s] = [co |-> co, to |-> s, prev |-> tail[s]]]
  BY DEF ResumeBegin, procVars, WithoutTop, Begins
<1>1. /\ Moves(s, "resume") /\ DOMAIN pc' = Threads /\ s \in Threads
      /\ \A y \in Threads \ {s} : pc'[y] = pc[y]
  BY GotoMoves, ThreadFacts DEF ResumeBegin
<1>2. At(co, "asleep", s) /\ co \in Unfinished
  <2>1. At(co, "asleep", s)  BY <1>0 DEF At
  <2> QED  BY <1>1, <2>1 DEF PlaceInv, AtLife, Kinds
<1>3. /\ timers' \in [Scheds -> SUBSET Cos] /\ timers'[s] = timers[s] \ {co}
      /\ \A r \in Scheds \ {s} : timers'[r] = timers[r]
  BY <1>0 DEF TypeOK
<1>4. /\ append'[s].co = co /\ append'[s].to = s
      /\ \A y \in Threads \ {s} : append'[y] = append[y]
  BY <1>0, <1>1 DEF TypeOK
<1>5. append' \in [Threads -> [co : Cos \cup {NoCo}, to : Scheds, prev : Cos \cup {NoCo}]]
  <2>1. tail[s] \in Cos \cup {NoCo}  BY DEF TypeOK
  <2>2. [co |-> co, to |-> s, prev |-> tail[s]] \in
          [co : Cos \cup {NoCo}, to : Scheds, prev : Cos \cup {NoCo}]
    BY <2>1
  <2> QED  BY <1>0, <1>1, <2>2 DEF TypeOK
<1>6. Unfinished' = Unfinished  BY <1>0 DEF Unfinished
<1>7. \A c \in Cos, k \in Kinds, x \in Threads :
        At(c, k, x)' => At(c, k, x) \/ (c = co /\ k = "append" /\ x = s)
  BY <1>0, <1>1, <1>3, <1>4, ThreadFacts DEF At, Moves, InReady
<1>8. ASSUME NEW k \in Kinds, NEW x \in Threads, At(co, k, x)'
      PROVE  k = "append" /\ x = s
  <2>1. SUFFICES ASSUME At(co, k, x)  PROVE FALSE  BY <1>7, <1>8
  <2>2. k = "asleep" /\ x = s  BY <1>1, <1>2, <2>1 DEF PlaceInv, OneAt, Kinds
  <2> QED  BY <1>3, <1>8, <2>2 DEF At
<1>9. PlaceInv'
  <2>1. OneAt'
    <3>1. Moved(co, "append", s)  BY <1>7, <1>8 DEF Moved
    <3> QED  BY <3>1, MoveOne DEF PlaceInv
  <2>2. AtLife'  BY <1>2, <1>6, <1>7 DEF PlaceInv, AtLife
  <2>3. Distinct'  BY <1>0 DEF PlaceInv, Distinct
  <2> QED  BY <2>1, <2>2, <2>3 DEF PlaceInv
<1>10. TypeOK'
  <2>1. pc'[Main] \in MainSteps /\ \A r \in Scheds : pc'[r] \in SchedSteps
    BY <1>1, PcType, ThreadFacts DEF SchedSteps, Submitting
  <2>2. costatus' \in [Cos -> {"RUNNABLE", "WAITING"}]  BY <1>0 DEF TypeOK
  <2> QED  BY <1>0, <1>1, <1>3, <1>5, <2>1, <2>2 DEF TypeOK
<1>11. StepInv'  BY <1>0, <1>1, <1>4, ThreadFacts DEF StepInv, Moves
<1>12. LockInv'  BY <1>0, <1>1, <1>4, ThreadFacts DEF LockInv, Moves
<1>13. WaitInv'  BY <1>0, <1>1, ThreadFacts DEF WaitInv, Moves
<1>14. StopInv'  BY <1>0, <1>1, <1>6, ThreadFacts DEF StopInv, Stopping, Moves
<1>15. CountersAgree'  BY <1>0, <1>1, <1>6, CountersKept DEF Moves
<1>16. CountInv'
  <2>1. ASSUME NEW r \in Scheds, NEW c \in Cos, c \in Mine(r)'  PROVE c \in Mine(r)
    <3>1. CASE r = s  BY <1>0, <1>1, <1>3, <1>4, <2>1, <3>1 DEF Mine, Moves, InReady
    <3>2. CASE r # s
      <4>1. pc'[r] = pc[r] /\ append'[r] = append[r] /\ timers'[r] = timers[r]
        BY <1>1, <1>3, <1>4, <3>2, ThreadFacts
      <4> QED  BY <1>0, <2>1, <4>1 DEF Mine, InReady
    <3> QED  BY <3>1, <3>2
  <2>2. \A r \in Scheds : Mine(r)' \subseteq Mine(r)  BY <2>1 DEF Mine
  <2> QED  BY <1>0, <2>2, MineShrinks
<1> QED  BY <1>9, <1>10, <1>11, <1>12, <1>13, <1>14, <1>15, <1>16

\* The end of an append: the coroutine is in one queue or lost.
LEMMA EndPlaces ==
  ASSUME IInv, NEW x \in Threads, pc[x] \in {"submit", "yield", "resume"}, Ends(x),
         NEW co, co = append[x].co, NEW s, s = append[x].to,
         NEW step, step \notin Appending, Moves(x, step),
         step = "run" => pc[x] = "submit",
         UNCHANGED <<timers, co_curr, life>>
  PROVE  /\ co \in Cos /\ s \in Scheds /\ co \in Unfinished
         /\ ready' \in [Scheds -> Seq(Cos)] /\ tail' \in [Scheds -> Cos \cup {NoCo}]
         /\ append' \in [Threads -> [co : Cos \cup {NoCo}, to : Scheds, prev : Cos \cup {NoCo}]]
         /\ append'[x].co = NoCo /\ \A y \in Threads \ {x} : append'[y] = append[y]
         /\ \A r \in Scheds : \A d : InReady(d, r)' => InReady(d, r) \/ (d = co /\ r = s)
         /\ Unfinished' = Unfinished /\ PlaceInv'
<1> USE DEF IInv
<1>1. append[x] \in [co : Cos \cup {NoCo}, to : Scheds, prev : Cos \cup {NoCo}]  BY DEF TypeOK
<1>2. co \in Cos /\ s \in Scheds /\ append[x].prev \in Cos \cup {NoCo}
  <2>1. co # NoCo  BY DEF StepInv
  <2> QED  BY <1>1, <2>1
<1>3. At(co, "append", x) /\ co \in Unfinished
  <2>1. At(co, "append", x)  BY DEF At
  <2> QED  BY <1>2, <2>1 DEF PlaceInv, AtLife, Kinds
<1>4. ~InReady(co, s)
  <2>1. ~At(co, "ready", s) /\ s \in Threads  BY <1>2, <1>3, ThreadFacts DEF PlaceInv, OneAt, Kinds
  <2> QED  BY <1>2, <2>1 DEF At
<1>5. LinksBehind(s, append[x].prev, co) /\ append' = [append EXCEPT ![x] = NoAppend]
  BY DEF Ends
<1>6. /\ ready' \in [Scheds -> Seq(Cos)] /\ tail' \in [Scheds -> Cos \cup {NoCo}] /\ Distinct'
      /\ \A r \in Scheds : \A d : InReady(d, r)' => InReady(d, r) \/ (d = co /\ r = s)
  <2>1. PICK prev \in Cos \cup {NoCo} : LinksBehind(s, prev, co)  BY <1>2, <1>5
  <2> QED  BY <1>2, <1>4, <2>1, LinkPlaces DEF PlaceInv
<1>7. /\ append' \in [Threads -> [co : Cos \cup {NoCo}, to : Scheds, prev : Cos \cup {NoCo}]]
      /\ append'[x].co = NoCo /\ \A y \in Threads \ {x} : append'[y] = append[y]
  BY <1>5, ThreadFacts DEF TypeOK, NoAppend
<1>8. Unfinished' = Unfinished  BY DEF Unfinished
<1>9. \A y \in Threads : pc'[y] \in Running => pc[y] \in Running
  BY DEF Moves, Woken
<1>10. \A c \in Cos, k \in Kinds, y \in Threads :
         At(c, k, y)' => At(c, k, y) \/ (c = co /\ k = "ready" /\ y = s)
  BY <1>6, <1>7, <1>9, ThreadFacts DEF At
<1>11. ASSUME NEW k \in Kinds, NEW y \in Threads, At(co, k, y)'
       PROVE  k = "ready" /\ y = s
  <2>1. SUFFICES ASSUME At(co, k, y)  PROVE FALSE  BY <1>2, <1>10, <1>11
  <2>2. k = "append" /\ y = x  BY <1>2, <1>3, <2>1 DEF PlaceInv, OneAt, Kinds
  <2> QED  BY <1>2, <1>7, <1>11, <2>2, ThreadFacts DEF At
<1>12. PlaceInv'
  <2>1. OneAt'
    <3>1. Moved(co, "ready", s)  BY <1>10, <1>11 DEF Moved
    <3> QED  BY <3>1, MoveOne DEF PlaceInv
  <2>2. AtLife'  BY <1>3, <1>8, <1>10 DEF PlaceInv, AtLife
  <2> QED  BY <1>6, <2>1, <2>2 DEF PlaceInv
<1> QED  BY <1>2, <1>3, <1>6, <1>7, <1>8, <1>12

\* sched_co_resume links its coroutine.
LEMMA ResumeEndIInv ==
  ASSUME IInv, NEW s \in Scheds, ResumeEnd(s)  PROVE IInv'
<1> USE DEF IInv
<1> PICK co : co = append[s].co  OBVIOUS
<1>0. /\ UNCHANGED <<status, timers, co_nums, co_curr, lock, stack, freed,
                     costatus, life, left, p_turn, wg, joined, unstopped, fault>>
      /\ pc[s] = "resume" /\ Ends(s) /\ append[s].to = s
  BY DEF ResumeEnd, coVars, procVars, StepInv
<1>1. /\ Moves(s, "timers") /\ DOMAIN pc' = Threads /\ s \in Threads
      /\ \A y \in Threads \ {s} : pc'[y] = pc[y]
  BY GotoMoves, ThreadFacts DEF ResumeEnd
<1>2. /\ co \in Cos /\ co \in Unfinished
      /\ ready' \in [Scheds -> Seq(Cos)] /\ tail' \in [Scheds -> Cos \cup {NoCo}]
      /\ append' \in [Threads -> [co : Cos \cup {NoCo}, to : Scheds, prev : Cos \cup {NoCo}]]
      /\ append'[s].co = NoCo /\ \A y \in Threads \ {s} : append'[y] = append[y]
      /\ \A r \in Scheds : \A d : InReady(d, r)' => InReady(d, r) \/ (d = co /\ r = s)
      /\ Unfinished' = Unfinished /\ PlaceInv'
  BY <1>0, <1>1, EndPlaces
<1>3. TypeOK'
  <2>1. pc'[Main] \in MainSteps /\ \A r \in Scheds : pc'[r] \in SchedSteps
    BY <1>1, PcType, ThreadFacts DEF SchedSteps, Submitting
  <2> QED  BY <1>0, <1>1, <1>2, <2>1 DEF TypeOK
<1>4. StepInv'
  <2>1. \A y \in Threads \ {s} : append'[y] = append[y] /\ pc'[y] = pc[y]  BY <1>1, <1>2
  <2>2. append'[s].co = NoCo /\ pc'[s] = "timers" /\ co_curr' = co_curr /\ left' = left
    BY <1>0, <1>1, <1>2 DEF Moves
  <2> QED  BY <2>1, <2>2, ThreadFacts DEF StepInv
<1>5. LockInv'  BY <1>0, <1>1, <1>2, ThreadFacts DEF LockInv, Moves
<1>6. WaitInv'  BY <1>0, <1>1, ThreadFacts DEF WaitInv, Moves
<1>7. StopInv'  BY <1>0, <1>1, <1>2, ThreadFacts DEF StopInv, Stopping, Moves
<1>8. CountersAgree'  BY <1>0, <1>1, <1>2, CountersKept DEF Moves
<1>9. CountInv'
  <2>1. ASSUME NEW r \in Scheds, NEW c \in Cos, c \in Mine(r)'  PROVE c \in Mine(r)
    <3>1. CASE r = s  BY <1>0, <1>1, <1>2, <2>1, <3>1 DEF Mine, Moves
    <3>2. CASE r # s
      <4>1. pc'[r] = pc[r] /\ append'[r] = append[r]
        BY <1>1, <1>2, <3>2, ThreadFacts
      <4> QED  BY <1>0, <1>2, <2>1, <3>2, <4>1 DEF Mine
    <3> QED  BY <3>1, <3>2
  <2>2. \A r \in Scheds : Mine(r)' \subseteq Mine(r)  BY <2>1 DEF Mine
  <2> QED  BY <1>0, <2>2, MineShrinks
<1> QED  BY <1>2, <1>3, <1>4, <1>5, <1>6, <1>7, <1>8, <1>9

\* sched_yield_coroutine links the coroutine, unlocks and leaves it.
LEMMA YieldEndIInv ==
  ASSUME IInv, NEW s \in Scheds, YieldEnd(s)  PROVE IInv'
<1> USE DEF IInv
<1> PICK co : co = append[s].co  OBVIOUS
<1>0. /\ timers' = timers /\ lock' = [lock EXCEPT ![s] = Nobody]
      /\ pc[s] = "yield" /\ Ends(s) /\ LeavesStack(s)
      /\ append[s].to = s /\ lock[s] = s /\ s \in Threads
      /\ co = co_curr[s] /\ left[co] > 0
  BY ThreadFacts DEF YieldEnd, StepInv, LockInv
<1>1. co \in Cos /\ At(co, "append", s)
  <2>1. co \in Cos \cup {NoCo} /\ co # NoCo  BY <1>0 DEF StepInv, TypeOK
  <2> QED  BY <1>0, <2>1 DEF At
<1>2. /\ UNCHANGED <<status, co_nums, co_curr, stack, freed, life,
                     p_turn, wg, joined, unstopped, fault>>
      /\ Moves(s, "loop") /\ DOMAIN pc' = Threads
      /\ \A y \in Threads \ {s} : pc'[y] = pc[y]
      /\ pc'[Main] \in MainSteps /\ \A r \in Scheds : pc'[r] \in SchedSteps
      /\ costatus' \in [Cos -> {"RUNNABLE", "WAITING"}] /\ left' \in [Cos -> 0 .. Suspends]
      /\ StopInv' /\ Unfinished' = Unfinished
  BY <1>0, <1>1, LeavesKeeps
<1>3. /\ ready' \in [Scheds -> Seq(Cos)] /\ tail' \in [Scheds -> Cos \cup {NoCo}]
      /\ append' \in [Threads -> [co : Cos \cup {NoCo}, to : Scheds, prev : Cos \cup {NoCo}]]
      /\ append'[s].co = NoCo /\ \A y \in Threads \ {s} : append'[y] = append[y]
      /\ \A r \in Scheds : \A d : InReady(d, r)' => InReady(d, r) \/ (d = co /\ r = s)
      /\ PlaceInv'
  <2>1. UNCHANGED <<timers, co_curr, life>> /\ Moves(s, "loop") /\ pc[s] = "yield" /\ Ends(s)
    BY <1>0, <1>2
  <2>2. co = append[s].co /\ s = append[s].to /\ s \in Threads  BY <1>0
  <2> QED  BY <2>1, <2>2, EndPlaces
<1>4. /\ lock' \in [Scheds -> Threads \cup {Nobody}] /\ lock'[s] = Nobody
      /\ \A r \in Scheds \ {s} : lock'[r] = lock[r]
  BY <1>0 DEF TypeOK
<1>5. TypeOK'  BY <1>0, <1>2, <1>3, <1>4 DEF TypeOK
<1>6. StepInv'
  <2>1. ASSUME NEW y \in Threads  PROVE append'[y].co # NoCo <=> pc'[y] \in Appending
    BY <1>2, <1>3 DEF StepInv, Moves
  <2>2. ASSUME NEW r \in Scheds, pc'[r] = "yield"
        PROVE  append'[r].co = co_curr'[r] /\ left'[co_curr'[r]] > 0
    <3>1. r # s /\ pc[r] = "yield" /\ r \in Threads  BY <1>2, <2>2, ThreadFacts DEF Moves
    <3>2. append[r].co = co_curr[r] /\ left[co_curr[r]] > 0 /\ co_curr[r] \in Cos
      <4>1. append[r].co \in Cos \cup {NoCo} /\ append[r].co # NoCo
        BY <3>1 DEF StepInv, TypeOK
      <4> QED  BY <3>1, <4>1 DEF StepInv
    <3>3. At(co_curr[r], "append", r)  BY <3>1, <3>2 DEF At
    <3>4. co_curr[r] # co  BY <1>0, <1>1, <3>1, <3>3 DEF PlaceInv, OneAt, Kinds
    <3> QED  BY <1>0, <1>2, <1>3, <3>1, <3>2, <3>4 DEF LeavesStack, TypeOK
  <2>3. ASSUME NEW r \in Scheds
        PROVE  /\ pc'[r] \in {"resume", "yield"} => append'[r].to = r
               /\ pc'[r] \in Running => co_curr'[r] \in Cos
    BY <1>2, <1>3, ThreadFacts DEF StepInv, Moves
  <2> QED  BY <2>1, <2>2, <2>3 DEF StepInv
<1>7. LockInv'
  <2>1. ASSUME NEW y \in Threads, pc'[y] \in {"submit", "yield"}  PROVE lock'[append'[y].to] = y
    <3>1. y # s /\ pc[y] \in {"submit", "yield"}  BY <1>2, <2>1 DEF Moves
    <3>2. append'[y] = append[y] /\ append[y].to \in Scheds /\ lock[append[y].to] = y
      BY <1>3, <3>1 DEF TypeOK, LockInv
    <3> QED  BY <1>0, <1>4, <3>1, <3>2
  <2>2. pc'[Main] = "signal" => lock'[joined'] = Main
    <3> SUFFICES ASSUME pc'[Main] = "signal"  PROVE lock'[joined] = Main  BY <1>2
    <3>1. lock[joined] = Main /\ joined \in Scheds
      BY <1>2, ThreadFacts DEF LockInv, TypeOK
    <3> QED  BY <1>0, <1>4, <3>1, ThreadFacts
  <2> QED  BY <2>1, <2>2 DEF LockInv
<1>8. WaitInv'
  <2> SUFFICES ASSUME NEW r \in Scheds, pc'[r] = "wait"
               PROVE  co_nums[r] = 0 /\ (status[r] = "RUNNING" \/ lock'[r] = Main)
    BY <1>2 DEF WaitInv
  <2>1. r # s /\ pc[r] = "wait"  BY <1>2, ThreadFacts DEF Moves
  <2> QED  BY <1>4, <2>1 DEF WaitInv
<1>9. CountersAgree'
  <2>1. \A x \in Threads : /\ \A step \in {"turn", "add", "submit", "done"} :
                                pc'[x] = step <=> pc[x] = step
                           /\ pc[x] = "turn" => append'[x] = append[x]
    BY <1>0, <1>2, <1>3 DEF Moves
  <2>2. UNCHANGED <<co_nums, wg>> /\ Unfinished' = Unfinished  BY <1>2
  <2> QED  BY <2>1, <2>2, CountersKept
<1>10. CountInv'
  <2>1. ASSUME NEW r \in Scheds, NEW c \in Cos, c \in Mine(r)'  PROVE c \in Mine(r)
    <3>1. CASE r = s  BY <1>0, <1>2, <1>3, <2>1, <3>1 DEF Mine, Moves
    <3>2. CASE r # s
      <4>1. pc'[r] = pc[r] /\ append'[r] = append[r]  BY <1>2, <1>3, <3>2, ThreadFacts
      <4> QED  BY <1>0, <1>2, <1>3, <2>1, <3>2, <4>1 DEF Mine
    <3> QED  BY <3>1, <3>2
  <2>2. \A r \in Scheds : Mine(r)' \subseteq Mine(r)  BY <2>1 DEF Mine
  <2> QED  BY <1>2, <2>2, MineShrinks
<1> QED  BY <1>2, <1>3, <1>5, <1>6, <1>7, <1>8, <1>9, <1>10

----------------------------------------------------------------------------
(* Steps that count.                                                       *)

\* The coroutine a thread has to submit is unfinished, and nowhere else.
LEMMA Submitted ==
  ASSUME IInv, NEW x \in Threads, pc[x] \in Appending
  PROVE  /\ append[x].co \in Cos /\ append[x].co \in Unfinished /\ append[x].to \in Scheds
         /\ At(append[x].co, "append", x)
         /\ \A y \in Threads \ {x} : append[y].co # append[x].co
         /\ ~Stopping
<1> USE DEF IInv
<1>1. append[x].co \in Cos \cup {NoCo} /\ append[x].co # NoCo /\ append[x].to \in Scheds
  BY DEF StepInv, TypeOK
<1>2. append[x].co \in Cos /\ At(append[x].co, "append", x)  BY <1>1 DEF At
<1>3. append[x].co \in Unfinished  BY <1>2 DEF PlaceInv, AtLife, Kinds
<1>4. ASSUME NEW y \in Threads, y # x, append[y].co = append[x].co  PROVE FALSE
  <2>1. At(append[x].co, "append", y)  BY <1>4 DEF At
  <2> QED  BY <1>2, <1>4, <2>1 DEF PlaceInv, OneAt, Kinds
<1>5. ~Stopping  BY <1>3 DEF StopInv
<1> QED  BY <1>1, <1>2, <1>3, <1>4, <1>5

\* A thread goes on with a submit: its locks and its append apart, that keeps
\* everything.
LEMMA SubmitGoesOn ==
  ASSUME IInv, NEW x \in Threads, NEW step \in {"add", "submit"}, pc[x] \in {"turn", "add"},
         Goto(x, step), append'[x].co = append[x].co, append'[x].to \in Scheds,
         \A y \in Threads \ {x} : append'[y] = append[y],
         UNCHANGED <<status, ready, timers, co_nums, co_curr, freed, life, left, joined>>
  PROVE  /\ PlaceInv' /\ StepInv' /\ StopInv' /\ CountInv'
         /\ pc'[x] = step /\ DOMAIN pc' = Threads
         /\ \A y \in Threads \ {x} : pc'[y] = pc[y]
         /\ pc'[Main] \in MainSteps /\ \A r \in Scheds : pc'[r] \in SchedSteps
         /\ Unfinished' = Unfinished
<1> USE DEF IInv
<1>1. /\ Moves(x, step) /\ DOMAIN pc' = Threads /\ pc'[x] = step
      /\ \A y \in Threads \ {x} : pc'[y] = pc[y]
  BY GotoMoves DEF Moves
<1>2. pc'[Main] \in MainSteps /\ \A r \in Scheds : pc'[r] \in SchedSteps
  BY <1>1, PcType, ThreadFacts DEF SchedSteps, MainSteps, Submitting
<1>3. Unfinished' = Unfinished  BY DEF Unfinished
<1>4. \A y \in Threads : pc'[y] \in Running => pc[y] \in Running  BY <1>1
<1>5. \A c \in Cos, k \in Kinds, y \in Threads : At(c, k, y)' => At(c, k, y)
  BY <1>4, ThreadFacts DEF At, InReady
<1>6. PlaceInv'
  <2>1. OneAt'  BY <1>5, StayOne DEF PlaceInv
  <2>2. AtLife'  BY <1>3, <1>5 DEF PlaceInv, AtLife
  <2>3. Distinct'  BY DEF PlaceInv, Distinct
  <2> QED  BY <2>1, <2>2, <2>3 DEF PlaceInv
<1>7. StepInv'
  <2>1. ASSUME NEW y \in Threads  PROVE append'[y].co # NoCo <=> pc'[y] \in Appending
    BY <1>1 DEF StepInv
  <2>2. ASSUME NEW r \in Scheds
        PROVE  /\ pc'[r] \in {"resume", "yield"} => append'[r].to = r
               /\ pc'[r] \in Running => co_curr'[r] \in Cos
               /\ pc'[r] = "yield" => append'[r].co = co_curr'[r] /\ left'[co_curr'[r]] > 0
    BY <1>1, <1>4, ThreadFacts DEF StepInv
  <2> QED  BY <2>1, <2>2 DEF StepInv
<1>8. StopInv'
  <2>1. ~Stopping  BY Submitted
  <2>2. ~Stopping'  BY <1>1, <2>1, ThreadFacts DEF Stopping
  <2> QED  BY <1>1, <2>1, <2>2, ThreadFacts DEF StopInv
<1>9. CountInv'
  <2>1. ASSUME NEW r \in Scheds, NEW c \in Cos, c \in Mine(r)'  PROVE c \in Mine(r)
    <3>1. pc'[r] \in {"resume", "yield"} => pc[r] = pc'[r] /\ append'[r].co = append[r].co
      BY <1>1, ThreadFacts
    <3> QED  BY <1>4, <2>1, <3>1, ThreadFacts DEF Mine, InReady
  <2>2. \A r \in Scheds : Mine(r)' \subseteq Mine(r)  BY <2>1 DEF Mine
  <2> QED  BY <2>2, MineShrinks
<1> QED  BY <1>1, <1>2, <1>3, <1>6, <1>7, <1>8, <1>9

\* coroutine_create, and p_turn as processors_submit reads it.
LEMMA SubmitTurnIInv ==
  ASSUME IInv, NEW x \in Threads, NEW co \in Cos, SubmitTurn(x, co)  PROVE IInv'
<1> USE DEF IInv
<1>0. /\ UNCHANGED <<status, ready, tail, timers, co_nums, co_curr, lock, stack, freed,
                     left, p_turn, wg, joined, unstopped, fault>>
      /\ pc[x] = (IF x = Main THEN "create" ELSE "run")
      /\ life[co] = "none" /\ life' = [life EXCEPT ![co] = "new"]
      /\ costatus' = [costatus EXCEPT ![co] = "RUNNABLE"]
      /\ append' = [append EXCEPT ![x] = [co |-> co, to |-> p_turn, prev |-> NoCo]]
  BY DEF SubmitTurn, _co_new, schedVars, procVars
<1>1. /\ Moves(x, "turn") /\ DOMAIN pc' = Threads /\ pc'[x] = "turn"
      /\ \A y \in Threads \ {x} : pc'[y] = pc[y]
  BY GotoMoves DEF SubmitTurn, Moves
<1>2. p_turn \in Scheds  BY DEF TypeOK
<1>3. Unfinished' = Unfinished \cup {co} /\ co \notin Unfinished
  BY <1>0 DEF Unfinished, TypeOK
<1>4. /\ append'[x].co = co /\ append'[x].to = p_turn
      /\ \A y \in Threads \ {x} : append'[y] = append[y]
  BY <1>0 DEF TypeOK
<1>5. append' \in [Threads -> [co : Cos \cup {NoCo}, to : Scheds, prev : Cos \cup {NoCo}]]
  <2>1. [co |-> co, to |-> p_turn, prev |-> NoCo] \in
          [co : Cos \cup {NoCo}, to : Scheds, prev : Cos \cup {NoCo}]
    BY <1>2
  <2> QED  BY <1>0, <2>1 DEF TypeOK
<1>6. \A c \in Cos, k \in Kinds, y \in Threads :
        At(c, k, y)' => At(c, k, y) \/ (c = co /\ k = "append" /\ y = x)
  BY <1>0, <1>1, <1>4, ThreadFacts DEF At, InReady
<1>7. \A k \in Kinds, y \in Threads : ~At(co, k, y)
  BY <1>3 DEF PlaceInv, AtLife
<1>8. PlaceInv'
  <2>1. OneAt'
    <3>1. Moved(co, "append", x)  BY <1>6, <1>7 DEF Moved
    <3> QED  BY <3>1, MoveOne DEF PlaceInv
  <2>2. AtLife'  BY <1>3, <1>6 DEF PlaceInv, AtLife
  <2>3. Distinct'  BY <1>0 DEF PlaceInv, Distinct
  <2> QED  BY <2>1, <2>2, <2>3 DEF PlaceInv
<1>9. TypeOK'
  <2>1. pc'[Main] \in MainSteps /\ \A r \in Scheds : pc'[r] \in SchedSteps
    BY <1>1, PcType, ThreadFacts DEF SchedSteps, MainSteps, Submitting
  <2>2. /\ costatus' \in [Cos -> {"RUNNABLE", "WAITING"}]
        /\ life' \in [Cos -> {"none", "new", "started", "done"}]
    BY <1>0 DEF TypeOK
  <2> QED  BY <1>0, <1>1, <1>5, <2>1, <2>2 DEF TypeOK
<1>10. StepInv'
  <2>1. x \in Scheds => pc[x] = "run"  BY <1>0, ThreadFacts
  <2>2. ASSUME NEW y \in Threads  PROVE append'[y].co # NoCo <=> pc'[y] \in Appending
    BY <1>1, <1>4, ThreadFacts DEF StepInv
  <2>3. ASSUME NEW r \in Scheds
        PROVE  /\ pc'[r] \in {"resume", "yield"} => append'[r].to = r
               /\ pc'[r] \in Running => co_curr'[r] \in Cos
               /\ pc'[r] = "yield" => append'[r].co = co_curr'[r] /\ left'[co_curr'[r]] > 0
    BY <1>0, <1>1, <1>4, <2>1, ThreadFacts DEF StepInv
  <2> QED  BY <2>2, <2>3 DEF StepInv
<1>11. LockInv' /\ WaitInv'
  <2>1. \A y \in Threads : \A step \in {"submit", "yield", "signal", "wait"} :
          pc'[y] = step => y # x /\ pc[y] = step
    BY <1>1
  <2>2. LockInv'  BY <1>0, <1>4, <2>1, ThreadFacts DEF LockInv
  <2>3. WaitInv'  BY <1>0, <2>1, ThreadFacts DEF WaitInv
  <2> QED  BY <2>2, <2>3
<1>12. StopInv'
  <2>1. ~Stopping
    <3>1. CASE x = Main  BY <1>0, <3>1 DEF Stopping
    <3>2. CASE x # Main  BY <1>0, <3>2, RunsOne, ThreadFacts
    <3> QED  BY <3>1, <3>2
  <2>2. ~Stopping'
    BY <1>1, <2>1, ThreadFacts DEF Stopping
  <2> QED  BY <1>0, <1>1, <2>1, <2>2, ThreadFacts DEF StopInv
<1>13. CountInv'
  <2>1. ASSUME NEW r \in Scheds, NEW c \in Cos, c \in Mine(r)'  PROVE c \in Mine(r)
    <3>1. CASE r = x
      <4>1. pc[r] = "run" /\ pc'[r] = "turn"  BY <1>0, <1>1, <3>1, ThreadFacts
      <4> QED  BY <1>0, <2>1, <4>1 DEF Mine, InReady
    <3>2. CASE r # x
      <4>1. pc'[r] = pc[r] /\ append'[r] = append[r]
        BY <1>1, <1>4, <3>2, ThreadFacts
      <4> QED  BY <1>0, <2>1, <4>1 DEF Mine, InReady
    <3> QED  BY <3>1, <3>2
  <2>2. \A r \in Scheds : Mine(r)' \subseteq Mine(r)  BY <2>1 DEF Mine
  <2> QED  BY <1>0, <2>2, MineShrinks
<1>14. CountersAgree'
  <2>1. /\ Done' = Done /\ Counted' = Counted
        /\ Submitters' = Submitters \cup {x} /\ x \notin Submitters
    BY <1>0, <1>1, ThreadFacts DEF Done, Counted, Submitters
  <2>2. Cardinality(Unfinished') = Cardinality(Unfinished) + 1
    BY <1>3, CountedFinite, FS_AddElement
  <2>3. Cardinality(Submitters') = Cardinality(Submitters) + 1
    BY <2>1, CountedFinite, FS_AddElement
  <2>4. Known' = Known
    <3>1. pc[x] # "turn"  BY <1>0
    <3>2. ASSUME NEW c  PROVE Turning(c)' <=> Turning(c) \/ c = co
      BY <1>1, <1>4, <3>1 DEF Turning
    <3> QED  BY <1>3, <3>2 DEF Known
  <2>5. CountersAgree' <=> /\ wg' = Cardinality(Known') + Cardinality(Done')
                           /\ Cardinality(Unfinished') = Cardinality(Counted') + Cardinality(Submitters')
    BY DEF CountersAgree, Done, Submitters, Submitting, Counted, Known
  <2> QED  BY <1>0, <2>1, <2>2, <2>3, <2>4, <2>5, CountersNamed, CountedFinite
<1> QED  BY <1>8, <1>9, <1>10, <1>11, <1>12, <1>13, <1>14

\* processors_submit stores p_turn and counts the coroutine.
LEMMA SubmitAddIInv ==
  ASSUME IInv, NEW x \in Threads, SubmitAdd(x)  PROVE IInv'
<1> USE DEF IInv
<1> PICK co : co = append[x].co  OBVIOUS
<1>0. /\ UNCHANGED <<status, ready, tail, timers, co_nums, co_curr, lock, stack, freed, append,
                     costatus, life, left, joined, unstopped, fault>>
      /\ pc[x] = "turn" /\ wg' = wg + 1 /\ Goto(x, "add")
  BY DEF SubmitAdd, wait_group_add, schedVars, coVars
<1>1. /\ co \in Cos /\ co \in Unfinished /\ append[x].to \in Scheds
      /\ \A y \in Threads \ {x} : append[y].co # co
  BY <1>0, Submitted
<1>2. /\ PlaceInv' /\ StepInv' /\ StopInv' /\ CountInv'
      /\ pc'[x] = "add" /\ DOMAIN pc' = Threads
      /\ \A y \in Threads \ {x} : pc'[y] = pc[y]
      /\ pc'[Main] \in MainSteps /\ \A r \in Scheds : pc'[r] \in SchedSteps
      /\ Unfinished' = Unfinished
  BY <1>0, <1>1, SubmitGoesOn
<1>3. p_turn' \in Scheds /\ wg' \in Nat
  <2>1. PICK turn \in Scheds : p_turn' = (turn % P) + 1
    BY <1>1 DEF SubmitAdd, TypeOK
  <2>2. turn \in Nat /\ P \in Nat /\ P > 0  BY ThreadFacts DEF Scheds
  <2>3. turn % P \in 0 .. P - 1  BY <2>2
  <2>4. p_turn' \in Scheds  BY <2>1, <2>2, <2>3 DEF Scheds
  <2> QED  BY <1>0, <2>4 DEF TypeOK
<1>4. TypeOK'  BY <1>0, <1>2, <1>3 DEF TypeOK
<1>5. LockInv' /\ WaitInv'
  <2>1. \A y \in Threads : \A step \in {"submit", "yield", "signal", "wait"} :
          pc'[y] = step => pc[y] = step
    BY <1>2
  <2>2. LockInv'  BY <1>0, <2>1, ThreadFacts DEF LockInv
  <2>3. WaitInv'  BY <1>0, <2>1, ThreadFacts DEF WaitInv
  <2> QED  BY <2>2, <2>3
<1>6. CountersAgree'
  <2>1. Done' = Done /\ Counted' = Counted /\ Submitters' = Submitters
    BY <1>0, <1>2, ThreadFacts DEF Done, Counted, Submitters
  <2>2. Known' = Known \cup {co} /\ co \notin Known
    <3>1. ASSUME NEW c  PROVE Turning(c)' <=> Turning(c) /\ c # co
      BY <1>0, <1>1, <1>2 DEF Turning
    <3>2. Turning(co)  BY <1>0 DEF Turning
    <3> QED  BY <1>1, <1>2, <3>1, <3>2 DEF Known
  <2>3. Cardinality(Known') = Cardinality(Known) + 1
    BY <2>2, CountedFinite, FS_AddElement
  <2>4. CountersAgree' <=> /\ wg' = Cardinality(Known') + Cardinality(Done')
                           /\ Cardinality(Unfinished') = Cardinality(Counted') + Cardinality(Submitters')
    BY DEF CountersAgree, Done, Submitters, Submitting, Counted, Known
  <2> QED  BY <1>0, <1>2, <2>1, <2>3, <2>4, CountersNamed, CountedFinite
<1> QED  BY <1>2, <1>4, <1>5, <1>6

\* sched_sched takes the lock and reads the last ready coroutine.
LEMMA SubmitBeginIInv ==
  ASSUME IInv, NEW x \in Threads, SubmitBegin(x)  PROVE IInv'
<1> USE DEF IInv
<1> PICK s : s = append[x].to  OBVIOUS
<1> PICK co : co = append[x].co  OBVIOUS
<1>0. /\ UNCHANGED <<status, ready, tail, timers, co_nums, co_curr, stack, freed,
                     costatus, life, left, p_turn, wg, joined, unstopped, fault>>
      /\ pc[x] = "add" /\ lock[s] = Nobody /\ lock' = [lock EXCEPT ![s] = x]
      /\ append' = [append EXCEPT ![x] = [co |-> co, to |-> s, prev |-> tail[s]]]
      /\ Goto(x, "submit")
  BY DEF SubmitBegin, Begins, coVars, procVars
<1>1. co \in Cos /\ s \in Scheds  BY <1>0, Submitted
<1>2. /\ append'[x].co = co /\ append'[x].to = s
      /\ \A y \in Threads \ {x} : append'[y] = append[y]
  BY <1>0 DEF TypeOK
<1>3. append' \in [Threads -> [co : Cos \cup {NoCo}, to : Scheds, prev : Cos \cup {NoCo}]]
  <2>1. tail[s] \in Cos \cup {NoCo}  BY <1>1 DEF TypeOK
  <2>2. [co |-> co, to |-> s, prev |-> tail[s]] \in
          [co : Cos \cup {NoCo}, to : Scheds, prev : Cos \cup {NoCo}]
    BY <1>1, <2>1
  <2> QED  BY <1>0, <2>2 DEF TypeOK
<1>4. /\ lock' \in [Scheds -> Threads \cup {Nobody}] /\ lock'[s] = x
      /\ \A r \in Scheds \ {s} : lock'[r] = lock[r]
  BY <1>0, <1>1 DEF TypeOK
<1>5. /\ PlaceInv' /\ StepInv' /\ StopInv' /\ CountInv'
      /\ pc'[x] = "submit" /\ DOMAIN pc' = Threads
      /\ \A y \in Threads \ {x} : pc'[y] = pc[y]
      /\ pc'[Main] \in MainSteps /\ \A r \in Scheds : pc'[r] \in SchedSteps
      /\ Unfinished' = Unfinished
  BY <1>0, <1>1, <1>2, SubmitGoesOn
<1>6. TypeOK'  BY <1>0, <1>3, <1>4, <1>5 DEF TypeOK
<1>7. LockInv'
  <2>1. ASSUME NEW y \in Threads, pc'[y] \in {"submit", "yield"}  PROVE lock'[append'[y].to] = y
    <3>1. CASE y = x  BY <1>2, <1>4, <3>1
    <3>2. CASE y # x
      <4>1. pc[y] \in {"submit", "yield"} /\ append'[y] = append[y] /\ append[y].to \in Scheds
        BY <1>2, <1>5, <2>1, <3>2 DEF TypeOK
      <4>2. lock[append[y].to] = y  BY <4>1 DEF LockInv
      <4> QED  BY <1>0, <1>4, <4>1, <4>2, ThreadFacts
    <3> QED  BY <3>1, <3>2
  <2>2. pc'[Main] = "signal" => lock'[joined'] = Main
    <3> SUFFICES ASSUME pc'[Main] = "signal"  PROVE lock'[joined] = Main  BY <1>0
    <3>1. x # Main  BY <1>5
    <3>2. lock[joined] = Main /\ joined \in Scheds
      BY <1>5, <3>1, ThreadFacts DEF LockInv, TypeOK
    <3> QED  BY <1>0, <1>4, <3>2, ThreadFacts
  <2> QED  BY <2>1, <2>2 DEF LockInv
<1>8. WaitInv'
  <2> SUFFICES ASSUME NEW r \in Scheds, pc'[r] = "wait"
               PROVE  co_nums[r] = 0 /\ (status[r] = "RUNNING" \/ lock'[r] = Main)
    BY <1>0 DEF WaitInv
  <2>1. pc[r] = "wait"  BY <1>5, ThreadFacts
  <2> QED  BY <1>0, <1>4, <2>1, ThreadFacts DEF WaitInv
<1>9. CountersAgree'
  <2>1. \A y \in Threads : /\ pc'[y] \in {"turn", "add", "submit"} <=> pc[y] \in {"turn", "add", "submit"}
                           /\ pc'[y] = "done" <=> pc[y] = "done"
                           /\ pc'[y] = "turn" <=> pc[y] = "turn"
                           /\ pc[y] = "turn" => append'[y] = append[y]
    BY <1>0, <1>2, <1>5
  <2>2. Done' = Done /\ Counted' = Counted /\ Submitters' = Submitters
    <3>1. Submitters' = Submitters  BY <2>1 DEF Submitters
    <3>2. Done' = Done  BY <2>1, ThreadFacts DEF Done
    <3> QED  BY <1>0, <3>1, <3>2 DEF Counted
  <2>3. Known' = Known  BY <1>5, <2>1, KnownKept
  <2>4. CountersAgree' <=> /\ wg' = Cardinality(Known') + Cardinality(Done')
                           /\ Cardinality(Unfinished') = Cardinality(Counted') + Cardinality(Submitters')
    BY DEF CountersAgree, Done, Submitters, Submitting, Counted, Known
  <2> QED  BY <1>0, <1>5, <2>2, <2>3, <2>4, CountersNamed
<1> QED  BY <1>5, <1>6, <1>7, <1>8, <1>9

\* While a coroutine is submitted no scheduler has counted all there are.
LEMMA RoomToCount ==
  ASSUME IInv, NEW x \in Threads, pc[x] = "submit", NEW s \in Scheds
  PROVE  co_nums[s] \in Nat /\ co_nums[s] < Cardinality(Cos) /\ Cardinality(Cos) \in Nat
<1> USE DEF IInv
<1> PICK M : M = Cardinality(Cos)  OBVIOUS
<1>1. M \in Nat /\ co_nums[s] \in Nat /\ co_nums[s] <= M
  BY Finite DEF TypeOK, CountInv
<1>2. SUFFICES ASSUME co_nums[s] = M  PROVE FALSE  BY <1>1
<1>3. {s} \X (1 .. M) \subseteq Counted  BY <1>1, <1>2 DEF Counted
<1>4. Cardinality({s} \X (1 .. M)) = M
  <2>1. IsFiniteSet(1 .. M) /\ Cardinality(1 .. M) = M  BY <1>1, FS_Interval
  <2>2. IsFiniteSet({s}) /\ Cardinality({s}) = 1  BY FS_Singleton
  <2>3. Cardinality({s} \X (1 .. M)) = Cardinality({s}) * Cardinality(1 .. M)
    BY <2>1, <2>2, FS_Product
  <2> QED  BY <1>1, <2>1, <2>2, <2>3
<1>5. M <= Cardinality(Counted)  BY <1>3, <1>4, CountedFinite, FS_Subset
<1>6. Cardinality(Submitters) # 0
  <2>1. x \in Submitters  BY DEF Submitters
  <2> QED  BY <2>1, CountedFinite, FS_EmptySet
<1> QED  BY <1>1, <1>5, <1>6, CountersNamed, CountedFinite

\* The rest of sched_sched.
LEMMA SubmitEndIInv ==
  ASSUME IInv, NEW x \in Threads, SubmitEnd(x)  PROVE IInv'
<1> USE DEF IInv
<1> PICK co : co = append[x].co  OBVIOUS
<1> PICK s : s = append[x].to  OBVIOUS
<1> PICK back : back = (IF x = Main THEN "create" ELSE "run")  OBVIOUS
<1>0. /\ UNCHANGED <<status, timers, co_curr, stack, freed, costatus, life, left,
                     p_turn, wg, joined, unstopped, fault>>
      /\ pc[x] = "submit" /\ Ends(x) /\ s \in Scheds /\ lock[s] = x
      /\ co_nums' = [co_nums EXCEPT ![s] = co_nums[s] + 1]
      /\ lock' = [lock EXCEPT ![s] = Nobody]
  BY DEF SubmitEnd, coVars, procVars, LockInv, TypeOK
<1>1. /\ Moves(x, back) /\ DOMAIN pc' = Threads
      /\ co_nums[s] = 0 => pc'[s] # "wait"
      /\ \A y \in Threads \ {x, s} : pc'[y] = pc[y]
  <2>1. CASE FirstCo(s)
    <3>1. GotoAndSignal(x, back, s)  BY <2>1 DEF SubmitEnd
    <3> QED  BY <1>0, <3>1, SignalMoves
  <2>2. CASE ~FirstCo(s)
    <3>1. Goto(x, back)  BY <2>2 DEF SubmitEnd
    <3> QED  BY <1>0, <2>2, <3>1, GotoMoves DEF FirstCo
  <2> QED  BY <2>1, <2>2
<1>2. pc'[x] = back /\ back \in {"create", "run"} /\ (x \in Scheds => back = "run")
      /\ (x = Main => back = "create")
  BY <1>1, ThreadFacts DEF Moves
<1>3. /\ co \in Cos /\ co \in Unfinished
      /\ ready' \in [Scheds -> Seq(Cos)] /\ tail' \in [Scheds -> Cos \cup {NoCo}]
      /\ append' \in [Threads -> [co : Cos \cup {NoCo}, to : Scheds, prev : Cos \cup {NoCo}]]
      /\ append'[x].co = NoCo /\ \A y \in Threads \ {x} : append'[y] = append[y]
      /\ \A r \in Scheds : \A d : InReady(d, r)' => InReady(d, r) \/ (d = co /\ r = s)
      /\ Unfinished' = Unfinished /\ PlaceInv'
  BY <1>0, <1>1, <1>2, EndPlaces
<1>4. co_nums[s] \in Nat /\ co_nums[s] < Cardinality(Cos) /\ Cardinality(Cos) \in Nat
  BY <1>0, RoomToCount
<1>5. /\ co_nums' \in [Scheds -> Nat] /\ co_nums'[s] = co_nums[s] + 1
      /\ \A r \in Scheds \ {s} : co_nums'[r] = co_nums[r]
  BY <1>0, <1>4 DEF TypeOK
<1>6. /\ lock' \in [Scheds -> Threads \cup {Nobody}] /\ lock'[s] = Nobody
      /\ \A r \in Scheds \ {s} : lock'[r] = lock[r]
  BY <1>0 DEF TypeOK
<1>7. TypeOK'
  <2>1. pc'[Main] \in MainSteps /\ \A r \in Scheds : pc'[r] \in SchedSteps
    BY <1>1, <1>2, PcType, ThreadFacts DEF SchedSteps, MainSteps, Submitting
  <2> QED  BY <1>0, <1>1, <1>3, <1>5, <1>6, <2>1 DEF TypeOK
<1>8. \A y \in Threads \ {x} : \A step \in {"turn", "add", "submit", "yield", "resume", "run", "done"} :
        pc'[y] = step <=> pc[y] = step
  BY <1>1 DEF Moves, Woken
<1>9. StepInv'
  <2>1. ASSUME NEW y \in Threads
        PROVE  append'[y].co # NoCo <=> pc'[y] \in Appending
    BY <1>2, <1>3, <1>8 DEF StepInv
  <2>2. ASSUME NEW r \in Scheds
        PROVE  /\ pc'[r] \in {"resume", "yield"} => append'[r].to = r
               /\ pc'[r] \in Running => co_curr'[r] \in Cos
               /\ pc'[r] = "yield" => append'[r].co = co_curr'[r] /\ left'[co_curr'[r]] > 0
    BY <1>0, <1>2, <1>3, <1>8, ThreadFacts DEF StepInv
  <2> QED  BY <2>1, <2>2 DEF StepInv
<1>10. LockInv'
  <2>1. ASSUME NEW y \in Threads, pc'[y] \in {"submit", "yield"}  PROVE lock'[append'[y].to] = y
    <3>1. y # x /\ pc[y] \in {"submit", "yield"}  BY <1>2, <1>8, <2>1
    <3>2. append'[y] = append[y] /\ append[y].to \in Scheds /\ lock[append[y].to] = y
      BY <1>3, <3>1 DEF TypeOK, LockInv
    <3> QED  BY <1>0, <1>6, <3>1, <3>2
  <2>2. pc'[Main] = "signal" => lock'[joined'] = Main
    <3> SUFFICES ASSUME pc'[Main] = "signal"  PROVE lock'[joined] = Main  BY <1>0
    <3>1. x # Main /\ pc[Main] = "signal"  BY <1>0, <1>1, <1>2, ThreadFacts
    <3>2. lock[joined] = Main /\ joined \in Scheds
      BY <3>1 DEF LockInv, TypeOK
    <3> QED  BY <1>0, <1>6, <3>1, <3>2
  <2> QED  BY <2>1, <2>2 DEF LockInv
<1>11. WaitInv'
  <2> SUFFICES ASSUME NEW r \in Scheds, pc'[r] = "wait"
               PROVE  co_nums'[r] = 0 /\ (status[r] = "RUNNING" \/ lock'[r] = Main)
    BY <1>0 DEF WaitInv
  <2>1. r # x /\ pc[r] = "wait" /\ r \in Threads
    BY <1>1, <1>2, ThreadFacts DEF Moves, Woken
  <2>2. co_nums[r] = 0 /\ (status[r] = "RUNNING" \/ lock[r] = Main)
    BY <2>1 DEF WaitInv
  <2>3. r # s  BY <1>1, <2>2
  <2> QED  BY <1>5, <1>6, <2>2, <2>3
<1>12. StopInv'
  <2>1. ~Stopping  BY <1>3 DEF StopInv
  <2>2. ~Stopping'
    BY <1>1, <1>2, <1>0, <2>1, ThreadFacts DEF Stopping
  <2>3. \A r \in Scheds : /\ pc'[r] \in {"exit", "dead"} => pc[r] \in {"exit", "dead"}
                          /\ pc'[r] # "start" => pc[r] # "start"
    BY <1>0, <1>1, <1>2, ThreadFacts DEF Moves, Woken
  <2> QED  BY <1>0, <2>1, <2>2, <2>3 DEF StopInv
<1>13. CountInv'
  <2> SUFFICES ASSUME NEW r \in Scheds
               PROVE  Cardinality(Mine(r)') <= co_nums'[r] /\ co_nums'[r] <= Cardinality(Cos)
    BY DEF CountInv
  <2>1. ASSUME NEW c \in Cos, c \in Mine(r)'  PROVE c \in Mine(r) \/ (c = co /\ r = s)
    <3>1. pc'[r] \in Running => pc[r] \in Running
      BY <1>0, <1>2, <1>8, ThreadFacts
    <3>2. pc'[r] \in {"resume", "yield"} => pc[r] = pc'[r] /\ append'[r] = append[r]
      BY <1>2, <1>3, <1>8, ThreadFacts
    <3> QED  BY <1>0, <1>3, <2>1, <3>1, <3>2 DEF Mine
  <2>2. IsFiniteSet(Mine(r)) /\ Cardinality(Mine(r)) \in Nat  BY Finite DEF Mine
  <2>3. Cardinality(Mine(r)) <= co_nums[r] /\ co_nums[r] <= Cardinality(Cos) /\ co_nums[r] \in Nat
    BY DEF CountInv, TypeOK
  <2>4. CASE r = s
    <3>1. Mine(r)' \subseteq Mine(r) \cup {co}  BY <2>1 DEF Mine
    <3>2. /\ IsFiniteSet(Mine(r) \cup {co})
          /\ Cardinality(Mine(r) \cup {co}) <= Cardinality(Mine(r)) + 1
          /\ Cardinality(Mine(r) \cup {co}) \in Nat
      <4>1. /\ IsFiniteSet(Mine(r) \cup {co})
            /\ Cardinality(Mine(r) \cup {co}) =
                 IF co \in Mine(r) THEN Cardinality(Mine(r)) ELSE Cardinality(Mine(r)) + 1
        BY <2>2, FS_AddElement
      <4> QED  BY <2>2, <4>1
    <3>3. Cardinality(Mine(r)') <= Cardinality(Mine(r) \cup {co}) /\ Cardinality(Mine(r)') \in Nat
      BY <3>1, <3>2, FS_Subset, FS_CardinalityType
    <3> QED  BY <1>4, <1>5, <2>2, <2>3, <2>4, <3>2, <3>3
  <2>5. CASE r # s
    <3>1. Mine(r)' \subseteq Mine(r)  BY <2>1, <2>5 DEF Mine
    <3>2. Cardinality(Mine(r)') <= Cardinality(Mine(r)) /\ Cardinality(Mine(r)') \in Nat
      BY <2>2, <3>1, FS_Subset, FS_CardinalityType
    <3> QED  BY <1>5, <2>2, <2>3, <2>5, <3>2
  <2> QED  BY <2>4, <2>5
<1>14. CountersAgree'
  <2> PICK new : new = <<s, co_nums[s] + 1>>  OBVIOUS
  <2>1. Counted' = Counted \cup {new} /\ new \notin Counted
    <3>1. new \in Scheds \X (1 .. Cardinality(Cos)) /\ new[1] = s /\ new[2] = co_nums[s] + 1
      BY <1>0, <1>4
    <3>2. new \notin Counted  BY <1>4, <3>1 DEF Counted
    <3>3. ASSUME NEW p \in Scheds \X (1 .. Cardinality(Cos))
          PROVE  p[2] <= co_nums'[p[1]] <=> p[2] <= co_nums[p[1]] \/ p = new
      <4>1. p = <<p[1], p[2]>> /\ p[1] \in Scheds /\ p[2] \in Nat  BY <1>4
      <4>2. CASE p[1] = s
        BY <1>4, <1>5, <3>1, <4>1, <4>2
      <4>3. CASE p[1] # s
        BY <1>5, <3>1, <4>1, <4>3
      <4> QED  BY <4>2, <4>3
    <3> QED  BY <3>1, <3>2, <3>3 DEF Counted
  <2>2. /\ Done' = Done /\ Submitters' = Submitters \ {x} /\ x \in Submitters
    BY <1>0, <1>2, <1>8, ThreadFacts DEF Done, Submitters
  <2>3. Cardinality(Counted') = Cardinality(Counted) + 1
    BY <2>1, CountedFinite, FS_AddElement
  <2>4. Cardinality(Submitters') = Cardinality(Submitters) - 1
    BY <2>2, CountedFinite, FS_RemoveElement
  <2>5. Known' = Known
    <3>1. \A y \in Threads : /\ pc'[y] = "turn" <=> pc[y] = "turn"
                             /\ pc[y] = "turn" => append'[y] = append[y]
      BY <1>0, <1>2, <1>3, <1>8
    <3> QED  BY <1>3, <3>1, KnownKept
  <2>6. CountersAgree' <=> /\ wg' = Cardinality(Known') + Cardinality(Done')
                           /\ Cardinality(Unfinished') = Cardinality(Counted') + Cardinality(Submitters')
    BY DEF CountersAgree, Done, Submitters, Submitting, Counted, Known
  <2> QED  BY <1>0, <1>3, <2>2, <2>3, <2>4, <2>5, <2>6, CountersNamed, CountedFinite
<1> QED  BY <1>3, <1>7, <1>9, <1>10, <1>11, <1>12, <1>13, <1>14

\* co_wrapper: a coroutine has returned.
LEMMA ReturnsIInv ==
  ASSUME IInv, NEW s \in Scheds, CoReturns(s)  PROVE IInv'
<1> USE DEF IInv
<1> PICK co : co = co_curr[s]  OBVIOUS
<1>0. /\ UNCHANGED <<status, ready, tail, timers, co_curr, lock, stack, freed, append,
                     costatus, left, p_turn, wg, joined, unstopped, fault>>
      /\ pc[s] = "run" /\ life' = [life EXCEPT ![co] = "done"]
      /\ co_nums' = [co_nums EXCEPT ![s] = co_nums[s] - 1]
  BY DEF CoReturns, procVars
<1>1. /\ Moves(s, "done") /\ DOMAIN pc' = Threads /\ s \in Threads /\ pc'[s] = "done"
      /\ \A y \in Threads \ {s} : pc'[y] = pc[y]
  BY GotoMoves, ThreadFacts DEF CoReturns, Moves
<1>2. co \in Cos /\ co \in Unfinished /\ At(co, "running", s) /\ ~Stopping
  BY <1>0, RunsOne
<1>3. Unfinished' = Unfinished \ {co}  BY <1>0, <1>2 DEF Unfinished, TypeOK
<1>4. \A c \in Cos, k \in Kinds, x \in Threads : At(c, k, x)' => At(c, k, x)
  BY <1>0, <1>1, ThreadFacts DEF At, InReady
<1>5. \A k \in Kinds, x \in Threads : ~At(co, k, x)'
  <2> SUFFICES ASSUME NEW k \in Kinds, NEW x \in Threads, At(co, k, x)'  PROVE FALSE
    OBVIOUS
  <2>1. k = "running" /\ x = s  BY <1>1, <1>2, <1>4 DEF PlaceInv, OneAt, Kinds
  <2> QED  BY <1>1, <2>1 DEF At
<1>6. PlaceInv'
  <2>1. OneAt'  BY <1>4, StayOne DEF PlaceInv
  <2>2. AtLife'  BY <1>3, <1>4, <1>5 DEF PlaceInv, AtLife
  <2>3. Distinct'  BY <1>0 DEF PlaceInv, Distinct
  <2> QED  BY <2>1, <2>2, <2>3 DEF PlaceInv
<1>7. Mine(s)' \subseteq Mine(s) \ {co} /\ co \in Mine(s)
  <2>1. co \in Mine(s)  BY <1>0, <1>2 DEF Mine
  <2>2. \A c \in Cos : c \in Mine(s)' => c \in Mine(s)
    BY <1>0, <1>1 DEF Mine, InReady
  <2>3. co \notin Mine(s)'
    <3>1. ~At(co, "ready", s)' /\ ~At(co, "asleep", s)'  BY <1>1, <1>5 DEF Kinds
    <3> QED  BY <1>1, <3>1 DEF Mine, At
  <2> QED  BY <2>1, <2>2, <2>3 DEF Mine
<1>8. /\ co_nums[s] \in Nat /\ co_nums[s] - 1 \in Nat /\ co_nums[s] <= Cardinality(Cos)
      /\ Cardinality(Mine(s)') <= co_nums[s] - 1 /\ Cardinality(Cos) \in Nat
  <2>1. IsFiniteSet(Mine(s)) /\ Cardinality(Mine(s)) \in Nat /\ Cardinality(Cos) \in Nat
    BY Finite DEF Mine
  <2>2. IsFiniteSet(Mine(s) \ {co}) /\ Cardinality(Mine(s) \ {co}) = Cardinality(Mine(s)) - 1
    BY <1>7, <2>1, FS_RemoveElement
  <2>3. /\ Cardinality(Mine(s) \ {co}) \in Nat /\ Cardinality(Mine(s)') \in Nat
        /\ Cardinality(Mine(s)') <= Cardinality(Mine(s) \ {co})
    BY <1>7, <2>2, FS_Subset, FS_CardinalityType
  <2>4. Cardinality(Mine(s)) <= co_nums[s] /\ co_nums[s] <= Cardinality(Cos) /\ co_nums[s] \in Nat
    BY DEF CountInv, TypeOK
  <2> QED  BY <2>1, <2>2, <2>3, <2>4
<1>9. /\ co_nums' \in [Scheds -> Nat] /\ co_nums'[s] = co_nums[s] - 1
      /\ \A r \in Scheds \ {s} : co_nums'[r] = co_nums[r]
  BY <1>0, <1>8 DEF TypeOK
<1>10. TypeOK'
  <2>1. pc'[Main] \in MainSteps /\ \A r \in Scheds : pc'[r] \in SchedSteps
    BY <1>1, PcType, ThreadFacts DEF SchedSteps, Submitting
  <2>2. life' \in [Cos -> {"none", "new", "started", "done"}]  BY <1>0, <1>2 DEF TypeOK
  <2> QED  BY <1>0, <1>1, <1>9, <2>1, <2>2 DEF TypeOK
<1>11. StepInv'  BY <1>0, <1>1, ThreadFacts DEF StepInv
<1>12. LockInv'  BY <1>0, <1>1, ThreadFacts DEF LockInv
<1>13. WaitInv'
  <2> SUFFICES ASSUME NEW r \in Scheds, pc'[r] = "wait"
               PROVE  co_nums'[r] = 0 /\ (status[r] = "RUNNING" \/ lock[r] = Main)
    BY <1>0 DEF WaitInv
  <2>1. r # s /\ pc[r] = "wait"  BY <1>1, ThreadFacts
  <2> QED  BY <1>9, <2>1 DEF WaitInv
<1>14. StopInv'
  <2>1. ~Stopping'  BY <1>1, <1>2, ThreadFacts DEF Stopping
  <2> QED  BY <1>0, <1>1, <1>2, <2>1, ThreadFacts DEF StopInv
<1>15. CountInv'
  <2> SUFFICES ASSUME NEW r \in Scheds
               PROVE  Cardinality(Mine(r)') <= co_nums'[r] /\ co_nums'[r] <= Cardinality(Cos)
    BY DEF CountInv
  <2>1. CASE r = s  BY <1>8, <1>9, <2>1
  <2>2. CASE r # s
    <3>1. Mine(r)' \subseteq Mine(r)
      BY <1>0, <1>1, <2>2, ThreadFacts DEF Mine, InReady
    <3>2. IsFiniteSet(Mine(r)) /\ Cardinality(Mine(r)) \in Nat  BY Finite DEF Mine
    <3>3. Cardinality(Mine(r)') <= Cardinality(Mine(r)) /\ Cardinality(Mine(r)') \in Nat
      BY <3>1, <3>2, FS_Subset, FS_CardinalityType
    <3>4. Cardinality(Mine(r)) <= co_nums[r] /\ co_nums[r] <= Cardinality(Cos) /\ co_nums[r] \in Nat
      BY DEF CountInv, TypeOK
    <3> QED  BY <1>9, <2>2, <3>2, <3>3, <3>4
  <2> QED  BY <2>1, <2>2
<1>16. CountersAgree'
  <2> PICK old : old = <<s, co_nums[s]>>  OBVIOUS
  <2>1. Counted' = Counted \ {old} /\ old \in Counted
    <3>1. /\ old \in Scheds \X (1 .. Cardinality(Cos)) /\ old[1] = s /\ old[2] = co_nums[s]
      BY <1>8
    <3>2. old \in Counted  BY <1>8, <3>1 DEF Counted
    <3>3. ASSUME NEW p \in Scheds \X (1 .. Cardinality(Cos))
          PROVE  p[2] <= co_nums'[p[1]] <=> p[2] <= co_nums[p[1]] /\ p # old
      <4>1. p = <<p[1], p[2]>> /\ p[1] \in Scheds /\ p[2] \in Nat  BY <1>8
      <4>2. CASE p[1] = s
        BY <1>8, <1>9, <3>1, <4>1, <4>2
      <4>3. CASE p[1] # s
        BY <1>9, <3>1, <4>1, <4>3
      <4> QED  BY <4>2, <4>3
    <3> QED  BY <3>2, <3>3 DEF Counted
  <2>2. Submitters' = Submitters /\ Done' = Done \cup {s} /\ s \notin Done
    BY <1>0, <1>1, ThreadFacts DEF Done, Submitters
  <2>3. Cardinality(Counted') = Cardinality(Counted) - 1
    BY <2>1, CountedFinite, FS_RemoveElement
  <2>4. Cardinality(Done') = Cardinality(Done) + 1
    BY <2>2, CountedFinite, FS_AddElement
  <2>5. Cardinality(Unfinished') = Cardinality(Unfinished) - 1
    BY <1>2, <1>3, CountedFinite, FS_RemoveElement
  <2>6. Known' = Known \ {co} /\ co \in Known
    <3>1. ASSUME NEW c  PROVE Turning(c)' <=> Turning(c)
      BY <1>0, <1>1 DEF Turning
    <3>2. ~Turning(co)
      <4>1. \A y \in Threads : ~At(co, "append", y)  BY <1>1, <1>2 DEF PlaceInv, OneAt, Kinds
      <4> QED  BY <4>1 DEF At, Turning
    <3> QED  BY <1>2, <1>3, <3>1, <3>2 DEF Known
  <2>7. Cardinality(Known') = Cardinality(Known) - 1
    BY <2>6, CountedFinite, FS_RemoveElement
  <2>8. CountersAgree' <=> /\ wg' = Cardinality(Known') + Cardinality(Done')
                           /\ Cardinality(Unfinished') = Cardinality(Counted') + Cardinality(Submitters')
    BY DEF CountersAgree, Done, Submitters, Submitting, Counted, Known
  <2> QED  BY <1>0, <2>2, <2>3, <2>4, <2>5, <2>7, <2>8, CountersNamed, CountedFinite
<1> QED  BY <1>6, <1>10, <1>11, <1>12, <1>13, <1>14, <1>15, <1>16

\* processors_coroutine_done.
LEMMA DoneIInv ==
  ASSUME IInv, NEW s \in Scheds, CoDone(s)  PROVE IInv'
<1> USE DEF IInv
<1>0. /\ UNCHANGED <<status, ready, tail, timers, co_nums, co_curr, lock, stack, freed, append,
                     costatus, life, left, p_turn, joined, unstopped, fault>>
      /\ pc[s] = "done" /\ wg' = wg - 1
  BY DEF CoDone, schedVars, coVars
<1>1. /\ Moves(s, "loop") /\ DOMAIN pc' = Threads /\ s \in Threads /\ pc'[s] = "loop"
      /\ \A y \in Threads \ {s, Main} : pc'[y] = pc[y]
      /\ pc'[Main] = pc[Main] \/ (pc[Main] = "waitgroup" /\ pc'[Main] = "join")
  BY ThreadFacts DEF CoDone, Moves, Woken, TypeOK
<1>2. Unfinished' = Unfinished  BY <1>0 DEF Unfinished
<1>3. /\ Done' = Done \ {s} /\ s \in Done /\ Counted' = Counted /\ Submitters' = Submitters
      /\ Known' = Known
  <2>1. \A c : Turning(c)' <=> Turning(c)  BY <1>0, <1>1 DEF Turning
  <2>2. Known' = Known  BY <1>2, <2>1 DEF Known
  <2> QED  BY <1>0, <1>1, <2>2, ThreadFacts DEF Done, Counted, Submitters
<1>4. Cardinality(Done') = Cardinality(Done) - 1 /\ Cardinality(Done) # 0
  BY <1>3, CountedFinite, FS_RemoveElement, FS_EmptySet
<1>5. wg' \in Nat
  <2>1. wg = Cardinality(Known) + Cardinality(Done)  BY CountersNamed
  <2> QED  BY <1>0, <1>4, <2>1, CountedFinite
<1>6. CountersAgree'
  <2>1. CountersAgree' <=> /\ wg' = Cardinality(Known') + Cardinality(Done')
                           /\ Cardinality(Unfinished') = Cardinality(Counted') + Cardinality(Submitters')
    BY DEF CountersAgree, Done, Submitters, Submitting, Counted, Known
  <2> QED  BY <1>0, <1>2, <1>3, <1>4, <2>1, CountersNamed, CountedFinite
<1>7. \A y \in Threads : \A step \in {"turn", "add", "submit", "yield", "resume", "run", "signal", "wait"} :
        pc'[y] = step <=> pc[y] = step
  BY <1>0, <1>1
<1>8. PlaceInv'
  <2>1. \A c \in Cos, k \in Kinds, x \in Threads : At(c, k, x)' => At(c, k, x)
    BY <1>0, <1>7, ThreadFacts DEF At, InReady
  <2>2. OneAt'  BY <2>1, StayOne DEF PlaceInv
  <2>3. AtLife'  BY <1>2, <2>1 DEF PlaceInv, AtLife
  <2>4. Distinct'  BY <1>0 DEF PlaceInv, Distinct
  <2> QED  BY <2>2, <2>3, <2>4 DEF PlaceInv
<1>9. TypeOK'
  <2>1. pc'[Main] \in MainSteps /\ \A r \in Scheds : pc'[r] \in SchedSteps
    BY <1>1, PcType, ThreadFacts DEF SchedSteps, Submitting
  <2> QED  BY <1>0, <1>1, <1>5, <2>1 DEF TypeOK
<1>10. StepInv'  BY <1>0, <1>7, ThreadFacts DEF StepInv
<1>11. LockInv' /\ WaitInv'  BY <1>0, <1>7, ThreadFacts DEF LockInv, WaitInv
<1>12. StopInv'
  <2>1. Stopping' <=> Stopping  BY <1>1 DEF Stopping
  <2> QED  BY <1>0, <1>1, <1>2, <2>1, ThreadFacts DEF StopInv
<1>13. CountInv'
  <2>1. \A r \in Scheds : Mine(r)' \subseteq Mine(r)
    BY <1>0, <1>7, ThreadFacts DEF Mine, InReady
  <2> QED  BY <1>0, <2>1, MineShrinks
<1> QED  BY <1>6, <1>8, <1>9, <1>10, <1>11, <1>12, <1>13

----------------------------------------------------------------------------
(* The theorems.                                                           *)

\* The invariant holds when processors_create has started the threads.
LEMMA InitIInv ==
  Init => IInv
<1> SUFFICES ASSUME Init  PROVE IInv  OBVIOUS
<1> USE DEF Init, sched_create
<1>1. TypeOK
  <2>1. NoAppend \in [co : Cos \cup {NoCo}, to : Scheds, prev : Cos \cup {NoCo}]
    BY ThreadFacts DEF NoAppend
  <2>2. /\ DOMAIN pc = Threads /\ pc[Main] \in MainSteps
        /\ \A s \in Scheds : pc[s] \in SchedSteps
    BY ThreadFacts DEF MainSteps, SchedSteps, Submitting
  <2>3. /\ ready \in [Scheds -> Seq(Cos)] /\ p_turn \in Scheds /\ joined \in Scheds
        /\ left \in [Cos -> 0 .. Suspends]
    BY ThreadFacts, SchedulerAssumption
  <2> QED  BY <2>1, <2>2, <2>3 DEF TypeOK
<1>2. \A x \in Threads : append[x].co = NoCo /\ pc[x] \in {"create", "start"}
  BY DEF NoAppend
<1>3. \A c \in Cos, k \in Kinds, x \in Threads : ~At(c, k, x)
  BY <1>2, ThreadFacts DEF At, InReady
<1>4. PlaceInv
  BY <1>3 DEF PlaceInv, OneAt, AtLife, Distinct, NoneTwice
<1>5. StepInv /\ LockInv /\ WaitInv
  BY <1>2, ThreadFacts DEF StepInv, LockInv, WaitInv
<1>6. Unfinished = {}  BY DEF Unfinished
<1>7. StopInv  BY <1>2, <1>6, ThreadFacts DEF StopInv
<1>8. CountInv
  <2> SUFFICES ASSUME NEW s \in Scheds
               PROVE  Cardinality(Mine(s)) <= co_nums[s] /\ co_nums[s] <= Cardinality(Cos)
    BY DEF CountInv
  <2>1. Mine(s) = {}  BY <1>2, ThreadFacts DEF Mine, InReady
  <2> QED  BY <2>1, FS_EmptySet, Finite
<1>9. CountersAgree
  <2>1. Done = {} /\ Submitters = {} /\ Counted = {} /\ Known = {}
    BY <1>2, <1>6, ThreadFacts, Finite DEF Done, Submitters, Counted, Known
  <2> QED  BY <1>6, <2>1, FS_EmptySet, CountersNamed
<1> QED  BY <1>1, <1>4, <1>5, <1>7, <1>8, <1>9 DEF IInv

\* Every step keeps it.
LEMMA StepIInv ==
  IInv /\ [Next]_vars => IInv'
<1> SUFFICES ASSUME IInv, [Next]_vars  PROVE IInv'  OBVIOUS
<1>1. CASE UNCHANGED vars
  <2> USE DEF IInv
  <2>0. UNCHANGED <<status, ready, tail, timers, co_nums, co_curr, lock, stack, freed, pc, append,
                    costatus, life, left, p_turn, wg, joined, unstopped, fault>>
    BY <1>1 DEF vars, schedVars, coVars, procVars
  <2>1. Unfinished' = Unfinished /\ \A s \in Scheds : Mine(s)' = Mine(s)
    BY <2>0 DEF Unfinished, Mine, InReady
  <2>2. \A c \in Cos, k \in Kinds, x \in Threads : At(c, k, x)' => At(c, k, x)
    BY <2>0 DEF At, InReady
  <2>3. PlaceInv'
    <3>1. OneAt'  BY <2>2, StayOne DEF PlaceInv
    <3>2. AtLife'  BY <2>1, <2>2 DEF PlaceInv, AtLife
    <3>3. Distinct'  BY <2>0 DEF PlaceInv, Distinct
    <3> QED  BY <3>1, <3>2, <3>3 DEF PlaceInv
  <2>4. TypeOK'  BY <2>0 DEF TypeOK
  <2>5. StepInv' /\ LockInv' /\ WaitInv'  BY <2>0 DEF StepInv, LockInv, WaitInv
  <2>6. StopInv'  BY <2>0, <2>1 DEF StopInv, Stopping
  <2>7. CountInv'  BY <2>0, <2>1, MineShrinks
  <2>8. CountersAgree'  BY <2>0, <2>1, CountersKept
  <2> QED  BY <2>3, <2>4, <2>5, <2>6, <2>7, <2>8
<1>2. ASSUME NEW x \in Threads, NEW c \in Cos, SubmitTurn(x, c)  PROVE IInv'
  BY <1>2, SubmitTurnIInv
<1>3. ASSUME NEW x \in Threads, SubmitStep(x)  PROVE IInv'
  BY <1>3, SubmitAddIInv, SubmitBeginIInv, SubmitEndIInv DEF SubmitStep
<1>4. ASSUME NEW s \in Scheds, SchedStep(s)  PROVE IInv'
  <2>1. CASE SchedStart(s)  BY <2>1, SchedStartIInv
  <2>2. CASE LoopTest(s) \/ CheckCoNums(s) \/ TimersEnd(s)  BY <2>2, SchedTestIInv
  <2>3. CASE PickNone(s)  BY <2>3, PickNoneIInv
  <2>4. CASE PickAndSchedule(s)  BY <2>4, PickIInv
  <2>5. CASE processors_suspend(s)  BY <2>5, YieldBeginIInv, YieldEndIInv, DelayIInv DEF processors_suspend
  <2>6. CASE CoReturns(s)  BY <2>6, ReturnsIInv
  <2>7. CASE CoDone(s)  BY <2>7, DoneIInv
  <2>8. CASE ResumeEnd(s)  BY <2>8, ResumeEndIInv
  <2>9. CASE sched_exit(s)  BY <2>9, ExitIInv
  <2> QED  BY <1>4, <2>1, <2>2, <2>3, <2>4, <2>5, <2>6, <2>7, <2>8, <2>9 DEF SchedStep
<1>5. ASSUME NEW s \in Scheds, SchedSpuriousWakeup(s)  PROVE IInv'  BY <1>5, SchedTestIInv
<1>6. ASSUME NEW s \in Scheds, NEW c \in Cos, ResumeBegin(s, c)  PROVE IInv'
  BY <1>6, ResumeBeginIInv
<1>7. CASE MainStep
  BY <1>7, MainTestIInv, WakeupStopIInv, WakeupSignalIInv, JoinIInv DEF MainStep
<1>8. CASE MainSpuriousWakeup  BY <1>8, MainTestIInv
<1> QED  BY <1>1, <1>2, <1>3, <1>4, <1>5, <1>6, <1>7, <1>8 DEF Next

\* A position of Places names a place of At.
LEMMA PlaceIsAt ==
  ASSUME NEW c, NEW p \in Places(c)
  PROVE  /\ p[1] \in Kinds /\ p[2] \in Threads /\ At(c, p[1], p[2])
         /\ p[1] = "ready" => /\ p = <<p[1], p[2], p[3]>> /\ p[2] \in Scheds
                              /\ p[3] \in DOMAIN ready[p[2]] /\ ready[p[2]][p[3]] = c
         /\ p[1] # "ready" => p = <<p[1], p[2]>>
<1>1. CASE \E s \in Scheds : \E i \in DOMAIN ready[s] : ready[s][i] = c /\ p = <<"ready", s, i>>
  <2>1. PICK s \in Scheds : \E i \in DOMAIN ready[s] : ready[s][i] = c /\ p = <<"ready", s, i>>
    BY <1>1
  <2>2. PICK i \in DOMAIN ready[s] : ready[s][i] = c /\ p = <<"ready", s, i>>  BY <2>1
  <2>3. InReady(c, s) /\ s \in Threads  BY <2>2, ThreadFacts DEF InReady
  <2> QED  BY <2>2, <2>3 DEF At, Kinds
<1>2. CASE \E s \in Scheds : c \in timers[s] /\ p = <<"asleep", s>>
  BY <1>2, ThreadFacts DEF At, Kinds
<1>3. CASE \E s \in Scheds : pc[s] \in Running /\ co_curr[s] = c /\ p = <<"running", s>>
  BY <1>3, ThreadFacts DEF At, Kinds
<1>4. CASE \E x \in Threads : append[x].co = c /\ p = <<"append", x>>
  BY <1>4 DEF At, Kinds
<1>5. \/ p \in UNION {{<<"ready", s, i>> : i \in {j \in DOMAIN ready[s] : ready[s][j] = c}} :
                      s \in Scheds}
      \/ p \in {<<"asleep", s>> : s \in {r \in Scheds : c \in timers[r]}}
      \/ p \in {<<"running", s>> :
                s \in {r \in Scheds : pc[r] \in Running /\ co_curr[r] = c}}
      \/ p \in {<<"append", x>> : x \in {y \in Threads : append[y].co = c}}
  BY DEF Places, Submitting
<1>6. CASE p \in UNION {{<<"ready", s, i>> : i \in {j \in DOMAIN ready[s] : ready[s][j] = c}} :
                      s \in Scheds}
  <2>1. PICK s \in Scheds : p \in {<<"ready", s, i>> : i \in {j \in DOMAIN ready[s] : ready[s][j] = c}}
    BY <1>6
  <2> QED  BY <1>1, <2>1
<1> QED  BY <1>2, <1>3, <1>4, <1>5, <1>6

\* One place in the sense of PlaceInv is one position.
LEMMA OnePosition ==
  PlaceInv => OnePlace
<1> SUFFICES ASSUME PlaceInv, NEW c \in Cos
             PROVE  Cardinality(Places(c)) <= IF c \in Unfinished THEN 1 ELSE 0
  BY DEF OnePlace
<1>1. ASSUME NEW p \in Places(c), NEW q \in Places(c)  PROVE p = q
  <2>1. p[1] = q[1] /\ p[2] = q[2]
    BY PlaceIsAt DEF PlaceInv, OneAt
  <2>2. CASE p[1] = "ready"
    <3>1. /\ p = <<p[1], p[2], p[3]>> /\ p[2] \in Scheds
          /\ p[3] \in DOMAIN ready[p[2]] /\ ready[p[2]][p[3]] = c
      BY <2>2, PlaceIsAt
    <3>2. /\ q = <<p[1], p[2], q[3]>> /\ q[3] \in DOMAIN ready[p[2]] /\ ready[p[2]][q[3]] = c
      BY <2>1, <2>2, PlaceIsAt
    <3>3. p[3] = q[3]  BY <3>1, <3>2 DEF PlaceInv, Distinct, NoneTwice
    <3> QED  BY <3>1, <3>2, <3>3
  <2>3. CASE p[1] # "ready"
    <3>1. p = <<p[1], p[2]>> /\ q = <<p[1], p[2]>>  BY <2>1, <2>3, PlaceIsAt
    <3> QED  BY <3>1
  <2> QED  BY <2>2, <2>3
<1>2. ASSUME NEW p \in Places(c)  PROVE c \in Unfinished
  BY PlaceIsAt DEF PlaceInv, AtLife
<1>3. CASE Places(c) = {}
  BY <1>3, FS_EmptySet
<1>4. CASE Places(c) # {}
  <2>1. PICK p \in Places(c) : TRUE  BY <1>4
  <2>2. Places(c) = {p}  BY <1>1
  <2>3. Cardinality(Places(c)) = 1  BY <2>2, FS_Singleton
  <2> QED  BY <1>2, <2>1, <2>3
<1> QED  BY <1>3, <1>4

\* The inductive invariant holds in every reachable state.
THEOREM Invariance ==
  Spec => []IInv
BY InitIInv, StepIInv, PTL DEF Spec

\* Every variable of the schedulers, the processors and the coroutines keeps its
\* type: no counter gets negative, no queue gets an entry that is no coroutine.
THEOREM TypeCorrect ==
  Spec => []TypeOK
<1>1. IInv => TypeOK  BY DEF IInv
<1> QED  BY <1>1, Invariance, PTL

\* wait_group_add of processors_submit, co_nums of sched_sched and of
\* co_wrapper, and wait_group_done of processors_coroutine_done agree at every
\* step of every thread.
THEOREM CountsAgree ==
  Spec => []CountersAgree
<1>1. IInv => CountersAgree  BY DEF IInv
<1> QED  BY <1>1, Invariance, PTL

\* However the threads append, pick, yield, sleep and resume, and though
\* sched_co_resume takes no lock, no coroutine is in two places, and one that
\* co_wrapper has ended is in none.
THEOREM NeverTwice ==
  Spec => []OnePlace
<1>1. IInv => OnePlace  BY OnePosition DEF IInv
<1> QED  BY <1>1, Invariance, PTL

\* processors_join stops and frees schedulers only when every coroutine that
\* was created has ended.
THEOREM JoinWaits ==
  Spec => []JoinAfterAllDone
<1>1. IInv => JoinAfterAllDone
  BY DEF IInv, StopInv, Stopping, JoinAfterAllDone, TypeOK
<1> QED  BY <1>1, Invariance, PTL

\* A scheduler that was told to stop and has not overwritten that is STOPPED.
ToldInv == \A s \in Scheds : Told(s) /\ s \notin unstopped => status[s] = "STOPPED"

\* It holds when no scheduler was told anything.
LEMMA InitTold ==
  Init => ToldInv
BY DEF Init, ToldInv, Told, Scheds, Main, Threads

\* A step that tells and starts no scheduler keeps it.
LEMMA SameTold ==
  ASSUME ToldInv, UNCHANGED <<status, unstopped>>, \A s \in Scheds : Told(s)' => Told(s)
  PROVE  ToldInv'
BY DEF ToldInv

\* Every step keeps it: sched_run_entry overwrites the status and is
\* remembered for it, sched_wakeup stores STOPPED before it counts as told.
LEMMA StepTold ==
  IInv /\ ToldInv /\ [Next]_vars => ToldInv'
<1> SUFFICES ASSUME IInv, ToldInv, [Next]_vars  PROVE ToldInv'  OBVIOUS
<1>0. TypeOK /\ Main \in Threads /\ joined \in Scheds /\ \A r \in Scheds : r \in Int
  <2>1. TypeOK /\ joined \in Scheds  BY DEF IInv, TypeOK
  <2> QED  BY <2>1, ThreadFacts DEF Scheds
<1>1. ASSUME NEW s \in Scheds, SchedStart(s)  PROVE ToldInv'
  <2>1. \A r \in Scheds : Told(r)' => Told(r)
    BY <1>0, <1>1, ThreadFacts DEF SchedStart, Goto, Told, TypeOK
  <2>2. /\ status' = [status EXCEPT ![s] = "RUNNING"]
        /\ unstopped' = unstopped \cup {r \in {s} : status[r] = "STOPPED"}
    BY <1>1 DEF SchedStart
  <2> QED  BY <1>0, <2>1, <2>2 DEF ToldInv, TypeOK
<1>2. CASE WakeupStop
  <2>1. /\ status' = [status EXCEPT ![joined] = "STOPPED"] /\ pc'[Main] = "signal"
        /\ joined' = joined /\ unstopped' = unstopped
    BY <1>0, <1>2 DEF WakeupStop, Goto, procVars, TypeOK
  <2>2. \A r \in Scheds : Told(r)' => Told(r) \/ r = joined  BY <2>1 DEF Told
  <2> QED  BY <1>0, <2>1, <2>2 DEF ToldInv, TypeOK
<1>3. CASE JoinThread
  <2>1. /\ status' = status /\ unstopped' = unstopped /\ pc[Main] = "pthread_join"
        /\ joined' = joined \/ (joined' = joined + 1 /\ pc'[Main] = "stop")
    BY <1>0, <1>3 DEF JoinThread, Goto, schedVars, TypeOK
  <2>2. ASSUME NEW r \in Scheds, Told(r)'  PROVE Told(r)
    <3>1. joined \in Int /\ r \in Int  BY <1>0
    <3>2. r < joined + 1  BY <2>1, <2>2, <3>1 DEF Told
    <3> QED  BY <2>1, <3>1, <3>2 DEF Told
  <2> QED  BY <2>1, <2>2, SameTold
<1>4. ASSUME UNCHANGED <<status, unstopped, joined>>,
             \/ pc'[Main] = pc[Main]
             \/ pc'[Main] \notin {"signal", "pthread_join", "destroy", "shutdown"}
             \/ pc[Main] \in {"signal", "destroy"}
      PROVE  ToldInv'
  <2>1. \A r \in Scheds : Told(r)' => Told(r)  BY <1>4 DEF Told
  <2> QED  BY <1>4, <2>1, SameTold
<1>5. CASE UNCHANGED vars
  BY <1>4, <1>5 DEF vars, schedVars, procVars
<1>6. ASSUME NEW x \in Threads, (\E c \in Cos : SubmitTurn(x, c)) \/ SubmitStep(x)
      PROVE  ToldInv'
  <2>1. PICK step \in {"turn", "add", "submit", "create", "run"} :
          \/ Goto(x, step)
          \/ \E s : GotoAndSignal(x, step, s) /\ pc[x] = "submit"
    BY <1>6 DEF SubmitTurn, SubmitStep, SubmitAdd, SubmitBegin, SubmitEnd
  <2>2. \/ pc'[Main] = pc[Main]
        \/ pc'[Main] \notin {"signal", "pthread_join", "destroy", "shutdown"}
    BY <1>0, <2>1 DEF Goto, GotoAndSignal, TypeOK
  <2>3. UNCHANGED <<status, unstopped, joined>>
    BY <1>6 DEF SubmitTurn, SubmitStep, SubmitAdd, SubmitBegin, SubmitEnd, schedVars, procVars
  <2> QED  BY <1>4, <2>2, <2>3
<1>7. ASSUME NEW s \in Scheds, ~SchedStart(s),
             SchedStep(s) \/ SchedSpuriousWakeup(s) \/ \E c \in Cos : ResumeBegin(s, c)
      PROVE  ToldInv'
  <2>1. UNCHANGED <<status, unstopped, joined>>
    BY <1>7 DEF SchedStep, LoopTest, CheckCoNums, PickNone, PickAndSchedule, processors_suspend,
      YieldBegin, YieldEnd, sched_delay, LeavesStack, CoReturns, CoDone, ResumeEnd, TimersEnd,
      sched_exit, SchedSpuriousWakeup, ResumeBegin, schedVars, procVars
  <2>2. CASE CoDone(s)
    <3>1. pc'[Main] = pc[Main] \/ pc'[Main] = "join"
      BY <1>0, <2>2, ThreadFacts DEF CoDone, TypeOK
    <3> QED  BY <1>4, <2>1, <3>1
  <2>3. CASE ~CoDone(s)
    <3>1. \E step : Goto(s, step)
      BY <1>7, <2>3 DEF SchedStep, LoopTest, CheckCoNums, PickNone, PickAndSchedule,
        processors_suspend, YieldBegin, YieldEnd, sched_delay, LeavesStack, CoReturns, ResumeEnd,
        TimersEnd, sched_exit, SchedSpuriousWakeup, ResumeBegin
    <3>2. pc'[Main] = pc[Main]  BY <1>0, <3>1, ThreadFacts DEF Goto, TypeOK
    <3> QED  BY <1>4, <2>1, <3>2
  <2> QED  BY <2>2, <2>3
<1>8. ASSUME MainStep \/ MainSpuriousWakeup, ~WakeupStop, ~JoinThread  PROVE ToldInv'
  <2>1. CASE CallLoop \/ wait_group_wait \/ MainSpuriousWakeup
    <3>1. pc'[Main] \in {"join", "waitgroup", "stop"} /\ UNCHANGED <<status, unstopped, joined>>
      BY <1>0, <2>1 DEF CallLoop, wait_group_wait, MainSpuriousWakeup, AfterWgTest, Goto,
        schedVars, procVars, TypeOK
    <3> QED  BY <1>4, <3>1
  <2>2. CASE WakeupSignal \/ processors_destory
    <3>1. pc[Main] \in {"signal", "destroy"} /\ UNCHANGED <<status, unstopped, joined>>
      BY <2>2 DEF WakeupSignal, processors_destory, schedVars, procVars
    <3> QED  BY <1>4, <3>1
  <2> QED  BY <1>8, <2>1, <2>2 DEF MainStep
<1> QED  BY <1>1, <1>2, <1>3, <1>5, <1>6, <1>7, <1>8 DEF Next

\* The signal of sched_sched is never lost: main_loop does not wait while it has
\* a coroutine. The signal of sched_wakeup is lost on a scheduler that starts
\* after it was told to stop, and on no other.
THEOREM WakeupsArrive ==
  Spec => []NoMissedWakeup
<1>1. IInv /\ ToldInv => NoMissedWakeup
  <2> SUFFICES ASSUME IInv, ToldInv, NEW s \in Scheds, pc[s] = "wait"
               PROVE  co_nums[s] = 0 /\ (Told(s) => s \in unstopped \/ lock[s] = Main)
    BY DEF NoMissedWakeup
  <2>1. co_nums[s] = 0 /\ (status[s] = "RUNNING" \/ lock[s] = Main)
    BY DEF IInv, WaitInv
  <2> QED  BY <2>1 DEF ToldInv
<1>2. Spec => []ToldInv
  BY InitTold, StepTold, Invariance, PTL DEF Spec
<1> QED  BY <1>1, <1>2, Invariance, PTL
============================================================================
