------------------------------- MODULE Mpscq -------------------------------
(***************************************************************************)
(* The intrusive multiple-producer single-consumer queue of                *)
(* src/queue/mpscq.c, one step per access to shared memory. The atomic     *)
(* exchange is the loop of include/atm_gcc_sync.h: load head, then compare *)
(* and swap until that succeeds.                                           *)
(*                                                                         *)
(* Memory is sequentially consistent. That is what the code gets on x86:   *)
(* the store n->next = 0 is drained by the locked compare-and-swap behind  *)
(* it, and the store prev->next = n may be delayed in the store buffer,    *)
(* which the model shows as a delayed step.                                *)
(*                                                                         *)
(* A node belongs to its client until it is pushed and again once          *)
(* mpscq_pop has returned it; the client then may push it again, or free   *)
(* it. order is a history variable: the nodes between tail and head, the   *)
(* stub included, in the order of their exchanges.                         *)
(***************************************************************************)
EXTENDS Integers, Sequences, FiniteSets

CONSTANTS
  Nodes,      \* the nodes clients push
  Producers,  \* the threads that call mpscq_push
  Consumer,   \* the thread that calls mpscq_pop
  Stub,       \* &self->stub
  NULL        \* the null pointer

ASSUME MpscqAssumption ==
  /\ Stub \notin Nodes /\ NULL \notin Nodes /\ Stub # NULL
  /\ Consumer \notin Producers

VARIABLES
  head,     \* self->head
  tail,     \* self->tail, used by the consumer only
  next,     \* the next field of every node
  pc,       \* the next step of every thread
  node,     \* mpscq_push: its argument n (locals are NULL outside their life)
  cur,      \* mpscq_push: the head loaded last, then prev
  last,     \* mpscq_pop: its local variable tail
  popped,   \* what the last mpscq_pop returned
  owner,    \* "client" or "queue", for every client node
  order,    \* history: the nodes from tail to head
  overlap   \* history: some push overlaps the current mpscq_pop

memory == <<head, tail, next>>
history == <<order, overlap>>
vars == <<memory, pc, node, cur, last, popped, owner, history>>

Threads == Producers \cup {Consumer}
QueueNodes == Nodes \cup {Stub}
Pushing(p) == pc[p] # "idle"

\* mpscq_create
Init ==
  /\ head = Stub /\ tail = Stub
  /\ next = [n \in QueueNodes |-> NULL]
  /\ pc = [p \in Threads |-> "idle"]
  /\ node = [p \in Threads |-> NULL]
  /\ cur = [p \in Threads |-> NULL]
  /\ last = NULL
  /\ popped = NULL
  /\ owner = [n \in Nodes |-> "client"]
  /\ order = <<Stub>>
  /\ overlap = FALSE

Goto(p, step) == pc' = [pc EXCEPT ![p] = step]

----------------------------------------------------------------------------
(* mpscq_push, by a producer or, for the stub, by the consumer. A          *)
(* definition whose name starts with Bad is a slip a change of the next    *)
(* definition could make; no specification uses it.                        *)

\* A client calls mpscq_push with a node of its own.
PushCall(p, n) ==
  /\ pc[p] = "idle" /\ owner[n] = "client"
  /\ owner' = [owner EXCEPT ![n] = "queue"]
  /\ node' = [node EXCEPT ![p] = n]
  /\ overlap' = TRUE
  /\ Goto(p, "clear")
  /\ UNCHANGED <<memory, cur, last, popped, order>>

\* n->next keeps what an earlier stay in the queue left there.
BadPushClear(p) ==
  /\ pc[p] = "clear"
  /\ Goto(p, "load")
  /\ UNCHANGED <<memory, node, cur, last, popped, owner, history>>

\* n->next = 0
PushClear(p) ==
  /\ pc[p] = "clear"
  /\ next' = [next EXCEPT ![node[p]] = NULL]
  /\ Goto(p, "load")
  /\ UNCHANGED <<head, tail, node, cur, last, popped, owner, history>>

\* atm_full_xchg: cur = atm_acq_load(p)
XchgLoad(p) ==
  /\ pc[p] = "load"
  /\ cur' = [cur EXCEPT ![p] = head]
  /\ Goto(p, "cas")
  /\ UNCHANGED <<memory, node, last, popped, owner, history>>

\* An exchange that loads and stores, without the comparison.
BadXchgCas(p) ==
  /\ pc[p] = "cas"
  /\ head' = node[p]
  /\ order' = Append(order, node[p])
  /\ Goto(p, "link")
  /\ UNCHANGED <<tail, next, node, cur, last, popped, owner, overlap>>

\* atm_full_xchg: atm_rel_cas(p, cur, n)
XchgCas(p) ==
  /\ pc[p] = "cas" /\ head = cur[p]
  /\ head' = node[p]
  /\ order' = Append(order, node[p])
  /\ Goto(p, "link")
  /\ UNCHANGED <<tail, next, node, cur, last, popped, owner, overlap>>

XchgCasFails(p) ==
  /\ pc[p] = "cas" /\ head # cur[p]
  /\ cur' = [cur EXCEPT ![p] = NULL]
  /\ Goto(p, "load")
  /\ UNCHANGED <<memory, node, last, popped, owner, history>>

\* prev->next = n, the return of mpscq_push.
PushLink(p) ==
  /\ pc[p] = "link"
  /\ next' = [next EXCEPT ![cur[p]] = node[p]]
  /\ node' = [node EXCEPT ![p] = NULL]
  /\ cur' = [cur EXCEPT ![p] = NULL]
  /\ Goto(p, IF p = Consumer THEN "again" ELSE "idle")
  /\ UNCHANGED <<head, tail, last, popped, owner, history>>

Push(p) ==
  PushClear(p) \/ XchgLoad(p) \/ XchgCas(p) \/ XchgCasFails(p) \/ PushLink(p)

----------------------------------------------------------------------------
(* mpscq_pop                                                               *)

PopCall ==
  /\ pc[Consumer] = "idle"
  /\ last' = tail
  /\ overlap' = (\E p \in Producers : Pushing(p))
  /\ Goto(Consumer, "first")
  /\ UNCHANGED <<memory, node, cur, popped, owner, order>>

PopReturnsNull ==
  /\ popped' = NULL
  /\ last' = NULL
  /\ Goto(Consumer, "idle")
  /\ UNCHANGED <<memory, node, cur, owner, history>>

\* self->tail = next; return tail
PopReturns(nxt) ==
  /\ tail' = nxt
  /\ popped' = last
  /\ owner' = [owner EXCEPT ![last] = "client"]
  /\ order' = Tail(order)
  /\ last' = NULL
  /\ Goto(Consumer, "idle")
  /\ UNCHANGED <<head, next, node, cur, overlap>>

\* next = tail->next; the stub is skipped, next->next is read behind it.
PopFirst ==
  /\ pc[Consumer] = "first"
  /\ \/ /\ last = Stub /\ next[last] = NULL
        /\ PopReturnsNull
     \/ /\ last = Stub /\ next[last] # NULL
        /\ tail' = next[last]
        /\ last' = next[last]
        /\ order' = Tail(order)
        /\ Goto(Consumer, "second")
        /\ UNCHANGED <<head, next, node, cur, popped, owner, overlap>>
     \/ /\ last # Stub /\ next[last] # NULL
        /\ PopReturns(next[last])
     \/ /\ last # Stub /\ next[last] = NULL
        /\ Goto(Consumer, "head")
        /\ UNCHANGED <<memory, node, cur, last, popped, owner, history>>

PopSecond ==
  /\ pc[Consumer] = "second"
  /\ \/ /\ next[last] # NULL
        /\ PopReturns(next[last])
     \/ /\ next[last] = NULL
        /\ Goto(Consumer, "head")
        /\ UNCHANGED <<memory, node, cur, last, popped, owner, history>>

\* The stub is pushed without looking at head.
BadPopHeadAlways ==
  /\ pc[Consumer] = "head"
  /\ node' = [node EXCEPT ![Consumer] = Stub]
  /\ Goto(Consumer, "clear")
  /\ UNCHANGED <<memory, cur, last, popped, owner, history>>

\* The last node is left where it is.
BadPopHeadNever == pc[Consumer] = "head" /\ PopReturnsNull

\* Only the last node of the queue is left: push the stub behind it, unless
\* the head has moved on.
PopHead ==
  /\ pc[Consumer] = "head"
  /\ \/ last # head /\ PopReturnsNull
     \/ /\ last = head
        /\ node' = [node EXCEPT ![Consumer] = Stub]
        /\ Goto(Consumer, "clear")
        /\ UNCHANGED <<memory, cur, last, popped, owner, history>>

\* The stub is taken to be linked behind the node.
BadPopAgain == pc[Consumer] = "again" /\ PopReturns(next[last])

\* next = tail->next behind the push of the stub.
PopAgain ==
  /\ pc[Consumer] = "again"
  /\ \/ next[last] # NULL /\ PopReturns(next[last])
     \/ next[last] = NULL /\ PopReturnsNull

mpscq_pop == PopCall \/ PopFirst \/ PopSecond \/ PopHead \/ PopAgain

Next ==
  \/ \E p \in Producers : (\E n \in Nodes : PushCall(p, n)) \/ Push(p)
  \/ mpscq_pop
  \/ Push(Consumer)

Spec == Init /\ [][Next]_vars

\* Threads inside a call keep running, and the consumer keeps calling
\* mpscq_pop; nobody has to push.
Fairness ==
  /\ \A p \in Producers : WF_vars(Push(p))
  /\ WF_vars(mpscq_pop \/ Push(Consumer))

LiveSpec == Spec /\ Fairness

----------------------------------------------------------------------------
(* Properties                                                              *)

ProducerSteps == {"idle", "clear", "load", "cas", "link"}
ConsumerSteps == ProducerSteps \cup {"first", "second", "head", "again"}

TypeOK ==
  /\ head \in QueueNodes /\ tail \in QueueNodes
  /\ next \in [QueueNodes -> QueueNodes \cup {NULL}]
  /\ pc \in [Threads -> ConsumerSteps]
  /\ \A p \in Producers : pc[p] \in ProducerSteps
  /\ node \in [Threads -> QueueNodes \cup {NULL}]
  /\ cur \in [Threads -> QueueNodes \cup {NULL}]
  /\ last \in QueueNodes \cup {NULL} /\ popped \in QueueNodes \cup {NULL}
  /\ owner \in [Nodes -> {"client", "queue"}]
  /\ order \in Seq(QueueNodes) /\ overlap \in BOOLEAN

\* The linked list is broken only where a push stands between its exchange
\* and its last store ("window of inconsistency", mpscq.h): from tail to head
\* every next field leads to the following node, or is null while the thread
\* that pushed that node is about to store it; the last one is null.
ListIntegrity ==
  /\ order # <<>> /\ order[1] = tail /\ order[Len(order)] = head
  /\ \A i, j \in DOMAIN order : order[i] = order[j] => i = j
  /\ next[head] = NULL
  /\ \A i \in 1 .. Len(order) - 1 :
       \/ next[order[i]] = order[i + 1]
       \/ /\ next[order[i]] = NULL
          /\ \E p \in Threads :
               pc[p] = "link" /\ cur[p] = order[i] /\ node[p] = order[i + 1]

InOrder(n) == \E i \in DOMAIN order : order[i] = n

\* No thread touches a node that mpscq_pop has returned: its client may have
\* freed it. A pusher stores into prev->next after its exchange, when the
\* consumer could already have taken prev.
NoAccessAfterPop ==
  /\ \A p \in Threads : pc[p] = "link" => InOrder(cur[p])
  /\ pc[Consumer] \in {"first", "second", "again"} => InOrder(last)
  /\ \A n \in Nodes : owner[n] = "client" => ~InOrder(n)

\* The client nodes of a list, which holds the stub at most once.
WithoutStub(list) ==
  IF \E i \in DOMAIN list : list[i] = Stub
  THEN LET i == CHOOSE i \in DOMAIN list : list[i] = Stub
       IN  SubSeq(list, 1, i - 1) \o SubSeq(list, i + 1, Len(list))
  ELSE list

\* The queue implements FifoQueue. A node is queued by its exchange, before
\* it is linked.
Fifo == INSTANCE FifoQueue WITH q <- WithoutStub(order), out <- popped
FifoSpec == Fifo!FifoSpec

\* mpscq_pop returns NULL only if no client node is queued or "at the same
\* time, another push called" (its comment): some push was under way at a
\* moment of the call.
NullOnlyIfEmptyOrOverlap ==
  [][pc[Consumer] # "idle" /\ pc'[Consumer] = "idle" /\ popped' = NULL
       => overlap \/ \A n \in Nodes : ~InOrder(n)]_vars

\* A queued node is popped in the end, however the producers carry on.
QueuedNodesPopped ==
  \A n \in Nodes : InOrder(n) ~> owner[n] = "client"
============================================================================
