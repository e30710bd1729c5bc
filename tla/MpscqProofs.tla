---------------------------- MODULE MpscqProofs ----------------------------
(***************************************************************************)
(* Proofs about Mpscq, for any nodes and any number of producers.          *)
(*                                                                         *)
(* ListIntegrity is not inductive: why the node that the exchange appends  *)
(* ends the list is that its pusher has cleared it and nobody else can     *)
(* push or link it (NodeInv, FreshInv), and why the store prev->next = n   *)
(* hits the right place is that prev stays in the list, right before n,    *)
(* until it is linked (LinkInv). mpscq_pop takes the first node only when  *)
(* its next field is not null: then no pusher holds it as prev. That NULL  *)
(* means empty or an overlap needs what the consumer has seen of head      *)
(* (PopInv, OverlapInv).                                                   *)
(***************************************************************************)
EXTENDS Mpscq, SequenceTheorems, TLAPS

PushSteps == {"clear", "load", "cas", "link"}

\* Every node that is being pushed has one pusher.
NodeInv ==
  /\ \A p \in Threads : node[p] # NULL <=> pc[p] \in PushSteps
  /\ \A p, q \in Threads : node[p] # NULL /\ node[p] = node[q] => p = q
  /\ \A p \in Producers : pc[p] \in PushSteps => node[p] \in Nodes /\ owner[node[p]] = "queue"
  /\ pc[Consumer] \in PushSteps => node[Consumer] = Stub

\* A node is not in the list before its exchange, and ends it then.
FreshInv ==
  /\ \A p \in Threads : pc[p] \in {"clear", "load", "cas"} => ~InOrder(node[p])
  /\ \A p \in Threads : pc[p] \in {"load", "cas"} => next[node[p]] = NULL

\* After the exchange, prev stays right before the node until it is linked.
LinkInv ==
  \A p \in Threads : pc[p] = "link" =>
    \E i \in 1 .. Len(order) - 1 :
      cur[p] = order[i] /\ node[p] = order[i + 1] /\ next[order[i]] = NULL

OwnerInv == \A n \in Nodes : owner[n] = "client" => ~InOrder(n)

PopInv ==
  /\ last = IF pc[Consumer] = "idle" THEN NULL ELSE tail
  /\ pc[Consumer] \notin {"idle", "first"} => last # Stub
  /\ pc[Consumer] \in {"link", "again"} => last # head

\* Without an overlap nobody pushes, and head stays what the consumer saw.
OverlapInv ==
  pc[Consumer] # "idle" /\ ~overlap =>
    /\ \A p \in Producers : pc[p] = "idle"
    /\ pc[Consumer] = "head" => last = head

IInv ==
  /\ TypeOK /\ ListIntegrity /\ NodeInv /\ FreshInv /\ LinkInv /\ OwnerInv
  /\ PopInv /\ OverlapInv

----------------------------------------------------------------------------
(* Threads and the list.                                                   *)

\* The consumer is a thread of its own, and null is no node.
LEMMA ThreadFacts ==
  /\ Consumer \in Threads /\ Consumer \notin Producers
  /\ \A p \in Producers : p \in Threads /\ p # Consumer
  /\ \A p \in Threads : p \in Producers \/ p = Consumer
  /\ NULL \notin QueueNodes /\ NULL \notin Nodes /\ Stub \in QueueNodes /\ Stub \notin Nodes
  /\ \A n \in Nodes : n \in QueueNodes /\ n # Stub
  /\ \A n \in QueueNodes : n \in Nodes \/ n = Stub
BY MpscqAssumption DEF Threads, QueueNodes

\* An assignment to pc.
LEMMA GotoMoves ==
  ASSUME TypeOK, NEW p \in Threads, NEW step, Goto(p, step)
  PROVE  pc'[p] = step /\ \A q \in Threads \ {p} : pc'[q] = pc[q]
BY DEF TypeOK, Goto

\* The types of pc.
LEMMA PcType ==
  ASSUME TypeOK, NEW p \in Threads, NEW step \in ConsumerSteps, Goto(p, step),
         p \in Producers => step \in ProducerSteps
  PROVE  pc' \in [Threads -> ConsumerSteps] /\ \A q \in Producers : pc'[q] \in ProducerSteps
<1>1. pc \in [Threads -> ConsumerSteps] /\ \A q \in Producers : pc[q] \in ProducerSteps
  BY DEF TypeOK
<1> QED  BY <1>1, ThreadFacts DEF Goto

\* The ends of the list.
LEMMA ListEnds ==
  ASSUME IInv
  PROVE  /\ order \in Seq(QueueNodes) /\ Len(order) \in Nat /\ Len(order) >= 1
         /\ DOMAIN order = 1 .. Len(order)
         /\ order[1] = tail /\ order[Len(order)] = head
         /\ InOrder(tail) /\ InOrder(head)
<1>1. order \in Seq(QueueNodes) /\ order # <<>>  BY DEF IInv, TypeOK, ListIntegrity
<1>2. Len(order) \in Nat /\ Len(order) >= 1 /\ DOMAIN order = 1 .. Len(order)  BY <1>1
<1>3. order[1] = tail /\ order[Len(order)] = head  BY DEF IInv, ListIntegrity
<1>4. 1 \in DOMAIN order /\ Len(order) \in DOMAIN order  BY <1>2
<1> QED  BY <1>1, <1>2, <1>3, <1>4 DEF InOrder

\* A node whose next field is null is the last one, or its pusher has not
\* linked what follows.
LEMMA NullNext ==
  ASSUME IInv, NEW i \in DOMAIN order, next[order[i]] = NULL
  PROVE  \/ i = Len(order)
         \/ \E p \in Threads : pc[p] = "link" /\ cur[p] = order[i]
<1>1. order \in Seq(QueueNodes) /\ Len(order) \in Nat /\ DOMAIN order = 1 .. Len(order)
  BY ListEnds
<1>2. SUFFICES ASSUME i # Len(order)
               PROVE  \E p \in Threads : pc[p] = "link" /\ cur[p] = order[i]
  OBVIOUS
<1>3. i \in 1 .. Len(order) - 1 /\ i + 1 \in DOMAIN order  BY <1>1, <1>2
<1>4. order[i + 1] # NULL  BY <1>1, <1>3, ThreadFacts
<1> QED  BY <1>3, <1>4 DEF IInv, ListIntegrity

\* A next field that is not null leads to the following node.
LEMMA NextFollows ==
  ASSUME IInv, NEW i \in DOMAIN order, next[order[i]] # NULL
  PROVE  i \in 1 .. Len(order) - 1 /\ next[order[i]] = order[i + 1]
<1>1. Len(order) \in Nat /\ DOMAIN order = 1 .. Len(order) /\ order[Len(order)] = head
  BY ListEnds
<1>2. i # Len(order)  BY <1>1 DEF IInv, ListIntegrity
<1>3. i \in 1 .. Len(order) - 1  BY <1>1, <1>2
<1> QED  BY <1>3 DEF IInv, ListIntegrity

\* What steps keep that leave the list and the pushers behind their exchange
\* alone.
LEMMA SameList ==
  ASSUME IInv, UNCHANGED <<head, tail, next, order>>,
         \A p \in Threads : pc'[p] = "link" <=> pc[p] = "link",
         \A p \in Threads : pc[p] = "link" => cur'[p] = cur[p] /\ node'[p] = node[p]
  PROVE  ListIntegrity' /\ LinkInv' /\ \A n : InOrder(n)' <=> InOrder(n)
<1>1. LinkInv'  BY DEF IInv, LinkInv
<1>2. \A n : InOrder(n)' <=> InOrder(n)  BY DEF InOrder
<1>3. ListIntegrity'
  <2>1. /\ order # <<>> /\ order[1] = tail /\ order[Len(order)] = head
        /\ \A i, j \in DOMAIN order : order[i] = order[j] => i = j
        /\ next[head] = NULL
    BY DEF IInv, ListIntegrity
  <2>2. ASSUME NEW i \in 1 .. Len(order) - 1
        PROVE  \/ next[order[i]] = order[i + 1]
               \/ /\ next[order[i]] = NULL
                  /\ \E p \in Threads :
                       pc'[p] = "link" /\ cur'[p] = order[i] /\ node'[p] = order[i + 1]
    BY DEF IInv, ListIntegrity
  <2> QED  BY <2>1, <2>2 DEF ListIntegrity
<1> QED  BY <1>1, <1>2, <1>3

----------------------------------------------------------------------------
(* mpscq_push                                                              *)

\* A client hands its node over.
LEMMA PushCallIInv ==
  ASSUME IInv, NEW p \in Producers, NEW n \in Nodes, PushCall(p, n)  PROVE IInv'
<1> USE DEF IInv
<1>0. /\ UNCHANGED <<head, tail, next, cur, last, popped, order>>
      /\ pc[p] = "idle" /\ owner[n] = "client" /\ overlap' = TRUE
      /\ owner' = [owner EXCEPT ![n] = "queue"] /\ node' = [node EXCEPT ![p] = n]
  BY DEF PushCall, memory
<1>1. /\ pc'[p] = "clear" /\ \A q \in Threads \ {p} : pc'[q] = pc[q]
      /\ p \in Threads /\ p # Consumer
  BY GotoMoves, ThreadFacts DEF PushCall
<1>2. /\ node'[p] = n /\ \A q \in Threads \ {p} : node'[q] = node[q]
      /\ owner'[n] = "queue" /\ \A m \in Nodes \ {n} : owner'[m] = owner[m]
      /\ ~InOrder(n) /\ n # NULL /\ n # Stub
  BY <1>0, <1>1, ThreadFacts DEF TypeOK, OwnerInv
<1>3. ListIntegrity' /\ LinkInv' /\ \A m : InOrder(m)' <=> InOrder(m)
  BY <1>0, <1>1, <1>2, SameList
<1>4. TypeOK'
  <2>1. pc' \in [Threads -> ConsumerSteps] /\ \A q \in Producers : pc'[q] \in ProducerSteps
    BY <1>1, PcType DEF PushCall, ConsumerSteps, ProducerSteps
  <2> QED  BY <1>0, <1>1, <2>1, ThreadFacts DEF TypeOK
<1>5. \A q \in Threads : node[q] # n
  <2> SUFFICES ASSUME NEW q \in Threads, node[q] = n  PROVE FALSE  OBVIOUS
  <2>1. pc[q] \in PushSteps  BY <1>2 DEF NodeInv
  <2> QED  BY <1>0, <1>2, <2>1, ThreadFacts DEF NodeInv
<1>6. NodeInv'
  <2>1. \A q \in Threads : node'[q] # NULL <=> pc'[q] \in PushSteps
    BY <1>1, <1>2 DEF NodeInv, PushSteps
  <2>2. \A q, r \in Threads : node'[q] # NULL /\ node'[q] = node'[r] => q = r
    BY <1>2, <1>5 DEF NodeInv
  <2>3. \A q \in Producers : pc'[q] \in PushSteps =>
          node'[q] \in Nodes /\ owner'[node'[q]] = "queue"
    BY <1>1, <1>2, <1>5, ThreadFacts DEF NodeInv
  <2>4. pc'[Consumer] \in PushSteps => node'[Consumer] = Stub
    BY <1>1, <1>2, ThreadFacts DEF NodeInv
  <2> QED  BY <2>1, <2>2, <2>3, <2>4 DEF NodeInv
<1>7. FreshInv'
  <2>1. \A q \in Threads : pc'[q] \in {"clear", "load", "cas"} => ~InOrder(node'[q])
    BY <1>1, <1>2 DEF FreshInv
  <2>2. \A q \in Threads : pc'[q] \in {"load", "cas"} => next'[node'[q]] = NULL
    BY <1>0, <1>1, <1>2 DEF FreshInv
  <2>3. \A q \in Threads : InOrder(node[q])' <=> InOrder(node'[q])  BY <1>0 DEF InOrder
  <2> QED  BY <2>1, <2>2, <2>3 DEF FreshInv
<1>8. OwnerInv'  BY <1>2, <1>3 DEF OwnerInv
<1>9. PopInv' /\ OverlapInv'  BY <1>0, <1>1, ThreadFacts DEF PopInv, OverlapInv
<1> QED  BY <1>3, <1>4, <1>6, <1>7, <1>8, <1>9

\* n->next = 0
LEMMA PushClearIInv ==
  ASSUME IInv, NEW p \in Threads, PushClear(p)  PROVE IInv'
<1> USE DEF IInv
<1>0. /\ UNCHANGED <<head, tail, node, cur, last, popped, owner, order, overlap>>
      /\ pc[p] = "clear" /\ next' = [next EXCEPT ![node[p]] = NULL]
  BY DEF PushClear, history
<1>1. pc'[p] = "load" /\ \A q \in Threads \ {p} : pc'[q] = pc[q]
  BY GotoMoves DEF PushClear
<1>2. node[p] \in QueueNodes /\ ~InOrder(node[p])
  BY <1>0 DEF TypeOK, NodeInv, FreshInv, PushSteps
<1>3. /\ next' \in [QueueNodes -> QueueNodes \cup {NULL}] /\ next'[node[p]] = NULL
      /\ \A i \in DOMAIN order : next'[order[i]] = next[order[i]]
      /\ \A m \in QueueNodes : next[m] = NULL => next'[m] = NULL
  BY <1>0, <1>2 DEF TypeOK, InOrder
<1>4. TypeOK'
  <2>1. pc' \in [Threads -> ConsumerSteps] /\ \A q \in Producers : pc'[q] \in ProducerSteps
    BY PcType DEF PushClear, ConsumerSteps, ProducerSteps
  <2> QED  BY <1>0, <1>3, <2>1 DEF TypeOK
<1>5. /\ Len(order) \in Nat /\ DOMAIN order = 1 .. Len(order) /\ Len(order) \in DOMAIN order
      /\ \A i \in 1 .. Len(order) - 1 : i \in DOMAIN order
  BY ListEnds
<1>6. ListIntegrity'
  <2>1. /\ order # <<>> /\ order[1] = tail /\ order[Len(order)] = head
        /\ \A i, j \in DOMAIN order : order[i] = order[j] => i = j
        /\ next'[head] = NULL
    BY <1>3, <1>5 DEF ListIntegrity
  <2>2. ASSUME NEW i \in 1 .. Len(order) - 1
        PROVE  \/ next'[order[i]] = order[i + 1]
               \/ /\ next'[order[i]] = NULL
                  /\ \E q \in Threads :
                       pc'[q] = "link" /\ cur[q] = order[i] /\ node[q] = order[i + 1]
    BY <1>0, <1>1, <1>3, <1>5 DEF ListIntegrity
  <2> QED  BY <1>0, <2>1, <2>2 DEF ListIntegrity
<1>7. LinkInv'
  <2> SUFFICES ASSUME NEW q \in Threads, pc'[q] = "link"
               PROVE  \E i \in 1 .. Len(order) - 1 :
                        cur[q] = order[i] /\ node[q] = order[i + 1] /\ next'[order[i]] = NULL
    BY <1>0 DEF LinkInv
  <2>1. pc[q] = "link"  BY <1>1
  <2>2. PICK i \in 1 .. Len(order) - 1 :
          cur[q] = order[i] /\ node[q] = order[i + 1] /\ next[order[i]] = NULL
    BY <2>1 DEF LinkInv
  <2>3. next'[order[i]] = NULL  BY <1>3, <1>5, <2>2
  <2> QED  BY <2>2, <2>3
<1>8. NodeInv'
  BY <1>0, <1>1, ThreadFacts DEF NodeInv, PushSteps
<1>9. FreshInv'
  <2>1. \A q \in Threads : pc'[q] \in {"clear", "load", "cas"} => ~InOrder(node[q])
    BY <1>0, <1>1 DEF FreshInv
  <2>2. ASSUME NEW q \in Threads, pc'[q] \in {"load", "cas"}  PROVE next'[node[q]] = NULL
    <3>1. CASE q = p  BY <1>3, <3>1
    <3>2. CASE q # p
      <4>1. pc[q] \in {"load", "cas"} /\ node[q] \in QueueNodes
        BY <1>1, <2>2, <3>2 DEF NodeInv, PushSteps, TypeOK
      <4> QED  BY <1>3, <4>1 DEF FreshInv
    <3> QED  BY <3>1, <3>2
  <2>3. \A q \in Threads : InOrder(node[q])' <=> InOrder(node[q])  BY <1>0 DEF InOrder
  <2> QED  BY <1>0, <2>1, <2>2, <2>3 DEF FreshInv
<1>10. OwnerInv'  BY <1>0 DEF OwnerInv, InOrder
<1>11. PopInv' /\ OverlapInv'  BY <1>0, <1>1, ThreadFacts DEF PopInv, OverlapInv
<1> QED  BY <1>4, <1>6, <1>7, <1>8, <1>9, <1>10, <1>11

\* The load of atm_full_xchg, and its compare-and-swap that fails.
LEMMA XchgLocalIInv ==
  ASSUME IInv, NEW p \in Threads, XchgLoad(p) \/ XchgCasFails(p)  PROVE IInv'
<1> USE DEF IInv
<1>0. UNCHANGED <<head, tail, next, node, last, popped, owner, order, overlap>>
  BY DEF XchgLoad, XchgCasFails, memory, history
<1>1. PICK step \in {"load", "cas"} :
        Goto(p, step) /\ pc[p] \in {"load", "cas"}
  BY DEF XchgLoad, XchgCasFails
<1>2. pc'[p] = step /\ \A q \in Threads \ {p} : pc'[q] = pc[q]
  BY <1>1, GotoMoves
<1>3. cur' \in [Threads -> QueueNodes \cup {NULL}] /\ \A q \in Threads \ {p} : cur'[q] = cur[q]
  BY DEF XchgLoad, XchgCasFails, TypeOK
<1>4. TypeOK'
  <2>1. pc' \in [Threads -> ConsumerSteps] /\ \A q \in Producers : pc'[q] \in ProducerSteps
    BY <1>1, PcType DEF ConsumerSteps, ProducerSteps
  <2> QED  BY <1>0, <1>3, <2>1 DEF TypeOK
<1>5. ListIntegrity' /\ LinkInv' /\ \A m : InOrder(m)' <=> InOrder(m)
  <2>1. \A q \in Threads : pc'[q] = "link" <=> pc[q] = "link"  BY <1>1, <1>2
  <2>2. \A q \in Threads : pc[q] = "link" => cur'[q] = cur[q] /\ node'[q] = node[q]
    BY <1>0, <1>1, <1>3
  <2> QED  BY <1>0, <2>1, <2>2, SameList
<1>6. NodeInv'  BY <1>0, <1>1, <1>2, ThreadFacts DEF NodeInv, PushSteps
<1>7. FreshInv'
  <2>1. \A q \in Threads : InOrder(node[q])' <=> InOrder(node[q])  BY <1>0 DEF InOrder
  <2>2. \A q \in Threads : pc'[q] \in {"clear", "load", "cas"} => ~InOrder(node[q])
    BY <1>1, <1>2 DEF FreshInv
  <2>3. \A q \in Threads : pc'[q] \in {"load", "cas"} => next'[node'[q]] = NULL
    BY <1>0, <1>1, <1>2 DEF FreshInv
  <2> QED  BY <2>1, <2>2, <2>3 DEF FreshInv
<1>8. OwnerInv'  BY <1>0 DEF OwnerInv, InOrder
<1>9. PopInv' /\ OverlapInv'
  BY <1>0, <1>1, <1>2, ThreadFacts DEF PopInv, OverlapInv
<1> QED  BY <1>4, <1>5, <1>6, <1>7, <1>8, <1>9

\* The exchange.
LEMMA XchgCasIInv ==
  ASSUME IInv, NEW p \in Threads, XchgCas(p)  PROVE IInv'
<1> USE DEF IInv
<1> PICK n : n = node[p]  OBVIOUS
<1> PICK L : L = Len(order)  OBVIOUS
<1>0. /\ UNCHANGED <<tail, next, node, cur, last, popped, owner, overlap>>
      /\ pc[p] = "cas" /\ head = cur[p] /\ head' = n /\ order' = Append(order, n)
  BY DEF XchgCas
<1>1. pc'[p] = "link" /\ \A q \in Threads \ {p} : pc'[q] = pc[q]
  BY GotoMoves DEF XchgCas
<1>2. n \in QueueNodes /\ ~InOrder(n) /\ next[n] = NULL
  BY <1>0 DEF TypeOK, NodeInv, FreshInv, PushSteps
<1>3. /\ order \in Seq(QueueNodes) /\ L \in Nat /\ L >= 1 /\ DOMAIN order = 1 .. L
      /\ order[1] = tail /\ order[L] = head
  BY ListEnds
<1>4. /\ order' \in Seq(QueueNodes) /\ Len(order') = L + 1 /\ order'[L + 1] = n
      /\ \A i \in 1 .. L : order'[i] = order[i]
  BY <1>0, <1>2, <1>3, AppendProperties
<1>5. DOMAIN order' = 1 .. L + 1 /\ \A i \in 1 .. L : order[i] # n
  BY <1>2, <1>3, <1>4 DEF InOrder
<1>6. \A m : InOrder(m)' => InOrder(m) \/ m = n
  BY <1>3, <1>4, <1>5 DEF InOrder
<1>7. TypeOK'
  <2>1. pc' \in [Threads -> ConsumerSteps] /\ \A q \in Producers : pc'[q] \in ProducerSteps
    BY PcType DEF XchgCas, ConsumerSteps, ProducerSteps
  <2> QED  BY <1>0, <1>2, <1>4, <2>1 DEF TypeOK
<1>8. ListIntegrity'
  <2>1. order' # <<>> /\ order'[1] = tail /\ order'[Len(order')] = head'
    BY <1>0, <1>3, <1>4
  <2>2. ASSUME NEW i \in 1 .. L + 1, NEW j \in 1 .. L + 1, order'[i] = order'[j]  PROVE i = j
    <3>1. CASE i \in 1 .. L /\ j \in 1 .. L
      BY <1>3, <1>4, <2>2, <3>1 DEF ListIntegrity
    <3>2. CASE i = L + 1 /\ j \in 1 .. L  BY <1>4, <1>5, <2>2, <3>2
    <3>3. CASE j = L + 1 /\ i \in 1 .. L  BY <1>4, <1>5, <2>2, <3>3
    <3> QED  BY <1>3, <3>1, <3>2, <3>3
  <2>3. next'[head'] = NULL  BY <1>0, <1>2
  <2>4. ASSUME NEW i \in 1 .. L
        PROVE  \/ next[order'[i]] = order'[i + 1]
               \/ /\ next[order'[i]] = NULL
                  /\ \E q \in Threads :
                       pc'[q] = "link" /\ cur[q] = order'[i] /\ node[q] = order'[i + 1]
    <3>1. CASE i = L
      <4>1. order'[i] = head /\ order'[i + 1] = n /\ next[head] = NULL
        BY <1>3, <1>4, <3>1 DEF ListIntegrity
      <4> QED  BY <1>0, <1>1, <4>1
    <3>2. CASE i # L
      <4>1. i \in 1 .. L - 1 /\ order'[i] = order[i] /\ order'[i + 1] = order[i + 1]
        BY <1>3, <1>4, <3>2
      <4>2. \/ next[order[i]] = order[i + 1]
            \/ /\ next[order[i]] = NULL
               /\ \E q \in Threads :
                    pc[q] = "link" /\ cur[q] = order[i] /\ node[q] = order[i + 1]
        BY <4>1 DEF ListIntegrity
      <4>3. \A q \in Threads : pc[q] = "link" => pc'[q] = "link"  BY <1>0, <1>1
      <4> QED  BY <4>1, <4>2, <4>3
    <3> QED  BY <3>1, <3>2
  <2>5. Len(order') - 1 = L  BY <1>3, <1>4
  <2> QED  BY <1>0, <1>5, <2>1, <2>2, <2>3, <2>4, <2>5 DEF ListIntegrity
<1>9. LinkInv'
  <2> SUFFICES ASSUME NEW q \in Threads, pc'[q] = "link"
               PROVE  \E i \in 1 .. L :
                        cur[q] = order'[i] /\ node[q] = order'[i + 1] /\ next[order'[i]] = NULL
    <3>1. Len(order') - 1 = L  BY <1>3, <1>4
    <3> QED  BY <1>0, <3>1 DEF LinkInv
  <2>1. CASE q = p
    <3>1. /\ L \in 1 .. L /\ cur[q] = order'[L] /\ node[q] = order'[L + 1]
          /\ next[order'[L]] = NULL
      BY <1>0, <1>3, <1>4, <2>1 DEF ListIntegrity
    <3> QED  BY <3>1
  <2>2. CASE q # p
    <3>1. PICK i \in 1 .. L - 1 :
            cur[q] = order[i] /\ node[q] = order[i + 1] /\ next[order[i]] = NULL
      BY <1>1, <2>2 DEF LinkInv
    <3>2. i \in 1 .. L /\ order'[i] = order[i] /\ order'[i + 1] = order[i + 1]
      BY <1>3, <1>4
    <3> QED  BY <3>1, <3>2
  <2> QED  BY <2>1, <2>2
<1>10. NodeInv'  BY <1>0, <1>1, ThreadFacts DEF NodeInv, PushSteps
<1>11. FreshInv'
  <2>1. ASSUME NEW q \in Threads, pc'[q] \in {"clear", "load", "cas"}
        PROVE  ~InOrder(node[q])'
    <3>1. q # p /\ pc[q] \in {"clear", "load", "cas"}  BY <1>1, <2>1
    <3>2. ~InOrder(node[q]) /\ node[q] # n
      BY <1>0, <3>1 DEF FreshInv, NodeInv, PushSteps
    <3>3. node' = node  BY <1>0
    <3> QED  BY <1>6, <3>2, <3>3 DEF InOrder
  <2>2. \A q \in Threads : pc'[q] \in {"load", "cas"} => next'[node'[q]] = NULL
    BY <1>0, <1>1 DEF FreshInv
  <2> QED  BY <2>1, <2>2 DEF FreshInv
<1>12. OwnerInv'
  <2> SUFFICES ASSUME NEW m \in Nodes, owner[m] = "client", InOrder(m)'  PROVE FALSE
    BY <1>0 DEF OwnerInv
  <2>1. m = n  BY <1>6 DEF OwnerInv
  <2>2. CASE p \in Producers  BY <1>0, <2>1, <2>2 DEF NodeInv, PushSteps
  <2>3. CASE p = Consumer  BY <1>0, <2>1, <2>3, ThreadFacts DEF NodeInv, PushSteps
  <2> QED  BY <2>2, <2>3, ThreadFacts
<1>13. PopInv'
  <2>1. last = (IF pc'[Consumer] = "idle" THEN NULL ELSE tail)
    BY <1>0, <1>1, ThreadFacts DEF PopInv
  <2>2. pc'[Consumer] \notin {"idle", "first"} => last # Stub
    BY <1>0, <1>1, ThreadFacts DEF PopInv
  <2>3. pc'[Consumer] # "idle" => last # n
    BY <1>2, <2>1, ListEnds
  <2> QED  BY <1>0, <2>1, <2>2, <2>3 DEF PopInv
<1>14. OverlapInv'
  <2>1. CASE p \in Producers
    <3>1. pc[Consumer] # "idle" => overlap  BY <1>0, <2>1 DEF OverlapInv, TypeOK
    <3> QED  BY <1>0, <1>1, <2>1, <3>1, ThreadFacts DEF OverlapInv
  <2>2. CASE p = Consumer
    BY <1>0, <1>1, <2>2, ThreadFacts DEF OverlapInv
  <2> QED  BY <2>1, <2>2, ThreadFacts
<1> QED  BY <1>7, <1>8, <1>9, <1>10, <1>11, <1>12, <1>13, <1>14

\* prev->next = n
LEMMA PushLinkIInv ==
  ASSUME IInv, NEW p \in Threads, PushLink(p)  PROVE IInv'
<1> USE DEF IInv
<1> PICK L : L = Len(order)  OBVIOUS
<1>0. /\ UNCHANGED <<head, tail, last, popped, owner, order, overlap>>
      /\ pc[p] = "link" /\ next' = [next EXCEPT ![cur[p]] = node[p]]
      /\ node' = [node EXCEPT ![p] = NULL] /\ cur' = [cur EXCEPT ![p] = NULL]
  BY DEF PushLink, history
<1>1. PICK step \in {"again", "idle"} :
        /\ Goto(p, step)
        /\ p \in Producers => step = "idle"
        /\ p = Consumer => step = "again"
  BY ThreadFacts DEF PushLink
<1>2. pc'[p] = step /\ \A q \in Threads \ {p} : pc'[q] = pc[q]
  BY <1>1, GotoMoves
<1>3. PICK k \in 1 .. L - 1 :
        cur[p] = order[k] /\ node[p] = order[k + 1] /\ next[order[k]] = NULL
  BY <1>0 DEF LinkInv
<1>4. /\ order \in Seq(QueueNodes) /\ L \in Nat /\ L >= 1 /\ DOMAIN order = 1 .. L
      /\ order[1] = tail /\ order[L] = head
      /\ \A i, j \in 1 .. L : order[i] = order[j] => i = j
  BY ListEnds DEF ListIntegrity
<1>5. /\ k \in 1 .. L /\ k # L /\ cur[p] \in QueueNodes /\ node[p] \in QueueNodes
      /\ k + 1 \in 1 .. L
  BY <1>3, <1>4
<1>6. /\ next' \in [QueueNodes -> QueueNodes \cup {NULL}]
      /\ next'[order[k]] = order[k + 1]
      /\ \A i \in 1 .. L : i # k => next'[order[i]] = next[order[i]]
      /\ \A m \in QueueNodes : m # order[k] => next'[m] = next[m]
  BY <1>0, <1>3, <1>4, <1>5 DEF TypeOK
<1>7. /\ node'[p] = NULL /\ cur'[p] = NULL
      /\ \A q \in Threads \ {p} : node'[q] = node[q] /\ cur'[q] = cur[q]
      /\ node' \in [Threads -> QueueNodes \cup {NULL}]
      /\ cur' \in [Threads -> QueueNodes \cup {NULL}]
  BY <1>0 DEF TypeOK
<1>8. TypeOK'
  <2>1. pc' \in [Threads -> ConsumerSteps] /\ \A q \in Producers : pc'[q] \in ProducerSteps
    BY <1>1, PcType DEF ConsumerSteps, ProducerSteps
  <2> QED  BY <1>0, <1>6, <1>7, <2>1 DEF TypeOK
<1>9. ListIntegrity'
  <2>1. order # <<>> /\ order[1] = tail /\ order[L] = head  BY DEF ListIntegrity
  <2>2. next'[head] = NULL  BY <1>4, <1>5, <1>6 DEF ListIntegrity
  <2>3. ASSUME NEW i \in 1 .. L - 1
        PROVE  \/ next'[order[i]] = order[i + 1]
               \/ /\ next'[order[i]] = NULL
                  /\ \E q \in Threads :
                       pc'[q] = "link" /\ cur'[q] = order[i] /\ node'[q] = order[i + 1]
    <3>1. CASE i = k  BY <1>6, <3>1
    <3>2. CASE i # k
      <4>1. i \in 1 .. L /\ next'[order[i]] = next[order[i]]  BY <1>4, <1>6, <3>2
      <4>2. CASE next[order[i]] = order[i + 1]  BY <4>1, <4>2
      <4>3. CASE next[order[i]] # order[i + 1]
        <5>1. next[order[i]] = NULL  BY <4>3 DEF ListIntegrity
        <5>2. PICK q \in Threads :
                pc[q] = "link" /\ cur[q] = order[i] /\ node[q] = order[i + 1]
          BY <4>3 DEF ListIntegrity
        <5>3. q # p  BY <1>3, <1>4, <1>5, <3>2, <4>1, <5>2
        <5>4. pc'[q] = "link" /\ cur'[q] = order[i] /\ node'[q] = order[i + 1]
          BY <1>2, <1>7, <5>2, <5>3
        <5> QED  BY <4>1, <5>1, <5>4
      <4> QED  BY <4>2, <4>3
    <3> QED  BY <3>1, <3>2
  <2> QED  BY <1>0, <1>4, <2>1, <2>2, <2>3 DEF ListIntegrity
<1>10. LinkInv'
  <2> SUFFICES ASSUME NEW q \in Threads, pc'[q] = "link"
               PROVE  \E i \in 1 .. L - 1 :
                        cur'[q] = order[i] /\ node'[q] = order[i + 1] /\ next'[order[i]] = NULL
    BY <1>0 DEF LinkInv
  <2>1. q # p /\ pc[q] = "link" /\ cur'[q] = cur[q] /\ node'[q] = node[q]
    BY <1>2, <1>7
  <2>2. PICK i \in 1 .. L - 1 :
          cur[q] = order[i] /\ node[q] = order[i + 1] /\ next[order[i]] = NULL
    BY <2>1 DEF LinkInv
  <2>3. node[q] # node[p]  BY <1>0, <2>1 DEF NodeInv, PushSteps
  <2>4. i # k /\ i \in 1 .. L  BY <1>3, <1>4, <2>2, <2>3
  <2> QED  BY <1>6, <2>1, <2>2, <2>4
<1>11. NodeInv'
  <2>1. \A q \in Threads : node'[q] # NULL <=> pc'[q] \in PushSteps
    BY <1>1, <1>2, <1>7 DEF NodeInv, PushSteps
  <2>2. \A q, r \in Threads : node'[q] # NULL /\ node'[q] = node'[r] => q = r
    BY <1>7 DEF NodeInv
  <2>3. \A q \in Producers : pc'[q] \in PushSteps =>
          node'[q] \in Nodes /\ owner'[node'[q]] = "queue"
    BY <1>0, <1>1, <1>2, <1>7, ThreadFacts DEF NodeInv, PushSteps
  <2>4. pc'[Consumer] \in PushSteps => node'[Consumer] = Stub
    BY <1>1, <1>2, <1>7, ThreadFacts DEF NodeInv, PushSteps
  <2> QED  BY <2>1, <2>2, <2>3, <2>4 DEF NodeInv
<1>12. FreshInv'
  <2>1. ASSUME NEW q \in Threads, pc'[q] \in {"clear", "load", "cas"}
        PROVE  /\ ~InOrder(node[q]) /\ node'[q] = node[q]
               /\ pc[q] = pc'[q] /\ node[q] \in QueueNodes
    BY <1>1, <1>2, <1>7, <2>1 DEF FreshInv, NodeInv, PushSteps, TypeOK
  <2>2. ASSUME NEW q \in Threads, pc'[q] \in {"clear", "load", "cas"}
        PROVE  ~InOrder(node[q])'
    BY <1>0, <2>1, <2>2 DEF InOrder
  <2>3. ASSUME NEW q \in Threads, pc'[q] \in {"load", "cas"}  PROVE next'[node'[q]] = NULL
    <3>1. ~InOrder(node[q]) /\ node'[q] = node[q] /\ pc[q] = pc'[q] /\ node[q] \in QueueNodes
      BY <2>1, <2>3
    <3>2. node[q] # order[k]  BY <1>4, <1>5, <3>1 DEF InOrder
    <3> QED  BY <1>6, <2>3, <3>1, <3>2 DEF FreshInv
  <2> QED  BY <2>2, <2>3 DEF FreshInv
<1>13. OwnerInv'  BY <1>0 DEF OwnerInv, InOrder
<1>14. PopInv' /\ OverlapInv'
  BY <1>0, <1>1, <1>2, ThreadFacts DEF PopInv, OverlapInv
<1> QED  BY <1>8, <1>9, <1>10, <1>11, <1>12, <1>13, <1>14

----------------------------------------------------------------------------
(* mpscq_pop                                                               *)

\* Steps of the consumer outside a push that leave the list alone: the call,
\* the tests that take nothing, the returns of NULL.
LEMMA PopLocal ==
  ASSUME IInv, UNCHANGED <<head, tail, next, node, cur, owner, order>>,
         NEW step \in {"first", "head", "idle"}, Goto(Consumer, step),
         pc[Consumer] \notin PushSteps,
         last' \in QueueNodes \cup {NULL}, popped' \in {popped, NULL}, overlap' \in BOOLEAN
  PROVE  /\ TypeOK' /\ ListIntegrity' /\ NodeInv' /\ FreshInv' /\ LinkInv' /\ OwnerInv'
         /\ pc'[Consumer] = step /\ \A q \in Producers : pc'[q] = pc[q]
<1> USE DEF IInv
<1>1. pc'[Consumer] = step /\ \A q \in Threads \ {Consumer} : pc'[q] = pc[q]
  BY GotoMoves, ThreadFacts
<1>2. TypeOK'
  <2>1. pc' \in [Threads -> ConsumerSteps] /\ \A q \in Producers : pc'[q] \in ProducerSteps
    BY PcType, ThreadFacts DEF ConsumerSteps, ProducerSteps
  <2> QED  BY <2>1 DEF TypeOK
<1>3. \A q \in Threads : \A s \in PushSteps : pc'[q] = s <=> pc[q] = s
  BY <1>1 DEF PushSteps
<1>4. ListIntegrity' /\ LinkInv'  BY <1>3, SameList DEF PushSteps
<1>5. NodeInv'  BY <1>3, ThreadFacts DEF NodeInv
<1>6. FreshInv'
  <2>1. \A q \in Threads : InOrder(node[q])' <=> InOrder(node[q])  BY DEF InOrder
  <2> QED  BY <1>3, <2>1 DEF FreshInv, PushSteps
<1>7. OwnerInv'  BY DEF OwnerInv, InOrder
<1> QED  BY <1>1, <1>2, <1>4, <1>5, <1>6, <1>7, ThreadFacts

\* tail = self->tail
LEMMA PopCallIInv ==
  ASSUME IInv, PopCall  PROVE IInv'
<1>0. /\ UNCHANGED <<head, tail, next, node, cur, popped, owner, order>>
      /\ pc[Consumer] = "idle" /\ last' = tail
      /\ overlap' = (\E p \in Producers : Pushing(p)) /\ Goto(Consumer, "first")
  BY DEF PopCall, memory
<1>1. /\ TypeOK' /\ ListIntegrity' /\ NodeInv' /\ FreshInv' /\ LinkInv' /\ OwnerInv'
      /\ pc'[Consumer] = "first" /\ \A q \in Producers : pc'[q] = pc[q]
  <2>1. last' \in QueueNodes \cup {NULL} /\ overlap' \in BOOLEAN
    BY <1>0 DEF IInv, TypeOK
  <2> QED  BY <1>0, <2>1, PopLocal DEF PushSteps
<1>2. PopInv'  BY <1>0, <1>1 DEF PopInv
<1>3. OverlapInv'  BY <1>0, <1>1 DEF OverlapInv, Pushing
<1> QED  BY <1>1, <1>2, <1>3 DEF IInv

\* return 0
LEMMA PopNullIInv ==
  ASSUME IInv, PopReturnsNull, pc[Consumer] \notin PushSteps  PROVE IInv'
<1>0. /\ UNCHANGED <<head, tail, next, node, cur, owner, order, overlap>>
      /\ last' = NULL /\ popped' = NULL /\ Goto(Consumer, "idle")
  BY DEF PopReturnsNull, memory, history
<1>1. /\ TypeOK' /\ ListIntegrity' /\ NodeInv' /\ FreshInv' /\ LinkInv' /\ OwnerInv'
      /\ pc'[Consumer] = "idle" /\ \A q \in Producers : pc'[q] = pc[q]
  <2>1. last' \in QueueNodes \cup {NULL} /\ overlap' \in BOOLEAN
    BY <1>0 DEF IInv, TypeOK
  <2> QED  BY <1>0, <2>1, PopLocal
<1>2. PopInv' /\ OverlapInv'  BY <1>0, <1>1 DEF PopInv, OverlapInv
<1> QED  BY <1>1, <1>2 DEF IInv

\* Without an overlap a null next field means the end of the list.
LEMMA NullIsEnd ==
  ASSUME IInv, pc[Consumer] \in {"first", "second", "again"}, ~overlap, next[last] = NULL
  PROVE  Len(order) = 1 /\ last = head
<1>1. last = tail /\ \A p \in Producers : pc[p] = "idle"  BY DEF IInv, PopInv, OverlapInv
<1>2. 1 \in DOMAIN order /\ order[1] = last /\ order[Len(order)] = head
  BY <1>1, ListEnds
<1>3. ~\E p \in Threads : pc[p] = "link"  BY <1>1, ThreadFacts
<1>4. 1 = Len(order)  BY <1>2, <1>3, NullNext
<1> QED  BY <1>2, <1>4

\* The node is the last one that is linked: look at head.
LEMMA PopToHeadIInv ==
  ASSUME IInv, pc[Consumer] \in {"first", "second"}, next[last] = NULL, last # Stub,
         Goto(Consumer, "head"),
         UNCHANGED <<memory, node, cur, last, popped, owner, history>>
  PROVE  IInv'
<1>0. UNCHANGED <<head, tail, next, node, cur, owner, order, last, popped, overlap>>
  BY DEF memory, history
<1>1. /\ TypeOK' /\ ListIntegrity' /\ NodeInv' /\ FreshInv' /\ LinkInv' /\ OwnerInv'
      /\ pc'[Consumer] = "head" /\ \A q \in Producers : pc'[q] = pc[q]
  <2>1. last' \in QueueNodes \cup {NULL} /\ overlap' \in BOOLEAN
    BY <1>0 DEF IInv, TypeOK
  <2> QED  BY <1>0, <2>1, PopLocal DEF PushSteps
<1>2. PopInv'  BY <1>0, <1>1 DEF PopInv, IInv
<1>3. OverlapInv'
  <2>1. ~overlap => last = head  BY NullIsEnd
  <2> QED  BY <1>0, <1>1, <2>1 DEF OverlapInv, IInv
<1> QED  BY <1>1, <1>2, <1>3 DEF IInv

\* The stub is about to be pushed behind the only node.
LEMMA PopPushIInv ==
  ASSUME IInv, pc[Consumer] = "head", last = head, Goto(Consumer, "clear"),
         node' = [node EXCEPT ![Consumer] = Stub],
         UNCHANGED <<memory, cur, last, popped, owner, history>>
  PROVE  IInv'
<1> USE DEF IInv
<1>0. UNCHANGED <<head, tail, next, cur, owner, order, last, popped, overlap>>
  BY DEF memory, history
<1>1. /\ pc'[Consumer] = "clear" /\ \A q \in Threads \ {Consumer} : pc'[q] = pc[q]
      /\ node'[Consumer] = Stub /\ \A q \in Threads \ {Consumer} : node'[q] = node[q]
  BY GotoMoves, ThreadFacts DEF TypeOK
<1>2. TypeOK'
  <2>1. pc' \in [Threads -> ConsumerSteps] /\ \A q \in Producers : pc'[q] \in ProducerSteps
    BY PcType, ThreadFacts DEF ConsumerSteps, ProducerSteps
  <2> QED  BY <1>0, <2>1, ThreadFacts DEF TypeOK
<1>3. ~InOrder(Stub)
  <2>1. last = tail /\ last # Stub  BY DEF PopInv
  <2>2. Len(order) \in Nat /\ Len(order) >= 1 /\ DOMAIN order = 1 .. Len(order)
    BY ListEnds
  <2>3. Len(order) = 1  BY <2>1, <2>2 DEF ListIntegrity
  <2> QED  BY <2>1, <2>2, <2>3 DEF InOrder, ListIntegrity
<1>4. ListIntegrity' /\ LinkInv'
  <2>1. \A q \in Threads : pc'[q] = "link" <=> pc[q] = "link"  BY <1>1
  <2>2. \A q \in Threads : pc[q] = "link" => cur'[q] = cur[q] /\ node'[q] = node[q]
    BY <1>0, <1>1
  <2> QED  BY <1>0, <2>1, <2>2, SameList
<1>5. NodeInv'
  <2>1. \A q \in Threads : node'[q] # NULL <=> pc'[q] \in PushSteps
    BY <1>1, ThreadFacts DEF NodeInv, PushSteps
  <2>2. \A q \in Threads \ {Consumer} : node[q] # Stub
    <3> SUFFICES ASSUME NEW q \in Producers, node[q] = Stub  PROVE FALSE  BY ThreadFacts
    <3>1. pc[q] \in PushSteps  BY ThreadFacts DEF NodeInv
    <3> QED  BY <3>1, ThreadFacts DEF NodeInv
  <2>3. \A q, r \in Threads : node'[q] # NULL /\ node'[q] = node'[r] => q = r
    BY <1>1, <2>2 DEF NodeInv
  <2>4. \A q \in Producers : pc'[q] \in PushSteps =>
          node'[q] \in Nodes /\ owner'[node'[q]] = "queue"
    BY <1>0, <1>1, ThreadFacts DEF NodeInv
  <2> QED  BY <1>1, <2>1, <2>3, <2>4 DEF NodeInv
<1>6. FreshInv'
  <2>1. ASSUME NEW q \in Threads, pc'[q] \in {"clear", "load", "cas"}
        PROVE  ~InOrder(node'[q])
    BY <1>1, <1>3, <2>1 DEF FreshInv
  <2>2. \A q \in Threads : InOrder(node[q])' <=> InOrder(node'[q])  BY <1>0 DEF InOrder
  <2>3. \A q \in Threads : pc'[q] \in {"load", "cas"} => next'[node'[q]] = NULL
    BY <1>0, <1>1 DEF FreshInv
  <2> QED  BY <2>1, <2>2, <2>3 DEF FreshInv
<1>7. OwnerInv'  BY <1>0 DEF OwnerInv, InOrder
<1>8. PopInv' /\ OverlapInv'  BY <1>0, <1>1, ThreadFacts DEF PopInv, OverlapInv
<1> QED  BY <1>2, <1>4, <1>5, <1>6, <1>7, <1>8

\* The first node leaves the list: no pusher has it as prev.
LEMMA TakeFirst ==
  ASSUME IInv, pc[Consumer] \in {"first", "second", "again"}, next[last] # NULL,
         order' = Tail(order), tail' = next[last], UNCHANGED <<head, next, node, cur>>,
         NEW step \in {"second", "idle"}, Goto(Consumer, step)
  PROVE  /\ ListIntegrity' /\ LinkInv'
         /\ order' \in Seq(QueueNodes) /\ tail' \in QueueNodes /\ Len(order) >= 2
         /\ order[1] = last /\ tail' # last
         /\ \A m : InOrder(m)' => InOrder(m) /\ m # last
         /\ pc' \in [Threads -> ConsumerSteps] /\ \A q \in Producers : pc'[q] \in ProducerSteps
         /\ pc'[Consumer] = step /\ \A q \in Threads \ {Consumer} : pc'[q] = pc[q]
<1> USE DEF IInv
<1> PICK L : L = Len(order)  OBVIOUS
<1>1. /\ order \in Seq(QueueNodes) /\ L \in Nat /\ L >= 1 /\ DOMAIN order = 1 .. L
      /\ order[1] = tail /\ order[L] = head /\ order # <<>>
      /\ \A i, j \in 1 .. L : order[i] = order[j] => i = j
  BY ListEnds DEF ListIntegrity
<1>2. order[1] = last /\ 1 \in DOMAIN order  BY <1>1 DEF PopInv
<1>3. L >= 2 /\ next[last] = order[2]
  BY <1>1, <1>2, NextFollows
<1>4. /\ order' \in Seq(QueueNodes) /\ Len(order') = L - 1
      /\ \A i \in 1 .. L - 1 : order'[i] = order[i + 1]
  BY <1>1, HeadTailProperties
<1>5. DOMAIN order' = 1 .. L - 1  BY <1>1, <1>4
<1>6. /\ pc'[Consumer] = step /\ \A q \in Threads \ {Consumer} : pc'[q] = pc[q]
      /\ pc' \in [Threads -> ConsumerSteps] /\ \A q \in Producers : pc'[q] \in ProducerSteps
  BY GotoMoves, PcType, ThreadFacts DEF ConsumerSteps, ProducerSteps
<1>7. \A q \in Threads : pc'[q] = "link" <=> pc[q] = "link"  BY <1>6
<1>8. ASSUME NEW m, InOrder(m)'  PROVE InOrder(m) /\ m # last
  <2>1. PICK i \in 1 .. L - 1 : order'[i] = m  BY <1>5, <1>8 DEF InOrder
  <2>2. order[i + 1] = m /\ i + 1 \in 1 .. L /\ i + 1 # 1  BY <1>1, <1>4, <2>1
  <2> QED  BY <1>1, <1>2, <2>2 DEF InOrder
<1>9. ListIntegrity'
  <2>1. order' # <<>> /\ order'[1] = tail' /\ order'[Len(order')] = head
    <3>1. 1 \in 1 .. L - 1 /\ L - 1 \in 1 .. L - 1 /\ L - 1 + 1 = L /\ Len(order') # 0
      BY <1>1, <1>3, <1>4
    <3>2. order'[1] = order[2] /\ order'[L - 1] = order[L]  BY <1>4, <3>1
    <3>3. order' # <<>>  BY <3>1
    <3> QED  BY <1>1, <1>3, <1>4, <3>2, <3>3
  <2>2. \A i, j \in DOMAIN order' : order'[i] = order'[j] => i = j
    <3> SUFFICES ASSUME NEW i \in 1 .. L - 1, NEW j \in 1 .. L - 1, order'[i] = order'[j]
                 PROVE  i = j
      BY <1>5
    <3>1. i + 1 \in 1 .. L /\ j + 1 \in 1 .. L /\ order[i + 1] = order[j + 1]  BY <1>1, <1>4
    <3>2. i + 1 = j + 1  BY <1>1, <3>1
    <3> QED  BY <3>2
  <2>3. ASSUME NEW i \in 1 .. Len(order') - 1
        PROVE  \/ next[order'[i]] = order'[i + 1]
               \/ /\ next[order'[i]] = NULL
                  /\ \E q \in Threads :
                       pc'[q] = "link" /\ cur[q] = order'[i] /\ node[q] = order'[i + 1]
    <3>1. i + 1 \in 1 .. L - 1 /\ order'[i] = order[i + 1] /\ order'[i + 1] = order[i + 1 + 1]
      BY <1>1, <1>4
    <3>2. PICK j \in 1 .. L - 1 : j = i + 1  BY <3>1
    <3>3. \/ next[order[j]] = order[j + 1]
          \/ /\ next[order[j]] = NULL
             /\ \E q \in Threads : pc[q] = "link" /\ cur[q] = order[j] /\ node[q] = order[j + 1]
      BY DEF ListIntegrity
    <3> QED  BY <1>7, <3>1, <3>2, <3>3
  <2>4. next'[head'] = NULL  BY DEF ListIntegrity
  <2> QED  BY <2>1, <2>2, <2>3, <2>4 DEF ListIntegrity
<1>10. LinkInv'
  <2> SUFFICES ASSUME NEW q \in Threads, pc'[q] = "link"
               PROVE  \E i \in 1 .. Len(order') - 1 :
                        cur[q] = order'[i] /\ node[q] = order'[i + 1] /\ next[order'[i]] = NULL
    BY DEF LinkInv
  <2>1. PICK j \in 1 .. L - 1 :
          cur[q] = order[j] /\ node[q] = order[j + 1] /\ next[order[j]] = NULL
    BY <1>7 DEF LinkInv
  <2>2. j # 1  BY <1>2, <2>1
  <2>3. PICK i \in 1 .. L - 2 : j = i + 1  BY <1>1, <2>2
  <2>4. i \in 1 .. Len(order') - 1 /\ order'[i] = order[j] /\ order'[i + 1] = order[j + 1]
    BY <1>1, <1>4, <2>3
  <2> QED  BY <2>1, <2>4
<1>11. tail' \in QueueNodes /\ tail' # last  BY <1>1, <1>2, <1>3
<1> QED  BY <1>1, <1>2, <1>3, <1>4, <1>6, <1>8, <1>9, <1>10, <1>11

\* What else a step keeps that takes the first node: no pusher has that node.
LEMMA TakeKeeps ==
  ASSUME IInv, UNCHANGED <<head, next, node, cur>>,
         pc[Consumer] \notin PushSteps, pc'[Consumer] \notin PushSteps,
         \A q \in Threads \ {Consumer} : pc'[q] = pc[q],
         \A m : InOrder(m)' => InOrder(m) /\ m # last,
         order[1] = last, owner' = owner \/ owner' = [owner EXCEPT ![last] = "client"]
  PROVE  NodeInv' /\ FreshInv' /\ OwnerInv'
<1> USE DEF IInv
<1>1. \A q \in Threads : \A s \in PushSteps : pc'[q] = s <=> pc[q] = s  BY DEF PushSteps
<1>2. \A m \in Nodes : m # last => owner'[m] = owner[m]  BY DEF TypeOK
<1>3. ASSUME NEW q \in Threads, pc[q] \in PushSteps  PROVE node[q] # last
  <2>1. /\ Len(order) \in Nat /\ DOMAIN order = 1 .. Len(order) /\ 1 \in DOMAIN order
        /\ \A i, j \in DOMAIN order : order[i] = order[j] => i = j
    BY ListEnds DEF ListIntegrity
  <2>2. CASE pc[q] # "link"
    <3>1. ~InOrder(node[q])  BY <1>3, <2>2 DEF FreshInv, PushSteps
    <3> QED  BY <2>1, <3>1 DEF InOrder
  <2>3. CASE pc[q] = "link"
    <3>1. PICK i \in 1 .. Len(order) - 1 : node[q] = order[i + 1]  BY <2>3 DEF LinkInv
    <3>2. i + 1 \in DOMAIN order /\ i + 1 # 1  BY <2>1
    <3> QED  BY <2>1, <3>1, <3>2
  <2> QED  BY <2>2, <2>3
<1>4. NodeInv'
  <2>1. \A q \in Producers : pc'[q] \in PushSteps =>
          node'[q] \in Nodes /\ owner'[node'[q]] = "queue"
    BY <1>1, <1>2, <1>3, ThreadFacts DEF NodeInv
  <2> QED  BY <1>1, <2>1, ThreadFacts DEF NodeInv
<1>5. FreshInv'
  <2>1. ASSUME NEW q \in Threads, pc'[q] \in {"clear", "load", "cas"}  PROVE ~InOrder(node[q])'
    <3>1. ~InOrder(node[q])  BY <1>1, <2>1 DEF FreshInv, PushSteps
    <3>2. PICK m : m = node[q]  OBVIOUS
    <3>3. ~InOrder(m)'  BY <3>1, <3>2
    <3> QED  BY <3>2, <3>3 DEF InOrder
  <2>2. \A q \in Threads : pc'[q] \in {"load", "cas"} => next'[node'[q]] = NULL
    BY <1>1 DEF FreshInv, PushSteps
  <2> QED  BY <2>1, <2>2 DEF FreshInv
<1>6. OwnerInv'
  BY <1>2 DEF OwnerInv
<1> QED  BY <1>4, <1>5, <1>6

\* self->tail = next; return tail
LEMMA PopReturnsIInv ==
  ASSUME IInv, pc[Consumer] \in {"first", "second", "again"}, next[last] # NULL, last # Stub,
         PopReturns(next[last])
  PROVE  IInv'
<1> USE DEF IInv
<1>0. /\ UNCHANGED <<head, next, node, cur, overlap>>
      /\ tail' = next[last] /\ popped' = last /\ last' = NULL /\ order' = Tail(order)
      /\ owner' = [owner EXCEPT ![last] = "client"] /\ Goto(Consumer, "idle")
  BY DEF PopReturns
<1>1. /\ ListIntegrity' /\ LinkInv'
      /\ order' \in Seq(QueueNodes) /\ tail' \in QueueNodes /\ order[1] = last
      /\ \A m : InOrder(m)' => InOrder(m) /\ m # last
      /\ pc' \in [Threads -> ConsumerSteps] /\ \A q \in Producers : pc'[q] \in ProducerSteps
      /\ pc'[Consumer] = "idle" /\ \A q \in Threads \ {Consumer} : pc'[q] = pc[q]
  BY <1>0, TakeFirst
<1>2. NodeInv' /\ FreshInv' /\ OwnerInv'
  <2>1. pc[Consumer] \notin PushSteps /\ pc'[Consumer] \notin PushSteps  BY <1>1 DEF PushSteps
  <2> QED  BY <1>0, <1>1, <2>1, TakeKeeps
<1>3. TypeOK'  BY <1>0, <1>1 DEF TypeOK
<1>4. PopInv' /\ OverlapInv'  BY <1>0, <1>1 DEF PopInv, OverlapInv
<1> QED  BY <1>1, <1>2, <1>3, <1>4

\* The stub is skipped.
LEMMA PopSkipIInv ==
  ASSUME IInv, pc[Consumer] = "first", next[last] # NULL, last = Stub,
         tail' = next[last], last' = next[last], order' = Tail(order), Goto(Consumer, "second"),
         UNCHANGED <<head, next, node, cur, popped, owner, overlap>>
  PROVE  IInv'
<1> USE DEF IInv
<1>1. /\ ListIntegrity' /\ LinkInv'
      /\ order' \in Seq(QueueNodes) /\ tail' \in QueueNodes /\ order[1] = last /\ tail' # last
      /\ \A m : InOrder(m)' => InOrder(m) /\ m # last
      /\ pc' \in [Threads -> ConsumerSteps] /\ \A q \in Producers : pc'[q] \in ProducerSteps
      /\ pc'[Consumer] = "second" /\ \A q \in Threads \ {Consumer} : pc'[q] = pc[q]
  BY TakeFirst
<1>2. NodeInv' /\ FreshInv' /\ OwnerInv'
  <2>1. pc[Consumer] \notin PushSteps /\ pc'[Consumer] \notin PushSteps  BY <1>1 DEF PushSteps
  <2> QED  BY <1>1, <2>1, TakeKeeps
<1>3. TypeOK'  BY <1>1 DEF TypeOK
<1>4. PopInv' /\ OverlapInv'  BY <1>1, ThreadFacts DEF PopInv, OverlapInv
<1> QED  BY <1>1, <1>2, <1>3, <1>4

----------------------------------------------------------------------------
(* The invariants.                                                         *)

\* mpscq_pop returns NULL: behind the stub nothing is linked, the head has
\* moved on, or nothing is linked behind the node after the push of the stub.
NullReturn ==
  /\ PopReturnsNull
  /\ \/ pc[Consumer] = "first" /\ last = Stub /\ next[last] = NULL
     \/ pc[Consumer] = "head" /\ last # head
     \/ pc[Consumer] = "again" /\ next[last] = NULL

\* A step of mpscq_pop is one of the cases above.
LEMMA PopCases ==
  ASSUME IInv, mpscq_pop
  PROVE  \/ PopCall
         \/ NullReturn
         \/ /\ pc[Consumer] \in {"first", "second"} /\ next[last] = NULL /\ last # Stub
            /\ Goto(Consumer, "head")
            /\ UNCHANGED <<memory, node, cur, last, popped, owner, history>>
         \/ /\ pc[Consumer] = "head" /\ last = head /\ Goto(Consumer, "clear")
            /\ node' = [node EXCEPT ![Consumer] = Stub]
            /\ UNCHANGED <<memory, cur, last, popped, owner, history>>
         \/ /\ pc[Consumer] \in {"first", "second", "again"} /\ next[last] # NULL /\ last # Stub
            /\ PopReturns(next[last])
         \/ /\ pc[Consumer] = "first" /\ next[last] # NULL /\ last = Stub
            /\ tail' = next[last] /\ last' = next[last] /\ order' = Tail(order)
            /\ Goto(Consumer, "second")
            /\ UNCHANGED <<head, next, node, cur, popped, owner, overlap>>
<1>1. pc[Consumer] \in {"second", "again"} => last # Stub  BY DEF IInv, PopInv
<1>2. CASE PopCall  BY <1>2
<1>3. CASE PopFirst  BY <1>3 DEF PopFirst, NullReturn
<1>4. CASE PopSecond  BY <1>1, <1>4 DEF PopSecond
<1>5. CASE PopHead  BY <1>5 DEF PopHead, NullReturn
<1>6. CASE PopAgain  BY <1>1, <1>6 DEF PopAgain, NullReturn
<1> QED  BY <1>2, <1>3, <1>4, <1>5, <1>6 DEF mpscq_pop

\* Every step of mpscq_pop keeps the invariant.
LEMMA PopIInv ==
  ASSUME IInv, mpscq_pop  PROVE IInv'
<1>1. CASE PopCall  BY <1>1, PopCallIInv
<1>2. CASE NullReturn
  <2>1. pc[Consumer] \notin PushSteps /\ PopReturnsNull  BY <1>2 DEF PushSteps, NullReturn
  <2> QED  BY <2>1, PopNullIInv
<1>3. CASE /\ pc[Consumer] \in {"first", "second"} /\ next[last] = NULL /\ last # Stub
           /\ Goto(Consumer, "head")
           /\ UNCHANGED <<memory, node, cur, last, popped, owner, history>>
  BY <1>3, PopToHeadIInv
<1>4. CASE /\ pc[Consumer] = "head" /\ last = head /\ Goto(Consumer, "clear")
           /\ node' = [node EXCEPT ![Consumer] = Stub]
           /\ UNCHANGED <<memory, cur, last, popped, owner, history>>
  BY <1>4, PopPushIInv
<1>5. CASE /\ pc[Consumer] \in {"first", "second", "again"} /\ next[last] # NULL /\ last # Stub
           /\ PopReturns(next[last])
  BY <1>5, PopReturnsIInv
<1>6. CASE /\ pc[Consumer] = "first" /\ next[last] # NULL /\ last = Stub
           /\ tail' = next[last] /\ last' = next[last] /\ order' = Tail(order)
           /\ Goto(Consumer, "second")
           /\ UNCHANGED <<head, next, node, cur, popped, owner, overlap>>
  BY <1>6, PopSkipIInv
<1> QED  BY <1>1, <1>2, <1>3, <1>4, <1>5, <1>6, PopCases

\* mpscq_create establishes the invariant.
LEMMA InitIInv ==
  Init => IInv
<1> SUFFICES ASSUME Init  PROVE IInv  OBVIOUS
<1> USE DEF Init
<1>1. Len(order) = 1 /\ order[1] = Stub /\ DOMAIN order = 1 .. 1  OBVIOUS
<1>2. TypeOK
  <2>1. order \in Seq(QueueNodes)  BY ThreadFacts
  <2> QED  BY <2>1, ThreadFacts DEF TypeOK, ConsumerSteps, ProducerSteps
<1>3. ListIntegrity  BY <1>1, ThreadFacts DEF ListIntegrity
<1>4. NodeInv /\ FreshInv /\ LinkInv  BY ThreadFacts DEF NodeInv, FreshInv, LinkInv, PushSteps
<1>5. OwnerInv  BY <1>1, ThreadFacts DEF OwnerInv, InOrder
<1>6. PopInv /\ OverlapInv  BY ThreadFacts DEF PopInv, OverlapInv
<1> QED  BY <1>2, <1>3, <1>4, <1>5, <1>6 DEF IInv

\* Every step keeps it.
LEMMA StepIInv ==
  IInv /\ [Next]_vars => IInv'
<1> SUFFICES ASSUME IInv, [Next]_vars  PROVE IInv'  OBVIOUS
<1>1. ASSUME NEW p \in Producers, NEW n \in Nodes, PushCall(p, n)  PROVE IInv'
  BY <1>1, PushCallIInv
<1>2. ASSUME NEW p \in Threads, Push(p)  PROVE IInv'
  BY <1>2, PushClearIInv, XchgLocalIInv, XchgCasIInv, PushLinkIInv DEF Push
<1>3. CASE mpscq_pop  BY <1>3, PopIInv
<1>4. CASE UNCHANGED vars
  <2> USE DEF IInv
  <2>0. UNCHANGED <<head, tail, next, pc, node, cur, last, popped, owner, order, overlap>>
    BY <1>4 DEF vars, memory, history
  <2>1. ListIntegrity' /\ LinkInv'  BY <2>0, SameList
  <2>2. TypeOK'  BY <2>0 DEF TypeOK
  <2>3. NodeInv' /\ FreshInv'  BY <2>0 DEF NodeInv, FreshInv, InOrder
  <2>4. OwnerInv' /\ PopInv' /\ OverlapInv'  BY <2>0 DEF OwnerInv, PopInv, OverlapInv, InOrder
  <2> QED  BY <2>1, <2>2, <2>3, <2>4
<1> QED  BY <1>1, <1>2, <1>3, <1>4, ThreadFacts DEF Next

\* The inductive invariant holds in every reachable state.
THEOREM Invariance ==
  Spec => []IInv
BY InitIInv, StepIInv, PTL DEF Spec

\* The pointers of the queue and the locals of its threads keep their types.
THEOREM TypeCorrect ==
  Spec => []TypeOK
<1>1. IInv => TypeOK  BY DEF IInv
<1> QED  BY <1>1, Invariance, PTL

\* However many threads are inside mpscq_push, the list is broken only between
\* the exchange and the last store of one of them.
THEOREM ListIsWhole ==
  Spec => []ListIntegrity
<1>1. IInv => ListIntegrity  BY DEF IInv
<1> QED  BY <1>1, Invariance, PTL

\* The store prev->next = n and the reads of mpscq_pop never touch a node that
\* mpscq_pop has returned to its client.
THEOREM PoppedIsPrivate ==
  Spec => []NoAccessAfterPop
<1>1. IInv => NoAccessAfterPop
  <2> SUFFICES ASSUME IInv  PROVE NoAccessAfterPop  OBVIOUS
  <2>1. ASSUME NEW p \in Threads, pc[p] = "link"  PROVE InOrder(cur[p])
    <3>1. PICK i \in 1 .. Len(order) - 1 : cur[p] = order[i]  BY <2>1 DEF IInv, LinkInv
    <3>2. i \in DOMAIN order  BY ListEnds
    <3> QED  BY <3>1, <3>2 DEF InOrder
  <2>2. pc[Consumer] \in {"first", "second", "again"} => InOrder(last)
    BY ListEnds DEF IInv, PopInv
  <2> QED  BY <2>1, <2>2 DEF NoAccessAfterPop, IInv, OwnerInv
<1> QED  BY <1>1, Invariance, PTL

----------------------------------------------------------------------------
(* What mpscq_pop returns.                                                 *)

\* A return of NULL without an overlap finds the list without client nodes.
LEMMA NullMeansEmpty ==
  ASSUME IInv, NullReturn, ~overlap  PROVE \A n \in Nodes : ~InOrder(n)
<1>1. /\ Len(order) \in Nat /\ DOMAIN order = 1 .. Len(order) /\ order[1] = tail
      /\ pc[Consumer] # "idle" /\ last = tail
  BY ListEnds DEF NullReturn, IInv, PopInv
<1>2. CASE pc[Consumer] = "first" /\ last = Stub /\ next[last] = NULL
  <2>1. Len(order) = 1  BY <1>2, NullIsEnd
  <2> QED  BY <1>1, <1>2, <2>1, ThreadFacts DEF InOrder
<1>3. CASE pc[Consumer] = "head" /\ last # head
  BY <1>3 DEF IInv, OverlapInv
<1>4. CASE pc[Consumer] = "again" /\ next[last] = NULL
  <2>1. last = head  BY <1>4, NullIsEnd
  <2> QED  BY <1>4, <2>1 DEF IInv, PopInv
<1> QED  BY <1>2, <1>3, <1>4 DEF NullReturn

\* mpscq_pop returns NULL only when no client node is queued or a push was
\* under way at a moment of the call.
THEOREM NullIsHonest ==
  Spec => NullOnlyIfEmptyOrOverlap
<1> DEFINE Honest ==
      pc[Consumer] # "idle" /\ pc'[Consumer] = "idle" /\ popped' = NULL
        => overlap \/ \A n \in Nodes : ~InOrder(n)
<1>1. ASSUME IInv, [Next]_vars  PROVE [Honest]_vars
  <2> SUFFICES ASSUME Next, pc[Consumer] # "idle", pc'[Consumer] = "idle", popped' = NULL
               PROVE  overlap \/ \A n \in Nodes : ~InOrder(n)
    BY <1>1
  <2> USE <1>1
  <2>0. TypeOK  BY DEF IInv
  <2>1. ASSUME NEW p \in Producers, NEW n \in Nodes, PushCall(p, n)  PROVE FALSE
    BY <2>0, <2>1, GotoMoves, ThreadFacts DEF PushCall
  <2>2. ASSUME NEW p \in Threads, Push(p)  PROVE FALSE
    <3>1. PICK step : Goto(p, step) /\ (p = Consumer => step # "idle")
      BY <2>2 DEF Push, PushClear, XchgLoad, XchgCas, XchgCasFails, PushLink
    <3> QED  BY <2>0, <3>1, GotoMoves, ThreadFacts
  <2>3. CASE mpscq_pop
    <3>1. CASE PopCall  BY <3>1 DEF PopCall
    <3>2. CASE NullReturn  BY <3>2, NullMeansEmpty
    <3>3. CASE PopReturns(next[last])
      <4>1. last = tail  BY DEF IInv, PopInv
      <4> QED  BY <2>0, <3>3, <4>1, ThreadFacts DEF PopReturns, TypeOK
    <3>4. ASSUME NEW step \in {"head", "clear", "second"}, Goto(Consumer, step)  PROVE FALSE
      BY <2>0, <3>4, GotoMoves, ThreadFacts
    <3> QED  BY <2>3, <3>1, <3>2, <3>3, <3>4, PopCases
  <2> QED  BY <2>1, <2>2, <2>3, ThreadFacts DEF Next
<1>2. IInv /\ [Next]_vars => [Honest]_vars  BY <1>1
<1> QED  BY <1>2, Invariance, PTL DEF Spec, NullOnlyIfEmptyOrOverlap

----------------------------------------------------------------------------
(* The queue implements FifoQueue.                                         *)

NoneTwice(list) == \A i, j \in DOMAIN list : list[i] = list[j] => i = j

\* A list with the stub at position k, without it.
LEMMA StubAt ==
  ASSUME NEW list \in Seq(QueueNodes), NoneTwice(list), NEW k \in 1 .. Len(list), list[k] = Stub
  PROVE  /\ WithoutStub(list) \in Seq(QueueNodes) /\ Len(WithoutStub(list)) = Len(list) - 1
         /\ \A i \in 1 .. Len(list) - 1 :
              WithoutStub(list)[i] = IF i < k THEN list[i] ELSE list[i + 1]
<1> DEFINE a == SubSeq(list, 1, k - 1)
           b == SubSeq(list, k + 1, Len(list))
<1>1. DOMAIN list = 1 .. Len(list) /\ Len(list) \in Nat  OBVIOUS
<1>2. (CHOOSE i \in DOMAIN list : list[i] = Stub) = k  BY <1>1 DEF NoneTwice
<1>3. WithoutStub(list) = a \o b  BY <1>1, <1>2 DEF WithoutStub
<1>4. a \in Seq(QueueNodes) /\ Len(a) = k - 1 /\ \A i \in 1 .. k - 1 : a[i] = list[i]
  <2>1. \A i \in 1 .. k - 1 : list[i] \in QueueNodes  BY <1>1
  <2>2. /\ a \in Seq(QueueNodes)
        /\ Len(a) = IF 1 <= k - 1 THEN (k - 1) - 1 + 1 ELSE 0
        /\ \A i \in 1 .. (k - 1) - 1 + 1 : a[i] = list[1 + i - 1]
    BY <1>1, <2>1, SubSeqProperties
  <2> HIDE DEF a
  <2> QED  BY <1>1, <2>2
<1>5. /\ b \in Seq(QueueNodes) /\ Len(b) = Len(list) - k
      /\ \A i \in 1 .. Len(list) - k : b[i] = list[k + i]
  <2>1. \A i \in k + 1 .. Len(list) : list[i] \in QueueNodes  BY <1>1
  <2>2. /\ b \in Seq(QueueNodes)
        /\ Len(b) = IF k + 1 <= Len(list) THEN Len(list) - (k + 1) + 1 ELSE 0
        /\ \A i \in 1 .. Len(list) - (k + 1) + 1 : b[i] = list[k + 1 + i - 1]
    BY <1>1, <2>1, SubSeqProperties
  <2> HIDE DEF b
  <2>3. Len(b) = Len(list) - k
    <3> PICK L : L = Len(list)  OBVIOUS
    <3>1. Len(b) = IF k + 1 <= L THEN L - (k + 1) + 1 ELSE 0  BY <2>2
    <3>2. L \in Nat /\ k \in 1 .. L  BY <1>1
    <3>3. (IF k + 1 <= L THEN L - (k + 1) + 1 ELSE 0) = L - k  BY <3>2
    <3> QED  BY <3>1, <3>3
  <2>4. ASSUME NEW i \in 1 .. Len(list) - k  PROVE b[i] = list[k + i]
    <3>1. i \in 1 .. Len(list) - (k + 1) + 1 /\ k + 1 + i - 1 = k + i  BY <1>1
    <3>2. b[i] = list[k + 1 + i - 1]  BY <2>2, <3>1
    <3> QED  BY <3>1, <3>2
  <2> QED  BY <2>2, <2>3, <2>4
<1> HIDE DEF a, b
<1>6. /\ a \o b \in Seq(QueueNodes) /\ Len(a \o b) = Len(list) - 1
      /\ \A i \in 1 .. Len(list) - 1 : (a \o b)[i] = IF i <= k - 1 THEN a[i] ELSE b[i - (k - 1)]
  <2>1. /\ a \o b \in Seq(QueueNodes) /\ Len(a \o b) = Len(a) + Len(b)
        /\ \A i \in 1 .. Len(a) + Len(b) :
             (a \o b)[i] = IF i <= Len(a) THEN a[i] ELSE b[i - Len(a)]
    BY <1>4, <1>5, ConcatProperties
  <2>2. Len(a) + Len(b) = Len(list) - 1  BY <1>1, <1>4, <1>5
  <2>3. Len(a) = k - 1  BY <1>4
  <2> QED  BY <2>1, <2>2, <2>3
<1>7. ASSUME NEW i \in 1 .. Len(list) - 1
      PROVE  (a \o b)[i] = IF i < k THEN list[i] ELSE list[i + 1]
  <2>1. CASE i < k
    <3>1. i <= k - 1 /\ i \in 1 .. k - 1  BY <1>1, <2>1
    <3>2. (a \o b)[i] = a[i]  BY <1>6, <3>1
    <3>3. a[i] = list[i]  BY <1>4, <3>1
    <3> QED  BY <2>1, <3>2, <3>3
  <2>2. CASE ~(i < k)
    <3> PICK d : d = i - (k - 1)  OBVIOUS
    <3>1. d \in 1 .. Len(list) - k /\ k + d = i + 1 /\ ~(i <= k - 1)  BY <1>1, <2>2
    <3>2. (a \o b)[i] = b[d]  BY <1>6, <3>1
    <3>3. b[d] = list[k + d]  BY <1>5, <3>1
    <3> QED  BY <2>2, <3>1, <3>2, <3>3
  <2> QED  BY <2>1, <2>2
<1> QED  BY <1>3, <1>6, <1>7

\* Without the stub there is nothing to take out.
LEMMA StubNowhere ==
  ASSUME NEW list, \A i \in DOMAIN list : list[i] # Stub  PROVE WithoutStub(list) = list
BY DEF WithoutStub

\* The exchange of a client node appends it.
LEMMA AppendNode ==
  ASSUME NEW list \in Seq(QueueNodes), NoneTwice(list), NEW n \in Nodes,
         \A i \in DOMAIN list : list[i] # n
  PROVE  /\ WithoutStub(Append(list, n)) = Append(WithoutStub(list), n)
         /\ \A i \in DOMAIN WithoutStub(list) : WithoutStub(list)[i] # n
<1> PICK L : L = Len(list)  OBVIOUS
<1> PICK new : new = Append(list, n)  OBVIOUS
<1>1. /\ L \in Nat /\ DOMAIN list = 1 .. L /\ n \in QueueNodes /\ n # Stub
  BY ThreadFacts
<1>2. /\ new \in Seq(QueueNodes) /\ Len(new) = L + 1 /\ new[L + 1] = n
      /\ \A i \in 1 .. L : new[i] = list[i]
  BY <1>1, AppendProperties
<1>3. DOMAIN new = 1 .. L + 1 /\ NoneTwice(new)
  <2>1. DOMAIN new = 1 .. L + 1  BY <1>1, <1>2
  <2> SUFFICES ASSUME NEW i \in 1 .. L + 1, NEW j \in 1 .. L + 1, new[i] = new[j]  PROVE i = j
    BY <2>1 DEF NoneTwice
  <2>2. CASE i \in 1 .. L /\ j \in 1 .. L  BY <1>1, <1>2, <2>2 DEF NoneTwice
  <2>3. CASE i = L + 1 /\ j \in 1 .. L  BY <1>1, <1>2, <2>3
  <2>4. CASE j = L + 1 /\ i \in 1 .. L  BY <1>1, <1>2, <2>4
  <2> QED  BY <1>1, <2>2, <2>3, <2>4
<1>4. CASE \A i \in DOMAIN list : list[i] # Stub
  <2>1. WithoutStub(list) = list  BY <1>4, StubNowhere
  <2>2. \A i \in DOMAIN new : new[i] # Stub  BY <1>1, <1>2, <1>3, <1>4
  <2>3. WithoutStub(new) = new  BY <2>2, StubNowhere
  <2> QED  BY <2>1, <2>3
<1>5. CASE \E i \in DOMAIN list : list[i] = Stub
  <2>1. PICK k \in 1 .. L : list[k] = Stub  BY <1>1, <1>5
  <2> PICK s : s = WithoutStub(list)  OBVIOUS
  <2> PICK t : t = WithoutStub(new)  OBVIOUS
  <2>2. /\ s \in Seq(QueueNodes) /\ Len(s) = L - 1
        /\ \A i \in 1 .. L - 1 : s[i] = IF i < k THEN list[i] ELSE list[i + 1]
    BY <2>1, StubAt
  <2>3. k \in 1 .. Len(new) /\ new[k] = Stub  BY <1>1, <1>2, <2>1
  <2>4. /\ t \in Seq(QueueNodes) /\ Len(t) = L
        /\ \A i \in 1 .. L : t[i] = IF i < k THEN new[i] ELSE new[i + 1]
    <3>1. /\ t \in Seq(QueueNodes) /\ Len(t) = Len(new) - 1
          /\ \A i \in 1 .. Len(new) - 1 : t[i] = IF i < k THEN new[i] ELSE new[i + 1]
      BY <1>2, <1>3, <2>3, StubAt
    <3>2. Len(new) - 1 = L  BY <1>1, <1>2
    <3> QED  BY <3>1, <3>2
  <2> PICK u : u = Append(s, n)  OBVIOUS
  <2>5. /\ u \in Seq(QueueNodes) /\ Len(u) = L /\ u[L] = n
        /\ \A i \in 1 .. L - 1 : u[i] = s[i]
    <3>1. /\ u \in Seq(QueueNodes) /\ Len(u) = Len(s) + 1 /\ u[Len(s) + 1] = n
          /\ \A i \in 1 .. Len(s) : u[i] = s[i]
      BY <1>1, <2>2, AppendProperties
    <3>2. Len(s) + 1 = L /\ Len(s) = L - 1  BY <1>1, <2>2
    <3> QED  BY <3>1, <3>2
  <2>6. ASSUME NEW i \in 1 .. Len(t)  PROVE t[i] = u[i]
    <3>1. CASE i = L  BY <1>1, <1>2, <2>4, <2>5, <3>1
    <3>2. CASE i # L
      <4>1. i \in 1 .. L - 1 /\ i \in 1 .. L /\ i + 1 \in 1 .. L  BY <1>1, <2>4, <3>2
      <4> QED  BY <1>2, <2>2, <2>4, <2>5, <4>1
    <3> QED  BY <3>1, <3>2
  <2>7. t = Append(s, n)
    <3>1. t = u  BY <2>4, <2>5, <2>6, SeqEqual
    <3> QED  BY <3>1
  <2>8. ASSUME NEW i \in DOMAIN s  PROVE s[i] # n
    <3>1. i \in 1 .. L - 1 /\ i \in 1 .. L /\ i + 1 \in 1 .. L  BY <1>1, <2>2
    <3> QED  BY <1>1, <2>2, <3>1
  <2> QED  BY <2>7, <2>8
<1> QED  BY <1>4, <1>5

\* The exchange of the stub changes nothing for clients.
LEMMA AppendStub ==
  ASSUME NEW list \in Seq(QueueNodes), NoneTwice(list), \A i \in DOMAIN list : list[i] # Stub
  PROVE  WithoutStub(Append(list, Stub)) = WithoutStub(list)
<1> PICK L : L = Len(list)  OBVIOUS
<1> PICK new : new = Append(list, Stub)  OBVIOUS
<1>1. L \in Nat /\ DOMAIN list = 1 .. L /\ Stub \in QueueNodes  BY ThreadFacts
<1>2. /\ new \in Seq(QueueNodes) /\ Len(new) = L + 1 /\ new[L + 1] = Stub
      /\ \A i \in 1 .. L : new[i] = list[i]
  BY <1>1, AppendProperties
<1>3. NoneTwice(new)
  <2>1. DOMAIN new = 1 .. L + 1  BY <1>1, <1>2
  <2> SUFFICES ASSUME NEW i \in 1 .. L + 1, NEW j \in 1 .. L + 1, new[i] = new[j]  PROVE i = j
    BY <2>1 DEF NoneTwice
  <2>2. CASE i \in 1 .. L /\ j \in 1 .. L  BY <1>1, <1>2, <2>2 DEF NoneTwice
  <2>3. CASE i = L + 1 /\ j \in 1 .. L  BY <1>1, <1>2, <2>3
  <2>4. CASE j = L + 1 /\ i \in 1 .. L  BY <1>1, <1>2, <2>4
  <2> QED  BY <1>1, <2>2, <2>3, <2>4
<1> PICK t : t = WithoutStub(new)  OBVIOUS
<1>4. /\ t \in Seq(QueueNodes) /\ Len(t) = Len(new) - 1
      /\ \A i \in 1 .. Len(new) - 1 : t[i] = IF i < L + 1 THEN new[i] ELSE new[i + 1]
  <2> PICK k : k = L + 1  OBVIOUS
  <2>1. k \in 1 .. Len(new) /\ new[k] = Stub  BY <1>1, <1>2
  <2> QED  BY <1>2, <1>3, <2>1, StubAt
<1>5. Len(t) = L /\ \A i \in 1 .. L : t[i] = list[i]
  <2>1. Len(new) - 1 = L  BY <1>1, <1>2
  <2> QED  BY <1>1, <1>2, <1>4, <2>1
<1>6. t = list  BY <1>4, <1>5, SeqEqual
<1> QED  BY <1>6, StubNowhere

\* Taking the first node pops a client node, or only the stub.
LEMMA TailWithoutStub ==
  ASSUME NEW list \in Seq(QueueNodes), NoneTwice(list), list # <<>>
  PROVE  IF list[1] = Stub
         THEN WithoutStub(Tail(list)) = WithoutStub(list)
         ELSE /\ WithoutStub(list) # <<>> /\ Head(WithoutStub(list)) = list[1]
              /\ WithoutStub(Tail(list)) = Tail(WithoutStub(list))
<1> PICK L : L = Len(list)  OBVIOUS
<1> PICK new : new = Tail(list)  OBVIOUS
<1>1. L \in Nat /\ L >= 1 /\ DOMAIN list = 1 .. L  OBVIOUS
<1>2. /\ new \in Seq(QueueNodes) /\ Len(new) = L - 1 /\ \A i \in 1 .. L - 1 : new[i] = list[i + 1]
  BY HeadTailProperties
<1>3. DOMAIN new = 1 .. L - 1 /\ NoneTwice(new)
  <2>1. DOMAIN new = 1 .. L - 1  BY <1>1, <1>2
  <2> SUFFICES ASSUME NEW i \in 1 .. L - 1, NEW j \in 1 .. L - 1, new[i] = new[j]  PROVE i = j
    BY <2>1 DEF NoneTwice
  <2>2. i + 1 \in 1 .. L /\ j + 1 \in 1 .. L /\ list[i + 1] = list[j + 1]  BY <1>1, <1>2
  <2>3. i + 1 = j + 1  BY <1>1, <2>2 DEF NoneTwice
  <2> QED  BY <2>3
<1> PICK s : s = WithoutStub(list)  OBVIOUS
<1> PICK t : t = WithoutStub(new)  OBVIOUS
<1>4. CASE list[1] = Stub
  <2>1. /\ s \in Seq(QueueNodes) /\ Len(s) = L - 1
        /\ \A i \in 1 .. L - 1 : s[i] = IF i < 1 THEN list[i] ELSE list[i + 1]
    <3>1. 1 \in 1 .. L  BY <1>1
    <3> QED  BY <1>4, <3>1, StubAt
  <2>2. \A i \in 1 .. L - 1 : s[i] = new[i]  BY <1>1, <1>2, <2>1
  <2>3. s = new  BY <1>2, <2>1, <2>2, SeqEqual
  <2>4. ASSUME NEW i \in DOMAIN new  PROVE new[i] # Stub
    <3>1. i \in 1 .. L - 1 /\ i + 1 \in 1 .. L /\ i + 1 # 1  BY <1>1, <1>3
    <3> QED  BY <1>1, <1>2, <1>4, <3>1 DEF NoneTwice
  <2>5. t = new  BY <2>4, StubNowhere
  <2> QED  BY <1>4, <2>3, <2>5
<1>5. CASE list[1] # Stub /\ \A i \in DOMAIN list : list[i] # Stub
  <2>1. s = list  BY <1>5, StubNowhere
  <2>2. \A i \in DOMAIN new : new[i] # Stub
    BY <1>1, <1>2, <1>3, <1>5
  <2>3. t = new  BY <2>2, StubNowhere
  <2> QED  BY <1>5, <2>1, <2>3
<1>6. CASE list[1] # Stub /\ \E i \in DOMAIN list : list[i] = Stub
  <2>1. PICK k \in 1 .. L : list[k] = Stub  BY <1>1, <1>6
  <2>2. k >= 2 /\ k - 1 \in 1 .. L - 1 /\ new[k - 1] = Stub
    <3>1. k # 1  BY <1>6, <2>1
    <3>2. k - 1 \in 1 .. L - 1 /\ k - 1 + 1 = k  BY <1>1, <3>1
    <3> QED  BY <1>1, <1>2, <2>1, <3>1, <3>2
  <2>3. /\ s \in Seq(QueueNodes) /\ Len(s) = L - 1
        /\ \A i \in 1 .. L - 1 : s[i] = IF i < k THEN list[i] ELSE list[i + 1]
    BY <2>1, StubAt
  <2>4. /\ t \in Seq(QueueNodes) /\ Len(t) = L - 1 - 1
        /\ \A i \in 1 .. L - 1 - 1 : t[i] = IF i < k - 1 THEN new[i] ELSE new[i + 1]
    <3> PICK m : m = k - 1  OBVIOUS
    <3>1. m \in 1 .. Len(new) /\ new[m] = Stub  BY <1>2, <2>2
    <3>2. /\ t \in Seq(QueueNodes) /\ Len(t) = Len(new) - 1
          /\ \A i \in 1 .. Len(new) - 1 : t[i] = IF i < m THEN new[i] ELSE new[i + 1]
      BY <1>2, <1>3, <3>1, StubAt
    <3> QED  BY <1>2, <3>2
  <2>5. s # <<>> /\ s[1] = list[1] /\ L >= 2  BY <1>1, <2>2, <2>3
  <2>6. Head(s) = s[1]  BY <2>3, <2>5
  <2>7. /\ Tail(s) \in Seq(QueueNodes) /\ Len(Tail(s)) = L - 1 - 1
        /\ \A i \in 1 .. L - 1 - 1 : Tail(s)[i] = s[i + 1]
    BY <2>3, <2>5, HeadTailProperties
  <2>8. ASSUME NEW i \in 1 .. Len(t)  PROVE t[i] = Tail(s)[i]
    <3>1. i \in 1 .. L - 1 - 1 /\ i + 1 \in 1 .. L - 1 /\ i \in 1 .. L - 1
      BY <1>1, <2>4
    <3>2. CASE i < k - 1
      <4>1. i + 1 < k  BY <3>1, <3>2
      <4> QED  BY <1>2, <2>3, <2>4, <2>7, <3>1, <3>2, <4>1
    <3>3. CASE ~(i < k - 1)
      <4>1. ~(i + 1 < k)  BY <3>1, <3>3
      <4> QED  BY <1>2, <2>3, <2>4, <2>7, <3>1, <3>3, <4>1
    <3> QED  BY <3>2, <3>3
  <2>9. t = Tail(s)  BY <2>4, <2>7, <2>8, SeqEqual
  <2> QED  BY <1>6, <2>5, <2>6, <2>9
<1> QED  BY <1>4, <1>5, <1>6

\* Only the exchange and mpscq_pop change the list, only its returns the result.
LEMMA SameFifo ==
  ASSUME order' = order, popped' = popped  PROVE UNCHANGED Fifo!fifoVars
<1>1. WithoutStub(order)' = WithoutStub(order)  BY DEF WithoutStub
<1> QED  BY <1>1 DEF Fifo!fifoVars

\* At first the list holds the stub and nothing else.
LEMMA InitRefines ==
  ASSUME Init  PROVE Fifo!FifoInit
<1>1. order \in Seq(QueueNodes) /\ Len(order) = 1 /\ order[1] = Stub /\ DOMAIN order = 1 .. 1
  BY ThreadFacts DEF Init
<1>2. NoneTwice(order)  BY <1>1 DEF NoneTwice
<1> PICK k : k = 1  OBVIOUS
<1>3. k \in 1 .. Len(order) /\ order[k] = Stub  BY <1>1
<1>4. /\ WithoutStub(order) \in Seq(QueueNodes)
      /\ Len(WithoutStub(order)) = Len(order) - 1
  BY <1>1, <1>2, <1>3, StubAt
<1>5. WithoutStub(order) = <<>>
  <2> PICK s : s = WithoutStub(order)  OBVIOUS
  <2>1. s \in Seq(QueueNodes) /\ Len(s) = 0  BY <1>1, <1>4
  <2> QED  BY <2>1
<1> QED  BY <1>5 DEF Fifo!FifoInit, Init

\* Every step of the queue is a step of FifoQueue, or none.
LEMMA StepRefines ==
  ASSUME IInv, [Next]_vars  PROVE [Fifo!FifoNext]_(Fifo!fifoVars)
<1>0. /\ TypeOK /\ order \in Seq(QueueNodes) /\ order # <<>> /\ NoneTwice(order)
      /\ order[1] = tail
  BY DEF IInv, TypeOK, ListIntegrity, NoneTwice
<1>1. ASSUME NEW p \in Producers, NEW n \in Nodes, PushCall(p, n)
      PROVE  UNCHANGED Fifo!fifoVars
  BY <1>1, SameFifo DEF PushCall
<1>2. ASSUME NEW p \in Threads, Push(p)  PROVE [Fifo!FifoNext]_(Fifo!fifoVars)
  <2>1. CASE PushClear(p) \/ XchgLoad(p) \/ XchgCasFails(p) \/ PushLink(p)
    BY <2>1, SameFifo DEF PushClear, XchgLoad, XchgCasFails, PushLink, history
  <2>2. CASE XchgCas(p)
    <3>1. /\ pc[p] = "cas" /\ order' = Append(order, node[p]) /\ popped' = popped
          /\ ~InOrder(node[p])
      BY <2>2 DEF XchgCas, IInv, FreshInv
    <3>2. CASE p \in Producers
      <4> PICK n : n = node[p]  OBVIOUS
      <4>1. n \in Nodes  BY <3>1, <3>2 DEF IInv, NodeInv, PushSteps
      <4>2. \A i \in DOMAIN order : order[i] # n  BY <3>1 DEF InOrder
      <4>3. /\ WithoutStub(Append(order, n)) = Append(WithoutStub(order), n)
            /\ \A i \in DOMAIN WithoutStub(order) : WithoutStub(order)[i] # n
        BY <1>0, <4>1, <4>2, AppendNode
      <4>4. WithoutStub(order)' = Append(WithoutStub(order), n)
        <5>1. WithoutStub(order)' = WithoutStub(order')  BY DEF WithoutStub
        <5> QED  BY <3>1, <4>3, <5>1
      <4>5. Fifo!Push(n)  BY <3>1, <4>3, <4>4 DEF Fifo!Push
      <4> QED  BY <4>1, <4>5 DEF Fifo!FifoNext
    <3>3. CASE p = Consumer
      <4>1. node[p] = Stub  BY <3>1, <3>3 DEF IInv, NodeInv, PushSteps
      <4>2. \A i \in DOMAIN order : order[i] # Stub  BY <3>1, <4>1 DEF InOrder
      <4>3. WithoutStub(Append(order, Stub)) = WithoutStub(order)
        BY <1>0, <4>2, AppendStub
      <4>4. WithoutStub(order)' = WithoutStub(order')  BY DEF WithoutStub
      <4>5. order' = Append(order, Stub)  BY <3>1, <4>1
      <4>6. WithoutStub(order)' = WithoutStub(order)  BY <4>3, <4>4, <4>5
      <4> QED  BY <3>1, <4>6 DEF Fifo!fifoVars
    <3> QED  BY <3>2, <3>3, ThreadFacts
  <2> QED  BY <1>2, <2>1, <2>2 DEF Push
<1>3. WithoutStub(order)' = WithoutStub(order')  BY DEF WithoutStub
<1>4. CASE mpscq_pop
  <2>1. CASE PopCall  BY <2>1, SameFifo DEF PopCall
  <2>2. CASE NullReturn
    <3>1. order' = order /\ popped' = NULL
      BY <2>2 DEF NullReturn, PopReturnsNull, history
    <3>2. WithoutStub(order)' = WithoutStub(order)  BY <1>3, <3>1
    <3> QED  BY <3>1, <3>2 DEF Fifo!FifoNext, Fifo!PopNull
  <2>3. CASE UNCHANGED <<memory, cur, last, popped, owner, history>>
    BY <2>3, SameFifo DEF history
  <2>4. CASE PopReturns(next[last]) /\ last # Stub /\ pc[Consumer] # "idle"
    <3>1. order' = Tail(order) /\ popped' = order[1] /\ order[1] # Stub
      BY <1>0, <2>4 DEF PopReturns, IInv, PopInv
    <3>2. /\ WithoutStub(order) # <<>> /\ Head(WithoutStub(order)) = order[1]
          /\ WithoutStub(Tail(order)) = Tail(WithoutStub(order))
      BY <1>0, <3>1, TailWithoutStub
    <3>3. Fifo!Pop  BY <1>3, <3>1, <3>2 DEF Fifo!Pop
    <3> QED  BY <3>3 DEF Fifo!FifoNext
  <2>5. CASE pc[Consumer] = "first" /\ last = Stub /\ order' = Tail(order) /\ popped' = popped
    <3>1. order[1] = Stub  BY <1>0, <2>5 DEF IInv, PopInv
    <3>2. WithoutStub(Tail(order)) = WithoutStub(order)  BY <1>0, <3>1, TailWithoutStub
    <3>3. WithoutStub(order)' = WithoutStub(order)  BY <1>3, <2>5, <3>2
    <3> QED  BY <2>5, <3>3 DEF Fifo!fifoVars
  <2> QED  BY <1>4, <2>1, <2>2, <2>3, <2>4, <2>5, PopCases
<1>5. CASE UNCHANGED vars  BY <1>5, SameFifo DEF vars, history
<1> QED  BY <1>1, <1>2, <1>4, <1>5, ThreadFacts DEF Next

\* For its clients the list is a queue: nodes leave it in the order of their
\* exchanges, each once, whatever the threads do between the exchange and the
\* store that links the node.
THEOREM QueueImplementsFifo == Spec => FifoSpec
<1>1. Init => Fifo!FifoInit  BY InitRefines
<1>2. IInv /\ [Next]_vars => [Fifo!FifoNext]_(Fifo!fifoVars)  BY StepRefines
<1> QED  BY <1>1, <1>2, Invariance, PTL DEF Spec, FifoSpec, Fifo!FifoSpec
============================================================================
