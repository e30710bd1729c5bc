----------------------------- MODULE FifoQueue -----------------------------
(***************************************************************************)
(* What a queue of nodes promises: nodes come out in the order they went   *)
(* in, each once. A pop may also come back empty-handed.                   *)
(***************************************************************************)
EXTENDS Sequences

CONSTANTS Nodes, NULL

VARIABLES
  q,    \* the queued nodes, oldest first
  out   \* what the last pop returned

fifoVars == <<q, out>>

FifoInit == q = <<>> /\ out = NULL

Push(n) ==
  /\ \A i \in DOMAIN q : q[i] # n
  /\ q' = Append(q, n)
  /\ UNCHANGED out

Pop ==
  /\ q # <<>>
  /\ out' = Head(q)
  /\ q' = Tail(q)

PopNull == out' = NULL /\ UNCHANGED q

FifoNext == (\E n \in Nodes : Push(n)) \/ Pop \/ PopNull

FifoSpec == FifoInit /\ [][FifoNext]_fifoVars
============================================================================
