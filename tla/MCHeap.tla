------------------------------- MODULE MCHeap -------------------------------
(* Keys for checking Heap with TLC: enough for equal and for different     *)
(* ones, and for the widest differences an int of 3 bits holds.            *)
EXTENDS Heap

MCKeys == 0 .. 3
============================================================================
