------------------------------- MODULE MCList -------------------------------
(* Symmetry for checking List with TLC: heads are interchangeable, and so  *)
(* are entries.                                                            *)
EXTENDS List, TLC

ListSymmetry == Permutations(Heads) \cup Permutations(Entries)
=============================================================================
