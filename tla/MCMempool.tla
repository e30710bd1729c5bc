----------------------------- MODULE MCMempool -----------------------------
(* Model values and symmetry for checking Mempool with TLC. The slabs are  *)
(* interchangeable: no property names one.                                 *)
EXTENDS Mempool, TLC

SlabSymmetry == Permutations(Slabs)
============================================================================
