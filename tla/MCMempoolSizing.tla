-------------------------- MODULE MCMempoolSizing --------------------------
(* Inputs for checking MempoolSizing with TLC: all small objects, for      *)
(* every order and alignment the sizes around those of which 8 or 9 just   *)
(* fit, and those around the limits of an unsigned int and of a size_t.    *)
EXTENDS MempoolSizing

MCAligns == {0, 1, 2, 4, 8, 16, 64, 1024, 4096}

MCObjSizes ==
  0 .. 24 \cup
  {UIntMod + d : d \in {-4096, -9, -8, -7, -1, 0, 1, 8, 9, 100, 5000}} \cup
  {2 * UIntMod + 8, SizeMod - UIntMod, SizeMod - 5000, SizeMod - 8, SizeMod - 1} \cup
  {((4096 * 2^o - a) \div n) + d :
     o \in 0 .. 6, a \in {8, 64, 1024}, n \in {8, 9}, d \in -1 .. 1}
============================================================================
