---------------------------- MODULE MCScheduler ----------------------------
(* Model values and symmetry for checking Scheduler with TLC. Coroutines   *)
(* are interchangeable; schedulers are not, they are used in turn.         *)
EXTENDS Scheduler, TLC

CoSymmetry == Permutations(Cos)
============================================================================
