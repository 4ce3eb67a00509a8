--------------------------- MODULE MCLockFreeQueue ---------------------------
(* Instances of LockFreeQueue for TLC.                                     *)
EXTENDS LockFreeQueue, TLC

ConsumerSymmetry == Permutations(Consumers)
=============================================================================
