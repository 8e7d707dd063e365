------------------------ MODULE MCNonBlockingQueue ------------------------
(* Instances of NonBlockingQueue for TLC.                                  *)
EXTENDS NonBlockingQueue, TLC

MCSymmetry == Permutations(Items)
=============================================================================
