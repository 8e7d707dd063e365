-------------------------- MODULE MCBlockingQueue --------------------------
(* Instances of BlockingQueue for TLC.                                     *)
EXTENDS BlockingQueue, TLC

MCSymmetry == Permutations(Items)
=============================================================================
