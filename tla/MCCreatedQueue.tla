--------------------------- MODULE MCCreatedQueue ---------------------------
(* Instances of CreatedQueue for TLC.                                      *)
EXTENDS CreatedQueue, TLC

MCSymmetry == Permutations(Items)
=============================================================================
