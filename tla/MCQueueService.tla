--------------------------- MODULE MCQueueService ---------------------------
(* Instances of QueueService for TLC.                                      *)
EXTENDS QueueService, TLC

MCSymmetry == Permutations(Callers) \cup Permutations(Queues)
                 \cup Permutations(Items) \cup Permutations(Names)
=============================================================================
