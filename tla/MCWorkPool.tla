----------------------------- MODULE MCWorkPool -----------------------------
(* Instances of WorkPool for TLC.                                          *)
EXTENDS WorkPool, TLC

MCSymmetry == Permutations(Workers)

(* All tasks alike, or one that goes first. *)
MCLevel   == [t \in Tasks |-> 5]
MCOneHigh == [t \in Tasks |-> IF t = CHOOSE u \in Tasks : TRUE THEN 10 ELSE 5]
=============================================================================
