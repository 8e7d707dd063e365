----------------------------- MODULE MCConnPool -----------------------------
(* Instances of ConnPool for TLC.                                          *)
EXTENDS ConnPool, TLC

MCSymmetry == Permutations(Callers) \cup Permutations(Conns) \cup Permutations(Admins)
=============================================================================
