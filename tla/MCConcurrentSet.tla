-------------------------- MODULE MCConcurrentSet --------------------------
(* Instances of ConcurrentSet for TLC. *)
EXTENDS ConcurrentSet

CONSTANTS a, b, x, y

InOrder == {<<a, b>>}

Ascending == x :> 1 @@ y :> 2

=============================================================================
