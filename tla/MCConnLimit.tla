----------------------------- MODULE MCConnLimit -----------------------------
(* Instances of ConnLimit for TLC. *)
EXTENDS ConnLimit, TLC

Places == [l \in Limiters |-> IF l = "primary" THEN 2 ELSE 1]

\* The primary waits as long as it takes, the secondary one tick at most.
ShortSecondary == [l \in Limiters |-> IF l = "primary" THEN 0 ELSE 1]

\* Every operation in every mode, not all of them against each other.
CONSTANTS c1, c2

SomeOffers == c1 :> {<<"Wait", "PrimaryOnly">>, <<"Wait", "AnyAllowed">>}
              @@ c2 :> {<<"Wait", "AllRequired">>, <<"Allow", "AllRequired">>, <<"Allow", "AnyAllowed">>}

=============================================================================
