-------------------------------- MODULE Ring --------------------------------
(***************************************************************************)
(* The circular slice both queues of package queue keep their elements in: *)
(* n slots indexed 0..n-1, of which the size slots from head on, wrapping  *)
(* around, are in use. Everything here is a pure function of the slice.    *)
(***************************************************************************)
EXTENDS Integers

CONSTANT Zero       \* the zero value of the element type, which marks a free slot

(* make([]T, n) *)
EmptyRing(n) == [i \in 0..n-1 |-> Zero]

(* The used slots in the order in which they will be dequeued. *)
Window(data, head, size, n) == [i \in 1..size |-> data[(head + i - 1) % n]]

(* Mutant: the slice is copied as it lies, without unwrapping it. *)
GrownAsIs(data, head, size, n) ==
    [i \in 0..2*n-1 |-> IF i < size THEN data[i] ELSE Zero]

(* expand: the used slots are copied, in order, to the front of a slice of *)
(* twice the length.                                                       *)
Grown(data, head, size, n) ==
    [i \in 0..2*n-1 |-> IF i < size THEN data[(head + i) % n] ELSE Zero]

(* Clear: every used slot is overwritten with the zero value. *)
Wiped(data, head, size, n) ==
    [j \in 0..n-1 |-> IF \E i \in 0..size-1 : j = (head + i) % n THEN Zero
                                                                 ELSE data[j]]
=============================================================================
