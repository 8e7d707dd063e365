------------------------------ MODULE SortedSet ------------------------------
(***************************************************************************)
(* set.SortedSet: a map (items) for membership and a sorted slice          *)
(* (elements) for order.  Two items of the same rank are equivalent to the *)
(* comparator, as all items are to defaultLess for a type it does not know.*)
(*                                                                         *)
(* A map is iterated in any order and sort.Slice is not stable, so that    *)
(* the operations that rebuild the slice have several outcomes: these are  *)
(* sets of sorted sets.                                                    *)
(***************************************************************************)
EXTENDS Naturals, SequencesExt

CONSTANTS Items, \* what a set may contain
          Order  \* [Items -> Nat], the comparator: the rank of an item

less(a, b) == Order[a] < Order[b]

Sorted(q) == \A i, j \in DOMAIN q : i < j => ~less(q[j], q[i])

\* What the two halves of a sorted set owe each other.
Agree(s) ==
    /\ ToSet(s.elements) = s.items
    /\ Len(s.elements) = Cardinality(s.items)
    /\ Sorted(s.elements)

NewSorted == [items |-> {}, elements |-> <<>>]

\* sort.Slice over the keys of the map.
Rebuilt(S) == {[items |-> S, elements |-> q] : q \in {p \in SetToSeqs(S) : Sorted(p)}}

\* Mutant: the place of the first element that the item is not less than.
InsertPosFromTop(q, x) == Min({i \in DOMAIN q : ~less(x, q[i])} \cup {Len(q) + 1})

\* sort.Search: the first place whose element the item is less than.
InsertPos(q, x) == Min({i \in DOMAIN q : less(x, q[i])} \cup {Len(q) + 1})

SortedAdd(s, x) ==
    IF x \in s.items THEN s
    ELSE [items    |-> s.items \cup {x},
          elements |-> InsertAt(s.elements, InsertPos(s.elements, x), x)]

SortedRemove(s, x) ==
    IF x \notin s.items THEN s
    ELSE [items |-> s.items \ {x}, elements |-> RemoveFirst(s.elements, x)]

SortedAddAll(s, X) == IF X \subseteq s.items THEN {s} ELSE Rebuilt(s.items \cup X)

SortedRemoveAll(s, X) == IF X \cap s.items = {} THEN {s} ELSE Rebuilt(s.items \ X)

SortedRetainAll(s, X) == IF s.items \subseteq X THEN {s} ELSE Rebuilt(s.items \cap X)

\* The results of the algebra are built by adding one element of q after another, but
\* for those in out.
Collect(q, out) ==
    LET after[k \in 0..Len(q)] ==
            IF k = 0 THEN NewSorted
            ELSE IF q[k] \in out THEN after[k - 1] ELSE SortedAdd(after[k - 1], q[k])
    IN  after[Len(q)]

\* q: what other.ForEach delivers.
SortedUnion(s, q) == Collect(s.elements \o q, {})

SortedDifference(s, t) == Collect(s.elements, t.items)

=============================================================================
