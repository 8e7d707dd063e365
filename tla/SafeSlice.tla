------------------------------ MODULE SafeSlice ------------------------------
(***************************************************************************)
(* slice.SafeSlice with its transactions: Go slices over shared arrays.    *)
(*                                                                         *)
(* A slice is a header, an array and a length, and append writes into the  *)
(* array while there is room in it.  Everything SafeSlice promises         *)
(* therefore rests on who refers to which array: the SafeSlice itself, the *)
(* working copies of transactions, and the slice in the hands of a caller, *)
(* who writes to it when he likes.                                         *)
(*                                                                         *)
(* A step is a critical section of the RWMutex or of a transaction's       *)
(* mutex, or a caller's write to his own slice.  Commit holds both         *)
(* mutexes; it is a step, since what the first guards cannot change while  *)
(* it waits for the second.  Calls that are refused, or only look, change  *)
(* nothing and are left out.  Positions count from 1.                      *)
(***************************************************************************)
EXTENDS Naturals, SequencesExt

CONSTANTS Values,
          Txs,     \* transactions under way at a time
          None,    \* no array; also what nobody can read in one
          MaxLen,  \* bound: the longest slice
          MaxArgs, \* bound: elements or positions given to one call
          Slack    \* bound: the room that append leaves in a new array

Owners == {"slice", "caller"} \cup Txs

\* As many as there are slices, so that each can have one of its own.
Arrays == Owners

VARIABLES mem,   \* [Arrays -> Seq(Values \cup {None})]: arrays, with their room
          ref,   \* [Owners -> [at, len]]: the slice that each holds
          open,  \* transactions that have begun and not ended
          handed \* is the array of the SafeSlice one that the caller handed over?

vars == <<mem, ref, open, handed>>

ASSUME SafeSliceAssumption ==
    /\ None \notin Arrays \cup Values
    /\ IsFiniteSet(Txs) /\ Txs \cap {"slice", "caller"} = {}
    /\ MaxLen \in Nat /\ MaxArgs \in Nat /\ Slack \in Nat

Args == UNION {[1..n -> Values] : n \in 0..MaxArgs}

Headers == [at : Arrays \cup {None}, len : 0..MaxLen]

Nil == [at |-> None, len |-> 0]

\* New: an empty slice, and nobody has begun anything.
Init ==
    /\ mem = [a \in Arrays |-> <<>>]
    /\ ref = [w \in Owners |-> Nil]
    /\ open = {}
    /\ handed = FALSE

-----------------------------------------------------------------------------
(* Go's slices.  An operation yields a memory m and a header h.            *)

Room(h) == IF h.at = None THEN 0 ELSE Len(mem[h.at])

View(w) == IF ref[w].at = None THEN <<>> ELSE SubSeq(mem[ref[w].at], 1, ref[w].len)

Now(w) == [m |-> mem, h |-> ref[w]]

\* An array for w: the one of its name if no other slice refers to it, or else a free one.
Fresh(w) ==
    LET free == {a \in Arrays : \A v \in Owners \ {w} : ref[v].at # a}
    IN  IF w \in free THEN w ELSE CHOOSE a \in free : TRUE

\* A new array for w that holds xs and has room for n more.
Allocated(w, xs, n) ==
    IF xs = <<>> THEN [m |-> mem, h |-> Nil]
    ELSE [m |-> [mem EXCEPT ![Fresh(w)] = xs \o [i \in 1..n |-> None]],
          h |-> [at |-> Fresh(w), len |-> Len(xs)]]

\* make and copy
Copied(w, xs) == Allocated(w, xs, 0)

\* s with xs written over what is behind its first i
Over(s, i, xs) == [j \in DOMAIN s |-> IF j \in i + 1..i + Len(xs) THEN xs[j - i] ELSE s[j]]

\* append(v, xs...), kept by w: into the array of v, or, without room, into a new one.
Appended(w, v, xs) ==
    LET h == ref[v]
    IN  IF h.len + Len(xs) <= Room(h)
        THEN {[m |-> IF xs = <<>> THEN mem ELSE [mem EXCEPT ![h.at] = Over(@, h.len, xs)],
               h |-> [h EXCEPT !.len = @ + Len(xs)]]}
        ELSE {Allocated(w, View(v) \o xs, n) : n \in 0..Slack}

\* append(w[:i], w[j:]...): what is behind j moves up, in the same array.
Without(r, i, j) ==
    [m |-> [r.m EXCEPT ![r.h.at] = Over(@, i, SubSeq(@, j + 1, r.h.len))],
     h |-> [r.h EXCEPT !.len = i + (@ - j)]]

\* m without what no slice of refs refers to
Reachable(m, refs) ==
    [a \in Arrays |->
        LET users == {w \in Owners : refs[w].at = a}
        IN  IF users = {} THEN <<>>
            ELSE [i \in DOMAIN m[a] |-> IF \E w \in users : i <= refs[w].len
                                       THEN m[a][i] ELSE None]]

\* w holds r.h from now on, over the memory r.m.
Hold(w, r) ==
    /\ r.h.len <= MaxLen
    /\ ref' = [ref EXCEPT ![w] = r.h]
    /\ mem' = Reachable(r.m, ref')

Store(w, i, v) == mem' = [mem EXCEPT ![ref[w].at][i] = v] /\ UNCHANGED ref

At(w) == 1..ref[w].len

\* left is s without the positions in D, in the same order.
IsWithout(left, s, D) ==
    \E from \in Bijection(DOMAIN left, DOMAIN s \ D) :
        /\ \A i, j \in DOMAIN left : i < j => from[i] < from[j]
        /\ \A i \in DOMAIN left : left[i] = s[from[i]]

\* What SafeSlice allocates itself was not handed to it.
Keep == handed' = (handed /\ ref'["slice"].at = ref["slice"].at)

-----------------------------------------------------------------------------
(* SafeSlice, under its lock                                               *)

AppendAll(xs) ==
    /\ \E r \in Appended("slice", "slice", xs) : Hold("slice", r)
    /\ Keep
    /\ UNCHANGED open

\* append(items, s.items...): items may be a new slice, or one the caller keeps.
Prepend(xs) ==
    \/ /\ \E n \in 0..Slack : Hold("slice", Allocated("slice", xs \o View("slice"), n))
       /\ Keep
       /\ UNCHANGED open
    \/ /\ ref["caller"].len > 0
       /\ \E r \in Appended("slice", "caller", View("slice")) :
             /\ Hold("slice", r)
             /\ handed' = (r.h.at = ref["caller"].at)
       /\ UNCHANGED open

Set(i, v) ==
    /\ i \in At("slice")
    /\ Store("slice", i, v)
    /\ UNCHANGED <<open, handed>>

\* For i to j - 1 of the code: what is behind the first i, up to the j-th, goes.
DeleteRange(i, j) ==
    /\ j <= ref["slice"].len /\ i < j
    /\ Hold("slice", Without(Now("slice"), i, j))
    /\ UNCHANGED <<open, handed>>

Delete(i) ==
    /\ i \in At("slice")
    /\ Hold("slice", Without(Now("slice"), i - 1, i))
    /\ UNCHANGED <<open, handed>>

\* updates maps positions to values; the ones outside are passed over.
BatchUpdate(updates) ==
    /\ DOMAIN updates \cap At("slice") # {}
    /\ mem' = [mem EXCEPT ![ref["slice"].at] =
                   [i \in DOMAIN @ |-> IF i \in DOMAIN updates \cap At("slice")
                                       THEN updates[i] ELSE @[i]]]
    /\ UNCHANGED <<ref, open, handed>>

\* sort.Sort(sort.Reverse(...)): the same positions, the greatest first.
Descends(q) == \A i, j \in DOMAIN q : i < j => q[i] >= q[j]

Descending(q) ==
    CHOOSE d \in {[k \in DOMAIN q |-> q[p[k]]] : p \in Bijection(DOMAIN q, DOMAIN q)} : Descends(d)

\* Slices r without their i-th element; one there is not is passed over.
Deleting(r, i) == IF i \in 1..r.h.len THEN Without(r, i - 1, i) ELSE r

\* Mutant: in the order in which they were given.
DeletedAsGiven(indices) ==
    LET after[k \in 0..Len(indices)] == IF k = 0 THEN Now("slice")
                                        ELSE Deleting(after[k - 1], indices[k])
    IN  after[Len(indices)]

\* One after the other, from the last position to the first.
DeletedOneByOne(indices) ==
    LET order == Descending(indices)
        after[k \in 0..Len(indices)] == IF k = 0 THEN Now("slice")
                                        ELSE Deleting(after[k - 1], order[k])
    IN  after[Len(indices)]

BatchDelete(indices) ==
    /\ ref["slice"].len > 0
    /\ Hold("slice", DeletedOneByOne(indices))
    /\ UNCHANGED <<open, handed>>

\* fn's result becomes the contents: a slice of its own, or one the caller keeps.
BatchOperation(xs) ==
    \/ /\ Hold("slice", Copied("slice", xs))
       /\ Keep
       /\ UNCHANGED open
    \/ /\ Hold("slice", Now("caller"))
       /\ handed' = (ref["caller"].at # None)
       /\ UNCHANGED open

\* s.items[:0]
Clear ==
    /\ Hold("slice", [m |-> mem, h |-> [ref["slice"] EXCEPT !.len = 0]])
    /\ UNCHANGED <<open, handed>>

CompareAndSwap(i, expected, v) ==
    /\ i \in At("slice") /\ View("slice")[i] = expected
    /\ Set(i, v)

AtomicUpdate(i, fn) ==
    /\ i \in At("slice")
    /\ Set(i, fn[View("slice")[i]])

CompareAndDelete(i, expected) ==
    /\ i \in At("slice") /\ View("slice")[i] = expected
    /\ Delete(i)

\* Of an index behind the last: compute's value is appended there.
GetOrCompute(i, v) ==
    /\ i = ref["slice"].len + 1
    /\ AppendAll(<<v>>)

FindAndUpdate(found, fn) ==
    \E i \in At("slice") :
        /\ View("slice")[i] \in found
        /\ \A j \in 1..i - 1 : View("slice")[j] \notin found
        /\ Set(i, fn[View("slice")[i]])

-----------------------------------------------------------------------------
(* What is handed out is a copy                                            *)

Take(r) == Hold("caller", r) /\ handed' = FALSE /\ UNCHANGED open

\* Mutant: the slice itself is handed out.
ToSliceShared == Take(Now("slice"))

ToSlice == Take(Copied("caller", View("slice")))

GetMany(indices, zero) ==
    Take(Copied("caller", [k \in DOMAIN indices |->
                              IF indices[k] \in At("slice") THEN View("slice")[indices[k]]
                              ELSE zero]))

Filter(P) ==
    LET matching == {i \in At("slice") : View("slice")[i] \in P}
    IN  \E xs \in [1..Cardinality(matching) -> Values] :
            /\ IsWithout(xs, View("slice"), At("slice") \ matching)
            /\ Take(Copied("caller", xs))

-----------------------------------------------------------------------------
(* Transactions                                                            *)

\* Mutant: the transaction works on the slice itself.
BeginShared(t) ==
    /\ t \notin open
    /\ Hold(t, Now("slice"))
    /\ open' = open \cup {t}
    /\ UNCHANGED handed

Begin(t) ==
    /\ t \notin open
    /\ Hold(t, Copied(t, View("slice")))
    /\ open' = open \cup {t}
    /\ UNCHANGED handed

TxSet(t, i, v) ==
    /\ t \in open /\ i \in At(t)
    /\ Store(t, i, v)
    /\ UNCHANGED <<open, handed>>

TxAppend(t, xs) ==
    /\ t \in open
    /\ \E r \in Appended(t, t, xs) : Hold(t, r)
    /\ UNCHANGED <<open, handed>>

TxDelete(t, i) ==
    /\ t \in open /\ i \in At(t)
    /\ Hold(t, Without(Now(t), i - 1, i))
    /\ UNCHANGED <<open, handed>>

\* Mutant: the copy is written over the contents, whose length stays.
CommitInPlace(t) ==
    /\ t \in open
    /\ LET xs == [i \in At("slice") |-> IF i \in At(t) THEN View(t)[i] ELSE View("slice")[i]]
           r == Copied("slice", xs)
       IN  /\ ref' = [ref EXCEPT !["slice"] = r.h, ![t] = Nil]
           /\ mem' = Reachable(r.m, ref')
    /\ open' = open \ {t}
    /\ handed' = FALSE

\* The committed transaction can do nothing more with the copy it keeps.
Commit(t) ==
    /\ t \in open
    /\ LET r == Copied("slice", View(t))
       IN  /\ ref' = [ref EXCEPT !["slice"] = r.h, ![t] = Nil]
           /\ mem' = Reachable(r.m, ref')
    /\ open' = open \ {t}
    /\ handed' = FALSE

Rollback(t) ==
    /\ t \in open
    /\ Hold(t, [m |-> mem, h |-> Nil])
    /\ open' = open \ {t}
    /\ UNCHANGED handed

-----------------------------------------------------------------------------
(* The caller, with his own slice and without any lock                     *)

Make(xs, n) == Take(Allocated("caller", xs, n))

Write(i, v) ==
    /\ i \in At("caller")
    /\ Store("caller", i, v)
    /\ UNCHANGED <<open, handed>>

-----------------------------------------------------------------------------

Positions == 1..MaxLen
Indices == UNION {[1..n -> Positions] : n \in 1..MaxArgs}
Fns == [Values -> Values]
Updates == UNION {[S -> Values] : S \in SUBSET Positions}

SliceStep ==
    \/ \E xs \in Args \ {<<>>} : AppendAll(xs) \/ Prepend(xs)
    \/ \E i \in Positions, v \in Values : Set(i, v) \/ GetOrCompute(i, v) \/ CompareAndDelete(i, v)
    \/ \E i \in Positions, v, expected \in Values : CompareAndSwap(i, expected, v)
    \/ \E i \in Positions : Delete(i)
    \/ \E i \in 0..MaxLen, j \in Positions : DeleteRange(i, j)
    \/ \E indices \in Indices : BatchDelete(indices)
    \/ \E updates \in Updates : BatchUpdate(updates)
    \/ \E xs \in Args : BatchOperation(xs)
    \/ \E i \in Positions, fn \in Fns : AtomicUpdate(i, fn)
    \/ \E P \in SUBSET Values, fn \in Fns : FindAndUpdate(P, fn)
    \/ Clear

TxStep(t) ==
    \/ Begin(t) \/ Commit(t) \/ Rollback(t)
    \/ \E i \in Positions, v \in Values : TxSet(t, i, v)
    \/ \E i \in Positions : TxDelete(t, i)
    \/ \E xs \in Args : TxAppend(t, xs)

CallerStep ==
    \/ ToSlice
    \/ \E indices \in Indices, zero \in Values : GetMany(indices, zero)
    \/ \E P \in SUBSET Values : Filter(P)
    \/ \E xs \in Args, n \in 0..Slack : Make(xs, n)
    \/ \E i \in Positions, v \in Values : Write(i, v)

Next == SliceStep \/ CallerStep \/ \E t \in Txs : TxStep(t)

Spec == Init /\ [][Next]_vars

-----------------------------------------------------------------------------
(* Properties                                                              *)

\* Headers stay inside their arrays, and no two share one: not a transaction with
\* the SafeSlice it came from or was committed to, not a snapshot with what it was
\* taken from.  The one exception is a slice that the caller passed to Prepend or
\* returned from a BatchOperation, which the SafeSlice keeps as its own.
Private ==
    /\ ref \in [Owners -> Headers]
    /\ \A w \in Owners : ref[w].len <= Room(ref[w])
    /\ \A v, w \in Owners :
          v # w /\ ref[v].at = ref[w].at /\ ref[v].at # None =>
              handed /\ {v, w} = {"slice", "caller"}

Read(r) == IF r.h.at = None THEN <<>> ELSE SubSeq(r.m[r.h.at], 1, r.h.len)

\* What the operations that move elements in an array make of the contents, whatever
\* room it has and whoever else refers to it: append adds behind what is there, also
\* behind the items given to Prepend; a removal closes the gap and keeps the order; and
\* the positions given to BatchDelete go, though each removal moves what is behind it
\* (a position given twice takes along what has moved up to it, and no more).
EffectsExact ==
    LET now == View("slice")
    IN  /\ \A w \in {"slice", "caller"}, xs \in Args :
              \A r \in Appended("slice", w, xs) : Read(r) = View(w) \o xs
        /\ \A i, j \in 0..Len(now) : i < j =>
              IsWithout(Read(Without(Now("slice"), i, j)), now, i + 1..j)
        /\ \A indices \in Indices :
              LET gone == Range(indices) \cap DOMAIN now
                  left == Read(DeletedOneByOne(indices))
              IN  \E D \in SUBSET DOMAIN now :
                     /\ gone \subseteq D /\ Cardinality(D) <= Len(indices)
                     /\ IsInjective(indices) => D = gone
                     /\ IsWithout(left, now, D)

\* No step changes what two hold, a snapshot, a transaction's copy or the contents: a
\* transaction sees nobody else's changes, another transaction's Commit included, and
\* nobody sees its own before Commit, which touches the contents and nothing else. The
\* exception is a slice that the caller has handed over.
Isolated ==
    [][LET changed == {w \in Owners : View(w)' # View(w)}
       IN  \/ Cardinality(changed) <= 1
           \/ changed = {"slice", "caller"} /\ handed
           \/ \E t \in open \ open' : changed \subseteq {"slice", t}]_vars
=============================================================================
