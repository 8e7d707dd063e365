-------------------------- MODULE SafeSliceProofs --------------------------
(***************************************************************************)
(* Who may refer to which array, for any values, any finite set of         *)
(* transactions and every bound: the headers of the SafeSlice, its         *)
(* transactions and the caller stay apart, no step changes what two of     *)
(* them hold, and the operations that move elements in an array leave      *)
(* exactly what they should.                                               *)
(*                                                                         *)
(* Private is inductive only together with what the arrays hold: a header  *)
(* must fit its array and show values alone (SliceInv), or an append would *)
(* write where somebody reads.  Every operation yields, for its owner w, a *)
(* memory and a header that are Good: the header fits, and what all others *)
(* show is unchanged, but for the slice that the caller handed over.  That *)
(* a Good result, once held, keeps SliceInv and shows nobody else a        *)
(* difference is proved once; each operation then owes only that it is     *)
(* Good and whose array it keeps (Placed).                                 *)
(*                                                                         *)
(* BatchDelete is a recursion over its sorted positions.  Facts about it   *)
(* are proved from the least count that would break them: that it is       *)
(* defined, that any positions can be sorted, and which elements have gone *)
(* after k removals.                                                       *)
(***************************************************************************)
EXTENDS SafeSlice, SequenceTheorems, FunctionTheorems, FiniteSetTheorems,
        WellFoundedInduction, TLAPS

Cells == Values \cup {None}

(* The header h lies inside its array in the memory m, and all it shows    *)
(* are values.                                                             *)
Fits(m, h) ==
    /\ h.at = None => h.len = 0
    /\ h.at # None => /\ h.len <= Len(m[h.at])
                      /\ \A i \in 1..h.len : m[h.at][i] \in Values

(* It shows in m what it shows now.                                        *)
Same(m, h) == h.at # None => \A i \in 1..h.len : m[h.at][i] = mem[h.at][i]

TypeInv ==
    /\ mem \in [Arrays -> Seq(Cells)] /\ ref \in [Owners -> Headers]
    /\ open \subseteq Txs /\ handed \in BOOLEAN

Apart ==
    \A v, w \in Owners :
       v # w /\ ref[v].at = ref[w].at /\ ref[v].at # None =>
           handed /\ {v, w} = {"slice", "caller"}

(* The inductive invariant.                                                *)
SliceInv == TypeInv /\ (\A w \in Owners : Fits(mem, ref[w])) /\ Apart

(* What an operation may yield for w: its header fits, and what the others *)
(* hold is as it was, but for the slice that the caller handed over.       *)
Shares(v, w) == handed /\ {v, w} = {"slice", "caller"} /\ ref[v].at = ref[w].at

Good(w, r) ==
    /\ r.m \in [Arrays -> Seq(Cells)]
    /\ r.h \in [at : Arrays \cup {None}, len : Nat] /\ Fits(r.m, r.h)
    /\ \A v \in Owners \ {w} : Fits(r.m, ref[v]) /\ (Same(r.m, ref[v]) \/ Shares(v, w))

-----------------------------------------------------------------------------
(* There are as many arrays as owners: one that nobody else refers to can  *)
(* always be had.                                                          *)
LEMMA FreshFree ==
  ASSUME ref \in [Owners -> Headers], NEW w \in Owners
  PROVE  Fresh(w) \in Arrays /\ \A v \in Owners \ {w} : ref[v].at # Fresh(w)
  <1> DEFINE others == Owners \ {w}
             taken  == {ref[v].at : v \in others}
             free   == {a \in Arrays : \A v \in Owners \ {w} : ref[v].at # a}
  <1>1. IsFiniteSet(Owners) /\ IsFiniteSet(others)
        /\ Cardinality(others) = Cardinality(Owners) - 1 /\ Cardinality(Owners) \in Nat
    <2>1. IsFiniteSet({"slice"}) /\ IsFiniteSet({"caller"})
      BY FS_Singleton
    <2>2. IsFiniteSet({"slice"} \cup {"caller"})
      BY <2>1, FS_Union
    <2>3. IsFiniteSet(({"slice"} \cup {"caller"}) \cup Txs)
      BY <2>2, SafeSliceAssumption, FS_Union
    <2>4. Owners = ({"slice"} \cup {"caller"}) \cup Txs
      BY DEF Owners
    <2>5. IsFiniteSet(Owners)
      BY <2>3, <2>4
    <2> QED  BY <2>5, FS_RemoveElement, FS_CardinalityType
  <1>2. IsFiniteSet(taken) /\ Cardinality(taken) <= Cardinality(others)
    <2> DEFINE f == [v \in others |-> ref[v].at]
    <2>1. f \in Surjection(others, taken)
      BY DEF Surjection
    <2> HIDE DEF f
    <2> QED  BY <1>1, <2>1, FS_Surjection
  <1>3. ~(Arrays \subseteq taken)
    <2> SUFFICES ASSUME Arrays \subseteq taken PROVE FALSE
      OBVIOUS
    <2>1. Cardinality(Arrays) <= Cardinality(taken)
      BY <1>2, FS_Subset
    <2> QED  BY <1>1, <1>2, <2>1, FS_CardinalityType DEF Arrays
  <1>4. free # {}
    BY <1>3
  <1>5. Fresh(w) \in free
    <2>1. Fresh(w) = IF w \in free THEN w ELSE CHOOSE a \in free : TRUE
      BY DEF Fresh
    <2> HIDE DEF free
    <2> QED  BY <1>4, <2>1
  <1> QED  BY <1>5

(* What somebody holds, element by element.                                *)
LEMMA ReadIs ==
  ASSUME NEW r, r.h \in [at : Arrays \cup {None}, len : Nat], Fits(r.m, r.h)
  PROVE  /\ Read(r) \in Seq(Values) /\ Len(Read(r)) = r.h.len
         /\ \A i \in 1..r.h.len : r.h.at # None /\ Read(r)[i] = r.m[r.h.at][i]
  <1>1. CASE r.h.at = None
    BY <1>1 DEF Read, Fits
  <1>2. CASE r.h.at # None
    <2> DEFINE s == r.m[r.h.at]  n == r.h.len
    <2>1. Read(r) = SubSeq(s, 1, n) /\ n \in Nat /\ \A i \in 1..n : s[i] \in Values
      BY <1>2 DEF Read, Fits
    <2> HIDE DEF s, n
    <2>2. /\ SubSeq(s, 1, n) \in Seq(Values) /\ Len(SubSeq(s, 1, n)) = n
          /\ \A i \in 1..n : SubSeq(s, 1, n)[i] = s[i]
      <3>1. /\ SubSeq(s, 1, n) \in Seq(Values)
            /\ Len(SubSeq(s, 1, n)) = IF 1 <= n THEN n - 1 + 1 ELSE 0
            /\ \A i \in 1..n - 1 + 1 : SubSeq(s, 1, n)[i] = s[1 + i - 1]
        BY <2>1, SubSeqProperties
      <3>2. n - 1 + 1 = n /\ \A i \in 1..n : 1 + i - 1 = i
        BY <2>1
      <3> QED  BY <2>1, <3>1, <3>2
    <2> QED  BY <1>2, <2>1, <2>2 DEF s, n
  <1> QED  BY <1>1, <1>2

LEMMA ViewIs ==
  ASSUME TypeInv, NEW w \in Owners, Fits(mem, ref[w])
  PROVE  /\ View(w) = Read(Now(w)) /\ View(w) \in Seq(Values) /\ Len(View(w)) = ref[w].len
         /\ \A i \in 1..ref[w].len : ref[w].at # None /\ View(w)[i] = mem[ref[w].at][i]
  <1>1. View(w) = Read(Now(w)) /\ Now(w).h = ref[w] /\ Now(w).m = mem
    BY DEF View, Read, Now
  <1>2. ref[w] \in [at : Arrays \cup {None}, len : Nat]
    BY SafeSliceAssumption DEF TypeInv, Headers
  <1> QED  BY <1>1, <1>2, ReadIs

(* xs written into an array that has room for it.                          *)
LEMMA OverIs ==
  ASSUME NEW s \in Seq(Cells), NEW i \in Nat, NEW xs \in Seq(Cells)
  PROVE  /\ Over(s, i, xs) \in Seq(Cells) /\ Len(Over(s, i, xs)) = Len(s)
         /\ \A j \in 1..Len(s) : Over(s, i, xs)[j] = IF j \in i + 1..i + Len(xs) THEN xs[j - i]
                                                                               ELSE s[j]
  <1>1. DOMAIN s = 1..Len(s) /\ Len(s) \in Nat /\ Len(xs) \in Nat
        /\ (\A j \in 1..Len(s) : s[j] \in Cells) /\ \A j \in 1..Len(xs) : xs[j] \in Cells
    OBVIOUS
  <1> DEFINE o == Over(s, i, xs)
  <1>2. o \in [1..Len(s) -> Cells]
        /\ \A j \in 1..Len(s) : o[j] = IF j \in i + 1..i + Len(xs) THEN xs[j - i] ELSE s[j]
    BY <1>1 DEF Over
  <1> HIDE DEF o
  <1>3. o \in Seq(Cells) /\ Len(o) = Len(s)
    BY <1>1, <1>2
  <1> QED  BY <1>2, <1>3 DEF o

-----------------------------------------------------------------------------
(* make, copy and append.                                                  *)
LEMMA AllocatedGood ==
  ASSUME SliceInv, NEW w \in Owners, NEW xs \in Seq(Values), NEW n \in Nat
  PROVE  LET r == Allocated(w, xs, n)
         IN  /\ Good(w, r) /\ r.h.at \in {None, Fresh(w)}
             /\ r.h.len = Len(xs) /\ Read(r) = xs
             /\ \A v \in Owners \ {w} : Same(r.m, ref[v])
  <1> DEFINE r == Allocated(w, xs, n)
             a == Fresh(w)
             s == xs \o [i \in 1..n |-> None]
  <1>1. mem \in [Arrays -> Seq(Cells)] /\ ref \in [Owners -> Headers]
        /\ \A v \in Owners : Fits(mem, ref[v])
    BY DEF SliceInv, TypeInv
  <1>2. a \in Arrays /\ a # None /\ \A v \in Owners \ {w} : ref[v].at # a
    BY <1>1, FreshFree, SafeSliceAssumption
  <1>3. CASE xs = <<>>
    <2>1. r = [m |-> mem, h |-> Nil] /\ Len(xs) = 0
      BY <1>3 DEF Allocated
    <2> HIDE DEF r
    <2>2. r.m = mem /\ r.h.at = None /\ r.h.len = 0 /\ r.h \in [at : Arrays \cup {None}, len : Nat]
      BY <2>1 DEF Nil
    <2>3. Fits(r.m, r.h) /\ \A v \in Owners : Same(r.m, ref[v])
      BY <2>2 DEF Fits, Same
    <2>4. Read(r) = <<>>
      BY <2>2 DEF Read
    <2> QED  BY <1>1, <1>3, <2>1, <2>2, <2>3, <2>4 DEF r, Good
  <1>4. CASE xs # <<>>
    <2>1. r = [m |-> [mem EXCEPT ![a] = s], h |-> [at |-> a, len |-> Len(xs)]]
      BY <1>4 DEF Allocated
    <2>2. s \in Seq(Cells) /\ Len(s) = Len(xs) + n /\ \A i \in 1..Len(xs) : s[i] = xs[i]
      <3> DEFINE z == [i \in 1..n |-> None]
      <3>1. z \in Seq(Cells) /\ Len(z) = n
        BY DEF Cells
      <3> HIDE DEF z
      <3>2. xs \in Seq(Cells)
        BY DEF Cells
      <3>3. xs \o z \in Seq(Cells) /\ Len(xs \o z) = Len(xs) + n
            /\ \A i \in 1..Len(xs) : (xs \o z)[i] = xs[i]
        BY <3>1, <3>2
      <3> QED  BY <3>3 DEF z
    <2> HIDE DEF r, s, a
    <2>3. /\ r.m \in [Arrays -> Seq(Cells)] /\ r.m[a] = s /\ r.h.at = a /\ r.h.len = Len(xs)
          /\ \A b \in Arrays : b # a => r.m[b] = mem[b]
          /\ r.h \in [at : Arrays \cup {None}, len : Nat]
      BY <1>1, <1>2, <2>1, <2>2
    <2>4. Fits(r.m, r.h)
      <3>1. Len(xs) \in Nat /\ \A i \in 1..Len(xs) : xs[i] \in Values
        OBVIOUS
      <3> QED  BY <1>2, <2>2, <2>3, <3>1 DEF Fits
    <2>5. \A v \in Owners \ {w} : Fits(r.m, ref[v]) /\ Same(r.m, ref[v])
      <3> TAKE v \in Owners \ {w}
      <3>1. ref[v].at # None => ref[v].at \in Arrays /\ r.m[ref[v].at] = mem[ref[v].at]
        BY <1>1, <1>2, <2>3 DEF Headers
      <3>2. Fits(mem, ref[v])
        BY <1>1
      <3> QED  BY <3>1, <3>2 DEF Fits, Same
    <2>6. Read(r) = xs
      <3>1. /\ Read(r) \in Seq(Values) /\ Len(Read(r)) = Len(xs)
            /\ \A i \in 1..Len(xs) : Read(r)[i] = s[i]
        BY <2>3, <2>4, ReadIs
      <3>2. \A i \in 1..Len(xs) : Read(r)[i] = xs[i]
        BY <2>2, <3>1
      <3> HIDE DEF r
      <3> DEFINE q == Read(r)
      <3> HIDE DEF q
      <3>3. q \in Seq(Values) /\ Len(q) = Len(xs) /\ \A i \in 1..Len(xs) : q[i] = xs[i]
        BY <3>1, <3>2 DEF q
      <3>4. q = xs
        BY <3>3, SeqEqual
      <3> QED  BY <3>4 DEF q
    <2> QED  BY <2>3, <2>4, <2>5, <2>6 DEF r, a, Good
  <1> QED  BY <1>3, <1>4

(* One array is written, and w keeps a header of it.                       *)
LEMMA WrittenGood ==
  ASSUME SliceInv, NEW w \in Owners, NEW v \in Owners, v = w \/ {v, w} = {"slice", "caller"},
         NEW s \in Seq(Cells), NEW n \in Nat,
         ref[v].at # None, Len(s) = Len(mem[ref[v].at]), n <= Len(s),
         \A i \in 1..n : s[i] \in Values,
         \A i \in 1..Len(s) : s[i] \in Values \/ s[i] = mem[ref[v].at][i],
         v # w => \A i \in 1..ref[v].len : s[i] = mem[ref[v].at][i]
  PROVE  Good(w, [m |-> [mem EXCEPT ![ref[v].at] = s], h |-> [at |-> ref[v].at, len |-> n]])
  <1> DEFINE a == ref[v].at
             r == [m |-> [mem EXCEPT ![a] = s], h |-> [at |-> a, len |-> n]]
  <1>1. mem \in [Arrays -> Seq(Cells)] /\ ref \in [Owners -> Headers]
        /\ \A u \in Owners : Fits(mem, ref[u])
    BY DEF SliceInv, TypeInv
  <1>2. a \in Arrays /\ a # None
    BY <1>1 DEF Headers
  <1>3. /\ r.m \in [Arrays -> Seq(Cells)] /\ r.m[a] = s /\ r.h.at = a /\ r.h.len = n
        /\ \A b \in Arrays : b # a => r.m[b] = mem[b]
        /\ r.h \in [at : Arrays \cup {None}, len : Nat]
    BY <1>1, <1>2
  <1> HIDE DEF r, a
  <1>4. Fits(r.m, r.h)
    BY <1>2, <1>3 DEF Fits, a
  <1>5. ASSUME NEW u \in Owners \ {w} PROVE Fits(r.m, ref[u]) /\ (Same(r.m, ref[u]) \/ Shares(u, w))
    <2>1. Fits(mem, ref[u]) /\ ref[u].at \in Arrays \cup {None} /\ ref[u].len \in Nat
          /\ ref[v].len \in Nat /\ Fits(mem, ref[v])
      BY <1>1, SafeSliceAssumption DEF Headers
    <2>2. CASE ref[u].at # a
      <3>1. ref[u].at # None => r.m[ref[u].at] = mem[ref[u].at]
        BY <1>3, <2>1, <2>2
      <3> QED  BY <2>1, <3>1 DEF Fits, Same
    <2>3. CASE ref[u].at = a
      <3>1. Fits(r.m, ref[u])
        <4>1. ref[u].len <= Len(mem[a]) /\ \A i \in 1..ref[u].len : mem[a][i] \in Values
          BY <1>2, <2>1, <2>3 DEF Fits
        <4>2. ref[u].len <= Len(s) /\ \A i \in 1..ref[u].len : s[i] \in Values
          BY <2>1, <4>1 DEF a
        <4> QED  BY <1>2, <1>3, <2>3, <4>2 DEF Fits
      <3>2. CASE u = v
        BY <1>3, <2>3, <3>2, <3>1 DEF Same, a
      <3>3. CASE u # v
        <4>1. handed /\ {u, v} = {"slice", "caller"}
          BY <1>2, <2>3, <3>3 DEF SliceInv, Apart, a
        <4>2. v = w
          BY <4>1
        <4> QED  BY <2>3, <3>1, <4>1, <4>2 DEF Shares, a
      <3> QED  BY <3>2, <3>3
    <2> QED  BY <2>2, <2>3
  <1>6. Good(w, r)
    BY <1>3, <1>4, <1>5 DEF Good
  <1> QED  BY <1>6 DEF r, a

LEMMA AppendedGood ==
  ASSUME SliceInv, NEW w \in Owners, NEW v \in Owners, v = w \/ {v, w} = {"slice", "caller"},
         NEW xs \in Seq(Values), NEW r \in Appended(w, v, xs)
  PROVE  /\ Good(w, r) /\ r.h.at \in {ref[v].at, None, Fresh(w)}
         /\ r.h.len = ref[v].len + Len(xs) /\ Read(r) = View(v) \o xs
  <1> DEFINE h == ref[v]
             a == h.at
  <1>1. mem \in [Arrays -> Seq(Cells)] /\ ref \in [Owners -> Headers] /\ TypeInv
        /\ \A u \in Owners : Fits(mem, ref[u])
    BY DEF SliceInv, TypeInv
  <1>2. /\ View(v) \in Seq(Values) /\ Len(View(v)) = h.len /\ h.len \in Nat
        /\ \A i \in 1..h.len : a # None /\ View(v)[i] = mem[a][i]
    BY <1>1, ViewIs, SafeSliceAssumption DEF Headers
  <1>3. Len(xs) \in Nat /\ xs \in Seq(Cells) /\ (\A i \in 1..Len(xs) : xs[i] \in Values)
        /\ (xs = <<>> <=> Len(xs) = 0)
    BY DEF Cells
  <1>4. CASE h.len + Len(xs) > Room(h)
    <2>1. Room(h) \in Nat
      BY <1>1 DEF Room, Headers
    <2>2. PICK n \in 0..Slack : r = Allocated(w, View(v) \o xs, n)
      BY <1>2, <1>3, <1>4, <2>1 DEF Appended
    <2>3. n \in Nat /\ View(v) \o xs \in Seq(Values) /\ Len(View(v) \o xs) = h.len + Len(xs)
      BY <1>2, <1>3, SafeSliceAssumption
    <2> HIDE DEF h
    <2>4. Good(w, r) /\ r.h.at \in {None, Fresh(w)} /\ r.h.len = Len(View(v) \o xs)
          /\ Read(r) = View(v) \o xs
      BY <2>2, <2>3, AllocatedGood
    <2> QED  BY <2>3, <2>4 DEF h
  <1>5. CASE h.len + Len(xs) <= Room(h)
    <2>1. r = [m |-> IF xs = <<>> THEN mem ELSE [mem EXCEPT ![a] = Over(@, h.len, xs)],
               h |-> [h EXCEPT !.len = @ + Len(xs)]]
      BY <1>5 DEF Appended
    <2>2. h = [at |-> a, len |-> h.len] /\ a \in Arrays \cup {None}
      BY <1>1 DEF Headers
    <2>3. r.h = [at |-> a, len |-> h.len + Len(xs)]
      BY <2>1, <2>2
    <2>4. r.m = IF xs = <<>> THEN mem ELSE [mem EXCEPT ![a] = Over(@, h.len, xs)]
      BY <2>1
    <2>5. CASE xs = <<>>
      <3>1. r.m = mem /\ r.h = h /\ Len(xs) = 0
        BY <1>2, <1>3, <2>2, <2>3, <2>4, <2>5
      <3>2. Good(w, r)
        <4>1. r.h \in [at : Arrays \cup {None}, len : Nat]
          BY <1>2, <2>2, <3>1
        <4>2. \A u \in Owners : Same(r.m, ref[u])
          BY <3>1 DEF Same
        <4> QED  BY <1>1, <3>1, <4>1, <4>2 DEF Good
      <3>3. Read(r) = View(v)
        BY <3>1 DEF Read, View
      <3>4. View(v) \o xs = View(v)
        BY <1>2, <2>5, ConcatEmptySeq
      <3> QED  BY <1>2, <3>1, <3>2, <3>3, <3>4
    <2>6. CASE xs # <<>>
      <3> DEFINE s == Over(mem[a], h.len, xs)
      <3>1. /\ a # None /\ h.len + Len(xs) <= Len(mem[a])
            /\ mem[a] \in Seq(Cells) /\ Len(mem[a]) \in Nat
        BY <1>1, <1>2, <1>3, <1>5, <2>2, <2>6 DEF Room
      <3>2. s \in Seq(Cells) /\ Len(s) = Len(mem[a])
            /\ \A j \in 1..Len(mem[a]) :
                  s[j] = IF j \in h.len + 1..h.len + Len(xs) THEN xs[j - h.len] ELSE mem[a][j]
        BY <1>2, <1>3, <3>1, OverIs
      <3>3. r.m = [mem EXCEPT ![a] = s]
        BY <1>1, <2>2, <2>4, <2>6, <3>1
      <3> HIDE DEF s
      <3>4. Fits(mem, h)
        BY <1>1
      <3> HIDE DEF h
      <3>5. \A i \in 1..h.len : s[i] = mem[a][i] /\ mem[a][i] \in Values
        BY <1>2, <1>3, <3>1, <3>2, <3>4 DEF Fits
      <3>6. \A i \in 1..Len(xs) : s[h.len + i] = xs[i]
        <4> TAKE i \in 1..Len(xs)
        <4>1. h.len + i \in 1..Len(mem[a]) /\ h.len + i \in h.len + 1..h.len + Len(xs)
              /\ (h.len + i) - h.len = i
          BY <1>2, <1>3, <3>1
        <4> QED  BY <3>2, <4>1
      <3>7. \A i \in 1..h.len + Len(xs) : s[i] \in Values
        <4> TAKE i \in 1..h.len + Len(xs)
        <4>1. i \in 1..h.len \/ (i - h.len \in 1..Len(xs) /\ i = h.len + (i - h.len))
          BY <1>2, <1>3
        <4> QED  BY <1>3, <3>5, <3>6, <4>1
      <3>8. \A i \in 1..Len(s) : s[i] \in Values \/ s[i] = mem[a][i]
        <4> TAKE i \in 1..Len(s)
        <4>1. i \in h.len + 1..h.len + Len(xs) => i - h.len \in 1..Len(xs)
          BY <1>2, <1>3
        <4> QED  BY <1>3, <3>2, <4>1
      <3>9. h.len + Len(xs) \in Nat /\ h.len + Len(xs) <= Len(s)
        BY <1>2, <1>3, <3>1, <3>2
      <3>10. Good(w, [m |-> [mem EXCEPT ![a] = s], h |-> [at |-> a, len |-> h.len + Len(xs)]])
        BY <3>1, <3>2, <3>5, <3>7, <3>8, <3>9, WrittenGood DEF h
      <3>11. Appended(w, v, xs) =
               {[m |-> [mem EXCEPT ![a] = s], h |-> [at |-> a, len |-> h.len + Len(xs)]]}
        BY <1>5, <2>1, <2>2, <2>3, <3>3 DEF Appended, h
      <3>12. Good(w, r)
        BY <3>10, <3>11
      <3>13. Read(r) = View(v) \o xs
        <4>1. r.m[a] = s /\ r.h.at = a /\ r.h.len = h.len + Len(xs)
          BY <1>1, <2>2, <2>3, <3>1, <3>3
        <4>2. /\ Read(r) \in Seq(Values) /\ Len(Read(r)) = h.len + Len(xs)
              /\ \A i \in 1..h.len + Len(xs) : Read(r)[i] = s[i]
          BY <3>12, <4>1, ReadIs DEF Good
        <4> DEFINE q == Read(r)
                   p == View(v)
        <4>3. q \in Seq(Values) /\ Len(q) = h.len + Len(xs) /\ \A i \in 1..Len(q) : q[i] = s[i]
          BY <4>2
        <4>4. p \in Seq(Values) /\ Len(p) = h.len /\ \A i \in 1..h.len : p[i] = mem[a][i]
          BY <1>2
        <4> HIDE DEF q, p
        <4>5. p \o xs \in Seq(Values) /\ Len(p \o xs) = Len(q)
          BY <1>2, <1>3, <4>3, <4>4
        <4>6. \A i \in 1..Len(q) : q[i] = (p \o xs)[i]
          <5> TAKE i \in 1..Len(q)
          <5>1. (p \o xs)[i] = IF i <= Len(p) THEN p[i] ELSE xs[i - Len(p)]
            BY <1>2, <1>3, <4>3, <4>4
          <5>2. \/ i \in 1..h.len
                \/ i - h.len \in 1..Len(xs) /\ i = h.len + (i - h.len) /\ ~(i <= h.len)
            BY <1>2, <1>3, <4>3
          <5> QED  BY <3>5, <3>6, <4>3, <4>4, <5>1, <5>2
        <4>7. q = p \o xs
          BY <4>3, <4>5, <4>6, SeqEqual
        <4> QED  BY <4>7 DEF q, p
      <3> QED  BY <2>3, <3>12, <3>13 DEF h
    <2> QED  BY <2>5, <2>6
  <1>6. Room(h) \in Nat
    BY <1>1 DEF Room, Headers
  <1> QED  BY <1>2, <1>3, <1>4, <1>5, <1>6

(* append(w[:i], w[j:]...): the gap closes, in the array of w.             *)
LEMMA WithoutGood ==
  ASSUME SliceInv, NEW w \in Owners, NEW r, Good(w, r), r.h.at = ref[w].at,
         NEW i \in Nat, NEW j \in Nat, i < j, j <= r.h.len
  PROVE  LET q == Without(r, i, j)
         IN  /\ Good(w, q) /\ q.h.at = ref[w].at /\ q.h.len = i + (r.h.len - j)
             /\ \A k \in 1..q.h.len : Read(q)[k] = Read(r)[IF k <= i THEN k ELSE k + (j - i)]
  <1> DEFINE a == r.h.at
             n == r.h.len
             s == r.m[a]
             t == SubSeq(s, j + 1, n)
             o == Over(s, i, t)
             q == Without(r, i, j)
  <1>1. /\ r.m \in [Arrays -> Seq(Cells)] /\ r.h = [at |-> a, len |-> n] /\ a \in Arrays \cup {None}
        /\ n \in Nat /\ Fits(r.m, r.h) /\ ref \in [Owners -> Headers]
    BY DEF Good, SliceInv, TypeInv
  <1>2. /\ a # None /\ a \in Arrays /\ s \in Seq(Cells) /\ n <= Len(s) /\ Len(s) \in Nat
        /\ \A k \in 1..n : s[k] \in Values
    <2>1. a # None
      BY <1>1 DEF Fits
    <2>2. a \in Arrays
      BY <1>1, <2>1
    <2>3. s \in Seq(Cells)
      BY <1>1, <2>2
    <2> QED  BY <1>1, <2>1, <2>2, <2>3 DEF Fits
  <1>3. q = [m |-> [r.m EXCEPT ![a] = o], h |-> [at |-> a, len |-> i + (n - j)]]
    <2>1. [r.m EXCEPT ![a] = Over(@, i, SubSeq(@, j + 1, n))] = [r.m EXCEPT ![a] = o]
      BY <1>1, <1>2
    <2>2. [r.h EXCEPT !.len = i + (@ - j)] = [at |-> a, len |-> i + (n - j)]
      BY <1>1
    <2> QED  BY <2>1, <2>2 DEF Without
  <1> HIDE DEF a, n, s, q
  <1>4. t \in Seq(Cells) /\ Len(t) = n - j /\ \A k \in 1..n - j : t[k] = s[j + k]
    <2>1. j + 1 \in 1..Len(s) + 1 /\ n \in 0..Len(s) /\ \A k \in j + 1..n : s[k] \in Cells
      BY <1>1, <1>2 DEF n, Cells
    <2>2. /\ t \in Seq(Cells)
          /\ Len(t) = IF j + 1 <= n THEN n - (j + 1) + 1 ELSE 0
          /\ \A k \in 1..n - (j + 1) + 1 : t[k] = s[(j + 1) + k - 1]
      BY <1>1, <1>2, <2>1, SubSeqProperties DEF n
    <2>3. n - (j + 1) + 1 = n - j /\ (j + 1 <= n \/ n - j = 0)
          /\ \A k \in 1..n - j : (j + 1) + k - 1 = j + k
      BY <1>1 DEF n
    <2> QED  BY <2>2, <2>3
  <1> HIDE DEF t
  <1>5. /\ o \in Seq(Cells) /\ Len(o) = Len(s)
        /\ \A k \in 1..Len(s) : o[k] = IF k \in i + 1..i + Len(t) THEN t[k - i] ELSE s[k]
    BY <1>2, <1>4, OverIs
  <1> HIDE DEF o
  <1>6. i + (n - j) \in Nat /\ i + (n - j) <= n /\ i + Len(t) = i + (n - j)
    BY <1>1, <1>4 DEF n
  <1>7. \A k \in 1..i + (n - j) : o[k] = s[IF k <= i THEN k ELSE k + (j - i)]
    <2> TAKE k \in 1..i + (n - j)
    <2>1. k \in 1..Len(s)
      BY <1>1, <1>2, <1>6
    <2>2. CASE k <= i
      BY <1>5, <2>1, <2>2
    <2>3. CASE ~(k <= i)
      <3>1. k \in i + 1..i + Len(t) /\ k - i \in 1..n - j /\ j + (k - i) = k + (j - i)
        BY <1>1, <1>6, <2>3
      <3>2. o[k] = t[k - i]
        BY <1>5, <2>1, <3>1
      <3> QED  BY <1>4, <2>3, <3>1, <3>2
    <2> QED  BY <2>2, <2>3
  <1>8. \A k \in 1..i + (n - j) : (IF k <= i THEN k ELSE k + (j - i)) \in 1..n
    BY <1>1 DEF n
  <1>9. \A k \in 1..Len(s) : o[k] \in Values \/ o[k] = s[k]
    <2> TAKE k \in 1..Len(s)
    <2>1. CASE k \in i + 1..i + Len(t)
      BY <1>2, <1>6, <1>7, <1>8, <2>1
    <2>2. CASE k \notin i + 1..i + Len(t)
      BY <1>5, <2>2
    <2> QED  BY <2>1, <2>2
  <1>10. /\ q.m \in [Arrays -> Seq(Cells)] /\ q.m[a] = o /\ q.h.at = a /\ q.h.len = i + (n - j)
         /\ \A b \in Arrays : b # a => q.m[b] = r.m[b]
         /\ q.h \in [at : Arrays \cup {None}, len : Nat]
    BY <1>1, <1>2, <1>3, <1>5, <1>6
  <1>11. Fits(q.m, q.h)
    <2>1. \A k \in 1..i + (n - j) : o[k] \in Values
      BY <1>2, <1>7, <1>8
    <2> QED  BY <1>1, <1>2, <1>5, <1>6, <1>10, <2>1 DEF Fits
  <1>12. ASSUME NEW u \in Owners \ {w}
         PROVE  Fits(q.m, ref[u]) /\ (Same(q.m, ref[u]) \/ Shares(u, w))
    <2>1. /\ Fits(r.m, ref[u]) /\ (Same(r.m, ref[u]) \/ Shares(u, w))
          /\ ref[u].at \in Arrays \cup {None} /\ ref[u].len \in Nat
      BY <1>1, SafeSliceAssumption DEF Good, Headers
    <2>2. CASE ref[u].at # a
      <3>1. ref[u].at # None => q.m[ref[u].at] = r.m[ref[u].at]
        BY <1>10, <2>1, <2>2
      <3> QED  BY <2>1, <3>1 DEF Fits, Same
    <2>3. CASE ref[u].at = a
      <3>1. ref[u].len <= Len(s) /\ \A k \in 1..ref[u].len : s[k] \in Values
        BY <1>2, <2>1, <2>3 DEF Fits, s
      <3>2. ref[u].len <= Len(o) /\ \A k \in 1..ref[u].len : o[k] \in Values
        BY <1>2, <1>5, <1>9, <2>1, <3>1
      <3>3. Fits(q.m, ref[u])
        BY <1>2, <1>10, <2>3, <3>2 DEF Fits
      <3>4. Shares(u, w)
        BY <1>2, <2>3 DEF SliceInv, Apart, Shares, a
      <3> QED  BY <3>3, <3>4
    <2> QED  BY <2>2, <2>3
  <1>13. Good(w, q)
    BY <1>10, <1>11, <1>12 DEF Good
  <1>14. \A k \in 1..i + (n - j) : Read(q)[k] = Read(r)[IF k <= i THEN k ELSE k + (j - i)]
    <2>1. \A k \in 1..i + (n - j) : Read(q)[k] = o[k]
      BY <1>10, <1>11, ReadIs
    <2>2. \A k \in 1..n : Read(r)[k] = s[k]
      BY <1>1, ReadIs DEF Good, n, s, a
    <2> QED  BY <1>7, <1>8, <2>1, <2>2
  <1> QED  BY <1>10, <1>13, <1>14 DEF q, a, n

(* An increasing function that is onto is a bijection.                     *)
LEMMA IncreasingBijection ==
  ASSUME NEW m \in Nat, NEW S \in SUBSET Nat, NEW f \in [1..m -> S],
         \A k, l \in 1..m : k < l => f[k] < f[l],
         \A y \in S : \E k \in 1..m : f[k] = y
  PROVE  f \in Bijection(1..m, S)
  <1>1. ASSUME NEW k \in 1..m, NEW l \in 1..m, f[k] = f[l] PROVE k = l
    <2>1. k < l \/ l < k \/ k = l
      OBVIOUS
    <2>2. f[k] \in Nat /\ f[l] \in Nat
      OBVIOUS
    <2> QED  BY <1>1, <2>1, <2>2
  <1> QED  BY <1>1, Fun_IsBij

(* So it shows what was there, without the positions from i + 1 to j.      *)
LEMMA GapCloses ==
  ASSUME NEW s \in Seq(Values), NEW left \in Seq(Values), NEW i \in Nat, NEW j \in Nat,
         i < j, j <= Len(s), Len(left) = i + (Len(s) - j),
         \A k \in 1..Len(left) : left[k] = s[IF k <= i THEN k ELSE k + (j - i)]
  PROVE  IsWithout(left, s, i + 1..j)
  <1> DEFINE n == Len(s)
             D == i + 1..j
             f == [k \in 1..Len(left) |-> IF k <= i THEN k ELSE k + (j - i)]
  <1>1. n \in Nat /\ DOMAIN s = 1..n /\ DOMAIN left = 1..Len(left) /\ Len(left) = i + (n - j)
    OBVIOUS
  <1> HIDE DEF n
  <1>2. f \in [1..Len(left) -> 1..n \ D]
    BY <1>1 DEF n
  <1>3. \A k, l \in 1..Len(left) : k < l => f[k] < f[l]
    BY <1>1
  <1>4. \A y \in 1..n \ D : \E k \in 1..Len(left) : f[k] = y
    <2> TAKE y \in 1..n \ D
    <2>1. CASE y <= i
      <3>1. y \in 1..Len(left) /\ f[y] = y
        BY <1>1, <2>1 DEF n
      <3> QED  BY <3>1
    <2>2. CASE y > i
      <3>1. y - (j - i) \in 1..Len(left) /\ f[y - (j - i)] = y
        BY <1>1, <2>2 DEF n
      <3> QED  BY <3>1
    <2> QED  BY <1>1, <2>1, <2>2
  <1>5. \A k \in 1..Len(left) : left[k] = s[f[k]]
    OBVIOUS
  <1> HIDE DEF f, D
  <1>6. f \in Bijection(1..Len(left), 1..n \ D)
    <2>1. 1..n \ D \in SUBSET Nat /\ Len(left) \in Nat
      OBVIOUS
    <2> QED  BY <1>2, <1>3, <1>4, <2>1, IncreasingBijection
  <1>7. f \in Bijection(DOMAIN left, DOMAIN s \ D)
        /\ (\A k, l \in DOMAIN left : k < l => f[k] < f[l])
        /\ \A k \in DOMAIN left : left[k] = s[f[k]]
    BY <1>1, <1>3, <1>5, <1>6
  <1>8. IsWithout(left, s, D)
    BY <1>7 DEF IsWithout
  <1> QED  BY <1>8 DEF D

-----------------------------------------------------------------------------
(* BatchDelete.  A set of numbers has a least one.                         *)
LEMMA LeastOne ==
  ASSUME NEW T \in SUBSET Nat, T # {}
  PROVE  \E m \in T : \A k \in T : m <= k
  <1>1. IsWellFoundedOn(OpToRel(<, Nat), Nat)
    BY NatLessThanWellFounded
  <1>2. PICK m \in T : \A k \in T : ~(<<k, m>> \in OpToRel(<, Nat))
    BY <1>1, WFMin
  <1>3. ASSUME NEW k \in T PROVE m <= k
    <2>1. ~(<<k, m>> \in {ss \in Nat \X Nat : ss[1] < ss[2]})
      BY <1>2 DEF OpToRel
    <2>2. <<k, m>> \in Nat \X Nat /\ ~(k < m)
      BY <2>1
    <2> QED  BY <2>2
  <1> QED  BY <1>3

(* The recursive function of the model is defined, however many positions  *)
(* there are.                                                              *)
LEMMA AfterDefined ==
  ASSUME NEW base, NEW order, NEW n \in Nat
  PROVE  \E g : g = [k \in 0..n |-> IF k = 0 THEN base ELSE Deleting(g[k - 1], order[k])]
  <1> DEFINE IsAfter(g, m) ==
               g = [k \in 0..m |-> IF k = 0 THEN base ELSE Deleting(g[k - 1], order[k])]
             T == {m \in Nat : ~\E g : IsAfter(g, m)}
  <1> SUFFICES ASSUME T # {} PROVE FALSE
    OBVIOUS
  <1>1. PICK m \in T : \A k \in T : m <= k
    BY LeastOne
  <1>2. CASE m = 0
    <2> DEFINE g == [k \in 0..0 |-> base]
    <2>1. g = [k \in 0..0 |-> IF k = 0 THEN base ELSE Deleting(g[k - 1], order[k])]
      OBVIOUS
    <2>2. IsAfter(g, m)
      BY <1>2, <2>1
    <2> QED  BY <1>1, <2>2
  <1>3. CASE m # 0
    <2>1. m - 1 \in Nat /\ m - 1 \notin T
      BY <1>1, <1>3
    <2>2. PICK g : IsAfter(g, m - 1)
      BY <2>1
    <2> DEFINE h == [k \in 0..m |-> IF k = m THEN Deleting(g[m - 1], order[m]) ELSE g[k]]
    <2>3. \A k \in 0..m - 1 : g[k] = IF k = 0 THEN base ELSE Deleting(g[k - 1], order[k])
      BY <2>2
    <2>4. ASSUME NEW k \in 0..m
          PROVE  h[k] = IF k = 0 THEN base ELSE Deleting(h[k - 1], order[k])
      <3>1. CASE k = m
        <4>1. h[m] = Deleting(g[m - 1], order[m]) /\ h[m - 1] = g[m - 1] /\ m # 0
          BY <1>1, <1>3, <2>1
        <4> QED  BY <3>1, <4>1
      <3>2. CASE k # m
        <4>1. k \in 0..m - 1 /\ h[k] = g[k]
          BY <1>1, <3>2
        <4>2. k # 0 => h[k - 1] = g[k - 1]
          BY <1>1, <3>2
        <4> QED  BY <2>3, <4>1, <4>2
      <3> QED  BY <3>1, <3>2
    <2>5. h = [k \in 0..m |-> h[k]]
      OBVIOUS
    <2> HIDE DEF h
    <2>6. IsAfter(h, m)
      BY <2>4, <2>5
    <2> QED  BY <1>1, <2>6
  <1> QED  BY <1>2, <1>3

LEMMA DeletedChain ==
  ASSUME NEW indices, Len(indices) \in Nat
  PROVE  \E after :
           /\ after[0] = Now("slice")
           /\ \A k \in 1..Len(indices) : after[k] = Deleting(after[k - 1], Descending(indices)[k])
           /\ DeletedOneByOne(indices) = after[Len(indices)]
  <1> DEFINE n == Len(indices)
             base == Now("slice")
             order == Descending(indices)
             after[k \in 0..n] == IF k = 0 THEN base ELSE Deleting(after[k - 1], order[k])
  <1>1. DeletedOneByOne(indices) = after[n]
    BY DEF DeletedOneByOne
  <1> HIDE DEF n, base, order
  <1>2. after = [k \in 0..n |-> IF k = 0 THEN base ELSE Deleting(after[k - 1], order[k])]
    BY AfterDefined DEF n
  <1> HIDE DEF after
  <1>3. after[0] = base /\ \A k \in 1..n : after[k] = Deleting(after[k - 1], order[k])
    <2>1. n \in Nat
      BY DEF n
    <2> QED  BY <1>2, <2>1
  <1> QED  BY <1>1, <1>3 DEF n, base, order

LEMMA NowGood ==
  ASSUME SliceInv, NEW w \in Owners
  PROVE  Good(w, Now(w)) /\ Now(w).h = ref[w] /\ Now(w).m = mem /\ Read(Now(w)) = View(w)
         /\ ref[w].len \in 0..MaxLen
  <1>1. Now(w).h = ref[w] /\ Now(w).m = mem /\ Read(Now(w)) = View(w)
    BY DEF Now, View, Read
  <1>2. ref[w] \in [at : Arrays \cup {None}, len : Nat] /\ ref[w].len \in 0..MaxLen
    BY SafeSliceAssumption DEF SliceInv, TypeInv, Headers
  <1>3. \A u \in Owners : Fits(mem, ref[u]) /\ Same(mem, ref[u])
    BY DEF SliceInv, Same
  <1> QED  BY <1>1, <1>2, <1>3 DEF Good, SliceInv, TypeInv

LEMMA DeletingGood ==
  ASSUME SliceInv, NEW w \in Owners, NEW r, Good(w, r), r.h.at = ref[w].at, NEW i
  PROVE  /\ Good(w, Deleting(r, i)) /\ Deleting(r, i).h.at = ref[w].at
         /\ Deleting(r, i).h.len <= r.h.len
  <1>1. r.h.len \in Nat
    BY DEF Good
  <1>2. CASE i \in 1..r.h.len
    <2>1. /\ Deleting(r, i) = Without(r, i - 1, i) /\ i - 1 \in Nat /\ i \in Nat
          /\ i - 1 < i /\ i <= r.h.len
      BY <1>1, <1>2 DEF Deleting
    <2>2. LET q == Without(r, i - 1, i)
          IN  Good(w, q) /\ q.h.at = ref[w].at /\ q.h.len = (i - 1) + (r.h.len - i)
      BY <2>1, WithoutGood
    <2>3. (i - 1) + (r.h.len - i) <= r.h.len
      BY <1>1, <2>1
    <2> QED  BY <2>1, <2>2, <2>3
  <1>3. CASE i \notin 1..r.h.len
    BY <1>1, <1>3 DEF Deleting
  <1> QED  BY <1>2, <1>3

LEMMA DeletedGood ==
  ASSUME SliceInv, NEW indices, Len(indices) \in Nat
  PROVE  /\ Good("slice", DeletedOneByOne(indices))
         /\ DeletedOneByOne(indices).h.at = ref["slice"].at
         /\ DeletedOneByOne(indices).h.len <= MaxLen
  <1> DEFINE n == Len(indices)
  <1>1. PICK after :
           /\ after[0] = Now("slice")
           /\ \A k \in 1..n : after[k] = Deleting(after[k - 1], Descending(indices)[k])
           /\ DeletedOneByOne(indices) = after[n]
    BY DeletedChain
  <1> DEFINE J(k) == /\ Good("slice", after[k]) /\ after[k].h.at = ref["slice"].at
                     /\ after[k].h.len <= MaxLen
             T == {k \in 0..n : ~J(k)}
  <1>2. "slice" \in Owners /\ MaxLen \in Nat
    BY SafeSliceAssumption DEF Owners
  <1>3. J(0)
    BY <1>1, <1>2, NowGood
  <1> HIDE DEF J
  <1>4. ASSUME T # {} PROVE FALSE
    <2> HIDE DEF T
    <2>1. PICK m \in T : \A k \in T : m <= k
      <3>1. T \in SUBSET Nat
        BY DEF T
      <3> QED  BY <1>4, <3>1, LeastOne
    <2> USE DEF T
    <2>2. m \in 1..n /\ m - 1 \in 0..n
      BY <1>3, <2>1
    <2>3. J(m - 1)
      BY <2>1, <2>2
    <2> USE DEF J
    <2>4. after[m] = Deleting(after[m - 1], Descending(indices)[m])
      BY <1>1, <2>2
    <2>5. /\ Good("slice", after[m]) /\ after[m].h.at = ref["slice"].at
          /\ after[m].h.len <= after[m - 1].h.len
      BY <1>2, <2>3, <2>4, DeletingGood
    <2>6. after[m].h.len \in Nat /\ after[m - 1].h.len \in Nat
      BY <2>3, <2>5 DEF Good
    <2>7. J(m)
      BY <1>2, <2>3, <2>5, <2>6
    <2> QED  BY <2>1, <2>7
  <1>5. J(n)
    BY <1>4
  <1> QED  BY <1>1, <1>5 DEF J

-----------------------------------------------------------------------------
(* A step that gives w a new header.                                       *)
LEMMA SameRead ==
  ASSUME NEW r, NEW q, r.h \in [at : Arrays \cup {None}, len : Nat],
         q.h \in [at : Arrays \cup {None}, len : Nat], Fits(r.m, r.h), Fits(q.m, q.h),
         r.h.len = q.h.len, \A i \in 1..r.h.len : r.m[r.h.at][i] = q.m[q.h.at][i]
  PROVE  Read(r) = Read(q)
  <1>1. /\ Read(r) \in Seq(Values) /\ Len(Read(r)) = r.h.len
        /\ \A i \in 1..r.h.len : Read(r)[i] = r.m[r.h.at][i]
    BY ReadIs
  <1>2. /\ Read(q) \in Seq(Values) /\ Len(Read(q)) = q.h.len
        /\ \A i \in 1..q.h.len : Read(q)[i] = q.m[q.h.at][i]
    BY ReadIs
  <1> DEFINE a == Read(r)
             b == Read(q)
  <1>3. a \in Seq(Values) /\ b \in Seq(Values) /\ Len(a) = Len(b)
        /\ \A i \in 1..Len(a) : a[i] = b[i]
    BY <1>1, <1>2
  <1> HIDE DEF a, b
  <1>4. a = b
    BY <1>3, SeqEqual
  <1> QED  BY <1>4 DEF a, b

LEMMA ReachableIs ==
  ASSUME NEW m \in [Arrays -> Seq(Cells)], NEW refs \in [Owners -> Headers],
         \A v \in Owners : Fits(m, refs[v])
  PROVE  /\ Reachable(m, refs) \in [Arrays -> Seq(Cells)]
         /\ \A v \in Owners :
               /\ Fits(Reachable(m, refs), refs[v])
               /\ refs[v].at # None => \A i \in 1..refs[v].len :
                                          Reachable(m, refs)[refs[v].at][i] = m[refs[v].at][i]
  <1> DEFINE p == Reachable(m, refs)
             Users(a) == {w \in Owners : refs[w].at = a}
  <1>1. \A a \in Arrays : p[a] = IF Users(a) = {} THEN <<>>
              ELSE [i \in DOMAIN m[a] |-> IF \E w \in Users(a) : i <= refs[w].len
                                         THEN m[a][i] ELSE None]
    BY DEF Reachable
  <1>2. p = [a \in Arrays |-> p[a]]
    BY DEF Reachable
  <1> HIDE DEF p
  <1>3. ASSUME NEW a \in Arrays PROVE p[a] \in Seq(Cells)
    <2>1. DOMAIN m[a] = 1..Len(m[a]) /\ Len(m[a]) \in Nat
          /\ \A i \in 1..Len(m[a]) : m[a][i] \in Cells
      <3>1. m[a] \in Seq(Cells)
        OBVIOUS
      <3> QED  BY <3>1
    <2>2. CASE Users(a) = {}
      <3>1. p[a] = <<>>
        BY <1>1, <2>2
      <3> QED  BY <3>1
    <2>3. CASE Users(a) # {}
      <3> DEFINE l == Len(m[a])
                 f == [i \in 1..l |-> IF \E w \in Users(a) : i <= refs[w].len THEN m[a][i]
                                                                           ELSE None]
      <3>1. p[a] = f
        BY <1>1, <2>1, <2>3
      <3> HIDE DEF Users
      <3>2. f \in [1..l -> Cells]
        BY <2>1 DEF Cells
      <3> HIDE DEF f, l
      <3>3. l \in Nat
        BY <2>1 DEF l
      <3> QED  BY <3>1, <3>2, <3>3
    <2> QED  BY <2>2, <2>3
  <1>4. p \in [Arrays -> Seq(Cells)] /\ \A b \in Arrays : p[b] \in Seq(Cells)
    BY <1>2, <1>3
  <1>5. ASSUME NEW v \in Owners, refs[v].at # None
        PROVE  /\ refs[v].len <= Len(p[refs[v].at])
               /\ \A i \in 1..refs[v].len : p[refs[v].at][i] = m[refs[v].at][i]
                                            /\ m[refs[v].at][i] \in Values
    <2> DEFINE a == refs[v].at
               l == refs[v].len
    <2>1. a \in Arrays /\ l \in Nat /\ v \in Users(a)
      BY <1>5, SafeSliceAssumption DEF Headers
    <2>2. l <= Len(m[a]) /\ (\A i \in 1..l : m[a][i] \in Values) /\ m[a] \in Seq(Cells)
      BY <1>5, <2>1 DEF Fits
    <2>3. p[a] = [i \in DOMAIN m[a] |-> IF \E w \in Users(a) : i <= refs[w].len
                                         THEN m[a][i] ELSE None]
      BY <1>1, <2>1
    <2> HIDE DEF a
    <2>4. DOMAIN p[a] = 1..Len(m[a]) /\ Len(m[a]) \in Nat
      BY <2>2, <2>3
    <2>5. p[a] \in Seq(Cells)
      BY <1>4, <2>1
    <2>6. Len(p[a]) = Len(m[a])
      BY <2>4, <2>5
    <2>7. ASSUME NEW i \in 1..l PROVE p[a][i] = m[a][i]
      <3>1. i \in DOMAIN m[a] /\ \E w \in Users(a) : i <= refs[w].len
        BY <2>1, <2>2, <2>4 DEF a
      <3> QED  BY <2>3, <3>1
    <2> QED  BY <2>2, <2>6, <2>7 DEF a
  <1>6. \A v \in Owners : Fits(p, refs[v])
    BY <1>5 DEF Fits
  <1> QED  BY <1>4, <1>5, <1>6 DEF p

(* What everybody sees then.                                               *)
LEMMA ReachableShows ==
  ASSUME NEW m \in [Arrays -> Seq(Cells)], ref' \in [Owners -> Headers],
         mem' = Reachable(m, ref'), \A v \in Owners : Fits(m, ref'[v])
  PROVE  /\ mem' \in [Arrays -> Seq(Cells)]
         /\ \A v \in Owners : Fits(mem', ref'[v]) /\ View(v)' = Read([m |-> m, h |-> ref'[v]])
  <1> DEFINE refs == ref'
  <1>1. refs \in [Owners -> Headers] /\ (\A v \in Owners : Fits(m, refs[v]))
        /\ mem' = Reachable(m, refs)
    OBVIOUS
  <1> HIDE DEF refs
  <1>2. /\ mem' \in [Arrays -> Seq(Cells)]
        /\ \A v \in Owners :
              /\ Fits(mem', refs[v])
              /\ refs[v].at # None => \A i \in 1..refs[v].len :
                                         mem'[refs[v].at][i] = m[refs[v].at][i]
    <2>1. /\ Reachable(m, refs) \in [Arrays -> Seq(Cells)]
          /\ \A v \in Owners :
               /\ Fits(Reachable(m, refs), refs[v])
               /\ refs[v].at # None => \A i \in 1..refs[v].len :
                                          Reachable(m, refs)[refs[v].at][i] = m[refs[v].at][i]
      BY <1>1, ReachableIs
    <2> QED  BY <1>1, <2>1
  <1>3. ASSUME NEW v \in Owners PROVE View(v)' = Read([m |-> m, h |-> ref'[v]])
    <2> DEFINE q == [m |-> mem', h |-> refs[v]]
               r == [m |-> m, h |-> refs[v]]
    <2>1. refs[v] \in [at : Arrays \cup {None}, len : Nat]
      BY <1>1, SafeSliceAssumption DEF Headers
    <2>2. refs[v].at = None => refs[v].len = 0
      BY <1>2 DEF Fits
    <2>3. /\ q.h \in [at : Arrays \cup {None}, len : Nat] /\ Fits(q.m, q.h)
          /\ r.h \in [at : Arrays \cup {None}, len : Nat] /\ Fits(r.m, r.h)
          /\ q.h.len = r.h.len /\ \A i \in 1..q.h.len : q.m[q.h.at][i] = r.m[r.h.at][i]
      <3>1. q.m = mem' /\ q.h = refs[v] /\ r.m = m /\ r.h = refs[v]
        OBVIOUS
      <3>2. Fits(mem', refs[v]) /\ Fits(m, refs[v])
        BY <1>1, <1>2
      <3>3. \A i \in 1..refs[v].len : mem'[refs[v].at][i] = m[refs[v].at][i]
        BY <1>2, <2>1, <2>2
      <3> HIDE DEF q, r
      <3> QED  BY <2>1, <3>1, <3>2, <3>3
    <2>4. View(v)' = Read(q)
      BY DEF View, Read, refs
    <2> HIDE DEF q, r
    <2>5. Read(q) = Read(r)
      BY <2>3, SameRead
    <2> QED  BY <2>4, <2>5 DEF r, refs
  <1> QED  BY <1>2, <1>3 DEF refs

LEMMA SameShows ==
  ASSUME SliceInv, NEW v \in Owners, NEW m, Fits(m, ref[v]), Same(m, ref[v])
  PROVE  Read([m |-> m, h |-> ref[v]]) = View(v)
  <1> DEFINE q == Now(v)
             r == [m |-> m, h |-> ref[v]]
  <1>1. ref[v] \in [at : Arrays \cup {None}, len : Nat] /\ Fits(mem, ref[v])
    BY SafeSliceAssumption DEF SliceInv, TypeInv, Headers
  <1>2. \A i \in 1..ref[v].len : m[ref[v].at][i] = mem[ref[v].at][i]
    BY DEF Same, Fits
  <1>3. q.m = mem /\ q.h = ref[v] /\ View(v) = Read(q) /\ r.m = m /\ r.h = ref[v]
    BY NowGood
  <1> HIDE DEF q, r
  <1>4. Read(r) = Read(q)
    BY <1>1, <1>2, <1>3, SameRead
  <1> QED  BY <1>3, <1>4 DEF r

(* What everybody holds, when w has a new header and the memory changes.   *)
Others(w) == \A v \in Owners \ {w} : View(v)' = View(v) \/ Shares(v, w)

Changes(w, r) ==
  /\ mem' \in [Arrays -> Seq(Cells)] /\ ref' \in [Owners -> Headers]
  /\ \A v \in Owners : Fits(mem', ref'[v])
  /\ ref' = [ref EXCEPT ![w] = r.h] /\ View(w)' = Read(r) /\ Others(w)

LEMMA HoldChanges ==
  ASSUME SliceInv, NEW w \in Owners, NEW r, Good(w, r), Hold(w, r)
  PROVE  Changes(w, r)
  <1>1. /\ r.m \in [Arrays -> Seq(Cells)] /\ ref \in [Owners -> Headers]
        /\ r.h \in [at : Arrays \cup {None}, len : Nat] /\ r.h.len <= MaxLen
        /\ ref' = [ref EXCEPT ![w] = r.h] /\ mem' = Reachable(r.m, ref') /\ Fits(r.m, r.h)
    BY DEF Good, Hold, SliceInv, TypeInv
  <1>2. ref' \in [Owners -> Headers] /\ ref'[w] = r.h /\ \A v \in Owners \ {w} : ref'[v] = ref[v]
    <2>1. r.h \in Headers
      BY <1>1, SafeSliceAssumption DEF Headers
    <2> QED  BY <1>1, <2>1
  <1>3. \A v \in Owners : Fits(r.m, ref'[v])
    BY <1>1, <1>2 DEF Good
  <1>4. /\ mem' \in [Arrays -> Seq(Cells)]
        /\ \A v \in Owners : Fits(mem', ref'[v]) /\ View(v)' = Read([m |-> r.m, h |-> ref'[v]])
    <2> DEFINE m == r.m
    <2>1. m \in [Arrays -> Seq(Cells)] /\ mem' = Reachable(m, ref')
          /\ \A v \in Owners : Fits(m, ref'[v])
      BY <1>1, <1>3
    <2> HIDE DEF m
    <2>2. /\ mem' \in [Arrays -> Seq(Cells)]
          /\ \A v \in Owners : Fits(mem', ref'[v]) /\ View(v)' = Read([m |-> m, h |-> ref'[v]])
      BY <1>2, <2>1, ReachableShows
    <2> QED  BY <2>2 DEF m
  <1>5. View(w)' = Read(r)
    BY <1>2, <1>4 DEF Read
  <1>6. ASSUME NEW v \in Owners \ {w}, ~Shares(v, w) PROVE View(v)' = View(v)
    <2>1. Same(r.m, ref[v]) /\ ref'[v] = ref[v] /\ Fits(r.m, ref[v])
      BY <1>2, <1>6 DEF Good
    <2> DEFINE m == r.m
    <2> HIDE DEF m
    <2>2. Read([m |-> m, h |-> ref[v]]) = View(v)
      BY <2>1, SameShows DEF m
    <2> QED  BY <1>4, <2>1, <2>2 DEF m
  <1> QED  BY <1>1, <1>2, <1>4, <1>5, <1>6 DEF Changes, Others

(* Another header, and no array touched.                                   *)
LEMMA HeaderGood ==
  ASSUME SliceInv, NEW w \in Owners, NEW h \in [at : Arrays \cup {None}, len : Nat], Fits(mem, h)
  PROVE  Good(w, [m |-> mem, h |-> h])
  <1>1. \A u \in Owners : Fits(mem, ref[u]) /\ Same(mem, ref[u])
    BY DEF Same, SliceInv
  <1> QED  BY <1>1 DEF Good, SliceInv, TypeInv

(* Whose array it may be, so that no two share one who should not.         *)
Placed(w, r) ==
  \/ r.h.at = ref[w].at /\ handed' = handed
  \/ r.h.at \in {None, Fresh(w)} /\ (w \in Txs => handed' = handed)
  \/ w = "slice" /\ r.h.at = ref["caller"].at /\ (r.h.at # None => handed')

LEMMA PlacedApart ==
  ASSUME SliceInv, NEW w \in Owners, NEW r, ref' = [ref EXCEPT ![w] = r.h], Placed(w, r)
  PROVE  Apart'
  <1>1. /\ ref \in [Owners -> Headers] /\ ref'[w] = r.h /\ Apart
        /\ \A v \in Owners \ {w} : ref'[v] = ref[v]
    BY DEF SliceInv, TypeInv
  <1>2. SUFFICES ASSUME NEW v \in Owners, NEW u \in Owners, v # u,
                        ref'[v].at = ref'[u].at, ref'[v].at # None
                 PROVE  handed' /\ {v, u} = {"slice", "caller"}
    BY DEF Apart
  <1>3. "slice" \notin Txs /\ "caller" \notin Txs /\ Owners = {"slice", "caller"} \cup Txs
    BY SafeSliceAssumption DEF Owners
  <1>4. CASE r.h.at = ref[w].at /\ handed' = handed
    <2>1. ref[v].at = ref[u].at /\ ref[v].at # None
      BY <1>1, <1>2, <1>4
    <2> QED  BY <1>1, <1>2, <1>4, <2>1 DEF Apart
  <1>5. CASE r.h.at \in {None, Fresh(w)} /\ (w \in Txs => handed' = handed)
    <2>1. \A x \in Owners \ {w} : ref[x].at # Fresh(w)
      BY <1>1, FreshFree
    <2>2. v # w /\ u # w
      BY <1>1, <1>2, <1>5, <2>1
    <2>3. handed /\ {v, u} = {"slice", "caller"}
      BY <1>1, <1>2, <2>2 DEF Apart
    <2>4. w \in Txs
      BY <1>3, <2>2, <2>3
    <2> QED  BY <1>5, <2>3, <2>4
  <1>6. CASE w = "slice" /\ r.h.at = ref["caller"].at /\ (r.h.at # None => handed')
    <2>1. v = "slice" \/ u = "slice"
      BY <1>1, <1>2, <1>6 DEF Apart
    <2>2. v = "caller" \/ u = "caller"
      <3>1. SUFFICES ASSUME v # "caller", u # "caller" PROVE FALSE
        OBVIOUS
      <3>2. PICK x \in {v, u} : x # "slice" /\ x \in Owners /\ x # "caller"
        BY <1>2, <2>1, <3>1
      <3>3. ref[x].at = ref["caller"].at /\ ref[x].at # None
        BY <1>1, <1>2, <1>6, <2>1, <3>2
      <3> QED  BY <1>1, <1>3, <3>2, <3>3 DEF Apart
    <2>3. handed'
      BY <1>1, <1>2, <1>6, <2>1
    <2> QED  BY <1>2, <2>1, <2>2, <2>3
  <1> QED  BY <1>4, <1>5, <1>6 DEF Placed

(* Then the invariant is kept, and only w and who shares with it may see a *)
(* difference.                                                             *)
Kept(w) == SliceInv' /\ Others(w)

LEMMA HoldKeeps ==
  ASSUME SliceInv, NEW w \in Owners, NEW r, Good(w, r), Hold(w, r), Placed(w, r),
         open' \subseteq Txs, handed' \in BOOLEAN
  PROVE  Kept(w)
  <1>1. Changes(w, r)
    BY HoldChanges
  <1>2. Apart'
    BY <1>1, PlacedApart DEF Changes
  <1> QED  BY <1>1, <1>2 DEF Changes, Kept, SliceInv, TypeInv

(* Set, BatchUpdate and the like: elements of the array of w are replaced. *)
LEMMA StoreKeeps ==
  ASSUME SliceInv, NEW w \in Owners, NEW s \in Seq(Cells), ref[w].at # None,
         Len(s) = Len(mem[ref[w].at]),
         \A i \in 1..Len(s) : s[i] \in Values \/ s[i] = mem[ref[w].at][i],
         mem' = [mem EXCEPT ![ref[w].at] = s], ref' = ref, open' = open, handed' = handed
  PROVE  Kept(w)
  <1> DEFINE n == ref[w].len
             r == [m |-> [mem EXCEPT ![ref[w].at] = s], h |-> [at |-> ref[w].at, len |-> n]]
  <1>1. /\ n \in Nat /\ n <= Len(s) /\ Fits(mem, ref[w]) /\ ref[w].at \in Arrays
        /\ ref \in [Owners -> Headers] /\ \A i \in 1..n : mem[ref[w].at][i] \in Values
    BY SafeSliceAssumption DEF SliceInv, TypeInv, Headers, Fits
  <1>2. \A i \in 1..n : s[i] \in Values
    <2> TAKE i \in 1..n
    <2>1. i \in 1..Len(s)
      BY <1>1
    <2> QED  BY <1>1, <2>1
  <1>3. Good(w, r)
    <2> HIDE DEF n
    <2> QED  BY <1>1, <1>2, WrittenGood
  <1>4. r.m = mem' /\ r.h = ref[w]
    BY <1>1 DEF Headers
  <1> HIDE DEF r
  <1>5. mem' \in [Arrays -> Seq(Cells)] /\ \A v \in Owners : Fits(mem', ref[v])
    BY <1>3, <1>4 DEF Good
  <1>6. ASSUME NEW v \in Owners \ {w}, ~Shares(v, w) PROVE View(v)' = View(v)
    <2>1. Same(mem', ref[v]) /\ Fits(mem', ref[v])
      BY <1>3, <1>4, <1>6 DEF Good
    <2>2. Read([m |-> mem', h |-> ref[v]]) = View(v)
      BY <2>1, SameShows
    <2>3. View(v)' = Read([m |-> mem', h |-> ref[v]])
      BY DEF View, Read
    <2> QED  BY <2>2, <2>3
  <1> QED  BY <1>5, <1>6 DEF Kept, Others, SliceInv, TypeInv, Apart

-----------------------------------------------------------------------------
(* The operations, one by one.                                             *)
LEMMA ArgsFact ==
  /\ Args \subseteq Seq(Values)
  /\ \A indices \in Indices : indices \in Seq(Nat) /\ Len(indices) \in 1..MaxArgs
  /\ {"slice", "caller"} \subseteq Owners /\ Txs \subseteq Owners
  /\ "slice" \notin Txs /\ "caller" \notin Txs
  <1>1. MaxLen \in Nat /\ MaxArgs \in Nat
    BY SafeSliceAssumption
  <1>2. ASSUME NEW xs \in Args PROVE xs \in Seq(Values)
    <2>1. PICK n \in 0..MaxArgs : xs \in [1..n -> Values]
      BY DEF Args
    <2>2. n \in Nat
      BY <1>1
    <2> QED  BY <2>1, <2>2
  <1>3. ASSUME NEW indices \in Indices PROVE indices \in Seq(Nat) /\ Len(indices) \in 1..MaxArgs
    <2>1. PICK n \in 1..MaxArgs : indices \in [1..n -> Positions]
      BY DEF Indices
    <2>2. n \in Nat /\ Positions \subseteq Nat
      BY <1>1 DEF Positions
    <2>3. indices \in [1..n -> Nat]
      BY <2>1, <2>2
    <2>4. indices \in Seq(Nat) /\ Len(indices) = n
      BY <2>2, <2>3
    <2> QED  BY <2>4
  <1> QED  BY <1>1, <1>2, <1>3, SafeSliceAssumption DEF Owners

LEMMA AppendAllKeeps ==
  ASSUME SliceInv, NEW xs \in Seq(Values), AppendAll(xs)
  PROVE  Kept("slice")
  <1>1. PICK r \in Appended("slice", "slice", xs) : Hold("slice", r)
    BY DEF AppendAll
  <1>2. Good("slice", r) /\ r.h.at \in {ref["slice"].at, None, Fresh("slice")}
    BY AppendedGood, ArgsFact
  <1>3. ref'["slice"] = r.h /\ open' \subseteq Txs
    BY <1>1, ArgsFact DEF AppendAll, Hold, SliceInv, TypeInv
  <1>4. handed' = (handed /\ r.h.at = ref["slice"].at) /\ handed \in BOOLEAN
    BY <1>3 DEF AppendAll, Keep, SliceInv, TypeInv
  <1>5. Placed("slice", r) /\ handed' \in BOOLEAN
    BY <1>2, <1>4, ArgsFact DEF Placed
  <1> QED  BY <1>1, <1>2, <1>3, <1>5, HoldKeeps, ArgsFact

LEMMA PrependKeeps ==
  ASSUME SliceInv, NEW xs \in Seq(Values), Prepend(xs)
  PROVE  Kept("slice")
  <1>1. handed \in BOOLEAN /\ open \subseteq Txs /\ View("slice") \in Seq(Values)
        /\ ref \in [Owners -> Headers] /\ ref["caller"].at \in Arrays \cup {None}
        /\ {"slice", "caller"} \subseteq Owners
    BY ViewIs, ArgsFact DEF SliceInv, TypeInv, Headers
  <1>2. CASE /\ \E n \in 0..Slack : Hold("slice", Allocated("slice", xs \o View("slice"), n))
             /\ Keep
             /\ UNCHANGED open
    <2>1. PICK n \in 0..Slack : Hold("slice", Allocated("slice", xs \o View("slice"), n))
      BY <1>2
    <2> DEFINE r == Allocated("slice", xs \o View("slice"), n)
    <2>2. Good("slice", r) /\ r.h.at \in {None, Fresh("slice")}
      <3>1. n \in Nat /\ xs \o View("slice") \in Seq(Values)
        BY <1>1, SafeSliceAssumption
      <3> QED  BY <1>1, <3>1, AllocatedGood
    <2> HIDE DEF r
    <2>3. Placed("slice", r) /\ handed' \in BOOLEAN /\ open' \subseteq Txs
      BY <1>1, <1>2, <2>2, ArgsFact DEF Placed, Keep
    <2> QED  BY <1>1, <2>1, <2>2, <2>3, HoldKeeps DEF r
  <1>3. CASE /\ ref["caller"].len > 0
             /\ \E r \in Appended("slice", "caller", View("slice")) :
                   /\ Hold("slice", r)
                   /\ handed' = (r.h.at = ref["caller"].at)
             /\ UNCHANGED open
    <2>1. PICK r \in Appended("slice", "caller", View("slice")) :
                   Hold("slice", r) /\ handed' = (r.h.at = ref["caller"].at)
      BY <1>3
    <2>2. Good("slice", r) /\ r.h.at \in {ref["caller"].at, None, Fresh("slice")}
      BY <1>1, AppendedGood
    <2>3. Placed("slice", r)
      BY <2>1, <2>2, ArgsFact DEF Placed
    <2> QED  BY <1>1, <1>3, <2>1, <2>2, <2>3, HoldKeeps
  <1> QED  BY <1>2, <1>3 DEF Prepend

(* What keeps its array, or has none.                                      *)
LEMMA InPlaceKeeps ==
  ASSUME SliceInv, NEW w \in Owners, NEW r, Good(w, r), r.h.at \in {ref[w].at, None}, Hold(w, r),
         open' \subseteq Txs, handed' = handed
  PROVE  Kept(w)
  <1>1. Placed(w, r) /\ handed' \in BOOLEAN
    BY DEF Placed, SliceInv, TypeInv
  <1> QED  BY <1>1, HoldKeeps

LEMMA WithoutKeeps ==
  ASSUME SliceInv, NEW w \in Owners, NEW i \in Nat, NEW j \in Nat, i < j, j <= ref[w].len,
         Hold(w, Without(Now(w), i, j)), UNCHANGED <<open, handed>>
  PROVE  Kept(w)
  <1> DEFINE r == Now(w)
             q == Without(r, i, j)
  <1>1. Good(w, r) /\ r.h = ref[w]
    BY NowGood
  <1> HIDE DEF r
  <1>2. Good(w, q) /\ q.h.at = ref[w].at
    BY <1>1, WithoutGood
  <1> HIDE DEF q
  <1>3. Hold(w, q) /\ open' \subseteq Txs
    BY DEF q, r, SliceInv, TypeInv
  <1> QED  BY <1>2, <1>3, InPlaceKeeps

LEMMA DeleteKeeps ==
  ASSUME SliceInv, NEW w \in Owners, NEW i \in At(w),
         Hold(w, Without(Now(w), i - 1, i)), UNCHANGED <<open, handed>>
  PROVE  Kept(w)
  <1>1. ref[w].len \in Nat
    BY NowGood, SafeSliceAssumption
  <1>2. i \in Nat /\ i - 1 \in Nat /\ i - 1 < i /\ i <= ref[w].len
    BY <1>1 DEF At
  <1> QED  BY <1>2, WithoutKeeps

LEMMA SetKeeps ==
  ASSUME SliceInv, NEW w \in Owners, NEW i \in At(w), NEW v \in Values,
         Store(w, i, v), UNCHANGED <<open, handed>>
  PROVE  Kept(w)
  <1> DEFINE a == ref[w].at
             s == [mem[a] EXCEPT ![i] = v]
  <1>1. /\ ref \in [Owners -> Headers] /\ mem \in [Arrays -> Seq(Cells)]
        /\ ref[w].len \in Nat /\ Fits(mem, ref[w])
    BY SafeSliceAssumption DEF SliceInv, TypeInv, Headers
  <1>2. a # None /\ a \in Arrays /\ i \in 1..Len(mem[a])
    <2>1. i \in 1..ref[w].len
      BY DEF At
    <2>2. a # None
      BY <1>1, <2>1 DEF Fits
    <2>3. a \in Arrays
      BY <1>1, <2>2 DEF Headers
    <2>4. Len(mem[a]) \in Nat
      BY <1>1, <2>3
    <2> QED  BY <1>1, <2>1, <2>2, <2>3, <2>4 DEF Fits
  <1>3. mem[a] \in Seq(Cells) /\ v \in Cells
    BY <1>1, <1>2 DEF Cells
  <1>4. s \in Seq(Cells) /\ Len(s) = Len(mem[a])
        /\ \A j \in 1..Len(s) : s[j] \in Values \/ s[j] = mem[a][j]
    <2> HIDE DEF a
    <2> QED  BY <1>2, <1>3
  <1>5. mem' = [mem EXCEPT ![a] = s] /\ ref' = ref
    BY DEF Store
  <1> HIDE DEF s
  <1> QED  BY <1>2, <1>4, <1>5, StoreKeeps

LEMMA BatchUpdateKeeps ==
  ASSUME SliceInv, NEW updates \in Updates, BatchUpdate(updates)
  PROVE  Kept("slice")
  <1> DEFINE w == "slice"
             a == ref[w].at
             U == DOMAIN updates \cap At(w)
             s == [i \in DOMAIN mem[a] |-> IF i \in U THEN updates[i] ELSE mem[a][i]]
  <1>1. /\ ref \in [Owners -> Headers] /\ mem \in [Arrays -> Seq(Cells)] /\ w \in Owners
        /\ ref[w].len \in Nat /\ Fits(mem, ref[w])
    BY SafeSliceAssumption, ArgsFact DEF SliceInv, TypeInv, Headers
  <1>2. a # None /\ a \in Arrays
    <2>1. PICK i : i \in 1..ref[w].len
      BY DEF BatchUpdate, At
    <2>2. a # None
      BY <1>1, <2>1 DEF Fits
    <2> QED  BY <1>1, <2>2 DEF Headers
  <1>3. mem[a] \in Seq(Cells)
    BY <1>1, <1>2
  <1>4. \A i \in U : updates[i] \in Values
    BY DEF Updates
  <1>5. mem' = [mem EXCEPT ![a] = s] /\ ref' = ref /\ open' = open /\ handed' = handed
    BY <1>1, <1>2 DEF BatchUpdate
  <1> HIDE DEF U, a
  <1>6. s \in Seq(Cells) /\ Len(s) = Len(mem[a])
        /\ \A j \in 1..Len(s) : s[j] \in Values \/ s[j] = mem[a][j]
    <2>1. DOMAIN mem[a] = 1..Len(mem[a]) /\ Len(mem[a]) \in Nat
          /\ \A j \in 1..Len(mem[a]) : mem[a][j] \in Cells
      BY <1>3
    <2>2. s \in [1..Len(mem[a]) -> Cells]
      BY <1>4, <2>1 DEF Cells
    <2>3. s \in Seq(Cells) /\ Len(s) = Len(mem[a])
      <3> HIDE DEF s
      <3> QED  BY <2>1, <2>2
    <2>4. \A j \in 1..Len(mem[a]) : s[j] \in Values \/ s[j] = mem[a][j]
      BY <1>4, <2>1
    <2> HIDE DEF s
    <2> QED  BY <2>3, <2>4
  <1> HIDE DEF s
  <1> QED  BY <1>1, <1>2, <1>5, <1>6, StoreKeeps DEF a

LEMMA BatchDeleteKeeps ==
  ASSUME SliceInv, NEW indices \in Indices, BatchDelete(indices)
  PROVE  Kept("slice")
  <1> DEFINE r == DeletedOneByOne(indices)
  <1>1. Len(indices) \in Nat
    BY ArgsFact
  <1>2. Good("slice", r) /\ r.h.at = ref["slice"].at
    BY <1>1, DeletedGood
  <1>3. Hold("slice", r) /\ open' \subseteq Txs /\ handed' = handed
    BY DEF BatchDelete, SliceInv, TypeInv
  <1> HIDE DEF r
  <1> QED  BY <1>2, <1>3, InPlaceKeeps, ArgsFact

LEMMA ClearKeeps ==
  ASSUME SliceInv, Clear
  PROVE  Kept("slice")
  <1> DEFINE h == [ref["slice"] EXCEPT !.len = 0]
             r == [m |-> mem, h |-> h]
  <1>1. h = [at |-> ref["slice"].at, len |-> 0] /\ ref["slice"].at \in Arrays \cup {None}
    BY ArgsFact DEF SliceInv, TypeInv, Headers
  <1>2. h \in [at : Arrays \cup {None}, len : Nat]
    BY <1>1
  <1>3. Fits(mem, h)
    <2>1. h.at # None => 0 <= Len(mem[h.at])
      <3>1. h.at # None => mem[h.at] \in Seq(Cells)
        BY <1>1 DEF SliceInv, TypeInv
      <3> QED  BY <3>1
    <2> QED  BY <1>1, <2>1 DEF Fits
  <1>4. Hold("slice", r) /\ open' \subseteq Txs /\ handed' = handed
    BY DEF Clear, SliceInv, TypeInv
  <1>5. r.h.at = ref["slice"].at
    BY <1>1
  <1> HIDE DEF h
  <1>6. Good("slice", r)
    BY <1>2, <1>3, HeaderGood, ArgsFact
  <1> HIDE DEF r
  <1> QED  BY <1>4, <1>5, <1>6, InPlaceKeeps, ArgsFact

LEMMA BatchOperationKeeps ==
  ASSUME SliceInv, NEW xs \in Seq(Values), BatchOperation(xs)
  PROVE  Kept("slice")
  <1>1. handed \in BOOLEAN /\ open \subseteq Txs /\ {"slice", "caller"} \subseteq Owners
    BY ArgsFact DEF SliceInv, TypeInv
  <1>2. CASE Hold("slice", Copied("slice", xs)) /\ Keep /\ UNCHANGED open
    <2> DEFINE r == Copied("slice", xs)
    <2>1. Good("slice", r) /\ r.h.at \in {None, Fresh("slice")}
      BY <1>1, AllocatedGood DEF Copied
    <2> HIDE DEF r
    <2>2. Placed("slice", r) /\ handed' \in BOOLEAN
      BY <1>1, <1>2, <2>1, ArgsFact DEF Placed, Keep
    <2>3. Hold("slice", r)
      BY <1>2 DEF r
    <2> QED  BY <1>1, <1>2, <2>1, <2>2, <2>3, HoldKeeps
  <1>3. CASE /\ Hold("slice", Now("caller"))
             /\ handed' = (ref["caller"].at # None)
             /\ UNCHANGED open
    <2> DEFINE h == ref["caller"]
               r == [m |-> mem, h |-> h]
    <2>1. h \in [at : Arrays \cup {None}, len : Nat] /\ Fits(mem, h)
      BY <1>1, SafeSliceAssumption DEF SliceInv, TypeInv, Headers
    <2>2. r.h = h /\ Hold("slice", r)
      BY <1>3 DEF Now
    <2>3. Good("slice", r)
      <3> HIDE DEF h
      <3> QED  BY <1>1, <2>1, HeaderGood
    <2> HIDE DEF r
    <2>4. Placed("slice", r)
      BY <1>3, <2>2 DEF Placed
    <2> QED  BY <1>1, <1>3, <2>2, <2>3, <2>4, HoldKeeps
  <1> QED  BY <1>2, <1>3 DEF BatchOperation

LEMMA SetIsKept ==
  ASSUME SliceInv, NEW i, NEW v \in Values, Set(i, v)
  PROVE  Kept("slice")
  BY SetKeeps, ArgsFact DEF Set

LEMMA SliceStepKeeps ==
  ASSUME SliceInv, SliceStep
  PROVE  Kept("slice")
  <1>1. /\ "slice" \in Owners /\ View("slice") \in Seq(Values)
        /\ Len(View("slice")) = ref["slice"].len
        /\ At("slice") = DOMAIN View("slice") /\ ref["slice"].len \in Nat
    <2>1. "slice" \in Owners
      BY ArgsFact
    <2>2. View("slice") \in Seq(Values) /\ Len(View("slice")) = ref["slice"].len
      BY <2>1, ViewIs DEF SliceInv
    <2>3. ref["slice"].len \in Nat
      BY <2>1, NowGood, SafeSliceAssumption
    <2> QED  BY <2>1, <2>2, <2>3 DEF At
  <1>2. \A i \in At("slice") : View("slice")[i] \in Values
    BY <1>1
  <1>3. ASSUME NEW xs \in Args, AppendAll(xs) \/ Prepend(xs) PROVE Kept("slice")
    BY <1>3, AppendAllKeeps, PrependKeeps, ArgsFact
  <1>4. ASSUME NEW i \in Positions, NEW v \in Values,
               Set(i, v) \/ GetOrCompute(i, v) \/ CompareAndDelete(i, v)
        PROVE  Kept("slice")
    <2>1. CASE Set(i, v)
      BY <2>1, SetIsKept
    <2>2. CASE GetOrCompute(i, v)
      <3>1. <<v>> \in Seq(Values)
        OBVIOUS
      <3> QED  BY <2>2, <3>1, AppendAllKeeps DEF GetOrCompute
    <2>3. CASE CompareAndDelete(i, v)
      BY <1>1, <2>3, DeleteKeeps DEF CompareAndDelete, Delete
    <2> QED  BY <1>4, <2>1, <2>2, <2>3
  <1>5. ASSUME NEW i \in Positions, NEW v \in Values, NEW expected \in Values,
               CompareAndSwap(i, expected, v)
        PROVE  Kept("slice")
    BY <1>5, SetIsKept DEF CompareAndSwap
  <1>6. ASSUME NEW i \in Positions, Delete(i) PROVE Kept("slice")
    BY <1>1, <1>6, DeleteKeeps DEF Delete
  <1>7. ASSUME NEW i \in 0..MaxLen, NEW j \in Positions, DeleteRange(i, j) PROVE Kept("slice")
    <2>1. i \in Nat /\ j \in Nat
      BY SafeSliceAssumption DEF Positions
    <2> QED  BY <1>1, <1>7, <2>1, WithoutKeeps DEF DeleteRange
  <1>8. ASSUME NEW indices \in Indices, BatchDelete(indices) PROVE Kept("slice")
    BY <1>8, BatchDeleteKeeps
  <1>9. ASSUME NEW updates \in Updates, BatchUpdate(updates) PROVE Kept("slice")
    BY <1>9, BatchUpdateKeeps
  <1>10. ASSUME NEW xs \in Args, BatchOperation(xs) PROVE Kept("slice")
    BY <1>10, BatchOperationKeeps, ArgsFact
  <1>11. ASSUME NEW i \in Positions, NEW fn \in Fns, AtomicUpdate(i, fn) PROVE Kept("slice")
    <2>1. fn[View("slice")[i]] \in Values
      BY <1>2, <1>11 DEF AtomicUpdate, Fns
    <2> QED  BY <1>11, <2>1, SetIsKept DEF AtomicUpdate
  <1>12. ASSUME NEW P \in SUBSET Values, NEW fn \in Fns, FindAndUpdate(P, fn) PROVE Kept("slice")
    <2>1. PICK i \in At("slice") : Set(i, fn[View("slice")[i]])
      BY <1>12 DEF FindAndUpdate
    <2>2. fn[View("slice")[i]] \in Values
      BY <1>2, <2>1 DEF Fns
    <2> QED  BY <2>1, <2>2, SetIsKept
  <1> QED  BY <1>3, <1>4, <1>5, <1>6, <1>7, <1>8, <1>9, <1>10, <1>11, <1>12, ClearKeeps
           DEF SliceStep

LEMMA TakeKeeps ==
  ASSUME SliceInv, NEW xs \in Seq(Values), NEW n \in Nat, Take(Allocated("caller", xs, n))
  PROVE  Kept("caller")
  <1> DEFINE r == Allocated("caller", xs, n)
  <1>1. Good("caller", r) /\ r.h.at \in {None, Fresh("caller")}
    BY AllocatedGood, ArgsFact
  <1>2. Hold("caller", r) /\ handed' = FALSE /\ open' \subseteq Txs
    BY DEF Take, SliceInv, TypeInv
  <1> HIDE DEF r
  <1>3. Placed("caller", r)
    BY <1>1, ArgsFact DEF Placed
  <1> QED  BY <1>1, <1>2, <1>3, HoldKeeps, ArgsFact

LEMMA CallerStepKeeps ==
  ASSUME SliceInv, CallerStep
  PROVE  Kept("caller")
  <1>1. /\ View("slice") \in Seq(Values) /\ At("slice") = DOMAIN View("slice")
    BY ArgsFact, ViewIs, NowGood, SafeSliceAssumption DEF SliceInv, At
  <1>2. \A i \in At("slice") : View("slice")[i] \in Values
    BY <1>1
  <1>3. CASE ToSlice
    <2>1. 0 \in Nat
      OBVIOUS
    <2> QED  BY <1>1, <1>3, <2>1, TakeKeeps DEF ToSlice, Copied
  <1>4. ASSUME NEW indices \in Indices, NEW zero \in Values, GetMany(indices, zero)
        PROVE  Kept("caller")
    <2> DEFINE xs == [k \in DOMAIN indices |->
                        IF indices[k] \in At("slice") THEN View("slice")[indices[k]] ELSE zero]
    <2>1. indices \in Seq(Nat) /\ DOMAIN indices = 1..Len(indices) /\ Len(indices) \in Nat
      BY ArgsFact
    <2>2. xs \in [1..Len(indices) -> Values]
      BY <1>2, <2>1
    <2>3. Take(Allocated("caller", xs, 0))
      BY <1>4 DEF GetMany, Copied
    <2> HIDE DEF xs
    <2>4. xs \in Seq(Values) /\ 0 \in Nat
      BY <2>1, <2>2
    <2> QED  BY <2>3, <2>4, TakeKeeps
  <1>5. ASSUME NEW P \in SUBSET Values, Filter(P) PROVE Kept("caller")
    <2> DEFINE matching == {i \in At("slice") : View("slice")[i] \in P}
               n == Cardinality(matching)
    <2>1. PICK xs \in [1..n -> Values] : Take(Copied("caller", xs))
      BY <1>5 DEF Filter
    <2>2. n \in Nat
      <3>1. IsFiniteSet(At("slice")) /\ matching \subseteq At("slice")
        BY ArgsFact, NowGood, SafeSliceAssumption, FS_Interval DEF At
      <3> HIDE DEF matching
      <3> QED  BY <3>1, FS_Subset, FS_CardinalityType
    <2> HIDE DEF n
    <2>3. xs \in Seq(Values) /\ 0 \in Nat /\ Take(Allocated("caller", xs, 0))
      BY <2>1, <2>2 DEF Copied
    <2> QED  BY <2>3, TakeKeeps
  <1>6. ASSUME NEW xs \in Args, NEW n \in 0..Slack, Make(xs, n) PROVE Kept("caller")
    <2>1. xs \in Seq(Values) /\ n \in Nat
      BY ArgsFact, SafeSliceAssumption
    <2> QED  BY <1>6, <2>1, TakeKeeps DEF Make
  <1>7. ASSUME NEW i \in Positions, NEW v \in Values, Write(i, v) PROVE Kept("caller")
    BY <1>7, SetKeeps, ArgsFact DEF Write
  <1> QED  BY <1>3, <1>4, <1>5, <1>6, <1>7 DEF CallerStep

(* Commit: two headers change, and nobody else's slice does.               *)
Committed(t) ==
  /\ t \in open \ open' /\ View("slice")' = View(t)
  /\ \A v \in Owners \ {"slice", t} : View(v)' = View(v)

LEMMA CommitKeeps ==
  ASSUME SliceInv, NEW t \in Txs, Commit(t)
  PROVE  SliceInv' /\ Committed(t)
  <1> DEFINE r == Copied("slice", View(t))
             m == r.m
  <1>1. /\ "slice" \in Owners /\ t \in Owners /\ t # "slice" /\ t # "caller"
        /\ View(t) \in Seq(Values)
        /\ ref \in [Owners -> Headers] /\ open \subseteq Txs /\ ref[t].len \in 0..MaxLen
        /\ Len(View(t)) = ref[t].len
    BY ArgsFact, ViewIs, NowGood DEF SliceInv, TypeInv
  <1>2. /\ Good("slice", r) /\ r.h.at \in {None, Fresh("slice")} /\ Read(r) = View(t)
        /\ r.h.len = ref[t].len /\ \A v \in Owners \ {"slice"} : Same(r.m, ref[v])
    BY <1>1, AllocatedGood DEF Copied
  <1>3. /\ t \in open /\ open' = open \ {t} /\ handed' = FALSE
        /\ ref' = [ref EXCEPT !["slice"] = r.h, ![t] = Nil] /\ mem' = Reachable(m, ref')
    BY DEF Commit
  <1> HIDE DEF r
  <1>4. /\ ref' \in [Owners -> Headers] /\ ref'["slice"] = r.h /\ ref'[t] = Nil
        /\ \A v \in Owners \ {"slice", t} : ref'[v] = ref[v]
    <2>1. r.h \in Headers /\ Nil \in Headers
      BY <1>1, <1>2, SafeSliceAssumption DEF Good, Headers, Nil
    <2> QED  BY <1>1, <1>3, <2>1
  <1>5. m \in [Arrays -> Seq(Cells)] /\ \A v \in Owners : Fits(m, ref'[v])
    <2>1. Fits(m, Nil) /\ m \in [Arrays -> Seq(Cells)]
      BY <1>2 DEF Fits, Nil, Good
    <2> QED  BY <1>2, <1>4, <2>1 DEF Good
  <1>6. /\ mem' \in [Arrays -> Seq(Cells)]
        /\ \A v \in Owners : Fits(mem', ref'[v]) /\ View(v)' = Read([m |-> m, h |-> ref'[v]])
    <2> HIDE DEF m
    <2> QED  BY <1>3, <1>4, <1>5, ReachableShows
  <1>7. View("slice")' = View(t)
    BY <1>1, <1>2, <1>4, <1>6 DEF Read
  <1>8. ASSUME NEW v \in Owners \ {"slice", t} PROVE View(v)' = View(v)
    <2>1. ref'[v] = ref[v] /\ Fits(m, ref[v]) /\ Same(m, ref[v])
      BY <1>2, <1>4, <1>5
    <2> HIDE DEF m
    <2>2. Read([m |-> m, h |-> ref[v]]) = View(v)
      BY <2>1, SameShows
    <2> QED  BY <1>6, <2>1, <2>2
  <1>9. Apart'
    <2>1. SUFFICES ASSUME NEW v \in Owners, NEW u \in Owners, v # u,
                          ref'[v].at = ref'[u].at, ref'[v].at # None
                   PROVE  FALSE
      BY DEF Apart
    <2>2. \A x \in Owners \ {"slice"} : ref[x].at # Fresh("slice")
      BY <1>1, FreshFree
    <2>3. v # t /\ u # t
      BY <1>4, <2>1 DEF Nil
    <2>4. v # "slice" /\ u # "slice"
      BY <1>1, <1>2, <1>4, <2>1, <2>2, <2>3
    <2> QED  BY <1>4, <2>1, <2>3, <2>4 DEF SliceInv, Apart
  <1>10. SliceInv'
    BY <1>1, <1>3, <1>4, <1>6, <1>9 DEF SliceInv, TypeInv
  <1> QED  BY <1>3, <1>7, <1>8, <1>10 DEF Committed

LEMMA TxStepKeeps ==
  ASSUME SliceInv, NEW t \in Txs, TxStep(t)
  PROVE  Kept(t) \/ (SliceInv' /\ Committed(t))
  <1>1. /\ t \in Owners /\ "slice" \in Owners /\ open \subseteq Txs /\ handed \in BOOLEAN
        /\ View("slice") \in Seq(Values) /\ 0 \in Nat
    BY ArgsFact, ViewIs DEF SliceInv, TypeInv
  <1>2. CASE Begin(t)
    <2> DEFINE r == Allocated(t, View("slice"), 0)
    <2>1. Good(t, r) /\ r.h.at \in {None, Fresh(t)}
      BY <1>1, AllocatedGood
    <2>2. Hold(t, r) /\ handed' = handed /\ open' \subseteq Txs
      BY <1>1, <1>2 DEF Begin, Copied
    <2> HIDE DEF r
    <2>3. Placed(t, r)
      BY <2>1, <2>2 DEF Placed
    <2> QED  BY <1>1, <2>1, <2>2, <2>3, HoldKeeps
  <1>3. CASE Commit(t)
    BY <1>3, CommitKeeps
  <1>4. CASE Rollback(t)
    <2> DEFINE r == [m |-> mem, h |-> Nil]
    <2>1. Hold(t, r) /\ handed' = handed /\ open' \subseteq Txs
      BY <1>1, <1>4 DEF Rollback
    <2>2. Nil \in [at : Arrays \cup {None}, len : Nat] /\ Fits(mem, Nil) /\ r.h.at = None
      BY DEF Nil, Fits
    <2>3. Good(t, r)
      BY <1>1, <2>2, HeaderGood
    <2> HIDE DEF r
    <2> QED  BY <1>1, <2>1, <2>2, <2>3, InPlaceKeeps
  <1>5. ASSUME NEW i \in Positions, NEW v \in Values, TxSet(t, i, v) PROVE Kept(t)
    BY <1>1, <1>5, SetKeeps DEF TxSet
  <1>6. ASSUME NEW i \in Positions, TxDelete(t, i) PROVE Kept(t)
    BY <1>1, <1>6, DeleteKeeps DEF TxDelete
  <1>7. ASSUME NEW xs \in Args, TxAppend(t, xs) PROVE Kept(t)
    <2>1. xs \in Seq(Values)
      BY ArgsFact
    <2>2. PICK r \in Appended(t, t, xs) : Hold(t, r)
      BY <1>7 DEF TxAppend
    <2>3. Good(t, r) /\ r.h.at \in {ref[t].at, None, Fresh(t)}
      BY <1>1, <2>1, AppendedGood
    <2>4. handed' = handed /\ open' \subseteq Txs
      BY <1>1, <1>7 DEF TxAppend
    <2>5. Placed(t, r)
      BY <2>3, <2>4 DEF Placed
    <2> QED  BY <1>1, <2>2, <2>3, <2>4, <2>5, HoldKeeps
  <1> QED  BY <1>2, <1>3, <1>4, <1>5, <1>6, <1>7 DEF TxStep

-----------------------------------------------------------------------------
LEMMA InitInv == Init => SliceInv
  <1> SUFFICES ASSUME Init PROVE SliceInv
    OBVIOUS
  <1>1. /\ mem = [a \in Arrays |-> <<>>] /\ ref = [w \in Owners |-> Nil]
        /\ open = {} /\ handed = FALSE
    BY DEF Init
  <1>2. Nil \in Headers /\ Nil.at = None /\ Nil.len = 0
    BY SafeSliceAssumption DEF Nil, Headers
  <1>3. mem \in [Arrays -> Seq(Cells)]
    BY <1>1
  <1>4. TypeInv
    BY <1>1, <1>2, <1>3 DEF TypeInv
  <1>5. \A w \in Owners : ref[w].at = None /\ ref[w].len = 0
    BY <1>1, <1>2
  <1> QED  BY <1>4, <1>5 DEF SliceInv, Fits, Apart

LEMMA NextKeeps ==
  ASSUME SliceInv, Next
  PROVE  (\E w \in Owners : Kept(w)) \/ (SliceInv' /\ \E t \in Txs : Committed(t))
  BY ArgsFact, SliceStepKeeps, CallerStepKeeps, TxStepKeeps DEF Next

(* Every header fits its array, shows values alone, and shares it with     *)
(* nobody, except where the caller has handed his own slice to Prepend or  *)
(* BatchOperation (slice.go): the invariant the other theorems rest on.    *)
THEOREM Inductive == Spec => []SliceInv
  <1>1. SliceInv /\ [Next]_vars => SliceInv'
    <2>1. ASSUME SliceInv, Next PROVE SliceInv'
      BY <2>1, NextKeeps DEF Kept
    <2>2. ASSUME SliceInv, UNCHANGED vars PROVE SliceInv'
      <3>1. mem' = mem /\ ref' = ref /\ open' = open /\ handed' = handed
        BY <2>2 DEF vars
      <3> QED  BY <2>2, <3>1 DEF SliceInv, TypeInv, Apart
    <2> QED  BY <2>1, <2>2
  <1> QED  BY InitInv, <1>1, PTL DEF Spec

LEMMA InvPrivate == SliceInv => Private
  <1> SUFFICES ASSUME SliceInv PROVE Private
    OBVIOUS
  <1>1. ASSUME NEW w \in Owners PROVE ref[w].len <= Room(ref[w])
    BY DEF SliceInv, Fits, Room
  <1> QED  BY <1>1 DEF Private, SliceInv, TypeInv, Apart

(* Private: no two slices share an array, not a transaction's copy with    *)
(* the contents it was taken from, nor what ToSlice or Filter hands out    *)
(* (slice.go, transaction.go, iterator.go).                                *)
THEOREM PrivateProved == Spec => []Private
  BY Inductive, InvPrivate, PTL

LEMMA StepIsolated ==
  ASSUME SliceInv, Next
  PROVE  LET changed == {w \in Owners : View(w)' # View(w)}
         IN  \/ Cardinality(changed) <= 1
             \/ changed = {"slice", "caller"} /\ handed
             \/ \E t \in open \ open' : changed \subseteq {"slice", t} /\ View("slice")' = View(t)
  <1> DEFINE changed == {w \in Owners : View(w)' # View(w)}
  <1>1. ASSUME NEW w \in Owners, Kept(w)
        PROVE  Cardinality(changed) <= 1 \/ (changed = {"slice", "caller"} /\ handed)
    <2>1. CASE \E v \in Owners \ {w} : Shares(v, w)
      <3>1. handed /\ w \in {"slice", "caller"}
        BY <2>1 DEF Shares
      <3>2. changed \subseteq {"slice", "caller"}
        BY <1>1, <3>1 DEF Kept, Others, Shares
      <3>3. \/ changed = {} \/ changed = {"slice"}
            \/ changed = {"caller"} \/ changed = {"slice", "caller"}
        BY <3>2
      <3>4. Cardinality({}) = 0 /\ Cardinality({"slice"}) = 1 /\ Cardinality({"caller"}) = 1
        BY FS_EmptySet, FS_Singleton
      <3> HIDE DEF changed
      <3> QED  BY <3>1, <3>3, <3>4
    <2>2. CASE ~\E v \in Owners \ {w} : Shares(v, w)
      <3>1. changed = {} \/ changed = {w}
        BY <1>1, <2>2 DEF Kept, Others
      <3>2. Cardinality({}) = 0 /\ Cardinality({w}) = 1
        BY FS_EmptySet, FS_Singleton
      <3> HIDE DEF changed
      <3> QED  BY <3>1, <3>2
    <2> QED  BY <2>1, <2>2
  <1>2. ASSUME NEW t \in Txs, Committed(t)
        PROVE  t \in open \ open' /\ changed \subseteq {"slice", t} /\ View("slice")' = View(t)
    BY <1>2 DEF Committed
  <1> QED  BY <1>1, <1>2, NextKeeps

(* Isolated: no step of anybody changes what two hold, except Commit,      *)
(* which changes the contents and ends the transaction (transaction.go),   *)
(* and a write to a slice that the caller has handed over; for any number  *)
(* of transactions.                                                        *)
THEOREM IsolatedProved == Spec => Isolated
  <1>1. SliceInv /\ [Next]_vars =>
          [LET changed == {w \in Owners : View(w)' # View(w)}
           IN  \/ Cardinality(changed) <= 1
               \/ changed = {"slice", "caller"} /\ handed
               \/ \E t \in open \ open' : changed \subseteq {"slice", t}]_vars
    BY StepIsolated
  <1> QED  BY Inductive, <1>1, PTL DEF Spec, Isolated

-----------------------------------------------------------------------------
(* What BatchDelete leaves.  Any positions can be sorted.                  *)
Skipping(m, k) == IF k < m THEN k ELSE k + 1

LEMMA SkippingIs ==
  ASSUME NEW k \in Nat, NEW m \in 1..k
  PROVE  /\ \A i \in 1..k - 1 : Skipping(m, i) \in 1..k /\ Skipping(m, i) # m
         /\ \A x, y \in 1..k - 1 : x < y => Skipping(m, x) < Skipping(m, y)
         /\ \A x, y \in 1..k - 1 : Skipping(m, x) = Skipping(m, y) => x = y
         /\ \A y \in 1..k : y # m => \E x \in 1..k - 1 : Skipping(m, x) = y
  <1>1. \A i \in 1..k - 1 : Skipping(m, i) \in 1..k /\ Skipping(m, i) # m
    BY DEF Skipping
  <1>2. \A x, y \in 1..k - 1 : x < y => Skipping(m, x) < Skipping(m, y)
    BY DEF Skipping
  <1>3. ASSUME NEW x \in 1..k - 1, NEW y \in 1..k - 1, Skipping(m, x) = Skipping(m, y) PROVE x = y
    <2>1. x < y \/ y < x \/ x = y
      OBVIOUS
    <2>2. Skipping(m, x) \in Nat /\ Skipping(m, y) \in Nat
      BY <1>1
    <2> QED  BY <1>2, <1>3, <2>1, <2>2
  <1>4. ASSUME NEW y \in 1..k, y # m PROVE \E x \in 1..k - 1 : Skipping(m, x) = y
    <2>1. (y < m => y \in 1..k - 1 /\ Skipping(m, y) = y)
          /\ (y > m => y - 1 \in 1..k - 1 /\ Skipping(m, y - 1) = y)
      BY DEF Skipping
    <2>2. y < m \/ y > m
      BY <1>4
    <2> QED  BY <2>1, <2>2
  <1> QED  BY <1>1, <1>2, <1>3, <1>4

LEMMA SortedExists ==
  ASSUME NEW n \in Nat, NEW q \in [1..n -> Nat]
  PROVE  \E p \in Bijection(1..n, 1..n) : \A i, j \in 1..n : i < j => q[p[i]] >= q[p[j]]
  <1> DEFINE Sorts(p, k, s) == /\ p \in Bijection(1..k, 1..k)
                               /\ \A i, j \in 1..k : i < j => s[p[i]] >= s[p[j]]
             T == {k \in Nat : \E s \in [1..k -> Nat] : ~\E p : Sorts(p, k, s)}
  <1>1. SUFFICES ASSUME T # {} PROVE FALSE
    OBVIOUS
  <1> HIDE DEF T
  <1>2. PICK k \in T : \A l \in T : k <= l
    <2>1. T \in SUBSET Nat
      BY DEF T
    <2> QED  BY <1>1, <2>1, LeastOne
  <1>0. k \in Nat /\ k - 1 \notin T
    <2>1. k \in Nat
      BY DEF T
    <2> QED  BY <1>2, <2>1
  <1> USE DEF T
  <1>3. PICK s \in [1..k -> Nat] : ~\E p : Sorts(p, k, s)
    BY <1>2
  <1>4. CASE k = 0
    <2> DEFINE p == [i \in 1..k |-> i]
    <2>1. p \in Bijection(1..k, 1..k)
      BY <1>4, Fun_IsBij
    <2>2. Sorts(p, k, s)
      BY <1>4, <2>1
    <2> QED  BY <1>3, <2>2
  <1>5. CASE k # 0
    <2>1. k \in Nat /\ k - 1 \in Nat /\ k - 1 \notin T
      <3> HIDE DEF T
      <3> QED  BY <1>0, <1>5
    <2>2. PICK m \in 1..k : \A i \in 1..k : s[m] <= s[i]
      <3> DEFINE V == {s[i] : i \in 1..k}
      <3>1. V \in SUBSET Nat /\ s[1] \in V
        <4> HIDE DEF T, Sorts
        <4>1. 1 \in 1..k
          BY <2>1, <1>5
        <4> QED  BY <4>1
      <3> HIDE DEF V
      <3>2. PICK v \in V : \A u \in V : v <= u
        BY <3>1, LeastOne
      <3> QED  BY <3>2 DEF V
    <2> DEFINE z == [i \in 1..k - 1 |-> s[Skipping(m, i)]]
    <2>3. \A i \in 1..k - 1 : Skipping(m, i) \in 1..k /\ Skipping(m, i) # m
      BY <2>1, SkippingIs
    <2>4. z \in [1..k - 1 -> Nat]
      BY <2>3
    <2>5. PICK p : Sorts(p, k - 1, z)
      <3> HIDE DEF z, Sorts
      <3> QED  BY <2>1, <2>4
    <2>6. /\ p \in [1..k - 1 -> 1..k - 1]
          /\ \A i, j \in 1..k - 1 : p[i] = p[j] => i = j
          /\ \A y \in 1..k - 1 : \E i \in 1..k - 1 : p[i] = y
      <3>1. p \in Bijection(1..k - 1, 1..k - 1)
        BY <2>5
      <3> HIDE DEF T, z, Sorts
      <3> QED  BY <3>1 DEF Bijection, Injection, Surjection, IsInjective
    <2> DEFINE r == [i \in 1..k |-> IF i = k THEN m ELSE Skipping(m, p[i])]
    <2>7. r \in [1..k -> 1..k] /\ r[k] = m
          /\ \A i \in 1..k - 1 : r[i] = Skipping(m, p[i]) /\ r[i] # m
      <3> HIDE DEF T, z, Sorts
      <3>1. \A i \in 1..k : i = k \/ (i \in 1..k - 1 /\ p[i] \in 1..k - 1)
        <4>1. \A i \in 1..k - 1 : p[i] \in 1..k - 1
          BY <2>6
        <4>2. \A i \in 1..k : i = k \/ i \in 1..k - 1
          BY <2>1
        <4> QED  BY <4>1, <4>2
      <3>2. \A i \in 1..k - 1 : i \in 1..k /\ i # k
        BY <2>1
      <3>3. k \in 1..k
        BY <2>1, <1>5
      <3>4. \A i \in 1..k - 1 : Skipping(m, p[i]) \in 1..k /\ Skipping(m, p[i]) # m
        BY <2>3, <2>6
      <3> QED  BY <3>1, <3>2, <3>3, <3>4
    <2> HIDE DEF r
    <2>8. ASSUME NEW i \in 1..k - 1, NEW j \in 1..k - 1, r[i] = r[j] PROVE i = j
      <3> HIDE DEF T, z, Sorts
      <3>1. p[i] \in 1..k - 1 /\ p[j] \in 1..k - 1
        BY <2>6
      <3>2. Skipping(m, p[i]) = Skipping(m, p[j])
        BY <2>7, <2>8
      <3>3. \A x, y \in 1..k - 1 : Skipping(m, x) = Skipping(m, y) => x = y
        BY <2>1, SkippingIs
      <3>4. p[i] = p[j]
        BY <3>1, <3>2, <3>3
      <3> QED  BY <2>6, <3>4
    <2>9. \A i \in 1..k : i = k \/ i \in 1..k - 1
      BY <2>1
    <2>10. \A i, j \in 1..k : r[i] = r[j] => i = j
      BY <2>7, <2>8, <2>9
    <2>11. ASSUME NEW y \in 1..k PROVE \E i \in 1..k : r[i] = y
      <3>1. CASE y = m
        BY <2>1, <2>7, <1>5, <3>1
      <3>2. CASE y # m
        <4>1. PICK x \in 1..k - 1 : Skipping(m, x) = y
          BY <2>1, <3>2, SkippingIs
        <4>2. PICK i \in 1..k - 1 : p[i] = x
          BY <2>6
        <4>3. i \in 1..k /\ r[i] = y
          <5> HIDE DEF T, z, Sorts
          <5>1. r[i] = Skipping(m, p[i])
            BY <2>7
          <5>2. i \in 1..k
            BY <2>1
          <5> QED  BY <4>1, <4>2, <5>1, <5>2
        <4> QED  BY <4>3
      <3> QED  BY <3>1, <3>2
    <2>12. r \in Bijection(1..k, 1..k)
      BY <2>7, <2>10, <2>11, Fun_IsBij
    <2>13. ASSUME NEW i \in 1..k, NEW j \in 1..k, i < j PROVE s[r[i]] >= s[r[j]]
      <3>1. i \in 1..k - 1
        BY <2>1, <2>13
      <3>2. CASE j = k
        BY <2>2, <2>7, <3>2
      <3>3. CASE j # k
        <4>1. j \in 1..k - 1
          BY <2>9, <3>3
        <4>2. z[p[i]] >= z[p[j]]
          BY <2>5, <2>13, <3>1, <4>1
        <4>3. z[p[i]] = s[r[i]] /\ z[p[j]] = s[r[j]]
          BY <2>6, <2>7, <3>1, <4>1
        <4> QED  BY <4>2, <4>3
      <3> QED  BY <3>2, <3>3
    <2>14. Sorts(r, k, s)
      BY <2>12, <2>13
    <2> QED  BY <1>3, <2>14
  <1> QED  BY <1>4, <1>5

LEMMA DescendingIs ==
  ASSUME NEW q \in Seq(Nat)
  PROVE  LET d == Descending(q)
         IN  /\ d \in [1..Len(q) -> Nat]
             /\ \A i, j \in 1..Len(q) : i < j => d[i] >= d[j]
             /\ {d[k] : k \in 1..Len(q)} = {q[k] : k \in 1..Len(q)}
             /\ IsInjective(q) => \A i, j \in 1..Len(q) : d[i] = d[j] => i = j
  <1> DEFINE n == Len(q)
             Of(p) == [k \in DOMAIN q |-> q[p[k]]]
             S == {Of(p) : p \in Bijection(DOMAIN q, DOMAIN q)}
             d == Descending(q)
  <1>1. n \in Nat /\ DOMAIN q = 1..n /\ q \in [1..n -> Nat]
    OBVIOUS
  <1>2. PICK p \in Bijection(1..n, 1..n) : \A i, j \in 1..n : i < j => q[p[i]] >= q[p[j]]
    <2> HIDE DEF n
    <2> QED  BY <1>1, SortedExists
  <1>3. p \in [1..n -> 1..n]
    BY <1>2, Fun_BijectionProperties
  <1>4. Of(p) \in S /\ Descends(Of(p))
    BY <1>1, <1>2, <1>3 DEF Descends
  <1>5. d = CHOOSE e \in S : Descends(e)
    BY DEF Descending
  <1> HIDE DEF d, S
  <1>6. d \in S /\ Descends(d)
    BY <1>4, <1>5
  <1>7. PICK b \in Bijection(1..n, 1..n) : d = [k \in 1..n |-> q[b[k]]]
    BY <1>1, <1>6 DEF S
  <1>8. /\ b \in [1..n -> 1..n] /\ (\A i, j \in 1..n : b[i] = b[j] => i = j)
        /\ \A y \in 1..n : \E k \in 1..n : b[k] = y
    <2> HIDE DEF n, Of
    <2> QED  BY <1>7 DEF Bijection, Injection, Surjection, IsInjective
  <1>9. d \in [1..n -> Nat] /\ \A k \in 1..n : d[k] = q[b[k]]
    BY <1>1, <1>7, <1>8
  <1>10. \A i, j \in 1..n : i < j => d[i] >= d[j]
    BY <1>6, <1>9 DEF Descends
  <1>11. {d[k] : k \in 1..n} = {q[k] : k \in 1..n}
    <2> HIDE DEF n, Of
    <2>1. \A k \in 1..n : d[k] = q[b[k]] /\ b[k] \in 1..n
      BY <1>8, <1>9
    <2>2. ASSUME NEW y \in 1..n PROVE \E k \in 1..n : d[k] = q[y]
      <3>1. PICK k \in 1..n : b[k] = y
        BY <1>8
      <3>2. d[k] = q[y]
        BY <2>1, <3>1
      <3> QED  BY <3>2
    <2>3. {d[k] : k \in 1..n} \subseteq {q[k] : k \in 1..n}
      BY <2>1
    <2>4. {q[k] : k \in 1..n} \subseteq {d[k] : k \in 1..n}
      BY <2>2
    <2> QED  BY <2>3, <2>4
  <1>12. ASSUME IsInjective(q), NEW i \in 1..n, NEW j \in 1..n, d[i] = d[j] PROVE i = j
    <2> HIDE DEF n, Of
    <2>1. q[b[i]] = q[b[j]] /\ b[i] \in 1..n /\ b[j] \in 1..n
      BY <1>8, <1>9, <1>12
    <2>2. b[i] = b[j]
      BY <1>1, <1>12, <2>1 DEF IsInjective
    <2> QED  BY <1>8, <2>2
  <1> QED  BY <1>9, <1>10, <1>11, <1>12 DEF d

(* r shows s without the positions in D; f says where each element was.    *)
Traced(r, s, D, f) ==
  /\ D \in SUBSET (1..Len(s)) /\ r.h.len \in 0..Len(s)
  /\ f \in [1..r.h.len -> 1..Len(s) \ D]
  /\ \A i, j \in 1..r.h.len : i < j => f[i] < f[j]
  /\ \A y \in 1..Len(s) \ D : \E i \in 1..r.h.len : f[i] = y
  /\ \A i \in 1..r.h.len : Read(r)[i] = s[f[i]]

LEMMA TracedWithout ==
  ASSUME NEW s \in Seq(Values), NEW r, NEW D, NEW f, Traced(r, s, D, f),
         Read(r) \in Seq(Values), Len(Read(r)) = r.h.len
  PROVE  IsWithout(Read(r), s, D)
  <1> DEFINE left == Read(r)
             k == r.h.len
             n == Len(s)
  <1>1. n \in Nat /\ k \in Nat /\ DOMAIN s = 1..n /\ DOMAIN left = 1..k
    <2>1. n \in Nat /\ DOMAIN s = 1..n
      OBVIOUS
    <2>2. DOMAIN left = 1..k
      <3> HIDE DEF left
      <3>1. left \in Seq(Values) /\ Len(left) = k
        BY DEF left
      <3> QED  BY <3>1
    <2> QED  BY <2>1, <2>2 DEF Traced
  <1>2. /\ f \in [1..k -> 1..n \ D] /\ \A i, j \in 1..k : i < j => f[i] < f[j]
        /\ \A y \in 1..n \ D : \E i \in 1..k : f[i] = y
        /\ \A i \in 1..k : left[i] = s[f[i]]
    BY DEF Traced
  <1> HIDE DEF left, k, n
  <1>3. f \in Bijection(1..k, 1..n \ D)
    <2>1. 1..n \ D \in SUBSET Nat
      BY <1>1
    <2> QED  BY <1>1, <1>2, <2>1, IncreasingBijection
  <1>4. f \in Bijection(DOMAIN left, DOMAIN s \ D)
        /\ (\A i, j \in DOMAIN left : i < j => f[i] < f[j])
        /\ \A i \in DOMAIN left : left[i] = s[f[i]]
    BY <1>1, <1>2, <1>3
  <1>5. IsWithout(left, s, D)
    BY <1>4 DEF IsWithout
  <1> QED  BY <1>5 DEF left

(* A removal takes along the element at its position, whatever it was.     *)
LEMMA TracedDeleting ==
  ASSUME SliceInv, NEW w \in Owners, NEW r, Good(w, r), r.h.at = ref[w].at,
         NEW s \in Seq(Values), NEW D, NEW f, Traced(r, s, D, f), NEW m \in 1..r.h.len
  PROVE  LET q == Deleting(r, m)
             g == [i \in 1..r.h.len - 1 |-> f[Skipping(m, i)]]
         IN  Traced(q, s, D \cup {f[m]}, g) /\ q.h.len = r.h.len - 1 /\ f[m] \in 1..Len(s)
  <1> DEFINE q == Deleting(r, m)
             k == r.h.len
             n == Len(s)
             E == D \cup {f[m]}
             g == [i \in 1..k - 1 |-> f[Skipping(m, i)]]
  <1>1. /\ n \in Nat /\ k \in 0..n /\ D \in SUBSET (1..n) /\ f \in [1..k -> 1..n \ D]
        /\ (\A i, j \in 1..k : i < j => f[i] < f[j])
        /\ (\A y \in 1..n \ D : \E i \in 1..k : f[i] = y)
        /\ \A i \in 1..k : Read(r)[i] = s[f[i]]
    <2>1. n \in Nat
      OBVIOUS
    <2>2. Traced(r, s, D, f)
      OBVIOUS
    <2> HIDE DEF q, E, g
    <2> QED  BY <2>1, <2>2, Zenon DEF Traced
  <1>2. k \in Nat /\ m \in 1..k /\ k - 1 \in 0..n
    BY <1>1
  <1>3. /\ \A i \in 1..k - 1 : Skipping(m, i) \in 1..k /\ Skipping(m, i) # m
        /\ \A x, y \in 1..k - 1 : x < y => Skipping(m, x) < Skipping(m, y)
        /\ \A x, y \in 1..k - 1 : Skipping(m, x) = Skipping(m, y) => x = y
        /\ \A y \in 1..k : y # m => \E x \in 1..k - 1 : Skipping(m, x) = y
    <2> HIDE DEF k
    <2> QED  BY <1>2, SkippingIs
  <1>4. q.h.len = k - 1 /\ \A i \in 1..k - 1 : Read(q)[i] = Read(r)[Skipping(m, i)]
    <2>1. m \in Nat /\ m - 1 \in Nat /\ m - 1 < m /\ m <= r.h.len
      BY <1>2
    <2>2. q = Without(r, m - 1, m)
      BY DEF Deleting
    <2> DEFINE u == Without(r, m - 1, m)
    <2>3. u.h.len = (m - 1) + (r.h.len - m)
          /\ \A i \in 1..u.h.len : Read(u)[i] = Read(r)[IF i <= m - 1 THEN i ELSE i + (m - (m - 1))]
      <3> HIDE DEF q
      <3> QED  BY <2>1, WithoutGood
    <2>4. (m - 1) + (r.h.len - m) = k - 1
      BY <1>2
    <2>5. \A i \in 1..k - 1 : (IF i <= m - 1 THEN i ELSE i + (m - (m - 1))) = Skipping(m, i)
      BY <1>2 DEF Skipping
    <2> HIDE DEF q, u
    <2> QED  BY <2>2, <2>3, <2>4, <2>5 DEF u
  <1> HIDE DEF q, k, n
  <1>5. \A i, j \in 1..k : f[i] = f[j] => i = j
    <2> SUFFICES ASSUME NEW i \in 1..k, NEW j \in 1..k, f[i] = f[j] PROVE i = j
      OBVIOUS
    <2>1. i < j \/ j < i \/ i = j
      BY <1>2
    <2>2. f[i] \in Nat /\ f[j] \in Nat
      BY <1>1
    <2> QED  BY <1>1, <2>1, <2>2
  <1>6. f[m] \in 1..n /\ f[m] \notin D /\ E \in SUBSET (1..n)
    <2>1. f[m] \in 1..n \ D
      BY <1>1, <1>2
    <2> QED  BY <1>1, <2>1
  <1>7. ASSUME NEW i \in 1..k - 1
        PROVE  g[i] = f[Skipping(m, i)] /\ g[i] \in 1..n \ E /\ Read(q)[i] = s[g[i]]
    <2>1. Skipping(m, i) \in 1..k /\ Skipping(m, i) # m
      BY <1>3
    <2>2. g[i] = f[Skipping(m, i)]
      OBVIOUS
    <2> HIDE DEF g
    <2>3. g[i] \in 1..n \ D
      BY <1>1, <2>1, <2>2
    <2>4. g[i] # f[m]
      BY <1>2, <1>5, <2>1, <2>2
    <2> QED  BY <1>1, <1>4, <2>1, <2>2, <2>3, <2>4
  <1>8. g \in [1..k - 1 -> 1..n \ E]
    <2>1. g = [i \in 1..k - 1 |-> g[i]]
      OBVIOUS
    <2> HIDE DEF g, E
    <2> QED  BY <1>7, <2>1
  <1> HIDE DEF g
  <1>9. ASSUME NEW i \in 1..k - 1, NEW j \in 1..k - 1, i < j PROVE g[i] < g[j]
    <2>1. Skipping(m, i) \in 1..k /\ Skipping(m, j) \in 1..k /\ Skipping(m, i) < Skipping(m, j)
      BY <1>3, <1>9
    <2>2. f[Skipping(m, i)] < f[Skipping(m, j)]
      BY <1>1, <2>1
    <2> QED  BY <1>7, <2>2
  <1>10. ASSUME NEW y \in 1..n \ E PROVE \E i \in 1..k - 1 : g[i] = y
    <2>1. PICK x \in 1..k : f[x] = y
      BY <1>1
    <2>2. x # m
      BY <2>1
    <2>3. PICK i \in 1..k - 1 : Skipping(m, i) = x
      BY <1>3, <2>2
    <2> QED  BY <1>7, <2>1, <2>3
  <1>11. Traced(q, s, E, g)
    <2> HIDE DEF E
    <2> QED  BY <1>2, <1>4, <1>6, <1>7, <1>8, <1>9, <1>10 DEF Traced, n
  <1> QED  BY <1>4, <1>6, <1>11 DEF q, k, n, g

(* What has gone after k removals in the order o, and that what is before  *)
(* the last of them is where it was.                                       *)
Progress(k, n, o, s, D, f, r) ==
  /\ IsFiniteSet(D) /\ Cardinality(D) <= k
  /\ \A l \in 1..k : o[l] \in 1..Len(s) => o[l] \in D
  /\ \A i \in 1..Len(s) : (k = 0 \/ i < o[k]) => i <= r.h.len /\ f[i] = i
  /\ (\A i, j \in 1..n : o[i] = o[j] => i = j) => D \subseteq {o[l] : l \in 1..k}

LEMMA ProgressStep ==
  ASSUME SliceInv, NEW w \in Owners, NEW r, Good(w, r), r.h.at = ref[w].at,
         NEW s \in Seq(Values), NEW D, NEW f, Traced(r, s, D, f),
         NEW n \in Nat, NEW o \in [1..n -> Nat], \A i, j \in 1..n : i < j => o[i] >= o[j],
         NEW k \in 1..n, Progress(k - 1, n, o, s, D, f, r)
  PROVE  \E E, g : /\ Traced(Deleting(r, o[k]), s, E, g)
                   /\ Progress(k, n, o, s, E, g, Deleting(r, o[k]))
  <1> DEFINE N == Len(s)
             len == r.h.len
             m == o[k]
             q == Deleting(r, m)
             Distinct == \A i, j \in 1..n : o[i] = o[j] => i = j
  <1>1. /\ N \in Nat /\ len \in 0..N /\ D \in SUBSET (1..N) /\ f \in [1..len -> 1..N \ D]
        /\ m \in Nat /\ k \in Nat /\ k - 1 \in Nat /\ \A l \in 1..k - 1 : l \in 1..n /\ l < k
    BY DEF Traced
  <1>2. /\ IsFiniteSet(D) /\ Cardinality(D) <= k - 1 /\ Cardinality(D) \in Nat
        /\ (\A l \in 1..k - 1 : o[l] \in 1..N => o[l] \in D)
        /\ (\A i \in 1..N : (k - 1 = 0 \/ i < o[k - 1]) => i <= len /\ f[i] = i)
        /\ (Distinct => D \subseteq {o[l] : l \in 1..k - 1})
    BY FS_CardinalityType DEF Progress
  <1>3. \/ k - 1 = 0
        \/ k - 1 \in 1..k - 1 /\ o[k - 1] \in Nat /\ m < o[k - 1]
        \/ k - 1 \in 1..k - 1 /\ m = o[k - 1] /\ ~Distinct
    <2>1. CASE k - 1 # 0
      <3>1. k - 1 \in 1..k - 1 /\ k - 1 \in 1..n /\ k - 1 < k /\ k - 1 # k
        BY <1>1, <2>1
      <3>2. o[k - 1] \in Nat /\ o[k - 1] >= m
        BY <3>1
      <3>3. m = o[k - 1] => ~Distinct
        BY <3>1
      <3> QED  BY <1>1, <3>1, <3>2, <3>3
    <2> QED  BY <2>1
  <1>4. \A i \in 1..N : i < m => i <= len /\ f[i] = i
    <2> HIDE DEF N, len, m
    <2> QED  BY <1>1, <1>2, <1>3
  <1>5. \A l \in 1..k : l \in 1..k - 1 \/ l = k
    BY <1>1
  <1>6. \A l \in 1..k - 1 : l \in 1..k
    BY <1>1
  <1>7. k # 0
    OBVIOUS
  <1> HIDE DEF N, len, m, Distinct, q
  <1>8. CASE m \in 1..len
    <2> DEFINE E == D \cup {f[m]}
               g == [i \in 1..len - 1 |-> f[Skipping(m, i)]]
    <2>1. Traced(q, s, E, g) /\ q.h.len = len - 1 /\ f[m] \in 1..N
      BY <1>8, TracedDeleting DEF q, len, N
    <2>2. IsFiniteSet(E) /\ Cardinality(E) <= k
      <3>1. /\ IsFiniteSet(E)
            /\ Cardinality(E) = Cardinality(D) \/ Cardinality(E) = Cardinality(D) + 1
        BY <1>2, FS_AddElement
      <3> QED  BY <1>1, <1>2, <3>1
    <2>3. m \in 1..N /\ (k - 1 = 0 \/ (o[k - 1] \in Nat /\ m < o[k - 1]) => f[m] = m)
      <3>1. m \in 1..N
        BY <1>1, <1>8
      <3> QED  BY <1>2, <3>1
    <2>4. m \in E
      <3>1. CASE m = o[k - 1] /\ k - 1 \in 1..k - 1
        BY <1>2, <2>3, <3>1
      <3> QED  BY <1>3, <2>3, <3>1
    <2>5. \A l \in 1..k : o[l] \in 1..N => o[l] \in E
      BY <1>2, <1>5, <2>4 DEF m
    <2>6. ASSUME Distinct PROVE E \subseteq {o[l] : l \in 1..k}
      <3>1. f[m] = o[k]
        BY <1>3, <2>3, <2>6 DEF m
      <3>2. k \in 1..k
        BY <1>1
      <3> QED  BY <1>2, <1>6, <2>6, <3>1, <3>2
    <2>7. ASSUME NEW i \in 1..N, i < m PROVE i <= q.h.len /\ g[i] = i
      <3>1. i \in 1..len - 1 /\ Skipping(m, i) = i
        BY <1>1, <1>8, <2>7 DEF Skipping
      <3>2. g[i] = f[i]
        BY <3>1
      <3>3. f[i] = i
        BY <1>4, <2>7
      <3> QED  BY <1>1, <2>1, <3>1, <3>2, <3>3
    <2> HIDE DEF E, g
    <2>8. Progress(k, n, o, s, E, g, q)
      BY <1>7, <2>2, <2>5, <2>6, <2>7 DEF Progress, N, m, Distinct
    <2> QED  BY <2>1, <2>8 DEF q, m
  <1>9. CASE m \notin 1..len
    <2>1. q = r
      BY <1>9 DEF q, Deleting, len
    <2>2. m \in 1..N => m \in D
      <3> SUFFICES ASSUME m \in 1..N PROVE m \in D
        OBVIOUS
      <3>1. ~(m <= len)
        BY <1>1, <1>9
      <3>2. k - 1 \in 1..k - 1 /\ m = o[k - 1]
        BY <1>2, <1>3, <3>1
      <3> QED  BY <1>2, <3>2
    <2>3. \A l \in 1..k : o[l] \in 1..N => o[l] \in D
      BY <1>2, <1>5, <2>2 DEF m
    <2>4. Distinct => D \subseteq {o[l] : l \in 1..k}
      BY <1>2, <1>6
    <2>5. Cardinality(D) <= k
      BY <1>1, <1>2
    <2>6. Progress(k, n, o, s, D, f, q)
      BY <1>2, <1>4, <1>7, <2>1, <2>3, <2>4, <2>5 DEF Progress, N, m, Distinct, len
    <2> QED  BY <2>1, <2>6 DEF q, m
  <1> QED  BY <1>8, <1>9

LEMMA BatchDeleteExact ==
  ASSUME SliceInv, NEW indices \in Indices
  PROVE  LET now == View("slice")
             gone == Range(indices) \cap DOMAIN now
             left == Read(DeletedOneByOne(indices))
         IN  \E D \in SUBSET DOMAIN now :
                /\ gone \subseteq D /\ Cardinality(D) <= Len(indices)
                /\ IsInjective(indices) => D = gone
                /\ IsWithout(left, now, D)
  <1> DEFINE s == View("slice")
             n == Len(indices)
             o == Descending(indices)
  <1>1. /\ "slice" \in Owners /\ indices \in Seq(Nat) /\ n \in Nat /\ DOMAIN indices = 1..n
        /\ s \in Seq(Values) /\ Len(s) = ref["slice"].len /\ Len(s) \in Nat /\ DOMAIN s = 1..Len(s)
    <2>1. "slice" \in Owners /\ indices \in Seq(Nat)
      BY ArgsFact
    <2>2. s \in Seq(Values) /\ Len(s) = ref["slice"].len
      BY <2>1, ViewIs DEF SliceInv
    <2> HIDE DEF s
    <2> QED  BY <2>1, <2>2
  <1>2. /\ o \in [1..n -> Nat] /\ \A i, j \in 1..n : i < j => o[i] >= o[j]
        /\ {o[k] : k \in 1..n} = {indices[k] : k \in 1..n}
        /\ IsInjective(indices) => \A i, j \in 1..n : o[i] = o[j] => i = j
    BY <1>1, DescendingIs
  <1>3. PICK after :
           /\ after[0] = Now("slice")
           /\ \A k \in 1..n : after[k] = Deleting(after[k - 1], o[k])
           /\ DeletedOneByOne(indices) = after[n]
    BY <1>1, DeletedChain
  <1> HIDE DEF s, n, o
  <1> DEFINE J(k) == /\ Good("slice", after[k]) /\ after[k].h.at = ref["slice"].at
                     /\ \E D, f : Traced(after[k], s, D, f) /\ Progress(k, n, o, s, D, f, after[k])
             T == {k \in 0..n : ~J(k)}
  <1>4. J(0)
    <2> DEFINE r == Now("slice")
               f == [i \in 1..Len(s) |-> i]
    <2>1. Good("slice", r) /\ r.h = ref["slice"] /\ Read(r) = s
      BY <1>1, NowGood DEF s
    <2> HIDE DEF r
    <2>2. Traced(r, s, {}, f)
      BY <1>1, <2>1 DEF Traced
    <2>3. Progress(0, n, o, s, {}, f, r)
      BY <1>1, <2>1, FS_EmptySet DEF Progress
    <2> QED  BY <1>3, <2>1, <2>2, <2>3 DEF r
  <1> HIDE DEF J
  <1>5. ASSUME T # {} PROVE FALSE
    <2> HIDE DEF T
    <2>1. PICK m \in T : \A k \in T : m <= k
      <3>1. T \in SUBSET Nat
        BY DEF T
      <3> QED  BY <1>5, <3>1, LeastOne
    <2> USE DEF T
    <2>2. m \in 1..n /\ m - 1 \in 0..n
      BY <1>1, <1>4, <2>1
    <2>3. J(m - 1)
      BY <2>1, <2>2
    <2> DEFINE r == after[m - 1]
    <2>4. Good("slice", r) /\ r.h.at = ref["slice"].at /\ after[m] = Deleting(r, o[m])
      BY <1>3, <2>2, <2>3 DEF J
    <2>5. PICK D, f : Traced(r, s, D, f) /\ Progress(m - 1, n, o, s, D, f, r)
      BY <2>3 DEF J
    <2> HIDE DEF r
    <2>6. \E E, g : /\ Traced(Deleting(r, o[m]), s, E, g)
                    /\ Progress(m, n, o, s, E, g, Deleting(r, o[m]))
      BY <1>1, <1>2, <2>2, <2>4, <2>5, ProgressStep
    <2>7. Good("slice", Deleting(r, o[m])) /\ Deleting(r, o[m]).h.at = ref["slice"].at
      BY <1>1, <2>4, DeletingGood
    <2>8. J(m)
      BY <2>4, <2>6, <2>7 DEF J
    <2> QED  BY <2>1, <2>8
  <1>6. J(n)
    BY <1>1, <1>5
  <1> DEFINE r == after[n]
  <1>7. PICK D, f : Traced(r, s, D, f) /\ Progress(n, n, o, s, D, f, r)
    BY <1>6 DEF J
  <1>8. Read(r) \in Seq(Values) /\ Len(Read(r)) = r.h.len
    <2>1. r.h \in [at : Arrays \cup {None}, len : Nat] /\ Fits(r.m, r.h)
      BY <1>6 DEF J, Good
    <2> HIDE DEF r
    <2> QED  BY <2>1, ReadIs
  <1> HIDE DEF r
  <1>9. IsWithout(Read(r), s, D) /\ D \in SUBSET DOMAIN s
    <2>1. IsWithout(Read(r), s, D)
      BY <1>1, <1>7, <1>8, TracedWithout
    <2> QED  BY <1>1, <1>7, <2>1 DEF Traced
  <1>10. Range(indices) = {o[k] : k \in 1..n}
    BY <1>1, <1>2 DEF Range
  <1>11. Range(indices) \cap DOMAIN s \subseteq D
    BY <1>1, <1>7, <1>10 DEF Progress
  <1>12. IsInjective(indices) => D = Range(indices) \cap DOMAIN s
    <2>1. IsInjective(indices) => D \subseteq {o[k] : k \in 1..n}
      BY <1>2, <1>7 DEF Progress
    <2> QED  BY <1>9, <1>10, <1>11, <2>1
  <1>13. Cardinality(D) <= n
    BY <1>7 DEF Progress
  <1> QED  BY <1>3, <1>9, <1>11, <1>12, <1>13 DEF r, s, n

LEMMA InvEffects == SliceInv => EffectsExact
  <1> SUFFICES ASSUME SliceInv PROVE EffectsExact
    OBVIOUS
  <1> DEFINE now == View("slice")
  <1>1. "slice" \in Owners /\ "caller" \in Owners
    BY ArgsFact
  <1>2. ASSUME NEW w \in {"slice", "caller"}, NEW xs \in Args, NEW r \in Appended("slice", w, xs)
        PROVE  Read(r) = View(w) \o xs
    <2>1. xs \in Seq(Values) /\ w \in Owners /\ ("slice" = w \/ {w, "slice"} = {"slice", "caller"})
      BY <1>1, ArgsFact
    <2> QED  BY <1>1, <2>1, AppendedGood
  <1>3. ASSUME NEW i \in 0..Len(now), NEW j \in 0..Len(now), i < j
        PROVE  IsWithout(Read(Without(Now("slice"), i, j)), now, i + 1..j)
    <2> DEFINE r == Now("slice")
               q == Without(r, i, j)
    <2>1. now \in Seq(Values) /\ Len(now) = ref["slice"].len /\ Len(now) \in Nat
      <3>1. now \in Seq(Values) /\ Len(now) = ref["slice"].len
        BY <1>1, ViewIs DEF SliceInv
      <3> HIDE DEF now
      <3> QED  BY <3>1
    <2>2. Good("slice", r) /\ r.h = ref["slice"] /\ Read(r) = now
      BY <1>1, NowGood
    <2> HIDE DEF r, now
    <2>3. i \in Nat /\ j \in Nat /\ j <= r.h.len
      BY <2>1, <2>2
    <2>4. /\ Good("slice", q) /\ q.h.len = i + (r.h.len - j)
          /\ \A k \in 1..q.h.len : Read(q)[k] = Read(r)[IF k <= i THEN k ELSE k + (j - i)]
      BY <1>1, <1>3, <2>2, <2>3, WithoutGood
    <2> HIDE DEF q
    <2>5. Read(q) \in Seq(Values) /\ Len(Read(q)) = q.h.len
      BY <2>4, ReadIs DEF Good
    <2> DEFINE left == Read(q)
    <2>6. left \in Seq(Values) /\ Len(left) = i + (Len(now) - j)
          /\ \A k \in 1..Len(left) : left[k] = now[IF k <= i THEN k ELSE k + (j - i)]
      BY <2>1, <2>2, <2>4, <2>5
    <2> HIDE DEF left
    <2>7. IsWithout(left, now, i + 1..j)
      BY <1>3, <2>1, <2>2, <2>3, <2>6, GapCloses
    <2> QED  BY <2>7 DEF left, q, r
  <1> QED  BY <1>2, <1>3, BatchDeleteExact DEF EffectsExact

(* EffectsExact: Append and Prepend add behind what is there whatever room *)
(* the array has, Delete and DeleteRange close the gap, and BatchDelete    *)
(* removes exactly the positions it was given (slice.go).                  *)
THEOREM EffectsProved == Spec => []EffectsExact
  BY Inductive, InvEffects, PTL
=============================================================================
