----------------------- MODULE NonBlockingQueueProofs -----------------------
(***************************************************************************)
(* What the queue without a lock promises, when it is bounded except in    *)
(* the last of these, for every capacity, any elements and contexts:       *)
(*                                                                         *)
(*  - whoever calls it, every index lies inside the slice, and the size    *)
(*    exceeds the capacity by less than the number of producers;           *)
(*  - with one goroutine that enqueues and one that dequeues, the indices, *)
(*    the size and the slots agree at every access of both, and no         *)
(*    compare-and-swap fails;                                              *)
(*  - if, besides, only the consumer peeks and nobody closes the queue     *)
(*    while another uses it, the queue implements FifoQueue;               *)
(*  - so does the queue, bounded or not, of a single goroutine, which may  *)
(*    make every call.                                                     *)
(*                                                                         *)
(* The hypotheses of the second and third exclude Clear, which moves the   *)
(* indices while another goroutine moves them; those of the third, a peek  *)
(* at a slot being wiped and an element accepted after Close. With one     *)
(* goroutine nothing else runs, and nothing is excluded.                   *)
(***************************************************************************)
EXTENDS NonBlockingQueue, FiniteSetTheorems, TLAPS

-----------------------------------------------------------------------------
(* What the operations on the circular slice do to the sequence of its     *)
(* used slots, for every length of the slice and every position of head.   *)

(* A slice of n slots of which k are in use from h on.                     *)
IsRing(S, buf, h, k, n) ==
    n \in Nat \ {0} /\ buf \in [0..n-1 -> S] /\ h \in 0..n-1 /\ k \in 0..n

(* One slot written. *)
Write(buf, i, x) == [buf EXCEPT ![i] = x]

(* The used slots form a sequence as long as the count.                    *)
LEMMA WindowSeq ==
  ASSUME NEW S, NEW n, NEW buf, NEW h, NEW k, IsRing(S, buf, h, k, n)
  PROVE  LET w == Window(buf, h, k, n)
         IN  w \in [1..k -> S] /\ w \in Seq(S) /\ Len(w) = k /\ ((w = <<>>) <=> k = 0)
  <1> DEFINE w == Window(buf, h, k, n)
  <1>1. w \in [1..k -> S] /\ k \in Nat
    BY DEF Window, IsRing
  <1> HIDE DEF w
  <1>2. w \in Seq(S) /\ Len(w) = k
    BY <1>1
  <1> QED  BY <1>1, <1>2 DEF w

(* The next element to be dequeued is the one at head.                     *)
LEMMA WindowHead ==
  ASSUME NEW S, NEW n, NEW buf, NEW h, NEW k, IsRing(S, buf, h, k, n), k > 0
  PROVE  Head(Window(buf, h, k, n)) = buf[h]
  <1> DEFINE w == Window(buf, h, k, n)
  <1>1. (h + 1 - 1) % n = h /\ 1 \in 1..k
    BY DEF IsRing
  <1>2. w[1] = buf[h]
    BY <1>1 DEF Window
  <1>3. w \in Seq(S) /\ w # <<>>
    BY <1>1, WindowSeq DEF IsRing
  <1> HIDE DEF w
  <1> QED  BY <1>2, <1>3 DEF w

(* Writing the slot after the last used one appends.                       *)
LEMMA WindowAppend ==
  ASSUME NEW S, NEW n, NEW buf, NEW h, NEW k, IsRing(S, buf, h, k, n),
         k < n, NEW x \in S
  PROVE  Window(Write(buf, (h + k) % n, x), h, k + 1, n)
           = Append(Window(buf, h, k, n), x)
  <1> DEFINE w == Window(buf, h, k, n)
             d == Write(buf, (h + k) % n, x)
  <1>1. \A i \in 1..k + 1 : d[(h + i - 1) % n] = IF i = k + 1 THEN x ELSE w[i]
    <2>1. (h + k) % n \in 0..n-1 /\ h + (k + 1) - 1 = h + k
          /\ \A i \in 1..k : /\ (h + i - 1) % n # (h + k) % n
                                /\ (h + i - 1) % n \in 0..n-1
      BY DEF IsRing
    <2>2. \A i \in 1..k : w[i] = buf[(h + i - 1) % n]
      BY DEF Window
    <2>3. \A i \in 1..k + 1 : i = k + 1 \/ (i \in 1..k /\ i # k + 1)
      BY DEF IsRing
    <2>4. /\ d[(h + k) % n] = x
          /\ \A i \in 1..k : d[(h + i - 1) % n] = buf[(h + i - 1) % n]
      BY <2>1 DEF Write, IsRing
    <2> HIDE DEF w, d
    <2> QED  BY <2>1, <2>2, <2>3, <2>4
  <1>2. Append(w, x) = [i \in 1..k + 1 |-> IF i = k + 1 THEN x ELSE w[i]]
    <2> USE DEF IsRing
    <2>1. w \in [1..k -> S]
      BY DEF Window
    <2>2. w \in Seq(S) /\ Len(w) = k
      BY <2>1
    <2> QED  BY <2>1, <2>2
  <1> HIDE DEF w, d
  <1> QED  BY <1>1, <1>2 DEF Window, w, d

(* Clearing the slot at head and moving head on removes the first element. *)
LEMMA WindowTail ==
  ASSUME NEW S, NEW n, NEW buf, NEW h, NEW k, IsRing(S, buf, h, k, n),
         k > 0, NEW z \in S
  PROVE  Window(Write(buf, h, z), (h + 1) % n, k - 1, n)
           = Tail(Window(buf, h, k, n))
  <1> DEFINE w == Window(buf, h, k, n)
             d == Write(buf, h, z)
  <1>1. \A i \in 1..k - 1 : d[(((h + 1) % n) + i - 1) % n] = w[i + 1]
    <2>1. \A i \in 1..k - 1 : /\ (((h + 1) % n) + i - 1) % n = (h + i) % n
                                 /\ (h + i) % n # h /\ (h + i) % n \in 0..n-1
                                 /\ h + (i + 1) - 1 = h + i
      BY DEF IsRing
    <2>2. \A i \in 1..k - 1 : w[i + 1] = buf[(h + (i + 1) - 1) % n]
      BY DEF Window, IsRing
    <2> HIDE DEF w
    <2> QED  BY <2>1, <2>2 DEF Write, IsRing
  <1>2. Tail(w) = [i \in 1..k - 1 |-> w[i + 1]]
    <2> USE DEF IsRing
    <2>1. w \in [1..k -> S]
      BY DEF Window
    <2>2. w \in Seq(S) /\ Len(w) = k
      BY <2>1
    <2> QED  BY <2>1, <2>2
  <1> HIDE DEF w, d
  <1> QED  BY <1>1, <1>2 DEF Window, w, d

-----------------------------------------------------------------------------
Bounded == Capacity > 0

EnqAt == {"e:closed", "e:full", "e:tail", "e:size", "e:cas", "e:write", "e:count"}
DeqAt == {"d:any", "d:head", "d:size", "d:item", "d:cas", "d:wipe", "d:count", "d:closed"}

(* In a bounded queue nobody grows the slice. *)
Places == {"idle", "s:lock", "s:held", "p:lock"} \cup EnqAt \cup DeqAt \cup ReaderAt
             \cup {"c:lock", "c:head", "c:wipe", "c:head0", "c:tail0", "c:size0"}

(* Only producers enqueue, and what was loaded as the length is the length *)
(* wherever it is used.                                                    *)
SeatInv ==
    /\ len = Capacity
    /\ head \in 0..len-1 /\ tail \in 0..len-1 /\ size \in Int
    /\ data \in [0..len-1 -> Items \cup {Zero}]
    /\ pc \in [Procs -> Places]
    /\ loc \in [Procs -> [item : Items \cup {Zero}, i : 0..len-1, s : Int, n : {1, len},
                          new : {<<>>}]]
    /\ call \in [Procs -> Calls] /\ closed \in BOOLEAN /\ done \subseteq Ctx
    /\ \A p \in Procs : /\ pc[p] \in EnqAt => p \in Enqueuers
                        /\ pc[p] \in {"e:cas", "d:item", "d:cas"} => loc[p].n = len

(* Producers past the last check on the size. *)
Passed == {p \in Enqueuers : pc[p] \in {"e:cas", "e:write", "e:count"}}

PassedInv == size + Cardinality(Passed) <= Capacity - 1 + Cardinality(Enqueuers)

-----------------------------------------------------------------------------
(* Everybody's steps                                                       *)
Slot == Items \cup {Zero}
Rec(n) == [item : Slot, i : 0..n-1, s : Int, n : {1, n}, new : {<<>>}]

LEMMA Consts ==
  ASSUME Bounded
  PROVE  Capacity \in Nat /\ Capacity > 0 /\ InitLen = Capacity /\ Zero \notin Items
         /\ IsFiniteSet(Enqueuers) /\ Cardinality(Enqueuers) \in Nat
         /\ Enqueuers \subseteq Procs /\ Dequeuers \subseteq Procs
  <1>1. IsFiniteSet(Enqueuers)
    BY NonBlockingAssumption, FS_Subset DEF Procs
  <1> QED  BY <1>1, NonBlockingAssumption, FS_CardinalityType DEF Bounded, InitLen, Procs

(* What one goroutine's step leaves alone. *)
CallStep(p) ==
    \/ \E x \in Items, c \in Ctx \cup {NoCtx} : Enqueue(p, x, c)
    \/ \E c \in Ctx \cup {NoCtx} : Dequeue(p, c)
    \/ Peek(p) \/ Clear(p) \/ Close(p) \/ Running(p)

LEMMA StepCases ==
  ASSUME [Next]_vars
  PROVE  \/ UNCHANGED vars
         \/ \E c \in Ctx : Cancel(c)
         \/ \E p \in Procs : CallStep(p)
  BY DEF Next, CallStep, Running, EnqueueStep, OtherStep, Growers, Procs

(* Returning, and setting one local variable or two. *)
LEMMA LocMoves ==
  ASSUME NEW p \in Procs, loc \in [Procs -> Rec(len)], len \in Nat \ {0}
  PROVE  /\ NoLocal \in Rec(len)
         /\ \A x \in Slot : [loc EXCEPT ![p].item = x] \in [Procs -> Rec(len)]
         /\ \A i \in 0..len-1 : [loc EXCEPT ![p].i = i] \in [Procs -> Rec(len)]
         /\ \A s \in Int : [loc EXCEPT ![p].s = s] \in [Procs -> Rec(len)]
         /\ \A s \in Int : [loc EXCEPT ![p].s = s, ![p].n = len] \in [Procs -> Rec(len)]
  <1>1. NoLocal \in Rec(len)
    BY DEF NoLocal, Rec, Slot
  <1>2. ASSUME NEW x \in Slot  PROVE [loc EXCEPT ![p].item = x] \in [Procs -> Rec(len)]
    BY DEF Rec
  <1>3. ASSUME NEW i \in 0..len-1  PROVE [loc EXCEPT ![p].i = i] \in [Procs -> Rec(len)]
    BY DEF Rec
  <1>4. ASSUME NEW s \in Int  PROVE [loc EXCEPT ![p].s = s] \in [Procs -> Rec(len)]
    BY DEF Rec
  <1>5. ASSUME NEW s \in Int
        PROVE  [loc EXCEPT ![p].s = s, ![p].n = len] \in [Procs -> Rec(len)]
    BY DEF Rec
  <1> QED  BY <1>1, <1>2, <1>3, <1>4, <1>5

LEMMA SeatInit ==
  ASSUME Bounded, Init
  PROVE  SeatInv /\ PassedInv
  <1> USE Consts DEF Bounded
  <1>1. SeatInv
    <2>1. len = Capacity /\ head = 0 /\ tail = 0 /\ size = 0
      BY DEF Init
    <2>2. data \in [0..len-1 -> Slot]
      BY DEF Init, EmptyRing, Slot
    <2>3. loc \in [Procs -> Rec(len)]
      BY <2>1 DEF Init, NoLocal, Rec, Slot
    <2>4. pc = [p \in Procs |-> "idle"]
      BY DEF Init
    <2>5. call \in [Procs -> Calls]
      BY DEF Init, NoCall, Calls
    <2>6. closed \in BOOLEAN /\ done \subseteq Ctx
      BY DEF Init
    <2> QED  BY <2>1, <2>2, <2>3, <2>4, <2>5, <2>6 DEF SeatInv, Rec, Slot, Places, EnqAt
  <1>2. PassedInv
    <2>1. Passed = {}
      BY DEF Init, Passed, Procs
    <2>2. Cardinality(Passed) = 0 /\ size = 0
      BY <2>1, FS_EmptySet DEF Init
    <2> QED  BY <2>2 DEF PassedInv
  <1> QED  BY <1>1, <1>2

LEMMA OthersStay ==
  ASSUME SeatInv, NEW p \in Procs, CallStep(p)
  PROVE  \A q \in Procs \ {p} : pc'[q] = pc[q] /\ loc'[q] = loc[q] /\ call'[q] = call[q]
  BY DEF CallStep, Enqueue, Dequeue, Begin, Peek, Clear, Close, Running, EnqueueStep, InsertStep,
       GrowStep, DequeueStep, OtherStep, StatsStep, PeekStep, ClearStep, EnqClosed, EnqFull,
       EnqLock, ExpandCopies, ExpandHead, ExpandTail, ExpandData, EnqTail, EnqSize, EnqCas,
       EnqWrite, EnqCount, DeqAny, DeqHead, DeqSize, DeqItem, DeqCas, DeqWipe, DeqCount, DeqClosed,
       PeekClosed, PeekHead, PeekItem, ClearHead, ClearWipe, ClearHead0, ClearTail0, ClearSize0,
       StatsLock, StatsUnlock, PeekSize, ClearSize, Return, Goto, Still, SeatInv

(* Where a goroutine goes: within its call. *)
LEMMA PlaceMoves ==
  ASSUME Bounded, SeatInv, NEW p \in Procs, CallStep(p)
  PROVE  /\ pc' \in [Procs -> Places]
         /\ pc'[p] \in EnqAt => p \in Enqueuers
         /\ ~EnqLock(p) /\ ~ExpandCopies(p) /\ ~ExpandHead(p) /\ ~ExpandTail(p) /\ ~ExpandData(p)
  <1> USE DEF SeatInv
  <1>1. /\ ~EnqLock(p) /\ ~ExpandCopies(p) /\ ~ExpandHead(p) /\ ~ExpandTail(p) /\ ~ExpandData(p)
    BY DEF EnqLock, ExpandCopies, ExpandHead, ExpandTail, ExpandData, At, Places, EnqAt, DeqAt,
           ReaderAt
  <1>2. /\ pc' \in [Procs -> Places]
        /\ pc'[p] \in EnqAt => p \in Enqueuers
    <2>1. CASE EnqueueStep(p)
      <3>1. pc[p] \in EnqAt
        BY <1>1, <2>1 DEF EnqueueStep, InsertStep, GrowStep, EnqClosed, EnqFull, EnqTail, EnqSize,
             EnqCas, EnqWrite, EnqCount, At, EnqAt
      <3>2. ~TooShort
        BY Consts DEF TooShort
      <3>3. pc' \in [Procs -> Places]
        BY <1>1, <2>1, <3>2 DEF EnqueueStep, InsertStep, GrowStep, EnqClosed, EnqFull, EnqTail,
             EnqSize, EnqCas, EnqWrite, EnqCount, Return, Goto, Places, EnqAt
      <3> QED  BY <3>1, <3>3
    <2>2. CASE DequeueStep(p) \/ OtherStep(p)
      BY <2>2 DEF DequeueStep, OtherStep, StatsStep, PeekStep, ClearStep, DeqAny, DeqHead, DeqSize,
           DeqItem, DeqCas, DeqWipe, DeqCount, DeqClosed, PeekClosed, PeekHead, PeekItem, ClearHead,
           ClearWipe, ClearHead0, ClearTail0, ClearSize0, StatsLock, StatsUnlock, PeekSize,
           ClearSize, Return, Goto, Still, Places, EnqAt, DeqAt, ReaderAt
    <2>3. CASE ~Running(p)
      BY <2>3 DEF CallStep, Enqueue, Dequeue, Begin, Peek, Clear, Close, At, Goto, Still, Places,
         EnqAt, DeqAt, ReaderAt
    <2> QED  BY <2>1, <2>2, <2>3 DEF Running
  <1> QED  BY <1>1, <1>2

LEMMA LocalMoves ==
  ASSUME Bounded, SeatInv, NEW p \in Procs, CallStep(p)
  PROVE  /\ loc' \in [Procs -> Rec(len)]
         /\ pc'[p] \in {"e:cas", "d:item", "d:cas"} => loc'[p].n = len
  <1> USE DEF SeatInv
  <1>1. loc \in [Procs -> Rec(len)] /\ len \in Nat \ {0}
    BY Consts DEF Rec, Slot
  <1>2. /\ NoLocal \in Rec(len)
        /\ \A x \in Slot : [loc EXCEPT ![p].item = x] \in [Procs -> Rec(len)]
        /\ \A i \in 0..len-1 : [loc EXCEPT ![p].i = i] \in [Procs -> Rec(len)]
        /\ \A s \in Int : [loc EXCEPT ![p].s = s] \in [Procs -> Rec(len)]
        /\ \A s \in Int : [loc EXCEPT ![p].s = s, ![p].n = len] \in [Procs -> Rec(len)]
    BY <1>1, LocMoves
  <1>3. \/ UNCHANGED loc
        \/ loc' = [loc EXCEPT ![p] = NoLocal]
        \/ \E x \in Slot : loc' = [loc EXCEPT ![p].item = x]
        \/ \E i \in 0..len-1 : loc' = [loc EXCEPT ![p].i = i]
        \/ \E s \in Int : loc' = [loc EXCEPT ![p].s = s]
        \/ loc' = [loc EXCEPT ![p].s = size, ![p].n = len]
    <2>1. CASE EnqueueStep(p)
      BY <2>1, PlaceMoves DEF EnqueueStep, InsertStep, GrowStep, EnqClosed, EnqFull, EnqTail,
           EnqSize, EnqCas, EnqWrite, EnqCount, Return, Still
    <2>2. CASE DequeueStep(p)
      <3>1. data[loc[p].i] \in Slot
        BY <1>1 DEF Rec, Slot
      <3> QED  BY <2>2, <3>1 DEF DequeueStep, DeqAny, DeqHead, DeqSize, DeqItem, DeqCas, DeqWipe,
         DeqCount, DeqClosed, Return, Still
    <2>3. CASE OtherStep(p)
      BY <2>3 DEF OtherStep, StatsStep, PeekStep, ClearStep, PeekClosed, PeekHead, PeekItem,
           ClearHead, ClearWipe, ClearHead0, ClearTail0, ClearSize0, StatsLock, StatsUnlock,
           PeekSize, ClearSize, Return, Still
    <2>4. CASE ~Running(p)
      BY <2>4 DEF CallStep, Enqueue, Dequeue, Begin, Peek, Clear, Close, Still, Slot
    <2> QED  BY <2>1, <2>2, <2>3, <2>4 DEF Running
  <1>4. loc' \in [Procs -> Rec(len)]
    <2>1. CASE loc' = [loc EXCEPT ![p] = NoLocal]
      BY <1>1, <1>2, <2>1
    <2>2. CASE \E x \in Slot : loc' = [loc EXCEPT ![p].item = x]
      <3>1. PICK x \in Slot : loc' = [loc EXCEPT ![p].item = x]
        BY <2>2
      <3> QED  BY <1>2, <3>1
    <2>3. CASE \E i \in 0..len-1 : loc' = [loc EXCEPT ![p].i = i]
      <3>1. PICK i \in 0..len-1 : loc' = [loc EXCEPT ![p].i = i]
        BY <2>3
      <3> QED  BY <1>2, <3>1
    <2>4. CASE \E s \in Int : loc' = [loc EXCEPT ![p].s = s]
      <3>1. PICK s \in Int : loc' = [loc EXCEPT ![p].s = s]
        BY <2>4
      <3> QED  BY <1>2, <3>1
    <2>5. CASE loc' = [loc EXCEPT ![p].s = size, ![p].n = len]
      BY <1>2, <2>5
    <2> QED  BY <1>1, <1>3, <2>1, <2>2, <2>3, <2>4, <2>5
  <1>5. pc'[p] \in {"e:cas", "d:item", "d:cas"} => loc'[p].n = len
    <2>1. CASE EnqSize(p)
      BY <1>1, <2>1 DEF EnqSize, Return, Goto, Rec
    <2>2. CASE DeqSize(p)
      BY <1>1, <2>2 DEF DeqSize, Goto, Rec
    <2>3. CASE DeqItem(p)
      <3>1. loc[p].n = len
        BY <2>3 DEF DeqItem, At
      <3>2. loc' = [loc EXCEPT ![p].item = data[loc[p].i]]
        BY <2>3 DEF DeqItem
      <3> QED  BY <1>1, <3>1, <3>2 DEF Rec
    <2>4. CASE ~EnqSize(p) /\ ~DeqSize(p) /\ ~DeqItem(p)
      <3>1. pc'[p] \notin {"e:cas", "d:item", "d:cas"} \/ (UNCHANGED pc /\ UNCHANGED loc)
        BY <2>4, PlaceMoves DEF CallStep, Enqueue, Dequeue, Begin, Peek, Clear, Close, Running,
             EnqueueStep, InsertStep, GrowStep, DequeueStep, OtherStep, StatsStep, PeekStep,
             ClearStep, EnqClosed, EnqFull, EnqTail, EnqCas, EnqWrite, EnqCount, DeqAny, DeqHead,
             DeqCas, DeqWipe, DeqCount, DeqClosed, PeekClosed, PeekHead, PeekItem, ClearHead,
             ClearWipe, ClearHead0, ClearTail0, ClearSize0, StatsLock, StatsUnlock, PeekSize,
             ClearSize, Return, Goto, Still
      <3> QED  BY <3>1
    <2> QED  BY <2>1, <2>2, <2>3, <2>4
  <1> QED  BY <1>4, <1>5

LEMMA RingMoves ==
  ASSUME Bounded, SeatInv, NEW p \in Procs, CallStep(p)
  PROVE  /\ len' = len /\ head' \in 0..len-1 /\ tail' \in 0..len-1 /\ size' \in Int
         /\ data' \in [0..len-1 -> Slot]
  <1> USE DEF SeatInv
  <1>1. loc \in [Procs -> Rec(len)] /\ len \in Nat \ {0} /\ data \in [0..len-1 -> Slot]
    BY Consts DEF Rec, Slot
  <1>2. CASE EnqCas(p) \/ DeqCas(p)
    <2>1. loc[p].n = len /\ loc[p].i \in 0..len-1
      BY <1>1, <1>2 DEF EnqCas, DeqCas, At, Rec
    <2>2. (loc[p].i + 1) % len \in 0..len-1
      BY <1>1, <2>1
    <2> QED  BY <1>1, <1>2, <2>1, <2>2 DEF EnqCas, DeqCas
  <1>3. CASE EnqWrite(p) \/ DeqWipe(p) \/ ClearWipe(p)
    <2>1. loc[p].item \in Slot /\ Zero \in Slot
      BY <1>1 DEF Rec, Slot
    <2>2. Wiped(data, loc[p].i, loc[p].s, len) \in [0..len-1 -> Slot]
      BY <1>1, <2>1 DEF Wiped
    <2> QED  BY <1>1, <1>3, <2>1, <2>2 DEF EnqWrite, DeqWipe, ClearWipe
  <1>4. CASE /\ ~EnqCas(p) /\ ~DeqCas(p) /\ ~EnqWrite(p) /\ ~DeqWipe(p) /\ ~ClearWipe(p)
    <2>1. len' = len /\ data' = data /\ head' \in {0, head} /\ tail' \in {0, tail}
          /\ size' \in {0, size, size + 1, size - 1}
      BY <1>4, PlaceMoves DEF CallStep, Enqueue, Dequeue, Begin, Peek, Clear, Close, Running,
           EnqueueStep, InsertStep, GrowStep, DequeueStep, OtherStep, StatsStep, PeekStep,
           ClearStep, EnqClosed, EnqFull, EnqTail, EnqSize, EnqCount, DeqAny, DeqHead, DeqSize,
           DeqItem, DeqCount, DeqClosed, PeekClosed, PeekHead, PeekItem, ClearHead, ClearHead0,
           ClearTail0, ClearSize0, StatsLock, StatsUnlock, PeekSize, ClearSize, Still, ring
    <2> QED  BY <1>1, <2>1
  <1> QED  BY <1>2, <1>3, <1>4

LEMMA CallMoves ==
  ASSUME Bounded, SeatInv, NEW p \in Procs, CallStep(p)
  PROVE  call' \in [Procs -> Calls] /\ closed' \in BOOLEAN /\ done' \subseteq Ctx
  <1> USE DEF SeatInv
  <1>1. done' = done /\ closed' \in {closed, TRUE}
    BY DEF CallStep, Enqueue, Dequeue, Begin, Peek, Clear, Close, Running, EnqueueStep, InsertStep,
         GrowStep, DequeueStep, OtherStep, StatsStep, PeekStep, ClearStep, EnqClosed, EnqFull,
         EnqLock, ExpandCopies, ExpandHead, ExpandTail, ExpandData, EnqTail, EnqSize, EnqCas,
         EnqWrite, EnqCount, DeqAny, DeqHead, DeqSize, DeqItem, DeqCas, DeqWipe, DeqCount,
         DeqClosed, PeekClosed, PeekHead, PeekItem, ClearHead, ClearWipe, ClearHead0, ClearTail0,
         ClearSize0, StatsLock, StatsUnlock, PeekSize, ClearSize, Still
  <1>2. loc[p].item \in Slot /\ data[loc[p].i] \in Slot /\ Zero \in Slot
    BY DEF Slot
  <1>3. ASSUME NEW op \in {"enqueue", "dequeue", "try_enqueue", "try_dequeue", "peek"},
               NEW x \in Slot, NEW c \in Ctx \cup {NoCtx},
               NEW out \in {"ok", "closed", "full", "empty", "cancelled"}
        PROVE  [call EXCEPT ![p] = [op |-> op, item |-> x, ctx |-> c, out |-> out]]
                  \in [Procs -> Calls]
    BY DEF Calls, Slot
  <1>4. \/ UNCHANGED call
        \/ \E op \in {"enqueue", "dequeue", "try_enqueue", "try_dequeue", "peek"},
              x \in Slot, c \in Ctx \cup {NoCtx},
              out \in {"ok", "closed", "full", "empty", "cancelled"} :
                 call' = [call EXCEPT ![p] = [op |-> op, item |-> x, ctx |-> c, out |-> out]]
    <2>1. CASE EnqueueStep(p)
      BY <1>2, <2>1, PlaceMoves DEF EnqueueStep, InsertStep, GrowStep, EnqClosed, EnqFull, EnqTail,
           EnqSize, EnqCas, EnqWrite, EnqCount, Return, Still
    <2>2. CASE DequeueStep(p)
      BY <1>2, <2>2 DEF DequeueStep, DeqAny, DeqHead, DeqSize, DeqItem, DeqCas, DeqWipe,
         DeqCount, DeqClosed, Return, Still
    <2>3. CASE OtherStep(p)
      BY <1>2, <2>3 DEF OtherStep, StatsStep, PeekStep, ClearStep, PeekClosed, PeekHead, PeekItem,
           ClearHead, ClearWipe, ClearHead0, ClearTail0, ClearSize0, StatsLock, StatsUnlock,
           PeekSize, ClearSize, Return, Still
    <2>4. CASE ~Running(p)
      BY <1>2, <2>4 DEF CallStep, Enqueue, Dequeue, Begin, Peek, Clear, Close, Still, Slot
    <2> QED  BY <2>1, <2>2, <2>3, <2>4 DEF Running
  <1>5. call' \in [Procs -> Calls]
    <2>1. CASE UNCHANGED call
      BY <2>1
    <2>2. CASE ~UNCHANGED call
      <3>1. PICK op \in {"enqueue", "dequeue", "try_enqueue", "try_dequeue", "peek"},
                 x \in Slot, c \in Ctx \cup {NoCtx},
                 out \in {"ok", "closed", "full", "empty", "cancelled"} :
                    call' = [call EXCEPT ![p] = [op |-> op, item |-> x, ctx |-> c, out |-> out]]
        BY <1>4, <2>2
      <3> QED  BY <1>3, <3>1
    <2> QED  BY <2>1, <2>2
  <1> QED  BY <1>1, <1>5

LEMMA SeatStep ==
  ASSUME Bounded, SeatInv, [Next]_vars
  PROVE  SeatInv'
  <1>1. CASE UNCHANGED vars \/ \E c \in Ctx : Cancel(c)
    BY <1>1 DEF vars, ring, Cancel, SeatInv
  <1>2. ASSUME NEW p \in Procs, CallStep(p)
        PROVE  SeatInv'
    <2>1. /\ len' = Capacity /\ head' \in 0..len'-1 /\ tail' \in 0..len'-1 /\ size' \in Int
          /\ data' \in [0..len'-1 -> Slot] /\ len' = len
      BY <1>2, RingMoves DEF SeatInv
    <2>2. /\ pc' \in [Procs -> Places] /\ loc' \in [Procs -> Rec(len)]
          /\ pc'[p] \in EnqAt => p \in Enqueuers
          /\ pc'[p] \in {"e:cas", "d:item", "d:cas"} => loc'[p].n = len
      BY <1>2, PlaceMoves, LocalMoves
    <2>4. call' \in [Procs -> Calls] /\ closed' \in BOOLEAN /\ done' \subseteq Ctx
      BY <1>2, CallMoves
    <2>3. ASSUME NEW q \in Procs
          PROVE  /\ pc'[q] \in EnqAt => q \in Enqueuers
                 /\ pc'[q] \in {"e:cas", "d:item", "d:cas"} => loc'[q].n = len'
      <3>1. CASE q = p
        BY <2>1, <2>2, <3>1
      <3>2. CASE q # p
        BY <1>2, <2>1, <3>2, OthersStay DEF SeatInv
      <3> QED  BY <3>1, <3>2
    <2> QED  BY <2>1, <2>2, <2>3, <2>4 DEF SeatInv, Rec, Slot
  <1> QED  BY <1>1, <1>2, StepCases

-----------------------------------------------------------------------------
(* Any callers                                                             *)

(* A producer passes the last check when there is room, counts its element *)
(* once, and nobody else makes the size grow but Clear, to zero.           *)
LEMMA PassedStep ==
  ASSUME Bounded, SeatInv, PassedInv, [Next]_vars
  PROVE  PassedInv'
  <1> USE DEF SeatInv
  <1>a. /\ IsFiniteSet(Enqueuers) /\ Cardinality(Enqueuers) \in Nat
        /\ Capacity \in Nat /\ Capacity > 0 /\ size \in Int
    BY Consts
  <1>b. /\ IsFiniteSet(Passed) /\ Cardinality(Passed) \in Nat
    BY <1>a, FS_Subset, FS_CardinalityType DEF Passed
  <1>1. CASE UNCHANGED vars \/ \E c \in Ctx : Cancel(c)
    BY <1>1 DEF vars, ring, Cancel, PassedInv, Passed
  <1>2. ASSUME NEW p \in Procs, CallStep(p)
        PROVE  PassedInv'
    <2>0. Passed' \ {p} = Passed \ {p}
      BY <1>2, OthersStay, Consts DEF Passed
    <2>1. CASE EnqSize(p) /\ ~Overfull
      <3>1. size < Capacity /\ size' = size
        BY <1>a, <2>1 DEF Overfull, EnqSize, ring
      <3>2. Passed' \subseteq Enqueuers
        BY DEF Passed
      <3>3. Cardinality(Passed') <= Cardinality(Enqueuers) /\ Cardinality(Passed') \in Nat
        BY <1>a, <3>2, FS_Subset, FS_CardinalityType
      <3> QED  BY <1>a, <3>1, <3>3 DEF PassedInv
    <2>2. CASE EnqCount(p)
      <3>1. p \in Passed /\ p \notin Passed' /\ size' = size + 1
        BY <1>2, <2>2, PlaceMoves DEF EnqCount, At, Return, Goto, Passed, EnqAt
      <3>2. Passed' = Passed \ {p}
        BY <2>0, <3>1
      <3>3. Cardinality(Passed') = Cardinality(Passed) - 1
        BY <1>b, <3>1, <3>2, FS_RemoveElement
      <3> QED  BY <1>a, <1>b, <3>1, <3>3 DEF PassedInv
    <2>3. CASE ~EnqCount(p) /\ ~(EnqSize(p) /\ ~Overfull)
      <3>1. p \in Passed' => p \in Passed
        BY <1>2, <2>3, PlaceMoves DEF CallStep, Enqueue, Dequeue, Begin, Peek, Clear, Close,
             Running, EnqueueStep, InsertStep, GrowStep, DequeueStep, OtherStep, StatsStep,
             PeekStep, ClearStep, EnqClosed, EnqFull, EnqTail, EnqSize, EnqCas, EnqWrite, DeqAny,
             DeqHead, DeqSize, DeqItem, DeqCas, DeqWipe, DeqCount, DeqClosed, PeekClosed, PeekHead,
             PeekItem, ClearHead, ClearWipe, ClearHead0, ClearTail0, ClearSize0, StatsLock,
             StatsUnlock, PeekSize, ClearSize, Return, Goto, Still, Passed, At
      <3>2. size' \in {0, size, size - 1}
        BY <1>2, <2>3, PlaceMoves DEF CallStep, Enqueue, Dequeue, Begin, Peek, Clear, Close,
             Running, EnqueueStep, InsertStep, GrowStep, DequeueStep, OtherStep, StatsStep,
             PeekStep, ClearStep, EnqClosed, EnqFull, EnqTail, EnqSize, EnqCas, EnqWrite, DeqAny,
             DeqHead, DeqSize, DeqItem, DeqCas, DeqWipe, DeqCount, DeqClosed, PeekClosed, PeekHead,
             PeekItem, ClearHead, ClearWipe, ClearHead0, ClearTail0, ClearSize0, StatsLock,
             StatsUnlock, PeekSize, ClearSize, Still, ring
      <3>3. Passed' \subseteq Passed
        BY <2>0, <3>1
      <3>4. Cardinality(Passed') <= Cardinality(Passed) /\ Cardinality(Passed') \in Nat
        BY <1>b, <3>3, FS_Subset, FS_CardinalityType
      <3>5. Passed' \subseteq Enqueuers
        BY DEF Passed
      <3>6. Cardinality(Passed') <= Cardinality(Enqueuers)
        BY <1>a, <3>5, FS_Subset
      <3> QED  BY <1>a, <1>b, <3>2, <3>4, <3>6 DEF PassedInv
    <2> QED  BY <2>1, <2>2, <2>3
  <1> QED  BY <1>1, <1>2, StepCases

LEMMA SeatAlways ==
  ASSUME Bounded
  PROVE  Spec => [](SeatInv /\ PassedInv)
  <1>1. Init => SeatInv /\ PassedInv
    BY SeatInit
  <1>2. SeatInv /\ PassedInv /\ [Next]_vars => (SeatInv /\ PassedInv)'
    <2>1. SeatInv /\ PassedInv /\ [Next]_vars => SeatInv' /\ PassedInv'
      BY SeatStep, PassedStep
    <2> QED  BY <2>1
  <1> QED  BY <1>1, <1>2, PTL DEF Spec

(* Whoever calls a bounded queue, no access is out of range, and its       *)
(* capacity is exceeded by less than the number of producers.              *)
THEOREM BoundsProved ==
  ASSUME Bounded
  PROVE  Spec => []BoundsWhenShared
  <1>1. SeatInv /\ PassedInv => BoundsWhenShared
    <2> SUFFICES ASSUME SeatInv, PassedInv  PROVE BoundsWhenShared
      OBVIOUS
    <2>1. IndexInRange
      BY DEF SeatInv, IndexInRange
    <2>2. OvershootBounded
      <3>1. /\ Cardinality(Enqueuers) \in Nat /\ Capacity \in Nat /\ size \in Int
            /\ IsFiniteSet(Enqueuers) /\ Passed \subseteq Enqueuers
        BY Consts DEF SeatInv, Passed
      <3>2. Cardinality(Passed) \in Nat
        BY <3>1, FS_Subset, FS_CardinalityType
      <3> QED  BY <3>1, <3>2 DEF PassedInv, OvershootBounded
    <2> QED  BY <2>1, <2>2 DEF BoundsWhenShared
  <1> QED  BY <1>1, SeatAlways, PTL

-----------------------------------------------------------------------------
(* One goroutine enqueues and one dequeues                                 *)

(* e enqueues, d dequeues, whoever peeks and closes; nobody clears.        *)
Ends(e, d) == /\ Bounded /\ Clearers = {}
              /\ Enqueuers = {e} /\ Dequeuers = {d}

(* Elements placed but not counted, and taken but not counted off.         *)
Put(e)  == IF Placing(e) THEN 1 ELSE 0
Got(d)  == IF Taking(d) THEN 1 ELSE 0
Used(d) == size - Got(d)

At2(i) == (head + i) % len

IndexInv(e, d) ==
    /\ Used(d) >= 0 /\ Used(d) + Put(e) + Got(d) <= len
    /\ tail = At2(Used(d) + Put(e))

SlotInv(e, d) ==
    /\ \A i \in 0..Used(d)-1 : data[At2(i)] \in Items
    /\ \A i \in Used(d)..len-1 :
          data[At2(i)] # Zero => \/ i = Used(d) /\ pc[e] = "e:count"
                                 \/ i = len-1 /\ pc[d] = "d:wipe"

(* Only e enqueues and only d dequeues; an element is on its way.          *)
EndInv(e, d) ==
    \A p \in Procs :
       /\ pc[p] \in Places \ {"c:lock", "c:head", "c:wipe", "c:head0", "c:tail0", "c:size0"}
       /\ pc[p] \in EnqAt => p = e /\ loc[p].item \in Items
       /\ pc[p] \in DeqAt => p = d

ProducerInv(e, d) ==
    /\ pc[e] \in {"e:size", "e:cas"} => loc[e].i = tail
    /\ pc[e] = "e:cas" => size < len
    /\ Placing(e) => loc[e].i = At2(Used(d))
    /\ pc[e] = "e:count" => data[loc[e].i] = loc[e].item

ConsumerInv(d) ==
    /\ pc[d] \in {"d:head", "d:size", "d:item", "d:cas"} => Used(d) > 0
    /\ pc[d] \in {"d:size", "d:item", "d:cas"} => loc[d].i = head
    /\ pc[d] = "d:cas" => loc[d].item = data[head]
    /\ Taking(d) => loc[d].i = At2(len - 1) /\ loc[d].item \in Items

EndsInv(e, d) ==
    /\ SeatInv /\ IndexInv(e, d) /\ SlotInv(e, d) /\ EndInv(e, d)
    /\ ProducerInv(e, d) /\ ConsumerInv(d)

(* A size that was loaded lies in the slice.                               *)
LoadInv == \A p \in Procs : loc[p].s \in 0..len

-----------------------------------------------------------------------------
(* Slots                                                                   *)

LEMMA Unwrapped ==
  ASSUME NEW n \in Nat \ {0}, NEW b \in 0..n-1, NEW k \in Int
  PROVE  (b + k * n) % n = b
  OBVIOUS

LEMMA Folded ==
  ASSUME NEW n \in Nat \ {0}, NEW a \in 0..2*n
  PROVE  a % n = IF a < n THEN a ELSE IF a < 2 * n THEN a - n ELSE 0
  <1>1. a < n => a % n = a
    OBVIOUS
  <1>2. n <= a /\ a < 2 * n => a % n = a - n
    <2> DEFINE b == a - n
    <2>1. n <= a /\ a < 2 * n => b \in 0..n-1
      OBVIOUS
    <2>2. b \in 0..n-1 => (b + 1 * n) % n = b
      BY Unwrapped
    <2>3. a = b + 1 * n
      OBVIOUS
    <2> QED  BY <2>1, <2>2, <2>3
  <1>3. (2 * n) % n = 0
    <2>1. (0 + 2 * n) % n = 0
      BY Unwrapped
    <2> QED  BY <2>1
  <1> QED  BY <1>1, <1>2, <1>3

LEMMA Wrap ==
  ASSUME NEW n \in Nat \ {0}, NEW h \in 0..n-1
  PROVE  /\ \A i \in 0..n : (h + i) % n \in 0..n-1
         /\ \A i, j \in 0..n-1 : (h + i) % n = (h + j) % n => i = j
         /\ (h + 0) % n = h /\ (h + n) % n = h
         /\ (h + 1) % n \in 0..n-1
         /\ \A i \in 0..n-1 : (((h + 1) % n) + i) % n = (h + (i + 1)) % n
         /\ \A i \in 0..n-1 : (((h + i) % n) + 1) % n = (h + (i + 1)) % n
  <1>1. \A a \in 0..2*n : a % n = IF a < n THEN a ELSE IF a < 2 * n THEN a - n ELSE 0
    BY Folded
  <1>2. \A i \in 0..n : (h + i) % n = IF h + i < n THEN h + i ELSE h + i - n
    BY <1>1
  <1>3. (h + 1) % n = IF h + 1 < n THEN h + 1 ELSE 0
    BY <1>2
  <1>4. ASSUME NEW i \in 0..n-1  PROVE (((h + 1) % n) + i) % n = (h + (i + 1)) % n
    <2>1. ((h + 1) % n) + i \in 0..2*n
      BY <1>3
    <2>2. ((h + 1) % n) + i = h + (i + 1) \/ ((h + 1) % n) + i = h + (i + 1) - n
      BY <1>3
    <2>3. (h + (i + 1)) % n = IF h + (i + 1) < n THEN h + (i + 1) ELSE h + (i + 1) - n
      BY <1>2
    <2> QED  BY <1>1, <1>3, <2>1, <2>2, <2>3
  <1>5. ASSUME NEW i \in 0..n-1  PROVE (((h + i) % n) + 1) % n = (h + (i + 1)) % n
    <2>1. (h + i) % n = IF h + i < n THEN h + i ELSE h + i - n
      BY <1>2
    <2>2. (h + (i + 1)) % n = IF h + (i + 1) < n THEN h + (i + 1) ELSE h + (i + 1) - n
      BY <1>2
    <2>3. ((h + i) % n) + 1 \in 0..2*n
      BY <2>1
    <2> QED  BY <1>1, <2>1, <2>2, <2>3
  <1>6. \A i, j \in 0..n-1 : (h + i) % n = (h + j) % n => i = j
    BY <1>2
  <1>7. \A i \in 0..n : (h + i) % n \in 0..n-1
    BY <1>2
  <1>8. (h + 0) % n = h /\ (h + n) % n = h /\ (h + 1) % n \in 0..n-1
    BY <1>2
  <1> QED  BY <1>4, <1>5, <1>6, <1>7, <1>8

-----------------------------------------------------------------------------
(* Steps that look, and those that move the ring                           *)
Movers == {"e:write", "e:count", "d:wipe", "d:count"}

RingStep(p) == EnqCas(p) \/ EnqWrite(p) \/ EnqCount(p) \/ DeqCas(p) \/ DeqWipe(p) \/ DeqCount(p)

LEMMA EndMoves ==
  ASSUME NEW e, NEW d, Ends(e, d), SeatInv, EndInv(e, d), NEW p \in Procs, CallStep(p)
  PROVE  EndInv(e, d)'
  <1> USE DEF SeatInv, Ends
  <1>1. pc'[p] \in Places /\ (pc'[p] \in EnqAt => p = e)
    BY PlaceMoves
  <1>2. pc'[p] \notin {"c:lock", "c:head", "c:wipe", "c:head0", "c:tail0", "c:size0"}
    BY PlaceMoves DEF EndInv, CallStep, Enqueue, Dequeue, Begin, Peek, Clear, Close, Running,
         EnqueueStep, InsertStep, GrowStep, DequeueStep, OtherStep, StatsStep, PeekStep, ClearStep,
         EnqClosed, EnqFull, EnqTail, EnqSize, EnqCas, EnqWrite, EnqCount, DeqAny, DeqHead, DeqSize,
         DeqItem, DeqCas, DeqWipe, DeqCount, DeqClosed, PeekClosed, PeekHead, PeekItem, ClearHead,
         ClearWipe, ClearHead0, ClearTail0, ClearSize0, StatsLock, StatsUnlock, PeekSize, ClearSize,
         Return, Goto, Still, At
  <1>3. pc'[p] \in DeqAt => p = d
    <2>1. pc'[p] \in DeqAt => p \in Dequeuers \/ pc[p] \in DeqAt
      <3>1. CASE DequeueStep(p)
        BY <3>1 DEF DequeueStep, DeqAny, DeqHead, DeqSize, DeqItem, DeqCas, DeqWipe, DeqCount,
           DeqClosed, At, DeqAt
      <3>2. CASE EnqueueStep(p)
        BY <3>2, PlaceMoves DEF EnqueueStep, InsertStep, GrowStep, EnqClosed, EnqFull, EnqTail,
             EnqSize, EnqCas, EnqWrite, EnqCount, Return, Goto, DeqAt
      <3>3. CASE ~DequeueStep(p) /\ ~EnqueueStep(p)
        BY <3>3 DEF CallStep, Enqueue, Dequeue, Begin, Peek, Clear, Close, Running, OtherStep,
             StatsStep, PeekStep, ClearStep, PeekClosed, PeekHead, PeekItem, ClearHead, ClearWipe,
             ClearHead0, ClearTail0, ClearSize0, StatsLock, StatsUnlock, PeekSize, ClearSize,
             Return, Goto, Still, At, DeqAt
      <3> QED  BY <3>1, <3>2, <3>3
    <2> QED  BY <2>1 DEF EndInv
  <1>4. pc'[p] \in EnqAt => loc'[p].item \in Items
    <2>1. CASE EnqueueStep(p)
      <3>1. loc[p].item \in Items
        BY <2>1, PlaceMoves DEF EnqueueStep, InsertStep, GrowStep, EnqClosed, EnqFull, EnqTail,
             EnqSize, EnqCas, EnqWrite, EnqCount, At, EndInv, EnqAt
      <3>2. CASE EnqSize(p) /\ loc' = [loc EXCEPT ![p].s = size, ![p].n = len]
        BY <3>1, <3>2
      <3>3. CASE EnqTail(p)
        BY <3>1, <3>3 DEF EnqTail
      <3>4. CASE ~(EnqSize(p) /\ loc' = [loc EXCEPT ![p].s = size, ![p].n = len]) /\ ~EnqTail(p)
        <4>1. UNCHANGED loc \/ pc'[p] = "s:lock"
          BY <2>1, <3>4, PlaceMoves DEF EnqueueStep, InsertStep, GrowStep, EnqClosed, EnqFull,
               EnqSize, EnqCas, EnqWrite, EnqCount, Return, Goto
        <4> QED  BY <3>1, <4>1 DEF EnqAt
      <3> QED  BY <3>2, <3>3, <3>4
    <2>2. CASE \E x \in Items, c \in Ctx \cup {NoCtx} : Enqueue(p, x, c)
      BY <2>2 DEF Enqueue, Begin, At, EnqAt
    <2>3. CASE ~EnqueueStep(p) /\ ~(\E x \in Items, c \in Ctx \cup {NoCtx} : Enqueue(p, x, c))
      <3>1. pc'[p] \notin EnqAt \/ (UNCHANGED pc /\ UNCHANGED loc)
        BY <2>3 DEF CallStep, Dequeue, Begin, Peek, Clear, Close, Running, DequeueStep, OtherStep,
             StatsStep, PeekStep, ClearStep, DeqAny, DeqHead, DeqSize, DeqItem, DeqCas, DeqWipe,
             DeqCount, DeqClosed, PeekClosed, PeekHead, PeekItem, ClearHead, ClearWipe, ClearHead0,
             ClearTail0, ClearSize0, StatsLock, StatsUnlock, PeekSize, ClearSize, Return, Goto,
             Still, At, EnqAt
      <3> QED  BY <3>1 DEF EndInv
    <2> QED  BY <2>1, <2>2, <2>3
  <1>5. \A q \in Procs \ {p} : pc'[q] = pc[q] /\ loc'[q] = loc[q]
    BY OthersStay
  <1> QED  BY <1>1, <1>2, <1>3, <1>4, <1>5 DEF EndInv

(* A step that looks: the ring stays, and nobody places or takes. *)
LEMMA Looks ==
  ASSUME NEW e, NEW d, Ends(e, d), SeatInv, EndInv(e, d), NEW p \in Procs, CallStep(p), ~RingStep(p)
  PROVE  /\ UNCHANGED head /\ UNCHANGED tail /\ UNCHANGED size /\ UNCHANGED data /\ UNCHANGED len
         /\ \A q \in Procs :
               pc[q] \in Movers \/ pc'[q] \in Movers => pc'[q] = pc[q] /\ loc'[q] = loc[q]
  <1> USE DEF SeatInv, Ends
  <1>1. /\ UNCHANGED head /\ UNCHANGED tail /\ UNCHANGED size /\ UNCHANGED data /\ UNCHANGED len
    BY PlaceMoves DEF EndInv, RingStep, CallStep, Enqueue, Dequeue, Begin, Peek, Clear, Close,
         Running, EnqueueStep, InsertStep, GrowStep, DequeueStep, OtherStep, StatsStep, PeekStep,
         ClearStep, EnqClosed, EnqFull, EnqTail, EnqSize, DeqAny, DeqHead, DeqSize, DeqItem,
         DeqClosed, PeekClosed, PeekHead, PeekItem, ClearHead, ClearWipe, ClearHead0, ClearTail0,
         ClearSize0, StatsLock, StatsUnlock, PeekSize, ClearSize, Still, At, ring
  <1>2. pc[p] \in Movers \/ pc'[p] \in Movers => UNCHANGED pc /\ UNCHANGED loc
    BY PlaceMoves DEF Movers, RingStep, CallStep, Enqueue, Dequeue, Begin, Peek, Clear, Close,
         Running, EnqueueStep, InsertStep, GrowStep, DequeueStep, OtherStep, StatsStep, PeekStep,
         ClearStep, EnqClosed, EnqFull, EnqTail, EnqSize, DeqAny, DeqHead, DeqSize, DeqItem,
         DeqClosed, PeekClosed, PeekHead, PeekItem, ClearHead, ClearWipe, ClearHead0, ClearTail0,
         ClearSize0, StatsLock, StatsUnlock, PeekSize, ClearSize, Still, At, Goto, Return
  <1>3. \A q \in Procs \ {p} : pc'[q] = pc[q] /\ loc'[q] = loc[q]
    BY OthersStay
  <1> QED  BY <1>1, <1>2, <1>3

LEMMA LookKept ==
  ASSUME NEW e, NEW d, Ends(e, d), EndsInv(e, d), NEW p \in Procs, CallStep(p), ~RingStep(p)
  PROVE  IndexInv(e, d)' /\ SlotInv(e, d)' /\ ProducerInv(e, d)' /\ ConsumerInv(d)'
  <1> USE DEF EndsInv
  <1>a. e \in Procs /\ d \in Procs
    BY Consts DEF Ends
  <1>b. /\ UNCHANGED head /\ UNCHANGED tail /\ UNCHANGED size /\ UNCHANGED data /\ UNCHANGED len
        /\ \A q \in Procs :
              pc[q] \in Movers \/ pc'[q] \in Movers => pc'[q] = pc[q] /\ loc'[q] = loc[q]
    BY Looks
  <1>c. /\ Placing(e)' <=> Placing(e)
        /\ Taking(d)' <=> Taking(d)
        /\ pc'[e] = "e:count" <=> pc[e] = "e:count"
        /\ pc'[d] = "d:wipe" <=> pc[d] = "d:wipe"
    BY <1>a, <1>b DEF Placing, Taking, Movers
  <1>d. Used(d)' = Used(d) /\ Put(e)' = Put(e) /\ Got(d)' = Got(d)
    BY <1>b, <1>c DEF Used, Put, Got
  <1>1. IndexInv(e, d)'
    BY <1>b, <1>d DEF IndexInv, At2
  <1>2. SlotInv(e, d)'
    BY <1>b, <1>c, <1>d DEF SlotInv, At2
  <1>3. ProducerInv(e, d)'
    <2>1. pc'[e] \in {"e:size", "e:cas"} => loc'[e].i = tail'
      <3>0. CASE p = e /\ EnqSize(p)
        <4>1. pc[e] = "e:size" /\ (loc'[e].i = loc[e].i \/ pc'[e] = "s:lock")
          <5>1. CASE Overfull
            BY <1>a, <3>0, <5>1 DEF EnqSize, At, Return, Goto, SeatInv
          <5>2. CASE ~Overfull
            BY <1>a, <3>0, <5>2 DEF EnqSize, At, SeatInv
          <5> QED  BY <5>1, <5>2
        <4> QED  BY <1>b, <4>1 DEF ProducerInv
      <3>3. CASE p = e /\ EnqTail(p)
        BY <1>b, <3>3 DEF EnqTail, SeatInv
      <3>1. CASE p = e /\ ~EnqSize(p) /\ ~EnqTail(p)
        BY <1>b, <3>1, PlaceMoves DEF Ends, SeatInv, ProducerInv, RingStep, CallStep, Enqueue,
             Dequeue, Begin, Peek, Clear, Close, Running, EnqueueStep, InsertStep, GrowStep,
             DequeueStep, OtherStep, StatsStep, PeekStep, ClearStep, EnqClosed, EnqFull, DeqAny,
             DeqHead, DeqSize, DeqItem, DeqClosed, PeekClosed, PeekHead, PeekItem, ClearHead,
             ClearWipe, ClearHead0, ClearTail0, ClearSize0, StatsLock, StatsUnlock, PeekSize,
             ClearSize, Still, At, Goto, Return
      <3>2. CASE p # e
        BY <1>a, <1>b, <3>2, OthersStay DEF ProducerInv
      <3> QED  BY <3>0, <3>1, <3>2, <3>3
    <2>2. pc'[e] = "e:cas" => size' < len'
      <3>1. CASE p = e /\ EnqSize(p)
        BY <1>b, <3>1, Consts DEF Ends, EnqSize, Overfull, Return, Goto, SeatInv
      <3>2. CASE p = e /\ ~EnqSize(p)
        BY <1>b, <3>2, PlaceMoves DEF Ends, SeatInv, ProducerInv, RingStep, CallStep, Enqueue,
             Dequeue, Begin, Peek, Clear, Close, Running, EnqueueStep, InsertStep, GrowStep,
             DequeueStep, OtherStep, StatsStep, PeekStep, ClearStep, EnqClosed, EnqFull, EnqTail,
             EnqSize, DeqAny, DeqHead, DeqSize, DeqItem, DeqClosed, PeekClosed, PeekHead, PeekItem,
             ClearHead, ClearWipe, ClearHead0, ClearTail0, ClearSize0, StatsLock, StatsUnlock,
             PeekSize, ClearSize, Still, At, Goto, Return
      <3>3. CASE p # e
        BY <1>a, <1>b, <3>3, OthersStay DEF ProducerInv
      <3> QED  BY <3>1, <3>2, <3>3
    <2>3. Placing(e)' => loc'[e].i = At2(Used(d))'
      BY <1>a, <1>b, <1>c, <1>d DEF ProducerInv, At2, Placing, Movers
    <2>4. pc'[e] = "e:count" => data'[loc'[e].i] = loc'[e].item
      BY <1>a, <1>b DEF ProducerInv, Movers
    <2> QED  BY <2>1, <2>2, <2>3, <2>4 DEF ProducerInv
  <1>4. ConsumerInv(d)'
    <2>1. CASE p # d
      BY <1>a, <1>b, <1>c, <1>d, <2>1, OthersStay DEF ConsumerInv, At2
    <2>2. CASE p = d
      <3>1. Taking(d)' => loc'[d].i = At2(len - 1)' /\ loc'[d].item \in Items
        BY <1>a, <1>b, <1>c DEF ConsumerInv, At2, Taking, Movers
      <3>2. CASE DeqAny(d)
        <4>1. size # 0 => Used(d) > 0
          BY <3>2 DEF DeqAny, At, Used, Got, Taking, IndexInv, SeatInv
        <4>2. pc'[d] \in {"d:closed", "d:head"} /\ (pc'[d] = "d:head" => size # 0)
          BY <1>a, <3>2 DEF DeqAny, Goto, SeatInv
        <4> QED  BY <1>d, <3>1, <4>1, <4>2 DEF ConsumerInv
      <3>3. CASE DeqHead(d)
        <4>1. pc[d] = "d:head" /\ pc'[d] = "d:size" /\ loc'[d].i = head
          BY <1>a, <3>3 DEF DeqHead, At, Goto, SeatInv
        <4> QED  BY <1>b, <1>d, <3>1, <4>1 DEF ConsumerInv
      <3>4. CASE DeqSize(d)
        <4>1. pc[d] = "d:size" /\ pc'[d] \in {"d:closed", "d:item"} /\ loc'[d].i = loc[d].i
          BY <1>a, <3>4 DEF DeqSize, At, Goto, SeatInv
        <4> QED  BY <1>b, <1>d, <3>1, <4>1 DEF ConsumerInv
      <3>5. CASE DeqItem(d)
        <4>1. /\ pc[d] = "d:item" /\ pc'[d] = "d:cas" /\ loc'[d].i = loc[d].i
              /\ loc'[d].item = data[loc[d].i]
          BY <1>a, <3>5 DEF DeqItem, At, Goto, SeatInv
        <4> QED  BY <1>b, <1>d, <3>1, <4>1 DEF ConsumerInv
      <3>6. CASE ~DeqAny(d) /\ ~DeqHead(d) /\ ~DeqSize(d) /\ ~DeqItem(d)
        <4>1. pc'[d] \notin {"d:head", "d:size", "d:item", "d:cas"} 
              \/ (UNCHANGED pc /\ UNCHANGED loc)
          BY <2>2, <3>6, PlaceMoves DEF Ends, SeatInv, RingStep, CallStep, Enqueue, Dequeue, Begin,
               Peek, Clear, Close, Running, EnqueueStep, InsertStep, GrowStep, DequeueStep,
               OtherStep, StatsStep, PeekStep, ClearStep, EnqClosed, EnqFull, EnqTail, EnqSize,
               DeqClosed, PeekClosed, PeekHead, PeekItem, ClearHead, ClearWipe, ClearHead0,
               ClearTail0, ClearSize0, StatsLock, StatsUnlock, PeekSize, ClearSize, Still, At, Goto,
               Return
        <4> QED  BY <1>b, <1>d, <3>1, <4>1 DEF ConsumerInv
      <3> QED  BY <3>2, <3>3, <3>4, <3>5, <3>6
    <2> QED  BY <2>1, <2>2
  <1> QED  BY <1>1, <1>2, <1>3, <1>4

-----------------------------------------------------------------------------
(* The producer's steps on the ring *)

(* What the ring's types say of the counts. *)
LEMMA Counts ==
  ASSUME NEW e, NEW d, Ends(e, d), EndsInv(e, d)
  PROVE  /\ len \in Nat \ {0} /\ head \in 0..len-1 /\ size \in Int /\ e \in Procs /\ d \in Procs
         /\ Used(d) \in 0..len /\ Put(e) \in {0, 1} /\ Got(d) \in {0, 1}
         /\ size = Used(d) + Got(d) /\ Used(d) + Put(e) + Got(d) <= len
         /\ tail = At2(Used(d) + Put(e))
         /\ data \in [0..len-1 -> Slot] /\ loc \in [Procs -> Rec(len)]
         /\ pc \in [Procs -> Places]
  <1>1. /\ len \in Nat \ {0} /\ head \in 0..len-1 /\ size \in Int /\ e \in Procs /\ d \in Procs
        /\ data \in [0..len-1 -> Slot] /\ loc \in [Procs -> Rec(len)]
        /\ pc \in [Procs -> Places]
    BY Consts DEF EndsInv, SeatInv, Ends, Slot, Rec
  <1>2. Put(e) \in {0, 1} /\ Got(d) \in {0, 1} /\ Used(d) = size - Got(d)
    BY DEF Put, Got, Used
  <1>3. /\ Used(d) >= 0 /\ Used(d) + Put(e) + Got(d) <= len
        /\ tail = At2(Used(d) + Put(e))
    BY DEF EndsInv, IndexInv
  <1> HIDE DEF Used, Put, Got
  <1> QED  BY <1>1, <1>2, <1>3

(* The slots after head, in terms of the ring's state. *)
LEMMA Slots ==
  ASSUME NEW e, NEW d, Ends(e, d), EndsInv(e, d)
  PROVE  /\ \A i \in 0..len-1 : At2(i) \in 0..len-1
         /\ \A i, j \in 0..len-1 : At2(i) = At2(j) => i = j
         /\ At2(0) = head /\ At2(len) = head
         /\ \A i \in 0..len-1 : (At2(i) + 1) % len = At2(i + 1)
         /\ \A i \in 0..len-1 : (((head + 1) % len) + i) % len = At2(i + 1)
         /\ (head + 1) % len \in 0..len-1
  <1>1. len \in Nat \ {0} /\ head \in 0..len-1
    BY Counts
  <1>2. \A i \in 0..len-1 : (head + i) % len \in 0..len-1
    <2>1. \A i \in 0..len : (head + i) % len \in 0..len-1
      BY <1>1, Wrap
    <2> QED  BY <1>1, <2>1
  <1>3. \A i, j \in 0..len-1 : (head + i) % len = (head + j) % len => i = j
    BY <1>1, Wrap
  <1>4. (head + 0) % len = head /\ (head + len) % len = head
    BY <1>1, Wrap
  <1>5. \A i \in 0..len-1 : (((head + i) % len) + 1) % len = (head + (i + 1)) % len
    BY <1>1, Wrap
  <1>6. \A i \in 0..len-1 : (((head + 1) % len) + i) % len = (head + (i + 1)) % len
    BY <1>1, Wrap
  <1>7. (head + 1) % len \in 0..len-1
    BY <1>1, Wrap
  <1> QED  BY <1>2, <1>3, <1>4, <1>5, <1>6, <1>7 DEF At2

LEMMA EnqCasKept ==
  ASSUME NEW e, NEW d, Ends(e, d), EndsInv(e, d), EnqCas(e)
  PROVE  IndexInv(e, d)' /\ SlotInv(e, d)' /\ ProducerInv(e, d)' /\ ConsumerInv(d)'
  <1> USE DEF EndsInv
  <1>1. /\ pc[e] = "e:cas" /\ loc[e].i = tail /\ size < len /\ loc[e].n = len
        /\ loc[e].item \in Items
    BY Counts DEF EnqCas, At, ProducerInv, SeatInv, EndInv, EnqAt
  <1>2. /\ pc' = [pc EXCEPT ![e] = "e:write"] /\ tail' = (tail + 1) % len
        /\ data' = data /\ len' = len /\ head' = head /\ size' = size /\ loc' = loc
    BY <1>1 DEF EnqCas, Goto
  <1>3. pc'[e] = "e:write" /\ (d # e => pc'[d] = pc[d])
    BY <1>2, Counts
  <1>4. Got(d)' = Got(d) /\ Put(e) = 0 /\ Put(e)' = 1
    BY <1>1, <1>3 DEF Got, Put, Taking, Placing
  <1>5. Used(d)' = Used(d)
    BY <1>2, <1>4 DEF Used
  <1>6. Used(d) \in 0..len-1 /\ Used(d) + 1 + Got(d) <= len
    BY <1>1, Counts
  <1>7. tail = At2(Used(d)) /\ tail' = At2(Used(d) + 1)
    <2>1. tail = At2(Used(d) + 0)
      BY <1>4, Counts
    <2>2. Used(d) + 0 = Used(d)
      BY <1>6
    <2>3. tail = At2(Used(d))
      BY <2>1, <2>2
    <2>4. (At2(Used(d)) + 1) % len = At2(Used(d) + 1)
      BY <1>6, Slots
    <2> QED  BY <1>2, <2>3, <2>4
  <1>8. IndexInv(e, d)'
    BY <1>2, <1>4, <1>5, <1>6, <1>7, Counts DEF IndexInv, At2
  <1>9. SlotInv(e, d)'
    <2>1. pc'[e] # "e:count" /\ pc[e] # "e:count" /\ (pc'[d] = "d:wipe" <=> pc[d] = "d:wipe")
      BY <1>1, <1>3
    <2> QED  BY <1>2, <1>5, <2>1 DEF SlotInv, At2
  <1>10. ProducerInv(e, d)'
    BY <1>1, <1>2, <1>3, <1>5, <1>7 DEF ProducerInv, At2
  <1>11. ConsumerInv(d)'
    BY <1>1, <1>2, <1>3, <1>5 DEF ConsumerInv, At2, Taking
  <1> QED  BY <1>8, <1>9, <1>10, <1>11

LEMMA EnqWriteKept ==
  ASSUME NEW e, NEW d, Ends(e, d), EndsInv(e, d), EnqWrite(e)
  PROVE  IndexInv(e, d)' /\ SlotInv(e, d)' /\ ProducerInv(e, d)' /\ ConsumerInv(d)'
  <1> USE DEF EndsInv
  <1>1. pc[e] = "e:write" /\ loc[e].i = At2(Used(d)) /\ loc[e].item \in Items
    BY Counts DEF EnqWrite, At, ProducerInv, EndInv, EnqAt, Placing
  <1>2. /\ pc' = [pc EXCEPT ![e] = "e:count"] /\ tail' = tail
        /\ data' = [data EXCEPT ![At2(Used(d))] = loc[e].item]
        /\ len' = len /\ head' = head /\ size' = size /\ loc' = loc
    BY <1>1 DEF EnqWrite, Goto
  <1>3. pc'[e] = "e:count" /\ (d # e => pc'[d] = pc[d])
    BY <1>2, Counts
  <1>4. Got(d)' = Got(d) /\ Put(e) = 1 /\ Put(e)' = 1
    BY <1>1, <1>3 DEF Got, Put, Taking, Placing
  <1>5. Used(d)' = Used(d)
    BY <1>2, <1>4 DEF Used
  <1>6. Used(d) \in 0..len-1 /\ Used(d) + 1 + Got(d) <= len
    BY <1>4, Counts
  <1>7. /\ \A i \in 0..len-1 : At2(i) \in 0..len-1
        /\ \A i \in 0..len-1 : i # Used(d) => At2(i) # At2(Used(d))
    BY <1>6, Slots
  <1>8. IndexInv(e, d)'
    BY <1>2, <1>4, <1>5 DEF IndexInv, At2
  <1>w. /\ \A i \in 0..len-1 : i # Used(d) => data'[At2(i)] = data[At2(i)]
        /\ data'[At2(Used(d))] = loc[e].item
    BY <1>2, <1>6, <1>7, Counts
  <1>9. SlotInv(e, d)'
    <2>1. pc'[e] = "e:count" /\ pc[e] # "e:count" /\ (pc'[d] = "d:wipe" <=> pc[d] = "d:wipe")
      BY <1>1, <1>3
    <2>2. \A i \in 0..Used(d)-1 : data'[At2(i)] \in Items
      <3>1. SUFFICES ASSUME NEW i \in 0..Used(d)-1  PROVE data'[At2(i)] \in Items
        OBVIOUS
      <3>2. i \in 0..len-1 /\ i # Used(d)
        BY <1>6, Counts
      <3> QED  BY <1>w, <3>2 DEF SlotInv
    <2>3. ASSUME NEW i \in Used(d)..len-1, data'[At2(i)] # Zero
          PROVE  i = Used(d) \/ (i = len-1 /\ pc'[d] = "d:wipe")
      <3>1. CASE i = Used(d)
        BY <3>1
      <3>2. CASE i # Used(d)
        <4>1. i \in 0..len-1
          BY <1>6, Counts
        <4>2. data[At2(i)] # Zero
          BY <1>w, <2>3, <3>2, <4>1
        <4> QED  BY <2>1, <3>2, <4>2 DEF SlotInv
      <3> QED  BY <3>1, <3>2
    <2> QED  BY <1>2, <1>3, <1>5, <2>2, <2>3 DEF SlotInv, At2
  <1>10. ProducerInv(e, d)'
    BY <1>1, <1>2, <1>3, <1>5, <1>w DEF ProducerInv, At2
  <1>11. ConsumerInv(d)'
    <2>1. CASE d = e
      BY <1>3, <2>1 DEF ConsumerInv, Taking
    <2>2. CASE d # e
      <3>1. pc[d] = "d:cas" => data'[head] = data[head]
        <4>1. pc[d] = "d:cas" => Used(d) > 0
          BY DEF ConsumerInv
        <4>2. At2(0) = head
          BY Slots
        <4>3. Used(d) > 0 => 0 \in 0..len-1 /\ 0 # Used(d)
          BY <1>6, Counts
        <4> QED  BY <1>w, <4>1, <4>2, <4>3
      <3> QED  BY <1>2, <1>3, <1>5, <2>2, <3>1 DEF ConsumerInv, At2, Taking
    <2> QED  BY <2>1, <2>2
  <1> QED  BY <1>8, <1>9, <1>10, <1>11

LEMMA EnqCountKept ==
  ASSUME NEW e, NEW d, Ends(e, d), EndsInv(e, d), EnqCount(e)
  PROVE  IndexInv(e, d)' /\ SlotInv(e, d)' /\ ProducerInv(e, d)' /\ ConsumerInv(d)'
  <1> USE DEF EndsInv
  <1>1. /\ pc[e] = "e:count" /\ loc[e].i = At2(Used(d)) /\ loc[e].item \in Items
        /\ data[loc[e].i] = loc[e].item
    BY Counts DEF EnqCount, At, ProducerInv, EndInv, EnqAt, Placing
  <1>2. /\ pc' = [pc EXCEPT ![e] = "s:lock"] /\ loc' = [loc EXCEPT ![e] = NoLocal]
        /\ tail' = tail /\ data' = data /\ len' = len /\ head' = head /\ size' = size + 1
    BY DEF EnqCount, Return, Goto
  <1>3. pc'[e] = "s:lock" /\ (d # e => pc'[d] = pc[d] /\ loc'[d] = loc[d])
    BY <1>2, Counts
  <1>4. Got(d)' = Got(d) /\ Put(e) = 1 /\ Put(e)' = 0
    BY <1>1, <1>3 DEF Got, Put, Taking, Placing
  <1>5. Used(d)' = Used(d) + 1
    BY <1>2, <1>4, Counts DEF Used
  <1>6. Used(d) \in 0..len-1 /\ Used(d) + 1 + Got(d) <= len
    BY <1>4, Counts
  <1>8. IndexInv(e, d)'
    <2>1. tail' = At2(Used(d) + 1) /\ (Used(d) + 1) + 0 = Used(d) + 1
      BY <1>2, <1>4, <1>6, Counts
    <2>2. Used(d)' + Put(e)' = Used(d) + 1 /\ Used(d)' >= 0
          /\ Used(d)' + Put(e)' + Got(d)' <= len
      BY <1>4, <1>5, <1>6, Counts
    <2> QED  BY <1>2, <2>1, <2>2 DEF IndexInv, At2
  <1>9. SlotInv(e, d)'
    <2>1. pc[d] = "d:wipe" => pc'[d] = "d:wipe"
      BY <1>1, <1>3
    <2>2. ASSUME NEW i \in 0..Used(d)  PROVE data[At2(i)] \in Items
      <3>1. CASE i = Used(d)
        BY <1>1, <3>1
      <3>2. CASE i # Used(d)
        BY <1>6, <3>2 DEF SlotInv
      <3> QED  BY <3>1, <3>2
    <2>3. ASSUME NEW i \in Used(d)+1..len-1, data[At2(i)] # Zero
          PROVE  i = len-1 /\ pc'[d] = "d:wipe"
      BY <1>6, <2>1, <2>3 DEF SlotInv
    <2>4. Used(d)' - 1 = Used(d)
      BY <1>5, <1>6
    <2> QED  BY <1>2, <1>5, <2>2, <2>3, <2>4 DEF SlotInv, At2
  <1>10. ProducerInv(e, d)'
    BY <1>3 DEF ProducerInv, Placing
  <1>11. ConsumerInv(d)'
    <2>1. CASE d = e
      BY <1>3, <2>1 DEF ConsumerInv, Taking
    <2>2. CASE d # e
      BY <1>2, <1>3, <1>5, <1>6, <2>2 DEF ConsumerInv, At2, Taking
    <2> QED  BY <2>1, <2>2
  <1> QED  BY <1>8, <1>9, <1>10, <1>11

-----------------------------------------------------------------------------
(* The consumer's steps on the ring *)

LEMMA DeqCasKept ==
  ASSUME NEW e, NEW d, Ends(e, d), EndsInv(e, d), DeqCas(d)
  PROVE  IndexInv(e, d)' /\ SlotInv(e, d)' /\ ProducerInv(e, d)' /\ ConsumerInv(d)'
  <1> USE DEF EndsInv
  <1>1. /\ pc[d] = "d:cas" /\ loc[d].i = head /\ Used(d) > 0 /\ loc[d].n = len
        /\ loc[d].item = data[head]
    BY Counts DEF DeqCas, At, ConsumerInv, SeatInv
  <1>2. /\ pc' = [pc EXCEPT ![d] = "d:wipe"] /\ head' = (head + 1) % len
        /\ data' = data /\ len' = len /\ tail' = tail /\ size' = size /\ loc' = loc
    BY <1>1 DEF DeqCas, Goto
  <1>3. pc'[d] = "d:wipe" /\ (d # e => pc'[e] = pc[e])
    BY <1>2, Counts
  <1>4. Got(d) = 0 /\ Got(d)' = 1 /\ Put(e)' = Put(e) /\ (Placing(e)' <=> Placing(e))
    BY <1>1, <1>3 DEF Got, Put, Taking, Placing
  <1>5. Used(d)' = Used(d) - 1
    BY <1>2, <1>4, Counts DEF Used
  <1>6. Used(d) \in 1..len /\ Used(d) + Put(e) <= len /\ Put(e) \in {0, 1}
    BY <1>1, <1>4, Counts
  <1>7. \A i \in 0..len-1 : At2(i)' = At2(i + 1)
    BY <1>2, Slots DEF At2
  <1>8. IndexInv(e, d)'
    <2>1. /\ (Used(d) - 1) + Put(e) \in 0..len-1
          /\ ((Used(d) - 1) + Put(e)) + 1 = Used(d) + Put(e)
      BY <1>6, Counts
    <2>2. tail = ((((head + 1) % len) + ((Used(d) - 1) + Put(e))) % len)
      BY <2>1, Counts, Slots
    <2>3. tail' = At2(Used(d) + Put(e))'
      BY <1>2, <1>4, <1>5, <2>2 DEF At2
    <2>4. Used(d)' >= 0 /\ Used(d)' + Put(e)' + Got(d)' <= len'
      BY <1>2, <1>4, <1>5, <1>6, Counts
    <2> QED  BY <2>3, <2>4 DEF IndexInv
  <1>9. SlotInv(e, d)'
    <2>1. ASSUME NEW i \in 0..(Used(d)-1)-1  PROVE data[At2(i)'] \in Items
      <3>1. i \in 0..len-1 /\ i + 1 \in 0..Used(d)-1
        BY <1>6, Counts
      <3> QED  BY <1>7, <3>1 DEF SlotInv
    <2>2. ASSUME NEW i \in Used(d)-1..len-1, data[At2(i)'] # Zero
          PROVE  (i = Used(d)-1 /\ pc'[e] = "e:count") \/ i = len-1
      <3>1. i \in 0..len-1 /\ i + 1 \in Used(d)..len
        BY <1>6, Counts
      <3>2. data[At2(i + 1)] # Zero
        BY <1>7, <2>2, <3>1
      <3>3. CASE i + 1 = len
        BY <3>1, <3>3, Counts
      <3>4. CASE i + 1 # len
        <4>1. i + 1 \in Used(d)..len-1
          BY <3>1, <3>4, <1>6, Counts
        <4>2. i + 1 = Used(d) /\ pc[e] = "e:count"
          BY <1>1, <3>2, <4>1 DEF SlotInv
        <4>3. d # e
          BY <1>1, <4>2
        <4>4. i = Used(d) - 1
          BY <3>1, <4>2, <1>6
        <4> QED  BY <1>3, <4>2, <4>3, <4>4
      <3> QED  BY <3>3, <3>4
    <2> HIDE DEF At2, Used
    <2> QED  BY <1>2, <1>3, <1>5, <2>1, <2>2 DEF SlotInv
  <1>10. ProducerInv(e, d)'
    <2>1. CASE d = e
      BY <1>3, <2>1 DEF ProducerInv, Placing
    <2>2. CASE d # e
      <3>1. Placing(e) => Used(d) - 1 \in 0..len-1 /\ (Used(d) - 1) + 1 = Used(d)
        BY <1>6, Counts
      <3>2. Placing(e) => At2(Used(d))' = At2(Used(d))
        <4>1. Placing(e) => (((head + 1) % len) + (Used(d) - 1)) % len = At2(Used(d))
          BY <3>1, Slots
        <4> QED  BY <1>2, <1>5, <4>1 DEF At2
      <3>3. Placing(e)' => loc'[e].i = At2(Used(d))'
        BY <1>2, <1>4, <3>2 DEF ProducerInv
      <3> QED  BY <1>2, <1>3, <2>2, <3>3 DEF ProducerInv
    <2> QED  BY <2>1, <2>2
  <1>11. ConsumerInv(d)'
    <2>1. loc[d].i = (((head + 1) % len) + (len - 1)) % len
      <3>1. len - 1 \in 0..len-1 /\ (len - 1) + 1 = len
        BY Counts
      <3> QED  BY <1>1, <3>1, Slots
    <2>2. loc[d].item \in Items
      <3>1. 0 \in 0..Used(d)-1 /\ At2(0) = head
        BY <1>6, Slots
      <3> QED  BY <1>1, <3>1 DEF SlotInv
    <2> QED  BY <1>2, <1>3, <2>1, <2>2 DEF ConsumerInv, At2
  <1> QED  BY <1>8, <1>9, <1>10, <1>11

LEMMA DeqWipeKept ==
  ASSUME NEW e, NEW d, Ends(e, d), EndsInv(e, d), DeqWipe(d)
  PROVE  IndexInv(e, d)' /\ SlotInv(e, d)' /\ ProducerInv(e, d)' /\ ConsumerInv(d)'
  <1> USE DEF EndsInv
  <1>1. pc[d] = "d:wipe" /\ loc[d].i = At2(len - 1) /\ loc[d].item \in Items
    BY DEF DeqWipe, At, ConsumerInv, Taking
  <1>2. /\ pc' = [pc EXCEPT ![d] = "d:count"] /\ data' = [data EXCEPT ![At2(len - 1)] = Zero]
        /\ head' = head /\ len' = len /\ tail' = tail /\ size' = size /\ loc' = loc
    BY <1>1 DEF DeqWipe, Goto
  <1>3. pc'[d] = "d:count" /\ (d # e => pc'[e] = pc[e])
    BY <1>2, Counts
  <1>4. Got(d) = 1 /\ Got(d)' = 1 /\ Put(e)' = Put(e) /\ (Placing(e)' <=> Placing(e))
    BY <1>1, <1>3 DEF Got, Put, Taking, Placing
  <1>5. Used(d)' = Used(d)
    BY <1>2, <1>4 DEF Used
  <1>6. Used(d) \in 0..len-1 /\ Used(d) + Put(e) <= len - 1
    BY <1>4, Counts
  <1>7. /\ \A i \in 0..len-1 : i # len-1 => data'[At2(i)] = data[At2(i)]
        /\ data'[At2(len - 1)] = Zero
    <2>1. len - 1 \in 0..len-1
      BY Counts
    <2> HIDE DEF At2
    <2> QED  BY <1>2, <2>1, Slots, Counts
  <1>8. IndexInv(e, d)'
    BY <1>2, <1>4, <1>5 DEF IndexInv, At2
  <1>9. SlotInv(e, d)'
    <2>1. ASSUME NEW i \in 0..Used(d)-1  PROVE data'[At2(i)] \in Items
      <3>1. i \in 0..len-1 /\ i # len-1
        BY <1>6, Counts
      <3> QED  BY <1>7, <3>1 DEF SlotInv
    <2>2. ASSUME NEW i \in Used(d)..len-1, data'[At2(i)] # Zero
          PROVE  i = Used(d) /\ pc'[e] = "e:count"
      <3>1. i \in 0..len-1 /\ i # len-1
        BY <1>6, <1>7, <2>2, Counts
      <3>2. data[At2(i)] # Zero
        BY <1>7, <2>2, <3>1
      <3>3. i = Used(d) /\ pc[e] = "e:count"
        BY <3>1, <3>2 DEF SlotInv
      <3> QED  BY <1>1, <1>3, <3>3
    <2> QED  BY <1>2, <1>5, <2>1, <2>2 DEF SlotInv, At2
  <1>10. ProducerInv(e, d)'
    <2>1. CASE d = e
      BY <1>3, <2>1 DEF ProducerInv, Placing
    <2>2. CASE d # e
      <3>1. pc[e] = "e:count" => data'[loc[e].i] = loc[e].item
        <4>1. pc[e] = "e:count" => Used(d) # len - 1
          BY <1>6, Counts DEF Put, Placing
        <4>2. pc[e] = "e:count" => loc[e].i = At2(Used(d)) /\ data[loc[e].i] = loc[e].item
          BY DEF ProducerInv, Placing
        <4> QED  BY <1>6, <1>7, <4>1, <4>2
      <3> QED  BY <1>2, <1>3, <1>4, <1>5, <2>2, <3>1 DEF ProducerInv, At2
    <2> QED  BY <2>1, <2>2
  <1>11. ConsumerInv(d)'
    BY <1>1, <1>2, <1>3 DEF ConsumerInv, At2
  <1> QED  BY <1>8, <1>9, <1>10, <1>11

LEMMA DeqCountKept ==
  ASSUME NEW e, NEW d, Ends(e, d), EndsInv(e, d), DeqCount(d)
  PROVE  IndexInv(e, d)' /\ SlotInv(e, d)' /\ ProducerInv(e, d)' /\ ConsumerInv(d)'
  <1> USE DEF EndsInv
  <1>1. pc[d] = "d:count"
    BY DEF DeqCount, At
  <1>2. /\ pc' = [pc EXCEPT ![d] = "s:lock"] /\ loc' = [loc EXCEPT ![d] = NoLocal]
        /\ tail' = tail /\ data' = data /\ len' = len /\ head' = head /\ size' = size - 1
    BY DEF DeqCount, Return, Goto
  <1>3. pc'[d] = "s:lock" /\ (d # e => pc'[e] = pc[e] /\ loc'[e] = loc[e])
    BY <1>2, Counts
  <1>4. Got(d) = 1 /\ Got(d)' = 0 /\ Put(e)' = Put(e) /\ (Placing(e)' <=> Placing(e))
    BY <1>1, <1>3 DEF Got, Put, Taking, Placing
  <1>5. Used(d)' = Used(d)
    BY <1>2, <1>4, Counts DEF Used
  <1>6. Used(d) \in 0..len-1 /\ Used(d) + Put(e) + 0 <= len
    BY <1>4, Counts
  <1>8. IndexInv(e, d)'
    BY <1>2, <1>4, <1>5, <1>6 DEF IndexInv, At2
  <1>9. SlotInv(e, d)'
    BY <1>1, <1>2, <1>3, <1>5 DEF SlotInv, At2
  <1>10. ProducerInv(e, d)'
    <2>1. CASE d = e
      BY <1>3, <2>1 DEF ProducerInv, Placing
    <2>2. CASE d # e
      <3>1. pc[e] = "e:cas" => size - 1 < len
        BY Counts DEF ProducerInv
      <3> QED  BY <1>2, <1>3, <1>4, <1>5, <2>2, <3>1 DEF ProducerInv, At2
    <2> QED  BY <2>1, <2>2
  <1>11. ConsumerInv(d)'
    BY <1>3 DEF ConsumerInv, Taking
  <1> QED  BY <1>8, <1>9, <1>10, <1>11

-----------------------------------------------------------------------------
(* Every step with one goroutine at each end                               *)

LEMMA EndsInit ==
  ASSUME NEW e, NEW d, Ends(e, d), Init
  PROVE  EndsInv(e, d) /\ LoadInv
  <1>1. SeatInv
    BY SeatInit DEF Ends
  <1>2. /\ pc = [p \in Procs |-> "idle"] /\ loc = [p \in Procs |-> NoLocal]
        /\ head = 0 /\ tail = 0 /\ size = 0 /\ data = [i \in 0..len-1 |-> Zero]
    BY DEF Init, EmptyRing
  <1>3. len \in Nat \ {0} /\ e \in Procs /\ d \in Procs /\ Zero \notin Items
    BY <1>1, Consts DEF Ends, SeatInv
  <1>4. Put(e) = 0 /\ Got(d) = 0 /\ Used(d) = 0 /\ At2(0) = 0
    <2>1. Put(e) = 0 /\ Got(d) = 0 /\ Used(d) = 0
      <3>1. ~Placing(e) /\ ~Taking(d)
        BY <1>2, <1>3 DEF Placing, Taking
      <3>2. Put(e) = 0 /\ Got(d) = 0
        BY <3>1 DEF Put, Got
      <3> QED  BY <1>2, <3>2 DEF Used
    <2>2. At2(0) = 0
      BY <1>2, <1>3 DEF At2
    <2> QED  BY <2>1, <2>2
  <1>5. IndexInv(e, d)
    BY <1>2, <1>3, <1>4 DEF IndexInv
  <1>6. SlotInv(e, d)
    <2>1. \A i \in 0..len-1 : At2(i) \in 0..len-1
      BY <1>2, <1>3 DEF At2
    <2> HIDE DEF At2
    <2> QED  BY <1>2, <1>3, <1>4, <2>1 DEF SlotInv
  <1>7. EndInv(e, d)
    BY <1>2 DEF EndInv, Places, EnqAt, DeqAt
  <1>8. ProducerInv(e, d) /\ ConsumerInv(d)
    BY <1>2, <1>3 DEF ProducerInv, ConsumerInv, Placing, Taking
  <1>9. LoadInv
    BY <1>2, <1>3 DEF LoadInv, NoLocal
  <1> QED  BY <1>1, <1>5, <1>6, <1>7, <1>8, <1>9 DEF EndsInv

LEMMA RingKept ==
  ASSUME NEW e, NEW d, Ends(e, d), EndsInv(e, d), NEW p \in Procs, RingStep(p)
  PROVE  IndexInv(e, d)' /\ SlotInv(e, d)' /\ ProducerInv(e, d)' /\ ConsumerInv(d)'
  <1>1. EnqCas(p) \/ EnqWrite(p) \/ EnqCount(p) => p = e
    BY DEF EnqCas, EnqWrite, EnqCount, At, EndsInv, EndInv, EnqAt
  <1>2. DeqCas(p) \/ DeqWipe(p) \/ DeqCount(p) => p = d
    BY DEF DeqCas, DeqWipe, DeqCount, At, EndsInv, EndInv, DeqAt
  <1>3. CASE EnqCas(p)
    BY <1>1, <1>3, EnqCasKept
  <1>4. CASE EnqWrite(p)
    BY <1>1, <1>4, EnqWriteKept
  <1>5. CASE EnqCount(p)
    BY <1>1, <1>5, EnqCountKept
  <1>6. CASE DeqCas(p)
    BY <1>2, <1>6, DeqCasKept
  <1>7. CASE DeqWipe(p)
    BY <1>2, <1>7, DeqWipeKept
  <1>8. CASE DeqCount(p)
    BY <1>2, <1>8, DeqCountKept
  <1> QED  BY <1>3, <1>4, <1>5, <1>6, <1>7, <1>8 DEF RingStep

LEMMA LoadKept ==
  ASSUME NEW e, NEW d, Ends(e, d), EndsInv(e, d), LoadInv, NEW p \in Procs, CallStep(p)
  PROVE  LoadInv'
  <1>1. size \in 0..len /\ len' = len /\ loc \in [Procs -> Rec(len)] /\ len \in Nat \ {0}
    <2>1. len' = len
      BY RingMoves DEF EndsInv, Ends, SeatInv
    <2>2. size \in Int /\ Used(d) \in 0..len /\ Got(d) \in {0, 1} /\ size = Used(d) + Got(d)
          /\ Used(d) + Put(e) + Got(d) <= len /\ Put(e) \in {0, 1} /\ len \in Nat \ {0}
      BY Counts
    <2>3. size \in 0..len
      <3> HIDE DEF Used, Got, Put
      <3> QED  BY <2>2
    <2> QED  BY <2>1, <2>3, Counts
  <1>2. loc'[p].s \in {0, loc[p].s, size}
    <2>1. CASE EnqTail(p) \/ DeqHead(p) \/ DeqItem(p) \/ PeekHead(p)
      BY <1>1, <2>1 DEF EnqTail, DeqHead, DeqItem, PeekHead, Rec
    <2>2. CASE EnqSize(p) \/ DeqSize(p)
      BY <1>1, <2>2 DEF EnqSize, DeqSize, Return, NoLocal, Rec
    <2>3. CASE EnqueueStep(p) \/ DequeueStep(p) \/ OtherStep(p)
      <3>1. CASE /\ ~EnqTail(p) /\ ~DeqHead(p) /\ ~DeqItem(p) /\ ~PeekHead(p)
                 /\ ~EnqSize(p) /\ ~DeqSize(p)
        <4>1. UNCHANGED loc \/ loc'[p] = NoLocal
          <5>1. pc[p] \notin {"c:lock", "c:head", "c:wipe", "c:head0", "c:tail0", "c:size0"}
            BY DEF EndsInv, EndInv
          <5> QED  BY <1>1, <2>3, <3>1, <5>1, PlaceMoves DEF Ends, EndsInv, EnqueueStep, InsertStep,
               GrowStep, DequeueStep, OtherStep, StatsStep, PeekStep, ClearStep, EnqClosed, EnqFull,
               EnqCas, EnqWrite, EnqCount, DeqAny, DeqCas, DeqWipe, DeqCount, DeqClosed, PeekClosed,
               PeekItem, ClearHead, ClearWipe, ClearHead0, ClearTail0, ClearSize0, StatsLock,
               StatsUnlock, PeekSize, ClearSize, Return, At
        <4> QED  BY <4>1 DEF NoLocal
      <3> QED  BY <2>1, <2>2, <3>1
    <2>4. CASE (\E x \in Items, c \in Ctx \cup {NoCtx} : Enqueue(p, x, c))
               \/ (\E c \in Ctx \cup {NoCtx} : Dequeue(p, c))
      BY <1>1, <2>4 DEF Enqueue, Dequeue, Begin, Rec
    <2>5. CASE Peek(p) \/ Clear(p) \/ Close(p)
      BY <2>5 DEF Peek, Clear, Close, Ends
    <2> QED  BY <2>3, <2>4, <2>5 DEF CallStep, Running
  <1>3. \A q \in Procs \ {p} : loc'[q] = loc[q]
    BY OthersStay DEF EndsInv
  <1> QED  BY <1>1, <1>2, <1>3 DEF LoadInv

LEMMA EndsStep ==
  ASSUME NEW e, NEW d, Ends(e, d), EndsInv(e, d), LoadInv, [Next]_vars
  PROVE  EndsInv(e, d)' /\ LoadInv'
  <1>1. CASE UNCHANGED vars \/ \E c \in Ctx : Cancel(c)
    <2>1. /\ UNCHANGED head /\ UNCHANGED tail /\ UNCHANGED size /\ UNCHANGED data /\ UNCHANGED len
          /\ UNCHANGED pc /\ UNCHANGED loc
      BY <1>1 DEF vars, ring, Cancel
    <2>2. SeatInv'
      BY SeatStep DEF Ends, EndsInv
    <2>3. Used(d)' = Used(d) /\ Put(e)' = Put(e) /\ Got(d)' = Got(d)
      BY <2>1 DEF Used, Put, Got, Placing, Taking
    <2>4. IndexInv(e, d)' /\ SlotInv(e, d)'
      BY <2>1, <2>3 DEF EndsInv, IndexInv, SlotInv, At2
    <2>5. EndInv(e, d)' /\ ProducerInv(e, d)' /\ ConsumerInv(d)' /\ LoadInv'
      BY <2>1, <2>3 DEF EndsInv, EndInv, ProducerInv, ConsumerInv, LoadInv, Placing, Taking, At2
    <2> QED  BY <2>2, <2>4, <2>5 DEF EndsInv
  <1>2. ASSUME NEW p \in Procs, CallStep(p)
        PROVE  EndsInv(e, d)' /\ LoadInv'
    <2>1. SeatInv'
      BY SeatStep DEF Ends, EndsInv
    <2>2. EndInv(e, d)'
      BY <1>2, EndMoves DEF EndsInv
    <2>3. IndexInv(e, d)' /\ SlotInv(e, d)' /\ ProducerInv(e, d)' /\ ConsumerInv(d)'
      BY <1>2, RingKept, LookKept
    <2>4. LoadInv'
      BY <1>2, LoadKept
    <2> QED  BY <2>1, <2>2, <2>3, <2>4 DEF EndsInv
  <1> QED  BY <1>1, <1>2, StepCases

(* The parts amount to the invariant the runs check. *)
LEMMA EndsImply ==
  ASSUME NEW e, NEW d, Ends(e, d), EndsInv(e, d), LoadInv
  PROVE  SpscInv
  <1> DEFINE placing == {p \in Procs : Placing(p)}
             taking  == {p \in Procs : Taking(p)}
  <1>1. placing = IF Placing(e) THEN {e} ELSE {}
    BY Counts DEF Placing, EndsInv, EndInv, EnqAt
  <1>2. taking = IF Taking(d) THEN {d} ELSE {}
    BY Counts DEF Taking, EndsInv, EndInv, DeqAt
  <1>3. InFlight(placing) = Put(e) /\ InFlight(taking) = Got(d)
    BY <1>1, <1>2 DEF InFlight, Put, Got
  <1>4. size - InFlight(taking) = Used(d)
    BY <1>3 DEF Used
  <1>t. TypeOK
    <2>1. size \in 0..len
      <3>1. size \in Int /\ Used(d) \in 0..len /\ Got(d) \in {0, 1} /\ size = Used(d) + Got(d)
            /\ Used(d) + Put(e) + Got(d) <= len /\ Put(e) \in {0, 1} /\ len \in Nat \ {0}
        BY Counts
      <3> HIDE DEF Used, Got, Put
      <3> QED  BY <3>1
    <2>2. len \in Nat \ {0} /\ head \in 0..len-1 /\ tail \in 0..len-1
          /\ data \in [0..len-1 -> Items \cup {Zero}]
      BY Counts DEF EndsInv, SeatInv
    <2>3. pc \in [Procs -> Labels]
      BY DEF EndsInv, SeatInv, Places, Labels, EnqAt, DeqAt, ReaderAt, WriterAt
    <2>4. \A p \in Procs : /\ loc[p].item \in Items \cup {Zero}
                           /\ loc[p].i \in 0..len-1 /\ loc[p].n \in 1..2*len
                           /\ loc[p].s \in 0..len
      BY <2>2, Counts DEF LoadInv, Rec, Slot
    <2>5. call \in [Procs -> Calls] /\ closed \in BOOLEAN /\ done \subseteq Ctx
      BY DEF EndsInv, SeatInv
    <2>6. tail \in 0..len /\ tail # len
      BY <2>2
    <2> QED  BY <2>1, <2>2, <2>3, <2>4, <2>5, <2>6 DEF TypeOK
  <1>5. /\ Used(d) >= 0 /\ Used(d) + Put(e) + Got(d) <= len
        /\ tail = At2(Used(d) + Put(e))
    BY DEF EndsInv, IndexInv
  <1>6. \A i \in 0..Used(d)-1 : data[At2(i)] \in Items
    BY DEF EndsInv, SlotInv
  <1>7. \A i \in Used(d)..len-1 :
          data[At2(i)] # Zero => \/ i = Used(d) /\ \E p \in placing : At(p, "e:count")
                                 \/ i = len-1 /\ \E p \in taking : At(p, "d:wipe")
    <2>1. pc[e] = "e:count" => \E p \in placing : At(p, "e:count")
      BY Counts DEF Placing, At
    <2>2. pc[d] = "d:wipe" => \E p \in taking : At(p, "d:wipe")
      BY Counts DEF Taking, At
    <2> QED  BY <2>1, <2>2 DEF EndsInv, SlotInv
  <1>8. ASSUME NEW p \in Procs
        PROVE  /\ pc[p] \in {"e:size", "e:cas"} => loc[p].i = tail
               /\ Placing(p) => loc[p].i = At2(Used(d)) /\ loc[p].item \in Items
               /\ At(p, "e:count") => data[loc[p].i] = loc[p].item
               /\ pc[p] \in {"e:cas"} => Used(d) + Got(d) < len
               /\ pc[p] \in {"d:size", "d:item", "d:cas"} => loc[p].i = head /\ Used(d) > 0
               /\ At(p, "d:cas") => loc[p].item = data[head]
               /\ Taking(p) => loc[p].i = At2(len - 1) /\ loc[p].item \in Items
    <2>1. /\ pc[p] \in EnqAt => p = e /\ loc[p].item \in Items
          /\ pc[p] \in DeqAt => p = d
      BY DEF EndsInv, EndInv
    <2>2. size = Used(d) + Got(d)
      BY Counts
    <2> HIDE DEF Used, Got
    <2> QED  BY <2>1, <2>2 DEF EndsInv, ProducerInv, ConsumerInv, EnqAt, DeqAt, Placing, Taking, At
  <1> HIDE DEF placing, taking
  <1> QED
    BY <1>3, <1>4, <1>t, <1>5, <1>6, <1>7, <1>8 DEF SpscInv, At2, placing, taking

(* With one goroutine at each end of a bounded queue that nobody clears,   *)
(* the indices, the size, the slots and what both have loaded agree at     *)
(* every access, and so no compare-and-swap fails.                         *)
THEOREM SpscProved ==
  ASSUME NEW e, NEW d, Ends(e, d)
  PROVE  Spec => []SpscInv
  <1>1. Init => EndsInv(e, d) /\ LoadInv
    BY EndsInit
  <1>2. EndsInv(e, d) /\ LoadInv /\ [Next]_vars => (EndsInv(e, d) /\ LoadInv)'
    <2>1. EndsInv(e, d) /\ LoadInv /\ [Next]_vars => EndsInv(e, d)' /\ LoadInv'
      BY EndsStep
    <2> QED  BY <2>1
  <1>3. EndsInv(e, d) /\ LoadInv => SpscInv
    BY EndsImply
  <1> QED  BY <1>1, <1>2, <1>3, PTL DEF Spec

-----------------------------------------------------------------------------
(* The queue's contents                                                    *)

(* Sequences put together from their head. *)
LEMMA Cons ==
  ASSUME NEW S, NEW x \in S, NEW y \in S, NEW s \in Seq(S)
  PROVE  /\ <<x>> \o s \in Seq(S) /\ Len(<<x>> \o s) = Len(s) + 1 /\ <<x>> \o s # <<>>
         /\ Head(<<x>> \o s) = x /\ Tail(<<x>> \o s) = s
         /\ Append(<<x>> \o s, y) = <<x>> \o Append(s, y)
         /\ s # <<>> => <<Head(s)>> \o Tail(s) = s
  OBVIOUS

(* The elements that are counted and not taken, and all that are counted. *)
Rest(d)  == Window(data, head, Used(d), len)
Whole(d) == IF Taking(d) THEN <<loc[d].item>> \o Rest(d) ELSE Rest(d)

LEMMA ContentsWhole ==
  ASSUME NEW e, NEW d, Ends(e, d)
  PROVE  EndsInv(e, d) => Contents = Whole(d)
  <1> SUFFICES ASSUME EndsInv(e, d)  PROVE Contents = Whole(d)
    OBVIOUS
  <1>1. /\ ~\E p \in Procs : pc[p] \in {"c:head0", "c:tail0", "c:size0"}
        /\ ~\E p \in Procs : pc[p] \in {"x:tail", "x:data"}
    BY DEF EndsInv, EndInv, Places, EnqAt, DeqAt, ReaderAt
  <1>2. (\E p \in Procs : Taking(p)) <=> Taking(d)
    BY Counts DEF EndsInv, EndInv, Taking, DeqAt
  <1>3. Taking(d) => Only({"d:wipe", "d:count"}) = d
    <2>1. Taking(d) => /\ d \in Procs /\ pc[d] \in {"d:wipe", "d:count"}
                       /\ \A p \in Procs : pc[p] \in {"d:wipe", "d:count"} => p = d
      BY Counts DEF EndsInv, EndInv, Taking, DeqAt
    <2> QED  BY <2>1 DEF Only
  <1>4. Taking(d) => Used(d) = size - 1
    BY DEF Used, Got
  <1>5. ~Taking(d) => Used(d) = size
    <2>1. ~Taking(d) => Used(d) = size - 0
      BY DEF Used, Got
    <2> QED  BY <2>1, Counts
  <1>6. CASE Taking(d)
    <2>1. Contents = <<loc[Only({"d:wipe", "d:count"})].item>> \o Window(data, head, size - 1, len)
      BY <1>1, <1>2, <1>6 DEF Contents
    <2> QED  BY <1>3, <1>4, <1>6, <2>1 DEF Whole, Rest
  <1>7. CASE ~Taking(d)
    <2>1. Contents = Window(data, head, size, len)
      BY <1>1, <1>2, <1>7 DEF Contents
    <2> QED  BY <1>5, <1>7, <2>1 DEF Whole, Rest
  <1> QED  BY <1>6, <1>7

LEMMA ContentsNext ==
  ASSUME NEW e, NEW d, Ends(e, d)
  PROVE  EndsInv(e, d)' => Contents' = Whole(d)'
  <1>1. EndsInv(e, d) => Contents = Whole(d)
    BY ContentsWhole
  <1>2. (EndsInv(e, d) => Contents = Whole(d))'
    BY <1>1, PTL
  <1> QED  BY <1>2

(* The contents are as long as the size says. *)
LEMMA WholeSize ==
  ASSUME NEW e, NEW d, Ends(e, d), EndsInv(e, d)
  PROVE  /\ Rest(d) \in Seq(Slot) /\ Len(Rest(d)) = Used(d)
         /\ Used(d) > 0 => Rest(d) # <<>> /\ Head(Rest(d)) = data[head]
         /\ Whole(d) \in Seq(Slot) /\ Len(Whole(d)) = size
         /\ (Whole(d) = <<>>) <=> (size = 0)
  <1>1. IsRing(Slot, data, head, Used(d), len)
    BY Counts DEF IsRing
  <1>2. /\ Rest(d) \in Seq(Slot) /\ Len(Rest(d)) = Used(d)
        /\ (Rest(d) = <<>>) <=> (Used(d) = 0)
    BY <1>1, WindowSeq DEF Rest
  <1>3. Used(d) > 0 => Head(Rest(d)) = data[head]
    BY <1>1, WindowHead DEF Rest
  <1>4. Used(d) \in Nat /\ size = Used(d) + Got(d)
    BY Counts
  <1>5. CASE Taking(d)
    <2>1. loc[d].item \in Slot
      BY <1>5, Counts DEF EndsInv, ConsumerInv, Slot
    <2>2. /\ Whole(d) \in Seq(Slot) /\ Len(Whole(d)) = Used(d) + 1 /\ Whole(d) # <<>>
      BY <1>2, <1>5, <2>1, Cons DEF Whole
    <2>3. size = Used(d) + 1
      BY <1>4, <1>5 DEF Got
    <2> QED  BY <1>2, <1>3, <1>4, <2>2, <2>3
  <1>6. CASE ~Taking(d)
    <2>1. Whole(d) = Rest(d)
      BY <1>6 DEF Whole
    <2>2. size = Used(d) + 0
      BY <1>4, <1>6 DEF Got
    <2> QED  BY <1>2, <1>3, <1>4, <2>1, <2>2
  <1> QED  BY <1>5, <1>6

LEMMA WholeLooks ==
  ASSUME NEW e, NEW d, Ends(e, d), EndsInv(e, d), NEW p \in Procs, CallStep(p), ~RingStep(p)
  PROVE  Whole(d)' = Whole(d)
  <1>1. /\ UNCHANGED head /\ UNCHANGED tail /\ UNCHANGED size /\ UNCHANGED data /\ UNCHANGED len
        /\ \A q \in Procs :
              pc[q] \in Movers \/ pc'[q] \in Movers => pc'[q] = pc[q] /\ loc'[q] = loc[q]
    BY Looks DEF EndsInv
  <1>2. (Taking(d)' <=> Taking(d)) /\ (Taking(d) => loc'[d] = loc[d])
    BY <1>1, Counts DEF Taking, Movers
  <1>3. Used(d)' = Used(d)
    BY <1>1, <1>2 DEF Used, Got
  <1>4. Rest(d)' = Rest(d)
    BY <1>1, <1>3 DEF Rest
  <1> QED  BY <1>2, <1>4 DEF Whole

(* Of the steps on the ring, the two that count change the contents. *)
LEMMA WholeEnqCas ==
  ASSUME NEW e, NEW d, Ends(e, d), EndsInv(e, d), EnqCas(e)
  PROVE  Whole(d)' = Whole(d)
  <1>1. /\ pc[e] = "e:cas" /\ loc' = loc /\ head' = head /\ data' = data /\ size' = size
        /\ len' = len
    BY DEF EnqCas, At
  <1>2. pc'[e] \in {"e:write", "e:tail"} /\ (d # e => pc'[d] = pc[d])
    BY Counts DEF EnqCas, Goto
  <1>3. Taking(d)' <=> Taking(d)
    BY <1>1, <1>2 DEF Taking
  <1> QED  BY <1>1, <1>3 DEF Whole, Rest, Used, Got

LEMMA WholeEnqWrite ==
  ASSUME NEW e, NEW d, Ends(e, d), EndsInv(e, d), EnqWrite(e)
  PROVE  Whole(d)' = Whole(d)
  <1>1. pc[e] = "e:write" /\ loc[e].i = At2(Used(d))
    BY DEF EnqWrite, At, EndsInv, ProducerInv, Placing
  <1>2. /\ pc' = [pc EXCEPT ![e] = "e:count"]
        /\ data' = [data EXCEPT ![At2(Used(d))] = loc[e].item]
        /\ len' = len /\ head' = head /\ size' = size /\ loc' = loc
    BY <1>1 DEF EnqWrite, Goto
  <1>3. Taking(d)' <=> Taking(d)
    BY <1>1, <1>2, Counts DEF Taking
  <1>4. Used(d)' = Used(d)
    BY <1>2, <1>3 DEF Used, Got
  <1>5. Put(e) = 1 /\ Used(d) \in 0..len-1
    <2>1. Put(e) = 1
      BY <1>1 DEF Put, Placing
    <2> QED  BY <2>1, Counts
  <1>6. \A i \in 1..Used(d) : data'[(head + i - 1) % len] = data[(head + i - 1) % len]
    <2> SUFFICES ASSUME NEW i \in 1..Used(d)
                 PROVE  data'[(head + i - 1) % len] = data[(head + i - 1) % len]
      OBVIOUS
    <2>1. i - 1 \in 0..len-1 /\ i - 1 # Used(d) /\ head + i - 1 = head + (i - 1)
      BY <1>5, Counts
    <2>2. At2(i - 1) # At2(Used(d)) /\ At2(i - 1) \in 0..len-1
      BY <1>5, <2>1, Slots
    <2>3. data'[At2(i - 1)] = data[At2(i - 1)]
      BY <1>2, <2>2, Counts
    <2> QED  BY <2>1, <2>3 DEF At2
  <1>7. Rest(d)' = Rest(d)
    BY <1>2, <1>4, <1>6 DEF Rest, Window
  <1> QED  BY <1>2, <1>3, <1>7 DEF Whole

LEMMA WholeEnqCount ==
  ASSUME NEW e, NEW d, Ends(e, d), EndsInv(e, d), EnqCount(e)
  PROVE  Whole(d)' = Append(Whole(d), loc[e].item)
  <1>1. /\ pc[e] = "e:count" /\ loc[e].i = At2(Used(d)) /\ loc[e].item \in Items
        /\ data[loc[e].i] = loc[e].item
    BY Counts DEF EnqCount, At, EndsInv, ProducerInv, EndInv, EnqAt, Placing
  <1>2. /\ pc' = [pc EXCEPT ![e] = "s:lock"] /\ loc' = [loc EXCEPT ![e] = NoLocal]
        /\ data' = data /\ len' = len /\ head' = head /\ size' = size + 1
    BY DEF EnqCount, Return, Goto
  <1>3. (Taking(d)' <=> Taking(d)) /\ (Taking(d) => loc'[d] = loc[d])
    BY <1>1, <1>2, Counts DEF Taking
  <1>4. Used(d)' = Used(d) + 1
    BY <1>2, <1>3, Counts DEF Used, Got
  <1>5. Put(e) = 1 /\ Used(d) \in 0..len-1
    <2>1. Put(e) = 1
      BY <1>1 DEF Put, Placing
    <2> QED  BY <2>1, Counts
  <1>6. Rest(d)' = Append(Rest(d), loc[e].item)
    <2>1. IsRing(Slot, data, head, Used(d), len) /\ loc[e].item \in Slot
      BY <1>1, Counts DEF IsRing, Slot
    <2>2. Write(data, (head + Used(d)) % len, loc[e].item) = data
      BY <1>1, Counts DEF Write, At2
    <2>3. Window(data, head, Used(d) + 1, len)
            = Append(Window(data, head, Used(d), len), loc[e].item)
      <3> HIDE DEF Used
      <3>1. Used(d) < len
        BY <1>5, Counts
      <3>2. Window(Write(data, (head + Used(d)) % len, loc[e].item), head, Used(d) + 1, len)
              = Append(Window(data, head, Used(d), len), loc[e].item)
        BY <2>1, <3>1, WindowAppend
      <3> QED  BY <2>2, <3>2
    <2> QED  BY <1>2, <1>4, <2>3 DEF Rest
  <1>7. CASE Taking(d)
    <2>1. loc[d].item \in Slot /\ loc[e].item \in Slot /\ Rest(d) \in Seq(Slot)
      BY <1>1, <1>7, WholeSize DEF EndsInv, ConsumerInv, Slot
    <2>2. Append(<<loc[d].item>> \o Rest(d), loc[e].item)
            = <<loc[d].item>> \o Append(Rest(d), loc[e].item)
      BY <2>1, Cons
    <2> QED  BY <1>3, <1>6, <1>7, <2>2 DEF Whole
  <1>8. CASE ~Taking(d)
    BY <1>3, <1>6, <1>8 DEF Whole
  <1> QED  BY <1>7, <1>8

LEMMA WholeDeqCas ==
  ASSUME NEW e, NEW d, Ends(e, d), EndsInv(e, d), DeqCas(d)
  PROVE  Whole(d)' = Whole(d)
  <1>1. /\ pc[d] = "d:cas" /\ loc[d].i = head /\ Used(d) > 0 /\ loc[d].n = len
        /\ loc[d].item = data[head]
    BY Counts DEF DeqCas, At, EndsInv, ConsumerInv, SeatInv
  <1>2. /\ pc' = [pc EXCEPT ![d] = "d:wipe"] /\ head' = (head + 1) % len
        /\ data' = data /\ len' = len /\ size' = size /\ loc' = loc
    BY <1>1 DEF DeqCas, Goto
  <1>3. Taking(d)' /\ ~Taking(d)
    BY <1>1, <1>2, Counts DEF Taking
  <1>4. Used(d)' = Used(d) - 1
    BY <1>2, <1>3, Counts DEF Used, Got
  <1>5. Rest(d)' = Tail(Rest(d))
    <2>1. IsRing(Slot, data, head, Used(d), len) /\ data[head] \in Slot
      BY Counts DEF IsRing
    <2>2. Write(data, head, data[head]) = data
      BY Counts DEF Write
    <2>3. Window(Write(data, head, data[head]), (head + 1) % len, Used(d) - 1, len)
            = Tail(Window(data, head, Used(d), len))
      <3> HIDE DEF Used
      <3> QED  BY <1>1, <2>1, WindowTail
    <2> QED  BY <1>2, <1>4, <2>2, <2>3 DEF Rest
  <1>6. Rest(d) \in Seq(Slot) /\ Rest(d) # <<>> /\ Head(Rest(d)) = data[head]
    BY <1>1, WholeSize
  <1>7. data[head] \in Slot
    BY Counts
  <1>8. <<data[head]>> \o Tail(Rest(d)) = Rest(d)
    BY <1>6, <1>7, Cons
  <1> QED  BY <1>1, <1>2, <1>3, <1>5, <1>8 DEF Whole

LEMMA WholeDeqWipe ==
  ASSUME NEW e, NEW d, Ends(e, d), EndsInv(e, d), DeqWipe(d)
  PROVE  Whole(d)' = Whole(d)
  <1>1. pc[d] = "d:wipe" /\ loc[d].i = At2(len - 1)
    BY DEF DeqWipe, At, EndsInv, ConsumerInv, Taking
  <1>2. /\ pc' = [pc EXCEPT ![d] = "d:count"] /\ data' = [data EXCEPT ![At2(len - 1)] = Zero]
        /\ head' = head /\ len' = len /\ size' = size /\ loc' = loc
    BY <1>1 DEF DeqWipe, Goto
  <1>3. Taking(d)' /\ Taking(d)
    BY <1>1, <1>2, Counts DEF Taking
  <1>4. Used(d)' = Used(d)
    BY <1>2, <1>3 DEF Used, Got
  <1>5. Got(d) = 1 /\ Used(d) \in 0..len-1
    <2>1. Got(d) = 1
      BY <1>3 DEF Got
    <2> QED  BY <2>1, Counts
  <1>6. \A i \in 1..Used(d) : data'[(head + i - 1) % len] = data[(head + i - 1) % len]
    <2> SUFFICES ASSUME NEW i \in 1..Used(d)
                 PROVE  data'[(head + i - 1) % len] = data[(head + i - 1) % len]
      OBVIOUS
    <2>1. /\ i - 1 \in 0..len-1 /\ i - 1 # len - 1 /\ head + i - 1 = head + (i - 1)
          /\ len - 1 \in 0..len-1
      BY <1>5, Counts
    <2>2. At2(i - 1) # At2(len - 1) /\ At2(i - 1) \in 0..len-1
      BY <2>1, Slots
    <2>3. data'[At2(i - 1)] = data[At2(i - 1)]
      BY <1>2, <2>2, Counts
    <2> QED  BY <2>1, <2>3 DEF At2
  <1>7. Rest(d)' = Rest(d)
    BY <1>2, <1>4, <1>6 DEF Rest, Window
  <1> QED  BY <1>2, <1>3, <1>7 DEF Whole

LEMMA WholeDeqCount ==
  ASSUME NEW e, NEW d, Ends(e, d), EndsInv(e, d), DeqCount(d)
  PROVE  /\ Whole(d) # <<>> /\ Whole(d)' = Tail(Whole(d)) /\ Head(Whole(d)) = loc[d].item
         /\ loc[d].item \in Items
  <1>1. pc[d] = "d:count" /\ loc[d].item \in Items /\ Taking(d)
    BY DEF DeqCount, At, EndsInv, ConsumerInv, Taking
  <1>2. /\ pc' = [pc EXCEPT ![d] = "s:lock"]
        /\ data' = data /\ len' = len /\ head' = head /\ size' = size - 1
    BY DEF DeqCount, Return, Goto
  <1>3. ~Taking(d)'
    BY <1>2, Counts DEF Taking
  <1>4. Used(d)' = Used(d)
    BY <1>1, <1>2, <1>3, Counts DEF Used, Got
  <1>5. Rest(d)' = Rest(d)
    BY <1>2, <1>4 DEF Rest
  <1>6. Rest(d) \in Seq(Slot) /\ loc[d].item \in Slot
    BY <1>1, WholeSize DEF Slot
  <1>7. /\ <<loc[d].item>> \o Rest(d) # <<>> /\ Head(<<loc[d].item>> \o Rest(d)) = loc[d].item
        /\ Tail(<<loc[d].item>> \o Rest(d)) = Rest(d)
    BY <1>6, Cons
  <1> QED  BY <1>1, <1>3, <1>5, <1>7 DEF Whole

-----------------------------------------------------------------------------
(* Who looks and who closes                                                *)

(* Only the consumer peeks; only a goroutine that is both ends closes.     *)
Turns(e, d) == Ends(e, d) /\ Peekers \subseteq {d} /\ Closers \subseteq {e} \cap {d}

(* What a peek has seen stays, and an enqueue under way sees no close.     *)
TurnInv(e, d) ==
    /\ \A p \in Procs : pc[p] \in ReaderAt \cup {"p:lock"} => p = d
    /\ pc[d] \in {"p:head", "p:item"} => size > 0
    /\ pc[d] = "p:item" => loc[d].i = head
    /\ pc[e] \in EnqAt \ {"e:closed"} => closed = FALSE

LEMMA TurnStep ==
  ASSUME NEW e, NEW d, Turns(e, d), EndsInv(e, d), TurnInv(e, d), NEW p \in Procs, CallStep(p)
  PROVE  TurnInv(e, d)'
  <1> USE DEF Turns
  <1>a. /\ e \in Procs /\ d \in Procs /\ SeatInv /\ Bounded
        /\ pc \in [Procs -> Places] /\ loc \in [Procs -> Rec(len)] /\ size \in Int
    BY Counts DEF Ends, EndsInv
  <1>b. \A q \in Procs \ {p} : pc'[q] = pc[q] /\ loc'[q] = loc[q]
    BY <1>a, OthersStay
  <1>c. /\ pc'[p] \in Places
        /\ ~EnqLock(p) /\ ~ExpandCopies(p) /\ ~ExpandHead(p) /\ ~ExpandTail(p) /\ ~ExpandData(p)
    BY <1>a, PlaceMoves DEF Ends
  <1>d. pc[p] \notin {"c:lock", "c:head", "c:wipe", "c:head0", "c:tail0", "c:size0"} /\ ~Clear(p)
    BY DEF EndsInv, EndInv, Clear, Ends
  <1>1. pc'[p] \in ReaderAt \cup {"p:lock"} => p = d
    <2>1. pc'[p] \in ReaderAt \cup {"p:lock"}
             => p \in Peekers \/ pc[p] \in ReaderAt \cup {"p:lock"}
      BY <1>a, <1>c, <1>d DEF CallStep, Enqueue, Dequeue, Begin, Peek, Close, Running, EnqueueStep,
           InsertStep, GrowStep, DequeueStep, OtherStep, StatsStep, PeekStep, ClearStep, EnqClosed,
           EnqFull, EnqTail, EnqSize, EnqCas, EnqWrite, EnqCount, DeqAny, DeqHead, DeqSize, DeqItem,
           DeqCas, DeqWipe, DeqCount, DeqClosed, PeekClosed, PeekHead, PeekItem, ClearHead,
           ClearWipe, ClearHead0, ClearTail0, ClearSize0, StatsLock, StatsUnlock, PeekSize,
           ClearSize, Return, Goto, Still, At, ReaderAt
    <2> QED  BY <2>1 DEF TurnInv
  <1>2. /\ pc'[d] \in {"p:head", "p:item"} => size' > 0
        /\ pc'[d] = "p:item" => loc'[d].i = head'
    <2>1. CASE p = d /\ PeekSize(p)
      <3>1. pc[d] = "p:lock" /\ size' = size
        BY <2>1 DEF PeekSize, At, Still, ring
      <3>2. size >= 0
        <4>1. Used(d) \in 0..len /\ Got(d) \in {0, 1} /\ size = Used(d) + Got(d)
          BY Counts
        <4> HIDE DEF Used, Got
        <4> QED  BY <4>1, Counts
      <3> QED  BY <1>a, <2>1, <3>1, <3>2 DEF PeekSize, Goto
    <2>2. CASE p = d /\ PeekHead(p)
      BY <1>a, <2>2 DEF PeekHead, At, Goto, Still, ring, TurnInv, Rec
    <2>3. CASE p = d /\ ~PeekSize(p) /\ ~PeekHead(p)
      <3>1. pc'[d] \notin {"p:head", "p:item"}
            \/ (UNCHANGED pc /\ UNCHANGED loc /\ UNCHANGED size /\ UNCHANGED head)
        BY <1>a, <1>c, <1>d, <2>3 DEF CallStep, Enqueue, Dequeue, Begin, Peek, Close, Running,
             EnqueueStep, InsertStep, GrowStep, DequeueStep, OtherStep, StatsStep, PeekStep,
             ClearStep, EnqClosed, EnqFull, EnqTail, EnqSize, EnqCas, EnqWrite, EnqCount, DeqAny,
             DeqHead, DeqSize, DeqItem, DeqCas, DeqWipe, DeqCount, DeqClosed, PeekClosed, PeekItem,
             ClearHead, ClearWipe, ClearHead0, ClearTail0, ClearSize0, StatsLock, StatsUnlock,
             PeekSize, ClearSize, Return, Goto, Still, At, ring
      <3> QED  BY <3>1 DEF TurnInv
    <2>4. CASE p # d
      <3>1. pc'[d] = pc[d] /\ loc'[d] = loc[d]
        BY <1>a, <1>b, <2>4
      <3>2. pc[p] \notin DeqAt
        BY <2>4 DEF EndsInv, EndInv
      <3>3. head' = head /\ (size' = size \/ size' = size + 1)
        BY <1>c, <1>d, <3>2 DEF CallStep, Enqueue, Dequeue, Begin, Peek, Close, Running,
             EnqueueStep, InsertStep, GrowStep, DequeueStep, OtherStep, StatsStep, PeekStep,
             ClearStep, EnqClosed, EnqFull, EnqTail, EnqSize, EnqCas, EnqWrite, EnqCount, DeqAny,
             DeqHead, DeqSize, DeqItem, DeqCas, DeqWipe, DeqCount, DeqClosed, PeekClosed, PeekHead,
             PeekItem, ClearHead, ClearWipe, ClearHead0, ClearTail0, ClearSize0, StatsLock,
             StatsUnlock, PeekSize, ClearSize, Still, At, ring, DeqAt
      <3> QED  BY <1>a, <3>1, <3>3 DEF TurnInv
    <2> QED  BY <2>1, <2>2, <2>3, <2>4
  <1>3. pc'[e] \in EnqAt \ {"e:closed"} => closed' = FALSE
    <2>1. CASE Close(p)
      BY <1>a, <2>1 DEF Close, At, EnqAt
    <2>2. CASE ~Close(p)
      <3>1. closed' = closed
        BY <1>c, <1>d, <2>2 DEF CallStep, Enqueue, Dequeue, Begin, Peek, Running, EnqueueStep,
             InsertStep, GrowStep, DequeueStep, OtherStep, StatsStep, PeekStep, ClearStep,
             EnqClosed, EnqFull, EnqTail, EnqSize, EnqCas, EnqWrite, EnqCount, DeqAny, DeqHead,
             DeqSize, DeqItem, DeqCas, DeqWipe, DeqCount, DeqClosed, PeekClosed, PeekHead, PeekItem,
             ClearHead, ClearWipe, ClearHead0, ClearTail0, ClearSize0, StatsLock, StatsUnlock,
             PeekSize, ClearSize, Still, At
      <3>2. CASE p = e /\ EnqClosed(p)
        BY <1>a, <3>1, <3>2 DEF EnqClosed, Return, Goto, EnqAt, SeatInv
      <3>3. CASE p = e /\ ~EnqClosed(p)
        <4>1. pc'[e] \in EnqAt \ {"e:closed"} => pc[e] \in EnqAt \ {"e:closed"}
          BY <1>a, <1>c, <1>d, <2>2, <3>3 DEF CallStep, Enqueue, Dequeue, Begin, Peek, Running,
               EnqueueStep, InsertStep, GrowStep, DequeueStep, OtherStep, StatsStep, PeekStep,
               ClearStep, EnqClosed, EnqFull, EnqTail, EnqSize, EnqCas, EnqWrite, EnqCount, DeqAny,
               DeqHead, DeqSize, DeqItem, DeqCas, DeqWipe, DeqCount, DeqClosed, PeekClosed,
               PeekHead, PeekItem, ClearHead, ClearWipe, ClearHead0, ClearTail0, ClearSize0,
               StatsLock, StatsUnlock, PeekSize, ClearSize, Return, Goto, Still, At, EnqAt
        <4> QED  BY <3>1, <4>1 DEF TurnInv
      <3>4. CASE p # e
        BY <1>a, <1>b, <3>1, <3>4 DEF TurnInv
      <3> QED  BY <3>2, <3>3, <3>4
    <2> QED  BY <2>1, <2>2
  <1> QED  BY <1>1, <1>2, <1>3, <1>b DEF TurnInv

-----------------------------------------------------------------------------
(* What the caller is shown                                                *)
Shown(q) == IF pc[q] = "d:closed" THEN Nothing("try_dequeue")
            ELSE IF pc[q] = "p:closed" THEN Nothing("peek") ELSE call[q]

LEMMA ResultsShown == Results = [q \in Procs |-> Shown(q)]
  BY DEF Results, Shown, At

LEMMA ResultsNext == Results' = [q \in Procs |-> Shown(q)']
  <1>1. (Results = [q \in Procs |-> Shown(q)])'
    BY ResultsShown, PTL
  <1> QED  BY <1>1

LEMMA ResultsStep ==
  ASSUME SeatInv, NEW p \in Procs, CallStep(p), closed' = closed
  PROVE  /\ Results' = [Results EXCEPT ![p] = Shown(p)']
         /\ Results[p] = Shown(p) /\ Shown(p).out \notin Fifo!Open
  <1>1. \A q \in Procs \ {p} : Shown(q)' = Shown(q)
    BY OthersStay DEF Shown, Nothing
  <1>2. Results' = [Results EXCEPT ![p] = Shown(p)']
    <2> HIDE DEF Shown
    <2> QED  BY <1>1, ResultsShown, ResultsNext
  <1>3. Shown(p).out \notin Fifo!Open
    BY DEF Shown, Nothing, Fifo!Open, SeatInv, Calls
  <1> QED  BY <1>2, <1>3, ResultsShown

(* The calls that are answered at once. *)
LEMMA Refuses ==
  ASSUME SeatInv, NEW p \in Procs, CallStep(p), closed' = closed, done' = done,
         Contents' = Contents,
         NEW x \in Items, NEW out,
         Shown(p)' = [op |-> "try_enqueue", item |-> x, ctx |-> NoCtx, out |-> out],
         \/ closed /\ out = "closed"
         \/ ~closed /\ Fifo!Full /\ out = "full"
  PROVE  Fifo!TryEnqueue(p, x)
  <1>1. /\ Results' = [Results EXCEPT ![p] = Shown(p)']
        /\ Results[p].out \notin Fifo!Open
    BY ResultsStep
  <1> HIDE DEF Contents, Results, Shown
  <1> QED  BY <1>1 DEF Fifo!TryEnqueue, Fifo!Record

LEMMA Finds ==
  ASSUME SeatInv, NEW p \in Procs, CallStep(p), closed' = closed, done' = done,
         Contents' = Contents,
         Fifo!Empty
  PROVE  /\ Shown(p)' = Nothing("try_dequeue") => Fifo!TryDequeue(p)
         /\ Shown(p)' = Nothing("peek") => Fifo!Peek(p)
  <1>1. /\ Results' = [Results EXCEPT ![p] = Shown(p)']
        /\ Results[p].out \notin Fifo!Open
    BY ResultsStep
  <1> HIDE DEF Contents, Results, Shown
  <1> QED  BY <1>1 DEF Fifo!TryDequeue, Fifo!Peek, Fifo!Record, Fifo!Nothing, Nothing

LEMMA Stutters ==
  ASSUME SeatInv, NEW p \in Procs, CallStep(p), closed' = closed, done' = done,
         Contents' = Contents,
         Shown(p)' = Shown(p)
  PROVE  UNCHANGED Fifo!vars
  <1>1. Results' = [Results EXCEPT ![p] = Shown(p)] /\ Results[p] = Shown(p)
    BY ResultsStep
  <1>2. Results' = Results
    <2> HIDE DEF Shown
    <2> QED  BY <1>1, ResultsShown
  <1> QED  BY <1>2 DEF Fifo!vars

-----------------------------------------------------------------------------
(* The refinement                                                          *)

LEMMA CallSteps ==
  ASSUME NEW e, NEW d, Turns(e, d), EndsInv(e, d), NEW p \in Procs, CallStep(p), ~Close(p)
  PROVE  closed' = closed /\ done' = done
  <1> USE DEF Turns
  <1>1. /\ ~EnqLock(p) /\ ~ExpandCopies(p) /\ ~ExpandHead(p) /\ ~ExpandTail(p) /\ ~ExpandData(p)
    BY PlaceMoves DEF Ends, EndsInv
  <1>2. pc[p] \notin {"c:lock", "c:head", "c:wipe", "c:head0", "c:tail0", "c:size0"} /\ ~Clear(p)
    BY DEF EndsInv, EndInv, Clear, Ends
  <1> QED
    BY <1>1, <1>2 DEF CallStep, Enqueue, Dequeue, Begin, Peek, Running, EnqueueStep, InsertStep,
         GrowStep, DequeueStep, OtherStep, StatsStep, PeekStep, ClearStep, EnqClosed, EnqFull,
         EnqTail, EnqSize, EnqCas, EnqWrite, EnqCount, DeqAny, DeqHead, DeqSize, DeqItem, DeqCas,
         DeqWipe, DeqCount, DeqClosed, PeekClosed, PeekHead, PeekItem, ClearHead, ClearWipe,
         ClearHead0, ClearTail0, ClearSize0, StatsLock, StatsUnlock, PeekSize, ClearSize, Still, At

(* The calls that look and come back, or go on. *)
LEMMA LookImplements ==
  ASSUME NEW e, NEW d, Turns(e, d), EndsInv(e, d), TurnInv(e, d), NEW p \in Procs, CallStep(p),
         ~RingStep(p), ~Close(p), Contents' = Contents, closed' = closed, done' = done
  PROVE  Fifo!Next \/ UNCHANGED Fifo!vars
  <1> USE DEF Turns
  <1>a. /\ e \in Procs /\ d \in Procs /\ SeatInv /\ Bounded
        /\ pc \in [Procs -> Places] /\ loc \in [Procs -> Rec(len)]
        /\ call \in [Procs -> Calls] /\ closed \in BOOLEAN
    BY Counts DEF Ends, EndsInv, SeatInv
  <1>b. /\ ~EnqLock(p) /\ ~ExpandCopies(p) /\ ~ExpandHead(p) /\ ~ExpandTail(p) /\ ~ExpandData(p)
    BY <1>a, PlaceMoves DEF Ends
  <1>c. pc[p] \notin {"c:lock", "c:head", "c:wipe", "c:head0", "c:tail0", "c:size0"} /\ ~Clear(p)
    BY DEF EndsInv, EndInv, Clear, Ends
  <1>d. Contents = Whole(d) /\ Len(Contents) = size /\ ((Contents = <<>>) <=> (size = 0))
    <2>1. Contents = Whole(d)
      BY ContentsWhole
    <2>2. Len(Whole(d)) = size /\ ((Whole(d) = <<>>) <=> (size = 0))
      BY WholeSize
    <2> QED  BY <2>1, <2>2
  <1>e. (Overfull <=> Fifo!Full) /\ ((size = 0) <=> Fifo!Empty)
    <2> HIDE DEF Contents
    <2> QED  BY <1>d DEF Overfull, Fifo!Full, Fifo!Empty
  <1>f. pc[p] \in EnqAt => p = e /\ loc[p].item \in Items
    BY DEF EndsInv, EndInv
  <1>1. ASSUME NEW x \in Items, NEW c \in Ctx \cup {NoCtx}, Enqueue(p, x, c)
        PROVE  Fifo!Invoke(p, "enqueue", x, c) \/ UNCHANGED Fifo!vars
    <2>1. CASE c \in done
      <3>1. Shown(p)' = [op |-> "enqueue", item |-> x, ctx |-> c, out |-> "cancelled"]
        BY <1>1, <1>a, <2>1 DEF Enqueue, Begin, At, Shown
      <3>2. Results' = [Results EXCEPT ![p] = Shown(p)'] /\ Results[p].out \notin Fifo!Open
        BY <1>a, ResultsStep
      <3> HIDE DEF Contents, Results, Shown
      <3> QED  BY <2>1, <3>1, <3>2 DEF Fifo!Invoke
    <2>2. CASE c \notin done
      <3>1. Shown(p)' = Shown(p)
        BY <1>1, <1>a, <2>2 DEF Enqueue, Begin, At, Goto, Shown
      <3> QED  BY <1>a, <3>1, Stutters
    <2> QED  BY <2>1, <2>2
  <1>2. ASSUME NEW c \in Ctx \cup {NoCtx}, Dequeue(p, c)
        PROVE  Fifo!Invoke(p, "dequeue", Zero, c) \/ UNCHANGED Fifo!vars
    <2>1. CASE c \in done
      <3>1. Shown(p)' = [op |-> "dequeue", item |-> Zero, ctx |-> c, out |-> "cancelled"]
        BY <1>2, <1>a, <2>1 DEF Dequeue, Begin, At, Shown
      <3>2. Results' = [Results EXCEPT ![p] = Shown(p)'] /\ Results[p].out \notin Fifo!Open
        BY <1>a, ResultsStep
      <3> HIDE DEF Contents, Results, Shown
      <3> QED  BY <2>1, <3>1, <3>2 DEF Fifo!Invoke
    <2>2. CASE c \notin done
      <3>1. Shown(p)' = Shown(p)
        BY <1>2, <1>a, <2>2 DEF Dequeue, Begin, At, Goto, Shown
      <3> QED  BY <1>a, <3>1, Stutters
    <2> QED  BY <2>1, <2>2
  <1>3. CASE EnqClosed(p)
    <2>1. pc[p] = "e:closed" /\ loc[p].item \in Items
      BY <1>3, <1>f DEF EnqClosed, At, EnqAt
    <2>2. CASE closed
      <3>1. Shown(p)' = [op |-> "try_enqueue", item |-> loc[p].item, ctx |-> NoCtx,
                         out |-> "closed"]
        BY <1>3, <1>a, <2>2 DEF EnqClosed, Return, Goto, Shown
      <3> QED  BY <1>a, <2>1, <2>2, <3>1, Refuses DEF Fifo!Next
    <2>3. CASE ~closed
      <3>1. Shown(p)' = Shown(p)
        BY <1>3, <1>a, <2>1, <2>3 DEF EnqClosed, Goto, Shown
      <3> QED  BY <1>a, <3>1, Stutters
    <2> QED  BY <2>2, <2>3
  <1>4. CASE EnqFull(p) \/ EnqSize(p)
    <2>1. pc[p] \in {"e:full", "e:size"} /\ loc[p].item \in Items /\ ~closed
      BY <1>4, <1>f DEF EnqFull, EnqSize, At, EnqAt, TurnInv
    <2>2. CASE Overfull
      <3>1. ~TooShort
        BY <2>2 DEF Overfull, TooShort
      <3>2. Shown(p)' = [op |-> "try_enqueue", item |-> loc[p].item, ctx |-> NoCtx,
                         out |-> "full"]
        BY <1>4, <1>a, <2>2, <3>1 DEF EnqFull, EnqSize, Return, Goto, Shown
      <3> QED  BY <1>a, <1>e, <2>1, <2>2, <3>2, Refuses DEF Fifo!Next
    <2>3. CASE ~Overfull
      <3>1. pc'[p] \notin {"d:closed", "p:closed"} /\ call' = call
        <4>1. ~TooShort
          BY <1>a DEF Bounded, TooShort
        <4> QED  BY <1>4, <1>a, <2>3, <4>1 DEF EnqFull, EnqSize, Goto
      <3>2. Shown(p)' = Shown(p)
        BY <2>1, <3>1 DEF Shown
      <3> QED  BY <1>a, <3>2, Stutters
    <2> QED  BY <2>2, <2>3
  <1>5. CASE DeqAny(p) \/ DeqSize(p) \/ PeekSize(p)
    <2>1. pc[p] \in {"d:any", "d:size", "p:lock"} /\ call' = call
      BY <1>5 DEF DeqAny, DeqSize, PeekSize, At, Still
    <2>2. CASE size = 0
      <3>1. Shown(p)' = IF PeekSize(p) THEN Nothing("peek") ELSE Nothing("try_dequeue")
        <4>1. pc'[p] = IF PeekSize(p) THEN "p:closed" ELSE "d:closed"
          <5>1. CASE PeekSize(p)
            BY <1>a, <2>2, <5>1 DEF PeekSize, Goto
          <5>2. CASE ~PeekSize(p)
            BY <1>5, <1>a, <2>2, <5>2 DEF DeqAny, DeqSize, Goto
          <5> QED  BY <5>1, <5>2
        <4>2. Nothing("peek")' = Nothing("peek") /\ Nothing("try_dequeue")' = Nothing("try_dequeue")
          BY DEF Nothing
        <4> QED  BY <4>1, <4>2 DEF Shown
      <3>2. Fifo!TryDequeue(p) \/ Fifo!Peek(p)
        BY <1>a, <1>e, <2>2, <3>1, Finds
      <3> QED  BY <3>2 DEF Fifo!Next
    <2>3. CASE size # 0
      <3>1. pc'[p] \notin {"d:closed", "p:closed"}
        BY <1>5, <1>a, <2>3 DEF DeqAny, DeqSize, PeekSize, Goto
      <3>2. Shown(p)' = Shown(p)
        BY <2>1, <3>1 DEF Shown
      <3> QED  BY <1>a, <3>2, Stutters
    <2> QED  BY <2>2, <2>3
  <1>6. CASE DeqClosed(p) \/ PeekClosed(p)
    <2>1. Shown(p)' = Shown(p)
      <3>1. CASE DeqClosed(p)
        BY <1>a, <3>1 DEF DeqClosed, Return, Goto, At, Shown, Nothing
      <3>2. CASE PeekClosed(p)
        BY <1>a, <3>2 DEF PeekClosed, Return, Goto, At, Shown, Nothing
      <3> QED  BY <1>6, <3>1, <3>2
    <2> QED  BY <1>a, <2>1, Stutters
  <1>7. CASE PeekItem(p)
    <2>1. p = d /\ pc[p] = "p:item" /\ size > 0 /\ loc[d].i = head
      BY <1>7 DEF PeekItem, At, TurnInv, ReaderAt
    <2>2. ~Taking(d) /\ Used(d) > 0
      <3>1. ~Taking(d)
        BY <2>1 DEF Taking
      <3>2. Used(d) = size - 0
        BY <3>1 DEF Used, Got
      <3> QED  BY <2>1, <3>1, <3>2, Counts
    <2>3. Head(Contents) = data[head] /\ Contents # <<>>
      <3>1. Contents = Rest(d)
        BY <1>d, <2>2 DEF Whole
      <3> QED  BY <2>2, <3>1, WholeSize
    <2>4. Shown(p)' = [op |-> "peek", item |-> data[head], ctx |-> NoCtx, out |-> "ok"]
      BY <1>7, <1>a, <2>1 DEF PeekItem, Return, Goto, Shown
    <2>5. Results' = [Results EXCEPT ![p] = Shown(p)'] /\ Results[p].out \notin Fifo!Open
      BY <1>a, ResultsStep
    <2>6. Fifo!Peek(p)
      <3> HIDE DEF Contents, Results, Shown
      <3> QED  BY <2>3, <2>4, <2>5 DEF Fifo!Peek, Fifo!Record, Fifo!Empty
    <2> QED  BY <2>6 DEF Fifo!Next
  <1>8. CASE EnqTail(p) \/ DeqHead(p) \/ DeqItem(p) \/ PeekHead(p)
    <2>1. Shown(p)' = Shown(p)
      BY <1>8, <1>a DEF EnqTail, DeqHead, DeqItem, PeekHead, Goto, At, Still, Shown
    <2> QED  BY <1>a, <2>1, Stutters
  <1>9. CASE Peek(p) \/ StatsLock(p) \/ StatsUnlock(p)
    <2>1. Shown(p)' = Shown(p)
      BY <1>9, <1>a DEF Peek, StatsLock, StatsUnlock, Goto, At, Still, Shown
    <2> QED  BY <1>a, <2>1, Stutters
  <1> QED
    <2>1. CASE \E x \in Items, c \in Ctx \cup {NoCtx} : Enqueue(p, x, c)
      BY <1>1, <2>1 DEF Fifo!Next
    <2>2. CASE \E c \in Ctx \cup {NoCtx} : Dequeue(p, c)
      BY <1>2, <2>2 DEF Fifo!Next
    <2>3. CASE Peek(p)
      BY <1>9, <2>3
    <2>4. CASE Running(p)
      <3>1. \/ EnqClosed(p) \/ EnqFull(p) \/ EnqSize(p) \/ DeqAny(p) \/ DeqSize(p) \/ DeqClosed(p)
            \/ StatsLock(p) \/ StatsUnlock(p) \/ PeekSize(p)
            \/ PeekClosed(p) \/ PeekItem(p) \/ EnqTail(p) \/ DeqHead(p) \/ DeqItem(p) \/ PeekHead(p)
        BY <1>b, <1>c, <2>4 DEF Running, RingStep, EnqueueStep, InsertStep, GrowStep, DequeueStep,
             OtherStep, StatsStep, PeekStep, ClearStep, ClearHead, ClearWipe, ClearHead0,
             ClearTail0, ClearSize0, ClearSize, At
      <3> QED  BY <3>1, <1>3, <1>4, <1>5, <1>6, <1>7, <1>8, <1>9
    <2> QED  BY <1>c, <2>1, <2>2, <2>3, <2>4 DEF CallStep

LEMMA RingImplements ==
  ASSUME NEW e, NEW d, Turns(e, d), EndsInv(e, d), TurnInv(e, d), NEW p \in Procs, RingStep(p),
         CallStep(p), Contents' = Whole(d)', closed' = closed, done' = done
  PROVE  Fifo!Next \/ UNCHANGED Fifo!vars
  <1> USE DEF Turns
  <1>a. /\ e \in Procs /\ d \in Procs /\ SeatInv /\ Bounded /\ len = Capacity /\ Capacity > 0
        /\ pc \in [Procs -> Places] /\ call \in [Procs -> Calls]
    BY Counts DEF Ends, EndsInv, SeatInv, Bounded
  <1>b. EnqCas(p) \/ EnqWrite(p) \/ EnqCount(p) => p = e
    BY DEF EnqCas, EnqWrite, EnqCount, At, EndsInv, EndInv, EnqAt
  <1>c. DeqCas(p) \/ DeqWipe(p) \/ DeqCount(p) => p = d
    BY DEF DeqCas, DeqWipe, DeqCount, At, EndsInv, EndInv, DeqAt
  <1>d. Contents = Whole(d)
    BY ContentsWhole
  <1>e. Results' = [Results EXCEPT ![p] = Shown(p)'] /\ Results[p].out \notin Fifo!Open
    BY <1>a, ResultsStep
  <1>1. CASE EnqCas(p) \/ EnqWrite(p) \/ DeqCas(p) \/ DeqWipe(p)
    <2>1. Contents' = Contents
      BY <1>1, <1>b, <1>c, <1>d, WholeEnqCas, WholeEnqWrite, WholeDeqCas, WholeDeqWipe
    <2>2. Shown(p)' = Shown(p)
      BY <1>1, <1>a DEF EnqCas, EnqWrite, DeqCas, DeqWipe, Goto, At, Shown
    <2> QED  BY <1>a, <2>1, <2>2, Stutters
  <1>2. CASE EnqCount(p)
    <2>1. p = e /\ pc[e] = "e:count" /\ loc[e].item \in Items /\ ~closed
      BY <1>2, <1>b DEF EnqCount, At, EndsInv, EndInv, EnqAt, TurnInv
    <2>2. Contents' = Append(Contents, loc[e].item)
      BY <1>2, <1>d, <2>1, WholeEnqCount
    <2>3. Len(Contents) < Capacity
      <3>1. Len(Contents) = size
        BY <1>d, WholeSize
      <3>2. Put(e) = 1
        BY <2>1 DEF Put, Placing
      <3>3. Used(d) + 1 + Got(d) <= len /\ size = Used(d) + Got(d) /\ Used(d) \in 0..len
            /\ Got(d) \in {0, 1} /\ len \in Nat
        BY <3>2, Counts
      <3> HIDE DEF Used, Got, Contents
      <3> QED  BY <1>a, <3>1, <3>3
    <2>4. Shown(p)' = [op |-> "try_enqueue", item |-> loc[e].item, ctx |-> NoCtx, out |-> "ok"]
      BY <1>2, <1>a, <2>1 DEF EnqCount, Return, Goto, Shown
    <2>5. Len(Contents) \in Nat /\ Capacity \in Nat
      BY <1>d, WholeSize, Consts DEF Ends
    <2>6. Fifo!TryEnqueue(p, loc[e].item)
      <3> HIDE DEF Contents, Results, Shown
      <3> QED  BY <1>a, <1>e, <2>1, <2>2, <2>3, <2>4, <2>5
                DEF Fifo!TryEnqueue, Fifo!Record, Fifo!Full
    <2> QED  BY <2>1, <2>6 DEF Fifo!Next
  <1>3. CASE DeqCount(p)
    <2>1. p = d
      BY <1>3, <1>c
    <2>2. /\ Contents # <<>> /\ Contents' = Tail(Contents) /\ Head(Contents) = loc[d].item
      BY <1>3, <1>d, <2>1, WholeDeqCount
    <2>3. Shown(p)' = [op |-> "try_dequeue", item |-> loc[d].item, ctx |-> NoCtx, out |-> "ok"]
      BY <1>3, <1>a, <2>1 DEF DeqCount, Return, Goto, Shown
    <2>4. Fifo!TryDequeue(p)
      <3> HIDE DEF Contents, Results, Shown
      <3> QED  BY <1>e, <2>2, <2>3 DEF Fifo!TryDequeue, Fifo!Record, Fifo!Empty
    <2> QED  BY <2>4 DEF Fifo!Next
  <1> QED  BY <1>1, <1>2, <1>3 DEF RingStep

LEMMA StepImplements ==
  ASSUME NEW e, NEW d, Turns(e, d), EndsInv(e, d), LoadInv, TurnInv(e, d), [Next]_vars
  PROVE  (Fifo!Next \/ UNCHANGED Fifo!vars) /\ TurnInv(e, d)'
  <1> USE DEF Turns
  <1>a. EndsInv(e, d)'
    BY EndsStep
  <1>b. Contents = Whole(d) /\ Contents' = Whole(d)'
    BY <1>a, ContentsWhole, ContentsNext
  <1>1. CASE UNCHANGED vars
    <2>1. UNCHANGED data /\ UNCHANGED len /\ UNCHANGED head /\ UNCHANGED size /\ UNCHANGED closed
          /\ UNCHANGED pc /\ UNCHANGED loc /\ UNCHANGED call /\ UNCHANGED done
      BY <1>1 DEF vars, ring
    <2>2. Contents' = Contents
      BY <1>b, <2>1 DEF Whole, Rest, Used, Got, Taking
    <2>3. Results' = Results
      BY <2>1, ResultsShown, ResultsNext DEF Shown, Nothing
    <2>4. TurnInv(e, d)'
      BY <2>1 DEF TurnInv
    <2> QED  BY <2>1, <2>2, <2>3, <2>4 DEF Fifo!vars
  <1>2. ASSUME NEW c \in Ctx, Cancel(c)
        PROVE  Fifo!Next /\ TurnInv(e, d)'
    <2>1. UNCHANGED data /\ UNCHANGED len /\ UNCHANGED head /\ UNCHANGED size /\ UNCHANGED closed
          /\ UNCHANGED pc /\ UNCHANGED loc /\ UNCHANGED call /\ done' = done \cup {c}
      BY <1>2 DEF Cancel, ring
    <2>2. Contents' = Contents
      BY <1>b, <2>1 DEF Whole, Rest, Used, Got, Taking
    <2>3. Results' = Results
      BY <2>1, ResultsShown, ResultsNext DEF Shown, Nothing
    <2>4. TurnInv(e, d)'
      BY <2>1 DEF TurnInv
    <2>5. Fifo!Cancel(c)
      BY <2>1, <2>2, <2>3 DEF Fifo!Cancel
    <2> QED  BY <2>4, <2>5 DEF Fifo!Next
  <1>3. ASSUME NEW p \in Procs, CallStep(p)
        PROVE  (Fifo!Next \/ UNCHANGED Fifo!vars) /\ TurnInv(e, d)'
    <2>1. TurnInv(e, d)'
      BY <1>3, TurnStep
    <2>2. CASE Close(p)
      <3>1. p = e /\ p = d /\ pc[d] = "idle" /\ closed' = TRUE /\ d \in Procs
        BY <2>2 DEF Close, At
      <3>2. UNCHANGED data /\ UNCHANGED len /\ UNCHANGED head /\ UNCHANGED size
            /\ UNCHANGED pc /\ UNCHANGED loc /\ UNCHANGED call /\ UNCHANGED done
        BY <2>2 DEF Close, ring
      <3>3. Contents' = Contents
        BY <1>b, <3>2 DEF Whole, Rest, Used, Got, Taking
      <3>4. \A q \in Procs : pc[q] \notin {"d:closed", "p:closed"}
        BY <3>1 DEF EndsInv, EndInv, TurnInv, DeqAt, ReaderAt
      <3>5. Results' = Results
        BY <3>2, <3>4, ResultsShown, ResultsNext DEF Shown
      <3>6. Fifo!Close
        BY <3>1, <3>2, <3>3, <3>5 DEF Fifo!Close
      <3> QED  BY <2>1, <3>6 DEF Fifo!Next
    <2>3. CASE ~Close(p)
      <3>1. closed' = closed /\ done' = done
        BY <1>3, <2>3, CallSteps
      <3>2. CASE RingStep(p)
        BY <1>3, <1>b, <2>1, <3>1, <3>2, RingImplements
      <3>3. CASE ~RingStep(p)
        <4>1. Contents' = Contents
          BY <1>3, <1>b, <3>3, WholeLooks
        <4> QED  BY <1>3, <2>1, <2>3, <3>1, <3>3, <4>1, LookImplements
      <3> QED  BY <3>2, <3>3
    <2> QED  BY <2>2, <2>3
  <1> QED  BY <1>1, <1>2, <1>3, StepCases

(* With one producer, and one consumer that alone peeks, a bounded queue   *)
(* that is closed by nobody else is a FIFO queue: elements come out once,  *)
(* in the order they went in, and full and empty are told truly.           *)
THEOREM SpscRefines ==
  ASSUME NEW e, NEW d, Turns(e, d)
  PROVE  Spec => ImplementsFifo
  <1> USE DEF Turns
  <1>1. Init => EndsInv(e, d) /\ LoadInv /\ TurnInv(e, d)
    <2>1. Init => TurnInv(e, d)
      <3> SUFFICES ASSUME Init  PROVE TurnInv(e, d)
        OBVIOUS
      <3>1. pc = [p \in Procs |-> "idle"] /\ e \in Procs /\ d \in Procs
        BY Consts DEF Init, Ends
      <3> QED  BY <3>1 DEF TurnInv, ReaderAt, EnqAt
    <2> QED  BY <2>1, EndsInit
  <1>2. EndsInv(e, d) /\ LoadInv /\ TurnInv(e, d) /\ [Next]_vars
          => (EndsInv(e, d) /\ LoadInv /\ TurnInv(e, d))' /\ [Fifo!Next]_(Fifo!vars)
    <2> SUFFICES ASSUME EndsInv(e, d), LoadInv, TurnInv(e, d), [Next]_vars
                 PROVE  /\ EndsInv(e, d)' /\ LoadInv' /\ TurnInv(e, d)'
                        /\ [Fifo!Next]_(Fifo!vars)
      OBVIOUS
    <2>1. EndsInv(e, d)' /\ LoadInv'
      BY EndsStep
    <2>2. (Fifo!Next \/ UNCHANGED Fifo!vars) /\ TurnInv(e, d)'
      BY StepImplements
    <2> QED  BY <2>1, <2>2
  <1>3. Init => Fifo!Init
    <2> SUFFICES ASSUME Init  PROVE Fifo!Init
      OBVIOUS
    <2>1. EndsInv(e, d) /\ size = 0
      BY EndsInit DEF Init
    <2>2. Contents = <<>>
      BY <2>1, ContentsWhole, WholeSize
    <2>3. \A q \in Procs : Shown(q) = NoCall
      BY DEF Init, Shown
    <2>4. Results = [q \in Procs |-> NoCall]
      <3> HIDE DEF Shown
      <3> QED  BY <2>3, ResultsShown
    <2>5. closed = FALSE /\ done = {}
      BY DEF Init
    <2> HIDE DEF Contents, Results
    <2> QED  BY <2>2, <2>4, <2>5 DEF Fifo!Init, NoCall, Fifo!NoCall
  <1> QED  BY <1>1, <1>2, <1>3, PTL DEF Spec, ImplementsFifo, Fifo!Spec

-----------------------------------------------------------------------------
(* One goroutine                                                           *)

(* It makes every call: the queue may grow, and be cleared and closed.     *)
Alone(a) == Procs = {a}

(* Its local variables; the slice it fills has any length. *)
News == {<<>>} \cup UNION {[0..m-1 -> Slot] : m \in Nat}
Local == [item : Slot, i : Nat, s : Nat, n : Nat \ {0}, new : News]

GrowAt == {"e:lock", "x:copy", "x:head", "x:tail", "x:data"}

(* The slice is a ring at every step, however the indices move. *)
AloneTypes ==
    /\ IsRing(Slot, data, head, size, len) /\ tail \in Nat
    /\ Capacity > 0 => len = Capacity
    /\ pc \in [Procs -> Labels] /\ loc \in [Procs -> Local] /\ call \in [Procs -> Calls]
    /\ closed \in BOOLEAN /\ done \subseteq Ctx

(* Where the goroutine is, what it knows: of the element on its way in,    *)
AloneEnq(a) ==
    /\ pc[a] \in EnqAt \cup GrowAt =>
          loc[a].item \in Items /\ (pc[a] # "e:closed" => closed = FALSE)
    /\ pc[a] \in GrowAt => Capacity = 0
    /\ pc[a] \in {"e:tail", "e:size", "e:cas", "e:write", "e:count"} => size < len
    /\ pc[a] \in {"e:size", "e:cas"} => loc[a].i = tail
    /\ pc[a] = "e:cas" => loc[a].n = len
    /\ pc[a] \in {"e:write", "e:count"} =>
          loc[a].i = (head + size) % len /\ tail = (head + (size + 1)) % len
    /\ pc[a] = "e:count" => data[loc[a].i] = loc[a].item

(* of the longer slice,                                                    *)
AloneGrow(a) ==
    /\ pc[a] \in {"x:head", "x:tail", "x:data"} =>
          /\ loc[a].s = size /\ loc[a].n = 2 * len /\ loc[a].new \in [0..2*len-1 -> Slot]
    /\ pc[a] = "x:head" => Window(loc[a].new, 0, size, 2 * len) = Window(data, head, size, len)
    /\ pc[a] \in {"x:tail", "x:data"} => head = 0
    /\ pc[a] = "x:data" => tail = size

(* of the element on its way out or looked at,                             *)
AloneDeq(a) ==
    /\ pc[a] \in {"d:head", "d:size", "d:item", "d:cas", "d:wipe", "d:count", "p:head", "p:item"}
          => size > 0
    /\ pc[a] \in {"d:size", "d:item", "d:cas", "p:item"} => loc[a].i = head
    /\ pc[a] \in {"d:item", "d:cas"} => loc[a].n = len
    /\ pc[a] = "d:cas" => loc[a].item = data[head]
    /\ Taking(a) => /\ loc[a].i \in 0..len-1 /\ head = (loc[a].i + 1) % len
                    /\ tail = (loc[a].i + size) % len

(* of the indices that Clear resets; and wherever nothing moves, tail is   *)
(* the used slots after head.                                              *)
Moving == {"e:write", "e:count", "d:wipe", "d:count", "x:tail", "x:data", "c:tail0", "c:size0"}

AloneRest(a) ==
    /\ pc[a] = "c:wipe" => loc[a].i = head
    /\ pc[a] \in {"c:tail0", "c:size0"} => head = 0
    /\ pc[a] = "c:size0" => tail = 0
    /\ pc[a] \notin Moving => tail = (head + size) % len

AloneInv(a) ==
    AloneTypes /\ AloneEnq(a) /\ AloneGrow(a) /\ AloneDeq(a) /\ AloneRest(a)

(* Its steps: a call begins, takes the mutex to clear or to count, ends;   *)
(* it looks, grows the slice, moves; it clears.                            *)
BeginStep(a) ==
    \/ \E x \in Items, c \in Ctx \cup {NoCtx} : Enqueue(a, x, c)
    \/ \E c \in Ctx \cup {NoCtx} : Dequeue(a, c)
    \/ Close(a) \/ Peek(a) \/ Clear(a) \/ ClearSize(a) \/ StatsLock(a) \/ StatsUnlock(a)
EnqLookStep(a) == EnqClosed(a) \/ EnqFull(a) \/ EnqLock(a) \/ EnqTail(a) \/ EnqSize(a)
GrowPart(a)    == ExpandCopies(a) \/ ExpandHead(a) \/ ExpandTail(a) \/ ExpandData(a)
EnqMoveStep(a) == EnqCas(a) \/ EnqWrite(a) \/ EnqCount(a)
DeqLookStep(a) ==
    \/ DeqAny(a) \/ DeqHead(a) \/ DeqSize(a) \/ DeqItem(a) \/ DeqClosed(a)
    \/ PeekSize(a) \/ PeekClosed(a) \/ PeekHead(a) \/ PeekItem(a)
DeqMoveStep(a) == DeqCas(a) \/ DeqWipe(a) \/ DeqCount(a)
ClearPart(a) ==
    ClearHead(a) \/ ClearWipe(a) \/ ClearHead0(a) \/ ClearTail0(a) \/ ClearSize0(a)

GroupStep(a) ==
    \/ BeginStep(a) \/ EnqLookStep(a) \/ GrowPart(a) \/ EnqMoveStep(a)
    \/ DeqLookStep(a) \/ DeqMoveStep(a) \/ ClearPart(a)

(* Returning, and setting some of the local variables. *)
LEMMA AloneLocal ==
  ASSUME NEW a \in Procs, loc \in [Procs -> Local]
  PROVE  /\ [loc EXCEPT ![a] = NoLocal] \in [Procs -> Local]
         /\ \A x \in Slot : [loc EXCEPT ![a].item = x] \in [Procs -> Local]
         /\ \A i \in Nat : [loc EXCEPT ![a].i = i] \in [Procs -> Local]
         /\ \A s \in Nat : [loc EXCEPT ![a].s = s] \in [Procs -> Local]
         /\ \A s \in Nat, n \in Nat \ {0} : [loc EXCEPT ![a].s = s, ![a].n = n] \in [Procs -> Local]
         /\ [loc EXCEPT ![a].new = <<>>] \in [Procs -> Local]
         /\ \A s \in Nat, n \in Nat \ {0} : \A new \in [0..n-1 -> Slot] :
               [loc EXCEPT ![a].new = new, ![a].s = s, ![a].n = n] \in [Procs -> Local]
  <1>0. <<>> \in News /\ \A n \in Nat : \A new \in [0..n-1 -> Slot] : new \in News
    BY DEF News
  <1>1. NoLocal \in Local
    BY <1>0 DEF NoLocal, Local, Slot
  <1>2. ASSUME NEW s \in Nat, NEW n \in Nat \ {0}, NEW new \in [0..n-1 -> Slot]
        PROVE  [loc EXCEPT ![a].new = new, ![a].s = s, ![a].n = n] \in [Procs -> Local]
    <2>1. new \in News
      BY <1>0
    <2>2. [loc[a] EXCEPT !.new = new, !.s = s, !.n = n] \in Local
      BY <2>1 DEF Local
    <2>3. [loc EXCEPT ![a].new = new, ![a].s = s, ![a].n = n]
            = [loc EXCEPT ![a] = [loc[a] EXCEPT !.new = new, !.s = s, !.n = n]]
      BY DEF Local
    <2> QED  BY <2>2, <2>3
  <1>3. \A x \in Slot : [loc EXCEPT ![a].item = x] \in [Procs -> Local]
    BY DEF Local
  <1>4. \A i \in Nat : [loc EXCEPT ![a].i = i] \in [Procs -> Local]
    BY DEF Local
  <1>5. \A s \in Nat : [loc EXCEPT ![a].s = s] \in [Procs -> Local]
    BY DEF Local
  <1>6. \A s \in Nat, n \in Nat \ {0} : [loc EXCEPT ![a].s = s, ![a].n = n] \in [Procs -> Local]
    BY DEF Local
  <1>7. [loc EXCEPT ![a].new = <<>>] \in [Procs -> Local]
    BY <1>0 DEF Local
  <1> QED  BY <1>1, <1>2, <1>3, <1>4, <1>5, <1>6, <1>7

(* What the invariant says of each variable. *)
LEMMA AloneIs ==
  ASSUME NEW a, Alone(a), AloneInv(a)
  PROVE  /\ a \in Procs /\ loc \in [Procs -> Local] /\ pc \in [Procs -> Labels]
         /\ len \in Nat \ {0} /\ head \in 0..len-1 /\ size \in 0..len /\ tail \in Nat
         /\ data \in [0..len-1 -> Slot] /\ \A i \in 0..len-1 : data[i] \in Slot
         /\ loc[a].item \in Slot /\ loc[a].i \in Nat /\ loc[a].s \in Nat /\ loc[a].n \in Nat \ {0}
         /\ Zero \in Slot /\ Items \subseteq Slot
  BY DEF Alone, AloneInv, AloneTypes, IsRing, Local, Slot


(* expand: the longer slice, and that it has the same elements in the same *)
(* order from its first slot on.                                           *)
LEMMA GrownIs ==
  ASSUME NEW S, NEW n, NEW buf, NEW h, NEW k, IsRing(S, buf, h, k, n), Zero \in S
  PROVE  Grown(buf, h, k, n) \in [0..2*n-1 -> S]
  BY DEF IsRing, Grown

LEMMA GrownWindow ==
  ASSUME NEW S, NEW n, NEW buf, NEW h, NEW k, IsRing(S, buf, h, k, n),
         NEW g, g = Grown(buf, h, k, n), NEW m, m = 2 * n
  PROVE  Window(g, 0, k, m) = Window(buf, h, k, n)
  <1> DEFINE v == Window(g, 0, k, m)
             w == Window(buf, h, k, n)
  <1> USE DEF IsRing
  <1>2. \A i \in 1..k : /\ (0 + i - 1) % m = i - 1 /\ h + (i - 1) = h + i - 1
                        /\ i - 1 \in 0..2*n-1 /\ i - 1 < k
    OBVIOUS
  <1>3. ASSUME NEW i \in 1..k  PROVE v[i] = w[i]
    <2>1. v[i] = g[(0 + i - 1) % m]
      BY DEF Window
    <2>2. g[i - 1] = buf[(h + (i - 1)) % n]
      BY <1>2 DEF Grown
    <2>3. w[i] = buf[(h + i - 1) % n]
      BY DEF Window
    <2> QED  BY <1>2, <2>1, <2>2, <2>3
  <1>4. v = [i \in 1..k |-> v[i]] /\ w = [i \in 1..k |-> w[i]]
    BY DEF Window
  <1> HIDE DEF v, w
  <1>5. v = w
    BY <1>3, <1>4
  <1> QED  BY <1>5 DEF v, w

(* One index on, one index back, and no wrapping in twice the length. *)
LEMMA Wrapped ==
  ASSUME NEW n \in Nat \ {0}, NEW h \in 0..n-1
  PROVE  /\ \A k \in 0..n-1 : (((h + k) % n) + 1) % n = (h + (k + 1)) % n
         /\ \A k \in 1..n : (((h + 1) % n) + (k - 1)) % n = (h + k) % n
         /\ \A k \in 0..n : (0 + k) % (2 * n) = k
  <1>1. \A k \in 0..n-1 : (((h + k) % n) + 1) % n = (h + (k + 1)) % n
    BY Wrap
  <1>0. \A i \in 0..n-1 : (((h + 1) % n) + i) % n = (h + (i + 1)) % n
    BY Wrap
  <1>2. ASSUME NEW k \in 1..n  PROVE (((h + 1) % n) + (k - 1)) % n = (h + k) % n
    <2> DEFINE i == k - 1
    <2>1. i \in 0..n-1 /\ i + 1 = k
      OBVIOUS
    <2> HIDE DEF i
    <2>2. (((h + 1) % n) + i) % n = (h + (i + 1)) % n
      BY <1>0, <2>1
    <2> QED  BY <2>1, <2>2 DEF i
  <1>3. ASSUME NEW k \in 0..n  PROVE (0 + k) % (2 * n) = k
    <2>1. 2 * n \in Nat \ {0} /\ k \in 0..2*n-1
      OBVIOUS
    <2>2. (k + 0 * (2 * n)) % (2 * n) = k
      BY <2>1, Unwrapped
    <2> QED  BY <2>2
  <1> QED  BY <1>1, <1>2, <1>3

LEMMA Groups ==
  ASSUME NEW a, CallStep(a)
  PROVE  GroupStep(a)
  BY DEF CallStep, Running, EnqueueStep, InsertStep, GrowStep, DequeueStep, OtherStep, StatsStep,
       PeekStep, ClearStep, GroupStep, BeginStep, EnqLookStep, GrowPart, EnqMoveStep, DeqLookStep,
       DeqMoveStep, ClearPart

(* What a step does to the local variables, to the call and to the slice.  *)
LEMMA AloneLocalStep ==
  ASSUME NEW a, Alone(a), AloneInv(a), GroupStep(a)
  PROVE  loc' \in [Procs -> Local]
  <1>a. /\ a \in Procs /\ loc \in [Procs -> Local] /\ pc \in [Procs -> Labels]
        /\ len \in Nat \ {0} /\ head \in 0..len-1 /\ size \in 0..len /\ tail \in Nat
        /\ \A i \in 0..len-1 : data[i] \in Slot
        /\ loc[a].item \in Slot /\ loc[a].i \in Nat /\ loc[a].s \in Nat /\ loc[a].n \in Nat \ {0}
        /\ Zero \in Slot /\ Items \subseteq Slot /\ size \in Nat /\ head \in Nat
        /\ IsRing(Slot, data, head, size, len)
    BY AloneIs DEF AloneInv, AloneTypes
  <1>g. Grown(data, head, size, len) \in [0..2*len-1 -> Slot] /\ 2 * len \in Nat \ {0}
    <2>1. IsRing(Slot, data, head, size, len) /\ Zero \in Slot
      BY <1>a
    <2>2. Grown(data, head, size, len) \in [0..2*len-1 -> Slot]
      BY <2>1, GrownIs
    <2>3. 2 * len \in Nat \ {0}
      BY <1>a
    <2> QED  BY <2>2, <2>3
  <1>l. /\ [loc EXCEPT ![a] = NoLocal] \in [Procs -> Local]
        /\ \A x \in Slot : [loc EXCEPT ![a].item = x] \in [Procs -> Local]
        /\ \A i \in Nat : [loc EXCEPT ![a].i = i] \in [Procs -> Local]
        /\ \A s \in Nat : [loc EXCEPT ![a].s = s] \in [Procs -> Local]
        /\ \A s \in Nat, n \in Nat \ {0} : [loc EXCEPT ![a].s = s, ![a].n = n] \in [Procs -> Local]
        /\ [loc EXCEPT ![a].new = <<>>] \in [Procs -> Local]
        /\ \A s \in Nat, n \in Nat \ {0} : \A new \in [0..n-1 -> Slot] :
              [loc EXCEPT ![a].new = new, ![a].s = s, ![a].n = n] \in [Procs -> Local]
    BY <1>a, AloneLocal
  <1>1. CASE loc' = [loc EXCEPT ![a] = NoLocal] \/ UNCHANGED loc
    BY <1>1, <1>a, <1>l
  <1>2. CASE \E x \in Slot : loc' = [loc EXCEPT ![a].item = x]
    <2>1. PICK x \in Slot : loc' = [loc EXCEPT ![a].item = x]
      BY <1>2
    <2> QED  BY <2>1, <1>l
  <1>3. CASE \E i \in Nat : loc' = [loc EXCEPT ![a].i = i]
    <2>1. PICK i \in Nat : loc' = [loc EXCEPT ![a].i = i]
      BY <1>3
    <2> QED  BY <2>1, <1>l
  <1>4. CASE loc' = [loc EXCEPT ![a].s = size]
    BY <1>4, <1>a, <1>l
  <1>5. CASE loc' = [loc EXCEPT ![a].s = size, ![a].n = len]
    BY <1>5, <1>a, <1>l
  <1>6. CASE loc' = [loc EXCEPT ![a].new = <<>>]
    BY <1>6, <1>l
  <1>7. CASE loc' = [loc EXCEPT ![a].new = Grown(data, head, size, len),
                                ![a].s = size, ![a].n = 2 * len]
    <2> DEFINE n == 2 * len
               new == Grown(data, head, size, len)
    <2>1. n \in Nat \ {0} /\ new \in [0..n-1 -> Slot] /\ size \in Nat
      BY <1>a, <1>g
    <2>2. loc' = [loc EXCEPT ![a].new = new, ![a].s = size, ![a].n = n]
      BY <1>7
    <2> HIDE DEF n, new
    <2> QED  BY <1>l, <2>1, <2>2
  <1> HIDE <1>l
  <1>8. CASE BeginStep(a)
    <2>1. \/ \E x \in Slot : loc' = [loc EXCEPT ![a].item = x]
          \/ UNCHANGED loc
          \/ loc' = [loc EXCEPT ![a].s = size]
      BY <1>8, <1>a DEF BeginStep, Enqueue, Dequeue, Begin, Close, Peek, Clear, StatsLock,
         StatsUnlock, ClearSize
    <2> QED  BY <2>1, <1>1, <1>2, <1>4
  <1>9. CASE EnqLookStep(a) \/ EnqMoveStep(a)
    <2>1. \/ UNCHANGED loc
          \/ loc' = [loc EXCEPT ![a] = NoLocal]
          \/ \E i \in Nat : loc' = [loc EXCEPT ![a].i = i]
          \/ loc' = [loc EXCEPT ![a].s = size, ![a].n = len]
      BY <1>9, <1>a DEF EnqLookStep, EnqMoveStep, EnqClosed, EnqFull, EnqLock, EnqTail, EnqSize,
         EnqCas, EnqWrite, EnqCount, Return
    <2> QED  BY <2>1, <1>1, <1>3, <1>5
  <1>10. CASE GrowPart(a)
    <2>1. \/ UNCHANGED loc
          \/ loc' = [loc EXCEPT ![a].new = <<>>]
          \/ loc' = [loc EXCEPT ![a].new = Grown(data, head, size, len),
                                ![a].s = size, ![a].n = 2 * len]
      BY <1>10 DEF GrowPart, ExpandCopies, ExpandHead, ExpandTail, ExpandData
    <2> QED  BY <2>1, <1>1, <1>6, <1>7
  <1>11. CASE DeqLookStep(a) \/ DeqMoveStep(a)
    <2>1. DeqItem(a) => data[loc[a].i] \in Slot
      BY <1>a DEF DeqItem, At, AloneInv, AloneDeq
    <2>2. \/ UNCHANGED loc
          \/ loc' = [loc EXCEPT ![a] = NoLocal]
          \/ \E i \in Nat : loc' = [loc EXCEPT ![a].i = i]
          \/ loc' = [loc EXCEPT ![a].s = size, ![a].n = len]
          \/ \E x \in Slot : loc' = [loc EXCEPT ![a].item = x]
      BY <1>11, <1>a, <2>1 DEF DeqLookStep, DeqMoveStep, DeqAny, DeqHead, DeqSize, DeqItem,
         DeqClosed, PeekSize, PeekClosed, PeekHead, PeekItem, DeqCas, DeqWipe, DeqCount, Return
    <2> QED  BY <2>2, <1>1, <1>2, <1>3, <1>5
  <1>12. CASE ClearPart(a)
    <2>1. \/ UNCHANGED loc
          \/ loc' = [loc EXCEPT ![a] = NoLocal]
          \/ \E i \in Nat : loc' = [loc EXCEPT ![a].i = i]
      BY <1>12, <1>a DEF ClearPart, ClearHead, ClearWipe, ClearHead0, ClearTail0, ClearSize0
    <2> QED  BY <2>1, <1>1, <1>3
  <1> QED  BY <1>8, <1>9, <1>10, <1>11, <1>12 DEF GroupStep

LEMMA AloneCallStep ==
  ASSUME NEW a, Alone(a), AloneInv(a), GroupStep(a)
  PROVE  call' \in [Procs -> Calls] /\ closed' \in BOOLEAN /\ done' = done
         /\ (~Close(a) => closed' = closed) /\ pc' \in [Procs -> Labels]
  <1>a. /\ a \in Procs /\ loc[a].item \in Slot /\ Zero \in Slot /\ Items \subseteq Slot
        /\ call \in [Procs -> Calls] /\ closed \in BOOLEAN /\ pc \in [Procs -> Labels]
    BY AloneIs DEF AloneInv, AloneTypes
  <1>1. done' = done /\ closed' \in BOOLEAN /\ (~Close(a) => closed' = closed)
    BY <1>a DEF GroupStep, BeginStep, EnqLookStep, GrowPart, EnqMoveStep, DeqLookStep, DeqMoveStep,
       ClearPart, Enqueue, Dequeue, Begin, Peek, Clear, StatsLock, StatsUnlock, ClearSize, Close,
       EnqClosed, EnqFull, EnqLock,
       ExpandCopies, ExpandHead, ExpandTail, ExpandData, EnqTail, EnqSize, EnqCas, EnqWrite,
       EnqCount, DeqAny, DeqHead, DeqSize, DeqItem, DeqCas, DeqWipe, DeqCount, DeqClosed,
       PeekSize, PeekClosed, PeekHead, PeekItem, ClearHead, ClearWipe, ClearHead0, ClearTail0,
       ClearSize0,
       Still
  <1>2. PeekItem(a) => data[loc[a].i] \in Slot
    BY AloneIs DEF PeekItem, At, AloneInv, AloneDeq
  <1>3. ASSUME NEW op \in {"enqueue", "dequeue", "try_enqueue", "try_dequeue", "peek"},
               NEW x \in Slot, NEW c \in Ctx \cup {NoCtx},
               NEW out \in {"ok", "closed", "full", "empty", "cancelled"}
        PROVE  [call EXCEPT ![a] = [op |-> op, item |-> x, ctx |-> c, out |-> out]]
                  \in [Procs -> Calls]
    BY <1>a DEF Calls, Slot
  <1>4. \/ UNCHANGED call
        \/ \E op \in {"enqueue", "dequeue", "try_enqueue", "try_dequeue", "peek"},
              x \in Slot, c \in Ctx \cup {NoCtx},
              out \in {"ok", "closed", "full", "empty", "cancelled"} :
                 call' = [call EXCEPT ![a] = [op |-> op, item |-> x, ctx |-> c, out |-> out]]
    <2>1. CASE EnqLookStep(a) \/ GrowPart(a) \/ EnqMoveStep(a)
      BY <1>a, <2>1 DEF EnqLookStep, GrowPart, EnqMoveStep, EnqClosed, EnqFull, EnqLock,
         ExpandCopies, ExpandHead, ExpandTail, ExpandData, EnqTail, EnqSize, EnqCas, EnqWrite,
         EnqCount, Return, Still
    <2>2. CASE DeqLookStep(a) \/ DeqMoveStep(a) \/ ClearPart(a)
      BY <1>a, <1>2, <2>2 DEF DeqLookStep, DeqMoveStep, ClearPart, DeqAny, DeqHead, DeqSize,
         DeqItem, DeqCas, DeqWipe, DeqCount, DeqClosed, PeekSize, PeekClosed, PeekHead, PeekItem,
         ClearHead,
         ClearWipe, ClearHead0, ClearTail0, ClearSize0, Return, Still
    <2>3. CASE BeginStep(a)
      BY <1>a, <2>3 DEF BeginStep, Enqueue, Dequeue, Begin, Peek, Clear, StatsLock, StatsUnlock,
         ClearSize, Close, Still
    <2> QED  BY <2>1, <2>2, <2>3 DEF GroupStep
  <1>5. call' \in [Procs -> Calls]
    <2>1. CASE UNCHANGED call
      BY <1>a, <2>1
    <2>2. CASE ~UNCHANGED call
      <3>1. PICK op \in {"enqueue", "dequeue", "try_enqueue", "try_dequeue", "peek"},
                 x \in Slot, c \in Ctx \cup {NoCtx},
                 out \in {"ok", "closed", "full", "empty", "cancelled"} :
                    call' = [call EXCEPT ![a] = [op |-> op, item |-> x, ctx |-> c, out |-> out]]
        BY <1>4, <2>2
      <3> QED  BY <1>3, <3>1
    <2> QED  BY <2>1, <2>2
  <1>6. pc' \in [Procs -> Labels]
    BY <1>a DEF GroupStep, BeginStep, EnqLookStep, GrowPart, EnqMoveStep, DeqLookStep, DeqMoveStep,
       ClearPart, Enqueue, Dequeue, Begin, Peek, Clear, StatsLock, StatsUnlock, ClearSize, Close,
       EnqClosed, EnqFull, EnqLock,
       ExpandCopies, ExpandHead, ExpandTail, ExpandData, EnqTail, EnqSize, EnqCas, EnqWrite,
       EnqCount, DeqAny, DeqHead, DeqSize, DeqItem, DeqCas, DeqWipe, DeqCount, DeqClosed,
       PeekSize, PeekClosed, PeekHead, PeekItem, ClearHead, ClearWipe, ClearHead0, ClearTail0,
       ClearSize0,
       Still, Return, Goto, Labels, WriterAt, ReaderAt
  <1> QED  BY <1>1, <1>5, <1>6

LEMMA AloneRingStep ==
  ASSUME NEW a, Alone(a), AloneInv(a), GroupStep(a)
  PROVE  IsRing(Slot, data, head, size, len)' /\ tail' \in Nat /\ (Capacity > 0 => len' = Capacity)
  <1>a. /\ a \in Procs /\ loc \in [Procs -> Local]
        /\ len \in Nat \ {0} /\ head \in 0..len-1 /\ size \in 0..len /\ tail \in Nat
        /\ data \in [0..len-1 -> Slot]
        /\ loc[a].item \in Slot /\ loc[a].i \in Nat /\ loc[a].s \in Nat /\ loc[a].n \in Nat \ {0}
        /\ Zero \in Slot /\ IsRing(Slot, data, head, size, len)
        /\ (Capacity > 0 => len = Capacity)
    BY AloneIs DEF AloneInv, AloneTypes
  <1>b. \A x \in Slot : IsRing(Slot, [data EXCEPT ![loc[a].i] = x], head, size, len)
    BY <1>a DEF IsRing
  <1>c. /\ \A i, n \in Nat : n # 0 => (i + 1) % n \in Nat
        /\ \A i \in Nat : (i + 1) % len \in 0..len-1
    BY <1>a
  <1>1. CASE BeginStep(a) \/ EnqLookStep(a) \/ DeqLookStep(a) \/ ClearHead(a) \/ ExpandCopies(a)
    <2>1. UNCHANGED <<data, len, head, tail, size>>
      BY <1>1 DEF BeginStep, EnqLookStep, DeqLookStep, Enqueue, Dequeue, Begin, Peek, Clear,
         StatsLock, StatsUnlock, ClearSize, Close,
         EnqClosed, EnqFull, EnqLock, ExpandCopies, EnqTail, EnqSize, DeqAny, DeqHead, DeqSize,
         DeqItem, DeqClosed, PeekSize, PeekClosed, PeekHead, PeekItem, ClearHead, Still, ring
    <2> QED  BY <1>a, <2>1
  <1>2. CASE EnqCas(a)
    BY <1>2, <1>a, <1>c DEF EnqCas
  <1>3. CASE EnqWrite(a) \/ DeqWipe(a)
    BY <1>3, <1>a, <1>b DEF EnqWrite, DeqWipe
  <1>4. CASE EnqCount(a)
    BY <1>4, <1>a DEF EnqCount, IsRing, At, AloneInv, AloneEnq
  <1>5. CASE DeqCas(a)
    BY <1>5, <1>a, <1>c DEF DeqCas, IsRing, At, AloneInv, AloneDeq
  <1>6. CASE DeqCount(a)
    BY <1>6, <1>a DEF DeqCount, IsRing, At, AloneInv, AloneDeq
  <1>7. CASE ExpandHead(a) \/ ExpandTail(a)
    BY <1>7, <1>a DEF ExpandHead, ExpandTail, IsRing
  <1>8. CASE ExpandData(a)
    <2>1. /\ data' = loc[a].new /\ len' = 2 * len /\ loc[a].new \in [0..2*len-1 -> Slot]
          /\ Capacity = 0 /\ UNCHANGED <<head, tail, size>>
      BY <1>8 DEF ExpandData, At, AloneInv, AloneGrow, AloneEnq, GrowAt
    <2> QED  BY <1>a, <2>1, NonBlockingAssumption DEF IsRing
  <1>9. CASE ClearWipe(a)
    BY <1>9, <1>a DEF ClearWipe, Wiped, IsRing
  <1>10. CASE ClearHead0(a) \/ ClearTail0(a) \/ ClearSize0(a)
    BY <1>10, <1>a DEF ClearHead0, ClearTail0, ClearSize0, IsRing
  <1> QED  BY <1>1, <1>2, <1>3, <1>4, <1>5, <1>6, <1>7, <1>8, <1>9, <1>10
           DEF GroupStep, EnqMoveStep, DeqMoveStep, GrowPart, ClearPart

LEMMA AloneTypesStep ==
  ASSUME NEW a, Alone(a), AloneInv(a), GroupStep(a)
  PROVE  AloneTypes'
  <1>1. done \subseteq Ctx
    BY DEF AloneInv, AloneTypes
  <1> QED  BY <1>1, AloneLocalStep, AloneCallStep, AloneRingStep DEF AloneTypes

(* What the goroutine knows of the element it is placing,                  *)
LEMMA AloneEnqStep ==
  ASSUME NEW a, Alone(a), AloneInv(a), GroupStep(a)
  PROVE  AloneEnq(a)'
  <1>a. /\ a \in Procs /\ loc \in [Procs -> Local] /\ pc \in [Procs -> Labels]
        /\ len \in Nat \ {0} /\ head \in 0..len-1 /\ size \in 0..len /\ tail \in Nat
        /\ data \in [0..len-1 -> Slot] /\ \A i \in 0..len-1 : data[i] \in Slot
        /\ loc[a].item \in Slot /\ loc[a].i \in Nat /\ loc[a].s \in Nat
        /\ loc[a].n \in Nat \ {0}
    BY AloneIs
  <1>i. AloneTypes /\ AloneEnq(a) /\ AloneGrow(a) /\ AloneDeq(a) /\ AloneRest(a)
    BY DEF AloneInv
  <1> USE DEF Local, At, Goto, Return, Still, ring, Overfull, TooShort
  <1> USE DEF AloneEnq, AloneTypes, AloneRest, AloneDeq, AloneGrow, EnqAt, GrowAt
  <1>1. CASE BeginStep(a)
    <2>1. CASE \E x \in Items, c \in Ctx \cup {NoCtx} : Enqueue(a, x, c)
      BY <1>a, <1>i, <2>1 DEF Enqueue, Begin
    <2>2. CASE \E c \in Ctx \cup {NoCtx} : Dequeue(a, c)
      BY <1>a, <1>i, <2>2 DEF Dequeue, Begin
    <2>3. CASE Close(a)
      BY <1>a, <1>i, <2>3 DEF Close
    <2>4. CASE Peek(a)
      BY <1>a, <1>i, <2>4 DEF Peek
    <2>5. CASE Clear(a) \/ ClearSize(a)
      BY <1>a, <1>i, <2>5 DEF Clear, ClearSize
    <2>6. CASE StatsLock(a) \/ StatsUnlock(a)
      BY <1>a, <1>i, <2>6 DEF StatsLock, StatsUnlock
    <2> QED  BY <1>1, <2>1, <2>2, <2>3, <2>4, <2>5, <2>6 DEF BeginStep
  <1>2. CASE EnqLookStep(a)
    <2>1. CASE EnqClosed(a)
      BY <1>a, <1>i, <2>1 DEF EnqClosed
    <2>2. CASE EnqFull(a)
      <3> HIDE DEF AloneEnq, AloneTypes, AloneRest, AloneDeq, AloneGrow, EnqAt, GrowAt
      <3>1. pc[a] = "e:full" /\ loc[a].item \in Items /\ closed = FALSE
        BY <1>i, <2>2 DEF EnqFull, AloneEnq, EnqAt
      <3>2. ~Overfull /\ ~TooShort => size < len
        BY <1>a, <1>i, NonBlockingAssumption DEF AloneTypes
      <3>3. Overfull \/ TooShort \/ (~Overfull /\ ~TooShort)
        OBVIOUS
      <3>4. TooShort => Capacity = 0
        OBVIOUS
      <3>5. closed' = closed /\ UNCHANGED <<data, len, head, tail, size>>
        BY <2>2 DEF EnqFull
      <3> HIDE DEF Overfull, TooShort
      <3>6. \/ pc'[a] = "s:lock"
            \/ TooShort /\ pc'[a] = "e:lock" /\ loc' = loc
            \/ ~Overfull /\ ~TooShort /\ pc'[a] = "e:tail" /\ loc' = loc
        BY <1>a, <2>2 DEF EnqFull
      <3> QED  BY <3>1, <3>2, <3>4, <3>5, <3>6 DEF AloneEnq, EnqAt, GrowAt
    <2>3. CASE EnqLock(a)
      BY <1>a, <1>i, <2>3 DEF EnqLock
    <2>4. CASE EnqTail(a)
      BY <1>a, <1>i, <2>4 DEF EnqTail
    <2>5. CASE EnqSize(a)
      <3> HIDE DEF AloneEnq, AloneTypes, AloneRest, AloneDeq, AloneGrow, EnqAt, GrowAt
      <3>1. /\ pc[a] = "e:size" /\ loc[a].item \in Items /\ closed = FALSE /\ size < len
            /\ loc[a].i = tail
        BY <1>i, <2>5 DEF EnqSize, AloneEnq, EnqAt
      <3>2. \/ pc'[a] = "s:lock"
            \/ /\ pc'[a] = "e:cas" /\ loc'[a].item = loc[a].item /\ loc'[a].i = loc[a].i
               /\ loc'[a].n = len
        BY <1>a, <2>5 DEF EnqSize
      <3>3. closed' = closed /\ UNCHANGED <<data, len, head, tail, size>>
        BY <2>5 DEF EnqSize
      <3> QED  BY <3>1, <3>2, <3>3 DEF AloneEnq, EnqAt, GrowAt
    <2> QED  BY <1>2, <2>1, <2>2, <2>3, <2>4, <2>5 DEF EnqLookStep
  <1>3. CASE GrowPart(a)
    <2>1. CASE ExpandCopies(a)
      BY <1>a, <1>i, <2>1 DEF ExpandCopies
    <2>2. CASE ExpandHead(a)
      BY <1>a, <1>i, <2>2 DEF ExpandHead
    <2>3. CASE ExpandTail(a)
      BY <1>a, <1>i, <2>3 DEF ExpandTail
    <2>4. CASE ExpandData(a)
      BY <1>a, <1>i, <2>4 DEF ExpandData
    <2> QED  BY <1>3, <2>1, <2>2, <2>3, <2>4 DEF GrowPart
  <1>4. CASE EnqMoveStep(a)
    <2>1. CASE EnqCas(a)
      <3> HIDE DEF AloneEnq, AloneTypes, AloneRest, AloneDeq, AloneGrow, EnqAt, GrowAt
      <3>1. /\ pc[a] = "e:cas" /\ size < len /\ loc[a].i = tail /\ loc[a].n = len
            /\ tail = (head + size) % len /\ loc[a].item \in Items /\ closed = FALSE
        BY <1>i, <2>1 DEF EnqCas, AloneEnq, AloneRest, Moving, EnqAt
      <3>2. (((head + size) % len) + 1) % len = (head + (size + 1)) % len
        <4>1. size \in 0..len-1
          BY <1>a, <3>1
        <4> QED  BY <1>a, <4>1, Wrapped
      <3>3. /\ tail' = (tail + 1) % len /\ pc'[a] = "e:write" /\ loc' = loc
            /\ closed' = closed /\ UNCHANGED <<data, len, head, size>>
        BY <1>a, <2>1, <3>1 DEF EnqCas
      <3>4. tail' = (head + (size + 1)) % len
        BY <3>1, <3>2, <3>3
      <3> QED  BY <3>1, <3>3, <3>4 DEF AloneEnq, EnqAt, GrowAt
    <2>2. CASE EnqWrite(a)
      BY <1>a, <1>i, <2>2 DEF EnqWrite
    <2>3. CASE EnqCount(a)
      BY <1>a, <1>i, <2>3 DEF EnqCount
    <2> QED  BY <1>4, <2>1, <2>2, <2>3 DEF EnqMoveStep
  <1>5. CASE DeqLookStep(a)
    BY <1>a, <1>i, <1>5 DEF DeqLookStep, DeqAny, DeqHead, DeqSize, DeqItem, DeqClosed, PeekSize,
       PeekClosed,
       PeekHead, PeekItem
  <1>6. CASE DeqMoveStep(a)
    BY <1>a, <1>i, <1>6 DEF DeqMoveStep, DeqCas, DeqWipe, DeqCount
  <1>7. CASE ClearPart(a)
    BY <1>a, <1>i, <1>7 DEF ClearPart, ClearHead, ClearWipe, ClearHead0, ClearTail0, ClearSize0
  <1> QED  BY <1>1, <1>2, <1>3, <1>4, <1>5, <1>6, <1>7 DEF GroupStep

(* of the slice it is filling,                                              *)
LEMMA AloneGrowStep ==
  ASSUME NEW a, Alone(a), AloneInv(a), GroupStep(a)
  PROVE  AloneGrow(a)'
  <1>a. /\ a \in Procs /\ loc \in [Procs -> Local] /\ pc \in [Procs -> Labels]
        /\ len \in Nat \ {0} /\ head \in 0..len-1 /\ size \in 0..len /\ tail \in Nat
        /\ data \in [0..len-1 -> Slot] /\ \A i \in 0..len-1 : data[i] \in Slot
        /\ loc[a].item \in Slot /\ loc[a].i \in Nat /\ loc[a].s \in Nat
        /\ loc[a].n \in Nat \ {0}
    BY AloneIs
  <1>i. AloneTypes /\ AloneEnq(a) /\ AloneGrow(a) /\ AloneDeq(a) /\ AloneRest(a)
    BY DEF AloneInv
  <1> USE DEF Local, At, Goto, Return, Still, ring, Overfull, TooShort
  <1> USE DEF AloneGrow, AloneTypes, AloneRest, AloneEnq, GrowAt
  <1>1. CASE BeginStep(a)
    BY <1>a, <1>i, <1>1 DEF BeginStep, Enqueue, Begin, Dequeue, Close, Peek, Clear, StatsLock,
       StatsUnlock, ClearSize
  <1>2. CASE EnqLookStep(a)
    BY <1>a, <1>i, <1>2 DEF EnqLookStep, EnqClosed, EnqFull, EnqLock, EnqTail, EnqSize
  <1>3. CASE GrowPart(a)
    <2>1. CASE ExpandCopies(a)
      <3> HIDE DEF AloneGrow, AloneTypes, AloneRest, AloneEnq, GrowAt
      <3>1. IsRing(Slot, data, head, size, len) /\ Zero \in Slot
        BY <1>i DEF AloneTypes, Slot
      <3> DEFINE new == Grown(data, head, size, len)
      <3>2. /\ new \in [0..2*len-1 -> Slot]
            /\ Window(new, 0, size, 2 * len) = Window(data, head, size, len)
        <4>1. Grown(data, head, size, len) \in [0..2*len-1 -> Slot]
          BY ONLY <3>1, GrownIs
        <4>2. Window(Grown(data, head, size, len), 0, size, 2 * len) = Window(data, head, size, len)
          BY <3>1, GrownWindow
        <4> QED  BY <4>1, <4>2
      <3>3. /\ pc'[a] = "x:head" /\ UNCHANGED <<data, len, head, tail, size>>
            /\ loc' = [loc EXCEPT ![a].new = new, ![a].s = size, ![a].n = 2 * len]
        BY <1>a, <2>1 DEF ExpandCopies
      <3> HIDE DEF new
      <3>4. loc'[a].new = new /\ loc'[a].s = size /\ loc'[a].n = 2 * len
        BY <1>a, <3>3
      <3> QED  BY <3>2, <3>3, <3>4 DEF AloneGrow
    <2>2. CASE ExpandHead(a)
      BY <1>a, <1>i, <2>2 DEF ExpandHead
    <2>3. CASE ExpandTail(a)
      BY <1>a, <1>i, <2>3 DEF ExpandTail
    <2>4. CASE ExpandData(a)
      BY <1>a, <1>i, <2>4 DEF ExpandData
    <2> QED  BY <1>3, <2>1, <2>2, <2>3, <2>4 DEF GrowPart
  <1>4. CASE EnqMoveStep(a)
    BY <1>a, <1>i, <1>4 DEF EnqMoveStep, EnqCas, EnqWrite, EnqCount
  <1>5. CASE DeqLookStep(a)
    BY <1>a, <1>i, <1>5 DEF DeqLookStep, DeqAny, DeqHead, DeqSize, DeqItem, DeqClosed, PeekSize,
       PeekClosed,
       PeekHead, PeekItem
  <1>6. CASE DeqMoveStep(a)
    BY <1>a, <1>i, <1>6 DEF DeqMoveStep, DeqCas, DeqWipe, DeqCount
  <1>7. CASE ClearPart(a)
    BY <1>a, <1>i, <1>7 DEF ClearPart, ClearHead, ClearWipe, ClearHead0, ClearTail0, ClearSize0
  <1> QED  BY <1>1, <1>2, <1>3, <1>4, <1>5, <1>6, <1>7 DEF GroupStep

(* of the element it is taking or looking at,                               *)
LEMMA AloneDeqStep ==
  ASSUME NEW a, Alone(a), AloneInv(a), GroupStep(a)
  PROVE  AloneDeq(a)'
  <1>a. /\ a \in Procs /\ loc \in [Procs -> Local] /\ pc \in [Procs -> Labels]
        /\ len \in Nat \ {0} /\ head \in 0..len-1 /\ size \in 0..len /\ tail \in Nat
        /\ data \in [0..len-1 -> Slot] /\ \A i \in 0..len-1 : data[i] \in Slot
        /\ loc[a].item \in Slot /\ loc[a].i \in Nat /\ loc[a].s \in Nat
        /\ loc[a].n \in Nat \ {0}
    BY AloneIs
  <1>i. AloneTypes /\ AloneEnq(a) /\ AloneGrow(a) /\ AloneDeq(a) /\ AloneRest(a)
    BY DEF AloneInv
  <1> USE DEF Local, At, Goto, Return, Still, ring, Overfull, TooShort
  <1> USE DEF AloneDeq, AloneTypes, Taking, AloneRest
  <1>1. CASE BeginStep(a)
    <2>1. CASE \E x \in Items, c \in Ctx \cup {NoCtx} : Enqueue(a, x, c)
      BY <1>a, <1>i, <2>1 DEF Enqueue, Begin
    <2>2. CASE \E c \in Ctx \cup {NoCtx} : Dequeue(a, c)
      BY <1>a, <1>i, <2>2 DEF Dequeue, Begin
    <2>3. CASE Close(a)
      BY <1>a, <1>i, <2>3 DEF Close
    <2>4. CASE Peek(a)
      BY <1>a, <1>i, <2>4 DEF Peek
    <2>5. CASE Clear(a) \/ ClearSize(a)
      BY <1>a, <1>i, <2>5 DEF Clear, ClearSize
    <2>6. CASE StatsLock(a) \/ StatsUnlock(a)
      BY <1>a, <1>i, <2>6 DEF StatsLock, StatsUnlock
    <2> QED  BY <1>1, <2>1, <2>2, <2>3, <2>4, <2>5, <2>6 DEF BeginStep
  <1>2. CASE EnqLookStep(a)
    BY <1>a, <1>i, <1>2 DEF EnqLookStep, EnqClosed, EnqFull, EnqLock, EnqTail, EnqSize
  <1>3. CASE GrowPart(a)
    BY <1>a, <1>i, <1>3 DEF GrowPart, ExpandCopies, ExpandHead, ExpandTail, ExpandData
  <1>4. CASE EnqMoveStep(a)
    BY <1>a, <1>i, <1>4 DEF EnqMoveStep, EnqCas, EnqWrite, EnqCount
  <1>5. CASE DeqLookStep(a)
    <2>1. CASE DeqAny(a)
      BY <1>a, <1>i, <2>1 DEF DeqAny
    <2>2. CASE DeqHead(a)
      BY <1>a, <1>i, <2>2 DEF DeqHead
    <2>3. CASE DeqSize(a)
      BY <1>a, <1>i, <2>3 DEF DeqSize
    <2>4. CASE DeqItem(a)
      BY <1>a, <1>i, <2>4 DEF DeqItem
    <2>5. CASE DeqClosed(a)
      BY <1>a, <1>i, <2>5 DEF DeqClosed
    <2>6. CASE PeekClosed(a)
      BY <1>a, <1>i, <2>6 DEF PeekSize, PeekClosed
    <2>7. CASE PeekHead(a)
      BY <1>a, <1>i, <2>7 DEF PeekHead
    <2>8. CASE PeekItem(a)
      BY <1>a, <1>i, <2>8 DEF PeekItem
    <2>9. CASE PeekSize(a)
      BY <1>a, <1>i, <2>9 DEF PeekSize
    <2> QED
      BY <1>5, <2>1, <2>2, <2>3, <2>4, <2>5, <2>6, <2>7, <2>8, <2>9 DEF DeqLookStep
  <1>6. CASE DeqMoveStep(a)
    <2>1. CASE DeqCas(a)
      <3> HIDE DEF AloneDeq, AloneTypes, Taking, AloneRest
      <3>1. /\ pc[a] = "d:cas" /\ size > 0 /\ loc[a].i = head /\ loc[a].n = len
            /\ tail = (head + size) % len
        BY <1>i, <2>1 DEF DeqCas, AloneDeq, AloneRest, Moving
      <3>2. /\ head' = (loc[a].i + 1) % len /\ pc'[a] = "d:wipe" /\ loc' = loc
            /\ UNCHANGED <<data, len, tail, size>>
        BY <1>a, <2>1, <3>1 DEF DeqCas
      <3>3. loc[a].i \in 0..len-1 /\ tail = (loc[a].i + size) % len
        BY <1>a, <3>1
      <3> QED  BY <3>1, <3>2, <3>3 DEF AloneDeq, Taking
    <2>2. CASE DeqWipe(a)
      BY <1>a, <1>i, <2>2 DEF DeqWipe
    <2>3. CASE DeqCount(a)
      BY <1>a, <1>i, <2>3 DEF DeqCount
    <2> QED  BY <1>6, <2>1, <2>2, <2>3 DEF DeqMoveStep
  <1>7. CASE ClearPart(a)
    BY <1>a, <1>i, <1>7 DEF ClearPart, ClearHead, ClearWipe, ClearHead0, ClearTail0, ClearSize0
  <1> QED  BY <1>1, <1>2, <1>3, <1>4, <1>5, <1>6, <1>7 DEF GroupStep

(* and of head and tail, is so after its next step.                         *)
LEMMA AloneRestStep ==
  ASSUME NEW a, Alone(a), AloneInv(a), GroupStep(a)
  PROVE  AloneRest(a)'
  <1>a. /\ a \in Procs /\ loc \in [Procs -> Local] /\ pc \in [Procs -> Labels]
        /\ len \in Nat \ {0} /\ head \in 0..len-1 /\ size \in 0..len /\ tail \in Nat
        /\ data \in [0..len-1 -> Slot] /\ \A i \in 0..len-1 : data[i] \in Slot
        /\ loc[a].item \in Slot /\ loc[a].i \in Nat /\ loc[a].s \in Nat
        /\ loc[a].n \in Nat \ {0}
    BY AloneIs
  <1>i. AloneTypes /\ AloneEnq(a) /\ AloneGrow(a) /\ AloneDeq(a) /\ AloneRest(a)
    BY DEF AloneInv
  <1> USE DEF Local, At, Goto, Return, Still, ring, Overfull, TooShort
  <1> USE DEF AloneRest, Moving, AloneTypes, AloneEnq, AloneDeq, Taking, AloneGrow
  <1>1. CASE BeginStep(a)
    BY <1>a, <1>i, <1>1 DEF BeginStep, Enqueue, Begin, Dequeue, Close, Peek, Clear, StatsLock,
       StatsUnlock, ClearSize
  <1>2. CASE EnqLookStep(a)
    BY <1>a, <1>i, <1>2 DEF EnqLookStep, EnqClosed, EnqFull, EnqLock, EnqTail, EnqSize
  <1>3. CASE GrowPart(a)
    <2>1. CASE ExpandCopies(a)
      BY <1>a, <1>i, <2>1 DEF ExpandCopies
    <2>2. CASE ExpandHead(a)
      BY <1>a, <1>i, <2>2 DEF ExpandHead
    <2>3. CASE ExpandTail(a)
      BY <1>a, <1>i, <2>3 DEF ExpandTail
    <2>4. CASE ExpandData(a)
      <3> HIDE DEF AloneRest, Moving, AloneTypes, AloneEnq, AloneDeq, Taking, AloneGrow
      <3>1. tail = size /\ head = 0 /\ loc[a].n = 2 * len
        BY <1>i, <2>4 DEF ExpandData, AloneGrow
      <3>2. /\ pc'[a] = "e:tail" /\ len' = 2 * len /\ UNCHANGED <<head, tail, size>>
        BY <1>a, <2>4, <3>1 DEF ExpandData
      <3>3. (0 + size) % (2 * len) = size
        BY <1>a, Wrapped
      <3>4. tail' = (head' + size') % len'
        BY <3>1, <3>2, <3>3
      <3> QED  BY <3>2, <3>4 DEF AloneRest
    <2> QED  BY <1>3, <2>1, <2>2, <2>3, <2>4 DEF GrowPart
  <1>4. CASE EnqMoveStep(a)
    <2>1. CASE EnqCas(a)
      BY <1>a, <1>i, <2>1 DEF EnqCas
    <2>2. CASE EnqWrite(a)
      BY <1>a, <1>i, <2>2 DEF EnqWrite
    <2>3. CASE EnqCount(a)
      BY <1>a, <1>i, <2>3 DEF EnqCount
    <2> QED  BY <1>4, <2>1, <2>2, <2>3 DEF EnqMoveStep
  <1>5. CASE DeqLookStep(a)
    BY <1>a, <1>i, <1>5 DEF DeqLookStep, DeqAny, DeqHead, DeqSize, DeqItem, DeqClosed, PeekSize,
       PeekClosed,
       PeekHead, PeekItem
  <1>6. CASE DeqMoveStep(a)
    <2>1. CASE DeqCas(a)
      BY <1>a, <1>i, <2>1 DEF DeqCas
    <2>2. CASE DeqWipe(a)
      BY <1>a, <1>i, <2>2 DEF DeqWipe
    <2>3. CASE DeqCount(a)
      <3> HIDE DEF AloneRest, Moving, AloneTypes, AloneEnq, AloneDeq, Taking, AloneGrow
      <3>1. /\ loc[a].i \in 0..len-1 /\ head = (loc[a].i + 1) % len
            /\ tail = (loc[a].i + size) % len /\ size > 0
        BY <1>i, <2>3 DEF DeqCount, AloneDeq, Taking
      <3>3. (((loc[a].i + 1) % len) + (size - 1)) % len = (loc[a].i + size) % len
        <4>1. size \in 1..len
          BY <1>a, <3>1
        <4> QED  BY <1>a, <3>1, <4>1, Wrapped
      <3>4. /\ pc'[a] = "s:lock" /\ size' = size - 1 /\ UNCHANGED <<data, len, head, tail>>
        BY <1>a, <2>3 DEF DeqCount
      <3>5. tail' = (head' + size') % len'
        BY <3>1, <3>3, <3>4
      <3> QED  BY <3>4, <3>5 DEF AloneRest
    <2> QED  BY <1>6, <2>1, <2>2, <2>3 DEF DeqMoveStep
  <1>7. CASE ClearPart(a)
    <2>1. CASE ClearHead(a)
      BY <1>a, <1>i, <2>1 DEF ClearHead
    <2>2. CASE ClearWipe(a)
      BY <1>a, <1>i, <2>2 DEF ClearWipe
    <2>3. CASE ClearHead0(a)
      BY <1>a, <1>i, <2>3 DEF ClearHead0
    <2>4. CASE ClearTail0(a)
      BY <1>a, <1>i, <2>4 DEF ClearTail0
    <2>5. CASE ClearSize0(a)
      BY <1>a, <1>i, <2>5 DEF ClearSize0
    <2> QED  BY <1>7, <2>1, <2>2, <2>3, <2>4, <2>5 DEF ClearPart
  <1> QED  BY <1>1, <1>2, <1>3, <1>4, <1>5, <1>6, <1>7 DEF GroupStep

LEMMA AloneInit ==
  ASSUME NEW a, Alone(a), Init
  PROVE  AloneInv(a)
  <1>a. a \in Procs /\ pc[a] = "idle" /\ loc[a] = NoLocal /\ InitLen \in Nat \ {0}
        /\ (Capacity > 0 => InitLen = Capacity)
    BY NonBlockingAssumption DEF Alone, Init, InitLen
  <1>1. IsRing(Slot, data, head, size, len) /\ tail \in Nat /\ (Capacity > 0 => len = Capacity)
    BY <1>a DEF Init, IsRing, EmptyRing, Slot
  <1>2. pc \in [Procs -> Labels] /\ closed = FALSE /\ done = {}
    BY DEF Init, Labels
  <1>3. NoLocal \in Local
    BY DEF NoLocal, Local, News, Slot
  <1>4. loc \in [Procs -> Local] /\ call \in [Procs -> Calls]
    BY <1>3 DEF Init, NoCall, Calls
  <1>5. tail = (head + size) % len
    BY <1>a DEF Init
  <1> QED  BY <1>a, <1>1, <1>2, <1>4, <1>5
           DEF AloneInv, AloneTypes, AloneEnq, AloneGrow, AloneDeq, AloneRest, Taking, EnqAt, GrowAt

LEMMA AloneKept ==
  ASSUME NEW a, Alone(a), AloneInv(a), [Next]_vars
  PROVE  AloneInv(a)'
  <1>1. CASE UNCHANGED vars \/ \E c \in Ctx : Cancel(c)
    <2>1. /\ UNCHANGED <<data, len, head, tail, size>> /\ UNCHANGED <<closed, pc, loc, call>>
          /\ done' \subseteq Ctx
      BY <1>1 DEF vars, ring, Cancel, AloneInv, AloneTypes
    <2>2. AloneTypes'
      BY <2>1 DEF AloneInv, AloneTypes, IsRing
    <2>3. AloneEnq(a)' /\ AloneGrow(a)'
      BY <2>1 DEF AloneInv, AloneEnq, AloneGrow, Window
    <2>4. AloneDeq(a)' /\ AloneRest(a)'
      BY <2>1 DEF AloneInv, AloneDeq, AloneRest, Taking
    <2> QED  BY <2>2, <2>3, <2>4 DEF AloneInv
  <1>2. CASE CallStep(a)
    <2>1. GroupStep(a)
      BY <1>2, Groups
    <2> QED  BY <2>1, AloneTypesStep, AloneEnqStep, AloneGrowStep, AloneDeqStep, AloneRestStep
             DEF AloneInv
  <1> QED  BY <1>1, <1>2, StepCases DEF Alone

-----------------------------------------------------------------------------
(* The queue's contents, for the one goroutine.                            *)
Mine(a) ==
    IF pc[a] \in {"c:head0", "c:tail0", "c:size0"} THEN <<>>
    ELSE IF pc[a] \in {"x:tail", "x:data"} THEN Window(loc[a].new, 0, size, loc[a].n)
    ELSE IF Taking(a) THEN <<loc[a].item>> \o Window(data, head, size - 1, len)
    ELSE Window(data, head, size, len)

LEMMA ContentsMine ==
  ASSUME NEW a, Alone(a)
  PROVE  Contents = Mine(a)
  <1>1. /\ (\E p \in Procs : pc[p] \in {"c:head0", "c:tail0", "c:size0"})
              <=> pc[a] \in {"c:head0", "c:tail0", "c:size0"}
        /\ (\E p \in Procs : pc[p] \in {"x:tail", "x:data"}) <=> pc[a] \in {"x:tail", "x:data"}
        /\ (\E p \in Procs : Taking(p)) <=> Taking(a)
    BY DEF Alone
  <1>2. /\ pc[a] \in {"x:tail", "x:data"} => Only({"x:tail", "x:data"}) = a
        /\ pc[a] \in {"d:wipe", "d:count"} => Only({"d:wipe", "d:count"}) = a
    BY DEF Alone, Only
  <1>3. CASE pc[a] \in {"c:head0", "c:tail0", "c:size0"}
    <2>1. pc[a] \notin {"x:tail", "x:data"} /\ ~Taking(a)
      BY <1>3 DEF Taking
    <2>2. Contents = <<>>
      BY <1>1, <1>3, <2>1 DEF Contents
    <2> QED  BY <1>3, <2>2 DEF Mine
  <1>4. CASE pc[a] \in {"x:tail", "x:data"}
    <2>1. pc[a] \notin {"c:head0", "c:tail0", "c:size0"} /\ ~Taking(a)
      BY <1>4 DEF Taking
    <2>2. Contents = Window(loc[a].new, 0, size, loc[a].n)
      BY <1>1, <1>2, <1>4, <2>1 DEF Contents
    <2> QED  BY <1>4, <2>1, <2>2 DEF Mine
  <1>5. CASE Taking(a)
    <2>1. pc[a] \in {"d:wipe", "d:count"}
      BY <1>5 DEF Taking
    <2>2. pc[a] \notin {"c:head0", "c:tail0", "c:size0"} /\ pc[a] \notin {"x:tail", "x:data"}
      BY <2>1
    <2>3. Contents = <<loc[a].item>> \o Window(data, head, size - 1, len)
      BY <1>1, <1>2, <1>5, <2>1, <2>2 DEF Contents
    <2> QED  BY <1>5, <2>2, <2>3 DEF Mine
  <1>6. CASE /\ ~Taking(a) /\ pc[a] \notin {"x:tail", "x:data"}
             /\ pc[a] \notin {"c:head0", "c:tail0", "c:size0"}
    <2>1. Contents = Window(data, head, size, len)
      BY <1>1, <1>6 DEF Contents
    <2> QED  BY <1>6, <2>1 DEF Mine
  <1> QED  BY <1>3, <1>4, <1>5, <1>6

LEMMA MineNext ==
  ASSUME NEW a, Alone(a)
  PROVE  Contents' = Mine(a)'
  <1>1. Contents = Mine(a)
    BY ContentsMine
  <1>2. (Contents = Mine(a))'
    BY <1>1, PTL
  <1> QED  BY <1>2

(* Where nothing is copied, moved or wiped, the contents are the window.   *)
Settled == Labels \ {"c:head0", "c:tail0", "c:size0", "x:tail", "x:data", "d:wipe", "d:count"}

LEMMA MineWindow ==
  ASSUME NEW a, Alone(a), AloneInv(a), pc[a] \in Settled
  PROVE  LET w == Window(data, head, size, len)
         IN  Mine(a) = w /\ w \in Seq(Slot) /\ Len(w) = size /\ ((w = <<>>) <=> size = 0)
  <1>1. Mine(a) = Window(data, head, size, len)
    BY DEF Mine, Settled, Taking
  <1>2. IsRing(Slot, data, head, size, len)
    BY DEF AloneInv, AloneTypes
  <1> QED  BY <1>1, <1>2, WindowSeq

(* A write to a slot outside leaves the window as it is.                   *)
LEMMA WindowKept ==
  ASSUME NEW S, NEW n, NEW buf, NEW h, NEW k, IsRing(S, buf, h, k, n), NEW j \in 0..n-1, NEW x,
         \A i \in 1..k : (h + i - 1) % n # j
  PROVE  Window(Write(buf, j, x), h, k, n) = Window(buf, h, k, n)
  <1>1. \A i \in 1..k : (h + i - 1) % n \in 0..n-1
    BY DEF IsRing
  <1>2. \A i \in 1..k : Write(buf, j, x)[(h + i - 1) % n] = buf[(h + i - 1) % n]
    BY <1>1 DEF Write, IsRing
  <1> QED  BY <1>2 DEF Window

-----------------------------------------------------------------------------
(* What each step of the one goroutine does to the contents: those that    *)
(* look, and the moves of an index before an element is in its place, do   *)
(* nothing.                                                                *)
Looking(a) == \/ BeginStep(a) \/ EnqLookStep(a) \/ DeqLookStep(a) \/ ExpandCopies(a)
              \/ EnqCas(a) \/ ClearHead(a)

LEMMA MineLooks ==
  ASSUME NEW a, Alone(a), AloneInv(a), Looking(a)
  PROVE  Mine(a)' = Mine(a) /\ pc[a] \in Settled
  <1>a. a \in Procs /\ pc \in [Procs -> Labels]
    BY AloneIs
  <1>1. UNCHANGED <<data, len, head, size>>
    BY DEF Looking, BeginStep, EnqLookStep, DeqLookStep, Enqueue, Dequeue, Begin, Peek, Clear,
       StatsLock, StatsUnlock, ClearSize,
       Close, EnqClosed, EnqFull, EnqLock, ExpandCopies, EnqTail, EnqSize, EnqCas, DeqAny,
       DeqHead, DeqSize, DeqItem, DeqClosed, PeekSize, PeekClosed, PeekHead, PeekItem, ClearHead,
       Still,
       ring
  <1>2. pc[a] \in Settled
    BY <1>a DEF Looking, BeginStep, EnqLookStep, DeqLookStep, Enqueue, Dequeue, Begin, Peek,
       Clear, StatsLock, StatsUnlock, ClearSize,
       Close, EnqClosed, EnqFull, EnqLock, ExpandCopies, EnqTail, EnqSize, EnqCas, DeqAny, DeqHead,
       DeqSize, DeqItem, DeqClosed, PeekSize, PeekClosed, PeekHead, PeekItem, ClearHead, At, Settled
  <1>3. pc'[a] \notin {"c:head0", "c:tail0", "c:size0", "x:tail", "x:data", "d:wipe", "d:count"}
    BY <1>a, <1>2 DEF Looking, BeginStep, EnqLookStep, DeqLookStep, Enqueue, Dequeue, Begin, Peek,
       Clear, StatsLock, StatsUnlock, ClearSize, Close, EnqClosed, EnqFull, EnqLock, ExpandCopies,
       EnqTail, EnqSize, EnqCas, DeqAny,
       DeqHead, DeqSize, DeqItem, DeqClosed, PeekSize, PeekClosed, PeekHead, PeekItem, ClearHead,
       Goto,
       Return, Settled
  <1> QED  BY <1>1, <1>2, <1>3 DEF Mine, Settled, Taking

LEMMA MineGrow ==
  ASSUME NEW a, Alone(a), AloneInv(a), ExpandHead(a) \/ ExpandTail(a) \/ ExpandData(a)
  PROVE  Mine(a)' = Mine(a)
  <1>a. a \in Procs /\ pc \in [Procs -> Labels] /\ loc \in [Procs -> Local]
    BY AloneIs
  <1>1. CASE ExpandHead(a)
    <2>1. /\ pc[a] = "x:head" /\ pc'[a] = "x:tail" /\ UNCHANGED <<data, len, size, loc>>
          /\ loc[a].n = 2 * len
          /\ Window(loc[a].new, 0, size, 2 * len) = Window(data, head, size, len)
      BY <1>1, <1>a DEF ExpandHead, At, Goto, AloneInv, AloneGrow
    <2>2. /\ Mine(a) = Window(data, head, size, len)
          /\ Mine(a)' = Window(loc[a].new, 0, size, loc[a].n)
      BY <2>1 DEF Mine, Taking
    <2> QED  BY <2>1, <2>2
  <1>2. CASE ExpandTail(a)
    <2>1. pc[a] = "x:tail" /\ pc'[a] = "x:data" /\ UNCHANGED <<data, len, size, loc>>
      BY <1>2, <1>a DEF ExpandTail, At, Goto
    <2> QED  BY <2>1 DEF Mine
  <1>3. CASE ExpandData(a)
    <2>1. /\ pc[a] = "x:data" /\ pc'[a] = "e:tail" /\ UNCHANGED <<head, size>> /\ head = 0
          /\ data' = loc[a].new /\ len' = loc[a].n
      BY <1>3, <1>a DEF ExpandData, At, Goto, AloneInv, AloneGrow
    <2> QED  BY <2>1 DEF Mine, Taking
  <1> QED  BY <1>1, <1>2, <1>3

LEMMA MineEnqWrite ==
  ASSUME NEW a, Alone(a), AloneInv(a), EnqWrite(a)
  PROVE  Mine(a)' = Mine(a)
  <1>a. /\ a \in Procs /\ pc \in [Procs -> Labels] /\ IsRing(Slot, data, head, size, len)
        /\ len \in Nat \ {0} /\ head \in 0..len-1 /\ size \in 0..len
    BY AloneIs DEF AloneInv, AloneTypes
  <1> DEFINE j == (head + size) % len
  <1>1. /\ pc[a] = "e:write" /\ pc'[a] = "e:count" /\ UNCHANGED <<len, head, size, loc>>
        /\ size < len /\ data' = Write(data, j, loc[a].item)
    BY <1>a DEF EnqWrite, At, Goto, AloneInv, AloneEnq, Write
  <1>2. size \in 0..len-1 /\ j \in 0..len-1
    BY <1>1, <1>a
  <1>3. ASSUME NEW i \in 1..size  PROVE (head + i - 1) % len # j
    <2> DEFINE k == i - 1
    <2>1. k \in 0..len-1 /\ k # size /\ head + i - 1 = head + k
      BY <1>2, <1>a
    <2> HIDE DEF k
    <2>2. (head + k) % len # (head + size) % len
      <3>1. \A b, c \in 0..len-1 : (head + b) % len = (head + c) % len => b = c
        BY <1>a, Wrap
      <3> QED  BY <1>2, <2>1, <3>1
    <2> QED  BY <2>1, <2>2
  <1> HIDE DEF j
  <1>4. Window(data', head, size, len) = Window(data, head, size, len)
    BY <1>1, <1>2, <1>3, <1>a, WindowKept
  <1> QED  BY <1>1, <1>4 DEF Mine, Taking

LEMMA MineEnqCount ==
  ASSUME NEW a, Alone(a), AloneInv(a), EnqCount(a)
  PROVE  Mine(a)' = Append(Mine(a), loc[a].item) /\ pc[a] \in Settled /\ size < len
  <1>a. /\ a \in Procs /\ pc \in [Procs -> Labels] /\ IsRing(Slot, data, head, size, len)
        /\ data \in [0..len-1 -> Slot] /\ loc[a].item \in Slot
    BY AloneIs DEF AloneInv, AloneTypes
  <1>1. /\ pc[a] = "e:count" /\ pc'[a] = "s:lock" /\ size' = size + 1
        /\ UNCHANGED <<data, len, head>>
        /\ size < len /\ data[(head + size) % len] = loc[a].item
    BY <1>a DEF EnqCount, Return, At, Goto, AloneInv, AloneEnq
  <1>2. Write(data, (head + size) % len, loc[a].item) = data
    BY <1>1, <1>a DEF Write
  <1>3. Window(Write(data, (head + size) % len, loc[a].item), head, size + 1, len)
          = Append(Window(data, head, size, len), loc[a].item)
    BY <1>1, <1>a, WindowAppend
  <1>4. Mine(a) = Window(data, head, size, len) /\ Mine(a)' = Window(data, head, size + 1, len)
    BY <1>1 DEF Mine, Taking
  <1>5. pc[a] \in Settled
    BY <1>1 DEF Settled, Labels
  <1> QED  BY <1>1, <1>2, <1>3, <1>4, <1>5

LEMMA MineDeqCas ==
  ASSUME NEW a, Alone(a), AloneInv(a), DeqCas(a)
  PROVE  Mine(a)' = Mine(a)
  <1>a. /\ a \in Procs /\ pc \in [Procs -> Labels] /\ IsRing(Slot, data, head, size, len)
        /\ data \in [0..len-1 -> Slot] /\ data[head] \in Slot
    BY AloneIs DEF AloneInv, AloneTypes
  <1>1. /\ pc[a] = "d:cas" /\ loc[a].i = head /\ size > 0 /\ loc[a].n = len
        /\ loc[a].item = data[head]
    BY DEF DeqCas, At, AloneInv, AloneDeq
  <1>2. /\ pc'[a] = "d:wipe" /\ head' = (head + 1) % len /\ UNCHANGED <<data, len, size, loc>>
    BY <1>1, <1>a DEF DeqCas, Goto
  <1>3. Write(data, head, data[head]) = data
    BY <1>a DEF Write
  <1>4. Window(Write(data, head, data[head]), (head + 1) % len, size - 1, len)
          = Tail(Window(data, head, size, len))
    BY <1>1, <1>a, WindowTail
  <1> DEFINE w == Window(data, head, size, len)
  <1>5. w \in Seq(Slot) /\ w # <<>> /\ Head(w) = data[head]
    BY <1>1, <1>a, WindowSeq, WindowHead DEF IsRing
  <1>6. Mine(a) = w /\ Mine(a)' = <<data[head]>> \o Window(data, (head + 1) % len, size - 1, len)
    BY <1>1, <1>2 DEF Mine, Taking
  <1> HIDE DEF w
  <1>7. <<data[head]>> \o Tail(w) = w
    BY <1>5, <1>a, Cons
  <1> QED  BY <1>3, <1>4, <1>6, <1>7 DEF w

LEMMA MineDeqWipe ==
  ASSUME NEW a, Alone(a), AloneInv(a), DeqWipe(a)
  PROVE  Mine(a)' = Mine(a)
  <1>a. /\ a \in Procs /\ pc \in [Procs -> Labels] /\ IsRing(Slot, data, head, size, len)
        /\ len \in Nat \ {0} /\ head \in 0..len-1 /\ size \in 0..len
    BY AloneIs DEF AloneInv, AloneTypes
  <1> DEFINE j == loc[a].i
             k == size - 1
  <1>1. /\ pc[a] = "d:wipe" /\ pc'[a] = "d:count" /\ UNCHANGED <<len, head, size, loc>>
        /\ size > 0 /\ j \in 0..len-1 /\ head = (j + 1) % len
        /\ data' = Write(data, j, Zero)
    BY <1>a DEF DeqWipe, At, Goto, AloneInv, AloneDeq, Taking, Write
  <1>2. k \in 0..len-1
    BY <1>1, <1>a
  <1> HIDE DEF j, k
  <1>3. ASSUME NEW i \in 1..k  PROVE (head + i - 1) % len # j
    <2>1. i \in 1..len-1 /\ i \in 0..len-1 /\ 0 \in 0..len-1 /\ i # 0
      BY <1>2, <1>a
    <2>2. (j + i) % len # (j + 0) % len /\ (j + 0) % len = j
      <3>1. len \in Nat \ {0} /\ j \in 0..len-1
        BY <1>1, <1>a
      <3>2. \A b, c \in 0..len-1 : (j + b) % len = (j + c) % len => b = c
        BY <3>1, Wrap
      <3>3. (j + 0) % len = j
        BY <3>1, Wrap
      <3> QED  BY <2>1, <3>2, <3>3
    <2>3. (((j + 1) % len) + (i - 1)) % len = (j + i) % len
      BY <1>1, <1>a, <2>1, Wrapped
    <2>4. head + i - 1 = head + (i - 1)
      BY <1>a, <2>1
    <2> QED  BY <1>1, <2>2, <2>3, <2>4
  <1>4. IsRing(Slot, data, head, k, len)
    BY <1>2, <1>a DEF IsRing
  <1>5. Window(data', head, k, len) = Window(data, head, k, len)
    BY <1>1, <1>3, <1>4, WindowKept
  <1> QED  BY <1>1, <1>5 DEF Mine, Taking, k

LEMMA MineDeqCount ==
  ASSUME NEW a, Alone(a), AloneInv(a), DeqCount(a)
  PROVE  Mine(a) # <<>> /\ Mine(a)' = Tail(Mine(a)) /\ Head(Mine(a)) = loc[a].item
  <1>a. /\ a \in Procs /\ pc \in [Procs -> Labels] /\ IsRing(Slot, data, head, size, len)
        /\ loc[a].item \in Slot
    BY AloneIs DEF AloneInv, AloneTypes
  <1>1. /\ pc[a] = "d:count" /\ pc'[a] = "s:lock" /\ size' = size - 1
        /\ UNCHANGED <<data, len, head>>
        /\ size > 0
    BY <1>a DEF DeqCount, Return, At, Goto, AloneInv, AloneDeq
  <1> DEFINE w == Window(data, head, size - 1, len)
  <1>2. IsRing(Slot, data, head, size - 1, len)
    BY <1>a, <1>1 DEF IsRing
  <1>3. w \in Seq(Slot)
    BY <1>2, WindowSeq
  <1>4. Mine(a) = <<loc[a].item>> \o w /\ Mine(a)' = w
    BY <1>1 DEF Mine, Taking
  <1> HIDE DEF w
  <1> QED  BY <1>a, <1>3, <1>4, Cons

LEMMA MineClear ==
  ASSUME NEW a, Alone(a), AloneInv(a)
  PROVE  /\ ClearWipe(a) => Mine(a)' = <<>>
         /\ ClearHead0(a) \/ ClearTail0(a) \/ ClearSize0(a) => Mine(a)' = Mine(a)
  <1>a. a \in Procs /\ pc \in [Procs -> Labels] /\ IsRing(Slot, data, head, size, len)
    BY AloneIs DEF AloneInv, AloneTypes
  <1>1. ClearWipe(a) => Mine(a)' = <<>>
    BY <1>a DEF ClearWipe, Goto, Mine
  <1>2. ClearHead0(a) \/ ClearTail0(a) => Mine(a)' = Mine(a)
    BY <1>a DEF ClearHead0, ClearTail0, At, Goto, Mine
  <1>3. ASSUME ClearSize0(a)  PROVE Mine(a)' = Mine(a)
    <2>1. pc[a] = "c:size0" /\ pc'[a] = "idle" /\ size' = 0 /\ UNCHANGED <<data, len, head>>
      BY <1>3, <1>a DEF ClearSize0, At, Goto
    <2>2. IsRing(Slot, data, head, 0, len)
      BY <1>a DEF IsRing
    <2>3. Window(data, head, 0, len) = <<>>
      BY <2>2, WindowSeq
    <2> QED  BY <2>1, <2>3 DEF Mine, Taking
  <1> QED  BY <1>1, <1>2, <1>3

-----------------------------------------------------------------------------
(* What the one goroutine is shown. *)
LEMMA AloneShown ==
  ASSUME NEW a, Alone(a), AloneInv(a)
  PROVE  /\ Results' = [Results EXCEPT ![a] = Shown(a)']
         /\ Results[a] = Shown(a) /\ Results[a].out \notin Fifo!Open
  <1>1. Results' = [Results EXCEPT ![a] = Shown(a)'] /\ Results[a] = Shown(a)
    <2> HIDE DEF Shown
    <2> QED  BY ResultsShown, ResultsNext DEF Alone
  <1>2. Shown(a).out \notin Fifo!Open
    BY DEF Shown, Nothing, Fifo!Open, Alone, AloneInv, AloneTypes, Calls
  <1> QED  BY <1>1, <1>2

LEMMA AloneStutters ==
  ASSUME NEW a, Alone(a), AloneInv(a), Mine(a)' = Mine(a), Shown(a)' = Shown(a),
         closed' = closed, done' = done
  PROVE  UNCHANGED Fifo!vars
  <1>1. Results' = [Results EXCEPT ![a] = Shown(a)] /\ Results[a] = Shown(a)
    BY AloneShown
  <1>2. Results' = Results
    <2> HIDE DEF Shown
    <2> QED  BY <1>1, ResultsShown
  <1>3. Contents' = Contents
    BY ContentsMine, MineNext
  <1> QED  BY <1>2, <1>3 DEF Fifo!vars

(* The calls that are answered at once. *)
LEMMA AloneAnswers ==
  ASSUME NEW a, Alone(a), AloneInv(a), Mine(a)' = Mine(a), closed' = closed, done' = done,
         pc[a] \in Settled
  PROVE  /\ \A x \in Items :
               \/ closed /\ Shown(a)' = [op |-> "try_enqueue", item |-> x, ctx |-> NoCtx,
                                         out |-> "closed"]
               \/ ~closed /\ Overfull
                     /\ Shown(a)' = [op |-> "try_enqueue", item |-> x, ctx |-> NoCtx,
                                     out |-> "full"]
               => Fifo!Next
         /\ size = 0 /\ Shown(a)' \in {Nothing("try_dequeue"), Nothing("peek")} => Fifo!Next
         /\ \A op \in {"enqueue", "dequeue"}, x \in Slot, c \in Ctx \cup {NoCtx} :
               /\ c \in done
               /\ op = "enqueue" => x \in Items
               /\ op = "dequeue" => x = Zero
               /\ Shown(a)' = [op |-> op, item |-> x, ctx |-> c, out |-> "cancelled"]
               => Fifo!Next
  <1>a. a \in Procs
    BY DEF Alone
  <1>b. /\ Results' = [Results EXCEPT ![a] = Shown(a)']
        /\ Results[a].out \notin Fifo!Open
    BY AloneShown
  <1>c. Contents' = Contents /\ Contents = Mine(a)
    BY ContentsMine, MineNext
  <1>d. Len(Mine(a)) = size /\ ((Mine(a) = <<>>) <=> size = 0)
    BY MineWindow
  <1> HIDE DEF Contents, Results, Shown
  <1>e. (Overfull <=> Fifo!Full) /\ (size = 0 <=> Fifo!Empty)
    BY <1>c, <1>d DEF Overfull, Fifo!Full, Fifo!Empty
  <1>1. ASSUME NEW x \in Items,
               \/ closed /\ Shown(a)' = [op |-> "try_enqueue", item |-> x, ctx |-> NoCtx,
                                         out |-> "closed"]
               \/ ~closed /\ Overfull
                     /\ Shown(a)' = [op |-> "try_enqueue", item |-> x, ctx |-> NoCtx,
                                     out |-> "full"]
        PROVE  Fifo!Next
    <2>1. Fifo!TryEnqueue(a, x)
      BY <1>1, <1>b, <1>c, <1>e DEF Fifo!TryEnqueue, Fifo!Record
    <2> QED  BY <1>a, <2>1 DEF Fifo!Next
  <1>2. ASSUME size = 0, Shown(a)' \in {Nothing("try_dequeue"), Nothing("peek")}
        PROVE  Fifo!Next
    <2>1. Fifo!TryDequeue(a) \/ Fifo!Peek(a)
      BY <1>2, <1>b, <1>c, <1>e
         DEF Fifo!TryDequeue, Fifo!Peek, Fifo!Record, Fifo!Nothing, Nothing
    <2> QED  BY <1>a, <2>1 DEF Fifo!Next
  <1>3. ASSUME NEW op \in {"enqueue", "dequeue"}, NEW x \in Slot, NEW c \in Ctx \cup {NoCtx},
               c \in done, op = "enqueue" => x \in Items, op = "dequeue" => x = Zero,
               Shown(a)' = [op |-> op, item |-> x, ctx |-> c, out |-> "cancelled"]
        PROVE  Fifo!Next
    <2>1. Fifo!Invoke(a, op, x, c)
      BY <1>3, <1>b, <1>c DEF Fifo!Invoke
    <2>2. CASE op = "enqueue"
      BY <1>a, <1>3, <2>1, <2>2 DEF Fifo!Next
    <2>3. CASE op = "dequeue"
      BY <1>a, <1>3, <2>1, <2>3 DEF Fifo!Next
    <2> QED  BY <2>2, <2>3
  <1> QED  BY <1>1, <1>2, <1>3

(* The steps that only look: a call is answered, or goes on. *)
LEMMA AloneLookImplements ==
  ASSUME NEW a, Alone(a), AloneInv(a), Looking(a), ~Close(a)
  PROVE  Fifo!Next \/ UNCHANGED Fifo!vars
  <1>a. /\ a \in Procs /\ pc \in [Procs -> Labels] /\ call \in [Procs -> Calls]
        /\ data \in [0..len-1 -> Slot] /\ Zero \in Slot /\ Items \subseteq Slot
        /\ pc[a] \in Labels /\ loc \in [Procs -> Local]
    BY AloneIs DEF AloneInv, AloneTypes
  <1>b. Mine(a)' = Mine(a) /\ pc[a] \in Settled
    BY MineLooks
  <1>c. closed' = closed /\ done' = done
    <2>1. GroupStep(a)
      BY DEF Looking, GroupStep, GrowPart, EnqMoveStep, ClearPart
    <2> QED  BY <2>1, AloneCallStep
  <1>d. pc[a] \in EnqAt \cup GrowAt => loc[a].item \in Items /\ (pc[a] # "e:closed" => ~closed)
    BY DEF AloneInv, AloneEnq
  <1> DEFINE Kept == Shown(a)' = Shown(a)
             Answer(op, x, c, out) == Shown(a)' = [op |-> op, item |-> x, ctx |-> c, out |-> out]
             Told == \/ Kept
                     \/ \E x \in Items : closed /\ Answer("try_enqueue", x, NoCtx, "closed")
                     \/ \E x \in Items : /\ ~closed /\ Overfull
                                         /\ Answer("try_enqueue", x, NoCtx, "full")
                     \/ size = 0 /\ Shown(a)' \in {Nothing("try_dequeue"), Nothing("peek")}
                     \/ \E x \in Items, c \in Ctx \cup {NoCtx} :
                           c \in done /\ Answer("enqueue", x, c, "cancelled")
                     \/ \E c \in Ctx \cup {NoCtx} :
                           c \in done /\ Answer("dequeue", Zero, c, "cancelled")
  <1>t. Told => Fifo!Next \/ UNCHANGED Fifo!vars
    <2> HIDE DEF Shown
    <2> QED  BY <1>a, <1>b, <1>c, AloneAnswers, AloneStutters
  <1>1. CASE BeginStep(a)
    <2>1. ASSUME NEW x \in Items, NEW c \in Ctx \cup {NoCtx}, Enqueue(a, x, c)
          PROVE  Told
      <3>1. CASE c \in done
        BY <2>1, <3>1, <1>a DEF Enqueue, Begin, At, Shown
      <3>2. CASE c \notin done
        BY <2>1, <3>2, <1>a DEF Enqueue, Begin, At, Goto, Shown
      <3> QED  BY <3>1, <3>2
    <2>2. ASSUME NEW c \in Ctx \cup {NoCtx}, Dequeue(a, c)
          PROVE  Told
      <3>1. CASE c \in done
        BY <2>2, <3>1, <1>a DEF Dequeue, Begin, At, Shown
      <3>2. CASE c \notin done
        BY <2>2, <3>2, <1>a DEF Dequeue, Begin, At, Goto, Shown
      <3> QED  BY <3>1, <3>2
    <2>3. CASE Peek(a) \/ Clear(a) \/ ClearSize(a) \/ StatsLock(a) \/ StatsUnlock(a)
      BY <2>3, <1>a, <1>t DEF Peek, Clear, ClearSize, StatsLock, StatsUnlock, At, Goto, Still,
         Shown
    <2> QED  BY <1>1, <1>t, <2>1, <2>2, <2>3 DEF BeginStep
  <1>2. CASE EnqClosed(a)
    <2>1. loc[a].item \in Items
      BY <1>2, <1>d DEF EnqClosed, At, EnqAt
    <2>2. CASE closed
      BY <1>2, <2>1, <2>2, <1>a, <1>t DEF EnqClosed, Return, At, Goto, Shown
    <2>3. CASE ~closed
      BY <1>2, <2>3, <1>a, <1>t DEF EnqClosed, At, Goto, Shown
    <2> QED  BY <2>2, <2>3
  <1>3. CASE EnqFull(a) \/ EnqSize(a)
    <2>1. pc[a] \in {"e:full", "e:size"} /\ loc[a].item \in Items /\ ~closed
      BY <1>3, <1>d DEF EnqFull, EnqSize, At, EnqAt
    <2>2. CASE Overfull
      <3>1. ~TooShort
        BY <2>2 DEF Overfull, TooShort
      <3>2. Answer("try_enqueue", loc[a].item, NoCtx, "full")
        BY <1>3, <1>a, <2>2, <3>1 DEF EnqFull, EnqSize, Return, Goto, Shown
      <3> QED  BY <1>t, <2>1, <2>2, <3>2
    <2>3. CASE ~Overfull
      <3>1. pc'[a] \notin {"d:closed", "p:closed"} /\ call' = call
        BY <1>3, <1>a, <2>3 DEF EnqFull, EnqSize, Goto
      <3>2. Kept
        BY <2>1, <3>1 DEF Shown
      <3> QED  BY <1>t, <3>2
    <2> QED  BY <2>2, <2>3
  <1>4. CASE DeqAny(a) \/ DeqSize(a) \/ PeekSize(a)
    <2>1. CASE size = 0
      BY <1>4, <2>1, <1>a, <1>t DEF DeqAny, DeqSize, PeekSize, At, Goto, Still, Shown, Nothing
    <2>2. CASE size # 0
      BY <1>4, <2>2, <1>a, <1>t DEF DeqAny, DeqSize, PeekSize, At, Goto, Still, Shown
    <2> QED  BY <2>1, <2>2
  <1>5. CASE DeqClosed(a) \/ PeekClosed(a)
    BY <1>5, <1>a, <1>t DEF DeqClosed, PeekSize, PeekClosed, Return, At, Goto, Shown, Nothing
  <1>6. CASE EnqLock(a) \/ EnqTail(a) \/ DeqHead(a) \/ DeqItem(a) \/ PeekHead(a) \/ ExpandCopies(a)
             \/ EnqCas(a) \/ ClearHead(a)
    BY <1>6, <1>a, <1>t DEF EnqLock, EnqTail, DeqHead, DeqItem, PeekHead, ExpandCopies, EnqCas,
       ClearHead, At, Goto, Still, Shown
  <1>7. CASE PeekItem(a)
    <2>1. pc[a] = "p:item" /\ loc[a].i = head /\ size > 0
      BY <1>7 DEF PeekItem, At, AloneInv, AloneDeq
    <2>2. Answer("peek", data[head], NoCtx, "ok")
      BY <1>7, <2>1, <1>a DEF PeekItem, Return, Goto, Shown
    <2>3. Head(Mine(a)) = data[head] /\ Mine(a) # <<>>
      <3>1. Mine(a) = Window(data, head, size, len) /\ (Mine(a) = <<>> <=> size = 0)
        BY <1>b, MineWindow
      <3>2. IsRing(Slot, data, head, size, len)
        BY DEF AloneInv, AloneTypes
      <3>3. Head(Window(data, head, size, len)) = data[head]
        BY <2>1, <3>2, WindowHead
      <3> QED  BY <2>1, <3>1, <3>3
    <2>4. Contents' = Contents /\ Contents = Mine(a)
      BY <1>b, ContentsMine, MineNext
    <2>5. Results' = [Results EXCEPT ![a] = Shown(a)'] /\ Results[a].out \notin Fifo!Open
      BY AloneShown
    <2>6. Fifo!Peek(a)
      <3> HIDE DEF Contents, Results, Shown
      <3> QED  BY <1>c, <2>2, <2>3, <2>4, <2>5 DEF Fifo!Peek, Fifo!Record, Fifo!Empty
    <2> QED  BY <1>a, <2>6 DEF Fifo!Next
  <1> QED  BY <1>1, <1>2, <1>3, <1>4, <1>5, <1>6, <1>7 DEF Looking, EnqLookStep, DeqLookStep

(* The steps that write, and the moves of the indices. *)
LEMMA AloneMoveImplements ==
  ASSUME NEW a, Alone(a), AloneInv(a), GroupStep(a), ~Looking(a)
  PROVE  Fifo!Next \/ UNCHANGED Fifo!vars
  <1>a. /\ a \in Procs /\ pc \in [Procs -> Labels] /\ call \in [Procs -> Calls]
        /\ (Capacity > 0 => len = Capacity) /\ size \in 0..len /\ len \in Nat /\ Capacity \in Nat
    BY AloneIs, NonBlockingAssumption DEF AloneInv, AloneTypes
  <1>b. Results' = [Results EXCEPT ![a] = Shown(a)'] /\ Results[a].out \notin Fifo!Open
    BY AloneShown
  <1>c. Contents = Mine(a) /\ Contents' = Mine(a)'
    BY ContentsMine, MineNext
  <1>d. closed' = closed /\ done' = done
    <2>1. ~Close(a)
      BY DEF Looking, BeginStep
    <2> QED  BY <2>1, AloneCallStep
  <1>1. CASE EnqWrite(a) \/ DeqCas(a) \/ DeqWipe(a)
             \/ ExpandHead(a) \/ ExpandTail(a) \/ ExpandData(a)
             \/ ClearHead0(a) \/ ClearTail0(a) \/ ClearSize0(a)
    <2>1. Mine(a)' = Mine(a)
      BY <1>1, MineEnqWrite, MineDeqCas, MineDeqWipe, MineGrow, MineClear
    <2>2. Shown(a)' = Shown(a)
      BY <1>1, <1>a DEF EnqWrite, DeqCas, DeqWipe, ExpandHead, ExpandTail, ExpandData, ClearHead0,
         ClearTail0, ClearSize0, At, Goto, Shown
    <2> QED  BY <1>d, <2>1, <2>2, AloneStutters
  <1>2. CASE EnqCount(a)
    <2>1. pc[a] = "e:count" /\ loc[a].item \in Items /\ ~closed
      BY <1>2 DEF EnqCount, At, AloneInv, AloneEnq, EnqAt
    <2>2. Mine(a)' = Append(Mine(a), loc[a].item) /\ pc[a] \in Settled /\ size < len
      BY <1>2, MineEnqCount
    <2>3. Len(Mine(a)) = size
      BY <2>2, MineWindow
    <2>4. Shown(a)' = [op |-> "try_enqueue", item |-> loc[a].item, ctx |-> NoCtx, out |-> "ok"]
      BY <1>2, <1>a DEF EnqCount, Return, Goto, Shown
    <2>5. ~Fifo!Full
      <3> HIDE DEF Contents
      <3> QED  BY <1>a, <1>c, <2>2, <2>3 DEF Fifo!Full
    <2>6. Fifo!TryEnqueue(a, loc[a].item)
      <3> HIDE DEF Contents, Results, Shown
      <3> QED  BY <1>b, <1>c, <1>d, <2>1, <2>2, <2>4, <2>5 DEF Fifo!TryEnqueue, Fifo!Record
    <2> QED  BY <1>a, <2>1, <2>6 DEF Fifo!Next
  <1>3. CASE DeqCount(a)
    <2>1. Mine(a) # <<>> /\ Mine(a)' = Tail(Mine(a)) /\ Head(Mine(a)) = loc[a].item
      BY <1>3, MineDeqCount
    <2>2. Shown(a)' = [op |-> "try_dequeue", item |-> loc[a].item, ctx |-> NoCtx, out |-> "ok"]
      BY <1>3, <1>a DEF DeqCount, Return, Goto, Shown
    <2>3. Fifo!TryDequeue(a)
      <3> HIDE DEF Contents, Results, Shown
      <3> QED  BY <1>b, <1>c, <1>d, <2>1, <2>2 DEF Fifo!TryDequeue, Fifo!Record, Fifo!Empty
    <2> QED  BY <1>a, <2>3 DEF Fifo!Next
  <1>4. CASE ClearWipe(a)
    <2>1. Mine(a)' = <<>>
      BY <1>4, MineClear
    <2>2. Shown(a)' = Shown(a)
      BY <1>4, <1>a DEF ClearWipe, At, Goto, Shown
    <2>3. Results' = Results
      <3> HIDE DEF Shown
      <3> QED  BY <1>b, <2>2, AloneShown, ResultsShown
    <2>4. Fifo!Clear
      <3> HIDE DEF Contents, Results, Shown
      <3> QED  BY <1>c, <1>d, <2>1, <2>3 DEF Fifo!Clear
    <2> QED  BY <2>4 DEF Fifo!Next
  <1> QED  BY <1>1, <1>2, <1>3, <1>4
           DEF GroupStep, GrowPart, EnqMoveStep, DeqMoveStep, ClearPart, Looking

(* Every step is a step of the FIFO queue, or none. *)
LEMMA AloneImplements ==
  ASSUME NEW a, Alone(a), AloneInv(a), [Next]_vars
  PROVE  Fifo!Next \/ UNCHANGED Fifo!vars
  <1>c. Contents = Mine(a) /\ Contents' = Mine(a)'
    BY ContentsMine, MineNext
  <1>1. ASSUME UNCHANGED <<data, len, head, size>>, UNCHANGED <<pc, loc, call>>, closed' = closed
        PROVE  Contents' = Contents /\ Results' = Results
    <2>1. Mine(a)' = Mine(a)
      BY <1>1 DEF Mine, Taking
    <2>2. Results' = Results
      BY <1>1, ResultsShown, ResultsNext DEF Shown, Nothing
    <2> QED  BY <1>c, <2>1, <2>2
  <1>2. CASE UNCHANGED vars
    <2>1. UNCHANGED <<data, len, head, size>> /\ UNCHANGED <<pc, loc, call>> /\ closed' = closed
          /\ done' = done
      BY <1>2 DEF vars, ring
    <2> QED  BY <1>1, <2>1 DEF Fifo!vars
  <1>3. ASSUME NEW c \in Ctx, Cancel(c)
        PROVE  Fifo!Next
    <2>1. UNCHANGED <<data, len, head, size>> /\ UNCHANGED <<pc, loc, call>> /\ closed' = closed
          /\ done' = done \cup {c}
      BY <1>3 DEF Cancel, ring
    <2>2. Fifo!Cancel(c)
      BY <1>1, <2>1 DEF Fifo!Cancel
    <2> QED  BY <2>2 DEF Fifo!Next
  <1>4. CASE Close(a)
    <2>1. /\ UNCHANGED <<data, len, head, size>> /\ UNCHANGED <<pc, loc, call>> /\ closed' = TRUE
          /\ done' = done /\ pc[a] = "idle"
      BY <1>4 DEF Close, At, ring
    <2>2. Mine(a)' = Mine(a)
      BY <2>1 DEF Mine, Taking
    <2>3. \A q \in Procs : Shown(q)' = Shown(q)
      BY <2>1 DEF Shown, Alone
    <2>4. Results' = Results
      <3> HIDE DEF Shown
      <3> QED  BY <2>3, ResultsShown, ResultsNext
    <2>5. Fifo!Close
      BY <1>c, <2>1, <2>2, <2>4 DEF Fifo!Close
    <2> QED  BY <2>5 DEF Fifo!Next
  <1>5. CASE CallStep(a) /\ ~Close(a)
    <2>1. GroupStep(a)
      BY <1>5, Groups
    <2> QED  BY <1>5, <2>1, AloneLookImplements, AloneMoveImplements
  <1> QED  BY <1>2, <1>3, <1>4, <1>5, StepCases DEF Alone

(* One goroutine alone finds a FIFO queue whatever it calls, bounded or    *)
(* not: the slice grows under it, is cleared and wraps around, and nothing *)
(* is lost, invented or reordered.                                         *)
THEOREM AloneRefines ==
  ASSUME NEW a, Alone(a)
  PROVE  Spec => ImplementsFifo
  <1>1. Init => AloneInv(a)
    BY AloneInit
  <1>2. AloneInv(a) /\ [Next]_vars => AloneInv(a)' /\ [Fifo!Next]_(Fifo!vars)
    <2> SUFFICES ASSUME AloneInv(a), [Next]_vars
                 PROVE  AloneInv(a)' /\ [Fifo!Next]_(Fifo!vars)
      OBVIOUS
    <2>1. AloneInv(a)'
      BY AloneKept
    <2>2. Fifo!Next \/ UNCHANGED Fifo!vars
      BY AloneImplements
    <2> QED  BY <2>1, <2>2
  <1>3. Init => Fifo!Init
    <2> SUFFICES ASSUME Init  PROVE Fifo!Init
      OBVIOUS
    <2>1. AloneInv(a) /\ size = 0 /\ pc[a] \in Settled
      BY AloneInit DEF Init, Alone, Settled, Labels
    <2>2. Contents = <<>>
      BY <2>1, ContentsMine, MineWindow
    <2>3. \A q \in Procs : Shown(q) = NoCall
      BY DEF Init, Shown
    <2>4. Results = [q \in Procs |-> NoCall]
      <3> HIDE DEF Shown
      <3> QED  BY <2>3, ResultsShown
    <2>5. closed = FALSE /\ done = {}
      BY DEF Init
    <2> HIDE DEF Contents, Results
    <2> QED  BY <2>2, <2>4, <2>5 DEF Fifo!Init, NoCall, Fifo!NoCall
  <1> QED  BY <1>1, <1>2, <1>3, PTL DEF Spec, ImplementsFifo, Fifo!Spec
=============================================================================
