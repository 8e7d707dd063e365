------------------------ MODULE BlockingQueueProofs ------------------------
(***************************************************************************)
(* BlockingQueue keeps its invariants and implements FifoQueue, for every  *)
(* set of callers, elements and contexts, every capacity, with and without *)
(* timeouts, and wherever the growth of an unbounded queue is stopped.     *)
(*                                                                         *)
(* None of TypeOK, RingInv and RoundInv is inductive alone: a slot index   *)
(* stays in range because the queue was not full, which RingInv relates to *)
(* the length of the slice; a used slot holds an element because the       *)
(* caller that fills it holds one, which is RoundInv. Their conjunction    *)
(* IInv is inductive.                                                      *)
(***************************************************************************)
EXTENDS BlockingQueue, TLAPS

-----------------------------------------------------------------------------
(* What the operations on the circular slice do to the sequence of its     *)
(* used slots, for every length of the slice and every position of head.   *)

(* A slice of n slots of which k are in use from h on.                     *)
IsRing(S, buf, h, k, n) ==
    n \in Nat \ {0} /\ buf \in [0..n-1 -> S] /\ h \in 0..n-1 /\ k \in 0..n

(* One slot written. *)
Write(buf, i, x) == [buf EXCEPT ![i] = x]

(* The used slots form a sequence as long as the count.                    *)
LEMMA WindowSeq ==
  ASSUME NEW S, NEW n, NEW buf, NEW h, NEW k, IsRing(S, buf, h, k, n)
  PROVE  LET w == Window(buf, h, k, n)
         IN  w \in [1..k -> S] /\ w \in Seq(S) /\ Len(w) = k /\ ((w = <<>>) <=> k = 0)
  <1> DEFINE w == Window(buf, h, k, n)
  <1>1. w \in [1..k -> S] /\ k \in Nat
    BY DEF Window, IsRing
  <1> HIDE DEF w
  <1>2. w \in Seq(S) /\ Len(w) = k
    BY <1>1
  <1> QED  BY <1>1, <1>2 DEF w

(* The next element to be dequeued is the one at head.                     *)
LEMMA WindowHead ==
  ASSUME NEW S, NEW n, NEW buf, NEW h, NEW k, IsRing(S, buf, h, k, n), k > 0
  PROVE  Head(Window(buf, h, k, n)) = buf[h]
  <1> DEFINE w == Window(buf, h, k, n)
  <1>1. (h + 1 - 1) % n = h /\ 1 \in 1..k
    BY DEF IsRing
  <1>2. w[1] = buf[h]
    BY <1>1 DEF Window
  <1>3. w \in Seq(S) /\ w # <<>>
    BY <1>1, WindowSeq DEF IsRing
  <1> HIDE DEF w
  <1> QED  BY <1>2, <1>3 DEF w

(* Writing the slot after the last used one appends.                       *)
LEMMA WindowAppend ==
  ASSUME NEW S, NEW n, NEW buf, NEW h, NEW k, IsRing(S, buf, h, k, n),
         k < n, NEW x \in S
  PROVE  Window(Write(buf, (h + k) % n, x), h, k + 1, n)
           = Append(Window(buf, h, k, n), x)
  <1> DEFINE w == Window(buf, h, k, n)
             d == Write(buf, (h + k) % n, x)
  <1>1. \A i \in 1..k + 1 : d[(h + i - 1) % n] = IF i = k + 1 THEN x ELSE w[i]
    <2>1. (h + k) % n \in 0..n-1 /\ h + (k + 1) - 1 = h + k
          /\ \A i \in 1..k : /\ (h + i - 1) % n # (h + k) % n
                                /\ (h + i - 1) % n \in 0..n-1
      BY DEF IsRing
    <2>2. \A i \in 1..k : w[i] = buf[(h + i - 1) % n]
      BY DEF Window
    <2>3. \A i \in 1..k + 1 : i = k + 1 \/ (i \in 1..k /\ i # k + 1)
      BY DEF IsRing
    <2>4. /\ d[(h + k) % n] = x
          /\ \A i \in 1..k : d[(h + i - 1) % n] = buf[(h + i - 1) % n]
      BY <2>1 DEF Write, IsRing
    <2> HIDE DEF w, d
    <2> QED  BY <2>1, <2>2, <2>3, <2>4
  <1>2. Append(w, x) = [i \in 1..k + 1 |-> IF i = k + 1 THEN x ELSE w[i]]
    <2> USE DEF IsRing
    <2>1. w \in [1..k -> S]
      BY DEF Window
    <2>2. w \in Seq(S) /\ Len(w) = k
      BY <2>1
    <2> QED  BY <2>1, <2>2
  <1> HIDE DEF w, d
  <1> QED  BY <1>1, <1>2 DEF Window, w, d

(* Clearing the slot at head and moving head on removes the first element. *)
LEMMA WindowTail ==
  ASSUME NEW S, NEW n, NEW buf, NEW h, NEW k, IsRing(S, buf, h, k, n),
         k > 0, NEW z \in S
  PROVE  Window(Write(buf, h, z), (h + 1) % n, k - 1, n)
           = Tail(Window(buf, h, k, n))
  <1> DEFINE w == Window(buf, h, k, n)
             d == Write(buf, h, z)
  <1>1. \A i \in 1..k - 1 : d[(((h + 1) % n) + i - 1) % n] = w[i + 1]
    <2>1. \A i \in 1..k - 1 : /\ (((h + 1) % n) + i - 1) % n = (h + i) % n
                                 /\ (h + i) % n # h /\ (h + i) % n \in 0..n-1
                                 /\ h + (i + 1) - 1 = h + i
      BY DEF IsRing
    <2>2. \A i \in 1..k - 1 : w[i + 1] = buf[(h + (i + 1) - 1) % n]
      BY DEF Window, IsRing
    <2> HIDE DEF w
    <2> QED  BY <2>1, <2>2 DEF Write, IsRing
  <1>2. Tail(w) = [i \in 1..k - 1 |-> w[i + 1]]
    <2> USE DEF IsRing
    <2>1. w \in [1..k -> S]
      BY DEF Window
    <2>2. w \in Seq(S) /\ Len(w) = k
      BY <2>1
    <2> QED  BY <2>1, <2>2
  <1> HIDE DEF w, d
  <1> QED  BY <1>1, <1>2 DEF Window, w, d

-----------------------------------------------------------------------------
RingOK == RingTypeOK /\ RingInv
IInv   == TypeOK /\ RingInv /\ RoundInv

Contents == Window(data, head, size, len)
Slots    == Items \cup {Zero}

-----------------------------------------------------------------------------
(* The operations on the slice.                                            *)

(* The typing facts in the form in which the lemmas on windows want them.  *)
LEMMA RingTypes ==
  ASSUME RingOK
  PROVE  /\ IsRing(Slots, data, head, size, len)
         /\ Zero \in Slots /\ Items \subseteq Slots
  BY DEF RingOK, RingTypeOK, Slots, IsRing

(* The used slots are copied in order: growing changes no element.         *)
LEMMA GrownOK ==
  ASSUME RingOK
  PROVE  /\ Grown(data, head, size, len) \in [0..2*len-1 -> Slots]
         /\ Window(Grown(data, head, size, len), 0, size, 2*len) = Contents
  <1> DEFINE g == Grown(data, head, size, len)
             v == Window(g, 0, size, 2*len)
  <1> USE DEF RingOK, RingTypeOK, Slots
  <1>1. g \in [0..2*len-1 -> Slots]
    BY DEF Grown
  <1>2. \A i \in 1..size : /\ (0 + i - 1) % (2*len) = i - 1
                           /\ head + (i - 1) = head + i - 1
                           /\ i - 1 \in 0..2*len-1 /\ i - 1 < size
    OBVIOUS
  <1>3. ASSUME NEW i \in 1..size
        PROVE  v[i] = Contents[i]
    <2>1. v[i] = g[(0 + i - 1) % (2*len)]
      BY DEF Window
    <2>2. g[i - 1] = data[(head + (i - 1)) % len]
      BY <1>2 DEF Grown
    <2>3. Contents[i] = data[(head + i - 1) % len]
      BY DEF Contents, Window
    <2> QED  BY <1>2, <2>1, <2>2, <2>3
  <1>4. /\ v = [i \in 1..size |-> v[i]]
        /\ Contents = [i \in 1..size |-> Contents[i]]
    BY DEF Contents, Window
  <1>5. v = Contents
    BY <1>3, <1>4
  <1> QED  BY <1>1, <1>5

(* Putting an element where there is room, or where the slice may grow,    *)
(* keeps the slice well-formed and appends to its contents.                *)
LEMMA PutItemOK ==
  ASSUME RingOK, NEW x \in Items, isFull => Capacity = 0, PutItem(x)
  PROVE  RingOK' /\ Contents' = Append(Contents, x)
  <1> USE QueueAssumption
  <1>1. CASE ~isFull
    <2>1. size < len
      BY <1>1 DEF RingOK, RingTypeOK, RingInv, isFull
    <2>2. /\ len' = len /\ head' = head /\ size' = size + 1
          /\ tail' = (tail + 1) % len
          /\ data' = [data EXCEPT ![(head + size) % len] = x]
      BY <1>1 DEF PutItem, RingOK, RingInv
    <2>3. RingTypeOK'
      BY <2>1, <2>2 DEF RingOK, RingTypeOK
    <2>4. tail' = (head' + size') % len'
      BY <2>1, <2>2 DEF RingOK, RingTypeOK, RingInv
    <2>5. ASSUME NEW i \in 0..len-1
          PROVE  (data'[(head + i) % len] \in Items) <=> i < size + 1
      <3>1. /\ (head + i) % len \in 0..len-1
            /\ (head + i) % len = (head + size) % len <=> i = size
        BY <2>1 DEF RingOK, RingTypeOK
      <3>2. data'[(head + i) % len] = IF i = size THEN x ELSE data[(head + i) % len]
        BY <2>2, <3>1 DEF RingOK, RingTypeOK
      <3>3. (data[(head + i) % len] \in Items) <=> i < size
        BY DEF RingOK, RingInv
      <3> QED  BY <3>2, <3>3 DEF RingOK, RingTypeOK
    <2>6. RingInv'
      BY <2>2, <2>4, <2>5 DEF RingInv, RingOK
    <2>7. Contents' = Append(Contents, x)
      <3>1. x \in Slots /\ size < len
        BY <2>1, RingTypes
      <3>2. Window(Write(data, (head + size) % len, x), head, size + 1, len)
              = Append(Window(data, head, size, len), x)
        BY <3>1, RingTypes, WindowAppend
      <3> QED  BY <2>2, <3>2 DEF Contents, Write
    <2> QED  BY <2>3, <2>6, <2>7 DEF RingOK
  <1>2. CASE isFull
    <2> DEFINE g == Grown(data, head, size, len)
    <2>1. size = len /\ Capacity = 0
      BY <1>2 DEF RingOK, RingTypeOK, isFull
    <2>2. /\ len' = 2 * len /\ head' = 0 /\ size' = size + 1
          /\ tail' = (size + 1) % (2 * len)
          /\ data' = [g EXCEPT ![size] = x]
      BY <1>2 DEF PutItem
    <2>3. /\ g \in [0..2*len-1 -> Slots]
          /\ Window(g, 0, size, 2*len) = Contents
      BY GrownOK
    <2>4. /\ 2 * len \in Nat \ {0} /\ size \in 0..2*len-1
          /\ (size + 1) % (2*len) \in 0..2*len-1
          /\ size + 1 \in 0..2*len
      BY <2>1 DEF RingOK, RingTypeOK
    <2>5. RingTypeOK'
      <3>1. data' \in [0..2*len-1 -> Slots]
        BY <2>2, <2>3, <2>4 DEF Slots
      <3> QED  BY <2>2, <2>4, <3>1 DEF RingTypeOK, Slots
    <2>6. ASSUME NEW i \in 0..2*len-1
          PROVE  (data'[(0 + i) % (2*len)] \in Items) <=> i < size + 1
      <3>1. (0 + i) % (2*len) = i
        BY <2>4
      <3>2. data'[i] = IF i = size THEN x ELSE g[i]
        BY <2>2, <2>3
      <3>3. CASE i < size
        <4>1. g[i] = data[(head + i) % len]
          BY <3>3 DEF Grown
        <4>2. data[(head + i) % len] \in Items
          BY <2>1, <3>3, i \in 0..len-1 DEF RingOK, RingInv, RingTypeOK
        <4> QED  BY <3>1, <3>2, <3>3, <4>1, <4>2 DEF RingOK, RingTypeOK
      <3>4. CASE i = size
        BY <3>1, <3>2, <3>4 DEF RingOK, RingTypeOK
      <3>5. CASE i > size
        <4>1. g[i] = Zero
          BY <3>5 DEF Grown, RingOK, RingTypeOK
        <4> QED  BY <3>1, <3>2, <3>5, <4>1 DEF RingOK, RingTypeOK
      <3> QED  BY <3>3, <3>4, <3>5 DEF RingOK, RingTypeOK
    <2>7. RingInv'
      <3>1. tail' = (head' + size') % len'
        BY <2>2, <2>4
      <3> QED  BY <2>1, <2>2, <2>6, <3>1 DEF RingInv
    <2>8. Contents' = Append(Contents, x)
      <3>1. (0 + size) % (2*len) = size
        BY <2>4
      <3>2. x \in Slots /\ 0 \in 0..2*len-1
        BY <2>4 DEF Slots
      <3>3. Window(Write(g, (0 + size) % (2*len), x), 0, size + 1, 2*len)
              = Append(Window(g, 0, size, 2*len), x)
        <4> HIDE DEF g
        <4>1. IsRing(Slots, g, 0, size, 2*len) /\ size < 2*len
          BY <2>3, <2>4 DEF IsRing
        <4> QED  BY <3>2, <4>1, WindowAppend
      <3> QED  BY <2>2, <2>3, <3>1, <3>3 DEF Contents, Write
    <2> QED  BY <2>5, <2>7, <2>8 DEF RingOK
  <1> QED  BY <1>1, <1>2

(* Taking an element keeps the slice well-formed; it is the first of the   *)
(* contents, and the rest of them stays.                                   *)
LEMMA TakeItemOK ==
  ASSUME RingOK, ~isEmpty, TakeItem
  PROVE  /\ RingOK'
         /\ Contents # <<>> /\ Contents' = Tail(Contents) /\ data[head] = Head(Contents)
  <1> USE QueueAssumption
  <1>1. size \in 1..len /\ size > 0
    BY DEF RingOK, RingTypeOK, isEmpty
  <1>2. /\ data' = [data EXCEPT ![head] = Zero] /\ head' = (head + 1) % len
        /\ size' = size - 1 /\ len' = len /\ tail' = tail
    BY DEF TakeItem
  <1>3. RingTypeOK'
    BY <1>1, <1>2 DEF RingOK, RingTypeOK
  <1>4. ASSUME NEW i \in 0..len-1
        PROVE  (data'[(((head + 1) % len) + i) % len] \in Items) <=> i < size - 1
    <2>1. CASE i = len - 1
      <3>1. (((head + 1) % len) + i) % len = head
        BY <2>1 DEF RingOK, RingTypeOK
      <3> QED  BY <1>1, <1>2, <2>1, <3>1 DEF RingOK, RingTypeOK
    <2>2. CASE i # len - 1
      <3>1. /\ (((head + 1) % len) + i) % len = (head + (i + 1)) % len
            /\ (head + (i + 1)) % len # head /\ (head + (i + 1)) % len \in 0..len-1
            /\ i + 1 \in 0..len-1
        BY <2>2 DEF RingOK, RingTypeOK
      <3>2. (data[(head + (i + 1)) % len] \in Items) <=> i + 1 < size
        BY <3>1 DEF RingOK, RingInv
      <3>3. data'[(head + (i + 1)) % len] = data[(head + (i + 1)) % len]
        BY <1>2, <3>1 DEF RingOK, RingTypeOK
      <3> QED  BY <1>1, <3>1, <3>2, <3>3
    <2> QED  BY <2>1, <2>2
  <1>5. tail' = (head' + size') % len'
    <2>1. (((head + 1) % len) + (size - 1)) % len = (head + size) % len
      BY <1>1 DEF RingOK, RingTypeOK
    <2> QED  BY <1>2, <2>1 DEF RingOK, RingInv
  <1>6. RingInv'
    BY <1>2, <1>4, <1>5 DEF RingInv, RingOK
  <1>7. Contents' = Tail(Contents)
    <2>1. Window(Write(data, head, Zero), (head + 1) % len, size - 1, len)
            = Tail(Window(data, head, size, len))
      BY <1>1, RingTypes, WindowTail
    <2> QED  BY <1>2, <2>1 DEF Contents, Write
  <1>8. data[head] = Head(Contents)
    BY <1>1, RingTypes, WindowHead DEF Contents
  <1>9. Contents # <<>>
    BY <1>1, RingTypes, WindowSeq DEF Contents
  <1> QED  BY <1>3, <1>6, <1>7, <1>8, <1>9 DEF RingOK

(* Clearing leaves a well-formed, empty slice: every used slot is wiped.   *)
LEMMA ClearOK ==
  ASSUME RingOK, data' = Wiped(data, head, size, len), len' = len,
         head' = 0, tail' = 0, size' = 0
  PROVE  RingOK' /\ Contents' = <<>>
  <1> USE QueueAssumption DEF RingOK, RingTypeOK
  <1>1. ASSUME NEW j \in 0..len-1
        PROVE  data'[j] = Zero
    <2> DEFINE i == IF j >= head THEN j - head ELSE j - head + len
    <2>1. i \in 0..len-1 /\ j = (head + i) % len
      OBVIOUS
    <2>2. data'[j] = IF \E k \in 0..size-1 : j = (head + k) % len THEN Zero ELSE data[j]
      BY DEF Wiped
    <2>3. CASE i < size
      <3>1. i \in 0..size-1
        BY <2>1, <2>3
      <3> HIDE DEF i
      <3> QED  BY <2>1, <2>2, <3>1
    <2>4. CASE ~(i < size)
      <3>1. (data[(head + i) % len] \in Items) <=> i < size
        BY <2>1 DEF RingInv
      <3>2. data[j] = Zero
        <4> HIDE DEF i
        <4> QED  BY <2>1, <2>4, <3>1
      <3> QED  BY <2>2, <3>2
    <2> QED  BY <2>3, <2>4
  <1>2. RingTypeOK'
    <2>1. data' = [j \in 0..len-1 |-> data'[j]]
      BY DEF Wiped
    <2> QED  BY <1>1, <2>1
  <1>3. \A i \in 0..len-1 : (0 + i) % len \in 0..len-1
    OBVIOUS
  <1>4. RingInv'
    <2>1. tail' = (head' + size') % len'
      OBVIOUS
    <2>2. \A i \in 0..len-1 : data'[(0 + i) % len] = Zero
      BY <1>1, <1>3
    <2>3. ASSUME NEW i \in 0..len-1
          PROVE  (data'[(0 + i) % len] \in Items) <=> i < 0
      <3>1. data'[(0 + i) % len] = Zero
        BY <2>2
      <3>2. ~(i < 0)
        OBVIOUS
      <3>3. Zero \notin Items
        BY QueueAssumption
      <3> QED  BY <3>1, <3>2, <3>3, Zenon
    <2>4. \A i \in 0..len'-1 : (data'[(head' + i) % len'] \in Items) <=> i < size'
      BY <2>3
    <2> HIDE DEF RingOK, RingTypeOK
    <2> QED  BY <2>1, <2>4 DEF RingInv, RingOK
  <1>5. Contents' = <<>>
    BY DEF Contents, Window
  <1> QED  BY <1>2, <1>4, <1>5

-----------------------------------------------------------------------------
(* Every step keeps the slice well-formed.                                 *)
LEMMA RingStep ==
  ASSUME IInv, [Next]_vars
  PROVE  RingOK'
  <1>0. RingOK
    BY DEF IInv, TypeOK, RingOK
  <1>1. ASSUME NEW p \in Procs, FinishEnqueue(p)
        PROVE  RingOK'
    <2>1. call[p].item \in Items
      BY <1>1 DEF FinishEnqueue, AtCondition, IInv, RoundInv
    <2>2. isFull => Capacity = 0
      BY <1>1, QueueAssumption DEF FinishEnqueue, Blocked
    <2>3. PutItem(call[p].item)
      BY <1>1 DEF FinishEnqueue
    <2> QED  BY <1>0, <2>1, <2>2, <2>3, PutItemOK
  <1>2. ASSUME NEW p \in Procs, FinishDequeue(p)
        PROVE  RingOK'
    BY <1>0, <1>2, TakeItemOK DEF FinishDequeue
  <1>3. ASSUME NEW p \in Procs, NEW x \in Items, TryEnqueue(p, x)
        PROVE  RingOK'
    <2>1. CASE UNCHANGED ring
      BY <1>0, <2>1 DEF ring, RingOK, RingTypeOK, RingInv
    <2>2. CASE PutItem(x) /\ ~(isFull /\ Capacity > 0)
      <3>1. isFull => Capacity = 0
        BY <2>2, QueueAssumption
      <3> QED  BY <1>0, <2>2, <3>1, PutItemOK
    <2> QED  BY <1>3, <2>1, <2>2 DEF TryEnqueue
  <1>4. ASSUME NEW p \in Procs, TryDequeue(p)
        PROVE  RingOK'
    <2>1. CASE UNCHANGED ring
      BY <1>0, <2>1 DEF ring, RingOK, RingTypeOK, RingInv
    <2>2. CASE ~isEmpty /\ TakeItem
      BY <1>0, <2>2, TakeItemOK
    <2> QED  BY <1>4, <2>1, <2>2 DEF TryDequeue
  <1>5. CASE Clear
    BY <1>0, <1>5, ClearOK DEF Clear
  <1>6. CASE UNCHANGED ring
    BY <1>0, <1>6 DEF ring, RingOK, RingTypeOK, RingInv
  <1>7. ASSUME NEW p \in Procs, Selects(p)
        PROVE  UNCHANGED ring
    BY <1>7 DEF Selects, SelectNilCtx, SelectTimer, SelectDone, SelectWaitCh,
                SelectTick, Select
  <1>8. ASSUME NEW w \in stale, StaleExits(w) \/ StaleSees(w) \/ StaleCloses(w)
        PROVE  UNCHANGED ring
    BY <1>8 DEF StaleExits, StaleSees, StaleCloses
  <1> QED
    BY <1>1, <1>2, <1>3, <1>4, <1>5, <1>6, <1>7, <1>8
    DEF Next, Call, StartRound, Finish, FinishClosed, Park, WakerFires,
        GiveUpTimeout, GiveUpCancelled, TimerFires, WatcherSees, WatcherCloses,
        Peek, Close, Cancel, Halt, vars

-----------------------------------------------------------------------------
(* Every step keeps the types. RingStep has done the slice.                *)
LEMMA TypeStep ==
  ASSUME IInv, [Next]_vars
  PROVE  TypeOK'
  <1> USE QueueAssumption DEF IInv
  <1>0. RingTypeOK'
    BY RingStep DEF RingOK
  <1> DEFINE T == /\ closed \in BOOLEAN /\ crashed \in BOOLEAN
                  /\ pc \in [Procs -> {"idle", "enter", "arm", "parked", "woken",
                                       "select", "retry", "timeout", "cancel"}]
                  /\ call \in [Procs -> Calls]
                  /\ watcher \in [Procs -> {"none", "watching", "locking", "closed"}]
                  /\ waker \in [Procs -> BOOLEAN] /\ expired \in [Procs -> BOOLEAN]
                  /\ done \subseteq Ctx
                  /\ stale \subseteq [ctx : Ctx, at : {"watching", "locking"}]
  <1>1. T
    BY DEF TypeOK
  <1>2. ASSUME NEW p \in Procs,
               NEW stl, stl = stale \cup {[ctx |-> call[p].ctx, at |-> w] :
                                w \in {watcher[p]} \cap {"watching", "locking"}}
        PROVE  stl \subseteq [ctx : Ctx, at : {"watching", "locking"}]
    <2>1. watcher[p] # "none" => call[p].ctx # NoCtx
      BY DEF RoundInv
    <2>2. call[p].ctx \in Ctx \cup {NoCtx}
      BY <1>1 DEF Calls
    <2> QED  BY <1>1, <1>2, <2>1, <2>2
  <1>3. ASSUME NEW p \in Procs, NEW op \in {"enqueue", "dequeue"},
               NEW x \in Slots, NEW c \in Ctx \cup {NoCtx}, Call(p, op, x, c)
        PROVE  T'
    BY <1>1, <1>3 DEF Call, Calls, Outcomes, Slots, wait
  <1>4. ASSUME NEW p \in Procs, NEW out \in Outcomes, NEW x \in Slots,
               Settle(p, out, x)
        PROVE  call' \in [Procs -> Calls]
    <2>1. call[p] \in Calls
      BY <1>1
    <2>2. [call[p] EXCEPT !.out = out, !.item = x] \in Calls
      BY <2>1 DEF Calls, Slots
    <2> QED  BY <1>1, <1>4, <2>2 DEF Settle
  <1>5. ASSUME NEW p \in Procs, Leave(p)
        PROVE  /\ crashed' \in BOOLEAN
               /\ pc' \in [Procs -> {"idle", "enter", "arm", "parked", "woken",
                                     "select", "retry", "timeout", "cancel"}]
               /\ watcher' \in [Procs -> {"none", "watching", "locking", "closed"}]
               /\ waker' \in [Procs -> BOOLEAN] /\ expired' \in [Procs -> BOOLEAN]
               /\ done' \subseteq Ctx
               /\ stale' \subseteq [ctx : Ctx, at : {"watching", "locking"}]
    BY <1>1, <1>2, <1>5 DEF Leave, EndRound
  <1>6. ASSUME NEW p \in Procs
        PROVE  call[p].item \in Slots /\ data[head] \in Slots
    BY <1>1 DEF Calls, Slots, TypeOK, RingTypeOK
  <1>7. ASSUME NEW p \in Procs, StartRound(p)
        PROVE  T'
    <2>1. call' \in [Procs -> Calls]
      <3>1. Settle(p, "waiting", call[p].item)
        BY <1>7 DEF StartRound
      <3>2. "waiting" \in Outcomes
        BY DEF Outcomes
      <3> QED  BY <1>4, <1>6, <3>1, <3>2
    <2>2. stale' \subseteq [ctx : Ctx, at : {"watching", "locking"}]
      BY <1>2, <1>7 DEF StartRound, EndRound
    <2> QED  BY <1>1, <1>7, <2>1, <2>2 DEF StartRound, Timed
  <1>8. ASSUME NEW p \in Procs, Finish(p)
        PROVE  T'
    <2>1. Leave(p) /\ UNCHANGED closed
      BY <1>8 DEF Finish, FinishEnqueue, FinishDequeue, FinishClosed
    <2>2. \E out \in Outcomes, x \in Slots : Settle(p, out, x)
      BY <1>6, <1>8 DEF Finish, FinishEnqueue, FinishDequeue, FinishClosed, Outcomes
    <2> QED  BY <1>1, <1>4, <1>5, <2>1, <2>2
  <1>9. ASSUME NEW p \in Procs, GiveUpTimeout(p) \/ GiveUpCancelled(p)
        PROVE  T'
    <2>1. Leave(p) /\ UNCHANGED closed
      BY <1>9 DEF GiveUpTimeout, GiveUpCancelled
    <2>2. \E out \in Outcomes, x \in Slots : Settle(p, out, x)
      BY <1>6, <1>9 DEF GiveUpTimeout, GiveUpCancelled, Outcomes
    <2> QED  BY <1>1, <1>4, <1>5, <2>1, <2>2
  <1>10. ASSUME NEW p \in Procs, Park(p) \/ WakerFires(p)
         PROVE  T'
    BY <1>1, <1>10 DEF Park, WakerFires, wait
  <1>11. ASSUME NEW p \in Procs, Selects(p)
         PROVE  T'
    BY <1>1, <1>11 DEF Selects, SelectNilCtx, SelectTimer, SelectDone, SelectWaitCh,
                       SelectTick, Select, wait
  <1>12. ASSUME NEW p \in Procs, TimerFires(p) \/ WatcherSees(p) \/ WatcherCloses(p)
         PROVE  T'
    BY <1>1, <1>12 DEF TimerFires, WatcherSees, WatcherCloses
  <1>13. ASSUME NEW w \in stale, StaleExits(w) \/ StaleSees(w) \/ StaleCloses(w)
         PROVE  T'
    BY <1>1, <1>13 DEF StaleExits, StaleSees, StaleCloses, wait
  <1>14. ASSUME NEW p \in Procs, NEW op \in {"try_enqueue", "try_dequeue", "peek"},
                NEW x \in Slots, NEW out \in Outcomes, Record(p, op, x, out), Try(p)
         PROVE  T'
    BY <1>1, <1>14 DEF Record, Try, Calls, Slots, wait
  <1>15. ASSUME NEW p \in Procs,
                TryDequeue(p) \/ Peek(p) \/ \E x \in Items : TryEnqueue(p, x)
         PROVE  T'
    <2>1. Try(p)
      BY <1>15 DEF TryDequeue, Peek, TryEnqueue
    <2>2. \E op \in {"try_enqueue", "try_dequeue", "peek"}, x \in Slots, out \in Outcomes :
             Record(p, op, x, out)
      BY <1>6, <1>15 DEF TryDequeue, Peek, TryEnqueue, Outcomes, Slots
    <2> QED  BY <1>14, <2>1, <2>2
  <1>16. ASSUME Clear \/ Close \/ (\E c \in Ctx : Cancel(c)) \/ Halt \/ UNCHANGED vars
         PROVE  T'
    BY <1>1, <1>16 DEF Clear, Close, Cancel, Halt, vars, wait
  <1>17. T'
    <2> HIDE DEF T
    <2>1. ASSUME NEW p \in Procs, NEW x \in Items, NEW c \in EnqCtx, Call(p, "enqueue", x, c)
          PROVE  T'
      BY <1>3, <2>1 DEF Slots
    <2>2. ASSUME NEW p \in Procs, NEW c \in DeqCtx, Call(p, "dequeue", Zero, c)
          PROVE  T'
      BY <1>3, <2>2 DEF Slots
    <2> QED  BY <1>7, <1>8, <1>9, <1>10, <1>11, <1>12, <1>13, <1>15, <1>16, <2>1, <2>2
             DEF Next
  <1> QED  BY <1>0, <1>17 DEF TypeOK

-----------------------------------------------------------------------------
(* Every step keeps the callers' bookkeeping. A step of p changes p's      *)
(* entries only; only StartRound enters "arm", and only when nobody is     *)
(* there; only a watcher whose context is done turns to the mutex.         *)
LEMMA RoundStep ==
  ASSUME IInv, [Next]_vars
  PROVE  RoundInv'
  <1> USE QueueAssumption DEF IInv
  <1>1. /\ pc \in [Procs -> {"idle", "enter", "arm", "parked", "woken",
                             "select", "retry", "timeout", "cancel"}]
        /\ call \in [Procs -> Calls]
        /\ watcher \in [Procs -> {"none", "watching", "locking", "closed"}]
        /\ waker \in [Procs -> BOOLEAN] /\ expired \in [Procs -> BOOLEAN]
        /\ stale \subseteq [ctx : Ctx, at : {"watching", "locking"}]
        /\ done \subseteq Ctx
    BY DEF TypeOK
  <1>2. RoundInv
    OBVIOUS
  <1>3. ASSUME NEW p \in Procs, NEW x, NEW c,
               \/ x \in Items /\ Call(p, "enqueue", x, c)
               \/ x = Zero /\ Call(p, "dequeue", x, c)
        PROVE  RoundInv'
    BY <1>1, <1>2, <1>3 DEF RoundInv, Call, Timed, wait
  (* A call that ends: its caller is idle, its outcome final. *)
  <1>4. ASSUME NEW p \in Procs, NEW out \in Outcomes \ {"pending", "waiting"}, NEW x,
               pc[p] # "arm", Settle(p, out, x), Leave(p), waker[p] = FALSE
        PROVE  RoundInv'
    <2>1. \A w \in stale' : w.at = "locking" => w.ctx \in done'
      BY <1>1, <1>2, <1>4 DEF RoundInv, Leave, EndRound
    <2> QED  BY <1>1, <1>2, <1>4, <2>1 DEF RoundInv, Settle, Leave, Timed
  <1>5. ASSUME NEW p \in Procs, StartRound(p)
        PROVE  RoundInv'
    <2>1. \A w \in stale' : w.at = "locking" => w.ctx \in done'
      BY <1>1, <1>2, <1>5 DEF RoundInv, StartRound, EndRound
    <2> QED  BY <1>1, <1>2, <1>5, <2>1
             DEF RoundInv, StartRound, Settle, AtCondition, Unlocked, Timed
  <1>6. ASSUME NEW p \in Procs, Finish(p)
        PROVE  RoundInv'
    <2>1. Leave(p) /\ pc[p] # "arm" /\ waker[p] = FALSE
      BY <1>1, <1>2, <1>6
      DEF RoundInv, Finish, FinishEnqueue, FinishDequeue, FinishClosed, AtCondition
    <2>2. \E out \in Outcomes \ {"pending", "waiting"}, x \in Slots : Settle(p, out, x)
      <3>1. call[p].item \in Slots /\ data[head] \in Slots
        BY <1>1 DEF Calls, Slots, TypeOK, RingTypeOK
      <3> QED  BY <1>6, <3>1 DEF Finish, FinishEnqueue, FinishDequeue, FinishClosed, Outcomes
    <2> QED  BY <1>4, <2>1, <2>2
  <1>7. ASSUME NEW p \in Procs, GiveUpTimeout(p) \/ GiveUpCancelled(p)
        PROVE  RoundInv'
    <2>1. Leave(p) /\ pc[p] # "arm" /\ waker[p] = FALSE
      BY <1>1, <1>2, <1>7 DEF RoundInv, GiveUpTimeout, GiveUpCancelled
    <2>2. \E out \in Outcomes \ {"pending", "waiting"} : Settle(p, out, call[p].item)
      BY <1>7 DEF GiveUpTimeout, GiveUpCancelled, Outcomes
    <2> QED  BY <1>4, <2>1, <2>2
  <1>8. ASSUME NEW p \in Procs, Park(p) \/ WakerFires(p)
        PROVE  RoundInv'
    BY <1>1, <1>2, <1>8 DEF RoundInv, Park, WakerFires, wait, Timed
  <1>9. ASSUME NEW p \in Procs, Selects(p)
        PROVE  RoundInv'
    BY <1>1, <1>2, <1>9
    DEF RoundInv, Selects, SelectNilCtx, SelectTimer, SelectDone, SelectWaitCh,
        SelectTick, Select, wait, Timed
  <1>10. ASSUME NEW p \in Procs, TimerFires(p) \/ WatcherSees(p) \/ WatcherCloses(p)
         PROVE  RoundInv'
    BY <1>1, <1>2, <1>10 DEF RoundInv, TimerFires, WatcherSees, WatcherCloses, Timed
  <1>11. ASSUME NEW w \in stale, StaleExits(w) \/ StaleSees(w) \/ StaleCloses(w)
         PROVE  RoundInv'
    BY <1>1, <1>2, <1>11 DEF RoundInv, StaleExits, StaleSees, StaleCloses, wait, Timed
  <1>12. ASSUME NEW p \in Procs,
                TryDequeue(p) \/ Peek(p) \/ \E x \in Items : TryEnqueue(p, x)
         PROVE  RoundInv'
    <2>1. Try(p)
      BY <1>12 DEF TryDequeue, Peek, TryEnqueue
    <2>2. \E op, x, out : out \notin {"pending", "waiting"} /\ Record(p, op, x, out)
      BY <1>12 DEF TryDequeue, Peek, TryEnqueue
    <2> QED  BY <1>1, <1>2, <2>1, <2>2 DEF RoundInv, Try, Record, wait, Timed
  <1>13. ASSUME Clear \/ Close \/ (\E c \in Ctx : Cancel(c)) \/ Halt \/ UNCHANGED vars
         PROVE  RoundInv'
    BY <1>1, <1>2, <1>13 DEF RoundInv, Clear, Close, Cancel, Halt, vars, wait, Timed
  <1> QED
    <2>1. ASSUME NEW p \in Procs, NEW x \in Items, NEW c \in EnqCtx, Call(p, "enqueue", x, c)
          PROVE  RoundInv'
      BY <1>3, <2>1
    <2>2. ASSUME NEW p \in Procs, NEW c \in DeqCtx, Call(p, "dequeue", Zero, c)
          PROVE  RoundInv'
      BY <1>3, <2>2
    <2> QED  BY <1>5, <1>6, <1>7, <1>8, <1>9, <1>10, <1>11, <1>12, <1>13, <2>1, <2>2
             DEF Next

-----------------------------------------------------------------------------
LEMMA InitOK == Init => IInv
  <1> SUFFICES ASSUME Init PROVE IInv
    OBVIOUS
  <1> USE QueueAssumption DEF Init
  <1>1. InitLen \in Nat \ {0} /\ (Capacity > 0 => InitLen = Capacity)
    BY DEF InitLen
  <1>2. RingTypeOK
    BY <1>1 DEF RingTypeOK, EmptyRing
  <1>3. TypeOK
    BY <1>2 DEF TypeOK, Calls, NoCall, Outcomes
  <1>4. RingInv
    <2>1. 0 % len = 0 /\ \A i \in 0..len-1 : (0 + i) % len \in 0..len-1
      BY <1>1
    <2>2. \A i \in 0..len-1 : data[(0 + i) % len] = Zero
      BY <2>1 DEF EmptyRing
    <2>3. ASSUME NEW i \in 0..len-1
          PROVE  (data[(head + i) % len] \in Items) <=> i < size
      BY <1>1, <2>2
    <2> QED  BY <1>1, <2>1, <2>3 DEF RingInv
  <1>5. RoundInv
    BY DEF RoundInv, NoCall
  <1> QED  BY <1>3, <1>4, <1>5 DEF IInv

LEMMA Invariance == Spec => []IInv
  <1>1. IInv /\ [Next]_vars => IInv'
    BY RingStep, TypeStep, RoundStep DEF IInv, RingOK
  <1> QED  BY InitOK, <1>1, PTL DEF Spec

(* Every variable of the queue keeps to its type: the two indices stay     *)
(* inside the slice and the count below its length, whatever the calls.    *)
THEOREM TypeCorrect == Spec => []TypeOK
  <1>1. IInv => TypeOK
    BY DEF IInv
  <1> QED  BY Invariance, <1>1, PTL

(* Head, tail and count describe the same part of the slice; used slots    *)
(* hold accepted elements and free slots hold none.                        *)
THEOREM RingCorrect == Spec => []RingInv
  <1>1. IInv => RingInv
    BY DEF IInv
  <1> QED  BY Invariance, <1>1, PTL

(* A caller's outcome, place, timer, helper and watcher agree.             *)
THEOREM RoundCorrect == Spec => []RoundInv
  <1>1. IInv => RoundInv
    BY DEF IInv
  <1> QED  BY Invariance, <1>1, PTL

(* The program dies of nothing but a cancellation or a nil context: a      *)
(* stale watcher panics only when it has seen its context done.            *)
CrashCause ==
    crashed => \/ \E w \in stale : w.at = "locking"
               \/ \E p \in Procs : call[p].ctx = NoCtx /\ pc[p] = "select"

THEOREM CrashExplained == Spec => []CrashNeedsCancel
  <1>1. Init => CrashCause
    BY DEF Init, CrashCause
  <1>2. ASSUME CrashCause, [Next]_vars
        PROVE  CrashCause'
    <2>1. CASE crashed
      <3>1. UNCHANGED vars
        BY <1>2, <2>1 DEF Next, Halt
      <3> QED  BY <1>2, <3>1 DEF CrashCause, vars, wait
    <2>2. CASE ~crashed
      <3>1. ASSUME NEW p \in Procs, SelectNilCtx(p) PROVE CrashCause'
        BY <3>1 DEF SelectNilCtx, CrashCause
      <3>2. ASSUME NEW w \in stale, StaleCloses(w) PROVE CrashCause'
        BY <3>2 DEF StaleCloses, CrashCause, wait
      <3>3. CASE crashed' = crashed
        BY <2>2, <3>3 DEF CrashCause
      <3>4. ASSUME NEW p \in Procs, Finish(p) \/ GiveUpTimeout(p) \/ GiveUpCancelled(p)
            PROVE  crashed' = crashed
        BY <3>4 DEF Finish, FinishEnqueue, FinishDequeue, FinishClosed,
                    GiveUpTimeout, GiveUpCancelled, Leave
      <3>5. ASSUME NEW p \in Procs,
                   SelectTimer(p) \/ SelectDone(p) \/ SelectWaitCh(p) \/ SelectTick(p)
            PROVE  crashed' = crashed
        BY <3>5 DEF SelectTimer, SelectDone, SelectWaitCh, SelectTick, Select
      <3>6. ASSUME NEW p \in Procs, Try(p) PROVE crashed' = crashed
        BY <3>6 DEF Try
      <3> QED
        BY <1>2, <3>1, <3>2, <3>3, <3>4, <3>5, <3>6
        DEF Next, Call, StartRound, Park, WakerFires, Selects, TimerFires, WatcherSees,
            WatcherCloses, StaleExits, StaleSees, TryEnqueue, TryDequeue, Peek, Clear,
            Close, Cancel, Halt, vars
    <2> QED  BY <2>1, <2>2
  <1>3. IInv /\ CrashCause => CrashNeedsCancel
    BY DEF IInv, RoundInv, CrashCause, CrashNeedsCancel
  <1> QED  BY <1>1, <1>2, <1>3, Invariance, PTL DEF Spec

-----------------------------------------------------------------------------
(* The refinement. A call takes effect when its caller, holding the mutex, *)
(* leaves the loop; a caller that goes to wait for the first time is       *)
(* Block; a further round, a wake-up, a select, a watcher's step and a     *)
(* panic are stutters.                                                     *)
Abstract == <<Contents, closed, call, done>>

LEMMA ContentsSize ==
  ASSUME RingOK
  PROVE  /\ Contents \in Seq(Slots) /\ Len(Contents) = size
         /\ Fifo!Empty <=> isEmpty
         /\ Fifo!Full <=> Blocked("enqueue")
  <1>1. /\ Contents \in Seq(Slots) /\ Len(Contents) = size
        /\ (Contents = <<>>) <=> size = 0
    BY RingTypes, WindowSeq DEF Contents
  <1>2. Fifo!Empty <=> isEmpty
    BY <1>1 DEF Fifo!Empty, Contents, isEmpty
  <1>3. Fifo!Full <=> Blocked("enqueue")
    BY <1>1 DEF Fifo!Full, Contents, Blocked, isFull
  <1> QED  BY <1>1, <1>2, <1>3

LEMMA FifoStep ==
  ASSUME IInv, [Next]_vars
  PROVE  [Fifo!Next]_Abstract
  <1>0. RingOK
    BY DEF IInv, TypeOK, RingOK
  <1>1. /\ Contents \in Seq(Slots) /\ Len(Contents) = size
        /\ Fifo!Empty <=> isEmpty
        /\ Fifo!Full <=> Blocked("enqueue")
    BY <1>0, ContentsSize
  <1>2. /\ call \in [Procs -> Calls] /\ closed \in BOOLEAN /\ done \subseteq Ctx
        /\ RoundInv
    BY DEF IInv, TypeOK
  <1>3. ASSUME UNCHANGED ring
        PROVE  Contents' = Contents
    BY <1>3 DEF ring, Contents
  <1>4. ASSUME NEW p \in Procs, NEW x \in Items, NEW c \in EnqCtx, Call(p, "enqueue", x, c)
        PROVE  Fifo!Invoke(p, "enqueue", x, c) /\ c \in Ctx \cup {NoCtx}
    BY <1>2, <1>3, <1>4, QueueAssumption DEF Call, Fifo!Invoke, Fifo!Open, RoundInv, Contents
  <1>5. ASSUME NEW p \in Procs, NEW c \in DeqCtx, Call(p, "dequeue", Zero, c)
        PROVE  Fifo!Invoke(p, "dequeue", Zero, c) /\ c \in Ctx \cup {NoCtx}
    BY <1>2, <1>3, <1>5, QueueAssumption DEF Call, Fifo!Invoke, Fifo!Open, RoundInv, Contents
  <1>6. ASSUME NEW p \in Procs, StartRound(p)
        PROVE  Fifo!Block(p) \/ UNCHANGED Abstract
    <2>1. Contents' = Contents /\ UNCHANGED <<closed, done>>
      BY <1>3, <1>6 DEF StartRound
    <2>2. CASE call[p].out = "pending"
      <3>1. call[p].op = "enqueue" \/ call[p].op = "dequeue"
        BY <1>2, <2>2 DEF RoundInv
      <3>2. call[p].op = "enqueue" => Fifo!Full
        BY <1>1, <1>6 DEF StartRound
      <3>3. call[p].op = "dequeue" => Fifo!Empty
        BY <1>1, <1>6 DEF StartRound, Blocked
      <3> QED  BY <1>6, <2>1, <2>2, <3>1, <3>2, <3>3
               DEF StartRound, Fifo!Block, Settle, Fifo!Settle, Contents
    <2>3. CASE call[p].out # "pending"
      <3>1. call[p].out = "waiting"
        BY <1>2, <1>6, <2>3 DEF StartRound, AtCondition, RoundInv
      <3>2. call[p] = [call[p] EXCEPT !.out = "waiting", !.item = call[p].item]
        BY <1>2, <3>1 DEF Calls
      <3>3. call' = call
        BY <1>2, <1>6, <3>2 DEF StartRound, Settle
      <3> QED  BY <2>1, <3>3 DEF Abstract
    <2> QED  BY <2>2, <2>3
  <1>7. ASSUME NEW p \in Procs, FinishEnqueue(p)
        PROVE  Fifo!Accept(p)
    <2>1. Contents' = Append(Contents, call[p].item)
      <3>1. call[p].item \in Items /\ (isFull => Capacity = 0) /\ PutItem(call[p].item)
        BY <1>2, <1>7, QueueAssumption DEF FinishEnqueue, AtCondition, RoundInv, Blocked
      <3> QED  BY <1>0, <3>1, PutItemOK
    <2>2. call[p].out \in {"pending", "waiting"}
      BY <1>2, <1>7 DEF FinishEnqueue, AtCondition, RoundInv
    <2> QED  BY <1>1, <1>7, <2>1, <2>2
             DEF FinishEnqueue, Leave, Settle, Fifo!Accept, Fifo!Running, Fifo!Open,
                 Fifo!Settle, Contents
  <1>8. ASSUME NEW p \in Procs, FinishDequeue(p)
        PROVE  Fifo!Deliver(p)
    <2>1. Contents' = Tail(Contents) /\ data[head] = Head(Contents)
      BY <1>0, <1>8, TakeItemOK DEF FinishDequeue
    <2>2. call[p].out \in {"pending", "waiting"}
      BY <1>2, <1>8 DEF FinishDequeue, AtCondition, RoundInv
    <2> QED  BY <1>1, <1>8, <2>1, <2>2
             DEF FinishDequeue, Leave, Settle, Fifo!Deliver, Fifo!Running, Fifo!Open,
                 Fifo!Settle, Contents
  <1>9. ASSUME NEW p \in Procs, FinishClosed(p)
        PROVE  Fifo!RefuseClosed(p)
    <2>1. call[p].out \in {"pending", "waiting"} /\ call[p].op \in {"enqueue", "dequeue"}
      BY <1>2, <1>9 DEF FinishClosed, AtCondition, RoundInv
    <2> QED  BY <1>1, <1>3, <1>9, <2>1
             DEF FinishClosed, Leave, Settle, Fifo!RefuseClosed, Fifo!Running, Fifo!Open,
                 Fifo!Settle, Contents
  <1>10. ASSUME NEW p \in Procs, GiveUpTimeout(p)
         PROVE  Fifo!TimeOut(p)
    <2>1. call[p].out = "waiting" /\ Timed(call[p].op)
      BY <1>2, <1>10 DEF GiveUpTimeout, RoundInv
    <2> QED  BY <1>3, <1>10, <2>1
             DEF GiveUpTimeout, Leave, Settle, Timed, Fifo!TimeOut, Fifo!Settle, Contents
  <1>11. ASSUME NEW p \in Procs, GiveUpCancelled(p)
         PROVE  Fifo!GiveUp(p)
    <2>1. call[p].out = "waiting" /\ call[p].ctx \in done
      BY <1>2, <1>11 DEF GiveUpCancelled, RoundInv
    <2> QED  BY <1>3, <1>11, <2>1
             DEF GiveUpCancelled, Leave, Settle, Fifo!GiveUp, Fifo!Settle, Contents
  <1>12. ASSUME NEW p \in Procs, Try(p)
         PROVE  call[p].out \notin Fifo!Open /\ UNCHANGED <<closed, done>>
    BY <1>2, <1>12 DEF Try, Fifo!Open, RoundInv
  <1>13. ASSUME NEW p \in Procs, NEW x \in Items, TryEnqueue(p, x)
         PROVE  Fifo!TryEnqueue(p, x)
    <2>1. Try(p)
      BY <1>13 DEF TryEnqueue
    <2>2. CASE /\ closed \/ Blocked("enqueue")
               /\ Record(p, "try_enqueue", x, IF closed THEN "closed" ELSE "full")
               /\ UNCHANGED ring
      BY <1>1, <1>3, <1>12, <2>1, <2>2 DEF Record, Fifo!TryEnqueue, Fifo!Record, Contents
    <2>3. CASE /\ ~closed /\ ~(isFull /\ Capacity > 0) /\ PutItem(x)
               /\ Record(p, "try_enqueue", x, "ok")
      <3>1. isFull => Capacity = 0
        BY <2>3, QueueAssumption
      <3>2. Contents' = Append(Contents, x)
        BY <1>0, <2>3, <3>1, PutItemOK
      <3> QED  BY <1>1, <1>12, <2>1, <2>3, <3>2
               DEF Record, Blocked, Fifo!TryEnqueue, Fifo!Record, Contents
    <2> QED  BY <1>13, <2>2, <2>3 DEF TryEnqueue, Blocked, Record
  <1>14. ASSUME NEW p \in Procs, TryDequeue(p)
         PROVE  Fifo!TryDequeue(p)
    <2>1. Try(p)
      BY <1>14 DEF TryDequeue
    <2>2. CASE isEmpty
      BY <1>1, <1>3, <1>12, <1>14, <2>1, <2>2
      DEF TryDequeue, Record, Fifo!TryDequeue, Fifo!Record, Fifo!Nothing, Contents
    <2>3. CASE ~isEmpty
      <3>1. Contents' = Tail(Contents) /\ data[head] = Head(Contents)
        BY <1>0, <1>14, <2>3, TakeItemOK DEF TryDequeue
      <3> QED  BY <1>1, <1>12, <1>14, <2>1, <2>3, <3>1
               DEF TryDequeue, Record, Fifo!TryDequeue, Fifo!Record, Contents
    <2> QED  BY <2>2, <2>3
  <1>15. ASSUME NEW p \in Procs, Peek(p)
         PROVE  Fifo!Peek(p)
    <2>1. Try(p) /\ Contents' = Contents
      BY <1>3, <1>15 DEF Peek
    <2>2. ~isEmpty => data[head] = Head(Contents)
      <3>1. ~isEmpty => size > 0
        BY <1>0 DEF RingOK, RingTypeOK, isEmpty
      <3> QED  BY <1>0, <3>1, RingTypes, WindowHead DEF Contents
    <2> QED  BY <1>1, <1>12, <1>15, <2>1, <2>2
             DEF Peek, Record, Fifo!Peek, Fifo!Record, Fifo!Nothing, Contents
  <1>16. CASE Clear
    <2>1. Contents' = <<>>
      BY <1>0, <1>16, ClearOK DEF Clear
    <2> QED  BY <1>16, <2>1 DEF Clear, Fifo!Next, Fifo!Clear, Contents
  <1>17. CASE Close
    BY <1>3, <1>17 DEF Close, Fifo!Next, Fifo!Close, Contents
  <1>18. ASSUME NEW c \in Ctx, Cancel(c)
         PROVE  Fifo!Next
    BY <1>3, <1>18 DEF Cancel, Fifo!Next, Fifo!Cancel, Contents
  <1>19. CASE UNCHANGED <<ring, closed, call, done>>
    BY <1>3, <1>19 DEF Abstract
  <1>20. ASSUME NEW p \in Procs, Selects(p)
         PROVE  UNCHANGED <<ring, closed, call, done>>
    BY <1>20 DEF Selects, SelectNilCtx, SelectTimer, SelectDone, SelectWaitCh,
                 SelectTick, Select
  <1>21. ASSUME NEW w \in stale, StaleExits(w) \/ StaleSees(w) \/ StaleCloses(w)
         PROVE  UNCHANGED <<ring, closed, call, done>>
    BY <1>21 DEF StaleExits, StaleSees, StaleCloses
  <1>22. ASSUME NEW p \in Procs,
                Park(p) \/ WakerFires(p) \/ TimerFires(p) \/ WatcherSees(p) \/ WatcherCloses(p)
         PROVE  UNCHANGED <<ring, closed, call, done>>
    BY <1>22 DEF Park, WakerFires, TimerFires, WatcherSees, WatcherCloses
  <1> QED
    <2>1. ASSUME NEW p \in Procs,
                 \/ \E x \in Items, c \in EnqCtx : Call(p, "enqueue", x, c)
                 \/ \E c \in DeqCtx : Call(p, "dequeue", Zero, c)
          PROVE  Fifo!Next
      BY <1>4, <1>5, <2>1 DEF Fifo!Next
    <2>2. ASSUME NEW p \in Procs,
                 \/ Finish(p) \/ GiveUpTimeout(p) \/ GiveUpCancelled(p)
                 \/ (\E x \in Items : TryEnqueue(p, x)) \/ TryDequeue(p) \/ Peek(p)
          PROVE  Fifo!Next
      <3>1. CASE Finish(p) \/ GiveUpTimeout(p) \/ GiveUpCancelled(p)
        BY <1>7, <1>8, <1>9, <1>10, <1>11, <3>1 DEF Fifo!Next, Finish
      <3>2. CASE (\E x \in Items : TryEnqueue(p, x)) \/ TryDequeue(p) \/ Peek(p)
        BY <1>13, <1>14, <1>15, <3>2 DEF Fifo!Next
      <3> QED  BY <2>2, <3>1, <3>2
    <2>3. ASSUME NEW p \in Procs, StartRound(p)
          PROVE  Fifo!Next \/ UNCHANGED Abstract
      BY <1>6, <2>3 DEF Fifo!Next
    <2> QED  BY <2>1, <2>2, <2>3, <1>16, <1>17, <1>18, <1>19, <1>20, <1>21, <1>22
             DEF Next, Halt, vars

(* A blocking queue is a FIFO queue: for every interleaving of callers,    *)
(* timers, watchers and helpers, an element accepted is delivered once, in *)
(* order, or cleared; a call that gives up or is refused changes nothing.  *)
THEOREM Refinement == Spec => ImplementsFifo
  <1>1. Init => Fifo!Init
    <2>1. Init => Contents = <<>>
      BY DEF Init, Contents, Window
    <2> QED  BY <2>1 DEF Init, Fifo!Init, NoCall, Fifo!NoCall, Contents
  <1>2. IInv /\ [Next]_vars => [Fifo!Next]_(Fifo!vars)
    <2>1. UNCHANGED Abstract => UNCHANGED Fifo!vars
      BY DEF Abstract, Fifo!vars, Contents
    <2> QED  BY FifoStep, <2>1
  <1> QED  BY <1>1, <1>2, Invariance, PTL DEF Spec, ImplementsFifo, Fifo!Spec
=============================================================================
