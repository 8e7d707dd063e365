------------------------- MODULE QueueServiceProofs -------------------------
(***************************************************************************)
(* The queues of the service stay FIFO queues, and none that is not listed *)
(* accepts an element, for every set of callers, names and queues and all  *)
(* capacities.                                                             *)
(*                                                                         *)
(* That a queue in somebody's hands is listed or closed is not inductive   *)
(* alone: DeleteQueue and Close take a queue off the map some steps after  *)
(* they have closed it, and hold s.mu until then.                          *)
(***************************************************************************)
EXTENDS QueueService, TLAPS

-----------------------------------------------------------------------------
(* What the operations on the circular slice do to the sequence of its     *)
(* used slots, for every length of the slice and every position of head.   *)

(* A slice of n slots of which k are in use from h on.                     *)
IsRing(S, buf, h, k, n) ==
    n \in Nat \ {0} /\ buf \in [0..n-1 -> S] /\ h \in 0..n-1 /\ k \in 0..n

(* One slot written. *)
Write(buf, i, x) == [buf EXCEPT ![i] = x]

(* The used slots form a sequence as long as the count.                    *)
LEMMA WindowSeq ==
  ASSUME NEW S, NEW n, NEW buf, NEW h, NEW k, IsRing(S, buf, h, k, n)
  PROVE  LET w == Window(buf, h, k, n)
         IN  w \in [1..k -> S] /\ w \in Seq(S) /\ Len(w) = k /\ ((w = <<>>) <=> k = 0)
  <1> DEFINE w == Window(buf, h, k, n)
  <1>1. w \in [1..k -> S] /\ k \in Nat
    BY DEF Window, IsRing
  <1> HIDE DEF w
  <1>2. w \in Seq(S) /\ Len(w) = k
    BY <1>1
  <1> QED  BY <1>1, <1>2 DEF w

(* The next element to be dequeued is the one at head.                     *)
LEMMA WindowHead ==
  ASSUME NEW S, NEW n, NEW buf, NEW h, NEW k, IsRing(S, buf, h, k, n), k > 0
  PROVE  Head(Window(buf, h, k, n)) = buf[h]
  <1> DEFINE w == Window(buf, h, k, n)
  <1>1. (h + 1 - 1) % n = h /\ 1 \in 1..k
    BY DEF IsRing
  <1>2. w[1] = buf[h]
    BY <1>1 DEF Window
  <1>3. w \in Seq(S) /\ w # <<>>
    BY <1>1, WindowSeq DEF IsRing
  <1> HIDE DEF w
  <1> QED  BY <1>2, <1>3 DEF w

(* Writing the slot after the last used one appends.                       *)
LEMMA WindowAppend ==
  ASSUME NEW S, NEW n, NEW buf, NEW h, NEW k, IsRing(S, buf, h, k, n),
         k < n, NEW x \in S
  PROVE  Window(Write(buf, (h + k) % n, x), h, k + 1, n)
           = Append(Window(buf, h, k, n), x)
  <1> DEFINE w == Window(buf, h, k, n)
             d == Write(buf, (h + k) % n, x)
  <1>1. \A i \in 1..k + 1 : d[(h + i - 1) % n] = IF i = k + 1 THEN x ELSE w[i]
    <2>1. (h + k) % n \in 0..n-1 /\ h + (k + 1) - 1 = h + k
          /\ \A i \in 1..k : /\ (h + i - 1) % n # (h + k) % n
                                /\ (h + i - 1) % n \in 0..n-1
      BY DEF IsRing
    <2>2. \A i \in 1..k : w[i] = buf[(h + i - 1) % n]
      BY DEF Window
    <2>3. \A i \in 1..k + 1 : i = k + 1 \/ (i \in 1..k /\ i # k + 1)
      BY DEF IsRing
    <2>4. /\ d[(h + k) % n] = x
          /\ \A i \in 1..k : d[(h + i - 1) % n] = buf[(h + i - 1) % n]
      BY <2>1 DEF Write, IsRing
    <2> HIDE DEF w, d
    <2> QED  BY <2>1, <2>2, <2>3, <2>4
  <1>2. Append(w, x) = [i \in 1..k + 1 |-> IF i = k + 1 THEN x ELSE w[i]]
    <2> USE DEF IsRing
    <2>1. w \in [1..k -> S]
      BY DEF Window
    <2>2. w \in Seq(S) /\ Len(w) = k
      BY <2>1
    <2> QED  BY <2>1, <2>2
  <1> HIDE DEF w, d
  <1> QED  BY <1>1, <1>2 DEF Window, w, d

(* Clearing the slot at head and moving head on removes the first element. *)
LEMMA WindowTail ==
  ASSUME NEW S, NEW n, NEW buf, NEW h, NEW k, IsRing(S, buf, h, k, n),
         k > 0, NEW z \in S
  PROVE  Window(Write(buf, h, z), (h + 1) % n, k - 1, n)
           = Tail(Window(buf, h, k, n))
  <1> DEFINE w == Window(buf, h, k, n)
             d == Write(buf, h, z)
  <1>1. \A i \in 1..k - 1 : d[(((h + 1) % n) + i - 1) % n] = w[i + 1]
    <2>1. \A i \in 1..k - 1 : /\ (((h + 1) % n) + i - 1) % n = (h + i) % n
                                 /\ (h + i) % n # h /\ (h + i) % n \in 0..n-1
                                 /\ h + (i + 1) - 1 = h + i
      BY DEF IsRing
    <2>2. \A i \in 1..k - 1 : w[i + 1] = buf[(h + (i + 1) - 1) % n]
      BY DEF Window, IsRing
    <2> HIDE DEF w
    <2> QED  BY <2>1, <2>2 DEF Write, IsRing
  <1>2. Tail(w) = [i \in 1..k - 1 |-> w[i + 1]]
    <2> USE DEF IsRing
    <2>1. w \in [1..k -> S]
      BY DEF Window
    <2>2. w \in Seq(S) /\ Len(w) = k
      BY <2>1
    <2> QED  BY <2>1, <2>2
  <1> HIDE DEF w, d
  <1> QED  BY <1>1, <1>2 DEF Window, w, d

-----------------------------------------------------------------------------
Slots == Items \cup {Zero}

Slices == UNION {[0..n-1 -> Slots] : n \in Nat}

QueueType == [data : Slices, len : Nat, head : Nat, tail : Nat,
              size : Nat, cap : Nat, closed : BOOLEAN]

CallerType == [op : {"none", "enqueue", "dequeue"}, item : Slots, on : Queues \cup {None}]

Types ==
    /\ queues \in [Names -> Queues \cup {None}]
    /\ q \in [Queues -> QueueType]
    /\ holder \in [op : {"none", "delete", "close"}, names : SUBSET Names]
    /\ caller \in [Callers -> CallerType]

(* A caller in a call has found a queue, and an enqueuing one an element.  *)
CallersInv ==
    \A p \in Callers :
       /\ caller[p].op # "none" => caller[p].on \in Queues
       /\ caller[p].op = "enqueue" => caller[p].item \in Items

RingOK(r) ==
    /\ IsRing(Slots, r.data, r.head, r.size, r.len)
    /\ r.tail = (r.head + r.size) % r.len
    /\ r.cap > 0 => r.cap = r.len

RingsInv == \A o \in Queues : RingOK(q[o])

(* What DeleteQueue and Close are about to take off the map they have      *)
(* closed, and what a caller holds is listed or closed.                    *)
MapInv ==
    /\ holder.op = "delete" =>
          \A n \in holder.names : queues[n] # None => q[queues[n]].closed
    /\ holder.op = "close" =>
          \A n \in Names : queues[n] # None /\ n \notin holder.names => q[queues[n]].closed
    /\ holder.op = "close" => \A n \in holder.names : queues[n] # None
    /\ \A p \in Callers : caller[p].on \in Queues \ Listed => q[caller[p].on].closed

IInv == Types /\ CallersInv /\ RingsInv /\ MapInv

-----------------------------------------------------------------------------
(* The operations on one queue.                                            *)

View(r) == Window(r.data, r.head, r.size, r.len)

(* A slice of any length is a slice.                                       *)
LEMMA SliceOf ==
  ASSUME NEW n \in Nat, NEW d \in [0..n-1 -> Slots]
  PROVE  d \in Slices
  BY DEF Slices

(* A new queue is empty and open.                                          *)
LEMMA NewQueueOK ==
  ASSUME NEW c \in Capacities
  PROVE  NewQueue(c) \in QueueType /\ RingOK(NewQueue(c))
  <1> DEFINE n == IF c > 0 THEN c ELSE DefaultLen
  <1>1. n \in Nat \ {0} /\ c \in Nat /\ (c > 0 => n = c)
    BY ServiceAssumption
  <1>2. EmptyRing(n) \in [0..n-1 -> Slots]
    BY DEF EmptyRing, Slots
  <1>3. NewQueue(c) = [data |-> EmptyRing(n), len |-> n, head |-> 0, tail |-> 0,
                       size |-> 0, cap |-> c, closed |-> FALSE]
    BY DEF NewQueue
  <1> HIDE DEF n
  <1>4. NewQueue(c) \in QueueType
    BY <1>1, <1>2, <1>3, SliceOf DEF QueueType
  <1>5. RingOK(NewQueue(c))
    BY <1>1, <1>2, <1>3 DEF RingOK, IsRing
  <1> QED  BY <1>4, <1>5

(* An element put into a free slot is the last of the contents.            *)
LEMMA PutOK ==
  ASSUME NEW r \in QueueType, RingOK(r), NEW x \in Items, r.size < r.len
  PROVE  /\ Put(r, x) \in QueueType /\ RingOK(Put(r, x))
         /\ View(Put(r, x)) = Append(View(r), x)
         /\ Put(r, x).closed = r.closed
  <1> DEFINE d == Write(r.data, r.tail, x)
             t == (r.tail + 1) % r.len
  <1>1. /\ r.len \in Nat \ {0} /\ r.head \in 0..r.len-1 /\ r.size \in 0..r.len-1
        /\ r.data \in [0..r.len-1 -> Slots] /\ r.cap \in Nat /\ r.closed \in BOOLEAN
        /\ r.tail = (r.head + r.size) % r.len
    BY DEF RingOK, IsRing, QueueType
  <1>2. /\ r.tail \in 0..r.len-1 /\ t \in 0..r.len-1
        /\ t = (r.head + (r.size + 1)) % r.len
    <2> DEFINE n == r.len  h == r.head  k == r.size
    <2>1. n \in Nat \ {0} /\ h \in 0..n-1 /\ k \in 0..n-1 /\ r.tail = (h + k) % n
      BY <1>1
    <2> HIDE DEF n, h, k
    <2>2. /\ (h + k) % n \in 0..n-1 /\ (((h + k) % n) + 1) % n \in 0..n-1
          /\ (((h + k) % n) + 1) % n = (h + (k + 1)) % n
      BY <2>1
    <2> QED  BY <2>1, <2>2 DEF n, h, k
  <1>3. d \in [0..r.len-1 -> Slots]
    BY <1>1, <1>2 DEF Write, Slots
  <1>4. Put(r, x) = [data |-> d, len |-> r.len, head |-> r.head, tail |-> t,
                     size |-> r.size + 1, cap |-> r.cap, closed |-> r.closed]
    BY DEF Put, With, Write
  <1>5. Window(d, r.head, r.size + 1, r.len) = Append(View(r), x)
    <2>1. x \in Slots
      BY DEF Slots
    <2> QED  BY <1>1, <2>1, WindowAppend DEF RingOK, View
  <1> HIDE DEF d, t
  <1>6. Put(r, x) \in QueueType
    <2>1. d \in Slices
      BY <1>1, <1>3 DEF Slices
    <2>2. r.len \in Nat /\ r.head \in Nat /\ t \in Nat /\ r.size + 1 \in Nat
      BY <1>1, <1>2
    <2> QED  BY <1>1, <1>4, <2>1, <2>2 DEF QueueType
  <1>7. RingOK(Put(r, x))
    BY <1>1, <1>2, <1>3, <1>4 DEF RingOK, IsRing
  <1>8. View(Put(r, x)) = Append(View(r), x)
    BY <1>4, <1>5 DEF View
  <1> QED  BY <1>4, <1>6, <1>7, <1>8

(* Growing keeps the contents and makes room.                              *)
LEMMA GrowOK ==
  ASSUME NEW r \in QueueType, RingOK(r), r.cap > 0 => ~Full(r)
  PROVE  /\ Grow(r) \in QueueType /\ RingOK(Grow(r))
         /\ View(Grow(r)) = View(r)
         /\ Grow(r).size < Grow(r).len
         /\ Grow(r).closed = r.closed
  <1>1. /\ r.len \in Nat \ {0} /\ r.head \in 0..r.len-1 /\ r.size \in 0..r.len
        /\ r.data \in [0..r.len-1 -> Slots] /\ r.cap \in Nat /\ r.closed \in BOOLEAN
    BY DEF RingOK, IsRing, QueueType
  <1>2. Full(r) <=> r.size = r.len
    BY <1>1 DEF Full, RingOK
  <1>3. CASE ~Full(r)
    BY <1>1, <1>2, <1>3 DEF Grow
  <1>4. CASE Full(r)
    <2> DEFINE n == 2 * r.len
               g == Grown(r.data, r.head, r.size, r.len)
               v == Window(g, 0, r.size, n)
               w == View(r)
    <2>1. r.cap = 0 /\ r.size = r.len /\ r.size \in 0..n-1 /\ n \in Nat \ {0}
      BY <1>1, <1>2, <1>4
    <2>2. g \in [0..n-1 -> Slots]
      <3>1. \A i \in 0..n-1 : (r.head + i) % r.len \in 0..r.len-1
        BY <1>1
      <3> QED  BY <1>1, <3>1 DEF Grown, Slots
    <2>3. Grow(r) = [data |-> g, len |-> n, head |-> 0, tail |-> r.size, size |-> r.size,
                     cap |-> r.cap, closed |-> r.closed]
      BY <1>4, <2>1 DEF Grow, With
    <2>4. v = w
      <3>1. ASSUME NEW i \in 1..r.size
            PROVE  v[i] = w[i]
        <4>1. (0 + i - 1) % n = i - 1 /\ i - 1 \in 0..n-1 /\ i - 1 < r.size
          <5> HIDE DEF n
          <5>1. i \in Nat /\ i - 1 \in 0..n-1 /\ i - 1 < r.size
            BY <1>1, <2>1
          <5> QED  BY <2>1, <5>1
        <4>2. v[i] = g[i - 1]
          BY <4>1 DEF Window
        <4>3. g[i - 1] = r.data[(r.head + (i - 1)) % r.len]
          BY <4>1 DEF Grown
        <4>4. w[i] = r.data[(r.head + i - 1) % r.len]
          BY DEF View, Window
        <4>5. r.head + (i - 1) = r.head + i - 1
          BY <1>1
        <4> QED  BY <4>2, <4>3, <4>4, <4>5
      <3>2. v = [i \in 1..r.size |-> v[i]] /\ w = [i \in 1..r.size |-> w[i]]
        BY DEF View, Window
      <3> QED  BY <3>1, <3>2
    <2> HIDE DEF n, g
    <2>5. Grow(r) \in QueueType
      BY <1>1, <2>1, <2>2, <2>3, SliceOf DEF QueueType
    <2>6. RingOK(Grow(r))
      <3>1. r.size = (0 + r.size) % n
        BY <2>1
      <3> QED  BY <2>1, <2>2, <2>3, <3>1 DEF RingOK, IsRing
    <2>7. View(Grow(r)) = View(r)
      BY <2>3, <2>4 DEF View
    <2> QED  BY <2>1, <2>3, <2>5, <2>6, <2>7 DEF n
  <1> QED  BY <1>3, <1>4

(* What is taken is the first of the contents, and the rest stays.         *)
LEMMA TakeOK ==
  ASSUME NEW r \in QueueType, RingOK(r), r.size > 0
  PROVE  /\ Take(r) \in QueueType /\ RingOK(Take(r))
         /\ View(r) = <<r.data[r.head]>> \o View(Take(r))
         /\ Take(r).closed = r.closed
         /\ r.data[r.head] \in Slots
  <1> DEFINE d == Write(r.data, r.head, Zero)
             h == (r.head + 1) % r.len
  <1>1. /\ r.len \in Nat \ {0} /\ r.head \in 0..r.len-1 /\ r.size \in 1..r.len
        /\ r.data \in [0..r.len-1 -> Slots] /\ r.cap \in Nat /\ r.closed \in BOOLEAN
        /\ r.tail = (r.head + r.size) % r.len /\ r.tail \in Nat
    BY DEF RingOK, IsRing, QueueType
  <1>2. h \in 0..r.len-1 /\ r.tail = (h + (r.size - 1)) % r.len
    <2> DEFINE n == r.len  i == r.head  k == r.size
    <2>1. n \in Nat \ {0} /\ i \in 0..n-1 /\ k \in 1..n /\ r.tail = (i + k) % n
      BY <1>1
    <2> HIDE DEF n, i, k
    <2>2. /\ (i + 1) % n \in 0..n-1
          /\ (((i + 1) % n) + (k - 1)) % n = (i + k) % n
      BY <2>1
    <2> QED  BY <2>1, <2>2 DEF n, i, k
  <1>3. d \in [0..r.len-1 -> Slots]
    BY <1>1 DEF Write, Slots
  <1>4. Take(r) = [data |-> d, len |-> r.len, head |-> h, tail |-> r.tail,
                   size |-> r.size - 1, cap |-> r.cap, closed |-> r.closed]
    BY DEF Take, With, Write
  <1>5. Window(d, h, r.size - 1, r.len) = Tail(View(r))
    <2>1. Zero \in Slots
      BY DEF Slots
    <2> QED  BY <2>1, WindowTail DEF RingOK, View
  <1>6. Head(View(r)) = r.data[r.head]
    BY WindowHead DEF RingOK, View
  <1>7. View(r) \in Seq(Slots) /\ View(r) # <<>>
    BY <1>1, WindowSeq DEF RingOK, View
  <1>8. View(r) = <<Head(View(r))>> \o Tail(View(r))
    BY <1>7
  <1> HIDE DEF d, h
  <1>9. Take(r) \in QueueType
    <2>1. d \in Slices
      BY <1>1, <1>3 DEF Slices
    <2>2. r.len \in Nat /\ h \in Nat /\ r.tail \in Nat /\ r.size - 1 \in Nat
      BY <1>1, <1>2
    <2> QED  BY <1>1, <1>4, <2>1, <2>2 DEF QueueType
  <1>10. RingOK(Take(r))
    BY <1>1, <1>2, <1>3, <1>4 DEF RingOK, IsRing
  <1>11. View(Take(r)) = Tail(View(r))
    BY <1>4, <1>5 DEF View
  <1>12. Take(r).closed = r.closed /\ r.data[r.head] \in Slots
    BY <1>1, <1>4
  <1>13. View(r) = <<r.data[r.head]>> \o View(Take(r))
    BY <1>6, <1>8, <1>11, Zenon
  <1> QED  BY <1>9, <1>10, <1>12, <1>13

(* Closing changes no element.                                             *)
LEMMA ShutOK ==
  ASSUME NEW r \in QueueType, RingOK(r)
  PROVE  /\ Shut(r) \in QueueType /\ RingOK(Shut(r)) /\ Shut(r).closed
         /\ View(Shut(r)) = View(r)
  <1>1. /\ Shut(r) \in QueueType /\ Shut(r).closed
        /\ Shut(r).data = r.data /\ Shut(r).len = r.len /\ Shut(r).head = r.head
        /\ Shut(r).tail = r.tail /\ Shut(r).size = r.size /\ Shut(r).cap = r.cap
    BY DEF Shut, QueueType
  <1>2. RingOK(Shut(r))
    BY <1>1 DEF RingOK
  <1> QED  BY <1>1, <1>2 DEF View

-----------------------------------------------------------------------------
(* The invariant.                                                          *)

(* One queue replaced by a well-formed one.                                *)
LEMMA ReplaceOK ==
  ASSUME q \in [Queues -> QueueType], RingsInv, NEW o \in Queues,
         NEW r \in QueueType, RingOK(r), q' = [q EXCEPT ![o] = r]
  PROVE  /\ q' \in [Queues -> QueueType] /\ RingsInv'
         /\ q'[o] = r /\ \A u \in Queues \ {o} : q'[u] = q[u]
  BY DEF RingsInv

(* The map's own operations start or end with s.mu free or held as they    *)
(* say, and what callers are in they leave alone.                          *)
LEMMA InitInv ==
  ASSUME Init
  PROVE  IInv
  <1>1. PICK c \in Capacities : q = [o \in Queues |-> NewQueue(c)]
    BY DEF Init
  <1>2. q \in [Queues -> QueueType] /\ RingsInv
    BY <1>1, NewQueueOK DEF RingsInv
  <1>3. Types
    BY <1>2 DEF Init, Types, Free, Idle, CallerType, Slots
  <1>4. CallersInv
    BY DEF Init, CallersInv, Idle
  <1>5. MapInv
    BY ServiceAssumption DEF Init, MapInv, Free, Idle
  <1> QED  BY <1>2, <1>3, <1>4, <1>5 DEF IInv

(* The queue CreateQueue lists is nobody's yet.                            *)
LEMMA CreateInv ==
  ASSUME IInv, NEW n \in Names, CreateQueue(n)
  PROVE  IInv'
  <1> USE DEF IInv
  <1>1. CASE UNCHANGED <<queues, q>>
    BY <1>1 DEF CreateQueue, Types, CallersInv, RingsInv, MapInv, Listed
  <1>2. CASE \E o \in Queues \ Referenced, c \in Capacities :
               /\ q' = [q EXCEPT ![o] = NewQueue(c)]
               /\ queues' = [queues EXCEPT ![n] = o]
    <2>1. PICK o \in Queues \ Referenced, c \in Capacities :
             /\ q' = [q EXCEPT ![o] = NewQueue(c)]
             /\ queues' = [queues EXCEPT ![n] = o]
      BY <1>2
    <2>2. /\ q' \in [Queues -> QueueType] /\ RingsInv'
          /\ \A u \in Queues \ {o} : q'[u] = q[u]
      BY <2>1, NewQueueOK, ReplaceOK DEF Types
    <2>3. holder = Free /\ holder' = holder /\ caller' = caller
      BY DEF CreateQueue, Unlocked
    <2>4. Types' /\ CallersInv'
      BY <2>1, <2>2, <2>3 DEF Types, CallersInv
    <2>5. \A p \in Callers : caller[p].on # o
      BY <2>1 DEF Referenced
    <2>6. \A u \in Listed \ {None} : u \in Listed'
      <3>1. queues[n] = None \/ queues[n] = o \/ UNCHANGED queues
        BY DEF CreateQueue
      <3> QED  BY <2>1, <3>1 DEF Listed, Types
    <2>7. ASSUME NEW p \in Callers, caller[p].on \in Queues \ Listed'
          PROVE  q'[caller[p].on].closed
      <3>1. caller[p].on \in Queues \ Listed
        BY <2>6, <2>7, ServiceAssumption
      <3> QED  BY <2>2, <2>5, <3>1 DEF MapInv
    <2>8. MapInv'
      BY <2>3, <2>7 DEF MapInv, Free
    <2> QED  BY <2>2, <2>4, <2>8
  <1> QED  BY <1>1, <1>2 DEF CreateQueue

(* What GetQueue finds is listed.                                          *)
LEMMA GetInv ==
  ASSUME IInv, NEW p \in Callers, NEW f \in Operations, NEW n \in Names, GetQueue(p, f, n)
  PROVE  IInv'
  <1> USE DEF IInv
  <1>1. UNCHANGED <<queues, q, holder>> /\ RingsInv'
    BY DEF GetQueue, RingsInv
  <1>2. CASE UNCHANGED caller
    BY <1>1, <1>2 DEF Types, CallersInv, MapInv, Listed
  <1>3. CASE /\ queues[n] # None
             /\ caller' = [caller EXCEPT ![p] = [op |-> f.op, item |-> f.item,
                                                on |-> queues[n]]]
    <2>1. /\ queues[n] \in Listed /\ queues[n] \in Queues
          /\ f.op \in {"enqueue", "dequeue"} /\ f.item \in Slots
          /\ f.op = "enqueue" => f.item \in Items
      BY <1>3 DEF Types, Listed, Operations, Slots
    <2>2. Types' /\ CallersInv'
      BY <1>1, <1>3, <2>1 DEF Types, CallersInv, CallerType
    <2>3. ASSUME NEW w \in Callers, caller'[w].on \in Queues \ Listed
          PROVE  q[caller'[w].on].closed
      BY <1>3, <2>1, <2>3 DEF Types, MapInv
    <2>4. MapInv'
      BY <1>1, <2>3 DEF MapInv, Listed
    <2> QED  BY <1>1, <2>2, <2>4
  <1> QED  BY <1>2, <1>3 DEF GetQueue

(* A queue closed while s.mu is held stays where it was listed.            *)
LEMMA ShutInv ==
  ASSUME IInv, NEW n \in Names, queues[n] # None,
         q' = [q EXCEPT ![queues[n]] = Shut(q[queues[n]])]
  PROVE  /\ q' \in [Queues -> QueueType] /\ RingsInv'
         /\ q'[queues[n]].closed
         /\ \A o \in Queues : q[o].closed => q'[o].closed
         /\ \A o \in Queues : View(q'[o]) = View(q[o])
  <1> USE DEF IInv
  <1>1. queues[n] \in Queues /\ q[queues[n]] \in QueueType /\ RingOK(q[queues[n]])
    BY DEF Types, RingsInv
  <1>2. /\ Shut(q[queues[n]]) \in QueueType /\ RingOK(Shut(q[queues[n]]))
        /\ Shut(q[queues[n]]).closed /\ View(Shut(q[queues[n]])) = View(q[queues[n]])
    BY <1>1, ShutOK
  <1>3. /\ q' \in [Queues -> QueueType] /\ RingsInv'
        /\ q'[queues[n]] = Shut(q[queues[n]])
        /\ \A u \in Queues \ {queues[n]} : q'[u] = q[u]
    BY <1>1, <1>2, ReplaceOK DEF Types
  <1> QED  BY <1>2, <1>3

(* DeleteQueue closes before it forgets.                                   *)
LEMMA DeleteInv ==
  ASSUME IInv, NEW n \in Names, DeleteQueue(n)
  PROVE  IInv'
  <1> USE DEF IInv
  <1>1. holder = Free /\ UNCHANGED <<queues, caller>> /\ CallersInv'
    BY DEF DeleteQueue, Unlocked, CallersInv
  <1>2. CASE UNCHANGED <<q, holder>>
    BY <1>1, <1>2 DEF Types, RingsInv, MapInv, Listed
  <1>3. CASE /\ queues[n] # None
             /\ q' = [q EXCEPT ![queues[n]] = Shut(q[queues[n]])]
             /\ holder' = [op |-> "delete", names |-> {n}]
    <2>1. /\ q' \in [Queues -> QueueType] /\ RingsInv' /\ q'[queues[n]].closed
          /\ \A o \in Queues : q[o].closed => q'[o].closed
      BY <1>3, ShutInv
    <2>2. Types'
      BY <1>1, <1>3, <2>1 DEF Types
    <2>3. MapInv'
      BY <1>1, <1>3, <2>1 DEF MapInv, Listed
    <2> QED  BY <1>1, <2>1, <2>2, <2>3
  <1> QED  BY <1>2, <1>3 DEF DeleteQueue

(* What is taken off the map is closed.                                    *)
LEMMA ForgetInv ==
  ASSUME IInv, NEW N \in SUBSET Names,
         \A n \in N : queues[n] # None => q[queues[n]].closed,
         queues' = [n \in Names |-> IF n \in N THEN None ELSE queues[n]],
         holder' = Free, UNCHANGED <<q, caller>>
  PROVE  IInv'
  <1> USE DEF IInv
  <1>1. Types' /\ CallersInv' /\ RingsInv'
    BY DEF Types, CallersInv, RingsInv, Free
  <1>2. ASSUME NEW p \in Callers, caller[p].on \in Queues \ Listed'
        PROVE  q[caller[p].on].closed
    <2>1. CASE caller[p].on \in Listed
      <3>1. PICK n \in Names : caller[p].on = queues[n]
        BY <2>1 DEF Listed
      <3>2. n \in N
        BY <1>2, <2>1, <3>1 DEF Listed
      <3> QED  BY <1>2, <3>1, <3>2, ServiceAssumption
    <2> QED  BY <1>2, <2>1 DEF MapInv
  <1>3. MapInv'
    BY <1>2 DEF MapInv, Free
  <1> QED  BY <1>1, <1>3

(* Every queue left for Close to close is still to be closed.              *)
LEMMA CloseInv ==
  ASSUME IInv, Close
  PROVE  IInv'
  <1> USE DEF IInv
  <1>1. Types' /\ CallersInv' /\ RingsInv'
    BY DEF Close, Types, CallersInv, RingsInv
  <1>2. MapInv'
    BY DEF Close, MapInv, Listed
  <1> QED  BY <1>1, <1>2

(* Close closes one more queue.                                            *)
LEMMA CloseOneInv ==
  ASSUME IInv, NEW n \in Names, CloseOne(n)
  PROVE  IInv'
  <1> USE DEF IInv
  <1>1. /\ holder.op = "close" /\ n \in holder.names /\ queues[n] # None
        /\ UNCHANGED <<queues, caller>>
        /\ holder' = [holder EXCEPT !.names = holder.names \ {n}]
        /\ q' = [q EXCEPT ![queues[n]] = Shut(q[queues[n]])]
    BY DEF CloseOne, MapInv
  <1>2. /\ q' \in [Queues -> QueueType] /\ RingsInv' /\ q'[queues[n]].closed
        /\ \A o \in Queues : q[o].closed => q'[o].closed
    BY <1>1, ShutInv
  <1>3. holder'.op = "close" /\ holder'.names = holder.names \ {n}
    BY <1>1 DEF Types
  <1>4. Types' /\ CallersInv'
    BY <1>1, <1>2 DEF Types, CallersInv
  <1>5. MapInv'
    BY <1>1, <1>2, <1>3 DEF MapInv, Listed, Types
  <1> QED  BY <1>2, <1>4, <1>5

(* A call that ends leaves its queue as well-formed and as open as it was. *)
LEMMA UseInv ==
  ASSUME IInv, NEW p \in Callers, caller' = [caller EXCEPT ![p] = Idle],
         UNCHANGED <<queues, holder>>,
         q' \in [Queues -> QueueType], RingsInv',
         \A o \in Queues : q'[o].closed = q[o].closed
  PROVE  IInv'
  <1> USE DEF IInv
  <1>1. Types' /\ CallersInv'
    BY DEF Types, CallersInv, CallerType, Idle, Slots
  <1>2. ASSUME NEW w \in Callers, caller'[w].on \in Queues \ Listed
        PROVE  q'[caller'[w].on].closed
    <2>1. caller'[w] = caller[w]
      BY <1>2, ServiceAssumption DEF Types, Idle
    <2> QED  BY <1>2, <2>1 DEF MapInv
  <1>3. MapInv'
    BY <1>2 DEF MapInv, Listed, Types
  <1> QED  BY <1>1, <1>3

-----------------------------------------------------------------------------
(* The steps.                                                              *)

(* What a step that leaves the queues in use as they are answers.          *)
Quiet == reply'.out \notin {"accepted", "delivered", "empty"}

(* Nothing is said of a queue that keeps its contents.                     *)
LEMMA QuietStep ==
  ASSUME Quiet, NEW o \in Queues, View(q'[o]) = View(q[o])
  PROVE  FifoStep(o)
  BY DEF Quiet, FifoStep, Contents, View

(* An element accepted is the last of its queue; refused, it changes none. *)
LEMMA EnqueueStep ==
  ASSUME IInv, NEW p \in Callers, TryEnqueue(p)
  PROVE  /\ IInv'
         /\ \A o \in Queues : FifoStep(o)
         /\ \A o \in Queues \ Listed : reply'.on = o => reply'.out # "accepted"
  <1> DEFINE o == caller[p].on
             r == q[o]
             x == caller[p].item
  <1>1. /\ o \in Queues /\ x \in Items /\ r \in QueueType /\ RingOK(r)
        /\ caller' = [caller EXCEPT ![p] = Idle] /\ UNCHANGED <<queues, holder>>
        /\ \A u \in Queues : q[u] = q[u]
    BY DEF IInv, CallersInv, Types, RingsInv, TryEnqueue, Use
  <1>2. CASE UNCHANGED q /\ reply'.out \in {"refused", "full"}
    <2>1. IInv'
      BY <1>1, <1>2, UseInv DEF IInv, Types, RingsInv
    <2> QED  BY <1>2, <2>1, QuietStep DEF Quiet
  <1>3. CASE /\ ~r.closed /\ IF r.cap > 0 THEN ~Full(r) ELSE r.size < MaxItems
             /\ q' = [q EXCEPT ![o] = Put(Grow(r), x)]
             /\ Answer(o, "accepted", x)
    <2> HIDE DEF o, r, x
    <2>1. /\ Grow(r) \in QueueType /\ RingOK(Grow(r)) /\ View(Grow(r)) = View(r)
          /\ Grow(r).size < Grow(r).len /\ Grow(r).closed = r.closed
      BY <1>1, <1>3, GrowOK
    <2> DEFINE w == Put(Grow(r), x)
    <2>2. /\ w \in QueueType /\ RingOK(w) /\ w.closed = r.closed
          /\ View(w) = Append(View(r), x)
      BY <1>1, <2>1, PutOK
    <2> HIDE DEF w
    <2>3. /\ q' \in [Queues -> QueueType] /\ RingsInv' /\ q'[o] = w
          /\ \A u \in Queues \ {o} : q'[u] = q[u]
      BY <1>1, <1>3, <2>2, ReplaceOK DEF IInv, Types, w
    <2>4. IInv'
      <3>1. \A u \in Queues : q'[u].closed = q[u].closed
        BY <2>2, <2>3 DEF r
      <3> QED  BY <1>1, <2>3, <3>1, UseInv
    <2>5. reply'.on = o /\ reply'.out = "accepted" /\ reply'.item = x
      BY <1>3 DEF Answer
    <2>6. ASSUME NEW u \in Queues
          PROVE  FifoStep(u)
      <3>1. CASE u = o
        BY <2>2, <2>3, <2>5, <3>1 DEF FifoStep, Contents, View, r
      <3>2. CASE u # o
        BY <2>3, <2>5, <3>2 DEF FifoStep, Contents
      <3> QED  BY <3>1, <3>2
    <2>7. o \in Listed
      BY <1>1, <1>3 DEF IInv, MapInv, o, r
    <2> QED  BY <2>4, <2>5, <2>6, <2>7
  <1> QED  BY <1>2, <1>3 DEF TryEnqueue, Answer

(* An element delivered was the first of its queue.                        *)
LEMMA DequeueStep ==
  ASSUME IInv, NEW p \in Callers, TryDequeue(p)
  PROVE  /\ IInv'
         /\ \A o \in Queues : FifoStep(o)
         /\ reply'.out # "accepted"
  <1> DEFINE o == caller[p].on
             r == q[o]
  <1>1. /\ o \in Queues /\ r \in QueueType /\ RingOK(r)
        /\ caller' = [caller EXCEPT ![p] = Idle] /\ UNCHANGED <<queues, holder>>
    BY DEF IInv, CallersInv, Types, RingsInv, TryDequeue, Use
  <1>2. CASE r.size = 0 /\ Answer(o, "empty", Zero) /\ UNCHANGED q
    <2>1. IInv'
      BY <1>1, <1>2, UseInv DEF IInv, Types, RingsInv
    <2>2. View(r) = <<>>
      BY <1>1, <1>2, WindowSeq DEF RingOK, View
    <2>3. reply'.on = o /\ reply'.out = "empty"
      BY <1>2 DEF Answer
    <2>4. ASSUME NEW u \in Queues
          PROVE  FifoStep(u)
      BY <1>2, <2>2, <2>3 DEF FifoStep, Contents, View
    <2> QED  BY <2>1, <2>3, <2>4
  <1>3. CASE /\ r.size > 0
             /\ q' = [q EXCEPT ![o] = Take(r)]
             /\ Answer(o, "delivered", r.data[r.head])
    <2> HIDE DEF o, r
    <2> DEFINE w == Take(r)
    <2>1. /\ w \in QueueType /\ RingOK(w) /\ w.closed = r.closed
          /\ View(r) = <<r.data[r.head]>> \o View(w)
      BY <1>1, <1>3, TakeOK
    <2> HIDE DEF w
    <2>2. /\ q' \in [Queues -> QueueType] /\ RingsInv' /\ q'[o] = w
          /\ \A u \in Queues \ {o} : q'[u] = q[u]
      BY <1>1, <1>3, <2>1, ReplaceOK DEF IInv, Types, w
    <2>3. IInv'
      <3>1. \A u \in Queues : q'[u].closed = q[u].closed
        BY <2>1, <2>2 DEF r
      <3> QED  BY <1>1, <2>2, <3>1, UseInv
    <2>4. reply'.on = o /\ reply'.out = "delivered" /\ reply'.item = r.data[r.head]
      BY <1>3 DEF Answer
    <2>5. ASSUME NEW u \in Queues
          PROVE  FifoStep(u)
      <3>1. CASE u = o
        BY <2>1, <2>2, <2>4, <3>1 DEF FifoStep, Contents, View, r
      <3>2. CASE u # o
        BY <2>2, <2>4, <3>2 DEF FifoStep, Contents
      <3> QED  BY <3>1, <3>2
    <2> QED  BY <2>3, <2>4, <2>5
  <1> QED  BY <1>2, <1>3 DEF TryDequeue

(* A step of the map.                                                      *)
MapOp ==
    \/ \E n \in Names : CreateQueue(n) \/ DeleteQueue(n) \/ CloseOne(n)
    \/ \E p \in Callers, f \in Operations, n \in Names : GetQueue(p, f, n)
    \/ Deleted \/ Close \/ Closed

(* The map's operations answer nothing of elements, and change no contents *)
(* but those of a queue that nobody refers to.                             *)
LEMMA MapStep ==
  ASSUME IInv, MapOp
  PROVE  /\ IInv' /\ Quiet
         /\ \A o \in Referenced \ {None} : View(q'[o]) = View(q[o])
  <1>1. ASSUME NEW n \in Names, CreateQueue(n)
        PROVE  Quiet /\ \A o \in Referenced \ {None} : q'[o] = q[o]
    <2>1. reply'.out \in {"exists", "created"}
      BY <1>1 DEF CreateQueue, Answer
    <2>2. \A o \in Referenced \ {None} : q'[o] = q[o]
      <3>1. UNCHANGED q \/ \E u \in Queues \ Referenced, c \in Capacities :
                              q' = [q EXCEPT ![u] = NewQueue(c)]
        BY <1>1 DEF CreateQueue
      <3>2. Referenced \ {None} \subseteq Queues /\ q \in [Queues -> QueueType]
        BY DEF Referenced, Listed, IInv, Types, CallerType
      <3> QED  BY <3>1, <3>2
    <2> QED  BY <2>1, <2>2 DEF Quiet
  <1>2. ASSUME NEW n \in Names, DeleteQueue(n) \/ CloseOne(n)
        PROVE  /\ Quiet
               /\ \A o \in Referenced \ {None} : View(q'[o]) = View(q[o])
    <2>1. /\ reply'.out \in {"absent", "closed"}
          /\ \/ UNCHANGED q
             \/ queues[n] # None /\ q' = [q EXCEPT ![queues[n]] = Shut(q[queues[n]])]
      BY <1>2 DEF DeleteQueue, CloseOne, Answer, IInv, MapInv
    <2>2. Referenced \ {None} \subseteq Queues
      BY DEF Referenced, Listed, IInv, Types, CallerType
    <2> QED  BY <2>1, <2>2, ShutInv DEF Quiet
  <1>3. ASSUME NEW p \in Callers, NEW f \in Operations, NEW n \in Names, GetQueue(p, f, n)
        PROVE  Quiet /\ UNCHANGED q
    <2>1. reply'.out \in {"absent", "none"} /\ UNCHANGED q
      BY <1>3 DEF GetQueue, Answer, Silent
    <2> QED  BY <2>1 DEF Quiet
  <1>4. ASSUME Deleted \/ Close \/ Closed
        PROVE  Quiet /\ UNCHANGED q
    BY <1>4 DEF Deleted, Close, Closed, Quiet, Silent
  <1>5. ASSUME Deleted
        PROVE  IInv'
    <2>1. \A n \in holder.names : queues[n] # None => q[queues[n]].closed
      BY <1>5 DEF Deleted, IInv, MapInv
    <2>2. holder.names \in SUBSET Names
      BY DEF IInv, Types
    <2> QED  BY <1>5, <2>1, <2>2, ForgetInv DEF Deleted
  <1>6. ASSUME Closed
        PROVE  IInv'
    <2>1. \A n \in Names : queues[n] # None => q[queues[n]].closed
      BY <1>6 DEF Closed, IInv, MapInv
    <2>2. queues' = [n \in Names |-> IF n \in Names THEN None ELSE queues[n]]
      BY <1>6 DEF Closed
    <2> QED  BY <1>6, <2>1, <2>2, ForgetInv DEF Closed
  <1>7. IInv'
    BY <1>5, <1>6, CreateInv, DeleteInv, CloseOneInv, GetInv, CloseInv DEF MapOp
  <1> QED  BY <1>1, <1>2, <1>3, <1>4, <1>7 DEF MapOp

(* What every step does.                                                   *)
LEMMA StepOK ==
  ASSUME IInv, Next
  PROVE  /\ IInv'
         /\ \A o \in Referenced \ {None} : FifoStep(o)
         /\ \A o \in Queues \ Listed : reply'.on = o => reply'.out # "accepted"
  <1>1. Referenced \ {None} \subseteq Queues
    BY DEF Referenced, Listed, IInv, Types, CallerType
  <1>2. ASSUME NEW p \in Callers, TryEnqueue(p) \/ TryDequeue(p)
        PROVE  /\ IInv'
               /\ \A o \in Queues : FifoStep(o)
               /\ \A o \in Queues \ Listed : reply'.on = o => reply'.out # "accepted"
    BY <1>2, EnqueueStep, DequeueStep
  <1>3. CASE \E p \in Callers : TryEnqueue(p) \/ TryDequeue(p)
    BY <1>1, <1>2, <1>3
  <1>4. CASE ~\E p \in Callers : TryEnqueue(p) \/ TryDequeue(p)
    <2>1. MapOp
      BY <1>4 DEF Next, MapOp
    <2>2. /\ IInv' /\ Quiet
          /\ \A o \in Referenced \ {None} : View(q'[o]) = View(q[o])
      BY <2>1, MapStep
    <2>3. \A o \in Referenced \ {None} : FifoStep(o)
      BY <1>1, <2>2, QuietStep
    <2> QED  BY <2>2, <2>3 DEF Quiet
  <1> QED  BY <1>3, <1>4

(* The invariant, in every reachable state.                                *)
THEOREM ServiceInvariant == Spec => []IInv
  <1>1. IInv /\ [Next]_vars => IInv'
    <2>1. ASSUME IInv, UNCHANGED vars
          PROVE  IInv'
      BY <2>1 DEF vars, IInv, Types, CallersInv, RingsInv, MapInv, Listed
    <2> QED  BY <2>1, StepOK
  <1>2. Init => IInv
    BY InitInv
  <1> QED  BY <1>1, <1>2, PTL DEF Spec

(* Every queue of the service, listed or only in the hands of a caller,    *)
(* stays a FIFO queue: an operation does to the queue it found what it     *)
(* answers, and no step touches another's elements.                        *)
THEOREM EveryQueueFifo == Spec => EachIsFifo
  <1>1. IInv /\ [Next]_vars => [\A o \in Referenced \ {None} : FifoStep(o)]_vars
    BY StepOK
  <1> QED  BY <1>1, ServiceInvariant, PTL DEF Spec, EachIsFifo

(* An element is accepted only by a queue that its name still leads to.    *)
THEOREM NothingStranded == Spec => AcceptedWhileListed
  <1>1. IInv /\ [Next]_vars =>
           [\A o \in Queues \ Listed : reply'.on = o => reply'.out # "accepted"]_vars
    BY StepOK
  <1> QED  BY <1>1, ServiceInvariant, PTL DEF Spec, AcceptedWhileListed
=============================================================================
