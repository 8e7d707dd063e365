---------------------------- MODULE ConnLimitProofs ----------------------------
(***************************************************************************)
(* What the limiters of ConnLimit promise, for any calls, window, limits   *)
(* and offers: no window holds more than its places, a call's result fits  *)
(* what it has taken, and a wait is in vain only if another call came in   *)
(* between.                                                                *)
(***************************************************************************)
EXTENDS ConnLimit, FiniteSetTheorems, SequenceTheorems, WellFoundedInduction, TLAPS

USE ConnLimitAssumption DEF ConnLimitAssumption

-----------------------------------------------------------------------------
(* The sequences of ages *)

Sorted(q) == \A i, j \in 1..Len(q) : i < j => q[i] >= q[j]

(* f is where the window begins in q. *)
Cut(q, f) ==
    /\ f \in 1..Len(q) + 1
    /\ \A i \in 1..Len(q) : i < f => q[i] >= windowSize
    /\ \A i \in 1..Len(q) : i >= f => q[i] < windowSize

LEMMA MinExists ==
  ASSUME NEW S \in SUBSET Nat, S # {}
  PROVE  \E m \in S : \A k \in S : m <= k
  <1>1. IsWellFoundedOn(OpToRel(<, Nat), Nat)
    BY NatLessThanWellFounded
  <1>2. PICK m \in S : \A k \in S : <<k, m>> \notin OpToRel(<, Nat)
    BY <1>1, WFMin
  <1>3. \A k \in S : ~(k < m)
    BY <1>2 DEF OpToRel
  <1> QED  BY <1>3

LEMMA MinIs ==
  ASSUME NEW S \in SUBSET Nat, NEW f \in S, \A k \in S : f <= k
  PROVE  Min(S) = f
  <1>1. /\ Min(S) \in S
        /\ \A k \in S : Min(S) <= k
    BY DEF Min
  <1>2. f \in Nat /\ Min(S) \in Nat /\ Min(S) <= f /\ f <= Min(S)
    BY <1>1
  <1> QED  BY <1>2

LEMMA CutIsFirst ==
  ASSUME NEW q \in Seq(Nat), NEW f, Cut(q, f)
  PROVE  Min({i \in DOMAIN q : q[i] < windowSize} \cup {Len(q) + 1}) = f
  <1> DEFINE S == {i \in DOMAIN q : q[i] < windowSize} \cup {Len(q) + 1}
  <1>1. Len(q) \in Nat /\ DOMAIN q = 1..Len(q)
    OBVIOUS
  <1>2. S \in SUBSET Nat /\ f \in S /\ \A k \in S : f <= k
    BY <1>1 DEF Cut
  <1> QED  BY <1>2, MinIs

LEMMA KeptAt ==
  ASSUME NEW q \in Seq(Nat), NEW f, Cut(q, f)
  PROVE  Kept(q) = SubSeq(q, f, Len(q))
  BY CutIsFirst DEF Kept

LEMMA RecentAt ==
  ASSUME NEW q \in Seq(Nat), NEW f, Cut(q, f)
  PROVE  Recent(q) = SubSeq(q, f, Len(q))
  <1> DEFINE n == Cardinality({i \in DOMAIN q : q[i] < windowSize})
  <1>1. Len(q) \in Nat /\ f \in 1..Len(q) + 1
    BY DEF Cut
  <1>2. {i \in DOMAIN q : q[i] < windowSize} = f..Len(q)
    BY <1>1 DEF Cut
  <1>3. n = IF f > Len(q) THEN 0 ELSE Len(q) - f + 1
    <2>1. f \in Int /\ Len(q) \in Int
      BY <1>1
    <2>2. Cardinality(f..Len(q)) = IF f > Len(q) THEN 0 ELSE Len(q) - f + 1
      BY <2>1, FS_Interval
    <2> QED  BY <1>2, <2>2
  <1>4. Len(q) - n + 1 = f
    BY <1>1, <1>3
  <1> QED  BY <1>4 DEF Recent

LEMMA CutExists ==
  ASSUME NEW q \in Seq(Nat), Sorted(q)
  PROVE  \E f : Cut(q, f)
  <1> DEFINE S == {i \in 1..Len(q) : q[i] < windowSize} \cup {Len(q) + 1}
  <1>1. Len(q) \in Nat /\ \A i \in 1..Len(q) : q[i] \in Nat
    OBVIOUS
  <1>a. S \in SUBSET Nat /\ S # {}
    BY <1>1
  <1>2. PICK f \in S : \A k \in S : f <= k
    <2> HIDE DEF S
    <2> QED  BY <1>a, MinExists
  <1>3. f \in 1..Len(q) + 1
    BY <1>1, <1>2
  <1>4. ASSUME NEW i \in 1..Len(q), i < f  PROVE q[i] >= windowSize
    BY <1>1, <1>2, <1>3, <1>4
  <1>5. ASSUME NEW i \in 1..Len(q), i >= f  PROVE q[i] < windowSize
    <2>1. f \in 1..Len(q) /\ q[f] < windowSize
      BY <1>1, <1>2, <1>3, <1>5
    <2>2. q[f] >= q[i]
      BY <1>1, <1>3, <1>5, <2>1 DEF Sorted
    <2> QED  BY <1>1, <2>1, <2>2
  <1> QED  BY <1>3, <1>4, <1>5 DEF Cut

(* What the code keeps of a sequence of ages is a tail of it, in order.    *)
Proper(q) == q \in Seq(Ages) /\ Sorted(q)
Fresh(q) == \A i \in 1..Len(q) : q[i] < windowSize

LEMMA AgesSeq ==
  ASSUME NEW q \in Seq(Ages)
  PROVE  /\ q \in Seq(Nat) /\ Len(q) \in Nat
         /\ \A i \in 1..Len(q) : q[i] \in Ages /\ q[i] \in Nat /\ q[i] <= windowSize
  <1>1. Ages \subseteq Nat /\ \A a \in Ages : a <= windowSize
    BY DEF Ages
  <1>2. Len(q) \in Nat /\ \A i \in 1..Len(q) : q[i] \in Ages
    OBVIOUS
  <1>3. q \in Seq(Nat)
    BY <1>1, SeqMonotonic
  <1> QED  BY <1>1, <1>2, <1>3

LEMMA KeptFacts ==
  ASSUME NEW q, Proper(q)
  PROVE  /\ Proper(Kept(q)) /\ Fresh(Kept(q))
         /\ \E f \in 1..Len(q) + 1 :
               /\ Cut(q, f)
               /\ Len(Kept(q)) = Len(q) - f + 1
               /\ \A i \in 1..Len(Kept(q)) : f + i - 1 \in 1..Len(q) /\ Kept(q)[i] = q[f + i - 1]
  <1>1. /\ q \in Seq(Nat) /\ q \in Seq(Ages) /\ Len(q) \in Nat /\ Sorted(q)
        /\ \A i \in 1..Len(q) : q[i] \in Ages
    BY AgesSeq DEF Proper
  <1>2. PICK f : Cut(q, f)
    BY <1>1, CutExists
  <1>3. f \in 1..Len(q) + 1
    BY <1>2 DEF Cut
  <1> DEFINE K == SubSeq(q, f, Len(q))
  <1>4. Kept(q) = K
    BY <1>1, <1>2, KeptAt
  <1>5. /\ K \in Seq(Ages)
        /\ Len(K) = Len(q) - f + 1
        /\ \A i \in 1..Len(q) - f + 1 : K[i] = q[f + i - 1]
    <2>1. Len(K) = Len(q) - f + 1 /\ \A i \in 1..Len(q) - f + 1 : K[i] = q[f + i - 1]
      BY <1>1, <1>3
    <2>2. \A i \in 1..Len(q) - f + 1 : K[i] \in Ages
      BY <1>1, <1>3, <2>1
    <2> QED  BY <1>1, <1>3, <2>1, <2>2
  <1> HIDE DEF K
  <1>6. \A i \in 1..Len(K) : f + i - 1 \in 1..Len(q) /\ f + i - 1 >= f /\ K[i] = q[f + i - 1]
    BY <1>1, <1>3, <1>5
  <1>7. Fresh(K)
    BY <1>2, <1>6 DEF Fresh, Cut
  <1>8. Sorted(K)
    <2> SUFFICES ASSUME NEW i \in 1..Len(K), NEW j \in 1..Len(K), i < j
                 PROVE  K[i] >= K[j]
      BY DEF Sorted
    <2>1. f + i - 1 < f + j - 1
      BY <1>1, <1>3, <1>5
    <2> QED  BY <1>1, <1>6, <2>1 DEF Sorted
  <1> QED  BY <1>2, <1>3, <1>4, <1>5, <1>6, <1>7, <1>8 DEF Proper

LEMMA FreshKept ==
  ASSUME NEW q, Proper(q), Fresh(q)
  PROVE  Kept(q) = q /\ Recent(q) = q
  <1>1. q \in Seq(Nat) /\ Len(q) \in Nat
    BY AgesSeq DEF Proper
  <1>2. Cut(q, 1)
    BY <1>1 DEF Cut, Fresh
  <1>3. Kept(q) = SubSeq(q, 1, Len(q)) /\ Recent(q) = SubSeq(q, 1, Len(q))
    BY <1>1, <1>2, KeptAt, RecentAt
  <1> QED  BY <1>1, <1>3, SubSeqFull

LEMMA RecordedFacts ==
  ASSUME NEW q, Proper(q), Fresh(q)
  PROVE  /\ Proper(Recorded(q)) /\ Fresh(Recorded(q)) /\ Len(Recorded(q)) = Len(q) + 1
         /\ Kept(Recorded(q)) = Recorded(q)
  <1> DEFINE r == Recorded(q)
  <1>1. /\ q \in Seq(Ages) /\ Len(q) \in Nat /\ 0 \in Ages
        /\ \A i \in 1..Len(q) : q[i] \in Nat
    BY AgesSeq DEF Proper, Ages
  <1>2. /\ r \in Seq(Ages) /\ Len(r) = Len(q) + 1
        /\ \A i \in 1..Len(q) : r[i] = q[i]
        /\ r[Len(q) + 1] = 0
    BY <1>1 DEF Recorded
  <1> HIDE DEF r
  <1>3. Fresh(r)
    <2> SUFFICES ASSUME NEW i \in 1..Len(q) + 1  PROVE r[i] < windowSize
      BY <1>2 DEF Fresh
    <2>1. windowSize \in Nat /\ windowSize > 0
      OBVIOUS
    <2>2. i \in 1..Len(q) \/ i = Len(q) + 1
      BY <1>1
    <2> QED  BY <1>2, <2>1, <2>2 DEF Fresh
  <1>4. Sorted(r)
    <2> SUFFICES ASSUME NEW i \in 1..Len(q) + 1, NEW j \in 1..Len(q) + 1, i < j
                 PROVE  r[i] >= r[j]
      BY <1>2 DEF Sorted
    <2>1. i \in 1..Len(q) /\ r[i] = q[i] /\ q[i] \in Nat
      BY <1>1, <1>2
    <2>2. j \in 1..Len(q) \/ j = Len(q) + 1
      BY <1>1
    <2> QED  BY <1>2, <2>1, <2>2 DEF Sorted, Proper
  <1>5. Proper(r)
    BY <1>2, <1>4 DEF Proper
  <1>6. Kept(r) = r
    BY <1>3, <1>5, FreshKept
  <1> QED  BY <1>2, <1>3, <1>5, <1>6 DEF r

(* A tick makes everything a tick older; the window's length is the limit. *)
LEMMA OlderFacts ==
  ASSUME NEW q \in Seq(Ages)
  PROVE  /\ Older(q) \in Seq(Ages) /\ Len(Older(q)) = Len(q)
         /\ \A i \in 1..Len(q) : Older(q)[i] = IF q[i] < windowSize THEN q[i] + 1 ELSE windowSize
  <1>1. Len(q) \in Nat /\ DOMAIN q = 1..Len(q) /\ \A i \in 1..Len(q) : q[i] \in Ages
    OBVIOUS
  <1>2. ASSUME NEW a \in Ages
        PROVE  /\ Min({a + 1, windowSize}) = IF a < windowSize THEN a + 1 ELSE windowSize
               /\ Min({a + 1, windowSize}) \in Ages
    <2> DEFINE f == IF a < windowSize THEN a + 1 ELSE windowSize
    <2>1. a + 1 \in Nat /\ windowSize \in Nat /\ f \in {a + 1, windowSize} /\ f \in Ages
      BY DEF Ages
    <2>2. f <= a + 1 /\ f <= windowSize
      BY DEF Ages
    <2> HIDE DEF f
    <2>3. {a + 1, windowSize} \in SUBSET Nat /\ \A k \in {a + 1, windowSize} : f <= k
      BY <2>1, <2>2
    <2>4. Min({a + 1, windowSize}) = f
      BY <2>1, <2>3, MinIs
    <2> QED  BY <2>1, <2>4 DEF f
  <1>3. Older(q) = [i \in 1..Len(q) |-> Min({q[i] + 1, windowSize})]
    BY <1>1 DEF Older
  <1>4. \A i \in 1..Len(q) : /\ Min({q[i] + 1, windowSize}) \in Ages
                             /\ Min({q[i] + 1, windowSize})
                                  = IF q[i] < windowSize THEN q[i] + 1 ELSE windowSize
    BY <1>1, <1>2
  <1>5. Older(q) \in Seq(Ages) /\ Len(Older(q)) = Len(q)
    BY <1>1, <1>3, <1>4, IsASeq
  <1> QED  BY <1>3, <1>4, <1>5

LEMMA OlderProper ==
  ASSUME NEW q, Proper(q)
  PROVE  Proper(Older(q))
  <1>1. /\ q \in Seq(Ages) /\ Len(q) \in Nat
        /\ \A i \in 1..Len(q) : q[i] \in Nat /\ q[i] <= windowSize
    BY AgesSeq DEF Proper
  <1>2. Sorted(Older(q))
    <2> SUFFICES ASSUME NEW i \in 1..Len(q), NEW j \in 1..Len(q), i < j
                 PROVE  Older(q)[i] >= Older(q)[j]
      BY <1>1, OlderFacts DEF Sorted
    <2>1. q[i] >= q[j] /\ q[i] \in Nat /\ q[j] \in Nat
      BY <1>1 DEF Proper, Sorted
    <2>2. /\ Older(q)[i] = IF q[i] < windowSize THEN q[i] + 1 ELSE windowSize
          /\ Older(q)[j] = IF q[j] < windowSize THEN q[j] + 1 ELSE windowSize
      BY <1>1, OlderFacts
    <2>3. windowSize \in Nat
      OBVIOUS
    <2> QED  BY <2>1, <2>2, <2>3
  <1> QED  BY <1>1, <1>2, OlderFacts DEF Proper

(* Cleaning up before a tick or only after it comes to the same.           *)
LEMMA TickKept ==
  ASSUME NEW q, Proper(q)
  PROVE  Recent(Older(Kept(q))) = Kept(Older(q))
  <1> DEFINE K == Kept(q)
             O == Older(q)
             P == Older(K)
  <1>1. /\ q \in Seq(Ages) /\ Len(q) \in Nat /\ Proper(K) /\ K \in Seq(Ages) /\ Len(K) \in Nat
        /\ \A i \in 1..Len(q) : q[i] \in Nat
    BY KeptFacts, AgesSeq DEF Proper
  <1>2. PICK f \in 1..Len(q) + 1 :
          /\ Cut(q, f)
          /\ Len(K) = Len(q) - f + 1
          /\ \A i \in 1..Len(K) : f + i - 1 \in 1..Len(q) /\ K[i] = q[f + i - 1]
    BY KeptFacts
  <1> HIDE DEF K
  <1>3. /\ Proper(O) /\ O \in Seq(Ages) /\ Len(O) = Len(q)
        /\ \A i \in 1..Len(q) : O[i] = IF q[i] < windowSize THEN q[i] + 1 ELSE windowSize
    BY <1>1, OlderProper, OlderFacts
  <1>4. /\ Proper(P) /\ P \in Seq(Ages) /\ Len(P) = Len(K)
        /\ \A i \in 1..Len(K) : P[i] = IF K[i] < windowSize THEN K[i] + 1 ELSE windowSize
    BY <1>1, OlderProper, OlderFacts
  <1> HIDE DEF O, P
  <1>5. O \in Seq(Nat) /\ P \in Seq(Nat)
    BY <1>3, <1>4, AgesSeq
  <1>6. PICK g : Cut(O, g)
    BY <1>3, <1>5, CutExists DEF Proper
  <1>7. g \in 1..Len(q) + 1 /\ g >= f
    <2>1. g \in 1..Len(q) + 1
      BY <1>3, <1>6 DEF Cut
    <2>2. g < f => O[g] = windowSize /\ O[g] < windowSize
      <3> SUFFICES ASSUME g < f  PROVE O[g] = windowSize /\ O[g] < windowSize
        OBVIOUS
      <3>1. g \in 1..Len(q)
        BY <1>1, <1>2, <2>1
      <3>2. q[g] >= windowSize
        BY <1>2, <3>1 DEF Cut
      <3>3. O[g] < windowSize
        BY <1>3, <1>6, <3>1 DEF Cut
      <3> QED  BY <1>1, <1>3, <3>1, <3>2, <3>3
    <2> QED  BY <1>1, <2>1, <2>2
  <1> DEFINE h == g - f + 1
  <1>8. \A i \in 1..Len(K) : P[i] = O[f + i - 1]
    BY <1>1, <1>2, <1>3, <1>4
  <1>9. Cut(P, h)
    <2>1. h \in 1..Len(P) + 1
      BY <1>1, <1>2, <1>4, <1>7
    <2>2. \A i \in 1..Len(K) : f + i - 1 \in 1..Len(O) /\ (i < h <=> f + i - 1 < g)
      BY <1>1, <1>2, <1>3, <1>7
    <2> HIDE DEF h
    <2>3. /\ \A i \in 1..Len(P) : i < h => P[i] >= windowSize
          /\ \A i \in 1..Len(P) : i >= h => P[i] < windowSize
      <3> SUFFICES ASSUME NEW i \in 1..Len(K)
                   PROVE  /\ i < h => P[i] >= windowSize
                          /\ i >= h => P[i] < windowSize
        BY <1>4
      <3>1. /\ f + i - 1 \in 1..Len(O) /\ P[i] = O[f + i - 1]
            /\ i < h <=> f + i - 1 < g
        BY <1>8, <2>2
      <3>2. i \in Nat /\ h \in Nat /\ f + i - 1 \in Nat /\ g \in Nat
        BY <1>1, <1>2, <1>4, <1>7, <2>1
      <3> QED  BY <1>6, <3>1, <3>2 DEF Cut
    <2> QED  BY <2>1, <2>3 DEF Cut
  <1>10. Recent(P) = SubSeq(P, h, Len(P)) /\ Kept(O) = SubSeq(O, g, Len(O))
    BY <1>5, <1>6, <1>9, RecentAt, KeptAt
  <1>11. SubSeq(P, h, Len(P)) = SubSeq(O, g, Len(O))
    <2>1. SubSeq(P, h, Len(P)) = [i \in 1..Len(P) - h + 1 |-> P[h + i - 1]]
      BY <1>1, <1>4, <1>7
    <2>2. SubSeq(O, g, Len(O)) = [i \in 1..Len(O) - g + 1 |-> O[g + i - 1]]
      BY <1>1, <1>3, <1>7
    <2>3. Len(P) - h + 1 = Len(O) - g + 1
      BY <1>1, <1>2, <1>3, <1>4, <1>7
    <2>4. ASSUME NEW i \in 1..Len(O) - g + 1  PROVE P[h + i - 1] = O[g + i - 1]
      <3>1. h + i - 1 \in 1..Len(K) /\ f + (h + i - 1) - 1 = g + i - 1
        BY <1>1, <1>2, <1>3, <1>4, <1>7
      <3> HIDE DEF h
      <3>2. P[h + i - 1] = O[f + (h + i - 1) - 1]
        BY <1>8, <3>1
      <3> QED  BY <3>1, <3>2
    <2> HIDE DEF h
    <2> QED  BY <2>1, <2>2, <2>3, <2>4
  <1> QED  BY <1>10, <1>11 DEF P, O, K

-----------------------------------------------------------------------------
(* Room in left ticks: fewer than m requests will be in the window then.   *)
Room(q, m, left) == Len(q) >= m => q[Len(q) - m + 1] + left >= windowSize

LEMMA RoomKept ==
  ASSUME NEW q, Proper(q), NEW m \in Nat \ {0}, NEW left \in Nat, Room(q, m, left)
  PROVE  Room(Kept(q), m, left)
  <1> DEFINE K == Kept(q)
  <1>1. q \in Seq(Ages) /\ Len(q) \in Nat
    BY AgesSeq DEF Proper
  <1>2. PICK f \in 1..Len(q) + 1 :
          /\ Len(K) = Len(q) - f + 1
          /\ \A i \in 1..Len(K) : f + i - 1 \in 1..Len(q) /\ K[i] = q[f + i - 1]
    BY KeptFacts
  <1> HIDE DEF K
  <1> SUFFICES ASSUME Len(K) >= m  PROVE K[Len(K) - m + 1] + left >= windowSize
    BY DEF Room, K
  <1>3. Len(K) - m + 1 \in 1..Len(K) /\ f + (Len(K) - m + 1) - 1 = Len(q) - m + 1 /\ Len(q) >= m
    BY <1>1, <1>2
  <1> DEFINE k == Len(K) - m + 1
  <1>4. K[k] = q[Len(q) - m + 1]
    <2>1. k \in 1..Len(K) /\ f + k - 1 = Len(q) - m + 1
      BY <1>3
    <2> HIDE DEF k
    <2> QED  BY <1>2, <2>1
  <1> QED  BY <1>3, <1>4 DEF Room

LEMMA RoomOlder ==
  ASSUME NEW q \in Seq(Ages), NEW m \in Nat \ {0}, NEW left \in Nat, Room(q, m, left)
  PROVE  Room(Older(q), m, IF left = 0 THEN 0 ELSE left - 1)
  <1> DEFINE O == Older(q)
             k == Len(q) - m + 1
  <1>1. /\ Len(q) \in Nat /\ Len(O) = Len(q)
        /\ \A i \in 1..Len(q) : /\ q[i] \in Nat
                                /\ O[i] = IF q[i] < windowSize THEN q[i] + 1 ELSE windowSize
    BY AgesSeq, OlderFacts
  <1> HIDE DEF O
  <1> SUFFICES ASSUME Len(q) >= m
               PROVE  O[k] + (IF left = 0 THEN 0 ELSE left - 1) >= windowSize
    BY <1>1 DEF Room, O
  <1>2. k \in 1..Len(q) /\ q[k] + left >= windowSize
    BY <1>1 DEF Room
  <1> HIDE DEF k
  <1>3. q[k] \in Nat /\ O[k] = IF q[k] < windowSize THEN q[k] + 1 ELSE windowSize
    BY <1>1, <1>2
  <1>4. windowSize \in Nat
    OBVIOUS
  <1> QED  BY <1>2, <1>3, <1>4

LEMMA RoomNow ==
  ASSUME NEW q, Proper(q), NEW m \in Nat \ {0}, Room(q, m, 0)
  PROVE  Len(Kept(q)) < m
  <1> DEFINE K == Kept(q)
  <1>1. q \in Seq(Ages) /\ Len(q) \in Nat /\ \A i \in 1..Len(q) : q[i] \in Nat
    BY AgesSeq DEF Proper
  <1>2. PICK f \in 1..Len(q) + 1 : Cut(q, f) /\ Len(K) = Len(q) - f + 1
    BY KeptFacts
  <1> HIDE DEF K
  <1> SUFFICES ASSUME Len(K) >= m  PROVE FALSE
    BY <1>1, <1>2 DEF K
  <1>3. Len(q) - m + 1 \in 1..Len(q) /\ Len(q) - m + 1 >= f
    BY <1>1, <1>2
  <1>4. q[Len(q) - m + 1] < windowSize
    BY <1>2, <1>3 DEF Cut
  <1>5. q[Len(q) - m + 1] + 0 >= windowSize
    BY <1>1, <1>2, <1>3 DEF Room
  <1> QED  BY <1>1, <1>3, <1>4, <1>5

(* The wait is until the oldest has left; the others are no older.         *)
LEMMA RoomAfterWait ==
  ASSUME NEW q, Proper(q), Fresh(q), NEW m \in Nat \ {0}, Len(q) = m
  PROVE  /\ q # <<>> /\ Head(q) \in Nat /\ Head(q) < windowSize
         /\ Room(q, m, windowSize - Head(q))
  <1>1. q \in Seq(Ages) /\ Len(q) \in Nat /\ \A i \in 1..Len(q) : q[i] \in Nat
    BY AgesSeq DEF Proper
  <1>2. q # <<>> /\ Head(q) = q[1] /\ 1 \in 1..Len(q)
    BY <1>1
  <1>3. q[1] \in Nat /\ q[1] < windowSize
    BY <1>1, <1>2 DEF Fresh
  <1>4. Len(q) - m + 1 = 1
    BY <1>1
  <1> QED  BY <1>1, <1>2, <1>3, <1>4 DEF Room

-----------------------------------------------------------------------------
(* The window *)

(* What was given in the window is what the limiter still counts.          *)
WindowInv ==
    /\ requests \in [Limiters -> Seq(Ages)] /\ given \in [Limiters -> Seq(Ages)]
    /\ \A l \in Limiters : /\ Proper(requests[l])
                           /\ given[l] = Kept(requests[l])
                           /\ Len(given[l]) <= maxRequests[l]

(* One limiter's requests change, or are cleaned up only.                  *)
LEMMA CleanedUp ==
  ASSUME WindowInv, NEW l \in Limiters,
         requests' = [requests EXCEPT ![l] = Kept(@)], given' = given
  PROVE  WindowInv'
  <1>1. requests'[l] = Kept(requests[l]) /\ \A k \in Limiters : k # l => requests'[k] = requests[k]
    BY DEF WindowInv
  <1>2. Proper(Kept(requests[l])) /\ Fresh(Kept(requests[l]))
    BY KeptFacts DEF WindowInv
  <1>3. Kept(Kept(requests[l])) = Kept(requests[l])
    BY <1>2, FreshKept
  <1>4. requests' \in [Limiters -> Seq(Ages)]
    BY <1>2 DEF WindowInv, Proper
  <1> QED  BY <1>1, <1>2, <1>3, <1>4 DEF WindowInv

LEMMA AllowWindow ==
  ASSUME WindowInv, NEW c \in Calls, NEW l \in Limiters, NEW refused, Allow(c, l, refused)
  PROVE  WindowInv'
  <1>1. CASE Full(l)
    BY <1>1, CleanedUp DEF Allow, ghosts
  <1>2. CASE ~Full(l)
    <2> DEFINE K == Kept(requests[l])
               R == Recorded(K)
    <2>1. /\ requests' = [requests EXCEPT ![l] = Recorded(Kept(@))]
          /\ given' = [given EXCEPT ![l] = Append(@, 0)]
      BY <1>2 DEF Allow
    <2>2. Proper(K) /\ Fresh(K) /\ given[l] = K
      BY KeptFacts DEF WindowInv
    <2>3. Len(K) \in Nat /\ maxRequests[l] \in Nat /\ ~(Len(K) >= maxRequests[l])
      BY <1>2, <2>2, AgesSeq DEF Full, Proper
    <2>4. Proper(R) /\ Len(R) = Len(K) + 1 /\ Kept(R) = R /\ Append(K, 0) = R
      BY <2>2, RecordedFacts DEF Recorded
    <2>5. /\ requests'[l] = R /\ \A k \in Limiters : k # l => requests'[k] = requests[k]
          /\ given'[l] = R /\ \A k \in Limiters : k # l => given'[k] = given[k]
      BY <2>1, <2>2, <2>4 DEF WindowInv
    <2> HIDE DEF K, R
    <2>6. requests' \in [Limiters -> Seq(Ages)] /\ given' \in [Limiters -> Seq(Ages)]
      BY <2>1, <2>4, <2>5 DEF WindowInv, Proper
    <2>7. Len(R) <= maxRequests[l]
      BY <2>3, <2>4
    <2>8. ASSUME NEW k \in Limiters
          PROVE  /\ Proper(requests'[k]) /\ given'[k] = Kept(requests'[k])
                 /\ Len(given'[k]) <= maxRequests[k]
      <3>1. CASE k = l
        BY <2>4, <2>5, <2>7, <3>1
      <3>2. CASE k # l
        BY <2>5, <3>2 DEF WindowInv
      <3> QED  BY <3>1, <3>2
    <2> QED  BY <2>6, <2>8 DEF WindowInv
  <1> QED  BY <1>1, <1>2

LEMMA TickWindow ==
  ASSUME WindowInv, Tick
  PROVE  WindowInv'
  <1>1. \A l \in Limiters : /\ requests'[l] = Older(requests[l])
                            /\ given'[l] = Recent(Older(Kept(requests[l])))
    BY DEF Tick, WindowInv
  <1>2. \A l \in Limiters : /\ Proper(Older(requests[l])) /\ requests[l] \in Seq(Ages)
                            /\ Len(Older(requests[l])) = Len(requests[l])
    BY OlderProper, OlderFacts DEF WindowInv, Proper
  <1>3. \A l \in Limiters : given'[l] = Kept(Older(requests[l]))
    BY <1>1, TickKept DEF WindowInv
  <1>4. \A l \in Limiters : Len(Kept(Older(requests[l]))) <= Len(Kept(requests[l]))
    <2> TAKE l \in Limiters
    <2> DEFINE q == requests[l]
               O == Older(q)
    <2>1. /\ Proper(q) /\ q \in Seq(Ages) /\ Proper(O) /\ Len(O) = Len(q) /\ Len(q) \in Nat
          /\ \A i \in 1..Len(q) : q[i] \in Nat
          /\ \A i \in 1..Len(q) : O[i] = IF q[i] < windowSize THEN q[i] + 1 ELSE windowSize
      BY <1>2, AgesSeq, OlderFacts DEF WindowInv
    <2> HIDE DEF q, O
    <2>2. PICK f \in 1..Len(q) + 1 : Cut(q, f) /\ Len(Kept(q)) = Len(q) - f + 1
      BY <2>1, KeptFacts
    <2>3. PICK g \in 1..Len(O) + 1 : Cut(O, g) /\ Len(Kept(O)) = Len(O) - g + 1
      BY <2>1, KeptFacts
    <2>4. ~(g < f)
      <3> SUFFICES ASSUME g < f  PROVE FALSE
        OBVIOUS
      <3>1. g \in 1..Len(q) /\ g < f /\ g \in 1..Len(O)
        BY <2>1, <2>2, <2>3
      <3>2. q[g] >= windowSize /\ O[g] < windowSize
        BY <2>2, <2>3, <3>1 DEF Cut
      <3>3. windowSize \in Nat
        OBVIOUS
      <3> QED  BY <2>1, <3>1, <3>2, <3>3
    <2>5. Len(Kept(O)) <= Len(Kept(q))
      BY <2>1, <2>2, <2>3, <2>4
    <2> QED  BY <2>5 DEF q, O
  <1>5. requests' \in [Limiters -> Seq(Ages)] /\ given' \in [Limiters -> Seq(Ages)]
    <2>1. \A l \in Limiters : /\ Older(requests[l]) \in Seq(Ages)
                              /\ Kept(Older(requests[l])) \in Seq(Ages)
      BY <1>2, KeptFacts DEF Proper
    <2>2. /\ requests' = [l \in Limiters |-> Older(requests[l])]
          /\ given' = [l \in Limiters |-> Recent(Older(given[l]))]
      BY DEF Tick
    <2>3. given' = [l \in Limiters |-> given'[l]]
      BY <2>2
    <2>4. requests' \in [Limiters -> Seq(Ages)]
      BY <2>1, <2>2
    <2> QED  BY <1>3, <2>1, <2>3, <2>4
  <1>6. \A l \in Limiters : Len(given'[l]) <= maxRequests[l]
    <2> TAKE l \in Limiters
    <2>1. Len(Kept(requests[l])) <= maxRequests[l] /\ maxRequests[l] \in Nat
      BY DEF WindowInv
    <2>2. Kept(requests[l]) \in Seq(Ages) /\ Kept(Older(requests[l])) \in Seq(Ages)
      BY <1>2, KeptFacts DEF WindowInv, Proper
    <2>3. Len(Kept(requests[l])) \in Nat /\ Len(Kept(Older(requests[l]))) \in Nat
      BY <2>2, AgesSeq
    <2>4. Len(Kept(Older(requests[l]))) <= Len(Kept(requests[l]))
      BY <1>4
    <2> QED  BY <1>3, <2>1, <2>3, <2>4
  <1>7. ASSUME NEW l \in Limiters
        PROVE  Proper(requests'[l]) /\ given'[l] = Kept(requests'[l])
    BY <1>1, <1>2, <1>3, <1>7
  <1> QED  BY <1>5, <1>6, <1>7 DEF WindowInv

LEMMA CloseWindow ==
  ASSUME WindowInv, NEW l \in Limiters, Close(l)
  PROVE  WindowInv'
  <1>1. <<>> \in Seq(Ages) /\ Len(<<>>) = 0
    OBVIOUS
  <1>2. Proper(<<>>) /\ Fresh(<<>>)
    BY <1>1 DEF Proper, Sorted, Fresh
  <1>3. Kept(<<>>) = <<>>
    BY <1>2, FreshKept
  <1>4. /\ requests'[l] = <<>> /\ \A k \in Limiters : k # l => requests'[k] = requests[k]
        /\ given'[l] = <<>> /\ \A k \in Limiters : k # l => given'[k] = given[k]
        /\ requests' \in [Limiters -> Seq(Ages)] /\ given' \in [Limiters -> Seq(Ages)]
    BY <1>1 DEF Close, WindowInv
  <1>5. ASSUME NEW k \in Limiters
        PROVE  /\ Proper(requests'[k]) /\ given'[k] = Kept(requests'[k])
               /\ Len(given'[k]) <= maxRequests[k]
    <2>1. CASE k = l
      <3>1. Len(<<>>) <= maxRequests[l]
        BY <1>1
      <3> QED  BY <1>2, <1>3, <1>4, <2>1, <3>1
    <2>2. CASE k # l
      BY <1>4, <2>2 DEF WindowInv
    <2> QED  BY <2>1, <2>2
  <1> QED  BY <1>4, <1>5 DEF WindowInv

LEMMA WindowInit == Init => WindowInv
  <1> SUFFICES ASSUME Init  PROVE WindowInv
    OBVIOUS
  <1>1. <<>> \in Seq(Ages) /\ Len(<<>>) = 0
    OBVIOUS
  <1>2. Proper(<<>>) /\ Fresh(<<>>)
    BY <1>1 DEF Proper, Sorted, Fresh
  <1>3. Kept(<<>>) = <<>>
    BY <1>2, FreshKept
  <1> QED  BY <1>1, <1>2, <1>3 DEF WindowInv, Init

LEMMA WindowKept == WindowInv /\ [Next]_vars => WindowInv'
  <1> SUFFICES ASSUME WindowInv, [Next]_vars  PROVE WindowInv'
    OBVIOUS
  <1>1. CASE Tick
    BY <1>1, TickWindow
  <1>2. ASSUME NEW l \in Limiters, Close(l)  PROVE WindowInv'
    BY <1>2, CloseWindow
  <1>3. ASSUME NEW c \in Calls, NEW l \in Limiters, Ask(c, l) \/ Retry(c, l)
        PROVE  WindowInv'
    BY <1>3, AllowWindow DEF Ask, Retry
  <1>4. ASSUME NEW c \in Calls, NEW l \in Limiters, Reserve(c, l)  PROVE WindowInv'
    BY <1>4, CleanedUp DEF Reserve, ghosts
  <1>5. CASE UNCHANGED <<requests, given>>
    BY <1>5 DEF WindowInv
  <1>6. ASSUME NEW c \in Calls,
               \/ \E t \in Offers[c] : Begin(c, t[1], t[2])
               \/ CancelContext(c) \/ End(c)
               \/ \E l \in Limiters : LegCancelled(c, l) \/ Report(c, l)
        PROVE  UNCHANGED <<requests, given>>
    BY <1>6 DEF Begin, CancelContext, End, LegCancelled, Report, ghosts
  <1>7. UNCHANGED vars => UNCHANGED <<requests, given>>
    BY DEF vars, codeVars, ghosts
  <1> QED  BY <1>1, <1>2, <1>3, <1>4, <1>5, <1>6, <1>7 DEF Next, LegStep

-----------------------------------------------------------------------------
(* The calls and their legs *)

LegPlaces == {"off", "ask", "reserve", "sleep"} \cup Results
Legs == [at : LegPlaces, left : Ages]
CallRecords == [op : Ops \cup {None}, mode : Modes \cup {None},
                pc : {"idle", "waiting", "returned"},
                result : Results \cup {None}, heard : Results \cup {None}]

CallTypes ==
    /\ call \in [Calls -> CallRecords]
    /\ leg \in [Calls -> [Limiters -> Legs]]
    /\ done \in [Calls -> BOOLEAN]
    /\ got \in [Calls -> SUBSET Limiters]
    /\ overtaken \in [Calls -> [Limiters -> BOOLEAN]]

LEMMA WaitFacts ==
  ASSUME WindowInv, NEW l \in Limiters
  PROVE  /\ WaitTime(l) \in Ages
         /\ maxRequests[l] # 0 => Room(Kept(requests[l]), maxRequests[l], WaitTime(l))
  <1> DEFINE K == Kept(requests[l])
             m == maxRequests[l]
  <1>1. Proper(K) /\ Fresh(K) /\ Len(K) <= m
    BY KeptFacts DEF WindowInv
  <1>2. K \in Seq(Ages) /\ Len(K) \in Nat /\ m \in Nat /\ \A i \in 1..Len(K) : K[i] \in Nat
    BY <1>1, AgesSeq DEF Proper
  <1>3. WaitTime(l) = IF Len(K) >= m /\ K # <<>> THEN windowSize - Head(K) ELSE 0
    BY DEF WaitTime, Full
  <1> HIDE DEF K, m
  <1>4. ASSUME K # <<>>  PROVE windowSize - Head(K) \in Ages
    <2>1. Head(K) = K[1] /\ 1 \in 1..Len(K)
      BY <1>2, <1>4
    <2>2. K[1] \in Nat /\ K[1] < windowSize /\ windowSize \in Nat
      BY <1>1, <1>2, <2>1 DEF Fresh
    <2> QED  BY <2>1, <2>2 DEF Ages
  <1>5. WaitTime(l) \in Ages
    BY <1>3, <1>4 DEF Ages
  <1>6. ASSUME m # 0  PROVE Room(K, m, WaitTime(l))
    <2>1. CASE Len(K) >= m
      <3>1. Len(K) = m
        BY <1>1, <1>2, <2>1
      <3>2. K # <<>> /\ Room(K, m, windowSize - Head(K))
        BY <1>1, <1>2, <1>6, <3>1, RoomAfterWait
      <3> QED  BY <1>3, <2>1, <3>2
    <2>2. CASE ~(Len(K) >= m)
      BY <2>2 DEF Room
    <2> QED  BY <2>1, <2>2
  <1> QED  BY <1>5, <1>6 DEF K, m

(* What one step of a leg means for all the legs.                          *)
LEMMA LegMoved ==
  ASSUME CallTypes, NEW c \in Calls, NEW l \in Limiters, NEW x \in Legs,
         leg' = [leg EXCEPT ![c][l] = x]
  PROVE  /\ leg' \in [Calls -> [Limiters -> Legs]]
         /\ leg'[c][l] = x
         /\ \A k \in Limiters : k # l => leg'[c][k] = leg[c][k]
         /\ \A d \in Calls : d # c => leg'[d] = leg[d]
  BY DEF CallTypes

AllowEffect(c, l, refused) ==
    /\ leg' \in [Calls -> [Limiters -> Legs]]
    /\ leg'[c][l].at = IF Full(l) THEN refused ELSE "nil"
    /\ leg'[c][l].left = leg[c][l].left
    /\ \A k \in Limiters : k # l => leg'[c][k] = leg[c][k]
    /\ \A d \in Calls : d # c => leg'[d] = leg[d]
    /\ Full(l) => UNCHANGED ghosts
    /\ ~Full(l) =>
         /\ got' = [got EXCEPT ![c] = @ \cup {l}]
         /\ overtaken' \in [Calls -> [Limiters -> BOOLEAN]]
         /\ \A d \in Calls, k \in Limiters : k # l => overtaken'[d][k] = overtaken[d][k]
         /\ \A d \in Calls : d # c =>
               (overtaken'[d][l] = TRUE <=> overtaken[d][l] = TRUE \/ leg[d][l].at = "sleep")

LEMMA AllowFacts ==
  ASSUME CallTypes, NEW c \in Calls, NEW l \in Limiters, NEW refused \in LegPlaces,
         Allow(c, l, refused)
  PROVE  AllowEffect(c, l, refused)
  <1> DEFINE at == IF Full(l) THEN refused ELSE "nil"
             x == [at |-> at, left |-> leg[c][l].left]
  <1>1. leg[c][l] \in Legs /\ at \in LegPlaces
    BY DEF CallTypes, LegPlaces, Results
  <1>2. x \in Legs
    BY <1>1 DEF Legs
  <1>3. leg' = [leg EXCEPT ![c][l].at = at]
    BY DEF Allow
  <1> HIDE DEF at
  <1>4. leg' = [leg EXCEPT ![c][l] = x]
    <2>1. [leg[c][l] EXCEPT !.at = at] = x
      BY <1>1 DEF Legs
    <2> HIDE DEF x
    <2>2. leg' = [leg EXCEPT ![c] = [leg[c] EXCEPT ![l] = [leg[c][l] EXCEPT !.at = at]]]
      BY <1>3 DEF CallTypes
    <2> QED  BY <2>1, <2>2 DEF CallTypes
  <1>5. /\ leg' \in [Calls -> [Limiters -> Legs]]
        /\ leg'[c][l] = x
        /\ \A k \in Limiters : k # l => leg'[c][k] = leg[c][k]
        /\ \A d \in Calls : d # c => leg'[d] = leg[d]
    <2> HIDE DEF x
    <2> QED  BY <1>2, <1>4, LegMoved
  <1>6. leg'[c][l].at = at /\ leg'[c][l].left = leg[c][l].left
    BY <1>5
  <1>7. Full(l) => UNCHANGED ghosts
    BY DEF Allow
  <1>8. ASSUME ~Full(l)
        PROVE  /\ got' = [got EXCEPT ![c] = @ \cup {l}]
               /\ overtaken' \in [Calls -> [Limiters -> BOOLEAN]]
               /\ \A d \in Calls, k \in Limiters : k # l => overtaken'[d][k] = overtaken[d][k]
               /\ \A d \in Calls : d # c =>
                    (overtaken'[d][l] = TRUE <=> overtaken[d][l] = TRUE \/ leg[d][l].at = "sleep")
    <2> DEFINE others == {d \in Calls : leg[d][l].at = "sleep"}
    <2>1. /\ got' = [got EXCEPT ![c] = @ \cup {l}]
          /\ overtaken' = [d \in Calls |->
                [overtaken[d] EXCEPT ![l] = d # c /\ (overtaken[d][l] \/ d \in others)]]
      BY <1>8 DEF Allow
    <2>2. \A d \in Calls : d \in others <=> leg[d][l].at = "sleep"
      OBVIOUS
    <2> HIDE DEF others
    <2>3. \A d \in Calls : overtaken[d] \in [Limiters -> BOOLEAN]
      BY DEF CallTypes
    <2>4. \A d \in Calls :
             /\ overtaken'[d] \in [Limiters -> BOOLEAN]
             /\ overtaken'[d][l] = (d # c /\ (overtaken[d][l] \/ d \in others))
             /\ \A k \in Limiters : k # l => overtaken'[d][k] = overtaken[d][k]
      BY <2>1, <2>3
    <2>5. overtaken' \in [Calls -> [Limiters -> BOOLEAN]]
      BY <2>1, <2>4
    <2>6. ASSUME NEW d \in Calls, d # c
          PROVE  overtaken'[d][l] = TRUE <=> overtaken[d][l] = TRUE \/ leg[d][l].at = "sleep"
      <3>1. overtaken[d][l] \in BOOLEAN
        BY <2>3
      <3> QED  BY <2>2, <2>4, <2>6, <3>1
    <2> QED  BY <2>1, <2>4, <2>5, <2>6
  <1> QED  BY <1>5, <1>6, <1>7, <1>8 DEF at, AllowEffect

-----------------------------------------------------------------------------
(* What a call has taken *)

Active(c) == {l \in Limiters : leg[c][l].at # "off"}
Given(c) == {l \in Limiters : leg[c][l].at = "nil"}

(* The legs a waiting call has, and what is taken so far: first the        *)
(* limiters asked at once, then the one that comes later, or the one still *)
(* awaited where both were asked.                                          *)
Waiting(c) ==
    LET m == call[c]
    IN /\ m.op \in Ops /\ m.mode \in Modes
       /\ \/ /\ Active(c) = AskedFirst(m.op, m.mode)
             /\ m.heard = None
             /\ got[c] = Given(c)
          \/ /\ Active(c) = {"secondary"} /\ m.mode = "AllRequired"
             /\ m.heard = None
             /\ got[c] = {"primary"} \cup Given(c)
          \/ /\ Active(c) = {"secondary"} /\ m.mode = "AnyAllowed" /\ m.op = "Allow"
             /\ m.heard = None
             /\ got[c] = Given(c)
          \/ /\ m.mode = "AnyAllowed" /\ m.op = "Wait"
             /\ m.heard \in Failures
             /\ \E l \in Limiters : Active(c) = {l}
             /\ got[c] = Given(c)

(* A leg that outlives its call is one that AnyAllowed left behind with    *)
(* the other's success.                                                    *)
Returned(c) ==
    LET m == call[c]
        ok == m.result = "nil"
    IN /\ m.mode \in Modes
       /\ m.mode = "PrimaryOnly" => got[c] = IF ok THEN {"primary"} ELSE {}
       /\ m.mode = "AllRequired" => IF ok THEN got[c] = Limiters ELSE got[c] \subseteq {"primary"}
       /\ m.mode = "AnyAllowed" => ok = (got[c] # {})
       /\ Active(c) = {} \/ (m.mode = "AnyAllowed" /\ ok)

CallOK(c) ==
    /\ call[c].pc = "idle" => Active(c) = {} /\ got[c] = {}
    /\ call[c].pc = "waiting" => Waiting(c)
    /\ call[c].pc = "returned" => Returned(c)

CallInv == \A c \in Calls : CallOK(c)

LEMMA SameCall ==
  ASSUME NEW c \in Calls, CallOK(c), call'[c] = call[c], got'[c] = got[c],
         \A l \in Limiters : leg'[c][l].at = leg[c][l].at
  PROVE  CallOK(c)'
  <1>1. Active(c)' = Active(c) /\ Given(c)' = Given(c)
    BY DEF Active, Given
  <1>2. Waiting(c)' <=> Waiting(c)
    BY <1>1 DEF Waiting
  <1>3. Returned(c)' <=> Returned(c)
    BY <1>1 DEF Returned
  <1> QED  BY <1>1, <1>2, <1>3 DEF CallOK

(* A leg goes on: it is given a place exactly if it ends with "nil".       *)
LEMMA LegGoesOn ==
  ASSUME NEW c \in Calls, NEW l \in Limiters, CallOK(c), call'[c] = call[c],
         leg[c][l].at \notin {"off", "nil"}, leg'[c][l].at # "off",
         \A k \in Limiters : k # l => leg'[c][k] = leg[c][k],
         got'[c] = got[c] \cup (IF leg'[c][l].at = "nil" THEN {l} ELSE {})
  PROVE  CallOK(c)'
  <1> DEFINE new == IF leg'[c][l].at = "nil" THEN {l} ELSE {}
  <1>1. Active(c)' = Active(c) /\ Active(c) # {} /\ l \in Active(c)
    BY DEF Active
  <1>2. Given(c)' = Given(c) \cup new
    BY DEF Given
  <1>3. got'[c] = got[c] \cup new
    OBVIOUS
  <1> HIDE DEF new
  <1>4. Waiting(c) => Waiting(c)'
    BY <1>1, <1>2, <1>3 DEF Waiting
  <1>5. Returned(c) => Returned(c)'
    <2> SUFFICES ASSUME Returned(c)  PROVE Returned(c)'
      OBVIOUS
    <2>1. call[c].mode = "AnyAllowed" /\ call[c].result = "nil" /\ got[c] # {}
      BY <1>1 DEF Returned
    <2>2. got'[c] # {}
      BY <1>3, <2>1
    <2> QED  BY <2>1, <2>2 DEF Returned, Modes
  <1> QED  BY <1>1, <1>4, <1>5 DEF CallOK

LEMMA BeginOK ==
  ASSUME CallTypes, NEW c \in Calls, CallOK(c), NEW op \in Ops, NEW mode \in Modes,
         Begin(c, op, mode)
  PROVE  CallOK(c)'
  <1>1. /\ call'[c].op = op /\ call'[c].mode = mode /\ call'[c].pc = "waiting"
        /\ call'[c].heard = None /\ got'[c] = {}
        /\ \A l \in Limiters : leg'[c][l] = IF l \in AskedFirst(op, mode)
                                            THEN [NoLeg EXCEPT !.at = "ask"] ELSE NoLeg
    BY DEF Begin, NoCall, CallTypes
  <1>2. NoLeg.at = "off" /\ [NoLeg EXCEPT !.at = "ask"].at = "ask"
    BY DEF NoLeg
  <1>3. \A l \in Limiters : leg'[c][l].at = IF l \in AskedFirst(op, mode) THEN "ask" ELSE "off"
    BY <1>1, <1>2
  <1>4. AskedFirst(op, mode) \subseteq Limiters
    BY DEF AskedFirst, Limiters
  <1>5. Active(c)' = AskedFirst(op, mode) /\ Given(c)' = {}
    BY <1>3, <1>4 DEF Active, Given
  <1>6. Waiting(c)'
    BY <1>1, <1>5 DEF Waiting
  <1> QED  BY <1>1, <1>6 DEF CallOK

(* A result is looked at: what becomes of the call and of its legs.        *)
LEMMA ReportFacts ==
  ASSUME CallTypes, NEW c \in Calls, NEW l \in Limiters, Report(c, l)
  PROVE  LET r == leg[c][l].at
             m == call[c]
             g == Goes(m, l, r)
         IN /\ r \in Results
            /\ leg'[c][l].at = "off"
            /\ \A k \in Limiters : k # l =>
                  leg'[c][k].at = IF g = k THEN "ask" ELSE leg[c][k].at
            /\ call'[c].op = m.op /\ call'[c].mode = m.mode
            /\ g = "heard" => /\ call'[c].pc = m.pc /\ call'[c].result = m.result
                              /\ call'[c].heard = r
            /\ g = "end" => /\ call'[c].pc = "returned" /\ call'[c].result = Outcome(m, r)
            /\ g \notin {"heard", "end"} => call'[c] = m
            /\ got' = got
  <1> DEFINE r == leg[c][l].at
             m == call[c]
             g == Goes(m, l, r)
  <1>1. m \in CallRecords
    BY DEF CallTypes
  <1>2. /\ r \in Results
        /\ leg'[c] = [k \in Limiters |-> IF k = l THEN NoLeg
                        ELSE IF g = k THEN [NoLeg EXCEPT !.at = "ask"] ELSE leg[c][k]]
        /\ call'[c] = CASE g = "heard" -> [m EXCEPT !.heard = r]
                        [] g = "end" -> [m EXCEPT !.pc = "returned", !.result = Outcome(m, r)]
                        [] OTHER -> m
        /\ got' = got
    BY DEF Report, CallTypes
  <1>3. NoLeg.at = "off" /\ [NoLeg EXCEPT !.at = "ask"].at = "ask"
    BY DEF NoLeg
  <1> HIDE DEF r, m, g
  <1>4. /\ leg'[c][l].at = "off"
        /\ \A k \in Limiters : k # l =>
              leg'[c][k].at = IF g = k THEN "ask" ELSE leg[c][k].at
    BY <1>2, <1>3
  <1>5. /\ call'[c].op = m.op /\ call'[c].mode = m.mode
        /\ g = "heard" => /\ call'[c].pc = m.pc /\ call'[c].result = m.result
                          /\ call'[c].heard = r
        /\ g = "end" => /\ call'[c].pc = "returned" /\ call'[c].result = Outcome(m, r)
        /\ g \notin {"heard", "end"} => call'[c] = m
    BY <1>1, <1>2 DEF CallRecords
  <1> QED  BY <1>2, <1>4, <1>5 DEF r, m, g

LEMMA ReportOK ==
  ASSUME CallTypes, NEW c \in Calls, NEW l \in Limiters, CallOK(c), Report(c, l)
  PROVE  CallOK(c)'
  <1> DEFINE r == leg[c][l].at
             m == call[c]
             g == Goes(m, l, r)
  <1>1. /\ r \in Results
        /\ leg'[c][l].at = "off"
        /\ \A k \in Limiters : k # l =>
              leg'[c][k].at = IF g = k THEN "ask" ELSE leg[c][k].at
        /\ call'[c].op = m.op /\ call'[c].mode = m.mode
        /\ g = "heard" => /\ call'[c].pc = m.pc /\ call'[c].result = m.result
                          /\ call'[c].heard = r
        /\ g = "end" => /\ call'[c].pc = "returned" /\ call'[c].result = Outcome(m, r)
        /\ g \notin {"heard", "end"} => call'[c] = m
        /\ got' = got
    BY ReportFacts
  <1>2. l \in Active(c) /\ (l \in Given(c) <=> r = "nil")
    BY <1>1 DEF Active, Given, Results, Failures
  <1>3. m \in CallRecords /\ m.pc \in {"waiting", "returned"}
    BY <1>2 DEF CallTypes, CallRecords, CallOK
  <1>4. g # "secondary" => Active(c)' = Active(c) \ {l} /\ Given(c)' = Given(c) \ {l}
    <2> SUFFICES ASSUME g # "secondary"
                 PROVE  Active(c)' = Active(c) \ {l} /\ Given(c)' = Given(c) \ {l}
      OBVIOUS
    <2>1. \A k \in Limiters : g # k
      BY DEF Goes, Limiters
    <2> HIDE DEF g, r, m
    <2>2. \A k \in Limiters : k # l => leg'[c][k].at = leg[c][k].at
      BY <1>1, <2>1
    <2> QED  BY <1>1, <2>2 DEF Active, Given
  <1>5. CASE m.pc = "returned"
    <2>1. g = "heard"
      BY <1>5 DEF Goes
    <2>2. Returned(c) /\ Active(c)' \subseteq Active(c)
      BY <1>4, <1>5, <2>1 DEF CallOK
    <2>3. /\ call'[c].pc = "returned" /\ call'[c].mode = m.mode /\ call'[c].result = m.result
          /\ got'[c] = got[c]
      BY <1>1, <1>5, <2>1
    <2>4. Returned(c)'
      BY <1>2, <2>2, <2>3 DEF Returned
    <2> QED  BY <2>3, <2>4 DEF CallOK
  <1>6. CASE m.pc = "waiting"
    <2>1. Waiting(c) /\ m.op \in Ops /\ m.mode \in Modes /\ got'[c] = got[c]
      BY <1>1, <1>6 DEF CallOK, Waiting
    <2>a. ASSUME g = "end", Returned(c)'  PROVE CallOK(c)'
      BY <1>1, <2>a DEF CallOK
    <2>2. CASE /\ Active(c) = AskedFirst(m.op, m.mode) /\ m.heard = None
               /\ got[c] = Given(c)
      <3>1. CASE m.mode = "AnyAllowed" /\ m.op = "Wait"
        <4>1. Active(c) = Limiters
          BY <2>2, <3>1 DEF AskedFirst
        <4>2. CASE r = "nil"
          <5>1. g = "end" /\ Outcome(m, r) = "nil"
            BY <1>6, <3>1, <4>2 DEF Goes, Outcome
          <5>2. got'[c] # {}
            BY <1>2, <2>1, <2>2, <4>2
          <5>3. Returned(c)'
            BY <1>1, <3>1, <5>1, <5>2 DEF Returned, Modes
          <5> QED  BY <2>a, <5>1, <5>3
        <4>3. CASE r # "nil"
          <5>1. g = "heard"
            BY <1>6, <2>2, <3>1, <4>3 DEF Goes
          <5>2. Given(c)' = Given(c)
            BY <1>2, <1>4, <4>3, <5>1
          <5>3. \E k \in Limiters : Active(c)' = {k}
            BY <1>4, <4>1, <5>1 DEF Limiters
          <5>4. r \in Failures
            BY <1>1, <4>3 DEF Results
          <5>5. /\ call'[c].pc = "waiting" /\ call'[c].mode = "AnyAllowed" /\ call'[c].op = "Wait"
                /\ call'[c].heard = r
            BY <1>1, <1>6, <3>1, <5>1
          <5>6. Waiting(c)'
            BY <2>1, <2>2, <5>2, <5>3, <5>4, <5>5 DEF Waiting, Ops, Modes
          <5> QED  BY <5>5, <5>6 DEF CallOK
        <4> QED  BY <4>2, <4>3
      <3>2. CASE ~(m.mode = "AnyAllowed" /\ m.op = "Wait")
        <4>1. /\ Active(c) = {"primary"} /\ l = "primary"
              /\ got[c] = IF r = "nil" THEN {"primary"} ELSE {}
          <5>1. Active(c) = {"primary"} /\ l = "primary"
            BY <1>2, <2>2, <3>2 DEF AskedFirst
          <5>2. Given(c) \subseteq {"primary"}
            BY <5>1 DEF Active, Given
          <5> QED  BY <1>2, <2>2, <5>1, <5>2
        <4>2. CASE m.mode = "AllRequired" /\ r = "nil"
          <5>1. g = "secondary"
            BY <1>6, <4>1, <4>2 DEF Goes
          <5>2. call'[c] = m
            BY <1>1, <5>1
          <5>3. Active(c)' = {"secondary"} /\ Given(c)' = {}
            BY <1>1, <4>1, <5>1 DEF Active, Given, Limiters
          <5>4. Waiting(c)'
            BY <2>1, <2>2, <4>1, <4>2, <5>2, <5>3 DEF Waiting
          <5> QED  BY <1>6, <5>2, <5>4 DEF CallOK
        <4>3. CASE m.mode = "AnyAllowed" /\ r # "nil"
          <5>0. m.op = "Allow"
            BY <2>1, <3>2, <4>3 DEF Ops
          <5>1. g = "secondary"
            BY <1>6, <4>1, <4>3, <5>0 DEF Goes
          <5>2. call'[c] = m
            BY <1>1, <5>1
          <5>3. Active(c)' = {"secondary"} /\ Given(c)' = {}
            BY <1>1, <4>1, <5>1 DEF Active, Given, Limiters
          <5>4. Waiting(c)'
            BY <2>1, <2>2, <4>1, <4>3, <5>0, <5>2, <5>3 DEF Waiting
          <5> QED  BY <1>6, <5>2, <5>4 DEF CallOK
        <4>4. CASE ~(m.mode = "AllRequired" /\ r = "nil") /\ ~(m.mode = "AnyAllowed" /\ r # "nil")
          <5>1. g = "end" /\ Outcome(m, r) = r
            BY <1>6, <2>2, <3>2, <4>4 DEF Goes, Outcome
          <5>2. Active(c)' = {}
            BY <1>4, <4>1, <5>1
          <5>3. Returned(c)'
            BY <1>1, <2>1, <4>1, <4>4, <5>1, <5>2 DEF Returned
          <5> QED  BY <2>a, <5>1, <5>3
        <4> QED  BY <4>2, <4>3, <4>4
      <3> QED  BY <3>1, <3>2
    <2>3. CASE /\ Active(c) = {"secondary"} /\ m.mode = "AllRequired" /\ m.heard = None
               /\ got[c] = {"primary"} \cup Given(c)
      <3>1. l = "secondary" /\ g = "end" /\ Outcome(m, r) = r
        BY <1>2, <1>6, <2>3 DEF Goes, Outcome
      <3>2. Given(c) = IF r = "nil" THEN {"secondary"} ELSE {}
        BY <1>2, <2>3, <3>1 DEF Active, Given
      <3>3. Active(c)' = {}
        BY <1>4, <2>3, <3>1
      <3>4. Returned(c)'
        BY <1>1, <2>1, <2>3, <3>1, <3>2, <3>3 DEF Returned, Limiters
      <3> QED  BY <2>a, <3>1, <3>4
    <2>4. CASE /\ Active(c) = {"secondary"} /\ m.mode = "AnyAllowed" /\ m.op = "Allow"
               /\ m.heard = None /\ got[c] = Given(c)
      <3>1. l = "secondary" /\ g = "end" /\ Outcome(m, r) = r
        BY <1>2, <1>6, <2>4 DEF Goes, Outcome
      <3>2. Given(c) = IF r = "nil" THEN {"secondary"} ELSE {}
        BY <1>2, <2>4, <3>1 DEF Active, Given
      <3>3. Active(c)' = {}
        BY <1>4, <2>4, <3>1
      <3>4. Returned(c)'
        BY <1>1, <2>1, <2>4, <3>1, <3>2, <3>3 DEF Returned
      <3> QED  BY <2>a, <3>1, <3>4
    <2>5. CASE /\ m.mode = "AnyAllowed" /\ m.op = "Wait" /\ m.heard \in Failures
               /\ \E k \in Limiters : Active(c) = {k}
               /\ got[c] = Given(c)
      <3>1. Active(c) = {l}
        BY <1>2, <2>5
      <3>2. g = "end" /\ m.heard # None /\ m.heard # "nil"
        BY <1>6, <2>5 DEF Goes, Results, Failures
      <3>3. Outcome(m, r) = IF r = "nil" THEN "nil" ELSE m.heard
        BY <3>2 DEF Outcome
      <3>4. got[c] = IF r = "nil" THEN {l} ELSE {}
        BY <1>2, <2>5, <3>1 DEF Active, Given
      <3>5. Active(c)' = {}
        BY <1>4, <3>1, <3>2
      <3>6. Returned(c)'
        BY <1>1, <2>1, <2>5, <3>2, <3>3, <3>4, <3>5 DEF Returned
      <3> QED  BY <2>a, <3>2, <3>6
    <2> QED  BY <2>1, <2>2, <2>3, <2>4, <2>5 DEF Waiting
  <1> QED  BY <1>3, <1>5, <1>6

LEMMA EndOK ==
  ASSUME CallTypes, NEW c \in Calls, End(c)
  PROVE  CallOK(c)'
  <1>1. /\ call'[c].pc = "idle" /\ got'[c] = {}
        /\ \A l \in Limiters : leg'[c][l].at = "off"
    BY DEF End, CallTypes, NoCall, NoLeg
  <1>2. Active(c)' = {}
    BY <1>1 DEF Active
  <1> QED  BY <1>1, <1>2 DEF CallOK

LEMMA OthersOK ==
  ASSUME CallInv, NEW c \in Calls, CallOK(c)',
         \A d \in Calls : d # c =>
            call'[d] = call[d] /\ got'[d] = got[d] /\ \A l \in Limiters : leg'[d][l] = leg[d][l]
  PROVE  CallInv'
  <1>1. ASSUME NEW d \in Calls, d # c  PROVE CallOK(d)'
    BY <1>1, SameCall DEF CallInv
  <1> QED  BY <1>1 DEF CallInv

LEMMA ReserveFacts ==
  ASSUME WindowInv, CallTypes, NEW c \in Calls, NEW l \in Limiters, Reserve(c, l)
  PROVE  /\ leg' \in [Calls -> [Limiters -> Legs]]
         /\ \/ leg'[c][l].at = "WaitTimeout"
            \/ leg'[c][l].at = "sleep" /\ leg'[c][l].left = WaitTime(l)
         /\ \A k \in Limiters : k # l => leg'[c][k] = leg[c][k]
         /\ \A d \in Calls : d # c => leg'[d] = leg[d]
  <1> DEFINE x == IF maxWaitTime[l] > 0 /\ WaitTime(l) > maxWaitTime[l]
                  THEN [at |-> "WaitTimeout", left |-> 0]
                  ELSE [at |-> "sleep", left |-> WaitTime(l)]
  <1>1. leg' = [leg EXCEPT ![c][l] = x]
    BY DEF Reserve
  <1>2. WaitTime(l) \in Ages /\ 0 \in Ages
    BY WaitFacts DEF Ages
  <1>3. x \in Legs
    BY <1>2 DEF Legs, LegPlaces, Results, Failures
  <1>4. x.at = "WaitTimeout" \/ (x.at = "sleep" /\ x.left = WaitTime(l))
    OBVIOUS
  <1> HIDE DEF x
  <1>m. /\ leg' \in [Calls -> [Limiters -> Legs]]
        /\ leg'[c][l] = x
        /\ \A k \in Limiters : k # l => leg'[c][k] = leg[c][k]
        /\ \A d \in Calls : d # c => leg'[d] = leg[d]
    BY <1>1, <1>3, LegMoved
  <1> QED  BY <1>m, <1>4

LEMMA CancelledFacts ==
  ASSUME CallTypes, NEW c \in Calls, NEW l \in Limiters, LegCancelled(c, l)
  PROVE  /\ leg' \in [Calls -> [Limiters -> Legs]]
         /\ leg'[c][l].at = "Cancelled"
         /\ \A k \in Limiters : k # l => leg'[c][k] = leg[c][k]
         /\ \A d \in Calls : d # c => leg'[d] = leg[d]
  <1> DEFINE x == [at |-> "Cancelled", left |-> 0]
  <1>1. x \in Legs /\ x.at = "Cancelled"
    BY DEF Legs, LegPlaces, Results, Failures, Ages
  <1>2. leg' = [leg EXCEPT ![c][l] = x]
    BY DEF LegCancelled
  <1> HIDE DEF x
  <1>m. /\ leg' \in [Calls -> [Limiters -> Legs]]
        /\ leg'[c][l] = x
        /\ \A k \in Limiters : k # l => leg'[c][k] = leg[c][k]
        /\ \A d \in Calls : d # c => leg'[d] = leg[d]
    BY <1>1, <1>2, LegMoved
  <1> QED  BY <1>m, <1>1

LEMMA TickFacts ==
  ASSUME CallTypes, Tick
  PROVE  /\ leg' \in [Calls -> [Limiters -> Legs]]
         /\ \A c \in Calls, l \in Limiters :
              /\ leg'[c][l].at = leg[c][l].at
              /\ leg'[c][l].left = IF leg[c][l].left = 0 THEN 0 ELSE leg[c][l].left - 1
  <1> DEFINE x(c, l) == [at |-> leg[c][l].at,
                         left |-> IF leg[c][l].left = 0 THEN 0 ELSE leg[c][l].left - 1]
  <1>1. \A c \in Calls, l \in Limiters :
           /\ [leg[c][l] EXCEPT !.left = IF @ = 0 THEN 0 ELSE @ - 1] = x(c, l)
           /\ x(c, l) \in Legs
    <2> TAKE c \in Calls, l \in Limiters
    <2> DEFINE y == leg[c][l]
    <2>1. y \in Legs
      BY DEF CallTypes
    <2> HIDE DEF y
    <2>2. /\ [y EXCEPT !.left = IF @ = 0 THEN 0 ELSE @ - 1]
               = [at |-> y.at, left |-> IF y.left = 0 THEN 0 ELSE y.left - 1]
          /\ [at |-> y.at, left |-> IF y.left = 0 THEN 0 ELSE y.left - 1] \in Legs
      BY <2>1 DEF Legs, Ages
    <2> QED  BY <2>2 DEF y
  <1>2. leg' = [c \in Calls |-> [l \in Limiters |-> x(c, l)]]
    BY <1>1 DEF Tick
  <1>3. \A c \in Calls, l \in Limiters : leg'[c][l] = x(c, l) /\ x(c, l) \in Legs
    BY <1>1, <1>2
  <1>4. leg' \in [Calls -> [Limiters -> Legs]]
    BY <1>2, <1>3
  <1>5. \A c \in Calls, l \in Limiters :
           /\ x(c, l).at = leg[c][l].at
           /\ x(c, l).left = IF leg[c][l].left = 0 THEN 0 ELSE leg[c][l].left - 1
    OBVIOUS
  <1> HIDE DEF x
  <1> QED  BY <1>3, <1>4, <1>5

LEMMA CallTypesKept ==
  ASSUME WindowInv, CallTypes, [Next]_vars
  PROVE  CallTypes'
  <1>1. CASE Tick
    BY <1>1, TickFacts DEF Tick, CallTypes
  <1>2. ASSUME NEW l \in Limiters, Close(l)  PROVE CallTypes'
    BY <1>2 DEF Close, CallTypes
  <1>3. ASSUME NEW c \in Calls, NEW t \in Offers[c], Begin(c, t[1], t[2])  PROVE CallTypes'
    <2>1. t[1] \in Ops /\ t[2] \in Modes
      <3>1. t \in Ops \X Modes
        OBVIOUS
      <3> QED  BY <3>1
    <2> DEFINE m == [NoCall EXCEPT !.op = t[1], !.mode = t[2], !.pc = "waiting"]
    <2>2. m \in CallRecords /\ call' = [call EXCEPT ![c] = m]
      BY <1>3, <2>1 DEF NoCall, CallRecords, Begin
    <2>3. NoLeg \in Legs /\ [NoLeg EXCEPT !.at = "ask"] \in Legs
      BY DEF NoLeg, Legs, LegPlaces, Ages
    <2> HIDE DEF m
    <2>4. leg' \in [Calls -> [Limiters -> Legs]]
      BY <1>3, <2>3 DEF Begin, CallTypes
    <2>5. call' \in [Calls -> CallRecords]
      BY <2>2 DEF CallTypes
    <2>6. got' \in [Calls -> SUBSET Limiters] /\ UNCHANGED <<done, overtaken>>
      BY <1>3 DEF Begin, CallTypes
    <2> QED  BY <2>4, <2>5, <2>6 DEF CallTypes
  <1>4. ASSUME NEW c \in Calls, CancelContext(c)  PROVE CallTypes'
    BY <1>4 DEF CancelContext, CallTypes, ghosts
  <1>5. ASSUME NEW c \in Calls, End(c)  PROVE CallTypes'
    <2>1. NoCall \in CallRecords
      BY DEF NoCall, CallRecords
    <2> QED  BY <1>5, <2>1 DEF End, CallTypes
  <1>6. ASSUME NEW c \in Calls, NEW l \in Limiters, Ask(c, l) \/ Retry(c, l)
        PROVE  CallTypes'
    <2>1. PICK r \in LegPlaces : Allow(c, l, r)
      BY <1>6 DEF Ask, Retry, LegPlaces, Results, Failures
    <2>2. UNCHANGED <<call, done>>
      BY <1>6 DEF Ask, Retry
    <2>3. CASE Full(l)
      <3>1. UNCHANGED ghosts /\ leg' \in [Calls -> [Limiters -> Legs]]
        BY <2>1, <2>3, AllowFacts DEF AllowEffect
      <3> QED  BY <2>2, <3>1 DEF CallTypes, ghosts
    <2>4. CASE ~Full(l)
      <3>1. got' = [got EXCEPT ![c] = @ \cup {l}]
        BY <2>1, <2>4, AllowFacts DEF AllowEffect
      <3>2. got' \in [Calls -> SUBSET Limiters]
        BY <3>1 DEF CallTypes
      <3> QED  BY <2>1, <2>2, <2>4, <3>2, AllowFacts DEF CallTypes, AllowEffect
    <2> QED  BY <2>3, <2>4
  <1>7. ASSUME NEW c \in Calls, NEW l \in Limiters, Reserve(c, l)  PROVE CallTypes'
    BY <1>7, ReserveFacts DEF CallTypes, Reserve, ghosts
  <1>8. ASSUME NEW c \in Calls, NEW l \in Limiters, LegCancelled(c, l)  PROVE CallTypes'
    BY <1>8, CancelledFacts DEF CallTypes, LegCancelled
  <1>9. ASSUME NEW c \in Calls, NEW l \in Limiters, Report(c, l)  PROVE CallTypes'
    <2> DEFINE r == leg[c][l].at
               m == call[c]
               n == CASE Goes(m, l, r) = "heard" -> [m EXCEPT !.heard = r]
                      [] Goes(m, l, r) = "end" ->
                           [m EXCEPT !.pc = "returned", !.result = Outcome(m, r)]
                      [] OTHER -> m
    <2>1. m \in CallRecords /\ r \in Results
      BY <1>9 DEF Report, CallTypes
    <2>2. Outcome(m, r) \in Results \cup {None}
      BY <2>1 DEF Outcome, CallRecords
    <2>3. n \in CallRecords
      <3> HIDE DEF m, r
      <3> QED  BY <2>1, <2>2 DEF CallRecords
    <2>4. call' = [call EXCEPT ![c] = n]
      BY <1>9 DEF Report
    <2>5. NoLeg \in Legs /\ [NoLeg EXCEPT !.at = "ask"] \in Legs
      BY DEF NoLeg, Legs, LegPlaces, Ages
    <2> HIDE DEF n
    <2>6. call' \in [Calls -> CallRecords]
      BY <2>3, <2>4 DEF CallTypes
    <2>7. leg' \in [Calls -> [Limiters -> Legs]]
      BY <1>9, <2>5 DEF Report, CallTypes
    <2> QED  BY <1>9, <2>6, <2>7 DEF Report, CallTypes
  <1>10. CASE UNCHANGED vars
    BY <1>10 DEF CallTypes, vars, codeVars, ghosts
  <1> QED  BY <1>1, <1>2, <1>3, <1>4, <1>5, <1>6, <1>7, <1>8, <1>9, <1>10 DEF Next, LegStep

LEMMA AllowCall ==
  ASSUME CallTypes, CallInv, NEW c \in Calls, NEW l \in Limiters,
         NEW r \in {"reserve", "Refused", "LimitExceeded"}, Allow(c, l, r),
         call' = call, leg[c][l].at \notin {"off", "nil"}
  PROVE  CallInv'
  <1>1. r \in LegPlaces
    BY DEF LegPlaces, Results, Failures
  <1>2. r \notin {"off", "nil"}
    OBVIOUS
  <1>3. AllowEffect(c, l, r)
    BY <1>1, AllowFacts
  <1>4. /\ leg'[c][l].at = IF Full(l) THEN r ELSE "nil"
        /\ \A k \in Limiters : k # l => leg'[c][k] = leg[c][k]
        /\ \A d \in Calls : d # c => leg'[d] = leg[d]
    BY <1>3 DEF AllowEffect
  <1>5. got' = [got EXCEPT ![c] = @ \cup (IF Full(l) THEN {} ELSE {l})]
    <2>1. CASE Full(l)
      <3>1. got' = got
        BY <1>3, <2>1 DEF AllowEffect, ghosts
      <3> QED  BY <2>1, <3>1 DEF CallTypes
    <2>2. CASE ~Full(l)
      <3>1. got' = [got EXCEPT ![c] = @ \cup {l}]
        BY <1>3, <2>2 DEF AllowEffect
      <3> QED  BY <2>2, <3>1
    <2> QED  BY <2>1, <2>2
  <1>6. /\ got'[c] = got[c] \cup (IF leg'[c][l].at = "nil" THEN {l} ELSE {})
        /\ \A d \in Calls : d # c => got'[d] = got[d]
    BY <1>2, <1>4, <1>5 DEF CallTypes
  <1>7. CallOK(c)'
    BY <1>2, <1>4, <1>6, LegGoesOn DEF CallInv
  <1>8. \A d \in Calls : d # c =>
           call'[d] = call[d] /\ got'[d] = got[d] /\ \A k \in Limiters : leg'[d][k] = leg[d][k]
    BY <1>4, <1>6
  <1> QED  BY <1>7, <1>8, OthersOK
LEMMA CallKept ==
  ASSUME WindowInv, CallTypes, CallInv, [Next]_vars
  PROVE  CallInv'
  <1>1. CASE Tick
    BY <1>1, TickFacts, SameCall DEF Tick, CallInv
  <1>2. ASSUME NEW l \in Limiters, Close(l)  PROVE CallInv'
    BY <1>2, SameCall DEF Close, CallInv
  <1>3. ASSUME NEW c \in Calls, NEW t \in Offers[c], Begin(c, t[1], t[2])  PROVE CallInv'
    <2>1. t[1] \in Ops /\ t[2] \in Modes
      <3>1. t \in Ops \X Modes
        OBVIOUS
      <3> QED  BY <3>1
    <2>2. CallOK(c)'
      BY <1>3, <2>1, BeginOK DEF CallInv
    <2>3. \A d \in Calls : d # c =>
             call'[d] = call[d] /\ got'[d] = got[d] /\ \A l \in Limiters : leg'[d][l] = leg[d][l]
      BY <1>3 DEF Begin, CallTypes
    <2> QED  BY <2>2, <2>3, OthersOK
  <1>4. ASSUME NEW c \in Calls, CancelContext(c)  PROVE CallInv'
    BY <1>4, SameCall DEF CancelContext, CallInv, ghosts
  <1>5. ASSUME NEW c \in Calls, End(c)  PROVE CallInv'
    <2>1. \A d \in Calls : d # c =>
             call'[d] = call[d] /\ got'[d] = got[d] /\ \A l \in Limiters : leg'[d][l] = leg[d][l]
      BY <1>5 DEF End, CallTypes
    <2> QED  BY <1>5, <2>1, EndOK, OthersOK
  <1>6. ASSUME NEW c \in Calls, NEW l \in Limiters, Ask(c, l) \/ Retry(c, l)
        PROVE  CallInv'
    <2>1. PICK r \in {"reserve", "Refused", "LimitExceeded"} : Allow(c, l, r)
      BY <1>6 DEF Ask, Retry
    <2>2. call' = call /\ leg[c][l].at \notin {"off", "nil"}
      BY <1>6 DEF Ask, Retry
    <2> QED  BY <2>1, <2>2, AllowCall
  <1>7. ASSUME NEW c \in Calls, NEW l \in Limiters, Reserve(c, l) \/ LegCancelled(c, l)
        PROVE  CallInv'
    <2>1. call' = call /\ got' = got /\ leg[c][l].at \notin {"off", "nil"}
      BY <1>7 DEF Reserve, LegCancelled, ghosts
    <2>2. /\ leg'[c][l].at \notin {"off", "nil"}
          /\ \A k \in Limiters : k # l => leg'[c][k] = leg[c][k]
          /\ \A d \in Calls : d # c => leg'[d] = leg[d]
      BY <1>7, ReserveFacts, CancelledFacts
    <2>3. got'[c] = got[c] \cup (IF leg'[c][l].at = "nil" THEN {l} ELSE {})
      BY <2>1, <2>2
    <2>4. CallOK(c)'
      BY <2>1, <2>2, <2>3, LegGoesOn DEF CallInv
    <2>5. \A d \in Calls : d # c =>
             call'[d] = call[d] /\ got'[d] = got[d] /\ \A k \in Limiters : leg'[d][k] = leg[d][k]
      BY <2>1, <2>2
    <2> QED  BY <2>4, <2>5, OthersOK
  <1>8. ASSUME NEW c \in Calls, NEW l \in Limiters, Report(c, l)  PROVE CallInv'
    <2>1. CallOK(c)'
      BY <1>8, ReportOK DEF CallInv
    <2>2. \A d \in Calls : d # c =>
             call'[d] = call[d] /\ got'[d] = got[d] /\ \A k \in Limiters : leg'[d][k] = leg[d][k]
      BY <1>8 DEF Report, CallTypes
    <2> QED  BY <2>1, <2>2, OthersOK
  <1>9. CASE UNCHANGED vars
    BY <1>9, SameCall DEF CallInv, vars, codeVars, ghosts
  <1> QED  BY <1>1, <1>2, <1>3, <1>4, <1>5, <1>6, <1>7, <1>8, <1>9 DEF Next, LegStep

-----------------------------------------------------------------------------
(* Waiting in vain *)

(* A leg that sleeps and was not overtaken finds room when it wakes; one   *)
(* that found none was overtaken, or the limiter gives no places at all.   *)
SleeperOK(c, l) ==
    /\ leg[c][l].at = "sleep" /\ overtaken[c][l] = FALSE /\ maxRequests[l] # 0
         => Room(requests[l], maxRequests[l], leg[c][l].left)
    /\ leg[c][l].at = "LimitExceeded" => overtaken[c][l] = TRUE \/ maxRequests[l] = 0

SleeperInv == \A c \in Calls, l \in Limiters : SleeperOK(c, l)

LEMMA SameSleeper ==
  ASSUME WindowInv, CallTypes, NEW c \in Calls, NEW l \in Limiters, SleeperOK(c, l),
         leg'[c][l] = leg[c][l], overtaken'[c][l] = overtaken[c][l],
         requests'[l] \in {requests[l], Kept(requests[l])}
  PROVE  SleeperOK(c, l)'
  <1>1. leg[c][l].left \in Nat
    BY DEF CallTypes, Legs, Ages
  <1>2. Proper(requests[l]) /\ maxRequests[l] \in Nat
    BY DEF WindowInv
  <1>3. ASSUME maxRequests[l] # 0, Room(requests[l], maxRequests[l], leg[c][l].left)
        PROVE  Room(requests'[l], maxRequests[l], leg'[c][l].left)
    <2>1. maxRequests[l] \in Nat \ {0}
      BY <1>2, <1>3
    <2>2. Room(Kept(requests[l]), maxRequests[l], leg[c][l].left)
      BY <1>1, <1>2, <1>3, <2>1, RoomKept
    <2>3. CASE requests'[l] = requests[l]
      BY <1>3, <2>3
    <2>4. CASE requests'[l] = Kept(requests[l])
      BY <2>2, <2>4
    <2> QED  BY <2>3, <2>4
  <1> QED  BY <1>3 DEF SleeperOK

LEMMA AwakeOK ==
  ASSUME NEW c \in Calls, NEW l \in Limiters, leg'[c][l].at \notin {"sleep", "LimitExceeded"}
  PROVE  SleeperOK(c, l)'
  BY DEF SleeperOK

LEMMA TickSleeper ==
  ASSUME WindowInv, CallTypes, NEW c \in Calls, NEW l \in Limiters, SleeperOK(c, l), Tick
  PROVE  SleeperOK(c, l)'
  <1>1. /\ leg'[c][l].at = leg[c][l].at
        /\ leg'[c][l].left = IF leg[c][l].left = 0 THEN 0 ELSE leg[c][l].left - 1
        /\ leg[c][l].left \in Nat
        /\ overtaken' = overtaken /\ requests'[l] = Older(requests[l])
        /\ requests[l] \in Seq(Ages) /\ maxRequests[l] \in Nat
    BY TickFacts DEF Tick, CallTypes, Legs, Ages, WindowInv, Proper
  <1>2. ASSUME maxRequests[l] # 0, Room(requests[l], maxRequests[l], leg[c][l].left)
        PROVE  Room(requests'[l], maxRequests[l], leg'[c][l].left)
    <2>1. maxRequests[l] \in Nat \ {0}
      BY <1>1, <1>2
    <2>2. Room(Older(requests[l]), maxRequests[l],
               IF leg[c][l].left = 0 THEN 0 ELSE leg[c][l].left - 1)
      BY <1>1, <1>2, <2>1, RoomOlder
    <2> QED  BY <1>1, <2>2
  <1> QED  BY <1>1, <1>2 DEF SleeperOK

LEMMA AllowSleepers ==
  ASSUME WindowInv, CallTypes, SleeperInv, NEW c \in Calls, NEW l \in Limiters,
         NEW r \in {"reserve", "Refused", "LimitExceeded"}, Allow(c, l, r),
         r = "LimitExceeded" => leg[c][l].at = "sleep" /\ leg[c][l].left = 0
  PROVE  SleeperInv'
  <1>1. /\ r \in LegPlaces
        /\ requests'[l] \in {Kept(requests[l]), Recorded(Kept(requests[l]))}
        /\ Full(l) => requests'[l] = Kept(requests[l])
        /\ \A k \in Limiters : k # l => requests'[k] = requests[k]
    BY DEF Allow, LegPlaces, Results, Failures, WindowInv
  <1>a. AllowEffect(c, l, r)
    BY <1>1, AllowFacts
  <1>2. /\ leg'[c][l].at = IF Full(l) THEN r ELSE "nil"
        /\ \A k \in Limiters : k # l => leg'[c][k] = leg[c][k]
        /\ \A d \in Calls : d # c => leg'[d] = leg[d]
        /\ Full(l) => UNCHANGED ghosts
        /\ ~Full(l) =>
             /\ \A d \in Calls, k \in Limiters : k # l => overtaken'[d][k] = overtaken[d][k]
             /\ \A d \in Calls : d # c =>
                   (overtaken'[d][l] = TRUE <=> overtaken[d][l] = TRUE \/ leg[d][l].at = "sleep")
    BY <1>a DEF AllowEffect
  <1>3. \A d \in Calls, k \in Limiters : SleeperOK(d, k)
    BY DEF SleeperInv
  <1>4. CASE Full(l)
    <2>1. overtaken' = overtaken
      BY <1>2, <1>4 DEF ghosts
    <2>2. ASSUME NEW d \in Calls, NEW k \in Limiters, d # c \/ k # l
          PROVE  SleeperOK(d, k)'
      <3>1. leg'[d][k] = leg[d][k] /\ requests'[k] \in {requests[k], Kept(requests[k])}
        BY <1>1, <1>2, <1>4, <2>2
      <3> QED  BY <1>3, <2>1, <3>1, SameSleeper
    <2>3. SleeperOK(c, l)'
      <3>1. CASE r # "LimitExceeded"
        BY <1>2, <1>4, <3>1, AwakeOK
      <3>2. CASE r = "LimitExceeded"
        <4> SUFFICES ASSUME overtaken[c][l] # TRUE, maxRequests[l] # 0  PROVE FALSE
          BY <1>2, <1>4, <2>1, <3>2 DEF SleeperOK
        <4>1. overtaken[c][l] = FALSE /\ maxRequests[l] \in Nat \ {0}
          <5>1. overtaken[c][l] \in BOOLEAN /\ maxRequests[l] \in Nat
            BY DEF CallTypes
          <5> QED  BY <5>1
        <4>2. Room(requests[l], maxRequests[l], 0)
          BY <1>3, <3>2, <4>1 DEF SleeperOK
        <4>3. Len(Kept(requests[l])) < maxRequests[l]
          BY <4>1, <4>2, RoomNow DEF WindowInv
        <4>4. Len(Kept(requests[l])) \in Nat
          BY AgesSeq DEF WindowInv
        <4> QED  BY <1>4, <4>1, <4>3, <4>4 DEF Full
      <3> QED  BY <3>1, <3>2
    <2> QED  BY <2>2, <2>3 DEF SleeperInv
  <1>5. CASE ~Full(l)
    <2>1. SleeperOK(c, l)'
      BY <1>2, <1>5, AwakeOK
    <2>2. ASSUME NEW d \in Calls, NEW k \in Limiters, k # l  PROVE SleeperOK(d, k)'
      <3>1. /\ leg'[d][k] = leg[d][k] /\ overtaken'[d][k] = overtaken[d][k]
            /\ requests'[k] = requests[k]
        BY <1>1, <1>2, <1>5, <2>2
      <3> QED  BY <1>3, <3>1, SameSleeper
    <2>3. ASSUME NEW d \in Calls, d # c  PROVE SleeperOK(d, l)'
      <3>1. /\ leg'[d][l] = leg[d][l]
            /\ overtaken'[d][l] = TRUE <=> overtaken[d][l] = TRUE \/ leg[d][l].at = "sleep"
        BY <1>2, <1>5, <2>3
      <3>2. SleeperOK(d, l)
        BY <1>3
      <3> QED  BY <3>1, <3>2 DEF SleeperOK
    <2> QED  BY <2>1, <2>2, <2>3 DEF SleeperInv
  <1> QED  BY <1>4, <1>5

LEMMA NarrowSeq ==
  ASSUME NEW S, NEW T, NEW q \in Seq(S), \A i \in 1..Len(q) : q[i] \in T
  PROVE  q \in Seq(T)
  <1>1. Len(q) \in Nat /\ q \in [1..Len(q) -> S]
    BY LenProperties
  <1>2. q \in [1..Len(q) -> T]
    BY <1>1
  <1> QED  BY <1>1, <1>2, SeqDef

LEMMA SleepersKept ==
  ASSUME WindowInv, CallTypes, SleeperInv, [Next]_vars
  PROVE  SleeperInv'
  <1>0. \A d \in Calls, k \in Limiters : SleeperOK(d, k)
    BY DEF SleeperInv
  <1>1. CASE Tick
    BY <1>0, <1>1, TickSleeper DEF SleeperInv
  <1>2. ASSUME NEW l \in Limiters, Close(l)  PROVE SleeperInv'
    <2> SUFFICES ASSUME NEW d \in Calls, NEW k \in Limiters  PROVE SleeperOK(d, k)'
      BY DEF SleeperInv
    <2>1. leg' = leg /\ overtaken' = overtaken
      BY <1>2 DEF Close
    <2>2. CASE k # l
      BY <1>0, <1>2, <2>1, <2>2, SameSleeper DEF Close, WindowInv
    <2>3. CASE k = l
      <3>1. requests'[k] = <<>>
        BY <1>2, <2>3 DEF Close, WindowInv
      <3>2. maxRequests[k] # 0 => ~(Len(<<>>) >= maxRequests[k])
        <4>1. maxRequests[k] \in Nat /\ Len(<<>>) = 0
          OBVIOUS
        <4> QED  BY <4>1
      <3>3. maxRequests[k] # 0 => Room(requests'[k], maxRequests[k], leg'[d][k].left)
        BY <3>1, <3>2 DEF Room
      <3>4. SleeperOK(d, k)
        BY <1>0
      <3> QED  BY <2>1, <3>3, <3>4 DEF SleeperOK
    <2> QED  BY <2>2, <2>3
  <1>3. ASSUME NEW c \in Calls, NEW l \in Limiters, Ask(c, l) \/ Retry(c, l)
        PROVE  SleeperInv'
    <2>1. PICK r \in {"reserve", "Refused", "LimitExceeded"} :
             /\ Allow(c, l, r)
             /\ r = "LimitExceeded" => leg[c][l].at = "sleep" /\ leg[c][l].left = 0
      BY <1>3 DEF Ask, Retry
    <2> QED  BY <2>1, AllowSleepers
  <1>4. ASSUME NEW c \in Calls, NEW l \in Limiters, Reserve(c, l)  PROVE SleeperInv'
    <2>1. /\ \/ leg'[c][l].at = "WaitTimeout"
             \/ leg'[c][l].at = "sleep" /\ leg'[c][l].left = WaitTime(l)
          /\ \A k \in Limiters : k # l => leg'[c][k] = leg[c][k]
          /\ \A d \in Calls : d # c => leg'[d] = leg[d]
      BY <1>4, ReserveFacts
    <2>2. /\ overtaken' = overtaken /\ requests'[l] = Kept(requests[l])
          /\ \A k \in Limiters : k # l => requests'[k] = requests[k]
      BY <1>4 DEF Reserve, ghosts, WindowInv
    <2>3. ASSUME NEW d \in Calls, NEW k \in Limiters, d # c \/ k # l  PROVE SleeperOK(d, k)'
      <3>1. /\ leg'[d][k] = leg[d][k] /\ overtaken'[d][k] = overtaken[d][k]
            /\ requests'[k] \in {requests[k], Kept(requests[k])}
        BY <2>1, <2>2, <2>3
      <3> QED  BY <1>0, <3>1, SameSleeper
    <2>4. SleeperOK(c, l)'
      BY <2>1, <2>2, WaitFacts DEF SleeperOK
    <2> QED  BY <2>3, <2>4 DEF SleeperInv
  <1>5. ASSUME NEW c \in Calls, NEW l \in Limiters, LegCancelled(c, l)  PROVE SleeperInv'
    <2>1. /\ leg'[c][l].at = "Cancelled"
          /\ \A k \in Limiters : k # l => leg'[c][k] = leg[c][k]
          /\ \A d \in Calls : d # c => leg'[d] = leg[d]
      BY <1>5, CancelledFacts
    <2>2. requests' = requests /\ overtaken' = [overtaken EXCEPT ![c][l] = FALSE]
      BY <1>5 DEF LegCancelled
    <2>3. ASSUME NEW d \in Calls, NEW k \in Limiters, d # c \/ k # l  PROVE SleeperOK(d, k)'
      <3>1. leg'[d][k] = leg[d][k] /\ overtaken'[d][k] = overtaken[d][k]
        BY <2>1, <2>2, <2>3 DEF CallTypes
      <3> QED  BY <1>0, <2>2, <3>1, SameSleeper
    <2>4. SleeperOK(c, l)'
      BY <2>1, AwakeOK
    <2> QED  BY <2>3, <2>4 DEF SleeperInv
  <1>6. ASSUME NEW c \in Calls, NEW l \in Limiters, Report(c, l)  PROVE SleeperInv'
    <2> DEFINE g == Goes(call[c], l, leg[c][l].at)
    <2>1. /\ leg' = [leg EXCEPT ![c] = [k \in Limiters |->
                        IF k = l THEN NoLeg ELSE IF g = k THEN [NoLeg EXCEPT !.at = "ask"]
                        ELSE leg[c][k]]]
          /\ requests' = requests /\ overtaken' = [overtaken EXCEPT ![c][l] = FALSE]
      BY <1>6 DEF Report
    <2>2. NoLeg.at = "off" /\ [NoLeg EXCEPT !.at = "ask"].at = "ask"
      BY DEF NoLeg
    <2> HIDE DEF g
    <2>3. /\ \A k \in Limiters : leg'[c][k] \in {NoLeg, [NoLeg EXCEPT !.at = "ask"], leg[c][k]}
          /\ leg'[c][l] = NoLeg
          /\ \A d \in Calls : d # c => leg'[d] = leg[d]
      BY <2>1 DEF CallTypes
    <2> SUFFICES ASSUME NEW d \in Calls, NEW k \in Limiters  PROVE SleeperOK(d, k)'
      BY DEF SleeperInv
    <2>4. CASE leg'[d][k].at \in {"off", "ask"}
      BY <2>4, AwakeOK
    <2>5. CASE leg'[d][k].at \notin {"off", "ask"}
      <3>1. leg'[d][k] = leg[d][k] /\ (d # c \/ k # l)
        BY <2>2, <2>3, <2>5
      <3>2. overtaken'[d][k] = overtaken[d][k]
        BY <2>1, <3>1 DEF CallTypes
      <3> QED  BY <1>0, <2>1, <3>1, <3>2, SameSleeper
    <2> QED  BY <2>4, <2>5
  <1>7. ASSUME NEW c \in Calls, NEW t \in Offers[c], Begin(c, t[1], t[2])  PROVE SleeperInv'
    <2> SUFFICES ASSUME NEW d \in Calls, NEW k \in Limiters  PROVE SleeperOK(d, k)'
      BY DEF SleeperInv
    <2>1. NoLeg.at = "off" /\ [NoLeg EXCEPT !.at = "ask"].at = "ask"
      BY DEF NoLeg
    <2>2. requests' = requests /\ overtaken' = overtaken
      BY <1>7 DEF Begin
    <2>3. CASE d = c
      <3>1. leg'[d][k] \in {NoLeg, [NoLeg EXCEPT !.at = "ask"]}
        BY <1>7, <2>3 DEF Begin, CallTypes
      <3> QED  BY <2>1, <3>1, AwakeOK
    <2>4. CASE d # c
      <3>1. leg'[d] = leg[d]
        BY <1>7, <2>4 DEF Begin, CallTypes
      <3> QED  BY <1>0, <2>2, <3>1, SameSleeper
    <2> QED  BY <2>3, <2>4
  <1>8. CASE UNCHANGED <<requests, leg, overtaken>>
    BY <1>0, <1>8, SameSleeper DEF SleeperInv
  <1>9. ASSUME NEW c \in Calls, CancelContext(c) \/ End(c)
        PROVE  UNCHANGED <<requests, leg, overtaken>>
    BY <1>9 DEF CancelContext, End, ghosts
  <1>10. UNCHANGED vars => UNCHANGED <<requests, leg, overtaken>>
    BY DEF vars, codeVars, ghosts
  <1> QED  BY <1>1, <1>2, <1>3, <1>4, <1>5, <1>6, <1>7, <1>8, <1>9, <1>10 DEF Next, LegStep

-----------------------------------------------------------------------------

LimitInv == WindowInv /\ CallTypes /\ CallInv /\ SleeperInv

LEMMA LimitInit == Init => LimitInv
  <1> SUFFICES ASSUME Init  PROVE LimitInv
    OBVIOUS
  <1>1. NoCall \in CallRecords /\ NoCall.pc = "idle" /\ NoLeg \in Legs /\ NoLeg.at = "off"
    BY DEF NoCall, CallRecords, NoLeg, Legs, LegPlaces, Ages
  <1>2. CallTypes
    BY <1>1 DEF Init, CallTypes
  <1>3. CallInv
    BY <1>1 DEF Init, CallInv, CallOK, Active
  <1>4. SleeperInv
    BY <1>1 DEF Init, SleeperInv, SleeperOK
  <1> QED  BY <1>2, <1>3, <1>4, WindowInit DEF LimitInv

(* The limiters and the calls keep their parts of the invariant, for any   *)
(* calls, offers, window and limits.                                       *)
THEOREM LimitsProved == Spec => []LimitInv
  <1>1. LimitInv /\ [Next]_vars => LimitInv'
    BY WindowKept, CallTypesKept, CallKept, SleepersKept DEF LimitInv
  <1> QED  BY <1>1, LimitInit, PTL DEF Spec

(* In any stretch of time as long as the window a limiter gives at most    *)
(* maxRequests places, whoever asks and however the attempts interleave    *)
(* (src/pool/connlimit/limiter.go:147, cleanupOldRequests and Allow).      *)
THEOREM WindowProved == Spec => []WindowBound
  <1>1. LimitInv => WindowBound
    <2> SUFFICES ASSUME LimitInv  PROVE WindowBound
      OBVIOUS
    <2>1. ASSUME NEW l \in Limiters
          PROVE  /\ requests[l] \in Seq(Ages)
                 /\ \A i, j \in DOMAIN requests[l] : i < j => requests[l][i] >= requests[l][j]
                 /\ given[l] \in Seq(0..windowSize - 1)
                 /\ Len(given[l]) <= maxRequests[l]
      <3>1. Proper(requests[l]) /\ given[l] = Kept(requests[l]) /\ Len(given[l]) <= maxRequests[l]
        BY DEF LimitInv, WindowInv
      <3>2. requests[l] \in Seq(Ages) /\ Sorted(requests[l])
        BY <3>1 DEF Proper
      <3>3. DOMAIN requests[l] = 1..Len(requests[l])
        BY <3>2
      <3>4. given[l] \in Seq(Ages) /\ Fresh(given[l])
        BY <3>1, KeptFacts DEF Proper
      <3>5. /\ Len(given[l]) \in Nat
            /\ \A i \in 1..Len(given[l]) : given[l][i] \in Nat /\ given[l][i] < windowSize
        BY <3>4, AgesSeq DEF Fresh
      <3>6. \A i \in 1..Len(given[l]) : given[l][i] \in 0..windowSize - 1
        BY <3>5
      <3>8. given[l] \in Seq(0..windowSize - 1)
        BY <3>4, <3>6, NarrowSeq
      <3> QED  BY <3>1, <3>2, <3>3, <3>8 DEF Sorted
    <2>2. TypeOK
      BY <2>1 DEF TypeOK, LimitInv, CallTypes, CallRecords, Legs, LegPlaces
    <2> QED  BY <2>1, <2>2 DEF WindowBound
  <1> QED  BY <1>1, LimitsProved, PTL

(* What a call reports and what it has taken belong together, in every     *)
(* mode (src/pool/connlimit/limiter.go:285, AdaptiveLimiter's Allow and    *)
(* Wait).                                                                  *)
THEOREM OutcomeProved == Spec => []OutcomeMatches
  <1>1. LimitInv => OutcomeMatches
    <2> SUFFICES ASSUME LimitInv, NEW c \in Calls, call[c].pc = "returned"
                 PROVE  LET ok == call[c].result = "nil"
                        IN CASE call[c].mode = "PrimaryOnly" ->
                                  got[c] = (IF ok THEN {"primary"} ELSE {})
                             [] call[c].mode = "AllRequired" ->
                                  IF ok THEN got[c] = Limiters ELSE got[c] \subseteq {"primary"}
                             [] call[c].mode = "AnyAllowed" -> ok = (got[c] # {})
      BY DEF OutcomeMatches
    <2>1. Returned(c)
      BY DEF LimitInv, CallInv, CallOK
    <2> QED  BY <2>1 DEF Returned, Modes
  <1> QED  BY <1>1, LimitsProved, PTL

(* A Wait that slept as long as it was told and is refused all the same    *)
(* was overtaken by another call (src/pool/connlimit/limiter.go:183, Wait  *)
(* and Reserve).                                                           *)
THEOREM RefusedProved == Spec => []RefusedWhenOvertaken
  <1>1. LimitInv => RefusedWhenOvertaken
    BY DEF LimitInv, SleeperInv, SleeperOK, RefusedWhenOvertaken
  <1> QED  BY <1>1, LimitsProved, PTL

=============================================================================
