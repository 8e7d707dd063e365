------------------------- MODULE ConcurrentSetProofs -------------------------
(***************************************************************************)
(* What the locks of ConcurrentSet give, for any goroutines, sets, items   *)
(* and contents: a binary operation on two sets answers for both as they   *)
(* are at one moment, and callers that take two sets in one order never    *)
(* wait for each other in a circle.                                        *)
(*                                                                         *)
(* And what an owner's SortedSet makes of a ConcurrentSet, which it locks  *)
(* anew at every question: its map and its slice agree whatever has led    *)
(* there, and the result is right for each item at some moment of the      *)
(* call.                                                                   *)
(***************************************************************************)
EXTENDS ConcurrentSet, FiniteSetTheorems, SequenceTheorems, FunctionTheorems,
        WellFoundedInduction, TLAPS

Held(c) == holding[c] \cup blocked[c]

(* Types of what the locks are about. *)
KindInv ==
    /\ sets \in [Sets -> SUBSET Items]
    /\ writer \in [Sets -> Writers \cup {None}]
    /\ holding \in [Sets -> SUBSET Tokens] /\ blocked \in [Sets -> SUBSET Tokens]
    /\ pc \in [Callers -> {"idle", "write", "first", "second", "read", "ask", "answer"}]
    /\ left \in [Readers -> SUBSET Items]
    /\ call \in [Readers -> [c : Sets \cup {None}, other : Sets \cup {None}]]
    /\ \A p \in Readers : pc[p] \in {"idle", "first", "second", "read"}
    /\ \A p \in Writers : pc[p] \in {"idle", "write"}
    /\ pc[Owner] \in {"idle", "ask", "answer"}
    /\ \A p \in Readers : pc[p] # "idle" => <<call[p].c, call[p].other>> \in Pairs
    /\ "c" \in DOMAIN mix /\ (pc[Owner] # "idle" => mix.c \in Sets)

(* A goroutine that writes, or waits for it, has one lock's writer's       *)
(* place; only such a one keeps others out.                                *)
WriterInv ==
    /\ \A c \in Sets : writer[c] # None => pc[writer[c]] = "write"
    /\ \A p \in Writers : pc[p] = "write" => \E c \in Sets : writer[c] = p
    /\ \A b, c \in Sets : writer[b] = writer[c] /\ writer[b] # None => b = c
    /\ \A c \in Sets : blocked[c] # {} => writer[c] # None

(* Every read lock, had or asked for, is one that its goroutine's call     *)
(* needs; and a call beyond a lock has it.                                 *)
ReaderInv ==
    /\ \A c \in Sets : holding[c] \cap blocked[c] = {}
    /\ \A c \in Sets, p \in Readers :
          /\ <<p, 1>> \in Held(c) => pc[p] \in {"first", "second", "read"} /\ call[p].c = c
          /\ <<p, 2>> \in Held(c) => pc[p] \in {"second", "read"} /\ call[p].other = c
    /\ \A p \in Readers :
          /\ pc[p] = "first" => <<p, 1>> \in Held(call[p].c)
          /\ pc[p] \in {"second", "read"} => <<p, 1>> \in holding[call[p].c]
          /\ pc[p] = "second" => <<p, 2>> \in Held(call[p].other)
          /\ pc[p] = "read" => <<p, 2>> \in holding[call[p].other]

OwnerInv ==
    /\ \A c \in Sets : <<Owner, 1>> \in Held(c) => pc[Owner] = "answer" /\ mix.c = c
    /\ pc[Owner] = "answer" => <<Owner, 1>> \in Held(mix.c)

(* What a binary operation has read of the first set stays so. *)
LeftInv == \A p \in Readers : pc[p] = "read" => left[p] = sets[call[p].c]

LockInv == KindInv /\ WriterInv /\ ReaderInv /\ OwnerInv /\ LeftInv

LEMMA InitOK == Init => LockInv
  <1> SUFFICES ASSUME Init  PROVE LockInv
    OBVIOUS
  <1> USE ConcurrentSetAssumption DEF ConcurrentSetAssumption, Init
  <1>1. KindInv
    BY DEF KindInv, Callers, NoCall, NoMix
  <1>2. WriterInv
    BY DEF WriterInv, Callers
  <1>3. ReaderInv /\ OwnerInv
    BY DEF ReaderInv, OwnerInv, Held, Callers
  <1>4. LeftInv
    BY DEF LeftInv, Callers
  <1> QED  BY <1>1, <1>2, <1>3, <1>4 DEF LockInv

(* The questions to a ConcurrentSet never change which one is asked. *)
LEMMA NotedKeeps ==
  ASSUME NEW m, NEW S, "c" \in DOMAIN m
  PROVE  "c" \in DOMAIN Noted(m, S) /\ Noted(m, S).c = m.c
  BY DEF Noted

LEMMA AnswerKeeps ==
  ASSUME "c" \in DOMAIN mix, Answer
  PROVE  "c" \in DOMAIN mix' /\ mix'.c = mix.c
  <1>1. \A m \in AllOf(sets[mix.c]) : "c" \in DOMAIN m /\ m.c = mix.c
    BY DEF AllOf
  <1>2. \A b : "c" \in DOMAIN Verdict(b) /\ Verdict(b).c = mix.c
    BY DEF Verdict
  <1>3. \A q, S : "c" \in DOMAIN Contained(q, S) /\ Contained(q, S).c = mix.c
    <2> TAKE q, S
    <2> DEFINE A == [mix EXCEPT !.todo = Tail(@), !.acc = IF q \in S THEN @ ELSE SortedAdd(@, q)]
               B == [mix EXCEPT !.todo = Tail(@), !.acc = IF q \in S THEN SortedAdd(@, q) ELSE @]
    <2>1. "c" \in DOMAIN A /\ A.c = mix.c /\ "c" \in DOMAIN B /\ B.c = mix.c
      OBVIOUS
    <2>2. Contained(q, S) \in {Verdict(q \in S), A, B}
      BY DEF Contained
    <2> HIDE DEF A, B
    <2> QED  BY <2>1, <2>2, <1>2
  <1> DEFINE q == Head(mix.todo)
             S == sets[mix.c]
  <1>4. \/ mix' \in AllOf(S)
        \/ \E b : mix' = Verdict(b)
        \/ mix' = Contained(q, S)
    <2> DEFINE b1 == ~(Cardinality(own.items) > Cardinality(S))
               b2 == HashIsSubset(S, own.items)
    <2>1. mix' \in CASE q = "ForEach"  -> AllOf(S)
                     [] q = "Size"     -> {Verdict(b1)}
                     [] q = "IsSubset" -> {Verdict(b2)}
                     [] OTHER          -> {Contained(q, S)}
      BY DEF Answer
    <2> HIDE DEF b1, b2, q, S
    <2> QED  BY <2>1, Zenon
  <1> HIDE DEF q, S
  <1>5. CASE mix' \in AllOf(S)
    BY <1>1, <1>5 DEF S
  <1> QED  BY <1>2, <1>3, <1>4, <1>5

-----------------------------------------------------------------------------
(* What a call of the read lock does, whether it is given or has to wait. *)
LEMMA RLockMeans ==
  ASSUME KindInv, NEW t \in Tokens, NEW d \in Sets, RLock(t, d)
  PROVE  /\ holding' \in [Sets -> SUBSET Tokens] /\ blocked' \in [Sets -> SUBSET Tokens]
         /\ writer' = writer
         /\ \A e \in Sets : e # d => holding'[e] = holding[e] /\ blocked'[e] = blocked[e]
         /\ \/ /\ writer[d] = None
               /\ holding'[d] = holding[d] \cup {t} /\ blocked'[d] = blocked[d]
            \/ /\ writer[d] # None
               /\ holding'[d] = holding[d] /\ blocked'[d] = blocked[d] \cup {t}
  <1> USE DEF KindInv, RLock
  <1>1. CASE writer[d] = None
    BY <1>1
  <1>2. CASE writer[d] # None
    BY <1>2
  <1> QED  BY <1>1, <1>2

LEMMA UnlockMeans ==
  ASSUME KindInv, NEW d \in Sets, Unlock(d)
  PROVE  /\ holding' \in [Sets -> SUBSET Tokens] /\ blocked' \in [Sets -> SUBSET Tokens]
         /\ \A e \in Sets : e # d => holding'[e] = holding[e] /\ blocked'[e] = blocked[e]
                                    /\ writer'[e] = writer[e]
         /\ holding'[d] = blocked[d] /\ blocked'[d] = {} /\ writer'[d] = None
  BY DEF KindInv, Unlock

(* A call that is under way has two sets. *)
LEMMA CallsTyped ==
  ASSUME KindInv
  PROVE  \A q \in Readers : pc[q] # "idle" => call[q].c \in Sets /\ call[q].other \in Sets
  <1> TAKE q \in Readers
  <1> HAVE pc[q] # "idle"
  <1>1. <<call[q].c, call[q].other>> \in Sets \X Sets
    BY ConcurrentSetAssumption DEF KindInv, ConcurrentSetAssumption
  <1> QED  BY <1>1

LEMMA TokensApart ==
  ASSUME NEW p, NEW q, NEW i, NEW j, p # q \/ i # j
  PROVE  <<p, i>> # <<q, j>>
  OBVIOUS

(* Writers *)
LEMMA WriteCallKeeps ==
  ASSUME LockInv, NEW p \in Writers, NEW c \in Sets, WriteCall(p, c)
  PROVE  LockInv'
  <1> USE ConcurrentSetAssumption DEF ConcurrentSetAssumption, Callers
  <1>1. KindInv'
    BY DEF LockInv, KindInv, WriteCall, Lock, goto, readVars, ownVars
  <1>2. WriterInv'
    BY DEF LockInv, KindInv, WriterInv, WriteCall, Lock, goto
  <1>3. ReaderInv' /\ OwnerInv'
    BY DEF LockInv, KindInv, ReaderInv, OwnerInv, Held, WriteCall, Lock, goto, readVars, ownVars
  <1>4. LeftInv'
    BY DEF LockInv, KindInv, LeftInv, WriteCall, Lock, goto, readVars, ownVars
  <1> QED  BY <1>1, <1>2, <1>3, <1>4 DEF LockInv

LEMMA WriteKeeps ==
  ASSUME LockInv, NEW p \in Writers, NEW c \in Sets, Write(p, c)
  PROVE  LockInv'
  <1> USE ConcurrentSetAssumption DEF ConcurrentSetAssumption, Callers
  <1>1. sets' \in [Sets -> SUBSET Items] /\ \A b \in Sets : b # c => sets'[b] = sets[b]
    BY DEF LockInv, KindInv, Write, AddAll, RemoveAll, RetainAll
  <1>2. "c" \in DOMAIN mix' /\ mix'.c = mix.c
    BY NotedKeeps DEF LockInv, KindInv, Write
  <1>3. KindInv'
    BY <1>1, <1>2 DEF LockInv, KindInv, Write, Unlock, goto, readVars
  <1>4. WriterInv'
    BY DEF LockInv, KindInv, WriterInv, Write, Unlock, goto
  <1>5. ReaderInv'
    <2>1. /\ KindInv /\ ReaderInv /\ holding[c] = {} /\ call' = call
          /\ Unlock(c) /\ goto(p, "idle")
      BY DEF LockInv, Write, readVars
    <2>2. \A q \in Readers : pc'[q] = pc[q]
      BY <2>1 DEF KindInv, goto
    <2>3. \A q \in Readers : pc[q] # "idle" => call[q].c \in Sets /\ call[q].other \in Sets
      BY <2>1, CallsTyped
    <2>4. \A e \in Sets : Held(e)' = Held(e)
      BY <2>1, UnlockMeans DEF Held
    <2>5. \A e \in Sets : holding[e] \subseteq holding'[e] /\ holding'[e] \cap blocked'[e] = {}
      BY <2>1, UnlockMeans DEF ReaderInv
    <2> QED  BY <2>1, <2>2, <2>3, <2>4, <2>5 DEF ReaderInv
  <1>6. OwnerInv'
    BY <1>2 DEF LockInv, KindInv, OwnerInv, Held, Write, Unlock, goto
  <1>7. LeftInv'
    <2>1. KindInv /\ ReaderInv /\ LeftInv /\ holding[c] = {} /\ UNCHANGED <<call, left>>
      BY DEF LockInv, Write, readVars
    <2>2. \A q \in Readers : pc'[q] = pc[q]
      BY DEF LockInv, KindInv, Write, goto
    <2> SUFFICES ASSUME NEW q \in Readers, pc'[q] = "read"
                 PROVE  left'[q] = sets'[call'[q].c]
      BY DEF LeftInv
    <2>3. pc[q] = "read" /\ call[q].c \in Sets /\ call[q].c # c
      BY <2>1, <2>2, CallsTyped DEF ReaderInv
    <2> QED  BY <1>1, <2>1, <2>3 DEF LeftInv
  <1> QED  BY <1>3, <1>4, <1>5, <1>6, <1>7 DEF LockInv

(* Readers *)
LEMMA BinaryCallKeeps ==
  ASSUME LockInv, NEW p \in Readers, NEW t \in Pairs, BinaryCall(p, t[1], t[2])
  PROVE  LockInv'
  <1> USE ConcurrentSetAssumption DEF ConcurrentSetAssumption, Callers
  <1>0. PICK c \in Sets, other \in Sets : t = <<c, other>> /\ t[1] = c /\ t[2] = other
    OBVIOUS
  <1>a. BinaryCall(p, c, other) /\ <<c, other>> \in Pairs /\ <<p, 1>> \in Tokens
    BY <1>0 DEF Tokens
  <1>b. /\ KindInv /\ WriterInv /\ ReaderInv /\ OwnerInv /\ LeftInv /\ RLock(<<p, 1>>, c)
        /\ pc[p] = "idle" /\ UNCHANGED <<sets, left, mix>>
    BY <1>a DEF LockInv, BinaryCall, ownVars
  <1>c. /\ pc' \in [Callers -> {"idle", "write", "first", "second", "read", "ask", "answer"}]
        /\ pc'[p] = "first" /\ \A q \in Callers : q # p => pc'[q] = pc[q]
    BY <1>a, <1>b DEF KindInv, BinaryCall, goto
  <1>d. /\ call' \in [Readers -> [c : Sets \cup {None}, other : Sets \cup {None}]]
        /\ call'[p].c = c /\ call'[p].other = other
        /\ \A q \in Readers : q # p => call'[q] = call[q]
    BY <1>a, <1>b DEF KindInv, BinaryCall
  <1>1. KindInv'
    BY <1>a, <1>b, <1>c, <1>d, RLockMeans DEF KindInv
  <1>2. WriterInv'
    <2>1. /\ writer' = writer
          /\ \A e \in Sets : blocked'[e] # {} => blocked[e] # {} \/ writer[e] # None
      BY <1>a, <1>b, RLockMeans
    <2>2. \A q \in Writers : pc'[q] = pc[q]
      BY <1>c
    <2>3. writer \in [Sets -> Writers \cup {None}]
      BY <1>b DEF KindInv
    <2> QED  BY <1>b, <2>1, <2>2, <2>3 DEF WriterInv
  <1>3. ReaderInv'
    <2>1. \A e \in Sets : Held(e)' = Held(e) \cup (IF e = c THEN {<<p, 1>>} ELSE {})
      BY <1>a, <1>b, RLockMeans DEF Held
    <2>2. \A e \in Sets : <<p, 1>> \notin Held(e) /\ <<p, 2>> \notin Held(e)
      BY <1>b DEF ReaderInv
    <2>3. \A e \in Sets : holding[e] \subseteq holding'[e] /\ holding'[e] \cap blocked'[e] = {}
      BY <1>a, <1>b, <2>2, RLockMeans DEF ReaderInv, Held
    <2>4. \A q \in Readers : pc[q] # "idle" => call[q].c \in Sets /\ call[q].other \in Sets
      BY <1>b, CallsTyped
    <2>5. \A q \in Readers : q # p => <<q, 1>> # <<p, 1>> /\ <<q, 2>> # <<p, 1>>
      BY TokensApart
    <2>6. <<p, 2>> # <<p, 1>>
      OBVIOUS
    <2>7. \A e \in Sets, q \in Readers :
             /\ q # p => (<<q, 1>> \in holding'[e] \cup blocked'[e] <=> <<q, 1>> \in Held(e))
             /\ <<q, 2>> \in holding'[e] \cup blocked'[e] <=> <<q, 2>> \in Held(e)
             /\ <<p, 1>> \in holding'[e] \cup blocked'[e] <=> e = c
      BY <2>1, <2>2, <2>5, <2>6 DEF Held
    <2>8. \A e \in Sets, q \in Readers :
             /\ <<q, 1>> \in holding'[e] \cup blocked'[e]
                  => pc'[q] \in {"first", "second", "read"} /\ call'[q].c = e
             /\ <<q, 2>> \in holding'[e] \cup blocked'[e]
                  => pc'[q] \in {"second", "read"} /\ call'[q].other = e
      <3> TAKE e \in Sets, q \in Readers
      <3>1. CASE q = p
        BY <1>c, <1>d, <2>2, <2>7, <3>1
      <3>2. CASE q # p
        BY <1>b, <1>c, <1>d, <2>7, <3>2 DEF ReaderInv
      <3> QED  BY <3>1, <3>2
    <2>9. ASSUME NEW q \in Readers
          PROVE  /\ pc'[q] = "first" =>
                      <<q, 1>> \in holding'[call'[q].c] \cup blocked'[call'[q].c]
                 /\ pc'[q] \in {"second", "read"} => <<q, 1>> \in holding'[call'[q].c]
                 /\ pc'[q] = "second" =>
                      <<q, 2>> \in holding'[call'[q].other] \cup blocked'[call'[q].other]
                 /\ pc'[q] = "read" => <<q, 2>> \in holding'[call'[q].other]
      <3>1. CASE q = p
        BY <1>c, <1>d, <2>7, <3>1
      <3>2. CASE q # p
        <4>1. /\ pc'[q] = pc[q] /\ call'[q] = call[q]
              /\ pc[q] # "idle" => call[q].c \in Sets /\ call[q].other \in Sets
          BY <1>c, <1>d, <2>4, <3>2
        <4> QED  BY <1>b, <2>3, <2>7, <3>2, <4>1 DEF ReaderInv
      <3> QED  BY <3>1, <3>2
    <2> QED  BY <2>3, <2>8, <2>9 DEF ReaderInv, Held
  <1>4. OwnerInv'
    <2>1. \A e \in Sets : Held(e)' = Held(e) \cup (IF e = c THEN {<<p, 1>>} ELSE {})
      BY <1>a, <1>b, RLockMeans DEF Held
    <2>2. <<p, 1>> # <<Owner, 1>> /\ p # Owner
      BY TokensApart
    <2>3. \A e \in Sets : (<<Owner, 1>> \in Held(e))' = (<<Owner, 1>> \in Held(e))
      BY <2>1, <2>2
    <2>4. pc'[Owner] = pc[Owner] /\ pc[Owner] \in {"idle", "ask", "answer"}
      BY <1>b, <1>c, <2>2 DEF KindInv
    <2>5. pc[Owner] = "answer" => mix.c \in Sets
      BY <1>b DEF KindInv
    <2> QED  BY <1>b, <2>3, <2>4, <2>5 DEF OwnerInv
  <1>5. LeftInv'
    BY <1>b, <1>c, <1>d DEF KindInv, LeftInv
  <1> QED  BY <1>1, <1>2, <1>3, <1>4, <1>5 DEF LockInv

LEMMA SecondLockKeeps ==
  ASSUME LockInv, NEW p \in Readers, SecondLock(p)
  PROVE  LockInv'
  <1> USE DEF Callers
  <1> DEFINE other == call[p].other
  <1>a. /\ KindInv /\ WriterInv /\ ReaderInv /\ OwnerInv /\ LeftInv /\ RLock(<<p, 2>>, other)
        /\ pc[p] = "first" /\ <<p, 1>> \in holding[call[p].c] /\ UNCHANGED <<sets, call, left, mix>>
    BY DEF LockInv, SecondLock, ownVars, readVars
  <1>b. call[p].c \in Sets /\ other \in Sets /\ <<p, 2>> \in Tokens
    BY <1>a, ConcurrentSetAssumption DEF ConcurrentSetAssumption, KindInv, Tokens
  <1>c. /\ pc' \in [Callers -> {"idle", "write", "first", "second", "read", "ask", "answer"}]
        /\ pc'[p] = "second" /\ \A q \in Callers : q # p => pc'[q] = pc[q]
    BY <1>a DEF KindInv, SecondLock, goto
  <1>d. other = call[p].other
    OBVIOUS
  <1> HIDE DEF other
  <1>1. KindInv'
    BY <1>a, <1>b, <1>c, RLockMeans DEF KindInv
  <1>2. WriterInv'
    <2>1. /\ writer' = writer
          /\ \A e \in Sets : blocked'[e] # {} => blocked[e] # {} \/ writer[e] # None
      BY <1>a, <1>b, RLockMeans
    <2>2. \A q \in Writers : pc'[q] = pc[q]
      BY <1>c, ConcurrentSetAssumption DEF ConcurrentSetAssumption
    <2>3. writer \in [Sets -> Writers \cup {None}]
      BY <1>a DEF KindInv
    <2> QED  BY <1>a, <2>1, <2>2, <2>3 DEF WriterInv
  <1>e. \A e \in Sets : Held(e)' = Held(e) \cup (IF e = other THEN {<<p, 2>>} ELSE {})
    BY <1>a, <1>b, RLockMeans DEF Held
  <1>3. ReaderInv'
    <2>2. \A e \in Sets : <<p, 2>> \notin Held(e)
      BY <1>a DEF ReaderInv
    <2>3. \A e \in Sets : holding[e] \subseteq holding'[e] /\ holding'[e] \cap blocked'[e] = {}
      BY <1>a, <1>b, <2>2, RLockMeans DEF ReaderInv, Held
    <2>4. \A q \in Readers : pc[q] # "idle" => call[q].c \in Sets /\ call[q].other \in Sets
      BY <1>a, CallsTyped
    <2> QED  BY <1>a, <1>b, <1>c, <1>d, <1>e, <2>2, <2>3, <2>4 DEF ReaderInv
  <1>4. OwnerInv'
    <2>2. <<p, 2>> # <<Owner, 1>> /\ p # Owner
      BY TokensApart, ConcurrentSetAssumption DEF ConcurrentSetAssumption
    <2>3. \A e \in Sets : (<<Owner, 1>> \in Held(e))' = (<<Owner, 1>> \in Held(e))
      BY <1>e, <2>2
    <2>4. pc'[Owner] = pc[Owner] /\ pc[Owner] \in {"idle", "ask", "answer"}
      BY <1>a, <1>c, <2>2 DEF KindInv
    <2>5. pc[Owner] = "answer" => mix.c \in Sets
      BY <1>a DEF KindInv
    <2> QED  BY <1>a, <2>3, <2>4, <2>5 DEF OwnerInv
  <1>5. LeftInv'
    BY <1>a, <1>c DEF KindInv, LeftInv
  <1> QED  BY <1>1, <1>2, <1>3, <1>4, <1>5 DEF LockInv

LEMMA ReadFirstKeeps ==
  ASSUME LockInv, NEW p \in Readers, ReadFirst(p)
  PROVE  LockInv'
  <1> USE ConcurrentSetAssumption DEF ConcurrentSetAssumption, Callers
  <1>0. call[p].c \in Sets /\ call[p].other \in Sets
    BY DEF LockInv, KindInv, ReadFirst
  <1>1. KindInv'
    BY <1>0 DEF LockInv, KindInv, ReadFirst, goto, lockVars, ownVars
  <1>2. WriterInv'
    BY DEF LockInv, KindInv, WriterInv, ReadFirst, goto, lockVars
  <1>3. ReaderInv' /\ OwnerInv'
    BY <1>0 DEF LockInv, KindInv, ReaderInv, OwnerInv, Held, ReadFirst, goto, lockVars, ownVars
  <1>4. LeftInv'
    BY DEF LockInv, KindInv, LeftInv, ReadFirst, goto, ownVars
  <1> QED  BY <1>1, <1>2, <1>3, <1>4 DEF LockInv

LEMMA BinaryReturnKeeps ==
  ASSUME LockInv, NEW p \in Readers, BinaryReturn(p)
  PROVE  LockInv'
  <1> USE ConcurrentSetAssumption DEF ConcurrentSetAssumption, Callers
  <1>1. KindInv'
    BY DEF LockInv, KindInv, BinaryReturn, RUnlock, NoCall, goto, ownVars
  <1>2. WriterInv'
    BY DEF LockInv, KindInv, WriterInv, BinaryReturn, RUnlock, goto
  <1>3. ReaderInv'
    <2>1. /\ KindInv /\ ReaderInv /\ pc[p] = "read"
          /\ \A q \in Callers : q # p => pc'[q] = pc[q]
          /\ pc'[p] = "idle" /\ \A q \in Readers : q # p => call'[q] = call[q]
      BY DEF LockInv, KindInv, BinaryReturn, goto
    <2>2. \A e \in Sets : /\ holding'[e] = holding[e] \ {<<p, 1>>, <<p, 2>>}
                          /\ blocked'[e] = blocked[e]
      BY DEF LockInv, KindInv, BinaryReturn, RUnlock
    <2>3. <<p, 1>> \in holding[call[p].c] /\ <<p, 2>> \in holding[call[p].other]
      BY <2>1 DEF ReaderInv
    <2>4. \A e \in Sets : <<p, 1>> \notin blocked[e] /\ <<p, 2>> \notin blocked[e]
      BY <2>1, <2>3 DEF ReaderInv, Held
    <2>5. \A e \in Sets : Held(e)' = Held(e) \ {<<p, 1>>, <<p, 2>>}
      BY <2>2, <2>4 DEF Held
    <2>6. \A q \in Readers : pc[q] # "idle" => call[q].c \in Sets /\ call[q].other \in Sets
      BY <2>1, CallsTyped
    <2> QED  BY <2>1, <2>2, <2>5, <2>6 DEF ReaderInv
  <1>4. OwnerInv'
    BY DEF LockInv, KindInv, OwnerInv, Held, BinaryReturn, RUnlock, goto, ownVars
  <1>5. LeftInv'
    BY DEF LockInv, KindInv, LeftInv, BinaryReturn, goto
  <1> QED  BY <1>1, <1>2, <1>3, <1>4, <1>5 DEF LockInv

(* The owner *)
LEMMA MixCallKeeps ==
  ASSUME LockInv, NEW op, NEW c \in Sets, MixCall(op, c)
  PROVE  LockInv'
  <1> USE ConcurrentSetAssumption DEF ConcurrentSetAssumption, Callers
  <1> DEFINE m == [NoMix EXCEPT !.op = op, !.c = c, !.todo = Questions(op)]
  <1>0. "c" \in DOMAIN m /\ m.c = c
    BY DEF NoMix
  <1>m. "c" \in DOMAIN mix' /\ mix'.c = c
    <2>1. mix' = Noted(m, sets[c])
      BY DEF MixCall
    <2> HIDE DEF m
    <2> QED  BY <2>1, <1>0, NotedKeeps
  <1> HIDE DEF m
  <1>1. KindInv'
    BY <1>m DEF LockInv, KindInv, MixCall, goto, lockVars, readVars
  <1>2. WriterInv'
    BY DEF LockInv, KindInv, WriterInv, MixCall, goto, lockVars
  <1>3. ReaderInv' /\ OwnerInv'
    BY <1>m DEF LockInv, KindInv, ReaderInv, OwnerInv, Held, MixCall, goto, lockVars, readVars
  <1>4. LeftInv'
    BY DEF LockInv, KindInv, LeftInv, MixCall, goto, readVars
  <1> QED  BY <1>1, <1>2, <1>3, <1>4 DEF LockInv

LEMMA AskKeeps ==
  ASSUME LockInv, Ask
  PROVE  LockInv'
  <1> USE ConcurrentSetAssumption DEF ConcurrentSetAssumption, Callers
  <1>a. /\ KindInv /\ WriterInv /\ ReaderInv /\ OwnerInv /\ LeftInv /\ RLock(<<Owner, 1>>, mix.c)
        /\ pc[Owner] = "ask" /\ UNCHANGED <<sets, call, left, mix>>
    BY DEF LockInv, Ask, ownVars, readVars
  <1>b. mix.c \in Sets /\ <<Owner, 1>> \in Tokens
    BY <1>a DEF KindInv, Tokens
  <1>c. /\ pc' \in [Callers -> {"idle", "write", "first", "second", "read", "ask", "answer"}]
        /\ pc'[Owner] = "answer" /\ \A q \in Callers : q # Owner => pc'[q] = pc[q]
    BY <1>a DEF KindInv, Ask, goto
  <1>d. \A e \in Sets : <<Owner, 1>> \notin Held(e)
    BY <1>a DEF OwnerInv
  <1>e. \A e \in Sets : Held(e)' = Held(e) \cup (IF e = mix.c THEN {<<Owner, 1>>} ELSE {})
    BY <1>a, <1>b, RLockMeans DEF Held
  <1>1. KindInv'
    BY <1>a, <1>b, <1>c, RLockMeans DEF KindInv
  <1>2. WriterInv'
    BY <1>a, <1>b, <1>c, RLockMeans DEF KindInv, WriterInv
  <1>3. ReaderInv'
    <2>1. \A e \in Sets : holding[e] \subseteq holding'[e] /\ holding'[e] \cap blocked'[e] = {}
      BY <1>a, <1>b, <1>d, RLockMeans DEF ReaderInv, Held
    <2>2. \A q \in Readers : <<q, 1>> # <<Owner, 1>> /\ <<q, 2>> # <<Owner, 1>>
      BY TokensApart
    <2>3. \A e \in Sets, q \in Readers :
             /\ <<q, 1>> \in Held(e)' <=> <<q, 1>> \in Held(e)
             /\ <<q, 2>> \in Held(e)' <=> <<q, 2>> \in Held(e)
      BY <1>e, <2>2
    <2>4. \A q \in Readers :
             /\ pc'[q] = pc[q] /\ pc[q] \in {"idle", "first", "second", "read"}
             /\ pc[q] # "idle" => call[q].c \in Sets /\ call[q].other \in Sets
      BY <1>a, <1>c, CallsTyped DEF KindInv
    <2> QED  BY <1>a, <2>1, <2>3, <2>4 DEF ReaderInv
  <1>4. OwnerInv'
    BY <1>a, <1>b, <1>c, <1>d, <1>e DEF OwnerInv
  <1>5. LeftInv'
    BY <1>a, <1>c DEF KindInv, LeftInv
  <1> QED  BY <1>1, <1>2, <1>3, <1>4, <1>5 DEF LockInv

LEMMA AnsweredKeeps ==
  ASSUME LockInv, Answer
  PROVE  LockInv'
  <1> USE ConcurrentSetAssumption DEF ConcurrentSetAssumption, Callers
  <1>0. "c" \in DOMAIN mix' /\ mix'.c = mix.c
    BY AnswerKeeps DEF LockInv, KindInv
  <1>a. /\ KindInv /\ WriterInv /\ ReaderInv /\ OwnerInv /\ LeftInv
        /\ pc[Owner] = "answer" /\ <<Owner, 1>> \in holding[mix.c]
        /\ RUnlock({<<Owner, 1>>}) /\ goto(Owner, "ask")
        /\ UNCHANGED <<sets, call, left>>
    BY DEF LockInv, Answer, readVars
  <1>b. mix.c \in Sets
    BY <1>a DEF KindInv
  <1>c. /\ pc' \in [Callers -> {"idle", "write", "first", "second", "read", "ask", "answer"}]
        /\ pc'[Owner] = "ask" /\ \A q \in Callers : q # Owner => pc'[q] = pc[q]
    BY <1>a DEF KindInv, goto
  <1>d. \A e \in Sets : <<Owner, 1>> \notin blocked[e]
    BY <1>a, <1>b DEF OwnerInv, ReaderInv, Held
  <1>e. /\ holding' \in [Sets -> SUBSET Tokens]
        /\ \A e \in Sets : holding'[e] = holding[e] \ {<<Owner, 1>>} /\ blocked'[e] = blocked[e]
        /\ UNCHANGED <<writer, blocked>>
    BY <1>a DEF KindInv, RUnlock
  <1>f. \A e \in Sets : Held(e)' = Held(e) \ {<<Owner, 1>>}
    BY <1>d, <1>e DEF Held
  <1>1. KindInv'
    BY <1>0, <1>a, <1>b, <1>c, <1>e DEF KindInv
  <1>2. WriterInv'
    BY <1>a, <1>c, <1>e DEF KindInv, WriterInv
  <1>3. ReaderInv'
    <2>1. \A e \in Sets : holding'[e] \cap blocked'[e] = {}
      BY <1>a, <1>e DEF ReaderInv
    <2>2. \A q \in Readers : <<q, 1>> # <<Owner, 1>> /\ <<q, 2>> # <<Owner, 1>>
      BY TokensApart
    <2>3. \A e \in Sets, q \in Readers :
             /\ <<q, 1>> \in Held(e)' <=> <<q, 1>> \in Held(e)
             /\ <<q, 2>> \in Held(e)' <=> <<q, 2>> \in Held(e)
             /\ <<q, 1>> \in holding'[e] <=> <<q, 1>> \in holding[e]
             /\ <<q, 2>> \in holding'[e] <=> <<q, 2>> \in holding[e]
      BY <1>e, <1>f, <2>2
    <2>4. \A q \in Readers :
             /\ pc'[q] = pc[q] /\ pc[q] \in {"idle", "first", "second", "read"}
             /\ pc[q] # "idle" => call[q].c \in Sets /\ call[q].other \in Sets
      BY <1>a, <1>c, CallsTyped DEF KindInv
    <2> QED  BY <1>a, <2>1, <2>3, <2>4 DEF ReaderInv
  <1>4. OwnerInv'
    BY <1>c, <1>f DEF OwnerInv
  <1>5. LeftInv'
    BY <1>a, <1>c DEF KindInv, LeftInv
  <1> QED  BY <1>1, <1>2, <1>3, <1>4, <1>5 DEF LockInv

LEMMA MixReturnKeeps ==
  ASSUME LockInv, MixReturn
  PROVE  LockInv'
  <1> USE ConcurrentSetAssumption DEF ConcurrentSetAssumption, Callers
  <1>a. /\ pc[Owner] = "ask" /\ "c" \in DOMAIN mix' /\ goto(Owner, "idle")
        /\ UNCHANGED <<sets, lockVars, readVars>>
    BY DEF MixReturn, NoMix, Asked
  <1>1. KindInv'
    BY <1>a DEF LockInv, KindInv, goto, lockVars, readVars
  <1>2. WriterInv'
    BY <1>a DEF LockInv, KindInv, WriterInv, goto, lockVars
  <1>3. ReaderInv' /\ OwnerInv'
    BY <1>a DEF LockInv, KindInv, ReaderInv, OwnerInv, Held, goto, lockVars, readVars
  <1>4. LeftInv'
    BY <1>a DEF LockInv, KindInv, LeftInv, goto, readVars
  <1> QED  BY <1>1, <1>2, <1>3, <1>4 DEF LockInv

LEMMA LocksKeptBy ==
  ASSUME LockInv, UNCHANGED <<sets, lockVars, pc, readVars, mix>>
  PROVE  LockInv'
  BY DEF LockInv, KindInv, WriterInv, ReaderInv, OwnerInv, LeftInv, Held, lockVars, readVars

LEMMA LocksKept == LockInv /\ [Next]_vars => LockInv'
  <1> SUFFICES ASSUME LockInv, [Next]_vars  PROVE LockInv'
    OBVIOUS
  <1>1. ASSUME NEW p \in Writers, NEW c \in Sets, WriteCall(p, c) \/ Write(p, c)
        PROVE  LockInv'
    BY <1>1, WriteCallKeeps, WriteKeeps
  <1>2. ASSUME NEW p \in Readers, NEW t \in Pairs, BinaryCall(p, t[1], t[2])
        PROVE  LockInv'
    BY <1>2, BinaryCallKeeps
  <1>3. ASSUME NEW p \in Readers, ReaderStep(p)  PROVE LockInv'
    BY <1>3, SecondLockKeeps, ReadFirstKeeps, BinaryReturnKeeps DEF ReaderStep
  <1>4. CASE OwnUpdate
    BY <1>4, LocksKeptBy DEF OwnUpdate
  <1>5. ASSUME NEW op \in Algebra \cup Predicates, NEW c \in Sets, MixCall(op, c)
        PROVE  LockInv'
    BY <1>5, MixCallKeeps
  <1>6. CASE OwnerStep
    BY <1>6, AskKeeps, AnsweredKeeps, MixReturnKeeps DEF OwnerStep
  <1>7. CASE UNCHANGED vars
    BY <1>7, LocksKeptBy DEF vars, ownVars
  <1> QED  BY <1>1, <1>2, <1>3, <1>4, <1>5, <1>6, <1>7 DEF Next

(* The locks agree with where every goroutine is, for any goroutines and  *)
(* sets: every method's Lock or RLock and its deferred unlock.             *)
THEOREM LocksProved == Spec => []LockInv
  <1> QED  BY InitOK, LocksKept, PTL DEF Spec

-----------------------------------------------------------------------------
(* Both sets at one moment *)

(* What the loops of HashSet compute is the operation meant: the subset    *)
(* test's look at the sizes first, and the symmetric difference as a union *)
(* less an intersection, change nothing.                                   *)
LEMMA SubsetTest ==
  ASSUME NEW S \in SUBSET Items, NEW T \in SUBSET Items
  PROVE  HashIsSubset(S, T) = (S \subseteq T)
  <1>1. IsFiniteSet(T) /\ Cardinality(T) \in Nat
    BY ConcurrentSetAssumption, FS_Subset, FS_CardinalityType DEF ConcurrentSetAssumption
  <1>2. IsFiniteSet(S) /\ Cardinality(S) \in Nat
    BY ConcurrentSetAssumption, FS_Subset, FS_CardinalityType DEF ConcurrentSetAssumption
  <1>3. S \subseteq T => Cardinality(S) <= Cardinality(T)
    BY <1>1, FS_Subset
  <1>4. S \subseteq T => ~(Cardinality(S) > Cardinality(T))
    BY <1>1, <1>2, <1>3
  <1> QED  BY <1>4 DEF HashIsSubset

LEMMA HashIsExact ==
  ASSUME NEW op \in Algebra \cup Predicates, NEW S \in SUBSET Items, NEW T \in SUBSET Items
  PROVE  BinaryResult(op, S, T) = Exact(op, S, T)
  <1>1. HashSymmetric(S, T) = (S \ T) \cup (T \ S)
    BY DEF HashSymmetric, HashDifference, HashUnion, HashIntersection
  <1>2. HashUnion(S, T) = S \cup T /\ HashIntersection(S, T) = S \cap T
        /\ HashDifference(S, T) = S \ T
    BY DEF HashDifference, HashUnion, HashIntersection
  <1>3. HashIsSubset(S, T) = (S \subseteq T) /\ HashIsSubset(T, S) = (T \subseteq S)
    BY SubsetTest
  <1>4. CASE op \in Algebra
    BY <1>1, <1>2, <1>4 DEF BinaryResult, Exact, Algebra
  <1>5. CASE op = "subset"
    BY <1>3, <1>5 DEF BinaryResult, Exact
  <1>6. CASE op = "superset"
    BY <1>3, <1>6 DEF BinaryResult, Exact
  <1> QED  BY <1>4, <1>5, <1>6 DEF Predicates

(* A binary operation on two ConcurrentSets answers for both as they are   *)
(* at one moment, the end of the call: a reader keeps both locks until it  *)
(* has gone through both sets, whoever writes or waits to                  *)
(* (src/set/concurrentset.go, Union to IsSuperset).                       *)
THEOREM BinaryExactProved == Spec => []BinaryExact
  <1>1. LockInv => BinaryExact
    <2> SUFFICES ASSUME LockInv, NEW p \in Readers, NEW op \in Algebra \cup Predicates,
                        pc[p] = "read"
                 PROVE  Result(p, op) = Exact(op, sets[call[p].c], sets[call[p].other])
      BY DEF BinaryExact
    <2>1. left[p] = sets[call[p].c] /\ call[p].c \in Sets /\ call[p].other \in Sets
      BY CallsTyped DEF LockInv, LeftInv
    <2>2. sets[call[p].c] \in SUBSET Items /\ sets[call[p].other] \in SUBSET Items
      BY <2>1 DEF LockInv, KindInv
    <2> QED  BY <2>1, <2>2, HashIsExact DEF Result
  <1> QED  BY <1>1, LocksProved, PTL

-----------------------------------------------------------------------------
(* Nobody waits in a circle *)

(* The two sets of a binary operation are always taken in one order: going *)
(* from a first set to its second and on from there comes to an end.       *)
After == {<<t[2], t[1]>> : t \in Pairs}
Ordered == IsWellFoundedOn(After, Sets)

(* The sets whose writer has announced itself. *)
Claimed == {c \in Sets : writer[c] # None}

(* Where nobody can go on, readers stand between a claimed set and another *)
(* one, later in the order.                                                *)
LEMMA WaitsGoOn ==
  ASSUME LockInv, \A p \in Callers : pc[p] # "idle" => ~Movable(p), NEW c \in Claimed
  PROVE  \E d \in Claimed : <<d, c>> \in After
  <1> USE ConcurrentSetAssumption DEF ConcurrentSetAssumption, Callers
  <1>1. writer[c] \in Writers /\ pc[writer[c]] = "write" /\ c \in Sets
    BY DEF LockInv, KindInv, WriterInv, Claimed
  <1>2. holding[c] # {}
    BY <1>1 DEF Movable
  <1>3. PICK t \in Tokens : t \in holding[c]
    BY <1>1, <1>2 DEF LockInv, KindInv
  <1>4. t # <<Owner, 1>>
    <2> SUFFICES ASSUME t = <<Owner, 1>>  PROVE FALSE
      OBVIOUS
    <2>1. pc[Owner] = "answer" /\ mix.c = c
      BY <1>1, <1>3 DEF LockInv, OwnerInv, Held
    <2>2. Movable(Owner)
      BY <1>3, <2>1 DEF Movable
    <2> QED  BY <2>1, <2>2
  <1>5. PICK p \in Readers, i \in {1, 2} : t = <<p, i>>
    BY <1>4 DEF Tokens
  <1>6. p \in Callers /\ pc[p] \in {"first", "second", "read"}
    BY <1>1, <1>3, <1>5 DEF LockInv, ReaderInv, Held
  <1>7. ~Movable(p)
    BY <1>6
  <1>8. pc[p] = "second"
    <2>1. pc[p] = "first" => i = 1 /\ call[p].c = c
      BY <1>1, <1>3, <1>5 DEF LockInv, ReaderInv, Held
    <2>2. pc[p] # "first"
      BY <1>3, <1>5, <1>7, <2>1 DEF Movable
    <2>3. pc[p] # "read"
      BY <1>7 DEF Movable
    <2> QED  BY <1>6, <2>2, <2>3
  <1>9. <<p, 2>> \notin holding[call[p].other]
    BY <1>7, <1>8 DEF Movable
  <1>10. call[p].c \in Sets /\ call[p].other \in Sets
    BY <1>8, CallsTyped DEF LockInv
  <1>11. call[p].c = c
    BY <1>1, <1>3, <1>5, <1>9 DEF LockInv, ReaderInv, Held
  <1>12. blocked[call[p].other] # {}
    BY <1>8, <1>9, <1>10 DEF LockInv, ReaderInv, Held
  <1>13. call[p].other \in Claimed
    BY <1>10, <1>12 DEF LockInv, WriterInv, Claimed
  <1>14. <<call[p].c, call[p].other>> \in Pairs
    BY <1>8 DEF LockInv, KindInv
  <1>15. <<call[p].other, call[p].c>> \in After
    BY <1>14 DEF After
  <1> QED  BY <1>11, <1>13, <1>15

(* As long as calls are under way one of them has the lock it waits for,   *)
(* where all take two sets in one order: although a waiting writer keeps a *)
(* reader that holds a first lock from its second, and keeps the owner's   *)
(* question out (src/set/concurrentset.go, every method's lock).          *)
THEOREM NobodyStuckProved ==
  ASSUME Ordered
  PROVE  Spec => []NobodyStuck
  <1>1. LockInv => NobodyStuck
    <2> SUFFICES ASSUME LockInv, NEW p \in Callers, pc[p] # "idle",
                        \A q \in Callers : pc[q] # "idle" => ~Movable(q)
                 PROVE  FALSE
      BY DEF NobodyStuck
    <2>1. Claimed # {}
      <3> USE ConcurrentSetAssumption DEF ConcurrentSetAssumption, Callers
      <3>1. pc[p] \in {"write", "first", "second", "answer"} /\ ~Movable(p)
        BY DEF LockInv, KindInv, Movable
      <3>2. CASE pc[p] = "write"
        BY <3>2 DEF LockInv, KindInv, WriterInv, Claimed
      <3>3. CASE pc[p] = "first"
        <4>1. p \in Readers /\ call[p].c \in Sets /\ <<p, 1>> \notin holding[call[p].c]
          BY <3>1, <3>3, CallsTyped DEF LockInv, KindInv, Movable
        <4> QED  BY <3>3, <4>1 DEF LockInv, ReaderInv, WriterInv, Held, Claimed
      <3>4. CASE pc[p] = "second"
        <4>1. p \in Readers /\ call[p].other \in Sets /\ <<p, 2>> \notin holding[call[p].other]
          BY <3>1, <3>4, CallsTyped DEF LockInv, KindInv, Movable
        <4> QED  BY <3>4, <4>1 DEF LockInv, ReaderInv, WriterInv, Held, Claimed
      <3>5. CASE pc[p] = "answer"
        <4>1. p = Owner /\ mix.c \in Sets /\ <<Owner, 1>> \notin holding[mix.c]
          BY <3>1, <3>5 DEF LockInv, KindInv, Movable
        <4> QED  BY <3>5, <4>1 DEF LockInv, OwnerInv, WriterInv, Held, Claimed
      <3> QED  BY <3>1, <3>2, <3>3, <3>4, <3>5
    <2>2. Claimed \subseteq Sets
      BY DEF Claimed
    <2>3. PICK c \in Claimed : \A d \in Claimed : ~(<<d, c>> \in After)
      BY <2>1, <2>2, WFMin DEF Ordered
    <2> QED  BY <2>3, WaitsGoOn
  <1> QED  BY <1>1, LocksProved, PTL

-----------------------------------------------------------------------------
(* The sorted set: what its operations leave, and what they make of items *)

(* A set of numbers has a least one. *)
LEMMA MinIsLeast ==
  ASSUME NEW T \in SUBSET Nat, T # {}
  PROVE  Min(T) \in T /\ \A k \in T : Min(T) <= k
  <1>1. IsWellFoundedOn(OpToRel(<, Nat), Nat)
    BY NatLessThanWellFounded
  <1>2. PICK m \in T : \A k \in T : ~(<<k, m>> \in OpToRel(<, Nat))
    BY <1>1, WFMin
  <1>3. ASSUME NEW k \in T PROVE m <= k
    <2>1. ~(<<k, m>> \in {ss \in Nat \X Nat : ss[1] < ss[2]})
      BY <1>2 DEF OpToRel
    <2>2. <<k, m>> \in Nat \X Nat /\ ~(k < m)
      BY <2>1
    <2> QED  BY <2>2
  <1> QED  BY <1>3 DEF Min

SortedSets == {s \in [items : SUBSET Items, elements : Seq(Items)] : Agree(s)}

(* The slices that are left by an insertion and by a removal, place by place. *)
LEMMA InsertedIs ==
  ASSUME NEW q \in Seq(Items), NEW p \in 1..Len(q) + 1, NEW x \in Items
  PROVE  /\ InsertAt(q, p, x) \in Seq(Items) /\ Len(InsertAt(q, p, x)) = Len(q) + 1
         /\ \A i \in 1..Len(q) + 1 :
               InsertAt(q, p, x)[i] = IF i < p THEN q[i] ELSE IF i = p THEN x ELSE q[i - 1]
  <1> DEFINE a == SubSeq(q, 1, p - 1)
             b == SubSeq(q, p, Len(q))
  <1>1. /\ a \in Seq(Items) /\ Len(a) = p - 1 /\ \A i \in 1..p - 1 : a[i] = q[i]
        /\ b \in Seq(Items) /\ Len(b) = Len(q) + 1 - p
        /\ \A i \in 1..Len(q) + 1 - p : b[i] = q[p + i - 1]
    BY SubSeqProperties
  <1>2. InsertAt(q, p, x) = (a \o <<x>>) \o b
    BY DEF InsertAt
  <1> HIDE DEF a, b
  <1>3. /\ a \o <<x>> \in Seq(Items) /\ Len(a \o <<x>>) = p
        /\ \A i \in 1..p : (a \o <<x>>)[i] = IF i < p THEN q[i] ELSE x
    <2>1. <<x>> \in Seq(Items) /\ Len(<<x>>) = 1 /\ <<x>>[1] = x
      OBVIOUS
    <2> QED  BY <1>1, <2>1, ConcatProperties
  <1> DEFINE c == a \o <<x>>
  <1> HIDE DEF c
  <1>4. /\ c \in Seq(Items) /\ Len(c) = p /\ \A i \in 1..p : c[i] = IF i < p THEN q[i] ELSE x
        /\ InsertAt(q, p, x) = c \o b
    BY <1>2, <1>3 DEF c
  <1>5. /\ c \o b \in Seq(Items) /\ Len(c \o b) = Len(c) + Len(b)
        /\ \A i \in 1..Len(c) + Len(b) : (c \o b)[i] = IF i <= Len(c) THEN c[i] ELSE b[i - Len(c)]
    BY <1>1, <1>4, ConcatProperties
  <1>6. Len(q) \in Nat /\ Len(c) + Len(b) = Len(q) + 1
    BY <1>1, <1>4
  <1>7. ASSUME NEW i \in 1..Len(q) + 1
        PROVE  (c \o b)[i] = IF i < p THEN q[i] ELSE IF i = p THEN x ELSE q[i - 1]
    <2>1. CASE i <= p
      BY <1>4, <1>5, <1>6, <2>1
    <2>2. CASE ~(i <= p)
      <3>1. i - p \in 1..Len(q) + 1 - p /\ p + (i - p) - 1 = i - 1
        BY <1>6, <2>2
      <3>2. (c \o b)[i] = b[i - p] /\ b[i - p] = q[i - 1]
        BY <1>1, <1>4, <1>5, <1>6, <2>2, <3>1
      <3> QED  BY <2>2, <3>2
    <2> QED  BY <2>1, <2>2
  <1> QED  BY <1>4, <1>5, <1>6, <1>7

LEMMA RemovedIs ==
  ASSUME NEW q \in Seq(Items), NEW p \in 1..Len(q)
  PROVE  /\ RemoveAt(q, p) \in Seq(Items) /\ Len(RemoveAt(q, p)) = Len(q) - 1
         /\ \A i \in 1..Len(q) - 1 : RemoveAt(q, p)[i] = IF i < p THEN q[i] ELSE q[i + 1]
  <1> DEFINE a == SubSeq(q, 1, p - 1)
             b == SubSeq(q, p + 1, Len(q))
  <1>1. /\ a \in Seq(Items) /\ Len(a) = p - 1 /\ \A i \in 1..p - 1 : a[i] = q[i]
        /\ b \in Seq(Items) /\ Len(b) = Len(q) - p
        /\ \A i \in 1..Len(q) - p : b[i] = q[p + i]
    BY SubSeqProperties
  <1>2. RemoveAt(q, p) = a \o b
    BY DEF RemoveAt
  <1> HIDE DEF a, b
  <1>3. /\ a \o b \in Seq(Items) /\ Len(a \o b) = Len(a) + Len(b)
        /\ \A i \in 1..Len(a) + Len(b) : (a \o b)[i] = IF i <= Len(a) THEN a[i] ELSE b[i - Len(a)]
    BY <1>1, ConcatProperties
  <1>4. Len(q) \in Nat /\ Len(a) + Len(b) = Len(q) - 1
    BY <1>1
  <1>5. ASSUME NEW i \in 1..Len(q) - 1
        PROVE  (a \o b)[i] = IF i < p THEN q[i] ELSE q[i + 1]
    <2>1. CASE i < p
      BY <1>1, <1>3, <1>4, <2>1
    <2>2. CASE ~(i < p)
      <3>1. i - (p - 1) \in 1..Len(q) - p /\ p + (i - (p - 1)) = i + 1
        BY <1>4, <2>2
      <3>2. (a \o b)[i] = b[i - (p - 1)] /\ b[i - (p - 1)] = q[i + 1]
        BY <1>1, <1>3, <1>4, <2>2, <3>1
      <3> QED  BY <2>2, <3>2
    <2> QED  BY <2>1, <2>2
  <1> QED  BY <1>2, <1>3, <1>4, <1>5

(* What a new item changes: r is q with x in the place p. *)
LEMMA InsertedSet ==
  ASSUME NEW q \in Seq(Items), NEW r \in Seq(Items), NEW p \in 1..Len(q) + 1, NEW x \in Items,
         Len(r) = Len(q) + 1,
         \A i \in 1..Len(q) + 1 : r[i] = IF i < p THEN q[i] ELSE IF i = p THEN x ELSE q[i - 1]
  PROVE  ToSet(r) = ToSet(q) \cup {x}
  <1>1. ASSUME NEW i \in 1..Len(q) PROVE \E j \in 1..Len(q) + 1 : r[j] = q[i]
    <2>1. CASE i < p
      BY <2>1
    <2>2. CASE ~(i < p)
      <3>1. i + 1 \in 1..Len(q) + 1 /\ ~(i + 1 < p) /\ i + 1 # p /\ (i + 1) - 1 = i
        BY <2>2
      <3> QED  BY <3>1
    <2> QED  BY <2>1, <2>2
  <1>2. ASSUME NEW j \in 1..Len(q) + 1
        PROVE  r[j] = x \/ \E i \in 1..Len(q) : r[j] = q[i]
    <2>1. (j < p => j \in 1..Len(q)) /\ (j > p => j - 1 \in 1..Len(q))
      OBVIOUS
    <2>2. j < p \/ j = p \/ j > p
      OBVIOUS
    <2>3. CASE j < p
      BY <2>1, <2>3
    <2>4. CASE j > p
      <3>1. j - 1 \in 1..Len(q) /\ r[j] = q[j - 1]
        BY <2>1, <2>4
      <3> QED  BY <3>1
    <2>5. CASE j = p
      BY <2>5
    <2> QED  BY <2>2, <2>3, <2>4, <2>5
  <1>3. r[p] = x
    OBVIOUS
  <1>4. DOMAIN r = 1..Len(q) + 1 /\ DOMAIN q = 1..Len(q) /\ p \in DOMAIN r
    OBVIOUS
  <1>5. ASSUME NEW y \in ToSet(r) PROVE y \in ToSet(q) \cup {x}
    <2>1. PICK j \in 1..Len(q) + 1 : y = r[j]
      BY <1>4 DEF ToSet
    <2> QED  BY <1>2, <1>4, <2>1 DEF ToSet
  <1>6. ASSUME NEW y \in ToSet(q) PROVE y \in ToSet(r)
    <2>1. PICK i \in 1..Len(q) : y = q[i]
      BY <1>4 DEF ToSet
    <2>2. PICK j \in 1..Len(q) + 1 : r[j] = q[i]
      BY <1>1
    <2> QED  BY <1>4, <2>1, <2>2 DEF ToSet
  <1>7. x \in ToSet(r)
    BY <1>3, <1>4 DEF ToSet
  <1> QED  BY <1>5, <1>6, <1>7

(* ... and it is in order, if all before p are not greater than x and the  *)
(* one that was there is.                                                  *)
LEMMA InsertedSorted ==
  ASSUME NEW q \in Seq(Items), NEW r \in Seq(Items), NEW p \in 1..Len(q) + 1, NEW x \in Items,
         Len(r) = Len(q) + 1,
         \A i \in 1..Len(q) + 1 : r[i] = IF i < p THEN q[i] ELSE IF i = p THEN x ELSE q[i - 1],
         Sorted(q),
         \A i \in 1..Len(q) : i < p => ~less(x, q[i]),
         p <= Len(q) => less(x, q[p])
  PROVE  Sorted(r)
  <1>0. DOMAIN q = 1..Len(q) /\ DOMAIN r = 1..Len(q) + 1 /\ Len(q) \in Nat
    OBVIOUS
  <1>1. \A i \in 1..Len(q) : q[i] \in Items
    OBVIOUS
  <1>2. \A y \in Items : Order[y] \in Nat
    BY ConcurrentSetAssumption DEF ConcurrentSetAssumption
  <1>3. \A i, j \in 1..Len(q) : i < j => ~(Order[q[j]] < Order[q[i]])
    BY <1>0 DEF Sorted, less
  <1>4. ASSUME NEW i \in 1..Len(q)
        PROVE  IF i < p THEN Order[q[i]] <= Order[x] ELSE Order[x] < Order[q[i]]
    <2>1. CASE i < p
      BY <1>1, <1>2, <2>1 DEF less
    <2>2. CASE ~(i < p)
      <3>1. p \in 1..Len(q) /\ Order[x] < Order[q[p]] /\ (i = p \/ p < i)
        BY <2>2 DEF less
      <3>2. i # p => ~(Order[q[i]] < Order[q[p]])
        BY <1>3, <3>1
      <3>3. Order[q[i]] \in Nat /\ Order[q[p]] \in Nat /\ Order[x] \in Nat
        BY <1>1, <1>2, <3>1
      <3> QED  BY <2>2, <3>1, <3>2, <3>3
    <2> QED  BY <2>1, <2>2
  <1>5. ASSUME NEW i \in 1..Len(q) + 1, NEW j \in 1..Len(q) + 1, i < j
        PROVE  ~(Order[r[j]] < Order[r[i]])
    <2>1. Order[x] \in Nat
      BY <1>2
    <2>2. CASE j < p
      <3>1. i \in 1..Len(q) /\ j \in 1..Len(q) /\ r[i] = q[i] /\ r[j] = q[j]
        BY <1>5, <2>2
      <3> QED  BY <1>3, <1>5, <3>1
    <2>3. CASE j = p
      <3>1. i < p /\ i \in 1..Len(q) /\ r[j] = x /\ r[i] = q[i]
        BY <1>5, <2>3
      <3>2. Order[q[i]] <= Order[x] /\ Order[q[i]] \in Nat
        BY <1>1, <1>2, <1>4, <3>1
      <3> QED  BY <2>1, <3>1, <3>2
    <2>4. CASE j > p
      <3>1. j - 1 \in 1..Len(q) /\ r[j] = q[j - 1] /\ ~(j - 1 < p)
        BY <2>4
      <3>2. Order[x] < Order[q[j - 1]] /\ Order[q[j - 1]] \in Nat
        BY <1>1, <1>2, <1>4, <3>1
      <3>3. CASE i = p
        BY <2>1, <3>1, <3>2, <3>3
      <3>4. CASE i < p
        <4>1. i \in 1..Len(q) /\ r[i] = q[i]
          BY <3>4
        <4>2. Order[q[i]] <= Order[x] /\ Order[q[i]] \in Nat
          BY <1>1, <1>2, <1>4, <3>4, <4>1
        <4> QED  BY <2>1, <3>1, <3>2, <4>1, <4>2
      <3>5. CASE i > p
        <4>1. i - 1 \in 1..Len(q) /\ r[i] = q[i - 1] /\ i - 1 < j - 1
          BY <1>5, <3>5
        <4> QED  BY <1>3, <3>1, <4>1
      <3>6. i = p \/ i < p \/ i > p
        OBVIOUS
      <3> QED  BY <3>3, <3>4, <3>5, <3>6
    <2>5. j < p \/ j = p \/ j > p
      OBVIOUS
    <2> QED  BY <2>2, <2>3, <2>4, <2>5
  <1> QED  BY <1>0, <1>5 DEF Sorted, less

(* sort.Search *)
LEMMA InsertPosIs ==
  ASSUME NEW q \in Seq(Items), NEW x \in Items
  PROVE  /\ InsertPos(q, x) \in 1..Len(q) + 1
         /\ \A i \in 1..Len(q) : i < InsertPos(q, x) => ~less(x, q[i])
         /\ InsertPos(q, x) <= Len(q) => less(x, q[InsertPos(q, x)])
  <1> DEFINE T == {i \in DOMAIN q : less(x, q[i])} \cup {Len(q) + 1}
             p == InsertPos(q, x)
  <1>1. DOMAIN q = 1..Len(q) /\ Len(q) \in Nat
    OBVIOUS
  <1>2. T \in SUBSET Nat /\ T # {}
    BY <1>1
  <1>3. p = Min(T)
    BY DEF InsertPos
  <1> HIDE DEF T, p
  <1>4. p \in T /\ \A k \in T : p <= k
    BY <1>2, <1>3, MinIsLeast
  <1>5. p \in 1..Len(q) + 1 /\ (p <= Len(q) => less(x, q[p]))
    BY <1>1, <1>4 DEF T
  <1>6. ASSUME NEW i \in 1..Len(q), i < p, less(x, q[i]) PROVE FALSE
    <2>1. i \in T
      BY <1>1, <1>6 DEF T
    <2> QED  BY <1>4, <1>5, <1>6, <2>1
  <1> QED  BY <1>5, <1>6 DEF p

(* What a sorted set is, for the lemmas that use one or build one. *)
LEMMA SortedSetIs ==
  ASSUME NEW s \in SortedSets
  PROVE  /\ s.elements \in Seq(Items) /\ s.items \in SUBSET Items /\ Sorted(s.elements)
         /\ ToSet(s.elements) = s.items /\ Len(s.elements) = Cardinality(s.items)
         /\ Len(s.elements) \in Nat /\ DOMAIN s.elements = 1..Len(s.elements)
         /\ IsFiniteSet(s.items) /\ s = [items |-> s.items, elements |-> s.elements]
  <1>1. s.items \in SUBSET Items /\ s.elements \in Seq(Items)
    BY DEF SortedSets
  <1>2. IsFiniteSet(s.items)
    BY <1>1, FS_Subset, ConcurrentSetAssumption DEF ConcurrentSetAssumption
  <1> QED  BY <1>1, <1>2 DEF SortedSets, Agree

LEMMA IsSortedSet ==
  ASSUME NEW S \in SUBSET Items, NEW q \in Seq(Items), ToSet(q) = S, Len(q) = Cardinality(S),
         Sorted(q)
  PROVE  [items |-> S, elements |-> q] \in SortedSets
  BY DEF SortedSets, Agree

(* Add puts the item into both halves, at its place. *)
LEMMA AddIs ==
  ASSUME NEW s \in SortedSets, NEW x \in Items
  PROVE  SortedAdd(s, x) \in SortedSets /\ SortedAdd(s, x).items = s.items \cup {x}
  <1>1. CASE x \in s.items
    BY <1>1 DEF SortedAdd
  <1>2. CASE x \notin s.items
    <2> DEFINE r == InsertAt(s.elements, InsertPos(s.elements, x), x)
    <2>1. SortedAdd(s, x) = [items |-> s.items \cup {x}, elements |-> r]
      BY <1>2 DEF SortedAdd
    <2>2. PICK q \in Seq(Items) : q = s.elements
      BY SortedSetIs
    <2>3. PICK p \in 1..Len(q) + 1 :
            /\ r = InsertAt(q, p, x)
            /\ \A i \in 1..Len(q) : i < p => ~less(x, q[i])
            /\ p <= Len(q) => less(x, q[p])
      BY <2>2, InsertPosIs
    <2>4. /\ r \in Seq(Items) /\ Len(r) = Len(q) + 1
          /\ \A i \in 1..Len(q) + 1 : r[i] = IF i < p THEN q[i] ELSE IF i = p THEN x ELSE q[i - 1]
      <3>1. r = InsertAt(q, p, x)
        BY <2>3
      <3>2. /\ InsertAt(q, p, x) \in Seq(Items) /\ Len(InsertAt(q, p, x)) = Len(q) + 1
            /\ \A i \in 1..Len(q) + 1 :
                  InsertAt(q, p, x)[i] = IF i < p THEN q[i] ELSE IF i = p THEN x ELSE q[i - 1]
        BY InsertedIs
      <3> HIDE DEF r
      <3> QED  BY <3>1, <3>2
    <2> HIDE DEF r
    <2>5. ToSet(r) = s.items \cup {x}
      <3>1. ToSet(r) = ToSet(q) \cup {x}
        BY <2>4, InsertedSet
      <3>2. ToSet(q) = s.items
        BY <2>2, SortedSetIs
      <3> QED  BY <3>1, <3>2
    <2>6. Sorted(r)
      <3>1. Sorted(q)
        BY <2>2, SortedSetIs
      <3> QED  BY <2>3, <2>4, <3>1, InsertedSorted
    <2>7. s.items \cup {x} \in SUBSET Items /\ Len(r) = Cardinality(s.items \cup {x})
      <3>1. s.items \in SUBSET Items /\ IsFiniteSet(s.items) /\ Len(q) = Cardinality(s.items)
        BY <2>2, SortedSetIs
      <3>2. Cardinality(s.items \cup {x}) = Cardinality(s.items) + 1
        BY <1>2, <3>1, FS_AddElement
      <3> QED  BY <2>4, <3>1, <3>2
    <2>8. [items |-> s.items \cup {x}, elements |-> r] \in SortedSets
      BY <2>4, <2>5, <2>6, <2>7, IsSortedSet
    <2> QED  BY <2>1, <2>8
  <1> QED  BY <1>1, <1>2

(* As many places as items: none comes twice. *)
LEMMA EachOnce ==
  ASSUME NEW q \in Seq(Items), NEW S, IsFiniteSet(S), ToSet(q) = S, Len(q) = Cardinality(S)
  PROVE  \A i, j \in 1..Len(q) : q[i] = q[j] => i = j
  <1>1. IsFiniteSet(1..Len(q)) /\ Cardinality(1..Len(q)) = Len(q) /\ Len(q) \in Nat
    BY FS_Interval
  <1>2. q \in Surjection(1..Len(q), S)
    BY Fun_IsSurj DEF ToSet
  <1>3. q \in Injection(1..Len(q), S)
    BY <1>1, <1>2, FS_Surjection
  <1> QED  BY <1>3 DEF Injection, IsInjective

(* What a removal changes: r is q without its place p. *)
LEMMA RemovedSet ==
  ASSUME NEW q \in Seq(Items), NEW r \in Seq(Items), NEW p \in 1..Len(q),
         Len(r) = Len(q) - 1,
         \A i \in 1..Len(q) - 1 : r[i] = IF i < p THEN q[i] ELSE q[i + 1],
         \A i, j \in 1..Len(q) : q[i] = q[j] => i = j
  PROVE  ToSet(r) = ToSet(q) \ {q[p]}
  <1>1. ASSUME NEW i \in 1..Len(q), i # p PROVE \E j \in 1..Len(q) - 1 : r[j] = q[i]
    <2>1. CASE i < p
      <3>1. i \in 1..Len(q) - 1
        BY <2>1
      <3> QED  BY <2>1, <3>1
    <2>2. CASE i > p
      <3>1. i - 1 \in 1..Len(q) - 1 /\ ~(i - 1 < p) /\ (i - 1) + 1 = i
        BY <2>2
      <3> QED  BY <3>1
    <2> QED  BY <1>1, <2>1, <2>2
  <1>2. ASSUME NEW j \in 1..Len(q) - 1
        PROVE  \E i \in 1..Len(q) : i # p /\ r[j] = q[i]
    <2>1. j \in 1..Len(q) /\ j + 1 \in 1..Len(q) /\ (j < p => j # p) /\ (~(j < p) => j + 1 # p)
      OBVIOUS
    <2> QED  BY <2>1
  <1>3. DOMAIN r = 1..Len(q) - 1 /\ DOMAIN q = 1..Len(q)
    OBVIOUS
  <1>4. ASSUME NEW y \in ToSet(r) PROVE y \in ToSet(q) \ {q[p]}
    <2>1. PICK j \in 1..Len(q) - 1 : y = r[j]
      BY <1>3 DEF ToSet
    <2>2. PICK i \in 1..Len(q) : i # p /\ r[j] = q[i]
      BY <1>2
    <2> QED  BY <1>3, <2>1, <2>2 DEF ToSet
  <1>5. ASSUME NEW y \in ToSet(q), y # q[p] PROVE y \in ToSet(r)
    <2>1. PICK i \in 1..Len(q) : y = q[i]
      BY <1>3 DEF ToSet
    <2>2. PICK j \in 1..Len(q) - 1 : r[j] = q[i]
      BY <1>1, <1>5, <2>1
    <2> QED  BY <1>3, <2>1, <2>2 DEF ToSet
  <1> QED  BY <1>4, <1>5

(* ... and it stays in order. *)
LEMMA RemovedSorted ==
  ASSUME NEW q \in Seq(Items), NEW r \in Seq(Items), NEW p \in 1..Len(q),
         Len(r) = Len(q) - 1,
         \A i \in 1..Len(q) - 1 : r[i] = IF i < p THEN q[i] ELSE q[i + 1],
         Sorted(q)
  PROVE  Sorted(r)
  <1>1. ASSUME NEW i \in 1..Len(q) - 1, NEW j \in 1..Len(q) - 1, i < j
        PROVE  \E k, l \in 1..Len(q) : k < l /\ r[i] = q[k] /\ r[j] = q[l]
    <2>1. i \in 1..Len(q) /\ j \in 1..Len(q) /\ i + 1 \in 1..Len(q) /\ j + 1 \in 1..Len(q)
      OBVIOUS
    <2>2. CASE i < p /\ j < p
      BY <1>1, <2>1, <2>2
    <2>3. CASE i < p /\ ~(j < p)
      <3>1. i < j + 1 /\ r[i] = q[i] /\ r[j] = q[j + 1]
        BY <1>1, <2>3
      <3> QED  BY <2>1, <3>1
    <2>4. CASE ~(i < p)
      <3>1. i + 1 < j + 1 /\ ~(j < p) /\ r[i] = q[i + 1] /\ r[j] = q[j + 1]
        BY <1>1, <2>4
      <3> QED  BY <2>1, <3>1
    <2> QED  BY <2>2, <2>3, <2>4
  <1>2. DOMAIN r = 1..Len(q) - 1 /\ DOMAIN q = 1..Len(q)
    OBVIOUS
  <1>3. \A k, l \in 1..Len(q) : k < l => ~less(q[l], q[k])
    BY <1>2 DEF Sorted
  <1>4. ASSUME NEW i \in 1..Len(q) - 1, NEW j \in 1..Len(q) - 1, i < j
        PROVE  ~less(r[j], r[i])
    <2>1. PICK k \in 1..Len(q), l \in 1..Len(q) : k < l /\ r[i] = q[k] /\ r[j] = q[l]
      BY <1>1, <1>4
    <2> QED  BY <1>3, <2>1
  <1> QED  BY <1>2, <1>4 DEF Sorted

(* Remove takes the item from both halves. *)
LEMMA RemoveIs ==
  ASSUME NEW s \in SortedSets, NEW x \in Items
  PROVE  SortedRemove(s, x) \in SortedSets /\ SortedRemove(s, x).items = s.items \ {x}
  <1>1. CASE x \notin s.items
    BY <1>1 DEF SortedRemove
  <1>2. CASE x \in s.items
    <2>1. PICK q \in Seq(Items) : q = s.elements
      BY SortedSetIs
    <2>2. /\ s.items \in SUBSET Items /\ Sorted(q) /\ DOMAIN q = 1..Len(q)
          /\ ToSet(q) = s.items /\ Len(q) = Cardinality(s.items) /\ IsFiniteSet(s.items)
      BY <2>1, SortedSetIs
    <2>3. PICK p \in 1..Len(q) : RemoveFirst(q, x) = RemoveAt(q, p) /\ q[p] = x
      <3> DEFINE T == {i \in 1..Len(q) : q[i] = x}
      <3>1. T \in SUBSET Nat /\ T # {} /\ \E i \in 1..Len(q) : q[i] = x
        BY <1>2, <2>2 DEF ToSet
      <3>2. Min(T) \in T
        <4> HIDE DEF T
        <4> QED  BY <3>1, MinIsLeast
      <3>3. RemoveFirst(q, x) = RemoveAt(q, Min(T))
        BY <3>1 DEF RemoveFirst, SelectInSeq
      <3> QED  BY <3>2, <3>3
    <2> DEFINE r == RemoveAt(q, p)
    <2>4. SortedRemove(s, x) = [items |-> s.items \ {x}, elements |-> r]
      BY <1>2, <2>1, <2>3 DEF SortedRemove
    <2>5. /\ r \in Seq(Items) /\ Len(r) = Len(q) - 1
          /\ \A i \in 1..Len(q) - 1 : r[i] = IF i < p THEN q[i] ELSE q[i + 1]
      BY RemovedIs
    <2> HIDE DEF r
    <2>6. ToSet(r) = s.items \ {x}
      <3>1. \A i, j \in 1..Len(q) : q[i] = q[j] => i = j
        BY <2>2, EachOnce
      <3>2. ToSet(r) = ToSet(q) \ {q[p]}
        BY <2>5, <3>1, RemovedSet
      <3> QED  BY <2>2, <2>3, <3>2
    <2>7. Sorted(r)
      BY <2>2, <2>5, RemovedSorted
    <2>8. s.items \ {x} \in SUBSET Items /\ Len(r) = Cardinality(s.items \ {x})
      <3>1. Cardinality(s.items \ {x}) = Cardinality(s.items) - 1
        BY <1>2, <2>2, FS_RemoveElement
      <3> QED  BY <2>2, <2>5, <3>1
    <2>9. [items |-> s.items \ {x}, elements |-> r] \in SortedSets
      BY <2>5, <2>6, <2>7, <2>8, IsSortedSet
    <2> QED  BY <2>4, <2>9
  <1> QED  BY <1>1, <1>2

(* However sort.Slice leaves them. *)
LEMMA RebuiltIs ==
  ASSUME NEW S \in SUBSET Items, NEW r \in Rebuilt(S)
  PROVE  r \in SortedSets /\ r.items = S
  <1> USE ConcurrentSetAssumption DEF ConcurrentSetAssumption
  <1> DEFINE n == Cardinality(S)
  <1>1. PICK q \in SetToSeqs(S) : Sorted(q) /\ r = [items |-> S, elements |-> q]
    BY DEF Rebuilt
  <1>2. IsFiniteSet(S) /\ n \in Nat
    BY FS_Subset, FS_CardinalityType
  <1>3. q \in [1..n -> S] /\ \A i, j \in 1..n : i # j => q[i] # q[j]
    BY DEF SetToSeqs
  <1> HIDE DEF n
  <1>4. IsFiniteSet(1..n) /\ Cardinality(1..n) = n
    BY <1>2, FS_Interval
  <1>5. q \in Injection(1..n, S)
    BY <1>3, Fun_IsInj
  <1>6. q \in Surjection(1..n, S)
    BY <1>2, <1>4, <1>5, FS_Injection DEF n
  <1>7. q \in Seq(Items) /\ Len(q) = n /\ DOMAIN q = 1..n
    BY <1>2, <1>3
  <1>8. ToSet(q) = S
    BY <1>3, <1>6, <1>7 DEF ToSet, Surjection
  <1> QED  BY <1>1, <1>7, <1>8 DEF SortedSets, Agree, n

(* Two slices after each other. *)
LEMMA ToSetConcat ==
  ASSUME NEW S, NEW e \in Seq(S), NEW q \in Seq(S)
  PROVE  ToSet(e \o q) = ToSet(e) \cup ToSet(q)
  <1>1. /\ e \o q \in Seq(S) /\ Len(e \o q) = Len(e) + Len(q)
        /\ \A i \in 1..Len(e) + Len(q) : (e \o q)[i] = IF i <= Len(e) THEN e[i] ELSE q[i - Len(e)]
    BY ConcatProperties
  <1> DEFINE r == e \o q
  <1> HIDE DEF r
  <1>2. /\ DOMAIN r = 1..Len(e) + Len(q) /\ DOMAIN e = 1..Len(e) /\ DOMAIN q = 1..Len(q)
        /\ \A i \in 1..Len(e) + Len(q) : r[i] = IF i <= Len(e) THEN e[i] ELSE q[i - Len(e)]
        /\ Len(e) \in Nat /\ Len(q) \in Nat
    BY <1>1 DEF r
  <1>3. ASSUME NEW y \in ToSet(r) PROVE y \in ToSet(e) \cup ToSet(q)
    <2>1. PICK i \in 1..Len(e) + Len(q) : y = r[i]
      BY <1>2, <1>3 DEF ToSet
    <2>2. CASE i <= Len(e)
      BY <1>2, <2>1, <2>2 DEF ToSet
    <2>3. CASE ~(i <= Len(e))
      <3>1. i - Len(e) \in 1..Len(q) /\ y = q[i - Len(e)]
        BY <1>2, <2>1, <2>3
      <3> QED  BY <1>2, <3>1 DEF ToSet
    <2> QED  BY <2>2, <2>3
  <1>4. ASSUME NEW y \in ToSet(e) PROVE y \in ToSet(r)
    <2>1. PICK i \in 1..Len(e) : y = e[i]
      BY <1>2, <1>4 DEF ToSet
    <2>2. i \in DOMAIN r /\ r[i] = y
      BY <1>2, <2>1
    <2> QED  BY <2>2 DEF ToSet
  <1>5. ASSUME NEW y \in ToSet(q) PROVE y \in ToSet(r)
    <2>1. PICK i \in 1..Len(q) : y = q[i]
      BY <1>2, <1>5 DEF ToSet
    <2>2. Len(e) + i \in 1..Len(e) + Len(q) /\ ~(Len(e) + i <= Len(e)) /\ (Len(e) + i) - Len(e) = i
      BY <1>2
    <2>3. Len(e) + i \in DOMAIN r /\ r[Len(e) + i] = y
      BY <1>2, <2>1, <2>2
    <2> QED  BY <2>3 DEF ToSet
  <1> QED  BY <1>3, <1>4, <1>5 DEF r

LEMMA NewIs == NewSorted \in SortedSets /\ NewSorted.items = {}
  <1>1. ToSet(<<>>) = {} /\ Sorted(<<>>) /\ <<>> \in Seq(Items)
    BY DEF ToSet, Sorted
  <1>2. Len(<<>>) = Cardinality({})
    BY FS_EmptySet
  <1> QED  BY <1>1, <1>2, IsSortedSet DEF NewSorted

(* The algebra's results, one item after another.  The recursive function  *)
(* is defined, and facts about it hold, at the least place that would say  *)
(* otherwise.                                                              *)
Taken(s, x, out) == IF x \in out THEN s ELSE SortedAdd(s, x)

LEMMA CollectDefined ==
  ASSUME NEW base, NEW q, NEW out, NEW n \in Nat
  PROVE  \E g : g = [k \in 0..n |-> IF k = 0 THEN base ELSE Taken(g[k - 1], q[k], out)]
  <1> DEFINE IsAfter(g, m) ==
               g = [k \in 0..m |-> IF k = 0 THEN base ELSE Taken(g[k - 1], q[k], out)]
             T == {m \in Nat : ~\E g : IsAfter(g, m)}
  <1> SUFFICES ASSUME T # {} PROVE FALSE
    OBVIOUS
  <1>1. PICK m \in T : \A k \in T : m <= k
    BY MinIsLeast
  <1>2. CASE m = 0
    <2> DEFINE g == [k \in 0..0 |-> base]
    <2>1. g = [k \in 0..0 |-> IF k = 0 THEN base ELSE Taken(g[k - 1], q[k], out)]
      OBVIOUS
    <2>2. IsAfter(g, m)
      BY <1>2, <2>1
    <2> QED  BY <1>1, <2>2
  <1>3. CASE m # 0
    <2>1. m - 1 \in Nat /\ m - 1 \notin T
      BY <1>1, <1>3
    <2>2. PICK g : IsAfter(g, m - 1)
      BY <2>1
    <2> DEFINE h == [k \in 0..m |-> IF k = m THEN Taken(g[m - 1], q[m], out) ELSE g[k]]
    <2>3. \A k \in 0..m - 1 : g[k] = IF k = 0 THEN base ELSE Taken(g[k - 1], q[k], out)
      BY <2>2
    <2>4. ASSUME NEW k \in 0..m
          PROVE  h[k] = IF k = 0 THEN base ELSE Taken(h[k - 1], q[k], out)
      <3>1. CASE k = m
        <4>1. h[m] = Taken(g[m - 1], q[m], out) /\ h[m - 1] = g[m - 1] /\ m # 0
          BY <1>1, <1>3, <2>1
        <4> QED  BY <3>1, <4>1
      <3>2. CASE k # m
        <4>1. k \in 0..m - 1 /\ h[k] = g[k]
          BY <1>1, <3>2
        <4>2. k # 0 => h[k - 1] = g[k - 1]
          BY <1>1, <3>2
        <4> QED  BY <2>3, <4>1, <4>2
      <3> QED  BY <3>1, <3>2
    <2>5. h = [k \in 0..m |-> h[k]]
      OBVIOUS
    <2> HIDE DEF h
    <2>6. IsAfter(h, m)
      BY <2>4, <2>5
    <2> QED  BY <1>1, <2>6
  <1> QED  BY <1>2, <1>3

LEMMA CollectChain ==
  ASSUME NEW q, NEW out, NEW n \in Nat, n = Len(q)
  PROVE  \E after : /\ after[0] = NewSorted
                    /\ \A k \in 1..n : after[k] = Taken(after[k - 1], q[k], out)
                    /\ Collect(q, out) = after[n]
  <1> DEFINE base == NewSorted
             after[k \in 0..n] == IF k = 0 THEN base ELSE Taken(after[k - 1], q[k], out)
  <1>1. Collect(q, out) = after[n]
    BY DEF Collect, Taken
  <1> HIDE DEF base
  <1>2. after = [k \in 0..n |-> IF k = 0 THEN base ELSE Taken(after[k - 1], q[k], out)]
    BY CollectDefined
  <1> HIDE DEF after
  <1>3. after[0] = base /\ \A k \in 1..n : after[k] = Taken(after[k - 1], q[k], out)
    BY <1>2
  <1> QED  BY <1>1, <1>3 DEF base

LEMMA CollectIs ==
  ASSUME NEW q \in Seq(Items), NEW out
  PROVE  Collect(q, out) \in SortedSets /\ Collect(q, out).items = ToSet(q) \ out
  <1>1. PICK after : /\ after[0] = NewSorted
                     /\ \A k \in 1..Len(q) : after[k] = Taken(after[k - 1], q[k], out)
                     /\ Collect(q, out) = after[Len(q)]
    BY CollectChain
  <1> DEFINE Ok(k) == /\ after[k] \in SortedSets
                      /\ after[k].items = {q[i] : i \in 1..k} \ out
             T == {k \in 0..Len(q) : ~Ok(k)}
  <1>2. T = {}
    <2> SUFFICES ASSUME T # {} PROVE FALSE
      OBVIOUS
    <2>1. T \in SUBSET Nat
      OBVIOUS
    <2> HIDE DEF T
    <2>2. PICK k \in T : \A l \in T : k <= l
      BY <2>1, MinIsLeast
    <2>3. k \in 0..Len(q) /\ ~Ok(k)
      BY <2>2 DEF T
    <2>4. k # 0
      <3>1. Ok(0)
        BY <1>1, NewIs
      <3> QED  BY <2>3, <3>1
    <2>5. k - 1 \in 0..Len(q) /\ k \in 1..Len(q) /\ k - 1 \notin T
      BY <2>2, <2>3, <2>4
    <2>6. Ok(k - 1)
      BY <2>5 DEF T
    <2>7. q[k] \in Items /\ after[k] = Taken(after[k - 1], q[k], out)
      BY <1>1, <2>5
    <2>8. {q[i] : i \in 1..k} = {q[i] : i \in 1..k - 1} \cup {q[k]}
      <3>1. \A i : i \in 1..k <=> i \in 1..k - 1 \/ i = k
        BY <2>5
      <3> QED  BY <3>1
    <2>9. CASE q[k] \in out
      BY <2>3, <2>6, <2>7, <2>8, <2>9 DEF Taken
    <2>10. CASE q[k] \notin out
      <3>1. after[k] = SortedAdd(after[k - 1], q[k])
        BY <2>7, <2>10 DEF Taken
      <3>2. after[k] \in SortedSets /\ after[k].items = after[k - 1].items \cup {q[k]}
        BY <2>6, <2>7, <3>1, AddIs
      <3> QED  BY <2>3, <2>6, <2>8, <2>10, <3>2
    <2> QED  BY <2>9, <2>10
  <1>3. Ok(Len(q))
    BY <1>2
  <1>4. ToSet(q) = {q[i] : i \in 1..Len(q)}
    BY DEF ToSet
  <1> QED  BY <1>1, <1>3, <1>4

(* What the owner's operations make of its set. *)
LEMMA UnionIs ==
  ASSUME NEW s \in SortedSets, NEW S \in SUBSET Items, NEW q \in SetToSeqs(S)
  PROVE  SortedUnion(s, q) \in SortedSets /\ SortedUnion(s, q).items = s.items \cup S
  <1>1. IsFiniteSet(S)
    BY FS_Subset, ConcurrentSetAssumption DEF ConcurrentSetAssumption
  <1> DEFINE n == Cardinality(S)
  <1>2. n \in Nat /\ q \in [1..n -> S] /\ \A i, j \in 1..n : i # j => q[i] # q[j]
    BY <1>1, FS_CardinalityType DEF SetToSeqs
  <1> HIDE DEF n
  <1>3. q \in Seq(Items) /\ DOMAIN q = 1..n /\ Len(q) = n
    BY <1>2
  <1>4. q \in Surjection(1..n, S)
    <2>1. q \in Injection(1..n, S)
      BY <1>2, Fun_IsInj
    <2> QED  BY <1>1, <1>2, <2>1, FS_Interval, FS_Injection DEF n
  <1>5. ToSet(q) = S
    BY <1>2, <1>3, <1>4 DEF ToSet, Surjection
  <1>6. s.elements \in Seq(Items) /\ ToSet(s.elements) = s.items
    BY SortedSetIs
  <1>7. s.elements \o q \in Seq(Items) /\ ToSet(s.elements \o q) = s.items \cup S
    <2> DEFINE e == s.elements
    <2> HIDE DEF e
    <2>1. /\ e \o q \in Seq(Items) /\ Len(e \o q) = Len(e) + Len(q)
          /\ \A i \in 1..Len(e) + Len(q) : (e \o q)[i] = IF i <= Len(e) THEN e[i] ELSE q[i - Len(e)]
          /\ e \in Seq(Items)
      BY <1>3, <1>6, ConcatProperties DEF e
    <2>2. ToSet(e \o q) = ToSet(e) \cup ToSet(q)
      BY <1>3, <2>1, ToSetConcat
    <2> QED  BY <1>5, <1>6, <2>1, <2>2 DEF e
  <1>8. /\ Collect(s.elements \o q, {}) \in SortedSets
        /\ Collect(s.elements \o q, {}).items = ToSet(s.elements \o q) \ {}
    BY <1>7, CollectIs
  <1> QED  BY <1>7, <1>8 DEF SortedUnion

LEMMA DifferenceIs ==
  ASSUME NEW s \in SortedSets, NEW t \in SortedSets
  PROVE  /\ SortedDifference(s, t) \in SortedSets
         /\ SortedDifference(s, t).items = s.items \ t.items
  BY SortedSetIs, CollectIs DEF SortedDifference

-----------------------------------------------------------------------------
(* The owner's calls: what the answers so far mean *)

(* The questions that are not items. *)
Asking == {"ForEach", "Size", "IsSubset"}

Mixes == [op : Algebra \cup Predicates \cup {None}, c : Sets \cup {None},
          todo : Seq(Items \cup Asking), acc : SortedSets, union : SortedSets,
          verdict : BOOLEAN, wasIn : SUBSET Items, wasOut : SUBSET Items]

(* What is still to be asked; and that the moment in which the other set   *)
(* was S has been noted.                                                   *)
Pending(m) == ToSet(m.todo)
Seen(m, S) == S \subseteq m.wasIn /\ Items \ S \subseteq m.wasOut

(* What the answers so far, kept in m, say of the owner's set s and of the *)
(* states the other was in.                                                *)
UnionPart(m, s) ==
    m.op \in {"union", "symmetric"} /\ "ForEach" \notin Pending(m) =>
        /\ s.items \subseteq m.union.items
        /\ m.union.items \ s.items \subseteq m.wasIn
        /\ Items \ m.union.items \subseteq m.wasOut

CommonPart(m, s) ==
    m.op \in {"intersection", "symmetric"} =>
        /\ m.acc.items \subseteq s.items \cap m.wasIn
        /\ s.items \ (Pending(m) \cup m.acc.items) \subseteq m.wasOut

DifferencePart(m, s) ==
    m.op = "difference" =>
        /\ m.acc.items \subseteq s.items \cap m.wasOut
        /\ s.items \ (Pending(m) \cup m.acc.items) \subseteq m.wasIn

SubsetPart(m, s) ==
    m.op = "subset" => IF m.verdict THEN s.items \ Pending(m) \subseteq m.wasIn
                                    ELSE s.items \cap m.wasOut # {}

SupersetPart(m, s) ==
    m.op = "superset" /\ "IsSubset" \notin Pending(m) =>
        IF m.verdict THEN Items \ s.items \subseteq m.wasOut ELSE m.wasIn \ s.items # {}

Answered(m, s) ==
    /\ UnionPart(m, s) /\ CommonPart(m, s) /\ DifferencePart(m, s)
    /\ SubsetPart(m, s) /\ SupersetPart(m, s)
    /\ ~m.verdict => m.todo = <<>>

(* A call under way. *)
CallInv ==
    /\ mix.op \in Algebra \cup Predicates /\ mix.c \in Sets
    /\ Seen(mix, sets[mix.c])
    /\ Pending(mix) \subseteq ToSet(Questions(mix.op))
    /\ Answered(mix, own)

(* The owner's set is in order, and so is the call that combines it with another, if one *)
(* is under way.                                                                       *)
MixInv ==
    /\ own \in SortedSets /\ mix \in Mixes
    /\ pc[Owner] = "idle" => mix = NoMix
    /\ pc[Owner] # "idle" => CallInv
    /\ pc[Owner] = "answer" => mix.todo # <<>>

(* What is asked for each operation. *)
LEMMA QuestionsAre ==
  ASSUME own \in SortedSets, NEW op \in Algebra \cup Predicates
  PROVE  /\ Questions(op) \in Seq(Items \cup Asking)
         /\ op = "union" => ToSet(Questions(op)) = {"ForEach"}
         /\ op \in {"intersection", "difference"} => ToSet(Questions(op)) = own.items
         /\ op = "symmetric" => ToSet(Questions(op)) = {"ForEach"} \cup own.items
         /\ op = "subset" => ToSet(Questions(op)) = {"Size"} \cup own.items
         /\ op = "superset" => ToSet(Questions(op)) = {"IsSubset"}
  <1> DEFINE A == Items \cup Asking
             e == own.elements
  <1>1. e \in Seq(A) /\ ToSet(e) = own.items
    <2>1. e \in Seq(Items) /\ ToSet(e) = own.items
      BY SortedSetIs
    <2> HIDE DEF e
    <2> QED  BY <2>1
  <1>2. \A q \in Asking : <<q>> \in Seq(A) /\ ToSet(<<q>>) = {q}
    BY DEF ToSet
  <1> HIDE DEF e, A
  <1>3. \A q \in Asking : <<q>> \o e \in Seq(A) /\ ToSet(<<q>> \o e) = {q} \cup own.items
    <2> TAKE q \in Asking
    <2> DEFINE first == <<q>>
    <2>1. first \in Seq(A) /\ ToSet(first) = {q}
      BY <1>2
    <2> HIDE DEF first
    <2>2. first \o e \in Seq(A)
      BY <1>1, <2>1, ConcatProperties
    <2>3. ToSet(first \o e) = ToSet(first) \cup ToSet(e)
      BY <1>1, <2>1, ToSetConcat
    <2> QED  BY <1>1, <2>1, <2>2, <2>3 DEF first
  <1>4. "ForEach" \in Asking /\ "Size" \in Asking /\ "IsSubset" \in Asking
    BY DEF Asking
  <1>5. CASE op = "union"
    BY <1>2, <1>4, <1>5 DEF Questions, A
  <1>6. CASE op \in {"intersection", "difference"}
    <2>1. Questions(op) = e
      BY <1>6 DEF Questions, e
    <2> QED  BY <1>1, <1>6, <2>1 DEF A
  <1>7. CASE op = "symmetric"
    <2>1. Questions(op) = <<"ForEach">> \o e
      BY <1>7 DEF Questions, e
    <2> QED  BY <1>3, <1>4, <1>7, <2>1 DEF A
  <1>8. CASE op = "subset"
    <2>1. Questions(op) = <<"Size">> \o e
      BY <1>8 DEF Questions, e
    <2> QED  BY <1>3, <1>4, <1>8, <2>1 DEF A
  <1>9. CASE op = "superset"
    BY <1>2, <1>4, <1>9 DEF Questions, A
  <1> QED  BY <1>5, <1>6, <1>7, <1>8, <1>9 DEF Algebra, Predicates

LEMMA ItemsAreNoQuestions == Items \cap Asking = {}
  BY ConcurrentSetAssumption DEF ConcurrentSetAssumption, Asking

LEMMA NoMixIs == NoMix \in Mixes
  <1>1. <<>> \in Seq(Items \cup Asking)
    OBVIOUS
  <1> QED  BY <1>1, NewIs DEF NoMix, Mixes

(* What has been seen stays seen; more does no harm. *)
LEMMA MoreSeen ==
  ASSUME NEW m \in Mixes, NEW n \in Mixes, NEW s, Answered(m, s),
         n.op = m.op, n.todo = m.todo, n.acc = m.acc, n.union = m.union, n.verdict = m.verdict,
         m.wasIn \subseteq n.wasIn, m.wasOut \subseteq n.wasOut
  PROVE  Answered(n, s)
  <1>1. Pending(n) = Pending(m)
    BY DEF Pending
  <1>2. UnionPart(n, s)
    BY <1>1 DEF Answered, UnionPart
  <1>3. CommonPart(n, s)
    BY <1>1 DEF Answered, CommonPart
  <1>4. DifferencePart(n, s)
    BY <1>1 DEF Answered, DifferencePart
  <1>5. SubsetPart(n, s)
    BY <1>1 DEF Answered, SubsetPart
  <1>6. SupersetPart(n, s)
    BY <1>1 DEF Answered, SupersetPart
  <1>7. ~n.verdict => n.todo = <<>>
    BY DEF Answered
  <1> QED  BY <1>2, <1>3, <1>4, <1>5, <1>6, <1>7 DEF Answered

LEMMA NotedIs ==
  ASSUME NEW m \in Mixes, NEW S \in SUBSET Items
  PROVE  LET n == Noted(m, S)
         IN  /\ n \in Mixes /\ n.op = m.op /\ n.c = m.c /\ n.todo = m.todo /\ n.acc = m.acc
             /\ n.union = m.union /\ n.verdict = m.verdict
             /\ n.wasIn = m.wasIn \cup S /\ n.wasOut = m.wasOut \cup (Items \ S)
  BY DEF Noted, Mixes

LEMMA MixKeptBy ==
  ASSUME MixInv, UNCHANGED <<sets, own, mix>>, pc'[Owner] = pc[Owner]
  PROVE  MixInv'
  BY DEF MixInv, CallInv, Seen, Pending, Answered, UnionPart, CommonPart, DifferencePart,
         SubsetPart, SupersetPart, Questions

(* A writer may change the set that is asked, between two questions: it is seen so. *)
LEMMA MixWrite ==
  ASSUME LockInv, MixInv, NEW p \in Writers, NEW c \in Sets, Write(p, c)
  PROVE  MixInv'
  <1>1. /\ pc' = [pc EXCEPT ![p] = "idle"] /\ own' = own /\ p # Owner
        /\ pc \in [Callers -> {"idle", "write", "first", "second", "read", "ask", "answer"}]
        /\ Owner \in Callers /\ sets \in [Sets -> SUBSET Items]
    BY ConcurrentSetAssumption DEF Write, goto, ConcurrentSetAssumption, LockInv, KindInv, Callers
  <1>2. pc'[Owner] = pc[Owner]
    BY <1>1
  <1>3. PICK S \in SUBSET Items : /\ sets' = [sets EXCEPT ![c] = S]
                                  /\ mix' = IF mix.c = c THEN Noted(mix, S) ELSE mix
    <2>1. PICK X \in SUBSET Items :
            \E S \in {AddAll(sets[c], X), RemoveAll(sets[c], X), RetainAll(sets[c], X)} :
               /\ sets' = [sets EXCEPT ![c] = S]
               /\ mix' = IF mix.c = c THEN Noted(mix, S) ELSE mix
      BY DEF Write
    <2> QED  BY <1>1, <2>1 DEF AddAll, RemoveAll, RetainAll
  <1>4. own \in SortedSets /\ mix \in Mixes
    BY DEF MixInv
  <1>5. CASE mix.c # c
    <2>1. mix' = mix /\ (mix.c \in Sets => sets'[mix.c] = sets[mix.c])
      BY <1>1, <1>3, <1>5
    <2>2. CallInv => CallInv'
      BY <1>1, <2>1 DEF CallInv, Seen, Pending, Answered, UnionPart, CommonPart,
         DifferencePart, SubsetPart, SupersetPart, Questions
    <2> QED  BY <1>1, <1>2, <2>1, <2>2 DEF MixInv
  <1>6. CASE mix.c = c
    <2>1. mix' = Noted(mix, S)
      BY <1>3, <1>6
    <2>2. pc[Owner] # "idle"
      BY <1>6, ConcurrentSetAssumption DEF MixInv, NoMix, ConcurrentSetAssumption
    <2>3. /\ mix' \in Mixes /\ mix'.op = mix.op /\ mix'.c = mix.c /\ mix'.todo = mix.todo
          /\ mix'.acc = mix.acc /\ mix'.union = mix.union /\ mix'.verdict = mix.verdict
          /\ mix'.wasIn = mix.wasIn \cup S /\ mix'.wasOut = mix.wasOut \cup (Items \ S)
      BY <1>4, <2>1, NotedIs
    <2>4. CallInv
      BY <2>2 DEF MixInv
    <2>5. Answered(mix, own)
      BY <2>4 DEF CallInv
    <2>6. Answered(mix', own)
      BY <1>4, <2>3, <2>5, MoreSeen
    <2>7. sets'[mix'.c] = S
      BY <1>1, <1>3, <1>6, <2>3
    <2>8. Seen(mix', sets'[mix'.c])
      BY <2>3, <2>7 DEF Seen
    <2>9. Pending(mix') \subseteq ToSet(Questions(mix.op)) /\ Questions(mix.op)' = Questions(mix.op)
      BY <1>1, <2>3, <2>4 DEF CallInv, Pending, Questions
    <2>10. CallInv'
      BY <1>1, <2>3, <2>4, <2>6, <2>8, <2>9 DEF CallInv, Seen, Pending, Answered, UnionPart,
         CommonPart, DifferencePart, SubsetPart, SupersetPart, Questions
    <2> QED  BY <1>1, <1>2, <1>4, <2>2, <2>3, <2>10 DEF MixInv
  <1> QED  BY <1>5, <1>6

(* The owner's steps. *)
LEMMA MixOwnUpdate ==
  ASSUME MixInv, OwnUpdate
  PROVE  MixInv'
  <1>1. own \in SortedSets /\ pc[Owner] = "idle" /\ UNCHANGED <<pc, mix>>
    BY DEF MixInv, OwnUpdate
  <1>2. own' \in SortedSets
    <2>1. ASSUME NEW x \in Items, own' \in {SortedAdd(own, x), SortedRemove(own, x)}
          PROVE  own' \in SortedSets
      BY <1>1, <2>1, AddIs, RemoveIs
    <2>2. ASSUME NEW X \in SUBSET Items,
                 own' \in SortedAddAll(own, X) \cup SortedRemoveAll(own, X)
                            \cup SortedRetainAll(own, X)
          PROVE  own' \in SortedSets
      <3>1. own.items \in SUBSET Items
        BY <1>1, SortedSetIs
      <3>2. \/ own' = own \/ own' \in Rebuilt(own.items \cup X)
            \/ own' \in Rebuilt(own.items \ X) \/ own' \in Rebuilt(own.items \cap X)
        BY <2>2 DEF SortedAddAll, SortedRemoveAll, SortedRetainAll
      <3>3. \A S \in SUBSET Items : own' \in Rebuilt(S) => own' \in SortedSets
        BY RebuiltIs
      <3>4. /\ own.items \cup X \in SUBSET Items /\ own.items \ X \in SUBSET Items
            /\ own.items \cap X \in SUBSET Items
        BY <3>1
      <3> QED  BY <1>1, <3>2, <3>3, <3>4
    <2> QED  BY <2>1, <2>2, NewIs DEF OwnUpdate
  <1> QED  BY <1>1, <1>2 DEF MixInv

LEMMA MixCalled ==
  ASSUME LockInv, MixInv, NEW op \in Algebra \cup Predicates, NEW c \in Sets, MixCall(op, c)
  PROVE  MixInv'
  <1> DEFINE m == [NoMix EXCEPT !.op = op, !.c = c, !.todo = Questions(op)]
             S == sets[c]
  <1>1. /\ pc' = [pc EXCEPT ![Owner] = "ask"] /\ UNCHANGED <<own, sets>>
        /\ mix' = Noted(m, S) /\ S \in SUBSET Items
        /\ pc \in [Callers -> {"idle", "write", "first", "second", "read", "ask", "answer"}]
        /\ Owner \in Callers
    BY DEF MixCall, goto, LockInv, KindInv, Callers
  <1>2. pc'[Owner] = "ask" /\ own \in SortedSets
    BY <1>1 DEF MixInv
  <1>3. Questions(op) \in Seq(Items \cup Asking) /\ own.items \subseteq Items
    BY <1>2, QuestionsAre, SortedSetIs
  <1>4. /\ m \in Mixes /\ m.op = op /\ m.c = c /\ m.todo = Questions(op) /\ m.acc = NewSorted
        /\ m.verdict = TRUE
    BY <1>3, NoMixIs DEF Mixes, NoMix
  <1> HIDE DEF m, S
  <1>5. /\ mix' \in Mixes /\ mix'.op = op /\ mix'.c = c /\ mix'.todo = Questions(op)
        /\ mix'.acc = NewSorted /\ mix'.verdict = TRUE
        /\ mix'.wasIn = m.wasIn \cup S /\ mix'.wasOut = m.wasOut \cup (Items \ S)
    BY <1>1, <1>4, NotedIs
  <1>6. Answered(mix', own)
    <2>1. Pending(mix') = ToSet(Questions(op)) /\ NewSorted.items = {}
      BY <1>5, NewIs DEF Pending
    <2>2. UnionPart(mix', own)
      BY <1>2, <1>5, <2>1, QuestionsAre DEF UnionPart
    <2>3. CommonPart(mix', own) /\ DifferencePart(mix', own)
      BY <1>2, <1>5, <2>1, QuestionsAre DEF CommonPart, DifferencePart
    <2>4. SubsetPart(mix', own) /\ SupersetPart(mix', own)
      BY <1>2, <1>5, <2>1, QuestionsAre DEF SubsetPart, SupersetPart
    <2> QED  BY <1>5, <2>2, <2>3, <2>4 DEF Answered
  <1>7. Seen(mix', S) /\ sets'[mix'.c] = S
    BY <1>1, <1>5 DEF Seen, S
  <1>8. CallInv'
    BY <1>1, <1>5, <1>6, <1>7 DEF CallInv, Seen, Pending, Answered, UnionPart, CommonPart,
       DifferencePart, SubsetPart, SupersetPart, Questions
  <1> QED  BY <1>1, <1>2, <1>5, <1>8 DEF MixInv

LEMMA MixAsk ==
  ASSUME LockInv, MixInv, Ask
  PROVE  MixInv'
  <1>1. /\ pc' = [pc EXCEPT ![Owner] = "answer"] /\ UNCHANGED <<own, sets, mix>>
        /\ pc[Owner] = "ask" /\ mix.todo # <<>> /\ Owner \in Callers
        /\ pc \in [Callers -> {"idle", "write", "first", "second", "read", "ask", "answer"}]
    BY DEF Ask, goto, LockInv, KindInv, ownVars, readVars, Callers
  <1>2. pc'[Owner] = "answer"
    BY <1>1
  <1>3. CallInv'
    BY <1>1 DEF MixInv, CallInv, Seen, Pending, Answered, UnionPart, CommonPart,
       DifferencePart, SubsetPart, SupersetPart, Questions
  <1> QED  BY <1>1, <1>2, <1>3 DEF MixInv

(* The question that is answered, and those that are left. *)
LEMMA TailSet ==
  ASSUME NEW A, NEW q \in Seq(A), q # <<>>
  PROVE  /\ Head(q) \in A /\ Tail(q) \in Seq(A)
         /\ ToSet(q) = {Head(q)} \cup ToSet(Tail(q))
  <1>1. /\ Head(q) \in A /\ Tail(q) \in Seq(A) /\ Len(Tail(q)) = Len(q) - 1
        /\ \A i \in 1..Len(Tail(q)) : Tail(q)[i] = q[i + 1]
        /\ Head(q) = q[1] /\ Len(q) \in Nat /\ Len(q) # 0 /\ DOMAIN q = 1..Len(q)
    BY HeadTailProperties
  <1> DEFINE t == Tail(q)
             h == Head(q)
  <1>2. /\ DOMAIN t = 1..Len(q) - 1 /\ h = q[1]
        /\ \A i \in 1..Len(q) - 1 : t[i] = q[i + 1]
    BY <1>1
  <1> HIDE DEF t, h
  <1>3. ASSUME NEW y \in ToSet(q) PROVE y = h \/ y \in ToSet(t)
    <2>1. PICK i \in 1..Len(q) : y = q[i]
      BY <1>1 DEF ToSet
    <2>2. CASE i = 1
      BY <1>2, <2>1, <2>2
    <2>3. CASE i # 1
      <3>1. i - 1 \in 1..Len(q) - 1 /\ (i - 1) + 1 = i
        BY <1>1, <2>3
      <3>2. i - 1 \in DOMAIN t /\ t[i - 1] = y
        BY <1>2, <2>1, <3>1
      <3> QED  BY <3>2 DEF ToSet
    <2> QED  BY <2>2, <2>3
  <1>4. ASSUME NEW y \in ToSet(t) PROVE y \in ToSet(q)
    <2>1. PICK i \in 1..Len(q) - 1 : y = t[i]
      BY <1>2 DEF ToSet
    <2>2. i + 1 \in DOMAIN q /\ q[i + 1] = y
      BY <1>1, <1>2, <2>1
    <2> QED  BY <2>2 DEF ToSet
  <1>5. h \in ToSet(q)
    <2>1. 1 \in DOMAIN q
      BY <1>1
    <2> QED  BY <1>2, <2>1 DEF ToSet
  <1>6. ToSet(q) = {h} \cup ToSet(t)
    BY <1>3, <1>4, <1>5
  <1> QED  BY <1>1, <1>6 DEF h, t

(* An answer to the first of the questions that are left, q, when the other *)
(* set is S.  Each kind of question leaves what the answers mean.           *)
Answering(q, S) ==
    /\ own \in SortedSets /\ mix \in Mixes /\ mix.op \in Algebra \cup Predicates
    /\ S \in SUBSET Items /\ Seen(mix, S)
    /\ Pending(mix) \subseteq ToSet(Questions(mix.op))
    /\ Answered(mix, own)
    /\ mix.todo # <<>> /\ q = Head(mix.todo)

AnswerOk(m) ==
    /\ m \in Mixes /\ m.op = mix.op /\ m.c = mix.c
    /\ m.wasIn = mix.wasIn /\ m.wasOut = mix.wasOut
    /\ Pending(m) \subseteq Pending(mix) /\ Answered(m, own)

LEMMA AnsweringIs ==
  ASSUME NEW q, NEW S, Answering(q, S)
  PROVE  /\ q \in Items \cup Asking /\ Tail(mix.todo) \in Seq(Items \cup Asking)
         /\ Pending(mix) = {q} \cup ToSet(Tail(mix.todo))
         /\ q \in ToSet(Questions(mix.op)) /\ mix.verdict = TRUE
         /\ own.items \subseteq Items
  <1>1. mix.todo \in Seq(Items \cup Asking) /\ mix.todo # <<>> /\ q = Head(mix.todo)
    BY DEF Answering, Mixes
  <1>2. mix.verdict \in BOOLEAN
    BY DEF Answering, Mixes
  <1> QED  BY <1>1, <1>2, TailSet, SortedSetIs DEF Answering, Answered, Pending

(* The other set's contents, as they are copied. *)
LEMMA ForEachAnswered ==
  ASSUME NEW q, NEW S, Answering(q, S), q = "ForEach", NEW m \in AllOf(S)
  PROVE  AnswerOk(m)
  <1>1. PICK e \in SetToSeqs(S) :
          m = [mix EXCEPT !.todo = Tail(@), !.union = SortedUnion(own, e)]
    BY DEF AllOf
  <1>2. /\ SortedUnion(own, e) \in SortedSets
        /\ SortedUnion(own, e).items = own.items \cup S
    BY UnionIs DEF Answering
  <1>3. /\ m \in Mixes /\ m.op = mix.op /\ m.c = mix.c /\ m.acc = mix.acc
        /\ m.wasIn = mix.wasIn /\ m.wasOut = mix.wasOut /\ m.verdict = TRUE
        /\ m.todo = Tail(mix.todo) /\ m.union.items = own.items \cup S
    BY <1>1, <1>2, AnsweringIs DEF Answering, Mixes
  <1>4. mix.op \in {"union", "symmetric"} /\ q \notin own.items /\ q # "IsSubset"
    <2>1. q \in Asking /\ q # "Size" /\ q # "IsSubset" /\ q \notin own.items
      BY AnsweringIs, ItemsAreNoQuestions DEF Asking
    <2> QED  BY <2>1, AnsweringIs, QuestionsAre DEF Answering, Algebra, Predicates
  <1>5. Pending(mix) = {q} \cup Pending(m) /\ own.items \subseteq Items
    BY <1>3, AnsweringIs DEF Pending
  <1>6. UnionPart(m, own)
    BY <1>3, <1>5 DEF UnionPart, Answering, Seen
  <1>7. CommonPart(m, own)
    BY <1>3, <1>4, <1>5 DEF CommonPart, Answering, Answered
  <1>8. DifferencePart(m, own) /\ SubsetPart(m, own) /\ SupersetPart(m, own)
    BY <1>3, <1>4 DEF DifferencePart, SubsetPart, SupersetPart
  <1> QED  BY <1>3, <1>5, <1>6, <1>7, <1>8 DEF AnswerOk, Answered

LEMMA VerdictIs ==
  ASSUME NEW q, NEW S, Answering(q, S), NEW b \in BOOLEAN
  PROVE  LET m == Verdict(b)
         IN  /\ m \in Mixes /\ m.op = mix.op /\ m.c = mix.c /\ m.acc = mix.acc
             /\ m.union = mix.union /\ m.wasIn = mix.wasIn /\ m.wasOut = mix.wasOut
             /\ m.verdict = b /\ m.todo = IF b THEN Tail(mix.todo) ELSE <<>>
             /\ b => Pending(mix) = {q} \cup Pending(m)
             /\ Pending(m) \subseteq Pending(mix)
  <1> DEFINE m == Verdict(b)
             t == IF b THEN Tail(mix.todo) ELSE <<>>
  <1>1. m = [mix EXCEPT !.todo = t, !.verdict = b]
    BY DEF Verdict
  <1>2. t \in Seq(Items \cup Asking)
    <2>1. Tail(mix.todo) \in Seq(Items \cup Asking)
      BY AnsweringIs
    <2>2. <<>> \in Seq(Items \cup Asking)
      OBVIOUS
    <2> QED  BY <2>1, <2>2
  <1>3. ToSet(<<>>) = {}
    BY DEF ToSet
  <1>4. b => Pending(mix) = {q} \cup ToSet(t)
    BY AnsweringIs
  <1>5. ToSet(t) \subseteq Pending(mix)
    BY <1>3, <1>4
  <1>6. mix \in Mixes
    BY DEF Answering
  <1> HIDE DEF m, t
  <1>7. /\ m \in Mixes /\ m.op = mix.op /\ m.c = mix.c /\ m.acc = mix.acc
        /\ m.union = mix.union /\ m.wasIn = mix.wasIn /\ m.wasOut = mix.wasOut
        /\ m.verdict = b /\ m.todo = t
    BY <1>1, <1>2, <1>6 DEF Mixes
  <1>8. Pending(m) = ToSet(t)
    BY <1>7 DEF Pending
  <1> QED  BY <1>4, <1>5, <1>7, <1>8 DEF m, t

(* An answer that decides: the subset test's, and the other set's own. *)
LEMMA SubsetAnswered ==
  ASSUME NEW q, NEW S, Answering(q, S), mix.op = "subset", NEW b \in BOOLEAN,
         b => (q \in own.items => q \in S), ~b => \E x \in own.items : x \notin S
  PROVE  AnswerOk(Verdict(b))
  <1> DEFINE m == Verdict(b)
  <1>1. /\ m \in Mixes /\ m.op = mix.op /\ m.c = mix.c
        /\ m.wasIn = mix.wasIn /\ m.wasOut = mix.wasOut /\ m.verdict = b
        /\ (b \/ m.todo = <<>>) /\ (b => Pending(mix) = {q} \cup Pending(m))
        /\ Pending(m) \subseteq Pending(mix)
    BY VerdictIs
  <1> HIDE DEF m
  <1>2. SubsetPart(m, own)
    <2>1. CASE b
      <3>1. own.items \ Pending(mix) \subseteq mix.wasIn
        BY AnsweringIs DEF Answering, Answered, SubsetPart
      <3> QED  BY <1>1, <2>1, <3>1 DEF SubsetPart, Answering, Seen
    <2>2. CASE ~b
      <3>1. PICK x \in own.items : x \notin S
        BY <2>2
      <3>2. x \in mix.wasOut
        BY <3>1, AnsweringIs DEF Answering, Seen
      <3> QED  BY <1>1, <2>2, <3>1, <3>2 DEF SubsetPart
    <2> QED  BY <2>1, <2>2
  <1>3. UnionPart(m, own) /\ CommonPart(m, own) /\ DifferencePart(m, own) /\ SupersetPart(m, own)
    BY <1>1 DEF UnionPart, CommonPart, DifferencePart, SupersetPart
  <1> QED  BY <1>1, <1>2, <1>3 DEF AnswerOk, Answered, m

LEMMA IsSubsetAnswered ==
  ASSUME NEW q, NEW S, Answering(q, S), mix.op = "superset", NEW b \in BOOLEAN,
         b = (S \subseteq own.items)
  PROVE  AnswerOk(Verdict(b))
  <1> DEFINE m == Verdict(b)
  <1>1. /\ m \in Mixes /\ m.op = mix.op /\ m.c = mix.c
        /\ m.wasIn = mix.wasIn /\ m.wasOut = mix.wasOut /\ m.verdict = b
        /\ (b \/ m.todo = <<>>) /\ Pending(m) \subseteq Pending(mix)
    BY VerdictIs
  <1> HIDE DEF m
  <1>2. SupersetPart(m, own)
    <2>1. CASE b
      BY <1>1, <2>1 DEF SupersetPart, Answering, Seen
    <2>2. CASE ~b
      <3>1. PICK x \in S : x \notin own.items
        BY <2>2
      <3>2. x \in mix.wasIn
        BY <3>1 DEF Answering, Seen
      <3> QED  BY <1>1, <2>2, <3>1, <3>2 DEF SupersetPart
    <2> QED  BY <2>1, <2>2
  <1>3. UnionPart(m, own) /\ CommonPart(m, own) /\ DifferencePart(m, own) /\ SubsetPart(m, own)
    BY <1>1 DEF UnionPart, CommonPart, DifferencePart, SubsetPart
  <1> QED  BY <1>1, <1>2, <1>3 DEF AnswerOk, Answered, m

(* An item's: it joins the result or not. *)
LEMMA ItemAnswered ==
  ASSUME NEW q, NEW S, Answering(q, S), q \in own.items,
         mix.op \in {"intersection", "symmetric", "difference"},
         NEW acc, acc = IF (q \in S) = (mix.op # "difference") THEN SortedAdd(mix.acc, q)
                                                                 ELSE mix.acc,
         NEW m, m = [mix EXCEPT !.todo = Tail(@), !.acc = acc]
  PROVE  AnswerOk(m)
  <1>1. mix \in Mixes /\ mix.acc \in SortedSets /\ q \in Items
    BY AnsweringIs DEF Answering, Mixes
  <1>2. /\ acc \in SortedSets
        /\ acc.items = IF (q \in S) = (mix.op # "difference") THEN mix.acc.items \cup {q}
                                                             ELSE mix.acc.items
    BY <1>1, AddIs
  <1>3. /\ m \in Mixes /\ m.op = mix.op /\ m.c = mix.c /\ m.acc = acc
        /\ m.union = mix.union /\ m.wasIn = mix.wasIn /\ m.wasOut = mix.wasOut
        /\ m.verdict = mix.verdict /\ m.todo = Tail(mix.todo)
    BY <1>1, <1>2, AnsweringIs DEF Mixes
  <1>4. /\ Pending(mix) = {q} \cup Pending(m) /\ own.items \subseteq Items
        /\ mix.verdict = TRUE /\ q # "ForEach"
    BY <1>1, <1>3, AnsweringIs, ItemsAreNoQuestions DEF Pending, Asking
  <1>5. q \in S => q \in mix.wasIn
    BY DEF Answering, Seen
  <1>6. q \notin S => q \in mix.wasOut
    BY <1>1 DEF Answering, Seen
  <1>7. CommonPart(m, own)
    <2> SUFFICES ASSUME m.op \in {"intersection", "symmetric"}
                 PROVE  /\ m.acc.items \subseteq own.items \cap m.wasIn
                        /\ own.items \ (Pending(m) \cup m.acc.items) \subseteq m.wasOut
      BY DEF CommonPart
    <2>1. /\ mix.acc.items \subseteq own.items \cap mix.wasIn
          /\ own.items \ (Pending(mix) \cup mix.acc.items) \subseteq mix.wasOut
      BY <1>3 DEF Answering, Answered, CommonPart
    <2>2. acc.items = IF q \in S THEN mix.acc.items \cup {q} ELSE mix.acc.items
      BY <1>2, <1>3
    <2> QED  BY <1>3, <1>4, <1>5, <1>6, <2>1, <2>2
  <1>8. DifferencePart(m, own)
    <2> SUFFICES ASSUME m.op = "difference"
                 PROVE  /\ m.acc.items \subseteq own.items \cap m.wasOut
                        /\ own.items \ (Pending(m) \cup m.acc.items) \subseteq m.wasIn
      BY DEF DifferencePart
    <2>1. /\ mix.acc.items \subseteq own.items \cap mix.wasOut
          /\ own.items \ (Pending(mix) \cup mix.acc.items) \subseteq mix.wasIn
      BY <1>3 DEF Answering, Answered, DifferencePart
    <2>2. acc.items = IF q \in S THEN mix.acc.items ELSE mix.acc.items \cup {q}
      BY <1>2, <1>3
    <2> QED  BY <1>3, <1>4, <1>5, <1>6, <2>1, <2>2
  <1>9. UnionPart(m, own)
    BY <1>3, <1>4 DEF Answering, Answered, UnionPart
  <1>10. SubsetPart(m, own) /\ SupersetPart(m, own)
    BY <1>3 DEF SubsetPart, SupersetPart
  <1> QED  BY <1>3, <1>4, <1>7, <1>8, <1>9, <1>10 DEF AnswerOk, Answered

(* other.Contains, for each of the operations that ask it. *)
LEMMA ContainedAnswered ==
  ASSUME NEW q, NEW S, Answering(q, S), q \in Items
  PROVE  AnswerOk(Contained(q, S))
  <1>1. q \in own.items /\ mix.op \notin {"union", "superset"} /\ own \in SortedSets
    <2>1. own \in SortedSets /\ q \in ToSet(Questions(mix.op))
      BY AnsweringIs DEF Answering
    <2>2. q \notin {"ForEach", "Size", "IsSubset"}
      BY ItemsAreNoQuestions DEF Asking
    <2>3. mix.op \in Algebra \cup Predicates
      BY AnsweringIs DEF Answering
    <2> QED  BY <2>1, <2>2, <2>3, QuestionsAre DEF Algebra, Predicates
  <1>2. CASE mix.op = "subset"
    <2> DEFINE b == q \in S
    <2>1. Contained(q, S) = Verdict(b)
      BY <1>2 DEF Contained
    <2>2. /\ b \in BOOLEAN
          /\ b => (q \in own.items => q \in S)
          /\ ~b => \E x \in own.items : x \notin S
      BY <1>1
    <2> HIDE DEF b
    <2> QED  BY <1>2, <2>1, <2>2, SubsetAnswered
  <1>3. CASE mix.op = "difference"
    <2> DEFINE acc == IF q \in S THEN mix.acc ELSE SortedAdd(mix.acc, q)
               m == [mix EXCEPT !.todo = Tail(@), !.acc = acc]
    <2>1. Contained(q, S) = m
      BY <1>3 DEF Contained, Answering, Mixes
    <2>2. acc = IF (q \in S) = (mix.op # "difference") THEN SortedAdd(mix.acc, q) ELSE mix.acc
      BY <1>3
    <2> HIDE DEF acc
    <2>3. AnswerOk(m)
      BY <1>1, <1>3, <2>2, ItemAnswered
    <2> QED  BY <2>1, <2>3
  <1>4. CASE mix.op \in {"intersection", "symmetric"}
    <2> DEFINE acc == IF q \in S THEN SortedAdd(mix.acc, q) ELSE mix.acc
               m == [mix EXCEPT !.todo = Tail(@), !.acc = acc]
    <2>1. Contained(q, S) = m
      BY <1>4 DEF Contained, Answering, Mixes
    <2>2. acc = IF (q \in S) = (mix.op # "difference") THEN SortedAdd(mix.acc, q) ELSE mix.acc
      BY <1>4
    <2> HIDE DEF acc
    <2>3. AnswerOk(m)
      BY <1>1, <1>4, <2>2, ItemAnswered
    <2> QED  BY <2>1, <2>3
  <1> QED  BY <1>1, <1>2, <1>3, <1>4 DEF Answering, Algebra, Predicates

LEMMA AnyAnswered ==
  ASSUME NEW q, NEW S, Answering(q, S),
         NEW m \in CASE q = "ForEach"  -> AllOf(S)
                     [] q = "Size"     -> {Verdict(~(Cardinality(own.items) > Cardinality(S)))}
                     [] q = "IsSubset" -> {Verdict(HashIsSubset(S, own.items))}
                     [] OTHER          -> {Contained(q, S)}
  PROVE  AnswerOk(m)
  <1> DEFINE small == ~(Cardinality(own.items) > Cardinality(S))
             isSub == HashIsSubset(S, own.items)
  <1>1. /\ own \in SortedSets /\ own.items \in SUBSET Items /\ S \in SUBSET Items
        /\ mix.op \in Algebra \cup Predicates /\ q \in ToSet(Questions(mix.op))
        /\ q \in Items \cup Asking
    BY AnsweringIs DEF Answering
  <1>2. q \in Asking => q \notin own.items
    BY <1>1, ItemsAreNoQuestions
  <1>3. /\ q = "ForEach" => m \in AllOf(S)
        /\ q = "Size" => m = Verdict(small)
        /\ q = "IsSubset" => m = Verdict(isSub)
        /\ q \notin Asking => m = Contained(q, S)
    <2> HIDE DEF small, isSub
    <2>1. m \in CASE q = "ForEach"  -> AllOf(S)
                  [] q = "Size"     -> {Verdict(small)}
                  [] q = "IsSubset" -> {Verdict(isSub)}
                  [] OTHER          -> {Contained(q, S)}
      BY DEF small, isSub
    <2> QED  BY <2>1 DEF Asking
  <1>4. CASE q = "ForEach"
    BY <1>3, <1>4, ForEachAnswered
  <1>5. CASE q = "Size"
    <2>1. q \in Asking
      BY <1>5 DEF Asking
    <2>2. mix.op = "subset"
      BY <1>1, <1>2, <1>5, <2>1, QuestionsAre DEF Algebra, Predicates
    <2>3. ~small => \E x \in own.items : x \notin S
      <3> SUFFICES ASSUME own.items \subseteq S PROVE small
        OBVIOUS
      <3>1. IsFiniteSet(S)
        BY <1>1, FS_Subset, ConcurrentSetAssumption DEF ConcurrentSetAssumption
      <3>2. /\ IsFiniteSet(own.items) /\ Cardinality(own.items) <= Cardinality(S)
        BY <3>1, FS_Subset
      <3>3. Cardinality(own.items) \in Nat /\ Cardinality(S) \in Nat
        BY <3>1, <3>2, FS_CardinalityType
      <3> QED  BY <3>2, <3>3
    <2>4. small \in BOOLEAN /\ q \notin own.items
      BY <1>2, <2>1
    <2> HIDE DEF small
    <2> QED  BY <1>3, <1>5, <2>2, <2>3, <2>4, SubsetAnswered
  <1>6. CASE q = "IsSubset"
    <2>1. q \in Asking
      BY <1>6 DEF Asking
    <2>2. mix.op = "superset"
      BY <1>1, <1>2, <1>6, <2>1, QuestionsAre DEF Algebra, Predicates
    <2>3. isSub = (S \subseteq own.items) /\ isSub \in BOOLEAN
      BY <1>1, SubsetTest
    <2> HIDE DEF isSub
    <2> QED  BY <1>3, <1>6, <2>2, <2>3, IsSubsetAnswered
  <1>7. CASE q \notin Asking
    BY <1>1, <1>3, <1>7, ContainedAnswered
  <1> QED  BY <1>4, <1>5, <1>6, <1>7 DEF Asking

LEMMA MixAnswer ==
  ASSUME LockInv, MixInv, Answer
  PROVE  MixInv'
  <1> DEFINE q == Head(mix.todo)
             S == sets[mix.c]
  <1>1. /\ pc' = [pc EXCEPT ![Owner] = "ask"] /\ UNCHANGED <<own, sets>>
        /\ pc[Owner] = "answer" /\ Owner \in Callers /\ sets \in [Sets -> SUBSET Items]
        /\ pc \in [Callers -> {"idle", "write", "first", "second", "read", "ask", "answer"}]
    BY DEF Answer, goto, LockInv, KindInv, readVars, Callers
  <1>2. CallInv /\ mix.todo # <<>>
    BY <1>1 DEF MixInv
  <1>3. Answering(q, S)
    BY <1>1, <1>2 DEF Answering, CallInv, MixInv
  <1>4. mix' \in CASE q = "ForEach"  -> AllOf(S)
                   [] q = "Size"     -> {Verdict(~(Cardinality(own.items) > Cardinality(S)))}
                   [] q = "IsSubset" -> {Verdict(HashIsSubset(S, own.items))}
                   [] OTHER          -> {Contained(q, S)}
    BY DEF Answer
  <1> HIDE DEF q
  <1>5. AnswerOk(mix')
    <2> HIDE DEF S
    <2> QED  BY <1>3, <1>4, AnyAnswered
  <1>6. CallInv'
    <2>1. mix'.op = mix.op /\ mix'.c = mix.c /\ Seen(mix', sets'[mix'.c])
      BY <1>1, <1>2, <1>5 DEF AnswerOk, CallInv, Seen
    <2>2. Pending(mix') \subseteq ToSet(Questions(mix.op)) /\ Answered(mix', own)
      BY <1>2, <1>5 DEF AnswerOk, CallInv
    <2> QED  BY <1>1, <1>2, <2>1, <2>2 DEF CallInv, Seen, Pending, Answered, UnionPart, CommonPart,
             DifferencePart, SubsetPart, SupersetPart, Questions
  <1>7. mix' \in Mixes /\ pc'[Owner] = "ask"
    BY <1>1, <1>5 DEF AnswerOk
  <1> QED  BY <1>1, <1>6, <1>7 DEF MixInv

LEMMA MixReturned ==
  ASSUME LockInv, MixInv, MixReturn
  PROVE  MixInv'
  <1>1. /\ pc' = [pc EXCEPT ![Owner] = "idle"] /\ mix' = NoMix
        /\ own' \in {own} \cup (IF mix.op \in Algebra THEN {MixResult} ELSE {})
        /\ Owner \in Callers
        /\ pc \in [Callers -> {"idle", "write", "first", "second", "read", "ask", "answer"}]
    BY DEF MixReturn, goto, LockInv, KindInv, Callers
  <1>2. own \in SortedSets /\ mix.acc \in SortedSets /\ mix.union \in SortedSets
    BY DEF MixInv, Mixes
  <1>3. SortedDifference(mix.union, mix.acc) \in SortedSets
    BY <1>2, DifferenceIs
  <1>4. MixResult \in SortedSets
    BY <1>2, <1>3 DEF MixResult
  <1>5. own' \in SortedSets /\ pc'[Owner] = "idle"
    BY <1>1, <1>2, <1>4
  <1> QED  BY <1>1, <1>5, NoMixIs DEF MixInv

(* Everybody's steps together. *)
LEMMA OthersKeepMix ==
  ASSUME LockInv, NEW p \in Readers \cup Writers, NEW l, goto(p, l)
  PROVE  pc'[Owner] = pc[Owner]
  BY ConcurrentSetAssumption DEF ConcurrentSetAssumption, LockInv, KindInv, goto, Callers

LEMMA MixKept == LockInv /\ MixInv /\ [Next]_vars => MixInv'
  <1> SUFFICES ASSUME LockInv, MixInv, [Next]_vars  PROVE MixInv'
    OBVIOUS
  <1>1. ASSUME NEW p \in Writers, NEW c \in Sets, WriteCall(p, c) \/ Write(p, c)
        PROVE  MixInv'
    <2>1. CASE WriteCall(p, c)
      <3>1. UNCHANGED <<sets, own, mix>> /\ goto(p, "write")
        BY <2>1 DEF WriteCall, ownVars
      <3> QED  BY <3>1, OthersKeepMix, MixKeptBy
    <2> QED  BY <1>1, <2>1, MixWrite
  <1>2. ASSUME NEW p \in Readers, NEW t \in Pairs, BinaryCall(p, t[1], t[2])
        PROVE  MixInv'
    <2>1. UNCHANGED <<sets, own, mix>> /\ goto(p, "first")
      BY <1>2 DEF BinaryCall, ownVars
    <2> QED  BY <2>1, OthersKeepMix, MixKeptBy
  <1>3. ASSUME NEW p \in Readers, ReaderStep(p)  PROVE MixInv'
    <2>1. UNCHANGED <<sets, own, mix>> /\ \E l : goto(p, l)
      BY <1>3 DEF ReaderStep, SecondLock, ReadFirst, BinaryReturn, ownVars
    <2> QED  BY <2>1, OthersKeepMix, MixKeptBy
  <1>4. CASE OwnUpdate
    BY <1>4, MixOwnUpdate
  <1>5. ASSUME NEW op \in Algebra \cup Predicates, NEW c \in Sets, MixCall(op, c)
        PROVE  MixInv'
    BY <1>5, MixCalled
  <1>6. CASE OwnerStep
    BY <1>6, MixAsk, MixAnswer, MixReturned DEF OwnerStep
  <1>7. CASE UNCHANGED vars
    BY <1>7, MixKeptBy DEF vars, ownVars
  <1> QED  BY <1>1, <1>2, <1>3, <1>4, <1>5, <1>6, <1>7 DEF Next

LEMMA MixInit == Init => MixInv
  <1> SUFFICES ASSUME Init  PROVE MixInv
    OBVIOUS
  <1>1. own = NewSorted /\ mix = NoMix /\ pc[Owner] = "idle"
    BY DEF Init, Callers
  <1> QED  BY <1>1, NewIs, NoMixIs DEF MixInv

(* The locks, the owner's set and its call are as LockInv and MixInv say    *)
(* after any steps of any goroutines: what the other two theorems rest on   *)
(* (src/set/sortedset.go, the operations that take another set).            *)
THEOREM CallsProved == Spec => [](LockInv /\ MixInv)
  <1> QED  BY LocksProved, MixInit, MixKept, PTL DEF Spec

(* Types; a goroutine has a lock, or waits for it, exactly while its call  *)
(* needs one (src/set/concurrentset.go, every method's Lock, RLock and      *)
(* deferred unlock); and the map and the slice of a SortedSet hold the same *)
(* items, each once and in order, whatever sequence of operations and       *)
(* half-built results has led there (src/set/sortedset.go, Add to           *)
(* SymmetricDifference).                                                    *)
THEOREM TypesProved == Spec => []TypeOK
  <1>1. LockInv /\ MixInv => TypeOK
    <2> SUFFICES ASSUME LockInv, MixInv  PROVE TypeOK
      OBVIOUS
    <2>1. SortedAgrees
      <3>1. own \in SortedSets /\ mix.acc \in SortedSets /\ mix.union \in SortedSets
        BY DEF MixInv, Mixes
      <3> QED  BY <3>1 DEF SortedAgrees, SortedSets
    <2>2. own.items \subseteq Items /\ mix.c \in Sets \cup {None}
      BY SortedSetIs DEF MixInv, Mixes
    <2>3. \A p \in Writers : (pc[p] = "write") = (\E c \in Sets : writer[c] = p)
      BY ConcurrentSetAssumption DEF LockInv, WriterInv, KindInv, ConcurrentSetAssumption
    <2>4. UNION {holding[c] \cup blocked[c] : c \in Sets} = UNION {Owed(p) : p \in Callers}
      <3>1. ASSUME NEW c \in Sets, NEW t \in holding[c] \cup blocked[c]
            PROVE  \E p \in Callers : t \in Owed(p)
        <4>1. t \in Tokens /\ t \in Held(c)
          BY DEF LockInv, KindInv, Held
        <4>2. CASE t = <<Owner, 1>>
          <5>1. Owner \in Callers /\ pc[Owner] = "answer"
            BY <4>1, <4>2 DEF LockInv, OwnerInv, Callers
          <5> QED  BY <4>2, <5>1 DEF Owed
        <4>3. ASSUME NEW p \in Readers, t = <<p, 1>>  PROVE \E r \in Callers : t \in Owed(r)
          <5>1. p \in Callers /\ pc[p] \in {"first", "second", "read"}
            BY <4>1, <4>3 DEF LockInv, ReaderInv, Callers
          <5> QED  BY <4>3, <5>1 DEF Owed
        <4>4. ASSUME NEW p \in Readers, t = <<p, 2>>  PROVE \E r \in Callers : t \in Owed(r)
          <5>1. p \in Callers /\ pc[p] \in {"second", "read"}
            BY <4>1, <4>4 DEF LockInv, ReaderInv, Callers
          <5> QED  BY <4>4, <5>1 DEF Owed
        <4> QED  BY <4>1, <4>2, <4>3, <4>4 DEF Tokens
      <3>2. ASSUME NEW p \in Callers, NEW t \in Owed(p)
            PROVE  \E c \in Sets : t \in holding[c] \cup blocked[c]
        <4>1. CASE pc[p] = "first"
          <5>1. p \in Readers /\ t = <<p, 1>> /\ call[p].c \in Sets
            BY <4>1, CallsTyped DEF LockInv, KindInv, Callers, Owed
          <5>2. t \in Held(call[p].c)
            BY <4>1, <5>1 DEF LockInv, ReaderInv
          <5> QED  BY <5>1, <5>2 DEF Held
        <4>2. CASE pc[p] \in {"second", "read"}
          <5>1. /\ p \in Readers /\ t \in {<<p, 1>>, <<p, 2>>}
                /\ call[p].c \in Sets /\ call[p].other \in Sets
            BY <4>2, CallsTyped DEF LockInv, KindInv, Callers, Owed
          <5>2. <<p, 1>> \in Held(call[p].c) /\ <<p, 2>> \in Held(call[p].other)
            BY <4>2, <5>1 DEF LockInv, ReaderInv, Held
          <5> QED  BY <5>1, <5>2 DEF Held
        <4>3. CASE pc[p] = "answer"
          <5>1. p = Owner /\ t = <<Owner, 1>> /\ mix.c \in Sets
            BY <4>3 DEF LockInv, KindInv, Callers, Owed
          <5>2. t \in Held(mix.c)
            BY <4>3, <5>1 DEF LockInv, OwnerInv
          <5> QED  BY <5>1, <5>2 DEF Held
        <4> QED  BY <4>1, <4>2, <4>3 DEF Owed
      <3> QED  BY <3>1, <3>2
    <2> QED  BY <2>1, <2>2, <2>3, <2>4 DEF TypeOK, LockInv, KindInv
  <1> QED  BY <1>1, CallsProved, PTL

(* An item is in the symmetric difference if it is in one of the sets alone. *)
LEMMA SymmetricIn ==
  ASSUME NEW x, NEW b \in BOOLEAN, mix.op = "symmetric",
         x \in MixResult.items <=> ~(x \in own.items <=> b)
  PROVE  (x \in MixResult.items) = Member(mix.op, x \in own.items, b)
  <1>1. Member(mix.op, x \in own.items, b) = ((x \in own.items) # b)
    BY DEF Member
  <1>2. CASE x \in MixResult.items
    <2>1. (x \in MixResult.items) = TRUE /\ ((x \in own.items) # b) = TRUE
      BY <1>2
    <2> QED  BY <1>1, <2>1, Zenon
  <1>3. CASE x \notin MixResult.items
    <2>1. (x \in MixResult.items) = FALSE /\ ((x \in own.items) # b) = FALSE
      BY <1>3
    <2> QED  BY <1>1, <2>1, Zenon
  <1> QED  BY <1>2, <1>3

(* An owner that combines its SortedSet with a ConcurrentSet sees another   *)
(* set at every question, as writers come between (src/set/sortedset.go,    *)
(* Union to IsSuperset, asking through src/set/concurrentset.go).  Its      *)
(* result is right all the same for each item, taking the other set as it   *)
(* was at some moment of the call.                                          *)
THEOREM MixedProved == Spec => []MixedRegular
  <1>1. MixInv => MixedRegular
    <2> SUFFICES ASSUME MixInv, Asked  PROVE MixedRegular
      BY DEF MixedRegular
    <2>1. /\ own \in SortedSets /\ mix \in Mixes /\ CallInv /\ mix.todo = <<>>
      BY DEF MixInv, Asked
    <2>2. /\ Pending(mix) = {} /\ Answered(mix, own) /\ Seen(mix, sets[mix.c])
          /\ own.items \subseteq Items /\ mix.op \in Algebra \cup Predicates
      BY <2>1, SortedSetIs DEF CallInv, Pending, ToSet
    <2>3. \A x \in Items : x \in mix.wasIn \/ x \in mix.wasOut
      BY <2>2 DEF Seen
    <2>4. mix.union \in SortedSets /\ mix.acc \in SortedSets
      BY <2>1 DEF Mixes
    <2>5. ASSUME mix.op \in Algebra, NEW x \in Items
          PROVE  \E b \in BOOLEAN :
                    Justified(x, b) /\ (x \in MixResult.items) = Member(mix.op, x \in own.items, b)
      <3> DEFINE Right(b) == (x \in MixResult.items) = Member(mix.op, x \in own.items, b)
      <3>1. CASE mix.op = "union"
        <4>1. /\ x \in own.items => x \in mix.union.items
              /\ x \in mix.union.items /\ x \notin own.items => x \in mix.wasIn
              /\ x \notin mix.union.items => x \in mix.wasOut
          BY <2>2, <3>1 DEF Answered, UnionPart
        <4>2. CASE x \in mix.wasIn /\ x \in mix.union.items
          <5>1. Justified(x, TRUE)
            BY <4>2 DEF Justified
          <5>2. Right(TRUE)
            BY <3>1, <4>2 DEF Member, MixResult
          <5> QED  BY <5>1, <5>2
        <4>3. CASE x \in mix.wasOut /\ (x \in mix.union.items <=> x \in own.items)
          <5>1. Justified(x, FALSE)
            BY <4>3 DEF Justified
          <5>2. Right(FALSE)
            BY <3>1, <4>3 DEF Member, MixResult
          <5> QED  BY <5>1, <5>2
        <4> QED  BY <2>3, <4>1, <4>2, <4>3
      <3>2. CASE mix.op = "intersection"
        <4>1. /\ x \in mix.acc.items => x \in own.items /\ x \in mix.wasIn
              /\ x \in own.items /\ x \notin mix.acc.items => x \in mix.wasOut
          BY <2>2, <3>2 DEF Answered, CommonPart
        <4>2. CASE x \in mix.wasIn /\ (x \in mix.acc.items <=> x \in own.items)
          <5>1. Justified(x, TRUE)
            BY <4>2 DEF Justified
          <5>2. Right(TRUE)
            BY <3>2, <4>2 DEF Member, MixResult
          <5> QED  BY <5>1, <5>2
        <4>3. CASE x \in mix.wasOut /\ x \notin mix.acc.items
          <5>1. Justified(x, FALSE)
            BY <4>3 DEF Justified
          <5>2. Right(FALSE)
            BY <3>2, <4>3 DEF Member, MixResult
          <5> QED  BY <5>1, <5>2
        <4> QED  BY <2>3, <4>1, <4>2, <4>3
      <3>3. CASE mix.op = "difference"
        <4>1. /\ x \in mix.acc.items => x \in own.items /\ x \in mix.wasOut
              /\ x \in own.items /\ x \notin mix.acc.items => x \in mix.wasIn
          BY <2>2, <3>3 DEF Answered, DifferencePart
        <4>2. CASE x \in mix.wasIn /\ x \notin mix.acc.items
          <5>1. Justified(x, TRUE)
            BY <4>2 DEF Justified
          <5>2. Right(TRUE)
            BY <3>3, <4>2 DEF Member, MixResult
          <5> QED  BY <5>1, <5>2
        <4>3. CASE x \in mix.wasOut /\ (x \in mix.acc.items <=> x \in own.items)
          <5>1. Justified(x, FALSE)
            BY <4>3 DEF Justified
          <5>2. Right(FALSE)
            BY <3>3, <4>3 DEF Member, MixResult
          <5> QED  BY <5>1, <5>2
        <4> QED  BY <2>3, <4>1, <4>2, <4>3
      <3>4. CASE mix.op = "symmetric"
        <4>1. /\ x \in own.items => x \in mix.union.items
              /\ x \in mix.union.items /\ x \notin own.items => x \in mix.wasIn
              /\ x \notin mix.union.items => x \in mix.wasOut
              /\ x \in mix.acc.items => x \in own.items /\ x \in mix.wasIn
              /\ x \in own.items /\ x \notin mix.acc.items => x \in mix.wasOut
          BY <2>2, <3>4 DEF Answered, UnionPart, CommonPart
        <4>2. x \in MixResult.items <=> x \in mix.union.items /\ x \notin mix.acc.items
          BY <2>4, <3>4, DifferenceIs DEF MixResult
        <4>3. CASE x \in mix.wasIn /\ (x \in MixResult.items <=> x \notin own.items)
          <5>1. Justified(x, TRUE)
            BY <4>3 DEF Justified
          <5>2. Right(TRUE)
            BY <3>4, <4>3, SymmetricIn
          <5> QED  BY <5>1, <5>2
        <4>4. CASE x \in mix.wasOut /\ (x \in MixResult.items <=> x \in own.items)
          <5>1. Justified(x, FALSE)
            BY <4>4 DEF Justified
          <5>2. Right(FALSE)
            BY <3>4, <4>4, SymmetricIn
          <5> QED  BY <5>1, <5>2
        <4> QED  BY <2>3, <4>1, <4>2, <4>3, <4>4
      <3> QED  BY <2>5, <3>1, <3>2, <3>3, <3>4 DEF Algebra
    <2>6. CASE mix.op \in Algebra
      <3> DEFINE Whole ==
            \A x \in Items : \E b \in BOOLEAN :
               Justified(x, b) /\ (x \in MixResult.items) = Member(mix.op, x \in own.items, b)
      <3>1. Whole /\ mix.op \notin {"subset", "superset"}
        BY <2>5, <2>6 DEF Algebra
      <3>2. MixedRegular <=>
              (Asked => CASE mix.op \in Algebra -> Whole
                          [] mix.op = "subset" ->
                               IF mix.verdict THEN own.items \subseteq mix.wasIn
                                              ELSE own.items \cap mix.wasOut # {}
                          [] mix.op = "superset" ->
                               IF mix.verdict THEN Items \ own.items \subseteq mix.wasOut
                                              ELSE mix.wasIn \ own.items # {})
        BY Zenon DEF MixedRegular
      <3> HIDE DEF Whole
      <3> QED  BY <2>6, <3>1, <3>2
    <2>7. CASE mix.op = "subset"
      BY <2>2, <2>7 DEF MixedRegular, Answered, SubsetPart, Algebra
    <2>8. CASE mix.op = "superset"
      BY <2>2, <2>8 DEF MixedRegular, Answered, SupersetPart, Algebra
    <2> QED  BY <2>2, <2>6, <2>7, <2>8 DEF Predicates
  <1> QED  BY <1>1, CallsProved, PTL

=============================================================================
