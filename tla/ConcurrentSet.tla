---------------------------- MODULE ConcurrentSet ----------------------------
(***************************************************************************)
(* set.ConcurrentSet: HashSets, each under its own RWMutex, in the hands   *)
(* of several goroutines.  Readers call the binary operations on two of    *)
(* them, writers change them, and an owner combines a SortedSet of its own *)
(* with one of them: there every question to the ConcurrentSet locks it    *)
(* anew.                                                                   *)
(*                                                                         *)
(* The mutex is Go's: a writer that waits for the readers in front of it   *)
(* keeps new readers out, also those that hold the lock already, and lets  *)
(* in those that came meanwhile when it unlocks.                           *)
(***************************************************************************)
EXTENDS SortedSet

CONSTANTS Sets,    \* the ConcurrentSets
          Readers, \* goroutines that call binary operations on two of them
          Writers, \* goroutines that change them
          Owner,   \* the goroutine with a SortedSet
          Pairs,   \* the operands <<c, other>> of the binary operations
          None

VARIABLES
    sets,    \* c.set: the contents
    writer,  \* the goroutine that holds or waits for the write lock
    holding, \* the read locks, <<goroutine, first or second>>
    blocked, \* the read locks asked for while a writer waits
    pc,      \* where each goroutine is
    call,    \* the operands [c, other] of a reader
    left,    \* what a binary operation has read of c
    own,     \* the owner's sorted set
    mix      \* the call that combines it with a ConcurrentSet

lockVars == <<writer, holding, blocked>>
readVars == <<call, left>>
ownVars == <<own, mix>>
vars == <<sets, lockVars, pc, readVars, ownVars>>

Callers == Readers \cup Writers \cup {Owner}
Algebra == {"union", "intersection", "difference", "symmetric"}
Predicates == {"subset", "superset"}

ConcurrentSetAssumption ==
    /\ IsFiniteSet(Items) /\ Order \in [Items -> Nat]
    /\ {"ForEach", "Size", "IsSubset"} \cap Items = {} \* they are questions (mix.todo)
    /\ None \notin Sets \cup Writers
    /\ Pairs \subseteq Sets \X Sets
    /\ Owner \notin Readers \cup Writers
    /\ Readers \cap Writers = {}
ASSUME ConcurrentSetAssumption

NoCall == [c |-> None, other |-> None]
NoMix == [op |-> None, c |-> None, todo |-> <<>>, acc |-> NewSorted,
          union |-> NewSorted, verdict |-> TRUE, wasIn |-> {}, wasOut |-> {}]

Init ==
    /\ sets \in [Sets -> SUBSET Items]
    /\ writer = [c \in Sets |-> None]
    /\ holding = [c \in Sets |-> {}]
    /\ blocked = [c \in Sets |-> {}]
    /\ pc = [p \in Callers |-> "idle"]
    /\ call = [p \in Readers |-> NoCall]
    /\ left = [p \in Readers |-> {}]
    /\ own = NewSorted
    /\ mix = NoMix

goto(p, l) == pc' = [pc EXCEPT ![p] = l]

-----------------------------------------------------------------------------
(* sync.RWMutex *)

RLock(t, c) ==
    /\ IF writer[c] = None
       THEN holding' = [holding EXCEPT ![c] = @ \cup {t}] /\ UNCHANGED blocked
       ELSE blocked' = [blocked EXCEPT ![c] = @ \cup {t}] /\ UNCHANGED holding
    /\ UNCHANGED writer

RUnlock(T) ==
    /\ holding' = [c \in Sets |-> holding[c] \ T]
    /\ UNCHANGED <<writer, blocked>>

Lock(p, c) ==
    /\ writer[c] = None
    /\ writer' = [writer EXCEPT ![c] = p]
    /\ UNCHANGED <<holding, blocked>>

\* Mutant: who was kept out is not let in.
UnlockAlone(c) ==
    /\ writer' = [writer EXCEPT ![c] = None]
    /\ UNCHANGED <<holding, blocked>>

Unlock(c) ==
    /\ writer' = [writer EXCEPT ![c] = None]
    /\ holding' = [holding EXCEPT ![c] = blocked[c]]
    /\ blocked' = [blocked EXCEPT ![c] = {}]

-----------------------------------------------------------------------------
(* HashSet: the operations on the contents of a ConcurrentSet *)

AddAll(S, X) == S \cup X
RemoveAll(S, X) == S \ X
RetainAll(S, X) == S \cap X

HashUnion(S, T) == S \cup T
HashIntersection(S, T) == {x \in S : x \in T}
HashDifference(S, T) == {x \in S : x \notin T}
HashSymmetric(S, T) == HashDifference(HashUnion(S, T), HashIntersection(S, T))

HashIsSubset(S, T) == ~(Cardinality(S) > Cardinality(T)) /\ \A x \in S : x \in T

BinaryResult(op, S, T) ==
    CASE op = "union"        -> HashUnion(S, T)
      [] op = "intersection" -> HashIntersection(S, T)
      [] op = "difference"   -> HashDifference(S, T)
      [] op = "symmetric"    -> HashSymmetric(S, T)
      [] op = "subset"       -> HashIsSubset(S, T)
      [] op = "superset"     -> HashIsSubset(T, S)

-----------------------------------------------------------------------------
(* Writers: Add, Remove, AddAll, RemoveAll, RetainAll, Clear *)

WriteCall(p, c) ==
    /\ pc[p] = "idle"
    /\ Lock(p, c)
    /\ goto(p, "write")
    /\ UNCHANGED <<sets, readVars, ownVars>>

\* What the owner might have seen of the set it asks; kept for MixedRegular.
Noted(m, S) == [m EXCEPT !.wasIn = @ \cup S, !.wasOut = @ \cup (Items \ S)]

Write(p, c) ==
    /\ pc[p] = "write"
    /\ writer[c] = p
    /\ holding[c] = {}
    /\ \E X \in SUBSET Items :
         \E S \in {AddAll(sets[c], X), RemoveAll(sets[c], X), RetainAll(sets[c], X)} :
           /\ sets' = [sets EXCEPT ![c] = S]
           /\ mix' = IF mix.c = c THEN Noted(mix, S) ELSE mix
    /\ Unlock(c)
    /\ goto(p, "idle")
    /\ UNCHANGED <<readVars, own>>

-----------------------------------------------------------------------------
(* Readers: c.Union(other) and the rest, both ConcurrentSets.  The second   *)
(* lock is asked for by a reader that holds the first.                      *)

BinaryCall(p, c, other) ==
    /\ pc[p] = "idle"
    /\ call' = [call EXCEPT ![p] = [c |-> c, other |-> other]]
    /\ RLock(<<p, 1>>, c)
    /\ goto(p, "first")
    /\ UNCHANGED <<sets, left, ownVars>>

\* Mutant: the first lock is given back for the second.
SecondLockInstead(p) ==
    /\ pc[p] = "first"
    /\ <<p, 1>> \in holding[call[p].c]
    /\ LET other == call[p].other
           kept == [holding EXCEPT ![call[p].c] = @ \ {<<p, 1>>}]
       IN IF writer[other] = None
          THEN holding' = [kept EXCEPT ![other] = @ \cup {<<p, 2>>}] /\ UNCHANGED blocked
          ELSE holding' = kept /\ blocked' = [blocked EXCEPT ![other] = @ \cup {<<p, 2>>}]
    /\ goto(p, "second")
    /\ UNCHANGED <<sets, writer, readVars, ownVars>>

SecondLock(p) ==
    /\ pc[p] = "first"
    /\ <<p, 1>> \in holding[call[p].c]
    /\ RLock(<<p, 2>>, call[p].other)
    /\ goto(p, "second")
    /\ UNCHANGED <<sets, readVars, ownVars>>

\* The operation goes through c first.
ReadFirst(p) ==
    /\ pc[p] = "second"
    /\ <<p, 2>> \in holding[call[p].other]
    /\ left' = [left EXCEPT ![p] = sets[call[p].c]]
    /\ goto(p, "read")
    /\ UNCHANGED <<sets, lockVars, call, ownVars>>

\* ... then through other, or asks it; what it makes of both goes to the caller.
Result(p, op) == BinaryResult(op, left[p], sets[call[p].other])

BinaryReturn(p) ==
    /\ pc[p] = "read"
    /\ call' = [call EXCEPT ![p] = NoCall]
    /\ left' = [left EXCEPT ![p] = {}]
    /\ RUnlock({<<p, 1>>, <<p, 2>>})
    /\ goto(p, "idle")
    /\ UNCHANGED <<sets, ownVars>>

-----------------------------------------------------------------------------
(* The owner: its SortedSet alone, which no lock protects *)

OwnUpdate ==
    /\ pc[Owner] = "idle"
    /\ \/ \E x \in Items : own' \in {SortedAdd(own, x), SortedRemove(own, x)}
       \/ \E X \in SUBSET Items :
            own' \in SortedAddAll(own, X) \cup SortedRemoveAll(own, X) \cup SortedRetainAll(own, X)
       \/ own' = NewSorted
    /\ UNCHANGED <<sets, lockVars, pc, readVars, mix>>

(* ... and with a ConcurrentSet as the other set: what has to be asked of it, *)
(* one lock each.                                                             *)
Questions(op) ==
    CASE op = "union"                        -> <<"ForEach">>
      [] op \in {"intersection", "difference"} -> own.elements
      [] op = "symmetric"                    -> <<"ForEach">> \o own.elements
      [] op = "subset"                       -> <<"Size">> \o own.elements
      [] op = "superset"                     -> <<"IsSubset">>

MixCall(op, c) ==
    /\ pc[Owner] = "idle"
    /\ mix' = Noted([NoMix EXCEPT !.op = op, !.c = c, !.todo = Questions(op)], sets[c])
    /\ goto(Owner, "ask")
    /\ UNCHANGED <<sets, lockVars, readVars, own>>

Ask ==
    /\ pc[Owner] = "ask"
    /\ mix.todo # <<>>
    /\ RLock(<<Owner, 1>>, mix.c)
    /\ goto(Owner, "answer")
    /\ UNCHANGED <<sets, readVars, ownVars>>

\* other.ForEach copies the contents, in any order, and runs over the copy.
AllOf(S) == {[mix EXCEPT !.todo = Tail(@), !.union = SortedUnion(own, q)] : q \in SetToSeqs(S)}

Verdict(b) == [mix EXCEPT !.todo = IF b THEN Tail(@) ELSE <<>>, !.verdict = b]

\* other.Contains
Contained(x, S) ==
    CASE mix.op = "subset" -> Verdict(x \in S)
      [] mix.op = "difference" ->
           [mix EXCEPT !.todo = Tail(@), !.acc = IF x \in S THEN @ ELSE SortedAdd(@, x)]
      [] OTHER ->
           [mix EXCEPT !.todo = Tail(@), !.acc = IF x \in S THEN SortedAdd(@, x) ELSE @]

Answer ==
    /\ pc[Owner] = "answer"
    /\ <<Owner, 1>> \in holding[mix.c]
    /\ LET q == Head(mix.todo)
           S == sets[mix.c]
       IN mix' \in CASE q = "ForEach"  -> AllOf(S)
                     [] q = "Size"     -> {Verdict(~(Cardinality(own.items) > Cardinality(S)))}
                     [] q = "IsSubset" -> {Verdict(HashIsSubset(S, own.items))}
                     [] OTHER          -> {Contained(q, S)}
    /\ RUnlock({<<Owner, 1>>})
    /\ goto(Owner, "ask")
    /\ UNCHANGED <<sets, readVars, own>>

Asked == pc[Owner] = "ask" /\ mix.todo = <<>>

\* Mutant: what is in both sets stays in.
MixResultUnion == IF mix.op \in {"union", "symmetric"} THEN mix.union ELSE mix.acc

MixResult ==
    CASE mix.op = "union"     -> mix.union
      [] mix.op = "symmetric" -> SortedDifference(mix.union, mix.acc)
      [] OTHER                -> mix.acc

\* The owner may keep the result in place of its set.
MixReturn ==
    /\ Asked
    /\ own' \in {own} \cup (IF mix.op \in Algebra THEN {MixResult} ELSE {})
    /\ mix' = NoMix
    /\ goto(Owner, "idle")
    /\ UNCHANGED <<sets, lockVars, readVars>>

-----------------------------------------------------------------------------

OwnerStep == Ask \/ Answer \/ MixReturn
ReaderStep(p) == SecondLock(p) \/ ReadFirst(p) \/ BinaryReturn(p)

Next ==
    \/ \E p \in Writers, c \in Sets : WriteCall(p, c) \/ Write(p, c)
    \/ \E p \in Readers :
         \/ \E t \in Pairs : BinaryCall(p, t[1], t[2])
         \/ ReaderStep(p)
    \/ OwnUpdate
    \/ \E op \in Algebra \cup Predicates, c \in Sets : MixCall(op, c)
    \/ OwnerStep

Spec == Init /\ [][Next]_vars

-----------------------------------------------------------------------------

Tokens == (Readers \X {1, 2}) \cup {<<Owner, 1>>}

\* The map and the slice of a SortedSet hold the same items, each once and in order,
\* whatever sequence of operations and half-built results has led there.
SortedAgrees == Agree(own) /\ Agree(mix.acc) /\ Agree(mix.union)

\* Types, with a sorted set's own (SortedAgrees).  A goroutine has a lock, or waits for
\* it, exactly while its call needs one
\* (the Lock, RLock and deferred RUnlock of every method).
Owed(p) ==
    CASE pc[p] = "first"              -> {<<p, 1>>}
      [] pc[p] \in {"second", "read"} -> {<<p, 1>>, <<p, 2>>}
      [] pc[p] = "answer"             -> {<<p, 1>>}
      [] OTHER                        -> {}

TypeOK ==
    /\ sets \in [Sets -> SUBSET Items]
    /\ writer \in [Sets -> Writers \cup {None}]
    /\ holding \in [Sets -> SUBSET Tokens]
    /\ blocked \in [Sets -> SUBSET Tokens]
    /\ pc \in [Callers -> {"idle", "write", "first", "second", "read", "ask", "answer"}]
    /\ left \in [Readers -> SUBSET Items]
    /\ own.items \subseteq Items
    /\ mix.c \in Sets \cup {None}
    /\ \A p \in Writers : (pc[p] = "write") = (\E c \in Sets : writer[c] = p)
    /\ UNION {holding[c] \cup blocked[c] : c \in Sets} = UNION {Owed(p) : p \in Callers}
    /\ SortedAgrees

\* A binary operation on two ConcurrentSets answers for both as they are at one moment.
Exact(op, S, T) ==
    CASE op = "union"        -> S \cup T
      [] op = "intersection" -> S \cap T
      [] op = "difference"   -> S \ T
      [] op = "symmetric"    -> (S \ T) \cup (T \ S)
      [] op = "subset"       -> S \subseteq T
      [] op = "superset"     -> T \subseteq S

BinaryExact ==
    \A p \in Readers, op \in Algebra \cup Predicates : pc[p] = "read" =>
        Result(p, op) = Exact(op, sets[call[p].c], sets[call[p].other])

\* The owner's call sees another set at every question.  Its answer is right all the
\* same for each item at some moment of the call: an item is in the result exactly if
\* the operation says so of the owner's set and of one of the states the other was in.
Justified(x, b) == (b /\ x \in mix.wasIn) \/ (~b /\ x \in mix.wasOut)

Member(op, a, b) ==
    CASE op = "union"        -> a \/ b
      [] op = "intersection" -> a /\ b
      [] op = "difference"   -> a /\ ~b
      [] op = "symmetric"    -> a # b

MixedRegular ==
    Asked =>
    CASE mix.op \in Algebra ->
           \A x \in Items : \E b \in BOOLEAN :
              Justified(x, b) /\ (x \in MixResult.items) = Member(mix.op, x \in own.items, b)
      [] mix.op = "subset" ->
           IF mix.verdict THEN own.items \subseteq mix.wasIn
                          ELSE own.items \cap mix.wasOut # {}
      [] mix.op = "superset" ->
           IF mix.verdict THEN Items \ own.items \subseteq mix.wasOut
                          ELSE mix.wasIn \ own.items # {}

\* Where all take two sets in one order (Pairs), goroutines never wait for each other
\* in a circle, although a waiting writer keeps a reader from its second lock: as long
\* as calls are under way one of them has the lock it waits for.
Movable(p) ==
    CASE pc[p] = "write"  -> \E c \in Sets : writer[c] = p /\ holding[c] = {}
      [] pc[p] = "first"  -> <<p, 1>> \in holding[call[p].c]
      [] pc[p] = "second" -> <<p, 2>> \in holding[call[p].other]
      [] pc[p] = "answer" -> <<p, 1>> \in holding[mix.c]
      [] OTHER            -> TRUE

NobodyStuck ==
    LET Busy == {p \in Callers : pc[p] # "idle"}
    IN Busy # {} => \E p \in Busy : Movable(p)

=============================================================================
