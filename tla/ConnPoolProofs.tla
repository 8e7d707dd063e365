--------------------------- MODULE ConnPoolProofs ---------------------------
(***************************************************************************)
(* The pool's safety invariants, for any number of callers, Shutdowns and  *)
(* connections and any options: a connection has one owner, the statistics *)
(* are exact, MaxActive is exceeded by no more than the callers that pass  *)
(* the check together, and after a Shutdown nothing is left open. And the  *)
(* same pool under the helpers of the adapters, which close connections    *)
(* they have put back: nothing is given back or counted twice, who closes  *)
(* a connection under its user, and what stays open.                       *)
(*                                                                         *)
(* CoreInv says where a connection may be, by where its holder is in Get   *)
(* or Put, CountInv what each count stands for; both hold with and without *)
(* helpers. Which connections are open differs: ConnInv says it of the     *)
(* pool alone, ClientInv with helpers. Each actor's steps are shown to     *)
(* keep them apart: CallerStep, ShutStep, Cleaner and the helpers' own.    *)
(***************************************************************************)
EXTENDS PoolClients, FiniteSetTheorems, TLAPS

Elems(s)    == {s[i] : i \in DOMAIN s}
Distinct(s) == \A i, j \in DOMAIN s : s[i] = s[j] => i = j

(* Where a caller has a connection in hand, and where that connection is   *)
(* registered as checked out (at "leave" it has one or not).               *)
HoldAt == {"check", "discard", "lend", "count", "using", "put:late", "put:soon", "put:nil",
           "put:load", "put:send", "drop"}
RegAt  == {"lend", "count", "using", "leave", "put:late", "put:soon"}

(* Where its connection has been closed, and where no Shutdown closes it.  *)
DoneAt == {"discard", "drop"}
KeptAt == {"check", "put:load", "put:send"}

(* What a caller holds, waits for and may retry fits where it is.          *)
CallerOK(p) ==
    /\ pc[p] \in HoldAt => conn[p] # None
    /\ conn[p] # None => pc[p] \in HoldAt \cup {"leave"}
    /\ pc[p] = "leave" => waits[p] > 0
    /\ pc[p] \in {"retry:load", "retry:recv"} => tries[p] > 0

CallerInv == \A p \in Callers : CallerOK(p)

(* Only parked callers are queued at the channel, each once.               *)
QueueInv == Distinct(recvq) /\ \A p \in Elems(recvq) : pc[p] = "parked"

CleanerInv ==
    /\ cl.conn # None <=> cl.at \in {"reload", "send"}
    /\ cl.at \in {"recv", "expired", "reload", "send"} => cl.left > 0
    /\ cl.at \in {"sleep", "stopped", "len"} => cl.bin = {}

(* A Shutdown that has drained the channel had closed it: it stays empty.  *)
ShutInv ==
    \A a \in Admins :
       /\ sh[a].at \in {"drain", "wait", "ok", "forced"} => nilled
       /\ sh[a].at \in {"wait", "ok", "forced"} => idle = <<>>

(* OnePlace, but for the order of the channel.                             *)
OwnersApart ==
    /\ \A p, q \in Callers : conn[p] = conn[q] /\ conn[p] # None => p = q
    /\ \A p \in Callers :
          conn[p] \notin IdleConns \cup cl.bin /\ (conn[p] = cl.conn => conn[p] = None)
    /\ ({cl.conn} \cup cl.bin) \cap IdleConns = {} /\ cl.conn \notin cl.bin

(* A connection in hand is registered by where its holder is; one that is  *)
(* idle or with the cleaner is not.                                        *)
RegInv ==
    /\ activeConns \cap (IdleConns \cup {cl.conn} \cup cl.bin) = {}
    /\ \A p \in Callers : conn[p] # None => (conn[p] \in activeConns <=> pc[p] \in RegAt)

(* What is idle is open; what is in hand is, until it is closed there or a *)
(* Shutdown that waits no longer closes it.                                *)
OpenInv ==
    /\ IdleConns \subseteq open
    /\ cl.conn # None => cl.conn \in open
    /\ \A p \in Callers :
          /\ conn[p] # None /\ pc[p] \notin DoneAt
          /\ nilled => pc[p] \in KeptAt
          => conn[p] \in open

(* What its holder has closed is closed, *)
ClosedInv == \A p \in Callers : pc[p] \in DoneAt => conn[p] \notin open

(* and what is open is somewhere. *)
Homes   == IdleConns \cup cl.bin \cup {cl.conn} \cup {conn[p] : p \in Callers}
Covered == open \subseteq Homes

(* The inductive invariant of the connections: what does not depend on     *)
(* their being open, and what does.                                        *)
HomeInv == Distinct(idle) /\ OwnersApart /\ RegInv
CoreInv == TypeOK /\ CallerInv /\ QueueInv /\ CleanerInv /\ ShutInv /\ HomeInv
ConnInv == CoreInv /\ OpenInv /\ ClosedInv /\ Covered

(* A step that drops no connection that is or becomes open, and            *)
NoneLost == (open' \cap Homes) \cup (open' \ open) \subseteq Homes'

(* what a step does for the places of connections.                         *)
PlacesKept ==
    /\ HomeInv'
    /\ OpenInv => OpenInv'
    /\ ClosedInv => ClosedInv' /\ NoneLost

(* The sets that the counts stand for.                                     *)
Lent     == {p \in Callers : pc[p] \in LentAt \/ (At(p, "leave") /\ conn[p] # None)}
Taken    == {p \in Callers : pc[p] \in TakenAt}
Giving   == {p \in Callers : At(p, "put:count")}
Creating == {p \in Callers : pc[p] \in {"create", "count"}}
Counting == {p \in Callers : pc[p] = "count"}
WaitSet  == UNION {{p} \X (1..waits[p]) : p \in Callers}
Cleaning == IF cl.at \in {"expired", "reload", "send"} THEN 1 ELSE 0
IdleNow  == Len(idle) + Cardinality(Taken) - Cardinality(Giving) + Cleaning

(* The counts. While the channel is being drained Idle runs ahead of what  *)
(* is left in it, never behind.                                            *)
CountInv ==
    /\ IsFiniteSet(Leaked) /\ Active = Cardinality(Lent) + Cardinality(Leaked)
    /\ Idle >= IdleNow /\ (~nilled => Idle = IdleNow)
    /\ Total = Active + Idle
    /\ IsFiniteSet(WaitSet) /\ Waiters = Cardinality(WaitSet)

(* Those that passed the check on MaxActive count as if they had created.  *)
RoomInv ==
    MaxActive > 0 /\ InitialSize <= MaxActive
       => Active + Idle + Cardinality(Creating) <= MaxActive - 1 + Cardinality(Callers)

OpenBound == Cardinality(open \ cl.bin) <= Active + Idle + Cardinality(Counting)

(* The steps of one caller, and of one Shutdown.                           *)
CallerStep(p) ==
    Get(p) \/ InGet(p) \/ GiveUp(p) \/ PutClosed(p) \/ InPut(p) \/ HandleClose(p)

ShutStep(a) == ShutBegin(a) \/ InShutdown(a) \/ ShutForce(a)

-----------------------------------------------------------------------------
(* Appending adds one element; to distinct others, it stays distinct.      *)
LEMMA AppendElems ==
  ASSUME NEW S, NEW s \in Seq(S), NEW x \in S
  PROVE  /\ Append(s, x) \in Seq(S) /\ Len(Append(s, x)) = Len(s) + 1
         /\ Elems(Append(s, x)) = Elems(s) \cup {x}
         /\ Distinct(s) /\ x \notin Elems(s) => Distinct(Append(s, x))
  <1>1. /\ Append(s, x) \in Seq(S) /\ Len(Append(s, x)) = Len(s) + 1
        /\ DOMAIN s = 1..Len(s) /\ DOMAIN Append(s, x) = 1..Len(s) + 1
        /\ \A i \in 1..Len(s) : Append(s, x)[i] = s[i]
        /\ Append(s, x)[Len(s) + 1] = x
        /\ Len(s) \in Nat
    OBVIOUS
  <1> DEFINE t == Append(s, x)
  <1> HIDE DEF t
  <1>2. Elems(t) = Elems(s) \cup {x}
    BY <1>1 DEF Elems, t
  <1>3. ASSUME Distinct(s), x \notin Elems(s)
        PROVE  Distinct(t)
    BY <1>1, <1>3 DEF Elems, Distinct, t
  <1> QED  BY <1>1, <1>2, <1>3 DEF t

(* Taking the head of a sequence of distinct elements removes just it.     *)
LEMMA TailElems ==
  ASSUME NEW S, NEW s \in Seq(S), s # <<>>, Distinct(s)
  PROVE  /\ Tail(s) \in Seq(S) /\ Len(Tail(s)) = Len(s) - 1 /\ Head(s) \in S
         /\ Head(s) \in Elems(s) /\ Elems(Tail(s)) = Elems(s) \ {Head(s)}
         /\ Distinct(Tail(s))
  <1>1. /\ Tail(s) \in Seq(S) /\ Len(Tail(s)) = Len(s) - 1
        /\ DOMAIN s = 1..Len(s) /\ DOMAIN Tail(s) = 1..Len(s) - 1
        /\ \A i \in 1..Len(s) - 1 : Tail(s)[i] = s[i + 1]
        /\ Head(s) = s[1] /\ Len(s) \in Nat \ {0} /\ Head(s) \in S
    OBVIOUS
  <1> DEFINE t == Tail(s)  h == Head(s)
  <1> HIDE DEF t, h
  <1>2. ASSUME NEW x
        PROVE  x \in Elems(t) <=> x \in Elems(s) \ {h}
    <2>1. ASSUME x \in Elems(t) PROVE x \in Elems(s) \ {h}
      <3>1. PICK i \in 1..Len(s) - 1 : x = s[i + 1]
        BY <1>1, <2>1 DEF Elems, t
      <3>2. i + 1 \in 1..Len(s) /\ i + 1 # 1
        BY <1>1
      <3> QED  BY <1>1, <3>1, <3>2 DEF Elems, Distinct, h
    <2>2. ASSUME x \in Elems(s) \ {h} PROVE x \in Elems(t)
      <3>1. PICK i \in 1..Len(s) : x = s[i]
        BY <1>1, <2>2 DEF Elems
      <3>2. i # 1
        BY <1>1, <2>2, <3>1 DEF h
      <3>3. i - 1 \in 1..Len(s) - 1 /\ t[i - 1] = s[i - 1 + 1] /\ i - 1 + 1 = i
        BY <1>1, <3>2 DEF t
      <3> QED  BY <1>1, <3>1, <3>3 DEF Elems, t
    <2> QED  BY <2>1, <2>2
  <1>3. Distinct(t)
    BY <1>1 DEF Distinct, t
  <1>4. h \in Elems(s)
    BY <1>1 DEF Elems, h
  <1>5. Elems(t) = Elems(s) \ {h}
    BY <1>2
  <1> QED  BY <1>1, <1>3, <1>4, <1>5 DEF t, h

-----------------------------------------------------------------------------
(* Types                                                                   *)
ChanType  == idle \in Seq(Conns) /\ Len(idle) <= MaxIdle /\ recvq \in Seq(Callers)
StatType  == Active \in Int /\ Idle \in Int /\ Total \in Int /\ Waiters \in Int
SetType   == activeConns \subseteq Conns /\ open \subseteq Conns
FlagType  == closed \in BOOLEAN /\ nilled \in BOOLEAN /\ crashed \in BOOLEAN
LocalType ==
    /\ pc \in [Callers -> Labels] /\ conn \in [Callers -> Conns \cup {None}]
    /\ ch \in [Callers -> BOOLEAN] /\ waits \in [Callers -> Nat]
    /\ tries \in [Callers -> 0..MaxRetries]
ShutType  == sh \in [Admins -> [at : {"idle", "refused", "active", "flag", "chan", "drain",
                                      "wait", "ok", "forced"}, active : Int]]
CleanType == cl \in [at : {"sleep", "stopped", "len", "load", "recv", "expired", "reload", "send"},
                     left : Nat, conn : Conns \cup {None}, ch : BOOLEAN, bin : SUBSET Conns]

(* TypeOK, in parts that change together.                                  *)
LEMMA TypeParts ==
  TypeOK <=> /\ ChanType /\ StatType /\ SetType /\ FlagType
             /\ LocalType /\ ShutType /\ CleanType
  BY DEF TypeOK, ChanType, StatType, SetType, FlagType, LocalType, ShutType, CleanType

(* A new pool is of its types.                                             *)
LEMMA InitTypes ==
  ASSUME Init
  PROVE  TypeOK
  <1>1. PICK k \in 0..InitialSize :
           k <= MaxIdle /\ idle \in [1..k -> Conns] /\ Idle = k /\ Total = k
    BY DEF Init
  <1>2. k \in Nat /\ idle \in Seq(Conns) /\ Len(idle) = k
    BY <1>1, PoolAssumption
  <1>3. ChanType /\ StatType
    BY <1>1, <1>2 DEF Init, ChanType, StatType
  <1>4. SetType /\ FlagType
    BY <1>2 DEF Init, SetType, FlagType
  <1>5. LocalType
    BY PoolAssumption DEF Init, LocalType, Labels
  <1>6. ShutType /\ CleanType
    BY PoolAssumption DEF Init, ShutType, CleanType
  <1> QED  BY <1>3, <1>4, <1>5, <1>6, TypeParts

(* What a send does, and what a caller's own step leaves alone.            *)
LEMMA SendType ==
  ASSUME ChanType, LocalType, NEW c \in Conns, NEW S \in SUBSET Callers, NEW l \in Labels,
         Send(c, S, l)
  PROVE  ChanType' /\ pc' \in [Callers -> Labels] /\ conn' \in [Callers -> Conns \cup {None}]
  <1> DEFINE left == [p \in Callers |-> IF p \in S THEN l ELSE pc[p]]
             kept == [p \in Callers |-> IF p \in S THEN None ELSE conn[p]]
  <1>1. left \in [Callers -> Labels] /\ kept \in [Callers -> Conns \cup {None}]
    BY DEF LocalType
  <1> HIDE DEF left, kept
  <1>2. CASE recvq = <<>> /\ Len(idle) < MaxIdle /\ idle' = Append(idle, c) /\ UNCHANGED recvq
             /\ pc' = left /\ conn' = kept
    BY <1>1, <1>2, PoolAssumption, AppendElems DEF ChanType
  <1>3. CASE /\ recvq # <<>> /\ recvq' = Tail(recvq) /\ UNCHANGED idle
             /\ pc' = [left EXCEPT ![Head(recvq)] = "check"]
             /\ conn' = [kept EXCEPT ![Head(recvq)] = c]
    <2>1. recvq' \in Seq(Callers) /\ Head(recvq) \in Callers
      BY <1>3 DEF ChanType
    <2> QED  BY <1>1, <1>3, <2>1 DEF ChanType, Labels
  <1> QED  BY <1>2, <1>3 DEF Send, left, kept

(* Leaving the queue keeps the others in it, in order.                     *)
LEMMA UnparkType ==
  ASSUME recvq \in Seq(Callers), NEW p \in Callers, Unpark(p)
  PROVE  /\ recvq' \in Seq(Callers)
         /\ Distinct(recvq) => /\ Distinct(recvq')
                               /\ Elems(recvq') = Elems(recvq) \ {p}
  <1>1. CASE (\A i \in DOMAIN recvq : recvq[i] # p) /\ UNCHANGED recvq
    BY <1>1 DEF Elems
  <1>2. ASSUME NEW i \in DOMAIN recvq, recvq[i] = p,
               recvq' = [j \in 1..Len(recvq)-1 |-> recvq[IF j < i THEN j ELSE j + 1]]
        PROVE  /\ recvq' \in Seq(Callers)
               /\ Distinct(recvq) => /\ Distinct(recvq')
                                     /\ Elems(recvq') = Elems(recvq) \ {p}
    <2> DEFINE n == Len(recvq)
    <2>1. n \in Nat /\ DOMAIN recvq = 1..n /\ i \in 1..n
          /\ \A j \in 1..n-1 : (IF j < i THEN j ELSE j + 1) \in (1..n) \ {i}
      BY <1>2
    <2>2. recvq' \in [1..n-1 -> Callers]
      BY <1>2, <2>1
    <2>3. recvq' \in Seq(Callers) /\ DOMAIN recvq' = 1..n-1
      BY <2>1, <2>2
    <2>4. ASSUME Distinct(recvq)
          PROVE  Distinct(recvq') /\ Elems(recvq') = Elems(recvq) \ {p}
      <3>1. Distinct(recvq')
        BY <1>2, <2>1, <2>3, <2>4 DEF Distinct
      <3>2. ASSUME NEW j \in (1..n) \ {i}
            PROVE  recvq[j] \in Elems(recvq')
        <4>1. CASE j < i
          <5>1. j \in 1..n-1 /\ recvq'[j] = recvq[j]
            BY <1>2, <2>1, <4>1
          <5> QED  BY <2>3, <5>1 DEF Elems
        <4>2. CASE j > i
          <5>1. j - 1 \in 1..n-1 /\ recvq'[j - 1] = recvq[j]
            BY <1>2, <2>1, <4>2
          <5> QED  BY <2>3, <5>1 DEF Elems
        <4> QED  BY <2>1, <4>1, <4>2
      <3>3. \A j \in 1..n-1 : recvq'[j] \in Elems(recvq) \ {p}
        BY <1>2, <2>1, <2>4 DEF Elems, Distinct
      <3> QED  BY <1>2, <2>1, <2>3, <3>1, <3>2, <3>3 DEF Elems
    <2> QED  BY <2>3, <2>4
  <1> QED  BY <1>1, <1>2 DEF Unpark

(* What is a caller's own, and the channel, keep their types.              *)
LEMMA LocalStep ==
  ASSUME TypeOK, CallerInv, NEW p \in Callers, CallerStep(p)
  PROVE  LocalType' /\ ChanType'
  <1>0. /\ ChanType /\ LocalType /\ MaxRetries \in Nat /\ 0 \in 0..MaxRetries
        /\ MaxRetries \in 0..MaxRetries /\ MaxIdle \in Nat
    BY TypeParts, PoolAssumption
  <1> USE DEF Goto, Hold, Return, Forget, At, Labels
  <1>1. CASE Get(p)
    BY <1>0, <1>1 DEF Get, LocalType, ChanType, channel
  <1>2. CASE Load(p)
    BY <1>0, <1>2 DEF Load, LocalType, ChanType, channel, Loads
  <1>3. CASE Receive(p)
    <2>1. Head(idle) \in Conns /\ Tail(idle) \in Seq(Conns) /\ Len(Tail(idle)) <= MaxIdle
      BY <1>0, <1>3 DEF Receive, ChanType
    <2> QED  BY <1>0, <1>3, <2>1 DEF Receive, LocalType, ChanType
  <1>4. CASE ReceiveDefault(p)
    <2>1. tries' \in [Callers -> 0..MaxRetries]
      BY <1>0, <1>4 DEF ReceiveDefault, LocalType, CallerInv, CallerOK
    <2> QED  BY <1>0, <1>4, <2>1 DEF ReceiveDefault, LocalType, ChanType, channel
  <1>5. CASE CheckBad(p)
    BY <1>0, <1>5 DEF CheckBad, LocalType, ChanType, channel
  <1>6. CASE Discard(p)
    BY <1>0, <1>6 DEF Discard, LocalType, ChanType, channel
  <1>7. CASE CheckGood(p)
    BY <1>0, <1>7 DEF CheckGood, LocalType, ChanType, channel
  <1>8. CASE Lend(p)
    BY <1>0, <1>8 DEF Lend, LocalType, ChanType, channel
  <1>9. CASE Decide(p)
    BY <1>0, <1>9 DEF Decide, LocalType, ChanType, channel, HasRoom
  <1>10. CASE Enter(p)
    BY <1>0, <1>10 DEF Enter, LocalType, ChanType, channel
  <1>11. CASE Park(p)
    BY <1>0, <1>11 DEF Park, LocalType, ChanType, channel, NothingToReceive
  <1>12. CASE GiveUp(p)
    <2>1. recvq' \in Seq(Callers)
      BY <1>0, <1>12, UnparkType DEF GiveUp, ChanType
    <2>2. ch' \in [Callers -> BOOLEAN] /\ tries' \in [Callers -> 0..MaxRetries]
      <3>1. \/ tries' = [tries EXCEPT ![p] = MaxRetries] /\ UNCHANGED ch
            \/ ch' = [ch EXCEPT ![p] = FALSE] /\ tries' = [tries EXCEPT ![p] = 0]
        BY <1>12 DEF GiveUp
      <3> QED  BY <1>0, <3>1 DEF LocalType
    <2>3. pc' \in [Callers -> Labels] /\ conn' \in [Callers -> Conns \cup {None}]
      BY <1>0, <1>12 DEF GiveUp, LocalType
    <2> QED  BY <1>0, <1>12, <2>1, <2>2, <2>3 DEF GiveUp, LocalType, ChanType
  <1>13. CASE Retry(p)
    BY <1>0, <1>13 DEF Retry, LocalType, ChanType, channel, HasRoom
  <1>14. CASE Leave(p)
    BY <1>0, <1>14 DEF Leave, LocalType, ChanType, channel, CallerInv, CallerOK
  <1>15. CASE Create(p)
    BY <1>0, <1>15 DEF Create, LocalType, ChanType, channel, Fresh, HasRoom
  <1>16. CASE Count(p)
    BY <1>0, <1>16 DEF Count, LocalType, ChanType, channel
  <1>17. CASE PutClosed(p)
    BY <1>0, <1>17 DEF PutClosed, LocalType, ChanType, channel
  <1>18. CASE PutBad(p)
    BY <1>0, <1>18 DEF PutBad, LocalType, ChanType, channel
  <1>19. CASE PutGood(p)
    BY <1>0, <1>19 DEF PutGood, LocalType, ChanType, channel
  <1>20. CASE PutNil(p)
    BY <1>0, <1>20 DEF PutNil, LocalType, ChanType, channel
  <1>21. CASE PutSend(p)
    <2>1. conn[p] \in Conns /\ Send(conn[p], {p}, "put:count")
      BY <1>0, <1>21 DEF PutSend, CallerInv, CallerOK, LocalType, HoldAt
    <2>2. ChanType' /\ pc' \in [Callers -> Labels] /\ conn' \in [Callers -> Conns \cup {None}]
      BY <1>0, <2>1, SendType
    <2> QED  BY <1>0, <1>21, <2>2 DEF PutSend, LocalType
  <1>22. CASE PutFull(p)
    BY <1>0, <1>22 DEF PutFull, LocalType, ChanType, channel
  <1>23. CASE PutCount(p)
    BY <1>0, <1>23 DEF PutCount, LocalType, ChanType, channel
  <1>24. CASE Drop(p)
    BY <1>0, <1>24 DEF Drop, LocalType, ChanType, channel
  <1>25. CASE HandleClose(p)
    BY <1>0, <1>25 DEF HandleClose, LocalType, ChanType, channel
  <1>26. CASE ReceiveNil(p)
    BY <1>0, <1>26 DEF ReceiveNil, LocalType, ChanType, channel, Crash, local
  <1>27. CASE ParkedPanics(p)
    BY <1>0, <1>27 DEF ParkedPanics, LocalType, ChanType, channel, Crash, local
  <1>28. CASE PutPanics(p)
    BY <1>0, <1>28 DEF PutPanics, LocalType, ChanType, channel, Crash, local
  <1> QED  BY <1>1, <1>2, <1>3, <1>4, <1>5, <1>6, <1>7, <1>8, <1>9, <1>10, <1>11, <1>12,
              <1>13, <1>14, <1>15, <1>16, <1>17, <1>18, <1>19, <1>20, <1>21, <1>22, <1>23,
              <1>24, <1>25, <1>26, <1>27, <1>28 DEF CallerStep, InGet, InPut

(* The steps of a caller keep every type.                                  *)
LEMMA CallerTypes ==
  ASSUME TypeOK, CallerInv, NEW p \in Callers, CallerStep(p)
  PROVE  TypeOK'
  <1>0. /\ ChanType /\ StatType /\ SetType /\ FlagType /\ LocalType /\ ShutType /\ CleanType
        /\ pc[p] \in HoldAt => conn[p] \in Conns
    BY TypeParts DEF LocalType, CallerInv, CallerOK
  <1>1. SetType'
    <2>1. CASE Create(p)
      BY <1>0, <2>1 DEF Create, Fresh, SetType
    <2>2. CASE CheckGood(p)
      BY <1>0, <2>2 DEF CheckGood, At, HoldAt, SetType
    <2>3. CASE ~Create(p) /\ ~CheckGood(p)
      <3>1. open' \subseteq open /\ activeConns' \subseteq activeConns
        BY <2>3 DEF CallerStep, Get, InGet, InPut, GiveUp, PutClosed, HandleClose, Load, Loads,
             Receive, ReceiveNil, ReceiveDefault, CheckBad, Discard, Lend, Decide, Enter, Park,
             ParkedPanics, Retry, Leave, Count, PutBad, PutGood, PutNil, PutSend, PutFull,
             PutPanics, PutCount, Drop, Crash
      <3> QED  BY <1>0, <3>1 DEF SetType
    <2> QED  BY <2>1, <2>2, <2>3
  <1>2. StatType'
    <2>1. CASE Discard(p) \/ Lend(p) \/ Enter(p) \/ Leave(p) \/ Count(p) \/ PutCount(p) \/ Drop(p)
      BY <1>0, <2>1 DEF Discard, Lend, Enter, Leave, Count, PutCount, Drop, StatType
    <2>2. UNCHANGED stats \/ Discard(p) \/ Lend(p) \/ Enter(p) \/ Leave(p) \/ Count(p)
          \/ PutCount(p) \/ Drop(p)
      BY DEF CallerStep, Get, InGet, InPut, GiveUp, PutClosed, HandleClose, Load, Loads, Receive,
             ReceiveNil, ReceiveDefault, CheckBad, CheckGood, Decide, Park, Create,
             ParkedPanics, Retry, PutBad, PutGood, PutNil, PutSend, PutFull,
             PutPanics, Crash
    <2> QED  BY <1>0, <2>1, <2>2 DEF StatType, stats
  <1>3. UNCHANGED closed /\ UNCHANGED nilled /\ UNCHANGED sh /\ UNCHANGED cl
        /\ crashed' \in {crashed, TRUE}
    BY DEF CallerStep, Get, InGet, InPut, GiveUp, PutClosed, HandleClose, Load, Loads, Receive,
             ReceiveNil, ReceiveDefault, CheckBad, CheckGood, Discard, Lend, Decide, Enter, Park,
             ParkedPanics, Retry, Leave, Create, Count, PutBad, PutGood, PutNil, PutSend, PutFull,
             PutPanics, PutCount, Drop, Crash, channel
  <1>4. FlagType' /\ ShutType' /\ CleanType'
    BY <1>0, <1>3 DEF FlagType, ShutType, CleanType
  <1>5. ChanType' /\ LocalType'
    BY LocalStep
  <1>6. TypeOK' <=> /\ ChanType' /\ StatType' /\ SetType' /\ FlagType'
                    /\ LocalType' /\ ShutType' /\ CleanType'
    BY TypeParts, PTL
  <1> QED  BY <1>1, <1>2, <1>4, <1>5, <1>6

(* The channel without its head is still one.                              *)
LEMMA TailType ==
  ASSUME ChanType, idle # <<>>
  PROVE  Tail(idle) \in Seq(Conns) /\ Len(Tail(idle)) <= MaxIdle /\ Head(idle) \in Conns
  <1>1. MaxIdle \in Nat /\ idle \in Seq(Conns) /\ Len(idle) <= MaxIdle
    BY PoolAssumption DEF ChanType
  <1>2. Tail(idle) \in Seq(Conns) /\ Len(Tail(idle)) = Len(idle) - 1 /\ Head(idle) \in Conns
        /\ Len(idle) \in Nat
    BY <1>1
  <1> QED  BY <1>1, <1>2

(* The steps of a Shutdown keep every type.                                *)
LEMMA ShutTypes ==
  ASSUME TypeOK, NEW a \in Admins, ShutStep(a)
  PROVE  TypeOK'
  <1>0. /\ ChanType /\ StatType /\ SetType /\ FlagType /\ LocalType /\ ShutType /\ CleanType
    BY TypeParts
  <1>1. UNCHANGED recvq /\ UNCHANGED stats /\ UNCHANGED activeConns /\ UNCHANGED local
        /\ UNCHANGED cl
    BY DEF ShutStep, InShutdown, ShutBegin, ShutActive, ShutFlag, ShutChan, ShutPanics,
           ShutDrain, ShutTick, ShutForce, Crash, channel
  <1>2. ChanType'
    <2>1. UNCHANGED idle \/ (idle # <<>> /\ idle' = Tail(idle))
      BY DEF ShutStep, InShutdown, ShutBegin, ShutActive, ShutFlag, ShutChan, ShutPanics,
             ShutDrain, ShutTick, ShutForce, Crash, channel
    <2> QED  BY <1>0, <1>1, <2>1, TailType DEF ChanType
  <1>3. open' \subseteq open /\ FlagType'
    BY <1>0 DEF ShutStep, InShutdown, ShutBegin, ShutActive, ShutFlag, ShutChan, ShutPanics,
           ShutDrain, ShutTick, ShutForce, Crash, channel, FlagType
  <1>4. ShutType'
    BY <1>0 DEF ShutStep, InShutdown, ShutBegin, ShutActive, ShutFlag, ShutChan, ShutPanics,
           ShutDrain, ShutTick, ShutForce, Crash, ShutAt, ShutType, StatType
  <1>5. StatType' /\ SetType' /\ LocalType' /\ CleanType'
    BY <1>0, <1>1, <1>3 DEF StatType, stats, SetType, LocalType, local, CleanType
  <1>6. TypeOK' <=> /\ ChanType' /\ StatType' /\ SetType' /\ FlagType'
                    /\ LocalType' /\ ShutType' /\ CleanType'
    BY TypeParts, PTL
  <1> QED  BY <1>2, <1>3, <1>4, <1>5, <1>6

(* The steps of the cleaner keep every type.                               *)
LEMMA CleanTypes ==
  ASSUME TypeOK, CleanerInv, Cleaner
  PROVE  TypeOK'
  <1>0. /\ ChanType /\ StatType /\ SetType /\ FlagType /\ LocalType /\ ShutType /\ CleanType
        /\ cl.at \in {"recv", "expired", "reload", "send"} => cl.left - 1 \in Nat
        /\ cl.at = "send" => cl.conn \in Conns
        /\ idle # <<>> => Head(idle) \in Conns
        /\ Len(idle) \in Nat
    BY TypeParts, TailType DEF CleanType, CleanerInv, ChanType
  <1>1. UNCHANGED closed /\ UNCHANGED nilled /\ UNCHANGED activeConns /\ UNCHANGED ch
        /\ UNCHANGED waits /\ UNCHANGED tries /\ UNCHANGED sh
    BY DEF Cleaner, CleanTick, CleanLen, CleanLoad, CleanReceive, CleanExpired, CleanSend,
           CleanFull, CleanPanics, CleanBin, Crash, channel, local
  <1>2. ChanType' /\ pc' \in [Callers -> Labels] /\ conn' \in [Callers -> Conns \cup {None}]
    <2>1. CASE CleanSend
      <3>1. Send(cl.conn, {}, "idle") /\ cl.conn \in Conns
        BY <1>0, <2>1 DEF CleanSend
      <3> QED  BY <1>0, <3>1, SendType DEF Labels
    <2>2. CASE ~CleanSend
      <3>1. UNCHANGED recvq /\ (UNCHANGED idle \/ (idle # <<>> /\ idle' = Tail(idle)))
            /\ UNCHANGED pc /\ UNCHANGED conn
        BY <2>2 DEF Cleaner, CleanTick, CleanLen, CleanLoad, CleanReceive, CleanExpired,
           CleanFull, CleanPanics, CleanBin, Crash, channel, local
      <3> QED  BY <1>0, <3>1, TailType DEF ChanType, LocalType
    <2> QED  BY <2>1, <2>2
  <1>3. LocalType' /\ ShutType'
    BY <1>0, <1>1, <1>2 DEF LocalType, ShutType
  <1>4. StatType'
    <2>1. UNCHANGED stats \/ CleanExpired
      BY DEF Cleaner, CleanTick, CleanLen, CleanLoad, CleanReceive, CleanSend,
           CleanFull, CleanPanics, CleanBin, Crash
    <2> QED  BY <1>0, <2>1 DEF CleanExpired, stats, StatType
  <1>5. open' \subseteq open /\ crashed' \in {crashed, TRUE}
    BY DEF Cleaner, CleanTick, CleanLen, CleanLoad, CleanReceive, CleanExpired, CleanSend,
           CleanFull, CleanPanics, CleanBin, Crash
  <1>6. SetType' /\ FlagType'
    BY <1>0, <1>1, <1>5 DEF SetType, FlagType
  <1>7. CleanType'
    <2>1. CASE CleanNext /\ cl.at \in {"recv", "expired", "reload", "send"}
      BY <1>0, <2>1 DEF CleanNext, CleanType
    <2>0. cl.bin \in SUBSET Conns /\ cl.conn \in Conns \cup {None} /\ cl.left \in Nat
          /\ cl.ch \in BOOLEAN
      BY <1>0 DEF CleanType
    <2>2. CASE CleanReceive /\ idle # <<>> /\ ~CleanNext
      <3> DEFINE h == Head(idle)
      <3>1. h \in Conns /\ cl.bin \cup {h} \in SUBSET Conns
        BY <1>0, <2>0, <2>2
      <3>2. \/ cl' = [cl EXCEPT !.at = "expired", !.bin = @ \cup {h}, !.ch = FALSE]
            \/ cl' = [cl EXCEPT !.at = "reload", !.conn = h, !.ch = FALSE]
        BY <2>2 DEF CleanReceive
      <3> HIDE DEF h
      <3>3. CASE cl' = [cl EXCEPT !.at = "expired", !.bin = @ \cup {h}, !.ch = FALSE]
        <4>1. cl' = [at |-> "expired", left |-> cl.left, conn |-> cl.conn, ch |-> FALSE,
                     bin |-> cl.bin \cup {h}]
          BY <1>0, <3>3 DEF CleanType
        <4> QED  BY <2>0, <3>1, <4>1 DEF CleanType
      <3>4. CASE cl' = [cl EXCEPT !.at = "reload", !.conn = h, !.ch = FALSE]
        <4>1. cl' = [at |-> "reload", left |-> cl.left, conn |-> h, ch |-> FALSE,
                     bin |-> cl.bin]
          BY <1>0, <3>4 DEF CleanType
        <4> QED  BY <2>0, <3>1, <4>1 DEF CleanType
      <3> QED  BY <3>2, <3>3, <3>4
    <2>3. CASE CleanTick \/ CleanLoad
      BY <1>0, <2>3 DEF CleanTick, CleanLoad, CleanType
    <2>4. CASE CleanLen
      BY <1>0, <2>4 DEF CleanLen, CleanType
    <2>5. CASE CleanFull \/ CleanBin
      <3>1. CASE CleanFull
        <4>1. cl.bin \cup {cl.conn} \in SUBSET Conns
          BY <1>0, <2>0, <3>1 DEF CleanFull
        <4>2. cl' = [at |-> "expired", left |-> cl.left, conn |-> None, ch |-> FALSE,
                     bin |-> cl.bin \cup {cl.conn}]
          BY <1>0, <3>1 DEF CleanFull, CleanType
        <4> QED  BY <2>0, <4>1, <4>2 DEF CleanType
      <3>2. CASE CleanBin
        BY <1>0, <2>0, <3>2 DEF CleanBin, CleanType
      <3> QED  BY <2>5, <3>1, <3>2
    <2>6. CASE CleanPanics
      BY <1>0, <2>6 DEF CleanPanics, Crash, CleanType
    <2>7. CleanReceive => CleanNext \/ idle # <<>>
      BY DEF CleanReceive
    <2>8. /\ CleanReceive => cl.at = "recv"
          /\ CleanExpired => CleanNext /\ cl.at = "expired"
          /\ CleanSend => CleanNext /\ cl.at = "send"
      BY DEF CleanReceive, CleanExpired, CleanSend
    <2> QED  BY <2>1, <2>2, <2>3, <2>4, <2>5, <2>6, <2>7, <2>8 DEF Cleaner
  <1>8. TypeOK' <=> /\ ChanType' /\ StatType' /\ SetType' /\ FlagType'
                    /\ LocalType' /\ ShutType' /\ CleanType'
    BY TypeParts, PTL
  <1> QED  BY <1>2, <1>3, <1>4, <1>6, <1>7, <1>8

-----------------------------------------------------------------------------
(* Where the callers are                                                   *)

(* A caller's step leaves the other callers where they are, unless it      *)
(* hands its connection to one that is parked.                             *)
LEMMA OthersStay ==
  ASSUME TypeOK, NEW p \in Callers, CallerStep(p), ~PutSend(p)
  PROVE  \A q \in Callers \ {p} : /\ pc'[q] = pc[q] /\ conn'[q] = conn[q]
                                  /\ waits'[q] = waits[q] /\ tries'[q] = tries[q]
  <1>0. LocalType
    BY TypeParts
  <1> USE DEF CallerStep, InGet, InPut, Goto, Hold, Return, Forget, At, local, LocalType,
              Get, Load, Loads, Receive, ReceiveDefault, CheckBad, Discard, CheckGood, Lend,
              Decide, Enter, Park, GiveUp, Retry, Leave, Create, Count, PutClosed, PutBad,
              PutGood, PutNil, PutFull, PutCount, Drop, HandleClose, ReceiveNil,
              ParkedPanics, PutPanics, Crash
  <1>1. \A q \in Callers \ {p} : pc'[q] = pc[q]
    BY <1>0
  <1>2. \A q \in Callers \ {p} : conn'[q] = conn[q]
    BY <1>0
  <1>3. \A q \in Callers \ {p} : waits'[q] = waits[q]
    BY <1>0
  <1>4. \A q \in Callers \ {p} : tries'[q] = tries[q]
    BY <1>0
  <1> QED  BY <1>1, <1>2, <1>3, <1>4

(* What a send leaves the callers with: the sender is at l and empty-      *)
(* handed; c is in the channel, or with the first of the parked.           *)
LEMMA SendMoves ==
  ASSUME TypeOK, QueueInv, NEW c \in Conns, NEW S \in SUBSET Callers, NEW l \in Labels,
         Send(c, S, l), \A q \in S : pc[q] # "parked"
  PROVE  \/ /\ Len(idle) < MaxIdle /\ idle' = Append(idle, c) /\ recvq' = recvq
            /\ \A q \in Callers : pc'[q] = IF q \in S THEN l ELSE pc[q]
            /\ \A q \in Callers : conn'[q] = IF q \in S THEN None ELSE conn[q]
         \/ \E w \in Callers \ S :
               /\ pc[w] = "parked" /\ w \in Elems(recvq) /\ idle' = idle
               /\ Distinct(recvq') /\ Elems(recvq') = Elems(recvq) \ {w}
               /\ \A q \in Callers : pc'[q] = IF q = w THEN "check" ELSE
                                              IF q \in S THEN l ELSE pc[q]
               /\ \A q \in Callers : conn'[q] = IF q = w THEN c ELSE
                                                IF q \in S THEN None ELSE conn[q]
  <1>0. LocalType /\ recvq \in Seq(Callers)
    BY TypeParts DEF ChanType
  <1> DEFINE left == [p \in Callers |-> IF p \in S THEN l ELSE pc[p]]
             kept == [p \in Callers |-> IF p \in S THEN None ELSE conn[p]]
             w == Head(recvq)
  <1>2. CASE /\ recvq = <<>> /\ Len(idle) < MaxIdle /\ idle' = Append(idle, c)
             /\ UNCHANGED recvq /\ pc' = left /\ conn' = kept
    BY <1>2
  <1>3. CASE /\ recvq # <<>> /\ recvq' = Tail(recvq) /\ UNCHANGED idle
             /\ pc' = [left EXCEPT ![Head(recvq)] = "check"]
             /\ conn' = [kept EXCEPT ![Head(recvq)] = c]
    <2>1. /\ w \in Callers /\ w \in Elems(recvq) /\ pc[w] = "parked" /\ w \notin S
          /\ Distinct(recvq') /\ Elems(recvq') = Elems(recvq) \ {w}
      BY <1>0, <1>3, TailElems DEF QueueInv
    <2>2. \A q \in Callers : pc'[q] = IF q = w THEN "check" ELSE IF q \in S THEN l ELSE pc[q]
      BY <1>3, <2>1
    <2>3. \A q \in Callers : conn'[q] = IF q = w THEN c ELSE IF q \in S THEN None ELSE conn[q]
      BY <1>3, <2>1
    <2> QED  BY <1>3, <2>1, <2>2, <2>3
  <1> QED  BY <1>2, <1>3 DEF Send

(* A caller that holds a connection is where one is held, and its count of *)
(* waits and retries fits where it is.                                     *)
LEMMA CallerKept ==
  ASSUME TypeOK, CallerInv, QueueInv, NEW p \in Callers, CallerStep(p)
  PROVE  CallerInv'
  <1>0. /\ LocalType /\ recvq \in Seq(Callers) /\ CallerOK(p)
        /\ None \notin Conns
    BY TypeParts, PoolAssumption DEF ChanType, CallerInv
  <1>1. CASE PutSend(p)
    <2>1. /\ pc[p] = "put:send" /\ conn[p] \in Conns /\ waits' = waits /\ tries'[p] = 0
          /\ \A q \in Callers \ {p} : tries'[q] = tries[q]
      BY <1>0, <1>1 DEF PutSend, At, CallerOK, HoldAt, LocalType, Forget
    <2>2. Send(conn[p], {p}, "put:count")
      BY <1>1 DEF PutSend
    <2>3. \/ /\ \A q \in Callers : pc'[q] = IF q = p THEN "put:count" ELSE pc[q]
             /\ \A q \in Callers : conn'[q] = IF q = p THEN None ELSE conn[q]
          \/ \E w \in Callers \ {p} :
               /\ \A q \in Callers : pc'[q] = IF q = w THEN "check" ELSE
                                              IF q = p THEN "put:count" ELSE pc[q]
               /\ \A q \in Callers : conn'[q] = IF q = w THEN conn[p] ELSE
                                                IF q = p THEN None ELSE conn[q]
      BY <2>1, <2>2, SendMoves DEF Labels
    <2> QED  BY <1>0, <2>1, <2>3 DEF CallerInv, CallerOK, HoldAt
  <1>2. CASE ~PutSend(p)
    <2>1. ASSUME Receive(p) PROVE CallerOK(p)'
      <3>1. conn'[p] \in Conns /\ pc'[p] = "check"
        BY <1>0, <2>1, TailType, TypeParts DEF Receive, Hold, Goto, LocalType
      <3> QED  BY <1>0, <3>1 DEF CallerOK, HoldAt
    <2>2. ASSUME Create(p) PROVE CallerOK(p)'
      BY <1>0, <2>2 DEF Create, Return, Goto, Hold, At, Fresh, LocalType, CallerOK, HoldAt
    <2>3. ASSUME ~Receive(p), ~Create(p) PROVE CallerOK(p)'
      BY <1>0, <1>2, <2>3
         DEF CallerStep, InGet, InPut, Goto, Hold, Return, Forget, At, HoldAt, local, LocalType,
             CallerOK, Get, Load, Loads, ReceiveDefault, CheckBad, Discard, CheckGood, Lend,
             Decide, Enter, Park, GiveUp, Retry, Leave, Count, PutClosed, PutBad, PutGood,
             PutNil, PutFull, PutCount, Drop, HandleClose, ReceiveNil, ParkedPanics,
             PutPanics, Crash
    <2>4. CallerOK(p)'
      BY <2>1, <2>2, <2>3
    <2>5. ASSUME NEW q \in Callers \ {p}
          PROVE  CallerOK(q)'
      BY <1>2, OthersStay DEF CallerInv, CallerOK
    <2> QED  BY <2>4, <2>5 DEF CallerInv
  <1> QED  BY <1>1, <1>2

(* Only parked callers are in the channel's queue, each once.              *)
LEMMA QueueKept ==
  ASSUME TypeOK, CallerInv, QueueInv, NEW p \in Callers, CallerStep(p)
  PROVE  QueueInv'
  <1>0. LocalType /\ recvq \in Seq(Callers)
    BY TypeParts DEF ChanType
  <1>a. Elems(recvq) \subseteq Callers
    BY <1>0 DEF Elems
  <1>1. CASE PutSend(p)
    <2>1. pc[p] = "put:send" /\ Send(conn[p], {p}, "put:count") /\ conn[p] \in Conns
      BY <1>0, <1>1 DEF PutSend, At, CallerInv, CallerOK, HoldAt, LocalType
    <2> QED  BY <1>0, <1>a, <2>1, SendMoves DEF QueueInv, Labels
  <1>2. CASE Park(p)
    <2>1. pc[p] = "wait:recv" /\ pc' = [pc EXCEPT ![p] = "parked"]
          /\ (recvq' = recvq \/ recvq' = Append(recvq, p))
      BY <1>2 DEF Park, At, Goto
    <2>2. p \notin Elems(recvq)
      BY <2>1 DEF QueueInv
    <2>3. Distinct(recvq') /\ Elems(recvq') \subseteq Elems(recvq) \cup {p}
      <3>1. Distinct(Append(recvq, p)) /\ Elems(Append(recvq, p)) = Elems(recvq) \cup {p}
        BY <1>0, <2>2, AppendElems DEF QueueInv
      <3> QED  BY <2>1, <3>1 DEF QueueInv
    <2> QED  BY <1>0, <1>a, <2>1, <2>3 DEF QueueInv, LocalType
  <1>3. CASE GiveUp(p)
    <2>1. Distinct(recvq') /\ Elems(recvq') = Elems(recvq) \ {p}
      BY <1>0, <1>3, UnparkType DEF GiveUp, QueueInv
    <2>2. \A q \in Callers \ {p} : pc'[q] = pc[q]
      BY <1>0, <1>3 DEF GiveUp, Goto, Return, LocalType
    <2> QED  BY <1>a, <2>1, <2>2 DEF QueueInv
  <1>4. CASE ~PutSend(p) /\ ~Park(p) /\ ~GiveUp(p)
    <2>1. recvq' = recvq /\ (pc[p] = "parked" => pc' = pc)
      BY <1>4 DEF CallerStep, InGet, InPut, At, channel, local,
           Get, Load, Loads, Receive, Receiving, ReceiveDefault, CheckBad, Discard, CheckGood,
           Lend, Decide, Enter, Retry, Leave, Create, Count, PutClosed, PutBad, PutGood,
           PutNil, PutFull, PutCount, Drop, HandleClose, ReceiveNil, ParkedPanics,
           PutPanics, Crash
    <2> QED  BY <1>4, <1>a, <2>1, OthersStay DEF QueueInv
  <1> QED  BY <1>1, <1>2, <1>3, <1>4

-----------------------------------------------------------------------------
(* Where the connections are                                               *)

(* A step that moves no connection keeps their places, if it takes nobody  *)
(* across the places that tell what is registered, closed or kept.         *)
LEMMA QuietPlaces ==
  ASSUME HomeInv, LocalType, UNCHANGED idle, UNCHANGED conn, UNCHANGED activeConns, UNCHANGED open,
         cl'.conn = cl.conn, cl'.bin = cl.bin, nilled \in BOOLEAN, nilled => nilled',
         \A q \in Callers : /\ pc'[q] \in DoneAt <=> pc[q] \in DoneAt
                            /\ conn[q] # None => (pc'[q] \in RegAt <=> pc[q] \in RegAt)
                            /\ pc'[q] \in KeptAt => pc[q] \in KeptAt
  PROVE  PlacesKept
  <1>1. IdleConns' = IdleConns
    BY DEF IdleConns
  <1>2. Distinct(idle') /\ OwnersApart'
    BY <1>1 DEF HomeInv, OwnersApart
  <1>3. RegInv'
    BY <1>1 DEF HomeInv, RegInv
  <1>4. (OpenInv => OpenInv') /\ (ClosedInv => ClosedInv')
    BY <1>1 DEF OpenInv, ClosedInv, ClosedInv, DoneAt, KeptAt
  <1>5. NoneLost
    BY <1>1 DEF NoneLost, Homes
  <1> QED  BY <1>2, <1>3, <1>4, <1>5 DEF PlacesKept, HomeInv

(* Such are the steps of a caller but for twelve.                          *)
LEMMA CallerQuiet ==
  ASSUME TypeOK, CallerInv, HomeInv, NEW p \in Callers, CallerStep(p),
         ~Receive(p), ~CheckBad(p), ~Discard(p), ~CheckGood(p), ~Create(p), ~PutBad(p),
         ~PutGood(p), ~PutNil(p), ~PutSend(p), ~PutFull(p), ~Drop(p), ~HandleClose(p)
  PROVE  PlacesKept
  <1>0. LocalType /\ CallerOK(p) /\ nilled \in BOOLEAN
    BY TypeParts DEF CallerInv, FlagType
  <1>1. UNCHANGED idle /\ UNCHANGED activeConns /\ UNCHANGED open /\ UNCHANGED cl
        /\ UNCHANGED nilled
    BY DEF CallerStep, InGet, InPut, channel,
           Get, Load, Loads, ReceiveDefault, Lend, Decide, Enter, Park, GiveUp, Retry,
           Leave, Count, PutClosed, PutCount, ReceiveNil, ParkedPanics, PutPanics, Crash
  <1>2. UNCHANGED conn
    BY <1>0 DEF CallerStep, InGet, InPut, local, Goto, Hold, Return, At, LocalType, CallerOK,
           HoldAt,
           Get, Load, Loads, ReceiveDefault, Lend, Decide, Enter, Park, GiveUp, Retry,
           Leave, Count, PutClosed, PutCount, ReceiveNil, ParkedPanics, PutPanics, Crash
  <1>3. /\ pc'[p] \in DoneAt <=> pc[p] \in DoneAt
        /\ conn[p] # None => (pc'[p] \in RegAt <=> pc[p] \in RegAt)
        /\ pc'[p] \in KeptAt => pc[p] \in KeptAt
    BY <1>0 DEF CallerStep, InGet, InPut, local, Goto, Hold, Return, At, LocalType, CallerOK,
           HoldAt, RegAt, DoneAt, KeptAt,
           Get, Load, Loads, ReceiveDefault, Lend, Decide, Enter, Park, GiveUp, Retry,
           Leave, Count, PutClosed, PutCount, ReceiveNil, ParkedPanics, PutPanics, Crash
  <1> QED  BY <1>0, <1>1, <1>2, <1>3, OthersStay, QuietPlaces

(* Every step of a caller leaves each connection in one place.             *)
LEMMA CallerPlaces ==
  ASSUME TypeOK, CallerInv, QueueInv, HomeInv, CleanerInv, NEW p \in Callers, CallerStep(p)
  PROVE  PlacesKept
  <1>0. /\ LocalType /\ CallerOK(p) /\ nilled \in BOOLEAN /\ idle \in Seq(Conns)
        /\ None \notin Conns /\ conn[p] \in Conns \cup {None}
        /\ activeConns \subseteq Conns /\ open \subseteq Conns /\ cl.bin \subseteq Conns
        /\ Distinct(idle) /\ OwnersApart /\ RegInv
        /\ \A q \in Callers : (pc[q] \in HoldAt => conn[q] # None)
                              /\ (conn[q] # None => pc[q] \in HoldAt \cup {"leave"})
    BY TypeParts, PoolAssumption 
       DEF CallerInv, CallerOK, FlagType, ChanType, LocalType, SetType, HomeInv, CleanType
  <1>a. IdleConns = Elems(idle) /\ IdleConns' = Elems(idle') 
        /\ IdleConns \subseteq Conns
    BY <1>0 DEF IdleConns, Elems, Distinct
  <1>b. conn[p] # None =>
          /\ conn[p] \notin IdleConns /\ conn[p] \notin cl.bin /\ conn[p] # cl.conn
          /\ \A q \in Callers \ {p} : conn[q] # conn[p]
          /\ conn[p] \in activeConns <=> pc[p] \in RegAt
    BY <1>0 DEF OwnersApart, RegInv
  <1> USE DEF HomeInv, PlacesKept, HoldAt, RegAt, DoneAt, KeptAt, Goto, Hold, At
  <1>1. CASE Receive(p)
    <2> DEFINE h == Head(idle)
    <2>1. /\ h \in IdleConns /\ h \in Conns /\ IdleConns' = IdleConns \ {h} /\ Distinct(idle')
      BY <1>0, <1>a, <1>1, TailElems DEF Receive
    <2>2. /\ conn' = [conn EXCEPT ![p] = h] /\ pc' = [pc EXCEPT ![p] = "check"]
          /\ conn[p] = None
          /\ UNCHANGED nilled /\ UNCHANGED activeConns /\ UNCHANGED open /\ UNCHANGED cl
      BY <1>0, <1>1 DEF Receive, Receiving
    <2> HIDE DEF h
    <2>3. OwnersApart'
      BY <1>0, <2>1, <2>2 DEF OwnersApart, LocalType
    <2>4. RegInv'
      BY <1>0, <2>1, <2>2 DEF RegInv, LocalType
    <2>5. (OpenInv => OpenInv') /\ (ClosedInv => ClosedInv')
      BY <1>0, <2>1, <2>2 DEF OpenInv, ClosedInv, LocalType
    <2>6. ClosedInv => NoneLost
      BY <1>0, <2>1, <2>2 DEF ClosedInv, NoneLost, Homes, LocalType
    <2> QED  BY <2>1, <2>3, <2>4, <2>5, <2>6
  <1>2. CASE PutSend(p)
    <2> DEFINE c == conn[p]
    <2>1. /\ pc[p] = "put:send" /\ c \in Conns /\ Send(c, {p}, "put:count")
          /\ OpenInv => c \in open
          /\ c \notin IdleConns /\ c \notin activeConns /\ c \notin cl.bin /\ c # cl.conn
          /\ \A q \in Callers \ {p} : conn[q] # c
          /\ UNCHANGED nilled /\ UNCHANGED activeConns /\ UNCHANGED open /\ UNCHANGED cl
      BY <1>0, <1>2 DEF PutSend, OwnersApart, RegInv, OpenInv
    <2>2. \/ /\ idle' = Append(idle, c)
             /\ \A q \in Callers : pc'[q] = IF q = p THEN "put:count" ELSE pc[q]
             /\ \A q \in Callers : conn'[q] = IF q = p THEN None ELSE conn[q]
          \/ \E w \in Callers \ {p} :
               /\ pc[w] = "parked" /\ idle' = idle
               /\ \A q \in Callers : pc'[q] = IF q = w THEN "check" ELSE
                                              IF q = p THEN "put:count" ELSE pc[q]
               /\ \A q \in Callers : conn'[q] = IF q = w THEN c ELSE
                                                IF q = p THEN None ELSE conn[q]
      BY <1>0, <2>1, SendMoves DEF Labels
    <2> HIDE DEF c
    <2>3. CASE /\ idle' = Append(idle, c)
               /\ \A q \in Callers : pc'[q] = IF q = p THEN "put:count" ELSE pc[q]
               /\ \A q \in Callers : conn'[q] = IF q = p THEN None ELSE conn[q]
      <3>1. IdleConns' = IdleConns \cup {c} /\ Distinct(idle')
        BY <1>0, <1>a, <2>1, <2>3, AppendElems
      <3>2. OwnersApart'
        BY <1>0, <1>a, <2>1, <2>3, <3>1 DEF OwnersApart
      <3>3. RegInv'
        BY <1>0, <1>a, <2>1, <2>3, <3>1 DEF RegInv
      <3>4. (OpenInv => OpenInv') /\ (ClosedInv => ClosedInv')
        BY <1>0, <1>a, <2>1, <2>3, <3>1 DEF OpenInv, ClosedInv
      <3>5. ClosedInv => NoneLost
        BY <1>0, <1>a, <2>1, <2>3, <3>1 DEF ClosedInv, NoneLost, Homes, c
      <3> QED  BY <3>1, <3>2, <3>3, <3>4, <3>5
    <2>4. ASSUME NEW w \in Callers \ {p}, pc[w] = "parked", idle' = idle,
                 \A q \in Callers : pc'[q] = IF q = w THEN "check" ELSE
                                             IF q = p THEN "put:count" ELSE pc[q],
                 \A q \in Callers : conn'[q] = IF q = w THEN c ELSE
                                               IF q = p THEN None ELSE conn[q]
          PROVE  PlacesKept
      <3>1. IdleConns' = IdleConns /\ Distinct(idle') /\ conn[w] = None
        BY <1>0, <1>a, <2>4
      <3>2. OwnersApart'
        BY <1>0, <1>a, <2>1, <2>4, <3>1 DEF OwnersApart
      <3>3. RegInv'
        BY <1>0, <1>a, <2>1, <2>4, <3>1 DEF RegInv
      <3>4. (OpenInv => OpenInv') /\ (ClosedInv => ClosedInv')
        BY <1>0, <1>a, <2>1, <2>4, <3>1 DEF OpenInv, ClosedInv
      <3>5. ClosedInv => NoneLost
        BY <1>0, <1>a, <2>1, <2>4, <3>1 DEF ClosedInv, NoneLost, Homes, c
      <3> QED  BY <3>1, <3>2, <3>3, <3>4, <3>5
    <2> QED  BY <2>2, <2>3, <2>4
  <1>3. CASE Create(p)
    <2>1. /\ pc[p] = "create" /\ conn[p] = None /\ UNCHANGED idle /\ UNCHANGED nilled
          /\ UNCHANGED cl
          /\ IdleConns' = IdleConns /\ Distinct(idle')
      BY <1>0, <1>3, <1>a DEF Create, channel
    <2>2. CASE Return(p, None) /\ UNCHANGED <<open, activeConns>>
      <3>1. /\ conn' = conn
            /\ \A q \in Callers \ {p} : pc'[q] = pc[q]
            /\ pc'[p] \in {"leave", "idle"}
        BY <1>0, <2>1, <2>2 DEF Return, LocalType
      <3>2. \A q \in Callers : /\ pc'[q] \in DoneAt <=> pc[q] \in DoneAt
                               /\ conn[q] # None => (pc'[q] \in RegAt <=> pc[q] \in RegAt)
                               /\ pc'[q] \in KeptAt => pc[q] \in KeptAt
        BY <1>0, <2>1, <3>1 DEF DoneAt, KeptAt
      <3> QED  BY <1>0, <2>1, <2>2, <3>1, <3>2, QuietPlaces
    <2>3. ASSUME NEW c \in Fresh, open' = open \cup {c}, activeConns' = activeConns \cup {c},
                 Hold(p, c), Goto(p, "count")
          PROVE  PlacesKept
      <3>1. /\ c \in Conns /\ c \notin IdleConns /\ c \notin activeConns /\ c \notin open
            /\ c \notin cl.bin /\ c # cl.conn /\ \A q \in Callers : conn[q] # c
        BY <2>3 DEF Fresh, InUse, IdleConns
      <3>2. /\ \A q \in Callers : pc'[q] = IF q = p THEN "count" ELSE pc[q]
            /\ \A q \in Callers : conn'[q] = IF q = p THEN c ELSE conn[q]
        BY <1>0, <2>3 DEF LocalType
      <3>3. OwnersApart'
        BY <1>0, <2>1, <2>3, <3>1, <3>2 DEF OwnersApart
      <3>4. RegInv'
        BY <1>0, <2>1, <2>3, <3>1, <3>2 DEF RegInv
      <3>5. (OpenInv => OpenInv') /\ (ClosedInv => ClosedInv')
        BY <1>0, <2>1, <2>3, <3>1, <3>2 DEF OpenInv, ClosedInv
      <3>6. ClosedInv => NoneLost
        BY <1>0, <2>1, <2>3, <3>1, <3>2 DEF ClosedInv, NoneLost, Homes
      <3> QED  BY <2>1, <3>3, <3>4, <3>5, <3>6
    <2> QED  BY <1>3, <2>2, <2>3 DEF Create
  <1>4. CASE \/ CheckBad(p) \/ Discard(p) \/ CheckGood(p) \/ PutBad(p) \/ PutGood(p)
             \/ PutNil(p) \/ PutFull(p) \/ Drop(p) \/ HandleClose(p)
    <2>1. IdleConns' = IdleConns /\ Distinct(idle') /\ UNCHANGED nilled /\ UNCHANGED cl
      BY <1>0, <1>4, <1>a DEF CheckBad, Discard, CheckGood, PutBad, PutGood, PutNil, PutFull,
                              Drop, HandleClose, channel
    <2> USE <1>0, <1>a, <1>b, <2>1 DEF LocalType, DoneAt
    <2>2. CASE CheckBad(p)
      <3>1. OwnersApart'
        BY <2>2 DEF OwnersApart, CheckBad
      <3>2. RegInv'
        BY <2>2 DEF RegInv, CheckBad
      <3>3. (OpenInv => OpenInv') /\ (ClosedInv => ClosedInv')
        BY <2>2 DEF OpenInv, ClosedInv, CheckBad
      <3>4. ClosedInv => NoneLost
        BY <2>2 DEF ClosedInv, NoneLost, Homes, CheckBad
      <3> QED  BY <3>1, <3>2, <3>3, <3>4
    <2>3. CASE Discard(p)
      <3>1. OwnersApart'
        BY <2>3 DEF OwnersApart, Discard
      <3>2. RegInv'
        BY <2>3 DEF RegInv, Discard
      <3>3. (OpenInv => OpenInv') /\ (ClosedInv => ClosedInv')
        BY <2>3 DEF OpenInv, ClosedInv, Discard
      <3>4. ClosedInv => NoneLost
        BY <2>3 DEF ClosedInv, NoneLost, Homes, Discard
      <3> QED  BY <3>1, <3>2, <3>3, <3>4
    <2>4. CASE CheckGood(p)
      <3>1. OwnersApart'
        BY <2>4 DEF OwnersApart, CheckGood
      <3>2. RegInv'
        BY <2>4 DEF RegInv, CheckGood
      <3>3. (OpenInv => OpenInv') /\ (ClosedInv => ClosedInv')
        BY <2>4 DEF OpenInv, ClosedInv, CheckGood
      <3>4. ClosedInv => NoneLost
        BY <2>4 DEF ClosedInv, NoneLost, Homes, CheckGood
      <3> QED  BY <3>1, <3>2, <3>3, <3>4
    <2>5. CASE PutBad(p)
      <3>1. OwnersApart'
        BY <2>5 DEF OwnersApart, PutBad
      <3>2. RegInv'
        BY <2>5 DEF RegInv, PutBad
      <3>3. (OpenInv => OpenInv') /\ (ClosedInv => ClosedInv')
        BY <2>5 DEF OpenInv, ClosedInv, PutBad
      <3>4. ClosedInv => NoneLost
        BY <2>5 DEF ClosedInv, NoneLost, Homes, PutBad
      <3> QED  BY <3>1, <3>2, <3>3, <3>4
    <2>6. CASE PutGood(p)
      <3>1. OwnersApart'
        BY <2>6 DEF OwnersApart, PutGood
      <3>2. RegInv'
        BY <2>6 DEF RegInv, PutGood
      <3>3. (OpenInv => OpenInv') /\ (ClosedInv => ClosedInv')
        BY <2>6 DEF OpenInv, ClosedInv, PutGood
      <3>4. ClosedInv => NoneLost
        BY <2>6 DEF ClosedInv, NoneLost, Homes, PutGood
      <3> QED  BY <3>1, <3>2, <3>3, <3>4
    <2>7. CASE PutNil(p)
      <3>1. OwnersApart'
        BY <2>7 DEF OwnersApart, PutNil
      <3>2. RegInv'
        BY <2>7 DEF RegInv, PutNil
      <3>3. (OpenInv => OpenInv') /\ (ClosedInv => ClosedInv')
        BY <2>7 DEF OpenInv, ClosedInv, PutNil
      <3>4. ClosedInv => NoneLost
        BY <2>7 DEF ClosedInv, NoneLost, Homes, PutNil
      <3> QED  BY <3>1, <3>2, <3>3, <3>4
    <2>8. CASE PutFull(p)
      <3>1. OwnersApart'
        BY <2>8 DEF OwnersApart, PutFull
      <3>2. RegInv'
        BY <2>8 DEF RegInv, PutFull
      <3>3. (OpenInv => OpenInv') /\ (ClosedInv => ClosedInv')
        BY <2>8 DEF OpenInv, ClosedInv, PutFull
      <3>4. ClosedInv => NoneLost
        BY <2>8 DEF ClosedInv, NoneLost, Homes, PutFull
      <3> QED  BY <3>1, <3>2, <3>3, <3>4
    <2>9. CASE Drop(p)
      <3>1. OwnersApart'
        BY <2>9 DEF OwnersApart, Drop
      <3>2. RegInv'
        BY <2>9 DEF RegInv, Drop
      <3>3. (OpenInv => OpenInv') /\ (ClosedInv => ClosedInv')
        BY <2>9 DEF OpenInv, ClosedInv, Drop
      <3>4. ClosedInv => NoneLost
        BY <2>9 DEF ClosedInv, NoneLost, Homes, Drop
      <3> QED  BY <3>1, <3>2, <3>3, <3>4
    <2>10. CASE HandleClose(p)
      <3>1. OwnersApart'
        BY <2>10 DEF OwnersApart, HandleClose
      <3>2. RegInv'
        BY <2>10 DEF RegInv, HandleClose
      <3>3. (OpenInv => OpenInv') /\ (ClosedInv => ClosedInv')
        BY <2>10 DEF OpenInv, ClosedInv, HandleClose
      <3>4. ClosedInv => NoneLost
        BY <2>10 DEF ClosedInv, NoneLost, Homes, HandleClose
      <3> QED  BY <3>1, <3>2, <3>3, <3>4
    <2> QED  BY <1>4, <2>2, <2>3, <2>4, <2>5, <2>6, <2>7, <2>8, <2>9, <2>10
  <1> QED  BY <1>1, <1>2, <1>3, <1>4, CallerQuiet

(* Shutdown and the cleaner leave the callers where they are, but for the  *)
(* one the cleaner hands a connection to.                                  *)
LEMMA ShutKept ==
  ASSUME TypeOK, CallerInv, QueueInv, CleanerInv, ShutInv, HomeInv,
         NEW a \in Admins, ShutStep(a)
  PROVE  CallerInv' /\ QueueInv' /\ CleanerInv' /\ PlacesKept
  <1>0. /\ LocalType /\ idle \in Seq(Conns) /\ open \subseteq Conns /\ nilled \in BOOLEAN
        /\ Distinct(idle) /\ OwnersApart /\ RegInv
        /\ IdleConns = Elems(idle) /\ IdleConns' = Elems(idle')
    BY TypeParts DEF ChanType, SetType, FlagType, HomeInv, IdleConns, Elems
  <1>1. UNCHANGED recvq /\ UNCHANGED pc /\ UNCHANGED conn /\ UNCHANGED waits /\ UNCHANGED tries
        /\ UNCHANGED cl /\ UNCHANGED activeConns
    BY DEF ShutStep, InShutdown, ShutBegin, ShutActive, ShutFlag, ShutChan, ShutPanics,
           ShutDrain, ShutTick, ShutForce, Crash, channel, local
  <1>2. CallerInv' /\ QueueInv' /\ CleanerInv'
    BY <1>1 DEF CallerInv, CallerOK, QueueInv, CleanerInv
  <1>3. CASE ShutDrain(a) /\ idle # <<>>
    <2> DEFINE h == Head(idle)
    <2>1. /\ idle' = Tail(idle) /\ open' = open \ {h} /\ UNCHANGED nilled
      BY <1>3 DEF ShutDrain
    <2>2. h \in IdleConns /\ IdleConns' = IdleConns \ {h} /\ Distinct(idle')
      BY <1>0, <1>3, <2>1, TailElems
    <2> HIDE DEF h
    <2>3. OwnersApart'
      BY <1>0, <1>1, <2>2 DEF OwnersApart
    <2>4. RegInv'
      BY <1>0, <1>1, <2>2 DEF RegInv
    <2>5. (OpenInv => OpenInv') /\ (ClosedInv => ClosedInv')
      BY <1>0, <1>1, <2>1, <2>2 DEF OpenInv, ClosedInv, OwnersApart
    <2>6. ClosedInv => NoneLost
      BY <1>0, <1>1, <2>1, <2>2 DEF ClosedInv, NoneLost, Homes
    <2> QED  BY <1>2, <2>2, <2>3, <2>4, <2>5, <2>6 DEF PlacesKept, HomeInv
  <1>4. CASE ShutForce(a)
    <2>1. IdleConns' = IdleConns /\ idle' = idle /\ UNCHANGED nilled /\ open' = open \ activeConns
      BY <1>4 DEF ShutForce, channel, IdleConns
    <2>2. OwnersApart' /\ RegInv' /\ NoneLost
      BY <1>0, <1>1, <2>1 DEF OwnersApart, RegInv, NoneLost, Homes
    <2>3. nilled
      BY <1>4 DEF ShutForce, ShutAt, ShutInv
    <2>4. (OpenInv => OpenInv') /\ (ClosedInv => ClosedInv')
      BY <1>0, <1>1, <2>1, <2>3 DEF OpenInv, ClosedInv, RegInv, RegAt, HoldAt, KeptAt, DoneAt
    <2> QED  BY <1>0, <1>2, <2>1, <2>2, <2>4 DEF PlacesKept, HomeInv
  <1>5. CASE ~ShutForce(a) /\ ~(ShutDrain(a) /\ idle # <<>>)
    <2>1. UNCHANGED idle /\ UNCHANGED open /\ (nilled => nilled')
      BY <1>5 DEF ShutStep, InShutdown, ShutBegin, ShutActive, ShutFlag, ShutChan, ShutPanics,
           ShutDrain, ShutTick, Crash, channel, local
    <2> QED  BY <1>0, <1>1, <1>2, <2>1, QuietPlaces
  <1> QED  BY <1>3, <1>4, <1>5

(* The cleaner takes a connection out of the channel, and puts it back or  *)
(* into the bin, never in two of them.                                     *)
LEMMA CleanKept ==
  ASSUME TypeOK, CallerInv, QueueInv, CleanerInv, HomeInv, Cleaner
  PROVE  CallerInv' /\ QueueInv' /\ CleanerInv' /\ PlacesKept
  <1>0. /\ LocalType /\ idle \in Seq(Conns) /\ open \subseteq Conns /\ nilled \in BOOLEAN
        /\ recvq \in Seq(Callers) /\ None \notin Conns /\ activeConns \subseteq Conns
        /\ cl.left \in Nat /\ cl.conn \in Conns \cup {None} /\ cl.bin \subseteq Conns
        /\ Distinct(idle) /\ OwnersApart /\ RegInv
        /\ IdleConns = Elems(idle) /\ IdleConns' = Elems(idle')
    BY TypeParts, PoolAssumption
       DEF ChanType, SetType, FlagType, HomeInv, CleanType, IdleConns, Elems
  <1>a. Elems(recvq) \subseteq Callers /\ IdleConns \subseteq Conns
    BY <1>0 DEF Elems
  <1>1. UNCHANGED waits /\ UNCHANGED tries /\ UNCHANGED activeConns /\ UNCHANGED nilled
    BY DEF Cleaner, CleanTick, CleanLen, CleanLoad, CleanReceive, CleanExpired, CleanSend,
           CleanFull, CleanPanics, CleanBin, Crash, channel, local
  <1>2. CASE CleanSend
    <2> DEFINE c == cl.conn
    <2>1. /\ c \in Conns /\ Send(c, {}, "idle") /\ (OpenInv => c \in open) /\ UNCHANGED open
          /\ c \notin IdleConns /\ c \notin activeConns /\ c \notin cl.bin
          /\ \A q \in Callers : conn[q] # c
          /\ cl'.conn = None /\ cl'.at = "load" /\ cl'.bin = cl.bin
      BY <1>0, <1>2 DEF CleanSend, CleanNext, CleanerInv, OwnersApart, RegInv, OpenInv
    <2>2. \/ /\ idle' = Append(idle, c) /\ recvq' = recvq
             /\ \A q \in Callers : pc'[q] = pc[q]
             /\ \A q \in Callers : conn'[q] = conn[q]
          \/ \E w \in Callers :
               /\ pc[w] = "parked" /\ idle' = idle
               /\ Distinct(recvq') /\ Elems(recvq') = Elems(recvq) \ {w}
               /\ \A q \in Callers : pc'[q] = IF q = w THEN "check" ELSE pc[q]
               /\ \A q \in Callers : conn'[q] = IF q = w THEN c ELSE conn[q]
      BY <1>0, <2>1, SendMoves DEF Labels
    <2>3. CASE /\ idle' = Append(idle, c) /\ recvq' = recvq
               /\ \A q \in Callers : pc'[q] = pc[q]
               /\ \A q \in Callers : conn'[q] = conn[q]
      <3>1. IdleConns' = IdleConns \cup {c} /\ Distinct(idle')
        BY <1>0, <2>1, <2>3, AppendElems
      <3>2. CallerInv' /\ QueueInv' /\ CleanerInv'
        BY <1>1, <1>a, <2>1, <2>3 DEF CallerInv, CallerOK, QueueInv, CleanerInv
      <3> HIDE DEF c
      <3>3. OwnersApart'
        BY <1>0, <1>a, <2>1, <2>3, <3>1 DEF OwnersApart
      <3>4. RegInv'
        BY <1>0, <1>1, <2>1, <2>3, <3>1 DEF RegInv
      <3>5. (OpenInv => OpenInv') /\ (ClosedInv => ClosedInv')
        BY <1>0, <1>1, <2>1, <2>3, <3>1 DEF OpenInv, ClosedInv
      <3>6. ClosedInv => NoneLost
        BY <1>0, <1>1, <2>1, <2>3, <3>1 DEF ClosedInv, NoneLost, Homes, c
      <3> QED  BY <3>1, <3>2, <3>3, <3>4, <3>5, <3>6 DEF PlacesKept, HomeInv
    <2>4. ASSUME NEW w \in Callers, pc[w] = "parked", idle' = idle,
                 Distinct(recvq'), Elems(recvq') = Elems(recvq) \ {w},
                 \A q \in Callers : pc'[q] = IF q = w THEN "check" ELSE pc[q],
                 \A q \in Callers : conn'[q] = IF q = w THEN c ELSE conn[q]
          PROVE  CallerInv' /\ QueueInv' /\ CleanerInv' /\ PlacesKept
      <3>1. IdleConns' = IdleConns /\ Distinct(idle') /\ conn[w] = None
        BY <1>0, <2>4 DEF CallerInv, CallerOK, HoldAt
      <3>2. CallerInv' /\ QueueInv' /\ CleanerInv'
        BY <1>0, <1>1, <1>a, <2>1, <2>4 DEF CallerInv, CallerOK, QueueInv, CleanerInv, HoldAt
      <3> HIDE DEF c
      <3>3. OwnersApart'
        BY <1>0, <1>a, <2>1, <2>4, <3>1 DEF OwnersApart
      <3>4. RegInv'
        BY <1>0, <1>1, <2>1, <2>4, <3>1 DEF RegInv, RegAt
      <3>5. (OpenInv => OpenInv') /\ (ClosedInv => ClosedInv')
        BY <1>0, <1>1, <2>1, <2>4, <3>1 DEF OpenInv, ClosedInv, KeptAt, DoneAt
      <3>6. ClosedInv => NoneLost
        BY <1>0, <1>1, <2>1, <2>4, <3>1 DEF ClosedInv, NoneLost, Homes, c
      <3> QED  BY <3>1, <3>2, <3>3, <3>4, <3>5, <3>6 DEF PlacesKept, HomeInv
    <2> QED  BY <2>2, <2>3, <2>4
  <1>3. CASE ~CleanSend
    <2>1. UNCHANGED recvq /\ UNCHANGED pc /\ UNCHANGED conn
      BY <1>3 DEF Cleaner, CleanTick, CleanLen, CleanLoad, CleanReceive, CleanExpired,
           CleanFull, CleanPanics, CleanBin, Crash, channel, local
    <2>2. CallerInv' /\ QueueInv'
      BY <1>1, <2>1 DEF CallerInv, CallerOK, QueueInv
    <2>3. CASE CleanReceive /\ cl'.at # "load"
      <3> DEFINE h == Head(idle)
      <3>0. /\ idle' = Tail(idle) /\ UNCHANGED open /\ cl.conn = None /\ cl.left > 0
            /\ idle # <<>>
            /\ \/ cl' = [cl EXCEPT !.at = "expired", !.bin = @ \cup {h}, !.ch = FALSE]
               \/ cl' = [cl EXCEPT !.at = "reload", !.conn = h, !.ch = FALSE]
        BY <1>0, <2>3 DEF CleanReceive, CleanNext, CleanerInv
      <3>2. h \in IdleConns /\ IdleConns' = IdleConns \ {h} /\ Distinct(idle')
        BY <1>0, <3>0, TailElems
      <3> HIDE DEF h
      <3>1. /\ \/ cl'.at = "expired" /\ cl'.bin = cl.bin \cup {h} /\ cl'.conn = None
               \/ cl'.at = "reload" /\ cl'.bin = cl.bin /\ cl'.conn = h
            /\ cl'.left = cl.left /\ UNCHANGED open /\ cl.conn = None /\ cl.left > 0
        BY <3>0, TypeParts DEF CleanType
      <3>3. CleanerInv'
        BY <1>0, <1>a, <3>1, <3>2 DEF CleanerInv
      <3>4. OwnersApart'
        BY <1>0, <1>a, <2>1, <3>1, <3>2 DEF OwnersApart
      <3>5. RegInv'
        BY <1>0, <1>1, <1>a, <2>1, <3>1, <3>2 DEF RegInv
      <3>6. (OpenInv => OpenInv') /\ (ClosedInv => ClosedInv')
        BY <1>0, <1>1, <1>a, <2>1, <3>1, <3>2 DEF OpenInv, ClosedInv
      <3>7. ClosedInv => NoneLost
        BY <1>0, <1>1, <2>1, <3>1, <3>2 DEF ClosedInv, NoneLost, Homes
      <3> QED  BY <2>2, <3>2, <3>3, <3>4, <3>5, <3>6, <3>7 DEF PlacesKept, HomeInv
    <2>4. CASE CleanFull
      <3>1. /\ UNCHANGED idle /\ UNCHANGED open /\ cl'.conn = None /\ cl'.at = "expired"
            /\ cl'.bin = cl.bin \cup {cl.conn} /\ cl'.left = cl.left /\ cl.conn \in Conns
            /\ cl.left > 0
        BY <1>0, <2>4, TypeParts DEF CleanFull, CleanerInv, CleanType, channel
      <3>2. IdleConns' = IdleConns /\ Distinct(idle')
        BY <1>0, <3>1
      <3>3. CleanerInv'
        BY <1>0, <3>1, <3>2 DEF CleanerInv
      <3>4. OwnersApart'
        BY <1>0, <1>a, <2>1, <3>1, <3>2 DEF OwnersApart
      <3>5. RegInv'
        BY <1>0, <1>1, <1>a, <2>1, <3>1, <3>2 DEF RegInv
      <3>6. (OpenInv => OpenInv') /\ (ClosedInv => ClosedInv')
        BY <1>0, <1>1, <1>a, <2>1, <3>1, <3>2 DEF OpenInv, ClosedInv
      <3>7. ClosedInv => NoneLost
        BY <1>0, <1>1, <2>1, <3>1, <3>2 DEF ClosedInv, NoneLost, Homes
      <3> QED  BY <2>2, <3>2, <3>3, <3>4, <3>5, <3>6, <3>7 DEF PlacesKept, HomeInv
    <2>5. CASE CleanBin
      <3>1. /\ UNCHANGED idle /\ open' = open \ cl.bin /\ cl'.conn = cl.conn /\ cl'.at = "sleep"
            /\ cl'.bin = {} /\ cl.conn = None
        BY <1>0, <2>5, TypeParts DEF CleanBin, CleanerInv, CleanType, channel
      <3>2. IdleConns' = IdleConns /\ Distinct(idle')
        BY <1>0, <3>1
      <3>3. CleanerInv'
        BY <1>0, <3>1, <3>2 DEF CleanerInv
      <3>4. OwnersApart'
        BY <1>0, <1>a, <2>1, <3>1, <3>2 DEF OwnersApart
      <3>5. RegInv'
        BY <1>0, <1>1, <1>a, <2>1, <3>1, <3>2 DEF RegInv
      <3>6. (OpenInv => OpenInv') /\ (ClosedInv => ClosedInv')
        BY <1>0, <1>1, <1>a, <2>1, <3>1, <3>2 DEF OpenInv, ClosedInv, OwnersApart
      <3>7. ClosedInv => NoneLost
        BY <1>0, <1>1, <2>1, <3>1, <3>2 DEF ClosedInv, NoneLost, Homes
      <3> QED  BY <2>2, <3>2, <3>3, <3>4, <3>5, <3>6, <3>7 DEF PlacesKept, HomeInv
    <2>6. CASE ~CleanFull /\ ~CleanBin /\ ~(CleanReceive /\ cl'.at # "load")
      <3>0. CleanReceive => CleanNext /\ UNCHANGED idle /\ UNCHANGED open
        BY <2>6, TypeParts DEF CleanReceive, CleanType
      <3>1. UNCHANGED idle /\ UNCHANGED open
        BY <1>3, <2>6, <3>0 DEF Cleaner, CleanTick, CleanLen, CleanLoad, CleanExpired,
           CleanPanics, Crash, channel
      <3>2. cl'.conn = cl.conn /\ cl'.bin = cl.bin /\ CleanerInv'
        <4>1. CASE CleanNext /\ cl.at \in {"recv", "expired"}
          BY <1>0, <4>1 DEF CleanNext, CleanerInv
        <4>2. CASE CleanTick \/ CleanLen \/ CleanLoad \/ CleanPanics
          BY <1>0, <4>2, TypeParts DEF CleanTick, CleanLen, CleanLoad, CleanPanics, Crash,
                                       CleanerInv, CleanType
        <4> QED  BY <1>3, <2>6, <3>0, <4>1, <4>2 DEF Cleaner, CleanReceive, CleanExpired
      <3> QED  BY <1>0, <1>1, <2>1, <2>2, <3>1, <3>2, QuietPlaces
    <2> QED  BY <1>3, <2>3, <2>4, <2>5, <2>6
  <1> QED  BY <1>2, <1>3

(* Once a Shutdown has drained the closed channel, nothing is put into it. *)
LEMMA ShutInvKept ==
  ASSUME TypeOK, ShutInv,
         (\E p \in Callers : CallerStep(p)) \/ (\E a \in Admins : ShutStep(a)) \/ Cleaner
  PROVE  ShutInv'
  <1>0. ShutType /\ nilled \in BOOLEAN
    BY TypeParts DEF FlagType
  <1>1. ASSUME NEW p \in Callers, CallerStep(p)
        PROVE  ShutInv'
    <2>1. UNCHANGED sh /\ UNCHANGED nilled /\ (nilled /\ idle = <<>> => idle' = <<>>)
      BY <1>1 DEF CallerStep, InGet, InPut, channel,
           Get, Load, Loads, Receive, ReceiveDefault, CheckBad, Discard, CheckGood, Lend,
           Decide, Enter, Park, GiveUp, Retry, Leave, Create, Count, PutClosed, PutBad,
           PutGood, PutNil, PutSend, PutFull, PutCount, Drop, HandleClose, ReceiveNil,
           ParkedPanics, PutPanics, Crash
    <2> QED  BY <2>1 DEF ShutInv
  <1>2. ASSUME NEW a \in Admins, ShutStep(a)
        PROVE  ShutInv'
    <2>1. /\ \A b \in Admins \ {a} : sh'[b] = sh[b]
          /\ nilled => nilled'
          /\ idle = <<>> => idle' = <<>>
      BY <1>0, <1>2 DEF ShutStep, InShutdown, ShutBegin, ShutActive, ShutFlag, ShutChan,
           ShutPanics, ShutDrain, ShutTick, ShutForce, ShutAt, ShutType, Crash, channel
    <2>2. sh'[a].at \in {"drain", "wait", "ok", "forced"} => nilled'
      BY <1>0, <1>2 DEF ShutStep, InShutdown, ShutBegin, ShutActive, ShutFlag, ShutChan,
           ShutPanics, ShutDrain, ShutTick, ShutForce, ShutAt, ShutType, ShutInv, Crash, channel
    <2>3. sh'[a].at \in {"wait", "ok", "forced"} => idle' = <<>>
      BY <1>0, <1>2 DEF ShutStep, InShutdown, ShutBegin, ShutActive, ShutFlag, ShutChan,
           ShutPanics, ShutDrain, ShutTick, ShutForce, ShutAt, ShutType, ShutInv, Crash, channel
    <2> QED  BY <2>1, <2>2, <2>3 DEF ShutInv
  <1>3. CASE Cleaner
    <2>1. UNCHANGED sh /\ UNCHANGED nilled /\ (nilled /\ idle = <<>> => idle' = <<>>)
      BY <1>3 DEF Cleaner, CleanTick, CleanLen, CleanLoad, CleanReceive, CleanExpired, CleanSend,
           CleanFull, CleanPanics, CleanBin, Crash, channel
    <2> QED  BY <2>1 DEF ShutInv
  <1> QED  BY <1>1, <1>2, <1>3

-----------------------------------------------------------------------------
(* The steps of Next, by the actor that takes them.                        *)
LEMMA StepCases ==
  ASSUME Next
  PROVE  \/ \E p \in Callers : CallerStep(p)
         \/ \E a \in Admins : ShutStep(a)
         \/ Cleaner
         \/ UNCHANGED vars
  BY DEF Next, CallerStep, ShutStep, Halt

(* ConnInv holds of a new pool,                                            *)
LEMMA ConnInvInit ==
  ASSUME Init
  PROVE  ConnInv
  <1>1. TypeOK
    BY InitTypes
  <1>2. CallerInv /\ CleanerInv /\ ShutInv
    BY PoolAssumption DEF Init, CallerInv, CallerOK, CleanerInv, ShutInv, HoldAt
  <1>3. QueueInv
    BY DEF Init, QueueInv, Elems, Distinct
  <1>4. PICK k \in 0..InitialSize :
           /\ idle \in [1..k -> Conns] /\ \A i, j \in 1..k : idle[i] = idle[j] => i = j
    BY DEF Init
  <1>5. Distinct(idle) /\ IdleConns \subseteq Conns /\ open = IdleConns
    BY <1>4 DEF Init, Distinct, IdleConns
  <1>6. OwnersApart /\ RegInv /\ OpenInv /\ ClosedInv /\ Covered
    BY <1>5, PoolAssumption
       DEF Init, OwnersApart, RegInv, OpenInv, ClosedInv, DoneAt, Covered, Homes
  <1> QED  BY <1>1, <1>2, <1>3, <1>5, <1>6 DEF ConnInv, CoreInv, HomeInv

(* every step of the pool keeps its core, and drops nothing that is open,   *)
LEMMA CallerCore ==
  ASSUME CoreInv, NEW p \in Callers, CallerStep(p)
  PROVE  CoreInv' /\ PlacesKept /\ UNCHANGED cl
  <1> USE DEF CoreInv
  <1>1. UNCHANGED cl
    BY DEF CallerStep, InGet, InPut,
           Get, Load, Loads, Receive, ReceiveDefault, CheckBad, Discard, CheckGood, Lend,
           Decide, Enter, Park, GiveUp, Retry, Leave, Create, Count, PutClosed, PutBad,
           PutGood, PutNil, PutSend, PutFull, PutCount, Drop, HandleClose, ReceiveNil,
           ParkedPanics, PutPanics, Crash
  <1>2. CleanerInv'
    BY <1>1 DEF CleanerInv
  <1>3. PlacesKept
    BY CallerPlaces
  <1> QED  BY <1>1, <1>2, <1>3, CallerTypes, CallerKept, QueueKept, ShutInvKept DEF PlacesKept

LEMMA ShutCore ==
  ASSUME CoreInv, NEW a \in Admins, ShutStep(a)
  PROVE  CoreInv' /\ PlacesKept
  BY ShutTypes, ShutKept, ShutInvKept DEF CoreInv, PlacesKept

LEMMA CleanCore ==
  ASSUME CoreInv, Cleaner
  PROVE  CoreInv' /\ PlacesKept
  BY CleanTypes, CleanKept, ShutInvKept DEF CoreInv, PlacesKept

LEMMA IdleCore ==
  ASSUME CoreInv, UNCHANGED vars
  PROVE  CoreInv' /\ PlacesKept
  <1> USE DEF CoreInv
  <1>1. TypeOK'
    BY DEF TypeOK, vars, channel, stats, local
  <1>2. CallerInv' /\ QueueInv' /\ CleanerInv' /\ ShutInv'
    BY DEF CallerInv, CallerOK, QueueInv, CleanerInv, ShutInv, vars, channel, local
  <1>3. PlacesKept
    BY TypeParts, QuietPlaces DEF vars, channel, local, FlagType
  <1> QED  BY <1>1, <1>2, <1>3 DEF PlacesKept

(* so that it keeps the invariant,                                         *)
LEMMA ConnInvStep ==
  ASSUME ConnInv, [Next]_vars
  PROVE  ConnInv'
  <1>1. CoreInv' /\ PlacesKept
    BY StepCases, CallerCore, ShutCore, CleanCore, IdleCore DEF ConnInv
  <1>2. ClosedInv' /\ OpenInv' /\ NoneLost
    BY <1>1 DEF ConnInv, PlacesKept
  <1>3. Covered'
    BY <1>2 DEF ConnInv, Covered, NoneLost
  <1> QED  BY <1>1, <1>2, <1>3 DEF ConnInv

(* and so it always holds.                                                 *)
LEMMA ConnInvAlways == Spec => []ConnInv
  BY ConnInvInit, ConnInvStep, PTL DEF Spec

(* No connection is ever in two hands, or in one hand and in the channel,  *)
(* and what lies in the channel is open: for any number of callers,        *)
(* Shutdowns and connections, and any options.                             *)
THEOREM OwnersProved == Spec => []OneOwner
  <1>1. ConnInv => OneOwner
    BY DEF ConnInv, CoreInv, HomeInv, OneOwner, OnePlace, OwnersApart, OpenInv, Distinct
  <1> QED  BY <1>1, ConnInvAlways, PTL

(* When a Shutdown has ended and nobody is in the pool, no raw connection  *)
(* is left open, whatever it overlapped with.                              *)
THEOREM ClosingProved == Spec => []NothingLeftOpen
  <1>1. ConnInv => NothingLeftOpen
    <2> SUFFICES ASSUME ConnInv, Quiet, NEW a \in Admins, sh[a].at \in {"ok", "forced"}
                 PROVE  open = {}
      BY DEF NothingLeftOpen
    <2>1. idle = <<>> /\ IdleConns = {}
      BY DEF ConnInv, CoreInv, ShutInv, IdleConns
    <2>2. cl.conn = None /\ cl.bin = {} /\ \A p \in Callers : conn[p] = None
      BY DEF ConnInv, CoreInv, CleanerInv, CallerInv, CallerOK, HoldAt, Quiet, At
    <2>3. open \subseteq {None} /\ open \subseteq Conns
      BY <2>1, <2>2 DEF ConnInv, CoreInv, Covered, Homes, TypeOK
    <2> QED  BY <2>3, PoolAssumption
  <1> QED  BY <1>1, ConnInvAlways, PTL

-----------------------------------------------------------------------------
(* Counting                                                                *)
Bit(x, S)       == IF x \in S THEN 1 ELSE 0
Change(x, S, T) == Bit(x, T) - Bit(x, S)

(* A set that changes at most by x changes in size by whether x is in it.  *)
LEMMA CardMove ==
  ASSUME NEW S, NEW T, NEW x, IsFiniteSet(S), S \ {x} = T \ {x}
  PROVE  /\ IsFiniteSet(T) /\ Cardinality(S) \in Nat /\ Cardinality(T) \in Nat
         /\ Cardinality(T) = Cardinality(S) + Change(x, S, T)
  <1>1. IsFiniteSet(S \ {x}) /\ Cardinality(S \ {x}) = Cardinality(S) - Bit(x, S)
    <2>1. Cardinality(S) \in Nat
      BY FS_CardinalityType
    <2> QED  BY <2>1, FS_RemoveElement DEF Bit
  <1>2. CASE x \in T
    <2>1. T = (S \ {x}) \cup {x}
      BY <1>2
    <2>2. IsFiniteSet(T) /\ Cardinality(T) = Cardinality(S \ {x}) + 1
      BY <1>1, <2>1, FS_AddElement
    <2> QED  BY <1>1, <1>2, <2>2, FS_CardinalityType DEF Bit, Change
  <1>3. CASE x \notin T
    <2>1. T = S \ {x}
      BY <1>3
    <2> QED  BY <1>1, <1>3, <2>1, FS_CardinalityType DEF Bit, Change
  <1> QED  BY <1>2, <1>3

(* The sets that are counted are finite. *)
LEMMA CountedFinite ==
  /\ IsFiniteSet(Lent) /\ IsFiniteSet(Taken) /\ IsFiniteSet(Giving)
  /\ IsFiniteSet(Creating) /\ IsFiniteSet(Counting) /\ IsFiniteSet(Callers)
  /\ Cardinality(Lent) \in Nat /\ Cardinality(Taken) \in Nat /\ Cardinality(Giving) \in Nat
  /\ Cardinality(Creating) \in Nat /\ Cardinality(Counting) \in Nat /\ Cardinality(Callers) \in Nat
  <1>1. IsFiniteSet(Callers)
    BY PoolAssumption
  <1>2. /\ IsFiniteSet(Lent) /\ IsFiniteSet(Taken) /\ IsFiniteSet(Giving)
        /\ IsFiniteSet(Creating) /\ IsFiniteSet(Counting)
    BY <1>1, FS_Subset DEF Lent, Taken, Giving, Creating, Counting
  <1> QED  BY <1>1, <1>2, FS_CardinalityType

(* A step that moves one caller changes the counted sets by that caller.   *)
LEMMA OneMoves ==
  ASSUME NEW p \in Callers,
         \A q \in Callers \ {p} : pc'[q] = pc[q] /\ conn'[q] = conn[q]
  PROVE  /\ Cardinality(Lent') = Cardinality(Lent) + Change(p, Lent, Lent')
         /\ Cardinality(Taken') = Cardinality(Taken) + Change(p, Taken, Taken')
         /\ Cardinality(Giving') = Cardinality(Giving) + Change(p, Giving, Giving')
         /\ Cardinality(Creating') = Cardinality(Creating) + Change(p, Creating, Creating')
  <1>1. /\ Lent \ {p} = Lent' \ {p} /\ Taken \ {p} = Taken' \ {p}
        /\ Giving \ {p} = Giving' \ {p} /\ Creating \ {p} = Creating' \ {p}
    BY DEF Lent, Taken, Giving, Creating, At
  <1> QED  BY <1>1, CountedFinite, CardMove

(* What a caller's step does to the counts, but for the send of Put. *)
LEMMA CallerDeltas ==
  ASSUME CoreInv, StatType, NEW p \in Callers, CallerStep(p), ~PutSend(p)
  PROVE  /\ Active' = Active + Change(p, Lent, Lent') + (IF HandleClose(p) THEN 1 ELSE 0)
         /\ Idle' = Idle + (Len(idle') - Len(idle)) + Change(p, Taken, Taken')
                      - Change(p, Giving, Giving')
         /\ Total' = Total + (Active' - Active) + (Idle' - Idle)
  <1>0. /\ LocalType /\ CallerOK(p) /\ idle \in Seq(Conns) /\ Len(idle) \in Nat
        /\ Active \in Int /\ Idle \in Int /\ Total \in Int
    BY TypeParts DEF CoreInv, CallerInv, ChanType, StatType
  <1>a. /\ p \in Lent <=> pc[p] \in LentAt \/ (pc[p] = "leave" /\ conn[p] # None)
        /\ p \in Lent' <=> pc'[p] \in LentAt \/ (pc'[p] = "leave" /\ conn'[p] # None)
        /\ p \in Taken <=> pc[p] \in TakenAt
        /\ p \in Taken' <=> pc'[p] \in TakenAt
        /\ p \in Giving <=> pc[p] = "put:count"
        /\ p \in Giving' <=> pc'[p] = "put:count"
    BY DEF Lent, Taken, Giving, At
  <1> USE DEF Change, Bit, LentAt, TakenAt, At, Goto, Hold, Return, LocalType, CallerOK, HoldAt
  <1>1. CASE Receive(p)
    <2>1. Len(idle') = Len(idle) - 1
      BY <1>0, <1>1 DEF Receive
    <2>2. UNCHANGED stats /\ pc'[p] = "check" /\ pc[p] \in {"get:recv", "wait:recv", "retry:recv"}
          /\ ~HandleClose(p) /\ conn[p] = None
      BY <1>0, <1>1 DEF Receive, Receiving, HandleClose
    <2>3. p \notin Lent /\ p \notin Lent' /\ p \notin Taken /\ p \in Taken'
          /\ p \notin Giving /\ p \notin Giving'
      BY <1>a, <2>2
    <2>4. Active' = Active /\ Idle' = Idle /\ Total' = Total /\ Len(idle') \in Int
      BY <1>0, <2>1, <2>2 DEF stats
    <2> QED  BY <1>0, <2>1, <2>2, <2>3, <2>4
  <1>2. CASE Discard(p)
    BY <1>0, <1>a, <1>2 DEF Discard, HandleClose, channel
  <1>3. CASE Lend(p)
    BY <1>0, <1>a, <1>3 DEF Lend, HandleClose, channel
  <1>4. CASE Leave(p)
    BY <1>0, <1>a, <1>4 DEF Leave, HandleClose, channel
  <1>5. CASE Count(p)
    BY <1>0, <1>a, <1>5 DEF Count, HandleClose, channel
  <1>6. CASE PutCount(p)
    BY <1>0, <1>a, <1>6 DEF PutCount, HandleClose, channel
  <1>7. CASE Drop(p)
    BY <1>0, <1>a, <1>7 DEF Drop, HandleClose, channel
  <1>8. CASE HandleClose(p)
    BY <1>0, <1>a, <1>8 DEF HandleClose, channel, stats
  <1>9. CASE /\ ~Receive(p) /\ ~Discard(p) /\ ~Lend(p) /\ ~Leave(p) /\ ~Count(p)
             /\ ~PutCount(p) /\ ~Drop(p) /\ ~HandleClose(p)
    <2>1. UNCHANGED idle /\ UNCHANGED Active /\ UNCHANGED Idle /\ UNCHANGED Total
      BY <1>9 DEF CallerStep, InGet, InPut, channel, stats,
           Get, Load, Loads, ReceiveDefault, CheckBad, CheckGood,
           Decide, Enter, Park, GiveUp, Retry, Create, PutClosed, PutBad,
           PutGood, PutNil, PutFull, ReceiveNil,
           ParkedPanics, PutPanics, Crash
    <2>2. /\ p \in Lent' <=> p \in Lent
          /\ p \in Taken' <=> p \in Taken
          /\ p \in Giving' <=> p \in Giving
      BY <1>0, <1>a, <1>9 DEF CallerStep, InGet, InPut, channel, local,
           Get, Load, Loads, ReceiveDefault, CheckBad, CheckGood,
           Decide, Enter, Park, GiveUp, Retry, Create, PutClosed, PutBad,
           PutGood, PutNil, PutFull, ReceiveNil,
           ParkedPanics, PutPanics, Crash
    <2> QED  BY <1>0, <1>9, <2>1, <2>2
  <1> QED  BY <1>1, <1>2, <1>3, <1>4, <1>5, <1>6, <1>7, <1>8, <1>9

(* A connection is leaked by closing its handle, and by nothing else. *)
LEMMA CallerLeaks ==
  ASSUME CoreInv, NEW p \in Callers, CallerStep(p)
  PROVE  /\ HandleClose(p) => Leaked' = Leaked \cup {conn[p]} /\ conn[p] \notin Leaked
         /\ ~HandleClose(p) => Leaked' = Leaked
  <1>0. /\ LocalType /\ CallerOK(p) /\ idle \in Seq(Conns)
        /\ None \notin Conns /\ conn[p] \in Conns \cup {None} /\ activeConns \subseteq Conns
        /\ OwnersApart /\ RegInv /\ CallerInv /\ QueueInv /\ TypeOK
    BY TypeParts, PoolAssumption
       DEF CoreInv, CallerInv, ChanType, LocalType, SetType, HomeInv
  <1>b. conn[p] # None =>
          /\ conn[p] \notin IdleConns
          /\ \A q \in Callers \ {p} : conn[q] # conn[p]
          /\ conn[p] \in activeConns <=> pc[p] \in RegAt
    BY <1>0 DEF OwnersApart, RegInv
  <1> USE DEF Leaked, HoldAt, RegAt, Goto, Hold, At
  <1>1. CASE HandleClose(p)
    BY <1>0, <1>b, <1>1 DEF HandleClose, LocalType, CallerOK
  <1>2. CASE PutSend(p)
    <2> DEFINE c == conn[p]
    <2>1. /\ pc[p] = "put:send" /\ c \in Conns /\ Send(c, {p}, "put:count")
          /\ c \notin activeConns /\ UNCHANGED activeConns
      BY <1>0, <1>b, <1>2 DEF PutSend, CallerOK
    <2>2. \A q \in Callers : conn'[q] # conn[q] => conn[q] \in {c, None} /\ conn'[q] \in {c, None}
      <3>1. ASSUME NEW w \in Callers, pc[w] = "parked"
            PROVE  conn[w] = None
        BY <1>0, <3>1 DEF CallerInv, CallerOK
      <3> QED  BY <1>0, <2>1, <3>1, SendMoves DEF Labels
    <2>3. ~HandleClose(p)
      BY <1>2 DEF PutSend, HandleClose
    <2> QED  BY <1>0, <2>1, <2>2, <2>3
  <1>3. CASE Receive(p)
    <2>1. Head(idle) \in IdleConns /\ Head(idle) \in Conns
      BY <1>0, <1>3 DEF Receive, IdleConns
    <2>2. /\ conn' = [conn EXCEPT ![p] = Head(idle)] /\ conn[p] = None
          /\ UNCHANGED activeConns /\ ~HandleClose(p)
      BY <1>0, <1>3 DEF Receive, Receiving, CallerOK, HandleClose
    <2> QED  BY <1>0, <2>1, <2>2 DEF RegInv, LocalType
  <1>4. CASE Create(p)
    <2>1. conn[p] = None /\ ~HandleClose(p)
      BY <1>0, <1>4 DEF Create, CallerOK, HandleClose
    <2>2. CASE Return(p, None) /\ UNCHANGED <<open, activeConns>>
      BY <1>0, <2>1, <2>2 DEF Return, LocalType
    <2>3. ASSUME NEW c \in Fresh, activeConns' = activeConns \cup {c}, Hold(p, c)
          PROVE  Leaked' = Leaked
      BY <1>0, <2>1, <2>3 DEF Fresh, InUse, LocalType
    <2> QED  BY <1>4, <2>1, <2>2, <2>3 DEF Create
  <1>5. CASE Discard(p) \/ Drop(p)
    BY <1>0, <1>b, <1>5 DEF Discard, Drop, HandleClose, LocalType, CallerOK
  <1>6. CASE CheckGood(p) \/ PutBad(p) \/ PutGood(p)
    BY <1>0, <1>b, <1>6 DEF CheckGood, PutBad, PutGood, HandleClose, LocalType, CallerOK
  <1>7. CASE /\ ~HandleClose(p) /\ ~PutSend(p) /\ ~Receive(p) /\ ~Create(p) /\ ~Discard(p)
             /\ ~Drop(p) /\ ~CheckGood(p) /\ ~PutBad(p) /\ ~PutGood(p)
    <2>1. UNCHANGED activeConns /\ UNCHANGED conn
      BY <1>0, <1>7 DEF CallerStep, InGet, InPut, local, Return, LocalType, CallerOK,
           Get, Load, Loads, ReceiveDefault, CheckBad, Lend, Decide, Enter, Park, GiveUp,
           Retry, Leave, Count, PutClosed, PutNil, PutFull, PutCount, ReceiveNil,
           ParkedPanics, PutPanics, Crash
    <2> QED  BY <1>7, <2>1
  <1> QED  BY <1>1, <1>2, <1>3, <1>4, <1>5, <1>6, <1>7

(* Waiters follows the waits that the callers have begun and not left. *)
LEMMA CallerWaits ==
  ASSUME CoreInv, CountInv, NEW p \in Callers, CallerStep(p)
  PROVE  IsFiniteSet(WaitSet') /\ Waiters' = Cardinality(WaitSet')
  <1>0. /\ waits \in [Callers -> Nat] /\ CallerOK(p) /\ Waiters \in Int
        /\ IsFiniteSet(WaitSet) /\ Waiters = Cardinality(WaitSet)
    BY TypeParts DEF CoreInv, CallerInv, LocalType, StatType, CountInv
  <1>1. CASE Enter(p)
    <2> DEFINE x == <<p, waits[p] + 1>>
    <2>1. waits' = [waits EXCEPT ![p] = waits[p] + 1] /\ Waiters' = Waiters + 1
      BY <1>1 DEF Enter
    <2>2. x \notin WaitSet
      BY <1>0 DEF WaitSet
    <2>3. 1..(waits[p] + 1) = (1..waits[p]) \cup {waits[p] + 1}
      BY <1>0
    <2>4. WaitSet' = WaitSet \cup {x}
      BY <1>0, <2>1, <2>3 DEF WaitSet
    <2> QED  BY <1>0, <2>1, <2>2, <2>4, FS_AddElement
  <1>2. CASE Leave(p)
    <2> DEFINE x == <<p, waits[p]>>
    <2>1. waits' = [waits EXCEPT ![p] = waits[p] - 1] /\ Waiters' = Waiters - 1 /\ waits[p] > 0
      BY <1>0, <1>2 DEF Leave, CallerOK, At
    <2>2. x \in WaitSet
      BY <1>0, <2>1 DEF WaitSet
    <2>3. 1..(waits[p] - 1) = (1..waits[p]) \ {waits[p]}
      BY <1>0
    <2>4. WaitSet' = WaitSet \ {x}
      BY <1>0, <2>1, <2>3 DEF WaitSet
    <2> QED  BY <1>0, <2>1, <2>2, <2>4, FS_RemoveElement
  <1>3. CASE ~Enter(p) /\ ~Leave(p)
    <2>1. UNCHANGED waits /\ UNCHANGED Waiters
      BY <1>3 DEF CallerStep, InGet, InPut, local, stats,
           Get, Load, Loads, Receive, ReceiveDefault, CheckBad, Discard, CheckGood, Lend,
           Decide, Park, GiveUp, Retry, Create, Count, PutClosed, PutBad,
           PutGood, PutNil, PutSend, PutFull, PutCount, Drop, HandleClose, ReceiveNil,
           ParkedPanics, PutPanics, Crash
    <2> QED  BY <1>0, <2>1 DEF WaitSet
  <1> QED  BY <1>1, <1>2, <1>3

(* A send moves an element into the channel, or a parked caller out of it. *)
LEMMA SendCounts ==
  ASSUME CoreInv, NEW c \in Conns, NEW S \in SUBSET Callers, Send(c, S, "put:count"),
         \A q \in S : pc[q] = "put:send"
  PROVE  /\ Lent' = Lent /\ Creating' = Creating /\ Giving' = Giving \cup S
         /\ Len(idle') + Cardinality(Taken') = Len(idle) + Cardinality(Taken) + 1
         /\ Cardinality(Taken') \in Nat
  <1>0. /\ idle \in Seq(Conns) /\ Len(idle) \in Nat /\ TypeOK /\ QueueInv
    BY TypeParts DEF CoreInv, ChanType
  <1>1. \/ /\ idle' = Append(idle, c)
           /\ \A q \in Callers : pc'[q] = IF q \in S THEN "put:count" ELSE pc[q]
           /\ \A q \in Callers : conn'[q] = IF q \in S THEN None ELSE conn[q]
        \/ \E w \in Callers \ S :
              /\ pc[w] = "parked" /\ idle' = idle
              /\ \A q \in Callers : pc'[q] = IF q = w THEN "check" ELSE
                                             IF q \in S THEN "put:count" ELSE pc[q]
              /\ \A q \in Callers : conn'[q] = IF q = w THEN c ELSE
                                               IF q \in S THEN None ELSE conn[q]
    BY <1>0, SendMoves DEF Labels
  <1>2. CASE /\ idle' = Append(idle, c)
             /\ \A q \in Callers : pc'[q] = IF q \in S THEN "put:count" ELSE pc[q]
             /\ \A q \in Callers : conn'[q] = IF q \in S THEN None ELSE conn[q]
    <2>1. Lent' = Lent /\ Creating' = Creating /\ Giving' = Giving \cup S /\ Taken' = Taken
      BY <1>2 DEF Lent, Creating, Giving, Taken, LentAt, TakenAt, At
    <2>2. Len(idle') = Len(idle) + 1
      BY <1>0, <1>2
    <2> QED  BY <1>0, <2>1, <2>2, CountedFinite
  <1>3. ASSUME NEW w \in Callers \ S, pc[w] = "parked", idle' = idle,
               \A q \in Callers : pc'[q] = IF q = w THEN "check" ELSE
                                           IF q \in S THEN "put:count" ELSE pc[q],
               \A q \in Callers : conn'[q] = IF q = w THEN c ELSE
                                             IF q \in S THEN None ELSE conn[q]
        PROVE  /\ Lent' = Lent /\ Creating' = Creating /\ Giving' = Giving \cup S
               /\ Len(idle') + Cardinality(Taken') = Len(idle) + Cardinality(Taken) + 1
               /\ Cardinality(Taken') \in Nat
    <2>1. /\ Lent' = Lent /\ Creating' = Creating /\ Giving' = Giving \cup S
          /\ Taken' = Taken \cup {w} /\ w \notin Taken
      BY <1>3 DEF Lent, Creating, Giving, Taken, LentAt, TakenAt, At
    <2>2. Cardinality(Taken') = Cardinality(Taken) + 1
      BY <2>1, CountedFinite, FS_AddElement
    <2> QED  BY <1>0, <1>3, <2>1, <2>2, CountedFinite
  <1> QED  BY <1>1, <1>2, <1>3

(* Every step of a caller keeps the counts to what they stand for,         *)
LEMMA CallerCounts ==
  ASSUME CoreInv, CountInv, NEW p \in Callers, CallerStep(p)
  PROVE  CountInv'
  <1> DEFINE L == Cardinality(Lent)  T == Cardinality(Taken)  G == Cardinality(Giving)
             K == Cardinality(Leaked)
  <1>0. /\ Active \in Int /\ Idle \in Int /\ Total \in Int /\ Len(idle) \in Nat
        /\ Cleaning \in Int /\ TypeOK /\ CallerOK(p) /\ conn[p] \in Conns \cup {None}
        /\ idle \in Seq(Conns)
    BY TypeParts DEF CoreInv, CallerInv, StatType, ChanType, LocalType, Cleaning
  <1>1. L \in Int /\ T \in Int /\ G \in Int /\ K \in Int
    BY CountedFinite, FS_CardinalityType DEF CountInv
  <1>a. Len(idle') \in Nat
    <2>1. TypeOK'
      BY <1>0, CallerTypes DEF CoreInv
    <2> QED  BY <2>1 DEF TypeOK
  <1>2. UNCHANGED nilled /\ Cleaning' = Cleaning
    BY DEF CallerStep, InGet, InPut, channel, Cleaning,
           Get, Load, Loads, Receive, ReceiveDefault, CheckBad, Discard, CheckGood, Lend,
           Decide, Enter, Park, GiveUp, Retry, Leave, Create, Count, PutClosed, PutBad,
           PutGood, PutNil, PutSend, PutFull, PutCount, Drop, HandleClose, ReceiveNil,
           ParkedPanics, PutPanics, Crash
  <1>3. /\ IsFiniteSet(Leaked')
        /\ Cardinality(Leaked') = K + (IF HandleClose(p) THEN 1 ELSE 0)
    BY <1>1, CallerLeaks, FS_AddElement DEF CountInv
  <1>4. CASE PutSend(p)
    <2> DEFINE t == Cardinality(Taken')
    <2>1. /\ pc[p] = "put:send" /\ conn[p] \in Conns /\ Send(conn[p], {p}, "put:count")
          /\ UNCHANGED stats /\ ~HandleClose(p)
      BY <1>0, <1>4 DEF PutSend, At, CallerOK, HoldAt, HandleClose
    <2>2. /\ Lent' = Lent /\ Giving' = Giving \cup {p}
          /\ Len(idle') + t = Len(idle) + T + 1 /\ t \in Nat
      BY <2>1, SendCounts
    <2>3. Cardinality(Giving') = G + 1
      BY <2>1, <2>2, CountedFinite, FS_AddElement DEF Giving, At
    <2>4. /\ IdleNow = Len(idle) + T - G + Cleaning
          /\ IdleNow' = Len(idle') + t - (G + 1) + Cleaning
      BY <1>2, <2>3 DEF IdleNow
    <2> HIDE DEF t, T, G
    <2>5. IdleNow' = IdleNow
      BY <1>0, <1>1, <1>a, <2>2, <2>4
    <2> QED  BY <1>0, <1>1, <1>2, <1>3, <2>1, <2>2, <2>5, CallerWaits DEF CountInv, stats
  <1>5. CASE ~PutSend(p)
    <2> DEFINE dl == Change(p, Lent, Lent')   dt == Change(p, Taken, Taken')
               dg == Change(p, Giving, Giving')  dk == IF HandleClose(p) THEN 1 ELSE 0
    <2>1. dl \in Int /\ dt \in Int /\ dg \in Int /\ dk \in Int
      BY DEF Bit, Change
    <2>2. /\ Cardinality(Lent') = L + dl
          /\ Cardinality(Taken') = T + dt
          /\ Cardinality(Giving') = G + dg
          /\ Cardinality(Leaked') = K + dk
      BY <1>0, <1>3, <1>5, OthersStay, OneMoves
    <2>3. /\ Active' = Active + dl + dk
          /\ Idle' = Idle + (Len(idle') - Len(idle)) + dt - dg
          /\ Total' = Total + (Active' - Active) + (Idle' - Idle)
      BY <1>0, <1>5, CallerDeltas, TypeParts
    <2>4. Active = L + K /\ Total = Active + Idle /\ Idle >= IdleNow /\ (~nilled => Idle = IdleNow)
      BY DEF CountInv
    <2> HIDE DEF dl, dt, dg, dk
    <2>5. /\ IdleNow = Len(idle) + T - G + Cleaning
          /\ IdleNow' = Len(idle') + (T + dt) - (G + dg) + Cleaning
      BY <1>2, <2>2 DEF IdleNow
    <2> HIDE DEF L, T, G, K
    <2>6. /\ Active' = Cardinality(Lent') + Cardinality(Leaked')
          /\ Idle' >= IdleNow' /\ (~nilled => Idle' = IdleNow')
          /\ Total' = Active' + Idle'
      BY <1>0, <1>1, <1>a, <2>1, <2>2, <2>3, <2>4, <2>5
    <2> QED  BY <1>2, <1>3, <2>6, CallerWaits DEF CountInv
  <1> QED  BY <1>4, <1>5

(* so does Shutdown, which counts nothing while it drains the channel,     *)
LEMMA ShutCounts ==
  ASSUME CoreInv, CountInv, NEW a \in Admins, ShutStep(a)
  PROVE  CountInv'
  <1>0. /\ Idle \in Int /\ idle \in Seq(Conns) /\ Len(idle) \in Nat
        /\ Cardinality(Taken) \in Int /\ Cardinality(Giving) \in Int /\ Cleaning \in Int
    BY TypeParts, CountedFinite DEF CoreInv, StatType, ChanType, Cleaning
  <1>1. UNCHANGED stats /\ UNCHANGED pc /\ UNCHANGED conn /\ UNCHANGED waits
        /\ UNCHANGED activeConns /\ UNCHANGED cl /\ (nilled => nilled')
    BY DEF ShutStep, InShutdown, ShutBegin, ShutActive, ShutFlag, ShutChan, ShutPanics,
           ShutDrain, ShutTick, ShutForce, Crash, channel, local
  <1>2. UNCHANGED idle \/ (nilled /\ idle # <<>> /\ idle' = Tail(idle))
    BY DEF CoreInv, ShutInv, ShutStep, InShutdown, ShutBegin, ShutActive, ShutFlag, ShutChan,
           ShutPanics, ShutDrain, ShutTick, ShutForce, Crash, channel, local
  <1>3. Len(idle') <= Len(idle) /\ Len(idle') \in Nat /\ (~nilled => Len(idle') = Len(idle))
    BY <1>0, <1>2
  <1>4. /\ Lent' = Lent /\ Taken' = Taken /\ Giving' = Giving /\ Leaked' = Leaked
        /\ WaitSet' = WaitSet /\ Cleaning' = Cleaning
    BY <1>1 DEF Lent, Taken, Giving, Leaked, WaitSet, Cleaning, At
  <1> DEFINE T == Cardinality(Taken)  G == Cardinality(Giving)
  <1>5. IdleNow = Len(idle) + T - G + Cleaning /\ IdleNow' = Len(idle') + T - G + Cleaning
    BY <1>4 DEF IdleNow
  <1>6. T \in Int /\ G \in Int
    BY <1>0
  <1> HIDE DEF T, G
  <1>7. IdleNow' <= IdleNow /\ (~nilled => IdleNow' = IdleNow)
        /\ IdleNow \in Int /\ IdleNow' \in Int
    BY <1>0, <1>3, <1>5, <1>6
  <1> QED  BY <1>0, <1>1, <1>4, <1>7 DEF CountInv, stats

(* and so does the cleaner, that has one connection at a time uncounted.   *)
LEMMA CleanCounts ==
  ASSUME CoreInv, CountInv, Cleaner
  PROVE  CountInv'
  <1> DEFINE T == Cardinality(Taken)  G == Cardinality(Giving)  n == Len(idle)  c == Cleaning
             t == Cardinality(Taken')  m == Len(idle')  d == Cleaning'
  <1>0. /\ Active \in Int /\ Idle \in Int /\ Total \in Int /\ n \in Int /\ T \in Int /\ G \in Int
        /\ c \in Int /\ d \in Int
        /\ idle \in Seq(Conns) /\ cl.conn \in Conns \cup {None} /\ activeConns \subseteq Conns
        /\ CleanType /\ None \notin Conns
    BY TypeParts, CountedFinite, PoolAssumption
       DEF CoreInv, StatType, ChanType, SetType, CleanType, Cleaning
  <1>1. UNCHANGED Active /\ UNCHANGED Waiters /\ UNCHANGED nilled /\ UNCHANGED waits
        /\ UNCHANGED activeConns
    BY DEF Cleaner, CleanTick, CleanLen, CleanLoad, CleanReceive, CleanExpired, CleanSend,
           CleanFull, CleanPanics, CleanBin, Crash, channel, stats, local
  <1> DEFINE Moved(e) == /\ Lent' = Lent /\ Giving' = Giving /\ Leaked' = Leaked
                         /\ t \in Int /\ m \in Int /\ m + t + d = n + T + c + e
                         /\ Idle' = Idle + e /\ Total' = Total + e
  <1>2. Moved(0) \/ Moved(-1)
    <2>1. CASE CleanSend
      <3>1. /\ Send(cl.conn, {}, "idle") /\ cl.conn \in Conns /\ UNCHANGED stats
            /\ cl.conn \notin activeConns /\ c = 1 /\ d = 0
        BY <1>0, <2>1 DEF CleanSend, CleanNext, CoreInv, CleanerInv, HomeInv, RegInv, Cleaning
      <3>2. Send(cl.conn, {}, "put:count")
        BY <3>1 DEF Send
      <3>3. Lent' = Lent /\ Giving' = Giving /\ m + t = n + T + 1 /\ t \in Int
        <4>1. {} \in SUBSET Callers /\ \A q \in {} : pc[q] = "put:send"
          OBVIOUS
        <4>2. /\ Lent' = Lent /\ Giving' = Giving \cup {} /\ m + t = n + T + 1 /\ t \in Nat
          BY <3>1, <3>2, <4>1, SendCounts
        <4> QED  BY <4>2
      <3>4. \A q \in Callers : conn'[q] # conn[q] => conn[q] = None /\ conn'[q] = cl.conn
        <4>1. \A w \in Callers : pc[w] = "parked" => conn[w] = None
          BY DEF CoreInv, CallerInv, CallerOK, HoldAt
        <4> QED  BY <3>1, <3>2, <4>1, SendMoves DEF Labels, CoreInv
      <3>5. Leaked' = Leaked
        BY <1>0, <1>1, <3>1, <3>4 DEF Leaked
      <3>6. m \in Int
        <4>1. TypeOK'
          BY CleanTypes DEF CoreInv
        <4> QED  BY <4>1 DEF TypeOK
      <3> HIDE DEF T, G, n, c, t, m, d
      <3> QED  BY <1>0, <3>1, <3>3, <3>5, <3>6 DEF stats
    <2>2. CASE ~CleanSend
      <3>1. UNCHANGED pc /\ UNCHANGED conn
        BY <2>2 DEF Cleaner, CleanTick, CleanLen, CleanLoad, CleanReceive, CleanExpired,
           CleanFull, CleanPanics, CleanBin, Crash, local
      <3>2. Lent' = Lent /\ Giving' = Giving /\ Leaked' = Leaked /\ t = T
        BY <1>1, <3>1 DEF Lent, Giving, Taken, Leaked, At
      <3>3. CASE CleanExpired
        <4>1. m = n /\ c = 1 /\ d = 0 /\ Idle' = Idle - 1 /\ Total' = Total - 1
          BY <3>3 DEF CleanExpired, CleanNext, Cleaning, channel
        <4> HIDE DEF T, G, n, c, t, m, d
        <4> QED  BY <1>0, <3>2, <4>1
      <3>4. CASE CleanReceive /\ cl'.at # "load"
        <4>1. idle # <<>> /\ idle' = Tail(idle) /\ c = 0 /\ UNCHANGED stats
          BY <3>4 DEF CleanReceive, CleanNext, Cleaning
        <4>2. cl'.at \in {"expired", "reload"}
          <5> DEFINE h == Head(idle)
          <5>1. \/ cl' = [cl EXCEPT !.at = "expired", !.bin = @ \cup {h}, !.ch = FALSE]
                \/ cl' = [cl EXCEPT !.at = "reload", !.conn = h, !.ch = FALSE]
            BY <3>4 DEF CleanReceive, CleanNext
          <5> HIDE DEF h
          <5> QED  BY <1>0, <5>1 DEF CleanType
        <4>3. m = n - 1 /\ d = 1
          BY <1>0, <4>1, <4>2 DEF Cleaning
        <4> HIDE DEF T, G, n, c, t, m, d
        <4> QED  BY <1>0, <3>2, <4>1, <4>3 DEF stats
      <3>5. CASE ~CleanExpired /\ ~(CleanReceive /\ cl'.at # "load")
        <4>0. CleanReceive => CleanNext /\ UNCHANGED idle /\ cl.at = "recv"
          BY <1>0, <3>5 DEF CleanReceive, CleanType
        <4>1. UNCHANGED idle /\ UNCHANGED stats
          BY <2>2, <3>5, <4>0 DEF Cleaner, CleanTick, CleanLen, CleanLoad, CleanReceive,
             CleanFull, CleanPanics, CleanBin, Crash, channel
        <4>2. d = c
          BY <1>0, <2>2, <3>5, <4>0 DEF Cleaner, CleanTick, CleanLen, CleanLoad, CleanNext,
             CleanFull, CleanPanics, CleanBin, Crash, CleanType, Cleaning
        <4>3. m = n
          BY <4>1
        <4> HIDE DEF T, G, n, c, t, m, d
        <4> QED  BY <1>0, <3>2, <4>1, <4>2, <4>3 DEF stats
      <3> QED  BY <3>3, <3>4, <3>5
    <2> QED  BY <2>1, <2>2
  <1>3. IdleNow = n + T - G + c /\ IdleNow' = m + t - G + d
    BY <1>2 DEF IdleNow
  <1>4. WaitSet' = WaitSet
    BY <1>1 DEF WaitSet
  <1>5. Idle >= IdleNow /\ (~nilled => Idle = IdleNow) /\ Total = Active + Idle
    BY DEF CountInv
  <1>6. ASSUME NEW e \in Int, Moved(e)
        PROVE  CountInv'
    <2> HIDE DEF T, G, n, c, t, m, d
    <2>0. /\ m + t + d = n + T + c + e /\ Idle' = Idle + e /\ Total' = Total + e
          /\ t \in Int /\ m \in Int
      BY <1>6
    <2> DEFINE old == n + T - G + c  new == m + t - G + d
    <2>1. old \in Int /\ new = old + e
      BY <1>0, <2>0
    <2>a. IdleNow = old /\ IdleNow' = new
      BY <1>3
    <2> HIDE DEF old, new
    <2>2. Idle' >= IdleNow' /\ (~nilled => Idle' = IdleNow') /\ Total' = Active + Idle'
      BY <1>0, <1>5, <2>0, <2>1, <2>a
    <2> QED  BY <1>1, <1>4, <1>6, <2>2 DEF CountInv
  <1> QED  BY <1>2, <1>6

(* CountInv is inductive, given ConnInv.                                   *)
LEMMA CountInvInit ==
  ASSUME Init
  PROVE  CountInv
  <1>1. PICK k \in 0..InitialSize : idle \in [1..k -> Conns] /\ Idle = k /\ Total = k
    BY DEF Init
  <1>2. k \in Nat /\ Len(idle) = k
    BY <1>1, PoolAssumption
  <1>3. Lent = {} /\ Taken = {} /\ Giving = {} /\ Leaked = {} /\ WaitSet = {} /\ Cleaning = 0
    BY DEF Init, Lent, Taken, Giving, Leaked, WaitSet, Cleaning, LentAt, TakenAt, At
  <1> QED  BY <1>1, <1>2, <1>3, FS_EmptySet DEF Init, CountInv, IdleNow

LEMMA CountsStay ==
  ASSUME CountInv, UNCHANGED vars
  PROVE  CountInv'
  BY DEF vars, channel, stats, local, CountInv, IdleNow, Lent, Taken, Giving, Leaked, WaitSet,
         Cleaning, At

LEMMA CountInvAlways == Spec => []CountInv
  <1>1. ConnInv /\ CountInv /\ [Next]_vars => CountInv'
    BY StepCases, CountsStay, CallerCounts, ShutCounts, CleanCounts DEF ConnInv
  <1> QED  BY <1>1, CountInvInit, ConnInvAlways, PTL DEF Spec

(* The counts are exact, whatever is under way. *)
THEOREM CountsProved == Spec => []CountsExact
  <1>1. CountInv => CountsExact
    BY DEF CountInv, CountsExact, IdleNow, Lent, Taken, Giving, WaitSet, Cleaning
  <1> QED  BY <1>1, CountInvAlways, PTL

-----------------------------------------------------------------------------
(* MaxActive                                                               *)

(* But for a caller that finds room, no step adds to what is counted and   *)
(* about to be.                                                            *)
LEMMA CallerRoom ==
  ASSUME CoreInv, RoomInv, NEW p \in Callers, CallerStep(p)
  PROVE  RoomInv'
  <1> DEFINE N == Cardinality(Callers)  R == Cardinality(Creating)
  <1>0. /\ LocalType /\ CallerOK(p) /\ Active \in Int /\ Idle \in Int /\ MaxActive \in Nat
        /\ N \in Int /\ R \in Int /\ TypeOK /\ conn[p] \in Conns \cup {None}
    BY TypeParts, CountedFinite, PoolAssumption DEF CoreInv, CallerInv, StatType, LocalType
  <1> SUFFICES ASSUME MaxActive > 0, Active + Idle + R <= MaxActive - 1 + N
               PROVE  Active' + Idle' + Cardinality(Creating') <= MaxActive - 1 + N
    BY DEF RoomInv
  <1> USE DEF At, Goto, Hold, Return
  <1>1. CASE PutSend(p)
    <2>1. /\ pc[p] = "put:send" /\ conn[p] \in Conns /\ Send(conn[p], {p}, "put:count")
          /\ UNCHANGED stats
      BY <1>0, <1>1 DEF PutSend, CallerOK, HoldAt
    <2>2. Creating' = Creating
      BY <2>1, SendCounts
    <2> QED  BY <1>0, <2>1, <2>2 DEF stats
  <1>2. CASE (Decide(p) \/ Retry(p)) /\ HasRoom
    <2>1. UNCHANGED stats /\ Active + Idle < MaxActive
      BY <1>0, <1>2 DEF Decide, Retry, HasRoom
    <2>2. Cardinality(Creating') <= N /\ Cardinality(Creating') \in Nat
      <3>1. Creating' \in SUBSET Callers
        BY DEF Creating
      <3> QED  BY <3>1, CountedFinite, FS_Subset, FS_CardinalityType
    <2> DEFINE r == Cardinality(Creating')
    <2> HIDE DEF r, N, R
    <2>3. Active + Idle + r <= MaxActive - 1 + N
      BY <1>0, <2>1, <2>2 DEF r
    <2> QED  BY <2>1, <2>3 DEF stats, r
  <1>3. CASE ~PutSend(p) /\ ~((Decide(p) \/ Retry(p)) /\ HasRoom)
    <2> DEFINE dr == Change(p, Creating, Creating')
    <2>1. Cardinality(Creating') = R + dr
      BY <1>0, <1>3, OthersStay, OneMoves
    <2>a. /\ p \in Creating <=> pc[p] \in {"create", "count"}
          /\ p \in Creating' <=> pc'[p] \in {"create", "count"}
      BY DEF Creating
    <2> USE DEF Change, Bit, LocalType, CallerOK
    <2>2. \E da, di \in {-1, 0, 1} :
             Active' = Active + da /\ Idle' = Idle + di /\ da + di + dr <= 0
      <3>1. CASE Discard(p) \/ Lend(p) \/ Count(p) \/ PutCount(p) \/ Drop(p)
        BY <1>0, <2>a, <3>1 DEF Discard, Lend, Count, PutCount, Drop
      <3>2. CASE ~(Discard(p) \/ Lend(p) \/ Count(p) \/ PutCount(p) \/ Drop(p))
        <4>1. UNCHANGED Active /\ UNCHANGED Idle
          BY <1>3, <3>2 DEF CallerStep, InGet, InPut, stats,
           Get, Load, Loads, Receive, ReceiveDefault, CheckBad, CheckGood,
           Decide, Enter, Park, GiveUp, Retry, Leave, Create, PutClosed, PutBad,
           PutGood, PutNil, PutFull, HandleClose, ReceiveNil,
           ParkedPanics, PutPanics, Crash
        <4>2. p \in Creating' => p \in Creating
          BY <1>0, <1>3, <2>a, <3>2 DEF CallerStep, InGet, InPut, local,
           Get, Load, Loads, Receive, ReceiveDefault, CheckBad, CheckGood,
           Decide, Enter, Park, GiveUp, Retry, Leave, Create, PutClosed, PutBad,
           PutGood, PutNil, PutFull, HandleClose, ReceiveNil,
           ParkedPanics, PutPanics, Crash
        <4> QED  BY <1>0, <4>1, <4>2
      <3> QED  BY <3>1, <3>2
    <2>3. dr \in Int
      OBVIOUS
    <2> HIDE DEF dr, N, R
    <2> QED  BY <1>0, <2>1, <2>2, <2>3
  <1> QED  BY <1>1, <1>2, <1>3

(* Nor does the cleaner or a Shutdown.                                     *)
LEMMA OtherRoom ==
  ASSUME CoreInv, RoomInv, Cleaner \/ (\E a \in Admins : ShutStep(a))
  PROVE  RoomInv'
  <1> DEFINE N == Cardinality(Callers)  R == Cardinality(Creating)
  <1>0. /\ Active \in Int /\ Idle \in Int /\ MaxActive \in Nat /\ N \in Int /\ R \in Int
        /\ cl.conn \in Conns \cup {None} /\ None \notin Conns
    BY TypeParts, CountedFinite, PoolAssumption DEF CoreInv, StatType, CleanType
  <1>1. Creating' = Creating
    <2>1. CASE CleanSend
      <3>1. Send(cl.conn, {}, "idle") /\ cl.conn \in Conns
        BY <1>0, <2>1 DEF CleanSend, CoreInv, CleanerInv
      <3>2. Send(cl.conn, {}, "put:count") /\ {} \in SUBSET Callers
            /\ \A q \in {} : pc[q] = "put:send"
        BY <3>1 DEF Send
      <3> QED  BY <3>1, <3>2, SendCounts
    <2>2. CASE ~CleanSend
      <3>1. UNCHANGED pc
        BY <2>2 DEF Cleaner, CleanTick, CleanLen, CleanLoad, CleanReceive, CleanExpired,
           CleanFull, CleanPanics, CleanBin, Crash, local, ShutStep, InShutdown, ShutBegin,
           ShutActive, ShutFlag, ShutChan, ShutPanics, ShutDrain, ShutTick, ShutForce
      <3> QED  BY <3>1 DEF Creating
    <2> QED  BY <2>1, <2>2
  <1>2. Active' = Active /\ (Idle' = Idle \/ Idle' = Idle - 1)
    BY DEF Cleaner, CleanTick, CleanLen, CleanLoad, CleanReceive, CleanExpired, CleanSend,
           CleanFull, CleanPanics, CleanBin, Crash, stats, ShutStep, InShutdown, ShutBegin,
           ShutActive, ShutFlag, ShutChan, ShutPanics, ShutDrain, ShutTick, ShutForce
  <1>3. R = Cardinality(Creating')
    BY <1>1
  <1> HIDE DEF N, R
  <1> QED  BY <1>0, <1>2, <1>3 DEF RoomInv, N, R

(* The union of two finite sets is no larger than both, and as large if    *)
(* they are disjoint.                                                      *)
LEMMA UnionBound ==
  ASSUME NEW S, NEW T, IsFiniteSet(S), IsFiniteSet(T)
  PROVE  /\ IsFiniteSet(S \cup T)
         /\ Cardinality(S) \in Nat /\ Cardinality(T) \in Nat /\ Cardinality(S \cup T) \in Nat
         /\ Cardinality(S \cup T) <= Cardinality(S) + Cardinality(T)
         /\ S \cap T = {} => Cardinality(S \cup T) = Cardinality(S) + Cardinality(T)
  <1> DEFINE U == S \cup T  V == S \cap T
  <1>1. IsFiniteSet(U) /\ Cardinality(U) = Cardinality(S) + Cardinality(T) - Cardinality(V)
    BY FS_Union
  <1>2. IsFiniteSet(V) /\ (V = {} => Cardinality(V) = 0)
    BY FS_Subset, FS_EmptySet
  <1> HIDE DEF U, V
  <1>3. /\ Cardinality(S) \in Nat /\ Cardinality(T) \in Nat /\ Cardinality(U) \in Nat
        /\ Cardinality(V) \in Nat
    BY <1>1, <1>2, FS_CardinalityType
  <1>4. /\ Cardinality(U) <= Cardinality(S) + Cardinality(T)
        /\ V = {} => Cardinality(U) = Cardinality(S) + Cardinality(T)
    BY <1>1, <1>2, <1>3
  <1> QED  BY <1>1, <1>3, <1>4 DEF U, V

(* An open connection that the cleaner is not about to close is in the     *)
(* channel, with the cleaner or with a caller that is counted for it.      *)
LEMMA OpenCovered ==
  ASSUME ConnInv, CountInv
  PROVE  OpenBound /\ Cardinality(open \ cl.bin) \in Nat
  <1> DEFINE H  == {p \in Callers : conn[p] \in open}
             CH == {conn[p] : p \in H}
             CC == {cl.conn} \ {None}
             L == Cardinality(Lent)  T == Cardinality(Taken)  G == Cardinality(Giving)
             C == Cardinality(Counting)  n == Len(idle)  c == Cleaning
  <1>0. /\ Active \in Int /\ Idle \in Int /\ n \in Nat /\ L \in Nat /\ T \in Nat /\ G \in Nat
        /\ C \in Nat /\ c \in Int /\ idle \in Seq(Conns) /\ open \subseteq Conns
        /\ None \notin Conns /\ CallerInv
    BY TypeParts, CountedFinite, PoolAssumption
       DEF ConnInv, CoreInv, StatType, ChanType, SetType, Cleaning
  <1>1. IsFiniteSet(H) /\ Cardinality(H) \in Nat /\ Cardinality(H) + G <= T + C + L
    <2> DEFINE U == Taken \cup Counting \cup Lent
    <2>1. IsFiniteSet(H) /\ Cardinality(H) \in Nat
      BY CountedFinite, FS_Subset, FS_CardinalityType
    <2>2. H \cup Giving \subseteq U /\ H \cap Giving = {}
      BY <1>0 DEF CallerInv, CallerOK, HoldAt, Taken, Counting, Lent, Giving, LentAt, TakenAt, At
    <2>3. /\ IsFiniteSet(Taken \cup Counting) /\ Cardinality(Taken \cup Counting) \in Nat
          /\ Cardinality(Taken \cup Counting) <= T + C
      BY CountedFinite, UnionBound
    <2>4. IsFiniteSet(U) /\ Cardinality(U) <= T + C + L
      <3>1. IsFiniteSet(U) /\ Cardinality(U) <= Cardinality(Taken \cup Counting) + L
            /\ Cardinality(U) \in Nat
        BY <2>3, CountedFinite, UnionBound
      <3> HIDE DEF U, T, C, L
      <3> QED  BY <1>0, <2>3, <3>1
    <2>5. Cardinality(H \cup Giving) = Cardinality(H) + G
      BY <2>1, <2>2, CountedFinite, UnionBound
    <2>6. Cardinality(H \cup Giving) <= Cardinality(U)
      BY <2>2, <2>4, FS_Subset
    <2>7. Cardinality(U) \in Nat
      BY <2>4, FS_CardinalityType
    <2> HIDE DEF U, H, T, C, L, G
    <2> QED  BY <1>0, <2>1, <2>4, <2>5, <2>6, <2>7
  <1>2. IsFiniteSet(CH) /\ Cardinality(CH) <= Cardinality(H) /\ Cardinality(CH) \in Nat
    <2>1. [p \in H |-> conn[p]] \in Surjection(H, CH)
      BY DEF Surjection
    <2> QED  BY <1>1, <2>1, FS_Surjection, FS_CardinalityType
  <1>3. IsFiniteSet(IdleConns) /\ Cardinality(IdleConns) <= n /\ Cardinality(IdleConns) \in Nat
    <2>1. idle \in Surjection(1..n, IdleConns)
      BY <1>0 DEF Surjection, IdleConns
    <2>2. IsFiniteSet(1..n) /\ Cardinality(1..n) = n
      <3>1. 1 \in Int /\ n \in Int
        BY <1>0
      <3> HIDE DEF n
      <3>2. IsFiniteSet(1..n) /\ Cardinality(1..n) = IF 1 > n THEN 0 ELSE n - 1 + 1
        BY <3>1, FS_Interval
      <3> QED  BY <1>0, <3>1, <3>2
    <2> QED  BY <2>1, <2>2, FS_Surjection, FS_CardinalityType
  <1>4. IsFiniteSet(CC) /\ Cardinality(CC) <= c /\ Cardinality(CC) \in Nat
    <2>1. CASE cl.conn = None
      <3>1. CC = {} /\ c \in {0, 1}
        BY <2>1 DEF Cleaning
      <3> QED  BY <3>1, FS_EmptySet
    <2>2. CASE cl.conn # None
      <3>1. CC = {cl.conn} /\ c = 1
        BY <2>2 DEF ConnInv, CoreInv, CleanerInv, Cleaning
      <3>2. IsFiniteSet({cl.conn}) /\ Cardinality({cl.conn}) = 1
        BY FS_Singleton
      <3> QED  BY <3>1, <3>2
    <2> QED  BY <2>1, <2>2
  <1>5. open \ cl.bin \subseteq (IdleConns \cup CC) \cup CH
    BY <1>0 DEF ConnInv, Covered, Homes
  <1>6. IsFiniteSet(IdleConns \cup CC) /\ Cardinality(IdleConns \cup CC) <= n + c
        /\ Cardinality(IdleConns \cup CC) \in Nat
    <2>1. /\ IsFiniteSet(IdleConns \cup CC) /\ Cardinality(IdleConns \cup CC) \in Nat
          /\ Cardinality(IdleConns \cup CC) <= Cardinality(IdleConns) + Cardinality(CC)
      BY <1>3, <1>4, UnionBound
    <2> HIDE DEF n, c, CC
    <2> QED  BY <1>0, <1>3, <1>4, <2>1
  <1>7. /\ IsFiniteSet((IdleConns \cup CC) \cup CH)
        /\ Cardinality((IdleConns \cup CC) \cup CH) <= n + c + Cardinality(H)
        /\ Cardinality((IdleConns \cup CC) \cup CH) \in Nat
    <2> DEFINE W == IdleConns \cup CC
    <2>3. /\ IsFiniteSet(W \cup CH) /\ Cardinality(W \cup CH) \in Nat
          /\ Cardinality(W \cup CH) <= Cardinality(W) + Cardinality(CH)
      BY <1>2, <1>6, UnionBound
    <2>4. IsFiniteSet(W) /\ Cardinality(W) <= n + c /\ Cardinality(W) \in Nat
      BY <1>6
    <2> HIDE DEF n, c, CC, W, CH, H
    <2>5. /\ IsFiniteSet(W \cup CH) /\ Cardinality(W \cup CH) <= n + c + Cardinality(H)
          /\ Cardinality(W \cup CH) \in Nat
      BY <1>0, <1>1, <1>2, <2>3, <2>4
    <2> QED  BY <2>5 DEF W
  <1>8. /\ Cardinality(open \ cl.bin) <= Cardinality((IdleConns \cup CC) \cup CH)
        /\ Cardinality(open \ cl.bin) \in Nat
    BY <1>5, <1>7, FS_Subset, FS_CardinalityType
  <1>9. Idle >= n + T - G + c /\ Active >= L
    <2>1. Cardinality(Leaked) \in Nat
      BY FS_CardinalityType DEF CountInv
    <2> QED  BY <1>0, <2>1 DEF CountInv, IdleNow
  <1> DEFINE h == Cardinality(H)  o == Cardinality(open \ cl.bin)
             w == Cardinality((IdleConns \cup CC) \cup CH)
  <1>10. h \in Nat /\ h + G <= T + C + L /\ o \in Nat /\ w \in Nat /\ o <= w /\ w <= n + c + h
    BY <1>1, <1>7, <1>8
  <1> HIDE DEF h, o, w, n, c, T, G, C, L
  <1>11. o <= Active + Idle + C
    BY <1>0, <1>9, <1>10
  <1> QED  BY <1>10, <1>11 DEF OpenBound, o, C

(* The callers that passed the check on MaxActive together are all there   *)
(* is to exceed it by.                                                     *)
THEOREM OvershootProved ==
  ASSUME Callers # {}
  PROVE  Spec => []OvershootBounded
  <1>0. Cardinality(Callers) \in Nat \ {0}
    BY CountedFinite, FS_EmptySet
  <1>1. Init => RoomInv
    <2> SUFFICES ASSUME Init, MaxActive > 0, InitialSize <= MaxActive
                 PROVE  Active + Idle + Cardinality(Creating)
                          <= MaxActive - 1 + Cardinality(Callers)
      BY DEF RoomInv
    <2>1. PICK k \in 0..InitialSize : Idle = k
      BY DEF Init
    <2>2. MaxActive \in Nat /\ InitialSize \in Nat
      BY PoolAssumption
    <2>3. Creating = {} /\ Active = 0
      BY DEF Init, Creating
    <2> QED  BY <1>0, <2>1, <2>2, <2>3, FS_EmptySet
  <1>2. ConnInv /\ RoomInv /\ [Next]_vars => RoomInv'
    <2> SUFFICES ASSUME ConnInv, RoomInv, [Next]_vars PROVE RoomInv'
      OBVIOUS
    <2>1. CASE UNCHANGED vars
      BY <2>1 DEF vars, channel, stats, local, RoomInv, Creating
    <2> QED  BY <2>1, StepCases, CallerRoom, OtherRoom DEF ConnInv
  <1>3. ConnInv /\ CountInv /\ RoomInv => OvershootBounded
    <2> SUFFICES ASSUME ConnInv, CountInv, RoomInv, MaxActive > 0, InitialSize <= MaxActive
                 PROVE  Cardinality(open \ cl.bin) <= MaxActive - 1 + Cardinality(Callers)
      BY DEF OvershootBounded
    <2>1. Cardinality(Counting) <= Cardinality(Creating)
      <3>1. Counting \in SUBSET Creating
        BY DEF Counting, Creating
      <3> QED  BY <3>1, CountedFinite, FS_Subset
    <2>2. Cardinality(open \ cl.bin) \in Nat /\ OpenBound
      BY OpenCovered
    <2>3. MaxActive \in Nat /\ Active \in Int /\ Idle \in Int
      BY PoolAssumption, TypeParts DEF ConnInv, CoreInv, StatType
    <2> QED  BY <1>0, <2>1, <2>2, <2>3, CountedFinite DEF OpenBound, RoomInv
  <1> QED  BY <1>1, <1>2, <1>3, ConnInvAlways, CountInvAlways, PTL DEF Spec

-----------------------------------------------------------------------------
(* The helpers of the adapters                                             *)

(* What is open and in nobody's hands has been given away by GetConn.      *)
GivenAway    == IF kind = "grpc" THEN activeConns ELSE {}
GivenCovered == open \subseteq Homes \cup GivenAway

HelperTypes == owed \in [Callers -> Conns \cup {None}] /\ failed \in [Callers -> BOOLEAN]

(* What holds of a pool with helpers on it.                                *)
ClientInv == CoreInv /\ CountInv /\ ClosedInv /\ GivenCovered /\ HelperTypes

(* Every step is one of the pool's, or one of four of the helpers' own.    *)
HelperStep(p) == PutReset(p) \/ GetConn(p) \/ FailRequest(p) \/ CloseAfter(p)

LEMMA ClientCases ==
  ASSUME [ClientsNext]_cvars
  PROVE  /\ UNCHANGED kind
         /\ \/ \E p \in Callers : CallerStep(p)
            \/ \E p \in Callers : HelperStep(p)
            \/ \E a \in Admins : ShutStep(a)
            \/ UNCHANGED vars
  <1>1. UNCHANGED kind
    BY DEF ClientsNext, cvars, Quietly, Borrow, Getting, FailRequest, Finish, Putting, PutReset,
           Failed, CloseAfter, WithTransaction, GetConn
  <1>2. CASE UNCHANGED cvars
    BY <1>1, <1>2 DEF cvars
  <1>3. CASE Halt /\ UNCHANGED cvars
    BY <1>1, <1>3 DEF cvars
  <1>4. ASSUME NEW p \in Callers,
               \/ Borrow(p) \/ Getting(p) \/ Quietly(GiveUp(p))
               \/ FailRequest(p) \/ Finish(p) \/ Putting(p) \/ CloseAfter(p)
               \/ WithTransaction(p) \/ GetConn(p)
        PROVE  CallerStep(p) \/ HelperStep(p)
    BY <1>4 DEF CallerStep, HelperStep, InGet, InPut, Quietly, Borrow, Getting, Finish, Putting,
                Failed, WithTransaction
  <1>5. ASSUME NEW a \in Admins, Quietly(ShutBegin(a) \/ InShutdown(a) \/ ShutForce(a))
        PROVE  ShutStep(a)
    BY <1>5 DEF Quietly, ShutStep
  <1> QED  BY <1>1, <1>2, <1>3, <1>4, <1>5 DEF ClientsNext

(* The helpers' own variables keep their types.                            *)
LEMMA HelperTypesKept ==
  ASSUME TypeOK, HelperTypes, [ClientsNext]_cvars
  PROVE  HelperTypes'
  <1>1. conn \in [Callers -> Conns \cup {None}]
    BY DEF TypeOK
  <1>2. \/ UNCHANGED mine
        \/ \E p \in Callers : Finish(p) \/ FailRequest(p) \/ Failed(p) \/ CloseAfter(p)
    BY DEF ClientsNext, cvars, Quietly, Borrow, Getting, Putting, PutReset, WithTransaction, GetConn
  <1>3. ASSUME NEW p \in Callers, Finish(p)
        PROVE  HelperTypes'
    BY <1>1, <1>3 DEF Finish, HelperTypes, mine
  <1>4. ASSUME NEW p \in Callers, FailRequest(p) \/ Failed(p) \/ CloseAfter(p)
        PROVE  HelperTypes'
    BY <1>4 DEF FailRequest, Failed, CloseAfter, HelperTypes
  <1> QED  BY <1>2, <1>3, <1>4 DEF HelperTypes, mine

(* Put's ResetState opens what its caller still has in hand.               *)
LEMMA ResetKeeps ==
  ASSUME CoreInv, CountInv, NEW p \in Callers, PutReset(p)
  PROVE  /\ CoreInv' /\ CountInv'
         /\ ClosedInv => ClosedInv' /\ NoneLost
         /\ activeConns \subseteq activeConns' \cup Homes
  <1>0. /\ LocalType /\ SetType /\ pc[p] = "put:soon" /\ conn[p] \in Conns /\ None \notin Conns
        /\ \A q \in Callers \ {p} : conn[q] # conn[p]
        /\ OwnersApart /\ RegInv /\ Distinct(idle) /\ Elems(recvq) \subseteq Callers
    <2>1. LocalType /\ SetType /\ OwnersApart /\ RegInv /\ Distinct(idle) /\ None \notin Conns
      BY TypeParts, PoolAssumption DEF CoreInv, HomeInv
    <2>2. pc[p] = "put:soon" /\ conn[p] \in Conns
      BY <2>1 DEF PutReset, At, LocalType, CoreInv, CallerInv, CallerOK, HoldAt
    <2>3. \A q \in Callers \ {p} : conn[q] # conn[p]
      BY <2>1, <2>2 DEF OwnersApart
    <2>4. Elems(recvq) \subseteq Callers
      BY TypeParts DEF CoreInv, ChanType, Elems
    <2> QED  BY <2>1, <2>2, <2>3, <2>4
  <1>1. /\ UNCHANGED <<channel, stats, conn, waits, tries, sh, cl>>
        /\ \A q \in Callers : pc'[q] = IF q = p THEN "put:nil" ELSE pc[q]
        /\ activeConns' = activeConns \ {conn[p]}
        /\ open' = open \/ open' = open \cup {conn[p]}
    BY <1>0 DEF PutReset, Goto, LocalType
  <1>2. TypeOK'
    BY <1>0, <1>1 DEF CoreInv, TypeOK, PutReset, Goto, Labels, channel, stats, SetType
  <1>3. CallerInv' /\ QueueInv' /\ CleanerInv' /\ ShutInv'
    <2>1. CallerInv'
      BY <1>0, <1>1 DEF CoreInv, CallerInv, CallerOK, HoldAt
    <2>2. QueueInv'
      <3>1. UNCHANGED recvq
        BY <1>1 DEF channel
      <3> QED  BY <1>0, <1>1, <3>1 DEF CoreInv, QueueInv, Elems
    <2> QED  BY <1>1, <2>1, <2>2 DEF CoreInv, CleanerInv, ShutInv, channel
  <1>4. IdleConns' = IdleConns /\ Homes' = Homes /\ conn[p] \in Homes
    BY <1>1 DEF IdleConns, Homes, channel
  <1>5. HomeInv'
    <2>1. OwnersApart' /\ Distinct(idle')
      BY <1>0, <1>1, <1>4 DEF OwnersApart, channel
    <2>2. RegInv'
      BY <1>0, <1>1, <1>4 DEF RegInv, RegAt
    <2> QED  BY <2>1, <2>2 DEF HomeInv
  <1>6. CountInv'
    <2>1. /\ Lent' = Lent /\ Taken' = Taken /\ Giving' = Giving /\ WaitSet' = WaitSet
          /\ Cleaning' = Cleaning
      BY <1>0, <1>1 DEF Lent, Taken, Giving, WaitSet, Cleaning, LentAt, TakenAt, At
    <2>2. Leaked' = Leaked
      BY <1>1 DEF Leaked
    <2> QED  BY <1>1, <2>1, <2>2 DEF CountInv, IdleNow, channel, stats
  <1>7. ClosedInv => ClosedInv'
    BY <1>0, <1>1 DEF ClosedInv, DoneAt
  <1> QED  BY <1>1, <1>2, <1>3, <1>4, <1>5, <1>6, <1>7 DEF CoreInv, NoneLost

(* What GetConn gives away stays registered, and counted, as leaked.       *)
LEMMA GetConnKeeps ==
  ASSUME CoreInv, CountInv, NEW p \in Callers, GetConn(p)
  PROVE  /\ CoreInv' /\ CountInv' /\ UNCHANGED open /\ UNCHANGED activeConns
         /\ ClosedInv => ClosedInv'
         /\ Homes \subseteq Homes' \cup activeConns
  <1>0. /\ LocalType /\ SetType /\ pc[p] = "using" /\ conn[p] \in Conns /\ None \notin Conns
        /\ \A q \in Callers \ {p} : conn[q] # conn[p]
        /\ OwnersApart /\ RegInv /\ Distinct(idle) /\ conn[p] \in activeConns
        /\ Active \in Int /\ Idle \in Int /\ Elems(recvq) \subseteq Callers
        /\ None \notin IdleConns /\ None \notin cl.bin
    <2>1. /\ LocalType /\ SetType /\ OwnersApart /\ RegInv /\ Distinct(idle) /\ None \notin Conns
          /\ StatType /\ ChanType /\ CleanType
      BY TypeParts, PoolAssumption DEF CoreInv, HomeInv
    <2>2. pc[p] = "using" /\ conn[p] \in Conns
      BY <2>1 DEF GetConn, At, LocalType, CoreInv, CallerInv, CallerOK, HoldAt
    <2>3. \A q \in Callers \ {p} : conn[q] # conn[p]
      BY <2>1, <2>2 DEF OwnersApart
    <2>4. conn[p] \in activeConns
      BY <2>1, <2>2 DEF RegInv, RegAt
    <2>5. Elems(recvq) \subseteq Callers /\ None \notin IdleConns
      BY <2>1 DEF ChanType, Elems, IdleConns
    <2>6. None \notin cl.bin
      BY <2>1 DEF CleanType
    <2> QED  BY <2>1, <2>2, <2>3, <2>4, <2>5, <2>6 DEF StatType
  <1>1. /\ UNCHANGED <<channel, stats, activeConns, open, waits, tries, sh, cl>>
        /\ \A q \in Callers : pc'[q] = IF q = p THEN "idle" ELSE pc[q]
        /\ \A q \in Callers : conn'[q] = IF q = p THEN None ELSE conn[q]
    BY <1>0 DEF GetConn, Goto, Hold, LocalType
  <1>2. TypeOK'
    BY <1>0, <1>1 DEF CoreInv, TypeOK, GetConn, Goto, Hold, Labels, channel, stats
  <1>3. CallerInv' /\ QueueInv' /\ CleanerInv' /\ ShutInv'
    <2>1. CallerInv'
      BY <1>0, <1>1 DEF CoreInv, CallerInv, CallerOK, HoldAt
    <2>2. QueueInv'
      <3>1. UNCHANGED recvq
        BY <1>1 DEF channel
      <3> QED  BY <1>0, <1>1, <3>1 DEF CoreInv, QueueInv, Elems
    <2> QED  BY <1>1, <2>1, <2>2 DEF CoreInv, CleanerInv, ShutInv, channel
  <1>4. IdleConns' = IdleConns /\ Homes \subseteq Homes' \cup activeConns
    BY <1>0, <1>1 DEF IdleConns, Homes, channel
  <1>5. HomeInv'
    <2>1. OwnersApart'
      BY <1>0, <1>1, <1>4 DEF OwnersApart
    <2>3. Distinct(idle')
      BY <1>0, <1>1 DEF channel
    <2>2. RegInv'
      BY <1>0, <1>1, <1>4 DEF RegInv, RegAt
    <2> QED  BY <2>1, <2>2, <2>3 DEF HomeInv
  <1>6. CountInv'
    <2>1. /\ Lent' = Lent \ {p} /\ p \in Lent /\ Taken' = Taken /\ Giving' = Giving
          /\ WaitSet' = WaitSet /\ Cleaning' = Cleaning
      BY <1>0, <1>1 DEF Lent, Taken, Giving, WaitSet, Cleaning, LentAt, TakenAt, At
    <2>2. Leaked' = Leaked \cup {conn[p]} /\ conn[p] \notin Leaked
      <3>1. None \notin activeConns /\ activeConns' = activeConns
        BY <1>0, <1>1 DEF SetType
      <3>2. ASSUME NEW x \in activeConns
            PROVE  x \in Leaked' <=> x \in Leaked \cup {conn[p]}
        BY <1>0, <1>1, <3>1, <3>2 DEF Leaked
      <3> QED  BY <1>0, <3>1, <3>2 DEF Leaked
    <2>3. Cardinality(Lent') = Cardinality(Lent) - 1 /\ Cardinality(Lent) \in Nat
      BY <2>1, CountedFinite, FS_RemoveElement
    <2>4. IsFiniteSet(Leaked') /\ Cardinality(Leaked') = Cardinality(Leaked) + 1
          /\ Cardinality(Leaked) \in Nat
      BY <2>2, FS_AddElement, FS_CardinalityType DEF CountInv
    <2>5. Active' = Cardinality(Lent') + Cardinality(Leaked')
      BY <1>0, <1>1, <2>3, <2>4 DEF CountInv, stats
    <2> QED  BY <1>1, <2>1, <2>4, <2>5 DEF CountInv, IdleNow, channel, stats
  <1>7. ClosedInv => ClosedInv'
    BY <1>0, <1>1 DEF ClosedInv, DoneAt
  <1> QED  BY <1>1, <1>2, <1>3, <1>4, <1>5, <1>6, <1>7 DEF CoreInv

(* A connection that is closed where it is moves nothing.                  *)
LEMMA CloseKeeps ==
  ASSUME CoreInv, CountInv, NEW p \in Callers, FailRequest(p) \/ CloseAfter(p)
  PROVE  /\ CoreInv' /\ CountInv' /\ open' \subseteq open /\ UNCHANGED activeConns
         /\ ClosedInv => ClosedInv'
         /\ Homes' = Homes
  <1>1. /\ open' \subseteq open
        /\ UNCHANGED <<channel, closed, stats, activeConns, local, sh, cl, crashed>>
    BY DEF FailRequest, CloseAfter
  <1>2. TypeOK'
    BY <1>1 DEF CoreInv, TypeOK, channel, stats, local
  <1>3. CallerInv' /\ QueueInv' /\ CleanerInv' /\ ShutInv'
    BY <1>1 DEF CoreInv, CallerInv, CallerOK, QueueInv, CleanerInv, ShutInv, channel, local
  <1>4. IdleConns' = IdleConns /\ Homes' = Homes
    BY <1>1 DEF IdleConns, Homes, channel, local
  <1>5. HomeInv'
    BY <1>1, <1>4 DEF CoreInv, HomeInv, OwnersApart, RegInv, channel, local
  <1>6. CountInv'
    BY <1>1 DEF channel, stats, local, CountInv, IdleNow, Lent, Taken, Giving, Leaked, WaitSet,
                Cleaning, At
  <1>7. ClosedInv => ClosedInv'
    BY <1>1 DEF ClosedInv, local
  <1> QED  BY <1>1, <1>2, <1>3, <1>4, <1>5, <1>6, <1>7 DEF CoreInv

(* What is given away stays given away.                                    *)
LEMMA GivenKept ==
  ASSUME GivenCovered, NoneLost, UNCHANGED kind, activeConns \subseteq activeConns' \cup Homes
  PROVE  GivenCovered'
  <1> SUFFICES ASSUME NEW c \in open', c \notin Homes'
               PROVE  c \in GivenAway'
    BY DEF GivenCovered
  <1>1. c \in open /\ c \notin Homes
    BY DEF NoneLost
  <1> QED  BY <1>1 DEF GivenCovered, GivenAway

(* What the steps of the pool do to the connections that are registered,   *)
LEMMA StayRegistered ==
  /\ \A p \in Callers : CallerStep(p) => activeConns \subseteq activeConns' \cup {conn[p]}
  /\ \A a \in Admins : ShutStep(a) => UNCHANGED activeConns
  <1>1. ASSUME NEW p \in Callers, CallerStep(p)
        PROVE  activeConns \subseteq activeConns' \cup {conn[p]}
    BY <1>1 DEF CallerStep, Get, InGet, GiveUp, PutClosed, InPut, HandleClose, Load, Loads, Receive,
                ReceiveNil, ReceiveDefault, CheckBad, Discard, CheckGood, Lend, Decide, Enter, Park,
                ParkedPanics, Retry, Leave, Create, Count, PutBad, PutGood, PutNil, PutSend,
                PutFull, PutPanics, PutCount, Drop, Crash
  <1>2. ASSUME NEW a \in Admins, ShutStep(a)
        PROVE  UNCHANGED activeConns
    BY <1>2 DEF ShutStep, ShutBegin, InShutdown, ShutForce, ShutActive, ShutFlag, ShutChan,
                ShutPanics, ShutDrain, ShutTick, Crash
  <1> QED  BY <1>1, <1>2

(* and who closes one that is open.                                        *)
LEMMA Closers ==
  ASSUME LocalType, ShutType, ChanType
  PROVE  /\ \A p \in Callers : CallerStep(p) =>
                /\ open \ open' \subseteq {conn[p]}
                /\ pc[p] = "using" => conn'[p] = None \/ open \subseteq open'
         /\ \A a \in Admins : ShutStep(a) =>
                \/ open \ open' \subseteq IdleConns
                \/ sh[a].at = "wait" /\ sh'[a].at = "forced"
  <1>1. ASSUME NEW p \in Callers, CallerStep(p)
        PROVE  /\ open \ open' \subseteq {conn[p]}
               /\ pc[p] = "using" => conn'[p] = None \/ open \subseteq open'
    <2>1. CASE UNCHANGED open
      BY <2>1
    <2>2. CASE Create(p)
      BY <2>2 DEF Create, At
    <2>3. CASE CheckBad(p) \/ PutBad(p) \/ PutNil(p) \/ PutFull(p)
      BY <2>3 DEF CheckBad, PutBad, PutNil, PutFull, At
    <2>4. CASE HandleClose(p)
      BY <2>4 DEF HandleClose, Hold, LocalType
    <2> QED
      BY <1>1, <2>1, <2>2, <2>3, <2>4
         DEF CallerStep, Get, InGet, GiveUp, PutClosed, InPut, Load, Loads, Receive, ReceiveNil,
             ReceiveDefault, Discard, CheckGood, Lend, Decide, Enter, Park, ParkedPanics, Retry,
             Leave, Count, PutGood, PutSend, PutPanics, PutCount, Drop, Crash
  <1>2. ASSUME NEW a \in Admins, ShutStep(a)
        PROVE  \/ open \ open' \subseteq IdleConns
               \/ sh[a].at = "wait" /\ sh'[a].at = "forced"
    <2>1. CASE UNCHANGED open
      BY <2>1
    <2>2. CASE idle # <<>> /\ open' = open \ {Head(idle)}
      BY <2>2 DEF ChanType, IdleConns
    <2>3. CASE ShutForce(a)
      BY <2>3 DEF ShutForce, ShutAt, ShutType
    <2> QED
      BY <1>2, <2>1, <2>2, <2>3
         DEF ShutStep, ShutBegin, InShutdown, ShutActive, ShutFlag, ShutChan, ShutPanics,
             ShutDrain, ShutTick, Crash
  <1> QED  BY <1>1, <1>2

LEMMA ClientInvInit ==
  ASSUME ClientsInit
  PROVE  ClientInv
  <1>1. ConnInv /\ CountInv
    BY ConnInvInit, CountInvInit DEF ClientsInit
  <1> QED  BY <1>1 DEF ClientsInit, ConnInv, ClientInv, Covered, GivenCovered, HelperTypes

(* Every step keeps it: the pool's own by what was shown of them above.    *)
LEMMA ClientInvStep ==
  ASSUME ClientInv, [ClientsNext]_cvars
  PROVE  ClientInv'
  <1>1. HelperTypes' /\ UNCHANGED kind
    BY ClientCases, HelperTypesKept DEF ClientInv, CoreInv
  <1>2. ASSUME NEW p \in Callers, CallerStep(p)
        PROVE  CoreInv' /\ CountInv' /\ ClosedInv' /\ GivenCovered'
    <2>1. CoreInv' /\ CountInv' /\ ClosedInv' /\ NoneLost
      BY <1>2, CallerCore, CallerCounts DEF ClientInv, PlacesKept
    <2>2. activeConns \subseteq activeConns' \cup Homes
      BY <1>2, StayRegistered DEF Homes
    <2> QED  BY <1>1, <2>1, <2>2, GivenKept DEF ClientInv
  <1>3. ASSUME NEW a \in Admins, ShutStep(a)
        PROVE  CoreInv' /\ CountInv' /\ ClosedInv' /\ GivenCovered'
    <2>1. CoreInv' /\ CountInv' /\ ClosedInv' /\ NoneLost
      BY <1>3, ShutCore, ShutCounts DEF ClientInv, PlacesKept
    <2>2. UNCHANGED activeConns
      BY <1>3, StayRegistered
    <2> QED  BY <1>1, <2>1, <2>2, GivenKept DEF ClientInv
  <1>4. CASE UNCHANGED vars
    <2>1. CoreInv' /\ CountInv' /\ ClosedInv' /\ NoneLost
      BY <1>4, IdleCore, CountsStay DEF ClientInv, PlacesKept
    <2>2. UNCHANGED activeConns
      BY <1>4 DEF vars
    <2> QED  BY <1>1, <2>1, <2>2, GivenKept DEF ClientInv
  <1>5. ASSUME NEW p \in Callers, PutReset(p)
        PROVE  CoreInv' /\ CountInv' /\ ClosedInv' /\ GivenCovered'
    <2>1. /\ CoreInv' /\ CountInv' /\ ClosedInv' /\ NoneLost
          /\ activeConns \subseteq activeConns' \cup Homes
      BY <1>5, ResetKeeps DEF ClientInv
    <2> QED  BY <1>1, <2>1, GivenKept DEF ClientInv
  <1>6. ASSUME NEW p \in Callers, GetConn(p)
        PROVE  CoreInv' /\ CountInv' /\ ClosedInv' /\ GivenCovered'
    <2>1. /\ CoreInv' /\ CountInv' /\ ClosedInv'
          /\ UNCHANGED open /\ UNCHANGED activeConns /\ Homes \subseteq Homes' \cup activeConns
      BY <1>6, GetConnKeeps DEF ClientInv
    <2>2. kind = "grpc"
      BY <1>6 DEF GetConn
    <2> QED  BY <1>1, <2>1, <2>2 DEF ClientInv, GivenCovered, GivenAway
  <1>7. ASSUME NEW p \in Callers, FailRequest(p) \/ CloseAfter(p)
        PROVE  CoreInv' /\ CountInv' /\ ClosedInv' /\ GivenCovered'
    <2>1. /\ CoreInv' /\ CountInv' /\ ClosedInv'
          /\ open' \subseteq open /\ UNCHANGED activeConns /\ Homes' = Homes
      BY <1>7, CloseKeeps DEF ClientInv
    <2> QED  BY <1>1, <2>1 DEF ClientInv, GivenCovered, GivenAway
  <1> QED  BY <1>1, <1>2, <1>3, <1>4, <1>5, <1>6, <1>7, ClientCases DEF ClientInv, HelperStep

LEMMA ClientInvAlways == ClientsSpec => []ClientInv
  BY ClientInvInit, ClientInvStep, PTL DEF ClientsSpec

(* The Close that Execute, WithConnection and the like defer until after   *)
(* Put neither gives a connection back twice nor counts it twice, whoever  *)
(* has it by then: for any number of callers, with any adapter.            *)
THEOREM PutBackProved == ClientsSpec => []PutBackOnce
  <1>1. ClientInv => PutBackOnce
    <2>1. HomeInv => OnePlace
      BY DEF HomeInv, OnePlace, OwnersApart, Distinct
    <2>2. CountInv => CountsExact
      BY DEF CountInv, CountsExact, IdleNow, Lent, Taken, Giving, WaitSet, Cleaning
    <2> QED  BY <2>1, <2>2 DEF ClientInv, CoreInv, PutBackOnce
  <1> QED  BY <1>1, ClientInvAlways, PTL

(* When a Shutdown has ended and every helper has returned, its deferred   *)
(* Close included, nothing is open but what GetConn gave away.             *)
THEOREM GivenOnlyProved == ClientsSpec => []ClosedUnlessGiven
  <1>1. ClientInv => ClosedUnlessGiven
    <2> SUFFICES ASSUME ClientInv, Quiet, NEW a \in Admins, sh[a].at \in {"ok", "forced"}
                 PROVE  open \subseteq GivenAway
      BY DEF ClosedUnlessGiven, GivenAway
    <2>1. idle = <<>> /\ IdleConns = {}
      <3>1. a \in Admins /\ sh[a].at \in {"wait", "ok", "forced"}
        OBVIOUS
      <3> QED  BY <3>1 DEF ClientInv, CoreInv, ShutInv, IdleConns
    <2>2. cl.conn = None /\ cl.bin = {} /\ \A p \in Callers : conn[p] = None
      BY DEF ClientInv, CoreInv, CleanerInv, CallerInv, CallerOK, HoldAt, Quiet, At
    <2>3. open \subseteq {None} \cup GivenAway /\ open \subseteq Conns
      BY <2>1, <2>2 DEF ClientInv, CoreInv, GivenCovered, Homes, TypeOK
    <2> QED  BY <2>3, PoolAssumption
  <1> QED  BY <1>1, ClientInvAlways, PTL

(* A connection is closed under its user by nobody but its former user,    *)
(* whose Close comes late, and a Shutdown whose context has ended.         *)
THEOREM UnderUserProved == ClientsSpec => ClosedUnderUser
  <1>1. ASSUME ClientInv, [ClientsNext]_cvars, NEW p \in Callers, At(p, "using"),
               conn'[p] = conn[p], conn[p] \in open \ open'
        PROVE  \/ kind = "http" /\ failed'[p]
               \/ \E q \in Callers \ {p} : owed[q] = conn[p] /\ owed'[q] = None
               \/ \E a \in Admins : sh[a].at = "wait" /\ sh'[a].at = "forced"
    <2>0. /\ LocalType /\ ShutType /\ ChanType /\ HelperTypes /\ OwnersApart /\ pc[p] = "using"
          /\ conn[p] # None /\ conn[p] \notin IdleConns
      BY <1>1, TypeParts, PoolAssumption
         DEF ClientInv, CoreInv, HomeInv, OwnersApart, SetType, At
    <2>1. ASSUME NEW q \in Callers, CallerStep(q)
          PROVE  FALSE
      <3>1. conn[p] = conn[q]
        BY <1>1, <2>0, <2>1, Closers
      <3>2. p = q
        BY <2>0, <3>1 DEF OwnersApart
      <3> QED  BY <1>1, <2>0, <2>1, <3>2, Closers
    <2>2. ASSUME NEW q \in Callers, FailRequest(q)
          PROVE  kind = "http" /\ failed'[p]
      <3>1. p = q
        BY <1>1, <2>0, <2>2 DEF FailRequest, OwnersApart
      <3> QED  BY <2>0, <2>2, <3>1 DEF FailRequest, HelperTypes
    <2>3. ASSUME NEW q \in Callers, CloseAfter(q)
          PROVE  q # p /\ owed[q] = conn[p] /\ owed'[q] = None
      BY <1>1, <2>0, <2>3 DEF CloseAfter, At, HelperTypes
    <2>4. ASSUME NEW q \in Callers, PutReset(q) \/ GetConn(q)
          PROVE  FALSE
      BY <1>1, <2>4 DEF PutReset, GetConn
    <2>5. ASSUME NEW a \in Admins, ShutStep(a)
          PROVE  sh[a].at = "wait" /\ sh'[a].at = "forced"
      BY <1>1, <2>0, <2>5, Closers
    <2>6. CASE UNCHANGED vars
      BY <1>1, <2>6 DEF vars
    <2> QED  BY <1>1, <2>1, <2>2, <2>3, <2>4, <2>5, <2>6, ClientCases DEF HelperStep
  <1>2. ClientInv /\ [ClientsNext]_cvars =>
          [\A p \in Callers :
              LET c == conn[p]
              IN  At(p, "using") /\ conn'[p] = c /\ c \in open \ open' =>
                     \/ kind = "http" /\ failed'[p]
                     \/ \E q \in Callers \ {p} : owed[q] = c /\ owed'[q] = None
                     \/ \E a \in Admins : sh[a].at = "wait" /\ sh'[a].at = "forced"]_cvars
    BY <1>1
  <1> QED  BY <1>2, ClientInvAlways, PTL DEF ClientsSpec, ClosedUnderUser
=============================================================================
