-------------------------- MODULE NonBlockingQueue --------------------------
(***************************************************************************)
(* queue.NonBlockingQueue: the circular slice of Ring without a lock       *)
(* around Enqueue and Dequeue. Each loads the index it is going to move    *)
(* and the size, moves the index by compare-and-swap, then writes (or      *)
(* wipes) the slot and counts the size up (or down). mu protects growth,   *)
(* Clear, Peek and the statistics from one another: an Enqueue (refused or *)
(* not) and a Dequeue that succeeds take it before they return.            *)
(*                                                                         *)
(* One step is one access to shared memory; exceptions are the loops of    *)
(* expand and Clear over the slots, and an access to q.data[i], which      *)
(* loads the slice and uses it in one step. TryEnqueue and TryDequeue are  *)
(* Enqueue and Dequeue with a context that is never cancelled. Of the      *)
(* statistics only the mutex is kept. Events are left out, as are Size,    *)
(* IsEmpty, IsFull, IsClosed and Stats, which change nothing.              *)
(*                                                                         *)
(* Who calls what is a parameter: with one goroutine that enqueues and one *)
(* that dequeues this is a FIFO queue, with more of either it is not.      *)
(***************************************************************************)
EXTENDS Ring, Sequences, FiniteSets

CONSTANTS Enqueuers, Dequeuers,         \* goroutines that call Enqueue, Dequeue
          Peekers, Closers, Clearers,   \* and Peek, Close, Clear
          Items,                        \* elements
          Capacity,                     \* opts.Capacity, 0 for an unbounded queue
          DefaultLen,                   \* first length of an unbounded queue's slice
          MaxLen,                       \* bound on the size in unbounded queues, see Room and Drift
          Ctx, NoCtx                    \* contexts that may be cancelled, and the others

Procs == Enqueuers \cup Dequeuers \cup Peekers \cup Closers \cup Clearers

ASSUME NonBlockingAssumption ==
    /\ IsFiniteSet(Procs) /\ Zero \notin Items
    /\ Capacity \in Nat
    /\ DefaultLen \in Nat \ {0}
    /\ MaxLen \in Nat
    /\ NoCtx \notin Ctx

VARIABLES
    data, len,          \* the slice and its length
    head, tail, size,
    closed,
    pc,                 \* the access each goroutine makes next
    loc,                \* its local variables
    call,               \* its last call that was decided, and the result
    done                \* cancelled contexts

ring == <<data, len, head, tail, size>>
vars == <<ring, closed, pc, loc, call, done>>

InitLen == IF Capacity > 0 THEN Capacity ELSE DefaultLen

(* item: the element on its way; i: the index to move; n: the length and   *)
(* s: the size loaded with it; new: the slice expand fills.                *)
NoLocal == [item |-> Zero, i |-> 0, s |-> 0, n |-> 1, new |-> <<>>]
NoCall  == [op |-> "none", item |-> Zero, ctx |-> NoCtx, out |-> "none"]

Init ==
    /\ data = EmptyRing(InitLen) /\ len = InitLen
    /\ head = 0 /\ tail = 0 /\ size = 0
    /\ closed = FALSE
    /\ pc = [p \in Procs |-> "idle"]
    /\ loc = [p \in Procs |-> NoLocal]
    /\ call = [p \in Procs |-> NoCall]
    /\ done = {}

-----------------------------------------------------------------------------
(* The RWMutex: growth, Clear and the statistics hold it as writers, Peek  *)
(* as a reader. At e:lock, s:lock, p:lock and c:lock it is waited for.     *)
WriterAt == {"x:copy", "x:head", "x:tail", "x:data", "s:held",
             "c:head", "c:wipe", "c:head0", "c:tail0", "c:size0"}
ReaderAt == {"p:closed", "p:head", "p:item"}

NoWriter == \A p \in Procs : pc[p] \notin WriterAt
NoReader == \A p \in Procs : pc[p] \notin ReaderAt

At(p, l)   == pc[p] = l
Goto(p, l) == pc' = [pc EXCEPT ![p] = l]

(* The call is decided. It returns, or is counted in the statistics first. *)
Return(p, op, x, out, l) ==
    /\ call' = [call EXCEPT ![p] = [op |-> op, item |-> x, ctx |-> NoCtx, out |-> out]]
    /\ loc' = [loc EXCEPT ![p] = NoLocal]
    /\ Goto(p, l)

Still == UNCHANGED <<ring, closed, call, done>>   \* a step that only looks

-----------------------------------------------------------------------------
(* A call begins; its context is looked at once.                           *)
Begin(p, op, x, c, l) ==
    /\ At(p, "idle")
    /\ \/ /\ c \in done
          /\ call' = [call EXCEPT ![p] = [op |-> op, item |-> x, ctx |-> c,
                                          out |-> "cancelled"]]
          /\ UNCHANGED <<pc, loc>>
       \/ /\ c \notin done
          /\ loc' = [loc EXCEPT ![p].item = x]
          /\ Goto(p, l)
          /\ UNCHANGED call
    /\ UNCHANGED <<ring, closed, done>>

Room == Capacity = 0 => size < MaxLen        \* bound on an unbounded queue

Enqueue(p, x, c) == p \in Enqueuers /\ Room /\ Begin(p, "enqueue", x, c, "e:closed")
Drift == size >= -MaxLen     \* bound: with several consumers the size may fall below 0

Dequeue(p, c) == p \in Dequeuers /\ Drift /\ Begin(p, "dequeue", Zero, c, "d:any")

(* Enqueue *)
EnqClosed(p) ==
    /\ At(p, "e:closed")
    /\ \/ closed  /\ Return(p, "try_enqueue", loc[p].item, "closed", "s:lock")
       \/ ~closed /\ Goto(p, "e:full") /\ UNCHANGED <<loc, call>>
    /\ UNCHANGED <<ring, closed, done>>

(* Mutant: full one element too late. *)
OverfullLate == Capacity > 0 /\ size > Capacity

Overfull == Capacity > 0 /\ size >= Capacity
TooShort == Capacity = 0 /\ size >= len

(* Mutant: Enqueue waits for room. *)
EnqFullWaits(p) ==
    /\ At(p, "e:full") /\ ~Overfull
    /\ Goto(p, "e:tail") /\ UNCHANGED loc /\ Still

EnqFull(p) ==
    /\ At(p, "e:full")
    /\ \/ Overfull /\ Return(p, "try_enqueue", loc[p].item, "full", "s:lock")
       \/ TooShort /\ Goto(p, "e:lock") /\ UNCHANGED <<loc, call>>
       \/ ~Overfull /\ ~TooShort /\ Goto(p, "e:tail") /\ UNCHANGED <<loc, call>>
    /\ UNCHANGED <<ring, closed, done>>

(* The mutex is taken and the size looked at again; then expand copies,    *)
(* resets head and tail, and puts the longer slice in place.               *)
EnqLock(p) ==
    /\ At(p, "e:lock") /\ NoWriter /\ NoReader
    /\ Goto(p, IF size >= len THEN "x:copy" ELSE "e:tail")
    /\ UNCHANGED loc /\ Still

ExpandCopies(p) ==
    /\ At(p, "x:copy")
    /\ loc' = [loc EXCEPT ![p].new = Grown(data, head, size, len),
                          ![p].s = size, ![p].n = 2 * len]
    /\ Goto(p, "x:head")
    /\ Still

ExpandHead(p) ==
    /\ At(p, "x:head")
    /\ head' = 0 /\ Goto(p, "x:tail")
    /\ UNCHANGED <<data, len, tail, size, closed, loc, call, done>>

(* Mutant: tail keeps the place it had in the shorter slice. *)
ExpandTailKept(p) ==
    /\ At(p, "x:tail") /\ Goto(p, "x:data")
    /\ UNCHANGED <<ring, closed, loc, call, done>>

ExpandTail(p) ==
    /\ At(p, "x:tail")
    /\ tail' = loc[p].s /\ Goto(p, "x:data")
    /\ UNCHANGED <<data, len, head, size, closed, loc, call, done>>

ExpandData(p) ==
    /\ At(p, "x:data")
    /\ data' = loc[p].new /\ len' = loc[p].n
    /\ loc' = [loc EXCEPT ![p].new = <<>>]
    /\ Goto(p, "e:tail")
    /\ UNCHANGED <<head, tail, size, closed, call, done>>

EnqTail(p) ==
    /\ At(p, "e:tail")
    /\ loc' = [loc EXCEPT ![p].i = tail]
    /\ Goto(p, "e:size")
    /\ Still

EnqSize(p) ==
    /\ At(p, "e:size")
    /\ \/ Overfull /\ Return(p, "try_enqueue", loc[p].item, "full", "s:lock")
       \/ /\ ~Overfull
          /\ loc' = [loc EXCEPT ![p].s = size, ![p].n = len]
          /\ Goto(p, "e:cas") /\ UNCHANGED call
    /\ UNCHANGED <<ring, closed, done>>

(* Mutant: a failed compare-and-swap is repeated with the index loaded     *)
(* before.                                                                 *)
EnqCasStale(p) ==
    /\ At(p, "e:cas") /\ tail = loc[p].i
    /\ tail' = (loc[p].i + 1) % loc[p].n
    /\ Goto(p, "e:write")
    /\ UNCHANGED <<data, len, head, size, closed, loc, call, done>>

EnqCas(p) ==
    /\ At(p, "e:cas")
    /\ \/ /\ tail = loc[p].i
          /\ tail' = (loc[p].i + 1) % loc[p].n
          /\ Goto(p, "e:write")
       \/ tail # loc[p].i /\ Goto(p, "e:tail") /\ UNCHANGED tail
    /\ UNCHANGED <<data, len, head, size, closed, loc, call, done>>

EnqWrite(p) ==
    /\ At(p, "e:write")
    /\ data' = [data EXCEPT ![loc[p].i] = loc[p].item]
    /\ Goto(p, "e:count")
    /\ UNCHANGED <<len, head, tail, size, closed, loc, call, done>>

EnqCount(p) ==
    /\ At(p, "e:count")
    /\ size' = size + 1
    /\ Return(p, "try_enqueue", loc[p].item, "ok", "s:lock")
    /\ UNCHANGED <<data, len, head, tail, closed, done>>

-----------------------------------------------------------------------------
(* Dequeue *)
DeqAny(p) ==
    /\ At(p, "d:any")
    /\ Goto(p, IF size = 0 THEN "d:closed" ELSE "d:head")
    /\ UNCHANGED loc /\ Still

DeqHead(p) ==
    /\ At(p, "d:head")
    /\ loc' = [loc EXCEPT ![p].i = head]
    /\ Goto(p, "d:size")
    /\ Still

DeqSize(p) ==
    /\ At(p, "d:size")
    /\ \/ size = 0 /\ Goto(p, "d:closed") /\ UNCHANGED loc
       \/ /\ size # 0
          /\ loc' = [loc EXCEPT ![p].s = size, ![p].n = len]
          /\ Goto(p, "d:item")
    /\ Still

DeqItem(p) ==
    /\ At(p, "d:item")
    /\ loc' = [loc EXCEPT ![p].item = data[loc[p].i]]
    /\ Goto(p, "d:cas")
    /\ Still

DeqCas(p) ==
    /\ At(p, "d:cas")
    /\ \/ /\ head = loc[p].i
          /\ head' = (loc[p].i + 1) % loc[p].n
          /\ Goto(p, "d:wipe")
       \/ head # loc[p].i /\ Goto(p, "d:head") /\ UNCHANGED head
    /\ UNCHANGED <<data, len, tail, size, closed, loc, call, done>>

DeqWipe(p) ==
    /\ At(p, "d:wipe")
    /\ data' = [data EXCEPT ![loc[p].i] = Zero]
    /\ Goto(p, "d:count")
    /\ UNCHANGED <<len, head, tail, size, closed, loc, call, done>>

DeqCount(p) ==
    /\ At(p, "d:count")
    /\ size' = size - 1
    /\ Return(p, "try_dequeue", loc[p].item, "ok", "s:lock")
    /\ UNCHANGED <<data, len, head, tail, closed, done>>

DeqClosed(p) ==
    /\ At(p, "d:closed")
    /\ Return(p, "try_dequeue", Zero, IF closed THEN "closed" ELSE "empty", "idle")
    /\ UNCHANGED <<ring, closed, done>>

-----------------------------------------------------------------------------
(* incrementEnqueued, incrementDequeued, incrementRejected *)
StatsLock(p) ==
    /\ At(p, "s:lock") /\ NoWriter /\ NoReader
    /\ Goto(p, "s:held")
    /\ UNCHANGED loc /\ Still

StatsUnlock(p) ==
    /\ At(p, "s:held")
    /\ Goto(p, "idle")
    /\ UNCHANGED loc /\ Still

-----------------------------------------------------------------------------
(* Peek *)
Peek(p) ==
    /\ p \in Peekers /\ At(p, "idle")
    /\ Goto(p, "p:lock")
    /\ UNCHANGED loc /\ Still

PeekSize(p) ==
    /\ At(p, "p:lock") /\ NoWriter
    /\ Goto(p, IF size = 0 THEN "p:closed" ELSE "p:head")
    /\ UNCHANGED loc /\ Still

PeekClosed(p) ==
    /\ At(p, "p:closed")
    /\ Return(p, "peek", Zero, IF closed THEN "closed" ELSE "empty", "idle")
    /\ UNCHANGED <<ring, closed, done>>

PeekHead(p) ==
    /\ At(p, "p:head")
    /\ loc' = [loc EXCEPT ![p].i = head]
    /\ Goto(p, "p:item")
    /\ Still

PeekItem(p) ==
    /\ At(p, "p:item")
    /\ Return(p, "peek", data[loc[p].i], "ok", "idle")
    /\ UNCHANGED <<ring, closed, done>>

(* Clear *)
Clear(p) ==
    /\ p \in Clearers /\ At(p, "idle")
    /\ Goto(p, "c:lock")
    /\ UNCHANGED loc /\ Still

ClearSize(p) ==
    /\ At(p, "c:lock") /\ NoWriter /\ NoReader
    /\ loc' = [loc EXCEPT ![p].s = size]
    /\ Goto(p, "c:head")
    /\ Still

ClearHead(p) ==
    /\ At(p, "c:head")
    /\ loc' = [loc EXCEPT ![p].i = head]
    /\ Goto(p, "c:wipe")
    /\ Still

ClearWipe(p) ==
    /\ At(p, "c:wipe")
    /\ data' = Wiped(data, loc[p].i, loc[p].s, len)
    /\ Goto(p, "c:head0")
    /\ UNCHANGED <<len, head, tail, size, closed, loc, call, done>>

ClearHead0(p) ==
    /\ At(p, "c:head0")
    /\ head' = 0 /\ Goto(p, "c:tail0")
    /\ UNCHANGED <<data, len, tail, size, closed, loc, call, done>>

ClearTail0(p) ==
    /\ At(p, "c:tail0")
    /\ tail' = 0 /\ Goto(p, "c:size0")
    /\ UNCHANGED <<data, len, head, size, closed, loc, call, done>>

ClearSize0(p) ==
    /\ At(p, "c:size0")
    /\ size' = 0
    /\ loc' = [loc EXCEPT ![p] = NoLocal]
    /\ Goto(p, "idle")
    /\ UNCHANGED <<data, len, head, tail, closed, call, done>>

Close(p) ==
    /\ p \in Closers /\ At(p, "idle") /\ ~closed
    /\ closed' = TRUE
    /\ UNCHANGED <<ring, pc, loc, call, done>>

(* A context is cancelled, by code outside the queue. *)
Cancel(c) ==
    /\ c \notin done
    /\ done' = done \cup {c}
    /\ UNCHANGED <<ring, closed, pc, loc, call>>

-----------------------------------------------------------------------------
(* Mutants: the element is counted before it is in its slot; the slot is   *)
(* given back before it is wiped.                                          *)
EnqCountsFirst(p) ==
    \/ /\ At(p, "e:write")
       /\ size' = size + 1 /\ Goto(p, "e:count")
       /\ UNCHANGED <<data, len, head, tail, closed, loc, call, done>>
    \/ /\ At(p, "e:count")
       /\ data' = [data EXCEPT ![loc[p].i] = loc[p].item]
       /\ Return(p, "try_enqueue", loc[p].item, "ok", "s:lock")
       /\ UNCHANGED <<len, head, tail, size, closed, done>>

InsertStepCountsFirst(p) ==
    \/ EnqClosed(p) \/ EnqFull(p) \/ EnqTail(p) \/ EnqSize(p) \/ EnqCas(p)
    \/ EnqCountsFirst(p)

DeqCountsFirst(p) ==
    \/ /\ At(p, "d:wipe")
       /\ size' = size - 1 /\ Goto(p, "d:count")
       /\ UNCHANGED <<data, len, head, tail, closed, loc, call, done>>
    \/ /\ At(p, "d:count")
       /\ data' = [data EXCEPT ![loc[p].i] = Zero]
       /\ Return(p, "try_dequeue", loc[p].item, "ok", "s:lock")
       /\ UNCHANGED <<len, head, tail, size, closed, done>>

DequeueStepCountsFirst(p) ==
    \/ DeqAny(p) \/ DeqHead(p) \/ DeqSize(p) \/ DeqItem(p) \/ DeqCas(p)
    \/ DeqCountsFirst(p) \/ DeqClosed(p)

InsertStep(p) ==
    \/ EnqClosed(p) \/ EnqFull(p)
    \/ EnqTail(p) \/ EnqSize(p) \/ EnqCas(p) \/ EnqWrite(p) \/ EnqCount(p)

GrowStep(p) ==
    \/ EnqLock(p) \/ ExpandCopies(p) \/ ExpandHead(p) \/ ExpandTail(p) \/ ExpandData(p)

EnqueueStep(p) == InsertStep(p) \/ GrowStep(p)

DequeueStep(p) ==
    \/ DeqAny(p) \/ DeqHead(p) \/ DeqSize(p) \/ DeqItem(p) \/ DeqCas(p)
    \/ DeqWipe(p) \/ DeqCount(p) \/ DeqClosed(p)

StatsStep(p) == StatsLock(p) \/ StatsUnlock(p)

PeekStep(p) == PeekSize(p) \/ PeekClosed(p) \/ PeekHead(p) \/ PeekItem(p)

ClearStep(p) ==
    \/ ClearSize(p) \/ ClearHead(p) \/ ClearWipe(p) \/ ClearHead0(p) \/ ClearTail0(p) \/ ClearSize0(p)

OtherStep(p) == StatsStep(p) \/ PeekStep(p) \/ ClearStep(p)

Running(p) == EnqueueStep(p) \/ DequeueStep(p) \/ OtherStep(p)

(* Who does what: a goroutine is in a call that it makes, and a queue      *)
(* grows only if it is unbounded.                                          *)
Growers == IF Capacity = 0 THEN Enqueuers ELSE {}

Next ==
    \/ \E p \in Enqueuers :
          \/ \E x \in Items, c \in Ctx \cup {NoCtx} : Enqueue(p, x, c)
          \/ InsertStep(p)
    \/ \E p \in Growers : GrowStep(p)
    \/ \E p \in Dequeuers :
          \/ \E c \in Ctx \cup {NoCtx} : Dequeue(p, c)
          \/ DequeueStep(p)
    \/ \E p \in Peekers : Peek(p) \/ PeekStep(p)
    \/ \E p \in Clearers : Clear(p) \/ ClearStep(p)
    \/ \E p \in Closers : Close(p)
    \/ \E p \in Procs : StatsStep(p)
    \/ \E c \in Ctx : Cancel(c)

Spec == Init /\ [][Next]_vars

(* Goroutines inside a call are scheduled, and one that waits for the      *)
(* mutex gets it although others come and go: Go's RWMutex keeps new       *)
(* readers from a writer that waits, and hands over to a writer of 1ms.    *)
TakesLock(p) == EnqLock(p) \/ StatsLock(p) \/ PeekSize(p) \/ ClearSize(p)

FairSpec == Spec /\ \A p \in Procs : WF_vars(Running(p)) /\ SF_vars(TakesLock(p))

-----------------------------------------------------------------------------
Labels == {"idle", "e:closed", "e:full", "e:lock", "e:tail", "e:size", "e:cas",
           "e:write", "e:count", "d:any", "d:head", "d:size", "d:item", "d:cas",
           "d:wipe", "d:count", "d:closed", "s:lock", "p:lock", "c:lock"} \cup WriterAt \cup ReaderAt

Calls == [op : {"none", "enqueue", "dequeue", "try_enqueue", "try_dequeue", "peek"},
          item : Items \cup {Zero}, ctx : Ctx \cup {NoCtx},
          out : {"none", "ok", "closed", "full", "empty", "cancelled"}]

(* Every variable keeps to its type; the indices stay inside the slice.    *)
TypeOK ==
    /\ len \in Nat \ {0} /\ head \in 0..len-1 /\ size \in 0..len
    /\ tail \in 0..len /\ (tail = len => \E p \in Procs : At(p, "x:data"))
    /\ data \in [0..len-1 -> Items \cup {Zero}]
    /\ closed \in BOOLEAN
    /\ pc \in [Procs -> Labels]
    /\ \A p \in Procs :
          /\ loc[p].item \in Items \cup {Zero}
          /\ loc[p].i \in 0..len-1 /\ loc[p].n \in 1..2*len
          /\ loc[p].s \in 0..len
    /\ call \in [Procs -> Calls]
    /\ done \subseteq Ctx

-----------------------------------------------------------------------------
(* One goroutine enqueues and one dequeues.                                *)
Placing(p) == pc[p] \in {"e:write", "e:count"}      \* has moved tail, not counted
Taking(p)  == pc[p] \in {"d:wipe", "d:count"}       \* has moved head, not counted

InFlight(S) == IF S = {} THEN 0 ELSE 1

(* In a bounded queue with one goroutine on each end the indices, the size *)
(* and the slots agree at every step of both: tail is the counted elements *)
(* and the one being placed after head; counted slots hold elements, the   *)
(* one being placed or wiped is the only slot in between, and every other  *)
(* slot is free; and what was loaded is still so when it is compared, so   *)
(* that no compare-and-swap fails.                                         *)
SpscInv ==
    LET placing == {p \in Procs : Placing(p)}
        taking  == {p \in Procs : Taking(p)}
        used    == size - InFlight(taking)
        slot(i) == (head + i) % len
    IN  /\ TypeOK
        /\ used >= 0 /\ used + InFlight(placing) + InFlight(taking) <= len
        /\ tail = slot(used + InFlight(placing))
        /\ \A i \in 0..used-1 : data[slot(i)] \in Items
        /\ \A i \in used..len-1 :
              data[slot(i)] # Zero =>
                 \/ i = used  /\ \E p \in placing : At(p, "e:count")
                 \/ i = len-1 /\ \E p \in taking : At(p, "d:wipe")
        /\ \A p \in Procs :
              /\ pc[p] \in {"e:size", "e:cas"} => loc[p].i = tail
              /\ Placing(p) => loc[p].i = slot(used) /\ loc[p].item \in Items
              /\ At(p, "e:count") => data[loc[p].i] = loc[p].item
              /\ pc[p] \in {"e:cas"} => used + InFlight(taking) < len
              /\ pc[p] \in {"d:size", "d:item", "d:cas"} => loc[p].i = head /\ used > 0
              /\ At(p, "d:cas") => loc[p].item = data[head]
              /\ Taking(p) => loc[p].i = slot(len - 1) /\ loc[p].item \in Items

(* The queue is a FIFO queue. Enqueue and Dequeue take effect when they    *)
(* count their element, so that one already taken is still in front; a     *)
(* call that finds nothing does when it looks at the size, before it asks  *)
(* whether the queue is closed; Clear does when it wipes the slots.        *)
Only(at) == CHOOSE p \in Procs : pc[p] \in at

Contents ==
    CASE \E p \in Procs : pc[p] \in {"c:head0", "c:tail0", "c:size0"} -> <<>>
      [] \E p \in Procs : pc[p] \in {"x:tail", "x:data"} ->
            LET p == Only({"x:tail", "x:data"}) IN Window(loc[p].new, 0, size, loc[p].n)
      [] \E p \in Procs : Taking(p) ->
            <<loc[Only({"d:wipe", "d:count"})].item>> \o Window(data, head, size - 1, len)
      [] OTHER -> Window(data, head, size, len)

Nothing(op) == [op |-> op, item |-> Zero, ctx |-> NoCtx,
                out |-> IF closed THEN "closed" ELSE "empty"]

Results == [p \in Procs |-> CASE At(p, "d:closed") -> Nothing("try_dequeue")
                              [] At(p, "p:closed") -> Nothing("peek")
                              [] OTHER             -> call[p]]

Fifo == INSTANCE FifoQueue WITH contents <- Contents, call <- Results,
                                EnqueueTimed <- FALSE, DequeueTimed <- FALSE
ImplementsFifo == Fifo!Spec

(* A call returns if nobody stops for ever within one: not only does a     *)
(* retry succeed, nobody waits for ever for the mutex of the statistics,   *)
(* which the other end, and its Peek, take again and again.                *)
CallsReturn == \A p \in Procs : ~At(p, "idle") ~> At(p, "idle")

(* Whatever goroutines call it, in a bounded queue every index that is     *)
(* compared, read or written with lies inside the slice: no access panics. *)
IndexInRange ==
    /\ Capacity > 0 => len = Capacity
    /\ {head, tail} \cup {loc[p].i : p \in Procs} \subseteq 0..len-1

(* No livelock in the loops around compare-and-swap, and no deadlock over  *)
(* the mutex behind them: while all are scheduled, a goroutine stays in a  *)
(* call for ever only if others return from theirs again and again. It is  *)
(* not lock-free: one that stops in the mutex stops the others.            *)
Returns(q) == ~At(q, "idle") /\ At(q, "idle")'

NoLivelock ==
    \A p \in Procs :
       <>[]~At(p, "idle") => []<><<\E q \in Procs \ {p} : Returns(q)>>_vars

(* A bounded queue shared by any number of producers exceeds its capacity  *)
(* by no more than the other producers: each passes the check on the size  *)
(* at most once before it counts its element.                              *)
OvershootBounded == Capacity > 0 => size <= Capacity - 1 + Cardinality(Enqueuers)

(* What is left of the queue's promise when its ends are shared. *)
BoundsWhenShared == IndexInRange /\ OvershootBounded
=============================================================================
