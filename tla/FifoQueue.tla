----------------------------- MODULE FifoQueue -----------------------------
(***************************************************************************)
(* What an implementation of the interface queue.Queue promises its        *)
(* callers: one FIFO of accepted elements, of bounded capacity unless      *)
(* Capacity is 0, on which every call takes effect at a single instant.    *)
(*                                                                         *)
(*  - A call that is refused (closed, full, empty) or gives up (cancelled, *)
(*    timeout) leaves the queue as it was; a call that succeeds adds its   *)
(*    element at the tail, or returns and removes the one at the head.     *)
(*  - A blocking call gives up only after it has found the queue full      *)
(*    (Enqueue) or empty (Dequeue), and only for the reason it reports.    *)
(*  - A closed queue accepts nothing; what it holds can still be taken.    *)
(***************************************************************************)
EXTENDS Integers, Sequences

CONSTANTS Procs,          \* callers
          Items,          \* elements
          Zero,           \* the zero value, returned with every error
          Capacity,       \* largest number of elements, 0 for no limit
          Ctx, NoCtx,     \* contexts, and the nil context
          EnqueueTimed,   \* is there an enqueue timeout?
          DequeueTimed    \* is there a dequeue timeout?

VARIABLES contents,   \* the accepted elements, head first
          closed,     \* has Close been called?
          call,       \* the last call of each caller and how it stands
          done        \* the contexts that have been cancelled
vars == <<contents, closed, call, done>>

BlockingOps == {"enqueue", "dequeue"}
Open        == {"pending", "waiting"}     \* outcomes of a call still running

NoCall == [op |-> "none", item |-> Zero, ctx |-> NoCtx, out |-> "none"]

Full  == Capacity > 0 /\ Len(contents) >= Capacity
Empty == contents = <<>>

Init ==
    /\ contents = <<>>
    /\ closed = FALSE
    /\ call = [p \in Procs |-> NoCall]
    /\ done = {}

(* Caller p starts a blocking call, cancelled at once if its context is. *)
Invoke(p, op, x, c) ==
    /\ call[p].out \notin Open
    /\ call' = [call EXCEPT ![p] =
                  [op |-> op, item |-> x, ctx |-> c,
                   out |-> IF c \in done THEN "cancelled" ELSE "pending"]]
    /\ UNCHANGED <<contents, closed, done>>

Running(p, op) == call[p].op = op /\ call[p].out \in Open

Settle(p, out, x) ==
    call' = [call EXCEPT ![p].out = out, ![p].item = x]

(* An Enqueue finds no room, or a Dequeue nothing to take, and waits. *)
Block(p) ==
    /\ call[p].out = "pending"
    /\ ~closed
    /\ \/ call[p].op = "enqueue" /\ Full
       \/ call[p].op = "dequeue" /\ Empty
    /\ Settle(p, "waiting", call[p].item)
    /\ UNCHANGED <<contents, closed, done>>

Accept(p) ==
    /\ Running(p, "enqueue") /\ ~closed /\ ~Full
    /\ contents' = Append(contents, call[p].item)
    /\ Settle(p, "ok", call[p].item)
    /\ UNCHANGED <<closed, done>>

Deliver(p) ==
    /\ Running(p, "dequeue") /\ ~Empty
    /\ contents' = Tail(contents)
    /\ Settle(p, "ok", Head(contents))
    /\ UNCHANGED <<closed, done>>

RefuseClosed(p) ==
    /\ closed
    /\ \/ Running(p, "enqueue")
       \/ Running(p, "dequeue") /\ Empty
    /\ Settle(p, "closed", call[p].item)
    /\ UNCHANGED <<contents, closed, done>>

TimeOut(p) ==
    /\ call[p].out = "waiting"
    /\ IF call[p].op = "enqueue" THEN EnqueueTimed ELSE DequeueTimed
    /\ Settle(p, "timeout", call[p].item)
    /\ UNCHANGED <<contents, closed, done>>

GiveUp(p) ==
    /\ call[p].out = "waiting"
    /\ call[p].ctx \in done
    /\ Settle(p, "cancelled", call[p].item)
    /\ UNCHANGED <<contents, closed, done>>

(* The calls that never wait. *)
Record(p, op, x, out) ==
    call' = [call EXCEPT ![p] = [op |-> op, item |-> x, ctx |-> NoCtx, out |-> out]]

TryEnqueue(p, x) ==
    /\ call[p].out \notin Open
    /\ \/ closed /\ contents' = contents /\ Record(p, "try_enqueue", x, "closed")
       \/ ~closed /\ Full /\ contents' = contents /\ Record(p, "try_enqueue", x, "full")
       \/ ~closed /\ ~Full /\ contents' = Append(contents, x) /\ Record(p, "try_enqueue", x, "ok")
    /\ UNCHANGED <<closed, done>>

Nothing == IF closed THEN "closed" ELSE "empty"   \* the error for an empty queue

TryDequeue(p) ==
    /\ call[p].out \notin Open
    /\ \/ Empty /\ contents' = contents /\ Record(p, "try_dequeue", Zero, Nothing)
       \/ ~Empty /\ contents' = Tail(contents) /\ Record(p, "try_dequeue", Head(contents), "ok")
    /\ UNCHANGED <<closed, done>>

Peek(p) ==
    /\ call[p].out \notin Open
    /\ \/ Empty /\ Record(p, "peek", Zero, Nothing)
       \/ ~Empty /\ Record(p, "peek", Head(contents), "ok")
    /\ UNCHANGED <<contents, closed, done>>

Clear == contents' = <<>> /\ UNCHANGED <<closed, call, done>>
Close == closed' = TRUE /\ UNCHANGED <<contents, call, done>>
Cancel(c) == done' = done \cup {c} /\ UNCHANGED <<contents, closed, call>>

Next ==
    \/ \E p \in Procs :
          \/ \E x \in Items, c \in Ctx \cup {NoCtx} : Invoke(p, "enqueue", x, c)
          \/ \E c \in Ctx \cup {NoCtx} : Invoke(p, "dequeue", Zero, c)
          \/ Block(p) \/ Accept(p) \/ Deliver(p) \/ RefuseClosed(p)
          \/ TimeOut(p) \/ GiveUp(p)
          \/ \E x \in Items : TryEnqueue(p, x)
          \/ TryDequeue(p) \/ Peek(p)
    \/ Clear \/ Close
    \/ \E c \in Ctx : Cancel(c)

Spec == Init /\ [][Next]_vars
=============================================================================
