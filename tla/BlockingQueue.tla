--------------------------- MODULE BlockingQueue ---------------------------
(***************************************************************************)
(* queue.BlockingQueue: a circular slice behind one mutex, on which        *)
(* Enqueue and Dequeue wait by polling.                                    *)
(*                                                                         *)
(* A waiting call never sleeps on notEmpty or notFull (their Signal and    *)
(* Broadcast reach nobody, and are left out). It goes round a loop: make a *)
(* waitCh, start a goroutine that watches the context (Enqueue's may close *)
(* the waitCh; Dequeue's only broadcasts, and is left out), then either    *)
(* select on timer, context, waitCh and a 50ms tick (with a timeout), or   *)
(* sleep on a condition of its own that a helper goroutine signals after   *)
(* 50ms (without); then lock, close the waitCh and look again.             *)
(*                                                                         *)
(* A step under the mutex is one action. The exception is the moment       *)
(* between starting the 50ms helper and being registered on the condition: *)
(* pc = "arm", the mutex held. Statistics and events are left out, as are  *)
(* Size, IsEmpty, IsFull, IsClosed and Stats, which change nothing.        *)
(***************************************************************************)
EXTENDS Ring, Sequences

CONSTANTS Procs,          \* callers, one call at a time each
          Pollers,        \* those that also use the operations that never wait
          Items,          \* elements
          Capacity,       \* opts.Capacity, 0 for an unbounded queue
          DefaultLen,     \* first length of an unbounded queue's slice, 16 in the code
          MaxLen,         \* bound: an unbounded queue's slice grows no longer
          EnqueueTimed,   \* opts.EnqueueTimeout > 0
          DequeueTimed,   \* opts.DequeueTimeout > 0
          Ctx, NoCtx,     \* contexts, and the nil context
          EnqCtx, DeqCtx, \* those passed to Enqueue and to Dequeue
          PromptPark      \* a caller reaches cond.Wait within the 50ms of its helper

ASSUME QueueAssumption ==
    /\ Zero \notin Items
    /\ Capacity \in Nat
    /\ DefaultLen \in Nat \ {0}
    /\ MaxLen \in Nat
    /\ EnqueueTimed \in BOOLEAN /\ DequeueTimed \in BOOLEAN /\ PromptPark \in BOOLEAN
    /\ NoCtx \notin Ctx
    /\ Pollers \subseteq Procs
    /\ EnqCtx \subseteq Ctx \cup {NoCtx} /\ DeqCtx \subseteq Ctx \cup {NoCtx}

VARIABLES
    data, len,          \* the slice and its length
    head, tail, size,
    closed,
    pc,                 \* where each caller is
    call,               \* its last call: operation, element, context, outcome
    watcher,            \* the goroutine watching its context for the current waitCh
    waker,              \* is its 50ms helper still to signal?
    expired,            \* has its timeout timer fired?
    stale,              \* watchers whose waitCh their caller has closed
    done,               \* cancelled contexts
    crashed             \* a goroutine panicked: the program is gone

ring == <<data, len, head, tail, size>>
wait == <<watcher, waker, expired, stale>>
vars == <<ring, closed, pc, call, wait, done, crashed>>

InitLen == IF Capacity > 0 THEN Capacity ELSE DefaultLen

NoCall == [op |-> "none", item |-> Zero, ctx |-> NoCtx, out |-> "none"]

Init ==
    /\ data = EmptyRing(InitLen) /\ len = InitLen
    /\ head = 0 /\ tail = 0 /\ size = 0
    /\ closed = FALSE
    /\ pc = [p \in Procs |-> "idle"]
    /\ call = [p \in Procs |-> NoCall]
    /\ watcher = [p \in Procs |-> "none"]
    /\ waker = [p \in Procs |-> FALSE]
    /\ expired = [p \in Procs |-> FALSE]
    /\ stale = {} /\ done = {} /\ crashed = FALSE

-----------------------------------------------------------------------------
isEmpty == size = 0
(* Mutant: full one element too late. *)
isFullLate == IF Capacity > 0 THEN size > Capacity ELSE size > len
isFull  == IF Capacity > 0 THEN size >= Capacity ELSE size >= len

Unlocked == \A p \in Procs : pc[p] # "arm"

Timed(op)   == IF op = "enqueue" THEN EnqueueTimed ELSE DequeueTimed
Blocked(op) == IF op = "enqueue" THEN Capacity > 0 /\ isFull ELSE isEmpty

Settle(p, out, x) == call' = [call EXCEPT ![p].out = out, ![p].item = x]

(* The ring operations. *)
CanGrow == 2 * len <= MaxLen        \* bound on an unbounded queue
HasSlot == ~isFull \/ CanGrow

(* Mutant: the slot after the used ones is taken to be the one at size. *)
PutItemAtSize(x) ==
    /\ ~isFull
    /\ data' = [data EXCEPT ![size] = x]
    /\ tail' = (tail + 1) % len
    /\ size' = size + 1
    /\ UNCHANGED <<len, head>>

PutItem(x) ==
    IF isFull
    THEN /\ data' = [Grown(data, head, size, len) EXCEPT ![size] = x]
         /\ len' = 2 * len
         /\ head' = 0
         /\ tail' = (size + 1) % (2 * len)
         /\ size' = size + 1
    ELSE /\ data' = [data EXCEPT ![tail] = x]
         /\ tail' = (tail + 1) % len
         /\ size' = size + 1
         /\ UNCHANGED <<len, head>>

(* Mutant: the slot that is given back keeps its element. *)
TakeItemKeeps ==
    /\ head' = (head + 1) % len
    /\ size' = size - 1
    /\ UNCHANGED <<data, len, tail>>

TakeItem ==
    /\ data' = [data EXCEPT ![head] = Zero]
    /\ head' = (head + 1) % len
    /\ size' = size - 1
    /\ UNCHANGED <<len, tail>>

-----------------------------------------------------------------------------
(* A caller enters Enqueue or Dequeue: the context is checked before the   *)
(* mutex is asked for.                                                     *)
Call(p, op, x, c) ==
    /\ pc[p] = "idle"
    /\ call' = [call EXCEPT ![p] =
                  [op |-> op, item |-> x, ctx |-> c,
                   out |-> IF c \in done THEN "cancelled" ELSE "pending"]]
    /\ pc' = [pc EXCEPT ![p] = IF c \in done THEN "idle" ELSE "enter"]
    /\ UNCHANGED <<ring, closed, wait, done, crashed>>

(* p has the mutex and is about to evaluate the condition of its loop:     *)
(* on entry, after a tick or its waitCh, or woken without a cancellation.  *)
AtCondition(p) ==
    /\ Unlocked
    /\ pc[p] \in {"enter", "retry", "woken"}
    /\ pc[p] = "woken" => call[p].ctx \notin done

(* The waitCh of the round that ends is closed by its caller unless the    *)
(* watcher has done it. A watcher that has not yet ended is now stale.     *)
EndRound(p) ==
    stale' = stale \cup {[ctx |-> call[p].ctx, at |-> w] :
                            w \in {watcher[p]} \cap {"watching", "locking"}}

Leave(p) ==
    /\ EndRound(p)
    /\ pc' = [pc EXCEPT ![p] = "idle"]
    /\ watcher' = [watcher EXCEPT ![p] = "none"]
    /\ expired' = [expired EXCEPT ![p] = FALSE]
    /\ UNCHANGED <<waker, done, crashed>>

(* The operation must wait: a new round, with its watcher and its helper.  *)
StartRound(p) ==
    /\ AtCondition(p)
    /\ Blocked(call[p].op) /\ ~closed
    /\ EndRound(p)
    /\ watcher' = [watcher EXCEPT ![p] =
                     IF call[p].op = "enqueue" /\ call[p].ctx # NoCtx
                     THEN "watching" ELSE "none"]
    /\ pc' = [pc EXCEPT ![p] = IF Timed(call[p].op) THEN "select" ELSE "arm"]
    /\ waker' = [waker EXCEPT ![p] = ~Timed(call[p].op)]
    /\ Settle(p, "waiting", call[p].item)
    /\ UNCHANGED <<ring, closed, expired, done, crashed>>

FinishEnqueue(p) ==
    /\ AtCondition(p)
    /\ call[p].op = "enqueue" /\ ~closed /\ ~Blocked("enqueue")
    /\ HasSlot /\ PutItem(call[p].item)
    /\ Settle(p, "ok", call[p].item)
    /\ Leave(p) /\ UNCHANGED closed

FinishDequeue(p) ==
    /\ AtCondition(p)
    /\ call[p].op = "dequeue" /\ ~isEmpty
    /\ TakeItem
    /\ Settle(p, "ok", data[head])
    /\ Leave(p) /\ UNCHANGED closed

FinishClosed(p) ==
    /\ AtCondition(p)
    /\ closed
    /\ call[p].op = "enqueue" \/ isEmpty
    /\ Settle(p, "closed", call[p].item)
    /\ Leave(p) /\ UNCHANGED <<ring, closed>>

-----------------------------------------------------------------------------
(* Waiting without a timeout. cond.Wait registers p, then unlocks. *)
Park(p) ==
    /\ pc[p] = "arm"
    /\ pc' = [pc EXCEPT ![p] = "parked"]
    /\ UNCHANGED <<ring, closed, call, wait, done, crashed>>

(* Mutant: the helper signals notFull, not p's own condition. *)
WakerMisses(p) ==
    /\ waker[p] /\ pc[p] = "parked"
    /\ waker' = [waker EXCEPT ![p] = FALSE]
    /\ UNCHANGED <<ring, closed, pc, call, watcher, expired, stale, done, crashed>>

(* The helper's 50ms are over: a Signal, which reaches p only if p is      *)
(* registered by now.                                                      *)
WakerFires(p) ==
    /\ waker[p]
    /\ PromptPark => pc[p] = "parked"
    /\ waker' = [waker EXCEPT ![p] = FALSE]
    /\ pc' = [pc EXCEPT ![p] = IF pc[p] = "parked" THEN "woken" ELSE pc[p]]
    /\ UNCHANGED <<ring, closed, call, watcher, expired, stale, done, crashed>>

(* Waiting with a timeout: the select, which evaluates ctx.Done() first. *)
SelectNilCtx(p) ==
    /\ pc[p] = "select" /\ call[p].ctx = NoCtx
    /\ crashed' = TRUE
    /\ UNCHANGED <<ring, closed, pc, call, wait, done>>

Select(p, ready, next) ==
    /\ pc[p] = "select" /\ call[p].ctx # NoCtx
    /\ ready
    /\ pc' = [pc EXCEPT ![p] = next]
    /\ UNCHANGED <<ring, closed, call, wait, done, crashed>>

SelectTimer(p)  == Select(p, expired[p], "timeout")
SelectDone(p)   == Select(p, call[p].ctx \in done, "cancel")
SelectWaitCh(p) == Select(p, watcher[p] = "closed", "retry")
SelectTick(p)   == Select(p, TRUE, "retry")

(* Both give up under the mutex, without looking at the queue again. *)
GiveUpTimeout(p) ==
    /\ Unlocked /\ pc[p] = "timeout"
    /\ Settle(p, "timeout", call[p].item)
    /\ Leave(p) /\ UNCHANGED <<ring, closed>>

GiveUpCancelled(p) ==
    /\ Unlocked
    /\ \/ pc[p] = "cancel"
       \/ pc[p] = "woken" /\ call[p].ctx \in done
    /\ Settle(p, "cancelled", call[p].item)
    /\ Leave(p) /\ UNCHANGED <<ring, closed>>

(* The timeout's timer, made when the call started to wait. *)
TimerFires(p) ==
    /\ call[p].out = "waiting" /\ Timed(call[p].op) /\ ~expired[p]
    /\ expired' = [expired EXCEPT ![p] = TRUE]
    /\ UNCHANGED <<ring, closed, pc, call, watcher, waker, stale, done, crashed>>

-----------------------------------------------------------------------------
(* Enqueue's watcher while the round is on: its select sees the context,   *)
(* then it takes the mutex and closes the waitCh through the once.         *)
WatcherSees(p) ==
    /\ watcher[p] = "watching" /\ call[p].ctx \in done
    /\ watcher' = [watcher EXCEPT ![p] = "locking"]
    /\ UNCHANGED <<ring, closed, pc, call, waker, expired, stale, done, crashed>>

WatcherCloses(p) ==
    /\ Unlocked /\ watcher[p] = "locking"
    /\ watcher' = [watcher EXCEPT ![p] = "closed"]
    /\ UNCHANGED <<ring, closed, pc, call, waker, expired, stale, done, crashed>>

(* A stale watcher finds its waitCh closed and ends, or, its context done  *)
(* as well, takes the other branch of its select; if it has taken it, its  *)
(* once closes a closed channel. (Watchers alike are one in the set: one   *)
(* that leaves or panics decides no more than the first of several.)       *)
StaleExits(w) ==
    /\ w.at = "watching"
    /\ stale' = stale \ {w}
    /\ UNCHANGED <<ring, closed, pc, call, watcher, waker, expired, done, crashed>>

(* Mutant: the once is run on both branches of the select. *)
StaleSeesAnyway(w) ==
    /\ w.at = "watching"
    /\ stale' = (stale \ {w}) \cup {[w EXCEPT !.at = "locking"]}
    /\ UNCHANGED <<ring, closed, pc, call, watcher, waker, expired, done, crashed>>

StaleSees(w) ==
    /\ w.at = "watching" /\ w.ctx \in done
    /\ stale' = (stale \ {w}) \cup {[w EXCEPT !.at = "locking"]}
    /\ UNCHANGED <<ring, closed, pc, call, watcher, waker, expired, done, crashed>>

StaleCloses(w) ==
    /\ Unlocked /\ w.at = "locking"
    /\ crashed' = TRUE
    /\ UNCHANGED <<ring, closed, pc, call, wait, done>>

-----------------------------------------------------------------------------
(* The operations that never wait, by a caller with no other call running. *)
Record(p, op, x, out) ==
    call' = [call EXCEPT ![p] = [op |-> op, item |-> x, ctx |-> NoCtx, out |-> out]]

Try(p) == p \in Pollers /\ pc[p] = "idle" /\ Unlocked /\ UNCHANGED <<closed, pc, wait, done, crashed>>

TryEnqueue(p, x) ==
    /\ Try(p)
    /\ \/ /\ closed
          /\ Record(p, "try_enqueue", x, "closed") /\ UNCHANGED ring
       \/ /\ ~closed /\ isFull /\ Capacity > 0
          /\ Record(p, "try_enqueue", x, "full") /\ UNCHANGED ring
       \/ /\ ~closed /\ ~(isFull /\ Capacity > 0)
          /\ HasSlot /\ PutItem(x)
          /\ Record(p, "try_enqueue", x, "ok")

TryDequeue(p) ==
    /\ Try(p)
    /\ \/ /\ isEmpty
          /\ Record(p, "try_dequeue", Zero, IF closed THEN "closed" ELSE "empty")
          /\ UNCHANGED ring
       \/ /\ ~isEmpty
          /\ TakeItem
          /\ Record(p, "try_dequeue", data[head], "ok")

Peek(p) ==
    /\ Try(p)
    /\ \/ isEmpty /\ Record(p, "peek", Zero, IF closed THEN "closed" ELSE "empty")
       \/ ~isEmpty /\ Record(p, "peek", data[head], "ok")
    /\ UNCHANGED ring

Clear ==
    /\ Unlocked
    /\ data' = Wiped(data, head, size, len)
    /\ head' = 0 /\ tail' = 0 /\ size' = 0
    /\ UNCHANGED <<len, closed, pc, call, wait, done, crashed>>

Close ==
    /\ Unlocked /\ ~closed
    /\ closed' = TRUE
    /\ UNCHANGED <<ring, pc, call, wait, done, crashed>>

(* A context is cancelled, by code outside the queue. *)
Cancel(c) ==
    /\ c \notin done
    /\ done' = done \cup {c}
    /\ UNCHANGED <<ring, closed, pc, call, wait, crashed>>

(* After a panic nothing moves. *)
Halt == crashed /\ UNCHANGED vars

-----------------------------------------------------------------------------
Finish(p) == FinishEnqueue(p) \/ FinishDequeue(p) \/ FinishClosed(p)
Selects(p) == SelectNilCtx(p) \/ SelectTimer(p) \/ SelectDone(p)
                 \/ SelectWaitCh(p) \/ SelectTick(p)

Next ==
    \/ /\ ~crashed
       /\ \/ \E p \in Procs :
                \/ \E x \in Items, c \in EnqCtx : Call(p, "enqueue", x, c)
                \/ \E c \in DeqCtx : Call(p, "dequeue", Zero, c)
                \/ StartRound(p) \/ Finish(p)
                \/ Park(p) \/ WakerFires(p)
                \/ Selects(p)
                \/ GiveUpTimeout(p) \/ GiveUpCancelled(p)
                \/ TimerFires(p)
                \/ WatcherSees(p) \/ WatcherCloses(p)
                \/ \E x \in Items : TryEnqueue(p, x)
                \/ TryDequeue(p) \/ Peek(p)
          \/ \E w \in stale : StaleExits(w) \/ StaleSees(w) \/ StaleCloses(w)
          \/ Clear \/ Close
          \/ \E c \in Ctx : Cancel(c)
    \/ Halt

Spec == Init /\ [][Next]_vars

(***************************************************************************)
(* Fairness. Goroutines are scheduled and timers fire (WF). A goroutine    *)
(* that asks for the mutex gets it, Go's mutex handing it over to a waiter *)
(* of 1ms; and a select picks among its ready cases at random: SF.         *)
(***************************************************************************)
FairSpec ==
    /\ Spec
    /\ \A p \in Procs :
          /\ WF_vars(Park(p)) /\ WF_vars(WakerFires(p)) /\ WF_vars(TimerFires(p))
          /\ WF_vars(SelectTick(p)) /\ WF_vars(SelectNilCtx(p))
          /\ SF_vars(SelectTimer(p)) /\ SF_vars(SelectDone(p))
          /\ SF_vars(\/ StartRound(p) \/ Finish(p)
                     \/ GiveUpCancelled(p) \/ GiveUpTimeout(p))

-----------------------------------------------------------------------------
Outcomes == {"none", "pending", "waiting", "ok", "closed", "full", "empty",
             "timeout", "cancelled"}

Calls == [op : {"none", "enqueue", "dequeue", "try_enqueue", "try_dequeue", "peek"},
          item : Items \cup {Zero}, ctx : Ctx \cup {NoCtx}, out : Outcomes]

RingTypeOK ==
    /\ len \in Nat \ {0} /\ head \in 0..len-1 /\ tail \in 0..len-1 /\ size \in 0..len
    /\ data \in [0..len-1 -> Items \cup {Zero}]

(* Every variable keeps to its type. *)
TypeOK ==
    /\ RingTypeOK
    /\ closed \in BOOLEAN /\ crashed \in BOOLEAN
    /\ pc \in [Procs -> {"idle", "enter", "arm", "parked", "woken",
                         "select", "retry", "timeout", "cancel"}]
    /\ call \in [Procs -> Calls]
    /\ watcher \in [Procs -> {"none", "watching", "locking", "closed"}]
    /\ waker \in [Procs -> BOOLEAN] /\ expired \in [Procs -> BOOLEAN]
    /\ done \subseteq Ctx
    /\ stale \subseteq [ctx : Ctx, at : {"watching", "locking"}]

(* The two indices and the count describe the same part of the slice, in   *)
(* bounded and in growing queues and over a wrap-around: tail is size      *)
(* slots after head, a used slot holds an element (one that was accepted,  *)
(* never the zero value left by an earlier dequeue or Clear), a free slot  *)
(* keeps no reference, and a bounded queue never grows.                    *)
RingInv ==
    /\ tail = (head + size) % len
    /\ \A i \in 0..len-1 : (data[(head + i) % len] \in Items) <=> i < size
    /\ Capacity > 0 => len = Capacity

(* The caller's bookkeeping and its goroutines agree: a call is running    *)
(* exactly while its caller is inside, an Enqueue still holds its element, *)
(* a caller gives up only for a timer that fired or a context that is      *)
(* done, no helper outlives the sleep it ends, and only an Enqueue in a    *)
(* round, with a context, has a watcher on a waitCh it may close.          *)
RoundInv ==
    /\ \A p \in Procs :
          /\ (call[p].out = "pending") <=> (pc[p] = "enter")
          /\ (call[p].out = "waiting") <=> (pc[p] \notin {"idle", "enter"})
          /\ pc[p] # "idle" => \/ call[p].op = "enqueue" /\ call[p].item \in Items
                               \/ call[p].op = "dequeue" /\ call[p].item = Zero
          /\ pc[p] = "timeout" => expired[p]
          /\ expired[p] => call[p].out = "waiting" /\ Timed(call[p].op)
          /\ pc[p] = "cancel" => call[p].ctx \in done
          /\ waker[p] => pc[p] \in {"arm", "parked"}
          /\ watcher[p] # "none" =>
                /\ call[p].op = "enqueue" /\ call[p].ctx # NoCtx
                /\ call[p].out = "waiting"
          /\ watcher[p] = "locking" => call[p].ctx \in done
    /\ \A p, q \in Procs : pc[p] = "arm" /\ pc[q] = "arm" => p = q
    /\ \A w \in stale : w.at = "locking" => w.ctx \in done

(* The program dies only of a cancellation (the waitCh closed twice) or of *)
(* a nil context given to a call with a timeout.                           *)
CrashNeedsCancel ==
    crashed => \/ done # {}
               \/ \E p \in Procs : call[p].ctx = NoCtx /\ pc[p] = "select"

(* The queue is a FIFO queue: the used slots, in order, are its contents.  *)
Fifo == INSTANCE FifoQueue WITH contents <- Window(data, head, size, len)
ImplementsFifo == Fifo!Spec

-----------------------------------------------------------------------------
(* Liveness, each up to the crash of the program.                          *)
Waiting(p) == call[p].out = "waiting"

(* Close lets go of everyone, a cancelled context of its caller, and a     *)
(* call with a timeout returns, whatever its select picks.                 *)
WaitersReleased ==
    \A p \in Procs :
       (Waiting(p) /\ (closed \/ call[p].ctx \in done \/ Timed(call[p].op)))
          ~> (~Waiting(p) \/ crashed)

(* No wake-up is missed although nobody signals: a Dequeue waiting while   *)
(* there is an element returns, or somebody else empties the queue; an     *)
(* Enqueue waiting while there is room returns, or somebody else fills it. *)
WaitersNotice ==
    \A p \in Procs :
       (Waiting(p) /\ ~Blocked(call[p].op))
          ~> (~Waiting(p) \/ Blocked(call[p].op) \/ crashed)

(* No wait outlasts its reason, whichever it is. *)
WaitsEnd == WaitersReleased /\ WaitersNotice
=============================================================================
