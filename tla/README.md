# fyer-kit in TLA+

Specifications of the concurrent parts of fyer-kit: its two queues, its
connection pool with the adapters' helpers on top of it, its worker pool, its sets,
its slice with transactions, its connection limiters and its queue service, with the
TLC runs that check them and proofs that TLAPS checks: eight modules of
proofs about nine components. Every definition follows the Go code; `PROJECT.json` maps each to its lines.

1. [The system](#1-the-system)
2. [The modules](#2-the-modules)
3. [The runs](#3-the-runs)
4. [What is proved](#4-what-is-proved)
5. [Where the code departs from its word](#5-where-the-code-departs-from-its-word)
6. [What is not modelled](#6-what-is-not-modelled)
7. [Plan](#7-plan)

## 1. The system

fyer-kit is a library of containers and pools. Its packages share no state; two of them
are built on others: the adapters give the pool its connections and wrap Get and Put in
helpers, and the queue service owns queues of package `queue`.

| Component | State | Operations | What is hard | What makes it correct |
|---|---|---|---|---|
| `queue.BlockingQueue` | circular slice, `head`, `tail`, `size`, `closed`, one mutex; per waiting call a `waitCh`, a watcher goroutine, a 50ms helper, a timer | Enqueue, Dequeue (blocking, with context and timeout), TryEnqueue, TryDequeue, Peek, Clear, Close | the wait: three goroutines per call, a lost signal, a channel closed by two; growth while wrapped | it is a FIFO queue; nobody sleeps for ever; no panic |
| `queue.NonBlockingQueue` | the same slice, with atomic `head`, `tail`, `size`, `closed`; a mutex for growth, Clear, Peek and the statistics | the same, none waiting for room or elements | compare-and-swap on the index alone: slot, index and size move at different times; every call counts itself under the mutex | a FIFO queue for one producer and one consumer; indices in range for any; calls end |
| `pool.ConnectionPool` | buffered channel of idle connections, statistics under a lock, `activeConns`, `closed` | Get, Put, Shutdown, the cleaner goroutine, `pooledConnection.Close` | the channel and the statistics change at different times; `p.idle` is read without the lock; the channel is closed under its users | a connection has one owner; counts are exact; limits; nothing left open after Shutdown; calls end |
| `pool/connlimit` | the times of the requests in a window, or a token bucket | Allow, Wait, Reserve, Close; composite limiters | check and reservation under different locks; composites that keep half a success | limits are kept; a result fits what was taken |
| `pool/adapters` | a closed flag per connection, around a client library | WithConnection, Execute, WithTransaction, GetConn, WithPooledClient | helpers close, after Put, what they have given back; two never give back; Close and ResetState differ by adapter | nobody gives back twice; who may close a connection under its user; helpers end |
| `workpool.WorkPool` | status, priority queue, workers, three atomic counters, `stopCh`, handles, scaler | Start, Submit, Cancel, Result, Shutdown | Submit checks the status and queues later; counters are guessed by exiting workers; workers are added to a wait group that is being waited for; restart | tasks are done once, none is lost; MaxWorkers; Shutdown drains and returns |
| `slice` | a Go slice under a RWMutex; a transaction's copy | element and batch operations, atomic ones, transactions, iterators | slices share arrays: append and removal write in place, some operations keep the caller's array; Commit overwrites | no array is shared; elements are moved right; a transaction is seen by nobody before Commit, and what it brought stays |
| `set` | maps and a sorted slice; ConcurrentSet: a lock around one | set algebra on two sets | two locks | the algebra; no deadlock |
| `internal/queueservice` | map of queues under a lock | CreateQueue, DeleteQueue, EnqueueItem, DequeueItem, Close | queues used after they left the map, next to their successors | each queue is a FIFO queue; a deleted queue accepts nothing |

The interactions that matter are inside the components: goroutines that share a
lock, an atomic, a channel. Go's channels, mutexes, wait groups and contexts
are external and modelled by their documented behaviour (a send hands
over to the first parked receiver; a receive from a closed empty channel yields
the zero value; closing a closed channel panics). A panic in a goroutine ends
the program: a variable `crashed` after which nothing moves.

`hazards` in `PROJECT.json` lists, line by line, what a test would hardly reach,
with the properties that cover it.

## 2. The modules

```
Ring                     the circular slice: pure operators
 |- BlockingQueue        --implements--> FifoQueue
 |   |- MCBlockingQueue
 |   `- BlockingQueueProofs
 |- NonBlockingQueue     --implements--> FifoQueue (one goroutine per end)
 |   |- MCNonBlockingQueue
 |   `- NonBlockingQueueProofs
 |- CreatedQueue           (either of them, as the service makes it)
 |   `- MCCreatedQueue
 `- QueueService
     |- MCQueueService
     `- QueueServiceProofs
ConnPool
 |- MCConnPool
 `- PoolClients                      (every step is one of ConnPool's, and more)
     |- MCPoolClients
     `- ConnPoolProofs               (about ConnPool and PoolClients)
WorkPool  - MCWorkPool,  WorkPoolProofs
SortedSet                pure operators
 `- ConcurrentSet - MCConcurrentSet, ConcurrentSetProofs
ConnLimit - MCConnLimit, ConnLimitProofs
SafeSlice - SafeSliceProofs
 `- Transactions - MCTransactions    (SafeSlice's steps, with histories)
```

**FifoQueue** is the abstract specification of `queue.Queue`: a sequence of
accepted elements, a closed flag, and for every caller its last call with its
outcome. A blocking call begins, may find nothing to do and wait, and settles;
every outcome has its precondition (full, empty, closed, timed out, cancelled).

**Ring** holds the layout of the slice: `Window` (the used slots in order),
`Grown` (what `expand` copies), `Wiped` (what `Clear` empties).

**BlockingQueue.** A step is a critical section of `q.mu`, or one event outside
it. `pc` says where a caller is: `enter` (asks for the mutex), `arm` (in the
mutex, its helper started, `cond.Wait` not yet called), `parked`, `woken`,
`select`, and `retry`, `timeout`, `cancel` after the select. `watcher[p]` is the
goroutine of the current round that may close its `waitCh`; one that outlives
its round is in `stale`, and closes a channel that is closed already. `waker[p]`
is the 50ms helper. `Call` is everything before the mutex; `StartRound` the body
of the wait loop; `FinishEnqueue`, `FinishDequeue`, `FinishClosed` the code
after it; `GiveUp*` the returns from inside it. `notFull` and `notEmpty` have no
waiter, so their signals change nothing and are left out. `len` is the length of the
slice; an unbounded queue grows up to `MaxLen` (bound). The refinement maps
`contents` to `Window(data, head, size, len)`. Nothing orders the 50ms helper's signal
(`WakerFires`) after the caller's `cond.Wait` (`Park`) but time. `PromptPark` is the
assumption that 50ms are enough for a caller that holds the mutex; without it the
helper may come first, and is then gone: the call sleeps for ever. Only `bq_waits`, which is
about the end of waiting, makes the assumption; `queue_created` does not, nor do the proofs.

**NonBlockingQueue.** A step is one atomic access, labelled by what the
goroutine does next (`e:` Enqueue, `x:` expand, `d:` Dequeue, `p:` Peek, `c:`
Clear, `s:` the statistics). Every call counts itself under `q.mu` before it
returns (`StatsLock`, `StatsUnlock`), whatever its answer, but for a cancelled
Enqueue and a Dequeue that brings no element; the counts themselves are left out. The loops of `expand` and `Clear` over the slots are one step each,
and so is loading the slice header with the access that uses it. Who calls
what is a constant. `Contents` is the refinement: an element is in the
queue from the step that counts it to the step that counts it out. `Room` and
`Drift` bound the size in unbounded queues and below zero, where several consumers
drive it.

**CreatedQueue** is a queue in the hands of GetQueue's users: CreateQueue chose its type and capacity,
and a behaviour is one of that type. A blocking queue has two users in `queue_created`; a non-blocking one
has a single one who makes every call, as more of them do not get a FIFO queue. `IsFifo` is the refinement of FifoQueue by
either, with the abstraction that each has in its own module.

**ConnPool.** A step is a use of the mutex, a channel operation, a read of
`p.idle`, or a call of the factory; the close of a raw connection goes with the
step before it. `idle` is the channel's buffer, `recvq` the receivers
parked on it, `nilled` says that Shutdown has closed the channel and set
`p.idle` to nil, `ch[p]` what `p` read of it. `Active`, `Idle`, `Total` and
`Waiters` are `p.stats`. Expiry, health and reset of a connection and the
success of the factory are free choices. `waits[p]` counts nested waits: a Get that
is given a bad connection calls `createOrWaitForConnection` anew with its
first deferred `Waiters--` still to come; `MaxNest` bounds that. Closed connections nobody
refers to are reused as new ones. `HandleClose` is `Close` on the pooled
connection.

**WorkPool.** A step is one use of a lock, of the task queue, or of the atomics
that a function adds to or reads in a row. Each task has a goroutine that
submits it (`sub`). `wk` are slots for workers; a slot that is `off` becomes a
new goroutine. Where no slot is free the step waits for one (bound): the
passing runs have two slots more than `MaxWorkers`, or one where there is
a single submitter. `joiner` is the goroutine in which Shutdown waits for `workerWg`
(workpool.go:182-185), step by step as Go's wait group lets it go: the last `Done` finds it
(`freeing`), wakes it (`waking`), and it looks at the count again. An `Add` from zero
before it is woken, or a count it finds afterwards, is the misuse that Go panics on, and
sets `crashed`; an `Add` before `Done` has found the waiter makes it wait on, and one after it has gone
is nobody's business. That Submit's own caller might recover is left out.
The task queue is a set from which a task of the highest priority is
taken, since the heap promises nothing about ties. The outcome of a task
is a free choice. `stopped` says whether the current `stopCh` is closed.
`QueuedTasks` wraps at `Word`. `MaxStarts` bounds restarts; where a
pool restarts, `MinWorkers = MaxWorkers`, so that there is one scaler at most.

**SortedSet** holds the operations of `set.SortedSet` as operators on the pair of
its map and its sorted slice. Where the code rebuilds the slice from the map, in
the map's random order, the operator gives the set of possible results. `Order` is
the comparison: two items it does not tell apart are ties.

**ConcurrentSet** puts several HashSets under Go's RWMutex, including the rule that
a waiting writer keeps new readers out. `holding` and `blocked` are
the read locks, a token for each that a goroutine takes; `writer` holds or waits for the
write lock. A binary operation on two ConcurrentSets takes a second lock while
holding the first (`first`, `second`) and reads them one after the other (`read`);
which operation it is matters to the result alone, so that `BinaryExact` looks at
all of them at once. The owner's SortedSet asks a ConcurrentSet item by item
(`mix.todo`), one lock each. `wasIn` and `wasOut` are ghosts: the items that were in
or out of the asked set at some moment of the call. Writers add, remove or retain
any set of items in one critical section, which includes Add, Remove and Clear.

**ConnLimit.** A step is a critical section of a WindowLimiter, or a result that
reaches the caller of the AdaptiveLimiter. Times are ages, capped at the window: a request
that old is outside it, whatever its age. `leg[c][l]` is the inquiry of call `c` with limiter
`l`: under AnyAllowed Wait's two goroutines, one of which may outlive the call; in the
other modes the call itself, one limiter after the other. `given`, `got` and
`overtaken` are ghosts: the places given in the last window, the limiters that gave one
to this call, and whether another call was given one while this one slept. A caller
with the same inquiries in every mode would multiply the states, so `Offers`
says which calls each may make.

**PoolClients** puts the adapters' helpers on ConnPool: its steps are ConnPool's, with
what a helper does around them. `owed[p]` is the connection that `p`'s deferred Close is
still going to close after Put (`CloseAfter`), `failed[p]` says that the function it
ran, or the request, failed. In this module `open` is the set of connections whose flag
`closed` is not set; the raw gRPC connections that are closed for good are in `gone`.
`PutReset` is Put with the adapter's ResetState, which takes the flag back except for
HTTP. `kind` is the adapter, chosen at the start. Redis needs no kind of its own: its connections and
its helper behave as SQL's without WithTransaction. A connection that a late Close is
owed to is not made anew meanwhile.

**SafeSlice** works on Go's slices: `mem` are the arrays, `ref` the header (array and
length) that the SafeSlice, each transaction and one caller hold. append writes into the
array while there is room, so `Appended`, `Without` and `Copied` yield a memory and a
header. BatchDelete is a recursion over its sorted positions (`Descending`, `Deleting`). An array nobody refers to is free, and what nobody can read in one is blanked
(`Reachable`). The caller's slice stands for a snapshot handed out by ToSlice, GetMany
and Filter as well as for one of his own that he passes to Prepend or returns from a
BatchOperation, which `handed` remembers. Commit needs the transaction's mutex and the
slice's and is one step. `Slack`, `MaxLen`, `MaxArgs` are bounds.

**Transactions** has SafeSlice's steps and two ghosts for each transaction: `base`, what the contents
were at its Begin, and `own`, what it has made of that with plain sequences and no arrays. Histories multiply the
states. So a behaviour has either one transaction and the caller on slices of three, without
histories, or several transactions with theirs on slices of two, without the caller (`kept`, `Within`: bounds).

**QueueService.** A call looks its name up under `s.mu` (`GetQueue`) and uses the queue
it found in a later step, under that queue's mutex. DeleteQueue and Close hold `s.mu`
from the first queue they close to the change of the map (`holder`), in steps, so that callers with a
queue in hand come in between. A queue nobody refers to becomes a new one. The queue itself is Ring with TryEnqueue, TryDequeue and
Close as in the code. `reply` is a ghost: how the last step answered.

Definitions marked "Mutant" in the modules are faulty variants of the
definition that follows. They are not part of the specification: each shows
that a property fails when the code has that fault (`mutants` in
`PROJECT.json`).

## 3. The runs

`tlc -config <cfg> <module>`; all sizes are distinct states.

| Run | Shows | Bounds | States |
|---|---|---|---|
| `bq_waits` | types, `RingInv`, `CrashNeedsCancel`, and that waiting by polling ends (`WaitsEnd`) | 2 callers, 2 slots, one element, one context or nil; Enqueue timed, Dequeue not; `PromptPark` | 92 000 |
| `queue_created` | queues of either type are FIFO: over a full queue, every wrap-around, growth from every position of `head`, waits given up, Clear, Close | 2 slots, or growing from 2 to 4, 2 elements; blocking: 2 callers; non-blocking: one goroutine | 548 000 |
| `nbq_spsc` | one goroutine on each end: FIFO, `SpscInv`, every call returns | 2 slots, 2 elements | 84 000 |
| `nbq_shared` | two goroutines that enqueue and dequeue: indices in range, bounded overshoot, no call is kept for ever unless others return (`NoLivelock`) | 2 slots, 1 element | 808 000 |
| `pool_shutdown` | one owner, exact counts, bounded overshoot, nothing left open | 2 callers, cleaner, 2 Shutdowns, 3 connections, `MaxIdle` = `MaxActive` = `MaxWaiters` = 1 | 2 180 000 |
| `pool_clients` | the deferred Close gives nothing back twice, who closes a connection under its user, every helper returns, Shutdown ends, and what stays open | 2 callers, 1 Shutdown, 2 connections, `MaxIdle` = `MaxActive` = 1, SQL, gRPC and HTTP; no retries, no cleaner | 435 000 |
| `wp_shutdown` | tasks kept, counters, `MaxWorkersKept`, `ShutdownDrains` | 2 tasks of two priorities, 1 to 2 workers in 4 slots, scaler, 1 Shutdown that may give up; no cancellations | 2 543 000 |
| `wp_restart` | `StopChClosedOnce`, tasks kept over a restart and when cancelled, `CrashNeedsOvertaking`, tasks finish and Shutdown returns, or that panic ends it (`WorkEnds`) | 1 task, 2 workers in 3 slots, 2 Starts, 2 Shutdowns | 453 000 |
| `sets_shared` | binary operations are exact or regular, halves of the sorted set agree, nobody is stuck | 2 readers, 2 writers, the owner; 2 sets of 2 items, operands in one order | 3 080 000 |
| `limit_calls` | the window's bound, results fit what was taken, vain waits are explained, calls end | 2 calls, a window of 2 ticks, 2 places and 1; all modes | 384 000 |
| `slice` | no array is shared, elements are moved right, changes stay with who made them (`Isolated`), and a Commit that finds the contents as at Begin leaves exactly its work (`CommitsSerial`) | 3 elements of 2 values, arrays with one place of room or none; 1 transaction and 1 caller, or 2 transactions on 2 elements | 143 000 |
| `service` | each queue stays FIFO, growing or full; nothing is accepted by a queue that is not listed | 2 callers, 2 names, 2 queues, 2 elements; capacity 1, or growing from 2 to 4 slots | 1 940 000 |

**Why the bounds are enough.** The races are between two goroutines of a kind
and a third of another kind, and each run has that many. The blocking queue's
waits interact only through the ring, so that two slots and one kind of element put every pair of operations
in competition for `bq_waits`; order needs two elements that are told apart, and growth a wrapped `head`, which `queue_created`
and `service` have up to length four (and the proofs of section 4 at any length). `nbq_spsc` has two slots so that both indices wrap at
different times. In the pool, `MaxActive` = 1 makes every second Get wait or
overshoot, and three connections let the cleaner hold one while both callers
create. In the worker pool one worker or two with two tasks give the scaler,
both submitters and the exiting worker their races. Two sets give every
order of two locks; two readers and two writers are the circle that the writers'
precedence can close. The items' order is strict, since ties multiply the
orders of the slice. Two calls, each with a leg at both limiters, overtake each other and the
secondary's single place makes them compete for it; a window of two ticks is the
shortest in which a place has an age between new and gone. For a late Close to
hit somebody, its connection has to be lent again: one connection and two
callers do that; retries, the cleaner and nested waits on healthy connections, which `pool_shutdown` has, only
multiply it. A slice of three has an element before, in and behind what is moved, with room or
without; two transactions that are open together need no more than two elements to change, remove and add, and no caller's
slice, which meets a transaction in the slice only (the proof has any number of them). Two queues are enough for one
that was deleted and is still in somebody's hands next to its successor. What a small instance cannot
show, the proofs do (section 4).

**Fairness.** `FairSpec` states in each module what is assumed.

- BlockingQueue: goroutines run and timers fire (weak). A caller that wants the
  mutex gets it although others come again and again, and a `select` with several ready
  cases does not ignore one for ever (strong): Go's mutex hands over to a waiter
  that has starved for 1ms, its select chooses uniformly at random. Without strong
  fairness the tick could be picked for ever and no timeout would end. `PromptPark` is the one assumption
  about time.
- NonBlockingQueue: goroutines in a call run (weak), and one that wants the mutex gets it although
  others come again and again (strong, by the same promise of Go's mutex). The retry loops have no such
  promise: `NoLivelock` says who may still starve.
- PoolClients (`FairClients`): goroutines in a call and Shutdown run, contexts that can end
  do, and the functions that helpers call return (weak). Nobody has to call a helper or
  Shutdown. ConnPool by itself and QueueService are checked for safety only, SafeSlice too: their calls are
  one critical section each, or in ConnPool's case end as the helpers do.
- ConcurrentSet: none. Every method is a bounded number of critical sections, so what
  can go wrong is a circle of waits, and `NobodyStuck` is a state predicate.
- ConnLimit: every leg runs, time passes, and a caller takes its result (weak).
  Nobody has to ask, cancel or close.
- WorkPool: goroutines run, Shutdown's joining goroutine too, tickers tick, and a task that runs returns
  (weak), as long as the program has not crashed. Nobody has to submit, start, cancel or shut down.

Liveness properties hold up to the crash of the program where a crash is
possible. After a crash, or when a pool has been shut down, the system may stop:
the action `Halt` says so, and the deadlock check stays on.

## 4. What is proved

### BlockingQueue

`BlockingQueueProofs`, for any set of callers, elements and contexts, any
capacity, bounded or not, any setting of the timeouts and any growth bound, from
`QueueAssumption` alone:

| Theorem | Statement |
|---|---|
| `TypeCorrect` | `Spec => []TypeOK` |
| `RingCorrect` | `Spec => []RingInv`: indices, size and slots agree |
| `RoundCorrect` | `Spec => []RoundInv`: callers, watchers, helpers and timers agree |
| `CrashExplained` | `Spec => []CrashNeedsCancel` |
| `Refinement` | `Spec => ImplementsFifo` |

The inductive invariant is `IInv == TypeOK /\ RingInv /\ RoundInv`. None of the
three is inductive alone: that `PutItem` writes a slot of the slice needs
the type and `RingInv`; that what it writes is an element, and not the zero
value a Dequeue carries, needs `RoundInv`, which in turn needs the types of `pc`
and `call`. The proof has three step lemmas (`TypeStep`, `RingStep`,
`RoundStep`), one case per action. The ring operations are treated once, as
lemmas over any slice: `PutItemOK` (in place and through growth), `TakeItemOK`,
`ClearOK`, each saying what becomes of `RingInv` and of the contents as a
sequence, from the lemmas about Ring's operators (`WindowAppend`, `WindowTail`, `WindowHead`), which stand at the
head of each module of proofs about a ring, as far as it needs them.
`FifoStep` maps every step under `IInv` to one of `FifoQueue` or to none; the
statement of each abstract outcome is where the code's order of checks
counts. No run checks `RoundInv` by itself: it is proved, and `RoundCorrect` is what
the others stand on. `CrashExplained` has a small invariant of its own on top.
That the signal comes in time is an assumption where it is needed, and no theorem.

### QueueService

`QueueServiceProofs`, for any callers, names, queues and elements, any
set of capacities and first length of a growing slice, and any bound `MaxItems`, from
`ServiceAssumption` alone:

| Theorem | Statement |
|---|---|
| `ServiceInvariant` | `Spec => []IInv` |
| `EveryQueueFifo` | `Spec => EachIsFifo` |
| `NothingStranded` | `Spec => AcceptedWhileListed` |

`IInv` joins the types (`Types`, `CallersInv`), the shape of every queue's slice (`RingsInv`)
and `MapInv`. The last is what `AcceptedWhileListed` needs: a queue in the hands of a caller is
listed or closed. That is not inductive alone, since `DeleteQueue` and `Close` take a queue off the
map some steps after they have closed it; so `MapInv` also says which queues are closed already
while one of them holds `s.mu`, and `ForgetInv` uses it when it lets go. `EachIsFifo`
follows from one lemma for each thing done to a slice (`PutOK`, `GrowOK`, `TakeOK`, `ShutOK`: what
becomes of its contents as a sequence), and from `CreateQueue` choosing a queue that nobody
refers to. `StepOK` has both action properties and the invariant for every step.

### NonBlockingQueue

`NonBlockingQueueProofs`, for any goroutines, elements and contexts and any capacity; the
first three leave out 0, which means unbounded (`Bounded`):

| Theorem | Statement |
|---|---|
| `BoundsProved` | `Bounded => (Spec => []BoundsWhenShared)`, whoever calls what |
| `SpscProved` | `Ends(e, d) => (Spec => []SpscInv)`: `e` alone enqueues, `d` alone dequeues, nobody clears |
| `SpscRefines` | `Turns(e, d) => (Spec => ImplementsFifo)`: besides, only `d` peeks, and a close comes from a goroutine that is both ends, or from nobody |
| `AloneRefines` | `Alone(a) => (Spec => ImplementsFifo)`: one goroutine makes every call, on a queue bounded or not, through growth, `Clear` and `Close` |

For `BoundsProved` it is enough to know who may be where and that a loaded length is the
length (`SeatInv`), and that the size and the producers past their last check stay together
under the capacity plus the producers (`PassedInv`). For one goroutine on each end `EndsInv` puts the
whole ring into terms of `head` and of `Used(d)`, the size less what is taken and not counted off:
where `tail` is, which slots hold an element, and what either end has loaded. The arithmetic modulo
the length is settled once (`Wrap`, `Folded`, `Unwrapped`). The refinement needs the
contents to be the window at every access (`ContentsWhole`), and what becomes of them at each
of the six steps that change the ring (`WholeEnqCas` to `WholeDeqCount`). The hypotheses of `Turns` are those
under which it is true: a peek by another goroutine may see a slot that is just being
wiped, and an Enqueue past its check of `closed` is accepted after Close. An unbounded queue grows under its
consumer (section 5) and promises neither.

`AloneRefines` has an invariant of its own. `AloneInv` says at each access what the goroutine has
loaded and where head and tail are, which is nowhere in particular between two writes of `expand` or
`Clear`: `AloneEnq`, `AloneGrow`, `AloneDeq` and `AloneRest` each have one lemma with a case for every
access. `GrownWindow` says that the longer slice holds the same sequence from slot 0, so that `x:head` to `x:data` change
nothing; `MineLooks` to `MineClear` say what each access does to the contents, and `Mine` reads the `CHOOSE`s of
`Contents` for the only goroutine there is.

### ConnPool and PoolClients

`ConnPoolProofs`, for any callers (finitely many), Shutdowns and connections and any options,
from `PoolAssumption`; the last three also for any adapter (`KindsAssumption` is not used):

| Theorem | Statement |
|---|---|
| `OwnersProved` | `Spec => []OneOwner` |
| `ClosingProved` | `Spec => []NothingLeftOpen` |
| `CountsProved` | `Spec => []CountsExact` |
| `OvershootProved` | `Callers # {} => (Spec => []OvershootBounded)` |
| `PutBackProved` | `ClientsSpec => []PutBackOnce` |
| `GivenOnlyProved` | `ClientsSpec => []ClosedUnlessGiven` |
| `UnderUserProved` | `ClientsSpec => ClosedUnderUser` |

`ConnInv` is inductive. Its first part, `CoreInv`, has the types; what a caller holds, by where it is (`CallerInv`);
who is parked (`QueueInv`); what the cleaner holds (`CleanerInv`); how far each Shutdown is (`ShutInv`); and `HomeInv`:
a connection is in one place, and by that place registered in `activeConns` or not. The others say of which places
a connection is open (`OpenInv`, `ClosedInv`), and that what is open is in one of them (`Covered`). The last is what `NothingLeftOpen`
needs: with nobody in the pool and the channel empty there is no place left. A hand-over to a parked
receiver moves a connection and a caller's place in one step of another caller, so that steps are
grouped by actor (`CallerStep`, `ShutStep`, `Cleaner`) and sends are treated once (`SendMoves`).
`CountInv`, inductive on top of it, equates each count with the size of a set:
callers that have been lent a connection, nested waits, connections in the channel or between it and
their count. For `OvershootBounded` those that have passed the check count as if they had
created (`RoomInv`). Without callers, and with as many connections as `MaxActive` from the start,
its strict bound would be wrong, hence the hypothesis.

With helpers, `OpenInv` fails: a late Close closes what lies in the channel or is in another's hands. That is why
it is kept out of `CoreInv` and the lemmas say what a step does for each part (`PlacesKept`): every step of a helper is a
step of the pool, for which these lemmas hold as they are, or one of four of its own (`ClientCases`,
`HelperStep`). `ClientInv` has `CoreInv`, `CountInv` and `ClosedInv`, and instead of `Covered` the weaker `GivenCovered`: what is
open is in one of the places or has been given away by GetConn. A Close that comes late moves and counts
nothing (`CloseKeeps`), which is `PutBackOnce`. `Closers` says who closes an open connection: a caller the one in its own hands, and
none that it goes on using; a Shutdown what lies in the channel, or by force; and `ClosedUnderUser` follows with one owner per
connection. The guards of PoolClients that bound its run (on nested waits, and on healthy connections that
a Get finds expired) are not used by these proofs.

### WorkPool

`WorkPoolProofs`, for any tasks, priorities, workers (finitely many) and Shutdowns and any limits that
`New` admits, from `WorkPoolAssumption`:

| Theorem | Statement |
|---|---|
| `TasksProved` | `Spec => []TaskKept` |
| `CountersProved` | `Spec => []CountersAgree` |
| `DrainsProved` | `Spec => []ShutdownDrains` |
| `StopClosedOnceProved` | `Spec => StopChClosedOnce` |
| `PanicProved` | `Spec => []CrashNeedsOvertaking` |
| `MaxProved` | `MaxStarts <= 1 => (Spec => []MaxWorkersKept)` |

The inductive `WorkInv` says which task a worker has by where it is (`HandsInv`), that an accepted task is
in the queue, in one worker's hands or done (`PlaceInv`), that one Shutdown at a time is under way and has not closed
`stopCh` before its turn (`StopInv`), and how far it is with the tasks it owes (`DrainInv`); from the tasks' places and
the wait for the workers follows that they are done. `CountsSum` is inductive beside these. `QueuedSettles` is not, since `%`
forgets how often the counter has wrapped: `WrapInv` says the same as a number of wraps, an integer that each
step moves. `CrashNeedsOvertaking` stands on `JoinInv`: who
may still add a worker while the wait group is waited for, which is nobody of this Shutdown's own tasks, since those
have all been queued and taken; without a scaler's target (`MinWorkers = MaxWorkers`) that leaves a Submit that was overtaken.
`MaxWorkersKept` stands on `RoomInv`: before the one Start nobody is about to add a worker, and
later all do so under `scaleLock`. The hypothesis is the code's: a submitter of the life before a restart adds beside the new
Start (section 5).

### ConcurrentSet

`ConcurrentSetProofs`, for any goroutines, sets and contents over finitely many items, from
`ConcurrentSetAssumption` (which also keeps the names of the questions, ForEach, Size and IsSubset, apart
from the items: both are members of `mix.todo`, and an item is no method):

| Theorem | Statement |
|---|---|
| `LocksProved` | `Spec => []LockInv` |
| `BinaryExactProved` | `Spec => []BinaryExact` |
| `NobodyStuckProved` | `Ordered => (Spec => []NobodyStuck)` |
| `CallsProved` | `Spec => [](LockInv /\ MixInv)` |
| `TypesProved` | `Spec => []TypeOK` |
| `MixedProved` | `Spec => []MixedRegular` |

`LockInv` ties the locks to where every goroutine is, in both directions (a lock that is held is needed, one that
is needed is held), and says that what a binary operation has read of its first set is still so (`LeftInv`), which is true because it
keeps both read locks. `NobodyStuck` follows from a minimal element: were everybody waiting, the last set,
in the order of `Pairs`, that a writer has claimed would be kept by a reader that waits for a later
claimed one (`WaitsGoOn`). `Ordered` says that the order has no endless chain of later sets; a finite
acyclic `Pairs`, as in `sets_shared`, is such.

`TypeOK` says of the owner's SortedSet, and of results half built, that the map and the slice agree and the slice
is sorted. Each operation is a lemma from sorted sets to sorted sets that also says what it does to the items:
`AddIs` stands on the place that `sort.Search` finds (`InsertPosIs`: nothing before it is greater, nothing
from it on is not), `RemoveIs` on each item's being there once (`EachOnce`, by counting), and `RebuiltIs` holds
however an unstable sort leaves ties. The algebra adds one item after another: `CollectIs` goes through this recursive
function by the least place that would say otherwise (`CollectDefined`, `CollectChain`), as in
`SafeSliceProofs`.

`MixedRegular` speaks of an answer, when all has been asked. `MixInv` says what the answers so far mean, one part for each
kind of operation (`UnionPart` to `SupersetPart`): an item that has been asked for is in the half-built result only if it was in the other set at
some moment, and left out only if it was out at some (for Difference the other way round). Questions not asked yet
(`Pending`) are excepted, and a writer between two questions only adds to what has been seen (`MoreSeen`).
`AnyAnswered` goes through the four kinds of answer. For Union nothing is asked item by item, one ForEach copies the other
set under its lock; SymmetricDifference does both, with writers between, and is
right for each item by the moment of the one question or of the other.

### ConnLimit

`ConnLimitProofs`, for any calls, offers, window and limits, from `ConnLimitAssumption` alone:

| Theorem | Statement |
|---|---|
| `LimitsProved` | `Spec => []LimitInv` |
| `WindowProved` | `Spec => []WindowBound` |
| `OutcomeProved` | `Spec => []OutcomeMatches` |
| `RefusedProved` | `Spec => []RefusedWhenOvertaken` |

`WindowInv` says that the requests' ages are sorted, that the ones which `cleanupOldRequests` would keep are exactly the places given in the
last window, and that they are no more than the limit. What the ages' sequences do in a cleanup, a tick and a new request
is settled in lemmas about `Cut`, the place where the window begins. `CallInv` keeps a ledger per call and mode: which
legs are out, what they have brought, what has been heard (`Waiting`, `Returned`). `SleeperInv` says
that a leg which sleeps and has not been overtaken will find room when it wakes, since by then the request
it waits for has left the window (`RoomOlder`, `RoomAfterWait`). An attempt at this proof showed that two arms of the `CASE`
in `Goes` overlapped, where TLC takes the first and the language leaves the choice open; the first arm has become an `IF` of its own.

### SafeSlice

`SafeSliceProofs`, for any values, any transactions (finitely many) and any bounds `MaxLen`, `MaxArgs`
and `Slack`, from `SafeSliceAssumption` alone:

| Theorem | Statement |
|---|---|
| `Inductive` | `Spec => []SliceInv` |
| `PrivateProved` | `Spec => []Private` |
| `IsolatedProved` | `Spec => Isolated` |
| `EffectsProved` | `Spec => []EffectsExact` |

`Isolated` says that a step changes what one owner holds, at most, but for the slice handed over and for
Commit, which changes the contents and ends its own transaction and does nothing to any other's copy.
`Private` alone is not inductive: an append in place is harmless only while every header fits its array and
shows values there. `SliceInv` says so (`Fits`) beside the types and `Apart`, that only the caller's slice may
have the array of the SafeSlice, and only when it was handed over. Each operation yields a memory and a
header for one owner; `Good` says that the header fits and that all others read in the new memory what they read before, but
for the slice handed over. `AllocatedGood`, `AppendedGood` and `WithoutGood` show it of Go's operations on
slices, whatever room they find, `HeaderGood` and `HoldKeeps` that a Good result keeps `SliceInv` and changes
nobody else's contents, and with this each of the 23 operations is a few lines. That `Private` is preserved
needs a free array for each allocation (`FreshFree`): there are as many arrays as owners, by counting, which is what the
transactions have to be finite for. In the program the allocator sees to it.

`EffectsExact` is about a recursion, BatchDelete's, over positions that a `CHOOSE` has sorted. Neither can be
unfolded by the provers, and the library's induction rules take an operator. The proofs instead take
the smallest number that would refute the claim (`LeastOne`, from the well-foundedness of the naturals): `AfterDefined`
says that the recursion has its values, `DeletedChain` that an invariant of one removal holds after the last,
`SortedExists` that positions can be sorted, with the least of them put last. `ProgressStep`
then carries through the removals what is left after k of them: a sequence without a set of positions that holds those
wanted so far and no more than k, while what lies before the last of them is where it was. That the positions come in
descending order is what makes the next removal meet the element meant.

### What is not

Only model-checked are

- liveness: `WaitsEnd`, `CallsReturn`, `NoLivelock`, `ClientsReturn`, `WorkEnds`, `CallsEnd` (fairness and
  `ENABLED` are out of the prover's reach);
- `CommitsSerial`, about Transactions' ghosts, and `IsFifo`, whose content `Refinement` and `AloneRefines` state
  type by type.

Every other property of every run is stated by a theorem; where that theorem has a hypothesis (`Ends`, `Turns`,
`Alone`, `Bounded`, `Ordered`, `MaxStarts <= 1`, `Callers # {}`), the run that checks the property meets it.

## 5. Where the code departs from its word

The models contain these departures, each with the property that bounds it where there
is one:

- Shutdown, "graceful" by interface.go:41, closes the idle channel (pool.go:501) under Gets
  that wait on it (250, then `nil.Close()` at 163) and Puts about to send (447): they panic
  (`ParkedPanics`, `PutPanics`), as may the cleaner (628) and a second Shutdown (501);
- the helpers' `defer conn.Close()` (redis.go:221, sql.go:354, grpc.go:324) is meant to put the
  connection back (redis.go:220, pool.go:37). It runs after Put, passes Put the raw
  connection, which Put does not know and closes: the idle connection is closed and found
  dead by the next Get, or it is closed under the caller it has been lent to by then.
  `ClosedUnderUser` says that nobody else closes it, `PutBackOnce` that it upsets nothing else;
- SQLPoolHelper.WithTransaction (sql.go:375) asks the pooled wrapper for a `*SQLConnection`,
  which it never is: it always fails and leaks the count. GRPCClientPool.GetConn (grpc.go:303) drops the
  connection and Put (336) does nothing, so that each GetConn uses up a place for ever
  (`Leaked`; `ClientsReturn` holds without Shutdown's return then);
- GRPCConnection.ResetState (grpc.go:84) takes back the flag of a connection that is really
  closed, HTTPConnection's does not take it back at all;
- two transactions that were open together do not merge: the second Commit
  (slice/transaction.go:121) replaces what the first has brought, although
  TestConcurrentTransactions (slice_test.go:124-164) expects every committed append to be there and
  passes only while no two of them overlap: Begin, Begin, Append, Commit, Commit takes the append
  away again. What holds is that nothing passes between transactions before Commit (`Isolated`), and that a
  Commit loses nothing if the contents are as they were at its Begin (`CommitsSerial`);
- `Prepend(xs...)` (slice.go:56) and a BatchOperation keep the array that the caller passed or
  returned, and his later writes show up in the SafeSlice without its lock (`handed` in `Private`);
- BatchDelete removes, for a position given twice, the next element as well (slice.go:188-191,
  `EffectsExact`);
- the `sync.Once` around the watcher's `close(waitCh)` (blocking_queue.go:122-132)
  does not guard the caller's own close of the same channel (172, 183, 204, 216): a
  cancellation can panic in a goroutine nobody can recover. `CrashNeedsCancel` says
  it takes a cancellation;
- a task queued after Shutdown has seen an empty queue (workpool.go:163, 215-242)
  is accepted and never executed. `ShutdownDrains` is what does hold: tasks whose
  Submit had returned before are done;
- a call with a timeout and a nil context panics (blocking_queue.go:157, 343);
  part of `CrashNeedsCancel`;
- a helper's signal that comes before `cond.Wait` is lost (197, 384), and with it the
  promise to wake regularly (193, 197): a call that is kept from `cond.Wait` for
  50ms sleeps for ever, past elements, room, Close and its context. With `PromptPark` false the model
  does so too: Call, StartRound, WakerFires, Park;
- the NonBlockingQueue, none of whose operations block by its comments (nonblocking_queue.go:10, 68),
  takes a mutex in every Enqueue that is not cancelled and every successful Dequeue for its statistics (369-387), and in
  growth, Clear and Peek: a goroutine that stops in there stops all others. `CallsReturn` and `NoLivelock` are what holds;
- a Submit or the scaler, overtaken by Shutdown, adds the first of the workers again (workpool.go:376)
  while Shutdown's goroutine is being let go from `workerWg.Wait` (183): a misuse that panics
  (`crashed`). `CrashNeedsOvertaking` says that without a scaler it takes such a Submit;
- two consumers of a NonBlockingQueue can both dequeue the last element, one of
  them the zero value (nonblocking_queue.go:193, 200); two producers exceed the
  capacity (109, 120), by no more than `OvershootBounded` says; a Dequeue may report a
  closed queue that is not empty (179); growth under a concurrent consumer delivers
  elements twice (362-366);
- Gets exceed `MaxActive` (pool.go:221, 348) within `OvershootBounded`, and
  `MaxWaiters` (227, 233); Shutdown may return early, deciding by an `Active`
  read before `closed` was set (483, 490), yet leaves nothing open
  (`NothingLeftOpen`); `Close` on a pooled connection closes it and leaks its
  count (39, 367): `CountsExact` counts those in `Leaked`; a Get that waits without
  a timeout is not told of room made by a broken connection (387);
- an exiting worker takes itself off `activeCount` while another worker runs
  (workpool.go:396): only the sum is kept (`CountsSum`); a task cancelled in
  the queue is executed all the same (work.go:210); a second Shutdown returns at
  once (workpool.go:146); the scaler never takes a worker away (360); `QueuedTasks`
  wraps below zero for a moment (`QueuedSettles`);
- a restarted pool can be without workers: a Submit overtaken by Shutdown adds a
  worker that is bound to leave (248-252), Start counts it (354) and adds one too
  few. Tasks then wait for the next Submit and Shutdown for its context, so that
  `WorkEnds` is stated for the first life of a pool; and
  with both adding at once `MaxWorkers` can be exceeded by one;
- `a.Union(b)` and `b.Union(a)` with a writer on each, or `a.Union(a)` with one, wait
  for each other for ever: the second `RLock` (concurrentset.go:104) queues behind
  a waiting writer, though the comment above it (102) means to avoid deadlock.
  `NobodyStuck` is what holds with the operands in one order (`Pairs`);
- when both limiters refuse, AnyAllowed returns the error it heard first
  (limiter.go:334), not the primary's as the comment says (333); AllRequired keeps
  the primary's place when the secondary refuses (`OutcomeMatches`);
- SortedSet's AddAll, RemoveAll and RetainAll rebuild the slice from the map, so that ties
  lose the order of their insertion which `defaultLess` promises
  (sortedset.go:63-65), and RemoveAll counts an item given twice as two removed (161).
  `TypeOK` of ConcurrentSet only asks that the slice is sorted.

## 6. What is not modelled

- Events, listeners, logging and counters nobody reads to decide (`Stats`,
  `Metrics` but for `QueuedTasks`): reporting only. Listeners run under the queue's lock
  and must not call back.
- `Size`, `IsEmpty`, `IsFull`, `IsClosed`, `Stats()`: they change nothing.
- A task's context and deadline in `workpool`: advice to the task's own code.
- `AdaptiveLimiter.Reserve` and the limiters' statistics (nothing decides by them),
  `TokenBucketLimiter` (a wrapper of `golang.org/x/time/rate`).
- The numbers that the sets' operations return, their copies and iterators.
- Callers that Put a connection twice or use it after Put.
- Preemption between two adjacent atomic reads or adds that one function does in a row, where
  nothing is decided in between (`WorkPool`), and between the load of the slice header and
  its use (`NonBlockingQueue`).
- JSON encoding, the command line, and the adapters' factories, configuration and I/O; SQL
  transactions, which no helper reaches through a pool.
- Queues of the non-blocking type in the service: several callers of one do not get a FIFO
  queue in the first place, and an EnqueueItem past its check on `closed` (nonblocking_queue.go:88) may be
  accepted after DeleteQueue. What a user of GetQueue does to the queue in his hands; ListQueues, QueueStats.
- SafeSlice's operations that only look, and callbacks that call the slice back under its lock
  (they would wait for themselves).
- More than one deadline or cancellation per wait in PoolClients, and retries there: ConnPool's run has them.
- The binary heap behind the worker pool's queue: `WorkPool` takes what it promises, a task of the highest priority.

## 7. Plan

Done, in this order: Ring, FifoQueue, BlockingQueue and its proofs;
NonBlockingQueue; ConnPool; WorkPool; SortedSet and ConcurrentSet; ConnLimit; SafeSlice;
PoolClients; QueueService and its proofs; the proofs of ConnPool, WorkPool, NonBlockingQueue,
ConcurrentSet, ConnLimit, PoolClients and SafeSlice; the NonBlockingQueue's statistics, the worker pool's wait group, CreatedQueue and Transactions.

Next: `TaskHeap`, `workpool/queue.go` with `container/heap` as a function on arrays
(Enqueue, Dequeue, Remove, Clear), shown to implement the set `WorkPool` uses.
