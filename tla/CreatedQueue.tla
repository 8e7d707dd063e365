---------------------------- MODULE CreatedQueue ----------------------------
(***************************************************************************)
(* A queue as InMemoryService.CreateQueue makes it: QueueOptions choose    *)
(* the implementation and the capacity, and whoever gets it from GetQueue  *)
(* uses it through the interface queue.Queue, not knowing which it is.     *)
(*                                                                         *)
(* A queue is of one type for good, so that the two share the variables    *)
(* that they have in common. A blocking queue has any number of users; a   *)
(* non-blocking one a single one, Owner, which is what it takes to make it *)
(* a FIFO queue whatever is called.                                        *)
(***************************************************************************)
EXTENDS Integers

CONSTANTS Users, Owner,    \* goroutines
          Pollers,         \* users that also call what never waits
          Items, Zero,
          Capacities,      \* QueueOptions.Capacity, 0 for an unbounded queue
          DefaultLen,      \* first length of an unbounded queue's slice
          MaxLen,          \* bound on it, see BlockingQueue and NonBlockingQueue
          Ctx, NoCtx,      \* contexts, and the nil context
          EnqueueTimed,    \* QueueOptions.EnqueueTimeout > 0
          DequeueTimed     \* QueueOptions.DequeueTimeout > 0

VARIABLES
    options,               \* QueueOptions
    data, len, head, tail, size, closed, pc, call, done,   \* either type's
    watcher, waker, expired, stale, crashed,               \* a blocking queue's
    loc                                                    \* a non-blocking queue's

Blocking(c) ==
    INSTANCE BlockingQueue WITH Capacity <- c, Procs <- Users, PromptPark <- FALSE,
                                EnqCtx <- Ctx \cup {NoCtx}, DeqCtx <- Ctx

NonBlocking(c) ==
    INSTANCE NonBlockingQueue WITH Capacity <- c, Enqueuers <- {Owner}, Dequeuers <- {Owner},
                                   Peekers <- {Owner}, Closers <- {Owner}, Clearers <- {Owner}

waits == <<watcher, waker, expired, stale, crashed>>
vars  == <<options, data, len, head, tail, size, closed, pc, call, done, waits, loc>>

Made(type, c) == options = [type |-> type, capacity |-> c]

Init ==
    \E c \in Capacities :
       \/ Made("blocking", c) /\ Blocking(c)!Init /\ loc = <<>>
       \/ /\ Made("nonblocking", c) /\ NonBlocking(c)!Init
          /\ watcher = <<>> /\ waker = <<>> /\ expired = <<>> /\ stale = {} /\ crashed = FALSE

Next ==
    \E c \in Capacities :
       \/ Made("blocking", c) /\ Blocking(c)!Next /\ UNCHANGED <<options, loc>>
       \/ Made("nonblocking", c) /\ NonBlocking(c)!Next /\ UNCHANGED <<options, waits>>

Spec == Init /\ [][Next]_vars

-----------------------------------------------------------------------------
(* Whichever type it is of, users see the FIFO queue of the interface: the *)
(* order of what was accepted, over waits given up, a full slice, wrap-    *)
(* around and growth, and every refusal with its reason.                   *)
IsFifo ==
    /\ \A c \in Capacities :
          /\ Made("blocking", c) => Blocking(c)!Fifo!Init
          /\ Made("nonblocking", c) => NonBlocking(c)!Fifo!Init
    /\ [][\A c \in Capacities :
             /\ Made("blocking", c) => [Blocking(c)!Fifo!Next]_(Blocking(c)!Fifo!vars)
             /\ Made("nonblocking", c) => [NonBlocking(c)!Fifo!Next]_(NonBlocking(c)!Fifo!vars)]_vars
=============================================================================
