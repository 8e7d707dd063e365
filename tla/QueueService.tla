----------------------------- MODULE QueueService -----------------------------
(***************************************************************************)
(* queueservice.InMemoryService: queues by name. The map is guarded by     *)
(* s.mu, and each queue by a mutex of its own. A call looks a name up and  *)
(* lets s.mu go before it uses the queue it has found, which DeleteQueue   *)
(* or Close may have closed and taken off the map by then, and CreateQueue *)
(* may have put another in its place.                                      *)
(*                                                                         *)
(* A step is one critical section of a queue, or of s.mu where no queue is *)
(* closed. The queues are blocking ones, used by what never waits. Events, *)
(* Signals and statistics are left out, as are ListQueues and QueueStats,  *)
(* which change nothing, and what GetQueue's own callers may do.           *)
(***************************************************************************)
EXTENDS Ring, Sequences

CONSTANTS Callers,      \* goroutines that use queues
          Names,        \* names of queues
          Queues,       \* queues; one that nobody refers to is made anew
          None,         \* no queue
          Items,        \* elements
          Capacities,   \* QueueOptions.Capacity, 0 for an unbounded queue
          DefaultLen,   \* first length of an unbounded queue's slice
          MaxItems      \* bound: so many elements in an unbounded queue

ASSUME ServiceAssumption ==
    /\ None \notin Queues /\ Zero \notin Items
    /\ Capacities \subseteq Nat /\ DefaultLen \in Nat \ {0} /\ MaxItems \in Nat

VARIABLES
    queues,     \* s.queues: the queue of each name
    q,          \* the queues themselves
    holder,     \* what holds s.mu: nothing, or a DeleteQueue or a Close with queues to close
    caller,     \* where each caller is: the operation, its element, the queue it found
    reply       \* how the last step answered, on which queue

vars == <<queues, q, holder, caller, reply>>

NewQueue(c) ==
    LET n == IF c > 0 THEN c ELSE DefaultLen
    IN  [data |-> EmptyRing(n), len |-> n, head |-> 0, tail |-> 0, size |-> 0,
         cap |-> c, closed |-> FALSE]

(* The queue r with these values of its slice, head, tail and size.        *)
With(r, d, l, h, t, s) ==
    [data |-> d, len |-> l, head |-> h, tail |-> t, size |-> s,
     cap |-> r.cap, closed |-> r.closed]

Shut(r) == [r EXCEPT !.closed = TRUE]

Idle   == [op |-> "none", item |-> Zero, on |-> None]
Silent == [on |-> None, out |-> "none", item |-> Zero]
Free   == [op |-> "none", names |-> {}]

Init ==
    /\ queues = [n \in Names |-> None]
    /\ \E c \in Capacities : q = [o \in Queues |-> NewQueue(c)]
    /\ holder = Free
    /\ caller = [p \in Callers |-> Idle]
    /\ reply = Silent

Listed     == {queues[n] : n \in Names} \ {None}
Referenced == Listed \cup {caller[p].on : p \in Callers}
Unlocked   == holder = Free

Answer(o, out, x) == reply' = [on |-> o, out |-> out, item |-> x]

-----------------------------------------------------------------------------
(* The map *)
CreateQueue(n) ==
    /\ Unlocked
    /\ \/ /\ queues[n] # None
          /\ Answer(None, "exists", Zero) /\ UNCHANGED <<queues, q>>
       \/ /\ queues[n] = None
          /\ \E o \in Queues \ Referenced, c \in Capacities :
                /\ q' = [q EXCEPT ![o] = NewQueue(c)]
                /\ queues' = [queues EXCEPT ![n] = o]
                /\ Answer(o, "created", Zero)
    /\ UNCHANGED <<holder, caller>>

Operations == [op : {"enqueue"}, item : Items] \cup [op : {"dequeue"}, item : {Zero}]

(* GetQueue, for an operation on the queue that is found.                  *)
GetQueue(p, f, n) ==
    /\ Unlocked /\ caller[p] = Idle
    /\ \/ queues[n] = None /\ Answer(None, "absent", Zero) /\ UNCHANGED caller
       \/ /\ queues[n] # None
          /\ caller' = [caller EXCEPT ![p] = [op |-> f.op, item |-> f.item, on |-> queues[n]]]
          /\ reply' = Silent
    /\ UNCHANGED <<queues, q, holder>>

(* Mutant: the queue is taken off the map and stays open. *)
DeleteForgets(n) ==
    /\ Unlocked /\ queues[n] # None
    /\ queues' = [queues EXCEPT ![n] = None]
    /\ Answer(queues[n], "closed", Zero)
    /\ UNCHANGED <<q, holder, caller>>

DeleteQueue(n) ==
    /\ Unlocked
    /\ \/ queues[n] = None /\ Answer(None, "absent", Zero) /\ UNCHANGED <<q, holder>>
       \/ /\ queues[n] # None
          /\ q' = [q EXCEPT ![queues[n]] = Shut(q[queues[n]])]
          /\ holder' = [op |-> "delete", names |-> {n}]
          /\ Answer(queues[n], "closed", Zero)
    /\ UNCHANGED <<queues, caller>>

Deleted ==
    /\ holder.op = "delete"
    /\ queues' = [n \in Names |-> IF n \in holder.names THEN None ELSE queues[n]]
    /\ holder' = Free /\ reply' = Silent
    /\ UNCHANGED <<q, caller>>

(* Close: the queues are closed one after another, then all forgotten.     *)
Close ==
    /\ Unlocked
    /\ holder' = [op |-> "close", names |-> {n \in Names : queues[n] # None}]
    /\ reply' = Silent
    /\ UNCHANGED <<queues, q, caller>>

CloseOne(n) ==
    /\ holder.op = "close" /\ n \in holder.names
    /\ q' = [q EXCEPT ![queues[n]] = Shut(q[queues[n]])]
    /\ holder' = [holder EXCEPT !.names = @ \ {n}]
    /\ Answer(queues[n], "closed", Zero)
    /\ UNCHANGED <<queues, caller>>

Closed ==
    /\ holder.op = "close" /\ holder.names = {}
    /\ queues' = [n \in Names |-> None]
    /\ holder' = Free /\ reply' = Silent
    /\ UNCHANGED <<q, caller>>

-----------------------------------------------------------------------------
(* A queue that was found, under its own mutex                             *)
Full(r) == r.size >= IF r.cap > 0 THEN r.cap ELSE r.len

Grow(r) ==
    IF Full(r) /\ r.cap = 0
    THEN With(r, Grown(r.data, r.head, r.size, r.len), 2 * r.len, 0, r.size, r.size)
    ELSE r

Put(r, x) ==
    With(r, [r.data EXCEPT ![r.tail] = x], r.len, r.head, (r.tail + 1) % r.len, r.size + 1)

Take(r) ==
    With(r, [r.data EXCEPT ![r.head] = Zero], r.len, (r.head + 1) % r.len, r.tail, r.size - 1)

Use(p, op) ==
    /\ caller[p].op = op
    /\ caller' = [caller EXCEPT ![p] = Idle]
    /\ UNCHANGED <<queues, holder>>

TryEnqueue(p) ==
    LET o == caller[p].on  r == q[o]  x == caller[p].item
    IN  /\ Use(p, "enqueue")
        /\ \/ r.closed /\ Answer(o, "refused", x) /\ UNCHANGED q
           \/ ~r.closed /\ r.cap > 0 /\ Full(r) /\ Answer(o, "full", x) /\ UNCHANGED q
           \/ /\ ~r.closed /\ IF r.cap > 0 THEN ~Full(r) ELSE r.size < MaxItems
              /\ q' = [q EXCEPT ![o] = Put(Grow(r), x)]
              /\ Answer(o, "accepted", x)

TryDequeue(p) ==
    LET o == caller[p].on  r == q[o]
    IN  /\ Use(p, "dequeue")
        /\ \/ r.size = 0 /\ Answer(o, "empty", Zero) /\ UNCHANGED q
           \/ /\ r.size > 0
              /\ q' = [q EXCEPT ![o] = Take(r)]
              /\ Answer(o, "delivered", r.data[r.head])

Next ==
    \/ \E n \in Names :
          \/ CreateQueue(n) \/ DeleteQueue(n) \/ CloseOne(n)
          \/ \E p \in Callers, f \in Operations : GetQueue(p, f, n)
    \/ Deleted \/ Close \/ Closed
    \/ \E p \in Callers : TryEnqueue(p) \/ TryDequeue(p)

Spec == Init /\ [][Next]_vars

-----------------------------------------------------------------------------
Contents(o) == Window(q[o].data, q[o].head, q[o].size, q[o].len)

(* What a step that answers on o, or does not, does to what o holds.       *)
FifoStep(o) ==
    LET out == IF reply'.on = o THEN reply'.out ELSE "none"
    IN  /\ out = "accepted"  => Contents(o)' = Append(Contents(o), reply'.item)
        /\ out = "delivered" => Contents(o) = <<reply'.item>> \o Contents(o)'
        /\ out = "empty"     => Contents(o) = <<>>
        /\ out \notin {"accepted", "delivered"} => Contents(o)' = Contents(o)

(* No element is lost, doubled or overtaken, in whatever queue it is,      *)
(* growing, wrapped around, or deleted while it is used: what an operation *)
(* answers is what it does to the queue it found, to that one alone, and   *)
(* the map's own operations leave the contents as they are.                *)
EachIsFifo == [][\A o \in Referenced \ {None} : FifoStep(o)]_vars

(* What is accepted can be found again: a call that looked its queue up    *)
(* before a DeleteQueue or a Close, and comes to it after, does not leave  *)
(* an element in a queue that is no longer listed.                         *)
AcceptedWhileListed ==
    [][\A o \in Queues \ Listed : reply'.on = o => reply'.out # "accepted"]_vars
=============================================================================
