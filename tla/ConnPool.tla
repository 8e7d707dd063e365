------------------------------ MODULE ConnPool ------------------------------
(***************************************************************************)
(* pool.ConnectionPool. Idle connections wait in a buffered channel; the   *)
(* statistics, guarded by mu, decide whether Get may create one. The       *)
(* channel and the statistics are never changed in one step, and the field *)
(* p.idle is read without the lock.                                        *)
(*                                                                         *)
(* A step is one use of the mutex, one channel operation, one read of      *)
(* p.idle or one call of the factory; closing a raw connection goes with   *)
(* the step before it. What a connection is asked (has it expired, is it   *)
(* alive, does it reset) is answered either way. Of the statistics those   *)
(* the pool itself reads or promises exactly are kept: Active, Idle,       *)
(* Total, Waiters. Events and the other counters are left out, as is       *)
(* Stats(), which changes nothing.                                         *)
(***************************************************************************)
EXTENDS Integers, Sequences, FiniteSets

CONSTANTS Callers,        \* goroutines that Get and Put, one connection at a time
          Admins,         \* goroutines that call Shutdown, once each
          Conns,          \* connections; a closed one nobody refers to is made anew
          None,           \* no connection
          MaxIdle, MaxActive, MaxWaiters, MinEvictableIdle, InitialSize,
          MaxRetries,     \* the options of the same names
          Endings,        \* how the context of a wait may end: "deadline", "cancel"
          MaxNest,        \* bound: a Get finds so many connections bad, waiting in between
          Cleans,         \* IdleCheckFrequency > 0
          HandleCloses    \* do callers close connections instead of putting them back?

ASSUME PoolAssumption ==
    /\ {MaxIdle, MaxActive, MaxWaiters, MinEvictableIdle, InitialSize, MaxRetries,
      MaxNest} \subseteq Nat
    /\ None \notin Conns /\ IsFiniteSet(Callers)
    /\ Endings \subseteq {"deadline", "cancel"}
    /\ Cleans \in BOOLEAN /\ HandleCloses \in BOOLEAN

VARIABLES
    idle,           \* the buffer of the channel
    recvq,          \* callers parked in a receive from it, first come first served
    closed,         \* p.closed
    nilled,         \* p.idle is nil, and the channel it was is closed
    Active, Idle, Total, Waiters,
    activeConns,    \* connections registered as checked out
    open,           \* raw connections that are open
    pc,             \* where each caller is
    conn,           \* the connection it has in hand
    ch,             \* was p.idle nil when it last read it? (TRUE if not)
    waits,          \* how many of its waits are still to be counted down
    tries,          \* retries it has left
    sh,             \* each Shutdown: where it is, and the Active it read
    cl,             \* the cleaner: where it is, what it has in hand
    crashed         \* a goroutine panicked: the program is gone

stats   == <<Active, Idle, Total, Waiters>>
channel == <<idle, recvq, nilled>>
local   == <<pc, conn, ch, waits, tries>>
vars    == <<channel, closed, stats, activeConns, open, local, sh, cl, crashed>>

InUse == {idle[i] : i \in DOMAIN idle} \cup {conn[p] : p \in Callers}
            \cup activeConns \cup open \cup {cl.conn} \cup cl.bin

Fresh == Conns \ InUse

(* After NewPool: the initial connections that could be created and kept.  *)
Init ==
    /\ \E k \in 0..InitialSize :
          /\ k <= MaxIdle
          /\ idle \in [1..k -> Conns]
          /\ \A i, j \in 1..k : idle[i] = idle[j] => i = j
          /\ Idle = k /\ Total = k
    /\ open = {idle[i] : i \in DOMAIN idle}
    /\ recvq = <<>> /\ closed = FALSE /\ nilled = FALSE
    /\ Active = 0 /\ Waiters = 0 /\ activeConns = {}
    /\ pc = [p \in Callers |-> "idle"] /\ conn = [p \in Callers |-> None]
    /\ ch = [p \in Callers |-> FALSE] /\ waits = [p \in Callers |-> 0]
    /\ tries = [p \in Callers |-> 0]
    /\ sh = [a \in Admins |-> [at |-> "idle", active |-> 0]]
    /\ cl = [at |-> IF Cleans THEN "sleep" ELSE "stopped", left |-> 0,
             conn |-> None, ch |-> FALSE, bin |-> {}]
    /\ crashed = FALSE

At(p, l)   == pc[p] = l
Goto(p, l) == pc' = [pc EXCEPT ![p] = l]
Hold(p, c) == conn' = [conn EXCEPT ![p] = c]

(* Get returns c, or an error, after the deferred Waiters--.               *)
Return(p, c) ==
    /\ Goto(p, IF waits[p] > 0 THEN "leave" ELSE IF c = None THEN "idle" ELSE "using")
    /\ Hold(p, c)

Crash == crashed' = TRUE /\ UNCHANGED <<channel, closed, stats, activeConns, open, local, sh, cl>>

-----------------------------------------------------------------------------
(* Go's channel: a send hands its element to the first parked receiver, or *)
(* else to the buffer.                                                     *)
CanSend == recvq # <<>> \/ Len(idle) < MaxIdle

(* The send of c, after which the sending caller (if one) is at l.         *)
Send(c, sender, l) ==
    LET left == [p \in Callers |-> IF p \in sender THEN l ELSE pc[p]]
        kept == [p \in Callers |-> IF p \in sender THEN None ELSE conn[p]]
    IN  \/ /\ recvq = <<>> /\ Len(idle) < MaxIdle
           /\ idle' = Append(idle, c) /\ UNCHANGED recvq
           /\ pc' = left /\ conn' = kept
        \/ /\ recvq # <<>>
           /\ recvq' = Tail(recvq) /\ UNCHANGED idle
           /\ pc' = [left EXCEPT ![Head(recvq)] = "check"]
           /\ conn' = [kept EXCEPT ![Head(recvq)] = c]

-----------------------------------------------------------------------------
(* What it read of p.idle, and its retries, no longer matter to p. *)
Forget(p) == ch' = [ch EXCEPT ![p] = FALSE] /\ tries' = [tries EXCEPT ![p] = 0]

(* Get. A closed pool answers with an error. *)
Get(p) ==
    /\ At(p, "idle") /\ ~closed
    /\ Goto(p, "get:load")
    /\ UNCHANGED <<channel, closed, stats, activeConns, open, conn, ch, waits, tries, sh, cl, crashed>>

(* p.idle is read, then received from: without waiting at "get:recv" and   *)
(* "retry:recv", with a context at "wait:recv".                            *)
Loads(p, l, next) ==
    /\ At(p, l)
    /\ ch' = [ch EXCEPT ![p] = ~nilled]
    /\ Goto(p, next)
    /\ UNCHANGED <<channel, closed, stats, activeConns, open, conn, waits, tries, sh, cl, crashed>>

Load(p) == \/ Loads(p, "get:load", "get:recv")
           \/ Loads(p, "wait:load", "wait:recv")
           \/ Loads(p, "retry:load", "retry:recv")
           \/ Loads(p, "put:load", "put:send")

Receiving(p) == pc[p] \in {"get:recv", "wait:recv", "retry:recv"}

Receive(p) ==
    /\ Receiving(p) /\ ch[p] /\ idle # <<>>
    /\ Hold(p, Head(idle)) /\ idle' = Tail(idle)
    /\ Goto(p, "check") /\ Forget(p)
    /\ UNCHANGED <<recvq, nilled, closed, stats, activeConns, open, waits, sh, cl, crashed>>

(* The closed channel yields a nil connection, and nil.Close() panics. *)
ReceiveNil(p) ==
    /\ Receiving(p) /\ ch[p] /\ nilled /\ idle = <<>>
    /\ Crash

NothingToReceive(p) == ~ch[p] \/ (idle = <<>> /\ ~nilled)

ReceiveDefault(p) ==
    /\ NothingToReceive(p)
    /\ \/ At(p, "get:recv") /\ Goto(p, "decide") /\ Forget(p)
       \/ /\ At(p, "retry:recv") /\ Goto(p, "retry")
          /\ tries' = [tries EXCEPT ![p] = @ - 1] /\ UNCHANGED ch
    /\ UNCHANGED <<channel, closed, stats, activeConns, open, conn, waits, sh, cl, crashed>>

(* handleIdleConnection *)
CheckBad(p) ==
    /\ At(p, "check") /\ waits[p] <= MaxNest
    /\ open' = open \ {conn[p]}
    /\ Goto(p, "discard")
    /\ UNCHANGED <<channel, closed, stats, activeConns, conn, ch, waits, tries, sh, cl, crashed>>

Discard(p) ==
    /\ At(p, "discard")
    /\ Idle' = Idle - 1 /\ Total' = Total - 1
    /\ Hold(p, None) /\ Goto(p, "decide")
    /\ UNCHANGED <<channel, closed, Active, Waiters, activeConns, open, ch, waits, tries, sh, cl, crashed>>

CheckGood(p) ==
    /\ At(p, "check")
    /\ activeConns' = activeConns \cup {conn[p]}
    /\ Goto(p, "lend")
    /\ UNCHANGED <<channel, closed, stats, open, conn, ch, waits, tries, sh, cl, crashed>>

Lend(p) ==
    /\ At(p, "lend")
    /\ Idle' = Idle - 1 /\ Active' = Active + 1
    /\ Return(p, conn[p])
    /\ UNCHANGED <<channel, closed, Total, Waiters, activeConns, open, ch, waits, tries, sh, cl, crashed>>

(* Mutant: idle connections do not count. *)
HasRoomActive == MaxActive = 0 \/ Active < MaxActive

(* createOrWaitForConnection *)
HasRoom == MaxActive = 0 \/ Active + Idle < MaxActive

Decide(p) ==
    /\ At(p, "decide")
    /\ \/ HasRoom /\ Goto(p, "create") /\ UNCHANGED conn
       \/ ~HasRoom /\ MaxWaiters > 0 /\ Waiters >= MaxWaiters /\ Return(p, None)
       \/ ~HasRoom /\ (MaxWaiters = 0 \/ Waiters < MaxWaiters) /\ Goto(p, "enter") /\ UNCHANGED conn
    /\ UNCHANGED <<channel, closed, stats, activeConns, open, ch, waits, tries, sh, cl, crashed>>

Enter(p) ==
    /\ At(p, "enter")
    /\ Waiters' = Waiters + 1 /\ waits' = [waits EXCEPT ![p] = @ + 1]
    /\ Goto(p, "wait:load")
    /\ UNCHANGED <<channel, closed, Active, Idle, Total, activeConns, open, conn, ch, tries, sh, cl, crashed>>

(* Nothing there: the select sleeps, on the context alone if p.idle was nil. *)
Park(p) ==
    /\ At(p, "wait:recv") /\ NothingToReceive(p)
    /\ recvq' = IF ch[p] THEN Append(recvq, p) ELSE recvq
    /\ Goto(p, "parked") /\ Forget(p)
    /\ UNCHANGED <<idle, nilled, closed, stats, activeConns, open, conn, waits, sh, cl, crashed>>

(* Parked when the channel is closed: the nil connection again. *)
WokenByClose(p) == At(p, "parked") /\ nilled /\ \E i \in DOMAIN recvq : recvq[i] = p

ParkedPanics(p) == WokenByClose(p) /\ Crash

(* The select is over: p leaves the channel's queue, if it was parked.     *)
Unpark(p) ==
    \/ (\A i \in DOMAIN recvq : recvq[i] # p) /\ UNCHANGED recvq
    \/ \E i \in DOMAIN recvq :
          /\ recvq[i] = p
          /\ recvq' = [j \in 1..Len(recvq)-1 |-> recvq[IF j < i THEN j ELSE j + 1]]

(* The context of the wait ends first. (Timeouts is counted here.) A       *)
(* deadline is followed by retries, a cancellation is not.                 *)
GiveUp(p) ==
    /\ pc[p] \in {"wait:recv", "parked"} /\ ~WokenByClose(p)
    /\ \/ /\ "deadline" \in Endings
          /\ Goto(p, "retry") /\ UNCHANGED conn
          /\ tries' = [tries EXCEPT ![p] = MaxRetries] /\ UNCHANGED ch
       \/ /\ "cancel" \in Endings
          /\ Return(p, None) /\ Forget(p)
    /\ Unpark(p)
    /\ UNCHANGED <<idle, nilled, closed, stats, activeConns, open, waits, sh, cl, crashed>>

Retry(p) ==
    /\ At(p, "retry")
    /\ \/ (tries[p] = 0 \/ closed) /\ Return(p, None) /\ Forget(p)
       \/ tries[p] > 0 /\ ~closed /\ HasRoom
          /\ Goto(p, "create") /\ Forget(p) /\ UNCHANGED conn
       \/ tries[p] > 0 /\ ~closed /\ ~HasRoom
          /\ Goto(p, "retry:load") /\ UNCHANGED <<conn, ch, tries>>
    /\ UNCHANGED <<channel, closed, stats, activeConns, open, waits, sh, cl, crashed>>

(* Mutant: a Get that fails after a wait stays counted as a waiter. *)
LeaveServedOnly(p) ==
    /\ At(p, "leave")
    /\ Waiters' = IF conn[p] = None THEN Waiters ELSE Waiters - 1
    /\ waits' = [waits EXCEPT ![p] = @ - 1]
    /\ Goto(p, IF waits[p] > 1 THEN "leave" ELSE IF conn[p] = None THEN "idle" ELSE "using")
    /\ UNCHANGED <<channel, closed, Active, Idle, Total, activeConns, open, conn, ch, tries, sh, cl, crashed>>

Leave(p) ==
    /\ At(p, "leave")
    /\ Waiters' = Waiters - 1
    /\ waits' = [waits EXCEPT ![p] = @ - 1]
    /\ Goto(p, IF waits[p] > 1 THEN "leave" ELSE IF conn[p] = None THEN "idle" ELSE "using")
    /\ UNCHANGED <<channel, closed, Active, Idle, Total, activeConns, open, conn, ch, tries, sh, cl, crashed>>

-----------------------------------------------------------------------------
(* createConnection. The factory or OnCreate may fail; a connection is     *)
(* registered before it is counted.                                        *)
Create(p) ==
    /\ At(p, "create")
    /\ \/ /\ Return(p, None)
          /\ UNCHANGED <<open, activeConns>>
       \/ \E c \in Fresh :
             /\ open' = open \cup {c} /\ activeConns' = activeConns \cup {c}
             /\ Hold(p, c) /\ Goto(p, "count")
    /\ UNCHANGED <<channel, closed, stats, ch, waits, tries, sh, cl, crashed>>

Count(p) ==
    /\ At(p, "count")
    /\ Active' = Active + 1 /\ Total' = Total + 1
    /\ Return(p, conn[p])
    /\ UNCHANGED <<channel, closed, Idle, Waiters, activeConns, open, ch, waits, tries, sh, cl, crashed>>

-----------------------------------------------------------------------------
(* Put *)
PutClosed(p) ==
    /\ At(p, "using")
    /\ Goto(p, IF closed THEN "put:late" ELSE "put:soon")
    /\ UNCHANGED <<channel, closed, stats, activeConns, open, conn, ch, waits, tries, sh, cl, crashed>>

(* Mutant: a return is missing after the connection is closed. *)
PutBadFallsThrough(p) ==
    /\ At(p, "put:soon")
    /\ activeConns' = activeConns \ {conn[p]}
    /\ open' = open \ {conn[p]}
    /\ Goto(p, "put:nil")
    /\ UNCHANGED <<channel, closed, stats, conn, ch, waits, tries, sh, cl, crashed>>

(* The connection is closed: by its user's error, its health or reset, or  *)
(* because the pool was closed.                                            *)
PutBad(p) ==
    /\ pc[p] \in {"put:late", "put:soon"}
    /\ activeConns' = activeConns \ {conn[p]}
    /\ open' = open \ {conn[p]}
    /\ Goto(p, "drop")
    /\ UNCHANGED <<channel, closed, stats, conn, ch, waits, tries, sh, cl, crashed>>

PutGood(p) ==
    /\ At(p, "put:soon")
    /\ activeConns' = activeConns \ {conn[p]}
    /\ Goto(p, "put:nil")
    /\ UNCHANGED <<channel, closed, stats, open, conn, ch, waits, tries, sh, cl, crashed>>

PutNil(p) ==
    /\ At(p, "put:nil")
    /\ \/ nilled  /\ open' = open \ {conn[p]} /\ Goto(p, "drop")
       \/ ~nilled /\ Goto(p, "put:load") /\ UNCHANGED open
    /\ UNCHANGED <<channel, closed, stats, activeConns, conn, ch, waits, tries, sh, cl, crashed>>

PutSend(p) ==
    /\ At(p, "put:send") /\ ch[p] /\ ~nilled
    /\ Send(conn[p], {p}, "put:count") /\ Forget(p)
    /\ UNCHANGED <<nilled, closed, stats, activeConns, open, waits, sh, cl, crashed>>

PutFull(p) ==
    /\ At(p, "put:send") /\ (ch[p] => ~nilled /\ ~CanSend)
    /\ open' = open \ {conn[p]}
    /\ Goto(p, "drop") /\ Forget(p)
    /\ UNCHANGED <<channel, closed, stats, activeConns, conn, waits, sh, cl, crashed>>

(* p.idle was read before Shutdown closed the channel. *)
PutPanics(p) ==
    /\ At(p, "put:send") /\ ch[p] /\ nilled
    /\ Crash

PutCount(p) ==
    /\ At(p, "put:count")
    /\ Active' = Active - 1 /\ Idle' = Idle + 1
    /\ Goto(p, "idle")
    /\ UNCHANGED <<channel, closed, Total, Waiters, activeConns, open, conn, ch, waits, tries, sh, cl, crashed>>

(* Mutant: the connection is taken off the wrong count. *)
DropIdle(p) ==
    /\ At(p, "drop")
    /\ Idle' = Idle - 1 /\ Total' = Total - 1
    /\ Hold(p, None) /\ Goto(p, "idle")
    /\ UNCHANGED <<channel, closed, Active, Waiters, activeConns, open, ch, waits, tries, sh, cl, crashed>>

Drop(p) ==
    /\ At(p, "drop")
    /\ Active' = Active - 1 /\ Total' = Total - 1
    /\ Hold(p, None) /\ Goto(p, "idle")
    /\ UNCHANGED <<channel, closed, Idle, Waiters, activeConns, open, ch, waits, tries, sh, cl, crashed>>

(* pooledConnection.Close puts the raw connection back, which Put does not *)
(* know: it closes it and returns an error.                                *)
HandleClose(p) ==
    /\ HandleCloses /\ At(p, "using")
    /\ open' = open \ {conn[p]}
    /\ Hold(p, None) /\ Goto(p, "idle")
    /\ UNCHANGED <<channel, closed, stats, activeConns, ch, waits, tries, sh, cl, crashed>>

-----------------------------------------------------------------------------
(* Shutdown *)
ShutAt(a, l, next) == sh[a].at = l /\ sh' = [sh EXCEPT ![a].at = next]

ShutBegin(a) ==
    /\ ShutAt(a, "idle", IF closed THEN "refused" ELSE "active")
    /\ UNCHANGED <<channel, closed, stats, activeConns, open, local, cl, crashed>>

ShutActive(a) ==
    /\ sh[a].at = "active"
    /\ sh' = [sh EXCEPT ![a] = [at |-> "flag", active |-> Active]]
    /\ UNCHANGED <<channel, closed, stats, activeConns, open, local, cl, crashed>>

ShutFlag(a) ==
    /\ ShutAt(a, "flag", "chan")
    /\ closed' = TRUE
    /\ UNCHANGED <<channel, stats, activeConns, open, local, cl, crashed>>

ShutChan(a) ==
    /\ ~nilled /\ ShutAt(a, "chan", "drain")
    /\ nilled' = TRUE
    /\ UNCHANGED <<idle, recvq, closed, stats, activeConns, open, local, cl, crashed>>

(* A second Shutdown that passed the check closes a nil channel. *)
ShutPanics(a) == sh[a].at = "chan" /\ nilled /\ Crash

(* Mutant: connections in use are closed along with the idle ones. *)
ShutDrainForces(a) ==
    /\ ShutAt(a, "drain", IF sh[a].active = 0 THEN "ok" ELSE "wait")
    /\ open' = open \ activeConns
    /\ UNCHANGED <<channel, closed, stats, activeConns, local, cl, crashed>>

(* Mutant: the channel is closed, but not emptied. *)
ShutDrainsNot(a) ==
    /\ ShutAt(a, "drain", IF sh[a].active = 0 THEN "ok" ELSE "wait")
    /\ UNCHANGED <<channel, closed, stats, activeConns, open, local, cl, crashed>>

ShutDrain(a) ==
    \/ /\ sh[a].at = "drain" /\ idle # <<>>
       /\ idle' = Tail(idle) /\ open' = open \ {Head(idle)}
       /\ UNCHANGED <<recvq, nilled, closed, stats, activeConns, local, sh, cl, crashed>>
    \/ /\ idle = <<>> /\ ShutAt(a, "drain", IF sh[a].active = 0 THEN "ok" ELSE "wait")
       /\ UNCHANGED <<channel, closed, stats, activeConns, open, local, cl, crashed>>

(* A tick that still finds active connections waits for the next. *)
ShutTick(a) ==
    /\ Active = 0 /\ ShutAt(a, "wait", "ok")
    /\ UNCHANGED <<channel, closed, stats, activeConns, open, local, cl, crashed>>

ShutForce(a) ==
    /\ ShutAt(a, "wait", "forced")
    /\ open' = open \ activeConns
    /\ UNCHANGED <<channel, closed, stats, activeConns, local, cl, crashed>>

-----------------------------------------------------------------------------
(* The cleaner, on its ticks.                                              *)
CleanTick ==
    /\ cl.at = "sleep"
    /\ cl' = [cl EXCEPT !.at = IF closed THEN "stopped" ELSE "len"]
    /\ UNCHANGED <<channel, closed, stats, activeConns, open, local, sh, crashed>>

CleanLen ==
    LET n == IF nilled THEN 0 ELSE Len(idle)
    IN  /\ cl.at = "len"
        /\ cl' = [cl EXCEPT !.at = IF n <= MinEvictableIdle THEN "sleep" ELSE "load",
                              !.left = IF n <= MinEvictableIdle THEN 0 ELSE n]
        /\ UNCHANGED <<channel, closed, stats, activeConns, open, local, sh, crashed>>

CleanLoad ==
    /\ \/ cl.at = "load" /\ cl.left > 0 /\ cl' = [cl EXCEPT !.at = "recv", !.ch = ~nilled]
       \/ cl.at = "reload" /\ cl' = [cl EXCEPT !.at = "send", !.ch = ~nilled]
    /\ UNCHANGED <<channel, closed, stats, activeConns, open, local, sh, crashed>>

CleanNext == cl' = [at |-> "load", left |-> cl.left - 1, conn |-> None, ch |-> FALSE,
                    bin |-> cl.bin]

CleanReceive ==
    /\ cl.at = "recv"
    /\ \/ /\ cl.ch /\ idle # <<>>
          /\ idle' = Tail(idle)
          /\ \/ cl' = [cl EXCEPT !.at = "expired", !.bin = @ \cup {Head(idle)}, !.ch = FALSE]
             \/ cl' = [cl EXCEPT !.at = "reload", !.conn = Head(idle), !.ch = FALSE]
       \/ /\ ~cl.ch \/ idle = <<>>
          /\ CleanNext /\ UNCHANGED idle
    /\ UNCHANGED <<recvq, nilled, closed, stats, activeConns, open, local, sh, crashed>>

CleanExpired ==
    /\ cl.at = "expired"
    /\ Idle' = Idle - 1 /\ Total' = Total - 1
    /\ CleanNext
    /\ UNCHANGED <<channel, closed, Active, Waiters, activeConns, open, local, sh, crashed>>

CleanSend ==
    /\ cl.at = "send" /\ cl.ch /\ ~nilled
    /\ Send(cl.conn, {}, "idle")
    /\ CleanNext
    /\ UNCHANGED <<nilled, closed, stats, activeConns, open, ch, waits, tries, sh, crashed>>

CleanFull ==
    /\ cl.at = "send" /\ (cl.ch => ~nilled /\ ~CanSend)
    /\ cl' = [cl EXCEPT !.at = "expired", !.bin = @ \cup {cl.conn}, !.conn = None, !.ch = FALSE]
    /\ UNCHANGED <<channel, closed, stats, activeConns, open, local, sh, crashed>>

CleanPanics == cl.at = "send" /\ cl.ch /\ nilled /\ Crash

CleanBin ==
    /\ cl.at = "load" /\ cl.left = 0
    /\ open' = open \ cl.bin
    /\ cl' = [cl EXCEPT !.at = "sleep", !.bin = {}]
    /\ UNCHANGED <<channel, closed, stats, activeConns, local, sh, crashed>>

(* After a panic nothing moves; a pool shut down may come to rest.         *)
Halt == (crashed \/ closed) /\ UNCHANGED vars

-----------------------------------------------------------------------------
InGet(p) ==
    \/ Load(p) \/ Receive(p) \/ ReceiveNil(p) \/ ReceiveDefault(p)
    \/ CheckBad(p) \/ Discard(p) \/ CheckGood(p) \/ Lend(p)
    \/ Decide(p) \/ Enter(p) \/ Park(p) \/ ParkedPanics(p) \/ Retry(p) \/ Leave(p)
    \/ Create(p) \/ Count(p)

InPut(p) ==
    \/ PutBad(p) \/ PutGood(p) \/ PutNil(p) \/ PutSend(p) \/ PutFull(p)
    \/ PutPanics(p) \/ PutCount(p) \/ Drop(p)

InShutdown(a) ==
    \/ ShutActive(a) \/ ShutFlag(a) \/ ShutChan(a) \/ ShutPanics(a)
    \/ ShutDrain(a) \/ ShutTick(a)

Cleaner ==
    \/ CleanTick \/ CleanLen \/ CleanLoad \/ CleanReceive \/ CleanExpired
    \/ CleanSend \/ CleanFull \/ CleanPanics \/ CleanBin

Next ==
    \/ /\ ~crashed
       /\ \/ \E p \in Callers :
                \/ Get(p) \/ InGet(p) \/ GiveUp(p)
                \/ PutClosed(p) \/ InPut(p) \/ HandleClose(p)
          \/ \E a \in Admins : ShutBegin(a) \/ InShutdown(a) \/ ShutForce(a)
          \/ Cleaner
    \/ Halt

Spec == Init /\ [][Next]_vars

-----------------------------------------------------------------------------
Labels == {"idle", "get:load", "get:recv", "check", "discard", "lend", "decide", "enter",
           "wait:load", "wait:recv", "parked", "retry", "retry:load", "retry:recv", "leave",
           "create", "count", "using", "put:late", "put:soon", "put:nil", "put:load",
           "put:send", "put:count", "drop"}

(* Every variable keeps to its type. *)
TypeOK ==
    /\ idle \in Seq(Conns) /\ Len(idle) <= MaxIdle
    /\ recvq \in Seq(Callers)
    /\ closed \in BOOLEAN /\ nilled \in BOOLEAN /\ crashed \in BOOLEAN
    /\ {Active, Idle, Total, Waiters} \subseteq Int
    /\ activeConns \subseteq Conns /\ open \subseteq Conns
    /\ pc \in [Callers -> Labels]
    /\ conn \in [Callers -> Conns \cup {None}]
    /\ ch \in [Callers -> BOOLEAN] /\ waits \in [Callers -> Nat]
    /\ tries \in [Callers -> 0..MaxRetries]
    /\ sh \in [Admins -> [at : {"idle", "refused", "active", "flag", "chan", "drain",
                                "wait", "ok", "forced"}, active : Int]]
    /\ cl \in [at : {"sleep", "stopped", "len", "load", "recv", "expired", "reload", "send"},
               left : Nat, conn : Conns \cup {None}, ch : BOOLEAN, bin : SUBSET Conns]

IdleConns == {idle[i] : i \in DOMAIN idle}

(* A connection is in one place: in the channel once, in the hands of one  *)
(* caller or of the cleaner.                                               *)
OnePlace ==
    /\ \A i, j \in DOMAIN idle : idle[i] = idle[j] => i = j
    /\ \A p, q \in Callers : conn[p] = conn[q] /\ conn[p] # None => p = q
    /\ \A p \in Callers : conn[p] \notin IdleConns \cup cl.bin /\ (conn[p] = cl.conn => conn[p] = None)
    /\ ({cl.conn} \cup cl.bin) \cap IdleConns = {} /\ cl.conn \notin cl.bin

(* No two callers are ever given the same connection, and what lies idle   *)
(* is open (and every variable keeps to its type).                         *)
OneOwner == TypeOK /\ OnePlace /\ IdleConns \subseteq open

(* Connections that are registered as checked out, and nobody has: their   *)
(* callers closed them instead of putting them back.                       *)
Leaked == activeConns \ {conn[p] : p \in Callers}

(* The counts are exact once what is under way is allowed for: Active      *)
(* counts the connections lent and not yet counted back, the leaked ones   *)
(* for ever, Idle those in the channel, less those counted late by Put,    *)
(* and those a Get or the cleaner has taken and not yet counted (until     *)
(* Shutdown, which drains the channel without counting); Waiters the waits *)
(* not yet left.                                                           *)
LentAt  == {"using", "put:late", "put:soon", "put:nil", "put:load", "put:send", "put:count", "drop"}
TakenAt == {"check", "discard", "lend"}

CountsExact ==
    /\ Active = Cardinality({p \in Callers : pc[p] \in LentAt \/ (At(p, "leave") /\ conn[p] # None)})
                 + Cardinality(Leaked)
    /\ ~nilled => Idle = Len(idle) + Cardinality({p \in Callers : pc[p] \in TakenAt})
                          - Cardinality({p \in Callers : At(p, "put:count")})
                          + (IF cl.at \in {"expired", "reload", "send"} THEN 1 ELSE 0)
    /\ Total = Active + Idle
    /\ Waiters = Cardinality(UNION {{p} \X (1..waits[p]) : p \in Callers})

(* The check on MaxActive and the creation are apart, but the callers that *)
(* passed it together are all there is to exceed it by (and what the       *)
(* cleaner has counted out and closes when it is through).                 *)
OvershootBounded ==
    MaxActive > 0 /\ InitialSize <= MaxActive
       => Cardinality(open \ cl.bin) <= MaxActive - 1 + Cardinality(Callers)

(* When a Shutdown has ended and nobody is in a call, has a connection, or *)
(* cleans, every raw connection has been closed, however the calls and the *)
(* draining overlapped.                                                    *)
Quiet == /\ \A p \in Callers : At(p, "idle")
         /\ cl.at \in {"sleep", "stopped"}

NothingLeftOpen ==
    (\E a \in Admins : sh[a].at \in {"ok", "forced"}) /\ Quiet => open = {}

-----------------------------------------------------------------------------
(* Liveness, under the fairness of PoolClients, up to the crash of the     *)
(* program. Shutdown ends once the connections have come back, unless one  *)
(* has been leaked: then only its context ends it.                         *)
ShutdownReturns ==
    \A a \in Admins :
       sh[a].at # "idle" ~> (sh[a].at \in {"ok", "forced", "refused"} \/ crashed \/ Leaked # {})

=============================================================================
