----------------------------- MODULE PoolClients -----------------------------
(***************************************************************************)
(* The helpers of pool/adapters on a pool.ConnectionPool of their          *)
(* connections: every step is one of ConnPool, with what the helper does   *)
(* around it and what its kind of connection makes of Close and ResetState *)
(* (here, open is the set of connections whose flag `closed` is not set).  *)
(*                                                                         *)
(* RedisPoolHelper.Execute, GRPCClientPool.WithConnection and              *)
(* SQLPoolHelper.WithConnection call Put and then, deferred, Close on a    *)
(* connection that others may have by now. The pool's Close puts the raw   *)
(* connection back, which Put does not know and closes. http's             *)
(* WithPooledClient closes before Put, when the request has failed.        *)
(* SQLPoolHelper.WithTransaction never gets as far as Put, and             *)
(* GRPCClientPool.GetConn gives the connection away.                       *)
(*                                                                         *)
(* The options are the default ones: connections are tested when borrowed  *)
(* and not when returned; the cleaner, which helpers do not meet, is left  *)
(* to ConnPool. What a helper answers is left out.                         *)
(***************************************************************************)
EXTENDS ConnPool

CONSTANT Kinds  \* the adapters, of "redis", "sql", "grpc", "http"
ASSUME KindsAssumption == Kinds \subseteq {"redis", "sql", "grpc", "http"}

VARIABLES
    kind,    \* the adapter of this pool
    owed,    \* the connection each caller's deferred Close is still going to close
    failed,  \* did the caller's function, or request, fail?
    gone     \* gRPC connections that are closed, which ResetState does not undo

mine  == <<owed, failed>>
cvars == <<vars, kind, mine, gone>>

ClientsInit ==
    /\ Init
    /\ kind \in Kinds
    /\ owed = [p \in Callers |-> None]
    /\ failed = [p \in Callers |-> FALSE]
    /\ gone = {}

-----------------------------------------------------------------------------
(* Connections                                                             *)

(* IsAlive, which Get asks; the connection may be unhealthy as well.       *)
Alive(c) == c \in open \ gone

(* GRPCConnection.Close closes for good; kept while anybody has it.        *)
Closes == gone' = IF kind = "grpc" THEN ((gone \cup (open \ open')) \ (open' \ open)) \cap InUse'
                  ELSE {}

(* A step of the pool that leaves the helpers where they are.              *)
Quietly(A) == A /\ Closes /\ UNCHANGED <<kind, mine>>

(* ResetState: all but HTTPConnection's take the flag back.                *)
PutReset(p) ==
    /\ At(p, "put:soon") /\ ~failed[p]
    /\ activeConns' = activeConns \ {conn[p]}
    /\ open' = IF kind = "http" THEN open ELSE open \cup {conn[p]}
    /\ Goto(p, "put:nil")
    /\ UNCHANGED <<channel, closed, stats, conn, ch, waits, tries, sh, cl, crashed>>
    /\ UNCHANGED <<kind, mine, gone>>

-----------------------------------------------------------------------------
(* Helpers                                                                 *)

Borrow(p) ==
    /\ owed[p] = None
    /\ \A q \in Callers : waits[q] + 2 <= MaxNest     \* bound: see CheckBad
    /\ Get(p)
    /\ UNCHANGED <<kind, mine, gone>>

(* The function returns, and Put is called with its error.                 *)
Finish(p) ==
    /\ PutClosed(p)
    /\ IF kind = "http" THEN UNCHANGED mine
       ELSE /\ owed' = [owed EXCEPT ![p] = conn[p]]
            /\ \E e \in BOOLEAN : failed' = [failed EXCEPT ![p] = e]
            /\ closed => ~failed'[p]        \* then Put does not look
    /\ UNCHANGED <<kind, gone>>

(* A request that fails: the connection is closed ahead of Put.            *)
FailRequest(p) ==
    /\ kind = "http" /\ At(p, "using") /\ ~failed[p]
    /\ open' = open \ {conn[p]}
    /\ failed' = [failed EXCEPT ![p] = TRUE]
    /\ UNCHANGED <<channel, closed, stats, activeConns, local, sh, cl, crashed, kind, owed, gone>>

Failed(p) ==
    /\ PutBad(p) /\ Closes
    /\ At(p, "put:late") \/ failed[p]
    /\ failed' = [failed EXCEPT ![p] = FALSE]
    /\ UNCHANGED <<kind, owed>>

(* Mutant: Close puts the pooled connection back, as its comment has it.   *)
CloseAfterPuts(p) ==
    /\ At(p, "idle") /\ owed[p] # None
    /\ IF Len(idle) < MaxIdle /\ ~nilled THEN idle' = Append(idle, owed[p]) ELSE UNCHANGED idle
    /\ Active' = Active - 1 /\ Idle' = Idle + 1
    /\ owed' = [owed EXCEPT ![p] = None]
    /\ UNCHANGED <<recvq, nilled, closed, Total, Waiters, activeConns, open, local, sh, cl,
                   crashed, kind, failed, gone>>

(* After Put: the deferred Close, whoever has the connection now.          *)
CloseAfter(p) ==
    /\ At(p, "idle") /\ owed[p] # None
    /\ open' = open \ {owed[p]}
    /\ owed' = [owed EXCEPT ![p] = None]
    /\ UNCHANGED <<channel, closed, stats, activeConns, local, sh, cl, crashed, kind, failed>>
    /\ Closes

(* The pool's connection is not a *SQLConnection: only Close is called.    *)
WithTransaction(p) == kind = "sql" /\ Quietly(HandleClose(p))

(* The caller keeps what is inside the connection, and cannot put it back. *)
GetConn(p) ==
    /\ kind = "grpc" /\ At(p, "using")
    /\ Hold(p, None) /\ Goto(p, "idle")
    /\ UNCHANGED <<channel, closed, stats, activeConns, open, ch, waits, tries, sh, cl, crashed>>
    /\ UNCHANGED <<kind, mine, gone>>

-----------------------------------------------------------------------------
(* A Get that finds a connection alive, or makes one nobody owes a Close.  *)
Getting(p) ==
    \/ Quietly(CheckGood(p)) /\ Alive(conn[p])
    \/ Quietly(CheckBad(p)) /\ (waits[p] = 0 \/ ~Alive(conn[p]))   \* bound: healthy ones at first
    \/ Quietly(Create(p)) /\ \A q \in Callers : owed[q] # None => conn'[p] # owed[q]
    \/ Quietly(\/ Load(p) \/ Receive(p) \/ ReceiveNil(p) \/ ReceiveDefault(p)
              \/ Discard(p) \/ Lend(p)
              \/ Decide(p) \/ Enter(p) \/ Park(p) \/ ParkedPanics(p) \/ Retry(p) \/ Leave(p)
              \/ Count(p))

Putting(p) ==
    \/ PutReset(p) \/ Failed(p)
    \/ Quietly(PutNil(p) \/ PutSend(p) \/ PutFull(p) \/ PutPanics(p) \/ PutCount(p) \/ Drop(p))

ClientsNext ==
    \/ /\ ~crashed
       /\ \/ \E p \in Callers :
                \/ Borrow(p) \/ Getting(p) \/ Quietly(GiveUp(p))
                \/ FailRequest(p) \/ Finish(p) \/ Putting(p) \/ CloseAfter(p)
                \/ WithTransaction(p) \/ GetConn(p)
          \/ \E a \in Admins : Quietly(ShutBegin(a) \/ InShutdown(a) \/ ShutForce(a))
    \/ Halt /\ UNCHANGED cvars

ClientsSpec == ClientsInit /\ [][ClientsNext]_cvars

(* Goroutines inside a call are scheduled, Shutdown's ticks come, the      *)
(* contexts that can end do, and the functions that helpers call return.   *)
FairClients ==
    /\ ClientsSpec
    /\ \A p \in Callers :
          /\ WF_cvars(Getting(p)) /\ WF_cvars(Quietly(GiveUp(p)))
          /\ WF_cvars(Finish(p)) /\ WF_cvars(Putting(p)) /\ WF_cvars(CloseAfter(p))
    /\ \A a \in Admins : WF_cvars(Quietly(InShutdown(a)))

-----------------------------------------------------------------------------
(* The Close that helpers call after Put gives no connection back a second *)
(* time, to the channel or to the counts: connections stay in one place,   *)
(* and Active is too high by those alone that WithTransaction has lost and *)
(* GetConn has given away.                                                 *)
PutBackOnce == OnePlace /\ CountsExact

(* While a caller uses a connection, it is closed under him by nobody but  *)
(* the one who had it before, whose Close comes late, and a Shutdown whose *)
(* context ends.                                                           *)
ClosedUnderUser ==
    [][\A p \in Callers :
          LET c == conn[p]
          IN  At(p, "using") /\ conn'[p] = c /\ c \in open \ open' =>
                 \/ kind = "http" /\ failed'[p]
                 \/ \E q \in Callers \ {p} : owed[q] = c /\ owed'[q] = None
                 \/ \E a \in Admins : sh[a].at = "wait" /\ sh'[a].at = "forced"]_cvars

(* When a Shutdown has ended and all helpers have returned, every          *)
(* connection is closed that was not given away by GetConn.                *)
ClosedUnlessGiven ==
    (\E a \in Admins : sh[a].at \in {"ok", "forced"}) /\ Quiet /\ (\A p \in Callers : owed[p] = None)
       => open \subseteq IF kind = "grpc" THEN activeConns ELSE {}

(* With a timeout on the wait every helper returns, its deferred Close     *)
(* included; and Shutdown ends once the connections are back, which it can *)
(* wait for in vain after a WithTransaction or a GetConn.                  *)
ClientsReturn ==
    /\ \A p \in Callers : ~At(p, "idle") \/ owed[p] # None
                              ~> (At(p, "idle") /\ owed[p] = None) \/ crashed
    /\ ShutdownReturns
=============================================================================
