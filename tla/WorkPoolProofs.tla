--------------------------- MODULE WorkPoolProofs ---------------------------
(***************************************************************************)
(* The worker pool's safety properties, for any tasks, priorities, workers *)
(* and Shutdowns: no task is lost or taken twice, the counters agree with  *)
(* the goroutines and the queue, a Shutdown drains what was submitted      *)
(* before it, stopCh is closed once, a pool of fixed size panics only for  *)
(* a Submit that a Shutdown overtook, and, in a pool that is started once, *)
(* submitters and the scaler never exceed the maximum.                     *)
(*                                                                         *)
(* The inductive invariant says which task a worker has, by where it is,   *)
(* and how far a Shutdown is, by the status and stopCh. What CountersAgree *)
(* says is inductive next to it; QueuedSettles is restated without the     *)
(* modulus, as a number of wraps.                                          *)
(***************************************************************************)
EXTENDS WorkPool, FiniteSetTheorems, TLAPS

(* A worker has a task from Dequeue to its end; nobody else has it.        *)
Busy == {"occupy", "start", "meter", "run"}

HandsInv ==
    /\ \A w \in Workers : wk[w].task # None <=> wk[w].at \in Busy
    /\ \A w, v \in Workers : wk[w].task = wk[v].task /\ wk[w].task # None => w = v

(* A task that is in hand or in the queue has been accepted, and is not    *)
(* both; one that has been accepted is somewhere.                          *)
PlaceInv ==
    /\ \A w \in Workers : wk[w].task # None => wk[w].task \notin queue /\ Accepted(wk[w].task)
    /\ \A t \in queue : Accepted(t)
    /\ \A t \in Tasks :
          Accepted(t) => t \in queue \/ (\E w \in Workers : wk[w].task = t) \/ done[t]

(* One Shutdown at a time is under way, and it has not closed stopCh       *)
(* before it stops; the others are refused.                                *)
Open == {"ticker", "drain", "poll", "stop"}
InShut == Open \cup {"join", "joined"}

StopInv ==
    /\ \A a \in Admins : sh[a].at \in InShut => status = "ShuttingDown"
    /\ \A a, b \in Admins : sh[a].at \in InShut /\ sh[b].at \in InShut => a = b
    /\ \A a \in Admins : sh[a].at \in Open => ~stopped
    /\ status \in {"Idle", "Running"} => ~stopped

(* How far a Shutdown is with the tasks it owes.                           *)
DrainInv ==
    \A a \in Admins : \A t \in sh[a].owed :
       /\ sub[t] = "returned"
       /\ sh[a].at \in {"stop", "join", "joined", "ok"} => t \notin queue
       /\ sh[a].at \in {"joined", "ok"} \/ (sh[a].at = "join" /\ joiner = "closed") => done[t]

Metered  == {t \in Tasks : sub[t] = "meter"}
Unmeters == Where({"occupy", "start", "meter"})
Counted  == Where({"check", "dequeue", "wait", "occupy", "start", "meter", "run", "release",
                   "exit"})
Alive    == Workers \ Where({"off", "done"})

Settling == Cardinality(queue) + Cardinality(Unmeters) - Cardinality(Metered)
WrapInv  == \E k \in Int : Settling = QueuedTasks + k * Word

WorkInv == TypeOK /\ HandsInv /\ PlaceInv /\ StopInv /\ DrainInv /\ CountsSum /\ WrapInv

(* Before the one Start nobody is about to add a worker, while it adds     *)
(* them it is alone, and whoever adds later does so under scaleLock.       *)
Adding == {"enqueue", "meter", "look", "size", "add", "returned"}

RoomInv ==
    /\ boot.starts <= 1
    /\ boot.starts = 1 => status # "Running" /\ workers = 0 /\ ~boot.adding
    /\ boot.starts = 1 \/ boot.adding =>
          sc.at = "off" /\ \A t \in Tasks : sub[t] \notin Adding
    /\ boot.adding => workers + boot.left <= MaxWorkers
    /\ sc.at \in {"adjust", "adding"} => sc.target <= MaxWorkers
    /\ sc.at = "adding" => workers + sc.left <= sc.target
    /\ workers <= MaxWorkers

-----------------------------------------------------------------------------
(* Types                                                                   *)
Levels == {"new", "refused", "enqueue", "meter", "look", "size", "add", "returned"}
Spots  == {"off", "check", "dequeue", "wait", "occupy", "start", "meter", "run", "release",
           "exit", "exit:active", "exit:idle", "done"}
Stages == {"idle", "refused", "ticker", "drain", "poll", "stop", "join", "joined", "ok", "failed"}

PlainOK ==
    /\ status \in {"Idle", "Running", "ShuttingDown", "Stopped"}
    /\ stopped \in BOOLEAN /\ ctxDone \in BOOLEAN /\ ticker \in BOOLEAN /\ queue \in SUBSET Tasks
CountOK == workers \in Nat /\ active \in Int /\ idle \in Int /\ QueuedTasks \in 0..(Word - 1)
SubOK   == sub \in [Tasks -> Levels]
StOK    == st \in [Tasks -> {"Pending", "Running"} \cup Terminal] /\ done \in [Tasks -> BOOLEAN]
WkOK    == wk \in [Workers -> [at : Spots, task : Tasks \cup {None}]]
BootOK  == boot \in [adding : BOOLEAN, left : Nat, starts : Nat]
ScOK    == sc \in [at : {"off", "sleep", "tick", "adjust", "adding"}, target : Nat, left : Nat]
ShOK    == sh \in [Admins -> [at : Stages, owed : SUBSET Tasks]]
JoinOK  ==
    /\ joiner \in {"none", "ask", "waiting", "freeing", "waking", "closed"} /\ crashed \in BOOLEAN

LEMMA TypeParts ==
  TypeOK <=> PlainOK /\ CountOK /\ SubOK /\ StOK /\ WkOK /\ BootOK /\ ScOK /\ ShOK /\ JoinOK
  BY DEF TypeOK, PlainOK, CountOK, SubOK, StOK, WkOK, BootOK, ScOK, ShOK, JoinOK, Levels, Spots,
         Stages

LEMMA Constants ==
  /\ IsFiniteSet(Tasks) /\ IsFiniteSet(Workers) /\ None \notin Tasks
  /\ Word \in Nat /\ Word > 0 /\ MinWorkers \in Nat /\ MaxWorkers \in Nat /\ InitialWorkers \in Nat
  /\ InitialWorkers <= MaxWorkers /\ MinWorkers > 0 /\ MinWorkers <= MaxWorkers
  /\ MaxStarts \in Nat
  <1>1. {InitialWorkers, MinWorkers, MaxWorkers, Word} \subseteq Nat \ {0}
    BY WorkPoolAssumption
  <1>2. {UpAt, DownTenths, MaxStarts} \subseteq Nat
    BY WorkPoolAssumption
  <1>3. Word \in Nat /\ Word # 0 /\ MinWorkers \in Nat /\ MaxWorkers \in Nat
        /\ InitialWorkers \in Nat /\ MinWorkers # 0 /\ MaxStarts \in Nat
    BY <1>1, <1>2
  <1>4. MinWorkers <= InitialWorkers /\ InitialWorkers <= MaxWorkers
    BY WorkPoolAssumption
  <1> QED  BY <1>3, <1>4, WorkPoolAssumption

(* The wrap of QueuedTasks, one up and one down. *)
LEMMA Wraps ==
  ASSUME NEW W \in Nat, W > 0, NEW q \in 0..(W - 1)
  PROVE  /\ (q + 1) % W = IF q + 1 = W THEN 0 ELSE q + 1
         /\ (q - 1) % W = IF q = 0 THEN W - 1 ELSE q - 1
  <1>1. ASSUME NEW x \in 0..(W - 1)  PROVE x % W = x
    OBVIOUS
  <1>2. W % W = 0
    OBVIOUS
  <1>3. (0 - 1) % W = W - 1
    OBVIOUS
  <1> QED  BY <1>1, <1>2, <1>3

LEMMA Unwraps ==
  ASSUME NEW W \in Nat, W > 0, NEW q \in 0..(W - 1), NEW k \in Int
  PROVE  (q + k * W) % W = q
  OBVIOUS

-----------------------------------------------------------------------------
(* Steps                                                                   *)
TaskStep(t) == Submit(t) \/ InSubmit(t) \/ Cancel(t)
ShutStep(a) == ShutBegin(a) \/ InShutdown(a) \/ ShutGiveUp(a)

LEMMA StepCases ==
  ASSUME [Next]_vars
  PROVE  \/ Starter \/ Scaler \/ Join \/ UNCHANGED vars
         \/ \E t \in Tasks : TaskStep(t)
         \/ \E w \in Workers : Work(w)
         \/ \E a \in Admins : ShutStep(a)
  BY DEF Next, Halt, TaskStep, ShutStep

(* A worker at l: Goto moves it, and it keeps its task. *)
LEMMA GotoMoves ==
  ASSUME WkOK, NEW w \in Workers, NEW l \in Spots, Goto(w, l)
  PROVE  /\ WkOK'
         /\ \A v \in Workers : wk'[v].task = wk[v].task
         /\ \A v \in Workers : wk'[v].at = IF v = w THEN l ELSE wk[v].at
  BY DEF Goto, WkOK

LEMMA AddMoves ==
  ASSUME WkOK, AddWorker
  PROVE  \E w \in Workers : wk[w].at = "off" /\ Goto(w, "check")
  BY DEF AddWorker, Goto

(* A worker's step: the counts stay natural because an exiting worker is   *)
(* still among those counted.                                              *)
LEMMA WorkTypes ==
  ASSUME TypeOK, CountsSum, NEW w \in Workers, Work(w)
  PROVE  TypeOK'
  <1> USE TypeParts, Constants
  <1>1. WkOK'
    <2>1. CASE Dequeue(w) \/ setCompleted(w)
      BY <2>1 DEF Dequeue, setCompleted, WkOK, Spots, Goto, Best, PlainOK
    <2>2. CASE ~Dequeue(w) /\ ~setCompleted(w)
      BY <2>2 DEF Work, Check, Wait, Occupy, setRunning, taskStarted, Release, ExitLook,
                  ExitCount, Done, WkOK, Spots, Goto
    <2> QED  BY <2>1, <2>2
  <1>2. PlainOK'
    BY DEF Work, Check, Dequeue, Wait, Occupy, setRunning, taskStarted, setCompleted, Release,
           ExitLook, ExitCount, Done, PlainOK
  <1>3. StOK'
    <2>1. wk[w].task \in Tasks \cup {None}
      BY DEF WkOK
    <2>2. CASE setRunning(w) \/ setCompleted(w)
      BY <2>1, <2>2 DEF setRunning, setCompleted, StOK, Terminal
    <2>3. CASE ~setRunning(w) /\ ~setCompleted(w)
      BY <2>3 DEF Work, Check, Dequeue, Wait, Occupy, taskStarted, Release, ExitLook,
                  ExitCount, Done, StOK, handles
    <2> QED  BY <2>2, <2>3
  <1>4. CountOK'
    <2>1. CASE taskStarted(w)
      <3>1. (QueuedTasks - 1) % Word \in 0..(Word - 1)
        BY Wraps DEF CountOK
      <3> QED  BY <2>1, <3>1 DEF taskStarted, CountOK, counts
    <2>2. CASE ExitLook(w)
      <3>1. w \in Counted
        BY <2>2 DEF ExitLook, At, Counted, Where
      <3>2. workers = Cardinality(Counted) /\ IsFiniteSet(Counted)
        BY FS_Subset DEF CountsSum, Counted, Where
      <3>3. workers # 0
        BY <3>1, <3>2, FS_EmptySet
      <3> QED  BY <2>2, <3>3 DEF ExitLook, CountOK
    <2>3. CASE ~taskStarted(w) /\ ~ExitLook(w)
      BY <2>3 DEF Work, Check, Dequeue, Wait, Occupy, setRunning, setCompleted, Release,
                  ExitCount, Done, CountOK, counts
    <2> QED  BY <2>1, <2>2, <2>3
  <1>5. SubOK' /\ BootOK' /\ ScOK' /\ ShOK'
    <2>1. UNCHANGED sub /\ UNCHANGED boot /\ UNCHANGED sc /\ UNCHANGED sh
      BY DEF Work, Check, Dequeue, Wait, Occupy, setRunning, taskStarted, setCompleted, Release,
             ExitLook, ExitCount, Done
    <2> QED  BY <2>1 DEF SubOK, BootOK, ScOK, ShOK
  <1>j. JoinOK'
    BY DEF Work, Check, Dequeue, Wait, Occupy, setRunning, taskStarted, setCompleted, Release,
           ExitLook, ExitCount, Done, JoinOK, wg
  <1>6. TypeOK' <=> (PlainOK /\ CountOK /\ SubOK /\ StOK /\ WkOK /\ BootOK /\ ScOK /\ ShOK
                      /\ JoinOK)'
    BY TypeParts, PTL
  <1> QED  BY <1>1, <1>2, <1>3, <1>4, <1>5, <1>6, <1>j

LEMMA AddTypes ==
  ASSUME WkOK, CountOK, AddWorker
  PROVE  WkOK' /\ (UNCHANGED QueuedTasks => CountOK')
  <1>1. PICK w \in Workers : wk[w].at = "off" /\ Goto(w, "check")
    BY AddMoves
  <1>2. WkOK'
    BY <1>1, GotoMoves DEF Spots
  <1>3. UNCHANGED QueuedTasks => CountOK'
    BY DEF AddWorker, CountOK
  <1> QED  BY <1>2, <1>3

LEMMA StarterTypes ==
  ASSUME TypeOK, Starter
  PROVE  TypeOK'
  <1> USE TypeParts, Constants
  <1>1. UNCHANGED queue /\ UNCHANGED ctxDone /\ UNCHANGED QueuedTasks /\ UNCHANGED sub
        /\ UNCHANGED st /\ UNCHANGED done /\ UNCHANGED sh
    BY DEF Starter, StartBegin, StartAdd, StartEnd, handles
  <1>2. PlainOK' /\ ScOK'
    BY <1>1 DEF Starter, StartBegin, StartAdd, StartEnd, PlainOK, ScOK
  <1>3. SubOK' /\ StOK' /\ ShOK'
    BY <1>1 DEF SubOK, StOK, ShOK
  <1>4. WkOK' /\ CountOK'
    <2>1. AddWorker \/ (UNCHANGED wk /\ UNCHANGED workers /\ UNCHANGED active /\ UNCHANGED idle)
      BY DEF Starter, StartBegin, StartAdd, StartEnd, counts
    <2> QED  BY <1>1, <2>1, AddTypes DEF WkOK, CountOK
  <1>5. BootOK'
    <2>1. CASE StartBegin
      BY <2>1 DEF StartBegin, BootOK, CountOK
    <2>2. CASE StartAdd
      <3>1. boot.left > 0 /\ boot.left \in Nat
        BY <2>2 DEF StartAdd, BootOK
      <3>2. boot.left - 1 \in Nat
        BY <3>1
      <3> QED  BY <2>2, <3>2 DEF StartAdd, BootOK
    <2>3. CASE StartEnd
      BY <2>3 DEF StartEnd, BootOK
    <2> QED  BY <2>1, <2>2, <2>3 DEF Starter
  <1>j. JoinOK'
    BY DEF Starter, StartBegin, StartAdd, StartEnd, AddWorker, JoinOK, wg
  <1>6. TypeOK' <=> (PlainOK /\ CountOK /\ SubOK /\ StOK /\ WkOK /\ BootOK /\ ScOK /\ ShOK
                      /\ JoinOK)'
    BY TypeParts, PTL
  <1> QED  BY <1>2, <1>3, <1>4, <1>5, <1>6, <1>j

LEMMA TaskTypes ==
  ASSUME TypeOK, NEW t \in Tasks, TaskStep(t)
  PROVE  TypeOK'
  <1> USE TypeParts, Constants
  <1>1. UNCHANGED boot /\ UNCHANGED sc /\ UNCHANGED sh
    BY DEF TaskStep, Submit, InSubmit, Enqueue, taskSubmitted, Look, tryAddWorker, Cancel
  <1>2. BootOK' /\ ScOK' /\ ShOK'
    BY <1>1 DEF BootOK, ScOK, ShOK
  <1>3. PlainOK' /\ StOK'
    BY DEF TaskStep, Submit, InSubmit, Enqueue, taskSubmitted, Look, tryAddWorker, Cancel,
           PlainOK, StOK, handles, Terminal
  <1>4. SubOK'
    BY DEF TaskStep, Submit, InSubmit, Enqueue, taskSubmitted, Look, tryAddWorker, Cancel,
           SubOK, SubAt, Levels
  <1>5. WkOK' /\ CountOK'
    <2>1. CASE taskSubmitted(t)
      <3>1. (QueuedTasks + 1) % Word \in 0..(Word - 1)
        BY Wraps DEF CountOK
      <3> QED  BY <2>1, <3>1 DEF taskSubmitted, CountOK, WkOK, counts
    <2>2. CASE ~taskSubmitted(t)
      <3>1. /\ UNCHANGED QueuedTasks
            /\ \/ AddWorker
               \/ UNCHANGED wk /\ UNCHANGED workers /\ UNCHANGED active /\ UNCHANGED idle
        BY <2>2 DEF TaskStep, Submit, InSubmit, Enqueue, Look, tryAddWorker, Cancel, counts
      <3> QED  BY <3>1, AddTypes DEF WkOK, CountOK
    <2> QED  BY <2>1, <2>2
  <1>j. JoinOK'
    BY DEF TaskStep, Submit, InSubmit, Enqueue, taskSubmitted, Look, tryAddWorker, Cancel,
           AddWorker, JoinOK, wg
  <1>6. TypeOK' <=> (PlainOK /\ CountOK /\ SubOK /\ StOK /\ WkOK /\ BootOK /\ ScOK /\ ShOK
                      /\ JoinOK)'
    BY TypeParts, PTL
  <1> QED  BY <1>2, <1>3, <1>4, <1>5, <1>6, <1>j

LEMMA ShutTypes ==
  ASSUME TypeOK, NEW a \in Admins, ShutStep(a)
  PROVE  TypeOK'
  <1> USE TypeParts, Constants
  <1>1. /\ UNCHANGED queue /\ UNCHANGED QueuedTasks /\ UNCHANGED sub /\ UNCHANGED st
        /\ UNCHANGED done /\ UNCHANGED wk /\ UNCHANGED boot /\ UNCHANGED sc
        /\ UNCHANGED workers /\ UNCHANGED active /\ UNCHANGED idle
    BY DEF ShutStep, ShutBegin, InShutdown, ShutTicker, ShutDrain, ShutStop, ShutJoin, ShutEnd,
           ShutGiveUp, counts, handles
  <1>2. CountOK' /\ SubOK' /\ StOK' /\ WkOK' /\ BootOK' /\ ScOK'
    BY <1>1 DEF CountOK, SubOK, StOK, WkOK, BootOK, ScOK
  <1>3. PlainOK'
    BY <1>1 DEF ShutStep, ShutBegin, InShutdown, ShutTicker, ShutDrain, ShutStop, ShutJoin,
                ShutEnd, ShutGiveUp, PlainOK
  <1>4. ShOK'
    <2>1. CASE ShutBegin(a)
      <3>1. {t \in Tasks : sub[t] = "returned"} \in SUBSET Tasks
        OBVIOUS
      <3> QED  BY <2>1, <3>1 DEF ShutBegin, ShOK, Stages
    <2>2. CASE ~ShutBegin(a)
      BY <2>2 DEF ShutStep, InShutdown, ShutTicker, ShutDrain, ShutStop, ShutJoin, ShutEnd,
                  ShutGiveUp, ShutAt, ShOK, Stages
    <2> QED  BY <2>1, <2>2
  <1>j. JoinOK'
    BY DEF ShutStep, ShutBegin, InShutdown, ShutTicker, ShutDrain, ShutStop, ShutJoin, ShutEnd,
           ShutGiveUp, JoinOK, wg
  <1>6. TypeOK' <=> (PlainOK /\ CountOK /\ SubOK /\ StOK /\ WkOK /\ BootOK /\ ScOK /\ ShOK
                      /\ JoinOK)'
    BY TypeParts, PTL
  <1> QED  BY <1>2, <1>3, <1>4, <1>6, <1>j

LEMMA ScalerTypes ==
  ASSUME TypeOK, Scaler
  PROVE  TypeOK'
  <1> USE TypeParts, Constants
  <1>1. /\ UNCHANGED status /\ UNCHANGED stopped /\ UNCHANGED ctxDone /\ UNCHANGED ticker
        /\ UNCHANGED queue /\ UNCHANGED QueuedTasks /\ UNCHANGED sub /\ UNCHANGED st
        /\ UNCHANGED done /\ UNCHANGED boot /\ UNCHANGED sh
        /\ AddWorker \/ (UNCHANGED wk /\ UNCHANGED workers /\ UNCHANGED active /\ UNCHANGED idle)
    BY DEF Scaler, ScaleTick, ScaleLook, adjustWorkers, ScaleStop, counts, handles
  <1>2. PlainOK' /\ SubOK' /\ StOK' /\ BootOK' /\ ShOK'
    BY <1>1 DEF PlainOK, SubOK, StOK, BootOK, ShOK
  <1>3. WkOK' /\ CountOK'
    BY <1>1, AddTypes DEF WkOK, CountOK
  <1>4. ScOK'
    <2>4. CASE ScaleTick
      BY <2>4 DEF ScaleTick, ScOK
    <2>1. CASE ScaleLook
      <3>1. workers \div 4 \in Nat /\ (workers >= 8 => workers - workers \div 4 \in Nat)
        BY DEF CountOK
      <3>2. Quarter \in Nat /\ ScaleUpTo \in Nat
        BY <3>1 DEF CountOK, Quarter, ScaleUpTo
      <3>3. ScaleDownTo \in Nat
        BY <3>2 DEF CountOK, ScaleDownTo
      <3> QED  BY <2>1, <3>2, <3>3 DEF ScaleLook, ScOK
    <2>2. CASE adjustWorkers
      <3>1. sc.left \in Nat /\ sc.target \in Nat /\ workers \in Nat
        BY DEF ScOK, CountOK
      <3>2. (sc.left > 0 => sc.left - 1 \in Nat)
            /\ (workers < sc.target => sc.target - workers \in Nat)
        BY <3>1
      <3>3. CASE sc' = [sc EXCEPT !.left = @ - 1] /\ sc.left > 0
        BY <3>2, <3>3 DEF ScOK
      <3>4. CASE sc' = [sc EXCEPT !.at = "adding", !.left = sc.target - workers]
                 /\ workers < sc.target
        BY <3>2, <3>4 DEF ScOK
      <3>5. CASE sc' = [sc EXCEPT !.at = "sleep", !.target = 0]
        BY <3>5 DEF ScOK
      <3> QED  BY <2>2, <3>3, <3>4, <3>5 DEF adjustWorkers
    <2>3. CASE ScaleStop
      BY <2>3 DEF ScaleStop, ScOK
    <2> QED  BY <2>1, <2>2, <2>3, <2>4 DEF Scaler
  <1>j. JoinOK'
    BY DEF Scaler, ScaleTick, ScaleLook, adjustWorkers, ScaleStop, AddWorker, JoinOK, wg
  <1>6. TypeOK' <=> (PlainOK /\ CountOK /\ SubOK /\ StOK /\ WkOK /\ BootOK /\ ScOK /\ ShOK
                      /\ JoinOK)'
    BY TypeParts, PTL
  <1> QED  BY <1>2, <1>3, <1>4, <1>6, <1>j

(* The joiner's step touches nothing but itself. *)
LEMMA JoinStays ==
  ASSUME Join
  PROVE  /\ UNCHANGED status /\ UNCHANGED stopped /\ UNCHANGED ctxDone /\ UNCHANGED ticker
         /\ UNCHANGED queue /\ UNCHANGED workers /\ UNCHANGED active /\ UNCHANGED idle
         /\ UNCHANGED counts /\ UNCHANGED QueuedTasks /\ UNCHANGED sub /\ UNCHANGED st
         /\ UNCHANGED done /\ UNCHANGED wk /\ UNCHANGED boot /\ UNCHANGED sc /\ UNCHANGED sh
  BY DEF Join, counts, handles

LEMMA JoinTypes ==
  ASSUME TypeOK, Join
  PROVE  TypeOK'
  <1> USE TypeParts
  <1>1. PlainOK' /\ CountOK' /\ SubOK' /\ StOK' /\ WkOK' /\ BootOK' /\ ScOK' /\ ShOK'
    BY JoinStays DEF PlainOK, CountOK, SubOK, StOK, WkOK, BootOK, ScOK, ShOK
  <1>j. JoinOK'
    BY DEF Join, JoinOK
  <1>6. TypeOK' <=> (PlainOK /\ CountOK /\ SubOK /\ StOK /\ WkOK /\ BootOK /\ ScOK /\ ShOK
                      /\ JoinOK)'
    BY TypeParts, PTL
  <1> QED  BY <1>1, <1>j, <1>6

LEMMA TypeKept ==
  ASSUME TypeOK, CountsSum, [Next]_vars
  PROVE  TypeOK'
  <1>1. CASE UNCHANGED vars
    BY <1>1 DEF vars, counts, handles, wg, TypeOK
  <1> QED  BY <1>1, StepCases, StarterTypes, ScalerTypes, TaskTypes, WorkTypes, ShutTypes, JoinTypes

-----------------------------------------------------------------------------
(* Where the tasks are                                                     *)

Known == {"meter", "look", "size", "add", "returned"}

(* Every worker keeps its task, or its lack of one. *)
Walks ==
    \A v \in Workers :
       wk'[v].task = wk[v].task /\ (wk'[v].at \in Busy <=> wk[v].at \in Busy)

OthersStay(w) == \A v \in Workers \ {w} : wk'[v] = wk[v]

Takes(w) ==
    \E t \in queue : /\ wk[w].at = "dequeue" /\ wk'[w].at = "occupy" /\ wk'[w].task = t
                     /\ queue' = queue \ {t} /\ done' = done

Finishes(w) ==
    /\ wk[w].at = "run" /\ wk'[w].at = "release" /\ wk'[w].task = None
    /\ queue' = queue /\ done' = [done EXCEPT ![wk[w].task] = TRUE]

LEMMA WorkMoves ==
  ASSUME TypeOK, NEW w \in Workers, Work(w)
  PROVE  /\ sub' = sub /\ sh' = sh /\ status' = status /\ stopped' = stopped /\ OthersStay(w)
         /\ joiner' \in {joiner, "freeing"}
         /\ Takes(w) \/ Finishes(w) \/ (Walks /\ queue' = queue /\ done' = done)
  <1> USE TypeParts
  <1>1. sub' = sub /\ sh' = sh /\ status' = status /\ stopped' = stopped
        /\ joiner' \in {joiner, "freeing"}
    BY DEF Work, Check, Dequeue, Wait, Occupy, setRunning, taskStarted, setCompleted, Release,
           ExitLook, ExitCount, Done, wg
  <1>2. OthersStay(w)
    BY DEF Work, Check, Dequeue, Wait, Occupy, setRunning, taskStarted, setCompleted, Release,
           ExitLook, ExitCount, Done, OthersStay, WkOK, Goto
  <1>3. CASE Dequeue(w)
    <2>1. CASE queue = {} /\ UNCHANGED queue /\ Goto(w, IF Leaving THEN "exit" ELSE "wait")
      <3>1. Walks
        BY <1>3, <2>1 DEF Dequeue, Walks, Goto, At, WkOK, Busy
      <3>2. done' = done /\ queue' = queue
        BY <1>3, <2>1 DEF Dequeue, handles
      <3> QED  BY <1>1, <1>2, <3>1, <3>2
    <2>2. CASE \E t \in Best(queue) : /\ queue' = queue \ {t}
                                      /\ wk' = [wk EXCEPT ![w] = [at |-> "occupy", task |-> t]]
      <3>1. Takes(w)
        BY <1>3, <2>2 DEF Dequeue, Takes, At, WkOK, Best, handles
      <3> QED  BY <1>1, <1>2, <3>1
    <2>3. \/ queue = {} /\ UNCHANGED queue /\ Goto(w, IF Leaving THEN "exit" ELSE "wait")
          \/ \E t \in Best(queue) : /\ queue' = queue \ {t}
                                    /\ wk' = [wk EXCEPT ![w] = [at |-> "occupy", task |-> t]]
      BY <1>3 DEF Dequeue
    <2>4. Takes(w) \/ Finishes(w) \/ (Walks /\ queue' = queue /\ done' = done)
      BY <1>3, <2>1, <2>2, <2>3
    <2> QED  BY <1>1, <1>2, <2>4
  <1>4. CASE setCompleted(w)
    <2>1. Finishes(w)
      BY <1>4 DEF setCompleted, Finishes, At, WkOK
    <2> QED  BY <1>1, <1>2, <2>1
  <1>5. CASE ~Dequeue(w) /\ ~setCompleted(w)
    <2>1. queue' = queue /\ done' = done
      BY <1>5 DEF Work, Check, Wait, Occupy, setRunning, taskStarted, Release, ExitLook,
                  ExitCount, Done, handles
    <2>2. Walks
      BY <1>5 DEF Work, Check, Wait, Occupy, setRunning, taskStarted, Release, ExitLook,
                  ExitCount, Done, Walks, Goto, At, WkOK, Busy
    <2> QED  BY <1>1, <1>2, <2>1, <2>2
  <1> QED  BY <1>3, <1>4, <1>5

(* Where the workers and the queue stay as they are, so do the tasks, for  *)
(* no Submit and no handle ever goes back.                                 *)
LEMMA PlaceWalks ==
  ASSUME HandsInv, PlaceInv, Walks, queue' = queue,
         \A t \in Tasks : Accepted(t)' <=> Accepted(t),
         \A t \in Tasks : done[t] => done'[t],
         \A v \in Workers : wk[v].task \in Tasks \cup {None}, queue \in SUBSET Tasks
  PROVE  HandsInv' /\ PlaceInv'
  <1>1. HandsInv'
    BY DEF HandsInv, Walks
  <1>2. PlaceInv'
    <2>1. \A v \in Workers : wk[v].task # None => wk[v].task \in Tasks
      OBVIOUS
    <2>2. \A v \in Workers : wk[v].task # None =>
                wk[v].task \notin queue /\ sub'[wk[v].task] \in Known
      BY <2>1 DEF PlaceInv, Accepted, Known
    <2>3. \A v \in Workers : wk'[v].task # None =>
                wk'[v].task \notin queue' /\ sub'[wk'[v].task] \in Known
      BY <2>2 DEF Walks
    <2>4. \A t \in queue' : Accepted(t)'
      BY DEF PlaceInv
    <2>5. ASSUME NEW t \in Tasks, Accepted(t)'
          PROVE  t \in queue' \/ (\E v \in Workers : wk'[v].task = t) \/ done'[t]
      BY <2>5 DEF PlaceInv, Walks
    <2> QED  BY <2>3, <2>4, <2>5 DEF PlaceInv, Accepted, Known
  <1> QED  BY <1>1, <1>2

LEMMA WorkPlaces ==
  ASSUME TypeOK, HandsInv, PlaceInv, NEW w \in Workers, Work(w)
  PROVE  HandsInv' /\ PlaceInv'
  <1> USE TypeParts, Constants
  <1>1. \A t : Accepted(t)' <=> Accepted(t)
    BY WorkMoves DEF Accepted
  <1>2. CASE Takes(w)
    <2>1. PICK t \in queue : /\ wk[w].at = "dequeue" /\ wk'[w].at = "occupy" /\ wk'[w].task = t
                             /\ queue' = queue \ {t} /\ done' = done
      BY <1>2 DEF Takes
    <2>2. t \in Tasks /\ t # None
      BY DEF PlainOK
    <2>3. wk[w].task = None
      BY <2>1 DEF HandsInv, Busy
    <2>4. \A v \in Workers : wk[v].task # t
      BY <2>2 DEF PlaceInv
    <2>5. \A v \in Workers : v # w => wk'[v].at = wk[v].at /\ wk'[v].task = wk[v].task
      BY WorkMoves DEF OthersStay
    <2>8. Accepted(t)
      BY DEF PlaceInv
    <2>6. HandsInv'
      BY <2>1, <2>2, <2>4, <2>5 DEF HandsInv, Busy
    <2>7. PlaceInv'
      <3>1. \A v \in Workers : wk'[v].task # None =>
                  wk'[v].task \notin queue' /\ sub'[wk'[v].task] \in Known
        BY WorkMoves, <2>1, <2>2, <2>5, <2>8 DEF PlaceInv, Accepted, Known
      <3>2. \A u \in queue' : Accepted(u)'
        BY <1>1, <2>1 DEF PlaceInv
      <3>3. ASSUME NEW u \in Tasks, Accepted(u)'
            PROVE  u \in queue' \/ (\E v \in Workers : wk'[v].task = u) \/ done'[u]
        <4>1. CASE u = t
          BY <2>1, <4>1
        <4>2. CASE u # t
          BY <1>1, <2>1, <2>2, <2>3, <2>5, <3>3, <4>2 DEF PlaceInv
        <4> QED  BY <4>1, <4>2
      <3> QED  BY <3>1, <3>2, <3>3 DEF PlaceInv, Accepted, Known
    <2> QED  BY <2>6, <2>7
  <1>3. CASE Finishes(w)
    <2>1. /\ wk[w].at = "run" /\ wk'[w].at = "release" /\ wk'[w].task = None
          /\ queue' = queue /\ done' = [done EXCEPT ![wk[w].task] = TRUE]
      BY <1>3 DEF Finishes
    <2>2. \A v \in Workers : v # w => wk'[v].at = wk[v].at /\ wk'[v].task = wk[v].task
      BY WorkMoves DEF OthersStay
    <2>3. HandsInv'
      BY <2>1, <2>2 DEF HandsInv, Busy
    <2>4. PlaceInv'
      <3>1. \A v \in Workers : wk'[v].task # None =>
                  wk'[v].task \notin queue' /\ sub'[wk'[v].task] \in Known
        BY WorkMoves, <2>1, <2>2 DEF PlaceInv, Accepted, Known
      <3>2. \A u \in queue' : Accepted(u)'
        BY <1>1, <2>1 DEF PlaceInv
      <3>3. ASSUME NEW u \in Tasks, Accepted(u)'
            PROVE  u \in queue' \/ (\E v \in Workers : wk'[v].task = u) \/ done'[u]
        <4>1. CASE u = wk[w].task
          BY <2>1, <4>1 DEF StOK
        <4>2. CASE u # wk[w].task
          <5>1. u \in queue \/ (\E v \in Workers : wk[v].task = u) \/ done[u]
            BY <1>1, <3>3 DEF PlaceInv
          <5> QED  BY <2>1, <2>2, <4>2, <5>1 DEF StOK
        <4> QED  BY <4>1, <4>2
      <3> QED  BY <3>1, <3>2, <3>3 DEF PlaceInv, Accepted, Known
    <2> QED  BY <2>3, <2>4
  <1>4. CASE Walks /\ queue' = queue /\ done' = done
    <2>1. (\A v \in Workers : wk[v].task \in Tasks \cup {None}) /\ queue \in SUBSET Tasks
      BY DEF WkOK, PlainOK
    <2> QED  BY <1>1, <1>4, <2>1, PlaceWalks
  <1> QED  BY <1>2, <1>3, <1>4, WorkMoves

LEMMA AddWalks ==
  ASSUME WkOK, AddWorker \/ UNCHANGED wk
  PROVE  Walks
  <1>1. CASE AddWorker
    <2>1. PICK w \in Workers : wk[w].at = "off" /\ Goto(w, "check")
      BY <1>1, AddMoves
    <2> QED  BY <2>1, GotoMoves DEF Spots, Walks, Busy
  <1>2. CASE UNCHANGED wk
    BY <1>2 DEF Walks
  <1> QED  BY <1>1, <1>2

(* Start, the scaler and Shutdown touch neither tasks nor queue. *)
LEMMA OthersPlaces ==
  ASSUME TypeOK, HandsInv, PlaceInv,
         Starter \/ Scaler \/ Join \/ (\E a \in Admins : ShutStep(a))
  PROVE  HandsInv' /\ PlaceInv' /\ sub' = sub /\ queue' = queue /\ done' = done
  <1> USE TypeParts
  <1>1. sub' = sub /\ queue' = queue /\ done' = done /\ (AddWorker \/ UNCHANGED wk)
    <2>1. CASE Starter
      BY <2>1 DEF Starter, StartBegin, StartAdd, StartEnd, handles
    <2>2. CASE Scaler
      BY <2>2 DEF Scaler, ScaleTick, ScaleLook, adjustWorkers, ScaleStop, handles
    <2>3. CASE \E a \in Admins : ShutStep(a)
      BY <2>3 DEF ShutStep, ShutBegin, InShutdown, ShutTicker, ShutDrain, ShutStop, ShutJoin,
                  ShutEnd, ShutGiveUp, handles
    <2>4. CASE Join
      BY <2>4, JoinStays
    <2> QED  BY <2>1, <2>2, <2>3, <2>4
  <1>2. Walks
    BY <1>1, AddWalks
  <1>3. (\A v \in Workers : wk[v].task \in Tasks \cup {None}) /\ queue \in SUBSET Tasks
    BY DEF WkOK, PlainOK
  <1>4. \A t \in Tasks : (Accepted(t)' <=> Accepted(t)) /\ (done[t] => done'[t])
    BY <1>1 DEF Accepted
  <1> QED  BY <1>1, <1>2, <1>3, <1>4, PlaceWalks

(* What a Submit changes: its own task, and the queue if it enqueues.      *)
LEMMA TaskMoves ==
  ASSUME TypeOK, NEW t \in Tasks, TaskStep(t)
  PROVE  /\ sh' = sh /\ status' = status /\ stopped' = stopped /\ joiner' = joiner
         /\ Walks
         /\ \A u \in Tasks : u # t => sub'[u] = sub[u]
         /\ \A u \in Tasks : done[u] => done'[u]
         /\ sub[t] = "returned" => sub'[t] = "returned" /\ queue' = queue
         /\ \/ /\ sub[t] = "enqueue" /\ sub'[t] = "meter" /\ queue' = queue \cup {t}
               /\ done' = done
            \/ queue' = queue /\ (sub'[t] \in Known <=> sub[t] \in Known)
  <1> USE TypeParts
  <1>1. sh' = sh /\ status' = status /\ stopped' = stopped /\ joiner' = joiner
        /\ (AddWorker \/ UNCHANGED wk)
    BY DEF TaskStep, Submit, InSubmit, Enqueue, taskSubmitted, Look, tryAddWorker, Cancel,
           AddWorker, wg
  <1>2. Walks
    BY <1>1, AddWalks
  <1>3. \A u \in Tasks : u # t => sub'[u] = sub[u]
    BY DEF TaskStep, Submit, InSubmit, Enqueue, taskSubmitted, Look, tryAddWorker, Cancel, SubAt,
           SubOK
  <1>4. \A u \in Tasks : done[u] => done'[u]
    BY DEF TaskStep, Submit, InSubmit, Enqueue, taskSubmitted, Look, tryAddWorker, Cancel,
           handles, StOK
  <1>5. CASE Enqueue(t)
    BY <1>1, <1>2, <1>3, <1>4, <1>5 DEF Enqueue, SubAt, SubOK, handles
  <1>6. CASE ~Enqueue(t)
    <2>1. /\ queue' = queue /\ (sub'[t] \in Known <=> sub[t] \in Known)
          /\ sub[t] = "returned" => sub'[t] = "returned"
      BY <1>6 DEF TaskStep, Submit, InSubmit, taskSubmitted, Look, tryAddWorker, Cancel, SubAt,
                  SubOK, Known
    <2> QED  BY <1>1, <1>2, <1>3, <1>4, <2>1
  <1> QED  BY <1>5, <1>6

LEMMA TaskPlaces ==
  ASSUME TypeOK, HandsInv, PlaceInv, NEW t \in Tasks, TaskStep(t)
  PROVE  HandsInv' /\ PlaceInv'
  <1> USE TypeParts, Constants
  <1>1. (\A v \in Workers : wk[v].task \in Tasks \cup {None}) /\ queue \in SUBSET Tasks
    BY DEF WkOK, PlainOK
  <1>2. CASE sub[t] = "enqueue" /\ sub'[t] = "meter" /\ queue' = queue \cup {t} /\ done' = done
    <2>1. ~Accepted(t)
      BY <1>2 DEF Accepted
    <2>2. \A v \in Workers : wk'[v].task = wk[v].task
      BY TaskMoves DEF Walks
    <2>3. HandsInv'
      BY TaskMoves DEF HandsInv, Walks
    <2>4. \A u \in Tasks : u # t => sub'[u] = sub[u]
      BY TaskMoves
    <2>5. ASSUME NEW v \in Workers, wk'[v].task # None
          PROVE  wk'[v].task \notin queue' /\ sub'[wk'[v].task] \in Known
      <3>1. /\ wk[v].task \notin queue /\ Accepted(wk[v].task)
            /\ wk[v].task # t /\ wk[v].task \in Tasks
        BY <1>1, <2>1, <2>2, <2>5 DEF PlaceInv
      <3> QED  BY <1>2, <2>2, <2>4, <3>1 DEF Accepted, Known
    <2>6. \A u \in queue' : sub'[u] \in Known
      BY <1>1, <1>2, <2>4 DEF PlaceInv, Accepted, Known
    <2>7. ASSUME NEW u \in Tasks, sub'[u] \in Known
          PROVE  u \in queue' \/ (\E v \in Workers : wk'[v].task = u) \/ done'[u]
      BY <1>2, <2>2, <2>4, <2>7 DEF PlaceInv, Accepted, Known
    <2>8. PlaceInv'
      BY <2>5, <2>6, <2>7 DEF PlaceInv, Accepted, Known
    <2> QED  BY <2>3, <2>8
  <1>3. CASE queue' = queue /\ (sub'[t] \in Known <=> sub[t] \in Known)
    <2>1. ASSUME NEW u \in Tasks  PROVE Accepted(u)' <=> Accepted(u)
      BY <1>3, TaskMoves DEF Accepted, Known
    <2>2. \A u \in Tasks : done[u] => done'[u]
      BY TaskMoves
    <2>3. Walks
      BY TaskMoves
    <2> QED  BY <1>1, <1>3, <2>1, <2>2, <2>3, PlaceWalks
  <1> QED  BY <1>2, <1>3, TaskMoves

LEMMA PlacesKept ==
  ASSUME TypeOK, HandsInv, PlaceInv, [Next]_vars
  PROVE  HandsInv' /\ PlaceInv'
  <1>1. CASE UNCHANGED vars
    BY <1>1 DEF vars, counts, handles, HandsInv, PlaceInv, Accepted
  <1> QED  BY <1>1, StepCases, OthersPlaces, TaskPlaces, WorkPlaces

-----------------------------------------------------------------------------
(* How far a Shutdown is                                                   *)

LEMMA ShutKept ==
  ASSUME TypeOK, HandsInv, PlaceInv, StopInv, DrainInv, NEW a \in Admins, ShutStep(a)
  PROVE  StopInv' /\ DrainInv'
  <1> USE TypeParts
  <1>1. sub' = sub /\ queue' = queue /\ done' = done
    BY OthersPlaces
  <1>2. \A b \in Admins : b # a => sh'[b] = sh[b]
    BY DEF ShutStep, ShutBegin, InShutdown, ShutTicker, ShutDrain, ShutStop, ShutJoin, ShutEnd,
           ShutGiveUp, ShutAt, ShOK
  <1>3. CASE ShutBegin(a)
    <2>j. joiner' = joiner
      BY <1>3 DEF ShutBegin, wg
    <2>1. CASE sh'[a].at = "refused" /\ sh'[a].owed = sh[a].owed /\ UNCHANGED status
      BY <1>1, <1>2, <1>3, <2>1, <2>j DEF ShutBegin, StopInv, DrainInv, Open, InShut
    <2>2. CASE /\ status \in {"Idle", "Running"} /\ status' = "ShuttingDown"
               /\ sh'[a].at = "ticker" /\ sh'[a].owed = {t \in Tasks : sub[t] = "returned"}
      <3>1. stopped' = stopped /\ ~stopped /\ \A b \in Admins : sh[b].at \notin InShut
        BY <1>3, <2>2 DEF ShutBegin, StopInv
      <3> QED  BY <1>1, <1>2, <2>2, <2>j, <3>1 DEF StopInv, DrainInv, Open, InShut
    <2> QED  BY <1>3, <2>1, <2>2 DEF ShutBegin, ShOK
  <1>4. CASE ~ShutBegin(a)
    <2>1. sh'[a].owed = sh[a].owed
      BY <1>4 DEF ShutStep, InShutdown, ShutTicker, ShutDrain, ShutStop, ShutJoin, ShutEnd,
                  ShutGiveUp, ShutAt, ShOK
    <2>2. StopInv'
      <3>1. /\ sh[a].at \in InShut /\ status' \in {status, "Stopped"}
            /\ sh'[a].at \in InShut \cup {"ok", "failed"}
            /\ sh'[a].at \in InShut => status' = status
            /\ sh'[a].at \in Open => sh[a].at \in Open /\ stopped' = stopped
        BY <1>4 DEF ShutStep, InShutdown, ShutTicker, ShutDrain, ShutStop, ShutJoin, ShutEnd,
                    ShutGiveUp, ShutAt, ShOK, Open, InShut
      <3> QED  BY <1>2, <3>1 DEF StopInv, InShut, Open
    <2>3. CASE ShutJoin(a)
      <3>1. sh[a].at = "join" /\ sh'[a].at = "joined" /\ joiner = "closed" /\ joiner' = joiner
        BY <2>3 DEF ShutJoin, ShutAt, ShOK, wg
      <3>2. DrainInv'
        BY <1>1, <1>2, <2>1, <3>1 DEF DrainInv
      <3> QED  BY <2>2, <3>2
    <2>4. CASE ShutStop(a)
      <3>1. sh[a].at = "stop" /\ sh'[a].at = "join" /\ joiner' = "ask"
        BY <2>4 DEF ShutStop, ShutAt, ShOK
      <3>2. DrainInv'
        BY <1>1, <1>2, <2>1, <3>1 DEF DrainInv
      <3> QED  BY <2>2, <3>2
    <2>5. CASE ~ShutJoin(a) /\ ~ShutStop(a)
      <3>1. /\ sh'[a].at = "stop" => sh[a].at = "stop" \/ queue = {}
            /\ sh'[a].at # "join" /\ joiner' = joiner
            /\ sh'[a].at \in {"joined", "ok"} => sh[a].at \in {"joined", "ok"}
        BY <1>4, <2>5 DEF ShutStep, InShutdown, ShutTicker, ShutDrain, ShutEnd, ShutGiveUp,
                    ShutAt, ShOK, wg
      <3>2. DrainInv'
        BY <1>1, <1>2, <2>1, <3>1 DEF DrainInv
      <3> QED  BY <2>2, <3>2
    <2> QED  BY <2>3, <2>4, <2>5
  <1> QED  BY <1>3, <1>4

LEMMA StagesKept ==
  ASSUME TypeOK, HandsInv, PlaceInv, StopInv, DrainInv, [Next]_vars
  PROVE  StopInv' /\ DrainInv'
  <1> USE TypeParts
  <1>1. CASE UNCHANGED vars
    BY <1>1 DEF vars, counts, handles, wg, StopInv, DrainInv, Open, InShut
  <1>2. CASE Starter
    <2>1. sub' = sub /\ queue' = queue /\ done' = done
      BY <1>2, OthersPlaces
    <2>2. sh' = sh /\ joiner' = joiner
      BY <1>2 DEF Starter, StartBegin, StartAdd, StartEnd, AddWorker, wg
    <2>3. \/ status' = status /\ stopped' = stopped
          \/ status \in {"Idle", "Stopped"} /\ status' = "Running" /\ ~stopped'
      BY <1>2 DEF Starter, StartBegin, StartAdd, StartEnd
    <2> QED  BY <2>1, <2>2, <2>3 DEF StopInv, DrainInv
  <1>3. CASE Scaler
    <2>1. sub' = sub /\ queue' = queue /\ done' = done
      BY <1>3, OthersPlaces
    <2>2. sh' = sh /\ status' = status /\ stopped' = stopped /\ joiner' = joiner
      BY <1>3 DEF Scaler, ScaleTick, ScaleLook, adjustWorkers, ScaleStop, AddWorker, wg
    <2> QED  BY <2>1, <2>2 DEF StopInv, DrainInv
  <1>4. ASSUME NEW t \in Tasks, TaskStep(t)
        PROVE  StopInv' /\ DrainInv'
    <2>1. sh' = sh /\ status' = status /\ stopped' = stopped /\ joiner' = joiner
      BY <1>4, TaskMoves
    <2>2. ASSUME NEW a \in Admins, NEW u \in sh[a].owed
          PROVE  sub'[u] = sub[u] /\ (u \in queue' => u \in queue) /\ (done[u] => done'[u])
      <3>1. u \in Tasks /\ sub[u] = "returned"
        BY DEF DrainInv, ShOK
      <3> QED  BY <1>4, <3>1, TaskMoves
    <2>3. StopInv'
      BY <2>1 DEF StopInv
    <2>4. DrainInv'
      BY <2>1, <2>2 DEF DrainInv
    <2> QED  BY <2>3, <2>4
  <1>5. ASSUME NEW w \in Workers, Work(w)
        PROVE  StopInv' /\ DrainInv'
    <2>1. sub' = sub /\ sh' = sh /\ status' = status /\ stopped' = stopped
          /\ joiner' \in {joiner, "freeing"}
      BY <1>5, WorkMoves
    <2>2. queue' \subseteq queue /\ \A u \in Tasks : done[u] => done'[u]
      BY <1>5, WorkMoves DEF Takes, Finishes, StOK
    <2>3. \A a \in Admins : sh[a].owed \subseteq Tasks
      BY DEF ShOK
    <2>4. StopInv'
      BY <2>1 DEF StopInv
    <2>5. DrainInv'
      BY <2>1, <2>2, <2>3 DEF DrainInv
    <2> QED  BY <2>4, <2>5
  <1>6. CASE Join
    <2>1. /\ sub' = sub /\ queue' = queue /\ done' = done /\ sh' = sh /\ status' = status
          /\ stopped' = stopped
      BY <1>6, JoinStays
    <2>2. StopInv'
      BY <2>1 DEF StopInv
    <2>3. ASSUME NEW a \in Admins, NEW t \in sh[a].owed, sh[a].at = "join", joiner' = "closed"
          PROVE  done[t]
      <3>1. CASE joiner = "closed"
        BY <2>3, <3>1 DEF DrainInv
      <3>2. CASE joiner # "closed"
        <4>1. \A w \in Workers : wk[w].task = None
          BY <1>6, <2>3, <3>2 DEF Join, NobodyCounts, At, HandsInv, Busy
        <4>2. t \in Tasks /\ sub[t] = "returned" /\ t \notin queue
          BY <2>3 DEF DrainInv, ShOK
        <4>3. Accepted(t)
          BY <4>2 DEF Accepted
        <4>4. \A w \in Workers : wk[w].task # t
          BY <4>1, <4>2, Constants
        <4> QED  BY <4>2, <4>3, <4>4 DEF PlaceInv
      <3> QED  BY <3>1, <3>2
    <2> QED  BY <2>1, <2>2, <2>3 DEF DrainInv
  <1> QED  BY <1>1, <1>2, <1>3, <1>4, <1>5, <1>6, StepCases, ShutKept

-----------------------------------------------------------------------------
(* Counting                                                                *)
Bit(x, S) == IF x \in S THEN 1 ELSE 0

(* A set that changes at most by x changes in size by whether x is in it.  *)
LEMMA CardMove ==
  ASSUME NEW S, NEW T, NEW x, IsFiniteSet(S), S \ {x} = T \ {x}
  PROVE  /\ Cardinality(S) \in Nat /\ Cardinality(T) \in Nat
         /\ Cardinality(T) = Cardinality(S) + (Bit(x, T) - Bit(x, S))
  <1>1. IsFiniteSet(S \ {x}) /\ Cardinality(S \ {x}) = Cardinality(S) - Bit(x, S)
        /\ Cardinality(S) \in Nat
    BY FS_CardinalityType, FS_RemoveElement DEF Bit
  <1>2. CASE x \in T
    <2>1. T = (S \ {x}) \cup {x}
      BY <1>2
    <2>2. IsFiniteSet(T) /\ Cardinality(T) = Cardinality(S \ {x}) + 1
      BY <1>1, <2>1, FS_AddElement
    <2> QED  BY <1>1, <1>2, <2>2, FS_CardinalityType DEF Bit
  <1>3. CASE x \notin T
    <2>1. T = S \ {x}
      BY <1>3
    <2> QED  BY <1>1, <1>3, <2>1, FS_CardinalityType DEF Bit
  <1> QED  BY <1>2, <1>3

LEMMA CountedFinite ==
  ASSUME PlainOK
  PROVE  /\ IsFiniteSet(Counted) /\ IsFiniteSet(Alive) /\ IsFiniteSet(Unmeters)
         /\ IsFiniteSet(Metered) /\ IsFiniteSet(queue)
         /\ Cardinality(Counted) \in Nat /\ Cardinality(Alive) \in Nat
         /\ Cardinality(Unmeters) \in Nat /\ Cardinality(Metered) \in Nat
         /\ Cardinality(queue) \in Nat
  <1>1. /\ Counted \subseteq Workers /\ Alive \subseteq Workers /\ Unmeters \subseteq Workers
        /\ Metered \subseteq Tasks /\ queue \subseteq Tasks
    BY DEF Counted, Alive, Unmeters, Metered, Where, PlainOK
  <1>2. /\ IsFiniteSet(Counted) /\ IsFiniteSet(Alive) /\ IsFiniteSet(Unmeters)
        /\ IsFiniteSet(Metered) /\ IsFiniteSet(queue)
    BY <1>1, Constants, FS_Subset
  <1> QED  BY <1>2, FS_CardinalityType

(* A worker's move changes the counted sets by that worker.                *)
LEMMA WorkerMoves ==
  ASSUME PlainOK, NEW w \in Workers, \A v \in Workers : v # w => wk'[v].at = wk[v].at
  PROVE  /\ Cardinality(Counted') = Cardinality(Counted) + (Bit(w, Counted') - Bit(w, Counted))
         /\ Cardinality(Alive') = Cardinality(Alive) + (Bit(w, Alive') - Bit(w, Alive))
         /\ Cardinality(Unmeters')
               = Cardinality(Unmeters) + (Bit(w, Unmeters') - Bit(w, Unmeters))
  <1>1. Counted' \ {w} = Counted \ {w} /\ Alive' \ {w} = Alive \ {w}
        /\ Unmeters' \ {w} = Unmeters \ {w}
    BY DEF Counted, Alive, Unmeters, Where
  <1> QED  BY <1>1, CountedFinite, CardMove

(* AddWorker counts the goroutine that it starts.                          *)
LEMMA AddCounts ==
  ASSUME TypeOK, CountsSum, AddWorker
  PROVE  CountsSum' /\ Cardinality(Unmeters') = Cardinality(Unmeters)
  <1> USE TypeParts
  <1>1. PICK w \in Workers : wk[w].at = "off" /\ Goto(w, "check")
    BY AddMoves
  <1>2. \A v \in Workers : wk'[v].at = IF v = w THEN "check" ELSE wk[v].at
    BY <1>1, GotoMoves DEF Spots
  <1>3. /\ Bit(w, Counted) = 0 /\ Bit(w, Counted') = 1 /\ Bit(w, Alive) = 0 /\ Bit(w, Alive') = 1
        /\ Bit(w, Unmeters) = 0 /\ Bit(w, Unmeters') = 0
    BY <1>1, <1>2 DEF Bit, Counted, Alive, Unmeters, Where
  <1>4. /\ Cardinality(Counted') = Cardinality(Counted) + 1
        /\ Cardinality(Alive') = Cardinality(Alive) + 1
        /\ Cardinality(Unmeters') = Cardinality(Unmeters)
    BY <1>2, <1>3, WorkerMoves, CountedFinite
  <1>5. workers' = workers + 1 /\ idle' = idle + 1 /\ active' = active
    BY DEF AddWorker
  <1> QED  BY <1>4, <1>5, CountedFinite DEF CountsSum, Counted, Alive, CountOK

(* Where no worker moves and nobody counts, the sums stay.                 *)
LEMMA CountsStay ==
  ASSUME CountsSum, UNCHANGED wk, workers' = workers, active' + idle' = active + idle
  PROVE  CountsSum' /\ Cardinality(Unmeters') = Cardinality(Unmeters)
  BY DEF CountsSum, Unmeters, Where

LEMMA WorkCounts ==
  ASSUME TypeOK, CountsSum, NEW w \in Workers, Work(w)
  PROVE  CountsSum'
  <1> USE TypeParts
  <1>1. \A v \in Workers : v # w => wk'[v].at = wk[v].at
    BY WorkMoves DEF OthersStay
  <1>2. /\ Cardinality(Counted') = Cardinality(Counted) + (Bit(w, Counted') - Bit(w, Counted))
        /\ Cardinality(Alive') = Cardinality(Alive) + (Bit(w, Alive') - Bit(w, Alive))
        /\ Cardinality(Counted) \in Nat /\ Cardinality(Alive) \in Nat
    BY <1>1, WorkerMoves, CountedFinite
  <1>3. /\ workers = Cardinality(Counted) /\ active + idle = Cardinality(Alive)
        /\ CountsSum' <=> workers' = Cardinality(Counted') /\ active' + idle' = Cardinality(Alive')
    BY DEF CountsSum, Counted, Alive, Where
  <1>4. workers \in Nat /\ active \in Int /\ idle \in Int
    BY DEF CountOK
  <1>5. CASE Occupy(w)
    <2>1. wk[w].at = "occupy" /\ wk'[w].at = "start"
      BY <1>5 DEF Occupy, At, Goto, WkOK
    <2>2. Bit(w, Counted') = Bit(w, Counted) /\ Bit(w, Alive') = Bit(w, Alive)
          /\ Bit(w, Alive) \in Int /\ Bit(w, Counted) \in Int
      BY <2>1 DEF Bit, Counted, Alive, Where
    <2>3. workers' = workers /\ active' = active + 1 /\ idle' = idle - 1
      BY <1>5 DEF Occupy
    <2> QED  BY <1>2, <1>3, <1>4, <2>2, <2>3
  <1>6. CASE Release(w)
    <2>1. wk[w].at = "release" /\ wk'[w].at = "check"
      BY <1>6 DEF Release, At, Goto, WkOK
    <2>2. Bit(w, Counted') = Bit(w, Counted) /\ Bit(w, Alive') = Bit(w, Alive)
          /\ Bit(w, Alive) \in Int /\ Bit(w, Counted) \in Int
      BY <2>1 DEF Bit, Counted, Alive, Where
    <2>3. workers' = workers /\ active' = active - 1 /\ idle' = idle + 1
      BY <1>6 DEF Release
    <2> QED  BY <1>2, <1>3, <1>4, <2>2, <2>3
  <1>7. CASE ExitLook(w)
    <2>1. wk[w].at = "exit"
      BY <1>7 DEF ExitLook, At
    <2>2. w \in Alive
      BY <2>1 DEF Alive, Where
    <2>3. active > 0 \/ idle > 0
      <3>1. Cardinality(Alive) # 0
        BY <2>2, CountedFinite, FS_EmptySet
      <3> QED  BY <1>2, <1>3, <1>4, <3>1
    <2>4. wk'[w].at \in {"exit:active", "exit:idle"}
      BY <1>7, <2>3 DEF ExitLook, Goto, WkOK
    <2>5. Bit(w, Counted') = 0 /\ Bit(w, Counted) = 1 /\ Bit(w, Alive') = 1 /\ Bit(w, Alive) = 1
      BY <2>1, <2>4 DEF Bit, Counted, Alive, Where
    <2>6. workers' = workers - 1 /\ active' = active /\ idle' = idle
      BY <1>7 DEF ExitLook
    <2> QED  BY <1>2, <1>3, <1>4, <2>5, <2>6
  <1>8. CASE ExitCount(w)
    <2>1. wk[w].at \in {"exit:active", "exit:idle"} /\ wk'[w].at = "done"
      BY <1>8 DEF ExitCount, At, Goto, WkOK
    <2>2. Bit(w, Counted') = 0 /\ Bit(w, Counted) = 0 /\ Bit(w, Alive') = 0 /\ Bit(w, Alive) = 1
      BY <2>1 DEF Bit, Counted, Alive, Where
    <2>3. /\ workers' = workers
          /\ (active' = active - 1 /\ idle' = idle) \/ (active' = active /\ idle' = idle - 1)
      BY <1>8 DEF ExitCount
    <2> QED  BY <1>2, <1>3, <1>4, <2>2, <2>3
  <1>9. CASE ~Occupy(w) /\ ~Release(w) /\ ~ExitLook(w) /\ ~ExitCount(w)
    <2>1. workers' = workers /\ active' = active /\ idle' = idle
      BY <1>9 DEF Work, Check, Dequeue, Wait, setRunning, taskStarted, setCompleted, Done, counts
    <2>2. /\ (wk'[w].at \in {"off", "done"} <=> wk[w].at \in {"off", "done"})
          /\ wk[w].at \notin {"exit", "exit:active", "exit:idle"}
          /\ wk'[w].at \notin {"exit:active", "exit:idle"} /\ wk'[w].at \in Spots
      BY <1>9 DEF Work, Check, Dequeue, Wait, setRunning, taskStarted, setCompleted, Done,
                  At, Goto, WkOK, Spots
    <2>3. wk[w].at \in Spots
      BY DEF WkOK
    <2>4. Bit(w, Counted') = Bit(w, Counted) /\ Bit(w, Alive') = Bit(w, Alive)
          /\ Bit(w, Alive) \in Int /\ Bit(w, Counted) \in Int
      BY <2>2, <2>3 DEF Bit, Counted, Alive, Where, Spots
    <2> QED  BY <1>2, <1>3, <1>4, <2>1, <2>4
  <1> QED  BY <1>5, <1>6, <1>7, <1>8, <1>9

LEMMA SumsKept ==
  ASSUME TypeOK, CountsSum, [Next]_vars
  PROVE  CountsSum'
  <1>1. CASE UNCHANGED vars
    BY <1>1, CountsStay DEF vars, counts
  <1>2. ASSUME AddWorker \/ (UNCHANGED wk /\ UNCHANGED counts)
        PROVE  CountsSum'
    BY <1>2, AddCounts, CountsStay DEF counts
  <1>3. CASE Starter
    BY <1>2, <1>3 DEF Starter, StartBegin, StartAdd, StartEnd
  <1>4. CASE Scaler
    BY <1>2, <1>4 DEF Scaler, ScaleTick, ScaleLook, adjustWorkers, ScaleStop
  <1>5. CASE \E t \in Tasks : TaskStep(t)
    BY <1>2, <1>5 DEF TaskStep, Submit, InSubmit, Enqueue, taskSubmitted, Look, tryAddWorker, Cancel
  <1>6. CASE \E a \in Admins : ShutStep(a)
    BY <1>2, <1>6 DEF ShutStep, ShutBegin, InShutdown, ShutTicker, ShutDrain, ShutStop, ShutJoin,
                      ShutEnd, ShutGiveUp
  <1>7. CASE Join
    BY <1>2, <1>7, JoinStays
  <1> QED  BY <1>1, <1>3, <1>4, <1>5, <1>6, <1>7, WorkCounts, StepCases

(* QueuedTasks moves with the number it stands for, and may wrap.          *)
LEMMA WrapShift ==
  ASSUME WrapInv, NEW e \in {-1, 0, 1}, QueuedTasks \in 0..(Word - 1), Settling \in Int,
         Settling' = Settling + e, QueuedTasks' = (QueuedTasks + e) % Word
  PROVE  WrapInv'
  <1> DEFINE S == Settling
             T == Settling'
             q == QueuedTasks
             r == QueuedTasks'
  <1>1. PICK k \in Int : S = q + k * Word
    BY DEF WrapInv
  <1>2. /\ S \in Int /\ T = S + e /\ q \in 0..(Word - 1) /\ r = (q + e) % Word
        /\ Word \in Nat /\ Word > 0
    BY Constants
  <1>3. (q + 1) % Word = (IF q + 1 = Word THEN 0 ELSE q + 1)
        /\ (q - 1) % Word = (IF q = 0 THEN Word - 1 ELSE q - 1)
        /\ q % Word = q
    BY <1>2, Wraps
  <1>4. WrapInv' <=> \E j \in Int : T = r + j * Word
    BY DEF WrapInv
  <1> HIDE DEF S, T, q, r
  <1>5. \/ r = q + e /\ T = r + k * Word
        \/ e = 1 /\ r = 0 /\ T = r + (k + 1) * Word
        \/ e = -1 /\ r = Word - 1 /\ T = r + (k - 1) * Word
    BY <1>1, <1>2, <1>3
  <1> QED  BY <1>4, <1>5

LEMMA SettlingInt ==
  ASSUME PlainOK  PROVE Settling \in Int
  BY CountedFinite DEF Settling

LEMMA TaskWraps ==
  ASSUME TypeOK, PlaceInv, CountsSum, WrapInv, NEW t \in Tasks, TaskStep(t)
  PROVE  WrapInv'
  <1> USE TypeParts
  <1>1. QueuedTasks \in 0..(Word - 1) /\ Settling \in Int /\ QueuedTasks = (QueuedTasks + 0) % Word
    BY SettlingInt, Constants DEF CountOK
  <1>2. \A u \in Tasks : u # t => sub'[u] = sub[u]
    BY TaskMoves
  <1>3. Metered' \ {t} = Metered \ {t}
    BY <1>2 DEF Metered
  <1>4. /\ Cardinality(Metered') = Cardinality(Metered) + (Bit(t, Metered') - Bit(t, Metered))
        /\ Cardinality(Metered) \in Nat /\ Cardinality(queue) \in Nat
        /\ Cardinality(Unmeters) \in Nat
    BY <1>3, CountedFinite, CardMove
  <1>5. Cardinality(Unmeters') = Cardinality(Unmeters)
    <2>1. AddWorker \/ (UNCHANGED wk /\ UNCHANGED counts)
      BY DEF TaskStep, Submit, InSubmit, Enqueue, taskSubmitted, Look, tryAddWorker, Cancel
    <2> QED  BY <2>1, AddCounts, CountsStay DEF counts
  <1>6. Settling' = Cardinality(queue') + Cardinality(Unmeters') - Cardinality(Metered')
    BY DEF Settling
  <1>7. CASE Enqueue(t)
    <2>1. sub[t] = "enqueue" /\ sub'[t] = "meter" /\ queue' = queue \cup {t}
          /\ QueuedTasks' = QueuedTasks
      BY <1>7 DEF Enqueue, SubAt, SubOK
    <2>2. t \notin queue
      BY <2>1 DEF PlaceInv, Accepted
    <2>3. Cardinality(queue') = Cardinality(queue) + 1
      BY <2>1, <2>2, CountedFinite, FS_AddElement
    <2>4. Bit(t, Metered') = 1 /\ Bit(t, Metered) = 0
      BY <2>1 DEF Bit, Metered
    <2>5. Settling' = Settling + 0
      BY <1>4, <1>5, <1>6, <2>3, <2>4 DEF Settling
    <2> QED  BY <1>1, <2>1, <2>5, WrapShift
  <1>8. CASE taskSubmitted(t)
    <2>1. sub[t] = "meter" /\ sub'[t] = "look" /\ queue' = queue
          /\ QueuedTasks' = (QueuedTasks + 1) % Word
      BY <1>8 DEF taskSubmitted, SubAt, SubOK
    <2>2. Bit(t, Metered') = 0 /\ Bit(t, Metered) = 1
      BY <2>1 DEF Bit, Metered
    <2>3. Settling' = Settling + 1
      BY <1>4, <1>5, <1>6, <2>1, <2>2 DEF Settling
    <2> QED  BY <1>1, <2>1, <2>3, WrapShift
  <1>9. CASE ~Enqueue(t) /\ ~taskSubmitted(t)
    <2>1. sub[t] # "meter" /\ sub'[t] # "meter" /\ queue' = queue /\ QueuedTasks' = QueuedTasks
      BY <1>9 DEF TaskStep, Submit, InSubmit, Look, tryAddWorker, Cancel, SubAt, SubOK
    <2>2. Bit(t, Metered') = 0 /\ Bit(t, Metered) = 0
      BY <2>1 DEF Bit, Metered
    <2>3. Settling' = Settling + 0
      BY <1>4, <1>5, <1>6, <2>1, <2>2 DEF Settling
    <2> QED  BY <1>1, <2>1, <2>3, WrapShift
  <1> QED  BY <1>7, <1>8, <1>9

LEMMA WorkWraps ==
  ASSUME TypeOK, WrapInv, NEW w \in Workers, Work(w)
  PROVE  WrapInv'
  <1> USE TypeParts
  <1>1. QueuedTasks \in 0..(Word - 1) /\ Settling \in Int /\ QueuedTasks = (QueuedTasks + 0) % Word
    BY SettlingInt, Constants DEF CountOK
  <1>2. \A v \in Workers : v # w => wk'[v].at = wk[v].at
    BY WorkMoves DEF OthersStay
  <1>3. /\ Cardinality(Unmeters') = Cardinality(Unmeters) + (Bit(w, Unmeters') - Bit(w, Unmeters))
        /\ Cardinality(Metered) \in Nat /\ Cardinality(queue) \in Nat
        /\ Cardinality(Unmeters) \in Nat
    BY <1>2, CountedFinite, WorkerMoves
  <1>4. Metered' = Metered
    BY WorkMoves DEF Metered
  <1>5. Settling' = Cardinality(queue') + Cardinality(Unmeters') - Cardinality(Metered')
    BY DEF Settling
  <1>6. CASE Takes(w)
    <2>1. PICK t \in queue : wk[w].at = "dequeue" /\ wk'[w].at = "occupy" /\ queue' = queue \ {t}
      BY <1>6 DEF Takes
    <2>2. Cardinality(queue') = Cardinality(queue) - 1
      BY <2>1, CountedFinite, FS_RemoveElement
    <2>3. Bit(w, Unmeters') = 1 /\ Bit(w, Unmeters) = 0
      BY <2>1 DEF Bit, Unmeters, Where
    <2>4. Settling' = Settling + 0
      BY <1>3, <1>4, <1>5, <2>2, <2>3 DEF Settling
    <2>5. QueuedTasks' = QueuedTasks
      BY <2>1 DEF Work, Check, Dequeue, Wait, Occupy, setRunning, taskStarted, setCompleted,
                  Release, ExitLook, ExitCount, Done, At
    <2> QED  BY <1>1, <2>4, <2>5, WrapShift
  <1>7. CASE taskStarted(w)
    <2>1. wk[w].at = "meter" /\ wk'[w].at = "run" /\ queue' = queue
          /\ QueuedTasks' = (QueuedTasks + (-1)) % Word
      BY <1>1, <1>7 DEF taskStarted, At, Goto, WkOK
    <2>2. Bit(w, Unmeters') = 0 /\ Bit(w, Unmeters) = 1
      BY <2>1 DEF Bit, Unmeters, Where
    <2>3. Settling' = Settling + (-1)
      BY <1>3, <1>4, <1>5, <2>1, <2>2 DEF Settling
    <2> QED  BY <1>1, <2>1, <2>3, WrapShift
  <1>8. CASE ~Takes(w) /\ ~taskStarted(w)
    <2>1. queue' = queue
      BY <1>8, WorkMoves DEF Finishes
    <2>2. /\ QueuedTasks' = QueuedTasks
          /\ wk'[w].at \in {"occupy", "start", "meter"}
                <=> wk[w].at \in {"occupy", "start", "meter"}
      <3>1. CASE Dequeue(w)
        <4>1. wk[w].at = "dequeue" /\ QueuedTasks' = QueuedTasks /\ done' = done
          BY <3>1 DEF Dequeue, At, handles
        <4>2. wk'[w].at \notin Busy
          BY <1>8, <4>1, WorkMoves DEF Walks, Finishes, Busy
        <4> QED  BY <4>1, <4>2 DEF Busy
      <3>2. CASE ~Dequeue(w)
        BY <1>8, <3>2 DEF Work, Check, Wait, Occupy, setRunning, setCompleted, Release, ExitLook,
                          ExitCount, Done, At, Goto, WkOK
      <3> QED  BY <3>1, <3>2
    <2>3. Bit(w, Unmeters') = Bit(w, Unmeters) /\ Bit(w, Unmeters) \in Int
      BY <2>2 DEF Bit, Unmeters, Where
    <2>4. Settling' = Settling + 0
      BY <1>3, <1>4, <1>5, <2>1, <2>3 DEF Settling
    <2> QED  BY <1>1, <2>2, <2>4, WrapShift
  <1> QED  BY <1>6, <1>7, <1>8

LEMMA WrapKept ==
  ASSUME TypeOK, PlaceInv, HandsInv, CountsSum, WrapInv, [Next]_vars
  PROVE  WrapInv'
  <1> USE TypeParts
  <1>1. ASSUME QueuedTasks' = QueuedTasks, queue' = queue, sub' = sub,
               AddWorker \/ (UNCHANGED wk /\ UNCHANGED counts)
        PROVE  WrapInv'
    <2>1. QueuedTasks \in 0..(Word - 1) /\ Settling \in Int
          /\ QueuedTasks = (QueuedTasks + 0) % Word
      BY SettlingInt, Constants DEF CountOK
    <2>2. Cardinality(Unmeters') = Cardinality(Unmeters)
      BY <1>1, AddCounts, CountsStay DEF counts
    <2>3. Metered' = Metered
      BY <1>1 DEF Metered
    <2>4. Settling' = Settling + 0
      BY <1>1, <2>1, <2>2, <2>3, CountedFinite DEF Settling
    <2> QED  BY <1>1, <2>1, <2>4, WrapShift
  <1>2. CASE UNCHANGED vars
    BY <1>1, <1>2 DEF vars
  <1>3. CASE Starter
    BY <1>1, <1>3 DEF Starter, StartBegin, StartAdd, StartEnd
  <1>4. CASE Scaler
    BY <1>1, <1>4 DEF Scaler, ScaleTick, ScaleLook, adjustWorkers, ScaleStop
  <1>5. CASE \E a \in Admins : ShutStep(a)
    BY <1>1, <1>5 DEF ShutStep, ShutBegin, InShutdown, ShutTicker, ShutDrain, ShutStop, ShutJoin,
                      ShutEnd, ShutGiveUp
  <1>6. CASE Join
    BY <1>1, <1>6, JoinStays
  <1> QED  BY <1>2, <1>3, <1>4, <1>5, <1>6, TaskWraps, WorkWraps, StepCases

-----------------------------------------------------------------------------
(* The invariant, and what it says of the pool                             *)

LEMMA WorkInvInit == Init => WorkInv
  <1> SUFFICES ASSUME Init  PROVE WorkInv
    OBVIOUS
  <1>1. TypeOK
    <2>1. 0 \in 0..(Word - 1)
      BY Constants
    <2>2. [adding |-> FALSE, left |-> 0, starts |-> MaxStarts]
             \in [adding : BOOLEAN, left : Nat, starts : Nat]
      BY Constants
    <2>3. PlainOK /\ CountOK
      <3>1. status = "Idle" /\ queue = {}
            /\ stopped = FALSE /\ ctxDone = FALSE /\ ticker = FALSE
        BY DEF Init
      <3>2. workers = 0 /\ active = 0 /\ idle = 0 /\ QueuedTasks = 0
        BY DEF Init
      <3>3. PlainOK
        BY <3>1 DEF PlainOK
      <3> QED  BY <2>1, <3>2, <3>3 DEF CountOK
    <2>6. BootOK
      BY <2>2 DEF Init, BootOK
    <2>4. SubOK /\ StOK
      BY DEF Init, SubOK, StOK, Levels
    <2>5. WkOK /\ ScOK /\ ShOK /\ JoinOK
      BY DEF Init, WkOK, ScOK, ShOK, JoinOK, Spots, Stages
    <2> QED  BY <2>3, <2>4, <2>5, <2>6, TypeParts
  <1>2. HandsInv
    BY DEF Init, HandsInv, Busy
  <1>3. PlaceInv
    BY DEF Init, PlaceInv, Accepted
  <1>4. StopInv /\ DrainInv
    BY DEF Init, StopInv, DrainInv, Open, InShut
  <1>5. Counted = {} /\ Alive = {} /\ Unmeters = {} /\ Metered = {} /\ queue = {}
    BY DEF Init, Counted, Alive, Unmeters, Metered, Where
  <1>6. CountsSum
    <2>1. Cardinality(Counted) = 0 /\ Cardinality(Alive) = 0
      BY <1>5, FS_EmptySet
    <2> QED  BY <2>1 DEF Init, CountsSum, Counted, Alive, Where
  <1>7. WrapInv
    <2>1. Settling = 0 /\ QueuedTasks = 0
      BY <1>5, FS_EmptySet DEF Init, Settling
    <2>2. Settling = QueuedTasks + 0 * Word
      BY <2>1, Constants
    <2> QED  BY <2>2 DEF WrapInv
  <1> QED  BY <1>1, <1>2, <1>3, <1>4, <1>6, <1>7 DEF WorkInv

LEMMA WorkInvStep == WorkInv /\ [Next]_vars => WorkInv'
  <1> SUFFICES ASSUME WorkInv, [Next]_vars  PROVE WorkInv'
    OBVIOUS
  <1> USE DEF WorkInv
  <1>1. TypeOK'
    BY TypeKept
  <1>2. HandsInv' /\ PlaceInv'
    BY PlacesKept
  <1>3. StopInv' /\ DrainInv'
    BY StagesKept
  <1>4. CountsSum'
    BY SumsKept
  <1>5. WrapInv'
    BY WrapKept
  <1> QED  BY <1>1, <1>2, <1>3, <1>4, <1>5

(* Workers, tasks and Shutdowns are always where the invariant says. *)
LEMMA WorkInvAlways == Spec => []WorkInv
  BY WorkInvInit, WorkInvStep, PTL DEF Spec

(* No task is lost and none is taken twice, for any tasks, priorities and  *)
(* workers: what is queued comes into one worker's hands, and from there   *)
(* its handle is done.                                                     *)
THEOREM TasksProved == Spec => []TaskKept
  <1>1. WorkInv => TaskKept
    <2> SUFFICES ASSUME WorkInv, NEW t \in Tasks
                 PROVE  /\ Cardinality(Holders(t)) <= 1
                        /\ t \in queue => Holders(t) = {} /\ Accepted(t)
                        /\ Holders(t) # {} => Accepted(t)
                        /\ Accepted(t) => t \in queue \/ Holders(t) # {} \/ done[t]
      BY DEF TaskKept
    <2>1. HandsInv /\ PlaceInv /\ t # None
      BY Constants DEF WorkInv
    <2>2. Cardinality(Holders(t)) <= 1
      <3>1. CASE Holders(t) = {}
        BY <3>1, FS_EmptySet
      <3>2. CASE Holders(t) # {}
        <4>1. PICK w \in Holders(t) : TRUE
          BY <3>2
        <4>2. Holders(t) = {w}
          BY <2>1, <4>1 DEF Holders, HandsInv
        <4>3. Cardinality(Holders(t)) = 1
          BY <4>2, FS_Singleton
        <4> QED  BY <4>3
      <3> QED  BY <3>1, <3>2
    <2>3. t \in queue => Holders(t) = {} /\ Accepted(t)
      BY <2>1 DEF PlaceInv, Holders
    <2>4. Holders(t) # {} => Accepted(t)
      BY <2>1 DEF PlaceInv, Holders
    <2>5. Accepted(t) => t \in queue \/ Holders(t) # {} \/ done[t]
      BY <2>1 DEF PlaceInv, Holders
    <2> QED  BY <2>2, <2>3, <2>4, <2>5
  <1> QED  BY <1>1, WorkInvAlways, PTL

(* The counters agree with the goroutines and the queue they count, for    *)
(* any number of them, and QueuedTasks settles however often it wraps.     *)
THEOREM CountersProved == Spec => []CountersAgree
  <1>1. WorkInv => CountersAgree
    <2> SUFFICES ASSUME WorkInv  PROVE CountersAgree
      OBVIOUS
    <2>1. QueuedTasks \in 0..(Word - 1) /\ Word \in Nat /\ Word > 0
      BY Constants, TypeParts DEF WorkInv, CountOK
    <2>2. PICK k \in Int : Settling = QueuedTasks + k * Word
      BY DEF WorkInv, WrapInv
    <2>3. Settling % Word = QueuedTasks
      BY <2>1, <2>2, Unwraps
    <2>4. QueuedSettles
      BY <2>3 DEF QueuedSettles, Settling, Unmeters, Metered
    <2> QED  BY <2>4 DEF CountersAgree, WorkInv
  <1> QED  BY <1>1, WorkInvAlways, PTL

(* What had been submitted when a Shutdown began is done when it returns   *)
(* without an error, for any tasks, workers and Shutdowns.                 *)
THEOREM DrainsProved == Spec => []ShutdownDrains
  <1>1. WorkInv => ShutdownDrains
    BY DEF WorkInv, DrainInv, ShutdownDrains
  <1> QED  BY <1>1, WorkInvAlways, PTL

(* stopCh is never closed twice, however Shutdowns and restarts overlap.   *)
THEOREM StopClosedOnceProved == Spec => StopChClosedOnce
  <1>1. WorkInv => \A a \in Admins : ShutStop(a) => ~stopped
    BY DEF WorkInv, StopInv, Open, ShutStop, ShutAt
  <1>2. WorkInv => [\A a \in Admins : ShutStop(a) => ~stopped]_vars
    BY <1>1
  <1> QED  BY <1>2, WorkInvAlways, PTL DEF StopChClosedOnce

-----------------------------------------------------------------------------
(* The wait group                                                          *)

(* While workerWg is waited for, the Shutdown that asked is at its join or *)
(* has given it up. Until the waiter is let go no worker counts; one that  *)
(* it finds when it wakes was added by a Submit the Shutdown overtook.     *)
Joining == {"ask", "waiting", "freeing", "waking"}

JoinInv ==
    /\ joiner \in Joining => status = "ShuttingDown"
    /\ \A a \in Admins : sh[a].at = "joined" => joiner = "closed"
    /\ joiner \in Joining => \E a \in Admins :
          /\ sh[a].at \in {"join", "failed"}
          /\ joiner = "waking" /\ ~NobodyCounts => Overtaken(a)
          /\ crashed => Overtaken(a)
    /\ crashed => joiner \in Joining
    /\ joiner = "freeing" /\ ~crashed => NobodyCounts
    /\ boot.adding => status = "Running"
    /\ sc.at = "off"

(* A program that has panicked stands still. *)
LEMMA CrashEnds ==
  ASSUME crashed, [Next]_vars  PROVE UNCHANGED vars
  BY DEF Next, Halt

(* Whom a Shutdown has overtaken stays overtaken, as Submits go on.        *)
LEMMA OvertakenStays ==
  ASSUME TypeOK, NEW a \in Admins, Overtaken(a), sh'[a].owed = sh[a].owed,
         \A t \in Tasks : sub[t] = "returned" => sub'[t] = "returned"
  PROVE  Overtaken(a)'
  BY DEF Overtaken

LEMMA JoinInit ==
  ASSUME MinWorkers = MaxWorkers  PROVE Init => JoinInv
  BY DEF Init, JoinInv, Joining

LEMMA JoinTask ==
  ASSUME WorkInv, JoinInv, ~crashed, NEW t \in Tasks, TaskStep(t)
  PROVE  JoinInv'
  <1> USE TypeParts DEF WorkInv
  <1>1. /\ sh' = sh /\ status' = status /\ joiner' = joiner
        /\ \A u \in Tasks : sub[u] = "returned" => sub'[u] = "returned"
    BY TaskMoves
  <1>2. boot' = boot /\ sc' = sc
    BY DEF TaskStep, Submit, InSubmit, Enqueue, taskSubmitted, Look, tryAddWorker, Cancel
  <1>3. CASE tryAddWorker(t) /\ AddWorker
    <2>1. sub[t] = "add" /\ sub'[t] = "returned"
      BY <1>3 DEF tryAddWorker, SubAt, SubOK
    <2>2. ASSUME NEW a \in Admins  PROVE Overtaken(a)'
      <3>1. t \notin sh[a].owed
        BY <2>1 DEF DrainInv
      <3> QED  BY <1>1, <2>1, <3>1 DEF Overtaken
    <2>3. crashed' = (joiner = "freeing")
      BY <1>3 DEF AddWorker
    <2> QED  BY <1>1, <1>2, <2>2, <2>3 DEF JoinInv, Joining
  <1>4. CASE ~(tryAddWorker(t) /\ AddWorker)
    <2>1. wk' = wk /\ crashed' = crashed
      BY <1>4 DEF TaskStep, Submit, InSubmit, Enqueue, taskSubmitted, Look, tryAddWorker, Cancel,
                  wg
    <2>2. NobodyCounts' <=> NobodyCounts
      BY <2>1 DEF NobodyCounts, At
    <2>3. \A a \in Admins : Overtaken(a) => Overtaken(a)'
      BY <1>1, OvertakenStays
    <2> QED  BY <1>1, <1>2, <2>1, <2>2, <2>3 DEF JoinInv
  <1> QED  BY <1>3, <1>4

LEMMA JoinWork ==
  ASSUME WorkInv, JoinInv, ~crashed, NEW w \in Workers, Work(w)
  PROVE  JoinInv'
  <1> USE TypeParts DEF WorkInv
  <1>1. sh' = sh /\ status' = status /\ sub' = sub
    BY WorkMoves
  <1>2. boot' = boot /\ sc' = sc /\ crashed' = crashed
    BY DEF Work, Check, Dequeue, Wait, Occupy, setRunning, taskStarted, setCompleted, Release,
           ExitLook, ExitCount, Done, wg
  <1>3. ~NobodyCounts
    BY DEF Work, Check, Dequeue, Wait, Occupy, setRunning, taskStarted, setCompleted, Release,
           ExitLook, ExitCount, Done, At, NobodyCounts
  <1>4. \/ joiner' = joiner
        \/ joiner = "waiting" /\ joiner' = "freeing" /\ NobodyCounts'
    <2>1. CASE Done(w)
      <3>1. wk'[w].at = "off" /\ \A v \in Workers \ {w} : wk'[v].at = wk[v].at
        BY <2>1 DEF Done, Goto, WkOK
      <3> QED  BY <2>1, <3>1 DEF Done, NobodyCounts, At
    <2>2. CASE ~Done(w)
      BY <2>2 DEF Work, Check, Dequeue, Wait, Occupy, setRunning, taskStarted, setCompleted,
                  Release, ExitLook, ExitCount, wg
    <2> QED  BY <2>1, <2>2
  <1>5. \A a \in Admins : Overtaken(a) => Overtaken(a)'
    BY <1>1, OvertakenStays
  <1> QED  BY <1>1, <1>2, <1>3, <1>4, <1>5 DEF JoinInv, Joining

LEMMA JoinShut ==
  ASSUME WorkInv, JoinInv, ~crashed, NEW a \in Admins, ShutStep(a)
  PROVE  JoinInv'
  <1> USE TypeParts DEF WorkInv
  <1>1. sub' = sub /\ wk' = wk /\ boot' = boot /\ sc' = sc /\ crashed' = crashed
    BY DEF ShutStep, ShutBegin, InShutdown, ShutTicker, ShutDrain, ShutStop, ShutJoin, ShutEnd,
           ShutGiveUp, wg
  <1>2. \A b \in Admins : b # a => sh'[b] = sh[b]
    BY DEF ShutStep, ShutBegin, InShutdown, ShutTicker, ShutDrain, ShutStop, ShutJoin, ShutEnd,
           ShutGiveUp, ShutAt, ShOK
  <1>3. NobodyCounts' <=> NobodyCounts
    BY <1>1 DEF NobodyCounts, At
  <1>4. CASE ShutStop(a)
    <2>1. sh[a].at = "stop" /\ sh'[a].at = "join" /\ joiner' = "ask" /\ status' = status
      BY <1>4 DEF ShutStop, ShutAt, ShOK
    <2>2. status = "ShuttingDown" /\ \A b \in Admins : sh[b].at # "joined"
      BY <2>1 DEF StopInv, InShut, Open
    <2> QED  BY <1>1, <1>2, <2>1, <2>2 DEF JoinInv, Joining
  <1>5. CASE ~ShutStop(a)
    <2>1. joiner' = joiner
      BY <1>5 DEF ShutStep, ShutBegin, InShutdown, ShutTicker, ShutDrain, ShutJoin, ShutEnd,
             ShutGiveUp, wg
    <2>2. /\ status' = status \/ joiner \notin Joining
          /\ boot.adding => status' = status
      <3>1. CASE ShutBegin(a)
        BY <3>1 DEF ShutBegin, StatusLocked, JoinInv
      <3>2. CASE ShutEnd(a)
        <4>1. sh[a].at = "joined"
          BY <3>2 DEF ShutEnd, ShutAt
        <4>2. joiner = "closed" /\ status = "ShuttingDown"
          BY <4>1 DEF JoinInv, StopInv, InShut
        <4> QED  BY <4>2 DEF JoinInv, Joining
      <3>3. CASE ~ShutBegin(a) /\ ~ShutEnd(a)
        BY <1>5, <3>3 DEF ShutStep, InShutdown, ShutTicker, ShutDrain, ShutJoin, ShutGiveUp
      <3> QED  BY <3>1, <3>2, <3>3
    <2>3. sh'[a].at = "joined" => joiner = "closed"
      BY <1>5 DEF ShutStep, ShutBegin, InShutdown, ShutTicker, ShutDrain, ShutJoin, ShutEnd,
             ShutGiveUp, ShutAt, ShOK
    <2>4. joiner \in Joining /\ sh[a].at \in {"join", "failed"} =>
             sh'[a].at \in {"join", "failed"} /\ sh'[a].owed = sh[a].owed
      BY <1>5 DEF ShutStep, ShutBegin, InShutdown, ShutTicker, ShutDrain, ShutJoin, ShutEnd,
             ShutGiveUp, ShutAt, ShOK, Joining
    <2>5. ASSUME joiner \in Joining
          PROVE  \E b \in Admins : /\ sh'[b].at \in {"join", "failed"}
                                   /\ joiner = "waking" /\ ~NobodyCounts => Overtaken(b)'
      <3>1. PICK b \in Admins : /\ sh[b].at \in {"join", "failed"}
                                /\ joiner = "waking" /\ ~NobodyCounts => Overtaken(b)
        BY <2>5 DEF JoinInv
      <3>2. sh'[b].at \in {"join", "failed"} /\ sh'[b].owed = sh[b].owed
        BY <1>2, <2>4, <2>5, <3>1
      <3> QED  BY <1>1, <3>1, <3>2, OvertakenStays
    <2> QED  BY <1>1, <1>2, <1>3, <2>1, <2>2, <2>3, <2>5 DEF JoinInv
  <1> QED  BY <1>4, <1>5

LEMMA JoinStep ==
  ASSUME MinWorkers = MaxWorkers, WorkInv, JoinInv, [Next]_vars
  PROVE  JoinInv'
  <1> USE TypeParts DEF WorkInv
  <1>1. CASE UNCHANGED vars
    BY <1>1 DEF vars, counts, handles, wg, JoinInv, NobodyCounts, Overtaken, At
  <1>2. CASE ~crashed /\ Starter
    <2>1. sh' = sh /\ sub' = sub /\ joiner' = joiner
      BY <1>2 DEF Starter, StartBegin, StartAdd, StartEnd, AddWorker, wg
    <2>2. sc' = sc
      BY <1>2 DEF Starter, StartBegin, StartAdd, StartEnd
    <2>3. joiner \notin Joining
      BY <1>2 DEF Starter, StartBegin, StartAdd, StartEnd, JoinInv
    <2>4. ~crashed'
      BY <1>2, <2>3 DEF Starter, StartBegin, StartAdd, StartEnd, AddWorker, Joining, wg
    <2>5. boot'.adding => status' = "Running"
      BY <1>2 DEF Starter, StartBegin, StartAdd, StartEnd, BootOK, JoinInv
    <2> QED  BY <2>1, <2>2, <2>3, <2>4, <2>5 DEF JoinInv, Joining
  <1>3. CASE ~crashed /\ Join
    <2>1. NobodyCounts' <=> NobodyCounts
      BY <1>3, JoinStays DEF NobodyCounts, At
    <2>2. \A a \in Admins : Overtaken(a)' <=> Overtaken(a)
      BY <1>3, JoinStays DEF Overtaken
    <2>3. \/ joiner = "ask" /\ joiner' \in {"closed", "waiting"} /\ ~crashed'
          \/ joiner = "freeing" /\ joiner' = "waking" /\ ~crashed' /\ NobodyCounts
          \/ joiner = "waking" /\ joiner' = "closed" /\ ~crashed'
          \/ joiner = "waking" /\ joiner' = joiner /\ ~NobodyCounts
      BY <1>3 DEF Join, JoinInv
    <2> QED  BY <1>3, <2>1, <2>2, <2>3, JoinStays DEF JoinInv, Joining
  <1>4. CASE ~crashed /\ Scaler
    BY <1>4 DEF Scaler, ScaleTick, ScaleLook, adjustWorkers, ScaleStop, JoinInv
  <1>5. CASE crashed
    BY <1>1, <1>5, CrashEnds
  <1> QED  BY <1>1, <1>2, <1>3, <1>4, <1>5, StepCases, JoinTask, JoinWork, JoinShut

(* In a pool of fixed size, started any number of times, a Shutdown makes  *)
(* the program panic only where it has overtaken a Submit.                 *)
THEOREM PanicProved == Spec => []CrashNeedsOvertaking
  <1>1. CASE MinWorkers # MaxWorkers
    <2>1. TRUE => CrashNeedsOvertaking
      BY <1>1 DEF CrashNeedsOvertaking
    <2> QED  BY <2>1, PTL
  <1>2. CASE MinWorkers = MaxWorkers
    <2>1. JoinInv => CrashNeedsOvertaking
      BY DEF JoinInv, CrashNeedsOvertaking
    <2>2. Init => JoinInv
      BY <1>2, JoinInit
    <2>3. WorkInv /\ JoinInv /\ [Next]_vars => JoinInv'
      BY <1>2, JoinStep
    <2> QED  BY <2>1, <2>2, <2>3, WorkInvAlways, PTL DEF Spec
  <1> QED  BY <1>1, <1>2

-----------------------------------------------------------------------------
(* The maximum                                                             *)

LEMMA RoomInit ==
  ASSUME MaxStarts <= 1  PROVE Init => RoomInv
  BY Constants DEF Init, RoomInv, Adding

LEMMA RoomStep ==
  ASSUME WorkInv, WorkInv', RoomInv, [Next]_vars
  PROVE  RoomInv'
  <1> USE TypeParts, Constants DEF WorkInv
  <1>t. /\ workers \in Nat /\ boot.left \in Nat /\ boot.starts \in Nat /\ boot.adding \in BOOLEAN
        /\ sc.left \in Nat /\ sc.target \in Nat
    BY DEF CountOK, BootOK, ScOK
  <1>1. CASE UNCHANGED vars
    BY <1>1 DEF vars, counts, RoomInv
  <1>2. CASE Starter
    <2>1. CASE StartBegin
      BY <1>t, <2>1 DEF StartBegin, RoomInv, Adding, counts
    <2>2. CASE StartAdd
      <3>1. /\ boot'.left = boot.left - 1 /\ boot'.starts = boot.starts /\ boot'.adding
            /\ boot.adding /\ workers' = workers + 1 /\ sc' = sc /\ sub' = sub /\ boot.left > 0
        BY <2>2 DEF StartAdd, AddWorker, BootOK
      <3> QED  BY <1>t, <3>1 DEF RoomInv
    <2>3. CASE StartEnd
      <3>1. /\ boot'.starts = boot.starts /\ ~boot'.adding /\ boot.adding /\ workers' = workers
            /\ sc'.at \in {sc.at, "sleep"} /\ sc'.target = sc.target /\ sc'.left = sc.left
            /\ sub' = sub
        BY <2>3 DEF StartEnd, BootOK, ScOK, counts
      <3> QED  BY <1>t, <3>1 DEF RoomInv
    <2> QED  BY <1>2, <2>1, <2>2, <2>3 DEF Starter
  <1>3. ASSUME NEW t \in Tasks, TaskStep(t)
        PROVE  RoomInv'
    <2>1. boot' = boot /\ sc' = sc /\ status' = status
      BY <1>3 DEF TaskStep, Submit, InSubmit, Enqueue, taskSubmitted, Look, tryAddWorker, Cancel
    <2>2. \A u \in Tasks : u # t => sub'[u] = sub[u]
      BY <1>3, TaskMoves
    <2>3. CASE Submit(t)
      <3>1. ~boot.adding /\ workers' = workers
            /\ sub'[t] = IF status = "Running" THEN "enqueue" ELSE "refused"
        BY <2>3 DEF Submit, StatusLocked, SubAt, SubOK, counts
      <3> QED  BY <2>1, <2>2, <3>1 DEF RoomInv, Adding
    <2>4. CASE InSubmit(t) \/ Cancel(t)
      <3>1. sub[t] \in Adding
        BY <2>4 DEF InSubmit, Enqueue, taskSubmitted, Look, tryAddWorker, Cancel, SubAt, Adding
      <3>2. ~boot.adding /\ boot.starts # 1
        BY <3>1 DEF RoomInv
      <3>3. \/ workers' = workers
            \/ workers' = workers + 1 /\ workers < MaxWorkers /\ sc.at \notin {"adjust", "adding"}
        BY <2>4 DEF InSubmit, Enqueue, taskSubmitted, Look, tryAddWorker, Cancel, AddWorker,
                    ScaleLocked, counts
      <3> QED  BY <1>t, <2>1, <3>2, <3>3 DEF RoomInv
    <2> QED  BY <1>3, <2>3, <2>4 DEF TaskStep
  <1>4. ASSUME NEW w \in Workers, Work(w)
        PROVE  RoomInv'
    <2>1. boot' = boot /\ sc' = sc /\ status' = status /\ sub' = sub
          /\ (workers' = workers \/ workers' = workers - 1)
      BY <1>4 DEF Work, Check, Dequeue, Wait, Occupy, setRunning, taskStarted, setCompleted,
                  Release, ExitLook, ExitCount, Done, counts
    <2>2. workers' \in Nat
      BY DEF TypeOK
    <2> QED  BY <1>t, <2>1, <2>2 DEF RoomInv
  <1>5. ASSUME NEW a \in Admins, ShutStep(a)
        PROVE  RoomInv'
    BY <1>5 DEF ShutStep, ShutBegin, InShutdown, ShutTicker, ShutDrain, ShutStop, ShutJoin,
                ShutEnd, ShutGiveUp, counts, RoomInv
  <1>6. CASE Scaler
    <2>1. boot' = boot /\ status' = status /\ sub' = sub
      BY <1>6 DEF Scaler, ScaleTick, ScaleLook, adjustWorkers, ScaleStop
    <2>2. sc.at # "off" /\ ~boot.adding /\ boot.starts # 1
      BY <1>6 DEF Scaler, ScaleTick, ScaleLook, adjustWorkers, ScaleStop, RoomInv
    <2>6. CASE ScaleTick
      <3>1. workers' = workers /\ sc'.at = "tick"
        BY <2>6 DEF ScaleTick, counts, ScOK
      <3> QED  BY <1>t, <2>1, <2>2, <3>1 DEF RoomInv
    <2>3. CASE ScaleLook
      <3>1. /\ workers' = workers
            /\ \/ sc'.at = "sleep"
               \/ sc'.at = "adjust" /\ sc'.target \in {ScaleUpTo, ScaleDownTo}
        BY <2>3 DEF ScaleLook, counts, ScOK
      <3>2. workers \div 4 \in Nat /\ workers <= MaxWorkers
        BY <1>t DEF RoomInv
      <3>3. Quarter \in Nat
        BY <3>2 DEF Quarter
      <3>4. ScaleUpTo <= MaxWorkers /\ ScaleDownTo <= MaxWorkers
        BY <1>t, <3>2, <3>3 DEF ScaleUpTo, ScaleDownTo
      <3>5. CASE sc'.at = "sleep"
        BY <1>t, <2>1, <2>2, <3>1, <3>5 DEF RoomInv
      <3>6. CASE sc'.at = "adjust" /\ sc'.target \in {ScaleUpTo, ScaleDownTo}
        <4>1. sc'.target <= MaxWorkers
          BY <3>4, <3>6
        <4> QED  BY <1>t, <2>1, <2>2, <3>1, <3>6, <4>1 DEF RoomInv
      <3> QED  BY <3>1, <3>5, <3>6
    <2>4. CASE adjustWorkers
      <3>1. CASE sc.at = "adjust" /\ UNCHANGED counts
                 /\ sc' = IF workers < sc.target
                            THEN [sc EXCEPT !.at = "adding", !.left = sc.target - workers]
                            ELSE [sc EXCEPT !.at = "sleep", !.target = 0]
        <4>1. CASE workers < sc.target
          <5>1. sc'.at = "adding" /\ sc'.left = sc.target - workers /\ sc'.target = sc.target
            BY <3>1, <4>1 DEF ScOK
          <5> QED  BY <1>t, <2>1, <2>2, <3>1, <5>1 DEF RoomInv, counts
        <4>2. CASE ~(workers < sc.target)
          <5>1. sc'.at = "sleep"
            BY <3>1, <4>2 DEF ScOK
          <5> QED  BY <1>t, <2>1, <2>2, <3>1, <5>1 DEF RoomInv, counts
        <4> QED  BY <4>1, <4>2
      <3>2. CASE sc.at = "adding" /\ sc.left > 0 /\ AddWorker /\ sc' = [sc EXCEPT !.left = @ - 1]
        <4>1. sc'.at = "adding" /\ sc'.left = sc.left - 1 /\ sc'.target = sc.target
              /\ workers' = workers + 1
          BY <3>2 DEF ScOK, AddWorker
        <4> QED  BY <1>t, <2>1, <2>2, <3>2, <4>1 DEF RoomInv
      <3>3. CASE UNCHANGED counts /\ sc' = [sc EXCEPT !.at = "sleep", !.target = 0]
        <4>1. sc'.at = "sleep"
          BY <3>3 DEF ScOK
        <4> QED  BY <1>t, <2>1, <2>2, <3>3, <4>1 DEF RoomInv, counts
      <3> QED  BY <2>4, <3>1, <3>2, <3>3 DEF adjustWorkers
    <2>5. CASE ScaleStop
      <3>1. sc'.at = "off" /\ workers' = workers
        BY <2>5 DEF ScaleStop, ScOK, counts
      <3> QED  BY <1>t, <2>1, <2>2, <3>1 DEF RoomInv
    <2> QED  BY <1>6, <2>3, <2>4, <2>5, <2>6 DEF Scaler
  <1>7. CASE Join
    BY <1>7, JoinStays DEF RoomInv
  <1> QED  BY <1>1, <1>2, <1>3, <1>4, <1>5, <1>6, <1>7, StepCases

(* In a pool that is started once, submitters and the scaler together keep *)
(* to the maximum, for any number of them, any minimum and any maximum.    *)
(* (After a restart a submitter of the life before may exceed it.)         *)
THEOREM MaxProved ==
  ASSUME MaxStarts <= 1
  PROVE  Spec => []MaxWorkersKept
  <1>1. RoomInv => MaxWorkersKept
    BY DEF RoomInv, MaxWorkersKept
  <1>2. WorkInv /\ WorkInv' /\ RoomInv /\ [Next]_vars => RoomInv'
    BY RoomStep
  <1>3. Init => RoomInv
    BY RoomInit
  <1> QED  BY <1>1, <1>2, <1>3, WorkInvAlways, PTL DEF Spec
=============================================================================
