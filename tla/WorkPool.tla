------------------------------ MODULE WorkPool ------------------------------
(***************************************************************************)
(* workpool.WorkPool: workers take submitted tasks from a priority queue;  *)
(* Submit and a scaler add workers; Shutdown drains the queue, closes      *)
(* stopCh and joins the workers; a stopped pool may be started again.      *)
(*                                                                         *)
(* A step is one use of a lock, of the queue, or of the atomic counters;   *)
(* the counters that one function adds to or reads in a row are taken in   *)
(* one step. A task's context is advice to the task, so it is left out: a  *)
(* task that has started returns, with any outcome. Of the metrics only    *)
(* QueuedTasks is kept, which two goroutines change out of step with the   *)
(* queue. Every task has a goroutine of its own that submits it.           *)
(*                                                                         *)
(* workerWg, which Shutdown has a goroutine wait for, is Go's: the last    *)
(* Done finds the waiter, then lets it go, and the waiter looks again. An  *)
(* Add from zero before the waiter is let go, or a count it finds when it  *)
(* wakes, is a misuse and panics.                                          *)
(***************************************************************************)
EXTENDS Integers, FiniteSets

CONSTANTS Tasks, Workers,          \* goroutines: one submitter per task, worker slots
          Admins,                  \* goroutines that call Shutdown, once each
          None,                    \* no task
          Priority,                \* the priority of each task
          InitialWorkers, MinWorkers, MaxWorkers,
          UpAt,                    \* queue length at which the scaler adds workers
          DownTenths,              \* idle share, in tenths, at which it wants fewer
          Word,                    \* QueuedTasks is a uint64: it wraps at Word
          MaxStarts,               \* bound: calls of Start that succeed
          Cancels,                 \* may tasks be cancelled?
          Hurry                    \* may Shutdown's context end?

ASSUME WorkPoolAssumption ==
    /\ IsFiniteSet(Tasks) /\ IsFiniteSet(Workers) /\ None \notin Tasks
    /\ Priority \in [Tasks -> Int]
    /\ {InitialWorkers, MinWorkers, MaxWorkers, Word} \subseteq Nat \ {0}
    /\ MinWorkers <= InitialWorkers /\ InitialWorkers <= MaxWorkers     \* New sees to it
    /\ {UpAt, DownTenths, MaxStarts} \subseteq Nat
    /\ Cancels \in BOOLEAN /\ Hurry \in BOOLEAN
    /\ MaxStarts <= 1 \/ MinWorkers = MaxWorkers    \* bound: one scaler in all

VARIABLES
    status,         \* wp.status
    stopped,        \* is wp.stopCh closed?
    ctxDone,        \* wp.ctx is cancelled, for good
    ticker,         \* wp.scaleTicker ticks
    queue,          \* wp.taskQueue
    workers, active, idle,      \* workerCount, activeCount, idleCount
    QueuedTasks,    \* metrics.QueuedTasks
    sub,            \* each task's Submit
    st,             \* each handle's status
    done,           \* each handle's done channel is closed
    wk,             \* each worker: where it is, the task it has
    boot,           \* Start: is one under way, workers it has yet to add, calls left
    sc,             \* the scaler: where it is, its target, workers it has yet to add
    sh,             \* each Shutdown: where it is; history: the tasks submitted before
    joiner,         \* the goroutine that waits for workerWg and closes doneCh
    crashed         \* a panic has ended the program

counts  == <<workers, active, idle>>
handles == <<st, done>>
wg      == <<joiner, crashed>>
vars    == <<status, stopped, ctxDone, ticker, queue, counts, QueuedTasks, sub, handles,
             wk, boot, sc, sh, wg>>

Terminal == {"Completed", "Failed", "Canceled"}

(* After New. *)
Init ==
    /\ status = "Idle" /\ stopped = FALSE /\ ctxDone = FALSE /\ ticker = FALSE
    /\ queue = {} /\ workers = 0 /\ active = 0 /\ idle = 0 /\ QueuedTasks = 0
    /\ sub = [t \in Tasks |-> "new"]
    /\ st = [t \in Tasks |-> "Pending"] /\ done = [t \in Tasks |-> FALSE]
    /\ wk = [w \in Workers |-> [at |-> "off", task |-> None]]
    /\ boot = [adding |-> FALSE, left |-> 0, starts |-> MaxStarts]
    /\ sc = [at |-> "off", target |-> 0, left |-> 0]
    /\ sh = [a \in Admins |-> [at |-> "idle", owed |-> {}]]
    /\ joiner = "none" /\ crashed = FALSE

(* Start holds statusLock while it adds workers. *)
StatusLocked == boot.adding

(* The scaler holds scaleLock from its tick to the last worker it adds. *)
ScaleLocked == sc.at \in {"adjust", "adding"}

-----------------------------------------------------------------------------
(* addWorker: a free slot becomes a goroutine. (Bound: slots are reused;  *)
(* where there is none, the step waits for one.) workerWg counts the slots *)
(* in use; one that is added from zero, while the last Done has still to   *)
(* let the waiter go, panics. (Taken as the end of the program: a caller   *)
(* of Submit who recovers is left out.)                                    *)
AddWorker ==
    /\ crashed' = (joiner = "freeing") /\ UNCHANGED joiner
    /\ \E w \in Workers : wk[w].at = "off" /\ wk' = [wk EXCEPT ![w].at = "check"]
    /\ workers' = workers + 1 /\ idle' = idle + 1 /\ UNCHANGED active

(* Mutant: a pool that is shutting down can be started. *)
StartBeginAnyway ==
    /\ status # "Running" /\ ~StatusLocked /\ boot.starts > 0
    /\ status' = "Running" /\ stopped' = FALSE
    /\ boot' = [adding |-> TRUE, starts |-> boot.starts - 1,
                left |-> IF workers < InitialWorkers THEN InitialWorkers - workers ELSE 0]
    /\ UNCHANGED <<ctxDone, ticker, queue, counts, QueuedTasks, sub, handles, wk, sc, sh, wg>>

(* Start, from Idle or Stopped; otherwise it is an error. *)
StartBegin ==
    /\ status \in {"Idle", "Stopped"} /\ ~StatusLocked /\ boot.starts > 0
    /\ status' = "Running" /\ stopped' = FALSE
    /\ boot' = [adding |-> TRUE, starts |-> boot.starts - 1,
                left |-> IF workers < InitialWorkers THEN InitialWorkers - workers ELSE 0]
    /\ UNCHANGED <<ctxDone, ticker, queue, counts, QueuedTasks, sub, handles, wk, sc, sh, wg>>

StartAdd ==
    /\ boot.adding /\ boot.left > 0
    /\ AddWorker
    /\ boot' = [boot EXCEPT !.left = @ - 1]
    /\ UNCHANGED <<status, stopped, ctxDone, ticker, queue, QueuedTasks, sub, handles, sc, sh>>

StartEnd ==
    /\ boot.adding /\ boot.left = 0
    /\ boot' = [boot EXCEPT !.adding = FALSE]
    /\ IF MinWorkers # MaxWorkers
         THEN ticker' = TRUE /\ sc' = [sc EXCEPT !.at = "sleep"]
         ELSE UNCHANGED <<ticker, sc>>
    /\ UNCHANGED <<status, stopped, ctxDone, queue, counts, QueuedTasks, sub, handles, wk, sh, wg>>

-----------------------------------------------------------------------------
(* Submit. The status is checked, and the lock released, before the task   *)
(* is queued.                                                              *)
SubAt(t, l, next) == sub[t] = l /\ sub' = [sub EXCEPT ![t] = next]

Submit(t) ==
    /\ ~StatusLocked
    /\ SubAt(t, "new", IF status = "Running" THEN "enqueue" ELSE "refused")
    /\ UNCHANGED <<status, stopped, ctxDone, ticker, queue, counts, QueuedTasks, handles, wk, boot,
                   sc, sh, wg>>

Enqueue(t) ==
    /\ SubAt(t, "enqueue", "meter")
    /\ queue' = queue \cup {t}
    /\ UNCHANGED <<status, stopped, ctxDone, ticker, counts, QueuedTasks, handles, wk, boot, sc, sh, wg>>

taskSubmitted(t) ==
    /\ SubAt(t, "meter", "look")
    /\ QueuedTasks' = (QueuedTasks + 1) % Word
    /\ UNCHANGED <<status, stopped, ctxDone, ticker, queue, counts, handles, wk, boot, sc, sh, wg>>

Look(t) ==
    /\ \/ SubAt(t, "look", IF workers < MaxWorkers THEN "size" ELSE "returned")
       \/ SubAt(t, "size", IF Cardinality(queue) > idle THEN "add" ELSE "returned")
    /\ UNCHANGED <<status, stopped, ctxDone, ticker, queue, counts, QueuedTasks, handles, wk, boot,
                   sc, sh, wg>>

(* Mutant: the number of workers is not looked at again under the lock. *)
tryAddWorkerUnchecked(t) ==
    /\ ~ScaleLocked
    /\ SubAt(t, "add", "returned")
    /\ AddWorker
    /\ UNCHANGED <<status, stopped, ctxDone, ticker, queue, QueuedTasks, handles, boot, sc, sh>>

tryAddWorker(t) ==
    /\ ~ScaleLocked
    /\ SubAt(t, "add", "returned")
    /\ \/ workers < MaxWorkers /\ AddWorker
       \/ workers >= MaxWorkers /\ UNCHANGED <<wk, counts, wg>>
    /\ UNCHANGED <<status, stopped, ctxDone, ticker, queue, QueuedTasks, handles, boot, sc, sh>>

(* The handle that Submit returned is cancelled. *)
Cancel(t) ==
    /\ Cancels /\ sub[t] = "returned" /\ st[t] \notin Terminal
    /\ st' = [st EXCEPT ![t] = "Canceled"] /\ done' = [done EXCEPT ![t] = TRUE]
    /\ UNCHANGED <<status, stopped, ctxDone, ticker, queue, counts, QueuedTasks, sub, wk, boot, sc, sh, wg>>

-----------------------------------------------------------------------------
(* runWorker *)
At(w, l)   == wk[w].at = l
Goto(w, l) == wk' = [wk EXCEPT ![w].at = l]

(* Mutant: only the context ends a worker. *)
LeavingCtx == ctxDone

Leaving == stopped \/ ctxDone

Check(w) ==
    /\ At(w, "check")
    /\ Goto(w, IF Leaving THEN "exit" ELSE "dequeue")
    /\ UNCHANGED <<status, stopped, ctxDone, ticker, queue, counts, QueuedTasks, sub, handles,
                   boot, sc, sh, wg>>

(* Less puts the highest priority first; the heap breaks ties in some way. *)
Best(q) == {t \in q : \A u \in q : Priority[t] >= Priority[u]}

(* Mutant: the task is looked at, but not removed. *)
DequeuePeeks(w) ==
    /\ At(w, "dequeue")
    /\ \/ \E t \in Best(queue) : wk' = [wk EXCEPT ![w] = [at |-> "occupy", task |-> t]]
       \/ queue = {} /\ Goto(w, IF Leaving THEN "exit" ELSE "wait")
    /\ UNCHANGED <<status, stopped, ctxDone, ticker, queue, counts, QueuedTasks, sub, handles,
                   boot, sc, sh, wg>>

(* Mutant: a worker that has to leave does so with the task it has taken. *)
DequeueLeaves(w) ==
    /\ At(w, "dequeue")
    /\ \/ \E t \in Best(queue) :
             /\ queue' = queue \ {t}
             /\ wk' = [wk EXCEPT ![w] = IF Leaving THEN [at |-> "exit", task |-> None]
                                                  ELSE [at |-> "occupy", task |-> t]]
       \/ /\ queue = {} /\ UNCHANGED queue
          /\ Goto(w, IF Leaving THEN "exit" ELSE "wait")
    /\ UNCHANGED <<status, stopped, ctxDone, ticker, counts, QueuedTasks, sub, handles, boot, sc, sh, wg>>

Dequeue(w) ==
    /\ At(w, "dequeue")
    /\ \/ \E t \in Best(queue) :
             /\ queue' = queue \ {t}
             /\ wk' = [wk EXCEPT ![w] = [at |-> "occupy", task |-> t]]
       \/ /\ queue = {} /\ UNCHANGED queue
          /\ Goto(w, IF Leaving THEN "exit" ELSE "wait")
    /\ UNCHANGED <<status, stopped, ctxDone, ticker, counts, QueuedTasks, sub, handles, boot, sc, sh, wg>>

Wait(w) ==
    /\ At(w, "wait")
    /\ Goto(w, "check") \/ (Leaving /\ Goto(w, "exit"))
    /\ UNCHANGED <<status, stopped, ctxDone, ticker, queue, counts, QueuedTasks, sub, handles,
                   boot, sc, sh, wg>>

Occupy(w) ==
    /\ At(w, "occupy") /\ Goto(w, "start")
    /\ idle' = idle - 1 /\ active' = active + 1
    /\ UNCHANGED <<status, stopped, ctxDone, ticker, queue, workers, QueuedTasks, sub, handles, boot, sc,
                   sh, wg>>

setRunning(w) ==
    /\ At(w, "start") /\ Goto(w, "meter")
    /\ st' = [st EXCEPT ![wk[w].task] = "Running"]
    /\ UNCHANGED <<status, stopped, ctxDone, ticker, queue, counts, QueuedTasks, sub, done, boot, sc, sh, wg>>

taskStarted(w) ==
    /\ At(w, "meter") /\ Goto(w, "run")
    /\ QueuedTasks' = (QueuedTasks - 1) % Word
    /\ UNCHANGED <<status, stopped, ctxDone, ticker, queue, counts, sub, handles, boot, sc, sh, wg>>

(* The task returns, and its outcome replaces whatever the status was. *)
setCompleted(w) ==
    /\ At(w, "run")
    /\ wk' = [wk EXCEPT ![w] = [at |-> "release", task |-> None]]
    /\ \E outcome \in Terminal : st' = [st EXCEPT ![wk[w].task] = outcome]
    /\ done' = [done EXCEPT ![wk[w].task] = TRUE]
    /\ UNCHANGED <<status, stopped, ctxDone, ticker, queue, counts, QueuedTasks, sub, boot, sc, sh, wg>>

Release(w) ==
    /\ At(w, "release") /\ Goto(w, "check")
    /\ active' = active - 1 /\ idle' = idle + 1
    /\ UNCHANGED <<status, stopped, ctxDone, ticker, queue, workers, QueuedTasks, sub, handles, boot, sc,
                   sh, wg>>

(* Mutant: an exit takes itself off nothing while tasks are running. *)
ExitLookIdle(w) ==
    /\ At(w, "exit")
    /\ Goto(w, IF active > 0 THEN "done" ELSE "exit:idle")
    /\ workers' = workers - 1
    /\ UNCHANGED <<status, stopped, ctxDone, ticker, queue, active, idle, QueuedTasks, sub, handles, boot,
                   sc, sh, wg>>

(* The deferred function looks which count to take itself off by which is  *)
(* positive, and then takes it.                                            *)
ExitLook(w) ==
    /\ At(w, "exit")
    /\ Goto(w, IF active > 0 THEN "exit:active" ELSE IF idle > 0 THEN "exit:idle" ELSE "done")
    /\ workers' = workers - 1
    /\ UNCHANGED <<status, stopped, ctxDone, ticker, queue, active, idle, QueuedTasks, sub, handles, boot,
                   sc, sh, wg>>

ExitCount(w) ==
    /\ \/ At(w, "exit:active") /\ active' = active - 1 /\ UNCHANGED idle
       \/ At(w, "exit:idle") /\ idle' = idle - 1 /\ UNCHANGED active
    /\ Goto(w, "done")
    /\ UNCHANGED <<status, stopped, ctxDone, ticker, queue, workers, QueuedTasks, sub, handles, boot, sc,
                   sh, wg>>

(* The last one off finds the waiter, if there is one.                     *)
Done(w) ==
    /\ At(w, "done") /\ Goto(w, "off")
    /\ joiner' = IF joiner = "waiting" /\ \A v \in Workers \ {w} : At(v, "off")
                   THEN "freeing" ELSE joiner
    /\ UNCHANGED <<status, stopped, ctxDone, ticker, queue, counts, QueuedTasks, sub, handles,
                   boot, sc, sh, crashed>>

-----------------------------------------------------------------------------
(* Shutdown *)
ShutAt(a, l, next) == sh[a].at = l /\ sh' = [sh EXCEPT ![a].at = next]

(* Mutant: a pool that is stopping can be shut down. *)
ShutBeginAgain(a) ==
    /\ sh[a].at = "idle" /\ ~StatusLocked
    /\ \/ /\ status = "Stopped"
          /\ sh' = [sh EXCEPT ![a].at = "refused"] /\ UNCHANGED status
       \/ /\ status # "Stopped"
          /\ sh' = [sh EXCEPT ![a] = [at |-> "ticker", owed |-> {t \in Tasks : sub[t] = "returned"}]]
          /\ status' = "ShuttingDown"
    /\ UNCHANGED <<stopped, ctxDone, ticker, queue, counts, QueuedTasks, sub, handles, wk, boot, sc, wg>>

(* A pool that is stopped or stopping is left to whoever stops it. *)
ShutBegin(a) ==
    /\ sh[a].at = "idle" /\ ~StatusLocked
    /\ \/ /\ status \in {"Stopped", "ShuttingDown"}
          /\ sh' = [sh EXCEPT ![a].at = "refused"] /\ UNCHANGED status
       \/ /\ status \in {"Idle", "Running"}
          /\ sh' = [sh EXCEPT ![a] = [at |-> "ticker", owed |-> {t \in Tasks : sub[t] = "returned"}]]
          /\ status' = "ShuttingDown"
    /\ UNCHANGED <<stopped, ctxDone, ticker, queue, counts, QueuedTasks, sub, handles, wk, boot, sc, wg>>

ShutTicker(a) ==
    /\ ShutAt(a, "ticker", "drain")
    /\ ticker' = FALSE
    /\ UNCHANGED <<status, stopped, ctxDone, queue, counts, QueuedTasks, sub, handles, wk, boot, sc, wg>>

(* Mutant: the queue is not waited for. *)
ShutDrainAtOnce(a) ==
    /\ ShutAt(a, "drain", "stop")
    /\ UNCHANGED <<status, stopped, ctxDone, ticker, queue, counts, QueuedTasks, sub, handles, wk,
                   boot, sc, wg>>

(* The queue is polled until it is empty. *)
ShutDrain(a) ==
    /\ \/ ShutAt(a, "drain", IF queue = {} THEN "stop" ELSE "poll")
       \/ ShutAt(a, "poll", "drain")
    /\ UNCHANGED <<status, stopped, ctxDone, ticker, queue, counts, QueuedTasks, sub, handles, wk,
                   boot, sc, wg>>

ShutStop(a) ==
    /\ ShutAt(a, "stop", "join")
    /\ stopped' = TRUE /\ joiner' = "ask"
    /\ UNCHANGED <<status, ctxDone, ticker, queue, counts, QueuedTasks, sub, handles, wk, boot, sc, crashed>>

(* workerWg.Wait, in the goroutine that Shutdown has started for it: it is *)
(* over at once where no worker counts. Otherwise the last Done lets the   *)
(* waiter go; should it find a worker when it wakes, it panics.            *)
NobodyCounts == \A w \in Workers : At(w, "off")

Join ==
    /\ \/ joiner = "ask" /\ joiner' = (IF NobodyCounts THEN "closed" ELSE "waiting")
          /\ UNCHANGED crashed
       \/ joiner = "freeing" /\ joiner' = "waking" /\ UNCHANGED crashed
       \/ joiner = "waking" /\ NobodyCounts /\ joiner' = "closed" /\ UNCHANGED crashed
       \/ joiner = "waking" /\ ~NobodyCounts /\ crashed' = TRUE /\ UNCHANGED joiner
    /\ UNCHANGED <<status, stopped, ctxDone, ticker, queue, counts, QueuedTasks, sub, handles, wk,
                   boot, sc, sh>>

(* doneCh is closed. *)
ShutJoin(a) ==
    /\ joiner = "closed"
    /\ ShutAt(a, "join", "joined")
    /\ UNCHANGED <<status, stopped, ctxDone, ticker, queue, counts, QueuedTasks, sub, handles, wk,
                   boot, sc, wg>>

ShutEnd(a) ==
    /\ ShutAt(a, "joined", "ok")
    /\ status' = "Stopped"
    /\ UNCHANGED <<stopped, ctxDone, ticker, queue, counts, QueuedTasks, sub, handles, wk, boot, sc, wg>>

(* Its context ends: wp.ctx is cancelled, and the status stays as it is. *)
ShutGiveUp(a) ==
    /\ Hurry
    /\ \E l \in {"poll", "join", "joined"} : ShutAt(a, l, "failed")
    /\ ctxDone' = TRUE
    /\ UNCHANGED <<status, stopped, ticker, queue, counts, QueuedTasks, sub, handles, wk, boot, sc, wg>>

-----------------------------------------------------------------------------
(* The scaler. A quarter of the workers, at least one, come or go at once. *)
Quarter == IF workers < 8 THEN 1 ELSE workers \div 4

Crowded == Cardinality(queue) >= UpAt /\ workers < MaxWorkers

Slack ==
    /\ workers > 0 /\ 10 * (workers - active) >= DownTenths * workers
    /\ workers > MinWorkers /\ queue = {}

ScaleUpTo   == IF workers + Quarter < MaxWorkers THEN workers + Quarter ELSE MaxWorkers
ScaleDownTo == IF workers - Quarter > MinWorkers THEN workers - Quarter ELSE MinWorkers

(* A tick that came before the ticker was stopped may be acted on after.   *)
ScaleTick ==
    /\ sc.at = "sleep" /\ ticker
    /\ sc' = [sc EXCEPT !.at = "tick"]
    /\ UNCHANGED <<status, stopped, ctxDone, ticker, queue, counts, QueuedTasks, sub, handles, wk,
                   boot, sh, wg>>

(* The counts are read under scaleLock.                                    *)
ScaleLook ==
    /\ sc.at = "tick"
    /\ \/ Crowded /\ sc' = [sc EXCEPT !.at = "adjust", !.target = ScaleUpTo]
       \/ ~Crowded /\ Slack /\ sc' = [sc EXCEPT !.at = "adjust", !.target = ScaleDownTo]
       \/ ~Crowded /\ ~Slack /\ sc' = [sc EXCEPT !.at = "sleep"]
    /\ UNCHANGED <<status, stopped, ctxDone, ticker, queue, counts, QueuedTasks, sub, handles, wk,
                   boot, sh, wg>>

(* adjustWorkers adds what is missing; it takes nobody away. *)
adjustWorkers ==
    /\ \/ /\ sc.at = "adjust"
          /\ sc' = IF workers < sc.target
                     THEN [sc EXCEPT !.at = "adding", !.left = sc.target - workers]
                     ELSE [sc EXCEPT !.at = "sleep", !.target = 0]
          /\ UNCHANGED <<wk, counts, wg>>
       \/ /\ sc.at = "adding" /\ sc.left > 0
          /\ AddWorker
          /\ sc' = [sc EXCEPT !.left = @ - 1]
       \/ /\ sc.at = "adding" /\ sc.left = 0
          /\ sc' = [sc EXCEPT !.at = "sleep", !.target = 0]
          /\ UNCHANGED <<wk, counts, wg>>
    /\ UNCHANGED <<status, stopped, ctxDone, ticker, queue, QueuedTasks, sub, handles, boot, sh>>

ScaleStop ==
    /\ sc.at = "sleep" /\ stopped
    /\ sc' = [sc EXCEPT !.at = "off"]
    /\ UNCHANGED <<status, stopped, ctxDone, ticker, queue, counts, QueuedTasks, sub, handles, wk,
                   boot, sh, wg>>

-----------------------------------------------------------------------------
(* Nothing is left to do, or only waiting without end. *)
Halt == (crashed \/ NobodyCounts) /\ UNCHANGED vars

Starter == StartBegin \/ StartAdd \/ StartEnd

InSubmit(t) == Enqueue(t) \/ taskSubmitted(t) \/ Look(t) \/ tryAddWorker(t)

Work(w) ==
    \/ Check(w) \/ Dequeue(w) \/ Wait(w) \/ Occupy(w) \/ setRunning(w) \/ taskStarted(w)
    \/ setCompleted(w) \/ Release(w) \/ ExitLook(w) \/ ExitCount(w) \/ Done(w)

InShutdown(a) ==
    ShutTicker(a) \/ ShutDrain(a) \/ ShutStop(a) \/ ShutJoin(a) \/ ShutEnd(a)

Scaler == ScaleTick \/ ScaleLook \/ adjustWorkers \/ ScaleStop

(* A program that has panicked does nothing more. *)
Next ==
    \/ /\ ~crashed
       /\ \/ Starter
          \/ \E t \in Tasks : Submit(t) \/ InSubmit(t) \/ Cancel(t)
          \/ \E w \in Workers : Work(w)
          \/ \E a \in Admins : ShutBegin(a) \/ InShutdown(a) \/ ShutGiveUp(a)
          \/ Join
          \/ Scaler
    \/ Halt

Spec == Init /\ [][Next]_vars

(***************************************************************************)
(* Fairness. Every goroutine is scheduled, timers and ticks come, and a    *)
(* task that runs returns. Nobody has to submit, start, cancel or shut     *)
(* down, and Shutdown's context need not end.                              *)
(***************************************************************************)
FairSpec ==
    /\ Spec
    /\ WF_vars(~crashed /\ (StartAdd \/ StartEnd))
    /\ WF_vars(~crashed /\ Scaler) /\ WF_vars(~crashed /\ Join)
    /\ \A t \in Tasks : WF_vars(~crashed /\ InSubmit(t))
    /\ \A w \in Workers : WF_vars(~crashed /\ Work(w))
    /\ \A a \in Admins : WF_vars(~crashed /\ InShutdown(a))

-----------------------------------------------------------------------------
(* Every variable keeps to its type. *)
TypeOK ==
    /\ status \in {"Idle", "Running", "ShuttingDown", "Stopped"}
    /\ stopped \in BOOLEAN /\ ctxDone \in BOOLEAN /\ ticker \in BOOLEAN
    /\ queue \in SUBSET Tasks
    /\ workers \in Nat /\ active \in Int /\ idle \in Int
    /\ QueuedTasks \in 0..(Word - 1)
    /\ sub \in [Tasks -> {"new", "refused", "enqueue", "meter", "look", "size", "add", "returned"}]
    /\ st \in [Tasks -> {"Pending", "Running"} \cup Terminal]
    /\ done \in [Tasks -> BOOLEAN]
    /\ wk \in [Workers -> [at : {"off", "check", "dequeue", "wait", "occupy", "start", "meter",
                                 "run", "release", "exit", "exit:active", "exit:idle", "done"},
                           task : Tasks \cup {None}]]
    /\ boot \in [adding : BOOLEAN, left : Nat, starts : Nat]
    /\ sc \in [at : {"off", "sleep", "tick", "adjust", "adding"}, target : Nat, left : Nat]
    /\ sh \in [Admins -> [at : {"idle", "refused", "ticker", "drain", "poll", "stop", "join",
                                "joined", "ok", "failed"}, owed : SUBSET Tasks]]
    /\ joiner \in {"none", "ask", "waiting", "freeing", "waking", "closed"} /\ crashed \in BOOLEAN

Where(ls) == {w \in Workers : wk[w].at \in ls}

Accepted(t) == sub[t] \in {"meter", "look", "size", "add", "returned"}
Holders(t)  == {w \in Workers : wk[w].task = t}

(* No task is lost and none is taken twice: once queued, it is in the      *)
(* queue, or in the hands of one worker, or its handle is done; and not    *)
(* in the queue and in somebody's hands at once.                           *)
TaskKept ==
    \A t \in Tasks :
        /\ Cardinality(Holders(t)) <= 1
        /\ t \in queue => Holders(t) = {} /\ Accepted(t)
        /\ Holders(t) # {} => Accepted(t)
        /\ Accepted(t) => t \in queue \/ Holders(t) # {} \/ done[t]

(* Although an exiting worker may take itself off the wrong count, the two *)
(* counts together are the number of workers, the total is, and the exit   *)
(* always finds a count to take itself off.                                *)
CountsSum ==
    /\ workers = Cardinality(Where({"check", "dequeue", "wait", "occupy", "start", "meter",
                                    "run", "release", "exit"}))
    /\ active + idle = Cardinality(Workers \ Where({"off", "done"}))

(* QueuedTasks is the length of the queue up to the changes under way,     *)
(* modulo the wrap of the counter.                                         *)
QueuedSettles ==
    QueuedTasks = (Cardinality(queue) + Cardinality(Where({"occupy", "start", "meter"}))
                     - Cardinality({t \in Tasks : sub[t] = "meter"})) % Word

(* The counters agree with the goroutines and the queue they count (and    *)
(* every variable keeps to its type, QueuedTasks within its word).         *)
CountersAgree == TypeOK /\ CountsSum /\ QueuedSettles

(* Submitters and the scaler race to add workers, and never exceed the     *)
(* maximum, while the pool is started once.                                *)
MaxWorkersKept == workers <= MaxWorkers

(* What had been submitted when a Shutdown began is done when it returns   *)
(* without an error.                                                       *)
ShutdownDrains == \A a \in Admins : sh[a].at = "ok" => \A t \in sh[a].owed : done[t]

(* stopCh, made anew by each Start, is never closed twice: that panics.    *)
StopChClosedOnce == [][\A a \in Admins : ShutStop(a) => ~stopped]_vars

(* A Shutdown makes the program panic only where it overtook a Submit, or  *)
(* the scaler: while workerWg is waited for, one of them adds a worker to  *)
(* none. A pool of fixed size whose Submits have all returned before it is *)
(* shut down never panics, restarted or not.                               *)
Overtaken(a) == \E t \in Tasks \ sh[a].owed : sub[t] = "returned"

CrashNeedsOvertaking ==
    crashed => \/ MinWorkers # MaxWorkers
               \/ \E a \in Admins : sh[a].at \in {"join", "failed"} /\ Overtaken(a)

(* Liveness, in the pool's first life. After a restart there is none: a    *)
(* Submit that was overtaken by Shutdown adds a worker which will leave,   *)
(* Start counts it among those it needs, and the pool runs without one.    *)
Restarted == MaxStarts - boot.starts > 1

(* A submitted task is done in the end, unless a Shutdown comes.           *)
TasksFinish ==
    \A t \in Tasks : sub[t] = "returned" ~> done[t] \/ \E a \in Admins : sh[a].at # "idle"

(* A Shutdown whose context lasts ends, although submitters of before may  *)
(* still add tasks and workers, unless it ends in the panic.               *)
ShutdownReturns ==
    \A a \in Admins :
       sh[a].at # "idle" ~> sh[a].at \in {"ok", "refused", "failed"} \/ Restarted \/ crashed

(* Whatever is submitted and whoever waits, work comes to its end.         *)
WorkEnds == TasksFinish /\ ShutdownReturns
=============================================================================
