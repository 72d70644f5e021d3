----------------------------- MODULE Component ------------------------------
(***************************************************************************)
(* ExynosC2Component: the codec2 component between a client and a chain of *)
(* filters.  Client calls run on client threads under mStateMutex; queued  *)
(* works wait in mWorkQueue; tasks on a one-thread session pool move them  *)
(* to the filter and mPendingWorkQueue and hand the answers back.          *)
(*                                                                         *)
(* The pool is ThreadPool with its contract: accepted tasks of the current *)
(* session run in order, one at a time, or are discarded.  drain_nb()      *)
(* closes a session with a work of its own making; the answer to that work *)
(* opens the next one.  The filter chain is an environment that answers    *)
(* each work it holds at most once and forgets the rest when it is flushed *)
(* or stopped.  mC2WorkCount is only logged and is left out, and so are    *)
(* mIsAfterEOS, which only marks what is returned, and the copies that an  *)
(* answer with several output buffers sends ahead of its work.             *)
(***************************************************************************)
EXTENDS Integers, Sequences, FiniteSets, SequencesExt

CONSTANTS
  Clients,          \* client threads
  MaxWorks,         \* bound on the C2Works the clients queue
  MaxBatch,         \* C2Works in one queue_nb call
  MaxDrains,        \* bound on the drains they ask for
  None, Pool        \* null; the pool's thread

ASSUME ComponentAssumption ==
  /\ MaxWorks \in Nat /\ MaxBatch \in Nat /\ MaxDrains \in Nat
  /\ None \notin Nat
  /\ Pool \notin Clients /\ None \notin Clients /\ None # Pool

Queued == 1..MaxWorks
Drains == (MaxWorks + 1)..(MaxWorks + MaxDrains)    \* made by drain_nb()
Works  == Queued \union Drains

VARIABLES
  mState, mInit,    \* ComponentState
  stateLock,        \* who holds mStateMutex: a client or None
  mWorkQueue, workLock,         \* ExynosMutex<ExynosQueue<WorkQueueElement>>
  mPendingWorkQueue, pendLock,
  mPendingFlushCount,
  mCallbackListener,            \* is a listener set?
  tasks,            \* the pool's list of task packages
  mCurSession, mNextSession, mExit,   \* of the pool
  worker, task, left, hand,     \* the pool's thread: where it is, its task,
                    \* doQueue rounds left, the work between filter and queue
  filter,           \* works the filter chain holds
  answering,        \* the answer that its last thread is handing over, or None
  call, after,      \* [Clients -> ...]: where a call is, what it is part of
  batch,            \* [Clients -> Nat]: items of the queue_nb call
  future,           \* the result a state lock holder waits for
  outcome, returns, \* history: what became of a work, how often it came back
  overtaken         \* history: works that slipped past a flush or a reset: sent to
                    \* the filters while a doFlush waited, or queued in the gap in
                    \* which reset() and release() let go of the state lock

sessionVars == <<mCurSession, mNextSession>>
poolVars   == <<tasks, sessionVars, mExit, future>>
filterVars == <<filter, answering>>
workerVars == <<worker, task, left, hand>>
queueVars  == <<mWorkQueue, mPendingWorkQueue>>
lockVars   == <<workLock, pendLock>>
workVars   == <<outcome, returns>>
callVars   == <<call, after, batch>>
stateVars  == <<mState, mInit, stateLock>>
componentVars == <<stateVars, queueVars, lockVars, mPendingFlushCount,
                   mCallbackListener, poolVars, workerVars, filterVars, callVars,
                   workVars, overtaken>>

Task(kind, arg, session) == [kind |-> kind, arg |-> arg, session |-> session]
Kinds == {"trigger", "doQueue", "answer", "doFlush", "doStart", "doStop",
          "doReset", "doRelease", "doNotifyError"}
Tasks == [kind : Kinds, arg : Nat, session : 0..MaxDrains]
State == {"UNLOADED", "LOADED", "RUNNING"}   \* TRIPPED and ERROR are never set

\* The null pointer is no task and no result.
ASSUME NullAssumption == None \notin Tasks /\ None \notin {"waiting", "true", "false"}

Init ==
  /\ mState = "LOADED" /\ mInit = FALSE /\ stateLock = None
  /\ mWorkQueue = <<>> /\ mPendingWorkQueue = <<>>
  /\ workLock = None /\ pendLock = None
  /\ mPendingFlushCount = 0
  /\ mCallbackListener \in BOOLEAN
  /\ tasks = <<>> /\ mCurSession = 0 /\ mNextSession = 0 /\ mExit = FALSE /\ future = None
  /\ worker = "idle" /\ task = None /\ left = 0 /\ hand = None
  /\ filter = {} /\ answering = None
  /\ call = [c \in Clients |-> "idle"] /\ after = [c \in Clients |-> "idle"]
  /\ batch = [c \in Clients |-> 0]
  /\ outcome = [w \in Works |-> "new"] /\ returns = [w \in Works |-> 0]
  /\ overtaken = {}

-----------------------------------------------------------------------------
(* The pool and the client as the component uses them.                     *)

\* Refused once the pool has stopped.
Push(t) == tasks' = IF mExit THEN tasks ELSE Append(tasks, t)

\* toss() on a client's thread: under the state lock the next session that it
\* reads is still the next one when it pushes.
Toss(kind, arg) == Push(Task(kind, arg, mNextSession))

\* Mutation: the caller waits even if the pool refused the package.
PostTask_Unchecked(kind) ==
  /\ Toss(kind, 0)
  /\ future' = "waiting"

\* post() and the wait for its result; an invalid future counts as false.
PostTask(kind) ==
  /\ Toss(kind, 0)
  /\ future' = IF mExit THEN "false" ELSE "waiting"

\* Mutation: a discarded doFlush package does not run its notify.
PoolFlush_NoNotify ==
  /\ tasks' = <<>>
  /\ mCurSession' = 0 /\ mNextSession' = 0
  /\ UNCHANGED mPendingFlushCount

\* flush() and clearSession() of the pool, in one step: a task pushed between the
\* two is as good as one pushed after them.  A discarded doFlush package runs its
\* notify.
FlushTasks == {i \in DOMAIN tasks : tasks[i].kind = "doFlush"}
PoolFlush ==
  /\ tasks' = <<>>
  /\ mCurSession' = 0 /\ mNextSession' = 0
  /\ mPendingFlushCount' = mPendingFlushCount - Cardinality(FlushTasks)

\* Works W leave the component.
Settle(W, how) ==
  /\ outcome' = [w \in Works |-> IF w \in W THEN how ELSE outcome[w]]
  /\ returns' = [w \in Works |-> IF w \in W /\ how # "dropped"
                                 THEN returns[w] + 1 ELSE returns[w]]

Held == {w \in Works : outcome[w] = "held"}

\* sendC2Work(): without a listener the work is destroyed.
Send(w) == Settle({w}, IF mCallbackListener THEN "done" ELSE "dropped")

At(c, pc)     == call[c] = pc
Goto(c, pc)   == call' = [call EXCEPT ![c] = pc]
Enter(c, pc)  == /\ At(c, "idle") /\ stateLock = None
                 /\ stateLock' = c
                 /\ Goto(c, pc)
Leave(c)      == stateLock' = None /\ Goto(c, "idle")
-----------------------------------------------------------------------------
(* queue_nb and drain_nb.                                                  *)

\* Items are appended to the work queue under the state and queue locks.
Queue(c, n) ==
  LET next == Cardinality({w \in Queued : outcome[w] # "new"}) + 1
      items == [i \in 1..n |-> next + i - 1]
  IN /\ mState = "RUNNING"
     /\ Enter(c, "queue.toss")
     /\ workLock = None
     /\ next + n - 1 <= MaxWorks
     /\ mWorkQueue' = mWorkQueue \o items
     /\ batch' = [batch EXCEPT ![c] = n]
     /\ outcome' = [w \in Works |-> IF w \in ToSet(items) THEN "held" ELSE outcome[w]]
     /\ UNCHANGED <<mState, mInit, mPendingWorkQueue, lockVars, mPendingFlushCount,
                    mCallbackListener, poolVars, workerVars, filterVars, after, returns,
                    overtaken>>

\* inputProcessTrigger(): one task for the whole batch, of the next session.
QueueToss(c) ==
  /\ At(c, "queue.toss")
  /\ Toss("trigger", batch[c])
  /\ Leave(c)
  /\ batch' = [batch EXCEPT ![c] = 0]
  /\ UNCHANGED <<mState, mInit, queueVars, lockVars, mPendingFlushCount,
                 mCallbackListener, sessionVars, mExit, future, workerVars, filterVars,
                 after, workVars, overtaken>>

\* The element of a drain has an empty C2Work of its own.
DrainBegin(c) ==
  /\ mState = "RUNNING"
  /\ Enter(c, "drain.toss")
  /\ workLock = None
  /\ \E d \in Drains :
       /\ \A e \in Drains : outcome[e] = "new" <=> e >= d
       /\ mWorkQueue' = Append(mWorkQueue, d)
       /\ outcome' = [outcome EXCEPT ![d] = "held"]
  /\ UNCHANGED <<mState, mInit, mPendingWorkQueue, lockVars, mPendingFlushCount,
                 mCallbackListener, poolVars, workerVars, filterVars, after, batch,
                 returns, overtaken>>

\* The doQueue task still belongs to the session that the drain closes.
DrainToss(c) ==
  /\ At(c, "drain.toss")
  /\ Toss("doQueue", 0)
  /\ mNextSession' = mNextSession + 1
  /\ Leave(c)
  /\ UNCHANGED <<mState, mInit, queueVars, lockVars, mPendingFlushCount,
                 mCallbackListener, mCurSession, mExit, future, workerVars, filterVars, after, batch,
                 workVars, overtaken>>

-----------------------------------------------------------------------------
(* flush_sm: the state lock and, once taken, both queue locks are held to   *)
(* the end of the call.                                                     *)

\* Mutation: the pending flush is not counted.
FlushBegin_NoCount(c) ==
  /\ mState = "RUNNING"
  /\ Enter(c, "flush.work")
  /\ UNCHANGED <<mState, mInit, queueVars, lockVars, mPendingFlushCount,
                 mCallbackListener, poolVars, workerVars, filterVars, after, batch,
                 workVars, overtaken>>

FlushBegin(c) ==
  /\ mState = "RUNNING"
  /\ Enter(c, "flush.work")
  /\ mPendingFlushCount' = mPendingFlushCount + 1
  /\ UNCHANGED <<mState, mInit, queueVars, lockVars, mCallbackListener, poolVars,
                 workerVars, filterVars, after, batch, workVars, overtaken>>

\* flushQueue() on the work queue; the C2Work of a drain is returned as well.
FlushWorkQueue(c) ==
  /\ At(c, "flush.work")
  /\ workLock = None
  /\ workLock' = c
  /\ mWorkQueue' = <<>>
  /\ Settle(ToSet(mWorkQueue), "flushed")
  /\ Goto(c, "flush.pending")
  /\ UNCHANGED <<stateVars, mPendingWorkQueue, pendLock, mPendingFlushCount,
                 mCallbackListener, poolVars, workerVars, filterVars, after, batch,
                 overtaken>>

FlushPendingWorkQueue(c) ==
  /\ At(c, "flush.pending")
  /\ pendLock = None
  /\ pendLock' = c
  /\ mPendingWorkQueue' = <<>>
  /\ Settle(ToSet(mPendingWorkQueue), "flushed")
  /\ Goto(c, "flush.pool")
  /\ UNCHANGED <<stateVars, mWorkQueue, workLock, mPendingFlushCount,
                 mCallbackListener, poolVars, workerVars, filterVars, after, batch,
                 overtaken>>

FlushPool(c) ==
  /\ At(c, "flush.pool")
  /\ PoolFlush
  /\ Goto(c, "flush.toss")
  /\ UNCHANGED <<stateVars, queueVars, lockVars, mCallbackListener, mExit, future,
                 workerVars, filterVars, after, batch, workVars, overtaken>>

\* doFlush is handed to the pool; the call returns and gives up its locks.
FlushToss(c) ==
  /\ At(c, "flush.toss")
  /\ Toss("doFlush", 0)
  /\ workLock' = None /\ pendLock' = None
  /\ Leave(c)
  /\ UNCHANGED <<mState, mInit, queueVars, mPendingFlushCount, mCallbackListener,
                 sessionVars, mExit, future, workerVars, filterVars, after, batch,
                 workVars, overtaken>>

-----------------------------------------------------------------------------
(* start, stop, reset, release and setListener_vb.                         *)

StartBegin(c) ==
  /\ mState = "LOADED"
  /\ Enter(c, "start.wait")
  /\ IF mInit THEN UNCHANGED <<tasks, future>> ELSE PostTask("doStart")
  /\ UNCHANGED <<mState, mInit, queueVars, lockVars, mPendingFlushCount,
                 mCallbackListener, sessionVars, mExit, workerVars, filterVars, after,
                 batch, workVars, overtaken>>

\* Mutation: the result of doStart is not looked at.
StartEnd_IgnoreResult(c) ==
  /\ At(c, "start.wait")
  /\ future # "waiting"
  /\ mInit' = TRUE /\ mState' = "RUNNING"
  /\ future' = None
  /\ Leave(c)
  /\ UNCHANGED <<queueVars, lockVars, mPendingFlushCount, mCallbackListener, tasks,
                 sessionVars, mExit, workerVars, filterVars, after, batch, workVars,
                 overtaken>>

\* A failed doStart leaves the component loaded (C2_NO_MEMORY).
StartEnd(c) ==
  /\ At(c, "start.wait")
  /\ future # "waiting"
  /\ IF mInit \/ future = "true"
     THEN mInit' = TRUE /\ mState' = "RUNNING"
     ELSE UNCHANGED <<mInit, mState>>
  /\ future' = None
  /\ Leave(c)
  /\ UNCHANGED <<queueVars, lockVars, mPendingFlushCount, mCallbackListener, tasks,
                 sessionVars, mExit, workerVars, filterVars, after, batch, workVars,
                 overtaken>>

\* stop(), called by a client or, with the state lock released, by reset() or
\* release() ("reset.stop", "release.stop"), which go on whatever it returns.
StopBegin(c) ==
  /\ stateLock = None
  /\ call[c] \in {"idle", "reset.stop", "release.stop"}
  /\ IF mState = "RUNNING"
     THEN /\ mState' = "LOADED"
          /\ stateLock' = c
          /\ Goto(c, IF mInit THEN "stop.pool" ELSE "stop.clear")
          /\ after' = [after EXCEPT ![c] = CASE At(c, "reset.stop") -> "reset.lock"
                                             [] At(c, "release.stop") -> "release.lock"
                                             [] OTHER -> "idle"]
     ELSE /\ ~At(c, "idle")
          /\ Goto(c, IF At(c, "reset.stop") THEN "reset.lock" ELSE "release.lock")
          /\ UNCHANGED <<mState, stateLock, after>>
  /\ UNCHANGED <<mInit, queueVars, lockVars, mPendingFlushCount, mCallbackListener,
                 poolVars, workerVars, filterVars, batch, workVars, overtaken>>

StopPool(c) ==
  /\ At(c, "stop.pool")
  /\ PoolFlush
  /\ Goto(c, "stop.post")
  /\ UNCHANGED <<stateVars, queueVars, lockVars, mCallbackListener, mExit, future,
                 workerVars, filterVars, after, batch, workVars, overtaken>>

StopPost(c) ==
  /\ At(c, "stop.post")
  /\ PostTask("doStop")
  /\ Goto(c, "stop.wait")
  /\ UNCHANGED <<stateVars, queueVars, lockVars, mPendingFlushCount,
                 mCallbackListener, sessionVars, mExit, workerVars, filterVars, after,
                 batch, workVars, overtaken>>

StopWait(c) ==
  /\ At(c, "stop.wait")
  /\ future # "waiting"
  /\ mInit' = FALSE
  /\ future' = None
  /\ Goto(c, "stop.clear")
  /\ UNCHANGED <<mState, stateLock, queueVars, lockVars, mPendingFlushCount,
                 mCallbackListener, tasks, sessionVars, mExit, workerVars, filterVars,
                 after, batch, workVars, overtaken>>

\* Mutation: the pending queue is not cleared.
StopClear_WorkQueueOnly(c) ==
  /\ At(c, "stop.clear")
  /\ workLock = None
  /\ mWorkQueue' = <<>> /\ UNCHANGED mPendingWorkQueue
  /\ Settle(ToSet(mWorkQueue), "dropped")
  /\ stateLock' = None
  /\ Goto(c, after[c])
  /\ after' = [after EXCEPT ![c] = "idle"]
  /\ UNCHANGED <<mState, mInit, lockVars, mPendingFlushCount, mCallbackListener,
                 poolVars, workerVars, filterVars, batch, overtaken>>

\* Both queues are cleared under their locks: the works in them are destroyed.
StopClear(c) ==
  /\ At(c, "stop.clear")
  /\ workLock = None /\ pendLock = None
  /\ mWorkQueue' = <<>> /\ mPendingWorkQueue' = <<>>
  /\ Settle(ToSet(mWorkQueue) \union ToSet(mPendingWorkQueue), "dropped")
  /\ stateLock' = None
  /\ Goto(c, after[c])
  /\ after' = [after EXCEPT ![c] = "idle"]
  /\ UNCHANGED <<mState, mInit, lockVars, mPendingFlushCount, mCallbackListener,
                 poolVars, workerVars, filterVars, batch, overtaken>>

\* reset(): a component without mInit only changes its state, whatever it was.
ResetBegin(c) ==
  /\ At(c, "idle") /\ stateLock = None
  /\ IF mInit
     THEN /\ IF mState = "RUNNING"
             THEN Goto(c, "reset.stop") /\ UNCHANGED stateLock
             ELSE Goto(c, "reset.pool") /\ stateLock' = c
          /\ UNCHANGED mState
     ELSE mState' = "LOADED" /\ UNCHANGED <<stateLock, call>>
  /\ UNCHANGED <<mInit, queueVars, lockVars, mPendingFlushCount, mCallbackListener,
                 poolVars, workerVars, filterVars, after, batch, workVars, overtaken>>

ResetLock(c) ==
  /\ At(c, "reset.lock") /\ stateLock = None
  /\ stateLock' = c
  /\ Goto(c, "reset.pool")
  /\ overtaken' = overtaken \union Held
  /\ UNCHANGED <<mState, mInit, queueVars, lockVars, mPendingFlushCount,
                 mCallbackListener, poolVars, workerVars, filterVars, after, batch,
                 workVars>>

ResetPool(c) ==
  /\ At(c, "reset.pool")
  /\ PoolFlush
  /\ Goto(c, "reset.post")
  /\ UNCHANGED <<stateVars, queueVars, lockVars, mCallbackListener, mExit, future,
                 workerVars, filterVars, after, batch, workVars, overtaken>>

ResetPost(c) ==
  /\ At(c, "reset.post")
  /\ PostTask("doReset")
  /\ Goto(c, "reset.wait")
  /\ UNCHANGED <<stateVars, queueVars, lockVars, mPendingFlushCount,
                 mCallbackListener, sessionVars, mExit, workerVars, filterVars, after,
                 batch, workVars, overtaken>>

ResetEnd(c) ==
  /\ At(c, "reset.wait")
  /\ future # "waiting"
  /\ mInit' = FALSE /\ mState' = "LOADED"
  /\ future' = None
  /\ Leave(c)
  /\ UNCHANGED <<queueVars, lockVars, mPendingFlushCount, mCallbackListener, tasks,
                 sessionVars, mExit, workerVars, filterVars, after, batch, workVars,
                 overtaken>>

\* release(): a released component returns at once, a running one is stopped.
ReleaseBegin(c) ==
  /\ At(c, "idle") /\ stateLock = None
  /\ mState # "UNLOADED"
  /\ IF mState = "RUNNING"
     THEN Goto(c, "release.stop") /\ UNCHANGED <<mState, stateLock>>
     ELSE Goto(c, "release.pool") /\ stateLock' = c /\ mState' = "UNLOADED"
  /\ UNCHANGED <<mInit, queueVars, lockVars, mPendingFlushCount, mCallbackListener,
                 poolVars, workerVars, filterVars, after, batch, workVars, overtaken>>

ReleaseLock(c) ==
  /\ At(c, "release.lock") /\ stateLock = None
  /\ stateLock' = c
  /\ mState' = "UNLOADED"
  /\ Goto(c, "release.pool")
  /\ overtaken' = overtaken \union Held
  /\ UNCHANGED <<mInit, queueVars, lockVars, mPendingFlushCount, mCallbackListener,
                 poolVars, workerVars, filterVars, after, batch, workVars>>

ReleasePool(c) ==
  /\ At(c, "release.pool")
  /\ PoolFlush
  /\ Goto(c, "release.post")
  /\ UNCHANGED <<stateVars, queueVars, lockVars, mCallbackListener, mExit, future,
                 workerVars, filterVars, after, batch, workVars, overtaken>>

ReleasePost(c) ==
  /\ At(c, "release.post")
  /\ PostTask("doRelease")
  /\ Goto(c, "release.wait")
  /\ UNCHANGED <<stateVars, queueVars, lockVars, mPendingFlushCount,
                 mCallbackListener, sessionVars, mExit, workerVars, filterVars, after,
                 batch, workVars, overtaken>>

\* The answer is there: the pool is told to stop.
ReleaseStopPool(c) ==
  /\ At(c, "release.wait")
  /\ future # "waiting"
  /\ future' = None
  /\ mExit' = TRUE
  /\ Goto(c, "release.join")
  /\ UNCHANGED <<stateVars, queueVars, lockVars, mPendingFlushCount,
                 mCallbackListener, tasks, sessionVars, workerVars, filterVars, after,
                 batch, workVars, overtaken>>

ReleaseEnd(c) ==
  /\ At(c, "release.join")
  /\ worker = "exited"
  /\ tasks' = <<>>
  /\ mPendingFlushCount' = mPendingFlushCount - Cardinality(FlushTasks)
  /\ Leave(c)
  /\ UNCHANGED <<mState, mInit, queueVars, lockVars, mCallbackListener, sessionVars,
                 mExit, future, workerVars, filterVars, after, batch, workVars, overtaken>>

\* setListener_vb(): a running component only lets go of its listener.
SetListener(c, set) ==
  /\ At(c, "idle") /\ stateLock = None
  /\ mState = "RUNNING" => ~set
  /\ mCallbackListener' = set
  /\ UNCHANGED <<stateVars, queueVars, lockVars, mPendingFlushCount, poolVars,
                 workerVars, filterVars, callVars, workVars, overtaken>>

-----------------------------------------------------------------------------
(* The pool's thread.                                                      *)

\* The first task of the current session.  The search is one step here, as if no
\* other thread cleared the sessions during it: ThreadPool has it step by step.
WorkerTake ==
  /\ worker = "idle"
  /\ \E i \in DOMAIN tasks :
       /\ tasks[i].session = mCurSession
       /\ \A j \in 1..(i - 1) : tasks[j].session # mCurSession
       /\ task' = tasks[i]
       /\ tasks' = RemoveAt(tasks, i)
       /\ worker' = IF tasks[i].kind = "doQueue" THEN "doQueue" ELSE "begin"
  /\ UNCHANGED <<stateVars, queueVars, lockVars, mPendingFlushCount,
                 mCallbackListener, sessionVars, mExit, future, left, hand, filterVars,
                 callVars, workVars, overtaken>>

WorkerExit ==
  /\ worker = "idle" /\ mExit
  /\ worker' = "exited"
  /\ UNCHANGED <<stateVars, queueVars, lockVars, mPendingFlushCount,
                 mCallbackListener, poolVars, task, left, hand, filterVars, callVars,
                 workVars, overtaken>>

Running(kind) == worker = "begin" /\ task.kind = kind
Done == worker' = "idle" /\ task' = None


\* A trigger does nothing while a flush is pending.
Trigger ==
  /\ Running("trigger")
  /\ IF mPendingFlushCount > 0
     THEN Done /\ UNCHANGED left
     ELSE worker' = "loop" /\ left' = task.arg /\ UNCHANGED task
  /\ UNCHANGED <<stateVars, queueVars, lockVars, mPendingFlushCount,
                 mCallbackListener, poolVars, hand, filterVars, callVars, workVars,
                 overtaken>>

\* for (i < workCount && !isEmpty()): a short hold of the queue's lock.
TriggerLoop ==
  /\ worker = "loop"
  /\ IF left > 0
     THEN /\ workLock = None
          /\ IF mWorkQueue # <<>>
             THEN worker' = "doQueue" /\ left' = left - 1 /\ UNCHANGED task
             ELSE Done /\ left' = 0
     ELSE Done /\ UNCHANGED left
  /\ UNCHANGED <<stateVars, queueVars, lockVars, mPendingFlushCount,
                 mCallbackListener, poolVars, hand, filterVars, callVars, workVars,
                 overtaken>>

\* doQueue() finds nothing.
DoQueueNothing ==
  /\ worker = "doQueue"
  /\ workLock = None
  /\ mWorkQueue = <<>>
  /\ worker' = "loop"
  /\ UNCHANGED <<stateVars, queueVars, lockVars, mPendingFlushCount,
                 mCallbackListener, poolVars, task, left, hand, filterVars, callVars,
                 workVars, overtaken>>

\* onQueue() rejects the input: the work goes back at once.  A decoder rejects
\* every drain, whose work has no input.
DoQueueReject ==
  /\ worker = "doQueue"
  /\ workLock = None
  /\ mWorkQueue # <<>>
  /\ mWorkQueue' = Tail(mWorkQueue)
  /\ Send(Head(mWorkQueue))
  /\ worker' = "loop"
  /\ UNCHANGED <<stateVars, mPendingWorkQueue, lockVars, mPendingFlushCount,
                 mCallbackListener, poolVars, task, left, hand, filterVars, callVars,
                 overtaken>>

\* Mutation: the lock of the work queue is not held until the registration.
DoQueueSend_Unlocked ==
  /\ worker = "doQueue"
  /\ workLock = None
  /\ mWorkQueue # <<>>
  /\ mWorkQueue' = Tail(mWorkQueue)
  /\ hand' = Head(mWorkQueue)
  /\ filter' = filter \union {Head(mWorkQueue)}
  /\ UNCHANGED answering
  /\ overtaken' = IF mPendingFlushCount > 0 THEN overtaken \union {Head(mWorkQueue)}
                                            ELSE overtaken
  /\ worker' = "register"
  /\ UNCHANGED <<stateVars, mPendingWorkQueue, lockVars, mPendingFlushCount,
                 mCallbackListener, poolVars, task, left, callVars, workVars>>

\* queueFilterWork(), first half: the filter gets the work; the lock of the
\* work queue is held until the work is registered as pending.
DoQueueSend ==
  /\ worker = "doQueue"
  /\ workLock = None
  /\ mWorkQueue # <<>>
  /\ workLock' = Pool
  /\ mWorkQueue' = Tail(mWorkQueue)
  /\ hand' = Head(mWorkQueue)
  /\ filter' = filter \union {Head(mWorkQueue)}
  /\ UNCHANGED answering
  /\ overtaken' = IF mPendingFlushCount > 0 THEN overtaken \union {Head(mWorkQueue)}
                                            ELSE overtaken
  /\ worker' = "register"
  /\ UNCHANGED <<stateVars, mPendingWorkQueue, pendLock, mPendingFlushCount,
                 mCallbackListener, poolVars, task, left, callVars, workVars>>

\* queueFilterWork(), second half.
DoQueueRegister ==
  /\ worker = "register"
  /\ pendLock = None
  /\ mPendingWorkQueue' = Append(mPendingWorkQueue, hand)
  /\ hand' = None
  /\ workLock' = None
  /\ worker' = "loop"
  /\ UNCHANGED <<stateVars, mWorkQueue, pendLock, mPendingFlushCount,
                 mCallbackListener, poolVars, task, left, filterVars, callVars, workVars,
                 overtaken>>

\* filterWorkDone()'s task drops the answer while a flush is pending.
Answer ==
  /\ Running("answer")
  /\ IF mPendingFlushCount > 0 THEN Done ELSE worker' = "answer" /\ UNCHANGED task
  /\ UNCHANGED <<stateVars, queueVars, lockVars, mPendingFlushCount,
                 mCallbackListener, poolVars, left, hand, filterVars, callVars, workVars,
                 overtaken>>

\* A work goes back to the client; the end of a drain opens the next session and
\* its own work is destroyed.
AnswerWork(w) ==
  IF w \in Drains THEN Settle({w}, "dropped") /\ mCurSession' = mCurSession + 1
                  ELSE Send(w) /\ UNCHANGED mCurSession

\* Mutation: the work is found in the pending queue but not taken out.
DoFilterWorkDone_Find ==
  /\ worker = "answer"
  /\ pendLock = None
  /\ IF task.arg \in ToSet(mPendingWorkQueue) THEN AnswerWork(task.arg)
                                                ELSE UNCHANGED <<workVars, mCurSession>>
  /\ worker' = "idle" /\ task' = None
  /\ UNCHANGED <<stateVars, queueVars, lockVars, mPendingFlushCount,
                 mCallbackListener, tasks, mNextSession, mExit, future, left, hand,
                 filterVars, callVars, overtaken>>

\* doFilterWorkDone(), under the lock of the pending queue throughout: the first
\* element with the work is taken out.
DoFilterWorkDone ==
  /\ worker = "answer"
  /\ pendLock = None
  /\ IF task.arg \in ToSet(mPendingWorkQueue)
     THEN /\ \E i \in DOMAIN mPendingWorkQueue :
               /\ mPendingWorkQueue[i] = task.arg
               /\ \A j \in 1..(i - 1) : mPendingWorkQueue[j] # task.arg
               /\ mPendingWorkQueue' = RemoveAt(mPendingWorkQueue, i)
          /\ AnswerWork(task.arg)
     ELSE UNCHANGED <<mPendingWorkQueue, workVars, mCurSession>>
  /\ Done
  /\ UNCHANGED <<stateVars, mWorkQueue, lockVars, mPendingFlushCount,
                 mCallbackListener, tasks, mNextSession, mExit, future, left, hand,
                 filterVars, callVars, overtaken>>

\* doFlush(): the filters are flushed, which waits until the chain's thread has
\* handed over the answer it was about to give ...
DoFlush ==
  /\ Running("doFlush")
  /\ answering = None
  /\ filter' = {} /\ UNCHANGED answering
  /\ worker' = "flushed"
  /\ UNCHANGED <<stateVars, queueVars, lockVars, mPendingFlushCount,
                 mCallbackListener, poolVars, task, left, hand, callVars, workVars,
                 overtaken>>

\* ... and the package's notify runs when the thread lets go of it.
DoFlushNotify ==
  /\ worker = "flushed"
  /\ mPendingFlushCount' = mPendingFlushCount - 1
  /\ Done
  /\ UNCHANGED <<stateVars, queueVars, lockVars, mCallbackListener, poolVars, left,
                 hand, filterVars, callVars, workVars, overtaken>>

\* doStart(): onStart() may fail, and the error is reported by another task.
DoStart(ok) ==
  /\ Running("doStart")
  /\ future' = IF ok THEN "true" ELSE "false"
  /\ tasks' = IF ok THEN tasks ELSE Append(tasks, Task("doNotifyError", 0, mCurSession))
  /\ Done
  /\ UNCHANGED <<stateVars, queueVars, lockVars, mPendingFlushCount,
                 mCallbackListener, sessionVars, mExit, left, hand, filterVars, callVars,
                 workVars, overtaken>>

\* doStop(), doReset(): no flush is pending any more and the filters are empty;
\* they do not wait for an answer that is on its way.
DoStop ==
  /\ Running("doStop") \/ Running("doReset")
  /\ mPendingFlushCount' = 0
  /\ filter' = {} /\ UNCHANGED answering
  /\ future' = "true"
  /\ Done
  /\ UNCHANGED <<stateVars, queueVars, lockVars, mCallbackListener, tasks,
                 sessionVars, mExit, left, hand, callVars, workVars, overtaken>>

\* doRelease() stops the threads of the filters.
DoRelease ==
  /\ Running("doRelease")
  /\ answering = None
  /\ filter' = {} /\ UNCHANGED answering
  /\ future' = "true"
  /\ Done
  /\ UNCHANGED <<stateVars, queueVars, lockVars, mPendingFlushCount,
                 mCallbackListener, tasks, sessionVars, mExit, left, hand, callVars,
                 workVars, overtaken>>

\* doNotifyError(): the listener is told; nothing of the component changes.
DoNotifyError ==
  /\ Running("doNotifyError")
  /\ Done
  /\ UNCHANGED <<stateVars, queueVars, lockVars, mPendingFlushCount,
                 mCallbackListener, poolVars, left, hand, filterVars, callVars, workVars,
                 overtaken>>

\* The filter chain answers one of its works: filterWorkDone() reads the current
\* session ...
FilterWorkDone(w) ==
  /\ w \in filter /\ answering = None
  /\ filter' = filter \ {w}
  /\ answering' = Task("answer", w, mCurSession)
  /\ UNCHANGED <<stateVars, queueVars, lockVars, mPendingFlushCount,
                 mCallbackListener, poolVars, workerVars, callVars, workVars,
                 overtaken>>

\* ... and pushes a task of that session.
FilterToss ==
  /\ answering # None
  /\ Push(answering)
  /\ answering' = None
  /\ UNCHANGED <<stateVars, queueVars, lockVars, mPendingFlushCount,
                 mCallbackListener, sessionVars, mExit, future, workerVars, filter,
                 callVars, workVars, overtaken>>

-----------------------------------------------------------------------------
\* Steps inside a call that has begun.
CallStep(c) ==
  \/ QueueToss(c) \/ DrainToss(c)
  \/ FlushWorkQueue(c) \/ FlushPendingWorkQueue(c) \/ FlushPool(c) \/ FlushToss(c)
  \/ StartEnd(c)
  \/ (call[c] # "idle" /\ StopBegin(c))
  \/ StopPool(c) \/ StopPost(c) \/ StopWait(c) \/ StopClear(c)
  \/ ResetLock(c) \/ ResetPool(c) \/ ResetPost(c) \/ ResetEnd(c)
  \/ ReleaseLock(c) \/ ReleasePool(c) \/ ReleasePost(c) \/ ReleaseStopPool(c)
  \/ ReleaseEnd(c)

NewCall(c) ==
  \/ \E n \in 1..MaxBatch : Queue(c, n)
  \/ DrainBegin(c) \/ FlushBegin(c) \/ StartBegin(c)
  \/ (call[c] = "idle" /\ StopBegin(c))
  \/ ResetBegin(c) \/ ReleaseBegin(c)
  \/ \E set \in BOOLEAN : SetListener(c, set)

WorkerStep ==
  \/ WorkerTake \/ WorkerExit
  \/ Trigger \/ TriggerLoop
  \/ DoQueueNothing \/ DoQueueReject \/ DoQueueSend \/ DoQueueRegister
  \/ Answer \/ DoFilterWorkDone
  \/ DoFlush \/ DoFlushNotify
  \/ (\E ok \in BOOLEAN : DoStart(ok)) \/ DoStop \/ DoRelease \/ DoNotifyError

Next ==
  \/ \E c \in Clients : NewCall(c) \/ CallStep(c)
  \/ WorkerStep
  \/ (\E w \in Works : FilterWorkDone(w)) \/ FilterToss

Spec == Init /\ [][Next]_componentVars

\* The pool's thread and a call in progress go on; the filter chain answers
\* what it holds.  Nobody is obliged to start a call.
Fairness ==
  /\ WF_componentVars(WorkerStep)
  /\ \A c \in Clients : WF_componentVars(CallStep(c))
  /\ (\A w \in Works : WF_componentVars(FilterWorkDone(w))) /\ WF_componentVars(FilterToss)

FairSpec == Spec /\ Fairness
-----------------------------------------------------------------------------
(* Properties.                                                             *)

Calls == {"idle", "queue.toss", "drain.toss",
          "flush.work", "flush.pending", "flush.pool", "flush.toss",
          "start.wait", "stop.pool", "stop.post", "stop.wait", "stop.clear",
          "reset.stop", "reset.lock", "reset.pool", "reset.post", "reset.wait",
          "release.stop", "release.lock", "release.pool", "release.post",
          "release.wait", "release.join"}

TypeOK ==
  /\ mState \in State /\ mInit \in BOOLEAN /\ stateLock \in Clients \union {None}
  /\ mWorkQueue \in Seq(Works) /\ mPendingWorkQueue \in Seq(Works)
  /\ workLock \in Clients \union {Pool, None} /\ pendLock \in Clients \union {None}
  /\ mPendingFlushCount \in Nat
  /\ mCallbackListener \in BOOLEAN
  /\ tasks \in Seq(Tasks) /\ {mCurSession, mNextSession} \subseteq 0..MaxDrains /\ mExit \in BOOLEAN
  /\ worker \in {"idle", "begin", "loop", "doQueue", "register", "answer", "flushed",
                 "exited"}
  /\ task \in Tasks \union {None} /\ left \in Nat /\ hand \in Works \union {None}
  /\ filter \in SUBSET Works /\ answering \in Tasks \union {None}
  /\ call \in [Clients -> Calls] /\ after \in [Clients -> Calls]
  /\ batch \in [Clients -> Nat]
  /\ future \in {None, "waiting", "true", "false"}
  /\ outcome \in [Works -> {"new", "held", "done", "flushed", "dropped"}]
  /\ returns \in [Works -> Nat] /\ overtaken \in SUBSET Works

\* The component holds a work in one place: the work queue, the pool's hands or
\* the pending queue, never in two and never twice in one; a work that it holds
\* nowhere was returned once or destroyed.
HeldOnce ==
  /\ \A w \in Works :
       (IF outcome[w] = "held" THEN 1 ELSE 0)
         = Cardinality({i \in DOMAIN mWorkQueue : mWorkQueue[i] = w})
           + Cardinality({i \in DOMAIN mPendingWorkQueue : mPendingWorkQueue[i] = w})
           + (IF hand = w THEN 1 ELSE 0)
  /\ \A w \in Works : returns[w] = IF outcome[w] \in {"done", "flushed"} THEN 1 ELSE 0

Flushing(c) == call[c] \in {"flush.work", "flush.pending", "flush.pool", "flush.toss"}

\* mPendingFlushCount counts the flushes whose doFlush has not ended: those still
\* inside flush_sm(), those whose task waits and the one that runs.  It never
\* drifts, although a later flush or stop discards the tasks of earlier ones and
\* doStop() and doReset() write it.
FlushCountMatches ==
  mPendingFlushCount =
    Cardinality({c \in Clients : Flushing(c)}) + Cardinality(FlushTasks)
    + (IF task # None /\ task.kind = "doFlush" THEN 1 ELSE 0)

Answered(w) ==
  \E t \in (ToSet(tasks) \union {task, answering}) \ {None} :
    t.kind = "answer" /\ t.arg = w

\* When no call is under way and no flush is pending, a work in the pending
\* queue is with the filters or its answer is on the way, so it can still come
\* back (with drains, if the session of the answer comes up: see Served).  The
\* exceptions are the races named at `overtaken`: a batch of doQueue() rounds that
\* survives a flush_sm() sends a new work to the filters ahead of the doFlush()
\* that empties them, and a work queued in the gap of reset() is with the filters
\* when they are reset.  Such a work waits for the next flush or stop.
NoWorkForgotten ==
  stateLock = None /\ mPendingFlushCount = 0 =>
    \A w \in ToSet(mPendingWorkQueue) :
      w \in filter \/ Answered(w) \/ w \in overtaken

\* A component that is not running holds no work between two calls.  One client
\* only: with a second, start() and queue_nb() fit into the gap in which reset()
\* and release() let go of the state lock, and what they queue stays.
StoppedHoldsNothing ==
  (mState # "RUNNING" /\ \A c \in Clients : call[c] = "idle")
    => \A w \in Works : outcome[w] # "held"

\* A released component does not run again, although reset() makes a released
\* component LOADED, from where start() is allowed.
ReleasedNeverRuns == mExit => mState # "RUNNING"

phase ==
  IF \E c \in Clients : Flushing(c) THEN "flushing"
  ELSE IF \E c \in Clients : call[c] \in {"stop.pool", "stop.post", "stop.wait", "stop.clear"}
  THEN "stopping" ELSE "open"

Contract == INSTANCE WorkContract

\* The component implements the contract its client relies on: a work settles
\* once, only a flush returns works as flushed, and flush_sm() and stop() end
\* with no work in the component, whatever the pool was doing.
ImplementsContract == Contract!Spec

\* The pool is a session ahead of what is posted: stop(), reset() and release()
\* clear the sessions while doFilterWorkDone() is ending a drain.
Stray == mCurSession > mNextSession


\* No call waits for ever: not for a lock that the pool's thread holds, not for
\* the result of a task, not for the thread's end.
CallsReturn == \A c \in Clients : call[c] # "idle" ~> call[c] = "idle"

\* A stray session that nothing ends is the only way in which a call can hang:
\* a drain that ends between clearSession() and the task of a stop.
CallsReturnOrStray ==
  \A c \in Clients : call[c] # "idle" ~> (call[c] = "idle" \/ []Stray)

=============================================================================
