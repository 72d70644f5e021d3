-------------------------- MODULE ComponentProofs ---------------------------
(***************************************************************************)
(* Proofs about Component for any set of clients, any number of works and  *)
(* drains: the inductive invariant IndInv, one lemma per conjunct for the  *)
(* steps, the properties that follow from it, and the refinement of        *)
(* WorkContract.                                                           *)
(*                                                                         *)
(* The argument: the state lock admits one call at a time (Locks), so that *)
(* a call finds the state its predecessor left (States) and at most one    *)
(* task has a caller that waits for it (Posting).  A work is in one place  *)
(* (Places), and the place that doQueue() has it in is guarded by the lock *)
(* of the work queue; hence flush_sm(), which keeps both locks, leaves no  *)
(* work behind (Emptied) and nor does stop() (Alone, Overtakes).  A task   *)
(* of a flush is counted until it is done or discarded (FlushCount).       *)
(***************************************************************************)
EXTENDS Component, QueueLemmas

\* Places in flush_sm(), in stop(), and those without the state lock.
FlushCalls == {"flush.work", "flush.pending", "flush.pool", "flush.toss"}
StopCalls  == {"stop.pool", "stop.post", "stop.wait", "stop.clear"}
Unlocked   == {"idle", "reset.stop", "reset.lock", "release.stop", "release.lock"}

\* Some call is at a place of C.
InCalls(C) == \E c \in Clients : call[c] \in C

\* Who holds which lock.
Locks ==
  /\ \A c \in Clients : stateLock = c <=> call[c] \notin Unlocked
  /\ \A c \in Clients : workLock = c <=> call[c] \in {"flush.pending", "flush.pool", "flush.toss"}
  /\ \A c \in Clients : pendLock = c <=> call[c] \in {"flush.pool", "flush.toss"}
  /\ workLock = Pool <=> worker = "register"
  /\ \A c \in Clients : after[c] \in {"idle", "reset.lock", "release.lock"}

\* What the pool's thread has in its hands at each place.
Thread ==
  /\ task = None <=> worker \in {"idle", "exited"}
  /\ hand # None <=> worker = "register"
  /\ worker \in {"loop", "doQueue", "register"} => task.kind \in {"trigger", "doQueue"}
  /\ worker = "answer" => task.kind = "answer"
  /\ worker = "flushed" => task.kind = "doFlush"

\* An answer is one to a work.
Answers ==
  /\ answering # None => answering.kind = "answer"
  /\ \A t \in (ToSet(tasks) \union {task, answering}) \ {None} :
       t.kind = "answer" => t.arg \in Works

\* The state of the component during each call.
States ==
  /\ mExit => mState # "RUNNING"
  /\ mState = "RUNNING" => mInit
  /\ mState = "LOADED" /\ mInit => InCalls({"stop.pool", "stop.post", "stop.wait"})
  /\ InCalls(FlushCalls \union {"queue.toss", "drain.toss"}) => mState = "RUNNING"
  /\ InCalls(StopCalls \union {"start.wait"}) => mState = "LOADED"
  /\ InCalls({"release.pool", "release.post", "release.wait", "release.join"})
       => mState = "UNLOADED"
  /\ InCalls({"start.wait"}) /\ mExit => future = "false"

\* Tasks of the pool, in its list or in its thread's hands.
Count(P) == Cardinality(Positions(tasks, P)) + (IF task \in P THEN 1 ELSE 0)

\* Where the caller waits that posted a task.
WaitFor(kind) ==
  CASE kind = "doStart" -> "start.wait"
    [] kind = "doStop"  -> "stop.wait"
    [] kind = "doReset" -> "reset.wait"
    [] kind = "doRelease" -> "release.wait"

\* The tasks with a caller that waits, and those that stand for a flush.
PostedTasks == {t \in Tasks : t.kind \in {"doStart", "doStop", "doReset", "doRelease"}}
FlushTask   == {t \in Tasks : t.kind = "doFlush"}

\* A caller waits as long as the one task that it posted is not done.
Posting ==
  /\ Count(PostedTasks) = IF future = "waiting" THEN 1 ELSE 0
  /\ future # None => InCalls({"start.wait", "stop.wait", "reset.wait", "release.wait"})
  /\ \A t \in (ToSet(tasks) \union {task}) \cap PostedTasks : InCalls({WaitFor(t.kind)})

\* Between the clear of the pool and the end of a stop or reset no flush waits.
NoFlushTask ==
  InCalls({"stop.post", "stop.wait", "reset.post", "reset.wait"})
    => ToSet(tasks) \cap FlushTask = {}

\* FlushCountMatches without its cardinalities.
FlushCount ==
  mPendingFlushCount = (IF InCalls(FlushCalls) THEN 1 ELSE 0) + Count(FlushTask)

\* HeldOnce without its cardinalities.
Places ==
  /\ Injective(mWorkQueue) /\ Injective(mPendingWorkQueue)
  /\ ToSet(mWorkQueue) \cap ToSet(mPendingWorkQueue) = {}
  /\ hand \notin ToSet(mWorkQueue) \union ToSet(mPendingWorkQueue)
  /\ \A w \in Works :
       outcome[w] = "held" <=> w \in ToSet(mWorkQueue) \union ToSet(mPendingWorkQueue) \union {hand}
  /\ \A w \in Works : returns[w] = IF outcome[w] \in {"done", "flushed"} THEN 1 ELSE 0

\* What flush_sm() has emptied stays empty under its locks.
Emptied ==
  /\ InCalls({"flush.pending", "flush.pool", "flush.toss"}) => mWorkQueue = <<>>
  /\ InCalls({"flush.pool", "flush.toss"}) => mPendingWorkQueue = <<>>

\* Works accepted so far; drains begun and drains that left the component.
Accepted == {w \in Queued : outcome[w] # "new"}
Asked    == {d \in Drains : outcome[d] # "new"}
Ended    == {d \in Drains : outcome[d] \notin {"new", "held"}}

\* Works are numbered as they are accepted; a session is closed for each drain
\* begun and one opened for each that ended, at most.
Numbers ==
  /\ \A w \in Queued : outcome[w] # "new" <=> w <= Cardinality(Accepted)
  /\ mNextSession + (IF InCalls({"drain.toss"}) THEN 1 ELSE 0) <= Cardinality(Asked)
  /\ mCurSession <= Cardinality(Ended)

\* Works that were sent to the filters and have not left the component.
Waits == ToSet(mPendingWorkQueue) \union ({hand} \ {None})

\* A work that a stopped component holds slipped into the gap of a reset or
\* release, and one sent while a doFlush() waits was sent ahead of it.
Overtakes ==
  /\ mState # "RUNNING" /\ ~InCalls(StopCalls) => Held \subseteq overtaken
  /\ InCalls({"reset.pool", "reset.post", "reset.wait"}) => Held \subseteq overtaken
  /\ mPendingFlushCount > 0 /\ ~InCalls({"flush.work", "flush.pending"})
       => Waits \subseteq overtaken

\* NoWorkForgotten during every call but a flush or a stop.
OnTheWay ==
  ~InCalls({"flush.work", "flush.pending"}) /\ ~InCalls(StopCalls) =>
     \A w \in Waits : w \in filter \/ Answered(w) \/ w \in overtaken

\* Without a second client nothing slips into that gap.
Alone ==
  (\A c, d \in Clients : c = d) =>
    /\ mState # "RUNNING" /\ ~InCalls(StopCalls) => Held = {}
    /\ InCalls({"reset.lock", "release.lock", "reset.pool", "reset.post", "reset.wait"}) => mState # "RUNNING"

IndInv ==
  /\ TypeOK /\ Locks /\ Thread /\ Answers /\ States /\ Posting /\ NoFlushTask /\ FlushCount
  /\ Places /\ Emptied /\ Numbers /\ Overtakes /\ OnTheWay /\ Alone
-----------------------------------------------------------------------------
(* Who writes what.                                                        *)

\* The pool's thread and the filters leave the calls and the state alone.
LEMMA PoolFrame ==
  ASSUME WorkerStep \/ (\E w \in Works : FilterWorkDone(w)) \/ FilterToss
  PROVE  UNCHANGED <<stateVars, pendLock, mCallbackListener, mNextSession, mExit, callVars>>
<1> USE DEF stateVars, lockVars, poolVars, sessionVars, callVars
<1>1. CASE WorkerTake \/ WorkerExit \/ Trigger \/ TriggerLoop \/ Answer \/ DoFilterWorkDone
  BY <1>1 DEF WorkerTake, WorkerExit, Trigger, TriggerLoop, Answer, DoFilterWorkDone
<1>2. CASE DoQueueNothing \/ DoQueueReject \/ DoQueueSend \/ DoQueueRegister
  BY <1>2 DEF DoQueueNothing, DoQueueReject, DoQueueSend, DoQueueRegister
<1>3. CASE DoFlush \/ DoFlushNotify \/ (\E ok \in BOOLEAN : DoStart(ok)) \/ DoStop
           \/ DoRelease \/ DoNotifyError
  BY <1>3 DEF DoFlush, DoFlushNotify, DoStart, DoStop, DoRelease, DoNotifyError
<1>4. CASE (\E w \in Works : FilterWorkDone(w)) \/ FilterToss
  BY <1>4 DEF FilterWorkDone, FilterToss
<1> QED
  BY <1>1, <1>2, <1>3, <1>4 DEF WorkerStep

\* A call leaves the pool's thread and the filters alone.
LEMMA CallFrame ==
  ASSUME NEW c \in Clients, NewCall(c) \/ CallStep(c)
  PROVE  UNCHANGED <<workerVars, filterVars>>
<1>1. CASE NewCall(c)
  BY <1>1 DEF NewCall, Queue, DrainBegin, FlushBegin, StartBegin, StopBegin, ResetBegin,
     ReleaseBegin, SetListener
<1>2. CASE CallStep(c)
  BY <1>2 DEF CallStep, QueueToss, DrainToss, FlushWorkQueue, FlushPendingWorkQueue,
     FlushPool, FlushToss, StartEnd, StopBegin, StopPool, StopPost, StopWait, StopClear,
     ResetLock, ResetPool, ResetPost, ResetEnd, ReleaseLock, ReleasePool, ReleasePost,
     ReleaseStopPool, ReleaseEnd
<1> QED
  BY <1>1, <1>2

\* Only two steps of the pool's thread touch the lock of the work queue.
LEMMA WorkLockFrame ==
  ASSUME WorkerStep \/ (\E w \in Works : FilterWorkDone(w)) \/ FilterToss,
         ~DoQueueSend, ~DoQueueRegister
  PROVE  workLock' = workLock /\ (worker' = "register" <=> worker = "register")
<1> USE DEF lockVars, workerVars, Done, Running
<1>1. CASE WorkerTake \/ WorkerExit \/ Trigger \/ TriggerLoop \/ Answer \/ DoFilterWorkDone
  BY <1>1 DEF WorkerTake, WorkerExit, Trigger, TriggerLoop, Answer, DoFilterWorkDone
<1>2. CASE DoQueueNothing \/ DoQueueReject
  BY <1>2 DEF DoQueueNothing, DoQueueReject
<1>3. CASE DoFlush \/ DoFlushNotify \/ (\E ok \in BOOLEAN : DoStart(ok)) \/ DoStop
           \/ DoRelease \/ DoNotifyError
  BY <1>3 DEF DoFlush, DoFlushNotify, DoStart, DoStop, DoRelease, DoNotifyError
<1>4. CASE (\E w \in Works : FilterWorkDone(w)) \/ FilterToss
  BY <1>4 DEF FilterWorkDone, FilterToss
<1> QED
  BY <1>1, <1>2, <1>3, <1>4 DEF WorkerStep

-----------------------------------------------------------------------------
(* Locks.                                                                  *)

\* Each call takes and gives up the locks that its place says.
LEMMA LocksStep ==
  ASSUME TypeOK, Locks, Thread, [Next]_componentVars
  PROVE  Locks'
<1>0. /\ call \in [Clients -> Calls] /\ after \in [Clients -> Calls]
      /\ None \notin Clients /\ Pool \notin Clients /\ None # Pool
      /\ stateLock \in Clients \union {None} /\ pendLock \in Clients \union {None}
  BY ComponentAssumption DEF TypeOK
<1> USE <1>0 DEF lockVars, callVars, stateVars, At, Goto, Enter, Leave, Locks, Unlocked
<1>1. ASSUME NEW c \in Clients, NewCall(c) PROVE Locks'
  <2>0. worker' = worker
    BY <1>1, CallFrame DEF workerVars
  <2> USE <2>0
  <2>1. ASSUME NEW n \in 1..MaxBatch, Queue(c, n) PROVE Locks'
    BY <2>1 DEF Queue
  <2>2. CASE DrainBegin(c)
    BY <2>2 DEF DrainBegin
  <2>3. CASE FlushBegin(c)
    BY <2>3 DEF FlushBegin
  <2>4. CASE StartBegin(c)
    BY <2>4 DEF StartBegin
  <2>5. CASE call[c] = "idle" /\ StopBegin(c)
    BY <2>5 DEF StopBegin
  <2>6. CASE ResetBegin(c)
    <3>1. CASE mInit /\ mState = "RUNNING"
      BY <2>6, <3>1 DEF ResetBegin
    <3>2. CASE mInit /\ mState # "RUNNING"
      BY <2>6, <3>2 DEF ResetBegin
    <3>3. CASE ~mInit
      BY <2>6, <3>3 DEF ResetBegin
    <3> QED
      BY <3>1, <3>2, <3>3
  <2>7. CASE ReleaseBegin(c)
    BY <2>7 DEF ReleaseBegin
  <2>8. ASSUME NEW set \in BOOLEAN, SetListener(c, set) PROVE Locks'
    BY <2>8 DEF SetListener
  <2> QED
    BY <1>1, <2>1, <2>2, <2>3, <2>4, <2>5, <2>6, <2>7, <2>8 DEF NewCall
<1>2. ASSUME NEW c \in Clients, CallStep(c) PROVE Locks'
  <2>0. worker' = worker
    BY <1>2, CallFrame DEF workerVars
  <2> USE <2>0
  <2>1. CASE QueueToss(c)
    BY <2>1 DEF QueueToss
  <2>2. CASE DrainToss(c)
    BY <2>2 DEF DrainToss
  <2>3. CASE FlushWorkQueue(c)
    BY <2>3 DEF FlushWorkQueue
  <2>4. CASE FlushPendingWorkQueue(c)
    BY <2>4 DEF FlushPendingWorkQueue
  <2>5. CASE FlushPool(c)
    BY <2>5 DEF FlushPool
  <2>6. CASE FlushToss(c)
    BY <2>6 DEF FlushToss
  <2>7. CASE StartEnd(c)
    BY <2>7 DEF StartEnd
  <2>8. CASE call[c] = "reset.stop" /\ StopBegin(c)
    BY <2>8 DEF StopBegin
  <2>9. CASE call[c] = "release.stop" /\ StopBegin(c)
    BY <2>9 DEF StopBegin
  <2>10. CASE StopPool(c)
    BY <2>10 DEF StopPool
  <2>11. CASE StopPost(c)
    BY <2>11 DEF StopPost
  <2>12. CASE StopWait(c)
    BY <2>12 DEF StopWait
  <2>13. CASE StopClear(c)
    BY <2>13 DEF StopClear
  <2>14. CASE ResetLock(c) \/ ReleaseLock(c)
    BY <2>14 DEF ResetLock, ReleaseLock
  <2>15. CASE ResetPool(c) \/ ReleasePool(c)
    BY <2>15 DEF ResetPool, ReleasePool
  <2>16. CASE ResetPost(c) \/ ReleasePost(c)
    BY <2>16 DEF ResetPost, ReleasePost
  <2>17. CASE ResetEnd(c)
    BY <2>17 DEF ResetEnd
  <2>18. CASE ReleaseStopPool(c)
    BY <2>18 DEF ReleaseStopPool
  <2>19. CASE ReleaseEnd(c)
    BY <2>19 DEF ReleaseEnd
  <2> QED
    BY <1>2, <2>1, <2>2, <2>3, <2>4, <2>5, <2>6, <2>7, <2>8, <2>9, <2>10, <2>11, <2>12,
       <2>13, <2>14, <2>15, <2>16, <2>17, <2>18, <2>19 DEF CallStep, StopBegin
<1>3. CASE WorkerStep \/ (\E w \in Works : FilterWorkDone(w)) \/ FilterToss
  <2>1. CASE DoQueueSend \/ DoQueueRegister
    BY <1>3, <2>1, PoolFrame DEF workerVars, Thread, DoQueueSend, DoQueueRegister
  <2>2. CASE ~DoQueueSend /\ ~DoQueueRegister
    BY <1>3, <2>2, PoolFrame, WorkLockFrame
  <2> QED
    BY <2>1, <2>2
<1>4. CASE UNCHANGED componentVars
  BY <1>4 DEF componentVars, workerVars
<1> QED
  BY <1>1, <1>2, <1>3, <1>4 DEF Next

-----------------------------------------------------------------------------
(* The pool's thread.                                                      *)

\* At each place the thread has the task, and the work, that belong there.
LEMMA ThreadStep ==
  ASSUME TypeOK, Thread, [Next]_componentVars
  PROVE  Thread'
<1>0. /\ tasks \in Seq(Tasks) /\ None \notin Tasks
      /\ mWorkQueue \in Seq(Works) /\ None \notin Works
  BY ComponentAssumption, NullAssumption DEF TypeOK, Works, Queued, Drains
<1> USE DEF Thread, workerVars, Done, Running
<1>1. ASSUME NEW c \in Clients, NewCall(c) \/ CallStep(c) PROVE Thread'
  BY <1>1, CallFrame
<1>2. CASE WorkerTake
  <2>1. PICK i \in DOMAIN tasks :
          /\ task' = tasks[i]
          /\ worker' = IF tasks[i].kind = "doQueue" THEN "doQueue" ELSE "begin"
    BY <1>2 DEF WorkerTake
  <2>2. tasks[i] \in Tasks
    BY <1>0
  <2> QED
    BY <1>0, <1>2, <2>1, <2>2 DEF WorkerTake
<1>3. CASE WorkerExit \/ Trigger \/ TriggerLoop \/ Answer \/ DoFilterWorkDone
  BY <1>3 DEF WorkerExit, Trigger, TriggerLoop, Answer, DoFilterWorkDone
<1>4. CASE DoQueueNothing \/ DoQueueReject \/ DoQueueRegister
  BY <1>4 DEF DoQueueNothing, DoQueueReject, DoQueueRegister
<1>5. CASE DoQueueSend
  <2>1. Head(mWorkQueue) \in Works
    BY <1>0, <1>5, HeadTailProperties DEF DoQueueSend
  <2> QED
    BY <1>0, <1>5, <2>1 DEF DoQueueSend
<1>6. CASE DoFlush \/ DoFlushNotify \/ (\E ok \in BOOLEAN : DoStart(ok)) \/ DoStop
           \/ DoRelease \/ DoNotifyError
  BY <1>6 DEF DoFlush, DoFlushNotify, DoStart, DoStop, DoRelease, DoNotifyError
<1>7. CASE (\E w \in Works : FilterWorkDone(w)) \/ FilterToss
  BY <1>7 DEF FilterWorkDone, FilterToss
<1>8. CASE UNCHANGED componentVars
  BY <1>8 DEF componentVars
<1> QED
  BY <1>1, <1>2, <1>3, <1>4, <1>5, <1>6, <1>7, <1>8 DEF Next, WorkerStep

\* How a step changes the list of tasks.
TasksStep ==
  \/ UNCHANGED tasks
  \/ tasks' = <<>> /\ \E c \in Clients : FlushPool(c) \/ StopPool(c) \/ ResetPool(c) \/ ReleasePool(c)
                                        \/ ReleaseEnd(c)
  \/ /\ worker = "idle" /\ \E i \in DOMAIN tasks : task' = tasks[i] /\ tasks' = RemoveAt(tasks, i)
  \/ \E kind \in Kinds \ {"answer"}, arg \in Nat, session \in 0..MaxDrains :
       tasks' = Append(tasks, Task(kind, arg, session))
  \/ answering # None /\ tasks' = Append(tasks, answering)

\* Every step changes the list of tasks in one of those ways.
LEMMA TasksSteps ==
  ASSUME TypeOK, [Next]_componentVars
  PROVE  TasksStep
<1>0. /\ mNextSession \in 0..MaxDrains /\ mCurSession \in 0..MaxDrains
      /\ batch \in [Clients -> Nat]
  BY DEF TypeOK
<1>1. ASSUME NEW c \in Clients, CallStep(c) PROVE TasksStep
  <2>1. CASE QueueToss(c) \/ DrainToss(c) \/ FlushToss(c)
    BY <1>0, <2>1 DEF QueueToss, DrainToss, FlushToss, Toss, Push, TasksStep, Kinds
  <2>2. CASE StopPost(c) \/ ResetPost(c) \/ ReleasePost(c)
    BY <1>0, <2>2 DEF StopPost, ResetPost, ReleasePost, PostTask, Toss, Push, TasksStep, Kinds
  <2>3. CASE FlushPool(c) \/ StopPool(c) \/ ResetPool(c) \/ ReleasePool(c) \/ ReleaseEnd(c)
    BY <2>3 DEF FlushPool, StopPool, ResetPool, ReleasePool, ReleaseEnd, PoolFlush, TasksStep
  <2>4. CASE FlushWorkQueue(c) \/ FlushPendingWorkQueue(c) \/ StartEnd(c) \/ StopBegin(c)
             \/ StopWait(c) \/ StopClear(c)
    BY <2>4 DEF FlushWorkQueue, FlushPendingWorkQueue, StartEnd, StopBegin, StopWait, StopClear,
       poolVars, TasksStep
  <2>5. CASE ResetLock(c) \/ ResetEnd(c) \/ ReleaseLock(c) \/ ReleaseStopPool(c)
    BY <2>5 DEF ResetLock, ResetEnd, ReleaseLock, ReleaseStopPool, poolVars, TasksStep
  <2> QED
    BY <1>1, <2>1, <2>2, <2>3, <2>4, <2>5 DEF CallStep
<1>2. ASSUME NEW c \in Clients, NewCall(c) PROVE TasksStep
  <2>1. CASE StartBegin(c)
    BY <1>0, <2>1 DEF StartBegin, PostTask, Toss, Push, TasksStep, Kinds
  <2>2. CASE ~StartBegin(c)
    BY <1>2, <2>2 DEF NewCall, Queue, DrainBegin, FlushBegin, StopBegin, ResetBegin,
       ReleaseBegin, SetListener, poolVars, TasksStep
  <2> QED
    BY <2>1, <2>2
<1>3. CASE WorkerStep
  <2>1. CASE WorkerTake
    BY <2>1 DEF WorkerTake, TasksStep
  <2>2. ASSUME NEW ok \in BOOLEAN, DoStart(ok) PROVE TasksStep
    BY <1>0, <2>2 DEF DoStart, TasksStep, Kinds
  <2>3. CASE WorkerExit \/ Trigger \/ TriggerLoop \/ Answer \/ DoFilterWorkDone
    BY <2>3 DEF WorkerExit, Trigger, TriggerLoop, Answer, DoFilterWorkDone, poolVars, TasksStep
  <2>4. CASE DoQueueNothing \/ DoQueueReject \/ DoQueueSend \/ DoQueueRegister
    BY <2>4 DEF DoQueueNothing, DoQueueReject, DoQueueSend, DoQueueRegister, poolVars, TasksStep
  <2>5. CASE DoFlush \/ DoFlushNotify \/ DoStop \/ DoRelease \/ DoNotifyError
    BY <2>5 DEF DoFlush, DoFlushNotify, DoStop, DoRelease, DoNotifyError, poolVars, TasksStep
  <2> QED
    BY <1>3, <2>1, <2>2, <2>3, <2>4, <2>5 DEF WorkerStep
<1>4. CASE (\E w \in Works : FilterWorkDone(w)) \/ FilterToss
  BY <1>4 DEF FilterWorkDone, FilterToss, Push, poolVars, TasksStep
<1>5. CASE UNCHANGED componentVars
  BY <1>5 DEF componentVars, poolVars, TasksStep
<1> QED
  BY <1>1, <1>2, <1>3, <1>4, <1>5 DEF Next

\* The thread keeps its task, finishes it or takes one from the list.
LEMMA TaskSteps ==
  ASSUME [Next]_componentVars
  PROVE  \/ UNCHANGED task
         \/ task' = None
         \/ WorkerTake
<1> USE DEF workerVars, Done
<1>1. ASSUME NEW c \in Clients, NewCall(c) \/ CallStep(c) PROVE UNCHANGED task
  BY <1>1, CallFrame
<1>2. CASE WorkerExit \/ Trigger \/ TriggerLoop \/ Answer \/ DoFilterWorkDone
  BY <1>2 DEF WorkerExit, Trigger, TriggerLoop, Answer, DoFilterWorkDone
<1>3. CASE DoQueueNothing \/ DoQueueReject \/ DoQueueSend \/ DoQueueRegister
  BY <1>3 DEF DoQueueNothing, DoQueueReject, DoQueueSend, DoQueueRegister
<1>4. CASE DoFlush \/ DoFlushNotify \/ (\E ok \in BOOLEAN : DoStart(ok)) \/ DoStop
           \/ DoRelease \/ DoNotifyError
  BY <1>4 DEF DoFlush, DoFlushNotify, DoStart, DoStop, DoRelease, DoNotifyError
<1>5. CASE (\E w \in Works : FilterWorkDone(w)) \/ FilterToss
  BY <1>5 DEF FilterWorkDone, FilterToss
<1>6. CASE UNCHANGED componentVars
  BY <1>6 DEF componentVars
<1> QED
  BY <1>1, <1>2, <1>3, <1>4, <1>5, <1>6 DEF Next, WorkerStep

\* An answer in the list is the one the last filter handed over.
LEMMA AnswersStep ==
  ASSUME TypeOK, Answers, [Next]_componentVars
  PROVE  Answers'
<1> DEFINE known(t) == t.kind = "answer" => t.arg \in Works
<1>0. tasks \in Seq(Tasks) /\ answering \in Tasks \union {None} /\ None \notin Tasks
  BY NullAssumption DEF TypeOK
<1>1. /\ answering' # None => answering'.kind = "answer"
      /\ answering' # None => known(answering')
  <2>1. CASE UNCHANGED answering \/ answering' = None
    BY <2>1 DEF Answers
  <2>2. ASSUME NEW w \in Works, FilterWorkDone(w)
        PROVE  answering'.kind = "answer" /\ known(answering')
    BY <2>2 DEF FilterWorkDone, Task
  <2>3. CASE FilterToss \/ UNCHANGED componentVars
    BY <2>1, <2>3 DEF FilterToss, componentVars, filterVars
  <2>4. ASSUME NEW c \in Clients, NewCall(c) \/ CallStep(c) PROVE UNCHANGED answering
    BY <2>4, CallFrame DEF filterVars
  <2>5. CASE WorkerStep
    <3>1. UNCHANGED answering
      BY <2>5 DEF WorkerStep, WorkerTake, WorkerExit, Trigger, TriggerLoop, DoQueueNothing,
         DoQueueReject, DoQueueSend, DoQueueRegister, Answer, DoFilterWorkDone, DoFlush,
         DoFlushNotify, DoStart, DoStop, DoRelease, DoNotifyError, filterVars
    <3> QED
      BY <2>1, <3>1
  <2> QED
    BY <2>1, <2>2, <2>3, <2>4, <2>5 DEF Next
<1>2. ToSet(tasks') \subseteq ToSet(tasks) \union {answering}
        \union {t \in Tasks : t.kind # "answer"}
  <2>1. CASE UNCHANGED tasks \/ tasks' = <<>>
    BY <2>1 DEF ToSet
  <2>2. ASSUME NEW i \in DOMAIN tasks, tasks' = RemoveAt(tasks, i)
        PROVE  ToSet(tasks') \subseteq ToSet(tasks)
    BY <1>0, <2>2, RemoveAtKeeps, LenProperties
  <2>3. ASSUME NEW kind \in Kinds \ {"answer"}, NEW arg \in Nat, NEW session \in 0..MaxDrains,
               tasks' = Append(tasks, Task(kind, arg, session))
        PROVE  ToSet(tasks') \subseteq ToSet(tasks) \union {t \in Tasks : t.kind # "answer"}
    <3>1. Task(kind, arg, session) \in Tasks /\ Task(kind, arg, session).kind # "answer"
      BY DEF Task, Tasks
    <3> QED
      BY <1>0, <2>3, <3>1, AppendKeepsInjective
  <2>4. ASSUME answering # None, tasks' = Append(tasks, answering)
        PROVE  ToSet(tasks') \subseteq ToSet(tasks) \union {answering}
    BY <1>0, <2>4, AppendKeepsInjective
  <2> QED
    BY <2>1, <2>2, <2>3, <2>4, TasksSteps DEF TasksStep
<1>3. task' \in ToSet(tasks) \union {task, None}
  BY TaskSteps DEF WorkerTake, ToSet
<1> HIDE DEF known
<1>4. \A t \in (ToSet(tasks) \union {task, answering}) \ {None} : known(t)
  BY DEF Answers, known
<1>5. \A t \in {t \in Tasks : t.kind # "answer"} : known(t)
  BY DEF known
<1>6. \A t \in (ToSet(tasks') \union {task', answering'}) \ {None} : known(t)
  BY <1>1, <1>2, <1>3, <1>4, <1>5
<1> QED
  BY <1>1, <1>6 DEF Answers, known

\* The tasks keep their types.
LEMMA TasksType ==
  ASSUME TypeOK, [Next]_componentVars
  PROVE  tasks' \in Seq(Tasks) /\ task' \in Tasks \union {None}
<1>0. /\ tasks \in Seq(Tasks) /\ answering \in Tasks \union {None}
      /\ task \in Tasks \union {None}
  BY DEF TypeOK
<1>1. tasks' \in Seq(Tasks)
  <2>1. CASE UNCHANGED tasks \/ tasks' = <<>>
    <3>1. <<>> \in Seq(Tasks)
      BY EmptySeq
    <3> QED
      BY <1>0, <2>1, <3>1
  <2>2. ASSUME NEW i \in DOMAIN tasks, tasks' = RemoveAt(tasks, i)
        PROVE  tasks' \in Seq(Tasks)
    <3>1. i \in 1..Len(tasks)
      BY <1>0, LenProperties
    <3> QED
      BY <1>0, <2>2, <3>1, RemoveAtProperties
  <2>3. ASSUME NEW kind \in Kinds, NEW arg \in Nat, NEW session \in 0..MaxDrains,
               tasks' = Append(tasks, Task(kind, arg, session))
        PROVE  tasks' \in Seq(Tasks)
    <3>1. Task(kind, arg, session) \in Tasks
      BY DEF Task, Tasks
    <3> QED
      BY <1>0, <2>3, <3>1, AppendProperties
  <2>4. CASE answering # None /\ tasks' = Append(tasks, answering)
    BY <1>0, <2>4, AppendProperties
  <2> QED
    BY <2>1, <2>2, <2>3, <2>4, TasksSteps DEF TasksStep
<1>2. task' \in Tasks \union {None}
  BY <1>0, TaskSteps DEF WorkerTake
<1> QED
  BY <1>1, <1>2

-----------------------------------------------------------------------------
(* The state of the component.                                             *)

\* Nobody is between taking and giving up the state lock when it is free, and
\* only its holder is when it is not.
LEMMA LockHolder ==
  ASSUME Locks, None \notin Clients
  PROVE  /\ stateLock = None => \A c \in Clients : call[c] \in Unlocked
         /\ \A c, d \in Clients : call[c] \notin Unlocked /\ call[d] \notin Unlocked => c = d
  BY DEF Locks

\* A count of tasks is a number, and 0 only without such a task.
LEMMA CountType ==
  ASSUME TypeOK, NEW P
  PROVE  /\ Cardinality(Positions(tasks, P)) \in Nat
         /\ Count(P) \in Nat
         /\ Count(P) = 0 => task \notin P /\ ToSet(tasks) \cap P = {}
<1>1. tasks \in Seq(Tasks)
  BY DEF TypeOK
<1>2. /\ Cardinality(Positions(tasks, P)) \in Nat
      /\ Cardinality(Positions(tasks, P)) = 0 <=> Positions(tasks, P) = {}
  BY <1>1, PositionsFinite
<1> QED
  BY <1>2 DEF Count, Positions, ToSet

\* Nobody changes the state while another call relies on it; a released pool
\* refuses the task of start().
LEMMA StatesStep ==
  ASSUME TypeOK, Locks, Thread, States, Posting, [Next]_componentVars
  PROVE  States'
<1>0. /\ call \in [Clients -> Calls] /\ None \notin Clients /\ after \in [Clients -> Calls]
      /\ mInit \in BOOLEAN /\ mExit \in BOOLEAN /\ mState \in State
  BY ComponentAssumption DEF TypeOK
<1>h. /\ stateLock = None => \A c \in Clients : call[c] \in Unlocked
      /\ \A c, d \in Clients : call[c] \notin Unlocked /\ call[d] \notin Unlocked => c = d
  BY <1>0, LockHolder
<1> USE <1>0, <1>h DEF poolVars, callVars, stateVars, At, Goto, Enter, Leave, States, InCalls,
        FlushCalls, StopCalls, Unlocked
<1>1. ASSUME NEW c \in Clients, NewCall(c) PROVE States'
  <2>1. ASSUME NEW n \in 1..MaxBatch, Queue(c, n) PROVE States'
    BY <2>1 DEF Queue
  <2>2. CASE DrainBegin(c)
    BY <2>2 DEF DrainBegin
  <2>3. CASE FlushBegin(c)
    BY <2>3 DEF FlushBegin
  <2>4. CASE StartBegin(c)
    <3>1. ~mInit
      BY <2>4 DEF StartBegin
    <3> QED
      BY <2>4, <3>1 DEF StartBegin, PostTask
  <2>5. CASE StopBegin(c)
    BY <2>5 DEF StopBegin
  <2>6. CASE ResetBegin(c)
    BY <2>6 DEF ResetBegin
  <2>7. CASE ReleaseBegin(c)
    BY <2>7 DEF ReleaseBegin
  <2>8. ASSUME NEW set \in BOOLEAN, SetListener(c, set) PROVE States'
    BY <2>8 DEF SetListener
  <2> QED
    BY <1>1, <2>1, <2>2, <2>3, <2>4, <2>5, <2>6, <2>7, <2>8 DEF NewCall
<1>2. ASSUME NEW c \in Clients, CallStep(c) PROVE States'
  <2>1. CASE QueueToss(c)
    BY <2>1 DEF QueueToss
  <2>2. CASE DrainToss(c)
    BY <2>2 DEF DrainToss
  <2>3. CASE FlushWorkQueue(c)
    BY <2>3 DEF FlushWorkQueue
  <2>4. CASE FlushPendingWorkQueue(c)
    BY <2>4 DEF FlushPendingWorkQueue
  <2>5. CASE FlushPool(c)
    BY <2>5 DEF FlushPool
  <2>6. CASE FlushToss(c)
    BY <2>6 DEF FlushToss
  <2>7. CASE StartEnd(c)
    BY <2>7 DEF StartEnd
  <2>8. CASE call[c] = "reset.stop" /\ StopBegin(c)
    BY <2>8 DEF StopBegin
  <2>9. CASE call[c] = "release.stop" /\ StopBegin(c)
    BY <2>9 DEF StopBegin
  <2>10. CASE StopPool(c)
    BY <2>10 DEF StopPool
  <2>11. CASE StopPost(c)
    BY <2>11 DEF StopPost
  <2>12. CASE StopWait(c)
    BY <2>12 DEF StopWait
  <2>13. CASE StopClear(c)
    BY <2>13 DEF StopClear, Locks
  <2>14. CASE ResetLock(c)
    BY <2>14 DEF ResetLock
  <2>15. CASE ReleaseLock(c)
    BY <2>15 DEF ReleaseLock
  <2>16. CASE ResetPool(c)
    BY <2>16 DEF ResetPool
  <2>17. CASE ReleasePool(c)
    BY <2>17 DEF ReleasePool
  <2>18. CASE ResetPost(c)
    BY <2>18 DEF ResetPost
  <2>19. CASE ReleasePost(c)
    BY <2>19 DEF ReleasePost
  <2>20. CASE ResetEnd(c)
    BY <2>20 DEF ResetEnd
  <2>21. CASE ReleaseStopPool(c)
    BY <2>21 DEF ReleaseStopPool
  <2>22. CASE ReleaseEnd(c)
    BY <2>22 DEF ReleaseEnd
  <2> QED
    BY <1>2, <2>1, <2>2, <2>3, <2>4, <2>5, <2>6, <2>7, <2>8, <2>9, <2>10, <2>11, <2>12,
       <2>13, <2>14, <2>15, <2>16, <2>17, <2>18, <2>19, <2>20, <2>21, <2>22
    DEF CallStep, StopBegin
<1>3. CASE WorkerStep \/ (\E w \in Works : FilterWorkDone(w)) \/ FilterToss
  <2>1. UNCHANGED <<mState, mInit, mExit, call>>
    BY <1>3, PoolFrame
  <2>2. future = "false" => future' = future
    <3> SUFFICES ASSUME future = "false" PROVE future' = future
      OBVIOUS
    <3>1. task \notin PostedTasks
      BY CountType DEF Posting
    <3>2. ASSUME (\E ok \in BOOLEAN : DoStart(ok)) \/ DoStop \/ DoRelease PROVE FALSE
      <4>1. task # None
        BY <3>2 DEF Thread, DoStart, DoStop, DoRelease, Running
      <4>2. task.kind \in {"doStart", "doStop", "doReset", "doRelease"}
        BY <3>2 DEF DoStart, DoStop, DoRelease, Running
      <4> QED
        BY <3>1, <4>1, <4>2 DEF PostedTasks, TypeOK
    <3> QED
      BY <1>3, <3>2 DEF WorkerStep, WorkerTake, WorkerExit, Trigger, TriggerLoop, DoQueueNothing,
         DoQueueReject, DoQueueSend, DoQueueRegister, Answer, DoFilterWorkDone, DoFlush,
         DoFlushNotify, DoNotifyError, FilterWorkDone, FilterToss
  <2> QED
    BY <2>1, <2>2
<1>4. CASE UNCHANGED componentVars
  BY <1>4 DEF componentVars
<1> QED
  BY <1>1, <1>2, <1>3, <1>4 DEF Next

-----------------------------------------------------------------------------
(* Tasks in the pool: posted ones and those of a flush.                    *)

\* Taking a task does not change how many there are.
LEMMA CountTake ==
  ASSUME TypeOK, Thread, WorkerTake, NEW P, P \subseteq Tasks
  PROVE  Count(P)' = Count(P)
<1>0. tasks \in Seq(Tasks) /\ None \notin P
  BY NullAssumption DEF TypeOK
<1>1. PICK i \in DOMAIN tasks : task' = tasks[i] /\ tasks' = RemoveAt(tasks, i)
  BY DEF WorkerTake
<1>2. i \in 1..Len(tasks)
  BY <1>0
<1>3. Cardinality(Positions(tasks', P))
        = Cardinality(Positions(tasks, P)) - (IF tasks[i] \in P THEN 1 ELSE 0)
  BY <1>0, <1>1, <1>2, PositionsRemoveAt
<1>4. task = None
  BY DEF Thread, WorkerTake
<1>5. Cardinality(Positions(tasks, P)) \in Nat
  BY CountType
<1> QED
  BY <1>0, <1>1, <1>3, <1>4, <1>5 DEF Count

\* A pushed task counts.
LEMMA CountPush ==
  ASSUME TypeOK, NEW t \in Tasks, tasks' = Append(tasks, t), NEW P, UNCHANGED task
  PROVE  Count(P)' = Count(P) + (IF t \in P THEN 1 ELSE 0)
<1>1. tasks \in Seq(Tasks)
  BY DEF TypeOK
<1>2. Cardinality(Positions(tasks', P))
        = Cardinality(Positions(tasks, P)) + (IF t \in P THEN 1 ELSE 0)
  BY <1>1, PositionsAppend
<1>3. Cardinality(Positions(tasks, P)) \in Nat
  BY CountType
<1> QED
  BY <1>2, <1>3 DEF Count

\* A task that is done counts no longer.
LEMMA CountDone ==
  ASSUME TypeOK, UNCHANGED tasks, task' = None, NEW P, P \subseteq Tasks
  PROVE  Count(P)' = Count(P) - (IF task \in P THEN 1 ELSE 0)
<1>1. Cardinality(Positions(tasks, P)) \in Nat
  BY CountType
<1> QED
  BY <1>1, NullAssumption DEF Count

\* Clearing the list leaves the task in the thread's hands.
LEMMA CountClear ==
  ASSUME TypeOK, tasks' = <<>>, UNCHANGED task, NEW P
  PROVE  /\ Count(P)' = IF task \in P THEN 1 ELSE 0
         /\ Count(P)' = Count(P) - Cardinality(Positions(tasks, P))
<1>1. Positions(tasks', P) = {}
  BY DEF Positions
<1>2. Cardinality(Positions(tasks', P)) = 0
  BY <1>1, FS_EmptySet
<1>3. Cardinality(Positions(tasks, P)) \in Nat
  BY CountType
<1> QED
  BY <1>2, <1>3 DEF Count

\* Where a call waits for the result of its task.
WaitCalls == {"start.wait", "stop.wait", "reset.wait", "release.wait"}

\* A call that does not wait itself finds no result that anybody waits for.
LEMMA NobodyWaits ==
  ASSUME Locks, Posting, NEW c \in Clients, stateLock = None \/ call[c] \notin Unlocked,
         call[c] \notin WaitCalls
  PROVE  /\ future = None
         /\ Count(PostedTasks) = 0
<1>1. ~InCalls(WaitCalls)
  BY ComponentAssumption, LockHolder DEF InCalls, WaitCalls, Unlocked
<1>2. future = None
  BY <1>1 DEF Posting, WaitCalls
<1> QED
  BY <1>2, NullAssumption DEF Posting

\* When nothing is posted, nothing has to be waited for.
LEMMA NothingPosted ==
  ASSUME tasks' \in Seq(Tasks), Count(PostedTasks)' = 0, future' = None
  PROVE  Posting'
<1>2. /\ Cardinality(Positions(tasks', PostedTasks)) \in Nat
      /\ Cardinality(Positions(tasks', PostedTasks)) = 0 <=> Positions(tasks', PostedTasks) = {}
  BY PositionsFinite
<1>3. ((ToSet(tasks) \union {task}) \cap PostedTasks = {})'
  BY <1>2 DEF Count, Positions, ToSet
<1> QED
  BY <1>3, NullAssumption DEF Posting

\* post() leaves one task to wait for, or none if the pool refuses it.
LEMMA PostedOnce ==
  ASSUME TypeOK, tasks' \in Seq(Tasks), NEW c \in Clients, UNCHANGED task,
         Count(PostedTasks) = 0,
         NEW kind \in {"doStart", "doStop", "doReset", "doRelease"}, PostTask(kind),
         call' = [call EXCEPT ![c] = WaitFor(kind)]
  PROVE  Posting'
<1> DEFINE t == Task(kind, 0, mNextSession)
<1>0. /\ tasks \in Seq(Tasks) /\ call \in [Clients -> Calls] /\ task \in Tasks \union {None}
  BY DEF TypeOK
<1>1. t \in PostedTasks /\ t \in Tasks /\ t.kind = kind
  BY DEF TypeOK, PostedTasks, Task, Tasks, Kinds
<1>2. (ToSet(tasks) \union {task}) \cap PostedTasks = {}
  BY CountType
<1> HIDE DEF t
<1>3. InCalls({WaitFor(kind)})' /\ InCalls({"start.wait", "stop.wait", "reset.wait", "release.wait"})'
  BY <1>0 DEF InCalls, WaitFor
<1>4. CASE mExit
  <2>1. tasks' = tasks /\ future' = "false"
    BY <1>4 DEF PostTask, Toss, Push
  <2>2. Count(PostedTasks)' = 0
    BY <2>1 DEF Count
  <2> QED
    BY <1>2, <1>3, <2>1, <2>2 DEF Posting
<1>5. CASE ~mExit
  <2>1. tasks' = Append(tasks, t) /\ future' = "waiting"
    BY <1>5 DEF PostTask, Toss, Push, t
  <2>2. Count(PostedTasks)' = 1
    BY <1>1, <2>1, CountPush
  <2>3. ToSet(tasks') = ToSet(tasks) \union {t}
    BY <1>0, <1>1, <2>1, AppendKeepsInjective
  <2>4. ((ToSet(tasks) \union {task}) \cap PostedTasks)' = {t}
    BY <1>1, <1>2, <2>3
  <2> QED
    BY <1>1, <1>3, <2>1, <2>2, <2>4 DEF Posting
<1> QED
  BY <1>4, <1>5

\* A task of another kind is pushed.
LEMMA TossOther ==
  ASSUME TypeOK, UNCHANGED task, NEW kind \in Kinds, NEW arg \in Nat, Toss(kind, arg),
         NEW P, \A t \in P : t.kind # kind
  PROVE  /\ Count(P)' = Count(P)
         /\ ToSet(tasks') \cap P = ToSet(tasks) \cap P
<1> DEFINE t == Task(kind, arg, mNextSession)
<1>0. tasks \in Seq(Tasks) /\ mNextSession \in 0..MaxDrains
  BY DEF TypeOK
<1>1. t \in Tasks /\ t \notin P
  BY <1>0 DEF Task, Tasks
<1>2. tasks' = tasks \/ tasks' = Append(tasks, t)
  BY DEF Toss, Push
<1>3. Count(P) \in Nat
  BY CountType
<1> HIDE DEF t
<1>4. CASE tasks' = tasks
  BY <1>4 DEF Count
<1>5. CASE tasks' = Append(tasks, t)
  BY <1>0, <1>1, <1>3, <1>5, CountPush, AppendKeepsInjective
<1> QED
  BY <1>2, <1>4, <1>5

\* The pool goes on with what was posted.
LEMMA PostedShrinks ==
  ASSUME Posting, UNCHANGED <<call, future>>, Count(PostedTasks)' = Count(PostedTasks),
         \A t \in (ToSet(tasks') \union {task'}) \cap PostedTasks : t \in ToSet(tasks) \union {task}
  PROVE  Posting'
  BY DEF Posting, InCalls

\* One task is posted at a time, and its caller waits for it.
LEMMA PostingStep ==
  ASSUME TypeOK, Locks, Thread, Answers, States, Posting, [Next]_componentVars
  PROVE  Posting'
<1>0. /\ call \in [Clients -> Calls] /\ None \notin Clients /\ None \notin PostedTasks
      /\ tasks \in Seq(Tasks) /\ tasks' \in Seq(Tasks)
      /\ batch \in [Clients -> Nat] /\ mInit \in BOOLEAN
  BY ComponentAssumption, NullAssumption, TasksType DEF TypeOK, PostedTasks
<1> USE <1>0 DEF poolVars, workerVars, At, Goto, Enter, Leave
<1>1. ASSUME NEW c \in Clients, NewCall(c) PROVE Posting'
  <2>1. UNCHANGED task
    BY <1>1, CallFrame
  <2>2. stateLock = None /\ call[c] = "idle"
    BY <1>1 DEF NewCall, Queue, DrainBegin, FlushBegin, StartBegin, StopBegin, ResetBegin,
       ReleaseBegin, SetListener
  <2>3. future = None /\ Count(PostedTasks) = 0
    BY <2>2, NobodyWaits DEF WaitCalls
  <2>4. CASE StartBegin(c)
    <3>1. ~mInit
      BY <2>2, <2>4, LockHolder DEF StartBegin, States, InCalls, Unlocked
    <3>2. PostTask("doStart") /\ call' = [call EXCEPT ![c] = WaitFor("doStart")]
      BY <2>4, <3>1 DEF StartBegin, WaitFor
    <3> QED
      BY <2>1, <2>3, <3>2, PostedOnce
  <2>5. CASE ~StartBegin(c)
    <3>1. UNCHANGED <<tasks, future>>
      BY <1>1, <2>5 DEF NewCall, Queue, DrainBegin, FlushBegin, StopBegin, ResetBegin,
         ReleaseBegin, SetListener
    <3> QED
      BY <2>1, <2>3, <3>1, NothingPosted DEF Count
  <2> QED
    BY <2>4, <2>5
<1>2. ASSUME NEW c \in Clients, CallStep(c) PROVE Posting'
  <2>1. UNCHANGED task
    BY <1>2, CallFrame
  <2>2. CASE StartEnd(c) \/ StopWait(c) \/ ResetEnd(c) \/ ReleaseStopPool(c)
    <3>1. UNCHANGED tasks /\ future # "waiting" /\ future' = None
      BY <2>2 DEF StartEnd, StopWait, ResetEnd, ReleaseStopPool
    <3> QED
      BY <2>1, <3>1, NothingPosted DEF Posting, Count
  <2>3. CASE ~(StartEnd(c) \/ StopWait(c) \/ ResetEnd(c) \/ ReleaseStopPool(c))
    <3>1. call[c] \notin WaitCalls /\ (stateLock = None \/ call[c] \notin Unlocked)
      BY <1>2, <2>3 DEF CallStep, QueueToss, DrainToss, FlushWorkQueue, FlushPendingWorkQueue,
         FlushPool, FlushToss, StopBegin, StopPool, StopPost, StopClear, ResetLock, ResetPool,
         ResetPost, ReleaseLock, ReleasePool, ReleasePost, ReleaseEnd, WaitCalls, Unlocked
    <3>2. future = None /\ Count(PostedTasks) = 0
      BY <3>1, NobodyWaits
    <3>3. CASE StopPost(c) \/ ResetPost(c) \/ ReleasePost(c)
      <4>1. PICK kind \in {"doStart", "doStop", "doReset", "doRelease"} :
              PostTask(kind) /\ call' = [call EXCEPT ![c] = WaitFor(kind)]
        BY <3>3 DEF StopPost, ResetPost, ReleasePost, WaitFor
      <4> QED
        BY <2>1, <3>2, <4>1, PostedOnce
    <3>4. CASE FlushPool(c) \/ StopPool(c) \/ ResetPool(c) \/ ReleasePool(c) \/ ReleaseEnd(c)
      <4>1. tasks' = <<>> /\ UNCHANGED future
        BY <3>4 DEF FlushPool, StopPool, ResetPool, ReleasePool, ReleaseEnd, PoolFlush
      <4>2. task \notin PostedTasks
        BY <3>2, CountType
      <4>3. Count(PostedTasks)' = 0
        BY <2>1, <4>1, <4>2, CountClear
      <4> QED
        BY <2>1, <3>2, <4>1, <4>3, NothingPosted
    <3>5. CASE QueueToss(c) \/ DrainToss(c) \/ FlushToss(c)
      <4>1. PICK kind \in {"trigger", "doQueue", "doFlush"}, arg \in Nat :
              Toss(kind, arg) /\ UNCHANGED future
        BY <3>5 DEF QueueToss, DrainToss, FlushToss
      <4>2. Count(PostedTasks)' = Count(PostedTasks)
        BY <2>1, <4>1, TossOther DEF PostedTasks, Kinds
      <4> QED
        BY <2>1, <3>2, <4>1, <4>2, NothingPosted
    <3>6. CASE FlushWorkQueue(c) \/ FlushPendingWorkQueue(c) \/ StopBegin(c) \/ StopClear(c)
               \/ ResetLock(c) \/ ReleaseLock(c)
      <4>1. UNCHANGED <<tasks, future>>
        BY <3>6 DEF FlushWorkQueue, FlushPendingWorkQueue, StopBegin, StopClear, ResetLock,
           ReleaseLock
      <4> QED
        BY <2>1, <3>2, <4>1, NothingPosted DEF Count
    <3> QED
      BY <1>2, <2>3, <3>3, <3>4, <3>5, <3>6 DEF CallStep
  <2> QED
    BY <2>2, <2>3
<1>3. CASE WorkerTake
  <2>1. PICK i \in DOMAIN tasks : task' = tasks[i] /\ tasks' = RemoveAt(tasks, i)
    BY <1>3 DEF WorkerTake
  <2>2. i \in 1..Len(tasks)
    BY LenProperties
  <2>3. ToSet(tasks) = ToSet(tasks') \union {task'}
    BY <2>1, <2>2, RemoveAtKeeps
  <2>4. UNCHANGED <<call, future>>
    BY <1>3 DEF WorkerTake, callVars
  <2> QED
    BY <1>3, <2>3, <2>4, CountTake, PostedShrinks DEF PostedTasks
<1>4. ASSUME (\E ok \in BOOLEAN : DoStart(ok)) \/ DoStop \/ DoRelease PROVE Posting'
  <2>1. task \in PostedTasks /\ task' = None /\ call' = call /\ future' \in {"true", "false"}
    <3>1. task \in Tasks \union {None} /\ task # None
      BY <1>4 DEF TypeOK, Thread, DoStart, DoStop, DoRelease, Running
    <3> QED
      BY <1>4, <3>1 DEF PostedTasks, DoStart, DoStop, DoRelease, Running, Done, callVars
  <2>2. Count(PostedTasks) = 1 /\ InCalls(WaitCalls)
    <3>1. Count(PostedTasks) # 0
      BY <2>1, CountType
    <3>2. future = "waiting"
      BY <3>1 DEF Posting
    <3> QED
      BY <3>2, NullAssumption DEF Posting, WaitCalls
  <2>3. Cardinality(Positions(tasks, PostedTasks)) = 0
    BY <2>1, <2>2, CountType DEF Count
  <2>4. Cardinality(Positions(tasks', PostedTasks)) = 0
    <3>1. CASE UNCHANGED tasks
      BY <2>3, <3>1
    <3>2. CASE tasks' = Append(tasks, Task("doNotifyError", 0, mCurSession))
      <4>1. /\ Task("doNotifyError", 0, mCurSession) \in Tasks
            /\ Task("doNotifyError", 0, mCurSession) \notin PostedTasks
        BY DEF TypeOK, Task, Tasks, Kinds, PostedTasks
      <4> QED
        BY <2>3, <3>2, <4>1, PositionsAppend
    <3> QED
      BY <1>4, <3>1, <3>2 DEF DoStart, DoStop, DoRelease
  <2>5. Positions(tasks', PostedTasks) = {}
    BY <2>4, PositionsFinite
  <2>6. (ToSet(tasks') \union {task'}) \cap PostedTasks = {}
    BY <2>1, <2>5 DEF Positions, ToSet
  <2> QED
    BY <2>1, <2>2, <2>4, <2>6, NullAssumption DEF Posting, Count, InCalls, WaitCalls
<1>5. CASE FilterToss
  <2>1. answering \in Tasks /\ answering \notin PostedTasks
    BY <1>5 DEF FilterToss, TypeOK, Answers, PostedTasks
  <2>2. UNCHANGED <<call, future, task>>
    BY <1>5 DEF FilterToss, callVars
  <2>3. CASE UNCHANGED tasks
    BY <2>2, <2>3, PostedShrinks DEF Count
  <2>4. CASE tasks' = Append(tasks, answering)
    <3>1. ToSet(tasks') = ToSet(tasks) \union {answering}
      BY <2>1, <2>4, AppendKeepsInjective
    <3>2. Count(PostedTasks)' = Count(PostedTasks)
      BY <2>1, <2>2, <2>4, CountPush, CountType
    <3> QED
      BY <2>1, <2>2, <3>1, <3>2, PostedShrinks
  <2> QED
    BY <1>5, <2>3, <2>4 DEF FilterToss, Push
<1>6. ASSUME UNCHANGED <<call, future, tasks>>, UNCHANGED task \/ (task' = None /\ task \notin PostedTasks)
      PROVE  Posting'
  <2>1. Count(PostedTasks)' = Count(PostedTasks)
    BY <1>6 DEF Count
  <2> QED
    BY <1>6, <2>1, PostedShrinks
<1>7. ASSUME Trigger \/ Answer \/ DoNotifyError \/ DoFlush \/ DoFlushNotify \/ TriggerLoop \/ DoFilterWorkDone
      PROVE Posting'
  <2>1. task \notin PostedTasks
    BY <1>7 DEF PostedTasks, Thread, Running, Trigger, Answer, DoNotifyError, DoFlush, DoFlushNotify,
       TriggerLoop, DoFilterWorkDone
  <2>2. UNCHANGED <<call, future, tasks>> /\ (UNCHANGED task \/ task' = None)
    BY <1>7 DEF Trigger, Answer, DoNotifyError, DoFlush, DoFlushNotify, TriggerLoop, DoFilterWorkDone,
       Done, callVars
  <2> QED
    BY <1>6, <2>1, <2>2
<1>8. CASE WorkerExit \/ DoQueueNothing \/ DoQueueReject \/ DoQueueSend \/ DoQueueRegister
           \/ (\E w \in Works : FilterWorkDone(w)) \/ UNCHANGED componentVars
  <2>1. UNCHANGED <<call, future, tasks, task>>
    BY <1>8 DEF WorkerExit, DoQueueNothing, DoQueueReject, DoQueueSend, DoQueueRegister,
       FilterWorkDone, componentVars, callVars
  <2> QED
    BY <1>6, <2>1
<1> QED
  BY <1>1, <1>2, <1>3, <1>4, <1>5, <1>7, <1>8 DEF Next, WorkerStep

\* A call that stays inside some places, or outside of them.
LEMMA CallsKept ==
  ASSUME call \in [Clients -> Calls], NEW c \in Clients, NEW pc, Goto(c, pc),
         NEW C, call[c] \in C <=> pc \in C
  PROVE  InCalls(C)' <=> InCalls(C)
  BY DEF Goto, InCalls

\* A task that does not count is pushed.
LEMMA PushOther ==
  ASSUME TypeOK, NEW P, NEW t \in Tasks, t \notin P, tasks' = tasks \/ tasks' = Append(tasks, t)
  PROVE  /\ ToSet(tasks') \cap P = ToSet(tasks) \cap P
         /\ Cardinality(Positions(tasks', P)) = Cardinality(Positions(tasks, P))
<1>0. tasks \in Seq(Tasks) /\ Cardinality(Positions(tasks, P)) \in Nat
  BY CountType DEF TypeOK
<1>1. CASE tasks' = tasks
  BY <1>1
<1>2. CASE tasks' = Append(tasks, t)
  <2>1. ToSet(tasks') = ToSet(tasks) \union {t}
    BY <1>0, <1>2, AppendKeepsInjective
  <2>2. Cardinality(Positions(tasks', P)) = Cardinality(Positions(tasks, P)) + 0
    BY <1>0, <1>2, PositionsAppend
  <2> QED
    BY <1>0, <2>1, <2>2
<1> QED
  BY <1>1, <1>2

\* The tasks of a pool step that are not those of a flush.
LEMMA PoolFlushTasks ==
  ASSUME TypeOK, Thread, Answers,
         WorkerStep \/ (\E w \in Works : FilterWorkDone(w)) \/ FilterToss
  PROVE  /\ ToSet(tasks') \cap FlushTask \subseteq ToSet(tasks) \cap FlushTask
         /\ ~DoFlushNotify => Count(FlushTask)' = Count(FlushTask)
<1>0. /\ tasks \in Seq(Tasks) /\ None \notin FlushTask /\ FlushTask \subseteq Tasks
      /\ task \in Tasks \union {None}
  BY NullAssumption DEF TypeOK, FlushTask
<1> USE DEF poolVars, workerVars
<1>1. CASE WorkerTake
  <2>1. PICK i \in DOMAIN tasks : task' = tasks[i] /\ tasks' = RemoveAt(tasks, i)
    BY <1>1 DEF WorkerTake
  <2>2. i \in 1..Len(tasks)
    BY <1>0, LenProperties
  <2> QED
    BY <1>0, <1>1, <2>1, <2>2, RemoveAtKeeps, CountTake DEF DoFlushNotify, WorkerTake
<1>2. ASSUME NEW ok \in BOOLEAN, DoStart(ok)
      PROVE  /\ ToSet(tasks') \cap FlushTask \subseteq ToSet(tasks) \cap FlushTask
             /\ Count(FlushTask)' = Count(FlushTask)
  <2> DEFINE t == Task("doNotifyError", 0, mCurSession)
  <2>1. t \in Tasks /\ t \notin FlushTask
    BY DEF TypeOK, Task, Tasks, Kinds, FlushTask
  <2>2. task \notin FlushTask /\ task' = None
    BY <1>2 DEF DoStart, Running, Done, FlushTask
  <2>3. tasks' = tasks \/ tasks' = Append(tasks, t)
    BY <1>2 DEF DoStart
  <2> HIDE DEF t
  <2>4. /\ ToSet(tasks') \cap FlushTask = ToSet(tasks) \cap FlushTask
        /\ Cardinality(Positions(tasks', FlushTask)) = Cardinality(Positions(tasks, FlushTask))
    BY <2>1, <2>3, PushOther
  <2> QED
    BY <1>0, <2>2, <2>4 DEF Count
<1>3. CASE FilterToss
  <2>1. answering \in Tasks /\ answering \notin FlushTask
    BY <1>3 DEF FilterToss, TypeOK, Answers, FlushTask
  <2>2. UNCHANGED task /\ (tasks' = tasks \/ tasks' = Append(tasks, answering))
    BY <1>3 DEF FilterToss, Push
  <2> QED
    BY <2>1, <2>2, PushOther DEF Count
<1>4. CASE DoFlushNotify
  BY <1>4 DEF DoFlushNotify
<1>5. CASE Trigger \/ Answer \/ DoNotifyError \/ TriggerLoop \/ DoFilterWorkDone \/ DoStop \/ DoRelease
  <2>1. task \notin FlushTask
    BY <1>5 DEF FlushTask, Thread, Running, Trigger, Answer, DoNotifyError, TriggerLoop,
       DoFilterWorkDone, DoStop, DoRelease
  <2>2. UNCHANGED tasks /\ (UNCHANGED task \/ task' = None)
    BY <1>5 DEF Trigger, Answer, DoNotifyError, TriggerLoop, DoFilterWorkDone, DoStop, DoRelease,
       Done
  <2> QED
    BY <1>0, <2>1, <2>2 DEF Count
<1>6. CASE WorkerExit \/ DoQueueNothing \/ DoQueueReject \/ DoQueueSend \/ DoQueueRegister
           \/ DoFlush \/ (\E w \in Works : FilterWorkDone(w))
  <2>1. UNCHANGED <<tasks, task>>
    BY <1>6 DEF WorkerExit, DoQueueNothing, DoQueueReject, DoQueueSend, DoQueueRegister, DoFlush,
       FilterWorkDone
  <2> QED
    BY <2>1 DEF Count
<1> QED
  BY <1>1, <1>2, <1>3, <1>4, <1>5, <1>6 DEF WorkerStep

\* After the pool was cleared no flush_sm() gets in before the stop or reset ends.
LEMMA NoFlushTaskStep ==
  ASSUME TypeOK, Locks, Thread, Answers, NoFlushTask, [Next]_componentVars
  PROVE  NoFlushTask'
<1> DEFINE C == {"stop.post", "stop.wait", "reset.post", "reset.wait"}
<1>0. /\ call \in [Clients -> Calls] /\ after \in [Clients -> Calls]
      /\ batch \in [Clients -> Nat]
  BY DEF TypeOK
<1>h. /\ stateLock = None => \A c \in Clients : call[c] \in Unlocked
      /\ \A c, d \in Clients : call[c] \notin Unlocked /\ call[d] \notin Unlocked => c = d
  BY ComponentAssumption, LockHolder
<1> USE DEF poolVars, At, Goto, Enter, Leave
<1>1. ASSUME NEW c \in Clients, NewCall(c) PROVE ~InCalls(C)'
  <2>1. \A d \in Clients : call[d] \in Unlocked
    BY <1>1, <1>h DEF NewCall, Queue, DrainBegin, FlushBegin, StartBegin, StopBegin, ResetBegin,
       ReleaseBegin, SetListener
  <2>2. call' = call \/ \E pc \in {"queue.toss", "drain.toss", "flush.work", "start.wait",
          "stop.pool", "stop.clear", "reset.lock", "release.lock", "reset.stop", "reset.pool",
          "release.stop", "release.pool"} : call' = [call EXCEPT ![c] = pc]
    BY <1>1 DEF NewCall, Queue, DrainBegin, FlushBegin, StartBegin, StopBegin, ResetBegin,
       ReleaseBegin, SetListener, callVars
  <2> QED
    BY <1>0, <2>1, <2>2 DEF InCalls, Unlocked
<1>2. ASSUME NEW c \in Clients, CallStep(c) PROVE NoFlushTask'
  <2>1. UNCHANGED task
    BY <1>2, CallFrame DEF workerVars
  <2>2. CASE FlushPool(c) \/ StopPool(c) \/ ResetPool(c) \/ ReleasePool(c) \/ ReleaseEnd(c)
    <3>1. tasks' = <<>>
      BY <2>2 DEF FlushPool, StopPool, ResetPool, ReleasePool, ReleaseEnd, PoolFlush
    <3> QED
      BY <3>1 DEF NoFlushTask, ToSet
  <2>3. CASE FlushToss(c)
    BY <1>0, <1>h, <2>3 DEF FlushToss, NoFlushTask, InCalls, Unlocked
  <2>4. ASSUME \E pc \in Calls : Goto(c, pc) /\ (call[c] \in C <=> pc \in C),
               ToSet(tasks') \cap FlushTask = ToSet(tasks) \cap FlushTask
        PROVE  NoFlushTask'
    <3>1. InCalls(C)' <=> InCalls(C)
      BY <1>0, <2>4, CallsKept
    <3> QED
      BY <2>4, <3>1 DEF NoFlushTask
  <2>5. CASE QueueToss(c) \/ DrainToss(c) \/ StopPost(c) \/ ResetPost(c) \/ ReleasePost(c)
    <3>1. PICK kind \in Kinds \ {"doFlush"}, arg \in Nat : Toss(kind, arg)
      BY <1>0, <2>5 DEF QueueToss, DrainToss, StopPost, ResetPost, ReleasePost, PostTask, Kinds
    <3>2. ToSet(tasks') \cap FlushTask = ToSet(tasks) \cap FlushTask
      BY <2>1, <3>1, TossOther DEF FlushTask
    <3>3. \E pc \in Calls : Goto(c, pc) /\ (call[c] \in C <=> pc \in C)
      BY <2>5 DEF QueueToss, DrainToss, StopPost, ResetPost, ReleasePost, Calls
    <3> QED
      BY <2>4, <3>2, <3>3
  <2>6. CASE FlushWorkQueue(c) \/ FlushPendingWorkQueue(c) \/ StartEnd(c) \/ StopBegin(c)
             \/ ResetLock(c) \/ ReleaseLock(c) \/ ReleaseStopPool(c) \/ StopClear(c)
    <3>1. UNCHANGED tasks
      BY <2>6 DEF FlushWorkQueue, FlushPendingWorkQueue, StartEnd, StopBegin, ResetLock, ReleaseLock,
         ReleaseStopPool, StopClear
    <3>2. \E pc \in Calls : Goto(c, pc) /\ (call[c] \in C <=> pc \in C)
      <4>1. CASE StopBegin(c)
        BY <4>1 DEF StopBegin, Calls
      <4>2. CASE StopClear(c)
        <5>1. after[c] \in Calls /\ after[c] \notin C
          BY <1>0 DEF Locks
        <5> QED
          BY <4>2, <5>1 DEF StopClear
      <4> QED
        BY <2>6, <4>1, <4>2 DEF FlushWorkQueue, FlushPendingWorkQueue, StartEnd, ResetLock,
           ReleaseLock, ReleaseStopPool, Calls
    <3> QED
      BY <2>4, <3>1, <3>2
  <2>7. CASE StopWait(c) \/ ResetEnd(c)
    BY <1>0, <2>7 DEF StopWait, ResetEnd, NoFlushTask, InCalls
  <2> QED
    BY <1>2, <2>2, <2>3, <2>5, <2>6, <2>7 DEF CallStep
<1>3. CASE WorkerStep \/ (\E w \in Works : FilterWorkDone(w)) \/ FilterToss
  <2>1. UNCHANGED call
    BY <1>3, PoolFrame DEF callVars
  <2> QED
    BY <1>3, <2>1, PoolFlushTasks DEF NoFlushTask, InCalls
<1>4. CASE UNCHANGED componentVars
  BY <1>4 DEF componentVars, callVars, NoFlushTask, InCalls
<1> QED
  BY <1>1, <1>2, <1>3, <1>4 DEF Next, NoFlushTask

\* Every flush is counted from its begin to the end of its task, whoever ends it.
LEMMA FlushCountStep ==
  ASSUME TypeOK, Locks, Thread, Answers, States, Posting, NoFlushTask, FlushCount,
         [Next]_componentVars
  PROVE  FlushCount'
<1>0. /\ call \in [Clients -> Calls] /\ after \in [Clients -> Calls]
      /\ batch \in [Clients -> Nat] /\ tasks \in Seq(Tasks) /\ task \in Tasks \union {None}
      /\ None \notin FlushTask /\ FlushTask \subseteq Tasks
      /\ mPendingFlushCount \in Nat
  BY NullAssumption DEF TypeOK, FlushTask
<1>h. /\ stateLock = None => \A c \in Clients : call[c] \in Unlocked
      /\ \A c, d \in Clients : call[c] \notin Unlocked /\ call[d] \notin Unlocked => c = d
  BY ComponentAssumption, LockHolder
<1>n. Count(FlushTask) \in Nat
  BY CountType
<1>k. ASSUME UNCHANGED mPendingFlushCount, Count(FlushTask)' = Count(FlushTask),
             InCalls(FlushCalls)' <=> InCalls(FlushCalls)
      PROVE  FlushCount'
  BY <1>k DEF FlushCount
<1> USE DEF poolVars, At, Goto, Enter, Leave
<1>1. ASSUME NEW c \in Clients, NewCall(c) PROVE FlushCount'
  <2>1. UNCHANGED task
    BY <1>1, CallFrame DEF workerVars
  <2>2. CASE FlushBegin(c)
    <3>1. ~InCalls(FlushCalls) /\ InCalls(FlushCalls)'
      BY <1>0, <1>h, <2>2 DEF FlushBegin, InCalls, FlushCalls, Unlocked
    <3>2. Count(FlushTask)' = Count(FlushTask)
      BY <2>1, <2>2 DEF FlushBegin, Count
    <3> QED
      BY <1>n, <2>2, <3>1, <3>2 DEF FlushBegin, FlushCount
  <2>3. CASE ~FlushBegin(c)
    <3>1. UNCHANGED mPendingFlushCount
      BY <1>1, <2>3 DEF NewCall, Queue, DrainBegin, StartBegin, StopBegin, ResetBegin, ReleaseBegin,
         SetListener
    <3>2. InCalls(FlushCalls)' <=> InCalls(FlushCalls)
      <4>1. call' = call \/ \E pc \in Calls \ FlushCalls : call' = [call EXCEPT ![c] = pc]
        BY <1>1, <2>3 DEF NewCall, Queue, DrainBegin, StartBegin, StopBegin, ResetBegin,
           ReleaseBegin, SetListener, callVars, Calls, FlushCalls
      <4>2. call[c] \notin FlushCalls
        BY <1>1 DEF NewCall, Queue, DrainBegin, FlushBegin, StartBegin, StopBegin, ResetBegin,
           ReleaseBegin, SetListener, FlushCalls
      <4> QED
        BY <1>0, <4>1, <4>2 DEF InCalls
    <3>3. Count(FlushTask)' = Count(FlushTask)
      <4>1. CASE StartBegin(c)
        <5>1. UNCHANGED tasks \/ Toss("doStart", 0)
          BY <4>1 DEF StartBegin, PostTask
        <5> QED
          BY <2>1, <5>1, TossOther DEF FlushTask, Kinds, Count
      <4>2. CASE ~StartBegin(c)
        <5>1. UNCHANGED tasks
          BY <1>1, <2>3, <4>2 DEF NewCall, Queue, DrainBegin, StopBegin, ResetBegin, ReleaseBegin,
             SetListener
        <5> QED
          BY <2>1, <5>1 DEF Count
      <4> QED
        BY <4>1, <4>2
    <3> QED
      BY <1>k, <3>1, <3>2, <3>3
  <2> QED
    BY <2>2, <2>3
<1>2. ASSUME NEW c \in Clients, CallStep(c) PROVE FlushCount'
  <2>1. UNCHANGED task
    BY <1>2, CallFrame DEF workerVars
  <2>2. CASE FlushPool(c) \/ StopPool(c) \/ ResetPool(c) \/ ReleasePool(c) \/ ReleaseEnd(c)
    <3>1. tasks' = <<>> /\ mPendingFlushCount' = mPendingFlushCount - Cardinality(FlushTasks)
      BY <2>2 DEF FlushPool, StopPool, ResetPool, ReleasePool, ReleaseEnd, PoolFlush
    <3>2. FlushTasks = Positions(tasks, FlushTask)
      BY <1>0 DEF FlushTasks, Positions, FlushTask
    <3>3. Count(FlushTask)' = Count(FlushTask) - Cardinality(FlushTasks)
      BY <2>1, <3>1, <3>2, CountClear
    <3>4. InCalls(FlushCalls)' <=> InCalls(FlushCalls)
      <4>1. \E pc \in Calls : Goto(c, pc) /\ (call[c] \in FlushCalls <=> pc \in FlushCalls)
        BY <2>2 DEF FlushPool, StopPool, ResetPool, ReleasePool, ReleaseEnd, Calls, FlushCalls
      <4> QED
        BY <1>0, <4>1, CallsKept
    <3>5. Cardinality(FlushTasks) \in Nat
      BY <3>2, CountType
    <3> QED
      BY <1>n, <3>1, <3>3, <3>4, <3>5 DEF FlushCount
  <2>3. CASE FlushToss(c)
    <3>1. InCalls(FlushCalls) /\ ~InCalls(FlushCalls)'
      BY <1>0, <1>h, <2>3 DEF FlushToss, InCalls, FlushCalls, Unlocked
    <3>2. ~mExit
      BY <3>1 DEF States, InCalls
    <3> DEFINE t == Task("doFlush", 0, mNextSession)
    <3>3. t \in Tasks /\ t \in FlushTask
      BY DEF TypeOK, Task, Tasks, Kinds, FlushTask
    <3>4. tasks' = Append(tasks, t)
      BY <2>3, <3>2 DEF FlushToss, Toss, Push
    <3> HIDE DEF t
    <3>5. Count(FlushTask)' = Count(FlushTask) + 1
      BY <2>1, <3>3, <3>4, CountPush
    <3> QED
      BY <1>n, <2>3, <3>1, <3>5 DEF FlushToss, FlushCount
  <2>4. ASSUME UNCHANGED mPendingFlushCount, Count(FlushTask)' = Count(FlushTask),
               \E pc \in Calls : Goto(c, pc) /\ (call[c] \in FlushCalls <=> pc \in FlushCalls)
        PROVE  FlushCount'
    BY <1>0, <1>k, <2>4, CallsKept
  <2>5. CASE QueueToss(c) \/ DrainToss(c) \/ StopPost(c) \/ ResetPost(c) \/ ReleasePost(c)
    <3>1. PICK kind \in Kinds \ {"doFlush"}, arg \in Nat : Toss(kind, arg)
      BY <1>0, <2>5 DEF QueueToss, DrainToss, StopPost, ResetPost, ReleasePost, PostTask, Kinds
    <3>2. Count(FlushTask)' = Count(FlushTask)
      BY <2>1, <3>1, TossOther DEF FlushTask
    <3>3. \E pc \in Calls : Goto(c, pc) /\ (call[c] \in FlushCalls <=> pc \in FlushCalls)
      BY <2>5 DEF QueueToss, DrainToss, StopPost, ResetPost, ReleasePost, Calls, FlushCalls
    <3>4. UNCHANGED mPendingFlushCount
      BY <2>5 DEF QueueToss, DrainToss, StopPost, ResetPost, ReleasePost
    <3> QED
      BY <2>4, <3>2, <3>3, <3>4
  <2>6. CASE FlushWorkQueue(c) \/ FlushPendingWorkQueue(c) \/ StartEnd(c) \/ StopBegin(c)
             \/ ResetLock(c) \/ ReleaseLock(c) \/ ReleaseStopPool(c) \/ StopClear(c)
             \/ StopWait(c) \/ ResetEnd(c)
    <3>1. UNCHANGED <<tasks, mPendingFlushCount>>
      BY <2>6 DEF FlushWorkQueue, FlushPendingWorkQueue, StartEnd, StopBegin, ResetLock, ReleaseLock,
         ReleaseStopPool, StopClear, StopWait, ResetEnd
    <3>2. \E pc \in Calls : Goto(c, pc) /\ (call[c] \in FlushCalls <=> pc \in FlushCalls)
      <4>1. CASE StopBegin(c)
        BY <4>1 DEF StopBegin, Calls, FlushCalls
      <4>2. CASE StopClear(c)
        <5>1. after[c] \in Calls /\ after[c] \notin FlushCalls
          BY <1>0 DEF Locks, FlushCalls
        <5> QED
          BY <4>2, <5>1 DEF StopClear, FlushCalls
      <4> QED
        BY <2>6, <4>1, <4>2 DEF FlushWorkQueue, FlushPendingWorkQueue, StartEnd, ResetLock,
           ReleaseLock, ReleaseStopPool, StopWait, ResetEnd, Calls, FlushCalls
    <3> QED
      BY <2>1, <2>4, <3>1, <3>2 DEF Count
  <2> QED
    BY <1>2, <2>2, <2>3, <2>5, <2>6 DEF CallStep
<1>3. CASE WorkerStep \/ (\E w \in Works : FilterWorkDone(w)) \/ FilterToss
  <2>1. InCalls(FlushCalls)' <=> InCalls(FlushCalls)
    BY <1>3, PoolFrame DEF callVars, InCalls
  <2>2. CASE DoFlushNotify
    <3>1. task \in FlushTask
      BY <1>0, <2>2 DEF DoFlushNotify, Thread, FlushTask
    <3>2. Count(FlushTask)' = Count(FlushTask) - 1
      BY <1>0, <2>2, <3>1, CountDone DEF DoFlushNotify, Done
    <3> QED
      BY <1>n, <2>1, <2>2, <3>2 DEF DoFlushNotify, FlushCount
  <2>3. CASE DoStop
    <3>1. Count(FlushTask)' = Count(FlushTask)
      BY <1>3, <2>3, PoolFlushTasks DEF DoStop, DoFlushNotify, Running
    <3>2. task \in Tasks /\ task.kind \in {"doStop", "doReset"}
      BY <1>0, <2>3 DEF DoStop, Running, Thread
    <3>3. InCalls({WaitFor(task.kind)})
      BY <3>2 DEF Posting, PostedTasks
    <3>4. InCalls({"stop.wait", "reset.wait"})
      BY <3>2, <3>3 DEF InCalls, WaitFor
    <3>5. ~InCalls(FlushCalls) /\ ToSet(tasks) \cap FlushTask = {}
      BY <1>h, <3>4 DEF NoFlushTask, InCalls, FlushCalls, Unlocked
    <3>6. Positions(tasks, FlushTask) = {} /\ task \notin FlushTask
      BY <3>2, <3>5 DEF Positions, ToSet, FlushTask
    <3>7. Count(FlushTask) = 0
      BY <3>6, FS_EmptySet DEF Count
    <3> QED
      BY <2>1, <2>3, <3>1, <3>5, <3>7 DEF DoStop, FlushCount
  <2>4. CASE ~DoFlushNotify /\ ~DoStop
    <3>1. UNCHANGED mPendingFlushCount
      BY <1>3, <2>4 DEF WorkerStep, WorkerTake, WorkerExit, Trigger, TriggerLoop, DoQueueNothing,
         DoQueueReject, DoQueueSend, DoQueueRegister, Answer, DoFilterWorkDone, DoFlush, DoStart,
         DoRelease, DoNotifyError, FilterWorkDone, FilterToss
    <3> QED
      BY <1>3, <1>k, <2>1, <2>4, <3>1, PoolFlushTasks
  <2> QED
    BY <2>2, <2>3, <2>4
<1>4. CASE UNCHANGED componentVars
  BY <1>4 DEF componentVars, callVars, workerVars, FlushCount, InCalls, Count
<1> QED
  BY <1>1, <1>2, <1>3, <1>4 DEF Next

\* FlushCount says what FlushCountMatches says.
LEMMA FlushCountHolds ==
  ASSUME TypeOK, Locks, FlushCount
  PROVE  FlushCountMatches
<1>0. tasks \in Seq(Tasks) /\ task \in Tasks \union {None} /\ None \notin FlushTask
  BY NullAssumption DEF TypeOK, FlushTask
<1>1. FlushTasks = Positions(tasks, FlushTask)
  BY <1>0 DEF FlushTasks, Positions, FlushTask
<1>2. task \in FlushTask <=> task # None /\ task.kind = "doFlush"
  BY <1>0 DEF FlushTask
<1>3. Cardinality({c \in Clients : Flushing(c)}) = IF InCalls(FlushCalls) THEN 1 ELSE 0
  <2>1. CASE InCalls(FlushCalls)
    <3>1. PICK c \in Clients : call[c] \in FlushCalls
      BY <2>1 DEF InCalls
    <3>2. {d \in Clients : Flushing(d)} = {c}
      BY <3>1, ComponentAssumption, LockHolder DEF Flushing, FlushCalls, Unlocked
    <3> QED
      BY <2>1, <3>2, FS_Singleton
  <2>2. CASE ~InCalls(FlushCalls)
    <3>1. {d \in Clients : Flushing(d)} = {}
      BY <2>2 DEF Flushing, InCalls, FlushCalls
    <3> QED
      BY <2>2, <3>1, FS_EmptySet
  <2> QED
    BY <2>1, <2>2
<1>4. Cardinality(Positions(tasks, FlushTask)) \in Nat
  BY CountType
<1> QED
  BY <1>1, <1>2, <1>3, <1>4 DEF FlushCount, FlushCountMatches, Count

-----------------------------------------------------------------------------
(* Works.                                                                  *)

\* The steps that move a work.
LEMMA WorkFrame ==
  ASSUME [Next]_componentVars
  PROVE  \/ UNCHANGED <<queueVars, hand, workVars>>
         \/ \E c \in Clients :
              \/ \E n \in 1..MaxBatch : Queue(c, n)
              \/ DrainBegin(c) \/ FlushWorkQueue(c) \/ FlushPendingWorkQueue(c) \/ StopClear(c)
         \/ DoQueueReject \/ DoQueueSend \/ DoQueueRegister \/ DoFilterWorkDone
<1>1. ASSUME NEW c \in Clients, NewCall(c), ~DrainBegin(c), \A n \in 1..MaxBatch : ~Queue(c, n)
      PROVE  UNCHANGED <<queueVars, hand, workVars>>
  BY <1>1 DEF NewCall, FlushBegin, StartBegin, StopBegin, ResetBegin, ReleaseBegin, SetListener,
     workerVars
<1>2. ASSUME NEW c \in Clients, CallStep(c), ~FlushWorkQueue(c), ~FlushPendingWorkQueue(c),
             ~StopClear(c)
      PROVE  UNCHANGED <<queueVars, hand, workVars>>
  BY <1>2 DEF CallStep, QueueToss, DrainToss, FlushPool, FlushToss, StartEnd, StopBegin, StopPool,
     StopPost, StopWait, ResetLock, ResetPool, ResetPost, ResetEnd, ReleaseLock, ReleasePool,
     ReleasePost, ReleaseStopPool, ReleaseEnd, workerVars
<1>3. ASSUME WorkerStep, ~DoQueueReject, ~DoQueueSend, ~DoQueueRegister, ~DoFilterWorkDone
      PROVE  UNCHANGED <<queueVars, hand, workVars>>
  BY <1>3 DEF WorkerStep, WorkerTake, WorkerExit, Trigger, TriggerLoop, DoQueueNothing, Answer,
     DoFlush, DoFlushNotify, DoStart, DoStop, DoRelease, DoNotifyError
<1>4. ASSUME (\E w \in Works : FilterWorkDone(w)) \/ FilterToss \/ UNCHANGED componentVars
      PROVE  UNCHANGED <<queueVars, hand, workVars>>
  BY <1>4 DEF FilterWorkDone, FilterToss, componentVars, workerVars
<1> QED
  BY <1>1, <1>2, <1>3, <1>4 DEF Next

\* Works that settle are held no longer and come back once.
LEMMA SettleOnce ==
  ASSUME TypeOK, NEW S, NEW how \in {"done", "flushed", "dropped"},
         \A w \in S : outcome[w] = "held", Settle(S, how),
         \A w \in Works : returns[w] = IF outcome[w] \in {"done", "flushed"} THEN 1 ELSE 0
  PROVE  /\ \A w \in Works : outcome'[w] = "held" <=> outcome[w] = "held" /\ w \notin S
         /\ \A w \in Works : returns'[w] = IF outcome'[w] \in {"done", "flushed"} THEN 1 ELSE 0
  BY DEF Settle, TypeOK

\* The works accepted so far are the first ones.
LEMMA FirstWorks ==
  ASSUME TypeOK, Numbers
  PROVE  /\ Cardinality(Accepted) \in 0..MaxWorks
         /\ Accepted = 1..Cardinality(Accepted)
<1>1. Accepted \subseteq 1..MaxWorks /\ MaxWorks \in Nat
  BY ComponentAssumption DEF Accepted, Queued
<1>2. IsFiniteSet(1..MaxWorks) /\ Cardinality(1..MaxWorks) = MaxWorks
  BY <1>1, FS_Interval
<1>3. Cardinality(Accepted) \in Nat /\ Cardinality(Accepted) <= MaxWorks
  BY <1>1, <1>2, FS_Subset, FS_CardinalityType
<1>4. \A w \in 1..MaxWorks : w \in Accepted <=> w <= Cardinality(Accepted)
  BY DEF Numbers, Accepted, Queued
<1> DEFINE k == Cardinality(Accepted)
<1> HIDE DEF k
<1>5. k \in 0..MaxWorks
  BY <1>1, <1>3 DEF k
<1>6. \A w \in Accepted : w \in 1..k
  BY <1>1, <1>4, <1>5 DEF k
<1>7. \A w \in 1..k : w \in Accepted
  BY <1>1, <1>4, <1>5 DEF k
<1> DEFINE first == 1..k
<1> HIDE DEF first
<1>8. Accepted = first
  BY <1>6, <1>7, Zenon DEF first
<1> QED
  BY <1>5, <1>8 DEF k, first

\* queue_nb() numbers its works on from there.
LEMMA NewItems ==
  ASSUME TypeOK, Numbers, NEW n \in 1..MaxBatch,
         NEW items \in [1..n -> Int], \A i \in 1..n : items[i] = Cardinality(Accepted) + i,
         Cardinality(Accepted) + n <= MaxWorks
  PROVE  /\ items \in Seq(Works)
         /\ Injective(items)
         /\ ToSet(items) = (Cardinality(Accepted) + 1)..(Cardinality(Accepted) + n)
         /\ ToSet(items) \subseteq Queued
         /\ \A w \in ToSet(items) : outcome[w] = "new"
<1> DEFINE k == Cardinality(Accepted)
<1>1. k \in 0..MaxWorks /\ MaxWorks \in Nat /\ n \in Nat /\ n >= 1 /\ k + n <= MaxWorks
  BY ComponentAssumption, FirstWorks
<1>2. \A w \in Queued : outcome[w] # "new" <=> w <= k
  BY DEF Numbers
<1> HIDE DEF k
<1>3. DOMAIN items = 1..n /\ \A i \in 1..n : items[i] = k + i
  BY <1>1 DEF k
<1>4. \A i \in 1..n : items[i] \in Queued
  BY <1>1, <1>3 DEF Queued
<1>5. items \in Seq(Works)
  <2>1. items \in [1..n -> Works]
    BY <1>4 DEF Works
  <2> QED
    BY <1>1, <2>1, SeqDef
<1>6. Injective(items)
  BY <1>1, <1>3 DEF Injective
<1>7. ToSet(items) = (k + 1)..(k + n)
  <2>1. \A i \in DOMAIN items : items[i] \in (k + 1)..(k + n)
    BY <1>1, <1>3
  <2>2. \A w \in (k + 1)..(k + n) : w - k \in DOMAIN items /\ items[w - k] = w
    BY <1>1, <1>3
  <2> DEFINE new == (k + 1)..(k + n)
  <2>3. (\A i \in DOMAIN items : items[i] \in new) /\ \A w \in new : \E i \in DOMAIN items : items[i] = w
    BY <2>1, <2>2
  <2> HIDE DEF new
  <2> QED
    BY <2>3, ElementsAre DEF new
<1>8. \A w \in (k + 1)..(k + n) : w \in Queued /\ ~(w <= k)
  BY <1>1 DEF Queued
<1> QED
  BY <1>2, <1>5, <1>6, <1>7, <1>8 DEF k

\* A work is in one place, and there as long as it is held.
LEMMA PlacesStep ==
  ASSUME TypeOK, Locks, Thread, Numbers, Places, [Next]_componentVars
  PROVE  Places'
<1>0. /\ mWorkQueue \in Seq(Works) /\ mPendingWorkQueue \in Seq(Works) /\ None \notin Works
      /\ outcome \in [Works -> {"new", "held", "done", "flushed", "dropped"}]
      /\ returns \in [Works -> Nat] /\ hand \in Works \union {None}
  BY ComponentAssumption DEF TypeOK, Works, Queued, Drains
<1>e. Injective(<<>>) /\ ToSet(<<>>) = {}
  BY DEF Injective, ToSet
<1>1. CASE UNCHANGED <<queueVars, hand, workVars>>
  BY <1>1 DEF Places, queueVars, workVars
<1>2. ASSUME NEW c \in Clients, NEW n \in 1..MaxBatch, Queue(c, n) PROVE Places'
  <2> DEFINE next == Cardinality(Accepted) + 1
             items == [i \in 1..n |-> next + i - 1]
  <2>1. /\ next + n - 1 <= MaxWorks
        /\ mWorkQueue' = mWorkQueue \o items
        /\ outcome' = [w \in Works |-> IF w \in ToSet(items) THEN "held" ELSE outcome[w]]
        /\ UNCHANGED <<mPendingWorkQueue, hand, returns>>
    BY <1>2 DEF Queue, Accepted, workerVars
  <2>2. /\ items \in Seq(Works) /\ Injective(items)
        /\ ToSet(items) \subseteq Works
        /\ \A w \in ToSet(items) : outcome[w] = "new"
    <3>1. /\ items \in [1..n -> Int] /\ \A i \in 1..n : items[i] = Cardinality(Accepted) + i
          /\ Cardinality(Accepted) + n <= MaxWorks
      BY <2>1, FirstWorks, ComponentAssumption
    <3> HIDE DEF items
    <3> QED
      BY <3>1, NewItems DEF Works
  <2> HIDE DEF items
  <2>3. ToSet(items) \cap (ToSet(mWorkQueue) \union ToSet(mPendingWorkQueue) \union {hand}) = {}
    BY <1>0, <2>2 DEF Places
  <2>4. Injective(mWorkQueue') /\ ToSet(mWorkQueue') = ToSet(mWorkQueue) \union ToSet(items)
    BY <1>0, <2>1, <2>2, <2>3, ConcatKeepsInjective DEF Places
  <2> QED
    BY <1>0, <2>1, <2>2, <2>3, <2>4 DEF Places
<1>3. ASSUME NEW c \in Clients, DrainBegin(c) PROVE Places'
  <2>1. PICK d \in Drains :
          /\ \A e \in Drains : outcome[e] = "new" <=> e >= d
          /\ mWorkQueue' = Append(mWorkQueue, d)
          /\ outcome' = [outcome EXCEPT ![d] = "held"]
          /\ UNCHANGED <<mPendingWorkQueue, hand, returns>>
    BY <1>3 DEF DrainBegin, workerVars
  <2>2. d \in Works /\ outcome[d] = "new"
    BY <2>1, ComponentAssumption DEF Works, Drains
  <2>3. d \notin ToSet(mWorkQueue) \union ToSet(mPendingWorkQueue) \union {hand}
    BY <1>0, <2>2 DEF Places
  <2>4. Injective(mWorkQueue') /\ ToSet(mWorkQueue') = ToSet(mWorkQueue) \union {d}
    BY <1>0, <2>1, <2>2, <2>3, AppendKeepsInjective DEF Places
  <2> QED
    BY <1>0, <2>1, <2>2, <2>3, <2>4 DEF Places
<1>4. ASSUME NEW c \in Clients, FlushWorkQueue(c) PROVE Places'
  <2>1. /\ mWorkQueue' = <<>> /\ Settle(ToSet(mWorkQueue), "flushed")
        /\ UNCHANGED <<mPendingWorkQueue, hand>>
    BY <1>4 DEF FlushWorkQueue, workerVars
  <2>2. \A w \in ToSet(mWorkQueue) : w \in Works /\ outcome[w] = "held"
    BY <1>0 DEF Places, ToSet
  <2>3. /\ \A w \in Works : outcome'[w] = "held" <=> outcome[w] = "held" /\ w \notin ToSet(mWorkQueue)
        /\ \A w \in Works : returns'[w] = IF outcome'[w] \in {"done", "flushed"} THEN 1 ELSE 0
    BY <2>1, <2>2, SettleOnce DEF Places
  <2> QED
    BY <1>e, <2>1, <2>3 DEF Places
<1>5. ASSUME NEW c \in Clients, FlushPendingWorkQueue(c) PROVE Places'
  <2>1. /\ mPendingWorkQueue' = <<>> /\ Settle(ToSet(mPendingWorkQueue), "flushed")
        /\ UNCHANGED <<mWorkQueue, hand>>
    BY <1>5 DEF FlushPendingWorkQueue, workerVars
  <2>2. \A w \in ToSet(mPendingWorkQueue) : w \in Works /\ outcome[w] = "held"
    BY <1>0 DEF Places, ToSet
  <2> QED
    BY <1>0, <1>e, <2>1, <2>2, SettleOnce DEF Places
<1>6. ASSUME NEW c \in Clients, StopClear(c) PROVE Places'
  <2>1. /\ mWorkQueue' = <<>> /\ mPendingWorkQueue' = <<>> /\ UNCHANGED hand
        /\ Settle(ToSet(mWorkQueue) \union ToSet(mPendingWorkQueue), "dropped")
    BY <1>6 DEF StopClear, workerVars
  <2>2. \A w \in ToSet(mWorkQueue) \union ToSet(mPendingWorkQueue) : w \in Works /\ outcome[w] = "held"
    BY <1>0 DEF Places, ToSet
  <2> QED
    BY <1>0, <1>e, <2>1, <2>2, SettleOnce DEF Places
<1>7. CASE DoQueueReject
  <2>1. /\ mWorkQueue # <<>> /\ mWorkQueue' = Tail(mWorkQueue) /\ Send(Head(mWorkQueue))
        /\ UNCHANGED <<mPendingWorkQueue, hand>>
    BY <1>7 DEF DoQueueReject
  <2>2. /\ Head(mWorkQueue) \in Works /\ ToSet(mWorkQueue) = ToSet(mWorkQueue') \union {Head(mWorkQueue)}
        /\ Injective(mWorkQueue') /\ Head(mWorkQueue) \notin ToSet(mWorkQueue')
    BY <1>0, <2>1, TailProperties DEF Places
  <2>3. outcome[Head(mWorkQueue)] = "held"
    BY <2>2 DEF Places
  <2>4. PICK how \in {"done", "flushed", "dropped"} : Settle({Head(mWorkQueue)}, how)
    BY <2>1 DEF Send
  <2>5. /\ \A w \in Works : outcome'[w] = "held" <=> outcome[w] = "held" /\ w \notin {Head(mWorkQueue)}
        /\ \A w \in Works : returns'[w] = IF outcome'[w] \in {"done", "flushed"} THEN 1 ELSE 0
    BY <2>3, <2>4, SettleOnce DEF Places
  <2> QED
    BY <1>0, <2>1, <2>2, <2>5 DEF Places
<1>8. CASE DoQueueSend
  <2>1. /\ mWorkQueue # <<>> /\ mWorkQueue' = Tail(mWorkQueue) /\ hand' = Head(mWorkQueue)
        /\ hand = None /\ UNCHANGED <<mPendingWorkQueue, outcome, returns>>
    BY <1>8 DEF DoQueueSend, workVars, Thread
  <2>2. /\ Head(mWorkQueue) \in Works /\ ToSet(mWorkQueue) = ToSet(mWorkQueue') \union {Head(mWorkQueue)}
        /\ Injective(mWorkQueue') /\ Head(mWorkQueue) \notin ToSet(mWorkQueue')
    BY <1>0, <2>1, TailProperties DEF Places
  <2> QED
    BY <1>0, <2>1, <2>2 DEF Places
<1>9. CASE DoQueueRegister
  <2>1. /\ mPendingWorkQueue' = Append(mPendingWorkQueue, hand) /\ hand' = None /\ hand \in Works
        /\ UNCHANGED <<mWorkQueue, outcome, returns>>
    BY <1>0, <1>9 DEF DoQueueRegister, workVars, Thread
  <2>2. /\ ToSet(mPendingWorkQueue') = ToSet(mPendingWorkQueue) \union {hand}
        /\ Injective(mPendingWorkQueue')
    BY <1>0, <2>1, AppendKeepsInjective DEF Places
  <2>3. None \notin ToSet(mWorkQueue) \union ToSet(mPendingWorkQueue')
    BY <1>0, <2>1, <2>2 DEF ToSet
  <2> QED
    BY <1>0, <2>1, <2>2, <2>3 DEF Places
<1>10. CASE DoFilterWorkDone
  <2>1. CASE task.arg \in ToSet(mPendingWorkQueue)
    <3>1. PICK i \in DOMAIN mPendingWorkQueue :
            mPendingWorkQueue[i] = task.arg /\ mPendingWorkQueue' = RemoveAt(mPendingWorkQueue, i)
      BY <1>10, <2>1 DEF DoFilterWorkDone
    <3>2. i \in 1..Len(mPendingWorkQueue)
      BY <1>0, LenProperties
    <3>3. /\ Injective(mPendingWorkQueue')
          /\ ToSet(mPendingWorkQueue') = ToSet(mPendingWorkQueue) \ {task.arg}
      BY <1>0, <3>1, <3>2, RemoveAtInjective DEF Places
    <3>4. PICK how \in {"done", "flushed", "dropped"} : Settle({task.arg}, how)
      BY <1>10, <2>1 DEF DoFilterWorkDone, AnswerWork, Send
    <3>5. task.arg \in Works /\ outcome[task.arg] = "held"
      BY <1>0, <2>1 DEF Places, ToSet
    <3>6. UNCHANGED <<mWorkQueue, hand>>
      BY <1>10 DEF DoFilterWorkDone
    <3> QED
      BY <1>0, <2>1, <3>3, <3>4, <3>5, <3>6, SettleOnce DEF Places
  <2>2. CASE task.arg \notin ToSet(mPendingWorkQueue)
    BY <1>1, <1>10, <2>2 DEF DoFilterWorkDone, queueVars
  <2> QED
    BY <2>1, <2>2
<1> QED
  BY <1>1, <1>2, <1>3, <1>4, <1>5, <1>6, <1>7, <1>8, <1>9, <1>10, WorkFrame

\* Places says what HeldOnce says.
LEMMA PlacesHold ==
  ASSUME TypeOK, Places
  PROVE  HeldOnce
<1>0. mWorkQueue \in Seq(Works) /\ mPendingWorkQueue \in Seq(Works)
  BY DEF TypeOK
<1>1. ASSUME NEW w \in Works
      PROVE  (IF outcome[w] = "held" THEN 1 ELSE 0)
               = Cardinality({i \in DOMAIN mWorkQueue : mWorkQueue[i] = w})
                 + Cardinality({i \in DOMAIN mPendingWorkQueue : mPendingWorkQueue[i] = w})
                 + (IF hand = w THEN 1 ELSE 0)
  <2>1. /\ Cardinality({i \in DOMAIN mWorkQueue : mWorkQueue[i] = w})
             = IF w \in ToSet(mWorkQueue) THEN 1 ELSE 0
        /\ Cardinality({i \in DOMAIN mPendingWorkQueue : mPendingWorkQueue[i] = w})
             = IF w \in ToSet(mPendingWorkQueue) THEN 1 ELSE 0
    BY <1>0, PlacesOfOne DEF Places
  <2> QED
    BY <2>1 DEF Places
<1> QED
  BY <1>1 DEF HeldOnce, Places

\* A flush goes from one queue to the next.
LEMMA FlushEntered ==
  ASSUME TypeOK, Locks, [Next]_componentVars, NEW c \in Clients
  PROVE  /\ call'[c] \in {"flush.pending", "flush.pool", "flush.toss"}
              => call[c] \in {"flush.pending", "flush.pool", "flush.toss"} \/ FlushWorkQueue(c)
         /\ call'[c] \in {"flush.pool", "flush.toss"}
              => call[c] \in {"flush.pool", "flush.toss"} \/ FlushPendingWorkQueue(c)
         /\ call'[c] = "drain.toss" => call[c] = "drain.toss" \/ DrainBegin(c)
<1>0. call \in [Clients -> Calls] /\ \A d \in Clients : after[d] \in {"idle", "reset.lock", "release.lock"}
  BY DEF TypeOK, Locks
<1> USE <1>0 DEF callVars, Goto, Enter, Leave, At
<1>1. ASSUME NEW d \in Clients, NewCall(d), ~DrainBegin(d)
      PROVE  call'[c] \in {"flush.pending", "flush.pool", "flush.toss", "drain.toss"} => call'[c] = call[c]
  BY <1>1 DEF NewCall, Queue, FlushBegin, StartBegin, StopBegin, ResetBegin, ReleaseBegin, SetListener
<1>2. ASSUME NEW d \in Clients, DrainBegin(d)
      PROVE  IF d = c THEN call'[c] = "drain.toss" ELSE call'[c] = call[c]
  BY <1>2 DEF DrainBegin
<1>3. ASSUME NEW d \in Clients, CallStep(d), ~FlushWorkQueue(d), ~FlushPendingWorkQueue(d), ~FlushPool(d)
      PROVE  call'[c] \in {"flush.pending", "flush.pool", "flush.toss", "drain.toss"} => call'[c] = call[c]
  <2>1. CASE StopClear(d)
    BY <2>1 DEF StopClear
  <2>2. CASE ~StopClear(d)
    BY <1>3, <2>2 DEF CallStep, QueueToss, DrainToss, FlushToss, StartEnd, StopBegin, StopPool,
       StopPost, StopWait, ResetLock, ResetPool, ResetPost, ResetEnd, ReleaseLock, ReleasePool,
       ReleasePost, ReleaseStopPool, ReleaseEnd
  <2> QED
    BY <2>1, <2>2
<1>4. ASSUME NEW d \in Clients, FlushWorkQueue(d)
      PROVE  IF d = c THEN call'[c] = "flush.pending" ELSE call'[c] = call[c]
  BY <1>4 DEF FlushWorkQueue
<1>5. ASSUME NEW d \in Clients, FlushPendingWorkQueue(d)
      PROVE  IF d = c THEN call[c] = "flush.pending" /\ call'[c] = "flush.pool" ELSE call'[c] = call[c]
  BY <1>5 DEF FlushPendingWorkQueue
<1>6. ASSUME NEW d \in Clients, FlushPool(d)
      PROVE  IF d = c THEN call[c] = "flush.pool" /\ call'[c] = "flush.toss" ELSE call'[c] = call[c]
  BY <1>6 DEF FlushPool
<1>7. ASSUME WorkerStep \/ (\E w \in Works : FilterWorkDone(w)) \/ FilterToss PROVE call' = call
  BY <1>7, PoolFrame
<1>8. ASSUME UNCHANGED componentVars PROVE call' = call
  BY <1>8 DEF componentVars
<1> QED
  BY <1>1, <1>2, <1>3, <1>4, <1>5, <1>6, <1>7, <1>8 DEF Next

\* A flush keeps the locks of the queues that it has emptied.
LEMMA EmptiedStep ==
  ASSUME TypeOK, Locks, Emptied, [Next]_componentVars
  PROVE  Emptied'
<1>0. None \notin Clients /\ Pool \notin Clients /\ None # Pool
  BY ComponentAssumption
<1>1. ASSUME NEW c \in Clients, call'[c] \in {"flush.pending", "flush.pool", "flush.toss"}
      PROVE  mWorkQueue' = <<>>
  <2>1. CASE FlushWorkQueue(c)
    BY <2>1 DEF FlushWorkQueue
  <2>2. CASE ~FlushWorkQueue(c)
    <3>1. call[c] \in {"flush.pending", "flush.pool", "flush.toss"}
      BY <1>1, <2>2, FlushEntered
    <3>2. stateLock = c /\ workLock = c /\ mWorkQueue = <<>>
      BY <3>1 DEF Locks, Emptied, InCalls, Unlocked
    <3> QED
      BY <1>0, <3>2, WorkFrame DEF Queue, DrainBegin, FlushWorkQueue, FlushPendingWorkQueue, StopClear,
         DoQueueReject, DoQueueSend, DoQueueRegister, DoFilterWorkDone, queueVars, Enter
  <2> QED
    BY <2>1, <2>2
<1>2. ASSUME NEW c \in Clients, call'[c] \in {"flush.pool", "flush.toss"}
      PROVE  mPendingWorkQueue' = <<>>
  <2>1. CASE FlushPendingWorkQueue(c)
    BY <2>1 DEF FlushPendingWorkQueue
  <2>2. CASE ~FlushPendingWorkQueue(c)
    <3>1. call[c] \in {"flush.pool", "flush.toss"}
      BY <1>2, <2>2, FlushEntered
    <3>2. stateLock = c /\ pendLock = c /\ mPendingWorkQueue = <<>>
      BY <3>1 DEF Locks, Emptied, InCalls, Unlocked
    <3> QED
      BY <1>0, <3>2, WorkFrame DEF Queue, DrainBegin, FlushWorkQueue, FlushPendingWorkQueue, StopClear,
         DoQueueReject, DoQueueSend, DoQueueRegister, DoFilterWorkDone, queueVars, Enter
  <2> QED
    BY <2>1, <2>2
<1> QED
  BY <1>1, <1>2 DEF Emptied, InCalls

\* A work is accepted, then held, then settled.
LEMMA OutcomeSteps ==
  ASSUME TypeOK, Places, [Next]_componentVars, NEW w \in Works
  PROVE  \/ outcome'[w] = outcome[w]
         \/ outcome[w] = "held" /\ outcome'[w] \in {"done", "flushed", "dropped"}
         \/ w \in Queued /\ outcome'[w] = "held" /\ \E c \in Clients, n \in 1..MaxBatch : Queue(c, n)
         \/ w \in Drains /\ outcome'[w] = "held" /\ \E c \in Clients : DrainBegin(c)
<1>0. /\ mWorkQueue \in Seq(Works) /\ mPendingWorkQueue \in Seq(Works)
      /\ outcome \in [Works -> {"new", "held", "done", "flushed", "dropped"}]
      /\ \A v \in ToSet(mWorkQueue) \union ToSet(mPendingWorkQueue) : v \in Works /\ outcome[v] = "held"
  BY DEF TypeOK, Places, ToSet
<1>k. ASSUME NEW S, NEW how \in {"done", "flushed", "dropped"}, Settle(S, how), \A v \in S : outcome[v] = "held"
      PROVE  \/ outcome'[w] = outcome[w]
             \/ outcome[w] = "held" /\ outcome'[w] \in {"done", "flushed", "dropped"}
  BY <1>k DEF Settle
<1>1. CASE UNCHANGED <<queueVars, hand, workVars>>
  BY <1>1 DEF workVars
<1>2. ASSUME NEW c \in Clients, NEW n \in 1..MaxBatch, Queue(c, n),
             outcome'[w] # outcome[w]
      PROVE  w \in Queued /\ outcome'[w] = "held"
  <2> DEFINE next == Cardinality({v \in Queued : outcome[v] # "new"}) + 1
             items == [i \in 1..n |-> next + i - 1]
  <2>1. outcome' = [v \in Works |-> IF v \in ToSet(items) THEN "held" ELSE outcome[v]]
    BY <1>2 DEF Queue
  <2>b. next + n - 1 <= MaxWorks
    BY <1>2 DEF Queue
  <2>2. next \in Nat /\ next >= 1
    <3>1. IsFiniteSet({v \in Queued : outcome[v] # "new"})
      <4>1. IsFiniteSet(Queued) /\ {v \in Queued : outcome[v] # "new"} \subseteq Queued
        BY ComponentAssumption, FS_Interval DEF Queued
      <4> QED
        BY <4>1, FS_Subset
    <3>2. Cardinality({v \in Queued : outcome[v] # "new"}) \in Nat
      BY <3>1, FS_CardinalityType
    <3> QED
      BY <3>2
  <2>3. w \in ToSet(items) /\ outcome'[w] = "held"
    BY <1>2, <2>1
  <2>4. PICK i \in 1..n : w = next + i - 1
    BY <2>3 DEF ToSet
  <2> HIDE DEF next, items
  <2>5. w \in 1..MaxWorks
    BY <2>b, <2>2, <2>4, ComponentAssumption
  <2> QED
    BY <2>3, <2>5 DEF Queued
<1>3. ASSUME NEW c \in Clients, DrainBegin(c), outcome'[w] # outcome[w]
      PROVE  w \in Drains /\ outcome'[w] = "held"
  BY <1>0, <1>3 DEF DrainBegin
<1>4. ASSUME NEW c \in Clients, FlushWorkQueue(c) \/ FlushPendingWorkQueue(c) \/ StopClear(c)
      PROVE  \E S \in SUBSET (ToSet(mWorkQueue) \union ToSet(mPendingWorkQueue)),
                how \in {"done", "flushed", "dropped"} : Settle(S, how)
  BY <1>4 DEF FlushWorkQueue, FlushPendingWorkQueue, StopClear
<1>5. CASE DoQueueReject
  <2>1. Head(mWorkQueue) \in ToSet(mWorkQueue)
    BY <1>0, <1>5, TailProperties DEF DoQueueReject
  <2> QED
    BY <1>0, <1>k, <1>5, <2>1 DEF DoQueueReject, Send
<1>6. CASE DoQueueSend \/ DoQueueRegister
  BY <1>6 DEF DoQueueSend, DoQueueRegister, workVars
<1>7. CASE DoFilterWorkDone
  <2>1. CASE task.arg \in ToSet(mPendingWorkQueue)
    BY <1>0, <1>k, <1>7, <2>1 DEF DoFilterWorkDone, AnswerWork, Send
  <2>2. CASE task.arg \notin ToSet(mPendingWorkQueue)
    BY <1>7, <2>2 DEF DoFilterWorkDone, workVars
  <2> QED
    BY <2>1, <2>2
<1> QED
  BY <1>0, <1>k, <1>1, <1>2, <1>3, <1>4, <1>5, <1>6, <1>7, WorkFrame

\* Who moves a session on.
LEMMA SessionSteps ==
  ASSUME TypeOK, [Next]_componentVars
  PROVE  /\ \/ mNextSession' \in {0, mNextSession}
            \/ \E c \in Clients : DrainToss(c)
         /\ \/ mCurSession' \in {0, mCurSession}
            \/ DoFilterWorkDone
<1> USE DEF poolVars, sessionVars
<1>1. ASSUME NEW c \in Clients, NewCall(c) PROVE UNCHANGED sessionVars
  BY <1>1 DEF NewCall, Queue, DrainBegin, FlushBegin, StartBegin, StopBegin, ResetBegin, ReleaseBegin,
     SetListener
<1>2. ASSUME NEW c \in Clients, CallStep(c), ~DrainToss(c)
      PROVE  mNextSession' \in {0, mNextSession} /\ mCurSession' \in {0, mCurSession}
  BY <1>2 DEF CallStep, QueueToss, FlushWorkQueue, FlushPendingWorkQueue, FlushPool, FlushToss, StartEnd,
     StopBegin, StopPool, StopPost, StopWait, StopClear, ResetLock, ResetPool, ResetPost, ResetEnd,
     ReleaseLock, ReleasePool, ReleasePost, ReleaseStopPool, ReleaseEnd, PoolFlush
<1>3. ASSUME NEW c \in Clients, DrainToss(c) PROVE UNCHANGED mCurSession
  BY <1>3 DEF DrainToss
<1>4. ASSUME WorkerStep \/ (\E w \in Works : FilterWorkDone(w)) \/ FilterToss, ~DoFilterWorkDone
      PROVE  UNCHANGED sessionVars
  BY <1>4 DEF WorkerStep, WorkerTake, WorkerExit, Trigger, TriggerLoop, DoQueueNothing, DoQueueReject,
     DoQueueSend, DoQueueRegister, Answer, DoFlush, DoFlushNotify, DoStart, DoStop, DoRelease,
     DoNotifyError, FilterWorkDone, FilterToss
<1>5. CASE DoFilterWorkDone
  BY <1>5 DEF DoFilterWorkDone
<1>6. ASSUME UNCHANGED componentVars PROVE UNCHANGED sessionVars
  BY <1>6 DEF componentVars
<1> QED
  BY <1>1, <1>2, <1>3, <1>4, <1>5, <1>6 DEF Next

\* The drains are finitely many.
LEMMA DrainsFinite ==
  /\ IsFiniteSet(Drains) /\ Cardinality(Drains) = MaxDrains
  /\ Queued \cap Drains = {}
<1>1. MaxWorks \in Nat /\ MaxDrains \in Nat
  BY ComponentAssumption
<1>2. /\ IsFiniteSet((MaxWorks + 1)..(MaxWorks + MaxDrains))
      /\ Cardinality((MaxWorks + 1)..(MaxWorks + MaxDrains))
           = IF MaxWorks + 1 > MaxWorks + MaxDrains THEN 0
             ELSE MaxWorks + MaxDrains - (MaxWorks + 1) + 1
  BY <1>1, FS_Interval
<1>3. Queued \cap Drains = {}
  BY <1>1 DEF Queued, Drains
<1> QED
  BY <1>1, <1>2, <1>3 DEF Drains

\* As many sessions were closed and opened as drains were begun and ended.
LEMMA DrainCounts ==
  /\ IsFiniteSet(Asked) /\ Cardinality(Asked) \in Nat /\ Cardinality(Asked) <= MaxDrains
  /\ IsFiniteSet(Ended) /\ Cardinality(Ended) \in Nat /\ Cardinality(Ended) <= MaxDrains
<1>1. Asked \subseteq Drains /\ Ended \subseteq Drains
  BY DEF Asked, Ended
<1> QED
  BY <1>1, DrainsFinite, FS_Subset, FS_CardinalityType

\* The same after a step.
LEMMA DrainCountsNext ==
  /\ IsFiniteSet(Asked') /\ Cardinality(Asked') \in Nat /\ Cardinality(Asked') <= MaxDrains
  /\ IsFiniteSet(Ended') /\ Cardinality(Ended') \in Nat /\ Cardinality(Ended') <= MaxDrains
<1>1. Asked' \subseteq Drains /\ Ended' \subseteq Drains
  BY DEF Asked, Ended
<1> QED
  BY <1>1, DrainsFinite, FS_Subset, FS_CardinalityType

\* The works are numbered as they are accepted; neither session runs away.
LEMMA NumbersStep ==
  ASSUME TypeOK, Locks, Thread, Places, Numbers, [Next]_componentVars
  PROVE  Numbers'
<1>0. /\ outcome \in [Works -> {"new", "held", "done", "flushed", "dropped"}]
      /\ mNextSession \in Nat /\ mCurSession \in Nat
      /\ call \in [Clients -> Calls]
  BY DEF TypeOK
<1>d. /\ \A c \in Clients, n \in 1..MaxBatch : Queue(c, n) => ~DoFilterWorkDone /\ mNextSession' = mNextSession
      /\ \A c \in Clients : DrainBegin(c) => mNextSession' = mNextSession
  BY DEF Queue, DrainBegin, poolVars, sessionVars, DoFilterWorkDone, stateVars, Enter
<1>1. \A w \in Queued : outcome'[w] # "new" <=> w <= Cardinality(Accepted')
  <2>1. ASSUME NEW c \in Clients, NEW n \in 1..MaxBatch, Queue(c, n)
        PROVE  \A w \in Queued : outcome'[w] # "new" <=> w <= Cardinality(Accepted')
    <3> DEFINE items == [i \in 1..n |-> Cardinality(Accepted) + 1 + i - 1]
               k == Cardinality(Accepted)
    <3>1. /\ outcome' = [v \in Works |-> IF v \in ToSet(items) THEN "held" ELSE outcome[v]]
          /\ k + 1 + n - 1 <= MaxWorks
      BY <2>1 DEF Queue, Accepted
    <3>2. k \in 0..MaxWorks /\ Accepted = 1..k /\ n \in Nat /\ MaxWorks \in Nat /\ k + n <= MaxWorks
      BY <3>1, FirstWorks, ComponentAssumption
    <3>3. ToSet(items) = (k + 1)..(k + n) /\ ToSet(items) \subseteq Queued
      <4>1. items \in [1..n -> Int] /\ \A i \in 1..n : items[i] = Cardinality(Accepted) + i
        BY <3>2
      <4> HIDE DEF items
      <4> QED
        BY <3>2, <4>1, NewItems
    <3> HIDE DEF items, k
    <3>4. \A w \in Queued : outcome'[w] # "new" <=> outcome[w] # "new" \/ w \in (k + 1)..(k + n)
      BY <1>0, <3>1, <3>3 DEF Works
    <3>5. \A w \in Queued : outcome'[w] # "new" <=> w \in 1..(k + n)
      BY <3>2, <3>4 DEF Accepted, Queued
    <3>6. 1..(k + n) \subseteq Queued
      BY <3>2 DEF Queued
    <3> DEFINE first == 1..(k + n)
    <3>7. Cardinality(first) = k + n
      BY <3>2, FS_Interval
    <3> HIDE DEF first
    <3>8. Accepted' = first
      <4>1. \A w \in Queued : outcome'[w] # "new" <=> w \in first
        BY <3>5 DEF first
      <4>2. first \subseteq Queued
        BY <3>6 DEF first
      <4> QED
        BY <4>1, <4>2 DEF Accepted
    <3> QED
      BY <3>2, <3>5, <3>7, <3>8 DEF Queued
  <2>2. ASSUME ~\E c \in Clients, n \in 1..MaxBatch : Queue(c, n)
        PROVE  \A w \in Queued : outcome'[w] # "new" <=> w <= Cardinality(Accepted')
    <3>1. \A w \in Queued : outcome'[w] # "new" <=> outcome[w] # "new"
      BY <2>2, OutcomeSteps, DrainsFinite DEF Works
    <3>2. Accepted' = Accepted
      BY <3>1 DEF Accepted
    <3> QED
      BY <3>1, <3>2 DEF Numbers
  <2> QED
    BY <2>1, <2>2
<1>2. Asked \subseteq Asked' /\ Ended \subseteq Ended'
  <2>1. \A w \in Drains : /\ outcome[w] # "new" => outcome'[w] # "new"
                          /\ outcome[w] \notin {"new", "held"} => outcome'[w] \notin {"new", "held"}
    <3> TAKE w \in Drains
    <3>1. w \in Works /\ w \notin Queued
      BY DrainsFinite DEF Works
    <3>2. \/ outcome'[w] = outcome[w]
          \/ outcome[w] = "held" /\ outcome'[w] \in {"done", "flushed", "dropped"}
          \/ outcome'[w] = "held" /\ \E c \in Clients : DrainBegin(c)
      BY <3>1, OutcomeSteps
    <3>3. (\E c \in Clients : DrainBegin(c)) => outcome'[w] = outcome[w] \/ outcome[w] = "new"
      <4> SUFFICES ASSUME NEW c \in Clients, DrainBegin(c)
                   PROVE  outcome'[w] = outcome[w] \/ outcome[w] = "new"
        OBVIOUS
      <4>1. PICK d \in Drains : /\ \A e \in Drains : outcome[e] = "new" <=> e >= d
                               /\ outcome' = [outcome EXCEPT ![d] = "held"]
        BY DEF DrainBegin
      <4>2. d \in Int
        BY ComponentAssumption DEF Drains
      <4> QED
        BY <1>0, <3>1, <4>1, <4>2
    <3> QED
      BY <3>2, <3>3
  <2> QED
    BY <2>1 DEF Asked, Ended
<1>3. Cardinality(Asked) <= Cardinality(Asked') /\ Cardinality(Ended) <= Cardinality(Ended')
  BY <1>2, DrainCountsNext, FS_Subset
<1>4. mNextSession' + (IF InCalls({"drain.toss"})' THEN 1 ELSE 0) <= Cardinality(Asked')
  <2>1. ASSUME NEW c \in Clients, DrainBegin(c)
        PROVE  mNextSession' + (IF InCalls({"drain.toss"})' THEN 1 ELSE 0) <= Cardinality(Asked')
    <3>0. PICK d \in Drains : /\ \A e \in Drains : outcome[e] = "new" <=> e >= d
                             /\ outcome' = [outcome EXCEPT ![d] = "held"]
      BY <2>1 DEF DrainBegin
    <3>d. d \in Int
      BY ComponentAssumption DEF Drains
    <3>1. outcome[d] = "new" /\ outcome' = [outcome EXCEPT ![d] = "held"]
      BY <3>0, <3>d
    <3>2. Asked' = Asked \union {d} /\ d \notin Asked
      BY <1>0, <3>1 DEF Asked, Works
    <3>3. Cardinality(Asked') = Cardinality(Asked) + 1
      BY <3>2, DrainCounts, FS_AddElement
    <3>4. mNextSession <= Cardinality(Asked)
      BY <1>0, DrainCounts DEF Numbers
    <3> QED
      BY <1>0, <1>d, <2>1, <3>3, <3>4, DrainCounts
  <2>2. ASSUME NEW c \in Clients, DrainToss(c)
        PROVE  mNextSession' + (IF InCalls({"drain.toss"})' THEN 1 ELSE 0) <= Cardinality(Asked')
    <3>1. mNextSession' = mNextSession + 1 /\ InCalls({"drain.toss"})
      BY <2>2 DEF DrainToss, At, InCalls
    <3>2. ~InCalls({"drain.toss"})'
      BY <1>0, <2>2, ComponentAssumption, LockHolder DEF DrainToss, At, Leave, Goto, InCalls, Unlocked
    <3> QED
      BY <1>0, <1>3, <3>1, <3>2, DrainCounts, DrainCountsNext DEF Numbers
  <2>3. ASSUME ~\E c \in Clients : DrainBegin(c) \/ DrainToss(c)
        PROVE  mNextSession' + (IF InCalls({"drain.toss"})' THEN 1 ELSE 0) <= Cardinality(Asked')
    <3>1. mNextSession' \in {0, mNextSession}
      BY <2>3, SessionSteps
    <3>2. InCalls({"drain.toss"})' => InCalls({"drain.toss"})
      BY <2>3, FlushEntered DEF InCalls
    <3> QED
      BY <1>0, <1>3, <3>1, <3>2, DrainCounts, DrainCountsNext DEF Numbers
  <2> QED
    BY <2>1, <2>2, <2>3
<1>5. mCurSession' <= Cardinality(Ended')
  <2>1. CASE mCurSession' \in {0, mCurSession}
    BY <1>0, <1>3, <2>1, DrainCounts, DrainCountsNext DEF Numbers
  <2>2. CASE DoFilterWorkDone /\ mCurSession' \notin {0, mCurSession}
    <3>1. /\ task.arg \in ToSet(mPendingWorkQueue) /\ task.arg \in Drains
          /\ Settle({task.arg}, "dropped") /\ mCurSession' = mCurSession + 1
      BY <2>2 DEF DoFilterWorkDone, AnswerWork
    <3>2. task.arg \in Works /\ outcome[task.arg] = "held"
      BY <3>1 DEF Places, Works
    <3>3. task.arg \in Ended' /\ task.arg \notin Ended
      BY <3>1, <3>2 DEF Ended, Settle
    <3>4. Ended \union {task.arg} \subseteq Ended'
      BY <1>2, <3>3
    <3>5. Cardinality(Ended \union {task.arg}) = Cardinality(Ended) + 1
      BY <3>3, DrainCounts, FS_AddElement
    <3>6. Cardinality(Ended) + 1 <= Cardinality(Ended')
      BY <3>4, <3>5, DrainCountsNext, FS_Subset
    <3> QED
      BY <1>0, <3>1, <3>6, DrainCounts, DrainCountsNext DEF Numbers
  <2> QED
    BY <2>1, <2>2, SessionSteps
<1> QED
  BY <1>1, <1>4, <1>5 DEF Numbers

\* Nothing takes a work out of `overtaken`.
LEMMA OvertakenGrows ==
  ASSUME [Next]_componentVars
  PROVE  overtaken \subseteq overtaken'
<1>1. ASSUME NEW c \in Clients, NewCall(c) PROVE overtaken' = overtaken
  BY <1>1 DEF NewCall, Queue, DrainBegin, FlushBegin, StartBegin, StopBegin, ResetBegin, ReleaseBegin,
     SetListener
<1>2. ASSUME NEW c \in Clients, CallStep(c) PROVE overtaken \subseteq overtaken'
  BY <1>2 DEF CallStep, QueueToss, DrainToss, FlushWorkQueue, FlushPendingWorkQueue, FlushPool, FlushToss,
     StartEnd, StopBegin, StopPool, StopPost, StopWait, StopClear, ResetLock, ResetPool, ResetPost,
     ResetEnd, ReleaseLock, ReleasePool, ReleasePost, ReleaseStopPool, ReleaseEnd
<1>3. ASSUME WorkerStep \/ (\E w \in Works : FilterWorkDone(w)) \/ FilterToss PROVE overtaken \subseteq overtaken'
  BY <1>3 DEF WorkerStep, WorkerTake, WorkerExit, Trigger, TriggerLoop, DoQueueNothing, DoQueueReject,
     DoQueueSend, DoQueueRegister, Answer, DoFilterWorkDone, DoFlush, DoFlushNotify, DoStart, DoStop,
     DoRelease, DoNotifyError, FilterWorkDone, FilterToss
<1>4. ASSUME UNCHANGED componentVars PROVE overtaken' = overtaken
  BY <1>4 DEF componentVars
<1> QED
  BY <1>1, <1>2, <1>3, <1>4 DEF Next

\* Only flush_sm() raises the count of pending flushes.
LEMMA FlushCountFalls ==
  ASSUME TypeOK, [Next]_componentVars
  PROVE  \/ mPendingFlushCount' > 0 => mPendingFlushCount > 0
         \/ \E c \in Clients : FlushBegin(c)
<1>0. mPendingFlushCount \in Nat /\ Cardinality(FlushTasks) \in Nat
  <2>1. FlushTasks = Positions(tasks, FlushTask)
    BY DEF FlushTasks, Positions, FlushTask, TypeOK
  <2> QED
    BY <2>1, CountType DEF TypeOK
<1>1. ASSUME NEW c \in Clients, NewCall(c), ~FlushBegin(c) PROVE UNCHANGED mPendingFlushCount
  BY <1>1 DEF NewCall, Queue, DrainBegin, StartBegin, StopBegin, ResetBegin, ReleaseBegin, SetListener
<1>2. ASSUME NEW c \in Clients, CallStep(c)
      PROVE  mPendingFlushCount' \in {mPendingFlushCount, mPendingFlushCount - Cardinality(FlushTasks)}
  BY <1>2 DEF CallStep, QueueToss, DrainToss, FlushWorkQueue, FlushPendingWorkQueue, FlushPool, FlushToss,
     StartEnd, StopBegin, StopPool, StopPost, StopWait, StopClear, ResetLock, ResetPool, ResetPost,
     ResetEnd, ReleaseLock, ReleasePool, ReleasePost, ReleaseStopPool, ReleaseEnd, PoolFlush
<1>3. ASSUME WorkerStep \/ (\E w \in Works : FilterWorkDone(w)) \/ FilterToss
      PROVE  mPendingFlushCount' \in {mPendingFlushCount, mPendingFlushCount - 1, 0}
  BY <1>3 DEF WorkerStep, WorkerTake, WorkerExit, Trigger, TriggerLoop, DoQueueNothing, DoQueueReject,
     DoQueueSend, DoQueueRegister, Answer, DoFilterWorkDone, DoFlush, DoFlushNotify, DoStart, DoStop,
     DoRelease, DoNotifyError, FilterWorkDone, FilterToss
<1>4. ASSUME UNCHANGED componentVars PROVE UNCHANGED mPendingFlushCount
  BY <1>4 DEF componentVars
<1> QED
  BY <1>0, <1>1, <1>2, <1>3, <1>4 DEF Next

\* A work gets to the pending queue through the hands of doQueue().
LEMMA WaitsSteps ==
  ASSUME TypeOK, Thread, [Next]_componentVars
  PROVE  \/ Waits' \subseteq Waits
         \/ DoQueueSend /\ Waits' = Waits \union {Head(mWorkQueue)}
<1>0. mPendingWorkQueue \in Seq(Works) /\ mWorkQueue \in Seq(Works) /\ None \notin Works
      /\ hand \in Works \union {None}
  BY ComponentAssumption DEF TypeOK, Works, Queued, Drains
<1>1. CASE UNCHANGED <<queueVars, hand, workVars>>
  BY <1>1 DEF queueVars, Waits
<1>2. ASSUME NEW c \in Clients,
             (\E n \in 1..MaxBatch : Queue(c, n)) \/ DrainBegin(c) \/ FlushWorkQueue(c)
      PROVE  Waits' = Waits
  BY <1>2 DEF Queue, DrainBegin, FlushWorkQueue, workerVars, Waits
<1>3. ASSUME NEW c \in Clients, FlushPendingWorkQueue(c) \/ StopClear(c) PROVE Waits' \subseteq Waits
  BY <1>3 DEF FlushPendingWorkQueue, StopClear, workerVars, Waits, ToSet
<1>4. CASE DoQueueReject
  BY <1>4 DEF DoQueueReject, Waits
<1>5. CASE DoQueueSend
  <2>1. Head(mWorkQueue) \in Works
    BY <1>0, <1>5, TailProperties DEF DoQueueSend
  <2> QED
    BY <1>0, <1>5, <2>1 DEF DoQueueSend, Waits, Thread
<1>6. CASE DoQueueRegister
  <2>1. hand \in Works /\ mPendingWorkQueue' = Append(mPendingWorkQueue, hand) /\ hand' = None
    BY <1>0, <1>6 DEF DoQueueRegister, Thread
  <2>2. ToSet(mPendingWorkQueue') = ToSet(mPendingWorkQueue) \union {hand}
    BY <1>0, <2>1, AppendKeepsInjective
  <2> QED
    BY <1>0, <2>1, <2>2 DEF Waits
<1>7. CASE DoFilterWorkDone
  <2>1. CASE task.arg \in ToSet(mPendingWorkQueue)
    <3>1. PICK i \in DOMAIN mPendingWorkQueue : mPendingWorkQueue' = RemoveAt(mPendingWorkQueue, i)
      BY <1>7, <2>1 DEF DoFilterWorkDone
    <3>2. i \in 1..Len(mPendingWorkQueue)
      BY <1>0, LenProperties
    <3>3. ToSet(mPendingWorkQueue') \subseteq ToSet(mPendingWorkQueue)
      BY <1>0, <3>1, <3>2, RemoveAtKeeps
    <3> QED
      BY <1>7, <3>3 DEF DoFilterWorkDone, Waits
  <2>2. CASE task.arg \notin ToSet(mPendingWorkQueue)
    BY <1>7, <2>2 DEF DoFilterWorkDone, Waits
  <2> QED
    BY <2>1, <2>2
<1> QED
  BY <1>1, <1>2, <1>3, <1>4, <1>5, <1>6, <1>7, WorkFrame

\* While a client holds the lock of the work queue, or nobody does, doQueue()
\* has no work in its hands.
LEMMA HandEmpty ==
  ASSUME Locks, Thread, workLock # Pool
  PROVE  hand = None
  BY DEF Locks, Thread

\* A component that holds nothing is left by stop() ...
LEMMA StopClears ==
  ASSUME TypeOK, Locks, Thread, Places, NEW c \in Clients, StopClear(c)
  PROVE  Held' = {}
<1>1. hand = None
  BY ComponentAssumption, HandEmpty DEF StopClear
<1>2. \A w \in Works : outcome[w] = "held" => w \in ToSet(mWorkQueue) \union ToSet(mPendingWorkQueue)
  BY <1>1, ComponentAssumption DEF Places, Works, Queued, Drains
<1>3. Settle(ToSet(mWorkQueue) \union ToSet(mPendingWorkQueue), "dropped")
  BY DEF StopClear
<1>4. \A w \in Works : outcome'[w] # "held"
  BY <1>2, <1>3 DEF Settle
<1> QED
  BY <1>4 DEF Held

\* ... and by flush_sm().
LEMMA FlushClears ==
  ASSUME TypeOK, Locks, Thread, Places, Emptied,
         InCalls({"flush.pool", "flush.toss"})
  PROVE  Held = {} /\ Waits = {}
<1>1. PICK c \in Clients : call[c] \in {"flush.pool", "flush.toss"}
  BY DEF InCalls
<1>2. workLock = c
  BY <1>1 DEF Locks
<1>3. hand = None
  BY <1>2, ComponentAssumption, HandEmpty
<1>4. mWorkQueue = <<>> /\ mPendingWorkQueue = <<>>
  BY <1>1 DEF Emptied, InCalls
<1> QED
  BY <1>3, <1>4, ComponentAssumption DEF Places, Held, Waits, ToSet, Works, Queued, Drains

\* What is held is held on, except by the calls that add to it.
LEMMA HeldShrinks ==
  ASSUME TypeOK, Places, [Next]_componentVars,
         \A c \in Clients : ~DrainBegin(c) /\ \A n \in 1..MaxBatch : ~Queue(c, n)
  PROVE  Held' \subseteq Held
  BY OutcomeSteps DEF Held

\* Only its own steps move a call that holds the state lock.
LEMMA CallMoved ==
  ASSUME TypeOK, Locks, [Next]_componentVars,
         NEW c \in Clients, call[c] \notin Unlocked, call'[c] # call[c]
  PROVE  CallStep(c)
<1>0. call \in [Clients -> Calls] /\ stateLock # None
  BY ComponentAssumption DEF TypeOK, Locks
<1> USE DEF Goto, Enter, Leave, At
<1>1. ASSUME NEW d \in Clients, NewCall(d) PROVE FALSE
  BY <1>0, <1>1 DEF NewCall, Queue, DrainBegin, FlushBegin, StartBegin, StopBegin, ResetBegin,
     ReleaseBegin, SetListener
<1>2. ASSUME NEW d \in Clients, CallStep(d), d # c PROVE FALSE
  <2>1. \E pc : Goto(d, pc)
    BY <1>2 DEF CallStep, QueueToss, DrainToss, FlushWorkQueue, FlushPendingWorkQueue, FlushPool,
       FlushToss, StartEnd, StopBegin, StopPool, StopPost, StopWait, StopClear, ResetLock, ResetPool,
       ResetPost, ResetEnd, ReleaseLock, ReleasePool, ReleasePost, ReleaseStopPool, ReleaseEnd
  <2> QED
    BY <1>0, <1>2, <2>1
<1>3. ASSUME WorkerStep \/ (\E w \in Works : FilterWorkDone(w)) \/ FilterToss \/ UNCHANGED componentVars
      PROVE  FALSE
  <2>1. call' = call
    BY <1>3, PoolFrame DEF callVars, componentVars
  <2> QED
    BY <2>1
<1> QED
  BY <1>1, <1>2, <1>3 DEF Next

\* A flush or a stop goes on until both queues are empty.
LEMMA FlushLeft ==
  ASSUME TypeOK, Locks, [Next]_componentVars,
         InCalls({"flush.work", "flush.pending"}), ~InCalls({"flush.work", "flush.pending"})'
  PROVE  \E c \in Clients : FlushPendingWorkQueue(c)
<1>1. PICK c \in Clients : call[c] \in {"flush.work", "flush.pending"}
  BY DEF InCalls
<1>2. call'[c] \notin {"flush.work", "flush.pending"}
  BY DEF InCalls
<1>3. CallStep(c)
  BY <1>1, <1>2, CallMoved DEF Unlocked
<1> QED
  BY <1>1, <1>2, <1>3 DEF CallStep, QueueToss, DrainToss, FlushWorkQueue, FlushPool, FlushToss, StartEnd,
     StopBegin, StopPool, StopPost, StopWait, StopClear, ResetLock, ResetPool, ResetPost, ResetEnd,
     ReleaseLock, ReleasePool, ReleasePost, ReleaseStopPool, ReleaseEnd, At, Goto, TypeOK

\* The only way out of stop() is the clear of both queues.
LEMMA StopLeft ==
  ASSUME TypeOK, Locks, [Next]_componentVars, InCalls(StopCalls), ~InCalls(StopCalls)'
  PROVE  \E c \in Clients : StopClear(c)
<1>1. PICK c \in Clients : call[c] \in StopCalls
  BY DEF InCalls
<1>2. call'[c] \notin StopCalls
  BY DEF InCalls
<1>3. CallStep(c)
  BY <1>1, <1>2, CallMoved DEF Unlocked, StopCalls
<1> QED
  BY <1>1, <1>2, <1>3 DEF CallStep, QueueToss, DrainToss, FlushWorkQueue, FlushPendingWorkQueue, FlushPool,
     FlushToss, StartEnd, StopBegin, StopPool, StopPost, StopWait, ResetLock, ResetPool, ResetPost,
     ResetEnd, ReleaseLock, ReleasePool, ReleasePost, ReleaseStopPool, ReleaseEnd, At, Goto, TypeOK,
     StopCalls

\* How a component comes to be stopped: by stop(), with nothing left in it, or at
\* the end of the calls that had stopped it before.
LEMMA StoppedStep ==
  ASSUME TypeOK, Locks, Thread, States, Places, [Next]_componentVars,
         (mState # "RUNNING" /\ ~InCalls(StopCalls))'
  PROVE  \/ Held' = {}
         \/ /\ Held' \subseteq Held
            /\ \/ mState # "RUNNING" /\ ~InCalls(StopCalls)
               \/ \E c \in Clients : ResetLock(c) \/ ReleaseLock(c) \/ ResetEnd(c)
<1>0. call \in [Clients -> Calls] /\ mInit \in BOOLEAN
  BY DEF TypeOK
<1>1. \A c \in Clients : ~DrainBegin(c) /\ \A n \in 1..MaxBatch : ~Queue(c, n)
  BY DEF DrainBegin, Queue
<1>2. Held' \subseteq Held
  BY <1>1, HeldShrinks
<1>3. CASE InCalls(StopCalls)
  <2>1. PICK c \in Clients : StopClear(c)
    BY <1>3, StopLeft
  <2> QED
    BY <2>1, StopClears
<1>4. CASE ~InCalls(StopCalls)
  <2> SUFFICES ASSUME \A c \in Clients : ~ResetLock(c) /\ ~ReleaseLock(c) /\ ~ResetEnd(c)
               PROVE  mState # "RUNNING"
    BY <1>2, <1>4
  <2> USE DEF stateVars
  <2>1. ASSUME NEW c \in Clients, StopBegin(c) PROVE mState # "RUNNING"
    BY <1>0, <2>1 DEF StopBegin, Goto, InCalls, StopCalls
  <2>2. ASSUME NEW c \in Clients, NewCall(c), ~StopBegin(c) PROVE mState # "RUNNING"
    BY <1>1, <2>2 DEF NewCall, FlushBegin, StartBegin, ResetBegin, ReleaseBegin, SetListener, States
  <2>3. ASSUME NEW c \in Clients, CallStep(c), ~StopBegin(c) PROVE mState # "RUNNING"
    BY <2>3 DEF CallStep, QueueToss, DrainToss, FlushWorkQueue, FlushPendingWorkQueue, FlushPool,
       FlushToss, StartEnd, StopPool, StopPost, StopWait, StopClear, ResetPool, ResetPost,
       ReleasePool, ReleasePost, ReleaseStopPool, ReleaseEnd
  <2>4. ASSUME WorkerStep \/ (\E w \in Works : FilterWorkDone(w)) \/ FilterToss \/ UNCHANGED componentVars
        PROVE  mState # "RUNNING"
    BY <2>4, PoolFrame DEF componentVars
  <2> QED
    BY <2>1, <2>2, <2>3, <2>4 DEF Next
<1> QED
  BY <1>3, <1>4

\* How reset() gets to the pool.
LEMMA ResetEntered ==
  ASSUME TypeOK, Locks, [Next]_componentVars, NEW c \in Clients,
         call'[c] \in {"reset.pool", "reset.post", "reset.wait"}
  PROVE  \/ call[c] \in {"reset.pool", "reset.post", "reset.wait"}
         \/ ResetLock(c)
         \/ ResetBegin(c) /\ mState # "RUNNING"
<1> DEFINE R == {"reset.pool", "reset.post", "reset.wait"}
<1>0. /\ call \in [Clients -> Calls]
      /\ \A d \in Clients : after[d] \in {"idle", "reset.lock", "release.lock"}
  BY DEF TypeOK, Locks
<1> USE <1>0 DEF callVars, Goto, Enter, Leave, At
<1>1. ASSUME NEW d \in Clients, NewCall(d), ~ResetBegin(d) PROVE call'[c] = call[c]
  BY <1>1 DEF NewCall, Queue, DrainBegin, FlushBegin, StartBegin, StopBegin, ReleaseBegin, SetListener
<1>2. ASSUME NEW d \in Clients, ResetBegin(d) PROVE call'[c] = call[c] \/ (d = c /\ mState # "RUNNING")
  BY <1>2 DEF ResetBegin
<1>3. ASSUME NEW d \in Clients, CallStep(d), ~ResetLock(d) PROVE call[c] \in R
  <2>1. CASE StopClear(d)
    BY <2>1 DEF StopClear
  <2>2. CASE ~StopClear(d)
    BY <1>3, <2>2 DEF CallStep, QueueToss, DrainToss, FlushWorkQueue, FlushPendingWorkQueue, FlushPool,
       FlushToss, StartEnd, StopBegin, StopPool, StopPost, StopWait, ResetPool, ResetPost, ResetEnd,
       ReleaseLock, ReleasePool, ReleasePost, ReleaseStopPool, ReleaseEnd
  <2> QED
    BY <2>1, <2>2
<1>4. ASSUME NEW d \in Clients, ResetLock(d) PROVE call'[c] = call[c] \/ d = c
  BY <1>4 DEF ResetLock
<1>5. ASSUME WorkerStep \/ (\E w \in Works : FilterWorkDone(w)) \/ FilterToss \/ UNCHANGED componentVars
      PROVE  call' = call
  BY <1>5, PoolFrame DEF componentVars
<1> QED
  BY <1>1, <1>2, <1>3, <1>4, <1>5 DEF Next

\* A work that is held beyond a stop or a flush is one that overtook it.
LEMMA OvertakesStep ==
  ASSUME TypeOK, Locks, Thread, States, Places, Overtakes, [Next]_componentVars
  PROVE  Overtakes'
<1> DEFINE R == {"reset.pool", "reset.post", "reset.wait"}
           F == {"flush.work", "flush.pending"}
<1>0. call \in [Clients -> Calls]
  BY DEF TypeOK
<1>h. stateLock = None => \A c \in Clients : call[c] \in Unlocked
  BY ComponentAssumption, LockHolder
<1>g. overtaken \subseteq overtaken'
  BY OvertakenGrows
<1>1. (mState # "RUNNING" /\ ~InCalls(StopCalls))' => Held' \subseteq overtaken'
  <2> SUFFICES ASSUME (mState # "RUNNING" /\ ~InCalls(StopCalls))' PROVE Held' \subseteq overtaken'
    OBVIOUS
  <2>1. ASSUME NEW c \in Clients, ResetLock(c) \/ ReleaseLock(c) PROVE overtaken' = overtaken \union Held
    BY <2>1 DEF ResetLock, ReleaseLock
  <2>2. ASSUME NEW c \in Clients, ResetEnd(c) PROVE Held \subseteq overtaken
    BY <2>2 DEF ResetEnd, At, InCalls, Overtakes
  <2>3. mState # "RUNNING" /\ ~InCalls(StopCalls) => Held \subseteq overtaken
    BY DEF Overtakes
  <2> QED
    BY <1>g, <2>1, <2>2, <2>3, StoppedStep
<1>2. InCalls(R)' => Held' \subseteq overtaken'
  <2> SUFFICES ASSUME NEW c \in Clients, call'[c] \in R PROVE Held' \subseteq overtaken'
    BY DEF InCalls
  <2>1. \A d \in Clients : ~DrainBegin(d) /\ \A n \in 1..MaxBatch : ~Queue(d, n)
    BY <1>0, <1>h DEF DrainBegin, Queue, Enter, Goto, Unlocked
  <2>2. Held' \subseteq Held
    BY <2>1, HeldShrinks
  <2>3. CASE call[c] \in R
    BY <1>g, <2>2, <2>3 DEF Overtakes, InCalls
  <2>4. CASE ResetLock(c)
    BY <2>2, <2>4 DEF ResetLock
  <2>5. CASE ResetBegin(c) /\ mState # "RUNNING"
    <3>1. ~InCalls(StopCalls)
      BY <1>h, <2>5 DEF ResetBegin, InCalls, StopCalls, Unlocked
    <3> QED
      BY <1>g, <2>2, <2>5, <3>1 DEF Overtakes
  <2> QED
    BY <2>3, <2>4, <2>5, ResetEntered
<1> USE DEF At, Goto, Enter, Leave
<1>3. (mPendingFlushCount' > 0 /\ ~InCalls(F)') => Waits' \subseteq overtaken'
  <2> SUFFICES ASSUME mPendingFlushCount' > 0, ~InCalls(F)' PROVE Waits' \subseteq overtaken'
    OBVIOUS
  <2>1. ~\E c \in Clients : FlushBegin(c)
    BY <1>0 DEF FlushBegin, InCalls
  <2>2. mPendingFlushCount > 0
    BY <2>1, FlushCountFalls
  <2>3. CASE InCalls(F)
    <3>1. \E c \in Clients : FlushPendingWorkQueue(c)
      BY <2>3, FlushLeft DEF InCalls
    <3>2. PICK c \in Clients : FlushPendingWorkQueue(c)
      BY <3>1
    <3>3. hand = None
      <4>1. workLock = c
        BY <3>2 DEF FlushPendingWorkQueue, Locks
      <4> QED
        BY <4>1, ComponentAssumption, HandEmpty
    <3>4. Waits' = {}
      BY <3>2, <3>3 DEF FlushPendingWorkQueue, Waits, ToSet, workerVars
    <3> QED
      BY <3>4
  <2>4. CASE ~InCalls(F)
    <3>1. Waits \subseteq overtaken
      BY <2>2, <2>4 DEF Overtakes
    <3>2. DoQueueSend => overtaken' = overtaken \union {Head(mWorkQueue)}
      BY <2>2 DEF DoQueueSend
    <3> QED
      BY <1>g, <3>1, <3>2, WaitsSteps
  <2> QED
    BY <2>3, <2>4
<1> QED
  BY <1>1, <1>2, <1>3 DEF Overtakes

\* With one client nothing gets into a stopped component.
LEMMA AloneStep ==
  ASSUME TypeOK, Locks, Thread, States, Places, Alone, [Next]_componentVars
  PROVE  Alone'
<1> DEFINE L == {"reset.lock", "release.lock", "reset.pool", "reset.post", "reset.wait"}
<1>0. /\ call \in [Clients -> Calls] /\ mInit \in BOOLEAN
      /\ \A c \in Clients : after[c] \in {"idle", "reset.lock", "release.lock"}
  BY DEF TypeOK, Locks
<1> SUFFICES ASSUME \A c, d \in Clients : c = d
             PROVE  /\ (mState # "RUNNING" /\ ~InCalls(StopCalls) => Held = {})'
                    /\ (InCalls(L) => mState # "RUNNING")'
  BY DEF Alone
<1>1. /\ mState # "RUNNING" /\ ~InCalls(StopCalls) => Held = {}
      /\ InCalls(L) => mState # "RUNNING"
  BY DEF Alone
<1>2. (mState # "RUNNING" /\ ~InCalls(StopCalls) => Held = {})'
  <2>1. ASSUME NEW c \in Clients, ResetLock(c) \/ ReleaseLock(c) \/ ResetEnd(c)
        PROVE  mState # "RUNNING" /\ ~InCalls(StopCalls)
    BY <1>1, <2>1 DEF ResetLock, ReleaseLock, ResetEnd, At, InCalls, StopCalls
  <2>2. Held' \subseteq {} => Held' = {}
    OBVIOUS
  <2> QED
    BY <1>1, <2>1, <2>2, StoppedStep
<1>3. ASSUME NEW c \in Clients, call'[c] \in L PROVE mState' # "RUNNING"
  <2> USE <1>0 DEF callVars, stateVars, Goto, Enter, Leave, At
  <2>1. ASSUME NewCall(c) PROVE mState' # "RUNNING"
    BY <1>3, <2>1 DEF NewCall, Queue, DrainBegin, FlushBegin, StartBegin, StopBegin, ResetBegin,
       ReleaseBegin, SetListener
  <2>2. CASE StopClear(c)
    BY <1>3, <2>2 DEF StopClear, States, InCalls, StopCalls
  <2>3. ASSUME CallStep(c), ~StopClear(c) PROVE mState' # "RUNNING"
    BY <1>1, <1>3, <2>3 DEF CallStep, QueueToss, DrainToss, FlushWorkQueue, FlushPendingWorkQueue, FlushPool,
       FlushToss, StartEnd, StopBegin, StopPool, StopPost, StopWait, ResetLock, ResetPool, ResetPost,
       ResetEnd, ReleaseLock, ReleasePool, ReleasePost, ReleaseStopPool, ReleaseEnd, InCalls
  <2>4. ASSUME WorkerStep \/ (\E w \in Works : FilterWorkDone(w)) \/ FilterToss \/ UNCHANGED componentVars
        PROVE  mState' # "RUNNING"
    BY <1>1, <1>3, <2>4, PoolFrame DEF componentVars, InCalls
  <2>5. \A d \in Clients : d = c
    OBVIOUS
  <2> QED
    BY <2>1, <2>2, <2>3, <2>4, <2>5 DEF Next
<1> QED
  BY <1>2, <1>3 DEF InCalls

\* Alone says what StoppedHoldsNothing says.
LEMMA AloneHolds ==
  ASSUME Alone, \A c, d \in Clients : c = d
  PROVE  StoppedHoldsNothing
<1> SUFFICES ASSUME mState # "RUNNING", \A c \in Clients : call[c] = "idle", NEW w \in Works
             PROVE  outcome[w] # "held"
  BY DEF StoppedHoldsNothing
<1>1. ~InCalls(StopCalls)
  BY DEF InCalls, StopCalls
<1> QED
  BY <1>1 DEF Alone, Held

\* A filter keeps a work until it answers it, or is flushed or stopped.
LEMMA FilterKept ==
  ASSUME [Next]_componentVars, NEW w \in filter
  PROVE  w \in filter' \/ DoFlush \/ DoStop \/ DoRelease \/ FilterWorkDone(w)
<1> USE DEF filterVars
<1>1. ASSUME NEW c \in Clients, NewCall(c) \/ CallStep(c) PROVE filter' = filter
  BY <1>1, CallFrame
<1>2. ASSUME WorkerStep, ~DoFlush, ~DoStop, ~DoRelease PROVE filter \subseteq filter'
  BY <1>2 DEF WorkerStep, WorkerTake, WorkerExit, Trigger, TriggerLoop, DoQueueNothing, DoQueueReject,
     DoQueueSend, DoQueueRegister, Answer, DoFilterWorkDone, DoFlushNotify, DoStart, DoNotifyError
<1>3. ASSUME NEW v \in Works, FilterWorkDone(v) PROVE w \in filter' \/ v = w
  BY <1>3 DEF FilterWorkDone
<1>4. ASSUME FilterToss \/ UNCHANGED componentVars PROVE filter' = filter
  BY <1>4 DEF FilterToss, componentVars
<1> QED
  BY <1>1, <1>2, <1>3, <1>4 DEF Next

\* An answer that was handed over reaches the component, unless the tasks of the
\* pool are cleared, a flush is pending or the pool has stopped.
LEMMA AnswerKept ==
  ASSUME TypeOK, Thread, [Next]_componentVars, NEW w, Answered(w)
  PROVE  \/ Answered(w)'
         \/ \E c \in Clients : FlushPool(c) \/ StopPool(c) \/ ResetPool(c) \/ ReleasePool(c) \/ ReleaseEnd(c)
         \/ Answer /\ mPendingFlushCount > 0
         \/ DoFilterWorkDone /\ task.arg = w
         \/ FilterToss /\ mExit
<1>0. tasks \in Seq(Tasks) /\ None \notin Tasks /\ task \in Tasks \union {None} /\ answering \in Tasks \union {None}
  BY NullAssumption DEF TypeOK
<1>1. PICK t \in (ToSet(tasks) \union {task, answering}) \ {None} : t.kind = "answer" /\ t.arg = w
  BY DEF Answered
<1>k. ASSUME t \in ToSet(tasks') \union {task', answering'} PROVE Answered(w)'
  BY <1>1, <1>k DEF Answered
<1> DEFINE cleared == \E c \in Clients : FlushPool(c) \/ StopPool(c) \/ ResetPool(c) \/ ReleasePool(c)
                                         \/ ReleaseEnd(c)
<1>2. ASSUME t \in ToSet(tasks) PROVE t \in ToSet(tasks') \union {task'} \/ cleared
  <2>1. ASSUME NEW x \in Tasks, tasks' = Append(tasks, x) PROVE t \in ToSet(tasks')
    BY <1>0, <1>2, <2>1, AppendKeepsInjective
  <2>2. ASSUME NEW kind \in Kinds \ {"answer"}, NEW arg \in Nat, NEW session \in 0..MaxDrains,
               tasks' = Append(tasks, Task(kind, arg, session))
        PROVE  t \in ToSet(tasks')
    <3>1. Task(kind, arg, session) \in Tasks
      BY DEF Task, Tasks
    <3> QED
      BY <2>1, <2>2, <3>1
  <2>3. ASSUME NEW i \in DOMAIN tasks, task' = tasks[i], tasks' = RemoveAt(tasks, i)
        PROVE  t \in ToSet(tasks') \union {task'}
    <3>1. i \in 1..Len(tasks)
      BY <1>0, LenProperties
    <3> QED
      BY <1>0, <1>2, <2>3, <3>1, RemoveAtKeeps
  <2> HIDE DEF cleared
  <2>4. TasksStep => \/ UNCHANGED tasks \/ cleared
                     \/ \E i \in DOMAIN tasks : task' = tasks[i] /\ tasks' = RemoveAt(tasks, i)
                     \/ \E kind \in Kinds \ {"answer"}, arg \in Nat, session \in 0..MaxDrains :
                          tasks' = Append(tasks, Task(kind, arg, session))
                     \/ answering # None /\ tasks' = Append(tasks, answering)
    BY DEF TasksStep, cleared
  <2> QED
    BY <1>0, <1>2, <2>1, <2>2, <2>3, <2>4, TasksSteps
<1>3. ASSUME t = task
      PROVE  t = task' \/ (Answer /\ mPendingFlushCount > 0) \/ (DoFilterWorkDone /\ task.arg = w)
  <2> USE DEF workerVars
  <2>1. ASSUME NEW c \in Clients, NewCall(c) \/ CallStep(c) PROVE t = task'
    BY <1>3, <2>1, CallFrame
  <2>2. CASE Answer \/ DoFilterWorkDone
    BY <1>1, <1>3, <2>2 DEF Answer, DoFilterWorkDone
  <2>3. CASE (\E v \in Works : FilterWorkDone(v)) \/ FilterToss \/ UNCHANGED componentVars
    BY <1>3, <2>3 DEF FilterWorkDone, FilterToss, componentVars
  <2>4. ASSUME WorkerStep, ~Answer, ~DoFilterWorkDone PROVE t = task'
    <3>1. task # None /\ task.kind = "answer"
      BY <1>1, <1>3
    <3> QED
      BY <1>3, <2>4, <3>1 DEF Thread, Running, WorkerStep, WorkerTake, WorkerExit, Trigger, TriggerLoop,
         DoQueueNothing, DoQueueReject, DoQueueSend, DoQueueRegister, DoFlush, DoFlushNotify, DoStart,
         DoStop, DoRelease, DoNotifyError
  <2> QED
    BY <2>1, <2>2, <2>3, <2>4 DEF Next
<1>4. ASSUME t = answering
      PROVE  t \in ToSet(tasks') \union {answering'} \/ (FilterToss /\ mExit)
  <2> USE DEF filterVars
  <2>1. ASSUME NEW c \in Clients, NewCall(c) \/ CallStep(c) PROVE t = answering'
    BY <1>4, <2>1, CallFrame
  <2>2. CASE WorkerStep \/ UNCHANGED componentVars
    BY <1>4, <2>2 DEF WorkerStep, WorkerTake, WorkerExit, Trigger, TriggerLoop, DoQueueNothing, DoQueueReject,
       DoQueueSend, DoQueueRegister, Answer, DoFilterWorkDone, DoFlush, DoFlushNotify, DoStart, DoStop,
       DoRelease, DoNotifyError, componentVars
  <2>3. CASE \E v \in Works : FilterWorkDone(v)
    BY <1>1, <1>4, <2>3 DEF FilterWorkDone
  <2>4. CASE FilterToss /\ ~mExit
    <3>1. tasks' = Append(tasks, answering) /\ answering \in Tasks
      BY <1>0, <1>1, <1>4, <2>4 DEF FilterToss, Push
    <3> QED
      BY <1>0, <1>4, <3>1, AppendKeepsInjective
  <2> QED
    BY <2>1, <2>2, <2>3, <2>4 DEF Next
<1> QED
  BY <1>1, <1>2, <1>3, <1>4, <1>k

\* A work that waits is with the filters, answered, or one that overtook a flush.
LEMMA OnTheWayStep ==
  ASSUME TypeOK, Locks, Thread, States, Posting, FlushCount, Places, Emptied, Overtakes, OnTheWay,
         [Next]_componentVars
  PROVE  OnTheWay'
<1> DEFINE F == {"flush.work", "flush.pending"}
<1>0. /\ call \in [Clients -> Calls] /\ task \in Tasks \union {None}
      /\ \A v \in Waits : v \in Works /\ v \in Held
  BY ComponentAssumption DEF TypeOK, Places, Waits, Held, ToSet, Works, Queued, Drains
<1>h. \A c, d \in Clients : call[c] \notin Unlocked /\ call[d] \notin Unlocked => c = d
  BY ComponentAssumption, LockHolder
<1>g. overtaken \subseteq overtaken'
  BY OvertakenGrows
<1> SUFFICES ASSUME ~InCalls(F)', ~InCalls(StopCalls)', NEW w \in Waits'
             PROVE  w \in filter' \/ Answered(w)' \/ w \in overtaken'
  BY DEF OnTheWay
<1>1. CASE \E c \in Clients : FlushPendingWorkQueue(c) \/ StopClear(c)
  <2>1. PICK c \in Clients : FlushPendingWorkQueue(c) \/ StopClear(c)
    BY <1>1
  <2>2. workLock # Pool
    BY <2>1, ComponentAssumption DEF FlushPendingWorkQueue, StopClear, Locks, At
  <2>3. hand = None
    BY <2>2, HandEmpty
  <2>4. Waits' = {}
    BY <2>1, <2>3 DEF FlushPendingWorkQueue, StopClear, Waits, ToSet, workerVars
  <2> QED
    BY <2>4
<1>2. CASE ~\E c \in Clients : FlushPendingWorkQueue(c) \/ StopClear(c)
  <2>1. ~InCalls(F) /\ ~InCalls(StopCalls)
    <3> HIDE DEF F
    <3> QED
      BY <1>2, FlushLeft, StopLeft DEF F
  <2>2. CASE w \notin Waits
    <3>1. DoQueueSend /\ w = Head(mWorkQueue)
      BY <2>2, WaitsSteps
    <3> QED
      BY <3>1 DEF DoQueueSend
  <2>3. ASSUME w \in Waits,
               \/ mState # "RUNNING"
               \/ InCalls({"reset.pool", "reset.post", "reset.wait"})
               \/ mPendingFlushCount > 0
        PROVE  w \in overtaken'
    BY <1>0, <1>g, <2>1, <2>3 DEF Overtakes
  <2>4. CASE w \in Waits
    <3>1. w \in filter \/ Answered(w) \/ w \in overtaken
      BY <2>1, <2>4 DEF OnTheWay
    <3>2. CASE w \in filter
      <4>1. CASE FilterWorkDone(w)
        <5>1. answering' = Task("answer", w, mCurSession)
          BY <4>1 DEF FilterWorkDone
        <5>2. Task("answer", w, mCurSession) \in Tasks
          BY <1>0, <2>4, ComponentAssumption DEF Task, Tasks, Kinds, TypeOK, Works, Queued, Drains
        <5>3. Answered(w)'
          BY <5>1, <5>2, NullAssumption DEF Answered, Task
        <5> QED
          BY <5>3
      <4>2. CASE DoFlush
        <5>1. task \in FlushTask
          BY <1>0, <4>2 DEF DoFlush, Running, Thread, FlushTask
        <5>2. Count(FlushTask) # 0 /\ Count(FlushTask) \in Nat
          BY <5>1, CountType
        <5>3. mPendingFlushCount > 0
          BY <5>2 DEF FlushCount
        <5> QED
          BY <2>3, <2>4, <5>3
      <4>3. CASE DoStop \/ DoRelease
        <5>1. task \in PostedTasks /\ task.kind \in {"doStop", "doReset", "doRelease"}
          BY <1>0, <4>3 DEF DoStop, DoRelease, Running, Thread, PostedTasks
        <5>2. InCalls({WaitFor(task.kind)})
          BY <5>1 DEF Posting
        <5>3. InCalls({"stop.wait"}) \/ InCalls({"reset.wait"}) \/ InCalls({"release.wait"})
          BY <5>1, <5>2 DEF WaitFor
        <5>4. ~InCalls({"stop.wait"})
          BY <2>1 DEF InCalls, StopCalls
        <5>5. mState # "RUNNING" \/ InCalls({"reset.pool", "reset.post", "reset.wait"})
          BY <5>3, <5>4 DEF InCalls, States
        <5> QED
          BY <2>3, <2>4, <5>5
      <4> QED
        BY <3>2, <4>1, <4>2, <4>3, FilterKept
    <3>3. CASE Answered(w)
      <4>1. ASSUME NEW c \in Clients,
                   FlushPool(c) \/ StopPool(c) \/ ResetPool(c) \/ ReleasePool(c) \/ ReleaseEnd(c)
            PROVE  w \in overtaken'
        <5>1. ~FlushPool(c)
          <6>1. FlushPool(c) => InCalls({"flush.pool", "flush.toss"})
            BY DEF FlushPool, At, InCalls
          <6> QED
            BY <2>4, <6>1, FlushClears
        <5>2. ~StopPool(c)
          BY <2>1 DEF StopPool, At, InCalls, StopCalls
        <5>3. mState # "RUNNING" \/ InCalls({"reset.pool", "reset.post", "reset.wait"})
          BY <4>1, <5>1, <5>2 DEF ResetPool, ReleasePool, ReleaseEnd, At, InCalls, States
        <5> QED
          BY <2>3, <2>4, <5>3
      <4>2. ~(DoFilterWorkDone /\ task.arg = w)
        <5> SUFFICES ASSUME DoFilterWorkDone, task.arg = w PROVE FALSE
          OBVIOUS
        <5>1. hand = None /\ hand' = None
          BY DEF DoFilterWorkDone, Thread
        <5>2. w \in ToSet(mPendingWorkQueue)
          BY <2>4, <5>1 DEF Waits
        <5>3. PICK i \in DOMAIN mPendingWorkQueue :
                mPendingWorkQueue[i] = w /\ mPendingWorkQueue' = RemoveAt(mPendingWorkQueue, i)
          BY <5>2 DEF DoFilterWorkDone
        <5>4. mPendingWorkQueue \in Seq(Works)
          BY DEF TypeOK
        <5>5. i \in 1..Len(mPendingWorkQueue)
          BY <5>4, LenProperties
        <5>6. w \notin ToSet(mPendingWorkQueue')
          BY <5>3, <5>4, <5>5, RemoveAtInjective DEF Places
        <5> QED
          BY <5>1, <5>6 DEF Waits
      <4>3. ASSUME FilterToss, mExit PROVE w \in overtaken'
        BY <2>3, <2>4, <4>3 DEF States
      <4> QED
        BY <2>3, <2>4, <3>3, <4>1, <4>2, <4>3, AnswerKept
    <3> QED
      BY <1>g, <3>1, <3>2, <3>3
  <2> QED
    BY <2>2, <2>4
<1> QED
  BY <1>1, <1>2

\* OnTheWay says what NoWorkForgotten says.
LEMMA OnTheWayHolds ==
  ASSUME Locks, OnTheWay
  PROVE  NoWorkForgotten
<1> SUFFICES ASSUME stateLock = None, NEW w \in ToSet(mPendingWorkQueue), mPendingFlushCount = 0
             PROVE  w \in filter \/ Answered(w) \/ w \in overtaken
  BY DEF NoWorkForgotten
<1>1. \A c \in Clients : call[c] \in Unlocked
  BY ComponentAssumption, LockHolder
<1>2. ~InCalls({"flush.work", "flush.pending"}) /\ ~InCalls(StopCalls)
  BY <1>1 DEF InCalls, Unlocked, StopCalls
<1> QED
  BY <1>2 DEF OnTheWay, Waits

-----------------------------------------------------------------------------
(* Types.                                                                  *)

\* What the clients write.
LEMMA ClientTypes ==
  ASSUME TypeOK, [Next]_componentVars
  PROVE  /\ mState' \in State /\ mInit' \in BOOLEAN /\ stateLock' \in Clients \union {None}
         /\ pendLock' \in Clients \union {None} /\ mCallbackListener' \in BOOLEAN /\ mExit' \in BOOLEAN
         /\ call' \in [Clients -> Calls] /\ after' \in [Clients -> Calls] /\ batch' \in [Clients -> Nat]
<1>0. /\ mState \in State /\ mInit \in BOOLEAN /\ stateLock \in Clients \union {None}
      /\ pendLock \in Clients \union {None} /\ mCallbackListener \in BOOLEAN /\ mExit \in BOOLEAN
      /\ call \in [Clients -> Calls] /\ after \in [Clients -> Calls] /\ batch \in [Clients -> Nat]
  BY DEF TypeOK
<1> USE <1>0 DEF stateVars, lockVars, poolVars, callVars, At, Goto, Enter, Leave
<1>k. ASSUME NEW c \in Clients, NEW pc \in Calls PROVE [call EXCEPT ![c] = pc] \in [Clients -> Calls]
  OBVIOUS
<1>1. ASSUME NEW c \in Clients, NewCall(c) \/ CallStep(c)
      PROVE  call' \in [Clients -> Calls]
  <2>1. CASE StopClear(c)
    BY <2>1 DEF StopClear
  <2>2. CASE ~StopClear(c)
    <3>1. call' = call \/ \E pc \in Calls : call' = [call EXCEPT ![c] = pc]
      <4>1. CASE NewCall(c)
        BY <4>1 DEF NewCall, Queue, DrainBegin, FlushBegin, StartBegin, StopBegin, ResetBegin, ReleaseBegin,
           SetListener, Calls
      <4>2. CASE CallStep(c)
        BY <2>2, <4>2 DEF CallStep, QueueToss, DrainToss, FlushWorkQueue, FlushPendingWorkQueue,
           FlushPool, FlushToss, StartEnd, StopBegin, StopPool, StopPost, StopWait, ResetLock, ResetPool,
           ResetPost, ResetEnd, ReleaseLock, ReleasePool, ReleasePost, ReleaseStopPool, ReleaseEnd, Calls
      <4> QED
        BY <1>1, <4>1, <4>2
    <3> QED
      BY <3>1, <1>k
  <2> QED
    BY <2>1, <2>2
<1>2. ASSUME NEW c \in Clients, NewCall(c) \/ CallStep(c)
      PROVE  after' \in [Clients -> Calls]
  <2>1. CASE StopBegin(c)
    <3>1. after' = after \/ \E pc \in {"reset.lock", "release.lock", "idle"} : after' = [after EXCEPT ![c] = pc]
      BY <2>1 DEF StopBegin
    <3> QED
      BY <3>1 DEF Calls
  <2>2. CASE StopClear(c)
    BY <2>2 DEF StopClear, Calls
  <2>3. CASE ~StopBegin(c) /\ ~StopClear(c)
    <3>1. CASE NewCall(c)
      BY <2>3, <3>1 DEF NewCall, Queue, DrainBegin, FlushBegin, StartBegin, ResetBegin, ReleaseBegin,
         SetListener
    <3>2. CASE CallStep(c)
      BY <2>3, <3>2 DEF CallStep, QueueToss, DrainToss, FlushWorkQueue, FlushPendingWorkQueue, FlushPool,
         FlushToss, StartEnd, StopPool, StopPost, StopWait, ResetLock, ResetPool, ResetPost, ResetEnd,
         ReleaseLock, ReleasePool, ReleasePost, ReleaseStopPool, ReleaseEnd
    <3> QED
      BY <1>2, <3>1, <3>2
  <2> QED
    BY <2>1, <2>2, <2>3
<1>3. ASSUME NEW c \in Clients, NewCall(c)
      PROVE  /\ mState' \in State /\ mInit' \in BOOLEAN /\ stateLock' \in Clients \union {None}
             /\ pendLock' \in Clients \union {None} /\ mCallbackListener' \in BOOLEAN /\ mExit' \in BOOLEAN
             /\ batch' \in [Clients -> Nat]
  <2>1. ASSUME NEW n \in 1..MaxBatch, Queue(c, n)
        PROVE  /\ mState' \in State /\ mInit' \in BOOLEAN /\ stateLock' \in Clients \union {None}
               /\ pendLock' \in Clients \union {None} /\ mCallbackListener' \in BOOLEAN /\ mExit' \in BOOLEAN
               /\ batch' \in [Clients -> Nat]
    <3>1. n \in Nat
      BY ComponentAssumption
    <3> QED
      BY <2>1, <3>1 DEF Queue
  <2>2. CASE DrainBegin(c) \/ FlushBegin(c) \/ StartBegin(c) \/ StopBegin(c) \/ ResetBegin(c)
             \/ ReleaseBegin(c) \/ \E set \in BOOLEAN : SetListener(c, set)
    BY <2>2 DEF DrainBegin, FlushBegin, StartBegin, StopBegin, ResetBegin, ReleaseBegin, SetListener, State
  <2> QED
    BY <1>3, <2>1, <2>2 DEF NewCall
<1>4. ASSUME NEW c \in Clients, CallStep(c)
      PROVE  /\ mState' \in State /\ mInit' \in BOOLEAN /\ stateLock' \in Clients \union {None}
             /\ pendLock' \in Clients \union {None} /\ mCallbackListener' \in BOOLEAN /\ mExit' \in BOOLEAN
             /\ batch' \in [Clients -> Nat]
  <2>1. CASE QueueToss(c)
    BY <2>1 DEF QueueToss
  <2>2. CASE ~QueueToss(c)
    <3>1. /\ mState' \in {mState, "RUNNING", "LOADED", "UNLOADED"} /\ mInit' \in {mInit, TRUE, FALSE}
          /\ stateLock' \in {stateLock, c, None} /\ UNCHANGED <<mCallbackListener, batch>>
      BY <1>4, <2>2 DEF CallStep, DrainToss, FlushWorkQueue, FlushPendingWorkQueue, FlushPool, FlushToss,
         StartEnd, StopBegin, StopPool, StopPost, StopWait, StopClear, ResetLock, ResetPool, ResetPost,
         ResetEnd, ReleaseLock, ReleasePool, ReleasePost, ReleaseStopPool, ReleaseEnd
    <3>2. pendLock' \in {pendLock, c, None} /\ mExit' \in {mExit, TRUE}
      BY <1>4, <2>2 DEF CallStep, DrainToss, FlushWorkQueue, FlushPendingWorkQueue, FlushPool, FlushToss,
         StartEnd, StopBegin, StopPool, StopPost, StopWait, StopClear, ResetLock, ResetPool, ResetPost,
         ResetEnd, ReleaseLock, ReleasePool, ReleasePost, ReleaseStopPool, ReleaseEnd
    <3>3. /\ mState' \in State /\ stateLock' \in Clients \union {None} /\ pendLock' \in Clients \union {None}
      BY <3>1, <3>2 DEF State
    <3> QED
      BY <3>1, <3>2, <3>3
  <2> QED
    BY <2>1, <2>2
<1>5. ASSUME WorkerStep \/ (\E w \in Works : FilterWorkDone(w)) \/ FilterToss
      PROVE  UNCHANGED <<stateVars, pendLock, mCallbackListener, mExit, callVars>>
  BY <1>5, PoolFrame
<1>6. CASE UNCHANGED componentVars
  BY <1>6 DEF componentVars
<1> QED
  BY <1>1, <1>2, <1>3, <1>4, <1>5, <1>6 DEF Next

\* What the pool's thread and the filters write.
LEMMA PoolTypes ==
  ASSUME TypeOK, Thread, [Next]_componentVars
  PROVE  /\ workLock' \in Clients \union {Pool, None}
         /\ worker' \in {"idle", "begin", "loop", "doQueue", "register", "answer", "flushed", "exited"}
         /\ left' \in Nat /\ filter' \in SUBSET Works /\ overtaken' \in SUBSET Works
         /\ answering' \in Tasks \union {None}
<1>0. /\ workLock \in Clients \union {Pool, None}
      /\ worker \in {"idle", "begin", "loop", "doQueue", "register", "answer", "flushed", "exited"}
      /\ left \in Nat /\ filter \in SUBSET Works /\ overtaken \in SUBSET Works
      /\ answering \in Tasks \union {None}
      /\ task \in Tasks \union {None} /\ mWorkQueue \in Seq(Works)
  BY DEF TypeOK
<1> USE <1>0 DEF lockVars, workerVars, filterVars, Done, Running
<1>1. ASSUME NEW c \in Clients, NewCall(c) PROVE UNCHANGED <<workLock, workerVars, filterVars, overtaken>>
  BY <1>1 DEF NewCall, Queue, DrainBegin, FlushBegin, StartBegin, StopBegin, ResetBegin, ReleaseBegin,
     SetListener
<1>2. ASSUME NEW c \in Clients, CallStep(c)
      PROVE  /\ UNCHANGED <<workerVars, filterVars>> /\ workLock' \in {workLock, c, None}
             /\ overtaken' \in {overtaken, overtaken \union Held}
  BY <1>2 DEF CallStep, QueueToss, DrainToss, FlushWorkQueue, FlushPendingWorkQueue, FlushPool, FlushToss,
     StartEnd, StopBegin, StopPool, StopPost, StopWait, StopClear, ResetLock, ResetPool, ResetPost,
     ResetEnd, ReleaseLock, ReleasePool, ReleasePost, ReleaseStopPool, ReleaseEnd
<1>3. CASE DoQueueSend
  <2>1. Head(mWorkQueue) \in Works
    BY <1>3, TailProperties DEF DoQueueSend
  <2> QED
    BY <1>3, <2>1 DEF DoQueueSend
<1>4. CASE Trigger
  <2>1. left' \in {left, task.arg}
    BY <1>4 DEF Trigger
  <2>2. task \in Tasks
    BY <1>4 DEF Trigger, Thread
  <2>3. task.arg \in Nat
    BY <2>2 DEF Tasks
  <2>4. left' \in Nat
    BY <2>1, <2>3
  <2>5. /\ worker' \in {"idle", "loop"} /\ UNCHANGED <<workLock, filterVars, overtaken>>
    BY <1>4 DEF Trigger
  <2> QED
    BY <2>4, <2>5
<1>5. ASSUME WorkerStep, ~DoQueueSend, ~Trigger
      PROVE  /\ workLock' \in {workLock, None} /\ left' \in Nat
             /\ worker' \in {"idle", "begin", "loop", "doQueue", "register", "answer", "flushed", "exited"}
             /\ filter' \in {filter, {}} /\ UNCHANGED <<overtaken, answering>>
  BY <1>5 DEF WorkerStep, WorkerTake, WorkerExit, TriggerLoop, DoQueueNothing, DoQueueReject,
     DoQueueRegister, Answer, DoFilterWorkDone, DoFlush, DoFlushNotify, DoStart, DoStop, DoRelease,
     DoNotifyError
<1>6. ASSUME NEW w \in Works, FilterWorkDone(w) PROVE answering' \in Tasks /\ filter' \subseteq filter
  <2>1. w \in Nat /\ mCurSession \in 0..MaxDrains
    BY ComponentAssumption DEF Works, Queued, Drains, TypeOK
  <2>2. Task("answer", w, mCurSession) \in Tasks
    BY <2>1 DEF Task, Tasks, Kinds
  <2> QED
    BY <1>6, <2>2 DEF FilterWorkDone
<1>7. ASSUME (\E w \in Works : FilterWorkDone(w)) \/ FilterToss
      PROVE  UNCHANGED <<workLock, workerVars, overtaken>>
  BY <1>7 DEF FilterWorkDone, FilterToss
<1>8. ASSUME FilterToss PROVE answering' = None /\ filter' = filter
  BY <1>8 DEF FilterToss
<1>9. CASE UNCHANGED componentVars
  BY <1>9 DEF componentVars
<1>h. Held \subseteq Works
  BY DEF Held
<1> QED
  BY <1>1, <1>2, <1>3, <1>4, <1>5, <1>6, <1>7, <1>8, <1>9, <1>h DEF Next

\* The result a caller waits for.
LEMMA FutureType ==
  ASSUME TypeOK, [Next]_componentVars
  PROVE  future' \in {None, "waiting", "true", "false"}
<1>0. future \in {None, "waiting", "true", "false"}
  BY DEF TypeOK
<1> USE <1>0 DEF poolVars
<1>1. ASSUME NEW c \in Clients, NewCall(c) PROVE future' \in {future, "waiting", "false"}
  BY <1>1 DEF NewCall, Queue, DrainBegin, FlushBegin, StartBegin, StopBegin, ResetBegin, ReleaseBegin,
     SetListener, PostTask
<1>2. ASSUME NEW c \in Clients, CallStep(c) PROVE future' \in {future, "waiting", "false", None}
  BY <1>2 DEF CallStep, QueueToss, DrainToss, FlushWorkQueue, FlushPendingWorkQueue, FlushPool, FlushToss,
     StartEnd, StopBegin, StopPool, StopPost, StopWait, StopClear, ResetLock, ResetPool, ResetPost,
     ResetEnd, ReleaseLock, ReleasePool, ReleasePost, ReleaseStopPool, ReleaseEnd, PostTask
<1>3. ASSUME WorkerStep \/ (\E w \in Works : FilterWorkDone(w)) \/ FilterToss
      PROVE  future' \in {future, "true", "false"}
  BY <1>3 DEF WorkerStep, WorkerTake, WorkerExit, Trigger, TriggerLoop, DoQueueNothing, DoQueueReject,
     DoQueueSend, DoQueueRegister, Answer, DoFilterWorkDone, DoFlush, DoFlushNotify, DoStart, DoStop,
     DoRelease, DoNotifyError, FilterWorkDone, FilterToss
<1>4. CASE UNCHANGED componentVars
  BY <1>4 DEF componentVars
<1> QED
  BY <1>1, <1>2, <1>3, <1>4 DEF Next

\* Queues and what becomes of the works.
LEMMA WorkTypes ==
  ASSUME TypeOK, Thread, Numbers, [Next]_componentVars
  PROVE  /\ mWorkQueue' \in Seq(Works) /\ mPendingWorkQueue' \in Seq(Works) /\ hand' \in Works \union {None}
         /\ outcome' \in [Works -> {"new", "held", "done", "flushed", "dropped"}]
         /\ returns' \in [Works -> Nat]
<1>0. /\ mWorkQueue \in Seq(Works) /\ mPendingWorkQueue \in Seq(Works) /\ hand \in Works \union {None}
      /\ outcome \in [Works -> {"new", "held", "done", "flushed", "dropped"}]
      /\ returns \in [Works -> Nat]
  BY DEF TypeOK
<1>e. <<>> \in Seq(Works)
  BY EmptySeq
<1>k. ASSUME NEW S, NEW how \in {"done", "flushed", "dropped"}, Settle(S, how)
      PROVE  /\ outcome' \in [Works -> {"new", "held", "done", "flushed", "dropped"}]
             /\ returns' \in [Works -> Nat]
  BY <1>0, <1>k DEF Settle
<1>1. CASE UNCHANGED <<queueVars, hand, workVars>>
  BY <1>0, <1>1 DEF queueVars, workVars
<1>2. ASSUME NEW c \in Clients, NEW n \in 1..MaxBatch, Queue(c, n)
      PROVE  /\ mWorkQueue' \in Seq(Works) /\ UNCHANGED <<mPendingWorkQueue, hand, returns>>
             /\ outcome' \in [Works -> {"new", "held", "done", "flushed", "dropped"}]
  <2> DEFINE next == Cardinality(Accepted) + 1
             items == [i \in 1..n |-> next + i - 1]
  <2>1. /\ next + n - 1 <= MaxWorks
        /\ mWorkQueue' = mWorkQueue \o items
        /\ outcome' = [w \in Works |-> IF w \in ToSet(items) THEN "held" ELSE outcome[w]]
        /\ UNCHANGED <<mPendingWorkQueue, hand, returns>>
    BY <1>2 DEF Queue, Accepted, workerVars
  <2>2. items \in Seq(Works)
    <3>1. /\ items \in [1..n -> Int] /\ \A i \in 1..n : items[i] = Cardinality(Accepted) + i
          /\ Cardinality(Accepted) + n <= MaxWorks
      BY <2>1, FirstWorks, ComponentAssumption
    <3> HIDE DEF items
    <3> QED
      BY <3>1, NewItems
  <2> HIDE DEF items
  <2> QED
    BY <1>0, <2>1, <2>2, ConcatProperties
<1>3. ASSUME NEW c \in Clients, DrainBegin(c)
      PROVE  /\ mWorkQueue' \in Seq(Works) /\ UNCHANGED <<mPendingWorkQueue, hand, returns>>
             /\ outcome' \in [Works -> {"new", "held", "done", "flushed", "dropped"}]
  <2>1. PICK d \in Drains : /\ mWorkQueue' = Append(mWorkQueue, d) /\ outcome' = [outcome EXCEPT ![d] = "held"]
                            /\ UNCHANGED <<mPendingWorkQueue, hand, returns>>
    BY <1>3 DEF DrainBegin, workerVars
  <2>2. d \in Works
    BY DEF Works
  <2>3. mWorkQueue' \in Seq(Works)
    BY <1>0, <2>1, <2>2, AppendProperties
  <2> QED
    BY <1>0, <2>1, <2>2, <2>3
<1>4. ASSUME NEW c \in Clients, FlushWorkQueue(c) \/ FlushPendingWorkQueue(c) \/ StopClear(c)
      PROVE  /\ mWorkQueue' \in {mWorkQueue, <<>>} /\ mPendingWorkQueue' \in {mPendingWorkQueue, <<>>}
             /\ UNCHANGED hand /\ \E S, how : how \in {"done", "flushed", "dropped"} /\ Settle(S, how)
  BY <1>4 DEF FlushWorkQueue, FlushPendingWorkQueue, StopClear, workerVars
<1>5. CASE DoQueueReject \/ DoQueueSend
  <2>1. /\ mWorkQueue # <<>> /\ mWorkQueue' = Tail(mWorkQueue) /\ hand' \in {hand, Head(mWorkQueue)}
        /\ UNCHANGED mPendingWorkQueue
        /\ UNCHANGED <<outcome, returns>> \/ \E S, how : how \in {"done", "flushed", "dropped"} /\ Settle(S, how)
    BY <1>5 DEF DoQueueReject, DoQueueSend, Send, workVars
  <2>2. Tail(mWorkQueue) \in Seq(Works) /\ Head(mWorkQueue) \in Works
    BY <1>0, <2>1, TailProperties
  <2> QED
    BY <1>0, <1>k, <2>1, <2>2
<1>6. CASE DoQueueRegister
  <2>1. hand \in Works /\ mPendingWorkQueue' = Append(mPendingWorkQueue, hand) /\ hand' = None
        /\ UNCHANGED <<mWorkQueue, outcome, returns>>
    BY <1>0, <1>6 DEF DoQueueRegister, Thread, workVars
  <2>2. mPendingWorkQueue' \in Seq(Works)
    BY <1>0, <2>1, AppendProperties
  <2> QED
    BY <1>0, <2>1, <2>2
<1>7. CASE DoFilterWorkDone
  <2>1. CASE task.arg \in ToSet(mPendingWorkQueue)
    <3>1. PICK i \in DOMAIN mPendingWorkQueue : mPendingWorkQueue' = RemoveAt(mPendingWorkQueue, i)
      BY <1>7, <2>1 DEF DoFilterWorkDone
    <3>2. i \in 1..Len(mPendingWorkQueue)
      BY <1>0, LenProperties
    <3>3. mPendingWorkQueue' \in Seq(Works)
      BY <1>0, <3>1, <3>2, RemoveAtProperties
    <3>4. \E S, how : how \in {"done", "flushed", "dropped"} /\ Settle(S, how)
      BY <1>7, <2>1 DEF DoFilterWorkDone, AnswerWork, Send
    <3> QED
      BY <1>0, <1>7, <1>k, <3>3, <3>4 DEF DoFilterWorkDone
  <2>2. CASE task.arg \notin ToSet(mPendingWorkQueue)
    BY <1>1, <1>7, <2>2 DEF DoFilterWorkDone, queueVars
  <2> QED
    BY <2>1, <2>2
<1> QED
  BY <1>0, <1>e, <1>k, <1>1, <1>2, <1>3, <1>4, <1>5, <1>6, <1>7, WorkFrame

\* Every variable keeps its type.
LEMMA TypeStep ==
  ASSUME TypeOK, Thread, Numbers, Numbers', FlushCount', [Next]_componentVars
  PROVE  TypeOK'
<1>1. tasks' \in Seq(Tasks) /\ task' \in Tasks \union {None}
  BY TasksType
<1>2. mPendingFlushCount' \in Nat
  <2>1. Cardinality(Positions(tasks', FlushTask)) \in Nat
    BY <1>1, PositionsFinite
  <2> QED
    BY <2>1 DEF FlushCount, Count
<1>3. {mCurSession', mNextSession'} \subseteq 0..MaxDrains
  <2>1. mCurSession \in Nat /\ mNextSession \in Nat
    BY DEF TypeOK
  <2>2. mNextSession' \in Nat
    BY <2>1, SessionSteps DEF DrainToss
  <2>3. mCurSession' \in Nat
    <3>1. DoFilterWorkDone => mCurSession' \in {mCurSession, mCurSession + 1}
      BY DEF DoFilterWorkDone, AnswerWork
    <3> QED
      BY <2>1, <3>1, SessionSteps
  <2>4. mNextSession' <= MaxDrains /\ mCurSession' <= MaxDrains
    BY <2>2, <2>3, DrainCountsNext, ComponentAssumption DEF Numbers
  <2> QED
    BY <2>2, <2>3, <2>4
<1> QED
  BY <1>1, <1>2, <1>3, ClientTypes, PoolTypes, FutureType, WorkTypes DEF TypeOK

-----------------------------------------------------------------------------
(* The theorems.                                                           *)

\* A new component satisfies the invariant.
LEMMA InitInv == Init => IndInv
<1> SUFFICES ASSUME Init PROVE IndInv
  OBVIOUS
<1>0. /\ mState = "LOADED" /\ mInit = FALSE /\ stateLock = None
      /\ mWorkQueue = <<>> /\ mPendingWorkQueue = <<>> /\ workLock = None /\ pendLock = None
      /\ mPendingFlushCount = 0 /\ mCallbackListener \in BOOLEAN
      /\ tasks = <<>> /\ mCurSession = 0 /\ mNextSession = 0 /\ mExit = FALSE /\ future = None
      /\ worker = "idle" /\ task = None /\ left = 0 /\ hand = None
      /\ filter = {} /\ answering = None
      /\ call = [c \in Clients |-> "idle"] /\ after = [c \in Clients |-> "idle"]
      /\ batch = [c \in Clients |-> 0]
      /\ outcome = [w \in Works |-> "new"] /\ returns = [w \in Works |-> 0] /\ overtaken = {}
  BY DEF Init
<1>e. ToSet(<<>>) = {} /\ DOMAIN <<>> = {}
  BY DEF ToSet
<1>c. \A C : "idle" \notin C => ~InCalls(C)
  BY <1>0 DEF InCalls
<1>n. None \notin Works /\ None \notin Tasks
  BY ComponentAssumption, NullAssumption DEF Works, Queued, Drains
<1>p. \A P : P \subseteq Tasks => Positions(tasks, P) = {} /\ Count(P) = 0
  BY <1>0, <1>e, <1>n, FS_EmptySet DEF Positions, Count
<1>1. TypeOK
  <2>1. mWorkQueue \in Seq(Works) /\ mPendingWorkQueue \in Seq(Works) /\ tasks \in Seq(Tasks)
    BY <1>0, EmptySeq
  <2>2. call \in [Clients -> Calls] /\ after \in [Clients -> Calls] /\ batch \in [Clients -> Nat]
    BY <1>0 DEF Calls
  <2>3. {mCurSession, mNextSession} \subseteq 0..MaxDrains
    BY <1>0, ComponentAssumption
  <2> QED
    BY <1>0, <2>1, <2>2, <2>3 DEF TypeOK, State
<1>2. Locks
  BY <1>0, ComponentAssumption DEF Locks, Unlocked
<1>3. Thread
  BY <1>0 DEF Thread
<1>4. Answers
  BY <1>0, <1>e DEF Answers
<1>5. States
  BY <1>0, <1>c DEF States, FlushCalls, StopCalls
<1>6. Posting
  <2>1. Count(PostedTasks) = 0
    BY <1>p DEF PostedTasks
  <2>2. (ToSet(tasks) \union {task}) \cap PostedTasks = {}
    BY <1>0, <1>e, <1>n DEF PostedTasks
  <2> QED
    BY <1>0, <2>1, <2>2, NullAssumption DEF Posting
<1>7. NoFlushTask
  BY <1>0, <1>e DEF NoFlushTask
<1>8. FlushCount
  <2>1. Count(FlushTask) = 0
    BY <1>p DEF FlushTask
  <2> QED
    BY <1>0, <1>c, <2>1 DEF FlushCount, FlushCalls
<1>9. Places
  <2>1. Injective(<<>>)
    BY <1>e DEF Injective
  <2> QED
    BY <1>0, <1>e, <1>n, <2>1 DEF Places
<1>10. Emptied
  BY <1>0 DEF Emptied
<1>11. Numbers
  <2>1. Accepted = {} /\ Asked = {} /\ Ended = {}
    BY <1>0 DEF Accepted, Asked, Ended, Works
  <2>2. Cardinality(Accepted) = 0 /\ Cardinality(Asked) = 0 /\ Cardinality(Ended) = 0
    BY <2>1, FS_EmptySet
  <2>3. \A w \in Queued : outcome[w] = "new" /\ ~(w <= 0)
    BY <1>0, ComponentAssumption DEF Works, Queued
  <2> QED
    BY <1>0, <1>c, <2>2, <2>3 DEF Numbers
<1>h. Held = {} /\ Waits = {}
  BY <1>0, <1>e DEF Held, Waits
<1>12. Overtakes
  BY <1>0, <1>h DEF Overtakes
<1>13. OnTheWay
  BY <1>h DEF OnTheWay
<1>14. Alone
  BY <1>c, <1>h DEF Alone
<1> QED
  BY <1>1, <1>2, <1>3, <1>4, <1>5, <1>6, <1>7, <1>8, <1>9, <1>10, <1>11, <1>12, <1>13, <1>14 DEF IndInv

\* Every step of a client, of the pool's thread or of the filters keeps it.
LEMMA NextInv ==
  ASSUME IndInv, [Next]_componentVars
  PROVE  IndInv'
<1> USE DEF IndInv
<1>1. Locks' /\ Thread' /\ Answers' /\ States' /\ Posting'
  BY LocksStep, ThreadStep, AnswersStep, StatesStep, PostingStep
<1>2. NoFlushTask' /\ FlushCount' /\ Places' /\ Emptied' /\ Numbers'
  BY NoFlushTaskStep, FlushCountStep, PlacesStep, EmptiedStep, NumbersStep
<1>3. Overtakes' /\ OnTheWay' /\ Alone'
  BY OvertakesStep, OnTheWayStep, AloneStep
<1>4. TypeOK'
  BY <1>2, TypeStep
<1> QED
  BY <1>1, <1>2, <1>3, <1>4

\* The inductive invariant holds in every behaviour of the component, whatever
\* its clients call and however the pool's thread and the filters interleave.
THEOREM Invariance == Spec => []IndInv
<1>1. Init => IndInv
  BY InitInv
<1>2. IndInv /\ [Next]_componentVars => IndInv'
  BY NextInv
<1> QED
  BY <1>1, <1>2, PTL DEF Spec

\* The variables keep their types; in particular mPendingFlushCount, which every
\* discarded and every finished task of a flush decrements and which doStop() and
\* doReset() reset meanwhile, never falls below zero.
THEOREM TypeCorrect == Spec => []TypeOK
BY Invariance, PTL DEF IndInv

\* A work is in the work queue, the pool's hands or the pending queue, once, and
\* one that left came back to the client at most once.
THEOREM HeldOnceCorrect == Spec => []HeldOnce
<1>1. IndInv => HeldOnce
  BY PlacesHold DEF IndInv
<1> QED
  BY <1>1, Invariance, PTL

\* mPendingFlushCount is the number of flushes under way.
THEOREM FlushCountCorrect == Spec => []FlushCountMatches
<1>1. IndInv => FlushCountMatches
  BY FlushCountHolds DEF IndInv
<1> QED
  BY <1>1, Invariance, PTL

\* A work in the pending queue of an idle component is with the filters, its
\* answer is on its way, or a flush or a reset overtook it.
THEOREM NoWorkForgottenCorrect == Spec => []NoWorkForgotten
<1>1. IndInv => NoWorkForgotten
  BY OnTheWayHolds DEF IndInv
<1> QED
  BY <1>1, Invariance, PTL

\* start() of a released component fails, also after a reset().
THEOREM ReleasedNeverRunsCorrect == Spec => []ReleasedNeverRuns
<1>1. IndInv => ReleasedNeverRuns
  BY DEF IndInv, States, ReleasedNeverRuns
<1> QED
  BY <1>1, Invariance, PTL

\* With one client, a component that is not running and whose client is in no
\* call holds no work.
THEOREM StoppedHoldsNothingCorrect ==
  ASSUME \A c, d \in Clients : c = d
  PROVE  Spec => []StoppedHoldsNothing
<1>1. IndInv => StoppedHoldsNothing
  BY AloneHolds DEF IndInv
<1> QED
  BY <1>1, Invariance, PTL

-----------------------------------------------------------------------------
(* The component implements the contract of its client.                    *)

\* The phase of the contract during a call that has the state lock.
PhaseOf(pc) ==
  IF pc \in FlushCalls THEN "flushing" ELSE IF pc \in StopCalls THEN "stopping" ELSE "open"

\* The phase of the contract is that of the one call under the state lock.
LEMMA PhaseStep ==
  ASSUME TypeOK, Locks, NEW c \in Clients, stateLock = None \/ call[c] \notin Unlocked,
         NEW pc, Goto(c, pc)
  PROVE  phase = PhaseOf(call[c]) /\ phase' = PhaseOf(pc)
<1>1. \A d \in Clients : d # c => call[d] \in Unlocked /\ call'[d] = call[d]
  BY LockHolder, ComponentAssumption DEF TypeOK, Goto
<1>2. call'[c] = pc
  BY DEF TypeOK, Goto
<1>3. \A x \in Unlocked : x \notin FlushCalls /\ x \notin StopCalls
  BY DEF Unlocked, FlushCalls, StopCalls
<1>4. \A d \in Clients : Flushing(d) <=> call[d] \in FlushCalls
  BY DEF Flushing, FlushCalls
<1>5. \A d \in Clients : Flushing(d)' <=> call'[d] \in FlushCalls
  BY DEF Flushing, FlushCalls
<1>6. phase = PhaseOf(call[c])
  BY <1>1, <1>3, <1>4 DEF phase, PhaseOf, StopCalls
<1>7. phase' = PhaseOf(pc)
  BY <1>1, <1>2, <1>3, <1>5 DEF phase, PhaseOf, StopCalls
<1> QED
  BY <1>6, <1>7

\* A call begins with the contract open.
LEMMA PhaseOpen ==
  ASSUME Locks, stateLock = None
  PROVE  phase = "open"
<1>1. \A c \in Clients : call[c] \in Unlocked
  BY LockHolder, ComponentAssumption
<1> QED
  BY <1>1 DEF phase, Flushing, Unlocked

\* The steps of a call that neither accept a work nor settle one.
LEMMA ContractIdle ==
  ASSUME TypeOK, Locks, NEW c \in Clients, NewCall(c) \/ CallStep(c),
         \A n \in 1..MaxBatch : ~Queue(c, n), ~DrainBegin(c), ~FlushBegin(c),
         ~FlushWorkQueue(c), ~FlushPendingWorkQueue(c), ~FlushToss(c), ~StopClear(c)
  PROVE  /\ UNCHANGED outcome
         /\ UNCHANGED phase \/ Contract!BeginStop
<1>1. UNCHANGED outcome
  <2>1. CASE NewCall(c)
    BY <2>1 DEF NewCall, StartBegin, StopBegin, ResetBegin, ReleaseBegin, SetListener, workVars
  <2>2. CASE CallStep(c)
    BY <2>2 DEF CallStep, QueueToss, DrainToss, FlushPool, StartEnd, StopBegin, StopPool, StopPost,
       StopWait, ResetLock, ResetPool, ResetPost, ResetEnd, ReleaseLock, ReleasePool, ReleasePost,
       ReleaseStopPool, ReleaseEnd, workVars
  <2> QED
    BY <2>1, <2>2
<1>2. \/ UNCHANGED call
      \/ \E pc \in Calls : /\ Goto(c, pc)
                           /\ stateLock = None \/ call[c] \notin Unlocked
                           /\ \/ PhaseOf(pc) = PhaseOf(call[c])
                              \/ PhaseOf(pc) = "stopping" /\ stateLock = None
  <2>1. CASE StopBegin(c)
    <3>1. stateLock = None /\ call[c] \in {"idle", "reset.stop", "release.stop"}
      BY <2>1 DEF StopBegin
    <3>2. \E pc \in {"stop.pool", "stop.clear", "reset.lock", "release.lock"} : Goto(c, pc)
      BY <2>1 DEF StopBegin, At
    <3> QED
      BY <3>1, <3>2 DEF Calls, PhaseOf, FlushCalls, StopCalls
  <2>2. CASE NewCall(c) /\ ~StopBegin(c)
    BY <2>2 DEF NewCall, StartBegin, ResetBegin, ReleaseBegin, SetListener, Enter, At, Calls, PhaseOf,
       FlushCalls, StopCalls, callVars, Goto
  <2>3. CASE CallStep(c) /\ ~StopBegin(c)
    <3>1. CASE ResetLock(c) \/ ReleaseLock(c)
      BY <3>1 DEF ResetLock, ReleaseLock, At, Calls, PhaseOf, FlushCalls, StopCalls
    <3>2. CASE ~ResetLock(c) /\ ~ReleaseLock(c)
      BY <2>3, <3>2 DEF CallStep, QueueToss, DrainToss, FlushPool, StartEnd, StopPool, StopPost,
         StopWait, ResetPool, ResetPost, ResetEnd, ReleasePool, ReleasePost,
         ReleaseStopPool, ReleaseEnd, Leave, At, Calls, PhaseOf, FlushCalls, StopCalls, Unlocked
    <3> QED
      BY <3>1, <3>2
  <2> QED
    BY <2>1, <2>2, <2>3
<1>3. CASE UNCHANGED call
  BY <1>1, <1>3 DEF phase, Flushing
<1>4. ASSUME NEW pc \in Calls, Goto(c, pc), stateLock = None \/ call[c] \notin Unlocked,
             \/ PhaseOf(pc) = PhaseOf(call[c])
             \/ PhaseOf(pc) = "stopping" /\ stateLock = None
      PROVE  UNCHANGED phase \/ Contract!BeginStop
  BY <1>1, <1>4, PhaseStep, PhaseOpen DEF Contract!BeginStop
<1> QED
  BY <1>1, <1>2, <1>3, <1>4

\* Every other step of a call is one of the contract.
LEMMA ContractCall ==
  ASSUME IndInv, NEW c \in Clients, [Next]_componentVars,
         \/ \E n \in 1..MaxBatch : Queue(c, n)
         \/ DrainBegin(c) \/ FlushBegin(c) \/ FlushWorkQueue(c) \/ FlushPendingWorkQueue(c)
         \/ FlushToss(c) \/ StopClear(c)
  PROVE  Contract!Next
<1> USE DEF IndInv
<1>0. outcome = [w \in Works |-> outcome[w]]
  BY DEF TypeOK
<1>1. ASSUME NEW n \in 1..MaxBatch, Queue(c, n) PROVE Contract!Next
  <2> DEFINE next == Cardinality(Accepted) + 1
             items == [i \in 1..n |-> next + i - 1]
  <2>1. /\ next + n - 1 <= MaxWorks
        /\ outcome' = [w \in Works |-> IF w \in ToSet(items) THEN "held" ELSE outcome[w]]
        /\ stateLock = None /\ Goto(c, "queue.toss") /\ call[c] = "idle"
    BY <1>1 DEF Queue, Accepted, Enter, At
  <2>2. ToSet(items) \subseteq Works /\ \A w \in ToSet(items) : outcome[w] = "new"
    <3>1. /\ items \in [1..n -> Int] /\ \A i \in 1..n : items[i] = Cardinality(Accepted) + i
          /\ Cardinality(Accepted) + n <= MaxWorks
      BY <2>1, FirstWorks, ComponentAssumption
    <3> HIDE DEF items
    <3> QED
      BY <3>1, NewItems DEF Works
  <2> HIDE DEF items
  <2>3. phase = "open" /\ phase' = "open"
    BY <2>1, PhaseStep DEF PhaseOf, FlushCalls, StopCalls
  <2>4. Contract!Accept(ToSet(items))
    BY <2>1, <2>2, <2>3 DEF Contract!Accept
  <2> QED
    BY <2>2, <2>4 DEF Contract!Next
<1>2. CASE DrainBegin(c)
  <2>1. PICK d \in Drains : /\ \A e \in Drains : outcome[e] = "new" <=> e >= d
                            /\ outcome' = [outcome EXCEPT ![d] = "held"]
    BY <1>2 DEF DrainBegin
  <2>2. d \in Works /\ outcome[d] = "new"
    <3>1. d >= d
      BY ComponentAssumption DEF Drains
    <3> QED
      BY <2>1, <3>1 DEF Works
  <2>3. outcome' = [w \in Works |-> IF w \in {d} THEN "held" ELSE outcome[w]]
    BY <1>0, <2>1, <2>2
  <2>4. phase = "open" /\ phase' = "open"
    <3>1. stateLock = None /\ Goto(c, "drain.toss") /\ call[c] = "idle"
      BY <1>2 DEF DrainBegin, Enter, At
    <3> QED
      BY <3>1, PhaseStep DEF PhaseOf, FlushCalls, StopCalls
  <2>5. Contract!Accept({d})
    BY <2>2, <2>3, <2>4 DEF Contract!Accept
  <2> QED
    BY <2>2, <2>5 DEF Contract!Next
<1>3. CASE FlushBegin(c)
  <2>1. stateLock = None /\ Goto(c, "flush.work") /\ call[c] = "idle" /\ UNCHANGED outcome
    BY <1>3 DEF FlushBegin, Enter, At, workVars
  <2>2. phase = "open" /\ phase' = "flushing"
    BY <2>1, PhaseStep DEF PhaseOf, FlushCalls, StopCalls
  <2> QED
    BY <2>1, <2>2 DEF Contract!Next, Contract!BeginFlush
<1>4. CASE FlushWorkQueue(c) \/ FlushPendingWorkQueue(c)
  <2>1. PICK S \in {ToSet(mWorkQueue), ToSet(mPendingWorkQueue)}, pc \in FlushCalls :
           Settle(S, "flushed") /\ Goto(c, pc) /\ call[c] \in FlushCalls
    BY <1>4 DEF FlushWorkQueue, FlushPendingWorkQueue, At, FlushCalls
  <2>2. S \subseteq Works /\ \A w \in S : outcome[w] = "held"
    BY <2>1 DEF TypeOK, Places, ToSet
  <2>3. phase = "flushing" /\ phase' = "flushing"
    BY <2>1, PhaseStep DEF PhaseOf, FlushCalls, Unlocked
  <2>4. Contract!Settle(S, "flushed")
    BY <2>1, <2>2, <2>3 DEF Settle, Contract!Settle
  <2> QED
    BY <2>2, <2>3, <2>4 DEF Contract!Next, Contract!Settled
<1>5. CASE FlushToss(c)
  <2>1. call[c] = "flush.toss" /\ Goto(c, "idle") /\ UNCHANGED outcome
    BY <1>5 DEF FlushToss, At, Leave, workVars
  <2>2. phase = "flushing" /\ phase' = "open"
    BY <2>1, PhaseStep DEF PhaseOf, FlushCalls, StopCalls, Unlocked
  <2>3. Held = {}
    BY <2>1, FlushClears DEF InCalls
  <2>4. Contract!Settle({}, "done") /\ Contract!End
    BY <1>0, <2>1, <2>2, <2>3 DEF Contract!Settle, Contract!End, Held
  <2> QED
    BY <2>4 DEF Contract!Next, Contract!Settled
<1>6. CASE StopClear(c)
  <2> DEFINE S == ToSet(mWorkQueue) \union ToSet(mPendingWorkQueue)
  <2>1. call[c] = "stop.clear" /\ Goto(c, after[c]) /\ Settle(S, "dropped")
    BY <1>6 DEF StopClear, At
  <2>2. S \subseteq Works /\ \A w \in S : outcome[w] = "held"
    BY DEF TypeOK, Places, ToSet
  <2>3. phase = "stopping" /\ phase' = "open"
    BY <2>1, PhaseStep DEF PhaseOf, FlushCalls, StopCalls, Unlocked, Locks
  <2>4. \A w \in Works : outcome'[w] # "held"
    BY <1>6, StopClears DEF Held
  <2>5. Contract!Settle(S, "dropped") /\ Contract!End
    BY <2>1, <2>2, <2>3, <2>4 DEF Settle, Contract!Settle, Contract!End
  <2> QED
    BY <2>2, <2>5 DEF Contract!Next, Contract!Settled
<1> QED
  BY <1>1, <1>2, <1>3, <1>4, <1>5, <1>6

\* What the pool's thread returns or destroys it held.
LEMMA ContractPool ==
  ASSUME IndInv, WorkerStep \/ (\E w \in Works : FilterWorkDone(w)) \/ FilterToss
  PROVE  [Contract!Next]_(Contract!contractVars)
<1> USE DEF IndInv
<1>1. UNCHANGED phase
  BY PoolFrame DEF callVars, phase, Flushing
<1>2. \/ UNCHANGED outcome
      \/ \E w \in Works, how \in {"done", "dropped"} : outcome[w] = "held" /\ Settle({w}, how)
  <2>1. CASE DoQueueReject
    <3>1. Head(mWorkQueue) \in Works /\ Head(mWorkQueue) \in ToSet(mWorkQueue)
      BY <2>1, TailProperties DEF DoQueueReject, TypeOK
    <3>2. \E how \in {"done", "dropped"} : Settle({Head(mWorkQueue)}, how)
      BY <2>1 DEF DoQueueReject, Send
    <3> QED
      BY <3>1, <3>2 DEF Places
  <2>2. CASE DoFilterWorkDone
    <3>1. CASE task.arg \in ToSet(mPendingWorkQueue)
      <4>1. task.arg \in Works
        BY <3>1 DEF TypeOK, ToSet
      <4>2. \E how \in {"done", "dropped"} : Settle({task.arg}, how)
        BY <2>2, <3>1 DEF DoFilterWorkDone, AnswerWork, Send
      <4> QED
        BY <3>1, <4>1, <4>2 DEF Places
    <3>2. CASE task.arg \notin ToSet(mPendingWorkQueue)
      BY <2>2, <3>2 DEF DoFilterWorkDone, workVars
    <3> QED
      BY <3>1, <3>2
  <2>3. CASE ~DoQueueReject /\ ~DoFilterWorkDone
    BY <2>3 DEF WorkerStep, WorkerTake, WorkerExit, Trigger, TriggerLoop, DoQueueNothing, DoQueueSend,
       DoQueueRegister, Answer, DoFlush, DoFlushNotify, DoStart, DoStop, DoRelease, DoNotifyError,
       FilterWorkDone, FilterToss, workVars
  <2> QED
    BY <2>1, <2>2, <2>3
<1>3. ASSUME NEW w \in Works, NEW how \in {"done", "dropped"}, outcome[w] = "held", Settle({w}, how)
      PROVE  Contract!Next
  <2>1. Contract!Settle({w}, how)
    BY <1>3 DEF Settle, Contract!Settle
  <2> QED
    BY <1>1, <2>1 DEF Contract!Next, Contract!Settled
<1> QED
  BY <1>1, <1>2, <1>3 DEF Contract!contractVars

\* Every behaviour of the component is one of the contract: a work settles once,
\* only flush_sm() returns works as flushed, and neither it nor stop() ends while
\* a work is left, wherever the pool's thread was when they began.
THEOREM Refinement == Spec => ImplementsContract
<1>1. Init => Contract!Init
  BY DEF Init, Contract!Init, phase, Flushing
<1>2. IndInv /\ [Next]_componentVars => [Contract!Next]_(Contract!contractVars)
  <2> SUFFICES ASSUME IndInv, [Next]_componentVars PROVE [Contract!Next]_(Contract!contractVars)
    OBVIOUS
  <2>1. CASE UNCHANGED componentVars
    BY <2>1 DEF componentVars, callVars, workVars, phase, Flushing, Contract!contractVars
  <2>2. ASSUME NEW c \in Clients, NewCall(c) \/ CallStep(c) PROVE [Contract!Next]_(Contract!contractVars)
    <3>1. CASE \/ \E n \in 1..MaxBatch : Queue(c, n)
               \/ DrainBegin(c) \/ FlushBegin(c) \/ FlushWorkQueue(c) \/ FlushPendingWorkQueue(c)
               \/ FlushToss(c) \/ StopClear(c)
      BY <3>1, ContractCall
    <3>2. CASE ~(\/ \E n \in 1..MaxBatch : Queue(c, n)
                 \/ DrainBegin(c) \/ FlushBegin(c) \/ FlushWorkQueue(c) \/ FlushPendingWorkQueue(c)
                 \/ FlushToss(c) \/ StopClear(c))
      BY <2>2, <3>2, ContractIdle DEF IndInv, Contract!Next, Contract!contractVars
    <3> QED
      BY <3>1, <3>2
  <2>3. CASE WorkerStep \/ (\E w \in Works : FilterWorkDone(w)) \/ FilterToss
    BY <2>3, ContractPool
  <2> QED
    BY <2>1, <2>2, <2>3 DEF Next
<1> QED
  BY <1>1, <1>2, Invariance, PTL DEF Spec, ImplementsContract, Contract!Spec

=============================================================================
