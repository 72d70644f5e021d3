----------------------------- MODULE ThreadPool -----------------------------
(***************************************************************************)
(* ExynosThreadPool (osal/ExynosThreadPool.h): a list of task packages     *)
(* under mTaskMutex, one worker thread (every pool of the repository is    *)
(* built with num = 1), and callers that post, flush and stop.             *)
(*                                                                         *)
(* One action is one critical section of mTaskMutex (flush and push also   *)
(* hold mCancelMutex throughout), one access of SessionNumber under its    *)
(* own mutex, or one unlocked step of a thread.  The worker's search of    *)
(* the list is one critical section of many steps: it reads the current    *)
(* session again for every package, and the session has another mutex.     *)
(***************************************************************************)
EXTENDS Naturals, Sequences, FiniteSets, SequencesExt

CONSTANTS
  Tasks,            \* task packages, each submitted at most once
  Callers,          \* threads that use the pool from outside
  SessionMode,      \* the constructor's useSession
  MaxSession,       \* bound on both session numbers
  None              \* stands for the null pointer

ASSUME PoolAssumption ==
  /\ SessionMode \in BOOLEAN
  /\ MaxSession \in Nat
  /\ None \notin Tasks

VARIABLES
  mTasks,           \* std::list of packages waiting for the worker
  mExit,            \* set once by stop()
  mCurSession, mNextSession,   \* SessionNumber
  mSession,         \* [Tasks -> Nat]: TASK_PACKAGE::mSession
  status,           \* [Tasks -> Status]: how far a package has come
  holders,          \* [Tasks -> SUBSET Holder]: who owns a reference to it
  notified,         \* [Tasks -> Nat]: calls of its notify function
  worker, running,  \* where the worker's loop stands, and its local `task`
  caller, package,  \* where each caller stands, and its local `deliverTask`
  at, moved,        \* the iterator of the worker's search; history: the
                    \* current session has changed since the search began
  disturbed,        \* history: packages found by a search with `moved`
  accepted          \* history: the packages in the order mTasks took them

poolVars == <<mTasks, mExit, mCurSession, mNextSession, mSession, status,
              holders, notified, worker, running, caller, package, at, moved,
              disturbed, accepted>>

sessionVars == <<mCurSession, mNextSession>>
listVars    == <<mTasks, status, holders, notified>>
searchVars  == <<at, moved, disturbed>>

Status  == {"new", "made", "queued", "running", "done", "discarded", "refused"}
Holder  == {"caller", "list", "worker"}
Worker  == {"loop", "fetch", "search", "run", "selfstop", "unwind", "exited"}
Caller  == {"idle", "push", "return", "join", "flush"}


Init ==
  /\ mTasks = <<>>
  /\ mExit = FALSE
  /\ mCurSession = 0
  /\ mNextSession = 0
  /\ mSession = [t \in Tasks |-> 0]
  /\ status = [t \in Tasks |-> "new"]
  /\ holders = [t \in Tasks |-> {}]
  /\ notified = [t \in Tasks |-> 0]
  /\ worker = "loop"
  /\ running = None
  /\ caller = [c \in Callers |-> "idle"]
  /\ package = [c \in Callers |-> None]
  /\ at = 0
  /\ moved = FALSE
  /\ disturbed = {}
  /\ accepted = <<>>

-----------------------------------------------------------------------------
(* References to packages: the deleter of the last one calls notify.       *)

\* Mutation: the deleter's notify is called for every reference dropped.
Release_NotifyAlways(S, h) ==
  /\ holders' = [t \in Tasks |-> IF t \in S THEN holders[t] \ {h} ELSE holders[t]]
  /\ notified' = [t \in Tasks |-> IF t \in S THEN notified[t] + 1 ELSE notified[t]]

\* Every package of S loses the reference h.
Release(S, h) ==
  /\ holders' = [t \in Tasks |-> IF t \in S THEN holders[t] \ {h} ELSE holders[t]]
  /\ notified' = [t \in Tasks |-> IF t \in S /\ holders[t] = {h}
                                  THEN notified[t] + 1 ELSE notified[t]]

\* Mutation: packages are cancelled but stay in the list.
DiscardAll_KeepList ==
  /\ status' = [t \in Tasks |-> IF t \in ToSet(mTasks) THEN "discarded"
                                                          ELSE status[t]]
  /\ UNCHANGED <<mTasks, holders, notified>>

\* mTaskMutex is free: the worker lets go of it when its search ends.
Unlocked == worker # "search"

\* flush(): both mutexes are held while every waiting package is popped,
\* called with bCancel = true and destroyed.
DiscardAll ==
  /\ mTasks' = <<>>
  /\ status' = [t \in Tasks |-> IF t \in ToSet(mTasks) THEN "discarded"
                                                          ELSE status[t]]
  /\ Release(ToSet(mTasks), "list")

-----------------------------------------------------------------------------
(* Callers.  SessionNumber has a mutex of its own, so its readers and      *)
(* writers do not wait for the worker's search.                            *)

\* post/toss read the next session and postToCurSession/tossToCurSession the
\* current one, before any lock of the list is taken; the package is built.
Make(c, t, session) ==
  /\ caller[c] = "idle"
  /\ status[t] = "new"
  /\ caller' = [caller EXCEPT ![c] = "push"]
  /\ package' = [package EXCEPT ![c] = t]
  /\ mSession' = [mSession EXCEPT ![t] = IF SessionMode THEN session ELSE 0]
  /\ status' = [status EXCEPT ![t] = "made"]
  /\ holders' = [holders EXCEPT ![t] = {"caller"}]
  /\ UNCHANGED <<mTasks, mExit, sessionVars, notified, worker, running,
                 searchVars, accepted>>

Post(c, t)             == Make(c, t, mNextSession)
PostToCurSession(c, t) == Make(c, t, mCurSession)

\* Mutation: mExit is not looked at.
PushAccept_IgnoreExit(c) ==
  /\ caller[c] = "push"
  /\ Unlocked
  /\ mTasks' = Append(mTasks, package[c])
  /\ accepted' = Append(accepted, package[c])
  /\ status' = [status EXCEPT ![package[c]] = "queued"]
  /\ holders' = [holders EXCEPT ![package[c]] = @ \union {"list"}]
  /\ caller' = [caller EXCEPT ![c] = "return"]
  /\ UNCHANGED <<mExit, sessionVars, mSession, notified, worker, running,
                 package, searchVars>>

\* Mutation: push_front().
PushAccept_Front(c) ==
  /\ caller[c] = "push"
  /\ Unlocked
  /\ ~mExit
  /\ mTasks' = <<package[c]>> \o mTasks
  /\ accepted' = Append(accepted, package[c])
  /\ status' = [status EXCEPT ![package[c]] = "queued"]
  /\ holders' = [holders EXCEPT ![package[c]] = @ \union {"list"}]
  /\ caller' = [caller EXCEPT ![c] = "return"]
  /\ UNCHANGED <<mExit, sessionVars, mSession, notified, worker, running, package,
                 searchVars>>

\* pushTaskPackge() while the pool is open.
PushAccept(c) ==
  /\ caller[c] = "push"
  /\ Unlocked
  /\ ~mExit
  /\ mTasks' = Append(mTasks, package[c])
  /\ accepted' = Append(accepted, package[c])
  /\ status' = [status EXCEPT ![package[c]] = "queued"]
  /\ holders' = [holders EXCEPT ![package[c]] = @ \union {"list"}]
  /\ caller' = [caller EXCEPT ![c] = "return"]
  /\ UNCHANGED <<mExit, sessionVars, mSession, notified, worker, running,
                 package, searchVars>>

\* pushTaskPackge() after stop() has set mExit: it returns false, and post()
\* hands out a future without a shared state.
PushRefuse(c) ==
  /\ caller[c] = "push"
  /\ Unlocked
  /\ mExit
  /\ status' = [status EXCEPT ![package[c]] = "refused"]
  /\ caller' = [caller EXCEPT ![c] = "return"]
  /\ UNCHANGED <<mTasks, mExit, sessionVars, mSession, holders, notified,
                 worker, running, package, searchVars, accepted>>

\* The caller's own reference dies when postToSession/tossToSession returns;
\* the worker may have finished the package by then.
Return(c) ==
  /\ caller[c] = "return"
  /\ Release({package[c]}, "caller")
  /\ caller' = [caller EXCEPT ![c] = "idle"]
  /\ package' = [package EXCEPT ![c] = None]
  /\ UNCHANGED <<mTasks, mExit, sessionVars, mSession, status, worker, running,
                 searchVars, accepted>>

Flush(c) ==
  /\ caller[c] = "idle"
  /\ Unlocked
  /\ DiscardAll
  /\ UNCHANGED <<mExit, sessionVars, mSession, worker, running, caller,
                 package, searchVars, accepted>>

\* The owner of a pool calls stop() from one thread at a time (release() under
\* the component's state lock, or the destructor), so mThreads has one user.
NobodyStops ==
  /\ worker # "selfstop"
  /\ \A d \in Callers : caller[d] \notin {"join", "flush"}

\* stop(), first part: mExit under the lock, then notify_all.
StopBegin(c) ==
  /\ caller[c] = "idle"
  /\ Unlocked
  /\ NobodyStops
  /\ mExit' = TRUE
  /\ caller' = [caller EXCEPT ![c] = "join"]
  /\ UNCHANGED <<listVars, sessionVars, mSession, worker, running, package,
                 searchVars, accepted>>

\* stop(), second part: the worker is joined.
StopJoin(c) ==
  /\ caller[c] = "join"
  /\ worker = "exited"
  /\ caller' = [caller EXCEPT ![c] = "flush"]
  /\ UNCHANGED <<listVars, mExit, sessionVars, mSession, worker, running,
                 package, searchVars, accepted>>

\* stop(), last part: whatever the worker left behind is discarded.
StopFlush(c) ==
  /\ caller[c] = "flush"
  /\ Unlocked
  /\ DiscardAll
  /\ caller' = [caller EXCEPT ![c] = "idle"]
  /\ UNCHANGED <<mExit, sessionVars, mSession, worker, running, package,
                 searchVars, accepted>>

\* incNextSession, incCurSession and clearSession, each atomic under the
\* mutex of SessionNumber and without effect outside session mode.
IncNextSession ==
  /\ SessionMode /\ mNextSession < MaxSession
  /\ mNextSession' = mNextSession + 1
  /\ UNCHANGED <<listVars, mExit, mCurSession, mSession, worker, running,
                 caller, package, searchVars, accepted>>

\* The worker may be in the middle of its search.
SessionMoves == moved' = (moved \/ (worker = "search" /\ mCurSession' # mCurSession))

IncCurSession ==
  /\ SessionMode /\ mCurSession < MaxSession
  /\ mCurSession' = mCurSession + 1
  /\ SessionMoves
  /\ UNCHANGED <<listVars, mExit, mNextSession, mSession, worker, running, caller,
                 package, at, disturbed, accepted>>

ClearSession ==
  /\ SessionMode
  /\ mCurSession' = 0
  /\ mNextSession' = 0
  /\ SessionMoves
  /\ UNCHANGED <<listVars, mExit, mSession, worker, running, caller, package, at,
                 disturbed, accepted>>

-----------------------------------------------------------------------------
(* The worker thread.                                                      *)

\* Mutation: the loop has no condition.
WorkerLoop_Forever ==
  /\ worker = "loop"
  /\ worker' = "fetch"
  /\ UNCHANGED <<listVars, mExit, sessionVars, mSession, running, caller,
                 package, searchVars, accepted>>

\* while (!mExit), read without the lock.
WorkerLoop ==
  /\ worker = "loop"
  /\ worker' = IF mExit THEN "exited" ELSE "fetch"
  /\ UNCHANGED <<listVars, mExit, sessionVars, mSession, running, caller,
                 package, searchVars, accepted>>

\* The condition variable's predicate: exit was asked for or a package waits.
Awake == mExit \/ mTasks # <<>>

WorkerLeave ==
  /\ worker = "fetch" /\ Awake
  /\ mTasks = <<>>
  /\ worker' = "exited"
  /\ UNCHANGED <<listVars, mExit, sessionVars, mSession, running, caller,
                 package, searchVars, accepted>>

\* With sessions the list is searched from its front, the lock being held.
WorkerSearch ==
  /\ worker = "fetch" /\ Awake
  /\ SessionMode /\ mTasks # <<>>
  /\ worker' = "search"
  /\ at' = 1
  /\ UNCHANGED <<listVars, mExit, sessionVars, mSession, running, caller, package,
                 moved, disturbed, accepted>>

\* Mutation: the session to serve is read with getNext().
Eligible_Next(i) == mSession[mTasks[i]] = mNextSession

\* The package belongs to the session that getCur() returns for it.
Eligible(i) == mSession[mTasks[i]] = mCurSession

\* The session of one package is compared, and it is another one.
WorkerSkip ==
  /\ worker = "search"
  /\ at \in DOMAIN mTasks /\ ~Eligible(at)
  /\ at' = at + 1
  /\ UNCHANGED <<listVars, mExit, sessionVars, mSession, worker, running, caller,
                 package, moved, disturbed, accepted>>

\* The package to run: the front one without sessions, the one the search has
\* come to when its session is the current one.
Found(i) ==
  \/ worker = "fetch" /\ ~SessionMode /\ i = 1
  \/ worker = "search" /\ i = at /\ Eligible(i)

\* It is moved to the worker and erased from the list; the lock is released.
WorkerTake ==
  /\ \E i \in DOMAIN mTasks :
       /\ Found(i)
       /\ running' = mTasks[i]
       /\ mTasks' = RemoveAt(mTasks, i)
       /\ status' = [status EXCEPT ![mTasks[i]] = "running"]
       /\ holders' = [holders EXCEPT ![mTasks[i]] = (@ \ {"list"}) \union {"worker"}]
       /\ disturbed' = IF moved THEN disturbed \union {mTasks[i]} ELSE disturbed
  /\ worker' = "run"
  /\ at' = 0 /\ moved' = FALSE
  /\ UNCHANGED <<mExit, sessionVars, mSession, notified, caller, package, accepted>>

\* The search found nothing: unlock, yield and look again.
WorkerSpin ==
  /\ worker = "search"
  /\ at \notin DOMAIN mTasks
  /\ worker' = "loop"
  /\ at' = 0 /\ moved' = FALSE
  /\ UNCHANGED <<listVars, mExit, sessionVars, mSession, running, caller, package,
                 disturbed, accepted>>

\* fn(false) returns: the result is in the future.
WorkerRun ==
  /\ worker = "run"
  /\ status' = [status EXCEPT ![running] = "done"]
  /\ worker' = "unwind"
  /\ UNCHANGED <<mTasks, mExit, sessionVars, mSession, holders, notified,
                 running, caller, package, searchVars, accepted>>

\* A task that drops the last reference to the pool's owner runs stop() on the
\* worker itself: it is not joined, the rest of stop() is executed here.
WorkerSelfStop ==
  /\ worker = "run"
  /\ NobodyStops
  /\ ~mExit
  /\ mExit' = TRUE
  /\ worker' = "selfstop"
  /\ UNCHANGED <<listVars, sessionVars, mSession, running, caller, package,
                 searchVars, accepted>>

WorkerSelfFlush ==
  /\ worker = "selfstop"
  /\ DiscardAll
  /\ worker' = "run"
  /\ UNCHANGED <<mExit, sessionVars, mSession, running, caller, package,
                 searchVars, accepted>>

\* The local `task` goes out of scope at the end of the loop's body.
WorkerUnwind ==
  /\ worker = "unwind"
  /\ Release({running}, "worker")
  /\ running' = None
  /\ worker' = "loop"
  /\ UNCHANGED <<mTasks, mExit, sessionVars, mSession, status, caller, package,
                 searchVars, accepted>>

-----------------------------------------------------------------------------
CallerStep(c) ==
  \/ \E t \in Tasks : Post(c, t) \/ PostToCurSession(c, t)
  \/ PushAccept(c) \/ PushRefuse(c) \/ Return(c)
  \/ Flush(c)
  \/ StopBegin(c) \/ StopJoin(c) \/ StopFlush(c)

WorkerStep ==
  \/ WorkerLoop \/ WorkerLeave
  \/ WorkerSearch \/ WorkerSkip \/ WorkerTake \/ WorkerSpin
  \/ WorkerRun \/ WorkerSelfStop \/ WorkerSelfFlush \/ WorkerUnwind

Next ==
  \/ \E c \in Callers : CallerStep(c)
  \/ IncNextSession \/ IncCurSession \/ ClearSession
  \/ WorkerStep

Spec == Init /\ [][Next]_poolVars

\* The worker thread and a caller inside a call keep running; nobody is
\* obliged to start a call, and a task may or may not stop its own pool.
\* mTaskMutex itself is not fair: a worker that searches again and again may
\* keep a caller out of it, and no property below needs that it does not.
Fairness ==
  /\ WF_poolVars(WorkerLoop \/ WorkerLeave \/ WorkerSearch \/ WorkerSkip
                 \/ WorkerTake \/ WorkerSpin \/ WorkerRun \/ WorkerSelfFlush
                 \/ WorkerUnwind)
  /\ \A c \in Callers : WF_poolVars(PushAccept(c) \/ PushRefuse(c) \/ Return(c)
                                    \/ StopJoin(c) \/ StopFlush(c))

FairSpec == Spec /\ Fairness

-----------------------------------------------------------------------------
(* Properties.                                                             *)

TypeOK ==
  /\ mTasks \in Seq(Tasks)
  /\ mExit \in BOOLEAN
  /\ mCurSession \in 0..MaxSession
  /\ mNextSession \in 0..MaxSession
  /\ mSession \in [Tasks -> 0..MaxSession]
  /\ status \in [Tasks -> Status]
  /\ holders \in [Tasks -> SUBSET Holder]
  /\ notified \in [Tasks -> {0, 1}]
  /\ worker \in Worker
  /\ running \in Tasks \union {None}
  /\ caller \in [Callers -> Caller]
  /\ package \in [Callers -> Tasks \union {None}]
  /\ at \in Nat
  /\ moved \in BOOLEAN
  /\ disturbed \subseteq Tasks
  /\ accepted \in Seq(Tasks)

\* Exactly the packages marked as queued are in the list, each once and with
\* the list's reference: flush() and the worker never handle one twice.
QueueConsistent ==
  /\ \A i, j \in DOMAIN mTasks : mTasks[i] = mTasks[j] => i = j
  /\ \A t \in Tasks : t \in ToSet(mTasks) <=> status[t] = "queued"
  /\ \A t \in Tasks : "list" \in holders[t] <=> status[t] = "queued"

\* notify runs exactly when the last reference to a package dies: once, and
\* never while the package waits or runs, whoever lets go of it last (the
\* pending-flush counter of the component is decremented this way).
NotifiedOnce ==
  \A t \in Tasks :
    notified[t] = IF status[t] # "new" /\ holders[t] = {} THEN 1 ELSE 0

\* Packages of one session are started in the order they were pushed, except
\* where the current session changes while the worker searches the list: getCur()
\* is read for each package, so an elder can be passed over before its session
\* becomes the current one and a younger one be found after it.  Nothing else,
\* no push, flush, stop or change of session outside a search, lets a package
\* overtake an elder of its session that still waits.
FifoWithinSession ==
  \A i, j \in DOMAIN accepted :
    /\ i < j
    /\ mSession[accepted[i]] = mSession[accepted[j]]
    /\ status[accepted[j]] \in {"running", "done"}
    /\ accepted[j] \notin disturbed
    => status[accepted[i]] # "queued"

\* The pools of the filters and of the codecs have no sessions: in those a
\* package is never overtaken, whoever pushes, flushes and stops.
StrictFifo ==
  \A i, j \in DOMAIN accepted :
    /\ i < j
    /\ mSession[accepted[i]] = mSession[accepted[j]]
    /\ status[accepted[j]] \in {"running", "done"}
    => status[accepted[i]] # "queued"

\* When stop() has returned, the worker is gone and nothing waits in the list:
\* no future of an accepted task is left without a result.
StoppedPoolIsEmpty ==
  (worker = "exited" /\ NobodyStops) => mTasks = <<>>

outcomeOf == [t \in Tasks |->
                CASE status[t] \in {"new", "made"}       -> "new"
                  [] status[t] \in {"queued", "running"} -> "accepted"
                  [] status[t] = "done"                  -> "run"
                  [] OTHER                               -> status[t]]

Contract == INSTANCE TaskContract WITH closed <- mExit, outcome <- outcomeOf

\* The pool implements the contract its users rely on.
ImplementsContract == Contract!Spec

\* A package of the current session is served (or discarded) unless the session
\* is changed under it.
CurrentSessionServed ==
  \A t \in Tasks :
    (status[t] = "queued" /\ mSession[t] = mCurSession)
      ~> (status[t] # "queued" \/ mSession[t] # mCurSession)

\* stop() returns: the worker never keeps its caller waiting in join().
StopReturns == \A c \in Callers : caller[c] = "join" ~> caller[c] = "idle"

=============================================================================
