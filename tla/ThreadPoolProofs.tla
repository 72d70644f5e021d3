-------------------------- MODULE ThreadPoolProofs --------------------------
(***************************************************************************)
(* Proofs about ThreadPool for every number of packages and callers, every *)
(* bound on the session numbers, with and without sessions.                *)
(*                                                                         *)
(* None of the properties is inductive by itself.  The invariant adds what *)
(* they rest on: who owns a reference to a package (References), how far a *)
(* package can have come given where its caller and the worker stand       *)
(* (Progress), that a pool told to stop is empty whenever nobody is inside *)
(* stop() (Closing), that the list keeps the order of acceptance (Order),  *)
(* and what a search that was not disturbed has found so far (Searching).  *)
(***************************************************************************)
EXTENDS ThreadPool, QueueLemmas

-----------------------------------------------------------------------------
(* The inductive invariant.                                                *)

\* A caller inside a call owns the package it submits, the worker the one it
\* runs, and nobody else does.

References ==
  /\ \A t \in Tasks : "caller" \in holders[t] <=> \E c \in Callers : package[c] = t
  /\ \A c, d \in Callers : package[c] = package[d] /\ package[c] # None => c = d
  /\ \A c \in Callers : package[c] = None <=> caller[c] \notin {"push", "return"}
  /\ \A t \in Tasks : "worker" \in holders[t] <=> running = t
  /\ running = None <=> worker \notin {"run", "selfstop", "unwind"}

\* What the state of a package says about the threads.
Progress ==
  /\ \A t \in Tasks : status[t] = "new" => holders[t] = {}
  /\ \A t \in Tasks : status[t] = "made" <=> \E c \in Callers : caller[c] = "push" /\ package[c] = t
  /\ \A t \in Tasks : status[t] = "running" <=> (worker \in {"run", "selfstop"} /\ running = t)

\* The list of a pool that was told to stop is empty unless stop() is still
\* running; the worker only leaves such a pool.
Closing ==
  /\ mExit /\ NobodyStops => mTasks = <<>>
  /\ worker = "exited" => mExit

\* `accepted` holds each accepted package once and the list is in its order.
Order ==
  /\ \A i, j \in DOMAIN accepted : accepted[i] = accepted[j] => i = j
  /\ \A t \in Tasks : t \in ToSet(accepted) <=> status[t] \notin {"new", "made", "refused"}
  /\ \A i, j \in DOMAIN mTasks : \A p, q \in DOMAIN accepted :
       accepted[p] = mTasks[i] /\ accepted[q] = mTasks[j] /\ i < j => p < q

\* A search whose session did not change has passed only packages of other
\* sessions; a pool without sessions is never searched.
Searching ==
  /\ worker # "search" => at = 0 /\ ~moved
  /\ worker = "search" => SessionMode /\ at \in 1..(Len(mTasks) + 1)
  /\ worker = "search" /\ ~moved =>
       \A j \in 1..(at - 1) : mSession[mTasks[j]] # mCurSession
  /\ ~SessionMode => disturbed = {}

IndInv ==
  /\ TypeOK
  /\ QueueConsistent
  /\ References
  /\ Progress
  /\ NotifiedOnce
  /\ Closing
  /\ Order
  /\ Searching
  /\ FifoWithinSession

-----------------------------------------------------------------------------
(* The initial state, and one lemma per conjunct for the steps.            *)

\* A new pool satisfies the invariant.
LEMMA InitInv == Init => IndInv
<1> SUFFICES ASSUME Init PROVE IndInv
  OBVIOUS
<1> USE PoolAssumption DEF Init
<1>1. TypeOK
  <2>1. mTasks \in Seq(Tasks) /\ accepted \in Seq(Tasks)
    OBVIOUS
  <2>2. notified \in [Tasks -> {0, 1}] /\ mSession \in [Tasks -> 0..MaxSession]
    OBVIOUS
  <2>3. status \in [Tasks -> Status] /\ holders \in [Tasks -> SUBSET Holder]
    BY DEF Status
  <2>4. caller \in [Callers -> Caller] /\ package \in [Callers -> Tasks \union {None}]
    BY DEF Caller
  <2>5. running \in Tasks \union {None} /\ worker \in Worker
    BY DEF Worker
  <2>6. mExit \in BOOLEAN
    OBVIOUS
  <2>7. mCurSession \in 0..MaxSession /\ mNextSession \in 0..MaxSession
    OBVIOUS
  <2>8. at \in Nat /\ moved \in BOOLEAN /\ disturbed \subseteq Tasks
    OBVIOUS
  <2> HIDE DEF Init
  <2> QED
    BY <2>1, <2>2, <2>3, <2>4, <2>5, <2>6, <2>7, <2>8 DEF TypeOK
<1>2. QueueConsistent /\ Closing /\ FifoWithinSession
  BY DEF QueueConsistent, Closing, FifoWithinSession, ToSet
<1>3. References /\ Progress /\ NotifiedOnce
  BY DEF References, Progress, NotifiedOnce
<1>4. Order
  BY DEF Order, ToSet
<1>5. Searching
  BY DEF Searching
<1> QED
  BY <1>1, <1>2, <1>3, <1>4, <1>5 DEF IndInv

\* Dropping references keeps the types: only a package that was not notified
\* yet can lose its last one.
LEMMA ReleaseType ==
  ASSUME TypeOK, NotifiedOnce, NEW S, NEW h, Release(S, h)
  PROVE  /\ holders' \in [Tasks -> SUBSET Holder]
         /\ notified' \in [Tasks -> {0, 1}]
<1>1. holders' \in [Tasks -> SUBSET Holder]
  BY DEF Release, TypeOK
<1>2. ASSUME NEW t \in Tasks, holders[t] = {h}
      PROVE  notified[t] = 0
  BY <1>2 DEF NotifiedOnce
<1>3. notified' \in [Tasks -> {0, 1}]
  BY <1>2 DEF Release, TypeOK
<1> QED
  BY <1>1, <1>3

\* Every step of the pool keeps the types.
LEMMA TypeStep ==
  ASSUME TypeOK, QueueConsistent, References, NotifiedOnce, [Next]_poolVars
  PROVE  TypeOK'
<1> USE PoolAssumption DEF TypeOK, listVars, sessionVars, searchVars
<1>1. CASE UNCHANGED poolVars
  BY <1>1 DEF poolVars
<1>2. ASSUME NEW c \in Callers, NEW t \in Tasks, NEW session \in 0..MaxSession,
             Make(c, t, session)
      PROVE  TypeOK'
  <2>1. status' \in [Tasks -> Status] /\ caller' \in [Callers -> Caller]
    BY <1>2 DEF Make, Status, Caller
  <2>2. package' \in [Callers -> Tasks \union {None}]
    BY <1>2 DEF Make
  <2>3. holders' \in [Tasks -> SUBSET Holder]
    BY <1>2 DEF Make, Holder
  <2>4. mSession' \in [Tasks -> 0..MaxSession]
    BY <1>2 DEF Make
  <2> QED
    BY <1>2, <2>1, <2>2, <2>3, <2>4 DEF Make
<1>3. ASSUME NEW c \in Callers, PushAccept(c)
      PROVE  TypeOK'
  <2>1. package[c] \in Tasks
    BY <1>3 DEF PushAccept, References
  <2>2. status' \in [Tasks -> Status] /\ caller' \in [Callers -> Caller]
    BY <1>3, <2>1 DEF PushAccept, Status, Caller
  <2>3. holders' \in [Tasks -> SUBSET Holder]
    BY <1>3, <2>1 DEF PushAccept, Holder
  <2> QED
    BY <1>3, <2>1, <2>2, <2>3 DEF PushAccept
<1>4. ASSUME NEW c \in Callers, PushRefuse(c)
      PROVE  TypeOK'
  BY <1>4 DEF PushRefuse, Status, Caller
<1>5. ASSUME NEW c \in Callers, Return(c)
      PROVE  TypeOK'
  <2>1. caller' \in [Callers -> Caller] /\ package' \in [Callers -> Tasks \union {None}]
    BY <1>5 DEF Return, Caller
  <2> QED
    BY <1>5, <2>1, ReleaseType DEF Return
<1>6. ASSUME DiscardAll
      PROVE  /\ mTasks' \in Seq(Tasks) /\ status' \in [Tasks -> Status]
             /\ holders' \in [Tasks -> SUBSET Holder]
             /\ notified' \in [Tasks -> {0, 1}]
  <2>1. mTasks' \in Seq(Tasks) /\ status' \in [Tasks -> Status]
    BY <1>6 DEF DiscardAll, Status
  <2> QED
    BY <1>6, <2>1, ReleaseType DEF DiscardAll
<1>7. ASSUME NEW c \in Callers, Flush(c) \/ StopFlush(c)
      PROVE  TypeOK'
  BY <1>6, <1>7 DEF Flush, StopFlush, Caller
<1>8. ASSUME NEW c \in Callers, StopBegin(c) \/ StopJoin(c)
      PROVE  TypeOK'
  BY <1>8 DEF StopBegin, StopJoin, Caller
<1>9. CASE IncNextSession \/ IncCurSession \/ ClearSession
  BY <1>9 DEF IncNextSession, IncCurSession, ClearSession, SessionMoves
<1>10. CASE \/ WorkerLoop \/ WorkerLeave \/ WorkerSearch \/ WorkerSkip \/ WorkerSpin
            \/ WorkerSelfStop
  <2>1. CASE WorkerLoop \/ WorkerLeave \/ WorkerSelfStop
    BY <2>1 DEF WorkerLoop, WorkerLeave, WorkerSelfStop, Worker
  <2>2. CASE WorkerSearch
    BY <2>2 DEF WorkerSearch, Worker
  <2>3. CASE WorkerSpin
    <3>1. at' \in Nat /\ moved' \in BOOLEAN
      BY <2>3 DEF WorkerSpin
    <3>2. worker' \in Worker
      BY <2>3 DEF WorkerSpin, Worker
    <3> QED
      BY <2>3, <3>1, <3>2 DEF WorkerSpin
  <2>4. CASE WorkerSkip
    BY <2>4 DEF WorkerSkip
  <2> QED
    BY <1>10, <2>1, <2>2, <2>3, <2>4
<1>11. CASE WorkerTake
  <2>1. PICK i \in DOMAIN mTasks :
          /\ running' = mTasks[i]
          /\ mTasks' = RemoveAt(mTasks, i)
          /\ status' = [status EXCEPT ![mTasks[i]] = "running"]
          /\ holders' = [holders EXCEPT ![mTasks[i]] = (@ \ {"list"}) \union {"worker"}]
          /\ disturbed' = IF moved THEN disturbed \union {mTasks[i]} ELSE disturbed
    BY <1>11 DEF WorkerTake
  <2>2. mTasks[i] \in Tasks /\ mTasks' \in Seq(Tasks)
    BY <2>1, RemoveAtProperties
  <2>3. status' \in [Tasks -> Status]
    BY <2>1, <2>2 DEF Status
  <2>4. holders' \in [Tasks -> SUBSET Holder]
    BY <2>1, <2>2 DEF Holder
  <2>5. disturbed' \subseteq Tasks
    BY <2>1, <2>2
  <2> QED
    BY <1>11, <2>1, <2>2, <2>3, <2>4, <2>5 DEF WorkerTake, Worker
<1>12. CASE WorkerRun
  BY <1>12 DEF WorkerRun, Worker, Status
<1>13. CASE WorkerSelfFlush
  BY <1>6, <1>13 DEF WorkerSelfFlush, Worker
<1>14. CASE WorkerUnwind
  BY <1>14, ReleaseType DEF WorkerUnwind, Worker
<1> QED
  BY <1>1, <1>2, <1>3, <1>4, <1>5, <1>7, <1>8, <1>9, <1>10, <1>11, <1>12, <1>13,
     <1>14
  DEF Next, CallerStep, WorkerStep, Post, PostToCurSession

\* The list holds exactly the queued packages after every step.
LEMMA QueueStep ==
  ASSUME TypeOK, QueueConsistent, References, Progress, [Next]_poolVars
  PROVE  QueueConsistent'
<1> USE PoolAssumption DEF listVars, sessionVars, searchVars
<1>0. QueueConsistent <=> /\ Injective(mTasks)
                          /\ \A t \in Tasks : t \in ToSet(mTasks) <=> status[t] = "queued"
                          /\ \A t \in Tasks : "list" \in holders[t] <=> status[t] = "queued"
  BY DEF QueueConsistent, Injective
<1>1. CASE UNCHANGED <<mTasks, status, holders>>
  BY <1>1 DEF QueueConsistent, ToSet
<1>2. ASSUME NEW c \in Callers, NEW t \in Tasks, NEW session \in 0..MaxSession,
             Make(c, t, session)
      PROVE  QueueConsistent'
  BY <1>2 DEF Make, QueueConsistent, TypeOK
<1>3. ASSUME NEW c \in Callers, PushAccept(c)
      PROVE  QueueConsistent'
  <2>1. package[c] \in Tasks /\ status[package[c]] = "made"
    BY <1>3 DEF PushAccept, References, Progress, TypeOK
  <2>2. package[c] \notin ToSet(mTasks)
    BY <2>1 DEF QueueConsistent
  <2>3. /\ ToSet(mTasks') = ToSet(mTasks) \union {package[c]}
        /\ Injective(mTasks')
    <3>1. mTasks \in Seq(Tasks) /\ mTasks' = Append(mTasks, package[c])
      BY <1>3 DEF PushAccept, TypeOK
    <3> QED
      BY <1>0, <2>1, <2>2, <3>1, AppendKeepsInjective
  <2>4. \A t \in Tasks : status'[t] = IF t = package[c] THEN "queued" ELSE status[t]
    BY <1>3 DEF PushAccept, TypeOK
  <2>5. \A t \in Tasks : "list" \in holders'[t] <=> (t = package[c] \/ "list" \in holders[t])
    BY <1>3 DEF PushAccept, TypeOK
  <2> QED
    BY <1>0, <2>3, <2>4, <2>5 DEF QueueConsistent, Injective
<1>4. ASSUME NEW c \in Callers, PushRefuse(c)
      PROVE  QueueConsistent'
  <2>1. package[c] \in Tasks /\ status[package[c]] = "made"
    BY <1>4 DEF PushRefuse, References, Progress, TypeOK
  <2> QED
    BY <1>4, <2>1 DEF PushRefuse, QueueConsistent, TypeOK
<1>5. ASSUME NEW S, NEW h \in {"caller", "worker"}, Release(S, h), UNCHANGED <<mTasks, status>>
      PROVE  QueueConsistent'
  BY <1>5 DEF Release, QueueConsistent, TypeOK
<1>6. ASSUME DiscardAll
      PROVE  QueueConsistent'
  <2>1. mTasks' = <<>>
    BY <1>6 DEF DiscardAll
  <2>2. \A t \in Tasks : status'[t] # "queued" /\ "list" \notin holders'[t]
    BY <1>6 DEF DiscardAll, Release, QueueConsistent
  <2> QED
    BY <2>1, <2>2 DEF QueueConsistent, ToSet
<1>7. CASE WorkerTake
  <2>1. PICK i \in DOMAIN mTasks :
          /\ mTasks' = RemoveAt(mTasks, i)
          /\ status' = [status EXCEPT ![mTasks[i]] = "running"]
          /\ holders' = [holders EXCEPT ![mTasks[i]] = (@ \ {"list"}) \union {"worker"}]
    BY <1>7 DEF WorkerTake
  <2>2. mTasks[i] \in Tasks
    BY DEF TypeOK
  <2>3. Injective(mTasks') /\ ToSet(mTasks') = ToSet(mTasks) \ {mTasks[i]}
    BY <1>0, <2>1, RemoveAtInjective DEF TypeOK
  <2>4. \A t \in Tasks : status'[t] = IF t = mTasks[i] THEN "running" ELSE status[t]
    BY <2>1, <2>2 DEF TypeOK
  <2>5. \A t \in Tasks : "list" \in holders'[t] <=> (t # mTasks[i] /\ "list" \in holders[t])
    BY <2>1, <2>2 DEF TypeOK
  <2> QED
    BY <1>0, <2>3, <2>4, <2>5 DEF QueueConsistent, Injective
<1>8. CASE WorkerRun
  <2>1. running \in Tasks /\ status[running] = "running"
    BY <1>8 DEF WorkerRun, References, Progress, TypeOK
  <2> QED
    BY <1>8, <2>1 DEF WorkerRun, QueueConsistent, TypeOK
<1>9. ASSUME NEW c \in Callers, CallerStep(c)
      PROVE  QueueConsistent'
  BY <1>1, <1>2, <1>3, <1>4, <1>5, <1>6, <1>9
  DEF CallerStep, Post, PostToCurSession, Return, Flush, StopBegin, StopJoin, StopFlush,
      TypeOK
<1>10. CASE WorkerStep
  BY <1>1, <1>5, <1>6, <1>7, <1>8, <1>10
  DEF WorkerStep, WorkerLoop, WorkerLeave, WorkerSearch, WorkerSkip, WorkerSpin,
      WorkerSelfStop, WorkerSelfFlush, WorkerUnwind
<1>11. CASE IncNextSession \/ IncCurSession \/ ClearSession
  BY <1>1, <1>11 DEF IncNextSession, IncCurSession, ClearSession
<1> QED
  BY <1>1, <1>9, <1>10, <1>11 DEF Next, poolVars

\* Every step accounts for the references it takes and drops.
LEMMA ReferencesStep ==
  ASSUME TypeOK, QueueConsistent, References, Progress, [Next]_poolVars
  PROVE  References'
<1> USE PoolAssumption DEF listVars, sessionVars, searchVars
<1>1. CASE UNCHANGED <<holders, package, caller, running, worker>>
  BY <1>1 DEF References
<1>2. ASSUME NEW c \in Callers, NEW t \in Tasks, NEW session \in 0..MaxSession,
             Make(c, t, session)
      PROVE  References'
  <2>1. /\ holders[t] = {} /\ holders' = [holders EXCEPT ![t] = {"caller"}]
        /\ package' = [package EXCEPT ![c] = t]
        /\ caller[c] = "idle" /\ caller' = [caller EXCEPT ![c] = "push"]
        /\ UNCHANGED <<running, worker>>
    BY <1>2 DEF Make, Progress
  <2>2. package[c] = None /\ \A d \in Callers : package[d] # t
    BY <2>1 DEF References
  <2>3. running # t
    BY <2>1 DEF References
  <2>4. \A d \in Callers : package'[d] = IF d = c THEN t ELSE package[d]
    BY <2>1 DEF TypeOK
  <2>5. \A u \in Tasks : holders'[u] = IF u = t THEN {"caller"} ELSE holders[u]
    BY <2>1 DEF TypeOK
  <2>6. \A d \in Callers : caller'[d] = IF d = c THEN "push" ELSE caller[d]
    BY <2>1 DEF TypeOK
  <2> QED
    BY <2>1, <2>2, <2>3, <2>4, <2>5, <2>6 DEF References
<1>3. ASSUME NEW c \in Callers, PushAccept(c) \/ PushRefuse(c)
      PROVE  References'
  <2>1. /\ \A t \in Tasks : /\ "caller" \in holders'[t] <=> "caller" \in holders[t]
                            /\ "worker" \in holders'[t] <=> "worker" \in holders[t]
        /\ \A d \in Callers : caller'[d] = IF d = c THEN "return" ELSE caller[d]
        /\ caller[c] = "push"
        /\ UNCHANGED <<package, running, worker>>
    <3>1. CASE PushAccept(c)
      BY <3>1 DEF PushAccept, TypeOK
    <3>2. CASE PushRefuse(c)
      BY <3>2 DEF PushRefuse, TypeOK
    <3> QED
      BY <1>3, <3>1, <3>2
  <2> QED
    BY <2>1 DEF References
<1>4. ASSUME NEW c \in Callers, Return(c)
      PROVE  References'
  <2>1. /\ \A t \in Tasks : holders'[t] = IF t = package[c] THEN holders[t] \ {"caller"}
                                          ELSE holders[t]
        /\ \A d \in Callers : package'[d] = IF d = c THEN None ELSE package[d]
        /\ \A d \in Callers : caller'[d] = IF d = c THEN "idle" ELSE caller[d]
        /\ caller[c] = "return"
        /\ UNCHANGED <<running, worker>>
    BY <1>4 DEF Return, Release, TypeOK
  <2>2. package[c] \in Tasks
    BY <2>1 DEF References, TypeOK
  <2>3. \A d \in Callers : package[d] = package[c] => d = c
    BY <2>2 DEF References
  <2>4. \A t \in Tasks : "caller" \in holders'[t] <=> \E d \in Callers : package'[d] = t
    <3> TAKE t \in Tasks
    <3>1. CASE t = package[c]
      BY <2>1, <2>3, <3>1
    <3>2. CASE t # package[c]
      <4>1. "caller" \in holders'[t] <=> \E d \in Callers : package[d] = t
        BY <2>1, <3>2 DEF References
      <4>2. \A d \in Callers : package'[d] = t <=> package[d] = t
        BY <2>1, <3>2
      <4> QED
        BY <4>1, <4>2
    <3> QED
      BY <3>1, <3>2
  <2>5. \A t \in Tasks : "worker" \in holders'[t] <=> running' = t
    BY <2>1 DEF References
  <2> QED
    BY <2>1, <2>4, <2>5 DEF References
<1>5. ASSUME DiscardAll, UNCHANGED <<package, running>>,
             worker' = worker \/ (worker = "selfstop" /\ worker' = "run"),
             \A d \in Callers : caller'[d] \in {"push", "return"} <=> caller[d] \in {"push", "return"}
      PROVE  References'
  <2>1. \A t \in Tasks : /\ "caller" \in holders'[t] <=> "caller" \in holders[t]
                         /\ "worker" \in holders'[t] <=> "worker" \in holders[t]
    BY <1>5 DEF DiscardAll, Release, TypeOK
  <2> QED
    BY <1>5, <2>1 DEF References
<1>6. CASE WorkerTake
  <2>1. PICK i \in DOMAIN mTasks :
          /\ running' = mTasks[i]
          /\ holders' = [holders EXCEPT ![mTasks[i]] = (@ \ {"list"}) \union {"worker"}]
    BY <1>6 DEF WorkerTake
  <2>2. mTasks[i] \in Tasks /\ running = None
    BY <1>6 DEF WorkerTake, Found, TypeOK, References
  <2>3. \A t \in Tasks :
          /\ "caller" \in holders'[t] <=> "caller" \in holders[t]
          /\ "worker" \in holders'[t] <=> (t = mTasks[i] \/ "worker" \in holders[t])
    BY <2>1, <2>2 DEF TypeOK
  <2> QED
    BY <1>6, <2>1, <2>2, <2>3 DEF References, WorkerTake
<1>7. CASE WorkerUnwind
  <2>1. /\ \A t \in Tasks : holders'[t] = IF t = running THEN holders[t] \ {"worker"}
                                          ELSE holders[t]
        /\ running' = None /\ worker' = "loop"
        /\ UNCHANGED <<package, caller>>
    BY <1>7 DEF WorkerUnwind, Release
  <2>2. \A t \in Tasks : "caller" \in holders'[t] <=> "caller" \in holders[t]
    BY <2>1
  <2>3. \A t \in Tasks : "worker" \in holders'[t] <=> running' = t
    <3>1. \A t \in Tasks : "worker" \in holders[t] <=> running = t
      BY DEF References
    <3>2. \A t \in Tasks : "worker" \notin holders'[t]
      BY <2>1, <3>1
    <3> QED
      BY <2>1, <3>2
  <2> QED
    BY <2>1, <2>2, <2>3 DEF References
<1>8. ASSUME NEW c \in Callers, CallerStep(c)
      PROVE  References'
  <2>1. ASSUME Flush(c) \/ StopFlush(c)
        PROVE  References'
    BY <1>5, <2>1 DEF Flush, StopFlush, TypeOK
  <2>2. ASSUME StopBegin(c) \/ StopJoin(c)
        PROVE  References'
    <3>1. /\ \A d \in Callers : caller'[d] = caller[d] \/
                                  {caller[d], caller'[d]} \subseteq {"idle", "join", "flush"}
          /\ UNCHANGED <<holders, package, running, worker>>
      BY <2>2 DEF StopBegin, StopJoin, TypeOK
    <3> QED
      BY <3>1 DEF References
  <2> QED
    BY <1>2, <1>3, <1>4, <1>8, <2>1, <2>2
    DEF CallerStep, Post, PostToCurSession, TypeOK
<1>9. CASE WorkerStep
  <2>1. CASE WorkerLoop \/ WorkerLeave \/ WorkerSearch \/ WorkerSkip \/ WorkerSpin
             \/ WorkerRun \/ WorkerSelfStop
    BY <2>1 DEF WorkerLoop, WorkerLeave, WorkerSearch, WorkerSkip, WorkerSpin, WorkerRun,
       WorkerSelfStop, References
  <2>2. CASE WorkerSelfFlush
    BY <1>5, <2>2 DEF WorkerSelfFlush
  <2> QED
    BY <1>6, <1>7, <1>9, <2>1, <2>2 DEF WorkerStep
<1>10. CASE IncNextSession \/ IncCurSession \/ ClearSession
  BY <1>1, <1>10 DEF IncNextSession, IncCurSession, ClearSession
<1> QED
  BY <1>1, <1>8, <1>9, <1>10 DEF Next, poolVars

\* Packages move on only with the thread that works on them.
LEMMA ProgressStep ==
  ASSUME TypeOK, QueueConsistent, References, Progress, [Next]_poolVars
  PROVE  Progress'
<1> USE PoolAssumption DEF listVars, sessionVars, searchVars
<1>1. CASE UNCHANGED <<status, holders, package, caller, running, worker>>
  BY <1>1 DEF Progress
<1>2. ASSUME NEW c \in Callers, NEW t \in Tasks, NEW session \in 0..MaxSession,
             Make(c, t, session)
      PROVE  Progress'
  <2>1. /\ \A u \in Tasks : /\ status'[u] = IF u = t THEN "made" ELSE status[u]
                            /\ u # t => holders'[u] = holders[u]
        /\ \A d \in Callers : /\ package'[d] = IF d = c THEN t ELSE package[d]
                              /\ caller'[d] = IF d = c THEN "push" ELSE caller[d]
        /\ status[t] = "new" /\ caller[c] = "idle"
        /\ UNCHANGED <<running, worker>>
    BY <1>2 DEF Make, TypeOK
  <2> QED
    BY <2>1 DEF Progress
<1>3. ASSUME NEW c \in Callers, PushAccept(c) \/ PushRefuse(c)
      PROVE  Progress'
  <2>1. package[c] \in Tasks
    BY <1>3 DEF PushAccept, PushRefuse, References, TypeOK
  <2>2. /\ \A u \in Tasks : u # package[c] => status'[u] = status[u] /\ holders'[u] = holders[u]
        /\ status'[package[c]] \in {"queued", "refused"}
        /\ \A d \in Callers : caller'[d] = IF d = c THEN "return" ELSE caller[d]
        /\ caller[c] = "push"
        /\ UNCHANGED <<package, running, worker>>
    BY <1>3, <2>1 DEF PushAccept, PushRefuse, TypeOK
  <2>3. \A d \in Callers : package[d] = package[c] => d = c
    BY <2>1 DEF References
  <2>4. status[package[c]] = "made"
    BY <2>1, <2>2 DEF Progress
  <2> QED
    BY <2>1, <2>2, <2>3, <2>4 DEF Progress
<1>4. ASSUME NEW c \in Callers, Return(c)
      PROVE  Progress'
  <2>1. /\ \A u \in Tasks : status'[u] = status[u] /\ holders'[u] \subseteq holders[u]
        /\ \A d \in Callers : package'[d] = IF d = c THEN None ELSE package[d]
        /\ \A d \in Callers : caller'[d] = IF d = c THEN "idle" ELSE caller[d]
        /\ caller[c] = "return"
        /\ UNCHANGED <<running, worker>>
    BY <1>4 DEF Return, Release, TypeOK
  <2> QED
    BY <2>1 DEF Progress
<1>5. ASSUME DiscardAll, UNCHANGED <<package, running>>,
             worker' = worker \/ (worker = "selfstop" /\ worker' = "run"),
             \A d \in Callers : caller'[d] = "push" <=> caller[d] = "push"
      PROVE  Progress'
  <2>1. \A u \in Tasks : /\ status'[u] = IF status[u] = "queued" THEN "discarded" ELSE status[u]
                         /\ holders'[u] \subseteq holders[u]
    BY <1>5 DEF DiscardAll, Release, QueueConsistent
  <2> QED
    BY <1>5, <2>1 DEF Progress
<1>6. CASE WorkerTake
  <2>1. PICK i \in DOMAIN mTasks :
          /\ running' = mTasks[i]
          /\ status' = [status EXCEPT ![mTasks[i]] = "running"]
          /\ holders' = [holders EXCEPT ![mTasks[i]] = (@ \ {"list"}) \union {"worker"}]
    BY <1>6 DEF WorkerTake
  <2>2. mTasks[i] \in Tasks /\ status[mTasks[i]] = "queued"
    BY DEF TypeOK, QueueConsistent, ToSet
  <2>3. \A u \in Tasks : /\ status'[u] = IF u = mTasks[i] THEN "running" ELSE status[u]
                         /\ u # mTasks[i] => holders'[u] = holders[u]
    BY <2>1, <2>2 DEF TypeOK
  <2>4. worker \notin {"run", "selfstop"} /\ worker' = "run"
    BY <1>6 DEF WorkerTake, Found
  <2> QED
    BY <1>6, <2>1, <2>2, <2>3, <2>4 DEF Progress, WorkerTake
<1>7. CASE WorkerRun
  <2>1. running \in Tasks /\ status[running] = "running"
    BY <1>7 DEF WorkerRun, References, Progress, TypeOK
  <2>2. /\ \A u \in Tasks : status'[u] = IF u = running THEN "done" ELSE status[u]
        /\ worker' = "unwind"
        /\ UNCHANGED <<holders, package, caller, running>>
    BY <1>7 DEF WorkerRun, TypeOK
  <2> QED
    BY <2>1, <2>2 DEF Progress
<1>8. CASE WorkerUnwind
  <2>1. /\ \A u \in Tasks : status'[u] = status[u] /\ holders'[u] \subseteq holders[u]
        /\ worker = "unwind" /\ worker' = "loop"
        /\ UNCHANGED <<package, caller>>
    BY <1>8 DEF WorkerUnwind, Release, TypeOK
  <2> QED
    BY <2>1 DEF Progress
<1>9. ASSUME NEW c \in Callers, CallerStep(c)
      PROVE  Progress'
  <2>1. ASSUME Flush(c) \/ StopFlush(c)
        PROVE  Progress'
    BY <1>5, <2>1 DEF Flush, StopFlush, TypeOK
  <2>2. ASSUME StopBegin(c) \/ StopJoin(c)
        PROVE  Progress'
    BY <2>2 DEF StopBegin, StopJoin, Progress, TypeOK
  <2> QED
    BY <1>2, <1>3, <1>4, <1>9, <2>1, <2>2
    DEF CallerStep, Post, PostToCurSession, TypeOK
<1>10. CASE WorkerStep
  <2>1. CASE WorkerLoop \/ WorkerLeave \/ WorkerSearch \/ WorkerSkip \/ WorkerSpin
             \/ WorkerSelfStop
    BY <2>1 DEF WorkerLoop, WorkerLeave, WorkerSearch, WorkerSkip, WorkerSpin,
       WorkerSelfStop, Progress
  <2>2. CASE WorkerSelfFlush
    BY <1>5, <2>2 DEF WorkerSelfFlush
  <2> QED
    BY <1>6, <1>7, <1>8, <1>10, <2>1, <2>2 DEF WorkerStep
<1>11. CASE IncNextSession \/ IncCurSession \/ ClearSession
  BY <1>1, <1>11 DEF IncNextSession, IncCurSession, ClearSession
<1> QED
  BY <1>1, <1>9, <1>10, <1>11 DEF Next, poolVars

\* A step that drops a reference held by each package of S notifies exactly
\* those that lose their last one.
LEMMA ReleaseNotifies ==
  ASSUME TypeOK, NotifiedOnce, Progress,
         NEW S, NEW h, Release(S, h), \A t \in Tasks \intersect S : h \in holders[t],
         \A t \in Tasks : status'[t] = "new" <=> status[t] = "new"
  PROVE  NotifiedOnce'
<1> SUFFICES ASSUME NEW t \in Tasks
             PROVE  notified'[t] = IF status'[t] # "new" /\ holders'[t] = {} THEN 1 ELSE 0
  BY DEF NotifiedOnce
<1>1. CASE t \in S
  <2>1. status'[t] # "new" /\ notified[t] = 0
    BY <1>1 DEF Progress, NotifiedOnce
  <2>2. /\ holders'[t] = {} <=> holders[t] = {h}
        /\ notified'[t] = IF holders[t] = {h} THEN notified[t] + 1 ELSE notified[t]
    BY <1>1 DEF Release
  <2> QED
    BY <2>1, <2>2
<1>2. CASE t \notin S
  BY <1>2 DEF Release, NotifiedOnce
<1> QED
  BY <1>1, <1>2

\* notify keeps running once per package, after every step.
LEMMA NotifiedStep ==
  ASSUME TypeOK, QueueConsistent, References, Progress, NotifiedOnce, [Next]_poolVars
  PROVE  NotifiedOnce'
<1> USE PoolAssumption DEF listVars, sessionVars, searchVars
<1>1. CASE UNCHANGED <<status, holders, notified>>
  BY <1>1 DEF NotifiedOnce
<1>2. ASSUME NEW u \in Tasks, holders'[u] # {}, status'[u] # "new",
             notified' = notified, holders[u] # {} \/ status[u] = "new",
             \A t \in Tasks \ {u} : status'[t] = status[t] /\ holders'[t] = holders[t]
      PROVE  NotifiedOnce'
  BY <1>2 DEF NotifiedOnce
<1>3. ASSUME NEW c \in Callers, NEW t \in Tasks, NEW session \in 0..MaxSession,
             Make(c, t, session)
      PROVE  NotifiedOnce'
  <2>1. holders'[t] = {"caller"} /\ status'[t] = "made"
    BY <1>3 DEF Make, TypeOK
  <2> QED
    BY <1>2, <1>3, <2>1 DEF Make, TypeOK
<1>4. ASSUME NEW c \in Callers, PushAccept(c) \/ PushRefuse(c)
      PROVE  NotifiedOnce'
  <2>1. package[c] \in Tasks /\ "caller" \in holders[package[c]]
    BY <1>4 DEF PushAccept, PushRefuse, References, TypeOK
  <2>2. "caller" \in holders'[package[c]] /\ status'[package[c]] # "new"
    BY <1>4, <2>1 DEF PushAccept, PushRefuse, TypeOK
  <2>3. notified' = notified /\ \A t \in Tasks \ {package[c]} :
          status'[t] = status[t] /\ holders'[t] = holders[t]
    BY <1>4 DEF PushAccept, PushRefuse, TypeOK
  <2> QED
    BY <1>2, <2>1, <2>2, <2>3
<1>5. ASSUME NEW c \in Callers, Return(c)
      PROVE  NotifiedOnce'
  <2>1. \A t \in Tasks \intersect {package[c]} : "caller" \in holders[t]
    BY DEF References
  <2> QED
    BY <1>5, <2>1, ReleaseNotifies DEF Return
<1>6. ASSUME DiscardAll
      PROVE  NotifiedOnce'
  <2>1. \A t \in Tasks \intersect ToSet(mTasks) : "list" \in holders[t]
    BY DEF QueueConsistent
  <2>2. \A t \in Tasks : status'[t] = "new" <=> status[t] = "new"
    BY <1>6 DEF DiscardAll, QueueConsistent
  <2> QED
    BY <1>6, <2>1, <2>2, ReleaseNotifies DEF DiscardAll
<1>7. CASE WorkerTake
  <2>1. PICK i \in DOMAIN mTasks :
          /\ status' = [status EXCEPT ![mTasks[i]] = "running"]
          /\ holders' = [holders EXCEPT ![mTasks[i]] = (@ \ {"list"}) \union {"worker"}]
    BY <1>7 DEF WorkerTake
  <2>2. mTasks[i] \in Tasks /\ "list" \in holders[mTasks[i]]
    BY DEF TypeOK, QueueConsistent, ToSet
  <2>3. "worker" \in holders'[mTasks[i]] /\ status'[mTasks[i]] # "new"
    BY <2>1, <2>2 DEF TypeOK
  <2>4. notified' = notified /\ \A t \in Tasks \ {mTasks[i]} :
          status'[t] = status[t] /\ holders'[t] = holders[t]
    BY <1>7, <2>1, <2>2 DEF WorkerTake, TypeOK
  <2> QED
    BY <1>2, <2>2, <2>3, <2>4
<1>8. CASE WorkerRun
  <2>1. running \in Tasks /\ "worker" \in holders[running]
    BY <1>8 DEF WorkerRun, References, TypeOK
  <2> QED
    BY <1>2, <1>8, <2>1 DEF WorkerRun, TypeOK
<1>9. CASE WorkerUnwind
  <2>1. \A t \in Tasks \intersect {running} : "worker" \in holders[t]
    BY DEF References
  <2> QED
    BY <1>9, <2>1, ReleaseNotifies DEF WorkerUnwind
<1>10. ASSUME NEW c \in Callers, CallerStep(c)
       PROVE  NotifiedOnce'
  BY <1>1, <1>3, <1>4, <1>5, <1>6, <1>10
  DEF CallerStep, Post, PostToCurSession, Flush, StopBegin, StopJoin, StopFlush, TypeOK
<1>11. CASE WorkerStep
  BY <1>1, <1>6, <1>7, <1>8, <1>9, <1>11
  DEF WorkerStep, WorkerLoop, WorkerLeave, WorkerSearch, WorkerSkip, WorkerSpin,
      WorkerSelfStop, WorkerSelfFlush
<1>12. CASE IncNextSession \/ IncCurSession \/ ClearSession
  BY <1>1, <1>12 DEF IncNextSession, IncCurSession, ClearSession
<1> QED
  BY <1>1, <1>10, <1>11, <1>12 DEF Next, poolVars

\* stop() empties the pool before it returns and nothing enters afterwards.
LEMMA ClosingStep ==
  ASSUME TypeOK, Closing, [Next]_poolVars
  PROVE  Closing'
<1> USE PoolAssumption DEF listVars, sessionVars, searchVars
<1>1. CASE UNCHANGED <<mTasks, mExit, worker, caller>>
  BY <1>1 DEF Closing, NobodyStops
<1>2. ASSUME UNCHANGED <<mExit, worker>>, mExit => mTasks' = mTasks,
             \A d \in Callers : caller'[d] \in {"join", "flush"} <=> caller[d] \in {"join", "flush"}
      PROVE  Closing'
  BY <1>2 DEF Closing, NobodyStops
<1>3. ASSUME NEW c \in Callers, CallerStep(c)
      PROVE  Closing'
  <2>1. ASSUME NEW t \in Tasks, NEW session \in 0..MaxSession, Make(c, t, session)
        PROVE  Closing'
    BY <1>2, <2>1 DEF Make, TypeOK
  <2>2. CASE PushAccept(c) \/ PushRefuse(c) \/ Return(c)
    BY <1>2, <2>2 DEF PushAccept, PushRefuse, Return, TypeOK
  <2>3. CASE Flush(c) \/ StopFlush(c)
    BY <2>3 DEF Flush, StopFlush, DiscardAll, Closing
  <2>4. CASE StopBegin(c)
    BY <2>4 DEF StopBegin, Closing, NobodyStops, TypeOK
  <2>5. CASE StopJoin(c)
    BY <2>5 DEF StopJoin, Closing, NobodyStops, TypeOK
  <2> QED
    BY <1>3, <2>1, <2>2, <2>3, <2>4, <2>5
    DEF CallerStep, Post, PostToCurSession, TypeOK
<1>4. CASE WorkerStep
  <2>1. CASE WorkerLoop \/ WorkerLeave \/ WorkerSearch \/ WorkerSkip \/ WorkerSpin
    BY <2>1 DEF WorkerLoop, WorkerLeave, WorkerSearch, WorkerSkip, WorkerSpin, Awake,
       Closing, NobodyStops
  <2>2. CASE WorkerTake
    <3>1. (mTasks # <<>> /\ ~mExit) \/ ~NobodyStops
      BY <2>2 DEF WorkerTake, Closing
    <3>2. worker \in {"fetch", "search"} /\ worker' = "run"
      BY <2>2 DEF WorkerTake, Found
    <3> QED
      BY <2>2, <3>1, <3>2 DEF WorkerTake, Closing, NobodyStops
  <2>3. CASE WorkerRun \/ WorkerUnwind \/ WorkerSelfStop
    BY <2>3 DEF WorkerRun, WorkerUnwind, WorkerSelfStop, Closing, NobodyStops
  <2>4. CASE WorkerSelfFlush
    BY <2>4 DEF WorkerSelfFlush, DiscardAll, Closing
  <2> QED
    BY <1>4, <2>1, <2>2, <2>3, <2>4 DEF WorkerStep
<1>5. CASE IncNextSession \/ IncCurSession \/ ClearSession
  BY <1>1, <1>5 DEF IncNextSession, IncCurSession, ClearSession
<1> QED
  BY <1>1, <1>3, <1>4, <1>5 DEF Next, poolVars

\* The states of a package that the list has not (or never) taken.
Outside == {"new", "made", "refused"}

\* The list stays in the order of acceptance: push appends to both, erase keeps
\* the order of the rest, flush empties it.
LEMMA OrderStep ==
  ASSUME TypeOK, QueueConsistent, References, Progress, Order, [Next]_poolVars
  PROVE  Order'
<1> USE PoolAssumption DEF listVars, sessionVars, searchVars
<1>1. ASSUME UNCHANGED accepted, mTasks' = mTasks \/ mTasks' = <<>>,
             \A t \in Tasks : status'[t] \in Outside <=> status[t] \in Outside
      PROVE  Order'
  BY <1>1 DEF Order, Outside, ToSet
<1>2. ASSUME NEW c \in Callers, NEW t \in Tasks, NEW session \in 0..MaxSession,
             Make(c, t, session)
      PROVE  Order'
  BY <1>1, <1>2 DEF Make, Outside, TypeOK
<1>3. ASSUME NEW c \in Callers, PushRefuse(c)
      PROVE  Order'
  <2>1. package[c] \in Tasks /\ status[package[c]] = "made"
    BY <1>3 DEF PushRefuse, References, Progress, TypeOK
  <2> QED
    BY <1>1, <1>3, <2>1 DEF PushRefuse, Outside, TypeOK
<1>4. ASSUME NEW c \in Callers, PushAccept(c)
      PROVE  Order'
  <2> DEFINE new == package[c]
  <2>1. new \in Tasks /\ status[new] = "made"
    BY <1>4 DEF PushAccept, References, Progress, TypeOK
  <2>2. new \notin ToSet(accepted) /\ new \notin ToSet(mTasks)
    BY <2>1 DEF Order, QueueConsistent
  <2>3. /\ accepted' = Append(accepted, new) /\ mTasks' = Append(mTasks, new)
        /\ \A t \in Tasks : status'[t] = IF t = new THEN "queued" ELSE status[t]
    BY <1>4, <2>1 DEF PushAccept, TypeOK
  <2>4. Injective(accepted') /\ ToSet(accepted') = ToSet(accepted) \union {new}
    <3>1. accepted \in Seq(Tasks) /\ Injective(accepted)
      BY DEF TypeOK, Order, Injective
    <3> HIDE DEF new
    <3> QED
      BY <2>1, <2>2, <2>3, <3>1, AppendKeepsInjective
  <2>5. /\ DOMAIN accepted = 1..Len(accepted) /\ Len(accepted) \in Nat
        /\ DOMAIN accepted' = 1..(Len(accepted) + 1)
        /\ \A p \in 1..Len(accepted) : accepted'[p] = accepted[p] /\ accepted[p] # new
        /\ accepted'[Len(accepted) + 1] = new
    BY <2>1, <2>2, <2>3, AppendProperties, LenProperties DEF TypeOK, ToSet
  <2>6. /\ DOMAIN mTasks = 1..Len(mTasks) /\ Len(mTasks) \in Nat
        /\ DOMAIN mTasks' = 1..(Len(mTasks) + 1)
        /\ \A i \in 1..Len(mTasks) : mTasks'[i] = mTasks[i] /\ mTasks[i] # new
        /\ mTasks'[Len(mTasks) + 1] = new
    BY <2>1, <2>2, <2>3, AppendProperties, LenProperties DEF TypeOK, ToSet
  <2>7. ASSUME NEW i \in DOMAIN mTasks', NEW j \in DOMAIN mTasks',
               NEW p \in DOMAIN accepted', NEW q \in DOMAIN accepted',
               accepted'[p] = mTasks'[i], accepted'[q] = mTasks'[j], i < j
        PROVE  p < q
    <3> HIDE DEF new
    <3>1. i \in 1..Len(mTasks) /\ p \in 1..Len(accepted)
      BY <2>5, <2>6, <2>7
    <3>2. CASE j = Len(mTasks) + 1
      <4>1. q = Len(accepted) + 1
        BY <2>5, <2>6, <2>7, <3>2
      <4> QED
        BY <2>5, <3>1, <4>1
    <3>3. CASE j # Len(mTasks) + 1
      <4>1. j \in 1..Len(mTasks) /\ q \in 1..Len(accepted)
        BY <2>5, <2>6, <2>7, <3>3
      <4>2. accepted[p] = mTasks[i] /\ accepted[q] = mTasks[j]
        BY <2>5, <2>6, <2>7, <3>1, <4>1
      <4> QED
        BY <2>5, <2>6, <2>7, <3>1, <4>1, <4>2 DEF Order
    <3> QED
      BY <3>2, <3>3
  <2>8. \A t \in Tasks : t \in ToSet(accepted') <=> status'[t] \notin Outside
    BY <2>1, <2>3, <2>4 DEF Order, Outside
  <2> QED
    BY <2>4, <2>7, <2>8 DEF Order, Outside, Injective
<1>5. ASSUME DiscardAll, UNCHANGED accepted
      PROVE  Order'
  <2>1. \A t \in Tasks : status'[t] \in Outside <=> status[t] \in Outside
    BY <1>5 DEF DiscardAll, QueueConsistent, Outside
  <2> QED
    BY <1>1, <1>5, <2>1 DEF DiscardAll
<1>6. CASE WorkerTake
  <2>1. PICK k \in DOMAIN mTasks :
          /\ mTasks' = RemoveAt(mTasks, k)
          /\ status' = [status EXCEPT ![mTasks[k]] = "running"]
    BY <1>6 DEF WorkerTake
  <2>2. mTasks[k] \in Tasks /\ status[mTasks[k]] = "queued" /\ k \in 1..Len(mTasks)
    BY DEF TypeOK, QueueConsistent, ToSet
  <2>3. \A t \in Tasks : status'[t] \in Outside <=> status[t] \in Outside
    BY <2>1, <2>2 DEF TypeOK, Outside
  <2> DEFINE old(i) == IF i < k THEN i ELSE i + 1
  <2>4. /\ DOMAIN mTasks' = 1..(Len(mTasks) - 1) /\ DOMAIN mTasks = 1..Len(mTasks)
        /\ Len(mTasks) \in Nat
        /\ \A i \in 1..(Len(mTasks) - 1) : mTasks'[i] = mTasks[old(i)]
    <3>1. mTasks \in Seq(Tasks)
      BY DEF TypeOK
    <3>2. /\ mTasks' \in Seq(Tasks) /\ Len(mTasks') = Len(mTasks) - 1
          /\ \A i \in 1..(Len(mTasks) - 1) : mTasks'[i] = mTasks[old(i)]
      BY <2>1, <2>2, <3>1, RemoveAtProperties
    <3> QED
      BY <3>1, <3>2, LenProperties
  <2>5. \A i, j \in DOMAIN mTasks' : old(i) \in DOMAIN mTasks /\ (i < j => old(i) < old(j))
    BY <2>2, <2>4
  <2> HIDE DEF old
  <2>6. \A i, j \in DOMAIN mTasks' : \A p, q \in DOMAIN accepted :
          accepted[p] = mTasks'[i] /\ accepted[q] = mTasks'[j] /\ i < j => p < q
    BY <2>4, <2>5 DEF Order
  <2> QED
    BY <1>6, <2>3, <2>6 DEF WorkerTake, Order, Outside
<1>7. CASE WorkerRun
  <2>1. running \in Tasks /\ status[running] = "running"
    BY <1>7 DEF WorkerRun, References, Progress, TypeOK
  <2> QED
    BY <1>1, <1>7, <2>1 DEF WorkerRun, Outside, TypeOK
<1>8. ASSUME NEW c \in Callers, CallerStep(c)
      PROVE  Order'
  BY <1>1, <1>2, <1>3, <1>4, <1>5, <1>8
  DEF CallerStep, Post, PostToCurSession, Return, Flush, StopBegin, StopJoin, StopFlush,
      TypeOK
<1>9. CASE WorkerStep
  BY <1>1, <1>5, <1>6, <1>7, <1>9
  DEF WorkerStep, WorkerLoop, WorkerLeave, WorkerSearch, WorkerSkip, WorkerSpin,
      WorkerSelfStop, WorkerSelfFlush, WorkerUnwind
<1>10. CASE IncNextSession \/ IncCurSession \/ ClearSession
  BY <1>1, <1>10 DEF IncNextSession, IncCurSession, ClearSession
<1> QED
  BY <1>1, <1>8, <1>9, <1>10 DEF Next, poolVars

\* The list and its packages stay as they are while the worker searches it, and
\* a change of the session is noted.
LEMMA SearchStep ==
  ASSUME TypeOK, QueueConsistent, Searching, [Next]_poolVars
  PROVE  Searching'
<1> USE PoolAssumption DEF listVars, sessionVars, searchVars
<1>1. CASE UNCHANGED <<mTasks, mSession, mCurSession, worker, at, moved, disturbed>>
  BY <1>1 DEF Searching
<1>2. ASSUME worker # "search", worker' # "search", UNCHANGED searchVars
      PROVE  Searching'
  BY <1>2 DEF Searching
<1>3. ASSUME NEW c \in Callers, NEW t \in Tasks, NEW session \in 0..MaxSession,
             Make(c, t, session)
      PROVE  Searching'
  <2>1. status[t] = "new" /\ t \notin ToSet(mTasks)
    BY <1>3 DEF Make, QueueConsistent
  <2>2. \A j \in DOMAIN mTasks : mSession'[mTasks[j]] = mSession[mTasks[j]]
    BY <1>3, <2>1 DEF Make, TypeOK, ToSet
  <2>3. UNCHANGED <<mTasks, mCurSession, worker, at, moved, disturbed>>
    BY <1>3 DEF Make
  <2>4. worker = "search" => \A j \in 1..(at - 1) : j \in DOMAIN mTasks
    BY LenProperties DEF Searching, TypeOK
  <2> QED
    BY <2>2, <2>3, <2>4 DEF Searching
<1>4. ASSUME NEW c \in Callers, CallerStep(c)
      PROVE  Searching'
  <2>1. CASE Return(c) \/ StopJoin(c)
    BY <1>1, <2>1 DEF Return, StopJoin
  <2>2. CASE PushAccept(c) \/ PushRefuse(c) \/ Flush(c) \/ StopBegin(c) \/ StopFlush(c)
    BY <1>2, <2>2 DEF PushAccept, PushRefuse, Flush, StopBegin, StopFlush, Unlocked
  <2> QED
    BY <1>3, <1>4, <2>1, <2>2 DEF CallerStep, Post, PostToCurSession, TypeOK
<1>5. CASE IncNextSession
  BY <1>1, <1>5 DEF IncNextSession
<1>6. CASE IncCurSession \/ ClearSession
  <2>1. UNCHANGED <<mTasks, mSession, worker, at, disturbed>> /\ SessionMoves
    BY <1>6 DEF IncCurSession, ClearSession
  <2> QED
    BY <2>1 DEF Searching, SessionMoves, TypeOK
<1>7. CASE WorkerLoop \/ WorkerLeave \/ WorkerRun \/ WorkerSelfStop \/ WorkerSelfFlush
           \/ WorkerUnwind
  BY <1>2, <1>7 DEF WorkerLoop, WorkerLeave, WorkerRun, WorkerSelfStop, WorkerSelfFlush,
     WorkerUnwind
<1>8. CASE WorkerSearch
  <2>1. Len(mTasks) \in Nat
    BY LenProperties DEF TypeOK
  <2>2. SessionMode /\ worker' = "search" /\ at' = 1 /\ ~moved
        /\ UNCHANGED <<mTasks, mSession, mCurSession, moved, disturbed>>
    BY <1>8 DEF WorkerSearch, Searching
  <2> QED
    BY <2>1, <2>2 DEF Searching
<1>9. CASE WorkerSkip
  <2>1. Len(mTasks) \in Nat /\ DOMAIN mTasks = 1..Len(mTasks)
    BY LenProperties DEF TypeOK
  <2>2. /\ worker = "search" /\ at \in DOMAIN mTasks /\ at' = at + 1
        /\ mSession[mTasks[at]] # mCurSession
        /\ UNCHANGED <<mTasks, mSession, mCurSession, worker, moved, disturbed>>
    BY <1>9 DEF WorkerSkip, Eligible
  <2>3. \A j \in 1..(at' - 1) : j \in 1..(at - 1) \/ j = at
    BY <2>1, <2>2
  <2>4. at' \in 1..(Len(mTasks) + 1)
    BY <2>1, <2>2
  <2> QED
    BY <2>2, <2>3, <2>4 DEF Searching
<1>10. CASE WorkerTake
  <2>1. worker' = "run" /\ at' = 0 /\ ~moved'
    BY <1>10 DEF WorkerTake
  <2>2. ~SessionMode => disturbed' = disturbed
    BY <1>10 DEF WorkerTake, Searching
  <2> QED
    BY <2>1, <2>2 DEF Searching
<1>11. CASE WorkerSpin
  BY <1>11 DEF WorkerSpin, Searching
<1>12. CASE UNCHANGED poolVars
  BY <1>1, <1>12 DEF poolVars
<1> QED
  BY <1>4, <1>5, <1>6, <1>7, <1>8, <1>9, <1>10, <1>11, <1>12 DEF Next, WorkerStep

\* An undisturbed search takes the first package of the session, so it
\* overtakes none.
LEMMA FifoStep ==
  ASSUME TypeOK, QueueConsistent, References, Progress, Order, Searching,
         FifoWithinSession, [Next]_poolVars
  PROVE  FifoWithinSession'
<1> USE PoolAssumption DEF listVars, sessionVars, searchVars
<1> DEFINE Started(t) == status[t] \in {"running", "done"}
<1>1. ASSUME UNCHANGED <<accepted, mSession, disturbed>>,
             \A t \in Tasks : /\ status'[t] \in {"running", "done"} => Started(t)
                              /\ status'[t] = "queued" => status[t] = "queued"
      PROVE  FifoWithinSession'
  BY <1>1 DEF FifoWithinSession, TypeOK
<1>2. ASSUME NEW c \in Callers, NEW t \in Tasks, NEW session \in 0..MaxSession,
             Make(c, t, session)
      PROVE  FifoWithinSession'
  <2>1. status[t] = "new" /\ t \notin ToSet(accepted)
    BY <1>2 DEF Make, Order
  <2>2. \A i \in DOMAIN accepted :
          /\ accepted[i] \in Tasks \ {t}
          /\ mSession'[accepted[i]] = mSession[accepted[i]]
          /\ status'[accepted[i]] = status[accepted[i]]
    BY <1>2, <2>1 DEF Make, TypeOK, ToSet
  <2> QED
    BY <1>2, <2>2 DEF Make, FifoWithinSession
<1>3. ASSUME NEW c \in Callers, PushAccept(c)
      PROVE  FifoWithinSession'
  <2>1. package[c] \in Tasks
    BY <1>3 DEF PushAccept, References, TypeOK
  <2>2. status[package[c]] = "made" /\ package[c] \notin ToSet(accepted)
    BY <1>3, <2>1 DEF PushAccept, Progress, Order
  <2>3. /\ DOMAIN accepted = 1..Len(accepted) /\ Len(accepted) \in Nat
        /\ DOMAIN accepted' = 1..(Len(accepted) + 1)
        /\ \A p \in 1..Len(accepted) : accepted'[p] = accepted[p] /\ accepted[p] # package[c]
        /\ accepted'[Len(accepted) + 1] = package[c]
    BY <1>3, <2>1, <2>2, AppendProperties, LenProperties DEF PushAccept, TypeOK, ToSet
  <2>4. /\ status'[package[c]] = "queued" /\ UNCHANGED <<mSession, disturbed>>
        /\ \A t \in Tasks : t # package[c] => status'[t] = status[t]
    BY <1>3, <2>1 DEF PushAccept, TypeOK
  <2>5. ASSUME NEW i \in DOMAIN accepted', NEW j \in DOMAIN accepted', i < j,
               mSession'[accepted'[i]] = mSession'[accepted'[j]],
               status'[accepted'[j]] \in {"running", "done"},
               accepted'[j] \notin disturbed'
        PROVE  status'[accepted'[i]] # "queued"
    <3>1. j \in 1..Len(accepted) /\ i \in 1..Len(accepted)
      BY <2>3, <2>4, <2>5
    <3>2. accepted[i] \in Tasks /\ accepted[j] \in Tasks
      BY <3>1 DEF TypeOK
    <3> QED
      BY <2>3, <2>4, <2>5, <3>1, <3>2 DEF FifoWithinSession
  <2> QED
    BY <2>5 DEF FifoWithinSession
<1>4. ASSUME DiscardAll, UNCHANGED <<accepted, mSession, disturbed>>
      PROVE  FifoWithinSession'
  BY <1>1, <1>4 DEF DiscardAll
<1>5. CASE WorkerTake
  <2>1. PICK k \in DOMAIN mTasks :
          /\ Found(k)
          /\ status' = [status EXCEPT ![mTasks[k]] = "running"]
          /\ disturbed' = IF moved THEN disturbed \union {mTasks[k]} ELSE disturbed
    BY <1>5 DEF WorkerTake
  <2>2. mTasks[k] \in Tasks /\ accepted' = accepted /\ mSession' = mSession
    BY <1>5 DEF WorkerTake, TypeOK
  <2>3. \A t \in Tasks : status'[t] = IF t = mTasks[k] THEN "running" ELSE status[t]
    BY <2>1, <2>2 DEF TypeOK
  <2>4. ASSUME NEW i \in DOMAIN accepted, NEW j \in DOMAIN accepted, i < j,
               mSession[accepted[i]] = mSession[accepted[j]],
               status'[accepted[j]] \in {"running", "done"},
               accepted[j] \notin disturbed'
        PROVE  status'[accepted[i]] # "queued"
    <3>1. accepted[i] \in Tasks /\ accepted[j] \in Tasks
      BY DEF TypeOK
    <3>2. CASE accepted[j] # mTasks[k]
      BY <2>1, <2>3, <2>4, <3>1, <3>2 DEF FifoWithinSession
    <3>3. CASE accepted[j] = mTasks[k]
      <4> SUFFICES ASSUME status[accepted[i]] = "queued"
                   PROVE  FALSE
        BY <2>3, <3>1
      <4>1. PICK m \in DOMAIN mTasks : mTasks[m] = accepted[i]
        BY <3>1 DEF QueueConsistent, ToSet
      <4>2. accepted[i] # accepted[j]
        BY <2>4 DEF Order, TypeOK
      <4>3. m < k
        BY <2>4, <3>3, <4>1, <4>2 DEF Order, TypeOK
      <4>4. m \in 1..(k - 1)
        BY <2>1, <4>1, <4>3, LenProperties DEF TypeOK
      <4>5. k # 1
        BY <4>4
      <4>6. worker = "search" /\ k = at /\ Eligible(k)
        BY <2>1, <4>5 DEF Found
      <4>7. ~moved
        BY <2>1, <2>4, <3>3
      <4>8. mSession[mTasks[m]] # mCurSession
        BY <4>4, <4>6, <4>7 DEF Searching
      <4> QED
        BY <2>4, <3>3, <4>1, <4>6, <4>8 DEF Eligible
    <3> QED
      BY <3>2, <3>3
  <2> QED
    BY <2>2, <2>4 DEF FifoWithinSession
<1>6. CASE WorkerRun
  <2>1. running \in Tasks /\ status[running] = "running"
    BY <1>6 DEF WorkerRun, References, Progress, TypeOK
  <2> QED
    BY <1>1, <1>6, <2>1 DEF WorkerRun, TypeOK
<1>7. ASSUME NEW c \in Callers, CallerStep(c)
      PROVE  FifoWithinSession'
  <2>1. CASE PushRefuse(c)
    BY <1>1, <2>1 DEF PushRefuse, TypeOK
  <2> QED
    BY <1>1, <1>2, <1>3, <1>4, <1>7, <2>1
    DEF CallerStep, Post, PostToCurSession, Return, Flush, StopBegin, StopJoin,
        StopFlush, TypeOK
<1>8. CASE WorkerStep
  BY <1>1, <1>4, <1>5, <1>6, <1>8
  DEF WorkerStep, WorkerLoop, WorkerLeave, WorkerSearch, WorkerSkip, WorkerSpin,
      WorkerSelfStop, WorkerSelfFlush, WorkerUnwind
<1>9. CASE IncNextSession \/ IncCurSession \/ ClearSession
  BY <1>1, <1>9 DEF IncNextSession, IncCurSession, ClearSession
<1> QED
  BY <1>1, <1>7, <1>8, <1>9 DEF Next, poolVars

-----------------------------------------------------------------------------
(* Theorems.                                                               *)

\* Every reachable state of the pool satisfies the inductive invariant.
THEOREM Invariance == Spec => []IndInv
<1>1. Init => IndInv
  BY InitInv
<1>2. IndInv /\ [Next]_poolVars => IndInv'
  BY TypeStep, QueueStep, ReferencesStep, ProgressStep, NotifiedStep, ClosingStep,
     OrderStep, SearchStep, FifoStep DEF IndInv
<1> QED
  BY <1>1, <1>2, PTL DEF Spec

\* The variables keep their types; in particular notify (the component's
\* decrement of mPendingFlushCount) runs at most once per package.
THEOREM TypeCorrect == Spec => []TypeOK
BY Invariance, PTL DEF IndInv

\* The list holds the queued packages, each once, whatever flush(), stop() and
\* the worker do at the same time.
THEOREM QueueCorrect == Spec => []QueueConsistent
BY Invariance, PTL DEF IndInv

\* notify runs exactly when the last reference to a package is dropped, by
\* whichever thread that is.
THEOREM NotifyCorrect == Spec => []NotifiedOnce
BY Invariance, PTL DEF IndInv

\* Packages of one session start in the order in which they were accepted, but
\* for those that were found by a search during which the current session
\* changed: getCur() is read for each package of the list.
THEOREM FifoCorrect == Spec => []FifoWithinSession
BY Invariance, PTL DEF IndInv

\* The pools of the filters and of the codecs have no sessions: theirs start
\* their packages strictly in the order in which they were accepted.
THEOREM PlainPoolIsFifo == Spec => [](~SessionMode => StrictFifo)
<1>1. IndInv => (~SessionMode => StrictFifo)
  BY DEF IndInv, Searching, FifoWithinSession, StrictFifo
<1> QED
  BY <1>1, Invariance, PTL

\* When the worker is gone and no stop() is running, no accepted package waits:
\* nobody is left waiting on its future.
THEOREM StopCorrect == Spec => []StoppedPoolIsEmpty
<1>1. IndInv => StoppedPoolIsEmpty
  BY DEF IndInv, Closing, StoppedPoolIsEmpty
<1> QED
  BY <1>1, Invariance, PTL

-----------------------------------------------------------------------------

(* The pool implements TaskContract.                                       *)

\* How one step can change the state of a package.
StatusStep(t) ==
  \/ status'[t] = status[t]
  \/ status[t] = "new" /\ status'[t] = "made"
  \/ status[t] = "made" /\ status'[t] = "queued" /\ ~mExit
  \/ status[t] = "made" /\ status'[t] = "refused" /\ mExit
  \/ status[t] = "queued" /\ status'[t] \in {"running", "discarded"}
  \/ status[t] = "running" /\ status'[t] = "done"

\* Packages are accepted only before, and refused only after, mExit is set, and
\* only accepted ones are run or discarded.
LEMMA StatusSteps ==
  ASSUME IndInv, [Next]_poolVars
  PROVE  (mExit => mExit') /\ \A t \in Tasks : StatusStep(t)
<1> USE PoolAssumption DEF listVars, sessionVars, searchVars
<1>1. TypeOK /\ QueueConsistent /\ References /\ Progress
  BY DEF IndInv
<1>2. ASSUME NEW c \in Callers, PushAccept(c) \/ PushRefuse(c)
      PROVE  (mExit => mExit') /\ \A t \in Tasks : StatusStep(t)
  <2>1. package[c] \in Tasks /\ status[package[c]] = "made"
    BY <1>1, <1>2 DEF PushAccept, PushRefuse, References, Progress, TypeOK
  <2> QED
    BY <1>1, <1>2, <2>1 DEF PushAccept, PushRefuse, StatusStep, TypeOK
<1>3. ASSUME DiscardAll
      PROVE  \A t \in Tasks : StatusStep(t)
  BY <1>1, <1>3 DEF DiscardAll, QueueConsistent, StatusStep
<1>4. CASE WorkerTake
  <2>1. PICK i \in DOMAIN mTasks : status' = [status EXCEPT ![mTasks[i]] = "running"]
    BY <1>4 DEF WorkerTake
  <2>2. mTasks[i] \in Tasks /\ status[mTasks[i]] = "queued"
    BY <1>1 DEF TypeOK, QueueConsistent, ToSet
  <2> QED
    BY <1>1, <1>4, <2>1, <2>2 DEF WorkerTake, StatusStep, TypeOK
<1>5. CASE WorkerRun
  <2>1. running \in Tasks /\ status[running] = "running"
    BY <1>1, <1>5 DEF WorkerRun, References, Progress, TypeOK
  <2> QED
    BY <1>1, <1>5, <2>1 DEF WorkerRun, StatusStep, TypeOK
<1>6. ASSUME NEW c \in Callers, NEW t \in Tasks, NEW session \in 0..MaxSession,
             Make(c, t, session)
      PROVE  (mExit => mExit') /\ \A u \in Tasks : StatusStep(u)
  BY <1>1, <1>6 DEF Make, StatusStep, TypeOK
<1>7. ASSUME NEW c \in Callers, CallerStep(c)
      PROVE  (mExit => mExit') /\ \A t \in Tasks : StatusStep(t)
  <2>1. CASE Flush(c) \/ StopFlush(c)
    BY <1>3, <2>1 DEF Flush, StopFlush
  <2>2. CASE Return(c) \/ StopBegin(c) \/ StopJoin(c)
    BY <2>2 DEF Return, StopBegin, StopJoin, StatusStep
  <2> QED
    BY <1>1, <1>2, <1>6, <1>7, <2>1, <2>2
    DEF CallerStep, Post, PostToCurSession, TypeOK
<1>8. CASE WorkerStep
  <2>1. CASE WorkerSelfFlush
    BY <1>3, <2>1 DEF WorkerSelfFlush
  <2>2. CASE WorkerLoop \/ WorkerLeave \/ WorkerSearch \/ WorkerSkip \/ WorkerSpin
             \/ WorkerSelfStop \/ WorkerUnwind
    BY <2>2 DEF WorkerLoop, WorkerLeave, WorkerSearch, WorkerSkip, WorkerSpin,
       WorkerSelfStop, WorkerUnwind, StatusStep
  <2> QED
    BY <1>4, <1>5, <1>8, <2>1, <2>2 DEF WorkerStep
<1>9. CASE IncNextSession \/ IncCurSession \/ ClearSession \/ UNCHANGED poolVars
  BY <1>9 DEF IncNextSession, IncCurSession, ClearSession, poolVars, StatusStep
<1> QED
  BY <1>7, <1>8, <1>9 DEF Next

\* A step notifies a package that was not notified before, or does not.
LEMMA NotifySteps ==
  ASSUME IndInv, [Next]_poolVars
  PROVE  \A t \in Tasks : notified'[t] = notified[t] \/ (notified[t] = 0 /\ notified'[t] = 1)
<1> USE DEF listVars, sessionVars, searchVars
<1>1. ASSUME NEW S, NEW h, Release(S, h)
      PROVE  \A t \in Tasks :
               notified'[t] = notified[t] \/ (notified[t] = 0 /\ notified'[t] = 1)
  BY <1>1 DEF Release, IndInv, NotifiedOnce
<1>2. ASSUME NEW c \in Callers, CallerStep(c)
      PROVE  notified' = notified \/ \E S, h : Release(S, h)
  BY <1>2 DEF CallerStep, Post, PostToCurSession, Make, PushAccept, PushRefuse, Return,
     Flush, StopBegin, StopJoin, StopFlush, DiscardAll
<1>3. CASE WorkerStep
  <2>1. notified' = notified \/ \E S, h : Release(S, h)
    BY <1>3 DEF WorkerStep, WorkerLoop, WorkerLeave, WorkerSearch, WorkerSkip, WorkerTake,
       WorkerSpin, WorkerRun, WorkerSelfStop, WorkerSelfFlush, WorkerUnwind, DiscardAll
  <2> QED
    BY <1>1, <2>1
<1>4. CASE IncNextSession \/ IncCurSession \/ ClearSession \/ UNCHANGED poolVars
  BY <1>4 DEF IncNextSession, IncCurSession, ClearSession, poolVars
<1> QED
  BY <1>1, <1>2, <1>3, <1>4 DEF Next

\* A notified package was run, discarded or refused.
SettledWhenNotified ==
  \A t \in Tasks : notified[t] = 1 => status[t] \in {"done", "discarded", "refused"}

\* A package without references is neither waiting nor running.
LEMMA NotifiedIsSettled == IndInv => SettledWhenNotified
<1> SUFFICES ASSUME IndInv, NEW t \in Tasks, notified[t] = 1
             PROVE  status[t] \in {"done", "discarded", "refused"}
  BY DEF SettledWhenNotified
<1>1. status[t] # "new" /\ holders[t] = {}
  BY DEF IndInv, NotifiedOnce
<1>2. status[t] # "queued"
  BY <1>1 DEF IndInv, QueueConsistent
<1>3. status[t] # "made" /\ status[t] # "running"
  BY <1>1 DEF IndInv, References, Progress
<1> QED
  BY <1>1, <1>2, <1>3 DEF IndInv, TypeOK, Status

\* Every behaviour of the pool, with its list, sessions, references and threads,
\* is one of the contract its users rely on.
THEOREM Refinement == Spec => ImplementsContract
<1>1. Init => Contract!Init
  BY DEF Init, Contract!Init, outcomeOf
<1>2. IndInv' => SettledWhenNotified'
  BY NotifiedIsSettled, PTL
<1>3. IndInv /\ IndInv' /\ [Next]_poolVars => [Contract!Next]_(Contract!contractVars)
  <2> SUFFICES ASSUME IndInv, IndInv', [Next]_poolVars
               PROVE  Contract!Next
    OBVIOUS
  <2>1. mExit => mExit'
    BY StatusSteps
  <2>2. DOMAIN outcomeOf' = Tasks /\ DOMAIN notified' = Tasks
    BY DEF outcomeOf, IndInv, TypeOK
  <2>3. ASSUME NEW t \in Tasks
        PROVE  Contract!OutcomeStep(t)
    <3>1. StatusStep(t) /\ status[t] \in Status /\ status'[t] \in Status
      BY StatusSteps DEF IndInv, TypeOK
    <3> QED
      BY <3>1 DEF StatusStep, Status, outcomeOf, Contract!OutcomeStep
  <2>4. ASSUME NEW t \in Tasks
        PROVE  Contract!NotifyStep(t)
    <3>1. notified'[t] = notified[t] \/ (notified[t] = 0 /\ notified'[t] = 1)
      BY NotifySteps
    <3>2. notified'[t] = 1 => outcomeOf'[t] \in {"run", "discarded", "refused"}
      BY <1>2 DEF SettledWhenNotified, outcomeOf
    <3> QED
      BY <3>1, <3>2 DEF Contract!NotifyStep, Contract!Settled
  <2> QED
    BY <2>1, <2>2, <2>3, <2>4 DEF Contract!Next
<1> QED
  BY <1>1, <1>3, Invariance, PTL DEF Spec, ImplementsContract, Contract!Spec
=============================================================================
