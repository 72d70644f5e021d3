-------------------------- MODULE CodecFilterProofs --------------------------
(* The theorems about CodecFilter: its types, that the driver's buffers are  *)
(* waited for, that a flush leaves nothing of the inputs it took and none of *)
(* them is answered later, and that no other input is forgotten.             *)
EXTENDS CodecFilter, QueueLemmas

-----------------------------------------------------------------------------
(***************************************************************************)
(* What each step of CodecFilter does to the tasks waiting in the pools of *)
(* its five threads: which threads' pools it leaves alone, and how many    *)
(* tasks of each name it posts and takes.  The proofs about the filter     *)
(* argue with these facts and never open a pool.                           *)
(***************************************************************************)

\* The tasks there are: those about one work carry its input.
Tasks == {x \in [op : Ops, in : 0..NumInputs] : x.in # None <=> x.op \in {"work", "done", "in"}}

\* What the pools of the threads may hold.
Pools == [Threads -> Seq(Tasks)]

\* Those of one name.
Named(op) == {x \in Tasks : x.op = op}

\* The requests for output buffers and the answers of works are counted by none
\* of the properties.
Counted == Ops \ {"fill", "done"}

\* Before the step and after it, apart from the requests for output buffers.
SameTasks(p, q) ==
  /\ \A t \in Threads \ {"A"} : q[t] = p[t]
  /\ \A t \in Threads : \A op \in Counted : Pending(q, t, op) = Pending(p, t, op)

\* The step leaves the pools of these threads alone.
Keeps(threads) == \A t \in threads : pool'[t] = pool[t]

\* It posts a task of each name in plus to its thread, and takes one of each in
\* minus.
Moved(p, q, plus, minus) ==
  \A t \in Threads : \A op \in Counted :
    Pending(q, t, op) = Pending(p, t, op) + (IF <<t, op>> \in plus THEN 1 ELSE 0)
                                          - (IF <<t, op>> \in minus THEN 1 ELSE 0)

\* The same, of this step.
Moves(plus, minus) == Moved(pool, pool', plus, minus)

\* The pools hold tasks.
Carried == pool \in Pools

\* E is in the loop of doPipeInputEnqueue() only with an input to give.
Pipe == phase["E"] = "pipe" => mPipeInputs # <<>> /\ left > 0

----------------------------------------------------------------------------
(* What is done to the pools p to make them q. *)

\* Task x is posted to thread t.
Posted(p, t, x) == [p EXCEPT ![t] = Append(@, x)]
\* The pools q are p with x posted to thread t; the counts of tasks say so too.
Posts(p, q, t, x) ==
  /\ q \in Pools /\ q[t] = Append(p[t], x) /\ \A u \in Threads \ {t} : q[u] = p[u]
  /\ \A u \in Threads : \A op :
       Pending(q, u, op) = Pending(p, u, op) + (IF u = t /\ x.op = op THEN 1 ELSE 0)

\* The same, as the number of the tasks of its name tells it.
PostsOne(p, q, t, x) ==
  /\ q \in Pools /\ Moved(p, q, {<<t, x.op>>}, {})
  /\ q[t] = Append(p[t], x) /\ \A u \in Threads \ {t} : q[u] = p[u]

\* The first task of thread t is taken.
Takes(p, q, t) ==
  /\ q \in Pools /\ q[t] = Tail(p[t]) /\ \A u \in Threads \ {t} : q[u] = p[u]
  /\ Head(p[t]) \in Tasks
  /\ \A u \in Threads : \A op :
       Pending(q, u, op) = Pending(p, u, op) - (IF u = t /\ Head(p[t]).op = op THEN 1 ELSE 0)

\* The first task of thread t, of name op, is taken, and task x is posted to u.
TakesAndPosts(p, q, t, op, u, x) ==
  /\ q \in Pools /\ Moved(p, q, {<<u, x.op>>}, {<<t, op>>})
  /\ q[u] = Append(IF u = t THEN Tail(p[t]) ELSE p[u], x)
  /\ u # t => q[t] = Tail(p[t])
  /\ \A v \in Threads \ {t, u} : q[v] = p[v]

\* The tasks of thread t are dropped, and s is what it has instead.
Drops(p, q, t, s) ==
  /\ q \in Pools /\ q[t] = s /\ \A u \in Threads \ {t} : q[u] = p[u]
  /\ \A u \in Threads \ {t} : \A op : Pending(q, u, op) = Pending(p, u, op)
  /\ \A op : Pending(q, t, op) = (IF s # <<>> /\ s[1].op = op THEN 1 ELSE 0)

----------------------------------------------------------------------------
(* The tasks of one name in a pool, and what the steps are made of. *)

\* A task about no work, and one about a work.
LEMMA TasksAre ==
  /\ \A op \in Ops \ {"work", "done", "in"} : Task(op) \in Tasks
  /\ \A op \in {"work", "done", "in"}, i \in Inputs : Work(op, i) \in Tasks
<1>1. NumInputs \in Nat
  BY CodecFilterAssumption
<1>2. ASSUME NEW op \in Ops \ {"work", "done", "in"}
      PROVE  Task(op) \in Tasks
  <2>1. Task(op) \in [op : Ops, in : 0..NumInputs]
    BY <1>1 DEF Task, None
  <2> QED
    BY <2>1, <1>2 DEF Task, Tasks
<1>3. ASSUME NEW op \in {"work", "done", "in"}, NEW i \in Inputs
      PROVE  Work(op, i) \in Tasks
  <2>1. Work(op, i) \in [op : Ops, in : 0..NumInputs] /\ i # None
    BY <1>1 DEF Work, None, Inputs, Ops
  <2> QED
    BY <2>1, <1>3 DEF Work, Tasks
<1> QED
  BY <1>2, <1>3

\* A task about a work carries an input, another task none.
LEMMA TasksCarry ==
  ASSUME NEW x \in Tasks
  PROVE  /\ x.op \in {"work", "done", "in"} => x.in \in Inputs /\ x = Work(x.op, x.in)
         /\ x.op \notin {"work", "done", "in"} => x.in = None
<1>1. x \in [op : Ops, in : 0..NumInputs] /\ (x.in # None <=> x.op \in {"work", "done", "in"})
  BY DEF Tasks
<1>2. x = Work(x.op, x.in)
  BY <1>1 DEF Work
<1>3. NumInputs \in Nat
  BY CodecFilterAssumption
<1> QED
  BY <1>1, <1>2, <1>3 DEF None, Inputs

\* The elements of a queue have its type.
LEMMA ElementsTyped ==
  ASSUME NEW T, NEW s \in Seq(T)
  PROVE  \A k \in DOMAIN s : s[k] \in T
  OBVIOUS

\* The first element of a queue has the type of its elements.
LEMMA HeadTyped ==
  ASSUME NEW T, NEW s \in Seq(T), s # <<>>
  PROVE  Head(s) \in T
  OBVIOUS

\* The number of them, as the positions of the elements of a set.
LEMMA PendingPositions ==
  ASSUME NEW p \in Pools, NEW t \in Threads, NEW op
  PROVE  /\ Pending(p, t, op) = Cardinality(Positions(p[t], Named(op)))
         /\ p[t] \in Seq(Tasks)
<1>1. p[t] \in Seq(Tasks)
  BY DEF Pools
<1>2. \A k \in DOMAIN p[t] : p[t][k] \in Tasks
  BY <1>1
<1>3. {k \in DOMAIN p[t] : p[t][k].op = op} = Positions(p[t], Named(op))
  BY <1>2 DEF Positions, Named
<1> QED
  BY <1>1, <1>3 DEF Pending

\* It is a number, and zero when no task has this name.
LEMMA PendingType ==
  ASSUME NEW p \in Pools, NEW t \in Threads, NEW op
  PROVE  /\ Pending(p, t, op) \in Nat
         /\ Pending(p, t, op) = 0 <=> \A k \in DOMAIN p[t] : p[t][k].op # op
<1> DEFINE P == Named(op)
<1>1. Pending(p, t, op) = Cardinality(Positions(p[t], P)) /\ p[t] \in Seq(Tasks)
  BY PendingPositions
<1>2. /\ Cardinality(Positions(p[t], P)) \in Nat
      /\ Cardinality(Positions(p[t], P)) = 0 <=> Positions(p[t], P) = {}
  BY <1>1, PositionsFinite
<1>3. \A k \in DOMAIN p[t] : p[t][k] \in Tasks
  BY <1>1
<1>4. Positions(p[t], P) = {} <=> \A k \in DOMAIN p[t] : p[t][k].op # op
  BY <1>3 DEF Positions, Named
<1> QED
  BY <1>1, <1>2, <1>4

\* It depends on the one pool only.
LEMMA PendingSame ==
  ASSUME NEW p, NEW q, NEW t, q[t] = p[t], NEW op
  PROVE  Pending(q, t, op) = Pending(p, t, op)
  BY DEF Pending

\* Posting a task to thread t.
LEMMA Posting ==
  ASSUME NEW p \in Pools, NEW t \in Threads, NEW x \in Tasks
  PROVE  Posts(p, [p EXCEPT ![t] = Append(@, x)], t, x)
<1> DEFINE q == [p EXCEPT ![t] = Append(@, x)]
<1>1. p[t] \in Seq(Tasks) /\ Append(p[t], x) \in Seq(Tasks)
  BY AppendProperties DEF Pools
<1>2. /\ q \in Pools /\ q[t] = Append(p[t], x)
      /\ \A u \in Threads \ {t} : q[u] = p[u]
  BY <1>1 DEF Pools
<1> HIDE DEF q
<1>3. ASSUME NEW u \in Threads, NEW op
      PROVE  Pending(q, u, op) = Pending(p, u, op) + (IF u = t /\ x.op = op THEN 1 ELSE 0)
  <2>1. Pending(p, u, op) \in Nat
    BY PendingType
  <2>2. CASE u # t
    BY <1>2, <2>1, <2>2, PendingSame
  <2>3. CASE u = t
    <3> DEFINE P == Named(op)
    <3>1. Cardinality(Positions(Append(p[t], x), P))
            = Cardinality(Positions(p[t], P)) + (IF x \in P THEN 1 ELSE 0)
      BY <1>1, PositionsAppend
    <3>2. /\ Pending(q, t, op) = Cardinality(Positions(q[t], P))
          /\ Pending(p, t, op) = Cardinality(Positions(p[t], P))
      BY <1>2, PendingPositions
    <3>3. x \in P <=> x.op = op
      BY DEF Named
    <3> HIDE DEF P
    <3> QED
      BY <1>2, <2>3, <3>1, <3>2, <3>3
  <2> QED
    BY <2>2, <2>3
<1> QED
  BY <1>2, <1>3 DEF q, Posts

\* Taking the first task of thread t.
LEMMA Taking ==
  ASSUME NEW p \in Pools, NEW t \in Threads, p[t] # <<>>
  PROVE  Takes(p, [p EXCEPT ![t] = Tail(@)], t)
<1> DEFINE q == [p EXCEPT ![t] = Tail(@)]
<1>1. p[t] \in Seq(Tasks) /\ Tail(p[t]) \in Seq(Tasks) /\ Head(p[t]) \in Tasks
  BY TailProperties DEF Pools
<1>2. /\ q \in Pools /\ q[t] = Tail(p[t])
      /\ \A u \in Threads \ {t} : q[u] = p[u]
  BY <1>1 DEF Pools
<1> HIDE DEF q
<1>3. ASSUME NEW u \in Threads, NEW op
      PROVE  Pending(q, u, op) = Pending(p, u, op) - (IF u = t /\ Head(p[t]).op = op THEN 1 ELSE 0)
  <2>1. Pending(p, u, op) \in Nat
    BY PendingType
  <2>2. CASE u # t
    BY <1>2, <2>1, <2>2, PendingSame
  <2>3. CASE u = t
    <3> DEFINE P == Named(op)
    <3>1. Cardinality(Positions(Tail(p[t]), P))
            = Cardinality(Positions(p[t], P)) - (IF Head(p[t]) \in P THEN 1 ELSE 0)
      BY <1>1, PositionsTail
    <3>2. /\ Pending(q, t, op) = Cardinality(Positions(q[t], P))
          /\ Pending(p, t, op) = Cardinality(Positions(p[t], P))
      BY <1>2, PendingPositions
    <3>3. Head(p[t]) \in P <=> Head(p[t]).op = op
      BY <1>1 DEF Named
    <3> HIDE DEF P
    <3> QED
      BY <1>2, <2>3, <3>1, <3>2, <3>3
  <2> QED
    BY <2>2, <2>3
<1> QED
  BY <1>1, <1>2, <1>3 DEF q, Takes

\* Dropping the tasks of thread t, all but a new one.
LEMMA Dropping ==
  ASSUME NEW p \in Pools, NEW t \in Threads, NEW s \in {<<>>} \cup {<<x>> : x \in Tasks}
  PROVE  Drops(p, [p EXCEPT ![t] = s], t, s)
<1> DEFINE q == [p EXCEPT ![t] = s]
<1>1. s \in Seq(Tasks) /\ DOMAIN s = (IF s = <<>> THEN {} ELSE {1})
  <2>1. CASE s = <<>>
    BY <2>1, EmptySeq
  <2>2. CASE \E x \in Tasks : s = <<x>>
    BY <2>2
  <2> QED
    BY <2>1, <2>2
<1>2. /\ q \in Pools /\ q[t] = s
      /\ \A u \in Threads \ {t} : q[u] = p[u]
  BY <1>1 DEF Pools
<1> HIDE DEF q
<1>3. ASSUME NEW op
      PROVE  Pending(q, t, op) = (IF s # <<>> /\ s[1].op = op THEN 1 ELSE 0)
  <2>1. CASE s # <<>> /\ s[1].op = op
    <3>1. {k \in DOMAIN s : s[k].op = op} = {1}
      BY <1>1, <2>1
    <3>2. Cardinality({k \in DOMAIN s : s[k].op = op}) = 1
      BY <3>1, FS_Singleton
    <3> QED
      BY <1>2, <2>1, <3>2 DEF Pending
  <2>2. CASE ~(s # <<>> /\ s[1].op = op)
    <3>1. {k \in DOMAIN s : s[k].op = op} = {}
      BY <1>1, <2>2
    <3> QED
      BY <1>2, <2>2, <3>1, FS_EmptySet DEF Pending
  <2> QED
    BY <2>1, <2>2
<1>4. \A u \in Threads \ {t} : \A op : Pending(q, u, op) = Pending(p, u, op)
  BY <1>2, PendingSame
<1> QED
  BY <1>2, <1>3, <1>4 DEF q, Drops

\* Requests for output buffers are nobody else's tasks.
LEMMA Requesting ==
  ASSUME NEW p \in Pools, NEW num \in Nat
  PROVE  Requested(p, num) \in Pools /\ SameTasks(p, Requested(p, num))
<1> DEFINE u == [k \in 1..num |-> Task("fill")]
           q == Requested(p, num)
<1>1. Task("fill") \in Tasks
  BY TasksAre DEF Ops
<1>2. u \in Seq(Tasks) /\ DOMAIN u = 1..num
  <2> DEFINE x == Task("fill")
  <2> HIDE DEF x
  <2>1. [k \in 1..num |-> x] \in Seq(Tasks)
    BY <1>1 DEF x
  <2> QED
    BY <2>1 DEF x
<1>3. p["A"] \in Seq(Tasks) /\ p["A"] \o u \in Seq(Tasks)
  BY <1>2, ConcatProperties DEF Pools, Threads
<1>4. q = [p EXCEPT !["A"] = p["A"] \o u]
  BY DEF Requested
<1>5. \A k \in DOMAIN u : u[k].op = "fill"
  BY <1>2 DEF Task
<1> HIDE DEF u, q
<1>6. /\ q \in Pools /\ q["A"] = p["A"] \o u
      /\ \A t \in Threads \ {"A"} : q[t] = p[t]
  BY <1>3, <1>4 DEF Pools, Threads
<1>7. ASSUME NEW t \in Threads, NEW op \in Counted
      PROVE  Pending(q, t, op) = Pending(p, t, op)
  <2>1. CASE t # "A"
    BY <1>6, <2>1, PendingSame
  <2>2. CASE t = "A"
    <3> DEFINE P == Named(op)
    <3>1. \A k \in DOMAIN u : u[k] \notin P
      BY <1>5 DEF Named, Counted
    <3>2. Positions(p["A"] \o u, P) = Positions(p["A"], P)
      BY <1>2, <1>3, <3>1, PositionsConcat
    <3>3. /\ Pending(q, t, op) = Cardinality(Positions(q[t], P))
          /\ Pending(p, t, op) = Cardinality(Positions(p[t], P))
      BY <1>6, PendingPositions
    <3> HIDE DEF P
    <3> QED
      BY <1>6, <2>2, <3>2, <3>3
  <2> QED
    BY <2>1, <2>2
<1> QED
  BY <1>6, <1>7 DEF SameTasks, q

\* What the driver has of the output port is a finite set of the buffers.
LEMMA OutBufsAre ==
  ASSUME TypeOK
  PROVE  /\ OutBufs \subseteq Bufs /\ IsFiniteSet(OutBufs) /\ Cardinality(OutBufs) \in Nat
         /\ \A b : Cardinality(OutBufs \ {b}) \in Nat
         /\ OutBufs = {} <=> dst = {} /\ held = {} /\ dstDone = <<>>
<1>1. /\ dst \subseteq Bufs /\ held \subseteq [buf : Bufs, tag : Tags]
      /\ dstDone \in Seq([buf : Bufs, tag : Tags, change : BOOLEAN])
  BY DEF TypeOK
<1>2. \A k \in DOMAIN dstDone : dstDone[k] \in [buf : Bufs, tag : Tags, change : BOOLEAN]
  BY <1>1, ElementsTyped
<1>3. OutBufs \subseteq Bufs
  BY <1>1, <1>2 DEF OutBufs
<1>4. IsFiniteSet(OutBufs) /\ \A b : IsFiniteSet(OutBufs \ {b})
  <2>1. IsFiniteSet(Bufs)
    BY CodecFilterAssumption
  <2>2. \A b : OutBufs \ {b} \subseteq Bufs
    BY <1>3
  <2> QED
    BY <1>3, <2>1, <2>2, FS_Subset
<1>5. DOMAIN dstDone = {} <=> dstDone = <<>>
  BY <1>1, EmptySeq
<1>6. OutBufs = {} <=> dst = {} /\ held = {} /\ DOMAIN dstDone = {}
  BY DEF OutBufs
<1>7. Cardinality(OutBufs) \in Nat /\ \A b : Cardinality(OutBufs \ {b}) \in Nat
  BY <1>4, FS_CardinalityType
<1> QED
  BY <1>3, <1>4, <1>5, <1>6, <1>7

\* The requests of fillOutBuffers().
LEMMA Filling ==
  ASSUME NEW p \in Pools, NEW outs \in Nat
  PROVE  /\ NeedMore(p, outs) \in Nat
         /\ FillOutBuffers(p, outs) \in Pools /\ SameTasks(p, FillOutBuffers(p, outs))
<1>1. Pending(p, "A", "fill") \in Nat /\ DPB \in Nat
  BY PendingType, CodecFilterAssumption DEF Threads
<1>2. NeedMore(p, outs) \in Nat
  BY <1>1 DEF NeedMore
<1>3. Requested(p, NeedMore(p, outs)) \in Pools /\ SameTasks(p, Requested(p, NeedMore(p, outs)))
  BY <1>2, Requesting
<1>4. SameTasks(p, p)
  BY DEF SameTasks
<1> QED
  BY <1>2, <1>3, <1>4 DEF FillOutBuffers

\* The answer of processDone().
LEMMA Answering ==
  ASSUME NEW p \in Pools, NEW i \in Inputs, NEW outs \in Nat, ProcessDone(i, p, outs)
  PROVE  /\ pool' \in Pools /\ mWorkInfos' = mWorkInfos \ {i}
         /\ \A t \in Threads \ {"A", "F"} : pool'[t] = p[t]
         /\ pool'["F"] = IF i \in mWorkInfos THEN Append(p["F"], Work("done", i)) ELSE p["F"]
         /\ \A t \in Threads : \A op \in Counted : Pending(pool', t, op) = Pending(p, t, op)
<1> DEFINE q == FillOutBuffers(p, outs)
           x == Work("done", i)
<1>1. q \in Pools /\ SameTasks(p, q)
  BY Filling
<1>2. x \in Tasks /\ x.op = "done"
  BY TasksAre DEF Work
<1>3. /\ mWorkInfos' = mWorkInfos \ {i}
      /\ pool' = IF i \in mWorkInfos THEN [q EXCEPT !["F"] = Append(@, x)] ELSE q
  BY DEF ProcessDone, ObtainWorkInfo
<1>4. \A t \in Threads : \A op \in Counted : Pending(p, t, op) \in Nat
  BY PendingType
<1> HIDE DEF q, x
<1>5. CASE i \in mWorkInfos
  <2>1. /\ pool' \in Pools /\ pool'["F"] = Append(q["F"], x)
        /\ \A u \in Threads \ {"F"} : pool'[u] = q[u]
        /\ \A u \in Threads : \A op :
             Pending(pool', u, op)
               = Pending(q, u, op) + (IF u = "F" /\ x.op = op THEN 1 ELSE 0)
    <3>1. "F" \in Threads
      BY DEF Threads
    <3>2. Posts(q, pool', "F", x)
      BY <1>1, <1>2, <1>3, <1>5, <3>1, Posting
    <3> QED
      BY <3>2 DEF Posts
  <2>2. q["F"] = p["F"] /\ \A t \in Threads \ {"A", "F"} : q[t] = p[t]
    BY <1>1 DEF SameTasks, Threads
  <2>3. \A t \in Threads : \A op \in Counted : Pending(q, t, op) = Pending(p, t, op)
    BY <1>1 DEF SameTasks
  <2>4. ASSUME NEW t \in Threads, NEW op \in Counted
        PROVE  Pending(pool', t, op) = Pending(p, t, op)
    BY <1>2, <1>4, <2>1, <2>3 DEF Counted
  <2> QED
    BY <1>3, <1>5, <2>1, <2>2, <2>4 DEF x
<1>6. CASE i \notin mWorkInfos
  BY <1>1, <1>3, <1>4, <1>6 DEF SameTasks, Threads
<1> QED
  BY <1>5, <1>6

\* The names of the threads.
LEMMA Names ==
  /\ "F" \in Threads /\ "A" \in Threads /\ "E" \in Threads /\ "I" \in Threads /\ "O" \in Threads
  /\ \A t \in Threads : t = "F" \/ t = "A" \/ t = "E" \/ t = "I" \/ t = "O"
  BY DEF Threads

\* The first task of a thread is taken.
LEMMA FirstTaken ==
  ASSUME Carried, NEW t \in Threads, NEW op, Next_(t, op)
  PROVE  /\ Taken(t) \in Pools /\ Moved(pool, Taken(t), {}, {<<t, op>>})
         /\ Taken(t)[t] = Tail(pool[t]) /\ \A u \in Threads \ {t} : Taken(t)[u] = pool[u]
         /\ pool[t] # <<>> /\ Head(pool[t]) \in Tasks /\ Head(pool[t]).op = op
<1>1. pool[t] # <<>> /\ Head(pool[t]).op = op
  BY DEF Next_
<1>2. Takes(pool, Taken(t), t)
  BY <1>1, Taking DEF Carried, Taken
<1>3. \A u \in Threads : \A o : Pending(pool, u, o) \in Nat
  BY PendingType DEF Carried
<1>4. Moved(pool, Taken(t), {}, {<<t, op>>})
  BY <1>1, <1>2, <1>3 DEF Takes, Moved
<1> QED
  BY <1>1, <1>2, <1>4 DEF Takes

\* So there is one of its name.
LEMMA FirstPending ==
  ASSUME Carried, NEW t \in Threads, NEW op, Next_(t, op)
  PROVE  Pending(pool, t, op) >= 1
<1>1. pool[t] \in Seq(Tasks) /\ pool[t] # <<>> /\ Head(pool[t]).op = op
  BY DEF Next_, Carried, Pools
<1>2. 1 \in DOMAIN pool[t] /\ pool[t][1] = Head(pool[t])
  BY <1>1
<1> QED
  BY <1>1, <1>2, PendingType DEF Carried

\* A task is posted.
LEMMA TaskPosted ==
  ASSUME NEW p \in Pools, NEW t \in Threads, NEW x \in Tasks
  PROVE  PostsOne(p, Posted(p, t, x), t, x)
<1> DEFINE q == Posted(p, t, x)
           op == x.op
<1>1. Posts(p, q, t, x)
  BY Posting DEF Posted
<1>2. \A u \in Threads : \A o : Pending(p, u, o) \in Nat
  BY PendingType
<1>3. op = x.op
  OBVIOUS
<1> HIDE DEF q, op
<1>4. Moved(p, q, {<<t, op>>}, {})
  BY <1>1, <1>2, <1>3 DEF Posts, Moved
<1> QED
  BY <1>1, <1>4 DEF Posts, PostsOne, q, op

\* One task is taken and another one is posted.
LEMMA TakenAndPosted ==
  ASSUME Carried, NEW t \in Threads, NEW op, Next_(t, op),
         NEW u \in Threads, NEW x \in Tasks
  PROVE  TakesAndPosts(pool, Posted(Taken(t), u, x), t, op, u, x)
<1> DEFINE p == Taken(t)
           q == Posted(p, u, x)
           o == x.op
<1>1. /\ p \in Pools /\ Moved(pool, p, {}, {<<t, op>>})
      /\ p[t] = Tail(pool[t]) /\ \A v \in Threads \ {t} : p[v] = pool[v]
  BY FirstTaken
<1> HIDE DEF p, o
<1>2. /\ q \in Pools /\ Moved(p, q, {<<u, o>>}, {})
      /\ q[u] = Append(p[u], x) /\ \A v \in Threads \ {u} : q[v] = p[v]
  BY <1>1, TaskPosted DEF o, PostsOne
<1>3. \A v \in Threads : \A n : Pending(pool, v, n) \in Nat
  BY PendingType DEF Carried
<1> HIDE DEF q
<1>4. Moved(pool, q, {<<u, o>>}, {<<t, op>>})
  <2> SUFFICES ASSUME NEW v \in Threads, NEW n \in Counted
               PROVE  Pending(q, v, n)
                        = Pending(pool, v, n) + (IF <<v, n>> \in {<<u, o>>} THEN 1 ELSE 0)
                                              - (IF <<v, n>> \in {<<t, op>>} THEN 1 ELSE 0)
    BY DEF Moved
  <2>1. Pending(p, v, n) = Pending(pool, v, n) - (IF <<v, n>> \in {<<t, op>>} THEN 1 ELSE 0)
    BY <1>1, <1>3 DEF Moved
  <2>2. Pending(q, v, n) = Pending(p, v, n) + (IF <<v, n>> \in {<<u, o>>} THEN 1 ELSE 0)
    BY <1>2, <1>3, <2>1 DEF Moved
  <2> QED
    BY <1>3, <2>1, <2>2
<1> QED
  BY <1>1, <1>2, <1>4 DEF p, q, o, TakesAndPosts

\* Requests for output buffers move nothing.
LEMMA SameMoved ==
  ASSUME NEW p, NEW q, NEW r, NEW plus, NEW minus, Moved(p, q, plus, minus), SameTasks(q, r)
  PROVE  Moved(p, r, plus, minus)
  BY DEF Moved, SameTasks

\* A step that leaves all pools alone.
LEMMA NothingMoved ==
  ASSUME Carried, SameTasks(pool, pool'), pool' \in Pools
  PROVE  Carried' /\ Moves({}, {}) /\ Keeps(Threads \ {"A"})
<1>1. \A v \in Threads : \A o : Pending(pool, v, o) \in Nat
  BY PendingType DEF Carried
<1> QED
  BY <1>1 DEF Carried, Moves, Moved, Keeps, SameTasks

\* A step that takes a task and does nothing else to the pools.
Took(t, op) ==
  /\ Carried' /\ Moves({}, {<<t, op>>}) /\ Keeps(Threads \ {t})
  /\ pool[t] # <<>> /\ pool'[t] = Tail(pool[t]) /\ Head(pool[t]) \in Tasks /\ Head(pool[t]).op = op

\* What takes the first task of a thread and does nothing else is such a step.
LEMMA TookOne ==
  ASSUME Carried, NEW t \in Threads, NEW op, Next_(t, op), pool' = Taken(t)
  PROVE  Took(t, op)
  BY FirstTaken DEF Carried, Moves, Keeps, Took

\* A step that posts a task and does nothing else to them.
Gave(t, op) ==
  /\ Carried' /\ Moves({<<t, op>>}, {}) /\ Keeps(Threads \ {t})
  /\ pool'[t] = Append(pool[t], Task(op))

\* What posts a task that is about no work is such a step.
LEMMA GaveOne ==
  ASSUME Carried, NEW t \in Threads, NEW op \in Ops \ {"work", "done", "in"},
         pool' = [pool EXCEPT ![t] = Append(@, Task(op))]
  PROVE  Gave(t, op)
<1> DEFINE x == Task(op)
<1>1. x \in Tasks /\ op = x.op
  BY TasksAre DEF Task
<1>2. pool' = Posted(pool, t, x)
  BY DEF Posted
<1> HIDE DEF x
<1>3. PostsOne(pool, pool', t, x)
  BY <1>1, <1>2, TaskPosted DEF Carried
<1> QED
  BY <1>1, <1>3 DEF PostsOne, Carried, Moves, Keeps, Gave, x

\* A step that does nothing to them, or only requests output buffers.
Rests == Carried' /\ Moves({}, {}) /\ Keeps(Threads \ {"A"})
\* A step that leaves the pools as they are.
LEMMA Resting ==
  ASSUME Carried, pool' = pool
  PROVE  Rests
  BY NothingMoved DEF SameTasks, Carried, Rests

\* A step that requests output buffers at most.
LEMMA RestingButFor ==
  ASSUME Carried, SameTasks(pool, pool'), pool' \in Pools
  PROVE  Rests
  BY NothingMoved DEF Rests

----------------------------------------------------------------------------
(* The component's steps and F's. *)

\* QueueWork posts the work to F.
LEMMA QueueWorkPools ==
  ASSUME TypeOK, Carried, QueueWork
  PROVE  /\ Carried' /\ Moves({<<"F", "work">>}, {}) /\ Keeps(Threads \ {"F"})
         /\ pool'["F"] = Append(pool["F"], Work("work", queued + 1))
         /\ queued + 1 \in Inputs
<1>1. queued + 1 \in Inputs
  BY CodecFilterAssumption DEF TypeOK, QueueWork, Inputs
<1>2. Work("work", queued + 1) \in Tasks /\ "work" = Work("work", queued + 1).op
  BY <1>1, TasksAre DEF Work
<1>3. pool' = Posted(pool, "F", Work("work", queued + 1))
  BY DEF QueueWork, Posted
<1>4. PostsOne(pool, pool', "F", Work("work", queued + 1))
  BY <1>2, <1>3, Names, TaskPosted DEF Carried
<1> QED
  BY <1>1, <1>2, <1>4 DEF PostsOne, Carried, Moves, Keeps

\* Flush leaves F with doFlush alone.
LEMMA FlushPools ==
  ASSUME Carried, Flush
  PROVE  /\ Carried' /\ Keeps(Threads \ {"F"}) /\ pool'["F"] = <<Task("flush")>>
         /\ \A op : Pending(pool', "F", op) = IF op = "flush" THEN 1 ELSE 0
<1>1. Task("flush") \in Tasks /\ Task("flush").op = "flush"
  BY TasksAre DEF Task, Ops
<1> DEFINE s == <<Task("flush")>>
<1>2. s \in {<<>>} \cup {<<x>> : x \in Tasks} /\ s # <<>> /\ s[1].op = "flush"
  BY <1>1
<1>3. pool' = [pool EXCEPT !["F"] = s]
  BY DEF Flush
<1> HIDE DEF s
<1>4. Drops(pool, pool', "F", s)
  BY <1>2, <1>3, Names, Dropping DEF Carried
<1> QED
  BY <1>2, <1>4 DEF Drops, Carried, Keeps, s

\* FlushSync posts doFlushDone to F.
LEMMA FlushSyncPools ==
  ASSUME Carried, FlushSync
  PROVE  /\ Carried' /\ Moves({<<"F", "flushDone">>}, {}) /\ Keeps(Threads \ {"F"})
         /\ pool'["F"] = Append(pool["F"], Task("flushDone"))
<1>1. Gave("F", "flushDone")
  BY Names, GaveOne DEF FlushSync, Ops
<1> QED
  BY <1>1 DEF Gave

\* DoQueueWork takes the work and gives its input to E, or hands it back.
LEMMA DoQueueWorkPools ==
  ASSUME TypeOK, Carried, DoQueueWork
  PROVE  \E i \in Inputs :
           /\ pool["F"] # <<>> /\ Head(pool["F"]) = Work("work", i) /\ Carried'
           /\ \/ /\ DoProcess(i) /\ Moves({<<"E", "in">>}, {<<"F", "work">>}) /\ Keeps({"I", "O"})
                 /\ pool'["F"] = Tail(pool["F"])
                 /\ pool'["E"] = Append(pool["E"], Work("in", i))
              \/ /\ SetupFails(i) /\ Moves({}, {<<"F", "work">>})
                 /\ Keeps({"A", "E", "I", "O"})
                 /\ pool'["F"] = Append(Tail(pool["F"]), Work("done", i))
<1> DEFINE i == Head(pool["F"]).in
<1>1. Next_("F", "work")
  BY DEF DoQueueWork
<1>2. pool["F"] # <<>> /\ Head(pool["F"]) \in Tasks /\ Head(pool["F"]).op = "work"
  BY <1>1, Names, FirstTaken
<1>3. i \in Inputs /\ Head(pool["F"]) = Work("work", i)
  BY <1>2, TasksCarry
<1> HIDE DEF i
<1>4. CASE DoProcess(i)
  <2> DEFINE x == Work("in", i)
             p == Posted(Taken("F"), "E", x)
  <2>1. x \in Tasks /\ "in" = x.op
    BY <1>3, TasksAre DEF Work
  <2>2. pool' = Requested(p, NeedMore(p, Cardinality(OutBufs)))
    BY <1>4 DEF DoProcess, Posted
  <2> HIDE DEF x
  <2>3. /\ p \in Pools /\ Moved(pool, p, {<<"E", "in">>}, {<<"F", "work">>})
        /\ p["E"] = Append(pool["E"], x) /\ p["F"] = Tail(pool["F"])
        /\ \A v \in Threads \ {"F", "E"} : p[v] = pool[v]
    <3>1. TakesAndPosts(pool, p, "F", "work", "E", x)
      BY <1>1, <2>1, Names, TakenAndPosted
    <3> QED
      BY <2>1, <3>1 DEF TakesAndPosts
  <2> HIDE DEF p
  <2>4. pool' \in Pools /\ SameTasks(p, pool')
    BY <2>2, <2>3, OutBufsAre, Filling, Requesting
  <2>5. Moves({<<"E", "in">>}, {<<"F", "work">>})
    BY <2>3, <2>4, SameMoved DEF Moves
  <2>6. \A v \in {"F", "E", "I", "O"} : pool'[v] = p[v]
    BY <2>4, Names DEF SameTasks
  <2>7. \A v \in {"I", "O"} : p[v] = pool[v]
    BY <2>3, Names
  <2> QED
    BY <1>2, <1>3, <1>4, <2>3, <2>4, <2>5, <2>6, <2>7 DEF Keeps, Carried, x
<1>5. CASE SetupFails(i)
  <2> DEFINE x == Work("done", i)
  <2>1. x \in Tasks /\ "done" = x.op
    BY <1>3, TasksAre DEF Work
  <2>2. pool' = Posted(Taken("F"), "F", x)
    BY <1>5 DEF SetupFails, Posted
  <2> HIDE DEF x
  <2>3. /\ pool' \in Pools /\ Moved(pool, pool', {<<"F", "done">>}, {<<"F", "work">>})
        /\ pool'["F"] = Append(Tail(pool["F"]), x)
        /\ \A v \in Threads \ {"F"} : pool'[v] = pool[v]
    <3>1. TakesAndPosts(pool, pool', "F", "work", "F", x)
      BY <1>1, <2>1, <2>2, Names, TakenAndPosted
    <3> QED
      BY <2>1, <3>1 DEF TakesAndPosts
  <2>4. \A v \in {"A", "E", "I", "O"} : pool'[v] = pool[v]
    BY <2>3, Names
  <2>5. Moves({}, {<<"F", "work">>})
    BY <2>3 DEF Moves, Moved, Counted
  <2> QED
    BY <1>2, <1>3, <1>5, <2>3, <2>4, <2>5 DEF Keeps, Carried, x
<1> QED
  BY <1>4, <1>5 DEF DoQueueWork, i

\* DoWorkDone and DoFlushDone take their task.
LEMMA DoWorkDonePools ==
  ASSUME Carried, DoWorkDone
  PROVE  /\ Carried' /\ Moves({}, {}) /\ Keeps(Threads \ {"F"})
         /\ pool["F"] # <<>> /\ pool'["F"] = Tail(pool["F"])
         /\ Head(pool["F"]).op = "done" /\ Head(pool["F"]).in \in Inputs
<1>1. Next_("F", "done") /\ pool' = Taken("F")
  BY DEF DoWorkDone
<1>2. /\ pool' \in Pools /\ Moved(pool, pool', {}, {<<"F", "done">>})
      /\ pool'["F"] = Tail(pool["F"]) /\ \A u \in Threads \ {"F"} : pool'[u] = pool[u]
      /\ pool["F"] # <<>> /\ Head(pool["F"]) \in Tasks /\ Head(pool["F"]).op = "done"
  BY <1>1, Names, FirstTaken
<1>3. Moves({}, {})
  BY <1>2 DEF Moves, Moved, Counted
<1> QED
  BY <1>2, <1>3, TasksCarry DEF Carried, Keeps

\* DoFlushDone takes its task.
LEMMA DoFlushDonePools ==
  ASSUME Carried, DoFlushDone
  PROVE  /\ Carried' /\ Moves({}, {<<"F", "flushDone">>}) /\ Keeps(Threads \ {"F"})
         /\ pool["F"] # <<>> /\ pool'["F"] = Tail(pool["F"]) /\ Head(pool["F"]).op = "flushDone"
<1>1. Next_("F", "flushDone") /\ pool' = Taken("F")
  BY DEF DoFlushDone
<1> QED
  BY <1>1, Names, FirstTaken DEF Carried, Moves, Keeps

\* DoFlush leaves A with the codec's flush alone.
LEMMA DoFlushPools ==
  ASSUME Carried, DoFlush
  PROVE  /\ Carried' /\ Keeps({"E", "I", "O"})
         /\ pool["F"] # <<>> /\ pool'["F"] = Tail(pool["F"]) /\ Head(pool["F"]) = Task("flush")
         /\ \A op : Pending(pool', "A", op) = IF op = "flush" THEN 1 ELSE 0
         /\ \A op \in Counted :
              Pending(pool', "F", op) = Pending(pool, "F", op) - (IF op = "flush" THEN 1 ELSE 0)
<1> DEFINE s == <<Task("flush")>>
           p == Taken("F")
<1>1. Task("flush") \in Tasks /\ Task("flush").op = "flush"
  BY TasksAre DEF Task, Ops
<1>2. s \in {<<>>} \cup {<<x>> : x \in Tasks} /\ s # <<>> /\ s[1].op = "flush"
  BY <1>1
<1>3. pool' = [p EXCEPT !["A"] = s] /\ Next_("F", "flush")
  BY DEF DoFlush
<1> HIDE DEF s, p
<1>4. /\ p \in Pools /\ Moved(pool, p, {}, {<<"F", "flush">>})
      /\ p["F"] = Tail(pool["F"]) /\ \A u \in Threads \ {"F"} : p[u] = pool[u]
      /\ pool["F"] # <<>> /\ Head(pool["F"]) \in Tasks /\ Head(pool["F"]).op = "flush"
  BY <1>3, Names, FirstTaken DEF p
<1>5. Drops(p, pool', "A", s)
  BY <1>2, <1>3, <1>4, Names, Dropping
<1>6. Head(pool["F"]) = Task("flush")
  <2>1. /\ Head(pool["F"]) \in [op : Ops, in : 0..NumInputs]
        /\ Head(pool["F"]).in = None
    BY <1>4, TasksCarry DEF Tasks
  <2> QED
    BY <1>4, <2>1 DEF Task
<1>7. \A op \in Counted :
        /\ Pending(pool', "F", op) = Pending(p, "F", op)
        /\ Pending(p, "F", op) = Pending(pool, "F", op) - (IF op = "flush" THEN 1 ELSE 0)
  <2> TAKE op \in Counted
  <2>1. Pending(pool', "F", op) = Pending(p, "F", op)
    BY <1>5, Names DEF Drops
  <2>2. Pending(pool, "F", op) \in Nat
    BY Names, PendingType DEF Carried
  <2> QED
    BY <1>4, <2>1, <2>2, Names DEF Moved
<1>8. \A op : Pending(pool', "A", op) = IF op = "flush" THEN 1 ELSE 0
  BY <1>2, <1>5 DEF Drops
<1>9. /\ pool' \in Pools /\ pool'["F"] = Tail(pool["F"])
      /\ \A v \in {"E", "I", "O"} : pool'[v] = pool[v]
  BY <1>4, <1>5, Names DEF Drops
<1> QED
  BY <1>4, <1>6, <1>7, <1>8, <1>9 DEF Carried, Keeps

----------------------------------------------------------------------------
(* A's steps. *)

\* TakeFill takes a request.
LEMMA TakeFillPools ==
  ASSUME Carried, TakeFill
  PROVE  Rests
<1>1. Took("A", "fill")
  BY Names, TookOne DEF TakeFill
<1>2. Moves({}, {})
  BY <1>1 DEF Took, Moves, Moved, Counted
<1> QED
  BY <1>1, <1>2 DEF Took, Rests, Keeps

\* AllocOutBuffer posts doOutputEnqueue to E.
LEMMA AllocOutBufferPools ==
  ASSUME Carried, AllocOutBuffer
  PROVE  Gave("E", "out")
  BY Names, GaveOne DEF AllocOutBuffer, Ops

\* AllocTryAgain requests a buffer at most.
LEMMA AllocTryAgainPools ==
  ASSUME Carried, AllocTryAgain
  PROVE  Rests
<1>1. pool' = Requested(pool, 1) \/ pool' = pool
  BY DEF AllocTryAgain
<1>2. CASE pool' = Requested(pool, 1)
  BY <1>2, Requesting, RestingButFor DEF Carried
<1> QED
  BY <1>1, <1>2, Resting

\* OutputEnqueued posts a wait to O when the driver has a buffer.
LEMMA OutputEnqueuedPools ==
  ASSUME TypeOK, Carried, OutputEnqueued
  PROVE  /\ Carried' /\ Keeps({"F", "E", "I"})
         /\ IF result = "ok" \/ OutBufs # {} THEN Moves({<<"O", "wait">>}, {}) ELSE Moves({}, {})
<1> DEFINE p == IF result = "ok" \/ OutBufs # {}
                THEN Posted(pool, "O", Task("wait")) ELSE pool
<1>1. pool' = FillOutBuffers(p, Cardinality(OutBufs))
  BY DEF OutputEnqueued, Posted
<1>2. p \in Pools /\ \A t \in {"F", "E", "I"} : p[t] = pool[t]
  <2>1. Task("wait") \in Tasks /\ "wait" = Task("wait").op
    BY TasksAre DEF Task, Ops
  <2>2. PostsOne(pool, Posted(pool, "O", Task("wait")), "O", Task("wait"))
    BY <2>1, Names, TaskPosted DEF Carried
  <2> QED
    BY <2>2, Names DEF Carried, PostsOne
<1>3. IF result = "ok" \/ OutBufs # {} THEN Moved(pool, p, {<<"O", "wait">>}, {})
                                      ELSE Moved(pool, p, {}, {})
  <2>1. Task("wait") \in Tasks /\ "wait" = Task("wait").op
    BY TasksAre DEF Task, Ops
  <2>2. PostsOne(pool, Posted(pool, "O", Task("wait")), "O", Task("wait"))
    BY <2>1, Names, TaskPosted DEF Carried
  <2>3. \A v \in Threads : \A n : Pending(pool, v, n) \in Nat
    BY PendingType DEF Carried
  <2>4. Moved(pool, pool, {}, {})
    BY <2>3 DEF Moved
  <2> QED
    BY <2>1, <2>2, <2>4 DEF PostsOne
<1> HIDE DEF p
<1>4. pool' \in Pools /\ SameTasks(p, pool')
  BY <1>1, <1>2, OutBufsAre, Filling
<1>5. IF result = "ok" \/ OutBufs # {} THEN Moves({<<"O", "wait">>}, {}) ELSE Moves({}, {})
  BY <1>3, <1>4, SameMoved DEF Moves
<1>6. \A t \in {"F", "E", "I"} : pool'[t] = pool[t]
  BY <1>2, <1>4, Names DEF SameTasks
<1> QED
  BY <1>4, <1>5, <1>6 DEF Carried, Keeps

\* CodecFlush takes its task and has the codec flush on E.
LEMMA CodecFlushPools ==
  ASSUME Carried, CodecFlush
  PROVE  /\ Carried' /\ Keeps({"F", "I", "O"}) /\ Pending(pool, "A", "flush") >= 1
         /\ IF configured
            THEN /\ Moves({<<"E", "flush">>}, {<<"A", "flush">>})
                 /\ pool'["E"] = Append(pool["E"], Task("flush"))
            ELSE Moves({}, {<<"A", "flush">>}) /\ pool'["E"] = pool["E"]
<1>1. Next_("A", "flush")
  BY DEF CodecFlush
<1>2. Task("flush") \in Tasks /\ Task("flush").op = "flush"
  BY TasksAre DEF Task, Ops
<1>3. Pending(pool, "A", "flush") >= 1
  BY <1>1, Names, FirstPending
<1>4. CASE configured
  <2>1. pool' = Posted(Taken("A"), "E", Task("flush"))
    BY <1>4 DEF CodecFlush, Posted
  <2>2. TakesAndPosts(pool, pool', "A", "flush", "E", Task("flush"))
    BY <1>1, <1>2, <2>1, Names, TakenAndPosted
  <2>3. /\ pool' \in Pools /\ Moved(pool, pool', {<<"E", "flush">>}, {<<"A", "flush">>})
        /\ pool'["E"] = Append(pool["E"], Task("flush"))
        /\ \A t \in {"F", "I", "O"} : pool'[t] = pool[t]
    BY <1>2, <2>2, Names DEF TakesAndPosts
  <2> QED
    BY <1>3, <1>4, <2>3 DEF Carried, Moves, Keeps
<1>5. CASE ~configured
  <2>1. Took("A", "flush")
    BY <1>1, <1>5, Names, TookOne DEF CodecFlush
  <2> QED
    BY <1>3, <1>5, <2>1, Names DEF Took, Keeps
<1> QED
  BY <1>4, <1>5

----------------------------------------------------------------------------
(* E's steps. *)

\* DoPipeInputEnqueue takes its task, which carries an input if it is named so.
LEMMA DoPipeInputEnqueuePools ==
  ASSUME Carried, DoPipeInputEnqueue
  PROVE  \/ Took("E", "in") /\ Head(pool["E"]).in \in Inputs
         \/ Took("E", "feed") /\ Head(pool["E"]).in = None
<1>1. pool' = Taken("E")
  BY DEF DoPipeInputEnqueue
<1>2. CASE Next_("E", "in")
  <2>1. Took("E", "in")
    BY <1>1, <1>2, Names, TookOne
  <2>2. Head(pool["E"]).in \in Inputs
    BY <2>1, TasksCarry DEF Took
  <2> QED
    BY <2>1, <2>2
<1>3. CASE Next_("E", "feed")
  <2>1. Took("E", "feed")
    BY <1>1, <1>3, Names, TookOne
  <2>2. Head(pool["E"]).in = None
    BY <2>1, TasksCarry DEF Took
  <2> QED
    BY <2>1, <2>2
<1> QED
  BY <1>2, <1>3 DEF DoPipeInputEnqueue

\* InputEnqueue posts a wait to I.
LEMMA InputEnqueuePools ==
  ASSUME Carried, InputEnqueue
  PROVE  Gave("I", "wait")
  BY Names, GaveOne DEF InputEnqueue, Ops

\* A step that answers input i, or finds no work of it.
Answers(i, minus) ==
  /\ Carried' /\ Moves({}, minus) /\ mWorkInfos' = mWorkInfos \ {i}
  /\ pool'["F"] = IF i \in mWorkInfos THEN Append(pool["F"], Work("done", i)) ELSE pool["F"]

\* InputRefused answers the first input of the pipe.
LEMMA InputRefusedPools ==
  ASSUME TypeOK, Carried, Pipe, InputRefused
  PROVE  /\ Head(mPipeInputs) \in Inputs /\ mPipeInputs # <<>> /\ Answers(Head(mPipeInputs), {})
         /\ Keeps({"E", "I", "O"})
<1>1. mPipeInputs \in Seq(Inputs) /\ mPipeInputs # <<>>
  BY DEF TypeOK, Pipe, InputRefused
<1>2. Head(mPipeInputs) \in Inputs
  BY <1>1
<1> DEFINE i == Head(mPipeInputs)
<1> HIDE DEF i
<1>3. ProcessDone(i, pool, Cardinality(OutBufs)) /\ Cardinality(OutBufs) \in Nat /\ i \in Inputs
  BY <1>2, OutBufsAre DEF InputRefused, i
<1>4. /\ pool' \in Pools /\ mWorkInfos' = mWorkInfos \ {i}
      /\ \A t \in Threads \ {"A", "F"} : pool'[t] = pool[t]
      /\ pool'["F"] = IF i \in mWorkInfos THEN Append(pool["F"], Work("done", i)) ELSE pool["F"]
      /\ \A t \in Threads : \A op \in Counted : Pending(pool', t, op) = Pending(pool, t, op)
  BY <1>3, Answering DEF Carried
<1>5. \A t \in Threads : \A o : Pending(pool, t, o) \in Nat
  BY PendingType DEF Carried
<1>6. Moves({}, {})
  BY <1>4, <1>5 DEF Moves, Moved
<1>7. Keeps({"E", "I", "O"})
  BY <1>4, Names DEF Keeps
<1> QED
  BY <1>1, <1>2, <1>4, <1>6, <1>7 DEF Answers, Carried, i

\* DoOutputEnqueue takes its task.
LEMMA DoOutputEnqueuePools ==
  ASSUME Carried, DoOutputEnqueue
  PROVE  Took("E", "out") /\ Pending(pool, "E", "out") >= 1
  BY Names, TookOne, FirstPending DEF DoOutputEnqueue

\* CodecDoFlush takes its task and stops the input port, if it is on.
LEMMA CodecDoFlushPools ==
  ASSUME Carried, CodecDoFlush
  PROVE  /\ Carried' /\ Keeps({"F", "A", "O"}) /\ Pending(pool, "E", "flush") >= 1
         /\ pool["E"] # <<>> /\ pool'["E"] = Tail(pool["E"]) /\ Head(pool["E"]) = Task("flush")
         /\ IF on["In"] THEN Moves({<<"I", "stop">>}, {<<"E", "flush">>})
                        ELSE Moves({}, {<<"E", "flush">>}) /\ Keeps({"I"})
<1>1. Next_("E", "flush")
  BY DEF CodecDoFlush
<1>2. Task("stop") \in Tasks /\ Task("stop").op = "stop"
  BY TasksAre DEF Task, Ops
<1>3. Pending(pool, "E", "flush") >= 1
  BY <1>1, Names, FirstPending
<1>4. pool["E"] # <<>> /\ Head(pool["E"]) = Task("flush")
  <2>1. pool["E"] # <<>> /\ Head(pool["E"]) \in Tasks /\ Head(pool["E"]).op = "flush"
    BY <1>1, Names, FirstTaken
  <2>2. Head(pool["E"]) \in [op : Ops, in : 0..NumInputs] /\ Head(pool["E"]).in = None
    BY <2>1, TasksCarry DEF Tasks
  <2> QED
    BY <2>1, <2>2 DEF Task
<1>5. CASE on["In"]
  <2>1. pool' = Posted(Taken("E"), "I", Task("stop"))
    BY <1>5 DEF CodecDoFlush, Posted
  <2>2. TakesAndPosts(pool, pool', "E", "flush", "I", Task("stop"))
    BY <1>1, <1>2, <2>1, Names, TakenAndPosted
  <2>3. /\ pool' \in Pools /\ Moved(pool, pool', {<<"I", "stop">>}, {<<"E", "flush">>})
        /\ pool'["E"] = Tail(pool["E"])
        /\ \A t \in {"F", "A", "O"} : pool'[t] = pool[t]
    BY <1>2, <2>2, Names DEF TakesAndPosts
  <2> QED
    BY <1>3, <1>4, <1>5, <2>3 DEF Carried, Moves, Keeps
<1>6. CASE ~on["In"]
  <2>1. Took("E", "flush")
    BY <1>1, <1>6, Names, TookOne DEF CodecDoFlush
  <2> QED
    BY <1>3, <1>4, <1>6, <2>1, Names DEF Took, Keeps
<1> QED
  BY <1>5, <1>6

\* CodecStopOutput stops the output port, if it is on.
LEMMA CodecStopOutputPools ==
  ASSUME Carried, CodecStopOutput
  PROVE  IF on["Out"] THEN Gave("O", "stop") ELSE pool' = pool /\ Rests
<1>1. CASE on["Out"]
  BY <1>1, Names, GaveOne DEF CodecStopOutput, Ops
<1>2. CASE ~on["Out"]
  BY <1>2, Resting DEF CodecStopOutput
<1> QED
  BY <1>1, <1>2

----------------------------------------------------------------------------
(* I's and O's steps. *)

\* WaitEndsEmpty takes a wait of either.
LEMMA WaitEndsEmptyPools ==
  ASSUME Carried, WaitEndsEmpty
  PROVE  \E t \in {"I", "O"} : Took(t, "wait") /\ NoBufferFor(t)
<1>1. PICK t \in {"I", "O"} : Next_(t, "wait") /\ NoBufferFor(t) /\ pool' = Taken(t)
  BY DEF WaitEndsEmpty
<1>2. Took(t, "wait")
  BY <1>1, Names, TookOne
<1> QED
  BY <1>1, <1>2

\* Answering an input when the first task of thread t is taken.
LEMMA TakenAndAnswered ==
  ASSUME Carried, NEW t \in {"I", "O"}, NEW op, Next_(t, op), NEW i \in Inputs, NEW outs \in Nat,
         ProcessDone(i, Taken(t), outs)
  PROVE  Answers(i, {<<t, op>>}) /\ Keeps(Threads \ {"A", "F", t})
<1> DEFINE p == Taken(t)
<1>1. t \in Threads /\ t # "F"
  BY Names
<1>2. /\ p \in Pools /\ Moved(pool, p, {}, {<<t, op>>})
      /\ \A u \in Threads \ {t} : p[u] = pool[u]
  BY <1>1, FirstTaken
<1> HIDE DEF p
<1>3. /\ pool' \in Pools /\ mWorkInfos' = mWorkInfos \ {i}
      /\ \A u \in Threads \ {"A", "F"} : pool'[u] = p[u]
      /\ pool'["F"] = IF i \in mWorkInfos THEN Append(p["F"], Work("done", i)) ELSE p["F"]
      /\ \A u \in Threads : \A o \in Counted : Pending(pool', u, o) = Pending(p, u, o)
  BY <1>2, Answering DEF p
<1>4. Moves({}, {<<t, op>>})
  BY <1>2, <1>3 DEF Moves, Moved
<1>5. p["F"] = pool["F"]
  BY <1>1, <1>2, Names
<1> QED
  BY <1>2, <1>3, <1>4, <1>5 DEF Answers, Keeps, Carried

\* InputDequeue takes a wait, and may answer the input it finds.
LEMMA InputDequeuePools ==
  ASSUME TypeOK, Carried, InputDequeue
  PROVE  LET done == Head(srcDone)
             kept == {t \in Tags : mInputs[t] = done.in}
         IN  /\ done.in \in Inputs /\ Keeps({"E", "O"}) /\ Pending(pool, "I", "wait") >= 1
             /\ IF done.used /\ kept # {} THEN Answers(done.in, {<<"I", "wait">>})
                                          ELSE Took("I", "wait")
<1> DEFINE done == Head(srcDone)
           kept == {t \in Tags : mInputs[t] = done.in}
<1>1. done.in \in Inputs
  <2>1. srcDone \in Seq([in : Inputs, used : BOOLEAN]) /\ srcDone # <<>>
    BY DEF TypeOK, InputDequeue
  <2> DEFINE T == [in : Inputs, used : BOOLEAN]
  <2>2. \A x \in T : x.in \in Inputs
    OBVIOUS
  <2> HIDE DEF T
  <2>3. done \in T
    BY <2>1, HeadTyped DEF T
  <2> QED
    BY <2>2, <2>3
<1>2. Next_("I", "wait")
  BY DEF InputDequeue
<1>3. Pending(pool, "I", "wait") >= 1
  BY <1>2, Names, FirstPending
<1>4. CASE done.used /\ kept # {}
  <2>1. ProcessDone(done.in, Taken("I"), Cardinality(OutBufs))
    BY <1>4 DEF InputDequeue
  <2> HIDE DEF done
  <2>2. Answers(done.in, {<<"I", "wait">>}) /\ Keeps(Threads \ {"A", "F", "I"})
    BY <1>1, <1>2, <2>1, OutBufsAre, TakenAndAnswered
  <2>3. Keeps({"E", "O"})
    BY <2>2, Names DEF Keeps
  <2> QED
    BY <1>1, <1>3, <1>4, <2>2, <2>3 DEF done
<1>5. CASE ~(done.used /\ kept # {})
  <2>1. pool' = Taken("I")
    BY <1>5 DEF InputDequeue
  <2> HIDE DEF done, kept
  <2>2. Took("I", "wait")
    BY <1>2, <2>1, Names, TookOne
  <2>3. Keeps({"E", "O"})
    BY <2>2, Names DEF Keeps, Took
  <2> QED
    BY <1>1, <1>3, <1>5, <2>2, <2>3 DEF done, kept
<1> QED
  BY <1>4, <1>5

\* FeedPiled posts a feed to E, if the pipe has an input.
LEMMA FeedPiledPools ==
  ASSUME Carried, FeedPiled
  PROVE  IF mPipeInputs = <<>> THEN pool' = pool /\ Rests ELSE Gave("E", "feed")
<1>1. CASE mPipeInputs # <<>>
  BY <1>1, Names, GaveOne DEF FeedPiled, Ops
<1>2. CASE mPipeInputs = <<>>
  BY <1>2, Resting DEF FeedPiled
<1> QED
  BY <1>1, <1>2

\* InputPortStop takes its task.
LEMMA InputPortStopPools ==
  ASSUME Carried, InputPortStop
  PROVE  Took("I", "stop") /\ Pending(pool, "I", "stop") >= 1
  BY Names, TookOne, FirstPending DEF InputPortStop

\* OutputDequeue takes a wait, and may answer the input of its picture.
LEMMA OutputDequeuePools ==
  ASSUME TypeOK, Carried, OutputDequeue
  PROVE  LET done == Head(dstDone)
             i    == mInputs[done.tag]
         IN  /\ done.tag \in Tags /\ Keeps({"E", "I"}) /\ Pending(pool, "O", "wait") >= 1
             /\ IF done.buf \in mOutputs /\ i # None
                THEN i \in Inputs /\ Answers(i, {<<"O", "wait">>})
                ELSE Took("O", "wait")
<1> DEFINE done == Head(dstDone)
           i    == mInputs[done.tag]
<1>1. done.tag \in Tags /\ i \in 0..NumInputs
  <2>1. /\ dstDone \in Seq([buf : Bufs, tag : Tags, change : BOOLEAN]) /\ dstDone # <<>>
        /\ mInputs \in [Tags -> 0..NumInputs]
    BY DEF TypeOK, OutputDequeue
  <2> DEFINE T == [buf : Bufs, tag : Tags, change : BOOLEAN]
  <2>2. \A x \in T : x.tag \in Tags
    OBVIOUS
  <2> HIDE DEF T
  <2>3. done \in T
    BY <2>1, HeadTyped DEF T
  <2>4. done.tag \in Tags
    BY <2>2, <2>3
  <2> HIDE DEF done
  <2> QED
    BY <2>1, <2>4
<1>2. Next_("O", "wait")
  BY DEF OutputDequeue
<1>3. Pending(pool, "O", "wait") >= 1
  BY <1>2, Names, FirstPending
<1>4. CASE done.buf \in mOutputs /\ i # None
  <2>1. ProcessDone(i, Taken("O"), Cardinality(OutBufs \ {done.buf}))
    BY <1>4 DEF OutputDequeue
  <2>2. i \in Inputs
    BY <1>1, <1>4, CodecFilterAssumption DEF None, Inputs
  <2> HIDE DEF done, i
  <2>3. Answers(i, {<<"O", "wait">>}) /\ Keeps(Threads \ {"A", "F", "O"})
    BY <1>2, <2>1, <2>2, OutBufsAre, TakenAndAnswered
  <2>4. Keeps({"E", "I"})
    BY <2>3, Names DEF Keeps
  <2> QED
    BY <1>1, <1>3, <1>4, <2>2, <2>3, <2>4 DEF done, i
<1>5. CASE ~(done.buf \in mOutputs /\ i # None)
  <2>1. pool' = Taken("O")
    BY <1>5 DEF OutputDequeue
  <2> HIDE DEF done, i
  <2>2. Took("O", "wait")
    BY <1>2, <2>1, Names, TookOne
  <2>3. Keeps({"E", "I"})
    BY <2>2, Names DEF Keeps, Took
  <2> QED
    BY <1>1, <1>3, <1>5, <2>2, <2>3 DEF done, i
<1> QED
  BY <1>4, <1>5

\* ResolutionChanged and OutputPortStop take their task.
LEMMA ResolutionChangedPools ==
  ASSUME Carried, ResolutionChanged
  PROVE  Took("O", "wait") /\ Pending(pool, "O", "wait") >= 1
  BY Names, TookOne, FirstPending DEF ResolutionChanged

\* OutputPortStop takes its task.
LEMMA OutputPortStopPools ==
  ASSUME Carried, OutputPortStop
  PROVE  Took("O", "stop") /\ Pending(pool, "O", "stop") >= 1
  BY Names, TookOne, FirstPending DEF OutputPortStop

\* ReconfigDropTasks leaves O nothing.
LEMMA ReconfigDropTasksPools ==
  ASSUME Carried, ReconfigDropTasks
  PROVE  /\ Carried' /\ Keeps(Threads \ {"O"}) /\ \A op : Pending(pool', "O", op) = 0
<1> DEFINE s == <<>>
<1>1. pool' = [pool EXCEPT !["O"] = s]
  BY DEF ReconfigDropTasks
<1>2. Drops(pool, pool', "O", s)
  BY <1>1, Names, Dropping DEF Carried
<1> QED
  BY <1>2 DEF Drops, Carried, Keeps

\* ReconfigRefill requests buffers.
LEMMA ReconfigRefillPools ==
  ASSUME TypeOK, Carried, ReconfigRefill
  PROVE  Rests
<1>1. pool' = FillOutBuffers(pool, Cardinality(OutBufs))
  BY DEF ReconfigRefill
<1>2. pool' \in Pools /\ SameTasks(pool, pool')
  BY <1>1, OutBufsAre, Filling DEF Carried
<1> QED
  BY <1>2, RestingButFor


-----------------------------------------------------------------------------
(* What a step of CodecFilter does to the control of its five threads and to *)
(* the ports of the driver: the tokens of a flush, of an output buffer and   *)
(* of a port's stop are never lost or doubled, the variables keep their      *)
(* types, a stream that is off has no buffers, and each buffer of the driver *)
(* is there once and waited for.                                             *)

\* Where E is while it stops the ports, from the first on.
Stopping == {"stopIn", "stopped", "stopOut", "end"}

\* A flush is one token: with the client that calls it, then a task of F, then F
\* waits for A, whose task or phase it is, and A for E.
FlushTokens ==
  /\ phase["F"] = "waiting" => client = "flushing"
  /\ Pending(pool, "F", "flush")
       = (IF client = "flushing" /\ phase["F"] # "waiting" THEN 1 ELSE 0)
  /\ Pending(pool, "A", "flush") + (IF phase["A"] \in {"flush", "clear"} THEN 1 ELSE 0)
       = (IF phase["F"] = "waiting" THEN 1 ELSE 0)
  /\ Pending(pool, "E", "flush") + (IF phase["E"] \in Stopping THEN 1 ELSE 0)
       = (IF phase["A"] = "flush" /\ result = "none" THEN 1 ELSE 0)

\* An output buffer that A has E enqueue: a task of E until there is a result.
OutTokens ==
  /\ Pending(pool, "E", "out") = (IF phase["A"] = "enqueue" /\ result = "none" THEN 1 ELSE 0)
  /\ result # "none" => phase["A"] \in {"enqueue", "flush"}

\* The stop of a port, a task of its dequeue thread until there is a result.
StopTokens ==
  /\ Pending(pool, "I", "stop") = (IF phase["E"] = "stopIn" /\ portRet = "none" THEN 1 ELSE 0)
  /\ Pending(pool, "O", "stop") = (IF phase["E"] = "stopOut" /\ portRet = "none" THEN 1 ELSE 0)
  /\ portRet # "none" => phase["E"] \in {"stopIn", "stopOut"}

\* The pollers are being woken exactly while E stops the ports.
Woken == user <=> phase["E"] \in Stopping

\* None of them is lost or doubled.
Tokens == FlushTokens /\ OutTokens /\ StopTokens /\ Woken

\* A port whose stop was carried out is off, at each point of a flush and of a
\* change of resolution that relies on it.
PortsAgree ==
  /\ phase["E"] = "stopIn" => portRet # "failed"
  /\ phase["E"] = "stopOut" /\ portRet # "none" => ~on["Out"]
  /\ phase["E"] \in {"stopped", "stopOut", "end"} \/ (phase["E"] = "stopIn" /\ portRet = "ok")
       => ~on["In"]
  /\ phase["E"] = "end" => ~on["Out"]
  /\ phase["A"] = "flush" => result # "failed"
  /\ phase["A"] = "clear" \/ (phase["A"] = "flush" /\ result = "ok") => ~on["Out"]
  /\ phase["O"] \in {"drop", "refill"} => ~on["Out"] /\ phase["A"] # "enqueue"

\* When the client waits for the end of F's tasks, doFlushDone is the last of them.
Synced ==
  /\ \A k \in DOMAIN pool["F"] :
       pool["F"][k].op = "flushDone" => k = Len(pool["F"]) /\ client = "syncing"
  /\ client = "synced" => pool["F"] = <<>>

\* The number of the tasks of this name stays.
Steady(t, op) == Pending(pool', t, op) = Pending(pool, t, op)

\* Those that are tokens.
SteadyTokens ==
  /\ Steady("F", "flush") /\ Steady("A", "flush") /\ Steady("E", "flush")
  /\ Steady("E", "out") /\ Steady("I", "stop") /\ Steady("O", "stop")

\* Steps that move tasks of other names do not touch the tokens.
LEMMA NoTokens ==
  ASSUME TypeOK, Carried, Pipe,
         \/ QueueWork \/ FlushSync \/ FlushEnd \/ DoQueueWork \/ DoWorkDone \/ DoFlushDone
         \/ TakeFill \/ AllocTryAgain \/ OutputEnqueued \/ ClearPipeInputs \/ ClearMaps
         \/ DoPipeInputEnqueue \/ InputEnqueue \/ InputRefused
         \/ CodecOutputStopped \/ CodecFlushDone
         \/ WaitEndsEmpty \/ InputDequeue \/ FeedCheck \/ FeedPiled
         \/ OutputDequeue \/ ResolutionChanged \/ ReconfigOutput \/ ReconfigRefill
         \/ Consume \/ Decode \/ Show \/ ChangeResolution
  PROVE  SteadyTokens
<1>0. \A t \in Threads : \A op : Pending(pool, t, op) \in Nat
  BY PendingType DEF Carried
<1> USE Names DEF Moves, Moved, Counted, Ops, SteadyTokens, Steady
<1>1. CASE QueueWork
  BY <1>0, <1>1, QueueWorkPools
<1>2. CASE FlushSync
  BY <1>0, <1>2, FlushSyncPools
<1>3. CASE DoQueueWork
  <2>1. Moves({<<"E", "in">>}, {<<"F", "work">>}) \/ Moves({}, {<<"F", "work">>})
    BY <1>3, DoQueueWorkPools
  <2> QED
    BY <1>0, <2>1
<1>4. CASE DoWorkDone
  BY <1>0, <1>4, DoWorkDonePools
<1>5. CASE DoFlushDone
  BY <1>0, <1>5, DoFlushDonePools
<1>6. CASE TakeFill
  BY <1>0, <1>6, TakeFillPools DEF Rests
<1>7. CASE AllocTryAgain
  BY <1>0, <1>7, AllocTryAgainPools DEF Rests
<1>8. CASE OutputEnqueued
  BY <1>0, <1>8, OutputEnqueuedPools
<1>9. CASE DoPipeInputEnqueue
  BY <1>0, <1>9, DoPipeInputEnqueuePools DEF Took
<1>10. CASE InputEnqueue
  BY <1>0, <1>10, InputEnqueuePools DEF Gave
<1>11. CASE InputRefused
  BY <1>0, <1>11, InputRefusedPools DEF Answers
<1>12. CASE WaitEndsEmpty
  <2>1. Moves({}, {<<"I", "wait">>}) \/ Moves({}, {<<"O", "wait">>})
    BY <1>12, WaitEndsEmptyPools DEF Took
  <2> QED
    BY <1>0, <2>1
<1>13. CASE InputDequeue
  <2>1. Moves({}, {<<"I", "wait">>})
    BY <1>13, InputDequeuePools DEF Took, Answers
  <2> QED
    BY <1>0, <2>1
<1>14. CASE FeedPiled
  BY <1>0, <1>14, FeedPiledPools DEF Rests, Gave
<1>15. CASE OutputDequeue
  <2>1. Moves({}, {<<"O", "wait">>})
    BY <1>15, OutputDequeuePools DEF Took, Answers
  <2> QED
    BY <1>0, <2>1
<1>16. CASE ResolutionChanged
  <2>1. Moves({}, {<<"O", "wait">>})
    BY <1>16, ResolutionChangedPools DEF Took
  <2> QED
    BY <1>0, <2>1
<1>17. CASE ReconfigRefill
  BY <1>0, <1>17, ReconfigRefillPools DEF Rests
<1>18. CASE FlushEnd \/ ClearPipeInputs \/ ClearMaps \/ CodecOutputStopped \/ CodecFlushDone
            \/ FeedCheck \/ ReconfigOutput \/ Consume \/ Decode \/ Show \/ ChangeResolution
  <2>1. pool' = pool
    BY <1>18 DEF FlushEnd, ClearPipeInputs, ClearMaps, CodecOutputStopped, CodecFlushDone,
                 FeedCheck,
                 ReconfigOutput, Consume, Decode, Show, ChangeResolution, threadVars
  <2> QED
    BY <2>1
<1> QED
  BY <1>1, <1>2, <1>3, <1>4, <1>5, <1>6, <1>7, <1>8, <1>9, <1>10, <1>11, <1>12, <1>13, <1>14,
     <1>15, <1>16, <1>17, <1>18

\* The phases of a thread, and the values of the variables beside them.
LEMMA PhasesAre ==
  ASSUME TypeOK
  PROVE  /\ phase = [t \in Threads |-> phase[t]]
         /\ client \in {"idle", "flushing", "flushed", "syncing", "synced"}
         /\ result \in {"none", "ok", "failed"} /\ portRet \in {"none", "ok", "failed"}
         /\ user \in BOOLEAN
  BY DEF TypeOK

\* The phase of thread t becomes p.
Enters(t, p) == phase'[t] = p /\ \A u \in Threads \ {t} : phase'[u] = phase[u]
\* Assigning a phase is such a change.
LEMMA Entering ==
  ASSUME TypeOK, NEW t \in Threads, NEW p, phase' = [phase EXCEPT ![t] = p]
  PROVE  Enters(t, p)
  BY PhasesAre DEF Enters

\* F's and A's phases when the codec's flush is over.
LEMMA FlushReturning ==
  ASSUME TypeOK, FlushReturned
  PROVE  /\ phase'["F"] = "idle" /\ phase'["A"] = "idle" /\ client' = "flushed"
         /\ \A u \in Threads \ {"F", "A"} : phase'[u] = phase[u]
<1>1. phase = [t \in Threads |-> phase[t]]
  BY PhasesAre
<1>2. phase' = [phase EXCEPT !["A"] = "idle", !["F"] = "idle"] /\ client' = "flushed"
  BY DEF FlushReturned
<1>3. phase' = [t \in Threads |-> IF t = "F" \/ t = "A" THEN "idle" ELSE phase[t]]
  BY <1>1, <1>2, Names
<1> QED
  BY <1>2, <1>3, Names

\* What the tokens speak about stays.
SameControl ==
  /\ SteadyTokens /\ UNCHANGED <<result, portRet, user>>
  /\ client' = "flushing" <=> client = "flushing"
  /\ phase'["F"] = phase["F"] /\ phase'["A"] = phase["A"] /\ phase'["E"] = phase["E"]

\* It stays in steps that pass inputs, pictures and requests on.
LEMMA NoControl ==
  ASSUME TypeOK, Carried, Pipe,
         \/ QueueWork \/ FlushSync \/ FlushEnd \/ DoQueueWork \/ DoWorkDone \/ WaitEndsEmpty
         \/ InputDequeue \/ FeedCheck \/ FeedPiled
         \/ OutputDequeue \/ ResolutionChanged \/ ReconfigOutput \/ ReconfigRefill
         \/ Consume \/ Decode \/ Show \/ ChangeResolution
  PROVE  SameControl
<1>1. SteadyTokens
  BY NoTokens
<1>2. UNCHANGED <<result, portRet, user>> /\ (client' = "flushing" <=> client = "flushing")
  BY DEF QueueWork, FlushSync, FlushEnd, DoQueueWork, DoWorkDone, WaitEndsEmpty, InputDequeue,
         FeedCheck, FeedPiled, OutputDequeue, ResolutionChanged, ReconfigOutput, ReconfigRefill,
         Consume, Decode, Show, ChangeResolution, clientVars, threadVars, codecVars
<1>3. CASE UNCHANGED phase
  BY <1>1, <1>2, <1>3 DEF SameControl
<1>4. CASE InputDequeue \/ FeedCheck \/ FeedPiled
  <2>1. \E p : phase' = [phase EXCEPT !["I"] = p]
    BY <1>4 DEF InputDequeue, FeedCheck, FeedPiled
  <2> QED
    BY <1>1, <1>2, <2>1, Names, Entering DEF Enters, SameControl
<1>5. CASE ResolutionChanged \/ ReconfigOutput \/ ReconfigRefill
  <2>1. \E p : phase' = [phase EXCEPT !["O"] = p]
    BY <1>5 DEF ResolutionChanged, ReconfigOutput, ReconfigRefill
  <2> QED
    BY <1>1, <1>2, <2>1, Names, Entering DEF Enters, SameControl
<1>6. CASE \/ QueueWork \/ FlushSync \/ FlushEnd \/ DoQueueWork \/ DoWorkDone \/ WaitEndsEmpty
           \/ OutputDequeue \/ Consume \/ Decode \/ Show \/ ChangeResolution
  <2>1. UNCHANGED phase
    BY <1>6 DEF QueueWork, FlushSync, FlushEnd, DoQueueWork, DoWorkDone, WaitEndsEmpty,
                OutputDequeue,
                Consume, Decode, Show, ChangeResolution, threadVars
  <2> QED
    BY <1>3, <2>1
<1> QED
  BY <1>4, <1>5, <1>6

\* So do the tokens.
LEMMA SameControlSameTokens ==
  ASSUME Tokens, SameControl
  PROVE  Tokens'
  BY DEF SameControl, SteadyTokens, Steady, Tokens, FlushTokens, OutTokens, StopTokens, Woken

\* The tokens stay as they should be.
LEMMA TokensKept ==
  ASSUME TypeOK, Carried, Pipe, Synced, PortsAgree, Tokens, Next
  PROVE  Tokens'
<1>0. /\ client \in {"idle", "flushing", "flushed", "syncing", "synced"}
      /\ result \in {"none", "ok", "failed"} /\ portRet \in {"none", "ok", "failed"}
      /\ user \in BOOLEAN /\ \A t \in Threads : \A op : Pending(pool, t, op) \in Nat
  BY PhasesAre, PendingType DEF Carried
<1> USE Names
<1>1. CASE \/ QueueWork \/ FlushSync \/ FlushEnd \/ DoQueueWork \/ DoWorkDone \/ WaitEndsEmpty
           \/ InputDequeue \/ FeedCheck \/ FeedPiled
           \/ OutputDequeue \/ ResolutionChanged \/ ReconfigOutput \/ ReconfigRefill
           \/ Consume \/ Decode \/ Show \/ ChangeResolution
  BY <1>1, NoControl, SameControlSameTokens
<1>2. CASE Flush
  <2>1. /\ Pending(pool', "F", "flush") = 1
        /\ Steady("A", "flush") /\ Steady("E", "flush")
        /\ Steady("E", "out") /\ Steady("I", "stop") /\ Steady("O", "stop")
    BY <1>2, FlushPools, PendingSame DEF Keeps, Steady
  <2>2. /\ client = "idle" /\ client' = "flushing"
        /\ UNCHANGED <<phase, result, portRet, user>>
    BY <1>2 DEF Flush, codecVars
  <2> QED
    BY <1>0, <2>1, <2>2 DEF Tokens, FlushTokens, OutTokens, StopTokens, Woken, Steady,
                            SteadyTokens, Stopping
<1>3. CASE DoFlush
  <2>1. /\ Pending(pool', "F", "flush") = Pending(pool, "F", "flush") - 1
        /\ Pending(pool', "A", "flush") = 1
        /\ Steady("E", "flush") /\ Steady("E", "out") /\ Steady("I", "stop") /\ Steady("O", "stop")
    BY <1>3, DoFlushPools, PendingSame DEF Keeps, Steady, Counted, Ops
  <2>2. Pending(pool, "F", "flush") >= 1 /\ phase["F"] = "idle"
    BY <1>3, FirstPending DEF DoFlush, Next_
  <2>3. Enters("F", "waiting") /\ UNCHANGED <<client, result, portRet, user>>
    BY <1>3, Entering DEF DoFlush, clientVars, codecVars
  <2> QED
    BY <1>0, <2>1, <2>2, <2>3 DEF Enters, Tokens, FlushTokens, OutTokens, StopTokens, Woken,
                                  Steady, SteadyTokens, Stopping
<1>4. CASE DoFlushDone
  <2>1. SteadyTokens
    BY <1>4, NoTokens
  <2>2. client = "syncing"
    <3>1. pool["F"] # <<>> /\ Head(pool["F"]).op = "flushDone" /\ pool["F"] \in Seq(Tasks)
      BY <1>4, DoFlushDonePools DEF Carried, Pools
    <3>2. 1 \in DOMAIN pool["F"] /\ pool["F"][1].op = "flushDone"
      BY <3>1
    <3> QED
      BY <3>2 DEF Synced
  <2>3. client' = "synced" /\ UNCHANGED <<phase, result, portRet, user>>
    BY <1>4 DEF DoFlushDone, codecVars
  <2> QED
    BY <1>0, <2>1, <2>2, <2>3 DEF Tokens, FlushTokens, OutTokens, StopTokens, Woken, Steady,
                                  SteadyTokens, Stopping
<1>5. CASE TakeFill \/ AllocTryAgain
  <2>1. SteadyTokens
    BY <1>5, NoTokens
  <2>2. /\ phase["A"] \in {"idle", "lock"} /\ phase'["A"] \in {"idle", "lock"}
        /\ phase'["F"] = phase["F"] /\ phase'["E"] = phase["E"]
    BY <1>5, Entering DEF TakeFill, AllocTryAgain, Next_, Enters
  <2>3. UNCHANGED <<client, result, portRet, user>>
    BY <1>5 DEF TakeFill, AllocTryAgain, clientVars, codecVars
  <2> QED
    BY <1>0, <2>1, <2>2, <2>3 DEF Tokens, FlushTokens, OutTokens, StopTokens, Woken, Steady,
                                  SteadyTokens, Stopping
<1>6. CASE AllocOutBuffer
  <2>1. /\ Pending(pool', "E", "out") = Pending(pool, "E", "out") + 1
        /\ Steady("F", "flush") /\ Steady("A", "flush") /\ Steady("E", "flush")
        /\ Steady("I", "stop") /\ Steady("O", "stop")
    BY <1>0, <1>6, AllocOutBufferPools DEF Gave, Moves, Moved, Counted, Ops, Steady
  <2>2. phase["A"] = "lock" /\ Enters("A", "enqueue") /\ UNCHANGED <<client, result, portRet, user>>
    BY <1>6, Entering DEF AllocOutBuffer, clientVars, codecVars
  <2> QED
    BY <1>0, <2>1, <2>2 DEF Enters, Tokens, FlushTokens, OutTokens, StopTokens, Woken, Steady,
                            SteadyTokens, Stopping
<1>7. CASE OutputEnqueued
  <2>1. SteadyTokens
    BY <1>7, NoTokens
  <2>2. /\ phase["A"] = "enqueue" /\ Enters("A", "idle") /\ result # "none" /\ result' = "none"
        /\ UNCHANGED <<client, portRet, user>>
    BY <1>7, Entering DEF OutputEnqueued, clientVars, codecVars
  <2> QED
    BY <1>0, <2>1, <2>2 DEF Enters, Tokens, FlushTokens, OutTokens, StopTokens, Woken, Steady,
                            SteadyTokens, Stopping
<1>8. CASE CodecFlush
  <2>1. Pending(pool, "A", "flush") >= 1 /\ phase["A"] = "idle"
          /\ UNCHANGED <<result, portRet, user>>
    BY <1>8, CodecFlushPools DEF CodecFlush, Next_, codecVars
  <2>2. CASE configured
    <3>1. /\ Pending(pool', "E", "flush") = Pending(pool, "E", "flush") + 1
          /\ Pending(pool', "A", "flush") = Pending(pool, "A", "flush") - 1
          /\ Steady("F", "flush") /\ Steady("E", "out") /\ Steady("I", "stop")
          /\ Steady("O", "stop")
      <4>1. Moves({<<"E", "flush">>}, {<<"A", "flush">>})
        BY <1>8, <2>2, CodecFlushPools
      <4> QED
        BY <1>0, <4>1 DEF Moves, Moved, Counted, Ops, Steady
    <3>2. Enters("A", "flush") /\ UNCHANGED client
      BY <1>8, <2>2, Entering DEF CodecFlush
    <3> QED
      BY <1>0, <2>1, <3>1, <3>2 DEF Enters, Tokens, FlushTokens, OutTokens, StopTokens, Woken,
                                    Steady, SteadyTokens, Stopping
  <2>3. CASE ~configured
    <3>1. /\ Pending(pool', "A", "flush") = Pending(pool, "A", "flush") - 1
          /\ Steady("F", "flush") /\ Steady("E", "flush") /\ Steady("E", "out")
          /\ Steady("I", "stop") /\ Steady("O", "stop")
      <4>1. Moves({}, {<<"A", "flush">>})
        BY <1>8, <2>3, CodecFlushPools
      <4> QED
        BY <1>0, <4>1 DEF Moves, Moved, Counted, Ops, Steady
    <3>2. /\ phase'["F"] = "idle" /\ phase'["A"] = "idle" /\ client' = "flushed"
          /\ \A u \in Threads \ {"F", "A"} : phase'[u] = phase[u]
      BY <1>8, <2>3, FlushReturning DEF CodecFlush
    <3> QED
      BY <1>0, <2>1, <3>1, <3>2 DEF Tokens, FlushTokens, OutTokens, StopTokens, Woken, Steady,
                                    SteadyTokens, Stopping
  <2> QED
    BY <2>2, <2>3
<1>9. CASE ClearPipeInputs
  <2>1. SteadyTokens /\ phase["A"] = "flush" /\ result # "none" /\ result' = "none"
        /\ UNCHANGED <<portRet, user>>
    BY <1>9, NoTokens DEF ClearPipeInputs
  <2>2. CASE result = "ok"
    <3>1. Enters("A", "clear") /\ UNCHANGED client
      BY <1>9, <2>2, Entering DEF ClearPipeInputs
    <3> QED
      BY <1>0, <2>1, <2>2, <3>1 DEF Enters, Tokens, FlushTokens, OutTokens, StopTokens, Woken,
                                    Steady, SteadyTokens, Stopping
  <2>3. CASE result # "ok"
    <3>1. /\ phase'["F"] = "idle" /\ phase'["A"] = "idle" /\ client' = "flushed"
          /\ \A u \in Threads \ {"F", "A"} : phase'[u] = phase[u]
      BY <1>9, <2>3, FlushReturning DEF ClearPipeInputs
    <3> QED
      BY <1>0, <2>1, <3>1 DEF Tokens, FlushTokens, OutTokens, StopTokens, Woken, Steady,
                              SteadyTokens, Stopping
  <2> QED
    BY <2>2, <2>3
<1>10. CASE ClearMaps
  <2>1. SteadyTokens /\ phase["A"] = "clear" /\ UNCHANGED <<result, portRet, user>>
    BY <1>10, NoTokens DEF ClearMaps
  <2>2. /\ phase'["F"] = "idle" /\ phase'["A"] = "idle" /\ client' = "flushed"
        /\ \A u \in Threads \ {"F", "A"} : phase'[u] = phase[u]
    BY <1>10, FlushReturning DEF ClearMaps
  <2> QED
    BY <1>0, <2>1, <2>2 DEF Tokens, FlushTokens, OutTokens, StopTokens, Woken, Steady,
                            SteadyTokens, Stopping
<1>11. CASE DoPipeInputEnqueue \/ InputEnqueue \/ InputRefused
  <2>1. SteadyTokens /\ UNCHANGED <<client, result, portRet, user>>
    BY <1>11, NoTokens DEF DoPipeInputEnqueue, InputEnqueue, InputRefused, clientVars
  <2>2. /\ phase["E"] \in {"idle", "pipe"} /\ phase'["E"] \in {"idle", "pipe"}
        /\ phase'["F"] = phase["F"] /\ phase'["A"] = phase["A"]
    <3>1. phase' = Piping /\ phase["E"] \in {"idle", "pipe"}
      BY <1>11 DEF DoPipeInputEnqueue, InputEnqueue, InputRefused, Next_
    <3> DEFINE p == IF left' > 0 /\ mPipeInputs' # <<>> THEN "pipe" ELSE "idle"
    <3>2. phase' = [phase EXCEPT !["E"] = p] /\ p \in {"idle", "pipe"}
      BY <3>1 DEF Piping
    <3> HIDE DEF p
    <3> QED
      BY <3>1, <3>2, Entering DEF Enters
  <2> QED
    BY <1>0, <2>1, <2>2 DEF Tokens, FlushTokens, OutTokens, StopTokens, Woken, Steady,
                            SteadyTokens, Stopping
<1>12. CASE DoOutputEnqueue
  <2>1. /\ Pending(pool', "E", "out") = Pending(pool, "E", "out") - 1
        /\ Pending(pool, "E", "out") >= 1
        /\ Steady("F", "flush") /\ Steady("A", "flush") /\ Steady("E", "flush")
        /\ Steady("I", "stop") /\ Steady("O", "stop")
    BY <1>0, <1>12, DoOutputEnqueuePools DEF Took, Moves, Moved, Counted, Ops, Steady
  <2>2. result' \in {"ok", "failed"} /\ UNCHANGED <<client, phase, portRet, user>>
    BY <1>12 DEF DoOutputEnqueue, clientVars
  <2> QED
    BY <1>0, <2>1, <2>2 DEF Tokens, FlushTokens, OutTokens, StopTokens, Woken, Steady,
                            SteadyTokens, Stopping
<1>13. CASE CodecDoFlush
  <2>1. /\ Pending(pool, "E", "flush") >= 1 /\ phase["E"] = "idle" /\ user' = TRUE
        /\ Enters("E", IF on["In"] THEN "stopIn" ELSE "stopped")
        /\ UNCHANGED <<client, result, portRet>>
    BY <1>13, CodecDoFlushPools, Entering DEF CodecDoFlush, Next_, clientVars
  <2>2. CASE on["In"]
    <3>1. /\ Pending(pool', "I", "stop") = Pending(pool, "I", "stop") + 1
          /\ Pending(pool', "E", "flush") = Pending(pool, "E", "flush") - 1
          /\ Steady("F", "flush") /\ Steady("A", "flush") /\ Steady("E", "out")
          /\ Steady("O", "stop")
      <4>1. Moves({<<"I", "stop">>}, {<<"E", "flush">>})
        BY <1>13, <2>2, CodecDoFlushPools
      <4> QED
        BY <1>0, <4>1 DEF Moves, Moved, Counted, Ops, Steady
    <3> QED
      BY <1>0, <2>1, <2>2, <3>1 DEF Enters, Tokens, FlushTokens, OutTokens, StopTokens, Woken,
                                    Steady, SteadyTokens, Stopping
  <2>3. CASE ~on["In"]
    <3>1. /\ Pending(pool', "E", "flush") = Pending(pool, "E", "flush") - 1
          /\ Steady("F", "flush") /\ Steady("A", "flush") /\ Steady("E", "out")
          /\ Steady("I", "stop") /\ Steady("O", "stop")
      <4>1. Moves({}, {<<"E", "flush">>})
        BY <1>13, <2>3, CodecDoFlushPools
      <4> QED
        BY <1>0, <4>1 DEF Moves, Moved, Counted, Ops, Steady
    <3> QED
      BY <1>0, <2>1, <2>3, <3>1 DEF Enters, Tokens, FlushTokens, OutTokens, StopTokens, Woken,
                                    Steady, SteadyTokens, Stopping
  <2> QED
    BY <2>2, <2>3
<1>14. CASE CodecStopOutput
  <2>1. /\ phase["E"] = "stopped" \/ (phase["E"] = "stopIn" /\ portRet = "ok")
        /\ portRet' = "none" /\ Enters("E", IF on["Out"] THEN "stopOut" ELSE "end")
        /\ UNCHANGED <<client, result, user>>
    BY <1>14, Entering DEF CodecStopOutput, clientVars, codecVars
  <2>2. CASE on["Out"]
    <3>1. /\ Pending(pool', "O", "stop") = Pending(pool, "O", "stop") + 1
          /\ Steady("F", "flush") /\ Steady("A", "flush") /\ Steady("E", "flush")
          /\ Steady("E", "out") /\ Steady("I", "stop")
      BY <1>0, <1>14, <2>2, CodecStopOutputPools DEF Gave, Moves, Moved, Counted, Ops, Steady
    <3> QED
      BY <1>0, <2>1, <2>2, <3>1 DEF Enters, Tokens, FlushTokens, OutTokens, StopTokens, Woken,
                                    Steady, SteadyTokens, Stopping
  <2>3. CASE ~on["Out"]
    <3>1. SteadyTokens
      BY <1>14, <2>3, CodecStopOutputPools DEF Steady, SteadyTokens
    <3> QED
      BY <1>0, <2>1, <2>3, <3>1 DEF Enters, Tokens, FlushTokens, OutTokens, StopTokens, Woken,
                                    Steady, SteadyTokens, Stopping
  <2> QED
    BY <2>2, <2>3
<1>15. CASE CodecOutputStopped
  <2>1. /\ SteadyTokens /\ phase["E"] = "stopOut" /\ portRet # "none" /\ portRet' = "none"
        /\ UNCHANGED <<client, user>>
    BY <1>15, NoTokens DEF CodecOutputStopped, clientVars, codecVars
  <2>2. CASE portRet = "ok" \/ StopTolerated
    <3>1. Enters("E", "end") /\ UNCHANGED result
      BY <1>15, <2>2, Entering DEF CodecOutputStopped
    <3> QED
      BY <1>0, <2>1, <3>1 DEF Enters, Tokens, FlushTokens, OutTokens, StopTokens, Woken, Steady,
                              SteadyTokens, Stopping
  <2>3. CASE ~(portRet = "ok" \/ StopTolerated)
    BY <2>1, <2>3 DEF PortsAgree, StopTolerated
  <2> QED
    BY <2>2, <2>3
<1>16. CASE CodecFlushDone
  <2>1. /\ SteadyTokens /\ phase["E"] = "end" /\ user' = FALSE /\ Enters("E", "idle")
        /\ result' = "ok"
        /\ UNCHANGED <<client, portRet>>
    BY <1>16, NoTokens, Entering DEF CodecFlushDone, clientVars
  <2> QED
    BY <1>0, <2>1 DEF Enters, Tokens, FlushTokens, OutTokens, StopTokens, Woken, Steady,
                      SteadyTokens, Stopping
<1>17. CASE InputPortStop
  <2>1. /\ Pending(pool', "I", "stop") = Pending(pool, "I", "stop") - 1
        /\ Pending(pool, "I", "stop") >= 1
        /\ Steady("F", "flush") /\ Steady("A", "flush") /\ Steady("E", "flush")
        /\ Steady("E", "out") /\ Steady("O", "stop")
    BY <1>0, <1>17, InputPortStopPools DEF Took, Moves, Moved, Counted, Ops, Steady
  <2>2. portRet' = "ok" /\ UNCHANGED <<client, phase, result, user>>
    BY <1>17 DEF InputPortStop, clientVars
  <2> QED
    BY <1>0, <2>1, <2>2 DEF Tokens, FlushTokens, OutTokens, StopTokens, Woken, Steady,
                            SteadyTokens, Stopping
<1>18. CASE OutputPortStop
  <2>1. /\ Pending(pool', "O", "stop") = Pending(pool, "O", "stop") - 1
        /\ Pending(pool, "O", "stop") >= 1
        /\ Steady("F", "flush") /\ Steady("A", "flush") /\ Steady("E", "flush")
        /\ Steady("E", "out") /\ Steady("I", "stop")
    BY <1>0, <1>18, OutputPortStopPools DEF Took, Moves, Moved, Counted, Ops, Steady
  <2>2. portRet' = "ok" /\ UNCHANGED <<client, phase, result, user>>
    BY <1>18 DEF OutputPortStop, clientVars
  <2> QED
    BY <1>0, <2>1, <2>2 DEF Tokens, FlushTokens, OutTokens, StopTokens, Woken, Steady,
                            SteadyTokens, Stopping
<1>19. CASE ReconfigDropTasks
  <2>1. /\ Pending(pool', "O", "stop") = 0
        /\ Steady("F", "flush") /\ Steady("A", "flush") /\ Steady("E", "flush")
        /\ Steady("E", "out") /\ Steady("I", "stop")
    BY <1>19, ReconfigDropTasksPools, PendingSame DEF Keeps, Steady
  <2>2. /\ portRet' = (IF Pending(pool, "O", "stop") > 0 THEN "failed" ELSE portRet)
        /\ Enters("O", "refill") /\ UNCHANGED <<client, result, user>>
    BY <1>19, Entering DEF ReconfigDropTasks, clientVars, codecVars
  <2> QED
    BY <1>0, <2>1, <2>2 DEF Enters, Tokens, FlushTokens, OutTokens, StopTokens, Woken, Steady,
                            SteadyTokens, Stopping
<1> QED
  BY <1>1, <1>2, <1>3, <1>4, <1>5, <1>6, <1>7, <1>8, <1>9,
     <1>10, <1>11, <1>12, <1>13, <1>14, <1>15, <1>16, <1>17, <1>18, <1>19
     DEF Next, ClientReturns, FSteps, ASteps, ESteps, ISteps, OSteps

----------------------------------------------------------------------------
(* The types of the variables. *)

\* The points a thread can be at.
Phases == {"idle", "waiting", "lock", "enqueue", "flush", "clear", "pipe", "stopIn", "stopped",
           "stopOut", "end", "feed", "peek", "reconfigure", "drop", "refill"}

\* TypeOK, by the part of the state.
ClientTyped ==
  /\ client \in {"idle", "flushing", "flushed", "syncing", "synced"}
  /\ queued \in 0..NumInputs /\ answered \subseteq Inputs /\ flushed \subseteq Inputs

\* The types of what the threads keep between their steps.
ThreadsTyped ==
  /\ phase \in [Threads -> Phases]
  /\ result \in {"none", "ok", "failed"} /\ portRet \in {"none", "ok", "failed"}
  /\ left \in 0..MaxIn /\ buf \in {{}} \cup {{b} : b \in Bufs}

\* Of the members of the codec.
CodecTyped ==
  /\ configured \in BOOLEAN /\ user \in BOOLEAN /\ fed \in BOOLEAN /\ lapped \in BOOLEAN
  /\ mWorkInfos \subseteq Inputs /\ mPipeInputs \in Seq(Inputs)
  /\ mInputs \in [Tags -> 0..NumInputs] /\ mOutputs \subseteq Bufs /\ mTagNum \in Tags

\* Of the driver.
DriverTyped ==
  /\ on \in [Ports -> BOOLEAN] /\ changed \in BOOLEAN
  /\ src \in Seq([in : Inputs, tag : Tags]) /\ srcDone \in Seq([in : Inputs, used : BOOLEAN])
  /\ dst \subseteq Bufs /\ held \subseteq [buf : Bufs, tag : Tags]
  /\ dstDone \in Seq([buf : Bufs, tag : Tags, change : BOOLEAN])

\* Of the pools.
PoolsTyped == pool \in [Threads -> Seq([op : Ops, in : 0..NumInputs])]

\* No tag is in use.
NoInputs == [t \in Tags |-> None]

\* The parts make TypeOK.
LEMMA TypeParts ==
  TypeOK <=> ClientTyped /\ PoolsTyped /\ ThreadsTyped /\ CodecTyped /\ DriverTyped
  BY DEF TypeOK, ClientTyped, PoolsTyped, ThreadsTyped, CodecTyped, DriverTyped, Phases

\* Pools that hold tasks have the type.
LEMMA PoolsHaveType == Pools \subseteq [Threads -> Seq([op : Ops, in : 0..NumInputs])]
<1> DEFINE T == [op : Ops, in : 0..NumInputs]
<1>1. Tasks \subseteq T
  BY DEF Tasks
<1> HIDE DEF T
<1>2. Seq(Tasks) \subseteq Seq(T)
  <2> SUFFICES ASSUME NEW s \in Seq(Tasks) PROVE s \in Seq(T)
    OBVIOUS
  <2> QED
    BY <1>1
<1> QED
  BY <1>2 DEF Pools, T

\* The pools hold tasks after every step.
LEMMA CarriedKept ==
  ASSUME TypeOK, Carried, Pipe, Next
  PROVE  Carried'
<1>1. CASE QueueWork \/ Flush \/ FlushSync \/ DoQueueWork \/ DoWorkDone \/ DoFlush \/ DoFlushDone
  BY <1>1, QueueWorkPools, FlushPools, FlushSyncPools, DoQueueWorkPools, DoWorkDonePools,
     DoFlushPools, DoFlushDonePools
<1>2. CASE TakeFill \/ AllocOutBuffer \/ AllocTryAgain \/ OutputEnqueued \/ CodecFlush
  BY <1>2, TakeFillPools, AllocOutBufferPools, AllocTryAgainPools, OutputEnqueuedPools,
     CodecFlushPools DEF Rests, Gave
<1>3. CASE DoPipeInputEnqueue \/ InputEnqueue \/ InputRefused \/ DoOutputEnqueue
           \/ CodecDoFlush \/ CodecStopOutput
  BY <1>3, DoPipeInputEnqueuePools, InputEnqueuePools, InputRefusedPools, DoOutputEnqueuePools,
     CodecDoFlushPools, CodecStopOutputPools DEF Rests, Gave, Took, Answers
<1>4. CASE WaitEndsEmpty \/ InputDequeue \/ FeedPiled \/ InputPortStop
  BY <1>4, WaitEndsEmptyPools, InputDequeuePools, FeedPiledPools, InputPortStopPools
     DEF Rests, Gave, Took, Answers
<1>5. CASE OutputDequeue \/ ResolutionChanged \/ OutputPortStop \/ ReconfigDropTasks
           \/ ReconfigRefill
  BY <1>5, OutputDequeuePools, ResolutionChangedPools, OutputPortStopPools,
     ReconfigDropTasksPools, ReconfigRefillPools DEF Rests, Took, Answers
<1>6. CASE \/ FlushEnd \/ ClearPipeInputs \/ ClearMaps \/ CodecOutputStopped \/ CodecFlushDone
           \/ FeedCheck \/ ReconfigOutput \/ Consume \/ Decode \/ Show \/ ChangeResolution
  <2>1. pool' = pool
    BY <1>6 DEF FlushEnd, ClearPipeInputs, ClearMaps, CodecOutputStopped, CodecFlushDone, FeedCheck,
                ReconfigOutput, Consume, Decode, Show, ChangeResolution, threadVars
  <2> QED
    BY <2>1 DEF Carried
<1> QED
  BY <1>1, <1>2, <1>3, <1>4, <1>5, <1>6
     DEF Next, ClientReturns, FSteps, ASteps, ESteps, ISteps, OSteps

\* A step changes the phase of one thread at most, or returns from the codec's flush.
LEMMA PhaseSteps ==
  ASSUME Next
  PROVE  \/ UNCHANGED phase \/ FlushReturned
         \/ \E t \in Threads : \E p \in Phases : phase' = [phase EXCEPT ![t] = p]
<1> USE DEF threadVars
<1>1. CASE \/ QueueWork \/ Flush \/ FlushSync \/ FlushEnd \/ DoQueueWork \/ DoWorkDone
           \/ DoFlushDone \/ DoOutputEnqueue \/ WaitEndsEmpty \/ InputPortStop \/ OutputDequeue
           \/ OutputPortStop \/ Consume \/ Decode \/ Show \/ ChangeResolution
  BY <1>1 DEF QueueWork, Flush, FlushSync, FlushEnd, DoQueueWork, DoWorkDone, DoFlushDone,
       DoOutputEnqueue, WaitEndsEmpty, InputPortStop, OutputDequeue, OutputPortStop, Consume,
       Decode, Show, ChangeResolution
<1>2. CASE DoFlush
  BY <1>2, Names DEF DoFlush, Phases
<1>3. CASE \/ TakeFill \/ AllocOutBuffer \/ AllocTryAgain \/ OutputEnqueued \/ CodecFlush
           \/ ClearPipeInputs \/ ClearMaps
  BY <1>3, Names DEF TakeFill, AllocOutBuffer, AllocTryAgain, OutputEnqueued, CodecFlush,
       ClearPipeInputs, ClearMaps, Phases
<1>4. CASE DoPipeInputEnqueue \/ InputEnqueue \/ InputRefused
  BY <1>4, Names DEF DoPipeInputEnqueue, InputEnqueue, InputRefused, Piping, Phases
<1>5. CASE CodecDoFlush \/ CodecStopOutput \/ CodecOutputStopped \/ CodecFlushDone
  BY <1>5, Names DEF CodecDoFlush, CodecStopOutput, CodecOutputStopped, CodecFlushDone, Phases
<1>6. CASE \/ InputDequeue \/ FeedCheck \/ FeedPiled
           \/ ResolutionChanged \/ ReconfigOutput \/ ReconfigDropTasks \/ ReconfigRefill
  BY <1>6, Names DEF InputDequeue, FeedCheck, FeedPiled, ResolutionChanged, ReconfigOutput,
       ReconfigDropTasks, ReconfigRefill, Phases
<1> QED
  BY <1>1, <1>2, <1>3, <1>4, <1>5, <1>6
     DEF Next, ClientReturns, FSteps, ASteps, ESteps, ISteps, OSteps

\* The component's variables keep their types.
LEMMA ClientTypeKept ==
  ASSUME TypeOK, Carried, Next
  PROVE  ClientTyped'
<1>0. ClientTyped
  BY TypeParts
<1> USE DEF ClientTyped
<1>1. CASE UNCHANGED <<client, queued, answered, flushed>>
  BY <1>0, <1>1
<1>2. CASE QueueWork
  <2>1. queued' = queued + 1 /\ queued < NumInputs /\ UNCHANGED <<client, answered, flushed>>
    BY <1>2 DEF QueueWork
  <2> QED
    BY <1>0, <2>1, CodecFilterAssumption
<1>3. CASE DoWorkDone
  <2>1. Head(pool["F"]).in \in Inputs
    BY <1>3, DoWorkDonePools
  <2> QED
    BY <1>0, <1>3, <2>1 DEF DoWorkDone
<1>4. CASE FlushEnd
  <2>1. 1..queued \subseteq Inputs
    BY <1>0, CodecFilterAssumption DEF Inputs
  <2> QED
    BY <1>0, <1>4, <2>1 DEF FlushEnd
<1>5. CASE Flush \/ FlushSync \/ DoFlushDone \/ CodecFlush \/ ClearPipeInputs \/ ClearMaps
  <2>1. client' \in {"idle", "flushing", "flushed", "syncing", "synced"}
    BY <1>0, <1>5 DEF Flush, FlushSync, DoFlushDone, CodecFlush, ClearPipeInputs, ClearMaps,
                      FlushReturned
  <2>2. UNCHANGED <<queued, answered, flushed>>
    BY <1>5 DEF Flush, FlushSync, DoFlushDone, CodecFlush, ClearPipeInputs, ClearMaps
  <2> QED
    BY <1>0, <2>1, <2>2
<1>6. CASE \/ DoQueueWork \/ DoFlush
           \/ TakeFill \/ AllocOutBuffer \/ AllocTryAgain \/ OutputEnqueued \/ ESteps
           \/ WaitEndsEmpty \/ ISteps \/ OSteps \/ Consume \/ Decode \/ Show \/ ChangeResolution
  <2>1. UNCHANGED clientVars
    BY <1>6 DEF DoQueueWork, DoFlush, TakeFill, AllocOutBuffer, AllocTryAgain, OutputEnqueued,
       ESteps, ISteps, OSteps, DoPipeInputEnqueue, InputEnqueue, InputRefused, DoOutputEnqueue,
       CodecDoFlush, CodecStopOutput, CodecOutputStopped, CodecFlushDone, WaitEndsEmpty,
       InputDequeue, FeedCheck, FeedPiled, InputPortStop, OutputDequeue, ResolutionChanged,
       ReconfigOutput, ReconfigDropTasks, ReconfigRefill, OutputPortStop,
       Consume, Decode, Show, ChangeResolution
  <2> QED
    BY <1>1, <2>1 DEF clientVars
<1> QED
  BY <1>2, <1>3, <1>4, <1>5, <1>6 DEF Next, ClientReturns, FSteps, ASteps

\* The threads' variables keep their types.
LEMMA ThreadsTypeKept ==
  ASSUME TypeOK, Carried, Pipe, Next
  PROVE  ThreadsTyped'
<1>0. ThreadsTyped /\ MaxIn \in Nat \ {0}
  BY TypeParts, CodecFilterAssumption
<1>1. phase' \in [Threads -> Phases]
  <2>1. CASE UNCHANGED phase
    BY <1>0, <2>1 DEF ThreadsTyped
  <2>2. CASE FlushReturned
    BY <1>0, <2>2, Names DEF ThreadsTyped, FlushReturned, Phases
  <2>3. CASE \E t \in Threads : \E p \in Phases : phase' = [phase EXCEPT ![t] = p]
    BY <1>0, <2>3 DEF ThreadsTyped
  <2> QED
    BY <2>1, <2>2, <2>3, PhaseSteps
<1> DEFINE Others == /\ result' \in {"none", "ok", "failed"}
                     /\ portRet' \in {"none", "ok", "failed"}
                     /\ left' \in 0..MaxIn /\ buf' \in {{}} \cup {{b} : b \in Bufs}
<1> SUFFICES Others
  BY <1>1 DEF ThreadsTyped
<1>2. CASE UNCHANGED <<result, portRet, left, buf>>
  BY <1>0, <1>2 DEF ThreadsTyped
<1>3. CASE AllocOutBuffer
  <2>1. PICK b \in FreeBufs : buf' = {b}
    BY <1>3 DEF AllocOutBuffer
  <2> QED
    BY <1>0, <1>3, <2>1 DEF ThreadsTyped, AllocOutBuffer, FreeBufs
<1>4. CASE \/ OutputEnqueued \/ ClearPipeInputs \/ DoOutputEnqueue \/ CodecStopOutput
           \/ CodecOutputStopped \/ CodecFlushDone \/ InputPortStop \/ ReconfigDropTasks
           \/ OutputPortStop
  <2>1. UNCHANGED left /\ (UNCHANGED buf \/ buf' = {})
    BY <1>4 DEF OutputEnqueued, ClearPipeInputs, DoOutputEnqueue, CodecStopOutput,
                CodecOutputStopped, CodecFlushDone, InputPortStop, ReconfigDropTasks, OutputPortStop
  <2>2. result' \in {"none", "ok", "failed", result}
          /\ portRet' \in {"none", "ok", "failed", portRet}
    BY <1>4 DEF OutputEnqueued, ClearPipeInputs, DoOutputEnqueue, CodecStopOutput,
                CodecOutputStopped, CodecFlushDone, InputPortStop, ReconfigDropTasks, OutputPortStop
  <2> QED
    BY <1>0, <2>1, <2>2 DEF ThreadsTyped
<1>5. CASE DoPipeInputEnqueue
  <2>1. InBufs \in Nat
    BY DEF TypeOK, InBufs
  <2> QED
    BY <1>0, <1>5, <2>1 DEF ThreadsTyped, DoPipeInputEnqueue
<1>6. CASE InputEnqueue \/ InputRefused
  <2>1. left' = left - 1 /\ left > 0 /\ UNCHANGED <<result, portRet, buf>>
    BY <1>6 DEF InputEnqueue, InputRefused, Pipe
  <2> QED
    BY <1>0, <2>1 DEF ThreadsTyped
<1>7. CASE \/ QueueWork \/ Flush \/ ClientReturns \/ FSteps \/ TakeFill \/ AllocTryAgain
           \/ CodecFlush
           \/ ClearMaps \/ CodecDoFlush \/ WaitEndsEmpty \/ InputDequeue \/ FeedCheck \/ FeedPiled
           \/ OutputDequeue \/ ResolutionChanged \/ ReconfigOutput \/ ReconfigRefill
           \/ Consume \/ Decode \/ Show \/ ChangeResolution
  BY <1>2, <1>7 DEF QueueWork, Flush, ClientReturns, FlushSync, FlushEnd, FSteps, DoQueueWork,
       DoWorkDone, DoFlush, DoFlushDone, TakeFill, AllocTryAgain, CodecFlush, ClearMaps,
       CodecDoFlush, WaitEndsEmpty, InputDequeue, FeedCheck, FeedPiled, OutputDequeue,
       ResolutionChanged, ReconfigOutput, ReconfigRefill, Consume, Decode, Show,
       ChangeResolution, threadVars
<1> QED
  BY <1>2, <1>3, <1>4, <1>5, <1>6, <1>7 DEF Next, ASteps, ESteps, ISteps, OSteps

\* The codec's variables keep their types.
LEMMA CodecTypeKept ==
  ASSUME TypeOK, Carried, Pipe, Next
  PROVE  CodecTyped'
<1>0. CodecTyped /\ MaxTag \in Nat \ {0} /\ NumInputs \in Nat
  BY TypeParts, CodecFilterAssumption
<1> USE DEF CodecTyped
<1>1. CASE UNCHANGED codecVars
  BY <1>0, <1>1 DEF codecVars
<1>2. NoInputs \in [Tags -> 0..NumInputs]
  BY <1>0 DEF NoInputs, None
<1>3. CASE FlushEnd \/ CodecDoFlush \/ CodecFlushDone
  BY <1>0, <1>3 DEF FlushEnd, CodecDoFlush, CodecFlushDone
<1>4. CASE DoQueueWork
  <2>1. PICK i \in Inputs : DoProcess(i) \/ SetupFails(i)
    BY <1>4, DoQueueWorkPools
  <2>2. /\ configured' \in BOOLEAN /\ mWorkInfos' \subseteq Inputs
    BY <1>0, <2>1 DEF DoProcess, SetupFails
  <2> QED
    BY <1>0, <1>4, <2>2 DEF DoQueueWork
<1>5. CASE ClearPipeInputs \/ ClearMaps \/ InputPortStop
  <2>1. mPipeInputs' \in Seq(Inputs) /\ mInputs' \in [Tags -> 0..NumInputs]
          /\ mOutputs' \subseteq Bufs
    BY <1>0, <1>2, <1>5, EmptySeq DEF ClearPipeInputs, ClearMaps, InputPortStop, StopInput, NoInputs
  <2> QED
    BY <1>0, <1>5, <2>1 DEF ClearPipeInputs, ClearMaps, InputPortStop
<1>6. CASE DoPipeInputEnqueue
  <2>1. mPipeInputs' \in Seq(Inputs)
    <3>1. Head(pool["E"]).op = "in" => Head(pool["E"]).in \in Inputs
      BY <1>6, DoPipeInputEnqueuePools DEF Took
    <3> QED
      BY <1>0, <1>6, <3>1, AppendProperties DEF DoPipeInputEnqueue
  <2> QED
    BY <1>0, <1>6, <2>1 DEF DoPipeInputEnqueue
<1>7. CASE InputEnqueue \/ InputRefused
  <2>1. mPipeInputs # <<>>
    BY <1>7 DEF InputEnqueue, InputRefused, Pipe
  <2>2. Head(mPipeInputs) \in Inputs /\ Tail(mPipeInputs) \in Seq(Inputs)
    BY <1>0, <2>1, TailProperties
  <2>3. CASE InputEnqueue
    <3>1. mTagNum' \in Tags
      BY <1>0, <2>3 DEF InputEnqueue, NextTag, Tags
    <3>2. mInputs' \in [Tags -> 0..NumInputs]
      BY <1>0, <2>2, <2>3 DEF InputEnqueue, FrameTag, Inputs
    <3>3. fed' \in BOOLEAN /\ lapped' \in BOOLEAN
      BY <2>3 DEF InputEnqueue
    <3> QED
      BY <1>0, <2>2, <2>3, <3>1, <3>2, <3>3 DEF InputEnqueue
  <2>4. CASE InputRefused
    BY <1>0, <2>2, <2>4, InputRefusedPools DEF InputRefused, Answers
  <2> QED
    BY <1>7, <2>3, <2>4
<1>8. CASE DoOutputEnqueue
  <2>1. mOutputs' \subseteq Bufs
    BY <1>8 DEF TypeOK, DoOutputEnqueue
  <2> QED
    BY <1>0, <1>8, <2>1 DEF DoOutputEnqueue
<1>9. CASE InputDequeue
  <2>1. mInputs' \in [Tags -> 0..NumInputs]
    BY <1>0, <1>9 DEF InputDequeue, None
  <2>2. mWorkInfos' \subseteq Inputs
    BY <1>0, <1>9, InputDequeuePools DEF InputDequeue, Answers
  <2> QED
    BY <1>0, <1>9, <2>1, <2>2 DEF InputDequeue
<1>10. CASE OutputDequeue
  <2>1. mInputs' \in [Tags -> 0..NumInputs]
    BY <1>0, <1>10 DEF OutputDequeue, None
  <2>2. mWorkInfos' \subseteq Inputs
    BY <1>0, <1>10, OutputDequeuePools DEF OutputDequeue, Answers
  <2>3. mOutputs' \subseteq Bufs
    BY <1>0, <1>10 DEF OutputDequeue
  <2> QED
    BY <1>0, <1>10, <2>1, <2>2, <2>3 DEF OutputDequeue
<1>11. CASE ReconfigOutput \/ OutputPortStop
  BY <1>0, <1>11 DEF ReconfigOutput, OutputPortStop, StopOutput
<1>12. CASE \/ QueueWork \/ Flush \/ FlushSync \/ DoWorkDone \/ DoFlush \/ DoFlushDone
            \/ TakeFill \/ AllocOutBuffer \/ AllocTryAgain \/ OutputEnqueued \/ CodecFlush
            \/ CodecStopOutput \/ CodecOutputStopped \/ WaitEndsEmpty \/ FeedCheck \/ FeedPiled
            \/ ResolutionChanged \/ ReconfigDropTasks \/ ReconfigRefill
            \/ Consume \/ Decode \/ Show \/ ChangeResolution
  BY <1>1, <1>12 DEF QueueWork, Flush, FlushSync, DoWorkDone, DoFlush, DoFlushDone, TakeFill,
       AllocOutBuffer, AllocTryAgain, OutputEnqueued, CodecFlush, CodecStopOutput,
       CodecOutputStopped, WaitEndsEmpty, FeedCheck, FeedPiled, ResolutionChanged,
       ReconfigDropTasks, ReconfigRefill, Consume, Decode, Show, ChangeResolution
<1> QED
  BY <1>3, <1>4, <1>5, <1>6, <1>7, <1>8, <1>9, <1>10, <1>11, <1>12
     DEF Next, ClientReturns, FSteps, ASteps, ESteps, ISteps, OSteps

\* The driver's variables keep their types.
LEMMA DriverTypeKept ==
  ASSUME TypeOK, Carried, Pipe, Next
  PROVE  DriverTyped'
<1>0. DriverTyped
  BY TypeParts
<1> USE DEF DriverTyped
<1>1. CASE UNCHANGED <<on, changed, src, srcDone, dst, held, dstDone>>
  BY <1>0, <1>1
<1>2. CASE InputEnqueue
  <2>1. mPipeInputs # <<>> /\ mPipeInputs \in Seq(Inputs) /\ mTagNum \in Tags
    BY <1>2, TypeParts DEF InputEnqueue, Pipe, CodecTyped
  <2>2. [in |-> Head(mPipeInputs), tag |-> mTagNum] \in [in : Inputs, tag : Tags]
    BY <2>1
  <2>3. src' = Append(src, [in |-> Head(mPipeInputs), tag |-> mTagNum])
    BY <1>2 DEF InputEnqueue
  <2> DEFINE T == [in : Inputs, tag : Tags]
             x == [in |-> Head(mPipeInputs), tag |-> mTagNum]
  <2>4. src' \in Seq(T)
    <3> HIDE DEF T, x
    <3> QED
      BY <1>0, <2>2, <2>3, AppendProperties DEF T, x
  <2>5. on' \in [Ports -> BOOLEAN]
    BY <1>0, <1>2 DEF InputEnqueue
  <2> QED
    BY <1>0, <1>2, <2>4, <2>5 DEF InputEnqueue
<1>3. CASE DoOutputEnqueue
  <2>1. dst' \subseteq Bufs
    BY <1>0, <1>3 DEF TypeOK, DoOutputEnqueue
  <2>2. on' \in [Ports -> BOOLEAN]
    <3>1. UNCHANGED on \/ on' = [on EXCEPT !["Out"] = TRUE]
      BY <1>3 DEF DoOutputEnqueue
    <3> QED
      BY <1>0, <3>1
  <2> QED
    BY <1>0, <1>3, <2>1, <2>2 DEF DoOutputEnqueue
<1>4. CASE InputDequeue
  <2>1. srcDone # <<>> /\ srcDone' = Tail(srcDone)
    BY <1>4 DEF InputDequeue
  <2> DEFINE T == [in : Inputs, used : BOOLEAN]
  <2>2. srcDone' \in Seq(T)
    <3> HIDE DEF T
    <3> QED
      BY <1>0, <2>1, TailProperties DEF T
  <2> QED
    BY <1>0, <1>4, <2>2 DEF InputDequeue
<1>5. CASE InputPortStop
  <2>1. on' \in [Ports -> BOOLEAN]
    BY <1>0, <1>5 DEF InputPortStop, StopInput
  <2> QED
    BY <1>0, <1>5, <2>1, EmptySeq DEF InputPortStop, StopInput
<1>6. CASE OutputDequeue \/ ResolutionChanged
  <2>1. dstDone # <<>> /\ dstDone' = Tail(dstDone)
    BY <1>6 DEF OutputDequeue, ResolutionChanged
  <2> DEFINE T == [buf : Bufs, tag : Tags, change : BOOLEAN]
  <2>2. dstDone' \in Seq(T)
    <3> HIDE DEF T
    <3> QED
      BY <1>0, <2>1, TailProperties DEF T
  <2> QED
    BY <1>0, <1>6, <2>2 DEF OutputDequeue, ResolutionChanged
<1>7. CASE ReconfigOutput \/ OutputPortStop
  <2>1. StopOutput /\ UNCHANGED <<src, srcDone>>
    BY <1>7 DEF ReconfigOutput, OutputPortStop
  <2>2. on' \in [Ports -> BOOLEAN]
    BY <1>0, <2>1 DEF StopOutput
  <2> QED
    BY <1>0, <2>1, <2>2, EmptySeq DEF StopOutput
<1>8. CASE Consume \/ Decode
  <2> DEFINE T == [in : Inputs, tag : Tags]
             D == [in : Inputs, used : BOOLEAN]
  <2>1. src # <<>> /\ src' = Tail(src)
    BY <1>8 DEF Consume, Decode
  <2>2. Head(src) \in T
    <3> HIDE DEF T
    <3> QED
      BY <1>0, <2>1, HeadTyped DEF T
  <2>3. \E used \in BOOLEAN : srcDone' = Append(srcDone, [in |-> Head(src).in, used |-> used])
    BY <1>8 DEF Consume, Decode
  <2>4. \A used \in BOOLEAN : [in |-> Head(src).in, used |-> used] \in D
    BY <2>2
  <2>5. \E x \in D : srcDone' = Append(srcDone, x)
    BY <2>3, <2>4
  <2>6. src' \in Seq(T) /\ srcDone' \in Seq(D)
    <3> HIDE DEF T, D
    <3> QED
      BY <1>0, <2>1, <2>5, TailProperties, AppendProperties DEF T, D
  <2>7. UNCHANGED <<on, changed, dstDone>>
    BY <1>8 DEF Consume, Decode
  <2>8. dst' \subseteq Bufs /\ held' \subseteq [buf : Bufs, tag : Tags]
    <3>1. CASE Consume
      BY <1>0, <3>1 DEF Consume
    <3>2. CASE Decode
      <4>1. PICK b \in dst : dst' = dst \ {b}
              /\ held' = held \cup {[buf |-> b, tag |-> Head(src).tag]}
        BY <3>2 DEF Decode
      <4>2. [buf |-> b, tag |-> Head(src).tag] \in [buf : Bufs, tag : Tags]
        BY <1>0, <2>2
      <4> QED
        BY <1>0, <4>1, <4>2
    <3> QED
      BY <1>8, <3>1, <3>2
  <2> QED
    BY <1>0, <2>6, <2>7, <2>8
<1>9. CASE Show \/ ChangeResolution
  <2> DEFINE D == [buf : Bufs, tag : Tags, change : BOOLEAN]
  <2>1. \E x \in D : dstDone' = Append(dstDone, x)
    <3>1. CASE Show
      <4>1. PICK h \in held :
              dstDone' = Append(dstDone, [buf |-> h.buf, tag |-> h.tag, change |-> FALSE])
        BY <3>1 DEF Show
      <4>2. [buf |-> h.buf, tag |-> h.tag, change |-> FALSE] \in D
        BY <1>0
      <4> HIDE DEF D
      <4> QED
        BY <4>1, <4>2
    <3>2. CASE ChangeResolution
      <4>1. PICK b \in dst : dstDone' = Append(dstDone, [buf |-> b, tag |-> 0, change |-> TRUE])
        BY <3>2 DEF ChangeResolution
      <4>2. 0 \in Tags
        BY CodecFilterAssumption DEF Tags
      <4>3. [buf |-> b, tag |-> 0, change |-> TRUE] \in D
        BY <1>0, <4>2
      <4> HIDE DEF D
      <4> QED
        BY <4>1, <4>3
    <3> QED
      BY <1>9, <3>1, <3>2
  <2>2. dstDone' \in Seq(D)
    <3> HIDE DEF D
    <3> QED
      BY <1>0, <2>1, AppendProperties DEF D
  <2>3. /\ UNCHANGED <<on, src, srcDone>> /\ changed' \in BOOLEAN
        /\ dst' \subseteq dst /\ held' \subseteq held
    BY <1>0, <1>9 DEF Show, ChangeResolution
  <2> QED
    BY <1>0, <2>2, <2>3
<1>10. CASE \/ QueueWork \/ Flush \/ ClientReturns \/ FSteps \/ ASteps
            \/ DoPipeInputEnqueue \/ InputRefused \/ CodecDoFlush \/ CodecStopOutput
            \/ CodecOutputStopped \/ CodecFlushDone \/ WaitEndsEmpty \/ FeedCheck \/ FeedPiled
            \/ ReconfigDropTasks \/ ReconfigRefill
  BY <1>1, <1>10 DEF QueueWork, Flush, ClientReturns, FlushSync, FlushEnd, FSteps, DoQueueWork,
       DoWorkDone, DoFlush, DoFlushDone, ASteps, TakeFill, AllocOutBuffer, AllocTryAgain,
       OutputEnqueued, CodecFlush, ClearPipeInputs, ClearMaps, DoPipeInputEnqueue, InputRefused,
       CodecDoFlush, CodecStopOutput, CodecOutputStopped, CodecFlushDone, WaitEndsEmpty, FeedCheck,
       FeedPiled, ReconfigDropTasks, ReconfigRefill, driverVars
<1> QED
  BY <1>2, <1>3, <1>4, <1>5, <1>6, <1>7, <1>8, <1>9, <1>10
     DEF Next, ESteps, ISteps, OSteps

\* The type of every variable is kept.
LEMMA TypeKept ==
  ASSUME TypeOK, Carried, Pipe, Next
  PROVE  TypeOK' /\ Carried'
<1>1. Carried' /\ PoolsTyped'
  BY CarriedKept, PoolsHaveType DEF Carried, PoolsTyped
<1>2. ClientTyped' /\ ThreadsTyped' /\ CodecTyped' /\ DriverTyped'
  BY ClientTypeKept, ThreadsTypeKept, CodecTypeKept, DriverTypeKept
<1> QED
  BY <1>1, <1>2 DEF TypeOK, ClientTyped, PoolsTyped, ThreadsTyped, CodecTyped, DriverTyped, Phases

\* E's loop is over when there is nothing to give, or the driver takes no more.
LEMMA PipeKept ==
  ASSUME TypeOK, Carried, Pipe, Next
  PROVE  Pipe'
<1>1. CASE DoPipeInputEnqueue \/ InputEnqueue \/ InputRefused
  <2>1. phase' = Piping
    BY <1>1 DEF DoPipeInputEnqueue, InputEnqueue, InputRefused
  <2> DEFINE p == IF left' > 0 /\ mPipeInputs' # <<>> THEN "pipe" ELSE "idle"
  <2>2. phase' = [phase EXCEPT !["E"] = p] /\ (p = "pipe" => left' > 0 /\ mPipeInputs' # <<>>)
    BY <2>1 DEF Piping
  <2> HIDE DEF p
  <2> QED
    BY <2>2, Names, Entering DEF Enters, Pipe
<1>2. CASE ClearPipeInputs
  <2>1. phase'["E"] # "pipe"
    <3>1. phase["E"] # "pipe" /\ (FlushReturned \/ phase' = [phase EXCEPT !["A"] = "clear"])
      BY <1>2 DEF ClearPipeInputs
    <3> QED
      BY <3>1, FlushReturning, Entering, Names DEF Enters
  <2> QED
    BY <2>1 DEF Pipe
<1>3. CASE \/ QueueWork \/ Flush \/ ClientReturns \/ FSteps \/ TakeFill \/ AllocOutBuffer
           \/ AllocTryAgain \/ OutputEnqueued \/ CodecFlush \/ ClearMaps \/ DoOutputEnqueue
           \/ CodecDoFlush \/ CodecStopOutput \/ CodecOutputStopped \/ CodecFlushDone
           \/ WaitEndsEmpty \/ ISteps \/ OSteps \/ Consume \/ Decode \/ Show \/ ChangeResolution
  <2>1. UNCHANGED <<mPipeInputs, left>>
    BY <1>3 DEF QueueWork, Flush, ClientReturns, FlushSync, FlushEnd, FSteps, DoQueueWork,
       DoWorkDone, DoFlush, DoFlushDone, TakeFill, AllocOutBuffer, AllocTryAgain,
       OutputEnqueued, CodecFlush, ClearMaps, DoOutputEnqueue,
       CodecDoFlush, CodecStopOutput, CodecOutputStopped, CodecFlushDone, WaitEndsEmpty, ISteps,
       InputDequeue, FeedCheck, FeedPiled, InputPortStop, OSteps, OutputDequeue,
       ResolutionChanged, ReconfigOutput, ReconfigDropTasks, ReconfigRefill, OutputPortStop,
       Consume, Decode, Show, ChangeResolution, threadVars, codecVars
  <2>2. phase'["E"] = "pipe" => phase["E"] = "pipe"
    <3>1. CASE UNCHANGED phase \/ FlushReturned
      BY <3>1, FlushReturning, Names
    <3>2. CASE \E t \in Threads \ {"E"} : \E p : phase' = [phase EXCEPT ![t] = p]
      BY <3>2, Entering, Names DEF Enters
    <3>3. CASE \E p \in Phases \ {"pipe"} : phase' = [phase EXCEPT !["E"] = p]
      BY <3>3, Entering, Names DEF Enters
    <3> USE DEF threadVars
    <3>4. CASE \/ QueueWork \/ Flush \/ ClientReturns \/ FSteps \/ DoOutputEnqueue
               \/ WaitEndsEmpty \/ InputPortStop \/ OutputDequeue
               \/ OutputPortStop \/ Consume \/ Decode \/ Show \/ ChangeResolution
      BY <3>1, <3>2, <3>4, Names DEF QueueWork, Flush, ClientReturns, FSteps, FlushSync, FlushEnd,
         DoQueueWork, DoWorkDone, DoFlush, DoFlushDone,
         DoOutputEnqueue, WaitEndsEmpty, InputPortStop, OutputDequeue, OutputPortStop, Consume,
         Decode, Show, ChangeResolution
    <3>5. CASE TakeFill \/ AllocOutBuffer \/ AllocTryAgain \/ OutputEnqueued \/ CodecFlush
                 \/ ClearMaps
      BY <3>1, <3>2, <3>5, Names DEF TakeFill, AllocOutBuffer, AllocTryAgain, OutputEnqueued,
                                     CodecFlush,
         ClearMaps
    <3>6. CASE CodecDoFlush \/ CodecStopOutput \/ CodecOutputStopped \/ CodecFlushDone
      BY <3>1, <3>3, <3>6, Names DEF CodecDoFlush, CodecStopOutput, CodecOutputStopped,
         CodecFlushDone, Phases
    <3>7. CASE \/ InputDequeue \/ FeedCheck \/ FeedPiled
               \/ ResolutionChanged \/ ReconfigOutput \/ ReconfigDropTasks \/ ReconfigRefill
      BY <3>2, <3>7, Names DEF InputDequeue, FeedCheck, FeedPiled, ResolutionChanged,
                               ReconfigOutput,
         ReconfigDropTasks, ReconfigRefill
    <3> QED
      BY <1>3, <3>4, <3>5, <3>6, <3>7 DEF ISteps, OSteps
  <2> QED
    BY <2>1, <2>2 DEF Pipe
<1> QED
  BY <1>1, <1>2, <1>3 DEF Next, ASteps, ESteps

----------------------------------------------------------------------------
(* Which steps change what. *)

\* The variables a step may change, apart from the pools and the phases.
LEMMA Frames ==
  ASSUME Next
  PROVE  /\ \/ UNCHANGED client \/ Flush \/ FlushSync \/ FlushEnd \/ DoFlushDone \/ CodecFlush
            \/ ClearPipeInputs \/ ClearMaps
         /\ \/ UNCHANGED queued \/ QueueWork
         /\ \/ UNCHANGED answered \/ DoWorkDone
         /\ \/ UNCHANGED flushed \/ FlushEnd
         /\ \/ UNCHANGED result \/ OutputEnqueued \/ ClearPipeInputs \/ DoOutputEnqueue
            \/ CodecOutputStopped \/ CodecFlushDone
         /\ \/ UNCHANGED portRet \/ CodecStopOutput \/ CodecOutputStopped \/ InputPortStop
            \/ ReconfigDropTasks \/ OutputPortStop
         /\ \/ UNCHANGED left \/ DoPipeInputEnqueue \/ InputEnqueue \/ InputRefused
         /\ \/ UNCHANGED buf \/ AllocOutBuffer \/ OutputEnqueued
         /\ \/ UNCHANGED configured \/ DoQueueWork
         /\ \/ UNCHANGED mWorkInfos \/ FlushEnd \/ DoQueueWork \/ InputRefused \/ InputDequeue
            \/ OutputDequeue
         /\ \/ UNCHANGED mPipeInputs \/ ClearPipeInputs \/ DoPipeInputEnqueue \/ InputEnqueue
            \/ InputRefused
         /\ \/ UNCHANGED mInputs \/ ClearMaps \/ InputEnqueue \/ InputDequeue \/ InputPortStop
            \/ OutputDequeue
         /\ \/ UNCHANGED mOutputs \/ ClearMaps \/ DoOutputEnqueue \/ OutputDequeue
            \/ ReconfigOutput \/ OutputPortStop
         /\ \/ UNCHANGED <<mTagNum, fed, lapped>> \/ InputEnqueue
         /\ \/ UNCHANGED user \/ CodecDoFlush \/ CodecFlushDone
         /\ \/ UNCHANGED on \/ InputEnqueue \/ DoOutputEnqueue \/ InputPortStop \/ ReconfigOutput
            \/ OutputPortStop
         /\ \/ UNCHANGED src \/ InputEnqueue \/ InputPortStop \/ Consume \/ Decode
         /\ \/ UNCHANGED srcDone \/ InputDequeue \/ InputPortStop \/ Consume \/ Decode
         /\ \/ UNCHANGED dst \/ DoOutputEnqueue \/ ReconfigOutput \/ OutputPortStop \/ Decode
            \/ ChangeResolution
         /\ \/ UNCHANGED held \/ ReconfigOutput \/ OutputPortStop \/ Decode \/ Show
         /\ \/ UNCHANGED dstDone \/ OutputDequeue \/ ResolutionChanged \/ ReconfigOutput
            \/ OutputPortStop \/ Show \/ ChangeResolution
         /\ \/ UNCHANGED changed \/ ReconfigOutput \/ OutputPortStop \/ ChangeResolution
<1> USE DEF clientVars, threadVars, codecVars, driverVars
<1>1. CASE QueueWork \/ Flush \/ FlushSync \/ FlushEnd \/ DoQueueWork \/ DoWorkDone \/ DoFlush
        \/ DoFlushDone
  BY <1>1 DEF QueueWork, Flush, FlushSync, FlushEnd, DoQueueWork, DoWorkDone, DoFlush, DoFlushDone
<1>2. CASE TakeFill \/ AllocOutBuffer \/ AllocTryAgain \/ OutputEnqueued \/ CodecFlush
        \/ ClearPipeInputs \/ ClearMaps
  BY <1>2 DEF TakeFill, AllocOutBuffer, AllocTryAgain, OutputEnqueued, CodecFlush,
              ClearPipeInputs, ClearMaps
<1>3. CASE DoPipeInputEnqueue \/ InputEnqueue \/ InputRefused \/ DoOutputEnqueue
        \/ CodecDoFlush \/ CodecStopOutput \/ CodecOutputStopped \/ CodecFlushDone
  BY <1>3 DEF DoPipeInputEnqueue, InputEnqueue, InputRefused, DoOutputEnqueue, CodecDoFlush,
              CodecStopOutput, CodecOutputStopped, CodecFlushDone
<1>4. CASE WaitEndsEmpty \/ InputDequeue \/ FeedCheck \/ FeedPiled \/ InputPortStop
  BY <1>4 DEF WaitEndsEmpty, InputDequeue, FeedCheck, FeedPiled, InputPortStop
<1>5. CASE OutputDequeue \/ ResolutionChanged \/ ReconfigOutput \/ ReconfigDropTasks
        \/ ReconfigRefill \/ OutputPortStop
  BY <1>5 DEF OutputDequeue, ResolutionChanged, ReconfigOutput, ReconfigDropTasks,
              ReconfigRefill, OutputPortStop
<1>6. CASE Consume \/ Decode \/ Show \/ ChangeResolution
  BY <1>6 DEF Consume, Decode, Show, ChangeResolution
<1> QED
  BY <1>1, <1>2, <1>3, <1>4, <1>5, <1>6
     DEF Next, ClientReturns, FSteps, ASteps, ESteps, ISteps, OSteps

\* The steps that may change the phase of each thread.
LEMMA PhaseFrames ==
  ASSUME TypeOK, Next
  PROVE  /\ \/ phase'["F"] = phase["F"] \/ DoFlush \/ CodecFlush \/ ClearPipeInputs \/ ClearMaps
         /\ \/ phase'["A"] = phase["A"] \/ TakeFill \/ AllocOutBuffer \/ AllocTryAgain
            \/ OutputEnqueued \/ CodecFlush \/ ClearPipeInputs \/ ClearMaps
         /\ \/ phase'["E"] = phase["E"] \/ DoPipeInputEnqueue \/ InputEnqueue \/ InputRefused
            \/ CodecDoFlush \/ CodecStopOutput \/ CodecOutputStopped \/ CodecFlushDone
         /\ \/ phase'["I"] = phase["I"] \/ InputDequeue \/ FeedCheck \/ FeedPiled
         /\ \/ phase'["O"] = phase["O"] \/ ResolutionChanged \/ ReconfigOutput \/ ReconfigDropTasks
            \/ ReconfigRefill
<1>1. CASE UNCHANGED phase
  BY <1>1
<1> USE Names, Entering DEF Enters
<1>2. CASE DoFlush
  BY <1>2 DEF DoFlush
<1>3. CASE TakeFill \/ AllocOutBuffer \/ AllocTryAgain \/ OutputEnqueued \/ CodecFlush
        \/ ClearPipeInputs \/ ClearMaps
  <2>1. \/ FlushReturned /\ (CodecFlush \/ ClearPipeInputs \/ ClearMaps)
        \/ \E p : phase' = [phase EXCEPT !["A"] = p]
    BY <1>3 DEF TakeFill, AllocOutBuffer, AllocTryAgain, OutputEnqueued, CodecFlush,
                ClearPipeInputs, ClearMaps
  <2> QED
    BY <1>3, <2>1, FlushReturning
<1>4. CASE DoPipeInputEnqueue \/ InputEnqueue \/ InputRefused \/ CodecDoFlush
        \/ CodecStopOutput \/ CodecOutputStopped \/ CodecFlushDone
  <2>1. \E p : phase' = [phase EXCEPT !["E"] = p]
    BY <1>4 DEF DoPipeInputEnqueue, InputEnqueue, InputRefused, CodecDoFlush, CodecStopOutput,
                CodecOutputStopped, CodecFlushDone, Piping
  <2> QED
    BY <1>4, <2>1
<1>5. CASE InputDequeue \/ FeedCheck \/ FeedPiled
  <2>1. \E p : phase' = [phase EXCEPT !["I"] = p]
    BY <1>5 DEF InputDequeue, FeedCheck, FeedPiled
  <2> QED
    BY <1>5, <2>1
<1>6. CASE ResolutionChanged \/ ReconfigOutput \/ ReconfigDropTasks \/ ReconfigRefill
  <2>1. \E p : phase' = [phase EXCEPT !["O"] = p]
    BY <1>6 DEF ResolutionChanged, ReconfigOutput, ReconfigDropTasks, ReconfigRefill
  <2> QED
    BY <1>6, <2>1
<1>7. CASE QueueWork \/ Flush \/ FlushSync \/ FlushEnd \/ DoQueueWork \/ DoWorkDone
        \/ DoFlushDone \/ DoOutputEnqueue \/ WaitEndsEmpty \/ InputPortStop \/ OutputDequeue
        \/ OutputPortStop \/ Consume \/ Decode \/ Show \/ ChangeResolution
  <2>1. UNCHANGED phase
    BY <1>7 DEF QueueWork, Flush, FlushSync, FlushEnd, DoQueueWork, DoWorkDone, DoFlushDone,
                DoOutputEnqueue, WaitEndsEmpty, InputPortStop, OutputDequeue, OutputPortStop,
                Consume, Decode, Show, ChangeResolution, threadVars
  <2> QED
    BY <1>1, <2>1
<1> QED
  BY <1>2, <1>3, <1>4, <1>5, <1>6, <1>7
     DEF Next, ClientReturns, FSteps, ASteps, ESteps, ISteps, OSteps

\* The steps that may change the pool of each thread but A.
LEMMA PoolFrames ==
  ASSUME TypeOK, Carried, Pipe, Next
  PROVE  /\ \/ pool'["F"] = pool["F"] \/ QueueWork \/ Flush \/ FlushSync \/ DoQueueWork
            \/ DoWorkDone \/ DoFlush \/ DoFlushDone \/ InputRefused \/ InputDequeue
            \/ OutputDequeue
         /\ \/ pool'["E"] = pool["E"] \/ DoQueueWork \/ AllocOutBuffer \/ CodecFlush
            \/ DoPipeInputEnqueue \/ DoOutputEnqueue \/ CodecDoFlush \/ FeedPiled
         /\ \/ pool'["I"] = pool["I"] \/ InputEnqueue \/ CodecDoFlush \/ WaitEndsEmpty
            \/ InputDequeue \/ InputPortStop
         /\ \/ pool'["O"] = pool["O"] \/ OutputEnqueued \/ CodecStopOutput \/ WaitEndsEmpty
            \/ OutputDequeue \/ ResolutionChanged \/ ReconfigDropTasks \/ OutputPortStop
<1> USE Names DEF Keeps
<1>1. CASE QueueWork \/ Flush \/ FlushSync \/ DoWorkDone \/ DoFlush \/ DoFlushDone
  BY <1>1, QueueWorkPools, FlushPools, FlushSyncPools, DoWorkDonePools,
     DoFlushPools, DoFlushDonePools
<1>2. CASE DoQueueWork
  BY <1>2, DoQueueWorkPools
<1>3. CASE TakeFill \/ AllocOutBuffer \/ AllocTryAgain \/ OutputEnqueued \/ CodecFlush
  BY <1>3, TakeFillPools, AllocOutBufferPools, AllocTryAgainPools, OutputEnqueuedPools,
     CodecFlushPools DEF Rests, Gave
<1>4. CASE DoPipeInputEnqueue \/ InputEnqueue \/ InputRefused \/ DoOutputEnqueue
           \/ CodecDoFlush \/ CodecStopOutput
  BY <1>4, DoPipeInputEnqueuePools, InputEnqueuePools, InputRefusedPools, DoOutputEnqueuePools,
     CodecDoFlushPools, CodecStopOutputPools DEF Rests, Gave, Took
<1>5. CASE WaitEndsEmpty \/ FeedPiled \/ InputPortStop \/ ResolutionChanged \/ OutputPortStop
           \/ ReconfigDropTasks \/ ReconfigRefill
  BY <1>5, WaitEndsEmptyPools, FeedPiledPools, InputPortStopPools, ResolutionChangedPools,
     OutputPortStopPools, ReconfigDropTasksPools, ReconfigRefillPools DEF Rests, Gave, Took
<1>6. CASE InputDequeue \/ OutputDequeue
  BY <1>6, InputDequeuePools, OutputDequeuePools
<1>7. CASE \/ FlushEnd \/ ClearPipeInputs \/ ClearMaps \/ CodecOutputStopped \/ CodecFlushDone
           \/ FeedCheck \/ ReconfigOutput \/ Consume \/ Decode \/ Show \/ ChangeResolution
  BY <1>7 DEF FlushEnd, ClearPipeInputs, ClearMaps, CodecOutputStopped, CodecFlushDone, FeedCheck,
       ReconfigOutput, Consume, Decode, Show, ChangeResolution, threadVars
<1> QED
  BY <1>1, <1>2, <1>3, <1>4, <1>5, <1>6, <1>7
     DEF Next, ClientReturns, FSteps, ASteps, ESteps, ISteps, OSteps

----------------------------------------------------------------------------
(* The streams of the ports. *)

\* What the steps do to the two streams.
LEMMA StreamSteps ==
  ASSUME TypeOK
  PROVE  /\ InputEnqueue => on'["In"] /\ on'["Out"] = on["Out"]
         /\ DoOutputEnqueue => on'["In"] = on["In"] /\ (on'["Out"] = on["Out"] \/ on'["Out"])
         /\ InputPortStop => ~on'["In"] /\ on'["Out"] = on["Out"]
         /\ ReconfigOutput \/ OutputPortStop => on'["In"] = on["In"] /\ ~on'["Out"]
<1>1. on = [p \in Ports |-> on[p]] /\ "In" \in Ports /\ "Out" \in Ports
  BY DEF TypeOK, Ports
<1>2. ASSUME NEW p \in Ports, NEW b, on' = [on EXCEPT ![p] = b]
      PROVE  on'[p] = b /\ \A q \in Ports \ {p} : on'[q] = on[q]
  BY <1>1, <1>2
<1>3. ASSUME InputEnqueue
      PROVE  on'["In"] /\ on'["Out"] = on["Out"]
  BY <1>1, <1>2, <1>3 DEF InputEnqueue
<1>4. ASSUME DoOutputEnqueue
      PROVE  on'["In"] = on["In"] /\ (on'["Out"] = on["Out"] \/ on'["Out"])
  <2>1. UNCHANGED on \/ on' = [on EXCEPT !["Out"] = TRUE]
    BY <1>4 DEF DoOutputEnqueue
  <2> QED
    BY <1>1, <1>2, <2>1
<1>5. ASSUME InputPortStop
      PROVE  ~on'["In"] /\ on'["Out"] = on["Out"]
  BY <1>1, <1>2, <1>5 DEF InputPortStop, StopInput
<1>6. ASSUME ReconfigOutput \/ OutputPortStop
      PROVE  on'["In"] = on["In"] /\ ~on'["Out"]
  BY <1>1, <1>2, <1>6 DEF ReconfigOutput, OutputPortStop, StopOutput
<1> QED
  BY <1>3, <1>4, <1>5, <1>6

\* A stream that a flush found off, or stopped, stays off until the flush is over.
LEMMA StreamsKept ==
  ASSUME TypeOK, Carried, Pipe, Tokens, PortsAgree, Next
  PROVE  PortsAgree'
<1>0. /\ result \in {"none", "ok", "failed"} /\ portRet \in {"none", "ok", "failed"}
      /\ \A t \in Threads : \A op : Pending(pool, t, op) \in Nat
  BY PhasesAre, PendingType DEF Carried
<1>a. \A p \in {"In", "Out"} : on[p] \in BOOLEAN
  BY DEF TypeOK, Ports
<1> USE Names, Entering DEF Enters
<1>1. CASE DoPipeInputEnqueue \/ InputRefused
  <2>1. UNCHANGED <<result, portRet, on>> /\ phase' = Piping
    BY <1>1 DEF DoPipeInputEnqueue, InputRefused, driverVars
  <2>2. Enters("E", "pipe") \/ Enters("E", "idle")
    BY <2>1 DEF Piping
  <2> QED
    BY <2>1, <2>2 DEF PortsAgree
<1>2. CASE InputEnqueue
  <2>1. UNCHANGED <<result, portRet>> /\ on'["In"] /\ on'["Out"] = on["Out"] /\ phase' = Piping
    BY <1>2, StreamSteps DEF InputEnqueue
  <2>2. Enters("E", "pipe") \/ Enters("E", "idle")
    BY <2>1 DEF Piping
  <2>3. phase["E"] = "pipe"
    BY <1>2 DEF InputEnqueue
  <2> QED
    BY <2>1, <2>2, <2>3 DEF PortsAgree
<1>3. CASE DoOutputEnqueue
  <2>1. Pending(pool, "E", "out") >= 1 /\ phase["E"] = "idle"
    BY <1>3, DoOutputEnqueuePools DEF DoOutputEnqueue, Next_
  <2>2. phase["A"] = "enqueue" /\ UNCHANGED <<phase, portRet>> /\ on'["In"] = on["In"]
    BY <1>0, <1>3, <2>1, StreamSteps DEF DoOutputEnqueue, Tokens, OutTokens
  <2> QED
    BY <2>1, <2>2 DEF PortsAgree
<1>4. CASE CodecDoFlush
  <2>1. /\ phase["E"] = "idle" /\ UNCHANGED <<result, portRet, on>>
        /\ Enters("E", IF on["In"] THEN "stopIn" ELSE "stopped")
    BY <1>4 DEF CodecDoFlush, Next_, driverVars
  <2>2. portRet = "none"
    BY <2>1 DEF Tokens, StopTokens
  <2> QED
    BY <1>a, <2>1, <2>2 DEF PortsAgree
<1>5. CASE CodecStopOutput
  <2>1. /\ phase["E"] = "stopped" \/ (phase["E"] = "stopIn" /\ portRet = "ok")
        /\ portRet' = "none" /\ UNCHANGED <<result, on>>
        /\ Enters("E", IF on["Out"] THEN "stopOut" ELSE "end")
    BY <1>5 DEF CodecStopOutput, driverVars
  <2> QED
    BY <1>a, <2>1 DEF PortsAgree
<1>6. CASE CodecOutputStopped
  <2>1. phase["E"] = "stopOut" /\ portRet # "none" /\ portRet' = "none" /\ UNCHANGED on
          /\ ~on["Out"]
    BY <1>6 DEF CodecOutputStopped, driverVars, PortsAgree
  <2>2. UNCHANGED result /\ Enters("E", "end")
    BY <1>6, <2>1 DEF CodecOutputStopped, StopTolerated
  <2> QED
    BY <2>1, <2>2 DEF PortsAgree
<1>7. CASE CodecFlushDone
  <2>1. /\ phase["E"] = "end" /\ Enters("E", "idle") /\ result' = "ok"
        /\ UNCHANGED <<portRet, on>> /\ ~on["Out"]
    BY <1>7 DEF CodecFlushDone, driverVars, PortsAgree
  <2> QED
    BY <2>1 DEF PortsAgree
<1>8. CASE InputPortStop
  <2>1. Pending(pool, "I", "stop") >= 1
    BY <1>8, InputPortStopPools
  <2>2. phase["E"] = "stopIn"
    BY <1>0, <2>1 DEF Tokens, StopTokens
  <2>3. /\ portRet' = "ok" /\ UNCHANGED <<phase, result>>
        /\ ~on'["In"] /\ on'["Out"] = on["Out"]
    BY <1>8, StreamSteps DEF InputPortStop
  <2> QED
    BY <2>2, <2>3 DEF PortsAgree
<1>9. CASE OutputPortStop
  <2>1. Pending(pool, "O", "stop") >= 1
    BY <1>9, OutputPortStopPools
  <2>2. phase["E"] = "stopOut"
    BY <1>0, <2>1 DEF Tokens, StopTokens
  <2>3. /\ portRet' = "ok" /\ UNCHANGED <<phase, result>>
        /\ on'["In"] = on["In"] /\ ~on'["Out"]
    BY <1>9, StreamSteps DEF OutputPortStop
  <2> QED
    BY <2>2, <2>3 DEF PortsAgree
<1>10. CASE ReconfigDropTasks
  <2>1. /\ phase["O"] = "drop" /\ Enters("O", "refill") /\ UNCHANGED <<result, on>>
        /\ portRet' = (IF Pending(pool, "O", "stop") > 0 THEN "failed" ELSE portRet)
    BY <1>10 DEF ReconfigDropTasks, driverVars
  <2>2. Pending(pool, "O", "stop") > 0 => phase["E"] = "stopOut"
    BY <1>0 DEF Tokens, StopTokens
  <2> QED
    BY <2>1, <2>2 DEF PortsAgree
<1>11. CASE ReconfigOutput
  <2>1. /\ phase["A"] # "enqueue" /\ Enters("O", "drop") /\ UNCHANGED <<result, portRet>>
        /\ on'["In"] = on["In"] /\ ~on'["Out"]
    BY <1>11, StreamSteps DEF ReconfigOutput, ReconfigLock
  <2> QED
    BY <2>1 DEF PortsAgree
<1>12. CASE ResolutionChanged \/ ReconfigRefill
  <2>1. UNCHANGED <<result, portRet, on>>
    BY <1>12 DEF ResolutionChanged, ReconfigRefill, driverVars
  <2>2. Enters("O", "reconfigure") \/ Enters("O", "idle")
    BY <1>12 DEF ResolutionChanged, ReconfigRefill
  <2> QED
    BY <2>1, <2>2 DEF PortsAgree
<1>13. CASE TakeFill \/ AllocTryAgain
  <2>1. UNCHANGED <<result, portRet, on>> /\ (Enters("A", "lock") \/ Enters("A", "idle"))
    BY <1>13 DEF TakeFill, AllocTryAgain, driverVars
  <2> QED
    BY <2>1 DEF PortsAgree
<1>14. CASE AllocOutBuffer
  <2>1. /\ UNCHANGED <<result, portRet, on>> /\ Enters("A", "enqueue")
        /\ phase["O"] \notin {"drop", "refill"}
    BY <1>14 DEF AllocOutBuffer, Reconfiguring, driverVars
  <2> QED
    BY <2>1 DEF PortsAgree
<1>15. CASE OutputEnqueued
  <2>1. result' = "none" /\ UNCHANGED <<portRet, on>> /\ Enters("A", "idle")
    BY <1>15 DEF OutputEnqueued, driverVars
  <2> QED
    BY <2>1 DEF PortsAgree
<1>16. CASE CodecFlush
  <2>1. phase["A"] = "idle" /\ UNCHANGED <<result, portRet, on>>
    BY <1>16 DEF CodecFlush, Next_, driverVars
  <2>2. result = "none"
    BY <2>1 DEF Tokens, OutTokens
  <2>3. Enters("A", "flush") \/ FlushReturned
    BY <1>16 DEF CodecFlush
  <2> QED
    BY <2>1, <2>2, <2>3, FlushReturning DEF PortsAgree
<1>17. CASE ClearPipeInputs \/ ClearMaps
  <2>1. /\ phase["A"] = "clear" \/ (phase["A"] = "flush" /\ result = "ok") \/ result = "failed"
        /\ result' \in {"none", result}
        /\ UNCHANGED <<portRet, on>> /\ phase["A"] \in {"clear", "flush"}
    BY <1>0, <1>17 DEF ClearPipeInputs, ClearMaps, driverVars
  <2>2. ~on["Out"]
    BY <2>1 DEF PortsAgree
  <2>3. Enters("A", "clear") \/ FlushReturned
    BY <1>17 DEF ClearPipeInputs, ClearMaps
  <2> QED
    BY <2>1, <2>2, <2>3, FlushReturning DEF PortsAgree
<1>18. CASE /\ UNCHANGED <<result, portRet, on>>
            /\ phase'["A"] = phase["A"] /\ phase'["E"] = phase["E"] /\ phase'["O"] = phase["O"]
  BY <1>18 DEF PortsAgree
<1> QED
  BY <1>1, <1>2, <1>3, <1>4, <1>5, <1>6, <1>7, <1>8, <1>9, <1>10, <1>11, <1>12, <1>13, <1>14,
     <1>15, <1>16, <1>17, <1>18, Frames, PhaseFrames

\* A stream that is off has nothing.
Off ==
  /\ ~on["In"] => src = <<>> /\ srcDone = <<>>
  /\ ~on["Out"] => dst = {} /\ held = {} /\ dstDone = <<>>

\* A port that is off has nothing.
LEMMA OffKept ==
  ASSUME TypeOK, Off, Next
  PROVE  Off'
<1>a. \A p \in {"In", "Out"} : on[p] \in BOOLEAN
  BY DEF TypeOK, Ports
<1>1. CASE InputEnqueue
  BY <1>1, StreamSteps DEF InputEnqueue, Off
<1>2. CASE DoOutputEnqueue
  <2>1. UNCHANGED <<src, srcDone, held, dstDone>> /\ (UNCHANGED <<dst, on>> \/ on'["Out"])
    <3>1. on = [p \in Ports |-> on[p]] /\ "Out" \in Ports
      BY DEF TypeOK, Ports
    <3>2. UNCHANGED <<src, srcDone, held, dstDone>>
          /\ (UNCHANGED <<dst, on>> \/ on' = [on EXCEPT !["Out"] = TRUE])
      BY <1>2 DEF DoOutputEnqueue
    <3> QED
      BY <3>1, <3>2
  <2> QED
    BY <1>2, <2>1, StreamSteps DEF Off
<1>3. CASE InputPortStop
  BY <1>3, StreamSteps DEF InputPortStop, StopInput, Off
<1>4. CASE ReconfigOutput \/ OutputPortStop
  BY <1>4, StreamSteps DEF ReconfigOutput, OutputPortStop, StopOutput, Off
<1>5. CASE InputDequeue
  BY <1>5 DEF InputDequeue, Off
<1>6. CASE OutputDequeue \/ ResolutionChanged
  BY <1>6 DEF OutputDequeue, ResolutionChanged, Off
<1>7. CASE Consume \/ Decode \/ ChangeResolution
  BY <1>7 DEF Consume, Decode, ChangeResolution, Off
<1>8. CASE Show
  <2>1. held # {} /\ UNCHANGED <<on, src, srcDone, dst>>
    BY <1>8 DEF Show
  <2> QED
    BY <1>a, <2>1 DEF Off
<1>9. CASE UNCHANGED <<on, src, srcDone, dst, held, dstDone>>
  BY <1>9 DEF Off
<1> QED
  BY <1>1, <1>2, <1>3, <1>4, <1>5, <1>6, <1>7, <1>8, <1>9, Frames

----------------------------------------------------------------------------
(* The buffers of the output port. *)

\* Queue a is queue s with x behind it.
Longer(a, s, x) ==
  /\ DOMAIN a = DOMAIN s \cup {Len(s) + 1} /\ Len(s) + 1 \notin DOMAIN s
  /\ \A k \in DOMAIN s : k < Len(s) + 1 /\ a[k] = s[k]
  /\ a[Len(s) + 1] = x /\ Len(a) = Len(s) + 1

\* Appending makes a queue longer.
LEMMA AppendLonger ==
  ASSUME NEW T, NEW s \in Seq(T), NEW x \in T
  PROVE  Longer(Append(s, x), s, x)
<1>1. Len(s) \in Nat /\ DOMAIN s = 1..Len(s)
  BY LenProperties
<1>2. /\ Append(s, x) \in Seq(T) /\ Len(Append(s, x)) = Len(s) + 1
      /\ \A k \in 1..Len(s) : Append(s, x)[k] = s[k]
      /\ Append(s, x)[Len(s) + 1] = x
  BY AppendProperties
<1>3. DOMAIN Append(s, x) = 1..(Len(s) + 1)
  BY <1>2, LenProperties
<1> QED
  BY <1>1, <1>2, <1>3 DEF Longer

\* Queue r is queue s without its first element.
Shorter(r, s) ==
  /\ 1 \in DOMAIN s /\ Head(s) = s[1] /\ Len(s) = Len(r) + 1
  /\ \A k \in DOMAIN r : k + 1 \in DOMAIN s /\ k + 1 # 1 /\ r[k] = s[k + 1]
  /\ \A k \in DOMAIN s : k = 1 \/ \E l \in DOMAIN r : k = l + 1
  /\ \A k, l \in DOMAIN r : (k < l <=> k + 1 < l + 1) /\ (k + 1 = l + 1 <=> k = l)

\* Taking the first element makes a queue shorter.
LEMMA TailShorter ==
  ASSUME NEW T, NEW s \in Seq(T), s # <<>>
  PROVE  Shorter(Tail(s), s)
<1>1. Len(s) \in Nat /\ DOMAIN s = 1..Len(s) /\ Len(s) # 0
  BY LenProperties, EmptySeq
<1>2. /\ Tail(s) \in Seq(T) /\ Len(Tail(s)) = Len(s) - 1 /\ Head(s) = s[1]
      /\ \A k \in 1..Len(Tail(s)) : Tail(s)[k] = s[k + 1]
  BY HeadTailProperties
<1>3. DOMAIN Tail(s) = 1..(Len(s) - 1)
  BY <1>2, LenProperties
<1>4. \A k \in DOMAIN s : k = 1 \/ \E l \in DOMAIN Tail(s) : k = l + 1
  <2> TAKE k \in DOMAIN s
  <2>1. k # 1 => k - 1 \in DOMAIN Tail(s) /\ k = (k - 1) + 1
    BY <1>1, <1>3
  <2> QED
    BY <2>1
<1> QED
  BY <1>1, <1>2, <1>3, <1>4 DEF Shorter

\* A buffer is with the driver once, and A enqueues one that is not there.
Once ==
  /\ \A h \in held : h.buf \notin dst
  /\ \A h, g \in held : h.buf = g.buf => h = g
  /\ \A k \in DOMAIN dstDone : dstDone[k].buf \notin dst /\ \A h \in held : h.buf # dstDone[k].buf
  /\ \A k, l \in DOMAIN dstDone : dstDone[k].buf = dstDone[l].buf => k = l

\* The buffer that A gives E to enqueue is not one the driver has.
Offered ==
  phase["A"] = "enqueue" /\ result = "none" => \E b \in Bufs : buf = {b} /\ b \notin OutBufs

\* What the driver has of the output port, by the step.
LEMMA OutBufsSteps ==
  ASSUME TypeOK, Next
  PROVE  \/ OutBufs' \subseteq OutBufs
         \/ DoOutputEnqueue /\ OutBufs' = OutBufs \cup buf
<1> DEFINE T == [buf : Bufs, tag : Tags, change : BOOLEAN]
<1>0. dstDone \in Seq(T) /\ dst \subseteq Bufs
  BY DEF TypeOK
<1>1. CASE DoOutputEnqueue
  <2>1. UNCHANGED <<held, dstDone>> /\ (UNCHANGED dst \/ dst' = dst \cup buf)
    BY <1>1 DEF DoOutputEnqueue
  <2>2. OutBufs' = OutBufs \/ OutBufs' = OutBufs \cup buf
    BY <2>1 DEF OutBufs
  <2> QED
    BY <1>1, <2>2
<1>2. CASE OutputDequeue \/ ResolutionChanged
  <2>1. dstDone # <<>> /\ dstDone' = Tail(dstDone) /\ UNCHANGED <<dst, held>>
    BY <1>2 DEF OutputDequeue, ResolutionChanged
  <2> HIDE DEF T
  <2>2. Shorter(dstDone', dstDone)
    BY <1>0, <2>1, TailShorter
  <2>3. {dstDone'[k].buf : k \in DOMAIN dstDone'} \subseteq {dstDone[k].buf : k \in DOMAIN dstDone}
    BY <2>2 DEF Shorter
  <2>4. OutBufs' \subseteq OutBufs
    BY <2>1, <2>3 DEF OutBufs
  <2> QED
    BY <2>4
<1>3. CASE ReconfigOutput \/ OutputPortStop
  <2>1. dst' = {} /\ held' = {} /\ dstDone' = <<>>
    BY <1>3 DEF ReconfigOutput, OutputPortStop, StopOutput
  <2> QED
    BY <2>1 DEF OutBufs
<1>4. CASE Decode
  <2>1. PICK b \in dst : /\ dst' = dst \ {b}
                         /\ held' = held \cup {[buf |-> b, tag |-> Head(src).tag]}
                         /\ UNCHANGED dstDone
    BY <1>4 DEF Decode
  <2>2. OutBufs' \subseteq OutBufs
    BY <2>1 DEF OutBufs
  <2> QED
    BY <2>2
<1>5. CASE Show
  <2>1. PICK h \in held :
          /\ held' = held \ {h} /\ UNCHANGED dst
          /\ dstDone' = Append(dstDone, [buf |-> h.buf, tag |-> h.tag, change |-> FALSE])
    BY <1>5 DEF Show
  <2> DEFINE x == [buf |-> h.buf, tag |-> h.tag, change |-> FALSE]
  <2>2. x \in T /\ x.buf = h.buf
    BY DEF TypeOK
  <2> HIDE DEF T, x
  <2>3. Longer(dstDone', dstDone, x)
    BY <1>0, <2>1, <2>2, AppendLonger DEF x
  <2>4. {dstDone'[k].buf : k \in DOMAIN dstDone'}
          \subseteq {dstDone[k].buf : k \in DOMAIN dstDone} \cup {h.buf}
    BY <2>2, <2>3 DEF Longer
  <2>5. OutBufs' \subseteq OutBufs
    BY <2>1, <2>4 DEF OutBufs
  <2> QED
    BY <2>5
<1>6. CASE ChangeResolution
  <2>1. PICK b \in dst :
          /\ dst' = dst \ {b} /\ UNCHANGED held
          /\ dstDone' = Append(dstDone, [buf |-> b, tag |-> 0, change |-> TRUE])
    BY <1>6 DEF ChangeResolution
  <2> DEFINE x == [buf |-> b, tag |-> 0, change |-> TRUE]
  <2>2. x \in T /\ x.buf = b
    BY <1>0, CodecFilterAssumption DEF Tags
  <2> HIDE DEF T, x
  <2>3. Longer(dstDone', dstDone, x)
    BY <1>0, <2>1, <2>2, AppendLonger DEF x
  <2>4. {dstDone'[k].buf : k \in DOMAIN dstDone'}
          \subseteq {dstDone[k].buf : k \in DOMAIN dstDone} \cup {b}
    BY <2>2, <2>3 DEF Longer
  <2>5. OutBufs' \subseteq OutBufs
    BY <2>1, <2>4 DEF OutBufs
  <2> QED
    BY <2>5
<1>7. CASE UNCHANGED <<dst, held, dstDone>>
  <2>1. OutBufs' = OutBufs
    BY <1>7 DEF OutBufs
  <2> QED
    BY <2>1
<1> QED
  BY <1>1, <1>2, <1>3, <1>4, <1>5, <1>6, <1>7, Frames

\* Each buffer stays in one place.
LEMMA OnceKept ==
  ASSUME TypeOK, Carried, Tokens, Once, Offered, Next
  PROVE  Once'
<1> DEFINE T == [buf : Bufs, tag : Tags, change : BOOLEAN]
<1>0. dstDone \in Seq(T) /\ dst \subseteq Bufs /\ held \subseteq [buf : Bufs, tag : Tags]
  BY DEF TypeOK
<1> USE DEF Once
<1>1. CASE DoOutputEnqueue
  <2>1. UNCHANGED <<held, dstDone>> /\ (UNCHANGED dst \/ dst' = dst \cup buf)
    BY <1>1 DEF DoOutputEnqueue
  <2>2. phase["A"] = "enqueue" /\ result = "none"
    <3>1. Pending(pool, "E", "out") >= 1
      BY <1>1, DoOutputEnqueuePools
    <3> QED
      BY <3>1 DEF Tokens, OutTokens
  <2>3. PICK b \in Bufs : buf = {b} /\ b \notin OutBufs
    BY <2>2 DEF Offered
  <2>4. /\ \A h \in held : h.buf # b
        /\ \A k \in DOMAIN dstDone : dstDone[k].buf # b
    BY <2>3 DEF OutBufs
  <2> QED
    BY <2>1, <2>3, <2>4
<1>2. CASE OutputDequeue \/ ResolutionChanged
  <2>1. dstDone # <<>> /\ dstDone' = Tail(dstDone) /\ UNCHANGED <<dst, held>>
    BY <1>2 DEF OutputDequeue, ResolutionChanged
  <2> HIDE DEF T
  <2>2. Shorter(dstDone', dstDone)
    BY <1>0, <2>1, TailShorter
  <2> QED
    BY <2>1, <2>2 DEF Shorter
<1>3. CASE ReconfigOutput \/ OutputPortStop
  <2>1. dst' = {} /\ held' = {} /\ dstDone' = <<>>
    BY <1>3 DEF ReconfigOutput, OutputPortStop, StopOutput
  <2> QED
    BY <2>1
<1>4. CASE Decode
  <2>1. PICK b \in dst : /\ dst' = dst \ {b}
                         /\ held' = held \cup {[buf |-> b, tag |-> Head(src).tag]}
                         /\ UNCHANGED dstDone
    BY <1>4 DEF Decode
  <2> DEFINE x == [buf |-> b, tag |-> Head(src).tag]
  <2>2. x.buf = b /\ b \in dst /\ b \notin dst'
    BY <2>1
  <2> HIDE DEF x
  <2>3. held' = held \cup {x}
    BY <2>1 DEF x
  <2> QED
    BY <2>1, <2>2, <2>3
<1>5. CASE Show
  <2>1. PICK h \in held :
          /\ held' = held \ {h} /\ UNCHANGED dst
          /\ dstDone' = Append(dstDone, [buf |-> h.buf, tag |-> h.tag, change |-> FALSE])
    BY <1>5 DEF Show
  <2> DEFINE x == [buf |-> h.buf, tag |-> h.tag, change |-> FALSE]
  <2>2. x \in T /\ x.buf = h.buf
    BY <1>0
  <2> HIDE DEF T, x
  <2>3. Longer(dstDone', dstDone, x)
    BY <1>0, <2>1, <2>2, AppendLonger DEF x
  <2> QED
    BY <2>1, <2>2, <2>3 DEF Longer
<1>6. CASE ChangeResolution
  <2>1. PICK b \in dst :
          /\ dst' = dst \ {b} /\ UNCHANGED held
          /\ dstDone' = Append(dstDone, [buf |-> b, tag |-> 0, change |-> TRUE])
    BY <1>6 DEF ChangeResolution
  <2> DEFINE x == [buf |-> b, tag |-> 0, change |-> TRUE]
  <2>2. x \in T /\ x.buf = b
    BY <1>0, CodecFilterAssumption DEF Tags
  <2> HIDE DEF T, x
  <2>3. Longer(dstDone', dstDone, x)
    BY <1>0, <2>1, <2>2, AppendLonger DEF x
  <2> QED
    BY <2>1, <2>2, <2>3 DEF Longer
<1>7. CASE UNCHANGED <<dst, held, dstDone>>
  BY <1>7
<1> QED
  BY <1>1, <1>2, <1>3, <1>4, <1>5, <1>6, <1>7, Frames

\* The buffer A enqueues is still not with the driver.
LEMMA OfferedKept ==
  ASSUME TypeOK, Carried, Tokens, Offered, Next
  PROVE  Offered'
<1> USE Names, Entering DEF Enters
<1>1. CASE AllocOutBuffer
  <2>1. PICK b \in FreeBufs : buf' = {b}
    BY <1>1 DEF AllocOutBuffer
  <2>2. b \in Bufs /\ b \notin OutBufs /\ UNCHANGED <<dst, held, dstDone>>
    BY <1>1, <2>1 DEF AllocOutBuffer, FreeBufs, driverVars
  <2>3. b \notin OutBufs'
    BY <2>2 DEF OutBufs
  <2> QED
    BY <2>1, <2>2, <2>3 DEF Offered
<1>2. CASE \/ TakeFill \/ AllocTryAgain \/ OutputEnqueued \/ CodecFlush \/ ClearPipeInputs
           \/ ClearMaps
  <2>1. FlushReturned \/ \E p : p # "enqueue" /\ phase' = [phase EXCEPT !["A"] = p]
    BY <1>2 DEF TakeFill, AllocTryAgain, OutputEnqueued, CodecFlush, ClearPipeInputs, ClearMaps
  <2>2. phase'["A"] # "enqueue"
    BY <2>1, FlushReturning
  <2> QED
    BY <2>2 DEF Offered
<1>3. CASE DoOutputEnqueue \/ CodecOutputStopped \/ CodecFlushDone
  <2>1. CASE CodecOutputStopped /\ UNCHANGED result
    <3>1. UNCHANGED <<buf, dst, held, dstDone>> /\ phase'["A"] = phase["A"]
      BY <2>1 DEF CodecOutputStopped, driverVars
    <3>2. OutBufs' = OutBufs
      BY <3>1 DEF OutBufs
    <3> QED
      BY <2>1, <3>1, <3>2 DEF Offered
  <2>2. CASE result' # "none"
    BY <2>2 DEF Offered
  <2>3. result' # "none" \/ (CodecOutputStopped /\ UNCHANGED result)
    BY <1>3 DEF DoOutputEnqueue, CodecOutputStopped, CodecFlushDone
  <2> QED
    BY <2>1, <2>2, <2>3
<1>4. CASE /\ UNCHANGED <<result, buf>> /\ phase'["A"] = phase["A"] /\ OutBufs' \subseteq OutBufs
  BY <1>4 DEF Offered
<1> QED
  BY <1>1, <1>2, <1>3, <1>4, Frames, PhaseFrames, OutBufsSteps

----------------------------------------------------------------------------
(* Each buffer of the driver is waited for. *)

\* A part of what the driver has, and one buffer more.
LEMMA OutBufsCount ==
  ASSUME TypeOK
  PROVE  /\ \A S \in SUBSET OutBufs :
              /\ Cardinality(S) \in Nat /\ Cardinality(S) <= Cardinality(OutBufs)
              /\ S # OutBufs => Cardinality(S) + 1 <= Cardinality(OutBufs)
         /\ \A b : /\ Cardinality(OutBufs \cup {b}) \in Nat
                   /\ Cardinality(OutBufs \cup {b}) <= Cardinality(OutBufs) + 1
<1>1. IsFiniteSet(OutBufs) /\ Cardinality(OutBufs) \in Nat
  BY OutBufsAre
<1>2. ASSUME NEW S \in SUBSET OutBufs
      PROVE  /\ Cardinality(S) \in Nat /\ Cardinality(S) <= Cardinality(OutBufs)
             /\ S # OutBufs => Cardinality(S) + 1 <= Cardinality(OutBufs)
  <2>1. IsFiniteSet(S) /\ Cardinality(S) <= Cardinality(OutBufs)
        /\ (Cardinality(S) = Cardinality(OutBufs) => S = OutBufs)
    BY <1>1, FS_Subset
  <2>2. Cardinality(S) \in Nat
    BY <2>1, FS_CardinalityType
  <2> QED
    BY <1>1, <2>1, <2>2
<1>3. ASSUME NEW b
      PROVE  /\ Cardinality(OutBufs \cup {b}) \in Nat
             /\ Cardinality(OutBufs \cup {b}) <= Cardinality(OutBufs) + 1
  <2>1. /\ IsFiniteSet(OutBufs \cup {b})
        /\ (Cardinality(OutBufs \cup {b}) = Cardinality(OutBufs)
            \/ Cardinality(OutBufs \cup {b}) = Cardinality(OutBufs) + 1)
    BY <1>1, FS_AddElement
  <2> QED
    BY <1>1, <2>1
<1> QED
  BY <1>2, <1>3

\* Each buffer of a port is waited for, between flushes.
InAwaited == ~user => InBufs <= Pending(pool, "I", "wait")
\* Each buffer of the output port is waited for, or about to be, but while the
\* port is stopped or made anew.
OutAwaited ==
  ~user /\ phase["O"] # "reconfigure" =>
    Cardinality(OutBufs) <=
      Pending(pool, "O", "wait") + (IF phase["A"] = "enqueue" /\ result = "ok" THEN 1 ELSE 0)

\* The input port's are.
LEMMA InAwaitedKept ==
  ASSUME TypeOK, Carried, Pipe, Tokens, PortsAgree, Off, InAwaited, Next
  PROVE  InAwaited'
<1> DEFINE T == [in : Inputs, tag : Tags]
           D == [in : Inputs, used : BOOLEAN]
<1>0. /\ src \in Seq(T) /\ srcDone \in Seq(D) /\ Len(src) \in Nat /\ Len(srcDone) \in Nat
      /\ \A t \in Threads : \A op : Pending(pool, t, op) \in Nat
  BY PendingType DEF TypeOK, Carried
<1>a. \A t \in Threads : \A op \in Counted : Pending(pool', t, op) \in Nat
  BY CarriedKept, PendingType DEF Carried
<1> USE Names DEF InAwaited, InBufs
<1>1. CASE InputEnqueue
  <2>1. Len(src') = Len(src) + 1 /\ UNCHANGED <<user, srcDone>>
    <3>1. \E x : src' = Append(src, x)
      BY <1>1 DEF InputEnqueue
    <3> HIDE DEF T
    <3>2. \A x : Len(Append(src, x)) = Len(src) + 1
      BY <1>0
    <3> QED
      BY <1>1, <3>1, <3>2 DEF InputEnqueue
  <2>2. Pending(pool', "I", "wait") = Pending(pool, "I", "wait") + 1
    <3>1. Moves({<<"I", "wait">>}, {})
      BY <1>1, InputEnqueuePools DEF Gave
    <3> QED
      BY <1>0, <3>1 DEF Moves, Moved, Counted, Ops
  <2> QED
    BY <1>0, <2>1, <2>2
<1>2. CASE InputDequeue
  <2>1. srcDone # <<>> /\ srcDone' = Tail(srcDone) /\ UNCHANGED <<user, src>>
    BY <1>2 DEF InputDequeue
  <2>2. Len(srcDone) = Len(srcDone') + 1 /\ Len(srcDone') \in Nat
    <3> HIDE DEF D
    <3> QED
      BY <1>0, <2>1
  <2>3. Pending(pool', "I", "wait") = Pending(pool, "I", "wait") - 1
    <3>1. Moves({}, {<<"I", "wait">>})
      BY <1>2, InputDequeuePools DEF Took, Answers
    <3> QED
      BY <1>0, <3>1 DEF Moves, Moved, Counted, Ops
  <2> QED
    BY <1>0, <2>1, <2>2, <2>3
<1>3. CASE Consume \/ Decode
  <2>1. src # <<>> /\ src' = Tail(src) /\ UNCHANGED <<user, pool>>
    BY <1>3 DEF Consume, Decode, codecVars, threadVars
  <2>2. \E x : srcDone' = Append(srcDone, x)
    BY <1>3 DEF Consume, Decode
  <2>3. Len(src) = Len(src') + 1 /\ Len(src') \in Nat /\ Len(srcDone') = Len(srcDone) + 1
    <3> HIDE DEF T, D
    <3> QED
      BY <1>0, <2>1, <2>2
  <2> QED
    BY <1>0, <2>1, <2>3
<1>4. CASE InputPortStop
  <2>1. src' = <<>> /\ srcDone' = <<>>
    BY <1>4 DEF InputPortStop, StopInput
  <2>2. InBufs' = 0
    BY <2>1 DEF InBufs
  <2> QED
    BY <1>a, <2>2 DEF Counted, Ops
<1>5. CASE CodecDoFlush
  BY <1>5 DEF CodecDoFlush
<1>6. CASE CodecFlushDone
  <2>1. src = <<>> /\ srcDone = <<>> /\ UNCHANGED <<src, srcDone>>
    BY <1>6 DEF CodecFlushDone, PortsAgree, Off, driverVars
  <2> QED
    BY <1>a, <2>1 DEF Counted, Ops
<1>7. CASE WaitEndsEmpty
  <2>1. UNCHANGED <<user, src, srcDone>>
    BY <1>7 DEF WaitEndsEmpty, codecVars, driverVars
  <2>2. PICK t \in {"I", "O"} : Took(t, "wait") /\ NoBufferFor(t)
    BY <1>7, WaitEndsEmptyPools
  <2>3. CASE t = "O"
    <3>1. Pending(pool', "I", "wait") = Pending(pool, "I", "wait")
      BY <2>2, <2>3, PendingSame DEF Took, Keeps
    <3> QED
      BY <2>1, <3>1
  <2>4. CASE t = "I"
    <3>1. user \/ ~on["In"]
      BY <2>2, <2>4 DEF NoBufferFor
    <3> QED
      BY <1>a, <2>1, <3>1 DEF Off, Counted, Ops
  <2> QED
    BY <2>3, <2>4
<1>8. CASE UNCHANGED <<user, src, srcDone>> /\ pool'["I"] = pool["I"]
  BY <1>8, PendingSame
<1> QED
  BY <1>1, <1>2, <1>3, <1>4, <1>5, <1>6, <1>7, <1>8, Frames, PoolFrames

\* The output port's are.
LEMMA OutAwaitedKept ==
  ASSUME TypeOK, Carried, Pipe, Tokens, PortsAgree, Off, Once, Offered, OutAwaited, Next
  PROVE  OutAwaited'
<1>0. \A t \in Threads : \A op : Pending(pool, t, op) \in Nat
  BY PendingType DEF Carried
<1>a. Pending(pool', "O", "wait") \in Nat
  BY CarriedKept, PendingType, Names DEF Carried
<1>b. Cardinality(OutBufs) \in Nat /\ Cardinality({}) = 0
  BY OutBufsAre, FS_EmptySet
<1>c. OutBufs' = {} => OutAwaited'
  BY <1>a, <1>b DEF OutAwaited
<1> USE Names, Entering DEF Enters
<1>1. CASE OutputEnqueued
  <2>1. UNCHANGED <<user, dst, held, dstDone>> /\ Enters("A", "idle")
    BY <1>1 DEF OutputEnqueued, codecVars, driverVars
  <2>2. OutBufs' = OutBufs
    BY <2>1 DEF OutBufs
  <2>3. CASE result = "ok" \/ OutBufs # {}
    <3>1. Moves({<<"O", "wait">>}, {})
      BY <1>1, <2>3, OutputEnqueuedPools
    <3>2. Pending(pool', "O", "wait") = Pending(pool, "O", "wait") + 1
      BY <1>0, <3>1 DEF Moves, Moved, Counted, Ops
    <3> QED
      BY <1>0, <1>b, <2>1, <2>2, <3>2 DEF OutAwaited
  <2>4. CASE OutBufs = {}
    BY <1>c, <2>2, <2>4
  <2> QED
    BY <2>3, <2>4
<1>2. CASE DoOutputEnqueue
  <2>1. /\ UNCHANGED <<user, phase, held, dstDone>>
        /\ \/ result' = "ok" /\ dst' = dst \cup buf
           \/ result' = "failed" /\ UNCHANGED dst
    BY <1>2 DEF DoOutputEnqueue
  <2>2. phase["A"] = "enqueue" /\ result = "none"
    <3>1. Pending(pool, "E", "out") >= 1
      BY <1>2, DoOutputEnqueuePools
    <3> QED
      BY <3>1 DEF Tokens, OutTokens
  <2>3. Pending(pool', "O", "wait") = Pending(pool, "O", "wait")
    BY <1>2, DoOutputEnqueuePools, PendingSame DEF Took, Keeps
  <2>4. CASE result' = "ok" /\ dst' = dst \cup buf
    <3>1. PICK b \in Bufs : buf = {b}
      BY <2>2 DEF Offered
    <3>2. OutBufs' = OutBufs \cup {b}
      BY <2>1, <2>4, <3>1 DEF OutBufs
    <3>3. Cardinality(OutBufs') \in Nat /\ Cardinality(OutBufs') <= Cardinality(OutBufs) + 1
      BY <3>2, OutBufsCount
    <3> QED
      BY <1>0, <1>b, <2>1, <2>2, <2>3, <2>4, <3>3 DEF OutAwaited
  <2>5. CASE UNCHANGED dst
    <3>1. OutBufs' = OutBufs
      BY <2>1, <2>5 DEF OutBufs
    <3> QED
      BY <1>0, <1>b, <2>1, <2>2, <2>3, <3>1 DEF OutAwaited
  <2> QED
    BY <2>1, <2>4, <2>5
<1>3. CASE OutputDequeue
  <2>1. dstDone # <<>> /\ dstDone' = Tail(dstDone) /\ UNCHANGED <<user, phase, result, dst, held>>
    BY <1>3 DEF OutputDequeue
  <2>2. Pending(pool', "O", "wait") = Pending(pool, "O", "wait") - 1
    <3>1. Moves({}, {<<"O", "wait">>})
      BY <1>3, OutputDequeuePools DEF Took, Answers
    <3> QED
      BY <1>0, <3>1 DEF Moves, Moved, Counted, Ops
  <2>3. OutBufs' \subseteq OutBufs /\ OutBufs' # OutBufs
    <3> DEFINE T == [buf : Bufs, tag : Tags, change : BOOLEAN]
    <3>1. Shorter(dstDone', dstDone)
      <4>1. dstDone \in Seq(T)
        BY DEF TypeOK
      <4> HIDE DEF T
      <4> QED
        BY <2>1, <4>1, TailShorter
    <3>2. dstDone[1].buf \in OutBufs
      BY <3>1 DEF Shorter, OutBufs
    <3>3. dstDone[1].buf \notin OutBufs'
      <4>1. dstDone[1].buf \notin dst /\ \A h \in held : h.buf # dstDone[1].buf
        BY <3>1 DEF Shorter, Once
      <4>2. \A k \in DOMAIN dstDone' : dstDone'[k].buf # dstDone[1].buf
        BY <3>1 DEF Shorter, Once
      <4> QED
        BY <2>1, <4>1, <4>2 DEF OutBufs
    <3>4. {dstDone'[k].buf : k \in DOMAIN dstDone'}
            \subseteq {dstDone[k].buf : k \in DOMAIN dstDone}
      BY <3>1 DEF Shorter
    <3>5. OutBufs' \subseteq OutBufs
      BY <2>1, <3>4 DEF OutBufs
    <3> QED
      BY <3>2, <3>3, <3>5
  <2>4. Cardinality(OutBufs') \in Nat /\ Cardinality(OutBufs') + 1 <= Cardinality(OutBufs)
    BY <2>3, OutBufsCount
  <2> QED
    BY <1>0, <1>b, <2>1, <2>2, <2>4 DEF OutAwaited
<1>4. CASE ResolutionChanged
  <2>1. phase'["O"] = "reconfigure"
    BY <1>4 DEF ResolutionChanged
  <2> QED
    BY <2>1 DEF OutAwaited
<1>5. CASE ReconfigOutput \/ OutputPortStop
  <2>1. dst' = {} /\ held' = {} /\ dstDone' = <<>>
    BY <1>5 DEF ReconfigOutput, OutputPortStop, StopOutput
  <2> QED
    BY <1>c, <2>1 DEF OutBufs
<1>6. CASE CodecFlushDone \/ ReconfigDropTasks
  <2>1. ~on["Out"] /\ UNCHANGED <<dst, held, dstDone>>
    BY <1>6 DEF CodecFlushDone, ReconfigDropTasks, PortsAgree, driverVars
  <2>2. OutBufs' = {}
    BY <2>1 DEF Off, OutBufs
  <2> QED
    BY <1>c, <2>2
<1>7. CASE CodecDoFlush
  BY <1>7 DEF CodecDoFlush, OutAwaited
<1>8. CASE CodecStopOutput \/ CodecOutputStopped
  <2>1. user /\ UNCHANGED user
    BY <1>8 DEF CodecStopOutput, CodecOutputStopped, Tokens, Woken, Stopping, codecVars
  <2> QED
    BY <2>1 DEF OutAwaited
<1>9. CASE WaitEndsEmpty
  <2>1. UNCHANGED <<user, dst, held, dstDone, phase, result>>
    BY <1>9 DEF WaitEndsEmpty, codecVars, driverVars
  <2>2. OutBufs' = OutBufs
    BY <2>1 DEF OutBufs
  <2>3. PICK t \in {"I", "O"} : Took(t, "wait") /\ NoBufferFor(t)
    BY <1>9, WaitEndsEmptyPools
  <2>4. CASE t = "I"
    <3>1. Pending(pool', "O", "wait") = Pending(pool, "O", "wait")
      BY <2>3, <2>4, PendingSame DEF Took, Keeps
    <3> QED
      BY <2>1, <2>2, <3>1 DEF OutAwaited
  <2>5. CASE t = "O"
    <3>1. user \/ ~on["Out"]
      BY <2>3, <2>5 DEF NoBufferFor
    <3>2. ~on["Out"] => OutBufs = {}
      BY DEF Off, OutBufs
    <3> QED
      BY <1>c, <2>1, <2>2, <3>1, <3>2 DEF OutAwaited
  <2> QED
    BY <2>4, <2>5
<1>10. CASE \/ TakeFill \/ AllocOutBuffer \/ AllocTryAgain \/ CodecFlush \/ ClearPipeInputs
            \/ ClearMaps
  <2>1. phase["A"] # "enqueue" /\ UNCHANGED <<user, dst, held, dstDone>>
    BY <1>10 DEF TakeFill, AllocOutBuffer, AllocTryAgain, CodecFlush, ClearPipeInputs, ClearMaps,
                 Next_, codecVars, driverVars
  <2>2. OutBufs' = OutBufs
    BY <2>1 DEF OutBufs
  <2>3. Pending(pool', "O", "wait") = Pending(pool, "O", "wait")
    <3>1. CASE TakeFill \/ AllocOutBuffer \/ AllocTryAgain \/ CodecFlush
      BY <3>1, TakeFillPools, AllocOutBufferPools, AllocTryAgainPools, CodecFlushPools, PendingSame
         DEF Rests, Gave, Keeps
    <3>2. CASE ClearPipeInputs \/ ClearMaps
      BY <3>2, PendingSame DEF ClearPipeInputs, ClearMaps
    <3> QED
      BY <1>10, <3>1, <3>2
  <2>4. phase'["O"] = phase["O"]
    <3>1. FlushReturned \/ \E p : phase' = [phase EXCEPT !["A"] = p]
      BY <1>10 DEF TakeFill, AllocOutBuffer, AllocTryAgain, CodecFlush, ClearPipeInputs, ClearMaps
    <3> QED
      BY <3>1, FlushReturning
  <2> QED
    BY <1>0, <1>b, <2>1, <2>2, <2>3, <2>4 DEF OutAwaited
<1>11. CASE ReconfigRefill
  <2>1. /\ phase["O"] = "refill" /\ UNCHANGED <<user, dst, held, dstDone, result>>
        /\ phase'["A"] = phase["A"]
    BY <1>11 DEF ReconfigRefill, codecVars, driverVars
  <2>2. OutBufs' = OutBufs
    BY <2>1 DEF OutBufs
  <2>3. Pending(pool', "O", "wait") = Pending(pool, "O", "wait")
    BY <1>11, ReconfigRefillPools, PendingSame DEF Rests, Keeps
  <2> QED
    BY <2>1, <2>2, <2>3 DEF OutAwaited
<1>12. CASE /\ UNCHANGED <<user, result>> /\ OutBufs' \subseteq OutBufs
            /\ phase'["A"] = phase["A"] /\ phase'["O"] = phase["O"] /\ pool'["O"] = pool["O"]
  <2>1. Pending(pool', "O", "wait") = Pending(pool, "O", "wait")
    BY <1>12, PendingSame
  <2>2. Cardinality(OutBufs') \in Nat /\ Cardinality(OutBufs') <= Cardinality(OutBufs)
    BY <1>12, OutBufsCount
  <2> QED
    BY <1>0, <1>b, <1>12, <2>1, <2>2 DEF OutAwaited
<1> QED
  BY <1>1, <1>2, <1>3, <1>4, <1>5, <1>6, <1>7, <1>8, <1>9, <1>10, <1>11, <1>12,
     Frames, PhaseFrames, PoolFrames, OutBufsSteps

-----------------------------------------------------------------------------


----------------------------------------------------------------------------
(* How much of the inputs is left. *)

\* The works F has to take up, and the inputs E has to give.
LEMMA WorksAhead ==
  ASSUME TypeOK, Carried, Pipe, Next
  PROVE  /\ \/ Steady("F", "work") \/ QueueWork
            \/ Flush /\ Pending(pool', "F", "work") = 0
            \/ DoQueueWork /\ Pending(pool', "F", "work") = Pending(pool, "F", "work") - 1
         /\ \/ Steady("E", "in")
            \/ /\ DoQueueWork /\ configured'
               /\ Pending(pool', "E", "in") = Pending(pool, "E", "in") + 1
            \/ /\ DoPipeInputEnqueue /\ Head(pool["E"]).op = "in"
               /\ Pending(pool', "E", "in") = Pending(pool, "E", "in") - 1
         /\ DoQueueWork => Pending(pool, "F", "work") >= 1
         /\ DoPipeInputEnqueue =>
              \/ Head(pool["E"]).op = "feed"
              \/ Head(pool["E"]).op = "in" /\ Pending(pool, "E", "in") >= 1
<1>0. \A t \in Threads : \A op : Pending(pool, t, op) \in Nat
  BY PendingType DEF Carried
<1> USE Names DEF Steady
<1>1. ASSUME DoQueueWork
      PROVE  /\ Pending(pool, "F", "work") >= 1
             /\ Pending(pool', "F", "work") = Pending(pool, "F", "work") - 1
             /\ \/ Steady("E", "in")
                \/ configured' /\ Pending(pool', "E", "in") = Pending(pool, "E", "in") + 1
  <2>1. \/ configured' /\ Moves({<<"E", "in">>}, {<<"F", "work">>})
        \/ Moves({}, {<<"F", "work">>})
    BY <1>1, DoQueueWorkPools DEF DoProcess
  <2>2. Pending(pool, "F", "work") >= 1
    BY <1>1, FirstPending DEF DoQueueWork
  <2> QED
    BY <1>0, <2>1, <2>2 DEF Moves, Moved, Counted, Ops
<1>2. ASSUME DoPipeInputEnqueue
      PROVE  /\ \/ Head(pool["E"]).op = "feed"
                \/ Head(pool["E"]).op = "in" /\ Pending(pool, "E", "in") >= 1
             /\ \/ Steady("E", "in")
                \/ /\ Head(pool["E"]).op = "in"
                   /\ Pending(pool', "E", "in") = Pending(pool, "E", "in") - 1
  <2>1. Took("E", "in") \/ Took("E", "feed")
    BY <1>2, DoPipeInputEnqueuePools
  <2>2. CASE Took("E", "in")
    <3>1. pool["E"] \in Seq(Tasks) /\ pool["E"] # <<>> /\ Head(pool["E"]).op = "in"
      BY <2>2 DEF Took, Carried, Pools
    <3>2. 1 \in DOMAIN pool["E"] /\ pool["E"][1].op = "in"
      BY <3>1
    <3>3. Pending(pool, "E", "in") >= 1
      BY <1>0, <3>2, PendingType DEF Carried
    <3> QED
      BY <1>0, <2>2, <3>1, <3>3 DEF Took, Moves, Moved, Counted, Ops
  <2>3. CASE Took("E", "feed")
    BY <1>0, <2>3 DEF Took, Moves, Moved, Counted, Ops
  <2> QED
    BY <2>1, <2>2, <2>3
<1>3. \/ Steady("F", "work") \/ QueueWork \/ DoQueueWork
      \/ Flush /\ Pending(pool', "F", "work") = 0
  <2>1. CASE Flush
    BY <2>1, FlushPools
  <2>2. CASE FlushSync
    BY <1>0, <2>2, FlushSyncPools DEF Moves, Moved, Counted, Ops
  <2>3. CASE DoWorkDone
    BY <1>0, <2>3, DoWorkDonePools DEF Moves, Moved, Counted, Ops
  <2>4. CASE DoFlush
    BY <1>0, <2>4, DoFlushPools DEF Counted, Ops
  <2>5. CASE DoFlushDone
    BY <1>0, <2>5, DoFlushDonePools DEF Moves, Moved, Counted, Ops
  <2>6. CASE InputRefused
    BY <1>0, <2>6, InputRefusedPools DEF Answers, Moves, Moved, Counted, Ops
  <2>7. CASE InputDequeue
    <3>1. Moves({}, {<<"I", "wait">>})
      BY <2>7, InputDequeuePools DEF Took, Answers
    <3> QED
      BY <1>0, <3>1 DEF Moves, Moved, Counted, Ops
  <2>8. CASE OutputDequeue
    <3>1. Moves({}, {<<"O", "wait">>})
      BY <2>8, OutputDequeuePools DEF Took, Answers
    <3> QED
      BY <1>0, <3>1 DEF Moves, Moved, Counted, Ops
  <2>9. CASE pool'["F"] = pool["F"]
    BY <2>9, PendingSame
  <2> QED
    BY <2>1, <2>2, <2>3, <2>4, <2>5, <2>6, <2>7, <2>8, <2>9, PoolFrames
<1>4. Steady("E", "in") \/ DoQueueWork \/ DoPipeInputEnqueue
  <2>1. CASE AllocOutBuffer
    BY <1>0, <2>1, AllocOutBufferPools DEF Gave, Moves, Moved, Counted, Ops
  <2>2. CASE CodecFlush
    <3>1. Moves({<<"E", "flush">>}, {<<"A", "flush">>}) \/ Moves({}, {<<"A", "flush">>})
      BY <2>2, CodecFlushPools
    <3> QED
      BY <1>0, <3>1 DEF Moves, Moved, Counted, Ops
  <2>3. CASE DoOutputEnqueue
    BY <1>0, <2>3, DoOutputEnqueuePools DEF Took, Moves, Moved, Counted, Ops
  <2>4. CASE CodecDoFlush
    <3>1. Moves({<<"I", "stop">>}, {<<"E", "flush">>}) \/ Moves({}, {<<"E", "flush">>})
      BY <2>4, CodecDoFlushPools
    <3> QED
      BY <1>0, <3>1 DEF Moves, Moved, Counted, Ops
  <2>5. CASE FeedPiled
    BY <1>0, <2>5, FeedPiledPools DEF Gave, Moves, Moved, Counted, Ops
  <2>6. CASE pool'["E"] = pool["E"]
    BY <2>6, PendingSame
  <2> QED
    BY <2>1, <2>2, <2>3, <2>4, <2>5, <2>6, PoolFrames
<1> QED
  BY <1>1, <1>2, <1>3, <1>4

\* Nothing of an input is left in the codec.
Quiet ==
  mPipeInputs = <<>> /\ (\A t \in Tags : mInputs[t] = None) /\ Pending(pool, "E", "in") = 0

\* Nor in the driver, but for what was fed behind a flush.
Drained == ~fed => src = <<>> /\ srcDone = <<>>

\* The step that takes a work up is the one that ends this.
LEMMA QuietKept ==
  ASSUME TypeOK, Carried, Pipe, Quiet, Next
  PROVE  /\ Quiet' \/ (DoQueueWork /\ configured')
         /\ UNCHANGED fed /\ ~InputEnqueue /\ ~InputRefused
<1>0. /\ \A t \in Threads : \A op : Pending(pool, t, op) \in Nat
      /\ phase["E"] # "pipe"
  BY PendingType DEF Carried, Quiet, Pipe
<1>1. ~InputEnqueue /\ ~InputRefused
  BY <1>0 DEF InputEnqueue, InputRefused
<1>2. UNCHANGED fed
  BY <1>1, Frames
<1>3. mPipeInputs' = <<>>
  <2>1. CASE ClearPipeInputs
    BY <2>1 DEF ClearPipeInputs, Quiet
  <2>2. CASE DoPipeInputEnqueue
    <3>1. Head(pool["E"]).op = "feed"
      BY <2>2, WorksAhead DEF Quiet
    <3> QED
      BY <2>2, <3>1 DEF DoPipeInputEnqueue, Quiet
  <2> QED
    BY <1>1, <2>1, <2>2, Frames DEF Quiet
<1>4. \A t \in Tags : mInputs'[t] = None
  <2>1. CASE ClearMaps
    BY <2>1 DEF ClearMaps
  <2>2. CASE InputDequeue
    BY <2>2 DEF InputDequeue, Quiet
  <2>3. CASE InputPortStop
    BY <2>3 DEF InputPortStop, StopInput
  <2>4. CASE OutputDequeue
    <3>1. mInputs \in [Tags -> 0..NumInputs]
      BY DEF TypeOK
    <3>2. UNCHANGED mInputs \/ \E t : mInputs' = [mInputs EXCEPT ![t] = None]
      BY <2>4 DEF OutputDequeue
    <3> QED
      BY <3>1, <3>2 DEF Quiet
  <2> QED
    BY <1>1, <2>1, <2>2, <2>3, <2>4, Frames DEF Quiet
<1>5. Pending(pool', "E", "in") = 0 \/ (DoQueueWork /\ configured')
  BY <1>0, WorksAhead, Names DEF Steady, Quiet
<1> QED
  BY <1>1, <1>2, <1>3, <1>4, <1>5 DEF Quiet

\* What the driver has of the input port only grows with an input given to it.
LEMMA DrainedKept ==
  ASSUME TypeOK, Next, src = <<>>, srcDone = <<>>
  PROVE  InputEnqueue \/ (src' = <<>> /\ srcDone' = <<>>)
<1>1. CASE InputPortStop
  BY <1>1 DEF InputPortStop, StopInput
<1>2. ~Consume /\ ~Decode /\ ~InputDequeue
  BY DEF Consume, Decode, InputDequeue
<1> QED
  BY <1>1, <1>2, Frames

----------------------------------------------------------------------------
(* A flush, from its beginning to its end. *)

\* The component only waits for a flush that is under way.
LEMMA ClientSteps ==
  ASSUME TypeOK, Carried, Tokens, Synced, Next
  PROVE  /\ CodecFlush \/ ClearPipeInputs \/ ClearMaps => client = "flushing"
         /\ DoFlushDone => client = "syncing"
         /\ client' # "idle" => client # "idle" \/ Flush
         /\ client' \in {"flushed", "syncing", "synced"} =>
              \/ client \in {"flushed", "syncing", "synced"}
              \/ /\ client' = "flushed" /\ FlushReturned
                 /\ CodecFlush \/ ClearPipeInputs \/ ClearMaps
         /\ client' = "synced" => client = "synced" \/ DoFlushDone
<1>0. \A t \in Threads : \A op : Pending(pool, t, op) \in Nat
  BY PendingType DEF Carried
<1>1. CodecFlush \/ ClearPipeInputs \/ ClearMaps => client = "flushing"
  <2>1. ASSUME CodecFlush
        PROVE  Pending(pool, "A", "flush") >= 1
    BY <2>1, CodecFlushPools
  <2>2. ClearPipeInputs \/ ClearMaps => phase["A"] \in {"flush", "clear"}
    BY DEF ClearPipeInputs, ClearMaps
  <2> QED
    BY <1>0, <2>1, <2>2, Names DEF Tokens, FlushTokens
<1>2. DoFlushDone => client = "syncing"
  <2> SUFFICES ASSUME DoFlushDone PROVE client = "syncing"
    OBVIOUS
  <2>1. pool["F"] # <<>> /\ Head(pool["F"]).op = "flushDone" /\ pool["F"] \in Seq(Tasks)
    BY DoFlushDonePools, Names DEF Carried, Pools
  <2>2. 1 \in DOMAIN pool["F"] /\ pool["F"][1].op = "flushDone"
    BY <2>1
  <2> QED
    BY <2>2 DEF Synced
<1>3. Flush => client' = "flushing"
  BY DEF Flush
<1>4. FlushSync => client = "flushed" /\ client' = "syncing"
  BY DEF FlushSync
<1>5. FlushEnd => client = "synced" /\ client' = "idle"
  BY DEF FlushEnd
<1>6. DoFlushDone => client' = "synced"
  BY DEF DoFlushDone
<1>7. CodecFlush \/ ClearPipeInputs \/ ClearMaps =>
        UNCHANGED client \/ (FlushReturned /\ client' = "flushed")
  BY DEF CodecFlush, ClearPipeInputs, ClearMaps, FlushReturned
<1> QED
  BY <1>1, <1>2, <1>3, <1>4, <1>5, <1>6, <1>7, Frames

\* From the beginning of a flush to its end F has no work to take up.
NoWork == client # "idle" => Pending(pool, "F", "work") = 0
\* Only an idle component queues works, and flush() drops those that wait.
LEMMA NoWorkKept ==
  ASSUME TypeOK, Carried, Pipe, Tokens, Synced, NoWork, Next
  PROVE  NoWork'
<1>0. Pending(pool, "F", "work") \in Nat
  BY PendingType, Names DEF Carried
<1>1. CASE QueueWork
  <2>1. client' = "idle"
    BY <1>1 DEF QueueWork
  <2> QED
    BY <2>1 DEF NoWork
<1>2. CASE Flush
  BY <1>2, FlushPools DEF NoWork
<1>3. CASE DoQueueWork
  <2>1. Pending(pool, "F", "work") >= 1 /\ UNCHANGED client
    BY <1>3, WorksAhead DEF DoQueueWork, clientVars
  <2> QED
    BY <1>0, <2>1 DEF NoWork
<1>4. CASE Steady("F", "work") /\ ~Flush
  BY <1>4, ClientSteps DEF NoWork, Steady
<1> QED
  BY <1>1, <1>2, <1>3, <1>4, WorksAhead

\* The codec's flush finds all inputs before it.
FlushLast ==
  \A k, l \in DOMAIN pool["E"] : k < l /\ pool["E"][k].op = "flush" => pool["E"][l].op # "in"

\* E gets no input behind the codec's flush, as F waits for that flush.
LEMMA FlushLastKept ==
  ASSUME TypeOK, Carried, Pipe, Tokens, FlushLast, Next
  PROVE  FlushLast'
<1>0. /\ pool["E"] \in Seq(Tasks)
      /\ \A t \in Threads : \A op : Pending(pool, t, op) \in Nat
  BY Names, PendingType DEF Carried, Pools
<1>1. ASSUME NEW x \in Tasks, pool'["E"] = Append(pool["E"], x),
             x.op = "in" => \A k \in DOMAIN pool["E"] : pool["E"][k].op # "flush"
      PROVE  FlushLast'
  <2>1. Longer(pool'["E"], pool["E"], x)
    BY <1>0, <1>1, AppendLonger
  <2>2. \A k, l \in DOMAIN pool'["E"] : k < l => k \in DOMAIN pool["E"]
    <3>1. DOMAIN pool["E"] = 1..Len(pool["E"]) /\ Len(pool["E"]) \in Nat
      BY <1>0, LenProperties
    <3> QED
      BY <2>1, <3>1 DEF Longer
  <2> QED
    BY <1>1, <2>1, <2>2 DEF FlushLast, Longer
<1>2. ASSUME pool["E"] # <<>>, pool'["E"] = Tail(pool["E"])
      PROVE  FlushLast'
  <2>1. Shorter(pool'["E"], pool["E"])
    BY <1>0, <1>2, TailShorter
  <2> QED
    BY <2>1 DEF FlushLast, Shorter
<1>3. CASE pool'["E"] = pool["E"]
  BY <1>3 DEF FlushLast
<1>4. CASE DoQueueWork
  <2>1. PICK i \in Inputs : \/ pool'["E"] = Append(pool["E"], Work("in", i))
                            \/ pool'["E"] = pool["E"]
    BY <1>4, DoQueueWorkPools DEF Keeps
  <2>2. Pending(pool, "E", "flush") = 0
    <3>1. phase["F"] = "idle"
      BY <1>4 DEF DoQueueWork, Next_
    <3> QED
      BY <1>0, <3>1, Names DEF Tokens, FlushTokens
  <2>3. \A k \in DOMAIN pool["E"] : pool["E"][k].op # "flush"
    BY <2>2, PendingType, Names DEF Carried
  <2>4. Work("in", i) \in Tasks
    BY TasksAre
  <2> QED
    BY <1>1, <1>3, <2>1, <2>3, <2>4
<1>5. CASE AllocOutBuffer \/ FeedPiled
  <2>1. pool'["E"] = pool["E"]
          \/ \E op \in {"out", "feed"} : pool'["E"] = Append(pool["E"], Task(op))
    BY <1>5, AllocOutBufferPools, FeedPiledPools DEF Gave
  <2>2. \A op \in {"out", "feed"} : Task(op) \in Tasks /\ Task(op).op # "in"
    BY TasksAre DEF Task, Ops
  <2> QED
    BY <1>1, <1>3, <2>1, <2>2
<1>6. CASE CodecFlush
  <2>1. pool'["E"] = pool["E"] \/ pool'["E"] = Append(pool["E"], Task("flush"))
    BY <1>6, CodecFlushPools
  <2>2. Task("flush") \in Tasks /\ Task("flush").op # "in"
    BY TasksAre DEF Task, Ops
  <2> QED
    BY <1>1, <1>3, <2>1, <2>2
<1>7. CASE DoPipeInputEnqueue \/ DoOutputEnqueue \/ CodecDoFlush
  BY <1>2, <1>7, DoPipeInputEnqueuePools, DoOutputEnqueuePools, CodecDoFlushPools DEF Took
<1> QED
  BY <1>3, <1>4, <1>5, <1>6, <1>7, PoolFrames

\* Once the codec's flush runs, no input is before E; once it is over, none in the pipe.
FlushFirst ==
  /\ phase["A"] = "flush" /\ (result = "ok" \/ phase["E"] \in Stopping)
       => Pending(pool, "E", "in") = 0
  /\ phase["A"] = "clear" => mPipeInputs = <<>> /\ Pending(pool, "E", "in") = 0

\* The flush of the codec gets its turn when E has taken all inputs before it.
LEMMA FlushFirstKept ==
  ASSUME TypeOK, Carried, Pipe, Tokens, PortsAgree, FlushLast, FlushFirst, Next
  PROVE  FlushFirst'
<1>0. /\ result \in {"none", "ok", "failed"}
      /\ \A t \in Threads : \A op : Pending(pool, t, op) \in Nat
  BY PhasesAre, PendingType DEF Carried
<1> USE Names, Entering DEF Enters
<1>1. CASE CodecFlush
  <2>1. phase["A"] = "idle" /\ UNCHANGED <<result, mPipeInputs>>
    BY <1>1 DEF CodecFlush, Next_, codecVars
  <2>2. result = "none" /\ Pending(pool, "A", "flush") >= 1
    BY <1>1, <2>1, CodecFlushPools DEF Tokens, OutTokens
  <2>3. phase["E"] \notin Stopping
    BY <1>0, <2>1, <2>2 DEF Tokens, FlushTokens
  <2>4. (Enters("A", "flush") \/ FlushReturned)
    BY <1>1 DEF CodecFlush
  <2> QED
    BY <2>1, <2>2, <2>3, <2>4, FlushReturning DEF FlushFirst
<1>2. CASE ClearPipeInputs
  <2>1. /\ phase["A"] = "flush" /\ result # "none" /\ result' = "none" /\ UNCHANGED pool
        /\ phase'["E"] = phase["E"]
    <3>1. FlushReturned \/ Enters("A", "clear")
      BY <1>2 DEF ClearPipeInputs
    <3> QED
      BY <1>2, <3>1, FlushReturning DEF ClearPipeInputs
  <2>2. result = "ok"
    BY <1>0, <2>1 DEF PortsAgree
  <2>3. mPipeInputs' = <<>> /\ Enters("A", "clear")
    BY <1>2, <2>2 DEF ClearPipeInputs
  <2> QED
    BY <2>1, <2>2, <2>3 DEF FlushFirst
<1>3. CASE ClearMaps
  <2>1. phase'["A"] = "idle"
    BY <1>3, FlushReturning DEF ClearMaps
  <2> QED
    BY <2>1 DEF FlushFirst
<1>4. CASE TakeFill \/ AllocOutBuffer \/ AllocTryAgain \/ OutputEnqueued
  <2>1. phase'["A"] \notin {"flush", "clear"}
    BY <1>4 DEF TakeFill, AllocOutBuffer, AllocTryAgain, OutputEnqueued
  <2> QED
    BY <2>1 DEF FlushFirst
<1>5. CASE CodecDoFlush
  <2>1. /\ phase'["A"] = phase["A"] /\ UNCHANGED <<result, mPipeInputs>>
        /\ Pending(pool, "E", "flush") >= 1
    BY <1>5, CodecDoFlushPools DEF CodecDoFlush
  <2>2. phase["A"] = "flush"
    BY <1>0, <2>1 DEF Tokens, FlushTokens
  <2>3. \A k \in DOMAIN pool'["E"] : pool'["E"][k].op # "in"
    <3>1. pool["E"] \in Seq(Tasks) /\ pool["E"] # <<>> /\ pool'["E"] = Tail(pool["E"])
          /\ Head(pool["E"]).op = "flush"
      BY <1>5, CodecDoFlushPools DEF Carried, Pools, Task
    <3>2. Shorter(pool'["E"], pool["E"]) /\ \A k \in DOMAIN pool'["E"] : k + 1 > 1
      <4>1. Shorter(pool'["E"], pool["E"])
        BY <3>1, TailShorter
      <4>2. pool'["E"] \in Seq(Tasks)
        BY <3>1, TailProperties
      <4> QED
        BY <4>1, <4>2
    <3> QED
      BY <3>1, <3>2 DEF Shorter, FlushLast
  <2>4. pool' \in Pools
    BY <1>5, CodecDoFlushPools DEF Carried
  <2>5. Pending(pool', "E", "in") = 0
    BY <2>3, <2>4, PendingType
  <2> QED
    BY <2>1, <2>2, <2>5 DEF FlushFirst
<1>6. CASE CodecStopOutput \/ CodecOutputStopped \/ CodecFlushDone
  <2>1. phase["E"] \in Stopping /\ phase'["A"] = phase["A"] /\ UNCHANGED mPipeInputs
    BY <1>6 DEF CodecStopOutput, CodecOutputStopped, CodecFlushDone, Stopping, codecVars
  <2>2. phase["A"] = "flush"
    BY <1>0, <2>1 DEF Tokens, FlushTokens
  <2>3. Pending(pool', "E", "in") = Pending(pool, "E", "in")
    <3>1. CASE CodecStopOutput
      BY <3>1, CodecStopOutputPools, PendingSame DEF Gave, Keeps
    <3>2. CASE CodecOutputStopped \/ CodecFlushDone
      BY <3>2 DEF CodecOutputStopped, CodecFlushDone
    <3> QED
      BY <1>6, <3>1, <3>2
  <2> QED
    BY <2>1, <2>2, <2>3 DEF FlushFirst
<1>7. CASE DoOutputEnqueue
  <2>1. phase["A"] = "enqueue" /\ UNCHANGED phase
    <3>1. Pending(pool, "E", "out") >= 1
      BY <1>7, DoOutputEnqueuePools
    <3> QED
      BY <1>7, <3>1 DEF Tokens, OutTokens, DoOutputEnqueue
  <2> QED
    BY <2>1 DEF FlushFirst
<1>8. CASE DoQueueWork
  <2>1. phase["F"] = "idle" /\ UNCHANGED phase
    BY <1>8 DEF DoQueueWork, Next_
  <2>2. phase["A"] \notin {"flush", "clear"}
    BY <1>0, <2>1 DEF Tokens, FlushTokens
  <2> QED
    BY <2>1, <2>2 DEF FlushFirst
<1>9. CASE ~DoQueueWork /\ (DoPipeInputEnqueue \/ InputEnqueue \/ InputRefused)
  <2>1. /\ UNCHANGED result /\ phase["E"] \in {"idle", "pipe"} /\ phase'["E"] \in {"idle", "pipe"}
        /\ phase'["A"] = phase["A"]
    <3>1. phase' = Piping /\ phase["E"] \in {"idle", "pipe"} /\ UNCHANGED result
      BY <1>9 DEF DoPipeInputEnqueue, InputEnqueue, InputRefused, Next_
    <3>2. Enters("E", "pipe") \/ Enters("E", "idle")
      BY <3>1 DEF Piping
    <3> QED
      BY <3>1, <3>2
  <2>2. "pipe" \notin Stopping /\ "idle" \notin Stopping
    BY DEF Stopping
  <2>3. CASE DoPipeInputEnqueue
    <3>1. UNCHANGED mPipeInputs \/ Pending(pool, "E", "in") >= 1
      BY <2>3, WorksAhead DEF DoPipeInputEnqueue
    <3>2. Pending(pool', "E", "in") = Pending(pool, "E", "in") \/ Pending(pool, "E", "in") >= 1
      BY <1>9, <2>3, WorksAhead DEF Steady
    <3> QED
      BY <1>0, <2>1, <2>2, <3>1, <3>2 DEF FlushFirst
  <2>4. CASE InputEnqueue \/ InputRefused
    <3>1. mPipeInputs # <<>>
      BY <2>4 DEF InputEnqueue, InputRefused, Pipe
    <3>2. Pending(pool', "E", "in") = Pending(pool, "E", "in")
      BY <2>4, InputEnqueuePools, InputRefusedPools, PendingSame DEF Gave, Keeps
    <3> QED
      BY <1>0, <2>1, <2>2, <3>1, <3>2 DEF FlushFirst
  <2> QED
    BY <1>9, <2>3, <2>4
<1>10. CASE /\ UNCHANGED <<result, mPipeInputs>> /\ phase'["A"] = phase["A"]
            /\ phase'["E"] = phase["E"] /\ Pending(pool', "E", "in") = Pending(pool, "E", "in")
  BY <1>10 DEF FlushFirst
<1> QED
  BY <1>1, <1>2, <1>3, <1>4, <1>5, <1>6, <1>7, <1>8, <1>9, <1>10,
     Frames, PhaseFrames, WorksAhead DEF Steady

\* The driver has nothing that was given before the codec's flush.
FlushDrained == BehindFlush => Drained
\* The input port is stopped before the flush of the codec is over.
LEMMA FlushDrainedKept ==
  ASSUME TypeOK, Carried, Pipe, Tokens, PortsAgree, Off, FlushDrained, Next
  PROVE  FlushDrained'
<1>0. /\ result \in {"none", "ok", "failed"}
      /\ \A t \in Threads : \A op : Pending(pool, t, op) \in Nat
  BY PhasesAre, PendingType DEF Carried
<1> USE Names, Entering DEF Enters
<1>1. CASE CodecFlushDone
  <2>1. phase["E"] = "end" /\ UNCHANGED <<src, srcDone>>
    BY <1>1 DEF CodecFlushDone, driverVars
  <2>2. src = <<>> /\ srcDone = <<>>
    BY <2>1 DEF PortsAgree, Off
  <2> QED
    BY <2>1, <2>2 DEF FlushDrained, Drained
<1>2. ASSUME BehindFlush', ~CodecFlushDone
      PROVE  BehindFlush
  <2>1. CASE ClearPipeInputs
    <3>1. phase["A"] = "flush" /\ result # "none"
      BY <2>1 DEF ClearPipeInputs
    <3> QED
      BY <1>0, <3>1 DEF PortsAgree, BehindFlush
  <2>2. CASE CodecFlush
    <3>1. phase["A"] = "idle" /\ UNCHANGED result
      BY <2>2 DEF CodecFlush, Next_
    <3>2. result = "none"
      BY <3>1 DEF Tokens, OutTokens
    <3>3. phase'["A"] # "clear"
      <4>1. Enters("A", "flush") \/ FlushReturned
        BY <2>2 DEF CodecFlush
      <4> QED
        BY <4>1, FlushReturning
    <3> QED
      BY <1>2, <3>1, <3>2, <3>3 DEF BehindFlush
  <2>3. CASE ClearMaps \/ TakeFill \/ AllocOutBuffer \/ AllocTryAgain \/ OutputEnqueued
    <3>1. phase'["A"] \notin {"flush", "clear"}
      BY <2>3, FlushReturning
         DEF ClearMaps, TakeFill, AllocOutBuffer, AllocTryAgain, OutputEnqueued
    <3> QED
      BY <1>2, <3>1 DEF BehindFlush
  <2>4. CASE DoOutputEnqueue
    <3>1. Pending(pool, "E", "out") >= 1 /\ UNCHANGED phase
      BY <2>4, DoOutputEnqueuePools DEF DoOutputEnqueue
    <3>2. phase["A"] = "enqueue"
      BY <1>0, <3>1 DEF Tokens, OutTokens
    <3> QED
      BY <1>2, <3>1, <3>2 DEF BehindFlush
  <2>5. CASE CodecOutputStopped
    <3>1. phase'["A"] = phase["A"] /\ (result' = result \/ result' = "failed")
      BY <2>5 DEF CodecOutputStopped
    <3> QED
      BY <1>2, <3>1 DEF BehindFlush
  <2>6. CASE UNCHANGED result /\ phase'["A"] = phase["A"]
    BY <1>2, <2>6 DEF BehindFlush
  <2> QED
    BY <1>2, <2>1, <2>2, <2>3, <2>4, <2>5, <2>6, Frames, PhaseFrames
<1>3. ASSUME BehindFlush
      PROVE  Drained'
  <2>1. ASSUME ~fed'
        PROVE  src' = <<>> /\ srcDone' = <<>>
    <3>1. ~InputEnqueue
      BY <1>3, <2>1 DEF InputEnqueue
    <3>2. ~fed
      BY <2>1, <3>1, Frames
    <3> QED
      BY <1>3, <3>1, <3>2, DrainedKept DEF FlushDrained, Drained
  <2> QED
    BY <2>1 DEF Drained
<1> QED
  BY <1>1, <1>2, <1>3 DEF FlushDrained

\* Before the first work is processed the codec and the driver have nothing.
Unused == ~configured => Quiet /\ src = <<>> /\ srcDone = <<>>
\* Nothing comes there without a work.
LEMMA UnusedKept ==
  ASSUME TypeOK, Carried, Pipe, Unused, Next
  PROVE  Unused'
<1> SUFFICES ASSUME ~configured'
             PROVE  Quiet' /\ src' = <<>> /\ srcDone' = <<>>
  BY DEF Unused
<1>1. ~configured
  BY Frames DEF DoQueueWork, DoProcess, SetupFails
<1> QED
  BY <1>1, QuietKept, DrainedKept DEF Unused

\* From the end of doFlush() to the end of flush() nothing is left.
Flushed == client \in {"flushed", "syncing", "synced"} => Quiet /\ Drained
\* A flush of the codec that is over has emptied it; one that is not needed finds it empty.
LEMMA FlushedKept ==
  ASSUME TypeOK, Carried, Pipe, Tokens, Synced, PortsAgree, NoWork, FlushFirst, FlushDrained, Unused,
         Flushed, Next
  PROVE  Flushed'
<1>0. /\ result \in {"none", "ok", "failed"}
      /\ \A t \in Threads : \A op : Pending(pool, t, op) \in Nat
  BY PhasesAre, PendingType DEF Carried
<1>1. ASSUME client \in {"flushed", "syncing", "synced"}
      PROVE  Quiet' /\ Drained'
  <2>1. ~DoQueueWork
    BY <1>0, <1>1, WorksAhead, Names DEF NoWork
  <2>2. Quiet' /\ UNCHANGED fed /\ ~InputEnqueue
    BY <1>1, <2>1, QuietKept DEF Flushed
  <2> QED
    BY <1>1, <2>2, DrainedKept DEF Flushed, Drained
<1>2. ASSUME FlushReturned, client' = "flushed", CodecFlush \/ ClearPipeInputs \/ ClearMaps
      PROVE  Quiet' /\ Drained'
  <2>0. client = "flushing"
    BY <1>2, ClientSteps
  <2>1. CASE CodecFlush
    <3>1. ~configured
      BY <1>2, <2>0, <2>1 DEF CodecFlush
    <3>2. ~DoQueueWork
      BY <1>2, <2>0 DEF DoQueueWork, clientVars
    <3> QED
      BY <3>1, <3>2, QuietKept, DrainedKept DEF Unused, Drained
  <2>2. CASE ClearPipeInputs
    <3>1. phase["A"] = "flush" /\ result # "none"
      BY <2>2 DEF ClearPipeInputs
    <3>2. result = "ok"
      BY <1>0, <3>1 DEF PortsAgree
    <3> QED
      BY <1>2, <2>0, <2>2, <3>2 DEF ClearPipeInputs
  <2>3. CASE ClearMaps
    <3>1. /\ phase["A"] = "clear" /\ \A t \in Tags : mInputs'[t] = None
          /\ UNCHANGED <<pool, mPipeInputs, fed, src, srcDone>>
      BY <2>3 DEF ClearMaps, driverVars
    <3>2. mPipeInputs = <<>> /\ Pending(pool, "E", "in") = 0 /\ Drained
      BY <3>1 DEF FlushFirst, FlushDrained, BehindFlush
    <3> QED
      BY <3>1, <3>2 DEF Quiet, Drained
  <2> QED
    BY <1>2, <2>1, <2>2, <2>3
<1> QED
  BY <1>1, <1>2, ClientSteps DEF Flushed

\* What answers works does so one at a time, each known until then.
AnswerPosted(i) ==
  /\ mWorkInfos' = mWorkInfos \ {i}
  /\ pool'["F"] = IF i \in mWorkInfos THEN Append(pool["F"], Work("done", i)) ELSE pool["F"]

\* The three steps that answer works.
LEMMA AnswerSteps ==
  ASSUME TypeOK, Carried, Pipe, Next, InputRefused \/ InputDequeue \/ OutputDequeue
  PROVE  /\ UNCHANGED client /\ pool'["E"] = pool["E"]
         /\ \/ pool'["F"] = pool["F"] /\ UNCHANGED mWorkInfos
            \/ ~Quiet /\ \E i \in Inputs : AnswerPosted(i)
<1> USE Names DEF Keeps
<1>1. CASE InputRefused
  <2>1. ~Quiet
    BY <1>1, QuietKept
  <2>2. UNCHANGED client
    BY <1>1 DEF InputRefused, clientVars
  <2> QED
    BY <1>1, <2>1, <2>2, InputRefusedPools DEF Answers, AnswerPosted
<1>2. CASE InputDequeue
  <2>1. UNCHANGED client
    BY <1>2 DEF InputDequeue, clientVars
  <2>2. CASE /\ Took("I", "wait")
             /\ ~(Head(srcDone).used /\ {t \in Tags : mInputs[t] = Head(srcDone).in} # {})
    <3>1. UNCHANGED mWorkInfos
      BY <1>2, <2>2 DEF InputDequeue
    <3> QED
      BY <1>2, <2>1, <2>2, <3>1, InputDequeuePools DEF Took
  <2>3. CASE /\ Answers(Head(srcDone).in, {<<"I", "wait">>})
             /\ {t \in Tags : mInputs[t] = Head(srcDone).in} # {}
    <3>1. Head(srcDone).in \in Inputs /\ pool'["E"] = pool["E"]
      BY <1>2, InputDequeuePools
    <3>2. ~Quiet
      BY <2>3, <3>1 DEF Quiet, Inputs, None
    <3> QED
      BY <2>1, <2>3, <3>1, <3>2 DEF Answers, AnswerPosted
  <2> QED
    BY <1>2, <2>2, <2>3, InputDequeuePools
<1>3. CASE OutputDequeue
  <2>1. UNCHANGED client
    BY <1>3 DEF OutputDequeue, clientVars
  <2> DEFINE i == mInputs[Head(dstDone).tag]
  <2>2. CASE Took("O", "wait") /\ ~(Head(dstDone).buf \in mOutputs /\ i # None)
    <3>1. UNCHANGED mWorkInfos
      BY <1>3, <2>2 DEF OutputDequeue
    <3> QED
      BY <1>3, <2>1, <2>2, <3>1, OutputDequeuePools DEF Took
  <2>3. CASE i # None /\ i \in Inputs /\ Answers(i, {<<"O", "wait">>})
    <3>1. Head(dstDone).tag \in Tags /\ pool'["E"] = pool["E"]
      BY <1>3, OutputDequeuePools
    <3>2. ~Quiet
      BY <2>3, <3>1 DEF Quiet
    <3> QED
      BY <2>1, <2>3, <3>1, <3>2 DEF Answers, AnswerPosted
  <2> QED
    BY <1>3, <2>2, <2>3, OutputDequeuePools
<1> QED
  BY <1>1, <1>2, <1>3

\* The task that waits for the answers stays the last one.
LEMMA SyncedKept ==
  ASSUME TypeOK, Carried, Pipe, Tokens, Synced, NoWork, Flushed, Next
  PROVE  Synced'
<1>0. /\ pool["F"] \in Seq(Tasks)
      /\ \A t \in Threads : \A op : Pending(pool, t, op) \in Nat
  BY Names, PendingType DEF Carried, Pools
<1> USE Names
<1>1. ASSUME NEW s \in Seq(Tasks), NEW x \in Tasks, pool'["F"] = Append(s, x),
             x.op = "flushDone" => client' = "syncing",
             client' # "synced", \A k \in DOMAIN s : s[k].op # "flushDone"
      PROVE  Synced'
  <2>1. Longer(pool'["F"], s, x)
    BY <1>1, AppendLonger
  <2> QED
    BY <1>1, <2>1 DEF Synced, Longer
<1>2. ASSUME pool["F"] # <<>>
      PROVE  /\ Shorter(Tail(pool["F"]), pool["F"]) /\ Tail(pool["F"]) \in Seq(Tasks)
             /\ Len(Tail(pool["F"])) = Len(pool["F"]) - 1 /\ Len(pool["F"]) \in Nat
             /\ Tail(pool["F"]) = <<>> <=> Len(pool["F"]) = 1
             /\ 1 \in DOMAIN pool["F"] /\ Head(pool["F"]) = pool["F"][1]
  <2>1. Shorter(Tail(pool["F"]), pool["F"])
    BY <1>0, <1>2, TailShorter
  <2>2. Tail(pool["F"]) \in Seq(Tasks) /\ Len(Tail(pool["F"])) = Len(pool["F"]) - 1
    BY <1>0, <1>2, TailProperties
  <2>3. 1 \in DOMAIN pool["F"] /\ Head(pool["F"]) = pool["F"][1] /\ Len(pool["F"]) \in Nat
    BY <1>0, <1>2
  <2>4. Tail(pool["F"]) = <<>> <=> Len(pool["F"]) = 1
    <3> DEFINE r == Tail(pool["F"])
    <3>1. r \in Seq(Tasks) /\ Len(r) = Len(pool["F"]) - 1 /\ Len(pool["F"]) \in Nat
      BY <2>2, <2>3
    <3> HIDE DEF r
    <3>2. r = <<>> <=> Len(r) = 0
      BY <3>1, EmptySeq
    <3> QED
      BY <3>1, <3>2 DEF r
  <2> QED
    BY <2>1, <2>2, <2>3, <2>4
<1>3. ASSUME client \notin {"syncing", "synced"}
      PROVE  \A k \in DOMAIN pool["F"] : pool["F"][k].op # "flushDone"
  BY <1>3 DEF Synced
<1>4. CASE QueueWork
  <2>1. client = "idle" /\ client' = "idle" /\ queued + 1 \in Inputs
    BY <1>4, QueueWorkPools DEF QueueWork
  <2>2. Work("work", queued + 1) \in Tasks /\ Work("work", queued + 1).op = "work"
    BY <2>1, TasksAre DEF Work
  <2> QED
    BY <1>0, <1>1, <1>3, <1>4, <2>1, <2>2, QueueWorkPools
<1>5. CASE Flush
  <2>1. pool'["F"] = <<Task("flush")>> /\ client' = "flushing"
    BY <1>5, FlushPools DEF Flush
  <2> QED
    BY <2>1 DEF Synced, Task
<1>6. CASE FlushSync
  <2>1. client = "flushed" /\ client' = "syncing"
    BY <1>6 DEF FlushSync
  <2>2. Task("flushDone") \in Tasks
    BY TasksAre DEF Ops
  <2> QED
    BY <1>0, <1>1, <1>3, <1>6, <2>1, <2>2, FlushSyncPools
<1>7. CASE FlushEnd
  <2>1. client = "synced" /\ client' = "idle" /\ UNCHANGED pool
    BY <1>7 DEF FlushEnd, threadVars
  <2> QED
    BY <2>1 DEF Synced
<1>8. CASE DoQueueWork
  <2>1. client = "idle" /\ client' = "idle"
    <3>1. Pending(pool, "F", "work") >= 1 /\ UNCHANGED client
      BY <1>8, WorksAhead DEF DoQueueWork, clientVars
    <3> QED
      BY <3>1 DEF NoWork
  <2>2. PICK i \in Inputs : /\ pool["F"] # <<>>
                            /\ \/ pool'["F"] = Tail(pool["F"])
                               \/ pool'["F"] = Append(Tail(pool["F"]), Work("done", i))
    BY <1>8, DoQueueWorkPools
  <2>3. \A k \in DOMAIN Tail(pool["F"]) : Tail(pool["F"])[k].op # "flushDone"
    BY <1>2, <1>3, <2>1, <2>2 DEF Shorter
  <2>4. Work("done", i) \in Tasks /\ Work("done", i).op = "done"
    BY TasksAre DEF Work
  <2>5. CASE pool'["F"] = Tail(pool["F"])
    BY <2>1, <2>3, <2>5 DEF Synced
  <2>6. CASE pool'["F"] = Append(Tail(pool["F"]), Work("done", i))
    BY <1>1, <1>2, <2>1, <2>2, <2>3, <2>4, <2>6
  <2> QED
    BY <2>2, <2>5, <2>6
<1>9. CASE DoWorkDone \/ DoFlush
  <2>1. pool["F"] # <<>> /\ pool'["F"] = Tail(pool["F"]) /\ UNCHANGED client
    BY <1>9, DoWorkDonePools, DoFlushPools DEF DoWorkDone, DoFlush, clientVars
  <2>2. client # "synced"
    BY <2>1 DEF Synced
  <2> QED
    BY <1>2, <2>1, <2>2 DEF Synced, Shorter
<1>10. CASE DoFlushDone
  <2>1. /\ pool["F"] # <<>> /\ pool'["F"] = Tail(pool["F"]) /\ Head(pool["F"]).op = "flushDone"
        /\ client' = "synced"
    BY <1>10, DoFlushDonePools DEF DoFlushDone
  <2>2. pool'["F"] = <<>>
    BY <1>2, <2>1 DEF Synced
  <2> QED
    BY <2>2 DEF Synced
<1>11. CASE InputRefused \/ InputDequeue \/ OutputDequeue
  <2>1. CASE pool'["F"] = pool["F"]
    BY <1>11, <2>1, AnswerSteps DEF Synced
  <2>2. CASE ~Quiet /\ \E i \in Inputs : AnswerPosted(i)
    <3>1. client \notin {"syncing", "synced"} /\ UNCHANGED client
      BY <1>11, <2>2, AnswerSteps DEF Flushed
    <3>2. PICK i \in Inputs : \/ pool'["F"] = pool["F"]
                              \/ pool'["F"] = Append(pool["F"], Work("done", i))
      BY <2>2 DEF AnswerPosted
    <3>3. Work("done", i) \in Tasks /\ Work("done", i).op = "done"
      BY TasksAre DEF Work
    <3> QED
      BY <1>0, <1>1, <1>3, <2>1, <3>1, <3>2, <3>3
  <2> QED
    BY <1>11, <2>1, <2>2, AnswerSteps
<1>12. CASE /\ pool'["F"] = pool["F"]
            /\ client' = client \/ (client' = "flushed" /\ client = "flushing")
  BY <1>12 DEF Synced
<1>13. CodecFlush \/ ClearPipeInputs \/ ClearMaps =>
         client' = client \/ (client' = "flushed" /\ client = "flushing")
  BY ClientSteps DEF CodecFlush, ClearPipeInputs, ClearMaps, FlushReturned
<1> QED
  BY <1>4, <1>5, <1>6, <1>7, <1>8, <1>9, <1>10, <1>11, <1>12, <1>13, Frames, PoolFrames

----------------------------------------------------------------------------
(* Where an input comes from, and what a flush took. *)

\* Where an input can be apart from the tasks.
InPipe(i)       == \E k \in DOMAIN mPipeInputs : mPipeInputs[k] = i
Tagged(i)       == \E t \in Tags : mInputs[t] = i
InSource(i)     == \E k \in DOMAIN src : src[k].in = i
InSourceDone(i) == \E k \in DOMAIN srcDone : srcDone[k].in = i

\* The elements of a queue with one more, and of one without its first.
LEMMA AppendHas ==
  ASSUME NEW T, NEW s \in Seq(T), NEW x \in T, NEW k \in DOMAIN Append(s, x)
  PROVE  Append(s, x)[k] = x \/ \E l \in DOMAIN s : s[l] = Append(s, x)[k]
<1>1. Longer(Append(s, x), s, x)
  BY AppendLonger
<1> QED
  BY <1>1 DEF Longer

\* The elements of a queue without its first one.
LEMMA TailHas ==
  ASSUME NEW T, NEW s \in Seq(T), s # <<>>
  PROVE  /\ \A k \in DOMAIN Tail(s) : \E l \in DOMAIN s : s[l] = Tail(s)[k]
         /\ 1 \in DOMAIN s /\ Head(s) = s[1] /\ Head(s) \in T
<1>1. Shorter(Tail(s), s)
  BY TailShorter
<1> QED
  BY <1>1 DEF Shorter

\* E's tasks: an input, a wakeup, an output buffer and the codec's flush.
Given == \A k \in DOMAIN pool["E"] : pool["E"][k].op \in {"in", "feed", "out", "flush"}

\* How E's pool changes.
EnqueueSteps(s) ==
  \/ s = pool["E"]
  \/ pool["E"] # <<>> /\ s = Tail(pool["E"])
  \/ \E op \in {"feed", "out", "flush"} : s = Append(pool["E"], Task(op))
  \/ \E i \in Inputs : /\ DoQueueWork /\ pool["F"] # <<>> /\ Head(pool["F"]) = Work("work", i)
                       /\ s = Append(pool["E"], Work("in", i))

\* Each step does one of these.
LEMMA EnqueuePool ==
  ASSUME TypeOK, Carried, Pipe, Next
  PROVE  EnqueueSteps(pool'["E"])
<1> USE Names DEF EnqueueSteps
<1>1. CASE DoQueueWork
  BY <1>1, DoQueueWorkPools DEF Keeps
<1>2. CASE AllocOutBuffer
  BY <1>2, AllocOutBufferPools DEF Gave
<1>3. CASE CodecFlush
  BY <1>3, CodecFlushPools
<1>4. CASE DoPipeInputEnqueue \/ DoOutputEnqueue \/ CodecDoFlush
  BY <1>4, DoPipeInputEnqueuePools, DoOutputEnqueuePools, CodecDoFlushPools DEF Took
<1>5. CASE FeedPiled
  BY <1>5, FeedPiledPools DEF Gave
<1> QED
  BY <1>1, <1>2, <1>3, <1>4, <1>5, PoolFrames

\* E gets no other tasks.
LEMMA GivenKept ==
  ASSUME TypeOK, Carried, Pipe, Given, Next
  PROVE  Given'
<1>0. pool["E"] \in Seq(Tasks) /\ EnqueueSteps(pool'["E"])
  BY EnqueuePool, Names DEF Carried, Pools
<1>1. CASE pool["E"] # <<>> /\ pool'["E"] = Tail(pool["E"])
  BY <1>0, <1>1, TailHas DEF Given
<1>2. ASSUME NEW x \in Tasks, x.op \in {"in", "feed", "out", "flush"},
             pool'["E"] = Append(pool["E"], x)
      PROVE  Given'
  BY <1>0, <1>2, AppendHas DEF Given
<1>3. \A op \in {"feed", "out", "flush"} : Task(op) \in Tasks /\ Task(op).op = op
  BY TasksAre DEF Task, Ops
<1>4. \A i \in Inputs : Work("in", i) \in Tasks /\ Work("in", i).op = "in"
  BY TasksAre DEF Work
<1>5. CASE pool'["E"] = pool["E"]
  BY <1>5 DEF Given
<1> QED
  BY <1>0, <1>1, <1>2, <1>3, <1>4, <1>5 DEF EnqueueSteps

\* How F's pool changes.
FilterSteps(s) ==
  \/ s = pool["F"]
  \/ pool["F"] # <<>> /\ s = Tail(pool["F"])
  \/ Flush /\ s = <<Task("flush")>>
  \/ s = Append(pool["F"], Task("flushDone"))
  \/ QueueWork /\ queued + 1 \in Inputs /\ s = Append(pool["F"], Work("work", queued + 1))
  \/ \E i \in Inputs : i \in mWorkInfos /\ s = Append(pool["F"], Work("done", i))
  \/ \E i \in Inputs : /\ DoQueueWork /\ pool["F"] # <<>> /\ Head(pool["F"]) = Work("work", i)
                       /\ s = Append(Tail(pool["F"]), Work("done", i))

\* Each step does one of these.
LEMMA FilterPool ==
  ASSUME TypeOK, Carried, Pipe, Next
  PROVE  FilterSteps(pool'["F"])
<1> USE Names DEF FilterSteps
<1>1. CASE QueueWork
  BY <1>1, QueueWorkPools
<1>2. CASE Flush \/ FlushSync
  BY <1>2, FlushPools, FlushSyncPools
<1>3. CASE DoQueueWork
  BY <1>3, DoQueueWorkPools
<1>4. CASE DoWorkDone \/ DoFlush \/ DoFlushDone
  BY <1>4, DoWorkDonePools, DoFlushPools, DoFlushDonePools
<1>5. CASE InputRefused \/ InputDequeue \/ OutputDequeue
  BY <1>5, AnswerSteps DEF AnswerPosted
<1> QED
  BY <1>1, <1>2, <1>3, <1>4, <1>5, PoolFrames

\* Where an input comes from when a step brings it to a place.
LEMMA TasksCome ==
  ASSUME TypeOK, Carried, Pipe, Next, NEW i \in Inputs
  PROVE  /\ TaskFor("F", i)' => TaskFor("F", i) \/ i \in mWorkInfos \/ (QueueWork /\ i = queued + 1)
         /\ TaskFor("E", i)' => TaskFor("E", i) \/ TaskFor("F", i)
<1>0. /\ pool["E"] \in Seq(Tasks) /\ EnqueueSteps(pool'["E"])
      /\ pool["F"] \in Seq(Tasks) /\ FilterSteps(pool'["F"])
  BY EnqueuePool, FilterPool, Names DEF Carried, Pools
<1>1. /\ \A op : Task(op).in # i
      /\ \A op, j : Work(op, j).in = j
      /\ \A op \in {"feed", "out", "flush", "flushDone"} : Task(op) \in Tasks
      /\ \A op \in {"work", "done", "in"}, j \in Inputs : Work(op, j) \in Tasks
  BY TasksAre DEF Task, Work, Inputs, None, Ops
<1>2. ASSUME NEW t \in {"E", "F"}, NEW s \in Seq(Tasks), NEW x \in Tasks,
             pool'[t] = Append(s, x), x.in # i, TaskFor(t, i)'
      PROVE  \E k \in DOMAIN s : s[k].in = i
  BY <1>2, AppendHas DEF TaskFor
<1>3. ASSUME NEW t \in {"E", "F"}, pool[t] # <<>>
      PROVE  /\ Tail(pool[t]) \in Seq(Tasks)
             /\ (\E k \in DOMAIN Tail(pool[t]) : Tail(pool[t])[k].in = i) => TaskFor(t, i)
             /\ Head(pool[t]).in = i => TaskFor(t, i)
  BY <1>0, <1>3, TailHas, TailProperties DEF TaskFor
<1>4. TaskFor("E", i)' => TaskFor("E", i) \/ TaskFor("F", i)
  <2> SUFFICES ASSUME TaskFor("E", i)', ~TaskFor("E", i) PROVE TaskFor("F", i)
    OBVIOUS
  <2>1. ASSUME NEW j \in Inputs, pool["F"] # <<>>, Head(pool["F"]) = Work("work", j),
               pool'["E"] = Append(pool["E"], Work("in", j))
        PROVE  TaskFor("F", i)
    BY <1>0, <1>1, <1>2, <1>3, <2>1 DEF TaskFor
  <2>2. ASSUME NEW op \in {"feed", "out", "flush"}, pool'["E"] = Append(pool["E"], Task(op))
        PROVE  FALSE
    BY <1>0, <1>1, <1>2, <2>2 DEF TaskFor
  <2>3. pool["E"] # <<>> /\ pool'["E"] = Tail(pool["E"]) => FALSE
    BY <1>3 DEF TaskFor
  <2>4. pool'["E"] = pool["E"] => FALSE
    BY DEF TaskFor
  <2> QED
    BY <1>0, <2>1, <2>2, <2>3, <2>4 DEF EnqueueSteps
<1>5. TaskFor("F", i)' => TaskFor("F", i) \/ i \in mWorkInfos \/ (QueueWork /\ i = queued + 1)
  <2> SUFFICES ASSUME TaskFor("F", i)', ~TaskFor("F", i), i \notin mWorkInfos
               PROVE  QueueWork /\ i = queued + 1
    OBVIOUS
  <2>1. ASSUME NEW j \in Inputs, pool["F"] # <<>>, Head(pool["F"]) = Work("work", j),
               pool'["F"] = Append(Tail(pool["F"]), Work("done", j))
        PROVE  FALSE
    BY <1>0, <1>1, <1>2, <1>3, <2>1 DEF TaskFor
  <2>2. ASSUME NEW j \in Inputs, j \in mWorkInfos, pool'["F"] = Append(pool["F"], Work("done", j))
        PROVE  FALSE
    BY <1>0, <1>1, <1>2, <2>2 DEF TaskFor
  <2>3. ASSUME QueueWork, queued + 1 \in Inputs,
               pool'["F"] = Append(pool["F"], Work("work", queued + 1))
        PROVE  QueueWork /\ i = queued + 1
    BY <1>0, <1>1, <1>2, <2>3 DEF TaskFor
  <2>4. pool'["F"] # Append(pool["F"], Task("flushDone"))
    BY <1>0, <1>1, <1>2 DEF TaskFor
  <2>5. pool'["F"] # <<Task("flush")>>
    BY <1>1 DEF TaskFor
  <2>6. pool["F"] # <<>> /\ pool'["F"] = Tail(pool["F"]) => FALSE
    BY <1>3 DEF TaskFor
  <2>7. pool'["F"] = pool["F"] => FALSE
    BY DEF TaskFor
  <2> QED
    BY <1>0, <2>1, <2>2, <2>3, <2>4, <2>5, <2>6, <2>7 DEF FilterSteps
<1> QED
  BY <1>4, <1>5

\* An input comes to the pipe from E's tasks, to the driver from the pipe.
LEMMA PlacesCome ==
  ASSUME TypeOK, Carried, Pipe, Next, NEW i \in Inputs
  PROVE  /\ i \in mWorkInfos' => i \in mWorkInfos \/ TaskFor("F", i)
         /\ InPipe(i)' => InPipe(i) \/ TaskFor("E", i)
         /\ Tagged(i)' => Tagged(i) \/ InPipe(i)
         /\ InSource(i)' => InSource(i) \/ InPipe(i)
         /\ InSourceDone(i)' => InSourceDone(i) \/ InSource(i)
<1>0. /\ mPipeInputs \in Seq(Inputs) /\ mInputs \in [Tags -> 0..NumInputs] /\ mTagNum \in Tags
      /\ pool["E"] \in Seq(Tasks) /\ pool["F"] \in Seq(Tasks) /\ i # None
  BY Names DEF TypeOK, Carried, Pools, Inputs, None
<1>1. i \in mWorkInfos' => i \in mWorkInfos \/ TaskFor("F", i)
  <2>1. CASE DoQueueWork
    <3>1. PICK j \in Inputs : /\ pool["F"] # <<>> /\ Head(pool["F"]) = Work("work", j)
                              /\ DoProcess(j) \/ SetupFails(j)
      BY <2>1, DoQueueWorkPools
    <3>2. mWorkInfos' \subseteq mWorkInfos \cup {j}
      BY <3>1 DEF DoProcess, SetupFails
    <3>3. TaskFor("F", j)
      BY <1>0, <3>1, TailHas DEF TaskFor, Work
    <3> QED
      BY <3>2, <3>3
  <2>2. CASE FlushEnd
    BY <2>2 DEF FlushEnd
  <2>3. CASE InputRefused \/ InputDequeue \/ OutputDequeue
    BY <2>3, AnswerSteps DEF AnswerPosted
  <2> QED
    BY <2>1, <2>2, <2>3, Frames
<1>2. InPipe(i)' => InPipe(i) \/ TaskFor("E", i)
  <2>1. CASE ClearPipeInputs
    <3>1. mPipeInputs' = <<>> \/ UNCHANGED mPipeInputs
      BY <2>1 DEF ClearPipeInputs
    <3> QED
      BY <3>1 DEF InPipe
  <2>2. CASE DoPipeInputEnqueue
    <3>1. pool["E"] # <<>>
      BY <2>2, DoPipeInputEnqueuePools DEF Took
    <3>2. mPipeInputs' = mPipeInputs \/ (/\ Head(pool["E"]).in \in Inputs
                                         /\ mPipeInputs' = Append(mPipeInputs, Head(pool["E"]).in))
      <4>1. Head(pool["E"]).op = "in" => Head(pool["E"]).in \in Inputs
        BY <2>2, DoPipeInputEnqueuePools DEF Took
      <4> QED
        BY <2>2, <4>1 DEF DoPipeInputEnqueue
    <3>3. Head(pool["E"]).in = i => TaskFor("E", i)
      BY <1>0, <3>1, TailHas DEF TaskFor
    <3>4. CASE mPipeInputs' = mPipeInputs
      BY <3>4 DEF InPipe
    <3>5. ASSUME NEW x \in Inputs, mPipeInputs' = Append(mPipeInputs, x), InPipe(i)', x # i
          PROVE  InPipe(i)
      <4>1. PICK k \in DOMAIN Append(mPipeInputs, x) : Append(mPipeInputs, x)[k] = i
        BY <3>5 DEF InPipe
      <4> QED
        BY <1>0, <3>5, <4>1, AppendHas DEF InPipe
    <3> QED
      BY <3>2, <3>3, <3>4, <3>5
  <2>3. CASE InputEnqueue \/ InputRefused
    <3>1. mPipeInputs # <<>> /\ mPipeInputs' = Tail(mPipeInputs)
      BY <2>3 DEF InputEnqueue, InputRefused, Pipe
    <3> QED
      BY <1>0, <3>1, TailHas DEF InPipe
  <2>4. CASE UNCHANGED mPipeInputs
    BY <2>4 DEF InPipe
  <2> QED
    BY <2>1, <2>2, <2>3, <2>4, Frames
<1>3. CASE InputEnqueue
  <2>1. mPipeInputs # <<>>
    BY <1>3 DEF InputEnqueue, Pipe
  <2>2. Head(mPipeInputs) = i => InPipe(i)
    BY <1>0, <2>1, TailHas DEF InPipe
  <2>3. mInputs' = [mInputs EXCEPT ![mTagNum] = Head(mPipeInputs)]
    BY <1>3 DEF InputEnqueue, FrameTag
  <2>4. Tagged(i)' => Tagged(i) \/ InPipe(i)
    BY <1>0, <2>2, <2>3 DEF Tagged
  <2>5. src' = Append(src, [in |-> Head(mPipeInputs), tag |-> mTagNum])
    BY <1>3 DEF InputEnqueue
  <2>6. InSource(i)' => InSource(i) \/ InPipe(i)
    <3> DEFINE T == [in : Inputs, tag : Tags]
               x == [in |-> Head(mPipeInputs), tag |-> mTagNum]
    <3>1. src \in Seq(T) /\ x \in T /\ src' = Append(src, x)
      BY <1>0, <2>1, <2>5, HeadTyped DEF TypeOK
    <3>2. x.in = i => InPipe(i)
      BY <2>2
    <3> HIDE DEF T, x
    <3> QED
      BY <3>1, <3>2, AppendHas DEF InSource
  <2>7. UNCHANGED srcDone
    BY <1>3 DEF InputEnqueue
  <2> QED
    BY <1>1, <1>2, <2>4, <2>6, <2>7 DEF InSourceDone
<1>4. ASSUME ~InputEnqueue
      PROVE  Tagged(i)' => Tagged(i)
  <2>1. CASE ClearMaps \/ InputPortStop
    <3>1. mInputs' = [t \in Tags |-> None]
      BY <2>1 DEF ClearMaps, InputPortStop, StopInput
    <3> QED
      BY <1>0, <3>1 DEF Tagged
  <2>2. CASE InputDequeue
    <3>1. UNCHANGED mInputs
            \/ \E S : mInputs' = [t \in Tags |-> IF t \in S THEN None ELSE mInputs[t]]
      BY <2>2 DEF InputDequeue
    <3> QED
      BY <1>0, <3>1 DEF Tagged
  <2>3. CASE OutputDequeue
    <3>1. UNCHANGED mInputs \/ \E t : mInputs' = [mInputs EXCEPT ![t] = None]
      BY <2>3 DEF OutputDequeue
    <3> QED
      BY <1>0, <3>1 DEF Tagged
  <2>4. CASE UNCHANGED mInputs
    BY <2>4 DEF Tagged
  <2> QED
    BY <1>4, <2>1, <2>2, <2>3, <2>4, Frames
<1>5. ASSUME ~InputEnqueue
      PROVE  InSource(i)' => InSource(i)
  <2>1. CASE InputPortStop
    BY <2>1 DEF InputPortStop, StopInput, InSource
  <2>2. CASE Consume \/ Decode
    <3> DEFINE T == [in : Inputs, tag : Tags]
    <3>1. src \in Seq(T) /\ src # <<>> /\ src' = Tail(src)
      BY <2>2 DEF Consume, Decode, TypeOK
    <3> HIDE DEF T
    <3> QED
      BY <3>1, TailHas DEF InSource
  <2>3. CASE UNCHANGED src
    BY <2>3 DEF InSource
  <2> QED
    BY <1>5, <2>1, <2>2, <2>3, Frames
<1>6. InSourceDone(i)' => InSourceDone(i) \/ InSource(i)
  <2> DEFINE T == [in : Inputs, used : BOOLEAN]
             U == [in : Inputs, tag : Tags]
  <2>0. srcDone \in Seq(T) /\ src \in Seq(U)
    BY DEF TypeOK
  <2>1. CASE InputPortStop
    BY <2>1 DEF InputPortStop, StopInput, InSourceDone
  <2>2. CASE Consume \/ Decode
    <3>1. /\ src # <<>>
          /\ \E b \in BOOLEAN : srcDone' = Append(srcDone, [in |-> Head(src).in, used |-> b])
      BY <2>2 DEF Consume, Decode
    <3>2. PICK b \in BOOLEAN : srcDone' = Append(srcDone, [in |-> Head(src).in, used |-> b])
      BY <3>1
    <3> DEFINE x == [in |-> Head(src).in, used |-> b]
    <3>3. Head(src) \in U
      BY <2>0, <3>1, HeadTyped
    <3>4. x \in T /\ x.in = Head(src).in /\ srcDone' = Append(srcDone, x)
      BY <3>2, <3>3
    <3> HIDE DEF T, U, x
    <3>5. Head(src).in = i => InSource(i)
      BY <2>0, <3>1, TailHas DEF InSource
    <3> QED
      BY <2>0, <3>4, <3>5, AppendHas DEF InSourceDone
  <2>3. CASE InputDequeue
    <3>1. srcDone # <<>> /\ srcDone' = Tail(srcDone)
      BY <2>3 DEF InputDequeue
    <3> HIDE DEF T
    <3> QED
      BY <2>0, <3>1, TailHas DEF InSourceDone
  <2>4. CASE UNCHANGED srcDone
    BY <2>4 DEF InSourceDone
  <2> QED
    BY <2>1, <2>2, <2>3, <2>4, Frames
<1> QED
  BY <1>1, <1>2, <1>3, <1>4, <1>5, <1>6

\* Nothing of input i is left in the filter and the codec, nor in the driver
\* but for what was fed behind a flush.
Absent(i) ==
  /\ i \notin mWorkInfos /\ ~TaskFor("F", i) /\ ~TaskFor("E", i) /\ ~InPipe(i) /\ ~Tagged(i)
  /\ ~fed => ~InSource(i) /\ ~InSourceDone(i)

\* What a flush took is nowhere.
Gone == flushed \subseteq 1..queued /\ \A i \in flushed : Absent(i)

\* What a flush took does not come back, and each flush takes all there is.
LEMMA GoneKept ==
  ASSUME TypeOK, Carried, Pipe, Given, Synced, Flushed, Gone, Next
  PROVE  Gone'
<1>0. /\ queued \in Nat /\ 1..queued \subseteq Inputs /\ flushed \subseteq Inputs
      /\ queued' \in Nat /\ queued <= queued'
  <2>1. queued \in 0..NumInputs /\ flushed \subseteq Inputs
    BY DEF TypeOK
  <2>2. queued' = queued \/ queued' = queued + 1
    BY Frames DEF QueueWork
  <2> QED
    BY <2>1, <2>2, CodecFilterAssumption DEF Inputs
<1>1. ASSUME NEW i \in flushed
      PROVE  Absent(i)'
  <2>1. i \in Inputs /\ i # queued + 1 /\ Absent(i)
    BY <1>0 DEF Gone
  <2>2. ~fed' => ~fed
    BY Frames DEF InputEnqueue
  <2> QED
    BY <2>1, <2>2, TasksCome, PlacesCome DEF Absent
<1>2. CASE UNCHANGED flushed
  BY <1>0, <1>1, <1>2 DEF Gone
<1>3. CASE FlushEnd
  <2>1. /\ client = "synced" /\ mWorkInfos' = {} /\ flushed' = flushed \cup ((1..queued) \ answered)
        /\ UNCHANGED <<queued, pool, mPipeInputs, mInputs, fed, src, srcDone>>
    BY <1>3 DEF FlushEnd, threadVars, driverVars
  <2>2. Quiet /\ Drained /\ pool["F"] = <<>>
    BY <2>1 DEF Flushed, Synced
  <2>3. \A i \in Inputs : ~TaskFor("E", i)
    <3>1. \A k \in DOMAIN pool["E"] : pool["E"][k].op # "in" /\ pool["E"][k] \in Tasks
      <4>1. Pending(pool, "E", "in") = 0 /\ pool["E"] \in Seq(Tasks) /\ "E" \in Threads
        BY <2>2, Names DEF Quiet, Carried, Pools
      <4>2. \A k \in DOMAIN pool["E"] : pool["E"][k].op # "in"
        BY <4>1, PendingType DEF Carried
      <4> QED
        BY <4>1, <4>2, ElementsTyped
    <3>2. \A k \in DOMAIN pool["E"] : pool["E"][k].in = None
      BY <3>1, TasksCarry DEF Given
    <3> QED
      BY <3>2 DEF TaskFor, Inputs, None
  <2>4. ASSUME NEW i \in 1..queued
        PROVE  Absent(i)'
    <3>1. i \in Inputs /\ i # None
      BY <1>0 DEF Inputs, None
    <3>2. ~TaskFor("F", i)' /\ ~TaskFor("E", i)'
      BY <2>1, <2>2, <2>3, <3>1 DEF TaskFor
    <3>3. ~InPipe(i)' /\ ~Tagged(i)' /\ (~fed' => ~InSource(i)' /\ ~InSourceDone(i)')
      BY <2>1, <2>2, <3>1 DEF Quiet, Drained, InPipe, Tagged, InSource, InSourceDone
    <3> QED
      BY <2>1, <3>2, <3>3 DEF Absent
  <2> QED
    BY <1>0, <1>1, <2>1, <2>4 DEF Gone
<1> QED
  BY <1>2, <1>3, Frames

----------------------------------------------------------------------------
(* Where an input goes. *)

\* The codec keeps the buffers the driver has; a change of resolution is the
\* last thing the driver gives back before the port is set up again.
Tracked ==
  /\ OutBufs \subseteq mOutputs
  /\ changed => held = {}
  /\ \A k \in DOMAIN dstDone : dstDone[k].change => changed /\ k = Len(dstDone)
  /\ phase["O"] = "reconfigure" => changed /\ dstDone = <<>>

\* The codec forgets a buffer only when the driver gives it back.
LEMMA TrackedKept ==
  ASSUME TypeOK, Carried, Pipe, Tokens, PortsAgree, Off, Once, Tracked, Next
  PROVE  Tracked'
<1> DEFINE T == [buf : Bufs, tag : Tags, change : BOOLEAN]
<1>0. dstDone \in Seq(T) /\ changed \in BOOLEAN
  BY DEF TypeOK
<1> HIDE DEF T
<1> USE Names
<1>1. CASE ClearMaps
  <2>1. /\ phase["A"] = "clear" /\ UNCHANGED <<dst, held, dstDone, changed>>
        /\ phase'["O"] = phase["O"]
    BY <1>1, FlushReturning DEF ClearMaps, driverVars
  <2>2. dst = {} /\ held = {} /\ dstDone = <<>>
    BY <2>1 DEF PortsAgree, Off
  <2>3. OutBufs' = {}
    BY <2>1, <2>2 DEF OutBufs
  <2> QED
    BY <2>1, <2>3 DEF Tracked
<1>2. CASE DoOutputEnqueue
  <2>1. /\ UNCHANGED <<held, dstDone, changed, phase>>
        /\ UNCHANGED <<dst, mOutputs>> \/ (dst' = dst \cup buf /\ mOutputs' = mOutputs \cup buf)
    BY <1>2 DEF DoOutputEnqueue
  <2>2. OutBufs' \subseteq mOutputs'
    BY <2>1 DEF OutBufs, Tracked
  <2> QED
    BY <2>1, <2>2 DEF Tracked
<1>3. CASE OutputDequeue \/ ResolutionChanged
  <2>1. dstDone # <<>> /\ dstDone' = Tail(dstDone) /\ UNCHANGED <<dst, held, changed>>
    BY <1>3 DEF OutputDequeue, ResolutionChanged
  <2>2. Shorter(dstDone', dstDone)
    BY <1>0, <2>1, TailShorter
  <2>3. \A k \in DOMAIN dstDone' : dstDone'[k].change => changed' /\ k = Len(dstDone')
    <3>1. dstDone' \in Seq(T) /\ Len(dstDone') \in Nat
      BY <1>0, <2>1, TailProperties, LenProperties
    <3>2. ASSUME NEW k \in DOMAIN dstDone', dstDone'[k].change
          PROVE  changed' /\ k = Len(dstDone')
      <4>1. k + 1 \in DOMAIN dstDone /\ dstDone[k + 1].change /\ Len(dstDone) = Len(dstDone') + 1
        BY <2>2, <3>2 DEF Shorter
      <4>2. k \in Nat
        BY <3>1, LenProperties
      <4> QED
        BY <2>1, <3>1, <4>1, <4>2 DEF Tracked
    <3> QED
      BY <3>2
  <2>4. CASE OutputDequeue
    <3>1. mOutputs' = mOutputs \ {Head(dstDone).buf} /\ UNCHANGED phase
      BY <2>4 DEF OutputDequeue
    <3>2. Head(dstDone).buf \notin OutBufs'
      <4>1. \A k \in DOMAIN dstDone' : dstDone'[k].buf # Head(dstDone).buf
        BY <2>2 DEF Shorter, Once
      <4>2. Head(dstDone).buf \notin dst /\ \A h \in held : h.buf # Head(dstDone).buf
        BY <2>2 DEF Shorter, Once
      <4> QED
        BY <2>1, <4>1, <4>2 DEF OutBufs
    <3>3. OutBufs' \subseteq OutBufs
      <4>1. {dstDone'[k].buf : k \in DOMAIN dstDone'}
              \subseteq {dstDone[k].buf : k \in DOMAIN dstDone}
        BY <2>2 DEF Shorter
      <4> QED
        BY <2>1, <4>1 DEF OutBufs
    <3>4. OutBufs' \subseteq mOutputs'
      BY <3>1, <3>2, <3>3 DEF Tracked
    <3> QED
      BY <2>1, <2>3, <3>1, <3>4 DEF Tracked
  <2>5. CASE ResolutionChanged
    <3>1. Head(dstDone).change /\ UNCHANGED mOutputs
      BY <2>5 DEF ResolutionChanged, codecVars
    <3>2. changed /\ Len(dstDone) = 1
      BY <2>2, <3>1 DEF Shorter, Tracked
    <3>3. dstDone' = <<>>
      BY <1>0, <2>1, <3>2
    <3>4. OutBufs' \subseteq OutBufs
      BY <2>1, <3>3 DEF OutBufs
    <3> QED
      BY <2>1, <2>3, <3>1, <3>2, <3>3, <3>4 DEF Tracked
  <2> QED
    BY <1>3, <2>4, <2>5
<1>4. CASE ReconfigOutput \/ OutputPortStop
  <2>1. dst' = {} /\ held' = {} /\ dstDone' = <<>> /\ ~changed'
    BY <1>4 DEF ReconfigOutput, OutputPortStop, StopOutput
  <2>2. phase'["O"] # "reconfigure"
    <3>1. CASE ReconfigOutput
      <4>1. phase' = [phase EXCEPT !["O"] = "drop"]
        BY <3>1 DEF ReconfigOutput
      <4>2. Enters("O", "drop")
        BY <4>1, Entering
      <4> QED
        BY <4>2 DEF Enters
    <3>2. CASE OutputPortStop
      BY <3>2 DEF OutputPortStop, Next_
    <3> QED
      BY <1>4, <3>1, <3>2
  <2>3. OutBufs' = {}
    BY <2>1 DEF OutBufs
  <2> QED
    BY <2>1, <2>2, <2>3 DEF Tracked
<1>5. CASE Decode
  <2>1. /\ ~changed /\ UNCHANGED <<changed, dstDone, mOutputs, phase>>
    BY <1>5 DEF Decode, threadVars, codecVars
  <2>2. PICK b \in dst : dst' = dst \ {b} /\ held' = held \cup {[buf |-> b, tag |-> Head(src).tag]}
    BY <1>5 DEF Decode
  <2>3. OutBufs' \subseteq OutBufs
    BY <2>1, <2>2 DEF OutBufs
  <2> QED
    BY <2>1, <2>3 DEF Tracked
<1>6. CASE Show
  <2>1. PICK h \in held :
          /\ held' = held \ {h}
          /\ dstDone' = Append(dstDone, [buf |-> h.buf, tag |-> h.tag, change |-> FALSE])
    BY <1>6 DEF Show
  <2>2. UNCHANGED <<dst, changed, mOutputs, phase>>
    BY <1>6 DEF Show, threadVars, codecVars
  <2>3. ~changed
    BY <2>1 DEF Tracked
  <2> DEFINE x == [buf |-> h.buf, tag |-> h.tag, change |-> FALSE]
  <2>4. x \in T /\ x.buf = h.buf /\ ~x.change
    BY DEF TypeOK, T
  <2> HIDE DEF x
  <2>5. Longer(dstDone', dstDone, x)
    BY <1>0, <2>1, <2>4, AppendLonger DEF x
  <2>6. \A k \in DOMAIN dstDone' : ~dstDone'[k].change
    BY <2>3, <2>4, <2>5 DEF Tracked, Longer
  <2>7. OutBufs' \subseteq OutBufs
    <3>1. {dstDone'[k].buf : k \in DOMAIN dstDone'}
            \subseteq {dstDone[k].buf : k \in DOMAIN dstDone} \cup {h.buf}
      BY <2>4, <2>5 DEF Longer
    <3> QED
      BY <2>1, <2>2, <3>1 DEF OutBufs
  <2> QED
    BY <2>2, <2>3, <2>6, <2>7 DEF Tracked
<1>7. CASE ChangeResolution
  <2>1. PICK b \in dst :
          /\ dst' = dst \ {b}
          /\ dstDone' = Append(dstDone, [buf |-> b, tag |-> 0, change |-> TRUE])
    BY <1>7 DEF ChangeResolution
  <2>2. ~changed /\ changed' /\ held = {} /\ UNCHANGED <<held, mOutputs, phase>>
    BY <1>7 DEF ChangeResolution, threadVars, codecVars
  <2> DEFINE x == [buf |-> b, tag |-> 0, change |-> TRUE]
  <2>4. x \in T /\ x.buf = b
    <3>1. b \in Bufs
      BY DEF TypeOK
    <3>2. 0 \in Tags
      BY CodecFilterAssumption DEF Tags
    <3> QED
      BY <3>1, <3>2 DEF T
  <2> HIDE DEF x
  <2>5. Longer(dstDone', dstDone, x)
    BY <1>0, <2>1, <2>4, AppendLonger DEF x
  <2>6. \A k \in DOMAIN dstDone' : dstDone'[k].change => k = Len(dstDone')
    BY <2>2, <2>5 DEF Tracked, Longer
  <2>7. OutBufs' \subseteq OutBufs
    <3>1. {dstDone'[k].buf : k \in DOMAIN dstDone'}
            \subseteq {dstDone[k].buf : k \in DOMAIN dstDone} \cup {b}
      BY <2>4, <2>5 DEF Longer
    <3> QED
      BY <2>1, <2>2, <3>1 DEF OutBufs
  <2> QED
    BY <2>2, <2>6, <2>7 DEF Tracked
<1>8. CASE /\ UNCHANGED <<dst, held, dstDone, changed, mOutputs>>
           /\ phase'["O"] = phase["O"] \/ phase'["O"] # "reconfigure"
  <2>1. OutBufs' = OutBufs
    BY <1>8 DEF OutBufs
  <2> QED
    BY <1>8, <2>1 DEF Tracked
<1>9. ReconfigDropTasks \/ ReconfigRefill => phase'["O"] # "reconfigure"
  BY Entering DEF ReconfigDropTasks, ReconfigRefill, Enters
<1> QED
  BY <1>1, <1>2, <1>3, <1>4, <1>5, <1>6, <1>7, <1>8, <1>9, Frames, PhaseFrames

\* While no flush is under way, the steps of one do not happen.
LEMMA IdleSteps ==
  ASSUME TypeOK, Carried, Pipe, Tokens, Synced, Next, client = "idle", client' = "idle"
  PROVE  /\ ~Flush /\ ~FlushSync /\ ~FlushEnd /\ ~DoFlush /\ ~DoFlushDone
         /\ ~CodecFlush /\ ~ClearPipeInputs /\ ~ClearMaps /\ ~CodecDoFlush
         /\ ~InputPortStop /\ ~OutputPortStop
<1>0. \A t \in Threads : \A op : Pending(pool, t, op) \in Nat
  BY PendingType DEF Carried
<1> USE Names
<1>1. ~Flush /\ ~FlushSync /\ ~FlushEnd /\ ~DoFlushDone
  BY ClientSteps DEF Flush, FlushSync, FlushEnd
<1>2. ~CodecFlush /\ ~ClearPipeInputs /\ ~ClearMaps
  BY ClientSteps
<1>3. Pending(pool, "F", "flush") = 0 /\ phase["F"] # "waiting"
  BY <1>0 DEF Tokens, FlushTokens
<1>4. ~DoFlush
  BY <1>3, FirstPending DEF DoFlush
<1>5. phase["A"] # "flush"
  BY <1>0, <1>3 DEF Tokens, FlushTokens
<1>6. Pending(pool, "E", "flush") = 0 /\ phase["E"] \notin Stopping
  BY <1>0, <1>5 DEF Tokens, FlushTokens
<1>7. ~CodecDoFlush
  BY <1>6, CodecDoFlushPools
<1>8. Pending(pool, "I", "stop") = 0 /\ Pending(pool, "O", "stop") = 0
  BY <1>6 DEF Tokens, StopTokens, Stopping
<1>9. ~InputPortStop /\ ~OutputPortStop
  BY <1>8, InputPortStopPools, OutputPortStopPools
<1> QED
  BY <1>1, <1>2, <1>4, <1>7, <1>9

\* What the driver still has to give back for the input of tag t.
Awaited(i, t) ==
  \/ \E k \in DOMAIN src : src[k] = [in |-> i, tag |-> t]
  \/ \E h \in held : h.tag = t
  \/ \E k \in DOMAIN dstDone : dstDone[k].tag = t /\ ~dstDone[k].change
  \/ \E k \in DOMAIN srcDone : srcDone[k].in = i /\ srcDone[k].used

\* An input has a tag under which the driver will give a picture or its end.
InDriver(i) == \E t \in Tags : mInputs[t] = i /\ Awaited(i, t)
\* An input is on its way, told by where F and E find it next.
Located(i) ==
  TaskFor("F", i) \/ (i \in mWorkInfos /\ (TaskFor("E", i) \/ InPipe(i) \/ InDriver(i)))

\* Each input that is open is, between flushes and while tags are not used twice.
Found == client = "idle" /\ ~lapped => \A i \in Open : Located(i)

\* A queue keeps its elements when one is added, and all but the first when
\* that is taken.
LEMMA AppendKeeps ==
  ASSUME NEW T, NEW s \in Seq(T), NEW x \in T
  PROVE  /\ \A k \in DOMAIN s : \E l \in DOMAIN Append(s, x) : Append(s, x)[l] = s[k]
         /\ \E l \in DOMAIN Append(s, x) : Append(s, x)[l] = x
<1>1. Longer(Append(s, x), s, x)
  BY AppendLonger
<1> QED
  BY <1>1 DEF Longer

\* Taking the first element keeps the others.
LEMMA TailKeeps ==
  ASSUME NEW T, NEW s \in Seq(T), s # <<>>, NEW k \in DOMAIN s
  PROVE  s[k] = Head(s) \/ \E l \in DOMAIN Tail(s) : Tail(s)[l] = s[k]
<1>1. Shorter(Tail(s), s)
  BY TailShorter
<1> QED
  BY <1>1 DEF Shorter

\* What the driver has of a tag goes on to its next place.
LEMMA AwaitedGoesOn ==
  ASSUME TypeOK, Pipe, Tracked, Next, ~InputPortStop, ~OutputPortStop,
         NEW i \in Inputs, NEW t \in Tags, Awaited(i, t)
  PROVE  \/ Awaited(i, t)'
         \/ InputDequeue /\ Head(srcDone).in = i /\ Head(srcDone).used
         \/ OutputDequeue /\ Head(dstDone).tag = t
<1> DEFINE S == [in : Inputs, tag : Tags]
           U == [in : Inputs, used : BOOLEAN]
           D == [buf : Bufs, tag : Tags, change : BOOLEAN]
           Goes == \/ Awaited(i, t)'
                   \/ InputDequeue /\ Head(srcDone).in = i /\ Head(srcDone).used
                   \/ OutputDequeue /\ Head(dstDone).tag = t
<1>0. src \in Seq(S) /\ srcDone \in Seq(U) /\ dstDone \in Seq(D)
  BY DEF TypeOK
<1>1. ASSUME Consume \/ Decode
      PROVE  \E b \in BOOLEAN :
               LET x == [in |-> Head(src).in, used |-> b]
               IN  /\ src # <<>> /\ src' = Tail(src) /\ x \in U /\ srcDone' = Append(srcDone, x)
                   /\ Consume => b
  <2>1. src # <<>> /\ src' = Tail(src)
    BY <1>1 DEF Consume, Decode
  <2>2. Head(src).in \in Inputs
    BY <1>0, <2>1, HeadTyped
  <2>3. CASE Consume
    BY <2>1, <2>2, <2>3 DEF Consume
  <2>4. CASE Decode /\ ~Consume
    BY <2>1, <2>2, <2>4 DEF Decode
  <2> QED
    BY <1>1, <2>3, <2>4
<1>2. ASSUME Decode
      PROVE  held \subseteq held' /\ \E h \in held' : h.tag = Head(src).tag
  <2>1. PICK b \in dst : held' = held \cup {[buf |-> b, tag |-> Head(src).tag]}
    BY <1>2 DEF Decode
  <2>2. [buf |-> b, tag |-> Head(src).tag].tag = Head(src).tag
    OBVIOUS
  <2> QED
    BY <2>1, <2>2
<1>3. ASSUME Show
      PROVE  \E h \in held :
               LET x == [buf |-> h.buf, tag |-> h.tag, change |-> FALSE]
               IN  held' = held \ {h} /\ x \in D /\ dstDone' = Append(dstDone, x)
  BY <1>3 DEF Show, TypeOK
<1>4. ASSUME ChangeResolution
      PROVE  \E b \in Bufs :
               LET x == [buf |-> b, tag |-> 0, change |-> TRUE]
               IN  x \in D /\ dstDone' = Append(dstDone, x)
  <2>1. 0 \in Tags /\ dst \subseteq Bufs
    BY CodecFilterAssumption DEF Tags, TypeOK
  <2> QED
    BY <1>4, <2>1 DEF ChangeResolution
<1>5. ASSUME NEW k \in DOMAIN src, src[k] = [in |-> i, tag |-> t]
      PROVE  Goes
  <2>1. CASE InputEnqueue
    <3> DEFINE x == [in |-> Head(mPipeInputs), tag |-> mTagNum]
    <3>1. x \in S /\ src' = Append(src, x)
      <4>1. mPipeInputs \in Seq(Inputs) /\ mPipeInputs # <<>> /\ mTagNum \in Tags
        BY <2>1 DEF TypeOK, Pipe, InputEnqueue
      <4> QED
        BY <2>1, <4>1, HeadTyped DEF InputEnqueue
    <3> HIDE DEF x, S
    <3>2. \E l \in DOMAIN src' : src'[l] = src[k]
      BY <1>0, <3>1, AppendKeeps
    <3> QED
      BY <1>5, <3>2 DEF Awaited
  <2>2. CASE Consume \/ Decode
    <3>1. PICK b \in BOOLEAN :
               LET x == [in |-> Head(src).in, used |-> b]
               IN  /\ src # <<>> /\ src' = Tail(src) /\ x \in U /\ srcDone' = Append(srcDone, x)
                   /\ Consume => b
      BY <1>1, <2>2
    <3> DEFINE x == [in |-> Head(src).in, used |-> b]
    <3>2. x \in U /\ srcDone' = Append(srcDone, x) /\ x.in = Head(src).in /\ x.used = b
      BY <3>1
    <3> HIDE DEF x, S, U
    <3>3. CASE src[k] = Head(src)
      <4>1. Head(src).in = i /\ Head(src).tag = t
        BY <1>5, <3>3
      <4>2. CASE Consume
        <5>1. b
          BY <3>1, <4>2
        <5>2. \E l \in DOMAIN srcDone' : srcDone'[l] = x
          BY <1>0, <3>2, AppendKeeps
        <5> QED
          BY <3>2, <4>1, <5>1, <5>2 DEF Awaited
      <4>3. CASE Decode
        BY <1>2, <4>1, <4>3 DEF Awaited
      <4> QED
        BY <2>2, <4>2, <4>3
    <3>4. CASE \E l \in DOMAIN src' : src'[l] = src[k]
      BY <1>5, <3>4 DEF Awaited
    <3> QED
      BY <1>0, <3>1, <3>3, <3>4, TailKeeps
  <2>3. CASE UNCHANGED src
    BY <1>5, <2>3 DEF Awaited
  <2> QED
    BY <2>1, <2>2, <2>3, Frames
<1>6. ASSUME NEW h \in held, h.tag = t
      PROVE  Goes
  <2>1. CASE ReconfigOutput
    <3>1. phase["O"] = "reconfigure"
      BY <2>1 DEF ReconfigOutput
    <3> QED
      BY <1>6, <3>1 DEF Tracked
  <2>2. CASE Decode
    BY <1>2, <1>6, <2>2 DEF Awaited
  <2>3. CASE Show
    <3>1. PICK g \in held :
               LET x == [buf |-> g.buf, tag |-> g.tag, change |-> FALSE]
               IN  held' = held \ {g} /\ x \in D /\ dstDone' = Append(dstDone, x)
      BY <1>3, <2>3
    <3> DEFINE x == [buf |-> g.buf, tag |-> g.tag, change |-> FALSE]
    <3>2. x \in D /\ dstDone' = Append(dstDone, x) /\ x.tag = g.tag /\ ~x.change
      BY <3>1
    <3> HIDE DEF x, D
    <3>3. CASE h = g
      <4>1. \E l \in DOMAIN dstDone' : dstDone'[l] = x
        BY <1>0, <3>2, AppendKeeps
      <4> QED
        BY <1>6, <3>2, <3>3, <4>1 DEF Awaited
    <3>4. CASE h # g
      BY <1>6, <3>1, <3>4 DEF Awaited
    <3> QED
      BY <3>3, <3>4
  <2>4. CASE UNCHANGED held
    BY <1>6, <2>4 DEF Awaited
  <2> QED
    BY <2>1, <2>2, <2>3, <2>4, Frames
<1>7. ASSUME NEW k \in DOMAIN dstDone, dstDone[k].tag = t, ~dstDone[k].change
      PROVE  Goes
  <2>0. (\E l \in DOMAIN dstDone' : dstDone'[l] = dstDone[k]) => Awaited(i, t)'
    BY <1>7 DEF Awaited
  <2>1. CASE ReconfigOutput
    <3>1. phase["O"] = "reconfigure"
      BY <2>1 DEF ReconfigOutput
    <3>2. dstDone = <<>>
      BY <3>1 DEF Tracked
    <3> QED
      BY <3>2
  <2>2. CASE OutputDequeue
    <3>1. dstDone # <<>> /\ dstDone' = Tail(dstDone)
      BY <2>2 DEF OutputDequeue
    <3> HIDE DEF D
    <3> QED
      BY <1>0, <1>7, <2>0, <2>2, <3>1, TailKeeps
  <2>3. CASE ResolutionChanged
    <3>1. dstDone # <<>> /\ dstDone' = Tail(dstDone) /\ Head(dstDone).change
      BY <2>3 DEF ResolutionChanged
    <3> HIDE DEF D
    <3> QED
      BY <1>0, <1>7, <2>0, <3>1, TailKeeps
  <2>4. CASE Show \/ ChangeResolution
    <3>1. PICK x \in D : dstDone' = Append(dstDone, x)
      BY <1>3, <1>4, <2>4
    <3> HIDE DEF D
    <3>2. \E l \in DOMAIN dstDone' : dstDone'[l] = dstDone[k]
      <4>1. Longer(dstDone', dstDone, x)
        BY <1>0, <3>1, AppendLonger
      <4> QED
        BY <4>1 DEF Longer
    <3> QED
      BY <2>0, <3>2
  <2>5. CASE UNCHANGED dstDone
    BY <2>0, <2>5
  <2> QED
    BY <2>1, <2>2, <2>3, <2>4, <2>5, Frames
<1>8. ASSUME NEW k \in DOMAIN srcDone, srcDone[k].in = i, srcDone[k].used
      PROVE  Goes
  <2>0. (\E l \in DOMAIN srcDone' : srcDone'[l] = srcDone[k]) => Awaited(i, t)'
    BY <1>8 DEF Awaited
  <2>1. CASE InputDequeue
    <3>1. srcDone # <<>> /\ srcDone' = Tail(srcDone)
      BY <2>1 DEF InputDequeue
    <3> HIDE DEF U
    <3> QED
      BY <1>0, <1>8, <2>0, <2>1, <3>1, TailKeeps
  <2>2. CASE Consume \/ Decode
    <3>1. PICK x \in U : srcDone' = Append(srcDone, x)
      BY <1>1, <2>2
    <3> HIDE DEF U
    <3>2. \E l \in DOMAIN srcDone' : srcDone'[l] = srcDone[k]
      BY <1>0, <3>1, AppendKeeps
    <3> QED
      BY <2>0, <3>2
  <2>3. CASE UNCHANGED srcDone
    BY <2>0, <2>3
  <2> QED
    BY <2>1, <2>2, <2>3, Frames
<1> QED
  BY <1>5, <1>6, <1>7, <1>8 DEF Awaited

\* A work whose answer is posted to F is found there.
LEMMA AnswerFound ==
  ASSUME TypeOK, Carried, NEW i \in Inputs, i \in mWorkInfos,
         pool'["F"] = IF i \in mWorkInfos THEN Append(pool["F"], Work("done", i)) ELSE pool["F"]
  PROVE  TaskFor("F", i)'
<1>1. pool["F"] \in Seq(Tasks) /\ Work("done", i) \in Tasks /\ Work("done", i).in = i
  BY TasksAre, Names DEF Carried, Pools, Work
<1>2. Longer(pool'["F"], pool["F"], Work("done", i))
  BY <1>1, AppendLonger
<1> QED
  BY <1>1, <1>2 DEF Longer, TaskFor

\* A task is lost only when it is taken, and was then the first one.
LEMMA TaskStays ==
  ASSUME Carried, NEW t \in {"F", "E"}, NEW i \in Inputs, TaskFor(t, i)
  PROVE  /\ \A x \in Tasks : pool'[t] = Append(pool[t], x) => TaskFor(t, i)'
         /\ pool'[t] = Tail(pool[t]) => TaskFor(t, i)' \/ Head(pool[t]).in = i
         /\ \A x \in Tasks : pool'[t] = Append(Tail(pool[t]), x) =>
              TaskFor(t, i)' \/ Head(pool[t]).in = i
         /\ pool'[t] = pool[t] => TaskFor(t, i)'
<1>0. pool[t] \in Seq(Tasks) /\ pool[t] # <<>>
  BY Names DEF Carried, Pools, TaskFor
<1>1. PICK k \in DOMAIN pool[t] : pool[t][k].in = i
  BY DEF TaskFor
<1>2. ASSUME NEW x \in Tasks, pool'[t] = Append(pool[t], x)
      PROVE  TaskFor(t, i)'
  <2>1. Longer(pool'[t], pool[t], x)
    BY <1>0, <1>2, AppendLonger
  <2> QED
    BY <1>1, <2>1 DEF Longer, TaskFor
<1>3. /\ Shorter(Tail(pool[t]), pool[t]) /\ Tail(pool[t]) \in Seq(Tasks)
      /\ Head(pool[t]).in = i \/ \E l \in DOMAIN Tail(pool[t]) : Tail(pool[t])[l].in = i
  <2>1. Shorter(Tail(pool[t]), pool[t]) /\ Tail(pool[t]) \in Seq(Tasks)
    BY <1>0, TailShorter, TailProperties
  <2> QED
    BY <1>1, <2>1 DEF Shorter
<1>4. ASSUME NEW x \in Tasks, pool'[t] = Append(Tail(pool[t]), x), Head(pool[t]).in # i
      PROVE  TaskFor(t, i)'
  <2>1. Longer(pool'[t], Tail(pool[t]), x)
    BY <1>3, <1>4, AppendLonger
  <2> QED
    BY <1>3, <1>4, <2>1 DEF Longer, TaskFor
<1>5. pool'[t] = Tail(pool[t]) => TaskFor(t, i)' \/ Head(pool[t]).in = i
  BY <1>3 DEF TaskFor
<1> QED
  BY <1>2, <1>4, <1>5 DEF TaskFor

\* With no flush under way F only loses a work it answers or gives to E.
LEMMA FilterKeeps ==
  ASSUME TypeOK, Carried, Pipe, Tokens, Synced, Next, client = "idle", client' = "idle",
         NEW i \in Inputs, TaskFor("F", i)
  PROVE  TaskFor("F", i)' \/ i \in answered' \/ (i \in mWorkInfos' /\ TaskFor("E", i)')
<1>0. \A op \in {"work", "done", "in"}, j \in Inputs : Work(op, j) \in Tasks /\ Work(op, j).in = j
  BY TasksAre DEF Work
<1>1. CASE QueueWork
  BY <1>0, <1>1, QueueWorkPools, TaskStays
<1>2. CASE DoQueueWork
  <2>1. PICK j \in Inputs :
           /\ pool["F"] # <<>> /\ Head(pool["F"]) = Work("work", j)
           /\ \/ /\ DoProcess(j) /\ pool'["F"] = Tail(pool["F"])
                 /\ pool'["E"] = Append(pool["E"], Work("in", j))
              \/ pool'["F"] = Append(Tail(pool["F"]), Work("done", j))
    BY <1>2, DoQueueWorkPools
  <2>2. CASE i # j
    BY <1>0, <2>1, <2>2, TaskStays
  <2>3. CASE i = j /\ DoProcess(j) /\ pool'["E"] = Append(pool["E"], Work("in", j))
    <3>1. i \in mWorkInfos'
      BY <2>3 DEF DoProcess
    <3>2. pool["E"] \in Seq(Tasks)
      BY Names DEF Carried, Pools
    <3>3. Longer(pool'["E"], pool["E"], Work("in", j))
      BY <1>0, <2>3, <3>2, AppendLonger
    <3> QED
      BY <1>0, <2>3, <3>1, <3>3 DEF Longer, TaskFor
  <2>4. CASE i = j /\ pool'["F"] = Append(Tail(pool["F"]), Work("done", j))
    <3>1. pool["F"] \in Seq(Tasks)
      BY Names DEF Carried, Pools
    <3>2. Tail(pool["F"]) \in Seq(Tasks)
      BY <2>1, <3>1, TailProperties
    <3>3. Longer(pool'["F"], Tail(pool["F"]), Work("done", j))
      BY <1>0, <2>4, <3>2, AppendLonger
    <3> QED
      BY <1>0, <2>4, <3>3 DEF Longer, TaskFor
  <2> QED
    BY <2>1, <2>2, <2>3, <2>4
<1>3. CASE DoWorkDone
  <2>1. pool'["F"] = Tail(pool["F"])
    BY <1>3, DoWorkDonePools
  <2>2. answered' = answered \cup {Head(pool["F"]).in}
    BY <1>3 DEF DoWorkDone
  <2> QED
    BY <2>1, <2>2, TaskStays
<1>4. CASE InputRefused \/ InputDequeue \/ OutputDequeue
  <2>1. \/ pool'["F"] = pool["F"]
        \/ \E j \in Inputs : pool'["F"] = Append(pool["F"], Work("done", j))
    BY <1>4, AnswerSteps DEF AnswerPosted
  <2> QED
    BY <1>0, <2>1, TaskStays
<1>5. CASE pool'["F"] = pool["F"]
  BY <1>5, TaskStays
<1> QED
  BY <1>1, <1>2, <1>3, <1>4, <1>5, IdleSteps, PoolFrames

\* E loses an input only to the pipe.
LEMMA EnqueueKeeps ==
  ASSUME TypeOK, Carried, Pipe, Next, ~CodecDoFlush, NEW i \in Inputs, TaskFor("E", i)
  PROVE  TaskFor("E", i)' \/ InPipe(i)'
<1>0. /\ \A op \in {"feed", "out", "flush"} : Task(op) \in Tasks
      /\ \A j \in Inputs : Work("in", j) \in Tasks
      /\ i # None /\ pool["E"] \in Seq(Tasks)
  BY TasksAre, Names DEF Ops, Inputs, None, Carried, Pools
<1>1. CASE DoPipeInputEnqueue
  <2>1. /\ pool["E"] # <<>> /\ pool'["E"] = Tail(pool["E"])
        /\ \/ Head(pool["E"]).op = "in" /\ Head(pool["E"]).in \in Inputs
           \/ Head(pool["E"]).in = None
    BY <1>1, DoPipeInputEnqueuePools DEF Took
  <2>2. CASE Head(pool["E"]).in = i
    <3>1. mPipeInputs' = Append(mPipeInputs, i) /\ mPipeInputs \in Seq(Inputs)
      BY <1>0, <1>1, <2>1, <2>2 DEF DoPipeInputEnqueue, TypeOK
    <3>2. Longer(mPipeInputs', mPipeInputs, i)
      BY <3>1, AppendLonger
    <3> QED
      BY <3>2 DEF Longer, InPipe
  <2> QED
    BY <2>1, <2>2, TaskStays
<1>2. CASE DoOutputEnqueue
  <2>1. /\ pool["E"] # <<>> /\ pool'["E"] = Tail(pool["E"]) /\ Head(pool["E"]) \in Tasks
        /\ Head(pool["E"]).op = "out"
    BY <1>2, DoOutputEnqueuePools DEF Took
  <2>2. Head(pool["E"]).in = None
    BY <2>1, TasksCarry
  <2> QED
    BY <1>0, <2>1, <2>2, TaskStays
<1>3. CASE ~DoPipeInputEnqueue /\ ~DoOutputEnqueue
  <2>1. \/ pool'["E"] = pool["E"]
        \/ \E x \in Tasks : pool'["E"] = Append(pool["E"], x)
    <3>1. CASE DoQueueWork
      BY <1>0, <3>1, DoQueueWorkPools, Names DEF Keeps
    <3>2. CASE AllocOutBuffer \/ CodecFlush \/ FeedPiled
      BY <1>0, <3>2, AllocOutBufferPools, CodecFlushPools, FeedPiledPools DEF Gave
    <3> QED
      BY <1>3, <3>1, <3>2, PoolFrames
  <2> QED
    BY <2>1, TaskStays
<1> QED
  BY <1>1, <1>2, <1>3

\* A known work is answered before it is forgotten.
LEMMA KnownKeeps ==
  ASSUME TypeOK, Carried, Pipe, Next, ~FlushEnd, NEW i \in Inputs, i \in mWorkInfos
  PROVE  i \in mWorkInfos' \/ TaskFor("F", i)'
<1>1. CASE DoQueueWork
  BY <1>1, DoQueueWorkPools DEF DoProcess, SetupFails
<1>2. CASE InputRefused \/ InputDequeue \/ OutputDequeue
  BY <1>2, AnswerSteps, AnswerFound DEF AnswerPosted
<1> QED
  BY <1>1, <1>2, Frames

\* An input in the pipe is given to the driver, or answered.
LEMMA PipeKeeps ==
  ASSUME TypeOK, Carried, Pipe, Next, ~ClearPipeInputs, NEW i \in Inputs, i \in mWorkInfos,
         InPipe(i)
  PROVE  InPipe(i)' \/ TaskFor("F", i)' \/ InDriver(i)'
<1>0. mPipeInputs \in Seq(Inputs)
  BY DEF TypeOK
<1>1. PICK k \in DOMAIN mPipeInputs : mPipeInputs[k] = i
  BY DEF InPipe
<1>2. CASE DoPipeInputEnqueue
  <2>1. mPipeInputs' = mPipeInputs \/ \E x \in Inputs : mPipeInputs' = Append(mPipeInputs, x)
    BY <1>2, DoPipeInputEnqueuePools DEF DoPipeInputEnqueue, Took
  <2>2. ASSUME NEW x \in Inputs, mPipeInputs' = Append(mPipeInputs, x)
        PROVE  InPipe(i)'
    <3>1. Longer(mPipeInputs', mPipeInputs, x)
      BY <1>0, <2>2, AppendLonger
    <3> QED
      BY <1>1, <3>1 DEF Longer, InPipe
  <2> QED
    BY <1>1, <2>1, <2>2 DEF InPipe
<1>3. ASSUME InputEnqueue \/ InputRefused
      PROVE  InPipe(i)' \/ (Head(mPipeInputs) = i)
  <2>1. mPipeInputs # <<>> /\ mPipeInputs' = Tail(mPipeInputs)
    BY <1>3 DEF InputEnqueue, InputRefused, Pipe
  <2> QED
    BY <1>0, <1>1, <2>1, TailKeeps DEF InPipe
<1>4. ASSUME InputEnqueue, Head(mPipeInputs) = i
      PROVE  InDriver(i)'
  <2>0. PICK t \in Tags : t = mTagNum
    BY DEF TypeOK
  <2> DEFINE x == [in |-> i, tag |-> t]
             S == [in : Inputs, tag : Tags]
  <2>1. /\ mInputs \in [Tags -> 0..NumInputs] /\ src \in Seq(S) /\ x \in S
        /\ src' = Append(src, x) /\ mInputs' = [mInputs EXCEPT ![t] = i]
    BY <1>4, <2>0 DEF TypeOK, InputEnqueue, FrameTag
  <2>2. mInputs'[t] = i
    BY <2>1
  <2> HIDE DEF x, S
  <2>3. Longer(src', src, x)
    BY <2>1, AppendLonger
  <2>4. \E l \in DOMAIN src' : src'[l] = x
    BY <2>3 DEF Longer
  <2>5. Awaited(i, t)'
    BY <2>4 DEF Awaited, x
  <2> QED
    BY <2>2, <2>5 DEF InDriver
<1>5. ASSUME InputRefused, Head(mPipeInputs) = i
      PROVE  TaskFor("F", i)'
  BY <1>5, InputRefusedPools, AnswerFound DEF Answers
<1>6. CASE UNCHANGED mPipeInputs
  BY <1>1, <1>6 DEF InPipe
<1> QED
  BY <1>2, <1>3, <1>4, <1>5, <1>6, Frames

\* An input the driver has keeps its tag until it is answered.
LEMMA DriverKeeps ==
  ASSUME TypeOK, Carried, Pipe, Tracked, Next, ~InputPortStop, ~OutputPortStop, ~ClearMaps,
         ~lapped',
         NEW i \in Inputs, i \in mWorkInfos, InDriver(i)
  PROVE  InDriver(i)' \/ TaskFor("F", i)'
<1>0. mInputs \in [Tags -> 0..NumInputs] /\ i # None
  BY DEF TypeOK, Inputs, None
<1>1. PICK t \in Tags : mInputs[t] = i /\ Awaited(i, t)
  BY DEF InDriver
<1>2. ASSUME InputDequeue, Head(srcDone).in = i, Head(srcDone).used
      PROVE  TaskFor("F", i)'
  <2>1. t \in {u \in Tags : mInputs[u] = Head(srcDone).in}
    BY <1>1, <1>2
  <2>2. Answers(i, {<<"I", "wait">>})
    BY <1>2, <2>1, InputDequeuePools
  <2> QED
    BY <2>2, AnswerFound DEF Answers
<1>3. ASSUME OutputDequeue, Head(dstDone).tag = t
      PROVE  TaskFor("F", i)'
  <2>1. Head(dstDone).buf \in mOutputs
    <3>1. dstDone # <<>> /\ dstDone \in Seq([buf : Bufs, tag : Tags, change : BOOLEAN])
      BY <1>3 DEF OutputDequeue, TypeOK
    <3>2. 1 \in DOMAIN dstDone /\ Head(dstDone) = dstDone[1]
      BY <3>1, TailHas
    <3>3. Head(dstDone).buf \in OutBufs
      BY <3>2 DEF OutBufs
    <3> QED
      BY <3>3 DEF Tracked
  <2>2. Answers(i, {<<"O", "wait">>})
    BY <1>0, <1>1, <1>3, <2>1, OutputDequeuePools
  <2> QED
    BY <2>2, AnswerFound DEF Answers
<1>4. mInputs'[t] = i \/ TaskFor("F", i)'
  <2>1. CASE InputEnqueue
    <3>1. mInputs[mTagNum] = None
      BY <2>1 DEF InputEnqueue, FrameTag
    <3>2. \E j : mInputs' = [mInputs EXCEPT ![mTagNum] = j]
      BY <2>1 DEF InputEnqueue, FrameTag
    <3> QED
      BY <1>0, <1>1, <3>1, <3>2
  <2>2. CASE InputDequeue
    <3> DEFINE kept == {u \in Tags : mInputs[u] = Head(srcDone).in}
    <3>1. CASE Head(srcDone).used /\ kept # {}
      <4>1. mInputs' = [u \in Tags |-> IF u \in kept THEN None ELSE mInputs[u]]
        BY <2>2, <3>1 DEF InputDequeue
      <4>2. t \in kept => Head(srcDone).in = i
        BY <1>1
      <4> QED
        BY <1>1, <1>2, <2>2, <3>1, <4>1, <4>2
    <3>2. CASE ~(Head(srcDone).used /\ kept # {})
      <4>1. UNCHANGED mInputs
        BY <2>2, <3>2 DEF InputDequeue
      <4> QED
        BY <1>1, <4>1
    <3> QED
      BY <3>1, <3>2
  <2>3. CASE OutputDequeue
    <3>1. UNCHANGED mInputs \/ mInputs' = [mInputs EXCEPT ![Head(dstDone).tag] = None]
      BY <2>3 DEF OutputDequeue
    <3> QED
      BY <1>0, <1>1, <1>3, <2>3, <3>1
  <2>4. CASE UNCHANGED mInputs
    BY <1>1, <2>4
  <2> QED
    BY <2>1, <2>2, <2>3, <2>4, Frames
<1>5. \/ Awaited(i, t)'
      \/ InputDequeue /\ Head(srcDone).in = i /\ Head(srcDone).used
      \/ OutputDequeue /\ Head(dstDone).tag = t
  BY <1>1, AwaitedGoesOn
<1> QED
  BY <1>2, <1>3, <1>4, <1>5 DEF InDriver

\* An input that was found is found after the step, or answered by it.
LEMMA LocatedKept ==
  ASSUME TypeOK, Carried, Pipe, Tokens, Synced, Tracked, Next, client = "idle", client' = "idle",
         ~lapped',
         NEW i \in Inputs, Located(i)
  PROVE  Located(i)' \/ i \in answered'
<1>1. CASE TaskFor("F", i)
  BY <1>1, FilterKeeps DEF Located
<1>2. CASE i \in mWorkInfos /\ TaskFor("E", i)
  BY <1>2, EnqueueKeeps, KnownKeeps, IdleSteps DEF Located
<1>3. CASE i \in mWorkInfos /\ InPipe(i)
  BY <1>3, PipeKeeps, KnownKeeps, IdleSteps DEF Located
<1>4. CASE i \in mWorkInfos /\ InDriver(i)
  BY <1>4, DriverKeeps, KnownKeeps, IdleSteps DEF Located
<1> QED
  BY <1>1, <1>2, <1>3, <1>4 DEF Located

\* Every step leaves the open inputs where they are found.
LEMMA FoundKept ==
  ASSUME TypeOK, Carried, Pipe, Tokens, Synced, Tracked, Found, Next
  PROVE  Found'
<1> SUFFICES ASSUME client' = "idle", ~lapped', NEW i \in Open' PROVE Located(i)'
  BY DEF Found
<1>0. /\ queued \in 0..NumInputs /\ i \notin answered' /\ i \notin flushed' /\ i \in 1..queued'
  BY DEF TypeOK, Open
<1>1. CASE FlushEnd
  <2>1. UNCHANGED <<queued, answered>> /\ flushed' = flushed \cup ((1..queued) \ answered)
    BY <1>1 DEF FlushEnd
  <2> QED
    BY <1>0, <2>1
<1>2. CASE ~FlushEnd
  <2>1. client = "idle" /\ ~lapped
    <3>1. ~lapped
      BY Frames DEF InputEnqueue
    <3>2. ~Flush /\ ~FlushSync /\ ~DoFlushDone
      BY DEF Flush, FlushSync, DoFlushDone
    <3>3. CodecFlush \/ ClearPipeInputs \/ ClearMaps => UNCHANGED client \/ client' = "flushed"
      BY DEF CodecFlush, ClearPipeInputs, ClearMaps, FlushReturned
    <3> QED
      BY <1>2, <3>1, <3>2, <3>3, Frames
  <2>2. CASE QueueWork /\ i = queued + 1
    <3>1. /\ pool'["F"] = Append(pool["F"], Work("work", i)) /\ i \in Inputs
          /\ pool["F"] \in Seq(Tasks) /\ Work("work", i).in = i
      BY <2>2, QueueWorkPools, Names DEF Carried, Pools, Work
    <3>2. Longer(pool'["F"], pool["F"], Work("work", i))
      BY <3>1, AppendLonger, TasksAre
    <3> QED
      BY <3>1, <3>2 DEF Longer, TaskFor, Located
  <2>3. CASE ~(QueueWork /\ i = queued + 1)
    <3>1. i \in 1..queued
      BY <1>0, <2>3, Frames DEF QueueWork
    <3>2. i \notin answered /\ i \notin flushed
      BY <1>0, <1>2, Frames DEF DoWorkDone
    <3>3. i \in Open /\ i \in Inputs
      BY <1>0, <3>1, <3>2, CodecFilterAssumption DEF Open, Inputs
    <3> QED
      BY <1>0, <2>1, <3>3, LocatedKept DEF Found
  <2> QED
    BY <2>2, <2>3
<1> QED
  BY <1>1, <1>2

----------------------------------------------------------------------------
(* The inductive invariant, and the theorems. *)

\* The inductive invariant.
Inductive ==
  /\ TypeOK /\ Carried /\ Pipe
  /\ Tokens /\ Synced /\ PortsAgree
  /\ Off /\ Once /\ Offered /\ InAwaited /\ OutAwaited
  /\ NoWork /\ FlushLast /\ FlushFirst /\ FlushDrained /\ Unused /\ Flushed
  /\ Given /\ Gone /\ Tracked /\ Found

\* It holds at first, when all pools and queues are empty.
LEMMA Initially == Init => Inductive
<1> SUFFICES ASSUME Init PROVE Inductive
  OBVIOUS
<1>0. /\ \A t \in Threads : pool[t] = <<>> /\ phase[t] = "idle"
      /\ ~on["In"] /\ ~on["Out"]
      /\ \A t \in Tags : mInputs[t] = None
  BY DEF Init, Ports
<1>1. TypeOK
  <2>1. 0 \in 0..NumInputs /\ 0 \in 0..MaxIn /\ 0 \in Tags /\ None \in 0..NumInputs
    BY CodecFilterAssumption DEF Tags, None
  <2>2. ClientTyped
    BY <2>1 DEF Init, ClientTyped
  <2>3. PoolsTyped
    BY DEF Init, PoolsTyped
  <2>4. ThreadsTyped
    BY <2>1 DEF Init, ThreadsTyped, Phases
  <2>5. CodecTyped
    BY <2>1 DEF Init, CodecTyped
  <2>6. DriverTyped
    <3>1. on \in [Ports -> BOOLEAN] /\ changed \in BOOLEAN
      BY DEF Init
    <3>2. \A S : <<>> \in Seq(S)
      BY EmptySeq
    <3>3. /\ src = <<>> /\ srcDone = <<>> /\ dst = {} /\ held = {} /\ dstDone = <<>>
      BY DEF Init
    <3> QED
      BY <3>1, <3>2, <3>3 DEF DriverTyped
  <2> QED
    BY <2>2, <2>3, <2>4, <2>5, <2>6, TypeParts
<1>2. Carried /\ Pipe /\ Given
  BY <1>0, Names DEF Init, Carried, Pools, Pipe, Given
<1>3. \A t \in Threads : \A op : Pending(pool, t, op) = 0
  BY <1>0, <1>2, PendingType DEF Carried
<1>4. OutBufs = {} /\ Cardinality(OutBufs) = 0 /\ InBufs = 0
  <2>1. OutBufs = {} /\ InBufs = 0
    BY DEF Init, OutBufs, InBufs
  <2> QED
    BY <2>1, FS_EmptySet
<1>5. Tokens /\ Synced /\ PortsAgree
  BY <1>0, <1>3, Names DEF Init, Tokens, FlushTokens, OutTokens, StopTokens, Woken, Stopping,
                           Synced, PortsAgree
<1>6. Off /\ Once /\ Offered
  BY <1>0, Names DEF Init, Off, Once, Offered
<1>7. InAwaited /\ OutAwaited
  BY <1>0, <1>3, <1>4, Names DEF Init, InAwaited, OutAwaited
<1>8. Quiet /\ src = <<>> /\ srcDone = <<>>
  BY <1>0, <1>3, Names DEF Init, Quiet
<1>9. NoWork /\ FlushLast /\ FlushFirst /\ FlushDrained /\ Unused /\ Flushed
  BY <1>0, <1>8, Names DEF Init, NoWork, FlushLast, FlushFirst, FlushDrained, BehindFlush, Unused,
                           Flushed, Drained
<1>10. Gone /\ Tracked /\ Found
  BY <1>0, <1>4, Names DEF Init, Gone, Tracked, Found, Open
<1> QED
  BY <1>1, <1>2, <1>5, <1>6, <1>7, <1>9, <1>10 DEF Inductive

\* A step that changes nothing keeps it.
LEMMA Stuttering ==
  ASSUME Inductive, UNCHANGED vars
  PROVE  Inductive'
<1> USE DEF Inductive, vars, clientVars, threadVars, codecVars, driverVars
<1>1. TypeOK' /\ Carried' /\ Pipe' /\ Given'
  <2>1. ClientTyped /\ PoolsTyped /\ ThreadsTyped /\ CodecTyped /\ DriverTyped
    BY TypeParts
  <2>2. ClientTyped' /\ PoolsTyped'
    BY <2>1 DEF ClientTyped, PoolsTyped
  <2>3. ThreadsTyped'
    BY <2>1 DEF ThreadsTyped
  <2>4. CodecTyped'
    BY <2>1 DEF CodecTyped
  <2>5. DriverTyped'
    BY <2>1 DEF DriverTyped
  <2>6. TypeOK'
    BY <2>2, <2>3, <2>4, <2>5
       DEF TypeOK, ClientTyped, PoolsTyped, ThreadsTyped, CodecTyped, DriverTyped, Phases
  <2> QED
    BY <2>6 DEF Carried, Pipe, Given
<1>2. \A t, op : Pending(pool', t, op) = Pending(pool, t, op)
  OBVIOUS
<1>3. OutBufs' = OutBufs /\ InBufs' = InBufs
  BY DEF OutBufs, InBufs
<1>4. Tokens' /\ Synced' /\ PortsAgree'
  BY DEF Tokens, FlushTokens, OutTokens, StopTokens, Woken, Synced, PortsAgree
<1>5. Off' /\ Once' /\ Offered' /\ InAwaited' /\ OutAwaited'
  BY <1>3 DEF Off, Once, Offered, InAwaited, OutAwaited
<1>6. NoWork' /\ FlushLast' /\ FlushFirst'
  BY DEF NoWork, FlushLast, FlushFirst
<1>7. FlushDrained' /\ Unused' /\ Flushed'
  BY DEF FlushDrained, BehindFlush, Unused, Flushed, Quiet, Drained
<1>8. Gone'
  BY DEF Gone, Absent, TaskFor, InPipe, Tagged, InSource, InSourceDone
<1>9. Tracked'
  BY <1>3 DEF Tracked
<1>10. Found'
  BY DEF Found, Open, Located, TaskFor, InPipe, InDriver, Awaited
<1> QED
  BY <1>1, <1>4, <1>5, <1>6, <1>7, <1>8, <1>9, <1>10

\* Every step keeps it.
LEMMA Induction ==
  ASSUME Inductive, Next
  PROVE  Inductive'
<1> USE DEF Inductive
<1>1. TypeOK' /\ Carried' /\ Pipe'
  BY TypeKept, PipeKept
<1>2. Tokens' /\ PortsAgree'
  BY TokensKept, StreamsKept
<1>3. Off' /\ Once' /\ Offered'
  BY OffKept, OnceKept, OfferedKept
<1>4. InAwaited' /\ OutAwaited'
  BY InAwaitedKept, OutAwaitedKept
<1>5. NoWork' /\ FlushLast' /\ FlushFirst'
  BY NoWorkKept, FlushLastKept, FlushFirstKept
<1>6. FlushDrained' /\ Unused' /\ Flushed'
  BY FlushDrainedKept, UnusedKept, FlushedKept
<1>7. Synced' /\ Given' /\ Gone'
  BY SyncedKept, GivenKept, GoneKept
<1>8. Tracked' /\ Found'
  BY TrackedKept, FoundKept
<1> QED
  BY <1>1, <1>2, <1>3, <1>4, <1>5, <1>6, <1>7, <1>8

----------------------------------------------------------------------------

\* The inductive invariant holds always.
THEOREM Invariance == Spec => []Inductive
<1>1. Init => Inductive
  BY Initially
<1>2. Inductive /\ [Next]_vars => Inductive'
  BY Induction, Stuttering
<1> QED
  BY <1>1, <1>2, PTL DEF Spec

\* The variables keep their types: no tag, task, buffer or phase is ever one
\* that the code does not have.
THEOREM TypeCorrect == Spec => []TypeOK
<1>1. Inductive => TypeOK
  BY DEF Inductive
<1> QED
  BY <1>1, Invariance, PTL

\* Each buffer the driver has is waited for, but while a flush wakes the
\* pollers: no step of the five threads leaves the decoder with buffers that
\* nobody will take back.
THEOREM BuffersAwaited == Spec => []EveryBufferAwaited
<1>1. Inductive => EveryBufferAwaited
  BY DEF Inductive, InAwaited, OutAwaited, EveryBufferAwaited
<1> QED
  BY <1>1, Invariance, PTL

\* When flush() has returned nothing of the inputs it took is left, and the
\* pollers poll again.
THEOREM FlushComplete == Spec => []FlushLeavesNothing
<1>1. Inductive => FlushLeavesNothing
  <2> SUFFICES ASSUME Inductive, client = "idle"
               PROVE  ~user /\ \A i \in flushed : Absent(i)
    BY DEF FlushLeavesNothing, Absent, InPipe, Tagged, InSource, InSourceDone
  <2>0. \A t \in Threads : \A op : Pending(pool, t, op) \in Nat
    BY PendingType DEF Inductive, Carried
  <2>1. phase["F"] # "waiting"
    BY DEF Inductive, Tokens, FlushTokens
  <2>2. phase["A"] # "flush"
    BY <2>0, <2>1, Names DEF Inductive, Tokens, FlushTokens
  <2>3. phase["E"] \notin Stopping
    BY <2>0, <2>2, Names DEF Inductive, Tokens, FlushTokens
  <2> QED
    BY <2>3 DEF Inductive, Tokens, Woken, Gone
<1> QED
  BY <1>1, Invariance, PTL

\* No work is answered after the flush that took it has returned.
THEOREM AnswersInTime == Spec => NoLateAnswer
<1>1. Inductive /\ [Next]_vars => [\A i \in flushed : i \in answered' => i \in answered]_vars
  <2> SUFFICES ASSUME Inductive, Next, NEW i \in flushed, i \in answered', i \notin answered
               PROVE  FALSE
    OBVIOUS
  <2>1. DoWorkDone
    BY Frames
  <2>2. /\ pool["F"] # <<>> /\ pool["F"] \in Seq(Tasks) /\ Head(pool["F"]).in = i
    BY <2>1, DoWorkDonePools, Names DEF Inductive, Carried, Pools, DoWorkDone
  <2>3. TaskFor("F", i)
    BY <2>2, TailHas DEF TaskFor
  <2> QED
    BY <2>3 DEF Inductive, Gone, Absent
<1> QED
  BY <1>1, Invariance, PTL DEF Spec, NoLateAnswer

\* While no flush is under way every open input is on its way to an answer, in
\* one of the pools, maps and queues it passes, unless the tags came round to
\* one in use.
THEOREM InputsKept == Spec => []NoInputForgotten
<1>1. ASSUME NEW i, Located(i)
      PROVE  OnItsWay(i)
  <2>1. ASSUME NEW t \in Tags, Awaited(i, t)
        PROVE  t \in TagsInDriver \/ \E k \in DOMAIN srcDone : srcDone[k].in = i /\ srcDone[k].used
    BY <2>1 DEF Awaited, TagsInDriver
  <2>2. InDriver(i) => \E t \in Tags :
             /\ mInputs[t] = i
             /\ t \in TagsInDriver \/ \E k \in DOMAIN srcDone : srcDone[k].in = i /\ srcDone[k].used
    BY <2>1 DEF InDriver
  <2> QED
    BY <1>1, <2>2 DEF Located, OnItsWay, InPipe
<1>2. Inductive => NoInputForgotten
  BY <1>1 DEF Inductive, Found, NoInputForgotten
<1> QED
  BY <1>2, Invariance, PTL
=============================================================================
