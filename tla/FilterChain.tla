---------------------------- MODULE FilterChain ----------------------------
(* The chain of filters a component runs its works through: each filter has *)
(* a pool of one thread, takes the buffers of a work from inputIndex on and *)
(* hands the work to the next filter, the last one to the component.        *)
(* Filter number Codec answers later, from the codec's threads; the others  *)
(* (color conversion, film grain, statistics) process a buffer in one call  *)
(* or let it pass.  The component's thread queues works and flushes or      *)
(* stops the chain.                                                         *)
EXTENDS Integers, Sequences, FiniteSets, FiniteSetsExt, SequencesExt

CONSTANTS
  NumFilters,   \* filters in the chain, numbered from FIRST_FILTER_ID = 1
  Bounds        \* bounds of the model, a behaviour has one of them: the works that the
                \* component queues, the outputs of one input (VIDEO_FRAME_MULTI, or a
                \* header and its frame), stops, failures and settings

Filters == 1..NumFilters
None    == 0

VARIABLES
  limits,     \* the bounds of this behaviour
  Codec,      \* the codec's place: first for a decoder, behind CSC for an encoder
  queued,     \* works queued so far: 1..queued
  client,     \* what the component's thread does: a step of flush() or stop() at a filter
  pool,       \* the tasks waiting in each filter's pool
  job,        \* the loop of doQueueWork: its work and the buffers that are left
  infos,      \* the codec's mWorkInfos, in the order of its answers
  pending,    \* the codec's mPendingParams
  applied,    \* the setting each filter works with
  answered,   \* the works the component was handed
  given,      \* history: the settings on their way to each filter, or there
  gone,       \* history: the works queued before the last flush or stop that is over
  stray,      \* history: the works whose answer a stop left in the codec's pool
  stale,      \* history: a filter handled a frame with another than its newest setting
  behind,     \* history: a setting went ahead of an older one
  stops, fails

vars == <<limits, Codec, queued, client, pool, job, infos, pending, applied, answered,
          given, gone, stray, stale, behind, stops, fails>>

\* A buffer: the k-th output of its work, 0 for the component's input, and the
\* filters that made a new version of it.
Buffer(k) == [k |-> k, by |-> <<>>, replica |-> FALSE]

\* FilterWork with the FilterWorkInfo around it.  The buffers of a work share
\* the parameters of its input.  History: id, its number in the order of the
\* inputs, from the codec on in that of its answers, which is its setting's too;
\* made, the newest version of each buffer, and spoiled, that a filter processed
\* one and let the last one pass.
NewWork(w, s, csd) ==
  [id |-> w, buffers |-> <<Buffer(0)>>, inputIndex |-> 0, params |-> s, csd |-> csd,
   in |-> 0, out |-> 0, made |-> [k \in 0..limits.outs |-> <<>>], outs |-> 0, spoiled |-> FALSE]
NoJob == [work |-> NewWork(None, None, FALSE), todo |-> <<>>]
Task(op) == [op |-> op, work |-> NoJob.work]
WorkTask(op, w) == [op |-> op, work |-> w]
Idle == [how |-> "none", at |-> 0, step |-> "idle"]

Init ==
  /\ limits \in Bounds /\ Codec \in {1, NumFilters - 1}
  /\ queued = 0 /\ client = Idle
  /\ pool = [f \in Filters |-> <<>>] /\ job = [f \in Filters |-> NoJob]
  /\ infos = <<>> /\ pending = None /\ applied = [f \in Filters |-> None]
  /\ answered = <<>> /\ given = [f \in Filters |-> {}] /\ gone = 0 /\ stray = {}
  /\ stale = FALSE /\ behind = FALSE /\ stops = 0 /\ fails = 0

----------------------------------------------------------------------------
(* What filters do to a work. *)

\* FilterWorkInfo(bufferCount - inputIndex, 0, work), and the loop's index.  A
\* negative index, which only a spoiled work has, is a huge (size_t): no buffers.
Entered(w) ==
  [w EXCEPT !.in = Len(w.buffers) - w.inputIndex, !.out = 0, !.inputIndex = Len(w.buffers)]
Todo(w) ==
  IF w.inputIndex < 0 THEN <<>> ELSE SubSeq(w.buffers, w.inputIndex + 1, Len(w.buffers))

\* obtainWorkInfo(): the output goes to the end of the list; with
\* internalRelease the input leaves it.
Pushed(w, next, release) ==
  LET at == Len(w.buffers) - w.in + 1
  IN  [w EXCEPT !.buffers = Append(IF release THEN RemoveAt(@, at) ELSE @, next),
                !.inputIndex = @ - (IF release THEN 1 ELSE 0),
                !.out = @ + 1]

\* The input is released by every filter but the first: the component's input
\* stays in its work.
Released(f) == f # 1

\* processDone() of a filter that made a new buffer.
Processed(w, b, f) ==
  LET next == [b EXCEPT !.by = Append(@, f)]
  IN  Pushed([w EXCEPT !.made[b.k] = next.by], next, Released(f))

\* bypassBuffer(): the last buffer of the work takes out what was pushed.
Bypassed_KeepIndex(w, b, f) ==
  LET p == Pushed(w, b, FALSE)
  IN  IF p.in > p.out THEN p ELSE [p EXCEPT !.buffers = SubSeq(@, 1, Len(@) - p.out)]
Bypassed(w, b, f) ==
  LET p == Pushed(w, b, FALSE)
  IN  IF p.in > p.out THEN p
      ELSE [p EXCEPT !.buffers = SubSeq(@, 1, Len(@) - p.out),
                     !.inputIndex = @ - p.in,
                     !.spoiled = @ \/ \E k \in DOMAIN w.made : f \in ToSet(w.made[k])]

\* The component's thread holds mMutex of the filter it is at.
Locked(f) == client.step # "idle" /\ client.at = f

\* workDone(): the next filter's queueWork, or the component.
HandOn(f, w, p) ==
  IF f < NumFilters
  THEN /\ ~Locked(f + 1)
       /\ pool' = [p EXCEPT ![f + 1] = Append(@, WorkTask("work", w))]
       /\ UNCHANGED answered
  ELSE pool' = p /\ answered' = Append(answered, w)

\* applyConfig(): parameters that are there replace the filter's.
Newest(f, w) == Max({v \in given[f] : v <= w} \cup {None})
Apply(f, w) ==
  LET now == IF w.params # None THEN w.params ELSE applied[f]
  IN  /\ applied' = [applied EXCEPT ![f] = now]
      /\ stale' = (stale \/ now < Newest(f, w.id))

\* History: settings that are destroyed before filter f, and those before the
\* next one; with a setting those go that were merged with it.
Upto(lost) == 1..Max(lost \cup {None})
Lost2(lost, f, after) ==
  [g \in Filters |-> (IF g >= f THEN given[g] \ Upto(lost) ELSE given[g])
                     \ (IF g > f THEN Upto(after) ELSE {})]
Lost(lost, f) == Lost2(lost, f, {})
Settings(f, op) == {t.work.params : t \in {u \in ToSet(pool[f]) : u.op = op}}

----------------------------------------------------------------------------
(* The component's thread. *)

QueueWork ==
  /\ client = Idle /\ queued < limits.works
  /\ \E s \in {None, queued + 1}, csd \in BOOLEAN :
       /\ Cardinality(given[1]) >= limits.settings => s = None
       /\ csd => s # None   \* only told apart then
       /\ pool' = [pool EXCEPT ![1] = Append(@, WorkTask("work", NewWork(queued + 1, s, csd)))]
       /\ given' = [f \in Filters |-> given[f] \cup ({s} \ {None})]
  /\ queued' = queued + 1
  /\ UNCHANGED <<limits, Codec, client, job, infos, pending, applied, answered, gone, stray,
                 stale, behind, stops, fails>>

\* flush(), stop() and reset() of filter f: what is piled up is dropped, and
\* doFlush, doStop or doReset is posted and waited for.
StopFilter(how, f, lost) ==
  /\ client' = [how |-> how, at |-> f, step |-> "waiting"]
  /\ pool' = [pool EXCEPT ![f] = <<Task("stop")>>]
  /\ given' = Lost2(lost \cup Settings(f, "work"), f, Settings(f, "done"))

Stop ==
  /\ client = Idle /\ stops < limits.stops /\ queued > 0
  /\ \E how \in {"flush", "stop"} : StopFilter(how, 1, {})
  /\ stops' = stops + 1
  /\ UNCHANGED <<limits, Codec, queued, job, infos, pending, applied, answered, gone, stray, stale,
                 behind, fails>>

\* flush() posts a second task, behind the answers that were tossed meanwhile.
Sync ==
  /\ client.how = "flush" /\ client.step = "stopped"
  /\ client' = [client EXCEPT !.step = "syncing"]
  /\ pool' = [pool EXCEPT ![client.at] = Append(@, Task("sync"))]
  /\ UNCHANGED <<limits, Codec, queued, job, infos, pending, applied, answered, given, gone, stray,
                 stale, behind, stops, fails>>

\* flush() goes on when the second task is through, stop() and reset() when the
\* first one is.
StepDone_NoSync(how) == "stopped"
StepDone(how) == IF how = "flush" THEN "synced" ELSE "stopped"

\* The filter's pending parameters are dropped, and it is the next one's turn.
NextFilter ==
  LET f == client.at
      isCodec == f = Codec
  IN
  /\ client.step = StepDone(client.how)
  /\ pending' = IF isCodec THEN None ELSE pending
  /\ stray' = IF isCodec THEN stray \cup {t.work.id : t \in ToSet(pool[f])} ELSE stray
  /\ IF f < NumFilters
     THEN StopFilter(client.how, f + 1, IF isCodec THEN {pending} ELSE {}) /\ UNCHANGED gone
     ELSE client' = Idle /\ gone' = queued /\ UNCHANGED <<pool, given>>
  /\ UNCHANGED <<limits, Codec, queued, job, infos, applied, answered, stale, behind, stops, fails>>

----------------------------------------------------------------------------
(* The threads of the filters. *)

Taken(f, op) == job[f] = NoJob /\ pool[f] # <<>> /\ Head(pool[f]).op = op
Popped(f) == [pool EXCEPT ![f] = Tail(@)]

\* doFlush and doStop: the codec's inputs get no answer any more.
DoStop(f) ==
  /\ Taken(f, "stop") /\ pool' = Popped(f)
  /\ client' = [client EXCEPT !.step = "stopped"]
  /\ IF f = Codec THEN infos' = <<>> /\ given' = Lost({w.params : w \in ToSet(infos)}, f + 1)
     ELSE UNCHANGED <<infos, given>>
  /\ UNCHANGED <<limits, Codec, queued, job, pending, applied, answered, gone, stray, stale, behind,
                 stops, fails>>

DoSync(f) ==
  /\ Taken(f, "sync") /\ pool' = Popped(f)
  /\ client' = [client EXCEPT !.step = "synced"]
  /\ UNCHANGED <<limits, Codec, queued, job, infos, pending, applied, answered, given, gone, stray,
                 stale, behind, stops, fails>>

\* doQueueWork(): a work without buffers goes on at once; behind a negative
\* index its setting passes the filters by.
DoQueueWork(f) ==
  LET w == Head(pool[f]).work IN
  /\ Taken(f, "work")
  /\ IF Todo(w) = <<>> THEN HandOn(f, w, Popped(f)) /\ UNCHANGED job
     ELSE /\ job' = [job EXCEPT ![f] = [work |-> Entered(w), todo |-> Todo(w)]]
          /\ pool' = Popped(f) /\ UNCHANGED answered
  /\ given' = IF w.inputIndex < 0 THEN Lost({w.params}, f) ELSE given
  /\ UNCHANGED <<limits, Codec, queued, client, infos, pending, applied, gone, stray, stale,
                 behind, stops, fails>>

\* doProcess() of the next buffer, when it makes a new one or lets it pass.
DoProcess(f) ==
  LET w == job[f].work
      b == Head(job[f].todo)
  IN
  /\ f # Codec /\ job[f] # NoJob
  /\ Apply(f, w)
  /\ \E next \in {Bypassed(w, b, f)} \cup (IF b.replica THEN {} ELSE {Processed(w, b, f)}) :
       IF next.in > next.out
       THEN /\ job' = [job EXCEPT ![f] = [work |-> next, todo |-> Tail(@.todo)]]
            /\ UNCHANGED <<pool, answered>>
       ELSE job' = [job EXCEPT ![f] = NoJob] /\ HandOn(f, next, pool)
  /\ UNCHANGED <<limits, Codec, queued, client, infos, pending, given, gone, stray, behind, stops, fails>>

\* doProcess() fails, or gives up the wait for a buffer: the work is destroyed.
DoProcessFails(f) ==
  /\ job[f] # NoJob /\ fails < limits.fails
  /\ Apply(f, job[f].work)
  /\ given' = Lost({job[f].work.params}, f + 1)
  /\ job' = [job EXCEPT ![f] = NoJob] /\ fails' = fails + 1
  /\ UNCHANGED <<limits, Codec, queued, client, pool, infos, pending, answered, gone, stray, behind, stops>>

\* The codec takes its input; processDone() comes from its dequeue threads.
CodecProcess ==
  /\ job[Codec] # NoJob
  /\ Apply(Codec, job[Codec].work)
  /\ infos' = Append(infos, job[Codec].work)
  /\ job' = [job EXCEPT ![Codec] = NoJob]
  /\ UNCHANGED <<limits, Codec, queued, client, pool, pending, answered, given, gone, stray, behind,
                 stops, fails>>

\* The codec answers in an order of its own (pictures come in the order of
\* their display), and obtainWorkInfo() finds the input of whichever output
\* comes.  So infos is in the order of the answers to come, and neighbours may
\* change places until they are answered: each takes along all but its number.
\* The outputs of one input come one after the other.
Named(w, n) == [w EXCEPT !.id = n, !.params = IF @ = None THEN None ELSE n]
Swap(v, a, b) == CASE v = a -> b [] v = b -> a [] OTHER -> v

CodecReorders ==
  /\ \E k \in 1..(Len(infos) - 1) :
       LET a == infos[k].id
           b == infos[k + 1].id
       IN  /\ infos[k].outs = 0
           /\ infos' = [infos EXCEPT ![k] = Named(infos[k + 1], a), ![k + 1] = Named(infos[k], b)]
           /\ given' = [f \in Filters |-> IF f > Codec THEN {Swap(v, a, b) : v \in given[f]} ELSE given[f]]
  /\ UNCHANGED <<limits, Codec, queued, client, pool, job, pending, applied, answered, gone, stray,
                 stale, behind, stops, fails>>

\* obtainWorkInfo() with an output: it takes the pending parameters along,
\* where the input has none that are newer.
Merged_Older(old, new) == IF old # None THEN old ELSE new
Merged(old, new) == IF new # None THEN new ELSE old
WithOutput(w, b) ==
  [Pushed(w, b, FALSE) EXCEPT !.outs = @ + 1, !.params = Merged(pending, @)]

CodecOutput ==
  /\ infos # <<>> /\ Head(infos).outs < limits.outs
  /\ LET w == WithOutput(Head(infos), Buffer(Head(infos).outs + 1)) IN
     \/ infos' = <<w>> \o Tail(infos) /\ UNCHANGED pool
     \/ infos' = Tail(infos) /\ pool' = [pool EXCEPT ![Codec] = Append(@, WorkTask("done", w))]
  /\ pending' = None
  /\ UNCHANGED <<limits, Codec, queued, client, job, applied, answered, given, gone, stray, stale,
                 behind, stops, fails>>

\* obtainWorkInfo() without one: a header's parameters go on with a replica,
\* others wait for the next output.
CodecNoOutput ==
  /\ infos # <<>> /\ Head(infos).outs < limits.outs
  /\ LET w == Head(infos)
         alone == w.csd /\ w.params # None
         next == IF alone THEN [Pushed(w, [Buffer(w.outs + 1) EXCEPT !.replica = TRUE], FALSE)
                                  EXCEPT !.outs = @ + 1]
                 ELSE w
     IN  /\ pool' = [pool EXCEPT ![Codec] = Append(@, WorkTask("done", next))]
         /\ pending' = IF alone THEN pending ELSE Merged(pending, w.params)
         /\ behind' = (behind \/ (alone /\ pending # None))
  /\ infos' = Tail(infos)
  /\ UNCHANGED <<limits, Codec, queued, client, job, applied, answered, given, gone, stray, stale,
                 stops, fails>>

\* The answers that processDone() tosses to the codec's own pool.
DoWorkDone ==
  /\ Taken(Codec, "done")
  /\ HandOn(Codec, Head(pool[Codec]).work, Popped(Codec))
  /\ UNCHANGED <<limits, Codec, queued, client, job, infos, pending, applied, given, gone, stray, stale,
                 behind, stops, fails>>

Step(f) == DoStop(f) \/ DoSync(f) \/ DoQueueWork(f) \/ DoProcess(f) \/ DoProcessFails(f)
Next ==
  \/ QueueWork \/ Stop \/ Sync \/ NextFilter
  \/ \E f \in Filters : Step(f)
  \/ CodecProcess \/ CodecReorders \/ CodecOutput \/ CodecNoOutput \/ DoWorkDone
Spec == Init /\ [][Next]_vars

----------------------------------------------------------------------------

\* The type of the variables; the indices of a work stay within its buffers.
WorkIn(w) == /\ w.id \in 1..queued /\ w.params \in None..queued /\ w.csd \in BOOLEAN
             /\ w.inputIndex \in 0..Len(w.buffers)
TypeOK ==
  /\ queued \in 0..limits.works /\ gone \in 0..queued /\ pending \in None..queued
  /\ client.how \in {"none", "flush", "stop"} /\ client.at \in Filters \cup {0}
  /\ client.step \in {"idle", "waiting", "stopped", "syncing", "synced"}
  /\ applied \in [Filters -> None..queued] /\ given \in [Filters -> SUBSET (1..queued)]
  /\ \A f \in Filters :
       /\ job[f] # NoJob => /\ WorkIn(job[f].work)
                            /\ job[f].work.in - job[f].work.out = Len(job[f].todo)
       /\ \A t \in ToSet(pool[f]) : t.op \in {"work", "done", "stop", "sync"}
  /\ \A w \in ToSet(infos) : WorkIn(w)
  /\ stray \subseteq 1..queued

\* What a filter, or the component, finds in a work it is handed is the newest
\* version of each frame, once and in order, whatever the filters before made
\* of them: unless one made a new version of a frame and let the last one pass.
Whole(w, f) ==
  \/ w.spoiled
  \/ f <= Codec /\ Todo(w) = <<[Buffer(0) EXCEPT !.by = w.made[0]]>>
  \/ /\ f > Codec /\ Len(Todo(w)) = w.outs
     /\ \A k \in 1..w.outs : Todo(w)[k].k = k /\ Todo(w)[k].by = w.made[k]
WorksWhole ==
  /\ \A f \in Filters : \A t \in ToSet(pool[f]) : t.op = "work" => Whole(t.work, f)
  /\ \A w \in ToSet(answered) : Whole(w, NumFilters + 1)

\* Behind a flush nothing of before is left, and a stop leaves no more than the
\* answers behind doStop: neither in the filters that are through with it nor,
\* when it is over, anywhere; and no work is answered twice.
InFilter(f) ==
  {t.work.id : t \in ToSet(pool[f])} \cup {job[f].work.id}
  \cup (IF f = Codec THEN {w.id : w \in ToSet(infos)} ELSE {})
FlushedIsGone ==
  /\ \A f \in Filters :
       IF client.step = "idle" THEN \A w \in InFilter(f) \ {None} : w > gone \/ w \in stray
       ELSE f < client.at => InFilter(f) \subseteq stray \cup {None}
  /\ \A w \in stray : client.how # "flush" \/ stops > 1
  /\ Cardinality({w.id : w \in ToSet(answered)}) = Len(answered)

\* A filter handles a frame with the newest setting that was given with its
\* input or before: also the one that came with an input that had no output.
\* Up to the codec that is the order of the inputs, behind it that of the
\* codec's answers: a setting counts from its input's answer on, also where an
\* input that came later was answered first.  Only a header may overtake a
\* setting that waits.
SettingsReach == stale => behind
=============================================================================
