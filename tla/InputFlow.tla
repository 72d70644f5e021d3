----------------------------- MODULE InputFlow -----------------------------
(* The flow of inputs through a decoder component: InputBufferFlowControl   *)
(* of ExynosC2DecComponent.  A client has few input buffers, a decoder may   *)
(* need more inputs than that before its first picture.  So the component   *)
(* takes the buffer out of a work whose input the codec has consumed and     *)
(* gives it back ahead of the work, by a count that only guesses what the    *)
(* client does.  The component's pool is one thread; the codec consumes      *)
(* inputs on another.  The filters, codec and client are as in Component.    *)
EXTENDS Naturals, Integers, Sequences, FiniteSets, SequencesExt, FiniteSetsExt

CONSTANTS
  NumWorks,      \* works a client queues
  SlotCounts,    \* numbers of input buffers a client may have
  Smoothness,    \* SMOOTHNESS_FACTOR
  Extra,         \* EXTRA_DPB
  DefaultDelay,  \* DEFAULT_OUTPUT_DELAY
  Cnt,           \* nCnt: buffers the codec asks for once it knows the stream
  Depth,         \* pictures the decoder holds before it shows one
  MaxFlushes     \* bound of the model

VARIABLES
  slots,           \* input buffers of this client
  queued,          \* works queued so far
  kind,            \* of each work: "P", "B", or "eos" without a buffer
  lastData,        \* the work that carries EOS with a picture, or 0
  loaned,          \* works whose input buffer the client has not got back
  mWorkQueue, mPendingWorkQueue,
  mPendingInputs,  \* works in order, with mIsConsumed
  mMaxInputCount, mMinOutputDelay,
  tasks,           \* the component's pool
  input, held, nCnt, drained,   \* the codec: inputs, pictures, nCnt, saw EOS
  mHasSavedEOS, mIsAfterEOS,
  answers,         \* history: what the client got since the start or a flush
  flushes

flowVars == <<slots, queued, kind, lastData, loaned, mWorkQueue, mPendingWorkQueue, mPendingInputs,
              mMaxInputCount, mMinOutputDelay, tasks, input, held, nCnt, drained,
              mHasSavedEOS, mIsAfterEOS, answers, flushes>>

Works == 1..NumWorks
Task(op, arg) == [op |-> op, arg |-> arg]

Init ==
  /\ slots \in SlotCounts
  /\ queued = 0 /\ kind = [w \in Works |-> "P"] /\ lastData = 0 /\ loaned = {}
  /\ mWorkQueue = <<>> /\ mPendingWorkQueue = {} /\ mPendingInputs = <<>>
  /\ mMaxInputCount = Smoothness /\ mMinOutputDelay = DefaultDelay
  /\ tasks = <<>> /\ input = <<>> /\ held = <<>> /\ nCnt = 0 /\ drained = FALSE
  /\ mHasSavedEOS = FALSE /\ mIsAfterEOS = FALSE /\ answers = <<>> /\ flushes = 0

----------------------------------------------------------------------------
(* The client, outside the repository. *)

HasSlot == Cardinality(loaned) < slots
WithEOS(w) == kind[w] = "eos" \/ lastData = w
EosQueued == lastData # 0 \/ \E w \in 1..queued : kind[w] = "eos"

\* A picture needs an input buffer, an EOS alone needs none.  EOS is the last
\* thing before a flush.
Queue ==
  /\ queued < NumWorks /\ ~EosQueued
  /\ queued' = queued + 1
  /\ \E k \in {"P", "B", "eos"}, last \in BOOLEAN :
       /\ k # "eos" => HasSlot
       /\ kind' = [kind EXCEPT ![queued + 1] = k]
       /\ loaned' = IF k = "eos" THEN loaned ELSE loaned \cup {queued + 1}
       /\ last => k # "eos" /\ lastData' = queued + 1
       /\ ~last => UNCHANGED lastData
  /\ mWorkQueue' = Append(mWorkQueue, queued + 1)
  /\ tasks' = Append(tasks, Task("queue", 0))
  /\ UNCHANGED <<slots, mPendingWorkQueue, mPendingInputs, mMaxInputCount, mMinOutputDelay, input,
                 held, nCnt, drained, mHasSavedEOS, mIsAfterEOS, answers, flushes>>

\* flush_sm(): everything that waits is given back, then doFlush is posted.
\* The lock of mWorkQueue keeps the pool's tasks out of it.
Flush ==
  /\ flushes < MaxFlushes /\ queued > 0
  /\ flushes' = flushes + 1
  /\ mWorkQueue' = <<>> /\ mPendingInputs' = <<>> /\ mPendingWorkQueue' = {}
  /\ loaned' = {} /\ kind' = [w \in Works |-> "P"] /\ lastData' = 0
  /\ tasks' = <<Task("flush", 0)>>
  /\ answers' = <<>>
  /\ UNCHANGED <<slots, queued, mMaxInputCount, mMinOutputDelay, input, held, nCnt, drained,
                 mHasSavedEOS, mIsAfterEOS>>

----------------------------------------------------------------------------
(* The component's pool. *)

\* The list of pending inputs: addPendingInput(), removePendingInput(),
\* setConsumedPendingInput().
WithPendingInput(w) == Append(mPendingInputs, [work |-> w, consumed |-> FALSE])
WithoutPendingInput(w) == SelectSeq(mPendingInputs, LAMBDA e : e.work # w)
WithConsumed(w) == [k \in DOMAIN mPendingInputs |->
  [mPendingInputs[k] EXCEPT !.consumed = @ \/ mPendingInputs[k].work = w]]

Runs(op) == tasks # <<>> /\ Head(tasks).op = op

\* onQueue(): the input is registered as pending before the filters get it.
DoQueue ==
  /\ Runs("queue")
  /\ LET w == Head(mWorkQueue) IN
       /\ mPendingInputs' = WithPendingInput(w)
       /\ input' = Append(input, w)
       /\ mPendingWorkQueue' = mPendingWorkQueue \cup {w}
  /\ mWorkQueue' = Tail(mWorkQueue) /\ tasks' = Tail(tasks)
  /\ UNCHANGED <<slots, queued, kind, lastData, loaned, mMaxInputCount, mMinOutputDelay, held,
                 nCnt, drained, mHasSavedEOS, mIsAfterEOS, answers, flushes>>

\* getExynosBuffer() fails: the work goes back as it is.
DoQueueRefused ==
  /\ Runs("queue")
  /\ LET w == Head(mWorkQueue) IN
       /\ loaned' = loaned \ {w} /\ kind' = [kind EXCEPT ![w] = "refused"]
       /\ lastData' = IF WithEOS(w) THEN w ELSE lastData
  /\ mWorkQueue' = Tail(mWorkQueue) /\ tasks' = Tail(tasks)
  /\ UNCHANGED <<slots, queued, mPendingWorkQueue, mPendingInputs, mMaxInputCount, mMinOutputDelay,
                 input, held, nCnt, drained, mHasSavedEOS, mIsAfterEOS, answers, flushes>>

\* The EOS flag of an answer: with a B picture it is kept for a later one,
\* because pictures are shown in another order than they are decoded.
FlagEOS(w) == (WithEOS(w) \/ mHasSavedEOS) /\ kind[w] # "B"

\* sendC2Work() posts another release.
Sent(delay) == Append(Tail(tasks), Task("release", delay))

\* updateC2Config_OutputDelay(), asked for until the count is known.
OutputDelay == nCnt

\* doFilterWorkDone(): onWorkDone(), onUpdateC2Work() and sendC2Work(), the
\* latter also for a work that comes after EOS.
DoFilterWorkDone ==
  /\ Runs("done")
  /\ LET w == Head(tasks).arg IN
       IF w \in mPendingWorkQueue
       THEN /\ mPendingWorkQueue' = mPendingWorkQueue \ {w}
            /\ mPendingInputs' = WithoutPendingInput(w)
            /\ loaned' = loaned \ {w}
            /\ IF mIsAfterEOS
               THEN /\ answers' = Append(answers, "bad")
                    /\ UNCHANGED <<slots, mHasSavedEOS, mIsAfterEOS, mMinOutputDelay>>
               ELSE /\ answers' = Append(answers, IF FlagEOS(w) THEN "eos" ELSE kind[w])
                    /\ mIsAfterEOS' = FlagEOS(w)
                    /\ mHasSavedEOS' = (~FlagEOS(w) /\ (WithEOS(w) \/ mHasSavedEOS))
                    /\ mMinOutputDelay' = OutputDelay
            /\ tasks' = Sent(mMinOutputDelay')
       ELSE /\ tasks' = Tail(tasks)
            /\ UNCHANGED <<slots, loaned, mPendingWorkQueue, mPendingInputs, mHasSavedEOS,
                           mIsAfterEOS, mMinOutputDelay, answers>>
  /\ UNCHANGED <<slots, queued, kind, lastData, mWorkQueue, mMaxInputCount, input, held, nCnt,
                 drained, flushes>>

\* What clearPendingInputs(count) takes: the first inputs that are consumed.
Clearable(count) ==
  LET done == SelectSeq(mPendingInputs, LAMBDA e : e.consumed)
  IN  {done[k].work : k \in {n \in DOMAIN done : n <= count}}

\* The works the decoder needs: the extra buffers of its count are not works.
Limit(delay) == IF delay < Extra THEN delay ELSE delay - Extra

\* More pending inputs than Smoothness: the client has more buffers than that.
ExpectedMax ==
  IF mMaxInputCount = Smoothness /\ Smoothness < Len(mPendingInputs)
  THEN 2 * Smoothness ELSE mMaxInputCount

\* releasePendingInputs(): works that may come, less those that will come.
ReleaseCount(delay) ==
  LET permitted == Limit(delay) + Smoothness - Len(mWorkQueue) - Cardinality(mPendingWorkQueue)
      expected  == ExpectedMax - Len(mPendingInputs)
  IN  permitted - expected

ReleasePendingInputs ==
  /\ Runs("release")
  /\ LET freed == Clearable(ReleaseCount(Head(tasks).arg)) IN
       /\ loaned' = loaned \ freed
       /\ mPendingInputs' = SelectSeq(mPendingInputs, LAMBDA e : e.work \notin freed)
  /\ mMaxInputCount' = ExpectedMax
  /\ tasks' = Tail(tasks)
  /\ UNCHANGED <<slots, queued, kind, lastData, mWorkQueue, mPendingWorkQueue, mMinOutputDelay,
                 input, held, nCnt, drained, mHasSavedEOS, mIsAfterEOS, answers, flushes>>

\* doFlush(): the filters drop what they have.
DoFlush ==
  /\ Runs("flush")
  /\ tasks' = Tail(tasks)
  /\ input' = <<>> /\ held' = <<>> /\ drained' = FALSE
  /\ mHasSavedEOS' = FALSE /\ mIsAfterEOS' = FALSE
  /\ UNCHANGED <<slots, queued, kind, lastData, loaned, mWorkQueue, mPendingWorkQueue,
                 mPendingInputs, mMaxInputCount, mMinOutputDelay, nCnt, answers, flushes>>

----------------------------------------------------------------------------
(* The codec's threads. *)

CanConsume == input # <<>> /\ Len(held) <= Depth
CanShow == held # <<>> /\ (Len(held) > Depth \/ drained)

\* What relfunc posts.
Notified_Nothing == tasks
Notified == Append(tasks, Task("release", nCnt))

\* inputDequeue(): the destroy notification of the buffer marks the input as
\* consumed and posts a release with the codec's count of buffers.
Consume ==
  /\ CanConsume
  /\ LET w == Head(input) IN
       /\ mPendingInputs' = WithConsumed(w)
       /\ held' = Append(held, w)
       /\ drained' = (drained \/ WithEOS(w))
  /\ tasks' = Notified
  /\ input' = Tail(input) /\ nCnt' = Cnt
  /\ UNCHANGED <<slots, queued, kind, lastData, loaned, mWorkQueue, mPendingWorkQueue,
                 mMaxInputCount, mMinOutputDelay, mHasSavedEOS, mIsAfterEOS, answers, flushes>>

\* The decoder shows a B picture in its turn, another one when the next that is
\* no B picture has come.
Due(w) ==
  LET later == {v \in ToSet(held) : kind[v] # "B" /\ v > w}
  IN  IF kind[w] = "B" THEN w ELSE IF later = {} THEN NumWorks + 1 ELSE Min(later)
ShownFirst == CHOOSE w \in ToSet(held) : \A v \in ToSet(held) : Due(w) <= Due(v)

Show ==
  /\ CanShow
  /\ held' = SelectSeq(held, LAMBDA w : w # ShownFirst)
  /\ tasks' = Append(tasks, Task("done", ShownFirst))
  /\ UNCHANGED <<slots, queued, kind, lastData, loaned, mWorkQueue, mPendingWorkQueue,
                 mPendingInputs, mMaxInputCount, mMinOutputDelay, input, nCnt, drained,
                 mHasSavedEOS, mIsAfterEOS, answers, flushes>>

Next == \/ Queue \/ Flush
        \/ DoQueue \/ DoQueueRefused \/ DoFilterWorkDone \/ ReleasePendingInputs \/ DoFlush
        \/ Consume \/ Show

Spec == Init /\ [][Next]_flowVars

----------------------------------------------------------------------------
(* Properties. *)

\* The type invariant.
TypeOK ==
  /\ slots \in SlotCounts /\ queued \in 0..NumWorks /\ lastData \in 0..NumWorks
  /\ kind \in [Works -> {"P", "B", "eos", "refused"}]
  /\ loaned \subseteq Works /\ mPendingWorkQueue \subseteq Works
  /\ mWorkQueue \in Seq(Works) /\ input \in Seq(Works) /\ held \in Seq(Works)
  /\ mPendingInputs \in Seq([work : Works, consumed : BOOLEAN])
  /\ mMaxInputCount \in {Smoothness, 2 * Smoothness} /\ mMinOutputDelay \in {DefaultDelay, Cnt}
  /\ tasks \in Seq([op : {"queue", "done", "release", "flush"}, arg : Nat]) /\ nCnt \in {0, Cnt}
  /\ {drained, mHasSavedEOS, mIsAfterEOS} \subseteq BOOLEAN
  /\ answers \in Seq({"P", "B", "eos", "bad"}) /\ flushes \in 0..MaxFlushes

Quiet == tasks = <<>> /\ ~CanConsume /\ ~CanShow

\* When nothing moves any more, the client has an input buffer to go on with:
\* the decoder never waits for an input that the component keeps the client
\* from queueing (releasePendingInputs(), also after a bufferless EOS made it
\* expect more buffers than the client has).
NeverStalls == Quiet /\ ~EosQueued => HasSlot

\* An input the codec has not consumed keeps its buffer; those that lost it
\* ahead of their work are no more than the decoder can need.
ReleasedInBounds ==
  /\ \A w \in mPendingWorkQueue : w \in ToSet(input) /\ kind[w] # "eos" => w \in loaned
  /\ LET bound == IF Limit(DefaultDelay) < Limit(Cnt) THEN Limit(Cnt) ELSE Limit(DefaultDelay)
     IN  Cardinality({w \in mPendingWorkQueue : w \notin loaned /\ kind[w] # "eos"}) <= bound

\* EOS is given once, with the last of the answers, whatever the order of the
\* pictures is (onUpdateC2Work()).  It is never given when the picture shown
\* last is a B picture: the flag is kept for a picture that does not come.
EosIsLast ==
  /\ \A k \in DOMAIN answers : answers[k] # "bad" /\ (answers[k] = "eos" => k = Len(answers))
  /\ Quiet /\ (\E w \in 1..queued : WithEOS(w) /\ kind[w] # "refused") =>
       answers # <<>> /\ Last(answers) \in {"eos", "B"}
=============================================================================
