---------------------------- MODULE CodecFilter ----------------------------
(* A codec filter of a decoder and the ParallelProcessingVideoCodec under   *)
(* it.  Five threads, each a pool of one, hand the inputs and the output    *)
(* buffers to one another:                                                  *)
(*   "F"  the filter's own pool: takes works, runs flush, answers works;    *)
(*   "A"  mAllocThreadPool: allocates output buffers and runs codec flushes; *)
(*   "E"  mEnqueueThread: gives inputs and output buffers to the driver;    *)
(*   "I"  mInputDequeueThread and "O" mOutputDequeueThread: poll the driver *)
(*        and take back what it is done with.                               *)
(* The component calls queueWork() and flush() from its own pool.           *)
(* An input stands for the work that carries it.                            *)
EXTENDS Naturals, Sequences, FiniteSets, SequencesExt

CONSTANTS
  NumInputs,   \* works the component queues
  Bufs,        \* output buffers the allocator has
  DPB,         \* BufferInfo.nCnt: output buffers the decoder asks for
  MaxIn,       \* MAX_VIDEO_INPUT_BUFFER: inputs the driver holds at a time
  MaxTag,      \* MAX_TAG_NUM: tags are numbered modulo this
  GivesUp,     \* whether retries of an allocation are limited
  MaxFlushes, MaxChanges, MaxFails   \* bounds of the model

ASSUME CodecFilterAssumption ==
  /\ {NumInputs, DPB, MaxIn, MaxTag} \subseteq Nat \ {0}
  /\ {MaxFlushes, MaxChanges, MaxFails} \subseteq Nat
  /\ GivesUp \in BOOLEAN /\ IsFiniteSet(Bufs)

Threads == {"F", "A", "E", "I", "O"}
Ports   == {"In", "Out"}
Inputs  == 1..NumInputs
Tags    == 0..(MaxTag - 1)
None    == 0

VARIABLES
  client,      \* what the component does: "idle", or a step of flush()
  queued,      \* works queued so far: 1..queued
  answered,    \* inputs whose work was handed back
  flushed,     \* inputs a finished flush took
  pool,        \* the tasks waiting in each thread's pool
  phase,       \* what each thread is in the middle of
  result,      \* E's answer to the task A waits for
  portRet,     \* a dequeue thread's answer to the doPortStop E waits for
  left,        \* availCount of the doPipeInputEnqueue() E runs
  buf,         \* the output buffer A gives to E
  configured,  \* mIsConfigured
  mWorkInfos, mPipeInputs, mInputs, mOutputs, mTagNum,
  user,        \* the user event that wakes the pollers is set
  on,          \* mIsOn of each port
  src, srcDone, dst, held, dstDone,   \* what the driver has of each port
  changed,     \* the driver found a new resolution and waits for new buffers
  fed,         \* history: an input was given to the driver behind a flush
  lapped,      \* history: a tag was given out again while it was in use
  flushes, changes, fails

clientVars == <<client, queued, answered, flushed, flushes>>
threadVars == <<pool, phase, result, portRet, left, buf>>
codecVars  == <<configured, mWorkInfos, mPipeInputs, mInputs, mOutputs, mTagNum, user, fed, lapped>>
driverVars == <<on, src, srcDone, dst, held, dstDone, changed, changes, fails>>
vars == <<clientVars, threadVars, codecVars, driverVars>>

Task(op) == [op |-> op, in |-> None]
Work(op, i) == [op |-> op, in |-> i]
Pending(p, t, op) == Cardinality({k \in DOMAIN p[t] : p[t][k].op = op})

Init ==
  /\ client = "idle" /\ queued = 0 /\ answered = {} /\ flushed = {}
  /\ pool = [t \in Threads |-> <<>>] /\ phase = [t \in Threads |-> "idle"]
  /\ result = "none" /\ portRet = "none" /\ left = 0 /\ buf = {}
  /\ configured = FALSE /\ mWorkInfos = {} /\ mPipeInputs = <<>>
  /\ mInputs = [t \in Tags |-> None] /\ mOutputs = {} /\ mTagNum = 0
  /\ user = FALSE /\ on = [port \in Ports |-> FALSE]
  /\ src = <<>> /\ srcDone = <<>> /\ dst = {} /\ held = {} /\ dstDone = <<>>
  /\ changed = FALSE /\ fed = FALSE /\ lapped = FALSE
  /\ flushes = 0 /\ changes = 0 /\ fails = 0

\* A thread takes the first of its tasks, one with this name.
Next_(t, op) == phase[t] = "idle" /\ pool[t] # <<>> /\ Head(pool[t]).op = op
Taken(t) == [pool EXCEPT ![t] = Tail(@)]

\* getInBufCount() and getOutBufCount(): what the driver was given and nobody
\* took back.
InBufs  == Len(src) + Len(srcDone)
OutBufs == dst \cup {h.buf : h \in held} \cup {dstDone[k].buf : k \in DOMAIN dstDone}
FreeBufs == Bufs \ (OutBufs \cup mOutputs)

\* reqTaskCnt of onCheckNeedMoreBuffer(): mReqAllocCnt has one reference more
\* for each queued doFillOutBuffers.
NeedMore_AlsoRunning(p, outs) ==
  LET asked == Pending(p, "A", "fill") + (IF phase["A"] = "lock" THEN 1 ELSE 0)
  IN  IF DPB > outs + asked THEN DPB - outs - asked ELSE 0
NeedMore(p, outs) ==
  LET asked == Pending(p, "A", "fill") IN IF DPB > outs + asked THEN DPB - outs - asked ELSE 0

\* fillOutBuffers(num) on the pools p, where the driver has outs buffers.
Requested(p, num) == [p EXCEPT !["A"] = @ \o [k \in 1..num |-> Task("fill")]]
FillOutBuffers(p, outs) == IF configured THEN Requested(p, NeedMore(p, outs)) ELSE p

\* obtainWorkInfo(): the work of an input is taken out, when it is still there.
ObtainWorkInfo(i) == mWorkInfos' = mWorkInfos \ {i}

\* processDone(): the work of input i is answered on F, and output buffers are
\* asked for whether the work is still known or not.
ProcessDone(i, p, outs) ==
  /\ ObtainWorkInfo(i)
  /\ pool' = LET filled == FillOutBuffers(p, outs)
             IN  IF i \in mWorkInfos THEN [filled EXCEPT !["F"] = Append(@, Work("done", i))]
                 ELSE filled

\* portStop(): the stream stops and the driver gives everything back.
StopInput ==
  /\ on' = [on EXCEPT !["In"] = FALSE] /\ src' = <<>> /\ srcDone' = <<>>
  /\ mInputs' = [t \in Tags |-> None]
StopOutput ==
  /\ on' = [on EXCEPT !["Out"] = FALSE] /\ dst' = {} /\ held' = {} /\ dstDone' = <<>>
  /\ changed' = FALSE /\ mOutputs' = {}

----------------------------------------------------------------------------
(* The component, and the filter's pool. *)

QueueWork ==
  /\ client = "idle" /\ queued < NumInputs
  /\ queued' = queued + 1
  /\ pool' = [pool EXCEPT !["F"] = Append(@, Work("work", queued + 1))]
  /\ UNCHANGED <<client, answered, flushed, flushes, phase, result, portRet, left, buf,
                 codecVars, driverVars>>

\* flush(): the piled tasks are dropped, doFlush is posted and waited for.
Flush ==
  /\ client = "idle" /\ flushes < MaxFlushes
  /\ client' = "flushing" /\ flushes' = flushes + 1
  /\ pool' = [pool EXCEPT !["F"] = <<Task("flush")>>]
  /\ UNCHANGED <<queued, answered, flushed, phase, result, portRet, left, buf,
                 codecVars, driverVars>>

\* As stop() does it: nothing waits for the tasks behind doFlush.
FlushSync_None ==
  /\ client = "flushed"
  /\ client' = "synced"
  /\ UNCHANGED <<queued, answered, flushed, flushes, threadVars, codecVars, driverVars>>

\* A second task waits for the doWorkDone that were tossed meanwhile.
FlushSync ==
  /\ client = "flushed"
  /\ client' = "syncing"
  /\ pool' = [pool EXCEPT !["F"] = Append(@, Task("flushDone"))]
  /\ UNCHANGED <<queued, answered, flushed, flushes, phase, result, portRet, left, buf,
                 codecVars, driverVars>>

FlushEnd ==
  /\ client = "synced"
  /\ client' = "idle" /\ mWorkInfos' = {}
  /\ flushed' = flushed \cup ((1..queued) \ answered)
  /\ UNCHANGED <<queued, answered, flushes, threadVars, configured, mPipeInputs, mInputs,
                 mOutputs, mTagNum, user, fed, lapped, driverVars>>

\* setup() of the codec by the first input fails: the work is handed back.
SetupFails(i) ==
  /\ ~configured /\ fails < MaxFails /\ fails' = fails + 1
  /\ pool' = [Taken("F") EXCEPT !["F"] = Append(@, Work("done", i))]
  /\ UNCHANGED <<configured, mWorkInfos>>

\* doProcess(): the input goes to E, and output buffers are asked for.
DoProcess(i) ==
  /\ configured' = TRUE /\ mWorkInfos' = mWorkInfos \cup {i}
  /\ pool' = LET p == [Taken("F") EXCEPT !["E"] = Append(@, Work("in", i))]
             IN  Requested(p, NeedMore(p, Cardinality(OutBufs)))
  /\ UNCHANGED fails

DoQueueWork ==
  /\ Next_("F", "work")
  /\ LET i == Head(pool["F"]).in IN DoProcess(i) \/ SetupFails(i)
  /\ UNCHANGED <<clientVars, phase, result, portRet, left, buf, mPipeInputs, mInputs, mOutputs,
                 mTagNum, user, fed, lapped, on, src, srcDone, dst, held, dstDone, changed,
                 changes>>

DoWorkDone ==
  /\ Next_("F", "done")
  /\ answered' = answered \cup {Head(pool["F"]).in}
  /\ pool' = Taken("F")
  /\ UNCHANGED <<client, queued, flushed, flushes, phase, result, portRet, left, buf,
                 codecVars, driverVars>>

\* doFlush(): the requests for buffers are dropped, doFlushSync runs on A.
DoFlush ==
  /\ Next_("F", "flush")
  /\ pool' = [Taken("F") EXCEPT !["A"] = <<Task("flush")>>]
  /\ phase' = [phase EXCEPT !["F"] = "waiting"]
  /\ UNCHANGED <<clientVars, result, portRet, left, buf, codecVars, driverVars>>

DoFlushDone ==
  /\ Next_("F", "flushDone")
  /\ pool' = Taken("F") /\ client' = "synced"
  /\ UNCHANGED <<queued, answered, flushed, flushes, phase, result, portRet, left, buf,
                 codecVars, driverVars>>

----------------------------------------------------------------------------
(* A: output buffers, and the flush of the codec. *)

\* The request does not count any more from here on (reqTaskCnt.reset()).
TakeFill ==
  /\ Next_("A", "fill")
  /\ pool' = Taken("A") /\ phase' = [phase EXCEPT !["A"] = "lock"]
  /\ UNCHANGED <<clientVars, result, portRet, left, buf, codecVars, driverVars>>

\* mReconfigMutex is held by the output dequeue thread.
Reconfiguring == phase["O"] \in {"drop", "refill"}

\* allocOutBuffer() up to doOutputEnqueue, which A posts and waits for.
AllocOutBuffer ==
  /\ phase["A"] = "lock" /\ ~Reconfiguring
  /\ \E b \in FreeBufs : buf' = {b}
  /\ pool' = [pool EXCEPT !["E"] = Append(@, Task("out"))]
  /\ phase' = [phase EXCEPT !["A"] = "enqueue"]
  /\ UNCHANGED <<clientVars, result, portRet, left, codecVars, driverVars>>

\* The allocator has no buffer now: one request is put back if none waits, or
\* none when that was tried often enough.
AllocTryAgain ==
  /\ phase["A"] = "lock" /\ ~Reconfiguring
  /\ pool' \in {IF NeedMore(pool, Cardinality(OutBufs)) > 0 /\ Pending(pool, "A", "fill") = 0
                THEN Requested(pool, 1) ELSE pool}
               \cup (IF GivesUp THEN {pool} ELSE {})
  /\ phase' = [phase EXCEPT !["A"] = "idle"]
  /\ UNCHANGED <<clientVars, result, portRet, left, buf, codecVars, driverVars>>

\* outputEnqueue() after E's answer: a refused buffer still has the remaining
\* ones waited for.
OutputEnqueued ==
  /\ phase["A"] = "enqueue" /\ result # "none"
  /\ pool' = LET p == IF result = "ok" \/ OutBufs # {}
                      THEN [pool EXCEPT !["O"] = Append(@, Task("wait"))] ELSE pool
             IN  FillOutBuffers(p, Cardinality(OutBufs))
  /\ phase' = [phase EXCEPT !["A"] = "idle"] /\ result' = "none" /\ buf' = {}
  /\ UNCHANGED <<clientVars, portRet, left, codecVars, driverVars>>

\* The flush of the codec is over: F's doFlush returns to the component.
FlushReturned ==
  /\ phase' = [phase EXCEPT !["A"] = "idle", !["F"] = "idle"]
  /\ client' = "flushed"

CodecFlush ==
  /\ Next_("A", "flush")
  /\ IF configured
     THEN /\ pool' = [Taken("A") EXCEPT !["E"] = Append(@, Task("flush"))]
          /\ phase' = [phase EXCEPT !["A"] = "flush"]
          /\ UNCHANGED client
     ELSE pool' = Taken("A") /\ FlushReturned
  /\ UNCHANGED <<queued, answered, flushed, flushes, result, portRet, left, buf,
                 codecVars, driverVars>>

\* E's answer.  The pipe is cleared once E is not in doPipeInputEnqueue(), which
\* holds its lock; a flush that failed leaves everything as it is.
ClearPipeInputs ==
  /\ phase["A"] = "flush" /\ result # "none" /\ phase["E"] # "pipe"
  /\ IF result = "ok"
     THEN /\ mPipeInputs' = <<>>
          /\ phase' = [phase EXCEPT !["A"] = "clear"]
          /\ UNCHANGED client
     ELSE FlushReturned /\ UNCHANGED mPipeInputs
  /\ result' = "none"
  /\ UNCHANGED <<queued, answered, flushed, flushes, pool, portRet, left, buf, configured,
                 mWorkInfos, mInputs, mOutputs, mTagNum, user, fed, lapped, driverVars>>

ClearMaps ==
  /\ phase["A"] = "clear"
  /\ mInputs' = [t \in Tags |-> None] /\ mOutputs' = {}
  /\ FlushReturned
  /\ UNCHANGED <<queued, answered, flushed, flushes, pool, result, portRet, left, buf,
                 configured, mWorkInfos, mPipeInputs, mTagNum, user, fed, lapped, driverVars>>

----------------------------------------------------------------------------
(* E: what is given to the driver, and the codec's part of a flush. *)

\* The loop of doPipeInputEnqueue() ends when the driver or the pipe says so.
Piping == [phase EXCEPT !["E"] = IF left' > 0 /\ mPipeInputs' # <<>> THEN "pipe" ELSE "idle"]

\* doPipeInputEnqueue(), with an input or to feed piled ones.
DoPipeInputEnqueue ==
  /\ Next_("E", "in") \/ Next_("E", "feed")
  /\ LET task == Head(pool["E"]) IN
       mPipeInputs' = IF task.op = "in" THEN Append(mPipeInputs, task.in) ELSE mPipeInputs
  /\ left' = IF InBufs < MaxIn THEN MaxIn - InBufs ELSE 0
  /\ pool' = Taken("E") /\ phase' = Piping
  /\ UNCHANGED <<clientVars, result, portRet, buf, configured, mWorkInfos, mInputs, mOutputs,
                 mTagNum, user, fed, lapped, driverVars>>

\* The codec runs a flush whose doFlush is done on E.
BehindFlush == phase["A"] = "clear" \/ (phase["A"] = "flush" /\ result = "ok")

\* incFrameTag(), and the tag an accepted input is kept under.
NextTag_NoModulo == mTagNum + 1
NextTag == (mTagNum + 1) % MaxTag
FrameTag_AfterIncrement == NextTag
FrameTag == mTagNum

\* doInputEnqueue(): accepted, the input is kept under its tag, the stream is
\* turned on and I waits for it.
InputEnqueue ==
  /\ phase["E"] = "pipe"
  /\ LET i == Head(mPipeInputs) IN
       /\ src' = Append(src, [in |-> i, tag |-> mTagNum])
       /\ mInputs' = [mInputs EXCEPT ![FrameTag] = i]
  /\ mTagNum' = NextTag
  /\ mPipeInputs' = Tail(mPipeInputs) /\ left' = left - 1 /\ phase' = Piping
  /\ on' = [on EXCEPT !["In"] = TRUE]
  /\ pool' = [pool EXCEPT !["I"] = Append(@, Task("wait"))]
  /\ fed' = (fed \/ BehindFlush) /\ lapped' = (lapped \/ mInputs[FrameTag] # None)
  /\ UNCHANGED <<clientVars, result, portRet, buf, configured, mWorkInfos, mOutputs,
                 user, srcDone, dst, held, dstDone, changed, changes, fails>>

\* Refused, it is answered as corrupted at once.
InputRefused ==
  /\ phase["E"] = "pipe" /\ fails < MaxFails
  /\ fails' = fails + 1
  /\ ProcessDone(Head(mPipeInputs), pool, Cardinality(OutBufs))
  /\ mPipeInputs' = Tail(mPipeInputs) /\ left' = left - 1 /\ phase' = Piping
  /\ UNCHANGED <<clientVars, result, portRet, buf, configured, mInputs, mOutputs,
                 mTagNum, user, fed, lapped, on, src, srcDone, dst, held, dstDone, changed,
                 changes>>

DoOutputEnqueue ==
  /\ Next_("E", "out")
  /\ pool' = Taken("E")
  /\ \/ /\ dst' = dst \cup buf /\ mOutputs' = mOutputs \cup buf
        /\ on' = [on EXCEPT !["Out"] = TRUE]
        /\ result' = "ok" /\ UNCHANGED fails
     \/ /\ fails < MaxFails /\ fails' = fails + 1
        /\ result' = "failed" /\ UNCHANGED <<dst, mOutputs, on>>
  /\ UNCHANGED <<clientVars, phase, portRet, left, buf, configured, mWorkInfos, mPipeInputs,
                 mInputs, mTagNum, user, fed, lapped, src, srcDone, held, dstDone, changed,
                 changes>>

\* doFlush(): the pollers are woken, and each running stream is stopped by its
\* dequeue thread.
CodecDoFlush ==
  /\ Next_("E", "flush")
  /\ user' = TRUE
  /\ pool' = IF on["In"] THEN [Taken("E") EXCEPT !["I"] = Append(@, Task("stop"))] ELSE Taken("E")
  /\ phase' = [phase EXCEPT !["E"] = IF on["In"] THEN "stopIn" ELSE "stopped"]
  /\ UNCHANGED <<clientVars, result, portRet, left, buf, configured, mWorkInfos, mPipeInputs,
                 mInputs, mOutputs, mTagNum, fed, lapped, driverVars>>

\* The input port is stopped; is the output stream on?
CodecStopOutput ==
  /\ phase["E"] = "stopped" \/ (phase["E"] = "stopIn" /\ portRet = "ok")
  /\ pool' = IF on["Out"] THEN [pool EXCEPT !["O"] = Append(@, Task("stop"))] ELSE pool
  /\ phase' = [phase EXCEPT !["E"] = IF on["Out"] THEN "stopOut" ELSE "end"]
  /\ portRet' = "none"
  /\ UNCHANGED <<clientVars, result, left, buf, codecVars, driverVars>>

\* A doPortStop that was dropped is no failure when the stream is off: a change
\* of resolution stopped it.
StopTolerated_Never == FALSE
StopTolerated == ~on["Out"]

CodecOutputStopped ==
  /\ phase["E"] = "stopOut" /\ portRet # "none"
  /\ portRet' = "none"
  /\ IF portRet = "ok" \/ StopTolerated
     THEN phase' = [phase EXCEPT !["E"] = "end"] /\ UNCHANGED result
     ELSE phase' = [phase EXCEPT !["E"] = "idle"] /\ result' = "failed"
  /\ UNCHANGED <<clientVars, pool, left, buf, codecVars, driverVars>>

CodecFlushDone ==
  /\ phase["E"] = "end"
  /\ user' = FALSE
  /\ phase' = [phase EXCEPT !["E"] = "idle"] /\ result' = "ok"
  /\ UNCHANGED <<clientVars, pool, portRet, left, buf, configured, mWorkInfos, mPipeInputs,
                 mInputs, mOutputs, mTagNum, fed, lapped, driverVars>>

----------------------------------------------------------------------------
(* I and O: what is taken back from the driver. *)

\* A wait ends without a buffer when the stream is off or the user event is set.
NoBufferFor_NotWoken(t) == ~(IF t = "I" THEN on["In"] ELSE on["Out"])
NoBufferFor(t) == user \/ ~(IF t = "I" THEN on["In"] ELSE on["Out"])

WaitEndsEmpty ==
  /\ \E t \in {"I", "O"} : Next_(t, "wait") /\ NoBufferFor(t) /\ pool' = Taken(t)
  /\ UNCHANGED <<clientVars, phase, result, portRet, left, buf, codecVars, driverVars>>

\* inputDequeue(): an input without a picture is answered here, the others
\* with their picture.
InputDequeue ==
  /\ Next_("I", "wait") /\ ~user /\ on["In"] /\ srcDone # <<>>
  /\ LET done == Head(srcDone)
         kept == {t \in Tags : mInputs[t] = done.in}
     IN  IF done.used /\ kept # {}
         THEN /\ mInputs' = [t \in Tags |-> IF t \in kept THEN None ELSE mInputs[t]]
              /\ ProcessDone(done.in, Taken("I"), Cardinality(OutBufs))
         ELSE pool' = Taken("I") /\ UNCHANGED <<mInputs, mWorkInfos>>
  /\ srcDone' = Tail(srcDone)
  /\ phase' = [phase EXCEPT !["I"] = "feed"]
  /\ UNCHANGED <<clientVars, result, portRet, left, buf, configured, mPipeInputs, mOutputs,
                 mTagNum, user, fed, lapped, on, src, dst, held, dstDone, changed, changes, fails>>

\* use_count() of mInputFeedTaskCnt: doPipeInputEnqueue with an input that has
\* not begun.
InputsToCome == Pending(pool, "E", "in")

\* feedfunc(): piled inputs are fed when no other input will do so.
FeedCheck ==
  /\ phase["I"] = "feed"
  /\ phase' = [phase EXCEPT !["I"] = IF InBufs < MaxIn /\ InputsToCome = 0 THEN "peek" ELSE "idle"]
  /\ UNCHANGED <<clientVars, pool, result, portRet, left, buf, codecVars, driverVars>>

FeedPiled ==
  /\ phase["I"] = "peek" /\ phase["E"] # "pipe"
  /\ pool' = IF mPipeInputs = <<>> THEN pool ELSE [pool EXCEPT !["E"] = Append(@, Task("feed"))]
  /\ phase' = [phase EXCEPT !["I"] = "idle"]
  /\ UNCHANGED <<clientVars, result, portRet, left, buf, codecVars, driverVars>>

InputPortStop ==
  /\ Next_("I", "stop")
  /\ pool' = Taken("I") /\ portRet' = "ok" /\ StopInput
  /\ UNCHANGED <<clientVars, phase, result, left, buf, configured, mWorkInfos, mPipeInputs,
                 mOutputs, mTagNum, user, fed, lapped, dst, held, dstDone, changed, changes, fails>>

\* outputDequeue(): a picture goes out with the input of its tag; without such
\* an input the picture is lost.
OutputDequeue ==
  /\ Next_("O", "wait") /\ ~user /\ on["Out"] /\ dstDone # <<>> /\ ~Head(dstDone).change
  /\ LET done == Head(dstDone)
         i    == mInputs[done.tag]
     IN  /\ IF done.buf \in mOutputs /\ i # None
            THEN /\ mInputs' = [mInputs EXCEPT ![done.tag] = None]
                 /\ ProcessDone(i, Taken("O"), Cardinality(OutBufs \ {done.buf}))
            ELSE pool' = Taken("O") /\ UNCHANGED <<mInputs, mWorkInfos>>
         /\ mOutputs' = mOutputs \ {done.buf}
  /\ dstDone' = Tail(dstDone)
  /\ UNCHANGED <<clientVars, phase, result, portRet, left, buf, configured, mPipeInputs,
                 mTagNum, user, fed, lapped, on, src, srcDone, dst, held, changed, changes, fails>>

\* CHANGE_RESOLUTION: reconfigOutput() runs on this thread.
ResolutionChanged ==
  /\ Next_("O", "wait") /\ ~user /\ on["Out"] /\ dstDone # <<>> /\ Head(dstDone).change
  /\ pool' = Taken("O") /\ dstDone' = Tail(dstDone)
  /\ phase' = [phase EXCEPT !["O"] = "reconfigure"]
  /\ UNCHANGED <<clientVars, result, portRet, left, buf, codecVars, on, src, srcDone, dst, held,
                 changed, changes, fails>>

\* mReconfigMutex is free: A does not allocate or enqueue.
ReconfigLock_None == TRUE
ReconfigLock == phase["A"] # "enqueue"

ReconfigOutput ==
  /\ phase["O"] = "reconfigure" /\ ReconfigLock
  /\ StopOutput
  /\ phase' = [phase EXCEPT !["O"] = "drop"]
  /\ UNCHANGED <<clientVars, pool, result, portRet, left, buf, configured, mWorkInfos,
                 mPipeInputs, mInputs, mTagNum, user, fed, lapped, src, srcDone, changes, fails>>

\* The pool's tasks are dropped, a doPortStop among them fails for its poster.
ReconfigDropTasks ==
  /\ phase["O"] = "drop"
  /\ portRet' = IF Pending(pool, "O", "stop") > 0 THEN "failed" ELSE portRet
  /\ pool' = [pool EXCEPT !["O"] = <<>>]
  /\ phase' = [phase EXCEPT !["O"] = "refill"]
  /\ UNCHANGED <<clientVars, result, left, buf, codecVars, driverVars>>

ReconfigRefill ==
  /\ phase["O"] = "refill"
  /\ pool' = FillOutBuffers(pool, Cardinality(OutBufs))
  /\ phase' = [phase EXCEPT !["O"] = "idle"]
  /\ UNCHANGED <<clientVars, result, portRet, left, buf, codecVars, driverVars>>

OutputPortStop ==
  /\ Next_("O", "stop")
  /\ pool' = Taken("O") /\ portRet' = "ok" /\ StopOutput
  /\ UNCHANGED <<clientVars, phase, result, left, buf, configured, mWorkInfos, mPipeInputs,
                 mInputs, mTagNum, user, fed, lapped, src, srcDone, changes, fails>>

----------------------------------------------------------------------------
(* The driver: not part of the repository. *)

\* The next input is used up without a picture of its own.
Consume ==
  /\ on["In"] /\ ~changed /\ src # <<>>
  /\ srcDone' = Append(srcDone, [in |-> Head(src).in, used |-> TRUE]) /\ src' = Tail(src)
  /\ UNCHANGED <<clientVars, threadVars, codecVars, on, dst, held, dstDone, changed, changes,
                 fails>>

\* The next input is decoded into a buffer, which is held until it is its turn.
Decode ==
  /\ on["In"] /\ on["Out"] /\ ~changed /\ src # <<>>
  /\ \E b \in dst : dst' = dst \ {b} /\ held' = held \cup {[buf |-> b, tag |-> Head(src).tag]}
  /\ srcDone' = Append(srcDone, [in |-> Head(src).in, used |-> FALSE]) /\ src' = Tail(src)
  /\ UNCHANGED <<clientVars, threadVars, codecVars, on, dstDone, changed, changes, fails>>

Show ==
  /\ \E h \in held :
       /\ held' = held \ {h}
       /\ dstDone' = Append(dstDone, [buf |-> h.buf, tag |-> h.tag, change |-> FALSE])
  /\ UNCHANGED <<clientVars, threadVars, codecVars, on, src, srcDone, dst, changed, changes,
                 fails>>

\* The next input has another resolution: the event takes a buffer.
ChangeResolution ==
  /\ on["In"] /\ on["Out"] /\ ~changed /\ src # <<>> /\ held = {} /\ changes < MaxChanges
  /\ changed' = TRUE /\ changes' = changes + 1
  /\ \E b \in dst :
       /\ dst' = dst \ {b}
       /\ dstDone' = Append(dstDone, [buf |-> b, tag |-> 0, change |-> TRUE])
  /\ UNCHANGED <<clientVars, threadVars, codecVars, on, src, srcDone, held, fails>>

----------------------------------------------------------------------------
ClientReturns == FlushSync \/ FlushEnd
FSteps == DoQueueWork \/ DoWorkDone \/ DoFlush \/ DoFlushDone
ASteps == TakeFill \/ AllocOutBuffer \/ AllocTryAgain \/ OutputEnqueued
          \/ CodecFlush \/ ClearPipeInputs \/ ClearMaps
ESteps == DoPipeInputEnqueue \/ InputEnqueue \/ InputRefused
          \/ DoOutputEnqueue \/ CodecDoFlush \/ CodecStopOutput \/ CodecOutputStopped
          \/ CodecFlushDone
ISteps == InputDequeue \/ FeedCheck \/ FeedPiled \/ InputPortStop
OSteps == OutputDequeue \/ ResolutionChanged \/ ReconfigOutput \/ ReconfigDropTasks
          \/ ReconfigRefill \/ OutputPortStop

Next == \/ QueueWork \/ Flush \/ ClientReturns
        \/ FSteps \/ ASteps \/ ESteps \/ WaitEndsEmpty \/ ISteps \/ OSteps
        \/ Consume \/ Decode \/ Show \/ ChangeResolution

Spec == Init /\ [][Next]_vars

----------------------------------------------------------------------------
(* Properties. *)

Ops == {"work", "done", "flush", "flushDone", "fill", "in", "feed", "out", "wait", "stop"}

\* The type invariant.
TypeOK ==
  /\ client \in {"idle", "flushing", "flushed", "syncing", "synced"}
  /\ queued \in 0..NumInputs /\ answered \subseteq Inputs /\ flushed \subseteq Inputs
  /\ pool \in [Threads -> Seq([op : Ops, in : 0..NumInputs])]
  /\ phase \in [Threads -> {"idle", "waiting", "lock", "enqueue", "flush", "clear", "pipe",
                            "stopIn", "stopped", "stopOut", "end", "feed", "peek",
                            "reconfigure", "drop", "refill"}]
  /\ result \in {"none", "ok", "failed"} /\ portRet \in {"none", "ok", "failed"}
  /\ left \in 0..MaxIn /\ buf \in {{}} \cup {{b} : b \in Bufs}
  /\ mWorkInfos \subseteq Inputs /\ mPipeInputs \in Seq(Inputs)
  /\ mInputs \in [Tags -> 0..NumInputs] /\ mOutputs \subseteq Bufs /\ mTagNum \in Tags
  /\ on \in [Ports -> BOOLEAN]
  /\ configured \in BOOLEAN /\ user \in BOOLEAN /\ changed \in BOOLEAN
  /\ fed \in BOOLEAN /\ lapped \in BOOLEAN
  /\ src \in Seq([in : Inputs, tag : Tags]) /\ srcDone \in Seq([in : Inputs, used : BOOLEAN])
  /\ dst \subseteq Bufs /\ held \subseteq [buf : Bufs, tag : Tags]
  /\ dstDone \in Seq([buf : Bufs, tag : Tags, change : BOOLEAN])

Open == (1..queued) \ (answered \cup flushed)

\* Where an open input can be found: in a task, in the pipe, or under a tag
\* that the driver still has to give back.
TagsInDriver ==
  {src[k].tag : k \in DOMAIN src} \cup {h.tag : h \in held}
  \cup {dstDone[k].tag : k \in {n \in DOMAIN dstDone : ~dstDone[n].change}}
TaskFor(t, i) == \E k \in DOMAIN pool[t] : pool[t][k].in = i
OnItsWay(i) ==
  \/ TaskFor("F", i)
  \/ /\ i \in mWorkInfos
     /\ \/ TaskFor("E", i)
        \/ \E k \in DOMAIN mPipeInputs : mPipeInputs[k] = i
        \/ \E t \in Tags :
             /\ mInputs[t] = i
             /\ \/ t \in TagsInDriver
                \/ \E k \in DOMAIN srcDone : srcDone[k].in = i /\ srcDone[k].used

\* An input that was queued is always on its way to an answer, between all the
\* pools, maps and queues it passes (srcEnqueue(), inputDequeue(),
\* outputDequeue()).  The exception: the tags came round to one in use, which
\* takes MaxTag inputs behind one picture.
NoInputForgotten == (client = "idle" /\ ~lapped) => \A i \in Open : OnItsWay(i)

\* The decoder keeps its buffers coming: each buffer the driver has is waited
\* for by a task, also across the change of resolution that drops all tasks of
\* the output thread while A may be enqueueing a buffer (mReconfigMutex).  The
\* exceptions: the pollers are being woken by a flush, or the port is about to
\* be stopped.
EveryBufferAwaited ==
  ~user =>
    /\ InBufs <= Pending(pool, "I", "wait")
    /\ phase["O"] # "reconfigure" =>
         Cardinality(OutBufs) <=
           Pending(pool, "O", "wait") + (IF phase["A"] = "enqueue" /\ result = "ok" THEN 1 ELSE 0)

\* When flush() has returned, the pollers poll again and no input from before is
\* left in the codec or in the driver; the exception is an input that was fed
\* behind the flush, see FlushLeavesDriverEmpty.
FlushLeavesNothing ==
  client = "idle" =>
    /\ ~user
    /\ \A i \in flushed :
         /\ i \notin mWorkInfos /\ ~TaskFor("F", i) /\ ~TaskFor("E", i)
         /\ ~fed => /\ \A k \in DOMAIN mPipeInputs : mPipeInputs[k] # i
                    /\ \A k \in DOMAIN src : src[k].in # i
                    /\ \A k \in DOMAIN srcDone : srcDone[k].in # i
                    /\ \A t \in Tags : mInputs[t] # i

\* No work is answered after the flush that took it has returned: the component
\* has given it back by then (the doFlushDone task in ExynosFilterBase::flush()).
NoLateAnswer == [][\A i \in flushed : i \in answered' => i \in answered]_vars

\* inputEnqueue() "will not be called while flushing" (its comment): from the
\* end of doFlush() on E to the end of flush(), the driver gets no input.
FlushLeavesDriverEmpty == BehindFlush => InBufs = 0

----------------------------------------------------------------------------
(* Liveness: each thread runs what it has, the driver works on what it has,  *)
(* and the allocator, asked again and again, has a buffer in the end.        *)

FairSpec ==
  /\ Spec
  /\ WF_vars(ClientReturns) /\ WF_vars(FSteps) /\ WF_vars(ASteps) /\ WF_vars(ESteps)
  /\ WF_vars(ISteps \/ (Next_("I", "wait") /\ WaitEndsEmpty))
  /\ WF_vars(OSteps \/ (Next_("O", "wait") /\ WaitEndsEmpty))
  /\ WF_vars(Decode) /\ WF_vars(Show)
  /\ SF_vars(AllocOutBuffer)

\* flush() returns, whatever the five threads and a change of resolution do.
FlushReturns == client # "idle" ~> client = "idle"

\* Every work is answered or taken by a flush, but for the exception of
\* NoInputForgotten: output buffers are asked for again whenever one is back.
Answered == \A i \in Inputs : i \in Open ~> (i \notin Open \/ lapped)
=============================================================================
