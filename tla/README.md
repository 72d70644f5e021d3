# Verification of the Exynos codec2 components

TLA+ models of this repository's own logic, from the client's calls down to the
wrapper of the codec driver; their model checking with TLC and proofs with TLAPS.
Names in the modules are the names of the source (`mTasks`, `mCurSession`,
`mPendingFlushCount`, ...). Line references are to `src/`.

## The system

| component | state | operations | interacts with |
|---|---|---|---|
| `ExynosThreadPool` (osal) | list of task packages, `mExit`, current and next session, one thread | post, toss (to the next, the current or a given session), flush, stop, incNextSession, incCurSession, clearSession | owned by every component, filter and codec; packages are shared with their caller and call `notify` when the last reference dies |
| `ExynosC2Component` | `ComponentState`, `mWorkQueue`, `mPendingWorkQueue`, `mPendingFlushCount`, listener | setListener_vb, queue_nb, flush_sm, drain_nb, start, stop, reset, release | client threads above; its pool's thread; the filter chain below, which answers on threads of its own |
| `ExynosC2DecComponent` | pending inputs, custom ordinals, saved EOS | onQueue, onUpdateC2Work, releasePendingInputs | overrides hooks of the component; destroy notifications of input buffers arrive from codec threads |
| `ExynosC2EncComponent` | replica input buffers, format of the inputs | onQueue, onUpdateC2Work, onSetup | same |
| `ExynosC2Ordinal`, `ExynosTimestampPool` | base and latest frame index, list of timestamps | addTimestamp, adjustFrameIndex, getOrdinal, getTimestamp, calibrate, clear | used by the decoder component on the pool's thread |
| Interfaces, `ExynosC2FilterParamCnv`, `ExynosC2IntfSetter` | the settings, the table of conversions, piled filter parameters | config_vb, query_vb, setters, cnv* | client threads and the component's thread, under the interface's lock |
| Filters, `ExynosC2FilterManager` | work list, pending parameters, force-exit flag, per filter a pool | queueWork, start, stop, flush, reset, release, doProcess | a chain; each hands its result to the next by a callback |
| CSC, film grain, HDR to SDR, HDR10+ statistics, control filter | what each was told last, libraries | doProcess, applyConfig | tell each other by parameters that go with a frame |
| Codec filters | allocation state, reconfiguration state | decoder and encoder processing | `ExynosVideoCodec` |
| `ExynosVideoCodec` | inputs by tag, ports, enqueue and dequeue threads, parameters | enqueue, dequeue, flush, stop, setup, change of resolution | V4L2 API library |
| `libExynosVideoApi` | a context with its shared memories, slots per pad, controls | Init, Finalize, Setup, Run, Stop, Enqueue, Dequeue, Set_* | MFC driver |
| Buffer manager, allocator | buffers by pointer, duplicated descriptors with counts | swapSharedPtrToPtr, swapPtrToSharedPtr, eraseSharedPtr, delayReturn | codec and filters |
| `ExynosC2ComponentRM`, store | use counts of three resources, table of factories | getResource, createComponent | components |

What is hard here: client calls block on tasks of a pool whose thread takes the
same queue locks; tasks can be discarded while someone waits for them or counts
them; works move between two queues with two locks; the filter chain answers late,
or after a flush; five threads hand inputs and buffers to one another while a
flush or a change of resolution discards what they hold; settings pass from one
keeper to the next and each tells only changes; any ioctl may be refused between
two that are not. `PROJECT.json` lists these hazards at their lines.

What makes each component correct:

* pool: an accepted task runs once, in the order of its session, or is cancelled
  once; nobody waits for a result that cannot come;
* component: a work is in one place and comes back once; flush and stop leave none
  behind; the count of flushes matches the flushes; every call returns;
* ordinals: they grow with the order of display, and a frame carries a timestamp
  that was queued and not shown before;
* input flow: inputs are released early enough for the client to go on and not
  before the codec has read them; EOS comes once, last;
* interfaces: settings agree with each other, and the filters have been told what
  the interface says;
* filters: a work that enters comes out once or is flushed; a filter handles the
  newest version of a frame with the newest settings; a flush never waits for a
  buffer that only its caller can give;
* codec: an output is paired with the input of its tag; what a client asked for
  outlives a change of resolution; buffers are allocated by the geometry of the
  stream; the client knows what the stream says of a frame;
* API library and buffers: slots agree with the driver's queue, counts with the
  driver's references, a descriptor with one memory; a context gives back what it
  took, whatever fails.

## Modules

| module | models | instance, run |
|---|---|---|
| `TaskContract` | what a pool promises about a task (abstract) | `MCThreadPool` |
| `ThreadPool` | `osal/ExynosThreadPool.h`; theorems in `ThreadPoolProofs` | `MCThreadPool` |
| `WorkContract` | what a component promises its client about a work (abstract) | `MCComponent` |
| `Component` | `c2component/Exynos_C2_Component.cpp` over a pool that keeps its contract; theorems in `ComponentProofs` | `MCComponent` |
| `Ordinal` | `Exynos_C2_Ordinal.h`, `ExynosTimestampPool.h` and their use by the decoder | `MCOrdinal` |
| `InputFlow` | `InputBufferFlowControl` and the end of the stream in `Exynos_C2_DecComponent.cpp` | `MCOrdinal` |
| `Settings` | the way of a setting from the client to the filters: `config_vb`, `onApplyConfig`, `queueFilterWork`, `getExynosBuffer` | `MCCodecApi` |
| `CommonSettings`, `EncSettings`, `DecSettings` | setters, conversions and dependencies of the HEVC encoder's and decoder's interfaces | through `Settings` |
| `CodecFilter` | a decoder's codec filter and the `ExynosVideoCodec` under it, with their threads; theorems in `CodecFilterProofs` | `MCFilters`, `MCCodecFilter` |
| `FilterChain` | `filter/Exynos_Filter.cpp`: a chain of filters that share works, buffers and settings; theorems in `FiltersProofs`, on `FilterChainLemmas` | `MCFilters` |
| `PostFilters` | control filter, CSC, film grain, HDR to SDR, HDR10+ statistics; theorems in `FiltersProofs` | `MCFilters` |
| `EncConfig` | `ExynosVideoCodecEnc.cpp`: parameters, metadata and changes of the input; theorems in `EncConfigProofs` | `MCCodecConfig` |
| `RgbAspects` | color aspects of RGB inputs (`ExynosVideoCodecEnc.cpp:1562` on) | `MCCodecConfig` |
| `HdrInfo` | color and HDR information of a decoded stream, from the driver to the client | `MCCodecConfig` |
| `CodecSlots` | the slots of the four kinds of pads; theorems in `CodecApiProofs` | `MCCodecApi` |
| `CodecDevice` | resources of a context: Init, its error path, Finalize, shared memories | `MCCodecApi` |
| `EncParams` | the controls of an encoder, the quantization range | `MCCodecApi` |
| `DecSetup` | setup of a decoder, its geometry, changes of resolution | `MCCodecApi` |
| `BufferManager` | the manager of output buffers and `RefDPBManager` | `MCCodecApi` |

Most `MC` modules are unions: `part` says which module a behaviour is one of, and the
variables of the others rest in one initial state. The parts are checked in
one run because they are parts of one layer; they do not interact in the
instance. `Component` relies on what `ThreadPool` proves, `CodecFilter`, `FilterChain`
and `PostFilters` cut the filters by question: threads, works, pictures.

### ThreadPool

One action per critical section. A post is `Post` (session read, package made),
`PushAccept` or `PushRefuse` (under the list's mutexes) and `Return` (the caller's
reference dies). `holders[t]` is the set of owners of the shared package; `Release`
is the deleter with its `notify`. `flush()` holds both mutexes and is one step;
`stop()` is three (`mExit`, join, final discard). The worker is the constructor's
lambda: `WorkerLoop` reads `mExit` without a lock; the search of a pool with sessions
holds the lock of the list, but not that of the session numbers, which `getCur()`
reads again for each package: `WorkerSearch` begins it, `WorkerSkip` passes one
package over, `WorkerTake` takes one of the session that is current by then,
`WorkerSpin` is the yield when there is none. Other threads change and clear the
sessions between these steps (they cannot push), so the worker may pass an
elder package over and take a younger one of its session: `disturbed` is the
history of the packages taken by a search during which the session changed.
`FifoWithinSession` excepts those and no others; `StrictFifo` excepts
none and is true of the pools without sessions, which are all but the component's:
that is proved, not run.
`WorkerRun`, `WorkerUnwind` are the call and the end of the package's scope;
`WorkerSelfStop` is a task whose last reference destroys the owner on the worker
itself. `TaskContract` knows only `closed` and the outcome of each task;
`ImplementsContract` maps the pool to it.

### Component

A call is a walk through program points (`call[c]`); the state lock and the two
queue locks are variables, so that blocking is visible. `mWorkQueue` and
`mPendingWorkQueue` hold works in the order of acceptance; `tasks` is the list of
the pool with kind, argument and session; `worker` is the pool's thread inside a
task. `DoQueueSend` and `DoQueueRegister` are the two halves of
`queueFilterWork()`, between which the work is only in `hand`. The filter chain is
a set of works that it may answer (`FilterWorkDone`, then `FilterToss`, because
`tossToCurSession()` reads the session before it pushes); a flush waits for an
answer that is on its way, as `ExynosFilterBase::flush()` does with doFlushDone; a
stop does not. It may answer in any order, which covers every codec. The pool's
search for a task is one step here: that a task may overtake another of its
session while the session changes is in `ThreadPool` only.

A drain is a work too: the element of `drain_nb()` has an empty C2Work of its own
(`Exynos_C2_Component.h:65`). A decoder refuses it (`DoQueueReject`), an encoder
sends a replica buffer to the filters, and its answer ends the session
(`AnswerWork`). Both are possible in the model.

`overtaken` is a history variable for two races of the code: a batch of
`doQueue()` rounds tests the flush count only once, so its later rounds send a
newly queued work to the filters ahead of the doFlush() that empties them; and
`reset()` and `release()` let go of the state lock between `stop()` and their own
work, so another client's `start()` and `queue_nb()` fit in between. Such a work
stays in the pending queue until the next flush or stop. The properties
name it as their exception instead of hiding it.

### Ordinal and InputFlow

Timestamps are small numbers; display indices come with I-frames that restart
them. `EraseBelow` is the erasing loop of `calibrateTimestamp()` with its iterator:
the element behind an erased one is skipped. `conforming` is a history variable:
the inputs so far are as a decoder of a conforming stream would give them; the
order properties are about such streams.

`InputFlow` has the client with its few input buffers, the two queues, the
pending inputs that have a tag, the decoder that consumes inputs on a thread of its
own and holds pictures back, and the answers. `releasePendingInputs()` runs where
the code runs it. Its `Flush` is one step, although the code gives the inputs back and
clears the queues by parts. `NeverStalls` says of a state in which nothing moves that the
client has a buffer to go on with. A client that queues an EOS without a buffer
makes the component expect more buffers than there are; the count then stays.
The property holds for decoders that hold fewer inputs than the count allows
(`Depth`, here 2, against `Limit(Cnt)`); one that held exactly as many would stall,
and the code has nothing to prevent it but the margins `SMOOTHNESS_FACTOR` and
`EXTRA_DPB`, which are CONSTANTS of the module.

### Settings

`intf` is the interface. `Settle` applies the setters in the order of their
dependencies, as the helper of codec2 does. `Says` maps each registered setting to
the filter parameters its conversion gives; `Dependents` is built from the order
of registration as `addFilterParamSetter()` builds it, one level deep, with the
dependencies that were not registered in time dropped. A client's `config_vb` is
two steps (`ClientSet`, `ClientKeep`), because it lets go of the interface between
`config` and the conversion; a frame is `onQueue` (for an encoder with
`getExynosBuffer`), `getPiledFilterParams`, `ApplyConfig`, `queueFilterWork`. `told`
is what the filters heard last.

`FiltersTold` compares `told` with the interface when nothing is on its way. What
the code misses is not hidden but listed: `Late(s)` names for each setting the
parameters of which the filters are not told in time, and a parameter is `excused`
only when it changed through such a gap, was refused with its frame, was lost
with a flush, or was overtaken by an older value. `AlwaysSettled` says that the
settings agree (levels, layers, ranges, profiles, reorder keys, compressed color)
and that setting them again changes nothing. `RequestsReachFilters` is about sync frames, IDR
restarts after an empty input and the format of the first input.

### CodecFilter, FilterChain, PostFilters

`CodecFilter` has the five pools of a decoder's filter and its codec as queues of
tasks with a program point each: the filter's, the allocator's, the enqueue
thread, and the two dequeue threads, which wait for the driver and can be stopped
while they do. A flush is the sequence of doPortFlush, doPortStop, STREAMOFF and the
clearing of each thread, in the code's order; a change of resolution runs on the
output's dequeue thread. `FrameTag` is the tag modulo `MAX_TAG_NUM`.

In `FilterChain` a work is one record that the filters hand on: buffers with their
versions, `inputIndex`, the settings that go with it. `infos` are the filters'
records of works (`mWorkInfos`), from which outputs are put together
(`obtainWorkInfo`). Settings of a filter are shared by all filters of a work, merged
when two works' settings meet (`Merged`). The codec in the chain may give several
outputs for an input or none, and answers in an order of its own: the record of the
codec's filter is in the order of the answers to come, and `CodecReorders` lets neighbours
change places before they are answered, as often as it takes to any order. Each
takes along all it has but its number, which is the turn of its answer. A setting of
an input is therefore newer than another, behind the codec, when its input is
answered later, and `SettingsReach` is about that order: with reordering a filter
behind the codec may handle a frame with the setting of an input that was queued
earlier. A stream whose outputs are interleaved by input is not in the model.
`CodecFilter` is about how the codec answers.

In `PostFilters` one frame is on its way at a time: each filter is a FIFO with
state of its own, so the order in which filters see frames does not depend on how many are
under way. Formats are values (compressed, two planes in one descriptor or two, ten
bits). `plain`, `restarted` and `unsaid` are history variables for the three
exceptions that the properties name: a client that asked for a format in which
no grain is supported, a library that is gone after a stop, and a count that was
lost with a flushed frame.

### The codec and its library

`EncConfig` is one action per call of the enqueue thread; the driver refuses any of a
family of sets of controls during a call. `mEncParam` and the driver's state are
separate, and `RuntimeConfigSurvives` compares them. `RgbAspects` converts aspects in
place, repeatedly. `HdrInfo` has pad, codec, component and client, each with what it was
told last; `missed` is the set of what the code is known to lose.

`DecSetup` follows one geometry from the header through `mVideoInstInfo`,
`mBufferInfo` and the filter that allocates by it, with each of the calls in between
refusable. `CodecSlots` has one record per slot and the driver's side of the queue;
an enqueue is two steps because QBUF is called without the pad's mutex.
`CodecDevice` has the resources as a set and the sequence of acquisitions;
`BufferManager` has memories, descriptors that the driver knows by number, use
counts and the garbage collection.

`EncParams` fills the array of controls part by part as the code does (written by
literal index, counted apart) for each codec and set of features.

## Runs

| run | instance | shows |
|---|---|---|
| `thread_pool` | 2 packages, 2 callers, 2 sessions, fair | safety, the refinement of `TaskContract`; a package of the current session is served; `stop()` returns |
| `component` | 2 clients, 2 works, batches of 2, no drain, renaming symmetry | one place per work, exact flush count, no work forgotten, refinement of `WorkContract`; deadlock freedom |
| `component_drain` | 1 client, 2 works, 1 drain | with drains, nothing is left in a stopped component |
| `component_live` | 1 client, 1 work, 1 drain, fair | works come back and calls return, with the exceptions below |
| `component_stop` | 1 client, 1 work, 1 drain, fair | violation: `CallsReturn` |
| `ordinal` | 4 timestamps and inputs; flow: 5 works, 2 or 3 input buffers, 1 flush | growing ordinals, own timestamps, inputs that flow |
| `ordinal_stale` | 5 timestamps and inputs | violation: `StaleTimestampsRemoved` |
| `codec_filter` | codec: 3 inputs, 2 buffers, a flush, a change, a failure; chain: 3 filters; post: 3 streams, 4 clients, 3 sets of libraries, 3 frames, 2 losses; combined as told below | no input forgotten, every buffer awaited, newest versions and settings, grain, conversion and metadata; a flush leaves nothing and no late answer follows |
| `codec_filter_live` | 2 inputs, 1 buffer, 1 flush, 1 change, 1 failure, fair | a flush returns, every input is answered |
| `codec_filter_feed` | 2 inputs, 2 buffers | violation: `FlushLeavesDriverEmpty` |
| `codec_config` | 6 inputs, 2 encoders, 7 sets of refusals; 4 sizes; 3 streams, 2 values | settings hold, a change settles, nothing is stranded, colors agree |
| `codec_api` | slots: 2 slots, 3 buffers; device and parameters: all codecs, 11 sets of features; buffers: 3 memories, 2 descriptors; setup: 4 decoders, 5 headers, 7 sets of refusals; settings: 34 groups | the library, the buffers and the settings above it |

Why these bounds are enough:

* pool: two packages show one that overtakes, within a search too; two callers a
  push between a stop and its flush. The proofs cover every number, and the pools without sessions;
* component: a batch of two is the smallest with a round after a flush; two clients
  are needed for the gap in `reset()`; one drain for a session that is closed and
  another that is open;
* ordinals need two frames that are reordered and one more after an I-frame; the
  skipped element of the calibration needs two smaller timestamps in a row. Five
  works go beyond the default input count of the flow's constants, so that inputs
  are released ahead, and a flush falls between;
* filters: tags come round with `MaxTag` 2 and 3 inputs; `DPB` 2 lets a picture
  wait for a buffer while another is shown. The chain has a filter before and
  behind the codec in one of its placements; its bounds are two works with two
  outputs each and two works with one stop or flush, both with a failure, and three
  works, which the codec answers in any order; each with two settings. Three inputs of
  the codec meet a flush and a change of resolution, or a failure; two meet any two of
  the three. Pictures change their format twice in three
  frames, with one of a flush, a stop, a reset or a failure among them, or once with two;
* encoder: the inputs hold each kind of metadata and each group of parameters once,
  in two sizes and formats, and the encoder restarts between any two of them;
* buffers: three memories and two descriptors force one to be reused;
  `GARBAGE_CLEANUP_BASELINE` is 1 instead of 32, so that the collection runs; use
  counts go to 2; one plane; the library manages the references (`DPB` in the
  library), `dup2` may fail;
* setup: the newest hardware, the oldest, one between, and VC-1 whose type the
  header decides; sequences that differ in size, crop or depth, and two that are
  no geometry; two setups;
* settings: settings that settle one another are in one group and change together,
  twice per behaviour, by client or frame, with two frames and one flush. A
  setting outside the group cannot depend on one inside but through the setters,
  which always all run.

Every unbounded counter of the code has a named bound (`MaxSession`, `MaxWorks`,
`MaxBatch`, `MaxDrains`, `MaxTimestamp`, `MaxInputs`, `MaxOrdinal`, `MaxFlushes`,
`MaxChanges`, `MaxFails`, `MaxFrames`, `MaxLosses`, `MaxSetups`, `MaxUse`, `MaxRefs`).

Deadlock is checked in `thread_pool`, `component` and `codec_api`. It is not in
the drain runs, where the system does stop (first finding), and in the liveness
runs, which state what else may not stop. Nor in the ordinal runs, `codec_filter`
and `codec_config`, whose behaviours end when the bounded inputs, flushes and
failures are used up; there the properties of waiting say what must not stop
(`InputsFlow`, `EveryBufferAwaited`, `NothingStranded`).

Fairness:

* the worker thread of a pool and a call in progress continue (threads of the same
  process, no priorities in the code). Nobody is obliged to start a call;
* the filter chain under `Component` answers what it holds, the driver under
  `CodecFilter` decodes and shows what it can (hardware that works);
* a poll of the driver that times out is weakly fair, as each wait of the code has
  a timeout;
* `AllocOutBuffer` is strongly fair: the allocator is asked again and again and has
  a buffer each time the codec has given one back, but the condition comes and goes;
* `Consume` is the driver reading an input that gives no picture; it is not forced,
  as decoding (`Decode`, `Show`) is. `CodecFilter` has no client that keeps pictures: a
  buffer may be allocated again as soon as the codec has given it back, so
  `Answered` and `FlushReturns` are about clients that return theirs;
* in `codec_filter_live` `GivesUp` is FALSE: it is about decoding in display order from a
  buffer queue, where the retries of an allocation have no limit. The limit of the other
  modes (`Exynos_CodecDecBase_Filter.cpp:471-475`), after which the filter waits for the
  next frame to ask for buffers again, is left out of this run; `codec_filter` has it;
* the liveness runs have one client or none because `std::mutex` promises no fairness
  between two that contend.

Some properties are conjunctions of the properties of the parts of their run
(`InputsFlow`, `ControlsRight`, `ResourcesAgree`, `WorksKept`, ...); their definitions in
the `MC` modules name the conjuncts. Each property is broken by a plausible
mistake in the code, most conjuncts by one of their own: the definitions whose name has a
suffix (`Trigger_OneShort`) are such mistakes, named in `PROJECT.json`.

## Findings

1. `component_stop`: `stop()`, `reset()` and `release()` clear the pool's sessions
   without the lock under which `doFilterWorkDone()` ends a drain. If the end comes
   after the clear, the pool's current session is 1 while doStop is posted to
   session 0, and the call waits for ever with the state lock held
   (`Exynos_C2_Component.cpp:485-495` and `1342`). `flush_sm()` takes that lock and
   is safe. `component_live` has the same constants: a call that does not return in
   it has found a session ahead of the one that tasks are posted to, and such a
   session that nothing ends is the only way to hang.
2. `ordinal_stale`: the comment at `ExynosTimestampPool.h:74` says that timestamps
   smaller than the basis are removed; the loop skips the one behind each removed.
3. `codec_filter_feed`: the comment at `ExynosVideoCodec.cpp:1121` says that
   `inputEnqueue()` is not called while flushing because its caller is the same
   thread. The input's dequeue thread tosses a feed task of its own to that
   thread, which may lie behind doFlush() there, and an input of before the flush
   reaches the driver after it. `FlushLeavesNothing` names this as its exception.

## Observations

Met while modelling, on the code's side of a choice that a module documents, or
outside the modules. None has a run of its own.

Component and pool:

* `stop()` of a pool erases threads inside a range-for over them: undefined for two
  or more; every pool has one.
* Listener callbacks run with the lock of a work queue held: a client that calls
  back into the component from one waits for itself.
* An encoder's `onStart()` that fails its resource check keeps resources and filters.
* An answer without a tag is matched by the address of its C2Buffer, which a later
  work may reuse; tags restart with every start(), while stop() lets an answer of the
  filters on its way through (`NoLateAnswer` is about flushes).
* `bRequiredIDR` in `getExynosBuffer()` is static: every encoder of the process
  shares it.

Settings (the members of `Late` and the exceptions of `FiltersTold`):

* Encoder: a new stream size does not tell the level or the data space again, a
  pixel format not the actual format or profile, a data space neither its own
  parameter two levels down nor the format, color aspects not the format, a
  quantization not the QP range, layering not the P frame references; the vendor's
  bitrate mode and the ordinary one overwrite each other in the filter; a
  subscription is told at start only. Decoder: timestamps in order do not tell the
  decode order, coded aspects not the aspects, the usage not the compressed color.
* Parameters said only when set are never taken back (`Sticky`).
* A frame one of whose settings is refused tells nothing of any of them; if it was
  the first, the format is not told, and its IDR restart is lost.
* Values that the client piles up between `getPiledFilterParams()` and the conversion
  of the frame are told with the next frame, although they are older.
* Levels and profiles only rise. The level map gives 6.1 and 6.2 the same number.
  `ActualFormatSetter` maps RGBA_1010102 to P010 first and to P010M when it
  runs again; the format is left out of the values for that reason. The data space
  never reaches the CSC of a running encoder. `cnvBitrate` of the HEVC interface,
  which would tell the level, is not used.

Filters:

* Settings that come with codec-specific data can overtake pending ones, so that an
  elder setting comes after a newer. Settings given with inputs reach the filters behind
  the codec in the order of its answers: where a decoder reorders pictures, an elder
  input's setting replaces a newer one's. Inputs with several frames share one parameter object: both
  frames get the last frame's film grain. A flush drops pending settings.
* A filter that processed one buffer of a work and lets the next pass loses the
  output of the first and sets the index too low; a failing doProcess drops the
  work's record in that filter.
* The control filter's libraries are unloaded by stop and loaded by construction
  only: film grain and HDR to SDR by library are off after a stop until a reset.
  HDR to SDR is never disabled, not by a reset either. Its own filter is not counted
  among those that hold back frames, and a count lost with a flushed frame is not
  told again.
* The converter's format is sticky: P010M stays when the stream goes to 8 bits,
  NV12M when it goes to 10. Frames without film grain data get the last that
  came; a change of depth does not initialize the library again. HDR10+ statistics
  with empty parameters keep what was there.

Codec and library:

* HDR: dynamic metadata are not told again after a flush; the refresh is used up by
  the first frame with HDR that may lack a kind; a flush whose doPortStop was discarded
  by a change of resolution sets no refresh; changes of the matrix alone are
  never told; VP9 never tells colors.
* Setup of a decoder: an unknown VC-1 header keeps the handle of the driver; a setup
  tried again after TRY_AGAIN falls back to NV12M and loses a pixel format asked
  with an earlier input; a failed setup in `reconfigOutput` is ignored; a refused
  output setup is not tried again for the same geometry; a change to 10 bits with
  NV21 leaves the format 0; the fallback NV12M is no format of tiled-only
  hardware.
* With a driver that manages the references itself (`bDrvDPBManageSupport`) nothing
  reports them, and use counts only grow until a reset. `delayReturn()` takes no mutex but its caller's
  serialises it.
* A Skype parameter is read through the index of another (`ThumbnailMode`); the film
  grain library's initialisation is tested inverted.

## Proofs

`ThreadPoolProofs` proves, for any set of packages, any set of callers, any number of
sessions and both session modes: `TypeOK`, `QueueConsistent`, `NotifiedOnce`,
`FifoWithinSession`, `StoppedPoolIsEmpty` and the refinement of `TaskContract`; and
`StrictFifo` of the pools without sessions (`PlainPoolIsFifo`). The
only assumptions are those on the constants (`PoolAssumption`). None of the properties is inductive:
that the list is consistent needs to know which package each caller and the worker
have in hand; that `notify` runs once needs that `holders[t]` names exactly the
owners that exist (a caller between push and return, the list, the worker); FIFO
needs that the list is a subsequence of the history `accepted`, in its order, and that
a search in which the session has not changed has passed over no package of it;
an empty stopped pool needs that a package is pushed only while `mExit` is false
and that the exited worker implies `mExit`. `IndInv` is the conjunction of these
facts. Each conjunct has its lemma per group of actions; the temporal theorems
combine them.

`CodecApiProofs` proves, for any number of slots and references and any set of
buffers (`SlotsAssumption`): `TypeOK`, `SlotsMatchDriver` and
`CountsMatchReferences` of all four kinds of pads. The strengthening has three parts.
`Single`: a buffer is with the driver at most once and the slot on its way at most
once, without which a dequeue would free the slot of another frame. `Beyond`:
slots past the allocated ones are zero, without which a search that ends at the
count could miss one that is used. `Counts`: of a pad that counts, a queued slot
has a count, an unused one has none, a buffer is in one slot; elsewhere the counts
stay zero. Each action has a lemma; the dequeue of a counted pad, which releases
slots for every descriptor the driver reports, rests on `ReferencesAfter` and
`ReleasedSlot`, which say what one report does to the count of each buffer.

The module goes on with the other parts of the codec's interface, from
`ResourcesAssumption`. `DeviceSafe`: `DeviceInv` says that what a context holds is what
`Init` has acquired so far, by the context's own information, and that a ready
context has acquired all of it; with that no way out of `Init`, and no `Finalize`, leaks.
`BuffersSafe`: `BuffersInv` says that both maps count, for each memory, the
pictures the driver refers to, the one on its way to the driver and the
ones whose report is on its way back, and that each number the driver knows or
reports refers to its memory; `LessUsed` is what one report does to the maps and the
descriptors, whether or not its `dup2()` fails. `SetupSafe`: `DecSetupInv` says that a
configured filter has a codec with a sequence and, but for the depth of its
samples, the driver's format, whichever calls were refused. `ResourcesKept` puts
`SlotsInv` beside the three: it is the run's `ResourcesAgree`.

`ComponentProofs` proves, for any set of clients, any number of works and drains:
`TypeOK`, `HeldOnce`, `FlushCountMatches`, `NoWorkForgotten`, `ReleasedNeverRuns`, the
refinement of `WorkContract`, and `StoppedHoldsNothing` when the component has one
client. The assumptions are those on the constants: the bounds are naturals, and
`None` is no client, task or work (`NullAssumption`). `IndInv` is built up in this
order. `Locks` says who holds the three locks at each place of a call; the state lock
therefore admits one call at a time, which gives each call the state its predecessor left
(`States`) and at most one task with a caller that waits for it (`Posting`).
`Places` says that a work is in one of the two queues or in the hands of
`doQueue()`, exactly while its outcome is `held`. `Emptied` says that what
`flush_sm()` has emptied stays empty under its locks. `FlushCount` counts the flush
tasks of the pool, including the one that runs. `OnTheWay` is `NoWorkForgotten` outside
a flush or stop; it needs that a flush whose task waits finds only works that
overtook it (`Overtakes`). `StoppedHoldsNothing` has the hypothesis of one client
because it is false without: between the parts of `reset()` and `release()` that
hold the state lock a second client can start the component and queue a work. Its run
(`component_drain`) has one client too, and `Alone` proves it.

`CodecFilterProofs` proves, for any number of inputs and tags, any finite set of
output buffers, and any bounds on flushes, changes of resolution and failures
(`CodecFilterAssumption`): `TypeOK`, `EveryBufferAwaited`, `FlushLeavesNothing`,
`NoLateAnswer` and `NoInputForgotten`. Five threads post tasks to one another, so the
proof has three layers; `Inductive` is the conjunction of the facts named here.

* The pools: for each action, which ones it leaves alone and how many
  tasks of each name it adds and takes. The other layers seldom look into a pool.
* The control. `Tokens`: a flush, the enqueue of an output
  buffer and the stop of a port are each in one place (a task, a phase, or a result
  that nobody has read), which is why a thread that waits for a result gets its
  own. `PortsAgree` is what each point of a flush and of a change of resolution may
  assume of the ports; `Off` and `Once` say that a port that is off has no buffers
  and that no buffer is in the driver twice. With these `InAwaited` and `OutAwaited`,
  the halves of `EveryBufferAwaited`, are inductive: the tasks that wait for buffers
  are dropped only when the port has been emptied, and `mReconfigMutex` keeps the
  allocator from filling it meanwhile.
* The data. `Flushed` is what is empty when the codec's flush
  is over. It needs that a flush finds all inputs posted before it (`FlushLast`:
  no input is behind it in E's pool; `NoWork`: F gets none meanwhile), that E has taken
  them by the time A clears the pipe (`FlushFirst`), that the driver stays empty but
  for what was fed behind the flush (`FlushDrained`), and that a codec that was never
  set up has nothing to flush (`Unused`). `Gone` follows each input that a flush took:
  it is in no pool, list or map, and in the driver only if it was fed. A late answer
  would come from a task of F, so `NoLateAnswer` follows. `Found` follows an open
  input through the places where F and E find it, and `Tracked` the output buffers
  that carry its tag through a change of resolution; `lapped` is the only way to
  lose one.

`FiltersProofs` proves, for any streams of decoded or coded frames, any clients,
libraries, number of frames and losses (`FiltersAssumption`), what `WorksKept` says of
the filters behind the codec: `GrainApplied`, `HdrConverted`, `ToldEnough`,
`MetadataOwn` (`PostSafe`). These speak of the moment a frame reaches the component;
`PostInv` says what holds at each filter before it. `PostList`: the list of filters is
told with the first frame, so only a decoder's control filter is ever ignorant of the
others. `PostHdr`: from the control filter on a frame that is to be converted asks for
the one format the library takes. `PostGrain`: a picture with grain comes to
the grain filter in a format that filter supports, since what the client asks of the
converter can only be one of the plain formats. `PostTold`: the filters in use, which
may hold frames back, are counted, and the count is told or was lost with a frame.
`PostMeta`: an encoder's metadata filter holds none of an earlier frame.

The same module proves of `FilterChain`, for any number of filters, any place of the codec
and any bounds on works, outputs, settings, stops and failures, its types,
`WorksWhole`, `SettingsReach` and `FlushedIsGone` (`ChainSafe`). The invariant and the
lemmas about a filter's loop are in `FilterChainLemmas`. None of the three is
inductive, as each speaks of one work:

* `ChainWorks` says which buffers a work has where it waits and in a loop, and what was
  made of each: a filter finds the newest version also behind one that had nothing
  to do, whose buffers `pushBuffer()` left in another order. It needs that ahead of
  the codec a work has one buffer. A work of which a filter made one frame and let
  the last one pass (`spoiled`) is excepted, as in `WorksWhole`.
* `ChainCalls` says how far a flush, a stop or a synchronisation of the client has come.
  `ChainGone`: nothing of before it is in the filters it is through with, but the answers
  that a stop leaves in the codec's pool (`stray`).
* `ChainOrder`: no work overtakes another between the first filter and the component,
  through pools, loops, the codec's list of works and one that is answered in parts.
* `ChainSettings`: a setting that a filter has not applied is with a work that is
  on its way to it, with no work that needs it before that one, or the codec has it for
  its next output (`pending`). It is stated of a set of works with their places
  (`Agrees`, of `View`), and of the part of it before any input the codec may still answer
  sooner or later (`Cuts`), so that each step of the chain is one of a few that such a
  set can take: a work goes on, comes, is answered with what the codec held, is
  dropped, or changes its turn with its neighbour in the codec (`Turned`), which
  moves both their settings. It rests on `ChainOrder`, and on a filter keeping the setting of a work
  whose frames it is through with. It ends, as `SettingsReach` does, when a header
  overtakes a setting that waits (`behind`).

`FiltersTyped` and `FiltersKeepWorks` state `MCTypeOK` and `WorksKept` of the specification
that `codec_filter` checks: each behaviour takes the steps of one part, and the
invariants of all three parts hold beside each other.

`EncConfigProofs` proves, for any inputs, kinds of encoders and sets of refused controls
(`EncAssumption`: the inputs have their type, there is room for one): `TypeOK`,
`SettingsHold`, `ChangeSettles` and `NothingStranded`. The properties speak of a stream
that is on; the invariant holds between any two calls. `Kept`: `mEncParam` is what the
client asked for, whatever was refused. `Told`: the driver has it unless a
`Set_EncParam` was refused since. `Unmeasured`: who switched the dynamic frame rate off is
not measured. `StaticKnown` and `Dropping` do the same for the static information
and the drop of frames. Each part of a call has its lemma (what it keeps, what it
enables), which `SetupInv`, `SubmitInv` and `EnqueueChangeInv` put together in the order of
the code.

`QueueLemmas` has the facts about sequences that the proofs of the pool, the component and
the codec's filter share: what removing, appending and concatenating do to the set of
elements, to their positions and to their being distinct.

Model-checked only:

* liveness, of every module: fairness and `ENABLED` are beyond the prover;
* `Ordinal` and `InputFlow`: `EraseBelow` is recursive and the ordinals are sorted, which
  needs an induction over the list;
* the settings modules (`Settings`, `DecSettings`, `EncSettings`, `CommonSettings`,
  `HdrInfo`, `RgbAspects`): folds over tables and lists of parameters, whose results need an
  induction that the provers do not have;
* of `CodecFilter` only `FlushReturns` and `Answered` (liveness), and the violation of
  `FlushLeavesDriverEmpty`;
* `MCTypeOK` of `codec_api`, `codec_config` and `ordinal`, which say the types of these modules too.

## Not modelled

* The driver and the pixel libraries (V4L2, MFC firmware, ION, GPU, film grain, GDC
  hardware): external; they appear as nondeterministic answers.
* The interfaces of the standards other than HEVC: the same setters and conversions
  with other tables; their decoders and encoders below the interface are in
  `EncParams`, `EncConfig`, `DecSetup` and `CodecDevice`, which have all standards.
* `onStart()`'s resource check, `ExynosC2ComponentRM`, `ExynosC2ComponentStore`: use
  counts of a shared object and a table of factories.
* Restart of a component with piled settings; crop rectangles that are refused
  (`CropRectSetter` does not restore the value); the quality's complexity.
* The encoder's codec filter as threads: it has the structure of the decoder's,
  without allocation by geometry.
* GPU or CPU conversion of inputs (`Exynos_C2_EncComponent.cpp:388` on), the CSC and
  GDC libraries, the codec2 filter plugin: one buffer in, one out, no
  state that outlives the call.
* The allocator, locks, signals and queues of `osal`: they are the variables and
  guards of the modules that use them. Logging, dumps and performance hints.
* A failing lock of a weak reference (an owner being destroyed) other than the
  pool's self-stop.

What would come next: the other standards' interfaces as parameters of `Settings`,
`ComponentRM`, the encoder's codec filter.
