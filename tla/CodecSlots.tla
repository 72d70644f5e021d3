----------------------------- MODULE CodecSlots -----------------------------
(***************************************************************************)
(* One pad of a codec context (libExynosVideoApi): the slots that remember *)
(* which client buffer went to which index of the driver's queue, the      *)
(* driver's side of that queue, and, for a decoder that manages its own    *)
(* reference pictures, the use counts that keep an index for a buffer as   *)
(* long as the driver refers to it.                                        *)
(*                                                                         *)
(* An enqueue is two steps: the slot is taken under the pad's mutex, the   *)
(* mutex is let go, and only then the QBUF ioctl runs; a dequeue on        *)
(* another thread can come between them.  Enqueues, stops and setups of a  *)
(* pad are serialised by the codec's enqueue thread.                       *)
(***************************************************************************)
EXTENDS Integers, FiniteSets

CONSTANTS
  Bufs,         \* buffers of the client, identified by planes[0]
  MaxSlots,     \* VIDEO_BUFFER_MAX_NUM
  MaxRefs,      \* bound: displays of one buffer the driver has not released
  NoBuf         \* a zeroed slot's buffer

\* Any number of slots and references, and a null that is not a buffer.
ASSUME SlotsAssumption == MaxSlots \in Nat /\ MaxRefs \in Nat /\ NoBuf \notin Bufs

VARIABLES
  pad,          \* which pad this is; fixed
  nBufNum, streamOn,      \* ExynosVideoPadInfo
  slot,         \* [SlotIds -> Slot]: ExynosVideoSlotInfo
  flight,       \* the slot of an enqueue between unlock and ioctl, or -1
  held,         \* driver: {<<index, buffer>>} queued in it
  refs,         \* driver: [Bufs -> Nat]: displays it has not released
  leaked,       \* history: slots left queued by a refused frame rate
  moved,        \* history: buffers whose slot was wiped while referenced
  handed        \* history: last dequeue: <<driver's buffer, client's buffer>>

slotVars == <<pad, nBufNum, streamOn, slot, flight, held, refs, leaked, moved, handed>>

Pads    == {"decSrc", "encSrc", "decDst", "drvDst", "encDst"}
SlotIds == 0..(MaxSlots - 1)
Slots   == 0..(nBufNum - 1)
Slot    == [buffer : Bufs \union {NoBuf}, bQueued : BOOLEAN,
            bSlotUsed : BOOLEAN, nUsedCnt : 0..(MaxRefs + 1)]

\* What memset leaves in a slot.
Zeroed == [buffer |-> NoBuf, bQueued |-> FALSE, bSlotUsed |-> FALSE, nUsedCnt |-> 0]

\* bDrvDPBManageSupport is not set: the counts are the library's job.
Counted == pad = "decDst"

Init ==
  /\ pad \in Pads
  /\ nBufNum = 0
  /\ streamOn = FALSE
  /\ slot = [i \in SlotIds |-> Zeroed]
  /\ flight = -1
  /\ held = {}
  /\ refs = [b \in Bufs |-> 0]
  /\ leaked = {}
  /\ moved = {}
  /\ handed = <<NoBuf, NoBuf>>

-----------------------------------------------------------------------------
(* Setup, run, stop.                                                       *)

\* What a REQBUFS or a STREAMOFF does to the driver and the memset to slots.
Forget ==
  /\ slot' = [i \in SlotIds |-> Zeroed]
  /\ held' = {}
  /\ refs' = [b \in Bufs |-> 0]
  /\ leaked' = {}
  /\ moved' = {}

\* Setup: a decoder refuses another count than the one it asked for, an
\* encoder takes what it gets.  srcSetup() and dstSetup() call it on a pad
\* that has nothing queued and is stopped.
Setup(n, got) ==
  /\ flight = -1 /\ ~streamOn
  /\ \A i \in SlotIds : ~slot[i].bQueued
  /\ got # n => pad \in {"encSrc", "encDst"}
  /\ nBufNum' = got
  /\ Forget
  /\ UNCHANGED <<pad, streamOn, flight, handed>>

Cleanup ==
  /\ flight = -1 /\ ~streamOn
  /\ nBufNum' = 0
  /\ Forget
  /\ UNCHANGED <<pad, streamOn, flight, handed>>

Run ==
  /\ ~streamOn /\ nBufNum > 0
  /\ streamOn' = TRUE
  /\ UNCHANGED <<pad, nBufNum, slot, flight, held, refs, leaked, moved, handed>>

\* Mutation: only the buffers are wiped, not the flags.
Stop_KeepFlags ==
  /\ flight = -1
  /\ streamOn' = FALSE
  /\ slot' = [i \in SlotIds |-> [slot[i] EXCEPT !.buffer = NoBuf]]
  /\ held' = {}
  /\ refs' = [b \in Bufs |-> 0]
  /\ leaked' = {}
  /\ moved' = {}
  /\ UNCHANGED <<pad, nBufNum, flight, handed>>

\* Stop: the slots are wiped without the pad's mutex, also when the stream
\* was off already.
Stop ==
  /\ flight = -1
  /\ streamOn' = FALSE
  /\ Forget
  /\ UNCHANGED <<pad, nBufNum, flight, handed>>

-----------------------------------------------------------------------------
(* Enqueue.                                                                *)

\* Find_Inbuf and Find_Outbuf: a slot that is not queued and has the buffer.
SameBuffer(b) == {i \in Slots : ~slot[i].bQueued /\ slot[i].buffer = b}

\* FindEmptySlot_Inbuf: a fresh slot, else any that is not queued.
EmptyInbuf ==
  LET fresh == {i \in Slots : ~slot[i].bQueued /\ ~slot[i].bSlotUsed}
  IN  IF fresh # {} THEN fresh ELSE {i \in Slots : ~slot[i].bQueued}

\* FindEmptySlot_Outbuf: an encoder does not look at bSlotUsed.
EmptyOutbuf ==
  {i \in Slots : ~slot[i].bQueued /\ (pad # "encDst" => ~slot[i].bSlotUsed)}

Candidates(b) ==
  IF pad \in {"decSrc", "encSrc", "decDst"} /\ SameBuffer(b) # {} THEN SameBuffer(b)
  ELSE IF pad \in {"decSrc", "encSrc"} THEN EmptyInbuf
  ELSE EmptyOutbuf

\* The slot of index i once buffer b was put into it.
Filled(i, b) ==
  [buffer |-> b, bQueued |-> TRUE,
   bSlotUsed |-> IF pad \in {"encDst", "drvDst"} THEN slot[i].bSlotUsed ELSE TRUE,
   nUsedCnt |-> IF Counted THEN slot[i].nUsedCnt + 1 ELSE slot[i].nUsedCnt]

\* The client owns every buffer that is not in the driver or on its way there.
Owned(b) == \A p \in held : p[2] # b

TakeSlot(b, i) ==
  /\ flight = -1
  /\ nBufNum > 0
  /\ Owned(b) /\ refs[b] < MaxRefs
  /\ i \in Candidates(b)
  /\ \A j \in Candidates(b) : i <= j
  /\ slot' = [slot EXCEPT ![i] = Filled(i, b)]

\* Enqueue_Inbuf and Enqueue_Outbuf up to the unlock of the pad's mutex.
EnqueueBegin(b, i) ==
  /\ TakeSlot(b, i)
  /\ flight' = i
  /\ UNCHANGED <<pad, nBufNum, streamOn, held, refs, leaked, moved, handed>>

\* Encoder: the driver refuses the frame rate computed from the timestamps;
\* the function returns with the slot taken.
EnqueueRateFails(b, i) ==
  /\ pad = "encSrc"
  /\ TakeSlot(b, i)
  /\ leaked' = leaked \union {i}
  /\ UNCHANGED <<pad, nBufNum, streamOn, flight, held, refs, moved, handed>>

EnqueueQbuf ==
  /\ flight # -1
  /\ held' = held \union {<<flight, slot[flight].buffer>>}
  /\ flight' = -1
  /\ UNCHANGED <<pad, nBufNum, streamOn, slot, refs, leaked, moved, handed>>

\* What the error path of an enqueue makes of the slot.
Undone(s) ==
  IF Counted
  THEN [buffer |-> NoBuf, bQueued |-> FALSE, nUsedCnt |-> s.nUsedCnt - 1,
        bSlotUsed |-> IF s.nUsedCnt = 1 THEN FALSE ELSE s.bSlotUsed]
  ELSE [s EXCEPT !.buffer = NoBuf, !.bQueued = FALSE]

\* QBUF fails: the buffer is wiped from the slot even when the driver still
\* refers to it from an earlier display.
EnqueueFails ==
  /\ flight # -1
  /\ slot' = [slot EXCEPT ![flight] = Undone(slot[flight])]
  /\ moved' = IF Counted /\ refs[slot[flight].buffer] > 0
              THEN moved \union {slot[flight].buffer} ELSE moved
  /\ flight' = -1
  /\ UNCHANGED <<pad, nBufNum, streamOn, held, refs, leaked, handed>>

-----------------------------------------------------------------------------
(* Dequeue.                                                                *)

\* MFC_Dequeue_Inbuf: the slot is looked up by the driver's index.
DequeueInbuf(p) ==
  /\ pad \in {"decSrc", "encSrc"} /\ streamOn
  /\ p \in held
  /\ held' = held \ {p}
  /\ handed' = <<p[2], IF slot[p[1]].bQueued THEN slot[p[1]].buffer ELSE NoBuf>>
  /\ slot' = [slot EXCEPT ![p[1]].bQueued = FALSE]
  /\ UNCHANGED <<pad, nBufNum, streamOn, flight, refs, leaked, moved>>

\* Encoders and decoders whose driver manages the pictures.
DequeueOutbuf(p) ==
  /\ pad \in {"drvDst", "encDst"} /\ streamOn
  /\ p \in held
  /\ held' = held \ {p}
  /\ IF slot[p[1]].bQueued
     THEN /\ handed' = <<p[2], slot[p[1]].buffer>>
          /\ slot' = [slot EXCEPT ![p[1]].bQueued = FALSE]
     ELSE /\ handed' = <<p[2], NoBuf>>
          /\ UNCHANGED slot
  /\ UNCHANGED <<pad, nBufNum, streamOn, flight, refs, leaked, moved>>

\* Mutation: a release always takes one off.
CountAfter_Always(s) == s.nUsedCnt - 1

\* A released buffer that was queued again keeps the count of that queueing.
CountAfter(s) ==
  IF s.bQueued THEN (IF s.nUsedCnt > 1 THEN s.nUsedCnt - 1 ELSE s.nUsedCnt)
  ELSE IF s.nUsedCnt > 0 THEN s.nUsedCnt - 1 ELSE 0

\* Mutation: a release always takes one off, queued or not.
Released_Always(s, R) ==
  IF s.buffer \notin R THEN s
  ELSE LET c == IF s.nUsedCnt > 0 THEN s.nUsedCnt - 1 ELSE 0
       IN  IF c = 0 /\ ~s.bQueued THEN Zeroed ELSE [s EXCEPT !.nUsedCnt = c]

\* BufferIndexFree for a slot: the driver reports the buffers R as released.
Released(s, R) ==
  IF s.buffer \notin R THEN s
  ELSE IF CountAfter(s) = 0 /\ ~s.bQueued THEN Zeroed
  ELSE [s EXCEPT !.nUsedCnt = CountAfter(s)]

\* The slot that was dequeued, before the releases.
Returned(s) ==
  [s EXCEPT !.bQueued = FALSE, !.bSlotUsed = IF s.nUsedCnt = 0 THEN FALSE ELSE @]

\* The driver may release what it refers to, the picture just displayed
\* among them, and report a queued buffer that it reused internally.
MayRelease(p) ==
  {b \in Bufs : refs[b] > 0 \/ b = p[2] \/ \E q \in held \ {p} : q[2] = b}

\* Decoder without support of the driver: StateProcessing copies the slot's
\* buffer out and frees the indices of the buffers R.
DequeueCounted(p, R) ==
  /\ Counted /\ streamOn
  /\ p \in held
  /\ slot[p[1]].bQueued
  /\ R \subseteq MayRelease(p)
  /\ held' = held \ {p}
  /\ handed' = <<p[2], slot[p[1]].buffer>>
  /\ refs' = [b \in Bufs |->
       LET n == IF b = p[2] THEN refs[b] + 1 ELSE refs[b]
       IN  IF b \in R /\ n > 0 THEN n - 1 ELSE n]
  /\ slot' = [i \in SlotIds |->
       Released(IF i = p[1] THEN Returned(slot[i]) ELSE slot[i], R)]
  /\ moved' = {b \in moved : refs'[b] > 0}
  /\ UNCHANGED <<pad, nBufNum, streamOn, flight, leaked>>

-----------------------------------------------------------------------------
Next ==
  \/ \E n, got \in 1..MaxSlots : Setup(n, got)
  \/ Cleanup \/ Run \/ Stop
  \/ \E b \in Bufs, i \in SlotIds : EnqueueBegin(b, i) \/ EnqueueRateFails(b, i)
  \/ EnqueueQbuf \/ EnqueueFails
  \/ \E p \in held : DequeueInbuf(p) \/ DequeueOutbuf(p)
  \/ \E p \in held, R \in SUBSET Bufs : DequeueCounted(p, R)

Spec == Init /\ [][Next]_slotVars

-----------------------------------------------------------------------------
(* Properties.                                                             *)

TypeOK ==
  /\ pad \in Pads
  /\ nBufNum \in 0..MaxSlots
  /\ streamOn \in BOOLEAN
  /\ slot \in [SlotIds -> Slot]
  /\ flight \in SlotIds \union {-1}
  /\ held \subseteq (SlotIds \X Bufs)
  /\ refs \in [Bufs -> 0..MaxRefs]
  /\ leaked \subseteq SlotIds
  /\ moved \subseteq Bufs
  /\ handed \in (Bufs \union {NoBuf}) \X (Bufs \union {NoBuf})

\* A dequeue hands out the buffer the driver has filled, never another one.
HandsOutWhatWasFilled == handed[1] = handed[2]

\* A slot is marked queued exactly while the driver has its index, or an
\* enqueue is between the mutex and the ioctl, or a refused frame rate left it
\* behind (ExynosVideoEncoder.c:2421); and the slot names the very buffer that
\* the driver has at the index, one per index: a dequeue, which looks the slot
\* up by the driver's index, hands out the buffer that was filled.
SlotsMatchDriver ==
  /\ \A p \in held : slot[p[1]].bQueued /\ slot[p[1]].buffer = p[2]
  /\ \A i \in SlotIds :
       slot[i].bQueued => i = flight \/ i \in leaked \/ \E p \in held : p[1] = i
  /\ flight # -1 => slot[flight].bQueued /\ \A p \in held : p[1] # flight
  /\ HandsOutWhatWasFilled

\* The index of a buffer that the driver still refers to stays that buffer's:
\* "index should be same as last used it in case of same fd what is referenced
\* by internally" (ExynosVideoDecoder.c:1882), with a count of the references
\* and the queueing, unless a failed QBUF has wiped its slot.
CountsMatchReferences ==
  Counted =>
    /\ \A b \in Bufs \ moved :
         refs[b] > 0 => \E i \in SlotIds : slot[i].buffer = b
    /\ \A i, j \in SlotIds :
         slot[i].buffer = slot[j].buffer /\ slot[i].buffer # NoBuf
         => i = j \/ slot[i].buffer \in moved
    /\ \A i \in SlotIds :
         LET b == slot[i].buffer
         IN  b # NoBuf /\ b \notin moved
             => /\ slot[i].bSlotUsed
                /\ slot[i].nUsedCnt = refs[b] + (IF slot[i].bQueued THEN 1 ELSE 0)

=============================================================================
