---------------------------- MODULE CodecApiProofs ----------------------------
(***************************************************************************)
(* Proofs about four of the modules around libExynosVideoApi, for every    *)
(* number of slots, buffers, memories and descriptors, and for every set   *)
(* of decoders and sequences: the slots of a pad, the resources of a       *)
(* context, the counts and descriptors of a decoder's output buffers, and  *)
(* its setup.  At the end, the same of the specification that the four are *)
(* model checked in.                                                       *)
(***************************************************************************)
EXTENDS MCCodecApi, QueueLemmas

-----------------------------------------------------------------------------
(***************************************************************************)
(* The slots of a pad.                                                     *)
(*                                                                         *)
(* Neither property is inductive by itself.  The invariant adds who may    *)
(* have a buffer twice (nobody: Single), and, for a decoder that counts    *)
(* references, what the flags of a slot say about its count (Counts): a    *)
(* slot that may be given to another buffer carries no count, and a count  *)
(* never exceeds what the driver holds, also after a failed QBUF.          *)
(***************************************************************************)

\* 1 for a slot that waits in the driver or on its way there.
Waiting(s) == IF s.bQueued THEN 1 ELSE 0

\* A buffer is with the driver once, its slot is on its way there once, and
\* the client does not queue a buffer that was displayed MaxRefs times.
Single ==
  /\ \A p, q \in held : p[2] = q[2] => p = q
  /\ \A p \in held : refs[p[2]] < MaxRefs
  /\ flight # -1 => /\ slot[flight].buffer \in Bufs
                    /\ Owned(slot[flight].buffer)
                    /\ refs[slot[flight].buffer] < MaxRefs

\* Slots beyond the number of buffers were never used.
Beyond == \A i \in SlotIds : i \notin Slots => slot[i] = Zeroed

\* The counts of a decoder that manages its own pictures; elsewhere the field
\* stays zero.
Counts ==
  /\ ~Counted => \A i \in SlotIds : slot[i].nUsedCnt = 0
  /\ Counted =>
       /\ leaked = {}
       /\ \A b \in moved : refs[b] > 0
       /\ \A i \in SlotIds : slot[i].bQueued => slot[i].nUsedCnt >= 1
       /\ \A i \in SlotIds : slot[i].bQueued => slot[i].buffer # NoBuf
       /\ \A i \in SlotIds : ~slot[i].bSlotUsed => slot[i].nUsedCnt = 0
       /\ \A i \in SlotIds : slot[i].buffer # NoBuf =>
            /\ slot[i].bSlotUsed
            /\ slot[i].nUsedCnt >= 1
            /\ slot[i].nUsedCnt <= refs[slot[i].buffer] + Waiting(slot[i])
       /\ \A i, j \in SlotIds :
            slot[i].buffer = slot[j].buffer /\ slot[i].buffer # NoBuf => i = j

SlotsInv ==
  /\ TypeOK
  /\ SlotsMatchDriver
  /\ CountsMatchReferences
  /\ Single
  /\ Beyond
  /\ Counts

-----------------------------------------------------------------------------
(* Setup and stop.                                                         *)

LEMMA SlotIdsType == SlotIds \subseteq Int /\ -1 \notin SlotIds
  BY SlotsAssumption DEF SlotIds

LEMMA ZeroedType == Zeroed \in Slot
  BY SlotsAssumption DEF Zeroed, Slot

\* A new pad satisfies the invariant.
LEMMA InitInv == Init => SlotsInv
<1> SUFFICES ASSUME Init PROVE SlotsInv
  OBVIOUS
<1> USE SlotsAssumption, SlotIdsType, ZeroedType DEF Init
<1>1. TypeOK
  <2>1. slot \in [SlotIds -> Slot] /\ refs \in [Bufs -> 0..MaxRefs]
    OBVIOUS
  <2>2. handed \in (Bufs \union {NoBuf}) \X (Bufs \union {NoBuf})
    OBVIOUS
  <2>3. nBufNum \in 0..MaxSlots
    OBVIOUS
  <2>5. streamOn \in BOOLEAN
    OBVIOUS
  <2>6. flight \in SlotIds \union {-1}
    OBVIOUS
  <2>4. held \subseteq (SlotIds \X Bufs) /\ leaked \subseteq SlotIds /\ moved \subseteq Bufs
    BY Zenon
  <2> QED
    BY <2>1, <2>2, <2>3, <2>4, <2>5, <2>6 DEF TypeOK
<1>2. SlotsMatchDriver
  BY DEF SlotsMatchDriver, HandsOutWhatWasFilled, Zeroed
<1>3. CountsMatchReferences
  BY DEF CountsMatchReferences, Zeroed
<1>4. Single /\ Beyond
  BY DEF Single, Beyond
<1>5. Counts
  BY DEF Counts, Zeroed, Counted
<1> QED
  BY <1>1, <1>2, <1>3, <1>4, <1>5 DEF SlotsInv

\* Wiping the slots and the driver's queue restores the initial situation,
\* whatever was there.
LEMMA ForgetInv ==
  ASSUME SlotsInv, Forget, UNCHANGED <<pad, flight, handed>>, flight = -1,
         nBufNum' \in 0..MaxSlots, streamOn' \in BOOLEAN
  PROVE  SlotsInv'
<1> USE SlotsAssumption, SlotIdsType, ZeroedType DEF Forget, SlotsInv
<1>1. TypeOK'
  BY DEF TypeOK
<1>2. SlotsMatchDriver'
  BY DEF SlotsMatchDriver, HandsOutWhatWasFilled, Zeroed
<1>3. CountsMatchReferences'
  BY DEF CountsMatchReferences, Zeroed
<1>4. Single' /\ Beyond'
  BY DEF Single, Beyond
<1>5. Counts'
  BY DEF Counts, Zeroed, Counted
<1> QED
  BY <1>1, <1>2, <1>3, <1>4, <1>5

LEMMA SetupInv ==
  ASSUME SlotsInv, NEW n \in 1..MaxSlots, NEW got \in 1..MaxSlots, Setup(n, got)
  PROVE  SlotsInv'
  BY ForgetInv, SlotsAssumption DEF Setup, SlotsInv, TypeOK

LEMMA CleanupInv == ASSUME SlotsInv, Cleanup PROVE SlotsInv'
  BY ForgetInv, SlotsAssumption DEF Cleanup, SlotsInv, TypeOK

LEMMA StopInv == ASSUME SlotsInv, Stop PROVE SlotsInv'
  BY ForgetInv, SlotsAssumption DEF Stop, SlotsInv, TypeOK

\* A step that leaves the slots and the driver alone.
LEMMA RunInv == ASSUME SlotsInv, Run PROVE SlotsInv'
<1> USE DEF Run, SlotsInv
<1>1. TypeOK'
  BY DEF TypeOK
<1>2. SlotsMatchDriver'
  BY DEF SlotsMatchDriver, HandsOutWhatWasFilled
<1>3. CountsMatchReferences'
  BY DEF CountsMatchReferences, Counted
<1>4. Single' /\ Beyond'
  BY DEF Single, Beyond, Owned, Slots
<1>5. Counts'
  BY DEF Counts, Counted, Waiting
<1> QED
  BY <1>1, <1>2, <1>3, <1>4, <1>5

-----------------------------------------------------------------------------
(* Enqueue.                                                                *)

\* A slot that can be taken for a buffer of the client's is not queued; where
\* references are counted it either has that buffer already, or carries no
\* count, and then the driver has no reference to the buffer, or its slot was
\* wiped by a failed QBUF.
LEMMA TakenSlot ==
  ASSUME SlotsInv, NEW b \in Bufs, NEW i \in SlotIds, TakeSlot(b, i)
  PROVE  /\ i \in Slots
         /\ ~slot[i].bQueued
         /\ Counted => \/ slot[i].buffer = b
                       \/ /\ slot[i].buffer = NoBuf
                          /\ slot[i].nUsedCnt = 0
                          /\ \A j \in SlotIds : slot[j].buffer # b
                          /\ b \in moved \/ refs[b] = 0
<1> USE SlotsAssumption
<1>1. i \in Slots /\ ~slot[i].bQueued
  BY DEF TakeSlot, Candidates, SameBuffer, EmptyInbuf, EmptyOutbuf
<1>2. ASSUME Counted, slot[i].buffer # b
      PROVE  /\ slot[i].buffer = NoBuf
             /\ slot[i].nUsedCnt = 0
             /\ \A j \in SlotIds : slot[j].buffer # b
             /\ b \in moved \/ refs[b] = 0
  <2>1. SameBuffer(b) = {} /\ ~slot[i].bSlotUsed
    BY <1>2 DEF TakeSlot, Candidates, SameBuffer, EmptyOutbuf, Counted
  <2>2. slot[i].buffer = NoBuf /\ slot[i].nUsedCnt = 0
    BY <1>2, <2>1 DEF SlotsInv, Counts
  <2>3. ASSUME NEW j \in SlotIds, slot[j].buffer = b
        PROVE  FALSE
    <3>1. j \in Slots
      BY <2>3 DEF SlotsInv, Beyond, Zeroed
    <3>2. slot[j].bQueued
      BY <2>1, <2>3, <3>1 DEF SameBuffer
    <3>3. \E p \in held : p[1] = j
      BY <1>2, <3>2, SlotIdsType DEF SlotsInv, SlotsMatchDriver, Counts, TakeSlot
    <3> QED
      BY <2>3, <3>3 DEF SlotsInv, SlotsMatchDriver, TakeSlot, Owned
  <2>4. b \in moved \/ refs[b] = 0
    BY <1>2, <2>3 DEF SlotsInv, CountsMatchReferences, TypeOK
  <2> QED
    BY <2>2, <2>3, <2>4
<1> QED
  BY <1>1, <1>2

\* The slot that was taken, field by field; the others are as they were.
LEMMA FilledSlot ==
  ASSUME SlotsInv, NEW b \in Bufs, NEW i \in SlotIds, TakeSlot(b, i)
  PROVE  /\ slot' \in [SlotIds -> Slot]
         /\ slot'[i].buffer = b
         /\ slot'[i].bQueued
         /\ Counted => slot'[i].bSlotUsed
         /\ slot'[i].nUsedCnt = IF Counted THEN slot[i].nUsedCnt + 1 ELSE slot[i].nUsedCnt
         /\ \A j \in SlotIds : j # i => slot'[j] = slot[j]
<1> USE SlotsAssumption
<1>1. slot'[i] = Filled(i, b) /\ \A j \in SlotIds : j # i => slot'[j] = slot[j]
  BY DEF TakeSlot, SlotsInv, TypeOK
<1>2. slot[i] \in Slot
  BY DEF SlotsInv, TypeOK
<1>3. Counted => slot[i].nUsedCnt <= MaxRefs
  <2>1. CASE slot[i].buffer = b
    <3>1. ~slot[i].bQueued /\ b # NoBuf /\ refs[b] \in 0..MaxRefs /\ refs[b] < MaxRefs
      BY TakenSlot DEF TakeSlot, SlotsInv, TypeOK
    <3>2. Counted => slot[i].nUsedCnt <= refs[b] + 0
      BY <2>1, <3>1 DEF SlotsInv, Counts, Waiting
    <3> QED
      BY <1>2, <3>1, <3>2 DEF Slot
  <2>2. CASE slot[i].buffer # b
    BY <2>2, TakenSlot
  <2> QED
    BY <2>1, <2>2
<1>4. Filled(i, b) \in Slot
  <2>1. slot[i].nUsedCnt \in 0..(MaxRefs + 1) /\ slot[i].bSlotUsed \in BOOLEAN
    BY <1>2 DEF Slot
  <2> DEFINE used == IF pad \in {"encDst", "drvDst"} THEN slot[i].bSlotUsed ELSE TRUE
             n == IF Counted THEN slot[i].nUsedCnt + 1 ELSE slot[i].nUsedCnt
  <2>2. n \in 0..(MaxRefs + 1)
    BY <1>3, <2>1
  <2>3. used \in BOOLEAN
    BY <2>1
  <2>4. Filled(i, b) = [buffer |-> b, bQueued |-> TRUE, bSlotUsed |-> used, nUsedCnt |-> n]
    BY Zenon DEF Filled
  <2> HIDE DEF used, n
  <2> QED
    BY <2>2, <2>3, <2>4 DEF Slot
<1>5. slot' \in [SlotIds -> Slot]
  BY <1>4 DEF TakeSlot, SlotsInv, TypeOK
<1> QED
  BY <1>1, <1>5 DEF Filled, Counted

LEMMA EnqueueBeginInv ==
  ASSUME SlotsInv, NEW b \in Bufs, NEW i \in SlotIds, EnqueueBegin(b, i)
  PROVE  SlotsInv'
<1> USE SlotsAssumption DEF EnqueueBegin
<1>1. TakeSlot(b, i)
  OBVIOUS
<1>2. /\ slot' \in [SlotIds -> Slot]
      /\ slot'[i].buffer = b
      /\ slot'[i].bQueued
      /\ Counted => slot'[i].bSlotUsed
      /\ slot'[i].nUsedCnt = IF Counted THEN slot[i].nUsedCnt + 1 ELSE slot[i].nUsedCnt
      /\ \A j \in SlotIds : j # i => slot'[j] = slot[j]
  BY <1>1, FilledSlot
<1>3. \A p \in held : p[1] # i
  BY <1>1, TakenSlot DEF SlotsInv, SlotsMatchDriver
<1>4. /\ i \in Slots
      /\ ~slot[i].bQueued
      /\ Counted => \/ slot[i].buffer = b
                    \/ /\ slot[i].buffer = NoBuf
                       /\ slot[i].nUsedCnt = 0
                       /\ \A j \in SlotIds : slot[j].buffer # b
                       /\ b \in moved \/ refs[b] = 0
  BY <1>1, TakenSlot
<1>5. TypeOK'
  BY <1>2 DEF SlotsInv, TypeOK
<1>6. SlotsMatchDriver'
  <2>1. \A p \in held' : p[1] \in SlotIds /\ slot'[p[1]].bQueued /\ slot'[p[1]].buffer = p[2]
    BY <1>2, <1>3 DEF SlotsInv, TypeOK, SlotsMatchDriver
  <2>2. \A j \in SlotIds : slot'[j].bQueued
          => j = flight' \/ j \in leaked' \/ \E p \in held' : p[1] = j
    BY <1>1, <1>2, SlotIdsType DEF SlotsInv, SlotsMatchDriver, TakeSlot
  <2> QED
    BY <1>2, <1>3, <2>1, <2>2 DEF SlotsInv, SlotsMatchDriver, HandsOutWhatWasFilled
<1>7. Counts'
  <2>1. ~Counted => \A j \in SlotIds : slot'[j].nUsedCnt = 0
    BY <1>2 DEF SlotsInv, Counts
  <2>2. ASSUME Counted, NEW j \in SlotIds
        PROVE  /\ slot'[j].bQueued => slot'[j].nUsedCnt >= 1 /\ slot'[j].buffer # NoBuf
               /\ ~slot'[j].bSlotUsed => slot'[j].nUsedCnt = 0
               /\ slot'[j].buffer # NoBuf =>
                    /\ slot'[j].bSlotUsed
                    /\ slot'[j].nUsedCnt >= 1
                    /\ slot'[j].nUsedCnt <= refs[slot'[j].buffer] + Waiting(slot'[j])
    <3>1. CASE j # i
      BY <1>2, <2>2, <3>1 DEF SlotsInv, Counts
    <3>2. CASE j = i
      <4>1. slot[i].nUsedCnt \in 0..(MaxRefs + 1) /\ refs[b] \in 0..MaxRefs
        BY DEF SlotsInv, TypeOK, Slot
      <4>2. slot[i].nUsedCnt <= refs[b]
        BY <1>4, <2>2, <4>1 DEF SlotsInv, Counts, Waiting
      <4> QED
        BY <1>2, <2>2, <3>2, <4>1, <4>2 DEF Waiting
    <3> QED
      BY <3>1, <3>2
  <2>3. ASSUME Counted, NEW j \in SlotIds, NEW k \in SlotIds,
               slot'[j].buffer = slot'[k].buffer, slot'[j].buffer # NoBuf
        PROVE  j = k
    BY <1>2, <1>4, <2>3 DEF SlotsInv, Counts
  <2> QED
    BY <2>1, <2>2, <2>3 DEF Counts, Counted, SlotsInv, Waiting
<1>8. CountsMatchReferences'
  <2> SUFFICES ASSUME Counted PROVE CountsMatchReferences'
    BY DEF CountsMatchReferences, Counted
  <2>1. ASSUME NEW c \in Bufs \ moved, refs[c] > 0
        PROVE  \E j \in SlotIds : slot'[j].buffer = c
    <3>1. PICK j \in SlotIds : slot[j].buffer = c
      BY <2>1 DEF SlotsInv, CountsMatchReferences
    <3>2. slot'[j].buffer = c
      BY <1>2, <1>4, <3>1
    <3> QED
      BY <3>2
  <2>2. ASSUME NEW j \in SlotIds, slot'[j].buffer # NoBuf, slot'[j].buffer \notin moved
        PROVE  slot'[j].nUsedCnt = refs[slot'[j].buffer] + (IF slot'[j].bQueued THEN 1 ELSE 0)
    <3>1. CASE j # i
      BY <1>2, <2>2, <3>1 DEF SlotsInv, CountsMatchReferences
    <3>2. CASE j = i
      <4>1. b # NoBuf /\ b \notin moved /\ refs[b] \in 0..MaxRefs
        BY <1>2, <2>2, <3>2 DEF SlotsInv, TypeOK
      <4>2. ASSUME slot[i].buffer = b
            PROVE  slot[i].nUsedCnt = refs[b] + 0
        BY <1>4, <4>1, <4>2 DEF SlotsInv, CountsMatchReferences
      <4>3. ASSUME slot[i].buffer # b
            PROVE  slot[i].nUsedCnt = 0 /\ refs[b] = 0
        BY <1>4, <4>1, <4>3
      <4>4. slot[i].nUsedCnt = refs[b]
        BY <4>1, <4>2, <4>3
      <4> QED
        BY <1>2, <3>2, <4>1, <4>4
    <3> QED
      BY <3>1, <3>2
  <2> QED
    BY <1>7, <2>1, <2>2 DEF CountsMatchReferences, Counts, Counted
<1>9. Single'
  <2>1. flight' = i /\ refs[b] < MaxRefs /\ Owned(b)
    BY <1>1 DEF TakeSlot
  <2> QED
    BY <1>2, <2>1 DEF SlotsInv, Single, Owned
<1>10. Beyond'
  BY <1>2, <1>4 DEF SlotsInv, Beyond, Slots
<1> QED
  BY <1>5, <1>6, <1>7, <1>8, <1>9, <1>10 DEF SlotsInv

\* A refused frame rate: the slot stays taken, the driver does not have it.
LEMMA EnqueueRateFailsInv ==
  ASSUME SlotsInv, NEW b \in Bufs, NEW i \in SlotIds, EnqueueRateFails(b, i)
  PROVE  SlotsInv'
<1> USE SlotsAssumption DEF EnqueueRateFails
<1>1. TakeSlot(b, i) /\ ~Counted /\ ~Counted'
  BY DEF Counted
<1>2. /\ slot' \in [SlotIds -> Slot]
      /\ slot'[i].bQueued
      /\ slot'[i].nUsedCnt = slot[i].nUsedCnt
      /\ \A j \in SlotIds : j # i => slot'[j] = slot[j]
  BY <1>1, FilledSlot
<1>3. flight = -1 /\ i \in Slots /\ \A p \in held : p[1] # i
  BY <1>1, TakenSlot DEF SlotsInv, SlotsMatchDriver, TakeSlot
<1>4. TypeOK'
  BY <1>2 DEF SlotsInv, TypeOK
<1>5. SlotsMatchDriver'
  <2>1. \A p \in held' : p[1] \in SlotIds /\ slot'[p[1]].bQueued /\ slot'[p[1]].buffer = p[2]
    BY <1>2, <1>3 DEF SlotsInv, TypeOK, SlotsMatchDriver
  <2>2. \A j \in SlotIds : slot'[j].bQueued
          => j = flight' \/ j \in leaked' \/ \E p \in held' : p[1] = j
    BY <1>2 DEF SlotsInv, SlotsMatchDriver
  <2> QED
    BY <1>3, <2>1, <2>2 DEF SlotsInv, SlotsMatchDriver, HandsOutWhatWasFilled
<1>6. CountsMatchReferences'
  BY <1>1 DEF CountsMatchReferences
<1>7. Counts'
  BY <1>1, <1>2 DEF SlotsInv, Counts
<1>8. Single'
  BY <1>3 DEF SlotsInv, Single
<1>9. Beyond'
  BY <1>2, <1>3 DEF SlotsInv, Beyond, Slots
<1> QED
  BY <1>4, <1>5, <1>6, <1>7, <1>8, <1>9 DEF SlotsInv

LEMMA EnqueueQbufInv == ASSUME SlotsInv, EnqueueQbuf PROVE SlotsInv'
<1> USE SlotsAssumption, SlotIdsType DEF EnqueueQbuf
<1> DEFINE new == <<flight, slot[flight].buffer>>
<1>1. /\ flight \in SlotIds
      /\ slot[flight].buffer \in Bufs
      /\ slot[flight].bQueued
      /\ \A p \in held : p[1] # flight /\ p[2] # slot[flight].buffer
      /\ refs[slot[flight].buffer] < MaxRefs
  BY DEF SlotsInv, TypeOK, SlotsMatchDriver, Single, Owned
<1>2. held' = held \union {new}
  OBVIOUS
<1>3. TypeOK'
  <2>1. held' \subseteq (SlotIds \X Bufs)
    BY <1>1, <1>2 DEF SlotsInv, TypeOK
  <2> QED
    BY <2>1 DEF SlotsInv, TypeOK
<1>4. SlotsMatchDriver'
  <2>1. \A p \in held' : slot[p[1]].bQueued /\ slot[p[1]].buffer = p[2]
    BY <1>1, <1>2 DEF SlotsInv, SlotsMatchDriver
  <2>2. new \in held' /\ new[1] = flight
    BY <1>2
  <2>3. ASSUME NEW j \in SlotIds, slot[j].bQueued
        PROVE  j \in leaked \/ \E p \in held' : p[1] = j
    BY <1>2, <2>2, <2>3 DEF SlotsInv, SlotsMatchDriver
  <2> QED
    BY <2>1, <2>3 DEF SlotsInv, SlotsMatchDriver, HandsOutWhatWasFilled
<1>5. CountsMatchReferences'
  BY DEF SlotsInv, CountsMatchReferences, Counted
<1>6. Single'
  <2>1. \A p, q \in held' : p[2] = q[2] => p = q
    BY <1>1, <1>2 DEF SlotsInv, Single
  <2>2. \A p \in held' : refs[p[2]] < MaxRefs
    BY <1>1, <1>2 DEF SlotsInv, Single
  <2> QED
    BY <2>1, <2>2 DEF Single
<1>7. Beyond' /\ Counts'
  BY DEF SlotsInv, Beyond, Slots, Counts, Counted, Waiting
<1> QED
  BY <1>3, <1>4, <1>5, <1>6, <1>7 DEF SlotsInv

\* A failed QBUF: the slot loses its buffer; a buffer the driver refers to is
\* from then on in `moved`.
LEMMA EnqueueFailsInv == ASSUME SlotsInv, EnqueueFails PROVE SlotsInv'
<1> USE SlotsAssumption, SlotIdsType DEF EnqueueFails
<1>1. /\ flight \in SlotIds
      /\ slot[flight].buffer \in Bufs
      /\ slot[flight].bQueued
      /\ slot[flight] \in Slot
      /\ refs[slot[flight].buffer] \in 0..MaxRefs
      /\ \A p \in held : p[1] # flight
      /\ Counted => slot[flight].nUsedCnt >= 1 /\ slot[flight].bSlotUsed
  BY DEF SlotsInv, TypeOK, SlotsMatchDriver, Single, Counts
<1>2. /\ slot'[flight] = Undone(slot[flight])
      /\ \A j \in SlotIds : j # flight => slot'[j] = slot[j]
  BY <1>1 DEF SlotsInv, TypeOK
<1>3. /\ Undone(slot[flight]) \in Slot
      /\ Undone(slot[flight]).buffer = NoBuf
      /\ ~Undone(slot[flight]).bQueued
      /\ Undone(slot[flight]).nUsedCnt
           = IF Counted THEN slot[flight].nUsedCnt - 1 ELSE slot[flight].nUsedCnt
      /\ Counted /\ ~Undone(slot[flight]).bSlotUsed => slot[flight].nUsedCnt = 1
  <2>1. /\ slot[flight].nUsedCnt \in 0..(MaxRefs + 1)
        /\ slot[flight].bSlotUsed \in BOOLEAN
        /\ slot[flight].buffer \in Bufs \union {NoBuf}
    BY <1>1 DEF Slot
  <2>2. CASE Counted
    <3> DEFINE used == IF slot[flight].nUsedCnt = 1 THEN FALSE ELSE slot[flight].bSlotUsed
    <3>1. /\ used \in BOOLEAN
          /\ ~used => slot[flight].nUsedCnt = 1
          /\ slot[flight].nUsedCnt - 1 \in 0..(MaxRefs + 1)
      <4>1. slot[flight].nUsedCnt - 1 \in 0..(MaxRefs + 1)
        BY <1>1, <2>1, <2>2
      <4>2. used \in BOOLEAN
        BY <2>1
      <4>3. ~used => slot[flight].nUsedCnt = 1
        BY <1>1, <2>2
      <4> QED
        BY <4>1, <4>2, <4>3
    <3>2. Undone(slot[flight])
           = [buffer |-> NoBuf, bQueued |-> FALSE, nUsedCnt |-> slot[flight].nUsedCnt - 1,
              bSlotUsed |-> used]
      BY <2>2, Zenon DEF Undone
    <3> HIDE DEF used
    <3>3. Undone(slot[flight]) \in Slot
      BY <3>1, <3>2 DEF Slot
    <3> QED
      BY <2>2, <3>1, <3>2, <3>3
  <2>3. CASE ~Counted
    <3>1. Undone(slot[flight]) = [slot[flight] EXCEPT !.buffer = NoBuf, !.bQueued = FALSE]
      BY <2>3 DEF Undone
    <3> QED
      BY <1>1, <2>1, <2>3, <3>1 DEF Slot
  <2> QED
    BY <2>2, <2>3
<1>4. TypeOK'
  <2>1. slot' \in [SlotIds -> Slot]
    BY <1>3 DEF SlotsInv, TypeOK
  <2>2. moved' \subseteq Bufs
    BY <1>1 DEF SlotsInv, TypeOK
  <2> QED
    BY <2>1, <2>2 DEF SlotsInv, TypeOK
<1>5. SlotsMatchDriver'
  <2>1. \A p \in held' : p[1] \in SlotIds /\ slot'[p[1]].bQueued /\ slot'[p[1]].buffer = p[2]
    BY <1>1, <1>2 DEF SlotsInv, TypeOK, SlotsMatchDriver
  <2>2. \A j \in SlotIds : slot'[j].bQueued
          => j = flight' \/ j \in leaked' \/ \E p \in held' : p[1] = j
    BY <1>2, <1>3 DEF SlotsInv, SlotsMatchDriver
  <2> QED
    BY <2>1, <2>2 DEF SlotsInv, SlotsMatchDriver, HandsOutWhatWasFilled
<1>6. CountsMatchReferences'
  <2> SUFFICES ASSUME Counted PROVE CountsMatchReferences'
    BY DEF CountsMatchReferences, Counted
  <2>1. ASSUME NEW b \in Bufs \ moved', refs[b] > 0
        PROVE  \E j \in SlotIds : slot'[j].buffer = b
    <3>1. b \notin moved /\ b # slot[flight].buffer
      BY <2>1
    <3>2. PICK j \in SlotIds : slot[j].buffer = b
      BY <2>1, <3>1 DEF SlotsInv, CountsMatchReferences
    <3>3. slot'[j].buffer = b
      BY <1>2, <3>1, <3>2
    <3> QED
      BY <3>3
  <2>2. moved \subseteq moved'
    OBVIOUS
  <2>3. \A j \in SlotIds : slot'[j].buffer # NoBuf => j # flight /\ slot'[j] = slot[j]
    BY <1>2, <1>3
  <2> QED
    BY <2>1, <2>2, <2>3 DEF SlotsInv, CountsMatchReferences, Counted
<1>7. Counts'
  <2>1. ~Counted => \A j \in SlotIds : slot'[j].nUsedCnt = 0
    BY <1>2, <1>3 DEF SlotsInv, Counts
  <2>2. Counted => \A b \in moved' : refs[b] > 0
    BY <1>1 DEF SlotsInv, Counts
  <2>3. Counted => ~slot'[flight].bQueued /\ slot'[flight].buffer = NoBuf
                   /\ (~slot'[flight].bSlotUsed => slot'[flight].nUsedCnt = 0)
    BY <1>2, <1>3
  <2> QED
    BY <1>2, <2>1, <2>2, <2>3 DEF SlotsInv, Counts, Counted, Waiting
<1>8. Single'
  BY DEF SlotsInv, Single
<1>9. Beyond'
  <2>1. flight \in Slots
    BY <1>1 DEF SlotsInv, Beyond, Zeroed
  <2> QED
    BY <1>2, <2>1 DEF SlotsInv, Beyond, Slots
<1> QED
  BY <1>4, <1>5, <1>6, <1>7, <1>8, <1>9 DEF SlotsInv

-----------------------------------------------------------------------------
(* Dequeue.                                                                *)

\* Where no references are counted: the slot of the index the driver hands
\* back is no longer queued, and the buffer it names is the driver's.
LEMMA DequeuePlainInv ==
  ASSUME SlotsInv, NEW p \in held, ~Counted,
         DequeueInbuf(p) \/ DequeueOutbuf(p)
  PROVE  SlotsInv'
<1> USE SlotsAssumption
<1>1. p \in SlotIds \X Bufs /\ slot[p[1]].bQueued /\ slot[p[1]].buffer = p[2]
  BY DEF SlotsInv, TypeOK, SlotsMatchDriver
<1>2. /\ slot' = [slot EXCEPT ![p[1]].bQueued = FALSE]
      /\ handed' = <<p[2], p[2]>>
      /\ held' = held \ {p}
      /\ UNCHANGED <<pad, nBufNum, flight, refs, leaked, moved, streamOn>>
  BY <1>1 DEF DequeueInbuf, DequeueOutbuf
<1>3. /\ ~Counted'
      /\ p[1] \in SlotIds /\ p[2] \in Bufs
      /\ slot \in [SlotIds -> Slot]
  BY <1>1, <1>2 DEF Counted, SlotsInv, TypeOK
<1>4. /\ slot' \in [SlotIds -> Slot]
      /\ \A j \in SlotIds : j # p[1] => slot'[j] = slot[j]
      /\ slot'[p[1]].buffer = slot[p[1]].buffer
      /\ slot'[p[1]].nUsedCnt = slot[p[1]].nUsedCnt
      /\ ~slot'[p[1]].bQueued
  <2>1. slot[p[1]] \in Slot
    BY <1>3
  <2>2. [slot[p[1]] EXCEPT !.bQueued = FALSE] \in Slot
    BY <2>1 DEF Slot
  <2> QED
    BY <1>2, <1>3, <2>1, <2>2 DEF Slot
<1>5. \A q \in held' : q \in held /\ q[1] # p[1]
  BY <1>1, <1>2 DEF SlotsInv, SlotsMatchDriver, TypeOK
<1>6. flight # -1 => flight \in SlotIds /\ flight # p[1]
  BY DEF SlotsInv, SlotsMatchDriver, TypeOK
<1>7. TypeOK'
  <2>1. handed' \in (Bufs \union {NoBuf}) \X (Bufs \union {NoBuf})
    BY <1>2, <1>3
  <2>2. held' \subseteq (SlotIds \X Bufs)
    BY <1>2 DEF SlotsInv, TypeOK
  <2> QED
    BY <1>2, <1>4, <2>1, <2>2 DEF SlotsInv, TypeOK
<1>8. SlotsMatchDriver'
  <2>1. \A q \in held' : slot'[q[1]].bQueued /\ slot'[q[1]].buffer = q[2]
    BY <1>4, <1>5 DEF SlotsInv, SlotsMatchDriver, TypeOK
  <2>2. ASSUME NEW j \in SlotIds, slot'[j].bQueued
        PROVE  j = flight' \/ j \in leaked' \/ \E q \in held' : q[1] = j
    BY <1>2, <1>4, <2>2 DEF SlotsInv, SlotsMatchDriver
  <2>3. flight' # -1 => slot'[flight'].bQueued /\ \A q \in held' : q[1] # flight'
    BY <1>2, <1>4, <1>5, <1>6 DEF SlotsInv, SlotsMatchDriver
  <2>4. handed'[1] = handed'[2]
    BY <1>2
  <2> QED
    BY <2>1, <2>2, <2>3, <2>4 DEF SlotsMatchDriver, HandsOutWhatWasFilled
<1>9. CountsMatchReferences'
  BY <1>3 DEF CountsMatchReferences
<1>10. Counts'
  BY <1>3, <1>4 DEF SlotsInv, Counts
<1>11. Single'
  BY <1>2, <1>4, <1>6 DEF SlotsInv, Single, Owned
<1>12. Beyond'
  <2>1. p[1] \in Slots
    BY <1>1, <1>3 DEF SlotsInv, Beyond, Zeroed
  <2> QED
    BY <1>2, <1>4, <2>1 DEF SlotsInv, Beyond, Slots
<1> QED
  BY <1>7, <1>8, <1>9, <1>10, <1>11, <1>12 DEF SlotsInv

\* The buffer that is dequeued is one that nobody else has: it is referred to
\* once more, and never beyond the bound.
LEMMA ReferencesAfter ==
  ASSUME SlotsInv, NEW p \in held, NEW R \in SUBSET Bufs, DequeueCounted(p, R)
  PROVE  /\ p[1] \in SlotIds /\ p[2] \in Bufs
         /\ slot[p[1]].bQueued /\ slot[p[1]].buffer = p[2]
         /\ refs' \in [Bufs -> 0..MaxRefs]
         /\ \A b \in Bufs :
              LET n == IF b = p[2] THEN refs[b] + 1 ELSE refs[b]
              IN  refs'[b] = IF b \in R /\ n > 0 THEN n - 1 ELSE n
<1> USE SlotsAssumption
<1>1. /\ p[1] \in SlotIds /\ p[2] \in Bufs
      /\ slot[p[1]].bQueued /\ slot[p[1]].buffer = p[2]
      /\ refs[p[2]] < MaxRefs
  BY DEF SlotsInv, TypeOK, SlotsMatchDriver, Single
<1>2. refs \in [Bufs -> 0..MaxRefs]
  BY DEF SlotsInv, TypeOK
<1>3. \A b \in Bufs :
        LET n == IF b = p[2] THEN refs[b] + 1 ELSE refs[b]
        IN  refs'[b] = IF b \in R /\ n > 0 THEN n - 1 ELSE n
  BY DEF DequeueCounted
<1>4. \A b \in Bufs : refs'[b] \in 0..MaxRefs
  BY <1>1, <1>2, <1>3
<1>5. refs' \in [Bufs -> 0..MaxRefs]
  BY <1>4 DEF DequeueCounted
<1> QED
  BY <1>1, <1>3, <1>5

\* What a dequeue and the releases make of any slot: it is wiped when the last
\* count of a buffer that does not wait is released, otherwise it keeps its
\* buffer, with a count that again lies between one and what the driver holds.
LEMMA ReleasedSlot ==
  ASSUME SlotsInv, NEW p \in held, NEW R \in SUBSET Bufs, DequeueCounted(p, R),
         NEW j \in SlotIds
  PROVE  /\ slot'[j] \in Slot
         /\ slot'[j].bQueued <=> slot[j].bQueued /\ j # p[1]
         /\ slot'[j].bQueued => slot'[j].buffer = slot[j].buffer
         /\ slot'[j].buffer \in {slot[j].buffer, NoBuf}
         /\ ~slot'[j].bSlotUsed => slot'[j].nUsedCnt = 0
         /\ slot'[j].buffer # NoBuf =>
              /\ slot'[j].bSlotUsed
              /\ slot'[j].nUsedCnt >= 1
              /\ slot'[j].nUsedCnt <= refs'[slot'[j].buffer] + Waiting(slot'[j])
              /\ slot'[j].buffer \notin moved =>
                   slot'[j].nUsedCnt = refs'[slot'[j].buffer] + Waiting(slot'[j])
         /\ slot[j].buffer # NoBuf /\ slot[j].buffer \notin moved /\ slot'[j].buffer = NoBuf
              => refs'[slot[j].buffer] = 0
<1> USE SlotsAssumption
<1> DEFINE was == slot[j]
           mid == IF j = p[1] THEN Returned(slot[j]) ELSE slot[j]
<1>1. /\ p[1] \in SlotIds /\ p[2] \in Bufs
      /\ slot[p[1]].bQueued /\ slot[p[1]].buffer = p[2]
      /\ refs' \in [Bufs -> 0..MaxRefs]
      /\ \A b \in Bufs :
           LET n == IF b = p[2] THEN refs[b] + 1 ELSE refs[b]
           IN  refs'[b] = IF b \in R /\ n > 0 THEN n - 1 ELSE n
  BY ReferencesAfter
<1>2. Counted /\ slot'[j] = Released(mid, R)
  BY DEF DequeueCounted
<1>3. was \in Slot /\ refs \in [Bufs -> 0..MaxRefs]
  BY DEF SlotsInv, TypeOK
<1>4. /\ was.bQueued => was.nUsedCnt >= 1 /\ was.buffer # NoBuf
      /\ ~was.bSlotUsed => was.nUsedCnt = 0
      /\ was.buffer # NoBuf =>
           /\ was.bSlotUsed
           /\ was.nUsedCnt >= 1
           /\ was.nUsedCnt <= refs[was.buffer] + Waiting(was)
           /\ was.buffer \notin moved => was.nUsedCnt = refs[was.buffer] + Waiting(was)
      /\ was.buffer = p[2] => j = p[1]
  BY <1>1, <1>2 DEF SlotsInv, Counts, CountsMatchReferences, Waiting
<1>5. /\ mid \in Slot
      /\ mid.buffer = was.buffer
      /\ mid.nUsedCnt = was.nUsedCnt
      /\ mid.bSlotUsed = was.bSlotUsed
      /\ mid.bQueued <=> was.bQueued /\ j # p[1]
  <2>1. CASE j = p[1]
    <3>1. was.nUsedCnt # 0
      BY <1>1, <1>3, <1>4, <2>1 DEF Slot
    <3>2. Returned(was) = [was EXCEPT !.bQueued = FALSE, !.bSlotUsed = was.bSlotUsed]
      BY <3>1 DEF Returned
    <3> QED
      BY <1>3, <2>1, <3>2 DEF Slot
  <2>2. CASE j # p[1]
    BY <1>3, <2>2
  <2> QED
    BY <2>1, <2>2
<1> DEFINE b == was.buffer
           n == IF b = p[2] THEN refs[b] + 1 ELSE refs[b]
           c == was.nUsedCnt
           w == Waiting(mid)
<1>6. /\ c \in 0..(MaxRefs + 1) /\ w \in {0, 1}
      /\ w = 1 <=> mid.bQueued
      /\ b \in Bufs \union {NoBuf}
      /\ b # NoBuf => n \in Nat /\ refs'[b] = IF b \in R /\ n > 0 THEN n - 1 ELSE n
  BY <1>1, <1>3 DEF Waiting, Slot
<1>7. b # NoBuf =>
        /\ was.bSlotUsed
        /\ c >= 1
        /\ c <= n + w
        /\ b \notin moved => c = n + w
  <2>1. CASE j = p[1]
    <3>1. Waiting(was) = 1 /\ w = 0 /\ n = refs[b] + 1 /\ b \in Bufs
      BY <1>1, <1>5, <2>1 DEF Waiting
    <3> HIDE DEF n, w
    <3> QED
      BY <1>3, <1>4, <3>1
  <2>2. CASE j # p[1]
    <3>1. w = Waiting(was) /\ n = refs[b]
      BY <1>4, <2>2
    <3> QED
      BY <1>4, <3>1
  <2> QED
    BY <2>1, <2>2
<1> HIDE DEF n, w
<1>8. CASE b \notin R
  <2>1. slot'[j] = mid
    BY <1>2, <1>5, <1>8 DEF Released
  <2>2. b # NoBuf => refs'[b] = n
    BY <1>6, <1>8
  <2> QED
    BY <1>4, <1>5, <1>6, <1>7, <2>1, <2>2 DEF w
<1>9. CASE b \in R
  <2>1. b # NoBuf
    BY <1>9
  <2> DEFINE after == IF mid.bQueued THEN (IF c > 1 THEN c - 1 ELSE c) ELSE c - 1
  <2>2. CountAfter(mid) = after
    BY <1>5, <1>6, <1>7, <2>1 DEF CountAfter
  <2>3. /\ after \in 0..(MaxRefs + 1)
        /\ mid.bQueued => after >= 1
        /\ after <= refs'[b] + w
        /\ b \notin moved => after = refs'[b] + w
    <3>1. refs'[b] = IF n > 0 THEN n - 1 ELSE n
      BY <1>6, <1>9, <2>1
    <3>2. CASE mid.bQueued
      BY <1>6, <1>7, <2>1, <3>1, <3>2
    <3>3. CASE ~mid.bQueued
      BY <1>6, <1>7, <2>1, <3>1, <3>3
    <3> QED
      BY <3>2, <3>3
  <2> HIDE DEF after
  <2>4. CASE after = 0 /\ ~mid.bQueued
    <3>1. slot'[j] = Zeroed
      BY <1>2, <1>5, <1>9, <2>2, <2>4 DEF Released
    <3>2. b \notin moved => refs'[b] = 0
      <4>1. refs'[b] \in 0..MaxRefs
        BY <1>1, <1>6, <2>1
      <4> QED
        BY <1>6, <2>3, <2>4, <4>1
    <3>3. slot'[j] \in Slot
      BY <3>1, ZeroedType
    <3>4. slot[j].bQueued /\ j # p[1] <=> FALSE
      BY <1>5, <2>4
    <3>5. /\ slot'[j].buffer = NoBuf /\ slot'[j].nUsedCnt = 0
          /\ ~slot'[j].bQueued
      BY <3>1 DEF Zeroed
    <3> QED
      BY <3>2, <3>3, <3>4, <3>5
  <2>5. CASE ~(after = 0 /\ ~mid.bQueued)
    <3>1. slot'[j] = [mid EXCEPT !.nUsedCnt = after]
      BY <1>2, <1>5, <1>9, <2>2, <2>5 DEF Released
    <3>2. /\ slot'[j] \in Slot
          /\ slot'[j].buffer = b
          /\ slot'[j].nUsedCnt = after
          /\ slot'[j].bSlotUsed = was.bSlotUsed
          /\ slot'[j].bQueued = mid.bQueued
      BY <1>5, <2>3, <3>1 DEF Slot
    <3>3. Waiting(slot'[j]) = w
      BY <3>2 DEF Waiting, w
    <3>4. after >= 1
      BY <2>3, <2>5
    <3> QED
      BY <1>5, <1>7, <2>1, <2>3, <3>2, <3>3, <3>4
  <2> QED
    BY <2>4, <2>5
<1> QED
  BY <1>8, <1>9

LEMMA DequeueCountedInv ==
  ASSUME SlotsInv, NEW p \in held, NEW R \in SUBSET Bufs, DequeueCounted(p, R)
  PROVE  SlotsInv'
<1> USE SlotsAssumption
<1>1. /\ p[1] \in SlotIds /\ p[2] \in Bufs
      /\ slot[p[1]].bQueued /\ slot[p[1]].buffer = p[2]
      /\ refs' \in [Bufs -> 0..MaxRefs]
      /\ \A b \in Bufs :
           LET n == IF b = p[2] THEN refs[b] + 1 ELSE refs[b]
           IN  refs'[b] = IF b \in R /\ n > 0 THEN n - 1 ELSE n
  BY ReferencesAfter
<1>2. /\ Counted /\ Counted'
      /\ held' = held \ {p}
      /\ handed' = <<p[2], p[2]>>
      /\ moved' = {b \in moved : refs'[b] > 0}
      /\ UNCHANGED <<pad, nBufNum, flight, leaked, streamOn>>
  BY <1>1 DEF DequeueCounted, Counted
<1>3. \A j \in SlotIds :
        /\ slot'[j] \in Slot
        /\ slot'[j].bQueued <=> slot[j].bQueued /\ j # p[1]
        /\ slot'[j].bQueued => slot'[j].buffer = slot[j].buffer
        /\ slot'[j].buffer \in {slot[j].buffer, NoBuf}
        /\ ~slot'[j].bSlotUsed => slot'[j].nUsedCnt = 0
        /\ slot'[j].buffer # NoBuf =>
             /\ slot'[j].bSlotUsed
             /\ slot'[j].nUsedCnt >= 1
             /\ slot'[j].nUsedCnt <= refs'[slot'[j].buffer] + Waiting(slot'[j])
             /\ slot'[j].buffer \notin moved =>
                  slot'[j].nUsedCnt = refs'[slot'[j].buffer] + Waiting(slot'[j])
        /\ slot[j].buffer # NoBuf /\ slot[j].buffer \notin moved /\ slot'[j].buffer = NoBuf
             => refs'[slot[j].buffer] = 0
  BY ReleasedSlot
<1>4. \A q \in held' : q \in held /\ q[1] # p[1] /\ q[2] # p[2]
                        /\ q[1] \in SlotIds /\ q[2] \in Bufs
  BY <1>1, <1>2 DEF SlotsInv, SlotsMatchDriver, Single, TypeOK
<1>5. flight # -1 => /\ flight \in SlotIds /\ flight # p[1]
                     /\ slot[flight].bQueued /\ slot[flight].buffer # p[2]
  BY <1>1 DEF SlotsInv, SlotsMatchDriver, Single, Owned, TypeOK
<1>6. refs \in [Bufs -> 0..MaxRefs]
  BY DEF SlotsInv, TypeOK
<1>7. TypeOK'
  <2>1. slot' \in [SlotIds -> Slot]
    BY <1>3 DEF DequeueCounted
  <2>2. held' \subseteq (SlotIds \X Bufs)
    BY <1>2 DEF SlotsInv, TypeOK
  <2>3. handed' \in (Bufs \union {NoBuf}) \X (Bufs \union {NoBuf})
    BY <1>1, <1>2
  <2>4. moved' \subseteq Bufs
    BY <1>2 DEF SlotsInv, TypeOK
  <2> QED
    BY <1>1, <1>2, <2>1, <2>2, <2>3, <2>4 DEF SlotsInv, TypeOK
<1>8. SlotsMatchDriver'
  <2>1. \A q \in held' : slot'[q[1]].bQueued /\ slot'[q[1]].buffer = q[2]
    BY <1>3, <1>4 DEF SlotsInv, SlotsMatchDriver
  <2>2. ASSUME NEW j \in SlotIds, slot'[j].bQueued
        PROVE  j = flight' \/ j \in leaked' \/ \E q \in held' : q[1] = j
    <3>1. slot[j].bQueued /\ j # p[1]
      BY <1>3, <2>2
    <3> QED
      BY <1>2, <3>1 DEF SlotsInv, SlotsMatchDriver
  <2>3. flight' # -1 => slot'[flight'].bQueued /\ \A q \in held' : q[1] # flight'
    BY <1>2, <1>3, <1>4, <1>5 DEF SlotsInv, SlotsMatchDriver
  <2>4. handed'[1] = handed'[2]
    BY <1>2
  <2> QED
    BY <2>1, <2>2, <2>3, <2>4 DEF SlotsMatchDriver, HandsOutWhatWasFilled
<1>9. Counts'
  <2>1. leaked' = {} /\ \A b \in moved' : refs'[b] > 0
    BY <1>2 DEF SlotsInv, Counts
  <2>2. \A j \in SlotIds : slot'[j].bQueued => slot'[j].buffer # NoBuf
    BY <1>2, <1>3 DEF SlotsInv, Counts
  <2>3. \A j, k \in SlotIds :
          slot'[j].buffer = slot'[k].buffer /\ slot'[j].buffer # NoBuf => j = k
    BY <1>2, <1>3 DEF SlotsInv, Counts
  <2> QED
    BY <1>2, <1>3, <2>1, <2>2, <2>3 DEF Counts, Counted, Waiting
<1>10. CountsMatchReferences'
  <2>1. ASSUME NEW b \in Bufs \ moved', refs'[b] > 0
        PROVE  \E j \in SlotIds : slot'[j].buffer = b
    <3>1. b \notin moved
      BY <1>2, <2>1
    <3>2. PICK j \in SlotIds : slot[j].buffer = b
      <4>1. CASE b = p[2]
        BY <1>1, <4>1
      <4>2. CASE b # p[2]
        <5>1. refs[b] > 0
          BY <1>1, <1>6, <2>1, <4>2
        <5> QED
          BY <1>2, <3>1, <5>1 DEF SlotsInv, CountsMatchReferences
      <4> QED
        BY <4>1, <4>2
    <3>3. b # NoBuf /\ refs'[b] # 0
      BY <1>1, <2>1
    <3>4. slot'[j].buffer = b
      BY <1>3, <3>1, <3>2, <3>3
    <3> QED
      BY <3>4
  <2>2. ASSUME NEW j \in SlotIds, slot'[j].buffer # NoBuf, slot'[j].buffer \notin moved'
        PROVE  slot'[j].nUsedCnt = refs'[slot'[j].buffer] + Waiting(slot'[j])
    <3>1. slot'[j] \in Slot /\ slot'[j].buffer \in Bufs
      BY <1>3, <2>2 DEF Slot
    <3>2. CASE slot'[j].buffer \notin moved
      BY <1>3, <2>2, <3>2
    <3>3. CASE slot'[j].buffer \in moved
      <4>1. refs'[slot'[j].buffer] = 0
        BY <1>1, <1>2, <2>2, <3>1, <3>3
      <4> QED
        BY <1>3, <2>2, <3>1, <4>1 DEF Waiting, Slot
    <3> QED
      BY <3>2, <3>3
  <2> QED
    BY <1>9, <1>2, <2>1, <2>2 DEF CountsMatchReferences, Counts, Counted, Waiting
<1>11. Single'
  <2>1. \A q, r \in held' : q[2] = r[2] => q = r
    BY <1>2 DEF SlotsInv, Single
  <2>2. \A b \in Bufs : b # p[2] => refs'[b] <= refs[b]
    BY <1>1, <1>6
  <2>3. \A q \in held' : refs'[q[2]] < MaxRefs
    <3> SUFFICES ASSUME NEW q \in held' PROVE refs'[q[2]] < MaxRefs
      OBVIOUS
    <3>1. refs'[q[2]] <= refs[q[2]] /\ refs[q[2]] < MaxRefs
      BY <1>4, <2>2 DEF SlotsInv, Single
    <3>2. refs'[q[2]] \in Int /\ refs[q[2]] \in Int
      BY <1>1, <1>4, <1>6
    <3> QED
      BY <3>1, <3>2
  <2>4. flight' # -1 => /\ slot'[flight'].buffer \in Bufs
                        /\ \A q \in held' : q[2] # slot'[flight'].buffer
                        /\ refs'[slot'[flight'].buffer] < MaxRefs
    <3> SUFFICES ASSUME flight # -1
                 PROVE  /\ slot'[flight].buffer \in Bufs
                        /\ \A q \in held' : q[2] # slot'[flight].buffer
                        /\ refs'[slot'[flight].buffer] < MaxRefs
      BY <1>2
    <3>1. slot'[flight].buffer = slot[flight].buffer
      BY <1>3, <1>5
    <3>2. /\ slot[flight].buffer \in Bufs
          /\ \A q \in held : q[2] # slot[flight].buffer
          /\ refs[slot[flight].buffer] < MaxRefs
      BY DEF SlotsInv, Single, Owned
    <3>3. refs'[slot[flight].buffer] \in Int /\ refs[slot[flight].buffer] \in Int
      BY <1>1, <1>6, <3>2
    <3> QED
      BY <1>2, <1>5, <2>2, <3>1, <3>2, <3>3
  <2> QED
    BY <2>1, <2>3, <2>4 DEF Single, Owned
<1>12. Beyond'
  <2> SUFFICES ASSUME NEW j \in SlotIds, j \notin Slots PROVE slot'[j] = Zeroed
    BY <1>2 DEF Beyond, Slots
  <2>1. slot[j] = Zeroed /\ slot[j].buffer = NoBuf /\ j # p[1]
    <3>1. slot[j] = Zeroed
      BY DEF SlotsInv, Beyond
    <3>2. ~slot[j].bQueued /\ slot[j].buffer = NoBuf
      BY <3>1 DEF Zeroed
    <3> QED
      BY <1>1, <3>1, <3>2
  <2>2. slot'[j] = Released(slot[j], R)
    BY <2>1 DEF DequeueCounted
  <2> QED
    BY <2>1, <2>2 DEF Released
<1> QED
  BY <1>7, <1>8, <1>9, <1>10, <1>11, <1>12 DEF SlotsInv

-----------------------------------------------------------------------------
(* The theorems.                                                           *)

LEMMA NextInv == SlotsInv /\ [Next]_slotVars => SlotsInv'
<1> SUFFICES ASSUME SlotsInv, [Next]_slotVars PROVE SlotsInv'
  OBVIOUS
<1>1. CASE Next
  <2>1. ASSUME NEW n \in 1..MaxSlots, NEW got \in 1..MaxSlots, Setup(n, got)
        PROVE  SlotsInv'
    BY <2>1, SetupInv
  <2>2. CASE Cleanup
    BY <2>2, CleanupInv
  <2>3. CASE Run
    BY <2>3, RunInv
  <2>4. CASE Stop
    BY <2>4, StopInv
  <2>5. ASSUME NEW b \in Bufs, NEW i \in SlotIds,
               EnqueueBegin(b, i) \/ EnqueueRateFails(b, i)
        PROVE  SlotsInv'
    BY <2>5, EnqueueBeginInv, EnqueueRateFailsInv
  <2>6. CASE EnqueueQbuf
    BY <2>6, EnqueueQbufInv
  <2>7. CASE EnqueueFails
    BY <2>7, EnqueueFailsInv
  <2>8. ASSUME NEW p \in held, DequeueInbuf(p) \/ DequeueOutbuf(p)
        PROVE  SlotsInv'
    <3>1. ~Counted
      BY <2>8 DEF DequeueInbuf, DequeueOutbuf, Counted
    <3> QED
      BY <2>8, <3>1, DequeuePlainInv
  <2>9. ASSUME NEW p \in held, NEW R \in SUBSET Bufs, DequeueCounted(p, R)
        PROVE  SlotsInv'
    BY <2>9, DequeueCountedInv
  <2> QED
    BY <1>1, <2>1, <2>2, <2>3, <2>4, <2>5, <2>6, <2>7, <2>8, <2>9 DEF Next
<1>2. CASE UNCHANGED slotVars
  <2> USE <1>2 DEF slotVars, SlotsInv
  <2>1. TypeOK' /\ SlotsMatchDriver'
    BY DEF TypeOK, SlotsMatchDriver, HandsOutWhatWasFilled
  <2>2. CountsMatchReferences' /\ Counts'
    BY DEF CountsMatchReferences, Counts, Counted, Waiting
  <2>3. Single' /\ Beyond'
    BY DEF Single, Owned, Beyond, Slots
  <2> QED
    BY <2>1, <2>2, <2>3
<1> QED
  BY <1>1, <1>2

\* The invariant holds in every behaviour of a pad.
THEOREM Invariant == Spec => []SlotsInv
<1>1. Init => SlotsInv
  BY InitInv
<1>2. SlotsInv /\ [Next]_slotVars => SlotsInv'
  BY NextInv
<1> QED
  BY <1>1, <1>2, PTL DEF Spec

\* The variables keep their types; no count leaves its range, no slot number
\* its array, whatever the number of slots.
THEOREM TypeCorrect == Spec => []TypeOK
<1>1. SlotsInv => TypeOK
  BY DEF SlotsInv
<1> QED
  BY <1>1, Invariant, PTL

\* Find_Inbuf, Find_Outbuf, the enqueues, dequeues and stops of a pad keep the
\* slots and the driver's queue in step: a dequeue hands out the buffer that
\* the driver has filled.
THEOREM SlotsFollowDriver == Spec => []SlotsMatchDriver
<1>1. SlotsInv => SlotsMatchDriver
  BY DEF SlotsInv
<1> QED
  BY <1>1, Invariant, PTL

\* A decoder's reference counts (BufferIndexFree and its callers) are those of
\* the driver, unless a failed QBUF wiped the slot.
THEOREM CountsFollowReferences == Spec => []CountsMatchReferences
<1>1. SlotsInv => CountsMatchReferences
  BY DEF SlotsInv
<1> QED
  BY <1>1, Invariant, PTL

-----------------------------------------------------------------------------
(***************************************************************************)
(* The resources of a context.                                             *)

\* The element x is somewhere in s.
Occurs(x, s) == \E n \in DOMAIN s : s[n] = x

LEMMA OccursConcat ==
  ASSUME NEW S, NEW s \in Seq(S), NEW t \in Seq(S)
  PROVE  /\ s \o t \in Seq(S) /\ Len(s \o t) = Len(s) + Len(t)
         /\ \A x : Occurs(x, s \o t) <=> Occurs(x, s) \/ Occurs(x, t)
<1>1. /\ s \o t \in Seq(S) /\ Len(s \o t) = Len(s) + Len(t)
      /\ \A i \in 1..(Len(s) + Len(t)) :
           (s \o t)[i] = IF i <= Len(s) THEN s[i] ELSE t[i - Len(s)]
  BY ConcatProperties
<1>2. ASSUME NEW x, Occurs(x, t) PROVE Occurs(x, s \o t)
  <2>1. PICK n \in 1..Len(t) : t[n] = x
    BY <1>2 DEF Occurs
  <2>2. n + Len(s) \in 1..(Len(s) + Len(t)) /\ ~(n + Len(s) <= Len(s)) /\ (n + Len(s)) - Len(s) = n
    OBVIOUS
  <2> QED
    BY <2>1, <2>2, <1>1 DEF Occurs
<1>3. ASSUME NEW x, Occurs(x, s) PROVE Occurs(x, s \o t)
  BY <1>1, <1>3 DEF Occurs
<1>4. ASSUME NEW x, Occurs(x, s \o t) PROVE Occurs(x, s) \/ Occurs(x, t)
  <2>1. PICK n \in 1..(Len(s) + Len(t)) : (s \o t)[n] = x
    BY <1>1, <1>4 DEF Occurs
  <2>2. CASE n <= Len(s)
    BY <2>1, <2>2, <1>1 DEF Occurs
  <2>3. CASE ~(n <= Len(s))
    <3>1. n - Len(s) \in 1..Len(t)
      BY <2>3
    <3> QED
      BY <2>1, <2>3, <3>1, <1>1 DEF Occurs
  <2> QED
    BY <2>2, <2>3
<1> QED
  BY <1>1, <1>2, <1>3, <1>4

\* A sequence of at most one element, as both KindsOf and Acquisitions are made of.
LEMMA OccursOne ==
  ASSUME NEW S, NEW a \in S, NEW P \in BOOLEAN
  PROVE  /\ (IF P THEN <<a>> ELSE <<>>) \in Seq(S)
         /\ Len(IF P THEN <<a>> ELSE <<>>) <= 1
         /\ \A x : Occurs(x, IF P THEN <<a>> ELSE <<>>) <=> P /\ x = a
  BY DEF Occurs

\* The shared memories of a context, in the order in which they are acquired.
KindIs(i, k) ==
  IF mode = "dec"
  THEN \/ k = "RefDPB" /\ "DrvDPBManage" \notin i.feats
       \/ k = "HDRDynamic" /\ "HDRDynamic" \in i.feats
       \/ k = "FilmGrain" /\ i.codec = "AV1"
  ELSE \/ k = "TemporalLayer" /\ "TemporalSvc" \in i.feats
       \/ k = "ROI" /\ "RoiInfo" \in i.feats
       \/ k = "HDRDynamic" /\ "HDRDynamic" \in i.feats
       \/ k = "HDRStat" /\ "HDRDynamicStat" \in i.feats

LEMMA OccursThrice ==
  ASSUME NEW S, NEW s \in Seq(S), NEW t \in Seq(S), NEW u \in Seq(S),
         Len(s) <= 1, Len(t) <= 1, Len(u) <= 1
  PROVE  /\ s \o t \o u \in Seq(S) /\ Len(s \o t \o u) <= 3
         /\ \A x : Occurs(x, s \o t \o u) <=> Occurs(x, s) \/ Occurs(x, t) \/ Occurs(x, u)
<1> DEFINE v == s \o t
<1>1. /\ v \in Seq(S) /\ Len(v) = Len(s) + Len(t)
      /\ \A x : Occurs(x, v) <=> Occurs(x, s) \/ Occurs(x, t)
  BY OccursConcat
<1> HIDE DEF v
<1> DEFINE w == v \o u
<1>2. /\ w \in Seq(S) /\ Len(w) = Len(v) + Len(u)
      /\ \A x : Occurs(x, w) <=> Occurs(x, v) \/ Occurs(x, u)
  BY <1>1, OccursConcat
<1>3. w = s \o t \o u
  BY DEF v
<1> HIDE DEF w
<1>4. Len(w) <= 3
  <2>1. Len(v) <= 2
    BY <1>1
  <2> QED
    BY <1>2, <2>1
<1>5. \A x : Occurs(x, w) <=> Occurs(x, s) \/ Occurs(x, t) \/ Occurs(x, u)
  BY <1>1, <1>2
<1> QED
  BY <1>2, <1>3, <1>4, <1>5

LEMMA KindsAre ==
  ASSUME NEW i
  PROVE  /\ Device!KindsOf(i) \in Seq(Device!Kinds)
         /\ Len(Device!KindsOf(i)) <= 4
         /\ \A k : k \in Device!ClearedKinds(i) <=> KindIs(i, k)
<1> DEFINE one(P, k) == IF P THEN <<k>> ELSE <<>>
           is(s, P, k) == /\ s \in Seq(Device!Kinds) /\ Len(s) <= 1
                          /\ \A x : Occurs(x, s) <=> P /\ x = k
<1>0. \A k : k \in Device!ClearedKinds(i) <=> Occurs(k, Device!KindsOf(i))
  BY DEF Device!ClearedKinds, Occurs
<1>1. ASSUME NEW P \in BOOLEAN, NEW k \in Device!Kinds PROVE is(one(P, k), P, k)
  BY OccursOne
<1>3. CASE mode = "dec"
  <2> DEFINE A == "DrvDPBManage" \notin i.feats
             B == "HDRDynamic" \in i.feats
             C == i.codec = "AV1"
             p == one(A, "RefDPB")
             q == one(B, "HDRDynamic")
             r == one(C, "FilmGrain")
  <2>1. Device!KindsOf(i) = p \o q \o r
    BY <1>3 DEF Device!KindsOf, Device!DecKinds
  <2>2. is(p, A, "RefDPB")
    BY <1>1 DEF Device!Kinds
  <2>3. is(q, B, "HDRDynamic")
    BY <1>1 DEF Device!Kinds
  <2>4. is(r, C, "FilmGrain")
    BY <1>1 DEF Device!Kinds
  <2> HIDE DEF p, q, r
  <2>5. /\ p \o q \o r \in Seq(Device!Kinds) /\ Len(p \o q \o r) <= 3
        /\ \A x : Occurs(x, p \o q \o r) <=> Occurs(x, p) \/ Occurs(x, q) \/ Occurs(x, r)
    BY <2>2, <2>3, <2>4, OccursThrice
  <2>6. /\ p \o q \o r \in Seq(Device!Kinds) /\ Len(p \o q \o r) <= 3
        /\ \A x : Occurs(x, p \o q \o r)
                    <=> (A /\ x = "RefDPB") \/ (B /\ x = "HDRDynamic") \/ (C /\ x = "FilmGrain")
    BY <2>5, <2>2, <2>3, <2>4
  <2> QED
    BY <1>0, <1>3, <2>1, <2>6 DEF KindIs
<1>4. CASE mode # "dec"
  <2> DEFINE A == "TemporalSvc" \in i.feats
             B == "RoiInfo" \in i.feats
             C == "HDRDynamic" \in i.feats
             D == "HDRDynamicStat" \in i.feats
             p == one(A, "TemporalLayer")
             q == one(B, "ROI")
             r == one(C, "HDRDynamic")
             s == p \o q \o r
             t == one(D, "HDRStat")
             u == s \o t
  <2>1. Device!KindsOf(i) = u
    BY <1>4 DEF Device!KindsOf, Device!EncKinds
  <2>2. is(p, A, "TemporalLayer")
    BY <1>1 DEF Device!Kinds
  <2>3. is(q, B, "ROI")
    BY <1>1 DEF Device!Kinds
  <2>4. is(r, C, "HDRDynamic")
    BY <1>1 DEF Device!Kinds
  <2>5. /\ t \in Seq(Device!Kinds) /\ Len(t) <= 1
        /\ \A x : Occurs(x, t) <=> D /\ x = "HDRStat"
    BY <1>1 DEF Device!Kinds
  <2> HIDE DEF p, q, r, t
  <2>6. /\ s \in Seq(Device!Kinds) /\ Len(s) <= 3
        /\ \A x : Occurs(x, s) <=> Occurs(x, p) \/ Occurs(x, q) \/ Occurs(x, r)
    BY <2>2, <2>3, <2>4, OccursThrice
  <2>7. /\ s \in Seq(Device!Kinds) /\ Len(s) <= 3
        /\ \A x : Occurs(x, s)
                    <=> (A /\ x = "TemporalLayer") \/ (B /\ x = "ROI") \/ (C /\ x = "HDRDynamic")
    BY <2>6, <2>2, <2>3, <2>4
  <2> HIDE DEF s
  <2>8. /\ u \in Seq(Device!Kinds) /\ Len(u) = Len(s) + Len(t)
        /\ \A x : Occurs(x, u) <=> Occurs(x, s) \/ Occurs(x, t)
    BY <2>5, <2>7, OccursConcat
  <2> HIDE DEF u
  <2>9. Len(u) <= 4
    <3>1. Len(u) = Len(s) + Len(t) /\ Len(s) <= 3 /\ Len(t) <= 1
      BY <2>5, <2>7, <2>8
    <3>2. Len(u) \in Nat /\ Len(s) \in Nat /\ Len(t) \in Nat
      BY <2>5, <2>7, <2>8
    <3> QED
      BY <3>1, <3>2
  <2>10. \A x : Occurs(x, u) <=> KindIs(i, x)
    BY <1>4, <2>5, <2>7, <2>8 DEF KindIs
  <2> QED
    BY <1>0, <2>1, <2>8, <2>9, <2>10
<1> QED
  BY <1>3, <1>4

LEMMA OccursUpToTwo ==
  ASSUME NEW S, NEW a \in S, NEW b \in S
  PROVE  /\ <<>> \in Seq(S) /\ \A x : ~Occurs(x, <<>>)
         /\ <<a>> \in Seq(S) /\ \A x : Occurs(x, <<a>>) <=> x = a
         /\ <<a, b>> \in Seq(S) /\ \A x : Occurs(x, <<a, b>>) <=> x = a \/ x = b
<1>1. <<>> \in Seq(S) /\ \A x : ~Occurs(x, <<>>)
  BY DEF Occurs
<1>2. <<a>> \in Seq(S) /\ \A x : Occurs(x, <<a>>) <=> x = a
  BY DEF Occurs
<1>3. <<a, b>> \in Seq(S) /\ \A x : Occurs(x, <<a, b>>) <=> x = a \/ x = b
  BY DEF Occurs
<1> QED
  BY <1>1, <1>2, <1>3

LEMMA OccursOfFour ==
  ASSUME NEW S, NEW a \in S, NEW b \in S, NEW c \in S, NEW d \in S
  PROVE  /\ <<a, b, c, d>> \in Seq(S)
         /\ \A x : Occurs(x, <<a, b, c, d>>) <=> x = a \/ x = b \/ x = c \/ x = d
  BY DEF Occurs

\* What Init acquires in any context: a name and a kind of shared memory.
Acquired == {"user", "query", "mutex", "ion", "fd", "map", "give"} \X (Device!Kinds \union {"none"})

LEMMA AcquireKindIs ==
  ASSUME NEW k \in Device!Kinds
  PROVE  /\ Device!AcquireKind(k) \in Seq(Acquired)
         /\ \A x : Occurs(x, Device!AcquireKind(k)) => x \in {<<"fd", k>>, <<"map", k>>, <<"give", k>>}
         /\ Occurs(<<"map", k>>, Device!AcquireKind(k))
<1> DEFINE f == <<"fd", k>>
           m == <<"map", k>>
           g == <<"give", k>>
           s == <<f, m>>
           t == IF k \in Device!Announced THEN <<g>> ELSE <<>>
<1>1. /\ s \in Seq(Acquired) /\ t \in Seq(Acquired)
      /\ \A x : Occurs(x, s) <=> x = f \/ x = m
      /\ \A x : Occurs(x, t) => x = g
  <2>1. f \in Acquired /\ m \in Acquired /\ g \in Acquired
    BY DEF Acquired
  <2> HIDE DEF f, m, g
  <2>2. s \in Seq(Acquired) /\ \A x : Occurs(x, s) <=> x = f \/ x = m
    BY <2>1, OccursUpToTwo
  <2>3. CASE k \in Device!Announced
    <3>1. t = <<g>>
      BY <2>3
    <3> QED
      BY <2>1, <2>2, <3>1, OccursUpToTwo
  <2>4. CASE k \notin Device!Announced
    <3>1. t = <<>>
      BY <2>4
    <3> QED
      BY <2>1, <2>2, <3>1, OccursUpToTwo
  <2> QED
    BY <2>3, <2>4
<1>2. Device!AcquireKind(k) = s \o t
  BY DEF Device!AcquireKind
<1> HIDE DEF s, t
<1>3. s \o t \in Seq(Acquired) /\ \A x : Occurs(x, s \o t) <=> Occurs(x, s) \/ Occurs(x, t)
  BY <1>1, OccursConcat
<1> QED
  BY <1>1, <1>2, <1>3

\* Init acquires what ResourceClear gives back: the shared memories of exactly
\* the kinds that the context's information stands for.
LEMMA AcquisitionsAre ==
  ASSUME NEW i
  PROVE  /\ Device!Acquisitions(i) \in Seq(Acquired)
         /\ \A x : Occurs(x, Device!Acquisitions(i)) =>
              \/ x[1] \in {"fd", "map", "give"} /\ x[2] \in Device!ClearedKinds(i)
              \/ x[1] \notin {"fd", "map", "give"} /\ x[2] = "none"
         /\ \A k \in Device!ClearedKinds(i) : Occurs(<<"map", k>>, Device!Acquisitions(i))
<1> DEFINE w == <<"user", "none">>
           x1 == <<"query", "none">>
           y == <<"mutex", "none">>
           z == <<"ion", "none">>
           ks == Device!KindsOf(i)
           of(n) == IF n <= Len(ks) THEN Device!AcquireKind(ks[n]) ELSE <<>>
           first == <<w, x1, y, z>>
           a1 == first \o of(1)
           a2 == a1 \o of(2)
           a3 == a2 \o of(3)
           a4 == a3 \o of(4)
<1>1. Device!Acquisitions(i) = a4
  BY DEF Device!Acquisitions
<1>2. /\ ks \in Seq(Device!Kinds) /\ Len(ks) <= 4
      /\ \A k : k \in Device!ClearedKinds(i) <=> \E n \in 1..Len(ks) : ks[n] = k
      /\ Device!ClearedKinds(i) \subseteq Device!Kinds
  <2>1. ks \in Seq(Device!Kinds) /\ Len(ks) <= 4
    BY KindsAre
  <2> QED
    BY <2>1 DEF Device!ClearedKinds
<1>3. /\ first \in Seq(Acquired)
      /\ \A x : Occurs(x, first) => x[1] \notin {"fd", "map", "give"} /\ x[2] = "none"
  <2>1. w \in Acquired /\ x1 \in Acquired /\ y \in Acquired /\ z \in Acquired
    BY DEF Acquired
  <2>2. /\ \A k \in {"fd", "map", "give"} : w[1] # k /\ x1[1] # k /\ y[1] # k /\ z[1] # k
        /\ w[2] = "none" /\ x1[2] = "none" /\ y[2] = "none" /\ z[2] = "none"
    OBVIOUS
  <2> HIDE DEF w, x1, y, z
  <2>3. /\ first \in Seq(Acquired)
        /\ \A x : Occurs(x, first) => x = w \/ x = x1 \/ x = y \/ x = z
    BY <2>1, OccursOfFour
  <2> HIDE DEF first
  <2> QED
    BY <2>2, <2>3
<1>4. ASSUME NEW n \in 1..4
      PROVE  /\ of(n) \in Seq(Acquired)
             /\ \A x : Occurs(x, of(n)) =>
                  x[1] \in {"fd", "map", "give"} /\ x[2] \in Device!ClearedKinds(i)
             /\ n <= Len(ks) => Occurs(<<"map", ks[n]>>, of(n))
  <2> HIDE DEF ks
  <2>1. CASE n <= Len(ks)
    <3>1. n \in 1..Len(ks) /\ ks[n] \in Device!Kinds
      BY <1>2, <2>1
    <3>2. of(n) = Device!AcquireKind(ks[n])
      BY <2>1
    <3>3. ks[n] \in Device!ClearedKinds(i)
      BY <1>2, <3>1
    <3> HIDE DEF of
    <3>4. /\ of(n) \in Seq(Acquired)
          /\ \A x : Occurs(x, of(n)) => x \in {<<"fd", ks[n]>>, <<"map", ks[n]>>, <<"give", ks[n]>>}
          /\ Occurs(<<"map", ks[n]>>, of(n))
      BY <3>1, <3>2, AcquireKindIs
    <3> QED
      BY <3>3, <3>4
  <2>2. CASE ~(n <= Len(ks))
    <3>1. of(n) = <<>>
      BY <2>2
    <3> HIDE DEF of
    <3>2. of(n) \in Seq(Acquired) /\ \A x : ~Occurs(x, of(n))
      <4>1. <<"user", "none">> \in Acquired
        BY DEF Acquired
      <4> QED
        BY <3>1, <4>1, OccursUpToTwo
    <3> QED
      BY <2>2, <3>2
  <2> QED
    BY <2>1, <2>2
<1> HIDE DEF ks, of, first
<1>5. /\ a1 \in Seq(Acquired)
      /\ \A x : Occurs(x, a1) <=> Occurs(x, first) \/ Occurs(x, of(1))
  BY <1>3, <1>4, OccursConcat
<1> HIDE DEF a1
<1>6. /\ a2 \in Seq(Acquired)
      /\ \A x : Occurs(x, a2) <=> Occurs(x, a1) \/ Occurs(x, of(2))
  BY <1>5, <1>4, OccursConcat
<1> HIDE DEF a2
<1>7. /\ a3 \in Seq(Acquired)
      /\ \A x : Occurs(x, a3) <=> Occurs(x, a2) \/ Occurs(x, of(3))
  BY <1>6, <1>4, OccursConcat
<1> HIDE DEF a3
<1>8. /\ a4 \in Seq(Acquired)
      /\ \A x : Occurs(x, a4) <=> Occurs(x, a3) \/ Occurs(x, of(4))
  BY <1>7, <1>4, OccursConcat
<1> HIDE DEF a4
<1>9. \A x : Occurs(x, a4) <=> \/ Occurs(x, first) \/ Occurs(x, of(1)) \/ Occurs(x, of(2))
                               \/ Occurs(x, of(3)) \/ Occurs(x, of(4))
  BY <1>5, <1>6, <1>7, <1>8
<1>10. ASSUME NEW x, Occurs(x, a4)
       PROVE  \/ x[1] \in {"fd", "map", "give"} /\ x[2] \in Device!ClearedKinds(i)
              \/ x[1] \notin {"fd", "map", "give"} /\ x[2] = "none"
  <2>1. CASE Occurs(x, first)
    BY <1>3, <2>1
  <2>2. CASE \E n \in 1..4 : Occurs(x, of(n))
    BY <1>4, <2>2
  <2> QED
    BY <1>9, <1>10, <2>1, <2>2
<1>11. ASSUME NEW k \in Device!ClearedKinds(i) PROVE Occurs(<<"map", k>>, a4)
  <2>1. PICK n \in 1..Len(ks) : ks[n] = k
    BY <1>2
  <2>2. n = 1 \/ n = 2 \/ n = 3 \/ n = 4
    <3>1. Len(ks) \in Nat
      BY <1>2
    <3> QED
      BY <1>2, <3>1
  <2>3. n \in 1..4 /\ n <= Len(ks)
    BY <2>2
  <2>4. Occurs(<<"map", k>>, of(n))
    BY <1>4, <2>1, <2>3
  <2> QED
    BY <1>9, <2>2, <2>4
<1> QED
  BY <1>1, <1>8, <1>10, <1>11

LEMMA KindsInKinds == \A k \in Device!ClearedKinds(inst) : k \in Device!Kinds
  BY KindsAre DEF Device!ClearedKinds

LEMMA ReadyHolds ==
  ASSUME mode \in {"dec", "enc"}, NEW i, NEW k \in Device!ClearedKinds(i)
  PROVE  <<"map", k>> \in Device!Resources
<1>1. k \in Device!Kinds
  BY KindsAre DEF Device!ClearedKinds
<1> QED
  BY <1>1 DEF Device!Resources

\* What a context holds is what Init has acquired so far, by its own information
\* and no other; a context that is ready has acquired everything.
DeviceInv ==
  /\ Device!TypeOK
  /\ Device!NothingLeaks
  /\ Device!SharedMemoryMapped
  /\ inst.codec = info.codec
  /\ life = "init" => wild = {}
  /\ \A r \in resources : r[1] \in {"fd", "map"} => r[2] \in Device!ClearedKinds(inst)
  /\ life = "init" =>
       \A n \in 1..step : Device!Acquisitions(inst)[n] \in Device!Resources
                           => Device!Acquisitions(inst)[n] \in resources
  /\ life = "ready" => \A k \in Device!ClearedKinds(inst) : <<"map", k>> \in resources

\* What a context holds depends on its information alone.
LEMMA SameInfo ==
  ASSUME inst' = inst, mode' = mode
  PROVE  /\ Device!ClearedKinds(inst)' = Device!ClearedKinds(inst)
         /\ Device!Acquisitions(inst)' = Device!Acquisitions(inst)
  BY DEF Device!ClearedKinds, Device!KindsOf, Device!DecKinds, Device!EncKinds,
         Device!Acquisitions, Device!AcquireKind

LEMMA FeaturesType == ASSUME mode \in {"dec", "enc"} PROVE Device!FeaturesOf[mode] \subseteq Device!Features
  BY DEF Device!FeaturesOf, Device!Features

LEMMA DeviceInit == Device!Init => DeviceInv
<1> SUFFICES ASSUME Device!Init PROVE DeviceInv
  OBVIOUS
<1> USE DEF Device!Init
<1>1. info \in Device!InstInfoType
  BY DEF Device!InstInfoType, Device!CodecsOf, Device!Codecs
<1>2. Device!TypeOK
  BY <1>1 DEF Device!TypeOK
<1>3. Device!NothingLeaks /\ Device!SharedMemoryMapped
  BY DEF Device!NothingLeaks, Device!SharedMemoryMapped
<1> QED
  BY <1>2, <1>3 DEF DeviceInv

\* Every memory that an operation touches in a context that is ready is mapped,
\* but for the one exception.
LEMMA DeviceTouch ==
  ASSUME DeviceInv, life = "ready", NEW k, Device!Touch(k), inst' = inst, k \in Device!Kinds,
         k \in Device!ClearedKinds(inst)
           \/ (mode = "enc" /\ "TemporalSvc" \notin inst.feats /\ k = "TemporalLayer"),
         given' \subseteq Device!Kinds
  PROVE  DeviceInv'
<1> USE DEF DeviceInv, Device!Touch
<1>1. Device!TypeOK'
  BY DEF Device!TypeOK
<1>2. Device!NothingLeaks'
  BY DEF Device!NothingLeaks
<1>3. Device!SharedMemoryMapped'
  BY DEF Device!SharedMemoryMapped
<1>4. Device!ClearedKinds(inst)' = Device!ClearedKinds(inst)
  BY SameInfo
<1> QED
  BY <1>1, <1>2, <1>3, <1>4

LEMMA DeviceClear ==
  ASSUME DeviceInv, Device!ResourceClear
  PROVE  DeviceInv'
<1> USE DEF DeviceInv, Device!ResourceClear
<1>1. resources' = {}
  BY DEF Device!TypeOK
<1>2. Device!TypeOK'
  BY DEF Device!TypeOK
<1>3. Device!NothingLeaks' /\ Device!SharedMemoryMapped'
  BY <1>1 DEF Device!NothingLeaks, Device!SharedMemoryMapped
<1> QED
  BY <1>1, <1>2, <1>3

\* The query keeps the codec type and reports features of the kind of driver.
LEMMA InstInfoIs ==
  ASSUME mode \in {"dec", "enc"}, NEW i \in Device!InstInfoType, NEW j \in Device!InstInfo(i)
  PROVE  j \in Device!InstInfoType /\ j.codec = i.codec
<1>1. Device!FeaturesOf[mode] \subseteq Device!Features
  BY FeaturesType
<1>2. CASE j = [i EXCEPT !.feats = {}]
  BY <1>2 DEF Device!InstInfoType
<1>3. CASE j \in [codec : {i.codec}, feats : SUBSET Device!FeaturesOf[mode], ready : BOOLEAN]
  <2>1. j.feats \subseteq Device!Features
    BY <1>1, <1>3
  <2> QED
    BY <1>3, <2>1 DEF Device!InstInfoType
<1> QED
  BY <1>2, <1>3 DEF Device!InstInfo

LEMMA DeviceOpen ==
  ASSUME DeviceInv, Device!InitOpen
  PROVE  DeviceInv'
<1>0. mode \in {"dec", "enc"} /\ info \in Device!InstInfoType
  BY DEF DeviceInv, Device!TypeOK
<1>1. info' \in Device!InstInfoType
  BY <1>0, InstInfoIs DEF Device!InitOpen
<1>2. /\ inst' = info' /\ step' = 0 /\ life' = "init" /\ given' = {} /\ wild' = {} /\ mode' = mode
      /\ resources' = {<<"context", "none">>, <<"device", "none">>}
  BY DEF Device!InitOpen
<1>3. Device!TypeOK'
  <2>1. resources' \subseteq Device!Resources
    BY <1>2 DEF Device!Resources
  <2> QED
    BY <1>0, <1>1, <1>2, <2>1 DEF Device!TypeOK
<1>4. Device!NothingLeaks' /\ Device!SharedMemoryMapped'
  BY <1>2 DEF Device!NothingLeaks, Device!SharedMemoryMapped
<1>5. \A r \in resources' : r[1] \notin {"fd", "map"}
  BY <1>2
<1>6. \A n \in 1..step' : FALSE
  BY <1>2
<1> QED
  BY <1>2, <1>3, <1>4, <1>5, <1>6 DEF DeviceInv

LEMMA DeviceAcquire ==
  ASSUME DeviceInv, Device!InitAcquire
  PROVE  DeviceInv'
<1> DEFINE A == Device!Acquisitions(inst)
           r == A[step + 1]
<1>1. A \in Seq(Acquired) /\ step \in Nat /\ step < Len(A)
  BY AcquisitionsAre DEF DeviceInv, Device!TypeOK, Device!InitAcquire
<1>2. /\ Device!ClearedKinds(inst)' = Device!ClearedKinds(inst)
      /\ Device!Acquisitions(inst)' = A
  BY SameInfo DEF Device!InitAcquire
<1>3. /\ \/ resources' = resources \union ({r} \intersect Device!Resources)
         \/ r[1] = "mutex" /\ resources' = resources \union {r, <<"epoll", "none">>}
      /\ given' = IF r[1] = "give" THEN given \union {r[2]} ELSE given
      /\ step' = step + 1 /\ life = "init"
      /\ mode' = mode /\ info' = info /\ inst' = inst /\ life' = life /\ wild' = wild
  BY DEF Device!InitAcquire
<1>4. \A x : Occurs(x, A) =>
        \/ x[1] \in {"fd", "map", "give"} /\ x[2] \in Device!ClearedKinds(inst)
        \/ x[1] \notin {"fd", "map", "give"} /\ x[2] = "none"
  BY AcquisitionsAre
<1>5. \A n \in 1..step : A[n] \in Device!Resources => A[n] \in resources
  BY <1>3 DEF DeviceInv
<1> HIDE DEF A
<1>6. Len(A) \in Nat /\ step + 1 \in 1..Len(A)
  BY <1>1
<1>7. r \in Acquired /\ Occurs(r, A)
  BY <1>1, <1>6 DEF Occurs
<1> HIDE DEF r
<1>8. \/ r[1] \in {"fd", "map", "give"} /\ r[2] \in Device!ClearedKinds(inst)
      \/ r[1] \notin {"fd", "map", "give"} /\ r[2] = "none"
  BY <1>4, <1>7
<1>9. Device!TypeOK'
  <2>1. r[1] = "mutex" => r \in Device!Resources
    BY <1>7, <1>8 DEF Acquired, Device!Resources
  <2>2. <<"epoll", "none">> \in Device!Resources
    BY DEF Device!Resources
  <2>3. resources' \subseteq Device!Resources
    BY <1>3, <2>1, <2>2 DEF DeviceInv, Device!TypeOK
  <2>4. given' \subseteq Device!Kinds
    BY <1>8, <1>3, KindsInKinds DEF DeviceInv, Device!TypeOK
  <2> QED
    BY <1>1, <1>3, <2>3, <2>4 DEF DeviceInv, Device!TypeOK
<1>10. Device!NothingLeaks' /\ Device!SharedMemoryMapped'
  BY <1>3 DEF DeviceInv, Device!NothingLeaks, Device!SharedMemoryMapped
<1>11. \A x \in resources' : x[1] \in {"fd", "map"} => x[2] \in Device!ClearedKinds(inst)
  <2>1. <<"epoll", "none">>[1] = "epoll"
    OBVIOUS
  <2>2. \A x \in resources : x[1] \in {"fd", "map"} => x[2] \in Device!ClearedKinds(inst)
    BY DEF DeviceInv
  <2> QED
    BY <1>8, <1>3, <2>1, <2>2
<1>12. \A n \in 1..step' : A[n] \in Device!Resources => A[n] \in resources'
  <2> SUFFICES ASSUME NEW n \in 1..(step + 1), A[n] \in Device!Resources PROVE A[n] \in resources'
    BY <1>3
  <2>1. CASE n = step + 1
    BY <1>3, <2>1 DEF r
  <2>2. CASE n # step + 1
    <3>1. n \in 1..step
      BY <1>1, <2>2
    <3> QED
      BY <1>3, <1>5, <3>1
  <2> QED
    BY <2>1, <2>2
<1> QED
  BY <1>2, <1>3, <1>9, <1>10, <1>11, <1>12 DEF DeviceInv

LEMMA DeviceStep == DeviceInv /\ [Device!Next]_(Device!deviceVars) => DeviceInv'
<1> SUFFICES ASSUME DeviceInv, [Device!Next]_(Device!deviceVars) PROVE DeviceInv'
  OBVIOUS
<1>1. /\ mode \in {"dec", "enc"} /\ info \in Device!InstInfoType /\ inst \in Device!InstInfoType
      /\ given \subseteq Device!Kinds
  BY DEF DeviceInv, Device!TypeOK
<1>2. \A k : k \in Device!ClearedKinds(inst) <=> KindIs(inst, k)
  BY KindsAre
<1>3. CASE Device!Probe
  <2>1. info' \in Device!InstInfoType /\ info'.codec = info.codec
    BY <1>1, <1>3, InstInfoIs DEF Device!Probe
  <2>2. /\ inst' = inst /\ mode' = mode /\ step' = step /\ life' = life /\ given' = given
        /\ wild' = wild /\ resources' = resources
    BY <1>3 DEF Device!Probe
  <2>3. Device!TypeOK'
    BY <2>1, <2>2 DEF DeviceInv, Device!TypeOK
  <2>4. /\ Device!ClearedKinds(inst)' = Device!ClearedKinds(inst)
        /\ Device!Acquisitions(inst)' = Device!Acquisitions(inst)
    BY <2>2, SameInfo
  <2> QED
    BY <2>1, <2>2, <2>3, <2>4 DEF DeviceInv, Device!NothingLeaks, Device!SharedMemoryMapped
<1>4. CASE Device!InitOpen
  BY <1>4, DeviceOpen
<1>5. CASE Device!InitAcquire
  BY <1>5, DeviceAcquire
<1>6. CASE Device!InitDone
  <2> DEFINE A == Device!Acquisitions(inst)
  <2>1. /\ life = "init" /\ step = Len(A) /\ life' = "ready"
        /\ inst' = inst /\ mode' = mode /\ step' = step /\ given' = given /\ info' = info
        /\ wild' = wild /\ resources' = resources
    BY <1>6 DEF Device!InitDone
  <2>2. /\ Device!ClearedKinds(inst)' = Device!ClearedKinds(inst)
        /\ A \in Seq(Acquired)
        /\ \A k \in Device!ClearedKinds(inst) : Occurs(<<"map", k>>, A)
    BY <2>1, SameInfo, AcquisitionsAre
  <2>3. \A n \in 1..step : A[n] \in Device!Resources => A[n] \in resources
    BY <2>1 DEF DeviceInv
  <2>5. step = Len(A)
    BY <2>1
  <2> HIDE DEF A
  <2>4. \A k \in Device!ClearedKinds(inst) : <<"map", k>> \in resources
    <3> SUFFICES ASSUME NEW k \in Device!ClearedKinds(inst) PROVE <<"map", k>> \in resources
      OBVIOUS
    <3>1. PICK n \in 1..Len(A) : A[n] = <<"map", k>>
      BY <2>2 DEF Occurs
    <3>2. n \in 1..step
      BY <2>5, <3>1
    <3>3. <<"map", k>> \in Device!Resources
      BY <1>1, ReadyHolds
    <3> QED
      BY <2>3, <3>1, <3>2, <3>3
  <2>6. Device!TypeOK'
    BY <2>1 DEF DeviceInv, Device!TypeOK
  <2> QED
    BY <2>1, <2>2, <2>4, <2>6 DEF DeviceInv, Device!NothingLeaks, Device!SharedMemoryMapped
<1>7. CASE Device!InitFail
  BY <1>7, DeviceClear DEF Device!InitFail
<1>8. CASE Device!Finalize
  BY <1>8, DeviceClear DEF Device!Finalize
<1>9. CASE Device!SetGeometryInbuf
  <2>1. inst' = inst
    BY <1>1, <1>9 DEF Device!SetGeometryInbuf, DeviceInv, Device!InstInfoType
  <2>2. /\ mode' = mode /\ step' = step /\ life' = life /\ given' = given /\ info' = info
        /\ wild' = wild /\ resources' = resources
    BY <1>9 DEF Device!SetGeometryInbuf
  <2>3. /\ Device!ClearedKinds(inst)' = Device!ClearedKinds(inst)
        /\ Device!Acquisitions(inst)' = Device!Acquisitions(inst)
    BY <2>1, <2>2, SameInfo
  <2> QED
    BY <2>1, <2>2, <2>3 DEF DeviceInv, Device!TypeOK, Device!NothingLeaks, Device!SharedMemoryMapped
<1>10. CASE Device!SetupOutbuf
  <2>1. /\ mode' = mode /\ step' = step /\ life' = life /\ info' = info /\ inst' = inst
        /\ wild' = wild /\ resources' = resources /\ given' = given \union {"RefDPB"}
    BY <1>10 DEF Device!SetupOutbuf
  <2>2. given' \subseteq Device!Kinds
    BY <1>1, <2>1 DEF Device!Kinds
  <2>3. /\ Device!ClearedKinds(inst)' = Device!ClearedKinds(inst)
        /\ Device!Acquisitions(inst)' = Device!Acquisitions(inst)
    BY <2>1, SameInfo
  <2> QED
    BY <2>1, <2>2, <2>3 DEF DeviceInv, Device!TypeOK, Device!NothingLeaks, Device!SharedMemoryMapped
<1>11. ASSUME NEW k \in Device!Kinds, Device!DecStateProcessing(k) PROVE DeviceInv'
  BY <1>1, <1>11, <1>2, DeviceTouch DEF Device!DecStateProcessing, KindIs
<1>12. CASE Device!EncEnqueueInbuf
  BY <1>1, <1>12, <1>2, DeviceTouch DEF Device!EncEnqueueInbuf, KindIs, Device!Kinds
<1>13. CASE Device!EncStateProcessing
  BY <1>1, <1>13, <1>2, DeviceTouch DEF Device!EncStateProcessing, KindIs, Device!Kinds
<1>14. CASE Device!SetRoiInfo
  BY <1>1, <1>14, <1>2, DeviceTouch DEF Device!SetRoiInfo, KindIs, Device!Kinds
<1>15. CASE Device!SetLayerChange
  BY <1>1, <1>15, <1>2, DeviceTouch DEF Device!SetLayerChange, KindIs, Device!Kinds
<1>16. CASE UNCHANGED Device!deviceVars
  <2>1. /\ mode' = mode /\ step' = step /\ life' = life /\ info' = info /\ inst' = inst
        /\ wild' = wild /\ resources' = resources /\ given' = given
    BY <1>16 DEF Device!deviceVars
  <2>2. /\ Device!ClearedKinds(inst)' = Device!ClearedKinds(inst)
        /\ Device!Acquisitions(inst)' = Device!Acquisitions(inst)
    BY <2>1, SameInfo
  <2> QED
    BY <2>1, <2>2 DEF DeviceInv, Device!TypeOK, Device!NothingLeaks, Device!SharedMemoryMapped
<1> QED
  BY <1>3, <1>4, <1>5, <1>6, <1>7, <1>8, <1>9, <1>10, <1>11, <1>12, <1>13, <1>14, <1>15, <1>16
     DEF Device!Next

\* A context of a codec, closed or refused at any point of its opening and setup,
\* has given back what it took, and no call reads a shared memory that is not mapped
\* (Exynos_Video_*_Init, Finalize and the calls that share memory with the driver).
THEOREM DeviceSafe == Device!Spec => [](Device!NothingLeaks /\ Device!SharedMemoryMapped)
<1>2. DeviceInv => Device!NothingLeaks /\ Device!SharedMemoryMapped
  BY DEF DeviceInv
<1> QED
  BY <1>2, DeviceInit, DeviceStep, PTL DEF Device!Spec

-----------------------------------------------------------------------------
(***************************************************************************)
(* The manager of a decoder's output buffers.                              *)

\* What a descriptor refers to: a memory, or one of the two marks.
Referred == Bufs \union {"closed", "stdout"}

LEMMA Marks ==
  /\ Buffers!NoFd = -1 /\ Buffers!NoFd \notin Fds
  /\ Buffers!NoKey \notin Bufs /\ "closed" \notin Bufs /\ Buffers!STDOUT \notin Bufs
  /\ Buffers!STDOUT = "stdout"
<1>1. "closed" \notin Bufs /\ "stdout" \notin Bufs /\ "nokey" \notin Bufs
  BY ResourcesAssumption
<1>2. -1 \notin Fds
  BY ResourcesAssumption
<1> QED
  BY <1>1, <1>2 DEF Buffers!NoFd, Buffers!NoKey, Buffers!STDOUT

\* The uses that the map of descriptors counts for a memory.
Count(map, k) == IF k \in DOMAIN map THEN map[k].dupCount ELSE 0

\* Descriptors and their map belong together.  Each memory of the map has a number
\* of its own, which refers to the memory while it is in use and to STDOUT while it
\* is kept; no number is open that is not in the map, but for those that a dup2()
\* failed on, and those stay open.
DescOK(d) ==
  /\ d = [file |-> d.file, map |-> d.map, lost |-> d.lost]
  /\ d.file \in [Fds -> Referred]
  /\ DOMAIN d.map \subseteq Bufs /\ d.map = [k \in DOMAIN d.map |-> d.map[k]]
  /\ \A k \in DOMAIN d.map : d.map[k] \in [fd : Fds \union {-1}, dupCount : Nat]
  /\ \A k \in DOMAIN d.map : d.map[k].fd # -1 =>
       d.file[d.map[k].fd] = IF d.map[k].dupCount > 0 THEN k ELSE "stdout"
  /\ \A k \in DOMAIN d.map : d.map[k].fd = -1 => d.map[k].dupCount > 0
  /\ \A j, k \in DOMAIN d.map : d.map[j].fd = d.map[k].fd /\ d.map[k].fd # -1 => j = k
  /\ \A k \in DOMAIN d.map : d.map[k].fd \notin d.lost
  /\ d.lost \subseteq Fds /\ \A f \in d.lost : d.file[f] # "closed"
  /\ \A f \in Fds \ d.lost : d.file[f] # "closed" => \E k \in DOMAIN d.map : d.map[k].fd = f

\* Memories leave the map and their numbers are closed.
Closing(d, K) ==
  [d EXCEPT !.map = Buffers!Drop(d.map, K),
            !.file = Buffers!Close(d.file, {d.map[k].fd : k \in K})]

LEMMA ClosedOK ==
  ASSUME NEW d, DescOK(d), NEW K \in SUBSET DOMAIN d.map, \A k \in K : d.map[k].dupCount = 0,
         NEW c, c = Closing(d, K)
  PROVE  /\ DescOK(c) /\ c.lost = d.lost
         /\ \A k : Count(c.map, k) = Count(d.map, k)
         /\ \A f \in Fds : c.file[f] = d.file[f] \/ d.file[f] = "stdout"
<1>0. /\ c = [file |-> c.file, map |-> c.map, lost |-> c.lost] /\ c.lost = d.lost
      /\ c.file = Buffers!Close(d.file, {d.map[k].fd : k \in K})
      /\ c.map = Buffers!Drop(d.map, K)
  <2>1. d = [file |-> d.file, map |-> d.map, lost |-> d.lost]
    BY DEF DescOK
  <2>2. c = [file |-> Buffers!Close(d.file, {d.map[k].fd : k \in K}), map |-> Buffers!Drop(d.map, K),
             lost |-> d.lost]
    BY <2>1 DEF Closing
  <2> QED
    BY <2>2
<1>1. /\ c = [file |-> c.file, map |-> c.map, lost |-> c.lost] /\ c.lost = d.lost
      /\ c.file = [f \in Fds |-> IF f \in {d.map[k].fd : k \in K} THEN "closed" ELSE d.file[f]]
      /\ c.map = [k \in DOMAIN d.map \ K |-> d.map[k]]
  BY <1>0 DEF Buffers!Drop, Buffers!Restrict, Buffers!Close
<1>2. DOMAIN c.map = DOMAIN d.map \ K /\ \A k \in DOMAIN c.map : c.map[k] = d.map[k]
  BY <1>1
<1>3. \A f \in Fds : IF \E k \in K : d.map[k].fd = f THEN c.file[f] = "closed" /\ d.file[f] = "stdout"
                     ELSE c.file[f] = d.file[f]
  BY <1>1 DEF DescOK
<1>4. \A k \in DOMAIN c.map : c.map[k].fd # -1 => c.file[c.map[k].fd] = d.file[d.map[k].fd]
  BY <1>2, <1>3 DEF DescOK
<1>5. DescOK(c)
  <2>1. c.file \in [Fds -> Referred]
    <3>1. "closed" \in Referred /\ \A f \in Fds : d.file[f] \in Referred
      BY DEF DescOK, Referred
    <3> QED
      BY <1>1, <3>1
  <2>2. /\ DOMAIN c.map \subseteq Bufs /\ c.map = [k \in DOMAIN c.map |-> c.map[k]]
        /\ \A k \in DOMAIN c.map : c.map[k] \in [fd : Fds \union {-1}, dupCount : Nat]
    BY <1>1, <1>2 DEF DescOK
  <2>3. \A k \in DOMAIN c.map : c.map[k].fd # -1 =>
           c.file[c.map[k].fd] = IF c.map[k].dupCount > 0 THEN k ELSE "stdout"
    BY <1>2, <1>4 DEF DescOK
  <2>4. /\ \A k \in DOMAIN c.map : c.map[k].fd = -1 => c.map[k].dupCount > 0
        /\ \A j, k \in DOMAIN c.map : c.map[j].fd = c.map[k].fd /\ c.map[k].fd # -1 => j = k
        /\ \A k \in DOMAIN c.map : c.map[k].fd \notin c.lost
    BY <1>1, <1>2 DEF DescOK
  <2>5. c.lost \subseteq Fds /\ \A f \in c.lost : c.file[f] # "closed"
    <3>1. \A k \in K : d.map[k].fd \notin d.lost
      BY DEF DescOK
    <3>2. d.lost \subseteq Fds /\ \A f \in d.lost : d.file[f] # "closed"
      BY DEF DescOK
    <3> QED
      BY <1>1, <1>3, <3>1, <3>2
  <2>6. \A f \in Fds \ c.lost : c.file[f] # "closed" => \E k \in DOMAIN c.map : c.map[k].fd = f
    BY <1>1, <1>2, <1>3 DEF DescOK
  <2> QED
    BY <1>1, <2>1, <2>2, <2>3, <2>4, <2>5, <2>6 DEF DescOK
<1>6. \A k : Count(c.map, k) = Count(d.map, k)
  BY <1>2 DEF Count
<1> QED
  BY <1>1, <1>3, <1>5, <1>6

LEMMA CleanedOK ==
  ASSUME NEW d, DescOK(d)
  PROVE  /\ DescOK(Buffers!Cleaned(d)) /\ Buffers!Cleaned(d).lost = d.lost
         /\ \A k : Count(Buffers!Cleaned(d).map, k) = Count(d.map, k)
         /\ \A f \in Fds : Buffers!Cleaned(d).file[f] = d.file[f] \/ d.file[f] = "stdout"
<1> DEFINE idle == {k \in DOMAIN d.map : d.map[k].dupCount = 0}
<1>1. CASE Buffers!Cleaned(d) = d
  BY <1>1
<1>2. CASE Buffers!Cleaned(d) = Closing(d, idle)
  <2> DEFINE c == Buffers!Cleaned(d)
  <2>1. idle \in SUBSET DOMAIN d.map /\ \A k \in idle : d.map[k].dupCount = 0
    OBVIOUS
  <2>2. c = Closing(d, idle)
    BY <1>2
  <2> HIDE DEF idle, c
  <2>3. /\ DescOK(c) /\ c.lost = d.lost
        /\ \A k : Count(c.map, k) = Count(d.map, k)
        /\ \A f \in Fds : c.file[f] = d.file[f] \/ d.file[f] = "stdout"
    BY <2>1, <2>2, ClosedOK
  <2> QED
    BY <2>3 DEF c
<1> QED
  BY <1>1, <1>2 DEF Buffers!Cleaned, Closing

\* The descriptors without memory k, whose number is given up.
Without(d, k) ==
  [file |-> d.file, map |-> Buffers!Drop(d.map, {k}),
   lost |-> d.lost \union (IF k \in DOMAIN d.map THEN {d.map[k].fd} \ {-1} ELSE {})]

LEMMA WithoutOK ==
  ASSUME NEW d, DescOK(d), NEW k \in Bufs
  PROVE  /\ DescOK(Without(d, k))
         /\ DOMAIN Without(d, k).map = DOMAIN d.map \ {k}
         /\ \A j \in DOMAIN d.map \ {k} : Without(d, k).map[j] = d.map[j]
<1> DEFINE c == Without(d, k)
<1>1. /\ c.file = d.file
      /\ c.lost = d.lost \union (IF k \in DOMAIN d.map THEN {d.map[k].fd} \ {-1} ELSE {})
      /\ c.map = [j \in DOMAIN d.map \ (DOMAIN d.map \cap {k}) |-> d.map[j]]
      /\ c = [file |-> c.file, map |-> c.map, lost |-> c.lost]
  BY DEF Without, Buffers!Drop, Buffers!Restrict
<1> HIDE DEF c
<1>2. /\ DOMAIN c.map = DOMAIN d.map \ {k} /\ \A j \in DOMAIN d.map \ {k} : c.map[j] = d.map[j]
      /\ c.map = [j \in DOMAIN c.map |-> c.map[j]]
  BY <1>1
<1>3. \A j \in DOMAIN c.map : c.map[j].fd \notin c.lost
  BY <1>1, <1>2 DEF DescOK
<1>4. c.lost \subseteq Fds /\ \A f \in c.lost : c.file[f] # "closed"
  <2>1. \A f \in d.lost : f \in Fds /\ d.file[f] # "closed"
    BY DEF DescOK
  <2>2. k \in DOMAIN d.map /\ d.map[k].fd # -1 => d.map[k].fd \in Fds /\ d.file[d.map[k].fd] # "closed"
    BY Marks DEF DescOK
  <2> QED
    BY <1>1, <2>1, <2>2
<1>5. \A f \in Fds \ c.lost : c.file[f] # "closed" => \E j \in DOMAIN c.map : c.map[j].fd = f
  <2> SUFFICES ASSUME NEW f \in Fds \ c.lost, c.file[f] # "closed"
               PROVE  \E j \in DOMAIN c.map : c.map[j].fd = f
    OBVIOUS
  <2>1. PICK j \in DOMAIN d.map : d.map[j].fd = f
    BY <1>1 DEF DescOK
  <2>2. f # -1
    BY Marks
  <2>3. j # k
    BY <1>1, <2>1, <2>2
  <2> QED
    BY <1>2, <2>1, <2>3
<1>6. DescOK(c)
  <2>1. c.file \in [Fds -> Referred]
    BY <1>1 DEF DescOK
  <2>2. /\ DOMAIN c.map \subseteq Bufs
        /\ \A j \in DOMAIN c.map : c.map[j] \in [fd : Fds \union {-1}, dupCount : Nat]
    BY <1>2 DEF DescOK
  <2>3. \A j \in DOMAIN c.map : c.map[j].fd # -1 =>
          c.file[c.map[j].fd] = IF c.map[j].dupCount > 0 THEN j ELSE "stdout"
    BY <1>1, <1>2 DEF DescOK
  <2>4. /\ \A j \in DOMAIN c.map : c.map[j].fd = -1 => c.map[j].dupCount > 0
        /\ \A i, j \in DOMAIN c.map : c.map[i].fd = c.map[j].fd /\ c.map[j].fd # -1 => i = j
    BY <1>2 DEF DescOK
  <2> QED
    BY <1>1, <1>2, <1>3, <1>4, <1>5, <2>1, <2>2, <2>3, <2>4 DEF DescOK
<1> QED
  BY <1>2, <1>6 DEF c

\* Number f is opened for memory k, which is not in the map; none is when f is -1.
Opened(d, k, f, n, c) ==
  /\ c = [file |-> c.file, map |-> c.map, lost |-> c.lost] /\ c.lost = d.lost
  /\ IF f = -1 THEN c.file = d.file
               ELSE d.file[f] = "closed" /\ c.file = [d.file EXCEPT ![f] = k]
  /\ c.map = [j \in DOMAIN d.map \union {k} |->
                IF j = k THEN [fd |-> f, dupCount |-> n] ELSE d.map[j]]

\* The count of memory k is n; nothing of another memory changes.
CountIs(d, k, n, c) ==
  /\ DescOK(c) /\ Count(c.map, k) = n
  /\ \A j : j # k => Count(c.map, j) = Count(d.map, j)
  /\ \A f \in Fds : c.file[f] = d.file[f] \/ d.file[f] \in {"closed", "stdout"}

\* dup() for a memory that is not in the map, or whose number is given up.
LEMMA DupedOK ==
  ASSUME NEW d, DescOK(d), NEW k \in Bufs, k \notin DOMAIN d.map, NEW n \in Nat \ {0},
         NEW f \in Fds \union {-1}, NEW c, Opened(d, k, f, n, c)
  PROVE  CountIs(d, k, n, c)
<1>1. /\ DOMAIN c.map = DOMAIN d.map \union {k} /\ c.map[k] = [fd |-> f, dupCount |-> n]
      /\ \A j \in DOMAIN d.map : c.map[j] = d.map[j]
      /\ c.map = [j \in DOMAIN c.map |-> c.map[j]]
      /\ c = [file |-> c.file, map |-> c.map, lost |-> c.lost] /\ c.lost = d.lost
  BY DEF Opened
<1>2. d.file \in [Fds -> Referred]
  BY DEF DescOK
<1>3. /\ c.file \in [Fds -> Referred]
      /\ \A g \in Fds : c.file[g] = IF g = f THEN k ELSE d.file[g]
  <2>1. k \in Referred
    BY DEF Referred
  <2>2. CASE f = -1
    BY <1>2, <2>2, Marks DEF Opened
  <2>3. CASE f # -1
    BY <1>2, <2>1, <2>3 DEF Opened
  <2> QED
    BY <2>2, <2>3
<1>4. k # "closed" /\ k # "stdout" /\ -1 \notin Fds
  BY Marks
<1>5. \A j \in DOMAIN d.map : d.map[j].fd = f => f = -1
  <2> SUFFICES ASSUME NEW j \in DOMAIN d.map, d.map[j].fd = f, f # -1 PROVE FALSE
    OBVIOUS
  <2>1. d.file[f] = "closed"
    BY DEF Opened
  <2>2. d.file[f] = IF d.map[j].dupCount > 0 THEN j ELSE "stdout"
    BY DEF DescOK
  <2>3. j # "closed" /\ "stdout" # "closed"
    BY Marks DEF DescOK
  <2> QED
    BY <2>1, <2>2, <2>3
<1>6. f \notin d.lost
  BY <1>4 DEF DescOK, Opened
<1>7. DescOK(c)
  <2>1. /\ DOMAIN c.map \subseteq Bufs
        /\ \A j \in DOMAIN c.map : c.map[j] \in [fd : Fds \union {-1}, dupCount : Nat]
    BY <1>1 DEF DescOK
  <2>2. \A j \in DOMAIN c.map : c.map[j].fd # -1 =>
          c.file[c.map[j].fd] = IF c.map[j].dupCount > 0 THEN j ELSE "stdout"
    <3> SUFFICES ASSUME NEW j \in DOMAIN c.map, c.map[j].fd # -1
                 PROVE  c.file[c.map[j].fd] = IF c.map[j].dupCount > 0 THEN j ELSE "stdout"
      OBVIOUS
    <3>1. CASE j = k
      BY <1>1, <1>3, <3>1
    <3>2. CASE j # k
      <4>1. j \in DOMAIN d.map /\ c.map[j] = d.map[j] /\ d.map[j].fd # f /\ d.map[j].fd \in Fds
        BY <1>1, <1>5, <3>2 DEF DescOK
      <4> QED
        BY <1>3, <4>1 DEF DescOK
    <3> QED
      BY <3>1, <3>2
  <2>3. \A j \in DOMAIN c.map : c.map[j].fd = -1 => c.map[j].dupCount > 0
    BY <1>1 DEF DescOK
  <2>4. \A i, j \in DOMAIN c.map : c.map[i].fd = c.map[j].fd /\ c.map[j].fd # -1 => i = j
    BY <1>1, <1>5 DEF DescOK
  <2>5. \A j \in DOMAIN c.map : c.map[j].fd \notin c.lost
    BY <1>1, <1>6 DEF DescOK
  <2>6. c.lost \subseteq Fds /\ \A g \in c.lost : c.file[g] # "closed"
    BY <1>1, <1>3, <1>4 DEF DescOK
  <2>7. \A g \in Fds \ c.lost : c.file[g] # "closed" => \E j \in DOMAIN c.map : c.map[j].fd = g
    BY <1>1, <1>3 DEF DescOK
  <2> QED
    BY <1>1, <1>3, <2>1, <2>2, <2>3, <2>4, <2>5, <2>6, <2>7 DEF DescOK
<1>8. Count(c.map, k) = n /\ \A j : j # k => Count(c.map, j) = Count(d.map, j)
  BY <1>1 DEF Count
<1> QED
  <2>1. \A g \in Fds : c.file[g] = d.file[g] \/ d.file[g] = "closed"
    BY <1>3 DEF Opened
  <2> QED
    BY <1>7, <1>8, <2>1 DEF CountIs

LEMMA DupedIs ==
  ASSUME NEW d, d = [file |-> d.file, map |-> d.map, lost |-> d.lost], NEW k, NEW n,
         NEW c \in Buffers!Duped(d, k, n)
  PROVE  \E f \in Fds \union {-1} : Opened(d, k, f, n, c)
<1> DEFINE free == {f \in Fds : d.file[f] = "closed"}
           result(f) == [d EXCEPT !.file = IF f = Buffers!NoFd THEN @ ELSE [@ EXCEPT ![f] = k],
                                  !.map = Buffers!Put(@, k, [fd |-> f, dupCount |-> n])]
<1>1. PICK f \in (IF free = {} THEN {Buffers!NoFd} ELSE free) : c = result(f)
  BY DEF Buffers!Duped
<1>2. f \in Fds \union {-1} /\ (f # -1 => f \in Fds /\ d.file[f] = "closed") /\ Buffers!NoFd = -1
  BY <1>1, Marks
<1>3. c = [file |-> IF f = -1 THEN d.file ELSE [d.file EXCEPT ![f] = k],
           map |-> Buffers!Put(d.map, k, [fd |-> f, dupCount |-> n]), lost |-> d.lost]
  BY <1>1, <1>2
<1>4. /\ c.map = Buffers!Put(d.map, k, [fd |-> f, dupCount |-> n]) /\ c.lost = d.lost
      /\ c.file = IF f = -1 THEN d.file ELSE [d.file EXCEPT ![f] = k]
      /\ c = [file |-> c.file, map |-> c.map, lost |-> c.lost]
  BY <1>3
<1> QED
  BY <1>2, <1>4 DEF Buffers!Put, Opened

\* The number that a memory has refers to it again.
LEMMA SameNumber ==
  ASSUME NEW d, DescOK(d), NEW k \in DOMAIN d.map, d.map[k].fd # -1,
         NEW c, c = [file |-> [d.file EXCEPT ![d.map[k].fd] = k],
                     map |-> [d.map EXCEPT ![k] = [fd |-> d.map[k].fd, dupCount |-> d.map[k].dupCount + 1]],
                     lost |-> d.lost]
  PROVE  CountIs(d, k, Count(d.map, k) + 1, c)
<1> DEFINE e == d.map[k]
<1>1. /\ d = [file |-> d.file, map |-> d.map, lost |-> d.lost] /\ d.file \in [Fds -> Referred]
      /\ k \in Bufs /\ e \in [fd : Fds \union {-1}, dupCount : Nat] /\ e.fd \in Fds
      /\ d.map = [j \in DOMAIN d.map |-> d.map[j]]
  BY DEF DescOK
<1>3. /\ c.file = [d.file EXCEPT ![e.fd] = k]
      /\ c.map = [d.map EXCEPT ![k] = [fd |-> e.fd, dupCount |-> e.dupCount + 1]]
      /\ c.lost = d.lost /\ c = [file |-> c.file, map |-> c.map, lost |-> c.lost]
  OBVIOUS
<1>4. /\ DOMAIN c.map = DOMAIN d.map /\ c.map[k] = [fd |-> e.fd, dupCount |-> e.dupCount + 1]
      /\ \A j \in DOMAIN d.map : j # k => c.map[j] = d.map[j]
      /\ c.map = [j \in DOMAIN c.map |-> c.map[j]]
  BY <1>1, <1>3
<1>5. c.map[k].fd = e.fd /\ c.map[k].dupCount = e.dupCount + 1 /\ e.dupCount \in Nat
      /\ c.map[k] \in [fd : Fds \union {-1}, dupCount : Nat]
  BY <1>1, <1>4
<1>6. \A f \in Fds : c.file[f] = IF f = e.fd THEN k ELSE d.file[f]
  BY <1>1, <1>3
<1>7. d.file[e.fd] = k \/ d.file[e.fd] = "stdout"
  BY DEF DescOK
<1>8. \A j \in DOMAIN d.map : c.map[j].fd = d.map[j].fd
  BY <1>4, <1>5
<1>9. DescOK(c)
  <2>1. c.file \in [Fds -> Referred]
    BY <1>1, <1>3 DEF Referred
  <2>2. /\ DOMAIN c.map \subseteq Bufs
        /\ \A j \in DOMAIN c.map : c.map[j] \in [fd : Fds \union {-1}, dupCount : Nat]
    BY <1>4, <1>5 DEF DescOK
  <2>3. \A j \in DOMAIN c.map : c.map[j].fd # -1 =>
          c.file[c.map[j].fd] = IF c.map[j].dupCount > 0 THEN j ELSE "stdout"
    <3> SUFFICES ASSUME NEW j \in DOMAIN c.map, c.map[j].fd # -1
                 PROVE  c.file[c.map[j].fd] = IF c.map[j].dupCount > 0 THEN j ELSE "stdout"
      OBVIOUS
    <3>1. CASE j = k
      BY <1>1, <1>5, <1>6, <3>1
    <3>2. CASE j # k
      <4>1. j \in DOMAIN d.map /\ c.map[j] = d.map[j] /\ d.map[j].fd \in Fds /\ d.map[j].fd # e.fd
        BY <1>4, <3>2 DEF DescOK
      <4> QED
        BY <1>6, <4>1 DEF DescOK
    <3> QED
      BY <3>1, <3>2
  <2>4. /\ \A j \in DOMAIN c.map : c.map[j].fd = -1 => c.map[j].dupCount > 0
        /\ \A i, j \in DOMAIN c.map : c.map[i].fd = c.map[j].fd /\ c.map[j].fd # -1 => i = j
    BY <1>4, <1>5, <1>8 DEF DescOK
  <2>5. \A j \in DOMAIN c.map : c.map[j].fd \notin c.lost
    BY <1>3, <1>4, <1>8 DEF DescOK
  <2>6. c.lost \subseteq Fds /\ \A f \in c.lost : c.file[f] # "closed"
    BY <1>1, <1>3, <1>6, Marks DEF DescOK
  <2>7. \A f \in Fds \ c.lost : c.file[f] # "closed" => \E j \in DOMAIN c.map : c.map[j].fd = f
    BY <1>3, <1>4, <1>6, <1>8 DEF DescOK
  <2> QED
    BY <1>3, <1>4, <2>1, <2>2, <2>3, <2>4, <2>5, <2>6, <2>7 DEF DescOK
<1>10. /\ Count(c.map, k) = Count(d.map, k) + 1 /\ \A j : j # k => Count(c.map, j) = Count(d.map, j)
  BY <1>4, <1>5 DEF Count
<1>11. \A f \in Fds : c.file[f] = d.file[f] \/ d.file[f] \in {"closed", "stdout"}
  BY <1>6, <1>7
<1> QED
  BY <1>9, <1>10, <1>11 DEF CountIs

\* A new number for a memory, whose old one is given up if it had one.
LEMMA OtherNumber ==
  ASSUME NEW d, DescOK(d), NEW k \in Bufs,
         NEW x, x = [file |-> d.file, map |-> d.map, lost |-> Without(d, k).lost],
         NEW c \in Buffers!Duped(x, k, Count(d.map, k) + 1)
  PROVE  CountIs(d, k, Count(d.map, k) + 1, c)
<1> DEFINE w == Without(d, k)
           n == Count(d.map, k) + 1
<1>1. /\ DescOK(w) /\ DOMAIN w.map = DOMAIN d.map \ {k}
      /\ \A j \in DOMAIN d.map \ {k} : w.map[j] = d.map[j]
  BY WithoutOK
<1>2. w.file = d.file
  BY DEF Without
<1>3. n \in Nat \ {0}
  BY DEF DescOK, Count
<1>4. /\ x = [file |-> x.file, map |-> x.map, lost |-> x.lost]
      /\ x.file = d.file /\ x.map = d.map /\ x.lost = w.lost
  OBVIOUS
<1>5. PICK f \in Fds \union {-1} : Opened(x, k, f, n, c)
  BY <1>4, DupedIs
<1> HIDE DEF w, n
<1>6. /\ DOMAIN w.map \union {k} = DOMAIN d.map \union {k} /\ k \notin DOMAIN w.map
      /\ \A j \in DOMAIN w.map : w.map[j] = d.map[j]
  BY <1>1
<1>7. Opened(w, k, f, n, c)
  <2>1. [j \in DOMAIN d.map \union {k} |-> IF j = k THEN [fd |-> f, dupCount |-> n] ELSE d.map[j]]
        = [j \in DOMAIN w.map \union {k} |-> IF j = k THEN [fd |-> f, dupCount |-> n] ELSE w.map[j]]
    BY <1>1, <1>6
  <2> QED
    BY <1>2, <1>4, <1>5, <2>1 DEF Opened
<1>8. CountIs(w, k, n, c)
  BY <1>1, <1>3, <1>6, <1>7, DupedOK
<1>9. \A j : j # k => Count(w.map, j) = Count(d.map, j)
  BY <1>1 DEF Count
<1> QED
  BY <1>2, <1>8, <1>9 DEF CountIs, n

\* getFixedFds(): one use more.
LEMMA GetOK ==
  ASSUME NEW d0, DescOK(d0), NEW k \in Bufs, NEW bad, NEW c \in Buffers!GetFixedFds(d0, k, bad)
  PROVE  CountIs(d0, k, Count(d0.map, k) + 1, c)
<1> DEFINE d == Buffers!Cleaned(d0)
<1>1. /\ DescOK(d) /\ d.lost = d0.lost /\ \A j : Count(d.map, j) = Count(d0.map, j)
      /\ \A f \in Fds : d.file[f] = d0.file[f] \/ d0.file[f] = "stdout"
  BY CleanedOK
<1>2. c \in IF k \notin DOMAIN d.map
           THEN Buffers!Duped(d, k, 1)
           ELSE IF d.map[k].fd \notin bad \union {Buffers!NoFd}
                THEN {[d EXCEPT !.file[d.map[k].fd] = k, !.map[k].dupCount = @ + 1]}
                ELSE Buffers!Duped([d EXCEPT !.lost = @ \union ({d.map[k].fd} \ {Buffers!NoFd})],
                                   k, d.map[k].dupCount + 1)
  BY DEF Buffers!GetFixedFds
<1> HIDE DEF d
<1>3. d = [file |-> d.file, map |-> d.map, lost |-> d.lost] /\ Count(d.map, k) \in Nat
  BY <1>1 DEF DescOK, Count
<1>4. CountIs(d, k, Count(d.map, k) + 1, c)
  <2>1. CASE k \notin DOMAIN d.map
    <3>1. Count(d.map, k) = 0 /\ Without(d, k).lost = d.lost
      BY <2>1 DEF Count, Without
    <3>2. Count(d.map, k) + 1 = 1 /\ c \in Buffers!Duped(d, k, 1)
      BY <1>2, <2>1, <3>1
    <3>3. d = [file |-> d.file, map |-> d.map, lost |-> Without(d, k).lost]
      BY <1>3, <3>1
    <3> QED
      BY <1>1, <3>2, <3>3, OtherNumber
  <2>2. CASE k \in DOMAIN d.map /\ d.map[k].fd \notin bad \union {Buffers!NoFd}
    <3>1. c = [d EXCEPT !.file[d.map[k].fd] = k, !.map[k].dupCount = @ + 1]
      BY <1>2, <2>2
    <3>2. /\ d.map[k] = [fd |-> d.map[k].fd, dupCount |-> d.map[k].dupCount] /\ d.map[k].fd # -1
          /\ Count(d.map, k) = d.map[k].dupCount
      BY <1>1, <2>2, Marks DEF DescOK, Count
    <3>3. [d.map[k] EXCEPT !.dupCount = @ + 1] = [fd |-> d.map[k].fd, dupCount |-> d.map[k].dupCount + 1]
      BY <3>2
    <3>4. [d.map EXCEPT ![k].dupCount = @ + 1]
          = [d.map EXCEPT ![k] = [fd |-> d.map[k].fd, dupCount |-> d.map[k].dupCount + 1]]
      BY <3>3
    <3>5. c = [file |-> [d.file EXCEPT ![d.map[k].fd] = k], map |-> [d.map EXCEPT ![k].dupCount = @ + 1],
               lost |-> d.lost]
      BY <1>3, <3>1
    <3> QED
      BY <1>1, <2>2, <3>2, <3>4, <3>5, SameNumber
  <2>3. CASE k \in DOMAIN d.map /\ d.map[k].fd \in bad \union {Buffers!NoFd}
    <3> DEFINE x == [d EXCEPT !.lost = @ \union ({d.map[k].fd} \ {Buffers!NoFd})]
    <3>1. x = [file |-> d.file, map |-> d.map, lost |-> Without(d, k).lost]
      <4>1. Without(d, k).lost = d.lost \union ({d.map[k].fd} \ {Buffers!NoFd})
        BY <2>3, Marks DEF Without
      <4> QED
        BY <1>3, <4>1
    <3>2. c \in Buffers!Duped(x, k, Count(d.map, k) + 1)
      BY <1>2, <2>3 DEF Count
    <3> HIDE DEF x
    <3> QED
      BY <1>1, <3>1, <3>2, OtherNumber
  <2> QED
    BY <2>1, <2>2, <2>3
<1> QED
  BY <1>1, <1>4 DEF CountIs

\* One use less of each memory of K; only what a memory of K had its last use of
\* changes.
LessUses(d, K, c) ==
  /\ DescOK(c)
  /\ \A k : Count(c.map, k) = IF k \in K THEN Count(d.map, k) - 1 ELSE Count(d.map, k)
  /\ \A f \in Fds : \/ c.file[f] = d.file[f]
                    \/ (d.file[f] \in K /\ Count(d.map, d.file[f]) = 1 /\ c.file[f] = "stdout")

\* returnFixedFds(): one use less of each memory of K.
LEMMA ReturnOK ==
  ASSUME NEW d, DescOK(d), NEW K, \A k \in K : Count(d.map, k) > 0, NEW bad,
         NEW c, c = Buffers!ReturnFixedFds(d, K, bad)
  PROVE  LessUses(d, K, c)
<1> DEFINE last  == {k \in K \intersect DOMAIN d.map : d.map[k].dupCount = 1}
           fails == {k \in last : d.map[k].fd \in bad \union {Buffers!NoFd}}
           idle  == {d.map[k].fd : k \in last \ fails}
<1>1. /\ c = [file |-> c.file, map |-> c.map, lost |-> c.lost]
      /\ c.file = [f \in Fds |-> IF f \in idle THEN Buffers!STDOUT ELSE d.file[f]]
      /\ c.map = Buffers!Drop(Buffers!LessUsed(d.map, K), fails)
      /\ c.lost = d.lost \union ({d.map[k].fd : k \in fails} \ {Buffers!NoFd})
  BY DEF Buffers!ReturnFixedFds
<1>2. /\ \A k \in K : k \in DOMAIN d.map
      /\ \A k \in DOMAIN d.map : /\ d.map[k].dupCount \in Nat /\ d.map[k].fd \in Fds \union {-1}
                               /\ d.map[k] = [fd |-> d.map[k].fd, dupCount |-> d.map[k].dupCount]
                               /\ k \in Bufs /\ k # "closed" /\ k # "stdout"
  BY Marks DEF DescOK, Count
<1>3. \A k \in K : d.map[k].dupCount > 0
  BY <1>2 DEF Count
<1>4. \A k \in last \ fails : d.map[k].fd \in Fds /\ d.map[k].fd # -1
  BY <1>2, Marks
<1>5. \A k : k \in fails <=> k \in K /\ d.map[k].dupCount = 1 /\ d.map[k].fd \in bad \union {-1}
  BY <1>2, Marks
<1>6. \A k : k \in last <=> k \in K /\ d.map[k].dupCount = 1
  BY <1>2
<1>7. \A f \in Fds : c.file[f] = IF f \in idle THEN "stdout" ELSE d.file[f]
  BY <1>1, Marks
<1>8. \A f : f \in idle <=> \E k \in last \ fails : d.map[k].fd = f
  OBVIOUS
<1>9. /\ DOMAIN c.map = DOMAIN d.map \ fails /\ c.map = [k \in DOMAIN c.map |-> c.map[k]]
      /\ \A k \in DOMAIN c.map :
           /\ c.map[k].fd = d.map[k].fd
           /\ c.map[k].dupCount = IF k \in K THEN d.map[k].dupCount - 1 ELSE d.map[k].dupCount
           /\ c.map[k] \in [fd : Fds \union {-1}, dupCount : Nat]
  <2> DEFINE less == Buffers!LessUsed(d.map, K)
  <2>1. /\ DOMAIN less = DOMAIN d.map
        /\ \A k \in DOMAIN d.map : less[k] = IF k \in K /\ d.map[k].dupCount > 0
                        THEN [d.map[k] EXCEPT !.dupCount = @ - 1] ELSE d.map[k]
    BY DEF Buffers!LessUsed
  <2>2. \A k \in DOMAIN d.map : less[k] = [fd |-> d.map[k].fd, dupCount |->
           IF k \in K THEN d.map[k].dupCount - 1 ELSE d.map[k].dupCount]
    <3> SUFFICES ASSUME NEW k \in DOMAIN d.map
                 PROVE  less[k] = [fd |-> d.map[k].fd, dupCount |->
                          IF k \in K THEN d.map[k].dupCount - 1 ELSE d.map[k].dupCount]
      OBVIOUS
    <3>1. CASE k \in K
      BY <1>2, <1>3, <2>1, <3>1
    <3>2. CASE k \notin K
      BY <1>2, <2>1, <3>2
    <3> QED
      BY <3>1, <3>2
  <2> HIDE DEF less, fails
  <2>3. c.map = [k \in DOMAIN less \ (DOMAIN less \cap fails) |-> less[k]]
    BY <1>1 DEF Buffers!Drop, Buffers!Restrict, less
  <2>4. DOMAIN c.map = DOMAIN d.map \ fails /\ \A k \in DOMAIN c.map : c.map[k] = less[k]
    BY <2>1, <2>3
  <2>5. c.map = [k \in DOMAIN c.map |-> c.map[k]]
    BY <2>3
  <2>6. \A k \in DOMAIN c.map :
           (IF k \in K THEN d.map[k].dupCount - 1 ELSE d.map[k].dupCount) \in Nat
    <3> SUFFICES ASSUME NEW k \in DOMAIN c.map
                 PROVE  (IF k \in K THEN d.map[k].dupCount - 1 ELSE d.map[k].dupCount) \in Nat
      OBVIOUS
    <3>1. k \in DOMAIN d.map /\ d.map[k].dupCount \in Nat /\ (k \in K => d.map[k].dupCount > 0)
      BY <1>2, <1>3, <2>4
    <3> QED
      BY <3>1
  <2>7. \A k \in DOMAIN c.map :
           /\ c.map[k].fd = d.map[k].fd
           /\ c.map[k].dupCount = IF k \in K THEN d.map[k].dupCount - 1 ELSE d.map[k].dupCount
           /\ c.map[k] \in [fd : Fds \union {-1}, dupCount : Nat]
    <3> SUFFICES ASSUME NEW k \in DOMAIN c.map
                 PROVE  /\ c.map[k].fd = d.map[k].fd
                        /\ c.map[k].dupCount = IF k \in K THEN d.map[k].dupCount - 1
                                              ELSE d.map[k].dupCount
                        /\ c.map[k] \in [fd : Fds \union {-1}, dupCount : Nat]
      OBVIOUS
    <3> DEFINE n == IF k \in K THEN d.map[k].dupCount - 1 ELSE d.map[k].dupCount
    <3>1. k \in DOMAIN d.map /\ n \in Nat /\ d.map[k].fd \in Fds \union {-1}
      BY <1>2, <2>4, <2>6
    <3>2. c.map[k] = [fd |-> d.map[k].fd, dupCount |-> n]
      BY <2>2, <2>4, <3>1
    <3> HIDE DEF n
    <3>3. c.map[k].fd = d.map[k].fd /\ c.map[k].dupCount = n
          /\ c.map[k] \in [fd : Fds \union {-1}, dupCount : Nat]
      BY <3>1, <3>2
    <3> QED
      BY <3>3 DEF n
  <2> QED
    BY <2>4, <2>5, <2>7
<1> HIDE DEF last, fails, idle
<1>10. \A k : Count(c.map, k) = IF k \in K THEN Count(d.map, k) - 1 ELSE Count(d.map, k)
  BY <1>2, <1>5, <1>9 DEF Count
<1>11. \A f \in idle : f \in Fds /\ d.file[f] \in K /\ Count(d.map, d.file[f]) = 1
  <2> SUFFICES ASSUME NEW f \in idle
               PROVE  f \in Fds /\ d.file[f] \in K /\ Count(d.map, d.file[f]) = 1
    OBVIOUS
  <2>1. PICK k \in last \ fails : d.map[k].fd = f
    BY <1>8
  <2>2. k \in K /\ k \in DOMAIN d.map /\ d.map[k].dupCount = 1 /\ f \in Fds /\ f # -1
    BY <1>2, <1>4, <1>6, <2>1
  <2>3. d.file[f] = k
    BY <2>1, <2>2 DEF DescOK
  <2> QED
    BY <2>2, <2>3 DEF Count
<1>12. DescOK(c)
  <2>1. c.file \in [Fds -> Referred]
    <3>1. Buffers!STDOUT \in Referred /\ \A f \in Fds : d.file[f] \in Referred
      BY Marks DEF DescOK, Referred
    <3> QED
      BY <1>1, <3>1
  <2>2. /\ DOMAIN c.map \subseteq Bufs
        /\ \A k \in DOMAIN c.map : c.map[k] \in [fd : Fds \union {-1}, dupCount : Nat]
    BY <1>9 DEF DescOK
  <2>3. \A k \in DOMAIN c.map : c.map[k].fd # -1 =>
          c.file[c.map[k].fd] = IF c.map[k].dupCount > 0 THEN k ELSE "stdout"
    <3> SUFFICES ASSUME NEW k \in DOMAIN c.map, c.map[k].fd # -1
                 PROVE  c.file[c.map[k].fd] = IF c.map[k].dupCount > 0 THEN k ELSE "stdout"
      OBVIOUS
    <3> DEFINE f == d.map[k].fd
    <3>1. k \in DOMAIN d.map /\ k \notin fails /\ f \in Fds /\ f # -1 /\ c.map[k].fd = f
      BY <1>2, <1>9
    <3>2. d.file[f] = IF d.map[k].dupCount > 0 THEN k ELSE "stdout"
      BY <3>1 DEF DescOK
    <3>3. CASE k \in last
      <4>1. c.map[k].dupCount = 0 /\ f \in idle
        BY <1>6, <1>8, <1>9, <3>1, <3>3
      <4> QED
        BY <1>7, <3>1, <4>1
    <3>4. CASE k \notin last
      <4>1. f \notin idle
        <5> SUFFICES ASSUME f \in idle PROVE FALSE
          OBVIOUS
        <5>1. PICK j \in last \ fails : d.map[j].fd = f
          BY <1>8
        <5>2. j \in DOMAIN d.map
          BY <1>2, <1>6, <5>1
        <5>3. j = k
          BY <3>1, <5>1, <5>2 DEF DescOK
        <5> QED
          BY <3>4, <5>1, <5>3
      <4>2. c.map[k].dupCount > 0 <=> d.map[k].dupCount > 0
        <5>1. k \in K => d.map[k].dupCount # 1 /\ d.map[k].dupCount > 0
          BY <1>3, <1>6, <3>4
        <5>2. /\ c.map[k].dupCount = IF k \in K THEN d.map[k].dupCount - 1 ELSE d.map[k].dupCount
              /\ d.map[k].dupCount \in Nat
          BY <1>2, <1>9, <3>1
        <5> QED
          BY <5>1, <5>2
      <4> QED
        BY <1>7, <3>1, <3>2, <4>1, <4>2
    <3> QED
      BY <3>3, <3>4
  <2>4. \A k \in DOMAIN c.map : c.map[k].fd = -1 => c.map[k].dupCount > 0
    <3> SUFFICES ASSUME NEW k \in DOMAIN c.map, c.map[k].fd = -1 PROVE c.map[k].dupCount > 0
      OBVIOUS
    <3>1. k \in DOMAIN d.map /\ k \notin fails /\ d.map[k].fd = -1
      BY <1>9
    <3>2. d.map[k].dupCount > 0 /\ d.map[k].dupCount \in Nat
      BY <1>2, <3>1 DEF DescOK
    <3>3. k \in K => d.map[k].dupCount # 1
      BY <1>5, <3>1
    <3> QED
      BY <1>9, <3>2, <3>3
  <2>5. \A j, k \in DOMAIN c.map : c.map[j].fd = c.map[k].fd /\ c.map[k].fd # -1 => j = k
    BY <1>9 DEF DescOK
  <2>6. \A f : f \in c.lost <=> f \in d.lost \/ (f # -1 /\ \E k \in fails : d.map[k].fd = f)
    BY <1>1, Marks
  <2>7. \A k \in DOMAIN c.map : c.map[k].fd \notin c.lost
    <3> SUFFICES ASSUME NEW k \in DOMAIN c.map, c.map[k].fd \in c.lost PROVE FALSE
      OBVIOUS
    <3>1. k \in DOMAIN d.map /\ k \notin fails /\ c.map[k].fd = d.map[k].fd
      BY <1>9
    <3>2. d.map[k].fd \notin d.lost
      BY <3>1 DEF DescOK
    <3>3. PICK j \in fails : d.map[j].fd = d.map[k].fd /\ d.map[k].fd # -1
      BY <2>6, <3>1, <3>2
    <3>4. j \in DOMAIN d.map
      BY <1>2, <1>5
    <3>5. j = k
      BY <3>1, <3>3, <3>4 DEF DescOK
    <3> QED
      BY <3>1, <3>5
  <2>8. c.lost \subseteq Fds /\ \A f \in c.lost : c.file[f] # "closed"
    <3> SUFFICES ASSUME NEW f \in c.lost PROVE f \in Fds /\ c.file[f] # "closed"
      OBVIOUS
    <3>1. f \in Fds /\ d.file[f] # "closed"
      <4>1. CASE f \in d.lost
        BY <4>1 DEF DescOK
      <4>2. CASE f \notin d.lost
        <5>1. PICK k \in fails : d.map[k].fd = f /\ f # -1
          BY <2>6, <4>2
        <5>2. k \in DOMAIN d.map /\ d.map[k].dupCount > 0 /\ f \in Fds
          BY <1>2, <1>3, <1>5, <5>1
        <5>3. d.file[f] = k
          BY <5>1, <5>2 DEF DescOK
        <5> QED
          BY <1>2, <5>2, <5>3
      <4> QED
        BY <4>1, <4>2
    <3> QED
      BY <1>7, <3>1
  <2>9. \A f \in Fds \ c.lost : c.file[f] # "closed" => \E k \in DOMAIN c.map : c.map[k].fd = f
    <3> SUFFICES ASSUME NEW f \in Fds \ c.lost, c.file[f] # "closed"
                 PROVE  \E k \in DOMAIN c.map : c.map[k].fd = f
      OBVIOUS
    <3>1. f \notin d.lost /\ f # -1
      BY <2>6, Marks
    <3>2. d.file[f] # "closed"
      <4>1. CASE f \in idle
        BY <1>2, <1>11, <4>1
      <4>2. CASE f \notin idle
        BY <1>7, <4>2
      <4> QED
        BY <4>1, <4>2
    <3>3. PICK k \in DOMAIN d.map : d.map[k].fd = f
      BY <3>1, <3>2 DEF DescOK
    <3>4. k \notin fails
      BY <2>6, <3>1, <3>3
    <3> QED
      BY <1>9, <3>3, <3>4
  <2> QED
    BY <1>1, <1>9, <2>1, <2>2, <2>3, <2>4, <2>5, <2>7, <2>8, <2>9 DEF DescOK
<1>13. \A f \in Fds : \/ c.file[f] = d.file[f]
                     \/ (d.file[f] \in K /\ Count(d.map, d.file[f]) = 1 /\ c.file[f] = "stdout")
  BY <1>7, <1>11
<1> QED
  BY <1>10, <1>12, <1>13 DEF LessUses

\* The memories that the driver's report names.
Reported == {file[f] : f \in report}

\* The pictures of memory k that the manager has to count.
Due(k) == uses[k] + (IF enq = k THEN 1 ELSE 0) + (IF k \in Reported THEN 1 ELSE 0)

BuffersType ==
  /\ mMap = [k \in DOMAIN mMap |-> mMap[k]] /\ DOMAIN mMap \subseteq Bufs
  /\ \A k \in DOMAIN mMap : mMap[k] \in Nat \ {0}
  /\ enq \in Bufs \union {"nokey"} /\ report \subseteq Fds /\ queuedDrv \subseteq Bufs
  /\ uses \in [Bufs -> Nat] /\ fdOf \in [Bufs -> Fds \union {-1}]

\* Both maps count the pictures that the driver refers to, the one that is on its
\* way to it and the ones whose report is on its way back; the number that the
\* driver has for a memory, and each one that it reports, refers to a memory.
BuffersInv ==
  /\ BuffersType /\ DescOK(Buffers!Desc)
  /\ \A k \in Bufs : Buffers!CountOf(mMap, k) = Due(k) /\ Count(fdMap, k) = Due(k)
  /\ \A k \in Bufs : uses[k] > 0 => fdOf[k] \in Fds /\ file[fdOf[k]] = k
  /\ Reported \subseteq Bufs /\ \A f, g \in report : file[f] = file[g] => f = g

LEMMA DescIs ==
  /\ Buffers!Desc.file = file /\ Buffers!Desc.map = fdMap /\ Buffers!Desc.lost = lost
  BY DEF Buffers!Desc

LEMMA DescNext ==
  ASSUME NEW d, DescOK(d), Buffers!SetDesc(d)
  PROVE  DescOK(Buffers!Desc') /\ file' = d.file /\ fdMap' = d.map /\ lost' = d.lost
<1>1. file' = d.file /\ fdMap' = d.map /\ lost' = d.lost
  BY DEF Buffers!SetDesc
<1>2. Buffers!Desc' = [file |-> d.file, map |-> d.map, lost |-> d.lost]
  BY <1>1 DEF Buffers!Desc
<1>3. Buffers!Desc' = d
  BY <1>2 DEF DescOK
<1> QED
  BY <1>1, <1>3

LEMMA AddRefOK ==
  ASSUME NEW m, m = [k \in DOMAIN m |-> m[k]], DOMAIN m \subseteq Bufs,
         \A k \in DOMAIN m : m[k] \in Nat \ {0}, NEW k \in Bufs,
         NEW n, n = Buffers!AddRefDPB(m, k)
  PROVE  /\ n = [j \in DOMAIN n |-> n[j]] /\ DOMAIN n \subseteq Bufs
         /\ \A j \in DOMAIN n : n[j] \in Nat \ {0}
         /\ \A j : Buffers!CountOf(n, j) = Buffers!CountOf(m, j) + (IF j = k THEN 1 ELSE 0)
<1>1. n = [j \in DOMAIN m \union {k} |-> IF j = k THEN Buffers!CountOf(m, k) + 1 ELSE m[j]]
  BY DEF Buffers!AddRefDPB, Buffers!Put
<1>2. Buffers!CountOf(m, k) \in Nat
  BY DEF Buffers!CountOf
<1>3. /\ DOMAIN n = DOMAIN m \union {k} /\ n = [j \in DOMAIN n |-> n[j]]
      /\ n[k] = Buffers!CountOf(m, k) + 1 /\ \A j \in DOMAIN m : j # k => n[j] = m[j]
  BY <1>1
<1>4. \A j \in DOMAIN n : n[j] \in Nat \ {0}
  BY <1>2, <1>3
<1>5. \A j : Buffers!CountOf(n, j) = Buffers!CountOf(m, j) + (IF j = k THEN 1 ELSE 0)
  <2> SUFFICES ASSUME NEW j
               PROVE  Buffers!CountOf(n, j) = Buffers!CountOf(m, j) + (IF j = k THEN 1 ELSE 0)
    OBVIOUS
  <2>1. CASE j = k
    <3>1. Buffers!CountOf(n, k) = n[k]
      BY <1>3 DEF Buffers!CountOf
    <3> QED
      BY <1>3, <2>1, <3>1
  <2>2. CASE j # k
    <3>1. Buffers!CountOf(n, j) = Buffers!CountOf(m, j) /\ Buffers!CountOf(m, j) \in Nat
      BY <1>3, <2>2 DEF Buffers!CountOf
    <3> QED
      BY <2>2, <3>1
  <2> QED
    BY <2>1, <2>2
<1> QED
  BY <1>3, <1>4, <1>5

LEMMA DroppedOK ==
  ASSUME NEW m, m = [k \in DOMAIN m |-> m[k]], DOMAIN m \subseteq Bufs,
         \A k \in DOMAIN m : m[k] \in Nat \ {0}, NEW K, K \subseteq DOMAIN m,
         NEW n, n = Buffers!Dropped(m, K)
  PROVE  /\ n = [j \in DOMAIN n |-> n[j]] /\ DOMAIN n \subseteq Bufs
         /\ \A j \in DOMAIN n : n[j] \in Nat \ {0}
         /\ \A j : Buffers!CountOf(n, j) = IF j \in K THEN Buffers!CountOf(m, j) - 1
                                         ELSE Buffers!CountOf(m, j)
<1> DEFINE gone == {j \in K \intersect DOMAIN m : m[j] = 1}
<1>1. n = [k \in DOMAIN m \ gone |-> IF k \in K THEN m[k] - 1 ELSE m[k]]
  BY DEF Buffers!Dropped
<1>2. \A j : j \in gone <=> j \in K /\ m[j] = 1
  OBVIOUS
<1> HIDE DEF gone
<1>3. /\ DOMAIN n = DOMAIN m \ gone /\ n = [j \in DOMAIN n |-> n[j]]
      /\ \A j \in DOMAIN n : n[j] = IF j \in K THEN m[j] - 1 ELSE m[j]
  BY <1>1
<1>4. \A j \in DOMAIN n : n[j] \in Nat \ {0}
  <2> SUFFICES ASSUME NEW j \in DOMAIN n PROVE n[j] \in Nat \ {0}
    OBVIOUS
  <2>1. j \in DOMAIN m /\ (j \in K => m[j] # 1)
    BY <1>2, <1>3
  <2>2. m[j] \in Nat \ {0}
    BY <2>1
  <2> QED
    BY <1>3, <2>1, <2>2
<1>5. \A j : Buffers!CountOf(n, j) = IF j \in K THEN Buffers!CountOf(m, j) - 1
                                   ELSE Buffers!CountOf(m, j)
  BY <1>2, <1>3 DEF Buffers!CountOf
<1> QED
  BY <1>3, <1>4, <1>5

LEMMA BuffersStart == Buffers!Init => BuffersInv
<1> SUFFICES ASSUME Buffers!Init PROVE BuffersInv
  OBVIOUS
<1>1. /\ file = [f \in Fds |-> "closed"] /\ fdMap = << >> /\ mMap = << >> /\ report = {}
      /\ enq = "nokey" /\ queuedDrv = {} /\ uses = [k \in Bufs |-> 0] /\ lost = {}
      /\ fdOf = [k \in Bufs |-> -1]
  BY Marks DEF Buffers!Init, Buffers!NoKey
<1>2. /\ << >> = [k \in DOMAIN << >> |-> << >>[k]] /\ DOMAIN << >> = {}
  OBVIOUS
<1>3. BuffersType
  BY <1>1, <1>2 DEF BuffersType
<1>4. DescOK(Buffers!Desc)
  BY <1>1, <1>2 DEF DescOK, Buffers!Desc, Referred
<1>5. Reported = {} /\ \A k \in Bufs : Due(k) = 0
  BY <1>1, Marks DEF Reported, Due, Buffers!NoKey
<1> QED
  BY <1>1, <1>2, <1>3, <1>4, <1>5 DEF BuffersInv, Buffers!CountOf, Count

\* What BuffersInv says of the report and of the driver's numbers, kept while the
\* files it speaks of are.
LEMMA FilesKept ==
  ASSUME BuffersInv, report' = report, uses' = uses, fdOf' = fdOf,
         \A f \in Fds : file[f] \in Bufs /\ (uses[file[f]] > 0 \/ f \in report) => file'[f] = file[f]
  PROVE  /\ Reported' = Reported /\ (\A f, g \in report : file'[f] = file'[g] => f = g)
         /\ \A k \in Bufs : uses[k] > 0 => fdOf[k] \in Fds /\ file'[fdOf[k]] = k
<1>1. report \subseteq Fds /\ \A f \in report : file[f] \in Bufs
  BY DEF BuffersInv, BuffersType, Reported
<1>2. \A f \in report : file'[f] = file[f]
  BY <1>1
<1>3. Reported' = Reported
  BY <1>2 DEF Reported
<1>4. \A f, g \in report : file'[f] = file'[g] => f = g
  BY <1>2 DEF BuffersInv
<1>5. \A k \in Bufs : uses[k] > 0 => fdOf[k] \in Fds /\ file[fdOf[k]] = k
  BY DEF BuffersInv
<1>6. \A k \in Bufs : uses[k] > 0 => file'[fdOf[k]] = k
  BY <1>5
<1> QED
  BY <1>3, <1>4, <1>5, <1>6

LEMMA EnqueueStep ==
  ASSUME BuffersInv, NEW k \in Bufs, NEW bad, Buffers!Enqueue(k, bad)
  PROVE  BuffersInv'
<1>1. /\ enq = "nokey" /\ enq' = k /\ mMap' = Buffers!AddRefDPB(mMap, k)
      /\ report' = report /\ queuedDrv' = queuedDrv /\ uses' = uses /\ fdOf' = fdOf
      /\ \E d \in Buffers!GetFixedFds(Buffers!Desc, k, bad) : Buffers!SetDesc(d)
  BY DEF Buffers!Enqueue, Buffers!NoKey
<1>2. PICK d \in Buffers!GetFixedFds(Buffers!Desc, k, bad) : Buffers!SetDesc(d)
  BY <1>1
<1>3. CountIs(Buffers!Desc, k, Count(fdMap, k) + 1, d)
  <2>1. DescOK(Buffers!Desc)
    BY DEF BuffersInv
  <2>2. CountIs(Buffers!Desc, k, Count(Buffers!Desc.map, k) + 1, d)
    BY <2>1, GetOK
  <2> QED
    BY <2>2, DescIs
<1>4. /\ DescOK(d) /\ Count(d.map, k) = Count(fdMap, k) + 1
      /\ \A j : j # k => Count(d.map, j) = Count(fdMap, j)
      /\ \A f \in Fds : d.file[f] = file[f] \/ file[f] \in {"closed", "stdout"}
  BY <1>3, DescIs DEF CountIs
<1>5. DescOK(Buffers!Desc') /\ file' = d.file /\ fdMap' = d.map
  BY <1>2, <1>4, DescNext
<1>6. \A f \in Fds : file[f] \in Bufs => file'[f] = file[f]
  BY <1>4, <1>5, Marks
<1>7. /\ Reported' = Reported /\ (\A f, g \in report : file'[f] = file'[g] => f = g)
      /\ \A j \in Bufs : uses[j] > 0 => fdOf[j] \in Fds /\ file'[fdOf[j]] = j
  BY <1>1, <1>6, FilesKept
<1>8. \A j \in Bufs : Due(j)' = Due(j) + (IF j = k THEN 1 ELSE 0)
  <2> SUFFICES ASSUME NEW j \in Bufs PROVE Due(j)' = Due(j) + (IF j = k THEN 1 ELSE 0)
    OBVIOUS
  <2>1. uses[j] \in Nat /\ enq # j
    BY <1>1, Marks DEF BuffersInv, BuffersType, Buffers!NoKey
  <2>2. Due(j)' = uses[j] + (IF k = j THEN 1 ELSE 0) + (IF j \in Reported THEN 1 ELSE 0)
    BY <1>1, <1>7 DEF Due
  <2> QED
    BY <2>1, <2>2 DEF Due
<1>9. /\ mMap' = [j \in DOMAIN mMap' |-> mMap'[j]] /\ DOMAIN mMap' \subseteq Bufs
      /\ \A j \in DOMAIN mMap' : mMap'[j] \in Nat \ {0}
      /\ \A j : Buffers!CountOf(mMap', j) = Buffers!CountOf(mMap, j) + (IF j = k THEN 1 ELSE 0)
  BY <1>1, AddRefOK DEF BuffersInv, BuffersType
<1>10. BuffersType'
  BY <1>1, <1>9 DEF BuffersInv, BuffersType
<1>11. \A j \in Bufs : Buffers!CountOf(mMap', j) = Due(j)' /\ Count(fdMap', j) = Due(j)'
  <2> SUFFICES ASSUME NEW j \in Bufs
               PROVE  Buffers!CountOf(mMap', j) = Due(j)' /\ Count(fdMap', j) = Due(j)'
    OBVIOUS
  <2>1. Buffers!CountOf(mMap, j) = Due(j) /\ Count(fdMap, j) = Due(j) /\ Due(j) \in Nat
    BY DEF BuffersInv, BuffersType, Due
  <2>2. Due(j)' = Due(j) + (IF j = k THEN 1 ELSE 0)
    BY <1>8
  <2>3. Count(fdMap', j) = Count(fdMap, j) + (IF j = k THEN 1 ELSE 0)
    BY <1>4, <1>5, <2>1
  <2> QED
    BY <1>9, <2>1, <2>2, <2>3
<1> QED
  BY <1>1, <1>5, <1>7, <1>10, <1>11 DEF BuffersInv

LEMMA QueuedStep ==
  ASSUME BuffersInv, Buffers!Queued
  PROVE  BuffersInv'
<1>1. /\ enq \in Bufs /\ enq' = "nokey" /\ fdMap[enq].fd # -1
      /\ uses' = [uses EXCEPT ![enq] = @ + 1] /\ fdOf' = [fdOf EXCEPT ![enq] = fdMap[enq].fd]
      /\ queuedDrv' = queuedDrv \union {enq}
      /\ file' = file /\ fdMap' = fdMap /\ mMap' = mMap /\ report' = report /\ lost' = lost
  BY Marks DEF Buffers!Queued, BuffersInv, BuffersType, Buffers!NoKey
<1>2. /\ uses \in [Bufs -> Nat] /\ fdOf \in [Bufs -> Fds \union {-1}] /\ "nokey" \notin Bufs
      /\ Reported' = Reported /\ Buffers!Desc' = Buffers!Desc
  BY <1>1, Marks DEF BuffersInv, BuffersType, Reported, Buffers!Desc, Buffers!NoKey
<1>3. \A k \in Bufs : Due(k)' = Due(k)
  <2> SUFFICES ASSUME NEW k \in Bufs PROVE Due(k)' = Due(k)
    OBVIOUS
  <2>1. uses'[k] + (IF enq' = k THEN 1 ELSE 0) = uses[k] + (IF enq = k THEN 1 ELSE 0)
    BY <1>1, <1>2
  <2> QED
    BY <1>2, <2>1 DEF Due
<1>4. fdMap[enq].fd \in Fds /\ file[fdMap[enq].fd] = enq
  <2>1. Count(fdMap, enq) > 0
    <3>1. Count(fdMap, enq) = Due(enq)
      BY <1>1 DEF BuffersInv
    <3>2. Due(enq) = uses[enq] + 1 + (IF enq \in Reported THEN 1 ELSE 0) /\ uses[enq] \in Nat
      BY <1>1, <1>2 DEF Due
    <3> QED
      BY <3>1, <3>2
  <2>2. enq \in DOMAIN fdMap /\ fdMap[enq].dupCount > 0
    BY <2>1 DEF Count
  <2> QED
    BY <1>1, <2>2, DescIs DEF BuffersInv, DescOK
<1>5. BuffersType'
  BY <1>1, <1>2, <1>4 DEF BuffersInv, BuffersType
<1>6. \A k \in Bufs : uses'[k] > 0 => fdOf'[k] \in Fds /\ file'[fdOf'[k]] = k
  <2> SUFFICES ASSUME NEW k \in Bufs, uses'[k] > 0
               PROVE  fdOf'[k] \in Fds /\ file'[fdOf'[k]] = k
    OBVIOUS
  <2>1. CASE k = enq
    BY <1>1, <1>2, <1>4, <2>1
  <2>2. CASE k # enq
    BY <1>1, <1>2, <2>2 DEF BuffersInv
  <2> QED
    BY <2>1, <2>2
<1>7. \A k \in Bufs : Buffers!CountOf(mMap', k) = Due(k)' /\ Count(fdMap', k) = Due(k)'
  BY <1>1, <1>3 DEF BuffersInv
<1> QED
  BY <1>1, <1>2, <1>5, <1>6, <1>7 DEF BuffersInv

\* A call that returns the numbers of the memories K and takes them off mMap: what
\* both callers change besides is the hand that K was owed to.
LEMMA GivenBack ==
  ASSUME BuffersInv, NEW K \in SUBSET Bufs, \A k \in K : Due(k) > 0, NEW bad,
         Buffers!SetDesc(Buffers!ReturnFixedFds(Buffers!Desc, K, bad)),
         mMap' = Buffers!Dropped(mMap, K)
  PROVE  /\ DescOK(Buffers!Desc')
         /\ mMap' = [j \in DOMAIN mMap' |-> mMap'[j]] /\ DOMAIN mMap' \subseteq Bufs
         /\ \A j \in DOMAIN mMap' : mMap'[j] \in Nat \ {0}
         /\ \A k \in Bufs : LET n == IF k \in K THEN Due(k) - 1 ELSE Due(k)
                            IN  Buffers!CountOf(mMap', k) = n /\ Count(fdMap', k) = n
         /\ \A f \in Fds : file'[f] # file[f] => file[f] \in K /\ Due(file[f]) = 1
<1> DEFINE d == Buffers!ReturnFixedFds(Buffers!Desc, K, bad)
<1>1. \A k \in Bufs : /\ Buffers!CountOf(mMap, k) = Due(k) /\ Count(fdMap, k) = Due(k)
                      /\ Due(k) \in Nat
  BY DEF BuffersInv, BuffersType, Due
<1>2. \A k \in K : k \in Bufs /\ Count(Buffers!Desc.map, k) > 0 /\ k \in DOMAIN mMap
  BY <1>1, DescIs DEF Buffers!CountOf
<1>3. DescOK(Buffers!Desc)
  BY DEF BuffersInv
<1> HIDE DEF d
<1>4. d = Buffers!ReturnFixedFds(Buffers!Desc, K, bad) /\ Buffers!SetDesc(d)
  BY DEF d
<1>5. /\ DescOK(d)
      /\ \A k : Count(d.map, k) = IF k \in K THEN Count(fdMap, k) - 1 ELSE Count(fdMap, k)
      /\ \A f \in Fds : \/ d.file[f] = file[f]
                        \/ (file[f] \in K /\ Count(fdMap, file[f]) = 1 /\ d.file[f] = "stdout")
  <2>1. \A k \in K : Count(Buffers!Desc.map, k) > 0
    BY <1>2
  <2>2. LessUses(Buffers!Desc, K, d)
    BY <1>3, <1>4, <2>1, ReturnOK
  <2> QED
    BY <2>2, DescIs DEF LessUses
<1>6. DescOK(Buffers!Desc') /\ file' = d.file /\ fdMap' = d.map
  BY <1>4, <1>5, DescNext
<1>7. /\ mMap' = [j \in DOMAIN mMap' |-> mMap'[j]] /\ DOMAIN mMap' \subseteq Bufs
      /\ \A j \in DOMAIN mMap' : mMap'[j] \in Nat \ {0}
      /\ \A j : Buffers!CountOf(mMap', j) = IF j \in K THEN Buffers!CountOf(mMap, j) - 1
                                          ELSE Buffers!CountOf(mMap, j)
  <2>1. K \subseteq DOMAIN mMap
    BY <1>2
  <2> QED
    BY <2>1, DroppedOK DEF BuffersInv, BuffersType
<1>8. \A k \in Bufs : LET n == IF k \in K THEN Due(k) - 1 ELSE Due(k)
                      IN  Buffers!CountOf(mMap', k) = n /\ Count(fdMap', k) = n
  BY <1>1, <1>5, <1>6, <1>7
<1>9. \A f \in Fds : file'[f] # file[f] => file[f] \in K /\ Due(file[f]) = 1
  BY <1>1, <1>2, <1>5, <1>6
<1> QED
  BY <1>6, <1>7, <1>8, <1>9

LEMMA QueueRefusedStep ==
  ASSUME BuffersInv, NEW bad, Buffers!QueueRefused(bad)
  PROVE  BuffersInv'
<1>1. /\ enq \in Bufs /\ enq' = "nokey"
      /\ Buffers!SetDesc(Buffers!ReturnFixedFds(Buffers!Desc, {enq}, bad))
      /\ mMap' = Buffers!Dropped(mMap, {enq})
      /\ report' = report /\ queuedDrv' = queuedDrv /\ uses' = uses /\ fdOf' = fdOf
  BY Marks DEF Buffers!QueueRefused, BuffersInv, BuffersType, Buffers!NoKey
<1>2. /\ uses \in [Bufs -> Nat] /\ "nokey" \notin Bufs /\ report \subseteq Fds
      /\ \A f \in report : file[f] \in Bufs
  BY Marks DEF BuffersInv, BuffersType, Reported, Buffers!NoKey
<1>3. Due(enq) > 0 /\ (uses[enq] > 0 \/ enq \in Reported => Due(enq) # 1)
  BY <1>1, <1>2 DEF Due
<1>4. {enq} \in SUBSET Bufs /\ \A k \in {enq} : Due(k) > 0
  BY <1>1, <1>3
<1>5. /\ DescOK(Buffers!Desc')
      /\ mMap' = [j \in DOMAIN mMap' |-> mMap'[j]] /\ DOMAIN mMap' \subseteq Bufs
      /\ \A j \in DOMAIN mMap' : mMap'[j] \in Nat \ {0}
      /\ \A k \in Bufs : LET n == IF k \in {enq} THEN Due(k) - 1 ELSE Due(k)
                         IN  Buffers!CountOf(mMap', k) = n /\ Count(fdMap', k) = n
      /\ \A f \in Fds : file'[f] # file[f] => file[f] \in {enq} /\ Due(file[f]) = 1
  BY <1>1, <1>4, GivenBack
<1>6. \A f \in Fds : file[f] \in Bufs /\ (uses[file[f]] > 0 \/ f \in report) => file'[f] = file[f]
  <2> SUFFICES ASSUME NEW f \in Fds, file[f] \in Bufs, uses[file[f]] > 0 \/ f \in report,
                      file'[f] # file[f]
               PROVE  FALSE
    OBVIOUS
  <2>1. file[f] = enq /\ Due(enq) = 1
    BY <1>5
  <2>2. f \in report => enq \in Reported
    BY <2>1 DEF Reported
  <2> QED
    BY <1>3, <2>1, <2>2
<1>7. /\ Reported' = Reported /\ (\A f, g \in report : file'[f] = file'[g] => f = g)
      /\ \A j \in Bufs : uses[j] > 0 => fdOf[j] \in Fds /\ file'[fdOf[j]] = j
  BY <1>1, <1>6, FilesKept
<1>8. \A k \in Bufs : Due(k)' = IF k \in {enq} THEN Due(k) - 1 ELSE Due(k)
  <2> SUFFICES ASSUME NEW k \in Bufs PROVE Due(k)' = IF k \in {enq} THEN Due(k) - 1 ELSE Due(k)
    OBVIOUS
  <2>1. Due(k)' = uses[k] + (IF k \in Reported THEN 1 ELSE 0) /\ uses[k] \in Nat
    BY <1>1, <1>2, <1>7 DEF Due
  <2> QED
    BY <2>1 DEF Due
<1>9. BuffersType'
  BY <1>1, <1>5 DEF BuffersInv, BuffersType
<1>10. Reported' \subseteq Bufs
  BY <1>7 DEF BuffersInv
<1>11. \A k \in Bufs : Buffers!CountOf(mMap', k) = Due(k)' /\ Count(fdMap', k) = Due(k)'
  BY <1>5, <1>8
<1>12. \A k \in Bufs : uses'[k] > 0 => fdOf'[k] \in Fds /\ file'[fdOf'[k]] = k
  BY <1>1, <1>7
<1> QED
  BY <1>1, <1>5, <1>7, <1>9, <1>10, <1>11, <1>12 DEF BuffersInv

LEMMA DequeueStep ==
  ASSUME BuffersInv, NEW k \in Bufs, NEW R \in SUBSET Bufs, Buffers!Dequeue(k, R)
  PROVE  BuffersInv'
<1>1. /\ report = {} /\ R \subseteq Buffers!Unused(queuedDrv \ {k})
      /\ queuedDrv' = queuedDrv \ {k} /\ report' = {fdOf[j] : j \in R}
      /\ uses' = [j \in Bufs |-> IF j \in R THEN uses[j] - 1 ELSE uses[j]]
      /\ file' = file /\ fdMap' = fdMap /\ mMap' = mMap /\ enq' = enq /\ fdOf' = fdOf /\ lost' = lost
  BY DEF Buffers!Dequeue
<1>2. /\ uses \in [Bufs -> Nat] /\ fdOf \in [Bufs -> Fds \union {-1}] /\ Reported = {}
      /\ Buffers!Desc' = Buffers!Desc
  BY <1>1 DEF BuffersInv, BuffersType, Reported, Buffers!Desc
<1>3. \A j \in R : j \in Bufs /\ uses[j] > 0 /\ fdOf[j] \in Fds /\ file[fdOf[j]] = j
  <2>1. \A j \in R : j \in Bufs /\ uses[j] > 0
    BY <1>1, <1>2 DEF Buffers!Unused
  <2> QED
    BY <2>1 DEF BuffersInv
<1>4. Reported' = R
  BY <1>1, <1>3 DEF Reported
<1>5. \A f, g \in report' : file'[f] = file'[g] => f = g
  BY <1>1, <1>3
<1>6. \A j \in Bufs : Due(j)' = Due(j)
  <2> SUFFICES ASSUME NEW j \in Bufs PROVE Due(j)' = Due(j)
    OBVIOUS
  <2>1. uses[j] \in Nat /\ uses'[j] = IF j \in R THEN uses[j] - 1 ELSE uses[j]
    BY <1>1, <1>2
  <2> QED
    BY <1>1, <1>2, <1>4, <2>1 DEF Due
<1>7. uses' \in [Bufs -> Nat]
  <2>1. \A j \in Bufs : (IF j \in R THEN uses[j] - 1 ELSE uses[j]) \in Nat
    <3> SUFFICES ASSUME NEW j \in Bufs PROVE (IF j \in R THEN uses[j] - 1 ELSE uses[j]) \in Nat
      OBVIOUS
    <3>1. uses[j] \in Nat /\ (j \in R => uses[j] > 0)
      BY <1>2, <1>3
    <3> QED
      BY <3>1
  <2> QED
    BY <1>1, <2>1
<1>8. BuffersType'
  BY <1>1, <1>3, <1>7 DEF BuffersInv, BuffersType
<1>9. \A j \in Bufs : uses'[j] > 0 => fdOf'[j] \in Fds /\ file'[fdOf'[j]] = j
  <2> SUFFICES ASSUME NEW j \in Bufs, uses'[j] > 0 PROVE fdOf'[j] \in Fds /\ file'[fdOf'[j]] = j
    OBVIOUS
  <2>1. uses[j] > 0
    BY <1>1, <1>2
  <2> QED
    BY <1>1, <2>1 DEF BuffersInv
<1>10. \A j \in Bufs : Buffers!CountOf(mMap', j) = Due(j)' /\ Count(fdMap', j) = Due(j)'
  BY <1>1, <1>6 DEF BuffersInv
<1> QED
  BY <1>2, <1>4, <1>5, <1>8, <1>9, <1>10 DEF BuffersInv

LEMMA DelRefStep ==
  ASSUME BuffersInv, NEW bad, Buffers!DelRefDPB(bad)
  PROVE  BuffersInv'
<1> DEFINE keys == Reported \intersect DOMAIN mMap
<1>1. /\ Buffers!SetDesc(Buffers!ReturnFixedFds(Buffers!Desc, keys, bad))
      /\ mMap' = Buffers!Dropped(mMap, keys) /\ report' = {}
      /\ enq' = enq /\ queuedDrv' = queuedDrv /\ uses' = uses /\ fdOf' = fdOf
  BY DEF Buffers!DelRefDPB, Reported
<1>2. uses \in [Bufs -> Nat] /\ Reported \subseteq Bufs
  BY DEF BuffersInv, BuffersType
<1>3. \A k \in Reported : k \in Bufs /\ Due(k) > 0 /\ (uses[k] > 0 => Due(k) # 1)
  BY <1>2 DEF Due
<1>4. keys = Reported
  <2>1. \A k \in Reported : k \in DOMAIN mMap
    BY <1>3 DEF BuffersInv, Buffers!CountOf
  <2> QED
    BY <2>1
<1> HIDE DEF keys
<1>5. keys \in SUBSET Bufs /\ \A k \in keys : Due(k) > 0
  BY <1>3, <1>4
<1>6. /\ DescOK(Buffers!Desc')
      /\ mMap' = [j \in DOMAIN mMap' |-> mMap'[j]] /\ DOMAIN mMap' \subseteq Bufs
      /\ \A j \in DOMAIN mMap' : mMap'[j] \in Nat \ {0}
      /\ \A k \in Bufs : LET n == IF k \in keys THEN Due(k) - 1 ELSE Due(k)
                         IN  Buffers!CountOf(mMap', k) = n /\ Count(fdMap', k) = n
      /\ \A f \in Fds : file'[f] # file[f] => file[f] \in keys /\ Due(file[f]) = 1
  BY <1>1, <1>5, GivenBack
<1>7. Reported' = {}
  BY <1>1 DEF Reported
<1>8. \A k \in Bufs : Due(k)' = IF k \in keys THEN Due(k) - 1 ELSE Due(k)
  <2> SUFFICES ASSUME NEW k \in Bufs PROVE Due(k)' = IF k \in keys THEN Due(k) - 1 ELSE Due(k)
    OBVIOUS
  <2>1. Due(k)' = uses[k] + (IF enq = k THEN 1 ELSE 0) /\ uses[k] \in Nat
    BY <1>1, <1>2, <1>7 DEF Due
  <2> QED
    BY <1>4, <2>1 DEF Due
<1>9. \A k \in Bufs : uses[k] > 0 => fdOf[k] \in Fds /\ file'[fdOf[k]] = k
  <2> SUFFICES ASSUME NEW k \in Bufs, uses[k] > 0 PROVE fdOf[k] \in Fds /\ file'[fdOf[k]] = k
    OBVIOUS
  <2>1. fdOf[k] \in Fds /\ file[fdOf[k]] = k
    BY DEF BuffersInv
  <2> QED
    BY <1>3, <1>4, <1>6, <2>1
<1>10. BuffersType'
  BY <1>1, <1>6 DEF BuffersInv, BuffersType
<1>11. \A f, g \in report' : file'[f] = file'[g] => f = g
  BY <1>1
<1> QED
  BY <1>1, <1>6, <1>7, <1>8, <1>9, <1>10, <1>11 DEF BuffersInv

LEMMA StopStep ==
  ASSUME BuffersInv, Buffers!Stop
  PROVE  BuffersInv'
<1>1. /\ enq = "nokey" /\ enq' = enq /\ report = {} /\ report' = {} /\ queuedDrv' = {}
      /\ uses' = [k \in Bufs |-> 0] /\ mMap' = << >> /\ fdMap' = << >> /\ fdOf' = fdOf /\ lost' = lost
      /\ file' = [f \in Fds |-> IF f \in {fdMap[k].fd : k \in DOMAIN fdMap} THEN "closed" ELSE file[f]]
  BY DEF Buffers!Stop, Buffers!NoKey, Buffers!Close
<1>2. << >> = [k \in DOMAIN << >> |-> << >>[k]] /\ DOMAIN << >> = {}
  OBVIOUS
<1>3. BuffersType'
  BY <1>1, <1>2 DEF BuffersInv, BuffersType
<1>4. /\ file \in [Fds -> Referred] /\ lost \subseteq Fds
      /\ \A f \in lost : file[f] # "closed"
      /\ \A f \in Fds \ lost : file[f] # "closed" => \E k \in DOMAIN fdMap : fdMap[k].fd = f
      /\ \A k \in DOMAIN fdMap : fdMap[k].fd \notin lost
  BY DescIs DEF BuffersInv, DescOK
<1>5. file' \in [Fds -> Referred]
  <2>1. "closed" \in Referred
    BY DEF Referred
  <2> QED
    BY <1>1, <1>4, <2>1
<1>6. /\ \A f \in lost : file'[f] # "closed"
      /\ \A f \in Fds \ lost : file'[f] = "closed"
  BY <1>1, <1>4
<1>7. DescOK(Buffers!Desc')
  <2>1. Buffers!Desc' = [file |-> file', map |-> fdMap', lost |-> lost']
    BY DEF Buffers!Desc
  <2> QED
    BY <1>1, <1>2, <1>4, <1>5, <1>6, <2>1 DEF DescOK
<1>8. Reported' = {} /\ \A k \in Bufs : Due(k)' = 0
  <2>1. Reported' = {}
    BY <1>1 DEF Reported
  <2> QED
    BY <1>1, <2>1, Marks DEF Due, Buffers!NoKey
<1> QED
  BY <1>1, <1>2, <1>3, <1>7, <1>8 DEF BuffersInv, Buffers!CountOf, Count

LEMMA BuffersStep ==
  ASSUME BuffersInv, [Buffers!Next]_(Buffers!memVars)
  PROVE  BuffersInv'
<1>1. ASSUME NEW bad, NEW k \in Bufs, Buffers!Enqueue(k, bad) PROVE BuffersInv'
  BY <1>1, EnqueueStep
<1>2. ASSUME NEW bad, Buffers!QueueRefused(bad) PROVE BuffersInv'
  BY <1>2, QueueRefusedStep
<1>3. ASSUME NEW bad, Buffers!DelRefDPB(bad) PROVE BuffersInv'
  BY <1>3, DelRefStep
<1>4. CASE Buffers!Queued
  BY <1>4, QueuedStep
<1>5. ASSUME NEW k \in Bufs, NEW R \in SUBSET Bufs, Buffers!Dequeue(k, R) PROVE BuffersInv'
  BY <1>5, DequeueStep
<1>6. CASE Buffers!Stop
  BY <1>6, StopStep
<1>7. CASE UNCHANGED Buffers!memVars
  <2>1. /\ UNCHANGED <<file, fdMap, mMap, enq, report, queuedDrv, uses, fdOf, lost>>
    BY <1>7 DEF Buffers!memVars
  <2>2. /\ Buffers!Desc' = Buffers!Desc /\ Reported' = Reported /\ BuffersType' = BuffersType
        /\ \A k : Due(k)' = Due(k)
    BY <2>1 DEF Buffers!Desc, Reported, BuffersType, Due
  <2> QED
    BY <2>1, <2>2 DEF BuffersInv
<1> QED
  BY <1>1, <1>2, <1>3, <1>4, <1>5, <1>6, <1>7 DEF Buffers!Next

\* What BuffersInv says of the counts that the model is checked for.
LEMMA SameCardinality == ASSUME NEW S PROVE Buffers!Cardinality(S) = Cardinality(S)
  BY DEF Buffers!Cardinality, Cardinality

LEMMA OwedIs == ASSUME BuffersInv, NEW k \in Bufs PROVE Buffers!Owed(k) = Due(k)
<1> DEFINE S == {f \in report : file[f] = k}
<1>1. Cardinality(S) = IF k \in Reported THEN 1 ELSE 0
  <2>1. CASE k \in Reported
    <3>1. PICK f \in report : file[f] = k
      BY <2>1 DEF Reported
    <3>2. S = {f}
      BY <3>1 DEF BuffersInv
    <3> QED
      BY <2>1, <3>2, FS_Singleton
  <2>2. CASE k \notin Reported
    <3>1. S = {}
      BY <2>2 DEF Reported
    <3> QED
      BY <2>2, <3>1, FS_EmptySet
  <2> QED
    BY <2>1, <2>2
<1>2. Buffers!Owed(k) = uses[k] + (IF enq = k THEN 1 ELSE 0) + Cardinality(S)
  BY SameCardinality DEF Buffers!Owed
<1> QED
  BY <1>1, <1>2 DEF Due

LEMMA BuffersImply == BuffersInv => Buffers!BuffersAgree
<1> SUFFICES ASSUME BuffersInv PROVE Buffers!BuffersAgree
  OBVIOUS
<1>1. \A k \in Bufs : Buffers!Owed(k) = Due(k) /\ Due(k) \in Nat
  <2>1. \A k \in Bufs : Due(k) \in Nat
    BY DEF BuffersInv, BuffersType, Due
  <2> QED
    BY <2>1, OwedIs
<1>2. Buffers!CountsMatchDriver
  BY <1>1 DEF Buffers!CountsMatchDriver, BuffersInv, Count
<1>3. Buffers!FixedFdsHold
  <2>1. \A k \in Bufs : uses[k] > 0 => file[fdOf[k]] = k
    BY DEF BuffersInv
  <2>2. \A f \in Fds \ lost : file[f] \in Bufs => Buffers!Owed(file[f]) > 0
    <3> SUFFICES ASSUME NEW f \in Fds \ lost, file[f] \in Bufs PROVE Buffers!Owed(file[f]) > 0
      OBVIOUS
    <3>1. PICK k \in DOMAIN fdMap : fdMap[k].fd = f
      BY DescIs, Marks DEF BuffersInv, DescOK
    <3>2. f # -1 /\ file[f] # "stdout"
      BY Marks
    <3>3. file[f] = k /\ Count(fdMap, k) > 0
      BY <3>1, <3>2, DescIs DEF BuffersInv, DescOK, Count
    <3> QED
      BY <1>1, <3>3 DEF BuffersInv
  <2> QED
    BY <2>1, <2>2 DEF Buffers!FixedFdsHold
<1>4. Buffers!NoFdLeak
  <2>1. /\ \A f \in Fds \ lost : file[f] # "closed" => \E k \in DOMAIN fdMap : fdMap[k].fd = f
        /\ \A k \in DOMAIN fdMap : fdMap[k].fd # -1 => fdMap[k].fd \in Fds
                                                      /\ file[fdMap[k].fd] # "closed"
    BY DescIs, Marks DEF BuffersInv, DescOK
  <2>2. \A f : f \in {fdMap[k].fd : k \in DOMAIN fdMap} <=> \E k \in DOMAIN fdMap : fdMap[k].fd = f
    OBVIOUS
  <2>3. \A f : f \in {g \in Fds : file[g] # "closed"} \ lost
               <=> f \in {fdMap[k].fd : k \in DOMAIN fdMap} \ (lost \union {-1})
    BY <2>1, <2>2, Marks
  <2> QED
    BY <2>3, Marks DEF Buffers!NoFdLeak
<1> QED
  BY <1>2, <1>3, <1>4 DEF Buffers!BuffersAgree

\* ExynosBufferManager: the number of a descriptor refers to the memory that the
\* driver knows by it until the last reference of the driver is gone, the two counts
\* follow the driver's reports, and no file stays open for nobody.
THEOREM BuffersSafe == Buffers!Spec => []Buffers!BuffersAgree
<1>1. BuffersInv /\ [Buffers!Next]_(Buffers!memVars) => BuffersInv'
  BY BuffersStep
<1> QED
  BY <1>1, BuffersStart, BuffersImply, PTL DEF Buffers!Spec

-----------------------------------------------------------------------------
Formats == [layout : Setups!Layouts, bits : {8, 10}, sbwc : BOOLEAN]

SetupType ==
  /\ decCodec \in [type : Setups!Standards, in : BOOLEAN, out : BOOLEAN, fmt : Formats, size : Nat,
                   crop : Nat, dpb : Nat, delay : Nat, thumb : BOOLEAN, decoded : BOOLEAN]
  /\ bufferInfo \in [fmt : Formats \union {NoBuf}, size : Nat, crop : Nat, cnt : Nat]
  /\ filter \in [ready : BOOLEAN, fmt : Formats \union {NoBuf}, size : Nat, crop : Nat, cnt : Nat]
  /\ decDrv \in [fmt : Formats, seq : Setups!HeaderType \union {NoBuf}, on : SUBSET Setups!Switches]
  /\ dec \in Decoders /\ late \subseteq {"unheard", "uncropped"}

\* A filter that is configured has a codec whose input is, whose driver knows a
\* sequence, and whose format is the driver's but for the depth of its samples.
DecSetupInv ==
  /\ SetupType
  /\ filter.ready => /\ decCodec.in /\ decDrv.seq # NoBuf
                     /\ \E b \in {8, 10} : decCodec.fmt = Setups!DriverFormat(decDrv.fmt, b)
  /\ Setups!GeometryAgrees

LEMMA DefaultIs ==
  /\ Setups!Default \in Formats /\ NoBuf \notin Formats /\ NoBuf \notin Setups!HeaderType
  /\ NoBuf \notin Setups!Pixels
<1>1. Setups!Default = [layout |-> "NV12M", bits |-> 8, sbwc |-> FALSE]
  BY DEF Setups!Default, Setups!Format
<1>2. Setups!Default \in Formats
  BY <1>1 DEF Formats, Setups!Layouts
<1>3. Setups!Of(Setups!Layouts, {8, 10}, BOOLEAN) = Formats
  BY DEF Setups!Of, Formats
<1> QED
  BY <1>2, <1>3, ResourcesAssumption

LEMMA DriverFormatOK ==
  ASSUME NEW f \in Formats, NEW b \in {8, 10}
  PROVE  /\ Setups!DriverFormat(f, b) \in Formats
         /\ \A a \in {8, 10} : Setups!DriverFormat(Setups!DriverFormat(f, a), b) = Setups!DriverFormat(f, b)
<1>1. [f EXCEPT !.bits = b] \in Formats
  BY DEF Formats
<1>2. ASSUME NEW a \in {8, 10}
      PROVE  Setups!DriverFormat(Setups!DriverFormat(f, a), b) = Setups!DriverFormat(f, b)
  <2>1. CASE f.layout \in Setups!SemiPlanar
    <3>1. Setups!DriverFormat(f, a) = [f EXCEPT !.bits = a]
      BY <2>1 DEF Setups!DriverFormat
    <3>2. [f EXCEPT !.bits = a].layout = f.layout
      BY DEF Formats
    <3>3. [[f EXCEPT !.bits = a] EXCEPT !.bits = b] = [f EXCEPT !.bits = b]
      BY DEF Formats
    <3> QED
      BY <2>1, <3>1, <3>2, <3>3 DEF Setups!DriverFormat
  <2>2. CASE f.layout \notin Setups!SemiPlanar
    BY <2>2 DEF Setups!DriverFormat
  <2> QED
    BY <2>1, <2>2
<1> QED
  BY <1>1, <1>2 DEF Setups!DriverFormat

LEMMA PixelOfIs == \A f : Setups!PixelOf(f) \in {NoBuf, f}
  BY DEF Setups!PixelOf

LEMMA FormatByOK == ASSUME NEW p \in Setups!ParamType PROVE Setups!FormatBy(p) \in Formats
<1>1. \A l \in Setups!Layouts, b \in {8, 10}, s \in BOOLEAN : Setups!Format(l, b, s) \in Formats
  BY DEF Setups!Format, Formats
<1>2. Setups!Default \in Formats
  BY DefaultIs
<1>3. ASSUME NEW x \in Setups!Pixels PROVE Setups!VideoFormat(x) \in Formats
  BY <1>1, <1>2 DEF Setups!VideoFormat, Setups!Pixels, Setups!Layouts
<1>4. p.pixel \in Setups!Pixels \union {NoBuf} /\ Setups!Format("NV12", 8, TRUE) \in Formats
  BY <1>1 DEF Setups!ParamType, Setups!Layouts
<1> QED
  BY <1>2, <1>3, <1>4 DEF Setups!FormatBy, Setups!PixelFormat

\* The calls before a call that is made were made and not refused.
LEMMA StagesPass ==
  ASSUME NEW no
  PROVE  /\ Setups!Passed("Header", no) => /\ Setups!Passed("Enqueue", no)
                                           /\ Setups!Passed("OutGeometry", no) /\ "Header" \notin no
         /\ Setups!Passed("InSetup", no) => "InSetup" \notin no
<1>1. /\ DOMAIN Setups!Stages = 1..8
      /\ Setups!Stages[1] = "Cacheable" /\ Setups!Stages[2] = "Map" /\ Setups!Stages[3] = "InGeometry"
      /\ Setups!Stages[4] = "InSetup" /\ Setups!Stages[5] = "OutGeometry"
      /\ Setups!Stages[6] = "Enqueue" /\ Setups!Stages[7] = "Header" /\ Setups!Stages[8] = "OutSetup"
  BY DEF Setups!Stages
<1>2. ASSUME Setups!Passed("Header", no)
      PROVE  Setups!Passed("Enqueue", no) /\ Setups!Passed("OutGeometry", no) /\ "Header" \notin no
  <2>1. PICK n \in 1..8 : Setups!Stages[n] = "Header" /\ \A m \in 1..(n - 1) : Setups!Stages[m] \notin no
    BY <1>1, <1>2 DEF Setups!Passed, Setups!Reached
  <2>2. n = 7
    BY <1>1, <2>1
  <2>3. \A m \in 1..6 : Setups!Stages[m] \notin no
    BY <2>1, <2>2
  <2>4. \A m \in 1..5 : Setups!Stages[m] \notin no
    BY <2>3
  <2>5. Setups!Reached("Enqueue", no) /\ Setups!Reached("OutGeometry", no)
    <3>1. 6 \in 1..8 /\ 6 - 1 = 5 /\ 5 \in 1..8 /\ 5 - 1 = 4 /\ \A m \in 1..4 : Setups!Stages[m] \notin no
      BY <2>4
    <3> QED
      BY <1>1, <2>4, <3>1 DEF Setups!Reached
  <2>6. "Enqueue" \notin no /\ "OutGeometry" \notin no
    BY <1>1, <2>3
  <2> QED
    BY <1>2, <2>5, <2>6 DEF Setups!Passed
<1> QED
  BY <1>2 DEF Setups!Passed

LEMMA ThumbTold ==
  ASSUME NEW on \in SUBSET Setups!Switches, NEW no
  PROVE  /\ Setups!ControlsBy(on, no) \subseteq Setups!Switches
         /\ Setups!Thumb(on, no) \in BOOLEAN
         /\ Setups!Thumb(on, no) =>
              (IF dec.hw = "51" THEN "delay" ELSE "thumb") \in Setups!ControlsBy(on, no)
  BY DEF Setups!ControlsBy, Setups!Thumb, Setups!Switches

\* updateResolution() of a codec.
LEMMA UpdatedIs ==
  ASSUME NEW c \in [type : Setups!Standards, in : BOOLEAN, out : BOOLEAN, fmt : Formats, size : Nat,
                    crop : Nat, dpb : Nat, delay : Nat, thumb : BOOLEAN, decoded : BOOLEAN],
         NEW h \in Setups!HeaderType, NEW u, u = Setups!Updated(c, h)
  PROVE  /\ u \in [type : Setups!Standards, in : BOOLEAN, out : BOOLEAN, fmt : Formats, size : Nat,
                   crop : Nat, dpb : Nat, delay : Nat, thumb : BOOLEAN, decoded : BOOLEAN]
         /\ u.fmt = Setups!DriverFormat(c.fmt, h.bits) /\ u.size = h.size /\ u.crop = h.crop
         /\ u.dpb = h.dpb + (IF c.thumb THEN 0 ELSE 5)
         /\ u.in = c.in /\ u.out = c.out /\ u.thumb = c.thumb
<1>1. /\ h.size \in Nat /\ h.crop \in Nat /\ h.bits \in {8, 10} /\ h.dpb \in Nat /\ h.delay \in Nat
  BY DEF Setups!HeaderType
<1>2. Setups!DisplayDelay(h) \in Nat
  BY <1>1 DEF Setups!DisplayDelay
<1>3. Setups!DriverFormat(c.fmt, h.bits) \in Formats
  BY <1>1, DriverFormatOK
<1>4. /\ Setups!Reported(h, c.fmt).fmt = Setups!DriverFormat(c.fmt, h.bits)
      /\ Setups!Reported(h, c.fmt).size = h.size /\ Setups!Reported(h, c.fmt).crop = h.crop
  BY DEF Setups!Reported
<1>5. u = [c EXCEPT !.fmt = Setups!DriverFormat(c.fmt, h.bits), !.size = h.size, !.crop = h.crop,
                    !.delay = Setups!DisplayDelay(h),
                    !.dpb = h.dpb + (IF c.thumb THEN 0 ELSE 5)]
  BY <1>4 DEF Setups!Updated, Setups!EXTRA_DPB_NUM
<1>6. h.dpb + (IF c.thumb THEN 0 ELSE 5) \in Nat
  BY <1>1
<1> QED
  BY <1>1, <1>2, <1>3, <1>5, <1>6

LEMMA InfoOfIs ==
  ASSUME NEW c \in [type : Setups!Standards, in : BOOLEAN, out : BOOLEAN, fmt : Formats, size : Nat,
                    crop : Nat, dpb : Nat, delay : Nat, thumb : BOOLEAN, decoded : BOOLEAN]
  PROVE  /\ Setups!InfoOf(c) \in [fmt : Formats \union {NoBuf}, size : Nat, crop : Nat, cnt : Nat]
         /\ Setups!InfoOf(c).fmt \in {NoBuf, c.fmt} /\ Setups!InfoOf(c).size = c.size
         /\ Setups!InfoOf(c).crop = c.crop /\ Setups!InfoOf(c).cnt = c.dpb
         /\ Setups!InfoOf(c).fmt = Setups!PixelOf(c.fmt)
<1>1. Setups!PixelOf(c.fmt) \in {NoBuf, c.fmt}
  BY PixelOfIs
<1> QED
  BY <1>1 DEF Setups!InfoOf

\* getOutputInfo() of a codec and of the geometry it reported.
LEMMA AllocatesIs ==
  ASSUME NEW c, NEW i \in [fmt : Formats \union {NoBuf}, size : Nat, crop : Nat, cnt : Nat],
         filter \in [ready : BOOLEAN, fmt : Formats \union {NoBuf}, size : Nat, crop : Nat, cnt : Nat],
         c.in \in BOOLEAN, c.out \in BOOLEAN
  PROVE  /\ Setups!Allocates(c, i) \in
              [ready : BOOLEAN, fmt : Formats \union {NoBuf}, size : Nat, crop : Nat, cnt : Nat]
         /\ c.in /\ c.out => /\ Setups!Allocates(c, i).ready
                             /\ Setups!Allocates(c, i).fmt = i.fmt
                             /\ Setups!Allocates(c, i).size = i.size
                             /\ Setups!Allocates(c, i).cnt = i.cnt
         /\ ~(c.in /\ c.out) => Setups!Allocates(c, i) = filter
<1>1. CASE c.in /\ c.out
  <2>1. Setups!Allocates(c, i) =
          [ready |-> TRUE, fmt |-> i.fmt, size |-> i.size, crop |-> i.crop, cnt |-> i.cnt]
    BY <1>1 DEF Setups!Allocates
  <2> QED
    BY <1>1, <2>1
<1>2. CASE ~(c.in /\ c.out)
  BY <1>2 DEF Setups!Allocates
<1> QED
  BY <1>1, <1>2

LEMMA SetupStart == Setups!Init => DecSetupInv
<1> SUFFICES ASSUME Setups!Init PROVE DecSetupInv
  OBVIOUS
<1>1. /\ decCodec = [type |-> dec.std, in |-> FALSE, out |-> FALSE, fmt |-> Setups!Default, size |-> 0,
                     crop |-> 0, dpb |-> 0, delay |-> 0, thumb |-> FALSE, decoded |-> FALSE]
      /\ dec \in Decoders /\ late = {} /\ decDrv = [fmt |-> Setups!Default, seq |-> NoBuf, on |-> {}]
      /\ bufferInfo = [fmt |-> Setups!Default, size |-> 0, crop |-> 0, cnt |-> 0]
      /\ filter = [ready |-> FALSE, fmt |-> Setups!Default, size |-> 0, crop |-> 0, cnt |-> 0]
  BY DEF Setups!Init, Setups!NewCodec, Setups!NewDriver
<1>2. dec.std \in Setups!Standards
  BY <1>1, ResourcesAssumption DEF Setups!DecoderType
<1>3. SetupType
  BY <1>1, <1>2, DefaultIs DEF SetupType
<1>4. ~filter.ready /\ ~decCodec.thumb
  BY <1>1
<1> QED
  BY <1>3, <1>4 DEF DecSetupInv, Setups!GeometryAgrees, Setups!AllocatesForStream, Setups!FramesCropped,
       Setups!ThumbnailTold

LEMMA SetupStep ==
  ASSUME DecSetupInv, NEW h \in Headers, NEW p \in InputParams, NEW calls, Setups!Setup(h, p, calls)
  PROVE  DecSetupInv'
<1> DEFINE no     == Setups!Refused(h, p, calls)
           opened == Setups!SrcSetup(p, no)
           source == Setups!HeaderParsing(opened, h, no)
           parsed == Setups!Passed("Header", no)
           known  == parsed /\ Setups!PixelOf(source.fmt) # NoBuf
           c      == IF known THEN Setups!DstSetup(source, no) ELSE source
<1>1. /\ ~filter.ready /\ decCodec' = c
      /\ bufferInfo' = IF parsed THEN Setups!InfoOf(source) ELSE bufferInfo
      /\ filter' = IF known THEN Setups!Allocates(c, Setups!InfoOf(source)) ELSE filter
      /\ decDrv' = Setups!DriverAfter(h, p, no, opened.fmt)
      /\ dec' = dec /\ late' = late
  BY DEF Setups!Setup
<1>2. h \in Setups!HeaderType /\ p \in Setups!ParamType /\ h # NoBuf
  BY ResourcesAssumption, DefaultIs
<1>3. "Header" \notin no => h.kind = "whole"
  BY DEF Setups!Refused
<1>4. p.vc1 \in Setups!Standards /\ p.on \in SUBSET Setups!Switches
  BY <1>2 DEF Setups!ParamType, Setups!Standards
<1> HIDE DEF no
<1>5. opened = [decCodec EXCEPT
                  !.type  = IF Setups!Passed("Map", no) THEN Setups!TypeBy(p) ELSE @,
                  !.fmt   = IF Setups!Passed("InSetup", no) THEN Setups!FormatBy(p) ELSE @,
                  !.thumb = @ \/ (Setups!Passed("InSetup", no) /\ Setups!Thumb(p.on, no)),
                  !.in    = Setups!Passed("OutGeometry", no)]
  BY DEF Setups!SrcSetup
<1>6. /\ Setups!Passed("InSetup", no) \in BOOLEAN /\ Setups!Passed("OutGeometry", no) \in BOOLEAN
      /\ Setups!Thumb(p.on, no) \in BOOLEAN
      /\ Setups!TypeBy(p) \in Setups!Standards /\ Setups!FormatBy(p) \in Formats
  BY <1>2, <1>4, ThumbTold, FormatByOK DEF DecSetupInv, SetupType, Setups!TypeBy, Setups!Passed, Setups!Reached
<1>7. /\ opened \in [type : Setups!Standards, in : BOOLEAN, out : BOOLEAN, fmt : Formats, size : Nat,
                     crop : Nat, dpb : Nat, delay : Nat, thumb : BOOLEAN, decoded : BOOLEAN]
      /\ opened.in = Setups!Passed("OutGeometry", no)
      /\ opened.thumb = (decCodec.thumb \/ (Setups!Passed("InSetup", no) /\ Setups!Thumb(p.on, no)))
  BY <1>5, <1>6 DEF DecSetupInv, SetupType
<1> HIDE DEF opened
<1> DEFINE updated == Setups!Updated(opened, h)
<1>8. /\ updated \in [type : Setups!Standards, in : BOOLEAN, out : BOOLEAN, fmt : Formats, size : Nat,
                      crop : Nat, dpb : Nat, delay : Nat, thumb : BOOLEAN, decoded : BOOLEAN]
      /\ updated.fmt = Setups!DriverFormat(opened.fmt, h.bits) /\ updated.size = h.size
      /\ updated.crop = h.crop /\ updated.dpb = h.dpb + (IF opened.thumb THEN 0 ELSE 5)
      /\ updated.in = opened.in /\ updated.out = opened.out /\ updated.thumb = opened.thumb
  BY <1>2, <1>7, UpdatedIs
<1>9. source = IF parsed THEN [updated EXCEPT !.decoded = TRUE] ELSE opened
  BY DEF Setups!HeaderParsing
<1> HIDE DEF updated, source, parsed
<1>10. /\ source \in [type : Setups!Standards, in : BOOLEAN, out : BOOLEAN, fmt : Formats, size : Nat,
                      crop : Nat, dpb : Nat, delay : Nat, thumb : BOOLEAN, decoded : BOOLEAN]
       /\ source.thumb = opened.thumb /\ source.in = opened.in
       /\ parsed => /\ source.fmt = Setups!DriverFormat(opened.fmt, h.bits) /\ source.size = h.size
                    /\ source.crop = h.crop /\ source.dpb = h.dpb + (IF opened.thumb THEN 0 ELSE 5)
  BY <1>7, <1>8, <1>9
<1>11. /\ c \in [type : Setups!Standards, in : BOOLEAN, out : BOOLEAN, fmt : Formats, size : Nat,
                 crop : Nat, dpb : Nat, delay : Nat, thumb : BOOLEAN, decoded : BOOLEAN]
       /\ c.thumb = source.thumb /\ c.in = source.in /\ c.fmt = source.fmt /\ c.crop = source.crop
  <2>1. c = IF known THEN [source EXCEPT !.out = "OutSetup" \notin no] ELSE source
    BY DEF Setups!DstSetup
  <2> QED
    BY <1>10, <2>1
<1> DEFINE i == Setups!InfoOf(source)
<1>12. /\ i \in [fmt : Formats \union {NoBuf}, size : Nat, crop : Nat, cnt : Nat]
       /\ i.fmt \in {NoBuf, source.fmt} /\ i.size = source.size /\ i.cnt = source.dpb
  BY <1>10, InfoOfIs
<1>13. /\ decDrv'.fmt = IF Setups!Passed("OutGeometry", no) THEN opened.fmt ELSE decDrv.fmt
       /\ decDrv'.seq = IF Setups!Passed("Enqueue", no) /\ h.kind = "whole" THEN h ELSE decDrv.seq
       /\ decDrv'.on = decDrv.on \union (IF Setups!Passed("InSetup", no)
                                         THEN Setups!ControlsBy(p.on, no) ELSE {})
       /\ decDrv' \in [fmt : Formats, seq : Setups!HeaderType \union {NoBuf}, on : SUBSET Setups!Switches]
  <2>1. Setups!ControlsBy(p.on, no) \subseteq Setups!Switches
    BY <1>4, ThumbTold
  <2> QED
    BY <1>1, <1>2, <1>7, <2>1 DEF Setups!DriverAfter, DecSetupInv, SetupType
<1> HIDE DEF known, c, i
<1>14. parsed => /\ Setups!Passed("Enqueue", no) /\ Setups!Passed("OutGeometry", no)
                 /\ h.kind = "whole"
  BY <1>3, StagesPass DEF parsed
<1>15. /\ filter' \in [ready : BOOLEAN, fmt : Formats \union {NoBuf}, size : Nat, crop : Nat, cnt : Nat]
       /\ filter'.ready => /\ known /\ c.in /\ filter'.fmt = i.fmt /\ filter'.size = i.size
                           /\ filter'.cnt = i.cnt
  <2>1. filter \in [ready : BOOLEAN, fmt : Formats \union {NoBuf}, size : Nat, crop : Nat, cnt : Nat]
    BY DEF DecSetupInv, SetupType
  <2>2. c.in \in BOOLEAN /\ c.out \in BOOLEAN
    BY <1>11
  <2>3. filter' = IF known THEN Setups!Allocates(c, i) ELSE filter
    BY <1>1 DEF i
  <2> QED
    BY <1>1, <1>12, <2>1, <2>2, <2>3, AllocatesIs
<1>16. SetupType'
  <2>1. bufferInfo' \in [fmt : Formats \union {NoBuf}, size : Nat, crop : Nat, cnt : Nat]
    BY <1>1, <1>12 DEF i, DecSetupInv, SetupType
  <2> QED
    BY <1>1, <1>11, <1>13, <1>15, <2>1 DEF DecSetupInv, SetupType
<1>17. known => parsed
  BY DEF known
<1>18. filter'.ready =>
         /\ decCodec'.in /\ decDrv'.seq = h /\ decDrv'.fmt = opened.fmt
         /\ decCodec'.fmt = Setups!DriverFormat(opened.fmt, h.bits)
         /\ decCodec'.crop = h.crop /\ decCodec'.thumb = opened.thumb
         /\ filter'.size = h.size /\ filter'.cnt = h.dpb + (IF opened.thumb THEN 0 ELSE 5)
         /\ filter'.fmt \in {NoBuf, Setups!DriverFormat(opened.fmt, h.bits)}
  BY <1>1, <1>10, <1>11, <1>12, <1>13, <1>14, <1>15, <1>17
<1>19. Setups!AllocatesForStream' /\ Setups!FramesCropped'
  BY <1>18 DEF Setups!AllocatesForStream, Setups!FramesCropped, Setups!EXTRA_DPB_NUM
<1>20. Setups!ThumbnailTold'
  <2> SUFFICES ASSUME decCodec'.thumb
               PROVE  (IF dec'.hw = "51" THEN "delay" ELSE "thumb") \in decDrv'.on
    BY DEF Setups!ThumbnailTold
  <2>1. decCodec.thumb \/ (Setups!Passed("InSetup", no) /\ Setups!Thumb(p.on, no))
    BY <1>1, <1>7, <1>10, <1>11
  <2>2. CASE decCodec.thumb
    BY <1>1, <1>13, <2>2 DEF DecSetupInv, Setups!GeometryAgrees, Setups!ThumbnailTold
  <2>3. CASE Setups!Passed("InSetup", no) /\ Setups!Thumb(p.on, no)
    BY <1>1, <1>4, <1>13, <2>3, ThumbTold
  <2> QED
    BY <2>1, <2>2, <2>3
<1>21. h.bits \in {8, 10}
  BY <1>2 DEF Setups!HeaderType
<1> QED
  BY <1>2, <1>16, <1>18, <1>19, <1>20, <1>21 DEF DecSetupInv, Setups!GeometryAgrees

LEMMA ConfigStep ==
  ASSUME DecSetupInv, NEW p \in InputParams, NEW no, Setups!Config(p, no)
  PROVE  DecSetupInv'
<1>1. /\ decDrv' = [decDrv EXCEPT !.on = @ \union Setups!ControlsBy(p.on \intersect Setups!Runtime, no)]
      /\ dec' = dec /\ decCodec' = decCodec /\ bufferInfo' = bufferInfo /\ filter' = filter
      /\ late' = late
  BY DEF Setups!Config
<1>2. p.on \intersect Setups!Runtime \in SUBSET Setups!Switches
  BY ResourcesAssumption DEF Setups!ParamType
<1>3. Setups!ControlsBy(p.on \intersect Setups!Runtime, no) \subseteq Setups!Switches
  BY <1>2, ThumbTold
<1>4. /\ decDrv' \in [fmt : Formats, seq : Setups!HeaderType \union {NoBuf}, on : SUBSET Setups!Switches]
      /\ decDrv'.fmt = decDrv.fmt /\ decDrv'.seq = decDrv.seq /\ decDrv.on \subseteq decDrv'.on
  BY <1>1, <1>3 DEF DecSetupInv, SetupType
<1>5. SetupType'
  BY <1>1, <1>4 DEF DecSetupInv, SetupType
<1>6. Setups!GeometryAgrees'
  BY <1>1, <1>4 DEF DecSetupInv, Setups!GeometryAgrees, Setups!AllocatesForStream, Setups!FramesCropped,
       Setups!ThumbnailTold
<1> QED
  BY <1>1, <1>4, <1>5, <1>6 DEF DecSetupInv

LEMMA ResolutionChangeStep ==
  ASSUME DecSetupInv, NEW h \in Headers, NEW no, Setups!ResolutionChange(h, no)
  PROVE  DecSetupInv'
<1> DEFINE heard == "Header" \notin no
           new   == Setups!Updated(decCodec, h)
<1>1. /\ filter.ready /\ decDrv' = [decDrv EXCEPT !.seq = h]
      /\ decCodec' = IF heard THEN Setups!Resetup(new, no) ELSE decCodec
      /\ bufferInfo' = IF heard THEN Setups!InfoOf(new) ELSE bufferInfo
      /\ filter' = Setups!Allocates(decCodec', bufferInfo')
      /\ late' = IF heard THEN late \ {"unheard"} ELSE late \union {"unheard"}
      /\ dec' = dec
  BY DEF Setups!ResolutionChange
<1>2. h \in Setups!HeaderType /\ h # NoBuf /\ h.bits \in {8, 10}
  BY ResourcesAssumption, DefaultIs DEF Setups!HeaderType
<1>3. decCodec \in [type : Setups!Standards, in : BOOLEAN, out : BOOLEAN, fmt : Formats, size : Nat,
                    crop : Nat, dpb : Nat, delay : Nat, thumb : BOOLEAN, decoded : BOOLEAN]
  BY DEF DecSetupInv, SetupType
<1>4. /\ new \in [type : Setups!Standards, in : BOOLEAN, out : BOOLEAN, fmt : Formats, size : Nat,
                  crop : Nat, dpb : Nat, delay : Nat, thumb : BOOLEAN, decoded : BOOLEAN]
      /\ new.fmt = Setups!DriverFormat(decCodec.fmt, h.bits) /\ new.size = h.size
      /\ new.crop = h.crop /\ new.dpb = h.dpb + (IF decCodec.thumb THEN 0 ELSE 5)
      /\ new.in = decCodec.in /\ new.thumb = decCodec.thumb
  BY <1>2, <1>3, UpdatedIs
<1> HIDE DEF new
<1>5. /\ Setups!InfoOf(new) \in [fmt : Formats \union {NoBuf}, size : Nat, crop : Nat, cnt : Nat]
      /\ Setups!InfoOf(new).fmt \in {NoBuf, new.fmt} /\ Setups!InfoOf(new).size = new.size
      /\ Setups!InfoOf(new).cnt = new.dpb
  BY <1>4, InfoOfIs
<1>6. /\ decDrv' \in [fmt : Formats, seq : Setups!HeaderType \union {NoBuf}, on : SUBSET Setups!Switches]
      /\ decDrv'.fmt = decDrv.fmt /\ decDrv'.seq = h /\ decDrv'.on = decDrv.on
  BY <1>1, <1>2 DEF DecSetupInv, SetupType
<1>7. /\ decCodec' \in [type : Setups!Standards, in : BOOLEAN, out : BOOLEAN, fmt : Formats, size : Nat,
                        crop : Nat, dpb : Nat, delay : Nat, thumb : BOOLEAN, decoded : BOOLEAN]
      /\ decCodec'.in = decCodec.in /\ decCodec'.thumb = decCodec.thumb
      /\ heard => decCodec'.fmt = new.fmt /\ decCodec'.crop = new.crop
      /\ ~heard => decCodec' = decCodec
  <2>1. \/ Setups!Resetup(new, no) = new
        \/ Setups!Resetup(new, no) = [new EXCEPT !.out = "OutSetup" \notin no]
    BY DEF Setups!Resetup, Setups!DstSetup
  <2> QED
    BY <1>1, <1>3, <1>4, <2>1
<1>8. bufferInfo' \in [fmt : Formats \union {NoBuf}, size : Nat, crop : Nat, cnt : Nat]
  BY <1>1, <1>5 DEF DecSetupInv, SetupType
<1>9. /\ filter' \in [ready : BOOLEAN, fmt : Formats \union {NoBuf}, size : Nat, crop : Nat, cnt : Nat]
      /\ decCodec'.in /\ decCodec'.out =>
           /\ filter'.fmt = bufferInfo'.fmt /\ filter'.size = bufferInfo'.size
           /\ filter'.cnt = bufferInfo'.cnt
  <2>1. filter \in [ready : BOOLEAN, fmt : Formats \union {NoBuf}, size : Nat, crop : Nat, cnt : Nat]
    BY DEF DecSetupInv, SetupType
  <2>2. decCodec'.in \in BOOLEAN /\ decCodec'.out \in BOOLEAN
    BY <1>7
  <2> QED
    BY <1>1, <1>8, <2>1, <2>2, AllocatesIs
<1>10. SetupType'
  BY <1>1, <1>6, <1>7, <1>8, <1>9 DEF DecSetupInv, SetupType
<1>11. PICK b \in {8, 10} : decCodec.fmt = Setups!DriverFormat(decDrv.fmt, b)
  BY <1>1 DEF DecSetupInv
<1>12. decCodec.in /\ decDrv.fmt \in Formats
  BY <1>1 DEF DecSetupInv, SetupType
<1>13. new.fmt = Setups!DriverFormat(decDrv.fmt, h.bits)
  BY <1>2, <1>4, <1>11, <1>12, DriverFormatOK
<1>14. \E a \in {8, 10} : decCodec'.fmt = Setups!DriverFormat(decDrv'.fmt, a)
  BY <1>2, <1>6, <1>7, <1>11, <1>13
<1>15. Setups!AllocatesForStream'
  <2> SUFFICES ASSUME decCodec'.out, "unheard" \notin late'
               PROVE  /\ filter'.size = h.size
                      /\ filter'.fmt \in {NoBuf, Setups!DriverFormat(decDrv'.fmt, h.bits)}
                      /\ filter'.cnt = h.dpb + (IF decCodec'.thumb THEN 0 ELSE 5)
    BY <1>6 DEF Setups!AllocatesForStream, Setups!EXTRA_DPB_NUM
  <2>1. heard
    BY <1>1
  <2>2. bufferInfo' = Setups!InfoOf(new)
    BY <1>1, <2>1
  <2> QED
    BY <1>4, <1>5, <1>6, <1>7, <1>9, <1>12, <1>13, <2>2
<1>16. Setups!FramesCropped'
  BY <1>1, <1>4, <1>6, <1>7 DEF Setups!FramesCropped
<1>17. Setups!ThumbnailTold'
  BY <1>1, <1>6, <1>7 DEF Setups!ThumbnailTold, DecSetupInv, Setups!GeometryAgrees
<1> QED
  BY <1>2, <1>6, <1>7, <1>10, <1>12, <1>14, <1>15, <1>16, <1>17 DEF DecSetupInv, Setups!GeometryAgrees

LEMMA InterResolutionStep ==
  ASSUME DecSetupInv, NEW h \in Headers, NEW no, Setups!InterResolution(h, no)
  PROVE  DecSetupInv'
<1>1. /\ filter.ready /\ decDrv.seq # NoBuf /\ decDrv' = [decDrv EXCEPT !.seq.crop = h.crop]
      /\ decCodec' = IF "Header" \in no THEN decCodec ELSE [decCodec EXCEPT !.crop = h.crop]
      /\ late' = IF "Header" \in no THEN late \union {"uncropped"} ELSE late \ {"uncropped"}
      /\ dec' = dec /\ bufferInfo' = bufferInfo /\ filter' = filter
  BY DEF Setups!InterResolution
<1>2. h.crop \in Nat
  BY ResourcesAssumption DEF Setups!HeaderType
<1>3. /\ decDrv \in [fmt : Formats, seq : Setups!HeaderType \union {NoBuf}, on : SUBSET Setups!Switches]
      /\ decDrv.seq \in Setups!HeaderType
  BY <1>1 DEF DecSetupInv, SetupType
<1> DEFINE seq == [decDrv.seq EXCEPT !.crop = h.crop]
<1>4. /\ seq \in Setups!HeaderType /\ seq.crop = h.crop /\ seq.size = decDrv.seq.size
      /\ seq.bits = decDrv.seq.bits /\ seq.dpb = decDrv.seq.dpb
  BY <1>2, <1>3 DEF Setups!HeaderType
<1>5. decDrv' = [decDrv EXCEPT !.seq = seq]
  BY <1>1
<1> HIDE DEF seq
<1>6. /\ decDrv' \in [fmt : Formats, seq : Setups!HeaderType \union {NoBuf}, on : SUBSET Setups!Switches]
      /\ decDrv'.fmt = decDrv.fmt /\ decDrv'.seq = seq /\ decDrv'.on = decDrv.on
  BY <1>3, <1>4, <1>5
<1>7. /\ decCodec' \in [type : Setups!Standards, in : BOOLEAN, out : BOOLEAN, fmt : Formats, size : Nat,
                        crop : Nat, dpb : Nat, delay : Nat, thumb : BOOLEAN, decoded : BOOLEAN]
      /\ decCodec'.in = decCodec.in /\ decCodec'.out = decCodec.out
      /\ decCodec'.thumb = decCodec.thumb /\ decCodec'.fmt = decCodec.fmt
      /\ "Header" \notin no => decCodec'.crop = h.crop
  BY <1>1, <1>2 DEF DecSetupInv, SetupType
<1>8. SetupType'
  BY <1>1, <1>6, <1>7 DEF DecSetupInv, SetupType
<1>9. Setups!AllocatesForStream'
  BY <1>1, <1>4, <1>6, <1>7 DEF DecSetupInv, Setups!GeometryAgrees, Setups!AllocatesForStream
<1>10. Setups!FramesCropped'
  BY <1>1, <1>4, <1>6, <1>7 DEF Setups!FramesCropped
<1>11. Setups!ThumbnailTold'
  BY <1>1, <1>6, <1>7 DEF Setups!ThumbnailTold, DecSetupInv, Setups!GeometryAgrees
<1>12. seq # NoBuf
  BY <1>4, DefaultIs
<1> QED
  BY <1>1, <1>6, <1>7, <1>8, <1>9, <1>10, <1>11, <1>12 DEF DecSetupInv, Setups!GeometryAgrees

LEMMA ResetStep == ASSUME DecSetupInv, Setups!Reset PROVE DecSetupInv'
<1>1. /\ decCodec' = [type |-> dec.std, in |-> FALSE, out |-> FALSE, fmt |-> Setups!Default, size |-> 0,
                      crop |-> 0, dpb |-> 0, delay |-> 0, thumb |-> FALSE, decoded |-> FALSE]
      /\ bufferInfo' = [fmt |-> Setups!Default, size |-> 0, crop |-> 0, cnt |-> 0]
      /\ filter' = [filter EXCEPT !.ready = FALSE]
      /\ decDrv' = [fmt |-> Setups!Default, seq |-> NoBuf, on |-> {}] /\ late' = {} /\ dec' = dec
  BY DEF Setups!Reset, Setups!NewCodec, Setups!NewDriver
<1>2. dec.std \in Setups!Standards
  BY ResourcesAssumption DEF Setups!DecoderType, DecSetupInv, SetupType
<1>3. SetupType'
  BY <1>1, <1>2, DefaultIs DEF DecSetupInv, SetupType
<1>4. ~filter'.ready /\ ~decCodec'.thumb
  BY <1>1 DEF DecSetupInv, SetupType
<1> QED
  BY <1>3, <1>4 DEF DecSetupInv, Setups!GeometryAgrees, Setups!AllocatesForStream, Setups!FramesCropped,
       Setups!ThumbnailTold

LEMMA SetupKept ==
  ASSUME DecSetupInv, [Setups!Next]_(Setups!decVars)
  PROVE  DecSetupInv'
<1>1. ASSUME NEW no, NEW h \in Headers, NEW p \in InputParams, Setups!Setup(h, p, no) PROVE DecSetupInv'
  BY <1>1, SetupStep
<1>2. ASSUME NEW no, NEW h \in Headers, Setups!ResolutionChange(h, no) PROVE DecSetupInv'
  BY <1>2, ResolutionChangeStep
<1>3. ASSUME NEW no, NEW h \in Headers, Setups!InterResolution(h, no) PROVE DecSetupInv'
  BY <1>3, InterResolutionStep
<1>4. ASSUME NEW no, NEW p \in InputParams, Setups!Config(p, no) PROVE DecSetupInv'
  BY <1>4, ConfigStep
<1>5. CASE Setups!Reset
  BY <1>5, ResetStep
<1>6. CASE UNCHANGED Setups!decVars
  <2>1. UNCHANGED <<dec, decCodec, bufferInfo, filter, decDrv, late>>
    BY <1>6 DEF Setups!decVars
  <2>2. SetupType' = SetupType /\ Setups!GeometryAgrees' = Setups!GeometryAgrees
    BY <2>1 DEF SetupType, Setups!GeometryAgrees, Setups!AllocatesForStream, Setups!FramesCropped,
         Setups!ThumbnailTold
  <2> QED
    BY <2>1, <2>2 DEF DecSetupInv
<1> QED
  BY <1>1, <1>2, <1>3, <1>4, <1>5, <1>6 DEF Setups!Next

\* Whichever call of the setup of a decoder or of a change of resolution is refused,
\* the buffers are allocated by the geometry the driver decodes with (DecSetup).
THEOREM SetupSafe == Setups!Spec => []Setups!GeometryAgrees
<1>1. DecSetupInv /\ [Setups!Next]_(Setups!decVars) => DecSetupInv'
  BY SetupKept
<1>2. DecSetupInv => Setups!GeometryAgrees
  BY DEF DecSetupInv
<1> QED
  BY <1>1, <1>2, SetupStart, PTL DEF Setups!Spec

-----------------------------------------------------------------------------
(***************************************************************************)
(* The modules together: a behaviour is one of one of them.                *)

ApiInv == SlotsInv /\ DeviceInv /\ BuffersInv /\ DecSetupInv

LEMMA ApiStart == MCInit => ApiInv
  BY InitInv, DeviceInit, BuffersStart, SetupStart
     DEF MCInit, ApiInv, SlotsRest, DeviceRest, SetupsRest

LEMMA ApiStep ==
  ASSUME ApiInv,
         [MCNext]_<<part, slotVars, deviceVars, paramVars, memVars, setupVars, flowVars>>
  PROVE  ApiInv'
<1>1. /\ [Next]_slotVars /\ [Device!Next]_deviceVars
      /\ [Buffers!Next]_memVars /\ [Setups!Next]_setupVars
  BY DEF MCNext
<1>2. /\ deviceVars = Device!deviceVars /\ memVars = Buffers!memVars
      /\ setupVars = Setups!decVars
  BY DEF deviceVars, memVars, setupVars, Device!deviceVars, Buffers!memVars, Setups!decVars
<1>3. deviceVars' = Device!deviceVars' /\ memVars' = Buffers!memVars' /\ setupVars' = Setups!decVars'
  BY DEF deviceVars, memVars, setupVars, Device!deviceVars, Buffers!memVars, Setups!decVars
<1>4. /\ [Device!Next]_(Device!deviceVars) /\ [Buffers!Next]_(Buffers!memVars)
      /\ [Setups!Next]_(Setups!decVars)
  BY <1>1, <1>2, <1>3
<1> QED
  BY <1>1, <1>4, NextInv, DeviceStep, BuffersStep, SetupKept DEF ApiInv

\* In every behaviour of the four modules: no resource outlives its context and
\* shared memory is mapped when it is used; the counts and the descriptors of the
\* output buffers agree with what the driver refers to, whatever it reports and
\* whichever dup2() fails; and a decoder's buffers have the geometry of its stream,
\* whichever call of its setup or of a change of resolution was refused.
THEOREM ResourcesKept == MCSpec => []ResourcesAgree
<1>1. ApiInv => ResourcesAgree
  BY BuffersImply DEF ApiInv, DeviceInv, DecSetupInv, ResourcesAgree
<1>2. ApiInv
      /\ [MCNext]_<<part, slotVars, deviceVars, paramVars, memVars, setupVars, flowVars>> => ApiInv'
  BY ApiStep
<1> QED
  BY <1>1, <1>2, ApiStart, PTL DEF MCSpec

=============================================================================
