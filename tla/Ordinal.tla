------------------------------ MODULE Ordinal -------------------------------
(***************************************************************************)
(* ExynosC2Ordinal and ExynosTimestampPool: the custom ordinal of each     *)
(* output, made from the timestamps of the inputs or from the picture      *)
(* order count of the output, as the decoder (applyCustomOrdinal) and the  *)
(* encoder (onUpdateC2Work) use them on the pool's thread.                 *)
(*                                                                         *)
(* Timestamps are c2_cntr64_t counters; those of one stream lie far closer *)
(* together than half their range, where their modular comparison is the   *)
(* usual order.                                                            *)
(***************************************************************************)
EXTENDS Integers, Sequences, FiniteSets, SequencesExt

CONSTANTS
  MaxTimestamp,     \* timestamps are 1..MaxTimestamp
  MaxInputs,        \* bound on the inputs between two clears
  MaxOrdinal,       \* bound on the frame index
  None

ASSUME OrdinalAssumption ==
  /\ {MaxTimestamp, MaxInputs, MaxOrdinal} \subseteq Nat
  /\ None \notin Int

Timestamps == 1..MaxTimestamp

VARIABLES
  mode,             \* mUseReorderTimestamp of a decoder, or an encoder
  mTimestamps, mLatestTimestamp,      \* ExynosTimestampPool
  mFrameIndex, mBaseFrameIndex,       \* ExynosC2Ordinal
  ordinal,          \* the latest customOrdinal that was handed out
  basis,            \* history: what the step calibrated to, or None
  inputs,           \* history: timestamps queued since the last clear, in order
  waiting,          \* history: those no output was seen for
  lastPoc,          \* picture order count of the latest output, or None
  conforming        \* history: outputs came in the order of their timestamps

poolVars    == <<mTimestamps, mLatestTimestamp>>
indexVars   == <<mFrameIndex, mBaseFrameIndex>>
streamVars  == <<inputs, waiting, conforming>>
ordinalVars == <<mode, poolVars, indexVars, ordinal, basis, streamVars, lastPoc>>

Mode == {"reorder", "index", "encoder"}

Init ==
  /\ mode \in Mode
  /\ mTimestamps = <<>> /\ mLatestTimestamp = 0
  /\ mFrameIndex = 0 /\ mBaseFrameIndex = 0
  /\ ordinal = None /\ basis = None
  /\ inputs = <<>> /\ waiting = {} /\ lastPoc = None /\ conforming = TRUE

-----------------------------------------------------------------------------
(* ExynosTimestampPool.                                                    *)

Ascending(s) == SortSeq(s, <)

\* The loop that erases what is smaller than ts.  erase() returns the next
\* element, which the loop's own increment then skips; past the last element the
\* increment runs through the list's end node to its beginning.
RECURSIVE EraseBelow(_, _, _)
EraseBelow(s, i, ts) ==
  IF i > Len(s) THEN s
  ELSE IF s[i] >= ts THEN EraseBelow(s, i + 1, ts)
  ELSE LET rest == RemoveAt(s, i)
       IN  IF rest = <<>> THEN <<>>
           ELSE EraseBelow(rest, IF i = Len(rest) + 1 THEN 1 ELSE i + 1, ts)

\* calibrateTimestamp(): the list from the basis timestamp on, if it has it.
Calibrate(s, ts) ==
  LET sorted == Ascending(s)
  IN  IF ts \in ToSet(s) THEN SelectSeq(sorted, LAMBDA x : x >= ts)
                         ELSE EraseBelow(sorted, 1, ts)

\* Mutation: the latest timestamp is not looked at.
Taken_NotLatest(s) ==
  IF s = <<>> THEN mLatestTimestamp ELSE Head(s)

\* getTimestamp() on the (sorted) list s: never smaller than the one before.
Taken(s) ==
  IF s = <<>> \/ mLatestTimestamp > Head(s) THEN mLatestTimestamp ELSE Head(s)

\* Mutation: the list is not sorted.
GetTimestamp_Unsorted(s, sort) ==
  /\ mTimestamps' = IF s = <<>> THEN <<>> ELSE Tail(s)
  /\ mLatestTimestamp' = Taken(s)

GetTimestamp(s, sort) ==
  LET list == IF sort THEN Ascending(s) ELSE s
  IN  /\ mTimestamps' = IF list = <<>> THEN <<>> ELSE Tail(list)
      /\ mLatestTimestamp' = Taken(list)

-----------------------------------------------------------------------------
(* ExynosC2Ordinal.                                                        *)

\* Mutation: the base is the index that is already in use.
AdjustedBase_InUse(intra) == IF intra THEN mFrameIndex ELSE mBaseFrameIndex

\* Mutation: the base is one too small.
AdjustedBase_Previous(intra) == IF intra THEN mFrameIndex - 1 ELSE mBaseFrameIndex

\* adjustFrameIndex(), on IDR and I frames.
AdjustedBase(intra) == IF intra THEN mFrameIndex + 1 ELSE mBaseFrameIndex

\* getOrdinal(int index)
GetOrdinal(index, base) ==
  /\ ordinal' = IF index < 0 THEN mFrameIndex + 1 ELSE base + index
  /\ mFrameIndex' = IF mFrameIndex < ordinal' THEN ordinal' ELSE mFrameIndex
  /\ mBaseFrameIndex' = base
  /\ mTimestamps' = <<>> /\ mLatestTimestamp' = 0

-----------------------------------------------------------------------------
(* What the component does with them.                                      *)

Seen(ts) ==
  /\ waiting' = waiting \ {ts}
  /\ conforming' = (conforming /\ ts \in waiting /\ \A x \in waiting : ts <= x)

\* queueFilterWork(): an input with a timestamp.  An input that follows an output
\* with a later timestamp does not come from a conforming stream.
AddTimestamp(ts) ==
  /\ Len(inputs) < MaxInputs
  /\ mTimestamps' = Append(mTimestamps, ts)
  /\ inputs' = Append(inputs, ts)
  /\ waiting' = waiting \union {ts}
  /\ conforming' = /\ conforming
                    /\ ts \notin ToSet(inputs)
                    /\ \A x \in ToSet(inputs) \ waiting : x < ts
  /\ basis' = None
  /\ UNCHANGED <<mode, mLatestTimestamp, indexVars, ordinal, lastPoc>>

\* An output buffer for an input of timestamp ts; one input may have several.
Output(ts, intra) ==
  /\ mode \in {"reorder", "encoder"}
  /\ ts \in ToSet(inputs)
  /\ mFrameIndex < MaxOrdinal
  /\ GetTimestamp(IF intra THEN Calibrate(mTimestamps, ts) ELSE mTimestamps,
                  mode = "reorder")
  /\ ordinal' = mLatestTimestamp'
  /\ mBaseFrameIndex' = IF mode = "reorder" THEN AdjustedBase(intra) ELSE mBaseFrameIndex
  /\ basis' = IF intra THEN ts ELSE None
  /\ Seen(ts)
  /\ UNCHANGED <<mode, mFrameIndex, inputs, lastPoc>>

\* The codec delivers in display order: the count grows until an IDR or I frame
\* begins a new sequence, and is negative only just before one.
DisplayOrder(poc, intra) ==
  ~intra /\ poc >= 0 /\ lastPoc # None => 0 <= lastPoc /\ lastPoc < poc

OutputIndexed(ts, poc, intra) ==
  /\ mode = "index"
  /\ ts \in ToSet(inputs)
  /\ mFrameIndex < MaxOrdinal
  /\ DisplayOrder(poc, intra)
  /\ GetOrdinal(poc, AdjustedBase(intra))
  /\ basis' = IF intra THEN ts ELSE None
  /\ lastPoc' = poc
  /\ Seen(ts)
  /\ UNCHANGED <<mode, inputs>>

\* An answer without an output buffer takes a timestamp all the same.
OutputNone(ts) ==
  /\ mode = "reorder"
  /\ ts \in ToSet(inputs)
  /\ GetTimestamp(mTimestamps, TRUE)
  /\ ordinal' = mLatestTimestamp'
  /\ basis' = None
  /\ Seen(ts)
  /\ UNCHANGED <<mode, indexVars, inputs, lastPoc>>

\* The last answer of a stream whose end-of-stream input has timestamp 0: it
\* takes a timestamp, but keeps its own.
OutputEos ==
  /\ mode = "reorder"
  /\ GetTimestamp(mTimestamps, TRUE)
  /\ basis' = None
  /\ conforming' = (conforming /\ waiting = {})
  /\ UNCHANGED <<mode, indexVars, ordinal, inputs, waiting, lastPoc>>

\* doFlush(), doStart(), stop() and reset().
Clear ==
  /\ mTimestamps' = <<>> /\ mLatestTimestamp' = 0
  /\ mFrameIndex' = 0 /\ mBaseFrameIndex' = 0
  /\ ordinal' = None /\ basis' = None
  /\ inputs' = <<>> /\ waiting' = {} /\ lastPoc' = None /\ conforming' = TRUE
  /\ UNCHANGED mode

Next ==
  \/ \E ts \in Timestamps : AddTimestamp(ts)
  \/ \E ts \in Timestamps, intra \in BOOLEAN : Output(ts, intra)
  \/ \E ts \in Timestamps, poc \in -1..2, intra \in BOOLEAN : OutputIndexed(ts, poc, intra)
  \/ \E ts \in Timestamps : OutputNone(ts)
  \/ OutputEos
  \/ Clear

Spec == Init /\ [][Next]_ordinalVars

-----------------------------------------------------------------------------
(* Properties.                                                             *)

TypeOK ==
  /\ mode \in Mode
  /\ mTimestamps \in Seq(Timestamps) /\ mLatestTimestamp \in Timestamps \union {0}
  /\ mFrameIndex \in Nat /\ mBaseFrameIndex \in Nat
  /\ ordinal \in Nat \union {None} /\ basis \in Timestamps \union {None}
  /\ inputs \in Seq(Timestamps) /\ waiting \in SUBSET Timestamps
  /\ lastPoc \in Int \union {None} /\ conforming \in BOOLEAN

\* Outputs made from picture order counts get strictly growing ordinals across
\* IDR and I frames and across outputs with a negative count (leading pictures).
IndexedOrdinalsGrow ==
  [][\A ts \in Timestamps, poc \in -1..2, intra \in BOOLEAN :
       OutputIndexed(ts, poc, intra) /\ ordinal # None => ordinal' > ordinal]_ordinalVars

\* The ordinals made from timestamps never go back, whatever the order in which
\* inputs come, outputs are seen and the list is calibrated.
OrdinalsNeverDecrease ==
  [][(mode # "index" /\ ordinal # None /\ ordinal' # None) => ordinal' >= ordinal]_ordinalVars

\* With mUseReorderTimestamp, outputs that come in the order of their timestamps
\* get exactly their own one, although inputs come in decoding order and every
\* IDR or I frame calibrates the list.
OwnTimestamp ==
  [][\A ts \in Timestamps :
       (mode = "reorder" /\ conforming' /\ ((\E intra \in BOOLEAN : Output(ts, intra))
                                            \/ OutputNone(ts)))
         => ordinal' = ts]_ordinalVars

\* "remove timestamps smaller than basis timestamp for sync based on codec
\* standard" (ExynosTimestampPool.h): after an adjustment no smaller one is left.
StaleTimestampsRemoved ==
  [][basis' # None => \A x \in ToSet(mTimestamps') : x >= basis']_ordinalVars

=============================================================================
