----------------------------- MODULE EncParams -----------------------------
(***************************************************************************)
(* The encoder's parameters on their way to the driver                     *)
(* (ExynosVideo_OSAL.c): the array of controls that                        *)
(* Codec_OSAL_SetControls_EncParams fills on its stack, part by part, for  *)
(* the codec and the features of the driver, and the quantization range,   *)
(* which is set with all parameters and again on its own, as pairs of      *)
(* controls that can be refused one by one.                                *)
(***************************************************************************)
EXTENDS Integers, Sequences, FiniteSets, SequencesExt

CONSTANTS
  QpRanges,     \* ranges a client asks for: [QpTypes -> <<min, max>>]
  FeatureSets   \* features drivers have: subsets of Features

VARIABLES
  codec, feats,     \* instInfo.eCodecType and .supportInfo.enc; fixed
  newHw,            \* HwVersion is MFC_120; fixed
  slicesKnown,      \* the last SliceMode was one of 0, 1, 2
  filled, count,    \* indices of ext_ctrl that were written; ext_ctrls.count
  kept,             \* mEncParam.common.QpRange
  drv,              \* driver: [QpTypes -> <<min, max>>]
  half, ahead       \* history: frame types of a refused range, left with a new
                    \* maximum only; left with values that were not kept

paramVars == <<codec, feats, newHw, slicesKnown, filled, count, kept, drv, half, ahead>>

Codecs   == {"AVC", "MPEG4", "H263", "VP8", "HEVC", "VP9"}
Features == {"TemporalSvc", "Skype", "RoiInfo", "QpRangePB", "PVC", "ChromaQp", "DropControl"}
QpTypes  == {"I", "P", "B"}

MAX_CTRL_NUM == 112

-----------------------------------------------------------------------------
(* Values of the quantization parameter.                                   *)

vp8_qp_trans ==
  <<0, 1, 2, 3, 4, 5, 7, 8, 9, 10, 12, 13, 15, 17, 18, 19, 20, 21, 23, 24, 25,
    26, 27, 28, 29, 30, 31, 33, 35, 37, 39, 41, 43, 45, 47, 49, 51, 53, 55, 57,
    59, 61, 64, 67, 70, 73, 76, 79, 82, 85, 88, 91, 94, 97, 100, 103, 106, 109,
    112, 115, 118, 121, 124, 127>>

vp9_qp_trans == [i \in 1..64 |-> IF i <= 62 THEN 4 * (i - 1) ELSE 249 + 6 * (i - 63)]

Clamp(v, lo, hi) == IF v < lo THEN lo ELSE IF v > hi THEN hi ELSE v

\* GET_H264_QP_VALUE and its kin: a range, or a table over a range.
QpValue(v) ==
  CASE codec = "AVC" -> Clamp(v, 0, 51)
    [] codec \in {"MPEG4", "H263"} -> Clamp(v, 1, 31)
    [] codec = "HEVC" -> Clamp(v, IF newHw THEN -12 ELSE 0, 51)
    [] codec = "VP8" -> vp8_qp_trans[Clamp(v, 0, 63) + 1]
    [] codec = "VP9" -> vp9_qp_trans[Clamp(v, 1, 63) + 1]

-----------------------------------------------------------------------------
(* The array of controls.  A part says which indices it writes, counted    *)
(* from where the count stands, and what it adds to the count.             *)

Common == 0..7

SliceIndices == IF slicesKnown' THEN {13, 14} ELSE {}

\* H264_CTRL_NUM is 92: slices, profile, deblocking, hierarchy, interlace,
\* VUI, FMO and its 32 slice orders.
AvcBase == [writes |-> (8..91 \ {13, 14}) \union SliceIndices, adds |-> 92]

AvcOptions ==
  <<[if |-> "TemporalSvc", writes |-> 7, adds |-> 7],
    [if |-> "Skype", writes |-> 4, adds |-> 4],
    [if |-> "RoiInfo", writes |-> 1, adds |-> 1],
    [if |-> "QpRangePB", writes |-> 4, adds |-> 4],
    [if |-> "PVC", writes |-> 1, adds |-> 1],
    [if |-> "ChromaQp", writes |-> 2, adds |-> 2]>>

Mpeg4Parts ==
  [base |-> [writes |-> (8..25 \ {13, 14}) \union SliceIndices, adds |-> 26],
   options |-> <<[if |-> "QpRangePB", writes |-> 4, adds |-> 4]>>]

\* H.263 has no slices.
H263Parts ==
  [base |-> [writes |-> 8..17, adds |-> 18],
   options |-> <<[if |-> "QpRangePB", writes |-> 2, adds |-> 2]>>]

Vp8Parts ==
  [base |-> [writes |-> 8..29, adds |-> 30],
   options |-> <<[if |-> "TemporalSvc", writes |-> 3, adds |-> 3],
                 [if |-> "QpRangePB", writes |-> 2, adds |-> 2],
                 [if |-> "PVC", writes |-> 1, adds |-> 1]>>]

HevcBase == [writes |-> 8..52, adds |-> 53]

HevcOptions ==
  <<[if |-> "TemporalSvc", writes |-> 7, adds |-> 7],
    [if |-> "Skype", writes |-> 1, adds |-> 1],
    [if |-> "RoiInfo", writes |-> 1, adds |-> 1],
    [if |-> "QpRangePB", writes |-> 4, adds |-> 4],
    [if |-> "PVC", writes |-> 1, adds |-> 1],
    [if |-> "ChromaQp", writes |-> 2, adds |-> 2]>>

Vp9Parts ==
  [base |-> [writes |-> 8..28, adds |-> 29],
   options |-> <<[if |-> "TemporalSvc", writes |-> 3, adds |-> 3],
                 [if |-> "QpRangePB", writes |-> 2, adds |-> 2],
                 [if |-> "PVC", writes |-> 1, adds |-> 1]>>]

Parts ==
  CASE codec = "AVC"   -> [base |-> AvcBase, options |-> AvcOptions]
    [] codec = "MPEG4" -> Mpeg4Parts
    [] codec = "H263"  -> H263Parts
    [] codec = "VP8"   -> Vp8Parts
    [] codec = "HEVC"  -> [base |-> HevcBase, options |-> HevcOptions]
    [] codec = "VP9"   -> Vp9Parts

\* A part for a feature, on top of what is there; without the feature, nothing.
Append1(array, part) ==
  IF part.if \notin feats THEN array
  ELSE [writes |-> array.writes \union (array.count..(array.count + part.writes - 1)),
        count |-> array.count + part.adds]

\* Codec_OSAL_SetControls_EncParams: the common controls, those of the codec,
\* those of its features, and the drop control, common again but last.
Array ==
  FoldLeft(Append1,
    [writes |-> Common \union Parts.base.writes, count |-> Parts.base.adds],
    Append(Parts.options, [if |-> "DropControl", writes |-> 1, adds |-> 1]))

-----------------------------------------------------------------------------
\* The frame types whose range is sent: I always, P and B with the feature,
\* B only for the codecs that have such frames.
Sent ==
  {"I"} \union
  (IF "QpRangePB" \notin feats THEN {}
   ELSE IF codec \in {"AVC", "MPEG4", "HEVC"} THEN {"P", "B"} ELSE {"P"})

Pair(r) == <<QpValue(r[1]), QpValue(r[2])>>

\* What the codecs' default parameters have.
InitRange == [t \in QpTypes |-> CASE codec \in {"AVC", "HEVC"} -> <<5, 50>>
                                  [] codec \in {"MPEG4", "H263"} -> <<3, 30>>
                                  [] OTHER -> <<2, 63>>]

Init ==
  /\ codec \in Codecs
  /\ feats \in FeatureSets
  /\ newHw \in (IF codec = "HEVC" THEN BOOLEAN ELSE {FALSE})
  /\ slicesKnown = TRUE
  /\ filled = {} /\ count = 0
  /\ kept = InitRange
  /\ drv = [t \in QpTypes |-> Pair(InitRange[t])]
  /\ half = {} /\ ahead = {}

\* Set_EncParam: all controls in one call, which the driver takes or leaves.
SetEncParam(known, ok) ==
  /\ slicesKnown' = known
  /\ filled' = Array.writes
  /\ count' = Array.count
  /\ IF ok
     THEN /\ drv' = [t \in QpTypes |-> IF t \in Sent THEN Pair(kept[t]) ELSE drv[t]]
          /\ half' = {} /\ ahead' = {}
     ELSE UNCHANGED <<drv, half, ahead>>
  /\ UNCHANGED <<codec, feats, newHw, kept>>

\* Mutation: only the range of I frames is looked at.
Refused_OnlyI(r) == r["I"][1] > r["I"][2]

\* Set_QuantizationRange looks at the I frames, Codec_OSAL_SetControls_QPRange
\* at the others it sends, but not for VP9.
Refused(r) ==
  \/ r["I"][1] > r["I"][2]
  \/ codec # "VP9" /\ \E t \in Sent : r[t][1] > r[t][2]

\* "keep a calling sequence as Max->Min because dirver has a restriction"
Writes ==
  LET of(t) == IF t \in Sent THEN <<<<t, 2>>, <<t, 1>>>> ELSE <<>>
  IN  of("I") \o of("P") \o of("B")

\* Set_QuantizationRange of which the driver takes n controls.
SetQpRange(r, n) ==
  /\ ~Refused(r)
  /\ LET done == {Writes[i] : i \in 1..n}
         touched(t) == \E x \in {1, 2} : <<t, x>> \in done
         whole(t) == \A x \in {1, 2} : <<t, x>> \in done
     IN  /\ drv' = [t \in QpTypes |-> [x \in {1, 2} |->
               IF <<t, x>> \in done THEN Pair(r[t])[x] ELSE drv[t][x]]]
         /\ half' = {t \in QpTypes : IF touched(t) THEN ~whole(t) ELSE t \in half}
         /\ IF n = Len(Writes)
            THEN kept' = r /\ ahead' = {}
            ELSE kept' = kept /\ ahead' = ahead \union {t \in QpTypes : touched(t)}
  /\ UNCHANGED <<codec, feats, newHw, slicesKnown, filled, count>>

Next ==
  \/ \E known, ok \in BOOLEAN : SetEncParam(known, ok)
  \/ \E r \in QpRanges, n \in 0..6 : n <= Len(Writes) /\ SetQpRange(r, n)

Spec == Init /\ [][Next]_paramVars

-----------------------------------------------------------------------------
(* Get_AverageQp.                                                          *)

\* The positions of a value of the driver in the table it was made with.
TableIndex(table, v) == {i \in 0..(Len(table) - 1) : table[i + 1] = v}

\* What a client reads back; no result when the value is not in the table.
AverageQp(v) ==
  CASE codec = "VP8" -> TableIndex(vp8_qp_trans, v)
    [] codec = "VP9" -> TableIndex(vp9_qp_trans, v)
    [] OTHER -> {v}

-----------------------------------------------------------------------------
(* Properties.                                                             *)

TypeOK ==
  /\ codec \in Codecs /\ feats \subseteq Features
  /\ newHw \in BOOLEAN /\ slicesKnown \in BOOLEAN
  /\ filled \subseteq Nat /\ count \in Nat
  /\ \A t \in QpTypes : kept[t] \in Int \X Int /\ drv[t] \in Int \X Int
  /\ half \subseteq ahead /\ ahead \subseteq QpTypes

\* The driver is given exactly the controls that were written, and the array of
\* MAX_CTRL_NUM entries on the stack (ExynosVideo_OSAL.c:1707) holds them,
\* whatever features come together; two entries stay uninitialized for a slice
\* mode the codec does not know, which nothing on the way checks.
ControlsFilled ==
  count > 0 =>
    /\ count <= MAX_CTRL_NUM
    /\ filled \subseteq 0..(count - 1)
    /\ (0..(count - 1)) \ filled \subseteq (IF slicesKnown THEN {} ELSE {13, 14})

\* Over refused and half-refused calls, the driver never has a minimum above
\* its maximum but for P frames of VP9, which nobody checks, and a half-refused
\* pair; it works with the range a later Set_EncParam will send again, but for
\* what a refused call left behind; and what it reports as a quantizer is read
\* back as the value the range was given in.
QpRangeConsistent ==
  /\ \A t \in QpTypes \ half :
       drv[t][1] <= drv[t][2] \/ (codec = "VP9" /\ t = "P")
  /\ \A t \in Sent \ ahead : drv[t] = Pair(kept[t])
  /\ codec \in {"VP8", "VP9"} =>
       \A t \in Sent \ ahead : \A x \in {1, 2} :
         AverageQp(drv[t][x]) = {Clamp(kept[t][x], IF codec = "VP8" THEN 0 ELSE 1, 63)}

=============================================================================
