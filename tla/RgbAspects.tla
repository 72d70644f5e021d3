----------------------------- MODULE RgbAspects -----------------------------
(***************************************************************************)
(* The color aspects of an encoder whose input is RGBA.  The GPU that will *)
(* read the stream knows few data spaces, so the client's aspects are      *)
(* converted, in place, each time they are sent: at the setup, with every  *)
(* input that carries them before the stream is on, and after a change of  *)
(* resolution, which takes them back from the input port.                  *)
(***************************************************************************)
EXTENDS Naturals

CONSTANTS
  Gpus,         \* data spaces of ro.vendor.gpu.dataspace
  Sizes         \* sizes of the input

VARIABLES
  gpu, bt2020, vp9, \* GetSupportedDataspaceOnGPU(), BOARD_SUPPORT_MFC_ENC_BT2020,
                    \* the encoder is one of VP9; fixed
  size,             \* SourceWidth and SourceHeight
  param,            \* the client's ParamColorAspects
  sent,             \* aspects of the input port, or None
  first             \* history: the aspects that were sent first, or None

rgbVars == <<gpu, bt2020, vp9, size, param, sent, first>>

Ranges    == {"unspecified", "full", "limited"}
Primaries == {"unspecified", "BT709", "BT601_625", "BT601_525", "BT2020", "other"}
Transfers == {"unspecified", "BT709", "SMPTE_170M", "BT2020_1", "ST2084", "other"}
Matrices  == {"unspecified", "BT709", "SMPTE170M", "BT2020", "BT2020_CONSTANT", "other"}

Aspects(r, p, t, m) == [range |-> r, primaries |-> p, transfer |-> t, matrix |-> m]

AspectsType == [range : Ranges, primaries : Primaries, transfer : Transfers, matrix : Matrices]

Unspecified == Aspects("unspecified", "unspecified", "unspecified", "unspecified")

None == [none |-> TRUE]

Is709(a)  == [a EXCEPT !.primaries = "BT709", !.transfer = "BT709", !.matrix = "BT709"]
Is601(a)  == [a EXCEPT !.transfer = "SMPTE_170M", !.matrix = "SMPTE170M"]

\* Android's default data space for a size, as its parts.
GetDefaultDataSpace(s) ==
  LET p == CASE s = "4k" -> "BT2020" [] s = "hd" -> "BT709"
             [] s = "pal" -> "BT601_625" [] s = "ntsc" -> "BT601_525"
  IN  [primaries |-> p, transfer |-> "SMPTE_170M",
       matrix |-> IF p \in {"BT601_625", "BT601_525"} THEN "SMPTE170M" ELSE p]

\* The transfer is what the driver looks at; SMPTE_170M says too little.
ByStandard(a) ==
  IF a.transfer \notin {"unspecified", "SMPTE_170M"} THEN a
  ELSE IF a.primaries \in {"BT601_625", "BT601_525"} THEN Is601(a)
  ELSE IF a.matrix = "SMPTE170M" THEN [Is601(a) EXCEPT !.primaries = "BT601_625"]
  ELSE IF "BT709" \in {a.primaries, a.matrix} THEN Is709(a)
  ELSE IF bt2020 /\ (a.primaries = "BT2020" \/ a.matrix \in {"BT2020", "BT2020_CONSTANT"})
       THEN [a EXCEPT !.primaries = "BT2020", !.transfer = "BT2020_1", !.matrix = "BT2020"]
  ELSE a

\* Aspects that are still open follow the size.
ByDefault(a, s) ==
  LET d == GetDefaultDataSpace(s)
      b == [a EXCEPT !.primaries = d.primaries, !.transfer = d.transfer, !.matrix = d.matrix]
  IN  IF a.transfer # "unspecified" THEN a
      ELSE IF d.primaries = "BT709" THEN [b EXCEPT !.transfer = "BT709"]
      ELSE IF d.primaries # "BT2020" THEN b
      ELSE IF bt2020 THEN [b EXCEPT !.transfer = "BT2020_1"] ELSE Is709(b)

ByGpu(a) ==
  CASE gpu = "BT709" -> IF a.transfer \in {"BT2020_1", "ST2084"} THEN Is709(a) ELSE a
    [] gpu = "BT601" -> [Is601(a) EXCEPT !.primaries = "BT601_625"]
    [] gpu = "BT2020" -> a

\* Mutation: the limit of the GPU before the default.
ColorAspectsForRGB_GpuFirst(a, s) ==
  LET r == IF a.range = "unspecified" THEN [a EXCEPT !.range = "limited"] ELSE a
  IN  ByDefault(ByGpu(ByStandard(r)), s)

\* getColorAspectsForRGB.
ColorAspectsForRGB(a, s) ==
  LET r == IF a.range = "unspecified" THEN [a EXCEPT !.range = "limited"] ELSE a
  IN  ByGpu(ByDefault(ByStandard(r), s))

\* Set_ColorAspects: VP9 has a table of color spaces, to which the aspects are
\* bent, and what is bent is kept in the port's geometry.
SetColorAspects(a) ==
  IF ~vp9 THEN a
  ELSE [a EXCEPT !.primaries = IF @ = "BT601_625" THEN "BT601_525" ELSE @,
                 !.transfer = IF @ = "BT709" THEN "SMPTE_170M" ELSE @]

Send(a) == /\ sent' = SetColorAspects(a)
           /\ first' = IF first = None THEN SetColorAspects(a) ELSE first

Init ==
  /\ gpu \in Gpus /\ bt2020 \in BOOLEAN /\ vp9 \in BOOLEAN
  /\ size \in Sizes
  /\ param \in AspectsType \union {None}
  /\ sent = None /\ first = None

\* srcSetup() and the inputs before the stream is on: the parameter is changed
\* in place.
ApplyColorAspects ==
  /\ param # None
  /\ LET a == ColorAspectsForRGB(param, size) IN param' = a /\ Send(a)
  /\ UNCHANGED <<gpu, bt2020, vp9, size>>

\* changeResolution(): from the port's geometry.
ChangeResolution(s) ==
  /\ size' = s
  /\ Send(ColorAspectsForRGB(IF sent = None THEN Unspecified ELSE sent, s))
  /\ param' = None    \* the next inputs come without
  /\ UNCHANGED <<gpu, bt2020, vp9>>

Next == ApplyColorAspects \/ \E s \in Sizes : ChangeResolution(s)

-----------------------------------------------------------------------------
TypeOK ==
  /\ gpu \in Gpus /\ bt2020 \in BOOLEAN /\ vp9 \in BOOLEAN /\ size \in Sizes
  /\ param \in AspectsType \union {None}
  /\ {sent, first} \subseteq AspectsType \union {None}

\* VP9's table has no BT709 transfer: the one that stands for it is looked at
\* again at the next conversion, which changes aspects that are not of one
\* standard.
Bent(a) == vp9 /\ a.transfer = "SMPTE_170M" /\ {a.primaries, a.matrix} # {"BT709"}

\* However often they are converted, and whatever the sizes on the way, a stream
\* keeps the color aspects it began with; they are never left open and never
\* beyond what the GPU knows.
AspectsSettle ==
  sent # None =>
    /\ sent = first \/ Bent(first)
    /\ sent.range # "unspecified" /\ sent.transfer # "unspecified"
    /\ gpu = "BT709" => sent.transfer \notin {"BT2020_1", "ST2084"}
    /\ gpu = "BT601" => sent.primaries \in {"BT601_625", "BT601_525"}

=============================================================================
