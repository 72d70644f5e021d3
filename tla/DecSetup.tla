------------------------------ MODULE DecSetup ------------------------------
(***************************************************************************)
(* A decoder between its first input and its end: the configuration that   *)
(* precedes the header, the header's geometry on its way from the driver   *)
(* through the codec to the filter that allocates buffers by it, changes   *)
(* of resolution, and what is left when any of these calls is refused.     *)
(* ExynosVideoCodecDec and the setup of ExynosVideoCodec, with the calls   *)
(* of ExynosVideoDecoder.c below them.                                     *)
(***************************************************************************)
EXTENDS Naturals, FiniteSets

CONSTANTS
  Decoders,    \* decoders to choose from, see DecoderType
  Headers,     \* sequences a stream is made of, see HeaderType
  InputParams, \* what may come with an input, see ParamType
  Refusals,    \* sets of calls that are refused in an operation
  MaxSetups,   \* bound: inputs that setup is tried with, changes of resolution
  None         \* no pixel format, no sequence

VARIABLES
  dec,         \* the decoder and its hardware; fixed
  codec,       \* ExynosVideoCodecDec: its CodecDecImpl and its two ports
  info,        \* mBufferInfo of ExynosVideoCodec
  filter,      \* the decoder's filter: mIsConfigured and what it allocates by
  drv,         \* the driver: what was set, and the sequence it decodes
  setups,      \* bounded by MaxSetups
  late         \* history: what was not carried out, and why

decVars == <<dec, codec, info, filter, drv, setups, late>>

Standards == {"AVC", "HEVC", "VP9", "AV1", "VC1", "VC1_RCV", "UNKNOWN"}
DecoderType == [hw : {"170", "160", "150", "140", "130", "100", "92", "65", "51"},
                std : Standards \ {"UNKNOWN"}, knows : SUBSET {"rate", "prio", "delay"}]

\* A sequence: what the driver reports of it, or why it reports nothing.
HeaderType == [size : Nat, crop : Nat, bits : {8, 10}, dpb : Nat, delay : Nat,
               kind : {"whole", "partial", "unsupported"}]

Pixels    == {"any", "SP_M", "SPN", "NV21", "YV12", "P010"}
Switches  == {"order", "delay", "thumb", "bar", "rate", "prio"}
ParamType == [pixel : Pixels \union {None}, sbwc : BOOLEAN, on : SUBSET Switches,
              vc1 : {"VC1", "VC1_RCV", "UNKNOWN"}]
EXTRA_DPB_NUM == 5

-----------------------------------------------------------------------------
(* Formats: a layout, the depth of its samples, and whether it is SBWC.     *)

Layouts == {"NV12", "NV12M", "NV21M", "I420", "I420M", "YV12M", "NV12T", "NV12MT"}
Format(layout, bits, sbwc) == [layout |-> layout, bits |-> bits, sbwc |-> sbwc]
Default == Format("NV12M", 8, FALSE)

SemiPlanar   == {"NV12", "NV12M", "NV21M"}
ThreePlanes  == {"I420", "I420M", "YV12M"}
Of(layouts, bits, sbwc) == [layout : layouts, bits : bits, sbwc : sbwc]
HasDepth(std) == std \in {"HEVC", "VP9", "AV1"}

\* __Set_SupportFormat for hardware that compresses: AV1 has no three planes,
\* and on 160 and 1501 not SBWC either.
SupportSbwc(hw, std) ==
  LET sbwc == IF hw = "160" /\ std = "AV1" THEN {FALSE} ELSE BOOLEAN
  IN  Of(SemiPlanar, {8}, sbwc)
      \union (IF std = "AV1" /\ hw \in {"170", "160"} THEN {} ELSE Of(ThreePlanes, {8}, {FALSE}))
      \union (IF HasDepth(std) /\ (std = "AV1" => hw \in {"170", "160"})
              THEN Of(SemiPlanar, {10}, sbwc) ELSE {})

\* __Set_SupportFormat for older hardware; the oldest has tiles only.
SupportPlain(hw, std) ==
  CASE hw = "130" -> Of(SemiPlanar \union ThreePlanes, {8}, {FALSE})
                     \union (IF std \in {"HEVC", "VP9"} THEN Of(SemiPlanar, {10}, {FALSE}) ELSE {})
    [] hw = "100" -> Of(SemiPlanar \union ThreePlanes, {8}, {FALSE})
    [] hw = "92"  -> Of(SemiPlanar, {8}, {FALSE})
    [] OTHER      -> Of({"NV12T", "NV12MT"}, {8}, {FALSE})

Support(d) == IF d.hw \in {"170", "160", "150", "140"} THEN SupportSbwc(d.hw, d.std)
              ELSE SupportPlain(d.hw, d.std)

\* Pixel formats of the client: applyConfig_PixelFormat turns them into formats
\* of the library and falls back to NV12M.
VideoFormat(pixel) ==
  CASE pixel \in {"any", "SP_M"} -> Default
    [] pixel = "SPN"   -> Format("NV12", 8, FALSE)
    [] pixel = "NV21"  -> Format("NV21M", 8, FALSE)
    [] pixel = "YV12"  -> Format("YV12M", 8, FALSE)
    [] pixel = "P010"  -> Format("NV12", 10, FALSE)

PixelFormat(pixel) ==
  IF VideoFormat(pixel) \in Support(dec) THEN VideoFormat(pixel) ELSE Default

\* The driver: a sequence of ten bits is decoded into the format of ten bits.
DriverFormat(f, bits) == IF f.layout \in SemiPlanar THEN [f EXCEPT !.bits = bits] ELSE f

\* Video2PixelMap has no pixel format for tiles, nor for ten bits in NV21M.
PixelOf(f) ==
  IF f.layout \in {"NV12T", "NV12MT"} \/ (f.layout = "NV21M" /\ f.bits = 10) THEN None ELSE f

-----------------------------------------------------------------------------
NoGeometry == [fmt |-> Default, size |-> 0, dpb |-> 0]

NewCodec == [type |-> dec.std, in |-> FALSE, out |-> FALSE, fmt |-> Default, size |-> 0,
             crop |-> 0, dpb |-> 0, delay |-> 0, thumb |-> FALSE, decoded |-> FALSE]
NewDriver == [fmt |-> Default, seq |-> None, on |-> {}]

Init ==
  /\ dec \in Decoders
  /\ codec = NewCodec
  /\ info = [fmt |-> Default, size |-> 0, crop |-> 0, cnt |-> 0]
  /\ filter = [ready |-> FALSE, fmt |-> Default, size |-> 0, crop |-> 0, cnt |-> 0]
  /\ drv = NewDriver
  /\ setups = 0
  /\ late = {}

(* The calls of srcSetup and dstSetup in their order.  Those after a call  *)
(* that is refused are not made.                                            *)
Stages == <<"Cacheable", "Map", "InGeometry", "InSetup", "OutGeometry", "Enqueue", "Header",
            "OutSetup">>
Reached(stage, no) ==
  \E n \in DOMAIN Stages : Stages[n] = stage /\ \A m \in 1..(n - 1) : Stages[m] \notin no
Passed(stage, no) == Reached(stage, no) /\ stage \notin no

\* srcSetup asks the header of a VC-1 stream which kind it is, and believes it.
TypeBy(p) == IF codec.type \in {"VC1", "VC1_RCV"} THEN p.vc1 ELSE codec.type

\* What the driver does with a call by itself: it knows no stream of an unknown
\* type, reports no geometry before a whole header, and none it cannot decode.
Refused(h, p, no) ==
  no \union (IF TypeBy(p) = "UNKNOWN" THEN {"InGeometry"} ELSE {})
     \union (IF h.kind # "whole" THEN {"Header"} ELSE {})

\* applyConfig_PixelFormat and applyConfig_CompressedColor, after srcSetup has
\* put the default.  The client gets compressed colors where any format will do.
FormatBy(p) ==
  LET plain == IF p.pixel = None THEN Default ELSE PixelFormat(p.pixel)
      sbwc  == Format("NV12", 8, TRUE)
  IN  IF p.sbwc /\ sbwc \in Support(dec) THEN sbwc ELSE plain

\* The controls of the driver that an input sets.  Those of operating rate and
\* priority need support; the oldest hardware has a delay of 0 for a thumbnail,
\* and applyConfig_Skype, which reads the index of the thumbnail, asks for it too.
ControlsBy(on, no) ==
  (on \ ({"thumb"} \union ({"rate", "prio"} \ dec.knows) \union no))
  \union (IF "thumb" \in on /\ "delay" \notin no THEN {"delay"} ELSE {})
  \union (IF "thumb" \in on /\ "thumb" \notin no
          THEN (IF dec.hw = "51" THEN {"delay"} ELSE {"thumb"}) ELSE {})
Runtime == {"bar", "rate", "prio"}

\* Mutant: a codec of thumbnails whatever the driver answered.
Thumb_Anyway(on, no) == "thumb" \in on

\* enableThumbnailMode: the codec is one of thumbnails when the driver is.
Thumb(on, no) ==
  "thumb" \in on /\ (IF dec.hw = "51" THEN "delay" \notin no ELSE "thumb" \notin no)

\* Mutant: a change of resolution has the crop of the elder sequence.
Reported_OldCrop(h, f) == [fmt |-> DriverFormat(f, h.bits), size |-> h.size, crop |-> codec.crop]

\* Get_Geometry: the driver decodes into the format that was set, in the depth
\* of the sequence.
Reported(h, f) == [fmt |-> DriverFormat(f, h.bits), size |-> h.size, crop |-> h.crop]

\* Get_DisplayDelay: not every driver has it.
DisplayDelay(h) == IF "delay" \in dec.knows THEN h.delay ELSE h.dpb

\* updateResolution: the geometry that the driver reports, the buffers it needs
\* with the extra ones, and the delay of its display, or else the buffers.
Updated(c, h) ==
  LET g == Reported(h, c.fmt)
  IN  [c EXCEPT !.fmt = g.fmt, !.size = g.size, !.crop = g.crop, !.delay = DisplayDelay(h),
                !.dpb = h.dpb + (IF c.thumb THEN 0 ELSE EXTRA_DPB_NUM)]

\* getResolution, getDPBCount and getColorFormat write mBufferInfo in turn.
InfoOf(c) == [fmt |-> PixelOf(c.fmt), size |-> c.size, crop |-> c.crop, cnt |-> c.dpb]

\* srcSetup up to the header: the format and the controls are set between the
\* setup of the input and the geometry of the output.
SrcSetup(p, no) ==
  [codec EXCEPT !.type  = IF Passed("Map", no) THEN TypeBy(p) ELSE @,
                !.fmt   = IF Passed("InSetup", no) THEN FormatBy(p) ELSE @,
                !.thumb = @ \/ (Passed("InSetup", no) /\ Thumb(p.on, no)),
                !.in    = Passed("OutGeometry", no)]

\* headerParsing: the input is queued, the geometry read, the input switched off.
HeaderParsing(c, h, no) ==
  IF Passed("Header", no) THEN [Updated(c, h) EXCEPT !.decoded = TRUE] ELSE c

\* dstSetup is called for a geometry that has a pixel format.
DstSetup(c, no) == [c EXCEPT !.out = "OutSetup" \notin no]

\* getOutputInfo and getOutCropInfo: nothing as long as a port is not configured.
Allocates(c, i) ==
  IF c.in /\ c.out
  THEN [ready |-> TRUE, fmt |-> i.fmt, size |-> i.size, crop |-> i.crop, cnt |-> i.cnt]
  ELSE filter

\* Set_Geometry of both pads and the controls, as far as the driver got them.
DriverAfter(h, p, no, f) ==
  [fmt |-> IF Passed("OutGeometry", no) THEN f ELSE drv.fmt,
   seq |-> IF Passed("Enqueue", no) /\ h.kind = "whole" THEN h ELSE drv.seq,
   on  |-> drv.on \union (IF Passed("InSetup", no) THEN ControlsBy(p.on, no) ELSE {})]

(* onSetup of the filter with setup of the codec: tried with each input     *)
(* until one gets through.                                                  *)
Setup(h, p, calls) ==
  LET no     == Refused(h, p, calls)
      opened == SrcSetup(p, no)
      source == HeaderParsing(opened, h, no)
      parsed == Passed("Header", no)
      known  == parsed /\ PixelOf(source.fmt) # None
      c      == IF known THEN DstSetup(source, no) ELSE source
  IN  /\ ~filter.ready
      /\ setups < MaxSetups
      /\ setups' = setups + 1
      /\ codec' = c
      /\ info' = IF parsed THEN InfoOf(source) ELSE info
      /\ filter' = IF known THEN Allocates(c, InfoOf(source)) ELSE filter
      /\ drv' = DriverAfter(h, p, no, opened.fmt)
      /\ UNCHANGED <<dec, late>>

\* applyConfig for an input after the header: only what may change at any time.
Config(p, no) ==
  /\ filter.ready
  /\ drv' = [drv EXCEPT !.on = @ \union ControlsBy(p.on \intersect Runtime, no)]
  /\ UNCHANGED <<dec, codec, info, filter, setups, late>>

\* resetup of the codec: nothing is set up for a geometry that is what it was;
\* where the geometry has no pixel format, mBufferInfo has the rest of it.
Resetup(c, no) == IF InfoOf(c) # info /\ InfoOf(c).fmt # None THEN DstSetup(c, no) ELSE c

\* A change of resolution: reconfigOutput of the filter, which does not look at
\* the result of resetup.
ResolutionChange(h, no) ==
  LET heard == "Header" \notin no
      new   == Updated(codec, h)
  IN  /\ filter.ready
      /\ h.kind = "whole"
      /\ setups < MaxSetups
      /\ setups' = setups + 1
      /\ drv' = [drv EXCEPT !.seq = h]
      /\ codec' = IF heard THEN Resetup(new, no) ELSE codec
      /\ info' = IF heard THEN InfoOf(new) ELSE info
      /\ filter' = Allocates(codec', info')
      /\ late' = IF heard THEN late \ {"unheard"} ELSE late \union {"unheard"}
      /\ UNCHANGED dec

\* updateBufferInfo for a frame with another resolution inside the old buffers:
\* updateResolution(true) takes the crop, and nothing of it when it is refused.
InterResolution(h, no) ==
  /\ filter.ready
  /\ drv.seq # None
  /\ h.crop # drv.seq.crop
  /\ drv' = [drv EXCEPT !.seq.crop = h.crop]
  /\ codec' = IF "Header" \in no THEN codec ELSE [codec EXCEPT !.crop = h.crop]
  /\ late' = IF "Header" \in no THEN late \union {"uncropped"} ELSE late \ {"uncropped"}
  /\ UNCHANGED <<dec, info, filter, setups>>

\* doReset of the filter: the codec dies, and the next one opens a context of
\* its own.  (deinit leaves the context of a stream of unknown type open.)
Reset ==
  /\ setups > 0
  /\ codec' = NewCodec
  /\ info' = [fmt |-> Default, size |-> 0, crop |-> 0, cnt |-> 0]
  /\ filter' = [filter EXCEPT !.ready = FALSE]
  /\ drv' = NewDriver
  /\ late' = {}
  /\ UNCHANGED <<dec, setups>>

Next ==
  \/ Reset
  \/ \E no \in Refusals :
       \/ \E h \in Headers : \/ \E p \in InputParams : Setup(h, p, no)
                             \/ ResolutionChange(h, no)
                             \/ InterResolution(h, no)
       \/ \E p \in InputParams : Config(p, no)

Spec == Init /\ [][Next]_decVars

-----------------------------------------------------------------------------
TypeOK ==
  /\ dec \in DecoderType
  /\ codec.type \in Standards
  /\ {codec.in, codec.out, codec.thumb, codec.decoded, filter.ready} \subseteq BOOLEAN
  /\ codec.fmt \in Of(Layouts, {8, 10}, BOOLEAN)
  /\ info.fmt \in Of(Layouts, {8, 10}, BOOLEAN) \union {None}
  /\ drv.on \subseteq Switches
  /\ drv.seq \in Headers \union {None} \/ drv.seq \in HeaderType
  /\ setups \in 0..MaxSetups
  /\ late \subseteq {"unheard", "uncropped"}

(* The filter allocates the buffers that the driver decodes into: their     *)
(* size, their format and as many as it needs, with room to spare unless    *)
(* there are thumbnails only - as long as the output is configured and the  *)
(* last change of resolution was heard of.                                  *)
AllocatesForStream ==
  filter.ready /\ codec.out /\ "unheard" \notin late =>
    /\ filter.size = drv.seq.size
    /\ filter.fmt \in {None, DriverFormat(drv.fmt, drv.seq.bits)}
    /\ filter.cnt = drv.seq.dpb + (IF codec.thumb THEN 0 ELSE EXTRA_DPB_NUM)

(* Frames carry the crop of the stream, also within an unchanged geometry.  *)
FramesCropped ==
  filter.ready /\ late \intersect {"unheard", "uncropped"} = {} => codec.crop = drv.seq.crop

(* The codec saves buffers only with a driver that was told to decode I     *)
(* frames or without delay.                                                 *)
ThumbnailTold == codec.thumb => (IF dec.hw = "51" THEN "delay" ELSE "thumb") \in drv.on

GeometryAgrees == AllocatesForStream /\ FramesCropped /\ ThumbnailTold

=============================================================================
