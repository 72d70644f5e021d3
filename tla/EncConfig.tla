----------------------------- MODULE EncConfig -----------------------------
(***************************************************************************)
(* The configuration of an encoder (ExynosVideoCodecEnc): what a client    *)
(* asks for with the parameters and metadata of its input buffers, what of *)
(* it the driver has, and what is kept in mEncParam so that it outlives a  *)
(* change of resolution, which stops the stream and configures it anew.    *)
(*                                                                         *)
(* An action is one call of the codec's enqueue thread.  Each takes the    *)
(* set of driver controls that are refused during the call.                *)
(***************************************************************************)
EXTENDS Integers

CONSTANTS
  Inputs,       \* input buffers: what the codec looks at of them
  Encoders,     \* [codec, feats]: kinds of encoders
  Refusals,     \* sets of controls the driver refuses together
  MaxInputs,    \* bound: inputs held by the driver
  NoInput

VARIABLES
  enc,          \* the encoder's kind; fixed
  ready,        \* setup() has succeeded: the filter will not call it again
  st,           \* ExynosVideoCodecEnc and its CodecEncImpl, see Config
  drv,          \* driver: [Settings -> Values]
  inputs,       \* mBufManager->size() of the input port
  asked,        \* history: what was asked for and not refused, with .stale
  last,         \* history: the last input that was enqueued without a refusal
  lost          \* history: inputs in the driver when a change stopped it

encVars == <<enc, ready, st, drv, inputs, asked, last, lost>>

\* Settings that Codec_OSAL_SetControls_EncParams sends again and again.
Arrayed  == {"Bitrate", "FrameRate", "IDRPeriod", "Layering", "QpRange"}
Settings == Arrayed \union {"IFrameRatio", "DropControl"}
Values   == {"default", "client", "measured", "zero"}
Metas    == {"YSUM", "GDC", "ROI", "STATIC"}
Params   == Settings \union
  {"DisableDFR", "HDR10PlusStat", "HDREncoding", "HDRStatic"}

\* stImageInfo and the format of a buffer, its metadata, the parameters that
\* come with it, and whether it is a replica of an earlier one.
InputType == [size : {"small", "big"}, format : {"NV12", "P010"},
              meta : SUBSET Metas, params : SUBSET Params, replica : BOOLEAN]

ASSUME EncAssumption ==
  /\ Inputs \subseteq InputType /\ NoInput \notin Inputs
  /\ MaxInputs \in Nat \ {0}

\* Members of ExynosVideoCodecEnc, by the names without m and mIs.
Config ==
  [Configured : BOOLEAN, On : BOOLEAN,
   EncParam : [Arrayed -> Values], size : {"none", "small", "big"},
   FrameMap : {"none", "NV12", "P010"}, InGeometry : {"none", "NV12", "P010"},
   DRCRequired : BOOLEAN, WeightedPrediction : BOOLEAN, GDCvOTF : BOOLEAN,
   ROI : BOOLEAN, HdrEncodingType : BOOLEAN, HasHDRStaticInfo : BOOLEAN,
   Hdr10PlusStat : BOOLEAN, DropControl : BOOLEAN, DFR : BOOLEAN]

Init ==
  /\ enc \in Encoders
  /\ ready = FALSE
  /\ st = [Configured |-> FALSE, On |-> FALSE,
           EncParam |-> [s \in Arrayed |-> "default"], size |-> "none",
           FrameMap |-> "none", InGeometry |-> "none",
           DRCRequired |-> FALSE, WeightedPrediction |-> FALSE, GDCvOTF |-> FALSE,
           ROI |-> FALSE, HdrEncodingType |-> FALSE, HasHDRStaticInfo |-> FALSE,
           Hdr10PlusStat |-> FALSE, DropControl |-> FALSE, DFR |-> TRUE]
  /\ drv = [s \in Settings |-> "default"]
  /\ inputs = 0
  /\ asked = [val |-> [s \in Settings |-> "default"], stale |-> FALSE,
              noDFR |-> FALSE, late |-> FALSE, badStatic |-> FALSE]
  /\ last = NoInput
  /\ lost = 0

Has(f) == f \in enc.feats
Is(codecs) == enc.codec \in codecs

-----------------------------------------------------------------------------
(* One control.  x is [st, drv, asked], threaded through the calls of an   *)
(* action; no is the set of refused controls.                              *)

\* Which encoders have a setting at all.
Supports(s) ==
  CASE s = "Layering" -> Is({"AVC", "HEVC", "VP8", "VP9"})
    [] s = "IFrameRatio" -> Is({"AVC", "HEVC"})
    [] OTHER -> TRUE

\* The settings of an input that the driver takes.
Accepted(b, no) ==
  {s \in b.params \cap (Settings \ {"DropControl"}) : s \notin no /\ Supports(s)}
AsAsked(f, taken) == [s \in DOMAIN f |-> IF s \in taken THEN "client" ELSE f[s]]

\* Mutation: the parameters are not kept for the next change of resolution.
SetSettings_NotKept(x, b, no) ==
  [x EXCEPT !.drv = AsAsked(@, Accepted(b, no)), !.asked.val = AsAsked(@, Accepted(b, no))]

\* setBitrate, setFramerate, setIDRPeriod, setLayering, setQpRange and
\* setIFrameRatio: kept in mEncParam once the driver has taken it.
SetSettings(x, b, no) ==
  [x EXCEPT !.drv = AsAsked(@, Accepted(b, no)), !.asked.val = AsAsked(@, Accepted(b, no)),
            !.st.EncParam = AsAsked(@, Accepted(b, no))]

\* What HDR metadata needs: the format of the setup, not the current one.
HdrCapable(x) == Is({"HEVC"}) /\ x.st.InGeometry = "P010" /\ Has("HDRStatic")

EnableHdrEncoding(x) ==
  IF ~HdrCapable(x) THEN x
  ELSE [x EXCEPT !.st.HdrEncodingType = TRUE,
                 !.asked.late = @ \/ (ready /\ ~x.st.HdrEncodingType)]

SetHDRStaticInfo(x, no) ==
  IF "HDRStatic" \in no THEN [x EXCEPT !.asked.badStatic = TRUE]
  ELSE [x EXCEPT !.st.HasHDRStaticInfo = TRUE]

\* The end of srcSetup() and changeResolution().
DefaultStaticInfo(x, no) ==
  IF x.st.HdrEncodingType /\ ~x.st.HasHDRStaticInfo THEN SetHDRStaticInfo(x, no) ELSE x

EnableHDR10PlusStat(x, no) ==
  IF Is({"HEVC"}) /\ Has("Stat") /\ "HDR10PlusStat" \notin no
  THEN [x EXCEPT !.st.Hdr10PlusStat = TRUE] ELSE x

-----------------------------------------------------------------------------
(* Parts of the calls.                                                     *)

\* The layers of a static configuration are kept before the driver has seen
\* them.
LayeringConfig(x, b) ==
  IF "Layering" \in b.params /\ Supports("Layering")
  THEN [x EXCEPT !.st.EncParam["Layering"] = "client", !.asked.val["Layering"] = "client"]
  ELSE x

RoiConfig(x, b) ==
  IF "ROI" \in b.meta /\ Has("RoiInfo") /\ Is({"AVC", "HEVC"})
  THEN [x EXCEPT !.st.ROI = TRUE] ELSE x

\* setH264StaticConfig and its kin return at once when there are no parameters.
StaticConfig(x, b) ==
  IF b.params = {} THEN x ELSE RoiConfig(LayeringConfig(x, b), b)

\* Set_EncParam sends what is kept, and bDropControl, which nobody sets; the
\* default of mIsDropControl is true.
SetEncParam(x, no) ==
  IF "EncParam" \in no THEN [x EXCEPT !.asked.stale = TRUE]
  ELSE [x EXCEPT !.drv = [s \in Settings |->
                   IF s \in Arrayed THEN x.st.EncParam[s]
                   ELSE IF s = "DropControl" /\ Has("DropControl") THEN "zero"
                   ELSE x.drv[s]],
                 !.asked.stale = FALSE]

\* The dynamic frame rate is reached only when Set_EncParam and Set_GopMode
\* succeed, and the latter fails on drivers without the feature.
DisableDFR(x, b, no) ==
  IF "DisableDFR" \in b.params /\ "EncParam" \notin no /\ Has("GopMode")
  THEN [x EXCEPT !.st.DFR = FALSE, !.asked.noDFR = TRUE] ELSE x

SetDefaultConfig(x, b, isDRC, no) ==
  LET fresh == IF isDRC THEN x
               ELSE [x EXCEPT !.st.EncParam = [s \in Arrayed |-> "default"],
                              !.asked.val = [s \in Settings |->
                                IF s \in Arrayed THEN "default" ELSE x.asked.val[s]]]
      static == StaticConfig(fresh, b)
  IN  DisableDFR(SetEncParam([static EXCEPT !.st.size = b.size], no), b, no)

\* Before the input port is configured.
ApplyExtraInfoConfig(x, b, no) ==
  LET wp  == IF "YSUM" \in b.meta /\ "WP" \notin no
             THEN [x EXCEPT !.st.WeightedPrediction = TRUE] ELSE x
      \* a driver without the feature counts as one that has it
      gdc == IF "GDC" \in b.meta /\ "GDC" \notin no
             THEN [wp EXCEPT !.st.GDCvOTF = TRUE] ELSE wp
  IN  IF "STATIC" \in b.meta /\ HdrCapable(x) THEN SetHDRStaticInfo(gdc, no) ELSE gdc

\* applyConfig: the dynamic settings, then what cannot be changed while the
\* input stream is on.
ApplyConfig(x, b, no) ==
  LET dynamic == SetSettings(x, b, no)
      stat == IF "HDR10PlusStat" \in b.params THEN EnableHDR10PlusStat(dynamic, no) ELSE dynamic
      hdr  == IF "HDREncoding" \in b.params THEN EnableHdrEncoding(stat) ELSE stat
      info == IF "HDRStatic" \in b.params /\ HdrCapable(hdr) THEN SetHDRStaticInfo(hdr, no) ELSE hdr
      drop == IF "DropControl" \in b.params
              THEN [info EXCEPT !.st.DropControl = TRUE, !.asked.val["DropControl"] = "client"]
              ELSE info
  IN  IF x.st.On THEN stat ELSE drop

\* setDropControl, before every frame.
SetDropControl(x, no) ==
  IF Has("DropControl") /\ "DropControl" \notin no
  THEN [x EXCEPT !.drv["DropControl"] = IF x.st.DropControl THEN "client" ELSE "default"]
  ELSE x

-----------------------------------------------------------------------------
(* The calls.                                                              *)

This == [st |-> st, drv |-> drv, asked |-> asked]

Becomes(x) == st' = x.st /\ drv' = x.drv /\ asked' = x.asked

\* srcSetup and dstSetup.  A control that is refused ends the setup half way;
\* the filter calls it again with the next input.
Setup(b, no) ==
  /\ ~ready /\ inputs = 0
  /\ LET x == SetDefaultConfig([This EXCEPT !.st.On = FALSE, !.st.Configured = FALSE], b, FALSE, no)
         g == [x EXCEPT !.st.FrameMap = b.format, !.st.InGeometry = b.format]
         y == DefaultStaticInfo(ApplyExtraInfoConfig(ApplyConfig(g, b, no), b, no), no)
     IN  IF "Geometry" \in no THEN Becomes(x) /\ ready' = FALSE
         ELSE IF "Setup" \in no THEN Becomes(g) /\ ready' = FALSE
         ELSE /\ Becomes([y EXCEPT !.st.Configured = TRUE])
              /\ ready' = ("Dst" \notin no)
  /\ last' = NoInput
  /\ UNCHANGED <<enc, inputs, lost>>

\* Mutation: only size and format are compared.
MetaNeedsChange_Never(b) == FALSE

\* The metadata that only a new stream can take up.
MetaNeedsChange(b) ==
  \/ "YSUM" \in b.meta /\ ~st.WeightedPrediction
  \/ "GDC" \in b.meta /\ ~st.GDCvOTF
  \/ "ROI" \in b.meta /\ Is({"AVC", "HEVC"}) /\ ~st.ROI

NeedToChangeResolution(b) ==
  /\ st.Configured
  /\ \/ st.DRCRequired
     \/ st.size # b.size \/ st.FrameMap # b.format
     \/ MetaNeedsChange(b)

\* Mutation: whatever the next input is.
AvailableToEnqueue_Always(b) == TRUE

\* doPipeInputEnqueue waits for the driver to consume its inputs.
AvailableToEnqueue(b) == NeedToChangeResolution(b) => inputs = 0

\* changeResolution without its failures.  mInGeometry stays as it was.
ChangeResolution(x, b, no) ==
  LET y == SetDefaultConfig(x, b, TRUE, no)
      g == [y EXCEPT !.st.FrameMap = b.format]
  IN  DefaultStaticInfo(ApplyExtraInfoConfig(g, b, no), no)

\* commonSrcEnqueue of an input that needs no change.  measured: its timestamp
\* makes the library send another frame rate.
Submit(x, b, measured, no) ==
  LET c == ApplyConfig(x, b, no)
      r == SetDropControl(IF b.replica THEN [c EXCEPT !.st.DRCRequired = TRUE] ELSE c, no)
      d == IF measured THEN [r EXCEPT !.drv["FrameRate"] = "measured"] ELSE r
  IN  IF "Enqueue" \in no
      THEN Becomes(r) /\ last' = NoInput /\ UNCHANGED inputs
      ELSE /\ Becomes([d EXCEPT !.st.On = TRUE])
           /\ inputs' = inputs + 1
           /\ last' = IF no = {} THEN b ELSE NoInput

MayMeasure(x) == x.st.DFR /\ Is({"AVC", "HEVC", "VP8", "VP9"})

Enqueue(b, measured, no) ==
  /\ ready /\ st.Configured
  /\ ~NeedToChangeResolution(b)
  /\ inputs < MaxInputs
  /\ measured => MayMeasure(This)
  /\ Submit(This, b, measured, no)
  /\ UNCHANGED <<enc, ready, lost>>

\* commonSrcEnqueue of an input that needs a change.  When it fails the port
\* stays unconfigured, and later inputs are refused.
EnqueueChange(b, measured, no) ==
  /\ ready /\ st.Configured
  /\ NeedToChangeResolution(b) /\ AvailableToEnqueue(b)
  /\ lost' = lost + inputs
  /\ LET off == [This EXCEPT !.st.DRCRequired = FALSE, !.st.On = FALSE, !.st.Configured = FALSE]
         x == ChangeResolution(off, b, no)
     IN  IF "Setup" \in no
         THEN /\ ~measured
              /\ Becomes(SetDefaultConfig(off, b, TRUE, no))
              /\ last' = NoInput /\ UNCHANGED inputs
         ELSE /\ measured => MayMeasure(x)
              /\ Submit([x EXCEPT !.st.Configured = TRUE], b, measured, no)
  /\ UNCHANGED <<enc, ready>>

\* Mutation: a stale answer of the driver, after a flush, is counted too.
Dequeue_Unguarded ==
  /\ inputs' = inputs - 1
  /\ UNCHANGED <<enc, ready, st, drv, asked, last, lost>>

\* The driver is done with an input.
Dequeue ==
  /\ inputs > 0
  /\ inputs' = inputs - 1
  /\ UNCHANGED <<enc, ready, st, drv, asked, last, lost>>

\* flush(): both ports are stopped and their buffers given back.
Flush ==
  /\ ready /\ st.On
  /\ st' = [st EXCEPT !.On = FALSE]
  /\ inputs' = 0
  /\ UNCHANGED <<enc, ready, drv, asked, last, lost>>

Next ==
  \/ \E b \in Inputs, no \in Refusals : Setup(b, no)
  \/ \E b \in Inputs, measured \in BOOLEAN, no \in Refusals :
       Enqueue(b, measured, no) \/ EnqueueChange(b, measured, no)
  \/ Dequeue \/ Flush

Spec == Init /\ [][Next]_encVars

-----------------------------------------------------------------------------
(* Properties.                                                             *)

TypeOK ==
  /\ enc \in Encoders
  /\ ready \in BOOLEAN
  /\ st \in Config
  /\ drv \in [Settings -> Values]
  /\ inputs \in 0..MaxInputs
  /\ asked \in [val : [Settings -> Values], stale : BOOLEAN, noDFR : BOOLEAN,
                late : BOOLEAN, badStatic : BOOLEAN]
  /\ last \in Inputs \union {NoInput}
  /\ lost \in Nat

\* While the stream is on the driver works with what the client asked for last
\* and was not refused, over any number of changes of resolution, each of which
\* sends all parameters again, and flushes; the frame rate may be the one that
\* is measured, unless the client has switched that off at a setup, which a
\* driver without the mode of the group of pictures ignores
\* (ExynosVideoCodecEnc.cpp:365).  Excused are a Set_EncParam that was refused
\* and, for the drop of frames, a refusal with the last input.
RuntimeConfigSurvives ==
  st.On /\ ~asked.stale =>
    \A s \in Settings :
      \/ drv[s] = asked.val[s]
      \/ s = "FrameRate" /\ drv[s] = "measured" /\ ~asked.noDFR
      \/ s = "DropControl" /\ (~Has("DropControl") \/ last = NoInput)

\* An input that was enqueued without any refusal is what the configuration was
\* made for: the same again changes nothing, unless it starts a new stream as a
\* replica, its metadata came too late for its kind of encoder (weighted
\* prediction and regions of interest need the feature, and regions of interest
\* are enabled only together with some parameter, SetApi.h:694).
ChangeSettles ==
  last # NoInput /\ st.Configured =>
    \/ last.replica \/ st.DRCRequired
    \/ /\ st.size = last.size /\ st.FrameMap = last.format
       /\ "YSUM" \in last.meta => st.WeightedPrediction
       /\ "GDC" \in last.meta => st.GDCvOTF
       /\ "ROI" \in last.meta /\ Is({"AVC", "HEVC"}) =>
            st.ROI \/ ~Has("RoiInfo") \/ last.params = {}

\* A stream that is encoded as HDR has static information, the client's or the
\* default's, before its first frame: the type may come with the first input or
\* after a flush, the information with parameters or metadata, in any order.
\* Excused are a refusal and a type that arrives after the setup.
HdrHasStatic ==
  st.On /\ st.HdrEncodingType =>
    st.HasHDRStaticInfo \/ asked.badStatic \/ asked.late

\* What a client asked for holds in the driver: settings outlive what restarts
\* the stream, and a stream of HDR has its static information.
SettingsHold == RuntimeConfigSurvives /\ HdrHasStatic

\* A change of resolution stops the stream, and the driver forgets what it
\* holds: it is begun only when there is nothing left in it, whatever makes it
\* necessary.
NothingStranded == lost = 0

=============================================================================
