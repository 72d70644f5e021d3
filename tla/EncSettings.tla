---------------------------- MODULE EncSettings ----------------------------
(* The settings of the interface of the HEVC encoder: how setting one        *)
(* settles the others, what each says to the filters (a partial function     *)
(* from the kinds of filter parameters to values), and which settings are    *)
(* registered to be said again with which.  Sizes, rates and bitrates are    *)
(* small numbers, a data space with its colour aspects is one symbol, a      *)
(* quantization names one type of picture, a ratio counts quarters.          *)
EXTENDS CommonSettings

Spaces  == {"unknown", "709", "srgb", "2020pq"}
BufferFormats == {"RGBA", "YV12", "NV21", "P010"}
Formats == {"opaque"} \union BufferFormats
HdrFormats == {"UNKNOWN", "SDR", "HLG", "HDR10", "HDR10+"}

MAX_TEMPORAL_LAYERS == 3
MAX_B_FRAMES == 2
MIN_QP == 0
MAX_QP == 51
VENDOR_START == 10
VT_CALL == 11
BIT_SAVE == 12
HIGH_TIER == 9       \* a level that the table of the limits does not have
FALLBACK_LEVEL == 2  \* LEVEL_HEVC_MAIN_5_2

kLimits == <<[samples |-> 1, perSec |-> 2, bitrate |-> 1],
             [samples |-> 2, perSec |-> 4, bitrate |-> 3],
             [samples |-> 2, perSec |-> 8, bitrate |-> 3]>>

Defaults ==
  [operateRate |-> 0, realTimePriority |-> 0, subscribed |-> FALSE,
   startIDR |-> FALSE, syncFrame |-> FALSE, frameRate |-> 1, syncPeriod |-> 1,
   intraRefresh |-> [mode |-> "disabled", period |-> 0],
   dataSpace |-> "unknown", colorAspects |-> "unknown", cscDataSpace |-> "unknown",
   dropControl |-> TRUE, dynamicFramerate |-> FALSE, averageQp |-> FALSE, minQuality |-> 0,
   streamSize |-> 1, hdrFormat |-> "UNKNOWN", pixelFormat |-> "opaque", actualFormat |-> "opaque",
   prependHeader |-> "none", vtcall |-> FALSE, bitrateMode |-> 1, vendorBitrateMode |-> 1,
   bitrate |-> 1, layering |-> [layers |-> 0, bLayers |-> 0, ratios |-> <<>>], gop |-> 0,
   quality |-> 57, profileLevel |-> [profile |-> "main", level |-> 2],
   hdrStatic |-> 0, hdrDynamic |-> 0, crop |-> 0, scaleSize |-> 0,
   quantization |-> <<>>, qpRange |-> <<5, 50>>, refPFrames |-> 1, generalPB |-> FALSE,
   iFrameRatio |-> 0, chromaQpOffset |-> 0, pmv |-> [mode |-> "disabled", offset |-> 0],
   hdr10PlusStat |-> FALSE, maxIFrameSize |-> 0,
   encRgb |-> FALSE]     \* the build option SUPPORT_MFC_ENC_RGB

-----------------------------------------------------------------------------
(* The setters: `i` holds what was given, `old` what was before.             *)

BadSize(i)   == i.streamSize \notin 1..3
BadFormat(i) == i.pixelFormat \notin Formats
BadValue(i)  == BadSize(i) \/ BadFormat(i)

SizeSetter(old, i) == IF BadSize(i) THEN [i EXCEPT !.streamSize = old.streamSize] ELSE i

PixelFormatSetter(old, i) == IF BadFormat(i) THEN [i EXCEPT !.pixelFormat = old.pixelFormat] ELSE i

MinQualitySetter(old, i) == IF i.minQuality \in {0, 1} THEN i ELSE [i EXCEPT !.minQuality = old.minQuality]

IntraRefreshSetter(i) ==
  [i EXCEPT !.intraRefresh =
     IF @.period < 1 THEN [mode |-> "disabled", period |-> 0] ELSE [@ EXCEPT !.mode = "arbitrary"]]

ColorAspectsSetter(i) ==
  IF i.dataSpace = "unknown" THEN i ELSE [i EXCEPT !.colorAspects = i.dataSpace]

CSCDataSpaceSetter(i) == [i EXCEPT !.cscDataSpace = i.colorAspects]

\* The format of the buffers decides when the format that was set is opaque.
ActualFormatSetter(i) ==
  LET format == IF i.pixelFormat = "opaque" THEN i.actualFormat ELSE i.pixelFormat
      kept   == {"opaque", "YV12M", "P010M", "NV21M"} \union (IF i.encRgb THEN {"RGBA"} ELSE {})
  IN  [i EXCEPT !.actualFormat = CASE format \in kept  -> format
                                   [] format = "YV12" -> "YV12M"
                                   [] format = "P010" -> "P010M"
                                   [] OTHER           -> "NV21M"]

PictureQuantizationSetter(i) ==
  IF i.quantization = <<>> THEN i
  ELSE LET top == Clamp(i.quantization[2], MIN_QP, MAX_QP)
           low == Clamp(i.quantization[1], MIN_QP, top)
       IN  [i EXCEPT !.quantization = <<low, Clamp(@[2], low, top)>>]

QpRangeSetter(i) ==
  [i EXCEPT !.qpRange = IF i.quantization # <<>> THEN i.quantization ELSE <<@[1], Larger(@[1], @[2])>>]

BitrateModeSetter(i) == IF i.vtcall THEN [i EXCEPT !.bitrateMode = VT_CALL] ELSE i

BitrateSetter(i) == [i EXCEPT !.bitrate = Larger(@, 1)]

\* Mutant: ratios are only kept from exceeding the whole.
Rising_Falls(ratios) == [k \in DOMAIN ratios |-> Clamp(ratios[k], 0, 4)]

\* Each ratio is at least the one before it.
Rising(ratios) ==
  FoldLeft(LAMBDA done, r : Append(done, Clamp(r, IF done = <<>> THEN 0 ELSE done[Len(done)], 4)),
           <<>>, ratios)

LayeringSetter(i) ==
  LET l == i.layering
      n == IF l.bLayers > 0 THEN l.bLayers + 1
           ELSE IF l.layers > MAX_TEMPORAL_LAYERS THEN MAX_TEMPORAL_LAYERS ELSE l.layers
  IN  [i EXCEPT !.layering.layers = n, !.layering.ratios = IF n > 0 THEN Rising(@) ELSE @]

GopSetter(i) == [i EXCEPT !.gop = IF @ > MAX_B_FRAMES THEN MAX_B_FRAMES ELSE @]

Suffices(limit, i) ==
  /\ i.streamSize <= limit.samples
  /\ i.streamSize * i.frameRate <= limit.perSec
  /\ i.bitrate <= limit.bitrate

\* The lowest level that meets the requirements is taken when the level that was
\* given lies below it in the table.
ProfileLevelSetter(i) ==
  LET meets   == {k \in DOMAIN kLimits : Suffices(kLimits[k], i)}
      lowest  == CHOOSE k \in meets : \A o \in meets : k <= o
      known   == IF i.profileLevel.profile \in {"main", "main10"} THEN i.profileLevel.profile ELSE "main"
      deep    == i.hdrFormat \notin {"UNKNOWN", "SDR"} \/ i.actualFormat = "P010M"
  IN  [i EXCEPT !.profileLevel =
         [profile |-> IF deep THEN "main10" ELSE known,
          level   |-> CASE meets = {} -> FALLBACK_LEVEL
                        [] meets # {} /\ @.level \in DOMAIN kLimits /\ @.level < lowest -> lowest
                        [] OTHER -> @.level]]

RefPframesSetter(i) == IF i.layering.bLayers > 0 THEN [i EXCEPT !.refPFrames = 1] ELSE i

PMVSetter(i) == IF i.pmv.mode = "global" THEN i ELSE [i EXCEPT !.pmv.offset = 0]

Hdr10PlusStatEncSetter(i) == IF i.hdrFormat = "HDR10+" THEN [i EXCEPT !.hdr10PlusStat = TRUE] ELSE i

\* What was given with all that depends on it.  A setter that has nothing new to
\* look at changes nothing.
Settle(old, given) ==
  LET own    == GopSetter(PMVSetter(IntraRefreshSetter(PictureQuantizationSetter(
                  SizeSetter(old, PixelFormatSetter(old, MinQualitySetter(old,
                  RealTimePrioritySetter(OperateRateSetter(given)))))))))
      format == ActualFormatSetter(CSCDataSpaceSetter(ColorAspectsSetter(own)))
      rates  == RefPframesSetter(LayeringSetter(BitrateModeSetter(BitrateSetter(QpRangeSetter(format)))))
  IN  Hdr10PlusStatEncSetter(ProfileLevelSetter(rates))

-----------------------------------------------------------------------------
(* The conversions: what the filters are told of a setting.                  *)

cnvSubscribedParam(i)  == On("averageQp", 1, i.subscribed)
cnvFrameRate(i)        == "frameRate" :> i.frameRate

\* A period below zero or the largest number asks for no IDR frames: 0.
getIDRPeriod(i)  == IF i.syncPeriod < 0 THEN 0 ELSE Larger(i.frameRate * i.syncPeriod, 1)
cnvStartIDRFrame(i) ==
  IF i.startIDR THEN "idrPeriod" :> getIDRPeriod(i) @@ cnvFrameRate(i) ELSE Unsaid
cnvRequestSyncFrame(i) == On("requestSync", TRUE, i.syncFrame)
cnvSyncFramePeriod(i)  == "idrPeriod" :> getIDRPeriod(i)

cnvIntraRefresh(i) ==
  "intraRefresh" :> IF i.intraRefresh.mode = "disabled" THEN 0 ELSE i.intraRefresh.period
cnvInputCrop(i)    == "inputCrop" :> i.crop
cnvScaleSize(i)    == "scaleSize" :> i.scaleSize
cnvColorAspects(i) == "colorAspects" :> i.colorAspects

\* An RGB frame whose data space the encoder does not know goes through the converter.
cnvActualFormat(i) ==
  "actualFormat" :> IF i.actualFormat = "RGBA" /\ i.cscDataSpace \notin {"unknown", "709"}
                    THEN "NV21M" ELSE i.actualFormat

DefaultSpace(size) == IF size < 2 THEN "601 by size" ELSE "709 by size"
cnvCSCDataSpace(i) ==
  "dataSpace" :> IF i.cscDataSpace = "unknown" THEN DefaultSpace(i.streamSize) ELSE i.cscDataSpace

cnvQpRange(i)          == "qpRange" :> i.qpRange
cnvDropControl(i)      == "dropControl" :> i.dropControl
cnvDynamicFramerate(i) == "dynamicFramerate" :> i.dynamicFramerate
cnvBitrate(i)          == "bitrate" :> i.bitrate

\* A mode that the encoder does not have is "disabled".
makeBitrateModeParam(mode) ==
  "bitrateMode" :> IF mode \in {1, 2, VT_CALL, BIT_SAVE} THEN mode ELSE 0
cnvBitrateMode(i)       == makeBitrateModeParam(i.bitrateMode)
cnvVendorBitrateMode(i) ==
  IF i.vendorBitrateMode < VENDOR_START THEN Unsaid ELSE makeBitrateModeParam(i.vendorBitrateMode)

\* The ratios add up, the bitrates of the layers do not.
cnvLayering(i) ==
  LET l == i.layering
      r == l.ratios
      share(k) == i.bitrate * (r[k] - IF k = 1 THEN 0 ELSE r[k - 1])
  IN  On("layering",
         [layers |-> l.layers, bLayers |-> l.bLayers, adaptive |-> r = <<>>,
          bitrate |-> IF r = <<>> THEN [k \in 1..l.layers |-> i.bitrate]
                      ELSE [k \in DOMAIN r |-> share(k)]],
         l.layers > 0)

cnvAverageQp(i)     == On("averageQp", 1, i.averageQp)
cnvMinQuality(i)    == On("minQuality", i.minQuality, i.minQuality > 0)
cnvPMV(i)           == On("pmv", i.pmv, i.pmv.mode # "disabled")
cnvPrependHeader(i) == "prependHeader" :> IF i.prependHeader = "all sync" THEN "to IDR" ELSE "none"
cnvRefPframes(i)    == "refPFrames" :> i.refPFrames
cnvIFrameRatio(i)   == "iFrameRatio" :> i.iFrameRatio
cnvChromaQpOffset(i) == "chromaQpOffset" :> i.chromaQpOffset
cnvGop(i)           == "bFrames" :> i.gop
cnvQuality(i)       == "frameQp" :> Clamp(MAX_QP - ((MAX_QP - MIN_QP) * i.quality) \div 100, MIN_QP, MAX_QP)
cnvProfileLevel(i)  == "profileLevel" :> i.profileLevel
cnvHdrFormat(i)     == On("hdrFormat", i.hdrFormat, i.hdrFormat \in {"HDR10", "HDR10+"})
cnvHdrStaticInfo(i) == On("hdrStatic", i.hdrStatic, i.hdrStatic # 0)
cnvHdrDynamicInfo(i) == On("hdrDynamic", i.hdrDynamic, i.hdrDynamic > 0)
cnvHDR10PlusStatEnc(i) == On("hdr10PlusStat", TRUE, i.hdr10PlusStat)
cnvGeneralPB(i)     == "generalPB" :> i.generalPB
cnvMaxIFrameSize(i) == "maxIFrameSize" :> i.maxIFrameSize

\* What the settings say that are registered, three of them nothing, and the one that
\* only a start looks at.
Says(i) ==
  [operateRate |-> cnvOperateRate(i), realTimePriority |-> cnvRealTimePriority(i),
   startIDR |-> cnvStartIDRFrame(i), syncFrame |-> cnvRequestSyncFrame(i),
   frameRate |-> cnvFrameRate(i), syncPeriod |-> cnvSyncFramePeriod(i),
   intraRefresh |-> cnvIntraRefresh(i), dataSpace |-> Unsaid,
   colorAspects |-> cnvColorAspects(i), cscDataSpace |-> cnvCSCDataSpace(i),
   dropControl |-> cnvDropControl(i), dynamicFramerate |-> cnvDynamicFramerate(i),
   averageQp |-> cnvAverageQp(i), minQuality |-> cnvMinQuality(i),
   hdrFormat |-> cnvHdrFormat(i), actualFormat |-> cnvActualFormat(i),
   prependHeader |-> cnvPrependHeader(i), vtcall |-> Unsaid,
   bitrateMode |-> cnvBitrateMode(i), vendorBitrateMode |-> cnvVendorBitrateMode(i),
   bitrate |-> cnvBitrate(i), layering |-> cnvLayering(i), gop |-> cnvGop(i),
   quality |-> cnvQuality(i), profileLevel |-> cnvProfileLevel(i),
   hdrStatic |-> cnvHdrStaticInfo(i), hdrDynamic |-> cnvHdrDynamicInfo(i),
   crop |-> cnvInputCrop(i), scaleSize |-> cnvScaleSize(i),
   quantization |-> Unsaid, qpRange |-> cnvQpRange(i), refPFrames |-> cnvRefPframes(i),
   generalPB |-> cnvGeneralPB(i), iFrameRatio |-> cnvIFrameRatio(i),
   chromaQpOffset |-> cnvChromaQpOffset(i), pmv |-> cnvPMV(i),
   hdr10PlusStat |-> cnvHDR10PlusStatEnc(i), maxIFrameSize |-> cnvMaxIFrameSize(i),
   subscribed |-> cnvSubscribedParam(i)]

\* The settings in the order they are registered, those with dependencies with them:
\* those of every encoder, those of the format, those of the rates, those of HEVC.
CommonParams ==
  << <<"operateRate", {}>>, <<"realTimePriority", {}>>, <<"startIDR", {}>>, <<"syncFrame", {}>>,
    <<"frameRate", {}>>, <<"syncPeriod", {"frameRate"}>>, <<"intraRefresh", {}>>,
    <<"dataSpace", {}>>, <<"colorAspects", {"dataSpace"}>>, <<"cscDataSpace", {"colorAspects"}>>,
    <<"dropControl", {}>>, <<"dynamicFramerate", {}>>, <<"averageQp", {}>>, <<"minQuality", {}>> >>
FormatParams ==
  << <<"hdrFormat", {}>>, <<"actualFormat", {"pixelFormat", "cscDataSpace"}>>, <<"prependHeader", {}>> >>
\* Mutant: a new bitrate leaves the layers with their share of the old one.
RateParams_LayersAlone ==
  << <<"vtcall", {}>>, <<"bitrateMode", {"vtcall"}>>, <<"vendorBitrateMode", {}>>,
    <<"bitrate", {}>>, <<"layering", {}>>, <<"gop", {}>>, <<"quality", {}>> >>
RateParams ==
  << <<"vtcall", {}>>, <<"bitrateMode", {"vtcall"}>>, <<"vendorBitrateMode", {}>>,
    <<"bitrate", {}>>, <<"layering", {"bitrate"}>>, <<"gop", {}>>, <<"quality", {}>> >>
CodecParams ==
  << <<"profileLevel", {"streamSize", "frameRate", "bitrate", "actualFormat", "hdrFormat"}>>,
    <<"hdrStatic", {}>>, <<"hdrDynamic", {}>>, <<"crop", {"streamSize"}>>, <<"scaleSize", {}>>,
    <<"quantization", {}>>, <<"qpRange", {}>>, <<"refPFrames", {}>>, <<"generalPB", {}>>,
    <<"iFrameRatio", {}>>, <<"chromaQpOffset", {}>>, <<"pmv", {}>>,
    <<"hdr10PlusStat", {"hdrFormat"}>>, <<"maxIFrameSize", {}>> >>
Registered == CommonParams \o FormatParams \o RateParams \o CodecParams

\* What a start says before anything was set.
SetupList == <<"profileLevel", "colorAspects", "qpRange", "averageQp", "minQuality", "dropControl">>

\* The requests that saying them resets.
Reset(s, i) == CASE s = "startIDR"  -> [i EXCEPT !.startIDR = FALSE]
                 [] s = "syncFrame" -> [i EXCEPT !.syncFrame = FALSE]
                 [] OTHER -> i

-----------------------------------------------------------------------------
(* What a client may set.                                                    *)

Values ==
  [operateRate |-> {-1, 2}, realTimePriority |-> {-1, 1}, subscribed |-> {TRUE},
   syncFrame |-> {TRUE}, frameRate |-> {2, 3}, syncPeriod |-> {-1, 2},
   intraRefresh |-> {[mode |-> "arbitrary", period |-> 2], [mode |-> "arbitrary", period |-> 0]},
   dataSpace |-> {"709", "2020pq"}, colorAspects |-> {"709", "srgb"},
   dropControl |-> {FALSE}, dynamicFramerate |-> {TRUE}, averageQp |-> BOOLEAN,
   minQuality |-> {0, 1, 2}, streamSize |-> {2, 3, 4}, hdrFormat |-> {"SDR", "HLG", "HDR10", "HDR10+"},
   pixelFormat |-> {"RGBA", "P010", "other"}, prependHeader |-> {"all sync", "on change"},
   vtcall |-> {TRUE}, bitrateMode |-> {2, 4}, vendorBitrateMode |-> {1, BIT_SAVE}, bitrate |-> {0, 3, 4},
   layering |-> {[layers |-> 2, bLayers |-> 0, ratios |-> <<3, 1, 4>>],
                 [layers |-> 4, bLayers |-> 1, ratios |-> <<>>],
                 [layers |-> 0, bLayers |-> 0, ratios |-> <<2>>]},
   gop |-> {1, 3}, quality |-> {0, 100},
   profileLevel |-> {[profile |-> "other", level |-> 1], [profile |-> "main", level |-> HIGH_TIER]},
   hdrStatic |-> {0, 1}, hdrDynamic |-> {-1, 1}, crop |-> {1}, scaleSize |-> {1},
   quantization |-> {<<60, 40>>, <<-3, 20>>}, qpRange |-> {<<30, 20>>}, refPFrames |-> {2},
   generalPB |-> {TRUE}, iFrameRatio |-> {20}, chromaQpOffset |-> {3},
   pmv |-> {[mode |-> "global", offset |-> 2], [mode |-> "local", offset |-> 2],
            [mode |-> "disabled", offset |-> 0]},
   hdr10PlusStat |-> BOOLEAN, maxIFrameSize |-> {5}]

\* What the filters are not told of in time: the setting is not registered, or it
\* is followed by one that is not registered with it, or only through another.
Late(s) ==
  CASE s = "streamSize"        -> {"profileLevel", "dataSpace"}
    [] s = "pixelFormat"       -> {"actualFormat", "profileLevel"}
    [] s = "dataSpace"         -> {"dataSpace", "actualFormat"}
    [] s = "colorAspects"      -> {"actualFormat"}
    [] s = "quantization"      -> {"qpRange"}
    [] s = "layering"          -> {"refPFrames"}
    [] s = "vendorBitrateMode" -> {"bitrateMode"}
    [] s = "subscribed"        -> {"averageQp"}
    [] OTHER -> {}

\* What is never taken back.
Sticky == {"operatingRate", "averageQp", "minQuality", "layering", "pmv", "hdrFormat", "hdrStatic",
           "hdrDynamic", "hdr10PlusStat"}

\* Parameters that are orders, not settings.
Orders == {"requestSync"}

-----------------------------------------------------------------------------
(* What must hold of the settings of an interface.                           *)

\* The bitrates of the layers are shares of the bitrate.
LayersShareBitrate(i) ==
  i.layering.layers > 0 /\ i.layering.ratios # <<>> =>
    LET b == cnvLayering(i)["layering"].bitrate
    IN  /\ \A k \in DOMAIN b : b[k] >= 0
        /\ FoldLeft(LAMBDA sum, x : sum + x, 0, b) <= 4 * i.bitrate

\* A level of the table suffices for the picture, unless none does.
LevelSuffices(i) ==
  LET meets == {k \in DOMAIN kLimits : Suffices(kLimits[k], i)}
  IN  /\ meets # {} /\ i.profileLevel.level \in DOMAIN kLimits
           => \E k \in meets : k <= i.profileLevel.level
      /\ meets = {} => i.profileLevel.level = FALLBACK_LEVEL

Settled(i) ==
  /\ i.qpRange[1] <= i.qpRange[2]
  /\ i.hdrFormat \in {"HLG", "HDR10", "HDR10+"} \/ i.actualFormat = "P010M"
       => i.profileLevel.profile = "main10"
  /\ i.layering.bLayers > 0 => i.refPFrames = 1 /\ i.layering.layers = i.layering.bLayers + 1
  /\ i.cscDataSpace = i.colorAspects /\ (i.dataSpace # "unknown" => i.colorAspects = i.dataSpace)
  /\ LevelSuffices(i) /\ LayersShareBitrate(i)
=============================================================================
