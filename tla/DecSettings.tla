---------------------------- MODULE DecSettings ----------------------------
(* The settings of the interface of the HEVC decoder, in the form of           *)
(* EncSettings.  Colour aspects are two fields of which 0 is unspecified; of a *)
(* usage only whether the CPU reads the buffers matters.                       *)
EXTENDS CommonSettings

MAX_SIZE == 3
DEFAULT_DPB == 0
DEFAULT_OUTPUT_DELAY == 8
EXTRA_DPB == 5

Formats == {"opaque", "YV12", "P010"}
Unspecified == [range |-> 0, matter |-> 0]

Defaults ==
  [operateRate |-> 0, realTimePriority |-> 0,
   defaultAspects |-> Unspecified, codedAspects |-> Unspecified, colorAspects |-> Unspecified,
   outputCrop |-> 0, scaleSize |-> 0, reorderTimestamp |-> FALSE, bufferCopy |-> FALSE,
   blackBar |-> FALSE, thumbnail |-> FALSE, streamSize |-> 1, maxStreamSize |-> 1, maxInputSize |-> 1,
   pixelFormat |-> "opaque", actualFormat |-> "opaque", usage |-> FALSE, streamUsage |-> FALSE,
   maxDpb |-> DEFAULT_DPB, extra |-> 0, outputDelay |-> DEFAULT_OUTPUT_DELAY,
   decodeOrder |-> FALSE, reorderDepth |-> 0, reorderKey |-> "ORDINAL",
   hdrStatic |-> 0, hdrStaticValid |-> FALSE, inputCrop |-> 0, displayDelay |-> -1,
   compressedColor |-> "lossless", imageConvert |-> FALSE, imageConvertMode |-> 1,
   imageConvertFormat |-> "P010M", controlFrame |-> 0]

-----------------------------------------------------------------------------
(* The setters.                                                              *)

BadSize(i)   == i.streamSize \notin 1..MAX_SIZE
BadFormat(i) == i.pixelFormat \notin Formats
BadValue(i)  == BadSize(i) \/ BadFormat(i)

SizeSetter(old, i) == IF BadSize(i) THEN [i EXCEPT !.streamSize = old.streamSize] ELSE i

PixelFormatSetter(old, i) == IF BadFormat(i) THEN [i EXCEPT !.pixelFormat = old.pixelFormat] ELSE i

ActualFormatSetter(i) == [i EXCEPT !.actualFormat = i.pixelFormat]

StreamUsageSetter(i) == [i EXCEPT !.streamUsage = @ \/ i.usage \/ i.pixelFormat # "opaque"]

\* Mutant: only the usage that the client asked for is looked at.
CompressedColorSetter_UsageOnly(i) == IF i.usage THEN [i EXCEPT !.compressedColor = "none"] ELSE i

CompressedColorSetter(i) == IF i.streamUsage THEN [i EXCEPT !.compressedColor = "none"] ELSE i

MaxPictureSizeSetter(i) ==
  [i EXCEPT !.maxStreamSize = Smaller(Larger(@, i.streamSize), MAX_SIZE)]

MaxInputSizeSetter(i) == [i EXCEPT !.maxInputSize = Larger(@, i.maxStreamSize)]

ActualOutputDelaySetter(i) ==
  [i EXCEPT !.outputDelay = i.extra + (IF i.maxDpb = DEFAULT_DPB THEN DEFAULT_OUTPUT_DELAY ELSE i.maxDpb)]

\* What the stream says comes before what the client takes for granted.
ColorAspectsSetter(i) ==
  [i EXCEPT !.colorAspects =
     [a \in {"range", "matter"} |-> IF i.codedAspects[a] = 0 THEN i.defaultAspects[a] ELSE i.codedAspects[a]]]

DecodeOrderSetter(i) == [i EXCEPT !.decodeOrder = @ /\ ~i.reorderTimestamp]

\* The largest size stands for the pictures beyond UHD.
ReorderDepthSetter(i) ==
  [i EXCEPT !.reorderDepth = CASE ~i.decodeOrder -> 0
                               [] i.decodeOrder /\ i.streamSize = MAX_SIZE -> Larger(i.maxDpb - EXTRA_DPB, 0)
                               [] OTHER -> @]

ReorderKeySetter(i) ==
  [i EXCEPT !.reorderKey = IF i.reorderTimestamp \/ (i.decodeOrder /\ @ = "ORDINAL") THEN "CUSTOM" ELSE @]

HdrStaticValidationSetter(old, i) ==
  IF i.hdrStatic = old.hdrStatic THEN i ELSE [i EXCEPT !.hdrStaticValid = TRUE]

Settle(old, given) ==
  LET own     == RealTimePrioritySetter(OperateRateSetter(SizeSetter(old, PixelFormatSetter(old, given))))
      outputs == CompressedColorSetter(StreamUsageSetter(ActualFormatSetter(own)))
      sizes   == ActualOutputDelaySetter(MaxInputSizeSetter(MaxPictureSizeSetter(outputs)))
      order   == ReorderKeySetter(ReorderDepthSetter(DecodeOrderSetter(sizes)))
  IN  HdrStaticValidationSetter(old, ColorAspectsSetter(order))

-----------------------------------------------------------------------------
(* The conversions.                                                          *)

cnvPixelFormat(i)  == "pixelFormat" :> i.pixelFormat
cnvActualFormat(i) == "actualFormat" :> i.actualFormat
cnvColorAspects(i) == On("colorAspects", i.colorAspects, i.colorAspects.matter # 0)
cnvOutputCrop(i)   == "outputCrop" :> i.outputCrop
cnvInputCrop(i)    == "inputCrop" :> i.inputCrop
cnvScaleSize(i)    == "scaleSize" :> i.scaleSize
cnvBufferCopy(i)   == "bufferCopy" :> i.bufferCopy
cnvBlackBar(i)     == "blackBar" :> i.blackBar
cnvThumbnailMode(i) == "thumbnail" :> i.thumbnail
cnvDecodeOrder(i)  == "decodeOrder" :> i.decodeOrder
cnvHdrStaticInfo(i) == "hdrStatic" :> i.hdrStatic
cnvDisplayDelay(i) == On("displayDelay", i.displayDelay, i.displayDelay >= 0)

\* A client that reads the pictures itself cannot read compressed ones.
cnvCompressedColor(i) ==
  "compressedColor" :> IF i.pixelFormat = "opaque" /\ i.compressedColor = "lossless" THEN "SBWC" ELSE "unused"

cnvImageConvert(i)             == On("imageConvert", TRUE, i.imageConvert)
cnvImageConvertMode(i)         == "imageConvertMode" :> i.imageConvertMode
cnvImageConvertPixelFormat(i)  == "imageConvertFormat" :> i.imageConvertFormat
cnvImageConvertControlFrame(i) == On("controlFrame", i.controlFrame, i.controlFrame > 0)

Says(i) ==
  [operateRate |-> cnvOperateRate(i), realTimePriority |-> cnvRealTimePriority(i),
   defaultAspects |-> Unsaid, colorAspects |-> cnvColorAspects(i),
   outputCrop |-> cnvOutputCrop(i), scaleSize |-> cnvScaleSize(i), bufferCopy |-> cnvBufferCopy(i),
   blackBar |-> cnvBlackBar(i), thumbnail |-> cnvThumbnailMode(i),
   pixelFormat |-> cnvPixelFormat(i), actualFormat |-> cnvActualFormat(i),
   usage |-> Unsaid, streamUsage |-> Unsaid, decodeOrder |-> cnvDecodeOrder(i),
   hdrStatic |-> cnvHdrStaticInfo(i), inputCrop |-> cnvInputCrop(i), displayDelay |-> cnvDisplayDelay(i),
   compressedColor |-> cnvCompressedColor(i), imageConvert |-> cnvImageConvert(i),
   imageConvertMode |-> cnvImageConvertMode(i), imageConvertFormat |-> cnvImageConvertPixelFormat(i),
   controlFrame |-> cnvImageConvertControlFrame(i)]

\* In the order of the registrations.
CommonParams ==
  << <<"operateRate", {}>>, <<"realTimePriority", {}>>, <<"defaultAspects", {}>>,
     <<"colorAspects", {"defaultAspects", "codedAspects"}>>, <<"outputCrop", {}>>, <<"scaleSize", {}>>,
     <<"bufferCopy", {}>>, <<"blackBar", {}>>, <<"thumbnail", {}>> >>
OutputParams ==
  << <<"pixelFormat", {}>>, <<"actualFormat", {"pixelFormat"}>>, <<"usage", {}>>, <<"streamUsage", {}>> >>
CodecParams ==
  << <<"decodeOrder", {"reorderTimestamp"}>>, <<"hdrStatic", {}>>, <<"inputCrop", {"streamSize"}>>,
     <<"displayDelay", {}>>, <<"compressedColor", {"pixelFormat", "streamUsage"}>> >>
ImageConvertParams ==
  << <<"imageConvert", {}>>, <<"imageConvertMode", {}>>, <<"imageConvertFormat", {}>>, <<"controlFrame", {}>> >>
Registered == CommonParams \o OutputParams \o CodecParams \o ImageConvertParams

SetupList == <<"pixelFormat">>

Reset(s, i) == i

-----------------------------------------------------------------------------
(* What a client may set; the stream's aspects, size and buffers the component *)
(* sets itself, in the same way.                                              *)

Values ==
  [operateRate |-> {-1, 2}, realTimePriority |-> {-1, 1},
   defaultAspects |-> {[range |-> 1, matter |-> 0], [range |-> 0, matter |-> 1]},
   codedAspects |-> {[range |-> 2, matter |-> 2]},
   outputCrop |-> {1}, scaleSize |-> {1}, reorderTimestamp |-> {TRUE}, bufferCopy |-> {TRUE},
   blackBar |-> {TRUE}, thumbnail |-> {TRUE}, streamSize |-> {2, 3, 4}, maxStreamSize |-> {2, 9},
   pixelFormat |-> {"YV12", "P010", "other"}, usage |-> BOOLEAN, streamUsage |-> BOOLEAN,
   maxDpb |-> {4, 7}, extra |-> {1}, decodeOrder |-> {TRUE}, reorderDepth |-> {2}, reorderKey |-> {"ORDINAL"},
   hdrStatic |-> {1}, inputCrop |-> {1}, displayDelay |-> {-1, 2}, compressedColor |-> {"none", "lossless"},
   imageConvert |-> BOOLEAN, imageConvertMode |-> {0}, imageConvertFormat |-> {"NV12M"}, controlFrame |-> {0, 2}]

\* What the filters are not told of in time: a dependency on a setting that is not
\* registered, and the compressed colour two settings after the usage.
Late(s) ==
  CASE s = "reorderTimestamp" -> {"decodeOrder"}
    [] s = "codedAspects"     -> {"colorAspects"}
    [] s = "usage"            -> {"compressedColor"}
    [] OTHER -> {}

Sticky == {"operatingRate", "colorAspects", "displayDelay", "imageConvert", "controlFrame"}

Orders == {}

-----------------------------------------------------------------------------
(* What must hold of the settings.                                           *)

Settled(i) ==
  /\ i.streamUsage \/ i.pixelFormat # "opaque" => cnvCompressedColor(i)["compressedColor"] = "unused"
  /\ i.decodeOrder => ~i.reorderTimestamp
  /\ i.reorderDepth > 0 => i.decodeOrder
  /\ i.decodeOrder \/ i.reorderTimestamp => i.reorderKey = "CUSTOM"
  /\ i.streamSize <= i.maxStreamSize /\ i.maxStreamSize <= i.maxInputSize
=============================================================================
