----------------------------- MODULE MCCodecApi -----------------------------
(* Model checking instance of the five modules around libExynosVideoApi:    *)
(* the slots of a pad, the resources of a context, an encoder's parameters, *)
(* the setup of a decoder and the manager of its output buffers; and of the *)
(* settings that reach them from the interface of a component.  A behaviour *)
(* is one of one of them; the variables of the others rest.                 *)
EXTENDS CodecSlots

\* Of BufferManager and DecSetup, see there.
CONSTANTS
  Fds, GARBAGE_CLEANUP_BASELINE,
  Decoders, Headers, InputParams, Refusals, MaxSetups

VARIABLES
  part,
  mode, info, inst, step, life, resources, given, wild,
  codec, feats, newHw, slicesKnown, filled, count, kept, drv, half, ahead,
  file, fdMap, mQueue, mMap, enq, report, queuedDrv, uses, fdOf, lost,
  dec, decCodec, bufferInfo, filter, decDrv, setups, late,
  side, focus, intf, running, piled, client, work, queue, told, actual, needIdr, due, excused, changes

QpRange(i, p, b) ==
  [t \in {"I", "P", "B"} |-> CASE t = "I" -> i [] t = "P" -> p [] t = "B" -> b]

\* A range that is cut at both ends, one with an empty range of P frames, one
\* that most codecs reduce to a single value.
QpRanges == {QpRange(<<-20, 10>>, <<8, 70>>, <<3, 3>>),
             QpRange(<<10, 20>>, <<20, 10>>, <<1, 2>>),
             QpRange(<<60, 70>>, <<60, 70>>, <<60, 70>>)}

\* No feature, each feature alone, and three combinations.
FeatureSets ==
  {{}} \union {{f} : f \in {"TemporalSvc", "Skype", "RoiInfo", "QpRangePB", "PVC", "ChromaQp",
                           "DropControl"}} \union
  {{"Skype", "PVC", "DropControl"},
   {"TemporalSvc", "RoiInfo", "QpRangePB", "ChromaQp"},
   {"TemporalSvc", "Skype", "RoiInfo", "QpRangePB", "PVC", "ChromaQp", "DropControl"}}

Device == INSTANCE CodecDevice WITH held <- resources
Params == INSTANCE EncParams
Buffers == INSTANCE BufferManager WITH Keys <- Bufs, MaxUse <- MaxRefs
Setups == INSTANCE DecSetup
  WITH codec <- decCodec, info <- bufferInfo, drv <- decDrv, None <- NoBuf

\* Descriptors are numbers, and what a closed or a reserved one refers to is no
\* memory; decoders, sequences and parameters of inputs are of their types, and
\* what stands for the lack of one is none of them.
ASSUME ResourcesAssumption ==
  /\ Fds \subseteq Nat /\ {"nokey", "closed", "stdout"} \intersect Bufs = {}
  /\ Decoders \subseteq Setups!DecoderType /\ Headers \subseteq Setups!HeaderType
  /\ InputParams \subseteq Setups!ParamType /\ MaxSetups \in Nat
  /\ NoBuf \notin Setups!HeaderType \union Setups!Pixels
               \union Setups!Of(Setups!Layouts, {8, 10}, BOOLEAN)

Decoder(hw, std, knows) == [hw |-> hw, std |-> std, knows |-> knows]
Header(size, crop, bits, kind) ==
  [size |-> size, crop |-> crop, bits |-> bits, dpb |-> size + 2, delay |-> size, kind |-> kind]
Param(pixel, sbwc, on, vc1) == [pixel |-> pixel, sbwc |-> sbwc, on |-> on, vc1 |-> vc1]

\* The newest and the oldest hardware, one between, and the type that the header
\* of the stream decides; a sequence with another crop, one of more bits, and two
\* that are no geometry.
MCDecoders == {Decoder("170", "HEVC", {"rate", "prio", "delay"}),
               Decoder("130", "VP9", {"delay"}), Decoder("65", "VC1", {}),
               Decoder("51", "AVC", {})}
MCHeaders == {Header(1, 1, 8, "whole"), Header(1, 2, 8, "whole"), Header(2, 2, 10, "whole"),
              Header(1, 1, 8, "partial"), Header(1, 1, 8, "unsupported")}
MCParams == {Param(NoBuf, FALSE, {}, "VC1"), Param("any", TRUE, {"thumb", "prio"}, "VC1_RCV"),
             Param("NV21", FALSE, {"order", "delay", "bar"}, "VC1"),
             Param("P010", FALSE, {"thumb", "rate"}, "UNKNOWN")}
MCRefusals == {{}, {"thumb"}, {"delay"}, {"InGeometry"}, {"Enqueue"}, {"Header"}, {"OutSetup"}}

\* Settings that settle each other change together.
Flow == INSTANCE Settings
  WITH count <- changes, MaxChanges <- 2, MaxFrames <- 2, MaxFlushes <- 1,
       EncFocus <-
         {{"syncFrame", "startIDR"}, {"actualFormat", "pixelFormat", "startIDR"},
          {"dataSpace", "colorAspects", "pixelFormat"}, {"syncPeriod", "frameRate"},
          {"frameRate", "profileLevel"}, {"bitrate", "profileLevel"}, {"streamSize", "bitrate"},
          {"bitrate", "layering"}, {"layering", "refPFrames"},
          {"bitrateMode", "vendorBitrateMode", "vtcall"}, {"quantization", "qpRange"},
          {"hdrFormat", "hdr10PlusStat"}, {"hdrStatic", "hdrDynamic"}, {"minQuality", "subscribed"},
          {"averageQp", "dropControl", "dynamicFramerate"}, {"gop", "quality"},
          {"operateRate", "realTimePriority"}, {"intraRefresh", "generalPB"}, {"crop", "scaleSize"},
          {"iFrameRatio", "chromaQpOffset", "maxIFrameSize"}, {"pmv"}, {"prependHeader"}},
       DecFocus <-
         {{"pixelFormat", "usage", "streamUsage", "compressedColor"}, {"defaultAspects", "codedAspects"},
          {"reorderTimestamp", "decodeOrder", "reorderDepth", "reorderKey"},
          {"maxDpb", "extra", "decodeOrder", "reorderDepth"}, {"streamSize", "maxStreamSize", "inputCrop"},
          {"imageConvert", "controlFrame"}, {"imageConvertMode", "imageConvertFormat"},
          {"hdrStatic", "displayDelay"}, {"outputCrop", "scaleSize"}, {"bufferCopy", "blackBar", "thumbnail"},
          {"operateRate"}, {"realTimePriority"}}

setupVars  == <<dec, decCodec, bufferInfo, filter, decDrv, setups, late>>
deviceVars == <<mode, info, inst, step, life, resources, given, wild>>
paramVars  == <<codec, feats, newHw, slicesKnown, filled, count, kept, drv, half, ahead>>
flowVars ==
  <<side, focus, intf, running, piled, client, work, queue, told, actual, needIdr, due, excused, changes>>
memVars == <<file, fdMap, mQueue, mMap, enq, report, queuedDrv, uses, fdOf, lost>>

SetupsRest == Setups!Init /\ dec.std = "AVC"
SlotsRest  == Init /\ pad = "decSrc"
DeviceRest == Device!Init /\ mode = "dec" /\ info.codec = "HEVC"
ParamsRest == Params!Init /\ codec = "AVC" /\ feats = {}

FlowRest == Flow!Init /\ side = "dec" /\ focus = {"hdrStatic", "displayDelay"}

MCInit ==
  /\ Buffers!Init
  /\ \/ part = "slots"   /\ Init      /\ DeviceRest   /\ ParamsRest   /\ SetupsRest   /\ FlowRest
     \/ part = "device"  /\ SlotsRest /\ Device!Init  /\ ParamsRest   /\ SetupsRest   /\ FlowRest
     \/ part = "params"  /\ SlotsRest /\ DeviceRest   /\ Params!Init  /\ SetupsRest   /\ FlowRest
     \/ part = "setup"   /\ SlotsRest /\ DeviceRest   /\ ParamsRest   /\ Setups!Init  /\ FlowRest
     \/ part = "buffers" /\ SlotsRest /\ DeviceRest   /\ ParamsRest   /\ SetupsRest   /\ FlowRest
     \/ part = "settings" /\ SlotsRest /\ DeviceRest  /\ ParamsRest   /\ SetupsRest   /\ Flow!Init

MCNext ==
  /\ UNCHANGED part
  /\ \/ part = "slots"   /\ Next         /\ UNCHANGED <<deviceVars, paramVars, memVars, setupVars, flowVars>>
     \/ part = "device"  /\ Device!Next  /\ UNCHANGED <<slotVars, paramVars, memVars, setupVars, flowVars>>
     \/ part = "params"  /\ Params!Next  /\ UNCHANGED <<slotVars, deviceVars, memVars, setupVars, flowVars>>
     \/ part = "buffers" /\ Buffers!Next /\ UNCHANGED <<slotVars, deviceVars, paramVars, setupVars, flowVars>>
     \/ part = "setup"   /\ Setups!Next  /\ UNCHANGED <<slotVars, deviceVars, paramVars, memVars, flowVars>>
     \/ part = "settings" /\ Flow!Next /\ UNCHANGED <<slotVars, deviceVars, paramVars, memVars, setupVars>>

MCSpec ==
  MCInit /\ [][MCNext]_<<part, slotVars, deviceVars, paramVars, memVars, setupVars, flowVars>>

\* The types of the six modules' variables.
MCTypeOK == TypeOK /\ Device!TypeOK /\ Params!TypeOK /\ Buffers!TypeOK /\ Setups!TypeOK
            /\ Flow!TypeOK

\* An encoder's array of controls is filled, and the driver's quantization range
\* is the one that is kept.  The filters have been told what the interface of the
\* component says, the settings of that interface agree with each other, and a
\* request for a sync frame is not lost.
ControlsRight ==
  /\ Params!ControlsFilled /\ Params!QpRangeConsistent
  /\ part = "settings" => Flow!FiltersTold /\ Flow!AlwaysSettled /\ Flow!RequestsReachFilters

\* No resource outlives a context, and shared memory is mapped when it is used.
\* Counts and descriptors of output buffers agree with the driver's references;
\* a decoder's output buffers are allocated by the geometry of its stream.
ResourcesAgree ==
  /\ Device!NothingLeaks /\ Device!SharedMemoryMapped
  /\ Buffers!BuffersAgree /\ Setups!GeometryAgrees

=============================================================================
