----------------------------- MODULE CodecDevice -----------------------------
(***************************************************************************)
(* The resources of a codec context of libExynosVideoApi: what Init        *)
(* acquires, in which order, what its error path and Finalize give back,   *)
(* and which of the memory shared with the driver the operations touch.    *)
(* What is acquired depends on the features the driver reports and on the  *)
(* codec type; what is released depends on the context's own copy of them, *)
(* which operations may change in between.                                 *)
(***************************************************************************)
EXTENDS Naturals, Sequences, FiniteSets

VARIABLES
  mode,         \* "dec" or "enc"; fixed
  info,         \* the caller's ExynosVideoInstInfo
  inst,         \* the context's copy of it
  step,         \* how many of Init's acquisitions are done
  life,         \* "none", "init", "ready": the context
  held,         \* resources that are allocated
  given,        \* shared memories whose handle the driver was told
  wild          \* shared memories touched while they are not mapped

deviceVars == <<mode, info, inst, step, life, held, given, wild>>

Codecs   == {"AV1", "HEVC", "AVC", "H263"}
Features == {"DrvDPBManage", "TemporalSvc", "RoiInfo", "HDRDynamic", "HDRDynamicStat"}
Kinds    == {"RefDPB", "HDRDynamic", "FilmGrain", "TemporalLayer", "ROI", "HDRStat"}

\* What a driver of each kind may support.
FeaturesOf == [dec |-> {"DrvDPBManage", "HDRDynamic"},
               enc |-> {"TemporalSvc", "RoiInfo", "HDRDynamic", "HDRDynamicStat"}]
CodecsOf   == [dec |-> {"AV1", "HEVC"}, enc |-> {"HEVC", "AVC", "H263"}]

Resources ==
  ({"context", "device", "user", "mutex", "epoll", "ion"} \X {"none"})
    \union ({"fd", "map"} \X Kinds)

Init ==
  /\ mode \in {"dec", "enc"}
  /\ \E c \in CodecsOf[mode] : info = [codec |-> c, feats |-> {}, ready |-> FALSE]
  /\ inst = info
  /\ step = 0
  /\ life = "none"
  /\ held = {}
  /\ given = {}
  /\ wild = {}

-----------------------------------------------------------------------------
(* What the driver says of itself.                                         *)

\* __GetInstInfo: without EXT_INFO the features stay empty, without a driver
\* version (Skype) they are known but bInitialized stays FALSE.
InstInfo(i) ==
  {[i EXCEPT !.feats = {}]}
    \union [codec : {i.codec}, feats : SUBSET FeaturesOf[mode], ready : BOOLEAN]

\* Exynos_Video_GetInstInfo of the encoder's constructor, on a device that is
\* opened and closed again.
Probe ==
  /\ mode = "enc" /\ life = "none" /\ ~info.ready /\ info.feats = {}
  /\ info' \in InstInfo(info)
  /\ UNCHANGED <<mode, inst, step, life, held, given, wild>>

-----------------------------------------------------------------------------
(* Init.                                                                   *)

\* The shared memories of a context, as Init and the clear functions decide.
DecKinds(i) ==
  (IF "DrvDPBManage" \in i.feats THEN <<>> ELSE <<"RefDPB">>)
    \o (IF "HDRDynamic" \in i.feats THEN <<"HDRDynamic">> ELSE <<>>)
    \o (IF i.codec = "AV1" THEN <<"FilmGrain">> ELSE <<>>)

EncKinds(i) ==
  (IF "TemporalSvc" \in i.feats THEN <<"TemporalLayer">> ELSE <<>>)
    \o (IF "RoiInfo" \in i.feats THEN <<"ROI">> ELSE <<>>)
    \o (IF "HDRDynamic" \in i.feats THEN <<"HDRDynamic">> ELSE <<>>)
    \o (IF "HDRDynamicStat" \in i.feats THEN <<"HDRStat">> ELSE <<>>)

KindsOf(i) == IF mode = "dec" THEN DecKinds(i) ELSE EncKinds(i)

\* The handle of RefDPB is passed by Setup_Outbuf; those of the temporal layers
\* and the regions of interest go with the controls that use them.
Announced == {"HDRDynamic", "FilmGrain", "HDRStat"}

AcquireKind(k) ==
  <<<<"fd", k>>, <<"map", k>>>> \o (IF k \in Announced THEN <<<<"give", k>>>> ELSE <<>>)

\* Init_Common: query, then a mutex and an epoll instance per pad (the latter's
\* failure is ignored), then the ion client; then the shared memories.
Acquisitions(i) ==
  LET ks == KindsOf(i)
      of(n) == IF n <= Len(ks) THEN AcquireKind(ks[n]) ELSE <<>>
  IN  <<<<"user", "none">>, <<"query", "none">>, <<"mutex", "none">>, <<"ion", "none">>>>
        \o of(1) \o of(2) \o of(3) \o of(4)

\* Init up to the copy of the caller's information: nothing to undo but the
\* context when the device cannot be opened.
InitOpen ==
  /\ life = "none"
  /\ IF info.ready THEN info' = info ELSE info' \in InstInfo(info)
  /\ inst' = info'
  /\ held' = {<<"context", "none">>, <<"device", "none">>}
  /\ life' = "init"
  /\ step' = 0
  /\ given' = {} /\ wild' = {}
  /\ UNCHANGED mode

InitAcquire ==
  /\ life = "init" /\ step < Len(Acquisitions(inst))
  /\ LET r == Acquisitions(inst)[step + 1]
     IN  /\ \/ held' = held \union ({r} \intersect Resources)
            \/ r[1] = "mutex" /\ held' = held \union {r, <<"epoll", "none">>}
         /\ given' = IF r[1] = "give" THEN given \union {r[2]} ELSE given
  /\ step' = step + 1
  /\ UNCHANGED <<mode, info, inst, life, wild>>

InitDone ==
  /\ life = "init" /\ step = Len(Acquisitions(inst))
  /\ life' = "ready"
  /\ UNCHANGED <<mode, info, inst, step, held, given, wild>>

\* DecSpecificClear and EncSpecificClear: by the context's own information.
ClearedKinds(i) == {KindsOf(i)[n] : n \in DOMAIN KindsOf(i)}

\* MFC_ResourceClear and the free of the context.
ResourceClear ==
  /\ held' = {r \in held : r[1] \in {"fd", "map"} /\ r[2] \notin ClearedKinds(inst)}
  /\ given' = {}
  /\ life' = "none"
  /\ step' = 0
  /\ UNCHANGED <<mode, info, inst, wild>>

InitFail ==
  /\ life = "init" /\ step < Len(Acquisitions(inst))
  /\ ResourceClear

Finalize ==
  /\ life = "ready"
  /\ ResourceClear

-----------------------------------------------------------------------------
(* Operations of a context that is ready.                                  *)

\* Touching a memory that is not mapped is remembered.
Touch(k) ==
  /\ wild' = IF <<"map", k>> \in held THEN wild ELSE wild \union {k}
  /\ UNCHANGED <<mode, info, step, life, held>>

\* Mutation: the geometry may name another codec than the context's.
SetGeometryInbuf_AnyCodec ==
  /\ life = "ready" /\ mode = "dec"
  /\ \E c \in Codecs : inst' = [inst EXCEPT !.codec = c]
  /\ UNCHANGED <<mode, info, step, life, held, given, wild>>

\* Set_Geometry_Inbuf of a decoder stores eCompressionFormat as the context's
\* codec type; the codec passes the type it was created with.
SetGeometryInbuf ==
  /\ life = "ready" /\ mode = "dec"
  /\ inst' = [inst EXCEPT !.codec = info.codec]
  /\ UNCHANGED <<mode, info, step, life, held, given, wild>>

\* Setup_Outbuf of a decoder tells the driver about the reference counts.
SetupOutbuf ==
  /\ life = "ready" /\ mode = "dec"
  /\ "DrvDPBManage" \notin inst.feats
  /\ given' = given \union {"RefDPB"}
  /\ UNCHANGED <<mode, info, inst, step, life, held, wild>>

\* StateProcessing of a decoder, with what the frame's flags select.
DecStateProcessing(k) ==
  /\ life = "ready" /\ mode = "dec"
  /\ \/ k = "RefDPB" /\ "DrvDPBManage" \notin inst.feats
     \/ k = "HDRDynamic" /\ "HDRDynamic" \in inst.feats
     \/ k = "FilmGrain" /\ inst.codec = "AV1"
  /\ Touch(k)
  /\ UNCHANGED <<inst, given>>

\* Enqueue_Inbuf of an encoder writes the dynamic HDR of the frame.
EncEnqueueInbuf ==
  /\ life = "ready" /\ mode = "enc"
  /\ "HDRDynamic" \in inst.feats
  /\ Touch("HDRDynamic")
  /\ UNCHANGED <<inst, given>>

\* StateProcessing of an encoder whose statistics were enabled, which
\* Enable_HDRDynamicStatInfo allows only with the feature and for HEVC.
EncStateProcessing ==
  /\ life = "ready" /\ mode = "enc"
  /\ "HDRDynamicStat" \in inst.feats /\ inst.codec = "HEVC"
  /\ Touch("HDRStat")
  /\ UNCHANGED <<inst, given>>

SetRoiInfo ==
  /\ life = "ready" /\ mode = "enc"
  /\ "RoiInfo" \in inst.feats
  /\ Touch("ROI")
  /\ given' = given \union {"ROI"}
  /\ UNCHANGED inst

\* Set_LayerChange looks at the codec, not at the feature.
SetLayerChange ==
  /\ life = "ready" /\ mode = "enc"
  /\ inst.codec \in {"AVC", "HEVC"}
  /\ Touch("TemporalLayer")
  /\ given' = given \union {"TemporalLayer"}
  /\ UNCHANGED inst

Next ==
  \/ Probe \/ InitOpen \/ InitAcquire \/ InitDone \/ InitFail \/ Finalize
  \/ SetGeometryInbuf \/ SetupOutbuf
  \/ \E k \in Kinds : DecStateProcessing(k)
  \/ EncEnqueueInbuf \/ EncStateProcessing \/ SetRoiInfo \/ SetLayerChange

Spec == Init /\ [][Next]_deviceVars

-----------------------------------------------------------------------------
(* Properties.                                                             *)

InstInfoType == [codec : Codecs, feats : SUBSET Features, ready : BOOLEAN]

TypeOK ==
  /\ mode \in {"dec", "enc"}
  /\ info \in InstInfoType /\ inst \in InstInfoType
  /\ step \in Nat
  /\ life \in {"none", "init", "ready"}
  /\ held \subseteq Resources
  /\ given \subseteq Kinds /\ wild \subseteq Kinds

\* Wherever Init fails, and whatever operations ran before Finalize, no
\* descriptor, mapping or other resource outlives the context: what is released
\* is decided by a copy of the features and of the codec type that has to agree
\* with the one the acquisitions were decided by.
NothingLeaks == life = "none" => held = {}

\* An operation touches shared memory only while it is mapped.  The one that
\* does not check is Set_LayerChange without temporal layers in the driver
\* (ExynosVideoEncoder.c:1158), whose callers do not check it either.
SharedMemoryMapped ==
  wild \subseteq (IF mode = "enc" /\ "TemporalSvc" \notin inst.feats
                  THEN {"TemporalLayer"} ELSE {})

=============================================================================
