--------------------------- MODULE FiltersProofs ---------------------------
(***************************************************************************)
(* Proofs about the modules that MCFilters brings together, for all values *)
(* of their constants: the filters behind a codec's (PostFilters), the     *)
(* chain of filters (FilterChain, with the invariant and the lemmas of     *)
(* FilterChainLemmas), and the instance as a whole, with CodecFilterProofs *)
(* for the filter of a codec.                                              *)
(*                                                                         *)
(* None of the four properties of the filters behind a codec's is          *)
(* inductive by itself.  PostInv adds what a frame carries at each filter  *)
(* (its parameters are those that the filters it passed have left, its     *)
(* format is one that the next filter can handle), and what the members of *)
(* the control filter say between two frames: which filters are in use,    *)
(* how many of them the component has been told of, and that the list of   *)
(* filters is told to a decoder's control filter with its first frame.     *)
(***************************************************************************)
EXTENDS CodecFilterProofs, FilterChainLemmas

-----------------------------------------------------------------------------
(***************************************************************************)
(* The filters behind a codec's.                                           *)
(***************************************************************************)

Decodes == \E kind \in stream : kind.codec = "dec"
Encodes == \E kind \in stream : kind.codec = "enc"
Told == Post!ToldNow

\* The steps of a decoder's frame behind the control filter.
Behind == {"csc", "grain", "hdr2sdr", "component"}

\* The parameters of a frame, and a frame.
ParamsType ==
  [list : BOOLEAN, format : Formats, shape : BOOLEAN, sdr : BOOLEAN, grain : {"none", "on", "off"},
   num : 0..2, stat : Nat, dyn : {"none", "client"}, other : BOOLEAN]
FrameType ==
  [n : Nat, fmt : Formats, hdr : BOOLEAN, replica : BOOLEAN, params : ParamsType,
   by : SUBSET {"csc", "grain", "sdr"}, applied : Nat, due : BOOLEAN, spoiled : BOOLEAN,
   sei : Nat \X {"none", "client"}]

Flags(a, b, c, d, e, f) ==
  a \in BOOLEAN /\ b \in BOOLEAN /\ c \in BOOLEAN /\ d \in BOOLEAN /\ e \in BOOLEAN /\ f \in BOOLEAN

\* The flags are flags: the members of the filters, what the component knows and what
\* the model notes of the past.
PostFlags ==
  /\ Flags(list, withStats, mId, mUseHDR2SDR, mUseFilmGrain, mHasFilmGrain)
  /\ Flags(mUseCSC, mCSC, shape, mIsConfigured, mIsEnabled, mHasStatInfo)
  /\ Flags(mHasDynamicInfo, plain, asked, restarted, unsaid, TRUE)

\* A frame is at a filter while the filters run, and there is none otherwise.
PostFrame ==
  /\ up \in {"new", "running", "stopped"} /\ (at # "none" => up = "running")
  /\ at \in {"none", "control", "hdr10plus", "csc", "grain", "hdr2sdr", "component"}
  /\ frame \in FrameType /\ frame.n <= count /\ (at = "none" => frame = Post!NoFrame)
  /\ count \in Nat

\* The other members; a filter that runs has loaded what there is of its library.
PostTypes ==
  /\ stream \in Streams /\ libs \in Libraries
  /\ hdrLib \in {"none", "loaded", "unloaded"} /\ grainLib \in {"none", "loaded", "unloaded"}
  /\ up = "running" => mCSC /\ hdrLib # "none" /\ grainLib # "none"
                       /\ loaded = libs \cap {"grain", "sdr", "stat"}
  /\ mFormat \in Formats /\ mStatInfo \in Nat /\ mDynamicInfo \in {"none", "client"}
  /\ mUsedFilterNum \in 0..2 /\ told \in 0..2
  /\ loaded \subseteq libs /\ (mIsConfigured => "grain" \in loaded)
  /\ mHasFilmGrain => mUseFilmGrain
  /\ mInfo = [of |-> mInfo.of, on |-> mInfo.on] /\ mInfo.of \in 0..count /\ mInfo.on \in BOOLEAN

\* The list of filters goes with the first frame, so that only the control filter of a
\* decoder, while it has that frame, does not know of the others.
PostList ==
  /\ at \in {"control", "csc", "grain", "hdr2sdr"} => Decodes
  /\ at = "hdr10plus" => Encodes
  /\ Encodes => ~frame.params.sdr /\ frame.params.grain = "none"
  /\ list /\ up = "running" => at = "none"
  /\ Decodes /\ up = "running" /\ ~list /\ ~mId => at = "control" /\ frame.params.list

\* A picture in HDR that a filter asked the conversion for comes to it in the one format
\* that the library takes.
PostHdr ==
  /\ asked => mIsEnabled /\ mUseHDR2SDR
  /\ at \in Behind /\ frame.params.sdr => mUseHDR2SDR
  /\ frame.hdr => ~frame.replica
  /\ at \in {"control", "csc"} /\ frame.hdr => frame.fmt \in Post!TenBits
  /\ at = "csc" /\ frame.hdr /\ mUseHDR2SDR => frame.params.format = "P010M"
  /\ at \in {"grain", "hdr2sdr"} /\ frame.hdr /\ mUseHDR2SDR => frame.fmt = "P010M"
  /\ at # "component" => ~frame.due
  /\ Post!HdrConverted

\* A stream of plain formats whose grain is to be applied, and the formats the converter
\* may have been asked for then.
Grains == plain /\ ~restarted /\ "grain" \in libs /\ frame.params.grain = "on"
Plain == {"none", "NV12M", "P010M"}
\* Such a picture comes to the grain filter in a format that it supports.
PostGrain ==
  /\ up = "new" => grainLib = "none"
  /\ ~restarted => up # "stopped"
     /\ (up = "running" => grainLib = IF "grain" \in libs THEN "loaded" ELSE "unloaded")
  /\ plain => mFormat \in Plain /\ ~shape /\ ~frame.params.shape
  /\ plain /\ at = "control" => frame.params.format = "none"
  /\ plain /\ at = "csc" => frame.params.format \in Plain
  /\ at = "control" /\ frame.params.grain # "none" =>
       ~frame.replica /\ frame.fmt \in {"SBWC8", "SBWC10", "SPN", "P010", "P010M", "NV12M"}
  /\ at \in {"csc", "grain"} /\ frame.params.grain # "none" => ~frame.replica
  /\ at = "csc" /\ Grains => frame.params.format # "none" \/ Post!Supported(frame.fmt)
  /\ at = "grain" /\ Grains => Post!Supported(frame.fmt)
  /\ at \in {"hdr2sdr", "component"} /\ Grains => frame.applied = frame.n \/ frame.spoiled

Bit(b) == IF b THEN 1 ELSE 0
\* The filters in use are counted, and the count is told unless a frame with it was lost.
PostTold ==
  /\ ~unsaid => mUsedFilterNum <= Told
  /\ at \notin Behind => frame.params.num = 0
  /\ Decodes /\ at \in Behind => Bit(mUseCSC) + Bit(mUseFilmGrain) <= mUsedFilterNum
  /\ ~Decodes => frame.by = {}
  /\ plain /\ mFormat # "none" => mUseCSC
  /\ plain /\ at = "csc" /\ frame.params.format # "none" => mUseCSC
  /\ plain /\ "csc" \in frame.by => mUseCSC
  /\ ~restarted /\ "grain" \in libs /\ mInfo.on => mUseFilmGrain
  /\ ~restarted /\ "grain" \in libs /\ at \in {"csc", "grain"} /\ frame.params.grain # "none"
     => mUseFilmGrain
  /\ ~restarted /\ "grain" \in frame.by => mUseFilmGrain /\ "grain" \in libs

\* The metadata that an encoder's filter keeps is of the frame that it has.
PostMeta ==
  /\ Decodes => ~mHasStatInfo
  /\ up = "running" /\ ~withStats =>
       list \/ (at = "hdr10plus" /\ frame.params # Post!NoParams) \/ ~mHasStatInfo
  /\ at = "hdr10plus" /\ withStats => frame.params.stat # 0
  /\ at = "hdr10plus" /\ ~withStats => frame.params.stat = 0
  /\ at # "component" => frame.sei = <<0, "none">>
  /\ Post!MetadataOwn

PostInv ==
  PostFlags /\ PostFrame /\ PostTypes /\ PostList /\ PostHdr /\ PostGrain /\ PostTold /\ PostMeta

\* Where there is no frame, and what it carries: no parameters.
LEMMA EmptyFrame ==
  /\ Post!NoFrame \in FrameType
  /\ Post!NoFrame.n = 0 /\ Post!NoFrame.hdr = FALSE /\ Post!NoFrame.replica = FALSE
  /\ Post!NoFrame.fmt = "none" /\ Post!NoFrame.by = {} /\ Post!NoFrame.due = FALSE
     /\ Post!NoFrame.spoiled = FALSE
  /\ Post!NoFrame.sei = <<0, "none">> /\ Post!NoFrame.params = Post!NoParams
     /\ Post!NoFrame.applied = 0
  /\ Post!NoParams \in ParamsType
  /\ Post!NoParams.list = FALSE /\ Post!NoParams.format = "none" /\ Post!NoParams.shape = FALSE
  /\ Post!NoParams.sdr = FALSE /\ Post!NoParams.grain = "none" /\ Post!NoParams.num = 0
  /\ Post!NoParams.stat = 0 /\ Post!NoParams.dyn = "none" /\ Post!NoParams.other = FALSE
<1>1. Post!NoParams \in ParamsType
  BY FiltersAssumption DEF ParamsType, Post!NoParams, Post!None
<1>2. Post!NoFrame \in FrameType
  BY <1>1, FiltersAssumption DEF FrameType, Post!NoFrame, Post!None
<1> QED BY <1>1, <1>2 DEF Post!NoFrame, Post!NoParams, Post!None

\* A frame that is dropped with a count for the component makes the count unsaid.
LEMMA Lost ==
  ASSUME PostInv, Post!Lose
  PROVE  /\ unsaid' \in BOOLEAN
         /\ ~unsaid' => (~unsaid /\ frame.params.num = 0)
<1>1. unsaid' = (unsaid \/ frame.params.num > 0)
  BY DEF Post!Lose
<1>2. ~unsaid' => (~unsaid /\ ~(frame.params.num > 0))
  BY <1>1, Zenon
<1>3. unsaid' \in BOOLEAN
  BY <1>1, Zenon
<1>4. frame.params.num \in 0..2
  BY DEF PostInv, PostFrame, FrameType, ParamsType
<1> QED BY <1>2, <1>3, <1>4

\* The steps of the component's thread: start(), flush(), stop() and reset().
LEMMA PostStart == ASSUME PostInv, Post!Start PROVE PostInv'
<1>1. PostFlags'
  <2>1. \A kind \in stream : kind.stat \in BOOLEAN
    BY FiltersAssumption DEF PostInv, PostTypes, KindType
  <2>2. withStats' \in BOOLEAN
    BY <2>1 DEF Post!Start
  <2>3. shape' = (mCSC /\ shape)
    BY DEF Post!Start
  <2>4. shape' \in BOOLEAN
    BY <2>3, Zenon
  <2> QED BY <2>2, <2>4 DEF PostInv, PostFlags, Flags, Post!Start, Post!statVars, Post!historyVars
<1>2. PostFrame'
  BY DEF PostInv, PostFrame, FrameType, ParamsType, Post!Start, Post!streamVars, Post!controlVars,
     Post!filterVars, Post!statVars, Post!historyVars, Post!None, Post!LibAfterStart
<1>3. PostTypes'
  BY FiltersAssumption DEF PostInv, PostFlags, Flags, PostFrame, FrameType, ParamsType, PostTypes,
     Post!Start, Post!streamVars, Post!controlVars, Post!filterVars, Post!statVars,
     Post!historyVars, Post!None, Post!LibAfterStart
<1>4. PostList'
  BY DEF PostInv, PostFlags, Flags, PostFrame, FrameType, ParamsType, PostTypes, PostList, Behind,
     Decodes, Encodes, Post!Start, Post!streamVars, Post!controlVars, Post!filterVars,
     Post!statVars, Post!historyVars, Post!None, Post!LibAfterStart
<1>5. PostHdr'
  BY DEF PostInv, PostFlags, Flags, PostFrame, FrameType, ParamsType, PostTypes, PostHdr, Behind,
     Post!HdrConverted, Post!Start, Post!streamVars, Post!controlVars, Post!filterVars,
     Post!statVars, Post!historyVars, Post!None, Post!LibAfterStart
<1>6. PostGrain'
  BY DEF PostInv, PostFlags, Flags, PostFrame, FrameType, ParamsType, PostTypes, PostGrain, Behind,
     Plain, Grains, Post!Start, Post!streamVars, Post!controlVars, Post!filterVars, Post!statVars,
     Post!historyVars, Post!None, Post!LibAfterStart
<1>7. PostTold'
  BY DEF PostInv, PostFrame, FrameType, ParamsType, PostTypes, PostTold, Behind, Told, Post!ToldNow,
     Decodes, Encodes, Bit, Post!Start, Post!streamVars, Post!controlVars, Post!filterVars,
     Post!statVars, Post!historyVars, Post!None, Post!LibAfterStart
<1>8. PostMeta'
  BY DEF PostInv, PostFrame, FrameType, ParamsType, PostMeta, Post!MetadataOwn, Decodes, Post!Start,
     Post!streamVars, Post!controlVars, Post!filterVars, Post!statVars, Post!historyVars, Post!None,
     Post!LibAfterStart
<1> QED BY <1>1, <1>2, <1>3, <1>4, <1>5, <1>6, <1>7, <1>8 DEF PostInv

LEMMA PostFlush == ASSUME PostInv, Post!Flush PROVE PostInv'
<1>1. PostFlags'
  BY EmptyFrame, Lost DEF PostInv, PostFlags, Flags, Post!Flush, Post!streamVars, Post!controlVars,
     Post!filterVars, Post!statVars, Post!historyVars, Post!None, Post!Lose, Post!NoInfo
<1>2. PostFrame'
  BY EmptyFrame, Lost DEF PostInv, PostFrame, FrameType, ParamsType, Post!Flush, Post!streamVars,
     Post!controlVars, Post!filterVars, Post!statVars, Post!historyVars, Post!None, Post!Lose,
     Post!NoInfo
<1>3. PostTypes'
  BY EmptyFrame, Lost DEF PostInv, PostFlags, Flags, PostFrame, FrameType, ParamsType, PostTypes,
     Post!Flush, Post!streamVars, Post!controlVars, Post!filterVars, Post!statVars,
     Post!historyVars, Post!None, Post!Lose, Post!NoInfo
<1>4. PostList'
  BY EmptyFrame, Lost DEF PostInv, PostFlags, Flags, PostFrame, FrameType, ParamsType, PostTypes,
     PostList, Behind, Decodes, Encodes, Post!Flush, Post!streamVars, Post!controlVars,
     Post!filterVars, Post!statVars, Post!historyVars, Post!None, Post!Lose, Post!NoInfo
<1>5. PostHdr'
  BY EmptyFrame, Lost DEF PostInv, PostFlags, Flags, PostFrame, FrameType, ParamsType, PostTypes,
     PostHdr, Behind, Post!HdrConverted, Post!Flush, Post!streamVars, Post!controlVars,
     Post!filterVars, Post!statVars, Post!historyVars, Post!None, Post!Lose, Post!NoInfo
<1>6. PostGrain'
  BY EmptyFrame, Lost DEF PostInv, PostFlags, Flags, PostFrame, FrameType, ParamsType, PostTypes,
     PostGrain, Behind, Plain, Grains, Post!Flush, Post!streamVars, Post!controlVars,
     Post!filterVars, Post!statVars, Post!historyVars, Post!None, Post!Lose, Post!NoInfo
<1>7. PostTold'
  BY EmptyFrame, Lost DEF PostInv, PostFrame, FrameType, ParamsType, PostTypes, PostTold, Behind,
     Told, Post!ToldNow, Decodes, Encodes, Bit, Post!Flush, Post!streamVars, Post!controlVars,
     Post!filterVars, Post!statVars, Post!historyVars, Post!None, Post!Lose, Post!NoInfo
<1>8. PostMeta'
  BY EmptyFrame, Lost DEF PostInv, PostFrame, FrameType, ParamsType, PostMeta, Post!MetadataOwn,
     Decodes, Post!Flush, Post!streamVars, Post!controlVars, Post!filterVars, Post!statVars,
     Post!historyVars, Post!None, Post!Lose, Post!NoInfo
<1> QED BY <1>1, <1>2, <1>3, <1>4, <1>5, <1>6, <1>7, <1>8 DEF PostInv

LEMMA PostStop == ASSUME PostInv, Post!Stop PROVE PostInv'
<1>1. PostFlags'
  <2>1. unsaid' \in BOOLEAN
    BY Lost DEF Post!Stop
  <2>2. mIsConfigured' \in BOOLEAN /\ restarted' \in BOOLEAN
    BY DEF Post!Stop
  <2>3. UNCHANGED <<list, withStats, mId, mUseHDR2SDR, mUseFilmGrain, mHasFilmGrain, mUseCSC, mCSC,
                    shape, mIsEnabled, mHasStatInfo, mHasDynamicInfo, plain, asked>>
    BY DEF Post!Stop, Post!statVars
  <2> QED BY <2>1, <2>2, <2>3 DEF PostInv, PostFlags, Flags
<1>2. PostFrame'
  BY EmptyFrame, Lost DEF PostInv, PostFrame, FrameType, ParamsType, Post!Stop, Post!streamVars,
     Post!controlVars, Post!filterVars, Post!statVars, Post!historyVars, Post!None, Post!Lose,
     Post!NoInfo
<1>3. PostTypes'
  BY EmptyFrame, Lost DEF PostInv, PostFlags, Flags, PostFrame, FrameType, ParamsType, PostTypes,
     Post!Stop, Post!streamVars, Post!controlVars, Post!filterVars, Post!statVars, Post!historyVars,
     Post!None, Post!Lose, Post!NoInfo
<1>4. PostList'
  BY EmptyFrame, Lost DEF PostInv, PostFlags, Flags, PostFrame, FrameType, ParamsType, PostTypes,
     PostList, Behind, Decodes, Encodes, Post!Stop, Post!streamVars, Post!controlVars,
     Post!filterVars, Post!statVars, Post!historyVars, Post!None, Post!Lose, Post!NoInfo
<1>5. PostHdr'
  BY EmptyFrame, Lost DEF PostInv, PostFlags, Flags, PostFrame, FrameType, ParamsType, PostTypes,
     PostHdr, Behind, Post!HdrConverted, Post!Stop, Post!streamVars, Post!controlVars,
     Post!filterVars, Post!statVars, Post!historyVars, Post!None, Post!Lose, Post!NoInfo
<1>6. PostGrain'
  BY EmptyFrame, Lost DEF PostInv, PostFlags, Flags, PostFrame, FrameType, ParamsType, PostTypes,
     PostGrain, Behind, Plain, Grains, Post!Stop, Post!streamVars, Post!controlVars,
     Post!filterVars, Post!statVars, Post!historyVars, Post!None, Post!Lose, Post!NoInfo
<1>7. PostTold'
  BY EmptyFrame, Lost DEF PostInv, PostFrame, FrameType, ParamsType, PostTypes, PostTold, Behind,
     Told, Post!ToldNow, Decodes, Encodes, Bit, Post!Stop, Post!streamVars, Post!controlVars,
     Post!filterVars, Post!statVars, Post!historyVars, Post!None, Post!Lose, Post!NoInfo
<1>8. PostMeta'
  BY EmptyFrame, Lost DEF PostInv, PostFrame, FrameType, ParamsType, PostMeta, Post!MetadataOwn,
     Decodes, Post!Stop, Post!streamVars, Post!controlVars, Post!filterVars, Post!statVars,
     Post!historyVars, Post!None, Post!Lose, Post!NoInfo
<1> QED BY <1>1, <1>2, <1>3, <1>4, <1>5, <1>6, <1>7, <1>8 DEF PostInv

LEMMA PostReset == ASSUME PostInv, Post!Reset PROVE PostInv'
<1>1. PostFlags'
  BY EmptyFrame DEF PostInv, PostFlags, Flags, Post!Reset, Post!streamVars, Post!controlVars,
     Post!filterVars, Post!statVars, Post!historyVars, Post!None, Post!NoInfo
<1>2. PostFrame'
  BY EmptyFrame DEF PostInv, PostFrame, FrameType, ParamsType, Post!Reset, Post!streamVars,
     Post!controlVars, Post!filterVars, Post!statVars, Post!historyVars, Post!None, Post!NoInfo
<1>3. PostTypes'
  BY EmptyFrame DEF PostInv, PostFlags, Flags, PostFrame, FrameType, ParamsType, PostTypes,
     Post!Reset, Post!streamVars, Post!controlVars, Post!filterVars, Post!statVars,
     Post!historyVars, Post!None, Post!NoInfo
<1>4. PostList'
  BY EmptyFrame DEF PostInv, PostFlags, Flags, PostFrame, FrameType, ParamsType, PostTypes,
     PostList, Behind, Decodes, Encodes, Post!Reset, Post!streamVars, Post!controlVars,
     Post!filterVars, Post!statVars, Post!historyVars, Post!None, Post!NoInfo
<1>5. PostHdr'
  BY EmptyFrame DEF PostInv, PostFlags, Flags, PostFrame, FrameType, ParamsType, PostTypes, PostHdr,
     Behind, Post!HdrConverted, Post!Reset, Post!streamVars, Post!controlVars, Post!filterVars,
     Post!statVars, Post!historyVars, Post!None, Post!NoInfo
<1>6. PostGrain'
  BY EmptyFrame DEF PostInv, PostFlags, Flags, PostFrame, FrameType, ParamsType, PostTypes,
     PostGrain, Behind, Plain, Grains, Post!Reset, Post!streamVars, Post!controlVars,
     Post!filterVars, Post!statVars, Post!historyVars, Post!None, Post!NoInfo
<1>7. PostTold'
  BY EmptyFrame DEF PostInv, PostFrame, FrameType, ParamsType, PostTypes, PostTold, Behind, Told,
     Post!ToldNow, Decodes, Encodes, Bit, Post!Reset, Post!streamVars, Post!controlVars,
     Post!filterVars, Post!statVars, Post!historyVars, Post!None, Post!NoInfo
<1>8. PostMeta'
  BY EmptyFrame DEF PostInv, PostFrame, FrameType, ParamsType, PostMeta, Post!MetadataOwn, Decodes,
     Post!Reset, Post!streamVars, Post!controlVars, Post!filterVars, Post!statVars,
     Post!historyVars, Post!None, Post!NoInfo
<1> QED BY <1>1, <1>2, <1>3, <1>4, <1>5, <1>6, <1>7, <1>8 DEF PostInv

\* The component takes the frame, with the count of filters if there is one.
LEMMA PostDeliver == ASSUME PostInv, Post!Deliver PROVE PostInv'
<1>1. PostFlags'
  BY EmptyFrame DEF PostInv, PostFlags, Flags, Post!Deliver, Post!streamVars, Post!controlVars,
     Post!filterVars, Post!statVars, Post!historyVars, Post!None, Post!ToldNow, Post!NoInfo
<1>2. PostFrame'
  BY EmptyFrame DEF PostInv, PostFrame, FrameType, ParamsType, Post!Deliver, Post!streamVars,
     Post!controlVars, Post!filterVars, Post!statVars, Post!historyVars, Post!None, Post!ToldNow,
     Post!NoInfo
<1>3. PostTypes'
  BY EmptyFrame DEF PostInv, PostFlags, Flags, PostFrame, FrameType, ParamsType, PostTypes,
     Post!Deliver, Post!streamVars, Post!controlVars, Post!filterVars, Post!statVars,
     Post!historyVars, Post!None, Post!ToldNow, Post!NoInfo
<1>4. PostList'
  BY EmptyFrame DEF PostInv, PostFlags, Flags, PostFrame, FrameType, ParamsType, PostTypes,
     PostList, Behind, Decodes, Encodes, Post!Deliver, Post!streamVars, Post!controlVars,
     Post!filterVars, Post!statVars, Post!historyVars, Post!None, Post!ToldNow, Post!NoInfo
<1>5. PostHdr'
  BY EmptyFrame DEF PostInv, PostFlags, Flags, PostFrame, FrameType, ParamsType, PostTypes, PostHdr,
     Behind, Post!HdrConverted, Post!Deliver, Post!streamVars, Post!controlVars, Post!filterVars,
     Post!statVars, Post!historyVars, Post!None, Post!ToldNow, Post!NoInfo
<1>6. PostGrain'
  BY EmptyFrame DEF PostInv, PostFlags, Flags, PostFrame, FrameType, ParamsType, PostTypes,
     PostGrain, Behind, Plain, Grains, Post!Deliver, Post!streamVars, Post!controlVars,
     Post!filterVars, Post!statVars, Post!historyVars, Post!None, Post!ToldNow, Post!NoInfo
<1>7. PostTold'
  BY EmptyFrame DEF PostInv, PostFrame, FrameType, ParamsType, PostTypes, PostTold, Behind, Told,
     Post!ToldNow, Decodes, Encodes, Bit, Post!Deliver, Post!streamVars, Post!controlVars,
     Post!filterVars, Post!statVars, Post!historyVars, Post!None, Post!ToldNow, Post!NoInfo
<1>8. PostMeta'
  BY EmptyFrame DEF PostInv, PostFrame, FrameType, ParamsType, PostMeta, Post!MetadataOwn, Decodes,
     Post!Deliver, Post!streamVars, Post!controlVars, Post!filterVars, Post!statVars,
     Post!historyVars, Post!None, Post!ToldNow, Post!NoInfo
<1> QED BY <1>1, <1>2, <1>3, <1>4, <1>5, <1>6, <1>7, <1>8 DEF PostInv

\* The frames of a stream are a decoder's pictures and headers or an encoder's.
LEMMA StreamKinds ==
  ASSUME PostInv, NEW kind \in stream
  PROVE  /\ kind \in KindType
         /\ kind.codec = "dec" => IsPicture(kind) /\ ~Encodes
         /\ kind.codec = "enc" => ~Decodes
BY FiltersAssumption DEF PostInv, PostTypes, KindType, Encodes, Decodes

\* The parameters of the frame of a kind, for a client, and the frame.
DecParams(kind, asker, sdr) ==
  [Post!NoParams EXCEPT !.list = list, !.format = asker.format,
     !.shape = asker.shape, !.sdr = sdr, !.grain = kind.grain, !.other = asker.other]
DecFrame(kind, asker, sdr) ==
  [Post!NoFrame EXCEPT !.n = count + 1, !.fmt = kind.fmt, !.hdr = kind.hdr,
     !.replica = kind.replica, !.params = DecParams(kind, asker, sdr)]

\* The frame of the codec's filter: without marks of any filter yet.
LEMMA NewFrame ==
  ASSUME NEW n \in Nat, NEW fmt \in Formats, NEW hdr \in BOOLEAN, NEW replica \in BOOLEAN,
         NEW p \in ParamsType
  PROVE  [Post!NoFrame EXCEPT !.n = n, !.fmt = fmt, !.hdr = hdr, !.replica = replica,
                              !.params = p] \in FrameType
BY EmptyFrame DEF FrameType

FrameOf(f, p, kind, asker, sdr) ==
         /\ p \in ParamsType /\ f \in FrameType
         /\ p.list = list /\ p.format = asker.format /\ p.shape = asker.shape
            /\ p.grain = kind.grain
         /\ p.num = 0 /\ p.sdr = sdr
         /\ f.n = count + 1 /\ f.fmt = kind.fmt /\ f.hdr = kind.hdr /\ f.replica = kind.replica
         /\ f.params = p /\ f.by = {} /\ f.due = FALSE /\ f.spoiled = FALSE /\ f.sei = <<0, "none">>

\* What a decoder's filter hands on, field by field.
LEMMA DecFrameIs ==
  ASSUME PostInv, NEW kind \in KindType, NEW asker \in Clients, NEW sdr \in BOOLEAN
  PROVE  FrameOf(DecFrame(kind, asker, sdr), DecParams(kind, asker, sdr), kind, asker, sdr)
<1> DEFINE p == DecParams(kind, asker, sdr)
           f == DecFrame(kind, asker, sdr)
<1>1. asker \in [format : Formats, shape : BOOLEAN, sdr : BOOLEAN, other : BOOLEAN]
  BY FiltersAssumption
<1>2. list \in BOOLEAN /\ count \in Nat
  BY DEF PostInv, PostFlags, Flags, PostFrame
<1>3. p \in ParamsType
  <2>1. asker.format \in Formats /\ asker.shape \in BOOLEAN /\ asker.other \in BOOLEAN
    BY <1>1
  <2>2. kind.grain \in {"none", "on", "off"}
    BY DEF KindType
  <2> QED
    BY <1>2, <2>1, <2>2, EmptyFrame DEF DecParams, ParamsType
<1>4. /\ p.list = list /\ p.format = asker.format /\ p.shape = asker.shape /\ p.grain = kind.grain
      /\ p.sdr = sdr /\ p.num = 0
  BY EmptyFrame DEF DecParams, ParamsType
<1>5. f \in FrameType
  <2>1. count + 1 \in Nat /\ kind.fmt \in Formats /\ kind.hdr \in BOOLEAN
        /\ kind.replica \in BOOLEAN
    BY <1>2 DEF KindType
  <2> QED BY <1>3, <2>1, NewFrame DEF DecFrame
<1>6. /\ f.n = count + 1 /\ f.fmt = kind.fmt /\ f.hdr = kind.hdr /\ f.replica = kind.replica
      /\ f.params = p /\ f.by = {} /\ f.due = FALSE /\ f.spoiled = FALSE /\ f.sei = <<0, "none">>
  BY EmptyFrame DEF DecFrame, FrameType
<1> QED BY <1>3, <1>4, <1>5, <1>6 DEF FrameOf

\* The codec's filter hands on a picture, or what a header gives.
LEMMA PostDecode == ASSUME PostInv, Post!Decode PROVE PostInv'
<1> DEFINE sdr(asker) == asker.sdr /\ "sdr" \in libs
<1>1. PICK kind \in stream, asker \in Clients :
        /\ kind.codec = "dec" /\ frame' = DecFrame(kind, asker, sdr(asker))
        /\ plain' = (plain /\ asker.format = "none" /\ ~asker.shape)
  BY DEF Post!Decode, DecFrame, DecParams, Post!None
<1> DEFINE p == DecParams(kind, asker, sdr(asker))
<1>2. /\ kind \in KindType /\ IsPicture(kind) /\ Decodes /\ ~Encodes
  BY <1>1, StreamKinds DEF Decodes
<1>3. sdr(asker) \in BOOLEAN
  BY Zenon
<1> HIDE DEF sdr
<1>4. plain' \in BOOLEAN /\ (plain' => plain /\ asker.format = "none" /\ ~asker.shape)
  BY <1>1, Zenon
<1>5. /\ p \in ParamsType /\ frame' \in FrameType
      /\ p.list = list /\ p.format = asker.format /\ p.shape = asker.shape /\ p.grain = kind.grain
      /\ p.num = 0
      /\ frame'.n = count + 1 /\ frame'.fmt = kind.fmt /\ frame'.hdr = kind.hdr
      /\ frame'.replica = kind.replica /\ frame'.params = p /\ frame'.by = {} /\ frame'.due = FALSE
      /\ frame'.spoiled = FALSE /\ frame'.sei = <<0, "none">>
  <2>1. FrameOf(frame', p, kind, asker, sdr(asker))
    BY <1>1, <1>2, <1>3, DecFrameIs
  <2> QED BY <2>1 DEF FrameOf
<1>6. /\ at = "none" /\ at' = "control" /\ list' = FALSE /\ count' = count + 1 /\ up = "running"
      /\ UNCHANGED <<stream, libs, up, withStats, told, asked, restarted, unsaid, mId, hdrLib, grainLib,
                     mUseHDR2SDR, mUseFilmGrain, mHasFilmGrain, mUseCSC, mUsedFilterNum>>
      /\ UNCHANGED <<mCSC, mFormat, shape, loaded, mInfo, mIsConfigured, mIsEnabled,
                     mStatInfo, mHasStatInfo, mDynamicInfo, mHasDynamicInfo>>
  BY DEF Post!Decode, Post!None, Post!controlVars, Post!filterVars, Post!statVars
<1>7. frame = Post!NoFrame
  BY <1>6 DEF PostInv, PostFrame
<1> HIDE DEF p
<1>8. PostFlags'
  <2>1. list' \in BOOLEAN
    BY <1>6
  <2>2. Flags(list, withStats, mId, mUseHDR2SDR, mUseFilmGrain, mHasFilmGrain)'
    BY <1>6, <2>1 DEF PostInv, PostFlags, Flags
  <2>3. Flags(mUseCSC, mCSC, shape, mIsConfigured, mIsEnabled, mHasStatInfo)'
    BY <1>6 DEF PostInv, PostFlags, Flags
  <2>4. Flags(mHasDynamicInfo, plain, asked, restarted, unsaid, TRUE)'
    BY <1>4, <1>6 DEF PostInv, PostFlags, Flags
  <2> QED BY <2>2, <2>3, <2>4 DEF PostFlags
<1>9. PostFrame'
  BY <1>5, <1>6 DEF PostInv, PostFrame
<1>10. PostTypes'
  BY <1>6 DEF PostInv, PostTypes, PostFrame
<1>11. PostList'
  BY <1>2, <1>5, <1>6 DEF PostInv, PostList, PostFlags, Flags, Decodes, Encodes
<1>12. PostHdr'
  BY <1>2, <1>5, <1>6 DEF PostInv, PostHdr, IsPicture, KindType, Post!TenBits, Behind,
     Post!HdrConverted, PostFlags, Flags
<1>13. PostGrain'
  BY <1>2, <1>4, <1>5, <1>6 DEF PostInv, PostGrain, IsPicture, KindType, Plain, Behind
<1>14. PostTold'
  BY <1>2, <1>4, <1>5, <1>6, <1>7, EmptyFrame DEF PostInv, PostTold, Behind, Told, Post!ToldNow,
     Encodes
<1>15. PostMeta'
  BY <1>2, <1>5, <1>6, <1>7 DEF PostInv, PostMeta, Post!MetadataOwn, Post!None, PostList, Encodes,
     Decodes
<1> QED BY <1>8, <1>9, <1>10, <1>11, <1>12, <1>13, <1>14, <1>15 DEF PostInv

EncParamsOf(stat, dyn, other) == [Post!NoParams EXCEPT !.stat = stat, !.dyn = dyn, !.other = other]
EncFrame(replica, p) == [Post!NoFrame EXCEPT !.n = count + 1, !.replica = replica, !.params = p]

EncFrameOf(f, p, replica, stat, dyn, other) ==
  /\ p \in ParamsType /\ f \in FrameType
  /\ p.stat = stat /\ p.dyn = dyn /\ p.other = other /\ p.num = 0 /\ p.grain = "none"
     /\ p.sdr = FALSE
  /\ p.shape = FALSE
  /\ f.n = count + 1 /\ f.hdr = FALSE /\ f.replica = replica
  /\ f.params = p /\ f.by = {} /\ f.due = FALSE /\ f.spoiled = FALSE /\ f.sei = <<0, "none">>

\* What an encoder's first filter is handed, field by field.
LEMMA EncFrameIs ==
  ASSUME PostInv, NEW replica \in BOOLEAN, NEW stat \in Nat, NEW dyn \in {"none", "client"},
         NEW other \in BOOLEAN
  PROVE  EncFrameOf(EncFrame(replica, EncParamsOf(stat, dyn, other)), EncParamsOf(stat, dyn, other),
                    replica, stat, dyn, other)
<1> DEFINE p == EncParamsOf(stat, dyn, other)
           f == EncFrame(replica, p)
<1>1. count + 1 \in Nat
  BY DEF PostInv, PostFrame
<1>2. p \in ParamsType
  BY EmptyFrame DEF EncParamsOf, ParamsType
<1>3. /\ p.stat = stat /\ p.dyn = dyn /\ p.other = other /\ p.num = 0 /\ p.grain = "none"
      /\ p.sdr = FALSE /\ p.shape = FALSE
  BY EmptyFrame DEF EncParamsOf, ParamsType
<1> HIDE DEF p
<1>4. f \in FrameType
  BY <1>1, <1>2, EmptyFrame DEF EncFrame, FrameType
<1>5. /\ f.n = count + 1 /\ f.hdr = FALSE /\ f.replica = replica /\ f.params = p /\ f.by = {}
      /\ f.due = FALSE /\ f.spoiled = FALSE /\ f.sei = <<0, "none">>
  BY EmptyFrame DEF EncFrame, FrameType
<1> QED BY <1>2, <1>3, <1>4, <1>5 DEF EncFrameOf, p

\* An encoder's frame comes, with the metadata of the client.
LEMMA PostEncode == ASSUME PostInv, Post!Encode PROVE PostInv'
<1> DEFINE stat == IF withStats THEN count + 1 ELSE 0
<1>1. PICK kind \in stream, dyn \in {"none", "client"}, other \in BOOLEAN :
        /\ kind.codec = "enc" /\ (list => other) /\ (withStats \/ dyn = "none")
        /\ frame' = EncFrame(kind.replica, EncParamsOf(stat, dyn, other))
  BY DEF Post!Encode, EncFrame, EncParamsOf, Post!None
<1> DEFINE p == EncParamsOf(stat, dyn, other)
<1>2. kind \in KindType /\ ~Decodes /\ Encodes
  BY <1>1, StreamKinds DEF Encodes
<1>3. stat \in Nat /\ (withStats => stat # 0) /\ (~withStats => stat = 0)
  BY DEF PostInv, PostFrame
<1> HIDE DEF stat
<1>4. EncFrameOf(frame', p, kind.replica, stat, dyn, other)
  BY <1>1, <1>2, <1>3, EncFrameIs DEF KindType
<1> HIDE DEF p
<1>5. /\ p \in ParamsType /\ frame' \in FrameType
      /\ p.stat = stat /\ p.dyn = dyn /\ p.other = other /\ p.num = 0 /\ p.grain = "none"
         /\ p.sdr = FALSE
      /\ p.shape = FALSE
      /\ frame'.n = count + 1 /\ frame'.hdr = FALSE /\ frame'.replica = kind.replica
      /\ frame'.params = p /\ frame'.by = {} /\ frame'.due = FALSE /\ frame'.spoiled = FALSE
      /\ frame'.sei = <<0, "none">>
  BY <1>4 DEF EncFrameOf
<1>6. /\ at = "none" /\ at' = "hdr10plus" /\ list' = FALSE /\ count' = count + 1 /\ up = "running"
      /\ UNCHANGED <<stream, libs, up, withStats, told, plain, asked, restarted, unsaid, mId, hdrLib,
                     grainLib, mUseHDR2SDR, mUseFilmGrain, mHasFilmGrain, mUseCSC, mUsedFilterNum>>
      /\ UNCHANGED <<mCSC, mFormat, shape, loaded, mInfo, mIsConfigured, mIsEnabled,
                     mStatInfo, mHasStatInfo, mDynamicInfo, mHasDynamicInfo>>
  BY DEF Post!Encode, Post!None, Post!controlVars, Post!filterVars, Post!statVars, Post!historyVars
<1>7. frame = Post!NoFrame
  BY <1>6 DEF PostInv, PostFrame
<1>8. list => p # Post!NoParams
  BY <1>1, <1>5, EmptyFrame
<1>9. PostFlags'
  <2>1. list' \in BOOLEAN
    BY <1>6
  <2> QED BY <1>6, <2>1 DEF PostInv, PostFlags, Flags
<1>10. PostFrame'
  BY <1>5, <1>6 DEF PostInv, PostFrame
<1>11. PostTypes'
  BY <1>6 DEF PostInv, PostTypes, PostFrame
<1>12. PostList'
  BY <1>2, <1>5, <1>6 DEF PostInv, PostList, PostFlags, Flags, Decodes, Encodes
<1>13. PostHdr'
  BY <1>2, <1>5, <1>6 DEF PostInv, PostHdr, Behind, Post!HdrConverted
<1>14. PostGrain'
  BY <1>2, <1>5, <1>6 DEF PostInv, PostGrain, Behind, Grains, Plain
<1>15. PostTold'
  BY <1>2, <1>5, <1>6, <1>7, EmptyFrame DEF PostInv, PostTold, Behind, Told, Post!ToldNow, Decodes,
     Encodes
<1>16. PostMeta'
  BY <1>2, <1>3, <1>5, <1>6, <1>7, <1>8 DEF PostInv, PostMeta, Post!MetadataOwn, Post!None, Decodes,
     PostFlags, Flags
<1> QED BY <1>9, <1>10, <1>11, <1>12, <1>13, <1>14, <1>15, <1>16 DEF PostInv

\* The statistics go with the frame that they were made of.
LEMMA PostStatEnc == ASSUME PostInv, Post!StatEnc PROVE PostInv'
<1> DEFINE p == frame.params
           stat == IF p.stat # 0 THEN p.stat ELSE mStatInfo
           dyn == IF p.dyn # "none" THEN p.dyn ELSE mDynamicInfo
           hasDyn == IF Post!Empty(p) THEN mHasDynamicInfo ELSE p.dyn # "none"
           has == Post!HasStat(p, mHasStatInfo)
           seen == [frame EXCEPT !.sei = <<stat, IF hasDyn THEN dyn ELSE "none">>]
<1>1. /\ at = "hdr10plus" /\ mStatInfo' = stat /\ mHasStatInfo' = has /\ mDynamicInfo' = dyn
      /\ mHasDynamicInfo' = hasDyn
      /\ UNCHANGED <<stream, libs, up, withStats, list, count, told, plain, asked, restarted, mId, hdrLib,
                     grainLib, mUseHDR2SDR, mUseFilmGrain, mHasFilmGrain, mUseCSC, mUsedFilterNum>>
      /\ UNCHANGED <<mCSC, mFormat, shape, loaded, mInfo, mIsConfigured, mIsEnabled>>
  BY DEF Post!StatEnc, Post!None, Post!controlVars, Post!filterVars
<1>2. \/ at' = "component" /\ frame' = frame /\ unsaid' = unsaid
      \/ has /\ ~frame.replica /\ at' = "component" /\ frame' = seen /\ unsaid' = unsaid
      \/ Post!Lose
  BY DEF Post!StatEnc, Post!Goes, Post!None
<1>3. /\ p \in ParamsType /\ frame \in FrameType /\ frame.n <= count /\ count \in Nat
      /\ up = "running" /\ frame.sei = <<0, "none">> /\ frame.due = FALSE /\ p.num = 0
      /\ Encodes /\ ~Decodes /\ frame.by = {}
      /\ ~p.sdr /\ p.grain = "none"
  <2>1. Encodes /\ ~Decodes
    BY <1>1, StreamKinds DEF PostInv, PostList, Encodes
  <2> QED BY <1>1, <2>1 DEF PostInv, PostFrame, FrameType, PostMeta, PostHdr, PostTold, PostList,
             Behind
<1>4. has \in BOOLEAN /\ hasDyn \in BOOLEAN
  BY <1>3 DEF PostInv, PostFlags, Flags, Post!HasStat, Post!Empty
<1>5. stat \in Nat /\ dyn \in {"none", "client"}
  BY <1>3 DEF PostInv, PostTypes, ParamsType
<1>6. has => p.stat # 0 /\ stat = p.stat /\ p # Post!NoParams
  BY <1>1, <1>3, EmptyFrame DEF PostInv, PostMeta, PostList, Post!HasStat, Post!Empty, PostFlags,
     Flags
<1>7. p # Post!NoParams => (IF hasDyn THEN dyn ELSE "none") = p.dyn
  BY <1>3 DEF ParamsType, Post!Empty
<1>8. ~withStats => ~has
  BY <1>1, <1>3, <1>6 DEF PostInv, PostMeta
<1> DEFINE own == <<stat, IF hasDyn THEN dyn ELSE "none">>
<1>9. has => own = <<p.stat, p.dyn>>
  BY <1>6, <1>7
<1>10. own \in Nat \X {"none", "client"}
  BY <1>5
<1> HIDE DEF stat, dyn, hasDyn, has, own
<1>11. seen = [frame EXCEPT !.sei = own]
  BY DEF own
<1> HIDE DEF seen
<1>12. /\ seen \in FrameType /\ seen.sei = own /\ seen.params = p /\ seen.n = frame.n
          /\ seen.hdr = frame.hdr
       /\ seen.replica = frame.replica /\ seen.due = frame.due /\ seen.by = frame.by
          /\ seen.fmt = frame.fmt
       /\ seen.applied = frame.applied /\ seen.spoiled = frame.spoiled
  BY <1>3, <1>10, <1>11 DEF FrameType
<1>13. \/ /\ at' = "component" /\ unsaid' = unsaid /\ frame' \in FrameType /\ frame'.params = p
          /\ frame'.n = frame.n /\ frame'.hdr = frame.hdr /\ frame'.replica = frame.replica
          /\ frame'.due = frame.due /\ frame'.by = frame.by
          /\ frame'.sei = <<0, "none">> \/ (has /\ ~frame.replica /\ frame'.sei = own)
       \/ Post!Lose
  BY <1>2, <1>3, <1>12
<1>14. PostFlags'
  <2>1. unsaid' \in BOOLEAN
    BY <1>13, Lost DEF PostInv, PostFlags, Flags
  <2>2. Flags(list, withStats, mId, mUseHDR2SDR, mUseFilmGrain, mHasFilmGrain)'
    BY <1>1 DEF PostInv, PostFlags, Flags
  <2>3. Flags(mUseCSC, mCSC, shape, mIsConfigured, mIsEnabled, mHasStatInfo)'
    BY <1>1, <1>4 DEF PostInv, PostFlags, Flags
  <2>4. Flags(mHasDynamicInfo, plain, asked, restarted, unsaid, TRUE)'
    BY <1>1, <1>4, <2>1 DEF PostInv, PostFlags, Flags
  <2> QED BY <2>2, <2>3, <2>4 DEF PostFlags
<1>15. PostFrame'
  BY <1>1, <1>3, <1>13, EmptyFrame DEF PostInv, PostFrame, Post!Lose, Post!None
<1>16. PostTypes'
  BY <1>1, <1>5 DEF PostInv, PostTypes
<1>17. PostList'
  BY <1>1, <1>3, <1>13, EmptyFrame DEF PostInv, PostList, Post!Lose, Post!None, Decodes, Encodes
<1>18. PostHdr'
  BY <1>1, <1>3, <1>13, EmptyFrame DEF PostInv, PostHdr, Behind, Post!HdrConverted, Post!Lose,
     Post!None
<1>19. PostGrain'
  BY <1>1, <1>3, <1>13, EmptyFrame DEF PostInv, PostGrain, Behind, Grains, Plain, Post!Lose,
     Post!None
<1>20. PostTold'
  BY <1>1, <1>3, <1>13, Lost, EmptyFrame DEF PostInv, PostTold, Behind, Told, Post!ToldNow, Decodes,
     Encodes, Post!Lose, Post!None
<1>21. PostMeta'
  BY <1>1, <1>3, <1>8, <1>9, <1>13, EmptyFrame DEF PostInv, PostMeta, Post!MetadataOwn, Decodes,
     Post!Lose, Post!None
<1> QED BY <1>14, <1>15, <1>16, <1>17, <1>18, <1>19, <1>20, <1>21 DEF PostInv

\* What holds of a frame at one of the filters behind a decoder.
LEMMA DecSide ==
  ASSUME PostInv, at \in {"control", "csc", "grain", "hdr2sdr"}
  PROVE  /\ Decodes /\ ~Encodes /\ up = "running" /\ frame \in FrameType
            /\ frame.params \in ParamsType
         /\ frame.n <= count /\ count \in Nat /\ frame.sei = <<0, "none">> /\ frame.due = FALSE
         /\ ~mHasStatInfo
<1>1. Decodes
  BY DEF PostInv, PostList
<1>2. ~Encodes
  BY <1>1, StreamKinds DEF Decodes
<1> QED BY <1>1, <1>2 DEF PostInv, PostFrame, FrameType, PostHdr, PostMeta

\* The converter makes a picture of the format it was asked for, or passes it by.
LEMMA PostCsc == ASSUME PostInv, Post!Csc PROVE PostInv'
<1> DEFINE p == frame.params
           to == IF p.format \in {"none", "any"} THEN mFormat ELSE p.format
           shape2 == shape \/ p.shape
           fmt == Post!CscFormat(frame.fmt, to)
           kept == frame.replica \/ (~shape2 /\ fmt = frame.fmt)
           made == [frame EXCEPT !.fmt = fmt, !.by = @ \cup {"csc"}]
<1>1. /\ at = "csc" /\ at' = "grain" /\ mFormat' = to /\ shape' = shape2
      /\ UNCHANGED <<stream, libs, up, withStats, list, count, told, plain, asked, restarted, unsaid, mId,
                     hdrLib, grainLib, mUseHDR2SDR, mUseFilmGrain, mHasFilmGrain, mUseCSC,
                     mUsedFilterNum>>
      /\ UNCHANGED <<mCSC, loaded, mInfo, mIsConfigured, mIsEnabled, mStatInfo, mHasStatInfo,
                     mDynamicInfo, mHasDynamicInfo>>
  BY DEF Post!Csc, Post!Goes, Post!None, Post!controlVars, Post!statVars, Post!historyVars
<1>2. frame' = IF kept THEN frame ELSE made
  BY DEF Post!Csc, Post!Goes, Post!None
<1>3. /\ Decodes /\ ~Encodes /\ up = "running" /\ frame \in FrameType /\ p \in ParamsType
      /\ frame.n <= count /\ count \in Nat /\ frame.sei = <<0, "none">> /\ frame.due = FALSE
      /\ ~mHasStatInfo
  BY <1>1, DecSide
<1>4. /\ to \in Formats /\ fmt \in Formats
  BY <1>3, FiltersAssumption DEF PostInv, PostTypes, FrameType, ParamsType, Post!CscFormat,
     Post!None
<1>5. shape2 \in BOOLEAN /\ (plain => ~shape2)
  <2>1. shape2 \in BOOLEAN
    BY Zenon
  <2> QED BY <2>1 DEF PostInv, PostGrain
<1>6. plain => to \in Plain /\ (to # "none" => mUseCSC)
  BY <1>1 DEF PostInv, PostGrain, PostTold, Plain
<1>7. frame.hdr /\ mUseHDR2SDR => ~frame.replica /\ fmt = "P010M"
  BY <1>1 DEF PostInv, PostHdr, Post!CscFormat, Post!None
<1>8. plain => fmt = (IF to = "none" THEN frame.fmt ELSE to)
  BY <1>6 DEF Plain, Post!CscFormat, Post!None
<1>9. Grains => Post!Supported(fmt) /\ ~frame.replica
  BY <1>1, <1>6, <1>8 DEF Grains, Plain, PostInv, PostGrain, Post!Supported
<1>10. /\ made \in FrameType /\ made.fmt = fmt /\ made.by = frame.by \cup {"csc"} /\ made.params = p
       /\ made.n = frame.n /\ made.hdr = frame.hdr /\ made.replica = frame.replica
          /\ made.due = frame.due
       /\ made.sei = frame.sei /\ made.applied = frame.applied /\ made.spoiled = frame.spoiled
  BY <1>3, <1>4 DEF FrameType
<1>11. plain /\ ~kept => mUseCSC
  BY <1>5, <1>6, <1>8
<1> HIDE DEF to, shape2, fmt, made
<1>12. /\ frame' \in FrameType /\ frame'.params = p /\ frame'.n = frame.n /\ frame'.hdr = frame.hdr
       /\ frame'.replica = frame.replica /\ frame'.due = frame.due /\ frame'.sei = frame.sei
       /\ frame'.applied = frame.applied /\ frame'.spoiled = frame.spoiled
  BY <1>2, <1>3, <1>10
<1>13. /\ ~frame.replica => frame'.fmt = fmt
       /\ frame'.by = frame.by \/ (frame'.by = frame.by \cup {"csc"} /\ ~kept)
  BY <1>2, <1>10
<1> HIDE DEF kept
<1>14. PostFlags'
  <2>1. Flags(list, withStats, mId, mUseHDR2SDR, mUseFilmGrain, mHasFilmGrain)'
    BY <1>1 DEF PostInv, PostFlags, Flags
  <2>2. Flags(mUseCSC, mCSC, shape, mIsConfigured, mIsEnabled, mHasStatInfo)'
    BY <1>1, <1>5 DEF PostInv, PostFlags, Flags
  <2>3. Flags(mHasDynamicInfo, plain, asked, restarted, unsaid, TRUE)'
    BY <1>1 DEF PostInv, PostFlags, Flags
  <2> QED BY <2>1, <2>2, <2>3 DEF PostFlags
<1>15. PostFrame'
  BY <1>1, <1>3, <1>12 DEF PostInv, PostFrame
<1>16. PostTypes'
  BY <1>1, <1>4 DEF PostInv, PostTypes
<1>17. PostList'
  BY <1>1, <1>3, <1>12 DEF PostInv, PostList, Decodes, Encodes
<1>18. PostHdr'
  BY <1>1, <1>3, <1>7, <1>12, <1>13 DEF PostInv, PostHdr, Behind, Post!HdrConverted
<1>19. PostGrain'
  BY <1>1, <1>3, <1>5, <1>6, <1>9, <1>12, <1>13 DEF PostInv, PostGrain, Behind, Grains, Plain
<1>20. PostTold'
  BY <1>1, <1>3, <1>6, <1>11, <1>12, <1>13 DEF PostInv, PostTold, Behind, Told, Post!ToldNow,
     Decodes, Encodes
<1>21. PostMeta'
  BY <1>1, <1>3, <1>12 DEF PostInv, PostMeta, Post!MetadataOwn, Decodes, Post!None
<1> QED BY <1>14, <1>15, <1>16, <1>17, <1>18, <1>19, <1>20, <1>21 DEF PostInv

\* The grain filter applies the grain to a format it supports.
LEMMA PostGrainStep == ASSUME PostInv, Post!Grain PROVE PostInv'
<1> DEFINE p == frame.params
           info == IF p.grain = "none" THEN mInfo ELSE [of |-> frame.n, on |-> p.grain = "on"]
           idle == \/ "grain" \notin loaded \/ frame.replica
                   \/ ~info.on \/ ~Post!Supported(frame.fmt)
           grained == [frame EXCEPT !.by = @ \cup {"grain"}, !.applied = info.of,
                                    !.fmt = IF @ = "YV12M" THEN "YV12" ELSE @]
           failed == [frame EXCEPT !.spoiled = TRUE]
<1>1. /\ at = "grain" /\ at' = "hdr2sdr" /\ mInfo' = info
      /\ UNCHANGED <<stream, libs, up, withStats, list, count, told, plain, asked, restarted, unsaid, mId,
                     hdrLib, grainLib, mUseHDR2SDR, mUseFilmGrain, mHasFilmGrain, mUseCSC,
                     mUsedFilterNum>>
      /\ UNCHANGED <<mCSC, mFormat, shape, loaded, mIsEnabled, mStatInfo, mHasStatInfo,
                     mDynamicInfo, mHasDynamicInfo>>
  BY DEF Post!Grain, Post!Goes, Post!None, Post!controlVars, Post!statVars, Post!historyVars
<1>2. \/ idle /\ frame' = frame /\ mIsConfigured' = mIsConfigured
      \/ ~idle /\ frame' = grained /\ mIsConfigured' = TRUE
      \/ ~idle /\ frame' = failed /\ mIsConfigured' = FALSE
  BY DEF Post!Grain, Post!Goes, Post!None
<1>3. /\ Decodes /\ ~Encodes /\ up = "running" /\ frame \in FrameType /\ p \in ParamsType
      /\ frame.n <= count /\ count \in Nat /\ frame.sei = <<0, "none">> /\ frame.due = FALSE
      /\ ~mHasStatInfo
  BY <1>1, DecSide
<1>4. /\ info = [of |-> info.of, on |-> info.on] /\ info.of \in 0..count /\ info.on \in BOOLEAN
      /\ info.of \in Nat
      /\ p.grain = "on" => info.on /\ info.of = frame.n
  <2>1. CASE p.grain = "none"
    BY <2>1 DEF PostInv, PostTypes
  <2>2. CASE p.grain # "none"
    <3>1. info.of = frame.n /\ info.on = (p.grain = "on")
      BY <2>2
    <3>2. info.on \in BOOLEAN
      BY <3>1, Zenon
    <3>3. frame.n \in 0..count
      BY <1>3 DEF FrameType
    <3>4. info = [of |-> info.of, on |-> info.on]
      BY <2>2
    <3> QED BY <3>1, <3>2, <3>3, <3>4
  <2> QED BY <2>1, <2>2
<1>5. ~restarted /\ "grain" \in libs /\ info.on => mUseFilmGrain
  BY <1>1 DEF PostInv, PostTold
<1>6. Grains => ~idle
  BY <1>1, <1>3, <1>4 DEF Grains, PostInv, PostGrain, PostTypes
<1>7. ~idle => "grain" \in libs /\ info.on /\ "grain" \in loaded
  BY DEF PostInv, PostTypes
<1>8. ~idle /\ frame.fmt = "P010M" => grained.fmt = "P010M"
  BY <1>3 DEF FrameType
<1> HIDE DEF info
<1>9. /\ grained \in FrameType /\ grained.by = frame.by \cup {"grain"} /\ grained.params = p
      /\ grained.n = frame.n /\ grained.hdr = frame.hdr /\ grained.replica = frame.replica
      /\ grained.due = frame.due /\ grained.sei = frame.sei /\ grained.applied = info.of
      /\ grained.spoiled = frame.spoiled
  BY <1>3, <1>4, FiltersAssumption DEF FrameType
<1>10. /\ failed \in FrameType /\ failed.by = frame.by /\ failed.params = p
       /\ failed.n = frame.n /\ failed.hdr = frame.hdr /\ failed.replica = frame.replica
       /\ failed.due = frame.due /\ failed.sei = frame.sei /\ failed.applied = frame.applied
       /\ failed.fmt = frame.fmt /\ failed.spoiled = TRUE
  BY <1>3 DEF FrameType
<1> HIDE DEF grained, failed, idle
<1>11. /\ frame' \in FrameType /\ frame'.params = p /\ frame'.n = frame.n /\ frame'.hdr = frame.hdr
       /\ frame'.replica = frame.replica /\ frame'.due = frame.due /\ frame'.sei = frame.sei
       /\ frame'.by = frame.by \/ (frame'.by = frame.by \cup {"grain"} /\ ~idle)
       /\ frame.fmt = "P010M" => frame'.fmt = "P010M"
       /\ ~idle => frame'.applied = info.of \/ frame'.spoiled
  BY <1>2, <1>3, <1>8, <1>9, <1>10
<1>12. mIsConfigured' \in BOOLEAN /\ (mIsConfigured' => "grain" \in loaded)
  <2>1. mIsConfigured \in BOOLEAN /\ (mIsConfigured => "grain" \in loaded)
    BY DEF PostInv, PostFlags, Flags, PostTypes
  <2>2. \/ mIsConfigured' = mIsConfigured
        \/ mIsConfigured' = TRUE /\ "grain" \in loaded
        \/ mIsConfigured' = FALSE
    BY <1>2, <1>7
  <2>3. CASE mIsConfigured' = mIsConfigured
    BY <2>1, <2>3
  <2>4. CASE mIsConfigured' = TRUE /\ "grain" \in loaded
    BY <2>4
  <2>5. CASE mIsConfigured' = FALSE
    BY <2>5
  <2> QED BY <2>2, <2>3, <2>4, <2>5
<1>13. PostFlags'
  <2>1. Flags(list, withStats, mId, mUseHDR2SDR, mUseFilmGrain, mHasFilmGrain)'
    BY <1>1 DEF PostInv, PostFlags, Flags
  <2>2. Flags(mUseCSC, mCSC, shape, mIsConfigured, mIsEnabled, mHasStatInfo)'
    BY <1>1, <1>12 DEF PostInv, PostFlags, Flags
  <2>3. Flags(mHasDynamicInfo, plain, asked, restarted, unsaid, TRUE)'
    BY <1>1 DEF PostInv, PostFlags, Flags
  <2> QED BY <2>1, <2>2, <2>3 DEF PostFlags
<1>14. PostFrame'
  BY <1>1, <1>3, <1>11 DEF PostInv, PostFrame
<1>15. PostTypes'
  BY <1>1, <1>4, <1>12 DEF PostInv, PostTypes
<1>16. PostList'
  BY <1>1, <1>3, <1>11 DEF PostInv, PostList, Decodes, Encodes
<1>17. PostHdr'
  BY <1>1, <1>3, <1>11 DEF PostInv, PostHdr, Behind, Post!HdrConverted
<1>18. PostGrain'
  BY <1>1, <1>3, <1>4, <1>6, <1>11 DEF PostInv, PostGrain, Behind, Grains, Plain
<1>19. PostTold'
  BY <1>1, <1>3, <1>5, <1>7, <1>11 DEF PostInv, PostTold, Behind, Told, Post!ToldNow, Decodes,
     Encodes
<1>20. PostMeta'
  BY <1>1, <1>3, <1>11 DEF PostInv, PostMeta, Post!MetadataOwn, Decodes, Post!None
<1> QED BY <1>13, <1>14, <1>15, <1>16, <1>17, <1>18, <1>19, <1>20 DEF PostInv

\* The HDR to SDR filter converts a picture of ten bits, or fails.
LEMMA PostHdr2Sdr == ASSUME PostInv, Post!Hdr2Sdr PROVE PostInv'
<1> DEFINE p == frame.params
           converts == mIsEnabled \/ p.sdr
           idle == "sdr" \notin loaded \/ frame.replica \/ ~converts \/ ~Post!IsHdr10(frame)
           due == (asked \/ p.sdr) /\ "sdr" \in loaded
           now == [frame EXCEPT !.due = due]
           done == [now EXCEPT !.by = @ \cup {"sdr"}, !.fmt = "NV12M"]
           converted == [done EXCEPT !.hdr = FALSE]
           failed == [done EXCEPT !.spoiled = TRUE]
<1>1. /\ at = "hdr2sdr" /\ at' = "component" /\ mIsEnabled' = converts /\ asked' = (asked \/ p.sdr)
      /\ UNCHANGED <<stream, libs, up, withStats, list, count, told, plain, restarted, unsaid, mId,
                     hdrLib, grainLib, mUseHDR2SDR, mUseFilmGrain, mHasFilmGrain, mUseCSC,
                     mUsedFilterNum>>
      /\ UNCHANGED <<mCSC, mFormat, shape, loaded, mInfo, mIsConfigured, mStatInfo, mHasStatInfo,
                     mDynamicInfo, mHasDynamicInfo>>
  BY DEF Post!Hdr2Sdr, Post!Goes, Post!None, Post!controlVars, Post!statVars
<1>2. (idle /\ frame' = now) \/ frame' = converted \/ frame' = failed
  BY DEF Post!Hdr2Sdr, Post!Goes, Post!None
<1>3. /\ Decodes /\ ~Encodes /\ up = "running" /\ frame \in FrameType /\ p \in ParamsType
      /\ frame.n <= count /\ count \in Nat /\ frame.sei = <<0, "none">> /\ frame.due = FALSE
      /\ ~mHasStatInfo
  BY <1>1, DecSide
<1>4. converts \in BOOLEAN /\ due \in BOOLEAN /\ asked' \in BOOLEAN
  BY <1>1, Zenon
<1>5. asked' => converts /\ mUseHDR2SDR
  BY <1>1 DEF PostInv, PostHdr, Behind
<1>6. due => converts /\ mUseHDR2SDR /\ "sdr" \in loaded
  BY <1>1 DEF PostInv, PostHdr, Behind
<1>7. ~(idle /\ due /\ frame.hdr)
  BY <1>1, <1>6 DEF PostInv, PostHdr, Post!IsHdr10
<1> HIDE DEF converts, idle, due
<1>8. /\ now \in FrameType /\ now.due = due /\ now.by = frame.by /\ now.params = p
         /\ now.n = frame.n
      /\ now.hdr = frame.hdr /\ now.replica = frame.replica /\ now.sei = frame.sei
      /\ now.applied = frame.applied /\ now.spoiled = frame.spoiled
  BY <1>3, <1>4 DEF FrameType
<1> HIDE DEF now
<1>9. /\ done \in FrameType /\ done.due = due /\ done.by = frame.by \cup {"sdr"} /\ done.params = p
      /\ done.n = frame.n /\ done.hdr = frame.hdr /\ done.replica = frame.replica
      /\ done.sei = frame.sei /\ done.applied = frame.applied /\ done.spoiled = frame.spoiled
  BY <1>8, FiltersAssumption DEF FrameType
<1> HIDE DEF done
<1>10. /\ converted \in FrameType /\ converted.due = due /\ converted.by = frame.by \cup {"sdr"}
       /\ converted.params = p /\ converted.n = frame.n /\ converted.hdr = FALSE
       /\ converted.replica = frame.replica /\ converted.sei = frame.sei
       /\ converted.applied = frame.applied /\ converted.spoiled = frame.spoiled
  BY <1>9 DEF FrameType
<1>11. /\ failed \in FrameType /\ failed.due = due /\ failed.by = frame.by \cup {"sdr"}
       /\ failed.params = p /\ failed.n = frame.n /\ failed.hdr = frame.hdr
       /\ failed.replica = frame.replica /\ failed.sei = frame.sei
       /\ failed.applied = frame.applied /\ failed.spoiled = TRUE
  BY <1>9 DEF FrameType
<1> HIDE DEF converted, failed
<1>12. /\ frame' \in FrameType /\ frame'.params = p /\ frame'.n = frame.n
          /\ frame'.replica = frame.replica
       /\ frame'.sei = frame.sei /\ frame'.applied = frame.applied
       /\ frame'.by = frame.by \/ frame'.by = frame.by \cup {"sdr"}
       /\ frame'.hdr => frame.hdr
       /\ frame.spoiled => frame'.spoiled
       /\ ~(frame'.hdr /\ frame'.due /\ ~frame'.spoiled)
  BY <1>2, <1>3, <1>7, <1>8, <1>10, <1>11
<1>13. PostFlags'
  <2>1. Flags(list, withStats, mId, mUseHDR2SDR, mUseFilmGrain, mHasFilmGrain)'
    BY <1>1 DEF PostInv, PostFlags, Flags
  <2>2. Flags(mUseCSC, mCSC, shape, mIsConfigured, mIsEnabled, mHasStatInfo)'
    BY <1>1, <1>4 DEF PostInv, PostFlags, Flags
  <2>3. Flags(mHasDynamicInfo, plain, asked, restarted, unsaid, TRUE)'
    BY <1>1, <1>4 DEF PostInv, PostFlags, Flags
  <2> QED BY <2>1, <2>2, <2>3 DEF PostFlags
<1>14. PostFrame'
  BY <1>1, <1>3, <1>12 DEF PostInv, PostFrame
<1>15. PostTypes'
  BY <1>1 DEF PostInv, PostTypes
<1>16. PostList'
  BY <1>1, <1>3, <1>12 DEF PostInv, PostList, Decodes, Encodes
<1>17. PostHdr'
  BY <1>1, <1>3, <1>5, <1>12 DEF PostInv, PostHdr, Behind, Post!HdrConverted
<1>18. PostGrain'
  BY <1>1, <1>3, <1>12 DEF PostInv, PostGrain, Behind, Grains, Plain
<1>19. PostTold'
  BY <1>1, <1>3, <1>12 DEF PostInv, PostTold, Behind, Told, Post!ToldNow, Decodes, Encodes
<1>20. PostMeta'
  BY <1>1, <1>3, <1>12 DEF PostInv, PostMeta, Post!MetadataOwn, Decodes, Post!None
<1> QED BY <1>13, <1>14, <1>15, <1>16, <1>17, <1>18, <1>19, <1>20 DEF PostInv

\* The filters in use are counted one by one.
LEMMA CountTrue ==
  ASSUME NEW e, NEW g, e # g
  PROVE  Cardinality({x \in {e, g} : x[2]}) = Bit(e[2]) + Bit(g[2])
<1> DEFINE S == {x \in {e, g} : x[2]}
<1>1. /\ Cardinality({}) = 0 /\ Cardinality({e}) = 1 /\ Cardinality({g}) = 1 /\ IsFiniteSet({e})
  BY FS_EmptySet, FS_Singleton, Zenon
<1>2. Cardinality({e} \cup {g}) = 2
  <2>1. g \notin {e}
    OBVIOUS
  <2> QED BY <1>1, <2>1, FS_AddElement
<1>3. S = (IF e[2] THEN {e} ELSE {}) \cup (IF g[2] THEN {g} ELSE {})
  OBVIOUS
<1>4. S = {e} \cup {g} \/ S = {e} \/ S = {g} \/ S = {}
  BY <1>3
<1>5. e[2] /\ g[2] => S = {e} \cup {g}
  BY <1>3
<1>6. e[2] /\ ~g[2] => S = {e}
  BY <1>3
<1>7. ~e[2] /\ g[2] => S = {g}
  BY <1>3
<1>8. ~e[2] /\ ~g[2] => S = {}
  BY <1>3
<1> HIDE DEF S
<1> QED BY <1>1, <1>2, <1>5, <1>6, <1>7, <1>8 DEF Bit

\* mUsedFilterNum is the number of the members that are true.
LEMMA CountUsed ==
  ASSUME NEW a \in BOOLEAN, NEW b \in BOOLEAN
  PROVE  Post!Cardinality({x \in {<<"csc", a>>, <<"grain", b>>} : x[2]}) = Bit(a) + Bit(b)
<1> DEFINE e == <<"csc", a>>
           g == <<"grain", b>>
<1>1. Post!Cardinality({x \in {e, g} : x[2]}) = Cardinality({x \in {e, g} : x[2]})
  BY DEF Post!Cardinality, Cardinality
<1>2. e # g /\ e[2] = a /\ g[2] = b
  OBVIOUS
<1> HIDE DEF e, g
<1>3. Cardinality({x \in {e, g} : x[2]}) = Bit(e[2]) + Bit(g[2])
  BY <1>2, CountTrue
<1>4. Bit(e[2]) = Bit(a) /\ Bit(g[2]) = Bit(b)
  BY <1>2
<1> QED BY <1>1, <1>3, <1>4 DEF e, g

\* The control filter: which filters the frame needs, what it asks of the
\* converter, and the count that the component is to be told.
LEMMA PostControl == ASSUME PostInv, Post!Control PROVE PostInv'
<1> DEFINE p == frame.params
           knows == mId \/ p.list
           grainKnown == knows /\ grainLib # "none"
           hasGrain == IF Post!Empty(p) THEN mHasFilmGrain
                       ELSE grainKnown /\ p.grain # "none" /\ grainLib = "loaded"
           useGrain == IF grainKnown /\ p.grain # "none" THEN grainLib = "loaded" ELSE mUseFilmGrain
           byClient == mUseHDR2SDR \/ (knows /\ hdrLib # "none" /\ p.sdr)
           byLibrary == ~byClient /\ knows /\ hdrLib = "loaded" /\ "required" \in libs
           useSdr == byClient \/ byLibrary
           forSdr == IF useSdr /\ knows THEN Post!Hdr2SdrFormat(frame.fmt, p.format) ELSE p.format
           forGrain == IF hasGrain /\ knows THEN Post!GrainFormat(frame.fmt, forSdr) ELSE forSdr
           useCsc == mUseCSC \/ (useSdr /\ knows) \/ forGrain # forSdr
           used == Post!Cardinality({x \in {<<"csc", useCsc>>, <<"grain", useGrain>>} : x[2]})
           num == Post!CountToTell(used, mUsedFilterNum)
           sdr == p.sdr \/ byLibrary
           q == [p EXCEPT !.format = forGrain, !.num = num, !.sdr = sdr]
           next == [frame EXCEPT !.params = q]
<1>1. /\ at = "control" /\ at' = "csc" /\ mId' = knows /\ mHasFilmGrain' = hasGrain
      /\ mUseFilmGrain' = useGrain /\ mUseHDR2SDR' = useSdr /\ mUseCSC' = useCsc
      /\ mUsedFilterNum' = (IF num > 0 THEN num ELSE mUsedFilterNum)
      /\ frame' = next
      /\ UNCHANGED <<stream, libs, up, withStats, list, count, told, plain, asked, restarted, unsaid,
                     hdrLib, grainLib, mCSC, mFormat, shape, loaded, mInfo, mIsConfigured,
                     mIsEnabled,
                     mStatInfo, mHasStatInfo, mDynamicInfo, mHasDynamicInfo>>
  BY DEF Post!Control, Post!Goes, Post!None, Post!filterVars, Post!statVars, Post!historyVars
<1>2. /\ Decodes /\ ~Encodes /\ up = "running" /\ frame \in FrameType /\ p \in ParamsType
      /\ frame.n <= count /\ count \in Nat /\ frame.sei = <<0, "none">> /\ frame.due = FALSE
      /\ ~mHasStatInfo
  BY <1>1, DecSide
<1>3. knows /\ grainLib # "none" /\ hdrLib # "none" /\ grainKnown
  BY <1>1, <1>2 DEF PostInv, PostList, PostTypes, PostFlags, Flags
<1>4. /\ hasGrain \in BOOLEAN /\ useGrain \in BOOLEAN
      /\ hasGrain => useGrain
      /\ p.grain # "none" => useGrain = (grainLib = "loaded") /\ hasGrain = (grainLib = "loaded")
      /\ p.grain = "none" => useGrain = mUseFilmGrain
  <2>1. CASE p.grain = "none"
    <3>1. useGrain = mUseFilmGrain /\ useGrain \in BOOLEAN
      BY <2>1 DEF PostInv, PostFlags, Flags
    <3>2. hasGrain = IF Post!Empty(p) THEN mHasFilmGrain ELSE FALSE
      BY <2>1
    <3> QED BY <2>1, <3>1, <3>2 DEF PostInv, PostTypes, PostFlags, Flags
  <2>2. CASE p.grain # "none"
    <3>1. ~Post!Empty(p)
      BY <2>2, EmptyFrame DEF Post!Empty
    <3>2. useGrain = (grainLib = "loaded") /\ hasGrain = (grainLib = "loaded")
      BY <1>3, <2>2, <3>1
    <3> QED BY <2>2, <3>2
  <2> QED BY <2>1, <2>2
<1>5. /\ useSdr \in BOOLEAN /\ sdr \in BOOLEAN /\ knows \in BOOLEAN
  BY Zenon
<1>6. /\ mUseHDR2SDR => useSdr
      /\ sdr => useSdr
  BY <1>3
<1>7. forSdr = IF useSdr THEN Post!Hdr2SdrFormat(frame.fmt, p.format) ELSE p.format
  BY <1>3
<1>8. forGrain = IF hasGrain THEN Post!GrainFormat(frame.fmt, forSdr) ELSE forSdr
  BY <1>3
<1>9. useCsc \in BOOLEAN /\ (mUseCSC => useCsc) /\ (useSdr => useCsc)
      /\ (forGrain # forSdr => useCsc)
  <2>1. useCsc \in BOOLEAN
    BY Zenon
  <2> QED BY <1>3, <2>1
<1> HIDE DEF knows, grainKnown, hasGrain, useGrain, byClient, byLibrary, useSdr, sdr, useCsc
<1>10. used = Bit(useCsc) + Bit(useGrain)
  BY <1>4, <1>9, CountUsed
<1> HIDE DEF used
<1>11. used \in 0..2
  BY <1>4, <1>9, <1>10 DEF Bit
<1>12. /\ num \in 0..2 /\ mUsedFilterNum' \in 0..2 /\ used <= mUsedFilterNum'
       /\ num > 0 => mUsedFilterNum' = num
       /\ num = 0 => mUsedFilterNum' = mUsedFilterNum
  <2>1. mUsedFilterNum \in 0..2
    BY DEF PostInv, PostTypes
  <2>2. num = IF mUsedFilterNum < used THEN used ELSE 0
    BY DEF Post!CountToTell
  <2>3. mUsedFilterNum' = IF num > 0 THEN num ELSE mUsedFilterNum
    BY <1>1
  <2> HIDE DEF num
  <2> QED BY <1>11, <2>1, <2>2, <2>3
<1> HIDE DEF num
<1>13. forSdr \in Formats
  BY <1>2, <1>7, FiltersAssumption DEF FrameType, ParamsType, Post!Hdr2SdrFormat
<1>14. useSdr /\ frame.hdr => forSdr = "P010M" /\ forGrain = "P010M"
  BY <1>1, <1>7, <1>8 DEF PostInv, PostHdr, Post!Hdr2SdrFormat, Post!GrainFormat, Post!GrainRequest,
     Post!TenBits
<1>15. plain => forSdr \in {"none", "P010M"} /\ (forSdr # "none" => useSdr)
  BY <1>1, <1>7 DEF PostInv, PostGrain, Post!Hdr2SdrFormat, Post!TenBits
<1> HIDE DEF forSdr
<1>16. forGrain \in Formats
  BY <1>2, <1>8, <1>13, FiltersAssumption DEF FrameType, Post!GrainFormat, Post!GrainRequest
<1>17. plain => forGrain \in Plain /\ (forGrain # "none" => useCsc)
  <2>1. plain => forGrain \in Plain
    BY <1>8, <1>15 DEF Plain, Post!GrainFormat, Post!GrainRequest
  <2> QED BY <1>9, <1>15, <2>1
<1>18. Grains => forGrain # "none" \/ Post!Supported(frame.fmt)
  <2> SUFFICES ASSUME Grains PROVE forGrain # "none" \/ Post!Supported(frame.fmt)
    OBVIOUS
  <2>1. hasGrain
    BY <1>2, <1>4 DEF Grains, PostInv, PostGrain
  <2>2. frame.fmt \in {"SBWC8", "SBWC10", "SPN", "P010", "P010M", "NV12M"}
    BY <1>1 DEF Grains, PostInv, PostGrain
  <2> QED BY <1>8, <2>1, <2>2 DEF Post!GrainFormat, Post!GrainRequest, Post!Supported
<1> HIDE DEF forGrain
<1>19. /\ q \in ParamsType /\ q.format = forGrain /\ q.num = num /\ q.sdr = sdr /\ q.shape = p.shape
       /\ q.grain = p.grain /\ q.list = p.list
  BY <1>2, <1>5, <1>12, <1>16 DEF ParamsType
<1> HIDE DEF q
<1>20. /\ frame' \in FrameType /\ frame'.params = q /\ frame'.n = frame.n /\ frame'.hdr = frame.hdr
       /\ frame'.replica = frame.replica /\ frame'.due = frame.due /\ frame'.sei = frame.sei
       /\ frame'.fmt = frame.fmt /\ frame'.by = frame.by /\ frame'.spoiled = frame.spoiled
       /\ frame'.applied = frame.applied
  BY <1>1, <1>2, <1>19 DEF FrameType
<1>21. PostFlags'
  <2>1. Flags(list, withStats, mId, mUseHDR2SDR, mUseFilmGrain, mHasFilmGrain)'
    BY <1>1, <1>4, <1>5 DEF PostInv, PostFlags, Flags
  <2>2. Flags(mUseCSC, mCSC, shape, mIsConfigured, mIsEnabled, mHasStatInfo)'
    BY <1>1, <1>9 DEF PostInv, PostFlags, Flags
  <2>3. Flags(mHasDynamicInfo, plain, asked, restarted, unsaid, TRUE)'
    BY <1>1 DEF PostInv, PostFlags, Flags
  <2> QED BY <2>1, <2>2, <2>3 DEF PostFlags
<1>22. PostFrame'
  BY <1>1, <1>2, <1>20 DEF PostInv, PostFrame
<1>23. PostTypes'
  BY <1>1, <1>4, <1>12 DEF PostInv, PostTypes
<1>24. PostList'
  BY <1>1, <1>2, <1>3 DEF PostInv, PostList, Decodes, Encodes
<1>25. PostHdr'
  BY <1>1, <1>2, <1>6, <1>14, <1>19, <1>20 DEF PostInv, PostHdr, Behind, Post!HdrConverted
<1>26. PostGrain'
  BY <1>1, <1>2, <1>17, <1>18, <1>19, <1>20 DEF PostInv, PostGrain, Behind, Grains
<1>27. PostTold'
  <2>1. Told' = IF num > 0 THEN num ELSE told
    BY <1>1, <1>19, <1>20 DEF Told, Post!ToldNow
  <2>2. Told = told /\ told \in 0..2 /\ mUsedFilterNum \in 0..2
    BY <1>1, <1>2 DEF PostInv, PostTold, Behind, Told, Post!ToldNow, PostTypes
  <2>3. ~unsaid' => mUsedFilterNum' <= Told'
    BY <1>1, <1>12, <2>1, <2>2 DEF PostInv, PostTold
  <2>4. Bit(useCsc) + Bit(useGrain) <= mUsedFilterNum'
    BY <1>10, <1>12
  <2>5. ~restarted /\ "grain" \in libs => grainLib = "loaded"
    BY <1>2 DEF PostInv, PostGrain
  <2>6. ~restarted /\ "grain" \in libs /\ p.grain # "none" => useGrain
    BY <1>4, <2>5
  <2>7. ~restarted /\ "grain" \in libs /\ mUseFilmGrain => useGrain
    <3>1. CASE p.grain = "none"
      BY <1>4, <3>1
    <3>2. CASE p.grain # "none"
      BY <2>6, <3>2
    <3> QED BY <3>1, <3>2
  <2>8. /\ at' = "csc" /\ mUseCSC' = useCsc /\ mUseFilmGrain' = useGrain /\ frame'.by = frame.by
        /\ frame'.params.format = forGrain /\ frame'.params.grain = p.grain
        /\ UNCHANGED <<plain, restarted, libs, mFormat, mInfo, stream>>
    BY <1>1, <1>19, <1>20
  <2>9. /\ plain /\ mFormat # "none" => useCsc
        /\ plain /\ forGrain # "none" => useCsc
        /\ plain /\ "csc" \in frame.by => useCsc
    BY <1>9, <1>17 DEF PostInv, PostTold
  <2>10. /\ ~restarted /\ "grain" \in libs /\ mInfo.on => useGrain
         /\ ~restarted /\ "grain" \in frame.by => useGrain /\ "grain" \in libs
    <3>1. "grain" \notin frame.by \/ (~restarted => mUseFilmGrain /\ "grain" \in libs)
      BY DEF PostInv, PostTold
    <3> QED BY <2>7, <3>1 DEF PostInv, PostTold
  <2>11. Decodes'
    BY <1>2, <2>8 DEF Decodes
  <2> HIDE DEF p
  <2>12. at' \in Behind
    BY <2>8 DEF Behind
  <2>13. (plain /\ mFormat # "none" => mUseCSC)'
    BY <2>8, <2>9
  <2>14. (plain /\ at = "csc" /\ frame.params.format # "none" => mUseCSC)'
    BY <2>8, <2>9
  <2>15. (plain /\ "csc" \in frame.by => mUseCSC)'
    BY <2>8, <2>9
  <2>16. (~restarted /\ "grain" \in libs /\ mInfo.on => mUseFilmGrain)'
    BY <2>8, <2>10
  <2>17. (~restarted /\ "grain" \in libs /\ at \in {"csc", "grain"} /\ frame.params.grain # "none"
          => mUseFilmGrain)'
    BY <2>6, <2>8
  <2>18. (~restarted /\ "grain" \in frame.by => mUseFilmGrain /\ "grain" \in libs)'
    BY <2>8, <2>10
  <2>19. (Decodes /\ at \in Behind => Bit(mUseCSC) + Bit(mUseFilmGrain) <= mUsedFilterNum)'
    BY <2>4, <2>8
  <2> QED BY <2>3, <2>11, <2>12, <2>13, <2>14, <2>15, <2>16, <2>17, <2>18, <2>19, Zenon DEF PostTold
<1>28. PostMeta'
  BY <1>1, <1>2, <1>20 DEF PostInv, PostMeta, Post!MetadataOwn, Decodes, Post!None
<1> QED BY <1>21, <1>22, <1>23, <1>24, <1>25, <1>26, <1>27, <1>28 DEF PostInv

\* The filters before the first start().
LEMMA PostInit == ASSUME Post!Init PROVE PostInv
<1>1. PostFlags
  BY DEF Post!Init, PostFlags, Flags
<1>2. frame = Post!NoFrame /\ at = "none" /\ up = "new" /\ count = 0 /\ libs \in Libraries
      /\ stream \in Streams
  BY DEF Post!Init, Post!None
<1>3. PostFrame
  BY <1>2, EmptyFrame DEF PostFrame
<1>4. PostTypes
  BY <1>2, FiltersAssumption DEF Post!Init, PostTypes, Post!None, Post!NoInfo
<1>5. PostList /\ PostHdr
  BY <1>2, EmptyFrame DEF Post!Init, PostList, PostHdr, Behind, Post!HdrConverted, Post!None
<1>6. PostGrain
  BY <1>2, EmptyFrame DEF Post!Init, PostGrain, Behind, Grains, Plain, Post!None
<1>7. PostTold
  BY <1>2, EmptyFrame DEF Post!Init, PostTold, Behind, Told, Post!ToldNow, Post!None, Post!NoInfo
<1>8. PostMeta
  BY <1>2, EmptyFrame DEF Post!Init, PostMeta, Post!MetadataOwn, Post!None
<1> QED BY <1>1, <1>3, <1>4, <1>5, <1>6, <1>7, <1>8 DEF PostInv

\* A step that leaves the filters alone.
LEMMA PostRests0 == ASSUME PostInv, UNCHANGED Post!vars PROVE PostInv'
<1>1. UNCHANGED <<stream, libs, up, withStats, list, at, frame, count, losses>>
  BY DEF Post!vars, Post!streamVars
<1>2. UNCHANGED <<mId, hdrLib, grainLib, mUseHDR2SDR, mUseFilmGrain, mHasFilmGrain, mUseCSC, mUsedFilterNum>>
  BY DEF Post!vars, Post!controlVars
<1>3. UNCHANGED <<mCSC, mFormat, shape, loaded, mInfo, mIsConfigured, mIsEnabled>>
  BY DEF Post!vars, Post!filterVars
<1>4. UNCHANGED <<mStatInfo, mHasStatInfo, mDynamicInfo, mHasDynamicInfo>>
  BY DEF Post!vars, Post!statVars
<1>5. UNCHANGED <<told, plain, asked, restarted, unsaid>>
  BY DEF Post!vars, Post!historyVars
<1>6. PostFlags'
  BY <1>1, <1>2, <1>3, <1>4, <1>5 DEF PostInv, PostFlags
<1>7. PostFrame' /\ PostTypes' /\ PostList'
  BY <1>1, <1>2, <1>3, <1>4, <1>5 DEF PostInv, PostFrame, PostTypes, PostList, Decodes, Encodes
<1>8. PostHdr' /\ PostGrain'
  BY <1>1, <1>2, <1>3, <1>4, <1>5 DEF PostInv, PostHdr, PostGrain, Grains, Post!HdrConverted
<1>9. PostTold' /\ PostMeta'
  BY <1>1, <1>2, <1>3, <1>4, <1>5 DEF PostInv, PostTold, PostMeta, Told, Post!ToldNow, Decodes,
     Encodes, Post!MetadataOwn
<1> QED BY <1>6, <1>7, <1>8, <1>9 DEF PostInv

LEMMA PostStep == ASSUME PostInv, [Post!Next]_(Post!vars) PROVE PostInv'
BY PostStart, PostFlush, PostStop, PostReset, PostDecode, PostControl, PostCsc, PostGrainStep,
   PostHdr2Sdr, PostEncode, PostStatEnc, PostDeliver, PostRests0 DEF Post!Next

\* The invariant is what the four properties, and the types, need.
LEMMA PostImplies ==
  ASSUME PostInv
  PROVE  /\ Post!TypeOK
         /\ Post!GrainApplied /\ Post!HdrConverted /\ Post!ToldEnough /\ Post!MetadataOwn
<1>1. Post!TypeOK
  BY DEF PostInv, PostFlags, Flags, PostFrame, PostTypes, Post!TypeOK, Post!None
<1>2. Post!GrainApplied
  BY DEF PostInv, PostGrain, Grains, Behind, Post!GrainApplied
<1>3. Post!HdrConverted /\ Post!MetadataOwn
  BY DEF PostInv, PostHdr, PostMeta
<1>4. Post!ToldEnough
  <2> SUFFICES ASSUME at = "component", plain, ~restarted, ~unsaid
               PROVE  Post!Cardinality(frame.by \cap {"csc", "grain"}) <= Told
    BY DEF Post!ToldEnough, Told
  <2> DEFINE U == frame.by \cap {"csc", "grain"}
  <2>1. /\ mUsedFilterNum \in 0..2 /\ told \in 0..2 /\ frame.params.num \in 0..2
        /\ mUsedFilterNum <= Told
    BY DEF PostInv, PostTypes, PostFrame, FrameType, ParamsType, PostTold
  <2>2. Told \in 0..2
    BY <2>1 DEF Told, Post!ToldNow
  <2>3. /\ "csc" \in U => mUseCSC /\ Decodes
        /\ "grain" \in U => mUseFilmGrain /\ Decodes
    BY DEF PostInv, PostTold
  <2>4. Decodes => Bit(mUseCSC) + Bit(mUseFilmGrain) <= mUsedFilterNum
    BY DEF PostInv, PostTold, Behind
  <2>5. /\ Cardinality({}) = 0 /\ Cardinality({"csc"}) = 1 /\ Cardinality({"grain"}) = 1
        /\ IsFiniteSet({"csc"})
    BY FS_EmptySet, FS_Singleton, Zenon
  <2>6. Cardinality({"csc"} \cup {"grain"}) = 2
    BY <2>5, FS_AddElement
  <2>7. U = {} \/ U = {"csc"} \/ U = {"grain"} \/ U = {"csc"} \cup {"grain"}
    OBVIOUS
  <2>8. Post!Cardinality(U) = Cardinality(U)
    BY DEF Post!Cardinality, Cardinality
  <2> HIDE DEF U
  <2>9. Cardinality(U) <= Told
    <3>1. CASE U = {}
      BY <2>2, <2>5, <3>1
    <3>2. CASE U = {"csc"}
      BY <2>1, <2>2, <2>3, <2>4, <2>5, <3>2 DEF Bit
    <3>3. CASE U = {"grain"}
      BY <2>1, <2>2, <2>3, <2>4, <2>5, <3>3 DEF Bit
    <3>4. CASE U = {"csc"} \cup {"grain"}
      BY <2>1, <2>2, <2>3, <2>4, <2>6, <3>4 DEF Bit
    <3> QED BY <2>7, <3>1, <3>2, <3>3, <3>4
  <2> QED BY <2>8, <2>9 DEF U
<1> QED BY <1>1, <1>2, <1>3, <1>4

\* Behind a decoder a frame gets the film grain it was coded for and the conversion
\* that the client asked for, the component is never told of fewer filters than hold
\* a frame back, and behind an encoder a frame carries its own metadata
\* (Exynos_PostControl_Filter, the filters it controls and their libraries).
THEOREM PostSafe ==
  Post!Spec => [](Post!GrainApplied /\ Post!HdrConverted /\ Post!ToldEnough /\ Post!MetadataOwn)
<1>1. PostInv /\ [Post!Next]_(Post!vars) => PostInv'
  BY PostStep
<1>2. Post!Init => PostInv
  BY PostInit
<1>3. PostInv => Post!GrainApplied /\ Post!HdrConverted /\ Post!ToldEnough /\ Post!MetadataOwn
  BY PostImplies
<1> QED BY <1>1, <1>2, <1>3, PTL DEF Post!Spec

-----------------------------------------------------------------------------
(***************************************************************************)
(* The other steps of the chain: what the codec takes and answers, what    *)
(* the client gives, and its flushes, stops and synchronisations.          *)
(***************************************************************************)

\* The codec takes its input.
LEMMA TakingIn ==
  ASSUME ChainInv, Chain!CodecProcess
  PROVE  ChainInv'
<1> USE DEF ChainInv
<1>1. ~(0 \in Line) /\ C \in Line /\ C \in Nat /\ C >= 1 /\ C < NumFilters /\ NumFilters \in Nat
      /\ \A g \in Line : g \in Nat
  BY Places DEF Line, Chain!Filters
<1> DEFINE w == job[C].work
           n == w.id
           q == w.params
           s == 4 * C + 2
           o == TRUE
<1>2. /\ job[C] # NoJob /\ Chain!Apply(C, w) /\ infos' = Append(infos, w)
      /\ job' = [job EXCEPT ![C] = NoJob]
      /\ UNCHANGED <<limits, place, works, caller, tasks, pending, finished, given, gone, stray, behind, stops, failures>>
  BY DEF Chain!CodecProcess, NoJob, C
<1>3. /\ applied' \in [Line -> Nat] /\ stale' \in BOOLEAN
      /\ \A g \in Line : g # C => applied'[g] = applied[g]
      /\ applied'[C] <= n
      /\ q # 0 => applied'[C] = q
      /\ stale' => behind
      /\ ~behind => \A v \in given[C] : v <= applied[C] => v <= applied'[C]
  BY <1>1, <1>2, Applying
<1>4. /\ First(View, n, 4 * C + 1, q)
      /\ \A x \in View : x.id = n => x.on
  BY <1>1, <1>2, FirstJob
<1>5. job[C] \in Runs[C] /\ w \in WorkType /\ n \in Nat /\ q \in Nat
  <2>1. job[C] \in Runs[C]
    BY <1>1, <1>2 DEF ChainWorks
  <2> QED BY <1>1, <2>1, Places DEF WorkType
<1>6. AtRest(w, C + 1) /\ w.outs = 0
  <2>1. Working(w, job[C].todo, C) /\ job[C].todo \in Seq(Item)
    BY <1>1, <1>5 DEF Runs, JobType
  <2> QED BY <1>5, <2>1, InputRests
<1>7. w \in Waits[C + 1]
  <2>1. C + 1 \in 1..(NumFilters + 1)
    BY <1>1
  <2> QED BY <1>5, <1>6, <2>1 DEF Waits
<1>8. job' \in [Line -> JobType] /\ \A g \in Line : job'[g] = IF g = C THEN NoJob ELSE job[g]
  <2>1. job \in [Line -> JobType] /\ NoJob \in JobType
    BY NoJobIs DEF ChainTypes
  <2> QED BY <1>1, <1>2, <2>1
<1>9. s \in Nat /\ 4 * C + 1 \in Nat /\ 4 * C + 1 <= s /\ o \in BOOLEAN /\ ~(s >= 4 * C + 3)
      /\ s <= 4 * C + 2
      /\ \A x \in View : ~(4 * C + 1 < x.st /\ x.st < s)
  <2>1. \A x \in View : x.st \in Nat
    BY Whence
  <2> QED BY <1>1, <2>1
<1>10. s = 4 * C + 2 /\ o = TRUE /\ w.id = n /\ w.params = q
  OBVIOUS
<1> HIDE DEF s, o
<1>11. infos \in Seq(WorkType) /\ Rising(infos)
  BY DEF ChainTypes, ChainOrder
<1>12. \A i \in DOMAIN infos : infos[i].id < w.id
  <2> SUFFICES ASSUME NEW i \in DOMAIN infos PROVE infos[i].id < w.id
    OBVIOUS
  <2>1. PICK r \in View : Sees(r, 4 * C + 2, infos[i], TRUE)
    BY Seen
  <2>2. PICK z \in View : z.st = 4 * C + 1 /\ z.id = w.id
    BY <1>4 DEF First
  <2>3. z.st < r.st
    BY <1>1, <2>1, <2>2 DEF Sees
  <2>4. z.id > r.id /\ z.id \in Nat /\ r.id \in Nat
    BY <2>3, Whence DEF ChainOrder, Ordered
  <2> QED BY <2>1, <2>2, <2>4 DEF Sees
<1>13. /\ infos' \in Seq(WorkType) /\ Rising(infos')
       /\ \A i \in DOMAIN infos : i \in DOMAIN infos' /\ infos'[i] = infos[i]
       /\ \A j \in DOMAIN infos' : (j \in DOMAIN infos /\ infos'[j] = infos[j]) \/ (j = Len(infos) + 1 /\ infos'[j] = w)
       /\ Len(infos) + 1 \in DOMAIN infos' /\ infos'[Len(infos) + 1] = w
  BY <1>2, <1>5, <1>11, <1>12, RisingAppend
<1> HIDE DEF w, n, q
<1>14. Shifted(0, 0, 0)
  BY <1>2, NothingShifted
<1>15. ChainWorks'
  <2>1. \A g \in Line : job'[g] = NoJob \/ job'[g] = job[g] \/ job'[g] \in Runs[g]'
    BY <1>8
  <2>2. \A i \in DOMAIN infos' : infos'[i] \in Waits[C + 1]' \/ \E j \in DOMAIN infos : infos'[i] = infos[j]
    <3>1. works' \in Nat /\ works' >= works /\ limits' = limits /\ place' = place
      BY <1>14 DEF Shifted
    <3>2. C' = C /\ C + 1 \in 1..(NumFilters + 1)
      BY <1>1, <1>2 DEF C
    <3>3. w \in Waits[C + 1]'
      BY <1>7, <3>1, <3>2, RestKept
    <3> QED BY <1>13, <3>3
  <2>3. \A i \in DOMAIN finished' : \/ finished'[i] \in Waits[NumFilters + 1]'
                                    \/ \E j \in DOMAIN finished : finished'[i] = finished[j]
    BY <1>2
  <2> QED BY <1>1, <1>14, <2>1, <2>2, <2>3, WaitsKept
<1>16. ChainCalls'
  <2>1. \A g \in Line : job'[g] = NoJob \/ job[g] # NoJob \/ (g = 0 /\ tasks[0][1].op = "work")
    BY <1>8
  <2>2. infos' = <<>> \/ infos # <<>> \/ job[C] # NoJob
    BY <1>2
  <2> QED BY <1>1, <1>14, <2>1, <2>2, CallsKept
<1>17. ChainGone'
  <2>1. \A g \in Line : job'[g] = NoJob \/ job'[g] = job[g] \/ (Left(g) => Old(job'[g].work.id))
    BY <1>8
  <2>2. Left(C)
        => \A i \in DOMAIN infos' : Old(infos'[i].id) \/ \E j \in DOMAIN infos : infos'[i].id = infos[j].id
    <3>1. Left(C) => Old(w.id)
      BY <1>1, <1>2 DEF ChainGone, w
    <3> QED BY <1>13, <3>1
  <2> QED BY <1>1, <1>14, <2>1, <2>2, RemnantsKept
<1>18. ChainTypes'
  <2>1. /\ caller \in CallerType /\ finished \in Seq(WorkType) /\ pending \in Nat
           /\ given \in [Line -> SUBSET (1..works)]
        /\ gone \in 0..works /\ stray \in SUBSET (1..works) /\ tasks \in [Line -> Seq(TaskType)]
        /\ behind \in BOOLEAN /\ stops \in Nat /\ failures \in Nat
    BY DEF ChainTypes
  <2> QED BY <1>2, <1>3, <1>8, <1>13, <2>1, TypesKept
<1>19. NoJob' = NoJob /\ C' = C
  BY <1>2 DEF NoJob, Chain!NoJob, Chain!NewWork, C
<1>20. Travels(0, 0, 0, n, s, q, o)
  <2>1. /\ \A g \in Line : \A j \in DOMAIN tasks[g] : IsWork(tasks[g][j]) => tasks[g][j].work.id # n
        /\ \A g \in Line : job[g] # NoJob /\ job[g].work.id = n => g = C
        /\ \A j \in DOMAIN infos : infos[j].id # n
        /\ \A j \in DOMAIN finished : finished[j].id # n
    BY <1>1, <1>2, JobsApart DEF n, w
  <2>2. tasks' \in ChainPools /\ Passed(tasks, tasks', 0, 0, 0)
    BY <1>14 DEF Shifted
  <2>3. /\ \A g \in Line : job[g] # NoJob /\ job[g].work.id # n => job'[g] = job[g]
        /\ \A g \in Line : job'[g] # NoJob => job'[g] = job[g] /\ job[g].work.id # n
    <3>1. job[C].work.id = n
      BY DEF n, w
    <3> QED BY <1>8, <2>1, <3>1
  <2>4. /\ \A i \in DOMAIN infos : infos[i].id # n => \E j \in DOMAIN infos' : infos'[j] = infos[i]
        /\ \A j \in DOMAIN infos' :
             \/ \E i \in DOMAIN infos : infos'[j] = infos[i] /\ infos[i].id # n
             \/ s = 4 * C + 2 /\ infos'[j].id = n /\ infos'[j].params = q /\ o = TRUE
        /\ \E j \in DOMAIN infos' : infos'[j].id = n
    BY <1>10, <1>13, <2>1
  <2>5. /\ \A i \in DOMAIN finished : finished[i].id # n
           => \E j \in DOMAIN finished' : finished'[j] = finished[i]
        /\ \A j \in DOMAIN finished' : \E i \in DOMAIN finished : finished'[j] = finished[i]
           /\ finished[i].id # n
    BY <1>2, <2>1
  <2>6. \A g \in Line : \A i \in DOMAIN tasks[g] : IsWork(tasks[g][i]) /\ tasks[g][i].work.id = n
        => g = 0 /\ i = 1
    BY <2>1
  <2> QED BY <1>1, <2>2, <2>3, <2>4, <2>5, <2>6 DEF Travels
<1>21. ChainOrder' /\ MovesTo(View, View', n, s, q, o)
  <2>1. \A g \in Line : applied'[g] = applied[g] \/ (4 * C + 1 = 4 * g + 1 /\ applied'[g] <= n)
    BY <1>3
  <2>2. \A i \in DOMAIN infos' : infos'[i].outs > 0 => i = 1 /\ pending' = 0
    <3> SUFFICES ASSUME NEW i \in DOMAIN infos', infos'[i].outs > 0 PROVE i = 1 /\ pending' = 0
      OBVIOUS
    <3>1. CASE i \in DOMAIN infos /\ infos'[i] = infos[i]
      BY <1>2, <3>1 DEF ChainOrder
    <3>2. CASE infos'[i] = w
      BY <1>6, <3>2
    <3> QED BY <1>13, <3>1, <3>2
  <2>3. Rising(finished') /\ pending' = pending /\ pending' \in Nat /\ place' = place
    BY <1>2 DEF ChainOrder, ChainTypes
  <2>4. \E s1 \in Nat : /\ s1 = 4 * C + 1 /\ First(View, n, s1, q) /\ s1 <= s /\ \A x \in View : ~(s1 < x.st /\ x.st < s)
                        /\ \A g \in Line : applied'[g] = applied[g] \/ (s1 = 4 * g + 1 /\ applied'[g] <= n)
    BY <1>4, <1>9, <2>1
  <2>5. PICK s1 \in Nat : /\ s1 = 4 * C + 1 /\ First(View, n, s1, q) /\ s1 <= s /\ \A x \in View : ~(s1 < x.st /\ x.st < s)
                        /\ \A g \in Line : applied'[g] = applied[g] \/ (s1 = 4 * g + 1 /\ applied'[g] <= n)
    BY <2>4
  <2>6. 0 \in Line => s1 < s
    BY <1>1
  <2> QED BY <1>3, <1>5, <1>9, <1>13, <1>19, <1>20, <2>2, <2>3, <2>5, <2>6, OrderKept
<1>22. SettingsGo
  <2>1. ASSUME ~behind', NEW g \in Line PROVE Settled(View', given'[g], applied'[g], pending', C', g, Cuts')
    <3>1. Settled(View, given[g], applied[g], pending, C, g, Cuts)
      BY <1>2, <2>1 DEF ChainSettings
    <3>2. /\ View \in SUBSET ViewType /\ View' \in SUBSET ViewType /\ applied'[g] \in Nat
             /\ applied[g] \in Nat
          /\ given[g] \in SUBSET (Nat \ {0}) /\ given[g] \in SUBSET given[g] /\ pending \in Nat
             /\ g \in Nat
      <4>1. given[g] \in SUBSET (1..works) /\ works \in Nat /\ pending \in Nat /\ applied[g] \in Nat
        BY DEF ChainTypes
      <4> QED BY <1>1, <1>3, <4>1 DEF View
    <3>3. \A v \in given[g] : v <= applied[g] => v <= applied'[g]
      <4>1. CASE g = C
        BY <1>2, <1>3, <2>1, <4>1
      <4>2. CASE g # C
        BY <1>3, <4>2
      <4> QED BY <4>1, <4>2
    <3>4. o /\ 4 * C + 1 <= 4 * g + 1 /\ (s > 4 * g + 1 \/ ~o) => \A v \in given[g] : q >= v
          => v <= applied'[g]
      <4> SUFFICES ASSUME 4 * C + 1 <= 4 * g + 1, s > 4 * g + 1, NEW v \in given[g], q >= v
                   PROVE v <= applied'[g]
        BY <1>10
      <4>1. g = C
        BY <1>1, <1>10, <3>2
      <4>2. v \in Nat /\ v # 0
        BY <3>2
      <4> QED BY <1>3, <1>5, <4>1, <4>2
    <3>5. /\ g > C /\ pending # 0 /\ o /\ s >= 4 * C + 3 => 4 * C + 1 >= 4 * C + 3
          /\ g > C /\ pending # 0 /\ o /\ 4 * C + 1 <= 4 * C + 2 => o /\ s <= 4 * C + 2
      BY <1>9
    <3>6. \A x \in View : x.id = n => (x.on <=> o)
      BY <1>4, <1>10
    <3>7. Cuts' \in SUBSET Cuts /\ Cuts \in SUBSET Nat
      <4> DEFINE s0 == 4 * C + 1
      <4>1. s0 \in Nat /\ s0 <= s /\ s0 <= 4 * C + 1 /\ First(View, n, s0, q)
        BY <1>4, <1>9
      <4>2. \A i \in DOMAIN infos' : infos'[i].outs = 0 =>
              \/ \E j \in DOMAIN infos : infos[j].outs = 0 /\ infos[j].id = infos'[i].id
              \/ s0 <= 4 * C + 1 /\ infos'[i].id = n
        BY <1>10, <1>13, <4>1
      <4>3. works' = works /\ place' = place
        BY <1>2
      <4> HIDE DEF s0
      <4> QED BY <1>5, <1>9, <1>21, <4>1, <4>2, <4>3, CutsMoved
    <3>8. Settled(View', given[g], applied'[g], pending, C, g, Cuts')
      BY <1>1, <1>4, <1>5, <1>9, <1>21, <3>1, <3>2, <3>3, <3>4, <3>5, <3>6, <3>7, SettledMoved
    <3>9. pending' = pending /\ given'[g] = given[g]
      BY <1>2
    <3> QED BY <1>19, <3>8, <3>9
  <2> QED BY <1>2, <1>3, <2>1 DEF SettingsGo
<1> QED BY <1>15, <1>16, <1>17, <1>18, <1>21, <1>22, SettingsGoOn

\* The codec's first input gets an output and stays, or it is answered.
OutputOf(b, t, w, s) ==
  \/ /\ b = 0 /\ t = 0 /\ s = 4 * C + 2
     /\ Shifted(0, 0, 0) /\ infos' = <<w>> \o Tail(infos) /\ On(w) /\ pending' = 0
  \/ /\ b = C /\ t = [op |-> "done", work |-> w] /\ s = 4 * C + 3
     /\ Shifted(0, C, t) /\ infos' = Tail(infos)

\* What the codec answers, or gives another output, is as it has to be.
LEMMA AnswersKept ==
  ASSUME ChainTypes, ChainWorks, ChainCalls, ChainGone, ChainOrder, infos # <<>>,
         NEW w \in WorkType,
         w \in Waits[C + 1], w.id = infos[1].id, NEW b, NEW t, NEW s, OutputOf(b, t, w, s),
         job' = job, finished' = finished
  PROVE  /\ ChainWorks' /\ ChainCalls' /\ ChainGone'
         /\ tasks' \in [Line -> Seq(TaskType)] /\ infos' \in Seq(WorkType) /\ Rising(infos')
         /\ \A i \in DOMAIN infos' : infos'[i].outs > 0 => i = 1 /\ (infos'[i] = w /\ pending' = 0)
<1>1. ~(0 \in Line) /\ C \in Line /\ C \in Nat /\ C + 1 \in 1..(NumFilters + 1)
  BY Places DEF Line, Chain!Filters
<1>2. Shifted(0, b, t)
  BY DEF OutputOf
<1>3. b \in Line => t.op = "done" /\ t.work = w /\ b = C
  BY <1>1 DEF OutputOf
<1>4. infos \in Seq(WorkType) /\ Rising(infos) /\ \A i \in DOMAIN infos : infos[i].outs > 0 => i = 1
  BY DEF ChainTypes, ChainOrder
<1>5. 1 \in DOMAIN infos
  BY <1>4
<1>6. /\ infos' \in Seq(WorkType) /\ Rising(infos')
      /\ \A i \in DOMAIN infos' : infos'[i] = w \/ \E j \in DOMAIN infos : infos'[i] = infos[j]
      /\ \A i \in DOMAIN infos' : infos'[i].outs > 0 => i = 1 /\ (infos'[i] = w /\ pending' = 0)
  <2>1. CASE infos' = <<w>> \o Tail(infos) /\ pending' = 0
    <3>1. /\ infos' \in Seq(WorkType) /\ Rising(infos') /\ DOMAIN infos' = DOMAIN infos
             /\ infos'[1] = w
          /\ \A i \in DOMAIN infos : i # 1 => infos'[i] = infos[i]
      BY <1>4, <2>1, RisingReplaced
    <3> QED BY <1>4, <2>1, <3>1
  <2>2. CASE infos' = Tail(infos)
    <3>1. /\ infos' \in Seq(WorkType) /\ Rising(infos')
          /\ \A j \in DOMAIN infos' : j + 1 \in DOMAIN infos /\ infos'[j] = infos[j + 1]
             /\ j + 1 # 1
      BY <1>4, <2>2, RisingTail
    <3> QED BY <1>4, <3>1
  <2> QED BY <2>1, <2>2 DEF OutputOf
<1>7. works' \in Nat /\ works' >= works /\ limits' = limits /\ place' = place
  BY <1>2 DEF Shifted
<1>8. C' = C
  BY <1>7 DEF C
<1>9. w \in Waits[C + 1]'
  BY <1>1, <1>7, <1>8, RestKept
<1>10. ChainWorks'
  <2>1. b \in Line => /\ t.op = "work" => t.work \in Waits[b]'
                      /\ t.op = "done" => t.work \in Waits[C + 1]' /\ b = C
    BY <1>3, <1>9
  <2>2. \A f \in Line : job'[f] = NoJob \/ job'[f] = job[f] \/ job'[f] \in Runs[f]'
    OBVIOUS
  <2>3. \A i \in DOMAIN infos' : infos'[i] \in Waits[C + 1]' \/ \E j \in DOMAIN infos : infos'[i] = infos[j]
    BY <1>6, <1>9
  <2>4. \A i \in DOMAIN finished' : \/ finished'[i] \in Waits[NumFilters + 1]'
                                    \/ \E j \in DOMAIN finished : finished'[i] = finished[j]
    OBVIOUS
  <2> QED BY <1>2, <2>1, <2>2, <2>3, <2>4, WaitsKept
<1>11. ChainCalls'
  <2>1. b \in Line => /\ t.op = "work" => caller.step = "idle" \/ caller.at # b
                      /\ t.op = "done" => b = C /\ infos # <<>>
    BY <1>3
  <2>2. \A f \in Line : job'[f] = NoJob \/ job[f] # NoJob \/ (f = 0 /\ tasks[0][1].op = "work")
    OBVIOUS
  <2> QED BY <1>2, <2>1, <2>2, CallsKept
<1>12. ChainGone'
  <2>1. Left(C) => Old(w.id)
    BY <1>5 DEF ChainGone
  <2>2. b \in Line /\ Left(b) => Old(t.work.id)
    BY <1>3, <2>1
  <2>3. \A f \in Line : job'[f] = NoJob \/ job'[f] = job[f] \/ (Left(f) => Old(job'[f].work.id))
    OBVIOUS
  <2>4. Left(C)
        => \A i \in DOMAIN infos' : Old(infos'[i].id) \/ \E j \in DOMAIN infos : infos'[i].id = infos[j].id
    BY <1>6, <2>1
  <2> QED BY <1>2, <2>2, <2>3, <2>4, RemnantsKept
<1>13. tasks' \in [Line -> Seq(TaskType)]
  BY <1>2 DEF Shifted, ChainPools
<1> QED BY <1>6, <1>10, <1>11, <1>12, <1>13

\* The codec's answers come in the order that its inputs have by then.
LEMMA AnswersOrder ==
  ASSUME ChainTypes, ChainWorks, ChainOrder, infos # <<>>, NEW w \in WorkType, w.id = infos[1].id,
         NEW b, NEW t, NEW s, OutputOf(b, t, w, s), job' = job, finished' = finished,
         applied' = applied,
         Rising(infos'), \A i \in DOMAIN infos' : infos'[i].outs > 0 => i = 1 /\ pending' = 0,
         pending' \in Nat, pending' <= w.id
  PROVE  ChainOrder' /\ MovesTo(View, View', w.id, s, w.params, On(w))
<1>1. ~(0 \in Line) /\ C \in Line /\ C \in Nat
  BY Places DEF Line, Chain!Filters
<1> DEFINE n == w.id
           q == w.params
           o == On(w)
           q0 == infos[1].params
           s0 == 4 * C + 2
<1>2. Shifted(0, b, t)
  BY DEF OutputOf
<1>3. n \in Nat /\ q \in Nat /\ o \in BOOLEAN /\ s0 \in Nat
  BY <1>1, OnIs DEF WorkType
<1>4. s \in Nat /\ s0 <= s /\ (b \in Line => s0 < s) /\ (s = 4 * C + 2 \/ s = 4 * C + 3)
  BY <1>1 DEF OutputOf
<1>5. First(View, n, s0, q0) /\ 1 \in DOMAIN infos
  BY FirstInfo
<1>6. \A x \in View : ~(s0 < x.st /\ x.st < s)
  <2>1. \A x \in View : x.st \in Nat
    BY Whence
  <2> QED BY <1>1, <1>4, <2>1
<1>7. /\ \A g \in Line : \A j \in DOMAIN tasks[g] : IsWork(tasks[g][j]) => tasks[g][j].work.id # n
      /\ \A g \in Line : job[g] # NoJob => job[g].work.id # n
      /\ \A j \in DOMAIN infos : infos[j].id = n => j = 1
      /\ \A j \in DOMAIN finished : finished[j].id # n
  BY <1>5, InfosApart
<1>8. b \in Line => IsWork(t) /\ s = StepOf(b, t) /\ t.work.id = n /\ t.work.params = q
      /\ On(t.work) = o
  <2> SUFFICES ASSUME b \in Line
               PROVE IsWork(t) /\ s = StepOf(b, t) /\ t.work.id = n /\ t.work.params = q
                     /\ On(t.work) = o
    OBVIOUS
  <2>1. b = C /\ t = [op |-> "done", work |-> w] /\ s = 4 * C + 3
    BY <1>1 DEF OutputOf
  <2>2. t.op = "done" /\ t.work = w
    BY <2>1
  <2> QED BY <2>1, <2>2 DEF IsWork, StepOf
<1>9. infos \in Seq(WorkType) /\ Rising(infos)
  BY DEF ChainTypes, ChainOrder
<1> HIDE DEF n, q, o, s0, q0
<1>10. /\ \A i \in DOMAIN infos : infos[i].id # n => \E j \in DOMAIN infos' : infos'[j] = infos[i]
       /\ \A j \in DOMAIN infos' :
            \/ \E i \in DOMAIN infos : infos'[j] = infos[i] /\ infos[i].id # n
            \/ s = 4 * C + 2 /\ infos'[j].id = n /\ infos'[j].params = q /\ o = TRUE
       /\ b \in Line \/ \E j \in DOMAIN infos' : infos'[j].id = n
  <2>1. CASE infos' = <<w>> \o Tail(infos) /\ On(w) /\ s = 4 * C + 2
    <3>1. /\ DOMAIN infos' = DOMAIN infos /\ infos'[1] = w
          /\ \A i \in DOMAIN infos : i # 1 => infos'[i] = infos[i]
      BY <1>9, <2>1, RisingReplaced
    <3>2. w.id = n /\ w.params = q /\ o = TRUE
      BY <1>3, <2>1 DEF n, q, o
    <3>3. infos[1].id = n
      BY DEF n
    <3> QED BY <1>5, <1>7, <2>1, <3>1, <3>2, <3>3
  <2>2. CASE infos' = Tail(infos) /\ b = C
    <3>1. /\ \A i \in DOMAIN infos : i = 1 \/ (i - 1 \in DOMAIN infos' /\ infos'[i - 1] = infos[i])
          /\ \A j \in DOMAIN infos' : j + 1 \in DOMAIN infos /\ infos'[j] = infos[j + 1]
             /\ j + 1 # 1
      BY <1>9, <2>2, RisingTail
    <3>2. infos[1].id = n
      BY DEF n
    <3> QED BY <1>1, <1>7, <2>2, <3>1, <3>2
  <2> QED BY <2>1, <2>2 DEF OutputOf
<1>11. NoJob' = NoJob /\ place' = place /\ tasks' \in ChainPools /\ Passed(tasks, tasks', 0, b, t)
  BY <1>2 DEF NoJob, Chain!NoJob, Chain!NewWork, Shifted
<1>12. Travels(0, b, t, n, s, q, o)
  <2>1. /\ \A g \in Line : job[g] # NoJob /\ job[g].work.id # n => job'[g] = job[g]
        /\ \A g \in Line : job'[g] # NoJob => job'[g] = job[g] /\ job[g].work.id # n
    BY <1>7
  <2>2. /\ \A i \in DOMAIN finished : finished[i].id # n
           => \E j \in DOMAIN finished' : finished'[j] = finished[i]
        /\ \A j \in DOMAIN finished' : \E i \in DOMAIN finished : finished'[j] = finished[i]
           /\ finished[i].id # n
    BY <1>7
  <2>3. \A g \in Line : \A i \in DOMAIN tasks[g] : IsWork(tasks[g][i]) /\ tasks[g][i].work.id = n
        => g = 0 /\ i = 1
    BY <1>7
  <2> QED BY <1>1, <1>8, <1>10, <1>11, <2>1, <2>2, <2>3 DEF Travels
<1>13. ChainOrder' /\ MovesTo(View, View', n, s, q, o)
  <2>1. applied' \in [Line -> Nat]
        /\ \A g \in Line : applied'[g] = applied[g] \/ (s0 = 4 * g + 1 /\ applied'[g] <= n)
    BY DEF ChainTypes
  <2>2. pending' = pending \/ pending' = 0 \/ (pending' <= n /\ s0 = 4 * C + 2 /\ s = 4 * C + 3)
    BY DEF OutputOf, n, s0
  <2>3. Rising(finished')
    BY DEF ChainOrder
  <2> QED BY <1>3, <1>4, <1>5, <1>6, <1>11, <1>12, <2>1, <2>2, <2>3, OrderKept
<1> QED BY <1>13 DEF n, q, o

\* The codec's first input is behind all that it answered, and before the others.
LEMMA InfoAhead ==
  ASSUME ChainTypes, ChainWorks, ChainOrder, infos # <<>>
  PROVE  /\ 1 \in DOMAIN infos /\ infos[1] \in WorkType /\ Head(infos) = infos[1]
         /\ infos[1] \in Waits[C + 1] /\ AtRest(infos[1], C + 1)
         /\ infos[1].id \in 1..works /\ infos[1].params \in Nat /\ infos[1].params <= infos[1].id
         /\ First(View, infos[1].id, 4 * C + 2, infos[1].params)
         /\ \A x \in View : x.id = infos[1].id => x.on
         /\ \A x \in View : x.st <= 4 * C + 2 => x.id >= infos[1].id
         /\ \A x \in View : x.st >= 4 * C + 3 => x.id < infos[1].id
         /\ pending < infos[1].id
         /\ \A g \in Line : g > C => applied[g] < infos[1].id
<1> DEFINE n == infos[1].id
<1>1. /\ First(View, n, 4 * C + 2, infos[1].params)
      /\ \A x \in View : x.id = n => x.on
      /\ 1 \in DOMAIN infos /\ infos[1] \in WorkType /\ Head(infos) = infos[1]
  BY FirstInfo
<1>2. PICK z \in View : z.st = 4 * C + 2 /\ z.id = n
  BY <1>1 DEF First
<1>3. C \in Nat /\ C + 1 \in 1..(NumFilters + 1) /\ \A g \in Line : g \in Nat
  BY Places
<1>4. \A x \in View : x.st \in Nat /\ x.id \in Nat
  BY Whence
<1>5. infos[1] \in Waits[C + 1]
  BY <1>1 DEF ChainWorks
<1>6. AtRest(infos[1], C + 1)
  BY <1>3, <1>5 DEF Waits
<1>7. n \in 1..works /\ infos[1].params \in Nat /\ infos[1].params <= n
  <2>1. n \in Nat /\ infos[1].params \in Nat /\ works \in Nat
    BY <1>1 DEF WorkType, ChainTypes
  <2>2. n >= 1 /\ n <= works /\ infos[1].params <= n
    BY <1>6 DEF AtRest, Real
  <2> QED BY <2>1, <2>2
<1>8. \A x \in View : x.st <= 4 * C + 2 => x.id >= n
  <2> SUFFICES ASSUME NEW x \in View, x.st <= 4 * C + 2 PROVE x.id >= n
    OBVIOUS
  <2>1. CASE x.st = 4 * C + 2
    BY <1>1, <2>1 DEF First
  <2>2. CASE x.st < z.st
    <3>1. x.id > z.id
      BY <2>2 DEF ChainOrder, Ordered
    <3> QED BY <1>2, <1>4, <3>1
  <2> QED BY <1>2, <1>3, <1>4, <2>1, <2>2
<1>9. \A x \in View : x.st >= 4 * C + 3 => x.id < n
  <2> SUFFICES ASSUME NEW x \in View, x.st >= 4 * C + 3 PROVE x.id < n
    OBVIOUS
  <2>1. z.st < x.st
    BY <1>2, <1>3, <1>4
  <2>2. z.id > x.id
    BY <2>1 DEF ChainOrder, Ordered
  <2> QED BY <1>2, <1>4, <2>2
<1>10. pending < n
  BY <1>2, <1>3 DEF ChainOrder
<1>11. \A g \in Line : g > C => applied[g] < n
  <2> SUFFICES ASSUME NEW g \in Line, g > C PROVE applied[g] < n
    OBVIOUS
  <2>1. z.st <= 4 * g
    BY <1>2, <1>3
  <2> QED BY <1>2, <2>1 DEF ChainOrder
<1> QED BY <1>1, <1>5, <1>6, <1>7, <1>8, <1>9, <1>10, <1>11

\* What is answered is not told apart from the others any more.
LEMMA CutsAnswered ==
  ASSUME ChainTypes, ChainWorks, ChainOrder, infos # <<>>, NEW w \in WorkType,
         w.id = infos[1].id, NEW b, NEW t, NEW s, OutputOf(b, t, w, s),
         s = 4 * C + 2 => w.outs # 0, NEW q, NEW o, MovesTo(View, View', w.id, s, q, o),
         works' = works, place' = place
  PROVE  /\ Cuts' \in SUBSET Cuts /\ Cuts \in SUBSET Nat
         /\ \A m \in Cuts' : w.id < m
<1> DEFINE n == w.id
           s0 == 4 * C + 2
           q0 == infos[1].params
<1>1. /\ 1 \in DOMAIN infos /\ First(View, n, s0, q0) /\ n \in 1..works
      /\ \A x \in View : x.st <= s0 => x.id >= n
  BY InfoAhead
<1>2. C \in Nat /\ C' = C /\ works \in Nat /\ n \in Nat /\ s0 \in Nat /\ s0 = 4 * C + 2
  BY <1>1, Places DEF C, ChainTypes
<1>3. s \in Nat /\ s0 <= s /\ (s = s0 \/ s = 4 * C + 3)
  BY <1>2 DEF OutputOf
<1>4. infos \in Seq(WorkType) /\ Rising(infos)
  BY DEF ChainTypes, ChainOrder
<1>5. \A i \in DOMAIN infos' : infos'[i].outs = 0
        => \E j \in DOMAIN infos : j # 1 /\ infos'[i] = infos[j]
  <2>1. CASE infos' = <<w>> \o Tail(infos) /\ w.outs # 0
    <3>1. DOMAIN infos' = DOMAIN infos /\ infos'[1] = w
          /\ \A i \in DOMAIN infos : i # 1 => infos'[i] = infos[i]
      BY <1>4, <2>1, RisingReplaced
    <3> QED BY <2>1, <3>1
  <2>2. CASE infos' = Tail(infos)
    <3>1. \A j \in DOMAIN infos' : j + 1 \in DOMAIN infos /\ infos'[j] = infos[j + 1] /\ j + 1 # 1
      BY <1>4, <2>2, RisingTail
    <3> QED BY <3>1
  <2> QED BY <1>2, <1>3, <2>1, <2>2 DEF OutputOf
<1>6. \A i \in DOMAIN infos' : infos'[i].outs = 0 =>
        \/ \E j \in DOMAIN infos : infos[j].outs = 0 /\ infos[j].id = infos'[i].id
        \/ s0 <= 4 * C + 1 /\ infos'[i].id = n
  BY <1>5
<1> HIDE DEF n, s0, q0
<1>7. MovesTo(View, View', n, s, q, o)
  BY DEF n
<1>8. Cuts' \in SUBSET Cuts /\ Cuts \in SUBSET Nat
  BY <1>1, <1>2, <1>3, <1>6, <1>7, CutsMoved
<1>9. ASSUME NEW m \in Cuts' PROVE n < m
  <2>1. /\ m \in Nat
        /\ \/ m > works
           \/ \E r \in View' : r.st <= 4 * C + 1 /\ r.id = m
           \/ \E i \in DOMAIN infos' : infos'[i].outs = 0 /\ infos'[i].id = m
    BY <1>2, <1>9 DEF Cuts, Unanswered
  <2>2. CASE m > works
    BY <1>1, <1>2, <2>1, <2>2
  <2>3. CASE \E r \in View' : r.st <= 4 * C + 1 /\ r.id = m
    <3>1. PICK r \in View' : r.st <= 4 * C + 1 /\ r.id = m
      BY <2>3
    <3>2. r.st \in Nat /\ r.st < s0 /\ r.st # s
      BY <1>2, <1>3, <3>1 DEF View, ViewType
    <3>3. r \in View /\ r.id # n
      BY <1>7, <3>2 DEF MovesTo, Is
    <3>4. r.id >= n
      BY <1>1, <1>2, <3>2, <3>3
    <3> QED BY <1>2, <2>1, <3>1, <3>3, <3>4
  <2>4. CASE \E i \in DOMAIN infos' : infos'[i].outs = 0 /\ infos'[i].id = m
    <3>1. PICK j \in DOMAIN infos : j # 1 /\ infos[j].id = m
      BY <1>5, <2>4
    <3>2. 1 < j
      BY <1>1, <1>4, <3>1
    <3> QED BY <1>1, <1>4, <3>1, <3>2 DEF Rising, n
  <2> QED BY <2>1, <2>2, <2>3, <2>4
<1> QED BY <1>8, <1>9 DEF n

\* A work that rests behind the codec may wait there.
LEMMA Waiting ==
  ASSUME ChainTypes, NEW w \in WorkType, AtRest(w, C + 1)
  PROVE  w \in Waits[C + 1]
<1>1. C + 1 \in 1..(NumFilters + 1)
  BY Places
<1> QED BY <1>1 DEF Waits

\* An output of the codec.
LEMMA Output ==
  ASSUME ChainInv, Chain!CodecOutput
  PROVE  ChainInv'
<1> USE DEF ChainInv
<1>1. C \in Line /\ C \in Nat /\ C >= 1 /\ ~(0 \in Line) /\ \A g \in Line : g \in Nat
  BY Places DEF Line, Chain!Filters
<1> DEFINE h == infos[1]
           w == Chain!WithOutput(h, Chain!Buffer(h.outs + 1))
           n == h.id
           q == h.params
           q2 == IF q # 0 THEN q ELSE pending
<1>2. infos # <<>>
  BY DEF Chain!CodecOutput
<1>3. /\ 1 \in DOMAIN infos /\ h \in WorkType /\ Head(infos) = h
      /\ h \in Waits[C + 1] /\ AtRest(h, C + 1)
      /\ n \in 1..works /\ q \in Nat /\ q <= n
      /\ First(View, n, 4 * C + 2, q)
      /\ \A x \in View : x.id = n => x.on
      /\ \A x \in View : x.st <= 4 * C + 2 => x.id >= n
      /\ \A x \in View : x.st >= 4 * C + 3 => x.id < n
      /\ pending < n
      /\ \A g \in Line : g > C => applied[g] < n
  BY <1>2, InfoAhead
<1>4. /\ h.outs < limits.outs
      /\ \/ infos' = <<w>> \o Tail(infos) /\ tasks' = tasks
         \/ infos' = Tail(infos)
            /\ tasks' = [tasks EXCEPT ![C] = Append(@, Chain!WorkTask("done", w))]
      /\ pending' = 0
      /\ UNCHANGED <<limits, place, works, caller, job, applied, finished, given, gone, stray, stale, behind, stops, failures>>
  BY <1>3 DEF Chain!CodecOutput, C, Chain!None
<1>5. Goes(w, h, 1, q2)
  <2>1. Goes(w, h, 1, Chain!Merged(pending, q))
    BY <1>3, <1>4, OutputIs
  <2> QED BY <2>1 DEF Chain!Merged, Chain!None
<1>6. w \in WorkType /\ AtRest(w, C + 1) /\ w.id = n /\ w.params = q2 /\ On(w)
  BY <1>5 DEF Goes
<1>7. w \in Waits[C + 1]
  BY <1>6, Waiting
<1>8. w.outs # 0
  <2>1. h.outs \in Nat /\ w.outs = h.outs + 1
    BY <1>3, <1>5 DEF Goes, WorkType
  <2> QED BY <2>1
<1> HIDE DEF w, h
<1>9. PICK b, t, s : OutputOf(b, t, w, s)
  <2>1. CASE infos' = <<w>> \o Tail(infos) /\ tasks' = tasks
    <3>1. Shifted(0, 0, 0)
      BY <1>4, <2>1, NothingShifted
    <3>2. OutputOf(0, 0, w, 4 * C + 2)
      BY <1>4, <1>6, <2>1, <3>1 DEF OutputOf
    <3> QED BY <3>2
  <2>2. CASE infos' = Tail(infos)
        /\ tasks' = [tasks EXCEPT ![C] = Append(@, Chain!WorkTask("done", w))]
    <3>1. Shifted(0, C, [op |-> "done", work |-> w])
      BY <1>1, <1>4, <1>6, <2>2, PostingOne
    <3>2. OutputOf(C, [op |-> "done", work |-> w], w, 4 * C + 3)
      BY <2>2, <3>1 DEF OutputOf
    <3> QED BY <3>2
  <2> QED BY <1>4, <2>1, <2>2
<1>10. w.id = infos[1].id
  BY <1>6 DEF h
<1>11. /\ ChainWorks' /\ ChainCalls' /\ ChainGone'
       /\ tasks' \in [Line -> Seq(TaskType)] /\ infos' \in Seq(WorkType) /\ Rising(infos')
       /\ \A i \in DOMAIN infos' : infos'[i].outs > 0 => i = 1 /\ (infos'[i] = w /\ pending' = 0)
  BY <1>2, <1>4, <1>6, <1>7, <1>9, <1>10, AnswersKept
<1>12. ChainOrder' /\ MovesTo(View, View', w.id, s, w.params, On(w))
  <2>1. pending' \in Nat /\ pending' <= w.id
    BY <1>3, <1>4, <1>6
  <2>2. \A i \in DOMAIN infos' : infos'[i].outs > 0 => i = 1 /\ pending' = 0
    BY <1>11
  <2> QED BY <1>2, <1>4, <1>6, <1>9, <1>10, <1>11, <2>1, <2>2, AnswersOrder
<1>13. ChainTypes'
  <2>1. /\ caller \in CallerType /\ finished \in Seq(WorkType)
           /\ given \in [Line -> SUBSET (1..works)]
        /\ job \in [Line -> JobType] /\ applied \in [Line -> Nat] /\ 0 \in Nat
        /\ gone \in 0..works /\ stray \in SUBSET (1..works)
        /\ stale \in BOOLEAN /\ behind \in BOOLEAN /\ stops \in Nat /\ failures \in Nat
    BY DEF ChainTypes
  <2> QED BY <1>4, <1>11, <2>1, TypesKept
<1>14. s \in {4 * C + 2, 4 * C + 3} /\ s \in Nat /\ s > 4 * C + 1 /\ 4 * C + 2 > 4 * C + 1
       /\ 4 * C + 2 \in Nat
  <2>1. s = 4 * C + 2 \/ s = 4 * C + 3
    BY <1>9 DEF OutputOf
  <2> QED BY <1>1, <2>1
<1>15. /\ Cuts' \in SUBSET Cuts /\ Cuts \in SUBSET Nat
       /\ \A m \in Cuts' : w.id < m
  BY <1>2, <1>4, <1>6, <1>9, <1>10, <1>12, <1>8, CutsAnswered
<1>16. SettingsGo
  <2>1. ASSUME ~behind', NEW g \in Line PROVE Settled(View', given'[g], applied'[g], pending', C', g, Cuts')
    <3> DEFINE o == TRUE
    <3>1. Settled(View, given[g], applied[g], pending, C, g, Cuts)
      BY <1>4, <2>1 DEF ChainSettings
    <3>2. /\ View \in SUBSET ViewType /\ View' \in SUBSET ViewType /\ applied[g] \in Nat
          /\ given[g] \in SUBSET (Nat \ {0}) /\ pending \in Nat /\ g \in Nat /\ n \in Nat
             /\ q2 \in Nat
      <4>1. given[g] \in SUBSET (1..works) /\ works \in Nat /\ pending \in Nat /\ applied[g] \in Nat
        BY DEF ChainTypes
      <4>2. given[g] \in SUBSET (Nat \ {0})
        BY <4>1
      <4>3. View \in SUBSET ViewType /\ View' \in SUBSET ViewType
        BY DEF View
      <4>4. g \in Nat
        BY <1>1
      <4>5. n \in 1..works /\ q \in Nat
        BY <1>3
      <4> HIDE DEF n, q
      <4>6. n \in Nat /\ q2 \in Nat
        BY <4>1, <4>5
      <4> QED BY <4>1, <4>2, <4>3, <4>4, <4>6
    <3>3. MovesTo(View, View', n, s, q2, TRUE)
      <4>1. On(w) = TRUE
        BY <1>6, OnIs
      <4> QED BY <1>6, <1>12, <4>1
    <3>4. MovesTo(View, View', n, s, q2, o)
      BY <3>3
    <3>5. o \in BOOLEAN /\ o = TRUE
      OBVIOUS
    <3> HIDE DEF o
    <3>6. CASE g <= C
      <4>1. Settled(View', given[g], applied[g], 0, C, g, Cuts')
        BY <1>1, <1>3, <1>14, <1>15, <3>1, <3>2, <3>4, <3>6, SettledBefore
      <4> QED BY <1>4, <4>1 DEF C
    <3>7. CASE g > C
      <4>1. q2 = IF q # 0 THEN q ELSE pending
        OBVIOUS
      <4> HIDE DEF n, q, q2
      <4> DEFINE V2 == View'
                 S == given[g]
                 a == applied[g]
                 p == pending
                 cd == C
                 M == Cuts
                 M2 == Cuts'
      <4>2. M \in SUBSET Nat /\ M2 \in SUBSET M /\ \A m \in M2 : n < m
        BY <1>6, <1>15
      <4>3. /\ View \in SUBSET ViewType /\ V2 \in SUBSET ViewType /\ S \in SUBSET (Nat \ {0})
               /\ n \in Nat
            /\ a \in Nat /\ p \in Nat /\ cd \in Nat /\ g \in Nat /\ g > cd /\ q \in Nat
               /\ q2 \in Nat
            /\ p < n /\ o \in BOOLEAN /\ o = TRUE
        BY <1>1, <1>3, <3>2, <3>7, <3>5
      <4>4. (q # 0 => q2 = q) /\ (q = 0 => q2 = p)
        BY <4>1
      <4>5. s \in Nat /\ (s = 4 * cd + 2 \/ s = 4 * cd + 3)
        BY <1>14
      <4>6. /\ First(View, n, 4 * cd + 2, q) /\ \A x \in View : x.id = n => x.on
            /\ \A x \in View : x.st <= 4 * cd + 2 => x.id >= n
            /\ \A x \in View : x.st >= 4 * cd + 3 => x.id < n
        BY <1>3
      <4>7. Settled(View, S, a, p, cd, g, M) /\ MovesTo(View, V2, n, s, q2, o)
        BY <3>1, <3>4
      <4> HIDE DEF V2, S, a, p, cd, M, M2
      <4>8. Settled(V2, S, a, 0, cd, g, M2)
        BY ONLY <4>3, <4>4, <4>5, <4>6, <4>7, <4>2, SettledAnswered
      <4>9. Settled(View', given[g], applied[g], 0, C, g, Cuts')
        BY <4>8 DEF V2, S, a, cd, M2
      <4> QED BY <1>4, <4>9 DEF C
    <3> QED BY <1>1, <3>2, <3>6, <3>7
  <2>2. stale' => behind'
    BY <1>4 DEF ChainSettings, Chain!SettingsReach
  <2> QED BY <2>1, <2>2 DEF SettingsGo
<1> QED BY <1>11, <1>12, <1>13, <1>16, SettingsGoOn

\* An input of the codec that is answered without an output.
LEMMA NoOutput ==
  ASSUME ChainInv, Chain!CodecNoOutput
  PROVE  ChainInv'
<1> USE DEF ChainInv
<1>1. C \in Line /\ C \in Nat /\ C >= 1 /\ ~(0 \in Line) /\ \A g \in Line : g \in Nat
  BY Places DEF Line, Chain!Filters
<1> DEFINE h == infos[1]
           alone == h.csd /\ h.params # 0
           w == IF alone
                THEN [Chain!Pushed(h, [Chain!Buffer(h.outs + 1) EXCEPT !.replica = TRUE], FALSE) EXCEPT !.outs = @ + 1]
                ELSE h
           n == h.id
           q == h.params
           s == 4 * C + 3
           t == [op |-> "done", work |-> w]
<1>2. infos # <<>>
  BY DEF Chain!CodecNoOutput
<1>3. /\ 1 \in DOMAIN infos /\ h \in WorkType /\ Head(infos) = h
      /\ h \in Waits[C + 1] /\ AtRest(h, C + 1)
      /\ n \in 1..works /\ q \in Nat /\ q <= n
      /\ First(View, n, 4 * C + 2, q)
      /\ \A x \in View : x.id = n => x.on
      /\ \A x \in View : x.st <= 4 * C + 2 => x.id >= n
      /\ \A x \in View : x.st >= 4 * C + 3 => x.id < n
      /\ pending < n
      /\ \A g \in Line : g > C => applied[g] < n
  BY <1>2, InfoAhead
<1>4. /\ h.outs < limits.outs
      /\ tasks' = [tasks EXCEPT ![C] = Append(@, Chain!WorkTask("done", w))]
      /\ pending' = IF alone THEN pending ELSE Chain!Merged(pending, q)
      /\ behind' = (behind \/ (alone /\ pending # 0))
      /\ infos' = Tail(infos)
      /\ UNCHANGED <<limits, place, works, caller, job, applied, finished, given, gone, stray, stale, stops, failures>>
  BY <1>3 DEF Chain!CodecNoOutput, C, Chain!None
<1>5. /\ w \in WorkType /\ AtRest(w, C + 1) /\ w.id = n /\ w.params = q
      /\ alone => On(w)
      /\ ~alone => w = h
  <2>1. CASE alone
    <3>1. Goes(w, h, 1, q)
      BY <1>3, <1>4, <2>1, ReplicaIs
    <3> QED BY <2>1, <3>1 DEF Goes
  <2>2. CASE ~alone
    BY <1>3, <2>2
  <2> QED BY <2>1, <2>2
<1>6. pending \in Nat /\ n \in Nat /\ works \in Nat /\ s \in Nat /\ behind \in BOOLEAN
  BY <1>1, <1>3 DEF ChainTypes
<1>7. /\ pending' \in Nat /\ pending' <= n
      /\ alone => pending' = pending
      /\ ~alone => (q # 0 => pending' = q) /\ (q = 0 => pending' = pending)
  BY <1>3, <1>4, <1>6 DEF Chain!Merged, Chain!None
<1>8. w \in Waits[C + 1]
  BY <1>5, Waiting
<1>9. ~alone /\ On(w) => pending = 0
  <2> SUFFICES ASSUME ~alone, On(w) PROVE pending = 0
    OBVIOUS
  <2>1. h.inputIndex < Len(h.buffers)
    BY <1>5 DEF On
  <2>2. Len(h.buffers) - h.inputIndex = h.outs
    BY <1>1, <1>3 DEF AtRest, Size
  <2>3. h.outs > 0
    <3>1. h.outs \in Nat /\ h.inputIndex \in Int /\ h.buffers \in Seq(Item)
      BY <1>3 DEF WorkType
    <3>2. Len(h.buffers) \in Nat
      BY <3>1
    <3> QED BY <2>1, <2>2, <3>1, <3>2
  <2> QED BY <1>3, <2>3 DEF ChainOrder
<1>10. /\ ~behind' => ~behind /\ (alone => pending = 0)
       /\ behind => behind'
       /\ behind' \in BOOLEAN
  BY <1>4, <1>6
<1>11. w.id = infos[1].id
  BY <1>5
<1>12. On(w) \in BOOLEAN
  BY <1>5, OnIs
<1> HIDE DEF w, h, alone
<1>13. OutputOf(C, t, w, s)
  <2>1. Shifted(0, C, [op |-> "done", work |-> w])
    BY <1>1, <1>4, <1>5, PostingOne
  <2> QED BY <1>4, <2>1 DEF OutputOf
<1>14. /\ ChainWorks' /\ ChainCalls' /\ ChainGone'
       /\ tasks' \in [Line -> Seq(TaskType)] /\ infos' \in Seq(WorkType) /\ Rising(infos')
       /\ \A i \in DOMAIN infos' : infos'[i].outs > 0 => i = 1 /\ (infos'[i] = w /\ pending' = 0)
  BY <1>2, <1>4, <1>5, <1>8, <1>11, <1>13, AnswersKept
<1>15. ChainOrder' /\ MovesTo(View, View', w.id, s, w.params, On(w))
  <2>1. \A i \in DOMAIN infos' : infos'[i].outs > 0 => i = 1 /\ pending' = 0
    BY <1>14
  <2>2. pending' <= w.id
    BY <1>5, <1>7
  <2> QED BY <1>2, <1>4, <1>5, <1>7, <1>11, <1>13, <1>14, <2>1, <2>2, AnswersOrder
<1>16. ChainTypes'
  <2>1. /\ caller \in CallerType /\ finished \in Seq(WorkType)
           /\ given \in [Line -> SUBSET (1..works)]
        /\ job \in [Line -> JobType] /\ applied \in [Line -> Nat]
        /\ gone \in 0..works /\ stray \in SUBSET (1..works)
        /\ stale \in BOOLEAN /\ stops \in Nat /\ failures \in Nat
    BY DEF ChainTypes
  <2> QED BY <1>4, <1>7, <1>10, <1>14, <2>1, TypesKept
<1>17. /\ Cuts' \in SUBSET Cuts /\ Cuts \in SUBSET Nat
       /\ \A m \in Cuts' : w.id < m
  <2>1. s # 4 * C + 2
    BY <1>1
  <2> QED BY <1>2, <1>4, <1>5, <1>11, <1>13, <1>15, <2>1, CutsAnswered
<1>18. SettingsGo
  <2>1. ASSUME ~behind', NEW g \in Line PROVE Settled(View', given'[g], applied'[g], pending', C', g, Cuts')
    <3> DEFINE V2 == View'
               S == given[g]
               a == applied[g]
               p == pending
               p2 == pending'
               cd == C
               o == On(w)
               s0 == 4 * C + 2
               M == Cuts
               M2 == Cuts'
    <3>1. M \in SUBSET Nat /\ M2 \in SUBSET M /\ \A m \in M2 : n < m
      BY <1>5, <1>17
    <3>2. Settled(View, S, a, p, cd, g, M)
      BY <1>10, <2>1 DEF ChainSettings
    <3>3. /\ View \in SUBSET ViewType /\ V2 \in SUBSET ViewType /\ a \in Nat
          /\ S \in SUBSET (Nat \ {0}) /\ p \in Nat /\ g \in Nat /\ n \in Nat /\ q \in Nat
             /\ p2 \in Nat /\ cd \in Nat
          /\ cd >= 1 /\ o \in BOOLEAN /\ s0 \in Nat /\ s \in Nat /\ s0 <= s /\ s0 > 4 * cd + 1
             /\ s > 4 * cd + 1
          /\ s0 = 4 * cd + 2 /\ s = 4 * cd + 3
      <4>1. given[g] \in SUBSET (1..works) /\ works \in Nat /\ applied[g] \in Nat
        BY DEF ChainTypes
      <4> QED BY <1>1, <1>3, <1>6, <1>7, <1>12, <4>1 DEF View
    <3>4. First(View, n, s0, q) /\ MovesTo(View, V2, n, s, q, o)
      BY <1>3, <1>5, <1>15
    <3>5. Settled(View', given'[g], applied'[g], pending', C', g, Cuts') <=> Settled(V2, S, a, p2, cd, g, M2)
      BY <1>4 DEF C
    <3>6. /\ q <= n /\ \A x \in View : x.id = n => x.on
          /\ \A x \in View : x.st <= 4 * cd + 2 => x.id >= n
          /\ \A x \in View : x.st >= 4 * cd + 3 => x.id < n
          /\ p < n /\ (g > cd => a < n)
          /\ \A x \in View : x.params <= x.id
      BY <1>3, OwnSettings
    <3>7. /\ alone => p2 = p /\ p = 0 /\ o
          /\ ~alone => (q # 0 => p2 = q) /\ (q = 0 => p2 = p) /\ (o => p = 0)
      BY <1>5, <1>7, <1>9, <1>10, <2>1
    <3> HIDE DEF V2, S, a, p, p2, cd, o, s0, n, q, s, M, M2
    <3>8. CASE g <= cd
      <4>1. Settled(V2, S, a, p2, cd, g, M2)
        BY <3>2, <3>3, <3>4, <3>8, <3>1, SettledBefore
      <4> QED BY <3>5, <4>1
    <3>9. CASE g > cd /\ ~alone
      <4>1. First(View, n, 4 * cd + 2, q) /\ MovesTo(View, V2, n, 4 * cd + 3, q, o) /\ g > cd
            /\ a < n
            /\ (q # 0 => p2 = q) /\ (q = 0 => p2 = p) /\ (o => p = 0)
        BY <3>3, <3>4, <3>6, <3>7, <3>9
      <4>2. Settled(V2, S, a, p2, cd, g, M2)
        BY ONLY <3>2, <3>3, <3>6, <3>1, <4>1, SettledHeld
      <4> QED BY <3>5, <4>2
    <3>10. CASE g > cd /\ alone
      <4> DEFINE o0 == TRUE
      <4>1. \A x \in View : x.id = n => (x.on <=> o0)
        BY <3>6
      <4>2. /\ g > cd /\ p # 0 /\ o /\ s >= 4 * cd + 3 => s0 >= 4 * cd + 3
            /\ o0 /\ s0 <= 4 * g + 1 /\ (s > 4 * g + 1 \/ ~o) => \A v \in S : q >= v => v <= a
            /\ g > cd /\ p # 0 /\ o0 /\ s0 <= 4 * cd + 2 => o /\ s <= 4 * cd + 2
            /\ \A v \in S : v <= a => v <= a
            /\ o0 \in BOOLEAN /\ (o => o0) /\ S \in SUBSET S
        <5>1. p = 0 /\ o
          BY <3>7, <3>10
        <5>2. ~(s > 4 * g + 1)
          BY <3>3, <3>10
        <5> QED BY <5>1, <5>2
      <4> HIDE DEF o0
      <4>3. Settled(V2, S, a, p, cd, g, M2)
        BY <3>2, <3>3, <3>4, <3>1, <4>1, <4>2, SettledMoved
      <4> QED BY <3>5, <3>7, <3>10, <4>3
    <3> QED BY <3>3, <3>8, <3>9, <3>10
  <2>2. stale' => behind'
    BY <1>4, <1>10 DEF ChainSettings, Chain!SettingsReach
  <2> QED BY <2>1, <2>2 DEF SettingsGo
<1> QED BY <1>14, <1>15, <1>16, <1>18, SettingsGoOn

\* No setting is newer than the last work, and a flush or a stop that goes on was counted.
ChainBounds ==
  /\ pending <= works /\ \A f \in Line : applied[f] <= works
  /\ caller.step # "idle" => stops >= 1

\* No work has the number of one that is still to come.
LEMMA NobodyNew ==
  ASSUME ChainTypes, ChainWorks
  PROVE  /\ \A x \in View : x.id <= works /\ x.id \in Nat /\ x.st \in Nat /\ x.st >= 4
         /\ \A g \in Line : \A j \in DOMAIN tasks[g] : IsWork(tasks[g][j])
            => tasks[g][j].work.id <= works
         /\ \A g \in Line : job[g] # NoJob => job[g].work.id <= works
         /\ \A j \in DOMAIN infos : infos[j].id <= works
         /\ \A j \in DOMAIN finished : finished[j].id <= works
<1>1. \A x \in View : x.id <= works /\ x.id \in Nat /\ x.st \in Nat
  BY OwnSettings, Whence
<1>2. ASSUME NEW x \in View PROVE x.st >= 4
  <2>1. C \in Nat /\ NumFilters \in Nat /\ C >= 1 /\ NumFilters >= 1 /\ \A f \in Line : f \in Nat
        /\ f >= 1
    BY Places
  <2>2. (\E f \in Line : x.st = 4 * f \/ x.st = 4 * f + 1) \/ x.st = 4 * C + 2 \/ x.st = 4 * C + 3 \/ x.st = 4 * NumFilters + 4
    BY Whence DEF Sees
  <2>3. CASE \E f \in Line : x.st = 4 * f \/ x.st = 4 * f + 1
    BY <2>1, <2>3
  <2>4. CASE x.st = 4 * C + 2 \/ x.st = 4 * C + 3 \/ x.st = 4 * NumFilters + 4
    BY <2>1, <2>4
  <2> QED BY <2>2, <2>3, <2>4
<1> QED BY <1>1, <1>2, Seen DEF Sees

\* queueWork(): a new work, perhaps with a setting, waits at the first filter.
LEMMA Queueing ==
  ASSUME ChainInv, ChainBounds, Chain!QueueWork
  PROVE  ChainInv' /\ ChainBounds'
<1> USE DEF ChainInv
<1>1. 1 \in Line /\ C \in Line /\ C \in Nat /\ C >= 1 /\ ~(0 \in Line) /\ 1 # 0
      /\ \A g \in Line : g \in Nat /\ g >= 1
  BY Places DEF Line, Chain!Filters
<1>2. PICK q \in {0, works + 1}, csd \in BOOLEAN :
        /\ tasks' = [tasks EXCEPT ![1] = Append(@, Chain!WorkTask("work", Chain!NewWork(works + 1, q, csd)))]
        /\ given' = [f \in Line |-> given[f] \cup ({q} \ {0})]
  BY DEF Chain!QueueWork, Chain!None, Line
<1> DEFINE n == works + 1
           w == Chain!NewWork(works + 1, q, csd)
           t == [op |-> "work", work |-> w]
           s == 4
           o == TRUE
<1>3. /\ caller = Chain!Idle /\ works' = works + 1 /\ works < limits.works
      /\ UNCHANGED <<limits, place, caller, job, infos, pending, applied, finished, gone, stray, stale, behind, stops, failures>>
  BY DEF Chain!QueueWork
<1>4. /\ works \in Nat /\ n \in Nat /\ q \in Nat /\ (q = 0 \/ q = works + 1) /\ q <= works + 1
         /\ n >= 1 /\ works < n
      /\ works <= n /\ s \in Nat /\ o \in BOOLEAN
  BY <1>2 DEF ChainTypes
<1>5. IsNew(w, works + 1, q, limits)
  BY <1>2, <1>4, NewWorkIs
<1>6. /\ w \in WorkType /\ w.id = n /\ w.params = q /\ On(w) = o
  BY <1>5, OnIs DEF IsNew
<1>7. w \in Waits[1]'
  BY <1>3, <1>4, <1>5, NewWaits
<1>8. t.op = "work" /\ t.work = w /\ IsWork(t) /\ s = StepOf(1, t)
  BY DEF IsWork, StepOf
<1> HIDE DEF w, o, s
<1>9. Shifted(0, 1, t)
  BY <1>1, <1>2, <1>3, <1>6, PostingOne DEF w
<1> HIDE DEF t, n
<1>10. caller.step = "idle" /\ NoJob' = NoJob /\ C' = C /\ place' = place /\ limits' = limits
  BY <1>3 DEF Chain!Idle, NoJob, Chain!NoJob, Chain!NewWork, C
<1>11. ChainWorks'
  <2>1. 1 \in Line => /\ t.op = "work" => t.work \in Waits[1]'
                      /\ t.op = "done" => t.work \in Waits[C + 1]' /\ 1 = C
    BY <1>7, <1>8
  <2>2. \A f \in Line : job'[f] = NoJob \/ job'[f] = job[f] \/ job'[f] \in Runs[f]'
    BY <1>3
  <2>3. \A i \in DOMAIN infos' : infos'[i] \in Waits[C + 1]' \/ \E j \in DOMAIN infos : infos'[i] = infos[j]
    BY <1>3
  <2>4. \A i \in DOMAIN finished' : \/ finished'[i] \in Waits[NumFilters + 1]'
                                    \/ \E j \in DOMAIN finished : finished'[i] = finished[j]
    BY <1>3
  <2> QED BY <1>9, <2>1, <2>2, <2>3, <2>4, WaitsKept
<1>12. ChainCalls'
  <2>1. 1 \in Line => /\ t.op = "work" => caller.step = "idle" \/ caller.at # 1
                      /\ t.op = "done" => 1 = C /\ infos # <<>>
    BY <1>8, <1>10
  <2>2. \A f \in Line : job'[f] = NoJob \/ job[f] # NoJob \/ (f = 0 /\ tasks[0][1].op = "work")
    BY <1>3
  <2>3. infos' = <<>> \/ infos # <<>> \/ job[C] # NoJob
    BY <1>3
  <2> QED BY <1>9, <2>1, <2>2, <2>3, CallsKept
<1>13. ChainGone'
  <2>1. 1 \in Line /\ Left(1) => Old(t.work.id)
    <3>1. gone \in 0..works /\ n > gone
      BY <1>4 DEF ChainTypes
    <3> QED BY <1>6, <1>8, <1>10, <3>1 DEF Old
  <2>2. \A f \in Line : job'[f] = NoJob \/ job'[f] = job[f] \/ (Left(f) => Old(job'[f].work.id))
    BY <1>3
  <2>3. Left(C)
        => \A i \in DOMAIN infos' : Old(infos'[i].id) \/ \E j \in DOMAIN infos : infos'[i].id = infos[j].id
    BY <1>3
  <2> QED BY <1>9, <2>1, <2>2, <2>3, RemnantsKept
<1>14. /\ \A x \in View : x.id < n /\ x.id \in Nat /\ x.st \in Nat /\ x.st >= 4
       /\ \A g \in Line : \A j \in DOMAIN tasks[g] : IsWork(tasks[g][j]) => tasks[g][j].work.id < n
          /\ tasks[g][j].work.id # n
       /\ \A g \in Line : job[g] # NoJob => job[g].work.id # n
       /\ \A j \in DOMAIN infos : infos[j].id # n
       /\ \A j \in DOMAIN finished : finished[j].id # n
  <2>1. /\ \A g \in Line : \A j \in DOMAIN tasks[g] : tasks[g][j].work.id \in Nat
        /\ \A g \in Line : job[g].work.id \in Nat
        /\ \A j \in DOMAIN infos : infos[j].id \in Nat
        /\ \A j \in DOMAIN finished : finished[j].id \in Nat
    BY Places DEF WorkType
  <2> QED BY <1>4, <2>1, NobodyNew DEF n
<1>15. tasks' \in ChainPools /\ Passed(tasks, tasks', 0, 1, t)
  BY <1>9 DEF Shifted
<1>16. Travels(0, 1, t, n, s, q, o)
  <2>1. /\ \A g \in Line : job[g] # NoJob /\ job[g].work.id # n => job'[g] = job[g]
        /\ \A g \in Line : job'[g] # NoJob => job'[g] = job[g] /\ job[g].work.id # n
    BY <1>3, <1>14
  <2>2. /\ \A i \in DOMAIN finished : finished[i].id # n
           => \E j \in DOMAIN finished' : finished'[j] = finished[i]
        /\ \A j \in DOMAIN finished' : \E i \in DOMAIN finished : finished'[j] = finished[i]
           /\ finished[i].id # n
    BY <1>3, <1>14
  <2>3. \A g \in Line : \A i \in DOMAIN tasks[g] : IsWork(tasks[g][i]) /\ tasks[g][i].work.id = n
        => g = 0 /\ i = 1
    BY <1>14
  <2>4. /\ \A i \in DOMAIN infos : infos[i].id # n => \E j \in DOMAIN infos' : infos'[j] = infos[i]
        /\ \A j \in DOMAIN infos' : \E i \in DOMAIN infos : infos'[j] = infos[i] /\ infos[i].id # n
    BY <1>3, <1>14
  <2>5. 1 \in Line => IsWork(t) /\ s = StepOf(1, t) /\ t.work.id = n /\ t.work.params = q
        /\ On(t.work) = o
    BY <1>6, <1>8 DEF s
  <2> QED BY <1>1, <1>15, <2>1, <2>2, <2>3, <2>4, <2>5 DEF Travels
<1>17. MovesTo(View, View', n, s, q, o)
  BY <1>1, <1>4, <1>10, <1>16, Moving
<1>18. \A x \in View' : (x \in View /\ x.id < n) \/ (x.st = 4 /\ x.id = n)
  BY <1>14, <1>17 DEF MovesTo, Is, s
<1>19. ChainOrder'
  <2>1. Ordered(View')
    <3> SUFFICES ASSUME NEW x \in View', NEW y \in View', x.st < y.st PROVE x.id > y.id
      BY DEF Ordered
    <3>1. CASE x \in View /\ y \in View
      BY <3>1 DEF ChainOrder, Ordered
    <3>2. CASE x.st = 4 /\ x.id = n /\ y \in View
      BY <1>4, <1>14, <3>2
    <3>3. CASE y.st = 4 /\ y.id = n
      BY <1>14, <1>18, <3>3
    <3> QED BY <1>18, <3>1, <3>2, <3>3
  <2>2. ASSUME NEW f \in Line, NEW i \in DOMAIN tasks'[f], NEW j \in DOMAIN tasks'[f],
               i < j, tasks'[f][i].op = tasks'[f][j].op, tasks'[f][i].op \in {"work", "done"}
        PROVE  tasks'[f][i].work.id < tasks'[f][j].work.id
    <3>1. tasks'[f] \in Seq(TaskType) /\ DOMAIN tasks'[f] = 1..Len(tasks'[f])
          /\ Len(tasks'[f]) \in Nat
      BY <1>15 DEF ChainPools
    <3>2. \A k \in DOMAIN tasks'[f] :
            \/ f = 1 /\ k = Len(tasks'[f]) /\ tasks'[f][k] = t
            \/ k \in DOMAIN tasks[f] /\ tasks'[f][k] = tasks[f][k]
      <4>1. tasks \in ChainPools /\ (0 # 1 \/ 0 = 0)
        BY DEF ChainTypes, ChainPools
      <4> QED BY <1>1, <1>15, <4>1, Comes
    <3>3. i \in DOMAIN tasks[f] /\ tasks'[f][i] = tasks[f][i]
      BY <2>2, <3>1, <3>2
    <3>4. CASE tasks'[f][j] = t
      <4>1. IsWork(tasks[f][i])
        BY <2>2, <3>3 DEF IsWork
      <4> QED BY <1>6, <1>8, <1>14, <3>3, <3>4, <4>1
    <3>5. CASE j \in DOMAIN tasks[f] /\ tasks'[f][j] = tasks[f][j]
      BY <2>2, <3>3, <3>5 DEF ChainOrder
    <3> QED BY <3>2, <3>4, <3>5
  <2>3. /\ Rising(infos') /\ Rising(finished')
        /\ \A i \in DOMAIN infos' : infos'[i].outs > 0 => i = 1 /\ pending' = 0
    BY <1>3 DEF ChainOrder
  <2>4. pending \in Nat /\ pending < n /\ \A f \in Line : applied[f] < n /\ applied[f] \in Nat
    BY <1>4 DEF ChainBounds, ChainTypes, n
  <2>5. \A r \in View' : r.st <= 4 * C' + 2 => pending' < r.id
    BY <1>3, <1>10, <1>18, <2>4 DEF ChainOrder
  <2>6. ASSUME NEW f \in Line, NEW r \in View'
        PROVE  (r.st <= 4 * f => applied'[f] < r.id) /\ (r.st = 4 * f + 1 => applied'[f] <= r.id)
    <3>1. CASE r \in View
      BY <1>3, <3>1 DEF ChainOrder
    <3>2. CASE r.st = 4 /\ r.id = n
      BY <1>1, <1>3, <2>4, <3>2
    <3> QED BY <1>18, <3>1, <3>2
  <2> QED BY <2>1, <2>2, <2>3, <2>5, <2>6 DEF ChainOrder
<1>20. ChainTypes'
  <2>1. /\ WorkType' = WorkType /\ TaskType' = TaskType /\ JobType' = JobType
    BY <1>3, <1>4, RestKept DEF n
  <2>2. given \in [Line -> SUBSET (1..works)] /\ gone \in 0..works /\ stray \in SUBSET (1..works)
    BY DEF ChainTypes
  <2>3. given' \in [Line -> SUBSET (1..works')]
    <3>1. {q} \ {0} \subseteq 1..works'
      BY <1>3, <1>4
    <3>2. \A f \in Line : given[f] \subseteq 1..works'
      BY <1>3, <1>4, <2>2
    <3> QED BY <1>2, <3>1, <3>2
  <2>4. gone' \in 0..works' /\ stray' \in SUBSET (1..works')
    BY <1>3, <1>4, <2>2
  <2>5. /\ limits \in Bounds /\ C \in {1, NumFilters - 1} /\ limits.works \in Nat
        /\ caller \in CallerType /\ job \in [Line -> JobType] /\ infos \in Seq(WorkType)
           /\ finished \in Seq(WorkType)
        /\ pending \in Nat /\ applied \in [Line -> Nat]
        /\ stale \in BOOLEAN /\ behind \in BOOLEAN /\ stops \in Nat /\ failures \in Nat
    BY ChainConstants DEF ChainTypes
  <2>6. works' \in Nat /\ works' <= limits'.works
    BY <1>3, <1>4, <2>5
  <2>7. tasks' \in [Line -> Seq(TaskType)]
    BY <1>15 DEF ChainPools
  <2> QED BY <1>3, <1>10, <2>1, <2>3, <2>4, <2>5, <2>6, <2>7 DEF ChainTypes
<1>21. SettingsGo
  <2>1. ASSUME ~behind', NEW g \in Line PROVE Settled(View', given'[g], applied'[g], pending', C', g, Cuts')
    <3> DEFINE V2 == View'
               S == given[g]
               S2 == given'[g]
               a == applied[g]
               p == pending
               cd == C
               M == Cuts
               M2 == Cuts'
    <3>1. Settled(View, S, a, p, cd, g, M)
      BY <1>3, <2>1 DEF ChainSettings
    <3>2. M \in SUBSET Nat /\ M2 \in SUBSET M /\ n \in M
      <4>1. M \in SUBSET Nat /\ n \in M
        BY <1>4 DEF Cuts, n
      <4>2. ASSUME NEW m \in M2 PROVE m \in M
        <5>1. /\ m \in Nat
              /\ \/ m > n
                 \/ \E r \in View' : r.st <= 4 * C + 1 /\ r.id = m
                 \/ \E i \in DOMAIN infos : infos[i].outs = 0 /\ infos[i].id = m
          BY <1>3, <1>10, <4>2 DEF Cuts, Unanswered, n
        <5>2. CASE m > n
          BY <1>4, <5>1, <5>2 DEF Cuts
        <5>3. CASE \E r \in View' : r.st <= 4 * C + 1 /\ r.id = m
          BY <1>18, <4>1, <5>1, <5>3 DEF Cuts, Unanswered
        <5>4. CASE \E i \in DOMAIN infos : infos[i].outs = 0 /\ infos[i].id = m
          BY <5>1, <5>4 DEF Cuts, Unanswered
        <5> QED BY <5>1, <5>2, <5>3, <5>4
      <4> QED BY <4>1, <4>2
    <3>3. S \in SUBSET (1..works) /\ S2 = S \cup ({q} \ {0})
      BY <1>2 DEF ChainTypes
    <3>4. /\ View \in SUBSET ViewType /\ V2 \in SUBSET ViewType /\ S \in SUBSET (Nat \ {0})
             /\ n \in Nat /\ n >= 1
          /\ a \in Nat /\ p \in Nat /\ cd \in Nat /\ cd >= 1 /\ g \in Nat /\ g >= 1 /\ q \in Nat
      <4>1. pending \in Nat /\ applied[g] \in Nat
        BY DEF ChainTypes
      <4>2. S \in SUBSET (Nat \ {0})
        BY <1>4, <3>3
      <4>3. View \in SUBSET ViewType /\ V2 \in SUBSET ViewType
        BY DEF View
      <4> QED BY <1>1, <1>4, <4>1, <4>2, <4>3
    <3>5. (q = 0 \/ q = n) /\ \A v \in S : v < n
      BY <1>4, <3>3 DEF n
    <3>6. S2 \in SUBSET (Nat \ {0}) /\ S2 \subseteq S \cup {q}
      BY <3>3, <3>4
    <3>7. \A x \in View : x.id < n
      BY <1>14
    <3>8. o \in BOOLEAN /\ o = TRUE
      BY DEF o
    <3>9. MovesTo(View, V2, n, 4, q, o)
      BY <1>17 DEF s
    <3>10. Settled(View', given'[g], applied'[g], pending', C', g, Cuts') <=> Settled(V2, S2, a, p, cd, g, M2)
      BY <1>3, <1>10
    <3> HIDE DEF V2, S, S2, a, p, cd, M, M2
    <3>11. Settled(V2, S2, a, p, cd, g, M2)
      BY ONLY <3>1, <3>4, <3>5, <3>6, <3>7, <3>8, <3>9, <3>2, SettledQueued
    <3> QED BY <3>10, <3>11
  <2>2. stale' => behind'
    BY <1>3 DEF ChainSettings, Chain!SettingsReach
  <2> QED BY <2>1, <2>2 DEF SettingsGo
<1>22. ChainBounds'
  <2>1. pending \in Nat /\ \A f \in Line : applied[f] \in Nat
    BY DEF ChainTypes
  <2> QED BY <1>3, <1>4, <2>1 DEF ChainBounds
<1> QED BY <1>11, <1>12, <1>13, <1>19, <1>20, <1>21, <1>22, SettingsGoOn

\* A step of flush() or stop(): tasks are dropped, and one that is no work may come.
CallStep ==
  /\ UNCHANGED <<limits, place, works, job, finished, applied, stale, behind, failures>>
  /\ tasks' \in ChainPools /\ Follows
  /\ \A f \in Line : \A i \in DOMAIN tasks'[f] :
       \/ tasks'[f][i].op \in {"stop", "sync"} /\ tasks'[f][i].work.id = 0
       \/ \E k \in DOMAIN tasks[f] : tasks'[f][i] = tasks[f][k]
  /\ infos' = infos \/ infos' = <<>>
  /\ pending' = pending \/ pending' = 0
  /\ given' \in [Line -> SUBSET (1..works)] /\ \A f \in Line : given'[f] \subseteq given[f]
  /\ caller' \in CallerType /\ gone' \in 0..works /\ stray' \in SUBSET (1..works) /\ stops' \in Nat

\* A work that leaves the view in such a step was in a pool that lost it, or in the
\* codec that forgot its inputs.
LEMMA CallView ==
  ASSUME ChainTypes, CallStep
  PROVE  /\ View' \in SUBSET View
         /\ \A x \in View :
              \/ x \in View'
              \/ \E f \in Line : \E i \in DOMAIN tasks[f] :
                   SeesTask(x, f, tasks[f][i])
                   /\ \A j \in DOMAIN tasks'[f] : tasks'[f][j] # tasks[f][i]
              \/ infos' # infos /\ \E i \in DOMAIN infos : Sees(x, 4 * C + 2, infos[i], TRUE)
<1>1. NoJob' = NoJob /\ C' = C /\ place' = place /\ job' = job /\ finished' = finished
  BY DEF CallStep, NoJob, Chain!NoJob, Chain!NewWork, C
<1>2. \A x : x \in View' <=>
         /\ x \in ViewType
         /\ \/ \E g \in Line : \E i \in DOMAIN tasks'[g] : SeesTask(x, g, tasks'[g][i])
            \/ \E g \in Line : job'[g] # NoJob /\ Sees(x, 4 * g + 1, job'[g].work, TRUE)
            \/ \E i \in DOMAIN infos' : Sees(x, 4 * C + 2, infos'[i], TRUE)
            \/ \E i \in DOMAIN finished' : Sees(x, 4 * NumFilters + 4, finished'[i], On(finished'[i]))
  BY <1>1, ViewThen
<1>3. \A x : x \in View <=>
         /\ x \in ViewType
         /\ \/ \E g \in Line : \E i \in DOMAIN tasks[g] : SeesTask(x, g, tasks[g][i])
            \/ \E g \in Line : job[g] # NoJob /\ Sees(x, 4 * g + 1, job[g].work, TRUE)
            \/ \E i \in DOMAIN infos : Sees(x, 4 * C + 2, infos[i], TRUE)
            \/ \E i \in DOMAIN finished : Sees(x, 4 * NumFilters + 4, finished[i], On(finished[i]))
  BY DEF View, InTasks, InJobs, InInfos, InFinished
<1>4. ASSUME NEW x \in View' PROVE x \in View
  <2>1. CASE \E g \in Line : \E i \in DOMAIN tasks'[g] : SeesTask(x, g, tasks'[g][i])
    <3>1. PICK g \in Line : \E i \in DOMAIN tasks'[g] : SeesTask(x, g, tasks'[g][i])
      BY <2>1
    <3>2. PICK i \in DOMAIN tasks'[g] : SeesTask(x, g, tasks'[g][i])
      BY <3>1
    <3>3. tasks'[g][i].op \notin {"stop", "sync"}
      BY <3>2 DEF SeesTask
    <3>4. \E k \in DOMAIN tasks[g] : tasks'[g][i] = tasks[g][k]
      BY <3>3 DEF CallStep
    <3> QED BY <1>2, <1>3, <3>2, <3>4
  <2>2. CASE \E i \in DOMAIN infos' : Sees(x, 4 * C + 2, infos'[i], TRUE)
    <3>1. infos' = infos
      <4>1. DOMAIN <<>> = {}
        OBVIOUS
      <4> QED BY <2>2, <4>1 DEF CallStep
    <3> QED BY <1>2, <1>3, <2>2, <3>1
  <2>3. CASE \/ \E g \in Line : job'[g] # NoJob /\ Sees(x, 4 * g + 1, job'[g].work, TRUE)
             \/ \E i \in DOMAIN finished' : Sees(x, 4 * NumFilters + 4, finished'[i], On(finished'[i]))
    BY <1>1, <1>2, <1>3, <2>3
  <2> QED BY <1>2, <2>1, <2>2, <2>3
<1>5. ASSUME NEW x \in View
      PROVE  \/ x \in View'
             \/ \E f \in Line : \E i \in DOMAIN tasks[f] :
                  SeesTask(x, f, tasks[f][i])
                  /\ \A j \in DOMAIN tasks'[f] : tasks'[f][j] # tasks[f][i]
             \/ infos' # infos /\ \E i \in DOMAIN infos : Sees(x, 4 * C + 2, infos[i], TRUE)
  <2>1. CASE \E g \in Line : \E i \in DOMAIN tasks[g] : SeesTask(x, g, tasks[g][i])
    <3>1. PICK g \in Line : \E i \in DOMAIN tasks[g] : SeesTask(x, g, tasks[g][i])
      BY <2>1
    <3>2. PICK i \in DOMAIN tasks[g] : SeesTask(x, g, tasks[g][i])
      BY <3>1
    <3>3. CASE \E j \in DOMAIN tasks'[g] : tasks'[g][j] = tasks[g][i]
      BY <1>2, <1>3, <3>2, <3>3
    <3> QED BY <3>2, <3>3
  <2>2. CASE \E i \in DOMAIN infos : Sees(x, 4 * C + 2, infos[i], TRUE)
    BY <1>2, <1>3, <2>2
  <2>3. CASE \/ \E g \in Line : job[g] # NoJob /\ Sees(x, 4 * g + 1, job[g].work, TRUE)
             \/ \E i \in DOMAIN finished : Sees(x, 4 * NumFilters + 4, finished[i], On(finished[i]))
    BY <1>1, <1>2, <1>3, <2>3
  <2> QED BY <1>3, <2>1, <2>2, <2>3
<1> QED BY <1>4, <1>5

\* What is kept, if the settings go with the works that are dropped.
SettingsDropped ==
  /\ \A g \in Line : \A v \in given'[g] : \A x \in View : Within(x, 4 * g + 1) /\ x.params >= v
     => x \in View'
  /\ \A g \in Line : g > C
     => pending' = pending \/ (pending' = 0 /\ \A v \in given'[g] : v > pending)

\* Such a step keeps all but what is said of the calls themselves.
LEMMA CallKept ==
  ASSUME ChainInv, ChainBounds, CallStep, SettingsDropped, caller'.step # "idle" => stops' >= 1
  PROVE  ChainTypes' /\ ChainWorks' /\ ChainOrder' /\ ChainSettings' /\ ChainBounds'
<1> USE DEF ChainInv
<1>1. NoJob' = NoJob /\ C' = C /\ place' = place /\ limits' = limits /\ works' = works
      /\ works \in Nat
      /\ C \in Line /\ C \in Nat /\ \A g \in Line : g \in Nat
  BY Places DEF CallStep, NoJob, Chain!NoJob, Chain!NewWork, C, ChainTypes
<1>2. infos' \in Seq(WorkType) /\ pending' \in Nat /\ pending' <= works
  <2>1. infos \in Seq(WorkType) /\ pending \in Nat /\ pending <= works
    BY DEF ChainTypes, ChainBounds
  <2>2. <<>> \in Seq(WorkType)
    OBVIOUS
  <2>3. infos' \in {infos, <<>>} /\ pending' \in {pending, 0}
    BY DEF CallStep
  <2>4. infos' \in Seq(WorkType)
    BY ONLY <2>1, <2>2, <2>3
  <2>5. pending' \in Nat /\ pending' <= works
    BY ONLY <1>1, <2>1, <2>3
  <2> QED BY <2>4, <2>5
<1>3. ChainTypes'
  <2>1. /\ finished \in Seq(WorkType) /\ job \in [Line -> JobType] /\ applied \in [Line -> Nat]
        /\ stale \in BOOLEAN /\ behind \in BOOLEAN /\ failures \in Nat
    BY DEF ChainTypes
  <2> QED BY <1>1, <1>2, <2>1, TypesKept DEF CallStep, ChainPools
<1>4. ChainWorks'
  <2>1. /\ \A f \in 1..(NumFilters + 1) : \A w \in Waits[f] : w \in Waits[f]'
        /\ \A f \in Line : \A j \in Runs[f] : j \in Runs[f]'
    <3>1. works' \in Nat /\ works' >= works
      BY <1>1
    <3> QED BY <1>1, <3>1, RestKept
  <2>2. C + 1 \in 1..(NumFilters + 1) /\ NumFilters + 1 \in 1..(NumFilters + 1)
        /\ \A f \in Line : f \in 1..(NumFilters + 1)
    BY Places
  <2>3. ASSUME NEW f \in Line, NEW i \in DOMAIN tasks'[f]
        PROVE  /\ tasks'[f][i].op = "work" => tasks'[f][i].work \in Waits[f]'
               /\ tasks'[f][i].op = "done" => tasks'[f][i].work \in Waits[C + 1]' /\ f = C
               /\ tasks'[f][i].op \in {"stop", "sync"} => tasks'[f][i].work.id = 0
    <3>1. CASE tasks'[f][i].op \in {"stop", "sync"} /\ tasks'[f][i].work.id = 0
      BY <3>1
    <3>2. CASE \E k \in DOMAIN tasks[f] : tasks'[f][i] = tasks[f][k]
      <4>1. PICK k \in DOMAIN tasks[f] : tasks'[f][i] = tasks[f][k]
        BY <3>2
      <4>2. /\ tasks[f][k].op = "work" => tasks[f][k].work \in Waits[f]
            /\ tasks[f][k].op = "done" => tasks[f][k].work \in Waits[C + 1] /\ f = C
            /\ tasks[f][k].op \in {"stop", "sync"} => tasks[f][k].work.id = 0
        BY DEF ChainWorks
      <4>3. /\ tasks[f][k].op = "work" => tasks[f][k].work \in Waits[f]'
            /\ tasks[f][k].op = "done" => tasks[f][k].work \in Waits[C + 1]' /\ f = C
        BY <2>1, <2>2, <4>2, <1>1
      <4> QED BY <4>1, <4>2, <4>3
    <3> QED BY <3>1, <3>2 DEF CallStep
  <2>4. \A f \in Line : job'[f] # NoJob => job'[f] \in Runs[f]'
    BY <2>1 DEF ChainWorks, CallStep
  <2>5. \A i \in DOMAIN infos' : infos'[i] \in Waits[C + 1]'
    <3>1. CASE infos' = infos
      <4>1. ASSUME NEW i \in DOMAIN infos PROVE infos[i] \in Waits[C + 1]'
        <5>1. infos[i] \in Waits[C + 1]
          BY DEF ChainWorks
        <5>2. \A w \in Waits[C + 1] : w \in Waits[C + 1]'
          BY <2>1, <2>2, <1>1
        <5> QED BY <5>1, <5>2
      <4> QED BY <3>1, <4>1
    <3>2. CASE infos' = <<>>
      BY <3>2
    <3> QED BY <3>1, <3>2 DEF CallStep
  <2>6. \A i \in DOMAIN finished' : finished'[i] \in Waits[NumFilters + 1]'
    BY <2>1, <2>2 DEF ChainWorks, CallStep
  <2> QED BY <1>1, <2>3, <2>4, <2>5, <2>6 DEF ChainWorks
<1>5. View' \in SUBSET View
  BY CallView
<1>6. ChainOrder'
  <2>1. \A f \in Line : \A r \in View' :
           (r.st <= 4 * f => applied'[f] < r.id) /\ (r.st = 4 * f + 1 => applied'[f] <= r.id)
    BY <1>5 DEF ChainOrder, CallStep
  <2> QED BY <1>1, <1>5, <2>1, DroppedOrder DEF CallStep
<1>7. SettingsGo
  <2>1. ASSUME ~behind', NEW g \in Line PROVE Settled(View', given'[g], applied'[g], pending', C', g, Cuts')
    <3> DEFINE V2 == View'
               S == given[g]
               S2 == given'[g]
               a == applied[g]
               p == pending
               p2 == pending'
               cd == C
               M == Cuts
               M2 == Cuts'
    <3>1. Settled(View, S, a, p, cd, g, M)
      BY <2>1 DEF ChainSettings, CallStep
    <3>2. M2 \in SUBSET M /\ M \in SUBSET Nat
      BY <1>5, CutsLeft DEF CallStep
    <3>3. /\ S \in SUBSET (1..works) /\ S2 \in SUBSET S /\ p \in Nat /\ a \in Nat
      BY DEF ChainTypes, CallStep
    <3>4. S \in SUBSET (Nat \ {0})
      BY <1>1, <3>3
    <3>5. View \in SUBSET ViewType /\ V2 \in SUBSET View
      BY <1>5 DEF View
    <3>6. \A v \in S2 : \A x \in View : Within(x, 4 * g + 1) /\ x.params >= v =>
            x \in V2 \/ (v <= a /\ x.st = 4 * g + 1)
      BY DEF SettingsDropped
    <3>7. g > cd => p2 = p \/ (p2 = 0 /\ \A v \in S2 : v > p)
      BY DEF SettingsDropped
    <3>8. Settled(View', given'[g], applied'[g], pending', C', g, Cuts') <=> Settled(V2, S2, a, p2, cd, g, M2)
      BY <1>1 DEF CallStep
    <3>9. g \in Nat /\ cd \in Nat /\ p2 \in Nat /\ \A v \in S2 : v <= a => v <= a
      BY <1>1, <1>2
    <3> HIDE DEF V2, S, S2, a, p, p2, cd, M, M2
    <3>10. Settled(V2, S2, a, p2, cd, g, M2)
      BY <3>1, <3>3, <3>4, <3>5, <3>6, <3>7, <3>9, <3>2, SettledDropped
    <3> QED BY <3>8, <3>10
  <2>2. stale' => behind'
    BY DEF ChainSettings, Chain!SettingsReach, CallStep
  <2> QED BY <2>1, <2>2 DEF SettingsGo
<1>8. ChainBounds'
  <2>1. applied' = applied
    BY DEF CallStep
  <2> QED BY <1>1, <1>2, <2>1 DEF ChainBounds
<1> QED BY <1>3, <1>4, <1>6, <1>7, <1>8, SettingsGoOn

\* A filter's pool after flush() or stop() dropped what was in it.
Cleared(f) ==
  /\ tasks' \in ChainPools /\ tasks'[f] \in Seq(TaskType) /\ Len(tasks'[f]) = 1
     /\ DOMAIN tasks'[f] = {1}
  /\ Head(tasks'[f]) = tasks'[f][1]
  /\ tasks'[f][1].op = "stop" /\ tasks'[f][1].work.id = 0
  /\ \A g \in Line : g # f => tasks'[g] = tasks[g]

\* flush() and stop() leave nothing in the pool but the task they post.
LEMMA Clearing ==
  ASSUME ChainTypes, NEW f \in Line, tasks' = [tasks EXCEPT ![f] = <<Chain!Task("stop")>>]
  PROVE  Cleared(f)
<1> DEFINE t == Chain!Task("stop")
<1>1. t \in TaskType /\ t.op = "stop" /\ t.work.id = 0
  <2>1. NoJob.work \in WorkType /\ NoJob.work.id = 0
    BY NoJobIs
  <2>2. t = [op |-> "stop", work |-> NoJob.work]
    BY DEF Chain!Task, NoJob
  <2> QED BY <2>1, <2>2 DEF TaskType
<1>2. tasks \in [Line -> Seq(TaskType)] /\ tasks' = [tasks EXCEPT ![f] = <<t>>]
  BY DEF ChainTypes
<1> HIDE DEF t
<1>3. <<t>> \in Seq(TaskType) /\ Len(<<t>>) = 1 /\ DOMAIN <<t>> = {1} /\ Head(<<t>>) = <<t>>[1]
      /\ <<t>>[1] = t
  BY <1>1
<1>4. tasks'[f] = <<t>> /\ (\A g \in Line : g # f => tasks'[g] = tasks[g])
      /\ tasks' \in [Line -> Seq(TaskType)]
  BY <1>2, <1>3
<1> QED BY <1>1, <1>3, <1>4 DEF Cleared, ChainPools

\* The settings of the works in a pool are those of works that were queued.
LEMMA SettingsIn ==
  ASSUME ChainTypes, ChainWorks, NEW f \in Line, NEW op \in {"work", "done"}
  PROVE  /\ Chain!Settings(f, op) \in SUBSET (0..works)
         /\ \A i \in DOMAIN tasks[f] : tasks[f][i].op = op
            => tasks[f][i].work.params \in Chain!Settings(f, op)
<1>1. works \in Nat
  BY DEF ChainTypes
<1>2. ASSUME NEW i \in DOMAIN tasks[f], tasks[f][i].op = op
      PROVE  tasks[f][i].work.params \in 0..works
             /\ tasks[f][i].work.params \in Chain!Settings(f, op)
  <2>1. tasks[f][i].work \in WorkType
    BY Places
  <2>2. Real(tasks[f][i].work)
    <3>1. C + 1 \in 1..(NumFilters + 1) /\ f \in 1..(NumFilters + 1)
      BY Places
    <3> QED BY <1>2, <3>1 DEF ChainWorks, Waits, AtRest
  <2>3. tasks[f][i].work.params \in Nat /\ tasks[f][i].work.id \in Nat
    BY <2>1 DEF WorkType
  <2>4. tasks[f][i].work.params \in Chain!Settings(f, op)
    BY <1>2 DEF Chain!Settings, Chain!ToSet
  <2> QED BY <1>1, <2>2, <2>3, <2>4 DEF Real
<1>3. ASSUME NEW u \in Chain!Settings(f, op) PROVE u \in 0..works
  <2>1. \E i \in DOMAIN tasks[f] : tasks[f][i].op = op /\ u = tasks[f][i].work.params
    BY DEF Chain!Settings, Chain!ToSet
  <2> QED BY <1>2, <2>1
<1> QED BY <1>2, <1>3

\* flush() or stop() of the first filter, or of the next one.
Beginning(f, lost) ==
  /\ caller.step = "idle" /\ f = 1 /\ lost = {} /\ pending' = pending /\ stray' = stray
     /\ stops' = stops + 1
GoingNext(f, lost) ==
  /\ caller.step \in {"stopped", "synced"} /\ (caller.how = "flush" => caller.step = "synced")
  /\ caller.at + 1 = f /\ caller'.how = caller.how /\ stops' = stops
  /\ caller.at = C => /\ pending' = 0 /\ lost = {pending}
                      /\ stray' = stray \cup {t.work.id : t \in ToSet(tasks[C])}
  /\ caller.at # C => pending' = pending /\ stray' = stray /\ lost = {}

\* What is left in the codec's pool are answers.
LEMMA AnswersLeft ==
  ASSUME ChainInv, caller.step \in {"stopped", "synced"}, caller.at = C
  PROVE  /\ {t.work.id : t \in ToSet(tasks[C])} \in SUBSET (1..works)
         /\ \A i \in DOMAIN tasks[C] : tasks[C][i].work.id \in {t.work.id : t \in ToSet(tasks[C])}
         /\ caller.step = "synced" => {t.work.id : t \in ToSet(tasks[C])} = {}
<1> USE DEF ChainInv
<1>1. ASSUME NEW i \in DOMAIN tasks[C] PROVE tasks[C][i].work.id \in 1..works
  <2>1. C \in Line /\ C + 1 \in 1..(NumFilters + 1) /\ tasks[C][i] \in TaskType
        /\ tasks[C][i].work \in WorkType
    BY Places
  <2>2. tasks[C][i].op = "done"
    <3>1. tasks[C][i].op \in {"work", "done", "stop", "sync"}
      BY <2>1 DEF TaskType
    <3> QED BY <2>1, <3>1 DEF ChainCalls
  <2>3. Real(tasks[C][i].work)
    BY <2>1, <2>2 DEF ChainWorks, Waits, AtRest
  <2>4. tasks[C][i].work.id \in Nat
    BY <2>1 DEF WorkType
  <2> QED BY <2>3, <2>4 DEF Real, ChainTypes
<1>2. caller.step = "synced" => tasks[C] = <<>>
  BY DEF ChainCalls
<1>3. DOMAIN <<>> = {}
  OBVIOUS
<1> QED BY <1>1, <1>2, <1>3 DEF ToSet

\* flush() or stop() turns to a filter.
LEMMA StopTurn ==
  ASSUME ChainInv, ChainBounds, NEW f \in Line, NEW how \in {"flush", "stop"}, NEW lost,
         Chain!StopFilter(how, f, lost), Beginning(f, lost) \/ GoingNext(f, lost), gone' = gone,
         UNCHANGED <<limits, place, works, job, infos, finished, applied, stale, behind, failures>>
  PROVE  ChainInv' /\ ChainBounds'
<1> USE DEF ChainInv
<1>1. /\ C \in Line /\ C \in Nat /\ f \in Nat /\ f >= 1 /\ (\A g \in Line : g \in Nat /\ g >= 1)
      /\ C' = C /\ NoJob' = NoJob /\ works \in Nat /\ stops \in Nat /\ pending \in 0..works
         /\ NumFilters \in Nat
  BY Places DEF NoJob, Chain!NoJob, Chain!NewWork, C, ChainTypes, ChainBounds
<1>2. Cleared(f)
  BY Clearing DEF Chain!StopFilter
<1>3. /\ caller' \in CallerType /\ caller'.step = "waiting" /\ caller'.at = f /\ caller'.how = how
      /\ caller' # Chain!Idle
  <2>1. caller' = [how |-> how, at |-> f, step |-> "waiting"]
    BY DEF Chain!StopFilter
  <2>2. Line = 1..NumFilters
    BY ChainConstants
  <2> QED BY <1>1, <2>1, <2>2 DEF CallerType, CallerSteps, Chain!Idle
<1>4. stray' \in SUBSET (1..works) /\ stray \subseteq stray' /\ stops' \in Nat /\ stops' >= 1
  <2>1. CASE Beginning(f, lost)
    BY <1>1, <2>1 DEF Beginning, ChainTypes
  <2>2. CASE GoingNext(f, lost)
    <3>1. stray' \in SUBSET (1..works) /\ stray \subseteq stray'
      <4>1. stray \in SUBSET (1..works)
        BY DEF ChainTypes
      <4>2. CASE caller.at = C
        <5>1. {t.work.id : t \in ToSet(tasks[C])} \in SUBSET (1..works)
          BY <2>2, <4>2, AnswersLeft DEF GoingNext
        <5> QED BY <2>2, <4>1, <4>2, <5>1 DEF GoingNext
      <4>3. CASE caller.at # C
        BY <2>2, <4>1, <4>3 DEF GoingNext
      <4> QED BY <4>2, <4>3
    <3>2. stops' = stops /\ caller.step # "idle"
      BY <2>2 DEF GoingNext
    <3> QED BY <1>1, <3>1, <3>2 DEF ChainBounds
  <2> QED BY <2>1, <2>2
<1>5. lost \in SUBSET (0..works)
  BY <1>1 DEF Beginning, GoingNext
<1>6. /\ given' \in [Line -> SUBSET (1..works)]
      /\ \A g \in Line : given'[g] \subseteq given[g]
      /\ \A g \in Line : g >= f
         => \A v \in given'[g] : \A u \in lost \cup Chain!Settings(f, "work") : v > u
      /\ \A g \in Line : g > f => \A v \in given'[g] : \A u \in Chain!Settings(f, "done") : v > u
  <2> DEFINE L == lost \cup Chain!Settings(f, "work")
             A == Chain!Settings(f, "done")
  <2>1. L \in SUBSET (0..works) /\ A \in SUBSET (0..works)
    BY <1>5, SettingsIn
  <2>2. given' = Chain!Lost2(L, f, A)
    BY DEF Chain!StopFilter
  <2> HIDE DEF L, A
  <2>3. /\ given' \in [Line -> SUBSET (1..works)]
        /\ \A g \in Line : given'[g] \subseteq given[g]
        /\ \A g \in Line : g >= f => \A v \in given'[g] : \A u \in L : v > u
        /\ \A g \in Line : g > f => \A v \in given'[g] : \A u \in A : v > u
    BY <1>1, <2>1, <2>2, LostIs
  <2> QED BY <2>3 DEF L, A
<1>7. ASSUME NEW g \in Line, NEW i \in DOMAIN tasks'[g]
      PROVE  \/ g = f /\ i = 1 /\ tasks'[g][i].op = "stop" /\ tasks'[g][i].work.id = 0
             \/ g # f /\ tasks'[g] = tasks[g] /\ i \in DOMAIN tasks[g]
  BY <1>2 DEF Cleared
<1>8. CallStep
  <2>1. Follows
    <3> SUFFICES ASSUME NEW g \in Line, NEW i \in DOMAIN tasks'[g], NEW j \in DOMAIN tasks'[g],
                        i < j, IsWork(tasks'[g][i]), IsWork(tasks'[g][j])
                 PROVE  \E k, l \in DOMAIN tasks[g] : k < l /\ tasks'[g][i] = tasks[g][k]
                        /\ tasks'[g][j] = tasks[g][l]
      BY DEF Follows
    <3>1. g # f
      BY <1>7 DEF IsWork
    <3> QED BY <1>7, <3>1
  <2>2. \A g \in Line : \A i \in DOMAIN tasks'[g] :
          \/ tasks'[g][i].op \in {"stop", "sync"} /\ tasks'[g][i].work.id = 0
          \/ \E k \in DOMAIN tasks[g] : tasks'[g][i] = tasks[g][k]
    BY <1>7
  <2>3. gone' \in 0..works
    BY DEF ChainTypes
  <2>4. pending' = pending \/ pending' = 0
    BY DEF Beginning, GoingNext
  <2> QED BY <1>2, <1>3, <1>4, <1>6, <2>1, <2>2, <2>3, <2>4 DEF CallStep, Cleared
<1>9. SettingsDropped
  <2>1. ASSUME NEW g \in Line, NEW v \in given'[g], NEW x \in View, Within(x, 4 * g + 1),
               x.params >= v
        PROVE  x \in View'
    <3>1. CASE \E e \in Line : \E i \in DOMAIN tasks[e] :
                 SeesTask(x, e, tasks[e][i])
                 /\ \A j \in DOMAIN tasks'[e] : tasks'[e][j] # tasks[e][i]
      <4>1. PICK e \in Line : \E i \in DOMAIN tasks[e] :
                 SeesTask(x, e, tasks[e][i])
                 /\ \A j \in DOMAIN tasks'[e] : tasks'[e][j] # tasks[e][i]
        BY <3>1
      <4>2. PICK i \in DOMAIN tasks[e] :
                 SeesTask(x, e, tasks[e][i])
                 /\ \A j \in DOMAIN tasks'[e] : tasks'[e][j] # tasks[e][i]
        BY <4>1
      <4>3. e = f
        BY <1>2, <4>2 DEF Cleared
      <4>4. v \in Nat /\ x.params \in Nat /\ x.st <= 4 * g + 1 /\ g \in Nat
        BY <1>1, <1>6, <2>1 DEF Within, View, ViewType
      <4>5. CASE tasks[e][i].op = "work" /\ x.st = 4 * f
        <5>1. tasks[e][i].work.params \in Chain!Settings(f, "work")
              /\ x.params = tasks[e][i].work.params
          BY <4>2, <4>3, <4>5, SettingsIn DEF SeesTask, Sees
        <5>2. g >= f
          BY <1>1, <4>4, <4>5
        <5>3. v > x.params
          BY <1>6, <5>1, <5>2
        <5> QED BY <2>1, <4>4, <5>3
      <4>6. CASE tasks[e][i].op = "done" /\ x.st = 4 * f + 3
        <5>1. tasks[e][i].work.params \in Chain!Settings(f, "done")
              /\ x.params = tasks[e][i].work.params
          BY <4>2, <4>3, <4>6, SettingsIn DEF SeesTask, Sees
        <5>2. g > f
          BY <1>1, <4>4, <4>6
        <5>3. v > x.params
          BY <1>6, <5>1, <5>2
        <5> QED BY <2>1, <4>4, <5>3
      <4> QED BY <4>2, <4>3, <4>5, <4>6 DEF SeesTask, Sees
    <3>2. infos' = infos
      OBVIOUS
    <3> QED BY <1>8, <3>1, <3>2, CallView
  <2>2. ASSUME NEW g \in Line, g > C
        PROVE  pending' = pending \/ (pending' = 0 /\ \A v \in given'[g] : v > pending)
    <3>1. CASE pending' = pending
      BY <3>1
    <3>2. CASE pending' # pending
      <4>1. pending' = 0 /\ lost = {pending} /\ f = C + 1
        BY <3>2 DEF Beginning, GoingNext
      <4> QED BY <1>1, <1>6, <2>2, <4>1
    <3> QED BY <3>1, <3>2
  <2> QED BY <2>1, <2>2 DEF SettingsDropped
<1>10. ChainTypes' /\ ChainWorks' /\ ChainOrder' /\ ChainSettings' /\ ChainBounds'
  BY <1>4, <1>8, <1>9, CallKept
<1>11. ChainCalls'
  <2>1. caller.step \notin {"waiting", "syncing"}
    BY DEF Beginning, GoingNext
  <2>2. ASSUME NEW g \in Line, NEW i \in DOMAIN tasks'[g]
        PROVE  /\ tasks'[g][i].op = "stop" => caller'.step = "waiting" /\ caller'.at = g /\ i = 1
               /\ tasks'[g][i].op = "sync" => caller'.step = "syncing" /\ caller'.at = g
                  /\ i = Len(tasks'[g])
               /\ tasks'[g][i].op = "work" => caller'.step = "idle" \/ caller'.at # g
    <3>1. CASE g = f /\ i = 1 /\ tasks'[g][i].op = "stop"
      BY <1>3, <3>1
    <3>2. CASE g # f /\ tasks'[g] = tasks[g] /\ i \in DOMAIN tasks[g]
      <4>1. tasks[g][i].op \notin {"stop", "sync"}
        BY <2>1, <3>2 DEF ChainCalls
      <4> QED BY <1>3, <3>2, <4>1
    <3> QED BY <1>7, <3>1, <3>2
  <2>3. tasks'[f] # <<>> /\ Head(tasks'[f]).op = "stop"
    BY <1>2 DEF Cleared
  <2>4. \A g \in Line : ~Through(g)'
    BY <1>3 DEF Through
  <2> QED BY <1>3, <2>2, <2>3, <2>4 DEF ChainCalls
<1>12. ChainGone'
  <2>1. \A id : Old(id)' <=> id \in stray'
    BY <1>3 DEF Old
  <2>2. \A g \in Line : Left(g)' <=> g < f
    BY <1>3 DEF Left
  <2>3. CASE Beginning(f, lost)
    <3>1. \A g \in Line : ~Left(g)'
      BY <1>1, <2>2, <2>3 DEF Beginning
    <3>2. stray' # {} => stops' >= 1 /\ (caller'.how = "flush" => stops' >= 2)
      BY <1>1, <2>3 DEF Beginning, ChainGone
    <3>3. ~Left(C)' /\ C \in Line
      BY <1>1, <3>1
    <3> QED BY <1>1, <3>1, <3>2, <3>3 DEF ChainGone
  <2>4. CASE GoingNext(f, lost)
    <3> DEFINE e == caller.at
    <3>1. e \in Line /\ e + 1 = f /\ caller.step # "idle" /\ e \in Nat
      BY <2>4, <1>1 DEF GoingNext, ChainCalls
    <3>2. \A id : Old(id) <=> id \in stray
      BY <3>1 DEF Old
    <3>3. \A g \in Line : Left(g) <=> g < e
      BY <3>1 DEF Left
    <3>4. Through(e) /\ job[e] = NoJob /\ (e = C => infos = <<>>)
      BY <2>4, <3>1 DEF GoingNext, Through, ChainCalls
    <3>5. ASSUME NEW g \in Line, g < f
          PROVE  /\ \A i \in DOMAIN tasks'[g] : tasks'[g][i].op \in {"work", "done"}
                    => tasks'[g][i].work.id \in stray'
                 /\ job'[g] # NoJob' => job'[g].work.id \in stray'
      <4>1. tasks'[g] = tasks[g] /\ job'[g] = job[g]
        BY <1>1, <1>2, <3>5 DEF Cleared
      <4>2. CASE g < e
        BY <1>1, <1>4, <3>2, <3>3, <4>1, <4>2 DEF ChainGone
      <4>3. CASE g = e
        <5>1. ASSUME NEW i \in DOMAIN tasks[e], tasks[e][i].op \in {"work", "done"}
              PROVE  tasks[e][i].work.id \in stray'
          <6>1. tasks[e][i].op = "done"
            BY <3>1, <5>1 DEF ChainCalls
          <6>2. e = C
            BY <3>1, <6>1 DEF ChainWorks
          <6>3. stray' = stray \cup {t.work.id : t \in ToSet(tasks[C])}
            BY <2>4, <6>2 DEF GoingNext
          <6>4. tasks[C][i].work.id \in {t.work.id : t \in ToSet(tasks[C])}
            BY <2>4, <5>1, <6>2, AnswersLeft DEF GoingNext
          <6> QED BY <6>2, <6>3, <6>4
        <5>2. \A i \in DOMAIN tasks'[g] : tasks'[g][i].op \in {"work", "done"}
              => tasks'[g][i].work.id \in stray'
          BY <4>1, <4>3, <5>1
        <5>3. job'[g] = NoJob'
          BY <1>1, <3>4, <4>1, <4>3
        <5> QED BY <5>2, <5>3
      <4>4. g < e \/ g = e
        <5>1. g \in Nat /\ e \in Nat /\ f \in Nat /\ e + 1 = f /\ g < f
          BY <1>1, <3>1, <3>5
        <5> HIDE DEF e
        <5> QED BY ONLY <5>1
      <4> QED BY <4>2, <4>3, <4>4
    <3>6. C < f => \A i \in DOMAIN infos' : infos'[i].id \in stray'
      <4>1. CASE C < e
        BY <1>1, <1>4, <3>2, <3>3, <4>1 DEF ChainGone
      <4>2. CASE C = e
        <5>1. DOMAIN <<>> = {}
          OBVIOUS
        <5> QED BY <3>4, <4>2, <5>1
      <4> QED BY <1>1, <3>1, <4>1, <4>2
    <3>7. stray' # {} => stops' >= 1 /\ (caller'.how = "flush" => stops' >= 2)
      <4>1. CASE stray' = stray
        BY <2>4, <4>1 DEF GoingNext, ChainGone
      <4>2. CASE stray' # stray
        <5>1. caller.at = C
          BY <2>4, <4>2 DEF GoingNext
        <5>2. caller.step # "synced"
          <6>1. ASSUME caller.step = "synced" PROVE FALSE
            <7>1. {t.work.id : t \in ToSet(tasks[C])} = {}
              BY <2>4, <5>1, <6>1, AnswersLeft DEF GoingNext
            <7>2. stray' = stray
              BY <2>4, <5>1, <7>1 DEF GoingNext
            <7> QED BY <4>2, <7>2
          <6> QED BY <6>1
        <5> QED BY <1>4, <2>4, <5>2 DEF GoingNext
      <4> QED BY <4>1, <4>2
    <3>8. Left(C)' <=> C < f
      BY <1>1, <2>2
    <3> QED BY <1>1, <2>1, <2>2, <3>5, <3>6, <3>7, <3>8 DEF ChainGone
  <2> QED BY <2>3, <2>4
<1> QED BY <1>10, <1>11, <1>12

\* The component calls flush() or stop().
LEMMA StopBegins ==
  ASSUME ChainInv, ChainBounds, Chain!Stop
  PROVE  ChainInv' /\ ChainBounds'
<1>1. 1 \in Line
  BY ChainConstants DEF ChainInv
<1>2. PICK how \in {"flush", "stop"} : Chain!StopFilter(how, 1, {})
  BY DEF Chain!Stop
<1>3. caller.step = "idle"
  BY DEF Chain!Stop, Chain!Idle
<1>4. Beginning(1, {}) /\ gone' = gone
      /\ UNCHANGED <<limits, place, works, job, infos, finished, applied, stale, behind, failures>>
  BY <1>3 DEF Beginning, Chain!Stop
<1> QED BY <1>1, <1>2, <1>4, StopTurn

\* The step of a filter that calls nobody is over when the last filter is through.
LEMMA StopEnds ==
  ASSUME ChainInv, ChainBounds, Chain!NextFilter, caller.at = NumFilters
  PROVE  ChainInv' /\ ChainBounds'
<1> USE DEF ChainInv
<1>1. /\ C' = C /\ NoJob' = NoJob /\ works' = works /\ works \in Nat /\ C \in Line /\ C < NumFilters
      /\ NumFilters \in Line /\ \A g \in Line : g \in Nat /\ g <= NumFilters
  <2>1. NumFilters \in Line
    BY ChainConstants
  <2> QED BY <2>1, Places DEF NoJob, Chain!NoJob, Chain!NewWork, C, ChainTypes, Chain!NextFilter
<1>2. /\ caller' = Chain!Idle /\ gone' = works /\ UNCHANGED <<tasks, given>>
      /\ UNCHANGED <<limits, place, works, job, infos, applied, finished, stale, behind, stops, failures>>
      /\ pending' = pending /\ stray' = stray
  BY <1>1 DEF Chain!NextFilter, C
<1>3. /\ caller.step \in {"stopped", "synced"} /\ caller.step # "idle"
  BY DEF Chain!NextFilter, Chain!StepDone
<1>4. caller' \in CallerType /\ caller'.step = "idle" /\ caller'.how = "none" /\ caller'.at = 0
  BY <1>1, <1>2 DEF Chain!Idle, CallerType, CallerSteps
<1>5. CallStep
  <2>1. Follows
    BY <1>2 DEF Follows
  <2>2. tasks' \in ChainPools /\ gone' \in 0..works /\ stray' \in SUBSET (1..works)
        /\ stops' \in Nat
    BY <1>1, <1>2 DEF ChainPools, ChainTypes
  <2>3. given' \in [Line -> SUBSET (1..works)]
    BY <1>2 DEF ChainTypes
  <2> QED BY <1>2, <1>4, <2>1, <2>2, <2>3 DEF CallStep
<1>6. SettingsDropped
  <2>1. \A x \in View : x \in View'
    <3> SUFFICES ASSUME NEW x \in View PROVE x \in View'
      OBVIOUS
    <3>1. \/ x \in View'
          \/ \E f \in Line : \E i \in DOMAIN tasks[f] :
               SeesTask(x, f, tasks[f][i]) /\ \A j \in DOMAIN tasks'[f] : tasks'[f][j] # tasks[f][i]
          \/ infos' # infos /\ \E i \in DOMAIN infos : Sees(x, 4 * C + 2, infos[i], TRUE)
      BY <1>5, CallView
    <3> QED BY <1>2, <3>1
  <2> QED BY <1>2, <2>1 DEF SettingsDropped
<1>7. ChainTypes' /\ ChainWorks' /\ ChainOrder' /\ ChainSettings' /\ ChainBounds'
  BY <1>4, <1>5, <1>6, CallKept
<1>8. ChainCalls'
  <2>1. \A f \in Line : \A i \in DOMAIN tasks[f] : tasks[f][i].op \notin {"stop", "sync"}
    BY <1>3 DEF ChainCalls
  <2>2. \A g \in Line : ~Through(g)'
    BY <1>4 DEF Through
  <2> QED BY <1>2, <1>4, <2>1, <2>2 DEF ChainCalls
<1>9. ChainGone'
  <2>1. \A g \in Line : g < NumFilters => Left(g)
    BY DEF Left
  <2>2. \A id : Old(id) => id \in stray
    BY <1>3 DEF Old
  <2>3. ASSUME NEW g \in Line
        PROVE  /\ \A i \in DOMAIN tasks[g] : tasks[g][i].op \in {"work", "done"}
                  => tasks[g][i].work.id \in stray
               /\ job[g] # NoJob => job[g].work.id \in stray
    <3>1. CASE g < NumFilters
      BY <2>1, <2>2, <3>1 DEF ChainGone
    <3>2. CASE g = NumFilters
      <4>1. Through(g)
        BY <1>1, <1>3, <3>2 DEF Through
      <4>2. job[g] = NoJob
        BY <4>1 DEF ChainCalls
      <4>3. \A i \in DOMAIN tasks[g] : tasks[g][i].op \notin {"work", "done"}
        <5> SUFFICES ASSUME NEW i \in DOMAIN tasks[g] PROVE tasks[g][i].op \notin {"work", "done"}
          OBVIOUS
        <5>1. tasks[g][i].op # "work"
          BY <1>3, <3>2 DEF ChainCalls
        <5>2. tasks[g][i].op = "done" => g = C
          BY DEF ChainWorks
        <5>3. g # C
          BY <1>1, <3>2
        <5> QED BY <5>1, <5>2, <5>3
      <4> QED BY <4>2, <4>3
    <3> QED BY <1>1, <3>1, <3>2
  <2>4. \A i \in DOMAIN infos : infos[i].id \in stray
    BY <1>1, <2>1, <2>2 DEF ChainGone
  <2>5. stray' # {} => stops' >= 1 /\ (caller'.how = "flush" => stops' >= 2)
    BY <1>2, <1>4 DEF ChainGone
  <2> QED BY <1>1, <1>2, <2>3, <2>4, <2>5 DEF ChainGone, Old
<1> QED BY <1>7, <1>8, <1>9

\* A filter is through, and it is the next one's turn, or the call is over.
LEMMA StopGoesOn ==
  ASSUME ChainInv, ChainBounds, Chain!NextFilter
  PROVE  ChainInv' /\ ChainBounds'
<1> USE DEF ChainInv
<1> DEFINE f == caller.at
           lost == IF f = C THEN {pending} ELSE {}
<1>1. caller.step \in {"stopped", "synced"} /\ (caller.how = "flush" => caller.step = "synced")
  BY DEF Chain!NextFilter, Chain!StepDone
<1>2. f \in Line /\ f \in Nat /\ f <= NumFilters /\ NumFilters \in Nat /\ Line = 1..NumFilters
  BY <1>1, Places, ChainConstants DEF ChainCalls
<1>3. CASE f = NumFilters
  BY <1>3, StopEnds
<1>4. CASE f < NumFilters
  <2>1. /\ Chain!StopFilter(caller.how, f + 1, lost) /\ gone' = gone
        /\ UNCHANGED <<limits, place, works, job, infos, finished, applied, stale, behind, failures>>
        /\ stops' = stops
    BY <1>4 DEF Chain!NextFilter, C
  <2>2. caller'.how = caller.how
    BY <2>1 DEF Chain!StopFilter
  <2>3. f + 1 \in Line
    BY <1>2, <1>4
  <2>4. caller.how \in {"flush", "stop"}
    BY <1>1 DEF ChainCalls, ChainTypes, CallerType
  <2>5. /\ f = C => pending' = 0 /\ stray' = stray \cup {t.work.id : t \in ToSet(tasks[C])}
        /\ f # C => pending' = pending /\ stray' = stray
    BY DEF Chain!NextFilter, C, Chain!None, ToSet, Chain!ToSet
  <2>6. GoingNext(f + 1, lost)
    BY <1>1, <2>1, <2>2, <2>5 DEF GoingNext
  <2> HIDE DEF f, lost
  <2> QED BY <2>1, <2>3, <2>4, <2>6, StopTurn
<1> QED BY <1>2, <1>3, <1>4

\* flush() posts its second task.
LEMMA Syncing ==
  ASSUME ChainInv, ChainBounds, Chain!Sync
  PROVE  ChainInv' /\ ChainBounds'
<1> USE DEF ChainInv
<1> DEFINE f == caller.at
           t == Chain!Task("sync")
<1>1. /\ C' = C /\ NoJob' = NoJob /\ works' = works /\ works \in Nat /\ C \in Line
      /\ \A g \in Line : g >= 1 /\ g \in Nat /\ tasks[g] \in Seq(TaskType)
         /\ DOMAIN tasks[g] = 1..Len(tasks[g]) /\ Len(tasks[g]) \in Nat
  BY Places DEF NoJob, Chain!NoJob, Chain!NewWork, C, ChainTypes, Chain!Sync
<1>2. /\ UNCHANGED <<limits, place, works, job, infos, pending, applied, finished, given, gone, stray, stale, behind, stops, failures>>
      /\ tasks' = [tasks EXCEPT ![f] = Append(@, t)]
      /\ caller.how = "flush" /\ caller.step = "stopped"
  BY DEF Chain!Sync
<1>3. f \in Line
  BY <1>2 DEF ChainCalls
<1>4. caller' \in CallerType /\ caller'.step = "syncing" /\ caller'.how = "flush" /\ caller'.at = f
      /\ caller' # Chain!Idle
  <2>1. caller' = [caller EXCEPT !.step = "syncing"]
    BY DEF Chain!Sync
  <2>2. caller \in CallerType
    BY DEF ChainTypes
  <2> QED BY <1>2, <2>1, <2>2 DEF CallerType, CallerSteps, Chain!Idle
<1>5. t \in TaskType /\ t.op = "sync" /\ t.work.id = 0
  <2>1. NoJob.work \in WorkType /\ NoJob.work.id = 0
    BY NoJobIs
  <2>2. t = [op |-> "sync", work |-> NoJob.work]
    BY DEF Chain!Task, NoJob
  <2> HIDE DEF t
  <2> QED BY <2>1, <2>2 DEF TaskType
<1> HIDE DEF f, t
<1>6. /\ tasks' \in ChainPools /\ (\A g \in Line : g # f => tasks'[g] = tasks[g])
      /\ More(tasks[f], tasks'[f], t) /\ tasks'[f] \in Seq(TaskType)
  <2>1. tasks \in ChainPools
    BY DEF ChainTypes, ChainPools
  <2>2. tasks' \in ChainPools /\ Passed(tasks, tasks', 0, f, t)
    BY <1>2, <1>3, <1>5, <2>1, PassedPush
  <2> QED BY <1>1, <1>3, <2>2 DEF Passed, ChainPools
<1>7. ASSUME NEW g \in Line, NEW i \in DOMAIN tasks'[g]
      PROVE  \/ g = f /\ i = Len(tasks'[f]) /\ tasks'[g][i] = t
             \/ i \in DOMAIN tasks[g] /\ tasks'[g][i] = tasks[g][i]
  <2>1. CASE g = f
    <3>1. i \in 1..Len(tasks'[f])
      BY <1>6, <2>1
    <3>2. Len(tasks'[f]) = Len(tasks[f]) + 1 /\ Len(tasks[f]) \in Nat
          /\ DOMAIN tasks[f] = 1..Len(tasks[f])
      BY <1>1, <1>3, <1>6 DEF More
    <3>3. i = Len(tasks'[f]) \/ i \in DOMAIN tasks[f]
      BY <3>1, <3>2
    <3> QED BY <1>6, <2>1, <3>2, <3>3 DEF More
  <2>2. CASE g # f
    BY <1>6, <2>2
  <2> QED BY <2>1, <2>2
<1>8. ASSUME NEW g \in Line, NEW i \in DOMAIN tasks[g]
      PROVE  i \in DOMAIN tasks'[g] /\ tasks'[g][i] = tasks[g][i]
  <2>1. CASE g = f
    <3>1. /\ Len(tasks'[f]) = Len(tasks[f]) + 1 /\ Len(tasks[f]) \in Nat
             /\ DOMAIN tasks[f] = 1..Len(tasks[f])
          /\ DOMAIN tasks'[f] = 1..Len(tasks'[f])
      BY <1>1, <1>3, <1>6 DEF More
    <3> QED BY <1>6, <2>1, <3>1 DEF More
  <2>2. CASE g # f
    BY <1>6, <2>2
  <2> QED BY <2>1, <2>2
<1>9. CallStep
  <2>1. Follows
    <3> SUFFICES ASSUME NEW g \in Line, NEW i \in DOMAIN tasks'[g], NEW j \in DOMAIN tasks'[g],
                        i < j, IsWork(tasks'[g][i]), IsWork(tasks'[g][j])
                 PROVE  \E k, l \in DOMAIN tasks[g] : k < l /\ tasks'[g][i] = tasks[g][k]
                        /\ tasks'[g][j] = tasks[g][l]
      BY DEF Follows
    <3>1. i \in DOMAIN tasks[g] /\ tasks'[g][i] = tasks[g][i]
      BY <1>5, <1>7 DEF IsWork
    <3>2. j \in DOMAIN tasks[g] /\ tasks'[g][j] = tasks[g][j]
      BY <1>5, <1>7 DEF IsWork
    <3> QED BY <3>1, <3>2
  <2>2. \A g \in Line : \A i \in DOMAIN tasks'[g] :
          \/ tasks'[g][i].op \in {"stop", "sync"} /\ tasks'[g][i].work.id = 0
          \/ \E k \in DOMAIN tasks[g] : tasks'[g][i] = tasks[g][k]
    BY <1>5, <1>7
  <2>3. /\ gone' \in 0..works /\ stray' \in SUBSET (1..works) /\ stops' \in Nat
        /\ given' \in [Line -> SUBSET (1..works)]
    BY <1>2 DEF ChainTypes
  <2>4. \A g \in Line : given'[g] \subseteq given[g]
    BY <1>2
  <2> QED BY <1>2, <1>4, <1>6, <2>1, <2>2, <2>3, <2>4 DEF CallStep
<1>10. SettingsDropped
  <2>1. \A x \in View : x \in View'
    <3> SUFFICES ASSUME NEW x \in View PROVE x \in View'
      OBVIOUS
    <3>1. \/ x \in View'
          \/ \E e \in Line : \E i \in DOMAIN tasks[e] :
               SeesTask(x, e, tasks[e][i]) /\ \A j \in DOMAIN tasks'[e] : tasks'[e][j] # tasks[e][i]
          \/ infos' # infos /\ \E i \in DOMAIN infos : Sees(x, 4 * C + 2, infos[i], TRUE)
      BY <1>9, CallView
    <3> QED BY <1>2, <1>8, <3>1
  <2> QED BY <1>2, <2>1 DEF SettingsDropped
<1>11. ChainTypes' /\ ChainWorks' /\ ChainOrder' /\ ChainSettings' /\ ChainBounds'
  <2>1. stops' >= 1
    BY <1>2 DEF ChainBounds
  <2> QED BY <1>9, <1>10, <2>1, CallKept
<1>12. ChainCalls'
  <2>1. ASSUME NEW g \in Line, NEW i \in DOMAIN tasks'[g]
        PROVE  /\ tasks'[g][i].op = "stop" => caller'.step = "waiting" /\ caller'.at = g /\ i = 1
               /\ tasks'[g][i].op = "sync" => caller'.step = "syncing" /\ caller'.at = g
                  /\ i = Len(tasks'[g])
               /\ tasks'[g][i].op = "work" => caller'.step = "idle" \/ caller'.at # g
    <3>1. CASE g = f /\ i = Len(tasks'[f]) /\ tasks'[g][i] = t
      BY <1>4, <1>5, <3>1
    <3>2. CASE i \in DOMAIN tasks[g] /\ tasks'[g][i] = tasks[g][i]
      <4>1. tasks[g][i].op \notin {"stop", "sync"}
        BY <1>2, <3>2 DEF ChainCalls
      <4>2. tasks[g][i].op = "work" => f # g
        BY <1>2, <3>2 DEF ChainCalls, f
      <4> QED BY <1>4, <3>2, <4>1, <4>2
    <3> QED BY <1>7, <3>1, <3>2
  <2>2. tasks'[f] # <<>> /\ tasks'[f][Len(tasks'[f])].op = "sync"
    <3>1. Len(tasks'[f]) # 0
      BY <1>1, <1>3, <1>6 DEF More
    <3>2. Len(<<>>) = 0
      OBVIOUS
    <3> QED BY <1>5, <1>6, <3>1, <3>2 DEF More
  <2>3. \A g \in Line : Through(g)' <=> Through(g)
    BY <1>2, <1>4 DEF Through, f
  <2>4. \A g \in Line : Through(g)' => job'[g] = NoJob' /\ (g = C' => infos' = <<>>)
    BY <1>1, <1>2, <2>3 DEF ChainCalls
  <2> QED BY <1>3, <1>4, <2>1, <2>2, <2>4 DEF ChainCalls
<1>13. ChainGone'
  <2>1. caller.step # "idle" /\ caller'.step # "idle" /\ caller'.at = caller.at
        /\ caller'.how = caller.how
    BY <1>2, <1>4 DEF f
  <2>2. ASSUME NEW g \in Line, g < f
        PROVE  tasks'[g] = tasks[g] /\ job'[g] = job[g]
    BY <1>1, <1>2, <1>3, <1>6, <2>2
  <2>3. \A g \in Line : (Left(g) <=> g < f) /\ (Left(g)' <=> g < f)
    BY <2>1, <1>4 DEF Left, f
  <2> QED BY <1>1, <1>2, <2>1, <2>2, <2>3 DEF ChainGone, Old
<1> QED BY <1>11, <1>12, <1>13

\* The thread of a filter takes a task of a flush or a stop.
LEMMA Popping ==
  ASSUME ChainTypes, NEW f \in Line, NEW op \in {"stop", "sync"}, Chain!Taken(f, op),
         tasks' = Chain!Popped(f)
  PROVE  /\ tasks' \in ChainPools /\ Follows
         /\ Len(tasks[f]) \in Nat /\ Len(tasks'[f]) = Len(tasks[f]) - 1
            /\ DOMAIN tasks'[f] = 1..Len(tasks'[f])
         /\ DOMAIN tasks[f] = 1..Len(tasks[f]) /\ tasks[f][1].op = op /\ tasks[f] # <<>>
            /\ 1 \in DOMAIN tasks[f]
         /\ job[f] = NoJob
         /\ \A i \in DOMAIN tasks'[f] : i + 1 \in DOMAIN tasks[f] /\ tasks'[f][i] = tasks[f][i + 1]
         /\ \A i \in DOMAIN tasks[f] : i = 1 \/ (i - 1 \in DOMAIN tasks'[f] /\ tasks'[f][i - 1] = tasks[f][i])
         /\ \A g \in Line : g # f => tasks'[g] = tasks[g]
         /\ tasks'[f] \in Seq(TaskType)
<1>1. /\ job[f] = NoJob /\ tasks[f] # <<>> /\ 1 \in DOMAIN tasks[f] /\ tasks[f][1].op = op
  BY HeadOf
<1>2. tasks \in ChainPools
  BY DEF ChainTypes, ChainPools
<1>3. tasks' \in ChainPools /\ Passed(tasks, tasks', f, 0, 0)
  BY <1>1, <1>2, PassedPop DEF Chain!Popped
<1>4. f # 0
  BY Places
<1>5. \A g \in Line : g # f /\ g # 0 => tasks'[g] = tasks[g]
  BY <1>3 DEF Passed
<1>6. \A g \in Line : g # f => tasks'[g] = tasks[g]
  BY <1>5, Places
<1>7. Less(tasks[f], tasks'[f])
  BY <1>3 DEF Passed
<1>8. /\ Len(tasks[f]) \in Nat /\ DOMAIN tasks[f] = 1..Len(tasks[f])
         /\ DOMAIN tasks'[f] = 1..Len(tasks'[f])
      /\ Len(tasks'[f]) = Len(tasks[f]) - 1 /\ tasks'[f] \in Seq(TaskType)
  BY <1>3, <1>7, Places DEF Less, ChainPools
<1>9. /\ \A i \in DOMAIN tasks'[f] : i + 1 \in DOMAIN tasks[f] /\ tasks'[f][i] = tasks[f][i + 1]
      /\ \A i \in DOMAIN tasks[f] : i = 1 \/ (i - 1 \in DOMAIN tasks'[f] /\ tasks'[f][i - 1] = tasks[f][i])
  <2>1. ASSUME NEW i \in DOMAIN tasks'[f]
        PROVE i + 1 \in DOMAIN tasks[f] /\ tasks'[f][i] = tasks[f][i + 1]
    BY <1>7, <1>8 DEF Less
  <2>2. ASSUME NEW i \in DOMAIN tasks[f], i # 1
        PROVE  i - 1 \in DOMAIN tasks'[f] /\ tasks'[f][i - 1] = tasks[f][i]
    <3>1. i - 1 \in 1..Len(tasks'[f]) /\ (i - 1) + 1 = i
      BY <1>8, <2>2
    <3> QED BY <1>7, <1>8, <3>1 DEF Less
  <2> QED BY <2>1, <2>2
<1>10. Follows
  <2> SUFFICES ASSUME NEW g \in Line, NEW i \in DOMAIN tasks'[g], NEW j \in DOMAIN tasks'[g], i < j
               PROVE  \E k, l \in DOMAIN tasks[g] : k < l /\ tasks'[g][i] = tasks[g][k]
                      /\ tasks'[g][j] = tasks[g][l]
    BY DEF Follows
  <2>1. CASE g # f
    BY <1>6, <2>1
  <2>2. CASE g = f
    <3>1. /\ i + 1 \in DOMAIN tasks[g] /\ tasks'[g][i] = tasks[g][i + 1]
          /\ j + 1 \in DOMAIN tasks[g] /\ tasks'[g][j] = tasks[g][j + 1]
      BY <1>9, <2>2
    <3>2. i + 1 < j + 1
      <4>1. i \in Nat /\ j \in Nat
        BY <1>8, <2>2
      <4> QED BY <4>1
    <3> QED BY <3>1, <3>2
  <2> QED BY <2>1, <2>2
<1> QED BY <1>1, <1>3, <1>6, <1>8, <1>9, <1>10

\* doFlush() and doStop(), and the second task of flush().
LEMMA Stepping ==
  ASSUME ChainInv, ChainBounds, NEW f \in Line, NEW op \in {"stop", "sync"},
         NEW next \in {"stopped", "synced"},
         (op = "stop" /\ next = "stopped") \/ (op = "sync" /\ next = "synced"),
         Chain!Taken(f, op), tasks' = Chain!Popped(f), caller' = [caller EXCEPT !.step = next],
         op = "stop" /\ f = C => infos' = <<>>
         /\ given' = Chain!Lost({w.params : w \in Chain!ToSet(infos)}, f + 1),
         ~(op = "stop" /\ f = C) => infos' = infos /\ given' = given,
         UNCHANGED <<limits, place, works, job, pending, applied, finished, gone, stray, stale, behind, stops, failures>>
  PROVE  ChainInv' /\ ChainBounds'
<1> USE DEF ChainInv
<1>1. /\ C' = C /\ NoJob' = NoJob /\ works \in Nat /\ C \in Line /\ C \in Nat
      /\ \A g \in Line : g \in Nat /\ g >= 1
  BY Places DEF NoJob, Chain!NoJob, Chain!NewWork, C, ChainTypes
<1>2. /\ tasks' \in ChainPools /\ Follows
      /\ Len(tasks[f]) \in Nat /\ Len(tasks'[f]) = Len(tasks[f]) - 1
         /\ DOMAIN tasks'[f] = 1..Len(tasks'[f])
      /\ DOMAIN tasks[f] = 1..Len(tasks[f]) /\ tasks[f][1].op = op /\ tasks[f] # <<>>
         /\ 1 \in DOMAIN tasks[f]
      /\ job[f] = NoJob
      /\ \A i \in DOMAIN tasks'[f] : i + 1 \in DOMAIN tasks[f] /\ tasks'[f][i] = tasks[f][i + 1]
      /\ \A i \in DOMAIN tasks[f] : i = 1 \/ (i - 1 \in DOMAIN tasks'[f] /\ tasks'[f][i - 1] = tasks[f][i])
      /\ \A g \in Line : g # f => tasks'[g] = tasks[g]
      /\ tasks'[f] \in Seq(TaskType)
  BY Popping
<1>3. /\ caller.at = f /\ (op = "stop" => caller.step = "waiting")
      /\ op = "sync" => caller.step = "syncing" /\ Len(tasks[f]) = 1
  <2>1. /\ tasks[f][1].op = "stop" => caller.step = "waiting" /\ caller.at = f
        /\ tasks[f][1].op = "sync" => caller.step = "syncing" /\ caller.at = f /\ 1 = Len(tasks[f])
    BY <1>2 DEF ChainCalls
  <2> QED BY <1>2, <2>1
<1>4. /\ caller' \in CallerType /\ caller'.step = next /\ caller'.at = f /\ caller'.how = caller.how
      /\ caller' # Chain!Idle /\ caller.how # "none" /\ (op = "sync" => caller.how = "flush")
  <2>1. caller \in CallerType
    BY DEF ChainTypes
  <2>2. caller.how # "none" /\ (op = "sync" => caller.how = "flush")
    BY <1>3 DEF ChainCalls
  <2> QED BY <1>3, <2>1, <2>2 DEF CallerType, CallerSteps, Chain!Idle
<1>5. /\ given' \in [Line -> SUBSET (1..works)]
      /\ \A g \in Line : given'[g] \subseteq given[g]
      /\ infos' = infos \/ (f = C /\ infos' = <<>>)
      /\ infos' # infos => \A g \in Line : g > C
         => \A v \in given'[g] : \A i \in DOMAIN infos : v > infos[i].params
  <2>1. CASE op = "stop" /\ f = C
    <3> DEFINE L == {w.params : w \in Chain!ToSet(infos)}
               N == f + 1
               A == {}
    <3>1. \A i \in DOMAIN infos : infos[i].params \in L
      BY DEF Chain!ToSet
    <3>2. L \in SUBSET (0..works)
      <4>1. ASSUME NEW i \in DOMAIN infos PROVE infos[i].params \in 0..works
        <5>1. Real(infos[i]) /\ infos[i] \in WorkType
          <6>1. C + 1 \in 1..(NumFilters + 1)
            BY Places
          <6> QED BY <6>1, Places DEF ChainWorks, Waits, AtRest
        <5> QED BY <1>1, <5>1 DEF Real, WorkType
      <4> QED BY <4>1 DEF Chain!ToSet
    <3>3. given' = Chain!Lost2(L, N, A)
      BY <2>1 DEF Chain!Lost
    <3>4. A \in SUBSET (0..works) /\ N \in Nat
      BY <1>1
    <3>5. \A g \in Line : g > C => g >= N
      BY <1>1, <2>1
    <3> HIDE DEF L, N, A
    <3>6. /\ given' \in [Line -> SUBSET (1..works)]
          /\ \A g \in Line : given'[g] \subseteq given[g]
          /\ \A g \in Line : g >= N => \A v \in given'[g] : \A u \in L : v > u
      <4>1. ChainTypes
        OBVIOUS
      <4> QED BY ONLY <4>1, <3>2, <3>3, <3>4, LostIs
    <3> QED BY <2>1, <3>1, <3>6, <3>5
  <2>2. CASE ~(op = "stop" /\ f = C)
    <3>1. given' = given /\ infos' = infos
      BY <2>2
    <3> QED BY <3>1 DEF ChainTypes
  <2> QED BY <2>1, <2>2
<1>6. ASSUME NEW g \in Line, NEW i \in DOMAIN tasks'[g]
      PROVE  \E k \in DOMAIN tasks[g] : tasks'[g][i] = tasks[g][k] /\ (g = f => k = i + 1)
             /\ (g # f => k = i)
  BY <1>2
<1>7. CallStep
  <2>1. \A g \in Line : \A i \in DOMAIN tasks'[g] : \E k \in DOMAIN tasks[g] : tasks'[g][i] = tasks[g][k]
    BY <1>6
  <2>2. gone' \in 0..works /\ stray' \in SUBSET (1..works) /\ stops' \in Nat
    BY DEF ChainTypes
  <2>3. infos' = infos \/ infos' = <<>>
    BY <1>5
  <2> QED BY <1>2, <1>4, <1>5, <2>1, <2>2, <2>3 DEF CallStep
<1>8. SettingsDropped
  <2>1. ASSUME NEW g \in Line, NEW v \in given'[g], NEW x \in View, Within(x, 4 * g + 1),
               x.params >= v
        PROVE  x \in View'
    <3>1. ASSUME NEW e \in Line, NEW i \in DOMAIN tasks[e], SeesTask(x, e, tasks[e][i]),
                 \A j \in DOMAIN tasks'[e] : tasks'[e][j] # tasks[e][i]
          PROVE  FALSE
      <4>1. e = f /\ i = 1
        <5>1. CASE e # f
          BY <1>2, <3>1, <5>1
        <5>2. CASE e = f /\ i # 1
          <6>1. i - 1 \in DOMAIN tasks'[f] /\ tasks'[f][i - 1] = tasks[f][i]
            BY <1>2, <5>2
          <6> QED BY <3>1, <5>2, <6>1
        <5> QED BY <5>1, <5>2
      <4> QED BY <1>2, <3>1, <4>1 DEF SeesTask
    <3>2. ASSUME infos' # infos, NEW i \in DOMAIN infos, Sees(x, 4 * C + 2, infos[i], TRUE)
          PROVE  FALSE
      <4>1. x.st <= 4 * g + 1 /\ x.st = 4 * C + 2 /\ x.params = infos[i].params /\ x.params \in Nat
        BY <2>1, <3>2 DEF Within, Sees, View, ViewType
      <4>2. g > C
        BY <1>1, <4>1
      <4>3. v > x.params
        BY <1>5, <3>2, <4>1, <4>2
      <4>4. v \in Nat
        BY <1>1, <1>5
      <4> QED BY <2>1, <4>1, <4>3, <4>4
    <3> QED BY <1>7, <3>1, <3>2, CallView
  <2> QED BY <2>1 DEF SettingsDropped
<1>9. ChainTypes' /\ ChainWorks' /\ ChainOrder' /\ ChainSettings' /\ ChainBounds'
  <2>1. stops' >= 1
    BY <1>3 DEF ChainBounds
  <2> QED BY <1>7, <1>8, <2>1, CallKept
<1>10. ChainCalls'
  <2>1. ASSUME NEW g \in Line, NEW i \in DOMAIN tasks'[g]
        PROVE  /\ tasks'[g][i].op \notin {"stop", "sync"}
               /\ tasks'[g][i].op = "work" => caller'.at # g
    <3>1. PICK k \in DOMAIN tasks[g] : tasks'[g][i] = tasks[g][k] /\ (g = f => k = i + 1) /\ (g # f => k = i)
      BY <1>6
    <3>2. /\ tasks[g][k].op = "stop" => caller.step = "waiting" /\ caller.at = g /\ k = 1
          /\ tasks[g][k].op = "sync" => caller.step = "syncing" /\ caller.at = g
             /\ k = Len(tasks[g])
          /\ tasks[g][k].op = "work" => caller.step = "idle" \/ caller.at # g
      BY DEF ChainCalls
    <3>3. g = f => k >= 2
      <4>1. g = f => i \in 1..Len(tasks'[f])
        BY <1>2
      <4> QED BY <3>1, <4>1
    <3>4. k # 1 \/ g # f
      BY <3>3
    <3>5. tasks[g][k].op # "stop"
      BY <1>3, <3>2, <3>4
    <3>6. tasks[g][k].op # "sync"
      <4>1. CASE g = f
        <5>1. Len(tasks[f]) # 1
          BY <1>2, <3>1, <3>3, <4>1
        <5> QED BY <1>3, <3>2, <4>1, <5>1
      <4>2. CASE g # f
        BY <1>3, <3>2, <4>2
      <4> QED BY <4>1, <4>2
    <3>7. tasks[g][k].op = "work" => caller'.at # g
      BY <1>3, <1>4, <3>2
    <3> QED BY <3>1, <3>5, <3>6, <3>7
  <2>2. caller'.step = "synced" => tasks'[f] = <<>>
    <3>1. op = "sync" => Len(tasks'[f]) = 0
      BY <1>2, <1>3
    <3>2. op = "sync" => tasks'[f] = <<>>
      BY <1>2, <3>1, EmptySeq
    <3> QED BY <1>4, <3>2
  <2>3. \A g \in Line : Through(g)' => job'[g] = NoJob' /\ (g = C' => infos' = <<>>)
    <3> SUFFICES ASSUME NEW g \in Line, Through(g)'
                 PROVE job'[g] = NoJob' /\ (g = C' => infos' = <<>>)
      OBVIOUS
    <3>1. g = f
      BY <1>4 DEF Through
    <3>2. f = C => infos' = <<>>
      <4>1. CASE op = "stop"
        BY <4>1
      <4>2. CASE op = "sync"
        <5>1. Through(f) /\ infos' = infos
          BY <1>3, <4>2 DEF Through
        <5> QED BY <5>1 DEF ChainCalls
      <4> QED BY <4>1, <4>2
    <3> QED BY <1>1, <1>2, <3>1, <3>2
  <2> QED BY <1>4, <2>1, <2>2, <2>3 DEF ChainCalls
<1>11. ChainGone'
  <2>1. /\ \A g \in Line : (Left(g) <=> g < f) /\ (Left(g)' <=> g < f)
        /\ caller.step # "idle" /\ caller'.step # "idle"
    BY <1>3, <1>4 DEF Left
  <2>2. ASSUME NEW g \in Line, g < f PROVE tasks'[g] = tasks[g] /\ job'[g] = job[g]
    BY <1>1, <1>2, <2>2
  <2>3. C < f => infos' = infos
    BY <1>1, <1>5
  <2> QED BY <1>1, <1>4, <2>1, <2>2, <2>3 DEF ChainGone, Old
<1> QED BY <1>9, <1>10, <1>11

\* doFlush() or doStop() was carried out.
LEMMA StopDone ==
  ASSUME ChainInv, ChainBounds, NEW f \in Line, Chain!DoStop(f)
  PROVE  ChainInv' /\ ChainBounds'
<1>1. /\ "stop" \in {"stop", "sync"} /\ "stopped" \in {"stopped", "synced"}
      /\ Chain!Taken(f, "stop") /\ tasks' = Chain!Popped(f)
         /\ caller' = [caller EXCEPT !.step = "stopped"]
      /\ f = C => infos' = <<>> /\ given' = Chain!Lost({w.params : w \in Chain!ToSet(infos)}, f + 1)
      /\ f # C => infos' = infos /\ given' = given
      /\ UNCHANGED <<limits, place, works, job, pending, applied, finished, gone, stray, stale, behind, stops, failures>>
  BY DEF Chain!DoStop, C
<1> QED BY ONLY ChainInv, ChainBounds, f \in Line, <1>1, Stepping

\* The second task of a flush was carried out: the pool is empty.
LEMMA SyncDone ==
  ASSUME ChainInv, ChainBounds, NEW f \in Line, Chain!DoSync(f)
  PROVE  ChainInv' /\ ChainBounds'
<1>1. /\ "sync" \in {"stop", "sync"} /\ "synced" \in {"stopped", "synced"}
      /\ Chain!Taken(f, "sync") /\ tasks' = Chain!Popped(f)
         /\ caller' = [caller EXCEPT !.step = "synced"]
      /\ infos' = infos /\ given' = given
      /\ UNCHANGED <<limits, place, works, job, pending, applied, finished, gone, stray, stale, behind, stops, failures>>
  BY DEF Chain!DoSync
<1> QED BY ONLY ChainInv, ChainBounds, f \in Line, <1>1, Stepping

\* Steps that apply, hold or count settings no newer than the last work,
LEMMA BoundsKept ==
  ASSUME ChainBounds, UNCHANGED <<works, caller, stops>>, pending' <= works,
         \A f \in Line : applied'[f] <= works
  PROVE  ChainBounds'
BY DEF ChainBounds

\* or leave them alone,
LEMMA BoundsRest ==
  ASSUME ChainBounds, UNCHANGED <<works, caller, stops, pending, applied>>
  PROVE  ChainBounds'
BY DEF ChainBounds

\* or apply the setting of a work in a loop,
LEMMA BoundsApplied ==
  ASSUME ChainInv, ChainBounds, NEW f \in Line, job[f] # NoJob, Chain!Apply(f, job[f].work),
         UNCHANGED <<works, caller, stops, pending>>
  PROVE  ChainBounds'
<1>1. (\A g \in Line : g # f => applied'[g] = applied[g]) /\ applied'[f] <= job[f].work.id
      /\ applied' \in [Line -> Nat]
  BY Applying DEF ChainInv
<1>2. job[f].work.id <= works /\ works \in Nat /\ job[f].work.id \in Nat
  <2>1. job[f].work \in WorkType
    BY Places DEF ChainInv
  <2> QED BY <2>1, NobodyNew DEF ChainInv, ChainTypes, WorkType
<1>3. applied'[f] <= works
  BY <1>1, <1>2
<1>4. \A g \in Line : applied'[g] <= works
  BY <1>1, <1>3 DEF ChainBounds
<1>5. pending' <= works
  BY DEF ChainBounds
<1> QED BY <1>4, <1>5, BoundsKept

\* or hold the setting of an input without an output.
LEMMA BoundsAnswered ==
  ASSUME ChainInv, ChainBounds, Chain!CodecOutput \/ Chain!CodecNoOutput
  PROVE  ChainBounds'
<1>1. works \in Nat /\ pending <= works
  BY DEF ChainInv, ChainTypes, ChainBounds
<1>2. UNCHANGED <<works, caller, stops, applied>> /\ infos # <<>>
  BY DEF Chain!CodecOutput, Chain!CodecNoOutput
<1>3. pending' \in {0, pending, infos[1].params}
  <2>1. Head(infos) = infos[1]
    BY <1>2, InfoAhead DEF ChainInv
  <2>2. CASE Chain!CodecOutput
    BY <2>2 DEF Chain!CodecOutput, Chain!None
  <2>3. CASE Chain!CodecNoOutput
    BY <2>1, <2>3 DEF Chain!CodecNoOutput, Chain!Merged
  <2> QED BY <2>2, <2>3
<1>4. infos[1].params <= works
  <2> DEFINE n == infos[1].id
             q == infos[1].params
  <2>1. n \in 1..works /\ q \in Nat /\ q <= n
    BY <1>2, InfoAhead DEF ChainInv
  <2> HIDE DEF n, q
  <2>2. q <= works
    BY ONLY <1>1, <2>1
  <2> QED BY <2>2 DEF q
<1>5. pending' <= works
  BY <1>1, <1>3, <1>4
<1> QED BY <1>2, <1>5, BoundsKept DEF ChainBounds

\* The codec answers two of its inputs in the other order.
LEMMA Reordering ==
  ASSUME ChainInv, Chain!CodecReorders
  PROVE  ChainInv'
<1> USE DEF ChainInv
<1>1. C \in Line /\ C \in Nat /\ (\A g \in Line : g \in Nat) /\ works \in Nat
      /\ DOMAIN infos = 1..Len(infos) /\ Len(infos) \in Nat /\ infos \in Seq(WorkType)
      /\ ~(0 \in Line) /\ C + 1 \in 1..(NumFilters + 1)
  BY Places DEF ChainTypes, Line, Chain!Filters
<1>2. PICK k \in 1..(Len(infos) - 1) :
        /\ infos[k].outs = 0
        /\ infos' = [infos EXCEPT ![k] = Chain!Named(infos[k + 1], infos[k].id),
                                  ![k + 1] = Chain!Named(infos[k], infos[k + 1].id)]
        /\ given' = [f \in Line |-> IF f > place
                       THEN {Chain!Swap(v, infos[k].id, infos[k + 1].id) : v \in given[f]}
                       ELSE given[f]]
  BY DEF Chain!CodecReorders, Line
<1>3. UNCHANGED <<limits, place, works, caller, tasks, job, pending, applied, finished, gone,
                  stray, stale, behind, stops, failures>>
  BY DEF Chain!CodecReorders
<1>4. k \in DOMAIN infos /\ k + 1 \in DOMAIN infos /\ k # k + 1 /\ k \in Nat
  BY <1>1
<1> DEFINE a == infos[k].id
           b == infos[k + 1].id
           u == Chain!Named(infos[k + 1], a)
           v == Chain!Named(infos[k], b)
<1>5. /\ a \in 1..works /\ b \in 1..works /\ a < b
      /\ infos[k + 1].outs = 0
      /\ \A x \in View : ~(a < x.id /\ x.id < b)
      /\ \A x \in View : x.st >= 4 * C + 3 => x.id < a
      /\ \A x \in View : x.id >= a => x.params \in {0, x.id}
      /\ pending < a
      /\ \A g \in Line : g > C => applied[g] < a
  BY <1>2, <1>4, Neighbours
<1>6. /\ u \in Waits[C + 1] /\ u \in WorkType /\ u.id = a /\ u.outs = 0
         /\ u.params \in {0, a} /\ (infos[k + 1].params # 0 => u.params = a)
      /\ v \in Waits[C + 1] /\ v \in WorkType /\ v.id = b /\ v.outs = 0
         /\ v.params \in {0, b} /\ (infos[k].params # 0 => v.params = b)
  <2>1. infos[k] \in Waits[C + 1] /\ infos[k + 1] \in Waits[C + 1]
    BY <1>4 DEF ChainWorks
  <2> DEFINE w == infos[k]
             z == infos[k + 1]
             n == infos[k].id
             m == infos[k + 1].id
  <2>2. w \in Waits[C + 1] /\ z \in Waits[C + 1] /\ n \in 1..works /\ m \in 1..works
        /\ w.outs = 0 /\ z.outs = 0
    BY <1>2, <1>5, <2>1
  <2> HIDE DEF w, z, n, m
  <2>3. /\ Chain!Named(z, n) \in Waits[C + 1] /\ Chain!Named(z, n) \in WorkType
        /\ Chain!Named(z, n).id = n /\ Chain!Named(z, n).outs = 0
        /\ Chain!Named(z, n).params \in {0, n} /\ (z.params # 0 => Chain!Named(z, n).params = n)
    BY <2>2, NamedIs
  <2>4. /\ Chain!Named(w, m) \in Waits[C + 1] /\ Chain!Named(w, m) \in WorkType
        /\ Chain!Named(w, m).id = m /\ Chain!Named(w, m).outs = 0
        /\ Chain!Named(w, m).params \in {0, m} /\ (w.params # 0 => Chain!Named(w, m).params = m)
    BY <2>2, NamedIs
  <2> QED BY <2>3, <2>4 DEF w, z, n, m
<1>7. infos' = [infos EXCEPT ![k] = u, ![k + 1] = v]
  BY <1>2
<1>8. given' = [f \in Line |-> IF f > C THEN {Chain!Swap(x, a, b) : x \in given[f]} ELSE given[f]]
  BY <1>2 DEF C
<1> HIDE DEF u, v
<1>9. /\ infos' \in Seq(WorkType) /\ DOMAIN infos' = DOMAIN infos
      /\ infos'[k] = u /\ infos'[k + 1] = v
      /\ \A i \in DOMAIN infos : i # k /\ i # k + 1 => infos'[i] = infos[i]
  BY <1>1, <1>4, <1>6, <1>7
<1>10. /\ infos[k].id = a /\ infos[k + 1].id = b
       /\ infos[k].params \in Nat /\ infos[k + 1].params \in Nat
       /\ \A i \in DOMAIN infos : infos[i] \in WorkType
  <2>1. \A i \in DOMAIN infos : infos[i] \in WorkType
    BY Places
  <2> QED BY <1>4, <2>1 DEF WorkType
<1>11. a \in Nat /\ b \in Nat /\ a # 0 /\ b # 0 /\ a # b
  BY <1>1, <1>5
<1> HIDE DEF a, b
<1>12. \A i \in DOMAIN infos : /\ infos'[i].id = infos[i].id
                               /\ infos'[i].outs = infos[i].outs
  <2> SUFFICES ASSUME NEW i \in DOMAIN infos
               PROVE infos'[i].id = infos[i].id /\ infos'[i].outs = infos[i].outs
    OBVIOUS
  <2>1. CASE i = k
    BY <1>2, <1>6, <1>9, <1>10, <2>1
  <2>2. CASE i = k + 1
    BY <1>5, <1>6, <1>9, <1>10, <2>2
  <2> QED BY <1>9, <2>1, <2>2
<1>13. C' = C /\ NoJob' = NoJob
  BY <1>3 DEF C, NoJob, Chain!NoJob, Chain!NewWork
<1>14. Shifted(0, 0, 0)
  BY <1>3, NothingShifted
<1>15. ChainWorks'
  <2>1. u \in Waits[C + 1]' /\ v \in Waits[C + 1]'
    <3>1. works' \in Nat /\ works' >= works
      BY <1>1, <1>3
    <3>2. u \in Waits[C + 1] /\ v \in Waits[C + 1] /\ limits' = limits /\ place' = place
      BY <1>3, <1>6
    <3> QED BY <1>1, <1>13, <3>1, <3>2, RestKept
  <2>2. \A i \in DOMAIN infos' : infos'[i] \in Waits[C + 1]' \/ \E j \in DOMAIN infos : infos'[i] = infos[j]
    BY <1>9, <2>1
  <2>3. \A f \in Line : job'[f] = NoJob \/ job'[f] = job[f] \/ job'[f] \in Runs[f]'
    BY <1>3
  <2>4. \A i \in DOMAIN finished' : \/ finished'[i] \in Waits[NumFilters + 1]'
                                    \/ \E j \in DOMAIN finished : finished'[i] = finished[j]
    BY <1>3
  <2> QED BY <1>1, <1>14, <2>2, <2>3, <2>4, WaitsKept
<1>16. ChainCalls'
  <2>1. infos # <<>>
    BY <1>1, <1>4
  <2>2. \A f \in Line : job'[f] = NoJob \/ job[f] # NoJob \/ (f = 0 /\ tasks[0][1].op = "work")
    BY <1>3
  <2> QED BY <1>1, <1>14, <2>1, <2>2, CallsKept
<1>17. ChainGone'
  <2>1. \A i \in DOMAIN infos' : \E j \in DOMAIN infos : infos'[i].id = infos[j].id
    BY <1>9, <1>12
  <2>2. \A f \in Line : job'[f] = NoJob \/ job'[f] = job[f] \/ (Left(f) => Old(job'[f].work.id))
    BY <1>3
  <2> QED BY <1>1, <1>14, <2>1, <2>2, RemnantsKept
<1>18. given' \in [Line -> SUBSET (1..works)]
  <2>1. ASSUME NEW f \in Line PROVE \A x \in given[f] : Chain!Swap(x, a, b) \in 1..works
    <3>1. given[f] \in SUBSET (1..works)
      BY DEF ChainTypes
    <3> QED BY <1>5, <3>1 DEF Chain!Swap
  <2>2. \A f \in Line : given[f] \in SUBSET (1..works)
    BY DEF ChainTypes
  <2> QED BY <1>8, <2>1, <2>2
<1>19. ChainTypes'
  <2>1. /\ caller \in CallerType /\ tasks \in [Line -> Seq(TaskType)] /\ finished \in Seq(WorkType)
        /\ job \in [Line -> JobType] /\ applied \in [Line -> Nat] /\ pending \in Nat
        /\ gone \in 0..works /\ stray \in SUBSET (1..works)
        /\ stale \in BOOLEAN /\ behind \in BOOLEAN /\ stops \in Nat /\ failures \in Nat
    BY DEF ChainTypes
  <2> QED BY <1>3, <1>9, <1>18, <2>1, TypesKept
<1>20. View \in SUBSET ViewType /\ View' \in SUBSET ViewType
  BY DEF View
\* The view behind the step.
<1>21. ASSUME NEW x \in View, x.id \notin {a, b} PROVE x \in View'
  <2>1. x \in ViewType
    BY <1>20
  <2>2. ASSUME NEW i \in DOMAIN infos, Sees(x, 4 * C + 2, infos[i], TRUE)
        PROVE  \E j \in DOMAIN infos' : Sees(x, 4 * C + 2, infos'[j], TRUE)
    <3>1. i # k /\ i # k + 1
      BY <1>10, <1>21, <2>2 DEF Sees
    <3>2. i \in DOMAIN infos' /\ infos'[i] = infos[i]
      BY <1>9, <3>1
    <3> QED BY <2>2, <3>2
  <2>3. /\ \/ \E f \in Line : \E i \in DOMAIN tasks[f] : SeesTask(x, f, tasks[f][i])
           \/ \E f \in Line : job[f] # NoJob /\ Sees(x, 4 * f + 1, job[f].work, TRUE)
           \/ \E i \in DOMAIN infos : Sees(x, 4 * C + 2, infos[i], TRUE)
           \/ \E i \in DOMAIN finished : Sees(x, 4 * NumFilters + 4, finished[i], On(finished[i]))
    BY DEF View, InTasks, InJobs, InInfos, InFinished
  <2>4. /\ \/ \E f \in Line : \E i \in DOMAIN tasks'[f] : SeesTask(x, f, tasks'[f][i])
           \/ \E f \in Line : job'[f] # NoJob /\ Sees(x, 4 * f + 1, job'[f].work, TRUE)
           \/ \E i \in DOMAIN infos' : Sees(x, 4 * C + 2, infos'[i], TRUE)
           \/ \E i \in DOMAIN finished' : Sees(x, 4 * NumFilters + 4, finished'[i], On(finished'[i]))
    BY <1>3, <2>2, <2>3
  <2> QED BY <1>3, <1>13, <2>1, <2>4, ViewThen
<1>22. ASSUME NEW x \in View'
       PROVE  \/ x \in View /\ x.id \notin {a, b}
              \/ x.id = a /\ x.st = 4 * C + 2 /\ x.on /\ x.params = u.params
              \/ x.id = b /\ x.st = 4 * C + 2 /\ x.on /\ x.params = v.params
  <2>1. x \in ViewType
    BY <1>20
  <2>2. \/ \E f \in Line : \E i \in DOMAIN tasks'[f] : SeesTask(x, f, tasks'[f][i])
        \/ \E f \in Line : job'[f] # NoJob /\ Sees(x, 4 * f + 1, job'[f].work, TRUE)
        \/ \E i \in DOMAIN infos' : Sees(x, 4 * C + 2, infos'[i], TRUE)
        \/ \E i \in DOMAIN finished' : Sees(x, 4 * NumFilters + 4, finished'[i], On(finished'[i]))
    BY <1>3, <1>13, ViewThen
  <2>3. /\ \A g \in Line : \A j \in DOMAIN tasks[g] : IsWork(tasks[g][j])
             => tasks[g][j].work.id # infos[k].id /\ tasks[g][j].work.id # infos[k + 1].id
        /\ \A g \in Line : job[g] # NoJob => job[g].work.id # infos[k].id /\ job[g].work.id # infos[k + 1].id
        /\ \A j \in DOMAIN finished : finished[j].id # infos[k].id /\ finished[j].id # infos[k + 1].id
        /\ \A j \in DOMAIN infos : infos[j].id = infos[k].id => j = k
        /\ \A j \in DOMAIN infos : infos[j].id = infos[k + 1].id => j = k + 1
    BY <1>4, InfosApart
  <2>4. CASE \E f \in Line : \E i \in DOMAIN tasks[f] : SeesTask(x, f, tasks[f][i])
    <3>1. PICK f \in Line : \E i \in DOMAIN tasks[f] : SeesTask(x, f, tasks[f][i])
      BY <2>4
    <3>2. PICK i \in DOMAIN tasks[f] : SeesTask(x, f, tasks[f][i])
      BY <3>1
    <3>3. IsWork(tasks[f][i]) /\ x.id = tasks[f][i].work.id
      BY <3>2 DEF SeesTask, Sees, IsWork
    <3>4. x \in View
      BY <2>1, <2>4 DEF View, InTasks
    <3> QED BY <1>10, <2>3, <3>3, <3>4
  <2>5. CASE \E f \in Line : job[f] # NoJob /\ Sees(x, 4 * f + 1, job[f].work, TRUE)
    <3>1. x \in View
      BY <2>1, <2>5 DEF View, InJobs
    <3> QED BY <1>10, <2>3, <2>5, <3>1 DEF Sees
  <2>6. CASE \E i \in DOMAIN finished : Sees(x, 4 * NumFilters + 4, finished[i], On(finished[i]))
    <3>1. x \in View
      BY <2>1, <2>6 DEF View, InFinished
    <3> QED BY <1>10, <2>3, <2>6, <3>1 DEF Sees
  <2>7. CASE \E i \in DOMAIN infos' : Sees(x, 4 * C + 2, infos'[i], TRUE)
    <3>1. PICK i \in DOMAIN infos : Sees(x, 4 * C + 2, infos'[i], TRUE)
      BY <1>9, <2>7
    <3>2. CASE i = k
      BY <1>6, <1>9, <3>1, <3>2 DEF Sees
    <3>3. CASE i = k + 1
      BY <1>6, <1>9, <3>1, <3>3 DEF Sees
    <3>4. CASE i # k /\ i # k + 1
      <4>1. infos'[i] = infos[i]
        BY <1>9, <3>4
      <4>2. x \in View
        BY <2>1, <3>1, <4>1 DEF View, InInfos
      <4>3. x.id = infos[i].id
        BY <3>1, <4>1 DEF Sees
      <4> QED BY <1>10, <2>3, <3>4, <4>2, <4>3
    <3> QED BY <3>2, <3>3, <3>4
  <2> QED BY <1>3, <2>2, <2>4, <2>5, <2>6, <2>7
<1>23. /\ \E y \in View : y.id = a /\ y.st = 4 * C + 2
       /\ \E y \in View : y.id = b /\ y.st = 4 * C + 2
  BY <1>4, <1>10, Seen DEF Sees
<1>24. \A x \in View' : \E y \in View : y.st = x.st /\ y.id = x.id
  BY <1>22, <1>23
<1>25. ASSUME NEW x \in View, x.id \in {a, b}
       PROVE  /\ x.st = 4 * C + 2 /\ x.on
              /\ x.id = a => x.params = infos[k].params
              /\ x.id = b => x.params = infos[k + 1].params
  <2>1. x.st = 4 * C + 2
    BY <1>23, <1>25, Apart
  <2>2. PICK i \in DOMAIN infos : Sees(x, 4 * C + 2, infos[i], TRUE)
    BY <2>1, OfInfos
  <2>3. x.id = a => i = k
    BY <1>4, <1>10, <2>2, InfosApart DEF Sees
  <2>4. x.id = b => i = k + 1
    BY <1>4, <1>10, <2>2, InfosApart DEF Sees
  <2> QED BY <2>1, <2>2, <2>3, <2>4 DEF Sees
<1>26. /\ \E y \in View' : y.id = a
       /\ \E y \in View' : y.id = b
  <2>1. ASSUME NEW w \in WorkType, NEW i \in DOMAIN infos', infos'[i] = w
        PROVE  \E y \in View' : y.id = w.id
    <3> DEFINE s == 4 * C + 2
               o == TRUE
    <3>1. s \in Nat /\ o \in BOOLEAN
      BY <1>1
    <3> HIDE DEF s, o
    <3>2. PICK y \in ViewType : Sees(y, s, w, o)
      BY <3>1, Record
    <3>3. Sees(y, 4 * C + 2, infos'[i], TRUE)
      BY <2>1, <3>2 DEF s, o
    <3>4. y \in View'
      BY <1>3, <1>13, <3>3, ViewThen
    <3> QED BY <3>2, <3>4 DEF Sees
  <2> QED BY <1>4, <1>6, <1>9, <2>1
<1>27. ChainOrder'
  <2>1. Ordered(View')
    <3>1. Ordered(View)
      BY DEF ChainOrder
    <3> QED BY <1>24, <3>1 DEF Ordered
  <2>2. Rising(infos') /\ Rising(finished')
    <3>1. Rising(infos) /\ Rising(finished)
      BY DEF ChainOrder
    <3> QED BY <1>3, <1>9, <1>12, <3>1 DEF Rising
  <2>3. \A x \in View' : x.st <= 4 * C + 2 => pending < x.id
    BY <1>24 DEF ChainOrder
  <2>4. \A f \in Line : \A x \in View' : /\ x.st <= 4 * f => applied[f] < x.id
                                         /\ x.st = 4 * f + 1 => applied[f] <= x.id
    BY <1>24 DEF ChainOrder
  <2>5. \A i \in DOMAIN infos' : infos'[i].outs > 0 => i = 1 /\ pending = 0
    BY <1>9, <1>12 DEF ChainOrder
  <2>6. \A f \in Line : \A i, j \in DOMAIN tasks'[f] :
          i < j /\ tasks'[f][i].op = tasks'[f][j].op /\ tasks'[f][i].op \in {"work", "done"} =>
            tasks'[f][i].work.id < tasks'[f][j].work.id
    BY <1>3 DEF ChainOrder
  <2> QED BY <1>3, <1>13, <2>1, <2>2, <2>3, <2>4, <2>5, <2>6 DEF ChainOrder
<1>28. Cuts' \in SUBSET Cuts /\ Cuts \in SUBSET Nat
  <2>1. ASSUME NEW m \in Cuts' PROVE m \in Cuts
    <3>1. /\ m \in Nat
          /\ \/ m > works
             \/ \E r \in View' : r.st <= 4 * C + 1 /\ r.id = m
             \/ \E i \in DOMAIN infos' : infos'[i].outs = 0 /\ infos'[i].id = m
      BY <1>3, <1>13, <2>1 DEF Cuts, Unanswered
    <3> QED BY <1>9, <1>12, <1>24, <3>1 DEF Cuts, Unanswered
  <2> QED BY <2>1 DEF Cuts
<1>29. a \in Cuts /\ b \in Cuts /\ \A m \in Cuts : m <= a \/ m >= b
  <2>1. a \in Cuts /\ b \in Cuts
    BY <1>2, <1>4, <1>5, <1>10, <1>11 DEF Cuts, Unanswered
  <2>2. ASSUME NEW m \in Cuts PROVE m <= a \/ m >= b
    <3>1. /\ m \in Nat
          /\ \/ m > works
             \/ \E r \in View : r.id = m
      <4>1. \A i \in DOMAIN infos : \E r \in View : r.id = infos[i].id
        BY Seen DEF Sees
      <4> QED BY <4>1, <2>2 DEF Cuts, Unanswered
    <3>2. b <= works
      BY <1>1, <1>5
    <3> QED BY <1>1, <1>5, <1>11, <3>1, <3>2
  <2> QED BY <2>1, <2>2
<1>30. \A x \in View : x.params <= x.id
  BY OwnSettings
<1> DEFINE V2 == View'
           s == 4 * C + 2
<1>31. Turned(View, V2, a, b, s)
  <2>1. \A x \in View : x.id \notin {a, b} => x \in V2
    BY <1>21
  <2>2. \A x \in V2 : x.id \notin {a, b} => x \in View
    BY <1>22
  <2>3. \A x \in View \cup V2 : x.id \in {a, b} => x.st = s /\ x.on
    BY <1>22, <1>25
  <2>4. \A x \in View : \A y \in V2 : x.id = b /\ y.id = a /\ x.params # 0 => y.params = a
    BY <1>6, <1>11, <1>22, <1>25
  <2>5. \A x \in View : \A y \in V2 : x.id = a /\ y.id = b /\ x.params # 0 => y.params = b
    BY <1>6, <1>11, <1>22, <1>25
  <2>6. \A y \in V2 : y.id \in {a, b} => y.params \in {0, y.id}
    BY <1>6, <1>22
  <2> HIDE DEF s
  <2> QED BY <1>5, <1>23, <1>26, <2>1, <2>2, <2>3, <2>4, <2>5, <2>6 DEF Turned
<1>32. SettingsGo
  <2>1. ASSUME ~behind', NEW g \in Line
        PROVE  Settled(View', given'[g], applied'[g], pending', C', g, Cuts')
    <3> DEFINE S == given[g]
               S2 == given'[g]
               ap == applied[g]
               p == pending
               cd == C
               M == Cuts
    <3>1. Settled(View, S, ap, p, cd, g, M) /\ Agrees(View, S, ap, p, cd, g)
      BY <1>3, <2>1, AllSettled DEF ChainSettings
    <3>2. /\ S \in SUBSET (Nat \ {0}) /\ S2 \in SUBSET (Nat \ {0})
          /\ ap \in Nat /\ p \in Nat /\ cd \in Nat /\ g \in Nat /\ s \in Nat /\ s = 4 * cd + 2
      <4>1. S \in SUBSET (1..works) /\ S2 \in SUBSET (1..works) /\ ap \in Nat /\ p \in Nat
        <5>1. S \in SUBSET (1..works) /\ ap \in Nat /\ p \in Nat
          BY DEF ChainTypes
        <5>2. S2 \in SUBSET (1..works)
          BY <1>18
        <5> QED BY <5>1, <5>2
      <4> HIDE DEF S, S2, ap, p
      <4>2. S \in SUBSET (Nat \ {0}) /\ S2 \in SUBSET (Nat \ {0})
        BY <1>1, <4>1
      <4>3. cd \in Nat /\ g \in Nat /\ s \in Nat /\ s = 4 * cd + 2
        BY <1>1
      <4> QED BY <4>1, <4>2, <4>3
    <3>3. View \in SUBSET ViewType /\ V2 \in SUBSET ViewType /\ M \in SUBSET Nat
      BY <1>20, <1>28
    <3>4. /\ \A x \in View : x.params <= x.id
          /\ \A x \in View : x.id >= a => x.params \in {0, x.id}
          /\ \A x \in View : x.st >= 4 * cd + 3 => x.id < a
          /\ a \in M /\ b \in M /\ \A m \in M : m <= a \/ m >= b
          /\ p < a /\ (g > cd => ap < a)
      BY <1>5, <1>29, <1>30
    <3>5. g > cd => /\ \A x \in S2 : x # a /\ x # b => x \in S
                    /\ a \in S2 => b \in S
                    /\ b \in S2 => a \in S
      <4> SUFFICES ASSUME g > cd
                   PROVE  /\ \A x \in S2 : x # a /\ x # b => x \in S
                          /\ a \in S2 => b \in S
                          /\ b \in S2 => a \in S
        OBVIOUS
      <4>1. S2 = {Chain!Swap(x, a, b) : x \in given[g]}
        BY <1>8
      <4>2. ASSUME NEW y \in S2
            PROVE  \E x \in S : (x = a /\ y = b) \/ (x = b /\ y = a) \/ (x # a /\ x # b /\ y = x)
        <5>1. PICK x \in given[g] : y = Chain!Swap(x, a, b)
          BY <4>1
        <5> QED BY <1>11, <5>1 DEF Chain!Swap
      <4> QED BY <1>11, <4>2
    <3>6. ~(g > cd) => S2 = S
      BY <1>8
    <3> HIDE DEF V2, s, S, S2, ap, p, cd, M
    <3>7. CASE g > cd
      <4>1. Settled(V2, S2, ap, p, cd, g, M)
        BY <1>11, <1>31, <3>1, <3>2, <3>3, <3>4, <3>5, <3>7, SettledTurned
      <4>2. Settled(V2, S2, ap, p, cd, g, Cuts')
        BY <1>28, <4>1 DEF Settled, M
      <4> QED BY <1>3, <1>13, <4>2 DEF V2, S2, ap, p, cd
    <3>8. CASE g <= cd
      <4>1. Settled(V2, S, ap, p, cd, g, M)
        BY <1>11, <1>31, <3>1, <3>2, <3>3, <3>8, SettledAside
      <4>2. S2 = S
        BY <3>2, <3>6, <3>8
      <4>3. Settled(V2, S2, ap, p, cd, g, Cuts')
        BY <1>28, <4>1, <4>2 DEF Settled, M
      <4> QED BY <1>3, <1>13, <4>3 DEF V2, S2, ap, p, cd
    <3> QED BY <3>2, <3>7, <3>8
  <2>2. stale' => behind'
    BY <1>3 DEF ChainSettings, Chain!SettingsReach
  <2> QED BY <2>1, <2>2 DEF SettingsGo
<1> QED BY <1>15, <1>16, <1>17, <1>19, <1>27, <1>32, SettingsGoOn

\* Every step of the chain keeps the invariant.
LEMMA ChainStep ==
  ASSUME ChainInv, ChainBounds, Chain!Next
  PROVE  ChainInv' /\ ChainBounds'
<1>1. CASE Chain!QueueWork
  BY <1>1, Queueing
<1>2. CASE Chain!Stop
  BY <1>2, StopBegins
<1>3. CASE Chain!Sync
  BY <1>3, Syncing
<1>4. CASE Chain!NextFilter
  BY <1>4, StopGoesOn
<1>5. ASSUME NEW f \in Line, Chain!Step(f) PROVE ChainInv' /\ ChainBounds'
  <2>1. CASE Chain!DoStop(f)
    BY <2>1, StopDone
  <2>2. CASE Chain!DoSync(f)
    BY <2>2, SyncDone
  <2>3. CASE Chain!DoQueueWork(f)
    <3>1. ChainInv'
      BY <2>3, LoopBegins, PassingOn
    <3>2. UNCHANGED <<works, caller, stops, pending, applied>>
      BY <2>3 DEF Chain!DoQueueWork
    <3> QED BY <3>1, <3>2, BoundsRest
  <2>4. CASE Chain!DoProcess(f)
    <3>1. ChainInv'
      BY <2>4, Processing
    <3>2. job[f] # NoJob /\ Chain!Apply(f, job[f].work)
          /\ UNCHANGED <<works, caller, stops, pending>>
      BY <2>4 DEF Chain!DoProcess, NoJob
    <3> QED BY <3>1, <3>2, BoundsApplied
  <2>5. CASE Chain!DoProcessFails(f)
    <3>1. ChainInv'
      BY <2>5, Failing
    <3>2. job[f] # NoJob /\ Chain!Apply(f, job[f].work)
          /\ UNCHANGED <<works, caller, stops, pending>>
      BY <2>5 DEF Chain!DoProcessFails, NoJob
    <3> QED BY <3>1, <3>2, BoundsApplied
  <2> QED BY <1>5, <2>1, <2>2, <2>3, <2>4, <2>5 DEF Chain!Step
<1>6. CASE Chain!CodecProcess
  <2>1. ChainInv'
    BY <1>6, TakingIn
  <2>2. C \in Line /\ job[C] # NoJob /\ Chain!Apply(C, job[C].work)
        /\ UNCHANGED <<works, caller, stops, pending>>
    BY <1>6, Places DEF Chain!CodecProcess, NoJob, C, ChainInv
  <2> QED BY <2>1, <2>2, BoundsApplied
<1>7. CASE Chain!CodecOutput
  BY <1>7, Output, BoundsAnswered
<1>8. CASE Chain!CodecNoOutput
  BY <1>8, NoOutput, BoundsAnswered
<1>9. CASE Chain!DoWorkDone
  <2>1. UNCHANGED <<works, caller, stops, pending, applied>>
    BY <1>9 DEF Chain!DoWorkDone
  <2> QED BY <1>9, <2>1, WorkDone, BoundsRest
<1>10. CASE Chain!CodecReorders
  <2>1. UNCHANGED <<works, caller, stops, pending, applied>>
    BY <1>10 DEF Chain!CodecReorders
  <2> QED BY <1>10, <2>1, Reordering, BoundsRest
<1> QED BY <1>1, <1>2, <1>3, <1>4, <1>5, <1>6, <1>7, <1>8, <1>9, <1>10 DEF Chain!Next, Line

\* Nothing is on its way when the component comes up.
LEMMA ChainStart ==
  ASSUME Chain!Init
  PROVE  ChainInv /\ ChainBounds
<1>1. Line = 1..NumFilters /\ NumFilters \in Nat /\ NumFilters >= 2
  BY FiltersAssumption DEF Line, Chain!Filters
<1>2. limits \in Bounds /\ limits.works \in Nat /\ limits.outs \in Nat
  BY FiltersAssumption DEF Chain!Init
<1>3. /\ place \in {1, NumFilters - 1} /\ works = 0 /\ caller = Chain!Idle
      /\ (\A f \in Line : tasks[f] = <<>>) /\ tasks = [f \in Line |-> <<>>]
      /\ job = [f \in Line |-> NoJob] /\ infos = <<>> /\ pending = 0
      /\ applied = [f \in Line |-> 0] /\ finished = <<>> /\ given = [f \in Line |-> {}] /\ gone = 0
         /\ stray = {}
      /\ stale = FALSE /\ behind = FALSE /\ stops = 0 /\ failures = 0
  BY DEF Chain!Init, Line, NoJob, Chain!None
<1>4. DOMAIN <<>> = {} /\ \A S : <<>> \in Seq(S)
  OBVIOUS
<1>5. caller \in CallerType /\ caller.step = "idle"
  BY <1>1, <1>3 DEF CallerType, CallerSteps, Chain!Idle
<1>6. NoJob \in JobType
  <2>1. NoJob.todo = <<>> /\ NoJob = [work |-> NoJob.work, todo |-> <<>>]
    BY DEF NoJob, Chain!NoJob
  <2>2. NoJob.work \in WorkType
    <3>1. NoJob.work = Chain!NewWork(0, 0, FALSE)
      BY DEF NoJob, Chain!NoJob, Chain!None
    <3>2. Chain!Buffer(0) \in Item
      BY <1>2, <1>4 DEF Chain!Buffer, Item
    <3>3. [k \in 0..limits.outs |-> <<>>] \in [0..limits.outs -> Seq(Line)]
      BY <1>4
    <3> QED BY <3>1, <3>2, <3>3 DEF Chain!NewWork, WorkType
  <2> QED BY <1>4, <2>1, <2>2 DEF JobType
<1>7. ChainTypes
  <2>1. place \in {1, NumFilters - 1} /\ limits \in Bounds /\ works \in Nat /\ works <= limits.works
    BY <1>2, <1>3
  <2>2. tasks \in [Line -> Seq(TaskType)] /\ job \in [Line -> JobType] /\ applied \in [Line -> Nat]
    BY <1>3, <1>4, <1>6
  <2>3. given \in [Line -> SUBSET (1..works)] /\ gone \in 0..works /\ stray \in SUBSET (1..works)
    BY <1>3
  <2>4. infos \in Seq(WorkType) /\ finished \in Seq(WorkType)
    BY <1>3, <1>4
  <2> QED BY <1>3, <1>5, <2>1, <2>2, <2>3, <2>4 DEF ChainTypes, C
<1>8. \A x : x \notin View
  BY <1>3, <1>4 DEF View, InTasks, InJobs, InInfos, InFinished
<1>9. ChainWorks
  BY <1>3, <1>4 DEF ChainWorks
<1>10. ChainCalls
  <2>1. caller.step \notin {"waiting", "stopped", "syncing", "synced"}
    BY <1>5
  <2> QED BY <1>3, <1>4, <1>5, <2>1 DEF ChainCalls, Through
<1>11. ChainGone
  BY <1>3, <1>4 DEF ChainGone
<1>12. ChainOrder
  BY <1>3, <1>4, <1>8 DEF ChainOrder, Ordered, Rising
<1>13. ChainSettings
  BY <1>3 DEF ChainSettings, Settled, Older, Agrees, Chain!SettingsReach
<1>14. ChainBounds
  BY <1>3, <1>5 DEF ChainBounds
<1> QED BY <1>7, <1>9, <1>10, <1>11, <1>12, <1>13, <1>14 DEF ChainInv

\* The chain is as it was while another part takes its steps.
LEMMA ChainStill ==
  ASSUME ChainInv, ChainBounds, UNCHANGED chainVars
  PROVE  ChainInv' /\ ChainBounds'
<1>1. UNCHANGED <<limits, place, works, caller, tasks, job, infos, pending, applied, finished,
               given, gone, stray, stale, behind, stops, failures>>
  BY DEF chainVars
<1>2. C' = C /\ NoJob' = NoJob
  BY <1>1 DEF C, NoJob, Chain!NoJob, Chain!NewWork
<1>3. CallStep
  <2>1. Follows
    BY <1>1 DEF Follows
  <2>2. /\ tasks' \in ChainPools /\ gone' \in 0..works /\ stray' \in SUBSET (1..works)
           /\ stops' \in Nat
        /\ caller' \in CallerType /\ given' \in [Line -> SUBSET (1..works)]
    BY <1>1 DEF ChainPools, ChainInv, ChainTypes
  <2> QED BY <1>1, <2>1, <2>2 DEF CallStep
<1>4. SettingsDropped
  <2>1. \A x \in View : x \in View'
    <3> SUFFICES ASSUME NEW x \in View PROVE x \in View'
      OBVIOUS
    <3>1. \/ x \in View'
          \/ \E f \in Line : \E i \in DOMAIN tasks[f] :
               SeesTask(x, f, tasks[f][i]) /\ \A j \in DOMAIN tasks'[f] : tasks'[f][j] # tasks[f][i]
          \/ infos' # infos /\ \E i \in DOMAIN infos : Sees(x, 4 * C + 2, infos[i], TRUE)
      BY <1>3, CallView DEF ChainInv
    <3> QED BY <1>1, <3>1
  <2> QED BY <1>1, <2>1 DEF SettingsDropped
<1>5. ChainTypes' /\ ChainWorks' /\ ChainOrder' /\ ChainSettings' /\ ChainBounds'
  <2>1. caller'.step # "idle" => stops' >= 1
    BY <1>1 DEF ChainBounds
  <2> QED BY <1>3, <1>4, <2>1, CallKept
<1>6. ChainCalls'
  BY <1>1, <1>2 DEF ChainInv, ChainCalls, Through
<1>7. ChainGone'
  BY <1>1, <1>2 DEF ChainInv, ChainGone, Left, Old
<1> QED BY <1>5, <1>6, <1>7 DEF ChainInv

\* The types of the module follow from it,
LEMMA ChainTypeOK ==
  ASSUME ChainInv, ChainBounds
  PROVE  Chain!TypeOK
<1> USE DEF ChainInv
<1>1. works \in 0..limits.works /\ gone \in 0..works /\ pending \in 0..works /\ works \in Nat
  BY ChainConstants DEF ChainTypes, ChainBounds
<1>2. caller.how \in {"none", "flush", "stop"} /\ caller.at \in Line \cup {0}
      /\ caller.step \in CallerSteps
  BY ChainConstants DEF ChainTypes, CallerType
<1>3. applied \in [Line -> 0..works] /\ given \in [Line -> SUBSET (1..works)]
  <2>1. applied \in [Line -> Nat] /\ \A f \in Line : applied[f] <= works
    BY DEF ChainTypes, ChainBounds
  <2> QED BY <1>1, <2>1 DEF ChainTypes
<1>4. ASSUME NEW w \in WorkType, Real(w), w.inputIndex >= 0 PROVE Chain!WorkIn(w)
  <2>1. /\ w.id \in Nat /\ w.params \in Nat /\ w.csd \in BOOLEAN /\ w.inputIndex \in Int
           /\ Len(w.buffers) \in Nat
    BY DEF WorkType
  <2>2. w.id >= 1 /\ w.id <= works /\ w.params <= w.id /\ w.inputIndex <= Len(w.buffers)
    BY <1>4 DEF Real
  <2>3. w.id \in 1..works /\ w.params \in 0..works /\ w.inputIndex \in 0..Len(w.buffers)
    BY <1>1, <1>4, <2>1, <2>2
  <2> QED BY <2>1, <2>3 DEF Chain!WorkIn, Chain!None
<1>5. ASSUME NEW f \in Line, job[f] # NoJob
      PROVE  Chain!WorkIn(job[f].work) /\ job[f].work.in - job[f].work.out = Len(job[f].todo)
  <2> DEFINE w == job[f].work
             d == job[f].todo
  <2>1. w \in WorkType /\ Working(w, d, f)
    BY <1>5, Places DEF ChainWorks, Runs
  <2> HIDE DEF w, d
  <2>2. w.inputIndex >= 0
    <3> DEFINE l == Len(w.buffers)
    <3>1. l \in Nat /\ w.out \in Int /\ w.in \in Int
      BY <2>1 DEF WorkType
    <3>2. w.inputIndex = l - w.out /\ w.out < w.in /\ w.in <= l
      BY <2>1 DEF Working
    <3> HIDE DEF l
    <3> QED BY <3>1, <3>2
  <2>3. Real(w) /\ w.in - w.out = Len(d)
    BY <2>1 DEF Working
  <2>4. Chain!WorkIn(w) /\ w.in - w.out = Len(d)
    BY <1>4, <2>1, <2>2, <2>3
  <2> QED BY <2>4 DEF w, d
<1>6. \A f \in Line : \A t \in Chain!ToSet(tasks[f]) : t.op \in {"work", "done", "stop", "sync"}
  BY Places DEF Chain!ToSet, TaskType
<1>7. \A w \in Chain!ToSet(infos) : Chain!WorkIn(w)
  <2> SUFFICES ASSUME NEW i \in DOMAIN infos PROVE Chain!WorkIn(infos[i])
    BY DEF Chain!ToSet
  <2> DEFINE w == infos[i]
  <2>1. w \in WorkType /\ AtRest(w, C + 1) /\ C \in Nat
    <3>1. C + 1 \in 1..(NumFilters + 1)
      BY Places
    <3> QED BY <3>1, Places DEF ChainWorks, Waits
  <2> HIDE DEF w
  <2>2. ~w.spoiled
    <3>1. C + 1 <= C + 1
      BY <2>1
    <3> QED BY <2>1, <3>1 DEF AtRest
  <2>3. Real(w) /\ w.inputIndex >= 0
    BY <2>1, <2>2 DEF AtRest
  <2> QED BY <1>4, <2>1, <2>3 DEF w
<1>8. stray \subseteq 1..works
  BY DEF ChainTypes
<1> QED BY <1>1, <1>2, <1>3, <1>5, <1>6, <1>7, <1>8 DEF Chain!TypeOK, Line, NoJob, Chain!None,
           CallerSteps

\* What is left of a work's buffers for the filter it rests at.
LEMMA TodoIs ==
  ASSUME ChainTypes, NEW f \in 1..(NumFilters + 1), NEW w \in WorkType, AtRest(w, f), ~w.spoiled
  PROVE  /\ Chain!Todo(w) \in Seq(Item) /\ Len(Chain!Todo(w)) = Size(w, f)
         /\ \A i \in 1..Size(w, f) : Fresh(Chain!Todo(w)[i], w, f, i)
<1> DEFINE b == w.buffers
           l == Len(b)
           x == w.inputIndex
           s == Size(w, f)
<1>1. b \in Seq(Item) /\ l \in Nat /\ x \in Int /\ w.outs \in Nat
  BY DEF WorkType
<1>2. l - x = s /\ x >= 0 /\ x <= l /\ \A i \in 1..s : Fresh(b[x + i], w, f, i)
  BY DEF AtRest, Real
<1>3. Chain!Todo(w) = SubSeq(b, x + 1, l)
  <2>1. ~(w.inputIndex < 0)
    BY <1>1, <1>2
  <2> QED BY <2>1, Zenon DEF Chain!Todo
<1>4. \A i \in 1..l : b[i] \in Item
  BY <1>1
<1> HIDE DEF b, x, s
<1>5. /\ SubSeq(b, x + 1, l) \in Seq(Item) /\ Len(SubSeq(b, x + 1, l)) = l - x
      /\ \A i \in 1..(l - x) : SubSeq(b, x + 1, l)[i] = b[x + i]
  <2> DEFINE m == x + 1
             u == SubSeq(b, m, l)
  <2>1. m \in Int /\ m = x + 1 /\ x \in Int /\ l \in Int /\ x <= l /\ x >= 0
    BY <1>1, <1>2
  <2> HIDE DEF l, m
  <2>2. \A i \in m..l : b[i] \in Item
    BY <1>4, <2>1
  <2>3. /\ u \in Seq(Item) /\ Len(u) = (IF m <= l THEN l - m + 1 ELSE 0)
        /\ \A i \in 1..(l - m + 1) : u[i] = b[m + i - 1]
    BY <2>1, <2>2, SubSeqProperties
  <2>4. u \in Seq(Item) /\ Len(u) = l - x /\ \A i \in 1..(l - x) : u[i] = b[x + i]
    <3> HIDE DEF u
    <3>1. Len(u) = l - x
      BY <1>1, <2>1, <2>3
    <3>2. ASSUME NEW i \in 1..(l - x) PROVE u[i] = b[x + i]
      <4>1. i \in 1..(l - m + 1) /\ m + i - 1 = x + i
        BY <1>1, <2>1
      <4> QED BY <2>3, <4>1
    <3> QED BY <2>3, <3>1, <3>2
  <2> QED BY <2>4 DEF u, m, l
<1>6. /\ Chain!Todo(w) \in Seq(Item) /\ Len(Chain!Todo(w)) = s
      /\ \A i \in 1..s : Fresh(Chain!Todo(w)[i], w, f, i)
  BY <1>2, <1>3, <1>5
<1> QED BY <1>6 DEF s

\* A work that may wait at a filter has for it the newest version of each frame.
LEMMA WholeIs ==
  ASSUME ChainTypes, NEW f \in 1..(NumFilters + 1), NEW w \in WorkType, AtRest(w, f)
  PROVE  Chain!Whole(w, f)
<1>1. CASE w.spoiled
  BY <1>1 DEF Chain!Whole
<1>2. CASE ~w.spoiled
  <2> DEFINE t == Chain!Todo(w)
  <2>1. t \in Seq(Item) /\ Len(t) = Size(w, f) /\ \A i \in 1..Size(w, f) : Fresh(t[i], w, f, i)
    BY <1>2, TodoIs
  <2>2. C \in Nat /\ f \in Nat
    BY Places
  <2> HIDE DEF t
  <2>3. CASE f <= C
    <3> DEFINE m == w.made[0]
               b == t[1]
    <3>1. Len(t) = 1 /\ b \in Item /\ t = <<b>>
      BY <2>1, <2>3 DEF Size
    <3>2. b.k = 0 /\ b.by = m /\ b.replica = FALSE
      BY <2>1, <2>3 DEF Size, Fresh, Kth
    <3>3. [Chain!Buffer(0) EXCEPT !.by = m] = [k |-> 0, by |-> m, replica |-> FALSE]
      <4>1. Chain!Buffer(0) = [k |-> 0, by |-> <<>>, replica |-> FALSE]
        BY DEF Chain!Buffer
      <4> HIDE DEF m
      <4> DEFINE r == [[k |-> 0, by |-> <<>>, replica |-> FALSE] EXCEPT !.by = m]
      <4>2. r \in [k : {0}, by : {m, <<>>}, replica : {FALSE}] /\ r.by = m
        OBVIOUS
      <4>3. r = [k |-> 0, by |-> m, replica |-> FALSE]
        <5> HIDE DEF r
        <5> QED BY <4>2
      <4> QED BY <4>1, <4>3
    <3>4. b = [k |-> 0, by |-> m, replica |-> FALSE]
      <4> HIDE DEF b, m
      <4> QED BY <3>1, <3>2 DEF Item
    <3> QED BY <2>3, <3>1, <3>3, <3>4 DEF Chain!Whole, t, C
  <2>4. CASE f > C
    <3>1. Size(w, f) = w.outs /\ \A i \in 1..w.outs : t[i].k = i /\ t[i].by = w.made[i]
      BY <2>1, <2>2, <2>4 DEF Size, Fresh, Kth
    <3> QED BY <2>1, <2>4, <3>1 DEF Chain!Whole, t, C
  <2> QED BY <2>2, <2>3, <2>4
<1> QED BY <1>1, <1>2

\* so does that works are whole,
LEMMA ChainWhole ==
  ASSUME ChainInv
  PROVE  Chain!WorksWhole
<1> USE DEF ChainInv
<1>1. ASSUME NEW f \in Line, NEW i \in DOMAIN tasks[f], tasks[f][i].op = "work"
      PROVE  Chain!Whole(tasks[f][i].work, f)
  <2>1. f \in 1..(NumFilters + 1) /\ tasks[f][i].work \in WorkType
    BY Places
  <2>2. AtRest(tasks[f][i].work, f)
    BY <1>1, <2>1 DEF ChainWorks, Waits
  <2> QED BY <2>1, <2>2, WholeIs
<1>2. ASSUME NEW i \in DOMAIN finished PROVE Chain!Whole(finished[i], NumFilters + 1)
  <2>1. NumFilters + 1 \in 1..(NumFilters + 1) /\ finished[i] \in WorkType
    BY Places
  <2>2. AtRest(finished[i], NumFilters + 1)
    BY <2>1 DEF ChainWorks, Waits
  <2> QED BY <2>1, <2>2, WholeIs
<1> QED BY <1>1, <1>2 DEF Chain!WorksWhole, Chain!ToSet, Line

\* A work is answered once.
LEMMA AnsweredOnce ==
  ASSUME ChainInv
  PROVE  Chain!Cardinality({w.id : w \in Chain!ToSet(finished)}) = Len(finished)
<1> USE DEF ChainInv
<1> DEFINE n == Len(finished)
           S == {w.id : w \in Chain!ToSet(finished)}
           h == [i \in 1..n |-> finished[i].id]
<1>1. n \in Nat /\ DOMAIN finished = 1..n /\ \A i \in 1..n : finished[i].id \in Nat
  <2>1. \A i \in DOMAIN finished : finished[i].id \in Nat
    BY Places DEF WorkType
  <2> QED BY <2>1, Places
<1>2. \A i, j \in 1..n : i < j => finished[i].id < finished[j].id
  BY <1>1 DEF ChainOrder, Rising
<1>3. \A x : x \in S <=> \E i \in 1..n : x = finished[i].id
  BY <1>1 DEF Chain!ToSet
<1> HIDE DEF n, S
<1>4. h \in [1..n -> S]
  BY <1>3
<1>5. \A i, j \in 1..n : h[i] = h[j] => i = j
  BY <1>1, <1>2
<1>6. \A x \in S : \E i \in 1..n : h[i] = x
  BY <1>3
<1>7. h \in Bijection(1..n, S)
  <2> HIDE DEF h
  <2> QED BY <1>4, <1>5, <1>6 DEF Bijection, Injection, IsInjective, Surjection
<1>8. Cardinality(S) = n
  <2>1. ExistsBijection(1..n, S)
    BY <1>7 DEF ExistsBijection
  <2> QED BY <1>1, <2>1, FS_CountingElements
<1>9. Chain!Cardinality(S) = Cardinality(S)
  BY DEF Chain!Cardinality, Cardinality
<1> QED BY <1>8, <1>9 DEF n, S

\* that a flush or a stop leaves nothing of before,
LEMMA ChainFlushed ==
  ASSUME ChainInv
  PROVE  Chain!FlushedIsGone
<1> USE DEF ChainInv
<1>1. ASSUME NEW f \in Line, NEW id \in Chain!InFilter(f), id # 0, Left(f)
      PROVE  Old(id)
  <2>1. CASE \E i \in DOMAIN tasks[f] : id = tasks[f][i].work.id
    <3>1. PICK i \in DOMAIN tasks[f] : id = tasks[f][i].work.id
      BY <2>1
    <3>2. tasks[f][i].op \in {"work", "done", "stop", "sync"}
      BY Places DEF TaskType
    <3>3. tasks[f][i].op \notin {"stop", "sync"}
      BY <1>1, <3>1 DEF ChainWorks
    <3> QED BY <1>1, <3>1, <3>2, <3>3 DEF ChainGone
  <2>2. CASE id = job[f].work.id
    <3>1. job[f] # NoJob
      BY <1>1, <2>2, NoJobIs
    <3> QED BY <1>1, <2>2, <3>1 DEF ChainGone
  <2>3. CASE f = C /\ \E i \in DOMAIN infos : id = infos[i].id
    BY <1>1, <2>3 DEF ChainGone
  <2> QED BY <1>1, <2>1, <2>2, <2>3 DEF Chain!InFilter, Chain!ToSet, C
<1>2. ASSUME NEW f \in Line
      PROVE  IF caller.step = "idle" THEN \A id \in Chain!InFilter(f) \ {0} : id > gone \/ id \in stray
             ELSE f < caller.at => Chain!InFilter(f) \subseteq stray \cup {0}
  <2>1. CASE caller.step = "idle"
    BY <1>1, <2>1 DEF Left, Old
  <2>2. CASE caller.step # "idle"
    BY <1>1, <2>2 DEF Left, Old
  <2> QED BY <2>1, <2>2
<1>3. \A id \in stray : caller.how # "flush" \/ stops > 1
  <2>1. stops \in Nat
    BY DEF ChainTypes
  <2> QED BY <2>1 DEF ChainGone
<1> QED BY <1>2, <1>3, AnsweredOnce DEF Chain!FlushedIsGone, Line, Chain!None

\* and that settings reach the frames they were given for.
LEMMA ChainReached ==
  ASSUME ChainInv
  PROVE  Chain!SettingsReach
BY DEF ChainInv, ChainSettings


-----------------------------------------------------------------------------
(***************************************************************************)
(* The chain, and the modules about filters together.                      *)
(***************************************************************************)

\* The works that the filters of a chain hand on are whole, each frame is handled with
\* the newest setting that came with it or before, and a flush or a stop leaves nothing
\* of before it (Exynos_Filter, FilterManager's calls and the codec's obtainWorkInfo()).
THEOREM ChainSafe ==
  Chain!Spec => [](Chain!TypeOK /\ Chain!WorksWhole /\ Chain!SettingsReach /\ Chain!FlushedIsGone)
<1>1. Chain!Init => ChainInv /\ ChainBounds
  BY ChainStart
<1>2. (ChainInv /\ ChainBounds) /\ [Chain!Next]_(Chain!vars) => (ChainInv /\ ChainBounds)'
  <2>1. UNCHANGED Chain!vars => UNCHANGED chainVars
    BY DEF Chain!vars, chainVars
  <2> QED BY <2>1, ChainStep, ChainStill
<1>3. ChainInv /\ ChainBounds => Chain!TypeOK /\ Chain!WorksWhole /\ Chain!SettingsReach
      /\ Chain!FlushedIsGone
  BY ChainTypeOK, ChainWhole, ChainReached, ChainFlushed
<1> QED BY <1>1, <1>2, <1>3, PTL DEF Chain!Spec

\* One part takes the steps of a behaviour, and the others rest: the invariants of all
\* three go together.
FiltersInv ==
  /\ part \in {"codec", "chain", "post"}
  /\ Inductive /\ ChainInv /\ ChainBounds /\ PostInv

\* They hold where the filters come up.
LEMMA FiltersStart == ASSUME MCInit PROVE FiltersInv
<1>1. Init /\ Chain!Init /\ Post!Init /\ part \in {"codec", "chain", "post"}
  BY DEF MCInit, ChainRests, PostRests
<1> QED BY <1>1, Initially, ChainStart, PostInit DEF FiltersInv

\* A step of one part leaves the others as they are.
LEMMA FiltersStep ==
  ASSUME FiltersInv, [MCNext]_<<part, vars, chainVars, postVars>>
  PROVE  FiltersInv'
<1> USE DEF FiltersInv
<1>1. part' = part
  BY DEF MCNext
<1>2. ASSUME UNCHANGED vars PROVE Inductive'
  BY <1>2, Stuttering
<1>3. ASSUME UNCHANGED chainVars PROVE ChainInv' /\ ChainBounds'
  BY <1>3, ChainStill
<1>4. ASSUME UNCHANGED postVars PROVE PostInv'
  <2>1. UNCHANGED Post!vars
    BY <1>4 DEF postVars, Post!vars, Post!streamVars, Post!controlVars, Post!filterVars,
       Post!statVars,
       Post!historyVars
  <2> QED BY <2>1, PostRests0
<1>5. CASE Next /\ UNCHANGED <<chainVars, postVars>>
  BY <1>1, <1>3, <1>4, <1>5, Induction
<1>6. CASE Chain!Next /\ UNCHANGED <<vars, postVars>>
  BY <1>1, <1>2, <1>4, <1>6, ChainStep
<1>7. CASE Post!Next /\ UNCHANGED <<vars, chainVars>>
  BY <1>1, <1>2, <1>3, <1>7, PostStep
<1>8. CASE UNCHANGED <<vars, chainVars, postVars>>
  BY <1>1, <1>2, <1>3, <1>4, <1>8
<1> QED BY <1>5, <1>6, <1>7, <1>8 DEF MCNext

\* Every behaviour of the instance that the run codec_filter checks keeps them.
THEOREM FiltersInvariance == MCSpec => []FiltersInv
<1>1. MCInit => FiltersInv
  BY FiltersStart
<1>2. FiltersInv /\ [MCNext]_<<part, vars, chainVars, postVars>> => FiltersInv'
  BY FiltersStep
<1> QED BY <1>1, <1>2, PTL DEF MCSpec

\* The variables of the part whose turn it is have their types.
THEOREM FiltersTyped == MCSpec => []MCTypeOK
<1>1. ASSUME FiltersInv PROVE MCTypeOK
  <2>1. TypeOK /\ Chain!TypeOK /\ Post!TypeOK
    BY <1>1, ChainTypeOK, PostImplies DEF FiltersInv, Inductive
  <2> QED BY <1>1, <2>1 DEF FiltersInv, MCTypeOK
<1> QED BY <1>1, FiltersInvariance, PTL

\* A filter finds in a work the newest version of each frame and handles it with the
\* newest settings, nothing of before a flush is left behind it, and the filters behind
\* the codec do to a frame what it needs and say so.
THEOREM FiltersKeepWorks == MCSpec => []WorksKept
<1>1. ASSUME FiltersInv PROVE WorksKept
  <2>1. Chain!WorksWhole /\ Chain!SettingsReach /\ Chain!FlushedIsGone
    BY <1>1, ChainWhole, ChainReached, ChainFlushed DEF FiltersInv
  <2>2. Post!GrainApplied /\ Post!HdrConverted /\ Post!ToldEnough /\ Post!MetadataOwn
    BY <1>1, PostImplies DEF FiltersInv
  <2> QED BY <2>1, <2>2 DEF WorksKept
<1> QED BY <1>1, FiltersInvariance, PTL

=============================================================================
