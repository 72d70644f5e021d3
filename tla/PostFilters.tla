---------------------------- MODULE PostFilters ----------------------------
(* What happens to a frame behind the codec's filter.  A decoder's frames   *)
(* pass a control filter that only looks at them and tells the others what  *)
(* to do, color conversion (CSC), film grain and the conversion of HDR to   *)
(* SDR; an encoder's pass a filter that writes HDR10+ metadata made of the  *)
(* hardware's statistics.  A filter keeps what it was told across frames,   *)
(* some of it across stops and resets.  Each filter has the frames in order *)
(* and keeps its state for itself: so one frame is on its way at a time.    *)
EXTENDS Integers, FiniteSets

CONSTANTS
  Streams,      \* kinds of frames of each stream
  Clients,      \* what a client may ask with an input
  Libraries,    \* which of "grain" and "sdr" a product has, "required": conversion is a must
  MaxFrames, MaxLosses   \* bounds of the model: frames; flushes, stops, resets and failures

None == "none"
TenBits == {"SBWC10", "P010", "P010M"}

VARIABLES
  stream, libs,   \* the stream and the product of this behaviour
  up,             \* "new", "running" or "stopped"
  withStats,      \* the encoder's statistics are on, from start to stop
  list,           \* the list of filters goes with the next input
  at, frame,      \* the filter that has the frame
  mId,            \* control knows the filters
  hdrLib, grainLib,            \* its libraries: None, or whether they are loaded
  mUseHDR2SDR, mUseFilmGrain, mHasFilmGrain, mUseCSC, mUsedFilterNum,
  mCSC, mFormat, shape,        \* CSC: started; format; cropping, scaling or copying
  loaded,                      \* the libraries that are loaded by the filters themselves
  mInfo, mIsConfigured,        \* film grain
  mIsEnabled,                  \* HDR to SDR
  mStatInfo, mHasStatInfo, mDynamicInfo, mHasDynamicInfo,   \* HDR10+ statistics
  told,           \* the filters in use that the component knows of
  count, losses,  \* bounds
  plain,          \* history: the client asked nothing of CSC
  asked,          \* history: the client's wish for SDR reached the filter
  restarted,      \* history: stopped since it was new
  unsaid          \* history: a frame with a count for the component was lost

streamVars  == <<stream, libs, up, withStats, list, at, frame, count, losses>>
controlVars == <<mId, hdrLib, grainLib, mUseHDR2SDR, mUseFilmGrain, mHasFilmGrain, mUseCSC,
                 mUsedFilterNum>>
filterVars  == <<mCSC, mFormat, shape, loaded, mInfo, mIsConfigured, mIsEnabled>>
statVars    == <<mStatInfo, mHasStatInfo, mDynamicInfo, mHasDynamicInfo>>
historyVars == <<told, plain, asked, restarted, unsaid>>
vars == <<streamVars, controlVars, filterVars, statVars, historyVars>>

\* The parameters of a frame: those of its input and those the codec adds.
NoParams == [list |-> FALSE, format |-> None, shape |-> FALSE, sdr |-> FALSE, grain |-> None,
             num |-> 0, stat |-> 0, dyn |-> None, other |-> FALSE]
NoInfo == [of |-> 0, on |-> FALSE]
NoFrame == [n |-> 0, fmt |-> None, hdr |-> FALSE, replica |-> FALSE, params |-> NoParams,
            by |-> {}, applied |-> 0, due |-> FALSE, spoiled |-> FALSE,
            sei |-> <<0, None>>]

Init ==
  /\ stream \in Streams /\ libs \in Libraries /\ up = "new" /\ withStats = FALSE /\ list = FALSE
  /\ at = None /\ frame = NoFrame /\ count = 0 /\ losses = 0
  /\ mId = FALSE /\ hdrLib = None /\ grainLib = None /\ mUseHDR2SDR = FALSE
  /\ mUseFilmGrain = FALSE /\ mHasFilmGrain = FALSE /\ mUseCSC = FALSE /\ mUsedFilterNum = 0
  /\ mCSC = FALSE /\ mFormat = None /\ shape = FALSE /\ loaded = {} /\ mInfo = NoInfo
  /\ mIsConfigured = FALSE /\ mIsEnabled = FALSE
  /\ mStatInfo = 0 /\ mHasStatInfo = FALSE /\ mDynamicInfo = None /\ mHasDynamicInfo = FALSE
  /\ told = 0 /\ plain = TRUE /\ asked = FALSE /\ restarted = FALSE
  /\ unsaid = FALSE

----------------------------------------------------------------------------
(* Start, stop, flush and reset of the component. *)

\* What was loaded once stays unloaded for the control filter behind a stop,
\* while the filters themselves load again.
LibAfterStart(lib, there) == IF lib = None THEN (IF there THEN "loaded" ELSE "unloaded") ELSE lib

Start ==
  /\ up # "running" /\ up' = "running" /\ list' = TRUE
  /\ withStats' \in {FALSE} \cup {kind.stat : kind \in stream}
  /\ hdrLib' = LibAfterStart(hdrLib, "sdr" \in libs)
  /\ grainLib' = LibAfterStart(grainLib, "grain" \in libs)
  /\ mCSC' = TRUE
  /\ mFormat' = IF mCSC THEN mFormat ELSE None
  /\ shape' = (mCSC /\ shape)
  /\ loaded' = libs \cap {"grain", "sdr", "stat"}
  /\ UNCHANGED <<stream, libs, at, frame, count, losses, mId, mUseHDR2SDR, mUseFilmGrain,
                 mHasFilmGrain, mUseCSC, mUsedFilterNum, mInfo, mIsConfigured, mIsEnabled,
                 statVars, historyVars>>

\* The frame that is on its way is lost, with what it was to tell.
Lose ==
  /\ at' = None /\ frame' = NoFrame
  /\ unsaid' = (unsaid \/ frame.params.num > 0)

Flush ==
  /\ up = "running" /\ losses < MaxLosses /\ losses' = losses + 1
  /\ Lose /\ list' = TRUE
  /\ UNCHANGED <<stream, libs, up, withStats, count, controlVars, filterVars, statVars, told, plain,
                 asked, restarted>>

Stop ==
  /\ up = "running" /\ losses < MaxLosses /\ losses' = losses + 1
  /\ up' = "stopped" /\ Lose
  /\ hdrLib' = "unloaded" /\ grainLib' = "unloaded"
  /\ loaded' = {} /\ mIsConfigured' = FALSE
  /\ restarted' = TRUE
  /\ UNCHANGED <<stream, libs, withStats, list, count, mId, mUseHDR2SDR, mUseFilmGrain, mHasFilmGrain,
                 mUseCSC, mUsedFilterNum, mCSC, mFormat, shape, mInfo, mIsEnabled, statVars,
                 told, plain, asked>>

\* reset() of a stopped component; it keeps the use of CSC, the identities and
\* the conversion to SDR.
Reset ==
  /\ up = "stopped" /\ up' = "new"
  /\ mUsedFilterNum' = 0 /\ hdrLib' = None /\ grainLib' = None
  /\ mUseHDR2SDR' = FALSE /\ mUseFilmGrain' = FALSE /\ mHasFilmGrain' = FALSE
  /\ mCSC' = FALSE /\ mInfo' = NoInfo
  /\ mStatInfo' = 0 /\ mDynamicInfo' = None
  /\ asked' = FALSE /\ restarted' = FALSE
  /\ UNCHANGED <<stream, libs, withStats, list, at, frame, count, losses, mId, mUseCSC, mFormat, shape,
                 loaded, mIsConfigured, mIsEnabled, mHasStatInfo, mHasDynamicInfo, told, plain,
                 unsaid>>

----------------------------------------------------------------------------
(* A decoder's frame. *)

\* The codec's filter hands a frame on, with the parameters of its input.
Decode ==
  /\ up = "running" /\ at = None /\ count < MaxFrames
  /\ \E kind \in stream, client \in Clients :
       LET params == [NoParams EXCEPT !.list = list, !.format = client.format,
                        !.shape = client.shape, !.sdr = client.sdr /\ "sdr" \in libs,
                        !.grain = kind.grain, !.other = client.other] IN
       /\ kind.codec = "dec"
       /\ frame' = [NoFrame EXCEPT !.n = count + 1, !.fmt = kind.fmt, !.hdr = kind.hdr,
                      !.replica = kind.replica, !.params = params]
       /\ plain' = (plain /\ client.format = None /\ ~client.shape)
  /\ at' = "control" /\ list' = FALSE /\ count' = count + 1
  /\ UNCHANGED <<stream, libs, up, withStats, losses, controlVars, filterVars, statVars, told, asked,
                 restarted, unsaid>>

Goes(to, next) == at' = to /\ frame' = next

\* Without parameters applyConfig() leaves everything as it is.
Empty(params) == params = NoParams

\* The frame's parameters for CSC, for the conversion to SDR and for grain.
Hdr2SdrFormat_OneFd(fmt, told_) ==
  CASE fmt \in TenBits \ {"P010"} -> "P010M"
    [] fmt \notin TenBits /\ told_ = "YV12" -> "any"
    [] OTHER -> told_
Hdr2SdrFormat(fmt, told_) ==
  CASE fmt \in TenBits -> "P010M"
    [] fmt \notin TenBits /\ told_ = "YV12" -> "any"
    [] OTHER -> told_
GrainRequest_Sbwc(fmt) ==
  CASE fmt = "SBWC8" -> "NV12M" [] fmt = "SBWC10" -> "P010M" [] OTHER -> fmt
GrainRequest(fmt) ==
  CASE fmt \in {"SPN", "SBWC8"} -> "NV12M" [] fmt \in {"SBWC10", "P010"} -> "P010M" [] OTHER -> fmt
GrainFormat(fmt, told_) ==
  CASE GrainRequest(fmt) # fmt -> GrainRequest(fmt) [] told_ = "YV12" -> "YV12M" [] OTHER -> told_

\* The count goes to the component when it grows.
CountToTell_Lags(used, num) == IF num + 1 < used THEN used ELSE 0
CountToTell(used, num) == IF num < used THEN used ELSE 0

Control ==
  /\ at = "control"
  /\ LET p == frame.params
         knows == mId \/ p.list
         grainKnown == knows /\ grainLib # None
         hasGrain == IF Empty(p) THEN mHasFilmGrain
                     ELSE grainKnown /\ p.grain # None /\ grainLib = "loaded"
         useGrain == IF grainKnown /\ p.grain # None THEN grainLib = "loaded" ELSE mUseFilmGrain
         byClient == mUseHDR2SDR \/ (knows /\ hdrLib # None /\ p.sdr)
         byLibrary == ~byClient /\ knows /\ hdrLib = "loaded" /\ "required" \in libs
         useSdr == byClient \/ byLibrary
         forSdr == IF useSdr /\ knows THEN Hdr2SdrFormat(frame.fmt, p.format) ELSE p.format
         forGrain == IF hasGrain /\ knows THEN GrainFormat(frame.fmt, forSdr) ELSE forSdr
         useCsc == mUseCSC \/ (useSdr /\ knows) \/ forGrain # forSdr
         used == Cardinality({x \in {<<"csc", useCsc>>, <<"grain", useGrain>>} : x[2]})
         num == CountToTell(used, mUsedFilterNum)
     IN  /\ mId' = knows /\ mHasFilmGrain' = hasGrain /\ mUseFilmGrain' = useGrain
         /\ mUseHDR2SDR' = useSdr /\ mUseCSC' = useCsc
         /\ mUsedFilterNum' = IF num > 0 THEN num ELSE mUsedFilterNum
         /\ Goes("csc", [frame EXCEPT !.params = [p EXCEPT !.format = forGrain, !.num = num,
                                                    !.sdr = p.sdr \/ byLibrary]])
  /\ UNCHANGED <<stream, libs, up, withStats, list, count, losses, hdrLib, grainLib, filterVars, statVars,
                 historyVars>>

\* The format CSC makes of a frame, and whether there is nothing to do.
CscFormat(fmt, to) ==
  CASE to = None -> fmt
    [] to = "420_888" -> IF fmt \in TenBits THEN "YV12" ELSE fmt
    [] to = "P010" -> IF fmt \in TenBits THEN "P010" ELSE fmt
    [] OTHER -> to
Csc ==
  /\ at = "csc"
  /\ LET p == frame.params
         to == IF p.format \in {None, "any"} THEN mFormat ELSE p.format
         shape2 == shape \/ p.shape
         fmt == CscFormat(frame.fmt, to)
     IN  /\ mFormat' = to /\ shape' = shape2
         /\ IF frame.replica \/ (~shape2 /\ fmt = frame.fmt) THEN Goes("grain", frame)
            ELSE Goes("grain", [frame EXCEPT !.fmt = fmt, !.by = @ \cup {"csc"}])
  /\ UNCHANGED <<stream, libs, up, withStats, list, count, losses, controlVars, mCSC, loaded, mInfo,
                 mIsConfigured, mIsEnabled, statVars, historyVars>>

\* Film grain works on formats with a plane each; a failure leaves the frame as
\* it is, and the library is initialized again for the next one.
Supported(fmt) == fmt \in {"NV12M", "P010M", "YV12M"}
GrainFails == losses < MaxLosses /\ losses' = losses + 1
Grain ==
  /\ at = "grain"
  /\ LET info == IF frame.params.grain = None THEN mInfo
                 ELSE [of |-> frame.n, on |-> frame.params.grain = "on"]
         idle == \/ "grain" \notin loaded \/ frame.replica
                 \/ ~info.on \/ ~Supported(frame.fmt)
     IN  /\ mInfo' = info
         /\ \/ idle /\ Goes("hdr2sdr", frame) /\ UNCHANGED <<mIsConfigured, losses>>
            \/ /\ ~idle /\ mIsConfigured' = TRUE /\ UNCHANGED losses
               /\ Goes("hdr2sdr", [frame EXCEPT !.by = @ \cup {"grain"}, !.applied = info.of,
                                     !.fmt = IF @ = "YV12M" THEN "YV12" ELSE @])
            \/ ~idle /\ GrainFails /\ mIsConfigured' = FALSE
               /\ Goes("hdr2sdr", [frame EXCEPT !.spoiled = TRUE])
  /\ UNCHANGED <<stream, libs, up, withStats, list, count, controlVars, mCSC, mFormat, shape, loaded,
                 mIsEnabled, statVars, historyVars>>

\* Only a frame of HDR10 in the format with two planes is converted.  A failure
\* makes a corrupt frame.
IsHdr10(f) == f.hdr /\ f.fmt = "P010M"
Hdr2Sdr ==
  /\ at = "hdr2sdr"
  /\ LET on == mIsEnabled \/ frame.params.sdr
         idle == "sdr" \notin loaded \/ frame.replica \/ ~on \/ ~IsHdr10(frame)
         now == [frame EXCEPT !.due = (asked \/ frame.params.sdr) /\ "sdr" \in loaded]
         done == [now EXCEPT !.by = @ \cup {"sdr"}, !.fmt = "NV12M"]
     IN  /\ mIsEnabled' = on
         /\ asked' = (asked \/ frame.params.sdr)
         /\ \/ idle /\ Goes("component", now) /\ UNCHANGED losses
            \/ ~idle /\ Goes("component", [done EXCEPT !.hdr = FALSE]) /\ UNCHANGED losses
            \/ ~idle /\ GrainFails /\ Goes("component", [done EXCEPT !.spoiled = TRUE])
  /\ UNCHANGED <<stream, libs, up, withStats, list, count, controlVars, mCSC, mFormat, shape, loaded, mInfo,
                 mIsConfigured, statVars, told, plain, restarted, unsaid>>

----------------------------------------------------------------------------
(* An encoder's frame. *)

\* The codec's filter hands on the stream of a frame, or of the header before
\* it: a session with statistics has them with every frame; the metadata may be
\* the client's.  The first input of a session has parameters.
Encode ==
  /\ up = "running" /\ at = None /\ count < MaxFrames
  /\ \E kind \in stream, dyn \in {None, "client"}, other \in BOOLEAN :
       /\ kind.codec = "enc" /\ (list => other)
       /\ withStats \/ dyn = None
       /\ frame' = [NoFrame EXCEPT !.n = count + 1, !.replica = kind.replica,
                      !.params = [NoParams EXCEPT !.stat = IF withStats THEN count + 1 ELSE 0,
                                    !.dyn = dyn, !.other = other]]
  /\ at' = "hdr10plus" /\ list' = FALSE /\ count' = count + 1
  /\ UNCHANGED <<stream, libs, up, withStats, losses, controlVars, filterVars, statVars, historyVars>>

\* onApplyConfig() and onProcess(); a failure destroys the work.
HasStat_Kept(p, had) == had \/ p.stat # 0
HasStat(p, had) == IF Empty(p) THEN had ELSE p.stat # 0
StatEnc ==
  /\ at = "hdr10plus"
  /\ LET p == frame.params
         stat == IF p.stat # 0 THEN p.stat ELSE mStatInfo
         dyn == IF p.dyn # None THEN p.dyn ELSE mDynamicInfo
         hasDyn == IF Empty(p) THEN mHasDynamicInfo ELSE p.dyn # None
         idle == "stat" \notin loaded \/ ~HasStat(p, mHasStatInfo) \/ frame.replica
     IN  /\ mStatInfo' = stat /\ mHasStatInfo' = HasStat(p, mHasStatInfo)
         /\ mDynamicInfo' = dyn /\ mHasDynamicInfo' = hasDyn
         /\ \/ idle /\ Goes("component", frame) /\ UNCHANGED <<losses, unsaid>>
            \/ /\ ~idle /\ UNCHANGED <<losses, unsaid>>
               /\ Goes("component", [frame EXCEPT !.sei = <<stat, IF hasDyn THEN dyn ELSE None>>])
            \/ ~idle /\ GrainFails /\ Lose
  /\ UNCHANGED <<stream, libs, up, withStats, list, count, controlVars, filterVars, told, plain, asked,
                 restarted>>

----------------------------------------------------------------------------

\* The component gets the frame and what the filters tell it.
ToldNow == IF frame.params.num > 0 THEN frame.params.num ELSE told
Deliver ==
  /\ at = "component" /\ at' = None /\ frame' = NoFrame
  /\ told' = ToldNow
  /\ UNCHANGED <<stream, libs, up, withStats, list, count, losses, controlVars, filterVars, statVars, plain,
                 asked, restarted, unsaid>>

Next ==
  \/ Start \/ Flush \/ Stop \/ Reset
  \/ Decode \/ Control \/ Csc \/ Grain \/ Hdr2Sdr
  \/ Encode \/ StatEnc \/ Deliver
Spec == Init /\ [][Next]_vars

----------------------------------------------------------------------------

\* The variables' types; nothing is processed by a filter that is not loaded.
TypeOK ==
  /\ up \in {"new", "running", "stopped"} /\ (at # None => up = "running")
  /\ hdrLib \in {None, "loaded", "unloaded"} /\ grainLib \in {None, "loaded", "unloaded"}
  /\ mUsedFilterNum \in 0..2 /\ told \in 0..2 /\ (up = "running" => mCSC)
  /\ loaded \subseteq libs /\ (mIsConfigured => "grain" \in loaded)
  /\ mHasFilmGrain => mUseFilmGrain
  /\ mInfo.of \in 0..count /\ mInfo.on \in BOOLEAN

\* A frame's film grain is applied to it, and with its own information: unless
\* the client wants another format, the component was stopped before, or the
\* library failed.
GrainApplied ==
  (/\ at = "component" /\ frame.params.grain = "on" /\ "grain" \in libs
   /\ plain /\ ~restarted /\ ~frame.spoiled)
  => frame.applied = frame.n

\* A client that asked for SDR gets no HDR10 frame, in whatever format the codec
\* decodes, whatever format the client wants and however often it stops.
HdrConverted == ~(at = "component" /\ frame.hdr /\ frame.due /\ ~frame.spoiled)

\* The component knows of the filters that are in use, and may allocate buffers
\* for them: unless a flush took the frame that was to tell, or a stop the control
\* filter's libraries.
ToldEnough ==
  (at = "component" /\ plain /\ ~restarted /\ ~unsaid) =>
    Cardinality(frame.by \cap {"csc", "grain"}) <= ToldNow

\* What is written into a stream comes from the frame's own statistics, or is
\* the client's for this frame.
MetadataOwn ==
  frame.sei # <<0, None>> =>
    frame.sei = <<frame.params.stat, frame.params.dyn>> /\ ~frame.replica
=============================================================================
