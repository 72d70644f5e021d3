----------------------------- MODULE MCFilters -----------------------------
(* Model checking instance of the modules about the filters: a decoder's    *)
(* filter with its codec, the chain of filters around a codec's, and what   *)
(* the filters behind it do to a frame.  A behaviour is one of one of them; *)
(* the variables of the others rest.                                        *)
EXTENDS CodecFilter, TLC

CONSTANTS   \* those of FilterChain and PostFilters, see there, and the formats of frames
  NumFilters, Bounds, Formats,
  Streams, Clients, Libraries, MaxFrames, MaxLosses

VARIABLES
  part,
  limits, place, works, caller, tasks, job, infos, pending, applied, finished,
  given, gone, stray, stale, behind, stops, failures,
  stream, libs, up, withStats, list, at, frame, count, losses,
  mId, hdrLib, grainLib, mUseHDR2SDR, mUseFilmGrain, mHasFilmGrain, mUseCSC, mUsedFilterNum,
  mCSC, mFormat, shape, loaded, mInfo, mIsConfigured, mIsEnabled,
  mStatInfo, mHasStatInfo, mDynamicInfo, mHasDynamicInfo,
  told, plain, asked, restarted, unsaid

\* Output buffers are interchangeable.
Symmetry == Permutations(Bufs)

Chain == INSTANCE FilterChain WITH
  Codec <- place, queued <- works, client <- caller, pool <- tasks, answered <- finished,
  fails <- failures

chainVars == <<limits, place, works, caller, tasks, job, infos, pending, applied, finished,
               given, gone, stray, stale, behind, stops, failures>>

Post == INSTANCE PostFilters

postVars ==
  <<stream, libs, up, withStats, list, at, frame, count, losses,
    mId, hdrLib, grainLib, mUseHDR2SDR, mUseFilmGrain, mHasFilmGrain, mUseCSC, mUsedFilterNum,
    mCSC, mFormat, shape, loaded, mInfo, mIsConfigured, mIsEnabled,
    mStatInfo, mHasStatInfo, mDynamicInfo, mHasDynamicInfo, told, plain, asked, restarted, unsaid>>

\* A codec has a place of its own among the filters.  A kind of frames is a
\* decoder's or an encoder's, and a stream has frames of one of them.  A decoded
\* picture is in a format that the decoder makes, HDR in ten bits; what a header
\* gives has no picture.
KindType == [codec : {"dec", "enc"}, fmt : Formats, hdr : BOOLEAN, grain : {"none", "on", "off"},
             replica : BOOLEAN, stat : BOOLEAN]
IsPicture(kind) ==
  IF kind.replica THEN ~kind.hdr /\ kind.grain = "none"
  ELSE /\ kind.fmt \in {"SBWC8", "SBWC10", "SPN", "P010", "P010M", "NV12M"}
       /\ kind.hdr => kind.fmt \in {"SBWC10", "P010", "P010M"}

ASSUME FiltersAssumption ==
  /\ NumFilters \in Nat /\ NumFilters >= 2
  /\ {"none", "any", "YV12", "YV12M", "NV12M", "P010", "P010M"} \subseteq Formats
  /\ Bounds \subseteq [works : Nat, outs : Nat, stops : Nat, fails : Nat, settings : Nat]
  /\ \A S \in Streams :
       /\ S \subseteq KindType
       /\ (\A kind \in S : kind.codec = "enc") \/ (\A kind \in S : kind.codec = "dec" /\ IsPicture(kind))
  /\ \A c \in Clients : c \in [format : Formats, shape : BOOLEAN, sdr : BOOLEAN, other : BOOLEAN]
  /\ MaxFrames \in Nat /\ MaxLosses \in Nat

Limits(works_, outs, stops_, fails_, settings) ==
  [works |-> works_, outs |-> outs, stops |-> stops_, fails |-> fails_, settings |-> settings]

\* Two works with two outputs each and a failure, two with a flush or a stop and
\* a failure, or three works; with two settings.
MCBounds == {Limits(2, 2, 0, 1, 2), Limits(2, 1, 1, 1, 2), Limits(3, 1, 0, 0, 2)}

Decoded(fmt, hdr, grain) ==
  [codec |-> "dec", fmt |-> fmt, hdr |-> hdr, grain |-> grain, replica |-> FALSE, stat |-> FALSE]
Header == [Decoded("linear", FALSE, "none") EXCEPT !.replica = TRUE]
Encoded(header) ==
  [codec |-> "enc", fmt |-> "none", hdr |-> FALSE, grain |-> "none", replica |-> header,
   stat |-> TRUE]

\* A stream that is compressed or in one buffer, with changes of the depth; one of
\* ten bits in one buffer or two; one of an encoder.
MCStreams ==
  {{Decoded("SBWC8", FALSE, "none"), Decoded("SBWC8", FALSE, "on"), Decoded("SPN", FALSE, "off"),
    Decoded("SBWC10", TRUE, "on"), Header},
   {Decoded("P010M", TRUE, "on"), Decoded("P010", TRUE, "none"), Decoded("P010", FALSE, "on"),
    Decoded("NV12M", FALSE, "on")},
   {Encoded(FALSE), Encoded(TRUE)}}

Asks(format, shape_, sdr, other) ==
  [format |-> format, shape |-> shape_, sdr |-> sdr, other |-> other]

MCFormats == {"none", "any", "linear", "SPN", "SBWC8", "SBWC10", "P010", "P010M", "NV12M",
              "YV12", "YV12M", "420_888"}
MCClients == {Asks("none", FALSE, FALSE, FALSE), Asks("none", FALSE, TRUE, FALSE),
              Asks("YV12", FALSE, FALSE, TRUE), Asks("420_888", TRUE, FALSE, FALSE)}
MCLibraries == {{"grain", "sdr", "stat"}, {"grain", "sdr", "required"}, {"sdr"}}

ChainRests == Chain!Init /\ place = 1 /\ limits.outs = 2
PostRests  == Post!Init /\ libs = {"sdr"} /\ \A kind \in stream : kind.codec = "enc"

MCInit ==
  /\ Init
  /\ \/ part = "codec" /\ ChainRests  /\ PostRests
     \/ part = "chain" /\ Chain!Init  /\ PostRests
     \/ part = "post"  /\ ChainRests  /\ Post!Init

MCNext ==
  /\ UNCHANGED part
  /\ \/ /\ part = "codec" /\ Next /\ UNCHANGED <<chainVars, postVars>>
        /\ flushes' + changes' + fails' <= 2              \* not all three
        /\ queued' + flushes' + changes' + 2 * fails' <= 5  \* a failure with all inputs, alone
     \/ part = "chain" /\ Chain!Next  /\ UNCHANGED <<vars, postVars>>
     \/ /\ part = "post"  /\ Post!Next   /\ UNCHANGED <<vars, chainVars>>
        /\ count' + losses' <= 4              \* all frames and a loss, or two and two

MCSpec == MCInit /\ [][MCNext]_<<part, vars, chainVars, postVars>>

\* The types of the variables of the module whose turn it is.
MCTypeOK ==
  CASE part = "codec" -> TypeOK
    [] part = "chain" -> Chain!TypeOK
    [] part = "post"  -> Post!TypeOK

\* A filter finds in a work the newest version of each frame and handles it with
\* the newest settings, and nothing of before a flush is left behind it.  A frame
\* gets its film grain, its conversion and its metadata, and the component knows of
\* the filters that do it.
WorksKept ==
  /\ part = "chain" => Chain!WorksWhole /\ Chain!SettingsReach /\ Chain!FlushedIsGone
  /\ part = "post"  => /\ Post!GrainApplied /\ Post!HdrConverted
                       /\ Post!ToldEnough /\ Post!MetadataOwn

=============================================================================
