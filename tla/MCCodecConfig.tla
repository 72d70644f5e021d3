--------------------------- MODULE MCCodecConfig ---------------------------
(* Model checking instance of the modules about the configuration of a     *)
(* codec: an encoder's parameters, the color aspects of RGBA inputs, and the *)
(* color aspects and HDR information of a decoded stream.  A behaviour is one *)
(* of one of them; the variables of the others rest.                        *)
EXTENDS EncConfig

VARIABLES
  part,
  gpu, bt2020, vp9, size, param, sent, first,
  vp9Dec, stream, given, pad, refresh, out, client, said, dropped, missed

Input(size_, format, meta, params, replica) ==
  [size |-> size_, format |-> format, meta |-> meta, params |-> params, replica |-> replica]

\* Inputs of two sizes and formats; each kind of metadata and each group of
\* parameters occurs in one of them, regions of interest also without any.
MCInputs ==
  {Input("small", "NV12", {}, {}, FALSE),
   Input("big", "NV12", {"YSUM"}, {"Bitrate", "DropControl", "HDR10PlusStat"}, FALSE),
   Input("small", "P010", {"STATIC"}, {"HDREncoding", "Layering"}, FALSE),
   Input("small", "P010", {}, {"HDREncoding", "FrameRate", "DisableDFR"}, TRUE),
   Input("small", "NV12", {"ROI", "GDC"}, {"QpRange", "IDRPeriod"}, FALSE),
   Input("small", "NV12", {"ROI"}, {}, FALSE)}

MCEncoders ==
  {[codec |-> "HEVC", feats |-> {"HDRStatic", "RoiInfo", "GopMode", "DropControl"}],
   [codec |-> "AVC",  feats |-> {}]}

\* Nothing, one of the calls that everything else rests on, or the controls of
\* a group.
MCRefusals ==
  {{}, {"EncParam"}, {"Bitrate", "Layering", "DropControl", "WP", "HDRStatic", "GDC"},
   {"Setup"}, {"Enqueue"}, {"Geometry"}, {"Dst"}}

Aspects == INSTANCE RgbAspects WITH
  Gpus <- {"BT709", "BT601", "BT2020"}, Sizes <- {"4k", "hd", "pal", "ntsc"}

rgbVars == <<gpu, bt2020, vp9, size, param, sent, first>>

Frame(flags_, corrupt_, color, meta) ==
  [flags |-> flags_, corrupt |-> corrupt_,
   val |-> [color |-> color, static |-> meta, dyn |-> meta]]

\* Streams with color aspects alone, with static information and with dynamic
\* metadata; each has a corrupt frame.
MCStreams ==
  {{Frame({}, FALSE, "a", "a"), Frame({"color"}, FALSE, "a", "a"),
    Frame({"color"}, FALSE, "b", "a"), Frame({"color"}, FALSE, "open", "a"),
    Frame({"coeff"}, FALSE, "b", "a"), Frame({"color"}, TRUE, "b", "b")},
   {Frame({"color"}, FALSE, "a", "a"), Frame({"color"}, FALSE, "open", "a"),
    Frame({"color", "static"}, FALSE, "b", "b"), Frame({"static"}, FALSE, "a", "a"),
    Frame({"color", "static"}, TRUE, "b", "b")},
   {Frame({"color"}, FALSE, "a", "a"), Frame({"dyn"}, FALSE, "a", "a"),
    Frame({"dyn", "color"}, FALSE, "b", "b"), Frame({"dyn", "static"}, TRUE, "b", "a")}}

Hdr == INSTANCE HdrInfo WITH
  Streams <- MCStreams, Values <- {"a", "b"}, MaxFrames <- 2, None <- "none", vp9 <- vp9Dec

hdrVars == <<vp9Dec, stream, given, pad, refresh, out, client, said, dropped, missed>>

EncRests == Init /\ enc.codec = "AVC"
RgbRests == Aspects!Init /\ gpu = "BT709" /\ ~bt2020 /\ ~vp9 /\ size = "hd" /\ param = Aspects!None
HdrRests == Hdr!Init /\ ~vp9Dec /\ given = "none" /\ stream = CHOOSE s \in MCStreams : TRUE

MCInit ==
  \/ part = "config"  /\ Init         /\ RgbRests /\ HdrRests
  \/ part = "aspects" /\ Aspects!Init /\ EncRests /\ HdrRests
  \/ part = "hdr"     /\ Hdr!Init     /\ EncRests /\ RgbRests

MCNext ==
  /\ UNCHANGED part
  /\ \/ part = "config"  /\ Next         /\ UNCHANGED <<rgbVars, hdrVars>>
     \/ part = "aspects" /\ Aspects!Next /\ UNCHANGED <<encVars, hdrVars>>
     \/ part = "hdr"     /\ Hdr!Next     /\ UNCHANGED <<encVars, rgbVars>>

MCSpec == MCInit /\ [][MCNext]_<<part, encVars, rgbVars, hdrVars>>

\* The types of the modules' variables.
MCTypeOK == TypeOK /\ Aspects!TypeOK /\ Hdr!TypeOK

\* What is said of the color reaches its reader: aspects that are converted
\* again and again are those the stream began with, and a client that gets a
\* frame knows what the stream says with it.
ColorsAgree == Aspects!AspectsSettle /\ Hdr!ClientKnows

=============================================================================
