------------------------------ MODULE HdrInfo ------------------------------
(***************************************************************************)
(* Color aspects and HDR information of a decoded stream on their way to   *)
(* the client.  The driver says with each frame which kinds it carries;    *)
(* the pad keeps the last values and marks what changed; only changes are  *)
(* handed to the component, which configures the client's parameters with  *)
(* them.  A flush drops frames, and with them changes, so that the next    *)
(* information is told whether it changed or not (mRefreshHDRInfo).        *)
(***************************************************************************)
EXTENDS Naturals, Sequences, FiniteSets

CONSTANTS
  Streams,      \* sets of frames, see FrameType: those that a stream is made of
  Values,       \* values of a kind
  MaxFrames,    \* bound: frames dequeued and not handed over
  None

Kinds == {"color", "static", "dyn"}

VARIABLES
  vp9, stream,  \* the decoder is one of VP9; the stream's frames; fixed
  pad,          \* geometry.HdrInfo of the output pad: val, eValidType and
                \* eChangedType
  given,        \* color aspects the client gave before the setup; fixed
  refresh,      \* mRefreshHDRInfo
  out,          \* frames dequeued and not handed over
  client,       \* what the client's parameters say
  said,         \* history: what the stream says, by its intact frames
  dropped,      \* history: kinds whose change was dropped and may be told again
  missed        \* history: kinds whose change will not be told again

hdrVars == <<vp9, stream, given, pad, refresh, out, client, said, dropped, missed>>

\* flags: the kinds of the driver's flags, "coeff" for the matrix coefficients
\* alone.  "open" are aspects that leave the color unspecified.
FrameType == [flags : SUBSET (Kinds \union {"coeff"}), corrupt : BOOLEAN,
              val : [Kinds -> Values \union {"open"}]]

OutType == [carries : SUBSET Kinds, val : [Kinds -> Values \union {None}],
            told : SUBSET Kinds, was : [Kinds -> Values \union {None}],
            excused : SUBSET Kinds]

Init ==
  /\ vp9 \in BOOLEAN /\ stream \in Streams
  /\ given \in Values \union {None}
  /\ pad = [val |-> [k \in Kinds |-> IF k = "color" THEN given ELSE None],
            valid |-> {}, changed |-> {}]
  /\ refresh = FALSE
  /\ out = <<>>
  /\ client = [k \in Kinds |-> None]
  /\ said = [k \in Kinds |-> None]
  /\ dropped = {} /\ missed = {}

-----------------------------------------------------------------------------
(* The driver's library.                                                   *)

\* The dynamic metadata is copied out of shared memory with the frame, before
\* anyone asks for it.  The flags of a corrupt frame are not looked at, here or
\* by who asks (VIDEO_FRAME_WITH_HDR_INFO is set with the pad).
PadAtDequeue(f) ==
  IF f.flags = {} \/ f.corrupt THEN pad
  ELSE LET new == "dyn" \in f.flags /\ pad.val["dyn"] # f.val["dyn"]
       IN  [val |-> IF new THEN [pad.val EXCEPT !["dyn"] = f.val["dyn"]] ELSE pad.val,
            valid |-> f.flags,
            changed |-> IF new THEN {"dyn"} ELSE {}]

Color(old, new) == IF new = "open" THEN old ELSE new

\* Codec_OSAL_GetControls_HdrInfo: the other kinds are asked for and compared
\* with what the pad has.
GetControlsHdrInfo(p, f) ==
  LET got(k) == CASE k = "color" /\ p.valid \intersect {"color", "coeff"} # {} ->
                       Color(p.val[k], f.val[k])
                  [] k = "static" /\ k \in p.valid -> f.val[k]
                  [] OTHER -> p.val[k]
      val == [k \in Kinds |-> got(k)]
  IN  [val |-> val, valid |-> p.valid,
       changed |-> (p.changed \intersect {"dyn"}) \union
         {k \in {"color", "static"} : k \in p.valid /\ val[k] # p.val[k]}]

\* MFC_Decoder_Get_HDRInfo.
GetHDRInfo(p, f) == IF p.valid \ {"dyn"} = {} THEN p ELSE GetControlsHdrInfo(p, f)

-----------------------------------------------------------------------------
(* The decoder.                                                            *)

\* Mutation: a flush is not remembered.
Told_NoRefresh(p) ==
  (p.valid \intersect p.changed \intersect {"static"}) \union
  (IF vp9 THEN {} ELSE p.valid \intersect p.changed \intersect {"color"}) \union
  (p.changed \intersect {"dyn"})

\* updateHDRInfo: VIDEO_INFO_TYPE flags of eChangedInfo.  The aspects of VP9 are
\* the framework's; dynamic metadata is told only when it changed.
Told(p) ==
  (IF "static" \in p.valid /\ (refresh \/ "static" \in p.changed) THEN {"static"} ELSE {})
  \union
  (IF ~vp9 /\ "color" \in p.valid /\ (refresh \/ "color" \in p.changed)
   THEN {"color"} ELSE {})
  \union (p.changed \intersect {"dyn"})

\* updateBufferInfo() for a frame; refused: the driver does not answer
\* Get_HDRInfo.
Dequeue(f, refused) ==
  LET p0     == PadAtDequeue(f)
      looked == f.flags # {} /\ ~f.corrupt
      fails  == looked /\ refused /\ p0.valid \ {"dyn"} # {}
      asked  == looked /\ ~fails
      p      == IF asked THEN GetHDRInfo(p0, f) ELSE p0
      told   == IF asked THEN Told(p) ELSE {}
      heard  == IF asked THEN f.flags \intersect Kinds ELSE {}
      means  == [k \in Kinds |-> IF k \notin heard THEN said[k]
                                 ELSE IF k = "color" THEN Color(said[k], f.val[k]) ELSE f.val[k]]
      coeff  == asked /\ "coeff" \in p.valid /\ p.val["color"] # pad.val["color"]
      quiet  == (IF fails THEN p0.changed ELSE {})
                \union (IF coeff THEN {"color"} ELSE {})
                \union (IF asked /\ refresh THEN dropped \ heard ELSE {})
      miss   == (missed \union quiet) \ told
  IN  /\ Len(out) < MaxFrames
      /\ pad' = p
      /\ refresh' = (refresh /\ ~asked)
      /\ said' = [means EXCEPT !["color"] = IF coeff THEN None ELSE @]
      /\ dropped' = IF asked /\ refresh THEN {} ELSE dropped
      /\ missed' = miss
      /\ out' = Append(out, [carries |-> {k \in heard : means[k] # None}, val |-> means,
                             told |-> told, was |-> p.val, excused |-> miss])
      /\ UNCHANGED <<vp9, stream, given, client>>

\* A flush drops the frames; portStop() of the output asks for a refresh, unless
\* a change of resolution has discarded its task.
Flush(overtaken) ==
  LET gone == UNION {out[i].told : i \in 1..Len(out)}
      lost == IF overtaken /\ ~refresh THEN gone ELSE gone \intersect {"dyn"}
  IN  /\ out' = <<>>
      /\ refresh' = (refresh \/ ~overtaken)
      /\ dropped' = dropped \union (gone \ lost)
      /\ missed' = missed \union lost
      /\ UNCHANGED <<vp9, stream, given, pad, client, said>>

-----------------------------------------------------------------------------
(* The component.                                                          *)

\* updateC2Buffer_ColorAspects and updateC2Buffer_HDRInfo.
HandOver ==
  /\ out # <<>>
  /\ client' = [k \in Kinds |-> IF k \in Head(out).told THEN Head(out).was[k] ELSE client[k]]
  /\ out' = Tail(out)
  /\ UNCHANGED <<vp9, stream, given, pad, refresh, said, dropped, missed>>

Next ==
  \/ \E f \in stream, refused \in BOOLEAN : Dequeue(f, refused)
  \/ \E overtaken \in BOOLEAN : Flush(overtaken)
  \/ HandOver

-----------------------------------------------------------------------------
TypeOK ==
  /\ vp9 \in BOOLEAN /\ stream \in Streams /\ refresh \in BOOLEAN
  /\ given \in Values \union {None}
  /\ pad.val \in [Kinds -> Values \union {None}]
  /\ pad.valid \subseteq Kinds \union {"coeff"} /\ pad.changed \subseteq Kinds
  /\ out \in Seq(OutType) /\ Len(out) <= MaxFrames
  /\ client \in [Kinds -> Values \union {None}]
  /\ said \in [Kinds -> Values \union {None}]
  /\ dropped \subseteq Kinds /\ missed \subseteq Kinds

\* What the client knows of a kind when it has got the first i frames.
Known(k, i) ==
  LET tells == {j \in 1..i : k \in out[j].told}
  IN  IF tells = {} THEN client[k]
      ELSE out[CHOOSE j \in tells : \A l \in tells : l <= j].was[k]

\* When a frame that carries color aspects or HDR information reaches the
\* client, the client's parameters say what the stream says with it, or what the
\* client itself gave.
ClientKnows ==
  \A i \in 1..Len(out) : \A k \in out[i].carries \ out[i].excused :
    \/ Known(k, i) = out[i].val[k]
    \/ k = "color" /\ vp9
    \/ k = "color" /\ Known(k, i) = None /\ out[i].val[k] = given

=============================================================================
