-------------------------- MODULE EncConfigProofs --------------------------
(***************************************************************************)
(* Proofs about EncConfig for any inputs, any kinds of encoders and any    *)
(* controls that are refused.                                              *)
(*                                                                         *)
(* The argument: whatever is refused, mEncParam is what the client asked   *)
(* for (Kept), the driver has what is kept unless a Set_EncParam was       *)
(* refused since (Told), and a client that switched the dynamic frame rate *)
(* off is not measured (Unmeasured).  These hold of every encoder that the *)
(* parts of a call hand on, so each part has a lemma that says what it     *)
(* keeps and what it enables, and each call follows from those of its      *)
(* parts.                                                                  *)
(***************************************************************************)
EXTENDS EncConfig, TLAPS

\* The encoder, the driver and what was asked for, as the parts of a call hand
\* them on.
Asked == [val : [Settings -> Values], stale : BOOLEAN, noDFR : BOOLEAN,
          late : BOOLEAN, badStatic : BOOLEAN]
Encoder == [st : Config, drv : [Settings -> Values], asked : Asked]

\* mEncParam is what the client asked for, refused or not yet sent; what is not
\* part of it goes to the driver at once or is not asked for.
Kept(x) ==
  /\ \A s \in Arrayed : x.st.EncParam[s] = x.asked.val[s]
  /\ x.drv["IFrameRatio"] = x.asked.val["IFrameRatio"]

\* A client that switched the dynamic frame rate off is not measured any more.
Unmeasured(x) == x.asked.noDFR => ~x.st.DFR

\* The drop of frames is asked for exactly when it is kept.
DropKept(x) == x.asked.val["DropControl"] = IF x.st.DropControl THEN "client" ELSE "default"

\* The driver has what was asked for, whether the stream is on or not.
Told(x) ==
  ~x.asked.stale =>
    \A s \in Settings \ {"DropControl"} :
      x.drv[s] = x.asked.val[s] \/ (s = "FrameRate" /\ x.drv[s] = "measured" /\ ~x.asked.noDFR)

\* An HDR stream has its information, whether it is on or not.
StaticKnown(x) ==
  x.st.HdrEncodingType => x.st.HasHDRStaticInfo \/ x.asked.badStatic \/ x.asked.late

\* What each part of a call keeps: before the driver is told, and behind it.
Own(x)  == x \in Encoder /\ Kept(x) /\ Unmeasured(x) /\ DropKept(x)
Good(x) == Own(x) /\ Told(x)

\* What later parts of a call leave alone.
Stream(x) == <<x.st.Configured, x.st.On, x.st.DRCRequired, x.st.DFR>>
Picture(x) == <<x.st.size, x.st.FrameMap>>
Extras(x) == <<x.st.WeightedPrediction, x.st.GDCvOTF, x.st.ROI>>
Hdr_(x) == <<x.st.HdrEncodingType, x.st.HasHDRStaticInfo, x.asked.badStatic, x.asked.late>>

\* The driver drops frames as asked, when the last input was taken entirely.
Dropping == last # NoInput /\ Has("DropControl") => drv["DropControl"] = asked.val["DropControl"]

\* The strengthening: RuntimeConfigSurvives and HdrHasStatic are about a stream
\* that is on; what they rest on holds between any two calls.
IndInv ==
  /\ TypeOK /\ Good(This) /\ StaticKnown(This) /\ Dropping
  /\ ChangeSettles /\ NothingStranded

-----------------------------------------------------------------------------

\* The settings that the driver takes are kept.
LEMMA SetSettingsGood ==
  ASSUME NEW x, Good(x), NEW b \in InputType, NEW no
  PROVE  /\ Good(SetSettings(x, b, no))
         /\ Stream(SetSettings(x, b, no)) = Stream(x) /\ Picture(SetSettings(x, b, no)) = Picture(x)
         /\ Extras(SetSettings(x, b, no)) = Extras(x) /\ Hdr_(SetSettings(x, b, no)) = Hdr_(x)
<1> DEFINE y == SetSettings(x, b, no)
<1>1. Accepted(b, no) \subseteq Settings \ {"DropControl"}
  BY DEF Accepted
<1>2. y \in Encoder
  BY <1>1 DEF Good, Own, Encoder, Config, Asked, SetSettings, AsAsked, Values, Settings, Arrayed
<1>3. Kept(y) /\ Unmeasured(y) /\ DropKept(y) /\ Told(y)
  BY <1>1 DEF Good, Own, Encoder, Config, Asked, SetSettings, AsAsked, Kept, Unmeasured, DropKept,
     Told, Settings, Arrayed
<1>4. QED
  BY <1>2, <1>3 DEF Good, Own, Encoder, Config, Asked, SetSettings, Stream, Picture, Extras, Hdr_

\* A type that comes behind the setup counts as late.
LEMMA EnableHdrEncodingGood ==
  ASSUME ready \in BOOLEAN, NEW x, Good(x)
  PROVE  LET y == EnableHdrEncoding(x) IN
         /\ Good(y) /\ Stream(y) = Stream(x) /\ Picture(y) = Picture(x) /\ Extras(y) = Extras(x)
         /\ ready /\ StaticKnown(x) => StaticKnown(y)
<1> DEFINE y == EnableHdrEncoding(x)
<1>1. CASE HdrCapable(x)
  <2> DEFINE late == x.asked.late \/ (ready /\ ~x.st.HdrEncodingType)
  <2>0. late \in BOOLEAN /\ (ready /\ ~x.st.HdrEncodingType => late) /\ (x.asked.late => late)
    BY DEF Good, Own, Encoder, Config, Asked
  <2>1. y = [x EXCEPT !.st.HdrEncodingType = TRUE, !.asked.late = late]
    BY <1>1 DEF EnableHdrEncoding
  <2> HIDE DEF y, late
  <2>2. y \in Encoder
    BY <2>0, <2>1 DEF Good, Own, Encoder, Config, Asked
  <2>3. Kept(y) /\ Unmeasured(y) /\ DropKept(y) /\ Told(y)
    BY <2>1 DEF Good, Own, Encoder, Config, Asked, Kept, Unmeasured, DropKept, Told
  <2>4. ready /\ StaticKnown(x) => StaticKnown(y)
    BY <2>0, <2>1 DEF Good, Own, Encoder, Config, Asked, StaticKnown
  <2>5. Stream(y) = Stream(x) /\ Picture(y) = Picture(x) /\ Extras(y) = Extras(x)
    BY <2>1 DEF Good, Own, Encoder, Config, Asked, Stream, Picture, Extras
  <2> QED
    BY <2>2, <2>3, <2>4, <2>5 DEF Good, Own, y
<1>2. CASE ~HdrCapable(x)
  BY <1>2 DEF EnableHdrEncoding
<1> QED
  BY <1>1, <1>2

\* Static information is there now, or was refused.
LEMMA SetHDRStaticInfoOwn ==
  ASSUME NEW x, Own(x), NEW no
  PROVE  LET y == SetHDRStaticInfo(x, no) IN
         /\ Own(y) /\ StaticKnown(y) /\ (Told(x) => Told(y))
         /\ Stream(y) = Stream(x) /\ Picture(y) = Picture(x)
         /\ Extras(y) = Extras(x) /\ y.drv = x.drv /\ y.asked.val = x.asked.val
<1> DEFINE y == SetHDRStaticInfo(x, no)
<1>0. \/ y = [x EXCEPT !.asked.badStatic = TRUE]
      \/ y = [x EXCEPT !.st.HasHDRStaticInfo = TRUE]
  BY DEF SetHDRStaticInfo
<1> HIDE DEF y
<1>1. CASE y = [x EXCEPT !.asked.badStatic = TRUE]
  <2>2. y \in Encoder
    BY <1>1 DEF Own, Encoder, Asked
  <2>3. Kept(y) /\ Unmeasured(y) /\ DropKept(y) /\ (Told(x) => Told(y)) /\ StaticKnown(y)
    BY <1>1 DEF Own, Encoder, Config, Asked, Kept, Unmeasured, DropKept, Told, StaticKnown
  <2>4. /\ Stream(y) = Stream(x) /\ Picture(y) = Picture(x)
        /\ Extras(y) = Extras(x) /\ y.drv = x.drv /\ y.asked.val = x.asked.val
    BY <1>1 DEF Own, Encoder, Asked, Stream, Picture, Extras
  <2> QED
    BY <2>2, <2>3, <2>4 DEF Own, y
<1>2. CASE y = [x EXCEPT !.st.HasHDRStaticInfo = TRUE]
  <2>2. y \in Encoder
    BY <1>2 DEF Own, Encoder, Config
  <2>3. Kept(y) /\ Unmeasured(y) /\ DropKept(y) /\ (Told(x) => Told(y)) /\ StaticKnown(y)
    BY <1>2 DEF Own, Encoder, Config, Asked, Kept, Unmeasured, DropKept, Told, StaticKnown
  <2>4. /\ Stream(y) = Stream(x) /\ Picture(y) = Picture(x)
        /\ Extras(y) = Extras(x) /\ y.drv = x.drv /\ y.asked.val = x.asked.val
    BY <1>2 DEF Own, Encoder, Config, Stream, Picture, Extras
  <2> QED
    BY <2>2, <2>3, <2>4 DEF Own, y
<1> QED
  BY <1>0, <1>1, <1>2 DEF y

\* An HDR stream gets the default information.
LEMMA DefaultStaticInfoGood ==
  ASSUME NEW x, Good(x), NEW no
  PROVE  LET y == DefaultStaticInfo(x, no) IN
         /\ Good(y) /\ StaticKnown(y)
         /\ Stream(y) = Stream(x) /\ Picture(y) = Picture(x) /\ Extras(y) = Extras(x)
         /\ y.drv = x.drv /\ y.asked.val = x.asked.val
<1>1. CASE x.st.HdrEncodingType /\ ~x.st.HasHDRStaticInfo
  BY <1>1, SetHDRStaticInfoOwn DEF DefaultStaticInfo, Good
<1>2. CASE ~(x.st.HdrEncodingType /\ ~x.st.HasHDRStaticInfo)
  BY <1>2 DEF DefaultStaticInfo, StaticKnown
<1> QED
  BY <1>1, <1>2

\* The statistics touch nothing else.
LEMMA EnableHDR10PlusStatGood ==
  ASSUME NEW x, Good(x), NEW no
  PROVE  LET y == EnableHDR10PlusStat(x, no) IN
         /\ Good(y) /\ Stream(y) = Stream(x) /\ Picture(y) = Picture(x) /\ Extras(y) = Extras(x)
         /\ Hdr_(y) = Hdr_(x)
<1> DEFINE y == EnableHDR10PlusStat(x, no)
<1>0. y = [x EXCEPT !.st.Hdr10PlusStat = TRUE] \/ y = x
  BY DEF EnableHDR10PlusStat
<1> HIDE DEF y
<1>1. CASE y = [x EXCEPT !.st.Hdr10PlusStat = TRUE]
  <2>1. y \in Encoder
    BY <1>1 DEF Good, Own, Encoder, Config
  <2>2. Kept(y) /\ Unmeasured(y) /\ DropKept(y) /\ Told(y)
    BY <1>1 DEF Good, Own, Encoder, Config, Kept, Unmeasured, DropKept, Told
  <2>3. /\ Stream(y) = Stream(x) /\ Picture(y) = Picture(x) /\ Extras(y) = Extras(x)
        /\ Hdr_(y) = Hdr_(x)
    BY <1>1 DEF Good, Own, Encoder, Config, Stream, Picture, Extras, Hdr_
  <2> QED
    BY <2>1, <2>2, <2>3 DEF Good, Own, y
<1>2. CASE y = x
  BY <1>2 DEF y
<1> QED
  BY <1>0, <1>1, <1>2

\* Layers are kept before the driver has them: Told need not hold here.
LEMMA LayeringConfigOwn ==
  ASSUME NEW x, Own(x), NEW b
  PROVE  LET y == LayeringConfig(x, b) IN
         /\ Own(y) /\ Stream(y) = Stream(x) /\ Extras(y) = Extras(x) /\ Hdr_(y) = Hdr_(x)
<1> DEFINE y == LayeringConfig(x, b)
<1>0. \/ y = [x EXCEPT !.st.EncParam["Layering"] = "client", !.asked.val["Layering"] = "client"]
      \/ y = x
  BY DEF LayeringConfig
<1> HIDE DEF y
<1>1. CASE y = [x EXCEPT !.st.EncParam["Layering"] = "client", !.asked.val["Layering"] = "client"]
  <2>1. y \in Encoder
    BY <1>1 DEF Own, Encoder, Config, Asked, Settings, Arrayed, Values
  <2>2. Kept(y) /\ Unmeasured(y) /\ DropKept(y)
    BY <1>1 DEF Own, Encoder, Config, Asked, Kept, Unmeasured, DropKept, Settings, Arrayed
  <2>3. Stream(y) = Stream(x) /\ Extras(y) = Extras(x) /\ Hdr_(y) = Hdr_(x)
    BY <1>1 DEF Own, Encoder, Config, Asked, Stream, Extras, Hdr_
  <2> QED
    BY <2>1, <2>2, <2>3 DEF Own, y
<1>2. CASE y = x
  BY <1>2 DEF y
<1> QED
  BY <1>0, <1>1, <1>2

\* Regions of interest are enabled for the codecs that have them.
LEMMA RoiConfigOwn ==
  ASSUME NEW x, Own(x), NEW b
  PROVE  LET y == RoiConfig(x, b) IN
         /\ Own(y) /\ Stream(y) = Stream(x) /\ Hdr_(y) = Hdr_(x)
         /\ y.st.WeightedPrediction = x.st.WeightedPrediction /\ y.st.GDCvOTF = x.st.GDCvOTF
         /\ "ROI" \in b.meta /\ Has("RoiInfo") /\ Is({"AVC", "HEVC"}) => y.st.ROI
<1> DEFINE y == RoiConfig(x, b)
<1>1. CASE "ROI" \in b.meta /\ Has("RoiInfo") /\ Is({"AVC", "HEVC"})
  <2>0. y = [x EXCEPT !.st.ROI = TRUE]
    BY <1>1 DEF RoiConfig
  <2> HIDE DEF y
  <2>1. y \in Encoder
    BY <2>0 DEF Own, Encoder, Config
  <2>2. Kept(y) /\ Unmeasured(y) /\ DropKept(y)
    BY <2>0 DEF Own, Encoder, Config, Kept, Unmeasured, DropKept
  <2>3. /\ Stream(y) = Stream(x) /\ Hdr_(y) = Hdr_(x) /\ y.st.ROI
        /\ y.st.WeightedPrediction = x.st.WeightedPrediction /\ y.st.GDCvOTF = x.st.GDCvOTF
    BY <2>0 DEF Own, Encoder, Config, Stream, Hdr_
  <2> QED
    BY <2>1, <2>2, <2>3 DEF Own, y
<1>2. CASE ~("ROI" \in b.meta /\ Has("RoiInfo") /\ Is({"AVC", "HEVC"}))
  <2>1. y = x
    BY <1>2 DEF RoiConfig
  <2> QED
    BY <1>2, <2>1
<1> QED
  BY <1>1, <1>2

\* The static configuration is kept, not sent.
LEMMA StaticConfigOwn ==
  ASSUME NEW x, Own(x), NEW b
  PROVE  LET y == StaticConfig(x, b) IN
         /\ Own(y) /\ Stream(y) = Stream(x) /\ Hdr_(y) = Hdr_(x)
         /\ y.st.WeightedPrediction = x.st.WeightedPrediction /\ y.st.GDCvOTF = x.st.GDCvOTF
         /\ "ROI" \in b.meta /\ Has("RoiInfo") /\ Is({"AVC", "HEVC"}) /\ b.params # {} => y.st.ROI
<1>1. CASE b.params = {}
  BY <1>1 DEF StaticConfig
<1>2. CASE b.params # {}
  <2> DEFINE z == LayeringConfig(x, b)
             y == RoiConfig(z, b)
  <2>1. Own(z) /\ Stream(z) = Stream(x) /\ Hdr_(z) = Hdr_(x) /\ Extras(z) = Extras(x)
    BY LayeringConfigOwn
  <2>2. /\ Own(y) /\ Stream(y) = Stream(z) /\ Hdr_(y) = Hdr_(z)
        /\ y.st.WeightedPrediction = z.st.WeightedPrediction /\ y.st.GDCvOTF = z.st.GDCvOTF
        /\ "ROI" \in b.meta /\ Has("RoiInfo") /\ Is({"AVC", "HEVC"}) => y.st.ROI
    BY <2>1, RoiConfigOwn
  <2>3. StaticConfig(x, b) = y
    BY <1>2 DEF StaticConfig
  <2> HIDE DEF y, z
  <2> QED
    BY <2>1, <2>2, <2>3 DEF Extras
<1> QED
  BY <1>1, <1>2

\* Set_EncParam tells the driver all that is kept, or nothing.
LEMMA SetEncParamGood ==
  ASSUME NEW x, Own(x), NEW no
  PROVE  LET y == SetEncParam(x, no) IN
         /\ Good(y) /\ y.st = x.st /\ Hdr_(y) = Hdr_(x)
         /\ "EncParam" \notin no =>
              \A s \in Settings \ {"DropControl"} : y.drv[s] = y.asked.val[s]
<1> DEFINE y == SetEncParam(x, no)
<1>1. CASE "EncParam" \in no
  <2>0. y = [x EXCEPT !.asked.stale = TRUE]
    BY <1>1 DEF SetEncParam
  <2> HIDE DEF y
  <2>1. y \in Encoder
    BY <2>0 DEF Own, Encoder, Asked
  <2>2. Kept(y) /\ Unmeasured(y) /\ DropKept(y) /\ Told(y)
    BY <2>0 DEF Own, Encoder, Asked, Kept, Unmeasured, DropKept, Told
  <2>3. y.st = x.st /\ Hdr_(y) = Hdr_(x)
    BY <2>0 DEF Own, Encoder, Asked, Hdr_
  <2> QED
    BY <1>1, <2>1, <2>2, <2>3 DEF Good, Own, y
<1>2. CASE "EncParam" \notin no
  <2> DEFINE sent == [s \in Settings |->
                        IF s \in Arrayed THEN x.st.EncParam[s]
                        ELSE IF s = "DropControl" /\ Has("DropControl") THEN "zero"
                        ELSE x.drv[s]]
  <2>0. y = [x EXCEPT !.drv = sent, !.asked.stale = FALSE]
    BY <1>2 DEF SetEncParam
  <2>a. /\ sent \in [Settings -> Values]
        /\ \A s \in Arrayed : sent[s] = x.st.EncParam[s]
        /\ sent["IFrameRatio"] = x.drv["IFrameRatio"]
    BY DEF Own, Encoder, Config, Values, Settings, Arrayed
  <2> HIDE DEF y, sent
  <2>1. y \in Encoder
    BY <2>0, <2>a DEF Own, Encoder, Asked
  <2>2. Kept(y) /\ Unmeasured(y) /\ DropKept(y)
    BY <2>0, <2>a DEF Own, Encoder, Asked, Kept, Unmeasured, DropKept
  <2>3. y.st = x.st /\ Hdr_(y) = Hdr_(x)
    BY <2>0 DEF Own, Encoder, Asked, Hdr_
  <2>4. \A s \in Settings \ {"DropControl"} : y.drv[s] = y.asked.val[s]
    BY <2>0, <2>a DEF Own, Encoder, Asked, Kept, Settings, Arrayed
  <2>5. Told(y)
    BY <2>4 DEF Told
  <2> QED
    BY <2>1, <2>2, <2>3, <2>4, <2>5 DEF Good, Own, y
<1> QED
  BY <1>1, <1>2

\* The dynamic frame rate is switched off only behind a Set_EncParam that was
\* taken: nothing measured is left.
LEMMA DisableDFRGood ==
  ASSUME NEW x, Good(x), NEW b, NEW no,
         "EncParam" \notin no => \A s \in Settings \ {"DropControl"} : x.drv[s] = x.asked.val[s]
  PROVE  LET y == DisableDFR(x, b, no) IN
         /\ Good(y) /\ Picture(y) = Picture(x) /\ Extras(y) = Extras(x) /\ Hdr_(y) = Hdr_(x)
         /\ y.st.On = x.st.On /\ y.st.Configured = x.st.Configured
         /\ y.st.DRCRequired = x.st.DRCRequired
<1> DEFINE y == DisableDFR(x, b, no)
<1>1. CASE "DisableDFR" \in b.params /\ "EncParam" \notin no /\ Has("GopMode")
  <2>0. y = [x EXCEPT !.st.DFR = FALSE, !.asked.noDFR = TRUE]
    BY <1>1 DEF DisableDFR
  <2> HIDE DEF y
  <2>1. y \in Encoder
    BY <2>0 DEF Good, Own, Encoder, Config, Asked
  <2>2. Kept(y) /\ Unmeasured(y) /\ DropKept(y)
    BY <2>0 DEF Good, Own, Encoder, Config, Asked, Kept, Unmeasured, DropKept
  <2>3. Told(y)
    BY <1>1, <2>0 DEF Good, Own, Encoder, Config, Asked, Told
  <2>4. /\ Picture(y) = Picture(x) /\ Extras(y) = Extras(x) /\ Hdr_(y) = Hdr_(x)
        /\ y.st.On = x.st.On /\ y.st.Configured = x.st.Configured
        /\ y.st.DRCRequired = x.st.DRCRequired
    BY <2>0 DEF Good, Own, Encoder, Config, Asked, Picture, Extras, Hdr_
  <2> QED
    BY <2>1, <2>2, <2>3, <2>4 DEF Good, Own, y
<1>2. CASE ~("DisableDFR" \in b.params /\ "EncParam" \notin no /\ Has("GopMode"))
  BY <1>2 DEF DisableDFR
<1> QED
  BY <1>1, <1>2

\* A setup that is not a change of resolution begins with the defaults.
LEMMA FreshOwn ==
  ASSUME NEW x, Own(x)
  PROVE  LET y == [x EXCEPT !.st.EncParam = [s \in Arrayed |-> "default"],
                            !.asked.val = [s \in Settings |->
                              IF s \in Arrayed THEN "default" ELSE x.asked.val[s]]]
         IN  Own(y) /\ Stream(y) = Stream(x) /\ Extras(y) = Extras(x) /\ Hdr_(y) = Hdr_(x)
<1> DEFINE param == [s \in Arrayed |-> "default"]
           val == [s \in Settings |-> IF s \in Arrayed THEN "default" ELSE x.asked.val[s]]
           y == [x EXCEPT !.st.EncParam = param, !.asked.val = val]
<1>1. param \in [Arrayed -> Values] /\ val \in [Settings -> Values]
  BY DEF Own, Encoder, Asked, Values
<1>2. /\ \A s \in Arrayed : param[s] = val[s]
      /\ val["IFrameRatio"] = x.asked.val["IFrameRatio"]
      /\ val["DropControl"] = x.asked.val["DropControl"]
  BY DEF Settings, Arrayed
<1>3. y = [x EXCEPT !.st.EncParam = param, !.asked.val = val]
  OBVIOUS
<1> HIDE DEF y, param, val
<1>4. y \in Encoder
  BY <1>1, <1>3 DEF Own, Encoder, Config, Asked
<1>5. Kept(y) /\ Unmeasured(y) /\ DropKept(y)
  BY <1>1, <1>2, <1>3 DEF Own, Encoder, Config, Asked, Kept, Unmeasured, DropKept
<1>6. Stream(y) = Stream(x) /\ Extras(y) = Extras(x) /\ Hdr_(y) = Hdr_(x)
  BY <1>3 DEF Own, Encoder, Config, Asked, Stream, Extras, Hdr_
<1> QED
  BY <1>4, <1>5, <1>6 DEF Own, y, param, val

\* What the setup and the change of resolution send first.
LEMMA SetDefaultConfigGood ==
  ASSUME NEW x, Own(x), NEW b \in InputType, NEW isDRC, NEW no
  PROVE  LET y == SetDefaultConfig(x, b, isDRC, no) IN
         /\ Good(y) /\ Hdr_(y) = Hdr_(x) /\ y.st.size = b.size
         /\ y.st.On = x.st.On /\ y.st.Configured = x.st.Configured
         /\ y.st.DRCRequired = x.st.DRCRequired
         /\ "ROI" \in b.meta /\ Has("RoiInfo") /\ Is({"AVC", "HEVC"}) /\ b.params # {} => y.st.ROI
<1> DEFINE fresh == IF isDRC THEN x
                    ELSE [x EXCEPT !.st.EncParam = [s \in Arrayed |-> "default"],
                                   !.asked.val = [s \in Settings |->
                                     IF s \in Arrayed THEN "default" ELSE x.asked.val[s]]]
           static == StaticConfig(fresh, b)
           sized == [static EXCEPT !.st.size = b.size]
           sent == SetEncParam(sized, no)
           y == DisableDFR(sent, b, no)
<1>1. Own(fresh) /\ Stream(fresh) = Stream(x) /\ Hdr_(fresh) = Hdr_(x)
  BY FreshOwn
<1> HIDE DEF fresh
<1>2. /\ Own(static) /\ Stream(static) = Stream(fresh) /\ Hdr_(static) = Hdr_(fresh)
      /\ "ROI" \in b.meta /\ Has("RoiInfo") /\ Is({"AVC", "HEVC"}) /\ b.params # {} => static.st.ROI
  BY <1>1, StaticConfigOwn
<1>3. sized = [static EXCEPT !.st.size = b.size] /\ b.size \in {"small", "big"}
  BY DEF InputType
<1> HIDE DEF static, sized
<1>4. /\ Own(sized) /\ Stream(sized) = Stream(static) /\ Hdr_(sized) = Hdr_(static)
      /\ sized.st.size = b.size /\ sized.st.ROI = static.st.ROI
  <2>1. sized \in Encoder
    BY <1>2, <1>3 DEF Own, Encoder, Config
  <2>2. Kept(sized) /\ Unmeasured(sized) /\ DropKept(sized)
    BY <1>2, <1>3 DEF Own, Encoder, Config, Kept, Unmeasured, DropKept
  <2>3. /\ Stream(sized) = Stream(static) /\ Hdr_(sized) = Hdr_(static)
        /\ sized.st.size = b.size /\ sized.st.ROI = static.st.ROI
    BY <1>2, <1>3 DEF Own, Encoder, Config, Stream, Hdr_
  <2> QED
    BY <2>1, <2>2, <2>3 DEF Own
<1>5. /\ Good(sent) /\ sent.st = sized.st /\ Hdr_(sent) = Hdr_(sized)
      /\ "EncParam" \notin no => \A s \in Settings \ {"DropControl"} : sent.drv[s] = sent.asked.val[s]
  BY <1>4, SetEncParamGood
<1> HIDE DEF sent
<1>6. /\ Good(y) /\ Picture(y) = Picture(sent) /\ Extras(y) = Extras(sent) /\ Hdr_(y) = Hdr_(sent)
      /\ y.st.On = sent.st.On /\ y.st.Configured = sent.st.Configured
      /\ y.st.DRCRequired = sent.st.DRCRequired
  BY <1>5, DisableDFRGood
<1>7. y = SetDefaultConfig(x, b, isDRC, no)
  BY DEF SetDefaultConfig, fresh, static, sized, sent
<1> HIDE DEF y
<1> QED
  BY <1>1, <1>2, <1>4, <1>5, <1>6, <1>7 DEF Stream, Picture, Extras

\* A member of the encoder that no property of Good is about.
LEMMA EnabledGood ==
  ASSUME NEW x, Good(x), NEW y,
         \/ y = [x EXCEPT !.st.WeightedPrediction = TRUE]
         \/ y = [x EXCEPT !.st.GDCvOTF = TRUE]
         \/ y = x
  PROVE  /\ Good(y) /\ Stream(y) = Stream(x) /\ Picture(y) = Picture(x) /\ Hdr_(y) = Hdr_(x)
         /\ y.st.ROI = x.st.ROI
         /\ x.st.WeightedPrediction => y.st.WeightedPrediction
         /\ x.st.GDCvOTF => y.st.GDCvOTF
         /\ y = [x EXCEPT !.st.WeightedPrediction = TRUE] => y.st.WeightedPrediction
         /\ y = [x EXCEPT !.st.GDCvOTF = TRUE] => y.st.GDCvOTF
<1>1. CASE y = [x EXCEPT !.st.WeightedPrediction = TRUE]
  <2>1. y \in Encoder
    BY <1>1 DEF Good, Own, Encoder, Config
  <2>2. Kept(y) /\ Unmeasured(y) /\ DropKept(y) /\ Told(y)
    BY <1>1 DEF Good, Own, Encoder, Config, Kept, Unmeasured, DropKept, Told
  <2> QED
    BY <1>1, <2>1, <2>2 DEF Good, Own, Encoder, Config, Stream, Picture, Hdr_
<1>2. CASE y = [x EXCEPT !.st.GDCvOTF = TRUE]
  <2>1. y \in Encoder
    BY <1>2 DEF Good, Own, Encoder, Config
  <2>2. Kept(y) /\ Unmeasured(y) /\ DropKept(y) /\ Told(y)
    BY <1>2 DEF Good, Own, Encoder, Config, Kept, Unmeasured, DropKept, Told
  <2> QED
    BY <1>2, <2>1, <2>2 DEF Good, Own, Encoder, Config, Stream, Picture, Hdr_
<1>3. CASE y = x
  BY <1>3 DEF Good, Own, Encoder, Config
<1> QED
  BY <1>1, <1>2, <1>3

\* Metadata is enabled, if the driver does not refuse it.
LEMMA ApplyExtraInfoConfigGood ==
  ASSUME NEW x, Good(x), NEW b, NEW no
  PROVE  LET y == ApplyExtraInfoConfig(x, b, no) IN
         /\ Good(y) /\ Stream(y) = Stream(x) /\ Picture(y) = Picture(x)
         /\ y.st.ROI = x.st.ROI
         /\ "YSUM" \in b.meta /\ "WP" \notin no => y.st.WeightedPrediction
         /\ "GDC" \in b.meta /\ "GDC" \notin no => y.st.GDCvOTF
<1> DEFINE wp == IF "YSUM" \in b.meta /\ "WP" \notin no
                 THEN [x EXCEPT !.st.WeightedPrediction = TRUE] ELSE x
           gdc == IF "GDC" \in b.meta /\ "GDC" \notin no
                  THEN [wp EXCEPT !.st.GDCvOTF = TRUE] ELSE wp
           y == IF "STATIC" \in b.meta /\ HdrCapable(x) THEN SetHDRStaticInfo(gdc, no) ELSE gdc
<1>1. /\ \/ wp = [x EXCEPT !.st.WeightedPrediction = TRUE]
         \/ wp = x
      /\ "YSUM" \in b.meta /\ "WP" \notin no => wp = [x EXCEPT !.st.WeightedPrediction = TRUE]
  OBVIOUS
<1> HIDE DEF wp
<1>2. /\ Good(wp) /\ Stream(wp) = Stream(x) /\ Picture(wp) = Picture(x) /\ Hdr_(wp) = Hdr_(x)
      /\ wp.st.ROI = x.st.ROI
      /\ "YSUM" \in b.meta /\ "WP" \notin no => wp.st.WeightedPrediction
  BY <1>1, EnabledGood
<1>3. /\ \/ gdc = [wp EXCEPT !.st.GDCvOTF = TRUE]
         \/ gdc = wp
      /\ "GDC" \in b.meta /\ "GDC" \notin no => gdc = [wp EXCEPT !.st.GDCvOTF = TRUE]
  OBVIOUS
<1> HIDE DEF gdc
<1>4. /\ Good(gdc) /\ Stream(gdc) = Stream(wp) /\ Picture(gdc) = Picture(wp)
      /\ Hdr_(gdc) = Hdr_(wp) /\ gdc.st.ROI = wp.st.ROI
      /\ wp.st.WeightedPrediction => gdc.st.WeightedPrediction
      /\ "GDC" \in b.meta /\ "GDC" \notin no => gdc.st.GDCvOTF
  BY <1>2, <1>3, EnabledGood
<1>5. y = SetHDRStaticInfo(gdc, no) \/ y = gdc
  OBVIOUS
<1>6. Good(y) /\ Stream(y) = Stream(gdc) /\ Picture(y) = Picture(gdc) /\ Extras(y) = Extras(gdc)
  BY <1>4, <1>5, SetHDRStaticInfoOwn DEF Good
<1>7. y = ApplyExtraInfoConfig(x, b, no)
  BY DEF ApplyExtraInfoConfig, wp, gdc
<1> HIDE DEF y
<1> QED
  BY <1>2, <1>4, <1>6, <1>7 DEF Extras

\* The drop of frames is kept until the next frame.
LEMMA DropControlGood ==
  ASSUME NEW x, Good(x)
  PROVE  LET y == [x EXCEPT !.st.DropControl = TRUE, !.asked.val["DropControl"] = "client"] IN
         /\ Good(y) /\ Stream(y) = Stream(x) /\ Picture(y) = Picture(x) /\ Extras(y) = Extras(x)
         /\ Hdr_(y) = Hdr_(x)
<1> DEFINE y == [x EXCEPT !.st.DropControl = TRUE, !.asked.val["DropControl"] = "client"]
<1>0. y = [x EXCEPT !.st.DropControl = TRUE, !.asked.val["DropControl"] = "client"]
  OBVIOUS
<1> HIDE DEF y
<1>1. y \in Encoder
  BY <1>0 DEF Good, Own, Encoder, Config, Asked, Settings, Arrayed, Values
<1>2. Kept(y) /\ Unmeasured(y) /\ DropKept(y) /\ Told(y)
  BY <1>0 DEF Good, Own, Encoder, Config, Asked, Kept, Unmeasured, DropKept, Told, Settings, Arrayed
<1>3. /\ Stream(y) = Stream(x) /\ Picture(y) = Picture(x) /\ Extras(y) = Extras(x)
      /\ Hdr_(y) = Hdr_(x)
  BY <1>0 DEF Good, Own, Encoder, Config, Asked, Stream, Picture, Extras, Hdr_
<1> QED
  BY <1>1, <1>2, <1>3 DEF Good, Own, y

\* The parameters of an input, sent before its frame.
LEMMA ApplyConfigGood ==
  ASSUME ready \in BOOLEAN, NEW x, Good(x), NEW b \in InputType, NEW no
  PROVE  LET y == ApplyConfig(x, b, no) IN
         /\ Good(y) /\ Stream(y) = Stream(x) /\ Picture(y) = Picture(x) /\ Extras(y) = Extras(x)
         /\ ready /\ StaticKnown(x) => StaticKnown(y)
<1> DEFINE dynamic == SetSettings(x, b, no)
           stat == IF "HDR10PlusStat" \in b.params THEN EnableHDR10PlusStat(dynamic, no) ELSE dynamic
           hdr  == IF "HDREncoding" \in b.params THEN EnableHdrEncoding(stat) ELSE stat
           info == IF "HDRStatic" \in b.params /\ HdrCapable(hdr) THEN SetHDRStaticInfo(hdr, no) ELSE hdr
           drop == IF "DropControl" \in b.params
                   THEN [info EXCEPT !.st.DropControl = TRUE, !.asked.val["DropControl"] = "client"]
                   ELSE info
<1> DEFINE Same(y, z) == /\ Stream(y) = Stream(z) /\ Picture(y) = Picture(z)
                         /\ Extras(y) = Extras(z)
<1>1. Good(dynamic) /\ Same(dynamic, x) /\ Hdr_(dynamic) = Hdr_(x)
  BY SetSettingsGood
<1> HIDE DEF dynamic
<1>2. Good(stat) /\ Same(stat, dynamic) /\ Hdr_(stat) = Hdr_(dynamic)
  BY <1>1, EnableHDR10PlusStatGood
<1> HIDE DEF stat
<1>3. Good(hdr) /\ Same(hdr, stat) /\ (ready /\ StaticKnown(stat) => StaticKnown(hdr))
  BY <1>2, EnableHdrEncodingGood
<1> HIDE DEF hdr
<1>4. Good(info) /\ Same(info, hdr) /\ (StaticKnown(hdr) => StaticKnown(info))
  BY <1>3, SetHDRStaticInfoOwn DEF Good
<1> HIDE DEF info
<1>5. Good(drop) /\ Same(drop, info) /\ Hdr_(drop) = Hdr_(info)
  BY <1>4, DropControlGood
<1> HIDE DEF drop
<1>6. ApplyConfig(x, b, no) = IF x.st.On THEN stat ELSE drop
  BY DEF ApplyConfig, dynamic, stat, hdr, info, drop
<1>7. ready /\ StaticKnown(x) => StaticKnown(stat) /\ StaticKnown(drop)
  BY <1>1, <1>2, <1>3, <1>4, <1>5 DEF StaticKnown, Hdr_
<1> QED
  BY <1>1, <1>2, <1>3, <1>4, <1>5, <1>6, <1>7

\* With nothing refused the driver drops frames as asked.
LEMMA SetDropControlGood ==
  ASSUME NEW x, Good(x), NEW no
  PROVE  LET y == SetDropControl(x, no) IN
         /\ Good(y) /\ y.st = x.st /\ y.asked = x.asked
         /\ Has("DropControl") /\ "DropControl" \notin no =>
              y.drv["DropControl"] = y.asked.val["DropControl"]
<1> DEFINE y == SetDropControl(x, no)
           v == IF x.st.DropControl THEN "client" ELSE "default"
<1>1. CASE Has("DropControl") /\ "DropControl" \notin no
  <2>0. y = [x EXCEPT !.drv["DropControl"] = v] /\ v \in Values
    BY <1>1 DEF SetDropControl, Values
  <2>a. v = x.asked.val["DropControl"]
    BY DEF Good, Own, DropKept
  <2> HIDE DEF y, v
  <2>1. y \in Encoder
    BY <2>0 DEF Good, Own, Encoder, Settings
  <2>2. Kept(y) /\ Unmeasured(y) /\ DropKept(y) /\ Told(y)
    BY <2>0 DEF Good, Own, Encoder, Kept, Unmeasured, DropKept, Told, Settings, Arrayed
  <2>3. y.st = x.st /\ y.asked = x.asked /\ y.drv["DropControl"] = y.asked.val["DropControl"]
    BY <2>0, <2>a DEF Good, Own, Encoder, Settings
  <2> QED
    BY <2>1, <2>2, <2>3 DEF Good, Own, y
<1>2. CASE ~(Has("DropControl") /\ "DropControl" \notin no)
  BY <1>2 DEF SetDropControl
<1> QED
  BY <1>1, <1>2

-----------------------------------------------------------------------------
(* The calls.                                                              *)

\* What restarting the stream, or configuring its formats, leaves alone.
LEMMA RestartGood ==
  ASSUME NEW x, NEW y \in Encoder,
         y.st.EncParam = x.st.EncParam, y.st.DFR = x.st.DFR,
         y.st.DropControl = x.st.DropControl,
         y.st.HdrEncodingType = x.st.HdrEncodingType,
         y.st.HasHDRStaticInfo = x.st.HasHDRStaticInfo,
         y.drv = x.drv, y.asked = x.asked
  PROVE  /\ Own(x) => Own(y)
         /\ Good(x) => Good(y)
         /\ StaticKnown(x) => StaticKnown(y)
BY DEF Good, Own, Kept, Unmeasured, DropKept, Told, StaticKnown

\* The next state is the encoder that the call hands on.
LEMMA BecomesThis ==
  ASSUME NEW x \in Encoder, Becomes(x)
  PROVE  This' = x
BY DEF Encoder, Becomes, This

\* The state is an encoder.
LEMMA ThisType ==
  ASSUME TypeOK
  PROVE  This \in Encoder
BY DEF TypeOK, This, Encoder, Asked

\* What is known of an encoder decides the properties of the next state.
LEMMA NextState ==
  ASSUME NEW x, Becomes(x), Good(x), StaticKnown(x),
         enc \in Encoders, enc' = enc, ready' \in BOOLEAN,
         inputs' \in 0..MaxInputs, last' \in Inputs \union {NoInput}, lost' = 0,
         last' # NoInput /\ Has("DropControl") =>
           x.drv["DropControl"] = x.asked.val["DropControl"],
         ChangeSettles'
  PROVE  IndInv'
<1>1. x \in Encoder
  BY DEF Good, Own
<1>2. This' = x
  BY <1>1, BecomesThis
<1>3. Good(This)' /\ StaticKnown(This)'
  BY <1>2 DEF Good, Own, Kept, Unmeasured, DropKept, Told, StaticKnown, Encoder, Config, Asked
<1>4. TypeOK'
  BY <1>1 DEF Becomes, TypeOK, Encoder, Asked
<1>5. Dropping'
  BY DEF Dropping, Becomes, Has
<1> QED
  BY <1>3, <1>4, <1>5 DEF IndInv, NothingStranded

\* An input is what the configuration was made for.
Made(x, b) ==
  /\ x.st.size = b.size /\ x.st.FrameMap = b.format
  /\ "YSUM" \in b.meta => x.st.WeightedPrediction
  /\ "GDC" \in b.meta => x.st.GDCvOTF
  /\ "ROI" \in b.meta /\ Is({"AVC", "HEVC"}) =>
       x.st.ROI \/ ~Has("RoiInfo") \/ b.params = {}

\* An input is submitted with a configuration that, when nothing is refused, was
\* made for it.
LEMMA SubmitInv ==
  ASSUME EncAssumption, IndInv, NEW x, Good(x), StaticKnown(x), ready,
         NEW b \in Inputs, NEW measured \in BOOLEAN, NEW no, measured => MayMeasure(x),
         no = {} => Made(x, b),
         inputs < MaxInputs, Submit(x, b, measured, no),
         UNCHANGED <<enc, ready>>, lost' = 0
  PROVE  IndInv'
<1>0. /\ enc \in Encoders /\ ready \in BOOLEAN /\ inputs \in 0..MaxInputs /\ MaxInputs \in Nat
      /\ b \in InputType /\ b # NoInput
  BY DEF EncAssumption, IndInv, TypeOK
<1> DEFINE c == ApplyConfig(x, b, no)
           q == IF b.replica THEN [c EXCEPT !.st.DRCRequired = TRUE] ELSE c
           r == SetDropControl(q, no)
           d == IF measured THEN [r EXCEPT !.drv["FrameRate"] = "measured"] ELSE r
           e == [d EXCEPT !.st.On = TRUE]
<1>1. /\ Good(c) /\ StaticKnown(c)
      /\ Stream(c) = Stream(x) /\ Picture(c) = Picture(x) /\ Extras(c) = Extras(x)
  BY <1>0, ApplyConfigGood
<1> HIDE DEF c
<1>2. /\ Good(q) /\ StaticKnown(q) /\ Picture(q) = Picture(c) /\ Extras(q) = Extras(c)
      /\ q.st.DFR = c.st.DFR
  <2>1. CASE b.replica
    <3>1. q = [c EXCEPT !.st.DRCRequired = TRUE]
      BY <2>1
    <3> HIDE DEF q
    <3>2. q \in Encoder
      BY <1>1, <3>1 DEF Good, Own, Encoder, Config
    <3>3. /\ q.st.EncParam = c.st.EncParam /\ q.st.DFR = c.st.DFR
          /\ q.st.DropControl = c.st.DropControl
          /\ q.st.HdrEncodingType = c.st.HdrEncodingType
          /\ q.st.HasHDRStaticInfo = c.st.HasHDRStaticInfo
          /\ q.drv = c.drv /\ q.asked = c.asked
          /\ Picture(q) = Picture(c) /\ Extras(q) = Extras(c)
      BY <1>1, <3>1 DEF Good, Own, Encoder, Config, Picture, Extras
    <3> QED
      BY <1>1, <3>2, <3>3, RestartGood
  <2>2. CASE ~b.replica
    BY <1>1, <2>2
  <2> QED
    BY <2>1, <2>2
<1> HIDE DEF q
<1>3. /\ Good(r) /\ r.st = q.st /\ r.asked = q.asked
      /\ Has("DropControl") /\ "DropControl" \notin no =>
           r.drv["DropControl"] = r.asked.val["DropControl"]
  BY <1>2, SetDropControlGood
<1> HIDE DEF r
<1>4. measured => r.st.DFR
  BY <1>1, <1>2, <1>3 DEF MayMeasure, Stream
<1>5. /\ Good(d) /\ d.st = r.st /\ d.asked = r.asked
      /\ d.drv["DropControl"] = r.drv["DropControl"]
  <2>1. CASE measured
    <3>1. d = [r EXCEPT !.drv["FrameRate"] = "measured"]
      BY <2>1
    <3> HIDE DEF d
    <3>2. d \in Encoder
      BY <1>3, <3>1 DEF Good, Own, Encoder, Settings, Arrayed, Values
    <3>3. d.st = r.st /\ d.asked = r.asked /\ d.drv["DropControl"] = r.drv["DropControl"]
      BY <1>3, <3>1 DEF Good, Own, Encoder, Settings, Arrayed
    <3>4. Kept(d) /\ Unmeasured(d) /\ DropKept(d)
      BY <1>3, <3>1, <3>3 DEF Good, Own, Encoder, Settings, Arrayed, Kept, Unmeasured, DropKept
    <3>5. Told(d)
      BY <1>3, <1>4, <2>1, <3>1, <3>3 DEF Good, Own, Encoder, Unmeasured, Told, Settings, Arrayed
    <3> QED
      BY <3>2, <3>3, <3>4, <3>5 DEF Good, Own
  <2>2. CASE ~measured
    BY <1>3, <2>2
  <2> QED
    BY <2>1, <2>2
<1> HIDE DEF d
<1>6. /\ Good(e) /\ e.drv = d.drv /\ e.asked = d.asked
      /\ Picture(e) = Picture(d) /\ Extras(e) = Extras(d)
      /\ e.st.HdrEncodingType = d.st.HdrEncodingType
      /\ e.st.HasHDRStaticInfo = d.st.HasHDRStaticInfo
  <2>1. e \in Encoder
    BY <1>5 DEF Good, Own, Encoder, Config
  <2>2. /\ e.st.EncParam = d.st.EncParam /\ e.st.DFR = d.st.DFR
        /\ e.st.DropControl = d.st.DropControl
        /\ e.st.HdrEncodingType = d.st.HdrEncodingType
        /\ e.st.HasHDRStaticInfo = d.st.HasHDRStaticInfo
        /\ e.drv = d.drv /\ e.asked = d.asked
        /\ Picture(e) = Picture(d) /\ Extras(e) = Extras(d)
    BY <1>5 DEF Good, Own, Encoder, Config, Picture, Extras
  <2> QED
    BY <1>5, <2>1, <2>2, RestartGood
<1> HIDE DEF e
<1>7. StaticKnown(r) /\ StaticKnown(e)
  BY <1>2, <1>3, <1>5, <1>6 DEF StaticKnown
<1>8. \/ Becomes(r) /\ last' = NoInput /\ inputs' = inputs
      \/ Becomes(e) /\ inputs' = inputs + 1 /\ last' = IF no = {} THEN b ELSE NoInput
  BY DEF Submit, c, q, r, d, e
<1>9. CASE Becomes(r) /\ last' = NoInput /\ inputs' = inputs
  <2>1. ChangeSettles'
    BY <1>9 DEF ChangeSettles
  <2> QED
    BY <1>0, <1>3, <1>7, <1>9, <2>1, NextState
<1>10. CASE Becomes(e) /\ inputs' = inputs + 1 /\ last' = IF no = {} THEN b ELSE NoInput
  <2>1. no = {} => Made(e, b)
    BY <1>1, <1>2, <1>3, <1>5, <1>6 DEF Made, Picture, Extras
  <2>2. ChangeSettles'
    BY <1>10, <2>1 DEF ChangeSettles, Made, Becomes, Is, Has
  <2>3. no = {} => "DropControl" \notin no
    OBVIOUS
  <2>4. last' # NoInput /\ Has("DropControl") =>
           e.drv["DropControl"] = e.asked.val["DropControl"]
    BY <1>3, <1>5, <1>6, <1>10, <2>3
  <2>5. inputs' \in 0..MaxInputs
    BY <1>0, <1>10
  <2> QED
    BY <1>0, <1>6, <1>7, <1>10, <2>2, <2>4, <2>5, NextState
<1> QED
  BY <1>8, <1>9, <1>10

\* A setup that fails at any of its controls leaves a good encoder behind.
LEMMA SetupInv ==
  ASSUME EncAssumption, IndInv, NEW b \in Inputs, NEW no, Setup(b, no)
  PROVE  IndInv'
<1>0. /\ enc \in Encoders /\ ready \in BOOLEAN /\ inputs \in 0..MaxInputs /\ lost = 0
      /\ b \in InputType /\ b.format \in {"NV12", "P010"} /\ enc' = enc /\ inputs' = inputs
      /\ lost' = 0 /\ last' = NoInput
  BY DEF EncAssumption, InputType, IndInv, TypeOK, NothingStranded, Setup
<1>1. This \in Encoder /\ Good(This) /\ StaticKnown(This)
  BY ThisType DEF IndInv
<1> DEFINE off == [This EXCEPT !.st.On = FALSE, !.st.Configured = FALSE]
           drc == FALSE
           x == SetDefaultConfig(off, b, drc, no)
           g == [x EXCEPT !.st.FrameMap = b.format, !.st.InGeometry = b.format]
           c == ApplyConfig(g, b, no)
           i == ApplyExtraInfoConfig(c, b, no)
           y == DefaultStaticInfo(i, no)
           z == [y EXCEPT !.st.Configured = TRUE]
<1>2. Own(off) /\ StaticKnown(off)
  <2> HIDE DEF off
  <2>1. off = [This EXCEPT !.st.On = FALSE, !.st.Configured = FALSE]
    BY DEF off
  <2>2. off \in Encoder
    BY <1>1, <2>1 DEF Encoder, Config
  <2>3. /\ off.st.EncParam = This.st.EncParam /\ off.st.DFR = This.st.DFR
        /\ off.st.DropControl = This.st.DropControl
        /\ off.st.HdrEncodingType = This.st.HdrEncodingType
        /\ off.st.HasHDRStaticInfo = This.st.HasHDRStaticInfo
        /\ off.drv = This.drv /\ off.asked = This.asked
    BY <1>1, <2>1 DEF Encoder, Config
  <2> QED
    BY <1>1, <2>2, <2>3, RestartGood DEF Good
<1> HIDE DEF off, drc
<1>3. Good(x) /\ Hdr_(x) = Hdr_(off)
  BY <1>0, <1>2, SetDefaultConfigGood
<1> HIDE DEF x
<1>4. StaticKnown(x)
  BY <1>2, <1>3 DEF StaticKnown, Hdr_
<1>5. Good(g) /\ StaticKnown(g)
  <2>1. g = [x EXCEPT !.st.FrameMap = b.format, !.st.InGeometry = b.format]
    OBVIOUS
  <2> HIDE DEF g
  <2>2. g \in Encoder
    BY <1>0, <1>3, <2>1 DEF Good, Own, Encoder, Config
  <2>3. /\ g.st.EncParam = x.st.EncParam /\ g.st.DFR = x.st.DFR
        /\ g.st.DropControl = x.st.DropControl
        /\ g.st.HdrEncodingType = x.st.HdrEncodingType
        /\ g.st.HasHDRStaticInfo = x.st.HasHDRStaticInfo
        /\ g.drv = x.drv /\ g.asked = x.asked
    BY <1>3, <2>1 DEF Good, Own, Encoder, Config
  <2> QED
    BY <1>3, <1>4, <2>2, <2>3, RestartGood
<1> HIDE DEF g
<1>6. Good(c)
  BY <1>0, <1>5, ApplyConfigGood
<1> HIDE DEF c
<1>7. Good(i)
  BY <1>6, ApplyExtraInfoConfigGood
<1> HIDE DEF i
<1>8. Good(y) /\ StaticKnown(y)
  BY <1>7, DefaultStaticInfoGood
<1> HIDE DEF y
<1>9. Good(z) /\ StaticKnown(z)
  <2>1. z = [y EXCEPT !.st.Configured = TRUE]
    OBVIOUS
  <2> HIDE DEF z
  <2>2. z \in Encoder
    BY <1>8, <2>1 DEF Good, Own, Encoder, Config
  <2>3. /\ z.st.EncParam = y.st.EncParam /\ z.st.DFR = y.st.DFR
        /\ z.st.DropControl = y.st.DropControl
        /\ z.st.HdrEncodingType = y.st.HdrEncodingType
        /\ z.st.HasHDRStaticInfo = y.st.HasHDRStaticInfo
        /\ z.drv = y.drv /\ z.asked = y.asked
    BY <1>8, <2>1 DEF Good, Own, Encoder, Config
  <2> QED
    BY <1>8, <2>2, <2>3, RestartGood
<1> HIDE DEF z
<1>10. ready' \in BOOLEAN /\ (Becomes(x) \/ Becomes(g) \/ Becomes(z))
  BY DEF Setup, off, drc, x, g, c, i, y, z
<1>11. ChangeSettles'
  BY <1>0 DEF ChangeSettles
<1>12. ASSUME NEW w, Becomes(w), Good(w), StaticKnown(w)
       PROVE  IndInv'
  BY <1>0, <1>10, <1>11, <1>12, NextState
<1> QED
  BY <1>3, <1>4, <1>5, <1>9, <1>10, <1>12

\* Without a need for a change the configuration is made for the input already.
LEMMA EnqueueInv ==
  ASSUME EncAssumption, IndInv, NEW b \in Inputs, NEW measured \in BOOLEAN, NEW no,
         Enqueue(b, measured, no)
  PROVE  IndInv'
<1>1. Good(This) /\ StaticKnown(This) /\ lost = 0
  BY DEF IndInv, NothingStranded
<1>2. /\ ready /\ (measured => MayMeasure(This)) /\ inputs < MaxInputs
      /\ Submit(This, b, measured, no) /\ UNCHANGED <<enc, ready>> /\ lost' = 0
  BY <1>1 DEF Enqueue
<1>3. Made(This, b)
  BY DEF Enqueue, NeedToChangeResolution, MetaNeedsChange, Made, This
<1> QED
  BY <1>1, <1>2, <1>3, SubmitInv

\* A change of resolution that is not refused makes the configuration for its input.
LEMMA ChangeResolutionGood ==
  ASSUME NEW x, Own(x), NEW b \in InputType, NEW no
  PROVE  LET y == ChangeResolution(x, b, no) IN
         Good(y) /\ StaticKnown(y) /\ (no = {} => Made(y, b))
<1> DEFINE drc == TRUE
           d == SetDefaultConfig(x, b, drc, no)
           g == [d EXCEPT !.st.FrameMap = b.format]
           i == ApplyExtraInfoConfig(g, b, no)
           y == DefaultStaticInfo(i, no)
<1> HIDE DEF drc
<1>1. /\ Good(d) /\ d.st.size = b.size
      /\ "ROI" \in b.meta /\ Has("RoiInfo") /\ Is({"AVC", "HEVC"}) /\ b.params # {} => d.st.ROI
  BY SetDefaultConfigGood
<1> HIDE DEF d
<1>2. /\ Good(g) /\ g.st.size = b.size /\ g.st.FrameMap = b.format /\ g.st.ROI = d.st.ROI
  <2>1. g = [d EXCEPT !.st.FrameMap = b.format] /\ b.format \in {"NV12", "P010"}
    BY DEF InputType
  <2> HIDE DEF g
  <2>2. g \in Encoder
    BY <1>1, <2>1 DEF Good, Own, Encoder, Config
  <2>3. /\ g.st.EncParam = d.st.EncParam /\ g.st.DFR = d.st.DFR
        /\ g.st.DropControl = d.st.DropControl
        /\ g.st.HdrEncodingType = d.st.HdrEncodingType
        /\ g.st.HasHDRStaticInfo = d.st.HasHDRStaticInfo
        /\ g.drv = d.drv /\ g.asked = d.asked
        /\ g.st.size = d.st.size /\ g.st.FrameMap = b.format /\ g.st.ROI = d.st.ROI
    BY <1>1, <2>1 DEF Good, Own, Encoder, Config
  <2> QED
    BY <1>1, <2>2, <2>3, RestartGood
<1> HIDE DEF g
<1>3. /\ Good(i) /\ Picture(i) = Picture(g) /\ i.st.ROI = g.st.ROI
      /\ "YSUM" \in b.meta /\ "WP" \notin no => i.st.WeightedPrediction
      /\ "GDC" \in b.meta /\ "GDC" \notin no => i.st.GDCvOTF
  BY <1>2, ApplyExtraInfoConfigGood
<1> HIDE DEF i
<1>4. /\ Good(y) /\ StaticKnown(y) /\ Picture(y) = Picture(i) /\ Extras(y) = Extras(i)
  BY <1>3, DefaultStaticInfoGood
<1>5. y = ChangeResolution(x, b, no)
  BY DEF ChangeResolution, drc, d, g, i
<1> HIDE DEF y
<1>6. no = {} => "WP" \notin no /\ "GDC" \notin no
  OBVIOUS
<1>7. no = {} => Made(y, b)
  BY <1>1, <1>2, <1>3, <1>4, <1>6 DEF Made, Picture, Extras
<1> QED
  BY <1>4, <1>5, <1>7

\* A change is begun with no input in the driver, and made for the input.
LEMMA EnqueueChangeInv ==
  ASSUME EncAssumption, IndInv, NEW b \in Inputs, NEW measured \in BOOLEAN, NEW no,
         EnqueueChange(b, measured, no)
  PROVE  IndInv'
<1>0. /\ enc \in Encoders /\ ready \in BOOLEAN /\ ready /\ ready' = ready /\ enc' = enc
      /\ b \in InputType
      /\ inputs = 0 /\ 0 < MaxInputs /\ lost' = 0 /\ 0 \in 0..MaxInputs
  BY DEF EncAssumption, IndInv, TypeOK, NothingStranded, EnqueueChange, AvailableToEnqueue
<1>1. This \in Encoder /\ Good(This) /\ StaticKnown(This)
  BY ThisType DEF IndInv
<1> DEFINE off == [This EXCEPT !.st.DRCRequired = FALSE, !.st.On = FALSE, !.st.Configured = FALSE]
           x == ChangeResolution(off, b, no)
           z == [x EXCEPT !.st.Configured = TRUE]
           drc == TRUE
           f == SetDefaultConfig(off, b, drc, no)
<1>2. Own(off) /\ StaticKnown(off)
  <2>1. off = [This EXCEPT !.st.DRCRequired = FALSE, !.st.On = FALSE, !.st.Configured = FALSE]
    OBVIOUS
  <2> HIDE DEF off
  <2>2. off \in Encoder
    BY <1>1, <2>1 DEF Encoder, Config
  <2>3. /\ off.st.EncParam = This.st.EncParam /\ off.st.DFR = This.st.DFR
        /\ off.st.DropControl = This.st.DropControl
        /\ off.st.HdrEncodingType = This.st.HdrEncodingType
        /\ off.st.HasHDRStaticInfo = This.st.HasHDRStaticInfo
        /\ off.drv = This.drv /\ off.asked = This.asked
    BY <1>1, <2>1 DEF Encoder, Config
  <2> QED
    BY <1>1, <2>2, <2>3, RestartGood DEF Good
<1> HIDE DEF off, drc
<1>3. Good(f) /\ Hdr_(f) = Hdr_(off)
  BY <1>0, <1>2, SetDefaultConfigGood
<1>4. StaticKnown(f)
  BY <1>2, <1>3 DEF StaticKnown, Hdr_
<1> HIDE DEF f
<1>5. Good(x) /\ StaticKnown(x) /\ (no = {} => Made(x, b))
  BY <1>0, <1>2, ChangeResolutionGood
<1> HIDE DEF x
<1>6. /\ Good(z) /\ StaticKnown(z) /\ (no = {} => Made(z, b)) /\ z.st.DFR = x.st.DFR
  <2>1. z = [x EXCEPT !.st.Configured = TRUE]
    OBVIOUS
  <2> HIDE DEF z
  <2>2. z \in Encoder
    BY <1>5, <2>1 DEF Good, Own, Encoder, Config
  <2>3. /\ z.st.EncParam = x.st.EncParam /\ z.st.DFR = x.st.DFR
        /\ z.st.DropControl = x.st.DropControl
        /\ z.st.HdrEncodingType = x.st.HdrEncodingType
        /\ z.st.HasHDRStaticInfo = x.st.HasHDRStaticInfo
        /\ z.drv = x.drv /\ z.asked = x.asked
        /\ Picture(z) = Picture(x) /\ Extras(z) = Extras(x)
    BY <1>5, <2>1 DEF Good, Own, Encoder, Config, Picture, Extras
  <2> QED
    BY <1>5, <2>2, <2>3, RestartGood DEF Made, Picture, Extras
<1> HIDE DEF z
<1>7. \/ Becomes(f) /\ last' = NoInput /\ inputs' = inputs
      \/ (measured => MayMeasure(x)) /\ Submit(z, b, measured, no)
  BY DEF EnqueueChange, off, drc, x, z, f
<1>8. CASE Becomes(f) /\ last' = NoInput /\ inputs' = inputs
  <2>1. ChangeSettles'
    BY <1>8 DEF ChangeSettles
  <2> QED
    BY <1>0, <1>3, <1>4, <1>8, <2>1, NextState
<1>9. CASE (measured => MayMeasure(x)) /\ Submit(z, b, measured, no)
  <2>1. measured => MayMeasure(z)
    BY <1>6, <1>9 DEF MayMeasure
  <2> QED
    BY <1>0, <1>6, <1>9, <2>1, SubmitInv
<1> QED
  BY <1>7, <1>8, <1>9

\* The driver's answers change only the number of its inputs.
LEMMA DequeueInv ==
  ASSUME EncAssumption, IndInv, Dequeue
  PROVE  IndInv'
<1>1. inputs' \in 0..MaxInputs
  BY DEF EncAssumption, IndInv, TypeOK, Dequeue
<1>2. UNCHANGED <<enc, ready, st, drv, asked, last, lost>>
  BY DEF Dequeue
<1>3. Good(This)' /\ StaticKnown(This)'
  BY <1>2 DEF IndInv, This, Good, Own, Kept, Unmeasured, DropKept, Told, StaticKnown
<1> QED
  BY <1>1, <1>2, <1>3 DEF IndInv, TypeOK, Dropping, ChangeSettles, NothingStranded, Has, Is

\* A flush turns the stream off and forgets nothing.
LEMMA FlushInv ==
  ASSUME EncAssumption, IndInv, Flush
  PROVE  IndInv'
<1>0. /\ enc \in Encoders /\ enc' = enc /\ ready' \in BOOLEAN /\ st \in Config
      /\ inputs' \in 0..MaxInputs /\ last' = last /\ last \in Inputs \union {NoInput} /\ lost' = 0
      /\ st' = [st EXCEPT !.On = FALSE] /\ drv' = drv /\ asked' = asked
  BY DEF EncAssumption, IndInv, TypeOK, NothingStranded, Flush
<1>1. This \in Encoder /\ Good(This) /\ StaticKnown(This)
  BY ThisType DEF IndInv
<1> DEFINE x == [This EXCEPT !.st.On = FALSE]
<1>2. x = [This EXCEPT !.st.On = FALSE]
  OBVIOUS
<1> HIDE DEF x
<1>3. x \in Encoder
  BY <1>1, <1>2 DEF Encoder, Config
<1>4. /\ x.st.EncParam = This.st.EncParam /\ x.st.DFR = This.st.DFR
      /\ x.st.DropControl = This.st.DropControl
      /\ x.st.HdrEncodingType = This.st.HdrEncodingType
      /\ x.st.HasHDRStaticInfo = This.st.HasHDRStaticInfo
      /\ x.drv = This.drv /\ x.asked = This.asked /\ x.st = [st EXCEPT !.On = FALSE]
  BY <1>1, <1>2 DEF Encoder, Config, This
<1>5. Becomes(x)
  BY <1>0, <1>4 DEF Becomes, This
<1>6. Good(x) /\ StaticKnown(x)
  BY <1>1, <1>3, <1>4, RestartGood
<1>7. ChangeSettles'
  BY <1>0 DEF IndInv, ChangeSettles, Config, Has, Is
<1>8. last' # NoInput /\ Has("DropControl") =>
        x.drv["DropControl"] = x.asked.val["DropControl"]
  BY <1>0, <1>4 DEF IndInv, Dropping, This
<1> QED
  BY <1>0, <1>5, <1>6, <1>7, <1>8, NextState

\* The encoder begins with the defaults, and so does the driver.
LEMMA InitInv == EncAssumption /\ Init => IndInv
<1> SUFFICES ASSUME EncAssumption, Init PROVE IndInv
  OBVIOUS
<1>1. TypeOK
  <2>1. [s \in Arrayed |-> "default"] \in [Arrayed -> Values]
    BY DEF Values
  <2>2. st \in Config
    BY <2>1 DEF Init, Config
  <2>3. [s \in Settings |-> "default"] \in [Settings -> Values]
    BY DEF Values
  <2>4. drv \in [Settings -> Values]
    BY <2>3 DEF Init
  <2>5. asked \in Asked
    <3>1. asked = [val |-> [s \in Settings |-> "default"], stale |-> FALSE,
                   noDFR |-> FALSE, late |-> FALSE, badStatic |-> FALSE]
      BY DEF Init
    <3> DEFINE val == [s \in Settings |-> "default"]
               no == FALSE
    <3> HIDE DEF val
    <3>2. val \in [Settings -> Values] /\ FALSE \in BOOLEAN
      BY <2>3 DEF val
    <3>3. [val |-> val, stale |-> FALSE, noDFR |-> FALSE, late |-> FALSE, badStatic |-> FALSE]
            \in Asked
      BY <3>2, Zenon DEF Asked
    <3> QED
      BY <3>1, <3>3, Zenon DEF val
  <2>6. enc \in Encoders /\ ready \in BOOLEAN /\ last \in Inputs \union {NoInput} /\ lost \in Nat
        /\ inputs \in 0..MaxInputs
    <3>1. enc \in Encoders /\ ready = FALSE /\ inputs = 0 /\ last = NoInput /\ lost = 0
      BY DEF Init
    <3>2. ready \in BOOLEAN
      BY <3>1
    <3>3. inputs \in 0..MaxInputs /\ lost \in Nat
      BY <3>1 DEF EncAssumption
    <3> QED
      BY <3>1, <3>2, <3>3
  <2> QED
    BY <2>2, <2>4, <2>5, <2>6 DEF TypeOK, Asked
<1>2. This \in Encoder
  BY <1>1, ThisType
<1>3. Kept(This) /\ Unmeasured(This) /\ DropKept(This) /\ Told(This) /\ StaticKnown(This)
  BY DEF Init, This, Kept, Unmeasured, DropKept, Told, StaticKnown, Settings, Arrayed
<1> QED
  BY <1>1, <1>2, <1>3 DEF Init, IndInv, Good, Own, Dropping, ChangeSettles, NothingStranded

\* Every call keeps the invariant.
LEMMA NextInv == EncAssumption /\ IndInv /\ [Next]_encVars => IndInv'
<1> SUFFICES ASSUME EncAssumption, IndInv, [Next]_encVars PROVE IndInv'
  OBVIOUS
<1>1. CASE Next
  BY <1>1, SetupInv, EnqueueInv, EnqueueChangeInv, DequeueInv, FlushInv DEF Next
<1>2. CASE UNCHANGED encVars
  <2>1. UNCHANGED <<enc, ready, st, drv, inputs, asked, last, lost>>
    BY <1>2 DEF encVars
  <2>2. Good(This)' /\ StaticKnown(This)'
    BY <2>1 DEF IndInv, This, Good, Own, Kept, Unmeasured, DropKept, Told, StaticKnown
  <2> QED
    BY <2>1, <2>2 DEF IndInv, TypeOK, Dropping, ChangeSettles, NothingStranded, Has, Is
<1> QED
  BY <1>1, <1>2

-----------------------------------------------------------------------------

\* Every state of an encoder, over any number of inputs, changes and flushes,
\* satisfies the inductive invariant.
THEOREM Invariance == Spec => []IndInv
<1>1. EncAssumption
  BY EncAssumption
<1>2. Init => IndInv
  BY <1>1, InitInv
<1>3. IndInv /\ [Next]_encVars => IndInv'
  BY <1>1, NextInv
<1> QED
  BY <1>2, <1>3, PTL DEF Spec

\* The members of the encoder and the settings of the driver keep their types,
\* and the driver has no more inputs than it has room for.
THEOREM TypeCorrect == Spec => []TypeOK
<1>1. IndInv => TypeOK
  BY DEF IndInv
<1> QED
  BY <1>1, Invariance, PTL

\* While the stream is on the driver works with what the client asked for last,
\* over any changes of resolution and flushes, and a stream of HDR has its
\* static information.
THEOREM SettingsCorrect == Spec => []SettingsHold
<1>1. IndInv => SettingsHold
  <2> SUFFICES ASSUME IndInv PROVE RuntimeConfigSurvives /\ HdrHasStatic
    BY DEF SettingsHold
  <2>1. RuntimeConfigSurvives
    <3> SUFFICES ASSUME st.On, ~asked.stale, NEW s \in Settings
                 PROVE  \/ drv[s] = asked.val[s]
                        \/ s = "FrameRate" /\ drv[s] = "measured" /\ ~asked.noDFR
                        \/ s = "DropControl" /\ (~Has("DropControl") \/ last = NoInput)
      BY DEF RuntimeConfigSurvives
    <3>1. CASE s = "DropControl"
      BY <3>1 DEF IndInv, Dropping
    <3>2. CASE s # "DropControl"
      BY <3>2 DEF IndInv, Good, Told, This
    <3> QED
      BY <3>1, <3>2
  <2>2. HdrHasStatic
    BY DEF IndInv, HdrHasStatic, StaticKnown, This
  <2> QED
    BY <2>1, <2>2
<1> QED
  BY <1>1, Invariance, PTL

\* An input that was enqueued without a refusal needs no change when it comes
\* again.
THEOREM ChangeCorrect == Spec => []ChangeSettles
<1>1. IndInv => ChangeSettles
  BY DEF IndInv
<1> QED
  BY <1>1, Invariance, PTL

\* No change of resolution takes inputs from the driver that it has not encoded.
THEOREM NothingStrandedCorrect == Spec => []NothingStranded
<1>1. IndInv => NothingStranded
  BY DEF IndInv
<1> QED
  BY <1>1, Invariance, PTL
=============================================================================
