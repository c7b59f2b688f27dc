--------------------------- MODULE Leaves_proofs ---------------------------
(***************************************************************************)
(* Components that use no other: the edges reported by a detector          *)
(* alternate, whatever the samples, their times and the debounce interval; *)
(* a colour conversion depends on its last set-up alone, and packing loses *)
(* only the bits that are cut off, whatever the colours; the cursor of a   *)
(* player is where its query asks for, whatever was asked before; and      *)
(* whatever a program does with its buffers, and whichever allocations     *)
(* fail, no write leaves its block, every block has one owner, and memory  *)
(* is lost only when there is none left.                                   *)
(***************************************************************************)
EXTENDS SignalEdges, Colors, SegmentCursor, Buffers, Buffer_proofs, WellFoundedInduction

---------------------------------------------------------------------------
(* The edge detector.                                                      *)

Edge == [kind: {"rise", "fall"}, at: 1 .. LastTime]

(* What a sample does: it is ignored, sets the level without an edge from  *)
(* a level that agrees, or reports an edge from the opposite level.        *)
LEMMA FeedCases ==
  ASSUME EdgesTypeOK, NEW v \in Samples, NEW t \in time + 1 .. LastTime, Feed(v, t)
  PROVE  /\ time' = t /\ t \in 1 .. LastTime /\ detector' \in Detector
         /\ \/ /\ edges' = edges
               /\ detector'.level = detector.level \/ detector.level = "START"
            \/ /\ edges' = Append(edges, [kind |-> "rise", at |-> t])
               /\ detector.level = "LOW" /\ detector'.level = "HIGH"
            \/ /\ edges' = Append(edges, [kind |-> "fall", at |-> t])
               /\ detector.level = "HIGH" /\ detector'.level = "LOW"
<1>1. detector \in Detector /\ v \in 0 .. 255 /\ t \in 1 .. LastTime
      /\ edges \in Seq(Edge)
  BY SignalEdgesAssumption DEF EdgesTypeOK, Edge
<1>2. RangeOf(v) \in {"LOW", "MID", "HIGH"}
  <2>1. v < 64 \/ v \in 64 .. 191 \/ v >= 192
    BY <1>1
  <2>2. 64 .. 192 - 1 = 64 .. 191
    OBVIOUS
  <2>3. QED
    BY <2>1, <2>2, <1>1 DEF RangeOf, MidRangeStart, MidRangeEnd
<1> DEFINE up   == Rises(detector, DebounceMs, v, t)
           down == Falls(detector, DebounceMs, v, t)
           none == DebounceActive(detector, DebounceMs, t) \/ RangeOf(v) = "MID"
<1>3. /\ up   => ~none /\ detector.level = "LOW" /\ RangeOf(v) = "HIGH"
      /\ down => ~none /\ detector.level = "HIGH" /\ RangeOf(v) = "LOW"
      /\ ~up /\ ~down /\ ~none => detector.level = RangeOf(v) \/ detector.level = "START"
  BY <1>1, <1>2 DEF Rises, Falls, Detector, Levels
<1>4. detector' = IF none THEN detector
                  ELSE [level |-> RangeOf(v),
                        lastTransition |-> IF up \/ down THEN t
                                           ELSE detector.lastTransition]
  BY DEF Feed, Fed
<1>5. detector' \in Detector /\ (none => detector' = detector)
      /\ (~none => detector'.level = RangeOf(v))
  BY <1>1, <1>2, <1>4 DEF Detector, Levels
<1>6. time' = t
  BY DEF Feed
<1>7. /\ up => edges' = edges \o <<[kind |-> "rise", at |-> t]>>
      /\ ~up /\ down => edges' = edges \o <<[kind |-> "fall", at |-> t]>>
      /\ ~up /\ ~down => edges' = edges \o << >>
  BY DEF Feed
<1>8. \A e \in Edge : edges \o <<e>> = Append(edges, e)
  BY <1>1, AppendIsConcat
<1>9. edges \o << >> = edges
  BY <1>1, ConcatEmptySeq
<1>10. [kind |-> "rise", at |-> t] \in Edge /\ [kind |-> "fall", at |-> t] \in Edge
  BY <1>1 DEF Edge
<1> HIDE DEF up, down, none
<1>11. QED
  BY <1>1, <1>3, <1>5, <1>6, <1>7, <1>8, <1>9, <1>10

(* Rises and falls alternate, and the level of the detector is the one the *)
(* last edge led to.                                                       *)
THEOREM EdgesDoAlternate == EdgesSpec => []EdgesAlternate
<1> DEFINE Inv == EdgesTypeOK /\ EdgesAlternate
<1>1. EdgesInit => Inv
  <2> SUFFICES ASSUME EdgesInit PROVE Inv
    OBVIOUS
  <2>1. << >> \in Seq(Edge) /\ Len(<< >>) = 0
    BY EmptySeq
  <2>2. FreshDetector \in Detector
    BY DEF FreshDetector, Detector, Levels
  <2>3. QED
    BY <2>1, <2>2, SignalEdgesAssumption DEF EdgesInit, EdgesTypeOK, EdgesAlternate, Edge
<1>2. Inv /\ [EdgesNext]_edgeVars => Inv'
  <2> SUFFICES ASSUME Inv, [EdgesNext]_edgeVars PROVE Inv'
    OBVIOUS
  <2>1. CASE \E v \in Samples, t \in time + 1 .. LastTime : Feed(v, t)
    <3>1. PICK v \in Samples, t \in time + 1 .. LastTime : Feed(v, t)
      BY <2>1
    <3> DEFINE e(kind) == [kind |-> kind, at |-> t]
    <3>2. /\ time' = t /\ t \in 1 .. LastTime /\ detector' \in Detector
          /\ \/ /\ edges' = edges
                /\ detector'.level = detector.level \/ detector.level = "START"
             \/ \E kind \in {"rise", "fall"} :
                  /\ edges' = Append(edges, e(kind))
                  /\ detector.level = IF kind = "rise" THEN "LOW" ELSE "HIGH"
                  /\ detector'.level = IF kind = "rise" THEN "HIGH" ELSE "LOW"
      BY <3>1, FeedCases
    <3>3. edges \in Seq(Edge)
      BY DEF EdgesTypeOK, Edge
    <3>4. CASE edges' = edges /\ (detector'.level = detector.level \/ detector.level = "START")
      BY <3>2, <3>3, <3>4 DEF EdgesTypeOK, EdgesAlternate, Edge
    <3>5. CASE \E kind \in {"rise", "fall"} :
                 /\ edges' = Append(edges, e(kind))
                 /\ detector.level = IF kind = "rise" THEN "LOW" ELSE "HIGH"
                 /\ detector'.level = IF kind = "rise" THEN "HIGH" ELSE "LOW"
      <4>1. PICK kind \in {"rise", "fall"} :
                 /\ edges' = Append(edges, e(kind))
                 /\ detector.level = IF kind = "rise" THEN "LOW" ELSE "HIGH"
                 /\ detector'.level = IF kind = "rise" THEN "HIGH" ELSE "LOW"
        BY <3>5
      <4>2. e(kind) \in Edge /\ e(kind).kind = kind
        BY <3>2 DEF Edge
      <4> HIDE DEF e
      <4>3. /\ edges' \in Seq(Edge) /\ Len(edges') = Len(edges) + 1 /\ Len(edges) \in Nat
            /\ edges'[Len(edges) + 1] = e(kind)
            /\ \A i \in 1 .. Len(edges) : edges'[i] = edges[i]
        BY <3>3, <4>1, <4>2, AppendProperties
      <4>4. edges # << >> => edges[Len(edges)].kind # kind
        BY <3>3, <4>1 DEF EdgesAlternate
      <4>5. ASSUME NEW i \in 1 .. Len(edges') - 1
            PROVE  edges'[i].kind # edges'[i + 1].kind
        <5>1. CASE i = Len(edges)
          BY <3>3, <4>2, <4>3, <4>4, <5>1
        <5>2. CASE i # Len(edges)
          BY <4>3, <5>2 DEF EdgesAlternate
        <5>3. QED
          BY <5>1, <5>2
      <4>6. QED
        BY <3>2, <4>1, <4>2, <4>3, <4>5 DEF EdgesTypeOK, EdgesAlternate, Edge
    <3>6. QED
      BY <3>2, <3>4, <3>5
  <2>2. CASE ResetDetector
    <3>1. << >> \in Seq(Edge) /\ Len(<< >>) = 0
      BY EmptySeq
    <3>2. FreshDetector \in Detector
      BY DEF FreshDetector, Detector, Levels
    <3>3. QED
      BY <2>2, <3>1, <3>2 DEF ResetDetector, EdgesTypeOK, EdgesAlternate, Edge
  <2>3. CASE UNCHANGED edgeVars
    BY <2>3 DEF edgeVars, EdgesTypeOK, EdgesAlternate
  <2>4. QED
    BY <2>1, <2>2, <2>3 DEF EdgesNext
<1>3. Inv => EdgesAlternate
  OBVIOUS
<1>4. QED
  BY <1>1, <1>2, <1>3, PTL DEF EdgesSpec

---------------------------------------------------------------------------
(* The conversion of colours.                                              *)

(* A conversion reads what belongs to its method, and nothing else.        *)
LEMMA SameConversion ==
  ASSUME NEW color, NEW cv, NEW other, cv.method = other.method,
         cv.method = "fixed" => cv.fixed_value = other.fixed_value,
         cv.method = "reference" => cv.mul = other.mul /\ cv.div = other.div,
         cv.method \in {"fixed", "min", "reference"}
  PROVE  ToRgbw(color, cv) = ToRgbw(color, other)
<1>1. CASE cv.method = "fixed"
  BY <1>1 DEF ToRgbw
<1>2. CASE cv.method = "min"
  BY <1>2 DEF ToRgbw
<1>3. CASE cv.method = "reference"
  <2>1. WhiteIn(color, cv) = WhiteIn(color, other)
    BY <1>3 DEF WhiteIn
  <2>2. ASSUME NEW white
        PROVE  WithoutWhite(color, white, cv) = WithoutWhite(color, white, other)
    BY <1>3 DEF WithoutWhite
  <2>3. QED
    BY <1>3, <2>1, <2>2 DEF ToRgbw
<1>4. QED
  BY <1>1, <1>2, <1>3

(* A fixed value is what the object is set up for, with the rest of its    *)
(* fields in some state.                                                   *)
LEMMA FixedValueSetsUp ==
  ASSUME NEW cv, DOMAIN cv = DOMAIN Zeroed, NEW v
  PROVE  LET set == UseFixedValue(cv, v)
         IN  DOMAIN set = DOMAIN Zeroed /\ set.method = "fixed" /\ set.fixed_value = v
  BY DEF UseFixedValue, Zeroed

LEMMA MinSetsUp ==
  ASSUME NEW cv, DOMAIN cv = DOMAIN Zeroed
  PROVE  LET set == UseMinSubtraction(cv)
         IN  DOMAIN set = DOMAIN Zeroed /\ set.method = "min"
  BY DEF UseMinSubtraction, Zeroed

(* Setting up a reference colour forgets all that was there.               *)
LEMMA ReferenceSetsUp ==
  ASSUME NEW cv, NEW r
  PROVE  LET set == UseReferenceColor(cv, r)
         IN  DOMAIN set = DOMAIN Zeroed /\ HasMultipliersOf(set, r) /\ set.temperature = 0
  BY DEF UseReferenceColor, Zeroed, HasMultipliersOf

LEMMA TemperatureSetsUp ==
  ASSUME NEW cv, NEW t, DOMAIN cv = DOMAIN Zeroed,
         cv.method = "reference" /\ cv.temperature # 0 =>
           HasMultipliersOf(cv, FromTemperature(cv.temperature))
  PROVE  LET set == UseColorTemperature(cv, t)
         IN  /\ DOMAIN set = DOMAIN Zeroed /\ set.temperature = t
             /\ t # 0 => HasMultipliersOf(set, FromTemperature(t))
<1> DEFINE new == UseReferenceColor(cv, FromTemperature(t))
<1>1. CASE cv.method = "reference" /\ cv.temperature = t
  BY <1>1 DEF UseColorTemperature
<1>2. CASE ~(cv.method = "reference" /\ cv.temperature = t)
  <2>1. UseColorTemperature(cv, t) = [new EXCEPT !.temperature = t]
    BY <1>2 DEF UseColorTemperature
  <2>2. DOMAIN new = DOMAIN Zeroed /\ HasMultipliersOf(new, FromTemperature(t))
    BY ReferenceSetsUp
  <2> HIDE DEF new
  <2>3. QED
    BY <2>1, <2>2 DEF HasMultipliersOf, Zeroed
<1>3. QED
  BY <1>1, <1>2

LEMMA ConversionStarts == ColorsInit => ConversionInv
  BY DEF ColorsInit, ConversionInv, Wishes, Wish, Zeroed, ConvMeans

(* Whatever the object was set up for before, a set-up makes it what was   *)
(* asked for.                                                              *)
LEMMA ConversionStays == ConversionInv /\ [ColorsNext]_colorVars => ConversionInv'
<1> SUFFICES ASSUME ConversionInv, [ColorsNext]_colorVars PROVE ConversionInv'
  OBVIOUS
<1>1. /\ DOMAIN conv = DOMAIN Zeroed
      /\ conv.method = "reference" /\ conv.temperature # 0 =>
           HasMultipliersOf(conv, FromTemperature(conv.temperature))
  BY DEF ConversionInv
<1>2. CASE SetUp(TurnOff(conv), Wish("off", 0))
  BY <1>1, <1>2, FixedValueSetsUp
     DEF TurnOff, SetUp, ConversionInv, Wishes, Wish, ConvMeans
<1>3. ASSUME NEW v \in Whites, SetUp(UseFixedValue(conv, v), Wish("fixed", v))
      PROVE  ConversionInv'
  BY <1>1, <1>3, FixedValueSetsUp DEF SetUp, ConversionInv, Wishes, Wish, ConvMeans
<1>4. CASE SetUp(UseMinSubtraction(conv), Wish("min", 0))
  BY <1>1, <1>4, MinSetsUp DEF SetUp, ConversionInv, Wishes, Wish, ConvMeans
<1>5. ASSUME NEW t \in Temperatures, SetUp(UseColorTemperature(conv, t), Wish("temperature", t))
      PROVE  ConversionInv'
  <2> DEFINE wish == Wish("temperature", t)
  <2>1. /\ DOMAIN conv' = DOMAIN Zeroed /\ conv'.temperature = t
        /\ t # 0 => HasMultipliersOf(conv', FromTemperature(t))
    BY <1>1, <1>5, TemperatureSetsUp DEF SetUp
  <2>2. wanted' = wish /\ wish \in Wishes /\ wish.how = "temperature" /\ wish.arg = t
    BY <1>5 DEF SetUp, Wishes, Wish
  <2> HIDE DEF wish
  <2>3. QED
    BY <2>1, <2>2 DEF ConversionInv, ConvMeans
<1>6. ASSUME NEW r \in Palette, SetUp(UseReferenceColor(conv, r), Wish("reference", r))
      PROVE  ConversionInv'
  <2> DEFINE wish == Wish("reference", r)
  <2>1. /\ DOMAIN conv' = DOMAIN Zeroed /\ conv'.temperature = 0
        /\ HasMultipliersOf(conv', r)
    BY <1>6, ReferenceSetsUp DEF SetUp
  <2>2. wanted' = wish /\ wish \in Wishes /\ wish.how = "reference" /\ wish.arg = r
    BY <1>6 DEF SetUp, Wishes, Wish
  <2> HIDE DEF wish
  <2>3. QED
    BY <2>1, <2>2 DEF ConversionInv, ConvMeans
<1>7. CASE Use \/ UNCHANGED colorVars
  BY <1>7 DEF Use, colorVars, ConversionInv
<1>8. QED
  BY <1>2, <1>3, <1>4, <1>5, <1>6, <1>7 DEF ColorsNext, Configure

(* The invariant is what the property needs: a new object set up as wanted *)
(* has the same method, and the same of what the method reads.             *)
LEMMA ConversionAgrees == ConversionInv => ConvertsAsSetUp
<1> SUFFICES ASSUME ConversionInv, wanted # Wish("temperature", 0), NEW c \in Palette
             PROVE  ToRgbw(c, conv) = ToRgbw(c, Fresh)
  BY DEF ConvertsAsSetUp
<1>1. ConvMeans(conv, wanted) /\ wanted \in Wishes
  BY DEF ConversionInv
<1>2. CASE wanted.how = "off"
  <2>1. Fresh = Zeroed
    BY <1>2 DEF Fresh
  <2>2. QED
    BY <1>1, <1>2, <2>1, SameConversion DEF ConvMeans, Zeroed
<1>3. CASE wanted.how = "fixed"
  <2>1. Fresh = UseFixedValue(Zeroed, wanted.arg)
    BY <1>3 DEF Fresh
  <2>2. Fresh.method = "fixed" /\ Fresh.fixed_value = wanted.arg
    BY <2>1, FixedValueSetsUp
  <2>3. QED
    BY <1>1, <1>3, <2>2, SameConversion DEF ConvMeans
<1>4. CASE wanted.how = "min"
  <2>1. Fresh = UseMinSubtraction(Zeroed)
    BY <1>4 DEF Fresh
  <2>2. Fresh.method = "min"
    BY <2>1, MinSetsUp
  <2>3. QED
    BY <1>1, <1>4, <2>2, SameConversion DEF ConvMeans
<1>5. CASE wanted.how = "reference"
  <2>1. Fresh = UseReferenceColor(Zeroed, wanted.arg)
    BY <1>5 DEF Fresh
  <2>2. HasMultipliersOf(Fresh, wanted.arg) /\ HasMultipliersOf(conv, wanted.arg)
    BY <1>1, <1>5, <2>1, ReferenceSetsUp DEF ConvMeans
  <2>3. QED
    BY <2>2, SameConversion DEF HasMultipliersOf
<1>6. CASE wanted.how = "temperature"
  <2>1. Fresh = UseReferenceColor(Zeroed, FromTemperature(wanted.arg))
    BY <1>6 DEF Fresh
  <2>2. wanted.arg # 0
    BY <1>1, <1>6 DEF Wishes, Wish
  <2>3. /\ HasMultipliersOf(Fresh, FromTemperature(wanted.arg))
        /\ HasMultipliersOf(conv, FromTemperature(wanted.arg))
    BY <1>1, <1>6, <2>1, <2>2, ReferenceSetsUp DEF ConvMeans
  <2>4. QED
    BY <2>3, SameConversion DEF HasMultipliersOf
<1>7. QED
  BY <1>1, <1>2, <1>3, <1>4, <1>5, <1>6 DEF Wishes, Wish

(* Whatever the order of set-ups, and of which kinds, a colour is          *)
(* converted to red, green, blue and white as by a new object that is set  *)
(* up as this one was last.                                                *)
THEOREM ConversionDependsOnLastSetUp == ColorsSpec => []ConvertsAsSetUp
<1>1. QED
  BY ConversionStarts, ConversionStays, ConversionAgrees, PTL DEF ColorsSpec

---------------------------------------------------------------------------
(* Packing.                                                                *)

LEMMA ShortDivision ==
  ASSUME NEW n \in 0 .. 255
  PROVE  /\ n \div 8 \in 0 .. 31 /\ n - (n \div 8) * 8 \in 0 .. 7
         /\ n \div 4 \in 0 .. 63 /\ n - (n \div 4) * 4 \in 0 .. 3
  BY SMT

(* The three fields of sixteen bits do not run into each other.            *)
LEMMA FieldsAreApart ==
  ASSUME NEW r \in 0 .. 31, NEW g \in 0 .. 63, NEW b \in 0 .. 31
  PROVE  /\ (r * 2048 + g * 32 + b) \div 2048 = r
         /\ ((r * 2048 + g * 32 + b) \div 32) % 64 = g
         /\ (r * 2048 + g * 32 + b) % 32 = b
<1>1. (r * 2048 + g * 32 + b) \div 2048 = r
  BY SMT
<1>2. (r * 2048 + g * 32 + b) \div 32 = r * 64 + g
  BY SMT
<1>3. (r * 64 + g) % 64 = g
  BY SMT
<1>4. (r * 2048 + g * 32 + b) % 32 = b
  BY SMT
<1>5. QED
  BY <1>1, <1>2, <1>3, <1>4

LEMMA MultiplesDivide ==
  ASSUME NEW n \in Nat
  PROVE  (n * 8) \div 8 = n /\ (n * 4) \div 4 = n
  BY SMT

(* sb_rgb_color_encode_rgb565() and its inverse: a colour that is packed   *)
(* and unpacked is the colour within the bits that are cut off, and packs  *)
(* to the same sixteen bits again, for every colour.                       *)
THEOREM PackedColorsComeBack ==
  ASSUME NEW color \in Color
  PROVE  LET back == DecodeRgb565(EncodeRgb565(color))
         IN  /\ back \in Color /\ AlmostEquals(color, back, 7)
             /\ EncodeRgb565(back) = EncodeRgb565(color)
<1> DEFINE r == color.red \div 8
           g == color.green \div 4
           b == color.blue \div 8
           back == DecodeRgb565(EncodeRgb565(color))
<1>1. color.red \in 0 .. 255 /\ color.green \in 0 .. 255 /\ color.blue \in 0 .. 255
  BY DEF Color, Channel
<1>2. /\ r \in 0 .. 31 /\ color.red - r * 8 \in 0 .. 7
      /\ g \in 0 .. 63 /\ color.green - g * 4 \in 0 .. 3
      /\ b \in 0 .. 31 /\ color.blue - b * 8 \in 0 .. 7
  BY <1>1, ShortDivision
<1>3. EncodeRgb565(color) = r * 2048 + g * 32 + b
  BY DEF EncodeRgb565
<1> HIDE DEF r, g, b
<1>4. back = [red |-> r * 8, green |-> g * 4, blue |-> b * 8]
  <2> DEFINE packed == r * 2048 + g * 32 + b
  <2>1. packed \div 2048 = r /\ (packed \div 32) % 64 = g /\ packed % 32 = b
    <3>1. r \in 0 .. 31 /\ g \in 0 .. 63 /\ b \in 0 .. 31
      BY <1>2
    <3>2. /\ (r * 2048 + g * 32 + b) \div 2048 = r
          /\ ((r * 2048 + g * 32 + b) \div 32) % 64 = g
          /\ (r * 2048 + g * 32 + b) % 32 = b
      BY ONLY <3>1, FieldsAreApart
    <3>3. QED
      BY <3>2
  <2>2. EncodeRgb565(color) = packed
    BY <1>3
  <2> HIDE DEF packed
  <2>3. QED
    BY <2>1, <2>2 DEF DecodeRgb565
<1>5. back.red = r * 8 /\ back.green = g * 4 /\ back.blue = b * 8
      /\ back = [c \in Channel |-> back[c]]
  BY <1>4 DEF Channel
<1>6. EncodeRgb565(back) = EncodeRgb565(color)
  BY <1>2, <1>3, <1>5, MultiplesDivide DEF EncodeRgb565
<1>7. back \in Color
  BY <1>2, <1>5 DEF Color, Channel
<1>8. AlmostEquals(color, back, 7)
  <2>1. /\ color.red - back.red <= 7 /\ back.red - color.red <= 7
        /\ color.green - back.green <= 7 /\ back.green - color.green <= 7
        /\ color.blue - back.blue <= 7 /\ back.blue - color.blue <= 7
    <3>1. \A n \in 0 .. 255, m \in Int :
            n - m \in 0 .. 7 \/ n - m \in 0 .. 3 => n - m <= 7 /\ m - n <= 7
      OBVIOUS
    <3>2. /\ r * 8 \in Int /\ g * 4 \in Int /\ b * 8 \in Int
      BY <1>2
    <3>3. QED
      BY <1>1, <1>2, <1>5, <3>1, <3>2, Zenon
  <2>2. QED
    BY <2>1 DEF AlmostEquals, Channel
<1>9. QED
  BY <1>6, <1>7, <1>8

---------------------------------------------------------------------------
(* The cursor on the segments of a trajectory or of yaw control.           *)

(* Induction over a set of numbers.                                        *)
LEMMA CountingInduction ==
  ASSUME NEW S, 0 \in S, \A n \in Nat : n \in S => n + 1 \in S
  PROVE  \A n \in Nat : n \in S
<1> DEFINE R == OpToRel(<, Nat)
           T == Nat \ S
<1>1. IsWellFoundedOn(R, Nat)
  BY NatLessThanWellFounded, Zenon
<1>2. SUFFICES ASSUME T # {} PROVE FALSE
  OBVIOUS
<1>3. \A x, y \in Nat : <<x, y>> \in R <=> x < y
  BY DEF OpToRel
<1>4. T \subseteq Nat
  OBVIOUS
<1> HIDE DEF R, T
<1>5. PICK x \in T : \A y \in T : <<y, x>> \notin R
  BY <1>1, <1>2, <1>4, WFMin
<1>6. x \in Nat /\ x # 0 /\ x \notin S
  BY <1>4 DEF T
<1>7. x - 1 \in Nat /\ <<x - 1, x>> \in R
  BY <1>3, <1>6
<1>8. x - 1 \in S
  BY <1>5, <1>7 DEF T
<1>9. QED
  BY <1>6, <1>7, <1>8

(* The first number of a set.                                              *)
LEMMA FirstNumber ==
  ASSUME NEW S, NEW n \in Nat, n \in S
  PROVE  \E k \in 0 .. n : k \in S /\ \A m \in 0 .. k - 1 : m \notin S
<1> DEFINE P == {k \in Nat : \A m \in 0 .. k : m \notin S}
<1>1. SUFFICES ASSUME ~(\E k \in 0 .. n : k \in S /\ \A m \in 0 .. k - 1 : m \notin S)
               PROVE  FALSE
  OBVIOUS
<1>2. n \notin P
  OBVIOUS
<1> DEFINE Q == {k \in Nat : k <= n => k \in P}
<1>3. 0 \in Q
  BY <1>1
<1>4. ASSUME NEW k \in Nat, k \in Q PROVE k + 1 \in Q
  <2>1. SUFFICES ASSUME k + 1 <= n PROVE k + 1 \in P
    OBVIOUS
  <2>2. \A m \in 0 .. k : m \notin S
    BY <1>4, <2>1
  <2>3. k + 1 \in 0 .. n /\ (k + 1) - 1 = k
    BY <2>1
  <2>4. k + 1 \notin S
    BY <1>1, <2>2, <2>3
  <2>5. \A m \in 0 .. k + 1 : m \in 0 .. k \/ m = k + 1
    OBVIOUS
  <2>6. QED
    BY <2>2, <2>4, <2>5
<1> HIDE DEF Q
<1>5. n \in Q
  BY <1>3, <1>4, CountingInduction
<1>6. QED
  BY <1>2, <1>5 DEF Q

(* What does not fall from one number to the next does not fall at all.    *)
LEMMA NeverFalls ==
  ASSUME NEW N \in Nat, NEW f, \A n \in 0 .. N : f[n] \in Nat,
         \A n \in 0 .. N - 1 : f[n] <= f[n + 1]
  PROVE  \A n \in 0 .. N : f[n] <= f[N]
<1> DEFINE S == {k \in Nat : \A n \in 0 .. N : n + k = N => f[n] <= f[N]}
<1>1. 0 \in S
  OBVIOUS
<1>2. ASSUME NEW k \in Nat, k \in S PROVE k + 1 \in S
  <2>1. SUFFICES ASSUME NEW n \in 0 .. N, n + (k + 1) = N PROVE f[n] <= f[N]
    OBVIOUS
  <2>2. n \in 0 .. N - 1 /\ n + 1 \in 0 .. N /\ (n + 1) + k = N /\ N \in 0 .. N
    BY <2>1
  <2>3. f[n] <= f[n + 1] /\ f[n + 1] <= f[N]
    BY <1>2, <2>2
  <2>4. f[n] \in Nat /\ f[n + 1] \in Nat /\ f[N] \in Nat
    BY <2>2
  <2>5. QED
    BY <2>3, <2>4
<1> HIDE DEF S
<1>3. \A k \in Nat : k \in S
  BY <1>1, <1>2, CountingInduction
<1>4. ASSUME NEW n \in 0 .. N PROVE f[n] <= f[N]
  <2>1. N - n \in Nat /\ n + (N - n) = N
    OBVIOUS
  <2>2. QED
    BY <1>3, <2>1 DEF S
<1>5. QED
  BY <1>4

---------------------------------------------------------------------------
(* What the recursive definition of a walk computes.                       *)
WalkStep(s, w) == IF AtEnd(s, w) THEN w ELSE After(s, w)

LEMMA PlacesAre ==
  ASSUME NEW s, Len(s.bytes) \in Nat
  PROVE  /\ Places(s)[0] = Begin(s)
         /\ \A i \in 1 .. Len(s.bytes) : Places(s)[i] = WalkStep(s, Places(s)[i - 1])
<1> DEFINE n == Len(s.bytes)
           Is(f) == f = [i \in 0 .. n |-> f[i]]
           UpTo(f, k) == f[0] = Begin(s) /\ \A i \in 1 .. n : i <= k => f[i] = WalkStep(s, f[i - 1])
           S == {k \in Nat : \E f : Is(f) /\ UpTo(f, k)}
<1>0. n \in Nat
  OBVIOUS
<1> HIDE DEF n
<1>1. 0 \in S
  <2> DEFINE g == [i \in 0 .. n |-> Begin(s)]
  <2>1. Is(g) /\ UpTo(g, 0)
    BY <1>0
  <2> HIDE DEF g, UpTo, Is
  <2>2. QED
    BY <2>1
<1>2. ASSUME NEW k \in Nat, k \in S PROVE k + 1 \in S
  <2>1. PICK f : Is(f) /\ UpTo(f, k)
    BY <1>2
  <2> DEFINE g == [i \in 0 .. n |-> IF i = k + 1 THEN WalkStep(s, f[k]) ELSE f[i]]
  <2>2. Is(g)
    OBVIOUS
  <2>3. g[0] = Begin(s)
    BY <1>0, <2>1
  <2>4. ASSUME NEW i \in 1 .. n, i <= k + 1 PROVE g[i] = WalkStep(s, g[i - 1])
    <3>1. i - 1 \in 0 .. n /\ i \in 0 .. n /\ i - 1 # k + 1
      BY <1>0, <2>4
    <3>2. g[i - 1] = f[i - 1]
      BY <3>1
    <3>3. CASE i = k + 1
      <4>1. g[i] = WalkStep(s, f[k]) /\ i - 1 = k
        BY <3>1, <3>3
      <4>2. QED
        BY <3>2, <4>1
    <3>4. CASE i # k + 1
      <4>1. i <= k
        BY <1>0, <2>4, <3>4
      <4>2. g[i] = f[i] /\ f[i] = WalkStep(s, f[i - 1])
        BY <2>1, <3>1, <3>4, <4>1
      <4>3. QED
        BY <3>2, <4>2
    <3>5. QED
      BY <3>3, <3>4
  <2> HIDE DEF g
  <2>5. UpTo(g, k + 1)
    BY <2>3, <2>4
  <2> HIDE DEF UpTo, Is
  <2>6. QED
    BY <2>2, <2>5
<1> HIDE DEF S
<1>3. n \in S
  BY <1>0, <1>1, <1>2, CountingInduction
<1>4. PICK f : Is(f) /\ UpTo(f, n)
  BY <1>3 DEF S
<1>5. f = [i \in 0 .. n |-> IF i = 0 THEN Begin(s)
                            ELSE IF AtEnd(s, f[i - 1]) THEN f[i - 1] ELSE After(s, f[i - 1])]
  <2>1. \A i \in 0 .. n : f[i] = IF i = 0 THEN Begin(s)
                            ELSE IF AtEnd(s, f[i - 1]) THEN f[i - 1] ELSE After(s, f[i - 1])
    BY <1>0, <1>4 DEF WalkStep
  <2>2. QED
    BY <1>4, <2>1
<1> DEFINE p == Places(s)
<1>6. p = [i \in 0 .. n |-> IF i = 0 THEN Begin(s)
                            ELSE IF AtEnd(s, p[i - 1]) THEN p[i - 1] ELSE After(s, p[i - 1])]
  BY <1>5 DEF Places, n
<1> HIDE DEF p, Is, UpTo
<1>7. p[0] = Begin(s) /\ \A i \in 1 .. n : p[i] = WalkStep(s, p[i - 1])
  BY <1>0, <1>6 DEF WalkStep
<1>8. QED
  BY <1>7 DEF p, n

(* The parts of a show: their lengths, durations and first points.         *)
LEMMA AddedType == ASSUME NEW code \in Int PROVE Added(code) \in Nat
<1>1. (code % 4) + 1 \in 1 .. 4
  OBVIOUS
<1> DEFINE i == (code % 4) + 1
<1> HIDE DEF i
<1>2. ASSUME i \in 1 .. 4 PROVE PointsAdded[i] \in Nat
  <2>1. i = 1 \/ i = 2 \/ i = 3 \/ i = 4
    BY <1>2
  <2>2. QED
    BY <2>1 DEF PointsAdded
<1>3. QED
  BY <1>1, <1>2 DEF Added, i

LEMMA PointsType ==
  ASSUME NEW header \in 0 .. 255
  PROVE  \A i \in 1 .. 4 : PointsOf(header)[i] \in Nat
<1>1. header \in Int /\ header \div 4 \in Int /\ header \div 16 \in Int /\ header \div 64 \in Int
  OBVIOUS
<1>2. /\ Added(header) \in Nat /\ Added(header \div 4) \in Nat
      /\ Added(header \div 16) \in Nat /\ Added(header \div 64) \in Nat
  BY <1>1, AddedType
<1>3. QED
  BY <1>2 DEF PointsOf

LEMMA CurveAtFirst ==
  ASSUME NEW a, NEW n \in Nat, NEW f
  PROVE  (<<a>> \o [k \in 1 .. n |-> f[k]])[1] = a
<1> DEFINE T == {a} \cup {f[k] : k \in 1 .. n}
           t == [k \in 1 .. n |-> f[k]]
<1>1. <<a>> \in Seq(T) /\ Len(<<a>>) = 1 /\ <<a>>[1] = a
  OBVIOUS
<1>2. t \in Seq(T)
  OBVIOUS
<1> HIDE DEF t, T
<1>3. Len(t) \in Nat
  BY <1>2
<1>4. (<<a>> \o t)[1] = <<a>>[1]
  BY <1>1, <1>2, <1>3
<1>5. QED
  BY <1>1, <1>4 DEF t

LEMMA ByteTypes ==
  ASSUME NEW bytes \in Seq(0 .. 255)
  PROVE  Len(bytes) \in Nat /\ \A i \in 1 .. Len(bytes) : bytes[i] \in 0 .. 255
<1> DEFINE S == 0 .. 255
<1>1. bytes \in Seq(S)
  OBVIOUS
<1> HIDE DEF S
<1>2. Len(bytes) \in Nat /\ \A i \in 1 .. Len(bytes) : bytes[i] \in S
  BY <1>1
<1>3. QED
  BY <1>2 DEF S

LEMMA WordType ==
  ASSUME NEW low \in 0 .. 255, NEW high \in 0 .. 255
  PROVE  low + 256 * high \in Nat
  OBVIOUS

LEMMA LengthType ==
  ASSUME NEW a \in Nat, NEW b \in Nat, NEW c \in Nat, NEW d \in Nat
  PROVE  3 + 2 * (a + b + c + d) \in Nat \ (0 .. 2)
  OBVIOUS

LEMMA SegmentLengths ==
  ASSUME NEW bytes \in Seq(0 .. 255), NEW o \in Nat, o < Len(bytes), NEW start
  PROVE  /\ SegmentAt(bytes, o, start).length \in Nat \ (0 .. 2)
         /\ o + 3 <= Len(bytes) => SegmentAt(bytes, o, start).duration \in Nat
<1>1. bytes[o + 1] \in 0 .. 255
  BY ByteTypes
<1> DEFINE p == PointsOf(bytes[o + 1])
<1>2. \A i \in 1 .. 4 : p[i] \in Nat
  BY <1>1, PointsType
<1>3. SegmentAt(bytes, o, start).length = 3 + 2 * (p[1] + p[2] + p[3] + p[4])
  BY DEF SegmentAt
<1>4. SegmentAt(bytes, o, start).duration = bytes[o + 2] + 256 * bytes[o + 3]
  <2>1. SegmentAt(bytes, o, start).duration = Uint16At(bytes, o + 1)
    BY DEF SegmentAt
  <2>2. (o + 1) + 1 = o + 2 /\ (o + 1) + 2 = o + 3
    OBVIOUS
  <2>3. QED
    BY <2>1, <2>2 DEF Uint16At
<1>5. ASSUME o + 3 <= Len(bytes) PROVE SegmentAt(bytes, o, start).duration \in Nat
  <2>1. bytes[o + 2] \in 0 .. 255 /\ bytes[o + 3] \in 0 .. 255
    BY <1>5, ByteTypes
  <2>2. bytes[o + 2] + 256 * bytes[o + 3] \in Nat
    BY <2>1, WordType
  <2>3. QED
    BY <1>4, <2>2
<1> HIDE DEF p
<1>6. p[1] \in Nat /\ p[2] \in Nat /\ p[3] \in Nat /\ p[4] \in Nat
  BY <1>2
<1>7. 3 + 2 * (p[1] + p[2] + p[3] + p[4]) \in Nat \ (0 .. 2)
  BY <1>6, LengthType
<1>8. QED
  BY <1>3, <1>5, <1>7

LEMMA SegmentBegins ==
  ASSUME NEW bytes \in Seq(0 .. 255), NEW o \in Nat, o < Len(bytes), NEW start
  PROVE  \A axis \in DOMAIN SegmentAt(bytes, o, start).curve :
           SegmentAt(bytes, o, start).curve[axis][1] = start[axis]
<1>1. bytes[o + 1] \in 0 .. 255
  BY ByteTypes
<1> DEFINE p == PointsOf(bytes[o + 1])
           before == <<0, p[1], p[1] + p[2], p[1] + p[2] + p[3], p[1] + p[2] + p[3] + p[4]>>
           f == [i \in 1 .. 4 |-> [k \in 1 .. p[i] |->
                   ParsePoint(bytes, o + 3 + 2 * (before[i] + k - 1), AxisNames[i])]]
           C(i) == <<start[AxisNames[i]]>> \o [k \in 1 .. p[i] |->
                     ParsePoint(bytes, o + 3 + 2 * (before[i] + k - 1), AxisNames[i])]
           curve == SegmentAt(bytes, o, start).curve
<1>2. \A i \in 1 .. 4 : p[i] \in Nat
  BY <1>1, PointsType
<1>3. curve = [x |-> C(1), y |-> C(2), z |-> C(3), yaw |-> C(4)]
  BY DEF SegmentAt
<1>4. ASSUME NEW i \in 1 .. 4 PROVE C(i)[1] = start[AxisNames[i]]
  <2> DEFINE g == [k \in 1 .. p[i] |->
                     ParsePoint(bytes, o + 3 + 2 * (before[i] + k - 1), AxisNames[i])]
             a == start[AxisNames[i]]
  <2>1. C(i) = <<a>> \o g /\ p[i] \in Nat /\ g = [k \in 1 .. p[i] |-> g[k]]
    BY <1>2
  <2> HIDE DEF g, p, C
  <2>2. (<<a>> \o [k \in 1 .. p[i] |-> g[k]])[1] = a
    BY <2>1, CurveAtFirst
  <2>3. QED
    BY <2>1, <2>2
<1> HIDE DEF C, curve
<1>5. /\ DOMAIN curve = {"x", "y", "z", "yaw"}
      /\ curve["x"] = C(1) /\ curve["y"] = C(2) /\ curve["z"] = C(3) /\ curve["yaw"] = C(4)
  BY <1>3
<1>6. AxisNames[1] = "x" /\ AxisNames[2] = "y" /\ AxisNames[3] = "z" /\ AxisNames[4] = "yaw"
  BY DEF AxisNames
<1>7. C(1)[1] = start["x"] /\ C(2)[1] = start["y"] /\ C(3)[1] = start["z"] /\ C(4)[1] = start["yaw"]
  BY <1>4, <1>6
<1>8. QED
  BY <1>5, <1>7 DEF curve

LEMMA SetpointIs ==
  ASSUME NEW bytes \in Seq(0 .. 255), NEW o \in Nat, NEW start
  PROVE  /\ SetpointAt(bytes, o, start).length = 4
         /\ o + 4 <= Len(bytes) => SetpointAt(bytes, o, start).duration \in Nat
         /\ \A axis \in DOMAIN SetpointAt(bytes, o, start).curve :
              SetpointAt(bytes, o, start).curve[axis][1] = start[axis]
<1>1. SetpointAt(bytes, o, start).length = 4
  BY DEF SetpointAt, SizeOfDelta
<1>2. ASSUME o + 4 <= Len(bytes) PROVE SetpointAt(bytes, o, start).duration \in Nat
  <2>1. bytes[o + 1] \in 0 .. 255 /\ bytes[o + 2] \in 0 .. 255
    BY <1>2, ByteTypes
  <2>2. SetpointAt(bytes, o, start).duration = bytes[o + 1] + 256 * bytes[o + 2]
    BY DEF SetpointAt
  <2>3. bytes[o + 1] + 256 * bytes[o + 2] \in Nat
    BY <2>1, WordType
  <2>4. QED
    BY <2>2, <2>3
<1>3. \A axis \in DOMAIN SetpointAt(bytes, o, start).curve :
        SetpointAt(bytes, o, start).curve[axis][1] = start[axis]
  BY DEF SetpointAt
<1>4. QED
  BY <1>1, <1>2, <1>3

LEMMA PartIs ==
  ASSUME NEW s \in Shows, NEW o \in Nat, o < Len(s.bytes), NEW start
  PROVE  /\ PartAt(s, o, start).length \in Nat \ {0}
         /\ o + PartAt(s, o, start).length <= Len(s.bytes) => PartAt(s, o, start).duration \in Nat
         /\ \A axis \in DOMAIN PartAt(s, o, start).curve :
              PartAt(s, o, start).curve[axis][1] = start[axis]
<1>1. s.bytes \in Seq(0 .. 255) /\ Len(s.bytes) \in Nat
  BY ShowsAssumption
<1>2. CASE s.kind = "trajectory"
  <2> DEFINE part == SegmentAt(s.bytes, o, start)
  <2>1. PartAt(s, o, start) = part
    BY <1>2 DEF PartAt
  <2>2. /\ part.length \in Nat \ (0 .. 2)
        /\ o + 3 <= Len(s.bytes) => part.duration \in Nat
        /\ \A axis \in DOMAIN part.curve : part.curve[axis][1] = start[axis]
    BY <1>1, SegmentLengths, SegmentBegins
  <2> HIDE DEF part
  <2>3. part.length \in Nat \ {0} /\ (o + part.length <= Len(s.bytes) => o + 3 <= Len(s.bytes))
    BY <1>1, <2>2
  <2>4. QED
    BY <2>1, <2>2, <2>3
<1>3. CASE s.kind # "trajectory"
  <2> DEFINE part == SetpointAt(s.bytes, o, start)
  <2>1. PartAt(s, o, start) = part
    BY <1>3 DEF PartAt
  <2>2. /\ part.length = 4
        /\ o + 4 <= Len(s.bytes) => part.duration \in Nat
        /\ \A axis \in DOMAIN part.curve : part.curve[axis][1] = start[axis]
    BY <1>1, SetpointIs
  <2> HIDE DEF part
  <2>3. QED
    BY <2>1, <2>2
<1>4. QED
  BY <1>2, <1>3

(* The walk through a show: it gets to the end, and what it adds up.       *)
LEMMA OffsetsGrow ==
  ASSUME NEW s \in Shows, NEW n \in 0 .. Len(s.bytes)
  PROVE  Places(s)[n].offset \in Nat /\ (AtEnd(s, Places(s)[n]) \/ Places(s)[n].offset >= n)
<1> DEFINE p == Places(s)
           L == Len(s.bytes)
           Good(k) == p[k].offset \in Nat /\ (AtEnd(s, p[k]) \/ p[k].offset >= k)
           S == {k \in Nat : k <= L => Good(k)}
<1>0. L \in Nat /\ s.bytes \in Seq(0 .. 255)
  BY ShowsAssumption
<1>1. p[0] = Begin(s) /\ \A i \in 1 .. L : p[i] = WalkStep(s, p[i - 1])
  BY <1>0, PlacesAre
<1> HIDE DEF p, L
<1>2. 0 \in S
  <2>1. Begin(s).offset \in Nat
    BY DEF Begin, HeaderSize, YawHeaderLength
  <2>2. QED
    BY <1>1, <2>1
<1>3. ASSUME NEW k \in Nat, k \in S PROVE k + 1 \in S
  <2>1. SUFFICES ASSUME k + 1 <= L PROVE Good(k + 1)
    OBVIOUS
  <2>2. k + 1 \in 1 .. L /\ (k + 1) - 1 = k /\ k <= L
    BY <1>0, <2>1
  <2>3. Good(k) /\ p[k + 1] = WalkStep(s, p[k])
    BY <1>1, <1>3, <2>2
  <2>4. CASE AtEnd(s, p[k])
    <3>1. p[k + 1] = p[k]
      BY <2>3, <2>4 DEF WalkStep
    <3>2. QED
      BY <2>3, <2>4, <3>1
  <2>5. CASE ~AtEnd(s, p[k])
    <3>1. p[k].offset \in Nat /\ p[k].offset < L /\ p[k].offset >= k
      BY <1>0, <2>3, <2>5 DEF AtEnd, L
    <3> DEFINE o == p[k].offset
               l == PartAt(s, p[k].offset, p[k].start).length
    <3>2. l \in Nat \ {0}
      BY <3>1, PartIs DEF L
    <3>3. p[k + 1].offset = o + l
      BY <2>3, <2>5 DEF WalkStep, After
    <3> HIDE DEF l, o
    <3>4. o + l \in Nat /\ o + l >= k + 1
      BY <3>1, <3>2 DEF o
    <3>5. QED
      BY <3>3, <3>4
  <2>6. QED
    BY <2>4, <2>5
<1> HIDE DEF S
<1>4. n \in S
  BY <1>0, <1>2, <1>3, CountingInduction DEF L
<1>5. QED
  BY <1>0, <1>4 DEF S, p, L

(* The last place of a walk.                                               *)
Last(s) == Parts(s, Places(s))

LEMMA LastIs ==
  ASSUME NEW s \in Shows
  PROVE  /\ Last(s) \in 0 .. Len(s.bytes)
         /\ AtEnd(s, Places(s)[Last(s)])
         /\ \A n \in 0 .. Last(s) - 1 :
              ~AtEnd(s, Places(s)[n]) /\ Places(s)[n + 1] = After(s, Places(s)[n])
         /\ Places(s)[0] = Begin(s)
<1> DEFINE p == Places(s)
           L == Len(s.bytes)
           S == {n \in 0 .. L : AtEnd(s, p[n])}
           Is(n) == AtEnd(s, p[n]) /\ \A m \in 0 .. n - 1 : ~AtEnd(s, p[m])
<1>0. L \in Nat
  BY ShowsAssumption
<1>1. p[0] = Begin(s) /\ \A i \in 1 .. L : p[i] = WalkStep(s, p[i - 1])
  BY <1>0, PlacesAre
<1>2. p[L].offset \in Nat /\ (AtEnd(s, p[L]) \/ p[L].offset >= L)
  BY <1>0, OffsetsGrow
<1>3. AtEnd(s, p[L])
  BY <1>2 DEF AtEnd
<1> HIDE DEF p, L
<1>4. L \in S
  BY <1>0, <1>3
<1>5. PICK k \in 0 .. L : k \in S /\ \A m \in 0 .. k - 1 : m \notin S
  <2> HIDE DEF S
  <2>1. QED
    BY <1>0, <1>4, FirstNumber
<1>6. Is(k)
  BY <1>0, <1>5
<1>7. Last(s) = CHOOSE n \in 0 .. L : Is(n)
  BY DEF Last, Parts, p, L
<1> HIDE DEF Is
<1>8. Last(s) \in 0 .. L /\ Is(Last(s))
  BY <1>6, <1>7
<1>9. ASSUME NEW n \in 0 .. Last(s) - 1 PROVE ~AtEnd(s, p[n]) /\ p[n + 1] = After(s, p[n])
  <2>1. n + 1 \in 1 .. L /\ (n + 1) - 1 = n
    BY <1>0, <1>8
  <2>2. ~AtEnd(s, p[n])
    BY <1>8 DEF Is
  <2>3. p[n + 1] = WalkStep(s, p[n])
    BY <1>1, <2>1
  <2>4. QED
    BY <2>2, <2>3 DEF WalkStep
<1>10. AtEnd(s, p[Last(s)])
  BY <1>8 DEF Is
<1>11. QED
  BY <1>1, <1>8, <1>9, <1>10 DEF p, L

LEMMA WalkIs ==
  ASSUME NEW s \in Shows
  PROVE  /\ \A n \in 0 .. Last(s) - 1 :
              LET w == Places(s)[n]
                  part == PartAt(s, w.offset, w.start)
              IN  w.offset \in Nat /\ w.offset < Len(s.bytes) /\ ~HasNoParts(s)
                  /\ part.length \in Nat \ {0} /\ part.duration \in Nat
         /\ \A n \in 0 .. Last(s) :
              /\ Places(s)[n].offset \in Nat
              /\ Places(s)[n].time \in Nat /\ Places(s)[n].time <= Places(s)[Last(s)].time
<1> DEFINE p == Places(s)
           L == Len(s.bytes)
           N == Last(s)
           Length(n) == PartAt(s, p[n].offset, p[n].start).length
           Duration(n) == PartAt(s, p[n].offset, p[n].start).duration
<1>0. L \in Nat /\ N \in 0 .. L
  BY ShowsAssumption, LastIs
<1>1. p[0] = Begin(s) /\ \A n \in 0 .. N - 1 : ~AtEnd(s, p[n]) /\ p[n + 1] = After(s, p[n])
  BY LastIs
<1>2. \A n \in 0 .. N : p[n].offset \in Nat
  BY <1>0, OffsetsGrow
<1>3. p[N].offset <= L
  BY ShowsAssumption DEF IsWhole, Last
<1> HIDE DEF p, L, N
<1>4. ASSUME NEW n \in 0 .. N - 1
      PROVE  /\ p[n].offset < L /\ ~HasNoParts(s) /\ Length(n) \in Nat \ {0}
             /\ p[n + 1].offset = p[n].offset + Length(n)
             /\ p[n + 1].time = p[n].time + Duration(n)
             /\ p[n].offset + Length(n) <= L => Duration(n) \in Nat
  <2>1. p[n].offset \in Nat /\ p[n].offset < L /\ ~HasNoParts(s)
    BY <1>0, <1>1, <1>2 DEF AtEnd, L
  <2>2. Length(n) \in Nat \ {0} /\ (p[n].offset + Length(n) <= L => Duration(n) \in Nat)
    BY <2>1, PartIs DEF L
  <2>3. p[n + 1] = After(s, p[n])
    BY <1>1
  <2>4. /\ p[n + 1].offset = p[n].offset + Length(n)
        /\ p[n + 1].time = p[n].time + Duration(n)
    BY <2>3 DEF After
  <2>5. QED
    BY <2>1, <2>2, <2>4
<1> HIDE DEF Length, Duration
<1>5. \A n \in 0 .. N : p[n].offset <= p[N].offset
  <2> DEFINE f == [n \in 0 .. N |-> p[n].offset]
  <2>1. \A n \in 0 .. N : f[n] \in Nat
    BY <1>2
  <2>2. ASSUME NEW n \in 0 .. N - 1 PROVE f[n] <= f[n + 1]
    <3>1. n \in 0 .. N /\ n + 1 \in 0 .. N
      BY <1>0
    <3>2. p[n + 1].offset = p[n].offset + Length(n) /\ Length(n) \in Nat /\ p[n].offset \in Nat
      BY <1>2, <1>4, <3>1
    <3>3. QED
      BY <3>1, <3>2
  <2>3. N \in Nat /\ N \in 0 .. N
    BY <1>0
  <2>4. f[N] = p[N].offset /\ \A n \in 0 .. N : f[n] = p[n].offset
    BY <2>3
  <2> HIDE DEF f
  <2>5. \A n \in 0 .. N : f[n] <= f[N]
    BY <2>1, <2>2, <2>3, NeverFalls
  <2>6. QED
    BY <2>4, <2>5
<1>6. ASSUME NEW n \in 0 .. N - 1 PROVE Duration(n) \in Nat
  <2>1. n + 1 \in 0 .. N /\ N \in 0 .. N
    BY <1>0
  <2>2. p[n + 1].offset \in Nat /\ p[N].offset \in Nat /\ p[n + 1].offset <= p[N].offset
    BY <1>2, <1>5, <2>1
  <2>3. p[n + 1].offset <= L
    BY <1>0, <1>3, <2>2
  <2>4. QED
    BY <1>4, <2>3
<1>7. \A n \in 0 .. N : p[n].time \in Nat
  <2> DEFINE S == {n \in Nat : n <= N => p[n].time \in Nat}
  <2>1. 0 \in S
    <3>1. Begin(s).time \in Nat
      BY DEF Begin
    <3>2. QED
      BY <1>1, <3>1
  <2>2. ASSUME NEW n \in Nat, n \in S PROVE n + 1 \in S
    <3>1. SUFFICES ASSUME n + 1 <= N PROVE p[n + 1].time \in Nat
      OBVIOUS
    <3>2. n \in 0 .. N - 1 /\ p[n].time \in Nat
      BY <1>0, <2>2, <3>1
    <3>3. p[n + 1].time = p[n].time + Duration(n) /\ Duration(n) \in Nat
      BY <1>4, <1>6, <3>2
    <3>4. QED
      BY <3>2, <3>3
  <2> HIDE DEF S
  <2>3. \A n \in Nat : n \in S
    BY <2>1, <2>2, CountingInduction
  <2>4. QED
    BY <1>0, <2>3 DEF S
<1>8. \A n \in 0 .. N : p[n].time <= p[N].time
  <2> DEFINE f == [n \in 0 .. N |-> p[n].time]
  <2>1. \A n \in 0 .. N : f[n] \in Nat
    BY <1>7
  <2>2. ASSUME NEW n \in 0 .. N - 1 PROVE f[n] <= f[n + 1]
    <3>1. n \in 0 .. N /\ n + 1 \in 0 .. N
      BY <1>0
    <3>2. p[n + 1].time = p[n].time + Duration(n) /\ Duration(n) \in Nat /\ p[n].time \in Nat
      BY <1>4, <1>6, <1>7, <3>1
    <3>3. QED
      BY <3>1, <3>2
  <2>3. N \in Nat /\ N \in 0 .. N
    BY <1>0
  <2>4. f[N] = p[N].time /\ \A n \in 0 .. N : f[n] = p[n].time
    BY <2>3
  <2> HIDE DEF f
  <2>5. \A n \in 0 .. N : f[n] <= f[N]
    BY <2>1, <2>2, <2>3, NeverFalls
  <2>6. QED
    BY <2>4, <2>5
<1>9. \A n \in 0 .. N - 1 : n \in 0 .. N
  BY <1>0
<1>10. QED
  BY <1>2, <1>4, <1>6, <1>7, <1>8, <1>9 DEF p, L, N, Length, Duration

(* The segments the player builds.                                         *)
StandsAt(seg, n) == IsAt(seg, Places(show), n, Last(show))

LEMMA BuildsTail ==
  ASSUME show \in Shows, NEW n, n = Last(show), NEW since \in 0 .. TimeLimit,
         Places(show)[n].time <= TimeLimit => since = Places(show)[n].time
  PROVE  StandsAt(BuildTail(Places(show)[n].offset, since, Places(show)[n].start), n)
  BY DEF StandsAt, IsAt, OnTail, BuildTail

LEMMA RestType ==
  ASSUME NEW a \in Nat, NEW b \in Nat
  PROVE  (a + b) % (TimeLimit + 1) \in 0 .. TimeLimit
<1>1. TimeLimit + 1 \in Nat \ {0} /\ a + b \in Int
  BY CursorAssumption
<1> DEFINE m == TimeLimit + 1
           c == a + b
<1> HIDE DEF m, c
<1>2. m \in Nat /\ m > 0 /\ c \in Int
  BY <1>1 DEF m, c
<1>3. c % m \in 0 .. m - 1
  BY <1>2
<1>4. m - 1 = TimeLimit
  BY CursorAssumption DEF m
<1>5. QED
  BY <1>3, <1>4 DEF m, c

LEMMA BuildsPart ==
  ASSUME show \in Shows, NEW n \in 0 .. Last(show) - 1, NEW since \in 0 .. TimeLimit,
         Places(show)[Last(show)].time <= TimeLimit => since = Places(show)[n].time,
         NEW part, part = PartAt(show, Places(show)[n].offset, Places(show)[n].start)
  PROVE  StandsAt(BuildFrom(part, Places(show)[n].offset, since), n)
<1>1. n # Last(show)
  BY LastIs
<1> DEFINE seg == BuildFrom(part, Places(show)[n].offset, since)
<1>2. /\ seg.start = Places(show)[n].offset /\ seg.start_time = since
      /\ seg.length = part.length /\ seg.duration = part.duration /\ seg.curve = part.curve
      /\ seg.end_msec = (since + part.duration) % (TimeLimit + 1) /\ seg.end_time = seg.end_msec
  BY DEF BuildFrom
<1> HIDE DEF seg
<1>3. QED
  BY <1>1, <1>2 DEF StandsAt, IsAt, OnPart, seg

LEMMA Builds ==
  ASSUME show \in Shows, NEW n \in 0 .. Last(show), NEW since \in 0 .. TimeLimit,
         Places(show)[Last(show)].time <= TimeLimit => since = Places(show)[n].time,
         NEW w, w = Places(show)[n]
  PROVE  StandsAt(IF IsTrajectory THEN BuildSegment(w.offset, since, w.start)
               ELSE BuildSetpoint(w.offset, since, w.start), n)
<1>0. /\ w.offset \in Nat /\ Len(show.bytes) \in Nat
      /\ show.bytes = << >> => Len(show.bytes) = 0
  BY WalkIs, ShowsAssumption
<1>1. CASE n = Last(show)
  <2>1. AtEnd(show, w)
    BY <1>1, LastIs
  <2>2. w.offset >= Len(show.bytes) \/ (IsTrajectory /\ NoSegments)
    BY <1>0, <2>1 DEF AtEnd, NoSegments, HasNoParts, IsTrajectory
  <2>3. StandsAt(BuildTail(w.offset, since, w.start), n)
    BY <1>1, BuildsTail
  <2>4. QED
    BY <2>2, <2>3 DEF BuildSegment, BuildSetpoint
<1>2. CASE n # Last(show)
  <2>1. n \in 0 .. Last(show) - 1
    BY <1>2, LastIs
  <2>2. w.offset < Len(show.bytes) /\ ~NoSegments
    BY <2>1, WalkIs DEF NoSegments
  <2>3. StandsAt(BuildFrom(PartAt(show, w.offset, w.start), w.offset, since), n)
    BY <2>1, BuildsPart
  <2>4. ~(w.offset >= Len(show.bytes))
    BY <1>0, <2>2
  <2>5. QED
    BY <2>2, <2>3, <2>4 DEF BuildSegment, BuildSetpoint, PartAt, IsTrajectory
<1>3. QED
  BY <1>1, <1>2

LEMMA FirstIs ==
  ASSUME show \in Shows
  PROVE  StandsAt(First, 0) /\ First.start_time = 0 /\ 0 \in 0 .. Last(show)
<1> DEFINE w == Places(show)[0]
<1>1. w = Begin(show) /\ w.time = 0 /\ 0 \in 0 .. Last(show)
  <2>1. w = Begin(show) /\ Last(show) \in 0 .. Len(show.bytes)
    BY LastIs
  <2>2. Begin(show).time = 0
    BY DEF Begin
  <2>3. Len(show.bytes) \in Nat
    BY ShowsAssumption
  <2> HIDE DEF w
  <2>4. 0 \in 0 .. Last(show)
    BY <2>1, <2>3
  <2>5. QED
    BY <2>1, <2>2, <2>4
<1>2. 0 \in 0 .. TimeLimit
  BY CursorAssumption
<1>3. CASE Empty
  <2>1. AtEnd(show, w)
    BY <1>3 DEF AtEnd, HasNoParts, Empty
  <2>2. Last(show) = 0
    BY <2>1, LastIs, ShowsAssumption
  <2>3. StandsAt(BuildTail(w.offset, 0, w.start), 0)
    BY <1>1, <1>2, <2>2, BuildsTail
  <2>4. First = BuildTail(w.offset, 0, w.start)
    BY <1>1, <1>3 DEF First, FirstSegment, FirstSetpoint, Begin, IsTrajectory, Empty
  <2>5. First.start_time = 0
    BY <2>4 DEF BuildTail
  <2>6. QED
    BY <1>1, <2>3, <2>4, <2>5
<1>4. CASE ~Empty
  <2> DEFINE b == IF IsTrajectory THEN BuildSegment(w.offset, 0, w.start)
                  ELSE BuildSetpoint(w.offset, 0, w.start)
  <2>1. First = b
    BY <1>1, <1>4 DEF First, FirstSegment, FirstSetpoint, Begin, IsTrajectory, Empty
  <2>2. StandsAt(b, 0)
    BY <1>1, <1>2, Builds
  <2>3. b.start_time = 0
    BY DEF BuildSegment, BuildSetpoint, BuildTail, BuildFrom
  <2>4. QED
    BY <1>1, <2>1, <2>2, <2>3
<1>5. QED
  BY <1>3, <1>4

(* Where the cursor is, it has more segments before it or not.             *)
LEMMA MoreIs ==
  ASSUME show \in Shows, NEW n \in 0 .. Last(show), StandsAt(segment, n)
  PROVE  /\ HasMore <=> n # Last(show)
         /\ ~HasMore => segment.end_time = Infinity
         /\ HasMore => segment.end_time \in 0 .. TimeLimit /\ segment.end_msec \in 0 .. TimeLimit
         /\ HasMore => segment.end_msec = (segment.start_time + segment.duration) % (TimeLimit + 1)
<1>1. CASE n = Last(show)
  <2>1. segment.length = 0 /\ segment.end_time = Infinity
    BY <1>1 DEF StandsAt, IsAt, OnTail
  <2>2. QED
    BY <1>1, <2>1 DEF HasMore
<1>2. CASE n # Last(show)
  <2> DEFINE w == Places(show)[n]
             part == PartAt(show, w.offset, w.start)
  <2>1. n \in 0 .. Last(show) - 1
    BY <1>2, LastIs
  <2>2. part.length \in Nat \ {0} /\ part.duration \in Nat
    BY <2>1, WalkIs
  <2>3. OnPart(segment, part) /\ segment.start_time \in Nat
    BY <1>2 DEF StandsAt, IsAt
  <2> HIDE DEF part
  <2>4. (segment.start_time + part.duration) % (TimeLimit + 1) \in 0 .. TimeLimit
    BY <2>2, <2>3, RestType
  <2>5. segment.length > 0
    BY <2>2, <2>3 DEF OnPart
  <2>6. QED
    BY <1>2, <2>3, <2>4, <2>5 DEF OnPart, HasMore
<1>3. QED
  BY <1>1, <1>2

LEMMA SumFits ==
  ASSUME NEW a \in Nat, NEW b \in Nat, a + b <= TimeLimit
  PROVE  (a + b) % (TimeLimit + 1) = a + b
  BY CursorAssumption

LEMMA NextIs ==
  ASSUME show \in Shows, NEW n \in 0 .. Last(show), StandsAt(segment, n), HasMore
  PROVE  /\ n + 1 \in 0 .. Last(show)
         /\ StandsAt(NextOf(segment), n + 1)
         /\ NextOf(segment).start_time = segment.end_msec
         /\ Places(show)[Last(show)].time <= TimeLimit =>
              segment.end_msec = Places(show)[n + 1].time
<1> DEFINE w == Places(show)[n]
           part == PartAt(show, w.offset, w.start)
           next == Places(show)[n + 1]
           since == segment.end_msec
<1>1. n \in 0 .. Last(show) - 1 /\ n + 1 \in 0 .. Last(show)
  BY MoreIs, LastIs
<1>2. next = After(show, w)
  BY <1>1, LastIs
<1>3. /\ next.offset = w.offset + part.length /\ next.time = w.time + part.duration
      /\ next.start = EndOf(part)
  BY <1>2 DEF After
<1>4. /\ segment.start = w.offset /\ segment.length = part.length /\ segment.curve = part.curve
      /\ since = (segment.start_time + part.duration) % (TimeLimit + 1)
      /\ Places(show)[Last(show)].time <= TimeLimit => segment.start_time = w.time
  BY <1>1, MoreIs DEF StandsAt, IsAt, OnPart
<1>5. part.duration \in Nat /\ w.time \in Nat /\ next.time \in Nat
      /\ Places(show)[Last(show)].time \in Nat /\ next.time <= Places(show)[Last(show)].time
  <2>1. part.duration \in Nat
    BY <1>1, WalkIs
  <2>2. Last(show) \in 0 .. Last(show)
    BY LastIs
  <2>3. QED
    BY <1>1, <2>1, <2>2, WalkIs
<1>6. since \in 0 .. TimeLimit
  BY MoreIs
<1>7. ASSUME Places(show)[Last(show)].time <= TimeLimit PROVE since = next.time
  <2>1. w.time + part.duration <= TimeLimit
    BY <1>3, <1>5, <1>7, CursorAssumption
  <2>2. (w.time + part.duration) % (TimeLimit + 1) = w.time + part.duration
    BY <1>5, <2>1, SumFits
  <2>3. QED
    BY <1>3, <1>4, <1>7, <2>2
<1>8. EndOf(segment) = next.start
  BY <1>3, <1>4 DEF EndOf
<1> DEFINE b == IF IsTrajectory THEN BuildSegment(next.offset, since, next.start)
                ELSE BuildSetpoint(next.offset, since, next.start)
<1>9. NextOf(segment) = b
  BY <1>3, <1>4, <1>8 DEF NextOf, NextSegment, NextSetpoint
<1>10. StandsAt(b, n + 1)
  BY <1>1, <1>6, <1>7, Builds
<1>11. b.start_time = since
  BY DEF BuildSegment, BuildSetpoint, BuildTail, BuildFrom
<1>12. QED
  BY <1>1, <1>7, <1>9, <1>10, <1>11

(* The cursor invariant, said with the lemmas' words.                      *)
LEMMA CursorIsOn ==
  ASSUME SegmentInv
  PROVE  \E n \in 0 .. Last(show) : StandsAt(segment, n)
  BY DEF SegmentInv, StandsAt, Last

LEMMA StaysOn ==
  ASSUME show' = show, NEW seg, segment' = seg, NEW n \in 0 .. Last(show), StandsAt(seg, n)
  PROVE  SegmentInv'
<1>1. IsAt(seg, Places(show), n, Last(show))
  BY DEF StandsAt
<1>2. IsAt(segment, Places(show), n, Last(show))'
  BY <1>1 DEF IsAt, OnPart, OnTail
<1>3. QED
  BY <1>2 DEF SegmentInv, Last

LEMMA BackToFirst ==
  ASSUME show \in Shows, show' = show, segment' = First
  PROVE  SegmentInv' /\ segment'.start_time = 0
<1>1. StandsAt(First, 0) /\ First.start_time = 0 /\ 0 \in 0 .. Last(show)
  BY FirstIs
<1>2. QED
  BY <1>1, StaysOn

LEMMA OnToNext ==
  ASSUME show \in Shows, SegmentInv, HasMore, show' = show, segment' = NextOf(segment)
  PROVE  /\ SegmentInv'
         /\ segment'.start_time = (segment.start_time + segment.duration) % (TimeLimit + 1)
<1>1. PICK n \in 0 .. Last(show) : StandsAt(segment, n)
  BY CursorIsOn
<1>2. /\ n + 1 \in 0 .. Last(show) /\ StandsAt(NextOf(segment), n + 1)
      /\ NextOf(segment).start_time = segment.end_msec
  BY <1>1, NextIs
<1>3. segment.end_msec = (segment.start_time + segment.duration) % (TimeLimit + 1)
  BY <1>1, MoreIs
<1>4. QED
  BY <1>2, <1>3, StaysOn

LEMMA StaysThere ==
  ASSUME SegmentInv, show' = show, segment' = segment
  PROVE  SegmentInv'
<1>1. PICK n \in 0 .. Last(show) : StandsAt(segment, n)
  BY CursorIsOn
<1>2. QED
  BY <1>1, StaysOn

(* What the last segment and the others say of the times.                  *)
LEMMA EndIs ==
  ASSUME show \in Shows, SegmentInv
  PROVE  /\ ~HasMore => segment.end_time = Infinity
         /\ HasMore => segment.end_time \in 0 .. TimeLimit
         /\ segment.start_time \in 0 .. TimeLimit
<1>1. PICK n \in 0 .. Last(show) : StandsAt(segment, n)
  BY CursorIsOn
<1>2. segment.start_time \in 0 .. TimeLimit
  BY <1>1 DEF StandsAt, IsAt
<1>3. QED
  BY <1>1, <1>2, MoreIs

LEMMA OnResolutionIs ==
  ASSUME NEW t \in 0 .. TimeLimit
  PROVE  OnResolution(t) \in Int /\ OnResolution(t) <= Infinity
<1> DEFINE r == Resolution
           d == (- t) % r
<1>1. /\ r \in Nat /\ r > 0 /\ TimeLimit + r < Infinity /\ TimeLimit \in Nat /\ Infinity \in Nat
      /\ - t \in Int
  BY CursorAssumption
<1>2. d \in 0 .. r - 1
  <2> DEFINE m == - t
  <2>1. m \in Int
    BY <1>1
  <2> HIDE DEF m, r
  <2>2. m % r \in 0 .. r - 1
    BY <1>1, <2>1
  <2>3. QED
    BY <2>2 DEF m
<1>3. OnResolution(t) = t + d
  BY DEF OnResolution
<1> HIDE DEF d, r
<1>4. QED
  BY <1>1, <1>2, <1>3

LEMMA IdleIs ==
  ASSUME show' \in Shows, call' = Idle
  PROVE  CallInv'
<1>1. /\ DOMAIN call' = DOMAIN Idle /\ call'.do = "nothing" /\ call'.query.ask = "nothing"
      /\ call'.t = 0 /\ call'.sum = 0
  BY DEF Idle, NoQuery
<1>2. "nothing" \in DOMAIN AsksOf /\ "nothing" \in AsksOf["nothing"]
  BY DEF AsksOf
<1>3. 0 \in Int /\ 0 <= Infinity /\ 0 \in 0 .. TimeLimit
  BY CursorAssumption
<1>4. QED
  BY <1>1, <1>2, <1>3 DEF CallInv

LEMMA AsksAre ==
  /\ DOMAIN AsksOf = {"nothing", "seek", "earliest", "latest", "sum", "box"}
  /\ AsksOf["seek"] = {"position", "velocity", "acceleration", "takeoff", "landing"}
  /\ AsksOf["earliest"] = {"takeoff"} /\ AsksOf["latest"] = {"landing"}
  /\ AsksOf["sum"] = {"duration", "landing"} /\ AsksOf["box"] = {"box"}
  /\ AsksOf["nothing"] = {"nothing"}
  BY DEF AsksOf

---------------------------------------------------------------------------
LEMMA CursorStarts == CursorInit => CursorInv
<1> SUFFICES ASSUME CursorInit PROVE CursorInv
  OBVIOUS
<1>1. show \in Shows /\ segment = First /\ call = Idle
  BY DEF CursorInit
<1>2. StandsAt(First, 0) /\ 0 \in 0 .. Last(show)
  BY <1>1, FirstIs
<1>3. SegmentInv
  BY <1>1, <1>2 DEF SegmentInv, StandsAt, Last
<1>4. CallInv
  <2>1. /\ DOMAIN call = DOMAIN Idle /\ call.do = "nothing" /\ call.query.ask = "nothing"
        /\ call.t = 0 /\ call.sum = 0
    BY <1>1 DEF Idle, NoQuery
  <2>2. 0 \in Int /\ 0 <= Infinity /\ 0 \in 0 .. TimeLimit
    BY CursorAssumption
  <2>3. QED
    BY <1>1, <2>1, <2>2, AsksAre DEF CallInv
<1>5. QED
  BY <1>3, <1>4 DEF CursorInv

(* What a new call is, whichever the query.                                *)
LEMMA NewCall ==
  ASSUME show' \in Shows, NEW do, NEW q, NEW t \in Int, t <= Infinity,
         DOMAIN call' = DOMAIN Idle, call'.do = do, call'.query = q, call'.t = t, call'.sum = 0,
         do \in DOMAIN AsksOf, q.ask \in AsksOf[do],
         do = "sum" => segment'.start_time = 0
  PROVE  CallInv'
<1>1. 0 \in 0 .. TimeLimit
  BY CursorAssumption
<1>2. QED
  BY <1>1 DEF CallInv

(* A call that is answered at once leaves the cursor alone.                *)
LEMMA StaysAsIs ==
  ASSUME CursorInv, show' = show, segment' = segment, call' = call
  PROVE  CursorInv'
<1>1. SegmentInv'
  BY StaysThere DEF CursorInv
<1>2. CallInv'
  BY DEF CursorInv, CallInv
<1>3. QED
  BY <1>1, <1>2 DEF CursorInv

LEMMA Asking ==
  ASSUME CursorInv, Ask
  PROVE  CursorInv'
<1>0. /\ show' = show /\ show \in Shows /\ SegmentInv
      /\ 0 \in Int /\ 0 <= Infinity /\ Infinity <= Infinity /\ Infinity \in Int
  BY CursorAssumption DEF Ask, CursorInv, CallInv
<1>1. PICK q \in Queries : AskAt(q) \/ AskDuration(q) \/ AskBox(q) \/ AskTakeoff(q) \/ AskLanding(q)
  BY DEF Ask
<1>2. CASE AskAt(q)
  <2> DEFINE t == IF q.arg > 0 THEN q.arg ELSE 0
  <2>1. t \in Int /\ t <= Infinity
    BY <1>0, QueriesAssumption
  <2>2. /\ DOMAIN call' = DOMAIN Idle /\ call'.do = "seek" /\ call'.query = q
        /\ call'.t = t /\ call'.sum = 0 /\ segment' = segment
    BY <1>2 DEF AskAt, Idle
  <2>3. q.ask \in AsksOf["seek"] /\ "seek" \in DOMAIN AsksOf
    BY <1>2, AsksAre DEF AskAt
  <2> HIDE DEF t
  <2>4. CallInv'
    BY <1>0, <2>1, <2>2, <2>3, NewCall
  <2>5. SegmentInv'
    BY <1>0, <2>2, StaysThere
  <2>6. QED
    BY <2>4, <2>5 DEF CursorInv
<1>3. CASE AskDuration(q)
  <2>1. /\ DOMAIN call' = DOMAIN Idle /\ call'.do = "sum" /\ call'.query = q
        /\ call'.t = 0 /\ call'.sum = 0 /\ segment' = First
    BY <1>3 DEF AskDuration, FromFirst, Idle
  <2>2. SegmentInv' /\ segment'.start_time = 0
    BY <1>0, <2>1, BackToFirst
  <2>3. q.ask \in AsksOf["sum"] /\ "sum" \in DOMAIN AsksOf
    BY <1>3, AsksAre DEF AskDuration
  <2>4. CallInv'
    BY <1>0, <2>1, <2>2, <2>3, NewCall
  <2>5. QED
    BY <2>2, <2>4 DEF CursorInv
<1>4. CASE AskBox(q)
  <2>1. /\ DOMAIN call' = DOMAIN Idle /\ call'.do = "box" /\ call'.query = q
        /\ call'.t = 0 /\ call'.sum = 0 /\ segment' = First
    BY <1>4 DEF AskBox, FromFirst, Idle
  <2>2. SegmentInv'
    BY <1>0, <2>1, BackToFirst
  <2>3. q.ask \in AsksOf["box"] /\ "box" \in DOMAIN AsksOf
    BY <1>4, AsksAre DEF AskBox
  <2>4. CallInv'
    BY <1>0, <2>1, <2>3, NewCall
  <2>5. QED
    BY <2>2, <2>4 DEF CursorInv
<1>5. CASE AskTakeoff(q)
  <2>1. CASE segment' = segment /\ call' = call
    BY <1>0, <2>1, StaysAsIs
  <2>2. CASE FromFirst(q, "seek", 0)
    <3>1. /\ DOMAIN call' = DOMAIN Idle /\ call'.do = "seek" /\ call'.query = q
          /\ call'.t = 0 /\ call'.sum = 0 /\ segment' = First
      BY <2>2 DEF FromFirst, Idle
    <3>2. SegmentInv'
      BY <1>0, <3>1, BackToFirst
    <3>3. q.ask \in AsksOf["seek"] /\ "seek" \in DOMAIN AsksOf
      BY <1>5, AsksAre DEF AskTakeoff
    <3>4. CallInv'
      BY <1>0, <3>1, <3>3, NewCall
    <3>5. QED
      BY <3>2, <3>4 DEF CursorInv
  <2>3. QED
    BY <1>5, <2>1, <2>2 DEF AskTakeoff, AnswerAtOnce
<1>6. CASE AskLanding(q)
  <2>1. CASE segment' = segment /\ call' = call
    BY <1>0, <2>1, StaysAsIs
  <2>2. CASE FromFirst(q, "sum", 0)
    <3>1. /\ DOMAIN call' = DOMAIN Idle /\ call'.do = "sum" /\ call'.query = q
          /\ call'.t = 0 /\ call'.sum = 0 /\ segment' = First
      BY <2>2 DEF FromFirst, Idle
    <3>2. SegmentInv' /\ segment'.start_time = 0
      BY <1>0, <3>1, BackToFirst
    <3>3. q.ask \in AsksOf["sum"] /\ "sum" \in DOMAIN AsksOf
      BY <1>6, AsksAre DEF AskLanding
    <3>4. CallInv'
      BY <1>0, <3>1, <3>2, <3>3, NewCall
    <3>5. QED
      BY <3>2, <3>4 DEF CursorInv
  <2>3. CASE FromFirst(q, "seek", Infinity)
    <3>1. /\ DOMAIN call' = DOMAIN Idle /\ call'.do = "seek" /\ call'.query = q
          /\ call'.t = Infinity /\ call'.sum = 0 /\ segment' = First
      BY <2>3 DEF FromFirst, Idle
    <3>2. SegmentInv'
      BY <1>0, <3>1, BackToFirst
    <3>3. q.ask \in AsksOf["seek"] /\ "seek" \in DOMAIN AsksOf
      BY <1>6, AsksAre DEF AskLanding
    <3>4. CallInv'
      BY <1>0, <3>1, <3>3, NewCall
    <3>5. QED
      BY <3>2, <3>4 DEF CursorInv
  <2>4. QED
    BY <1>6, <2>1, <2>2, <2>3 DEF AskLanding, AnswerAtOnce
<1>7. QED
  BY <1>1, <1>2, <1>3, <1>4, <1>5, <1>6

(* A call that goes on at another time, or with another sum.               *)
LEMMA GoesOn ==
  ASSUME show' \in Shows, NEW do, NEW t \in Int, t <= Infinity, NEW total \in 0 .. TimeLimit,
         DOMAIN call' = DOMAIN Idle, call'.do = do, call'.query = call.query,
         call'.t = t, call'.sum = total,
         do \in DOMAIN AsksOf, call.query.ask \in AsksOf[do],
         do = "seek" => total = 0, do = "sum" => total = segment'.start_time
  PROVE  CallInv'
  BY DEF CallInv

LEMMA SearchStarting ==
  ASSUME CursorInv, StartSearch
  PROVE  CursorInv'
<1>0. /\ show' = show /\ show \in Shows /\ segment' = First /\ call.do = "seek" /\ call.sum = 0
      /\ DOMAIN call = DOMAIN Idle /\ call.t \in Int /\ call.t <= Infinity
      /\ call.query.ask \in {"takeoff", "landing"}
      /\ DOMAIN Idle = {"do", "query", "t", "sum", "bound", "box"}
  BY DEF StartSearch, CursorInv, CallInv, Idle
<1>1. SegmentInv' /\ segment'.start_time = 0
  BY <1>0, BackToFirst
<1>2. 0 \in 0 .. TimeLimit /\ 0 \in Int /\ 0 <= Infinity
  BY CursorAssumption
<1> DEFINE bound == Plus(Altitude, Rat(call.query.arg))
<1>3. \/ call.query.ask = "landing" /\ call' = [call EXCEPT !.do = "sum", !.bound = bound]
      \/ /\ call.query.ask = "takeoff"
         /\ call' = [call EXCEPT !.do = "earliest", !.t = 0, !.bound = bound]
      \/ call' = Idle
  BY <1>0 DEF StartSearch, Answer
<1> HIDE DEF bound
<1>4. CASE call.query.ask = "landing" /\ call' = [call EXCEPT !.do = "sum", !.bound = bound]
  <2>1. /\ DOMAIN call' = DOMAIN Idle /\ call'.do = "sum" /\ call'.query = call.query
        /\ call'.t = call.t /\ call'.sum = 0
    BY <1>0, <1>4
  <2>2. CallInv'
    BY <1>0, <1>1, <1>2, <1>4, <2>1, GoesOn, AsksAre
  <2>3. QED
    BY <1>1, <2>2 DEF CursorInv
<1>5. CASE /\ call.query.ask = "takeoff"
           /\ call' = [call EXCEPT !.do = "earliest", !.t = 0, !.bound = bound]
  <2>1. /\ DOMAIN call' = DOMAIN Idle /\ call'.do = "earliest" /\ call'.query = call.query
        /\ call'.t = 0 /\ call'.sum = 0
    BY <1>0, <1>5
  <2>2. CallInv'
    BY <1>0, <1>1, <1>2, <1>5, <2>1, GoesOn, AsksAre
  <2>3. QED
    BY <1>1, <2>2 DEF CursorInv
<1>6. CASE call' = Idle
  BY <1>0, <1>1, <1>6, IdleIs DEF CursorInv
<1>7. QED
  BY <1>3, <1>4, <1>5, <1>6

(* A search goes on from a segment that is not the last one, and so at a   *)
(* time of the clock.                                                      *)
LEMMA SearchingEarliest ==
  ASSUME CursorInv, SearchEarliest
  PROVE  CursorInv'
<1>0. /\ show' = show /\ show \in Shows /\ segment' = segment /\ call.do = "earliest"
      /\ DOMAIN call = DOMAIN Idle /\ call.t \in Int /\ call.sum \in 0 .. TimeLimit
      /\ call.query.ask \in AsksOf["earliest"]
      /\ DOMAIN Idle = {"do", "query", "t", "sum", "bound", "box"}
      /\ segment.end_time >= call.t /\ SegmentInv
  BY DEF SearchEarliest, Arrived, CursorInv, CallInv, Idle
<1>1. SegmentInv'
  BY <1>0, StaysThere
<1>2. CASE call' = Idle
  BY <1>0, <1>1, <1>2, IdleIs DEF CursorInv
<1>3. CASE HasMore /\ call' = [call EXCEPT !.t = @ + Resolution]
  <2>1. segment.end_time \in 0 .. TimeLimit
    BY <1>0, <1>3, EndIs
  <2>2. call.t + Resolution \in Int /\ call.t + Resolution <= Infinity
    <3> DEFINE e == segment.end_time
               t == call.t
    <3>1. e \in 0 .. TimeLimit /\ e >= t /\ t \in Int
      BY <1>0, <2>1
    <3> HIDE DEF e, t
    <3>2. t + Resolution \in Int /\ t + Resolution <= Infinity
      BY <3>1, CursorAssumption
    <3>3. QED
      BY <3>2 DEF t
  <2>3. /\ DOMAIN call' = DOMAIN Idle /\ call'.do = "earliest" /\ call'.query = call.query
        /\ call'.t = call.t + Resolution /\ call'.sum = call.sum
    BY <1>0, <1>3
  <2>4. CallInv'
    BY <1>0, <2>2, <2>3, GoesOn, AsksAre
  <2>5. QED
    BY <1>1, <2>4 DEF CursorInv
<1>4. QED
  BY <1>2, <1>3 DEF SearchEarliest, EarliestEnds, Answer

LEMMA SearchingLatest ==
  ASSUME CursorInv, SearchLatest
  PROVE  CursorInv'
<1>0. /\ show' = show /\ show \in Shows /\ segment' = segment /\ call.do = "latest"
      /\ DOMAIN call = DOMAIN Idle /\ call.t \in Int /\ call.t <= Infinity
      /\ call.sum \in 0 .. TimeLimit
      /\ call.query.ask \in AsksOf["latest"]
      /\ DOMAIN Idle = {"do", "query", "t", "sum", "bound", "box"} /\ SegmentInv
  BY DEF SearchLatest, CursorInv, CallInv, Idle
<1>1. SegmentInv'
  BY <1>0, StaysThere
<1>2. CASE call' = Idle
  BY <1>0, <1>1, <1>2, IdleIs DEF CursorInv
<1>3. CASE call' = [call EXCEPT !.t = @ - Resolution]
  <2>1. call.t - Resolution \in Int /\ call.t - Resolution <= Infinity
    BY <1>0, CursorAssumption
  <2>2. /\ DOMAIN call' = DOMAIN Idle /\ call'.do = "latest" /\ call'.query = call.query
        /\ call'.t = call.t - Resolution /\ call'.sum = call.sum
    BY <1>0, <1>3
  <2>3. CallInv'
    BY <1>0, <2>1, <2>2, GoesOn, AsksAre
  <2>4. QED
    BY <1>1, <2>3 DEF CursorInv
<1>4. QED
  BY <1>2, <1>3 DEF SearchLatest, Answer

(* The sum is the time at which the cursor's segment starts.               *)
LEMMA Summing ==
  ASSUME CursorInv, SumDuration
  PROVE  CursorInv'
<1>0. /\ show' = show /\ show \in Shows /\ call.do = "sum"
      /\ DOMAIN call = DOMAIN Idle /\ call.t \in Int /\ call.t <= Infinity
      /\ call.sum \in 0 .. TimeLimit /\ call.sum = segment.start_time
      /\ call.query.ask \in {"duration", "landing"}
      /\ DOMAIN Idle = {"do", "query", "t", "sum", "bound", "box"} /\ SegmentInv
  BY AsksAre DEF SumDuration, CursorInv, CallInv, Idle
<1>1. CASE HasMore
  <2> DEFINE total == (call.sum + segment.duration) % (TimeLimit + 1)
  <2>1. /\ segment' = NextOf(segment)
        /\ call' = [call EXCEPT !.sum = (@ + segment.duration) % (TimeLimit + 1)]
    BY <1>1 DEF SumDuration
  <2>2. SegmentInv' /\ segment'.start_time = total
    BY <1>0, <1>1, <2>1, OnToNext
  <2>3. /\ DOMAIN call' = DOMAIN Idle /\ call'.do = "sum" /\ call'.query = call.query
        /\ call'.t = call.t /\ call'.sum = total
    BY <1>0, <2>1
  <2> HIDE DEF total
  <2>4. total \in 0 .. TimeLimit
    <3>1. segment'.start_time \in 0 .. TimeLimit
      BY <2>2 DEF SegmentInv, IsAt
    <3>2. QED
      BY <2>2, <3>1
  <2>5. CallInv'
    BY <1>0, <2>2, <2>3, <2>4, GoesOn, AsksAre
  <2>6. QED
    BY <2>2, <2>5 DEF CursorInv
<1>2. CASE ~HasMore
  <2>1. segment' = segment
    BY <1>2 DEF SumDuration
  <2>2. SegmentInv'
    BY <1>0, <2>1, StaysThere
  <2>3. CASE call' = Idle
    BY <1>0, <2>2, <2>3, IdleIs DEF CursorInv
  <2>4. CASE /\ call.query.ask # "duration"
             /\ call' = [call EXCEPT !.do = "latest", !.t = OnResolution(call.sum)]
    <3>1. OnResolution(call.sum) \in Int /\ OnResolution(call.sum) <= Infinity
      BY <1>0, OnResolutionIs
    <3>2. /\ DOMAIN call' = DOMAIN Idle /\ call'.do = "latest" /\ call'.query = call.query
          /\ call'.t = OnResolution(call.sum) /\ call'.sum = call.sum
      BY <1>0, <2>4
    <3>3. call.query.ask \in AsksOf["latest"]
      BY <1>0, <2>4, AsksAre
    <3>4. CallInv'
      BY <1>0, <3>1, <3>2, <3>3, GoesOn, AsksAre
    <3>5. QED
      BY <2>2, <3>4 DEF CursorInv
  <2>5. QED
    BY <1>2, <2>3, <2>4 DEF SumDuration, IsTotalAsked, Answer
<1>3. QED
  BY <1>1, <1>2

LEMMA BoxExtending ==
  ASSUME CursorInv, ExtendBox
  PROVE  CursorInv'
<1>0. /\ show' = show /\ show \in Shows /\ call.do = "box"
      /\ DOMAIN call = DOMAIN Idle /\ call.t \in Int /\ call.t <= Infinity
      /\ call.sum \in 0 .. TimeLimit
      /\ call.query.ask \in AsksOf["box"]
      /\ DOMAIN Idle = {"do", "query", "t", "sum", "bound", "box"} /\ SegmentInv
  BY DEF ExtendBox, CursorInv, CallInv, Idle
<1>1. CASE HasMore
  <2>1. segment' = NextOf(segment) /\ \E box : call' = [call EXCEPT !.box = box]
    BY <1>1 DEF ExtendBox
  <2>2. SegmentInv'
    BY <1>0, <1>1, <2>1, OnToNext
  <2>3. /\ DOMAIN call' = DOMAIN Idle /\ call'.do = "box" /\ call'.query = call.query
        /\ call'.t = call.t /\ call'.sum = call.sum
    BY <1>0, <2>1
  <2>4. CallInv'
    BY <1>0, <2>3, GoesOn, AsksAre
  <2>5. QED
    BY <2>2, <2>4 DEF CursorInv
<1>2. CASE ~HasMore
  <2>1. segment' = segment /\ call' = Idle
    BY <1>2 DEF ExtendBox, Answer
  <2>2. QED
    BY <1>0, <2>1, StaysThere, IdleIs DEF CursorInv
<1>3. QED
  BY <1>1, <1>2

LEMMA Seeks ==
  ASSUME CursorInv, SeekBack \/ SeekForward
  PROVE  CursorInv'
<1>0. /\ show' = show /\ call' = call /\ show \in Shows /\ SegmentInv /\ CallInv
      /\ call.do \in {"seek", "earliest", "latest"} /\ call.t \in Int /\ call.t <= Infinity
  BY DEF SeekBack, SeekForward, Seeking, CursorInv, CallInv
<1>1. CallInv'
  BY <1>0 DEF CallInv
<1>2. CASE SeekBack
  <2>1. SegmentInv'
    BY <1>0, <1>2, BackToFirst DEF SeekBack
  <2>2. QED
    BY <1>1, <2>1 DEF CursorInv
<1>3. CASE SeekForward
  <2>1. segment' = NextOf(segment) /\ segment.end_time < call.t
    BY <1>3 DEF SeekForward
  <2>2. HasMore
    <3>1. SUFFICES ASSUME ~HasMore PROVE FALSE
      OBVIOUS
    <3>2. segment.end_time = Infinity
      BY <1>0, <3>1, EndIs
    <3>3. QED
      BY <1>0, <2>1, <3>2, CursorAssumption
  <2>3. SegmentInv'
    BY <1>0, <2>1, <2>2, OnToNext
  <2>4. QED
    BY <1>1, <2>3 DEF CursorInv
<1>4. QED
  BY <1>2, <1>3

(* The cursor is always on a segment of the show, and a call in one of its *)
(* places.                                                                 *)
THEOREM CursorSafe == CursorSpec => []CursorInv
<1>1. CursorInit => CursorInv
  BY CursorStarts
<1>2. CursorInv /\ [CursorNext]_cursorVars => CursorInv'
  <2> SUFFICES ASSUME CursorInv, [CursorNext]_cursorVars PROVE CursorInv'
    OBVIOUS
  <2>1. CASE Ask
    BY <2>1, Asking
  <2>2. CASE SeekBack \/ SeekForward
    BY <2>2, Seeks
  <2>3. CASE AnswerAt
    <3>1. show' = show /\ segment' = segment /\ call' = Idle /\ show \in Shows /\ SegmentInv
      BY <2>3 DEF AnswerAt, Answer, CursorInv, CallInv
    <3>2. QED
      BY <3>1, StaysThere, IdleIs DEF CursorInv
  <2>4. CASE StartSearch
    BY <2>4, SearchStarting
  <2>5. CASE SearchEarliest
    BY <2>5, SearchingEarliest
  <2>6. CASE SearchLatest
    BY <2>6, SearchingLatest
  <2>7. CASE SumDuration
    BY <2>7, Summing
  <2>8. CASE ExtendBox
    BY <2>8, BoxExtending
  <2>9. CASE UNCHANGED cursorVars
    BY <2>9, StaysAsIs DEF cursorVars
  <2>10. QED
    BY <2>1, <2>2, <2>3, <2>4, <2>5, <2>6, <2>7, <2>8, <2>9 DEF CursorNext, Turn
<1>3. QED
  BY <1>1, <1>2, PTL DEF CursorSpec

LEMMA WalkIsPlaces ==
  ASSUME show \in Shows
  PROVE  /\ Len(Walk) = Last(show) + 1
         /\ \A n \in 0 .. Last(show) : n + 1 \in 1 .. Len(Walk) /\ Walk[n + 1] = Places(show)[n]
         /\ LastOf(Walk) = Places(show)[Last(show)]
         /\ Total(Walk) = Places(show)[Last(show)].time
<1> DEFINE p == Places(show)
           N == Last(show)
<1>1. N \in Nat
  BY LastIs, ShowsAssumption
<1>2. Walk = [i \in 1 .. N + 1 |-> p[i - 1]]
  BY DEF Walk, Last
<1> HIDE DEF p, N
<1>3. Len(Walk) = N + 1
  BY <1>1, <1>2
<1>4. \A n \in 0 .. N : n + 1 \in 1 .. Len(Walk) /\ (n + 1) - 1 = n
  BY <1>1, <1>3
<1>5. \A n \in 0 .. N : Walk[n + 1] = p[n]
  BY <1>2, <1>3, <1>4
<1>6. N \in 0 .. N
  BY <1>1
<1>7. LastOf(Walk) = p[N]
  BY <1>3, <1>5, <1>6 DEF LastOf
<1>8. QED
  BY <1>3, <1>4, <1>5, <1>7 DEF p, N, Total

(* A segment starts where the walk is.                                     *)
LEMMA CurveStarts ==
  ASSUME show \in Shows, NEW n \in 0 .. Last(show), StandsAt(segment, n)
  PROVE  \A axis \in DOMAIN segment.curve : segment.curve[axis][1] = Places(show)[n].start[axis]
<1> DEFINE w == Places(show)[n]
           part == PartAt(show, w.offset, w.start)
<1>1. CASE n = Last(show)
  <2>1. segment.curve = Standing(w.start)
    BY <1>1 DEF StandsAt, IsAt, OnTail
  <2>2. QED
    BY <2>1 DEF Standing
<1>2. CASE n # Last(show)
  <2>1. n \in 0 .. Last(show) - 1
    BY <1>2, LastIs
  <2>2. w.offset \in Nat /\ w.offset < Len(show.bytes)
    BY <2>1, WalkIs
  <2>3. \A axis \in DOMAIN part.curve : part.curve[axis][1] = w.start[axis]
    BY <2>2, PartIs
  <2>4. segment.curve = part.curve
    BY <1>2 DEF StandsAt, IsAt, OnPart
  <2>5. QED
    BY <2>3, <2>4
<1>3. QED
  BY <1>1, <1>2

(* Whatever was asked before, the cursor is at a place of the walk from    *)
(* the first segment, at its offset, its position and its time.            *)
THEOREM CursorKnows == CursorSpec => []KnowsWhereItIs
<1>1. CursorInv => KnowsWhereItIs
  <2> SUFFICES ASSUME CursorInv PROVE KnowsWhereItIs
    OBVIOUS
  <2>1. show \in Shows
    BY DEF CursorInv, CallInv
  <2>2. PICK n \in 0 .. Last(show) : StandsAt(segment, n)
    BY CursorIsOn DEF CursorInv
  <2>3. /\ n + 1 \in 1 .. Len(Walk) /\ Walk[n + 1] = Places(show)[n]
        /\ Total(Walk) = Places(show)[Last(show)].time
    BY <2>1, WalkIsPlaces
  <2>4. /\ segment.start = Places(show)[n].offset
        /\ Places(show)[Last(show)].time <= TimeLimit => segment.start_time = Places(show)[n].time
    BY <2>2 DEF StandsAt, IsAt
  <2>5. \A axis \in DOMAIN segment.curve : segment.curve[axis][1] = Places(show)[n].start[axis]
    BY <2>1, <2>2, CurveStarts
  <2>6. QED
    BY <2>3, <2>4, <2>5 DEF KnowsWhereItIs
<1>2. QED
  BY <1>1, CursorSafe, PTL

(* A query for a time is answered from the part of the show which that     *)
(* time falls in, however the cursor got there.                            *)
THEOREM CursorArrives == CursorSpec => SeeksArrive
<1> DEFINE Arrives ==
      \E p \in PartsAt(Walk, call.t) :
        /\ segment.curve = p.part.curve
        /\ segment.duration = p.part.duration /\ segment.start_time = p.from
<1>1. CursorInv /\ AnswerAt /\ Total(Walk) <= TimeLimit => Arrives
  <2> SUFFICES ASSUME CursorInv, AnswerAt, Total(Walk) <= TimeLimit PROVE Arrives
    OBVIOUS
  <2>1. /\ show \in Shows /\ call.t \in Int
        /\ segment.start_time <= call.t /\ segment.end_time >= call.t
    BY DEF CursorInv, CallInv, AnswerAt, Arrived
  <2>2. PICK n \in 0 .. Last(show) : StandsAt(segment, n)
    BY CursorIsOn DEF CursorInv
  <2> DEFINE w == Places(show)[n]
  <2>3. Total(Walk) = Places(show)[Last(show)].time
    BY <2>1, WalkIsPlaces
  <2>4. segment.start_time = w.time
    BY <2>2, <2>3 DEF StandsAt, IsAt
  <2>5. CASE n = Last(show)
    <3>1. Total(Walk) = w.time /\ LastOf(Walk) = w
      BY <2>1, <2>5, WalkIsPlaces
    <3>2. w.time \in Nat
      BY <2>1, WalkIs
    <3>3. ~(call.t < Total(Walk))
      BY <2>1, <2>4, <3>1, <3>2
    <3>4. Rest(w) \in PartsAt(Walk, call.t)
      BY <3>1, <3>3 DEF PartsAt
    <3>5. segment.curve = Standing(w.start) /\ segment.duration = Infinity
      BY <2>2, <2>5 DEF StandsAt, IsAt, OnTail
    <3>6. /\ Rest(w).part.curve = Standing(w.start) /\ Rest(w).part.duration = Infinity
          /\ Rest(w).from = w.time
      BY DEF Rest
    <3>7. QED
      BY <2>4, <3>4, <3>5, <3>6
  <2>6. CASE n # Last(show)
    <3>1. HasMore
      BY <2>1, <2>2, <2>6, MoreIs
    <3>2. n + 1 \in 0 .. Last(show) /\ segment.end_msec = Places(show)[n + 1].time
      BY <2>1, <2>2, <2>3, <3>1, NextIs
    <3>3. OnPart(segment, PartAt(show, w.offset, w.start))
      BY <2>2, <2>6 DEF StandsAt, IsAt
    <3>4. segment.end_time = Places(show)[n + 1].time
      BY <3>2, <3>3 DEF OnPart
    <3>5. Walk[n + 1] = w /\ Walk[(n + 1) + 1] = Places(show)[n + 1] /\ n + 1 \in 1 .. Len(Walk) - 1
      <4>1. /\ Walk[n + 1] = w /\ Walk[(n + 1) + 1] = Places(show)[n + 1]
            /\ Len(Walk) = Last(show) + 1
        BY <2>1, <3>2, WalkIsPlaces
      <4>2. Last(show) \in Nat
        BY <2>1, LastIs, ShowsAssumption
      <4>3. QED
        BY <3>2, <4>1, <4>2
    <3>6. Played(w) \in PartsAt(Walk, call.t)
      BY <2>1, <2>4, <3>4, <3>5 DEF PartsAt
    <3>7. Played(w).part = PartAt(show, w.offset, w.start) /\ Played(w).from = w.time
      BY DEF Played
    <3>8. QED
      BY <2>4, <3>3, <3>6, <3>7 DEF OnPart
  <2>7. QED
    BY <2>5, <2>6
<1>2. CursorInv => [AnswerAt /\ Total(Walk) <= TimeLimit => Arrives]_cursorVars
  BY <1>1
<1>3. QED
  BY <1>2, CursorSafe, PTL DEF SeeksArrive

(* The duration that is answered is that of all parts of the show.         *)
THEOREM DurationsAreTotals == CursorSpec => []DurationIsTotal
<1>1. CursorInit => DurationIsTotal
  BY DEF CursorInit, NoQuery, DurationIsTotal
<1>2. CursorInv /\ DurationIsTotal /\ [CursorNext]_cursorVars => DurationIsTotal'
  <2> SUFFICES ASSUME CursorInv, DurationIsTotal, [CursorNext]_cursorVars PROVE DurationIsTotal'
    OBVIOUS
  <2>1. show' = show /\ show \in Shows
    BY DEF CursorNext, Turn, Ask, SeekBack, SeekForward, AnswerAt, StartSearch, SearchEarliest,
           SearchLatest, SumDuration, ExtendBox, cursorVars, CursorInv, CallInv
  <2>2. CASE answer' = answer
    BY <2>1, <2>2 DEF DurationIsTotal, Walk
  <2>3. CASE answer'.query.ask # "duration"
    BY <2>3 DEF DurationIsTotal
  <2>4. CASE SumDuration /\ ~HasMore /\ Answer(call.sum)
    <3>1. answer'.value = call.sum
      BY <2>4 DEF Answer
    <3>2. call.sum = segment.start_time
      BY <2>4 DEF SumDuration, CursorInv, CallInv
    <3>3. PICK n \in 0 .. Last(show) : StandsAt(segment, n)
      BY CursorIsOn DEF CursorInv
    <3>4. n = Last(show)
      BY <2>1, <2>4, <3>3, MoreIs
    <3>5. Total(Walk) = Places(show)[n].time
      BY <2>1, <3>4, WalkIsPlaces
    <3>6. Total(Walk) <= TimeLimit => segment.start_time = Total(Walk)
      BY <3>3, <3>4, <3>5 DEF StandsAt, IsAt
    <3>7. Walk' = Walk
      BY <2>1 DEF Walk
    <3>8. QED
      BY <3>1, <3>2, <3>6, <3>7 DEF DurationIsTotal
  <2>5. \/ answer' = answer \/ answer'.query.ask # "duration"
        \/ (SumDuration /\ ~HasMore /\ Answer(call.sum))
    <3>0. CASE Ask
      <4>1. PICK q \in Queries :
              AskAt(q) \/ AskDuration(q) \/ AskBox(q) \/ AskTakeoff(q) \/ AskLanding(q)
        BY <3>0 DEF Ask
      <4>2. answer' = answer \/ (answer'.query = q /\ q.ask \in {"takeoff", "landing"})
        BY <4>1 DEF AskAt, AskDuration, AskBox, AskTakeoff, AskLanding, FromFirst, AnswerAtOnce
      <4>3. QED
        BY <4>2
    <3>1. CASE SeekBack \/ SeekForward \/ UNCHANGED cursorVars
      BY <3>1 DEF SeekBack, SeekForward, cursorVars
    <3>2. CASE AnswerAt
      BY <3>2 DEF AnswerAt, Answer
    <3>3. CASE StartSearch
      BY <3>3 DEF StartSearch, Answer
    <3>4. CASE SearchEarliest
      <4>1. call.query.ask = "takeoff"
        BY <3>4, AsksAre DEF CursorInv, CallInv, SearchEarliest
      <4>2. QED
        BY <3>4, <4>1 DEF SearchEarliest, Answer
    <3>5. CASE SearchLatest
      <4>1. call.query.ask = "landing"
        BY <3>5, AsksAre DEF CursorInv, CallInv, SearchLatest
      <4>2. QED
        BY <3>5, <4>1 DEF SearchLatest, Answer
    <3>6. CASE SumDuration
      BY <3>6 DEF SumDuration
    <3>7. CASE ExtendBox
      <4>1. call.query.ask = "box"
        BY <3>7, AsksAre DEF CursorInv, CallInv, ExtendBox
      <4>2. QED
        BY <3>7, <4>1 DEF ExtendBox, Answer
    <3>8. QED
      BY <3>0, <3>1, <3>2, <3>3, <3>4, <3>5, <3>6, <3>7 DEF CursorNext, Turn
  <2>6. QED
    BY <2>2, <2>3, <2>4, <2>5
<1>3. QED
  BY <1>1, <1>2, CursorSafe, PTL DEF CursorSpec

---------------------------------------------------------------------------
(* The strings of bytes.                                                   *)

(* A step of the program, seen as a step of the string of one buffer.      *)
StringStep(i) == [StringOf(i)!Next]_(StringOf(i)!stringVars)

(* Bytes are no null pointer: the string of a buffer that is initialised   *)
(* exists.                                                                 *)
LEMMA BytesExist ==
  ASSUME NEW s \in Seq(Byte)
  PROVE  s # NoBlock
  BY BuffersAssumption

LEMMA StringStarts ==
  ASSUME NEW i \in Names, i \notin live, i \in live', buffers'[i] \in BufferRecord
  PROVE  StringStep(i)
<1>1. StringOf(i)!Start
  BY DEF StringOf!Start, BufferRecord
<1>2. QED
  BY <1>1 DEF StringStep, StringOf!Next

LEMMA StringEnds ==
  ASSUME NEW i \in Names, i \in live, i \notin live', buffers[i] \in BufferRecord
  PROVE  StringStep(i)
<1>1. buffers[i].contents # NoBlock
  BY BytesExist DEF BufferRecord
<1>2. StringOf(i)!End
  BY <1>1 DEF StringOf!End
<1>3. QED
  BY <1>2 DEF StringStep, StringOf!Next

(* Nothing that can be seen of the buffer changes.                         *)
LEMMA StringStays ==
  ASSUME NEW i \in Names, i \in live' <=> i \in live,
         i \in live => /\ buffers'[i].contents = buffers[i].contents
                       /\ buffers'[i].owned = buffers[i].owned
  PROVE  StringStep(i)
<1>1. CASE i \in live
  BY <1>1 DEF StringStep, StringOf!stringVars
<1>2. CASE i \notin live
  BY <1>2 DEF StringStep, StringOf!stringVars
<1>3. QED
  BY <1>1, <1>2

(* Cutting bytes off, as the abstract specification says it.               *)
LEMMA CutIsAsLong ==
  ASSUME NEW i \in Names, NEW s \in Seq(Byte), NEW n \in 0 .. Len(s)
  PROVE  /\ SubSeq(s, 1, n) = StringOf(i)!AsLong(s, n) 
         /\ Len(SubSeq(s, 1, n)) = n
<1> DEFINE c == SubSeq(s, 1, n)
           f == [k \in 1 .. n |-> IF k <= Len(s) THEN s[k] ELSE 0]
<1>1. Len(s) \in Nat /\ n \in Nat /\ n <= Len(s)
  BY LenProperties
<1>2. \A k \in 1 .. n : s[k] \in Byte
  BY <1>1, ElementOfSeq
<1>3. c \in Seq(Byte) /\ Len(c) = n /\ \A k \in 1 .. n : c[k] = s[k]
  BY <1>1, <1>2, SubSeqProperties
<1>4. f \in Seq(Byte) /\ Len(f) = n /\ \A k \in 1 .. n : f[k] = s[k]
  <2>1. f \in [1 .. n -> Byte]
    BY <1>1, <1>2
  <2>2. \A k \in 1 .. n : f[k] = s[k]
    BY <1>1
  <2>3. QED
    BY <1>1, <2>1, <2>2, IsASeq, LenProperties
<1> HIDE DEF c, f
<1>5. c = f
  <2>1. \A k \in 1 .. Len(c) : c[k] = f[k]
    BY <1>3, <1>4
  <2>2. QED
    BY <1>3, <1>4, <2>1, SeqEqual
<1>6. QED
  BY <1>3, <1>5 DEF c, f, StringOf!AsLong

(* A call that keeps what an operation promises is a step of the string.   *)
LEMMA StringChanges ==
  ASSUME NEW i \in Names, i \in live, i \in live',
         buffers[i] \in BufferRecord, buffers'[i] \in BufferRecord,
         NEW o, o.buffer = buffers'[i], o.buffer.stor_begin # NoBlock,
         Promises(buffers[i], o)
  PROVE  StringStep(i)
<1> DEFINE b == buffers[i]
           s == b.contents
           t == buffers'[i].contents
<1>1. /\ s \in Seq(Byte) /\ t \in Seq(Byte) /\ s # NoBlock /\ t # NoBlock
      /\ Size(b) = Len(s) /\ DOMAIN s = 1 .. Len(s) /\ b.owned \in BOOLEAN
  BY BytesExist, LenProperties DEF BufferRecord, Size
<1>2. buffers'[i].owned = b.owned
  BY DEF Promises
<1>3. \/ t = s
      \/ b.owned /\ Extends(t, s)
      \/ b.owned /\ \E n \in 0 .. Size(b) : t = SubSeq(s, 1, n)
      \/ \E v \in Byte : t = [k \in 1 .. Size(b) |-> v]
  BY DEF Promises
<1>4. StringOf(i)!Exists
  BY <1>1, <1>2 DEF StringOf!Exists
<1>5. CASE t = s
  BY <1>2, <1>5, StringStays
<1>6. CASE b.owned /\ Extends(t, s)
  <2>1. StringOf(i)!Lengthen(SubSeq(t, Len(s) + 1, Len(t)))
    BY <1>4, <1>6 DEF StringOf!Lengthen, Extends
  <2>2. QED
    BY <1>1, <2>1 DEF StringStep, StringOf!Next
<1>7. CASE b.owned /\ \E n \in 0 .. Size(b) : t = SubSeq(s, 1, n)
  <2>1. PICK n \in 0 .. Len(s) : t = SubSeq(s, 1, n)
    BY <1>1, <1>7
  <2>2. t = StringOf(i)!AsLong(s, Len(t))
    BY <1>1, <2>1, CutIsAsLong
  <2>3. StringOf(i)!SetLength(Len(t))
    BY <1>4, <1>7, <2>2 DEF StringOf!SetLength
  <2>4. QED
    BY <1>1, <2>3 DEF StringStep, StringOf!Next
<1>8. CASE \E v \in Byte : t = [k \in 1 .. Size(b) |-> v]
  <2>1. PICK v \in Byte : t = [k \in DOMAIN s |-> v]
    BY <1>1, <1>8
  <2>2. StringOf(i)!Fill(v)
    BY <1>4, <2>1 DEF StringOf!Fill
  <2>3. QED
    BY <1>1, <2>2 DEF StringStep, StringOf!Next
<1>9. QED
  BY <1>3, <1>5, <1>6, <1>7, <1>8

---------------------------------------------------------------------------
(* The program.                                                            *)

(* The blocks that are the buffer's, if it is initialised.                 *)
Before(i) == IF i \in live THEN Own(buffers[i]) ELSE {}

LossIsForMemory == heap' \ Owned' # heap \ Owned => result' = "ENOMEM"

(* What is proved of every step.                                           *)
StepIsRight == IInv' /\ LossIsForMemory /\ \A j \in Names : StringStep(j)

LEMMA LiveFits ==
  ASSUME IInv, NEW i \in live
  PROVE  Fits(heap, buffers[i]) /\ i \in Names
  BY DEF IInv, TypeOK, WritesStayInside, OneOwner, CapacitiesAreObjects, Fits

(* The others own blocks that are not the buffer's.                        *)
LEMMA OthersApart ==
  ASSUME IInv, NEW i \in Names, NEW j \in live \ {i}, buffers[j].owned
  PROVE  buffers[j].stor_begin \in heap \ Before(i)
  BY DEF IInv, OneOwner, Before, Own

LEMMA OwnedByOthers ==
  ASSUME IInv, NEW i \in Names
  PROVE  /\ Owned = Before(i) \cup {buffers[j].stor_begin : j \in {k \in live \ {i} : buffers[k].owned}}
  BY DEF Owned, Before, Own

(* What others see of a step that changes one buffer.                      *)
LEMMA OthersStay ==
  ASSUME IInv, NEW i \in Names, NEW o, Became(i, o), live' \ {i} = live \ {i},
         NEW j \in Names \ {i}
  PROVE  StringStep(j)
<1>1. buffers'[j] = buffers[j] /\ (j \in live' <=> j \in live)
  BY DEF IInv, TypeOK, Became
<1>2. QED
  BY <1>1, StringStays

(* A step that leaves one buffer initialised.                              *)
LEMMA PlacedKeepsInv ==
  ASSUME IInv, NEW i \in Names, NEW o, Became(i, o), live' = live \cup {i},
         o.result \in Results, Fits(o.heap, o.buffer),
         heap \ Before(i) \subseteq o.heap,
         \A k \in heap \ Before(i) : k \notin Own(o.buffer),
         o.result # "ENOMEM" => o.heap \ Own(o.buffer) = heap \ Before(i),
         i \in live => Promises(buffers[i], o)
  PROVE  StepIsRight
<1>1. /\ buffers \in [Names -> BufferRecord] /\ live \subseteq Names
      /\ o.buffer \in BufferRecord /\ o.heap \subseteq Blocks
  BY DEF IInv, TypeOK, Fits
<1>2. /\ heap' = o.heap /\ result' = o.result
      /\ buffers' \in [Names -> BufferRecord] /\ buffers'[i] = o.buffer
      /\ \A j \in live \ {i} : buffers'[j] = buffers[j]
  BY <1>1 DEF Became
<1>3. TypeOK'
  BY <1>1, <1>2 DEF TypeOK, Results
<1>4. \A j \in live' : Fits(heap', buffers'[j])
  <2> SUFFICES ASSUME NEW j \in live' PROVE Fits(heap', buffers'[j])
    OBVIOUS
  <2>1. CASE j = i
    BY <1>2, <2>1
  <2>2. CASE j # i
    <3>1. j \in live \ {i} /\ buffers'[j] = buffers[j] /\ Fits(heap, buffers[j])
      BY <1>2, <2>2, LiveFits
    <3>2. buffers[j].owned => buffers[j].stor_begin \in heap \ Before(i)
      BY <3>1, OthersApart
    <3>3. QED
      BY <1>1, <1>2, <3>1, <3>2 DEF Fits
  <2>3. QED
    BY <2>1, <2>2
<1>5. WritesStayInside' /\ CapacitiesAreObjects'
  BY <1>4 DEF WritesStayInside, CapacitiesAreObjects, Fits
<1>6. OneOwner'
  <2>1. \A j \in live' : IF buffers'[j].owned THEN buffers'[j].stor_begin \in heap'
                                              ELSE buffers'[j].stor_begin = Array
    BY <1>4 DEF Fits
  <2>2. ASSUME NEW j \in live \ {i}, buffers[j].owned, o.buffer.owned
        PROVE  buffers[j].stor_begin # o.buffer.stor_begin
    BY <2>2, OthersApart DEF Own
  <2>3. ASSUME NEW j \in live', NEW k \in live', j # k, buffers'[j].owned, buffers'[k].owned
        PROVE  buffers'[j].stor_begin # buffers'[k].stor_begin
    <3>1. CASE j = i
      BY <1>2, <2>2, <2>3, <3>1
    <3>2. CASE k = i
      BY <1>2, <2>2, <2>3, <3>2
    <3>3. CASE j # i /\ k # i
      <4>1. j \in live /\ k \in live /\ buffers'[j] = buffers[j] /\ buffers'[k] = buffers[k]
        BY <1>2, <3>3
      <4>2. QED
        BY <2>3, <4>1 DEF IInv, OneOwner
    <3>4. QED
      BY <3>1, <3>2, <3>3
  <2>4. QED
    BY <2>1, <2>3 DEF OneOwner
<1>7. LossIsForMemory
  <2> DEFINE others == {buffers[j].stor_begin : j \in {k \in live \ {i} : buffers[k].owned}}
  <2>1. Owned = Before(i) \cup others
    BY OwnedByOthers
  <2>2. Owned' = Own(o.buffer) \cup others
    BY <1>1, <1>2 DEF Owned, Own
  <2> HIDE DEF others
  <2>3. QED
    BY <1>2, <2>1, <2>2 DEF LossIsForMemory
<1>8. ASSUME NEW j \in Names PROVE StringStep(j)
  <2>1. CASE j # i
    BY <2>1, OthersStay
  <2>2. CASE j = i /\ i \notin live
    BY <1>2, <2>2, StringStarts
  <2>3. CASE j = i /\ i \in live
    <3>1. o.buffer.stor_begin # NoBlock
      BY Addresses DEF Fits
    <3>2. QED
      BY <1>1, <1>2, <2>3, <3>1, StringChanges
  <2>4. QED
    BY <2>1, <2>2, <2>3
<1>9. QED
  BY <1>3, <1>5, <1>6, <1>7, <1>8 DEF IInv, StepIsRight

(* A step after which one buffer is not initialised.                       *)
LEMMA GoneKeepsInv ==
  ASSUME IInv, NEW i \in Names, NEW o, Became(i, o), live' = live \ {i},
         o.result \in Results, o.heap \subseteq Blocks, o.buffer \in BufferRecord,
         heap \ Before(i) \subseteq o.heap,
         o.result # "ENOMEM" => o.heap = heap \ Before(i)
  PROVE  StepIsRight
<1>1. buffers \in [Names -> BufferRecord] /\ live \subseteq Names
  BY DEF IInv, TypeOK
<1>2. /\ heap' = o.heap /\ result' = o.result
      /\ buffers' \in [Names -> BufferRecord]
      /\ \A j \in live \ {i} : buffers'[j] = buffers[j]
  BY <1>1 DEF Became
<1>3. TypeOK'
  BY <1>1, <1>2 DEF TypeOK, Results
<1>4. \A j \in live' : Fits(heap', buffers'[j])
  <2> SUFFICES ASSUME NEW j \in live' PROVE Fits(heap', buffers'[j])
    OBVIOUS
  <2>1. j \in live \ {i} /\ buffers'[j] = buffers[j] /\ Fits(heap, buffers[j])
    BY <1>2, LiveFits
  <2>2. buffers[j].owned => buffers[j].stor_begin \in heap \ Before(i)
    BY <2>1, OthersApart
  <2>3. QED
    BY <1>2, <2>1, <2>2 DEF Fits
<1>5. WritesStayInside' /\ CapacitiesAreObjects'
  BY <1>4 DEF WritesStayInside, CapacitiesAreObjects, Fits
<1>6. OneOwner'
  <2>1. \A j \in live' : IF buffers'[j].owned THEN buffers'[j].stor_begin \in heap'
                                              ELSE buffers'[j].stor_begin = Array
    BY <1>4 DEF Fits
  <2>2. \A j \in live' : j \in live /\ buffers'[j] = buffers[j]
    BY <1>2
  <2>3. QED
    BY <2>1, <2>2 DEF OneOwner, IInv
<1>7. LossIsForMemory
  <2> DEFINE others == {buffers[j].stor_begin : j \in {k \in live \ {i} : buffers[k].owned}}
  <2>1. Owned = Before(i) \cup others
    BY OwnedByOthers
  <2>2. Owned' = others
    BY <1>1, <1>2 DEF Owned
  <2> HIDE DEF others
  <2>3. QED
    BY <1>2, <2>1, <2>2 DEF LossIsForMemory
<1>8. ASSUME NEW j \in Names PROVE StringStep(j)
  <2>1. CASE j # i
    BY <2>1, OthersStay
  <2>2. CASE j = i /\ i \notin live
    BY <2>2, StringStays
  <2>3. CASE j = i /\ i \in live
    BY <1>1, <2>3, StringEnds
  <2>4. QED
    BY <2>1, <2>2, <2>3
<1>9. QED
  BY <1>3, <1>5, <1>6, <1>7, <1>8 DEF IInv, StepIsRight

(* A call keeps the invariant when its outcomes are as they should be.     *)
LEMMA CallKeepsInv ==
  ASSUME IInv, NEW i \in live, NEW outcomes, Call(i, outcomes),
         \A o \in outcomes : Keeps(heap, buffers[i], o) /\ Promises(buffers[i], o)
  PROVE  StepIsRight
<1>1. PICK o \in outcomes :
        /\ Became(i, o)
        /\ live' = IF o.buffer.stor_begin = NoBlock THEN live \ {i} ELSE live
  BY DEF Call
<1>2. Keeps(heap, buffers[i], o) /\ Promises(buffers[i], o)
  BY <1>1
<1>3. i \in Names /\ Before(i) = Own(buffers[i])
  BY LiveFits DEF Before
<1>4. CASE o.buffer.stor_begin # NoBlock
  <2>1. live' = live \cup {i}
    BY <1>1, <1>4
  <2>2. QED
    BY <1>1, <1>2, <1>3, <1>4, <2>1, PlacedKeepsInv DEF Keeps
<1>5. CASE o.buffer.stor_begin = NoBlock
  <2>1. live' = live \ {i}
    BY <1>1, <1>5
  <2>2. o.heap \ Own(o.buffer) = o.heap
    BY <1>2, <1>5, Addresses DEF Keeps, Own
  <2>3. QED
    BY <1>1, <1>2, <1>3, <2>1, <2>2, GoneKeepsInv DEF Keeps
<1>6. QED
  BY <1>4, <1>5

(* A buffer that is initialised with a block that was free, or with none.  *)
LEMMA NewKeepsInv ==
  ASSUME IInv, NEW i \in Names \ live, NEW o, Became(i, o), live' = live \cup {i},
         o.result = "SUCCESS", Fits(o.heap, o.buffer),
         o.heap = heap \cup Own(o.buffer), Own(o.buffer) \cap heap = {}
  PROVE  StepIsRight
<1>1. Before(i) = {}
  BY DEF Before
<1>2. o.result \in Results /\ o.heap \ Own(o.buffer) = heap
  BY DEF Results
<1>3. QED
  BY <1>1, <1>2, PlacedKeepsInv

LEMMA InitOwnedKeepsInv ==
  ASSUME IInv, NEW i \in Names, NEW n \in Lengths, InitOwned(i, n)
  PROVE  StepIsRight
<1> DEFINE m == AtLeastOne(n)
           b == buffers[i]
           Made(k) == [stor_begin |-> k, capacity |-> m, contents |-> Zeros(n), owned |-> TRUE]
<1>1. n \in Nat /\ m \in Nat /\ m >= n /\ n <= MaxObject
  BY BuffersAssumption, BufferAssumption, AtLeastOneType
<1>2. PICK k \in Allocation(heap, m) :
        \E o \in {IF k = NoBlock
                    THEN Outcome("ENOMEM", heap, [b EXCEPT !.stor_begin = NoBlock])
                    ELSE Outcome("SUCCESS", heap \cup {k}, Made(k))} :
          Became(i, o) /\ live' = IF o.result = "SUCCESS" THEN live \cup {i} ELSE live
  BY DEF InitOwned, InitBuffer
<1>3. b \in BufferRecord /\ heap \subseteq Blocks /\ i \notin live
  BY DEF IInv, TypeOK, InitOwned
<1>4. CASE k = NoBlock
  <2> DEFINE c == [b EXCEPT !.stor_begin = NoBlock]
             o == Outcome("ENOMEM", heap, c)
  <2>1. c \in BufferRecord
    BY <1>3 DEF BufferRecord
  <2> HIDE DEF c
  <2>2. o.result = "ENOMEM" /\ o.heap = heap /\ o.buffer = c
    BY DEF Outcome
  <2>3. Became(i, o) /\ live' = live \ {i}
    BY <1>2, <1>3, <1>4, <2>2 DEF c
  <2> HIDE DEF o
  <2>4. QED
    BY <1>3, <2>1, <2>2, <2>3, GoneKeepsInv DEF Results
<1>5. CASE k # NoBlock
  <2> DEFINE o == Outcome("SUCCESS", heap \cup {k}, Made(k))
  <2>1. k \in Blocks /\ k \notin heap /\ m <= MaxObject
    BY <1>1, <1>5, AllocationType
  <2>2. Zeros(n) \in Seq(Byte) /\ Len(Zeros(n)) = n
    BY <1>1, ZerosType
  <2>3. /\ Made(k) \in BufferRecord /\ Made(k).stor_begin = k /\ Made(k).capacity = m
        /\ Made(k).contents = Zeros(n) /\ Made(k).owned
    BY <1>1, <2>1, <2>2 DEF BufferRecord
  <2> HIDE DEF Made, m
  <2>4. o.result = "SUCCESS" /\ o.heap = heap \cup {k} /\ o.buffer = Made(k)
    BY DEF Outcome
  <2>5. Became(i, o) /\ live' = live \cup {i}
    BY <1>2, <1>5, <2>4
  <2>6. Fits(o.heap, o.buffer)
    BY <1>1, <1>3, <2>1, <2>2, <2>3, <2>4 DEF Fits, Size
  <2>7. Own(o.buffer) = {k}
    BY <2>3, <2>4 DEF Own
  <2> HIDE DEF o
  <2>8. QED
    BY <1>3, <2>1, <2>4, <2>5, <2>6, <2>7, NewKeepsInv
<1>6. QED
  BY <1>4, <1>5

LEMMA TakeOverKeepsInv ==
  ASSUME IInv, NEW i \in Names, NEW s \in Strings, TakeOver(i, s)
  PROVE  StepIsRight
<1>1. s \in Seq(Byte) /\ Len(s) \in Nat /\ Len(s) <= MaxObject
  BY BuffersAssumption, LenProperties
<1>2. i \notin live /\ heap \subseteq Blocks
  BY DEF IInv, TypeOK, TakeOver
<1>3. PICK k \in Blocks \ heap :
        LET o == InitFromBytes(heap \cup {k}, buffers[i], k, s)
        IN  IF o.result = "SUCCESS"
              THEN Became(i, o) /\ live' = live \cup {i}
              ELSE result' = o.result /\ UNCHANGED <<heap, buffers, live>>
  BY DEF TakeOver
<1>4. CASE s = << >>
  <2>1. InitFromBytes(heap \cup {k}, buffers[i], k, s).result = "EINVAL"
    BY <1>4 DEF InitFromBytes, Outcome
  <2>2. result' = "EINVAL" /\ UNCHANGED <<heap, buffers, live>>
    BY <1>3, <2>1
  <2>3. Owned' = Owned
    BY <2>2 DEF Owned
  <2>4. \A j \in Names : StringStep(j)
    BY <2>2, StringStays
  <2>5. QED
    BY <2>2, <2>3, <2>4 DEF IInv, TypeOK, WritesStayInside, OneOwner, CapacitiesAreObjects,
                            LossIsForMemory, StepIsRight
<1>5. CASE s # << >>
  <2> DEFINE b == [stor_begin |-> k, capacity |-> Len(s), contents |-> s, owned |-> TRUE]
             o == Outcome("SUCCESS", heap \cup {k}, b)
  <2>1. InitFromBytes(heap \cup {k}, buffers[i], k, s) = o
    BY <1>5 DEF InitFromBytes
  <2>2. /\ b \in BufferRecord /\ b.stor_begin = k /\ b.capacity = Len(s)
        /\ b.contents = s /\ b.owned
    BY <1>1 DEF BufferRecord
  <2> HIDE DEF b
  <2>3. o.result = "SUCCESS" /\ o.heap = heap \cup {k} /\ o.buffer = b
    BY DEF Outcome
  <2> HIDE DEF o
  <2>4. Became(i, o) /\ live' = live \cup {i}
    BY <1>3, <2>1, <2>3
  <2>5. Fits(o.heap, o.buffer)
    BY <1>1, <1>2, <2>2, <2>3 DEF Fits, Size
  <2>6. Own(o.buffer) = {k}
    BY <2>2, <2>3 DEF Own
  <2>7. QED
    BY <1>2, <2>3, <2>4, <2>5, <2>6, NewKeepsInv
<1>6. QED
  BY <1>4, <1>5

LEMMA ViewKeepsInv ==
  ASSUME IInv, NEW i \in Names, NEW s \in Strings, View(i, s)
  PROVE  StepIsRight
<1> DEFINE b == [stor_begin |-> Array, capacity |-> Len(s), contents |-> s, owned |-> FALSE]
           o == Outcome("SUCCESS", heap, b)
<1>1. s \in Seq(Byte) /\ Len(s) \in Nat /\ Len(s) <= MaxObject
  BY BuffersAssumption, LenProperties
<1>2. i \notin live /\ heap \subseteq Blocks
  BY DEF IInv, TypeOK, View
<1>3. Became(i, o) /\ live' = live \cup {i}
  BY DEF View, InitView
<1>4. /\ b \in BufferRecord /\ b.stor_begin = Array /\ b.capacity = Len(s)
      /\ b.contents = s /\ b.owned = FALSE
  BY <1>1 DEF BufferRecord
<1> HIDE DEF b
<1>5. o.result = "SUCCESS" /\ o.heap = heap /\ o.buffer = b
  BY DEF Outcome
<1> HIDE DEF o
<1>6. Fits(o.heap, o.buffer)
  BY <1>1, <1>2, <1>4, <1>5 DEF Fits, Size
<1>7. Own(o.buffer) = {}
  BY <1>4, <1>5 DEF Own
<1>8. QED
  BY <1>2, <1>3, <1>5, <1>6, <1>7, NewKeepsInv

LEMMA DestroyKeepsInv ==
  ASSUME IInv, NEW i \in Names, Destroy(i)
  PROVE  StepIsRight
<1> DEFINE o == DestroyBuffer(heap, buffers[i])
<1>1. i \in live /\ Became(i, o) /\ live' = live \ {i}
  BY DEF Destroy
<1>2. Before(i) = Own(buffers[i]) /\ Fits(heap, buffers[i])
  BY <1>1, LiveFits DEF Before
<1>3. Keeps(heap, buffers[i], o) /\ Own(o.buffer) \subseteq {NoBlock}
  BY <1>2, DestroyKeeps
<1> HIDE DEF o
<1>4. o.heap \ Own(o.buffer) = o.heap
  BY <1>3, Addresses DEF Keeps
<1>5. QED
  BY <1>1, <1>2, <1>3, <1>4, GoneKeepsInv DEF Keeps

LEMMA NextKeepsInv ==
  ASSUME IInv, [Next]_buffersVars
  PROVE  StepIsRight
<1>1. CASE UNCHANGED buffersVars
  <2>1. Owned' = Owned
    BY <1>1 DEF buffersVars, Owned
  <2>2. \A j \in Names : StringStep(j)
    BY <1>1, StringStays DEF buffersVars
  <2>3. QED
    BY <1>1, <2>1, <2>2 DEF buffersVars, IInv, TypeOK, WritesStayInside, OneOwner,
                            CapacitiesAreObjects, LossIsForMemory, StepIsRight
<1>2. ASSUME NEW i \in Names, NEW n \in Lengths, InitOwned(i, n)
      PROVE  StepIsRight
  BY <1>2, InitOwnedKeepsInv
<1>3. ASSUME NEW i \in Names, NEW s \in Strings, TakeOver(i, s)
      PROVE  StepIsRight
  BY <1>3, TakeOverKeepsInv
<1>4. ASSUME NEW i \in Names, NEW s \in Strings, View(i, s)
      PROVE  StepIsRight
  BY <1>4, ViewKeepsInv
<1>5. ASSUME NEW i \in Names, Destroy(i)
      PROVE  StepIsRight
  BY <1>5, DestroyKeepsInv
<1>6. ASSUME NEW i \in Names, NEW n \in Lengths, Call(i, Resize(heap, buffers[i], n))
      PROVE  StepIsRight
  <2>1. i \in live /\ n \in 0 .. MaxObject
    BY <1>6, BuffersAssumption DEF Call
  <2>2. \A o \in Resize(heap, buffers[i], n) :
          Keeps(heap, buffers[i], o) /\ Promises(buffers[i], o)
    BY <2>1, LiveFits, ResizeKeeps, ResizePromises
  <2>3. QED
    BY <1>6, <2>1, <2>2, CallKeepsInv
<1>7. ASSUME NEW i \in Names, Call(i, Clear(heap, buffers[i]))
      PROVE  StepIsRight
  <2>1. i \in live /\ 0 \in 0 .. MaxObject
    BY <1>7, BufferAssumption DEF Call
  <2>2. \A o \in Clear(heap, buffers[i]) :
          Keeps(heap, buffers[i], o) /\ Promises(buffers[i], o)
    BY <2>1, LiveFits, ResizeKeeps, ResizePromises DEF Clear
  <2>3. QED
    BY <1>7, <2>1, <2>2, CallKeepsInv
<1>8. ASSUME NEW i \in Names, Call(i, Prune(heap, buffers[i]))
      PROVE  StepIsRight
  <2>1. i \in live
    BY <1>8 DEF Call
  <2>2. Fits(heap, buffers[i])
    BY <2>1, LiveFits
  <2>3. Size(buffers[i]) \in Nat
    BY <2>2, LenProperties DEF Fits, BufferRecord, Size
  <2>4. \A o \in Prune(heap, buffers[i]) :
          Keeps(heap, buffers[i], o) /\ Promises(buffers[i], o)
    BY <2>2, <2>3, ReallocKeeps, ReallocPromises DEF Prune, Same, Promises
  <2>5. QED
    BY <1>8, <2>1, <2>4, CallKeepsInv
<1>9. ASSUME NEW i \in Names, NEW v \in Byte, Call(i, {Fill(heap, buffers[i], v)})
      PROVE  StepIsRight
  <2>1. i \in live
    BY <1>9 DEF Call
  <2>2. \A o \in {Fill(heap, buffers[i], v)} :
          Keeps(heap, buffers[i], o) /\ Promises(buffers[i], o)
    BY <2>1, LiveFits, FillKeeps, FillPromises
  <2>3. QED
    BY <1>9, <2>1, <2>2, CallKeepsInv
<1>10. ASSUME NEW i \in Names, NEW s \in Strings, Call(i, AppendBytes(heap, buffers[i], s))
       PROVE  StepIsRight
  <2>1. i \in live /\ s \in Seq(Byte) /\ Len(s) <= MaxObject
    BY <1>10, BuffersAssumption DEF Call
  <2>2. \A o \in AppendBytes(heap, buffers[i], s) :
          Keeps(heap, buffers[i], o) /\ Promises(buffers[i], o)
    BY <2>1, LiveFits, AppendKeeps, AppendPromises
  <2>3. QED
    BY <1>10, <2>1, <2>2, CallKeepsInv
<1>11. ASSUME NEW i \in Names, NEW j \in live \ {i},
              Call(i, Concat(heap, buffers[i], buffers[j]))
       PROVE  StepIsRight
  <2>1. i \in live /\ j \in live
    BY <1>11 DEF Call
  <2>2. Fits(heap, buffers[i]) /\ Fits(heap, buffers[j])
    BY <2>1, LiveFits
  <2>3. buffers[j].contents \in Seq(Byte) /\ Len(buffers[j].contents) <= MaxObject
    <3>1. buffers[j].contents \in Seq(Byte) /\ buffers[j].capacity \in Nat
      BY <2>2 DEF Fits, BufferRecord
    <3>2. Len(buffers[j].contents) <= buffers[j].capacity /\ buffers[j].capacity <= MaxObject
      BY <2>2 DEF Fits, Size
    <3>3. QED
      BY <3>1, <3>2, LenProperties, BufferAssumption
  <2>4. \A o \in Concat(heap, buffers[i], buffers[j]) :
          Keeps(heap, buffers[i], o) /\ Promises(buffers[i], o)
    BY <2>2, <2>3, AppendKeeps, AppendPromises DEF Concat
  <2>5. QED
    BY <1>11, <2>1, <2>4, CallKeepsInv
<1>12. ASSUME NEW i \in Names, NEW n \in Lengths, Call(i, ExtendWithZeros(heap, buffers[i], n))
       PROVE  StepIsRight
  <2>1. i \in live /\ n \in 0 .. MaxObject
    BY <1>12, BuffersAssumption DEF Call
  <2>2. \A o \in ExtendWithZeros(heap, buffers[i], n) :
          Keeps(heap, buffers[i], o) /\ Promises(buffers[i], o)
    BY <2>1, LiveFits, ExtendKeeps, ExtendPromises
  <2>3. QED
    BY <1>12, <2>1, <2>2, CallKeepsInv
<1>13. QED
  BY <1>1, <1>2, <1>3, <1>4, <1>5, <1>6, <1>7, <1>8, <1>9, <1>10, <1>11, <1>12 DEF Next

LEMMA InitInv == Init => IInv
<1> SUFFICES ASSUME Init PROVE IInv
  OBVIOUS
<1>1. Uninitialised \in BufferRecord
  BY EmptySeq DEF Uninitialised, BufferRecord
<1>2. QED
  BY <1>1 DEF Init, IInv, TypeOK, WritesStayInside, OneOwner, CapacitiesAreObjects

---------------------------------------------------------------------------
(* The invariant holds for every number of buffers, heap, width of size_t  *)
(* and arrays of the program, whichever allocations fail.                  *)
THEOREM BuffersSafe == Spec => []IInv
<1>1. IInv /\ [Next]_buffersVars => IInv'
  BY NextKeepsInv DEF StepIsRight
<1>2. QED
  BY InitInv, <1>1, PTL DEF Spec

(* No sequence of calls makes a buffer write past its storage: the         *)
(* arithmetic of buffer.c that doubles and clips capacities never yields   *)
(* less than what it then writes.                                          *)
THEOREM WritesAlwaysStayInside == Spec => []WritesStayInside
<1>1. IInv => WritesStayInside
  BY DEF IInv
<1>2. QED
  BY BuffersSafe, <1>1, PTL

(* Storage is allocated while a buffer uses it, and used by one buffer, so *)
(* that nothing is freed twice, also after failed calls.                   *)
THEOREM AlwaysOneOwner == Spec => []OneOwner
<1>1. IInv => OneOwner
  BY DEF IInv
<1>2. QED
  BY BuffersSafe, <1>1, PTL

(* No call but one that runs out of memory leaves a block without owner.   *)
THEOREM LeaksAreForMemory == Spec => LeaksOnlyWithoutMemory
<1>1. IInv /\ [Next]_buffersVars
        => [heap' \ Owned' # heap \ Owned => result' = "ENOMEM"]_buffersVars
  BY NextKeepsInv DEF StepIsRight, LossIsForMemory
<1>2. QED
  BY BuffersSafe, <1>1, PTL DEF Spec, LeaksOnlyWithoutMemory

(* Buffers implement strings of bytes: whatever the capacities, a call     *)
(* adds bytes at the end, cuts some off, overwrites all, changes nothing   *)
(* or loses the string, and never touches the string of another buffer.    *)
THEOREM BuffersAreByteStrings == Spec => ImplementsByteString
<1>1. Init => \A i \in Names : StringOf(i)!Init
  BY DEF Init, StringOf!Init
<1>2. IInv /\ [Next]_buffersVars
        => [\A i \in Names : [StringOf(i)!Next]_(StringOf(i)!stringVars)]_buffersVars
  BY NextKeepsInv DEF StepIsRight, StringStep
<1>3. QED
  BY BuffersSafe, <1>1, <1>2, PTL DEF Spec, ImplementsByteString
============================================================================
