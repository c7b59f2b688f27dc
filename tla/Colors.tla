------------------------------- MODULE Colors -----------------------------
(***************************************************************************)
(* Colours, their 16-bit form, mixtures of two, and the conversion to red, *)
(* green, blue and white by an object that a program sets up again and     *)
(* again.  Exact fractions stand for floats.                               *)
(***************************************************************************)
EXTENDS Rationals, Integers, Sequences

CONSTANTS
  Palette,       \* the colours a program uses
  Whites,        \* the fixed values it gives to the white channel
  Temperatures,  \* the colour temperatures it asks for, in kelvins
  Ratios,        \* in which it mixes two colours
  BlackBody      \* the colour of a black body, by its temperature

Channel == {"red", "green", "blue"}
Color == [Channel -> 0 .. 255]

Clamped(x, least, greatest) == IF x < least THEN least ELSE IF x > greatest THEN greatest ELSE x
FromTemperature(temperature) == BlackBody[Clamped(temperature, 1000, 40000)]

ASSUME ColorsAssumption ==
  /\ Palette \subseteq Color /\ Whites \subseteq 0 .. 255 /\ Temperatures \subseteq Nat
  /\ \A t \in Temperatures : FromTemperature(t) \in Color

VARIABLES
  conv,     \* sb_rgbw_conversion_t
  wanted,   \* how the program set it up last
  shown     \* the last colour that was made of others

colorVars == <<conv, wanted, shown>>

---------------------------------------------------------------------------
Truncated(p) == p[1] \div p[2]       \* of a fraction that is not negative

AlmostEquals(a, b, eps) == \A c \in Channel : a[c] - b[c] <= eps /\ b[c] - a[c] <= eps

DecodeRgb565(color) ==
  [red |-> (color \div 2048) * 8, green |-> ((color \div 32) % 64) * 4, blue |-> (color % 32) * 8]

EncodeRgb565(color) ==
  (color.red \div 8) * 2048 + (color.green \div 4) * 32 + color.blue \div 8

LinearInterpolation(first, second, ratio) ==
  LET Mixed(c) == Plus(Rat(first[c]), Times(Rat(second[c] - first[c]), ratio))
  IN  [c \in Channel |-> IF Below(Mixed(c), Rat(0)) THEN 0
                         ELSE IF Below(Rat(255), Mixed(c)) THEN 255 ELSE Truncated(Mixed(c))]

(* The fixed value lies in the same memory as the first multiplier.        *)
Garbled == Rat(0)

UseFixedValue(cv, value) ==
  [cv EXCEPT !.method = "fixed", !.fixed_value = value, !.mul.red = Garbled]
TurnOff(cv) == UseFixedValue(cv, 0)
UseMinSubtraction(cv) == [cv EXCEPT !.method = "min"]

Largest(color) ==
  CHOOSE m \in {1} \cup {color[c] : c \in Channel} : \A c \in Channel : color[c] <= m

(* A colour of no light is given a multiplier all the same.                *)
UseReferenceColor(cv, reference) ==
  LET mul == [c \in Channel |-> IF reference[c] >= 1 THEN Ratio(Largest(reference), reference[c])
                                                      ELSE Rat(255)]
  IN  [method |-> "reference", fixed_value |-> 0, mul |-> mul,
       div |-> [c \in Channel |-> Over(Rat(1), mul[c])], temperature |-> 0]

(* Mutant: the temperature is compared whatever the method.                *)
UseColorTemperatureIfNew(cv, t) ==
  IF cv.temperature = t THEN cv
  ELSE [UseReferenceColor(cv, FromTemperature(t)) EXCEPT !.temperature = t]

(* The temperature that is set already is not set again.                   *)
UseColorTemperature(cv, t) ==
  IF cv.method = "reference" /\ cv.temperature = t THEN cv
  ELSE [UseReferenceColor(cv, FromTemperature(t)) EXCEPT !.temperature = t]

(* The white of a reference colour that a colour holds, and the rest.      *)
WhiteIn(color, cv) ==
  LET scaled == Least({Times(Rat(color[c]), cv.mul[c]) : c \in Channel})
  IN  IF Below(Rat(255), scaled) THEN 255 ELSE Truncated(scaled)

WithoutWhite(color, white, cv) ==
  [c \in Channel |->
     LET correction == Times(Rat(white), cv.div[c])
     IN  IF Below(correction, Rat(color[c])) THEN Truncated(Minus(Rat(color[c]), correction))
                                             ELSE 0]

Whitened(color, white) == [red |-> color.red, green |-> color.green, blue |-> color.blue,
                           white |-> white]

(* Mutant: the blue channel has no say in how much white there is.         *)
ToRgbwWithoutBlue(color, cv) ==
  LET white == WhiteIn([color EXCEPT !.blue = 255], cv)
  IN  Whitened(WithoutWhite(color, white, cv), white)

ToRgbw(color, cv) ==
  CASE cv.method = "min" ->
         LET white == CHOOSE v \in {color[c] : c \in Channel} : \A c \in Channel : v <= color[c]
         IN  Whitened([c \in Channel |-> color[c] - white], white)
    [] cv.method = "reference" ->
         LET white == WhiteIn(color, cv) IN Whitened(WithoutWhite(color, white, cv), white)
    [] cv.method = "fixed" -> Whitened(color, cv.fixed_value)

---------------------------------------------------------------------------
Zeroed == [method |-> "fixed", fixed_value |-> 0, mul |-> [c \in Channel |-> Garbled],
           div |-> [c \in Channel |-> Garbled], temperature |-> 0]

Wish(how, arg) == [how |-> how, arg |-> arg]
Black == [c \in Channel |-> 0]

ColorsInit == conv = Zeroed /\ wanted = Wish("off", 0) /\ shown = [how |-> "nothing"]

SetUp(cv, wish) == conv' = cv /\ wanted' = wish /\ UNCHANGED shown

Configure ==
  \/ SetUp(TurnOff(conv), Wish("off", 0))
  \/ \E v \in Whites : SetUp(UseFixedValue(conv, v), Wish("fixed", v))
  \/ SetUp(UseMinSubtraction(conv), Wish("min", 0))
  \/ \E t \in Temperatures : SetUp(UseColorTemperature(conv, t), Wish("temperature", t))
  \/ \E r \in Palette : SetUp(UseReferenceColor(conv, r), Wish("reference", r))

Convert(color) ==
  shown' = [how |-> "rgbw", from |-> color, to |-> ToRgbw(color, conv)]

Pack(color) ==
  shown' = [how |-> "565", from |-> color, to |-> DecodeRgb565(EncodeRgb565(color))]

Mix(first, second, ratio) ==
  shown' = [how |-> "mix", from |-> first, with |-> second, ratio |-> ratio,
            to |-> LinearInterpolation(first, second, ratio)]

Use ==
  /\ \E color \in Palette :
       Convert(color) \/ Pack(color)
       \/ \E other \in Palette, ratio \in Ratios : Mix(color, other, ratio)
  /\ UNCHANGED <<conv, wanted>>

ColorsNext == Configure \/ Use

ColorsSpec == ColorsInit /\ [][ColorsNext]_colorVars

---------------------------------------------------------------------------
(* How a new object is set up as it was wanted.                            *)
Fresh ==
  CASE wanted.how = "off" -> Zeroed
    [] wanted.how = "fixed" -> UseFixedValue(Zeroed, wanted.arg)
    [] wanted.how = "min" -> UseMinSubtraction(Zeroed)
    [] wanted.how = "reference" -> UseReferenceColor(Zeroed, wanted.arg)
    [] wanted.how = "temperature" -> UseReferenceColor(Zeroed, FromTemperature(wanted.arg))

(* The object converts as it was set up last, whatever it was set up for   *)
(* before: no method sees what another left in the memory they share, and  *)
(* a temperature is only taken as set already when it still is.  (Zero     *)
(* kelvins, out of the range of temperatures, are how a reference colour   *)
(* is marked, and do not replace it.)                                      *)
ConvertsAsSetUp ==
  wanted # Wish("temperature", 0) => \A c \in Palette : ToRgbw(c, conv) = ToRgbw(c, Fresh)

(* The light of the white channel, its share of each colour, and the light *)
(* of the colours together give the colour back, within less than a unit,  *)
(* and there is no white left in all three colours.                        *)
GivesColorBack(from, to) ==
  LET Share(white, c) == IF conv.method = "min" THEN Rat(white) ELSE Times(Rat(white), conv.div[c])
  IN  /\ \A c \in Channel :
           LET together == Plus(Rat(to[c]), Share(to.white, c))
           IN  NotAbove(together, Rat(from[c])) /\ Below(Rat(from[c] - 1), together)
      /\ to.white < 255 => \E c \in Channel : Below(Rat(from[c]), Share(to.white + 1, c))

Between(x, a, b) == (a <= x /\ x <= b) \/ (b <= x /\ x <= a)

(* Colours survive what is done to them: the conversion to white neither   *)
(* loses nor adds light, sixteen bits give a colour back within the bits   *)
(* that are cut off, a mixture lies between the two colours it is made of, *)
(* and is one of them at either end.                                       *)
ColorsSurvive ==
  /\ conv.method \in {"min", "reference"} => \A c \in Palette : GivesColorBack(c, ToRgbw(c, conv))
  /\ shown.how = "565" =>
       AlmostEquals(shown.from, shown.to, 7) /\ EncodeRgb565(shown.from) = EncodeRgb565(shown.to)
  /\ shown.how = "mix" /\ NotAbove(Rat(0), shown.ratio) /\ NotAbove(shown.ratio, Rat(1)) =>
       /\ \A c \in Channel : Between(shown.to[c], shown.from[c], shown.with[c])
       /\ shown.ratio = Rat(0) => shown.to = shown.from
       /\ shown.ratio = Rat(1) => shown.to = shown.with

---------------------------------------------------------------------------
(* Why the object converts as it was set up: what its method reads is what *)
(* the last set-up wrote, and a temperature other than the zero of a       *)
(* reference colour is that of its multipliers as long as the method is    *)
(* one of reference.                                                       *)
Wishes == {Wish("off", 0), Wish("min", 0)} \cup {Wish("fixed", v) : v \in Whites}
          \cup {Wish("temperature", t) : t \in Temperatures}
          \cup {Wish("reference", r) : r \in Palette}

HasMultipliersOf(cv, reference) ==
  /\ cv.method = "reference"
  /\ cv.mul = UseReferenceColor(Zeroed, reference).mul
  /\ cv.div = UseReferenceColor(Zeroed, reference).div

ConvMeans(cv, wish) ==
  /\ wish.how = "off" => cv.method = "fixed" /\ cv.fixed_value = 0
  /\ wish.how = "fixed" => cv.method = "fixed" /\ cv.fixed_value = wish.arg
  /\ wish.how = "min" => cv.method = "min"
  /\ wish.how = "reference" => HasMultipliersOf(cv, wish.arg)
  /\ wish.how = "temperature" /\ wish.arg # 0 => HasMultipliersOf(cv, FromTemperature(wish.arg))

ConversionInv ==
  /\ DOMAIN conv = DOMAIN Zeroed /\ wanted \in Wishes
  /\ conv.method = "reference" /\ conv.temperature # 0 =>
       HasMultipliersOf(conv, FromTemperature(conv.temperature))
  /\ ConvMeans(conv, wanted)
===========================================================================
