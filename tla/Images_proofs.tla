--------------------------- MODULE Images_proofs ---------------------------
(***************************************************************************)
(* What the conversions of april::Image keep of a pixel and where its      *)
(* corrected rectangles lie, for all bytes and all sizes; and, from these, *)
(* that no call of april::Image stores a byte behind its last, and that    *)
(* the calls leave the picture they were asked for.                        *)
(***************************************************************************)
EXTENDS Images, TLAPS

PixelsOf(f) == [0..getFormatBpp(f) - 1 -> Byte]

(* A pixel of one byte becomes a gray in every format.                     *)
LEMMA From1Shows ==
    ASSUME NEW f \in Formats1, NEW g \in Formats, NEW p \in [0..0 -> Byte]
    PROVE  /\ Shown(g, ConvertFrom1(g, p)) = Reduced(g, Shown(f, p))
           /\ ConvertFrom1(g, p) \in PixelsOf(g)
<1>1. CASE g \in Formats1
  BY <1>1 DEF Shown, Reduced, ConvertFrom1, PixelsOf, getFormatBpp, Byte, RedIndex, GreenIndex,
     BlueIndex, AlphaIndex, Formats, Formats1, Formats3, Formats4, AlphaFormats, LeftRGB, RightRGB
<1>2. CASE g \in Formats3
  BY <1>2 DEF Shown, Reduced, ConvertFrom1, PixelsOf, getFormatBpp, Byte, RedIndex, GreenIndex,
     BlueIndex, AlphaIndex, Formats, Formats1, Formats3, Formats4, AlphaFormats, LeftRGB, RightRGB,
     Bytes3
<1>3. CASE g \in Formats4
  BY <1>3 DEF Shown, Reduced, ConvertFrom1, PixelsOf, getFormatBpp, Byte, RedIndex, GreenIndex,
     BlueIndex, AlphaIndex, Formats, Formats1, Formats3, Formats4, AlphaFormats, LeftRGB, RightRGB,
     Bytes4
<1> QED BY <1>1, <1>2, <1>3 DEF Formats

(* A pixel of three bytes keeps its channels.                              *)
LEMMA From3Shows ==
    ASSUME NEW f \in Formats3, NEW g \in Formats, NEW p \in [0..2 -> Byte]
    PROVE  /\ Shown(g, ConvertFrom3(f, g, p)) = Reduced(g, Shown(f, p))
           /\ ConvertFrom3(f, g, p) \in PixelsOf(g)
<1>1. CASE f = "RGB"
  <2>a. Shown(f, p) = [r |-> p[0], g |-> p[1], b |-> p[2], a |-> 255]
    BY <1>1 DEF Shown, RedIndex, GreenIndex, BlueIndex, Formats1, AlphaFormats, RightRGB
  <2>b. p[0] \in Byte /\ p[1] \in Byte /\ p[2] \in Byte /\ 255 \in Byte
    BY DEF Byte
  <2>1. CASE g \in Formats1
    BY <1>1, <2>1, <2>a, <2>b DEF Shown, Reduced, PixelsOf, getFormatBpp, RedIndex, GreenIndex,
       BlueIndex, AlphaIndex, Formats1, Formats3, Formats4, AlphaFormats, LeftRGB, RightRGB, ConvertFrom3, Bytes1
  <2>2. CASE g = "RGB"
    <3>1. ConvertFrom3(f, g, p) = Bytes3(p[0], p[1], p[2])
      BY <1>1, <2>2, <2>b DEF ConvertFrom3, Bytes3, Formats1, Formats3
    <3> QED BY <2>2, <2>a, <2>b, <3>1 DEF Shown, Reduced, PixelsOf, getFormatBpp, RedIndex, GreenIndex,
       BlueIndex, AlphaIndex, Formats1, Formats3, Formats4, AlphaFormats, LeftRGB, RightRGB, Bytes3
  <2>4. CASE g = "BGR"
    <3>1. ConvertFrom3(f, g, p) = Bytes3(p[2], p[1], p[0])
      BY <1>1, <2>4, <2>b DEF ConvertFrom3, Bytes3, Formats1, Formats3
    <3> QED BY <2>4, <2>a, <2>b, <3>1 DEF Shown, Reduced, PixelsOf, getFormatBpp, RedIndex, GreenIndex,
       BlueIndex, AlphaIndex, Formats1, Formats3, Formats4, AlphaFormats, LeftRGB, RightRGB, Bytes3
  <2>3. ASSUME g \in Formats4
        PROVE  ConvertFrom3(f, g, p) =
                 IF ShiftFormats("RGBX", g)
                 THEN IF InvertOrder("RGBX", g) THEN Bytes4(255, p[2], p[1], p[0])
                                                ELSE Bytes4(255, p[0], p[1], p[2])
                 ELSE IF InvertOrder("RGBX", g) THEN Bytes4(p[2], p[1], p[0], 255)
                                                ELSE Bytes4(p[0], p[1], p[2], 255)
    BY <1>1, <2>3 DEF ConvertFrom3, Formats1, Formats3, Formats4, LeftRGB, RightRGB
  <2>5. CASE g \in LeftRGB
    <3>1. CASE g \in RedFirst
      <4>1. ConvertFrom3(f, g, p) = Bytes4(p[0], p[1], p[2], 255)
        BY <2>5, <2>3, <3>1 DEF ShiftFormats, InvertOrder, LeftRGB, RightRGB, RedFirst, BlueFirst,
           Formats4
      <4> QED BY <2>5, <2>a, <2>b, <3>1, <4>1 DEF Shown, Reduced, PixelsOf, getFormatBpp, RedIndex, GreenIndex,
           BlueIndex, AlphaIndex, Formats1, Formats3, Formats4, AlphaFormats, LeftRGB, RightRGB,
           RedFirst, BlueFirst, Bytes4
    <3>2. CASE g \in BlueFirst
      <4>1. ConvertFrom3(f, g, p) = Bytes4(p[2], p[1], p[0], 255)
        BY <2>5, <2>3, <3>2 DEF ShiftFormats, InvertOrder, LeftRGB, RightRGB, RedFirst, BlueFirst,
           Formats4
      <4> QED BY <2>5, <2>a, <2>b, <3>2, <4>1 DEF Shown, Reduced, PixelsOf, getFormatBpp, RedIndex, GreenIndex,
           BlueIndex, AlphaIndex, Formats1, Formats3, Formats4, AlphaFormats, LeftRGB, RightRGB,
           RedFirst, BlueFirst, Bytes4
    <3> QED BY <2>5, <3>1, <3>2 DEF LeftRGB, RedFirst, BlueFirst
  <2>6. CASE g \in RightRGB
    <3>1. CASE g \in RedFirst
      <4>1. ConvertFrom3(f, g, p) = Bytes4(255, p[0], p[1], p[2])
        BY <2>6, <2>3, <3>1 DEF ShiftFormats, InvertOrder, LeftRGB, RightRGB, RedFirst, BlueFirst,
           Formats4
      <4> QED BY <2>6, <2>a, <2>b, <3>1, <4>1 DEF Shown, Reduced, PixelsOf, getFormatBpp, RedIndex, GreenIndex,
           BlueIndex, AlphaIndex, Formats1, Formats3, Formats4, AlphaFormats, LeftRGB, RightRGB,
           RedFirst, BlueFirst, Bytes4
    <3>2. CASE g \in BlueFirst
      <4>1. ConvertFrom3(f, g, p) = Bytes4(255, p[2], p[1], p[0])
        BY <2>6, <2>3, <3>2 DEF ShiftFormats, InvertOrder, LeftRGB, RightRGB, RedFirst, BlueFirst,
           Formats4
      <4> QED BY <2>6, <2>a, <2>b, <3>2, <4>1 DEF Shown, Reduced, PixelsOf, getFormatBpp, RedIndex, GreenIndex,
           BlueIndex, AlphaIndex, Formats1, Formats3, Formats4, AlphaFormats, LeftRGB, RightRGB,
           RedFirst, BlueFirst, Bytes4
    <3> QED BY <2>6, <3>1, <3>2 DEF RightRGB, RedFirst, BlueFirst
  <2> QED BY <2>1, <2>2, <2>4, <2>5, <2>6 DEF Formats, Formats3, Formats4
<1>2. CASE f = "BGR"
  <2>a. Shown(f, p) = [r |-> p[2], g |-> p[1], b |-> p[0], a |-> 255]
    BY <1>2 DEF Shown, RedIndex, GreenIndex, BlueIndex, Formats1, AlphaFormats, RightRGB
  <2>b. p[0] \in Byte /\ p[1] \in Byte /\ p[2] \in Byte /\ 255 \in Byte
    BY DEF Byte
  <2>1. CASE g \in Formats1
    BY <1>2, <2>1, <2>a, <2>b DEF Shown, Reduced, PixelsOf, getFormatBpp, RedIndex, GreenIndex,
       BlueIndex, AlphaIndex, Formats1, Formats3, Formats4, AlphaFormats, LeftRGB, RightRGB, ConvertFrom3, Bytes1
  <2>2. CASE g = "RGB"
    <3>1. ConvertFrom3(f, g, p) = Bytes3(p[2], p[1], p[0])
      BY <1>2, <2>2, <2>b DEF ConvertFrom3, Bytes3, Formats1, Formats3
    <3> QED BY <2>2, <2>a, <2>b, <3>1 DEF Shown, Reduced, PixelsOf, getFormatBpp, RedIndex, GreenIndex,
       BlueIndex, AlphaIndex, Formats1, Formats3, Formats4, AlphaFormats, LeftRGB, RightRGB, Bytes3
  <2>4. CASE g = "BGR"
    <3>1. ConvertFrom3(f, g, p) = Bytes3(p[0], p[1], p[2])
      BY <1>2, <2>4, <2>b DEF ConvertFrom3, Bytes3, Formats1, Formats3
    <3> QED BY <2>4, <2>a, <2>b, <3>1 DEF Shown, Reduced, PixelsOf, getFormatBpp, RedIndex, GreenIndex,
       BlueIndex, AlphaIndex, Formats1, Formats3, Formats4, AlphaFormats, LeftRGB, RightRGB, Bytes3
  <2>3. ASSUME g \in Formats4
        PROVE  ConvertFrom3(f, g, p) =
                 IF ShiftFormats("BGRX", g)
                 THEN IF InvertOrder("BGRX", g) THEN Bytes4(255, p[2], p[1], p[0])
                                                ELSE Bytes4(255, p[0], p[1], p[2])
                 ELSE IF InvertOrder("BGRX", g) THEN Bytes4(p[2], p[1], p[0], 255)
                                                ELSE Bytes4(p[0], p[1], p[2], 255)
    BY <1>2, <2>3 DEF ConvertFrom3, Formats1, Formats3, Formats4, LeftRGB, RightRGB
  <2>5. CASE g \in LeftRGB
    <3>1. CASE g \in RedFirst
      <4>1. ConvertFrom3(f, g, p) = Bytes4(p[2], p[1], p[0], 255)
        BY <2>5, <2>3, <3>1 DEF ShiftFormats, InvertOrder, LeftRGB, RightRGB, RedFirst, BlueFirst,
           Formats4
      <4> QED BY <2>5, <2>a, <2>b, <3>1, <4>1 DEF Shown, Reduced, PixelsOf, getFormatBpp, RedIndex, GreenIndex,
           BlueIndex, AlphaIndex, Formats1, Formats3, Formats4, AlphaFormats, LeftRGB, RightRGB,
           RedFirst, BlueFirst, Bytes4
    <3>2. CASE g \in BlueFirst
      <4>1. ConvertFrom3(f, g, p) = Bytes4(p[0], p[1], p[2], 255)
        BY <2>5, <2>3, <3>2 DEF ShiftFormats, InvertOrder, LeftRGB, RightRGB, RedFirst, BlueFirst,
           Formats4
      <4> QED BY <2>5, <2>a, <2>b, <3>2, <4>1 DEF Shown, Reduced, PixelsOf, getFormatBpp, RedIndex, GreenIndex,
           BlueIndex, AlphaIndex, Formats1, Formats3, Formats4, AlphaFormats, LeftRGB, RightRGB,
           RedFirst, BlueFirst, Bytes4
    <3> QED BY <2>5, <3>1, <3>2 DEF LeftRGB, RedFirst, BlueFirst
  <2>6. CASE g \in RightRGB
    <3>1. CASE g \in RedFirst
      <4>1. ConvertFrom3(f, g, p) = Bytes4(255, p[2], p[1], p[0])
        BY <2>6, <2>3, <3>1 DEF ShiftFormats, InvertOrder, LeftRGB, RightRGB, RedFirst, BlueFirst,
           Formats4
      <4> QED BY <2>6, <2>a, <2>b, <3>1, <4>1 DEF Shown, Reduced, PixelsOf, getFormatBpp, RedIndex, GreenIndex,
           BlueIndex, AlphaIndex, Formats1, Formats3, Formats4, AlphaFormats, LeftRGB, RightRGB,
           RedFirst, BlueFirst, Bytes4
    <3>2. CASE g \in BlueFirst
      <4>1. ConvertFrom3(f, g, p) = Bytes4(255, p[0], p[1], p[2])
        BY <2>6, <2>3, <3>2 DEF ShiftFormats, InvertOrder, LeftRGB, RightRGB, RedFirst, BlueFirst,
           Formats4
      <4> QED BY <2>6, <2>a, <2>b, <3>2, <4>1 DEF Shown, Reduced, PixelsOf, getFormatBpp, RedIndex, GreenIndex,
           BlueIndex, AlphaIndex, Formats1, Formats3, Formats4, AlphaFormats, LeftRGB, RightRGB,
           RedFirst, BlueFirst, Bytes4
    <3> QED BY <2>6, <3>1, <3>2 DEF RightRGB, RedFirst, BlueFirst
  <2> QED BY <2>1, <2>2, <2>4, <2>5, <2>6 DEF Formats, Formats3, Formats4
<1> QED BY <1>1, <1>2 DEF Formats3

(* A pixel of four bytes keeps its channels, and its alpha where both      *)
(* formats have one.                                                       *)
LEMMA From4Shows ==
    ASSUME NEW f \in Formats4, NEW g \in Formats, NEW p \in [0..3 -> Byte]
    PROVE  /\ Shown(g, ConvertFrom4(f, g, p)) = Reduced(g, Shown(f, p))
           /\ ConvertFrom4(f, g, p) \in PixelsOf(g)
<1>1. CASE g \in Formats1
  <2>1. ConvertFrom4(f, g, p) = Bytes1(RedByte(f, p))
    BY <1>1 DEF ConvertFrom4
  <2>2. RedByte(f, p) = p[RedIndex(f)] /\ RedByte(f, p) \in Byte
    BY DEF RedByte, RedIndex, Byte, Formats1, Formats4, LeftRGB, RightRGB
  <2>3. getFormatBpp(g) = 1 /\ RedIndex(g) = 0 /\ GreenIndex(g) = 0 /\ BlueIndex(g) = 0
        /\ g \notin AlphaFormats
    BY <1>1 DEF getFormatBpp, RedIndex, GreenIndex, BlueIndex, AlphaFormats, Formats1, Formats3,
       Formats4, LeftRGB, RightRGB
  <2>4. Shown(f, p).r = p[RedIndex(f)]
    BY DEF Shown
  <2> QED BY <1>1, <2>1, <2>2, <2>3, <2>4 DEF Shown, Reduced, PixelsOf, Bytes1
<1>2. CASE g \in Formats3
  <2>1. ConvertFrom4(f, g, p) = Narrow(f, g, p)
    BY <1>2 DEF ConvertFrom4, Formats3, Formats1
  <2>2. CASE g = "RGB"
    BY <2>1, <2>2 DEF Shown, Reduced, PixelsOf, getFormatBpp, Byte, RedIndex, GreenIndex,
     BlueIndex, AlphaIndex, Formats, Formats1, Formats3, Formats4, AlphaFormats, LeftRGB, RightRGB,
     RedFirst, BlueFirst, Narrow, ShiftFormats, InvertOrder, Bytes3
  <2>3. CASE g = "BGR"
    BY <2>1, <2>3 DEF Shown, Reduced, PixelsOf, getFormatBpp, Byte, RedIndex, GreenIndex,
     BlueIndex, AlphaIndex, Formats, Formats1, Formats3, Formats4, AlphaFormats, LeftRGB, RightRGB,
     RedFirst, BlueFirst, Narrow, ShiftFormats, InvertOrder, Bytes3
  <2> QED BY <1>2, <2>2, <2>3 DEF Formats3
<1>3. CASE g \in Formats4
  <2>0. g \notin Formats1 /\ g \notin Formats3
    BY <1>3 DEF Formats1, Formats3, Formats4, LeftRGB, RightRGB
  <2>1. CASE ShiftFormats(f, g)
    <3>1. ConvertFrom4(f, g, p) = RightShift(f, g, p)
      BY <2>0, <2>1 DEF ConvertFrom4
    <3> QED BY <1>3, <2>1, <3>1 DEF Shown, Reduced, PixelsOf, getFormatBpp, Byte, RedIndex, GreenIndex,
     BlueIndex, AlphaIndex, Formats, Formats1, Formats3, Formats4, AlphaFormats, LeftRGB, RightRGB,
     RedFirst, BlueFirst, RightShift, CopiesAlpha, ShiftFormats, InvertOrder, Bytes4
  <2>2. CASE ShiftFormats(g, f)
    <3>1. ConvertFrom4(f, g, p) = LeftShift(f, g, p)
      BY <2>0, <2>2 DEF ConvertFrom4, ShiftFormats, LeftRGB, RightRGB
    <3> QED BY <1>3, <2>2, <3>1 DEF Shown, Reduced, PixelsOf, getFormatBpp, Byte, RedIndex, GreenIndex,
     BlueIndex, AlphaIndex, Formats, Formats1, Formats3, Formats4, AlphaFormats, LeftRGB, RightRGB,
     RedFirst, BlueFirst, LeftShift, CopiesAlpha, ShiftFormats, InvertOrder, Bytes4
  <2>3. CASE ~ShiftFormats(f, g) /\ ~ShiftFormats(g, f) /\ InvertOrder(f, g)
    <3>1. ConvertFrom4(f, g, p) = Inverted(f, g, p)
      BY <2>0, <2>3 DEF ConvertFrom4
    <3> QED BY <1>3, <2>3, <3>1 DEF Shown, Reduced, PixelsOf, getFormatBpp, Byte, RedIndex, GreenIndex,
     BlueIndex, AlphaIndex, Formats, Formats1, Formats3, Formats4, AlphaFormats, LeftRGB, RightRGB,
     RedFirst, BlueFirst, Inverted, CopiesAlpha, ShiftFormats, InvertOrder, Bytes4
  <2>4. CASE ~ShiftFormats(f, g) /\ ~ShiftFormats(g, f) /\ ~InvertOrder(f, g)
    <3>1. ConvertFrom4(f, g, p) =
            IF (f \in AlphaFormats) # (g \in AlphaFormats) THEN Keep(g, p) ELSE p
      BY <2>0, <2>4 DEF ConvertFrom4
    <3> QED BY <1>3, <2>4, <3>1 DEF Shown, Reduced, PixelsOf, getFormatBpp, Byte, RedIndex, GreenIndex,
     BlueIndex, AlphaIndex, Formats, Formats1, Formats3, Formats4, AlphaFormats, LeftRGB, RightRGB,
     RedFirst, BlueFirst, Keep, ShiftFormats, InvertOrder, Bytes4
  <2> QED BY <2>1, <2>2, <2>3, <2>4
<1> QED BY <1>1, <1>2, <1>3 DEF Formats

(* convertToFormat(): in every format a pixel of any other shows the color *)
(* it showed before, as far as the format can keep it.                     *)
THEOREM ConversionKeepsColors ==
    ASSUME NEW f \in Formats, NEW g \in Formats, NEW p \in PixelsOf(f)
    PROVE  /\ Shown(g, Convert(f, g, p)) = Reduced(g, Shown(f, p))
           /\ Convert(f, g, p) \in PixelsOf(g)
<1>1. CASE f \in Formats1
  <2>1. p \in [0..0 -> Byte]
    BY <1>1 DEF PixelsOf, getFormatBpp, Formats1, Formats3, Formats4, LeftRGB, RightRGB
  <2> QED BY <1>1, <2>1, From1Shows DEF Convert
<1>2. CASE f \in Formats3
  <2>1. p \in [0..2 -> Byte] /\ f \notin Formats1
    BY <1>2 DEF PixelsOf, getFormatBpp, Formats1, Formats3, Formats4, LeftRGB, RightRGB
  <2> QED BY <1>2, <2>1, From3Shows DEF Convert
<1>3. CASE f \in Formats4
  <2>1. p \in [0..3 -> Byte] /\ f \notin Formats1 /\ f \notin Formats3
    BY <1>3 DEF PixelsOf, getFormatBpp, Formats1, Formats3, Formats4, LeftRGB, RightRGB
  <2> QED BY <1>3, <2>1, From4Shows DEF Convert
<1> QED BY <1>1, <1>2, <1>3 DEF Formats

(* needsConversion(): bytes that are taken as another format without a     *)
(* conversion show the same, unless the formats are RGB and BGR.           *)
THEOREM UnconvertedShowsTheSame ==
    ASSUME NEW f \in Formats, NEW g \in Formats, NEW p \in PixelsOf(f),
           ~needsConversion(f, g), {f, g} # Formats3
    PROVE  Shown(g, p) = Reduced(g, Shown(f, p))
<1>1. CASE f = g
  BY <1>1 DEF Shown, Reduced, RedIndex, GreenIndex, BlueIndex, Formats1, Formats, Formats3, Formats4,
     AlphaFormats, LeftRGB, RightRGB
<1>2. CASE f # g /\ f \in Formats4
  <2>1. /\ g \in Formats4 /\ ~ShiftFormats(f, g) /\ ~ShiftFormats(g, f) /\ ~InvertOrder(f, g)
        /\ g \notin AlphaFormats
    BY <1>2 DEF needsConversion, getFormatBpp, Formats, Formats1, Formats3
  <2>2. /\ RedIndex(f) = RedIndex(g) /\ GreenIndex(f) = GreenIndex(g)
        /\ BlueIndex(f) = BlueIndex(g) /\ g \notin Formats1
    BY <1>2, <2>1 DEF ShiftFormats, InvertOrder, RedIndex, GreenIndex, BlueIndex, Formats1,
       Formats4, LeftRGB, RightRGB, RedFirst, BlueFirst
  <2> QED BY <2>1, <2>2 DEF Shown, Reduced
<1>3. CASE f # g /\ f \notin Formats4
  <2>1. f \in Formats1 /\ g \in Formats1
    <3>1. getFormatBpp(f) = getFormatBpp(g)
      BY <1>3 DEF needsConversion
    <3>2. CASE f \in Formats3
      <4>1. g \in Formats3
        BY <3>1, <3>2, <1>3 DEF getFormatBpp, Formats, Formats1, Formats3, Formats4, LeftRGB, RightRGB
      <4> QED BY <1>3, <3>2, <4>1 DEF Formats3
    <3>3. CASE f \in Formats1
      BY <1>3, <3>1, <3>3 DEF getFormatBpp, Formats, Formats1, Formats3, Formats4, LeftRGB, RightRGB
    <3> QED BY <1>3, <3>2, <3>3 DEF Formats
  <2> QED BY <2>1 DEF Shown, Reduced, RedIndex, GreenIndex, BlueIndex, Formats1, AlphaFormats,
          LeftRGB, RightRGB
<1> QED BY <1>1, <1>2, <1>3

(* The two overloads of correctRect() without scaling keep exactly the     *)
(* part of the rectangle that lies in the image, and refuse only if there  *)
(* is none.                                                                *)
THEOREM ClipIsExact ==
    ASSUME NEW d \in Int, NEW m \in Int, NEW length \in Nat \ {0}
    PROVE  LET R == ClipAxis(d, m, length) IN
           /\ R.ok => /\ R.at \in 0..length - 1 /\ R.n \in Nat /\ R.at + R.n <= length
                      /\ \A i \in Int : i \in R.at..R.at + R.n - 1
                             <=> i \in 0..length - 1 /\ i \in d..d + m - 1
           /\ ~R.ok => \A i \in 0..length - 1 : i \notin d..d + m - 1
<1> DEFINE n == Least(IF d < 0 THEN m + d ELSE m, length - Most(d, 0))
          ok == d < length /\ n >= 0
          at == Most(d, 0)
<1>1. ClipAxis(d, m, length) = [ok |-> ok, at |-> at, n |-> n]
  BY DEF ClipAxis
<1>2. n \in Int /\ at \in Int
  BY DEF Least, Most
<1>3. ASSUME ok
      PROVE  at >= 0 /\ at < length /\ n >= 0 /\ at + n <= length
  BY <1>3 DEF Least, Most
<1>4. ASSUME ok, NEW i \in Int
      PROVE  i \in at..at + n - 1 <=> i \in 0..length - 1 /\ i \in d..d + m - 1
  BY <1>4 DEF Least, Most
<1>5. ASSUME ~ok, NEW i \in 0..length - 1
      PROVE  i \notin d..d + m - 1
  BY <1>5 DEF Least, Most
<1> HIDE DEF n, ok, at
<1> QED BY <1>1, <1>2, <1>3, <1>4, <1>5

THEOREM CopyIsExact ==
    ASSUME NEW s \in Int, NEW n \in Int, NEW from \in Nat, NEW d \in Int, NEW into \in Nat
    PROVE  LET R == CopyAxis(s, n, from, d, into) IN
           /\ R.ok => /\ R.s >= 0 /\ R.s + R.n <= from /\ R.n > 0
                      /\ R.d >= 0 /\ R.d + R.n <= into
                      /\ R.s - s = R.d - d
                      /\ \A i \in Int : i \in R.d..R.d + R.n - 1
                             <=> i \in 0..into - 1 /\ i \in d..d + n - 1
           /\ ~R.ok => \/ ~CheckAxis(s, n, from)
                       \/ \A i \in 0..into - 1 : i \notin d..d + n - 1
<1> DEFINE first == IF d < 0 THEN s - d ELSE s
          rest == IF d < 0 THEN n + d ELSE n
          fits == Least(rest, into - Most(d, 0))
          ok == CheckAxis(s, n, from) /\ first < from /\ rest > 0 /\ fits > 0
          at == Most(d, 0)
<1>1. CopyAxis(s, n, from, d, into) = [ok |-> ok, s |-> first, n |-> fits, d |-> at]
  BY DEF CopyAxis
<1>2. first \in Int /\ fits \in Int /\ at \in Int
  BY DEF Least, Most
<1>3. ASSUME ok
      PROVE  /\ first >= 0 /\ first + fits <= from /\ fits > 0
             /\ at >= 0 /\ at + fits <= into /\ first - s = at - d
             /\ \A i \in Int : i \in at..at + fits - 1 <=> i \in 0..into - 1 /\ i \in d..d + n - 1
  BY <1>3 DEF CheckAxis, Least, Most
<1>4. ASSUME ~ok, CheckAxis(s, n, from), NEW i \in 0..into - 1
      PROVE  i \notin d..d + n - 1
  BY <1>4 DEF CheckAxis, Least, Most
<1> HIDE DEF first, rest, fits, ok, at
<1> QED BY <1>1, <1>2, <1>3, <1>4

(* Division with a remainder.                                              *)
LEMMA Quotient ==
    ASSUME NEW a \in Int, NEW m \in Nat \ {0}
    PROVE  /\ a \div m \in Int
           /\ (a \div m) * m <= a
           /\ a < (a \div m) * m + m
  BY Z3

LEMMA Cancel ==
    ASSUME NEW a \in Int, NEW b \in Int, NEW m \in Nat \ {0}
    PROVE  /\ a * m <= b * m => a <= b
           /\ a * m < b * m => a < b
  BY Z3

(* The overload with scaling never leaves the source rectangle nor the     *)
(* image it draws into.                                                    *)
THEOREM StretchIsInside ==
    ASSUME NEW s \in Int, NEW n \in Int, NEW from \in Nat,
           NEW d \in Int, NEW m \in Int, NEW into \in Nat,
           n > 0, StretchAxis(s, n, from, d, m, into).ok
    PROVE  LET R == StretchAxis(s, n, from, d, m, into) IN
           /\ s <= R.s /\ R.s + R.n <= s + n /\ R.n > 0
           /\ 0 <= R.s /\ R.s + R.n <= from
           /\ 0 <= R.d /\ R.d + R.m <= into /\ R.m > 0
<1> DEFINE before == IF d < 0 THEN -d ELSE 0
          q == (before * n) \div m
          rest == (n * (m - before)) \div m
          after == Most(m - before - into + Most(d, 0), 0)
          fits == (rest * m - after * n) \div m
          kept == IF after > 0 THEN fits ELSE rest
<1>1. /\ m > 0 /\ CheckAxis(s, n, from) /\ m - before > 0 /\ m - before - after > 0 /\ kept > 0
      /\ StretchAxis(s, n, from, d, m, into).s = s + q
      /\ StretchAxis(s, n, from, d, m, into).n = kept
      /\ StretchAxis(s, n, from, d, m, into).d = Most(d, 0)
      /\ StretchAxis(s, n, from, d, m, into).m = m - before - after
  <2>1. m > 0
    BY DEF StretchAxis
  <2>2. Most(m, 1) = m
    BY <2>1 DEF Most
  <2> QED BY <2>1, <2>2 DEF StretchAxis
<1>2. before \in Nat /\ after \in Nat /\ Most(d, 0) \in Nat
  BY DEF Most
<1>3. before + Most(d, 0) = Most(d, -d) /\ m - before - after + Most(d, 0) <= into
  BY DEF Most
<1> HIDE DEF before, after
<1>4. m \in Nat \ {0} /\ before * n \in Nat /\ n * (m - before) \in Int /\ after * n \in Nat
  BY <1>1, <1>2, Z3
<1>5. q \in Int /\ q * m <= before * n /\ before * n < q * m + m
  <2> DEFINE a == before * n
  <2>1. a \in Int
    BY <1>4
  <2> HIDE DEF a
  <2>2. a \div m \in Int /\ (a \div m) * m <= a /\ a < (a \div m) * m + m
    BY <1>4, <2>1, Quotient
  <2> QED BY <2>2 DEF a
<1>6. rest \in Int /\ rest * m <= n * (m - before)
  BY <1>4, Quotient
<1> HIDE DEF q, rest
<1>7. fits \in Int /\ fits * m <= rest * m - after * n
  <2>1. rest * m - after * n \in Int
    BY <1>4, <1>6
  <2> QED BY <1>4, <2>1, Quotient
<1> HIDE DEF fits
<1>8. q >= 0
  <2>1. 0 * m < (q + 1) * m
    BY <1>4, <1>5, Z3
  <2> QED BY <2>1, <1>4, <1>5, Cancel
<1>9. q + rest <= n
  <2>1. (q + rest) * m <= n * m
    BY <1>2, <1>4, <1>5, <1>6, Z3
  <2> QED BY <2>1, <1>4, <1>5, <1>6, Cancel
<1>10. fits <= rest
  <2>1. fits * m <= rest * m
    BY <1>4, <1>6, <1>7, Z3
  <2> QED BY <2>1, <1>4, <1>6, <1>7, Cancel
<1>11. q + kept <= n
  BY <1>5, <1>6, <1>7, <1>9, <1>10
<1> QED BY <1>1, <1>2, <1>3, <1>5, <1>6, <1>7, <1>8, <1>11 DEF CheckAxis

-----------------------------------------------------------------------------
(* What the calls store.  Only the numbers of the pixels matter here: that *)
(* they are those of pixels of the image.                                  *)
Inside == 0..Width * Height - 1

LEMMA Sizes ==
    /\ Width \in Nat \ {0} /\ Height \in Nat \ {0} /\ Width * Height \in Nat
    /\ \A f \in ImageFormats : getFormatBpp(f) \in {1, 3, 4}
<1>1. Width \in Nat \ {0} /\ Height \in Nat \ {0}
  BY ImagesAssumption
<1>2. Width * Height \in Nat
  BY <1>1, Z3
<1> QED BY <1>1, <1>2, ImagesAssumption DEF getFormatBpp

LEMMA NumberInside ==
    ASSUME NEW x \in 0..Width - 1, NEW y \in 0..Height - 1
    PROVE  Number(x, y) \in Inside
<1>1. Width \in Nat /\ Height \in Nat /\ Width * Height \in Int /\ y * Width \in Int
  BY Sizes, Z3
<1>2. y * Width >= 0
  BY <1>1, Z3
<1>3. (y + 1) * Width <= Height * Width
  BY <1>1, Z3
<1>4. (y + 1) * Width = y * Width + Width /\ Height * Width = Width * Height
  BY <1>1, Z3
<1> QED BY <1>1, <1>2, <1>3, <1>4 DEF Number, Inside

(* The rows of a rectangle in the image, and a run from its first pixel if *)
(* it is as wide as the image.                                             *)
LEMMA RowsInside ==
    ASSUME NEW x \in Nat, NEW y \in Nat, NEW w \in Int, NEW h \in Int,
           x + w <= Width, y + h <= Height
    PROVE  Rows(x, y, w, h) \subseteq Inside
<1> SUFFICES ASSUME NEW i \in 0..w - 1, NEW j \in 0..h - 1
             PROVE  Number(x + i, y + j) \in Inside
  BY DEF Rows
<1>1. x + i \in 0..Width - 1 /\ y + j \in 0..Height - 1
  BY Sizes
<1> QED BY <1>1, NumberInside

LEMMA RunInside ==
    ASSUME NEW y \in Nat, NEW h \in Nat, y + h <= Height
    PROVE  Number(0, y)..Number(0, y) + Width * h - 1 \subseteq Inside
<1>1. Width \in Nat /\ Height \in Nat /\ Width * Height \in Int /\ y * Width \in Int
      /\ Width * h \in Int
  BY Sizes, Z3
<1>2. y * Width >= 0
  BY <1>1, Z3
<1>3. (y + h) * Width <= Height * Width
  BY <1>1, Z3
<1>4. (y + h) * Width = y * Width + Width * h /\ Height * Width = Width * Height
  BY <1>1, Z3
<1> QED BY <1>1, <1>2, <1>3, <1>4 DEF Number, Inside

LEMMA PlacedInside ==
    ASSUME NEW src, NEW X, NEW Y, NEW run,
           X.d \in Nat, X.n \in Int, X.d + X.n <= Width,
           Y.d \in Nat, Y.n \in Nat, Y.d + Y.n <= Height
    PROVE  DOMAIN Placed(src, X, Y, run) \subseteq Inside
<1>1. CASE run /\ X.s = 0 /\ X.d = 0 /\ src.w = Width /\ X.n = Width
  <2>1. DOMAIN Placed(src, X, Y, run) = Number(0, Y.d)..Number(0, Y.d) + Width * Y.n - 1
    BY <1>1 DEF Placed
  <2> QED BY <2>1, RunInside
<1>2. CASE ~(run /\ X.s = 0 /\ X.d = 0 /\ src.w = Width /\ X.n = Width)
  <2>1. Placed(src, X, Y, run) =
          [n \in Rows(X.d, Y.d, X.n, Y.n) |->
              X.s + Y.s * src.w + Column(n) - X.d + (Row(n) - Y.d) * src.w]
    BY <1>2, Zenon DEF Placed
  <2>2. DOMAIN Placed(src, X, Y, run) = Rows(X.d, Y.d, X.n, Y.n)
    BY <2>1
  <2>3. Y.n \in Int
    OBVIOUS
  <2>4. Rows(X.d, Y.d, X.n, Y.n) \subseteq Inside
    BY <2>3, RowsInside
  <2> QED BY <2>2, <2>4, Zenon
<1> QED BY <1>1, <1>2

(* The corrected destinations of copies, whatever is passed for the source. *)
LEMMA CopiedInto ==
    ASSUME NEW s, NEW n \in Int, NEW from, NEW d \in Int, NEW into \in Nat,
           CopyAxis(s, n, from, d, into).ok
    PROVE  LET X == CopyAxis(s, n, from, d, into) IN
           X.d \in Nat /\ X.n \in Nat /\ X.d + X.n <= into
<1> DEFINE rest == IF d < 0 THEN n + d ELSE n
          fits == Least(rest, into - Most(d, 0))
<1>1. fits \in Int /\ Most(d, 0) \in Nat /\ Most(d, 0) + fits <= into
  BY DEF Least, Most
<1>2. /\ CopyAxis(s, n, from, d, into).ok => fits > 0
      /\ CopyAxis(s, n, from, d, into).n = fits
      /\ CopyAxis(s, n, from, d, into).d = Most(d, 0)
  BY DEF CopyAxis
<1> HIDE DEF rest, fits
<1> QED BY <1>1, <1>2

LEMMA StretchedInto ==
    ASSUME NEW s \in Int, NEW n \in Int, NEW from, NEW d \in Int, NEW m \in Int,
           NEW into \in Nat, StretchAxis(s, n, from, d, m, into).ok
    PROVE  LET X == StretchAxis(s, n, from, d, m, into) IN
           X.s \in Int /\ X.n \in Int /\ X.d \in Nat /\ X.m \in Nat /\ X.d + X.m <= into
<1> DEFINE before == IF d < 0 THEN -d ELSE 0
          scale == Most(m, 1)
          first == s + (before * n) \div scale
          rest == (n * (m - before)) \div scale
          size == m - before
          after == Most(size - into + Most(d, 0), 0)
          fits == (rest * m - after * n) \div scale
          kept == IF after > 0 THEN fits ELSE rest
<1>1. size - after \in Int /\ Most(d, 0) \in Nat /\ Most(d, 0) + (size - after) <= into
  BY DEF Most
<1>2. before \in Int /\ size \in Int /\ after \in Int /\ scale \in Nat \ {0}
  BY DEF Most
<1>3. /\ StretchAxis(s, n, from, d, m, into).ok => size - after > 0
      /\ StretchAxis(s, n, from, d, m, into).s = first
      /\ StretchAxis(s, n, from, d, m, into).n = kept
      /\ StretchAxis(s, n, from, d, m, into).m = size - after
      /\ StretchAxis(s, n, from, d, m, into).d = Most(d, 0)
  BY DEF StretchAxis
<1> HIDE DEF before, scale, after
<1>4. first \in Int
  <2>1. before * n \in Int
    BY <1>2
  <2> QED BY <1>2, <2>1, Quotient
<1>5. rest \in Int
  <2>1. n * (m - before) \in Int
    BY <1>2
  <2> QED BY <1>2, <2>1, Quotient
<1> HIDE DEF first, rest
<1>6. fits \in Int
  <2>1. rest * m - after * n \in Int
    BY <1>2, <1>5
  <2> QED BY <1>2, <2>1, Quotient
<1> HIDE DEF size, fits
<1> QED BY <1>1, <1>3, <1>4, <1>5, <1>6

-----------------------------------------------------------------------------
(* The invariant: bytes are never added, and those behind the image are 0. *)
StaysInv ==
    /\ format \in ImageFormats
    /\ DOMAIN data = 0..Last
    /\ StaysInside

LEMMA StaysInit == Init => StaysInv
<1> SUFFICES ASSUME Init
             PROVE  StaysInv
  OBVIOUS
<1>1. format \in ImageFormats /\ DOMAIN data = 0..Last
  BY DEF Init
<1>2. \A a \in DOMAIN data : a >= Width * Height * bpp => data[a] = 0
  <2>1. Width * Height * bpp \in Int
    <3>1. bpp \in Int /\ Width * Height \in Int
      BY <1>1, Sizes DEF bpp
    <3> QED BY <3>1, Z3
  <2> DEFINE size == Width * Height * bpp
  <2> HIDE DEF size
  <2>2. \A a \in 0..Last : data[a] = IF a < size THEN Content[a] ELSE 0
    BY Zenon DEF Init, size
  <2>3. \A a \in 0..Last : a >= size => data[a] = 0
    BY <2>1, <2>2 DEF size
  <2> QED BY <1>1, <2>3 DEF size
<1> QED BY <1>1, <1>2, Zenon DEF StaysInv, StaysInside

(* A byte behind the image belongs to no pixel of it.                      *)
LEMMA BehindPixels ==
    ASSUME NEW a \in Int, NEW size \in {1, 3, 4}, a >= Width * Height * size
    PROVE  a \div size \notin Inside
<1> DEFINE all == Width * Height
<1>1. all \in Int
  BY Sizes
<1> HIDE DEF all
<1>2. all * size \in Int /\ a >= all * size
  BY <1>1 DEF all
<1>3. a \div size >= all
  BY <1>1, <1>2
<1> QED BY <1>1, <1>3 DEF Inside, all

(* A call that stores pixels of the image only, or has counted too many    *)
(* rows, keeps the invariant.                                              *)
LEMMA CallStays ==
    ASSUME StaysInv, NEW pixels, NEW asked, NEW defects, Call(pixels, asked, defects),
           "rows" \in defects \/ DOMAIN pixels \subseteq Inside
    PROVE  StaysInv'
<1>1. format' = format /\ format \in ImageFormats
  BY DEF Call, StaysInv
<1>2. /\ DOMAIN data' = DOMAIN data
      /\ \A a \in DOMAIN data :
            data'[a] = IF a \div bpp \in DOMAIN pixels
                       THEN pixels[a \div bpp][a % bpp] ELSE data[a]
  BY DEF Call, Painted
<1>3. DOMAIN data = 0..Last /\ 0..Last \subseteq Int
  BY DEF StaysInv
<1>4. bpp \in {1, 3, 4} /\ bpp' = bpp
  BY <1>1, Sizes DEF bpp
<1>5. ASSUME "rows" \notin met', NEW a \in DOMAIN data, a >= Width * Height * bpp
      PROVE  data'[a] = 0
  <2>1. "rows" \notin met /\ "rows" \notin defects
    BY <1>5 DEF Call
  <2>2. a \div bpp \notin DOMAIN pixels
    BY <1>3, <1>4, <1>5, <2>1, BehindPixels
  <2>3. data[a] = 0
    BY <1>5, <2>1 DEF StaysInv, StaysInside
  <2> QED BY <1>2, <1>5, <2>2, <2>3
<1>6. StaysInside'
  BY <1>2, <1>4, <1>5 DEF StaysInside
<1>7. (DOMAIN data = 0..Last)'
  BY <1>2, <1>3 DEF Last
<1> QED BY <1>1, <1>6, <1>7 DEF StaysInv

LEMMA NothingInside == DOMAIN Nothing \subseteq Inside
  BY DEF Nothing

LEMMA RefusedStays ==
    ASSUME StaysInv, Call(Nothing, Nothing, {})
    PROVE  StaysInv'
  BY NothingInside, CallStays

(* fillRect() fills rows of the image, or as many as it has from the first *)
(* row of a rectangle that covers all of them.                             *)
LEMMA FillRectStays ==
    ASSUME StaysInv, NEW x \in Int, NEW y \in Int, NEW w \in Int, NEW h \in Int, NEW c,
           FillRect(x, y, w, h, c)
    PROVE  StaysInv'
<1> DEFINE X == ClipAxis(x, w, Width)
          Y == ClipAxis(y, h, Height)
          defects == IF Uniform(c) THEN {}
                     ELSE (IF X.n = Width /\ Y.n < Height THEN {"rows"} ELSE {})
                          \cup (IF X.n = 0 \/ Y.n = 0 THEN {"empty"} ELSE {})
          asked == [p \in Region(x, y, w, h) |-> Reduced(format, c)]
<1>1. CASE X.ok /\ Y.ok
  <2>1. Call(Filled(X, Y, c), asked, defects)
    BY <1>1, Zenon DEF FillRect
  <2>2. /\ X.at \in 0..Width - 1 /\ X.n \in Nat /\ X.at + X.n <= Width
        /\ Y.at \in 0..Height - 1 /\ Y.n \in Nat /\ Y.at + Y.n <= Height
    BY <1>1, Sizes, ClipIsExact
  <2> HIDE DEF X, Y
  <2>3. CASE Uniform(c)
    <3>1. DOMAIN Filled(X, Y, c) = Rows(X.at, Y.at, X.n, Y.n)
      BY <2>3 DEF Filled
    <3>2. Rows(X.at, Y.at, X.n, Y.n) \subseteq Inside
      <4>1. X.at \in Nat /\ Y.at \in Nat /\ X.n \in Int /\ Y.n \in Int
        BY <2>2
      <4> QED BY <2>2, <4>1, RowsInside, Zenon
    <3> QED BY <2>1, <3>1, <3>2, CallStays
  <2>4. CASE ~Uniform(c) /\ X.at = 0 /\ X.n = Width /\ Y.n < Height
    <3>1. "rows" \in defects
      BY <2>4
    <3> QED BY <2>1, <3>1, CallStays
  <2>5. CASE ~Uniform(c) /\ X.at = 0 /\ X.n = Width /\ Y.n >= Height
    <3>1. Y.at = 0
      BY <2>2, <2>5, Sizes
    <3>2. DOMAIN Filled(X, Y, c) = FilledRun(0, Y.at, Width)
      BY <2>5 DEF Filled
    <3>3. FilledRun(0, 0, Width) \subseteq Inside
      <4>1. 0 \in Nat /\ Height \in Nat /\ 0 + Height <= Height
        BY Sizes
      <4>2. Number(0, 0)..Number(0, 0) + Width * Height - 1 \subseteq Inside
        BY <4>1, RunInside, Zenon
      <4> QED BY <4>2 DEF FilledRun
    <3> QED BY <2>1, <3>1, <3>2, <3>3, CallStays
  <2>6. CASE ~Uniform(c) /\ ~(X.at = 0 /\ X.n = Width)
    <3>1. DOMAIN Filled(X, Y, c) = Rows(X.at, Y.at, Most(X.n, 1), Most(Y.n, 1))
      BY <2>6 DEF Filled
    <3>2. Rows(X.at, Y.at, Most(X.n, 1), Most(Y.n, 1)) \subseteq Inside
      <4>1. Most(X.n, 1) \in Int /\ X.at + Most(X.n, 1) <= Width
        BY <2>2, Sizes DEF Most
      <4>2. Most(Y.n, 1) \in Int /\ Y.at + Most(Y.n, 1) <= Height
        BY <2>2, Sizes DEF Most
      <4>3. X.at \in Nat /\ Y.at \in Nat
        BY <2>2
      <4> QED BY <4>1, <4>2, <4>3, RowsInside, Zenon
    <3> QED BY <2>1, <3>1, <3>2, CallStays
  <2> QED BY <2>2, <2>3, <2>4, <2>5, <2>6, Sizes
<1>2. CASE ~(X.ok /\ Y.ok)
  <2>1. Call(Nothing, Nothing, {})
    BY <1>2, Zenon DEF FillRect
  <2> QED BY <2>1, RefusedStays
<1> QED BY <1>1, <1>2

LEMMA SetPixelStays ==
    ASSUME StaysInv, NEW x \in Int, NEW y \in Int, NEW c, SetPixel(x, y, c)
    PROVE  StaysInv'
<1>1. CASE CheckAxis(x, 0, Width) /\ CheckAxis(y, 0, Height)
  <2> DEFINE pixels == [n \in {Number(x, y)} |->
                           Convert("RGBA", format, Bytes4(c.r, c.g, c.b, c.a))]
            asked == [p \in {<<x, y>>} |-> Reduced(format, c)]
  <2>1. Call(pixels, asked, {})
    BY <1>1, Zenon DEF SetPixel
  <2>2. Number(x, y) \in Inside
    <3>1. x \in 0..Width - 1 /\ y \in 0..Height - 1
      BY <1>1, Sizes DEF CheckAxis
    <3> QED BY <3>1, NumberInside
  <2>3. DOMAIN pixels \subseteq Inside
    BY <2>2
  <2> QED BY <2>1, <2>3, CallStays
<1>2. CASE ~(CheckAxis(x, 0, Width) /\ CheckAxis(y, 0, Height))
  BY <1>2, RefusedStays DEF SetPixel
<1> QED BY <1>1, <1>2

LEMMA ClearStays ==
    ASSUME StaysInv, Clear
    PROVE  StaysInv'
<1> DEFINE pixels == [n \in 0..Width * Height - 1 |-> [k \in 0..bpp - 1 |-> 0]]
          asked == [p \in Positions |-> Reduced(format, [r |-> 0, g |-> 0, b |-> 0, a |-> 0])]
<1>1. Call(pixels, asked, {})
  BY Zenon DEF Clear
<1>2. DOMAIN pixels \subseteq Inside
  BY DEF Inside
<1> QED BY <1>1, <1>2, CallStays

LEMMA InvertStays ==
    ASSUME StaysInv, NEW x \in Int, NEW y \in Int, NEW w \in Int, NEW h \in Int,
           Invert(x, y, w, h)
    PROVE  StaysInv'
<1> DEFINE X == ClipAxis(x, w, Width)
          Y == ClipAxis(y, h, Height)
          pixels == [n \in Rows(X.at, Y.at, X.n, Y.n) |-> InvertedPixel(PixelOf(data, n))]
          asked == [p \in Region(x, y, w, h) |-> LET c == canvas[p] IN
                       [r |-> 255 - c.r, g |-> 255 - c.g, b |-> 255 - c.b, a |-> c.a]]
<1>1. CASE X.ok /\ Y.ok
  <2>1. Call(pixels, asked, {})
    BY <1>1, Zenon DEF Invert
  <2>2. /\ X.at \in 0..Width - 1 /\ X.n \in Nat /\ X.at + X.n <= Width
        /\ Y.at \in 0..Height - 1 /\ Y.n \in Nat /\ Y.at + Y.n <= Height
    BY <1>1, Sizes, ClipIsExact
  <2> HIDE DEF X, Y
  <2>3. Rows(X.at, Y.at, X.n, Y.n) \subseteq Inside
    <3>1. X.at \in Nat /\ Y.at \in Nat /\ X.n \in Int /\ Y.n \in Int
      BY <2>2
    <3> QED BY <2>2, <3>1, RowsInside, Zenon
  <2>4. DOMAIN pixels \subseteq Inside
    BY <2>3
  <2> QED BY <2>1, <2>4, CallStays
<1>2. CASE ~(X.ok /\ Y.ok)
  <2>1. Call(Nothing, Nothing, {})
    BY <1>2, Zenon DEF Invert
  <2> QED BY <2>1, RefusedStays
<1> QED BY <1>1, <1>2

(* write(): the rows of the corrected destination.                         *)
LEMMA WrittenInside ==
    ASSUME NEW src, NEW R, R.sw \in Int, R.sh \in Int, R.dx \in Int, R.dy \in Int
    PROVE  DOMAIN WrittenPixels(src, R) \subseteq Inside
<1> DEFINE X == CopyAxis(R.sx, R.sw, src.w, R.dx, Width)
          Y == CopyAxis(R.sy, R.sh, src.h, R.dy, Height)
<1>1. CASE X.ok /\ Y.ok
  <2>1. ASSUME NEW run
        PROVE  DOMAIN Placed(src, X, Y, run) \subseteq Inside
    <3>1. Width \in Nat /\ Height \in Nat
      BY Sizes
    <3>2. X.d \in Nat /\ X.n \in Nat /\ X.d + X.n <= Width
      BY <1>1, <3>1, CopiedInto, Zenon
    <3>3. Y.d \in Nat /\ Y.n \in Nat /\ Y.d + Y.n <= Height
      BY <1>1, <3>1, CopiedInto, Zenon
    <3>4. X.n \in Int
      BY <3>2
    <3> QED BY <3>2, <3>3, <3>4, PlacedInside, Zenon
  <2> HIDE DEF X, Y
  <2>2. CASE ~AlphaOnly(src)
    <3>1. WrittenPixels(src, R) = Stored(src, Placed(src, X, Y, TRUE))
      BY <1>1, <2>2, Zenon DEF WrittenPixels, X, Y
    <3> QED BY <2>1, <3>1 DEF Stored
  <2>3. CASE AlphaOnly(src) /\ HasAlpha
    <3>1. WrittenPixels(src, R) = AlphaStored(src, Placed(src, X, Y, FALSE))
      BY <1>1, <2>3, Zenon DEF WrittenPixels, X, Y
    <3> QED BY <2>1, <3>1 DEF AlphaStored
  <2>4. CASE AlphaOnly(src) /\ ~HasAlpha
    <3>1. WrittenPixels(src, R) = Nothing
      BY <1>1, <2>4, Zenon DEF WrittenPixels, X, Y
    <3> QED BY <3>1, NothingInside
  <2> QED BY <2>2, <2>3, <2>4
<1>2. CASE ~X.ok \/ ~Y.ok
  <2>1. WrittenPixels(src, R) = Nothing
    BY <1>2, Zenon DEF WrittenPixels
  <2> QED BY <2>1, NothingInside
<1> QED BY <1>1, <1>2

(* blit() stores the same, unless the rectangle is copied by write().      *)
LEMMA BlittedInside ==
    ASSUME NEW src, NEW R, NEW alpha,
           R.sw \in Int, R.sh \in Int, R.dx \in Int, R.dy \in Int,
           NEW fields, R \in [fields -> Int],
           {"sx", "sy", "sw", "sh", "dx", "dy"} \subseteq fields
    PROVE  DOMAIN BlittedPixels(src, R, alpha) \subseteq Inside
<1> DEFINE X == CopyAxis(R.sx, R.sw, src.w, R.dx, Width)
          Y == CopyAxis(R.sy, R.sh, src.h, R.dy, Height)
          from == Placed(src, X, Y, FALSE)
          W == [R EXCEPT !.sx = X.s, !.sy = Y.s, !.sw = X.n, !.sh = Y.n,
                         !.dx = X.d, !.dy = Y.d]
<1>1. CASE X.ok /\ Y.ok
  <2>1. /\ X.d \in Nat /\ X.n \in Nat /\ X.d + X.n <= Width
        /\ Y.d \in Nat /\ Y.n \in Nat /\ Y.d + Y.n <= Height
    <3>1. Width \in Nat /\ Height \in Nat
      BY Sizes
    <3> QED BY <1>1, <3>1, CopiedInto, Zenon
  <2>2. DOMAIN from \subseteq Inside
    <3>1. X.n \in Int
      BY <2>1
    <3> QED BY <2>1, <3>1, PlacedInside, Zenon
  <2> HIDE DEF X, Y, from
  <2>3. CASE src.format \notin AlphaFormats /\ alpha = 255
    <3>1. BlittedPixels(src, R, alpha) = WrittenPixels(src, W)
      BY <1>1, <2>3, Zenon DEF BlittedPixels, X, Y
    <3>2. W.sw \in Int /\ W.sh \in Int /\ W.dx \in Int /\ W.dy \in Int
      BY <2>1
    <3> HIDE DEF W
    <3> QED BY <3>1, <3>2, WrittenInside
  <2>4. CASE ~(src.format \notin AlphaFormats /\ alpha = 255)
    <3>1. CASE alpha = 0 \/ (AlphaOnly(src) /\ bpp # 4)
      <4>1. BlittedPixels(src, R, alpha) = Nothing
        BY <1>1, <2>4, <3>1, Zenon DEF BlittedPixels, X, Y
      <4> QED BY <4>1, NothingInside
    <3>2. CASE ~(alpha = 0 \/ (AlphaOnly(src) /\ bpp # 4))
      <4>1. BlittedPixels(src, R, alpha) =
              [n \in DOMAIN from |-> BlendedPixel(src, src.px[from[n]], PixelOf(data, n), alpha)]
        BY <1>1, <2>4, <3>2, Zenon DEF BlittedPixels, X, Y, from
      <4> QED BY <2>2, <4>1
    <3> QED BY <3>1, <3>2
  <2> QED BY <2>3, <2>4
<1>2. CASE ~X.ok \/ ~Y.ok
  <2>1. BlittedPixels(src, R, alpha) = Nothing
    BY <1>2, Zenon DEF BlittedPixels
  <2> QED BY <2>1, NothingInside
<1> QED BY <1>1, <1>2

(* The rectangles callers pass.                                            *)
LEMMA CopyFields ==
    ASSUME NEW R \in Copies
    PROVE  R \in [{"sx", "sy", "sw", "sh", "dx", "dy"} -> Int]
<1>1. R \in [sx : Int, sy : Int, sw : Int, sh : Int, dx : Int, dy : Int]
  BY ImagesAssumption
<1> QED BY <1>1

StretchNames == {"sx", "sy", "sw", "sh", "dx", "dy", "dw", "dh"}

LEMMA StretchFields ==
    ASSUME NEW R \in Stretches
    PROVE  R \in [StretchNames -> Int]
<1>1. R \in [sx : Int, sy : Int, sw : Int, sh : Int, dx : Int, dy : Int, dw : Int, dh : Int]
  BY ImagesAssumption
<1> QED BY <1>1 DEF StretchNames

(* The corrected axes of a scaled copy.                                    *)
LEMMA ClippedInto ==
    ASSUME NEW src, NEW R \in Stretches, ClippedX(src, R).ok, ClippedY(src, R).ok
    PROVE  LET X == ClippedX(src, R)  Y == ClippedY(src, R) IN
           /\ X.s \in Int /\ X.n \in Int /\ X.d \in Nat /\ X.m \in Nat /\ X.d + X.m <= Width
           /\ Y.s \in Int /\ Y.n \in Int /\ Y.d \in Nat /\ Y.m \in Nat /\ Y.d + Y.m <= Height
<1>1. Width \in Nat /\ Height \in Nat
  BY Sizes
<1>2. /\ R.sx \in Int /\ R.sw \in Int /\ R.dx \in Int /\ R.dw \in Int
      /\ R.sy \in Int /\ R.sh \in Int /\ R.dy \in Int /\ R.dh \in Int
  BY StretchFields DEF StretchNames
<1> QED BY <1>1, <1>2, StretchedInto, Zenon DEF ClippedX, ClippedY

LEMMA StretchedInside ==
    ASSUME NEW src, NEW R \in Stretches
    PROVE  DOMAIN StretchedPixels(src, R) \subseteq Inside
<1> DEFINE X == ClippedX(src, R)
          Y == ClippedY(src, R)
          converted == [n \in DOMAIN src.px |->
                            IF Cut(src) THEN Convert(src.format, format, src.px[n]) ELSE src.px[n]]
          spread == [n \in DOMAIN src.px |-> Beyond(src, n)]
          scaled == IF AlphaOnly(src) THEN Scaled(src, spread, X, Y, "ALPHA", FALSE)
                    ELSE Scaled(src, converted, X, Y, format, Cut(src))
          A == [X EXCEPT !.s = 0, !.n = X.m]
          B == [Y EXCEPT !.s = 0, !.n = Y.m]
          from == Placed(scaled, A, B, FALSE)
<1>1. CASE X.ok /\ Y.ok
  <2>1. /\ X.s \in Int /\ X.n \in Int /\ X.d \in Nat /\ X.m \in Nat /\ X.d + X.m <= Width
        /\ Y.s \in Int /\ Y.n \in Int /\ Y.d \in Nat /\ Y.m \in Nat /\ Y.d + Y.m <= Height
    BY <1>1, ClippedInto
  <2>2. DOMAIN from \subseteq Inside
    <3>1. A.d = X.d /\ A.n = X.m /\ B.d = Y.d /\ B.n = Y.m
      BY DEF ClippedX, ClippedY, StretchAxis
    <3> HIDE DEF X, Y, A, B, scaled
    <3>2. /\ A.d \in Nat /\ A.n \in Int /\ A.d + A.n <= Width
          /\ B.d \in Nat /\ B.n \in Nat /\ B.d + B.n <= Height
      BY <2>1, <3>1
    <3> QED BY <3>2, PlacedInside, Zenon
  <2> HIDE DEF from, scaled
  <2>3. CASE SameSize(X, Y)
    <3> DEFINE W == AsWrite(R, X, Y)
    <3>1. StretchedPixels(src, R) = WrittenPixels(src, W)
      BY <1>1, <2>3, Zenon DEF StretchedPixels
    <3>2. W.sw \in Int /\ W.sh \in Int /\ W.dx \in Int /\ W.dy \in Int
      <4> HIDE DEF X, Y
      <4>1. X.d \in Int /\ Y.m \in Int
        BY <2>1
      <4>2. R \in [StretchNames -> Int]
        BY StretchFields
      <4> QED BY <2>1, <4>1, <4>2 DEF AsWrite, StretchNames
    <3> HIDE DEF W
    <3> QED BY <3>1, <3>2, WrittenInside
  <2>4. CASE ~SameSize(X, Y) /\ ~AlphaOnly(src)
    <3>1. StretchedPixels(src, R) = Stored(scaled, from)
      BY <1>1, <2>4, Zenon DEF StretchedPixels, scaled, from
    <3> QED BY <2>2, <3>1 DEF Stored
  <2>5. CASE ~SameSize(X, Y) /\ AlphaOnly(src) /\ HasAlpha
    <3>1. StretchedPixels(src, R) = AlphaStored(scaled, from)
      BY <1>1, <2>5, Zenon DEF StretchedPixels, scaled, from
    <3> QED BY <2>2, <3>1 DEF AlphaStored
  <2>6. CASE ~SameSize(X, Y) /\ AlphaOnly(src) /\ ~HasAlpha
    <3>1. StretchedPixels(src, R) = Nothing
      BY <1>1, <2>6, Zenon DEF StretchedPixels
    <3> QED BY <3>1, NothingInside
  <2> QED BY <2>3, <2>4, <2>5, <2>6
<1>2. CASE ~X.ok \/ ~Y.ok
  <2>1. StretchedPixels(src, R) = Nothing
    BY <1>2, Zenon DEF StretchedPixels
  <2> QED BY <2>1, NothingInside
<1> QED BY <1>1, <1>2

LEMMA BlitStretchStays ==
    ASSUME StaysInv, NEW src, NEW R \in Stretches, NEW alpha, BlitStretch(src, R, alpha)
    PROVE  StaysInv'
<1> DEFINE X == ClippedX(src, R)
          Y == ClippedY(src, R)
          scaled == Scaled(src, src.px, X, Y, src.format, FALSE)
          W == [R EXCEPT !.sx = 0, !.sy = 0, !.sw = X.m, !.sh = Y.m, !.dx = X.d, !.dy = Y.d]
          pixels ==
              IF ~X.ok \/ ~Y.ok THEN Nothing
              ELSE IF SameSize(X, Y) THEN BlittedPixels(src, AsWrite(R, X, Y), alpha)
              ELSE BlittedPixels(scaled, W, alpha)
<1>1. PICK asked, defects : Call(pixels, asked, defects)
  BY Zenon DEF BlitStretch
<1>2. DOMAIN pixels \subseteq Inside
  <2>1. CASE ~X.ok \/ ~Y.ok
    BY <2>1, NothingInside
  <2>2. CASE X.ok /\ Y.ok
    <3>1. /\ X.s \in Int /\ X.n \in Int /\ X.d \in Nat /\ X.m \in Nat
          /\ Y.s \in Int /\ Y.n \in Int /\ Y.d \in Nat /\ Y.m \in Nat
      BY <2>2, ClippedInto
    <3> HIDE DEF X, Y
    <3>2. 0 \in Int /\ X.d \in Int /\ Y.d \in Int /\ X.m \in Int /\ Y.m \in Int
      BY <3>1
    <3>3. R \in [StretchNames -> Int]
          /\ {"sx", "sy", "sw", "sh", "dx", "dy"} \subseteq StretchNames
      BY StretchFields DEF StretchNames
    <3>4. CASE SameSize(X, Y)
      <4> DEFINE V == AsWrite(R, X, Y)
      <4>1. V \in [StretchNames -> Int]
            /\ V.sw \in Int /\ V.sh \in Int /\ V.dx \in Int /\ V.dy \in Int
        BY <3>1, <3>2, <3>3 DEF AsWrite, StretchNames
      <4> HIDE DEF V
      <4>2. DOMAIN BlittedPixels(src, V, alpha) \subseteq Inside
        BY <3>3, <4>1, BlittedInside, Zenon
      <4> QED BY <2>2, <3>4, <4>2, Zenon DEF V
    <3>5. CASE ~SameSize(X, Y)
      <4>1. W \in [StretchNames -> Int]
            /\ W.sw \in Int /\ W.sh \in Int /\ W.dx \in Int /\ W.dy \in Int
        BY <3>1, <3>2, <3>3 DEF StretchNames
      <4> HIDE DEF W, scaled
      <4>2. DOMAIN BlittedPixels(scaled, W, alpha) \subseteq Inside
        BY <3>3, <4>1, BlittedInside, Zenon
      <4> QED BY <2>2, <3>5, <4>2, Zenon
    <3> QED BY <3>4, <3>5
  <2> QED BY <2>1, <2>2
<1> HIDE DEF pixels
<1> QED BY <1>1, <1>2, CallStays

LEMMA InsertAlphaMapStays ==
    ASSUME StaysInv, NEW src, NEW median, NEW ambiguity, InsertAlphaMap(src, median, ambiguity)
    PROVE  StaysInv'
<1> DEFINE alpha(n) == MapAlpha(src.px[n][RedIndex(src.format)], median, ambiguity)
          pixels == [n \in 0..Width * Height - 1 |->
                        [PixelOf(data, n) EXCEPT ![AlphaIndex(format)] = alpha(n)]]
          asked == [p \in Positions |-> [canvas[p] EXCEPT !.a = alpha(Number(p[1], p[2]))]]
<1>1. CASE HasAlpha
  <2>1. Call(pixels, asked, {})
    BY <1>1, Zenon DEF InsertAlphaMap
  <2>2. DOMAIN pixels \subseteq Inside
    BY DEF Inside
  <2> QED BY <2>1, <2>2, CallStays
<1>2. CASE ~HasAlpha
  BY <1>2, RefusedStays DEF InsertAlphaMap
<1> QED BY <1>1, <1>2

LEMMA StaysStep ==
    ASSUME StaysInv, [Next]_vars
    PROVE  StaysInv'
<1>0. Spots \subseteq Int /\ Extents \subseteq Int
  BY ImagesAssumption
<1>1. ASSUME NEW x \in Spots, NEW y \in Spots, NEW w \in Extents, NEW h \in Extents,
             NEW c \in Colors, FillRect(x, y, w, h, c)
      PROVE  StaysInv'
  BY <1>0, <1>1, FillRectStays
<1>2. ASSUME NEW x \in Spots, NEW y \in Spots, NEW c \in Colors, SetPixel(x, y, c)
      PROVE  StaysInv'
  BY <1>0, <1>2, SetPixelStays
<1>3. CASE Clear
  BY <1>3, ClearStays
<1>4. ASSUME NEW x \in Spots, NEW y \in Spots, NEW w \in Extents, NEW h \in Extents,
             Invert(x, y, w, h)
      PROVE  StaysInv'
  BY <1>0, <1>4, InvertStays
<1>5. ASSUME NEW f \in SourceFormats, NEW R \in Copies, Write(SourceImage(f), R)
      PROVE  StaysInv'
  <2>1. R.sw \in Int /\ R.sh \in Int /\ R.dx \in Int /\ R.dy \in Int
    BY CopyFields
  <2>2. DOMAIN WrittenPixels(SourceImage(f), R) \subseteq Inside
    BY <2>1, WrittenInside
  <2>3. PICK asked : Call(WrittenPixels(SourceImage(f), R), asked, {})
    BY <1>5, Zenon DEF Write
  <2> QED BY <2>2, <2>3, CallStays
<1>6. ASSUME NEW f \in SourceFormats, NEW R \in Copies, NEW alpha \in Alphas,
             Blit(SourceImage(f), R, alpha)
      PROVE  StaysInv'
  <2> DEFINE fields == {"sx", "sy", "sw", "sh", "dx", "dy"}
  <2>1. R \in [fields -> Int] /\ R.sw \in Int /\ R.sh \in Int /\ R.dx \in Int /\ R.dy \in Int
    BY CopyFields
  <2>2. DOMAIN BlittedPixels(SourceImage(f), R, alpha) \subseteq Inside
    BY <2>1, BlittedInside
  <2>3. PICK asked, defects : Call(BlittedPixels(SourceImage(f), R, alpha), asked, defects)
    BY <1>6, Zenon DEF Blit
  <2> QED BY <2>2, <2>3, CallStays
<1>7. ASSUME NEW f \in SourceFormats, NEW R \in Stretches, WriteStretch(SourceImage(f), R)
      PROVE  StaysInv'
  <2>1. PICK asked, defects : Call(StretchedPixels(SourceImage(f), R), asked, defects)
    BY <1>7, Zenon DEF WriteStretch
  <2> QED BY <2>1, StretchedInside, CallStays
<1>8. ASSUME NEW f \in SourceFormats, NEW R \in Stretches, NEW alpha \in Alphas,
             BlitStretch(SourceImage(f), R, alpha)
      PROVE  StaysInv'
  BY <1>8, BlitStretchStays
<1>9. ASSUME NEW f \in SourceFormats, NEW median, NEW ambiguity,
             InsertAlphaMap(SourceImage(f), median, ambiguity)
      PROVE  StaysInv'
  BY <1>9, InsertAlphaMapStays
<1>10. CASE UNCHANGED vars
  BY <1>10 DEF vars, StaysInv, StaysInside, bpp, Last
<1> QED BY <1>1, <1>2, <1>3, <1>4, <1>5, <1>6, <1>7, <1>8, <1>9, <1>10 DEF Next

(* The image keeps its format and its length through every call.           *)
THEOREM StaysInvariant == Spec => []StaysInv
  BY StaysInit, StaysStep, PTL DEF Spec

(* No call of april::Image, whatever rectangles, formats and sizes it is   *)
(* passed, stores a byte behind the last of the image, as long as          *)
(* fillRect() has not been met counting too many rows.                     *)
THEOREM NoCallLeavesTheImage == Spec => []StaysInside
<1>1. StaysInv => StaysInside
  BY DEF StaysInv
<1> QED BY <1>1, StaysInvariant, PTL

-----------------------------------------------------------------------------
(* What a pixel of the image shows.  The numbers of pixels and bytes, to   *)
(* and fro.                                                                *)
LEMMA Remainder ==
    ASSUME NEW a \in Int, NEW m \in Nat \ {0}
    PROVE  a = (a \div m) * m + (a % m) /\ a % m \in 0..m - 1
  BY Z3

LEMMA Divided ==
    ASSUME NEW x \in Nat, NEW y \in Int, NEW m \in Nat, x < m
    PROVE  (x + y * m) \div m = y /\ (x + y * m) % m = x
<1>1. (x + y * m) \div m = y
  BY Z3
<1>2. m \in Nat \ {0} /\ x + y * m \in Int
  BY Z3
<1>3. y * m \in Int /\ (x + y * m) % m \in Int
  BY <1>2, Z3
<1>4. x + y * m = y * m + ((x + y * m) % m)
  BY <1>1, <1>2, Remainder
<1> QED BY <1>1, <1>3, <1>4

LEMMA ByteOfPixel ==
    ASSUME NEW n \in Nat, NEW m \in {1, 3, 4}, NEW k \in 0..m - 1
    PROVE  (n * m + k) \div m = n /\ (n * m + k) % m = k
  OBVIOUS

LEMMA NumberInverse ==
    ASSUME NEW x \in 0..Width - 1, NEW y \in Int
    PROVE  Column(Number(x, y)) = x /\ Row(Number(x, y)) = y
<1>1. x \in Nat /\ Width \in Nat /\ x < Width
  BY Sizes
<1> QED BY <1>1, Divided DEF Number, Column, Row

LEMMA BytesInside ==
    ASSUME format \in ImageFormats, NEW n \in Inside, NEW k \in 0..bpp - 1
    PROVE  /\ n * bpp + k \in 0..Last
           /\ n * bpp + k < Width * Height * bpp
<1> DEFINE all == Width * Height
<1>1. all \in Nat /\ n \in 0..all - 1 /\ bpp \in {1, 3, 4}
  BY Sizes DEF Inside, bpp
<1>2. Last = 8 * all - 1
  BY Sizes, Z3 DEF Last
<1>3. Width * Height * bpp = all * bpp
  OBVIOUS
<1> HIDE DEF all
<1> QED BY <1>1, <1>2, <1>3

(* The invariant: until a recorded defect is met, every pixel is typed and *)
(* shows what was asked for.                                               *)
PixelAt(p) == PixelOf(data, Number(p[1], p[2]))
PixelsAsked ==
    \A p \in Positions :
        PixelAt(p) \in PixelsOf(format) /\ Shown(format, PixelAt(p)) = canvas[p]

Painting ==
    /\ format \in ImageFormats
    /\ DOMAIN data = 0..Last
    /\ met = {} => PixelsAsked

LEMMA PositionNumber ==
    ASSUME NEW p \in Positions
    PROVE  /\ p[1] \in 0..Width - 1 /\ p[2] \in 0..Height - 1
           /\ Number(p[1], p[2]) \in Inside /\ Number(p[1], p[2]) \in Nat
<1>1. p[1] \in 0..Width - 1 /\ p[2] \in 0..Height - 1
  BY DEF Positions
<1>2. Number(p[1], p[2]) \in Inside
  BY <1>1, NumberInside
<1> QED BY <1>1, <1>2 DEF Inside

LEMMA PaintingInit == Init => Painting
<1> SUFFICES ASSUME Init
             PROVE  Painting
  OBVIOUS
<1>1. format \in ImageFormats /\ DOMAIN data = 0..Last /\ bpp \in {1, 3, 4}
  BY Sizes DEF Init, bpp
<1>2. ASSUME NEW p \in Positions
      PROVE  PixelAt(p) \in PixelsOf(format) /\ Shown(format, PixelAt(p)) = canvas[p]
  <2> DEFINE n == Number(p[1], p[2])
            size == Width * Height * bpp
  <2>1. n \in Inside
    BY PositionNumber
  <2>2. \A a \in 0..Last : data[a] = IF a < size THEN Content[a] ELSE 0
    BY Zenon DEF Init
  <2>3. ASSUME NEW k \in 0..bpp - 1
        PROVE  data[n * bpp + k] \in Byte
    <3>1. n * bpp + k \in 0..Last /\ n * bpp + k < size
      BY <1>1, <2>1, BytesInside
    <3>2. size \in Int /\ size <= 4 * Width * Height
      <4> DEFINE all == Width * Height
      <4>1. all \in Nat /\ size = all * bpp /\ 4 * Width * Height = 4 * all
        BY Sizes, Z3
      <4> HIDE DEF all, size
      <4> QED BY <1>1, <4>1
    <3> HIDE DEF size, n
    <3>3. n * bpp + k \in 0..4 * Width * Height - 1
      <4>1. 4 * Width * Height \in Int
        BY Sizes, Z3
      <4>2. n * bpp + k \in Int /\ n * bpp + k >= 0
        BY <3>1
      <4> QED BY <3>1, <3>2, <4>1, <4>2
    <3> QED BY <2>2, <3>1, <3>3, ImagesAssumption, Zenon
  <2>4. PixelAt(p) \in PixelsOf(format)
    BY <2>3 DEF PixelAt, PixelOf, PixelsOf, bpp
  <2>5. Shown(format, PixelAt(p)) = canvas[p]
    BY Zenon DEF Init, PixelAt
  <2> QED BY <2>4, <2>5
<1> QED BY <1>1, <1>2, Zenon DEF Painting, PixelsAsked

(* Stored pixels, and what they leave at a position that is asked to take  *)
(* a color.                                                                *)
Colored(pixels, p, color) ==
    LET n == Number(p[1], p[2]) IN
    IF n \in DOMAIN pixels
    THEN pixels[n] \in PixelsOf(format) /\ Shown(format, pixels[n]) = color
    ELSE canvas[p] = color

LEMMA PixelPainted ==
    ASSUME Painting, NEW pixels, data' = Painted(data, pixels), format' = format,
           NEW p \in Positions
    PROVE  LET n == Number(p[1], p[2]) IN
           /\ n \in DOMAIN pixels /\ pixels[n] \in PixelsOf(format) => PixelAt(p)' = pixels[n]
           /\ n \notin DOMAIN pixels => PixelAt(p)' = PixelAt(p)
<1> DEFINE n == Number(p[1], p[2])
<1>1. n \in Inside /\ n \in Nat
  BY PositionNumber
<1>2. bpp \in {1, 3, 4} /\ bpp' = bpp /\ format \in ImageFormats
  BY Sizes DEF Painting, bpp
<1>3. PixelAt(p) = [k \in 0..bpp - 1 |-> data[n * bpp + k]]
      /\ PixelAt(p)' = [k \in 0..bpp - 1 |-> data'[n * bpp + k]]
  BY <1>2, Zenon DEF PixelAt, PixelOf, Number
<1> HIDE DEF n
<1>4. ASSUME NEW k \in 0..bpp - 1
      PROVE  data'[n * bpp + k] =
               IF n \in DOMAIN pixels THEN pixels[n][k] ELSE data[n * bpp + k]
  <2>1. n * bpp + k \in DOMAIN data
    BY <1>1, <1>2, BytesInside DEF Painting
  <2>2. (n * bpp + k) \div bpp = n /\ (n * bpp + k) % bpp = k
    BY <1>1, <1>2, ByteOfPixel
  <2> DEFINE a == n * bpp + k
  <2> HIDE DEF a
  <2>3. data'[a] = IF a \div bpp \in DOMAIN pixels THEN pixels[a \div bpp][a % bpp] ELSE data[a]
    BY <2>1, Zenon DEF Painted, a
  <2> QED BY <2>2, <2>3, Zenon DEF a
<1>5. ASSUME n \in DOMAIN pixels, pixels[n] \in PixelsOf(format)
      PROVE  PixelAt(p)' = pixels[n]
  <2>1. pixels[n] = [k \in 0..bpp - 1 |-> pixels[n][k]]
    BY <1>5 DEF PixelsOf, bpp
  <2>2. \A k \in 0..bpp - 1 : data'[n * bpp + k] = pixels[n][k]
    BY <1>4, <1>5
  <2>3. PixelAt(p)' = [k \in 0..bpp - 1 |-> pixels[n][k]]
    BY <1>3, <2>2
  <2> QED BY <2>1, <2>3, Zenon
<1>6. ASSUME n \notin DOMAIN pixels
      PROVE  PixelAt(p)' = PixelAt(p)
  <2>1. \A k \in 0..bpp - 1 : data'[n * bpp + k] = data[n * bpp + k]
    BY <1>4, <1>6
  <2> QED BY <1>3, <2>1
<1> QED BY <1>5, <1>6 DEF n

(* A call keeps the invariant if, with no defect, everything in and out of *)
(* the pixels it stores and the picture it was asked for belongs together. *)
LEMMA CallPaints ==
    ASSUME Painting, NEW pixels, NEW asked, NEW defects, Call(pixels, asked, defects),
           met = {} /\ defects = {} =>
               \A p \in Positions :
                   Colored(pixels, p, IF p \in DOMAIN asked THEN asked[p] ELSE canvas[p])
    PROVE  Painting'
<1>1. format' = format /\ data' = Painted(data, pixels) /\ met' = met \cup defects
      /\ \A p \in Positions : canvas'[p] = IF p \in DOMAIN asked THEN asked[p] ELSE canvas[p]
  BY DEF Call
<1>2. format \in ImageFormats /\ DOMAIN data = 0..Last
  BY DEF Painting
<1>3. (DOMAIN data = 0..Last)'
  BY <1>1, <1>2 DEF Painted, Last
<1>4. ASSUME met' = {}, NEW p \in Positions
      PROVE  (PixelAt(p) \in PixelsOf(format) /\ Shown(format, PixelAt(p)) = canvas[p])'
  <2> DEFINE n == Number(p[1], p[2])
            color == IF p \in DOMAIN asked THEN asked[p] ELSE canvas[p]
  <2>1. met = {} /\ defects = {}
    BY <1>1, <1>4
  <2>2. Colored(pixels, p, color)
    BY <2>1
  <2>3. canvas'[p] = color
    BY <1>1
  <2> HIDE DEF color
  <2>4. CASE n \in DOMAIN pixels
    <3>1. pixels[n] \in PixelsOf(format) /\ Shown(format, pixels[n]) = color
      BY <2>2, <2>4 DEF Colored
    <3>2. PixelAt(p)' = pixels[n]
      BY <1>1, <2>4, <3>1, PixelPainted
    <3> QED BY <1>1, <2>3, <3>1, <3>2, Zenon
  <2>5. CASE n \notin DOMAIN pixels
    <3>1. canvas[p] = color
      BY <2>2, <2>5 DEF Colored
    <3>2. PixelAt(p)' = PixelAt(p)
      BY <1>1, <2>5, PixelPainted
    <3>3. PixelAt(p) \in PixelsOf(format) /\ Shown(format, PixelAt(p)) = canvas[p]
      BY <2>1 DEF Painting, PixelsAsked
    <3> QED BY <1>1, <2>3, <3>1, <3>2, <3>3, Zenon
  <2> QED BY <2>4, <2>5
<1>5. (met = {} => PixelsAsked)'
  BY <1>4 DEF PixelsAsked, Positions
<1> QED BY <1>1, <1>2, <1>3, <1>5 DEF Painting

(* getPixel() converts to RGBA, which loses nothing.                       *)
LEMMA GetPixelShows ==
    ASSUME Painting, met = {}, NEW p \in Positions
    PROVE  getPixel(p[1], p[2]) = canvas[p]
<1> DEFINE q == PixelAt(p)
<1>1. q \in PixelsOf(format) /\ Shown(format, q) = canvas[p]
  BY DEF Painting, PixelsAsked
<1>2. format \in Formats /\ "RGBA" \in Formats
  BY ImagesAssumption DEF Painting, Formats, Formats4, LeftRGB
<1>3. getPixel(p[1], p[2]) = Shown("RGBA", Convert(format, "RGBA", q))
  BY DEF getPixel, PixelAt
<1> HIDE DEF q
<1>4. getPixel(p[1], p[2]) = Reduced("RGBA", canvas[p])
  BY <1>1, <1>2, <1>3, ConversionKeepsColors
<1>5. canvas[p] = [r |-> canvas[p].r, g |-> canvas[p].g, b |-> canvas[p].b, a |-> canvas[p].a]
  BY <1>1 DEF Shown
<1>6. Reduced("RGBA", canvas[p]) =
        [r |-> canvas[p].r, g |-> canvas[p].g, b |-> canvas[p].b, a |-> canvas[p].a]
  BY DEF Reduced, Formats1, AlphaFormats
<1> QED BY <1>4, <1>5, <1>6

-----------------------------------------------------------------------------
(* The calls that paint without a source.                                  *)
LEMMA RefusedPaints ==
    ASSUME Painting, NEW asked, NEW defects, Call(Nothing, asked, defects),
           met = {} /\ defects = {} => \A p \in Positions : p \in DOMAIN asked => asked[p] = canvas[p]
    PROVE  Painting'
<1>1. DOMAIN Nothing = {}
  BY DEF Nothing
<1>2. met = {} /\ defects = {} =>
          \A p \in Positions :
              Colored(Nothing, p, IF p \in DOMAIN asked THEN asked[p] ELSE canvas[p])
  BY <1>1 DEF Colored
<1> QED BY <1>2, CallPaints

LEMMA RowsHold ==
    ASSUME NEW x \in Nat, NEW y \in Nat, NEW w \in Int, NEW h \in Int, x + w <= Width,
           NEW p \in Positions
    PROVE  Number(p[1], p[2]) \in Rows(x, y, w, h)
             <=> p[1] \in x..x + w - 1 /\ p[2] \in y..y + h - 1
<1>1. p[1] \in 0..Width - 1 /\ p[2] \in 0..Height - 1 /\ Width \in Nat /\ Height \in Nat
  BY PositionNumber, Sizes
<1>2. ASSUME Number(p[1], p[2]) \in Rows(x, y, w, h)
      PROVE  p[1] \in x..x + w - 1 /\ p[2] \in y..y + h - 1
  <2>1. PICK i \in 0..w - 1, j \in 0..h - 1 : Number(p[1], p[2]) = Number(x + i, y + j)
    BY <1>2 DEF Rows
  <2>2. x + i \in 0..Width - 1 /\ y + j \in Int /\ p[2] \in Int
    BY <1>1
  <2>3. Column(Number(x + i, y + j)) = x + i /\ Row(Number(x + i, y + j)) = y + j
    BY <2>2, NumberInverse, Zenon
  <2>4. Column(Number(p[1], p[2])) = p[1] /\ Row(Number(p[1], p[2])) = p[2]
    BY <1>1, <2>2, NumberInverse, Zenon
  <2>5. p[1] = x + i /\ p[2] = y + j
    BY <2>1, <2>3, <2>4, Zenon
  <2> QED BY <2>5
<1>3. ASSUME p[1] \in x..x + w - 1, p[2] \in y..y + h - 1
      PROVE  Number(p[1], p[2]) \in Rows(x, y, w, h)
  <2>1. p[1] - x \in 0..w - 1 /\ p[2] - y \in 0..h - 1
    BY <1>1, <1>3
  <2>2. x + (p[1] - x) = p[1] /\ y + (p[2] - y) = p[2]
    BY <1>1
  <2>3. Number(x + (p[1] - x), y + (p[2] - y)) \in Rows(x, y, w, h)
    BY <2>1 DEF Rows
  <2> QED BY <2>2, <2>3, Zenon
<1> QED BY <1>2, <1>3

(* The positions of a rectangle are those of its corrected one.            *)
LEMMA RegionClipped ==
    ASSUME NEW x \in Int, NEW y \in Int, NEW w \in Int, NEW h \in Int, NEW p \in Positions
    PROVE  LET X == ClipAxis(x, w, Width)  Y == ClipAxis(y, h, Height) IN
           /\ X.ok /\ Y.ok =>
                 (p \in Region(x, y, w, h) <=> Number(p[1], p[2]) \in Rows(X.at, Y.at, X.n, Y.n))
           /\ ~(X.ok /\ Y.ok) => p \notin Region(x, y, w, h)
<1> DEFINE X == ClipAxis(x, w, Width)
          Y == ClipAxis(y, h, Height)
<1>1. p[1] \in 0..Width - 1 /\ p[2] \in 0..Height - 1
  BY PositionNumber
<1>2. p \in Region(x, y, w, h) <=> p[1] \in x..x + w - 1 /\ p[2] \in y..y + h - 1
  BY DEF Region
<1>3. /\ X.ok => /\ X.at \in 0..Width - 1 /\ X.n \in Nat /\ X.at + X.n <= Width
                 /\ \A i \in Int : i \in X.at..X.at + X.n - 1
                        <=> i \in 0..Width - 1 /\ i \in x..x + w - 1
      /\ ~X.ok => \A i \in 0..Width - 1 : i \notin x..x + w - 1
  BY Sizes, ClipIsExact
<1>4. /\ Y.ok => /\ Y.at \in 0..Height - 1 /\ Y.n \in Nat /\ Y.at + Y.n <= Height
                 /\ \A i \in Int : i \in Y.at..Y.at + Y.n - 1
                        <=> i \in 0..Height - 1 /\ i \in y..y + h - 1
      /\ ~Y.ok => \A i \in 0..Height - 1 : i \notin y..y + h - 1
  BY Sizes, ClipIsExact
<1> HIDE DEF X, Y
<1>5. ASSUME X.ok, Y.ok
      PROVE  p \in Region(x, y, w, h) <=> Number(p[1], p[2]) \in Rows(X.at, Y.at, X.n, Y.n)
  <2>1. X.at \in Nat /\ Y.at \in Nat /\ X.n \in Int /\ Y.n \in Int /\ X.at + X.n <= Width
    BY <1>3, <1>4, <1>5
  <2>2. Number(p[1], p[2]) \in Rows(X.at, Y.at, X.n, Y.n)
          <=> p[1] \in X.at..X.at + X.n - 1 /\ p[2] \in Y.at..Y.at + Y.n - 1
    BY <2>1, RowsHold, Zenon
  <2>3. p[1] \in Int /\ p[2] \in Int
    BY <1>1
  <2> QED BY <1>1, <1>2, <1>3, <1>4, <1>5, <2>2, <2>3
<1>6. ASSUME ~(X.ok /\ Y.ok)
      PROVE  p \notin Region(x, y, w, h)
  BY <1>1, <1>2, <1>3, <1>4, <1>6
<1> QED BY <1>5, <1>6 DEF X, Y

(* A color as bytes of the format.                                         *)
LEMMA ColorShows ==
    ASSUME format \in ImageFormats, NEW c \in [r : Byte, g : Byte, b : Byte, a : Byte]
    PROVE  LET p == Convert("RGBA", format, Bytes4(c.r, c.g, c.b, c.a)) IN
           p \in PixelsOf(format) /\ Shown(format, p) = Reduced(format, c)
<1> DEFINE q == Bytes4(c.r, c.g, c.b, c.a)
<1>1. format \in Formats /\ "RGBA" \in Formats /\ c.r \in Byte /\ c.g \in Byte /\ c.b \in Byte
      /\ c.a \in Byte
  BY ImagesAssumption DEF Formats, Formats4, LeftRGB
<1>2. q \in PixelsOf("RGBA")
  BY <1>1 DEF Bytes4, PixelsOf, getFormatBpp, Formats4, LeftRGB
<1>3. Shown("RGBA", q) = c
  <2>1. c = [r |-> c.r, g |-> c.g, b |-> c.b, a |-> c.a]
    OBVIOUS
  <2>2. Shown("RGBA", q) = [r |-> c.r, g |-> c.g, b |-> c.b, a |-> c.a]
    BY DEF Shown, Bytes4, RedIndex, GreenIndex, BlueIndex, AlphaIndex, Formats1, AlphaFormats,
       LeftRGB, RightRGB
  <2> QED BY <2>1, <2>2
<1> HIDE DEF q
<1>4. Convert("RGBA", format, q) \in PixelsOf(format)
      /\ Shown(format, Convert("RGBA", format, q)) = Reduced(format, c)
  BY <1>1, <1>2, <1>3, ConversionKeepsColors
<1> QED BY <1>4 DEF q

LEMMA ColorPixelShows ==
    ASSUME format \in ImageFormats, NEW c \in [r : Byte, g : Byte, b : Byte, a : Byte]
    PROVE  ColorPixel(c) \in PixelsOf(format) /\ Shown(format, ColorPixel(c)) = Reduced(format, c)
<1>1. CASE bpp = 4
  BY <1>1, ColorShows DEF ColorPixel
<1>2. CASE bpp # 4
  <2> DEFINE q == Bytes3(c.r, c.g, c.b)
  <2>1. format \in Formats /\ "RGB" \in Formats /\ c.r \in Byte /\ c.g \in Byte /\ c.b \in Byte
    BY ImagesAssumption DEF Formats, Formats3
  <2>2. q \in PixelsOf("RGB")
    BY <2>1 DEF Bytes3, PixelsOf, getFormatBpp, Formats3, Formats4, LeftRGB, RightRGB
  <2>3. Shown("RGB", q) = [r |-> c.r, g |-> c.g, b |-> c.b, a |-> 255]
    BY DEF Shown, Bytes3, RedIndex, GreenIndex, BlueIndex, AlphaIndex, Formats1, AlphaFormats,
       LeftRGB, RightRGB
  <2> HIDE DEF q
  <2>4. Convert("RGB", format, q) \in PixelsOf(format)
        /\ Shown(format, Convert("RGB", format, q)) = Reduced(format, Shown("RGB", q))
    BY <2>1, <2>2, ConversionKeepsColors
  <2>5. format \notin AlphaFormats
    BY <1>2 DEF bpp, getFormatBpp, Formats4, LeftRGB, RightRGB, AlphaFormats
  <2>6. Reduced(format, Shown("RGB", q)) = Reduced(format, c)
    BY <2>3, <2>5 DEF Reduced
  <2> QED BY <1>2, <2>4, <2>6 DEF ColorPixel, q
<1> QED BY <1>1, <1>2

(* One byte for all of a pixel.                                            *)
LEMMA UniformShows ==
    ASSUME format \in ImageFormats, NEW c \in [r : Byte, g : Byte, b : Byte, a : Byte],
           Uniform(c)
    PROVE  LET p == [k \in 0..bpp - 1 |-> c.r] IN
           p \in PixelsOf(format) /\ Shown(format, p) = Reduced(format, c)
<1>1. c.r \in Byte /\ format \in Formats
  BY ImagesAssumption
<1>2. [k \in 0..bpp - 1 |-> c.r] \in PixelsOf(format)
  BY <1>1 DEF PixelsOf, bpp
<1>3. CASE format \in Formats4
  <2>1. bpp = 4 /\ c.r = c.g /\ c.r = c.b /\ c.r = c.a
    BY <1>3 DEF Uniform, bpp, getFormatBpp
  <2>2. format \notin Formats1 /\ RedIndex(format) \in 0..3 /\ GreenIndex(format) \in 0..3
        /\ BlueIndex(format) \in 0..3 /\ AlphaIndex(format) \in 0..3
    BY <1>3 DEF RedIndex, GreenIndex, BlueIndex, AlphaIndex, Formats1, Formats4, LeftRGB, RightRGB
  <2> QED BY <1>2, <2>1, <2>2 DEF Shown, Reduced
<1>4. CASE format \in Formats3
  <2>1. bpp = 3 /\ c.r = c.g /\ c.r = c.b
    BY <1>4 DEF Uniform, bpp, getFormatBpp, Formats3, Formats4, LeftRGB, RightRGB
  <2>2. format \notin Formats1 /\ RedIndex(format) \in 0..2 /\ GreenIndex(format) \in 0..2
        /\ BlueIndex(format) \in 0..2 /\ format \notin AlphaFormats
    BY <1>4 DEF RedIndex, GreenIndex, BlueIndex, AlphaFormats, Formats1, Formats3, LeftRGB, RightRGB
  <2> QED BY <1>2, <2>1, <2>2 DEF Shown, Reduced
<1>5. CASE format \in Formats1
  <2>1. bpp = 1
    BY <1>5 DEF bpp, getFormatBpp, Formats1, Formats3, Formats4, LeftRGB, RightRGB
  <2>2. RedIndex(format) = 0 /\ GreenIndex(format) = 0 /\ BlueIndex(format) = 0
        /\ format \notin AlphaFormats
    BY <1>5 DEF RedIndex, GreenIndex, BlueIndex, AlphaFormats, Formats1
  <2> QED BY <1>2, <1>5, <2>1, <2>2 DEF Shown, Reduced
<1> QED BY <1>1, <1>3, <1>4, <1>5 DEF Formats

LEMMA FillRectPaints ==
    ASSUME Painting, NEW x \in Int, NEW y \in Int, NEW w \in Int, NEW h \in Int,
           NEW c \in [r : Byte, g : Byte, b : Byte, a : Byte], FillRect(x, y, w, h, c)
    PROVE  Painting'
<1> DEFINE X == ClipAxis(x, w, Width)
          Y == ClipAxis(y, h, Height)
          defects == IF Uniform(c) THEN {}
                     ELSE (IF X.n = Width /\ Y.n < Height THEN {"rows"} ELSE {})
                          \cup (IF X.n = 0 \/ Y.n = 0 THEN {"empty"} ELSE {})
          asked == [p \in Region(x, y, w, h) |-> Reduced(format, c)]
          color == Reduced(format, c)
          all == Rows(X.at, Y.at, X.n, Y.n)
<1>0. format \in ImageFormats
  BY DEF Painting
<1>1. CASE X.ok /\ Y.ok
  <2>1. Call(Filled(X, Y, c), asked, defects)
    BY <1>1, Zenon DEF FillRect
  <2>2. /\ X.at \in 0..Width - 1 /\ X.n \in Nat /\ X.at + X.n <= Width
        /\ Y.at \in 0..Height - 1 /\ Y.n \in Nat /\ Y.at + Y.n <= Height
    BY <1>1, Sizes, ClipIsExact
  <2>3. \A p \in Positions : p \in Region(x, y, w, h) <=> Number(p[1], p[2]) \in all
    BY <1>1, RegionClipped
  <2> HIDE DEF X, Y
  <2>4. ASSUME defects = {}
        PROVE  /\ DOMAIN Filled(X, Y, c) = all
               /\ \A n \in all : /\ Filled(X, Y, c)[n] \in PixelsOf(format)
                                 /\ Shown(format, Filled(X, Y, c)[n]) = color
    <3>1. CASE Uniform(c)
      <4>1. Filled(X, Y, c) = [n \in all |-> [k \in 0..bpp - 1 |-> c.r]]
        BY <3>1, Zenon DEF Filled
      <4> HIDE DEF all
      <4> QED BY <1>0, <3>1, <4>1, UniformShows
    <3>2. CASE ~Uniform(c) /\ X.at = 0 /\ X.n = Width
      <4>1. Y.n >= Height
        BY <2>2, <2>4, <3>2, Sizes
      <4>2. Y.at = 0 /\ Y.n = Height
        <5>1. Y.at \in Nat /\ Y.n \in Nat /\ Y.at + Y.n <= Height /\ Height \in Nat
          BY <2>2, Sizes
        <5> QED BY <4>1, <5>1
      <4>3. Filled(X, Y, c) = [n \in FilledRun(0, 0, Width) |-> ColorPixel(c)]
        BY <3>2, <4>2, Zenon DEF Filled
      <4>4. FilledRun(0, 0, Width) = Inside
        <5>1. Number(0, 0) = 0 /\ Width * Height \in Int
          BY Sizes DEF Number
        <5> QED BY <5>1 DEF FilledRun, Inside
      <4>5. all = Inside
        <5>1. all \subseteq Inside
          <6>1. 0 \in Nat /\ Width \in Int /\ Height \in Int /\ 0 + Width <= Width
                /\ 0 + Height <= Height
            BY Sizes
          <6> QED BY <3>2, <4>2, <6>1, RowsInside, Zenon
        <5>2. ASSUME NEW n \in Inside
              PROVE  n \in all
          <6>1. Width \in Nat \ {0} /\ Height \in Nat \ {0} /\ n \in Int
            BY Sizes DEF Inside
          <6>2. n = Row(n) * Width + Column(n) /\ Column(n) \in 0..Width - 1 /\ Row(n) \in Int
            BY <6>1, Remainder, Quotient DEF Row, Column
          <6>3. Row(n) \in 0..Height - 1
            <7>1. n >= 0 /\ n < Height * Width
              BY Sizes, Z3 DEF Inside
            <7>2. 0 < (Row(n) + 1) * Width /\ Row(n) * Width < Height * Width
              BY <6>1, <6>2, <7>1, Z3
            <7>3. 0 * Width < (Row(n) + 1) * Width
              BY <6>1, <7>2, Z3
            <7>4. 0 < Row(n) + 1 /\ Row(n) < Height
              BY <6>1, <6>2, <7>2, <7>3, Cancel
            <7> QED BY <6>1, <6>2, <7>4
          <6>4. n = Number(0 + Column(n), 0 + Row(n))
            <7>1. Row(n) * Width \in Int
              BY <6>1, <6>2, Z3
            <7> QED BY <6>1, <6>2, <7>1 DEF Number
          <6>5. all = Rows(0, 0, Width, Height)
            BY <3>2, <4>2
          <6> QED BY <6>2, <6>3, <6>4, <6>5 DEF Rows
        <5> QED BY <5>1, <5>2
      <4> HIDE DEF all
      <4> QED BY <1>0, <4>3, <4>4, <4>5, ColorPixelShows
    <3>3. CASE ~Uniform(c) /\ ~(X.at = 0 /\ X.n = Width)
      <4>1. X.n # 0 /\ Y.n # 0
        BY <2>4, <3>3
      <4>2. Most(X.n, 1) = X.n /\ Most(Y.n, 1) = Y.n
        BY <2>2, <4>1 DEF Most
      <4>3. Filled(X, Y, c) = [n \in all |-> ColorPixel(c)]
        BY <3>3, <4>2, Zenon DEF Filled
      <4> HIDE DEF all
      <4> QED BY <1>0, <4>3, ColorPixelShows
    <3> QED BY <3>1, <3>2, <3>3
  <2>5. ASSUME defects = {}, NEW p \in Positions
        PROVE  Colored(Filled(X, Y, c), p, IF p \in DOMAIN asked THEN asked[p] ELSE canvas[p])
    <3>1. p \in DOMAIN asked <=> Number(p[1], p[2]) \in DOMAIN Filled(X, Y, c)
      BY <2>3, <2>4, <2>5
    <3>2. p \in DOMAIN asked => asked[p] = color
      OBVIOUS
    <3> HIDE DEF asked, color, all
    <3> QED BY <2>4, <2>5, <3>1, <3>2 DEF Colored
  <2> HIDE DEF defects, asked
  <2> QED BY <2>1, <2>5, CallPaints
<1>2. CASE ~(X.ok /\ Y.ok)
  <2>1. Call(Nothing, Nothing, {})
    BY <1>2, Zenon DEF FillRect
  <2> QED BY <2>1, RefusedPaints DEF Nothing
<1> QED BY <1>1, <1>2

LEMMA SetPixelPaints ==
    ASSUME Painting, NEW x \in Int, NEW y \in Int,
           NEW c \in [r : Byte, g : Byte, b : Byte, a : Byte], SetPixel(x, y, c)
    PROVE  Painting'
<1> DEFINE pixel == Convert("RGBA", format, Bytes4(c.r, c.g, c.b, c.a))
          pixels == [n \in {Number(x, y)} |-> pixel]
          asked == [p \in {<<x, y>>} |-> Reduced(format, c)]
<1>1. CASE CheckAxis(x, 0, Width) /\ CheckAxis(y, 0, Height)
  <2>1. Call(pixels, asked, {})
    BY <1>1, Zenon DEF SetPixel
  <2>2. x \in 0..Width - 1 /\ y \in 0..Height - 1
    BY <1>1, Sizes DEF CheckAxis
  <2>3. pixel \in PixelsOf(format) /\ Shown(format, pixel) = Reduced(format, c)
    BY ColorShows DEF Painting
  <2> HIDE DEF pixel
  <2>4. ASSUME NEW p \in Positions
        PROVE  Colored(pixels, p, IF p \in DOMAIN asked THEN asked[p] ELSE canvas[p])
    <3>1. p[1] \in 0..Width - 1 /\ p[2] \in 0..Height - 1 /\ p = <<p[1], p[2]>>
      BY PositionNumber DEF Positions
    <3>2. p = <<x, y>> <=> Number(p[1], p[2]) = Number(x, y)
      <4>1. /\ Column(Number(x, y)) = x /\ Row(Number(x, y)) = y
            /\ Column(Number(p[1], p[2])) = p[1] /\ Row(Number(p[1], p[2])) = p[2]
        <5>1. y \in Int /\ p[2] \in Int
          BY <3>1
        <5> QED BY <2>2, <3>1, <5>1, NumberInverse, Zenon
      <4> QED BY <3>1, <4>1
    <3>3. CASE p = <<x, y>>
      BY <2>3, <3>2, <3>3 DEF Colored
    <3>4. CASE p # <<x, y>>
      BY <3>2, <3>4 DEF Colored
    <3> QED BY <3>3, <3>4
  <2> HIDE DEF pixels, asked
  <2> QED BY <2>1, <2>4, CallPaints
<1>2. CASE ~(CheckAxis(x, 0, Width) /\ CheckAxis(y, 0, Height))
  <2>1. Call(Nothing, Nothing, {})
    BY <1>2 DEF SetPixel
  <2> QED BY <2>1, RefusedPaints DEF Nothing
<1> QED BY <1>1, <1>2

(* Where the channels are.                                                 *)
LEMMA Channels ==
    ASSUME NEW f \in Formats
    PROVE  LET last == getFormatBpp(f) - 1 IN
           /\ RedIndex(f) \in 0..last /\ GreenIndex(f) \in 0..last /\ BlueIndex(f) \in 0..last
           /\ getFormatBpp(f) \in {1, 3, 4}
           /\ f \in Formats1 => /\ getFormatBpp(f) = 1 /\ f \notin Formats4 /\ f \notin AlphaFormats
                                /\ RedIndex(f) = 0 /\ GreenIndex(f) = 0 /\ BlueIndex(f) = 0
           /\ f \notin Formats1 => /\ getFormatBpp(f) # 1
                                   /\ RedIndex(f) # GreenIndex(f) /\ RedIndex(f) # BlueIndex(f)
                                   /\ GreenIndex(f) # BlueIndex(f)
           /\ f \in Formats4 => /\ getFormatBpp(f) = 4 /\ AlphaIndex(f) \in 0..3
                                /\ 0..3 = {RedIndex(f), GreenIndex(f), BlueIndex(f), AlphaIndex(f)}
                                /\ AlphaIndex(f) \notin {RedIndex(f), GreenIndex(f), BlueIndex(f)}
           /\ f \in Formats3 => /\ getFormatBpp(f) = 3 /\ f \notin Formats4
                                /\ 0..2 = {RedIndex(f), GreenIndex(f), BlueIndex(f)}
           /\ f \in AlphaFormats => f \in Formats4
<1>1. CASE f \in Formats1
  BY <1>1 DEF getFormatBpp, RedIndex, GreenIndex, BlueIndex, Formats1, Formats3, Formats4,
     AlphaFormats, LeftRGB, RightRGB
<1>2. CASE f \in Formats3
  BY <1>2 DEF getFormatBpp, RedIndex, GreenIndex, BlueIndex, Formats1, Formats3, Formats4,
     AlphaFormats, LeftRGB, RightRGB
<1>3. CASE f \in Formats4
  BY <1>3 DEF getFormatBpp, RedIndex, GreenIndex, BlueIndex, AlphaIndex, Formats1, Formats3,
     Formats4, AlphaFormats, LeftRGB, RightRGB
<1> QED BY <1>1, <1>2, <1>3 DEF Formats

LEMMA ClearPaints ==
    ASSUME Painting, Clear
    PROVE  Painting'
<1> DEFINE zero == [r |-> 0, g |-> 0, b |-> 0, a |-> 0]
          pixel == [k \in 0..bpp - 1 |-> 0]
          pixels == [n \in 0..Width * Height - 1 |-> pixel]
          asked == [p \in Positions |-> Reduced(format, zero)]
<1>1. Call(pixels, asked, {})
  BY Zenon DEF Clear
<1>2. format \in Formats
  BY ImagesAssumption DEF Painting
<1>3. pixel \in PixelsOf(format) /\ Shown(format, pixel) = Reduced(format, zero)
  BY <1>2, Channels DEF Shown, Reduced, PixelsOf, bpp, Byte
<1> HIDE DEF pixel, zero
<1>4. ASSUME NEW p \in Positions
      PROVE  Colored(pixels, p, IF p \in DOMAIN asked THEN asked[p] ELSE canvas[p])
  BY <1>3, PositionNumber DEF Colored, Inside
<1> HIDE DEF pixels, asked
<1> QED BY <1>1, <1>4, CallPaints

LEMMA InvertedShows ==
    ASSUME format \in Formats, NEW q \in PixelsOf(format)
    PROVE  /\ InvertedPixel(q) \in PixelsOf(format)
           /\ Shown(format, InvertedPixel(q)) =
                LET c == Shown(format, q) IN
                [r |-> 255 - c.r, g |-> 255 - c.g, b |-> 255 - c.b, a |-> c.a]
<1>1. DOMAIN q = 0..getFormatBpp(format) - 1 /\ \A k \in DOMAIN q : q[k] \in Byte
  BY DEF PixelsOf
<1>2. \A k \in DOMAIN q : 255 - q[k] \in Byte
  <2>1. \A b \in Byte : 255 - b \in Byte
    BY DEF Byte
  <2> QED BY <1>1, <2>1
<1>3. InvertedPixel(q) \in PixelsOf(format)
  BY <1>1, <1>2 DEF InvertedPixel, PixelsOf
<1>4. /\ InvertedPixel(q)[RedIndex(format)] = 255 - q[RedIndex(format)]
      /\ InvertedPixel(q)[GreenIndex(format)] = 255 - q[GreenIndex(format)]
      /\ InvertedPixel(q)[BlueIndex(format)] = 255 - q[BlueIndex(format)]
  BY <1>1, Channels DEF InvertedPixel
<1>5. format \in AlphaFormats => InvertedPixel(q)[AlphaIndex(format)] = q[AlphaIndex(format)]
  BY <1>1, Channels DEF InvertedPixel
<1> QED BY <1>3, <1>4, <1>5 DEF Shown

LEMMA InvertPaints ==
    ASSUME Painting, NEW x \in Int, NEW y \in Int, NEW w \in Int, NEW h \in Int,
           Invert(x, y, w, h)
    PROVE  Painting'
<1> DEFINE X == ClipAxis(x, w, Width)
          Y == ClipAxis(y, h, Height)
          inverse(c) == [r |-> 255 - c.r, g |-> 255 - c.g, b |-> 255 - c.b, a |-> c.a]
          pixels == [n \in Rows(X.at, Y.at, X.n, Y.n) |-> InvertedPixel(PixelOf(data, n))]
          asked == [p \in Region(x, y, w, h) |-> inverse(canvas[p])]
<1>1. CASE X.ok /\ Y.ok
  <2>1. Call(pixels, asked, {})
    BY <1>1, Zenon DEF Invert
  <2>2. ASSUME met = {}, NEW p \in Positions
        PROVE  Colored(pixels, p, IF p \in DOMAIN asked THEN asked[p] ELSE canvas[p])
    <3> DEFINE n == Number(p[1], p[2])
    <3>1. p \in DOMAIN asked <=> n \in DOMAIN pixels
      BY <1>1, RegionClipped
    <3>2. format \in Formats
      BY ImagesAssumption DEF Painting
    <3>3. PixelOf(data, n) \in PixelsOf(format) /\ Shown(format, PixelOf(data, n)) = canvas[p]
      BY <2>2 DEF Painting, PixelsAsked, PixelAt
    <3>4. p \in DOMAIN asked => asked[p] = inverse(canvas[p])
      OBVIOUS
    <3>5. n \in DOMAIN pixels => pixels[n] = InvertedPixel(PixelOf(data, n))
      OBVIOUS
    <3>6. InvertedPixel(PixelOf(data, n)) \in PixelsOf(format)
          /\ Shown(format, InvertedPixel(PixelOf(data, n))) = inverse(canvas[p])
      BY <3>2, <3>3, InvertedShows
    <3> HIDE DEF pixels, asked, inverse
    <3> QED BY <3>1, <3>4, <3>5, <3>6 DEF Colored
  <2> HIDE DEF pixels, asked
  <2> QED BY <2>1, <2>2, CallPaints
<1>2. CASE ~(X.ok /\ Y.ok)
  <2>1. Call(Nothing, Nothing, {})
    BY <1>2, Zenon DEF Invert
  <2> QED BY <2>1, RefusedPaints DEF Nothing
<1> QED BY <1>1, <1>2

-----------------------------------------------------------------------------
(* Sources, and what an alpha put into a pixel leaves it showing.          *)
SourceTyped(src) ==
    /\ src.format \in Formats /\ src.w \in Nat /\ src.h \in Nat
    /\ DOMAIN src.px = 0..src.w * src.h - 1
    /\ \A n \in DOMAIN src.px : src.px[n] \in PixelsOf(src.format)

LEMMA SourceImageTyped ==
    ASSUME NEW f \in SourceFormats
    PROVE  /\ SourceTyped(SourceImage(f))
           /\ SourceImage(f).format = f
           /\ SourceImage(f).w = SourceWidth /\ SourceImage(f).h = SourceHeight
<1> DEFINE size == getFormatBpp(f)
          all == SourceWidth * SourceHeight
          px == [n \in 0..all - 1 |-> [k \in 0..size - 1 |-> SourceBytes[n * size + k]]]
<1>1. SourceImage(f) = [format |-> f, w |-> SourceWidth, h |-> SourceHeight, px |-> px]
  BY DEF SourceImage, Source
<1>2. f \in Formats /\ SourceWidth \in Nat /\ SourceHeight \in Nat
  BY ImagesAssumption
<1>3. size \in {1, 3, 4} /\ all \in Int
  BY <1>2, Channels, Z3
<1>4. ASSUME NEW n \in 0..all - 1, NEW k \in 0..size - 1
      PROVE  SourceBytes[n * size + k] \in Byte
  <2>1. 4 * SourceWidth * SourceHeight = 4 * all
    BY <1>2, Z3
  <2> HIDE DEF all, size
  <2>2. n * size + k \in 0..4 * all - 1
    BY <1>3
  <2> QED BY <2>1, <2>2, ImagesAssumption
<1>5. \A n \in 0..all - 1 : px[n] \in PixelsOf(f)
  BY <1>4 DEF PixelsOf
<1>6. DOMAIN px = 0..all - 1
  OBVIOUS
<1> HIDE DEF px
<1> QED BY <1>1, <1>2, <1>5, <1>6 DEF SourceTyped

LEMMA AlphaPut ==
    ASSUME format \in Formats, format \in AlphaFormats, NEW q \in PixelsOf(format), NEW a \in Byte
    PROVE  LET put == [q EXCEPT ![AlphaIndex(format)] = a] IN
           /\ put \in PixelsOf(format)
           /\ Shown(format, put) = [Shown(format, q) EXCEPT !.a = a]
<1>1. q \in [0..3 -> Byte] /\ AlphaIndex(format) \in 0..3 /\ getFormatBpp(format) = 4
  BY Channels DEF PixelsOf
<1>2. /\ RedIndex(format) \in 0..3 /\ RedIndex(format) # AlphaIndex(format)
      /\ GreenIndex(format) \in 0..3 /\ GreenIndex(format) # AlphaIndex(format)
      /\ BlueIndex(format) \in 0..3 /\ BlueIndex(format) # AlphaIndex(format)
  BY Channels
<1> DEFINE put == [q EXCEPT ![AlphaIndex(format)] = a]
<1>3. put \in [0..3 -> Byte] /\ put[AlphaIndex(format)] = a
      /\ \A k \in 0..3 : k # AlphaIndex(format) => put[k] = q[k]
  BY <1>1
<1> HIDE DEF put
<1>4. Shown(format, put) = [Shown(format, q) EXCEPT !.a = a]
  BY <1>2, <1>3 DEF Shown
<1> QED BY <1>1, <1>3, <1>4 DEF put, PixelsOf

LEMMA MapAlphaByte ==
    ASSUME NEW red \in Byte, NEW median \in Byte, NEW ambiguity \in Nat
    PROVE  MapAlpha(red, median, ambiguity) \in Byte
<1> DEFINE half == ambiguity \div 2
          high == median + half
<1>1. half \in Nat /\ 2 * half <= ambiguity
  OBVIOUS
<1>2. CASE ambiguity # 0 /\ red >= median - half /\ red < high
  <2>1. MapAlpha(red, median, ambiguity) = ((high - red) * 255) \div ambiguity
    BY <1>1, <1>2 DEF MapAlpha, Byte
  <2>2. (high - red) * 255 \in Nat /\ (high - red) * 255 <= ambiguity * 255
    BY <1>1, <1>2 DEF Byte
  <2> DEFINE a == (high - red) * 255
            q == a \div ambiguity
  <2>3. a \in Int /\ ambiguity \in Nat \ {0}
    BY <1>2, <2>2
  <2> HIDE DEF a
  <2>4. q \in Int /\ q * ambiguity <= a /\ a < q * ambiguity + ambiguity
    BY <2>3, Quotient
  <2> HIDE DEF q
  <2>5. q * ambiguity <= 255 * ambiguity /\ 0 * ambiguity < (q + 1) * ambiguity
    BY <2>2, <2>3, <2>4, Z3 DEF a
  <2>6. q <= 255 /\ 0 < q + 1
    BY <2>3, <2>4, <2>5, Cancel
  <2> QED BY <2>1, <2>4, <2>6 DEF Byte, q, a
<1>3. CASE ~(ambiguity # 0 /\ red >= median - half /\ red < high)
  BY <1>1, <1>3 DEF MapAlpha, Byte
<1> QED BY <1>2, <1>3

LEMMA InsertAlphaMapPaints ==
    ASSUME Painting, NEW f \in SourceFormats, NEW median \in Byte, NEW ambiguity \in Nat,
           SourceWidth = Width, SourceHeight = Height,
           InsertAlphaMap(SourceImage(f), median, ambiguity)
    PROVE  Painting'
<1> DEFINE src == SourceImage(f)
          alpha(n) == MapAlpha(src.px[n][RedIndex(src.format)], median, ambiguity)
          pixels == [n \in 0..Width * Height - 1 |->
                        [PixelOf(data, n) EXCEPT ![AlphaIndex(format)] = alpha(n)]]
          asked == [p \in Positions |-> [canvas[p] EXCEPT !.a = alpha(Number(p[1], p[2]))]]
<1>1. SourceTyped(src) /\ src.w = Width /\ src.h = Height
  BY SourceImageTyped
<1>2. \A n \in Inside : alpha(n) \in Byte
  <2> HIDE DEF src
  <2> SUFFICES ASSUME NEW n \in Inside
               PROVE  MapAlpha(src.px[n][RedIndex(src.format)], median, ambiguity) \in Byte
    OBVIOUS
  <2>1. src.px[n] \in PixelsOf(src.format) /\ src.format \in Formats
    BY <1>1 DEF SourceTyped, Inside
  <2>2. src.px[n][RedIndex(src.format)] \in Byte
    BY <2>1, Channels DEF PixelsOf
  <2> QED BY <2>2, MapAlphaByte
<1>3. CASE HasAlpha
  <2>1. Call(pixels, asked, {})
    BY <1>3, Zenon DEF InsertAlphaMap
  <2> HIDE DEF alpha
  <2>2. ASSUME met = {}, NEW p \in Positions
        PROVE  Colored(pixels, p, IF p \in DOMAIN asked THEN asked[p] ELSE canvas[p])
    <3> DEFINE n == Number(p[1], p[2])
    <3>1. n \in Inside /\ n \in DOMAIN pixels
      BY PositionNumber DEF Inside
    <3>2. format \in Formats /\ format \in AlphaFormats
      BY <1>3, ImagesAssumption DEF Painting, HasAlpha
    <3>3. PixelOf(data, n) \in PixelsOf(format) /\ Shown(format, PixelOf(data, n)) = canvas[p]
      BY <2>2 DEF Painting, PixelsAsked, PixelAt
    <3>4. pixels[n] = [PixelOf(data, n) EXCEPT ![AlphaIndex(format)] = alpha(n)]
      BY <3>1
    <3>5. p \in DOMAIN asked /\ asked[p] = [canvas[p] EXCEPT !.a = alpha(n)]
      OBVIOUS
    <3>6. alpha(n) \in Byte
      BY <1>2, <3>1
    <3> HIDE DEF n
    <3>7. pixels[n] \in PixelsOf(format) /\ Shown(format, pixels[n]) = asked[p]
      BY <3>2, <3>3, <3>4, <3>5, <3>6, AlphaPut
    <3> HIDE DEF pixels, asked
    <3> QED BY <3>1, <3>5, <3>7 DEF Colored, n
  <2> HIDE DEF pixels, asked
  <2> QED BY <2>1, <2>2, CallPaints
<1>4. CASE ~HasAlpha
  <2>1. Call(Nothing, Nothing, {})
    BY <1>4, Zenon DEF InsertAlphaMap
  <2> QED BY <2>1, RefusedPaints DEF Nothing
<1> QED BY <1>3, <1>4

-----------------------------------------------------------------------------
(* Where copies store, and which pixel of the source they take.            *)
LEMMA PlacedAt ==
    ASSUME NEW src, NEW X, NEW Y, NEW run, src.w \in Int,
           X.s \in Int, X.d \in Nat, X.n \in Int, X.d + X.n <= Width,
           Y.s \in Int, Y.d \in Nat, Y.n \in Int, Y.d + Y.n <= Height,
           NEW p \in Positions
    PROVE  LET n == Number(p[1], p[2])
               from == Placed(src, X, Y, run) IN
           /\ n \in DOMAIN from
                <=> p[1] \in X.d..X.d + X.n - 1 /\ p[2] \in Y.d..Y.d + Y.n - 1
           /\ n \in DOMAIN from =>
                from[n] = (X.s + p[1] - X.d) + (Y.s + p[2] - Y.d) * src.w
<1> DEFINE n == Number(p[1], p[2])
          from == Placed(src, X, Y, run)
          s == X.s + Y.s * src.w
<1>1. p[1] \in 0..Width - 1 /\ p[2] \in 0..Height - 1 /\ Width \in Nat \ {0} /\ n \in Nat
  BY PositionNumber, Sizes
<1>2. p[1] \in Int /\ p[2] \in Int /\ n = p[1] + p[2] * Width
  BY <1>1 DEF Number
<1>3. Column(n) = p[1] /\ Row(n) = p[2]
  BY <1>1, <1>2, NumberInverse, Zenon
<1>4. CASE run /\ X.s = 0 /\ X.d = 0 /\ src.w = Width /\ X.n = Width
  <2> DEFINE d == Y.d * Width
            e == d + Y.n * Width
  <2>1. Number(X.d, Y.d) = d /\ d \in Int /\ X.n * Y.n = Y.n * Width /\ Y.n * Width \in Int
    BY <1>1, <1>4, Z3 DEF Number
  <2>2. from = [m \in d..d + Y.n * Width - 1 |-> s + m - d]
    BY <1>4, <2>1, Zenon DEF Placed
  <2> HIDE DEF n
  <2>3. n \in DOMAIN from <=> n >= d /\ n < d + Y.n * Width
    <3>1. d \in Int /\ e \in Int
      BY <2>1
    <3>a. DOMAIN from = d..d + Y.n * Width - 1
      <4> HIDE DEF d, s
      <4> QED BY <2>2
    <3>b. DOMAIN from = d..e - 1
      <4>1. d + Y.n * Width - 1 = e - 1
        BY <2>1
      <4> HIDE DEF d, e, from
      <4> QED BY <3>a, <4>1
    <3> HIDE DEF d, e, s, from
    <3>2. n \in DOMAIN from <=> n >= d /\ n < e
      BY <1>1, <3>1, <3>b
    <3> QED BY <3>2 DEF e
  <2>4. n >= d <=> p[2] >= Y.d
    <3>1. n >= d => 0 < (p[2] + 1 - Y.d) * Width
      BY <1>1, <1>2, Z3
    <3>2. 0 * Width < (p[2] + 1 - Y.d) * Width => 0 < p[2] + 1 - Y.d
      BY <1>1, <1>2, Cancel
    <3>3. 0 * Width = 0
      BY <1>1
    <3>4. p[2] >= Y.d => n >= d
      BY <1>1, <1>2, Z3
    <3> QED BY <1>2, <3>1, <3>2, <3>3, <3>4
  <2>5. n < d + Y.n * Width <=> p[2] < Y.d + Y.n
    <3>1. n < d + Y.n * Width => p[2] * Width < (Y.d + Y.n) * Width
      BY <1>1, <1>2, Z3
    <3>2. p[2] * Width < (Y.d + Y.n) * Width => p[2] < Y.d + Y.n
      BY <1>1, <1>2, Cancel
    <3>3. p[2] < Y.d + Y.n => (p[2] + 1) * Width <= (Y.d + Y.n) * Width
      BY <1>1, <1>2, Z3
    <3>4. (p[2] + 1) * Width <= (Y.d + Y.n) * Width => n < d + Y.n * Width
      BY <1>1, <1>2, Z3
    <3> QED BY <3>1, <3>2, <3>3, <3>4
  <2>6. n \in DOMAIN from
          <=> p[1] \in X.d..X.d + X.n - 1 /\ p[2] \in Y.d..Y.d + Y.n - 1
    <3> HIDE DEF from, d
    <3> QED BY <1>1, <1>2, <1>4, <2>3, <2>4, <2>5
  <2>7. s + n - d = (X.s + p[1] - X.d) + (Y.s + p[2] - Y.d) * src.w
    BY <1>1, <1>2, <1>4, Z3
  <2>8. n \in DOMAIN from => from[n] = s + n - d
    <3> HIDE DEF d, s
    <3> QED BY <2>2
  <2> QED BY <2>6, <2>7, <2>8 DEF n
<1>5. CASE ~(run /\ X.s = 0 /\ X.d = 0 /\ src.w = Width /\ X.n = Width)
  <2>1. from = [m \in Rows(X.d, Y.d, X.n, Y.n) |->
                   s + Column(m) - X.d + (Row(m) - Y.d) * src.w]
    BY <1>5, Zenon DEF Placed
  <2>2. n \in Rows(X.d, Y.d, X.n, Y.n)
          <=> p[1] \in X.d..X.d + X.n - 1 /\ p[2] \in Y.d..Y.d + Y.n - 1
    BY RowsHold
  <2>3. s + p[1] - X.d + (p[2] - Y.d) * src.w
          = (X.s + p[1] - X.d) + (Y.s + p[2] - Y.d) * src.w
    BY <1>2, Z3
  <2>4. n \in Rows(X.d, Y.d, X.n, Y.n) =>
          from[n] = s + p[1] - X.d + (p[2] - Y.d) * src.w
    <3> HIDE DEF s, n
    <3> QED BY <1>3, <2>1
  <2>5. DOMAIN from = Rows(X.d, Y.d, X.n, Y.n)
    BY <2>1
  <2> QED BY <2>2, <2>3, <2>4, <2>5
<1> QED BY <1>4, <1>5

LEMMA SourceNumber ==
    ASSUME NEW w \in Nat, NEW h \in Nat, NEW x \in 0..w - 1, NEW y \in 0..h - 1
    PROVE  x + y * w \in 0..w * h - 1
<1>1. y * w \in Int /\ w * h \in Int /\ y * w >= 0
  BY Z3
<1>2. (y + 1) * w <= w * h
  BY Z3
<1>3. (y + 1) * w = y * w + w
  BY Z3
<1> QED BY <1>1, <1>2, <1>3

CopyNames == {"sx", "sy", "sw", "sh", "dx", "dy"}
SourceX(R, p) == R.sx + p[1] - R.dx
SourceY(R, p) == R.sy + p[2] - R.dy

(* CopyAxis() at one position of the image.                                *)
CopiedAxis(X, s, n, from, d, into, i) ==
    /\ X.ok => /\ CheckAxis(s, n, from) /\ CheckAxis(X.s, X.n, from)
               /\ X.s \in Int /\ X.n \in Int /\ X.d \in Nat /\ X.d + X.n <= into
               /\ i \in X.d..X.d + X.n - 1 <=> i \in d..d + n - 1
               /\ X.s + i - X.d = s + i - d
               /\ i \in d..d + n - 1 => s + i - d \in 0..from - 1
    /\ ~X.ok => ~(CheckAxis(s, n, from) /\ i \in d..d + n - 1)

LEMMA CopyAxisAt ==
    ASSUME NEW s \in Int, NEW n \in Int, NEW from \in Nat, NEW d \in Int, NEW into \in Nat,
           NEW i \in 0..into - 1
    PROVE  CopiedAxis(CopyAxis(s, n, from, d, into), s, n, from, d, into, i)
<1> DEFINE first == IF d < 0 THEN s - d ELSE s
          rest == IF d < 0 THEN n + d ELSE n
          fits == Least(rest, into - Most(d, 0))
          ok == CheckAxis(s, n, from) /\ first < from /\ rest > 0 /\ fits > 0
          at == Most(d, 0)
          in == i \in d..d + n - 1
<1>1. CopyAxis(s, n, from, d, into) = [ok |-> ok, s |-> first, n |-> fits, d |-> at]
  BY DEF CopyAxis
<1>2. first \in Int /\ fits \in Int /\ at \in Nat /\ at + fits <= into
  BY DEF Least, Most
<1>3. ASSUME ok
      PROVE  /\ CheckAxis(first, fits, from)
             /\ i \in at..at + fits - 1 <=> in
             /\ first + i - at = s + i - d
             /\ in => s + i - d \in 0..from - 1
  BY <1>3 DEF CheckAxis, Least, Most
<1>4. ASSUME ~ok
      PROVE  ~(CheckAxis(s, n, from) /\ in)
  BY <1>4 DEF CheckAxis, Least, Most
<1>5. ok => CheckAxis(s, n, from)
  OBVIOUS
<1> HIDE DEF first, rest, fits, ok, at, in
<1> DEFINE X == CopyAxis(s, n, from, d, into)
<1>6. X.ok = ok /\ X.s = first /\ X.n = fits /\ X.d = at
  BY <1>1
<1> HIDE DEF X
<1> QED BY <1>2, <1>3, <1>4, <1>5, <1>6 DEF X, in, CopiedAxis

LEMMA CopyPlaces ==
    ASSUME NEW src, SourceTyped(src), NEW R, \A name \in CopyNames : R[name] \in Int,
           NEW run, NEW p \in Positions
    PROVE  LET X == CopyAxis(R.sx, R.sw, src.w, R.dx, Width)
               Y == CopyAxis(R.sy, R.sh, src.h, R.dy, Height)
               n == Number(p[1], p[2])
               from == Placed(src, X, Y, run)
               in == p \in Region(R.dx, R.dy, R.sw, R.sh) IN
           /\ X.ok /\ Y.ok =>
                /\ Legal(src, R)
                /\ n \in DOMAIN from <=> in
                /\ in => /\ from[n] = SourceX(R, p) + SourceY(R, p) * src.w
                         /\ from[n] \in DOMAIN src.px
                         /\ SourceX(R, p) \in 0..src.w - 1 /\ SourceY(R, p) \in 0..src.h - 1
           /\ ~(X.ok /\ Y.ok) => ~(Legal(src, R) /\ in)
<1> DEFINE X == CopyAxis(R.sx, R.sw, src.w, R.dx, Width)
          Y == CopyAxis(R.sy, R.sh, src.h, R.dy, Height)
          n == Number(p[1], p[2])
          from == Placed(src, X, Y, run)
          in == p \in Region(R.dx, R.dy, R.sw, R.sh)
<1>0. /\ R.sx \in Int /\ R.sy \in Int /\ R.sw \in Int /\ R.sh \in Int /\ R.dx \in Int /\ R.dy \in Int
      /\ src.w \in Nat /\ src.h \in Nat /\ Width \in Nat /\ Height \in Nat
  BY Sizes DEF CopyNames, SourceTyped
<1>1. p[1] \in 0..Width - 1 /\ p[2] \in 0..Height - 1
  BY PositionNumber
<1>2. in <=> p[1] \in R.dx..R.dx + R.sw - 1 /\ p[2] \in R.dy..R.dy + R.sh - 1
  BY DEF Region
<1>3. CopiedAxis(X, R.sx, R.sw, src.w, R.dx, Width, p[1])
  BY <1>0, <1>1, CopyAxisAt, Zenon
<1>4. CopiedAxis(Y, R.sy, R.sh, src.h, R.dy, Height, p[2])
  BY <1>0, <1>1, CopyAxisAt, Zenon
<1> HIDE DEF X, Y
<1>6. ASSUME X.ok, Y.ok
      PROVE  /\ Legal(src, R)
             /\ n \in DOMAIN from <=> in
             /\ in => /\ from[n] = SourceX(R, p) + SourceY(R, p) * src.w
                      /\ from[n] \in DOMAIN src.px
                      /\ SourceX(R, p) \in 0..src.w - 1 /\ SourceY(R, p) \in 0..src.h - 1
  <2>1. src.w \in Int
    BY <1>0
  <2>2. /\ n \in DOMAIN from
             <=> p[1] \in X.d..X.d + X.n - 1 /\ p[2] \in Y.d..Y.d + Y.n - 1
        /\ n \in DOMAIN from =>
             from[n] = (X.s + p[1] - X.d) + (Y.s + p[2] - Y.d) * src.w
    BY <1>3, <1>4, <1>6, <2>1, PlacedAt, Zenon DEF CopiedAxis
  <2> HIDE DEF from, n
  <2>3. n \in DOMAIN from <=> in
    BY <1>2, <1>3, <1>4, <1>6, <2>2, Zenon DEF CopiedAxis
  <2>4. Legal(src, R)
    BY <1>3, <1>4, <1>6 DEF Legal, CopiedAxis
  <2>5. in => SourceX(R, p) \in 0..src.w - 1 /\ SourceY(R, p) \in 0..src.h - 1
    BY <1>2, <1>3, <1>4, <1>6, Zenon DEF CopiedAxis, SourceX, SourceY
  <2>6. in => SourceX(R, p) + SourceY(R, p) * src.w \in DOMAIN src.px
    BY <1>0, <2>5, SourceNumber DEF SourceTyped
  <2>7. in => from[n] = SourceX(R, p) + SourceY(R, p) * src.w
    BY <1>3, <1>4, <1>6, <2>2, <2>3, Zenon DEF CopiedAxis, SourceX, SourceY
  <2> HIDE DEF in
  <2> QED BY <2>3, <2>4, <2>5, <2>6, <2>7, Zenon
<1>7. ASSUME ~(X.ok /\ Y.ok)
      PROVE  ~(Legal(src, R) /\ in)
  BY <1>2, <1>3, <1>4, <1>7, Zenon DEF Legal, CopiedAxis
<1> QED BY <1>6, <1>7 DEF X, Y

(* What storing pixels of a source, converted or as an alpha, shows.       *)
LEMMA StoredShows ==
    ASSUME format \in Formats, NEW src, SourceTyped(src), NEW from, NEW n \in DOMAIN from,
           from[n] \in DOMAIN src.px
    PROVE  LET c == Shown(src.format, src.px[from[n]]) IN
           /\ Stored(src, from)[n] \in PixelsOf(format)
           /\ Shown(format, Stored(src, from)[n]) = Reduced(format, c)
<1>1. Stored(src, from)[n] = Convert(src.format, format, src.px[from[n]])
  BY DEF Stored
<1>2. src.format \in Formats /\ src.px[from[n]] \in PixelsOf(src.format)
  BY DEF SourceTyped
<1> QED BY <1>1, <1>2, ConversionKeepsColors

WithAlpha(c, a) == [c EXCEPT !.a = a]

LEMMA AlphaStoredShows ==
    ASSUME format \in Formats, format \in AlphaFormats, NEW src, SourceTyped(src),
           src.format = "ALPHA", NEW from, NEW n \in DOMAIN from,
           from[n] \in DOMAIN src.px, PixelOf(data, n) \in PixelsOf(format)
    PROVE  LET c == Shown(src.format, src.px[from[n]]) IN
           /\ AlphaStored(src, from)[n] \in PixelsOf(format)
           /\ Shown(format, AlphaStored(src, from)[n])
                = WithAlpha(Shown(format, PixelOf(data, n)), c.r)
<1> DEFINE a == src.px[from[n]][0]
<1>1. AlphaStored(src, from)[n] = [PixelOf(data, n) EXCEPT ![AlphaIndex(format)] = a]
  BY DEF AlphaStored
<1>2. src.px[from[n]] \in [0..0 -> Byte]
  <2>1. src.px[from[n]] \in PixelsOf("ALPHA")
    BY DEF SourceTyped
  <2> QED BY <2>1 DEF PixelsOf, getFormatBpp, Formats3, Formats4, LeftRGB, RightRGB
<1>3. a \in Byte
  BY <1>2
<1>4. Shown(src.format, src.px[from[n]]).r = a
  BY DEF Shown, RedIndex
<1> HIDE DEF a
<1> QED BY <1>1, <1>3, <1>4, AlphaPut DEF WithAlpha

(* write() paints the pixels asked for and stores no other.                *)
Destined(src, R, p) == Legal(src, R) /\ p \in Region(R.dx, R.dy, R.sw, R.sh)
ColorFor(src, R, p) == ColorAt(src, R.sx + p[1] - R.dx, R.sy + p[2] - R.dy)

LEMMA WrittenShows ==
    ASSUME Painting, met = {}, NEW src, SourceTyped(src),
           NEW R, \A name \in CopyNames : R[name] \in Int, NEW alpha, NEW p \in Positions
    PROVE  /\ Destined(src, R, p) =>
                Colored(WrittenPixels(src, R), p, AskedColor(src, ColorFor(src, R, p), p, alpha))
           /\ ~Destined(src, R, p) => Number(p[1], p[2]) \notin DOMAIN WrittenPixels(src, R)
<1> DEFINE X == CopyAxis(R.sx, R.sw, src.w, R.dx, Width)
          Y == CopyAxis(R.sy, R.sh, src.h, R.dy, Height)
          n == Number(p[1], p[2])
          place(run) == Placed(src, X, Y, run)
          in == p \in Region(R.dx, R.dy, R.sw, R.sh)
          c == ColorFor(src, R, p)
<1>1. format \in Formats /\ PixelOf(data, n) \in PixelsOf(format)
      /\ Shown(format, PixelOf(data, n)) = canvas[p]
  BY ImagesAssumption DEF Painting, PixelsAsked, PixelAt
<1>2. ASSUME NEW run
      PROVE  /\ X.ok /\ Y.ok => /\ Legal(src, R)
                                /\ n \in DOMAIN place(run) <=> in
                                /\ in => /\ place(run)[n] \in DOMAIN src.px
                                         /\ Shown(src.format, src.px[place(run)[n]]) = c
             /\ ~(X.ok /\ Y.ok) => ~(Legal(src, R) /\ in)
  <2>1. /\ X.ok /\ Y.ok =>
             /\ Legal(src, R)
             /\ n \in DOMAIN place(run) <=> in
             /\ in => /\ place(run)[n] = SourceX(R, p) + SourceY(R, p) * src.w
                      /\ place(run)[n] \in DOMAIN src.px
                      /\ SourceX(R, p) \in 0..src.w - 1 /\ SourceY(R, p) \in 0..src.h - 1
        /\ ~(X.ok /\ Y.ok) => ~(Legal(src, R) /\ in)
    BY CopyPlaces, Zenon
  <2>2. c = Shown(src.format, src.px[SourceX(R, p) + SourceY(R, p) * src.w])
    BY DEF ColorFor, ColorAt, SourceX, SourceY
  <2> HIDE DEF X, Y, n, place, in, c
  <2> QED BY <2>1, <2>2, Zenon
<1>3. Destined(src, R, p) <=> Legal(src, R) /\ in
  BY DEF Destined
<1>4. CASE ~(X.ok /\ Y.ok)
  <2>1. WrittenPixels(src, R) = Nothing
    BY <1>4, Zenon DEF WrittenPixels
  <2>2. DOMAIN Nothing = {}
    BY DEF Nothing
  <2>3. ~Destined(src, R, p)
    BY <1>2, <1>3, <1>4, Zenon
  <2> QED BY <2>1, <2>2, <2>3, Zenon
<1>5. CASE X.ok /\ Y.ok /\ ~AlphaOnly(src)
  <2> DEFINE from == place(TRUE)
  <2>1. WrittenPixels(src, R) = Stored(src, from)
    BY <1>5, Zenon DEF WrittenPixels
  <2>2. AskedColor(src, c, p, alpha) = Reduced(format, c)
    BY <1>5 DEF AskedColor
  <2>3. DOMAIN Stored(src, from) = DOMAIN from
    BY DEF Stored
  <2>4. /\ Legal(src, R) /\ (n \in DOMAIN from <=> in)
        /\ in => from[n] \in DOMAIN src.px /\ Shown(src.format, src.px[from[n]]) = c
    BY <1>2, <1>5, Zenon
  <2> HIDE DEF X, Y, n, from, place, in, c
  <2>5. in => /\ Stored(src, from)[n] \in PixelsOf(format)
              /\ Shown(format, Stored(src, from)[n]) = Reduced(format, c)
    <3>1. in => /\ Stored(src, from)[n] \in PixelsOf(format)
                /\ Shown(format, Stored(src, from)[n])
                     = Reduced(format, Shown(src.format, src.px[from[n]]))
      BY <1>1, <2>4, StoredShows, Zenon
    <3> QED BY <2>4, <3>1, Zenon
  <2> QED BY <1>3, <2>1, <2>2, <2>3, <2>4, <2>5, Zenon DEF Colored, n, c
<1>6. CASE X.ok /\ Y.ok /\ AlphaOnly(src) /\ HasAlpha
  <2> DEFINE from == place(FALSE)
  <2>1. WrittenPixels(src, R) = AlphaStored(src, from)
    BY <1>6, Zenon DEF WrittenPixels
  <2>2. AskedColor(src, c, p, alpha) = WithAlpha(canvas[p], c.r)
    BY <1>6 DEF AskedColor, WithAlpha
  <2>3. DOMAIN AlphaStored(src, from) = DOMAIN from
    BY DEF AlphaStored
  <2>4. /\ Legal(src, R) /\ (n \in DOMAIN from <=> in)
        /\ in => from[n] \in DOMAIN src.px /\ Shown(src.format, src.px[from[n]]) = c
    BY <1>2, <1>6, Zenon
  <2>5. format \in AlphaFormats /\ src.format = "ALPHA"
    BY <1>6 DEF HasAlpha, AlphaOnly
  <2> HIDE DEF X, Y, n, from, place, in, c
  <2>6. in => /\ AlphaStored(src, from)[n] \in PixelsOf(format)
              /\ Shown(format, AlphaStored(src, from)[n]) = WithAlpha(canvas[p], c.r)
    <3>1. in => /\ AlphaStored(src, from)[n] \in PixelsOf(format)
                /\ Shown(format, AlphaStored(src, from)[n])
                     = WithAlpha(Shown(format, PixelOf(data, n)), Shown(src.format, src.px[from[n]]).r)
      BY <1>1, <2>4, <2>5, AlphaStoredShows, Zenon
    <3> QED BY <1>1, <2>4, <3>1, Zenon
  <2> QED BY <1>3, <2>1, <2>2, <2>3, <2>4, <2>6, Zenon DEF Colored, n, c
<1>7. CASE X.ok /\ Y.ok /\ AlphaOnly(src) /\ ~HasAlpha
  <2>1. WrittenPixels(src, R) = Nothing
    BY <1>7, Zenon DEF WrittenPixels
  <2>2. DOMAIN Nothing = {}
    BY DEF Nothing
  <2>3. AskedColor(src, c, p, alpha) = canvas[p]
    BY <1>7 DEF AskedColor
  <2> QED BY <2>1, <2>2, <2>3, Zenon DEF Colored
<1> QED BY <1>4, <1>5, <1>6, <1>7, Zenon

LEMMA CopyNumbers ==
    ASSUME NEW R \in Copies
    PROVE  \A name \in CopyNames : R[name] \in Int
  BY CopyFields DEF CopyNames

LEMMA WritePaints ==
    ASSUME Painting, NEW src, SourceTyped(src), NEW R \in Copies, Write(src, R)
    PROVE  Painting'
<1> DEFINE pixels == WrittenPixels(src, R)
          asked == Copied(src, R, 255, AskedColor)
<1>1. Call(pixels, asked, {})
  BY Zenon DEF Write
<1>2. ASSUME NEW p \in Positions
      PROVE  /\ p \in DOMAIN asked <=> Destined(src, R, p)
             /\ p \in DOMAIN asked => asked[p] = AskedColor(src, ColorFor(src, R, p), p, 255)
  <2>1. CASE Legal(src, R)
    <3>1. asked = [q \in Region(R.dx, R.dy, R.sw, R.sh) |->
                      AskedColor(src, ColorAt(src, R.sx + q[1] - R.dx, R.sy + q[2] - R.dy), q, 255)]
      BY <2>1, Zenon DEF Copied
    <3> HIDE DEF asked
    <3> QED BY <2>1, <3>1 DEF Destined, ColorFor
  <2>2. CASE ~Legal(src, R)
    <3>1. asked = Nothing
      BY <2>2, Zenon DEF Copied
    <3>2. DOMAIN Nothing = {}
      BY DEF Nothing
    <3> QED BY <2>2, <3>1, <3>2 DEF Destined
  <2> QED BY <2>1, <2>2
<1> HIDE DEF pixels, asked
<1>3. ASSUME met = {}, NEW p \in Positions
      PROVE  Colored(pixels, p, IF p \in DOMAIN asked THEN asked[p] ELSE canvas[p])
  <2>1. /\ Destined(src, R, p) =>
             Colored(pixels, p, AskedColor(src, ColorFor(src, R, p), p, 255))
        /\ ~Destined(src, R, p) => Number(p[1], p[2]) \notin DOMAIN pixels
    BY <1>3, CopyNumbers, WrittenShows, Zenon DEF pixels
  <2>2. CASE p \in DOMAIN asked
    BY <1>2, <2>1, <2>2, Zenon
  <2>3. CASE p \notin DOMAIN asked
    BY <1>2, <2>1, <2>3, Zenon DEF Colored
  <2> QED BY <2>2, <2>3
<1> QED BY <1>1, <1>3, CallPaints

-----------------------------------------------------------------------------
(* What blit() leaves a pixel showing.                                     *)
LEMMA MixBytes ==
    ASSUME NEW s \in Byte, NEW d \in Byte, NEW a \in Byte
    PROVE  /\ Mix(s, d, a) \in Byte
           /\ (s * a) \div 255 \in Byte
<1>1. (s * a + d * (255 - a)) \div 255 \in 0..255
  BY Z3 DEF Byte
<1>2. (s * a) \div 255 \in 0..255
  BY Z3 DEF Byte
<1> QED BY <1>1, <1>2 DEF Mix, Byte

LEMMA CoverBytes ==
    ASSUME NEW d \in Byte, NEW a \in Byte
    PROVE  a + (d * (255 - a)) \div 255 \in Byte
<1>1. a + (d * (255 - a)) \div 255 \in 0..255
  BY Z3 DEF Byte
<1> QED BY <1>1 DEF Byte

LEMMA MixEnds ==
    ASSUME NEW s \in Byte, NEW d \in Byte
    PROVE  /\ Mix(s, d, 0) = d /\ Mix(s, d, 255) = s
           /\ 255 + (d * (255 - 255)) \div 255 = 255
           /\ (255 * d) \div 255 = d /\ (s * 0) \div 255 = 0
<1>1. (s * 0 + d * (255 - 0)) \div 255 = d
  BY Z3 DEF Byte
<1>2. (s * 255 + d * (255 - 255)) \div 255 = s
  BY Z3 DEF Byte
<1> QED BY <1>1, <1>2 DEF Mix, Byte

LEMMA ShownBytes ==
    ASSUME NEW f \in Formats, NEW q \in PixelsOf(f)
    PROVE  /\ Shown(f, q) \in [r : Byte, g : Byte, b : Byte, a : Byte]
           /\ Reduced(f, Shown(f, q)) = Shown(f, q)
<1>1. /\ q[RedIndex(f)] \in Byte /\ q[GreenIndex(f)] \in Byte /\ q[BlueIndex(f)] \in Byte
      /\ f \in AlphaFormats => q[AlphaIndex(f)] \in Byte
  BY Channels DEF PixelsOf
<1>2. 255 \in Byte
  BY DEF Byte
<1>3. f \in Formats1 => RedIndex(f) = 0 /\ GreenIndex(f) = 0 /\ BlueIndex(f) = 0
  BY Channels
<1>4. Shown(f, q) \in [r : Byte, g : Byte, b : Byte, a : Byte]
  BY <1>1, <1>2 DEF Shown
<1>5. Reduced(f, Shown(f, q)) = Shown(f, q)
  BY <1>3 DEF Shown, Reduced
<1> QED BY <1>4, <1>5

(* The color blit() is asked for at its ends: the source alone, or nothing. *)
LEMMA OpaqueBlend ==
    ASSUME format \in Formats, NEW src, src.format \notin AlphaFormats,
           NEW c \in [r : Byte, g : Byte, b : Byte, a : Byte], c.a = 255, NEW p,
           canvas[p] \in [r : Byte, g : Byte, b : Byte, a : Byte]
    PROVE  BlendedColor(src, c, p, 255) = AskedColor(src, c, p, 255)
<1> DEFINE d == canvas[p]
<1>1. /\ c.r \in Byte /\ c.g \in Byte /\ c.b \in Byte /\ d.r \in Byte /\ d.g \in Byte
      /\ d.b \in Byte /\ d.a \in Byte /\ 255 \in Byte
  BY DEF Byte
<1>2. /\ Mix(c.r, d.r, 255) = c.r /\ Mix(c.g, d.g, 255) = c.g /\ Mix(c.b, d.b, 255) = c.b
      /\ Mix(c.r, d.a, 255) = c.r /\ (c.a * 255) \div 255 = 255
      /\ 255 + (d.a * (255 - 255)) \div 255 = 255
  BY <1>1, MixEnds
<1> HIDE DEF d
<1>3. CASE AlphaOnly(src)
  BY <1>2, <1>3 DEF BlendedColor, AskedColor, d
<1>4. CASE ~AlphaOnly(src)
  <2>1. BlendedColor(src, c, p, 255) =
          Reduced(format, [r |-> c.r, g |-> c.g, b |-> c.b, a |-> 255])
    BY <1>2, <1>4 DEF BlendedColor, d
  <2>2. Reduced(format, [r |-> c.r, g |-> c.g, b |-> c.b, a |-> 255]) = Reduced(format, c)
    BY DEF Reduced
  <2> QED BY <1>4, <2>1, <2>2 DEF AskedColor
<1> QED BY <1>3, <1>4

LEMMA ClearBlend ==
    ASSUME format \in Formats, NEW src, NEW c \in [r : Byte, g : Byte, b : Byte, a : Byte],
           NEW p, canvas[p] \in [r : Byte, g : Byte, b : Byte, a : Byte],
           Reduced(format, canvas[p]) = canvas[p],
           NEW alpha, (c.a * alpha) \div 255 = 0, AlphaOnly(src) => alpha = 0
    PROVE  BlendedColor(src, c, p, alpha) = canvas[p]
<1> DEFINE d == canvas[p]
<1>1. /\ c.r \in Byte /\ c.g \in Byte /\ c.b \in Byte /\ d.r \in Byte /\ d.g \in Byte
      /\ d.b \in Byte /\ d.a \in Byte
  OBVIOUS
<1>2. /\ Mix(c.r, d.r, 0) = d.r /\ Mix(c.g, d.g, 0) = d.g /\ Mix(c.b, d.b, 0) = d.b
      /\ Mix(c.r, d.a, 0) = d.a
  BY <1>1, MixEnds
<1>3. CASE AlphaOnly(src)
  BY <1>2, <1>3 DEF BlendedColor
<1>4. CASE ~AlphaOnly(src)
  <2>1. BlendedColor(src, c, p, alpha) =
          Reduced(format, [r |-> d.r, g |-> d.g, b |-> d.b, a |-> d.a])
    <3> HIDE DEF d
    <3> QED BY <1>2, <1>4 DEF BlendedColor, d
  <2>2. Reduced(format, [r |-> d.r, g |-> d.g, b |-> d.b, a |-> d.a]) = Reduced(format, d)
    BY DEF Reduced
  <2> QED BY <2>1, <2>2
<1> QED BY <1>3, <1>4

(* A pixel mixed with the opacity a of the source.                         *)
LEMMA MixedShows ==
    ASSUME format \in Formats, NEW src, src.format \in Formats,
           NEW s \in PixelsOf(src.format), NEW d \in PixelsOf(format),
           NEW p, canvas[p] = Shown(format, d), ~AlphaOnly(src),
           NEW alpha \in Byte,
           NEW a \in Byte, a # 0,
           a = IF src.format \in Formats4 THEN (s[AlphaIndex(src.format)] * alpha) \div 255 ELSE alpha,
           (Shown(src.format, s).a * alpha) \div 255 = a
    PROVE  /\ BlendedPixel(src, s, d, alpha) \in PixelsOf(format)
           /\ Shown(format, BlendedPixel(src, s, d, alpha))
                = BlendedColor(src, Shown(src.format, s), p, alpha)
<1> DEFINE f == src.format
          R == RedIndex(format)
          G == GreenIndex(format)
          B == BlueIndex(format)
          from == [d EXCEPT ![R] = s[RedIndex(f)],
                            ![G] = s[IF bpp = 1 THEN RedIndex(f) ELSE GreenIndex(f)],
                            ![B] = s[IF bpp = 1 THEN RedIndex(f) ELSE BlueIndex(f)]]
          mixedBy(x) == [k \in DOMAIN d |->
                            IF k \in {R, G, B} THEN Mix(from[k], d[k], x)
                            ELSE IF HasAlpha THEN x + (d[k] * (255 - x)) \div 255 ELSE d[k]]
          mixed == mixedBy(a)
          c == Shown(f, s)
          last == getFormatBpp(format) - 1
<1>1. BlendedPixel(src, s, d, alpha) = mixed
  <2>1. ~(f = "ALPHA" /\ bpp = 4)
    BY DEF AlphaOnly, bpp, getFormatBpp, Formats4, Formats3, LeftRGB, RightRGB
  <2> DEFINE x == IF f \in Formats4 THEN (s[AlphaIndex(f)] * alpha) \div 255 ELSE alpha
  <2>2. BlendedPixel(src, s, d, alpha) = IF x = 0 THEN d ELSE mixedBy(x)
    BY <2>1, Zenon DEF BlendedPixel
  <2>3. x = a
    OBVIOUS
  <2> HIDE DEF x, mixedBy
  <2> QED BY <2>2, <2>3
<1>2. /\ DOMAIN d = 0..last /\ (\A k \in 0..last : d[k] \in Byte)
      /\ R \in 0..last /\ G \in 0..last /\ B \in 0..last /\ bpp = last + 1
  <2>1. getFormatBpp(format) \in {1, 3, 4}
        /\ R \in 0..last /\ G \in 0..last /\ B \in 0..last
    BY Channels, Zenon
  <2>2. bpp = last + 1
    BY <2>1 DEF bpp
  <2>3. DOMAIN d = 0..last /\ \A k \in 0..last : d[k] \in Byte
    BY Zenon DEF PixelsOf
  <2> QED BY <2>1, <2>2, <2>3, Zenon
<1>3. /\ c.r = s[RedIndex(f)] /\ c.g = s[GreenIndex(f)] /\ c.b = s[BlueIndex(f)]
      /\ c.r \in Byte /\ c.g \in Byte /\ c.b \in Byte
      /\ (c.a * alpha) \div 255 = a
  <2>1. c \in [r : Byte, g : Byte, b : Byte, a : Byte]
    BY ShownBytes, Zenon
  <2>2. c.r = s[RedIndex(f)] /\ c.g = s[GreenIndex(f)] /\ c.b = s[BlueIndex(f)]
    BY Zenon DEF Shown
  <2>3. c.r \in Byte /\ c.g \in Byte /\ c.b \in Byte
    <3> HIDE DEF c
    <3> QED BY <2>1
  <2> QED BY <2>2, <2>3, Zenon
<1>4. CASE format \in Formats1
  <2>1. bpp = 1 /\ R = 0 /\ G = 0 /\ B = 0 /\ last = 0 /\ format \notin AlphaFormats
    BY <1>4, Channels DEF bpp
  <2>2. from[0] = c.r
    BY <1>2, <1>3, <2>1
  <2> HIDE DEF from
  <2>3. DOMAIN mixed = 0..0 /\ mixed[0] = Mix(c.r, d[0], a)
    BY <1>2, <2>1, <2>2
  <2>4. Mix(c.r, d[0], a) \in Byte
    BY <1>2, <1>3, <2>1, MixBytes
  <2>5. mixed \in PixelsOf(format)
    <3> HIDE DEF mixed
    <3>1. mixed = [k \in 0..0 |-> mixed[k]]
      BY <2>3 DEF mixed
    <3> QED BY <2>1, <2>3, <2>4, <3>1 DEF PixelsOf
  <2>6. BlendedColor(src, c, p, alpha) = [r |-> Mix(c.r, d[0], a), g |-> Mix(c.r, d[0], a),
                                          b |-> Mix(c.r, d[0], a), a |-> 255]
    BY <1>4, <2>1 DEF BlendedColor, Reduced, Shown
  <2>7. Shown(format, mixed) = [r |-> mixed[0], g |-> mixed[0], b |-> mixed[0], a |-> 255]
    <3> HIDE DEF mixed
    <3> QED BY <2>1 DEF Shown
  <2> HIDE DEF mixed
  <2> QED BY <1>1, <2>3, <2>5, <2>6, <2>7
<1>5. CASE format \notin Formats1
  <2>1. bpp # 1 /\ R # G /\ R # B /\ G # B
    BY <1>5, Channels DEF bpp
  <2>2. from[R] = c.r /\ from[G] = c.g /\ from[B] = c.b
    BY <1>2, <1>3, <2>1
  <2> HIDE DEF from
  <2>3. /\ DOMAIN mixed = 0..last
        /\ mixed[R] = Mix(c.r, d[R], a) /\ mixed[G] = Mix(c.g, d[G], a)
        /\ mixed[B] = Mix(c.b, d[B], a)
        /\ \A k \in 0..last : k \notin {R, G, B} =>
               mixed[k] = IF HasAlpha THEN a + (d[k] * (255 - a)) \div 255 ELSE d[k]
    <3> HIDE DEF R, G, B, last, c
    <3> QED BY <1>2, <2>2
  <2>4. /\ Mix(c.r, d[R], a) \in Byte /\ Mix(c.g, d[G], a) \in Byte /\ Mix(c.b, d[B], a) \in Byte
        /\ \A k \in 0..last : a + (d[k] * (255 - a)) \div 255 \in Byte
    <3> HIDE DEF R, G, B, last, c
    <3>1. d[R] \in Byte /\ d[G] \in Byte /\ d[B] \in Byte
      BY <1>2
    <3>2. ASSUME NEW k \in 0..last
          PROVE  a + (d[k] * (255 - a)) \div 255 \in Byte
      <4>1. d[k] \in Byte
        BY <1>2
      <4> QED BY <4>1, CoverBytes, ZenonT(30)
    <3>3. Mix(c.r, d[R], a) \in Byte /\ Mix(c.g, d[G], a) \in Byte /\ Mix(c.b, d[B], a) \in Byte
      BY <1>3, <3>1, MixBytes, Zenon
    <3> QED BY <3>2, <3>3, Zenon
  <2>5. mixed \in PixelsOf(format)
    <3>1. \A k \in 0..last : mixed[k] \in Byte
      <4> HIDE DEF mixed, R, G, B, last, c
      <4> QED BY <1>2, <2>3, <2>4
    <3>2. mixed = [k \in 0..last |-> mixed[k]]
      BY <1>2
    <3> HIDE DEF mixed
    <3> QED BY <3>1, <3>2 DEF PixelsOf
  <2>6. HasAlpha => /\ AlphaIndex(format) \in 0..last
                    /\ AlphaIndex(format) \notin {R, G, B}
                    /\ mixed[AlphaIndex(format)]
                         = a + (d[AlphaIndex(format)] * (255 - a)) \div 255
    <3>1. HasAlpha => AlphaIndex(format) \in 0..last /\ AlphaIndex(format) \notin {R, G, B}
      BY Channels DEF HasAlpha
    <3> HIDE DEF mixed, R, G, B, last
    <3> QED BY <2>3, <3>1
  <2>7. BlendedColor(src, c, p, alpha) =
          [r |-> Mix(c.r, d[R], a), g |-> Mix(c.g, d[G], a), b |-> Mix(c.b, d[B], a),
           a |-> IF HasAlpha THEN a + (d[AlphaIndex(format)] * (255 - a)) \div 255 ELSE 255]
    <3>1. /\ canvas[p].r = d[R] /\ canvas[p].g = d[G] /\ canvas[p].b = d[B]
          /\ HasAlpha => canvas[p].a = d[AlphaIndex(format)]
      BY DEF Shown, HasAlpha
    <3> DEFINE e == canvas[p]
              blend(x) ==
                  Reduced(format,
                      [r |-> Mix(c.r, e.r, x), g |-> Mix(c.g, e.g, x), b |-> Mix(c.b, e.b, x),
                       a |-> IF x = 0 THEN e.a ELSE x + (e.a * (255 - x)) \div 255])
    <3>2. BlendedColor(src, c, p, alpha) = blend((c.a * alpha) \div 255)
      BY Zenon DEF BlendedColor
    <3>3. BlendedColor(src, c, p, alpha) = blend(a)
      <4> HIDE DEF blend, c
      <4> QED BY <1>3, <3>2, Zenon
    <3>4. blend(a) = [r |-> Mix(c.r, e.r, a), g |-> Mix(c.g, e.g, a), b |-> Mix(c.b, e.b, a),
                      a |-> IF HasAlpha THEN a + (e.a * (255 - a)) \div 255 ELSE 255]
      <4> HIDE DEF c, e
      <4> QED BY <1>5 DEF Reduced, HasAlpha
    <3>5. (IF HasAlpha THEN a + (e.a * (255 - a)) \div 255 ELSE 255)
            = IF HasAlpha THEN a + (d[AlphaIndex(format)] * (255 - a)) \div 255 ELSE 255
      BY <3>1, Zenon
    <3> HIDE DEF blend, c, R, G, B, e
    <3>6. e.r = d[R] /\ e.g = d[G] /\ e.b = d[B]
      BY <3>1, Zenon DEF e
    <3>7. blend(a) = [r |-> Mix(c.r, d[R], a), g |-> Mix(c.g, d[G], a), b |-> Mix(c.b, d[B], a),
                      a |-> IF HasAlpha THEN a + (d[AlphaIndex(format)] * (255 - a)) \div 255
                            ELSE 255]
      BY <3>4, <3>5, <3>6
    <3> QED BY <3>3, <3>7, Zenon
  <2>8. Shown(format, mixed) =
          [r |-> mixed[R], g |-> mixed[G], b |-> mixed[B],
           a |-> IF HasAlpha THEN mixed[AlphaIndex(format)] ELSE 255]
    <3> HIDE DEF mixed
    <3> QED BY DEF Shown, HasAlpha
  <2> HIDE DEF mixed, R, G, B, last
  <2> QED BY <1>1, <2>3, <2>5, <2>6, <2>7, <2>8
<1> QED BY <1>4, <1>5

(* Every pixel that blit() blends, if the source has no unused byte that   *)
(* is taken for its opacity.                                               *)
OpaquePixel(src, s, alpha) ==
    src.format \in Formats4 \ AlphaFormats /\ alpha \notin {0, 255} => s[AlphaIndex(src.format)] = 255

LEMMA BlendShows ==
    ASSUME format \in Formats, NEW src, src.format \in Formats,
           NEW s \in PixelsOf(src.format), NEW d \in PixelsOf(format),
           NEW p, canvas[p] = Shown(format, d), NEW alpha \in Byte, alpha # 0,
           ~(src.format \notin AlphaFormats /\ alpha = 255), ~(AlphaOnly(src) /\ bpp # 4),
           OpaquePixel(src, s, alpha)
    PROVE  /\ BlendedPixel(src, s, d, alpha) \in PixelsOf(format)
           /\ Shown(format, BlendedPixel(src, s, d, alpha))
                = BlendedColor(src, Shown(src.format, s), p, alpha)
<1> DEFINE f == src.format
          c == Shown(f, s)
          a == IF f \in Formats4 THEN (s[AlphaIndex(f)] * alpha) \div 255 ELSE alpha
<1>1. c \in [r : Byte, g : Byte, b : Byte, a : Byte]
      /\ canvas[p] \in [r : Byte, g : Byte, b : Byte, a : Byte]
      /\ Reduced(format, canvas[p]) = canvas[p]
  BY ShownBytes
<1>2. CASE f = "ALPHA" /\ bpp = 4
  <2>1. AlphaOnly(src) /\ c.r = s[0] /\ format \in Formats4
    <3>1. format \in Formats4
      BY <1>2 DEF bpp, getFormatBpp
    <3> QED BY <1>2, <3>1 DEF AlphaOnly, Shown, RedIndex, Formats4, LeftRGB, RightRGB
  <2>2. CASE HasAlpha
    <3> DEFINE mixed == Mix(s[0], d[AlphaIndex(format)], alpha)
    <3>1. BlendedPixel(src, s, d, alpha) = [d EXCEPT ![AlphaIndex(format)] = mixed]
      BY <1>2, <2>2 DEF BlendedPixel
    <3>2. format \in AlphaFormats /\ canvas[p].a = d[AlphaIndex(format)] /\ canvas[p].a \in Byte
      BY <1>1, <2>2 DEF HasAlpha, Shown
    <3>3. mixed \in Byte
      BY <1>1, <2>1, <3>2, MixBytes
    <3>4. BlendedColor(src, c, p, alpha) = [canvas[p] EXCEPT !.a = mixed]
      <4>1. BlendedColor(src, c, p, alpha) = [canvas[p] EXCEPT !.a = Mix(c.r, @, alpha)]
        BY <2>1, <2>2 DEF BlendedColor
      <4> HIDE DEF c
      <4> QED BY <1>1, <2>1, <3>2, <4>1
    <3>5. LET put == [d EXCEPT ![AlphaIndex(format)] = mixed] IN
          put \in PixelsOf(format) /\ Shown(format, put) = WithAlpha(Shown(format, d), mixed)
      <4> HIDE DEF mixed
      <4> QED BY <3>2, <3>3, AlphaPut DEF WithAlpha
    <3>6. BlendedColor(src, c, p, alpha) = WithAlpha(Shown(format, d), mixed)
      <4>1. [canvas[p] EXCEPT !.a = mixed] = WithAlpha(canvas[p], mixed)
        BY DEF WithAlpha
      <4> HIDE DEF mixed, c
      <4> QED BY <3>4, <4>1, Zenon
    <3> HIDE DEF mixed
    <3> QED BY <3>1, <3>5, <3>6, Zenon
  <2>3. CASE ~HasAlpha
    <3>1. BlendedPixel(src, s, d, alpha) = d
      BY <1>2, <2>3 DEF BlendedPixel
    <3>2. BlendedColor(src, c, p, alpha) = canvas[p]
      BY <2>1, <2>3 DEF BlendedColor
    <3> QED BY <3>1, <3>2
  <2> QED BY <2>2, <2>3
<1>3. CASE ~(f = "ALPHA" /\ bpp = 4)
  <2>1. ~AlphaOnly(src)
    BY <1>3 DEF AlphaOnly
  <2>2. a \in Byte /\ (c.a * alpha) \div 255 = a
    <3>1. CASE f \in AlphaFormats
      <4>1. f \in Formats4 /\ c.a = s[AlphaIndex(f)]
        BY <3>1, Channels DEF Shown
      <4>2. c.a \in Byte
        BY <1>1
      <4> HIDE DEF c
      <4> QED BY <4>1, <4>2, MixBytes
    <3>2. CASE f \notin AlphaFormats
      <4>1. c.a = 255 /\ (255 * alpha) \div 255 = alpha
        BY <3>2, MixEnds DEF Shown
      <4>2. f \in Formats4 => s[AlphaIndex(f)] = 255
        BY <3>2 DEF OpaquePixel
      <4> HIDE DEF c
      <4> QED BY <4>1, <4>2
    <3> QED BY <3>1, <3>2
  <2>3. CASE a = 0
    <3>1. BlendedPixel(src, s, d, alpha) = d
      BY <1>3, <2>3, Zenon DEF BlendedPixel
    <3>2. BlendedColor(src, c, p, alpha) = canvas[p]
      <4>1. (c.a * alpha) \div 255 = 0
        BY <2>2, <2>3, Zenon
      <4> HIDE DEF c
      <4> QED BY <1>1, <2>1, <4>1, ClearBlend
    <3> QED BY <3>1, <3>2
  <2>4. CASE a # 0
    <3> HIDE DEF a
    <3>1. a = IF f \in Formats4 THEN (s[AlphaIndex(f)] * alpha) \div 255 ELSE alpha
      BY DEF a
    <3> QED BY <2>1, <2>2, <2>4, <3>1, MixedShows
  <2> QED BY <2>3, <2>4
<1> QED BY <1>2, <1>3

(* blit() paints the mixed colors asked for and stores no other pixel.     *)
LEMMA BlittedShows ==
    ASSUME Painting, met = {}, NEW src, SourceTyped(src), NEW fields, NEW R \in [fields -> Int],
           CopyNames \subseteq fields, NEW alpha \in Byte,
           \A n \in DOMAIN src.px : OpaquePixel(src, src.px[n], alpha),
           NEW p \in Positions
    PROVE  /\ Destined(src, R, p) =>
                Colored(BlittedPixels(src, R, alpha), p,
                        BlendedColor(src, ColorFor(src, R, p), p, alpha))
           /\ ~Destined(src, R, p) => Number(p[1], p[2]) \notin DOMAIN BlittedPixels(src, R, alpha)
<1> DEFINE X == CopyAxis(R.sx, R.sw, src.w, R.dx, Width)
          Y == CopyAxis(R.sy, R.sh, src.h, R.dy, Height)
          n == Number(p[1], p[2])
          from == Placed(src, X, Y, FALSE)
          in == p \in Region(R.dx, R.dy, R.sw, R.sh)
          at == SourceX(R, p) + SourceY(R, p) * src.w
          c == ColorFor(src, R, p)
          W == [R EXCEPT !.sx = X.s, !.sy = Y.s, !.sw = X.n, !.sh = Y.n,
                         !.dx = X.d, !.dy = Y.d]
<1>1. /\ format \in Formats /\ PixelOf(data, n) \in PixelsOf(format)
      /\ canvas[p] = Shown(format, PixelOf(data, n))
      /\ canvas[p] \in [r : Byte, g : Byte, b : Byte, a : Byte]
      /\ Reduced(format, canvas[p]) = canvas[p]
  BY ImagesAssumption, ShownBytes DEF Painting, PixelsAsked, PixelAt
<1>2. \A name \in CopyNames : R[name] \in Int
  OBVIOUS
<1>3. /\ X.ok /\ Y.ok =>
           /\ Legal(src, R)
           /\ n \in DOMAIN from <=> in
           /\ in => /\ from[n] = at
                    /\ from[n] \in DOMAIN src.px
                    /\ SourceX(R, p) \in 0..src.w - 1 /\ SourceY(R, p) \in 0..src.h - 1
      /\ ~(X.ok /\ Y.ok) => ~(Legal(src, R) /\ in)
  BY <1>2, CopyPlaces, Zenon
<1>4. c = Shown(src.format, src.px[at])
  BY DEF ColorFor, ColorAt, SourceX, SourceY
<1>5. Destined(src, R, p) <=> Legal(src, R) /\ in
  BY DEF Destined
<1>6. Destined(src, R, p) => at \in DOMAIN src.px /\ src.px[at] \in PixelsOf(src.format)
                             /\ c \in [r : Byte, g : Byte, b : Byte, a : Byte]
  <2> HIDE DEF X, Y, n, from, in, at
  <2>1. Destined(src, R, p) => at \in DOMAIN src.px
    BY <1>3, <1>5, Zenon
  <2> QED BY <1>4, <2>1, ShownBytes DEF SourceTyped
<1>7. CASE ~(X.ok /\ Y.ok)
  <2>1. BlittedPixels(src, R, alpha) = Nothing
    BY <1>7, Zenon DEF BlittedPixels
  <2>2. DOMAIN Nothing = {}
    BY DEF Nothing
  <2>3. ~Destined(src, R, p)
    BY <1>3, <1>5, <1>7, Zenon
  <2> QED BY <2>1, <2>2, <2>3, Zenon
<1>8. CASE X.ok /\ Y.ok /\ src.format \notin AlphaFormats /\ alpha = 255
  <2>1. BlittedPixels(src, R, alpha) = WrittenPixels(src, W)
    BY <1>8, Zenon DEF BlittedPixels
  <2>2. /\ X.s \in Int /\ X.n \in Int /\ X.d \in Int /\ Y.s \in Int /\ Y.n \in Int /\ Y.d \in Int
        /\ CheckAxis(X.s, X.n, src.w) /\ CheckAxis(Y.s, Y.n, src.h)
        /\ p[1] \in X.d..X.d + X.n - 1 /\ p[2] \in Y.d..Y.d + Y.n - 1 <=> in
        /\ X.s + p[1] - X.d = SourceX(R, p) /\ Y.s + p[2] - Y.d = SourceY(R, p)
    <3>1. /\ R.sx \in Int /\ R.sy \in Int /\ R.sw \in Int /\ R.sh \in Int
          /\ R.dx \in Int /\ R.dy \in Int
          /\ src.w \in Nat /\ src.h \in Nat /\ Width \in Nat /\ Height \in Nat
      BY <1>2, Sizes DEF CopyNames, SourceTyped
    <3>2. p[1] \in 0..Width - 1 /\ p[2] \in 0..Height - 1
      BY PositionNumber
    <3>3. CopiedAxis(X, R.sx, R.sw, src.w, R.dx, Width, p[1])
          /\ CopiedAxis(Y, R.sy, R.sh, src.h, R.dy, Height, p[2])
      BY <3>1, <3>2, CopyAxisAt, Zenon
    <3>5. X.d \in Int /\ Y.d \in Int
      BY <3>1 DEF CopyAxis, Most
    <3>6. in <=> p[1] \in R.dx..R.dx + R.sw - 1 /\ p[2] \in R.dy..R.dy + R.sh - 1
      BY DEF Region
    <3> HIDE DEF X, Y, in
    <3> QED BY <1>8, <3>3, <3>5, <3>6, Zenon DEF CopiedAxis, SourceX, SourceY
  <2> HIDE DEF X, Y, n, from, in
  <2>3. /\ W.sx = X.s /\ W.sy = Y.s /\ W.sw = X.n /\ W.sh = Y.n /\ W.dx = X.d /\ W.dy = Y.d
        /\ \A name \in CopyNames : W[name] \in Int
    BY <2>2 DEF CopyNames
  <2> HIDE DEF W
  <2>4. Destined(src, W, p) <=> in
    BY <2>2, <2>3 DEF Destined, Legal, Region
  <2>5. ColorFor(src, W, p) = c
    BY <2>2, <2>3, Zenon DEF ColorFor, SourceX, SourceY
  <2>6. Destined(src, R, p) <=> in
    BY <1>3, <1>5, <1>8, Zenon
  <2>7. Destined(src, R, p) => BlendedColor(src, c, p, 255) = AskedColor(src, c, p, 255)
    <3>1. c.a = 255
      BY <1>4, <1>8 DEF Shown
    <3> HIDE DEF c
    <3> QED BY <1>1, <1>6, <1>8, <3>1, OpaqueBlend
  <2>8. /\ Destined(src, W, p) =>
             Colored(WrittenPixels(src, W), p, AskedColor(src, ColorFor(src, W, p), p, 255))
        /\ ~Destined(src, W, p) => Number(p[1], p[2]) \notin DOMAIN WrittenPixels(src, W)
    BY <2>3, WrittenShows, Zenon
  <2> HIDE DEF c
  <2> QED BY <1>8, <2>1, <2>4, <2>5, <2>6, <2>7, <2>8, Zenon DEF c
<1>9. CASE /\ X.ok /\ Y.ok /\ ~(src.format \notin AlphaFormats /\ alpha = 255)
           /\ alpha = 0 \/ (AlphaOnly(src) /\ bpp # 4)
  <2>1. BlittedPixels(src, R, alpha) = Nothing
    BY <1>9, Zenon DEF BlittedPixels
  <2>2. DOMAIN Nothing = {}
    BY DEF Nothing
  <2>3. Destined(src, R, p) => BlendedColor(src, c, p, alpha) = canvas[p]
    <3>1. CASE alpha = 0
      <4>1. Destined(src, R, p) => (c.a * alpha) \div 255 = 0
        <5> HIDE DEF c
        <5> QED BY <1>6, <3>1, MixEnds
      <4> HIDE DEF c
      <4> QED BY <1>1, <1>6, <3>1, <4>1, ClearBlend
    <3>2. CASE AlphaOnly(src) /\ bpp # 4
      <4>1. ~HasAlpha
        BY <1>1, <3>2, Channels DEF HasAlpha, bpp
      <4> QED BY <3>2, <4>1 DEF BlendedColor
    <3> QED BY <1>9, <3>1, <3>2
  <2> HIDE DEF c
  <2> QED BY <2>1, <2>2, <2>3, Zenon DEF Colored, c
<1>10. CASE /\ X.ok /\ Y.ok /\ ~(src.format \notin AlphaFormats /\ alpha = 255)
            /\ ~(alpha = 0 \/ (AlphaOnly(src) /\ bpp # 4))
  <2> DEFINE pixels == [m \in DOMAIN from |->
                           BlendedPixel(src, src.px[from[m]], PixelOf(data, m), alpha)]
  <2>1. BlittedPixels(src, R, alpha) = pixels
    BY <1>10, Zenon DEF BlittedPixels
  <2>2. /\ DOMAIN pixels = DOMAIN from
        /\ n \in DOMAIN from =>
             pixels[n] = BlendedPixel(src, src.px[from[n]], PixelOf(data, n), alpha)
    OBVIOUS
  <2> HIDE DEF X, Y, n, from, in, pixels, at
  <2>3. /\ n \in DOMAIN pixels <=> Destined(src, R, p)
        /\ Destined(src, R, p) => from[n] = at
    BY <1>3, <1>5, <1>10, <2>2, Zenon
  <2>4. ASSUME Destined(src, R, p)
        PROVE  /\ pixels[n] \in PixelsOf(format)
               /\ Shown(format, pixels[n]) = BlendedColor(src, c, p, alpha)
    <3> DEFINE s == src.px[at]
    <3>1. pixels[n] = BlendedPixel(src, s, PixelOf(data, n), alpha)
      BY <2>2, <2>3, <2>4, Zenon
    <3>2. s \in PixelsOf(src.format) /\ OpaquePixel(src, s, alpha) /\ src.format \in Formats
      BY <1>6, <2>4 DEF SourceTyped
    <3>3. /\ BlendedPixel(src, s, PixelOf(data, n), alpha) \in PixelsOf(format)
          /\ Shown(format, BlendedPixel(src, s, PixelOf(data, n), alpha))
               = BlendedColor(src, Shown(src.format, s), p, alpha)
      <4> HIDE DEF s
      <4> DEFINE d == PixelOf(data, n)
      <4>1. /\ d \in PixelsOf(format) /\ canvas[p] = Shown(format, d) /\ alpha # 0
            /\ ~(src.format \notin AlphaFormats /\ alpha = 255) /\ ~(AlphaOnly(src) /\ bpp # 4)
        BY <1>1, <1>10, Zenon
      <4> HIDE DEF d
      <4> QED BY <1>1, <3>2, <4>1, BlendShows DEF d
    <3> QED BY <1>4, <3>1, <3>3, Zenon
  <2> HIDE DEF c
  <2> QED BY <2>1, <2>3, <2>4, Zenon DEF Colored, n, c
<1> QED BY <1>7, <1>8, <1>9, <1>10, Zenon

LEMMA NotUnused ==
    ASSUME NEW src, NEW alpha, ~UnusedByte(src, alpha)
    PROVE  \A n \in DOMAIN src.px : OpaquePixel(src, src.px[n], alpha)
  BY DEF UnusedByte, OpaquePixel

LEMMA BlitPaints ==
    ASSUME Painting, NEW src, SourceTyped(src), NEW R \in Copies, NEW alpha \in Byte,
           Blit(src, R, alpha)
    PROVE  Painting'
<1> DEFINE pixels == BlittedPixels(src, R, alpha)
          asked == Copied(src, R, alpha, BlendedColor)
          defects == IF UnusedByte(src, alpha) THEN {"padding"} ELSE {}
<1>1. Call(pixels, asked, defects)
  BY Zenon DEF Blit
<1>2. ASSUME NEW p \in Positions
      PROVE  /\ p \in DOMAIN asked <=> Destined(src, R, p)
             /\ p \in DOMAIN asked => asked[p] = BlendedColor(src, ColorFor(src, R, p), p, alpha)
  <2>1. CASE Legal(src, R)
    <3>1. asked = [q \in Region(R.dx, R.dy, R.sw, R.sh) |->
                      BlendedColor(src, ColorAt(src, R.sx + q[1] - R.dx, R.sy + q[2] - R.dy), q, alpha)]
      BY <2>1, Zenon DEF Copied
    <3> HIDE DEF asked
    <3> QED BY <2>1, <3>1 DEF Destined, ColorFor
  <2>2. CASE ~Legal(src, R)
    <3>1. asked = Nothing
      BY <2>2, Zenon DEF Copied
    <3>2. DOMAIN Nothing = {}
      BY DEF Nothing
    <3> QED BY <2>2, <3>1, <3>2 DEF Destined
  <2> QED BY <2>1, <2>2
<1> HIDE DEF pixels, asked
<1>3. ASSUME met = {}, defects = {}, NEW p \in Positions
      PROVE  Colored(pixels, p, IF p \in DOMAIN asked THEN asked[p] ELSE canvas[p])
  <2> DEFINE fields == CopyNames
  <2>1. R \in [fields -> Int] /\ CopyNames \subseteq fields
    BY CopyFields DEF CopyNames
  <2>2. \A n \in DOMAIN src.px : OpaquePixel(src, src.px[n], alpha)
    BY <1>3, NotUnused
  <2> HIDE DEF fields
  <2>3. /\ Destined(src, R, p) =>
             Colored(pixels, p, BlendedColor(src, ColorFor(src, R, p), p, alpha))
        /\ ~Destined(src, R, p) => Number(p[1], p[2]) \notin DOMAIN pixels
    BY <1>3, <2>1, <2>2, BlittedShows, Zenon DEF pixels
  <2>4. CASE p \in DOMAIN asked
    BY <1>2, <2>3, <2>4, Zenon
  <2>5. CASE p \notin DOMAIN asked
    BY <1>2, <2>3, <2>5, Zenon DEF Colored
  <2> QED BY <2>4, <2>5
<1> HIDE DEF defects
<1> QED BY <1>1, <1>3, CallPaints

-----------------------------------------------------------------------------
(* The arithmetic of scaling: equal fractions have equal whole parts, the  *)
(* remainders are in the same proportion, and what is interpolated with    *)
(* them is the same.                                                       *)
LEMMA QuotientBelow ==
    ASSUME NEW a \in Int, NEW c \in Nat \ {0}, NEW b \in Int, NEW d \in Nat \ {0}, a * d = b * c
    PROVE  a \div c <= b \div d
<1> DEFINE q == a \div c
          r == b \div d
<1>1. q \in Int /\ q * c <= a
  BY Quotient
<1>2. r \in Int /\ b < r * d + d
  BY Quotient
<1> HIDE DEF q, r
<1>3. (q * d) * c <= b * c
  BY <1>1, Z3
<1>4. q * d <= b
  BY <1>1, <1>3, Cancel
<1>5. q * d < (r + 1) * d
  BY <1>1, <1>2, <1>4, Z3
<1>6. q < r + 1
  BY <1>1, <1>2, <1>5, Cancel
<1> QED BY <1>1, <1>2, <1>6 DEF q, r

SameFraction(a, c, b, d) == a * d = b * c
SameWhole(a, c, b, d) == a \div c = b \div d

LEMMA SameQuotient ==
    ASSUME NEW a \in Int, NEW c \in Nat \ {0}, NEW b \in Int, NEW d \in Nat \ {0},
           SameFraction(a, c, b, d)
    PROVE  SameWhole(a, c, b, d)
<1>1. a * d = b * c
  BY DEF SameFraction
<1>2. a \div c <= b \div d /\ b \div d <= a \div c
  BY <1>1, QuotientBelow
<1>3. a \div c \in Int /\ b \div d \in Int
  BY Quotient
<1> QED BY <1>2, <1>3 DEF SameWhole

LEMMA SameRemainder ==
    ASSUME NEW a \in Int, NEW c \in Nat \ {0}, NEW b \in Int, NEW d \in Nat \ {0},
           SameFraction(a, c, b, d)
    PROVE  (a % c) * d = (b % d) * c
<1> DEFINE q == a \div c
          e == a % c
          g == b % d
<1>1. a \div c = b \div d
  BY SameQuotient DEF SameWhole
<1>2. a = (a \div c) * c + (a % c) /\ a % c \in 0..c - 1
  BY Remainder
<1>3. b = (b \div d) * d + (b % d) /\ b % d \in 0..d - 1
  BY Remainder
<1>4. a = q * c + e /\ b = q * d + g /\ e \in Int /\ g \in Int /\ q \in Int
  <2>1. a = q * c + e /\ b = q * d + g
    BY <1>1, <1>2, <1>3, Zenon
  <2>2. e \in Int /\ g \in Int
    <3> HIDE DEF e, g
    <3> QED BY <1>2, <1>3 DEF e, g
  <2>3. q \in Int
    BY Quotient
  <2> QED BY <2>1, <2>2, <2>3
<1> HIDE DEF q, e, g
<1>5. a * d = b * c
  BY DEF SameFraction
<1>6. e * d = g * c
  BY <1>4, <1>5, Z3
<1> QED BY <1>6 DEF e, g

LEMMA LinearSame ==
    ASSUME NEW A \in Int, NEW B \in Int, NEW k \in Int, NEW m \in Int, NEW l \in Int, NEW o \in Int,
           k * o = l * m
    PROVE  (A * (m - k) + B * k) * o = (A * (o - l) + B * l) * m
<1>1. (A * (m - k) + B * k) * o = A * (m * o - k * o) + B * (k * o)
  BY Z3
<1>2. (A * (o - l) + B * l) * m = A * (m * o - l * m) + B * (l * m)
  BY Z3
<1> QED BY <1>1, <1>2

LEMMA LinearBytes ==
    ASSUME NEW A \in Int, NEW B \in Int, NEW top \in Int, A \in 0..top, B \in 0..top,
           NEW m \in Nat \ {0}, NEW k \in 0..m - 1
    PROVE  A * (m - k) + B * k \in 0..top * m
<1>1. A * (m - k) >= 0 /\ B * k >= 0
  BY Z3
<1>2. A * (m - k) <= top * (m - k) /\ B * k <= top * k
  BY Z3
<1>3. top * (m - k) + top * k = top * m
  BY Z3
<1>4. A * (m - k) \in Int /\ B * k \in Int /\ top * (m - k) \in Int /\ top * k \in Int
      /\ top * m \in Int
  BY Z3
<1> QED BY <1>1, <1>2, <1>3, <1>4

Bilinear(A, B, C, D, k, m, l, o) == (A * (o - l) + B * l) * (m - k) + (C * (o - l) + D * l) * k

LEMMA BilinearByte ==
    ASSUME NEW A \in Byte, NEW B \in Byte, NEW C \in Byte, NEW D \in Byte,
           NEW m \in Nat \ {0}, NEW k \in 0..m - 1, NEW o \in Nat \ {0}, NEW l \in 0..o - 1
    PROVE  /\ Bilinear(A, B, C, D, k, m, l, o) \in Int
           /\ Bilinear(A, B, C, D, k, m, l, o) \div (m * o) \in Byte
<1> DEFINE low == A * (o - l) + B * l
          high == C * (o - l) + D * l
          top == 255 * o
          N == low * (m - k) + high * k
<1>1. low \in 0..top /\ high \in 0..top
  <2>1. A \in 0..255 /\ B \in 0..255 /\ C \in 0..255 /\ D \in 0..255
    BY DEF Byte
  <2>2. A \in Int /\ B \in Int /\ C \in Int /\ D \in Int /\ 255 \in Int
    BY <2>1
  <2>3. A * (o - l) + B * l \in 0..255 * o
    BY <2>1, <2>2, LinearBytes, ZenonT(30)
  <2>4. C * (o - l) + D * l \in 0..255 * o
    BY <2>1, <2>2, LinearBytes, ZenonT(30)
  <2> QED BY <2>3, <2>4, Zenon
<1>2. top \in Int /\ low \in Int /\ high \in Int
  BY <1>1
<1> HIDE DEF low, high, top
<1>3. N \in 0..top * m
  BY <1>1, <1>2, LinearBytes
<1>4. top * m = 255 * (m * o) /\ m * o \in Nat \ {0} /\ top * m \in Int
  BY Z3 DEF top
<1> HIDE DEF N
<1>5. N \in Int /\ N >= 0 /\ N <= 255 * (m * o)
  BY <1>3, <1>4
<1> DEFINE e == m * o
<1> HIDE DEF e
<1>6. N \div e \in Int /\ (N \div e) * e <= N /\ N < (N \div e) * e + e
  BY <1>4, <1>5, Quotient DEF e
<1> DEFINE r == N \div e
<1> HIDE DEF r
<1>7. r * e <= 255 * e /\ 0 * e < (r + 1) * e
  BY <1>4, <1>5, <1>6, Z3 DEF r, e
<1>8. r <= 255 /\ 0 < r + 1
  BY <1>4, <1>6, <1>7, Cancel DEF r, e
<1>9. r \in Byte
  <2>1. r \in Int
    BY <1>6 DEF r
  <2> QED BY <1>8, <2>1 DEF Byte
<1> QED BY <1>5, <1>9, Zenon DEF N, low, high, Bilinear, r, e

LEMMA BilinearSame ==
    ASSUME NEW A \in Byte, NEW B \in Byte, NEW C \in Byte, NEW D \in Byte,
           NEW m \in Nat \ {0}, NEW k \in 0..m - 1, NEW o \in Nat \ {0}, NEW l \in 0..o - 1,
           NEW mm \in Nat \ {0}, NEW kk \in 0..mm - 1, NEW oo \in Nat \ {0}, NEW ll \in 0..oo - 1,
           SameFraction(k, m, kk, mm), SameFraction(l, o, ll, oo)
    PROVE  SameWhole(Bilinear(A, B, C, D, k, m, l, o), m * o,
                     Bilinear(A, B, C, D, kk, mm, ll, oo), mm * oo)
<1> DEFINE low == A * (o - l) + B * l
          high == C * (o - l) + D * l
          lower == A * (oo - ll) + B * ll
          higher == C * (oo - ll) + D * ll
          N == low * (m - k) + high * k
          M == lower * (mm - kk) + higher * kk
<1>0. A \in Int /\ B \in Int /\ C \in Int /\ D \in Int
  BY DEF Byte
<1>1. low * oo = lower * o /\ high * oo = higher * o
  <2>1. k * mm = kk * m /\ l * oo = ll * o
    BY DEF SameFraction
  <2> QED BY <1>0, <2>1, LinearSame
<1>2. low \in Int /\ high \in Int /\ lower \in Int /\ higher \in Int
  BY <1>0, Z3
<1> HIDE DEF low, high, lower, higher
<1> DEFINE H == lower * (m - k) + higher * k
<1>3. N * oo = H * o
  BY <1>1, <1>2, Z3
<1>4. H * mm = M * m
  <2>1. k * mm = kk * m
    BY DEF SameFraction
  <2> QED BY <1>2, <2>1, LinearSame
<1>5. N \in Int /\ M \in Int /\ H \in Int
  BY <1>2, Z3
<1> HIDE DEF N, M, H
<1>6. N * (mm * oo) = M * (m * o)
  BY <1>3, <1>4, <1>5, Z3
<1>7. m * o \in Nat \ {0} /\ mm * oo \in Nat \ {0}
  BY Z3
<1>8. N \div (m * o) = M \div (mm * oo)
  <2> DEFINE e == m * o
            g == mm * oo
  <2>1. N \in Int /\ M \in Int /\ e \in Nat \ {0} /\ g \in Nat \ {0}
        /\ SameFraction(N, e, M, g)
    BY <1>5, <1>6, <1>7 DEF SameFraction
  <2> HIDE DEF e, g
  <2>2. SameWhole(N, e, M, g)
    BY <2>1, SameQuotient
  <2> QED BY <2>2, Zenon DEF SameWhole, e, g
<1> QED BY <1>8, Zenon DEF N, M, low, high, lower, higher, Bilinear, SameWhole

(* Samples, in a source of length w, and two that are the same.            *)
SampleIn(x, w) ==
    /\ x.low \in 0..w - 1 /\ x.high \in 0..w - 1
    /\ x.of \in Nat \ {0} /\ x.part \in 0..x.of - 1

SampleAs(x, z) == x.low = z.low /\ x.high = z.high /\ x.part * z.of = z.part * x.of

LEMMA SampleInside ==
    ASSUME NEW s \in Nat, NEW n \in Nat \ {0}, NEW m \in Nat \ {0}, NEW i \in 0..m - 1,
           NEW w \in Nat, s + n <= w, NEW last \in {s + n - 1, w - 1}
    PROVE  SampleIn(Sample(s, n, m, i, last), w)
<1> DEFINE at == s * m + i * n
          low == at \div m
          part == at % m
<1>1. at \in Int /\ s * m <= at /\ at < (s + n) * m
  <2>1. i * n \in Int /\ s * m \in Int /\ 0 <= i * n /\ i * n < m * n
    BY Z3
  <2>2. (s + n) * m = s * m + m * n
    BY Z3
  <2>3. (s + n) * m \in Int /\ m * n \in Int
    BY Z3
  <2> QED BY <2>1, <2>2, <2>3
<1> HIDE DEF at
<1>2. low \in Int /\ low * m <= at /\ at < low * m + m
  BY <1>1, Quotient
<1>3. part \in 0..m - 1
  BY <1>1, Remainder
<1> HIDE DEF low, part
<1>4. low * m < (s + n) * m /\ s * m < (low + 1) * m
  BY <1>1, <1>2, Z3
<1>5. low < s + n /\ s < low + 1
  BY <1>2, <1>4, Cancel
<1>6. Sample(s, n, m, i, last) = [low |-> low, high |-> Least(low + 1, last), part |-> part, of |-> m]
  BY DEF Sample, low, part, at
<1>7. low \in 0..w - 1 /\ Least(low + 1, last) \in 0..w - 1
  BY <1>2, <1>5 DEF Least
<1> QED BY <1>3, <1>6, <1>7 DEF SampleIn

(* The same place of a source: s + i * n / m and t + j * o / l.            *)
Place(s, n, m, i) == s \in Int /\ n \in Int /\ m \in Nat \ {0} /\ i \in Int
SamePlace(s, n, m, i, t, o, l, j) == SameFraction(s * m + i * n, m, t * l + j * o, l)

LEMMA SampleSame ==
    ASSUME NEW s, NEW n, NEW m, NEW i, NEW t, NEW o, NEW l, NEW j, NEW last, NEW w,
           Place(s, n, m, i), Place(t, o, l, j), SamePlace(s, n, m, i, t, o, l, j),
           SampleIn(Sample(s, n, m, i, last), w)
    PROVE  /\ SampleAs(Sample(s, n, m, i, last), Sample(t, o, l, j, last))
           /\ SampleIn(Sample(t, o, l, j, last), w)
<1> DEFINE a == s * m + i * n
          b == t * l + j * o
<1>0. /\ s \in Int /\ n \in Int /\ m \in Nat \ {0} /\ i \in Int
      /\ t \in Int /\ o \in Int /\ l \in Nat \ {0} /\ j \in Int
  BY DEF Place
<1>1. a \in Int /\ b \in Int
  BY <1>0, Z3
<1>2. /\ Sample(s, n, m, i, last) =
             [low |-> a \div m, high |-> Least(a \div m + 1, last), part |-> a % m, of |-> m]
      /\ Sample(t, o, l, j, last) =
             [low |-> b \div l, high |-> Least(b \div l + 1, last), part |-> b % l, of |-> l]
  BY Zenon DEF Sample
<1> HIDE DEF a, b
<1>3. SameFraction(a, m, b, l)
  BY Zenon DEF SamePlace, a, b
<1>4. a \div m = b \div l
  <2>1. /\ a \in Int /\ b \in Int /\ m \in Nat \ {0} /\ l \in Nat \ {0}
        /\ SameFraction(a, m, b, l)
    BY <1>0, <1>1, <1>3
  <2>2. SameWhole(a, m, b, l)
    BY <2>1, SameQuotient
  <2> QED BY <2>2, Zenon DEF SameWhole
<1>5. (a % m) * l = (b % l) * m
  BY <1>0, <1>1, <1>3, SameRemainder
<1>6. b % l \in 0..l - 1
  BY <1>0, <1>1, Remainder
<1> DEFINE low == a \div m
          high == Least(low + 1, last)
          part == a % m
          rest == b % l
<1>7. Sample(s, n, m, i, last) = [low |-> low, high |-> high, part |-> part, of |-> m]
  BY <1>2
<1>8. Sample(t, o, l, j, last) = [low |-> low, high |-> high, part |-> rest, of |-> l]
  BY <1>2, <1>4, Zenon
<1>9. part * l = rest * m /\ rest \in 0..l - 1
  BY <1>5, <1>6
<1> HIDE DEF low, high, part, rest
<1> QED BY <1>0, <1>7, <1>8, <1>9 DEF SampleAs, SampleIn

(* Interpolation with two such samples, of values that agree around them.  *)
LEMMA InterpolatedSame ==
    ASSUME NEW w, NEW h, NEW x, NEW y, NEW xx, NEW yy, NEW v, NEW u,
           SampleIn(x, w), SampleIn(y, h), SampleIn(xx, w), SampleIn(yy, h),
           SampleAs(x, xx), SampleAs(y, yy),
           \A q \in Around(x, y) : v[q] = u[q] /\ v[q] \in Byte
    PROVE  /\ Interpolated(x, y, v) = Interpolated(xx, yy, u)
           /\ Interpolated(x, y, v) \in Byte
<1> DEFINE A == v[<<x.low, y.low>>]
          B == v[<<x.low, y.high>>]
          C == v[<<x.high, y.low>>]
          D == v[<<x.high, y.high>>]
<1>1. /\ A \in Byte /\ B \in Byte /\ C \in Byte /\ D \in Byte
      /\ u[<<x.low, y.low>>] = A /\ u[<<x.low, y.high>>] = B
      /\ u[<<x.high, y.low>>] = C /\ u[<<x.high, y.high>>] = D
  BY DEF Around
<1>2. /\ x.low = xx.low /\ x.high = xx.high /\ y.low = yy.low /\ y.high = yy.high
      /\ x.part * xx.of = xx.part * x.of /\ y.part * yy.of = yy.part * y.of
  BY DEF SampleAs
<1>3. /\ x.of \in Nat \ {0} /\ x.part \in 0..x.of - 1
      /\ y.of \in Nat \ {0} /\ y.part \in 0..y.of - 1
      /\ xx.of \in Nat \ {0} /\ xx.part \in 0..xx.of - 1
      /\ yy.of \in Nat \ {0} /\ yy.part \in 0..yy.of - 1
  BY DEF SampleIn
<1>4. Interpolated(x, y, v) = Bilinear(A, B, C, D, x.part, x.of, y.part, y.of) \div (x.of * y.of)
  BY Zenon DEF Interpolated, Bilinear
<1>5. Interpolated(xx, yy, u)
        = Bilinear(A, B, C, D, xx.part, xx.of, yy.part, yy.of) \div (xx.of * yy.of)
  <2> HIDE DEF A, B, C, D
  <2>1. u[<<xx.low, yy.low>>] = A /\ u[<<xx.low, yy.high>>] = B /\ u[<<xx.high, yy.low>>] = C
        /\ u[<<xx.high, yy.high>>] = D
    BY <1>1, <1>2, Zenon
  <2> QED BY <2>1, Zenon DEF Interpolated, Bilinear
<1> HIDE DEF A, B, C, D
<1>6. Bilinear(A, B, C, D, x.part, x.of, y.part, y.of) \div (x.of * y.of) \in Byte
  BY <1>1, <1>3, BilinearByte, Zenon
<1>7. Bilinear(A, B, C, D, x.part, x.of, y.part, y.of) \div (x.of * y.of)
        = Bilinear(A, B, C, D, xx.part, xx.of, yy.part, yy.of) \div (xx.of * yy.of)
  <2> DEFINE m == x.of
            k == x.part
            o == y.of
            l == y.part
            mm == xx.of
            kk == xx.part
            oo == yy.of
            ll == yy.part
  <2>1. /\ m \in Nat \ {0} /\ k \in 0..m - 1 /\ o \in Nat \ {0} /\ l \in 0..o - 1
        /\ mm \in Nat \ {0} /\ kk \in 0..mm - 1 /\ oo \in Nat \ {0} /\ ll \in 0..oo - 1
        /\ SameFraction(k, m, kk, mm) /\ SameFraction(l, o, ll, oo)
        /\ A \in Byte /\ B \in Byte /\ C \in Byte /\ D \in Byte
    BY <1>1, <1>2, <1>3, Zenon DEF SameFraction
  <2> HIDE DEF m, k, o, l, mm, kk, oo, ll
  <2>2. SameWhole(Bilinear(A, B, C, D, k, m, l, o), m * o,
                  Bilinear(A, B, C, D, kk, mm, ll, oo), mm * oo)
    BY <2>1, BilinearSame
  <2> QED BY <2>2, Zenon DEF SameWhole, m, k, o, l, mm, kk, oo, ll
<1> QED BY <1>4, <1>5, <1>6, <1>7, Zenon

LEMMA InterpolatedConstant ==
    ASSUME NEW w, NEW h, NEW x, NEW y, NEW v, SampleIn(x, w), SampleIn(y, h),
           NEW b \in Byte, \A q \in Around(x, y) : v[q] = b
    PROVE  Interpolated(x, y, v) = b
<1> DEFINE m == x.of
          k == x.part
          o == y.of
          l == y.part
          e == m * o
<1>1. m \in Nat \ {0} /\ k \in Int /\ o \in Nat \ {0} /\ l \in Int
  BY DEF SampleIn
<1>2. v[<<x.low, y.low>>] = b /\ v[<<x.low, y.high>>] = b /\ v[<<x.high, y.low>>] = b /\ v[<<x.high, y.high>>] = b
  BY DEF Around
<1>3. Interpolated(x, y, v) =
        ((b * (o - l) + b * l) * (m - k) + (b * (o - l) + b * l) * k) \div e
  BY <1>2, Zenon DEF Interpolated
<1> HIDE DEF m, k, o, l
<1>4. b \in Int
  BY DEF Byte
<1>5. b * (o - l) + b * l = b * o /\ b * o \in Int
  BY <1>1, <1>4, Z3
<1>6. (b * o) * (m - k) + (b * o) * k = b * e /\ e \in Nat \ {0}
  BY <1>1, <1>4, <1>5, Z3
<1>7. (b * e) \div e = b
  <2> HIDE DEF e
  <2> QED BY <1>4, <1>6, Z3
<1> QED BY <1>3, <1>5, <1>6, <1>7, Zenon

-----------------------------------------------------------------------------
(* StretchAxis() at one position of the image: the corrected axis covers   *)
(* the positions asked for, and if no part of a source pixel is lost it is *)
(* in the same proportion to the source.                                   *)
Proportional(X, s, n, d, m) == X.n * m = n * X.m /\ (X.s - s) * m = (X.d - d) * n

StretchedAxis(X, s, n, from, d, m, into, i) ==
    /\ X.ok => /\ n > 0 /\ m > 0 /\ CheckAxis(s, n, from)
               /\ X.s \in Nat /\ X.n \in Nat \ {0} /\ X.s + X.n <= s + n
               /\ X.d \in Nat /\ X.m \in Nat \ {0} /\ X.d + X.m <= into
               /\ i \in X.d..X.d + X.m - 1 <=> i \in d..d + m - 1
    /\ ExactAxis(n, d, m, into) =>
           /\ X.ok => Proportional(X, s, n, d, m)
           /\ ~X.ok => ~(n > 0 /\ m > 0 /\ CheckAxis(s, n, from) /\ i \in d..d + m - 1)

LEMMA WholeNumber ==
    ASSUME NEW e \in Int, NEW m \in Nat \ {0}, NEW a, a = e * m
    PROVE  a \div m = e
<1>1. (0 + e * m) \div m = e
  BY Divided
<1>2. 0 + e * m = e * m
  BY Z3
<1> QED BY <1>1, <1>2, Zenon

LEMMA Divides ==
    ASSUME NEW a \in Int, NEW m \in Nat \ {0}, a % m = 0
    PROVE  a = (a \div m) * m /\ a \div m \in Int
<1> DEFINE e == a \div m
          f == a % m
<1>1. a = e * m + f /\ e \in Int /\ f = 0
  BY Remainder, Quotient
<1> HIDE DEF e, f
<1>2. e * m \in Int
  BY <1>1, Z3
<1>3. a = e * m
  BY <1>1, <1>2
<1> QED BY <1>1, <1>3 DEF e

LEMMA PositiveSource ==
    ASSUME NEW s \in Int, NEW n \in Int, NEW from \in Nat,
           NEW d \in Int, NEW m \in Int, NEW into \in Nat,
           StretchAxis(s, n, from, d, m, into).ok
    PROVE  n > 0 /\ m > 0 /\ CheckAxis(s, n, from)
<1> DEFINE before == IF d < 0 THEN -d ELSE 0
          rest == (n * (m - before)) \div m
          after == Most(m - before - into + Most(d, 0), 0)
          fits == (rest * m - after * n) \div m
          kept == IF after > 0 THEN fits ELSE rest
<1>1. m > 0 /\ CheckAxis(s, n, from) /\ m - before - after > 0 /\ kept > 0
  <2>1. m > 0
    BY DEF StretchAxis
  <2>2. Most(m, 1) = m
    BY <2>1 DEF Most
  <2> QED BY <2>1, <2>2 DEF StretchAxis
<1>2. before \in Nat /\ after \in Nat /\ m \in Nat \ {0}
  BY <1>1 DEF Most
<1> HIDE DEF before, after
<1> DEFINE left == m - before - after
<1>3. n * (m - before) \in Int /\ after * n \in Int /\ left \in Nat \ {0} /\ n * left \in Int
      /\ n * left = n * (m - before) - after * n
  BY <1>1, <1>2, Z3
<1>4. rest \in Int /\ rest * m <= n * (m - before)
  BY <1>2, <1>3, Quotient
<1> HIDE DEF rest, left
<1>5. fits \in Int /\ fits * m <= rest * m - after * n
  <2>1. rest * m - after * n \in Int
    BY <1>2, <1>3, <1>4
  <2> QED BY <1>2, <2>1, Quotient
<1> HIDE DEF fits
<1>6. kept \in Int /\ kept * m <= n * left
  <2>1. fits * m <= n * left
    <3>1. rest * m \in Int /\ fits * m \in Int
      BY <1>2, <1>4, <1>5, Z3
    <3> QED BY <1>3, <1>4, <1>5, <3>1
  <2>2. after = 0 => rest * m <= n * left
    <3>1. after = 0 => left = m - before
      BY <1>2 DEF left
    <3> QED BY <1>4, <3>1, Zenon
  <2>3. after > 0 \/ after = 0
    BY <1>2
  <2> QED BY <1>2, <1>4, <1>5, <2>1, <2>2, <2>3
<1>7. 0 * left < n * left
  <2> HIDE DEF kept
  <2>1. m <= kept * m
    BY <1>1, <1>2, <1>6, Z3
  <2>2. 0 * left = 0 /\ kept * m \in Int
    BY <1>2, <1>3, <1>6, Z3
  <2> QED BY <1>2, <1>3, <1>6, <2>1, <2>2
<1>8. 0 < n
  BY <1>3, <1>7, Cancel
<1> QED BY <1>1, <1>8

LEMMA StretchAxisAt ==
    ASSUME NEW s \in Int, NEW n \in Int, NEW from \in Nat,
           NEW d \in Int, NEW m \in Int, NEW into \in Nat, NEW i \in 0..into - 1
    PROVE  StretchedAxis(StretchAxis(s, n, from, d, m, into), s, n, from, d, m, into, i)
<1> DEFINE X == StretchAxis(s, n, from, d, m, into)
          before == IF d < 0 THEN -d ELSE 0
          scale == Most(m, 1)
          q == (before * n) \div scale
          rest == (n * (m - before)) \div scale
          at == Most(d, 0)
          after == Most(m - before - into + at, 0)
          fits == (rest * m - after * n) \div scale
          kept == IF after > 0 THEN fits ELSE rest
          in == i \in d..d + m - 1
<1>1. /\ X.ok <=> /\ CheckAxis(s, n, from) /\ m > 0 /\ s + q < from
                  /\ m - before > 0 /\ m - before - after > 0 /\ kept > 0
      /\ X.s = s + q /\ X.n = kept /\ X.d = at /\ X.m = m - before - after
  BY DEF StretchAxis
<1>2. /\ before \in Nat /\ at \in Nat /\ after \in Nat /\ before = at - d
      /\ after = Most(d + m - into, 0) /\ in \in BOOLEAN
      /\ d < 0 => before = -d
      /\ d >= 0 => before = 0
      /\ in => m - before > 0 /\ m - before - after > 0
      /\ i \in at..at + (m - before - after) - 1 <=> in
  BY DEF Most
<1>3. X.ok => /\ n > 0 /\ m > 0 /\ CheckAxis(s, n, from)
              /\ X.s \in Nat /\ X.n \in Nat \ {0} /\ X.s + X.n <= s + n
              /\ X.d \in Nat /\ X.m \in Nat \ {0} /\ X.d + X.m <= into
  <2> SUFFICES ASSUME X.ok
               PROVE  /\ n > 0 /\ m > 0 /\ CheckAxis(s, n, from)
                      /\ X.s \in Nat /\ X.n \in Nat \ {0} /\ X.s + X.n <= s + n
                      /\ X.d \in Nat /\ X.m \in Nat \ {0} /\ X.d + X.m <= into
    OBVIOUS
  <2>1. n > 0 /\ m > 0 /\ CheckAxis(s, n, from)
    BY PositiveSource
  <2>2. X.s \in Int /\ X.n \in Int /\ X.d \in Nat /\ X.m \in Nat /\ X.d + X.m <= into
    BY StretchedInto
  <2>3. /\ s <= X.s /\ X.s + X.n <= s + n /\ X.n > 0 /\ 0 <= X.s /\ X.m > 0
    BY <2>1, StretchIsInside
  <2> HIDE DEF X
  <2> QED BY <2>1, <2>2, <2>3
<1> HIDE DEF X, before, at, after, in
<1>4. ASSUME ExactAxis(n, d, m, into), n > 0, m > 0
      PROVE  /\ q \in Int /\ q * m = before * n
             /\ rest = n - q
             /\ kept \in Int /\ kept * m = n * (m - before - after)
  <2>0. scale = m /\ m \in Nat \ {0} /\ n \in Nat \ {0}
    BY <1>4 DEF Most
  <2>1. q \in Int /\ before * n = q * m
    <3>1. CASE d < 0
      <4> DEFINE e == (d * n) \div m
      <4>1. d * n \in Int /\ (d * n) % m = 0
        BY <1>4, <3>1, Z3 DEF ExactAxis
      <4>2. d * n = e * m /\ e \in Int
        BY <2>0, <4>1, Divides
      <4> HIDE DEF e
      <4>3. before * n = (-e) * m /\ -e \in Int
        BY <1>2, <2>0, <3>1, <4>2, Z3
      <4>4. (before * n) \div m = -e
        BY <2>0, <4>3, WholeNumber, Zenon
      <4> QED BY <2>0, <4>3, <4>4, Zenon
    <3>2. CASE d >= 0
      <4>1. before * n = 0 * m /\ 0 \in Int
        BY <1>2, <2>0, <3>2, Z3
      <4>2. (before * n) \div m = 0
        BY <2>0, <4>1, WholeNumber, Zenon
      <4> QED BY <2>0, <4>1, <4>2, Zenon
    <3> QED BY <3>1, <3>2
  <2> HIDE DEF q
  <2>2. rest = n - q
    <3>1. n * (m - before) = (n - q) * m /\ n - q \in Int
      BY <1>2, <2>0, <2>1, Z3
    <3> QED BY <2>0, <3>1, WholeNumber, Zenon
  <2>3. kept \in Int /\ kept * m = n * (m - before - after)
    <3>1. CASE after > 0
      <4> DEFINE g == ((d + m - into) * n) \div m
      <4>1. after = d + m - into /\ d + m > into
        BY <1>2, <3>1 DEF Most
      <4>2. (d + m - into) * n \in Int /\ ((d + m - into) * n) % m = 0
        BY <1>4, <4>1, Z3 DEF ExactAxis
      <4>3. after * n = g * m /\ g \in Int
        BY <2>0, <4>1, <4>2, Divides
      <4> HIDE DEF g, rest
      <4>4. rest * m - after * n = (n - q - g) * m /\ n - q - g \in Int
        BY <2>0, <2>1, <2>2, <4>3, Z3
      <4>5. kept = n - q - g
        BY <2>0, <3>1, <4>4, WholeNumber, Zenon
      <4>6. (n - q - g) * m = n * (m - before - after)
        <5>1. (n - q - g) * m = n * m - q * m - g * m
          BY <2>0, <2>1, <4>3, Z3
        <5>2. n * (m - before - after) = n * m - before * n - after * n
          BY <1>2, <2>0, Z3
        <5> QED BY <2>1, <4>3, <5>1, <5>2, Zenon
      <4> QED BY <4>4, <4>5, <4>6, Zenon
    <3>2. CASE after = 0
      <4>1. kept = n - q
        BY <2>2, <3>2
      <4>2. (n - q) * m = n * (m - before - after) /\ n - q \in Int
        BY <1>2, <2>0, <2>1, <3>2, Z3
      <4> QED BY <4>1, <4>2, Zenon
    <3> QED BY <1>2, <3>1, <3>2
  <2> QED BY <2>1, <2>2, <2>3
<1>5. ASSUME ExactAxis(n, d, m, into), X.ok
      PROVE  Proportional(X, s, n, d, m)
  <2>1. n > 0 /\ m > 0
    BY <1>3, <1>5
  <2>2. q \in Int /\ q * m = before * n /\ kept * m = n * (m - before - after)
    BY <1>4, <1>5, <2>1
  <2> HIDE DEF q, kept
  <2>3. X.n * m = n * X.m
    BY <1>1, <2>2, Zenon
  <2>4. X.s - s = q /\ X.d - d = before
    BY <1>1, <1>2, <2>2
  <2> QED BY <2>2, <2>3, <2>4, Zenon DEF Proportional
<1>6. ASSUME ExactAxis(n, d, m, into), n > 0, m > 0, CheckAxis(s, n, from), in
      PROVE  X.ok
  <2>1. /\ q \in Int /\ q * m = before * n /\ rest = n - q
        /\ kept \in Int /\ kept * m = n * (m - before - after)
    BY <1>4, <1>6
  <2>2. m - before > 0 /\ m - before - after > 0
    BY <1>2, <1>6
  <2> HIDE DEF q, rest, kept
  <2>3. m \in Nat \ {0} /\ n \in Nat \ {0}
    BY <1>6
  <2>4. q < n
    <3>1. before * n < m * n
      BY <1>2, <2>2, <2>3, Z3
    <3>2. q * m < n * m
      BY <2>1, <2>3, <3>1, Z3
    <3> QED BY <2>1, <2>3, <3>2, Cancel
  <2>5. 0 < kept
    <3>1. 0 * m < kept * m
      BY <1>2, <2>1, <2>2, <2>3, Z3
    <3> QED BY <2>1, <2>3, <3>1, Cancel
  <2>6. s + q < from
    BY <1>6, <2>1, <2>3, <2>4 DEF CheckAxis
  <2> QED BY <1>1, <1>6, <2>2, <2>5, <2>6
<1>7. X.ok => (i \in X.d..X.d + X.m - 1 <=> in)
  BY <1>1, <1>2, Zenon
<1> HIDE DEF q, rest, kept
<1> QED BY <1>3, <1>5, <1>6, <1>7, Zenon DEF StretchedAxis, X, in

-----------------------------------------------------------------------------
(* A byte, and a channel, interpolated around a place of a source.         *)
Sampled(src, x, y) == SampleIn(x, src.w) /\ SampleIn(y, src.h)
ByteAt(src, px, x, y, k) == Interpolated(x, y, [q \in Around(x, y) |-> px[q[1] + q[2] * src.w][k]])
ChannelAt(src, x, y, channel) ==
    Interpolated(x, y, [q \in Around(x, y) |-> ColorAt(src, q[1], q[2])[channel]])

LEMMA AroundInside ==
    ASSUME NEW src, SourceTyped(src), NEW x, NEW y, Sampled(src, x, y), NEW q \in Around(x, y)
    PROVE  q[1] + q[2] * src.w \in DOMAIN src.px
<1>1. src.w \in Nat /\ src.h \in Nat /\ DOMAIN src.px = 0..src.w * src.h - 1
  BY DEF SourceTyped
<1>2. x.low \in 0..src.w - 1 /\ x.high \in 0..src.w - 1 /\ y.low \in 0..src.h - 1 /\ y.high \in 0..src.h - 1
  BY DEF Sampled, SampleIn
<1>3. q[1] \in {x.low, x.high} /\ q[2] \in {y.low, y.high}
  BY DEF Around
<1>4. q[1] \in 0..src.w - 1 /\ q[2] \in 0..src.h - 1
  BY <1>2, <1>3
<1> QED BY <1>1, <1>4, SourceNumber

LEMMA ByteAtShows ==
    ASSUME NEW src, SourceTyped(src), NEW px, NEW x, NEW y, NEW xx, NEW yy,
           Sampled(src, x, y), Sampled(src, xx, yy), SampleAs(x, xx), SampleAs(y, yy),
           NEW k, NEW channel,
           \A n \in DOMAIN src.px : /\ px[n][k] \in Byte
                                    /\ px[n][k] = Shown(src.format, src.px[n])[channel]
    PROVE  /\ ByteAt(src, px, x, y, k) = ChannelAt(src, xx, yy, channel)
           /\ ByteAt(src, px, x, y, k) \in Byte
<1> DEFINE v == [q \in Around(x, y) |-> px[q[1] + q[2] * src.w][k]]
          u == [q \in Around(xx, yy) |-> ColorAt(src, q[1], q[2])[channel]]
<1>1. Around(x, y) = Around(xx, yy)
  BY Zenon DEF Around, SampleAs
<1>2. ASSUME NEW q \in Around(x, y)
      PROVE  v[q] = u[q] /\ v[q] \in Byte
  <2> DEFINE n == q[1] + q[2] * src.w
  <2>1. v[q] = px[n][k] /\ u[q] = Shown(src.format, src.px[n])[channel]
    BY <1>1, Zenon DEF ColorAt
  <2>2. n \in DOMAIN src.px
    BY AroundInside
  <2> HIDE DEF n, v, u
  <2> QED BY <2>1, <2>2, Zenon
<1> HIDE DEF v, u
<1>3. SampleIn(x, src.w) /\ SampleIn(y, src.h) /\ SampleIn(xx, src.w) /\ SampleIn(yy, src.h)
  BY Zenon DEF Sampled
<1>4. Interpolated(x, y, v) = Interpolated(xx, yy, u) /\ Interpolated(x, y, v) \in Byte
  BY <1>2, <1>3, InterpolatedSame
<1> QED BY <1>4, Zenon DEF v, u, ByteAt, ChannelAt

LEMMA ByteAtByte ==
    ASSUME NEW src, SourceTyped(src), NEW px, NEW x, NEW y, Sampled(src, x, y), NEW k,
           \A n \in DOMAIN src.px : px[n][k] \in Byte
    PROVE  ByteAt(src, px, x, y, k) \in Byte
<1> DEFINE v == [q \in Around(x, y) |-> px[q[1] + q[2] * src.w][k]]
<1>1. ASSUME NEW q \in Around(x, y)
      PROVE  v[q] = v[q] /\ v[q] \in Byte
  <2> DEFINE n == q[1] + q[2] * src.w
  <2>1. v[q] = px[n][k]
    OBVIOUS
  <2>2. n \in DOMAIN src.px
    BY AroundInside
  <2> HIDE DEF n, v
  <2> QED BY <2>1, <2>2, Zenon
<1> HIDE DEF v
<1>2. SampleAs(x, x) /\ SampleAs(y, y)
  BY Zenon DEF SampleAs
<1>3. Interpolated(x, y, v) \in Byte
  BY <1>1, <1>2, InterpolatedSame, Zenon DEF Sampled
<1> QED BY <1>3, Zenon DEF v, ByteAt

LEMMA ChannelConstant ==
    ASSUME NEW src, SourceTyped(src), NEW x, NEW y, Sampled(src, x, y), NEW channel, NEW b \in Byte,
           \A n \in DOMAIN src.px : Shown(src.format, src.px[n])[channel] = b
    PROVE  ChannelAt(src, x, y, channel) = b
<1> DEFINE u == [q \in Around(x, y) |-> ColorAt(src, q[1], q[2])[channel]]
<1>1. ASSUME NEW q \in Around(x, y)
      PROVE  u[q] = b
  <2> DEFINE n == q[1] + q[2] * src.w
  <2>1. u[q] = Shown(src.format, src.px[n])[channel]
    BY Zenon DEF ColorAt
  <2>2. n \in DOMAIN src.px
    BY AroundInside
  <2> HIDE DEF n, u
  <2> QED BY <2>1, <2>2, Zenon
<1> HIDE DEF u
<1>2. SampleIn(x, src.w) /\ SampleIn(y, src.h)
  BY Zenon DEF Sampled
<1>3. Interpolated(x, y, u) = b
  BY <1>1, <1>2, InterpolatedConstant
<1> QED BY <1>3, Zenon DEF u, ChannelAt

(* A scaled source: its pixels, and what they show.                        *)
ScaledAxis(X, from) ==
    X.s \in Nat /\ X.n \in Nat \ {0} /\ X.m \in Nat \ {0} /\ X.s + X.n <= from

Along(X, cut, from, i) == Sample(X.s, X.n, X.m, i, End(cut, X.s, X.n, from))

ScaledPixel(src, px, X, Y, f, cut, i, j) ==
    [k \in 0..getFormatBpp(f) - 1 |->
        ByteAt(src, px, Along(X, cut, src.w, i), Along(Y, cut, src.h, j), k)]

LEMMA AlongInside ==
    ASSUME NEW X, NEW from \in Nat, ScaledAxis(X, from), NEW cut \in BOOLEAN, NEW i \in 0..X.m - 1
    PROVE  SampleIn(Along(X, cut, from, i), from)
<1> DEFINE s == X.s
          n == X.n
          m == X.m
          last == End(cut, s, n, from)
<1>1. s \in Nat /\ n \in Nat \ {0} /\ m \in Nat \ {0} /\ s + n <= from /\ i \in 0..m - 1
  BY DEF ScaledAxis
<1>2. last \in {s + n - 1, from - 1}
  BY DEF End
<1> HIDE DEF s, n, m, last
<1>3. SampleIn(Sample(s, n, m, i, last), from)
  BY <1>1, <1>2, SampleInside
<1> QED BY <1>3, Zenon DEF s, n, m, last, Along

LEMMA ScaledIs ==
    ASSUME NEW src, NEW px, NEW X, NEW Y, NEW f, NEW cut
    PROVE  LET S == Scaled(src, px, X, Y, f, cut) IN
           /\ S.format = f /\ S.w = X.m /\ S.h = Y.m
           /\ S.px = [n \in 0..X.m * Y.m - 1 |->
                         ScaledPixel(src, px, X, Y, f, cut, n % X.m, n \div X.m)]
<1> DEFINE all == 0..X.m * Y.m - 1
          pixels == [n \in all |-> ScaledPixel(src, px, X, Y, f, cut, n % X.m, n \div X.m)]
<1>1. Scaled(src, px, X, Y, f, cut) = [format |-> f, w |-> X.m, h |-> Y.m, px |-> pixels]
  BY Zenon DEF Scaled, Source, ScaledPixel, ByteAt, Along
<1> HIDE DEF pixels
<1>2. LET S == Scaled(src, px, X, Y, f, cut) IN
      S.format = f /\ S.w = X.m /\ S.h = Y.m /\ S.px = pixels
  BY <1>1
<1> QED BY <1>2, Zenon DEF pixels

LEMMA ScaledShape ==
    ASSUME NEW src, NEW px, NEW X, NEW Y, NEW f, NEW cut
    PROVE  LET S == Scaled(src, px, X, Y, f, cut) IN
           S.format = f /\ S.w = X.m /\ S.h = Y.m
<1> DEFINE pixels == [n \in 0..X.m * Y.m - 1 |->
                         ScaledPixel(src, px, X, Y, f, cut, n % X.m, n \div X.m)]
<1>1. Scaled(src, px, X, Y, f, cut) = [format |-> f, w |-> X.m, h |-> Y.m, px |-> pixels]
  BY Zenon DEF Scaled, Source, ScaledPixel, ByteAt, Along
<1> HIDE DEF pixels
<1> QED BY <1>1

LEMMA ScaledPixelTyped ==
    ASSUME NEW src, SourceTyped(src), NEW px, NEW X, NEW Y, NEW f \in Formats, NEW cut \in BOOLEAN,
           ScaledAxis(X, src.w), ScaledAxis(Y, src.h),
           \A n \in DOMAIN src.px : px[n] \in PixelsOf(f),
           NEW i \in 0..X.m - 1, NEW j \in 0..Y.m - 1
    PROVE  ScaledPixel(src, px, X, Y, f, cut, i, j) \in PixelsOf(f)
<1> DEFINE x == Along(X, cut, src.w, i)
          y == Along(Y, cut, src.h, j)
<1>1. Sampled(src, x, y)
  <2>1. src.w \in Nat /\ src.h \in Nat
    BY DEF SourceTyped
  <2> QED BY <2>1, AlongInside, Zenon DEF Sampled
<1> HIDE DEF x, y
<1>2. ASSUME NEW k \in 0..getFormatBpp(f) - 1
      PROVE  ByteAt(src, px, x, y, k) \in Byte
  <2>1. \A n \in DOMAIN src.px : px[n][k] \in Byte
    BY DEF PixelsOf
  <2> QED BY <1>1, <2>1, ByteAtByte
<1>3. ScaledPixel(src, px, X, Y, f, cut, i, j) = [k \in 0..getFormatBpp(f) - 1 |-> ByteAt(src, px, x, y, k)]
  BY Zenon DEF ScaledPixel, x, y
<1> QED BY <1>2, <1>3 DEF PixelsOf

LEMMA ScaledFrom ==
    ASSUME NEW src, NEW px, NEW X, NEW Y, NEW f, NEW cut, X.m \in Nat \ {0}, Y.m \in Nat \ {0},
           NEW n \in DOMAIN Scaled(src, px, X, Y, f, cut).px
    PROVE  \E i \in 0..X.m - 1, j \in 0..Y.m - 1 :
               Scaled(src, px, X, Y, f, cut).px[n] = ScaledPixel(src, px, X, Y, f, cut, i, j)
<1> DEFINE S == Scaled(src, px, X, Y, f, cut)
          pixel(i, j) == ScaledPixel(src, px, X, Y, f, cut, i, j)
          m == X.m
          o == Y.m
<1>1. S.px = [a \in 0..m * o - 1 |-> pixel(a % m, a \div m)]
  BY ScaledIs
<1>2. m \in Nat \ {0} /\ o \in Nat \ {0} /\ n \in DOMAIN S.px
  OBVIOUS
<1> HIDE DEF S, pixel, m, o
<1>3. n \in 0..m * o - 1 /\ S.px[n] = pixel(n % m, n \div m)
  BY <1>1, <1>2
<1>4. m * o \in Int /\ n \in Int /\ 0 <= n /\ n < m * o
  <2>1. m * o \in Int
    BY <1>2, Z3
  <2> QED BY <1>3, <2>1
<1>5. n % m \in 0..m - 1
  BY <1>2, <1>4, Remainder
<1> DEFINE j == n \div m
<1>6. j \in Int /\ j * m <= n /\ n < j * m + m
  BY <1>2, <1>4, Quotient
<1> HIDE DEF j
<1>7. j * m < o * m /\ 0 * m < (j + 1) * m
  BY <1>2, <1>4, <1>6, Z3
<1>8. j < o /\ 0 < j + 1
  BY <1>2, <1>6, <1>7, Cancel
<1>9. j \in 0..o - 1
  BY <1>2, <1>6, <1>8
<1> QED BY <1>3, <1>5, <1>9, Zenon DEF S, pixel, m, o, j

LEMMA ScaledTyped ==
    ASSUME NEW src, SourceTyped(src), NEW px, NEW X, NEW Y, NEW f \in Formats, NEW cut \in BOOLEAN,
           ScaledAxis(X, src.w), ScaledAxis(Y, src.h),
           \A n \in DOMAIN src.px : px[n] \in PixelsOf(f)
    PROVE  SourceTyped(Scaled(src, px, X, Y, f, cut))
<1> DEFINE S == Scaled(src, px, X, Y, f, cut)
          pixel(i, j) == ScaledPixel(src, px, X, Y, f, cut, i, j)
          m == X.m
          o == Y.m
<1>1. S.format = f /\ S.w = m /\ S.h = o /\ S.px = [n \in 0..m * o - 1 |-> pixel(n % m, n \div m)]
  BY ScaledIs
<1>2. m \in Nat \ {0} /\ o \in Nat \ {0}
  BY DEF ScaledAxis
<1>3. \A i \in 0..m - 1, j \in 0..o - 1 : pixel(i, j) \in PixelsOf(f)
  BY ScaledPixelTyped
<1>4. \A n \in DOMAIN S.px : \E i \in 0..m - 1, j \in 0..o - 1 : S.px[n] = pixel(i, j)
  BY <1>2, ScaledFrom
<1> HIDE DEF S, pixel, m, o
<1>5. DOMAIN S.px = 0..S.w * S.h - 1
  BY <1>1, Zenon
<1>6. \A n \in DOMAIN S.px : S.px[n] \in PixelsOf(S.format)
  <2>1. \A n \in DOMAIN S.px : S.px[n] \in PixelsOf(f)
    BY <1>3, <1>4, Zenon
  <2>2. S.format = f
    BY <1>1, Zenon
  <2> QED BY <2>1, <2>2, Zenon
<1> QED BY <1>1, <1>2, <1>5, <1>6 DEF SourceTyped, S

ColorsAt(src, x, y) ==
    [r |-> ChannelAt(src, x, y, "r"), g |-> ChannelAt(src, x, y, "g"),
     b |-> ChannelAt(src, x, y, "b"), a |-> ChannelAt(src, x, y, "a")]

LEMMA ScaledShows ==
    ASSUME NEW src, SourceTyped(src), NEW px, NEW X, NEW Y, NEW f \in Formats, NEW cut \in BOOLEAN,
           ScaledAxis(X, src.w), ScaledAxis(Y, src.h),
           \A n \in DOMAIN src.px : /\ px[n] \in PixelsOf(f)
                                    /\ Shown(f, px[n]) = Reduced(f, Shown(src.format, src.px[n])),
           NEW i \in 0..X.m - 1, NEW j \in 0..Y.m - 1, NEW x, NEW y, Sampled(src, x, y),
           SampleAs(Along(X, cut, src.w, i), x), SampleAs(Along(Y, cut, src.h, j), y)
    PROVE  Shown(f, ScaledPixel(src, px, X, Y, f, cut, i, j)) = Reduced(f, ColorsAt(src, x, y))
<1> DEFINE xx == Along(X, cut, src.w, i)
          yy == Along(Y, cut, src.h, j)
          pixel == ScaledPixel(src, px, X, Y, f, cut, i, j)
          c(n) == Shown(src.format, src.px[n])
<1>1. Sampled(src, xx, yy)
  <2>1. src.w \in Nat /\ src.h \in Nat
    BY DEF SourceTyped
  <2> QED BY <2>1, AlongInside, Zenon DEF Sampled
<1>2. \A k \in 0..getFormatBpp(f) - 1 : pixel[k] = ByteAt(src, px, xx, yy, k)
  BY Zenon DEF ScaledPixel
<1>3. SampleAs(xx, x) /\ SampleAs(yy, y)
  OBVIOUS
<1> HIDE DEF xx, yy, pixel
<1>4. ASSUME NEW k \in 0..getFormatBpp(f) - 1, NEW channel,
             \A n \in DOMAIN src.px : px[n][k] = c(n)[channel]
      PROVE  pixel[k] = ChannelAt(src, x, y, channel)
  <2>1. \A n \in DOMAIN src.px : px[n][k] \in Byte
    BY DEF PixelsOf
  <2>2. \A n \in DOMAIN src.px : px[n][k] \in Byte /\ px[n][k] = Shown(src.format, src.px[n])[channel]
    BY <1>4, <2>1, Zenon
  <2>3. ByteAt(src, px, xx, yy, k) = ChannelAt(src, x, y, channel)
    BY <1>1, <1>3, <2>2, ByteAtShows
  <2> QED BY <1>2, <2>3, Zenon
<1>5. \A n \in DOMAIN src.px :
          /\ px[n][RedIndex(f)] = c(n).r
          /\ px[n][GreenIndex(f)] = IF f \in Formats1 THEN c(n).r ELSE c(n).g
          /\ px[n][BlueIndex(f)] = IF f \in Formats1 THEN c(n).r ELSE c(n).b
          /\ f \in AlphaFormats => px[n][AlphaIndex(f)] = c(n).a
  <2> TAKE n \in DOMAIN src.px
  <2> HIDE DEF c
  <2>1. Shown(f, px[n]) = Reduced(f, c(n))
    BY DEF c
  <2> QED BY <2>1 DEF Shown, Reduced
<1>6. /\ RedIndex(f) \in 0..getFormatBpp(f) - 1 /\ GreenIndex(f) \in 0..getFormatBpp(f) - 1
      /\ BlueIndex(f) \in 0..getFormatBpp(f) - 1
      /\ f \in AlphaFormats => AlphaIndex(f) \in 0..getFormatBpp(f) - 1
  BY Channels
<1> HIDE DEF c
<1> DEFINE color(channel) == ChannelAt(src, x, y, channel)
<1>7. pixel[RedIndex(f)] = color("r")
  BY <1>4, <1>5, <1>6, Zenon
<1>8. pixel[GreenIndex(f)] = IF f \in Formats1 THEN color("r") ELSE color("g")
  BY <1>4, <1>5, <1>6, Zenon
<1>9. pixel[BlueIndex(f)] = IF f \in Formats1 THEN color("r") ELSE color("b")
  BY <1>4, <1>5, <1>6, Zenon
<1>10. f \in AlphaFormats => pixel[AlphaIndex(f)] = color("a")
  BY <1>4, <1>5, <1>6, Zenon
<1>11. ColorsAt(src, x, y) = [r |-> color("r"), g |-> color("g"), b |-> color("b"), a |-> color("a")]
  BY Zenon DEF ColorsAt
<1> HIDE DEF color
<1>12. Shown(f, pixel) = Reduced(f, ColorsAt(src, x, y))
  BY <1>7, <1>8, <1>9, <1>10, <1>11 DEF Shown, Reduced
<1> QED BY <1>12, Zenon DEF pixel

LEMMA ScaledAloneShows ==
    ASSUME NEW src, SourceTyped(src), NEW X, NEW Y, NEW cut \in BOOLEAN,
           ScaledAxis(X, src.w), ScaledAxis(Y, src.h),
           NEW i \in 0..X.m - 1, NEW j \in 0..Y.m - 1, NEW x, NEW y, Sampled(src, x, y),
           SampleAs(Along(X, cut, src.w, i), x), SampleAs(Along(Y, cut, src.h, j), y)
    PROVE  Shown(src.format, ScaledPixel(src, src.px, X, Y, src.format, cut, i, j))
             = ColorsAt(src, x, y)
<1> DEFINE f == src.format
<1>1. f \in Formats /\ \A n \in DOMAIN src.px : src.px[n] \in PixelsOf(f)
  BY DEF SourceTyped
<1>2. \A n \in DOMAIN src.px :
          src.px[n] \in PixelsOf(f) /\ Shown(f, src.px[n]) = Reduced(f, Shown(src.format, src.px[n]))
  BY <1>1, ShownBytes
<1>3. Shown(f, ScaledPixel(src, src.px, X, Y, f, cut, i, j)) = Reduced(f, ColorsAt(src, x, y))
  <2> HIDE DEF f
  <2> QED BY <1>1, <1>2, ScaledShows
<1> DEFINE color(channel) == ChannelAt(src, x, y, channel)
<1>4. f \notin AlphaFormats => color("a") = 255
  <2>1. f \notin AlphaFormats => \A n \in DOMAIN src.px : Shown(src.format, src.px[n])["a"] = 255
    BY DEF Shown
  <2>2. 255 \in Byte
    BY DEF Byte
  <2> QED BY <2>1, <2>2, ChannelConstant
<1>5. f \in Formats1 => color("g") = color("r") /\ color("b") = color("r")
  <2>1. ASSUME f \in Formats1, NEW n
        PROVE  /\ Shown(src.format, src.px[n])["g"] = Shown(src.format, src.px[n])["r"]
               /\ Shown(src.format, src.px[n])["b"] = Shown(src.format, src.px[n])["r"]
    <3>1. RedIndex(f) = 0 /\ GreenIndex(f) = 0 /\ BlueIndex(f) = 0
      BY <1>1, <2>1, Channels
    <3> QED BY <3>1 DEF Shown
  <2> QED BY <2>1, Zenon DEF ChannelAt, ColorAt
<1>6. ColorsAt(src, x, y) = [r |-> color("r"), g |-> color("g"), b |-> color("b"), a |-> color("a")]
  BY Zenon DEF ColorsAt
<1> HIDE DEF color
<1>7. Reduced(f, ColorsAt(src, x, y)) = ColorsAt(src, x, y)
  <2> HIDE DEF f
  <2> QED BY <1>4, <1>5, <1>6 DEF Reduced
<1> QED BY <1>3, <1>7, Zenon

LEMMA ScaledAt ==
    ASSUME NEW src, NEW px, NEW X, NEW Y, NEW f, NEW cut, X.m \in Nat \ {0}, Y.m \in Nat \ {0},
           NEW i \in 0..X.m - 1, NEW j \in 0..Y.m - 1
    PROVE  LET S == Scaled(src, px, X, Y, f, cut)
               n == i + j * X.m IN
           n \in DOMAIN S.px /\ S.px[n] = ScaledPixel(src, px, X, Y, f, cut, i, j)
<1> DEFINE S == Scaled(src, px, X, Y, f, cut)
          pixel(a, b) == ScaledPixel(src, px, X, Y, f, cut, a, b)
          m == X.m
          o == Y.m
          n == i + j * m
<1>1. S.px = [k \in 0..m * o - 1 |-> pixel(k % m, k \div m)]
  BY ScaledIs
<1>2. m \in Nat \ {0} /\ o \in Nat \ {0} /\ i \in 0..m - 1 /\ j \in 0..o - 1
  OBVIOUS
<1> HIDE DEF S, pixel, m, o
<1>3. n \in 0..m * o - 1
  BY <1>2, SourceNumber
<1>4. n \div m = j /\ n % m = i
  <2>1. i \in Nat /\ j \in Int /\ m \in Nat /\ i < m
    BY <1>2
  <2> QED BY <2>1, Divided
<1> HIDE DEF n
<1>5. n \in DOMAIN S.px /\ S.px[n] = pixel(n % m, n \div m)
  BY <1>1, <1>3, Zenon
<1>6. n \in DOMAIN S.px /\ S.px[n] = pixel(i, j)
  BY <1>4, <1>5, Zenon
<1> QED BY <1>6, Zenon DEF S, pixel, m, n

(* One axis of a scaled copy at a position of the image: the sample of the *)
(* corrected axis is the one asked for.                                    *)
LEMMA SampledAxis ==
    ASSUME NEW X, NEW s \in Int, NEW n \in Int, NEW from \in Nat, NEW d \in Int, NEW m \in Int,
           NEW into, NEW i \in Int, StretchedAxis(X, s, n, from, d, m, into, i), X.ok,
           ExactAxis(n, d, m, into), i \in d..d + m - 1, NEW cut \in BOOLEAN
    PROVE  LET x == Sample(s, n, m, i - d, End(cut, X.s, X.n, from)) IN
           /\ SampleAs(Along(X, cut, from, i - X.d), x) /\ SampleIn(x, from)
           /\ i - X.d \in 0..X.m - 1
<1> DEFINE last == End(cut, X.s, X.n, from)
          t == X.s
          o == X.n
          e == X.d
          l == X.m
<1>1. /\ m \in Nat \ {0} /\ t \in Nat /\ o \in Nat \ {0} /\ e \in Nat /\ l \in Nat \ {0}
      /\ CheckAxis(s, n, from) /\ t + o <= s + n
      /\ i - e \in 0..l - 1 /\ o * m = n * l /\ (t - s) * m = (e - d) * n
  <2>1. /\ m > 0 /\ CheckAxis(s, n, from) /\ t \in Nat /\ o \in Nat \ {0} /\ e \in Nat
        /\ l \in Nat \ {0} /\ t + o <= s + n /\ i \in e..e + l - 1
        /\ o * m = n * l /\ (t - s) * m = (e - d) * n
    BY DEF StretchedAxis, Proportional
  <2> HIDE DEF t, o, e, l
  <2> QED BY <2>1
<1>2. Along(X, cut, from, i - e) = Sample(t, o, l, i - e, last)
  BY Zenon DEF Along
<1>3. SampleIn(Along(X, cut, from, i - e), from)
  <2>1. ScaledAxis(X, from)
    BY <1>1 DEF ScaledAxis, CheckAxis
  <2> QED BY <1>1, <2>1, AlongInside
<1> HIDE DEF t, o, e, l, last
<1>4. SameFraction(t * l + (i - e) * o, l, s * m + (i - d) * n, m)
  <2>1. t * m = s * m + (e - d) * n
    BY <1>1, Z3
  <2>2. (t * l + (i - e) * o) * m = l * (t * m) + (i - e) * (o * m)
    BY <1>1, Z3
  <2>3. (s * m + (i - d) * n) * l = l * (s * m + (e - d) * n) + (i - e) * (n * l)
    BY <1>1, Z3
  <2> QED BY <1>1, <2>1, <2>2, <2>3, Zenon DEF SameFraction
<1> DEFINE a == i - e
          b == i - d
<1>5. a \in Int /\ b \in Int
  BY <1>1
<1>6. SamePlace(t, o, l, a, s, n, m, b)
  BY <1>4, Zenon DEF SamePlace
<1>7. SampleIn(Sample(t, o, l, a, last), from)
  BY <1>2, <1>3, Zenon
<1> HIDE DEF a, b
<1>8. /\ SampleAs(Sample(t, o, l, a, last), Sample(s, n, m, b, last))
      /\ SampleIn(Sample(s, n, m, b, last), from)
  <2>1. Place(t, o, l, a) /\ Place(s, n, m, b)
    BY <1>1, <1>5 DEF Place
  <2> QED BY <1>6, <1>7, <2>1, SampleSame, Zenon
<1> QED BY <1>1, <1>2, <1>8, Zenon DEF a, b, e, l, last

(* The positions that scaling is asked for, and the corrected rectangle.   *)
Wanted(src, R, p) ==
    /\ Legal(src, R) /\ R.sw > 0 /\ R.sh > 0 /\ R.dw > 0 /\ R.dh > 0
    /\ p \in Region(R.dx, R.dy, R.dw, R.dh)

ExactCut(R) == ExactAxis(R.sw, R.dx, R.dw, Width) /\ ExactAxis(R.sh, R.dy, R.dh, Height)

Within(X, i) == i \in X.d..X.d + X.m - 1
Corrected(X, from, into) == ScaledAxis(X, from) /\ X.d \in Nat /\ X.d + X.m <= into

LEMMA ClippedAt ==
    ASSUME NEW src, SourceTyped(src), NEW R \in Stretches, NEW p \in Positions
    PROVE  /\ StretchedAxis(ClippedX(src, R), R.sx, R.sw, src.w, R.dx, R.dw, Width, p[1])
           /\ StretchedAxis(ClippedY(src, R), R.sy, R.sh, src.h, R.dy, R.dh, Height, p[2])
<1>1. /\ R.sx \in Int /\ R.sw \in Int /\ R.dx \in Int /\ R.dw \in Int
      /\ R.sy \in Int /\ R.sh \in Int /\ R.dy \in Int /\ R.dh \in Int
  BY StretchFields DEF StretchNames
<1>2. /\ src.w \in Nat /\ src.h \in Nat /\ Width \in Nat /\ Height \in Nat
      /\ p[1] \in 0..Width - 1 /\ p[2] \in 0..Height - 1
  BY Sizes, PositionNumber DEF SourceTyped
<1> QED BY <1>1, <1>2, StretchAxisAt, Zenon DEF ClippedX, ClippedY

LEMMA StretchPlaces ==
    ASSUME NEW src, SourceTyped(src), NEW R \in Stretches, ExactCut(R), NEW p \in Positions
    PROVE  LET X == ClippedX(src, R)  Y == ClippedY(src, R) IN
           /\ X.ok /\ Y.ok =>
                  /\ Corrected(X, src.w, Width) /\ Corrected(Y, src.h, Height)
                  /\ Wanted(src, R, p) <=> Within(X, p[1]) /\ Within(Y, p[2])
           /\ ~(X.ok /\ Y.ok) => ~Wanted(src, R, p)
<1> DEFINE X == ClippedX(src, R)
          Y == ClippedY(src, R)
<1>1. /\ StretchedAxis(X, R.sx, R.sw, src.w, R.dx, R.dw, Width, p[1])
      /\ StretchedAxis(Y, R.sy, R.sh, src.h, R.dy, R.dh, Height, p[2])
  BY ClippedAt
<1>2. ExactAxis(R.sw, R.dx, R.dw, Width) /\ ExactAxis(R.sh, R.dy, R.dh, Height)
  BY DEF ExactCut
<1>3. Wanted(src, R, p) <=>
        /\ R.sw > 0 /\ R.dw > 0 /\ CheckAxis(R.sx, R.sw, src.w) /\ p[1] \in R.dx..R.dx + R.dw - 1
        /\ R.sh > 0 /\ R.dh > 0 /\ CheckAxis(R.sy, R.sh, src.h) /\ p[2] \in R.dy..R.dy + R.dh - 1
  BY DEF Wanted, Legal, Region
<1> HIDE DEF X, Y
<1>4. X.ok => Corrected(X, src.w, Width)
  <2>1. /\ R.sx \in Int /\ R.sw \in Int /\ src.w \in Nat
    BY StretchFields DEF StretchNames, SourceTyped
  <2>2. X.ok => /\ X.s \in Nat /\ X.n \in Nat \ {0} /\ X.m \in Nat \ {0} /\ X.d \in Nat
                /\ X.d + X.m <= Width /\ X.s + X.n <= R.sx + R.sw /\ R.sx + R.sw <= src.w
    BY <1>1, Zenon DEF StretchedAxis, CheckAxis
  <2> QED BY <2>1, <2>2 DEF Corrected, ScaledAxis
<1>5. Y.ok => Corrected(Y, src.h, Height)
  <2>1. /\ R.sy \in Int /\ R.sh \in Int /\ src.h \in Nat
    BY StretchFields DEF StretchNames, SourceTyped
  <2>2. Y.ok => /\ Y.s \in Nat /\ Y.n \in Nat \ {0} /\ Y.m \in Nat \ {0} /\ Y.d \in Nat
                /\ Y.d + Y.m <= Height /\ Y.s + Y.n <= R.sy + R.sh /\ R.sy + R.sh <= src.h
    BY <1>1, Zenon DEF StretchedAxis, CheckAxis
  <2> QED BY <2>1, <2>2 DEF Corrected, ScaledAxis
<1>6. X.ok /\ Y.ok => (Wanted(src, R, p) <=> Within(X, p[1]) /\ Within(Y, p[2]))
  BY <1>1, <1>3, Zenon DEF StretchedAxis, Within
<1>7. ~(X.ok /\ Y.ok) => ~Wanted(src, R, p)
  BY <1>1, <1>2, <1>3, Zenon DEF StretchedAxis
<1> QED BY <1>4, <1>5, <1>6, <1>7, Zenon DEF X, Y

(* The color that scaling asks for, as one of a corrected rectangle.       *)
SampledColor(src, X, Y, cut, i, j, c) ==
    \E x, y : /\ Sampled(src, x, y) /\ c = ColorsAt(src, x, y)
              /\ SampleAs(Along(X, cut, src.w, i), x) /\ SampleAs(Along(Y, cut, src.h, j), y)

LEMMA ScaledColorSampled ==
    ASSUME NEW src, SourceTyped(src), NEW R \in Stretches, ExactCut(R), NEW p \in Positions,
           ClippedX(src, R).ok, ClippedY(src, R).ok, Wanted(src, R, p), NEW cut \in BOOLEAN
    PROVE  LET X == ClippedX(src, R)  Y == ClippedY(src, R) IN
           /\ p[1] - X.d \in 0..X.m - 1 /\ p[2] - Y.d \in 0..Y.m - 1
           /\ SampledColor(src, X, Y, cut, p[1] - X.d, p[2] - Y.d, ScaledColor(src, R, p, cut))
<1> DEFINE X == ClippedX(src, R)
          Y == ClippedY(src, R)
          x == Sample(R.sx, R.sw, R.dw, p[1] - R.dx, End(cut, X.s, X.n, src.w))
          y == Sample(R.sy, R.sh, R.dh, p[2] - R.dy, End(cut, Y.s, Y.n, src.h))
<1>1. /\ StretchedAxis(X, R.sx, R.sw, src.w, R.dx, R.dw, Width, p[1])
      /\ StretchedAxis(Y, R.sy, R.sh, src.h, R.dy, R.dh, Height, p[2])
  BY ClippedAt
<1>2. /\ ExactAxis(R.sw, R.dx, R.dw, Width) /\ ExactAxis(R.sh, R.dy, R.dh, Height)
      /\ p[1] \in R.dx..R.dx + R.dw - 1 /\ p[2] \in R.dy..R.dy + R.dh - 1
  BY DEF ExactCut, Wanted, Region
<1>3. /\ R.sx \in Int /\ R.sw \in Int /\ R.dx \in Int /\ R.dw \in Int
      /\ R.sy \in Int /\ R.sh \in Int /\ R.dy \in Int /\ R.dh \in Int
      /\ src.w \in Nat /\ src.h \in Nat /\ p[1] \in Int /\ p[2] \in Int
  <2>1. p[1] \in 0..Width - 1 /\ p[2] \in 0..Height - 1
    BY PositionNumber
  <2>2. p[1] \in Int /\ p[2] \in Int
    BY <2>1, Sizes
  <2> QED BY <2>2, StretchFields DEF StretchNames, SourceTyped
<1>4. ScaledColor(src, R, p, cut) = ColorsAt(src, x, y)
  <2>1. (cut /\ X.ok) = cut /\ (cut /\ Y.ok) = cut
    OBVIOUS
  <2>2. ScaledColor(src, R, p, cut) =
          ColorsAt(src, Sample(R.sx, R.sw, R.dw, p[1] - R.dx, End(cut /\ X.ok, X.s, X.n, src.w)),
                   Sample(R.sy, R.sh, R.dh, p[2] - R.dy, End(cut /\ Y.ok, Y.s, Y.n, src.h)))
    BY Zenon DEF ScaledColor, ColorsAt, ChannelAt
  <2> HIDE DEF X, Y
  <2> QED BY <2>1, <2>2, Zenon
<1>5. X.ok /\ Y.ok
  OBVIOUS
<1> HIDE DEF X, Y
<1>6. /\ SampleAs(Along(X, cut, src.w, p[1] - X.d), x) /\ SampleIn(x, src.w)
      /\ p[1] - X.d \in 0..X.m - 1
  BY <1>1, <1>2, <1>3, <1>5, SampledAxis, Zenon
<1>7. /\ SampleAs(Along(Y, cut, src.h, p[2] - Y.d), y) /\ SampleIn(y, src.h)
      /\ p[2] - Y.d \in 0..Y.m - 1
  BY <1>1, <1>2, <1>3, <1>5, SampledAxis, Zenon
<1> HIDE DEF x, y
<1> QED BY <1>4, <1>6, <1>7, Zenon DEF SampledColor, Sampled, X, Y

(* Between equal sizes every sample is a pixel.                            *)
LEMMA InterpolatedAtPixel ==
    ASSUME NEW w, NEW h, NEW x, NEW y, NEW v, SampleIn(x, w), SampleIn(y, h),
           x.part = 0, y.part = 0, \A q \in Around(x, y) : v[q] \in Byte
    PROVE  Interpolated(x, y, v) = v[<<x.low, y.low>>]
<1> DEFINE A == v[<<x.low, y.low>>]
          B == v[<<x.low, y.high>>]
          C == v[<<x.high, y.low>>]
          D == v[<<x.high, y.high>>]
          m == x.of
          o == y.of
          N == (A * (o - 0) + B * 0) * (m - 0) + (C * (o - 0) + D * 0) * 0
<1>1. A \in Int /\ B \in Int /\ C \in Int /\ D \in Int
  BY DEF Around, Byte
<1>2. m \in Nat \ {0} /\ o \in Nat \ {0}
  BY DEF SampleIn
<1>3. Interpolated(x, y, v) = N \div (m * o)
  BY Zenon DEF Interpolated
<1> HIDE DEF A, B, C, D, m, o
<1>4. N = A * (m * o) /\ m * o \in Nat \ {0}
  BY <1>1, <1>2, Z3
<1> DEFINE e == m * o
<1>5. N = A * e /\ e \in Nat \ {0}
  BY <1>4
<1> HIDE DEF N, e
<1>6. N \div e = A
  BY <1>1, <1>5, WholeNumber, Zenon
<1> QED BY <1>3, <1>6, Zenon DEF e, A

LEMMA AlongSame ==
    ASSUME NEW X, NEW from, ScaledAxis(X, from), X.n = X.m, NEW cut, NEW i \in Int,
           NEW x, SampleIn(x, from), SampleAs(Along(X, cut, from, i), x)
    PROVE  x.low = X.s + i /\ x.part = 0
<1> DEFINE s == X.s
          m == X.m
          last == End(cut, s, m, from)
          at == s * m + i * m
<1>1. s \in Nat /\ m \in Nat \ {0}
  BY DEF ScaledAxis
<1>2. Along(X, cut, from, i) =
        [low |-> at \div m, high |-> Least(at \div m + 1, last), part |-> at % m, of |-> m]
  BY Zenon DEF Along, Sample
<1> HIDE DEF s, m, last
<1>3. at = (s + i) * m /\ s + i \in Int
  BY <1>1, Z3
<1>4. at \div m = s + i
  BY <1>1, <1>3, WholeNumber, Zenon
<1>5. at % m = 0
  <2>1. (0 + (s + i) * m) % m = 0
    BY <1>1, <1>3, Divided
  <2>2. 0 + (s + i) * m = at
    BY <1>1, <1>3, Z3
  <2> QED BY <2>1, <2>2, Zenon
<1> DEFINE high == Least(at \div m + 1, last)
<1>6. Along(X, cut, from, i) = [low |-> s + i, high |-> high, part |-> 0, of |-> m]
  BY <1>2, <1>4, <1>5, Zenon
<1> HIDE DEF high, at
<1>7. x.low = s + i /\ 0 * x.of = x.part * m /\ x.of \in Nat \ {0} /\ x.part \in Nat
  <2>1. x.of \in Nat \ {0} /\ x.part \in 0..x.of - 1
    BY DEF SampleIn
  <2>2. x.low = s + i /\ 0 * x.of = x.part * m
    BY <1>6 DEF SampleAs
  <2> QED BY <2>1, <2>2
<1>8. x.part = 0
  BY <1>1, <1>7, Z3
<1> QED BY <1>7, <1>8, Zenon DEF s

LEMMA ColorsAtPixel ==
    ASSUME NEW src, SourceTyped(src), NEW x, NEW y, Sampled(src, x, y), x.part = 0, y.part = 0
    PROVE  ColorsAt(src, x, y) = ColorAt(src, x.low, y.low)
<1> DEFINE c == ColorAt(src, x.low, y.low)
<1>1. ASSUME NEW channel \in {"r", "g", "b", "a"}
      PROVE  ChannelAt(src, x, y, channel) = c[channel]
  <2> DEFINE v == [q \in Around(x, y) |-> ColorAt(src, q[1], q[2])[channel]]
  <2>1. ASSUME NEW q \in Around(x, y)
        PROVE  v[q] \in Byte
    <3> DEFINE n == q[1] + q[2] * src.w
    <3>1. v[q] = Shown(src.format, src.px[n])[channel]
      BY Zenon DEF ColorAt
    <3>2. n \in DOMAIN src.px
      BY AroundInside
    <3> HIDE DEF n, v
    <3>3. src.format \in Formats /\ src.px[n] \in PixelsOf(src.format)
      BY <3>2 DEF SourceTyped
    <3>4. Shown(src.format, src.px[n]) \in [r : Byte, g : Byte, b : Byte, a : Byte]
      BY <3>3, ShownBytes
    <3> QED BY <3>1, <3>4
  <2>2. v[<<x.low, y.low>>] = c[channel]
    <3>1. <<x.low, y.low>> \in Around(x, y)
      BY DEF Around
    <3>2. v[<<x.low, y.low>>] = ColorAt(src, <<x.low, y.low>>[1], <<x.low, y.low>>[2])[channel]
      BY <3>1, Zenon
    <3> QED BY <3>2
  <2> HIDE DEF v
  <2>3. SampleIn(x, src.w) /\ SampleIn(y, src.h)
    BY Zenon DEF Sampled
  <2>4. Interpolated(x, y, v) = v[<<x.low, y.low>>]
    BY <2>1, <2>3, InterpolatedAtPixel
  <2> QED BY <2>2, <2>4, Zenon DEF ChannelAt, v
<1>2. ColorsAt(src, x, y) = [r |-> c.r, g |-> c.g, b |-> c.b, a |-> c.a]
  BY <1>1, Zenon DEF ColorsAt
<1>3. c = [r |-> c.r, g |-> c.g, b |-> c.b, a |-> c.a]
  BY DEF ColorAt, Shown
<1> QED BY <1>2, <1>3, Zenon

LEMMA AsWriteFields ==
    ASSUME NEW R \in Stretches, NEW X, NEW Y
    PROVE  LET W == AsWrite(R, X, Y) IN
           /\ W.sx = X.s /\ W.sy = Y.s /\ W.sw = X.n /\ W.sh = Y.n /\ W.dx = X.d /\ W.dy = Y.m
           /\ (/\ X.s \in Int /\ Y.s \in Int /\ X.n \in Int /\ Y.n \in Int /\ X.d \in Int
               /\ Y.m \in Int) => W \in [StretchNames -> Int]
<1>1. R \in [StretchNames -> Int]
  BY StretchFields
<1> QED BY <1>1 DEF AsWrite, StretchNames

LEMMA SameSizeAsked ==
    ASSUME NEW src, SourceTyped(src), NEW R \in Stretches, ExactCut(R), NEW p \in Positions,
           ClippedX(src, R).ok, ClippedY(src, R).ok,
           SameSize(ClippedX(src, R), ClippedY(src, R)),
           ClippedY(src, R).m = ClippedY(src, R).d, NEW cut \in BOOLEAN
    PROVE  LET W == AsWrite(R, ClippedX(src, R), ClippedY(src, R)) IN
           /\ W \in [StretchNames -> Int]
           /\ Destined(src, W, p) <=> Wanted(src, R, p)
           /\ Wanted(src, R, p) => ScaledColor(src, R, p, cut) = ColorFor(src, W, p)
<1> DEFINE X == ClippedX(src, R)
          Y == ClippedY(src, R)
          W == AsWrite(R, X, Y)
          i == p[1] - X.d
          j == p[2] - Y.d
<1>1. /\ Corrected(X, src.w, Width) /\ Corrected(Y, src.h, Height)
      /\ Wanted(src, R, p) <=> Within(X, p[1]) /\ Within(Y, p[2])
  BY StretchPlaces
<1>2. Wanted(src, R, p) => /\ i \in 0..X.m - 1 /\ j \in 0..Y.m - 1
                           /\ SampledColor(src, X, Y, cut, i, j, ScaledColor(src, R, p, cut))
  BY ScaledColorSampled
<1>3. X.n = X.m /\ Y.n = Y.m /\ Y.m = Y.d
  BY DEF SameSize
<1> HIDE DEF X, Y
<1>4. /\ X.s \in Nat /\ Y.s \in Nat /\ X.n \in Nat \ {0} /\ Y.n \in Nat \ {0} /\ X.d \in Nat
      /\ Y.m \in Nat \ {0} /\ Y.d \in Nat /\ X.s + X.n <= src.w /\ Y.s + Y.n <= src.h
  BY <1>1 DEF Corrected, ScaledAxis
<1>5. /\ W.sx = X.s /\ W.sy = Y.s /\ W.sw = X.n /\ W.sh = Y.n /\ W.dx = X.d /\ W.dy = Y.d
      /\ W \in [StretchNames -> Int]
  BY <1>3, <1>4, AsWriteFields
<1> HIDE DEF W
<1>6. src.w \in Nat /\ src.h \in Nat /\ p[1] \in Int /\ p[2] \in Int
  <2>1. p[1] \in 0..Width - 1 /\ p[2] \in 0..Height - 1
    BY PositionNumber
  <2> QED BY <2>1, Sizes DEF SourceTyped
<1>7. Legal(src, W)
  <2>1. CheckAxis(W.sx, W.sw, src.w)
    BY <1>3, <1>4, <1>5, <1>6 DEF CheckAxis
  <2>2. CheckAxis(W.sy, W.sh, src.h)
    BY <1>3, <1>4, <1>5, <1>6 DEF CheckAxis
  <2> QED BY <2>1, <2>2, Zenon DEF Legal
<1>8. Destined(src, W, p) <=> Wanted(src, R, p)
  <2>1. p \in Region(W.dx, W.dy, W.sw, W.sh) <=> Within(X, p[1]) /\ Within(Y, p[2])
    BY <1>3, <1>5, Zenon DEF Region, Within
  <2> QED BY <1>1, <1>7, <2>1, Zenon DEF Destined
<1>9. ASSUME Wanted(src, R, p)
      PROVE  ScaledColor(src, R, p, cut) = ColorFor(src, W, p)
  <2>1. PICK x, y : /\ Sampled(src, x, y) /\ ScaledColor(src, R, p, cut) = ColorsAt(src, x, y)
                    /\ SampleAs(Along(X, cut, src.w, i), x) /\ SampleAs(Along(Y, cut, src.h, j), y)
    BY <1>2, <1>9, Zenon DEF SampledColor
  <2>2. SampleIn(x, src.w) /\ SampleIn(y, src.h) /\ ScaledAxis(X, src.w) /\ ScaledAxis(Y, src.h)
    BY <1>1, <2>1, Zenon DEF Sampled, Corrected
  <2>3. i \in Int /\ j \in Int
    BY <1>4, <1>6
  <2>4. x.low = X.s + i /\ x.part = 0 /\ y.low = Y.s + j /\ y.part = 0
    <3> HIDE DEF i, j
    <3> QED BY <1>3, <2>1, <2>2, <2>3, AlongSame
  <2>5. ScaledColor(src, R, p, cut) = ColorAt(src, x.low, y.low)
    BY <2>1, <2>4, ColorsAtPixel
  <2>6. x.low = W.sx + p[1] - W.dx /\ y.low = W.sy + p[2] - W.dy
    BY <1>4, <1>5, <1>6, <2>4
  <2> QED BY <2>5, <2>6, Zenon DEF ColorFor
<1> QED BY <1>5, <1>8, <1>9 DEF W, X, Y

(* A scaled source in its place.                                           *)
AtOrigin(A, X) == A.s = 0 /\ A.n = X.m /\ A.d = X.d

LEMMA ScaledPlaces ==
    ASSUME NEW src, NEW px, NEW X, NEW Y, NEW f, NEW cut, NEW from,
           Corrected(X, from, Width), NEW into, Corrected(Y, into, Height),
           NEW A, AtOrigin(A, X), NEW B, AtOrigin(B, Y), NEW p \in Positions
    PROVE  LET S == Scaled(src, px, X, Y, f, cut)
               at == Placed(S, A, B, FALSE)
               n == Number(p[1], p[2])
               in == Within(X, p[1]) /\ Within(Y, p[2]) IN
           /\ n \in DOMAIN at <=> in
           /\ in => /\ at[n] \in DOMAIN S.px
                    /\ S.px[at[n]] = ScaledPixel(src, px, X, Y, f, cut, p[1] - X.d, p[2] - Y.d)
<1> DEFINE S == Scaled(src, px, X, Y, f, cut)
          at == Placed(S, A, B, FALSE)
          n == Number(p[1], p[2])
          i == p[1] - X.d
          j == p[2] - Y.d
<1>1. /\ X.m \in Nat \ {0} /\ X.d \in Nat /\ X.d + X.m <= Width
      /\ Y.m \in Nat \ {0} /\ Y.d \in Nat /\ Y.d + Y.m <= Height
  BY DEF Corrected, ScaledAxis
<1>2. S.w = X.m
  BY ScaledShape
<1>3. p[1] \in Int /\ p[2] \in Int
  <2>1. p[1] \in 0..Width - 1 /\ p[2] \in 0..Height - 1
    BY PositionNumber
  <2> QED BY <2>1, Sizes
<1> HIDE DEF S
<1>4. /\ n \in DOMAIN at
           <=> p[1] \in A.d..A.d + A.n - 1 /\ p[2] \in B.d..B.d + B.n - 1
      /\ n \in DOMAIN at => at[n] = (A.s + p[1] - A.d) + (B.s + p[2] - B.d) * S.w
  <2>1. /\ S.w \in Int /\ A.s \in Int /\ A.d \in Nat /\ A.n \in Int /\ A.d + A.n <= Width
        /\ B.s \in Int /\ B.d \in Nat /\ B.n \in Int /\ B.d + B.n <= Height
    BY <1>1, <1>2 DEF AtOrigin
  <2> QED BY <2>1, PlacedAt, Zenon
<1> HIDE DEF n, at
<1>5. n \in DOMAIN at <=> Within(X, p[1]) /\ Within(Y, p[2])
  BY <1>4, Zenon DEF Within, AtOrigin
<1>6. ASSUME Within(X, p[1]), Within(Y, p[2])
      PROVE  /\ at[n] \in DOMAIN S.px
             /\ S.px[at[n]] = ScaledPixel(src, px, X, Y, f, cut, i, j)
  <2>1. A.s + p[1] - A.d = i /\ B.s + p[2] - B.d = j
    BY <1>1, <1>3 DEF AtOrigin
  <2>2. i \in 0..X.m - 1 /\ j \in 0..Y.m - 1
    BY <1>1, <1>3, <1>6 DEF Within
  <2> HIDE DEF i, j
  <2>3. at[n] = i + j * X.m
    BY <1>2, <1>4, <1>5, <1>6, <2>1, Zenon
  <2>4. i + j * X.m \in DOMAIN S.px /\ S.px[i + j * X.m] = ScaledPixel(src, px, X, Y, f, cut, i, j)
    BY <1>1, <2>2, ScaledAt DEF S
  <2> QED BY <2>3, <2>4, Zenon
<1> QED BY <1>5, <1>6, Zenon DEF S, at, n, i, j

-----------------------------------------------------------------------------
(* writeStretch() paints the scaled colors asked for and stores no other   *)
(* pixel, unless a recorded defect is met.                                 *)
Converted(src) ==
    [n \in DOMAIN src.px |-> IF Cut(src) THEN Convert(src.format, format, src.px[n]) ELSE src.px[n]]

LEMMA ConvertedShows ==
    ASSUME format \in Formats, NEW src, SourceTyped(src),
           ~(src.format # format /\ {src.format, format} = Formats3), NEW n \in DOMAIN src.px
    PROVE  /\ Converted(src)[n] \in PixelsOf(format)
           /\ Shown(format, Converted(src)[n]) = Reduced(format, Shown(src.format, src.px[n]))
<1> DEFINE f == src.format
          q == src.px[n]
<1>1. f \in Formats /\ q \in PixelsOf(f)
  BY DEF SourceTyped
<1>2. Converted(src)[n] = IF needsConversion(f, format) THEN Convert(f, format, q) ELSE q
  BY DEF Converted, Cut
<1>3. {f, format} # Formats3
  BY DEF Formats3
<1> HIDE DEF f, q
<1>4. CASE needsConversion(f, format)
  BY <1>1, <1>2, <1>4, ConversionKeepsColors DEF f, q
<1>5. CASE ~needsConversion(f, format)
  <2>1. Shown(format, q) = Reduced(format, Shown(f, q))
    BY <1>1, <1>3, <1>5, UnconvertedShowsTheSame
  <2>2. getFormatBpp(f) = getFormatBpp(format)
    BY <1>5 DEF needsConversion
  <2>3. q \in PixelsOf(format)
    BY <1>1, <2>2, Zenon DEF PixelsOf
  <2> QED BY <1>2, <1>5, <2>1, <2>3, Zenon DEF f, q
<1> QED BY <1>4, <1>5

(* The stored pixels of a source that was scaled.                          *)
LEMMA ScaledStored ==
    ASSUME format \in Formats, NEW src, SourceTyped(src), NEW R \in Stretches, ExactCut(R),
           ClippedX(src, R).ok, ClippedY(src, R).ok,
           ~(src.format # format /\ {src.format, format} = Formats3),
           NEW A, AtOrigin(A, ClippedX(src, R)), NEW B, AtOrigin(B, ClippedY(src, R)),
           NEW p \in Positions
    PROVE  LET X == ClippedX(src, R)  Y == ClippedY(src, R)
               S == Scaled(src, Converted(src), X, Y, format, Cut(src))
               stored == Stored(S, Placed(S, A, B, FALSE))
               n == Number(p[1], p[2]) IN
           /\ n \in DOMAIN stored <=> Wanted(src, R, p)
           /\ Wanted(src, R, p) =>
                  /\ stored[n] \in PixelsOf(format)
                  /\ Shown(format, stored[n]) = Reduced(format, ScaledColor(src, R, p, Cut(src)))
<1> DEFINE X == ClippedX(src, R)
          Y == ClippedY(src, R)
          cut == Cut(src)
          px == Converted(src)
          S == Scaled(src, px, X, Y, format, cut)
          at == Placed(S, A, B, FALSE)
          n == Number(p[1], p[2])
          i == p[1] - X.d
          j == p[2] - Y.d
          c == ScaledColor(src, R, p, cut)
<1>1. /\ Corrected(X, src.w, Width) /\ Corrected(Y, src.h, Height)
      /\ Wanted(src, R, p) <=> Within(X, p[1]) /\ Within(Y, p[2])
  BY StretchPlaces
<1>2. cut \in BOOLEAN
  BY DEF Cut, needsConversion
<1>3. Wanted(src, R, p) =>
        i \in 0..X.m - 1 /\ j \in 0..Y.m - 1 /\ SampledColor(src, X, Y, cut, i, j, c)
  <2> HIDE DEF cut
  <2> QED BY <1>2, ScaledColorSampled
<1>4. \A k \in DOMAIN src.px :
          px[k] \in PixelsOf(format) /\ Shown(format, px[k]) = Reduced(format, Shown(src.format, src.px[k]))
  BY ConvertedShows
<1>5. AtOrigin(A, X) /\ AtOrigin(B, Y)
  OBVIOUS
<1> HIDE DEF X, Y, cut, px
<1>6. ScaledAxis(X, src.w) /\ ScaledAxis(Y, src.h)
  BY <1>1, Zenon DEF Corrected
<1>7. SourceTyped(S)
  BY <1>2, <1>4, <1>6, ScaledTyped
<1>8. S.format = format
  BY ScaledShape
<1>9. /\ n \in DOMAIN at <=> Wanted(src, R, p)
      /\ Wanted(src, R, p) => /\ at[n] \in DOMAIN S.px
                              /\ S.px[at[n]] = ScaledPixel(src, px, X, Y, format, cut, i, j)
  BY <1>1, <1>5, ScaledPlaces, Zenon
<1>10. Wanted(src, R, p) =>
          Shown(format, ScaledPixel(src, px, X, Y, format, cut, i, j)) = Reduced(format, c)
  <2> SUFFICES ASSUME Wanted(src, R, p)
               PROVE  Shown(format, ScaledPixel(src, px, X, Y, format, cut, i, j)) = Reduced(format, c)
    OBVIOUS
  <2>1. PICK x, y : /\ Sampled(src, x, y) /\ c = ColorsAt(src, x, y)
                    /\ SampleAs(Along(X, cut, src.w, i), x) /\ SampleAs(Along(Y, cut, src.h, j), y)
    BY <1>3, Zenon DEF SampledColor
  <2>2. i \in 0..X.m - 1 /\ j \in 0..Y.m - 1
    BY <1>3
  <2> HIDE DEF i, j, c
  <2>3. Shown(format, ScaledPixel(src, px, X, Y, format, cut, i, j))
          = Reduced(format, ColorsAt(src, x, y))
    BY <1>2, <1>4, <1>6, <2>1, <2>2, ScaledShows
  <2> QED BY <2>1, <2>3, Zenon
<1> HIDE DEF S, at, n, i, j, c
<1>11. DOMAIN Stored(S, at) = DOMAIN at
  BY DEF Stored
<1>12. ASSUME Wanted(src, R, p)
       PROVE  /\ Stored(S, at)[n] \in PixelsOf(format)
              /\ Shown(format, Stored(S, at)[n]) = Reduced(format, c)
  <2> DEFINE q == S.px[at[n]]
  <2>1. /\ Stored(S, at)[n] \in PixelsOf(format)
        /\ Shown(format, Stored(S, at)[n]) = Reduced(format, Shown(S.format, S.px[at[n]]))
    BY <1>7, <1>9, <1>12, StoredShows
  <2>2. q \in PixelsOf(format)
    BY <1>7, <1>8, <1>9, <1>12 DEF SourceTyped
  <2>3. Shown(format, q) = Reduced(format, c)
    BY <1>9, <1>10, <1>12, Zenon
  <2> HIDE DEF q
  <2>4. Reduced(format, Shown(format, q)) = Shown(format, q)
    BY <2>2, ShownBytes
  <2> QED BY <1>8, <2>1, <2>3, <2>4, Zenon DEF q
<1> QED BY <1>9, <1>11, <1>12, Zenon DEF S, at, n, c, X, Y, cut, px

LEMMA ClippedAtOrigin ==
    ASSUME NEW src, NEW R
    PROVE  /\ AtOrigin([ClippedX(src, R) EXCEPT !.s = 0, !.n = ClippedX(src, R).m], ClippedX(src, R))
           /\ AtOrigin([ClippedY(src, R) EXCEPT !.s = 0, !.n = ClippedY(src, R).m], ClippedY(src, R))
  BY DEF AtOrigin, ClippedX, ClippedY, StretchAxis

LEMMA StretchedShows ==
    ASSUME Painting, met = {}, NEW src, SourceTyped(src), NEW R \in Stretches,
           StretchDefects(src, R) = {}, WriteDefects(src, R) = {}, NEW p \in Positions
    PROVE  /\ Wanted(src, R, p) =>
                Colored(StretchedPixels(src, R), p,
                        AskedColor(src, ScaledColor(src, R, p, Cut(src)), p, 255))
           /\ ~Wanted(src, R, p) => Number(p[1], p[2]) \notin DOMAIN StretchedPixels(src, R)
<1> DEFINE X == ClippedX(src, R)
          Y == ClippedY(src, R)
          n == Number(p[1], p[2])
          cut == Cut(src)
          c == ScaledColor(src, R, p, cut)
          pixels == StretchedPixels(src, R)
<1>1. /\ ExactCut(R)
      /\ SameSize(X, Y) => Y.m = Y.d
      /\ ~SameSize(X, Y) => /\ ~(src.format # format /\ {src.format, format} = Formats3)
                            /\ ~(AlphaOnly(src) /\ HasAlpha)
  <2>1. SameSize(X, Y) => Y.m = Y.d
    BY DEF StretchDefects
  <2>2. ExactCut(R)
    BY DEF StretchDefects, ExactCut
  <2>3. ~SameSize(X, Y) => /\ ~(src.format # format /\ {src.format, format} = Formats3)
                           /\ ~(AlphaOnly(src) /\ HasAlpha)
    BY DEF WriteDefects
  <2> QED BY <2>1, <2>2, <2>3
<1>2. format \in Formats
  BY ImagesAssumption DEF Painting
<1>3. CASE ~(X.ok /\ Y.ok)
  <2>1. pixels = Nothing
    BY <1>3, Zenon DEF StretchedPixels
  <2>2. ~Wanted(src, R, p)
    BY <1>1, <1>3, StretchPlaces
  <2>3. DOMAIN Nothing = {}
    BY DEF Nothing
  <2> QED BY <2>1, <2>2, <2>3, Zenon
<1>4. CASE X.ok /\ Y.ok /\ SameSize(X, Y)
  <2> DEFINE W == AsWrite(R, X, Y)
  <2>1. pixels = WrittenPixels(src, W)
    BY <1>4, Zenon DEF StretchedPixels
  <2>2. cut \in BOOLEAN
    BY DEF Cut, needsConversion
  <2>3. /\ W \in [StretchNames -> Int]
        /\ Destined(src, W, p) <=> Wanted(src, R, p)
        /\ Wanted(src, R, p) => c = ColorFor(src, W, p)
    <3> HIDE DEF cut
    <3> QED BY <1>1, <1>4, <2>2, SameSizeAsked
  <2> HIDE DEF W, pixels, c
  <2>4. \A name \in CopyNames : W[name] \in Int
    BY <2>3 DEF CopyNames, StretchNames
  <2>5. /\ Destined(src, W, p) =>
             Colored(WrittenPixels(src, W), p, AskedColor(src, ColorFor(src, W, p), p, 255))
        /\ ~Destined(src, W, p) => n \notin DOMAIN WrittenPixels(src, W)
    BY <2>4, WrittenShows, Zenon
  <2> QED BY <2>1, <2>3, <2>5, Zenon DEF pixels, c
<1>5. CASE X.ok /\ Y.ok /\ ~SameSize(X, Y) /\ ~AlphaOnly(src)
  <2> DEFINE A == [X EXCEPT !.s = 0, !.n = X.m]
            B == [Y EXCEPT !.s = 0, !.n = Y.m]
            S == Scaled(src, Converted(src), X, Y, format, cut)
            stored == Stored(S, Placed(S, A, B, FALSE))
  <2>1. pixels = stored
    BY <1>5, Zenon DEF StretchedPixels, Converted
  <2>2. AtOrigin(A, X) /\ AtOrigin(B, Y)
    BY ClippedAtOrigin
  <2>3. /\ n \in DOMAIN stored <=> Wanted(src, R, p)
        /\ Wanted(src, R, p) =>
               stored[n] \in PixelsOf(format) /\ Shown(format, stored[n]) = Reduced(format, c)
    <3> HIDE DEF A, B
    <3> QED BY <1>1, <1>2, <1>5, <2>2, ScaledStored, Zenon
  <2>4. AskedColor(src, c, p, 255) = Reduced(format, c)
    BY <1>5, Zenon DEF AskedColor
  <2> HIDE DEF stored, pixels, c
  <2> QED BY <2>1, <2>3, <2>4, Zenon DEF Colored, n, pixels, c
<1>6. CASE X.ok /\ Y.ok /\ ~SameSize(X, Y) /\ AlphaOnly(src)
  <2>1. pixels = Nothing
    BY <1>1, <1>6, Zenon DEF StretchedPixels
  <2>2. DOMAIN Nothing = {}
    BY DEF Nothing
  <2>3. AskedColor(src, c, p, 255) = canvas[p]
    BY <1>1, <1>6, Zenon DEF AskedColor
  <2> QED BY <2>1, <2>2, <2>3, Zenon DEF Colored
<1> QED BY <1>3, <1>4, <1>5, <1>6, Zenon

(* A rectangle that is not legal is refused.                               *)
Fitting(src, R) == Legal(src, R) /\ R.dw > 0 /\ R.dh > 0

LEMMA UnfitRefused ==
    ASSUME NEW src, SourceTyped(src), NEW R \in Stretches, ~Fitting(src, R)
    PROVE  ~(ClippedX(src, R).ok /\ ClippedY(src, R).ok)
<1>1. /\ ClippedX(src, R).ok => R.dw > 0 /\ CheckAxis(R.sx, R.sw, src.w)
      /\ ClippedY(src, R).ok => R.dh > 0 /\ CheckAxis(R.sy, R.sh, src.h)
  BY Zenon DEF ClippedX, ClippedY, StretchAxis
<1> QED BY <1>1, Zenon DEF Fitting, Legal

LEMMA WriteStretchPaints ==
    ASSUME Painting, NEW src, SourceTyped(src), NEW R \in Stretches, WriteStretch(src, R)
    PROVE  Painting'
<1> DEFINE pixels == StretchedPixels(src, R)
          cut == Cut(src)
          asked == ScaledTo(src, R, cut, 255, AskedColor)
          defects == IF Fitting(src, R) THEN StretchDefects(src, R) \cup WriteDefects(src, R) ELSE {}
<1>1. Call(pixels, asked, defects)
  BY Zenon DEF WriteStretch, Fitting
<1>2. ASSUME NEW p \in Positions
      PROVE  /\ p \in DOMAIN asked <=> Wanted(src, R, p)
             /\ p \in DOMAIN asked => asked[p] = AskedColor(src, ScaledColor(src, R, p, cut), p, 255)
  <2> HIDE DEF cut
  <2> DEFINE small == ~Legal(src, R) \/ R.sw <= 0 \/ R.sh <= 0 \/ R.dw <= 0 \/ R.dh <= 0
            in == Region(R.dx, R.dy, R.dw, R.dh)
  <2>1. Wanted(src, R, p) <=> ~small /\ p \in in
    <3>1. R.sw \in Int /\ R.sh \in Int /\ R.dw \in Int /\ R.dh \in Int
      BY StretchFields DEF StretchNames
    <3> QED BY <3>1 DEF Wanted
  <2>2. CASE ~small
    <3>1. asked = [q \in in |-> AskedColor(src, ScaledColor(src, R, q, cut), q, 255)]
      BY <2>2, Zenon DEF ScaledTo
    <3> HIDE DEF asked, small, in
    <3> QED BY <2>1, <2>2, <3>1
  <2>3. CASE small
    <3>1. asked = Nothing
      BY <2>3, Zenon DEF ScaledTo
    <3>2. DOMAIN Nothing = {}
      BY DEF Nothing
    <3> HIDE DEF small, asked
    <3> QED BY <2>1, <2>3, <3>1, <3>2, Zenon
  <2> QED BY <2>2, <2>3
<1> HIDE DEF asked
<1>3. ASSUME met = {}, defects = {}, NEW p \in Positions
      PROVE  Colored(pixels, p, IF p \in DOMAIN asked THEN asked[p] ELSE canvas[p])
  <2>1. /\ Wanted(src, R, p) =>
             Colored(pixels, p, AskedColor(src, ScaledColor(src, R, p, cut), p, 255))
        /\ ~Wanted(src, R, p) => Number(p[1], p[2]) \notin DOMAIN pixels
    <3>1. CASE Fitting(src, R)
      <4>1. StretchDefects(src, R) = {} /\ WriteDefects(src, R) = {}
        BY <1>3, <3>1
      <4> QED BY <1>3, <4>1, StretchedShows, Zenon
    <3>2. CASE ~Fitting(src, R)
      <4>1. pixels = Nothing
        BY <3>2, UnfitRefused, Zenon DEF StretchedPixels
      <4>2. DOMAIN Nothing = {}
        BY DEF Nothing
      <4>3. ~Wanted(src, R, p)
        BY <3>2, Zenon DEF Fitting, Wanted
      <4> QED BY <4>1, <4>2, <4>3, Zenon
    <3> QED BY <3>1, <3>2
  <2> HIDE DEF pixels, cut
  <2>2. CASE p \in DOMAIN asked
    BY <1>2, <2>1, <2>2, Zenon
  <2>3. CASE p \notin DOMAIN asked
    BY <1>2, <2>1, <2>3, Zenon DEF Colored
  <2> QED BY <2>2, <2>3
<1> HIDE DEF defects, pixels
<1> QED BY <1>1, <1>3, CallPaints

-----------------------------------------------------------------------------
(* blitStretch() paints the scaled colors mixed with those that were there. *)
BlitStretched(src, R, alpha) ==
    LET X == ClippedX(src, R)  Y == ClippedY(src, R)
        scaled == Scaled(src, src.px, X, Y, src.format, FALSE) IN
    IF ~X.ok \/ ~Y.ok THEN Nothing
    ELSE IF SameSize(X, Y) THEN BlittedPixels(src, AsWrite(R, X, Y), alpha)
    ELSE BlittedPixels(scaled, [R EXCEPT !.sx = 0, !.sy = 0, !.sw = X.m, !.sh = Y.m,
                                         !.dx = X.d, !.dy = Y.d], alpha)

(* The unused byte of the source, if it is 255 everywhere, is scaled to 255. *)
LEMMA ScaledOpaque ==
    ASSUME NEW src, SourceTyped(src), NEW X, NEW Y, ScaledAxis(X, src.w), ScaledAxis(Y, src.h),
           NEW alpha, \A n \in DOMAIN src.px : OpaquePixel(src, src.px[n], alpha),
           NEW i \in 0..X.m - 1, NEW j \in 0..Y.m - 1
    PROVE  OpaquePixel(src, ScaledPixel(src, src.px, X, Y, src.format, FALSE, i, j), alpha)
<1> SUFFICES ASSUME src.format \in Formats4 \ AlphaFormats, alpha \notin {0, 255}
             PROVE  ScaledPixel(src, src.px, X, Y, src.format, FALSE, i, j)[AlphaIndex(src.format)] = 255
  BY Zenon DEF OpaquePixel
<1> DEFINE f == src.format
          k == AlphaIndex(f)
          x == Along(X, FALSE, src.w, i)
          y == Along(Y, FALSE, src.h, j)
          v == [q \in Around(x, y) |-> src.px[q[1] + q[2] * src.w][k]]
<1>1. k \in 0..getFormatBpp(f) - 1
  <2>1. f \in Formats /\ f \in Formats4
    BY DEF SourceTyped
  <2> QED BY <2>1, Channels
<1>2. SampleIn(x, src.w) /\ SampleIn(y, src.h)
  <2>1. src.w \in Nat /\ src.h \in Nat /\ FALSE \in BOOLEAN
    BY DEF SourceTyped
  <2> QED BY <2>1, AlongInside, Zenon
<1>3. ScaledPixel(src, src.px, X, Y, f, FALSE, i, j)[k] = Interpolated(x, y, v)
  BY <1>1, Zenon DEF ScaledPixel, ByteAt
<1>4. \A n \in DOMAIN src.px : src.px[n][k] = 255
  BY DEF OpaquePixel
<1> HIDE DEF x, y, k
<1>5. ASSUME NEW q \in Around(x, y)
      PROVE  v[q] = 255
  <2> DEFINE n == q[1] + q[2] * src.w
  <2>1. v[q] = src.px[n][k]
    OBVIOUS
  <2>2. n \in DOMAIN src.px
    BY <1>2, AroundInside, Zenon DEF Sampled
  <2> HIDE DEF n, v
  <2> QED BY <1>4, <2>1, <2>2, Zenon
<1>6. 255 \in Byte
  BY DEF Byte
<1> HIDE DEF v
<1>7. Interpolated(x, y, v) = 255
  BY <1>2, <1>5, <1>6, InterpolatedConstant
<1> QED BY <1>3, <1>7, Zenon DEF k

LEMMA ScaledBlitted ==
    ASSUME Painting, met = {}, NEW src, SourceTyped(src), NEW R \in Stretches, ExactCut(R),
           ClippedX(src, R).ok, ClippedY(src, R).ok, NEW alpha \in Byte,
           \A n \in DOMAIN src.px : OpaquePixel(src, src.px[n], alpha), NEW p \in Positions
    PROVE  LET X == ClippedX(src, R)  Y == ClippedY(src, R)
               S == Scaled(src, src.px, X, Y, src.format, FALSE)
               W == [R EXCEPT !.sx = 0, !.sy = 0, !.sw = X.m, !.sh = Y.m, !.dx = X.d, !.dy = Y.d]
               pixels == BlittedPixels(S, W, alpha) IN
           /\ Wanted(src, R, p) =>
                Colored(pixels, p, BlendedColor(src, ScaledColor(src, R, p, FALSE), p, alpha))
           /\ ~Wanted(src, R, p) => Number(p[1], p[2]) \notin DOMAIN pixels
<1> DEFINE X == ClippedX(src, R)
          Y == ClippedY(src, R)
          f == src.format
          cut == FALSE
          S == Scaled(src, src.px, X, Y, f, cut)
          W == [R EXCEPT !.sx = 0, !.sy = 0, !.sw = X.m, !.sh = Y.m, !.dx = X.d, !.dy = Y.d]
          i == p[1] - X.d
          j == p[2] - Y.d
          c == ScaledColor(src, R, p, cut)
          pixel(a, b) == ScaledPixel(src, src.px, X, Y, f, cut, a, b)
<1>1. /\ Corrected(X, src.w, Width) /\ Corrected(Y, src.h, Height)
      /\ Wanted(src, R, p) <=> Within(X, p[1]) /\ Within(Y, p[2])
  BY StretchPlaces
<1>2. cut \in BOOLEAN /\ f \in Formats /\ \A n \in DOMAIN src.px : src.px[n] \in PixelsOf(f)
  BY DEF SourceTyped
<1>3. Wanted(src, R, p) =>
        i \in 0..X.m - 1 /\ j \in 0..Y.m - 1 /\ SampledColor(src, X, Y, cut, i, j, c)
  <2> HIDE DEF cut
  <2> QED BY <1>2, ScaledColorSampled
<1>0. \A a \in 0..X.m - 1, b \in 0..Y.m - 1 : OpaquePixel(src, pixel(a, b), alpha)
  <2>1. ScaledAxis(X, src.w) /\ ScaledAxis(Y, src.h)
    BY <1>1, Zenon DEF Corrected
  <2> HIDE DEF X, Y
  <2> QED BY <2>1, ScaledOpaque
<1> HIDE DEF X, Y, cut
<1>4. /\ ScaledAxis(X, src.w) /\ ScaledAxis(Y, src.h) /\ X.m \in Nat \ {0} /\ Y.m \in Nat \ {0}
      /\ X.d \in Nat /\ Y.d \in Nat
  BY <1>1, Zenon DEF Corrected, ScaledAxis
<1>5. SourceTyped(S)
  <2> HIDE DEF f
  <2> QED BY <1>2, <1>4, ScaledTyped
<1>6. S.format = f /\ S.w = X.m /\ S.h = Y.m
  BY ScaledShape
<1>7. /\ W \in [StretchNames -> Int] /\ W.sx = 0 /\ W.sy = 0 /\ W.sw = X.m /\ W.sh = Y.m
      /\ W.dx = X.d /\ W.dy = Y.d
  <2>1. X.m \in Int /\ Y.m \in Int /\ X.d \in Int /\ Y.d \in Int /\ R \in [StretchNames -> Int]
    BY <1>4, StretchFields
  <2>2. 0 \in Int
    OBVIOUS
  <2>3. W \in [StretchNames -> Int]
    BY <2>1, <2>2 DEF StretchNames
  <2> QED BY <2>1, <2>3 DEF StretchNames
<1>8. \A n \in DOMAIN S.px : OpaquePixel(S, S.px[n], alpha)
  <2>1. \A n \in DOMAIN S.px : \E a \in 0..X.m - 1, b \in 0..Y.m - 1 : S.px[n] = pixel(a, b)
    BY <1>4, ScaledFrom
  <2> HIDE DEF S, pixel
  <2>2. \A n \in DOMAIN S.px : OpaquePixel(src, S.px[n], alpha)
    BY <1>0, <2>1, Zenon
  <2> QED BY <1>6, <2>2 DEF OpaquePixel
<1>9. CopyNames \subseteq StretchNames
  BY DEF CopyNames, StretchNames
<1>10. Wanted(src, R, p) =>
         i + j * X.m \in DOMAIN S.px /\ S.px[i + j * X.m] = pixel(i, j)
  <2> HIDE DEF i, j
  <2> QED BY <1>3, <1>4, ScaledAt
<1>11. Wanted(src, R, p) => Shown(f, pixel(i, j)) = c
  <2> SUFFICES ASSUME Wanted(src, R, p)
               PROVE  Shown(f, pixel(i, j)) = c
    OBVIOUS
  <2>1. PICK x, y : /\ Sampled(src, x, y) /\ c = ColorsAt(src, x, y)
                    /\ SampleAs(Along(X, cut, src.w, i), x) /\ SampleAs(Along(Y, cut, src.h, j), y)
    BY <1>3, Zenon DEF SampledColor
  <2>2. i \in 0..X.m - 1 /\ j \in 0..Y.m - 1
    BY <1>3
  <2> HIDE DEF i, j, c
  <2>3. Shown(f, pixel(i, j)) = ColorsAt(src, x, y)
    BY <1>2, <1>4, <2>1, <2>2, ScaledAloneShows
  <2> QED BY <2>1, <2>3, Zenon
<1> HIDE DEF S, W, c, pixel, f
<1>12. p[1] \in Int /\ p[2] \in Int
  <2>1. p[1] \in 0..Width - 1 /\ p[2] \in 0..Height - 1
    BY PositionNumber
  <2> QED BY <2>1, Sizes
<1>13. Destined(S, W, p) <=> Wanted(src, R, p)
  <2>1. Legal(S, W)
    BY <1>4, <1>6, <1>7 DEF Legal, CheckAxis
  <2>2. p \in Region(W.dx, W.dy, W.sw, W.sh) <=> Within(X, p[1]) /\ Within(Y, p[2])
    BY <1>7, Zenon DEF Region, Within
  <2> QED BY <1>1, <2>1, <2>2, Zenon DEF Destined
<1>14. Wanted(src, R, p) => ColorFor(S, W, p) = c
  <2>1. W.sx + p[1] - W.dx = i /\ W.sy + p[2] - W.dy = j
    BY <1>4, <1>7, <1>12
  <2> HIDE DEF i, j
  <2>2. ColorFor(S, W, p) = Shown(S.format, S.px[i + j * S.w])
    BY <2>1, Zenon DEF ColorFor, ColorAt
  <2> QED BY <1>6, <1>10, <1>11, <2>2, Zenon
<1>15. BlendedColor(S, c, p, alpha) = BlendedColor(src, c, p, alpha)
  BY <1>6 DEF BlendedColor, AlphaOnly, f
<1>16. /\ Destined(S, W, p) =>
            Colored(BlittedPixels(S, W, alpha), p, BlendedColor(S, ColorFor(S, W, p), p, alpha))
       /\ ~Destined(S, W, p) => Number(p[1], p[2]) \notin DOMAIN BlittedPixels(S, W, alpha)
  BY <1>5, <1>7, <1>8, <1>9, BlittedShows, Zenon
<1>17. /\ Wanted(src, R, p) =>
            Colored(BlittedPixels(S, W, alpha), p, BlendedColor(src, c, p, alpha))
       /\ ~Wanted(src, R, p) => Number(p[1], p[2]) \notin DOMAIN BlittedPixels(S, W, alpha)
  BY <1>13, <1>14, <1>15, <1>16, Zenon
<1> QED BY <1>17, Zenon DEF S, W, c, X, Y, f, cut

LEMMA BlitStretchedShows ==
    ASSUME Painting, met = {}, NEW src, SourceTyped(src), NEW R \in Stretches, NEW alpha \in Byte,
           StretchDefects(src, R) = {}, ~UnusedByte(src, alpha), NEW p \in Positions
    PROVE  LET pixels == BlitStretched(src, R, alpha) IN
           /\ Wanted(src, R, p) =>
                Colored(pixels, p, BlendedColor(src, ScaledColor(src, R, p, FALSE), p, alpha))
           /\ ~Wanted(src, R, p) => Number(p[1], p[2]) \notin DOMAIN pixels
<1> DEFINE X == ClippedX(src, R)
          Y == ClippedY(src, R)
          cut == FALSE
          c == ScaledColor(src, R, p, cut)
          pixels == BlitStretched(src, R, alpha)
<1>1. ExactCut(R) /\ (SameSize(X, Y) => Y.m = Y.d)
  <2>1. SameSize(X, Y) => Y.m = Y.d
    BY DEF StretchDefects
  <2>2. ExactCut(R)
    BY DEF StretchDefects, ExactCut
  <2> QED BY <2>1, <2>2
<1>2. \A n \in DOMAIN src.px : OpaquePixel(src, src.px[n], alpha)
  BY NotUnused
<1>3. CASE ~(X.ok /\ Y.ok)
  <2>1. pixels = Nothing
    BY <1>3, Zenon DEF BlitStretched
  <2>2. ~Wanted(src, R, p)
    BY <1>1, <1>3, StretchPlaces
  <2>3. DOMAIN Nothing = {}
    BY DEF Nothing
  <2> QED BY <2>1, <2>2, <2>3, Zenon
<1>4. CASE X.ok /\ Y.ok /\ SameSize(X, Y)
  <2> DEFINE W == AsWrite(R, X, Y)
            fields == StretchNames
  <2>1. pixels = BlittedPixels(src, W, alpha)
    BY <1>4, Zenon DEF BlitStretched
  <2>2. cut \in BOOLEAN
    OBVIOUS
  <2>3. /\ W \in [StretchNames -> Int]
        /\ Destined(src, W, p) <=> Wanted(src, R, p)
        /\ Wanted(src, R, p) => c = ColorFor(src, W, p)
    <3> HIDE DEF cut
    <3> QED BY <1>1, <1>4, <2>2, SameSizeAsked
  <2> HIDE DEF W, pixels, c, cut
  <2>4. W \in [fields -> Int] /\ CopyNames \subseteq fields
    BY <2>3 DEF CopyNames, StretchNames
  <2> HIDE DEF fields
  <2>5. /\ Destined(src, W, p) =>
             Colored(BlittedPixels(src, W, alpha), p, BlendedColor(src, ColorFor(src, W, p), p, alpha))
        /\ ~Destined(src, W, p) => Number(p[1], p[2]) \notin DOMAIN BlittedPixels(src, W, alpha)
    BY <1>2, <2>4, BlittedShows, Zenon
  <2> QED BY <2>1, <2>3, <2>5, Zenon DEF pixels, c, cut
<1>5. CASE X.ok /\ Y.ok /\ ~SameSize(X, Y)
  <2> DEFINE S == Scaled(src, src.px, X, Y, src.format, FALSE)
            W == [R EXCEPT !.sx = 0, !.sy = 0, !.sw = X.m, !.sh = Y.m, !.dx = X.d, !.dy = Y.d]
            stored == BlittedPixels(S, W, alpha)
  <2>1. pixels = stored
    BY <1>5, Zenon DEF BlitStretched
  <2>2. /\ Wanted(src, R, p) => Colored(stored, p, BlendedColor(src, c, p, alpha))
        /\ ~Wanted(src, R, p) => Number(p[1], p[2]) \notin DOMAIN stored
    BY <1>1, <1>2, <1>5, ScaledBlitted, Zenon
  <2> HIDE DEF stored, pixels, c
  <2> QED BY <2>1, <2>2, Zenon DEF pixels, c
<1> QED BY <1>3, <1>4, <1>5, Zenon

LEMMA BlitStretchPaints ==
    ASSUME Painting, NEW src, SourceTyped(src), NEW R \in Stretches, NEW alpha \in Byte,
           BlitStretch(src, R, alpha)
    PROVE  Painting'
<1> DEFINE pixels == BlitStretched(src, R, alpha)
          cut == FALSE
          asked == ScaledTo(src, R, cut, alpha, BlendedColor)
          unused == IF UnusedByte(src, alpha) THEN {"padding"} ELSE {}
          defects == IF Fitting(src, R) THEN StretchDefects(src, R) \cup unused ELSE {}
<1>1. Call(pixels, asked, defects)
  BY Zenon DEF BlitStretch, BlitStretched, Fitting
<1>2. ASSUME NEW p \in Positions
      PROVE  /\ p \in DOMAIN asked <=> Wanted(src, R, p)
             /\ p \in DOMAIN asked =>
                    asked[p] = BlendedColor(src, ScaledColor(src, R, p, cut), p, alpha)
  <2> HIDE DEF cut
  <2> DEFINE small == ~Legal(src, R) \/ R.sw <= 0 \/ R.sh <= 0 \/ R.dw <= 0 \/ R.dh <= 0
            in == Region(R.dx, R.dy, R.dw, R.dh)
  <2>1. Wanted(src, R, p) <=> ~small /\ p \in in
    <3>1. R.sw \in Int /\ R.sh \in Int /\ R.dw \in Int /\ R.dh \in Int
      BY StretchFields DEF StretchNames
    <3> QED BY <3>1 DEF Wanted
  <2>2. CASE ~small
    <3>1. asked = [q \in in |-> BlendedColor(src, ScaledColor(src, R, q, cut), q, alpha)]
      BY <2>2, Zenon DEF ScaledTo
    <3> HIDE DEF asked, small, in
    <3> QED BY <2>1, <2>2, <3>1
  <2>3. CASE small
    <3>1. asked = Nothing
      BY <2>3, Zenon DEF ScaledTo
    <3>2. DOMAIN Nothing = {}
      BY DEF Nothing
    <3> HIDE DEF small, asked
    <3> QED BY <2>1, <2>3, <3>1, <3>2, Zenon
  <2> QED BY <2>2, <2>3
<1> HIDE DEF asked
<1>3. ASSUME met = {}, defects = {}, NEW p \in Positions
      PROVE  Colored(pixels, p, IF p \in DOMAIN asked THEN asked[p] ELSE canvas[p])
  <2>1. /\ Wanted(src, R, p) =>
             Colored(pixels, p, BlendedColor(src, ScaledColor(src, R, p, cut), p, alpha))
        /\ ~Wanted(src, R, p) => Number(p[1], p[2]) \notin DOMAIN pixels
    <3>1. CASE Fitting(src, R)
      <4>1. StretchDefects(src, R) = {} /\ ~UnusedByte(src, alpha)
        BY <1>3, <3>1
      <4> QED BY <1>3, <4>1, BlitStretchedShows, Zenon
    <3>2. CASE ~Fitting(src, R)
      <4>1. pixels = Nothing
        BY <3>2, UnfitRefused, Zenon DEF BlitStretched
      <4>2. DOMAIN Nothing = {}
        BY DEF Nothing
      <4>3. ~Wanted(src, R, p)
        BY <3>2, Zenon DEF Fitting, Wanted
      <4> QED BY <4>1, <4>2, <4>3, Zenon
    <3> QED BY <3>1, <3>2
  <2> HIDE DEF pixels, cut
  <2>2. CASE p \in DOMAIN asked
    BY <1>2, <2>1, <2>2, Zenon
  <2>3. CASE p \notin DOMAIN asked
    BY <1>2, <2>1, <2>3, Zenon DEF Colored
  <2> QED BY <2>2, <2>3
<1> HIDE DEF defects, pixels
<1> QED BY <1>1, <1>3, CallPaints

-----------------------------------------------------------------------------
LEMMA PaintingStep ==
    ASSUME Painting, [Next]_vars
    PROVE  Painting'
<1>0. /\ Spots \subseteq Int /\ Extents \subseteq Int /\ Alphas \subseteq Byte
      /\ Colors \subseteq [r : Byte, g : Byte, b : Byte, a : Byte]
  BY ImagesAssumption
<1>1. ASSUME NEW x \in Spots, NEW y \in Spots, NEW w \in Extents, NEW h \in Extents,
             NEW c \in Colors, FillRect(x, y, w, h, c)
      PROVE  Painting'
  BY <1>0, <1>1, FillRectPaints
<1>2. ASSUME NEW x \in Spots, NEW y \in Spots, NEW c \in Colors, SetPixel(x, y, c)
      PROVE  Painting'
  BY <1>0, <1>2, SetPixelPaints
<1>3. CASE Clear
  BY <1>3, ClearPaints
<1>4. ASSUME NEW x \in Spots, NEW y \in Spots, NEW w \in Extents, NEW h \in Extents,
             Invert(x, y, w, h)
      PROVE  Painting'
  BY <1>0, <1>4, InvertPaints
<1>5. ASSUME NEW f \in SourceFormats, NEW R \in Copies, Write(SourceImage(f), R)
      PROVE  Painting'
  BY <1>5, SourceImageTyped, WritePaints
<1>6. ASSUME NEW f \in SourceFormats, NEW R \in Copies, NEW alpha \in Alphas,
             Blit(SourceImage(f), R, alpha)
      PROVE  Painting'
  BY <1>0, <1>6, SourceImageTyped, BlitPaints
<1>7. ASSUME NEW f \in SourceFormats, NEW R \in Stretches, WriteStretch(SourceImage(f), R)
      PROVE  Painting'
  BY <1>7, SourceImageTyped, WriteStretchPaints
<1>8. ASSUME NEW f \in SourceFormats, NEW R \in Stretches, NEW alpha \in Alphas,
             BlitStretch(SourceImage(f), R, alpha)
      PROVE  Painting'
  BY <1>0, <1>8, SourceImageTyped, BlitStretchPaints
<1>9. ASSUME NEW f \in SourceFormats, NEW median \in Alphas, NEW ambiguity \in Extents,
             SourceWidth = Width, SourceHeight = Height, ambiguity >= 0,
             InsertAlphaMap(SourceImage(f), median, ambiguity)
      PROVE  Painting'
  <2>1. median \in Byte /\ ambiguity \in Nat
    BY <1>0, <1>9
  <2> QED BY <1>9, <2>1, SourceImageTyped, InsertAlphaMapPaints
<1>10. CASE UNCHANGED vars
  <2>1. /\ format' = format /\ data' = data /\ canvas' = canvas /\ met' = met
    BY <1>10 DEF vars
  <2>2. \A p : PixelAt(p)' = PixelAt(p)
    BY <2>1, Zenon DEF PixelAt, PixelOf, bpp, Number
  <2>3. PixelsAsked' = PixelsAsked
    BY <2>1, <2>2, Zenon DEF PixelsAsked, Positions
  <2> QED BY <2>1, <2>3, Zenon DEF Painting, Last
<1> QED BY <1>1, <1>2, <1>3, <1>4, <1>5, <1>6, <1>7, <1>8, <1>9, <1>10 DEF Next

(* Until a recorded defect is met every pixel of the image, in whatever    *)
(* format, shows the color the calls asked for.                            *)
THEOREM PaintingInvariant == Spec => []Painting
  BY PaintingInit, PaintingStep, PTL DEF Spec

(* After any calls, with whatever sizes, formats, rectangles, colors and   *)
(* opacities, getPixel() reads everywhere what they were asked to paint    *)
(* there, unless one of the recorded defects was met.                      *)
THEOREM PicturesAsAsked == Spec => []PaintsAsked
<1>1. Painting => PaintsAsked
  BY GetPixelShows DEF PaintsAsked
<1> QED BY <1>1, PaintingInvariant, PTL
=============================================================================
