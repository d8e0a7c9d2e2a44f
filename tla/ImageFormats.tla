---------------------------- MODULE ImageFormats ----------------------------
(***************************************************************************)
(* The pixel formats of april::Image and the conversions between them      *)
(* (src/src/images/Image.cpp).  A pixel is a function from its byte        *)
(* offsets 0..bpp-1 to bytes; a word of four bytes is read and written on  *)
(* a little-endian machine, as the code assumes, so that a shift by eight  *)
(* bits moves every byte to the next offset.                               *)
(***************************************************************************)
EXTENDS Integers

Byte == 0..255

AlphaFormats == {"RGBA", "ARGB", "BGRA", "ABGR"}   \* CHECK_ALPHA_FORMAT
LeftRGB == {"RGBA", "RGBX", "BGRA", "BGRX"}        \* CHECK_LEFT_RGB
RightRGB == {"ARGB", "XRGB", "ABGR", "XBGR"}
RedFirst == {"RGBA", "RGBX", "ARGB", "XRGB"}
BlueFirst == {"BGRA", "BGRX", "ABGR", "XBGR"}
Formats4 == LeftRGB \cup RightRGB
Formats3 == {"RGB", "BGR"}
Formats1 == {"ALPHA", "GRAYSCALE"}
Formats == Formats4 \cup Formats3 \cup Formats1

getFormatBpp(f) == IF f \in Formats4 THEN 4 ELSE IF f \in Formats3 THEN 3 ELSE 1

(* CHECK_SHIFT_FORMATS and CHECK_INVERT_ORDER_FORMATS, the latter tried    *)
(* both ways round as every caller does.                                   *)
ShiftFormats(f, g) == f \in LeftRGB /\ g \in RightRGB
InvertOrder(f, g) == (f \in RedFirst /\ g \in BlueFirst) \/ (g \in RedFirst /\ f \in BlueFirst)

-----------------------------------------------------------------------------
(* _getFormatIndices(): where a format keeps a channel.  The formats with  *)
(* an unused byte answer with that byte for alpha.                         *)
RedIndex(f) ==
    IF f \in {"BGRA", "BGRX", "BGR"} THEN 2
    ELSE IF f \in {"ARGB", "XRGB"} THEN 1
    ELSE IF f \in {"ABGR", "XBGR"} THEN 3 ELSE 0

GreenIndex(f) == IF f \in Formats1 THEN 0 ELSE IF f \in RightRGB THEN 2 ELSE 1

BlueIndex(f) ==
    IF f \in {"BGRA", "BGRX", "BGR"} \cup Formats1 THEN 0
    ELSE IF f \in {"ARGB", "XRGB"} THEN 3
    ELSE IF f \in {"ABGR", "XBGR"} THEN 1 ELSE 2

AlphaIndex(f) == IF f \in LeftRGB THEN 3 ELSE 0

-----------------------------------------------------------------------------
Bytes1(a) == [k \in 0..0 |-> a]
Bytes3(a, b, c) == [k \in 0..2 |-> IF k = 0 THEN a ELSE IF k = 1 THEN b ELSE c]
Bytes4(a, b, c, d) ==
    [k \in 0..3 |-> IF k = 0 THEN a ELSE IF k = 1 THEN b ELSE IF k = 2 THEN c ELSE d]

(* _convertFrom1Bpp(): the value becomes every color channel.              *)
ConvertFrom1(g, p) ==
    IF g \in Formats1 THEN p
    ELSE IF g \in Formats3 THEN Bytes3(p[0], p[0], p[0])
    ELSE IF g \in LeftRGB THEN Bytes4(p[0], p[0], p[0], 255)
    ELSE Bytes4(255, p[0], p[0], p[0])

(* _convertFrom3Bpp(): the source is treated as the format of four bytes   *)
(* that starts with its bytes.                                             *)
ConvertFrom3(f, g, p) ==
    LET extended == IF f = "RGB" THEN "RGBX" ELSE "BGRX" IN
    IF g \in Formats1 THEN Bytes1(p[IF f = "RGB" THEN 0 ELSE 2])
    ELSE IF g \in Formats3 THEN IF f = g THEN p ELSE Bytes3(p[2], p[1], p[0])
    ELSE IF ShiftFormats(extended, g)
    THEN IF InvertOrder(extended, g) THEN Bytes4(255, p[2], p[1], p[0])
                                     ELSE Bytes4(255, p[0], p[1], p[2])
    ELSE IF InvertOrder(extended, g) THEN Bytes4(p[2], p[1], p[0], 255)
                                     ELSE Bytes4(p[0], p[1], p[2], 255)

(* _convertFrom4Bpp() to one byte takes red, to three bytes the channels.  *)
RedByte(f, p) ==
    p[IF f \in {"ARGB", "XRGB"} THEN 1
      ELSE IF f \in {"BGRA", "BGRX"} THEN 2
      ELSE IF f \in {"ABGR", "XBGR"} THEN 3 ELSE 0]

Narrow(f, g, p) ==
    LET extended == IF g = "RGB" THEN "RGBX" ELSE "BGRX" IN
    IF ShiftFormats(extended, f)
    THEN IF InvertOrder(f, extended) THEN Bytes3(p[3], p[2], p[1])
                                     ELSE Bytes3(p[1], p[2], p[3])
    ELSE IF InvertOrder(f, extended) THEN Bytes3(p[2], p[1], p[0])
                                     ELSE Bytes3(p[0], p[1], p[2])

(* The macros of words of four bytes: the alpha that goes with the moved   *)
(* channels is the source's if both formats have one, 255 otherwise.       *)
CopiesAlpha(f, g) == f \in AlphaFormats /\ g \in AlphaFormats

RightShift(f, g, p) ==
    LET a == IF CopiesAlpha(f, g) THEN p[3] ELSE 255 IN
    IF InvertOrder(f, g) THEN Bytes4(a, p[2], p[1], p[0]) ELSE Bytes4(a, p[0], p[1], p[2])

LeftShift(f, g, p) ==
    LET a == IF CopiesAlpha(f, g) THEN p[0] ELSE 255 IN
    IF InvertOrder(f, g) THEN Bytes4(p[3], p[2], p[1], a) ELSE Bytes4(p[1], p[2], p[3], a)

Inverted(f, g, p) ==
    IF g \in LeftRGB
    THEN Bytes4(p[2], p[1], p[0], IF CopiesAlpha(f, g) THEN p[3] ELSE 255)
    ELSE Bytes4(IF CopiesAlpha(f, g) THEN p[0] ELSE 255, p[3], p[2], p[1])

Keep(g, p) ==
    IF g \in LeftRGB THEN Bytes4(p[0], p[1], p[2], 255) ELSE Bytes4(255, p[1], p[2], p[3])

ConvertFrom4(f, g, p) ==
    IF g \in Formats1 THEN Bytes1(RedByte(f, p))
    ELSE IF g \in Formats3 THEN Narrow(f, g, p)
    ELSE IF ShiftFormats(f, g) THEN RightShift(f, g, p)
    ELSE IF ShiftFormats(g, f) THEN LeftShift(f, g, p)
    ELSE IF InvertOrder(f, g) THEN Inverted(f, g, p)
    ELSE IF (f \in AlphaFormats) # (g \in AlphaFormats) THEN Keep(g, p)
    ELSE p

(* convertToFormat() of one pixel, preventCopy off.                        *)
Convert(f, g, p) ==
    IF f \in Formats1 THEN ConvertFrom1(g, p)
    ELSE IF f \in Formats3 THEN ConvertFrom3(f, g, p)
    ELSE ConvertFrom4(f, g, p)

(* needsConversion() with preventCopy, its default.                        *)
needsConversion(f, g) ==
    /\ f # g
    /\ \/ getFormatBpp(f) # getFormatBpp(g)
       \/ /\ f \in Formats4
          /\ \/ ShiftFormats(f, g) \/ ShiftFormats(g, f) \/ InvertOrder(f, g)
             \/ g \in AlphaFormats

-----------------------------------------------------------------------------
(* What a pixel shows: its channels where _getFormatIndices() finds them,  *)
(* opaque unless the format has an alpha channel.  One byte is a gray.     *)
Shown(f, p) ==
    [r |-> p[RedIndex(f)], g |-> p[GreenIndex(f)], b |-> p[BlueIndex(f)],
     a |-> IF f \in AlphaFormats THEN p[AlphaIndex(f)] ELSE 255]

(* What is left of a color in a format: red alone in one byte, no alpha in *)
(* a format without it.                                                    *)
Reduced(f, c) ==
    [r |-> c.r,
     g |-> IF f \in Formats1 THEN c.r ELSE c.g,
     b |-> IF f \in Formats1 THEN c.r ELSE c.b,
     a |-> IF f \in AlphaFormats THEN c.a ELSE 255]
=============================================================================
