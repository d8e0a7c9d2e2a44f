------------------------------- MODULE Images -------------------------------
(***************************************************************************)
(* The bytes of an april::Image while calls paint into it (src/src/images/ *)
(* Image.cpp): fillRect(), setPixel(), clear(), write(), writeStretch(),   *)
(* blit(), blitStretch(), invert() and insertAlphaMap(), beside the        *)
(* picture the caller asked for.  A call is one step.                      *)
(***************************************************************************)
EXTENDS ImageFormats, ImageRects, FiniteSets

CONSTANTS
    Width, Height,     \* the size of the image
    ImageFormats,      \* the formats it may have
    SourceWidth, SourceHeight, SourceFormats,
    Content,           \* the bytes an image is created from
    SourceBytes,       \* the bytes of a source image
    Colors,            \* the colors painted with
    Spots, Extents,    \* the coordinates and the lengths callers pass
    Copies, Stretches, \* the rectangles of copies, as records
    Alphas,            \* the opacities of blit()
    MaxCalls           \* bound: calls in a behavior

ASSUME ImagesAssumption ==
    /\ Width \in Nat \ {0} /\ Height \in Nat \ {0}
    /\ SourceWidth \in Nat \ {0} /\ SourceHeight \in Nat \ {0}
    /\ ImageFormats \subseteq Formats /\ SourceFormats \subseteq Formats
    /\ \A a \in 0..4 * Width * Height - 1 : Content[a] \in Byte
    /\ \A a \in 0..4 * SourceWidth * SourceHeight - 1 : SourceBytes[a] \in Byte
    /\ Colors \subseteq [r : Byte, g : Byte, b : Byte, a : Byte]
    /\ Spots \subseteq Int /\ Extents \subseteq Int /\ Alphas \subseteq Byte
    /\ Copies \subseteq [sx : Int, sy : Int, sw : Int, sh : Int, dx : Int, dy : Int]
    /\ Stretches \subseteq [sx : Int, sy : Int, sw : Int, sh : Int,
                           dx : Int, dy : Int, dw : Int, dh : Int]
    /\ MaxCalls \in Nat

VARIABLES
    format, data,   \* the image; data reaches past its end, as memory does
    canvas,         \* the color asked for at every position
    met,            \* the recorded defects a call has met
    calls

vars == <<format, data, canvas, met, calls>>

Defects == {"rows", "empty", "row", "swap", "alpha bytes", "padding", "cut"}

bpp == getFormatBpp(format)
Last == 2 * Width * Height * 4 - 1
Positions == (0..Width - 1) \X (0..Height - 1)
Number(x, y) == x + y * Width
Column(n) == n % Width
Row(n) == n \div Width
Offset(n) == <<Column(n), Row(n)>>

(* The bytes of the pixel with a number, and data with pixels replaced.    *)
PixelOf(d, n) == [k \in 0..bpp - 1 |-> d[n * bpp + k]]
Painted(d, pixels) ==
    [a \in DOMAIN d |-> IF a \div bpp \in DOMAIN pixels THEN pixels[a \div bpp][a % bpp] ELSE d[a]]

(* getPixel() converts a pixel to RGBA and takes its bytes as the color.   *)
getPixel(x, y) == Shown("RGBA", Convert(format, "RGBA", PixelOf(data, Number(x, y))))

TypeOK ==
    /\ format \in ImageFormats
    /\ data \in [0..Last -> Byte]
    /\ canvas \in [Positions -> [r : Byte, g : Byte, b : Byte, a : Byte]]
    /\ met \subseteq Defects
    /\ calls \in 0..MaxCalls

(* Image::create(w, h, data, format)                                       *)
Init ==
    /\ format \in ImageFormats
    /\ data = [a \in 0..Last |-> IF a < Width * Height * bpp THEN Content[a] ELSE 0]
    /\ canvas = [p \in Positions |-> Shown(format, PixelOf(data, Number(p[1], p[2])))]
    /\ met = {}
    /\ calls = 0

(* A call: the pixels it stores, by number, and the picture it was asked   *)
(* for; a refused call stores none.                                        *)
Call(pixels, asked, defects) ==
    /\ calls < MaxCalls /\ calls' = calls + 1
    /\ data' = Painted(data, pixels)
    /\ canvas' = [p \in Positions |-> IF p \in DOMAIN asked THEN asked[p] ELSE canvas[p]]
    /\ met' = met \cup defects
    /\ UNCHANGED format

Nothing == [n \in {} |-> 0]

(* The positions of a rectangle that lie in the image.                     *)
Region(x, y, w, h) == {p \in Positions : p[1] \in x..x + w - 1 /\ p[2] \in y..y + h - 1}

-----------------------------------------------------------------------------
(* fillRect(): one byte for everything is set row by row; otherwise the    *)
(* first pixel is stored and copied over the first row and the other rows, *)
(* or over all that is left if the rectangle is as wide as the image, for  *)
(* which the code counts destHeight rows instead of h.                     *)
Uniform(c) ==
    CASE bpp = 1 -> TRUE
      [] bpp = 3 -> c.r = c.g /\ c.r = c.b
      [] OTHER -> c.r = c.g /\ c.r = c.b /\ c.r = c.a

ColorPixel(c) ==
    IF bpp = 4 THEN Convert("RGBA", format, Bytes4(c.r, c.g, c.b, c.a))
    ELSE Convert("RGB", format, Bytes3(c.r, c.g, c.b))

Rows(x, y, w, h) == {Number(x + i, y + j) : i \in 0..w - 1, j \in 0..h - 1}

FilledRun(x, y, w) == Number(x, y)..Number(x, y) + w * Height - 1

Filled(X, Y, c) ==
    IF Uniform(c) THEN [n \in Rows(X.at, Y.at, X.n, Y.n) |-> [k \in 0..bpp - 1 |-> c.r]]
    ELSE IF X.at = 0 /\ X.n = Width THEN [n \in FilledRun(0, Y.at, Width) |-> ColorPixel(c)]
    ELSE [n \in Rows(X.at, Y.at, Most(X.n, 1), Most(Y.n, 1)) |-> ColorPixel(c)]

FillRect(x, y, w, h, c) ==
    LET X == ClipAxis(x, w, Width)  Y == ClipAxis(y, h, Height)
        defects ==
            IF Uniform(c) THEN {}
            ELSE (IF X.n = Width /\ Y.n < Height THEN {"rows"} ELSE {})
                 \cup (IF X.n = 0 \/ Y.n = 0 THEN {"empty"} ELSE {}) IN
    IF X.ok /\ Y.ok
    THEN Call(Filled(X, Y, c), [p \in Region(x, y, w, h) |-> Reduced(format, c)], defects)
    ELSE Call(Nothing, Nothing, {})

(* setPixel() converts one pixel of RGBA into its place.                   *)
SetPixel(x, y, c) ==
    IF CheckAxis(x, 0, Width) /\ CheckAxis(y, 0, Height)
    THEN Call([n \in {Number(x, y)} |-> Convert("RGBA", format, Bytes4(c.r, c.g, c.b, c.a))],
              [p \in {<<x, y>>} |-> Reduced(format, c)], {})
    ELSE Call(Nothing, Nothing, {})

Clear ==
    Call([n \in 0..Width * Height - 1 |-> [k \in 0..bpp - 1 |-> 0]],
         [p \in Positions |-> Reduced(format, [r |-> 0, g |-> 0, b |-> 0, a |-> 0])], {})

(* invert(): the channels of every pixel of the corrected rectangle.       *)
InvertedPixel(p) ==
    [k \in DOMAIN p |-> IF k \in {RedIndex(format), GreenIndex(format), BlueIndex(format)}
                        THEN 255 - p[k] ELSE p[k]]

Invert(x, y, w, h) ==
    LET X == ClipAxis(x, w, Width)  Y == ClipAxis(y, h, Height) IN
    IF X.ok /\ Y.ok
    THEN Call([n \in Rows(X.at, Y.at, X.n, Y.n) |-> InvertedPixel(PixelOf(data, n))],
              [p \in Region(x, y, w, h) |-> LET c == canvas[p] IN
                   [r |-> 255 - c.r, g |-> 255 - c.g, b |-> 255 - c.b, a |-> c.a]], {})
    ELSE Call(Nothing, Nothing, {})

-----------------------------------------------------------------------------
(* A source image, its pixels by number, and one filled with SourceBytes.  *)
Source(f, w, h, px) == [format |-> f, w |-> w, h |-> h, px |-> px]
SourceImage(f) ==
    LET size == getFormatBpp(f) IN
    Source(f, SourceWidth, SourceHeight,
           [n \in 0..SourceWidth * SourceHeight - 1 |->
               [k \in 0..size - 1 |-> SourceBytes[n * size + k]]])

AlphaOnly(src) == src.format = "ALPHA" /\ format # "ALPHA"
HasAlpha == format \in AlphaFormats

(* The places a copy stores to, each with the pixel of the source it takes: *)
(* rows as wide as both images go in one run, other rectangles row by row. *)
Placed(src, X, Y, run) ==
    LET d == Number(X.d, Y.d)
        s == X.s + Y.s * src.w IN
    IF run /\ X.s = 0 /\ X.d = 0 /\ src.w = Width /\ X.n = Width
    THEN [n \in d..d + X.n * Y.n - 1 |-> s + n - d]
    ELSE [n \in Rows(X.d, Y.d, X.n, Y.n) |-> s + Column(n) - X.d + (Row(n) - Y.d) * src.w]

(* Pixels stored as they are converted, and an alpha put into the pixels.  *)
Stored(src, from) == [n \in DOMAIN from |-> Convert(src.format, format, src.px[from[n]])]
AlphaStored(src, from) ==
    [n \in DOMAIN from |-> [PixelOf(data, n) EXCEPT ![AlphaIndex(format)] = src.px[from[n]][0]]]

(* write(): a source with only alpha sets the alpha of the image, which is *)
(* left alone if it has none and refuses if it is not of four bytes.       *)
WrittenPixels(src, R) ==
    LET X == CopyAxis(R.sx, R.sw, src.w, R.dx, Width)
        Y == CopyAxis(R.sy, R.sh, src.h, R.dy, Height) IN
    IF ~X.ok \/ ~Y.ok THEN Nothing
    ELSE IF ~AlphaOnly(src) THEN Stored(src, Placed(src, X, Y, TRUE))
    ELSE IF HasAlpha THEN AlphaStored(src, Placed(src, X, Y, FALSE))
    ELSE Nothing

(* The color write() is asked to leave at a position for a source color.   *)
AskedColor(src, c, p, alpha) ==
    IF ~AlphaOnly(src) THEN Reduced(format, c)
    ELSE IF HasAlpha THEN [canvas[p] EXCEPT !.a = c.r] ELSE canvas[p]

(* The picture a copy asks for: every position of the destination, in the  *)
(* image or not, takes the color of its place in the source.               *)
Legal(src, R) == CheckAxis(R.sx, R.sw, src.w) /\ CheckAxis(R.sy, R.sh, src.h)
ColorAt(src, x, y) == Shown(src.format, src.px[x + y * src.w])
Copied(src, R, alpha, asked(_, _, _, _)) ==
    IF ~Legal(src, R) THEN Nothing
    ELSE [p \in Region(R.dx, R.dy, R.sw, R.sh) |->
              asked(src, ColorAt(src, R.sx + p[1] - R.dx, R.sy + p[2] - R.dy), p, alpha)]

Write(src, R) == Call(WrittenPixels(src, R), Copied(src, R, 255, AskedColor), {})

-----------------------------------------------------------------------------
(* blit(): source over destination, in integers.                           *)
Mix(s, d, a) == (s * a + d * (255 - a)) \div 255

(* _blitFrom1Bpp(), _blitFrom3Bpp() and _blitFrom4Bpp() of one pixel: the  *)
(* last takes the fourth byte of the source for its opacity, whether the   *)
(* format has alpha or not.                                                *)
BlendedPixel(src, s, d, alpha) ==
    LET f == src.format
        a == IF f \in Formats4 THEN (s[AlphaIndex(f)] * alpha) \div 255 ELSE alpha
        from == [d EXCEPT ![RedIndex(format)] = s[RedIndex(f)],
                          ![GreenIndex(format)] = s[IF bpp = 1 THEN RedIndex(f) ELSE GreenIndex(f)],
                          ![BlueIndex(format)] = s[IF bpp = 1 THEN RedIndex(f) ELSE BlueIndex(f)]]
        colors == {RedIndex(format), GreenIndex(format), BlueIndex(format)} IN
    IF f = "ALPHA" /\ bpp = 4
    THEN IF HasAlpha THEN [d EXCEPT ![AlphaIndex(format)] = Mix(s[0], @, alpha)] ELSE d
    ELSE IF a = 0 THEN d
    ELSE [k \in DOMAIN d |-> IF k \in colors THEN Mix(from[k], d[k], a)
                             ELSE IF HasAlpha THEN a + (d[k] * (255 - a)) \div 255 ELSE d[k]]

BlittedPixels(src, R, alpha) ==
    LET X == CopyAxis(R.sx, R.sw, src.w, R.dx, Width)
        Y == CopyAxis(R.sy, R.sh, src.h, R.dy, Height)
        from == Placed(src, X, Y, FALSE) IN
    IF ~X.ok \/ ~Y.ok THEN Nothing
    ELSE IF src.format \notin AlphaFormats /\ alpha = 255
    THEN WrittenPixels(src, [R EXCEPT !.sx = X.s, !.sy = Y.s, !.sw = X.n, !.sh = Y.n,
                                      !.dx = X.d, !.dy = Y.d])
    ELSE IF alpha = 0 \/ (AlphaOnly(src) /\ bpp # 4) THEN Nothing
    ELSE [n \in DOMAIN from |-> BlendedPixel(src, src.px[from[n]], PixelOf(data, n), alpha)]

(* What that should show: the colors mixed by the opacity of the source.   *)
BlendedColor(src, c, p, alpha) ==
    LET d == canvas[p]
        a == (c.a * alpha) \div 255 IN
    IF AlphaOnly(src)
    THEN IF HasAlpha THEN [d EXCEPT !.a = Mix(c.r, @, alpha)] ELSE d
    ELSE Reduced(format, [r |-> Mix(c.r, d.r, a), g |-> Mix(c.g, d.g, a), b |-> Mix(c.b, d.b, a),
                          a |-> IF a = 0 THEN d.a ELSE a + (d.a * (255 - a)) \div 255])

UnusedByte(src, alpha) ==
    /\ src.format \in Formats4 \ AlphaFormats /\ alpha \notin {0, 255}
    /\ \E n \in DOMAIN src.px : src.px[n][AlphaIndex(src.format)] # 255

Blit(src, R, alpha) ==
    Call(BlittedPixels(src, R, alpha), Copied(src, R, alpha, BlendedColor),
         IF UnusedByte(src, alpha) THEN {"padding"} ELSE {})

-----------------------------------------------------------------------------
(* Scaling: position i of m samples n source pixels from s on at           *)
(* s + i * n / m, between a pixel and the next one, up to the last.        *)
Sample(s, n, m, i, last) ==
    LET at == s * m + i * n IN
    [low |-> at \div m, high |-> Least(at \div m + 1, last), part |-> at % m, of |-> m]

Around(x, y) == {x.low, x.high} \X {y.low, y.high}
Interpolated(x, y, v) ==
    (  (v[<<x.low, y.low>>] * (y.of - y.part) + v[<<x.low, y.high>>] * y.part) * (x.of - x.part)
     + (v[<<x.high, y.low>>] * (y.of - y.part) + v[<<x.high, y.high>>] * y.part) * x.part)
    \div (x.of * y.of)

ClippedX(src, R) == StretchAxis(R.sx, R.sw, src.w, R.dx, R.dw, Width)
ClippedY(src, R) == StretchAxis(R.sy, R.sh, src.h, R.dy, R.dh, Height)
SameSize(X, Y) == X.n = X.m /\ Y.n = Y.m
Cut(src) == needsConversion(src.format, format)
End(cut, s, n, length) == IF cut THEN s + n - 1 ELSE length - 1

(* A source scaled to the size of a corrected destination, from its pixels *)
(* px in format f: converted and cut out first if they have to be.         *)
Scaled(src, px, X, Y, f, cut) ==
    LET Pixel(i, j) ==
            LET x == Sample(X.s, X.n, X.m, i, End(cut, X.s, X.n, src.w))
                y == Sample(Y.s, Y.n, Y.m, j, End(cut, Y.s, Y.n, src.h)) IN
            [k \in 0..getFormatBpp(f) - 1 |->
                Interpolated(x, y, [q \in Around(x, y) |-> px[q[1] + q[2] * src.w][k]])] IN
    Source(f, X.m, Y.m, [n \in 0..X.m * Y.m - 1 |-> Pixel(n % X.m, n \div X.m)])

(* writeStretch(): between equal sizes it calls write(), with the height   *)
(* in the place of dy.  A map of alpha is read as if its pixels were as    *)
(* large as those of the image.                                            *)
AsWrite(R, X, Y) ==
    [R EXCEPT !.sx = X.s, !.sy = Y.s, !.sw = X.n, !.sh = Y.n, !.dx = X.d, !.dy = Y.m]

Beyond(src, n) == Bytes1(IF 4 * n \in DOMAIN src.px THEN src.px[4 * n][0] ELSE 0)

StretchedPixels(src, R) ==
    LET X == ClippedX(src, R)  Y == ClippedY(src, R)
        converted == [n \in DOMAIN src.px |->
                          IF Cut(src) THEN Convert(src.format, format, src.px[n]) ELSE src.px[n]]
        spread == [n \in DOMAIN src.px |-> Beyond(src, n)]
        scaled == IF AlphaOnly(src) THEN Scaled(src, spread, X, Y, "ALPHA", FALSE)
                  ELSE Scaled(src, converted, X, Y, format, Cut(src))
        from == Placed(scaled, [X EXCEPT !.s = 0, !.n = X.m], [Y EXCEPT !.s = 0, !.n = Y.m], FALSE) IN
    IF ~X.ok \/ ~Y.ok THEN Nothing
    ELSE IF SameSize(X, Y) THEN WrittenPixels(src, AsWrite(R, X, Y))
    ELSE IF ~AlphaOnly(src) THEN Stored(scaled, from)
    ELSE IF HasAlpha THEN AlphaStored(scaled, from)
    ELSE Nothing

(* The picture scaling asks for: the interpolated colors of the rectangle  *)
(* that was passed, mixed or not.                                          *)
ScaledColor(src, R, p, cut) ==
    LET X == ClippedX(src, R)  Y == ClippedY(src, R)
        x == Sample(R.sx, R.sw, R.dw, p[1] - R.dx, End(cut /\ X.ok, X.s, X.n, src.w))
        y == Sample(R.sy, R.sh, R.dh, p[2] - R.dy, End(cut /\ Y.ok, Y.s, Y.n, src.h))
        Of(channel) == Interpolated(x, y, [q \in Around(x, y) |-> ColorAt(src, q[1], q[2])[channel]]) IN
    [r |-> Of("r"), g |-> Of("g"), b |-> Of("b"), a |-> Of("a")]

ScaledTo(src, R, cut, alpha, asked(_, _, _, _)) ==
    IF ~Legal(src, R) \/ R.sw <= 0 \/ R.sh <= 0 \/ R.dw <= 0 \/ R.dh <= 0
    THEN Nothing
    ELSE [p \in Region(R.dx, R.dy, R.dw, R.dh) |-> asked(src, ScaledColor(src, R, p, cut), p, alpha)]

(* What goes wrong: the row of a copy between equal sizes, channels taken  *)
(* for converted, the bytes of a map of alpha, or a clip that is no whole  *)
(* number of source pixels.                                                *)
StretchDefects(src, R) ==
    LET X == ClippedX(src, R)  Y == ClippedY(src, R)  same == SameSize(X, Y) IN
    (IF same /\ Y.m # Y.d THEN {"row"} ELSE {})
    \cup (IF ExactAxis(R.sw, R.dx, R.dw, Width) /\ ExactAxis(R.sh, R.dy, R.dh, Height) THEN {} ELSE {"cut"})

WriteDefects(src, R) ==
    LET same == SameSize(ClippedX(src, R), ClippedY(src, R)) IN
    (IF ~same /\ src.format # format /\ {src.format, format} = Formats3 THEN {"swap"} ELSE {})
    \cup (IF ~same /\ AlphaOnly(src) /\ HasAlpha THEN {"alpha bytes"} ELSE {})

WriteStretch(src, R) ==
    Call(StretchedPixels(src, R), ScaledTo(src, R, Cut(src), 255, AskedColor),
         IF Legal(src, R) /\ R.dw > 0 /\ R.dh > 0
         THEN StretchDefects(src, R) \cup WriteDefects(src, R) ELSE {})

(* blitStretch(): a scaled copy in the format of the source is blended.    *)
BlitStretch(src, R, alpha) ==
    LET X == ClippedX(src, R)  Y == ClippedY(src, R)
        scaled == Scaled(src, src.px, X, Y, src.format, FALSE)
        pixels ==
            IF ~X.ok \/ ~Y.ok THEN Nothing
            ELSE IF SameSize(X, Y) THEN BlittedPixels(src, AsWrite(R, X, Y), alpha)
            ELSE BlittedPixels(scaled, [R EXCEPT !.sx = 0, !.sy = 0, !.sw = X.m, !.sh = Y.m,
                                                 !.dx = X.d, !.dy = Y.d], alpha) IN
    Call(pixels, ScaledTo(src, R, FALSE, alpha, BlendedColor),
         IF Legal(src, R) /\ R.dw > 0 /\ R.dh > 0
         THEN StretchDefects(src, R) \cup (IF UnusedByte(src, alpha) THEN {"padding"} ELSE {})
         ELSE {})

-----------------------------------------------------------------------------
(* insertAlphaMap(): the red of a picture of the same size decides the     *)
(* alpha, sharply or over a range around the median.                       *)
MapAlpha(red, median, ambiguity) ==
    LET low == median - ambiguity \div 2  high == median + ambiguity \div 2 IN
    IF ambiguity = 0 THEN red
    ELSE IF red < low THEN 255
    ELSE IF red >= high THEN 0
    ELSE ((high - red) * 255) \div ambiguity

InsertAlphaMap(src, median, ambiguity) ==
    LET alpha(n) == MapAlpha(src.px[n][RedIndex(src.format)], median, ambiguity) IN
    IF HasAlpha
    THEN Call([n \in 0..Width * Height - 1 |->
                   [PixelOf(data, n) EXCEPT ![AlphaIndex(format)] = alpha(n)]],
              [p \in Positions |-> [canvas[p] EXCEPT !.a = alpha(Number(p[1], p[2]))]], {})
    ELSE Call(Nothing, Nothing, {})

Next ==
    \/ \E x, y \in Spots, w, h \in Extents, c \in Colors : FillRect(x, y, w, h, c)
    \/ \E x, y \in Spots, c \in Colors : SetPixel(x, y, c)
    \/ Clear
    \/ \E x, y \in Spots, w, h \in Extents : Invert(x, y, w, h)
    \/ \E f \in SourceFormats, R \in Copies : Write(SourceImage(f), R)
    \/ \E f \in SourceFormats, R \in Copies, alpha \in Alphas :
           Blit(SourceImage(f), R, alpha)
    \/ \E f \in SourceFormats, R \in Stretches : WriteStretch(SourceImage(f), R)
    \/ \E f \in SourceFormats, R \in Stretches, alpha \in Alphas :
           BlitStretch(SourceImage(f), R, alpha)
    \/ \E f \in SourceFormats, median \in Alphas, ambiguity \in Extents :
           /\ SourceWidth = Width /\ SourceHeight = Height /\ ambiguity >= 0
           /\ InsertAlphaMap(SourceImage(f), median, ambiguity)

Spec == Init /\ [][Next]_vars

-----------------------------------------------------------------------------
(* After any calls getPixel() reads everywhere what the calls were asked   *)
(* to paint there, in whatever format the image is and whatever parts of   *)
(* the rectangles lie outside, unless one of the recorded defects was met. *)
PaintsAsked == met = {} => \A p \in Positions : getPixel(p[1], p[2]) = canvas[p]

(* No call stores a byte past the end of the image, as long as fillRect()  *)
(* has not been met counting too many rows.                                *)
StaysInside ==
    "rows" \notin met => \A a \in DOMAIN data : a >= Width * Height * bpp => data[a] = 0

(* Image.h on needsConversion(): it tells whether an image format          *)
(* conversion is needed.  If it is not, the bytes show the same picture    *)
(* in the other format.                                                    *)
NeedsConversionSays ==
    \A f \in ImageFormats : ~needsConversion(format, f) =>
        \A n \in 0..Width * Height - 1 :
            Shown(f, PixelOf(data, n)) = Reduced(f, Shown(format, PixelOf(data, n)))
=============================================================================
