----------------------------- MODULE ImageRects -----------------------------
(***************************************************************************)
(* The rectangles of april::Image: checkRect() and the three forms of      *)
(* correctRect() (src/src/images/Image.cpp).  Each treats the horizontal   *)
(* and the vertical axis alike and independently, so one axis is defined   *)
(* here: a start s (source) or d (destination), a length n or m, and the   *)
(* length of the image.  A result tells whether the call goes on (ok) and  *)
(* the corrected numbers.                                                  *)
(***************************************************************************)
EXTENDS Integers

Least(a, b) == IF a < b THEN a ELSE b
Most(a, b) == IF a > b THEN a ELSE b

(* checkRect(dx, dy, dw, dh, destWidth, destHeight)                        *)
CheckAxis(s, n, length) == s >= 0 /\ s < length /\ s + n <= length

(* A bug for comparison: the far end is not cut.                           *)
ClipOneEnd(d, m, length) ==
    LET n == IF d < 0 THEN m + d ELSE m IN
    [ok |-> d < length /\ n >= 0, at |-> Most(d, 0), n |-> n]

(* correctRect(dx, dy, dw, dh, destWidth, destHeight)                      *)
ClipAxis(d, m, length) ==
    LET n == Least(IF d < 0 THEN m + d ELSE m, length - Most(d, 0)) IN
    [ok |-> d < length /\ n >= 0, at |-> Most(d, 0), n |-> n]

(* A bug for comparison: the source is not moved with the destination.     *)
CopyUnmoved(s, n, from, d, into) ==
    LET rest == IF d < 0 THEN n + d ELSE n
        fits == Least(rest, into - Most(d, 0)) IN
    [ok |-> CheckAxis(s, n, from) /\ rest > 0 /\ fits > 0,
     s |-> s, n |-> fits, d |-> Most(d, 0)]

(* correctRect(sx, sy, sw, sh, srcWidth, srcHeight, dx, dy, destWidth,     *)
(* destHeight): what is cut off the destination is cut off the source.     *)
CopyAxis(s, n, from, d, into) ==
    LET first == IF d < 0 THEN s - d ELSE s
        rest == IF d < 0 THEN n + d ELSE n
        fits == Least(rest, into - Most(d, 0)) IN
    [ok |-> CheckAxis(s, n, from) /\ first < from /\ rest > 0 /\ fits > 0,
     s |-> first, n |-> fits, d |-> Most(d, 0)]

(* correctRect(sx, sy, sw, sh, srcWidth, srcHeight, dx, dy, dw, dh,        *)
(* destWidth, destHeight): the cut is scaled to the source and truncated   *)
(* to whole pixels.  The float arithmetic is taken as exact.               *)
StretchAxis(s, n, from, d, m, into) ==
    LET before == IF d < 0 THEN -d ELSE 0
        scale == Most(m, 1)
        first == s + (before * n) \div scale
        rest == (n * (m - before)) \div scale
        size == m - before
        after == Most(size - into + Most(d, 0), 0)
        fits == (rest * m - after * n) \div scale IN
    [ok |-> /\ CheckAxis(s, n, from) /\ m > 0
            /\ first < from /\ size > 0 /\ size - after > 0
            /\ (IF after > 0 THEN fits ELSE rest) > 0,
     s |-> first, n |-> IF after > 0 THEN fits ELSE rest,
     d |-> Most(d, 0), m |-> size - after]

(* No part of a source pixel is lost by that truncation.                   *)
ExactAxis(n, d, m, into) ==
    /\ d < 0 => (d * n) % m = 0
    /\ d + m > into => ((d + m - into) * n) % m = 0
=============================================================================
