------------------------------ MODULE MCImages ------------------------------
(* Three by two pixels, each byte of the source another one, some of them  *)
(* fully transparent or opaque, and white at the start of the image;       *)
(* rectangles that lie in the image, reach over each of its edges, or are  *)
(* empty.                                                                  *)
EXTENDS Images

MCContent == [a \in 0..23 |-> IF a \in {0, 1} THEN 255 ELSE (a * 37 + 11) % 256]
MCSourceBytes ==
    [a \in 0..23 |-> CASE a \in {3, 4} -> 255 [] a \in {7, 8} -> 0 [] OTHER -> (a * 53 + 29) % 256]
MCColors ==
    {[r |-> 9, g |-> 90, b |-> 200, a |-> 128], [r |-> 0, g |-> 0, b |-> 0, a |-> 0]}
MCSpots == -1..2
MCCopies ==
    [sx : {0, 1}, sy : {0, 1}, sw : {1, 2, 3}, sh : {1, 2}, dx : {-1, 0, 2}, dy : {-1, 0, 1}]
MCStretches ==
    [sx : {0}, sy : {0, 1}, sw : {1, 2}, sh : {1, 2},
     dx : {-2, -1, 0, 2}, dy : {-1, 0, 1}, dw : {1, 2, 4}, dh : {1, 2}]
=============================================================================
