---------------------------- MODULE GlareSearch ----------------------------
(* The two searches of evalglare for glare source pixels around a pixel:   *)
(* find_near_pgs and find_split.  Both walk the picture row by row and     *)
(* stop a row at the first pixel that is too far, so what they see, and    *)
(* which pixel they see first, depends on where every row is entered.      *)
(*                                                                         *)
(* A picture has w columns and h rows; its pixels are numbered in the      *)
(* order of the scans, the column outside and the row inside, from 1.      *)
(* The angle between two pixels (acos of the product of their cached       *)
(* directions, doubled) is abstracted to their distance in the picture.    *)
EXTENDS Integers, Sequences, FiniteSetsExt

Pixels(pic) == 1 .. pic.w * pic.h
X(pic, p) == (p - 1) \div pic.h
Y(pic, p) == (p - 1) % pic.h
Pixel(pic, x, y) == x * pic.h + y + 1

Square(n) == n * n

(* Distance of pixel p to column x of row y, squared. *)
Distance(pic, p, x, y) == Square(X(pic, p) - x) + Square(Y(pic, p) - y)

Near(pic, r2, p, q) == Distance(pic, p, X(pic, q), Y(pic, q)) <= r2

(* A mutation of Half: every row is entered at the first column. *)
HalfForgotten(n) == 0

(* Division by two as C divides: towards zero. *)
Half(n) == IF n >= 0 THEN n \div 2 ELSE -((-n) \div 2)

(* The first pixel of a path that is in a set, 0 when there is none. *)
FirstSeen(path, found) ==
    IF \E k \in DOMAIN path :
          path[k] \in found /\ \A j \in DOMAIN path : path[j] \in found => k <= j
    THEN path[CHOOSE k \in DOMAIN path :
                 path[k] \in found /\ \A j \in DOMAIN path : path[j] \in found => k <= j]
    ELSE 0

(* find_near_pgs looks at a row to the left and then to the right, both    *)
(* times from the middle of l and r, the columns at which the walks before *)
(* it stopped (the middle is taken anew for the right), up to the first    *)
(* column that is too far.  A walk that ends at the border leaves l or r   *)
(* as it was.  l is in 0 .. hi + 1 and r in -1 .. hi, so that the middle   *)
(* is always a column.                                                     *)
WalkRow(pic, r2, p, hi, y, at) ==
    LET far == {x \in 0 .. hi : Distance(pic, p, x, y) > r2}
        from == Half(at.l + at.r)
        leftEnd == Max({-1} \cup {x \in far : x <= from})
        l == IF leftEnd = -1 THEN at.l ELSE leftEnd + 1
        back == Half(l + at.r)
        rightEnd == Min({hi + 1} \cup {x \in far : x >= back})
    IN [l |-> l,
        r |-> IF rightEnd > hi THEN at.r ELSE rightEnd - 1,
        path |-> at.path \o [j \in 1 .. from - leftEnd |-> Pixel(pic, from - j + 1, y)]
                         \o [j \in 1 .. rightEnd - back |-> Pixel(pic, back + j - 1, y)]]

(* One of its two directions: the rows from y up to the first one (up), or *)
(* from y + 1 to the last one.                                             *)
NearPath(pic, r2, p, hi, up) ==
    LET rows == IF up THEN Y(pic, p) + 1 ELSE pic.h - 1 - Y(pic, p)
        Row(k) == IF up THEN Y(pic, p) - k + 1 ELSE Y(pic, p) + k
        After[k \in 0 .. rows] ==
            IF k = 0 THEN [l |-> X(pic, p), r |-> X(pic, p), path |-> <<>>]
            ELSE WalkRow(pic, r2, p, hi, Row(k), After[k - 1])
    IN After[rows].path

(* The search of the first scan sees no column right of the pixel (none of *)
(* them has been scanned), those of the later scans see the whole row.     *)
LastColumn(pic, p, scanning) == IF scanning THEN X(pic, p) ELSE pic.w - 1

(* find_split sees the rows from y up, then those from y + 1 down, until a *)
(* row has no near pixel; a row is seen from x to the left, then from      *)
(* x + 1 to the right.  Its last column is the last ROW of the picture, so *)
(* only a picture that is square is seen whole.                            *)
SplitPath(pic, r2, p) ==
    LET x == X(pic, p)
        y == Y(pic, p)
        hi == pic.h - 1
        Row(v) ==
          LET cols == {c \in 0 .. hi : x <= hi /\ 4 * Distance(pic, p, c, v) <= r2}
              l == Cardinality({c \in cols : c <= x})
              r == Cardinality({c \in cols : c > x})
          IN [j \in 1 .. l |-> Pixel(pic, x - j + 1, v)] \o [j \in 1 .. r |-> Pixel(pic, x + j, v)]
        Up[v \in 0 .. y] ==
          LET row == Row(v) IN IF row = <<>> \/ v = 0 THEN row ELSE row \o Up[v - 1]
        Down[v \in y + 1 .. pic.h] ==
          IF v = pic.h \/ Row(v) = <<>> THEN <<>> ELSE Row(v) \o Down[v + 1]
    IN Up[y] \o Down[y + 1]

(* find_split goes on after a hit: the last one counts. *)
LastSeen(path, found) ==
    LET n == Len(path)
    IN FirstSeen([k \in 1 .. n |-> path[n - k + 1]], found)
=============================================================================
