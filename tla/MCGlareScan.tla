---------------------------- MODULE MCGlareScan ----------------------------
(* Small pictures for TLC.  A pixel of the first row has twice the solid   *)
(* angle of the others, so that sources of equal and of different size     *)
(* occur.                                                                  *)
EXTENDS GlareScan

Shape(w, h, lum) ==
    [w |-> w, h |-> h, lum |-> lum,
     omega |-> [p \in 1 .. w * h |-> IF (p - 1) % h = 0 THEN 2 ELSE 1]]

All(w, h, levels) == {Shape(w, h, lum) : lum \in [1 .. w * h -> levels]}

Plain(r2) == [r2 |-> r2, output |-> 0, ext |-> FALSE, sgs |-> FALSE, split |-> FALSE,
              zones |-> 0, series |-> FALSE]

Evaluate(pictures, options) == {[pic |-> p, opts |-> o] : p \in pictures, o \in options}

(* Every picture of 4 x 3 pixels, bright or dark, searched by neighbours. *)
Touching == Evaluate(All(4, 3, {0, 1}), {Plain(3)})

(* 3 x 3 pixels: all radii, the fast modes, zones, pixels outside. *)
Radii == Evaluate(All(3, 3, {0, 1}),
                  {Plain(r2) : r2 \in {1, 2, 4}}
                    \cup {[Plain(4) EXCEPT !.zones = 2],
                          [Plain(3) EXCEPT !.zones = 1, !.output = 1, !.ext = TRUE],
                          [Plain(1) EXCEPT !.output = 2, !.ext = TRUE, !.sgs = TRUE]})
Outside == Evaluate(All(2, 3, {-1, 0, 1}), {Plain(3)})

(* 5 x 5 pixels with a bright middle: the one pixel in the middle may be   *)
(* surrounded; any of the corners and the middles of the sides is bright.  *)
Ring == {1, 3, 5, 11, 15, 21, 23, 25}
Block == {7, 8, 9, 12, 13, 14, 17, 18, 19}
Blocks == {Shape(5, 5, [p \in 1 .. 25 |-> IF p \in S \cup Block THEN 1 ELSE 0]) : S \in SUBSET Ring}
Inside == Evaluate(Blocks, {Plain(5), [Plain(9) EXCEPT !.sgs = TRUE]})

(* 6 x 6 pixels of which any of nine, at the border and inside, are        *)
(* bright: radii at which both searches miss some near pixels.             *)
Spots == {x * 6 + y + 1 : x \in {0, 2, 5}, y \in {0, 3, 5}}
Sparse == {Shape(6, 6, [p \in 1 .. 36 |-> IF p \in S THEN 1 ELSE 0]) : S \in SUBSET Spots}
Wide == Evaluate(Sparse, {Plain(r2) : r2 \in {16, 25}})

(* Peaks: the limit is 2. *)
Peaked == {Shape(3, 3, [p \in 1 .. 9 |-> IF p <= 3 THEN a[p] ELSE IF p <= 6 THEN c ELSE b[p]]) :
             a \in [1 .. 3 -> {0, 1, 3}], c \in {0, 1}, b \in [7 .. 9 -> {0, 3}]}
Splits == Evaluate(Peaked \cup All(2, 2, 0 .. 3),
                   {[Plain(r2) EXCEPT !.split = TRUE] : r2 \in {2, 4}}
                     \cup {[Plain(9) EXCEPT !.split = TRUE, !.sgs = TRUE]})

Series == Evaluate(All(2, 2, {0, 1, 3}), {[Plain(r2) EXCEPT !.series = TRUE] : r2 \in {1, 2}})

MCJobs == Touching \cup Radii \cup Outside \cup Inside \cup Wide \cup Splits \cup Series

Zoned == Evaluate(All(3, 3, {0, 1}), {[Plain(1) EXCEPT !.zones = 2]})
=============================================================================
