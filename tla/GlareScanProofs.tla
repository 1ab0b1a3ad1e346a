-------------------------- MODULE GlareScanProofs --------------------------
(* Proofs about GlareScan, for all pictures, options, limits and zones and *)
(* for any number of images in a series: labels never leave the table, and *)
(* the table counts the pixels of every source; its measures agree with    *)
(* the picture; peaks and the rest are apart; the searches of the two      *)
(* scans miss nothing below a radius.  Only the last part looks into a     *)
(* search: before it, what one finds is a label in use, so that the proofs *)
(* hold for every order in which the pixels around a pixel are looked at.  *)
EXTENDS GlareScan, FiniteInduction

(* How many of the pixels 1 .. n have a label. *)
Count(f, n, g) == Cardinality({p \in 1 .. n : f[p] = g})

LEMMA SegmentFinite ==
  ASSUME NEW n \in Nat
  PROVE  IsFiniteSet(1 .. n)
<1>1. n \in Int /\ 1 \in Int
  OBVIOUS
<1>. QED BY <1>1, FS_Interval

LEMMA CountType ==
  ASSUME NEW n \in Nat, NEW f, NEW g
  PROVE  /\ IsFiniteSet({p \in 1 .. n : f[p] = g})
         /\ Count(f, n, g) \in Nat
<1>1. IsFiniteSet(1 .. n)
  BY FS_Interval
<1>2. IsFiniteSet({p \in 1 .. n : f[p] = g})
  BY <1>1, FS_Subset
<1>. QED BY <1>2, FS_CardinalityType DEF Count

(* How h differs from f: one pixel has another label; one label has given  *)
(* way to another.                                                         *)
Relabels(f, h, n, p, new) == \A q \in 1 .. n : h[q] = IF q = p THEN new ELSE f[q]
Joins(f, h, n, old, new) == \A q \in 1 .. n : h[q] = IF f[q] = old THEN new ELSE f[q]

(* A pixel that gets a new label is counted there and no longer where it was. *)
LEMMA RelabelCount ==
  ASSUME NEW n \in Nat, NEW f, NEW h, NEW p \in 1 .. n, NEW new, NEW g,
         Relabels(f, h, n, p, new)
  PROVE  Count(h, n, g)
           = Count(f, n, g) + (IF g = new THEN 1 ELSE 0) - (IF g = f[p] THEN 1 ELSE 0)
<1>. DEFINE S == {q \in 1 .. n : f[q] = g}
            T == {q \in 1 .. n : h[q] = g}
<1>. IsFiniteSet(1 .. n)
  BY FS_Interval
<1>. IsFiniteSet(S)
  BY FS_Subset
<1>1. IsFiniteSet(S) /\ Cardinality(S) \in Nat
  BY FS_CardinalityType
<1>2. /\ Count(h, n, g) = Cardinality(T)
      /\ Count(f, n, g) = Cardinality(S)
  BY DEF Count
<1>3. T = IF g = new THEN S \cup {p} ELSE S \ {p}
  BY DEF Relabels
<1>4. p \in S <=> g = f[p]
  OBVIOUS
<1>. HIDE DEF S, T
<1>5. CASE g = new
  <2>1. T = S \cup {p}
    BY <1>3, <1>5
  <2>2. Cardinality(S \cup {p}) = IF p \in S THEN Cardinality(S) ELSE Cardinality(S) + 1
    BY <1>1, FS_AddElement
  <2>. QED BY <1>1, <1>2, <1>4, <1>5, <2>1, <2>2
<1>6. CASE g # new
  <2>1. T = S \ {p}
    BY <1>3, <1>6
  <2>2. Cardinality(S \ {p}) = IF p \in S THEN Cardinality(S) - 1 ELSE Cardinality(S)
    BY <1>1, FS_RemoveElement
  <2>. QED BY <1>1, <1>2, <1>4, <1>6, <2>1, <2>2
<1>. QED BY <1>5, <1>6

(* A source that joins another leaves it all its pixels. *)
LEMMA MergeCount ==
  ASSUME NEW n \in Nat, NEW f, NEW h, NEW old, NEW new, old # new, NEW g,
         Joins(f, h, n, old, new)
  PROVE  Count(h, n, g)
           = IF g = old THEN 0
             ELSE IF g = new THEN Count(f, n, new) + Count(f, n, old) ELSE Count(f, n, g)
<1>. DEFINE S(k) == {q \in 1 .. n : f[q] = k}
            T == {q \in 1 .. n : h[q] = g}
<1>1. CASE g = old
  <2>1. T = {} BY <1>1 DEF Joins
  <2>. QED BY <2>1, <1>1, FS_EmptySet DEF Count
<1>2. CASE g = new
  <2>1. T = S(new) \cup S(old) /\ S(new) \cap S(old) = {} BY <1>2 DEF Joins
  <2>. IsFiniteSet(1 .. n) BY FS_Interval
  <2>2. IsFiniteSet(S(new)) /\ IsFiniteSet(S(old)) BY FS_Subset
  <2>3. Cardinality(S(new)) \in Nat /\ Cardinality(S(old)) \in Nat
    BY <2>2, FS_CardinalityType
  <2>. HIDE DEF S, T
  <2>4. Cardinality(T) = Cardinality(S(new)) + Cardinality(S(old)) - Cardinality({})
    BY <2>1, <2>2, FS_Union
  <2>5. Cardinality(T) = Cardinality(S(new)) + Cardinality(S(old))
    BY <2>3, <2>4, FS_EmptySet
  <2>. QED BY <2>5, <1>2 DEF Count, S, T
<1>3. CASE g # old /\ g # new
  <2>1. T = S(g) BY <1>3 DEF Joins
  <2>. QED BY <2>1, <1>3 DEF Count
<1>. QED BY <1>1, <1>2, <1>3

(* What a search gives is one of the pixels it was asked for, or nothing. *)
LEMMA FirstFound ==
  ASSUME NEW path, NEW S, FirstSeen(path, S) # 0
  PROVE  FirstSeen(path, S) \in S
<1>. DEFINE Least(k) == path[k] \in S /\ \A j \in DOMAIN path : path[j] \in S => k <= j
<1>1. \E k \in DOMAIN path : Least(k)
  BY DEF FirstSeen
<1>2. Least(CHOOSE k \in DOMAIN path : Least(k))
  BY <1>1
<1>. QED BY <1>1, <1>2 DEF FirstSeen

----------------------------------------------------------------------------
(* Labels, sources and the loops stay within their bounds. *)
LabelsInUse ==
  /\ Size \in Nat \ {0}
  /\ phase \in Phases
  /\ pos \in 1 .. Size
  /\ igs \in 0 .. MaxSources
  /\ gsn \in [1 .. Size -> 0 .. igs]
  /\ npix \in [Sources -> Int]
  /\ zone \in [Sources -> [1 .. 2 -> -2 .. igs]]
  /\ last \in 0 .. igs
  /\ i \in Nat \ {0} /\ start \in Nat \ {0} /\ imax \in Nat

(* The pixels the first scan has not reached have no label. *)
Unscanned == phase = "scan" => \A p \in 1 .. Size : p >= pos => gsn[p] = 0

(* A source not yet in use, or no longer, counts no pixels. *)
Unused == \A g \in Sources : g > igs => npix[g] = 0

(* Before the zones no source has one; in their scan, the source of a      *)
(* pixel not yet reached is not itself one that was made for a zone.       *)
ZonesOpen ==
  /\ phase \notin {"zones", "done"} => \A g \in Sources, k \in 1 .. 2 : zone[g][k] = 0
  /\ phase = "zones" =>
       \A p \in 1 .. Size : (p >= pos /\ gsn[p] # 0) =>
           \A k \in 1 .. 2 : zone[gsn[p]][k] >= 0

IInv == LabelsInUse /\ Unscanned /\ Unused /\ ZonesOpen /\ TableMatchesPicture

(* The picture is scanned as 1 .. Size. *)
LEMMA TableCounts ==
  TableMatchesPicture <=>
    \A g \in 1 .. igs : /\ npix[g] >= Count(gsn, Size, g)
                        /\ ~Smoothing => npix[g] = Count(gsn, Size, g)
BY DEF TableMatchesPicture, PixelsOf, Pixels, Count, Size

LEMMA PictureSize ==
  ASSUME NEW q, IsPicture(q)
  PROVE  q.w * q.h \in Nat \ {0}
<1>1. q.w \in Nat \ {0} /\ q.h \in Nat \ {0}
  BY DEF IsPicture
<1>2. \A a, b \in Nat \ {0} : a * b \in Nat \ {0}
  OBVIOUS
<1>. QED BY <1>1, <1>2

LEMMA InitIInv ==
  ASSUME GlareAssumption, Init
  PROVE  IInv
<1>1. Size \in Nat \ {0}
  BY PictureSize DEF Init, GlareAssumption, Size
<1>2. LabelsInUse
  BY <1>1 DEF Init, GlareAssumption, LabelsInUse, Phases, Sources, Pixels, Size
<1>3. Unscanned /\ Unused /\ ZonesOpen /\ TableMatchesPicture
  BY <1>1 DEF Init, Unscanned, Unused, ZonesOpen, TableMatchesPicture, Pixels, Size
<1>. QED BY <1>2, <1>3 DEF IInv

----------------------------------------------------------------------------
(* The changes of the labels: one pixel, or all the pixels of a source. *)

(* The loops never leave the picture. *)
LEMMA StepPos ==
  ASSUME LabelsInUse, NEW after \in Phases, Step(after)
  PROVE  pos' \in 1 .. Size /\ phase' \in Phases
BY DEF LabelsInUse, Step

(* One pixel gets another label, its old source (if any) counts one pixel  *)
(* less and the new one counts one more.                                   *)
Moves(g) ==
  /\ g \in Sources /\ g <= igs + 1
  /\ igs' = Larger(igs, g)
  /\ gsn' = [gsn EXCEPT ![pos] = g]
  /\ npix' \in [Sources -> Int]
  /\ \A n \in Sources : npix'[n] = npix[n] + (IF n = g THEN 1 ELSE 0)
                                          - (IF n = gsn[pos] THEN 1 ELSE 0)
  /\ pic' = pic /\ opts' = opts

LEMMA MovesLabels ==
  ASSUME GlareAssumption, LabelsInUse, NEW g, Moves(g)
  PROVE  /\ igs \in Nat /\ igs' \in 0 .. MaxSources /\ igs <= igs' /\ g <= igs'
         /\ gsn' \in [1 .. Size -> 0 .. igs']
<1>1. /\ igs \in Nat /\ MaxSources \in Nat /\ igs <= MaxSources /\ pos \in 1 .. Size
      /\ gsn \in [1 .. Size -> 0 .. igs]
  BY DEF GlareAssumption, LabelsInUse
<1>2. /\ g \in Nat /\ g <= MaxSources /\ igs' = IF igs < g THEN g ELSE igs
      /\ gsn' = [gsn EXCEPT ![pos] = g]
  BY <1>1 DEF Moves, Larger, Sources
<1>3. igs' \in 0 .. MaxSources /\ igs <= igs' /\ g <= igs'
  BY <1>1, <1>2
<1>4. g \in 0 .. igs' /\ \A n \in 0 .. igs : n \in 0 .. igs'
  BY <1>1, <1>2, <1>3
<1>. QED BY <1>1, <1>2, <1>3, <1>4

(* One pixel is counted for another source. *)
LEMMA RecountedCounts ==
  ASSUME npix \in [Sources -> Int], NEW old \in Sources, NEW new \in Sources
  PROVE  /\ Recounted(old, new) \in [Sources -> Int]
         /\ \A n \in Sources : Recounted(old, new)[n] = npix[n] + (IF n = new THEN 1 ELSE 0)
                                                              - (IF n = old THEN 1 ELSE 0)
<1>1. PICK counts : counts = Recounted(old, new)
  OBVIOUS
<1>2. /\ counts \in [Sources -> Int]
      /\ \A n \in Sources : counts[n] = npix[n] + (IF n = new THEN 1 ELSE 0)
                                              - (IF n = old THEN 1 ELSE 0)
  BY <1>1 DEF Recounted
<1>. QED BY <1>1, <1>2

LEMMA MovesCounts ==
  ASSUME GlareAssumption, LabelsInUse, Unused, TableMatchesPicture, NEW g, Moves(g)
  PROVE  Unused' /\ TableMatchesPicture'
<1>. DEFINE n == Size
<1>0. /\ n \in Nat /\ gsn \in [1 .. n -> Nat] /\ pos \in 1 .. n /\ g \in Nat
      /\ g \in 1 .. MaxSources /\ igs \in Nat /\ MaxSources \in Nat
      /\ gsn[pos] \in Nat /\ gsn[pos] <= igs
      /\ gsn \in [1 .. n -> 0 .. igs] /\ igs <= MaxSources
  <2>1. /\ n \in Nat /\ pos \in 1 .. n /\ igs \in Nat /\ MaxSources \in Nat
        /\ gsn \in [1 .. n -> 0 .. igs] /\ igs <= MaxSources
    BY DEF GlareAssumption, LabelsInUse
  <2>2. g \in Nat /\ g \in 1 .. MaxSources
    BY <2>1 DEF Moves, Sources
  <2>. HIDE DEF n
  <2>3. gsn[pos] \in 0 .. igs /\ \A m \in 0 .. igs : m \in Nat
    BY <2>1
  <2>4. gsn \in [1 .. n -> Nat]
    BY <2>1, <2>3
  <2>. QED BY <2>1, <2>2, <2>3, <2>4
<1>1. igs' \in Nat /\ igs <= igs' /\ igs' <= MaxSources /\ g <= igs'
      /\ (igs' = igs \/ (g = igs + 1 /\ igs' = g))
  BY <1>0 DEF Moves, Larger
<1>2. \A k \in Sources : npix[k] \in Int
  BY DEF LabelsInUse
<1>3. Unused'
  <2>. SUFFICES ASSUME NEW k \in Sources, k > igs'
                PROVE  npix'[k] = 0
    BY DEF Unused
  <2>1. k # g /\ k # gsn[pos] /\ k > igs
    BY <1>0, <1>1 DEF Sources
  <2>2. npix'[k] = npix[k] + 0 - 0 /\ npix[k] = 0
    BY <2>1 DEF Moves, Unused
  <2>. QED BY <2>2
<1>4. ASSUME NEW k \in 1 .. igs'
      PROVE  /\ npix[k] >= Count(gsn, n, k)
             /\ ~Smoothing => npix[k] = Count(gsn, n, k)
  <2>1. CASE k <= igs
    <3>1. k \in 1 .. igs
      BY <1>0, <1>1, <2>1
    <3>. QED BY <3>1, TableCounts
  <2>2. CASE k > igs
    <3>1. {q \in 1 .. n : gsn[q] = k} = {}
      BY <1>0, <1>1, <2>2
    <3>2. Count(gsn, n, k) = 0
      BY <3>1, FS_EmptySet DEF Count
    <3>3. npix[k] = 0
      BY <1>0, <1>1, <2>2 DEF Unused, Sources
    <3>. QED BY <3>2, <3>3
  <2>. QED BY <1>0, <1>1, <2>1, <2>2
<1>5. ASSUME NEW k \in 1 .. igs'
      PROVE  /\ npix'[k] >= Count(gsn', n, k)
             /\ ~Smoothing => npix'[k] = Count(gsn', n, k)
  <2>1. k \in Nat /\ k \in Sources
    BY <1>0, <1>1 DEF Sources
  <2>2. Count(gsn', n, k)
          = Count(gsn, n, k) + (IF k = g THEN 1 ELSE 0) - (IF k = gsn[pos] THEN 1 ELSE 0)
    <3>1. Relabels(gsn, gsn', n, pos, g)
      BY <1>0 DEF Moves, Relabels
    <3>. QED BY <1>0, <3>1, RelabelCount
  <2>3. npix'[k] = npix[k] + (IF k = g THEN 1 ELSE 0) - (IF k = gsn[pos] THEN 1 ELSE 0)
    BY <2>1 DEF Moves
  <2>4. Count(gsn, n, k) \in Nat /\ npix[k] \in Int
    BY <1>0, <1>2, <2>1, CountType
  <2>. QED BY <1>4, <2>2, <2>3, <2>4
<1>6. Size' = n /\ (Smoothing' <=> Smoothing)
  BY DEF Size, Smoothing, Moves
<1>7. TableMatchesPicture' <=>
        \A k \in 1 .. igs' : /\ npix'[k] >= Count(gsn', Size', k)
                             /\ ~Smoothing' => npix'[k] = Count(gsn', Size', k)
  BY DEF TableMatchesPicture, PixelsOf, Pixels, Count, Size
<1>. QED BY <1>3, <1>5, <1>6, <1>7

(* A source joins another one in use, or stays. *)
LEMMA CombineLabels ==
  ASSUME GlareAssumption, LabelsInUse, Unused, TableMatchesPicture,
         NEW old \in 0 .. igs, NEW new \in 0 .. igs, old # new => (old > 0 /\ new > 0),
         Combine(old, new), pic' = pic, opts' = opts, igs' = igs
  PROVE  /\ gsn' \in [1 .. Size -> 0 .. igs]
         /\ npix' \in [Sources -> Int]
         /\ Unused' /\ TableMatchesPicture'
<1>. DEFINE n == Size
<1>0. /\ n \in Nat /\ gsn \in [1 .. n -> 0 .. igs] /\ gsn \in [1 .. n -> Nat]
      /\ igs \in Nat /\ MaxSources \in Nat /\ igs <= MaxSources
      /\ npix \in [Sources -> Int]
  BY DEF GlareAssumption, LabelsInUse
<1>1. CASE old = new
  <2>1. gsn' = gsn /\ npix' = npix
    BY <1>1 DEF Combine
  <2>. QED BY <1>0, <2>1 DEF Unused, TableMatchesPicture, PixelsOf, Smoothing
<1>2. CASE old # new
  <2>1. Pixels(pic) = 1 .. n
    BY DEF Pixels, Size
  <2>2. PixelsOf(old) = {p \in 1 .. n : gsn[p] = old}
    BY <2>1 DEF PixelsOf
  <2>3. gsn' = [p \in 1 .. n |-> IF gsn[p] = old THEN new ELSE gsn[p]]
    BY <1>2, <2>1 DEF Combine
  <2>4. npix' = [npix EXCEPT ![old] = 0, ![new] = @ + Count(gsn, n, old)]
    BY <1>2, <2>2 DEF Combine, Count
  <2>5. Count(gsn, n, old) \in Nat /\ Count(gsn, n, new) \in Nat
    BY <1>0, CountType
  <2>6. gsn' \in [1 .. n -> 0 .. igs]
    BY <1>0, <2>3
  <2>7. old \in Sources /\ new \in Sources
    BY <1>0, <1>2 DEF Sources
  <2>8. /\ npix' \in [Sources -> Int]
        /\ npix'[old] = 0 /\ npix'[new] = npix[new] + Count(gsn, n, old)
        /\ \A k \in Sources : k # old /\ k # new => npix'[k] = npix[k]
    BY <1>0, <1>2, <2>4, <2>5, <2>7
  <2>9. Unused'
    BY <1>0, <2>8 DEF Unused
  <2>10. ASSUME NEW k \in 1 .. igs
         PROVE  /\ npix'[k] >= Count(gsn', n, k)
                /\ ~Smoothing => npix'[k] = Count(gsn', n, k)
    <3>1. k \in Nat /\ k \in Sources
      BY <1>0 DEF Sources
    <3>2. Count(gsn', n, k) =
            IF k = old THEN 0
            ELSE IF k = new THEN Count(gsn, n, new) + Count(gsn, n, old) ELSE Count(gsn, n, k)
      <4>1. Joins(gsn, gsn', n, old, new)
        BY <2>3 DEF Joins
      <4>. QED BY <1>0, <1>2, <4>1, MergeCount
    <3>3. /\ npix[k] >= Count(gsn, n, k)
          /\ ~Smoothing => npix[k] = Count(gsn, n, k)
      BY TableCounts
    <3>4. Count(gsn, n, k) \in Nat /\ npix[k] \in Int
      BY <1>0, <3>1, CountType
    <3>. QED BY <2>5, <2>8, <3>1, <3>2, <3>3, <3>4
  <2>11. Size' = n /\ (Smoothing' <=> Smoothing)
    BY DEF Size, Smoothing
  <2>12. TableMatchesPicture' <=>
           \A k \in 1 .. igs' : /\ npix'[k] >= Count(gsn', Size', k)
                                /\ ~Smoothing' => npix'[k] = Count(gsn', Size', k)
    BY DEF TableMatchesPicture, PixelsOf, Pixels, Count, Size
  <2>. QED BY <2>6, <2>8, <2>9, <2>10, <2>11, <2>12
<1>. QED BY <1>1, <1>2

(* The searches give the label of a source in use. *)
LEMMA NearbyInUse ==
  ASSUME LabelsInUse, NEW p
  PROVE  Nearby(p) \in 0 .. igs
<1>. DEFINE labelled == {q \in Pixels(pic) : gsn[q] > 0}
            up == FirstSeen(RowsAbove(p, TRUE), labelled)
            down == FirstSeen(RowsBelow(p, TRUE), labelled)
<1>1. up # 0 => up \in labelled
  BY FirstFound
<1>2. down # 0 => down \in labelled
  BY FirstFound
<1>3. \A q \in labelled : gsn[q] \in 0 .. igs
  BY DEF LabelsInUse, Pixels, Size
<1>4. Nearby(p) = IF down # 0 THEN gsn[down] ELSE IF up # 0 THEN gsn[up] ELSE 0
  BY DEF Nearby
<1>. HIDE DEF up, down, labelled
<1>. QED BY <1>1, <1>2, <1>3, <1>4 DEF LabelsInUse

LEMMA BiggerInUse ==
  ASSUME LabelsInUse, NEW p \in 1 .. Size, NEW lo \in Nat \ {0}
  PROVE  Bigger(p, lo) \in 0 .. igs /\ (Bigger(p, lo) # gsn[p] => Bigger(p, lo) > 0)
<1>. DEFINE up == FirstSeen(RowsAbove(p, FALSE), Above(lo, gsn[p]))
            one == IF up = 0 THEN gsn[p] ELSE gsn[up]
            down == FirstSeen(RowsBelow(p, FALSE), Above(lo, one))
<1>1. \A g : \A q \in Above(lo, g) : gsn[q] \in 0 .. igs /\ gsn[q] > 0
  BY DEF LabelsInUse, Above, Pixels, Size
<1>2. up # 0 => up \in Above(lo, gsn[p])
  BY FirstFound
<1>3. down # 0 => down \in Above(lo, one)
  <2>. HIDE DEF one
  <2>. QED BY FirstFound
<1>4. Bigger(p, lo) = IF down = 0 THEN one ELSE gsn[down]
  BY DEF Bigger
<1>5. gsn[p] \in 0 .. igs
  BY DEF LabelsInUse
<1>6. one \in 0 .. igs /\ (one # gsn[p] => one > 0)
  BY <1>1, <1>2, <1>5
<1>. HIDE DEF up, one, down
<1>. QED BY <1>1, <1>3, <1>4, <1>6

LEMMA SplitNearInUse ==
  ASSUME LabelsInUse, NEW p
  PROVE  SplitNear(p) \in 0 .. igs
<1>. DEFINE held == {r \in Pixels(pic) : gsn[r] >= start}
            q == LastSeen(SplitPaths[Search][p], held)
<1>1. q # 0 => q \in held
  <2>. DEFINE path == SplitPaths[Search][p]
              back == [k \in 1 .. Len(path) |-> path[Len(path) - k + 1]]
  <2>1. q = FirstSeen(back, held)
    BY DEF LastSeen
  <2>. HIDE DEF q, back, held
  <2>. QED BY <2>1, FirstFound
<1>2. \A r \in held : gsn[r] \in 0 .. igs
  BY DEF LabelsInUse, Pixels, Size
<1>3. SplitNear(p) = IF q = 0 THEN 0 ELSE gsn[q]
  BY DEF SplitNear
<1>. HIDE DEF q, held
<1>. QED BY <1>1, <1>2, <1>3 DEF LabelsInUse

----------------------------------------------------------------------------
(* What an action keeps by what it leaves alone. *)
LEMMA CountsKept ==
  ASSUME TableMatchesPicture, Unused, UNCHANGED <<pic, opts, gsn, igs, npix>>
  PROVE  Unused' /\ TableMatchesPicture'
BY DEF TableMatchesPicture, Unused, PixelsOf, Smoothing

LEMMA ZonesKept ==
  ASSUME GlareAssumption, LabelsInUse, ZonesOpen, phase \notin {"zones", "done"},
         zone' = zone, Size' = Size, igs' \in 0 .. MaxSources,
         gsn' \in [1 .. Size -> 0 .. igs']
  PROVE  /\ ZonesOpen'
         /\ zone' \in [Sources -> [1 .. 2 -> -2 .. igs']]
<1>1. \A g \in Sources, k \in 1 .. 2 : zone'[g][k] = 0
  BY DEF ZonesOpen
<1>2. zone' \in [Sources -> [1 .. 2 -> -2 .. igs']]
  <2>1. 0 \in -2 .. igs' /\ -2 .. igs' \subseteq Int
    BY DEF GlareAssumption
  <2>2. \A g \in Sources : zone'[g] \in [1 .. 2 -> -2 .. igs']
    BY <1>1, <2>1 DEF LabelsInUse
  <2>3. zone' = [g \in Sources |-> zone'[g]]
    BY DEF LabelsInUse
  <2>. QED BY <2>2, <2>3
<1>3. ASSUME NEW p \in 1 .. Size, gsn'[p] # 0, NEW k \in 1 .. 2
      PROVE  zone'[gsn'[p]][k] >= 0
  <2>1. gsn'[p] \in Sources
    BY <1>3 DEF Sources, GlareAssumption
  <2>. QED BY <1>1, <2>1
<1>4. ZonesOpen'
  BY <1>1, <1>3 DEF ZonesOpen
<1>. QED BY <1>2, <1>4

LEMMA PhasesAfter ==
  /\ AfterScan \in Phases \ {"scan", "zones", "done"}
  /\ AfterDirect \in Phases \ {"scan"}
BY DEF AfterScan, AfterDirect, Phases

----------------------------------------------------------------------------
(* The actions. *)
LEMMA ScanSourceIInv ==
  ASSUME GlareAssumption, IInv, ScanSource
  PROVE  IInv'
<1>. USE DEF IInv
<1>. DEFINE near == IF LastLabel = 0 \/ SearchEvery THEN Nearby(pos) ELSE LastLabel
            g == IF near = 0 THEN igs + 1 ELSE near
<1>1. pos \in 1 .. Size /\ igs \in 0 .. MaxSources /\ igs \in Nat /\ MaxSources \in Nat
  BY DEF LabelsInUse, GlareAssumption
<1>2. near \in 0 .. igs
  BY NearbyInUse DEF LastLabel, LabelsInUse
<1>3. g \in Sources /\ g <= igs + 1
  <2>1. g <= MaxSources
    BY DEF ScanSource
  <2>. HIDE DEF near
  <2>. QED BY <1>1, <1>2, <2>1 DEF Sources
<1>4. /\ igs' = Larger(igs, g) /\ gsn' = [gsn EXCEPT ![pos] = g]
      /\ npix' = [npix EXCEPT ![g] = @ + 1] /\ last' = g
      /\ UNCHANGED <<pic, opts, zone, i, imax, start>>
      /\ phase = "scan" /\ Step(AfterScan)
  BY DEF ScanSource
<1>. HIDE DEF near, g
<1>5. gsn[pos] = 0
  BY <1>1, <1>4 DEF Unscanned
<1>6. npix \in [Sources -> Int]
  BY DEF LabelsInUse
<1>7. Moves(g)
  <2>1. npix' \in [Sources -> Int] /\ \A n \in Sources : npix'[n] = IF n = g THEN npix[n] + 1 ELSE npix[n]
    BY <1>3, <1>4, <1>6
  <2>2. \A n \in Sources : n # gsn[pos]
    BY <1>5 DEF Sources
  <2>3. \A n \in Sources : npix'[n] = npix[n] + (IF n = g THEN 1 ELSE 0)
                                            - (IF n = gsn[pos] THEN 1 ELSE 0)
    BY <1>6, <2>1, <2>2
  <2>. QED BY <1>3, <1>4, <2>1, <2>3 DEF Moves
<1>8. Unused' /\ TableMatchesPicture'
  BY <1>7, MovesCounts
<1>9. /\ igs' \in 0 .. MaxSources /\ g <= igs' /\ gsn' \in [1 .. Size -> 0 .. igs']
  BY <1>7, MovesLabels
<1>10. Size' = Size
  BY <1>4 DEF Size
<1>11. ZonesOpen' /\ zone' \in [Sources -> [1 .. 2 -> -2 .. igs']]
  BY <1>4, <1>9, <1>10, ZonesKept
<1>12. pos' \in 1 .. Size /\ phase' \in Phases
  BY <1>4, PhasesAfter, StepPos
<1>13. Unscanned'
  <2>1. phase' = "scan" => pos' = pos + 1
    BY <1>4, PhasesAfter DEF Step
  <2>. QED BY <1>1, <1>4, <1>10, <2>1 DEF Unscanned, LabelsInUse
<1>14. LabelsInUse'
  <2>1. npix' \in [Sources -> Int] /\ last' = g
    BY <1>4, <1>7 DEF Moves
  <2>2. g \in 0 .. igs'
    BY <1>1, <1>3, <1>9 DEF Sources
  <2>3. i' \in Nat \ {0} /\ start' \in Nat \ {0} /\ imax' \in Nat
    BY <1>4 DEF LabelsInUse
  <2>4. Size' \in Nat \ {0} /\ pos' \in 1 .. Size' /\ gsn' \in [1 .. Size' -> 0 .. igs']
    BY <1>9, <1>10, <1>12 DEF LabelsInUse
  <2>. QED BY <1>9, <1>11, <1>12, <2>1, <2>2, <2>3, <2>4 DEF LabelsInUse
<1>. QED BY <1>8, <1>11, <1>13, <1>14

LEMMA ScanDarkIInv ==
  ASSUME GlareAssumption, IInv, ScanDark
  PROVE  IInv'
<1>. USE DEF IInv
<1>1. /\ UNCHANGED <<pic, opts, gsn, igs, npix, zone, i, imax, start>>
      /\ phase = "scan" /\ Step(AfterScan)
      /\ last' = IF pic.lum[pos] < 0 THEN LastLabel ELSE 0
  BY DEF ScanDark
<1>2. last' \in 0 .. igs
  BY <1>1 DEF LastLabel, LabelsInUse
<1>3. Size' = Size
  BY <1>1 DEF Size
<1>4. ZonesOpen'
  BY <1>1, <1>3, ZonesKept DEF LabelsInUse
<1>5. pos' \in 1 .. Size /\ phase' \in Phases
  BY <1>1, PhasesAfter, StepPos
<1>6. Unscanned'
  <2>1. phase' = "scan" => pos' = pos + 1
    BY <1>1, PhasesAfter DEF Step
  <2>. QED BY <1>1, <1>3, <2>1 DEF Unscanned, LabelsInUse
<1>7. LabelsInUse'
  BY <1>1, <1>2, <1>3, <1>5 DEF LabelsInUse
<1>. QED BY <1>1, <1>4, <1>6, <1>7, CountsKept

(* The second scan and the joining of peaks: both combine sources. *)
LEMMA CombineIInv ==
  ASSUME GlareAssumption, IInv, phase \notin {"zones", "done"}, phase' \in Phases \ {"scan"},
         pos' \in 1 .. Size,
         NEW other \in 0 .. igs, other # gsn[pos] => (gsn[pos] > 0 /\ other > 0),
         Combine(gsn[pos], other), i' \in Nat \ {0},
         UNCHANGED <<pic, opts, igs, zone, last, imax, start>>
  PROVE  IInv'
<1>. USE DEF IInv
<1>1. gsn[pos] \in 0 .. igs
  BY DEF LabelsInUse
<1>2. /\ gsn' \in [1 .. Size -> 0 .. igs] /\ npix' \in [Sources -> Int]
      /\ Unused' /\ TableMatchesPicture'
  BY <1>1, CombineLabels
<1>3. Size' = Size
  BY DEF Size
<1>4. ZonesOpen'
  BY <1>2, <1>3, ZonesKept DEF LabelsInUse
<1>5. Unscanned'
  BY DEF Unscanned
<1>6. LabelsInUse'
  BY <1>2, <1>3 DEF LabelsInUse
<1>. QED BY <1>2, <1>4, <1>5, <1>6

LEMMA SecondPixelIInv ==
  ASSUME GlareAssumption, IInv, SecondPixel
  PROVE  IInv'
<1>. DEFINE other == IF gsn[pos] = 0 \/ Surrounded(pos) THEN gsn[pos] ELSE Bigger(pos, 1)
<1>1. /\ phase = "second" /\ Combine(gsn[pos], other) /\ Repeat(change \/ other # gsn[pos], "smooth")
      /\ UNCHANGED <<pic, opts, igs, zone, last, i, imax, start>>
  BY DEF SecondPixel
<1>2. /\ pos \in 1 .. Size /\ gsn[pos] \in 0 .. igs /\ i \in Nat \ {0} /\ igs \in Nat
      /\ LabelsInUse
  BY DEF IInv, LabelsInUse
<1>3. other \in 0 .. igs /\ (other # gsn[pos] => (gsn[pos] > 0 /\ other > 0))
  <2>1. Bigger(pos, 1) \in 0 .. igs /\ (Bigger(pos, 1) # gsn[pos] => Bigger(pos, 1) > 0)
    BY <1>2, BiggerInUse
  <2>. QED BY <1>2, <2>1
<1>. HIDE DEF other
<1>4. pos' \in 1 .. Size /\ phase' \in Phases \ {"scan"}
  <2>. DEFINE after == IF change \/ other # gsn[pos] THEN phase ELSE "smooth"
  <2>1. Step(after)
    BY <1>1 DEF Repeat
  <2>2. after \in {"second", "smooth"}
    BY <1>1
  <2>. HIDE DEF after
  <2>3. pos' \in 1 .. Size
    BY <1>2, <2>1 DEF Step, LabelsInUse
  <2>4. phase' \in Phases \ {"scan"}
    BY <1>1, <2>1, <2>2 DEF Step, Phases
  <2>. QED BY <2>3, <2>4
<1>. QED BY <1>1, <1>2, <1>3, <1>4, CombineIInv

LEMMA JoinPixelIInv ==
  ASSUME GlareAssumption, IInv, JoinPixel
  PROVE  IInv'
<1>. DEFINE other == IF gsn[pos] < start THEN gsn[pos] ELSE Bigger(pos, start)
<1>1. /\ phase = "join" /\ Combine(gsn[pos], other) /\ Repeat(change \/ other # gsn[pos], "choose")
      /\ i' \in {i, i + 1}
      /\ UNCHANGED <<pic, opts, igs, zone, last, imax, start>>
  BY DEF JoinPixel
<1>2. /\ pos \in 1 .. Size /\ gsn[pos] \in 0 .. igs /\ i \in Nat \ {0} /\ igs \in Nat
      /\ start \in Nat \ {0} /\ LabelsInUse
  BY DEF IInv, LabelsInUse
<1>3. other \in 0 .. igs /\ (other # gsn[pos] => (gsn[pos] > 0 /\ other > 0))
  <2>1. Bigger(pos, start) \in 0 .. igs
        /\ (Bigger(pos, start) # gsn[pos] => Bigger(pos, start) > 0)
    BY <1>2, BiggerInUse
  <2>. QED BY <1>2, <2>1
<1>. HIDE DEF other
<1>4. pos' \in 1 .. Size /\ phase' \in Phases \ {"scan"} /\ i' \in Nat \ {0}
  <2>. DEFINE after == IF change \/ other # gsn[pos] THEN phase ELSE "choose"
  <2>1. Step(after)
    BY <1>1 DEF Repeat
  <2>2. after \in {"join", "choose"}
    BY <1>1
  <2>. HIDE DEF after
  <2>3. pos' \in 1 .. Size
    BY <1>2, <2>1 DEF Step, LabelsInUse
  <2>4. phase' \in Phases \ {"scan"}
    BY <1>1, <2>1, <2>2 DEF Step, Phases
  <2>. QED BY <1>1, <1>2, <2>3, <2>4
<1>. QED BY <1>1, <1>3, <1>4, CombineIInv

(* Smoothing: a pixel without label gets that of the last source it joins, *)
(* and is counted for all of them.                                         *)
LEMMA SmoothPixelIInv ==
  ASSUME GlareAssumption, IInv, SmoothPixel
  PROVE  IInv'
<1>. USE DEF IInv
<1>. DEFINE joined == IF gsn[pos] = 0 /\ pic.lum[pos] >= 0 THEN Filling(pos) ELSE {}
<1>1. /\ phase = "smooth" /\ Smoothing /\ Step("limit")
      /\ UNCHANGED <<pic, opts, igs, zone, last, i, imax, start>>
      /\ \/ UNCHANGED <<gsn, npix>>
         \/ \E g \in joined :
               /\ gsn' = [gsn EXCEPT ![pos] = g]
               /\ npix' = [n \in Sources |-> IF n \in joined THEN npix[n] + 1 ELSE npix[n]]
  BY DEF SmoothPixel
<1>2. joined # {} => gsn[pos] = 0
  OBVIOUS
<1>3. joined \subseteq 1 .. igs
  BY DEF Filling
<1>. HIDE DEF joined
<1>4. /\ Size' = Size /\ igs \in 0 .. MaxSources /\ igs' = igs /\ MaxSources \in Nat
      /\ gsn \in [1 .. Size -> 0 .. igs] /\ npix \in [Sources -> Int] /\ pos \in 1 .. Size
      /\ Size \in Nat /\ (Smoothing' <=> Smoothing)
  BY <1>1 DEF Size, LabelsInUse, GlareAssumption, Smoothing
<1>5. /\ gsn' \in [1 .. Size -> 0 .. igs] /\ npix' \in [Sources -> Int]
      /\ Unused' /\ TableMatchesPicture'
  <2>1. CASE UNCHANGED <<gsn, npix>>
    BY <1>1, <1>4, <2>1, CountsKept
  <2>2. ASSUME NEW g \in joined,
               gsn' = [gsn EXCEPT ![pos] = g],
               npix' = [n \in Sources |-> IF n \in joined THEN npix[n] + 1 ELSE npix[n]]
        PROVE  /\ gsn' \in [1 .. Size -> 0 .. igs] /\ npix' \in [Sources -> Int]
               /\ Unused' /\ TableMatchesPicture'
    <3>1. gsn' \in [1 .. Size -> 0 .. igs] /\ npix' \in [Sources -> Int]
      BY <1>3, <1>4, <2>2
    <3>2. Unused'
      BY <1>3, <1>4, <2>2 DEF Unused, Sources
    <3>3. ASSUME NEW k \in 1 .. igs
          PROVE  npix'[k] >= Count(gsn', Size, k)
      <4>1. Relabels(gsn, gsn', Size, pos, g)
        BY <1>4, <2>2 DEF Relabels
      <4>2. Count(gsn', Size, k)
              = Count(gsn, Size, k) + (IF k = g THEN 1 ELSE 0) - (IF k = gsn[pos] THEN 1 ELSE 0)
        BY <1>4, <4>1, RelabelCount
      <4>3. k # gsn[pos]
        BY <1>2, <1>4
      <4>4. Count(gsn, Size, k) \in Nat
        BY <1>4, CountType
      <4>5. npix[k] >= Count(gsn, Size, k)
        BY TableCounts
      <4>6. npix[k] \in Int /\ npix'[k] = IF k \in joined THEN npix[k] + 1 ELSE npix[k]
        BY <1>4, <2>2 DEF Sources
      <4>. QED BY <4>2, <4>3, <4>4, <4>5, <4>6
    <3>4. TableMatchesPicture' <=>
            \A k \in 1 .. igs' : /\ npix'[k] >= Count(gsn', Size', k)
                                 /\ ~Smoothing' => npix'[k] = Count(gsn', Size', k)
      BY DEF TableMatchesPicture, PixelsOf, Pixels, Count, Size
    <3>. QED BY <1>1, <1>4, <3>1, <3>2, <3>3, <3>4
  <2>. QED BY <1>1, <2>1, <2>2
<1>6. ZonesOpen'
  BY <1>1, <1>4, <1>5, ZonesKept
<1>7. pos' \in 1 .. Size /\ phase' \in Phases /\ phase' # "scan"
  BY <1>1, <1>4 DEF Step, Phases
<1>8. LabelsInUse' /\ Unscanned'
  BY <1>1, <1>4, <1>5, <1>7 DEF LabelsInUse, Unscanned
<1>. QED BY <1>5, <1>6, <1>8

(* The extraction: a peak leaves its source for one of the new ones. *)
LEMMA PeakPixelIInv ==
  ASSUME GlareAssumption, IInv, PeakPixel
  PROVE  IInv'
<1>. USE DEF IInv
<1>. DEFINE near == IF start = igs + 1 THEN 0 ELSE SplitNear(pos)
            g == IF near = 0 THEN igs + 1 ELSE near
<1>1. /\ phase = "peaks" /\ Step("join")
      /\ UNCHANGED <<pic, opts, zone, last, i, imax, start>>
      /\ \/ UNCHANGED <<igs, gsn, npix>>
         \/ /\ gsn[pos] = i /\ g <= MaxSources
            /\ igs' = Larger(igs, g) /\ gsn' = [gsn EXCEPT ![pos] = g]
            /\ npix' = Recounted(i, g)
  BY DEF PeakPixel
<1>2. /\ Size' = Size /\ igs \in 0 .. MaxSources /\ MaxSources \in Nat /\ pos \in 1 .. Size
      /\ gsn \in [1 .. Size -> 0 .. igs] /\ npix \in [Sources -> Int] /\ Size \in Nat
      /\ i \in Nat \ {0}
  BY <1>1 DEF Size, LabelsInUse, GlareAssumption
<1>3. near \in 0 .. igs
  <2>1. SplitNear(pos) \in 0 .. igs
    BY SplitNearInUse
  <2>. QED BY <1>2, <2>1
<1>. HIDE DEF near
<1>4. /\ igs' \in 0 .. MaxSources /\ igs <= igs' /\ gsn' \in [1 .. Size -> 0 .. igs']
      /\ npix' \in [Sources -> Int] /\ Unused' /\ TableMatchesPicture'
  <2>1. CASE UNCHANGED <<igs, gsn, npix>>
    BY <1>1, <1>2, <2>1, CountsKept
  <2>2. CASE /\ gsn[pos] = i /\ g <= MaxSources
             /\ igs' = Larger(igs, g) /\ gsn' = [gsn EXCEPT ![pos] = g]
             /\ npix' = Recounted(i, g)
    <3>1. g \in Sources /\ g <= igs + 1
      BY <1>2, <1>3, <2>2 DEF Sources
    <3>. HIDE DEF g
    <3>2. i \in Sources
      BY <1>2, <2>2 DEF Sources
    <3>3. /\ npix' \in [Sources -> Int]
          /\ \A n \in Sources : npix'[n] = npix[n] + (IF n = g THEN 1 ELSE 0)
                                                  - (IF n = gsn[pos] THEN 1 ELSE 0)
      <4>1. npix' = Recounted(i, g) /\ i = gsn[pos] /\ npix \in [Sources -> Int]
        BY <1>2, <2>2
      <4>2. /\ Recounted(i, g) \in [Sources -> Int]
            /\ \A n \in Sources : Recounted(i, g)[n] = npix[n] + (IF n = g THEN 1 ELSE 0)
                                                            - (IF n = i THEN 1 ELSE 0)
        BY <4>1, <3>1, <3>2, RecountedCounts
      <4>. QED BY <4>1, <4>2
    <3>4. Moves(g)
      BY <1>1, <2>2, <3>1, <3>3 DEF Moves
    <3>. QED BY <3>3, <3>4, MovesCounts, MovesLabels
  <2>. QED BY <1>1, <2>1, <2>2
<1>5. ZonesOpen' /\ zone' \in [Sources -> [1 .. 2 -> -2 .. igs']]
  BY <1>1, <1>2, <1>4, ZonesKept
<1>6. pos' \in 1 .. Size /\ phase' \in Phases /\ phase' # "scan"
  BY <1>1, <1>2 DEF Step, Phases
<1>7. last' \in 0 .. igs'
  BY <1>1, <1>2, <1>4 DEF LabelsInUse
<1>8. LabelsInUse' /\ Unscanned'
  BY <1>1, <1>2, <1>4, <1>5, <1>6, <1>7 DEF LabelsInUse, Unscanned
<1>. QED BY <1>4, <1>5, <1>8

(* The actions that change neither labels nor counts. *)
LEMMA KeepingIInv ==
  ASSUME GlareAssumption, IInv,
         NoSmoothing \/ BeginSplit \/ ChooseSource \/ NoDirect \/ DirectPixel \/ Finished
  PROVE  IInv'
<1>. USE DEF IInv
<1>0. igs \in Nat /\ i \in Nat \ {0} /\ start \in Nat \ {0} /\ imax \in Nat
  BY DEF LabelsInUse, GlareAssumption
<1>1. /\ UNCHANGED <<pic, opts, gsn, igs, npix, zone, last>>
      /\ i' \in Nat \ {0} /\ start' \in Nat \ {0} /\ imax' \in Nat
  <2>1. CASE NoSmoothing \/ NoDirect \/ DirectPixel \/ Finished
    BY <1>0, <2>1 DEF NoSmoothing, NoDirect, DirectPixel, Finished, vars
  <2>2. CASE BeginSplit
    BY <1>0, <2>2 DEF BeginSplit
  <2>3. CASE ChooseSource
    BY <1>0, <2>3 DEF ChooseSource
  <2>. QED BY <2>1, <2>2, <2>3
<1>2. pos' \in 1 .. Size
  BY DEF NoSmoothing, BeginSplit, ChooseSource, NoDirect, DirectPixel, Finished, vars,
         LabelsInUse, Step
<1>3. \/ phase \notin {"scan", "zones", "done"} /\ phase' \in Phases \ {"scan"}
      \/ phase = "done" /\ phase' = "done"
  BY PhasesAfter DEF NoSmoothing, BeginSplit, ChooseSource, NoDirect, DirectPixel, Finished,
         vars, Step, Phases
<1>4. Size' = Size
  BY <1>1 DEF Size
<1>5. LabelsInUse' /\ Unscanned'
  BY <1>1, <1>2, <1>3, <1>4 DEF LabelsInUse, Unscanned, Phases
<1>6. ZonesOpen'
  <2>1. CASE phase = "done" /\ phase' = "done"
    BY <2>1 DEF ZonesOpen
  <2>2. CASE phase \notin {"scan", "zones", "done"}
    BY <1>1, <1>4, <2>2, ZonesKept DEF LabelsInUse
  <2>. QED BY <1>3, <2>1, <2>2
<1>. QED BY <1>1, <1>5, <1>6, CountsKept

(* The zones: the label a pixel gets is a new one, or one made for its     *)
(* source before; the mark -1 or -2 of a source made for a zone is never   *)
(* taken for a label.                                                      *)
LEMMA ZonePixelIInv ==
  ASSUME GlareAssumption, IInv, ZonePixel
  PROVE  IInv'
<1>. USE DEF IInv
<1>. DEFINE g == gsn[pos]
            z == ZoneOf(pos)
            new == IF zone[g][z] = 0 THEN igs + 1 ELSE zone[g][z]
<1>1. /\ phase = "zones" /\ Step("done")
      /\ UNCHANGED <<pic, opts, last, i, imax, start>>
      /\ \/ UNCHANGED <<igs, gsn, npix, zone>>
         \/ /\ g # 0 /\ z # 0 /\ new <= MaxSources
            /\ igs' = Larger(igs, new) /\ gsn' = [gsn EXCEPT ![pos] = new]
            /\ npix' = Recounted(g, new)
            /\ zone' = IF zone[g][z] # 0 THEN zone
                       ELSE [zone EXCEPT ![g][z] = new, ![new] = [k \in 1 .. 2 |-> -z]]
  BY DEF ZonePixel
<1>2. z \in 0 .. 2
  BY DEF ZoneOf
<1>. HIDE DEF z
<1>3. /\ Size' = Size /\ igs \in 0 .. MaxSources /\ MaxSources \in Nat /\ pos \in 1 .. Size
      /\ gsn \in [1 .. Size -> 0 .. igs] /\ npix \in [Sources -> Int] /\ Size \in Nat
      /\ zone \in [Sources -> [1 .. 2 -> -2 .. igs]]
  BY <1>1 DEF Size, LabelsInUse, GlareAssumption
<1>4. pos' \in 1 .. Size /\ phase' \in {"zones", "done"} /\ (phase' = "zones" => pos' = pos + 1)
  BY <1>1, <1>3 DEF Step
<1>5. CASE UNCHANGED <<igs, gsn, npix, zone>>
  <2>1. LabelsInUse' /\ Unscanned'
    BY <1>1, <1>3, <1>4, <1>5 DEF LabelsInUse, Unscanned, Phases
  <2>2. ZonesOpen'
    BY <1>1, <1>3, <1>4, <1>5 DEF ZonesOpen
  <2>. QED BY <1>1, <1>5, <2>1, <2>2, CountsKept
<1>6. CASE /\ g # 0 /\ z # 0 /\ new <= MaxSources
           /\ igs' = Larger(igs, new) /\ gsn' = [gsn EXCEPT ![pos] = new]
           /\ npix' = Recounted(g, new)
           /\ zone' = IF zone[g][z] # 0 THEN zone
                      ELSE [zone EXCEPT ![g][z] = new, ![new] = [k \in 1 .. 2 |-> -z]]
  <2>1. g \in 1 .. igs /\ g \in Sources /\ z \in 1 .. 2
    <3>1. g \in 0 .. igs
      BY <1>3
    <3>2. g # 0 /\ z # 0
      BY <1>6
    <3>3. igs \in Nat /\ igs <= MaxSources
      BY <1>3
    <3>. HIDE DEF g
    <3>. QED BY <1>2, <1>3, <3>1, <3>2, <3>3 DEF Sources
  <2>2. zone[g][z] \in -2 .. igs /\ zone[g][z] >= 0
    <3>1. zone[g][z] \in -2 .. igs
      BY <1>3, <2>1
    <3>2. zone[g][z] >= 0
      BY <1>1, <1>3, <2>1 DEF ZonesOpen
    <3>. QED BY <3>1, <3>2
  <2>3. new \in Sources /\ new <= igs + 1
    <3>1. new <= MaxSources
      BY <1>6
    <3>2. new \in Int /\ new >= 1 /\ new <= igs + 1
      <4>. HIDE DEF g
      <4>. QED BY <1>3, <2>2
    <3>. HIDE DEF new
    <3>. QED BY <1>3, <3>1, <3>2 DEF Sources
  <2>4. zone[g][z] = 0 => new = igs + 1
    OBVIOUS
  <2>. HIDE DEF new
  <2>5. /\ npix' \in [Sources -> Int]
        /\ \A n \in Sources : npix'[n] = npix[n] + (IF n = new THEN 1 ELSE 0)
                                                - (IF n = g THEN 1 ELSE 0)
    <3>1. npix' = Recounted(g, new)
      BY <1>6
    <3>2. npix \in [Sources -> Int] /\ g \in Sources /\ new \in Sources
      BY <1>3, <2>1, <2>3
    <3>. HIDE DEF g
    <3>. QED BY <3>1, <3>2, RecountedCounts
  <2>6. Moves(new)
    BY <1>1, <1>6, <2>3, <2>5 DEF Moves
  <2>7. Unused' /\ TableMatchesPicture'
    BY <2>6, MovesCounts
  <2>8. /\ igs' \in 0 .. MaxSources /\ igs <= igs' /\ new <= igs'
        /\ gsn' \in [1 .. Size -> 0 .. igs']
    BY <2>6, MovesLabels
  <2>9. zone' \in [Sources -> [1 .. 2 -> -2 .. igs']]
    <3>1. new \in -2 .. igs' /\ -z \in -2 .. igs' /\ -2 .. igs \subseteq -2 .. igs'
      <4>1. /\ igs \in Nat /\ igs' \in Nat /\ igs <= igs' /\ new <= igs' /\ new \in Nat
            /\ z \in 1 .. 2
        BY <1>3, <2>1, <2>3, <2>8 DEF Sources
      <4>. QED BY <4>1
    <3>2. zone \in [Sources -> [1 .. 2 -> -2 .. igs']]
      BY <1>3, <3>1
    <3>. HIDE DEF g
    <3>. QED BY <1>6, <2>1, <2>3, <3>1, <3>2
  <2>10. ASSUME phase' = "zones", NEW p \in 1 .. Size, p >= pos', gsn'[p] # 0, NEW k \in 1 .. 2
         PROVE  zone'[gsn'[p]][k] >= 0
    <3>1. p >= pos /\ p # pos
      BY <1>3, <1>4, <2>10
    <3>2. gsn'[p] = gsn[p] /\ gsn[p] \in 1 .. igs /\ gsn[p] \in Sources
      <4>1. gsn' = [gsn EXCEPT ![pos] = new]
        BY <1>6
      <4>2. gsn'[p] = gsn[p] /\ gsn[p] \in 0 .. igs
        BY <1>3, <3>1, <4>1
      <4>3. gsn[p] # 0
        BY <2>10, <4>2
      <4>4. igs \in Nat /\ MaxSources \in Nat /\ igs <= MaxSources
        BY <1>3
      <4>. QED BY <4>2, <4>3, <4>4 DEF Sources
    <3>3. zone[gsn[p]][k] >= 0
      BY <1>1, <3>1, <3>2 DEF ZonesOpen
    <3>4. CASE zone[g][z] # 0
      BY <1>6, <3>2, <3>3, <3>4
    <3>5. CASE zone[g][z] = 0
      <4>1. gsn[p] # new
        BY <1>3, <2>4, <3>2, <3>5
      <4>2. zone' = [zone EXCEPT ![g][z] = new, ![new] = [j \in 1 .. 2 |-> -z]]
        BY <1>6, <3>5
      <4>3. zone'[gsn[p]][k] \in {zone[gsn[p]][k], new}
        <5>. HIDE DEF g
        <5>. QED BY <1>3, <2>1, <2>3, <3>2, <4>1, <4>2
      <4>. QED BY <2>3, <3>2, <3>3, <4>3 DEF Sources
    <3>. QED BY <3>4, <3>5
  <2>11. ZonesOpen'
    BY <1>3, <1>4, <2>10 DEF ZonesOpen
  <2>12. last' \in 0 .. igs'
    BY <1>1, <1>3, <2>8 DEF LabelsInUse
  <2>13. LabelsInUse' /\ Unscanned'
    BY <1>1, <1>3, <1>4, <2>5, <2>8, <2>9, <2>12 DEF LabelsInUse, Unscanned, Phases
  <2>. QED BY <2>7, <2>11, <2>13
<1>. QED BY <1>1, <1>5, <1>6

(* The next image of a series starts without labels and without counts. *)
LEMMA OutputIInv ==
  ASSUME GlareAssumption, IInv, Output
  PROVE  IInv'
<1>. USE DEF IInv
<1>1. /\ phase = "out" /\ phase' \in {"scan", "done"}
      /\ npix' = [g \in Sources |-> IF g <= igs THEN 0 ELSE npix[g]]
      /\ igs' = 0 /\ gsn' = [p \in 1 .. Size |-> 0] /\ last' = 0
      /\ UNCHANGED <<pos, zone, i, imax, start>>
      /\ pic'.w = pic.w /\ pic'.h = pic.h
  BY DEF Output, Pixels, Size
<1>2. Size' = Size
  BY <1>1 DEF Size
<1>3. /\ igs \in 0 .. MaxSources /\ MaxSources \in Nat /\ Size \in Nat \ {0}
      /\ npix \in [Sources -> Int]
  BY DEF LabelsInUse, GlareAssumption
<1>4. npix' \in [Sources -> Int] /\ Unused'
  BY <1>1, <1>3 DEF Unused, Sources
<1>5. igs' \in 0 .. MaxSources /\ gsn' \in [1 .. Size -> 0 .. igs'] /\ last' \in 0 .. igs'
  BY <1>1, <1>3
<1>6. ZonesOpen' /\ zone' \in [Sources -> [1 .. 2 -> -2 .. igs']]
  BY <1>1, <1>2, <1>5, ZonesKept
<1>7. TableMatchesPicture'
  BY <1>1 DEF TableMatchesPicture
<1>8. LabelsInUse' /\ Unscanned'
  BY <1>1, <1>2, <1>4, <1>5, <1>6 DEF LabelsInUse, Unscanned, Phases
<1>. QED BY <1>4, <1>6, <1>7, <1>8

LEMMA StepIInv ==
  ASSUME GlareAssumption, IInv, [Next]_vars
  PROVE  IInv'
<1>1. CASE UNCHANGED vars
  <2>1. UNCHANGED <<pic, opts, phase, pos, gsn, igs, npix, zone, last, i, imax, start>>
    BY <1>1 DEF vars
  <2>2. LabelsInUse' /\ Unscanned' /\ ZonesOpen'
    BY <2>1 DEF IInv, LabelsInUse, Unscanned, ZonesOpen, Size
  <2>. QED BY <2>1, <2>2, CountsKept DEF IInv
<1>2. CASE Next
  BY <1>2, ScanSourceIInv, ScanDarkIInv, SecondPixelIInv, SmoothPixelIInv, PeakPixelIInv,
     JoinPixelIInv, KeepingIInv, ZonePixelIInv, OutputIInv DEF Next
<1>. QED BY <1>1, <1>2

(* In every reachable state every label is that of a source in use, the    *)
(* loops stay in the picture, and the table counts every pixel.            *)
THEOREM IInvAlways == Spec => []IInv
<1>1. GlareAssumption
  BY GlareAssumption
<1>2. Init => IInv
  BY <1>1, InitIInv
<1>3. IInv /\ [Next]_vars => IInv'
  BY <1>1, StepIInv
<1>. QED BY <1>2, <1>3, PTL DEF Spec

(* Labels index the table of sources without any check in the program      *)
(* (pgs_f[gsn]): they are always those of sources that exist.              *)
THEOREM LabelsInUseAlways == Spec => []LabelsInUse
<1>1. IInv => LabelsInUse
  BY DEF IInv
<1>. QED BY <1>1, IInvAlways, PTL

(* The pixel counts of the table agree with the labels of the picture      *)
(* through scans, combinations, splits, zones and the images of a series,  *)
(* whatever the picture and the options.                                   *)
THEOREM TableMatchesPictureAlways == Spec => []TableMatchesPicture
<1>1. IInv => TableMatchesPicture
  BY DEF IInv
<1>. QED BY <1>1, IInvAlways, PTL
----------------------------------------------------------------------------
(* The measures of the sources.  A picture, the table and the counters     *)
(* keep their types.                                                       *)
Shapes ==
  /\ IsPicture(pic) /\ opts \in Options
  /\ tab \in [Sources -> Entry]
  /\ imax \in 0 .. MaxSources /\ i \in 1 .. imax + 1
  /\ phase \in {"peaks", "join"} => i <= imax
  /\ change \in BOOLEAN /\ peak \in Int /\ evdir \in Int /\ image \in 1 .. MaxImages

(* A loop that is left out, or has not begun, is at the first pixel. *)
AtStart ==
  /\ phase \in {"limit", "choose", "out"} => pos = 1
  /\ (phase = "smooth" /\ ~Smoothing) => pos = 1

(* lum_max is a bound of the pixels of the source.  (It need not be one of *)
(* them: a source keeps it when its peaks leave.)                          *)
BrightestKnown ==
  \A p \in Pixels(pic) : gsn[p] # 0 => tab[gsn[p]].lmax >= pic.lum[p]

(* Without smoothing av_omega is the solid angle of the pixels. *)
AnglesAdded ==
  /\ \A g \in Sources : g > igs => tab[g].omega = 0
  /\ ~Smoothing => \A g \in 1 .. igs : tab[g].omega = AngleOf(PixelsOf(g))

(* The pixels of the sources before the i-th, and of the i-th as far as it *)
(* has been gone through, are not peaks; those of the new sources are.     *)
Treated(p) ==
  \/ gsn[p] # 0 /\ gsn[p] < i
  \/ gsn[p] = i /\ (phase = "join" \/ (phase = "peaks" /\ p < pos))

Extracting ==
  \/ phase \in {"choose", "peaks", "join"}
  \/ phase = "direct" /\ Splitting

PeaksFound ==
  Extracting =>
    /\ imax <= igs
    /\ \A p \in Pixels(pic) : gsn[p] > imax => pic.lum[p] >= Limit
    /\ \A p \in Pixels(pic) : Treated(p) => pic.lum[p] < Limit
    /\ phase \in {"peaks", "join"} => start > imax
    /\ phase = "direct" => i > imax

(* The direct light is that of the pixels the loop has reached. *)
Reached ==
  IF phase = "direct" THEN 1 .. (pos - 1)
  ELSE IF phase \in {"zones", "done"} THEN Pixels(pic) ELSE {}

AllDirect == SumFunctionOnSet([g \in Sources |-> tab[g].direct], Sources)

LightCounted ==
  ~opts.series =>
    /\ phase # "out" /\ (phase = "zones" => opts.zones # 0)
    /\ \A g \in Sources : g > igs => tab[g].direct = 0
    /\ Calcfast # 1 =>
         /\ evdir = LabelledLight(Reached)
         /\ AllDirect = evdir
         /\ (phase \notin {"zones", "done"} \/ opts.zones = 0) =>
              \A g \in Sources : tab[g].direct = LabelledLight(Reached \cap PixelsOf(g))

MInv == Shapes /\ AtStart /\ BrightestKnown /\ AnglesAdded /\ PeaksFound /\ LightCounted

(* What the pixels 1 .. n with a label weigh. *)
Weight(w, f, n, g) == SumFunctionOnSet(w, {p \in 1 .. n : f[p] = g})

LEMMA WeightType ==
  ASSUME NEW n \in Nat, NEW w, Integral(w, 1 .. n), NEW f, NEW g
  PROVE  /\ IsFiniteSet({p \in 1 .. n : f[p] = g})
         /\ Integral(w, {p \in 1 .. n : f[p] = g})
         /\ Weight(w, f, n, g) \in Int
<1>1. IsFiniteSet({p \in 1 .. n : f[p] = g})
  BY CountType
<1>2. Integral(w, {p \in 1 .. n : f[p] = g})
  BY DEF Integral
<1>. QED BY <1>1, <1>2, SumInt DEF Weight

(* A pixel that gets a new label weighs there and no longer where it was. *)
LEMMA RelabelWeight ==
  ASSUME NEW n \in Nat, NEW w, Integral(w, 1 .. n), NEW f, NEW h, NEW p \in 1 .. n,
         NEW new, NEW g, Relabels(f, h, n, p, new)
  PROVE  Weight(w, h, n, g)
           = Weight(w, f, n, g) + (IF g = new THEN w[p] ELSE 0) - (IF g = f[p] THEN w[p] ELSE 0)
<1>. DEFINE S == {q \in 1 .. n : f[q] = g}
            T == {q \in 1 .. n : h[q] = g}
            R == S \ {p}
<1>1. /\ Weight(w, h, n, g) = SumFunctionOnSet(w, T)
      /\ Weight(w, f, n, g) = SumFunctionOnSet(w, S)
  BY DEF Weight
<1>2. IsFiniteSet(S) /\ IsFiniteSet(T) /\ Integral(w, S) /\ Integral(w, T)
  <2>1. S \subseteq 1 .. n /\ T \subseteq 1 .. n /\ IsFiniteSet(1 .. n)
    BY FS_Interval
  <2>. HIDE DEF S, T
  <2>2. IsFiniteSet(S) /\ IsFiniteSet(T)
    BY <2>1, FS_Subset
  <2>. QED BY <2>1, <2>2 DEF Integral
<1>3. T \ {p} = R /\ (p \in S <=> g = f[p]) /\ (p \in T <=> g = new)
  BY DEF Relabels
<1>4. IsFiniteSet(R) /\ Integral(w, R) /\ w[p] \in Int
  BY <1>2, FS_Subset DEF Integral
<1>5. SumFunctionOnSet(w, R) \in Int
  BY <1>4, SumInt
<1>. HIDE DEF S, T
<1>6. SumFunctionOnSet(w, S) = (IF p \in S THEN w[p] ELSE 0) + SumFunctionOnSet(w, R)
  <2>1. CASE p \in S
    BY <1>2, <2>1, SumRemove
  <2>2. CASE p \notin S
    <3>1. R = S
      BY <2>2
    <3>. HIDE DEF R
    <3>. QED BY <1>5, <2>2, <3>1
  <2>. QED BY <2>1, <2>2
<1>7. SumFunctionOnSet(w, T) = (IF p \in T THEN w[p] ELSE 0) + SumFunctionOnSet(w, R)
  <2>1. CASE p \in T
    <3>1. SumFunctionOnSet(w, T) = w[p] + SumFunctionOnSet(w, T \ {p})
      BY <1>2, <2>1, SumRemove
    <3>. QED BY <1>3, <2>1, <3>1
  <2>2. CASE p \notin T
    <3>1. R = T
      BY <1>3, <2>2
    <3>. HIDE DEF R
    <3>. QED BY <1>5, <2>2, <3>1
  <2>. QED BY <2>1, <2>2
<1>. HIDE DEF R
<1>. QED BY <1>1, <1>3, <1>4, <1>5, <1>6, <1>7

(* A source that joins another leaves it the weight of its pixels. *)
LEMMA MergeWeight ==
  ASSUME NEW n \in Nat, NEW w, Integral(w, 1 .. n), NEW f, NEW h, NEW old, NEW new,
         old # new, NEW g, Joins(f, h, n, old, new)
  PROVE  Weight(w, h, n, g)
           = IF g = old THEN 0
             ELSE IF g = new THEN Weight(w, f, n, new) + Weight(w, f, n, old)
             ELSE Weight(w, f, n, g)
<1>. DEFINE S(k) == {q \in 1 .. n : f[q] = k}
            T == {q \in 1 .. n : h[q] = g}
<1>1. CASE g = old
  <2>1. T = {} BY <1>1 DEF Joins
  <2>. QED BY <2>1, <1>1, SumEmpty DEF Weight
<1>2. CASE g = new
  <2>1. T = S(new) \cup S(old) /\ (S(new) \cap S(old)) = {} BY <1>2 DEF Joins
  <2>2. IsFiniteSet(S(new)) /\ IsFiniteSet(S(old)) BY FS_Interval, FS_Subset
  <2>3. Integral(w, S(new) \cup S(old)) BY DEF Integral
  <2>. HIDE DEF S, T
  <2>4. SumFunctionOnSet(w, T) = SumFunctionOnSet(w, S(new)) + SumFunctionOnSet(w, S(old))
    BY <2>1, <2>2, <2>3, SumUnion
  <2>. QED BY <2>4, <1>1, <1>2 DEF Weight, S, T
<1>3. CASE g # old /\ g # new
  <2>1. T = S(g) BY <1>3 DEF Joins
  <2>. QED BY <2>1, <1>3 DEF Weight
<1>. QED BY <1>1, <1>2, <1>3

----------------------------------------------------------------------------
(* The operations on the table, source by source. *)
Table == [Sources -> Entry]

LEMMA PictureTypes ==
  ASSUME IsPicture(pic)
  PROVE  /\ Pixels(pic) = 1 .. Size /\ Size \in Nat \ {0}
         /\ \A p \in 1 .. Size : pic.lum[p] \in Int /\ pic.omega[p] \in Nat /\ Light(p) \in Int
         /\ Integral(pic.omega, 1 .. Size)
<1>1. Pixels(pic) = 1 .. Size
  BY DEF Pixels, Size
<1>2. Size \in Nat \ {0}
  BY PictureSize DEF Size
<1>3. pic.lum \in [1 .. Size -> Int] /\ pic.omega \in [1 .. Size -> Nat]
  BY <1>1 DEF IsPicture
<1>4. \A p \in 1 .. Size : pic.lum[p] \in Int /\ pic.omega[p] \in Nat
  BY <1>3
<1>5. \A a \in Int, b \in Nat : a * b \in Int
  OBVIOUS
<1>6. \A p \in 1 .. Size : Light(p) \in Int
  BY <1>4, <1>5 DEF Light
<1>. QED BY <1>1, <1>2, <1>4, <1>6 DEF Integral

LEMMA EntryTypes ==
  ASSUME NEW t \in Table, NEW g \in Sources
  PROVE  t[g] \in Entry /\ t[g].omega \in Int /\ t[g].lmax \in Int /\ t[g].direct \in Int
BY DEF Table, Entry

LEMMA FreshEntries ==
  ASSUME NEW t \in Table, NEW g \in Sources
  PROVE  /\ Fresh(t, g) \in Table
         /\ \A n \in Sources : /\ Fresh(t, g)[n].omega = t[n].omega
                               /\ Fresh(t, g)[n].lmax = t[n].lmax
                               /\ Fresh(t, g)[n].direct = IF n = g THEN 0 ELSE t[n].direct
BY DEF Table, Entry, Fresh

LEMMA FreshIfNew ==
  ASSUME NEW t \in Table, NEW g \in Sources, igs \in Nat, NEW near, near = 0 => g = igs + 1
  PROVE  /\ (IF near = 0 THEN Fresh(t, g) ELSE t) \in Table
         /\ \A n \in Sources :
              /\ (IF near = 0 THEN Fresh(t, g) ELSE t)[n].omega = t[n].omega
              /\ (IF near = 0 THEN Fresh(t, g) ELSE t)[n].lmax = t[n].lmax
              /\ (IF near = 0 THEN Fresh(t, g) ELSE t)[n].direct \in {t[n].direct, 0}
              /\ n <= igs => (IF near = 0 THEN Fresh(t, g) ELSE t)[n].direct = t[n].direct
<1>1. CASE near = 0
  <2>1. \A n \in Sources : n <= igs => n # g
    BY <1>1 DEF Sources
  <2>2. /\ Fresh(t, g) \in Table
        /\ \A n \in Sources : /\ Fresh(t, g)[n].omega = t[n].omega
                              /\ Fresh(t, g)[n].lmax = t[n].lmax
                              /\ Fresh(t, g)[n].direct = IF n = g THEN 0 ELSE t[n].direct
    BY FreshEntries
  <2>. QED BY <1>1, <2>1, <2>2
<1>2. CASE near # 0
  BY <1>2
<1>. QED BY <1>1, <1>2

LEMMA LitEntries ==
  ASSUME NEW t \in Table, NEW g \in Sources, NEW v \in Int
  PROVE  /\ Lit(t, g, v) \in Table
         /\ \A n \in Sources :
              /\ Lit(t, g, v)[n].omega = t[n].omega
              /\ Lit(t, g, v)[n].lmax = t[n].lmax
              /\ Lit(t, g, v)[n].direct
                   = t[n].direct + (IF n = g THEN v ELSE 0)
<1>. DEFINE u == Lit(t, g, v)
<1>1. t[g] \in Entry /\ t[g].direct \in Int
  BY EntryTypes
<1>2. u \in Table
  BY <1>1 DEF Lit, Table, Entry
<1>3. ASSUME NEW n \in Sources
      PROVE  /\ u[n].omega = t[n].omega /\ u[n].lmax = t[n].lmax
             /\ u[n].direct = t[n].direct + (IF n = g THEN v ELSE 0)
  <2>1. t[n] \in Entry /\ t[n].direct \in Int
    BY EntryTypes
  <2>. QED BY <1>1, <2>1 DEF Lit, Table, Entry
<1>. QED BY <1>2, <1>3

LEMMA AddedEntries ==
  ASSUME IsPicture(pic), NEW t \in Table, NEW p \in 1 .. Size, NEW g \in Sources
  PROVE  /\ Added(t, p, g) \in Table
         /\ \A n \in Sources :
              /\ Added(t, p, g)[n].omega = t[n].omega + (IF n = g THEN pic.omega[p] ELSE 0)
              /\ Added(t, p, g)[n].lmax = IF n = g THEN Larger(t[n].lmax, pic.lum[p]) ELSE t[n].lmax
              /\ Added(t, p, g)[n].direct = t[n].direct
<1>1. pic.lum[p] \in Int /\ pic.omega[p] \in Int
  BY PictureTypes
<1>. DEFINE e == [omega |-> t[g].omega + pic.omega[p], lmax |-> Larger(t[g].lmax, pic.lum[p]),
                  direct |-> t[g].direct]
<1>2. t[g] \in Entry
  BY EntryTypes
<1>3. e \in Entry
  BY <1>1, <1>2 DEF Entry, Larger
<1>4. Added(t, p, g) = [t EXCEPT ![g] = e]
  BY DEF Added
<1>5. \A n \in Sources : Added(t, p, g)[n] = IF n = g THEN e ELSE t[n]
  BY <1>4 DEF Table
<1>6. Added(t, p, g) \in Table
  BY <1>3, <1>4 DEF Table
<1>7. ASSUME NEW n \in Sources
      PROVE  /\ Added(t, p, g)[n].omega = t[n].omega + (IF n = g THEN pic.omega[p] ELSE 0)
             /\ Added(t, p, g)[n].lmax = IF n = g THEN Larger(t[n].lmax, pic.lum[p]) ELSE t[n].lmax
             /\ Added(t, p, g)[n].direct = t[n].direct
  <2>1. t[n].omega \in Int
    BY EntryTypes
  <2>. QED BY <1>5, <2>1
<1>. QED BY <1>6, <1>7

LEMMA MovedEntries ==
  ASSUME IsPicture(pic), NEW t \in Table, NEW p \in 1 .. Size,
         NEW old \in Sources, NEW new \in Sources
  PROVE  /\ Moved(t, p, old, new) \in Table
         /\ \A n \in Sources :
              /\ Moved(t, p, old, new)[n].omega
                   = t[n].omega + (IF n = new THEN pic.omega[p] ELSE 0)
                                - (IF n = old THEN pic.omega[p] ELSE 0)
              /\ Moved(t, p, old, new)[n].lmax
                   = IF n = new THEN Larger(t[n].lmax, pic.lum[p]) ELSE t[n].lmax
              /\ Moved(t, p, old, new)[n].direct = t[n].direct
<1>. DEFINE u == [t EXCEPT ![old].omega = @ - pic.omega[p]]
<1>1. pic.lum[p] \in Int /\ pic.omega[p] \in Int
  BY PictureTypes
<1>2. u \in Table /\ \A n \in Sources :
                       /\ u[n].omega = t[n].omega - (IF n = old THEN pic.omega[p] ELSE 0)
                       /\ u[n].lmax = t[n].lmax /\ u[n].direct = t[n].direct
  <2>1. t[old] \in Entry /\ t[old].omega \in Int
    BY EntryTypes
  <2>2. u \in Table
    BY <1>1, <2>1 DEF Table, Entry
  <2>3. ASSUME NEW n \in Sources
        PROVE  /\ u[n].omega = t[n].omega - (IF n = old THEN pic.omega[p] ELSE 0)
               /\ u[n].lmax = t[n].lmax /\ u[n].direct = t[n].direct
    <3>1. t[n] \in Entry /\ t[n].omega \in Int
      BY EntryTypes
    <3>. QED BY <1>1, <2>1, <3>1 DEF Table, Entry
  <2>. QED BY <2>2, <2>3
<1>3. Moved(t, p, old, new) = Added(u, p, new)
  BY DEF Moved
<1>. HIDE DEF u
<1>4. Added(u, p, new) \in Table
  BY <1>2, AddedEntries
<1>5. ASSUME NEW n \in Sources
      PROVE  /\ Added(u, p, new)[n].omega = t[n].omega + (IF n = new THEN pic.omega[p] ELSE 0)
                                                       - (IF n = old THEN pic.omega[p] ELSE 0)
             /\ Added(u, p, new)[n].lmax = IF n = new THEN Larger(t[n].lmax, pic.lum[p]) ELSE t[n].lmax
             /\ Added(u, p, new)[n].direct = t[n].direct
  <2>1. /\ Added(u, p, new)[n].omega = u[n].omega + (IF n = new THEN pic.omega[p] ELSE 0)
        /\ Added(u, p, new)[n].lmax = IF n = new THEN Larger(u[n].lmax, pic.lum[p]) ELSE u[n].lmax
        /\ Added(u, p, new)[n].direct = u[n].direct
    BY <1>2, AddedEntries
  <2>2. t[n].omega \in Int
    BY EntryTypes
  <2>. QED BY <1>1, <1>2, <2>1, <2>2
<1>. QED BY <1>3, <1>4, <1>5

LEMMA GreatestIsMax ==
  ASSUME NEW S \in SUBSET Int, IsFiniteSet(S), S # {}
  PROVE  Max(S) \in S /\ \A x \in S : Max(S) >= x
<1>1. PICK n \in S : \A m \in S : m <= n
  BY GreatestElement
<1>2. \A m \in S : n >= m
  BY <1>1
<1>. QED BY <1>1, <1>2 DEF Max

LEMMA MergedEntries ==
  ASSUME IsPicture(pic), NEW t \in Table, NEW old \in Sources, NEW new \in Sources, old # new
  PROVE  /\ Merged(t, old, new) \in Table
         /\ \A n \in Sources :
              /\ Merged(t, old, new)[n].omega
                   = IF n = old THEN 0
                     ELSE IF n = new THEN t[new].omega + AngleOf(PixelsOf(old)) ELSE t[n].omega
              /\ n # old => Merged(t, old, new)[n].lmax >= t[n].lmax
              /\ Merged(t, old, new)[n].direct = t[n].direct
         /\ \A p \in PixelsOf(old) : Merged(t, old, new)[new].lmax >= pic.lum[p]
<1>. DEFINE angle == AngleOf(PixelsOf(old))
            lums == {pic.lum[p] : p \in PixelsOf(old)}
            most == Max({t[new].lmax} \cup lums)
            d == [omega |-> 0, lmax |-> 0, direct |-> t[old].direct]
            e == [omega |-> t[new].omega + angle, lmax |-> most, direct |-> t[new].direct]
<1>1. IsFiniteSet(PixelsOf(old)) /\ PixelsOf(old) \subseteq 1 .. Size
  <2>1. IsFiniteSet(1 .. Size)
    <3>1. Size \in Nat
      BY PictureTypes
    <3>. QED BY <3>1, SegmentFinite
  <2>2. PixelsOf(old) \subseteq 1 .. Size
    BY PictureTypes DEF PixelsOf
  <2>. QED BY <2>1, <2>2, FS_Subset
<1>2. angle \in Int
  <2>1. Integral(pic.omega, PixelsOf(old))
    BY <1>1, PictureTypes DEF Integral
  <2>. QED BY <1>1, <2>1, SumInt DEF AngleOf
<1>3. /\ t[old] \in Entry /\ t[old].direct \in Int /\ t[new] \in Entry
      /\ t[new].lmax \in Int /\ t[new].omega \in Int /\ t[new].direct \in Int
  BY EntryTypes
<1>4. most \in Int /\ most >= t[new].lmax /\ \A p \in PixelsOf(old) : most >= pic.lum[p]
  <2>. DEFINE S == {t[new].lmax} \cup lums
  <2>1. IsFiniteSet(lums)
    <3>. DEFINE lum == [p \in PixelsOf(old) |-> pic.lum[p]]
    <3>1. lum \in Surjection(PixelsOf(old), lums)
      BY DEF Surjection
    <3>. HIDE DEF lum, lums
    <3>. QED BY <1>1, <3>1, FS_Surjection
  <2>2. IsFiniteSet(S)
    BY <2>1, FS_AddElement
  <2>3. lums \subseteq Int
    BY <1>1, PictureTypes
  <2>4. S \in SUBSET Int /\ t[new].lmax \in S /\ \A p \in PixelsOf(old) : pic.lum[p] \in S
    BY <1>3, <2>3
  <2>5. most = Max(S)
    OBVIOUS
  <2>. HIDE DEF S, lums, most
  <2>6. Max(S) \in S /\ \A x \in S : Max(S) >= x
    BY <2>2, <2>4, GreatestIsMax
  <2>. QED BY <2>4, <2>5, <2>6
<1>5. Merged(t, old, new) = [t EXCEPT ![old] = d, ![new] = e]
  BY DEF Merged, Table
<1>6. d \in Entry /\ e \in Entry
  <2>. HIDE DEF angle, most
  <2>. QED BY <1>2, <1>3, <1>4 DEF Entry
<1>7. \A n \in Sources : Merged(t, old, new)[n] = IF n = old THEN d ELSE IF n = new THEN e ELSE t[n]
  <2>. HIDE DEF d, e
  <2>. QED BY <1>5 DEF Table
<1>8. Merged(t, old, new) \in Table
  <2>. HIDE DEF d, e
  <2>. QED BY <1>5, <1>6 DEF Table
<1>9. ASSUME NEW n \in Sources
      PROVE  /\ Merged(t, old, new)[n].omega
                  = IF n = old THEN 0
                    ELSE IF n = new THEN t[new].omega + angle ELSE t[n].omega
             /\ n # old => Merged(t, old, new)[n].lmax >= t[n].lmax
             /\ Merged(t, old, new)[n].direct = t[n].direct
  <2>. HIDE DEF angle, most
  <2>1. t[n].lmax \in Int
    BY EntryTypes
  <2>2. CASE n = old
    BY <1>7, <2>2
  <2>3. CASE n = new
    BY <1>4, <1>7, <2>3
  <2>4. CASE n # old /\ n # new
    BY <1>7, <2>1, <2>4
  <2>. QED BY <2>2, <2>3, <2>4
<1>10. \A p \in PixelsOf(old) : Merged(t, old, new)[new].lmax >= pic.lum[p]
  <2>. HIDE DEF most
  <2>. QED BY <1>4, <1>7
<1>. QED BY <1>8, <1>9, <1>10

----------------------------------------------------------------------------
(* What the changes of the labels do to solid angles and lum_max. *)
Angle(g) == Weight(pic.omega, gsn, Size, g)

LEMMA AngleOfPixels ==
  ASSUME IsPicture(pic), NEW g
  PROVE  AngleOf(PixelsOf(g)) = Angle(g) /\ Angle(g) \in Int
<1>1. AngleOf(PixelsOf(g)) = Angle(g)
  BY PictureTypes DEF AngleOf, PixelsOf, Angle, Weight
<1>2. Angle(g) \in Int
  BY PictureTypes, WeightType DEF Angle
<1>. QED BY <1>1, <1>2

(* The label of a source no pixel has weighs nothing. *)
LEMMA NoPixelsNoAngle ==
  ASSUME NEW g, \A p \in 1 .. Size : gsn[p] # g
  PROVE  Angle(g) = 0
<1>1. {p \in 1 .. Size : gsn[p] = g} = {}
  OBVIOUS
<1>. QED BY <1>1, SumEmpty DEF Angle, Weight

LEMMA AnglesByWeight ==
  ASSUME IsPicture(pic)
  PROVE  AnglesAdded <=> /\ \A g \in Sources : g > igs => tab[g].omega = 0
                         /\ ~Smoothing => \A g \in 1 .. igs : tab[g].omega = Angle(g)
BY AngleOfPixels DEF AnglesAdded

(* Measures that move with a pixel. *)
MovesMeasured(g) ==
  /\ tab' \in Table
  /\ \A n \in Sources :
       /\ tab'[n].omega = tab[n].omega + (IF n = g THEN pic.omega[pos] ELSE 0)
                                       - (IF n = gsn[pos] THEN pic.omega[pos] ELSE 0)
       /\ tab'[n].lmax >= tab[n].lmax
  /\ tab'[g].lmax >= pic.lum[pos]

LEMMA MovesAngles ==
  ASSUME GlareAssumption, LabelsInUse, IsPicture(pic), tab \in Table, AnglesAdded,
         NEW g, Moves(g), MovesMeasured(g)
  PROVE  AnglesAdded'
<1>0. /\ Size \in Nat /\ gsn \in [1 .. Size -> 0 .. igs] /\ pos \in 1 .. Size
      /\ g \in Sources /\ g \in Nat /\ g <= igs + 1 /\ igs \in Nat /\ igs <= MaxSources
      /\ MaxSources \in Nat
      /\ gsn[pos] \in 0 .. igs /\ gsn[pos] \in Nat /\ gsn[pos] <= igs
  BY DEF GlareAssumption, LabelsInUse, Moves, Sources
<1>1. igs' \in Nat /\ igs <= igs' /\ igs' <= MaxSources /\ g <= igs'
      /\ (igs' = igs \/ (g = igs + 1 /\ igs' = g))
  <2>1. igs' = IF igs < g THEN g ELSE igs
    BY DEF Moves, Larger
  <2>2. g <= MaxSources
    BY <1>0 DEF Sources
  <2>. QED BY <1>0, <2>1, <2>2
<1>2. pic.omega[pos] \in Int
  BY <1>0, PictureTypes
<1>3. IsPicture(pic') /\ Size' = Size /\ (Smoothing' <=> Smoothing)
  BY DEF Moves, Size, Smoothing
<1>4. ASSUME NEW n \in Sources, n > igs'
      PROVE  tab'[n].omega = 0
  <2>1. n # g /\ n # gsn[pos] /\ n > igs
    BY <1>0, <1>1, <1>4 DEF Sources
  <2>2. tab[n].omega = 0
    BY <2>1 DEF AnglesAdded
  <2>. QED BY <2>1, <2>2 DEF MovesMeasured
<1>5. ASSUME ~Smoothing, NEW n \in 1 .. igs'
      PROVE  tab'[n].omega = Weight(pic.omega, gsn', Size, n)
  <2>1. n \in Sources /\ n \in Nat
    BY <1>0, <1>1 DEF Sources
  <2>2. tab[n].omega = Angle(n)
    <3>1. CASE n <= igs
      BY <1>0, <1>5, <2>1, <3>1, AnglesByWeight
    <3>2. CASE n > igs
      <4>1. Angle(n) = 0
        BY <1>0, <2>1, <3>2, NoPixelsNoAngle
      <4>. QED BY <2>1, <3>2, <4>1 DEF AnglesAdded
    <3>. QED BY <1>0, <2>1, <3>1, <3>2
  <2>3. Relabels(gsn, gsn', Size, pos, g)
    BY <1>0 DEF Moves, Relabels
  <2>4. Weight(pic.omega, gsn', Size, n)
          = Weight(pic.omega, gsn, Size, n) + (IF n = g THEN pic.omega[pos] ELSE 0)
                                            - (IF n = gsn[pos] THEN pic.omega[pos] ELSE 0)
    <3>1. Integral(pic.omega, 1 .. Size)
      BY PictureTypes
    <3>. QED BY <1>0, <2>3, <3>1, RelabelWeight
  <2>5. tab'[n].omega = tab[n].omega + (IF n = g THEN pic.omega[pos] ELSE 0)
                                     - (IF n = gsn[pos] THEN pic.omega[pos] ELSE 0)
    BY <2>1 DEF MovesMeasured
  <2>. QED BY <2>2, <2>4, <2>5 DEF Angle
<1>6. \A n \in 1 .. igs' : AngleOf(PixelsOf(n))' = Weight(pic.omega, gsn', Size, n)
  <2>1. Pixels(pic') = 1 .. Size /\ pic' = pic
    BY PictureTypes DEF Moves
  <2>. QED BY <2>1 DEF AngleOf, PixelsOf, Weight
<1>. QED BY <1>3, <1>4, <1>5, <1>6 DEF AnglesAdded

LEMMA MovesBrightest ==
  ASSUME LabelsInUse, IsPicture(pic), tab \in Table, BrightestKnown,
         GlareAssumption, NEW g, Moves(g), MovesMeasured(g)
  PROVE  BrightestKnown'
<1>0. /\ gsn \in [1 .. Size -> 0 .. igs] /\ pos \in 1 .. Size /\ igs \in Nat
      /\ MaxSources \in Nat /\ igs <= MaxSources
  BY DEF GlareAssumption, LabelsInUse
<1>1. Pixels(pic') = 1 .. Size /\ pic' = pic /\ Pixels(pic) = 1 .. Size
  BY PictureTypes DEF Moves
<1>2. ASSUME NEW p \in 1 .. Size, gsn'[p] # 0
      PROVE  tab'[gsn'[p]].lmax >= pic.lum[p]
  <2>1. CASE p = pos
    <3>1. gsn'[p] = g
      BY <1>0, <2>1 DEF Moves
    <3>. QED BY <2>1, <3>1 DEF MovesMeasured
  <2>2. CASE p # pos
    <3>1. gsn'[p] = gsn[p] /\ gsn[p] \in 0 .. igs
      BY <1>0, <2>2 DEF Moves
    <3>2. gsn[p] \in Sources
      BY <1>0, <1>2, <3>1 DEF Sources
    <3>3. tab[gsn[p]].lmax >= pic.lum[p]
      BY <1>1, <1>2, <3>1 DEF BrightestKnown
    <3>4. /\ tab'[gsn[p]].lmax >= tab[gsn[p]].lmax
          /\ tab'[gsn[p]].lmax \in Int /\ tab[gsn[p]].lmax \in Int /\ pic.lum[p] \in Int
      BY <3>2, EntryTypes, PictureTypes DEF MovesMeasured
    <3>. QED BY <3>1, <3>3, <3>4
  <2>. QED BY <2>1, <2>2
<1>. QED BY <1>1, <1>2 DEF BrightestKnown

DirectsKept == \A n \in Sources : tab'[n].direct = tab[n].direct

LEMMA KeptMeasures ==
  ASSUME GlareAssumption, LabelsInUse, IsPicture(pic), BrightestKnown, AnglesAdded,
         UNCHANGED <<pic, opts, gsn, igs>>,
         \A n \in Sources : tab'[n].omega = tab[n].omega /\ tab'[n].lmax = tab[n].lmax
  PROVE  BrightestKnown' /\ AnglesAdded'
<1>0. /\ gsn \in [1 .. Size -> 0 .. igs] /\ igs \in Nat /\ MaxSources \in Nat
      /\ igs <= MaxSources /\ Pixels(pic) = 1 .. Size
  BY PictureTypes DEF GlareAssumption, LabelsInUse
<1>1. BrightestKnown'
  <2>1. \A p \in 1 .. Size : gsn[p] # 0 => gsn[p] \in Sources
    BY <1>0 DEF Sources
  <2>. QED BY <1>0, <2>1 DEF BrightestKnown
<1>2. AnglesAdded'
  <2>1. \A n \in 1 .. igs : n \in Sources
    BY <1>0 DEF Sources
  <2>2. \A n : AngleOf(PixelsOf(n))' = AngleOf(PixelsOf(n))
    BY DEF AngleOf, PixelsOf
  <2>3. Smoothing' <=> Smoothing
    BY DEF Smoothing
  <2>. QED BY <2>1, <2>2, <2>3 DEF AnglesAdded
<1>. QED BY <1>1, <1>2

LEMMA CombineMeasures ==
  ASSUME GlareAssumption, LabelsInUse, IsPicture(pic), tab \in Table, BrightestKnown, AnglesAdded,
         NEW old \in 0 .. igs, NEW new \in 0 .. igs, old # new => (old > 0 /\ new > 0),
         Combine(old, new), UNCHANGED <<pic, opts, igs>>
  PROVE  tab' \in Table /\ BrightestKnown' /\ AnglesAdded' /\ DirectsKept
<1>1. CASE old = new
  <2>1. gsn' = gsn /\ tab' = tab
    BY <1>1 DEF Combine
  <2>2. BrightestKnown' /\ AnglesAdded'
    BY <2>1, KeptMeasures
  <2>. QED BY <2>1, <2>2 DEF DirectsKept
<1>2. CASE old # new
  <2>1. /\ Size \in Nat /\ gsn \in [1 .. Size -> 0 .. igs] /\ igs \in Nat /\ igs <= MaxSources
        /\ MaxSources \in Nat /\ Pixels(pic) = 1 .. Size
    BY PictureTypes DEF GlareAssumption, LabelsInUse
  <2>2. /\ old \in Sources /\ new \in Sources /\ old # new
        /\ old \in Nat /\ new \in Nat /\ old <= igs /\ new <= igs /\ old # 0 /\ new # 0
    BY <1>2, <2>1 DEF Sources
  <2>3. /\ gsn' = [p \in 1 .. Size |-> IF gsn[p] = old THEN new ELSE gsn[p]]
        /\ tab' = Merged(tab, old, new)
    BY <1>2, <2>1 DEF Combine
  <2>4. /\ tab' \in Table
        /\ \A n \in Sources :
             /\ tab'[n].omega
                  = IF n = old THEN 0
                    ELSE IF n = new THEN tab[new].omega + AngleOf(PixelsOf(old)) ELSE tab[n].omega
             /\ n # old => tab'[n].lmax >= tab[n].lmax
             /\ tab'[n].direct = tab[n].direct
        /\ \A p \in PixelsOf(old) : tab'[new].lmax >= pic.lum[p]
    <3>. DEFINE m == Merged(tab, old, new)
    <3>1. /\ m \in Table
          /\ \A n \in Sources :
               /\ m[n].omega
                    = IF n = old THEN 0
                      ELSE IF n = new THEN tab[new].omega + AngleOf(PixelsOf(old)) ELSE tab[n].omega
               /\ n # old => m[n].lmax >= tab[n].lmax
               /\ m[n].direct = tab[n].direct
          /\ \A p \in PixelsOf(old) : m[new].lmax >= pic.lum[p]
      BY <2>2, MergedEntries
    <3>2. tab' = m
      BY <2>3
    <3>. HIDE DEF m
    <3>. QED BY <3>1, <3>2
  <2>5. BrightestKnown'
    <3>1. ASSUME NEW p \in 1 .. Size, gsn'[p] # 0
          PROVE  tab'[gsn'[p]].lmax >= pic.lum[p]
      <4>1. CASE gsn[p] = old
        <5>1. p \in PixelsOf(old) /\ gsn'[p] = new
          BY <2>1, <2>3, <4>1 DEF PixelsOf
        <5>. QED BY <2>4, <5>1
      <4>2. CASE gsn[p] # old
        <5>1. gsn'[p] = gsn[p]
          BY <2>3, <4>2
        <5>2. gsn[p] \in Sources
          <6>1. gsn[p] \in 0 .. igs /\ gsn[p] # 0
            BY <2>1, <3>1, <5>1
          <6>. QED BY <2>1, <6>1 DEF Sources
        <5>3. tab[gsn[p]].lmax >= pic.lum[p]
          BY <2>1, <3>1, <5>1 DEF BrightestKnown
        <5>4. /\ tab'[gsn[p]].lmax >= tab[gsn[p]].lmax
              /\ tab'[gsn[p]].lmax \in Int /\ tab[gsn[p]].lmax \in Int /\ pic.lum[p] \in Int
          BY <2>4, <4>2, <5>2, EntryTypes, PictureTypes
        <5>. QED BY <5>1, <5>3, <5>4
      <4>. QED BY <4>1, <4>2
    <3>. QED BY <2>1, <3>1 DEF BrightestKnown
  <2>6. ASSUME NEW n \in Sources, n > igs
        PROVE  tab'[n].omega = 0
    <3>1. n # old /\ n # new
      BY <2>1, <2>2, <2>6 DEF Sources
    <3>. QED BY <2>4, <2>6, <3>1 DEF AnglesAdded
  <2>7. ASSUME ~Smoothing, NEW n \in 1 .. igs
        PROVE  tab'[n].omega = Weight(pic.omega, gsn', Size, n)
    <3>1. n \in Sources /\ old \in 1 .. igs /\ new \in 1 .. igs
      BY <2>1, <2>2 DEF Sources
    <3>2. Joins(gsn, gsn', Size, old, new)
      BY <2>3 DEF Joins
    <3>3. Integral(pic.omega, 1 .. Size)
      BY PictureTypes
    <3>4. Weight(pic.omega, gsn', Size, n)
            = IF n = old THEN 0 ELSE IF n = new THEN Angle(new) + Angle(old) ELSE Angle(n)
      BY <2>1, <2>2, <3>2, <3>3, MergeWeight DEF Angle
    <3>5. tab[n].omega = Angle(n) /\ tab[new].omega = Angle(new) /\ AngleOf(PixelsOf(old)) = Angle(old)
      BY <2>7, <3>1, AnglesByWeight, AngleOfPixels
    <3>. QED BY <2>4, <3>1, <3>4, <3>5
  <2>8. \A n \in 1 .. igs : AngleOf(PixelsOf(n))' = Weight(pic.omega, gsn', Size, n)
    BY <2>1 DEF AngleOf, PixelsOf, Weight
  <2>9. AnglesAdded'
    <3>1. Smoothing' <=> Smoothing
      BY DEF Smoothing
    <3>. QED BY <2>6, <2>7, <2>8, <3>1 DEF AnglesAdded
  <2>. QED BY <2>4, <2>5, <2>9 DEF DirectsKept
<1>. QED BY <1>1, <1>2

----------------------------------------------------------------------------
(* The types, solid angles and lum_max after every action. *)
Measured ==
  tab' \in Table /\ BrightestKnown' /\ AnglesAdded'

LEMMA ScanSourceMeasured ==
  ASSUME GlareAssumption, IInv, Shapes, BrightestKnown, AnglesAdded, ScanSource
  PROVE  /\ Measured
         /\ ~opts.series => \A n \in Sources : tab'[n].direct \in {tab[n].direct, 0}
         /\ ~opts.series => \A n \in Sources : n <= igs => tab'[n].direct = tab[n].direct
<1>. DEFINE near == IF LastLabel = 0 \/ SearchEvery THEN Nearby(pos) ELSE LastLabel
            g == IF near = 0 THEN igs + 1 ELSE near
            t == IF near = 0 THEN Fresh(tab, g) ELSE tab
            u == Added(t, pos, g)
<1>1. /\ pos \in 1 .. Size /\ igs \in 0 .. MaxSources /\ igs \in Nat /\ MaxSources \in Nat
      /\ LabelsInUse /\ tab \in Table /\ IsPicture(pic) /\ gsn[pos] = 0
      /\ npix \in [Sources -> Int]
  <2>1. /\ pos \in 1 .. Size /\ igs \in 0 .. MaxSources /\ igs \in Nat /\ MaxSources \in Nat
        /\ LabelsInUse /\ npix \in [Sources -> Int]
    BY DEF IInv, LabelsInUse, GlareAssumption
  <2>2. tab \in Table /\ IsPicture(pic)
    BY DEF Shapes, Table
  <2>3. gsn[pos] = 0
    BY <2>1 DEF IInv, Unscanned, ScanSource
  <2>. QED BY <2>1, <2>2, <2>3
<1>2. near \in 0 .. igs
  BY <1>1, NearbyInUse DEF LastLabel, LabelsInUse
<1>3. g \in Sources /\ g <= igs + 1 /\ (near = 0 => g = igs + 1)
  <2>1. g <= MaxSources
    BY DEF ScanSource
  <2>. HIDE DEF near
  <2>. QED BY <1>1, <1>2, <2>1 DEF Sources
<1>4. /\ igs' = Larger(igs, g) /\ gsn' = [gsn EXCEPT ![pos] = g]
      /\ npix' = [npix EXCEPT ![g] = @ + 1]
      /\ tab' = IF opts.series THEN Lit(u, g, Light(pos)) ELSE u
      /\ UNCHANGED <<pic, opts>>
  BY DEF ScanSource
<1>5. /\ t \in Table
      /\ \A n \in Sources : /\ t[n].omega = tab[n].omega /\ t[n].lmax = tab[n].lmax
                            /\ t[n].direct \in {tab[n].direct, 0}
                            /\ n <= igs => t[n].direct = tab[n].direct
  <2>. HIDE DEF near, g
  <2>. QED BY <1>1, <1>3, FreshIfNew
<1>. HIDE DEF near, g, t
<1>6. /\ u \in Table
      /\ \A n \in Sources :
           /\ u[n].omega = t[n].omega + (IF n = g THEN pic.omega[pos] ELSE 0)
           /\ u[n].lmax = IF n = g THEN Larger(t[n].lmax, pic.lum[pos]) ELSE t[n].lmax
           /\ u[n].direct = t[n].direct
  BY <1>1, <1>3, <1>5, AddedEntries
<1>. HIDE DEF u
<1>7. /\ tab' \in Table
      /\ \A n \in Sources : tab'[n].omega = u[n].omega /\ tab'[n].lmax = u[n].lmax
      /\ ~opts.series => tab' = u
  <2>1. CASE opts.series
    <3>. DEFINE v == Light(pos)
                lit == Lit(u, g, v)
    <3>1. tab' = lit
      BY <1>4, <2>1
    <3>2. v \in Int
      BY <1>1, PictureTypes
    <3>3. lit \in Table /\ \A n \in Sources : lit[n].omega = u[n].omega /\ lit[n].lmax = u[n].lmax
      <4>. HIDE DEF v
      <4>. QED BY <1>3, <1>6, <3>2, LitEntries
    <3>. HIDE DEF lit
    <3>. QED BY <2>1, <3>1, <3>3
  <2>2. CASE ~opts.series
    BY <1>4, <1>6, <2>2
  <2>. QED BY <2>1, <2>2
<1>8. Moves(g)
  <2>1. npix' \in [Sources -> Int] /\ \A n \in Sources : npix'[n] = IF n = g THEN npix[n] + 1 ELSE npix[n]
    BY <1>1, <1>3, <1>4
  <2>2. \A n \in Sources : n # gsn[pos]
    BY <1>1 DEF Sources
  <2>3. \A n \in Sources : npix'[n] = npix[n] + (IF n = g THEN 1 ELSE 0)
                                            - (IF n = gsn[pos] THEN 1 ELSE 0)
    BY <1>1, <2>1, <2>2
  <2>. QED BY <1>3, <1>4, <2>1, <2>3 DEF Moves
<1>9. MovesMeasured(g)
  <2>1. pic.omega[pos] \in Int /\ pic.lum[pos] \in Int
    BY <1>1, PictureTypes
  <2>2. ASSUME NEW n \in Sources
        PROVE  /\ tab'[n].omega = tab[n].omega + (IF n = g THEN pic.omega[pos] ELSE 0)
                                               - (IF n = gsn[pos] THEN pic.omega[pos] ELSE 0)
               /\ tab'[n].lmax >= tab[n].lmax
    <3>1. n # gsn[pos]
      BY <1>1 DEF Sources
    <3>2. tab[n].omega \in Int /\ tab[n].lmax \in Int
      BY <1>1, EntryTypes
    <3>. QED BY <1>5, <1>6, <1>7, <2>1, <3>1, <3>2 DEF Larger
  <2>3. tab'[g].lmax >= pic.lum[pos]
    <3>1. tab[g].lmax \in Int
      BY <1>1, <1>3, EntryTypes
    <3>. QED BY <1>3, <1>5, <1>6, <1>7, <2>1, <3>1 DEF Larger
  <2>. QED BY <1>7, <2>2, <2>3 DEF MovesMeasured
<1>10. BrightestKnown' /\ AnglesAdded'
  BY <1>1, <1>8, <1>9, MovesAngles, MovesBrightest
<1>. QED BY <1>5, <1>6, <1>7, <1>10 DEF Measured

LEMMA KeepingMeasured ==
  ASSUME GlareAssumption, IInv, Shapes, BrightestKnown, AnglesAdded,
         ScanDark \/ NoSmoothing \/ BeginSplit \/ ChooseSource \/ NoDirect \/ Finished
           \/ UNCHANGED vars
  PROVE  Measured /\ DirectsKept
<1>1. UNCHANGED <<pic, opts, gsn, igs, tab>>
  BY DEF ScanDark, NoSmoothing, BeginSplit, ChooseSource, NoDirect, Finished, vars
<1>2. LabelsInUse /\ IsPicture(pic) /\ tab \in Table
  BY DEF IInv, Shapes, Table
<1>3. BrightestKnown' /\ AnglesAdded'
  BY <1>1, <1>2, KeptMeasures
<1>. QED BY <1>1, <1>2, <1>3 DEF Measured, DirectsKept

LEMMA DirectPixelMeasured ==
  ASSUME GlareAssumption, IInv, Shapes, BrightestKnown, AnglesAdded, DirectPixel
  PROVE  /\ Measured
         /\ \A n \in Sources : tab'[n].direct
              = tab[n].direct + (IF n = gsn[pos] THEN Light(pos) ELSE 0)
<1>1. UNCHANGED <<pic, opts, gsn, igs>>
  BY DEF DirectPixel
<1>2. LabelsInUse /\ IsPicture(pic) /\ tab \in Table
  BY DEF IInv, Shapes, Table
<1>3. /\ pos \in 1 .. Size /\ gsn[pos] \in 0 .. igs /\ igs <= MaxSources /\ igs \in Nat
      /\ MaxSources \in Nat /\ Light(pos) \in Int
  <2>1. pos \in 1 .. Size /\ gsn[pos] \in 0 .. igs
    BY <1>2 DEF LabelsInUse
  <2>2. igs <= MaxSources /\ igs \in Nat /\ MaxSources \in Nat
    BY <1>2 DEF LabelsInUse, GlareAssumption
  <2>3. Light(pos) \in Int
    BY <1>2, <2>1, PictureTypes
  <2>. QED BY <2>1, <2>2, <2>3
<1>4. /\ tab' \in Table
      /\ \A n \in Sources :
           /\ tab'[n].omega = tab[n].omega /\ tab'[n].lmax = tab[n].lmax
           /\ tab'[n].direct = tab[n].direct + (IF n = gsn[pos] THEN Light(pos) ELSE 0)
  <2>1. CASE gsn[pos] = 0
    <3>1. tab' = tab /\ \A n \in Sources : n # gsn[pos]
      BY <2>1 DEF DirectPixel, Sources
    <3>2. \A n \in Sources : tab[n].direct \in Int
      BY <1>2, EntryTypes
    <3>. QED BY <1>2, <3>1, <3>2
  <2>2. CASE gsn[pos] # 0
    <3>1. gsn[pos] \in Sources
      BY <1>3, <2>2 DEF Sources
    <3>. DEFINE v == Light(pos)
                g == gsn[pos]
                lit == Lit(tab, g, v)
    <3>2. tab' = lit
      BY <2>2 DEF DirectPixel
    <3>3. v \in Int /\ g \in Sources
      BY <1>3, <3>1
    <3>4. lit \in Table /\ \A n \in Sources :
            /\ lit[n].omega = tab[n].omega /\ lit[n].lmax = tab[n].lmax
            /\ lit[n].direct = tab[n].direct + (IF n = g THEN v ELSE 0)
      <4>. HIDE DEF v, g
      <4>. QED BY <1>2, <3>3, LitEntries
    <3>. HIDE DEF lit
    <3>. QED BY <3>2, <3>4
  <2>. QED BY <2>1, <2>2
<1>5. BrightestKnown' /\ AnglesAdded'
  BY <1>1, <1>2, <1>4, KeptMeasures
<1>. QED BY <1>4, <1>5 DEF Measured

LEMMA CombiningMeasured ==
  ASSUME GlareAssumption, IInv, Shapes, BrightestKnown, AnglesAdded, SecondPixel \/ JoinPixel
  PROVE  Measured /\ DirectsKept
<1>1. /\ LabelsInUse /\ IsPicture(pic) /\ tab \in Table /\ pos \in 1 .. Size
      /\ gsn[pos] \in 0 .. igs /\ start \in Nat \ {0} /\ 1 \in Nat \ {0}
  BY DEF IInv, LabelsInUse, Shapes, Table
<1>2. UNCHANGED <<pic, opts, igs>>
  BY DEF SecondPixel, JoinPixel
<1>3. ASSUME NEW other, Combine(gsn[pos], other), NEW lo \in Nat \ {0},
             other \in {gsn[pos], Bigger(pos, lo)},
             (gsn[pos] = 0) => other = gsn[pos]
      PROVE  Measured /\ DirectsKept
  <2>1. Bigger(pos, lo) \in 0 .. igs /\ (Bigger(pos, lo) # gsn[pos] => Bigger(pos, lo) > 0)
    BY <1>1, <1>3, BiggerInUse
  <2>2. other \in 0 .. igs /\ (gsn[pos] # other => (gsn[pos] > 0 /\ other > 0))
    BY <1>1, <1>3, <2>1 DEF LabelsInUse
  <2>3. tab' \in Table /\ BrightestKnown' /\ AnglesAdded' /\ DirectsKept
    BY <1>1, <1>2, <1>3, <2>2, CombineMeasures
  <2>. QED BY <2>3 DEF Measured
<1>4. CASE SecondPixel
  <2>. DEFINE other == IF gsn[pos] = 0 \/ Surrounded(pos) THEN gsn[pos] ELSE Bigger(pos, 1)
  <2>1. Combine(gsn[pos], other)
    BY <1>4 DEF SecondPixel
  <2>2. other \in {gsn[pos], Bigger(pos, 1)} /\ (gsn[pos] = 0 => other = gsn[pos])
    OBVIOUS
  <2>. HIDE DEF other
  <2>. QED BY <1>1, <1>3, <2>1, <2>2
<1>5. CASE JoinPixel
  <2>. DEFINE other == IF gsn[pos] < start THEN gsn[pos] ELSE Bigger(pos, start)
  <2>1. Combine(gsn[pos], other)
    BY <1>5 DEF JoinPixel
  <2>2. other \in {gsn[pos], Bigger(pos, start)} /\ (gsn[pos] = 0 => other = gsn[pos])
    BY <1>1
  <2>. HIDE DEF other
  <2>. QED BY <1>1, <1>3, <2>1, <2>2
<1>. QED BY <1>4, <1>5

LEMMA SmoothPixelMeasured ==
  ASSUME GlareAssumption, IInv, Shapes, BrightestKnown, AnglesAdded, SmoothPixel
  PROVE  Measured /\ DirectsKept
<1>. DEFINE joined == IF gsn[pos] = 0 /\ pic.lum[pos] >= 0 THEN Filling(pos) ELSE {}
<1>1. /\ Smoothing /\ UNCHANGED <<pic, opts, igs>>
      /\ \/ UNCHANGED <<gsn, tab>>
         \/ \E g \in joined :
               /\ gsn' = [gsn EXCEPT ![pos] = g]
               /\ tab' = [n \in Sources |-> IF n \in joined THEN Added(tab, pos, n)[n] ELSE tab[n]]
  BY DEF SmoothPixel
<1>2. joined \subseteq 1 .. igs
  BY DEF Filling
<1>. HIDE DEF joined
<1>3. LabelsInUse /\ IsPicture(pic) /\ tab \in Table
  BY DEF IInv, Shapes, Table
<1>4. /\ pos \in 1 .. Size /\ igs <= MaxSources /\ igs \in Nat /\ MaxSources \in Nat
      /\ gsn \in [1 .. Size -> 0 .. igs] /\ Pixels(pic) = 1 .. Size
      /\ pic.lum[pos] \in Int
  BY <1>3, PictureTypes DEF LabelsInUse, GlareAssumption
<1>5. CASE UNCHANGED <<gsn, tab>>
  <2>1. BrightestKnown' /\ AnglesAdded'
    BY <1>1, <1>3, <1>5, KeptMeasures
  <2>. QED BY <1>3, <1>5, <2>1 DEF Measured, DirectsKept
<1>6. ASSUME NEW g \in joined, gsn' = [gsn EXCEPT ![pos] = g],
             tab' = [n \in Sources |-> IF n \in joined THEN Added(tab, pos, n)[n] ELSE tab[n]]
      PROVE  Measured /\ DirectsKept
  <2>1. ASSUME NEW n \in Sources
        PROVE  /\ tab'[n] \in Entry
               /\ tab'[n].direct = tab[n].direct
               /\ tab'[n].lmax >= tab[n].lmax
               /\ n \in joined => tab'[n].lmax >= pic.lum[pos]
               /\ n \notin joined => tab'[n].omega = tab[n].omega
    <3>1. tab[n] \in Entry /\ tab[n].lmax \in Int
      BY <1>3, EntryTypes
    <3>2. /\ Added(tab, pos, n) \in Table
          /\ Added(tab, pos, n)[n].lmax = Larger(tab[n].lmax, pic.lum[pos])
          /\ Added(tab, pos, n)[n].direct = tab[n].direct
      BY <1>3, <1>4, AddedEntries
    <3>3. tab'[n] = IF n \in joined THEN Added(tab, pos, n)[n] ELSE tab[n]
      BY <1>6
    <3>4. Added(tab, pos, n)[n] \in Entry
      BY <3>2, EntryTypes
    <3>5. Larger(tab[n].lmax, pic.lum[pos]) >= tab[n].lmax
          /\ Larger(tab[n].lmax, pic.lum[pos]) >= pic.lum[pos]
      BY <1>4, <3>1 DEF Larger
    <3>6. CASE n \in joined
      <4>1. tab'[n] = Added(tab, pos, n)[n]
        BY <3>3, <3>6
      <4>. QED BY <3>2, <3>4, <3>5, <3>6, <4>1
    <3>7. CASE n \notin joined
      <4>1. tab'[n] = tab[n]
        BY <3>3, <3>7
      <4>. QED BY <3>1, <3>7, <4>1
    <3>. QED BY <3>6, <3>7
  <2>2. tab' \in Table
    BY <1>6, <2>1 DEF Table
  <2>3. BrightestKnown'
    <3>1. ASSUME NEW p \in 1 .. Size, gsn'[p] # 0
          PROVE  tab'[gsn'[p]].lmax >= pic.lum[p]
      <4>1. CASE p = pos
        <5>1. gsn'[p] = g /\ g \in Sources
          BY <1>2, <1>4, <1>6, <4>1 DEF Sources
        <5>. QED BY <2>1, <4>1, <5>1
      <4>2. CASE p # pos
        <5>1. gsn'[p] = gsn[p] /\ gsn[p] \in 0 .. igs
          BY <1>4, <1>6, <4>2
        <5>2. gsn[p] \in Sources
          BY <1>4, <3>1, <5>1 DEF Sources
        <5>3. tab[gsn[p]].lmax >= pic.lum[p]
          BY <1>4, <3>1, <5>1 DEF BrightestKnown
        <5>4. /\ tab'[gsn[p]].lmax >= tab[gsn[p]].lmax
              /\ tab'[gsn[p]].lmax \in Int /\ tab[gsn[p]].lmax \in Int /\ pic.lum[p] \in Int
          BY <1>3, <2>1, <2>2, <5>2, EntryTypes, PictureTypes
        <5>. QED BY <5>1, <5>3, <5>4
      <4>. QED BY <4>1, <4>2
    <3>. QED BY <1>1, <1>4, <3>1 DEF BrightestKnown
  <2>4. AnglesAdded'
    <3>1. Smoothing'
      BY <1>1 DEF Smoothing
    <3>2. \A n \in Sources : n > igs => n \notin joined
      BY <1>2, <1>4 DEF Sources
    <3>. QED BY <1>1, <2>1, <3>1, <3>2 DEF AnglesAdded
  <2>. QED BY <2>1, <2>2, <2>3, <2>4 DEF Measured, DirectsKept
<1>. QED BY <1>1, <1>5, <1>6

LEMMA PeakPixelMeasured ==
  ASSUME GlareAssumption, IInv, Shapes, BrightestKnown, AnglesAdded, PeakPixel
  PROVE  /\ Measured
         /\ \A n \in Sources : tab'[n].direct \in {tab[n].direct, 0}
         /\ \A n \in Sources : n <= igs => tab'[n].direct = tab[n].direct
<1>. DEFINE near == IF start = igs + 1 THEN 0 ELSE SplitNear(pos)
            g == IF near = 0 THEN igs + 1 ELSE near
            t == IF near = 0 THEN Fresh(tab, g) ELSE tab
            u == Moved(t, pos, i, g)
<1>1. /\ UNCHANGED <<pic, opts>>
      /\ \/ UNCHANGED <<igs, gsn, npix, tab>>
         \/ /\ gsn[pos] = i /\ g <= MaxSources
            /\ igs' = Larger(igs, g) /\ gsn' = [gsn EXCEPT ![pos] = g]
            /\ npix' = Recounted(i, g) /\ tab' = u
  BY DEF PeakPixel
<1>2. LabelsInUse /\ IsPicture(pic) /\ tab \in Table
  BY DEF IInv, Shapes, Table
<1>3. /\ igs \in 0 .. MaxSources /\ MaxSources \in Nat /\ pos \in 1 .. Size /\ igs \in Nat
      /\ gsn \in [1 .. Size -> 0 .. igs] /\ npix \in [Sources -> Int] /\ Size \in Nat
      /\ i \in Nat \ {0}
  BY <1>2 DEF LabelsInUse, GlareAssumption
<1>4. near \in 0 .. igs
  <2>1. SplitNear(pos) \in 0 .. igs
    BY <1>2, SplitNearInUse
  <2>. QED BY <1>3, <2>1
<1>. HIDE DEF near
<1>5. CASE UNCHANGED <<igs, gsn, npix, tab>>
  <2>1. BrightestKnown' /\ AnglesAdded'
    BY <1>1, <1>2, <1>5, KeptMeasures
  <2>. QED BY <1>2, <1>5, <2>1 DEF Measured
<1>6. CASE /\ gsn[pos] = i /\ g <= MaxSources
           /\ igs' = Larger(igs, g) /\ gsn' = [gsn EXCEPT ![pos] = g]
           /\ npix' = Recounted(i, g) /\ tab' = u
  <2>1. g \in Sources /\ g <= igs + 1 /\ (near = 0 => g = igs + 1)
    BY <1>3, <1>4, <1>6 DEF Sources
  <2>2. i \in Sources
    BY <1>3, <1>6 DEF Sources
  <2>. HIDE DEF g
  <2>3. /\ npix' \in [Sources -> Int]
        /\ \A n \in Sources : npix'[n] = npix[n] + (IF n = g THEN 1 ELSE 0)
                                                - (IF n = gsn[pos] THEN 1 ELSE 0)
    <3>. HIDE DEF u, t, near
    <3>1. npix' = Recounted(i, g) /\ i = gsn[pos] /\ npix \in [Sources -> Int]
      BY <1>3, <1>6
    <3>2. /\ Recounted(i, g) \in [Sources -> Int]
          /\ \A n \in Sources : Recounted(i, g)[n] = npix[n] + (IF n = g THEN 1 ELSE 0)
                                                          - (IF n = i THEN 1 ELSE 0)
      <4>1. npix \in [Sources -> Int] /\ i \in Sources /\ g \in Sources
        BY <3>1, <2>1, <2>2
      <4>. QED BY ONLY <4>1, RecountedCounts
    <3>. QED BY <3>1, <3>2
  <2>4. Moves(g)
    BY <1>1, <1>6, <2>1, <2>3 DEF Moves
  <2>5. /\ t \in Table
        /\ \A n \in Sources : /\ t[n].omega = tab[n].omega /\ t[n].lmax = tab[n].lmax
                              /\ t[n].direct \in {tab[n].direct, 0}
                              /\ n <= igs => t[n].direct = tab[n].direct
    BY <1>2, <1>3, <2>1, FreshIfNew
  <2>. HIDE DEF t
  <2>6. /\ u \in Table
        /\ \A n \in Sources :
             /\ u[n].omega = t[n].omega + (IF n = g THEN pic.omega[pos] ELSE 0)
                                        - (IF n = i THEN pic.omega[pos] ELSE 0)
             /\ u[n].lmax = IF n = g THEN Larger(t[n].lmax, pic.lum[pos]) ELSE t[n].lmax
             /\ u[n].direct = t[n].direct
    BY <1>2, <1>3, <2>1, <2>2, <2>5, MovedEntries
  <2>. HIDE DEF u
  <2>7. pic.omega[pos] \in Int /\ pic.lum[pos] \in Int
    BY <1>2, <1>3, PictureTypes
  <2>8. MovesMeasured(g)
    <3>1. ASSUME NEW n \in Sources
          PROVE  /\ tab'[n].omega = tab[n].omega + (IF n = g THEN pic.omega[pos] ELSE 0)
                                                 - (IF n = gsn[pos] THEN pic.omega[pos] ELSE 0)
                 /\ tab'[n].lmax >= tab[n].lmax
      <4>1. tab[n].omega \in Int /\ tab[n].lmax \in Int
        BY <1>2, EntryTypes
      <4>. QED BY <1>6, <2>5, <2>6, <2>7, <4>1 DEF Larger
    <3>2. tab'[g].lmax >= pic.lum[pos]
      <4>1. tab[g].lmax \in Int
        BY <1>2, <2>1, EntryTypes
      <4>. QED BY <1>6, <2>1, <2>5, <2>6, <2>7, <4>1 DEF Larger
    <3>. QED BY <1>6, <2>6, <3>1, <3>2 DEF MovesMeasured
  <2>9. BrightestKnown' /\ AnglesAdded'
    BY <1>2, <2>4, <2>8, MovesAngles, MovesBrightest
  <2>10. \A n \in Sources : tab'[n].direct = t[n].direct
    BY <1>6, <2>6
  <2>11. tab' \in Table
    BY <1>6, <2>6
  <2>. QED BY <2>5, <2>9, <2>10, <2>11 DEF Measured
<1>. QED BY <1>1, <1>5, <1>6

LEMMA ZonePixelMeasured ==
  ASSUME GlareAssumption, IInv, Shapes, BrightestKnown, AnglesAdded, ZonePixel
  PROVE  /\ Measured
         /\ \/ UNCHANGED <<gsn, igs, tab>>
            \/ /\ gsn[pos] # 0 /\ gsn' = [gsn EXCEPT ![pos] = gsn'[pos]] /\ gsn'[pos] # 0
               /\ gsn[pos] \in Sources /\ igs' \in Sources
               /\ \A n \in Sources :
                    tab'[n].direct = tab[n].direct - (IF n = gsn[pos] THEN Light(pos) ELSE 0)
                                                   + (IF n = igs' THEN Light(pos) ELSE 0)
<1>. DEFINE g == gsn[pos]
            z == ZoneOf(pos)
            new == IF zone[g][z] = 0 THEN igs + 1 ELSE zone[g][z]
            u == Moved(tab, pos, g, new)
<1>1. /\ phase = "zones" /\ UNCHANGED <<pic, opts>>
      /\ \/ UNCHANGED <<igs, gsn, npix, tab>>
         \/ /\ g # 0 /\ z # 0 /\ new <= MaxSources
            /\ igs' = Larger(igs, new) /\ gsn' = [gsn EXCEPT ![pos] = new]
            /\ npix' = Recounted(g, new) /\ tab' = LightMoved(u, pos, g, igs')
  BY DEF ZonePixel
<1>2. z \in 0 .. 2
  BY DEF ZoneOf
<1>. HIDE DEF z
<1>3. LabelsInUse /\ IsPicture(pic) /\ tab \in Table
  BY DEF IInv, Shapes, Table
<1>4. /\ igs \in 0 .. MaxSources /\ MaxSources \in Nat /\ pos \in 1 .. Size /\ igs \in Nat
      /\ gsn \in [1 .. Size -> 0 .. igs] /\ npix \in [Sources -> Int] /\ Size \in Nat
      /\ zone \in [Sources -> [1 .. 2 -> -2 .. igs]] /\ igs <= MaxSources
  BY <1>3 DEF LabelsInUse, GlareAssumption
<1>5. CASE UNCHANGED <<igs, gsn, npix, tab>>
  <2>1. BrightestKnown' /\ AnglesAdded'
    BY <1>1, <1>3, <1>5, KeptMeasures
  <2>. QED BY <1>3, <1>5, <2>1 DEF Measured
<1>6. CASE /\ g # 0 /\ z # 0 /\ new <= MaxSources
           /\ igs' = Larger(igs, new) /\ gsn' = [gsn EXCEPT ![pos] = new]
           /\ npix' = Recounted(g, new) /\ tab' = LightMoved(u, pos, g, igs')
  <2>1. g \in 1 .. igs /\ g \in Sources /\ z \in 1 .. 2
    <3>1. g \in 0 .. igs
      BY <1>4
    <3>2. g # 0 /\ z # 0
      BY <1>6
    <3>. HIDE DEF g
    <3>. QED BY <1>2, <1>4, <3>1, <3>2 DEF Sources
  <2>2. zone[g][z] \in -2 .. igs /\ zone[g][z] >= 0
    <3>1. zone[g][z] \in -2 .. igs
      BY <1>4, <2>1
    <3>2. zone[g][z] >= 0
      BY <1>1, <1>4, <2>1 DEF IInv, ZonesOpen
    <3>. QED BY <3>1, <3>2
  <2>3. new \in Sources /\ new <= igs + 1
    <3>1. new <= MaxSources
      BY <1>6
    <3>2. new \in Int /\ new >= 1 /\ new <= igs + 1
      <4>. HIDE DEF g
      <4>. QED BY <1>4, <2>2
    <3>. HIDE DEF new
    <3>. QED BY <1>4, <3>1, <3>2 DEF Sources
  <2>. HIDE DEF new
  <2>4. /\ npix' \in [Sources -> Int]
        /\ \A n \in Sources : npix'[n] = npix[n] + (IF n = new THEN 1 ELSE 0)
                                                - (IF n = g THEN 1 ELSE 0)
    <3>1. npix' = Recounted(g, new)
      BY <1>6
    <3>2. npix \in [Sources -> Int] /\ g \in Sources /\ new \in Sources
      BY <1>4, <2>1, <2>3
    <3>. HIDE DEF g
    <3>. QED BY <3>1, <3>2, RecountedCounts
  <2>5. Moves(new)
    BY <1>1, <1>6, <2>3, <2>4 DEF Moves
  <2>6. igs' \in Sources
    <3>1. /\ igs' = IF igs < new THEN new ELSE igs
          /\ g <= igs /\ g >= 1 /\ g \in Int
      BY <1>6, <2>1 DEF Larger
    <3>. HIDE DEF g
    <3>. QED BY <1>4, <2>3, <3>1 DEF Sources
  <2>7. /\ u \in Table
        /\ \A n \in Sources :
             /\ u[n].omega = tab[n].omega + (IF n = new THEN pic.omega[pos] ELSE 0)
                                          - (IF n = g THEN pic.omega[pos] ELSE 0)
             /\ u[n].lmax = IF n = new THEN Larger(tab[n].lmax, pic.lum[pos]) ELSE tab[n].lmax
             /\ u[n].direct = tab[n].direct
    <3>. HIDE DEF g
    <3>1. /\ IsPicture(pic) /\ tab \in Table /\ pos \in 1 .. Size
          /\ g \in Sources /\ new \in Sources
      BY <1>3, <1>4, <2>1, <2>3
    <3>. QED BY <3>1, MovedEntries
  <2>8. pic.omega[pos] \in Int /\ pic.lum[pos] \in Int /\ Light(pos) \in Int
    <3>1. \A p \in 1 .. Size : pic.lum[p] \in Int /\ pic.omega[p] \in Nat /\ Light(p) \in Int
      BY <1>3, PictureTypes
    <3>2. pos \in 1 .. Size
      BY <1>4
    <3>. HIDE DEF g, u
    <3>. QED BY <3>1, <3>2
  <2>. HIDE DEF u
  <2>9. /\ tab' \in Table
        /\ \A n \in Sources :
             /\ tab'[n].omega = u[n].omega /\ tab'[n].lmax = u[n].lmax
             /\ tab'[n].direct = u[n].direct - (IF n = g THEN Light(pos) ELSE 0)
                                             + (IF n = igs' THEN Light(pos) ELSE 0)
    <3>. DEFINE v == Light(pos)
                w == -v
                x == Lit(u, g, w)
    <3>1. PICK k \in Sources : k = igs'
      BY <2>6
    <3>. DEFINE y == Lit(x, k, v)
    <3>2. v \in Int /\ w \in Int
      <4>1. v \in Int
        BY <2>8
      <4>. HIDE DEF v
      <4>. QED BY <4>1
    <3>0. g \in Sources /\ u \in Table
      BY <2>1, <2>7
    <3>3. \A n \in Sources : u[n] \in Entry /\ u[n].direct \in Int
      BY <2>7, EntryTypes
    <3>4. tab' = y
      BY <1>6, <3>1 DEF LightMoved
    <3>. HIDE DEF g
    <3>5. x \in Table /\ \A n \in Sources :
            /\ x[n].omega = u[n].omega /\ x[n].lmax = u[n].lmax
            /\ x[n].direct = u[n].direct + (IF n = g THEN w ELSE 0)
      <4>. HIDE DEF v, w
      <4>1. w \in Int
        BY <3>2
      <4>. QED BY <3>0, <4>1, LitEntries
    <3>. HIDE DEF x
    <3>6. y \in Table /\ \A n \in Sources :
            /\ y[n].omega = x[n].omega /\ y[n].lmax = x[n].lmax
            /\ y[n].direct = x[n].direct + (IF n = k THEN v ELSE 0)
      <4>. HIDE DEF v, w
      <4>. QED BY <3>2, <3>5, LitEntries
    <3>. HIDE DEF y, v
    <3>7. ASSUME NEW n \in Sources
          PROVE  tab'[n].direct = u[n].direct - (IF n = g THEN v ELSE 0) + (IF n = k THEN v ELSE 0)
      <4>1. tab'[n].direct = u[n].direct + (IF n = g THEN w ELSE 0) + (IF n = k THEN v ELSE 0)
        BY <3>4, <3>5, <3>6
      <4>2. u[n].direct \in Int
        BY <3>3
      <4>. QED BY <3>2, <4>1, <4>2
    <3>8. \A n \in Sources : tab'[n].omega = u[n].omega /\ tab'[n].lmax = u[n].lmax
      BY <3>4, <3>5, <3>6
    <3>. QED BY <3>1, <3>4, <3>6, <3>7, <3>8 DEF v, g
  <2>10. MovesMeasured(new)
    <3>1. ASSUME NEW n \in Sources
          PROVE  /\ tab'[n].omega = tab[n].omega + (IF n = new THEN pic.omega[pos] ELSE 0)
                                                 - (IF n = gsn[pos] THEN pic.omega[pos] ELSE 0)
                 /\ tab'[n].lmax >= tab[n].lmax
      <4>1. tab[n].omega \in Int /\ tab[n].lmax \in Int
        BY <1>3, EntryTypes
      <4>. QED BY <2>7, <2>8, <2>9, <4>1 DEF Larger
    <3>2. tab'[new].lmax >= pic.lum[pos]
      <4>1. tab[new].lmax \in Int
        BY <1>3, <2>3, EntryTypes
      <4>. QED BY <2>3, <2>7, <2>8, <2>9, <4>1 DEF Larger
    <3>. QED BY <2>9, <3>1, <3>2 DEF MovesMeasured
  <2>11. BrightestKnown' /\ AnglesAdded'
    BY <1>3, <2>5, <2>10, MovesAngles, MovesBrightest
  <2>12. gsn'[pos] = new /\ new # 0
    BY <1>4, <1>6, <2>3 DEF Sources
  <2>13. \A n \in Sources :
           tab'[n].direct = tab[n].direct - (IF n = gsn[pos] THEN Light(pos) ELSE 0)
                                          + (IF n = igs' THEN Light(pos) ELSE 0)
    BY <2>7, <2>9
  <2>. QED BY <1>6, <2>1, <2>6, <2>9, <2>11, <2>12, <2>13 DEF Measured
<1>. QED BY <1>1, <1>5, <1>6

LEMMA OutputMeasured ==
  ASSUME GlareAssumption, IInv, Shapes, BrightestKnown, AnglesAdded, Output
  PROVE  Measured /\ IsPicture(pic')
<1>1. /\ tab' = Cleared(tab) /\ igs' = 0 /\ gsn' = [p \in Pixels(pic) |-> 0]
      /\ \/ pic' \in {q \in SeriesPictures : q.w = pic.w /\ q.h = pic.h}
         \/ pic' = pic
  BY DEF Output
<1>2. LabelsInUse /\ IsPicture(pic) /\ tab \in Table
  BY DEF IInv, Shapes, Table
<1>3. IsPicture(pic') /\ pic'.w = pic.w /\ pic'.h = pic.h
  BY <1>1, <1>2 DEF SeriesPictures, GlareAssumption
<1>4. Pixels(pic') = Pixels(pic)
  BY <1>3 DEF Pixels
<1>5. /\ tab' \in Table
      /\ \A g \in Sources : tab'[g].omega = IF g <= igs THEN 0 ELSE tab[g].omega
  BY <1>1, <1>2 DEF Cleared, Table, Entry
<1>6. BrightestKnown'
  BY <1>1, <1>4 DEF BrightestKnown
<1>7. AnglesAdded'
  <2>1. \A g \in Sources : tab'[g].omega = 0
    <3>1. igs \in Nat /\ \A g \in Sources : g \in Nat
      BY <1>2 DEF LabelsInUse, GlareAssumption, Sources
    <3>2. \A g \in Sources : g <= igs \/ g > igs
      BY <3>1
    <3>. QED BY <1>5, <3>2 DEF AnglesAdded
  <2>. QED BY <1>1, <2>1 DEF AnglesAdded
<1>. QED BY <1>3, <1>5, <1>6, <1>7 DEF Measured
----------------------------------------------------------------------------
(* The shapes and the starts of the loops after every step. *)
LEMMA StepAtStart ==
  ASSUME AtStart, [Next]_vars
  PROVE  AtStart'
<1>1. CASE UNCHANGED vars
  BY <1>1 DEF vars, AtStart, Smoothing
<1>2. opts' = opts \/ UNCHANGED vars
  BY DEF Next, ScanSource, ScanDark, SecondPixel, SmoothPixel, NoSmoothing, BeginSplit,
         ChooseSource, PeakPixel, JoinPixel, NoDirect, DirectPixel, ZonePixel, Output,
         Finished
<1>3. CASE ScanSource \/ ScanDark
  <2>1. pos' = 1 \/ phase' = "scan"
    BY <1>3 DEF ScanSource, ScanDark, Step
  <2>. QED BY <2>1 DEF AtStart
<1>4. CASE SecondPixel
  <2>1. pos' = 1 \/ phase' = "second"
    BY <1>4 DEF SecondPixel, Repeat, Step
  <2>. QED BY <2>1 DEF AtStart
<1>5. CASE SmoothPixel
  <2>1. pos' = 1 \/ (phase' = "smooth" /\ Smoothing')
    BY <1>5 DEF SmoothPixel, Step, Smoothing
  <2>. QED BY <2>1 DEF AtStart
<1>6. CASE NoSmoothing \/ BeginSplit \/ ChooseSource \/ Output
  <2>1. pos = 1 /\ pos' = pos
    BY <1>6 DEF NoSmoothing, BeginSplit, ChooseSource, Output, AtStart
  <2>. QED BY <2>1 DEF AtStart
<1>7. CASE PeakPixel
  <2>1. pos' = 1 \/ phase' = "peaks"
    BY <1>7 DEF PeakPixel, Step
  <2>. QED BY <2>1 DEF AtStart
<1>8. CASE JoinPixel
  <2>1. pos' = 1 \/ phase' = "join"
    BY <1>8 DEF JoinPixel, Repeat, Step
  <2>. QED BY <2>1 DEF AtStart
<1>9. CASE NoDirect
  <2>1. phase' \in {"zones", "done"}
    BY <1>9 DEF NoDirect, AfterDirect
  <2>. QED BY <2>1 DEF AtStart
<1>10. CASE DirectPixel
  <2>1. pos' = 1 \/ phase' = "direct"
    BY <1>10 DEF DirectPixel, Step
  <2>. QED BY <2>1 DEF AtStart
<1>11. CASE ZonePixel \/ Finished
  <2>1. phase' \in {"zones", "done"}
    BY <1>11 DEF ZonePixel, Finished, vars, Step
  <2>. QED BY <2>1 DEF AtStart
<1>. QED BY <1>1, <1>3, <1>4, <1>5, <1>6, <1>7, <1>8, <1>9, <1>10, <1>11 DEF Next

(* Which source the extraction is at. *)
SourceAt ==
  /\ imax \in 0 .. MaxSources /\ i \in 1 .. imax + 1
  /\ phase \in {"peaks", "join"} => i <= imax

LEMMA StepSourceAt ==
  ASSUME GlareAssumption, IInv, SourceAt, [Next]_vars
  PROVE  SourceAt'
<1>0. imax \in Nat /\ i \in Nat /\ MaxSources \in Nat /\ igs \in 0 .. MaxSources
  BY DEF IInv, LabelsInUse, GlareAssumption
<1>1. CASE UNCHANGED <<i, imax>> /\ (phase' \in {"peaks", "join"} => phase \in {"peaks", "join"})
  BY <1>1 DEF SourceAt
<1>2. CASE ScanSource \/ ScanDark
  <2>1. phase' \notin {"peaks", "join"} /\ UNCHANGED <<i, imax>>
    BY <1>2, PhasesAfter DEF ScanSource, ScanDark, Step, AfterScan
  <2>. QED BY <1>1, <2>1
<1>3. CASE SecondPixel
  <2>1. phase' \notin {"peaks", "join"} /\ UNCHANGED <<i, imax>>
    BY <1>3 DEF SecondPixel, Repeat, Step
  <2>. QED BY <1>1, <2>1
<1>4. CASE SmoothPixel \/ NoSmoothing
  <2>1. phase' \notin {"peaks", "join"} /\ UNCHANGED <<i, imax>>
    BY <1>4 DEF SmoothPixel, NoSmoothing, Step
  <2>. QED BY <1>1, <2>1
<1>5. CASE BeginSplit
  <2>1. imax' = igs /\ i' = 1 /\ phase' \notin {"peaks", "join"}
    BY <1>5 DEF BeginSplit
  <2>. QED BY <1>0, <2>1 DEF SourceAt
<1>6. CASE ChooseSource
  <2>1. CASE i > imax
    <3>1. phase' = "direct" /\ UNCHANGED <<i, imax>>
      BY <1>6, <2>1 DEF ChooseSource
    <3>. QED BY <1>1, <3>1
  <2>2. CASE i <= imax
    <3>1. imax' = imax /\ (i' = i \/ (i' = i + 1 /\ phase' = phase)) /\ phase = "choose"
      BY <1>0, <1>6, <2>2 DEF ChooseSource
    <3>. QED BY <1>0, <2>2, <3>1 DEF SourceAt
  <2>. QED BY <1>0, <2>1, <2>2
<1>7. CASE PeakPixel
  <2>1. phase = "peaks" /\ UNCHANGED <<i, imax>>
    BY <1>7 DEF PeakPixel
  <2>. QED BY <1>1, <2>1
<1>8. CASE JoinPixel
  <2>1. phase = "join" /\ imax' = imax
    BY <1>8 DEF JoinPixel
  <2>2. i' = i \/ (i' = i + 1 /\ phase' = "choose")
    BY <1>8 DEF JoinPixel, Repeat, Step
  <2>. QED BY <1>0, <2>1, <2>2 DEF SourceAt
<1>9. CASE NoDirect \/ DirectPixel
  <2>1. phase' \notin {"peaks", "join"} /\ UNCHANGED <<i, imax>>
    BY <1>9 DEF NoDirect, DirectPixel, Step, AfterDirect
  <2>. QED BY <1>1, <2>1
<1>10. CASE ZonePixel \/ Output \/ Finished \/ UNCHANGED vars
  <2>1. UNCHANGED <<i, imax>>
    BY <1>10 DEF ZonePixel, Output, Finished, vars
  <2>2. phase' \in {"peaks", "join"} => phase' = phase
    BY <1>10 DEF ZonePixel, Output, Finished, vars, Step
  <2>. QED BY <1>1, <2>1, <2>2
<1>. QED BY <1>2, <1>3, <1>4, <1>5, <1>6, <1>7, <1>8, <1>9, <1>10 DEF Next

LEMMA StepShapes ==
  ASSUME GlareAssumption, IInv, Shapes, [Next]_vars, IsPicture(pic'), tab' \in Table
  PROVE  Shapes'
<1>1. SourceAt'
  BY StepSourceAt DEF Shapes, SourceAt
<1>2. opts' = opts
  BY DEF Next, ScanSource, ScanDark, SecondPixel, SmoothPixel, NoSmoothing, BeginSplit,
         ChooseSource, PeakPixel, JoinPixel, NoDirect, DirectPixel, ZonePixel, Output,
         Finished, vars
<1>3. image' = image \/ (image < MaxImages /\ image' = image + 1)
  BY DEF Next, ScanSource, ScanDark, SecondPixel, SmoothPixel, NoSmoothing, BeginSplit,
         ChooseSource, PeakPixel, JoinPixel, NoDirect, DirectPixel, ZonePixel, Output,
         Finished, vars
<1>4. image' \in 1 .. MaxImages
  BY <1>3 DEF Shapes, GlareAssumption
<1>5. pos \in 1 .. Size /\ pic.lum[pos] \in Int /\ Light(pos) \in Int
  BY PictureTypes DEF IInv, LabelsInUse, Shapes
<1>6. peak' = peak \/ peak' = Larger(peak, pic.lum[pos])
  BY DEF Next, ScanSource, ScanDark, SecondPixel, SmoothPixel, NoSmoothing, BeginSplit,
         ChooseSource, PeakPixel, JoinPixel, NoDirect, DirectPixel, ZonePixel, Output,
         Finished, vars
<1>7. evdir' = evdir \/ evdir' = evdir + Light(pos)
  BY DEF Next, ScanSource, ScanDark, SecondPixel, SmoothPixel, NoSmoothing, BeginSplit,
         ChooseSource, PeakPixel, JoinPixel, NoDirect, DirectPixel, ZonePixel, Output,
         Finished, vars
<1>8. peak' \in Int /\ evdir' \in Int
  BY <1>5, <1>6, <1>7 DEF Shapes, Larger
<1>9. change' \in BOOLEAN
  <2>1. change' = change \/ SecondPixel \/ JoinPixel
    BY DEF Next, ScanSource, ScanDark, SmoothPixel, NoSmoothing, BeginSplit,
           ChooseSource, PeakPixel, NoDirect, DirectPixel, ZonePixel, Output,
           Finished, vars
  <2>2. CASE SecondPixel
    BY <2>2 DEF SecondPixel, Repeat
  <2>3. CASE JoinPixel
    BY <2>3 DEF JoinPixel, Repeat
  <2>. QED BY <2>1, <2>2, <2>3 DEF Shapes
<1>. QED BY <1>1, <1>2, <1>4, <1>8, <1>9 DEF Shapes, SourceAt, Table
----------------------------------------------------------------------------
(* The peaks.  A search for a larger source, or for one of the running     *)
(* extraction, gives no source from before it.                             *)
LEMMA BiggerFrom ==
  ASSUME LabelsInUse, NEW p \in 1 .. Size, NEW lo \in Nat \ {0}
  PROVE  Bigger(p, lo) = gsn[p] \/ Bigger(p, lo) >= lo
<1>. DEFINE up == FirstSeen(RowsAbove(p, FALSE), Above(lo, gsn[p]))
            one == IF up = 0 THEN gsn[p] ELSE gsn[up]
            down == FirstSeen(RowsBelow(p, FALSE), Above(lo, one))
<1>1. \A g : \A q \in Above(lo, g) : gsn[q] >= lo
  BY DEF Above
<1>2. up # 0 => up \in Above(lo, gsn[p])
  BY FirstFound
<1>3. down # 0 => down \in Above(lo, one)
  <2>. HIDE DEF one
  <2>. QED BY FirstFound
<1>4. Bigger(p, lo) = IF down = 0 THEN one ELSE gsn[down]
  BY DEF Bigger
<1>5. one = gsn[p] \/ one >= lo
  BY <1>1, <1>2
<1>. HIDE DEF up, one, down
<1>. QED BY <1>1, <1>3, <1>4, <1>5

LEMMA SplitNearFrom ==
  ASSUME NEW p, SplitNear(p) # 0
  PROVE  SplitNear(p) >= start
<1>. DEFINE held == {r \in Pixels(pic) : gsn[r] >= start}
            q == LastSeen(SplitPaths[Search][p], held)
<1>1. q # 0 => q \in held
  <2>. DEFINE path == SplitPaths[Search][p]
              back == [k \in 1 .. Len(path) |-> path[Len(path) - k + 1]]
  <2>1. q = FirstSeen(back, held)
    BY DEF LastSeen
  <2>. HIDE DEF q, back, held
  <2>. QED BY <2>1, FirstFound
<1>2. SplitNear(p) = IF q = 0 THEN 0 ELSE gsn[q]
  BY DEF SplitNear
<1>. HIDE DEF q
<1>. QED BY <1>1, <1>2

(* The facts about the picture and the labels that the steps below use. *)
LEMMA LabelTypes ==
  ASSUME GlareAssumption, IInv, Shapes
  PROVE  /\ Pixels(pic) = 1 .. Size /\ Size \in Nat \ {0} /\ pos \in 1 .. Size
         /\ igs \in Nat /\ MaxSources \in Nat /\ igs <= MaxSources
         /\ gsn \in [1 .. Size -> 0 .. igs] /\ gsn \in [1 .. Size -> Nat]
         /\ imax \in Nat /\ i \in Nat \ {0} /\ start \in Nat \ {0} /\ i <= imax + 1
         /\ Limit \in Int
         /\ \A p \in 1 .. Size : pic.lum[p] \in Int /\ gsn[p] \in Nat /\ gsn[p] <= igs
<1>1. LabelsInUse /\ IsPicture(pic)
  BY DEF IInv, Shapes
<1>2. Pixels(pic) = 1 .. Size /\ \A p \in 1 .. Size : pic.lum[p] \in Int
  BY <1>1, PictureTypes
<1>3. /\ Size \in Nat \ {0} /\ pos \in 1 .. Size /\ igs \in 0 .. MaxSources
      /\ gsn \in [1 .. Size -> 0 .. igs] /\ start \in Nat \ {0}
  BY <1>1 DEF LabelsInUse
<1>4. MaxSources \in Nat /\ Limit \in Int
  BY DEF GlareAssumption
<1>5. igs \in Nat /\ igs <= MaxSources
  BY <1>3, <1>4
<1>6. imax \in Nat /\ i \in Nat \ {0} /\ i <= imax + 1
  BY <1>4 DEF Shapes
<1>7. \A p \in 1 .. Size : gsn[p] \in Nat /\ gsn[p] <= igs
  BY <1>3, <1>5
<1>8. gsn \in [1 .. Size -> Nat]
  BY <1>3, <1>7
<1>. QED BY <1>2, <1>3, <1>4, <1>5, <1>6, <1>7, <1>8

LEMMA BeginSplitPeaks ==
  ASSUME GlareAssumption, IInv, Shapes, BeginSplit
  PROVE  PeaksFound'
<1>1. /\ imax' = igs /\ i' = 1 /\ UNCHANGED <<pic, opts, gsn, igs, peak>>
      /\ phase' = IF Splitting THEN "choose" ELSE "direct"
  BY DEF BeginSplit
<1>2. CASE Splitting
  <2>1. \A p \in Pixels(pic) : gsn[p] \in Nat /\ gsn[p] <= igs
    BY LabelTypes
  <2>2. \A p \in Pixels(pic) : ~Treated(p)' /\ ~(gsn[p] > igs)
    BY <1>1, <1>2, <2>1, LabelTypes DEF Treated
  <2>3. igs <= igs
    BY LabelTypes
  <2>. QED BY <1>1, <1>2, <2>2, <2>3 DEF PeaksFound
<1>3. CASE ~Splitting
  <2>1. ~Extracting'
    BY <1>1, <1>3 DEF Extracting, Splitting
  <2>. QED BY <2>1 DEF PeaksFound
<1>. QED BY <1>2, <1>3

(* A source whose lum_max is below the limit, or that counts no pixel, has *)
(* no peaks.                                                               *)
LEMMA ChooseSourcePeaks ==
  ASSUME GlareAssumption, IInv, Shapes, AtStart, BrightestKnown, PeaksFound, ChooseSource
  PROVE  PeaksFound'
<1>1. /\ phase = "choose" /\ pos = 1 /\ UNCHANGED <<pic, opts, gsn, igs, pos, imax, peak>>
  BY DEF ChooseSource, AtStart
<1>2. /\ imax <= igs
      /\ \A p \in Pixels(pic) : gsn[p] > imax => pic.lum[p] >= Limit
      /\ \A p \in Pixels(pic) : gsn[p] # 0 /\ gsn[p] < i => pic.lum[p] < Limit
  BY <1>1 DEF PeaksFound, Extracting, Treated
<1>3. CASE i > imax
  <2>1. phase' = "direct" /\ i' = i
    BY <1>3 DEF ChooseSource
  <2>. QED BY <1>1, <1>2, <1>3, <2>1 DEF PeaksFound, Treated
<1>4. CASE i <= imax /\ npix[i] > 0 /\ tab[i].lmax >= Limit
  <2>1. phase' = "peaks" /\ start' = igs + 1 /\ i' = i
    BY <1>4, LabelTypes DEF ChooseSource
  <2>2. \A p \in Pixels(pic) : ~(p < 1)
    BY LabelTypes
  <2>3. igs + 1 > imax
    BY <1>2, LabelTypes
  <2>. QED BY <1>1, <1>2, <2>1, <2>2, <2>3 DEF PeaksFound, Treated
<1>5. CASE i <= imax /\ ~(npix[i] > 0 /\ tab[i].lmax >= Limit)
  <2>1. i' = i + 1 /\ phase' = phase
    BY <1>5, LabelTypes DEF ChooseSource
  <2>2. ASSUME NEW p \in Pixels(pic), gsn[p] = i
        PROVE  pic.lum[p] < Limit
    <3>1. i \in 1 .. igs /\ i \in Sources
      BY <1>2, <1>5, LabelTypes DEF Sources
    <3>2. npix[i] > 0
      <4>1. npix[i] >= Count(gsn, Size, i)
        BY <3>1, TableCounts DEF IInv
      <4>2. IsFiniteSet({q \in 1 .. Size : gsn[q] = i}) /\ Count(gsn, Size, i) \in Nat
        BY CountType, LabelTypes
      <4>3. Count(gsn, Size, i) # 0
        <5>1. p \in {q \in 1 .. Size : gsn[q] = i}
          BY <2>2, LabelTypes
        <5>. QED BY <4>2, <5>1, FS_EmptySet DEF Count
      <4>4. npix[i] \in Int
        BY <3>1 DEF IInv, LabelsInUse
      <4>. QED BY <4>1, <4>2, <4>3, <4>4
    <3>3. tab[i].lmax < Limit /\ tab[i].lmax \in Int
      <4>1. tab \in Table
        BY DEF Shapes, Table
      <4>2. tab[i].lmax \in Int
        BY <3>1, <4>1, EntryTypes
      <4>. QED BY <1>5, <3>2, <4>2, LabelTypes
    <3>4. tab[i].lmax >= pic.lum[p]
      BY <2>2, LabelTypes DEF BrightestKnown
    <3>5. pic.lum[p] \in Int /\ Limit \in Int
      BY LabelTypes
    <3>. QED BY <3>3, <3>4, <3>5
  <2>3. \A p \in Pixels(pic) : gsn[p] # 0 /\ gsn[p] < i + 1 => pic.lum[p] < Limit
    <3>1. \A p \in Pixels(pic) : gsn[p] < i + 1 => (gsn[p] < i \/ gsn[p] = i)
      BY LabelTypes
    <3>. QED BY <1>2, <2>2, <3>1
  <2>. QED BY <1>1, <1>2, <2>1, <2>3 DEF PeaksFound, Treated
<1>6. i > imax \/ i <= imax
  BY LabelTypes
<1>. QED BY <1>3, <1>4, <1>5, <1>6

LEMMA PeakPixelPeaks ==
  ASSUME GlareAssumption, IInv, Shapes, PeaksFound, PeakPixel
  PROVE  PeaksFound'
<1>. DEFINE near == IF start = igs + 1 THEN 0 ELSE SplitNear(pos)
            g == IF near = 0 THEN igs + 1 ELSE near
<1>1. /\ phase = "peaks" /\ Step("join")
      /\ UNCHANGED <<pic, opts, i, imax, start, peak>>
      /\ \/ UNCHANGED <<igs, gsn>> /\ ~(IsPeak(pos) /\ gsn[pos] = i)
         \/ /\ IsPeak(pos) /\ gsn[pos] = i
            /\ igs' = Larger(igs, g) /\ gsn' = [gsn EXCEPT ![pos] = g]
  BY DEF PeakPixel
<1>2. /\ imax <= igs /\ start > imax /\ i <= imax
      /\ \A p \in Pixels(pic) : gsn[p] > imax => pic.lum[p] >= Limit
      /\ \A p \in Pixels(pic) : Treated(p) => pic.lum[p] < Limit
  BY <1>1 DEF PeaksFound, Extracting, Shapes
<1>3. near \in 0 .. igs /\ (near # 0 => near >= start)
  <2>1. SplitNear(pos) \in 0 .. igs /\ (SplitNear(pos) # 0 => SplitNear(pos) >= start)
    BY SplitNearInUse, SplitNearFrom DEF IInv
  <2>. QED BY <2>1, LabelTypes
<1>. HIDE DEF near
<1>4. g \in Nat /\ g > imax /\ g <= igs + 1
  BY <1>2, <1>3, LabelTypes
<1>. HIDE DEF g
<1>5. /\ phase' \in {"peaks", "join"} /\ (phase' = "peaks" => pos' = pos + 1)
      /\ (phase' = "join" => pos = Size)
  BY <1>1 DEF Step
<1>6. imax <= igs'
  <2>1. CASE igs' = igs
    BY <1>2, <2>1
  <2>2. CASE igs' = Larger(igs, g)
    BY <1>2, <1>4, <2>2, LabelTypes DEF Larger
  <2>. QED BY <1>1, <2>1, <2>2
<1>7. ASSUME NEW p \in Pixels(pic), gsn'[p] > imax
      PROVE  pic.lum[p] >= Limit
  <2>1. CASE gsn'[p] = gsn[p]
    BY <1>2, <1>7, <2>1
  <2>2. CASE gsn'[p] # gsn[p]
    <3>1. p = pos /\ IsPeak(pos)
      BY <1>1, <2>2, LabelTypes
    <3>. QED BY <3>1 DEF IsPeak
  <2>. QED BY <2>1, <2>2
<1>8. ASSUME NEW p \in Pixels(pic), Treated(p)'
      PROVE  pic.lum[p] < Limit
  <2>1. \/ gsn'[p] # 0 /\ gsn'[p] < i
        \/ gsn'[p] = i /\ (phase' = "join" \/ (phase' = "peaks" /\ p < pos'))
    BY <1>1, <1>8 DEF Treated
  <2>2. p \in 1 .. Size /\ p <= Size /\ p \in Nat /\ pos \in Nat
    BY LabelTypes
  <2>3. gsn'[p] = i => p <= pos
    BY <1>5, <2>1, <2>2, LabelTypes
  <2>4. CASE p # pos
    <3>1. gsn'[p] = gsn[p]
      BY <1>1, <2>2, <2>4, LabelTypes
    <3>2. gsn'[p] = i => p < pos
      BY <2>2, <2>3, <2>4
    <3>3. Treated(p)
      BY <1>1, <2>1, <3>1, <3>2 DEF Treated
    <3>. QED BY <1>2, <3>3
  <2>5. CASE p = pos
    <3>1. gsn'[pos] = gsn[pos] /\ ~(IsPeak(pos) /\ gsn[pos] = i)
      <4>1. CASE gsn' = [gsn EXCEPT ![pos] = g]
        <5>1. gsn'[pos] = g
          BY <4>1, LabelTypes
        <5>2. g > i
          BY <1>2, <1>4, LabelTypes
        <5>. QED BY <1>4, <2>1, <2>5, <5>1, <5>2, LabelTypes
      <4>. QED BY <1>1, <4>1
    <3>2. CASE gsn[pos] = i
      BY <2>2, <2>5, <3>1, <3>2, LabelTypes DEF IsPeak
    <3>3. CASE gsn[pos] # i
      <4>1. Treated(p)
        BY <2>1, <2>5, <3>1, <3>3 DEF Treated
      <4>. QED BY <1>2, <4>1
    <3>. QED BY <3>2, <3>3
  <2>. QED BY <2>4, <2>5
<1>. QED BY <1>1, <1>2, <1>5, <1>6, <1>7, <1>8 DEF PeaksFound

LEMMA JoinPixelPeaks ==
  ASSUME GlareAssumption, IInv, Shapes, PeaksFound, JoinPixel
  PROVE  PeaksFound'
<1>. DEFINE g == gsn[pos]
            other == IF g < start THEN g ELSE Bigger(pos, start)
<1>1. /\ phase = "join" /\ UNCHANGED <<pic, opts, igs, imax, start, peak>>
      /\ Combine(g, other)
      /\ i' = i \/ i' = i + 1
      /\ phase' = "join" => i' = i
      /\ phase' \in {"join", "choose"}
  BY DEF JoinPixel, Repeat, Step
<1>2. /\ imax <= igs /\ start > imax /\ i <= imax
      /\ \A p \in Pixels(pic) : gsn[p] > imax => pic.lum[p] >= Limit
      /\ \A p \in Pixels(pic) : (gsn[p] # 0 /\ gsn[p] <= i) => pic.lum[p] < Limit
  <2>1. \A p \in Pixels(pic) : gsn[p] <= i => (gsn[p] < i \/ gsn[p] = i)
    BY LabelTypes
  <2>. QED BY <1>1, <2>1 DEF PeaksFound, Extracting, Shapes, Treated
<1>3. other = g \/ (other >= start /\ g >= start /\ other \in Nat)
  <2>1. Bigger(pos, start) = g \/ Bigger(pos, start) >= start
    BY BiggerFrom, LabelTypes DEF IInv
  <2>2. Bigger(pos, start) \in 0 .. igs
    BY BiggerInUse, LabelTypes DEF IInv
  <2>. QED BY <2>1, <2>2, LabelTypes
<1>4. g \in Nat
  BY LabelTypes
<1>. HIDE DEF g, other
<1>5. ASSUME NEW p \in Pixels(pic)
      PROVE  gsn'[p] = gsn[p] \/ (gsn'[p] > imax /\ gsn[p] > imax /\ gsn'[p] \in Nat)
  <2>1. CASE other = g
    BY <1>1, <2>1 DEF Combine
  <2>2. CASE other # g
    <3>1. gsn'[p] = IF gsn[p] = g THEN other ELSE gsn[p]
      BY <1>1, <2>2 DEF Combine
    <3>2. other > imax /\ g > imax /\ other \in Nat
      BY <1>2, <1>3, <1>4, <2>2, LabelTypes
    <3>. QED BY <3>1, <3>2
  <2>. QED BY <2>1, <2>2
<1>6. \A p \in Pixels(pic) : gsn'[p] > imax => pic.lum[p] >= Limit
  BY <1>2, <1>5
<1>7. ASSUME NEW p \in Pixels(pic), Treated(p)'
      PROVE  pic.lum[p] < Limit
  <2>1. \/ gsn'[p] # 0 /\ gsn'[p] < i'
        \/ gsn'[p] = i' /\ i' = i
    BY <1>1, <1>7 DEF Treated
  <2>2. gsn[p] \in Nat /\ i \in Nat /\ imax \in Nat /\ i # 0
    BY LabelTypes
  <2>3. gsn'[p] # 0 /\ gsn'[p] <= i
    BY <1>1, <1>5, <2>1, <2>2
  <2>4. gsn'[p] = gsn[p]
    BY <1>2, <1>5, <2>2, <2>3
  <2>. QED BY <1>2, <2>3, <2>4
<1>. QED BY <1>1, <1>2, <1>6, <1>7 DEF PeaksFound

LEMMA StepPeaksFound ==
  ASSUME GlareAssumption, IInv, Shapes, AtStart, BrightestKnown, PeaksFound, [Next]_vars
  PROVE  PeaksFound'
<1>1. CASE UNCHANGED vars
  BY <1>1 DEF vars, PeaksFound, Extracting, Treated, Splitting
<1>2. CASE ScanSource \/ ScanDark \/ SmoothPixel \/ NoSmoothing
  <2>1. phase' \in {"scan", "second", "smooth", "limit"}
    BY <1>2 DEF ScanSource, ScanDark, SmoothPixel, NoSmoothing, Step, AfterScan
  <2>. QED BY <2>1 DEF PeaksFound, Extracting
<1>3. CASE SecondPixel
  <2>1. phase' \in {"second", "smooth"}
    BY <1>3 DEF SecondPixel, Repeat, Step
  <2>. QED BY <2>1 DEF PeaksFound, Extracting
<1>4. CASE DirectPixel
  <2>1. /\ phase = "direct" /\ phase' \in {"direct", "out", "zones", "done"}
        /\ UNCHANGED <<pic, opts, gsn, igs, imax, i, peak>>
    BY <1>4 DEF DirectPixel, Step, AfterDirect
  <2>2. Extracting' => Extracting /\ phase' = phase
    BY <2>1 DEF Extracting, Splitting
  <2>. QED BY <2>1, <2>2 DEF PeaksFound, Treated
<1>5. CASE NoDirect \/ ZonePixel \/ Output \/ Finished
  <2>1. phase' \in {"zones", "done", "scan"}
    BY <1>5 DEF NoDirect, ZonePixel, Output, Finished, vars, Step, AfterDirect
  <2>. QED BY <2>1 DEF PeaksFound, Extracting
<1>. QED BY <1>1, <1>2, <1>3, <1>4, <1>5, BeginSplitPeaks, ChooseSourcePeaks, PeakPixelPeaks,
        JoinPixelPeaks DEF Next
----------------------------------------------------------------------------
(* The direct light.  What the labelled pixels of a set give, as a sum     *)
(* over one function of the pixels.                                        *)
Shine == [p \in 1 .. Size |-> IF gsn[p] = 0 THEN 0 ELSE Light(p)]

LEMMA ShineType ==
  ASSUME GlareAssumption, IInv, Shapes
  PROVE  /\ \A S \in SUBSET (1 .. Size) : IsFiniteSet(S) /\ Integral(Shine, S)
         /\ \A p \in 1 .. Size : Light(p) \in Int /\ Shine[p] \in Int
<1>1. \A p \in 1 .. Size : Light(p) \in Int
  BY PictureTypes DEF Shapes
<1>2. \A p \in 1 .. Size : Shine[p] \in Int
  BY <1>1 DEF Shine
<1>3. IsFiniteSet(1 .. Size)
  <2>1. Size \in Nat
    BY LabelTypes
  <2>. QED BY <2>1, SegmentFinite
<1>4. \A S \in SUBSET (1 .. Size) : IsFiniteSet(S)
  BY <1>3, FS_Subset
<1>. QED BY <1>1, <1>2, <1>4 DEF Integral

LEMMA LabelledIsSum ==
  ASSUME GlareAssumption, IInv, Shapes, NEW S \in SUBSET (1 .. Size)
  PROVE  LabelledLight(S) = SumFunctionOnSet(Shine, S)
<1>. DEFINE f == [p \in S |-> IF gsn[p] = 0 THEN 0 ELSE Light(p)]
<1>1. LabelledLight(S) = SumFunctionOnSet(f, S)
  BY DEF LabelledLight, SumFunction
<1>2. \A p \in S : Shine[p] = f[p]
  BY DEF Shine
<1>3. IsFiniteSet(S) /\ Integral(Shine, S)
  BY ShineType
<1>. HIDE DEF f
<1>. QED BY <1>1, <1>2, <1>3, SumEqual

LEMMA LabelledNone ==
  LabelledLight({}) = 0 /\ LabelledLight({})' = 0
<1>. DEFINE f == [p \in {} |-> IF gsn[p] = 0 THEN 0 ELSE Light(p)]
            h == [p \in {} |-> IF gsn'[p] = 0 THEN 0 ELSE pic'.lum[p] * pic'.omega[p]]
<1>1. LabelledLight({}) = SumFunctionOnSet(f, {})
  BY DEF LabelledLight, SumFunction
<1>2. LabelledLight({})' = SumFunctionOnSet(h, {})
  BY DEF LabelledLight, SumFunction, Light
<1>. HIDE DEF f, h
<1>. QED BY <1>1, <1>2, SumEmpty

(* The light of a set grows by that of the pixel that is taken in. *)
LEMMA LabelledGrows ==
  ASSUME GlareAssumption, IInv, Shapes, NEW S \in SUBSET (1 .. Size),
         NEW p \in 1 .. Size, p \notin S
  PROVE  LabelledLight(S \cup {p}) = LabelledLight(S) + Shine[p]
<1>1. (S \cup {p}) \in SUBSET (1 .. Size)
  OBVIOUS
<1>2. IsFiniteSet(S) /\ Integral(Shine, S) /\ Integral(Shine, S \cup {p}) /\ Shine[p] \in Int
  BY <1>1, ShineType
<1>3. SumFunctionOnSet(Shine, S \cup {p}) = Shine[p] + SumFunctionOnSet(Shine, S)
  BY <1>2, SumAdd
<1>4. SumFunctionOnSet(Shine, S) \in Int
  BY <1>2, SumInt
<1>5. /\ LabelledLight(S) = SumFunctionOnSet(Shine, S)
      /\ LabelledLight(S \cup {p}) = SumFunctionOnSet(Shine, S \cup {p})
  BY <1>1, LabelledIsSum
<1>6. \A a, b \in Int : a + b = b + a
  OBVIOUS
<1>. QED BY <1>2, <1>3, <1>4, <1>5, <1>6

(* It depends on which pixels are labelled, not on their labels. *)
LEMMA LabelledSame ==
  ASSUME GlareAssumption, IInv, Shapes, pic' = pic,
         NEW S \in SUBSET (1 .. Size), \A p \in S : gsn'[p] = 0 <=> gsn[p] = 0
  PROVE  LabelledLight(S)' = LabelledLight(S)
<1>. DEFINE f == [p \in S |-> IF gsn[p] = 0 THEN 0 ELSE Light(p)]
            h == [p \in S |-> IF gsn'[p] = 0 THEN 0 ELSE Light(p)]
<1>1. h = f
  OBVIOUS
<1>2. LabelledLight(S) = SumFunctionOnSet(f, S)
  BY DEF LabelledLight, SumFunction
<1>3. LabelledLight(S)' = SumFunctionOnSet(h, S)
  BY DEF LabelledLight, SumFunction, Light
<1>. QED BY <1>1, <1>2, <1>3

----------------------------------------------------------------------------
(* The sum of all direct lights when one of them grows. *)
Directs(t) == [g \in Sources |-> t[g].direct]

LEMMA SourcesFinite ==
  ASSUME GlareAssumption
  PROVE  IsFiniteSet(Sources)
<1>1. MaxSources \in Nat
  BY DEF GlareAssumption
<1>. QED BY <1>1, SegmentFinite DEF Sources

LEMMA DirectsType ==
  ASSUME GlareAssumption, NEW t \in Table
  PROVE  /\ IsFiniteSet(Sources) /\ Integral(Directs(t), Sources)
         /\ SumFunctionOnSet(Directs(t), Sources) \in Int
<1>1. IsFiniteSet(Sources)
  BY SourcesFinite
<1>2. Integral(Directs(t), Sources)
  BY EntryTypes DEF Integral, Directs
<1>. QED BY <1>1, <1>2, SumInt

LEMMA DirectsGrow ==
  ASSUME GlareAssumption, NEW f, Integral(f, Sources), NEW h, NEW g \in Sources, NEW v \in Int,
         \A n \in Sources : h[n] = f[n] + (IF n = g THEN v ELSE 0)
  PROVE  SumFunctionOnSet(h, Sources) = SumFunctionOnSet(f, Sources) + v
<1>1. IsFiniteSet(Sources)
  BY SourcesFinite
<1>2. \A n \in Sources : f[n] \in Int
  BY DEF Integral
<1>3. h[g] = f[g] + v /\ \A n \in Sources : n # g => h[n] = f[n]
  BY <1>2
<1>. QED BY <1>1, <1>3, SumUpdate

LEMMA DirectsSame ==
  ASSUME GlareAssumption, NEW t \in Table, NEW u,
         \A n \in Sources : u[n].direct = t[n].direct
  PROVE  SumFunctionOnSet(Directs(u), Sources) = SumFunctionOnSet(Directs(t), Sources)
<1>1. Directs(u) = Directs(t)
  BY DEF Directs
<1>. QED BY <1>1

(* Before the loop over the direct light there is none. *)
Early == {"scan", "second", "smooth", "limit", "choose", "peaks", "join"}

LEMMA EarlyLight ==
  ASSUME GlareAssumption, IInv, Shapes, LightCounted, ~opts.series, tab' \in Table,
         phase \in Early, phase' \in Early \/ (phase' = "direct" /\ pos' = 1),
         opts' = opts, evdir' = evdir, igs' \in Nat, igs <= igs',
         \A n \in Sources : tab'[n].direct \in {tab[n].direct, 0},
         \A n \in Sources : n <= igs => tab'[n].direct = tab[n].direct
  PROVE  LightCounted'
<1>1. Reached = {} /\ Reached' = {}
  BY DEF Early, Reached
<1>2. (Calcfast' = Calcfast) /\ opts'.series = opts.series /\ phase' \notin {"out", "zones"}
  BY DEF Calcfast, Early
<1>3. ASSUME NEW n \in Sources, n > igs'
      PROVE  tab'[n].direct = 0
  <2>1. n > igs
    BY <1>3, LabelTypes DEF Sources
  <2>2. tab[n].direct = 0
    BY <2>1 DEF LightCounted
  <2>. QED BY <2>2
<1>4. ASSUME Calcfast # 1
      PROVE  /\ evdir' = LabelledLight(Reached)'
             /\ AllDirect' = evdir'
             /\ \A n \in Sources : tab'[n].direct = LabelledLight(Reached \cap PixelsOf(n))'
  <2>1. LabelledLight({}) = 0 /\ LabelledLight({})' = 0
    BY LabelledNone
  <2>2. evdir = 0 /\ AllDirect = 0
    BY <1>1, <1>4, <2>1 DEF LightCounted
  <2>3. \A n \in Sources : tab[n].direct = 0
    <3>1. \A n \in Sources : tab[n].direct = LabelledLight(Reached \cap PixelsOf(n))
      BY <1>4 DEF LightCounted, Early
    <3>2. \A n : (Reached \cap PixelsOf(n)) = {}
      BY <1>1
    <3>. QED BY <2>1, <3>1, <3>2
  <2>4. \A n \in Sources : tab'[n].direct = tab[n].direct
    BY <2>3
  <2>5. AllDirect' = AllDirect
    BY <2>4 DEF AllDirect
  <2>6. evdir' = LabelledLight(Reached)'
    <3>1. LabelledLight(Reached)' = LabelledLight({})'
      BY <1>1
    <3>. QED BY <2>1, <2>2, <3>1
  <2>7. ASSUME NEW n \in Sources
        PROVE  tab'[n].direct = LabelledLight(Reached \cap PixelsOf(n))'
    <3>1. (Reached \cap PixelsOf(n))' = {}
      BY <1>1
    <3>2. LabelledLight(Reached \cap PixelsOf(n))' = LabelledLight({})'
      BY <3>1
    <3>. QED BY <2>1, <2>3, <2>4, <3>2
  <2>. QED BY <2>2, <2>5, <2>6, <2>7
<1>. QED BY <1>2, <1>3, <1>4 DEF LightCounted
LEMMA EarlyActionsLight ==
  ASSUME GlareAssumption, IInv, IInv', Shapes, AtStart, BrightestKnown, AnglesAdded, LightCounted,
         ~opts.series,
         \/ ScanSource \/ ScanDark \/ SecondPixel \/ SmoothPixel \/ NoSmoothing
         \/ BeginSplit \/ ChooseSource \/ PeakPixel \/ JoinPixel
  PROVE  LightCounted'
<1>1. opts' = opts /\ evdir' = evdir
  BY DEF ScanSource, ScanDark, SecondPixel, SmoothPixel, NoSmoothing, BeginSplit,
         ChooseSource, PeakPixel, JoinPixel
<1>2. igs' \in Nat /\ igs \in Nat /\ MaxSources \in Nat
  <2>1. MaxSources \in Nat /\ igs \in 0 .. MaxSources
    BY DEF GlareAssumption, IInv, LabelsInUse
  <2>2. igs' \in 0 .. MaxSources
    BY DEF IInv, LabelsInUse
  <2>. QED BY <2>1, <2>2
<1>3. igs <= igs'
  <2>1. CASE ScanSource \/ PeakPixel
    <3>1. igs' = igs \/ \E k : igs' = Larger(igs, k)
      BY <2>1 DEF ScanSource, PeakPixel
    <3>. QED BY <1>2, <3>1 DEF Larger
  <2>2. CASE \/ ScanDark \/ SecondPixel \/ SmoothPixel \/ NoSmoothing
             \/ BeginSplit \/ ChooseSource \/ JoinPixel
    <3>1. igs' = igs
      BY <2>2 DEF ScanDark, SecondPixel, SmoothPixel, NoSmoothing, BeginSplit, ChooseSource,
                  JoinPixel
    <3>. QED BY <1>2, <3>1
  <2>. QED BY <2>1, <2>2
<1>4. phase \in Early /\ (phase' \in Early \/ (phase' = "direct" /\ pos' = 1))
  <2>1. CASE ScanSource \/ ScanDark
    BY <2>1 DEF ScanSource, ScanDark, Step, AfterScan, Early
  <2>2. CASE SecondPixel
    BY <2>2 DEF SecondPixel, Repeat, Step, Early
  <2>3. CASE SmoothPixel \/ NoSmoothing
    BY <2>3 DEF SmoothPixel, NoSmoothing, Step, Early
  <2>4. CASE BeginSplit
    BY <2>4 DEF BeginSplit, Early, AtStart
  <2>5. CASE ChooseSource
    BY <2>5 DEF ChooseSource, Early, AtStart
  <2>6. CASE PeakPixel
    BY <2>6 DEF PeakPixel, Step, Early
  <2>7. CASE JoinPixel
    BY <2>7 DEF JoinPixel, Repeat, Step, Early
  <2>. QED BY <2>1, <2>2, <2>3, <2>4, <2>5, <2>6, <2>7
<1>5. /\ tab' \in Table
      /\ \A n \in Sources : tab'[n].direct \in {tab[n].direct, 0}
      /\ \A n \in Sources : n <= igs => tab'[n].direct = tab[n].direct
  <2>1. CASE ScanSource
    BY <2>1, ScanSourceMeasured DEF Measured
  <2>2. CASE PeakPixel
    BY <2>2, PeakPixelMeasured DEF Measured
  <2>3. CASE ScanDark \/ NoSmoothing \/ BeginSplit \/ ChooseSource
    <3>1. Measured /\ DirectsKept
      BY <2>3, KeepingMeasured
    <3>. QED BY <3>1 DEF Measured, DirectsKept
  <2>4. CASE SecondPixel \/ JoinPixel
    <3>1. Measured /\ DirectsKept
      BY <2>4, CombiningMeasured
    <3>. QED BY <3>1 DEF Measured, DirectsKept
  <2>5. CASE SmoothPixel
    <3>1. Measured /\ DirectsKept
      BY <2>5, SmoothPixelMeasured
    <3>. QED BY <3>1 DEF Measured, DirectsKept
  <2>. QED BY <2>1, <2>2, <2>3, <2>4, <2>5
<1>. QED BY <1>1, <1>2, <1>3, <1>4, <1>5, EarlyLight

(* The loop adds the light of its pixel to the source and to the total. *)
LEMMA DirectPixelLight ==
  ASSUME GlareAssumption, IInv, Shapes, BrightestKnown, AnglesAdded, LightCounted,
         ~opts.series, DirectPixel
  PROVE  LightCounted'
<1>1. /\ phase = "direct" /\ Calcfast # 1 /\ Step(AfterDirect)
      /\ UNCHANGED <<pic, opts, gsn, igs>>
      /\ evdir' = IF gsn[pos] = 0 THEN evdir ELSE evdir + Light(pos)
  BY DEF DirectPixel
<1>2. /\ tab \in Table /\ tab' \in Table
      /\ \A n \in Sources :
           tab'[n].direct = tab[n].direct + (IF n = gsn[pos] THEN Light(pos) ELSE 0)
  BY DirectPixelMeasured DEF Measured, Shapes, Table
<1>3. /\ Pixels(pic) = 1 .. Size /\ pos \in 1 .. Size /\ Size \in Nat
      /\ gsn[pos] \in Nat /\ gsn[pos] <= igs /\ igs \in Nat /\ igs <= MaxSources
      /\ MaxSources \in Nat
  BY LabelTypes
<1>4. Light(pos) \in Int /\ Shine[pos] \in Int /\ Shine[pos] = IF gsn[pos] = 0 THEN 0 ELSE Light(pos)
  BY <1>3, ShineType DEF Shine
<1>. DEFINE S == 1 .. (pos - 1)
            U == 1 .. pos
<1>5. S \in SUBSET (1 .. Size) /\ pos \notin S /\ U = S \cup {pos} /\ U \in SUBSET (1 .. Size)
  BY <1>3
<1>6. Reached = S /\ Reached' = U
  <2>1. Reached = S
    BY <1>1 DEF Reached
  <2>2. CASE pos = Size
    <3>1. phase' \in {"zones", "done"} /\ Pixels(pic') = 1 .. Size
      BY <1>1, <1>3, <2>2 DEF Step, AfterDirect
    <3>. QED BY <2>1, <2>2, <3>1 DEF Reached
  <2>3. CASE pos # Size
    <3>1. phase' = "direct" /\ pos' = pos + 1
      BY <1>1, <2>3 DEF Step
    <3>2. (pos + 1) - 1 = pos
      BY <1>3
    <3>. QED BY <2>1, <3>1, <3>2 DEF Reached
  <2>. QED BY <2>2, <2>3
<1>. HIDE DEF S, U
<1>7. \A R : LabelledLight(R)' = LabelledLight(R)
  BY <1>1 DEF LabelledLight, Light
<1>8. phase' \notin {"out"} /\ (phase' = "zones" => opts.zones # 0)
  BY <1>1 DEF Step, AfterDirect, Shapes, Options
<1>9. Calcfast' = Calcfast
  BY <1>1 DEF Calcfast
<1>10. ASSUME NEW n \in Sources, n > igs'
       PROVE  tab'[n].direct = 0
  <2>1. n > igs /\ n # gsn[pos]
    BY <1>1, <1>3, <1>10 DEF Sources
  <2>2. tab[n].direct = 0
    BY <2>1 DEF LightCounted
  <2>. QED BY <1>2, <2>1, <2>2
<1>11. /\ evdir = LabelledLight(S) /\ AllDirect = evdir
       /\ \A n \in Sources : tab[n].direct = LabelledLight(S \cap PixelsOf(n))
  BY <1>1, <1>6 DEF LightCounted
<1>12. evdir \in Int
  BY DEF Shapes
<1>13. LabelledLight(U) = LabelledLight(S) + Shine[pos]
  BY <1>3, <1>5, LabelledGrows
<1>14. evdir' = LabelledLight(Reached)'
  <2>1. evdir' = evdir + Shine[pos]
    BY <1>1, <1>4, <1>12
  <2>2. LabelledLight(Reached)' = LabelledLight(U)
    BY <1>6, <1>7
  <2>. QED BY <1>11, <1>13, <2>1, <2>2
<1>15. AllDirect' = evdir'
  <2>1. AllDirect = SumFunctionOnSet(Directs(tab), Sources)
    BY DEF AllDirect, Directs
  <2>2. AllDirect' = SumFunctionOnSet(Directs(tab'), Sources)
    BY DEF AllDirect, Directs
  <2>3. CASE gsn[pos] = 0
    <3>1. \A n \in Sources : tab'[n].direct = tab[n].direct
      BY <2>3 DEF DirectPixel
    <3>2. PICK t \in Table : t = tab'
      BY <1>2
    <3>3. \A n \in Sources : t[n].direct = tab[n].direct
      BY <3>1, <3>2
    <3>4. SumFunctionOnSet(Directs(t), Sources) = SumFunctionOnSet(Directs(tab), Sources)
      BY <1>2, <3>3, DirectsSame
    <3>. QED BY <1>1, <1>11, <2>1, <2>2, <2>3, <3>2, <3>4
  <2>4. CASE gsn[pos] # 0
    <3>. DEFINE g == gsn[pos]
                v == Light(pos)
                f == Directs(tab)
    <3>1. PICK t \in Table : t = tab'
      BY <1>2
    <3>2. g \in Sources /\ v \in Int
      BY <1>3, <1>4, <2>4 DEF Sources
    <3>3. Integral(f, Sources)
      BY <1>2, DirectsType
    <3>4. \A n \in Sources : Directs(t)[n] = f[n] + (IF n = g THEN v ELSE 0)
      BY <1>2, <3>1 DEF Directs
    <3>. HIDE DEF g, f
    <3>5. SumFunctionOnSet(Directs(t), Sources) = SumFunctionOnSet(f, Sources) + v
      <4>. HIDE DEF v
      <4>. QED BY <3>2, <3>3, <3>4, DirectsGrow
    <3>6. evdir' = evdir + v
      BY <1>1, <2>4
    <3>. QED BY <1>11, <2>1, <2>2, <3>1, <3>5, <3>6 DEF f
  <2>. QED BY <2>3, <2>4
<1>16. ASSUME NEW n \in Sources
       PROVE  tab'[n].direct = LabelledLight(Reached \cap PixelsOf(n))'
  <2>. DEFINE R == S \cap PixelsOf(n)
  <2>0. n # 0
    BY DEF Sources
  <2>1. R \in SUBSET (1 .. Size) /\ pos \notin R
    BY <1>5
  <2>2. tab[n].direct = LabelledLight(R) /\ tab[n].direct \in Int
    BY <1>2, <1>11, EntryTypes
  <2>3. (Reached \cap PixelsOf(n))' = U \cap PixelsOf(n)
    BY <1>1, <1>6 DEF PixelsOf
  <2>4. LabelledLight(Reached \cap PixelsOf(n))' = LabelledLight(U \cap PixelsOf(n))
    BY <1>7, <2>3
  <2>5. CASE gsn[pos] = n
    <3>1. (U \cap PixelsOf(n)) = R \cup {pos}
      BY <1>3, <1>5, <2>5 DEF PixelsOf
    <3>2. LabelledLight(R \cup {pos}) = LabelledLight(R) + Shine[pos]
      <4>. HIDE DEF R
      <4>. QED BY <1>3, <2>1, LabelledGrows
    <3>3. Shine[pos] = Light(pos)
      BY <1>4, <2>0, <2>5
    <3>4. tab'[n].direct = tab[n].direct + Light(pos)
      BY <1>2, <2>5
    <3>. QED BY <2>2, <2>4, <3>1, <3>2, <3>3, <3>4
  <2>6. CASE gsn[pos] # n
    <3>1. (U \cap PixelsOf(n)) = R
      BY <1>5, <2>6 DEF PixelsOf
    <3>2. tab'[n].direct = tab[n].direct
      BY <1>2, <2>2, <2>6
    <3>3. LabelledLight(U \cap PixelsOf(n)) = LabelledLight(R)
      BY <3>1
    <3>. QED BY <2>2, <2>4, <3>2, <3>3
  <2>. QED BY <2>5, <2>6
<1>. QED BY <1>1, <1>8, <1>9, <1>10, <1>14, <1>15, <1>16 DEF LightCounted

(* A zone takes light from one source and gives it to another. *)
LEMMA ZonePixelLight ==
  ASSUME GlareAssumption, IInv, IInv', Shapes, BrightestKnown, AnglesAdded, LightCounted,
         ~opts.series, ZonePixel
  PROVE  LightCounted'
<1>1. /\ phase = "zones" /\ phase' \in {"zones", "done"}
      /\ UNCHANGED <<pic, opts, evdir>>
  BY DEF ZonePixel, Step
<1>2. tab \in Table /\ tab' \in Table
  BY ZonePixelMeasured DEF Measured, Shapes, Table
<1>3. \/ UNCHANGED <<gsn, igs, tab>>
      \/ /\ gsn[pos] # 0 /\ gsn' = [gsn EXCEPT ![pos] = gsn'[pos]] /\ gsn'[pos] # 0
         /\ gsn[pos] \in Sources /\ igs' \in Sources
         /\ \A n \in Sources :
              tab'[n].direct = tab[n].direct - (IF n = gsn[pos] THEN Light(pos) ELSE 0)
                                             + (IF n = igs' THEN Light(pos) ELSE 0)
  BY ZonePixelMeasured
<1>4. opts.zones # 0
  BY <1>1 DEF LightCounted
<1>5. /\ Pixels(pic) = 1 .. Size /\ pos \in 1 .. Size /\ Size \in Nat
      /\ gsn[pos] \in Nat /\ gsn[pos] <= igs /\ igs \in Nat
      /\ gsn \in [1 .. Size -> 0 .. igs]
  BY LabelTypes
<1>6. Light(pos) \in Int
  BY <1>5, ShineType
<1>7. (Reached = 1 .. Size) /\ (Reached' = 1 .. Size)
  BY <1>1, <1>5 DEF Reached
<1>8. Calcfast' = Calcfast
  BY <1>1 DEF Calcfast
<1>9. igs' \in Nat /\ igs <= igs'
  <2>1. igs' \in Nat
    BY DEF IInv, LabelsInUse, GlareAssumption
  <2>2. igs' = igs \/ \E k : igs' = Larger(igs, k)
    BY DEF ZonePixel
  <2>. QED BY <1>5, <2>1, <2>2 DEF Larger
<1>10. ASSUME NEW n \in Sources, n > igs'
       PROVE  tab'[n].direct = 0
  <2>1. n > igs /\ n # gsn[pos] /\ n # igs'
    BY <1>5, <1>9, <1>10 DEF Sources
  <2>2. tab[n].direct = 0
    BY <2>1 DEF LightCounted
  <2>. QED BY <1>3, <2>1, <2>2
<1>11. LabelledLight(Reached)' = LabelledLight(Reached)
  <2>1. \A p \in 1 .. Size : gsn'[p] = 0 <=> gsn[p] = 0
    BY <1>3, <1>5
  <2>2. LabelledLight(1 .. Size)' = LabelledLight(1 .. Size)
    <3>1. PICK S \in SUBSET (1 .. Size) : S = 1 .. Size
      OBVIOUS
    <3>2. LabelledLight(S)' = LabelledLight(S)
      BY <1>1, <2>1, LabelledSame
    <3>3. Size' = Size
      BY <1>1 DEF Size
    <3>. QED BY <3>1, <3>2, <3>3
  <2>3. Size' = Size
    BY <1>1 DEF Size
  <2>. QED BY <1>7, <2>2, <2>3
<1>12. AllDirect' = AllDirect
  <2>1. AllDirect = SumFunctionOnSet(Directs(tab), Sources)
    BY DEF AllDirect, Directs
  <2>2. AllDirect' = SumFunctionOnSet(Directs(tab'), Sources)
    BY DEF AllDirect, Directs
  <2>3. CASE UNCHANGED <<gsn, igs, tab>>
    BY <2>3 DEF AllDirect
  <2>4. CASE /\ gsn[pos] \in Sources /\ igs' \in Sources
             /\ \A n \in Sources :
                  tab'[n].direct = tab[n].direct - (IF n = gsn[pos] THEN Light(pos) ELSE 0)
                                                 + (IF n = igs' THEN Light(pos) ELSE 0)
    <3>. DEFINE g == gsn[pos]
                v == Light(pos)
                w == -v
                f == Directs(tab)
                h == [n \in Sources |-> f[n] + (IF n = g THEN w ELSE 0)]
    <3>1. PICK t \in Table : t = tab'
      BY <1>2
    <3>2. PICK k \in Sources : k = igs'
      BY <2>4
    <3>3. g \in Sources /\ v \in Int
      BY <1>6, <2>4
    <3>4. w \in Int
      <4>. HIDE DEF v
      <4>. QED BY <3>3
    <3>5. Integral(f, Sources)
      BY <1>2, DirectsType
    <3>6. \A n \in Sources : f[n] \in Int
      BY <3>5 DEF Integral
    <3>7. \A n \in Sources : Directs(t)[n] = f[n] - (IF n = g THEN v ELSE 0)
                                                  + (IF n = k THEN v ELSE 0)
      BY <2>4, <3>1, <3>2 DEF Directs
    <3>. HIDE DEF f, g, v
    <3>8. \A n \in Sources : h[n] = f[n] + (IF n = g THEN w ELSE 0)
      <4>. HIDE DEF w
      <4>. QED OBVIOUS
    <3>9. \A n \in Sources : Directs(t)[n] = h[n] + (IF n = k THEN v ELSE 0)
      BY <3>3, <3>6, <3>7
    <3>10. Integral(h, Sources)
      <4>. HIDE DEF w
      <4>. QED BY <3>4, <3>6 DEF Integral
    <3>. HIDE DEF w, h
    <3>11. SumFunctionOnSet(h, Sources) = SumFunctionOnSet(f, Sources) + w
      BY <3>3, <3>4, <3>5, <3>8, DirectsGrow
    <3>12. SumFunctionOnSet(Directs(t), Sources) = SumFunctionOnSet(h, Sources) + v
      BY <3>3, <3>9, <3>10, DirectsGrow
    <3>13. SumFunctionOnSet(f, Sources) \in Int
      BY <1>2, DirectsType DEF f
    <3>14. SumFunctionOnSet(Directs(t), Sources) = SumFunctionOnSet(f, Sources)
      <4>1. w = -v
        BY DEF w
      <4>. QED BY <3>3, <3>11, <3>12, <3>13, <4>1
    <3>. QED BY <2>1, <2>2, <3>1, <3>14 DEF f
  <2>. QED BY <1>3, <2>3, <2>4
<1>. QED BY <1>1, <1>4, <1>8, <1>10, <1>11, <1>12 DEF LightCounted

(* Sources that are not in use have no direct light. *)
LEMMA UsedDirects ==
  ASSUME GlareAssumption, IInv, Shapes, LightCounted, ~opts.series
  PROVE  DirectLight = AllDirect
<1>. DEFINE f == Directs(tab)
            h == [g \in 1 .. igs |-> tab[g].direct]
            S == 1 .. igs
            R == igs + 1 .. MaxSources
<1>1. igs \in Nat /\ MaxSources \in Nat /\ igs <= MaxSources
  BY LabelTypes
<1>2. IsFiniteSet(S) /\ IsFiniteSet(R)
  BY <1>1, FS_Interval
<1>3. (S \cap R) = {} /\ (S \cup R) = Sources
  BY <1>1 DEF Sources
<1>4. Integral(f, Sources)
  BY DirectsType DEF Shapes, Table
<1>5. \A g \in S : f[g] = h[g]
  BY <1>3 DEF Directs
<1>6. \A g \in R : f[g] = 0
  <2>1. \A g \in R : g \in Sources /\ g > igs
    BY <1>1 DEF Sources
  <2>. QED BY <2>1 DEF LightCounted, Directs
<1>7. DirectLight = SumFunctionOnSet(h, S)
  BY DEF DirectLight, SumFunction
<1>8. AllDirect = SumFunctionOnSet(f, Sources)
  BY DEF AllDirect, Directs
<1>. HIDE DEF f, h, S, R
<1>9. Integral(f, S \cup R) /\ Integral(f, S)
  BY <1>3, <1>4 DEF Integral
<1>10. SumFunctionOnSet(f, S) = SumFunctionOnSet(h, S)
  BY <1>2, <1>5, <1>9, SumEqual
<1>11. SumFunctionOnSet(f, R) = 0
  BY <1>2, <1>6, SumZero
<1>12. SumFunctionOnSet(f, S \cup R) = SumFunctionOnSet(f, S) + SumFunctionOnSet(f, R)
  BY <1>2, <1>3, <1>9, SumUnion
<1>13. SumFunctionOnSet(f, S) \in Int
  BY <1>2, <1>9, SumInt
<1>14. SumFunctionOnSet(f, S \cup R) = SumFunctionOnSet(f, S)
  BY <1>11, <1>12, <1>13
<1>15. SumFunctionOnSet(f, S \cup R) = AllDirect
  BY <1>3, <1>8
<1>. QED BY <1>7, <1>10, <1>14, <1>15

LEMMA InitMInv ==
  ASSUME GlareAssumption, Init
  PROVE  MInv
<1>1. /\ IsPicture(pic) /\ opts \in Options /\ MaxSources \in Nat \ {0}
      /\ MaxImages \in Nat \ {0}
  BY DEF Init, GlareAssumption
<1>2. Shapes
  <2>1. tab \in [Sources -> Entry]
    BY DEF Init, Entry, Blank
  <2>2. imax = 0 /\ i = 1 /\ phase = "scan" /\ image = 1 /\ change = FALSE /\ peak = 0 /\ evdir = 0
    BY DEF Init
  <2>3. imax \in 0 .. MaxSources /\ i \in 1 .. imax + 1 /\ image \in 1 .. MaxImages
    BY <1>1, <2>2
  <2>4. change \in BOOLEAN
    BY DEF Init
  <2>5. peak \in Int /\ evdir \in Int
    BY <2>2
  <2>. QED BY <1>1, <2>1, <2>2, <2>3, <2>4, <2>5 DEF Shapes
<1>3. AtStart /\ BrightestKnown /\ PeaksFound
  BY DEF Init, AtStart, BrightestKnown, PeaksFound, Extracting
<1>4. AnglesAdded
  BY <1>1 DEF Init, AnglesAdded, Blank
<1>5. LightCounted
  <2>1. Reached = {} /\ phase = "scan" /\ evdir = 0
    BY DEF Init, Reached
  <2>2. \A g \in Sources : tab[g].direct = 0
    BY DEF Init, Blank
  <2>3. LabelledLight({}) = 0
    BY LabelledNone
  <2>4. LabelledLight(Reached) = 0
    BY <2>1, <2>3
  <2>5. \A g \in Sources : LabelledLight(Reached \cap PixelsOf(g)) = 0
    <3>1. \A g : (Reached \cap PixelsOf(g)) = {}
      BY <2>1
    <3>. QED BY <2>3, <3>1
  <2>6. AllDirect = 0
    <3>. DEFINE f == [g \in Sources |-> tab[g].direct]
    <3>1. IsFiniteSet(Sources)
      BY SourcesFinite
    <3>2. \A g \in Sources : f[g] = 0
      BY <2>2
    <3>. HIDE DEF f
    <3>3. SumFunctionOnSet(f, Sources) = 0
      BY <3>1, <3>2, SumZero
    <3>. QED BY <3>3 DEF AllDirect, f
  <2>. QED BY <2>1, <2>2, <2>4, <2>5, <2>6 DEF LightCounted
<1>. QED BY <1>2, <1>3, <1>4, <1>5 DEF MInv

LEMMA StepLight ==
  ASSUME GlareAssumption, IInv, IInv', MInv, [Next]_vars
  PROVE  LightCounted'
<1>. USE DEF MInv
<1>1. CASE UNCHANGED vars
  BY <1>1 DEF vars, LightCounted, AllDirect, LabelledLight, Light, Reached, PixelsOf, Calcfast
<1>2. opts' = opts
  BY DEF Next, ScanSource, ScanDark, SecondPixel, SmoothPixel, NoSmoothing, BeginSplit,
         ChooseSource, PeakPixel, JoinPixel, NoDirect, DirectPixel, ZonePixel, Output,
         Finished, vars
<1>3. CASE opts.series
  BY <1>2, <1>3 DEF LightCounted
<1>4. CASE NoDirect
  <2>1. /\ Calcfast = 1 /\ ~opts.series /\ UNCHANGED <<igs, tab>>
        /\ phase' \in {"zones", "done"} /\ (phase' = "zones" => opts.zones # 0)
    BY <1>4 DEF NoDirect, AfterDirect, Shapes, Options
  <2>2. Calcfast' = Calcfast
    BY <1>2 DEF Calcfast
  <2>. QED BY <1>2, <2>1, <2>2 DEF LightCounted
<1>5. CASE Output
  <2>1. phase = "out"
    BY <1>5 DEF Output
  <2>. QED BY <1>3, <2>1 DEF LightCounted
<1>6. CASE Finished
  BY <1>1, <1>6 DEF Finished
<1>7. CASE ~opts.series /\ (\/ ScanSource \/ ScanDark \/ SecondPixel \/ SmoothPixel
                            \/ NoSmoothing \/ BeginSplit \/ ChooseSource \/ PeakPixel
                            \/ JoinPixel)
  BY <1>7, EarlyActionsLight
<1>8. CASE ~opts.series /\ DirectPixel
  BY <1>8, DirectPixelLight
<1>9. CASE ~opts.series /\ ZonePixel
  BY <1>9, ZonePixelLight
<1>. QED BY <1>1, <1>3, <1>4, <1>5, <1>6, <1>7, <1>8, <1>9 DEF Next

LEMMA StepMInv ==
  ASSUME GlareAssumption, IInv, IInv', MInv, [Next]_vars
  PROVE  MInv'
<1>. USE DEF MInv
<1>1. Measured
  BY ScanSourceMeasured, KeepingMeasured, CombiningMeasured, SmoothPixelMeasured,
     PeakPixelMeasured, DirectPixelMeasured, ZonePixelMeasured, OutputMeasured DEF Next
<1>2. IsPicture(pic')
  <2>1. pic' = pic \/ Output
    BY DEF Next, ScanSource, ScanDark, SecondPixel, SmoothPixel, NoSmoothing, BeginSplit,
           ChooseSource, PeakPixel, JoinPixel, NoDirect, DirectPixel, ZonePixel,
           Finished, vars
  <2>. QED BY <2>1, OutputMeasured DEF Shapes
<1>3. Shapes'
  BY <1>1, <1>2, StepShapes DEF Measured
<1>4. AtStart'
  BY StepAtStart
<1>5. PeaksFound'
  BY StepPeaksFound
<1>6. LightCounted'
  BY StepLight
<1>. QED BY <1>1, <1>3, <1>4, <1>5, <1>6 DEF Measured

(* In every reachable state the measures of the sources are those of their *)
(* pixels, and the direct light is that of the pixels gone through.        *)
THEOREM MInvAlways == Spec => []MInv
<1>1. GlareAssumption
  BY GlareAssumption
<1>2. Init => MInv
  BY <1>1, InitMInv
<1>3. IInv /\ IInv' /\ MInv /\ [Next]_vars => MInv'
  BY <1>1, StepMInv
<1>. QED BY <1>2, <1>3, IInvAlways, PTL DEF Spec

(* Every variable keeps its shape, for all pictures and options: the       *)
(* table, the zones, the loops and the counters of the program.            *)
THEOREM TypesAlways == Spec => []TypeOK
<1>1. ASSUME GlareAssumption, IInv, MInv
      PROVE  TypeOK
  <2>1. LabelsInUse /\ Shapes
    BY <1>1 DEF IInv, MInv
  <2>2. Pixels(pic) = 1 .. Size
    BY DEF Pixels, Size
  <2>. QED BY <2>1, <2>2 DEF LabelsInUse, Shapes, TypeOK
<1>2. GlareAssumption
  BY GlareAssumption
<1>3. IInv /\ MInv => TypeOK
  BY <1>1, <1>2
<1>. QED BY <1>3, IInvAlways, MInvAlways, PTL

(* The extraction finds every peak of every source, however many sources   *)
(* the peaks are grouped into: after it no old source has one, and the     *)
(* new ones have nothing else.                                             *)
THEOREM PeaksSeparatedAlways == Spec => []PeaksSeparated
<1>1. ASSUME GlareAssumption, IInv, MInv
      PROVE  PeaksSeparated
  <2>. SUFFICES ASSUME phase = "direct", Splitting, NEW p \in Pixels(pic), gsn[p] # 0
                PROVE  gsn[p] > imax <=> pic.lum[p] >= Limit
    BY DEF PeaksSeparated
  <2>1. Shapes /\ PeaksFound /\ Extracting
    BY <1>1 DEF MInv, Extracting
  <2>2. /\ i > imax
        /\ gsn[p] > imax => pic.lum[p] >= Limit
        /\ Treated(p) => pic.lum[p] < Limit
    BY <2>1 DEF PeaksFound
  <2>3. /\ gsn[p] \in Nat /\ imax \in Nat /\ i \in Nat
        /\ pic.lum[p] \in Int /\ Limit \in Int
    BY <1>1, <2>1, LabelTypes
  <2>4. ~(gsn[p] > imax) => Treated(p)
    BY <2>2, <2>3 DEF Treated
  <2>. QED BY <2>2, <2>3, <2>4
<1>2. GlareAssumption
  BY GlareAssumption
<1>3. IInv /\ MInv => PeaksSeparated
  BY <1>1, <1>2
<1>. QED BY <1>3, IInvAlways, MInvAlways, PTL

(* No light is lost or counted twice, for all pictures, options and zones: *)
(* what the sources have in the end adds up to E_v_dir, and without zones  *)
(* every one has the light and the solid angle of its own pixels.          *)
THEOREM LightConservedAlways == Spec => []LightConserved
<1>1. ASSUME GlareAssumption, IInv, MInv
      PROVE  LightConserved
  <2>. SUFFICES ASSUME phase = "done", ~opts.series
                PROVE  /\ Calcfast # 1 =>
                            /\ DirectLight = evdir
                            /\ evdir = LabelledLight(Pixels(pic))
                            /\ opts.zones = 0 =>
                                 \A g \in 1 .. igs : tab[g].direct = LabelledLight(PixelsOf(g))
                       /\ ~Smoothing => \A g \in 1 .. igs : tab[g].omega = AngleOf(PixelsOf(g))
    BY DEF LightConserved
  <2>1. Shapes /\ LightCounted /\ AnglesAdded
    BY <1>1 DEF MInv
  <2>2. Reached = Pixels(pic)
    BY DEF Reached
  <2>3. igs \in Nat /\ MaxSources \in Nat /\ igs <= MaxSources
    BY <1>1, <2>1, LabelTypes
  <2>4. ASSUME Calcfast # 1
        PROVE  /\ DirectLight = evdir
               /\ evdir = LabelledLight(Pixels(pic))
               /\ opts.zones = 0 =>
                    \A g \in 1 .. igs : tab[g].direct = LabelledLight(PixelsOf(g))
    <3>1. evdir = LabelledLight(Pixels(pic)) /\ AllDirect = evdir
      BY <2>1, <2>2, <2>4 DEF LightCounted
    <3>2. DirectLight = AllDirect
      BY <1>1, <2>1, UsedDirects
    <3>3. ASSUME opts.zones = 0, NEW g \in 1 .. igs
          PROVE  tab[g].direct = LabelledLight(PixelsOf(g))
      <4>1. g \in Sources
        BY <2>3 DEF Sources
      <4>2. tab[g].direct = LabelledLight(Reached \cap PixelsOf(g))
        BY <2>1, <2>4, <3>3, <4>1 DEF LightCounted
      <4>3. (Reached \cap PixelsOf(g)) = PixelsOf(g)
        BY <2>2 DEF PixelsOf
      <4>. QED BY <4>2, <4>3
    <3>. QED BY <3>1, <3>2, <3>3
  <2>. QED BY <2>1, <2>4 DEF AnglesAdded
<1>2. GlareAssumption
  BY GlareAssumption
<1>3. IInv /\ MInv => LightConserved
  BY <1>1, <1>2
<1>. QED BY <1>3, IInvAlways, MInvAlways, PTL
----------------------------------------------------------------------------
(* What find_near_pgs sees.  The near pixels of a row are the columns of   *)
(* a chord; half its width is b when the row is d rows away.               *)
HalfWidth(r2, d, b) == b * b + d * d <= r2 /\ r2 < (b + 1) * (b + 1) + d * d

(* Whether a search misses nothing in a row that is d rows away: while the *)
(* radius is small (less so in the first scan, which sees no column right  *)
(* of the pixel), and in all but the outermost rows.                       *)
SeesRow(dim, r2, p, hi, d) ==
  r2 < 9 \/ (r2 < 25 /\ hi = X(dim, p)) \/ 5 * (d * d) <= 4 * r2

LEMMA HalfBounds ==
  ASSUME NEW n \in Int, n >= -1
  PROVE  Half(n) \in Nat /\ (n >= 0 => 2 * Half(n) <= n /\ n <= 2 * Half(n) + 1)
         /\ (n = -1 => Half(n) = 0)
<1>1. CASE n >= 0
  <2>1. Half(n) = n \div 2
    BY <1>1 DEF Half
  <2>2. n \div 2 \in Int /\ n % 2 \in 0 .. 1 /\ n = (n \div 2) * 2 + (n % 2)
    BY Division
  <2>. QED BY <1>1, <2>1, <2>2
<1>2. CASE n = -1
  <2>1. 1 \div 2 = 0
    BY QuotientIs
  <2>. QED BY <1>2, <2>1 DEF Half
<1>. QED BY <1>1, <1>2

LEMMA SquareGrows ==
  ASSUME NEW m \in Nat, NEW n \in Nat, m <= n
  PROVE  m * m <= n * n
<1>1. n * n = m * m + (n - m) * (n + m)
  OBVIOUS
<1>2. (n - m) * (n + m) \in Nat
  OBVIOUS
<1>3. m * m \in Int /\ n * n \in Int
  OBVIOUS
<1>. QED BY <1>1, <1>2, <1>3

(* The near columns of a row. *)
LEMMA ChordColumns ==
  ASSUME NEW r2 \in Nat, NEW d \in Nat, NEW b \in Nat, HalfWidth(r2, d, b), NEW m \in Int
  PROVE  m * m + d * d <= r2 <=> m \in (-b) .. b
<1>. DEFINE k == IF m >= 0 THEN m ELSE -m
<1>1. k \in Nat /\ k * k = m * m /\ (m \in (-b) .. b <=> k <= b)
  OBVIOUS
<1>. HIDE DEF k
<1>2. k * k \in Int /\ b * b \in Int /\ (b + 1) * (b + 1) \in Int /\ d * d \in Int
  BY <1>1
<1>3. k <= b => k * k <= b * b
  BY <1>1, SquareGrows
<1>4. k > b => (b + 1) * (b + 1) <= k * k
  BY <1>1, SquareGrows
<1>5. b * b + d * d <= r2 /\ r2 < (b + 1) * (b + 1) + d * d
  BY DEF HalfWidth
<1>6. k * k + d * d <= r2 <=> k <= b
  <2>. DEFINE kk == k * k
              bb == b * b
              cc == (b + 1) * (b + 1)
              dd == d * d
  <2>1. /\ kk \in Int /\ bb \in Int /\ cc \in Int /\ dd \in Int
        /\ (k <= b => kk <= bb) /\ (k > b => cc <= kk) /\ bb + dd <= r2 /\ r2 < cc + dd
    BY <1>2, <1>3, <1>4, <1>5
  <2>. HIDE DEF kk, bb, cc, dd
  <2>2. kk + dd <= r2 <=> k <= b
    BY <1>1, <2>1
  <2>. QED BY <2>2 DEF kk, dd
<1>. QED BY <1>1, <1>6

LEMMA WidthExists ==
  ASSUME NEW r2 \in Nat, NEW d \in Nat, d * d <= r2
  PROVE  \E b \in Nat : HalfWidth(r2, d, b)
<1>. DEFINE e == d * d
            S == {n \in Nat : r2 < (n + 1) * (n + 1) + e}
<1>1. e \in Nat /\ e <= r2
  OBVIOUS
<1>2. \A b \in Nat : HalfWidth(r2, d, b) <=> (b * b + e <= r2 /\ r2 < (b + 1) * (b + 1) + e)
  BY DEF HalfWidth
<1>. HIDE DEF e
<1>3. r2 \in S
  <2>1. (r2 + 1) * (r2 + 1) = r2 * r2 + 2 * r2 + 1 /\ r2 * r2 \in Nat
    OBVIOUS
  <2>2. r2 < (r2 + 1) * (r2 + 1) + e
    BY <1>1, <2>1
  <2>. QED BY <2>2
<1>4. PICK b \in S : \A n \in S : b <= n
  <2>1. S \in SUBSET Nat /\ S # {}
    BY <1>3
  <2>. HIDE DEF S
  <2>. QED BY <2>1, LeastElement
<1>5. b \in Nat /\ r2 < (b + 1) * (b + 1) + e
  BY <1>4
<1>6. b * b + e <= r2
  <2>1. CASE b = 0
    BY <1>1, <2>1
  <2>2. CASE b # 0
    <3>1. b - 1 \in Nat /\ b - 1 \notin S
      BY <1>4, <1>5, <2>2
    <3>2. ~(r2 < (b - 1 + 1) * (b - 1 + 1) + e)
      BY <3>1
    <3>3. b - 1 + 1 = b /\ b * b \in Nat
      BY <1>5
    <3>. QED BY <1>1, <3>2, <3>3
  <2>. QED BY <2>1, <2>2
<1>. QED BY <1>2, <1>5, <1>6

(* Chords get shorter, by so little below five pixels that a row entered at the middle of    *)
(* where the walks before it stopped is entered on its chord.              *)
LEMMA WidthsShrink ==
  ASSUME NEW r2 \in Nat, r2 < 25, NEW d \in Nat \ {0}, NEW a \in Nat, NEW b \in Nat,
         HalfWidth(r2, d - 1, a), HalfWidth(r2, d, b)
  PROVE  /\ b <= a /\ a <= 4 /\ (b = 0 => a <= 2)
         /\ r2 < 9 => a <= 2 /\ a <= b + 1
<1>1. /\ a * a + (d - 1) * (d - 1) <= r2 /\ r2 < (a + 1) * (a + 1) + (d - 1) * (d - 1)
      /\ b * b + d * d <= r2 /\ r2 < (b + 1) * (b + 1) + d * d
  BY DEF HalfWidth
<1>2. d <= 4
  <2>1. d > 4 => d * d >= 25
    BY SquareGrows
  <2>2. b * b \in Nat
    OBVIOUS
  <2>. QED BY <1>1, <2>1, <2>2
<1>3. a <= 4
  <2>1. a > 4 => a * a >= 25
    BY SquareGrows
  <2>2. (d - 1) * (d - 1) \in Nat
    OBVIOUS
  <2>. QED BY <1>1, <2>1, <2>2
<1>4. b <= 4
  <2>1. b > 4 => b * b >= 25
    BY SquareGrows
  <2>2. d * d \in Nat
    OBVIOUS
  <2>. QED BY <1>1, <2>1, <2>2
<1>5. d = 1 \/ d = 2 \/ d = 3 \/ d = 4
  BY <1>2
<1>6. a = 0 \/ a = 1 \/ a = 2 \/ a = 3 \/ a = 4
  BY <1>3
<1>7. b = 0 \/ b = 1 \/ b = 2 \/ b = 3 \/ b = 4
  BY <1>4
<1>8. CASE d = 1
  BY <1>1, <1>6, <1>7, <1>8
<1>9. CASE d = 2
  BY <1>1, <1>6, <1>7, <1>9
<1>10. CASE d = 3
  BY <1>1, <1>6, <1>7, <1>10
<1>11. CASE d = 4
  BY <1>1, <1>6, <1>7, <1>11
<1>. QED BY <1>5, <1>8, <1>9, <1>10, <1>11

(* So do the chords of any radius, up to the outermost rows. *)
LEMMA WidthsShrinkSlowly ==
  ASSUME NEW r2 \in Nat, NEW d \in Nat \ {0}, NEW a \in Nat, NEW b \in Nat,
         HalfWidth(r2, d - 1, a), HalfWidth(r2, d, b), 5 * (d * d) <= 4 * r2
  PROVE  b <= a /\ a <= b + 2 /\ a <= 2 * b
<1>. DEFINE aa == a * a
            bb == b * b
            cc == (b + 1) * (b + 1)
            dd == d * d
<1>1. /\ aa \in Nat /\ bb \in Nat /\ cc \in Nat /\ dd \in Nat
      /\ cc = bb + 2 * b + 1 /\ (d - 1) * (d - 1) = dd - 2 * d + 1
      /\ (a + 1) * (a + 1) = aa + 2 * a + 1
  OBVIOUS
<1>2. /\ aa + (dd - 2 * d + 1) <= r2 /\ r2 < aa + 2 * a + 1 + (dd - 2 * d + 1)
      /\ bb + dd <= r2 /\ r2 < cc + dd /\ 5 * dd <= 4 * r2
  BY <1>1 DEF HalfWidth
<1>3. b <= a
  <2>1. a + 1 <= b => (a + 1) * (a + 1) <= bb
    BY SquareGrows
  <2>. HIDE DEF aa, bb, cc, dd
  <2>. QED BY <1>1, <1>2, <2>1
<1>4. a <= b + 2
  <2>. SUFFICES ASSUME b + 3 <= a PROVE FALSE
    OBVIOUS
  <2>1. (b + 3) * (b + 3) <= aa
    BY SquareGrows
  <2>2. (b + 3) * (b + 3) = cc + 4 * b + 8
    OBVIOUS
  <2>3. 2 * (b + 1) <= d
    <3>. HIDE DEF aa, bb, cc, dd
    <3>. QED BY <1>1, <1>2, <2>1, <2>2
  <2>4. (2 * (b + 1)) * (2 * (b + 1)) <= dd
    BY <2>3, SquareGrows
  <2>5. (2 * (b + 1)) * (2 * (b + 1)) = 4 * cc
    OBVIOUS
  <2>. HIDE DEF aa, bb, cc, dd
  <2>. QED BY <1>1, <1>2, <2>4, <2>5
<1>5. a <= 2 * b
  <2>1. CASE b >= 2
    BY <1>4, <2>1
  <2>2. CASE b = 0
    <3>1. d >= 2 => 2 * 2 <= dd
      BY SquareGrows
    <3>2. cc = 1
      BY <2>2
    <3>3. d = 1 => dd = 1
      OBVIOUS
    <3>. HIDE DEF aa, bb, cc, dd
    <3>. QED BY <1>1, <1>2, <3>1, <3>2, <3>3
  <2>3. CASE b = 1
    <3>1. d >= 4 => 4 * 4 <= dd
      BY SquareGrows
    <3>2. cc = 4
      BY <2>3
    <3>3. a >= 3 => 3 * 3 <= aa
      BY SquareGrows
    <3>. HIDE DEF aa, bb, cc, dd
    <3>. QED BY <1>1, <1>2, <2>3, <3>1, <3>2, <3>3
  <2>. QED BY <2>1, <2>2, <2>3
<1>. QED BY <1>3, <1>4, <1>5

(* How far the chord of a row, of half width b, may be inside the one      *)
(* before it, of half width a, for the row to be seen.                     *)
Follows(a, b, hi, c) ==
  /\ b <= a
  /\ \/ hi = c /\ a <= 4 /\ (b = 0 => a <= 2)
     \/ a <= 2 /\ a <= b + 1
     \/ a <= b + 2 /\ a <= 2 * b

LEMMA LeastIsMin ==
  ASSUME NEW S \in SUBSET Nat, S # {}
  PROVE  Min(S) \in S /\ \A x \in S : Min(S) <= x
<1>1. PICK n \in S : \A m \in S : n <= m
  BY LeastElement
<1>. QED BY <1>1 DEF Min

(* Where the two walks of a row end that begin at a column. *)
LeftStop(far, from) == Max({-1} \cup {x \in far : x <= from})
RightStop(far, hi, from) == Min({hi + 1} \cup {x \in far : x >= from})

LEMMA StopsAt ==
  ASSUME NEW hi \in Nat, NEW far \in SUBSET (0 .. hi), NEW from \in 0 .. hi
  PROVE  /\ LeftStop(far, from) \in -1 .. from
         /\ LeftStop(far, from) = -1 \/ LeftStop(far, from) \in far
         /\ \A x \in (LeftStop(far, from) + 1) .. from : x \notin far
         /\ RightStop(far, hi, from) \in from .. (hi + 1)
         /\ RightStop(far, hi, from) = hi + 1 \/ RightStop(far, hi, from) \in far
         /\ \A x \in from .. (RightStop(far, hi, from) - 1) : x \notin far
<1>1. IsFiniteSet(0 .. hi)
  <2>1. 0 \in Int /\ hi \in Int
    OBVIOUS
  <2>. QED BY <2>1, FS_Interval
<1>2. \A S \in SUBSET (0 .. hi) : IsFiniteSet(S)
  BY <1>1, FS_Subset
<1>. DEFINE L == {x \in far : x <= from}
            R == {x \in far : x >= from}
<1>3. /\ ({-1} \cup L) \in SUBSET Int /\ {-1} \cup L # {}
      /\ ({hi + 1} \cup R) \in SUBSET Nat /\ {hi + 1} \cup R # {}
  <2>1. L \subseteq 0 .. hi /\ R \subseteq 0 .. hi
    OBVIOUS
  <2>2. 0 .. hi \subseteq Nat /\ Nat \subseteq Int /\ -1 \in Int /\ hi + 1 \in Nat
    OBVIOUS
  <2>. HIDE DEF L, R
  <2>. QED BY <2>1, <2>2
<1>4. IsFiniteSet({-1} \cup L)
  <2>1. IsFiniteSet(L)
    BY <1>2
  <2>2. IsFiniteSet({-1})
    BY FS_Singleton
  <2>. HIDE DEF L, R
  <2>. QED BY <2>1, <2>2, FS_Union
<1>. DEFINE l == LeftStop(far, from)
            r == RightStop(far, hi, from)
<1>5. l \in {-1} \cup L /\ \A x \in {-1} \cup L : l >= x
  <2>1. l = Max({-1} \cup L)
    BY DEF LeftStop
  <2>. HIDE DEF l, L
  <2>. QED BY <1>3, <1>4, <2>1, GreatestIsMax
<1>6. r \in {hi + 1} \cup R /\ \A x \in {hi + 1} \cup R : r <= x
  <2>1. r = Min({hi + 1} \cup R)
    BY DEF RightStop
  <2>. HIDE DEF r, R
  <2>. QED BY <1>3, <2>1, LeastIsMin
<1>. HIDE DEF l, r
<1>7. /\ l \in -1 .. from /\ (l = -1 \/ l \in far)
      /\ \A x \in (l + 1) .. from : x \notin far
  BY <1>5
<1>8. /\ r \in from .. (hi + 1) /\ (r = hi + 1 \/ r \in far)
      /\ \A x \in from .. (r - 1) : x \notin far
  BY <1>6
<1>. QED BY <1>7, <1>8 DEF l, r

(* What is on a path. *)
OnPath(path, q) == \E k \in 1 .. Len(path) : path[k] = q

LEMMA PathGrows ==
  ASSUME NEW s \in Seq(Int), NEW t \in Seq(Int), NEW q
  PROVE  s \o t \in Seq(Int) /\ (OnPath(s \o t, q) <=> OnPath(s, q) \/ OnPath(t, q))
<1>1. /\ s \o t \in Seq(Int) /\ Len(s \o t) = Len(s) + Len(t) /\ Len(s) \in Nat /\ Len(t) \in Nat
      /\ \A k \in 1 .. Len(s) : (s \o t)[k] = s[k]
      /\ \A k \in 1 .. Len(t) : (s \o t)[Len(s) + k] = t[k]
  OBVIOUS
<1>2. OnPath(s, q) => OnPath(s \o t, q)
  BY <1>1 DEF OnPath
<1>3. ASSUME OnPath(t, q) PROVE OnPath(s \o t, q)
  <2>1. PICK k \in 1 .. Len(t) : t[k] = q
    BY <1>3 DEF OnPath
  <2>2. Len(s) + k \in 1 .. Len(s \o t) /\ (s \o t)[Len(s) + k] = q
    BY <1>1, <2>1
  <2>. QED BY <2>2 DEF OnPath
<1>4. ASSUME OnPath(s \o t, q) PROVE OnPath(s, q) \/ OnPath(t, q)
  <2>1. PICK k \in 1 .. Len(s \o t) : (s \o t)[k] = q
    BY <1>4 DEF OnPath
  <2>2. CASE k <= Len(s)
    BY <1>1, <2>1, <2>2 DEF OnPath
  <2>3. CASE k > Len(s)
    <3>1. k - Len(s) \in 1 .. Len(t) /\ Len(s) + (k - Len(s)) = k
      BY <1>1, <2>1, <2>3
    <3>2. t[k - Len(s)] = q
      BY <1>1, <2>1, <3>1
    <3>. QED BY <3>1, <3>2 DEF OnPath
  <2>. QED BY <1>1, <2>2, <2>3
<1>. QED BY <1>1, <1>2, <1>3, <1>4

(* One row: where its two walks begin and end, where they leave l and r,   *)
(* and what they add to the path.                                          *)
Walks(hi) == [l : 0 .. (hi + 1), r : -1 .. hi, path : Seq(Int)]

Walked(dim, r2, p, hi, y, at, new, from, leftEnd, back, rightEnd) ==
  /\ from = Half(at.l + at.r) /\ back = Half(new.l + at.r)
  /\ from \in 0 .. hi /\ back \in 0 .. hi
  /\ leftEnd \in -1 .. from /\ rightEnd \in back .. (hi + 1)
  /\ leftEnd # -1 => Distance(dim, p, leftEnd, y) > r2
  /\ \A x \in (leftEnd + 1) .. from : Distance(dim, p, x, y) <= r2
  /\ rightEnd # hi + 1 => Distance(dim, p, rightEnd, y) > r2
  /\ \A x \in back .. (rightEnd - 1) : Distance(dim, p, x, y) <= r2
  /\ new.l = IF leftEnd = -1 THEN at.l ELSE leftEnd + 1
  /\ new.r = IF rightEnd > hi THEN at.r ELSE rightEnd - 1
  /\ new \in Walks(hi)
  /\ \A q : OnPath(at.path, q) => OnPath(new.path, q)
  /\ \A x \in ((leftEnd + 1) .. from) \cup (back .. (rightEnd - 1)) : OnPath(new.path, Pixel(dim, x, y))

LEMMA RowIsWalked ==
  ASSUME NEW dim, NEW r2 \in Int, NEW p, NEW hi \in Nat, NEW y \in Int, NEW at \in Walks(hi),
         dim.h \in Int, X(dim, p) \in Int, Y(dim, p) \in Int
  PROVE  \E from, leftEnd, back, rightEnd :
           Walked(dim, r2, p, hi, y, at, WalkRow(dim, r2, p, hi, y, at), from, leftEnd, back, rightEnd)
<1>. DEFINE far == {x \in 0 .. hi : Distance(dim, p, x, y) > r2}
            from == Half(at.l + at.r)
            leftEnd == LeftStop(far, from)
            l == IF leftEnd = -1 THEN at.l ELSE leftEnd + 1
            back == Half(l + at.r)
            rightEnd == RightStop(far, hi, back)
            left == [j \in 1 .. from - leftEnd |-> Pixel(dim, from - j + 1, y)]
            right == [j \in 1 .. rightEnd - back |-> Pixel(dim, back + j - 1, y)]
            r == IF rightEnd > hi THEN at.r ELSE rightEnd - 1
            new == WalkRow(dim, r2, p, hi, y, at)
<1>1. new = [l |-> l, r |-> r, path |-> at.path \o left \o right]
  BY DEF WalkRow, LeftStop, RightStop
<1>2. at.l \in 0 .. (hi + 1) /\ at.r \in -1 .. hi /\ at.path \in Seq(Int)
  BY DEF Walks
<1>3. \A u \in 0 .. (hi + 1), v \in -1 .. hi : Half(u + v) \in 0 .. hi
  <2>1. ASSUME NEW u \in 0 .. (hi + 1), NEW v \in -1 .. hi
        PROVE  Half(u + v) \in 0 .. hi
    <3>1. u + v \in Int /\ u + v >= -1 /\ u + v <= 2 * hi + 1
      OBVIOUS
    <3>2. Half(u + v) \in Nat /\ (u + v >= 0 => 2 * Half(u + v) <= u + v)
          /\ (u + v = -1 => Half(u + v) = 0)
      BY <3>1, HalfBounds
    <3>. QED BY <3>1, <3>2
  <2>. QED BY <2>1
<1>4. from \in 0 .. hi
  BY <1>2, <1>3
<1>5. \A x \in 0 .. hi : Distance(dim, p, x, y) \in Int
  BY DEF Distance, Square
<1>6. far \in SUBSET (0 .. hi)
  OBVIOUS
<1>7. \A x \in 0 .. hi : x \notin far <=> Distance(dim, p, x, y) <= r2
  BY <1>5
<1>8. \A x \in far : Distance(dim, p, x, y) > r2
  OBVIOUS
<1>. HIDE DEF far, from
<1>9. /\ leftEnd \in -1 .. from /\ (leftEnd = -1 \/ leftEnd \in far)
      /\ \A x \in (leftEnd + 1) .. from : x \notin far
  BY <1>4, <1>6, StopsAt
<1>. HIDE DEF leftEnd
<1>10. l \in 0 .. (hi + 1)
  BY <1>2, <1>4, <1>9
<1>. HIDE DEF l
<1>11. back \in 0 .. hi
  BY <1>2, <1>3, <1>10
<1>. HIDE DEF back
<1>12. /\ rightEnd \in back .. (hi + 1) /\ (rightEnd = hi + 1 \/ rightEnd \in far)
       /\ \A x \in back .. (rightEnd - 1) : x \notin far
  BY <1>11, <1>6, StopsAt
<1>. HIDE DEF rightEnd
<1>13. r \in -1 .. hi
  BY <1>2, <1>11, <1>12
<1>. HIDE DEF r
<1>14. \A x \in Int : Pixel(dim, x, y) \in Int
  BY DEF Pixel
<1>15. left \in Seq(Int) /\ \A x \in (leftEnd + 1) .. from : OnPath(left, Pixel(dim, x, y))
  <2>1. from - leftEnd \in Nat
    BY <1>4, <1>9
  <2>2. left \in [1 .. from - leftEnd -> Int]
    BY <1>4, <1>14
  <2>3. left \in Seq(Int) /\ Len(left) = from - leftEnd
    <3>. HIDE DEF left
    <3>. QED BY <2>1, <2>2
  <2>4. ASSUME NEW x \in (leftEnd + 1) .. from
        PROVE  OnPath(left, Pixel(dim, x, y))
    <3>1. from - x + 1 \in 1 .. from - leftEnd /\ from - (from - x + 1) + 1 = x
      BY <1>4, <1>9
    <3>2. left[from - x + 1] = Pixel(dim, x, y)
      BY <3>1
    <3>. HIDE DEF left
    <3>. QED BY <2>3, <3>1, <3>2 DEF OnPath
  <2>. QED BY <2>3, <2>4
<1>16. right \in Seq(Int) /\ \A x \in back .. (rightEnd - 1) : OnPath(right, Pixel(dim, x, y))
  <2>1. rightEnd - back \in Nat
    BY <1>11, <1>12
  <2>2. right \in [1 .. rightEnd - back -> Int]
    BY <1>11, <1>14
  <2>3. right \in Seq(Int) /\ Len(right) = rightEnd - back
    <3>. HIDE DEF right
    <3>. QED BY <2>1, <2>2
  <2>4. ASSUME NEW x \in back .. (rightEnd - 1)
        PROVE  OnPath(right, Pixel(dim, x, y))
    <3>1. x - back + 1 \in 1 .. rightEnd - back /\ back + (x - back + 1) - 1 = x
      BY <1>11, <1>12
    <3>2. right[x - back + 1] = Pixel(dim, x, y)
      BY <3>1
    <3>. HIDE DEF right
    <3>. QED BY <2>3, <3>1, <3>2 DEF OnPath
  <2>. QED BY <2>3, <2>4
<1>. HIDE DEF left, right
<1>17. /\ at.path \o left \o right \in Seq(Int)
       /\ \A q : OnPath(at.path \o left \o right, q) <=>
                   OnPath(at.path, q) \/ OnPath(left, q) \/ OnPath(right, q)
  <2>1. at.path \o left \in Seq(Int)
    BY <1>2, <1>15, PathGrows
  <2>2. at.path \o left \o right \in Seq(Int)
    BY <1>16, <2>1, PathGrows
  <2>3. \A q : OnPath(at.path \o left, q) <=> OnPath(at.path, q) \/ OnPath(left, q)
    BY <1>2, <1>15, PathGrows
  <2>4. \A q : OnPath(at.path \o left \o right, q) <=> OnPath(at.path \o left, q) \/ OnPath(right, q)
    BY <1>16, <2>1, PathGrows
  <2>. QED BY <2>2, <2>3, <2>4
<1>18. new.l = l /\ new.r = r /\ new.path = at.path \o left \o right /\ new \in Walks(hi)
  <2>. DEFINE path == at.path \o left \o right
  <2>1. path \in Seq(Int)
    BY <1>17
  <2>2. new = [l |-> l, r |-> r, path |-> path]
    BY <1>1
  <2>. HIDE DEF path, new
  <2>3. new.l = l /\ new.r = r /\ new.path = path
    BY <2>2
  <2>4. new \in Walks(hi)
    BY <1>10, <1>13, <2>1, <2>2 DEF Walks
  <2>. QED BY <2>3, <2>4 DEF path
<1>. HIDE DEF new
<1>19. Walked(dim, r2, p, hi, y, at, new, from, leftEnd, back, rightEnd)
  <2>1. from = Half(at.l + at.r) /\ back = Half(new.l + at.r)
    BY <1>18 DEF from, back
  <2>2. /\ leftEnd # -1 => Distance(dim, p, leftEnd, y) > r2
        /\ rightEnd # hi + 1 => Distance(dim, p, rightEnd, y) > r2
    BY <1>8, <1>9, <1>12
  <2>3. \A x \in (leftEnd + 1) .. from : Distance(dim, p, x, y) <= r2
    <3>1. \A x \in (leftEnd + 1) .. from : x \in 0 .. hi
      BY <1>4, <1>9
    <3>. QED BY <1>7, <1>9, <3>1
  <2>4. \A x \in back .. (rightEnd - 1) : Distance(dim, p, x, y) <= r2
    <3>1. \A x \in back .. (rightEnd - 1) : x \in 0 .. hi
      BY <1>11, <1>12
    <3>. QED BY <1>7, <1>12, <3>1
  <2>5. /\ new.l = IF leftEnd = -1 THEN at.l ELSE leftEnd + 1
        /\ new.r = IF rightEnd > hi THEN at.r ELSE rightEnd - 1
    BY <1>18 DEF l, r
  <2>6. /\ \A q : OnPath(at.path, q) => OnPath(new.path, q)
        /\ \A x \in ((leftEnd + 1) .. from) \cup (back .. (rightEnd - 1)) :
              OnPath(new.path, Pixel(dim, x, y))
    BY <1>15, <1>16, <1>17, <1>18
  <2>. QED BY <1>4, <1>9, <1>11, <1>12, <1>18, <2>1, <2>2, <2>3, <2>4, <2>5, <2>6 DEF Walked
<1>. QED BY <1>19 DEF new

(* How a row is entered when a was half the width of the chord before it:  *)
(* l and r are the ends of that chord, or have been left as they were by   *)
(* walks to the border.                                                    *)
Entered(at, c, hi, a) ==
  /\ at.l = c \/ (at.l = c - a /\ at.l >= 1)
  /\ at.r = c \/ (at.r = c + a /\ at.r <= hi - 1)

LEMMA WalksMeet ==
  ASSUME NEW hi \in Nat, NEW c \in 0 .. hi, NEW a \in Nat, NEW b \in Nat,
         NEW l \in 0 .. (hi + 1), NEW r \in -1 .. hi, NEW m \in 0 .. hi, NEW n \in 0 .. hi,
         NEW e \in -1 .. m, NEW f \in n .. (hi + 1), NEW lnew \in Int, NEW rnew \in Int,
         l = c \/ (l = c - a /\ l >= 1), r = c \/ (r = c + a /\ r <= hi - 1),
         2 * m <= l + r, l + r <= 2 * m + 1,
         2 * n <= lnew + r, lnew + r <= 2 * n + 1,
         e # -1 => e < c - b \/ e > c + b,
         e < m => e + 1 >= c - b /\ m <= c + b,
         f # hi + 1 => f < c - b \/ f > c + b,
         n < f => n >= c - b /\ f - 1 <= c + b,
         lnew = IF e = -1 THEN l ELSE e + 1,
         rnew = IF f > hi THEN r ELSE f - 1,
         Follows(a, b, hi, c)
  PROVE  /\ lnew = c \/ (lnew = c - b /\ lnew >= 1)
         /\ rnew = c \/ (rnew = c + b /\ rnew <= hi - 1)
         /\ \A x \in 0 .. hi : x \in (c - b) .. (c + b) => x \in (e + 1) .. m \/ x \in n .. (f - 1)
<1>0. b <= a
  BY DEF Follows
<1>1. CASE hi = c /\ a <= 4 /\ (b = 0 => a <= 2)
  <2>1. r = c /\ m <= c /\ n <= c
    BY <1>1
  <2>2. n >= c - b
    BY <1>0, <1>1, <2>1
  <2>3. rnew = c /\ f = hi + 1
    BY <1>0, <1>1, <2>1, <2>2
  <2>4. lnew = c \/ (lnew = c - b /\ lnew >= 1)
    BY <1>0, <1>1, <2>1, <2>2, <2>3
  <2>5. n <= m + 1 \/ n <= c - b
    BY <1>0, <1>1, <2>1, <2>2, <2>3
  <2>6. e + 1 <= c - b \/ e = -1 \/ n <= c - b
    BY <1>0, <1>1, <2>1, <2>2, <2>3
  <2>. QED BY <1>0, <1>1, <2>1, <2>2, <2>3, <2>4, <2>5, <2>6
<1>2. CASE a <= 2 /\ a <= b + 1
  <2>1. lnew = c \/ (lnew = c - b /\ lnew >= 1)
    BY <1>0, <1>2
  <2>2. rnew = c \/ (rnew = c + b /\ rnew <= hi - 1)
    BY <1>0, <1>2
  <2>3. ASSUME NEW x \in 0 .. hi, x \in (c - b) .. (c + b)
        PROVE  x \in (e + 1) .. m \/ x \in n .. (f - 1)
    BY <1>0, <1>2, <2>3
  <2>. QED BY <2>1, <2>2, <2>3
<1>3. CASE a <= b + 2 /\ a <= 2 * b
  <2>1. m \in (c - b) .. (c + b)
    BY <1>0, <1>3
  <2>2. e = -1 \/ e = c - b - 1
    BY <2>1
  <2>3. lnew = c \/ (lnew = c - b /\ lnew >= 1)
    BY <1>0, <2>1, <2>2
  <2>4. n \in (c - b) .. (c + b)
    BY <1>0, <1>3, <2>3
  <2>5. f = hi + 1 \/ f = c + b + 1
    BY <2>4
  <2>6. rnew = c \/ (rnew = c + b /\ rnew <= hi - 1)
    BY <1>0, <2>4, <2>5
  <2>7. n <= m + 1
    BY <1>0, <1>3, <2>1, <2>2
  <2>8. ASSUME NEW x \in 0 .. hi, x \in (c - b) .. (c + b)
        PROVE  x \in (e + 1) .. m \/ x \in n .. (f - 1)
    BY <2>2, <2>5, <2>7, <2>8
  <2>. QED BY <2>3, <2>6, <2>8
<1>. QED BY <1>1, <1>2, <1>3 DEF Follows

(* A row entered like that is seen, and the next one is entered like that. *)
LEMMA ChordSeen ==
  ASSUME NEW dim, NEW r2 \in Int, NEW p, NEW hi \in Nat, NEW y, NEW at \in Walks(hi), NEW new,
         NEW from, NEW leftEnd, NEW back, NEW rightEnd,
         Walked(dim, r2, p, hi, y, at, new, from, leftEnd, back, rightEnd),
         NEW c \in 0 .. hi, NEW a \in Nat, NEW b \in Nat, Entered(at, c, hi, a),
         \A x \in 0 .. hi : Distance(dim, p, x, y) \in Int,
         \A x \in 0 .. hi : Distance(dim, p, x, y) <= r2 <=> x \in (c - b) .. (c + b),
         Follows(a, b, hi, c)
  PROVE  /\ Entered(new, c, hi, b)
         /\ \A x \in 0 .. hi : Distance(dim, p, x, y) <= r2 => OnPath(new.path, Pixel(dim, x, y))
<1>1. /\ from \in 0 .. hi /\ back \in 0 .. hi /\ leftEnd \in -1 .. from /\ rightEnd \in back .. (hi + 1)
      /\ new.l = IF leftEnd = -1 THEN at.l ELSE leftEnd + 1
      /\ new.r = IF rightEnd > hi THEN at.r ELSE rightEnd - 1
      /\ from = Half(at.l + at.r) /\ back = Half(new.l + at.r)
  BY DEF Walked
<1>2. at.l \in 0 .. (hi + 1) /\ at.r \in -1 .. hi /\ new.l \in 0 .. (hi + 1) /\ new.r \in -1 .. hi
  BY DEF Walked, Walks
<1>3. /\ at.l = c \/ (at.l = c - a /\ at.l >= 1)
      /\ at.r = c \/ (at.r = c + a /\ at.r <= hi - 1)
  BY DEF Entered
<1>0. b <= a
  BY DEF Follows
<1>4. at.l + at.r \in Nat /\ new.l + at.r \in Nat
  BY <1>0, <1>2, <1>3
<1>5. /\ 2 * from <= at.l + at.r /\ at.l + at.r <= 2 * from + 1
      /\ 2 * back <= new.l + at.r /\ new.l + at.r <= 2 * back + 1
  <2>1. /\ at.l + at.r \in Int /\ at.l + at.r >= 0 /\ at.l + at.r >= -1
        /\ new.l + at.r \in Int /\ new.l + at.r >= 0 /\ new.l + at.r >= -1
    BY <1>4
  <2>2. 2 * Half(at.l + at.r) <= at.l + at.r /\ at.l + at.r <= 2 * Half(at.l + at.r) + 1
    BY <2>1, HalfBounds
  <2>3. 2 * Half(new.l + at.r) <= new.l + at.r /\ new.l + at.r <= 2 * Half(new.l + at.r) + 1
    BY <2>1, HalfBounds
  <2>. QED BY <1>1, <2>2, <2>3
<1>6. leftEnd # -1 => leftEnd < c - b \/ leftEnd > c + b
  <2>. SUFFICES ASSUME leftEnd # -1 PROVE ~(leftEnd \in (c - b) .. (c + b))
    BY <1>1
  <2>1. leftEnd \in 0 .. hi
    BY <1>1
  <2>2. ~(Distance(dim, p, leftEnd, y) <= r2)
    <3>1. Distance(dim, p, leftEnd, y) > r2 /\ Distance(dim, p, leftEnd, y) \in Int
      BY <2>1 DEF Walked
    <3>. QED BY <3>1
  <2>. QED BY <2>1, <2>2
<1>7. leftEnd < from => leftEnd + 1 >= c - b /\ from <= c + b
  <2>. SUFFICES ASSUME leftEnd < from
                PROVE  leftEnd + 1 \in (c - b) .. (c + b) /\ from \in (c - b) .. (c + b)
    BY <1>1
  <2>1. /\ leftEnd + 1 \in (leftEnd + 1) .. from /\ from \in (leftEnd + 1) .. from
        /\ leftEnd + 1 \in 0 .. hi /\ from \in 0 .. hi
    BY <1>1
  <2>2. Distance(dim, p, leftEnd + 1, y) <= r2 /\ Distance(dim, p, from, y) <= r2
    BY <2>1 DEF Walked
  <2>. QED BY <2>1, <2>2
<1>8. rightEnd # hi + 1 => rightEnd < c - b \/ rightEnd > c + b
  <2>. SUFFICES ASSUME rightEnd # hi + 1 PROVE ~(rightEnd \in (c - b) .. (c + b))
    BY <1>1
  <2>1. rightEnd \in 0 .. hi
    BY <1>1
  <2>2. ~(Distance(dim, p, rightEnd, y) <= r2)
    <3>1. Distance(dim, p, rightEnd, y) > r2 /\ Distance(dim, p, rightEnd, y) \in Int
      BY <2>1 DEF Walked
    <3>. QED BY <3>1
  <2>. QED BY <2>1, <2>2
<1>9. back < rightEnd => back >= c - b /\ rightEnd - 1 <= c + b
  <2>. SUFFICES ASSUME back < rightEnd
                PROVE  back \in (c - b) .. (c + b) /\ rightEnd - 1 \in (c - b) .. (c + b)
    BY <1>1
  <2>1. /\ back \in back .. (rightEnd - 1) /\ rightEnd - 1 \in back .. (rightEnd - 1)
        /\ back \in 0 .. hi /\ rightEnd - 1 \in 0 .. hi
    BY <1>1
  <2>2. Distance(dim, p, back, y) <= r2 /\ Distance(dim, p, rightEnd - 1, y) <= r2
    BY <2>1 DEF Walked
  <2>. QED BY <2>1, <2>2
<1>. DEFINE l == at.l
            r == at.r
            lnew == new.l
            rnew == new.r
<1>10. /\ lnew = c \/ (lnew = c - b /\ lnew >= 1)
       /\ rnew = c \/ (rnew = c + b /\ rnew <= hi - 1)
       /\ \A x \in 0 .. hi : x \in (c - b) .. (c + b) =>
             x \in (leftEnd + 1) .. from \/ x \in back .. (rightEnd - 1)
  <2>1. l \in 0 .. (hi + 1) /\ r \in -1 .. hi /\ lnew \in Int /\ rnew \in Int
    BY <1>2
  <2>2. /\ l = c \/ (l = c - a /\ l >= 1)
        /\ r = c \/ (r = c + a /\ r <= hi - 1)
        /\ 2 * from <= l + r /\ l + r <= 2 * from + 1
        /\ 2 * back <= lnew + r /\ lnew + r <= 2 * back + 1
        /\ lnew = IF leftEnd = -1 THEN l ELSE leftEnd + 1
        /\ rnew = IF rightEnd > hi THEN r ELSE rightEnd - 1
    BY <1>1, <1>3, <1>5
  <2>. HIDE DEF l, r, lnew, rnew
  <2>3. Follows(a, b, hi, c)
    OBVIOUS
  <2>. QED BY <1>1, <1>6, <1>7, <1>8, <1>9, <2>1, <2>2, <2>3, WalksMeet DEF Follows
<1>11. Entered(new, c, hi, b)
  BY <1>10 DEF Entered
<1>12. ASSUME NEW x \in 0 .. hi, Distance(dim, p, x, y) <= r2
       PROVE  OnPath(new.path, Pixel(dim, x, y))
  <2>1. x \in (leftEnd + 1) .. from \/ x \in back .. (rightEnd - 1)
    <3>1. x \in (c - b) .. (c + b)
      BY <1>12
    <3>. HIDE DEF lnew, rnew
    <3>. QED BY <1>10, <3>1
  <2>. QED BY <2>1 DEF Walked
<1>. QED BY <1>11, <1>12

(* The rows of a search in the order in which it sees them. *)
RowSeen(dim, p, up, k) == IF up THEN Y(dim, p) - k + 1 ELSE Y(dim, p) + k
RowsAway(up, k) == IF up THEN k - 1 ELSE k

(* Before row k: nothing has been walked, or the row is out of reach, or   *)
(* it is entered from the chord before it.                                 *)
Enters(at, r2, c, hi, d) ==
  \/ at.l = c /\ at.r = c
  \/ d * d > r2
  \/ d >= 1 /\ \E a \in Nat : HalfWidth(r2, d - 1, a) /\ Entered(at, c, hi, a)

LEMMA RowEntered ==
  ASSUME NEW dim, NEW r2 \in Nat, NEW p, NEW hi \in Nat, NEW y \in Int, NEW at \in Walks(hi),
         dim.h \in Int, X(dim, p) \in 0 .. hi, Y(dim, p) \in Int,
         NEW d \in Nat, SeesRow(dim, r2, p, hi, d), Square(Y(dim, p) - y) = d * d, Enters(at, r2, X(dim, p), hi, d)
  PROVE  LET new == WalkRow(dim, r2, p, hi, y, at)
         IN /\ new \in Walks(hi) /\ Enters(new, r2, X(dim, p), hi, d + 1)
            /\ \A q : OnPath(at.path, q) => OnPath(new.path, q)
            /\ \A x \in 0 .. hi : Distance(dim, p, x, y) <= r2 => OnPath(new.path, Pixel(dim, x, y))
<1>. DEFINE new == WalkRow(dim, r2, p, hi, y, at)
            c == X(dim, p)
            dd == d * d
<1>0. c \in 0 .. hi /\ c \in Int /\ dd \in Nat
  OBVIOUS
<1>1. PICK from, leftEnd, back, rightEnd :
        Walked(dim, r2, p, hi, y, at, new, from, leftEnd, back, rightEnd)
  BY <1>0, RowIsWalked
<1>. HIDE DEF new
<1>2. new \in Walks(hi) /\ \A q : OnPath(at.path, q) => OnPath(new.path, q)
  BY <1>1 DEF Walked
<1>3. \A x \in 0 .. hi : /\ (c - x) * (c - x) \in Nat
                         /\ Distance(dim, p, x, y) = (c - x) * (c - x) + dd
  <2>1. ASSUME NEW x \in 0 .. hi
        PROVE  /\ (c - x) * (c - x) \in Nat
               /\ Distance(dim, p, x, y) = (c - x) * (c - x) + dd
    <3>1. Distance(dim, p, x, y) = (c - x) * (c - x) + dd
      BY DEF Distance, Square
    <3>2. \A m \in Int : m * m \in Nat
      OBVIOUS
    <3>3. c - x \in Int
      BY <1>0
    <3>. QED BY <3>1, <3>2, <3>3
  <2>. QED BY <2>1
<1>. HIDE DEF c
<1>4. CASE dd > r2
  <2>1. \A x \in 0 .. hi : ~(Distance(dim, p, x, y) <= r2)
    <3>. HIDE DEF dd
    <3>1. \A m \in Nat : ~(m + dd <= r2)
      BY <1>0, <1>4
    <3>. QED BY <1>3, <3>1
  <2>2. (d + 1) * (d + 1) > r2
    <3>1. (d + 1) * (d + 1) = dd + 2 * d + 1
      OBVIOUS
    <3>. HIDE DEF dd
    <3>. QED BY <1>0, <1>4, <3>1
  <2>3. Enters(new, r2, c, hi, d + 1)
    BY <2>2 DEF Enters
  <2>. QED BY <1>2, <2>1, <2>3 DEF new, c
<1>5. CASE dd <= r2
  <2>2. PICK b \in Nat : HalfWidth(r2, d, b)
    BY <1>5, WidthExists
  <2>3. \A x \in 0 .. hi : /\ Distance(dim, p, x, y) \in Int
                           /\ Distance(dim, p, x, y) <= r2 <=> x \in (c - b) .. (c + b)
    <3>1. ASSUME NEW x \in 0 .. hi
          PROVE  /\ Distance(dim, p, x, y) \in Int
                 /\ Distance(dim, p, x, y) <= r2 <=> x \in (c - b) .. (c + b)
      <4>1. c - x \in Int /\ b \in Nat
        BY <1>0
      <4>2. (c - x) * (c - x) + d * d <= r2 <=> c - x \in (-b) .. b
        BY <2>2, <4>1, ChordColumns
      <4>3. c - x \in (-b) .. b <=> x \in (c - b) .. (c + b)
        BY <1>0
      <4>4. Distance(dim, p, x, y) \in Int
        <5>. HIDE DEF dd
        <5>. QED BY <1>0, <1>3
      <4>. QED BY <1>3, <4>2, <4>3, <4>4
    <3>. QED BY <3>1
  <2>4. \E a \in Nat : Entered(at, c, hi, a) /\ Follows(a, b, hi, c)
    <3>1. CASE at.l = c /\ at.r = c
      <4>1. Entered(at, c, hi, b)
        BY <3>1 DEF Entered
      <4>2. Follows(b, b, hi, c)
        BY DEF Follows
      <4>. QED BY <4>1, <4>2
    <3>2. CASE ~(at.l = c /\ at.r = c)
      <4>1. d >= 1 /\ \E a \in Nat : HalfWidth(r2, d - 1, a) /\ Entered(at, c, hi, a)
        <5>1. ~(d * d > r2)
          BY <1>0, <1>5
        <5>. QED BY <3>2, <5>1 DEF Enters, c
      <4>2. PICK a \in Nat : HalfWidth(r2, d - 1, a) /\ Entered(at, c, hi, a)
        BY <4>1
      <4>3. d \in Nat \ {0} /\ b \in Nat
        BY <4>1
      <4>4. r2 < 25 => /\ b <= a /\ a <= 4 /\ (b = 0 => a <= 2)
                       /\ r2 < 9 => a <= 2 /\ a <= b + 1
        BY <2>2, <4>2, <4>3, WidthsShrink
      <4>5. 5 * (d * d) <= 4 * r2 => b <= a /\ a <= b + 2 /\ a <= 2 * b
        BY <2>2, <4>2, <4>3, WidthsShrinkSlowly
      <4>6. r2 < 9 \/ (r2 < 25 /\ hi = c) \/ 5 * (d * d) <= 4 * r2
        BY DEF SeesRow, c
      <4>7. Follows(a, b, hi, c)
        <5>. HIDE DEF dd
        <5>. QED BY <4>4, <4>5, <4>6 DEF Follows
      <4>. QED BY <4>2, <4>7
    <3>. QED BY <3>1, <3>2
  <2>5. PICK a \in Nat : Entered(at, c, hi, a) /\ Follows(a, b, hi, c)
    BY <2>4
  <2>7. /\ Entered(new, c, hi, b)
        /\ \A x \in 0 .. hi : Distance(dim, p, x, y) <= r2 => OnPath(new.path, Pixel(dim, x, y))
    <3>1. b \in Nat
      OBVIOUS
    <3>2. \A x \in 0 .. hi : Distance(dim, p, x, y) \in Int
      BY <2>3
    <3>3. \A x \in 0 .. hi : Distance(dim, p, x, y) <= r2 <=> x \in (c - b) .. (c + b)
      BY <2>3
    <3>4. Entered(at, c, hi, a) /\ Follows(a, b, hi, c) /\ r2 \in Int /\ c \in 0 .. hi
      BY <1>0, <2>5
    <3>. HIDE DEF dd
    <3>. QED BY <1>1, <3>1, <3>2, <3>3, <3>4, ChordSeen
  <2>8. Enters(new, r2, c, hi, d + 1)
    <3>1. (d + 1) - 1 = d /\ d + 1 >= 1 /\ b \in Nat
      OBVIOUS
    <3>. QED BY <2>2, <2>7, <3>1 DEF Enters
  <2>. QED BY <1>2, <2>7, <2>8 DEF new, c
<1>. QED BY <1>0, <1>4, <1>5

(* The places of pixels, and a pixel from its place. *)
LEMMA PlaceOf ==
  ASSUME NEW dim, dim.w \in Nat \ {0}, dim.h \in Nat \ {0}, NEW q \in Pixels(dim)
  PROVE  /\ q \in Int /\ X(dim, q) \in 0 .. (dim.w - 1) /\ Y(dim, q) \in 0 .. (dim.h - 1)
         /\ Pixel(dim, X(dim, q), Y(dim, q)) = q
<1>. DEFINE x == (q - 1) \div dim.h
            y == (q - 1) % dim.h
            h == dim.h
            w == dim.w
<1>1. h \in Nat \ {0} /\ w \in Nat \ {0} /\ w * h \in Int
  OBVIOUS
<1>2. q \in Int /\ q >= 1 /\ q <= w * h
  BY <1>1 DEF Pixels
<1>3. x \in Int /\ y \in 0 .. (h - 1) /\ q - 1 = x * h + y
  <2>1. \A n \in Int : /\ n \div h \in Int /\ n % h \in 0 .. (h - 1)
                       /\ n = (n \div h) * h + (n % h)
    BY <1>1, Division
  <2>2. q - 1 \in Int
    BY <1>2
  <2>. QED BY <2>1, <2>2
<1>4. X(dim, q) = x /\ Y(dim, q) = y /\ Pixel(dim, x, y) = x * h + y + 1
  BY DEF X, Y, Pixel
<1>. HIDE DEF x, y, h, w
<1>5. x >= 0
  <2>1. x < 0 => x * h + h <= 0 * h
    BY <1>1, <1>3, NextMultiple
  <2>. QED BY <1>1, <1>2, <1>3, <2>1
<1>6. x < w
  <2>1. x >= w => x = w \/ w * h + h <= x * h
    BY <1>1, <1>3, NextMultiple
  <2>. QED BY <1>1, <1>2, <1>3, <2>1
<1>7. q = x * h + y + 1
  BY <1>1, <1>2, <1>3
<1>8. x \in 0 .. (w - 1) /\ y \in 0 .. (h - 1)
  BY <1>1, <1>3, <1>5, <1>6
<1>. QED BY <1>2, <1>4, <1>7, <1>8 DEF h, w

(* A search misses no near pixel of its columns in a row it sees whole:    *)
(* the rows before that one are no further away and are seen whole too.    *)
LEMMA NearIsSeen ==
  ASSUME NEW dim, dim.w \in Nat \ {0}, dim.h \in Nat \ {0}, NEW r2 \in Nat, NEW p \in Pixels(dim),
         NEW hi \in Nat, NEW up \in BOOLEAN, X(dim, p) <= hi,
         NEW q \in Pixels(dim), X(dim, q) <= hi, Near(dim, r2, p, q),
         r2 < 9 \/ (r2 < 25 /\ hi = X(dim, p)) \/ 5 * Square(Y(dim, p) - Y(dim, q)) <= 4 * r2,
         up <=> Y(dim, q) <= Y(dim, p)
  PROVE  /\ NearPath(dim, r2, p, hi, up) \in Seq(Int)
         /\ OnPath(NearPath(dim, r2, p, hi, up), q)
<1>. DEFINE c == X(dim, p)
            rows == IF up THEN Y(dim, p) + 1 ELSE dim.h - 1 - Y(dim, p)
            Row(k) == IF up THEN Y(dim, p) - k + 1 ELSE Y(dim, p) + k
            first == [l |-> c, r |-> c, path |-> <<>>]
            Walk(f) == f = [k \in 0 .. rows |->
                              IF k = 0 THEN first ELSE WalkRow(dim, r2, p, hi, Row(k), f[k - 1])]
            After == CHOOSE f : Walk(f)
<1>1. NearPath(dim, r2, p, hi, up) = After[rows].path
  BY DEF NearPath
<1>2. /\ c \in 0 .. hi /\ X(dim, p) \in Int /\ Y(dim, p) \in 0 .. (dim.h - 1) /\ dim.h \in Nat \ {0}
      /\ X(dim, q) \in 0 .. hi /\ Y(dim, q) \in 0 .. (dim.h - 1) /\ Y(dim, p) \in Int
      /\ Pixel(dim, X(dim, q), Y(dim, q)) = q
  <2>1. X(dim, p) \in 0 .. (dim.w - 1) /\ Y(dim, p) \in 0 .. (dim.h - 1)
    BY PlaceOf
  <2>2. /\ X(dim, q) \in 0 .. (dim.w - 1) /\ Y(dim, q) \in 0 .. (dim.h - 1)
        /\ Pixel(dim, X(dim, q), Y(dim, q)) = q
    BY PlaceOf
  <2>. QED BY <2>1, <2>2
<1>3. rows \in Nat
  BY <1>2
<1>4. \A k \in 1 .. rows : /\ Row(k) \in Int /\ RowsAway(up, k) \in Nat
                           /\ RowsAway(up, k + 1) = RowsAway(up, k) + 1
                           /\ Square(Y(dim, p) - Row(k)) = RowsAway(up, k) * RowsAway(up, k)
  <2>1. ASSUME NEW k \in 1 .. rows
        PROVE  /\ Row(k) \in Int /\ RowsAway(up, k) \in Nat
               /\ RowsAway(up, k + 1) = RowsAway(up, k) + 1
               /\ Square(Y(dim, p) - Row(k)) = RowsAway(up, k) * RowsAway(up, k)
    <3>1. k \in Nat /\ k >= 1
      BY <1>3
    <3>2. CASE up
      <4>1. Y(dim, p) - Row(k) = k - 1
        BY <1>2, <3>1, <3>2
      <4>2. Row(k) \in Int
        BY <1>2, <3>1, <3>2
      <4>. HIDE DEF Row
      <4>. QED BY <3>1, <3>2, <4>1, <4>2 DEF RowsAway, Square
    <3>3. CASE ~up
      <4>1. Y(dim, p) - Row(k) = -k
        BY <1>2, <3>1, <3>3
      <4>2. Row(k) \in Int /\ (-k) * (-k) = k * k
        BY <1>2, <3>1, <3>3
      <4>. HIDE DEF Row
      <4>. QED BY <3>1, <3>3, <4>1, <4>2 DEF RowsAway, Square
    <3>. QED BY <3>2, <3>3
  <2>. QED BY <2>1
<1>5. \E k \in 1 .. rows : Row(k) = Y(dim, q)
  <2>1. CASE up
    <3>1. Y(dim, p) - Y(dim, q) + 1 \in 1 .. rows /\ Row(Y(dim, p) - Y(dim, q) + 1) = Y(dim, q)
      BY <1>2, <2>1
    <3>. QED BY <3>1
  <2>2. CASE ~up
    <3>1. Y(dim, q) - Y(dim, p) \in 1 .. rows /\ Row(Y(dim, q) - Y(dim, p)) = Y(dim, q)
      BY <1>2, <2>2
    <3>. QED BY <3>1
  <2>. QED BY <2>1, <2>2
<1>. HIDE DEF rows, Row
<1>. DEFINE V == Walks(hi)
            step == [k \in 1 .. rows |-> [at \in V |-> WalkRow(dim, r2, p, hi, Row(k), at)]]
<1>6. first \in V /\ first.l = c /\ first.r = c /\ first.path = <<>>
  <2>1. c \in 0 .. (hi + 1) /\ c \in -1 .. hi /\ <<>> \in Seq(Int)
    BY <1>2
  <2>. HIDE DEF c
  <2>. QED BY <2>1 DEF Walks
<1>. HIDE DEF first
<1>7. \A k \in 1 .. rows : \A at \in V : WalkRow(dim, r2, p, hi, Row(k), at) \in V
  <2>1. ASSUME NEW k \in 1 .. rows, NEW at \in V
        PROVE  WalkRow(dim, r2, p, hi, Row(k), at) \in V
    <3>1. \E from, leftEnd, back, rightEnd :
            Walked(dim, r2, p, hi, Row(k), at, WalkRow(dim, r2, p, hi, Row(k), at),
                   from, leftEnd, back, rightEnd)
      <4>1. Row(k) \in Int /\ X(dim, p) \in Int /\ Y(dim, p) \in Int /\ dim.h \in Int /\ r2 \in Int
        BY <1>2, <1>4
      <4>2. at \in Walks(hi)
        OBVIOUS
      <4>. HIDE DEF c, V
      <4>. QED BY <4>1, <4>2, RowIsWalked
    <3>. QED BY <3>1 DEF Walked
  <2>. QED BY <2>1
<1>8. StepsIn(step, rows, V)
  <2>1. \A k \in 1 .. rows : [at \in V |-> WalkRow(dim, r2, p, hi, Row(k), at)] \in [V -> V]
    BY <1>7
  <2>. HIDE DEF V
  <2>. QED BY <2>1 DEF StepsIn
<1>9. PICK g \in [0 .. rows -> V] :
        g[0] = first /\ \A k \in 1 .. rows : g[k] = step[k][g[k - 1]]
  <2>1. first \in V
    BY <1>6
  <2>. HIDE DEF step, V, Walk, After
  <2>. QED BY <1>3, <1>8, <2>1, StepByStep, SMTT(60)
<1>10. \A k \in 1 .. rows : g[k] = WalkRow(dim, r2, p, hi, Row(k), g[k - 1])
  <2>1. ASSUME NEW k \in 1 .. rows
        PROVE  g[k] = WalkRow(dim, r2, p, hi, Row(k), g[k - 1])
    <3>1. k - 1 \in 0 .. rows
      BY <1>3
    <3>2. g[k - 1] \in V
      BY <3>1
    <3>. HIDE DEF V
    <3>3. step[k][g[k - 1]] = WalkRow(dim, r2, p, hi, Row(k), g[k - 1])
      BY <3>2
    <3>. QED BY <1>9, <3>3
  <2>. QED BY <2>1
<1>11. Walk(g)
  <2>1. \A k \in 0 .. rows : g[k] = IF k = 0 THEN first
                                    ELSE WalkRow(dim, r2, p, hi, Row(k), g[k - 1])
    <3>1. ASSUME NEW k \in 0 .. rows
          PROVE  g[k] = IF k = 0 THEN first ELSE WalkRow(dim, r2, p, hi, Row(k), g[k - 1])
      <4>1. k = 0 \/ k \in 1 .. rows
        BY <1>3
      <4>. QED BY <4>1, <1>9, <1>10
    <3>. QED BY <3>1
  <2>. HIDE DEF V
  <2>2. g = [k \in 0 .. rows |-> g[k]]
    OBVIOUS
  <2>. QED BY <2>1, <2>2
<1>12. Walk(After)
  <2>. HIDE DEF Walk
  <2>. QED BY <1>11
<1>13. /\ After[0] = first
       /\ \A k \in 1 .. rows : After[k] = WalkRow(dim, r2, p, hi, Row(k), After[k - 1])
  <2>. DEFINE f == After
  <2>1. f = [k \in 0 .. rows |-> IF k = 0 THEN first ELSE WalkRow(dim, r2, p, hi, Row(k), f[k - 1])]
    BY <1>12
  <2>. HIDE DEF f
  <2>2. 0 \in 0 .. rows /\ \A k \in 1 .. rows : k \in 0 .. rows /\ k # 0
    BY <1>3
  <2>3. /\ f[0] = first
        /\ \A k \in 1 .. rows : f[k] = WalkRow(dim, r2, p, hi, Row(k), f[k - 1])
    BY <2>1, <2>2
  <2>. QED BY <2>3 DEF f
<1>. HIDE DEF After
<1>. HIDE DEF V
<1>17. PICK j \in 1 .. rows : Row(j) = Y(dim, q)
  BY <1>5
<1>18. \A k \in 1 .. j : SeesRow(dim, r2, p, hi, RowsAway(up, k))
  <2>1. ASSUME NEW k \in 1 .. j
        PROVE  SeesRow(dim, r2, p, hi, RowsAway(up, k))
    <3>. DEFINE d == RowsAway(up, k)
                e == RowsAway(up, j)
    <3>1. k \in 1 .. rows /\ j \in 1 .. rows
      BY <1>3
    <3>2. d \in Nat /\ e \in Nat
      BY <1>4, <3>1
    <3>3. d <= e
      BY <1>3, <3>1 DEF RowsAway
    <3>4. Square(Y(dim, p) - Y(dim, q)) = e * e
      BY <1>4, <1>17
    <3>. HIDE DEF d, e
    <3>5. d * d <= e * e /\ d * d \in Nat /\ e * e \in Nat
      BY <3>2, <3>3, SquareGrows
    <3>6. 5 * (e * e) <= 4 * r2 => 5 * (d * d) <= 4 * r2
      BY <3>5
    <3>7. r2 < 9 \/ (r2 < 25 /\ hi = X(dim, p)) \/ 5 * (e * e) <= 4 * r2
      BY <3>4
    <3>8. SeesRow(dim, r2, p, hi, d)
      BY <3>6, <3>7 DEF SeesRow
    <3>. QED BY <3>8 DEF d
  <2>. QED BY <2>1
(* The pixel is seen in row j; until then every row is entered so that it  *)
(* is seen, and from then on the path holds the pixel.                     *)
<1>. DEFINE Seen(k) == /\ After[k] \in V
                       /\ k < j => Enters(After[k], r2, c, hi, RowsAway(up, k + 1))
                       /\ k >= j => OnPath(After[k].path, q)
            T == {k \in 0 .. rows : Seen(k)}
<1>14. 0 \in T
  <2>1. Enters(After[0], r2, c, hi, RowsAway(up, 0 + 1))
    BY <1>6, <1>13 DEF Enters
  <2>. QED BY <1>3, <1>6, <1>13, <2>1
<1>15. ASSUME NEW k \in 0 .. (rows - 1), k \in T
       PROVE  k + 1 \in T
  <2>. DEFINE n == k + 1
              at == After[k]
              new == After[n]
              d == RowsAway(up, n)
  <2>1. n \in 1 .. rows /\ n - 1 = k /\ n \in 0 .. rows /\ k \in Int /\ j \in Int
    BY <1>3
  <2>2. new = WalkRow(dim, r2, p, hi, Row(n), at)
    BY <1>13, <2>1
  <2>3. /\ at \in Walks(hi) /\ (k < j => Enters(at, r2, c, hi, d))
        /\ k >= j => OnPath(at.path, q)
    BY <1>15 DEF V
  <2>5. /\ Row(n) \in Int /\ d \in Nat /\ RowsAway(up, n + 1) = d + 1
        /\ Square(Y(dim, p) - Row(n)) = d * d
    BY <1>4, <2>1
  <2>6. dim.h \in Int /\ X(dim, p) \in 0 .. hi /\ X(dim, p) \in Int /\ Y(dim, p) \in Int
    BY <1>2
  <2>7. k < j => SeesRow(dim, r2, p, hi, d)
    <3>1. k < j => n \in 1 .. j
      BY <2>1
    <3>. QED BY <1>18, <3>1
  <2>8. n = j => Row(n) = Y(dim, q)
    BY <1>17
  <2>9. n < j \/ n = j \/ n > j
    BY <2>1
  <2>10. (n <= j <=> k < j) /\ (n > j <=> k >= j) /\ ~(n < j /\ n >= j)
    BY <2>1
  <2>. HIDE DEF n, at, new, d, T, Row
  <2>11. new \in Walks(hi) /\ \A u : OnPath(at.path, u) => OnPath(new.path, u)
    <3>1. \E from, leftEnd, back, rightEnd :
            Walked(dim, r2, p, hi, Row(n), at, new, from, leftEnd, back, rightEnd)
      BY <2>2, <2>3, <2>5, <2>6, RowIsWalked
    <3>. QED BY <3>1 DEF Walked
  <2>12. ASSUME k < j
         PROVE  /\ Enters(new, r2, c, hi, d + 1)
                /\ \A x \in 0 .. hi :
                      Distance(dim, p, x, Row(n)) <= r2 => OnPath(new.path, Pixel(dim, x, Row(n)))
    BY <2>2, <2>3, <2>5, <2>6, <2>7, <2>12, RowEntered
  <2>13. n = j => OnPath(new.path, q)
    <3>. SUFFICES ASSUME n = j PROVE OnPath(new.path, q)
      OBVIOUS
    <3>1. k < j /\ Row(n) = Y(dim, q)
      BY <2>1, <2>8, <2>10
    <3>2. Distance(dim, p, X(dim, q), Row(n)) <= r2
      BY <3>1 DEF Near
    <3>3. OnPath(new.path, Pixel(dim, X(dim, q), Row(n)))
      BY <1>2, <2>12, <3>1, <3>2
    <3>. QED BY <1>2, <3>1, <3>3
  <2>14. n > j => OnPath(new.path, q)
    BY <2>3, <2>10, <2>11
  <2>15. n >= j => OnPath(new.path, q)
    <3>1. n >= j => n = j \/ n > j
      BY <2>9, <2>10
    <3>. QED BY <2>13, <2>14, <3>1
  <2>16. n < j => Enters(new, r2, c, hi, d + 1)
    <3>1. n < j => k < j
      BY <2>1
    <3>. QED BY <2>12, <3>1
  <2>17. Seen(n)
    BY <2>5, <2>11, <2>15, <2>16 DEF new, V
  <2>. HIDE DEF Seen
  <2>18. n \in T
    BY <2>1, <2>17 DEF T
  <2>. QED BY <2>18 DEF n
<1>16. rows \in T
  <2>1. 0 .. rows \subseteq T
    <3>. HIDE DEF T
    <3>. QED BY <1>3, <1>14, <1>15, IntervalInduction
  <2>2. rows \in 0 .. rows
    BY <1>3
  <2>. HIDE DEF T
  <2>. QED BY <2>1, <2>2
<1>19. rows >= j
  BY <1>3
<1>20. After[rows].path \in Seq(Int) /\ OnPath(After[rows].path, q)
  BY <1>16, <1>19 DEF Walks, V
<1>. QED BY <1>1, <1>20

(* A search that gives nothing has seen none of what it was asked for. *)
LEMMA NothingFound ==
  ASSUME NEW path \in Seq(Int), NEW S \in SUBSET (Nat \ {0}), FirstSeen(path, S) = 0, NEW q \in S
  PROVE  ~OnPath(path, q)
<1>. SUFFICES ASSUME OnPath(path, q) PROVE FALSE
  OBVIOUS
<1>. DEFINE T == {k \in 1 .. Len(path) : path[k] \in S}
            Least(k) == path[k] \in S /\ \A j \in DOMAIN path : path[j] \in S => k <= j
<1>1. DOMAIN path = 1 .. Len(path) /\ Len(path) \in Nat
  OBVIOUS
<1>2. T # {}
  BY DEF OnPath
<1>3. T \in SUBSET Nat
  BY <1>1
<1>4. PICK k \in T : \A j \in T : k <= j
  <2>. HIDE DEF T
  <2>. QED BY <1>2, <1>3, LeastElement
<1>5. \E n \in DOMAIN path : Least(n)
  BY <1>1, <1>4
<1>6. Least(CHOOSE n \in DOMAIN path : Least(n))
  BY <1>5
<1>7. FirstSeen(path, S) = path[CHOOSE n \in DOMAIN path : Least(n)]
  BY <1>5 DEF FirstSeen
<1>8. FirstSeen(path, S) \in S
  BY <1>6, <1>7
<1>. QED BY <1>8

(* What the search of a pixel sees is tabulated for every picture and      *)
(* radius there is.                                                        *)
SearchKnown == Search \in Searched

LEMMA SearchSame ==
  /\ Search.w = pic.w /\ Search.h = pic.h /\ Search.r2 = opts.r2
  /\ Pixels(Search) = Pixels(pic)
  /\ \A p : X(Search, p) = X(pic, p) /\ Y(Search, p) = Y(pic, p)
  /\ \A r2, p, q : Near(Search, r2, p, q) <=> Near(pic, r2, p, q)
<1>1. Search.w = pic.w /\ Search.h = pic.h /\ Search.r2 = opts.r2
  BY DEF Search
<1>2. \A p : X(Search, p) = X(pic, p) /\ Y(Search, p) = Y(pic, p)
  BY <1>1 DEF X, Y
<1>3. \A r2, p, q : Near(Search, r2, p, q) <=> Near(pic, r2, p, q)
  BY <1>2 DEF Near, Distance
<1>. QED BY <1>1, <1>2, <1>3 DEF Pixels

LEMMA PathsKnown ==
  ASSUME SearchKnown, NEW p \in Pixels(pic), NEW scanning \in BOOLEAN
  PROVE  /\ RowsAbove(p, scanning)
              = NearPath(Search, opts.r2, p, LastColumn(Search, p, scanning), TRUE)
         /\ RowsBelow(p, scanning)
              = NearPath(Search, opts.r2, p, LastColumn(Search, p, scanning), FALSE)
<1>1. p \in Pixels(Search) /\ Search.r2 = opts.r2
  BY SearchSame
<1>. DEFINE s == Search
<1>2. s \in Searched
  BY DEF SearchKnown
<1>. HIDE DEF s
<1>3. NearPaths[s] = [scan \in BOOLEAN |-> [up \in BOOLEAN |->
                        [q \in Pixels(s) |-> NearPath(s, s.r2, q, LastColumn(s, q, scan), up)]]]
  BY <1>2 DEF NearPaths
<1>4. p \in Pixels(s) /\ s.r2 = opts.r2
  BY <1>1 DEF s
<1>5. \A up \in BOOLEAN :
        NearPaths[s][scanning][up][p] = NearPath(s, s.r2, p, LastColumn(s, p, scanning), up)
  BY <1>3, <1>4
<1>6. /\ RowsAbove(p, scanning) = NearPaths[s][scanning][TRUE][p]
      /\ RowsBelow(p, scanning) = NearPaths[s][scanning][FALSE][p]
  BY DEF RowsAbove, RowsBelow, s
<1>. QED BY <1>4, <1>5, <1>6 DEF s

(* Of a near pixel that is asked for, or of another one, the search in the *)
(* rows of that pixel gives notice.                                        *)
LEMMA NearIsFound ==
  ASSUME IsPicture(pic), opts \in Options, SearchKnown,
         NEW p \in Pixels(pic), NEW q \in Pixels(pic), Near(pic, opts.r2, p, q),
         NEW scanning \in BOOLEAN,
         scanning => X(pic, q) <= X(pic, p),
         InSight(opts.r2, Square(Y(pic, p) - Y(pic, q)), IF scanning THEN 25 ELSE 9),
         NEW S \in SUBSET (Nat \ {0}), q \in S
  PROVE  /\ Y(pic, q) <= Y(pic, p) => FirstSeen(RowsAbove(p, scanning), S) # 0
         /\ ~(Y(pic, q) <= Y(pic, p)) => FirstSeen(RowsBelow(p, scanning), S) # 0
<1>. DEFINE s == Search
            hi == LastColumn(s, p, scanning)
            up == Y(pic, q) <= Y(pic, p)
<1>1. /\ s.w = pic.w /\ s.h = pic.h /\ Pixels(s) = Pixels(pic)
      /\ X(s, p) = X(pic, p) /\ Y(s, p) = Y(pic, p) /\ X(s, q) = X(pic, q) /\ Y(s, q) = Y(pic, q)
      /\ Near(s, opts.r2, p, q)
  BY SearchSame
<1>2. s.w \in Nat \ {0} /\ s.h \in Nat \ {0} /\ opts.r2 \in Nat
  BY <1>1 DEF IsPicture, Options
<1>. HIDE DEF s
<1>3. X(s, p) \in 0 .. (s.w - 1) /\ X(s, q) \in 0 .. (s.w - 1)
  BY <1>1, <1>2, PlaceOf
<1>4. /\ hi \in Nat /\ X(s, p) <= hi /\ X(s, q) <= hi
      /\ \/ opts.r2 < 9 \/ (opts.r2 < 25 /\ hi = X(s, p))
         \/ 5 * Square(Y(s, p) - Y(s, q)) <= 4 * opts.r2
  <2>1. CASE scanning
    <3>1. hi = X(s, p)
      BY <2>1 DEF LastColumn
    <3>. HIDE DEF hi
    <3>. QED BY <1>1, <1>3, <2>1, <3>1 DEF InSight
  <2>2. CASE ~scanning
    <3>1. hi = s.w - 1
      BY <2>2 DEF LastColumn
    <3>. HIDE DEF hi
    <3>. QED BY <1>1, <1>2, <1>3, <2>2, <3>1 DEF InSight
  <2>. QED BY <2>1, <2>2
<1>5. up \in BOOLEAN /\ (up <=> Y(s, q) <= Y(s, p))
  BY <1>1
<1>. DEFINE path == NearPath(s, opts.r2, p, hi, up)
<1>6. path \in Seq(Int) /\ OnPath(path, q)
  <2>1. p \in Pixels(s) /\ q \in Pixels(s)
    BY <1>1
  <2>. HIDE DEF hi, up
  <2>. QED BY <1>1, <1>2, <1>4, <1>5, <2>1, NearIsSeen
<1>7. FirstSeen(path, S) # 0
  <2>. HIDE DEF path
  <2>. QED BY <1>6, NothingFound
<1>8. /\ RowsAbove(p, scanning) = NearPath(s, opts.r2, p, hi, TRUE)
      /\ RowsBelow(p, scanning) = NearPath(s, opts.r2, p, hi, FALSE)
  BY PathsKnown DEF s
<1>9. CASE up
  <2>1. up = TRUE
    BY <1>9
  <2>2. path = RowsAbove(p, scanning)
    <3>. HIDE DEF up, hi
    <3>. QED BY <1>8, <2>1
  <2>. QED BY <1>7, <1>9, <2>2
<1>10. CASE ~up
  <2>1. up = FALSE
    BY <1>10
  <2>2. path = RowsBelow(p, scanning)
    <3>. HIDE DEF up, hi
    <3>. QED BY <1>8, <2>1
  <2>. QED BY <1>7, <1>10, <2>2
<1>. QED BY <1>9, <1>10

(* The pictures of a series have one size, so a step does not change what  *)
(* is searched.                                                            *)
LEMMA InitSearchKnown ==
  ASSUME Init
  PROVE  SearchKnown
BY DEF Init, SearchKnown, Search, Searched

LEMMA StepSearchKnown ==
  ASSUME SearchKnown, [Next]_vars
  PROVE  SearchKnown'
<1>1. opts' = opts
  BY DEF Next, ScanSource, ScanDark, SecondPixel, SmoothPixel, NoSmoothing, BeginSplit,
         ChooseSource, PeakPixel, JoinPixel, NoDirect, DirectPixel, ZonePixel, Output,
         Finished, vars
<1>2. pic' = pic \/ Output
  BY DEF Next, ScanSource, ScanDark, SecondPixel, SmoothPixel, NoSmoothing, BeginSplit,
         ChooseSource, PeakPixel, JoinPixel, NoDirect, DirectPixel, ZonePixel,
         Finished, vars
<1>3. pic'.w = pic.w /\ pic'.h = pic.h
  <2>1. CASE Output
    BY <2>1 DEF Output
  <2>. QED BY <1>2, <2>1
<1>. QED BY <1>1, <1>3 DEF SearchKnown, Search

LEMMA SearchKnownAlways == Spec => []SearchKnown
<1>1. Init => SearchKnown
  BY InitSearchKnown
<1>2. SearchKnown /\ [Next]_vars => SearchKnown'
  BY StepSearchKnown
<1>. QED BY <1>1, <1>2, PTL DEF Spec

(* The first scan starts a new source only when its search, entered from   *)
(* the pixels already scanned, has seen no label.                          *)
LEMMA ScanLooksBack ==
  ASSUME GlareAssumption, IInv, Shapes, SearchKnown, ScanSource, igs' > igs,
         NEW q \in Pixels(pic), gsn[q] # 0, InSight(opts.r2, Square(Y(pic, pos) - Y(pic, q)), 25)
  PROVE  ~Near(pic, opts.r2, pos, q)
<1>. SUFFICES ASSUME Near(pic, opts.r2, pos, q) PROVE FALSE
  OBVIOUS
<1>. DEFINE near == IF LastLabel = 0 \/ SearchEvery THEN Nearby(pos) ELSE LastLabel
            labelled == {p \in Pixels(pic) : gsn[p] > 0}
            up == FirstSeen(RowsAbove(pos, TRUE), labelled)
            down == FirstSeen(RowsBelow(pos, TRUE), labelled)
<1>1. /\ Pixels(pic) = 1 .. Size /\ Size \in Nat \ {0} /\ pos \in 1 .. Size /\ igs \in Nat
      /\ \A p \in 1 .. Size : gsn[p] \in Nat /\ gsn[p] <= igs
  BY LabelTypes
<1>2. phase = "scan" /\ igs' = Larger(igs, IF near = 0 THEN igs + 1 ELSE near)
  BY DEF ScanSource
<1>3. near \in 0 .. igs
  BY NearbyInUse DEF LastLabel, LabelsInUse, IInv
<1>4. near = 0
  <2>. HIDE DEF near
  <2>. QED BY <1>1, <1>2, <1>3 DEF Larger
<1>5. Nearby(pos) = 0
  BY <1>4
<1>6. up = 0 /\ down = 0
  <2>1. Nearby(pos) = IF down # 0 THEN gsn[down] ELSE IF up # 0 THEN gsn[up] ELSE 0
    BY DEF Nearby
  <2>2. (up # 0 => up \in labelled) /\ (down # 0 => down \in labelled)
    BY FirstFound
  <2>3. \A p \in labelled : gsn[p] # 0
    BY <1>1
  <2>. HIDE DEF up, down, labelled
  <2>. QED BY <1>5, <2>1, <2>2, <2>3
<1>7. q < pos
  BY <1>1, <1>2 DEF IInv, Unscanned
<1>8. X(pic, q) <= X(pic, pos)
  <2>1. pic.h \in Nat \ {0}
    BY DEF Shapes, IsPicture
  <2>2. q \in Int /\ pos \in Int
    BY <1>1
  <2>3. q - 1 \in Int /\ pos - 1 \in Int /\ q - 1 <= pos - 1
    BY <1>7, <2>2
  <2>4. (q - 1) \div pic.h <= (pos - 1) \div pic.h
    BY <2>1, <2>3, QuotientGrows
  <2>. QED BY <2>4 DEF X
<1>9. labelled \in SUBSET (Nat \ {0}) /\ q \in labelled
  BY <1>1
<1>10. IsPicture(pic) /\ opts \in Options /\ pos \in Pixels(pic)
  BY <1>1 DEF Shapes
<1>11. up # 0 \/ down # 0
  <2>. HIDE DEF labelled
  <2>1. /\ Y(pic, q) <= Y(pic, pos) => up # 0
        /\ ~(Y(pic, q) <= Y(pic, pos)) => down # 0
    BY <1>8, <1>9, <1>10, NearIsFound
  <2>. QED BY <2>1
<1>. QED BY <1>6, <1>11

(* A new source of the first scan is far from every labelled pixel, for    *)
(* all pictures and all radii, where that is not in the outermost rows:    *)
(* the search does not miss one although it enters a row in the middle of  *)
(* what it saw of the last.                                                *)
THEOREM FreshSourcesAreFarAlways == Spec => FreshSourcesAreFar
<1>. DEFINE Far == (phase = "scan" /\ igs' > igs) =>
                     \A q \in Pixels(pic) :
                         (gsn[q] # 0 /\ InSight(opts.r2, Square(Y(pic, pos) - Y(pic, q)), 25)) =>
                             ~Near(pic, opts.r2, pos, q)
<1>1. ASSUME GlareAssumption, IInv, MInv, SearchKnown, Next
      PROVE  Far
  <2>. SUFFICES ASSUME phase = "scan", igs' > igs,
                       NEW q \in Pixels(pic), gsn[q] # 0,
                       InSight(opts.r2, Square(Y(pic, pos) - Y(pic, q)), 25)
                PROVE  ~Near(pic, opts.r2, pos, q)
    OBVIOUS
  <2>1. igs \in Nat
    BY <1>1, LabelTypes DEF MInv
  <2>2. ScanSource \/ ScanDark
    BY <1>1 DEF Next, SecondPixel, SmoothPixel, NoSmoothing, BeginSplit, ChooseSource,
         PeakPixel, JoinPixel, NoDirect, DirectPixel, ZonePixel, Output, Finished
  <2>3. ScanSource
    BY <2>1, <2>2 DEF ScanDark
  <2>. QED BY <1>1, <2>3, ScanLooksBack DEF MInv
<1>2. GlareAssumption
  BY GlareAssumption
<1>3. IInv /\ MInv /\ SearchKnown /\ [Next]_vars => [Far]_vars
  BY <1>1, <1>2
<1>. QED BY <1>3, IInvAlways, MInvAlways, SearchKnownAlways, PTL DEF Spec, FreshSourcesAreFar

----------------------------------------------------------------------------
(* The second scan.  A pixel is settled when it would not make its source  *)
(* join another; a pass without change settles every pixel it reaches, and *)
(* the scan ends with such a pass.                                         *)
Settled(p) == gsn[p] = 0 \/ Surrounded(p) \/ Bigger(p, 1) = gsn[p]

SettledSoFar ==
  /\ (phase = "second" /\ ~change) => \A p \in 1 .. (pos - 1) : Settled(p)
  /\ (phase = "smooth" /\ pos = 1 /\ SecondScan) => \A p \in 1 .. Size : Settled(p)

LEMMA SettledSame ==
  ASSUME UNCHANGED <<pic, opts, gsn, tab>>, NEW p
  PROVE  Settled(p)' <=> Settled(p)
<1>1. Bigger(p, 1)' = Bigger(p, 1)
  BY DEF Bigger, RowsAbove, RowsBelow, Search, Above
<1>2. Surrounded(p)' <=> Surrounded(p)
  BY DEF Surrounded
<1>3. gsn' = gsn
  OBVIOUS
<1>. QED BY <1>1, <1>2, <1>3 DEF Settled

LEMMA SecondPixelSettled ==
  ASSUME GlareAssumption, IInv, SettledSoFar, SecondPixel, change \in BOOLEAN
  PROVE  SettledSoFar'
<1>. DEFINE other == IF gsn[pos] = 0 \/ Surrounded(pos) THEN gsn[pos] ELSE Bigger(pos, 1)
            changed == change \/ other # gsn[pos]
<1>1. /\ phase = "second" /\ Combine(gsn[pos], other) /\ Repeat(changed, "smooth")
      /\ pic' = pic /\ opts' = opts
  BY DEF SecondPixel
<1>2. Size \in Nat \ {0} /\ pos \in 1 .. Size
  BY DEF IInv, LabelsInUse
<1>. HIDE DEF changed
<1>3. CASE changed
  <2>1. phase' = "second" /\ (change' = FALSE => pos' = 1) /\ change' \in BOOLEAN
    BY <1>1, <1>2, <1>3 DEF Repeat, Step
  <2>2. (~change') => pos' = 1
    BY <2>1
  <2>. QED BY <2>1, <2>2 DEF SettledSoFar
<1>4. CASE ~changed
  <2>1. ~change /\ other = gsn[pos]
    BY <1>4 DEF changed
  <2>2. \A p \in 1 .. pos : Settled(p)
    <3>1. Settled(pos)
      BY <2>1 DEF Settled
    <3>2. \A p \in 1 .. (pos - 1) : Settled(p)
      BY <1>1, <2>1 DEF SettledSoFar
    <3>3. \A p \in 1 .. pos : p = pos \/ p \in 1 .. (pos - 1)
      BY <1>2
    <3>. QED BY <3>1, <3>2, <3>3
  <2>3. gsn' = gsn /\ tab' = tab
    BY <1>1, <2>1 DEF Combine
  <2>4. \A p : Settled(p)' <=> Settled(p)
    BY <1>1, <2>3, SettledSame
  <2>5. Size' = Size
    BY <1>1 DEF Size
  <2>. HIDE DEF other
  <2>6. CASE pos = Size
    <3>1. phase' = "smooth"
      BY <1>1, <1>4, <2>6 DEF Repeat, Step
    <3>2. \A p \in 1 .. Size' : Settled(p)'
      BY <2>2, <2>4, <2>5, <2>6
    <3>. QED BY <3>1, <3>2 DEF SettledSoFar
  <2>7. CASE pos # Size
    <3>1. phase' = "second" /\ pos' = pos + 1
      BY <1>1, <2>7 DEF Repeat, Step
    <3>2. pos' - 1 = pos
      BY <1>2, <3>1
    <3>3. \A p \in 1 .. (pos' - 1) : Settled(p)'
      BY <2>2, <2>4, <3>2
    <3>. QED BY <3>1, <3>3 DEF SettledSoFar
  <2>. QED BY <2>6, <2>7
<1>. QED BY <1>3, <1>4

LEMMA StepSettled ==
  ASSUME GlareAssumption, IInv, Shapes, SettledSoFar, [Next]_vars
  PROVE  SettledSoFar'
<1>1. Size \in Nat \ {0} /\ pos \in 1 .. Size
  BY DEF IInv, LabelsInUse
<1>2. CASE UNCHANGED vars
  <2>1. \A p : Settled(p)' <=> Settled(p)
    BY <1>2, SettledSame DEF vars
  <2>2. /\ UNCHANGED <<phase, pos, change>>
        /\ Size' = Size /\ SecondScan' = SecondScan
    BY <1>2 DEF vars, Size, SecondScan, Calcfast, SearchEvery
  <2>. QED BY <2>1, <2>2 DEF SettledSoFar
<1>3. CASE SecondPixel
  BY <1>3, SecondPixelSettled DEF Shapes
<1>4. CASE ScanSource \/ ScanDark
  <2>1. phase = "scan" /\ Step(AfterScan) /\ opts' = opts
    BY <1>4 DEF ScanSource, ScanDark
  <2>2. phase' \in {"scan", AfterScan} /\ (phase' # "scan" => pos' = 1)
    BY <2>1 DEF Step
  <2>3. SecondScan' = SecondScan
    BY <2>1 DEF SecondScan, Calcfast, SearchEvery
  <2>4. phase' = "smooth" => ~SecondScan
    BY <2>2 DEF AfterScan
  <2>5. phase' = "second" => pos' = 1
    BY <2>2
  <2>. QED BY <2>3, <2>4, <2>5 DEF SettledSoFar
<1>5. CASE SmoothPixel
  <2>1. phase = "smooth" /\ Step("limit")
    BY <1>5 DEF SmoothPixel
  <2>2. phase' \in {"smooth", "limit"} /\ (phase' = "smooth" => pos' # 1)
    BY <1>1, <2>1 DEF Step
  <2>. QED BY <2>2 DEF SettledSoFar
<1>6. CASE \/ NoSmoothing \/ BeginSplit \/ ChooseSource \/ PeakPixel \/ JoinPixel
           \/ NoDirect \/ DirectPixel \/ ZonePixel \/ Output \/ Finished
  <2>1. phase' \notin {"second", "smooth"}
    BY <1>6 DEF NoSmoothing, BeginSplit, ChooseSource, PeakPixel, JoinPixel, NoDirect,
         DirectPixel, ZonePixel, Output, Finished, vars, Step, Repeat, AfterDirect
  <2>. QED BY <2>1 DEF SettledSoFar
<1>. QED BY <1>2, <1>3, <1>4, <1>5, <1>6 DEF Next

LEMMA SettledAlways == Spec => []SettledSoFar
<1>1. GlareAssumption
  BY GlareAssumption
<1>2. Init => SettledSoFar
  BY DEF Init, SettledSoFar
<1>3. IInv /\ MInv /\ SettledSoFar /\ [Next]_vars => SettledSoFar'
  BY <1>1, StepSettled DEF MInv
<1>. QED BY <1>2, <1>3, IInvAlways, MInvAlways, PTL DEF Spec

(* One step towards a pixel. *)
LEMMA OneStepCloser ==
  ASSUME NEW m \in Int
  PROVE  \E d \in -1 .. 1 : /\ Square(m + d) <= Square(m)
                            /\ m # 0 => Square(m + d) < Square(m)
<1>1. CASE m = 0
  BY <1>1 DEF Square
<1>2. CASE m > 0
  <2>1. Square(m + (-1)) = Square(m) - 2 * m + 1
    BY DEF Square
  <2>2. Square(m) \in Int
    BY DEF Square
  <2>3. Square(m + (-1)) < Square(m)
    BY <1>2, <2>1, <2>2
  <2>4. -1 \in -1 .. 1 /\ Square(m + (-1)) <= Square(m)
    BY <2>1, <2>2, <2>3
  <2>. QED BY <2>3, <2>4
<1>3. CASE m < 0
  <2>1. Square(m + 1) = Square(m) + 2 * m + 1
    BY DEF Square
  <2>2. Square(m) \in Int
    BY DEF Square
  <2>3. Square(m + 1) < Square(m)
    BY <1>3, <2>1, <2>2
  <2>4. 1 \in -1 .. 1 /\ Square(m + 1) <= Square(m)
    BY <2>1, <2>2, <2>3
  <2>. QED BY <2>3, <2>4
<1>. QED BY <1>1, <1>2, <1>3

LEMMA PixelAt ==
  ASSUME NEW dim, dim.w \in Nat \ {0}, dim.h \in Nat \ {0},
         NEW x \in 0 .. (dim.w - 1), NEW y \in 0 .. (dim.h - 1)
  PROVE  /\ Pixel(dim, x, y) \in Pixels(dim)
         /\ X(dim, Pixel(dim, x, y)) = x /\ Y(dim, Pixel(dim, x, y)) = y
<1>. DEFINE h == dim.h
            w == dim.w
            n == x * h + y
<1>1. h \in Nat \ {0} /\ w \in Nat \ {0} /\ x \in Int /\ x >= 0 /\ x < w /\ y \in Int /\ y >= 0 /\ y < h
  OBVIOUS
<1>2. Pixel(dim, x, y) = n + 1 /\ X(dim, n + 1) = (n + 1 - 1) \div h /\ Y(dim, n + 1) = (n + 1 - 1) % h
  BY DEF Pixel, X, Y
<1>3. x * h \in Int
  BY <1>1
<1>. HIDE DEF h, w
<1>4. x * h + h <= w * h /\ w * h \in Int
  BY <1>1, NextMultiple
<1>5. 0 <= x * h
  <2>1. x = 0 \/ 0 * h + h <= x * h
    BY <1>1, NextMultiple
  <2>. QED BY <1>1, <1>3, <2>1
<1>6. n \in Int /\ n + 1 - 1 = n /\ n + 1 \in 1 .. w * h
  BY <1>1, <1>3, <1>4, <1>5
<1>7. n \div h = x /\ n % h = n - x * h
  <2>1. x * h <= n /\ n < x * h + h
    BY <1>1, <1>3
  <2>. HIDE DEF n
  <2>. QED BY <1>1, <1>6, <2>1, QuotientIs
<1>8. n - x * h = y
  BY <1>1, <1>3
<1>. HIDE DEF n
<1>. QED BY <1>2, <1>6, <1>7, <1>8 DEF Pixels, h, w

(* From a surrounded pixel a pixel of the same source is closer to any     *)
(* other pixel.                                                            *)
LEMMA SurroundedIsNotClosest ==
  ASSUME IsPicture(pic), NEW u \in Pixels(pic), Surrounded(u), NEW q \in Pixels(pic), u # q
  PROVE  \E v \in Pixels(pic) :
           /\ gsn[v] = gsn[u]
           /\ Distance(pic, v, X(pic, q), Y(pic, q)) < Distance(pic, u, X(pic, q), Y(pic, q))
<1>. DEFINE mx == X(pic, u) - X(pic, q)
            my == Y(pic, u) - Y(pic, q)
<1>1. pic.w \in Nat \ {0} /\ pic.h \in Nat \ {0}
  BY DEF IsPicture
<1>2. /\ X(pic, u) \in 0 .. (pic.w - 1) /\ Y(pic, u) \in 0 .. (pic.h - 1)
      /\ Pixel(pic, X(pic, u), Y(pic, u)) = u
  BY <1>1, PlaceOf
<1>3. /\ X(pic, q) \in 0 .. (pic.w - 1) /\ Y(pic, q) \in 0 .. (pic.h - 1)
      /\ Pixel(pic, X(pic, q), Y(pic, q)) = q
  BY <1>1, PlaceOf
<1>4. mx \in Int /\ my \in Int /\ (mx # 0 \/ my # 0)
  BY <1>1, <1>2, <1>3
<1>5. /\ X(pic, u) > 1 /\ X(pic, u) < pic.w - 2 /\ Y(pic, u) > 1 /\ Y(pic, u) < pic.h - 2
      /\ \A dx, dy \in -1 .. 1 : gsn[Pixel(pic, X(pic, u) + dx, Y(pic, u) + dy)] = gsn[u]
  BY DEF Surrounded
<1>6. PICK dx \in -1 .. 1 : Square(mx + dx) <= Square(mx) /\ (mx # 0 => Square(mx + dx) < Square(mx))
  <2>. HIDE DEF mx
  <2>. QED BY <1>4, OneStepCloser
<1>7. PICK dy \in -1 .. 1 : Square(my + dy) <= Square(my) /\ (my # 0 => Square(my + dy) < Square(my))
  <2>. HIDE DEF my
  <2>. QED BY <1>4, OneStepCloser
<1>. DEFINE x == X(pic, u) + dx
            y == Y(pic, u) + dy
            v == Pixel(pic, x, y)
<1>8. x \in 0 .. (pic.w - 1) /\ y \in 0 .. (pic.h - 1)
  BY <1>1, <1>2, <1>5
<1>9. v \in Pixels(pic) /\ X(pic, v) = x /\ Y(pic, v) = y
  <2>. HIDE DEF x, y
  <2>. QED BY <1>1, <1>8, PixelAt
<1>10. gsn[v] = gsn[u]
  BY <1>5
<1>11. x - X(pic, q) = mx + dx /\ y - Y(pic, q) = my + dy
  BY <1>2, <1>3
<1>12. /\ Distance(pic, v, X(pic, q), Y(pic, q)) = Square(mx + dx) + Square(my + dy)
       /\ Distance(pic, u, X(pic, q), Y(pic, q)) = Square(mx) + Square(my)
  <2>1. Distance(pic, v, X(pic, q), Y(pic, q)) = Square(x - X(pic, q)) + Square(y - Y(pic, q))
    <3>. HIDE DEF v, x, y
    <3>. QED BY <1>9 DEF Distance
  <2>2. Square(x - X(pic, q)) = Square(mx + dx) /\ Square(y - Y(pic, q)) = Square(my + dy)
    <3>. HIDE DEF x, y, mx, my
    <3>. QED BY <1>11
  <2>. QED BY <2>1, <2>2 DEF Distance
<1>13. \A n \in Int : Square(n) \in Int
  BY DEF Square
<1>. HIDE DEF mx, my, v, x, y
<1>14. mx + dx \in Int /\ my + dy \in Int
  BY <1>4
<1>15. /\ Square(mx) \in Int /\ Square(my) \in Int
       /\ Square(mx + dx) \in Int /\ Square(my + dy) \in Int
  BY <1>4, <1>13, <1>14
<1>16. Square(mx + dx) + Square(my + dy) < Square(mx) + Square(my)
  BY <1>4, <1>6, <1>7, <1>15
<1>. QED BY <1>9, <1>10, <1>12, <1>16

(* What Bigger gives is the same source or a larger one, and it is larger  *)
(* when the search sees a pixel of a larger one.                           *)
LEMMA BiggerIsLarger ==
  ASSUME GlareAssumption, IInv, Shapes, NEW p \in 1 .. Size, gsn[p] # 0,
         \/ FirstSeen(RowsAbove(p, FALSE), Above(1, gsn[p])) # 0
         \/ FirstSeen(RowsBelow(p, FALSE), Above(1, gsn[p])) # 0
  PROVE  Bigger(p, 1) # gsn[p]
<1>. DEFINE up == FirstSeen(RowsAbove(p, FALSE), Above(1, gsn[p]))
            one == IF up = 0 THEN gsn[p] ELSE gsn[up]
            down == FirstSeen(RowsBelow(p, FALSE), Above(1, one))
            Omega(g) == tab[g].omega
<1>1. \A g : \A q \in Above(1, g) : gsn[q] \in Sources /\ Omega(gsn[q]) > Omega(g)
  BY LabelTypes DEF Above, Sources
<1>2. up # 0 => up \in Above(1, gsn[p])
  BY FirstFound
<1>3. down # 0 => down \in Above(1, one)
  <2>. HIDE DEF one
  <2>. QED BY FirstFound
<1>4. Bigger(p, 1) = IF down = 0 THEN one ELSE gsn[down]
  BY DEF Bigger
<1>5. gsn[p] \in Sources
  BY LabelTypes DEF Sources
<1>6. \A g \in Sources : Omega(g) \in Int
  BY EntryTypes DEF Shapes, Table
<1>7. Omega(gsn[p]) \in Int
  BY <1>5, <1>6
<1>8. CASE up # 0
  <2>1. one = gsn[up] /\ one \in Sources /\ Omega(one) > Omega(gsn[p])
    BY <1>1, <1>2, <1>8
  <2>2. down # 0 => gsn[down] \in Sources /\ Omega(gsn[down]) > Omega(one)
    <3>. HIDE DEF one, down
    <3>. QED BY <1>1, <1>3
  <2>3. Omega(Bigger(p, 1)) > Omega(gsn[p])
    <3>. HIDE DEF one, down, up, Omega
    <3>. QED BY <1>4, <1>5, <1>6, <2>1, <2>2
  <2>. HIDE DEF Omega
  <2>. QED BY <1>7, <2>3
<1>9. CASE up = 0
  <2>1. one = gsn[p]
    BY <1>9
  <2>2. down # 0
    BY <1>9, <2>1
  <2>3. Omega(gsn[down]) > Omega(gsn[p]) /\ Bigger(p, 1) = gsn[down]
    <3>. HIDE DEF one, down
    <3>. QED BY <1>1, <1>3, <1>4, <2>1, <2>2
  <2>4. Omega(Bigger(p, 1)) > Omega(gsn[p])
    <3>. HIDE DEF Omega
    <3>. QED BY <2>3
  <2>. HIDE DEF Omega
  <2>. QED BY <1>7, <2>4
<1>. QED BY <1>8, <1>9

(* With every pixel settled no source has a larger one near.  The pixel of *)
(* the source that is closest to the larger one is not surrounded.         *)
LEMMA NoneLargerNear ==
  ASSUME GlareAssumption, IInv, Shapes, SearchKnown,
         \A u \in 1 .. Size : Settled(u),
         NEW p \in Pixels(pic), NEW q \in Pixels(pic), gsn[p] # 0, gsn[q] # 0,
         Near(pic, opts.r2, p, q),
         InSight(opts.r2, Distance(pic, p, X(pic, q), Y(pic, q)), 9)
  PROVE  ~(tab[gsn[q]].omega > tab[gsn[p]].omega)
<1>. SUFFICES ASSUME tab[gsn[q]].omega > tab[gsn[p]].omega PROVE FALSE
  OBVIOUS
<1>. DEFINE Away(u) == Distance(pic, u, X(pic, q), Y(pic, q))
            own == {u \in Pixels(pic) : gsn[u] = gsn[p]}
            S == {Away(u) : u \in own}
<1>1. /\ Pixels(pic) = 1 .. Size /\ IsPicture(pic) /\ opts \in Options /\ opts.r2 \in Nat
      /\ \A u \in 1 .. Size : gsn[u] \in Nat /\ gsn[u] <= igs
  BY LabelTypes DEF Shapes, Options
<1>2. \A u \in Pixels(pic) : /\ Away(u) \in Nat /\ Square(Y(pic, u) - Y(pic, q)) \in Nat
                             /\ Square(Y(pic, u) - Y(pic, q)) <= Away(u)
  <2>1. ASSUME NEW u \in Pixels(pic)
        PROVE  /\ Away(u) \in Nat /\ Square(Y(pic, u) - Y(pic, q)) \in Nat
               /\ Square(Y(pic, u) - Y(pic, q)) <= Away(u)
    <3>1. pic.w \in Nat \ {0} /\ pic.h \in Nat \ {0}
      BY <1>1 DEF IsPicture
    <3>2. X(pic, u) - X(pic, q) \in Int /\ Y(pic, u) - Y(pic, q) \in Int
      <4>1. X(pic, u) \in 0 .. (pic.w - 1) /\ Y(pic, u) \in 0 .. (pic.h - 1)
        BY <3>1, PlaceOf
      <4>2. X(pic, q) \in 0 .. (pic.w - 1) /\ Y(pic, q) \in 0 .. (pic.h - 1)
        BY <3>1, PlaceOf
      <4>. QED BY <4>1, <4>2
    <3>3. \A n \in Int : Square(n) \in Nat
      BY DEF Square
    <3>4. Square(X(pic, u) - X(pic, q)) \in Nat /\ Square(Y(pic, u) - Y(pic, q)) \in Nat
      BY <3>2, <3>3
    <3>5. Away(u) = Square(X(pic, u) - X(pic, q)) + Square(Y(pic, u) - Y(pic, q))
      BY DEF Distance
    <3>. HIDE DEF Away
    <3>. QED BY <3>4, <3>5
  <2>. QED BY <2>1
<1>3. PICK u \in own : \A v \in own : Away(u) <= Away(v)
  <2>1. S \in SUBSET Nat /\ S # {}
    BY <1>2
  <2>2. PICK n \in S : \A m \in S : n <= m
    <3>. HIDE DEF S
    <3>. QED BY <2>1, LeastElement
  <2>. HIDE DEF Away
  <2>. QED BY <2>2
<1>4. u \in Pixels(pic) /\ gsn[u] = gsn[p] /\ gsn[u] # 0
  OBVIOUS
<1>5. Near(pic, opts.r2, u, q)
  <2>1. Away(p) <= opts.r2 /\ Away(u) <= Away(p)
    BY <1>3 DEF Near
  <2>2. Away(u) \in Nat /\ Away(p) \in Nat
    BY <1>2, <1>4
  <2>3. Away(u) <= opts.r2
    <3>. HIDE DEF Away
    <3>. QED BY <1>1, <2>1, <2>2
  <2>. QED BY <2>3 DEF Near
<1>12. InSight(opts.r2, Square(Y(pic, u) - Y(pic, q)), 9)
  <2>. DEFINE dd == Square(Y(pic, u) - Y(pic, q))
  <2>1. Away(u) <= Away(p) /\ dd <= Away(u) /\ dd \in Nat /\ Away(u) \in Nat /\ Away(p) \in Nat
    BY <1>2, <1>3, <1>4
  <2>2. opts.r2 < 9 \/ 5 * Away(p) <= 4 * opts.r2
    BY DEF InSight
  <2>. HIDE DEF Away, dd
  <2>3. opts.r2 < 9 \/ 5 * dd <= 4 * opts.r2
    BY <1>1, <2>1, <2>2
  <2>. QED BY <2>3 DEF InSight, dd
<1>6. tab[gsn[p]].omega \in Int
  <2>1. gsn[p] \in Sources
    BY LabelTypes DEF Sources
  <2>. QED BY <2>1, EntryTypes DEF Shapes, Table
<1>7. u # q
  BY <1>4, <1>6
<1>8. ~Surrounded(u)
  <2>. SUFFICES ASSUME Surrounded(u) PROVE FALSE
    OBVIOUS
  <2>1. PICK v \in Pixels(pic) : gsn[v] = gsn[u] /\ Away(v) < Away(u)
    BY <1>1, <1>4, <1>7, SurroundedIsNotClosest
  <2>2. Away(u) <= Away(v) /\ Away(u) \in Nat /\ Away(v) \in Nat
    BY <1>2, <1>3, <1>4, <2>1
  <2>. HIDE DEF Away
  <2>. QED BY <2>1, <2>2
<1>9. Bigger(u, 1) = gsn[u]
  BY <1>1, <1>4, <1>8 DEF Settled
<1>. DEFINE larger == Above(1, gsn[u])
<1>10. q \in larger /\ larger \in SUBSET (Nat \ {0})
  BY <1>1, <1>4 DEF Above
<1>11. \/ FirstSeen(RowsAbove(u, FALSE), larger) # 0
       \/ FirstSeen(RowsBelow(u, FALSE), larger) # 0
  <2>. HIDE DEF larger
  <2>1. /\ Y(pic, q) <= Y(pic, u) => FirstSeen(RowsAbove(u, FALSE), larger) # 0
        /\ ~(Y(pic, q) <= Y(pic, u)) => FirstSeen(RowsBelow(u, FALSE), larger) # 0
    BY <1>1, <1>4, <1>5, <1>10, <1>12, NearIsFound
  <2>. QED BY <2>1
<1>. QED BY <1>1, <1>4, <1>9, <1>11, BiggerIsLarger

LEMMA NearBothWays ==
  ASSUME IsPicture(pic), NEW p \in Pixels(pic), NEW q \in Pixels(pic)
  PROVE  Distance(pic, q, X(pic, p), Y(pic, p)) = Distance(pic, p, X(pic, q), Y(pic, q))
<1>1. pic.w \in Nat \ {0} /\ pic.h \in Nat \ {0}
  BY DEF IsPicture
<1>2. /\ X(pic, p) \in Int /\ Y(pic, p) \in Int
      /\ X(pic, q) \in Int /\ Y(pic, q) \in Int
  <2>1. X(pic, p) \in 0 .. (pic.w - 1) /\ Y(pic, p) \in 0 .. (pic.h - 1)
    BY <1>1, PlaceOf
  <2>2. X(pic, q) \in 0 .. (pic.w - 1) /\ Y(pic, q) \in 0 .. (pic.h - 1)
    BY <1>1, PlaceOf
  <2>. QED BY <2>1, <2>2
<1>3. \A a, b \in Int : Square(a - b) = Square(b - a)
  BY DEF Square
<1>4. /\ Square(X(pic, p) - X(pic, q)) = Square(X(pic, q) - X(pic, p))
      /\ Square(Y(pic, p) - Y(pic, q)) = Square(Y(pic, q) - Y(pic, p))
  BY <1>2, <1>3
<1>. QED BY <1>4 DEF Distance

(* After the second scan, sources that face each other within the search   *)
(* radius (but for its outermost part, from three pixels on) have the same *)
(* size, for all pictures and all radii: the scan stops only when no pixel *)
(* sees a larger source, and the pixel that is closest to one is searched  *)
(* from and sees it.                                                       *)
THEOREM FacingSourcesMergedAlways == Spec => []FacingSourcesMerged
<1>1. ASSUME GlareAssumption, IInv, MInv, SearchKnown, SettledSoFar
      PROVE  FacingSourcesMerged
  <2>. SUFFICES ASSUME phase = "smooth", pos = 1, SecondScan,
                       NEW p \in Pixels(pic), NEW q \in Pixels(pic), gsn[p] # 0, gsn[q] # 0,
                       Near(pic, opts.r2, p, q),
                       InSight(opts.r2, Distance(pic, p, X(pic, q), Y(pic, q)), 9)
                PROVE  tab[gsn[p]].omega = tab[gsn[q]].omega
    BY DEF FacingSourcesMerged
  <2>1. Shapes /\ \A u \in 1 .. Size : Settled(u)
    BY <1>1 DEF MInv, SettledSoFar
  <2>2. ~(tab[gsn[q]].omega > tab[gsn[p]].omega)
    BY <1>1, <2>1, NoneLargerNear
  <2>3. /\ Near(pic, opts.r2, q, p)
        /\ InSight(opts.r2, Distance(pic, q, X(pic, p), Y(pic, p)), 9)
    BY <2>1, NearBothWays DEF Shapes, Near
  <2>4. ~(tab[gsn[p]].omega > tab[gsn[q]].omega)
    BY <1>1, <2>1, <2>3, NoneLargerNear
  <2>5. gsn[p] \in Sources /\ gsn[q] \in Sources
    BY <1>1, <2>1, LabelTypes DEF Sources
  <2>6. tab[gsn[p]].omega \in Int /\ tab[gsn[q]].omega \in Int
    BY <2>1, <2>5, EntryTypes DEF Shapes, Table
  <2>. QED BY <2>2, <2>4, <2>6
<1>2. GlareAssumption
  BY GlareAssumption
<1>3. IInv /\ MInv /\ SearchKnown /\ SettledSoFar => FacingSourcesMerged
  BY <1>1, <1>2
<1>. QED BY <1>3, IInvAlways, MInvAlways, SearchKnownAlways, SettledAlways, PTL
=============================================================================
