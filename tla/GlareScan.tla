----------------------------- MODULE GlareScan -----------------------------
(* How evalglare finds the glare sources of a picture: the first scan that *)
(* labels every bright pixel, the second scan that combines the sources    *)
(* that face each other, the smoothing, the extraction of peaks, the       *)
(* direct light of every source, the zones, and the mode for a series of   *)
(* images that reuses one picture and one table of sources.  All are loops *)
(* over the pixels that read and write the labels and the table of the     *)
(* same picture: one pixel is one step.                                    *)
(*                                                                         *)
(* Luminances and solid angles are small integers.  The means of a source  *)
(* (av_lum, av_posx, av_posy) are left out: only npix, av_omega and        *)
(* lum_max decide what happens to a source.                                *)
EXTENDS GlareSearch, Functions

CONSTANTS
    Jobs,          \* pictures, each with the options it is evaluated with
    LumSource,     \* lum_source: above it a pixel is a glare source pixel
    Limit,         \* limit: from it on a pixel is a peak
    Zone1, Zone2,  \* the two zones around the first pixel: distances, squared
    MaxSources,    \* bound on the table, which the program grows as needed
    MaxImages      \* bound on the images of a series

(* A pixel outside the view, or not valid, has luminance -1. *)
IsPicture(pic) == pic \in [w : Nat \ {0}, h : Nat \ {0},
                           lum : [Pixels(pic) -> Int], omega : [Pixels(pic) -> Nat]]

Options == [r2 : Nat,                \* max_angle in pixels, squared (-r)
            output : 0 .. 2,         \* -1 and -2
            ext : BOOLEAN,           \* an external illuminance is given (-i)
            sgs : BOOLEAN,           \* smoothing (-s)
            split : BOOLEAN,         \* peak extraction (-y, -Y; off with -x)
            zones : 0 .. 2,          \* -l, -L
            series : BOOLEAN]        \* -Q

(* find_split takes the number of rows for the number of columns: on a     *)
(* picture with more rows than columns it reads outside of the picture.    *)
GlareAssumption ==
    /\ \A j \in Jobs : /\ IsPicture(j.pic)
                       /\ j.opts \in Options
                       /\ (j.opts.split \/ j.opts.series) => j.pic.h <= j.pic.w
    /\ {LumSource, Limit, Zone1, Zone2} \subseteq Nat
    /\ {MaxSources, MaxImages} \subseteq Nat \ {0}
ASSUME GlareAssumption

VARIABLES
    pic, opts,     \* p, and the options
    phase, pos,    \* the loop that runs, and its pixel
    gsn,           \* the label of every pixel, 0 for none
    igs,           \* the last source in use
    npix,          \* the pixels counted for every source
    tab,           \* av_omega, lum_max and Eglare of every source
    zone,          \* z1_gsn and z2_gsn of every source
    last,          \* lastpixelwas_gs
    i, imax,       \* the source whose peaks are extracted, i_max
    start,         \* i_splitstart
    change,        \* whether the running pass has combined sources
    peak,          \* lum_total_max
    evdir,         \* E_v_dir
    image          \* the number of the image of a series

vars == <<pic, opts, phase, pos, gsn, igs, npix, tab, zone, last, i, imax, start, change,
          peak, evdir, image>>

Phases == {"scan", "second", "smooth", "limit", "choose", "peaks", "join", "direct",
           "zones", "out", "done"}

Sources == 1 .. MaxSources
Blank == [omega |-> 0, lmax |-> 0, direct |-> 0]

Larger(a, b) == IF a < b THEN b ELSE a

Size == pic.w * pic.h
Bright(p) == pic.lum[p] > LumSource
Light(p) == pic.lum[p] * pic.omega[p]
PixelsOf(g) == {p \in Pixels(pic) : gsn[p] = g}
AngleOf(S) == SumFunctionOnSet(pic.omega, S)

(* The options as they are once checked: a fast calculation needs the      *)
(* external illuminance; with a search radius below one pixel (the radius  *)
(* is measured along the diagonal) smoothing and peak extraction are off.  *)
Calcfast == IF opts.ext THEN opts.output ELSE 0
Smoothing == opts.sgs /\ opts.r2 >= 2
SearchEvery == opts.r2 <= 2
SecondScan == Calcfast = 0 /\ ~SearchEvery
Splitting == opts.series \/ (opts.split /\ opts.r2 >= 2 /\ peak > Limit)

----------------------------------------------------------------------------
(* What a search sees depends on the size of the picture and the radius    *)
(* only, not on its content.                                               *)
Searched == {[w |-> j.pic.w, h |-> j.pic.h, r2 |-> j.opts.r2] : j \in Jobs}

NearPaths ==
    [s \in Searched |-> [scanning \in BOOLEAN |-> [up \in BOOLEAN |->
        [p \in Pixels(s) |-> NearPath(s, s.r2, p, LastColumn(s, p, scanning), up)]]]]

SplitPaths == [s \in Searched |-> [p \in Pixels(s) |-> SplitPath(s, s.r2, p)]]

Search == [w |-> pic.w, h |-> pic.h, r2 |-> opts.r2]
RowsAbove(p, scanning) == NearPaths[Search][scanning][TRUE][p]
RowsBelow(p, scanning) == NearPaths[Search][scanning][FALSE][p]

----------------------------------------------------------------------------
(* Operations on the table. *)

(* pict_new_gli and the direct light of a new source; in a series its      *)
(* number may have been in use for an image before.                        *)
Fresh(t, g) == [t EXCEPT ![g].direct = 0]

(* add_pixel_to_gs *)
Added(t, p, g) ==
    [t EXCEPT ![g] = [omega |-> @.omega + pic.omega[p], lmax |-> Larger(@.lmax, pic.lum[p]),
                      direct |-> @.direct]]

(* The direct light of a source grows. *)
Lit(t, g, light) == [t EXCEPT ![g].direct = @ + light]

(* split_pixel_from_gs: lum_max of the old source stays what it was. *)
Moved(t, p, old, new) == Added([t EXCEPT ![old].omega = @ - pic.omega[p]], p, new)

(* A mutation of Recounted: the pixel is still counted for its old source. *)
CountedTwice(old, new) == [npix EXCEPT ![new] = @ + 1]

Recounted(old, new) == [npix EXCEPT ![old] = @ - 1, ![new] = @ + 1]

(* The end of find_near_pgs: every pixel of a source is added to a larger  *)
(* one, and the source is left without any.                                *)
Merged(t, old, new) ==
    [t EXCEPT ![old] = [omega |-> 0, lmax |-> 0, direct |-> @.direct],
              ![new] = [omega |-> @.omega + AngleOf(PixelsOf(old)),
                        lmax |-> Max({@.lmax} \cup {pic.lum[p] : p \in PixelsOf(old)}),
                        direct |-> @.direct]]

Combine(old, new) ==
    IF new = old THEN UNCHANGED <<gsn, npix, tab>>
    ELSE /\ gsn' = [p \in Pixels(pic) |-> IF gsn[p] = old THEN new ELSE gsn[p]]
         /\ npix' = [npix EXCEPT ![old] = 0, ![new] = @ + Cardinality(PixelsOf(old))]
         /\ tab' = Merged(tab, old, new)

(* find_near_pgs in the first scan: the rows below the pixel are searched  *)
(* even when those above had a hit, and their first hit replaces it.       *)
Nearby(p) ==
    LET labelled == {q \in Pixels(pic) : gsn[q] > 0}
        up == FirstSeen(RowsAbove(p, TRUE), labelled)
        down == FirstSeen(RowsBelow(p, TRUE), labelled)
    IN IF down # 0 THEN gsn[down] ELSE IF up # 0 THEN gsn[up] ELSE 0

(* find_near_pgs in the later scans: the first larger source (from lo on)  *)
(* in the rows above, then the first still larger one below.               *)
Above(lo, g) == {q \in Pixels(pic) : gsn[q] >= lo /\ tab[gsn[q]].omega > tab[g].omega}

(* A mutation of Bigger: the rows below are not searched. *)
BiggerUp(p, lo) ==
    LET up == FirstSeen(RowsAbove(p, FALSE), Above(lo, gsn[p]))
    IN IF up = 0 THEN gsn[p] ELSE gsn[up]

Bigger(p, lo) ==
    LET up == FirstSeen(RowsAbove(p, FALSE), Above(lo, gsn[p]))
        one == IF up = 0 THEN gsn[p] ELSE gsn[up]
        down == FirstSeen(RowsBelow(p, FALSE), Above(lo, one))
    IN IF down = 0 THEN one ELSE gsn[down]

(* find_split: the last source of the running extraction that is seen. *)
SplitNear(p) ==
    LET q == LastSeen(SplitPaths[Search][p], {r \in Pixels(pic) : gsn[r] >= start})
    IN IF q = 0 THEN 0 ELSE gsn[q]

(* A pixel away from the border whose eight neighbours have its label is   *)
(* not searched from in the second scan.                                   *)
Surrounded(p) ==
    LET x == X(pic, p)
        y == Y(pic, p)
    IN /\ x > 1 /\ x < pic.w - 2 /\ y > 1 /\ y < pic.h - 2
       /\ \A dx, dy \in -1 .. 1 : gsn[Pixel(pic, x + dx, y + dy)] = gsn[p]

----------------------------------------------------------------------------
(* Loops. *)

(* A mutation of Step: the loop that follows starts where this one ended. *)
StepOn(after) ==
    /\ pos' = pos + 1
    /\ phase' = IF pos = Size THEN after ELSE phase

(* The next pixel of a loop, or what comes after the loop. *)
Step(after) ==
    /\ pos' = IF pos = Size THEN 1 ELSE pos + 1
    /\ phase' = IF pos = Size THEN after ELSE phase

(* A mutation of Repeat: a pass starts with the change of the one before. *)
RepeatKept(changed, after) ==
    /\ change' = changed
    /\ Step(IF changed THEN phase ELSE after)

(* while (change == 1): passes over the picture until one changes nothing. *)
Repeat(changed, after) ==
    /\ change' = (pos # Size /\ changed)
    /\ Step(IF changed THEN phase ELSE after)

Init ==
    /\ \E j \in Jobs : pic = j.pic /\ opts = j.opts
    /\ phase = "scan"
    /\ pos = 1
    /\ gsn = [p \in Pixels(pic) |-> 0]
    /\ igs = 0
    /\ npix = [g \in Sources |-> 0]
    /\ tab = [g \in Sources |-> Blank]
    /\ zone = [g \in Sources |-> [z \in 1 .. 2 |-> 0]]
    /\ last = 0
    /\ i = 1
    /\ imax = 0
    /\ start = 1
    /\ change = FALSE
    /\ peak = 0
    /\ evdir = 0
    /\ image = 1

----------------------------------------------------------------------------
(* First scan: every bright pixel gets the source of the pixel before it   *)
(* in its column, else one that is near, else a new one.  In a series its  *)
(* direct light is added here already.                                     *)
AfterScan == IF opts.series THEN "limit" ELSE IF SecondScan THEN "second" ELSE "smooth"

LastLabel == IF Y(pic, pos) = 0 THEN 0 ELSE last

ScanSource ==
    /\ phase = "scan" /\ Bright(pos)
    /\ LET near == IF LastLabel = 0 \/ SearchEvery THEN Nearby(pos) ELSE LastLabel
           g == IF near = 0 THEN igs + 1 ELSE near
           t == Added(IF near = 0 THEN Fresh(tab, g) ELSE tab, pos, g)
       IN /\ g <= MaxSources
          /\ igs' = Larger(igs, g)
          /\ gsn' = [gsn EXCEPT ![pos] = g]
          /\ npix' = [npix EXCEPT ![g] = @ + 1]
          /\ tab' = IF opts.series THEN Lit(t, g, Light(pos)) ELSE t
          /\ last' = g
    /\ peak' = Larger(peak, pic.lum[pos])
    /\ Step(AfterScan)
    /\ UNCHANGED <<pic, opts, zone, i, imax, start, change, evdir, image>>

(* A pixel outside the view leaves lastpixelwas_gs as it is. *)
ScanDark ==
    /\ phase = "scan" /\ ~Bright(pos)
    /\ last' = IF pic.lum[pos] < 0 THEN LastLabel ELSE 0
    /\ Step(AfterScan)
    /\ UNCHANGED <<pic, opts, gsn, igs, npix, tab, zone, i, imax, start, change, peak, evdir, image>>

(* Second scan: from every source pixel that is not surrounded by its own  *)
(* source, look for a larger source nearby and join it.                    *)
SecondPixel ==
    /\ phase = "second"
    /\ LET g == gsn[pos]
           other == IF g = 0 \/ Surrounded(pos) THEN g ELSE Bigger(pos, 1)
       IN /\ Combine(g, other)
          /\ Repeat(change \/ other # g, "smooth")
    /\ UNCHANGED <<pic, opts, igs, zone, last, i, imax, start, peak, evdir, image>>

----------------------------------------------------------------------------
(* Smoothing: a pixel without label joins every source that fills more     *)
(* than a fifth of its surroundings, and is labelled with the last one.    *)
(* Near the right and lower border the surroundings end one pixel early.   *)
Reach == CHOOSE k \in 0 .. opts.r2 : 49 * k * k <= 8 * opts.r2 /\ 49 * (k + 1) * (k + 1) > 8 * opts.r2

Edge(c, n) == IF c + Reach > n - 1 THEN n - 2 ELSE n - 1

Surroundings(p) ==
    {q \in Pixels(pic) : /\ X(pic, q) <= Edge(X(pic, p), pic.w)
                         /\ Y(pic, q) <= Edge(Y(pic, p), pic.h)
                         /\ 49 * Distance(pic, p, X(pic, q), Y(pic, q)) <= 8 * opts.r2}

Filling(p) ==
    {g \in 1 .. igs :
        /\ npix[g] > 0
        /\ 5 * AngleOf({q \in Surroundings(p) : gsn[q] = g /\ Bright(q)})
             > AngleOf(Surroundings(p))}

SmoothPixel ==
    /\ phase = "smooth" /\ Smoothing
    /\ LET joined == IF gsn[pos] = 0 /\ pic.lum[pos] >= 0 THEN Filling(pos) ELSE {}
       IN \/ joined = {} /\ UNCHANGED <<gsn, npix, tab>>
          \/ \E g \in joined :
                /\ \A other \in joined : other <= g
                /\ gsn' = [gsn EXCEPT ![pos] = g]
                /\ npix' = [n \in Sources |-> IF n \in joined THEN npix[n] + 1 ELSE npix[n]]
                /\ tab' = [n \in Sources |->
                              IF n \in joined THEN Added(tab, pos, n)[n] ELSE tab[n]]
    /\ Step("limit")
    /\ UNCHANGED <<pic, opts, igs, zone, last, i, imax, start, change, peak, evdir, image>>

NoSmoothing ==
    /\ phase = "smooth" /\ ~Smoothing
    /\ phase' = "limit"
    /\ UNCHANGED <<pic, opts, pos, gsn, igs, npix, tab, zone, last, i, imax, start, change,
                   peak, evdir, image>>

----------------------------------------------------------------------------
(* Peak extraction: the peaks of every source that has one become sources  *)
(* of their own, grouped first by half the search radius (find_split), and *)
(* then combined among themselves as in the second scan.                   *)
BeginSplit ==
    /\ phase = "limit"
    /\ imax' = igs
    /\ i' = 1
    /\ phase' = IF Splitting THEN "choose" ELSE "direct"
    /\ UNCHANGED <<pic, opts, pos, gsn, igs, npix, tab, zone, last, start, change, peak, evdir, image>>

ChooseSource ==
    /\ phase = "choose"
    /\ IF i > imax THEN phase' = "direct" /\ UNCHANGED <<i, start>>
       ELSE IF npix[i] > 0 /\ tab[i].lmax >= Limit
            THEN phase' = "peaks" /\ start' = igs + 1 /\ UNCHANGED i
            ELSE i' = i + 1 /\ UNCHANGED <<phase, start>>
    /\ UNCHANGED <<pic, opts, pos, gsn, igs, npix, tab, zone, last, imax, change, peak, evdir, image>>

(* A mutation of IsPeak: a pixel at the limit is no peak. *)
AbovePeak(p) == pic.lum[p] > Limit

IsPeak(p) == pic.lum[p] >= Limit

PeakPixel ==
    /\ phase = "peaks"
    /\ IF IsPeak(pos) /\ gsn[pos] = i
       THEN LET near == IF start = igs + 1 THEN 0 ELSE SplitNear(pos)
                g == IF near = 0 THEN igs + 1 ELSE near
            IN /\ g <= MaxSources
               /\ igs' = Larger(igs, g)
               /\ gsn' = [gsn EXCEPT ![pos] = g]
               /\ npix' = Recounted(i, g)
               /\ tab' = Moved(IF near = 0 THEN Fresh(tab, g) ELSE tab, pos, i, g)
       ELSE UNCHANGED <<igs, gsn, npix, tab>>
    /\ Step("join")
    /\ UNCHANGED <<pic, opts, zone, last, i, imax, start, change, peak, evdir, image>>

JoinPixel ==
    /\ phase = "join"
    /\ LET g == gsn[pos]
           other == IF g < start THEN g ELSE Bigger(pos, start)
           done == pos = Size /\ ~change /\ other = g
       IN /\ Combine(g, other)
          /\ Repeat(change \/ other # g, "choose")
          /\ i' = IF done THEN i + 1 ELSE i
    /\ UNCHANGED <<pic, opts, igs, zone, last, imax, start, peak, evdir, image>>

----------------------------------------------------------------------------
(* The direct light of the sources.  It is left out with -1 and an         *)
(* external illuminance; a series adds it (again), but to no total.        *)
AfterDirect == IF opts.series THEN "out" ELSE IF opts.zones > 0 THEN "zones" ELSE "done"

NoDirect ==
    /\ phase = "direct" /\ ~opts.series /\ Calcfast = 1
    /\ phase' = AfterDirect
    /\ UNCHANGED <<pic, opts, pos, gsn, igs, npix, tab, zone, last, i, imax, start, change,
                   peak, evdir, image>>

DirectPixel ==
    /\ phase = "direct" /\ (opts.series \/ Calcfast # 1)
    /\ tab' = IF gsn[pos] = 0 THEN tab ELSE Lit(tab, gsn[pos], Light(pos))
    /\ evdir' = IF gsn[pos] = 0 \/ opts.series THEN evdir ELSE evdir + Light(pos)
    /\ Step(AfterDirect)
    /\ UNCHANGED <<pic, opts, gsn, igs, npix, zone, last, i, imax, start, change, peak, image>>

(* Zones: the pixels of a source that lie in a zone become a source of     *)
(* their own, one per source and zone.  The direct light of the pixel goes *)
(* to the source that was made last, whichever zone and source it is of.   *)
ZoneOf(p) ==
    LET d == Distance(pic, 1, X(pic, p), Y(pic, p))
    IN IF d <= Zone1 THEN 1 ELSE IF opts.zones = 2 /\ d <= Zone2 THEN 2 ELSE 0

(* A mutation of LightMoved: the old source keeps the light. *)
LightDoubled(t, p, from, to) == Lit(t, to, Light(p))

LightMoved(t, p, from, to) == Lit(Lit(t, from, -Light(p)), to, Light(p))

ZonePixel ==
    /\ phase = "zones"
    /\ LET g == gsn[pos]
           z == ZoneOf(pos)
           new == IF zone[g][z] = 0 THEN igs + 1 ELSE zone[g][z]
       IN IF g = 0 \/ z = 0 THEN UNCHANGED <<gsn, igs, npix, tab, zone>>
          ELSE /\ new <= MaxSources
               /\ igs' = Larger(igs, new)
               /\ gsn' = [gsn EXCEPT ![pos] = new]
               /\ npix' = Recounted(g, new)
               /\ tab' = LightMoved(Moved(tab, pos, g, new), pos, g, igs')
               /\ zone' = IF zone[g][z] # 0 THEN zone
                          ELSE [zone EXCEPT ![g][z] = new, ![new] = [k \in 1 .. 2 |-> -z]]
    /\ Step("done")
    /\ UNCHANGED <<pic, opts, last, i, imax, start, change, peak, evdir, image>>

----------------------------------------------------------------------------
(* A series: the sources of an image are printed, their counts and angles  *)
(* cleared (not their lum_max), and the next image is copied into the same *)
(* picture with all labels removed.                                        *)
Cleared(t) == [g \in Sources |-> IF g <= igs THEN [t[g] EXCEPT !.omega = 0] ELSE t[g]]

SeriesPictures == {j.pic : j \in {k \in Jobs : k.opts.series}}

Output ==
    /\ phase = "out"
    /\ npix' = [g \in Sources |-> IF g <= igs THEN 0 ELSE npix[g]]
    /\ tab' = Cleared(tab)
    /\ igs' = 0
    /\ gsn' = [p \in Pixels(pic) |-> 0]
    /\ last' = 0
    /\ \/ /\ image < MaxImages
          /\ image' = image + 1
          /\ pic' \in {q \in SeriesPictures : q.w = pic.w /\ q.h = pic.h}
          /\ phase' = "scan"
       \/ /\ image = MaxImages
          /\ phase' = "done"
          /\ UNCHANGED <<image, pic>>
    /\ UNCHANGED <<opts, pos, zone, i, imax, start, change, peak, evdir>>

Finished == phase = "done" /\ UNCHANGED vars

Next ==
    \/ ScanSource \/ ScanDark \/ SecondPixel
    \/ SmoothPixel \/ NoSmoothing
    \/ BeginSplit \/ ChooseSource \/ PeakPixel \/ JoinPixel
    \/ NoDirect \/ DirectPixel \/ ZonePixel
    \/ Output \/ Finished

(* One thread without input goes on until it ends: WF_vars(Next), written  *)
(* without ENABLED, since some step is enabled until then (the runs check  *)
(* for deadlock).                                                          *)
Progress == []<>(phase = "done") \/ []<><<Next>>_vars

Spec == Init /\ [][Next]_vars /\ Progress

----------------------------------------------------------------------------
(* Every variable has its shape, and no pixel has the label of a source    *)
(* that is not in use: labels index the table without any check.           *)
Entry == [omega : Int, lmax : Int, direct : Int]

TypeOK ==
    /\ IsPicture(pic)
    /\ opts \in Options
    /\ phase \in Phases
    /\ pos \in Pixels(pic)
    /\ igs \in 0 .. MaxSources
    /\ gsn \in [Pixels(pic) -> 0 .. igs]
    /\ npix \in [Sources -> Int]
    /\ tab \in [Sources -> Entry]
    /\ zone \in [Sources -> [1 .. 2 -> -2 .. igs]]
    /\ last \in 0 .. igs
    /\ imax \in 0 .. MaxSources /\ i \in 1 .. imax + 1 /\ start \in Nat
    /\ change \in BOOLEAN
    /\ peak \in Int /\ evdir \in Int
    /\ image \in 1 .. MaxImages

(* The table and the labels agree, whatever was combined, split or carried *)
(* over from an image before: npix counts the pixels of the source.  Only  *)
(* smoothing counts a pixel for several sources.                           *)
TableMatchesPicture ==
    \A g \in 1 .. igs :
        /\ npix[g] >= Cardinality(PixelsOf(g))
        /\ ~Smoothing => npix[g] = Cardinality(PixelsOf(g))

(* The outermost rows of its circle, where a row is much shorter than the  *)
(* one before it, a search may miss: it sees what is within 2 / sqrt(5) of *)
(* the radius, and everything while the radius is small.  (The numbers are *)
(* squares, as those of Distance.)                                         *)
InSight(r2, d2, small) == r2 < small \/ 5 * d2 <= 4 * r2

(* The second scan leaves no two bright pixels near each other that belong *)
(* to sources of different size: "combine glare sources facing each        *)
(* other".  Sources of the same size stay apart, and so may sources whose  *)
(* distance is almost the radius, from a radius of three pixels on.        *)
FacingSourcesMerged ==
    (phase = "smooth" /\ pos = 1 /\ SecondScan) =>
        \A p, q \in Pixels(pic) :
            (/\ gsn[p] # 0 /\ gsn[q] # 0 /\ Near(pic, opts.r2, p, q)
             /\ InSight(opts.r2, Distance(pic, p, X(pic, q), Y(pic, q)), 9)) =>
                tab[gsn[p]].omega = tab[gsn[q]].omega

(* The first scan starts a new source only where no labelled pixel is near: *)
(* the search misses none, though it enters a row where the last one ended, *)
(* but for the outermost rows from a radius of five pixels on.              *)
FreshSourcesAreFar ==
    [][(phase = "scan" /\ igs' > igs) =>
          \A q \in Pixels(pic) :
              (gsn[q] # 0 /\ InSight(opts.r2, Square(Y(pic, pos) - Y(pic, q)), 25)) =>
                  ~Near(pic, opts.r2, pos, q)]_vars

(* After the extraction a source holds either peaks or none: the sources   *)
(* made by it have all labelled pixels at or above the limit.              *)
PeaksSeparated ==
    (phase = "direct" /\ Splitting) =>
        \A p \in Pixels(pic) : gsn[p] # 0 => (gsn[p] > imax <=> pic.lum[p] >= Limit)

LabelledLight(S) == SumFunction([p \in S |-> IF gsn[p] = 0 THEN 0 ELSE Light(p)])
DirectLight == SumFunction([g \in 1 .. igs |-> tab[g].direct])

(* At the end no light is lost or counted twice: the direct light of the   *)
(* sources adds up to E_v_dir, and without zones it is for every source    *)
(* the light of its own pixels; without smoothing so is its solid angle.   *)
LightConserved ==
    (phase = "done" /\ ~opts.series) =>
        /\ Calcfast # 1 => /\ DirectLight = evdir
                           /\ evdir = LabelledLight(Pixels(pic))
                           /\ opts.zones = 0 =>
                                \A g \in 1 .. igs : tab[g].direct = LabelledLight(PixelsOf(g))
        /\ ~Smoothing => \A g \in 1 .. igs : tab[g].omega = AngleOf(PixelsOf(g))

(* The light of a pixel in a zone goes to the source of that zone. *)
ZonesMoveDirect ==
    (phase = "done" /\ opts.zones # 0 /\ Calcfast # 1) =>
        \A g \in 1 .. igs : tab[g].direct = LabelledLight(PixelsOf(g))

(* The scans end: a pass that combines sources empties one of them. *)
Terminates == <>(phase = "done")
=============================================================================
