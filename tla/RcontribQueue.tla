--------------------------- MODULE RcontribQueue ---------------------------
(***************************************************************************)
(* The output queue of the parallel rcontrib controller (rc3_mod.c): the   *)
(* linked list out_bq as a sequence of entries, and the operations on it.  *)
(*                                                                         *)
(* An entry is a BINQ: the index of its first ray, the number of rays      *)
(* accumulated in it, and the colours accumulated in its bins.  Colours    *)
(* are added and never looked at, so a sum is abstracted to the rays that  *)
(* were added and how many additions there were: a ray added twice shows   *)
(* in n, a ray missing or foreign shows in rays.                           *)
(***************************************************************************)
EXTENDS Integers, Sequences, FiniteSets, SequencesExt

Sums(Rays) == [rays : SUBSET Rays, n : Nat]

BlackSum == [rays |-> {}, n |-> 0]

RaySum(ray) == [rays |-> {ray}, n |-> 1]

AddSum(a, b) == [rays |-> a.rays \cup b.rays, n |-> a.n + b.n]

NewEntry(ndx, nadded, sum) == [ndx |-> ndx, nadded |-> nadded, sum |-> sum]

(***************************************************************************)
(* add_modbin: sum one record into another, which keeps its index.         *)
(***************************************************************************)
AddModbin(dst, src) ==
  NewEntry(dst.ndx, dst.nadded + src.nadded, AddSum(dst.sum, src.sum))

(***************************************************************************)
(* The group of a ray index: the accumulation record it belongs to.        *)
(***************************************************************************)
Group(ndx, accumulate) == (ndx - 1) \div accumulate

(* A mutation of Insert: results are queued in the order they arrive. *)
InsertLast(bq, bp) == Append(bq, bp)

(***************************************************************************)
(* queue_output's insertion: before the first entry whose index is not     *)
(* smaller.                                                                *)
(***************************************************************************)
Insert(bq, bp) ==
  LET smaller == {k \in DOMAIN bq : \A j \in 1..k : bq[j].ndx < bp.ndx}
  IN  InsertAt(bq, Cardinality(smaller) + 1, bp)

(***************************************************************************)
(* queue_output's merge pass: b_cur, the last entry of merged, absorbs its *)
(* successor unless it is full or the successor is of another group.       *)
(***************************************************************************)
Absorbs(cur, next, accumulate) ==
  /\ cur.nadded < accumulate
  /\ Group(cur.ndx, accumulate) = Group(next.ndx, accumulate)

MergeNext(merged, next, accumulate) ==
  IF merged # <<>> /\ Absorbs(Last(merged), next, accumulate)
  THEN Front(merged) \o <<AddModbin(Last(merged), next)>>
  ELSE Append(merged, next)

Merge(bq, accumulate) ==
  LET merged[k \in 0..Len(bq)] ==
        IF k = 0 THEN <<>> ELSE MergeNext(merged[k - 1], bq[k], accumulate)
  IN  merged[Len(bq)]

(* A mutation of QueueOutput: parts of one record are not merged. *)
QueueUnmerged(bq, bp, accumulate) == Insert(bq, bp)

QueueOutput(bq, bp, accumulate) ==
  IF accumulate = 1 THEN Insert(bq, bp) ELSE Merge(Insert(bq, bp), accumulate)

(***************************************************************************)
(* queue_ready: how many leading entries are complete and next in line     *)
(* after the last ray that was output.                                     *)
(***************************************************************************)
IsReady(bq, k, lastdone, accumulate) ==
  /\ bq[k].nadded >= accumulate
  /\ bq[k].ndx = lastdone + (k - 1) * accumulate + 1

QueueReady(bq, lastdone, accumulate) ==
  Cardinality({k \in DOMAIN bq :
                 \A j \in 1..k : IsReady(bq, j, lastdone, accumulate)})

(***************************************************************************)
(* output_catchup(nmax) pops the heads that are ready, at most nmax of     *)
(* them when nmax is positive; this is how many it pops.                   *)
(***************************************************************************)
Catchup(bq, nmax, lastdone, accumulate) ==
  LET ready == QueueReady(bq, lastdone, accumulate)
  IN  IF nmax > 0 /\ nmax < ready THEN nmax ELSE ready
=============================================================================
