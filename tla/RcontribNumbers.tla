--------------------------- MODULE RcontribNumbers ---------------------------
(***************************************************************************)
(* How the ray numbers of the controller (rc3_mod.c: lastray, lastdone,    *)
(* the indices in kida and in out_bq) are those of the rows of the call:   *)
(* the inductive invariant behind the answers a call returns.              *)
(*                                                                         *)
(* A call with -c 1 has rows of any kind but "tiny"; with a larger -c,     *)
(* which is the same in all calls, all rows are rays.                      *)
(***************************************************************************)
EXTENDS RcontribCall

DocumentedUse ==
  \E a \in Accumulates : /\ Accumulates = {a}
                         /\ a = 1 => "tiny" \notin Kinds
                         /\ a > 1 => Kinds \subseteq {"ray"}

(* Ray m of a call belongs to this row, and these are the rays of row r. *)
RowOf(m, a) == (m - 1) \div a + 1
RowNumbers(r, a) == ((r - 1) * a + 1)..(r * a)

(* The sum of n rays of call c, numbered from m or, of a row, those of R. *)
SumFrom(m, n, c) == [rays |-> {<<c, x>> : x \in m..(m + n - 1)}, n |-> n]
SumOver(R, n, c) == [rays |-> {<<c, x>> : x \in R}, n |-> n]

-----------------------------------------------------------------------------
(***************************************************************************)
(* Entries of the queue, when ray 0 of call c with the rows vs would have  *)
(* the number b: the rays of its row an entry stands for, the first of     *)
(* which gives it its index.                                               *)
(***************************************************************************)
Entries == [ndx : Nat, nadded : Nat, sum : Sums(RayIds)]

Covered(e, b, a) ==
  IF a = 1 THEN {e.ndx - b} ELSE {x[2] : x \in e.sum.rays}

EntryRow(e, b, a) == RowOf(e.ndx - b, a)

RowSum(r, R, n, c, vs) ==
  IF vs[r] = "ray" THEN SumOver(R, n, c) ELSE BlackSum

EntryOK(e, b, a, c, vs) ==
  LET r == EntryRow(e, b, a)
  IN  /\ e \in Entries /\ r \in 1..Len(vs)
      /\ e.ndx - b \in Covered(e, b, a)
      /\ Covered(e, b, a) \subseteq (e.ndx - b)..(r * a)
      /\ Cardinality(Covered(e, b, a)) = e.nadded
      /\ e.sum = RowSum(r, Covered(e, b, a), e.nadded, c, vs)

QueueOK(bq, b, a, c, vs) ==
  /\ bq \in Seq(Entries)
  /\ \A k \in 1..Len(bq) : EntryOK(bq[k], b, a, c, vs)
  /\ \A j, k \in 1..Len(bq) :
       j < k => EntryRow(bq[j], b, a) < EntryRow(bq[k], b, a)

CoveredBy(bq, b, a) == UNION {Covered(bq[k], b, a) : k \in 1..Len(bq)}

-----------------------------------------------------------------------------
(***************************************************************************)
(* A zero ray that was fed and is not counted yet; the rays of the call    *)
(* that are; and what lastray was before them.                             *)
(***************************************************************************)
Pending ==
  /\ zray
  /\ \/ pc \in {"zero", "restart"}
     \/ pc \in {"next", "poll", "block", "read", "send"} /\ why # "drain"

Sent == fed - Len(inq) - (IF Pending THEN 1 ELSE 0)
Base == lastray - Sent

Parallel ==
  pc \in {"fork", "feed", "next", "poll", "block", "read", "send", "zero",
          "restart", "close"}

Draining ==
  \/ pc = "close"
  \/ pc \in {"next", "block", "read"} /\ why = "drain"

RowsDone == Len(output_values)

AnswersInOrder ==
  /\ output_values \in Seq(Sums(RayIds))
  /\ \A k \in 1..RowsDone : output_values[k] = Answer(k)

(* lastray and lastdone count the rays of the call, by whole rows. *)
CountersInv ==
  /\ Sent \in Nat /\ fed <= RayCount
  /\ lastdone \in Nat /\ lastdone = Base + RowsDone * accumulate
  /\ Base % accumulate = 0
  /\ RowsDone <= Len(vecs) /\ RowsDone * accumulate <= Sent
  /\ Draining => fed = RayCount /\ inq = <<>>
  /\ pc = "fork" => fed = 0 /\ inq = <<>> /\ ~zray
  /\ Pending => accumulate = 1 /\ fed > 0 /\ vecs[fed] = "zero"
  /\ \/ pc \in {"zero", "restart"}
     \/ pc \in {"next", "block", "read"} /\ why = "zero"
     => zray
  /\ pc \in {"restart", "close"} => RowsDone * accumulate = Sent

(* The batch is of the next rays, and of one row. *)
BatchNumbersInv ==
  /\ \A k \in 1..Len(inq) : inq[k] = <<calls, Sent + k>>
  /\ inq # <<>> => lastray \div accumulate = (lastray + Len(inq) - 1) \div accumulate
  /\ pc = "feed" => lastray \div accumulate = (lastray + Len(inq)) \div accumulate

(* The rays a child works on, and how far it has come. *)
First(i) == kida[i].r1 - Base
Work(i) == First(i)..(First(i) + kida[i].nr - 1)

ReadSoFar(i) == kida[i].nr - (Len(to[i]) - Ending)

WorkInv ==
  \A i \in Busy :
    /\ First(i) > RowsDone * accumulate /\ First(i) + kida[i].nr - 1 <= Sent
    /\ RowOf(First(i), accumulate) = RowOf(First(i) + kida[i].nr - 1, accumulate)
    /\ vecs[RowOf(First(i), accumulate)] = "ray"
    /\ \A j \in Busy : j # i => (Work(i) \cap Work(j)) = {}
    /\ kid[i] \in {"start", "run"} /\ to[i] # <<>> =>
         /\ \A k \in 1..(Len(to[i]) - Ending) :
              to[i][k] = <<calls, First(i) + ReadSoFar(i) + k - 1>>
         /\ sum[i] = SumFrom(First(i), ReadSoFar(i), calls)
    /\ kid[i] = "write" => sum[i] = SumFrom(First(i), kida[i].nr, calls)
    /\ from[i] # <<>> => from[i][1] = SumFrom(First(i), kida[i].nr, calls)

(* Rays sent and not output are with one child or in one entry. *)
InQueue == CoveredBy(out_bq, Base, accumulate)
AtWork == UNION {Work(i) : i \in Busy}

OutstandingInv ==
  /\ QueueOK(out_bq, Base, accumulate, calls, vecs)
  /\ (InQueue \cup AtWork) = (RowsDone * accumulate + 1)..Sent
  /\ (InQueue \cap AtWork) = {}

(* The single process counts both down and up as it goes. *)
SoloInv ==
  /\ fed <= RayCount /\ RowsDone = fed \div accumulate
  /\ account = accumulate - (fed % accumulate)
  /\ cbin = IF fed % accumulate > 0 /\ Kind(<<calls, fed>>) = "ray"
            THEN SumFrom(RowsDone * accumulate + 1, fed % accumulate, calls)
            ELSE BlackSum
  /\ (lastray - fed) % accumulate = 0

(* Between calls nothing is left over. *)
IdleInv ==
  /\ lastray % accumulate = 0
  /\ calls > 0 => RowsDone = Len(vecs)

Numbered ==
  pc # "exit" =>
    /\ AnswersInOrder
    /\ pc = "idle" => IdleInv
    /\ pc = "solo" => SoloInv
    /\ pc \in {"idle", "solo"} => lastdone = lastray /\ out_bq = <<>>
    /\ pc # "solo" => cbin = BlackSum
    /\ Parallel => CountersInv /\ BatchNumbersInv /\ WorkInv /\ OutstandingInv
=============================================================================
