------------------------ MODULE RcontribAnswersProofs ------------------------
(***************************************************************************)
(* Proofs that a call of Rcontrib returns the answers of its rows, in      *)
(* order, whatever the number of children and the order in which they      *)
(* work and fail: the invariant Numbered is inductive together with TypeOK *)
(* and InStep.                                                             *)
(***************************************************************************)
EXTENDS RcontribQueueProofs, RcontribCallProofs

Given == Assumption /\ DocumentedUse /\ TypeOK /\ InStep /\ Numbered

(* What the documented use says of the value -c has in all calls. *)
LEMMA OneAccumulate ==
  ASSUME Assumption, DocumentedUse, TypeOK
  PROVE  /\ accumulate \in Nat \ {0} /\ Accumulates = {accumulate}
         /\ "tiny" \notin Kinds
         /\ accumulate > 1 => Kinds \subseteq {"ray"}
<1>1. PICK a \in Accumulates : /\ Accumulates = {a}
                               /\ a = 1 => "tiny" \notin Kinds
                               /\ a > 1 => Kinds \subseteq {"ray"}
  BY DEF DocumentedUse
<1>2. accumulate = a /\ a \in Nat \ {0}
  BY <1>1 DEF TypeOK, Assumption
<1>3. a = 1 \/ a > 1
  BY <1>2
<1>. QED BY <1>1, <1>2, <1>3

LEMMA CallFacts ==
  ASSUME Given
  PROVE  /\ accumulate \in Nat \ {0} /\ Accumulates = {accumulate}
         /\ "tiny" \notin Kinds
         /\ accumulate > 1 => Kinds \subseteq {"ray"}
         /\ vecs \in Seq(Kinds) /\ Len(vecs) \in Nat /\ calls \in 0..MaxCalls
         /\ pc # "idle" => calls \in 1..MaxCalls
         /\ fed \in Nat /\ lastray \in Nat /\ inq \in Seq(RayIds)
         /\ Len(inq) \in Nat /\ zray \in BOOLEAN
<1>1. Assumption /\ DocumentedUse /\ TypeOK /\ InStep
  BY DEF Given
<1>2. /\ accumulate \in Nat \ {0} /\ Accumulates = {accumulate}
      /\ "tiny" \notin Kinds
      /\ accumulate > 1 => Kinds \subseteq {"ray"}
  BY <1>1, OneAccumulate
<1>3. /\ vecs \in Seq(Kinds) /\ Len(vecs) \in Nat /\ calls \in 0..MaxCalls
      /\ fed \in Nat /\ lastray \in Nat /\ inq \in Seq(RayIds)
      /\ Len(inq) \in Nat /\ zray \in BOOLEAN
  BY <1>1 DEF TypeOK
<1>4. pc # "idle" => calls > 0
  BY <1>1 DEF InStep, ForkInv
<1>5. MaxCalls \in Nat
  BY <1>1 DEF Assumption
<1>. QED BY <1>2, <1>3, <1>4, <1>5

(* The counters of a call with children. *)
LEMMA ParallelFacts ==
  ASSUME Given, Parallel
  PROVE  /\ AnswersInOrder /\ cbin = BlackSum
         /\ CountersInv /\ BatchNumbersInv /\ WorkInv /\ OutstandingInv
         /\ Sent \in Nat /\ Base \in Int /\ lastray = Base + Sent
         /\ RowsDone \in 0..Len(vecs) /\ RowsDone \in Nat
         /\ RowsDone * accumulate \in Nat /\ RowsDone * accumulate <= Sent
         /\ lastdone = Base + RowsDone * accumulate /\ lastdone \in Int
         /\ Base % accumulate = 0
         /\ pc # "exit" /\ pc # "idle" /\ pc # "solo"
         /\ Numbering(Base, accumulate, calls, vecs)
<1>1. pc # "exit" /\ pc # "idle" /\ pc # "solo"
  BY DEF Parallel
<1>2. /\ AnswersInOrder /\ cbin = BlackSum
      /\ CountersInv /\ BatchNumbersInv /\ WorkInv /\ OutstandingInv
  BY <1>1 DEF Given, Numbered
<1>3. Sent \in Nat /\ lastray \in Nat /\ accumulate \in Nat \ {0} /\ Len(vecs) \in Nat
  BY <1>2, CallFacts DEF CountersInv
<1>4. Base \in Int /\ lastray = Base + Sent
  BY <1>3 DEF Base
<1>5. RowsDone \in Nat
  BY <1>2 DEF AnswersInOrder, RowsDone
<1>6. RowsDone <= Len(vecs) /\ RowsDone * accumulate <= Sent
      /\ lastdone = Base + RowsDone * accumulate /\ Base % accumulate = 0
  BY <1>2 DEF CountersInv
<1>7. RowsDone * accumulate \in Nat
  BY <1>3, <1>5
<1>8. Numbering(Base, accumulate, calls, vecs)
  BY <1>1, <1>3, <1>4, <1>6, CallFacts DEF Numbering
<1>9. lastdone \in Int
  BY <1>4, <1>6, <1>7
<1>. QED BY <1>1, <1>2, <1>3, <1>4, <1>5, <1>6, <1>7, <1>8, <1>9

(* What is said of a call in parallel is what has to be shown of it. *)
LEMMA ToParallel ==
  ASSUME (pc \notin {"exit", "idle", "solo"})', UNCHANGED cbin, cbin = BlackSum,
         AnswersInOrder', CountersInv', BatchNumbersInv', WorkInv',
         OutstandingInv'
  PROVE  Numbered'
BY DEF Numbered

-----------------------------------------------------------------------------
(* Steps that leave the assignments of the children as they are. *)
SameWork ==
  UNCHANGED <<accumulate, vecs, calls, nchild, kida, kid, to, from, sum>>

LEMMA SameWorkFacts ==
  ASSUME SameWork, Base' = Base
  PROVE  /\ Busy' = Busy /\ AtWork' = AtWork
         /\ \A i : First(i)' = First(i) /\ Work(i)' = Work(i)
                    /\ ReadSoFar(i)' = ReadSoFar(i)
         /\ \A r : Answer(r)' = Answer(r)
         /\ Len(vecs') = Len(vecs)
<1>1. Busy' = Busy
  BY DEF SameWork, Busy
<1>2. \A i : First(i)' = First(i)
  BY DEF SameWork, First
<1>3. \A i : Work(i)' = Work(i)
  BY <1>2 DEF SameWork, Work
<1>4. \A i : ReadSoFar(i)' = ReadSoFar(i)
  BY DEF SameWork, ReadSoFar, Ending
<1>5. AtWork' = AtWork
  BY <1>1, <1>3 DEF AtWork
<1>6. \A r : Answer(r)' = Answer(r)
  BY DEF SameWork, Answer, RowRays
<1>. QED BY <1>1, <1>2, <1>3, <1>4, <1>5, <1>6 DEF SameWork

(* More rows may have been output, if the children work on later ones. *)
LEMMA SameWorkInv ==
  ASSUME SameWork, Base' = Base, Sent' = Sent, WorkInv,
         \A i \in Busy : First(i) > RowsDone' * accumulate
  PROVE  WorkInv'
<1>. DEFINE Later(i) == First(i) > RowsDone * accumulate
<1>1. /\ Busy' = Busy
      /\ \A i : First(i)' = First(i) /\ Work(i)' = Work(i)
                 /\ ReadSoFar(i)' = ReadSoFar(i)
  BY SameWorkFacts
<1>2. UNCHANGED <<accumulate, vecs, calls, kida, kid, to, from, sum>>
  BY DEF SameWork
<1>3. \A i \in Busy :
        /\ First(i)' > RowsDone' * accumulate'
        /\ First(i)' + kida'[i].nr - 1 <= Sent'
        /\ RowOf(First(i)', accumulate') = RowOf(First(i)' + kida'[i].nr - 1, accumulate')
        /\ vecs'[RowOf(First(i)', accumulate')] = "ray"
        /\ \A j \in Busy : j # i => (Work(i)' \cap Work(j)') = {}
  BY <1>1, <1>2 DEF WorkInv
<1>4. Ending' = Ending
  BY <1>2 DEF Ending
<1>5. \A i \in Busy :
        /\ kid'[i] \in {"start", "run"} /\ to'[i] # <<>> =>
             /\ \A k \in 1..(Len(to'[i]) - Ending') :
                  to'[i][k] = <<calls', First(i)' + ReadSoFar(i)' + k - 1>>
             /\ sum'[i] = SumFrom(First(i)', ReadSoFar(i)', calls')
        /\ kid'[i] = "write" => sum'[i] = SumFrom(First(i)', kida'[i].nr, calls')
        /\ from'[i] # <<>> => from'[i][1] = SumFrom(First(i)', kida'[i].nr, calls')
  BY <1>1, <1>2, <1>4 DEF WorkInv
<1>. QED BY <1>1, <1>3, <1>5 DEF WorkInv

LEMMA SameOutstanding ==
  ASSUME SameWork, Base' = Base, Sent' = Sent, OutstandingInv,
         UNCHANGED <<out_bq, output_values>>
  PROVE  OutstandingInv'
<1>1. AtWork' = AtWork /\ RowsDone' = RowsDone
  BY SameWorkFacts DEF RowsDone
<1>2. InQueue' = InQueue
  BY DEF InQueue, SameWork
<1>3. UNCHANGED <<accumulate, vecs, calls>>
  BY DEF SameWork
<1>. QED BY <1>1, <1>2, <1>3 DEF OutstandingInv

LEMMA SameAnswers ==
  ASSUME SameWork, AnswersInOrder, UNCHANGED output_values
  PROVE  AnswersInOrder' /\ RowsDone' = RowsDone
<1>1. RowsDone' = RowsDone
  BY DEF RowsDone
<1>2. \A r : Answer(r)' = Answer(r)
  BY DEF SameWork, Answer, RowRays
<1>. QED BY <1>1, <1>2 DEF AnswersInOrder

(* Steps of the controller that move on without counting or writing. *)
LEMMA MoveOn ==
  ASSUME Given, Parallel, SameWork, Base' = Base, Sent' = Sent,
         UNCHANGED <<out_bq, output_values, cbin>>,
         (pc \notin {"exit", "idle", "solo"})', CountersInv', BatchNumbersInv'
  PROVE  Numbered'
<1>1. AnswersInOrder /\ WorkInv /\ OutstandingInv /\ cbin = BlackSum
  BY ParallelFacts
<1>2. AnswersInOrder' /\ RowsDone' = RowsDone
  BY <1>1, SameAnswers
<1>3. \A i \in Busy : First(i) > RowsDone' * accumulate
  BY <1>1, <1>2 DEF WorkInv
<1>4. WorkInv'
  BY <1>1, <1>3, SameWorkInv
<1>5. OutstandingInv'
  BY <1>1, SameOutstanding
<1>. QED BY <1>1, <1>2, <1>4, <1>5, ToParallel

-----------------------------------------------------------------------------
(* Nothing has been counted before the first call. *)
LEMMA NumberedInit ==
  ASSUME Assumption, DocumentedUse, Init
  PROVE  Numbered
<1>1. /\ pc = "idle" /\ calls = 0 /\ lastray = 0 /\ lastdone = 0
      /\ out_bq = <<>> /\ output_values = <<>> /\ cbin = BlackSum
      /\ accumulate \in Accumulates
  BY DEF Init
<1>2. accumulate \in Nat \ {0}
  BY <1>1 DEF Assumption
<1>3. RowsDone = 0
  BY <1>1 DEF RowsDone
<1>4. AnswersInOrder
  BY <1>1, <1>3, EmptySeq DEF AnswersInOrder
<1>5. lastray % accumulate = 0
  BY <1>1, <1>2
<1>6. IdleInv
  BY <1>1, <1>5 DEF IdleInv
<1>. QED BY <1>1, <1>4, <1>6 DEF Numbered, Parallel

(* There is one value of -c, so initializing again changes -n only. *)
LEMMA NumberedReinitialize ==
  ASSUME Given, NEW n \in Nprocs, NEW a \in Accumulates, Reinitialize(n, a)
  PROVE  Numbered'
<1>1. accumulate' = accumulate
  BY CallFacts DEF Reinitialize
<1>2. pc = "idle" /\ UNCHANGED <<pc, call, numbers, queue, solo>>
  BY DEF Reinitialize
<1>3. /\ UNCHANGED <<pc, vecs, calls, lastray, lastdone, out_bq, output_values, cbin>>
  BY <1>2 DEF call, numbers, queue, solo
<1>4. /\ AnswersInOrder /\ IdleInv /\ lastdone = lastray /\ out_bq = <<>>
      /\ cbin = BlackSum
  BY <1>2 DEF Given, Numbered
<1>5. AnswersInOrder' /\ IdleInv'
  BY <1>1, <1>3, <1>4 DEF AnswersInOrder, RowsDone, Answer, RowRays, IdleInv
<1>. QED BY <1>2, <1>3, <1>4, <1>5 DEF Numbered, Parallel

(* Between calls no child is left, and rays are counted from the last row. *)
LEMMA NumberedCall ==
  ASSUME Given, NEW rows \in Inputs, Call(rows)
  PROVE  Numbered'
<1>1. /\ pc = "idle" /\ vecs' = rows /\ calls' = calls + 1 /\ fed' = 0
      /\ output_values' = <<>> /\ account' = accumulate
      /\ inq' = <<>> /\ zray' = FALSE
      /\ pc' \in {"fork", "solo"}
      /\ UNCHANGED <<why, accumulate, nchild, kida, lastray, lastdone, out_bq,
                     cbin, kid, to, from, sum>>
  BY DEF Call, numbers, children
<1>2. /\ IdleInv /\ lastdone = lastray /\ out_bq = <<>> /\ cbin = BlackSum
  BY <1>1 DEF Given, Numbered
<1>3. accumulate \in Nat \ {0} /\ lastray \in Nat /\ lastray % accumulate = 0
  BY <1>2, CallFacts DEF IdleInv
<1>4. nchild' = 0
  BY <1>1 DEF Given, InStep, ForkInv
<1>5. Busy' = {}
  BY <1>4 DEF Busy
<1>6. RowsDone' = 0 /\ AnswersInOrder'
  <2>1. RowsDone' = 0
    BY <1>1 DEF RowsDone
  <2>. QED BY <1>1, <2>1, EmptySeq DEF AnswersInOrder
<1>7. Len(vecs') \in Nat
  BY <1>1 DEF Inputs
<1>8. CASE pc' = "solo"
  <2>1. /\ 0 <= Len(vecs') * accumulate /\ 0 \div accumulate = 0
        /\ 0 % accumulate = 0 /\ accumulate - 0 = accumulate
        /\ lastray - 0 = lastray
    BY <1>3, <1>7, QuotientIs
  <2>2. SoloInv'
    BY <1>1, <1>2, <1>3, <1>6, <2>1 DEF SoloInv, RayCount
  <2>. QED BY <1>1, <1>2, <1>6, <1>8, <2>2 DEF Numbered, Parallel
<1>9. CASE pc' = "fork"
  <2>1. ~Pending'
    BY <1>1 DEF Pending
  <2>2. Sent' = 0
    <3>1. Len(inq') = 0
      BY <1>1
    <3>2. Sent' = fed' - Len(inq') - 0
      BY <2>1 DEF Sent
    <3>. QED BY <1>1, <3>1, <3>2
  <2>3. Base' = lastray
    BY <1>1, <1>3, <2>2 DEF Base
  <2>4. CountersInv'
    <3>1. fed' <= RayCount'
      BY <1>1, <1>3, <1>7 DEF RayCount
    <3>2. 0 * accumulate = 0 /\ lastray + 0 * accumulate = lastray
      BY <1>3
    <3>3. ~Draining'
      BY <1>9 DEF Draining
    <3>. QED BY <1>1, <1>2, <1>3, <1>6, <1>7, <1>9, <2>1, <2>2, <2>3, <3>1, <3>2, <3>3
             DEF CountersInv
  <2>5. BatchNumbersInv'
    BY <1>1, <1>9 DEF BatchNumbersInv
  <2>6. WorkInv'
    BY <1>5 DEF WorkInv
  <2>7. OutstandingInv'
    <3>1. AtWork' = {}
      BY <1>5 DEF AtWork
    <3>2. InQueue' = {}
      BY <1>1, <1>2 DEF InQueue, CoveredBy
    <3>3. (RowsDone' * accumulate' + 1)..Sent' = {}
      BY <1>1, <1>3, <1>6, <2>2
    <3>4. QueueOK(out_bq', Base', accumulate', calls', vecs')
      BY <1>1, <1>2, EmptySeq DEF QueueOK
    <3>. QED BY <3>1, <3>2, <3>3, <3>4 DEF OutstandingInv
  <2>. QED BY <1>1, <1>2, <1>6, <1>9, <2>4, <2>5, <2>6, <2>7, ToParallel
<1>. QED BY <1>1, <1>8, <1>9

(* A child that has just been forked has nothing to do. *)
LEMMA NumberedFork ==
  ASSUME Given, Fork
  PROVE  Numbered'
<1>1. /\ pc = "fork" /\ pc' \in {"fork", "feed"} /\ nchild' = nchild + 1
      /\ kid' = [kid EXCEPT ![nchild] = "start"]
      /\ kida' = [kida EXCEPT ![nchild].nr = 0]
      /\ UNCHANGED <<why, accumulate, vecs, calls, fed, inq, zray, lastray,
                     lastdone, out_bq, output_values, cbin, to, from, sum>>
  BY DEF Fork, options, call, numbers, queue, solo
<1>2. Parallel
  BY <1>1 DEF Parallel
<1>3. fed = 0 /\ inq = <<>> /\ ~zray
  BY <1>1, <1>2, ParallelFacts DEF CountersInv
<1>4. ~Pending /\ ~Pending' /\ Sent' = Sent /\ Base' = Base
  BY <1>1, <1>3 DEF Pending, Sent, Base
<1>5. nchild \in Kids /\ nchild \in Nat /\ to[nchild] = <<>>
  <2>1. /\ nchild \in 0..MAXPROCESS /\ nproc \in 2..MAXPROCESS /\ nchild < nproc
        /\ MAXPROCESS \in Nat
    BY <1>1 DEF Given, Assumption, TypeOK, InStep, ForkInv
  <2>2. nchild \in Kids
    BY <2>1 DEF Kids
  <2>. QED BY <2>1, <2>2 DEF Given, InStep, ForkInv, Waiting
<1>6. kida \in [Kids -> [r1 : Nat, nr : Nat]] /\ kid \in [Kids -> KidStates]
  BY DEF Given, TypeOK
<1>7. \A i \in Kids : i # nchild => kida'[i] = kida[i] /\ kid'[i] = kid[i]
  BY <1>1, <1>6
<1>8. kida'[nchild].nr = 0
  BY <1>1, <1>5, <1>6
<1>9. Busy \subseteq Kids /\ nchild \notin Busy
  BY <1>5, ForkedKids DEF Given, Busy
<1>10. Busy' = Busy
  <2>1. 0..(nchild' - 1) = 0..(nchild - 1) \cup {nchild}
    BY <1>1, <1>5
  <2>2. \A i \in 0..(nchild - 1) : i \in Kids /\ i # nchild
    BY <1>5, ForkedKids DEF Given
  <2>. QED BY <1>7, <1>8, <2>1, <2>2 DEF Busy
<1>11. \A i \in Busy : /\ First(i)' = First(i) /\ Work(i)' = Work(i)
                       /\ ReadSoFar(i)' = ReadSoFar(i)
                       /\ kida'[i] = kida[i] /\ kid'[i] = kid[i]
  BY <1>1, <1>4, <1>7, <1>9 DEF First, Work, ReadSoFar, Ending
<1>12. RowsDone' = RowsDone /\ AnswersInOrder'
  BY <1>1, <1>2, ParallelFacts DEF RowsDone, AnswersInOrder, Answer, RowRays
<1>13. CountersInv'
  <2>1. ~Draining'
    BY <1>1 DEF Draining
  <2>2. CountersInv
    BY <1>2, ParallelFacts
  <2>. QED BY <1>1, <1>3, <1>4, <1>12, <2>1, <2>2 DEF CountersInv, RayCount
<1>14. BatchNumbersInv'
  <2>1. lastray \in Nat /\ Len(inq) = 0 /\ lastray + 0 = lastray
    BY <1>3, CallFacts
  <2>. QED BY <1>1, <1>3, <2>1 DEF BatchNumbersInv
<1>15. WorkInv'
  <2>1. WorkInv
    BY <1>2, ParallelFacts
  <2>2. Ending' = Ending
    BY <1>1 DEF Ending
  <2>3. \A i \in Busy :
          /\ First(i)' > RowsDone' * accumulate'
          /\ First(i)' + kida'[i].nr - 1 <= Sent'
          /\ RowOf(First(i)', accumulate') = RowOf(First(i)' + kida'[i].nr - 1, accumulate')
          /\ vecs'[RowOf(First(i)', accumulate')] = "ray"
          /\ \A j \in Busy : j # i => (Work(i)' \cap Work(j)') = {}
    BY <1>1, <1>4, <1>11, <1>12, <2>1 DEF WorkInv
  <2>4. \A i \in Busy :
          kid'[i] \in {"start", "run"} /\ to'[i] # <<>> =>
             /\ \A k \in 1..(Len(to'[i]) - Ending') :
                  to'[i][k] = <<calls', First(i)' + ReadSoFar(i)' + k - 1>>
             /\ sum'[i] = SumFrom(First(i)', ReadSoFar(i)', calls')
    BY <1>1, <1>11, <2>1, <2>2 DEF WorkInv
  <2>5. \A i \in Busy :
          /\ kid'[i] = "write" => sum'[i] = SumFrom(First(i)', kida'[i].nr, calls')
          /\ from'[i] # <<>> => from'[i][1] = SumFrom(First(i)', kida'[i].nr, calls')
    BY <1>1, <1>11, <2>1 DEF WorkInv
  <2>. QED BY <1>10, <2>3, <2>4, <2>5 DEF WorkInv
<1>16. OutstandingInv'
  <2>1. AtWork' = AtWork
    BY <1>10, <1>11 DEF AtWork
  <2>2. InQueue' = InQueue
    BY <1>1, <1>4 DEF InQueue
  <2>3. OutstandingInv
    BY <1>2, ParallelFacts
  <2>. QED BY <1>1, <1>4, <1>12, <2>1, <2>2, <2>3 DEF OutstandingInv
<1>. QED BY <1>1, <1>2, <1>12, <1>13, <1>14, <1>15, <1>16, ParallelFacts, ToParallel

-----------------------------------------------------------------------------
LEMMA MultipleIs ==
  ASSUME NEW a \in Nat \ {0}, NEW q \in Int
  PROVE  q * a \in Int /\ (q * a) \div a = q /\ (q * a) % a = 0
<1>. DEFINE x == q * a
<1>1. x \in Int /\ q * a <= x /\ x < q * a + a /\ x - q * a = 0
  OBVIOUS
<1>2. x \div a = q /\ x % a = x - q * a
  <2>. HIDE DEF x
  <2>. QED BY <1>1, QuotientIs
<1>. QED BY <1>1, <1>2

(* The ray to be fed is the next of the call, and of this row. *)
LEMMA NextRayNumber ==
  ASSUME Given, fed < RayCount
  PROVE  /\ Row(NextRay) = RowOf(fed + 1, accumulate)
         /\ Kind(NextRay) = vecs[RowOf(fed + 1, accumulate)]
         /\ Kind(NextRay) \in Kinds
         /\ accumulate = 1 => Kind(NextRay) = vecs[fed + 1]
<1>1. Row(NextRay) = RowOf(fed + 1, accumulate)
  BY DEF Row, NextRay, RowOf
<1>2. Row(NextRay) \in 1..Len(vecs)
  BY NextRowExists DEF Given
<1>3. Kind(NextRay) \in Kinds
  BY <1>2, CallFacts DEF Kind
<1>4. accumulate = 1 => RowOf(fed + 1, accumulate) = fed + 1
  BY CallFacts DEF RowOf
<1>. QED BY <1>1, <1>3, <1>4 DEF Kind

(* A ray joins the batch, or is a zero ray that waits to be counted. *)
LEMMA NumberedFeed ==
  ASSUME Given, Feed
  PROVE  Numbered'
<1>. DEFINE zero == Kind(NextRay) = "zero"
            batch == IF zero THEN inq ELSE Append(inq, NextRay)
<1>1. /\ pc = "feed" /\ fed < RayCount /\ fed' = fed + 1
      /\ inq' = batch /\ zray' = zero
      /\ UNCHANGED <<accumulate, vecs, calls, nchild, kida, lastray, lastdone,
                     out_bq, output_values, cbin, kid, to, from, sum>>
  BY DEF Feed, options, numbers, queue, solo, children
<1>2. /\ pc' \in {"next", "zero", "feed"}
      /\ pc' = "next" => why' = "pick"
      /\ pc' = "feed" => ~MustSend(batch, zero) /\ ~zero
      /\ zero => pc' # "feed"
      /\ pc' = "zero" => zero
  BY <1>1 DEF Feed
<1>3. Parallel /\ ~Pending
  BY <1>1 DEF Parallel, Pending
<1>4. /\ CountersInv /\ BatchNumbersInv /\ Sent \in Nat /\ Base \in Int
      /\ lastray = Base + Sent
  BY <1>3, ParallelFacts
<1>5. /\ fed \in Nat /\ Len(inq) \in Nat /\ inq \in Seq(RayIds)
      /\ accumulate \in Nat \ {0} /\ lastray \in Nat
  BY CallFacts
<1>6. Sent = fed - Len(inq)
  BY <1>3, <1>5 DEF Sent
<1>7. NextRay \in RayIds /\ NextRay = <<calls, fed + 1>>
  BY <1>1, NextRayTypes DEF Given, InStep, NextRay
<1>8. RayCount' = RayCount /\ RayCount \in Int
  BY <1>1, CallFacts DEF RayCount
<1>9. SameWork
  BY <1>1 DEF SameWork
<1>10. RowsDone' = RowsDone
  BY <1>1 DEF RowsDone
<1>11. ~Draining' /\ pc' \notin {"fork", "restart", "close"}
  BY <1>2 DEF Draining
<1>. HIDE DEF zero
<1>12. CASE zero
  <2>1. accumulate = 1 /\ vecs[fed'] = "zero"
    <3>1. Kind(NextRay) \in Kinds /\ Kind(NextRay) = "zero"
      BY <1>1, <1>12, NextRayNumber DEF zero
    <3>2. ~(accumulate > 1)
      BY <3>1, CallFacts
    <3>3. accumulate = 1
      BY <1>5, <3>2
    <3>. QED BY <1>1, <3>1, <3>3, NextRayNumber
  <2>2. Pending' /\ inq' = inq /\ zray'
    BY <1>1, <1>2, <1>12 DEF Pending
  <2>3. Sent' = Sent
    <3>1. Sent' = fed' - Len(inq') - 1
      BY <2>2 DEF Sent
    <3>. QED BY <1>1, <1>5, <1>6, <2>2, <3>1
  <2>4. Base' = Base
    BY <1>1, <2>3 DEF Base
  <2>5. CountersInv'
    <3>1. fed' <= RayCount' /\ fed' > 0
      BY <1>1, <1>5, <1>8
    <3>. QED BY <1>1, <1>4, <1>10, <1>11, <2>1, <2>2, <2>3, <2>4, <3>1 DEF CountersInv
  <2>6. BatchNumbersInv'
    BY <1>1, <1>2, <1>4, <1>12, <2>2, <2>3 DEF BatchNumbersInv
  <2>. QED BY <1>1, <1>2, <1>3, <1>9, <2>3, <2>4, <2>5, <2>6, MoveOn
<1>13. CASE ~zero
  <2>1. inq' = Append(inq, NextRay) /\ ~zray' /\ ~Pending'
    BY <1>1, <1>13 DEF Pending
  <2>2. /\ Len(inq') = Len(inq) + 1 /\ inq'[Len(inq) + 1] = NextRay
        /\ \A k \in 1..Len(inq) : inq'[k] = inq[k]
    BY <1>5, <1>7, <2>1
  <2>3. Sent' = Sent
    <3>1. Sent' = fed' - Len(inq') - 0
      BY <2>1 DEF Sent
    <3>. QED BY <1>1, <1>5, <1>6, <2>2, <3>1
  <2>4. Base' = Base
    BY <1>1, <2>3 DEF Base
  <2>5. CountersInv'
    <3>1. fed' <= RayCount'
      BY <1>1, <1>5, <1>8
    <3>. QED BY <1>1, <1>2, <1>4, <1>10, <1>11, <1>13, <2>1, <2>3, <2>4, <3>1 DEF CountersInv
  <2>6. BatchNumbersInv'
    <3>1. \A k \in 1..Len(inq') : inq'[k] = <<calls', Sent' + k>>
      <4>1. \A k \in 1..Len(inq) : inq'[k] = <<calls', Sent' + k>>
        BY <1>1, <1>4, <2>2, <2>3 DEF BatchNumbersInv
      <4>2. inq'[Len(inq) + 1] = <<calls', Sent' + (Len(inq) + 1)>>
        BY <1>1, <1>5, <1>6, <1>7, <2>2, <2>3
      <4>. QED BY <1>5, <2>2, <4>1, <4>2
    <3>2. lastray \div accumulate = (lastray + Len(inq)) \div accumulate
      BY <1>1, <1>4 DEF BatchNumbersInv
    <3>3. Len(inq') - 1 = Len(inq) /\ lastray + Len(inq') - 1 = lastray + Len(inq)
      BY <1>5, <2>2
    <3>4. pc' = "feed" => lastray \div accumulate = (lastray + Len(inq')) \div accumulate
      BY <1>1, <1>2, <1>13 DEF MustSend
    <3>. QED BY <1>1, <3>1, <3>2, <3>3, <3>4 DEF BatchNumbersInv
  <2>. QED BY <1>1, <1>2, <1>3, <1>9, <2>3, <2>4, <2>5, <2>6, MoveOn
<1>. QED BY <1>12, <1>13

(* The last ray ends a record: the batch was sent with it. *)
LEMMA NumberedFeedEnd ==
  ASSUME Given, FeedEnd
  PROVE  Numbered'
<1>1. /\ pc = "feed" /\ fed = RayCount /\ pc' = "next" /\ why' = "drain"
      /\ UNCHANGED <<accumulate, vecs, calls, fed, inq, zray, nchild, kida,
                     lastray, lastdone, out_bq, output_values, cbin, kid, to,
                     from, sum>>
  BY DEF FeedEnd, options, call, numbers, queue, solo, children
<1>2. Parallel /\ ~Pending /\ ~Pending'
  BY <1>1 DEF Parallel, Pending
<1>3. Sent' = Sent /\ Base' = Base
  BY <1>1, <1>2 DEF Sent, Base
<1>4. /\ CountersInv /\ BatchNumbersInv /\ Sent \in Nat /\ Base \in Int
      /\ lastray = Base + Sent /\ Base % accumulate = 0
  BY <1>2, ParallelFacts
<1>5. /\ fed \in Nat /\ Len(inq) \in Nat /\ accumulate \in Nat \ {0}
      /\ lastray \in Nat /\ Len(vecs) \in Nat
  BY CallFacts
<1>6. Sent = fed - Len(inq)
  BY <1>2, <1>5 DEF Sent
<1>7. inq = <<>>
  <2>. DEFINE n == Len(inq)  q == lastray \div accumulate  v == Len(vecs) * accumulate
  <2>1. q = (lastray + n) \div accumulate
    BY <1>1, <1>4 DEF BatchNumbersInv
  <2>2. lastray + n = Base + v /\ v \in Int
    BY <1>1, <1>4, <1>5, <1>6 DEF RayCount
  <2>3. v % accumulate = 0
    BY <1>5, MultipleIs
  <2>. HIDE DEF n, q, v
  <2>4. (lastray + n) % accumulate = 0
    BY <1>4, <1>5, <2>2, <2>3, QuotientOfSum
  <2>5. n \in Nat /\ lastray + n \in Int
    BY <1>5 DEF n
  <2>6. lastray + n = q * accumulate + 0
    BY <1>5, <2>1, <2>4, <2>5, Division
  <2>7. q * accumulate <= lastray
    <3>1. /\ lastray \div accumulate \in Int /\ lastray % accumulate \in 0..(accumulate - 1)
          /\ lastray = (lastray \div accumulate) * accumulate + (lastray % accumulate)
      BY <1>5, Division
    <3>2. (lastray \div accumulate) * accumulate \in Int
      BY <1>5, <3>1
    <3>. QED BY <1>5, <3>1, <3>2 DEF q
  <2>8. q * accumulate \in Int
    <3>1. lastray \div accumulate \in Int
      BY <1>5, Division
    <3>. QED BY <1>5, <3>1 DEF q
  <2>9. n = 0
    BY <1>5, <2>5, <2>6, <2>7, <2>8
  <2>. QED BY <2>9, CallFacts, EmptySeq DEF n
<1>8. RayCount' = RayCount /\ RowsDone' = RowsDone
  BY <1>1 DEF RayCount, RowsDone
<1>9. CountersInv'
  BY <1>1, <1>2, <1>3, <1>4, <1>7, <1>8 DEF CountersInv
<1>10. BatchNumbersInv'
  BY <1>1, <1>3, <1>4 DEF BatchNumbersInv
<1>11. SameWork
  BY <1>1 DEF SameWork
<1>. QED BY <1>1, <1>2, <1>3, <1>9, <1>10, <1>11, MoveOn

(* Picking a child and waiting for one count nothing. *)
LEMMA NumberedMove ==
  ASSUME Given, pc \in {"next", "poll", "block"}, pc' \in {"send", "read"},
         UNCHANGED <<why, options, call, inq, zray, nchild, kida, numbers,
                     queue, solo, children>>,
         pc' = "send" => why = "pick", pc = "poll" => why = "pick"
  PROVE  Numbered'
<1>1. UNCHANGED <<why, accumulate, vecs, calls, fed, inq, zray, nchild, kida,
                  lastray, lastdone, out_bq, output_values, cbin, kid, to,
                  from, sum>>
  BY DEF options, call, numbers, queue, solo, children
<1>2. Parallel
  BY DEF Parallel
<1>3. Pending' <=> Pending
  BY <1>1 DEF Pending
<1>4. Sent' = Sent /\ Base' = Base
  BY <1>1, <1>3 DEF Sent, Base
<1>5. CountersInv /\ BatchNumbersInv
  BY <1>2, ParallelFacts
<1>6. RayCount' = RayCount /\ RowsDone' = RowsDone
  BY <1>1 DEF RayCount, RowsDone
<1>7. Draining' => Draining
  BY <1>1 DEF Draining
<1>8. CountersInv'
  BY <1>1, <1>3, <1>4, <1>5, <1>6, <1>7 DEF CountersInv
<1>9. BatchNumbersInv'
  BY <1>1, <1>4, <1>5 DEF BatchNumbersInv
<1>10. SameWork
  BY <1>1 DEF SameWork
<1>. QED BY <1>1, <1>2, <1>4, <1>8, <1>9, <1>10, MoveOn

(* With -c 1 every ray ends a record, so that the queue is cleared first. *)
LEMMA NumberedZero ==
  ASSUME Given, Zero
  PROVE  Numbered'
<1>1. pc = "zero" /\ Parallel /\ zray /\ Pending /\ accumulate = 1
  <2>1. pc = "zero" /\ Parallel
    BY DEF Zero, Parallel
  <2>2. CountersInv
    BY <2>1, ParallelFacts
  <2>. QED BY <2>1, <2>2 DEF CountersInv, Pending
<1>2. EndsRecord
  <2>1. lastray \in Nat
    BY CallFacts
  <2>. QED BY <1>1, <2>1 DEF EndsRecord
<1>3. /\ pc' = "next" /\ why' = "zero"
      /\ UNCHANGED <<accumulate, vecs, calls, fed, inq, zray, nchild, kida,
                     lastray, lastdone, out_bq, output_values, cbin, kid, to,
                     from, sum>>
  BY <1>2 DEF Zero, options, call, numbers, queue, solo, children
<1>4. Pending'
  BY <1>1, <1>3 DEF Pending
<1>5. Sent' = Sent /\ Base' = Base
  BY <1>1, <1>3, <1>4 DEF Sent, Base
<1>6. CountersInv /\ BatchNumbersInv
  BY <1>1, ParallelFacts
<1>7. RayCount' = RayCount /\ RowsDone' = RowsDone
  BY <1>3 DEF RayCount, RowsDone
<1>8. CountersInv'
  BY <1>1, <1>3, <1>4, <1>5, <1>6, <1>7 DEF CountersInv, Draining
<1>9. BatchNumbersInv'
  BY <1>3, <1>5, <1>6 DEF BatchNumbersInv
<1>10. SameWork
  BY <1>3 DEF SameWork
<1>. QED BY <1>1, <1>3, <1>5, <1>8, <1>9, <1>10, MoveOn

-----------------------------------------------------------------------------
(***************************************************************************)
(* What output_catchup does to the answers so far, ov, to the queue q and  *)
(* to what is outstanding of h rays: those in the queue and those, W, that *)
(* children work on.                                                       *)
(***************************************************************************)
Outstanding(q, W, d, h, b, a) ==
  /\ (CoveredBy(q, b, a) \cup W) = (d * a + 1)..h
  /\ (CoveredBy(q, b, a) \cap W) = {}

RowAnswers(ov, a, c, vs) ==
  /\ ov \in Seq(Sums(RayIds)) /\ Len(ov) <= Len(vs)
  /\ \A k \in 1..Len(ov) : ov[k] = RowAnswer(k, a, c, vs)

SumsOf(q, n) == [k \in 1..n |-> q[k].sum]

Grown(ov, q, n) == ov \o SumsOf(q, n)

LEMMA RowAnswersGrow ==
  ASSUME NEW b, NEW a, NEW c, NEW vs, NEW q, QueueOK(q, b, a, c, vs),
         NEW ov, RowAnswers(ov, a, c, vs), Len(vs) \in Nat,
         NEW n \in 0..Len(q), Len(ov) + n <= Len(vs),
         \A k \in 1..n : q[k].sum = RowAnswer(Len(ov) + k, a, c, vs)
  PROVE  /\ RowAnswers(Grown(ov, q, n), a, c, vs)
         /\ Len(Grown(ov, q, n)) = Len(ov) + n
<1>. DEFINE new == SumsOf(q, n)
<1>1. ov \in Seq(Sums(RayIds)) /\ Len(ov) \in Nat /\ n \in Nat
      /\ q \in Seq(Entries) /\ Len(q) \in Nat
  BY DEF RowAnswers, QueueOK
<1>2. \A k \in 1..n : q[k].sum \in Sums(RayIds)
  <2>1. \A k \in 1..n : k \in 1..Len(q)
    BY <1>1
  <2>2. \A k \in 1..Len(q) : q[k] \in Entries
    BY <1>1
  <2>. QED BY <2>1, <2>2 DEF Entries
<1>3. new \in Seq(Sums(RayIds)) /\ Len(new) = n
      /\ \A k \in 1..n : new[k] = q[k].sum
  BY <1>1, <1>2 DEF SumsOf
<1>. HIDE DEF new
<1>4. /\ ov \o new \in Seq(Sums(RayIds)) /\ Len(ov \o new) = Len(ov) + n
      /\ \A k \in 1..Len(ov) : (ov \o new)[k] = ov[k]
      /\ \A k \in (Len(ov) + 1)..(Len(ov) + n) : (ov \o new)[k] = new[k - Len(ov)]
  BY <1>1, <1>3
<1>5. ASSUME NEW k \in 1..(Len(ov) + n)
      PROVE  (ov \o new)[k] = RowAnswer(k, a, c, vs)
  <2>1. CASE k <= Len(ov)
    BY <1>1, <1>4, <2>1 DEF RowAnswers
  <2>2. CASE k > Len(ov)
    <3>. DEFINE j == k - Len(ov)
    <3>1. j \in 1..n /\ Len(ov) + j = k
      BY <1>1, <2>2
    <3>2. (ov \o new)[k] = new[j]
      BY <1>1, <1>4, <2>2
    <3>. HIDE DEF j
    <3>3. q[j].sum = RowAnswer(Len(ov) + j, a, c, vs)
      BY <3>1
    <3>. QED BY <1>3, <3>1, <3>2, <3>3
  <2>3. k <= Len(ov) \/ k > Len(ov)
    BY <1>1
  <2>. QED BY <2>1, <2>2, <2>3
<1>. QED BY <1>4, <1>5 DEF RowAnswers, Grown, new

LEMMA OutputOK ==
  ASSUME NEW b, NEW a, NEW c, NEW vs, Numbering(b, a, c, vs),
         NEW q, QueueOK(q, b, a, c, vs), NEW ov, RowAnswers(ov, a, c, vs),
         NEW h \in Nat, Len(ov) * a <= h,
         NEW W, Outstanding(q, W, Len(ov), h, b, a),
         NEW nmax \in Int, NEW n, n = Catchup(q, nmax, b + Len(ov) * a, a)
  PROVE  /\ n \in Nat /\ RowAnswers(Grown(ov, q, n), a, c, vs)
         /\ Len(Grown(ov, q, n)) = Len(ov) + n
         /\ (Len(ov) + n) * a <= h
         /\ QueueOK(Rest(q, n), b, a, c, vs)
         /\ Outstanding(Rest(q, n), W, Len(ov) + n, h, b, a)
         /\ \A x \in W : (Len(ov) + n) * a < x
<1>. DEFINE d == Len(ov)
<1>1. a \in Nat \ {0} /\ Len(vs) \in Nat
  BY DEF Numbering
<1>2. d \in 0..Len(vs) /\ d \in Nat
  BY <1>1 DEF RowAnswers
<1>3. \A x \in CoveredBy(q, b, a) \cup W : x \in (d * a + 1)..h
  BY DEF Outstanding
<1>. HIDE DEF d
<1>4. d * a \in Int
  BY <1>1, <1>2
<1>5. \A x \in CoveredBy(q, b, a) : d * a < x
  BY <1>3, <1>4
<1>6. /\ n \in 0..Len(q) /\ d + n \in 0..Len(vs)
      /\ \A k \in 1..n : q[k].sum = RowAnswer(d + k, a, c, vs)
      /\ QueueOK(Rest(q, n), b, a, c, vs)
      /\ CoveredBy(Rest(q, n), b, a)
           = {x \in CoveredBy(q, b, a) : (d + n) * a < x}
      /\ \A k \in 1..n : RowNumbers(d + k, a) \subseteq CoveredBy(q, b, a)
  <2>1. n = Catchup(q, nmax, b + d * a, a)
    BY DEF d
  <2>. QED BY <1>2, <1>5, <2>1, CatchupOK
<1>7. n \in Nat /\ (d + n) * a \in Int
  BY <1>1, <1>2, <1>6
<1>8. RowAnswers(Grown(ov, q, n), a, c, vs)
      /\ Len(Grown(ov, q, n)) = Len(ov) + n
  BY <1>1, <1>6, RowAnswersGrow DEF d
<1>9. (d + n) * a <= h
  <2>1. CASE n = 0
    <3>1. d + n = d
      BY <1>2, <2>1
    <3>. QED BY <3>1 DEF d
  <2>2. CASE n # 0
    <3>1. n \in 1..n /\ d + n \in Int
      BY <1>2, <1>7, <2>2
    <3>2. (d + n) * a \in RowNumbers(d + n, a)
      <4>1. RowNumbers(d + n, a) = ((d + n) * a - a + 1)..((d + n) * a)
        BY <1>1, <3>1, RowNumbersIs
      <4>. QED BY <1>1, <1>7, <4>1
    <3>3. (d + n) * a \in CoveredBy(q, b, a)
      BY <1>6, <3>1, <3>2
    <3>. QED BY <1>3, <3>3
  <2>. QED BY <2>1, <2>2
<1>10. ASSUME NEW x \in W
       PROVE  (d + n) * a < x
  <2>1. x \in Int /\ d * a < x
    BY <1>3, <1>4
  <2>2. SUFFICES ASSUME ~((d + n) * a < x)  PROVE FALSE
    OBVIOUS
  <2>. DEFINE r == RowOf(x, a)
  <2>3. r \in Int /\ x \in RowNumbers(r, a)
    <3>1. /\ RowOf(x, a) \in Int
          /\ (RowOf(x, a) - 1) * a < x /\ x <= RowOf(x, a) * a
      BY <1>1, <2>1, RowBounds
    <3>2. RowOf(x, a) * a \in Int /\ (RowOf(x, a) - 1) * a \in Int
      BY <1>1, <3>1
    <3>. QED BY <2>1, <3>1, <3>2 DEF RowNumbers
  <2>. HIDE DEF r
  <2>4. d < r /\ r <= d + n
    <3>1. UpToRow(x, d, a) /\ UpToRow(x, d + n, a)
      <4>1. d \in Int /\ d + n \in Int
        BY <1>2, <1>7
      <4>. QED BY <1>1, <2>1, <4>1, RowRange
    <3>2. r <= d <=> x <= d * a
      BY <3>1 DEF UpToRow, r
    <3>3. r <= d + n <=> x <= (d + n) * a
      BY <3>1 DEF UpToRow, r
    <3>. QED BY <1>2, <1>4, <1>7, <2>1, <2>2, <2>3, <3>2, <3>3
  <2>. DEFINE k == r - d
  <2>5. k \in 1..n /\ d + k = r
    BY <1>2, <1>7, <2>3, <2>4
  <2>. HIDE DEF k
  <2>6. x \in CoveredBy(q, b, a)
    BY <1>6, <2>3, <2>5
  <2>. QED BY <2>6 DEF Outstanding
<1>11. Outstanding(Rest(q, n), W, d + n, h, b, a)
  <2>. DEFINE C == CoveredBy(q, b, a)  e == (d + n) * a  R == CoveredBy(Rest(q, n), b, a)
  <2>1. (C \cup W) = (d * a + 1)..h /\ (C \cap W) = {}
    BY DEF Outstanding, d
  <2>2. R = {x \in C : e < x} /\ \A x \in W : e < x
    BY <1>6, <1>10
  <2>3. e \in Int /\ d * a <= e
    <3>1. CASE n = 0
      <4>1. d + n = d
        BY <1>2, <3>1
      <4>. QED BY <1>4, <4>1
    <3>2. CASE n # 0
      <4>1. d < d + n /\ d \in Int /\ d + n \in Int
        BY <1>2, <1>7, <3>2
      <4>2. d * a + a <= (d + n) * a
        BY <1>1, <4>1, NextMultiple
      <4>. QED BY <1>1, <1>4, <1>7, <4>2
    <3>. QED BY <3>1, <3>2
  <2>. HIDE DEF C, e, R
  <2>4. (R \cup W) = (e + 1)..h
    BY <1>4, <2>1, <2>2, <2>3
  <2>5. (R \cap W) = {}
    BY <2>1, <2>2
  <2>. QED BY <2>4, <2>5 DEF Outstanding, C, e, R
<1>. QED BY <1>6, <1>7, <1>8, <1>9, <1>10, <1>11 DEF d

-----------------------------------------------------------------------------
(* The answers of the call are the answers of its rows. *)
LEMMA AnswersAreRows ==
  ASSUME RowsDone <= Len(vecs)
  PROVE  AnswersInOrder <=> RowAnswers(output_values, accumulate, calls, vecs)
<1>1. \A k : Answer(k) = RowAnswer(k, accumulate, calls, vecs)
  BY DEF Answer, RowRays, RowAnswer, RowSum, SumOver, RowNumbers
<1>. QED BY <1>1 DEF AnswersInOrder, RowAnswers, RowsDone

LEMMA AnswersAreRowsNext ==
  ASSUME UNCHANGED <<accumulate, calls, vecs>>,
         RowAnswers(output_values', accumulate, calls, vecs)
  PROVE  AnswersInOrder' /\ RowsDone' <= Len(vecs)
<1>1. \A k : Answer(k)' = RowAnswer(k, accumulate, calls, vecs)
  BY DEF Answer, RowRays, RowAnswer, RowSum, SumOver, RowNumbers
<1>. QED BY <1>1 DEF AnswersInOrder, RowAnswers, RowsDone

(* What is said of where the controller is, apart from the counters. *)
Phase ==
  /\ fed <= RayCount
  /\ Draining => fed = RayCount /\ inq = <<>>
  /\ pc = "fork" => fed = 0 /\ inq = <<>> /\ ~zray
  /\ Pending => accumulate = 1 /\ fed > 0 /\ vecs[fed] = "zero"
  /\ \/ pc \in {"zero", "restart"}
     \/ pc \in {"next", "block", "read"} /\ why = "zero"
     => zray
  /\ pc \in {"restart", "close"} => RowsDone * accumulate = Sent

(* The controller outputs what is ready and goes on. *)
LEMMA Emit ==
  ASSUME Given, Parallel, SameWork, NEW nmax \in Int,
         OutputCatchup(out_bq, nmax, lastdone),
         UNCHANGED <<lastray, cbin>>, Sent' = Sent,
         (pc \notin {"exit", "idle", "solo"})', Phase', BatchNumbersInv'
  PROVE  Numbered'
<1>. DEFINE d == RowsDone
            n == Catchup(out_bq, nmax, lastdone, accumulate)
<1>1. /\ out_bq' = Rest(out_bq, n) /\ lastdone' = lastdone + n * accumulate
      /\ output_values' = Grown(output_values, out_bq, n)
  BY DEF OutputCatchup, Rest, SumsOf, Grown
<1>2. Base' = Base
  BY DEF Base
<1>3. /\ AnswersInOrder /\ cbin = BlackSum /\ WorkInv /\ OutstandingInv
      /\ Sent \in Nat /\ Base \in Int /\ d \in 0..Len(vecs) /\ d \in Nat
      /\ d * accumulate \in Nat /\ d * accumulate <= Sent
      /\ lastdone = Base + d * accumulate /\ CountersInv
      /\ Numbering(Base, accumulate, calls, vecs)
  BY ParallelFacts
<1>4. accumulate \in Nat \ {0}
  BY CallFacts
<1>5. RowAnswers(output_values, accumulate, calls, vecs)
  BY <1>3, AnswersAreRows
<1>6. /\ QueueOK(out_bq, Base, accumulate, calls, vecs)
      /\ Outstanding(out_bq, AtWork, d, Sent, Base, accumulate)
  BY <1>3 DEF OutstandingInv, Outstanding, InQueue
<1>7. n = Catchup(out_bq, nmax, Base + d * accumulate, accumulate)
  BY <1>3
<1>. HIDE DEF n
<1>8. /\ n \in Nat
      /\ RowAnswers(Grown(output_values, out_bq, n), accumulate, calls, vecs)
      /\ Len(Grown(output_values, out_bq, n)) = d + n
      /\ (d + n) * accumulate <= Sent
      /\ QueueOK(Rest(out_bq, n), Base, accumulate, calls, vecs)
      /\ Outstanding(Rest(out_bq, n), AtWork, d + n, Sent, Base, accumulate)
      /\ \A x \in AtWork : (d + n) * accumulate < x
  <2>. DEFINE ov == output_values  W == AtWork
  <2>1. d = Len(ov)
    BY DEF RowsDone
  <2>. HIDE DEF d, ov, W
  <2>2. /\ RowAnswers(ov, accumulate, calls, vecs) /\ Len(ov) * accumulate <= Sent
        /\ Outstanding(out_bq, W, Len(ov), Sent, Base, accumulate)
        /\ n = Catchup(out_bq, nmax, Base + Len(ov) * accumulate, accumulate)
    BY <1>3, <1>5, <1>6, <1>7, <2>1 DEF ov, W
  <2>3. /\ QueueOK(out_bq, Base, accumulate, calls, vecs) /\ Sent \in Nat
        /\ Numbering(Base, accumulate, calls, vecs)
    BY <1>3, <1>6
  <2>4. n \in Nat
    BY <2>2, <2>3, OutputOK
  <2>5. RowAnswers(Grown(ov, out_bq, n), accumulate, calls, vecs)
    BY <2>2, <2>3, OutputOK
  <2>6. Len(Grown(ov, out_bq, n)) = Len(ov) + n
    BY <2>2, <2>3, OutputOK
  <2>7. (Len(ov) + n) * accumulate <= Sent
    BY <2>2, <2>3, OutputOK
  <2>8. QueueOK(Rest(out_bq, n), Base, accumulate, calls, vecs)
    BY <2>2, <2>3, OutputOK
  <2>9. Outstanding(Rest(out_bq, n), W, Len(ov) + n, Sent, Base, accumulate)
    BY <2>2, <2>3, OutputOK
  <2>10. \A x \in W : (Len(ov) + n) * accumulate < x
    BY <2>2, <2>3, OutputOK
  <2>. QED BY <2>1, <2>4, <2>5, <2>6, <2>7, <2>8, <2>9, <2>10 DEF ov, W
<1>9. RowsDone' = d + n
  BY <1>1, <1>8 DEF RowsDone
<1>10. UNCHANGED <<accumulate, calls, vecs>>
  BY DEF SameWork
<1>. HIDE DEF d
<1>11. AnswersInOrder' /\ RowsDone' <= Len(vecs)
  <2>1. RowAnswers(output_values', accumulate, calls, vecs)
    BY <1>1, <1>8
  <2>. QED BY <1>10, <2>1, AnswersAreRowsNext
<1>12. /\ RowsDone' * accumulate' = d * accumulate + n * accumulate
       /\ n * accumulate \in Nat /\ RowsDone' * accumulate' <= Sent
  BY <1>3, <1>4, <1>8, <1>9, <1>10
<1>13. lastdone' = Base + RowsDone' * accumulate' /\ lastdone' \in Nat
  <2>1. lastdone' = Base + d * accumulate + n * accumulate
    BY <1>1, <1>3
  <2>2. lastdone \in Nat
    BY <1>3 DEF CountersInv
  <2>3. lastdone' = Base + (d * accumulate + n * accumulate)
    BY <1>3, <1>12, <2>1
  <2>. QED BY <1>1, <1>12, <2>2, <2>3
<1>14. CountersInv'
  <2>1. Base % accumulate = 0
    BY ParallelFacts
  <2>. QED BY <1>2, <1>3, <1>10, <1>11, <1>12, <1>13, <2>1 DEF CountersInv, Phase
<1>15. WorkInv'
  <2>1. \A i \in Busy : First(i) > RowsDone' * accumulate
    <3>1. SUFFICES ASSUME NEW i \in Busy
                   PROVE  First(i) > RowsDone' * accumulate
      OBVIOUS
    <3>2. First(i) \in Work(i)
      <4>1. kida[i].nr \in Nat \ {0} /\ kida[i].r1 \in Nat
        BY ForkedKids, SMTT(30) DEF Given, TypeOK, Busy
      <4>2. First(i) \in Int
        BY <1>3, <4>1 DEF First
      <4>. QED BY <4>1, <4>2 DEF Work
    <3>3. First(i) \in AtWork
      BY <3>2 DEF AtWork
    <3>4. (d + n) * accumulate < First(i)
      BY <1>8, <3>3
    <3>5. First(i) \in Int /\ (d + n) * accumulate \in Int
      <4>1. First(i) \in Int
        BY <3>2 DEF Work
      <4>2. d + n \in Int
        BY <1>3, <1>8
      <4>. QED BY <1>4, <4>1, <4>2
    <3>. QED BY <1>9, <3>4, <3>5
  <2>. QED BY <1>2, <1>3, <2>1, SameWorkInv
<1>16. OutstandingInv'
  <2>1. AtWork' = AtWork
    BY <1>2, SameWorkFacts
  <2>2. InQueue' = CoveredBy(Rest(out_bq, n), Base, accumulate)
    BY <1>1, <1>2, <1>10 DEF InQueue
  <2>. QED BY <1>1, <1>2, <1>8, <1>9, <1>10, <2>1, <2>2 DEF OutstandingInv, Outstanding
<1>. QED BY <1>3, <1>11, <1>14, <1>15, <1>16, ToParallel

LEMMA NumberedWait ==
  ASSUME Given, Wait
  PROVE  Numbered'
<1>1. /\ pc = "next" /\ pc' \in {"poll", "block"}
      /\ pc' = "poll" => why = "pick"
      /\ UNCHANGED <<why, accumulate, vecs, calls, fed, inq, zray, nchild, kida,
                     lastray, cbin, kid, to, from, sum>>
  BY DEF Wait, Flushing, options, call, solo, children, Given, TypeOK
<1>2. Parallel
  BY <1>1 DEF Parallel
<1>3. Pending' <=> Pending
  BY <1>1 DEF Pending
<1>4. Sent' = Sent /\ Base' = Base
  BY <1>1, <1>3 DEF Sent, Base
<1>5. CountersInv /\ BatchNumbersInv
  BY <1>2, ParallelFacts
<1>6. RayCount' = RayCount
  BY <1>1 DEF RayCount
<1>7. Draining' => Draining
  BY <1>1 DEF Draining
<1>8. Phase'
  BY <1>1, <1>3, <1>4, <1>5, <1>6, <1>7 DEF Phase, CountersInv
<1>9. BatchNumbersInv'
  BY <1>1, <1>4, <1>5 DEF BatchNumbersInv
<1>10. SameWork
  BY <1>1 DEF SameWork
<1>11. CASE \E nmax \in Int : OutputCatchup(out_bq, nmax, lastdone)
  BY <1>1, <1>2, <1>4, <1>8, <1>9, <1>10, <1>11, Emit
<1>12. CASE UNCHANGED <<queue, lastdone>>
  <2>1. UNCHANGED <<out_bq, output_values, lastdone>>
    BY <1>12 DEF queue
  <2>2. CountersInv'
    <3>1. RowsDone' = RowsDone
      BY <2>1 DEF RowsDone
    <3>. QED BY <1>1, <1>4, <1>5, <1>8, <2>1, <3>1 DEF CountersInv, Phase
  <2>. QED BY <1>1, <1>2, <1>4, <1>9, <1>10, <2>1, <2>2, MoveOn
<1>13. \/ \E nmax \in Int : OutputCatchup(out_bq, nmax, lastdone)
       \/ UNCHANGED <<queue, lastdone>>
  <2>1. QueueReady(out_bq, lastdone, accumulate) - nchild \in Int
    <3>1. QueueOK(out_bq, Base, accumulate, calls, vecs)
      BY <1>2, ParallelFacts DEF OutstandingInv
    <3>2. QueueReady(out_bq, lastdone, accumulate) \in Int
      <4>1. out_bq \in Seq(Entries)
        BY <3>1 DEF QueueOK
      <4>2. QueueReady(out_bq, lastdone, accumulate) \in 0..Len(out_bq)
        BY <4>1, ReadyPrefix
      <4>. QED BY <4>2
    <3>3. nchild \in Int
      BY DEF Given, TypeOK
    <3>. QED BY <3>2, <3>3
  <2>2. \/ OutputCatchup(out_bq, QueueReady(out_bq, lastdone, accumulate) - nchild,
                         lastdone)
        \/ OutputCatchup(out_bq, 0, lastdone)
        \/ UNCHANGED <<queue, lastdone>>
    BY DEF Wait
  <2>. QED BY <2>1, <2>2
<1>. QED BY <1>11, <1>12, <1>13

LEMMA NumberedPoll ==
  ASSUME Given, Poll
  PROVE  Numbered'
<1>1. /\ pc = "poll"
      /\ UNCHANGED <<why, options, call, inq, zray, nchild, kida, lastray,
                     solo, children>>
  BY DEF Poll
<1>2. why = "pick"
  BY <1>1 DEF Given, InStep, BatchInv
<1>3. CASE pc' = "read"
  <2>1. UNCHANGED <<queue, lastdone>>
    BY <1>3 DEF Poll
  <2>. QED BY <1>1, <1>2, <1>3, <2>1, NumberedMove DEF numbers
<1>4. CASE pc' = "block"
  <2>1. OutputCatchup(out_bq, 0, lastdone)
    BY <1>4 DEF Poll
  <2>2. UNCHANGED <<why, accumulate, vecs, calls, fed, inq, zray, nchild, kida,
                    lastray, cbin, kid, to, from, sum>>
    BY <1>1 DEF options, call, solo, children
  <2>3. Parallel
    BY <1>1 DEF Parallel
  <2>4. Pending' <=> Pending
    BY <1>1, <1>4, <2>2 DEF Pending
  <2>5. Sent' = Sent /\ Base' = Base
    BY <2>2, <2>4 DEF Sent, Base
  <2>6. CountersInv /\ BatchNumbersInv
    BY <2>3, ParallelFacts
  <2>7. Phase'
    <3>1. RayCount' = RayCount
      BY <2>2 DEF RayCount
    <3>. QED BY <1>2, <1>4, <2>2, <2>4, <2>6, <3>1 DEF Phase, CountersInv, Draining
  <2>8. BatchNumbersInv'
    BY <1>4, <2>2, <2>5, <2>6 DEF BatchNumbersInv
  <2>9. SameWork
    BY <2>2 DEF SameWork
  <2>. QED BY <1>4, <2>1, <2>2, <2>3, <2>5, <2>7, <2>8, <2>9, Emit
<1>5. pc' = "read" \/ pc' = "block"
  BY DEF Poll
<1>. QED BY <1>3, <1>4, <1>5

(* When no child is at work any more, every ray sent is in the queue, in   *)
(* whole records, and all of them leave.                                   *)
LEMMA NumberedFlushEnd ==
  ASSUME Given, FlushEnd
  PROVE  Numbered'
<1>1. /\ pc = "next" /\ why \in {"zero", "drain"} /\ Busy = {}
      /\ OutputCatchup(out_bq, 0, lastdone)
      /\ pc' = IF why = "zero" THEN "restart" ELSE "close"
      /\ UNCHANGED <<why, accumulate, vecs, calls, fed, inq, zray, nchild, kida,
                     lastray, cbin, kid, to, from, sum>>
  BY DEF FlushEnd, Flushing, options, call, solo, children, Given, TypeOK
<1>2. Parallel
  BY <1>1 DEF Parallel
<1>3. CountersInv /\ BatchNumbersInv /\ OutstandingInv
  BY <1>2, ParallelFacts
<1>4. Pending' <=> Pending
  BY <1>1 DEF Pending
<1>5. Sent' = Sent /\ Base' = Base
  BY <1>1, <1>4 DEF Sent, Base
<1>. DEFINE h == IF why = "zero" THEN Sent ELSE Len(vecs)
            n == Catchup(out_bq, 0, lastdone, accumulate)
<1>6. /\ h \in Nat /\ RowsDone <= h /\ h * accumulate = Sent
  <2>1. /\ Sent \in Nat /\ RowsDone \in Nat /\ RowsDone <= Len(vecs)
        /\ Len(vecs) \in Nat /\ RowsDone * accumulate <= Sent
    BY <1>2, ParallelFacts, CallFacts
  <2>2. CASE why = "zero"
    <3>1. accumulate = 1
      BY <1>1, <1>3, <2>2 DEF CountersInv, Pending
    <3>. QED BY <2>1, <2>2, <3>1
  <2>3. CASE why = "drain"
    <3>1. fed = RayCount /\ inq = <<>> /\ ~Pending
      BY <1>1, <1>3, <2>3 DEF CountersInv, Draining, Pending
    <3>2. Len(inq) = 0 /\ RayCount \in Int
      BY <3>1, CallFacts DEF RayCount
    <3>3. Sent = RayCount - 0 - 0
      BY <3>1, <3>2 DEF Sent
    <3>. QED BY <2>1, <2>3, <3>2, <3>3 DEF RayCount
  <2>. QED BY <1>1, <2>2, <2>3
<1>. HIDE DEF h
<1>7. RowsDone + n = h
  <2>1. lastdone = Base + RowsDone * accumulate
        /\ RowsDone \in 0..Len(vecs) /\ Numbering(Base, accumulate, calls, vecs)
    BY <1>2, ParallelFacts
  <2>2. n = Catchup(out_bq, 0, Base + RowsDone * accumulate, accumulate)
    BY <2>1
  <2>3. AtWork = {}
    BY <1>1 DEF AtWork
  <2>4. CoveredBy(out_bq, Base, accumulate) = (RowsDone * accumulate + 1)..(h * accumulate)
    BY <1>3, <1>6, <2>3 DEF OutstandingInv, InQueue
  <2>5. QueueOK(out_bq, Base, accumulate, calls, vecs)
    BY <1>3 DEF OutstandingInv
  <2>. HIDE DEF n
  <2>. QED BY <1>6, <2>1, <2>2, <2>4, <2>5, FlushOK
<1>8. RowsDone' = h
  <2>1. output_values' = Grown(output_values, out_bq, n)
    BY <1>1 DEF OutputCatchup, SumsOf, Grown
  <2>2. output_values \in Seq(Sums(RayIds)) /\ n \in 0..Len(out_bq)
        /\ out_bq \in Seq(Entries)
    <3>1. out_bq \in Seq(Entries)
      BY <1>3 DEF OutstandingInv, QueueOK
    <3>2. QueueReady(out_bq, lastdone, accumulate) \in 0..Len(out_bq)
      BY <3>1, ReadyPrefix
    <3>3. n = QueueReady(out_bq, lastdone, accumulate)
      BY DEF Catchup
    <3>. QED BY <1>2, <3>1, <3>2, <3>3, ParallelFacts DEF AnswersInOrder
  <2>. HIDE DEF n
  <2>3. SumsOf(out_bq, n) \in Seq(Sums(RayIds)) /\ Len(SumsOf(out_bq, n)) = n
    <3>1. \A k \in 1..n : k \in 1..Len(out_bq)
      BY <2>2
    <3>2. \A k \in 1..n : out_bq[k].sum \in Sums(RayIds)
      <4>1. \A k \in 1..n : out_bq[k] \in Entries
        BY <2>2, <3>1
      <4>. QED BY <4>1 DEF Entries
    <3>3. n \in Nat
      BY <2>2
    <3>. QED BY <3>2, <3>3 DEF SumsOf
  <2>4. Len(output_values') = Len(output_values) + n
    <3>. DEFINE new == SumsOf(out_bq, n)
    <3>. HIDE DEF new
    <3>1. /\ output_values \in Seq(Sums(RayIds)) /\ new \in Seq(Sums(RayIds))
          /\ Len(new) = n /\ output_values' = output_values \o new
      BY <2>1, <2>2, <2>3 DEF new, Grown
    <3>. QED BY <3>1
  <2>. QED BY <1>7, <2>4 DEF RowsDone
<1>9. Phase'
  <2>1. RayCount' = RayCount
    BY <1>1 DEF RayCount
  <2>2. Draining' => why = "drain"
    BY <1>1 DEF Draining
  <2>3. why = "drain" => Draining
    BY <1>1 DEF Draining
  <2>4. pc' = "restart" => zray
    BY <1>1, <1>3 DEF CountersInv
  <2>5. RowsDone' * accumulate' = Sent'
    BY <1>1, <1>5, <1>6, <1>8
  <2>. QED BY <1>1, <1>3, <1>4, <2>1, <2>2, <2>3, <2>4, <2>5 DEF Phase, CountersInv
<1>10. BatchNumbersInv'
  BY <1>1, <1>3, <1>5 DEF BatchNumbersInv
<1>11. SameWork
  BY <1>1 DEF SameWork
<1>. QED BY <1>1, <1>2, <1>5, <1>9, <1>10, <1>11, Emit

-----------------------------------------------------------------------------
(* Rays are fed before they are sent. *)
LEMMA SentIsFed ==
  ASSUME Given
  PROVE  Sent \in Int /\ Sent <= fed
<1>1. fed \in Nat /\ Len(inq) \in Nat
  BY CallFacts
<1>2. CASE Pending
  <2>1. Sent = fed - Len(inq) - 1
    BY <1>2 DEF Sent
  <2>. QED BY <1>1, <2>1
<1>3. CASE ~Pending
  <2>1. Sent = fed - Len(inq) - 0
    BY <1>3 DEF Sent
  <2>. QED BY <1>1, <2>1
<1>. QED BY <1>2, <1>3

(* Children that are busy work on a row that is a ray's. *)
LEMMA BusyFacts ==
  ASSUME Given, Parallel, NEW i \in Busy
  PROVE  /\ i \in Kids /\ kida[i].r1 \in Nat /\ kida[i].nr \in Nat \ {0}
         /\ First(i) \in Int /\ Base + First(i) = kida[i].r1
         /\ First(i) \in Work(i) /\ Work(i) \subseteq AtWork
         /\ RowOf(First(i), accumulate) \in 1..Len(vecs)
<1>1. i \in Kids /\ kida[i].r1 \in Nat /\ kida[i].nr \in Nat \ {0}
  BY ForkedKids DEF Given, TypeOK, Busy
<1>2. Base \in Int /\ Sent \in Nat /\ RowsDone * accumulate \in Nat
      /\ WorkInv /\ CountersInv
  BY ParallelFacts
<1>3. First(i) \in Int /\ Base + First(i) = kida[i].r1
  BY <1>1, <1>2 DEF First
<1>4. First(i) \in Work(i) /\ Work(i) \subseteq AtWork
  BY <1>1, <1>3 DEF Work, AtWork
<1>5. RowsDone * accumulate < First(i) /\ First(i) + kida[i].nr - 1 <= Sent
  BY <1>2 DEF WorkInv
<1>6. 0 < First(i) /\ First(i) <= Sent
  BY <1>1, <1>2, <1>3, <1>5
<1>7. Sent <= Len(vecs) * accumulate
  <2>1. fed <= RayCount /\ Sent \in Int /\ Sent <= fed
    BY <1>2, SentIsFed DEF CountersInv
  <2>2. fed \in Int /\ RayCount \in Int
    BY CallFacts DEF RayCount
  <2>3. Sent <= RayCount
    BY <2>1, <2>2
  <2>. QED BY <2>3 DEF RayCount
<1>8. accumulate \in Nat \ {0} /\ Len(vecs) \in Nat
  BY CallFacts
<1>9. RowOf(First(i), accumulate) \in 1..Len(vecs)
  <2>. DEFINE x == First(i)  r == RowOf(x, accumulate)
  <2>1. UpToRow(x, 0, accumulate) /\ UpToRow(x, Len(vecs), accumulate)
    <3>1. x \in Int /\ 0 \in Int /\ Len(vecs) \in Int
      BY <1>3, <1>8
    <3>. HIDE DEF x
    <3>. QED BY <1>8, <3>1, RowRange
  <2>2. r \in Int /\ (r <= 0 <=> x <= 0 * accumulate)
    BY <2>1 DEF UpToRow
  <2>3. r <= Len(vecs) <=> x <= Len(vecs) * accumulate
    BY <2>1 DEF UpToRow
  <2>4. 0 * accumulate = 0 /\ Len(vecs) * accumulate \in Int
    BY <1>8
  <2>. HIDE DEF r, x
  <2>5. 0 < x /\ x <= Len(vecs) * accumulate
    <3>1. Len(vecs) * accumulate \in Int /\ First(i) \in Int
      BY <1>3, <2>4
    <3>. QED BY <1>2, <1>6, <1>7, <3>1 DEF x
  <2>6. r > 0 /\ r <= Len(vecs)
    <3>1. x \in Int
      BY <1>3 DEF x
    <3>. QED BY <2>2, <2>3, <2>4, <2>5, <3>1
  <2>. QED BY <1>8, <2>2, <2>6 DEF r, x
<1>. QED BY <1>1, <1>3, <1>4, <1>9

(* With -c 1 a zero ray that nobody else is at work with starts over. *)
LEMMA NumberedZeroRestart ==
  ASSUME Given, ZeroRestart
  PROVE  Numbered'
<1>. DEFINE e == NewEntry(accumulate, 1, BlackSum)
            q == QueueOutput(out_bq, e, accumulate)
            n == Catchup(q, 0, accumulate - 1, accumulate)
<1>1. /\ pc = "restart" /\ pc' = "feed" /\ lastray' = accumulate
      /\ OutputCatchup(q, 0, accumulate - 1)
      /\ UNCHANGED <<accumulate, vecs, calls, fed, inq, zray, nchild, kida,
                     cbin, kid, to, from, sum>>
  BY DEF ZeroRestart, PutZeroRecord, options, call, solo, children
<1>2. Parallel /\ zray
  <2>1. Parallel
    BY <1>1 DEF Parallel
  <2>2. CountersInv
    BY <2>1, ParallelFacts
  <2>. QED BY <1>1, <2>1, <2>2 DEF CountersInv
<1>3. Pending /\ ~Pending' /\ inq = <<>> /\ Len(inq) = 0
  <2>1. inq = <<>>
    BY <1>1 DEF Given, InStep, BatchInv
  <2>. QED BY <1>1, <1>2, <2>1 DEF Pending
<1>4. CountersInv /\ OutstandingInv /\ AnswersInOrder /\ cbin = BlackSum
  BY <1>2, ParallelFacts
<1>5. /\ accumulate = 1 /\ fed \in Nat \ {0} /\ vecs[fed] = "zero"
      /\ RowsDone * accumulate = Sent /\ fed <= RayCount
  BY <1>1, <1>3, <1>4, CallFacts DEF CountersInv
<1>6. Sent = fed - 1 /\ Sent' = fed
  <2>1. Sent = fed - Len(inq) - 1
    BY <1>3 DEF Sent
  <2>2. Sent' = fed' - Len(inq') - 0
    BY <1>3 DEF Sent
  <2>. QED BY <1>1, <1>3, <1>5, <2>1, <2>2
<1>7. Base' = 1 - fed
  BY <1>1, <1>5, <1>6 DEF Base
<1>8. RowsDone = fed - 1 /\ RowsDone \in Nat
  BY <1>2, <1>5, <1>6, ParallelFacts
<1>9. fed \in 1..Len(vecs)
  <2>1. Len(vecs) \in Nat
    BY CallFacts
  <2>. QED BY <1>5, <2>1 DEF RayCount
<1>10. InQueue = {} /\ AtWork = {}
  <2>1. (RowsDone * accumulate + 1)..Sent = {}
    BY <1>5, <1>6
  <2>. QED BY <1>4, <2>1 DEF OutstandingInv
<1>11. Busy = {}
  BY <1>2, <1>10, BusyFacts
<1>12. Busy' = {} /\ AtWork' = {}
  <2>1. Busy' = Busy
    BY <1>1 DEF Busy
  <2>. QED BY <1>11, <2>1 DEF AtWork
<1>13. out_bq = <<>>
  <2>1. QueueOK(out_bq, Base, accumulate, calls, vecs)
    BY <1>4 DEF OutstandingInv
  <2>2. SUFFICES ASSUME out_bq # <<>>  PROVE FALSE
    OBVIOUS
  <2>3. 1 \in 1..Len(out_bq)
    BY <2>1, <2>2, EmptySeq DEF QueueOK
  <2>4. Covered(out_bq[1], Base, accumulate) # {}
    BY <2>1, <2>3 DEF QueueOK, EntryOK
  <2>. QED BY <1>10, <2>3, <2>4, InCovered DEF InQueue
<1>14. Numbering(1 - fed, accumulate, calls, vecs)
  <2>1. calls \in 1..MaxCalls /\ vecs \in Seq(Kinds)
    BY <1>1, CallFacts
  <2>2. 1 - fed \in Int /\ (1 - fed) % accumulate = 0
    BY <1>5
  <2>. QED BY <1>5, <2>1, <2>2 DEF Numbering
<1>15. /\ EntryOK(e, 1 - fed, accumulate, calls, vecs)
       /\ Covered(e, 1 - fed, accumulate) = {fed}
  <2>1. (1 - fed) + fed = 1 /\ vecs[fed] # "ray"
    BY <1>5
  <2>2. e = NewEntry((1 - fed) + fed, 1, BlackSum) /\ (1 - fed) + fed \in Nat
    BY <1>5, <2>1
  <2>. HIDE DEF e
  <2>. QED BY <1>5, <1>9, <1>14, <2>1, <2>2, BlackEntry
<1>16. /\ QueueOK(q, 1 - fed, accumulate, calls, vecs)
       /\ CoveredBy(q, 1 - fed, accumulate) = {fed}
  <2>1. QueueOK(<<>>, 1 - fed, accumulate, calls, vecs)
    BY EmptySeq DEF QueueOK
  <2>2. CoveredBy(<<>>, 1 - fed, accumulate) = {}
    BY DEF CoveredBy
  <2>3. q = QueueOutput(<<>>, e, accumulate)
    BY <1>13
  <2>. HIDE DEF e, q
  <2>4. (Covered(e, 1 - fed, accumulate) \cap CoveredBy(<<>>, 1 - fed, accumulate)) = {}
    BY <2>2
  <2>. QED BY <1>14, <1>15, <2>1, <2>2, <2>3, <2>4, QueueOutputOK
<1>. HIDE DEF e, q
<1>17. n = Catchup(q, 0, (1 - fed) + RowsDone * accumulate, accumulate)
  <2>1. (1 - fed) + RowsDone * accumulate = accumulate - 1
    BY <1>5, <1>8
  <2>. QED BY <2>1
<1>18. /\ out_bq' = Rest(q, n) /\ lastdone' = accumulate - 1 + n * accumulate
       /\ output_values' = Grown(output_values, q, n)
  BY <1>1 DEF OutputCatchup, Rest, SumsOf, Grown
<1>. HIDE DEF n
<1>19. Outstanding(q, {}, RowsDone, fed, 1 - fed, accumulate)
  <2>1. (RowsDone * accumulate + 1)..fed = {fed}
    BY <1>5, <1>8
  <2>. QED BY <1>16, <2>1 DEF Outstanding
<1>20. RowAnswers(output_values, accumulate, calls, vecs)
  <2>1. RowsDone <= Len(vecs)
    BY <1>2, ParallelFacts
  <2>. QED BY <1>4, <2>1, AnswersAreRows
<1>21. /\ n \in Nat
       /\ RowAnswers(Grown(output_values, q, n), accumulate, calls, vecs)
       /\ Len(Grown(output_values, q, n)) = RowsDone + n
       /\ QueueOK(Rest(q, n), 1 - fed, accumulate, calls, vecs)
       /\ Outstanding(Rest(q, n), {}, RowsDone + n, fed, 1 - fed, accumulate)
  <2>. DEFINE ov == output_values
  <2>1. RowsDone = Len(ov)
    BY DEF RowsDone
  <2>. HIDE DEF ov
  <2>2. /\ RowAnswers(ov, accumulate, calls, vecs) /\ Len(ov) * accumulate <= fed
        /\ Outstanding(q, {}, Len(ov), fed, 1 - fed, accumulate)
        /\ n = Catchup(q, 0, (1 - fed) + Len(ov) * accumulate, accumulate)
        /\ fed \in Nat
    BY <1>5, <1>6, <1>17, <1>19, <1>20, <2>1 DEF ov
  <2>3. /\ n \in Nat /\ RowAnswers(Grown(ov, q, n), accumulate, calls, vecs)
        /\ Len(Grown(ov, q, n)) = Len(ov) + n
        /\ QueueOK(Rest(q, n), 1 - fed, accumulate, calls, vecs)
    BY <1>14, <1>16, <2>2, OutputOK
  <2>4. Outstanding(Rest(q, n), {}, Len(ov) + n, fed, 1 - fed, accumulate)
    BY <1>14, <1>16, <2>2, OutputOK
  <2>. QED BY <2>1, <2>3, <2>4 DEF ov
<1>22. RowsDone + n = fed
  <2>1. RowsDone \in 0..Len(vecs) /\ fed \in Nat /\ RowsDone <= fed
    BY <1>5, <1>8, <1>9
  <2>2. CoveredBy(q, 1 - fed, accumulate) = (RowsDone * accumulate + 1)..(fed * accumulate)
    <3>1. (RowsDone * accumulate + 1)..(fed * accumulate) = {fed}
      BY <1>5, <1>8
    <3>. QED BY <1>16, <3>1
  <2>. QED BY <1>14, <1>16, <1>17, <2>1, <2>2, FlushOK
<1>23. RowsDone' = fed
  BY <1>18, <1>21, <1>22 DEF RowsDone
<1>24. AnswersInOrder' /\ RowsDone' <= Len(vecs)
  BY <1>1, <1>18, <1>21, AnswersAreRowsNext
<1>25. CountersInv'
  <2>1. lastdone' = 1 /\ fed * accumulate = fed /\ Base' + fed * accumulate = 1
    BY <1>5, <1>7, <1>8, <1>18, <1>21, <1>22
  <2>2. Base' % accumulate' = 0
    BY <1>1, <1>7, <1>14 DEF Numbering
  <2>3. ~Draining' /\ RayCount' = RayCount
    BY <1>1 DEF Draining, RayCount
  <2>. QED BY <1>1, <1>3, <1>5, <1>6, <1>23, <1>24, <2>1, <2>2, <2>3 DEF CountersInv
<1>26. BatchNumbersInv'
  <2>1. lastray' + Len(inq') = lastray' /\ inq' = <<>>
    BY <1>1, <1>3, <1>5
  <2>. QED BY <1>1, <2>1 DEF BatchNumbersInv
<1>27. WorkInv'
  BY <1>12 DEF WorkInv
<1>28. OutstandingInv'
  <2>1. InQueue' = CoveredBy(Rest(q, n), 1 - fed, accumulate)
    BY <1>1, <1>7, <1>18 DEF InQueue
  <2>2. /\ Outstanding(Rest(q, n), {}, fed, fed, 1 - fed, accumulate)
        /\ QueueOK(Rest(q, n), 1 - fed, accumulate, calls, vecs)
    BY <1>21, <1>22
  <2>. QED BY <1>1, <1>6, <1>7, <1>12, <1>18, <1>23, <2>1, <2>2
           DEF OutstandingInv, Outstanding
<1>. QED BY <1>1, <1>4, <1>24, <1>25, <1>26, <1>27, <1>28, ToParallel

(* What a child wrote is the sum of its rays, and joins those in the queue. *)
LEMMA NumberedQueueResults ==
  ASSUME Given, QueueResults
  PROVE  Numbered'
<1>1. PICK i \in readset :
        /\ from[i] # <<>>
        /\ out_bq' = QueueOutput(out_bq,
                        NewEntry(kida[i].r1, kida[i].nr, Head(from[i])), accumulate)
        /\ from' = [from EXCEPT ![i] = Tail(@)]
        /\ kida' = [kida EXCEPT ![i].nr = 0]
        /\ readset' = readset \ {i}
  BY DEF QueueResults
<1>2. /\ pc = "read"
      /\ pc' = IF readset' # {} THEN "read" ELSE IF Flushing THEN "next" ELSE "send"
      /\ UNCHANGED <<why, accumulate, vecs, calls, fed, inq, zray, nchild,
                     lastray, lastdone, output_values, cbin, kid, to, sum>>
  BY DEF QueueResults, options, call, numbers, solo
<1>3. Parallel
  BY <1>2 DEF Parallel
<1>4. i \in Busy
  BY <1>1, <1>2 DEF Given, InStep, ReadInv
<1>5. /\ CountersInv /\ BatchNumbersInv /\ WorkInv /\ OutstandingInv
      /\ AnswersInOrder /\ cbin = BlackSum /\ Base \in Int
      /\ Numbering(Base, accumulate, calls, vecs)
  BY <1>3, ParallelFacts
<1>6. /\ i \in Kids /\ kida[i].r1 \in Nat /\ kida[i].nr \in Nat \ {0}
      /\ First(i) \in Int /\ Base + First(i) = kida[i].r1
      /\ Work(i) \subseteq AtWork
      /\ RowOf(First(i), accumulate) \in 1..Len(vecs)
  BY <1>3, <1>4, BusyFacts
<1>7. pc' \in {"read", "next", "send"} /\ pc' = "send" => why = "pick"
  BY <1>2 DEF Flushing
<1>8. Sent' = Sent /\ Base' = Base /\ (Pending' <=> Pending)
  <2>1. Pending' <=> Pending
    <3>1. pc' = "send" => why # "drain"
      BY <1>2 DEF Flushing
    <3>. QED BY <1>2, <3>1 DEF Pending
  <2>. QED BY <1>2, <2>1 DEF Sent, Base
<1>9. RowsDone' = RowsDone /\ AnswersInOrder'
  BY <1>2, <1>5 DEF RowsDone, AnswersInOrder, Answer, RowRays
<1>10. kida \in [Kids -> [r1 : Nat, nr : Nat]] /\ from \in [Kids -> Seq(Sums(RayIds))]
  BY DEF Given, TypeOK
<1>11. /\ \A j : j # i => kida'[j] = kida[j] /\ from'[j] = from[j]
       /\ kida'[i].nr = 0
  <2>1. \A j \in Kids : j # i => kida'[j] = kida[j] /\ from'[j] = from[j]
    BY <1>1, <1>10
  <2>2. kida'[i].nr = 0
    BY <1>1, <1>6, <1>10
  <2>3. \A j : j \notin Kids => kida'[j] = kida[j] /\ from'[j] = from[j]
    BY <1>1, <1>6, <1>10
  <2>. QED BY <2>1, <2>2, <2>3
<1>12. Busy' = Busy \ {i}
  BY <1>2, <1>11 DEF Busy
<1>13. \A j \in Busy' : /\ First(j)' = First(j) /\ Work(j)' = Work(j)
                        /\ ReadSoFar(j)' = ReadSoFar(j)
                        /\ kida'[j] = kida[j] /\ from'[j] = from[j]
  BY <1>2, <1>8, <1>11, <1>12 DEF First, Work, ReadSoFar, Ending
<1>14. CountersInv'
  <2>1. RayCount' = RayCount
    BY <1>2 DEF RayCount
  <2>2. Draining' => Draining
    BY <1>2, <1>7 DEF Draining
  <2>. QED BY <1>2, <1>5, <1>7, <1>8, <1>9, <2>1, <2>2 DEF CountersInv
<1>15. BatchNumbersInv'
  BY <1>2, <1>5, <1>7, <1>8 DEF BatchNumbersInv
<1>16. WorkInv'
  <2>1. Ending' = Ending
    BY <1>2 DEF Ending
  <2>2. \A j \in Busy' :
          /\ First(j)' > RowsDone' * accumulate'
          /\ First(j)' + kida'[j].nr - 1 <= Sent'
          /\ RowOf(First(j)', accumulate') = RowOf(First(j)' + kida'[j].nr - 1, accumulate')
          /\ vecs'[RowOf(First(j)', accumulate')] = "ray"
    BY <1>2, <1>5, <1>8, <1>9, <1>12, <1>13 DEF WorkInv
  <2>3. \A j \in Busy' : \A k \in Busy' : k # j => (Work(j)' \cap Work(k)') = {}
    BY <1>5, <1>12, <1>13 DEF WorkInv
  <2>4. \A j \in Busy' :
          kid'[j] \in {"start", "run"} /\ to'[j] # <<>> =>
             /\ \A k \in 1..(Len(to'[j]) - Ending') :
                  to'[j][k] = <<calls', First(j)' + ReadSoFar(j)' + k - 1>>
             /\ sum'[j] = SumFrom(First(j)', ReadSoFar(j)', calls')
    BY <1>2, <1>5, <1>12, <1>13, <2>1 DEF WorkInv
  <2>5. \A j \in Busy' :
          /\ kid'[j] = "write" => sum'[j] = SumFrom(First(j)', kida'[j].nr, calls')
          /\ from'[j] # <<>> => from'[j][1] = SumFrom(First(j)', kida'[j].nr, calls')
    BY <1>2, <1>5, <1>12, <1>13 DEF WorkInv
  <2>. QED BY <2>2, <2>3, <2>4, <2>5 DEF WorkInv
<1>17. OutstandingInv'
  <2>. DEFINE e == NewEntry(kida[i].r1, kida[i].nr, Head(from[i]))
  <2>1. e = NewEntry(Base + First(i), kida[i].nr, SumFrom(First(i), kida[i].nr, calls))
    <3>1. Head(from[i]) = from[i][1]
      BY <1>1, <1>6, <1>10
    <3>2. from[i][1] = SumFrom(First(i), kida[i].nr, calls)
      BY <1>1, <1>4, <1>5 DEF WorkInv
    <3>. QED BY <1>6, <3>1, <3>2
  <2>2. out_bq' = QueueOutput(out_bq, e, accumulate)
    BY <1>1
  <2>3. Base + First(i) \in Nat
    BY <1>6
  <2>4. /\ RowOf(First(i), accumulate) = RowOf(First(i) + kida[i].nr - 1, accumulate)
        /\ vecs[RowOf(First(i), accumulate)] = "ray"
    BY <1>4, <1>5 DEF WorkInv
  <2>. HIDE DEF e
  <2>5. /\ EntryOK(e, Base, accumulate, calls, vecs)
        /\ Covered(e, Base, accumulate) = Work(i)
    BY <1>5, <1>6, <2>1, <2>3, <2>4, RayEntry DEF Work
  <2>6. /\ QueueOK(out_bq, Base, accumulate, calls, vecs)
        /\ (InQueue \cup AtWork) = (RowsDone * accumulate + 1)..Sent
        /\ (InQueue \cap AtWork) = {}
    BY <1>5 DEF OutstandingInv
  <2>7. (Covered(e, Base, accumulate) \cap CoveredBy(out_bq, Base, accumulate)) = {}
    BY <1>6, <2>5, <2>6 DEF InQueue
  <2>8. /\ QueueOK(out_bq', Base, accumulate, calls, vecs)
        /\ CoveredBy(out_bq', Base, accumulate) = InQueue \cup Work(i)
    BY <1>5, <2>2, <2>5, <2>6, <2>7, QueueOutputOK DEF InQueue
  <2>9. InQueue' = InQueue \cup Work(i)
    BY <1>2, <1>8, <2>8 DEF InQueue
  <2>10. AtWork' = AtWork \ Work(i)
    <3>1. AtWork' = UNION {Work(j) : j \in Busy \ {i}}
      BY <1>12, <1>13 DEF AtWork
    <3>2. \A j \in Busy \ {i} : (Work(j) \cap Work(i)) = {}
      BY <1>4, <1>5 DEF WorkInv
    <3>3. AtWork = Work(i) \cup UNION {Work(j) : j \in Busy \ {i}}
      BY <1>4 DEF AtWork
    <3>. QED BY <3>1, <3>2, <3>3
  <2>11. (InQueue' \cup AtWork') = InQueue \cup AtWork /\ (InQueue' \cap AtWork') = {}
    BY <1>6, <2>6, <2>9, <2>10
  <2>. QED BY <1>2, <1>8, <1>9, <2>6, <2>8, <2>11 DEF OutstandingInv
<1>. QED BY <1>2, <1>5, <1>7, <1>9, <1>14, <1>15, <1>16, <1>17, ToParallel

(* When all children have ended, all rows are answered. *)
LEMMA NumberedClose ==
  ASSUME Given, Close
  PROVE  Numbered'
<1>1. /\ pc = "close" /\ pc' = "idle" /\ nchild' = 0
      /\ UNCHANGED <<why, accumulate, vecs, calls, fed, inq, zray, lastray,
                     lastdone, out_bq, output_values, cbin>>
  BY DEF Close, options, call, numbers, queue, solo
<1>2. Parallel /\ Draining /\ ~Pending
  BY <1>1 DEF Parallel, Draining, Pending
<1>3. /\ CountersInv /\ OutstandingInv /\ AnswersInOrder /\ cbin = BlackSum
      /\ RowsDone \in 0..Len(vecs) /\ RowsDone \in Nat
      /\ Base \in Int /\ Base % accumulate = 0 /\ lastray = Base + Sent
      /\ lastdone = Base + RowsDone * accumulate
  BY <1>2, ParallelFacts
<1>4. accumulate \in Nat \ {0} /\ Len(vecs) \in Nat
  BY CallFacts
<1>5. fed = RayCount /\ Len(inq) = 0 /\ RowsDone * accumulate = Sent
  BY <1>1, <1>2, <1>3 DEF CountersInv
<1>6. Sent = Len(vecs) * accumulate
  <2>1. Sent = fed - Len(inq) - 0
    BY <1>2 DEF Sent
  <2>2. RayCount \in Int
    BY <1>4 DEF RayCount
  <2>. QED BY <1>5, <2>1, <2>2 DEF RayCount
<1>7. RowsDone = Len(vecs)
  <2>1. SUFFICES ASSUME RowsDone < Len(vecs)  PROVE FALSE
    BY <1>3, <1>4
  <2>2. RowsDone * accumulate + accumulate <= Len(vecs) * accumulate
    BY <1>3, <1>4, <2>1, NextMultiple
  <2>3. RowsDone * accumulate \in Int
    BY <1>3, <1>4
  <2>. QED BY <1>4, <1>5, <1>6, <2>2, <2>3
<1>8. lastdone = lastray
  BY <1>3, <1>5
<1>9. lastray % accumulate = 0
  <2>1. Sent \in Int /\ Sent % accumulate = 0
    <3>1. Len(vecs) \in Int
      BY <1>4
    <3>2. /\ Len(vecs) * accumulate \in Int
          /\ (Len(vecs) * accumulate) % accumulate = 0
      BY <1>4, <3>1, MultipleIs
    <3>. QED BY <1>6, <3>2
  <2>. QED BY <1>3, <1>4, <2>1, QuotientOfSum
<1>10. out_bq = <<>>
  <2>1. QueueOK(out_bq, Base, accumulate, calls, vecs)
    BY <1>3 DEF OutstandingInv
  <2>2. SUFFICES ASSUME out_bq # <<>>  PROVE FALSE
    OBVIOUS
  <2>3. 1 \in 1..Len(out_bq)
    BY <2>1, <2>2, EmptySeq DEF QueueOK
  <2>4. Covered(out_bq[1], Base, accumulate) # {}
    BY <2>1, <2>3 DEF QueueOK, EntryOK
  <2>5. InQueue = {}
    <3>1. (RowsDone * accumulate + 1)..Sent = {}
      <4>1. Sent \in Int
        BY <1>4, <1>6
      <4>. QED BY <1>5, <4>1
    <3>. QED BY <1>3, <3>1 DEF OutstandingInv
  <2>. QED BY <2>3, <2>4, <2>5, InCovered DEF InQueue
<1>11. AnswersInOrder' /\ RowsDone' = RowsDone
  BY <1>1, <1>3 DEF RowsDone, AnswersInOrder, Answer, RowRays
<1>12. IdleInv'
  BY <1>1, <1>7, <1>9, <1>11 DEF IdleInv
<1>. QED BY <1>1, <1>3, <1>8, <1>10, <1>11, <1>12 DEF Numbered, Parallel

(* A batch that is sent becomes the work of a child that had none. *)
LEMMA NumberedSend ==
  ASSUME Given, Send
  PROVE  Numbered'
<1>. DEFINE L == Len(inq)
<1>0. PICK t : t = target
  OBVIOUS
<1>1. /\ pc = "send" /\ pc' = IF zray THEN "zero" ELSE "feed"
      /\ to' = [to EXCEPT ![t] = @ \o Assignment]
      /\ kida' = [kida EXCEPT ![t] = [r1 |-> lastray + 1, nr |-> L]]
      /\ lastray' = lastray + L /\ inq' = <<>> /\ kid[t] # "dead"
      /\ UNCHANGED <<why, accumulate, vecs, calls, fed, zray, nchild,
                     lastdone, out_bq, output_values, cbin, kid, from, sum>>
  BY <1>0 DEF Send, options, call, queue, solo
<1>2. Parallel /\ why = "pick"
  BY <1>1 DEF Parallel, Given, InStep, BatchInv
<1>3. /\ CountersInv /\ BatchNumbersInv /\ WorkInv /\ OutstandingInv
      /\ AnswersInOrder /\ cbin = BlackSum /\ Base \in Int /\ Sent \in Nat
      /\ RowsDone * accumulate \in Nat /\ RowsDone * accumulate <= Sent
      /\ lastray = Base + Sent /\ Base % accumulate = 0
      /\ Numbering(Base, accumulate, calls, vecs)
  BY <1>2, ParallelFacts
<1>4. /\ accumulate \in Nat \ {0} /\ Len(vecs) \in Nat /\ fed \in Nat
      /\ lastray \in Nat /\ inq \in Seq(RayIds) /\ L \in Nat /\ zray \in BOOLEAN
  BY CallFacts
<1>5. t \in Free /\ t \in Kids /\ kida[t].nr = 0 /\ t \in 0..(nchild - 1)
  <2>1. t \in Free
    BY <1>0, <1>1 DEF Given, InStep, ReadInv
  <2>. QED BY <2>1, ForkedKids DEF Free, Given
<1>6. L >= 1
  BY <1>1, <1>2, <1>4 DEF Given, InStep, BatchInv
<1>7. (Pending <=> zray) /\ (Pending' <=> zray)
  <2>1. CASE zray
    BY <1>1, <1>2, <2>1 DEF Pending
  <2>2. CASE ~zray
    BY <1>1, <2>2 DEF Pending
  <2>. QED BY <2>1, <2>2
<1>8. Sent' = Sent + L
  <2>1. Len(inq') = 0
    BY <1>1
  <2>2. CASE zray
    <3>1. Sent = fed - L - 1 /\ Sent' = fed' - Len(inq') - 1
      BY <1>7, <2>2 DEF Sent
    <3>. QED BY <1>1, <1>4, <2>1, <3>1
  <2>3. CASE ~zray
    <3>1. Sent = fed - L - 0 /\ Sent' = fed' - Len(inq') - 0
      BY <1>7, <2>3 DEF Sent
    <3>. QED BY <1>1, <1>4, <2>1, <3>1
  <2>. QED BY <2>2, <2>3
<1>9. Base' = Base
  BY <1>1, <1>3, <1>4, <1>8 DEF Base
<1>10. RowsDone' = RowsDone /\ AnswersInOrder'
  BY <1>1, <1>3 DEF RowsDone, AnswersInOrder, Answer, RowRays
<1>11. /\ kida \in [Kids -> [r1 : Nat, nr : Nat]] /\ to \in [Kids -> Seq(Items)]
       /\ to[t] = <<>> /\ from[t] = <<>> /\ sum[t] = BlackSum
       /\ kid[t] \in {"start", "run"}
  <2>1. kida \in [Kids -> [r1 : Nat, nr : Nat]] /\ to \in [Kids -> Seq(Items)]
    BY DEF Given, TypeOK
  <2>2. KidInv(t)
    BY <1>1, <1>5 DEF Given, InStep
  <2>3. kid[t] \in {"start", "run", "done", "dead"} /\ Waiting(t)
    BY <1>1, <1>5, <2>2 DEF KidInv
  <2>4. kid[t] # "done"
    BY <1>1, <1>5 DEF Given, InStep, ForkInv
  <2>. QED BY <1>1, <2>1, <2>3, <2>4 DEF Waiting
<1>12. /\ \A j : j # t => kida'[j] = kida[j] /\ to'[j] = to[j]
       /\ kida'[t] = [r1 |-> lastray + 1, nr |-> L]
       /\ to'[t] = to[t] \o Assignment
  <2>1. \A j \in Kids : j # t => kida'[j] = kida[j] /\ to'[j] = to[j]
    BY <1>1, <1>11
  <2>2. /\ kida'[t] = [r1 |-> lastray + 1, nr |-> L]
        /\ to'[t] = to[t] \o Assignment
    BY <1>1, <1>5, <1>11
  <2>3. \A j : j \notin Kids => kida'[j] = kida[j] /\ to'[j] = to[j]
    BY <1>1, <1>5, <1>11
  <2>. QED BY <2>1, <2>2, <2>3
<1>13. to'[t] = Assignment
  <2>1. Assignment \in Seq(Items)
    <3>1. inq \in Seq(Items) /\ Terminator \in Items
      BY <1>4 DEF Items
    <3>. QED BY <3>1 DEF Assignment
  <2>. QED BY <1>11, <1>12, <2>1
<1>14. Busy' = Busy \cup {t} /\ t \notin Busy
  <2>1. kida'[t].nr = L /\ L > 0
    BY <1>4, <1>6, <1>12
  <2>. HIDE DEF L
  <2>. QED BY <1>1, <1>5, <1>12, <2>1 DEF Busy
<1>15. \A j \in Busy : /\ First(j)' = First(j) /\ Work(j)' = Work(j)
                       /\ ReadSoFar(j)' = ReadSoFar(j)
                       /\ kida'[j] = kida[j] /\ to'[j] = to[j]
  BY <1>1, <1>9, <1>12, <1>14 DEF First, Work, ReadSoFar, Ending
<1>16. /\ First(t)' = Sent + 1 /\ kida'[t].nr = L
       /\ Work(t)' = (Sent + 1)..(Sent + L)
  <2>1. kida'[t].r1 = lastray + 1 /\ kida'[t].nr = L
    BY <1>12
  <2>2. First(t)' = Sent + 1
    BY <1>3, <1>9, <2>1 DEF First
  <2>. QED BY <1>3, <1>4, <2>1, <2>2 DEF Work
<1>17. Len(to'[t]) - Ending' = L /\ (\A k \in 1..L : to'[t][k] = inq[k])
  <2>1. Ending' = Ending
    BY <1>1 DEF Ending
  <2>2. CASE accumulate = 1
    BY <1>4, <1>13, <2>1, <2>2 DEF Ending, Assignment
  <2>3. CASE accumulate > 1
    <3>1. Ending = 1 /\ Assignment = Append(inq, Terminator)
      BY <2>3 DEF Ending, Assignment
    <3>2. inq \in Seq(Items) /\ Terminator \in Items
      BY <1>4 DEF Items
    <3>. QED BY <1>4, <1>13, <2>1, <3>1, <3>2
  <2>. QED BY <1>4, <2>2, <2>3
<1>. HIDE DEF L
<1>18. CountersInv'
  <2>1. RayCount' = RayCount /\ ~Draining'
    BY <1>1 DEF RayCount, Draining
  <2>2. Sent' \in Nat /\ RowsDone' * accumulate' <= Sent'
    BY <1>1, <1>3, <1>4, <1>8, <1>10
  <2>. QED BY <1>1, <1>3, <1>4, <1>7, <1>9, <1>10, <2>1, <2>2 DEF CountersInv
<1>19. BatchNumbersInv'
  <2>1. Len(inq') = 0 /\ lastray' + 0 = lastray'
    BY <1>1, <1>4
  <2>. QED BY <1>1, <2>1 DEF BatchNumbersInv
<1>20. /\ RowOf(Sent + 1, accumulate) = RowOf(Sent + L, accumulate)
       /\ vecs[RowOf(Sent + 1, accumulate)] = "ray"
  <2>1. inq # <<>> /\ 1 \in 1..Len(inq)
    BY <1>4, <1>6 DEF L
  <2>2. lastray \div accumulate = (lastray + L - 1) \div accumulate
    BY <1>3, <2>1 DEF BatchNumbersInv, L
  <2>3. (Base + Sent) \div accumulate = Base \div accumulate + Sent \div accumulate
    BY <1>3, <1>4, QuotientOfSum
  <2>4. (Base + (Sent + L - 1)) \div accumulate
          = Base \div accumulate + (Sent + L - 1) \div accumulate
    <3>1. Sent + L - 1 \in Int
      BY <1>3, <1>4
    <3>. QED BY <1>3, <1>4, <3>1, QuotientOfSum
  <2>5. Base + (Sent + L - 1) = lastray + L - 1
    BY <1>3, <1>4
  <2>6. /\ Base \div accumulate \in Int /\ Sent \div accumulate \in Int
        /\ (Sent + L - 1) \div accumulate \in Int
    <3>1. Sent + L - 1 \in Int /\ Sent \in Int
      BY <1>3, <1>4
    <3>. QED BY <1>3, <1>4, <3>1, Division
  <2>7. Sent \div accumulate = (Sent + L - 1) \div accumulate
    BY <1>3, <2>2, <2>3, <2>4, <2>5, <2>6
  <2>8. (Sent + 1) - 1 = Sent /\ (Sent + L) - 1 = Sent + L - 1
    BY <1>3, <1>4
  <2>9. RowOf(Sent + 1, accumulate) = RowOf(Sent + L, accumulate)
    BY <2>7, <2>8 DEF RowOf
  <2>10. inq[1] = <<calls, Sent + 1>> /\ Kind(inq[1]) = "ray"
    BY <1>1, <1>3, <2>1 DEF BatchNumbersInv, Given, InStep, BatchInv
  <2>. QED BY <2>9, <2>10 DEF Kind, Row, RowOf
<1>21. \A x \in AtWork \cup InQueue : x <= Sent
  BY <1>3 DEF OutstandingInv
<1>22. WorkInv'
  <2>1. Ending' = Ending
    BY <1>1 DEF Ending
  <2>2. \A j \in Busy :
          /\ First(j)' > RowsDone' * accumulate'
          /\ First(j)' + kida'[j].nr - 1 <= Sent'
          /\ RowOf(First(j)', accumulate') = RowOf(First(j)' + kida'[j].nr - 1, accumulate')
          /\ vecs'[RowOf(First(j)', accumulate')] = "ray"
    <3>1. SUFFICES ASSUME NEW j \in Busy
                   PROVE  /\ First(j)' > RowsDone' * accumulate'
                          /\ First(j)' + kida'[j].nr - 1 <= Sent'
                          /\ RowOf(First(j)', accumulate') = RowOf(First(j)' + kida'[j].nr - 1, accumulate')
                          /\ vecs'[RowOf(First(j)', accumulate')] = "ray"
      OBVIOUS
    <3>2. /\ First(j) > RowsDone * accumulate
          /\ First(j) + kida[j].nr - 1 <= Sent
          /\ RowOf(First(j), accumulate) = RowOf(First(j) + kida[j].nr - 1, accumulate)
          /\ vecs[RowOf(First(j), accumulate)] = "ray"
      BY <1>3 DEF WorkInv
    <3>3. First(j) \in Int /\ kida[j].nr \in Nat
      BY <1>2, BusyFacts
    <3>4. First(j) + kida[j].nr - 1 <= Sent'
      BY <1>3, <1>4, <1>8, <3>2, <3>3
    <3>. QED BY <1>1, <1>10, <1>15, <3>2, <3>4
  <2>3. /\ First(t)' > RowsDone' * accumulate'
        /\ First(t)' + kida'[t].nr - 1 <= Sent'
        /\ RowOf(First(t)', accumulate') = RowOf(First(t)' + kida'[t].nr - 1, accumulate')
        /\ vecs'[RowOf(First(t)', accumulate')] = "ray"
    <3>1. (Sent + 1) + L - 1 = Sent + L
      BY <1>3, <1>4
    <3>2. Sent + 1 > RowsDone * accumulate
      BY <1>3
    <3>. QED BY <1>1, <1>3, <1>4, <1>8, <1>10, <1>16, <1>20, <3>1, <3>2
  <2>4. \A j \in Busy : (Work(j)' \cap Work(t)') = {}
    <3>1. \A j \in Busy : Work(j) \subseteq AtWork
      BY DEF AtWork
    <3>2. \A x \in (Sent + 1)..(Sent + L) : ~(x <= Sent)
      BY <1>3, <1>4
    <3>. QED BY <1>15, <1>16, <1>21, <3>1, <3>2
  <2>5. \A j \in Busy : \A k \in Busy : k # j => (Work(j)' \cap Work(k)') = {}
    BY <1>3, <1>15 DEF WorkInv
  <2>6. \A j \in Busy' : \A k \in Busy' : k # j => (Work(j)' \cap Work(k)') = {}
    BY <1>14, <2>4, <2>5
  <2>7. \A j \in Busy :
          kid'[j] \in {"start", "run"} /\ to'[j] # <<>> =>
             /\ \A k \in 1..(Len(to'[j]) - Ending') :
                  to'[j][k] = <<calls', First(j)' + ReadSoFar(j)' + k - 1>>
             /\ sum'[j] = SumFrom(First(j)', ReadSoFar(j)', calls')
    <3>1. UNCHANGED <<kid, sum, calls>>
      BY <1>1
    <3>2. \A j \in Busy :
            kid[j] \in {"start", "run"} /\ to[j] # <<>> =>
               /\ \A k \in 1..(Len(to[j]) - Ending) :
                    to[j][k] = <<calls, First(j) + ReadSoFar(j) + k - 1>>
               /\ sum[j] = SumFrom(First(j), ReadSoFar(j), calls)
      BY <1>3 DEF WorkInv
    <3>. QED BY <1>15, <2>1, <3>1, <3>2
  <2>8. \A j \in Busy :
          /\ kid'[j] = "write" => sum'[j] = SumFrom(First(j)', kida'[j].nr, calls')
          /\ from'[j] # <<>> => from'[j][1] = SumFrom(First(j)', kida'[j].nr, calls')
    BY <1>1, <1>3, <1>15 DEF WorkInv
  <2>9. /\ \A k \in 1..(Len(to'[t]) - Ending') :
             to'[t][k] = <<calls', First(t)' + ReadSoFar(t)' + k - 1>>
        /\ sum'[t] = SumFrom(First(t)', ReadSoFar(t)', calls')
    <3>1. ReadSoFar(t)' = 0
      BY <1>4, <1>16, <1>17 DEF ReadSoFar
    <3>2. \A k \in 1..L : (Sent + 1) + 0 + k - 1 = Sent + k
      BY <1>3, <1>4
    <3>3. \A k \in 1..L : inq[k] = <<calls, Sent + k>>
      BY <1>3 DEF BatchNumbersInv, L
    <3>4. SumFrom(Sent + 1, 0, calls) = BlackSum
      <4>1. (Sent + 1)..(Sent + 1 + 0 - 1) = {}
        BY <1>3
      <4>. QED BY <4>1 DEF SumFrom, BlackSum
    <3>5. sum'[t] = BlackSum
      BY <1>1, <1>11
    <3>6. First(t)' = Sent + 1 /\ calls' = calls
      BY <1>1, <1>16
    <3>7. \A k \in 1..L : to'[t][k] = <<calls', First(t)' + ReadSoFar(t)' + k - 1>>
      BY <1>17, <3>1, <3>2, <3>3, <3>6
    <3>8. sum'[t] = SumFrom(First(t)', ReadSoFar(t)', calls')
      BY <3>1, <3>4, <3>5, <3>6
    <3>. QED BY <1>17, <3>7, <3>8
  <2>10. kid'[t] \in {"start", "run"} /\ from'[t] = <<>>
    BY <1>1, <1>11
  <2>. QED BY <1>14, <2>2, <2>3, <2>6, <2>7, <2>8, <2>9, <2>10 DEF WorkInv
<1>23. OutstandingInv'
  <2>1. AtWork' = AtWork \cup (Sent + 1)..(Sent + L)
    BY <1>14, <1>15, <1>16 DEF AtWork
  <2>2. InQueue' = InQueue
    BY <1>1, <1>9 DEF InQueue
  <2>3. /\ QueueOK(out_bq, Base, accumulate, calls, vecs)
        /\ (InQueue \cup AtWork) = (RowsDone * accumulate + 1)..Sent
        /\ (InQueue \cap AtWork) = {}
    BY <1>3 DEF OutstandingInv
  <2>. DEFINE p == RowsDone * accumulate
  <2>. HIDE DEF p
  <2>4. (p + 1)..Sent \cup (Sent + 1)..(Sent + L) = (p + 1)..(Sent + L)
    <3>1. p \in Nat /\ p <= Sent
      BY <1>3 DEF p
    <3>. QED BY <1>3, <1>4, <3>1
  <2>5. (InQueue \cap (Sent + 1)..(Sent + L)) = {}
    BY <1>3, <1>4, <1>21
  <2>. QED BY <1>1, <1>8, <1>9, <1>10, <2>1, <2>2, <2>3, <2>4, <2>5
           DEF OutstandingInv, p
<1>24. pc' \notin {"exit", "idle", "solo"}
  BY <1>1, <1>4
<1>. QED BY <1>1, <1>3, <1>10, <1>18, <1>19, <1>22, <1>23, <1>24, ToParallel

-----------------------------------------------------------------------------
(* The sum of rays of a row one after the other, from none. *)
LEMMA SumGrows ==
  ASSUME NEW m \in Int, NEW n \in Nat, NEW c
  PROVE  /\ AddSum(SumFrom(m, n, c), RaySum(<<c, m + n>>)) = SumFrom(m, n + 1, c)
         /\ SumFrom(m, 0, c) = BlackSum
<1>1. m..(m + (n + 1) - 1) = m..(m + n - 1) \cup {m + n}
  OBVIOUS
<1>2. m..(m + 0 - 1) = {}
  OBVIOUS
<1>. DEFINE R == m..(m + n - 1)  S == m..(m + (n + 1) - 1)
<1>3. S = R \cup {m + n}
  BY <1>1
<1>. HIDE DEF R, S
<1>4. {<<c, x>> : x \in S} = {<<c, x>> : x \in R} \cup {<<c, m + n>>}
  BY <1>3
<1>5. AddSum(SumFrom(m, n, c), RaySum(<<c, m + n>>)) = SumFrom(m, n + 1, c)
  <2>1. SumFrom(m, n + 1, c) = [rays |-> {<<c, x>> : x \in S}, n |-> n + 1]
    BY DEF SumFrom, S
  <2>2. SumFrom(m, n, c) = [rays |-> {<<c, x>> : x \in R}, n |-> n]
    BY DEF SumFrom, R
  <2>. DEFINE P == {<<c, x>> : x \in R}  Q == {<<c, x>> : x \in S}
  <2>3. SumFrom(m, n + 1, c) = [rays |-> Q, n |-> n + 1]
        /\ SumFrom(m, n, c) = [rays |-> P, n |-> n] /\ Q = P \cup {<<c, m + n>>}
    BY <1>4, <2>1, <2>2
  <2>. HIDE DEF P, Q
  <2>. QED BY <2>3 DEF AddSum, RaySum
<1>6. SumFrom(m, 0, c) = BlackSum
  BY <1>2 DEF SumFrom, BlackSum
<1>. QED BY <1>5, <1>6

(* The answer of a row is the sum of its rays, one after the other. *)
LEMMA AnswerIsSum ==
  ASSUME NEW r \in Nat, accumulate \in Nat
  PROVE  Answer(r + 1) = IF vecs[r + 1] = "ray"
                         THEN SumFrom(r * accumulate + 1, accumulate, calls)
                         ELSE BlackSum
<1>1. (r + 1) - 1 = r
  OBVIOUS
<1>2. (r + 1) * accumulate = (r * accumulate + 1) + accumulate - 1
  <2>1. (r + 1) * accumulate = r * accumulate + accumulate
    OBVIOUS
  <2>. QED BY <2>1
<1>. QED BY <1>1, <1>2 DEF Answer, RowRays, SumFrom

LEMMA NumberedSoloRay ==
  ASSUME Given, SoloRay
  PROVE  Numbered'
<1>. DEFINE d == RowsDone  r == fed % accumulate  x == Contribution(NextRay)
            A(s) == s = IF vecs[d + 1] = "ray"
                        THEN SumFrom(d * accumulate + 1, r, calls) ELSE BlackSum
<1>1. /\ pc = "solo" /\ fed < RayCount /\ fed' = fed + 1
      /\ lastray' = lastray + 1 /\ lastdone' = lastdone + 1
      /\ UNCHANGED <<pc, accumulate, vecs, calls, out_bq>>
  BY DEF SoloRay, options
<1>2. /\ SoloInv /\ AnswersInOrder /\ lastdone = lastray /\ out_bq = <<>>
  BY <1>1 DEF Given, Numbered
<1>3. /\ accumulate \in Nat \ {0} /\ fed \in Nat /\ Len(vecs) \in Nat
      /\ lastray \in Nat /\ calls \in 1..MaxCalls
  BY <1>1, CallFacts
<1>4. /\ d = fed \div accumulate /\ d \in Nat /\ r \in 0..(accumulate - 1)
      /\ fed = d * accumulate + r /\ d * accumulate \in Nat
  <2>1. d = fed \div accumulate /\ d \in Nat
    BY <1>2 DEF SoloInv, AnswersInOrder, RowsDone
  <2>2. /\ r \in 0..(accumulate - 1)
        /\ fed = (fed \div accumulate) * accumulate + r
    BY <1>3, Division
  <2>3. d * accumulate \in Nat
    BY <1>3, <2>1
  <2>. QED BY <2>1, <2>2, <2>3
<1>5. /\ account = accumulate - r
      /\ cbin = IF r > 0 /\ Kind(<<calls, fed>>) = "ray"
                THEN SumFrom(d * accumulate + 1, r, calls) ELSE BlackSum
      /\ (lastray - fed) % accumulate = 0
  BY <1>2 DEF SoloInv
<1>6. Kind(NextRay) = vecs[d + 1] /\ Kind(NextRay)' = vecs[(fed + 1) \div accumulate + 1]
  <2>1. (fed + 1) - 1 = fed /\ (fed' + 1) - 1 = fed + 1
    BY <1>1, <1>3
  <2>. QED BY <1>1, <1>4, <2>1 DEF Kind, Row, NextRay
<1>7. A(cbin)
  <2>1. CASE r > 0
    <3>1. (fed - 1) \div accumulate = d
      <4>1. d \in Int /\ fed - 1 \in Int /\ d * accumulate <= fed - 1
            /\ fed - 1 < d * accumulate + accumulate
        BY <1>3, <1>4, <2>1
      <4>. HIDE DEF d
      <4>. QED BY <1>3, <4>1, QuotientIs
    <3>2. Kind(<<calls, fed>>) = vecs[d + 1]
      BY <3>1 DEF Kind, Row
    <3>. QED BY <1>5, <2>1, <3>2
  <2>2. CASE r = 0
    <3>1. d * accumulate + 1 \in Int
      BY <1>4
    <3>2. SumFrom(d * accumulate + 1, 0, calls) = BlackSum
      BY <3>1, SumGrows
    <3>. QED BY <1>5, <2>2, <3>2
  <2>. QED BY <1>4, <2>1, <2>2
<1>8. AddSum(cbin, x) = IF vecs[d + 1] = "ray"
                        THEN SumFrom(d * accumulate + 1, r + 1, calls)
                        ELSE BlackSum
  <2>1. CASE vecs[d + 1] = "ray"
    <3>1. x = RaySum(<<calls, fed + 1>>)
      BY <1>6, <2>1 DEF Contribution, NextRay
    <3>2. cbin = SumFrom(d * accumulate + 1, r, calls)
      BY <1>7, <2>1
    <3>3. fed + 1 = (d * accumulate + 1) + r /\ d * accumulate + 1 \in Int /\ r \in Nat
      BY <1>3, <1>4
    <3>. HIDE DEF x, d, r
    <3>4. AddSum(SumFrom(d * accumulate + 1, r, calls),
                 RaySum(<<calls, (d * accumulate + 1) + r>>))
            = SumFrom(d * accumulate + 1, r + 1, calls)
      BY <3>3, SumGrows
    <3>. QED BY <2>1, <3>1, <3>2, <3>3, <3>4
  <2>2. CASE vecs[d + 1] # "ray"
    <3>1. x = BlackSum /\ cbin = BlackSum
      BY <1>6, <1>7, <2>2 DEF Contribution
    <3>2. AddSum(BlackSum, BlackSum) = BlackSum
      BY DEF AddSum, BlackSum
    <3>. QED BY <2>2, <3>1, <3>2
  <2>. QED BY <2>1, <2>2
<1>9. fed' <= RayCount' /\ (lastray' - fed') % accumulate' = 0
  <2>1. RayCount' = RayCount /\ RayCount \in Int
    BY <1>1, <1>3 DEF RayCount
  <2>2. lastray' - fed' = lastray - fed
    BY <1>1, <1>3
  <2>. QED BY <1>1, <1>3, <1>5, <2>1, <2>2
<1>10. \A k : Answer(k)' = Answer(k)
  BY <1>1 DEF Answer, RowRays
<1>. HIDE DEF d, r, x
<1>11. CASE account > 1
  <2>1. /\ account' = account - 1 /\ cbin' = AddSum(cbin, x)
        /\ output_values' = output_values
    BY <1>11 DEF SoloRay, x
  <2>2. (fed + 1) \div accumulate = d /\ (fed + 1) % accumulate = r + 1
    <3>1. d \in Int /\ fed + 1 \in Int /\ d * accumulate <= fed + 1
          /\ fed + 1 < d * accumulate + accumulate /\ fed + 1 - d * accumulate = r + 1
      BY <1>3, <1>4, <1>5, <1>11
    <3>2. (fed + 1) \div accumulate = d /\ (fed + 1) % accumulate = fed + 1 - d * accumulate
      <4>. DEFINE y == fed + 1
      <4>1. y \in Int /\ d * accumulate <= y /\ y < d * accumulate + accumulate
        BY <3>1
      <4>. HIDE DEF y
      <4>2. y \div accumulate = d
        BY <1>3, <3>1, <4>1, QuotientIs
      <4>3. y % accumulate = y - d * accumulate
        BY <1>3, <3>1, <4>1, QuotientIs
      <4>4. y = fed + 1
        BY DEF y
      <4>. QED BY <1>3, <3>1, <4>1, <4>2, <4>3, <4>4
    <3>. QED BY <3>1, <3>2
  <2>3. RowsDone' = d
    BY <2>1 DEF RowsDone, d
  <2>4. AnswersInOrder'
    BY <1>2, <1>10, <2>1 DEF AnswersInOrder, RowsDone
  <2>5. account' = accumulate - (r + 1)
    BY <1>3, <1>4, <1>5, <2>1
  <2>6. Kind(<<calls, fed>>)' = vecs[d + 1]
    <3>1. (fed + 1) - 1 = fed
      BY <1>3
    <3>. QED BY <1>1, <1>4, <3>1 DEF Kind, Row
  <2>7. r + 1 > 0
    BY <1>4
  <2>8. SoloInv'
    BY <1>1, <1>8, <1>9, <2>1, <2>2, <2>3, <2>5, <2>6, <2>7 DEF SoloInv
  <2>. QED BY <1>1, <1>2, <2>4, <2>8 DEF Numbered, Parallel
<1>12. CASE account = 1
  <2>1. /\ account' = accumulate /\ cbin' = BlackSum
        /\ output_values' = Append(output_values, AddSum(cbin, x))
    BY <1>12 DEF SoloRay, x
  <2>2. r + 1 = accumulate
    BY <1>3, <1>4, <1>5, <1>12
  <2>3. (fed + 1) \div accumulate = d + 1 /\ (fed + 1) % accumulate = 0
    <3>1. fed + 1 = (d + 1) * accumulate /\ d + 1 \in Int
      <4>1. (d + 1) * accumulate = d * accumulate + accumulate
        BY <1>3, <1>4
      <4>. QED BY <1>3, <1>4, <2>2, <4>1
    <3>2. ((d + 1) * accumulate) \div accumulate = d + 1
          /\ ((d + 1) * accumulate) % accumulate = 0
      BY <1>3, <3>1, MultipleIs
    <3>. QED BY <3>1, <3>2
  <2>4. AddSum(cbin, x) = Answer(d + 1)
    <3>1. accumulate \in Nat
      BY <1>3
    <3>. QED BY <1>4, <1>8, <2>2, <3>1, AnswerIsSum
  <2>5. AddSum(cbin, x) \in Sums(RayIds)
    <3>1. NextRay \in RayIds
      BY <1>1, NextRayTypes DEF Given, InStep
    <3>2. cbin \in Sums(RayIds)
      BY DEF Given, TypeOK
    <3>3. x \in Sums(RayIds)
      BY <3>1, SumTypes DEF x, Contribution
    <3>. QED BY <3>2, <3>3, SumTypes
  <2>. DEFINE s == AddSum(cbin, x)
  <2>. HIDE DEF s
  <2>6. /\ output_values' \in Seq(Sums(RayIds)) /\ Len(output_values') = d + 1
        /\ \A k \in 1..d : output_values'[k] = output_values[k]
        /\ output_values'[d + 1] = s
    <3>1. s \in Sums(RayIds) /\ output_values \in Seq(Sums(RayIds))
          /\ output_values' = Append(output_values, s) /\ d = Len(output_values)
      BY <1>2, <2>1, <2>5 DEF s, AnswersInOrder, RowsDone, d
    <3>. QED BY <3>1
  <2>7. RowsDone' = d + 1
    BY <2>6 DEF RowsDone
  <2>8. AnswersInOrder'
    <3>1. \A k \in 1..d : output_values[k] = Answer(k)
      BY <1>2 DEF AnswersInOrder, d
    <3>2. \A k \in 1..(d + 1) : k \in 1..d \/ k = d + 1
      BY <1>4
    <3>. QED BY <1>10, <2>4, <2>6, <2>7, <3>1, <3>2 DEF AnswersInOrder, s
  <2>9. accumulate - 0 = accumulate
    BY <1>3
  <2>10. SoloInv'
    BY <1>1, <1>9, <2>1, <2>3, <2>7, <2>9 DEF SoloInv
  <2>. QED BY <1>1, <1>2, <2>8, <2>10 DEF Numbered, Parallel
<1>13. account > 1 \/ account = 1
  BY DEF SoloRay
<1>. QED BY <1>11, <1>12, <1>13

LEMMA NumberedSoloEnd ==
  ASSUME Given, SoloEnd
  PROVE  Numbered'
<1>1. /\ pc = "solo" /\ fed = RayCount /\ pc' = "idle"
      /\ UNCHANGED <<accumulate, vecs, calls, lastray, lastdone, out_bq,
                     output_values, cbin>>
  BY DEF SoloEnd, options, call, numbers, queue, solo
<1>2. /\ SoloInv /\ AnswersInOrder /\ lastdone = lastray /\ out_bq = <<>>
  BY <1>1 DEF Given, Numbered
<1>3. accumulate \in Nat \ {0} /\ Len(vecs) \in Int /\ lastray \in Nat /\ fed \in Nat
  BY CallFacts
<1>4. fed \div accumulate = Len(vecs) /\ fed % accumulate = 0
  <2>1. /\ (Len(vecs) * accumulate) \div accumulate = Len(vecs)
        /\ (Len(vecs) * accumulate) % accumulate = 0
    BY <1>3, MultipleIs
  <2>. QED BY <1>1, <2>1 DEF RayCount
<1>5. RowsDone = Len(vecs) /\ cbin = BlackSum
  BY <1>2, <1>4 DEF SoloInv
<1>6. lastray % accumulate = 0
  <2>. DEFINE b == lastray - fed
  <2>1. b \in Int /\ b % accumulate = 0 /\ b + fed = lastray
    BY <1>2, <1>3 DEF SoloInv
  <2>. HIDE DEF b
  <2>2. (b + fed) % accumulate = fed % accumulate
    <3>1. fed \in Int
      BY <1>3
    <3>. QED BY <1>3, <2>1, <3>1, QuotientOfSum
  <2>. QED BY <1>4, <2>1, <2>2
<1>7. AnswersInOrder' /\ RowsDone' = RowsDone
  BY <1>1, <1>2 DEF RowsDone, AnswersInOrder, Answer, RowRays
<1>8. IdleInv'
  BY <1>1, <1>5, <1>6, <1>7 DEF IdleInv
<1>. QED BY <1>1, <1>2, <1>5, <1>7, <1>8 DEF Numbered, Parallel

-----------------------------------------------------------------------------
(* What is said of the work of one child. *)
KidWork(i) ==
  /\ kid[i] \in {"start", "run"} /\ to[i] # <<>> =>
       /\ \A k \in 1..(Len(to[i]) - Ending) :
            to[i][k] = <<calls, First(i) + ReadSoFar(i) + k - 1>>
       /\ sum[i] = SumFrom(First(i), ReadSoFar(i), calls)
  /\ kid[i] = "write" => sum[i] = SumFrom(First(i), kida[i].nr, calls)
  /\ from[i] # <<>> => from[i][1] = SumFrom(First(i), kida[i].nr, calls)

(* A step of a child, in which the controller does nothing. *)
KidOnly(i) ==
  /\ UNCHANGED <<pc, why, options, call, inq, zray, nchild, kida, numbers,
                 queue, solo>>
  /\ \A j \in Kids \ {i} : /\ kid'[j] = kid[j] /\ to'[j] = to[j]
                           /\ from'[j] = from[j] /\ sum'[j] = sum[j]

LEMMA NumberedKid ==
  ASSUME Given, NEW i \in Kids, KidOnly(i),
         Parallel /\ i \in Busy => KidWork(i)'
  PROVE  Numbered'
<1>1. UNCHANGED <<pc, why, accumulate, vecs, calls, fed, inq, zray, nchild,
                  kida, lastray, lastdone, out_bq, output_values, account, cbin>>
  BY DEF KidOnly, options, call, numbers, queue, solo
<1>2. /\ Pending' = Pending /\ Sent' = Sent /\ Base' = Base
      /\ RayCount' = RayCount /\ RowsDone' = RowsDone /\ Draining' = Draining
      /\ Parallel' = Parallel /\ Ending' = Ending
  BY <1>1 DEF Pending, Sent, Base, RayCount, RowsDone, Draining, Parallel, Ending
<1>3. /\ Busy' = Busy
      /\ \A j : First(j)' = First(j) /\ Work(j)' = Work(j)
  BY <1>1, <1>2 DEF Busy, First, Work
<1>4. AtWork' = AtWork /\ InQueue' = InQueue
  BY <1>1, <1>2, <1>3 DEF AtWork, InQueue
<1>5. AnswersInOrder => AnswersInOrder'
  BY <1>1 DEF AnswersInOrder, RowsDone, Answer, RowRays
<1>6. IdleInv => IdleInv'
  BY <1>1, <1>2 DEF IdleInv
<1>7. SoloInv => SoloInv'
  BY <1>1, <1>2 DEF SoloInv, Kind, Row
<1>8. CountersInv => CountersInv'
  BY <1>1, <1>2 DEF CountersInv
<1>9. BatchNumbersInv => BatchNumbersInv'
  BY <1>1, <1>2 DEF BatchNumbersInv
<1>10. OutstandingInv => OutstandingInv'
  BY <1>1, <1>2, <1>4 DEF OutstandingInv
<1>11. ASSUME Parallel, WorkInv  PROVE WorkInv'
  <2>1. \A j \in Busy :
          /\ First(j)' > RowsDone' * accumulate'
          /\ First(j)' + kida'[j].nr - 1 <= Sent'
          /\ RowOf(First(j)', accumulate') = RowOf(First(j)' + kida'[j].nr - 1, accumulate')
          /\ vecs'[RowOf(First(j)', accumulate')] = "ray"
          /\ \A k \in Busy : k # j => (Work(j)' \cap Work(k)') = {}
    BY <1>1, <1>2, <1>3, <1>11 DEF WorkInv
  <2>2. ASSUME NEW j \in Busy  PROVE KidWork(j)'
    <3>1. CASE j = i
      BY <1>11, <2>2, <3>1
    <3>2. CASE j # i
      <4>1. j \in Kids
        BY <1>11, <2>2, BusyFacts
      <4>2. kid'[j] = kid[j] /\ to'[j] = to[j] /\ from'[j] = from[j] /\ sum'[j] = sum[j]
        BY <3>2, <4>1 DEF KidOnly
      <4>3. KidWork(j)
        BY <1>11 DEF WorkInv, KidWork
      <4>4. ReadSoFar(j)' = ReadSoFar(j)
        BY <1>1, <1>2, <4>2 DEF ReadSoFar
      <4>. QED BY <1>1, <1>2, <1>3, <4>2, <4>3, <4>4 DEF KidWork
    <3>. QED BY <3>1, <3>2
  <2>3. \A j \in Busy :
          /\ kid'[j] \in {"start", "run"} /\ to'[j] # <<>> =>
               /\ \A k \in 1..(Len(to'[j]) - Ending') :
                    to'[j][k] = <<calls', First(j)' + ReadSoFar(j)' + k - 1>>
               /\ sum'[j] = SumFrom(First(j)', ReadSoFar(j)', calls')
          /\ kid'[j] = "write" => sum'[j] = SumFrom(First(j)', kida'[j].nr, calls')
          /\ from'[j] # <<>> => from'[j][1] = SumFrom(First(j)', kida'[j].nr, calls')
    BY <2>2 DEF KidWork
  <2>. QED BY <1>3, <2>1, <2>3 DEF WorkInv
<1>. QED BY <1>1, <1>2, <1>5, <1>6, <1>7, <1>8, <1>9, <1>10, <1>11
         DEF Given, Numbered

(* What a busy child has to read, as InStep has it and as Numbered does. *)
LEMMA BusyKid ==
  ASSUME Given, Parallel, NEW i \in Busy
  PROVE  /\ KidInv(i) /\ KidWork(i) /\ i \in Kids
         /\ to[i] \in Seq(Items) /\ from[i] \in Seq(Sums(RayIds))
         /\ kida[i].nr \in Nat \ {0} /\ First(i) \in Int
<1>1. i \in 0..(nchild - 1) /\ pc # "exit"
  BY DEF Busy, Parallel
<1>2. KidInv(i)
  BY <1>1 DEF Given, InStep
<1>3. KidWork(i)
  BY ParallelFacts DEF WorkInv, KidWork
<1>. QED BY <1>2, <1>3, BusyFacts DEF Given, TypeOK

LEMMA NumberedKidReads ==
  ASSUME Given, NEW i \in Kids, KidReads(i)
  PROVE  Numbered'
<1>. DEFINE item == Head(to[i])  L == Len(to[i])
<1>1. /\ kid[i] = "run" /\ to[i] # <<>>
      /\ to' = [to EXCEPT ![i] = Tail(@)]
      /\ sum' = IF IsZeroItem(item) THEN sum
                ELSE [sum EXCEPT ![i] = AddSum(@, RaySum(item))]
      /\ kid' = IF IsZeroItem(item) \/ accumulate = 1
                THEN [kid EXCEPT ![i] = "write"] ELSE kid
      /\ UNCHANGED <<pc, why, options, call, inq, zray, nchild, kida,
                     numbers, queue, solo, from>>
  BY DEF KidReads
<1>2. /\ to \in [Kids -> Seq(Items)] /\ sum \in [Kids -> Sums(RayIds)]
      /\ kid \in [Kids -> KidStates]
  BY DEF Given, TypeOK
<1>3. KidOnly(i)
  BY <1>1, <1>2 DEF KidOnly
<1>4. ASSUME Parallel, i \in Busy  PROVE KidWork(i)'
  <2>1. /\ KidInv(i) /\ KidWork(i) /\ to[i] \in Seq(Items)
        /\ kida[i].nr \in Nat \ {0} /\ First(i) \in Int
    BY <1>4, BusyKid
  <2>2. Reading(i)
    BY <1>1, <2>1 DEF KidInv
  <2>3. L \in Nat \ {0} /\ item = to[i][1] /\ accumulate \in Nat \ {0}
    BY <1>1, <2>1, CallFacts, EmptySeq
  <2>4. /\ from[i] = <<>>
        /\ accumulate = 1 => L = 1
        /\ accumulate > 1 => to[i][L] = Terminator
        /\ \A k \in 1..(L - Ending) : to[i][k] # Terminator /\ Kind(to[i][k]) = "ray"
    BY <2>2 DEF Reading
  <2>5. /\ \A k \in 1..(L - Ending) :
             to[i][k] = <<calls, First(i) + ReadSoFar(i) + k - 1>>
        /\ sum[i] = SumFrom(First(i), ReadSoFar(i), calls)
    BY <1>1, <2>1 DEF KidWork
  <2>6. UNCHANGED <<calls, kida, from, accumulate, lastray, fed, inq, zray, pc, why>>
    BY <1>1 DEF call, options, numbers
  <2>7. First(i)' = First(i) /\ Ending' = Ending
    <3>1. Base' = Base
      BY <2>6 DEF Base, Sent, Pending
    <3>. QED BY <2>6, <3>1 DEF First, Ending
  <2>8. Ending \in {0, 1} /\ (accumulate = 1 => Ending = 0)
        /\ (accumulate > 1 => Ending = 1)
    BY DEF Ending
  <2>9. /\ to'[i] = Tail(to[i]) /\ Len(to'[i]) = L - 1
        /\ \A k \in 1..(L - 1) : to'[i][k] = to[i][k + 1]
    BY <1>1, <1>2, <2>1
  <2>10. ReadSoFar(i) \in Int /\ ReadSoFar(i) = kida[i].nr - (L - Ending)
         /\ ReadSoFar(i)' = kida[i].nr - (L - 1 - Ending)
         /\ ReadSoFar(i)' = ReadSoFar(i) + 1
    <3>1. ReadSoFar(i)' = kida[i].nr - (L - 1 - Ending)
      BY <2>6, <2>7, <2>9 DEF ReadSoFar
    <3>. QED BY <2>1, <2>3, <2>8, <3>1 DEF ReadSoFar
  <2>11. ReadSoFar(i) \in Nat
    <3>1. sum[i].n = ReadSoFar(i)
      BY <2>5 DEF SumFrom
    <3>2. sum[i].n \in Nat
      BY <1>2 DEF Sums
    <3>. QED BY <3>1, <3>2
  <2>. HIDE DEF L
  <2>12. CASE 1 <= L - Ending
    <3>1. /\ item = <<calls, First(i) + ReadSoFar(i)>> /\ ~IsZeroItem(item)
      <4>1. 1 \in 1..(L - Ending)
        BY <2>3, <2>8, <2>12
      <4>2. First(i) + ReadSoFar(i) + 1 - 1 = First(i) + ReadSoFar(i)
        BY <2>1, <2>10
      <4>. QED BY <2>3, <2>4, <2>5, <4>1, <4>2 DEF IsZeroItem
    <3>2. sum'[i] = SumFrom(First(i), ReadSoFar(i) + 1, calls)
      <4>1. sum'[i] = AddSum(sum[i], RaySum(item))
        BY <1>1, <1>2, <3>1
      <4>2. AddSum(SumFrom(First(i), ReadSoFar(i), calls),
                   RaySum(<<calls, First(i) + ReadSoFar(i)>>))
              = SumFrom(First(i), ReadSoFar(i) + 1, calls)
        BY <2>1, <2>11, SumGrows
      <4>. QED BY <2>5, <3>1, <4>1, <4>2
    <3>3. CASE accumulate = 1
      <4>1. kid'[i] = "write" /\ from'[i] = <<>>
        BY <1>1, <1>2, <2>4, <2>6, <3>3
      <4>2. ReadSoFar(i) + 1 = kida[i].nr
        BY <2>1, <2>3, <2>4, <2>8, <2>10, <3>3
      <4>. QED BY <2>6, <2>7, <3>2, <4>1, <4>2 DEF KidWork
    <3>4. CASE accumulate > 1
      <4>1. kid'[i] = "run" /\ from'[i] = <<>>
        BY <1>1, <2>4, <2>6, <3>1, <3>4
      <4>2. \A k \in 1..(L - 1 - Ending) :
              /\ k + 1 \in 1..(L - Ending) /\ k \in 1..(L - 1)
              /\ First(i) + ReadSoFar(i) + (k + 1) - 1
                   = First(i) + (ReadSoFar(i) + 1) + k - 1
        BY <2>1, <2>3, <2>8, <2>10, SMTT(30)
      <4>3. \A k \in 1..(Len(to'[i]) - Ending') :
              to'[i][k] = <<calls', First(i)' + ReadSoFar(i)' + k - 1>>
        <5>1. Len(to'[i]) - Ending' = L - 1 - Ending
          BY <2>7, <2>9
        <5>2. \A k \in 1..(L - 1 - Ending) :
                to'[i][k] = <<calls, First(i) + (ReadSoFar(i) + 1) + k - 1>>
          BY <2>5, <2>9, <4>2
        <5>. QED BY <2>6, <2>7, <2>10, <5>1, <5>2
      <4>4. sum'[i] = SumFrom(First(i)', ReadSoFar(i)', calls')
        BY <2>6, <2>7, <2>10, <3>2
      <4>. QED BY <4>1, <4>3, <4>4 DEF KidWork
    <3>. QED BY <2>3, <3>3, <3>4
  <2>13. CASE L - Ending < 1
    <3>1. L = 1 /\ Ending = 1 /\ accumulate > 1
      BY <2>3, <2>8, <2>13
    <3>2. item = Terminator
      BY <2>3, <2>4, <3>1
    <3>3. /\ kid'[i] = "write" /\ sum'[i] = sum[i] /\ from'[i] = <<>>
      BY <1>1, <1>2, <2>4, <2>6, <3>2 DEF IsZeroItem
    <3>4. ReadSoFar(i) = kida[i].nr
      BY <2>1, <2>10, <3>1
    <3>. QED BY <2>5, <2>6, <2>7, <3>3, <3>4 DEF KidWork
  <2>. QED BY <2>3, <2>8, <2>12, <2>13
<1>. QED BY <1>3, <1>4, NumberedKid

LEMMA NumberedKidWrites ==
  ASSUME Given, NEW i \in Kids, KidWrites(i)
  PROVE  Numbered'
<1>1. /\ kid[i] = "write"
      /\ from' = [from EXCEPT ![i] = Append(@, sum[i])]
      /\ sum' = [sum EXCEPT ![i] = BlackSum]
      /\ kid' = [kid EXCEPT ![i] = "run"]
      /\ UNCHANGED <<pc, why, options, call, inq, zray, nchild, kida,
                     numbers, queue, solo, to>>
  BY DEF KidWrites
<1>2. /\ from \in [Kids -> Seq(Sums(RayIds))] /\ sum \in [Kids -> Sums(RayIds)]
      /\ kid \in [Kids -> KidStates]
  BY DEF Given, TypeOK
<1>3. KidOnly(i)
  BY <1>1, <1>2 DEF KidOnly
<1>4. ASSUME Parallel, i \in Busy  PROVE KidWork(i)'
  <2>1. KidInv(i) /\ KidWork(i) /\ kida[i].nr \in Nat \ {0}
    BY <1>4, BusyKid
  <2>2. to[i] = <<>> /\ from[i] = <<>>
    BY <1>1, <2>1 DEF KidInv
  <2>3. sum[i] = SumFrom(First(i), kida[i].nr, calls)
    BY <1>1, <2>1 DEF KidWork
  <2>4. First(i)' = First(i) /\ UNCHANGED <<calls, kida, to>>
    <3>1. UNCHANGED <<calls, kida, lastray, fed, inq, zray, pc, why>>
      BY <1>1 DEF call, options, numbers
    <3>2. Base' = Base
      BY <3>1 DEF Base, Sent, Pending
    <3>. QED BY <1>1, <3>1, <3>2 DEF First
  <2>5. kid'[i] = "run" /\ to'[i] = <<>> /\ from'[i] = Append(<<>>, sum[i])
    BY <1>1, <1>2, <2>2
  <2>6. from'[i][1] = sum[i]
    BY <2>5
  <2>. QED BY <2>3, <2>4, <2>5, <2>6 DEF KidWork
<1>. QED BY <1>3, <1>4, NumberedKid

LEMMA NumberedKidStarts ==
  ASSUME Given, NEW i \in Kids, KidStarts(i)
  PROVE  Numbered'
<1>1. /\ kid[i] = "start" /\ kid' = [kid EXCEPT ![i] = "run"]
      /\ UNCHANGED <<pc, why, options, call, inq, zray, nchild, kida,
                     numbers, queue, solo, to, from, sum>>
  BY DEF KidStarts
<1>2. kid \in [Kids -> KidStates]
  BY DEF Given, TypeOK
<1>3. KidOnly(i)
  BY <1>1, <1>2 DEF KidOnly
<1>4. ASSUME Parallel, i \in Busy  PROVE KidWork(i)'
  <2>1. KidWork(i)
    BY <1>4, BusyKid
  <2>2. kid'[i] = "run"
    BY <1>1, <1>2
  <2>3. UNCHANGED <<pc, why, accumulate, calls, fed, inq, zray, kida, lastray,
                    to, from, sum>>
    BY <1>1 DEF options, call, numbers
  <2>4. Base' = Base /\ Ending' = Ending
    BY <2>3 DEF Base, Sent, Pending, Ending
  <2>5. First(i)' = First(i) /\ ReadSoFar(i)' = ReadSoFar(i)
    BY <2>3, <2>4 DEF First, ReadSoFar
  <2>. QED BY <1>1, <2>1, <2>2, <2>3, <2>4, <2>5 DEF KidWork
<1>. QED BY <1>3, <1>4, NumberedKid

(* The end of the input, a record nobody reads, and the end of a child. *)
LEMMA NumberedKidStops ==
  ASSUME Given, NEW i \in Kids,
         KidBrokenPipe(i) \/ KidEnds(i) \/ KidDies(i)
  PROVE  Numbered'
<1>1. CASE KidBrokenPipe(i)
  <2>1. pc' = "exit"
    BY <1>1 DEF KidBrokenPipe
  <2>. QED BY <2>1 DEF Numbered
<1>2. CASE KidEnds(i) \/ KidDies(i)
  <2>1. /\ kid' = [kid EXCEPT ![i] = "done"] \/ kid' = [kid EXCEPT ![i] = "dead"]
        /\ UNCHANGED <<pc, why, options, call, inq, zray, nchild, kida,
                       numbers, queue, solo, to, from, sum>>
    BY <1>2 DEF KidEnds, KidDies
  <2>2. kid \in [Kids -> KidStates]
    BY DEF Given, TypeOK
  <2>3. KidOnly(i)
    BY <2>1, <2>2 DEF KidOnly
  <2>4. ASSUME Parallel, i \in Busy  PROVE KidWork(i)'
    <3>1. KidWork(i)
      BY <2>4, BusyKid
    <3>2. kid'[i] \in {"done", "dead"}
      BY <2>1, <2>2
    <3>3. First(i)' = First(i) /\ UNCHANGED <<calls, kida, from>>
      <4>1. UNCHANGED <<calls, kida, lastray, fed, inq, zray, pc, why>>
        BY <2>1 DEF call, options, numbers
      <4>2. Base' = Base
        BY <4>1 DEF Base, Sent, Pending
      <4>. QED BY <2>1, <4>1, <4>2 DEF First
    <3>. QED BY <3>1, <3>2, <3>3 DEF KidWork
  <2>. QED BY <2>3, <2>4, NumberedKid
<1>. QED BY <1>1, <1>2

LEMMA NumberedStutter ==
  ASSUME Given, UNCHANGED vars
  PROVE  Numbered'
<1>1. PICK i : i \in Kids
  <2>1. 0 \in Kids
    BY DEF Given, Assumption, Kids
  <2>. QED BY <2>1
<1>2. KidOnly(i)
  BY DEF vars, KidOnly, children
<1>3. ASSUME Parallel, i \in Busy  PROVE KidWork(i)'
  <2>1. KidWork(i)
    BY <1>3, BusyKid
  <2>2. UNCHANGED <<pc, why, accumulate, calls, fed, inq, zray, kida, lastray,
                    kid, to, from, sum>>
    BY DEF vars, options, call, numbers, children
  <2>3. Base' = Base /\ Ending' = Ending
    BY <2>2 DEF Base, Sent, Pending, Ending
  <2>4. First(i)' = First(i) /\ ReadSoFar(i)' = ReadSoFar(i)
    BY <2>2, <2>3 DEF First, ReadSoFar
  <2>. QED BY <2>1, <2>2, <2>3, <2>4 DEF KidWork
<1>. QED BY <1>1, <1>2, <1>3, NumberedKid

LEMMA NumberedExit ==
  ASSUME Exit
  PROVE  Numbered'
BY DEF Exit, Numbered

LEMMA NumberedNext ==
  ASSUME Given, [Next]_vars
  PROVE  Numbered'
<1>1. CASE Request
  BY <1>1, NumberedReinitialize, NumberedCall DEF Request
<1>2. CASE Parent
  <2>1. CASE SendFails \/ ReadFails
    BY <2>1, NumberedExit DEF SendFails, ReadFails
  <2>2. CASE Fork \/ SoloRay \/ SoloEnd \/ Feed \/ FeedEnd \/ Send
    BY <2>2, NumberedFork, NumberedSoloRay, NumberedSoloEnd, NumberedFeed,
       NumberedFeedEnd, NumberedSend
  <2>3. CASE Zero \/ ZeroRestart \/ Wait \/ FlushEnd \/ QueueResults \/ Close
    BY <2>3, NumberedZero, NumberedZeroRestart, NumberedWait, NumberedFlushEnd,
       NumberedQueueResults, NumberedClose
  <2>4. CASE Poll
    BY <2>4, NumberedPoll
  <2>5. CASE PickFree
    <3>1. /\ pc = "next" /\ pc' = "send" /\ why = "pick"
          /\ UNCHANGED <<why, options, call, inq, zray, nchild, kida, numbers,
                         queue, solo, children>>
      BY <2>5 DEF PickFree, Flushing
    <3>. QED BY <3>1, NumberedMove
  <2>6. CASE Block
    <3>1. /\ pc = "block" /\ pc' = "read"
          /\ UNCHANGED <<why, options, call, inq, zray, nchild, kida, numbers,
                         queue, solo, children>>
      BY <2>6 DEF Block
    <3>. QED BY <3>1, NumberedMove
  <2>. QED BY <1>2, <2>1, <2>2, <2>3, <2>4, <2>5, <2>6 DEF Parent
<1>3. CASE \E i \in Kids : Kid(i)
  BY <1>3, NumberedKidStarts, NumberedKidReads, NumberedKidWrites,
     NumberedKidStops DEF Kid
<1>4. CASE Failure
  BY <1>4, NumberedExit, NumberedKidStops DEF Failure, ForkFails, Signalled
<1>5. CASE AtRest \/ UNCHANGED vars
  BY <1>5, NumberedStutter DEF AtRest
<1>. QED BY <1>1, <1>2, <1>3, <1>4, <1>5 DEF Next

(* The documented use has no direction that is neither a ray nor zero. *)
LEMMA DocumentedKinds ==
  ASSUME Assumption, DocumentedUse
  PROVE  "tiny" \notin Kinds
<1>1. PICK a \in Accumulates : /\ a = 1 => "tiny" \notin Kinds
                               /\ a > 1 => Kinds \subseteq {"ray"}
  BY DEF DocumentedUse
<1>2. a = 1 \/ a > 1
  BY DEF Assumption
<1>. QED BY <1>1, <1>2

(***************************************************************************)
(* The ray numbers of the controller are those of the rows of the call:    *)
(* what was output is the answers of the first rows, and every ray sent    *)
(* and not output is with exactly one child or in exactly one entry of the *)
(* queue, of its own row (lastray and lastdone of rc3_mod.c, kida, out_bq). *)
(***************************************************************************)
THEOREM NumberedAlways ==
  ASSUME Assumption, DocumentedUse
  PROVE  Spec => []Numbered
<1>1. Init => Numbered
  BY NumberedInit
<1>2. "tiny" \notin Kinds
  BY DocumentedKinds
<1>3. (TypeOK /\ InStep) /\ Numbered /\ [Next]_vars => Numbered'
  BY NumberedNext DEF Given
<1>4. Spec => [](TypeOK /\ InStep)
  BY <1>2, InStepInvariant
<1>. QED BY <1>1, <1>3, <1>4, PTL DEF Spec

(***************************************************************************)
(* The array a call returns holds the answers of its rows, whatever the    *)
(* number of children and the order in which their records arrive.         *)
(***************************************************************************)
THEOREM ReturnsAnswersAlways ==
  ASSUME Assumption, DocumentedUse
  PROVE  Spec => []ReturnsAnswers
<1>1. Numbered => ReturnsAnswers
  BY DEF Numbered, ReturnsAnswers, IdleInv, AnswersInOrder, RowsDone
<1>. QED BY <1>1, NumberedAlways, PTL
=============================================================================
