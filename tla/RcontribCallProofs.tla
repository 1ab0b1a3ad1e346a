------------------------- MODULE RcontribCallProofs -------------------------
(***************************************************************************)
(* Proofs about RcontribCall, for every value of its constants: the types, *)
(* and the invariant InStep that keeps the controller and its children in  *)
(* step.  InStep is inductive together with TypeOK when no direction is    *)
(* "tiny" (a ray that the controller sends and the child takes for the     *)
(* terminator).                                                            *)
(***************************************************************************)
EXTENDS RcontribCall, SequenceTheorems, TLAPS

(***************************************************************************)
(* Facts about the data the actions handle.                                *)
(***************************************************************************)
LEMMA SumTypes ==
  /\ BlackSum \in Sums(RayIds)
  /\ \A ray \in RayIds : RaySum(ray) \in Sums(RayIds)
  /\ \A a, b \in Sums(RayIds) : AddSum(a, b) \in Sums(RayIds)
BY DEF BlackSum, RaySum, AddSum, Sums

LEMMA QLimitType ==
  ASSUME Assumption, TypeOK
  PROVE  /\ accumulate \in Nat \ {0}
         /\ QLimit \in 1..(MAXIQ - 1)
         /\ accumulate = 1 => QLimit = 1
BY DEF Assumption, TypeOK, QLimit

LEMMA TailOfOne ==
  ASSUME NEW S, NEW s \in Seq(S), Len(s) = 1
  PROVE  Tail(s) = <<>>
<1>1. Tail(s) \in Seq(S) /\ Len(Tail(s)) = 0
  OBVIOUS
<1>. QED BY <1>1, EmptySeq

LEMMA TerminatorIsNoRay == Terminator \notin RayIds
BY DEF Terminator, RayIds

(* The row of a ray that is still to be fed is a row of the input. *)
LEMMA NextRowExists ==
  ASSUME Assumption, TypeOK, fed < RayCount
  PROVE  Row(NextRay) \in 1..Len(vecs)
<1>1. accumulate \in Nat \ {0} /\ fed \in Nat /\ Len(vecs) \in Nat
  BY DEF Assumption, TypeOK
<1>2. fed < Len(vecs) * accumulate
  BY DEF RayCount
<1>3. fed \div accumulate \in 0..(Len(vecs) - 1)
  BY <1>1, <1>2, SMT
<1>4. Row(NextRay) = fed \div accumulate + 1
  BY <1>1 DEF Row, NextRay
<1>. QED BY <1>1, <1>3, <1>4

LEMMA NextRayTypes ==
  ASSUME Assumption, TypeOK, ForkInv, pc # "idle"
  PROVE  /\ NextRay \in RayIds
         /\ fed < RayCount => Kind(NextRay) \in Kinds
<1>1. calls \in 1..MaxCalls /\ fed + 1 \in Nat \ {0}
  BY DEF TypeOK, ForkInv, Assumption
<1>2. NextRay \in RayIds
  BY <1>1 DEF NextRay, RayIds
<1>3. fed < RayCount => vecs[Row(NextRay)] \in Kinds
  BY NextRowExists DEF TypeOK
<1>. QED BY <1>2, <1>3 DEF Kind

(* The children that are free or busy are children there can be. *)
LEMMA ForkedKids ==
  ASSUME Assumption, TypeOK
  PROVE  /\ Free \subseteq Kids /\ Busy \subseteq Kids
         /\ 0..(nchild - 1) \subseteq Kids
<1>1. MAXPROCESS \in Nat /\ nchild \in 0..MAXPROCESS
  BY DEF Assumption, TypeOK
<1>. QED BY <1>1 DEF Free, Busy, Kids

(***************************************************************************)
(* What is said of a child stands while the child, what is noted of it,    *)
(* and the input are as they were.                                         *)
(***************************************************************************)
Untouched(i) ==
  /\ kida'[i] = kida[i] /\ kid'[i] = kid[i]
  /\ to'[i] = to[i] /\ from'[i] = from[i] /\ sum'[i] = sum[i]

LEMMA UntouchedKid ==
  ASSUME NEW i, Untouched(i), UNCHANGED <<vecs, accumulate>>
  PROVE  /\ KidInv(i) => KidInv(i)'
         /\ Waiting(i) => Waiting(i)'
         /\ Delivered(i) => Delivered(i)'
BY DEF Untouched, KidInv, Waiting, Delivered, Reading, Ending, Kind, Row

(***************************************************************************)
(* A step of the controller that leaves the children and its notes alone,  *)
(* and neither forks nor closes.                                           *)
(***************************************************************************)
LEMMA ControllerStep ==
  ASSUME Assumption, TypeOK, InStep,
         UNCHANGED <<vecs, calls, nproc, accumulate, nchild, kida, children>>,
         pc \notin {"idle", "close", "exit"}, pc' # "fork",
         pc' \in {"idle", "solo"} => pc = "solo"
  PROVE  /\ \A i \in 0..(nchild' - 1) : KidInv(i)'
         /\ RecordMatchesAssignment'
         /\ ForkInv'
         /\ Free' = Free /\ Busy' = Busy
<1>1. \A i : Untouched(i)
  BY DEF Untouched, children
<1>2. \A i \in 0..(nchild' - 1) : KidInv(i)'
  BY <1>1, UntouchedKid DEF InStep
<1>3. Free' = Free /\ Busy' = Busy
  BY DEF Free, Busy
<1>4. RecordMatchesAssignment'
  BY <1>1, <1>3, UntouchedKid DEF InStep, RecordMatchesAssignment, children
<1>5. ForkInv'
  BY <1>1, UntouchedKid DEF InStep, ForkInv, children
<1>. QED BY <1>2, <1>3, <1>4, <1>5

(* The rays of the batch are those of the same rows after such a step. *)
LEMMA SameBatch ==
  ASSUME InStep, pc # "idle", UNCHANGED <<vecs, accumulate, inq>>
  PROVE  /\ \A k \in 1..Len(inq') : Kind(inq[k])' = "ray"
         /\ QLimit' = QLimit
BY DEF InStep, BatchInv, Kind, Row, QLimit

-----------------------------------------------------------------------------
(***************************************************************************)
(* The initial state.                                                      *)
(***************************************************************************)
LEMMA InitInv == Assumption /\ Init => TypeOK /\ InStep
<1>. SUFFICES ASSUME Assumption, Init PROVE TypeOK /\ InStep
  OBVIOUS
<1>1. 0 \in Kids
  BY DEF Assumption, Kids
<1>2. /\ kida \in [Kids -> [r1 : Nat, nr : Nat]]
      /\ kid \in [Kids -> KidStates]
      /\ to \in [Kids -> Seq(Items)]
      /\ from \in [Kids -> Seq(Sums(RayIds))]
      /\ sum \in [Kids -> Sums(RayIds)] /\ holds \in [Kids -> SUBSET Kids]
  BY SumTypes DEF Init, KidStates
<1>3. /\ pc \in ParentStates /\ why \in {"pick", "zero", "drain"}
      /\ nproc \in Nat \ {0} /\ accumulate \in Accumulates
      /\ vecs \in Seq(Kinds) /\ calls \in 0..MaxCalls /\ fed \in Nat
      /\ inq \in Seq(RayIds) /\ zray \in BOOLEAN
      /\ nchild \in 0..MAXPROCESS
      /\ readset \subseteq Kids /\ target \in Kids
      /\ lastray \in Nat /\ account \in Nat /\ cbin \in Sums(RayIds)
  <2>1. pc \in ParentStates /\ why \in {"pick", "zero", "drain"}
    BY DEF Init, ParentStates
  <2>2. nproc \in Nat \ {0} /\ accumulate \in Accumulates
    BY DEF Init, Assumption
  <2>3. vecs \in Seq(Kinds) /\ inq \in Seq(RayIds)
    BY EmptySeq DEF Init
  <2>4. /\ zray \in BOOLEAN /\ readset \subseteq Kids /\ target \in Kids
        /\ cbin \in Sums(RayIds)
    BY <1>1, SumTypes DEF Init
  <2>5. /\ calls \in 0..MaxCalls /\ fed \in Nat
        /\ nchild \in 0..MAXPROCESS
        /\ lastray \in Nat /\ account \in Nat
    BY DEF Init, Assumption
  <2>. QED BY <2>1, <2>2, <2>3, <2>4, <2>5
<1>4. TypeOK
  BY <1>2, <1>3 DEF TypeOK
<1>5. ForkInv
  BY DEF Init, ForkInv, Waiting
<1>6. BatchInv /\ ReadInv
  BY DEF Init, BatchInv, ReadInv
<1>7. RecordMatchesAssignment /\ \A i \in 0..(nchild - 1) : KidInv(i)
  BY DEF Init, RecordMatchesAssignment, Busy
<1>. QED BY <1>4, <1>5, <1>6, <1>7 DEF InStep

-----------------------------------------------------------------------------
(***************************************************************************)
(* The steps of the controller that leave the children alone.              *)
(***************************************************************************)
LEMMA ReinitializeStep ==
  ASSUME Assumption, TypeOK, InStep,
         NEW n \in Nprocs, NEW a \in Accumulates, Reinitialize(n, a)
  PROVE  TypeOK' /\ InStep'
<1>1. TypeOK'
  BY DEF Assumption, TypeOK, Reinitialize, call, numbers, queue, solo, children
<1>2. pc = "idle" /\ pc' = "idle" /\ nchild = 0 /\ nchild' = 0
  BY DEF Reinitialize, InStep, ForkInv
<1>3. ForkInv'
  <2>1. \A i \in Kids : kid[i] = "none" /\ Waiting(i)
    BY <1>2 DEF InStep, ForkInv, Kids
  <2>2. \A i \in Kids : kid'[i] = "none" /\ Waiting(i)'
    BY <2>1 DEF Reinitialize, Waiting, children
  <2>. QED BY <1>2, <2>2 DEF ForkInv, Kids
<1>4. BatchInv' /\ ReadInv'
  BY <1>2 DEF BatchInv, ReadInv
<1>5. RecordMatchesAssignment' /\ \A i \in 0..(nchild' - 1) : KidInv(i)'
  BY <1>2 DEF RecordMatchesAssignment, Busy
<1>. QED BY <1>1, <1>3, <1>4, <1>5 DEF InStep

LEMMA CallStep ==
  ASSUME Assumption, TypeOK, InStep, NEW rows \in Inputs, Call(rows)
  PROVE  TypeOK' /\ InStep'
<1>1. accumulate \in Nat \ {0} /\ QLimit \in Nat \ {0}
  BY QLimitType DEF Assumption
<1>2. TypeOK'
  <2>0. vecs' \in Seq(Kinds)
    BY DEF Call, Inputs
  <2>1. calls' \in 0..MaxCalls
    BY DEF Call, TypeOK, Assumption
  <2>2. nproc' \in Nat \ {0}
    BY DEF Call, Cap, TypeOK, Assumption
  <2>3. pc' \in ParentStates
    BY DEF Call, ParentStates
  <2>4. fed' \in Nat /\ inq' \in Seq(RayIds)
    BY DEF Call
  <2>5. zray' \in BOOLEAN
    BY DEF Call
  <2>6. account' \in Nat
    BY <1>1 DEF Call
  <2>7. UNCHANGED <<why, accumulate, nchild, kida, readset, target, lastray,
                    cbin, kid, to, from, sum, holds>>
    BY DEF Call, numbers, children
  <2>. QED
    BY <2>0, <2>1, <2>2, <2>3, <2>4, <2>5, <2>6, <2>7 DEF TypeOK
<1>3. /\ pc = "idle" /\ nchild = 0 /\ nchild' = 0
      /\ pc' \in {"fork", "solo"} /\ calls' > 0
  BY DEF Call, InStep, ForkInv, TypeOK, Assumption
<1>4. ForkInv'
  <2>1. pc' = "fork" => nproc' \in 2..MAXPROCESS /\ nchild' < nproc'
    BY <1>3 DEF Call, Cap, TypeOK, Assumption
  <2>2. \A i \in Kids : kid[i] = "none" /\ Waiting(i)
    BY <1>3 DEF InStep, ForkInv, Kids
  <2>3. \A i \in Kids : kid'[i] = "none" /\ Waiting(i)'
    BY <2>2 DEF Call, Waiting, children
  <2>. QED BY <1>3, <2>1, <2>3 DEF ForkInv, Kids
<1>5. BatchInv' /\ ReadInv'
  BY <1>1, <1>3 DEF Call, BatchInv, ReadInv, QLimit
<1>6. RecordMatchesAssignment' /\ \A i \in 0..(nchild' - 1) : KidInv(i)'
  BY <1>3 DEF RecordMatchesAssignment, Busy
<1>. QED BY <1>2, <1>4, <1>5, <1>6 DEF InStep

(* error(), or a signal: nothing is promised of the children any more. *)
LEMMA ExitStep ==
  ASSUME Assumption, TypeOK, InStep, pc # "idle", Exit
  PROVE  TypeOK' /\ InStep'
<1>1. TypeOK'
  BY DEF TypeOK, ParentStates, Exit, options, call, numbers, queue, solo,
         children
<1>2. UNCHANGED <<vecs, accumulate, nchild, kida, children, inq, calls>>
  BY DEF Exit, options, call
<1>3. \A i : Untouched(i)
  BY <1>2 DEF Untouched, children
<1>4. RecordMatchesAssignment'
  BY <1>2, <1>3, UntouchedKid DEF InStep, RecordMatchesAssignment, Busy, children
<1>5. ForkInv'
  BY <1>2, <1>3, UntouchedKid DEF Exit, InStep, ForkInv, children
<1>6. BatchInv'
  BY <1>2 DEF Exit, InStep, BatchInv, Kind, Row
<1>7. ReadInv' /\ pc' = "exit"
  BY DEF Exit, ReadInv
<1>. QED BY <1>1, <1>4, <1>5, <1>6, <1>7 DEF InStep

LEMMA SoloStep ==
  ASSUME Assumption, TypeOK, InStep, SoloRay \/ SoloEnd
  PROVE  TypeOK' /\ InStep'
<1>1. CASE SoloRay
  <2>1. NextRay \in RayIds
    BY <1>1, NextRayTypes DEF SoloRay, InStep
  <2>2. Contribution(NextRay) \in Sums(RayIds)
    BY <2>1, SumTypes DEF Contribution
  <2>3. cbin' \in Sums(RayIds)
    BY <1>1, <2>2, SumTypes DEF SoloRay, TypeOK
  <2>4. account' \in Nat
    <3>1. accumulate \in Nat \ {0} /\ account \in Nat
      BY QLimitType DEF TypeOK
    <3>2. \/ account > 1 /\ account' = account - 1
          \/ account' = accumulate
      BY <1>1 DEF SoloRay
    <3>. QED BY <3>1, <3>2
  <2>5. fed' \in Nat /\ lastray' \in Nat
    BY <1>1 DEF SoloRay, TypeOK
  <2>6. UNCHANGED <<pc, why, options, vecs, calls, inq, zray, nchild, kida,
                    readset, target, children>>
    BY <1>1 DEF SoloRay
  <2>7. TypeOK'
    BY <2>3, <2>4, <2>5, <2>6 DEF TypeOK, options, children
  <2>8. pc = "solo"
    BY <1>1 DEF SoloRay
  <2>9. BatchInv'
    BY <2>6, <2>8, SameBatch DEF BatchInv, options
  <2>10. ReadInv'
    BY <2>6, <2>8 DEF ReadInv
  <2>. QED BY <2>6, <2>7, <2>8, <2>9, <2>10, ControllerStep DEF InStep, options
<1>2. CASE SoloEnd
  <2>1. pc = "solo" /\ pc' = "idle"
    BY <1>2 DEF SoloEnd
  <2>2. UNCHANGED <<why, options, call, inq, zray, nchild, kida, readset,
                    target, numbers, queue, solo, children>>
    BY <1>2 DEF SoloEnd
  <2>3. TypeOK'
    BY <2>1, <2>2 DEF TypeOK, ParentStates, options, call, numbers, solo,
                      children
  <2>4. BatchInv' /\ ReadInv'
    BY <2>1 DEF BatchInv, ReadInv
  <2>. QED BY <2>1, <2>2, <2>3, <2>4, ControllerStep DEF InStep, options, call
<1>. QED BY <1>1, <1>2

(* Feeding: only rays enter the batch, and it is sent before it overflows. *)
LEMMA FeedStep ==
  ASSUME Assumption, "tiny" \notin Kinds, TypeOK, InStep, Feed
  PROVE  TypeOK' /\ InStep'
<1>. DEFINE zero == Kind(NextRay) = "zero"
            batch == IF zero THEN inq ELSE Append(inq, NextRay)
<1>1. pc = "feed" /\ fed < RayCount
  BY DEF Feed
<1>2. NextRay \in RayIds /\ Kind(NextRay) \in {"ray", "zero"}
  BY <1>1, NextRayTypes DEF InStep, Assumption
<1>3. inq \in Seq(RayIds) /\ batch \in Seq(RayIds) /\ inq' = batch
  BY <1>2 DEF TypeOK, Feed
<1>4. UNCHANGED <<options, vecs, calls, nchild, kida, readset, target, numbers,
                  queue, solo, children>>
  BY DEF Feed
<1>5. pc' \in {"feed", "next", "zero"} /\ why' \in {"pick", "zero", "drain"}
  BY <1>1 DEF Feed, TypeOK
<1>6. TypeOK'
  <2>1. zray' \in BOOLEAN
    BY DEF Feed
  <2>2. fed' \in Nat
    BY DEF Feed, TypeOK
  <2>. QED
    BY <1>3, <1>4, <1>5, <2>1, <2>2
       DEF TypeOK, ParentStates, options, numbers, solo, children
<1>7. BatchInv'
  <2>1. \A k \in 1..Len(inq) : Kind(inq[k]) = "ray"
    BY <1>1 DEF InStep, BatchInv
  <2>2. \A k \in 1..Len(inq') : Kind(inq'[k]) = "ray"
    BY <1>2, <1>3, <2>1
  <2>3. \A k \in 1..Len(inq') : Kind(inq[k])' = "ray"
    BY <2>2, <1>4 DEF Kind, Row, options
  <2>4. Len(inq) < QLimit /\ QLimit \in Nat \ {0} /\ Len(inq) \in Nat
    BY <1>1, <1>3, QLimitType DEF InStep, BatchInv, Assumption
  <2>5. QLimit' = QLimit
    BY <1>4 DEF QLimit, options
  <2>6. zero => batch = inq
    OBVIOUS
  <2>7. ~zero => Len(batch) = Len(inq) + 1
    BY <1>2, <1>3
  <2>8. pc' = "feed" => Len(batch) < QLimit
    BY <2>4, <2>7 DEF Feed, MustSend
  <2>9. pc' = "next" => why' = "pick" /\ Len(batch) \in 1..QLimit
    BY <2>4, <2>7, <1>3, <1>1 DEF Feed, MustSend
  <2>10. pc' = "zero" => batch = <<>>
    BY <1>1 DEF Feed, MustSend
  <2>. QED BY <1>3, <1>5, <2>3, <2>5, <2>8, <2>9, <2>10 DEF BatchInv
<1>8. ReadInv'
  BY <1>5 DEF ReadInv
<1>. QED BY <1>1, <1>4, <1>5, <1>6, <1>7, <1>8, ControllerStep
         DEF InStep, options

(* A zero ray is recorded, or its record waits for the queue to be cleared. *)
LEMMA ZeroStep ==
  ASSUME Assumption, TypeOK, InStep, FeedEnd \/ Zero \/ ZeroRestart
  PROVE  TypeOK' /\ InStep'
<1>. DEFINE frame == UNCHANGED <<options, call, inq, nchild, kida, readset,
                                 target, solo, children, zray>>
<1>1. QLimit \in Nat \ {0} /\ accumulate \in Nat \ {0}
  BY QLimitType DEF Assumption
<1>2. CASE FeedEnd
  <2>1. /\ pc = "feed" /\ pc' = "next" /\ why' = "drain" /\ frame
        /\ lastray' = lastray
    BY <1>2 DEF FeedEnd, numbers
  <2>2. TypeOK'
    BY <2>1 DEF TypeOK, ParentStates, options, call, solo, children
  <2>3. BatchInv' /\ ReadInv'
    BY <2>1, SameBatch DEF BatchInv, ReadInv, options, call
  <2>. QED BY <2>1, <2>2, <2>3, ControllerStep DEF InStep, options, call
<1>3. CASE Zero
  <2>1. /\ pc = "zero" /\ inq = <<>> /\ frame
        /\ lastray' \in Nat
        /\ \/ pc' = "next" /\ why' = "zero"
           \/ pc' = "feed" /\ why' = why
    BY <1>3 DEF Zero, InStep, BatchInv, TypeOK, numbers
  <2>2. TypeOK'
    BY <2>1 DEF TypeOK, ParentStates, options, call, solo, children
  <2>3. BatchInv' /\ ReadInv'
    BY <1>1, <2>1, SameBatch DEF BatchInv, ReadInv, options, call
  <2>. QED BY <2>1, <2>2, <2>3, ControllerStep DEF InStep, options, call
<1>4. CASE ZeroRestart
  <2>1. /\ pc = "restart" /\ pc' = "feed" /\ inq = <<>> /\ frame
        /\ lastray' \in Nat /\ why' = why
    BY <1>1, <1>4 DEF ZeroRestart, InStep, BatchInv
  <2>2. TypeOK'
    BY <2>1 DEF TypeOK, ParentStates, options, call, solo, children
  <2>3. BatchInv' /\ ReadInv'
    BY <1>1, <2>1, SameBatch DEF BatchInv, ReadInv, options, call
  <2>. QED BY <2>1, <2>2, <2>3, ControllerStep DEF InStep, options, call
<1>. QED BY <1>2, <1>3, <1>4

(* next_child_nq up to select(): it looks at the children and waits. *)
LEMMA WaitStep ==
  ASSUME Assumption, TypeOK, InStep,
         PickFree \/ Wait \/ FlushEnd \/ Poll \/ Block
  PROVE  TypeOK' /\ InStep'
<1>. DEFINE frame == UNCHANGED <<why, options, call, inq, nchild, kida, solo,
                                 children, zray, lastray>>
<1>1. Free \subseteq Kids /\ Busy \subseteq Kids
  BY ForkedKids
<1>2. CASE PickFree
  <2>1. /\ pc = "next" /\ why = "pick" /\ pc' = "send"
        /\ target' \in Free /\ readset' = readset /\ frame
    BY <1>2 DEF PickFree, Flushing, numbers
  <2>2. TypeOK'
    BY <1>1, <2>1 DEF TypeOK, ParentStates, options, call, solo, children
  <2>3. BatchInv'
    BY <2>1, SameBatch DEF InStep, BatchInv, options, call
  <2>4. ReadInv'
    BY <2>1 DEF ReadInv, Free
  <2>. QED BY <2>1, <2>2, <2>3, <2>4, ControllerStep DEF InStep, options, call
<1>3. CASE Wait \/ FlushEnd
  <2>1. /\ pc = "next" /\ UNCHANGED <<readset, target>> /\ frame
        /\ \/ pc' = "poll" /\ why = "pick"
           \/ pc' = "block"
           \/ pc' = "restart" /\ why = "zero"
           \/ pc' = "close" /\ Busy = {}
    BY <1>3 DEF Wait, FlushEnd, Flushing, numbers
  <2>2. TypeOK'
    BY <2>1 DEF TypeOK, ParentStates, options, call, solo, children
  <2>3. BatchInv'
    BY <2>1, SameBatch DEF InStep, BatchInv, options, call
  <2>4. ReadInv'
    BY <2>1 DEF ReadInv, Busy
  <2>. QED BY <2>1, <2>2, <2>3, <2>4, ControllerStep DEF InStep, options, call
<1>4. CASE Poll \/ Block
  <2>1. /\ pc \in {"poll", "block"}
        /\ pc = "poll" => why = "pick"
        /\ target' = target /\ frame
        /\ \/ pc' = "read" /\ readset' \subseteq Busy
           \/ pc' = "block" /\ readset' = readset
    BY <1>4 DEF Poll, Block, InStep, BatchInv, numbers
  <2>2. TypeOK'
    BY <1>1, <2>1 DEF TypeOK, ParentStates, options, call, solo, children
  <2>3. BatchInv'
    BY <2>1, SameBatch DEF InStep, BatchInv, options, call
  <2>4. ReadInv'
    BY <2>1 DEF ReadInv, Busy
  <2>. QED BY <2>1, <2>2, <2>3, <2>4, ControllerStep DEF InStep, options, call
<1>. QED BY <1>2, <1>3, <1>4

-----------------------------------------------------------------------------
(***************************************************************************)
(* The steps of the controller that change what it knows of a child.       *)
(***************************************************************************)
LEMMA ForkStep ==
  ASSUME Assumption, TypeOK, InStep, Fork
  PROVE  TypeOK' /\ InStep'
<1>1. /\ pc = "fork" /\ nproc \in 2..MAXPROCESS /\ nchild < nproc
      /\ nchild \in Nat /\ nchild \in Kids /\ nchild' = nchild + 1
      /\ pc' \in {"feed", "fork"}
  <2>1. pc = "fork" /\ nchild' = nchild + 1 /\ pc' \in {"feed", "fork"}
    BY DEF Fork
  <2>2. nproc \in 2..MAXPROCESS /\ nchild < nproc
    BY <2>1 DEF InStep, ForkInv
  <2>3. nchild \in 0..MAXPROCESS
    BY DEF TypeOK
  <2>4. nchild \in Nat /\ nchild \in Kids
    BY <2>2, <2>3 DEF Kids, Assumption
  <2>. QED BY <2>1, <2>2, <2>4
<1>2. UNCHANGED <<why, options, call, inq, zray, readset, target, numbers,
                  queue, solo, to, from, sum>>
  BY DEF Fork
<1>3. /\ kid' = [kid EXCEPT ![nchild] = "start"]
      /\ holds' = [holds EXCEPT ![nchild] = 0..(nchild - 1)]
      /\ kida' = [kida EXCEPT ![nchild] = [@ EXCEPT !.nr = 0]]
  BY DEF Fork
<1>. PICK k : k = nchild
  OBVIOUS
<1>4. kida'[k].nr = 0 /\ kid'[k] = "start"
  BY <1>1, <1>3 DEF TypeOK
<1>5. TypeOK'
  <2>1. kid' \in [Kids -> KidStates]
    BY <1>3 DEF TypeOK, KidStates
  <2>2. kida' \in [Kids -> [r1 : Nat, nr : Nat]]
    BY <1>3 DEF TypeOK
  <2>3. nchild' \in 0..MAXPROCESS /\ pc' \in ParentStates
    BY <1>1 DEF Assumption, ParentStates
  <2>4. holds' \in [Kids -> SUBSET Kids]
    <3>1. 0..(nchild - 1) \subseteq Kids
      BY <1>1 DEF Kids, Assumption
    <3>. QED BY <1>3, <3>1 DEF TypeOK
  <2>. QED BY <1>2, <2>1, <2>2, <2>3, <2>4
           DEF TypeOK, options, call, numbers, solo
<1>6. \A i \in Kids \ {k} : Untouched(i)
  BY <1>2, <1>3 DEF Untouched, TypeOK
<1>7. Waiting(k)'
  <2>1. Waiting(k)
    BY <1>1 DEF InStep, ForkInv
  <2>. QED BY <2>1, <1>2 DEF Waiting
<1>8. ForkInv'
  <2>1. \A i \in Kids : i >= nchild' => i \in Kids \ {k} /\ i >= nchild
    BY <1>1 DEF Kids, Assumption
  <2>2. \A i \in Kids : i >= nchild' => kid'[i] = "none" /\ Waiting(i)'
    BY <1>2, <1>6, <2>1, UntouchedKid
       DEF InStep, ForkInv, Untouched, options, call
  <2>3. \A i \in Kids : i < nchild' => i < nchild \/ i = k
    BY <1>1 DEF Kids, Assumption
  <2>4. \A i \in Kids : i < nchild' => kid'[i] # "none"
    BY <1>4, <1>6, <2>3 DEF InStep, ForkInv, Untouched
  <2>5. \A i \in Kids : kid'[i] # "done"
    BY <1>1, <1>4, <1>6 DEF InStep, ForkInv, Untouched
  <2>6. pc' = "fork" => nproc' \in 2..MAXPROCESS /\ nchild' < nproc'
    BY <1>1, <1>2 DEF Fork, options, Assumption
  <2>. QED BY <1>1, <1>2, <2>2, <2>4, <2>5, <2>6 DEF ForkInv, InStep, call
<1>9. BatchInv' /\ ReadInv'
  BY <1>1, <1>2, SameBatch DEF InStep, BatchInv, ReadInv, options, call
<1>10. \A i \in 0..(nchild' - 1) : KidInv(i)'
  <2>1. \A i \in 0..(nchild - 1) : i \in Kids \ {k}
    BY <1>1, ForkedKids
  <2>2. \A i \in 0..(nchild - 1) : KidInv(i)'
    BY <1>1, <1>2, <1>6, <2>1, UntouchedKid DEF InStep, options, call
  <2>3. KidInv(k)'
    BY <1>4, <1>7 DEF KidInv
  <2>. QED BY <1>1, <2>2, <2>3
<1>11. RecordMatchesAssignment'
  <2>1. \A i \in Busy' : i \in Busy /\ i \in Kids \ {k}
    BY <1>1, <1>4, <1>6 DEF Busy, Untouched, Kids, Assumption
  <2>. QED BY <1>2, <1>6, <2>1, UntouchedKid
           DEF InStep, RecordMatchesAssignment, Untouched, options, call
<1>. QED BY <1>5, <1>8, <1>9, <1>10, <1>11 DEF InStep

(***************************************************************************)
(* Sending: the chosen child waits, so the batch is all it has to read.    *)
(***************************************************************************)
LEMMA SendStep ==
  ASSUME Assumption, TypeOK, InStep, Send
  PROVE  TypeOK' /\ InStep'
<1>1. PICK t : t = target
  OBVIOUS
<1>2. /\ pc = "send" /\ kid[t] # "dead" /\ t \in Free /\ t \in Kids
      /\ why = "pick" /\ Len(inq) \in 1..QLimit
      /\ \A k \in 1..Len(inq) : Kind(inq[k]) = "ray"
  BY <1>1 DEF Send, InStep, ReadInv, BatchInv, TypeOK
<1>3. kid[t] \in {"start", "run"} /\ Waiting(t)
  <2>1. t \in 0..(nchild - 1) /\ kida[t].nr = 0
    BY <1>2 DEF Free
  <2>2. KidInv(t)
    BY <1>2, <2>1 DEF InStep
  <2>3. kid[t] # "done"
    BY <1>2 DEF InStep, ForkInv
  <2>. QED BY <1>2, <2>1, <2>2, <2>3 DEF KidInv
<1>4. accumulate \in Nat \ {0} /\ QLimit \in Nat /\ (accumulate = 1 => QLimit = 1)
  BY QLimitType DEF Assumption
<1>5. inq \in Seq(RayIds) /\ Len(inq) \in Nat \ {0} /\ Terminator \in Items
  BY <1>2, <1>4 DEF TypeOK, Items
<1>6. UNCHANGED <<why, options, call, zray, nchild, readset, target, lastdone,
                  queue, solo, kid, from, sum, holds>>
  BY DEF Send
<1>7. /\ to' = [to EXCEPT ![t] = to[t] \o Assignment]
      /\ kida' = [kida EXCEPT ![t] = [r1 |-> lastray + 1, nr |-> Len(inq)]]
      /\ lastray' = lastray + Len(inq) /\ inq' = <<>>
      /\ pc' \in {"zero", "feed"}
  BY <1>1 DEF Send
<1>8. Assignment \in Seq(Items) /\ Seq(RayIds) \subseteq Seq(Items)
  BY <1>5 DEF Assignment, Items
<1>9. to' = [to EXCEPT ![t] = Assignment] /\ to'[t] = Assignment
  <2>1. to[t] \o Assignment = Assignment
    BY <1>3, <1>8 DEF Waiting
  <2>2. to' = [to EXCEPT ![t] = Assignment]
    BY <1>7, <2>1
  <2>. QED BY <1>2, <2>2 DEF TypeOK
<1>10. kida'[t].nr = Len(inq)
  BY <1>2, <1>7 DEF TypeOK
<1>11. \A i \in Kids \ {t} : Untouched(i)
  BY <1>6, <1>7 DEF Untouched, TypeOK
<1>12. TypeOK'
  <2>1. to' \in [Kids -> Seq(Items)]
    BY <1>8, <1>9 DEF TypeOK
  <2>2. kida' \in [Kids -> [r1 : Nat, nr : Nat]]
    <3>1. [r1 |-> lastray + 1, nr |-> Len(inq)] \in [r1 : Nat, nr : Nat]
      BY <1>5 DEF TypeOK
    <3>. QED BY <1>7, <3>1 DEF TypeOK
  <2>3. lastray' \in Nat /\ inq' \in Seq(RayIds)
    BY <1>5, <1>7 DEF TypeOK
  <2>. QED BY <1>6, <1>7, <2>1, <2>2, <2>3
           DEF TypeOK, ParentStates, options, call, queue, solo
<1>13. ForkInv'
  <2>1. \A i \in Kids : i >= nchild => i # t
    BY <1>2 DEF Free, TypeOK, Assumption, Kids
  <2>2. \A i \in Kids : i >= nchild => Waiting(i)'
    BY <1>6, <1>11, <2>1, UntouchedKid DEF InStep, ForkInv, options, call
  <2>. QED BY <1>2, <1>6, <1>7, <2>2 DEF InStep, ForkInv, options, call
<1>14. BatchInv' /\ ReadInv'
  <2>1. QLimit' = QLimit /\ QLimit > 0
    BY <1>2, <1>4, <1>5, <1>6 DEF QLimit, options
  <2>. QED BY <1>7, <2>1 DEF BatchInv, ReadInv
<1>15. KidInv(t)'
  <2>1. from'[t] = <<>> /\ sum'[t] = BlackSum
        /\ kid'[t] \in {"start", "run"}
    BY <1>3, <1>6 DEF Waiting
  <2>2. \A k \in 1..Len(inq) : inq[k] # Terminator
    BY <1>5, TerminatorIsNoRay
  <2>3. CASE accumulate = 1
    <3>1. to'[t] = inq /\ Ending' = 0 /\ Len(inq) = 1
      <4>1. to'[t] = inq
        BY <1>9, <2>3 DEF Assignment
      <4>2. Ending' = 0
        BY <1>6, <2>3 DEF Ending, options
      <4>3. QLimit = 1
        BY <1>4, <2>3
      <4>. QED BY <1>2, <4>1, <4>2, <4>3
    <3>2. \A k \in 1..(Len(to'[t]) - Ending') :
            to'[t][k] # Terminator /\ Kind(to[t][k])' = "ray"
      BY <1>2, <1>6, <2>2, <3>1 DEF Kind, Row, options, call
    <3>3. to'[t] # <<>>
      BY <1>5, <3>1
    <3>4. sum'[t].n + Len(to'[t]) - Ending' = kida'[t].nr
      BY <1>5, <1>10, <2>1, <3>1 DEF BlackSum
    <3>5. Reading(t)'
      BY <1>6, <2>1, <2>3, <3>1, <3>2, <3>3, <3>4 DEF Reading, options
    <3>. QED BY <1>5, <1>10, <2>1, <3>5 DEF KidInv
  <2>4. CASE accumulate > 1
    <3>1. to'[t] = Append(inq, Terminator) /\ Ending' = 1
      BY <1>6, <1>9, <2>4 DEF Assignment, Ending, options
    <3>2. /\ Len(to'[t]) = Len(inq) + 1 /\ to'[t][Len(inq) + 1] = Terminator
          /\ \A k \in 1..Len(inq) : to'[t][k] = inq[k]
      BY <1>5, <3>1
    <3>3. \A k \in 1..(Len(to'[t]) - Ending') :
            to'[t][k] # Terminator /\ Kind(to[t][k])' = "ray"
      BY <1>2, <1>5, <1>6, <2>2, <3>1, <3>2 DEF Kind, Row, options, call
    <3>4. to'[t] # <<>>
      BY <1>5, <3>2
    <3>5. sum'[t].n + Len(to'[t]) - Ending' = kida'[t].nr
      BY <1>5, <1>10, <2>1, <3>1, <3>2 DEF BlackSum
    <3>6. Reading(t)'
      BY <1>6, <2>1, <2>4, <3>2, <3>3, <3>4, <3>5 DEF Reading, options
    <3>. QED BY <1>5, <1>10, <2>1, <3>6 DEF KidInv
  <2>. QED BY <1>4, <2>3, <2>4
<1>16. \A i \in 0..(nchild' - 1) : KidInv(i)'
  BY <1>2, <1>6, <1>11, <1>15, ForkedKids, UntouchedKid
     DEF InStep, options, call
<1>17. RecordMatchesAssignment'
  <2>1. from'[t] = <<>>
    BY <1>3, <1>6 DEF Waiting
  <2>2. \A i \in Busy' : i = t \/ (i \in Busy /\ i \in Kids \ {t})
    <3>1. \A i \in Busy' : i \in 0..(nchild - 1) /\ i \in Kids
      BY <1>6, ForkedKids DEF Busy
    <3>2. \A i \in Kids \ {t} : kida'[i] = kida[i]
      BY <1>11 DEF Untouched
    <3>. QED BY <3>1, <3>2 DEF Busy
  <2>. QED BY <1>6, <1>11, <2>1, <2>2, UntouchedKid
           DEF InStep, RecordMatchesAssignment, Untouched, options, call
<1>. QED BY <1>12, <1>13, <1>14, <1>16, <1>17 DEF InStep

(***************************************************************************)
(* Reading a child's record frees it: everything it was sent is in it.     *)
(***************************************************************************)
LEMMA QueueResultsStep ==
  ASSUME Assumption, TypeOK, InStep, QueueResults
  PROVE  TypeOK' /\ InStep'
<1>1. PICK i \in readset :
        /\ from[i] # <<>>
        /\ from' = [from EXCEPT ![i] = Tail(from[i])]
        /\ kida' = [kida EXCEPT ![i] = [@ EXCEPT !.nr = 0]]
        /\ readset' = readset \ {i} /\ target' = i
  BY DEF QueueResults
<1>2. UNCHANGED <<why, options, call, inq, zray, nchild, numbers,
                  output_values, solo, kid, to, sum, holds>>
  BY DEF QueueResults
<1>3. /\ pc = "read"
      /\ \/ pc' = "read"
         \/ pc' = "next" /\ why # "pick"
         \/ pc' = "send" /\ why = "pick"
  BY DEF QueueResults, Flushing
<1>4. /\ i \in Busy /\ i \in Kids /\ i \in 0..(nchild - 1)
      /\ Delivered(i) /\ KidInv(i)
  BY <1>1, <1>3, ForkedKids
     DEF InStep, ReadInv, RecordMatchesAssignment, Busy
<1>5. kida'[i].nr = 0 /\ from'[i] = <<>>
  <2>1. kida'[i].nr = 0
    BY <1>1, <1>4 DEF TypeOK
  <2>2. from[i] \in Seq(Sums(RayIds)) /\ Len(from[i]) = 1
    BY <1>4 DEF TypeOK, Delivered
  <2>3. Tail(from[i]) = <<>>
    BY <2>2, TailOfOne
  <2>. QED BY <1>1, <1>4, <2>1, <2>3 DEF TypeOK
<1>6. \A j \in Kids \ {i} : Untouched(j)
  BY <1>1, <1>2 DEF Untouched, TypeOK
<1>7. TypeOK'
  <2>1. from' \in [Kids -> Seq(Sums(RayIds))]
    <3>1. from[i] \in Seq(Sums(RayIds)) /\ Tail(from[i]) \in Seq(Sums(RayIds))
      BY <1>1, <1>4 DEF TypeOK
    <3>. QED BY <1>1, <3>1 DEF TypeOK
  <2>2. kida' \in [Kids -> [r1 : Nat, nr : Nat]]
    BY <1>1, <1>4 DEF TypeOK
  <2>3. readset' \subseteq Kids /\ target' \in Kids /\ pc' \in ParentStates
    BY <1>1, <1>3, <1>4 DEF TypeOK, ParentStates
  <2>. QED BY <1>2, <2>1, <2>2, <2>3 DEF TypeOK, options, call, numbers, solo
<1>8. \A j \in Busy' : j \in Busy /\ j \in Kids \ {i}
  BY <1>2, <1>5, <1>6, ForkedKids DEF Busy, Untouched
<1>9. Busy \ {i} \subseteq Busy' /\ i \in Free'
  BY <1>2, <1>4, <1>5, <1>6, ForkedKids DEF Busy, Free, Untouched
<1>10. ForkInv'
  <2>1. \A j \in Kids : j >= nchild => j # i
    BY <1>4 DEF TypeOK, Assumption, Kids
  <2>2. \A j \in Kids : j >= nchild => Waiting(j)'
    BY <1>2, <1>6, <2>1, UntouchedKid DEF InStep, ForkInv, options, call
  <2>. QED BY <1>2, <1>3, <2>2 DEF InStep, ForkInv, options, call
<1>11. BatchInv'
  BY <1>2, <1>3, SameBatch DEF InStep, BatchInv, options, call
<1>12. ReadInv'
  BY <1>1, <1>3, <1>9 DEF InStep, ReadInv
<1>13. KidInv(i)'
  <2>1. kid[i] \in {"run", "dead"}
    <3>1. kida[i].nr > 0 /\ kid[i] \in KidStates /\ kid[i] # "none"
      BY <1>4 DEF Busy, TypeOK, InStep, ForkInv
    <3>2. kid[i] # "start"
      BY <1>1, <1>4, <3>1 DEF KidInv, Reading
    <3>. QED BY <1>1, <1>4, <3>1, <3>2 DEF KidInv, KidStates
  <2>2. kid[i] = "run" => to[i] = <<>> /\ sum[i] = BlackSum
    BY <1>1, <1>4 DEF KidInv, Reading, Busy
  <2>3. kid'[i] = "run" => Waiting(i)'
    BY <1>2, <1>5, <2>2 DEF Waiting
  <2>. QED BY <1>2, <1>5, <2>1, <2>3 DEF KidInv
<1>14. \A j \in 0..(nchild' - 1) : KidInv(j)'
  BY <1>2, <1>3, <1>6, <1>13, ForkedKids, UntouchedKid DEF InStep, options, call
<1>15. RecordMatchesAssignment'
  BY <1>2, <1>6, <1>8, UntouchedKid
     DEF InStep, RecordMatchesAssignment, Untouched, options, call
<1>. QED BY <1>7, <1>10, <1>11, <1>12, <1>14, <1>15 DEF InStep

LEMMA CloseStep ==
  ASSUME Assumption, TypeOK, InStep, Close
  PROVE  TypeOK' /\ InStep'
<1>1. pc' = "idle" /\ nchild' = 0
  BY DEF Close
<1>2. UNCHANGED <<why, options, call, inq, zray, kida, readset, target,
                  numbers, queue, solo>>
  BY DEF Close
<1>3. TypeOK'
  <2>1. /\ kid' \in [Kids -> KidStates]
        /\ to' \in [Kids -> Seq(Items)]
        /\ from' \in [Kids -> Seq(Sums(RayIds))]
        /\ sum' \in [Kids -> Sums(RayIds)]
        /\ holds' \in [Kids -> SUBSET Kids]
    BY SumTypes DEF Close, KidStates
  <2>2. nchild' \in 0..MAXPROCESS
    BY <1>1 DEF Assumption
  <2>. QED BY <1>1, <1>2, <2>1, <2>2
           DEF TypeOK, ParentStates, options, call, numbers, solo
<1>4. ForkInv'
  <2>1. \A i \in Kids : kid'[i] = "none" /\ Waiting(i)'
    BY DEF Close, Waiting
  <2>. QED BY <1>1, <2>1 DEF ForkInv, Kids
<1>5. BatchInv' /\ ReadInv'
  BY <1>1 DEF BatchInv, ReadInv
<1>6. RecordMatchesAssignment' /\ \A i \in 0..(nchild' - 1) : KidInv(i)'
  BY <1>1 DEF RecordMatchesAssignment, Busy
<1>. QED BY <1>3, <1>4, <1>5, <1>6 DEF InStep

-----------------------------------------------------------------------------
(***************************************************************************)
(* The steps of a child.                                                   *)
(***************************************************************************)
LEMMA RunningKid ==
  ASSUME Assumption, TypeOK, InStep, NEW i \in Kids, Alive(i)
  PROVE  i \in 0..(nchild - 1) /\ pc \notin {"idle", "solo"}
<1>1. nchild \in 0..MAXPROCESS
  BY DEF TypeOK
<1>2. i \in Nat
  BY DEF Kids, Assumption
<1>3. ~ (i >= nchild)
  BY DEF InStep, ForkInv, Alive
<1>4. i \in 0..(nchild - 1)
  BY <1>1, <1>2, <1>3 DEF Assumption
<1>5. pc \in {"idle", "solo"} => nchild = 0
  BY DEF InStep, ForkInv
<1>. QED BY <1>4, <1>5

(***************************************************************************)
(* A step of child i that leaves the controller and other children alone   *)
(* preserves the invariant when it keeps i's part of it.                   *)
(***************************************************************************)
LEMMA KidStep ==
  ASSUME Assumption, TypeOK, InStep, NEW i \in Kids,
         Alive(i),
         UNCHANGED <<pc, why, options, call, inq, zray, nchild, kida, readset,
                     target, numbers, queue, solo>>,
         \A j \in Kids \ {i} : Untouched(j),
         kid' \in [Kids -> KidStates], to' \in [Kids -> Seq(Items)],
         from' \in [Kids -> Seq(Sums(RayIds))], sum' \in [Kids -> Sums(RayIds)],
         holds' \in [Kids -> SUBSET Kids],
         kid'[i] # "none",
         kid'[i] = "done" => pc \in {"close", "exit"},
         pc # "exit" => KidInv(i)',
         i \in Busy /\ from'[i] # <<>> => Delivered(i)'
  PROVE  TypeOK' /\ InStep'
<1>1. TypeOK'
  BY DEF TypeOK, options, call, numbers, queue, solo
<1>2. i \in 0..(nchild - 1)
  BY RunningKid
<1>3. ForkInv'
  <2>1. \A j \in Kids : j >= nchild => j # i
    BY <1>2 DEF TypeOK, Assumption, Kids
  <2>2. \A j \in Kids : j >= nchild => kid'[j] = "none" /\ Waiting(j)'
    BY <2>1, UntouchedKid DEF InStep, ForkInv, Untouched, options, call
  <2>3. \A j \in Kids : j < nchild => kid'[j] # "none"
    BY DEF InStep, ForkInv, Untouched
  <2>4. \A j \in Kids : kid'[j] = "done" => pc \in {"close", "exit"}
    BY DEF InStep, ForkInv, Untouched
  <2>. QED BY <2>2, <2>3, <2>4 DEF InStep, ForkInv, options, call
<1>4. BatchInv'
  BY SameBatch DEF InStep, BatchInv, options, call
<1>5. Free' = Free /\ Busy' = Busy
  BY DEF Free, Busy
<1>6. ReadInv'
  BY <1>5 DEF InStep, ReadInv
<1>7. pc' # "exit" => \A j \in 0..(nchild' - 1) : KidInv(j)'
  BY ForkedKids, UntouchedKid DEF InStep, options, call
<1>8. RecordMatchesAssignment'
  <2>1. \A j \in Busy : j \in Kids
    BY ForkedKids
  <2>2. \A j \in Busy : from'[j] # <<>> => Delivered(j)'
    BY <2>1, UntouchedKid
       DEF InStep, RecordMatchesAssignment, Untouched, options, call
  <2>. QED BY <1>5, <2>2 DEF RecordMatchesAssignment
<1>. QED BY <1>1, <1>3, <1>4, <1>6, <1>7, <1>8 DEF InStep

LEMMA KidStartsStep ==
  ASSUME Assumption, TypeOK, InStep, NEW i \in Kids, KidStarts(i)
  PROVE  TypeOK' /\ InStep'
<1>1. Alive(i) /\ kid[i] = "start"
  BY DEF KidStarts, Alive
<1>2. UNCHANGED <<pc, why, options, call, inq, zray, nchild, kida, readset,
                  target, numbers, queue, solo, to, from, sum>>
  BY DEF KidStarts
<1>3. /\ kid' = [kid EXCEPT ![i] = "run"]
      /\ holds' = [holds EXCEPT ![i] = {}]
  BY DEF KidStarts
<1>4. /\ kid' \in [Kids -> KidStates] /\ kid'[i] = "run"
      /\ holds' \in [Kids -> SUBSET Kids]
  BY <1>3 DEF TypeOK, KidStates
<1>5. /\ to' \in [Kids -> Seq(Items)]
      /\ from' \in [Kids -> Seq(Sums(RayIds))]
      /\ sum' \in [Kids -> Sums(RayIds)]
  BY <1>2 DEF TypeOK
<1>6. \A j \in Kids \ {i} : Untouched(j)
  BY <1>2, <1>3 DEF Untouched, TypeOK
<1>7. i \in Busy /\ from'[i] # <<>> => Delivered(i)'
  BY <1>2 DEF InStep, RecordMatchesAssignment, Delivered
<1>8. ASSUME pc # "exit" PROVE KidInv(i)'
  <2>1. KidInv(i) /\ kida[i].nr \in Nat
    BY <1>1, <1>8, RunningKid DEF InStep, TypeOK
  <2>2. CASE kida[i].nr = 0
    BY <1>1, <1>2, <1>4, <2>1, <2>2 DEF KidInv, Waiting
  <2>3. CASE kida[i].nr > 0
    <3>1. Reading(i)
      BY <1>1, <2>1, <2>3 DEF KidInv
    <3>2. Reading(i)'
      BY <1>2, <3>1 DEF Reading, Ending, Kind, Row, options, call
    <3>. QED BY <1>2, <1>4, <2>3, <3>2 DEF KidInv
  <2>. QED BY <2>1, <2>2, <2>3
<1>. QED BY <1>1, <1>2, <1>4, <1>5, <1>6, <1>7, <1>8, KidStep

LEMMA KidReadsStep ==
  ASSUME Assumption, TypeOK, InStep, NEW i \in Kids, KidReads(i)
  PROVE  TypeOK' /\ InStep'
<1>. DEFINE item == Head(to[i])
<1>1. Alive(i) /\ kid[i] = "run" /\ to[i] # <<>>
  BY DEF KidReads, Alive
<1>2. UNCHANGED <<pc, why, options, call, inq, zray, nchild, kida, readset,
                  target, numbers, queue, solo, from, holds>>
  BY DEF KidReads
<1>3. to[i] \in Seq(Items) /\ item \in Items /\ item = to[i][1]
  BY <1>1 DEF TypeOK
<1>4. sum[i] \in Sums(RayIds) /\ accumulate \in Nat \ {0}
  BY QLimitType DEF TypeOK
<1>5. ~IsZeroItem(item) => AddSum(sum[i], RaySum(item)) \in Sums(RayIds)
  BY <1>3, <1>4, SumTypes DEF IsZeroItem, Items
<1>6. /\ to' = [to EXCEPT ![i] = Tail(to[i])]
      /\ sum' = IF IsZeroItem(item) THEN sum
                ELSE [sum EXCEPT ![i] = AddSum(sum[i], RaySum(item))]
      /\ kid' = IF IsZeroItem(item) \/ accumulate = 1
                THEN [kid EXCEPT ![i] = "write"] ELSE kid
  BY DEF KidReads
<1>7. to' \in [Kids -> Seq(Items)] /\ to'[i] = Tail(to[i])
  <2>1. Tail(to[i]) \in Seq(Items)
    BY <1>1, <1>3
  <2>. QED BY <1>6, <2>1 DEF TypeOK
<1>8. sum' \in [Kids -> Sums(RayIds)] /\ kid' \in [Kids -> KidStates]
  BY <1>5, <1>6 DEF TypeOK, KidStates
<1>9. \A j \in Kids \ {i} : Untouched(j)
  BY <1>2, <1>6 DEF Untouched, TypeOK
<1>10. from' \in [Kids -> Seq(Sums(RayIds))] /\ holds' \in [Kids -> SUBSET Kids]
  BY <1>2 DEF TypeOK
<1>11. kid'[i] \in {"run", "write"}
  BY <1>1, <1>6 DEF TypeOK
<1>12. i \in Busy /\ from'[i] # <<>> => Delivered(i)'
  BY <1>2 DEF InStep, RecordMatchesAssignment, Delivered
<1>13. ASSUME pc # "exit" PROVE KidInv(i)'
  <2>1. KidInv(i) /\ kida[i].nr \in Nat
    BY <1>13, RunningKid, <1>1 DEF InStep, TypeOK
  <2>2. kida[i].nr > 0 /\ Reading(i)
    BY <1>1, <2>1 DEF KidInv, Waiting
  <2>3. /\ from'[i] = <<>> /\ Ending' = Ending /\ kida' = kida
        /\ Len(to'[i]) = Len(to[i]) - 1
        /\ \A k \in 1..Len(to'[i]) : to'[i][k] = to[i][k + 1]
    BY <1>1, <1>2, <1>3, <1>7, <2>2 DEF Reading, Ending, options
  <2>4. CASE accumulate = 1
    <3>1. ~IsZeroItem(item) /\ Len(to[i]) = 1 /\ Ending = 0
      BY <1>3, <2>2, <2>4 DEF Reading, Ending, IsZeroItem
    <3>2. kid'[i] = "write" /\ sum'[i].n = sum[i].n + 1
      BY <1>4, <1>6, <2>4, <3>1 DEF TypeOK, AddSum, RaySum
    <3>3. to'[i] = <<>>
      BY <1>3, <1>7, <3>1, TailOfOne
    <3>4. sum'[i].n = kida[i].nr
      BY <1>4, <2>2, <3>1, <3>2 DEF Reading, Sums
    <3>. QED BY <2>2, <2>3, <3>2, <3>3, <3>4 DEF KidInv
  <2>5. CASE accumulate > 1 /\ Len(to[i]) = 1
    <3>1. IsZeroItem(item)
      BY <1>3, <2>2, <2>5 DEF Reading, IsZeroItem
    <3>2. kid'[i] = "write" /\ sum'[i] = sum[i]
      BY <1>6, <3>1 DEF TypeOK
    <3>3. to'[i] = <<>>
      BY <1>3, <1>7, <2>5, TailOfOne
    <3>4. sum[i].n = kida[i].nr
      BY <1>4, <2>2, <2>5 DEF Reading, Ending, Sums
    <3>. QED BY <2>2, <2>3, <3>2, <3>3, <3>4 DEF KidInv
  <2>6. CASE accumulate > 1 /\ Len(to[i]) > 1
    <3>1. ~IsZeroItem(item) /\ Ending = 1
      <4>1. Ending = 1
        BY <2>6 DEF Ending
      <4>2. 1 \in 1..(Len(to[i]) - Ending)
        BY <1>3, <2>6, <4>1
      <4>. QED BY <1>3, <2>2, <4>1, <4>2 DEF Reading, IsZeroItem
    <3>2. kid'[i] = "run" /\ sum'[i].n = sum[i].n + 1
      BY <1>1, <1>4, <1>6, <2>6, <3>1 DEF TypeOK, AddSum, RaySum
    <3>3. to'[i] # <<>>
      <4>1. Len(to'[i]) # 0
        BY <1>3, <2>3, <2>6
      <4>. QED BY <4>1
    <3>4. \A k \in 1..(Len(to'[i]) - Ending') :
            to'[i][k] # Terminator /\ Kind(to[i][k])' = "ray"
      <4>1. \A k \in 1..(Len(to[i]) - 1) :
              to[i][k] # Terminator /\ Kind(to[i][k]) = "ray"
        BY <2>2, <3>1 DEF Reading
      <4>2. \A k \in 1..(Len(to'[i]) - Ending') :
              /\ k + 1 \in 1..(Len(to[i]) - 1)
              /\ to'[i][k] = to[i][k + 1]
        BY <1>3, <2>3, <2>6, <3>1
      <4>. QED BY <4>1, <4>2, <1>2 DEF Kind, Row, options, call
    <3>5. to'[i][Len(to'[i])] = Terminator
      BY <1>3, <2>2, <2>3, <2>6 DEF Reading
    <3>6. sum'[i].n + Len(to'[i]) - Ending' = kida'[i].nr
      <4>1. sum[i].n + Len(to[i]) - Ending = kida[i].nr
        BY <2>2 DEF Reading
      <4>2. sum[i].n \in Int /\ Len(to[i]) \in Int /\ kida[i].nr \in Int
        BY <1>3, <1>4, <2>1 DEF Sums
      <4>3. Ending' = 1 /\ kida'[i].nr = kida[i].nr
        BY <2>3, <3>1
      <4>4. sum'[i].n = sum[i].n + 1 /\ Len(to'[i]) = Len(to[i]) - 1
        BY <2>3, <3>2
      <4>5. Ending = 1
        BY <3>1
      <4>6. \A s, l, nr \in Int : s + l - 1 = nr => (s + 1) + (l - 1) - 1 = nr
        OBVIOUS
      <4>7. sum[i].n + Len(to[i]) - 1 = kida[i].nr
        BY <4>1, <4>5
      <4>8. (sum[i].n + 1) + (Len(to[i]) - 1) - 1 = kida[i].nr
        BY <4>2, <4>6, <4>7
      <4>. QED BY <4>3, <4>4, <4>8
    <3>7. Reading(i)'
      BY <1>2, <2>3, <2>6, <3>3, <3>4, <3>5, <3>6 DEF Reading, options
    <3>. QED BY <2>2, <2>3, <3>2, <3>7 DEF KidInv
  <2>7. PICK n \in Nat \ {0} : n = Len(to[i])
    BY <1>1, <1>3, EmptySeq
  <2>8. \/ accumulate = 1
        \/ accumulate > 1 /\ Len(to[i]) = 1
        \/ accumulate > 1 /\ Len(to[i]) > 1
    <3>1. accumulate = 1 \/ accumulate > 1
      BY <1>4
    <3>2. n = 1 \/ n > 1
      OBVIOUS
    <3>. QED BY <2>7, <3>1, <3>2
  <2>. QED BY <2>4, <2>5, <2>6, <2>8
<1>. QED BY <1>1, <1>2, <1>7, <1>8, <1>9, <1>10, <1>11, <1>12, <1>13, KidStep

LEMMA KidWritesStep ==
  ASSUME Assumption, TypeOK, InStep, NEW i \in Kids, KidWrites(i)
  PROVE  TypeOK' /\ InStep'
<1>1. Alive(i) /\ kid[i] = "write" /\ pc # "exit"
  BY DEF KidWrites, Alive
<1>2. UNCHANGED <<pc, why, options, call, inq, zray, nchild, kida, readset,
                  target, numbers, queue, solo, to, holds>>
  BY DEF KidWrites
<1>3. /\ from' = [from EXCEPT ![i] = Append(from[i], sum[i])]
      /\ sum' = [sum EXCEPT ![i] = BlackSum]
      /\ kid' = [kid EXCEPT ![i] = "run"]
  BY DEF KidWrites
<1>4. /\ kida[i].nr > 0 /\ to[i] = <<>> /\ from[i] = <<>>
      /\ sum[i].n = kida[i].nr
  <2>1. KidInv(i) /\ kida[i].nr \in Nat
    BY <1>1, RunningKid DEF InStep, TypeOK
  <2>. QED BY <1>1, <2>1 DEF KidInv
<1>5. /\ from' \in [Kids -> Seq(Sums(RayIds))]
      /\ sum' \in [Kids -> Sums(RayIds)] /\ kid' \in [Kids -> KidStates]
  <2>1. Append(from[i], sum[i]) \in Seq(Sums(RayIds))
    BY DEF TypeOK
  <2>. QED BY <1>3, <2>1, SumTypes DEF TypeOK, KidStates
<1>6. from'[i] = <<sum[i]>> /\ sum'[i] = BlackSum /\ kid'[i] = "run"
  BY <1>3, <1>4 DEF TypeOK
<1>7. \A j \in Kids \ {i} : Untouched(j)
  BY <1>2, <1>3 DEF Untouched, TypeOK
<1>8. to' \in [Kids -> Seq(Items)] /\ holds' \in [Kids -> SUBSET Kids]
  BY <1>2 DEF TypeOK
<1>9. Delivered(i)'
  BY <1>2, <1>4, <1>6 DEF Delivered
<1>10. KidInv(i)'
  BY <1>2, <1>4, <1>6, <1>9 DEF KidInv
<1>. QED BY <1>1, <1>2, <1>5, <1>6, <1>7, <1>8, <1>9, <1>10, KidStep

LEMMA KidBrokenPipeStep ==
  ASSUME Assumption, TypeOK, InStep, NEW i \in Kids, KidBrokenPipe(i)
  PROVE  TypeOK' /\ InStep'
<1>1. Alive(i) /\ kid[i] = "write" /\ pc = "exit"
  BY DEF KidBrokenPipe, Alive
<1>2. UNCHANGED <<pc, why, options, call, inq, zray, nchild, kida, readset,
                  target, numbers, queue, solo, to, from, holds>>
  BY DEF KidBrokenPipe
<1>3. /\ sum' = [sum EXCEPT ![i] = BlackSum]
      /\ kid' = [kid EXCEPT ![i] = "run"]
  BY DEF KidBrokenPipe
<1>4. /\ sum' \in [Kids -> Sums(RayIds)] /\ kid' \in [Kids -> KidStates]
      /\ to' \in [Kids -> Seq(Items)]
      /\ from' \in [Kids -> Seq(Sums(RayIds))]
      /\ holds' \in [Kids -> SUBSET Kids]
      /\ kid'[i] = "run"
  BY <1>2, <1>3, SumTypes DEF TypeOK, KidStates
<1>5. \A j \in Kids \ {i} : Untouched(j)
  BY <1>2, <1>3 DEF Untouched, TypeOK
<1>6. i \in Busy /\ from'[i] # <<>> => Delivered(i)'
  BY <1>2 DEF InStep, RecordMatchesAssignment, Delivered
<1>. QED BY <1>1, <1>2, <1>4, <1>5, <1>6, KidStep

LEMMA KidStopsStep ==
  ASSUME Assumption, TypeOK, InStep, NEW i \in Kids, KidEnds(i) \/ KidDies(i)
  PROVE  TypeOK' /\ InStep'
<1>1. UNCHANGED <<pc, why, options, call, inq, zray, nchild, kida, readset,
                  target, numbers, queue, solo, to, from, sum, holds>>
  BY DEF KidEnds, KidDies
<1>2. /\ kid' \in [Kids -> KidStates] /\ to' \in [Kids -> Seq(Items)]
      /\ from' \in [Kids -> Seq(Sums(RayIds))]
      /\ sum' \in [Kids -> Sums(RayIds)] /\ holds' \in [Kids -> SUBSET Kids]
  BY <1>1 DEF TypeOK, KidStates, KidEnds, KidDies
<1>3. \A j \in Kids \ {i} : Untouched(j)
  BY <1>1 DEF Untouched, TypeOK, KidEnds, KidDies
<1>4. i \in Busy /\ from'[i] # <<>> => Delivered(i)'
  BY <1>1 DEF InStep, RecordMatchesAssignment, Delivered
<1>5. Alive(i)
  BY DEF KidEnds, KidDies, Alive
<1>6. pc # "exit" => KidInv(i) /\ kida[i].nr \in Nat
  BY <1>5, RunningKid DEF InStep, TypeOK
<1>7. CASE KidEnds(i)
  <2>1. kid[i] = "run" /\ kid'[i] = "done" /\ pc \in {"close", "exit"}
    BY <1>7 DEF KidEnds, Abandoned, TypeOK
  <2>2. ASSUME pc # "exit" PROVE kida[i].nr = 0
    <3>1. i \notin Busy /\ i \in 0..(nchild - 1)
      BY <1>5, <2>1, <2>2, RunningKid DEF InStep, ReadInv
    <3>. QED BY <1>6, <2>2, <3>1 DEF Busy
  <2>3. pc # "exit" => KidInv(i)'
    BY <1>1, <1>6, <2>1, <2>2 DEF KidInv, Waiting
  <2>. QED BY <1>1, <1>2, <1>3, <1>4, <1>5, <2>1, <2>3, KidStep
<1>8. CASE KidDies(i)
  <2>1. kid'[i] = "dead"
    BY <1>8 DEF KidDies, TypeOK
  <2>2. pc # "exit" /\ kida[i].nr > 0 => from[i] = <<>> \/ Delivered(i)
    BY <1>5, <1>6 DEF Alive, KidInv, Reading
  <2>3. pc # "exit" => KidInv(i)'
    BY <1>1, <2>1, <2>2 DEF KidInv, Delivered
  <2>. QED BY <1>1, <1>2, <1>3, <1>4, <1>5, <2>1, <2>3, KidStep
<1>. QED BY <1>7, <1>8

-----------------------------------------------------------------------------
(***************************************************************************)
(* The invariant, and what follows from it.                                *)
(***************************************************************************)
(* Nothing changes. *)
LEMMA StutterStep ==
  ASSUME TypeOK, InStep, UNCHANGED vars PROVE TypeOK' /\ InStep'
<1>1. UNCHANGED <<pc, why, nproc, accumulate, vecs, calls, fed, inq, zray,
                  nchild, kida, readset, target, lastray, account, cbin, kid,
                  to, from, sum, holds>>
  BY DEF vars, options, call, numbers, solo, children
<1>2. TypeOK'
  BY <1>1 DEF TypeOK
<1>3. Free' = Free /\ Busy' = Busy
  BY <1>1 DEF Free, Busy
<1>4. ForkInv'
  BY <1>1 DEF InStep, ForkInv, Waiting
<1>5. BatchInv'
  BY <1>1 DEF InStep, BatchInv, Kind, Row, QLimit
<1>6. ReadInv'
  BY <1>1, <1>3 DEF InStep, ReadInv
<1>7. \A i : Untouched(i)
  BY <1>1 DEF Untouched
<1>8. /\ pc' # "exit" => \A i \in 0..(nchild' - 1) : KidInv(i)'
      /\ RecordMatchesAssignment'
  BY <1>1, <1>3, <1>7, UntouchedKid
     DEF InStep, RecordMatchesAssignment, Untouched
<1>. QED BY <1>2, <1>4, <1>5, <1>6, <1>8 DEF InStep

LEMMA NextStep ==
  ASSUME Assumption, "tiny" \notin Kinds, TypeOK, InStep, [Next]_vars
  PROVE  TypeOK' /\ InStep'
<1>1. CASE Request
  BY <1>1, ReinitializeStep, CallStep DEF Request
<1>2. CASE Parent
  <2>1. CASE SendFails \/ ReadFails
    BY <2>1, ExitStep DEF SendFails, ReadFails
  <2>2. CASE \/ Fork \/ SoloRay \/ SoloEnd \/ Feed \/ FeedEnd \/ Send \/ Zero
             \/ ZeroRestart
    BY <2>2, ForkStep, SoloStep, FeedStep, SendStep, ZeroStep
  <2>3. CASE \/ PickFree \/ Wait \/ FlushEnd \/ Poll \/ Block \/ QueueResults
             \/ Close
    BY <2>3, WaitStep, QueueResultsStep, CloseStep
  <2>. QED BY <1>2, <2>1, <2>2, <2>3 DEF Parent
<1>3. CASE \E i \in Kids : Kid(i)
  BY <1>3, KidStartsStep, KidReadsStep, KidWritesStep, KidBrokenPipeStep,
     KidStopsStep DEF Kid
<1>4. CASE Failure
  BY <1>4, ExitStep, KidStopsStep DEF Failure, ForkFails, Signalled
<1>5. CASE AtRest \/ UNCHANGED vars
  BY <1>5, StutterStep DEF AtRest
<1>. QED BY <1>1, <1>2, <1>3, <1>4, <1>5 DEF Next

(***************************************************************************)
(* The variables keep their types, and controller and children keep in     *)
(* step, whatever the number of children, the batch size and the order in  *)
(* which the processes run, fail or die.                                   *)
(***************************************************************************)
THEOREM InStepInvariant ==
  ASSUME Assumption, "tiny" \notin Kinds
  PROVE  Spec => [](TypeOK /\ InStep)
<1>1. Init => TypeOK /\ InStep
  BY InitInv
<1>2. (TypeOK /\ InStep) /\ [Next]_vars => (TypeOK /\ InStep)'
  BY NextStep
<1>. QED BY <1>1, <1>2, PTL DEF Spec

(***************************************************************************)
(* The variables of the controller and of the children keep their types.   *)
(***************************************************************************)
THEOREM TypesAlways ==
  ASSUME Assumption, "tiny" \notin Kinds
  PROVE  Spec => []TypeOK
BY InStepInvariant, PTL

(***************************************************************************)
(* The child a batch is written to waits for input (next_child_nq's choice *)
(* by kida[i].nr is right), so the write meets empty pipes.                *)
(***************************************************************************)
THEOREM SendsToWaitingChildAlways ==
  ASSUME Assumption, "tiny" \notin Kinds
  PROVE  Spec => []SendsToWaitingChild
<1>1. ASSUME TypeOK, InStep PROVE SendsToWaitingChild
  <2>. SUFFICES ASSUME pc = "send"
                PROVE  /\ kid[target] \in {"start", "run", "dead"}
                       /\ kid[target] # "dead" => Waiting(target)
    BY DEF SendsToWaitingChild, Waiting
  <2>1. target \in 0..(nchild - 1) /\ kida[target].nr = 0
    BY <1>1 DEF InStep, ReadInv, Free
  <2>2. KidInv(target) /\ kid[target] # "done"
    BY <1>1, <2>1 DEF InStep, ForkInv, TypeOK
  <2>. QED BY <2>1, <2>2 DEF KidInv
<1>. QED BY <1>1, InStepInvariant, PTL

(***************************************************************************)
(* The record read from a child sums as many rays as were assigned to it.  *)
(***************************************************************************)
THEOREM RecordMatchesAssignmentAlways ==
  ASSUME Assumption, "tiny" \notin Kinds
  PROVE  Spec => []RecordMatchesAssignment
<1>1. InStep => RecordMatchesAssignment
  BY DEF InStep
<1>. QED BY <1>1, InStepInvariant, PTL

(***************************************************************************)
(* An assignment and its terminator fit orgdir and one atomic pipe write.  *)
(***************************************************************************)
THEOREM AssignmentFitsAlways ==
  ASSUME Assumption, "tiny" \notin Kinds
  PROVE  Spec => []AssignmentFits
<1>1. ASSUME TypeOK, InStep PROVE AssignmentFits
  <2>. SUFFICES ASSUME pc = "send" PROVE Len(Assignment) \in 1..MAXIQ
    BY DEF AssignmentFits
  <2>1. Len(inq) \in 1..QLimit /\ inq \in Seq(RayIds)
    BY <1>1 DEF InStep, BatchInv, TypeOK
  <2>2. /\ QLimit \in 1..(MAXIQ - 1) /\ MAXIQ \in Nat
    BY <1>1, QLimitType, Assumption DEF Assumption
  <2>3. Len(Assignment) \in {Len(inq), Len(inq) + 1}
    BY <2>1 DEF Assignment
  <2>. QED BY <2>1, <2>2, <2>3
<1>. QED BY <1>1, InStepInvariant, PTL
=============================================================================
