------------------------ MODULE RcontribPromiseProofs ------------------------
(***************************************************************************)
(* What follows from RcontribNumbers: the queue is sorted, every ray is    *)
(* accounted for, nothing that could be output waits while the controller  *)
(* blocks, and the steps of a call are those of RcontribPromise.           *)
(***************************************************************************)
EXTENDS RcontribAnswersProofs

(* The process exits with the queue and the options as they are. *)
LEMMA ExitLeaves ==
  ASSUME [Next]_vars, pc' = "exit"
  PROVE  UNCHANGED <<accumulate, vecs, calls, out_bq, output_values>>
<1>1. CASE Exit
  BY <1>1 DEF Exit, options, call, queue
<1>2. CASE Request
  <2>1. pc = "idle" /\ pc' \in {"idle", "fork", "solo"}
    BY <1>2 DEF Request, Reinitialize, Call
  <2>. QED BY <2>1
<1>3. CASE Fork \/ SoloRay \/ SoloEnd \/ Feed \/ FeedEnd \/ Send \/ Zero
           \/ ZeroRestart \/ PickFree \/ Wait \/ FlushEnd \/ Poll \/ Block
           \/ QueueResults \/ Close
  <2>1. CASE Fork \/ SoloRay \/ SoloEnd
    BY <2>1 DEF Fork, SoloRay, SoloEnd
  <2>2. CASE Feed \/ FeedEnd \/ Send \/ Zero \/ ZeroRestart
    BY <2>2 DEF Feed, FeedEnd, Send, Zero, ZeroRestart
  <2>3. CASE PickFree \/ Wait \/ FlushEnd \/ Poll
    BY <2>3 DEF PickFree, Wait, FlushEnd, Poll
  <2>4. CASE Block \/ QueueResults \/ Close
    BY <2>4 DEF Block, QueueResults, Close
  <2>. QED BY <1>3, <2>1, <2>2, <2>3, <2>4
<1>4. CASE \E i \in Kids : Kid(i) \/ KidDies(i)
  BY <1>4 DEF Kid, KidStarts, KidReads, KidWrites, KidBrokenPipe,
              KidEnds, KidDies, options, call, queue
<1>5. CASE UNCHANGED vars
  BY <1>5 DEF vars, options, call, queue
<1>. QED BY <1>1, <1>2, <1>3, <1>4, <1>5
         DEF Next, Parent, Failure, SendFails, ReadFails, ForkFails, Signalled, AtRest

-----------------------------------------------------------------------------
(* The queue of a call is in the order of its rows, one entry each. *)
LEMMA NumberedSorted ==
  ASSUME Given, pc # "exit"
  PROVE  QueueSorted
<1>1. CASE pc \in {"idle", "solo"}
  <2>1. out_bq = <<>>
    BY <1>1 DEF Given, Numbered
  <2>. QED BY <2>1 DEF QueueSorted
<1>2. CASE pc \notin {"idle", "solo"}
  <2>1. Parallel
    BY <1>2 DEF Given, TypeOK, ParentStates, Parallel
  <2>2. /\ QueueOK(out_bq, Base, accumulate, calls, vecs)
        /\ Numbering(Base, accumulate, calls, vecs)
    BY <2>1, ParallelFacts DEF OutstandingInv
  <2>3. DOMAIN out_bq = 1..Len(out_bq)
    BY <2>2 DEF QueueOK
  <2>4. SUFFICES ASSUME NEW j \in 1..Len(out_bq), NEW k \in 1..Len(out_bq), j < k
                 PROVE  /\ out_bq[j].ndx < out_bq[k].ndx
                        /\ Group(out_bq[j].ndx, accumulate) # Group(out_bq[k].ndx, accumulate)
    BY <2>3 DEF QueueSorted
  <2>. DEFINE e == out_bq[j]  f == out_bq[k]
  <2>5. /\ EntryOK(e, Base, accumulate, calls, vecs)
        /\ EntryOK(f, Base, accumulate, calls, vecs)
        /\ EntryRow(e, Base, accumulate) < EntryRow(f, Base, accumulate)
    BY <2>2, <2>4 DEF QueueOK
  <2>. HIDE DEF e, f
  <2>6. EntryRow(e, Base, accumulate) \in Nat /\ EntryRow(f, Base, accumulate) \in Nat
    BY <2>2, <2>5, EntryFacts
  <2>7. EntryRow(e, Base, accumulate) # EntryRow(f, Base, accumulate)
    BY <2>5, <2>6
  <2>8. e.ndx < f.ndx /\ Group(e.ndx, accumulate) # Group(f.ndx, accumulate)
    BY <2>2, <2>5, <2>7, RowsApart
  <2>. QED BY <2>8 DEF e, f
<1>. QED BY <1>1, <1>2

(***************************************************************************)
(* The queue is sorted, and the parts of a record are in one entry         *)
(* (queue_output of rc3_mod.c).                                            *)
(***************************************************************************)
THEOREM QueueSortedAlways ==
  ASSUME Assumption, DocumentedUse
  PROVE  Spec => []QueueSorted
<1>. DEFINE Running == pc # "exit"
<1>1. Init => QueueSorted /\ Running
  BY DEF Init, QueueSorted
<1>2. "tiny" \notin Kinds
  BY DocumentedKinds
<1>3. TypeOK /\ InStep /\ Numbered /\ Running => QueueSorted
  BY NumberedSorted DEF Given
<1>4. QueueSorted /\ [Next]_vars /\ ~Running' => QueueSorted'
  BY ExitLeaves DEF QueueSorted
<1>5. Spec => [](TypeOK /\ InStep) /\ []Numbered
  BY <1>2, InStepInvariant, NumberedAlways
<1>. HIDE DEF Running
<1>. QED BY <1>1, <1>3, <1>4, <1>5, PTL DEF Spec

-----------------------------------------------------------------------------
(***************************************************************************)
(* Finite sets that have nothing in common have as many elements together  *)
(* as their sizes sum up to.                                               *)
(***************************************************************************)
Sizes(C, f, S) ==
  /\ \A x \in S : IsFiniteSet(C[x]) /\ Cardinality(C[x]) = f[x]
  /\ \A x, y \in S : x # y => (C[x] \cap C[y]) = {}

SumIsSize(C, f, U) ==
  /\ IsFiniteSet(UNION {C[x] : x \in U})
  /\ Cardinality(UNION {C[x] : x \in U}) = SumFunctionOnSet(f, U)

LEMMA DisjointSizes ==
  ASSUME NEW S, IsFiniteSet(S), NEW C, NEW f, Sizes(C, f, S)
  PROVE  SumIsSize(C, f, S)
<1>. DEFINE T == {U \in SUBSET S : SumIsSize(C, f, U)}
<1>1. ASSUME NEW U \in SUBSET S, \A V \in SUBSET U : V # U => V \in T
      PROVE  U \in T
  <2>1. CASE U = {}
    <3>1. UNION {C[x] : x \in U} = {}
      BY <2>1
    <3>. QED BY <2>1, <3>1, FS_EmptySet, SumEmpty DEF SumIsSize
  <2>2. CASE U # {}
    <3>1. PICK x \in U : TRUE
      BY <2>2
    <3>. DEFINE V == U \ {x}  B == UNION {C[y] : y \in V}
    <3>2. V \in T /\ IsFiniteSet(B) /\ Cardinality(B) = SumFunctionOnSet(f, V)
      <4>1. V \in SUBSET U /\ V # U
        BY <3>1
      <4>. QED BY <1>1, <4>1 DEF SumIsSize
    <3>3. /\ IsFiniteSet(C[x]) /\ Cardinality(C[x]) = f[x]
          /\ (C[x] \cap B) = {}
      BY <3>1 DEF Sizes
    <3>4. UNION {C[y] : y \in U} = C[x] \cup B
      BY <3>1
    <3>5. IsFiniteSet(U) /\ Integral(f, U)
      <4>1. \A y \in U : IsFiniteSet(C[y]) /\ Cardinality(C[y]) = f[y]
        BY DEF Sizes
      <4>. QED BY <4>1, FS_Subset, FS_CardinalityType DEF Integral
    <3>6. SumFunctionOnSet(f, U) = f[x] + SumFunctionOnSet(f, V)
      BY <3>1, <3>5, SumRemove
    <3>. HIDE DEF B, V
    <3>7. /\ IsFiniteSet(C[x] \cup B)
          /\ Cardinality(C[x] \cup B) = Cardinality(C[x]) + Cardinality(B)
      <4>1. /\ IsFiniteSet(C[x] \cup B)
            /\ Cardinality(C[x] \cup B) = Cardinality(C[x]) + Cardinality(B)
                                          - Cardinality(C[x] \cap B)
        BY <3>2, <3>3, FS_Union
      <4>2. Cardinality(C[x] \cap B) = 0
        BY <3>3, FS_EmptySet
      <4>3. Cardinality(C[x]) \in Nat /\ Cardinality(B) \in Nat
        BY <3>2, <3>3, FS_CardinalityType
      <4>. QED BY <4>1, <4>2, <4>3
    <3>8. Cardinality(C[x] \cup B) = f[x] + SumFunctionOnSet(f, V)
      BY <3>2, <3>3, <3>7
    <3>. QED BY <3>4, <3>6, <3>7, <3>8 DEF SumIsSize
  <2>. QED BY <2>1, <2>2
<1>. HIDE DEF T
<1>2. SUBSET S \subseteq T
  BY <1>1, SubsetInduction
<1>. QED BY <1>2 DEF T

LEMMA IntervalSize ==
  ASSUME NEW m \in Int, NEW n \in Int, m <= n + 1
  PROVE  IsFiniteSet(m..n) /\ Cardinality(m..n) = n - m + 1
<1>1. IsFiniteSet(m..n) /\ Cardinality(m..n) = IF m > n THEN 0 ELSE n - m + 1
  BY FS_Interval
<1>. QED BY <1>1

(* The rays in the queue are counted by its entries. *)
LEMMA QueueSize ==
  ASSUME Given, Parallel
  PROVE  /\ IsFiniteSet(InQueue) /\ Cardinality(InQueue) = QueuedRays
         /\ \A k \in DOMAIN out_bq :
              /\ out_bq[k].ndx - Base \in InQueue
              /\ out_bq[k].ndx \in Nat /\ out_bq[k].nadded \in Nat \ {0}
              /\ \E x \in InQueue : out_bq[k].ndx + out_bq[k].nadded - 1 <= Base + x
<1>1. /\ QueueOK(out_bq, Base, accumulate, calls, vecs)
      /\ Numbering(Base, accumulate, calls, vecs)
      /\ Base \in Int /\ Sent \in Nat
  BY ParallelFacts DEF OutstandingInv
<1>. DEFINE D == 1..Len(out_bq)
            cov == [k \in D |-> Covered(out_bq[k], Base, accumulate)]
            f == [k \in D |-> out_bq[k].nadded]
<1>2. DOMAIN out_bq = D /\ IsFiniteSet(D) /\ out_bq \in Seq(Entries)
  <2>1. out_bq \in Seq(Entries) /\ Len(out_bq) \in Nat
    BY <1>1 DEF QueueOK
  <2>. QED BY <2>1, SegmentSize
<1>3. \A k \in D : /\ EntryOK(out_bq[k], Base, accumulate, calls, vecs)
                   /\ EntryRow(out_bq[k], Base, accumulate) \in Nat
                   /\ IsFiniteSet(Covered(out_bq[k], Base, accumulate))
                   /\ Cardinality(Covered(out_bq[k], Base, accumulate)) = out_bq[k].nadded
                   /\ out_bq[k].ndx \in Nat /\ out_bq[k].nadded \in Nat \ {0}
                   /\ out_bq[k].ndx - Base \in Covered(out_bq[k], Base, accumulate)
                   /\ \A x \in Covered(out_bq[k], Base, accumulate) : out_bq[k].ndx - Base <= x
                   /\ Covered(out_bq[k], Base, accumulate) \subseteq Int
  <2>1. SUFFICES ASSUME NEW k \in D, NEW e, e = out_bq[k]
                 PROVE  /\ EntryOK(e, Base, accumulate, calls, vecs)
                        /\ EntryRow(e, Base, accumulate) \in Nat
                        /\ IsFiniteSet(Covered(e, Base, accumulate))
                        /\ Cardinality(Covered(e, Base, accumulate)) = e.nadded
                        /\ e.ndx \in Nat /\ e.nadded \in Nat \ {0}
                        /\ e.ndx - Base \in Covered(e, Base, accumulate)
                        /\ \A x \in Covered(e, Base, accumulate) : e.ndx - Base <= x
                        /\ Covered(e, Base, accumulate) \subseteq Int
    OBVIOUS
  <2>2. EntryOK(e, Base, accumulate, calls, vecs)
    BY <1>1, <2>1 DEF QueueOK
  <2>3. /\ EntryRow(e, Base, accumulate) \in Nat
        /\ IsFiniteSet(Covered(e, Base, accumulate))
        /\ e.nadded \in Nat \ {0}
    BY <1>1, <2>2, EntryFacts
  <2>4. /\ Cardinality(Covered(e, Base, accumulate)) = e.nadded /\ e.ndx \in Nat
        /\ e.ndx - Base \in Covered(e, Base, accumulate)
        /\ Covered(e, Base, accumulate)
             \subseteq (e.ndx - Base)..(EntryRow(e, Base, accumulate) * accumulate)
    BY <1>1, <2>2, EntryTypes
  <2>. QED BY <2>2, <2>3, <2>4
<1>4. Sizes(cov, f, D)
  <2>1. \A j, k \in D : j # k =>
          (Covered(out_bq[j], Base, accumulate) \cap Covered(out_bq[k], Base, accumulate)) = {}
    <3>1. SUFFICES ASSUME NEW j \in D, NEW k \in D, j # k
                   PROVE  (Covered(out_bq[j], Base, accumulate)
                             \cap Covered(out_bq[k], Base, accumulate)) = {}
      OBVIOUS
    <3>2. j < k \/ k < j
      BY <3>1
    <3>3. \/ EntryRow(out_bq[j], Base, accumulate) < EntryRow(out_bq[k], Base, accumulate)
          \/ EntryRow(out_bq[k], Base, accumulate) < EntryRow(out_bq[j], Base, accumulate)
      BY <1>1, <3>1, <3>2 DEF QueueOK
    <3>4. EntryRow(out_bq[j], Base, accumulate) # EntryRow(out_bq[k], Base, accumulate)
      BY <1>3, <3>1, <3>3
    <3>. QED BY <1>1, <1>3, <3>1, <3>4, RowsApart
  <2>. QED BY <1>3, <2>1 DEF Sizes
<1>5. InQueue = UNION {cov[k] : k \in D}
  BY DEF InQueue, CoveredBy
<1>6. QueuedRays = SumFunctionOnSet(f, D)
  BY <1>2 DEF QueuedRays, SumFunction
<1>. HIDE DEF cov, f
<1>7. SumIsSize(cov, f, D)
  BY <1>2, <1>4, DisjointSizes
<1>8. IsFiniteSet(InQueue) /\ Cardinality(InQueue) = QueuedRays
  BY <1>5, <1>6, <1>7 DEF SumIsSize
<1>9. ASSUME NEW k \in D
      PROVE  /\ out_bq[k].ndx - Base \in InQueue
             /\ out_bq[k].ndx \in Nat /\ out_bq[k].nadded \in Nat \ {0}
             /\ \E x \in InQueue : out_bq[k].ndx + out_bq[k].nadded - 1 <= Base + x
  <2>. DEFINE K == Covered(out_bq[k], Base, accumulate)  m == out_bq[k].ndx - Base
              n == out_bq[k].nadded
  <2>1. /\ IsFiniteSet(K) /\ Cardinality(K) = n /\ n \in Nat \ {0} /\ m \in K
        /\ \A x \in K : m <= x
        /\ K \subseteq Int /\ m \in Int /\ out_bq[k].ndx = Base + m
    BY <1>1, <1>3
  <2>2. K \subseteq InQueue
    BY InCovered DEF InQueue
  <2>. HIDE DEF K, m, n
  <2>3. PICK x \in K : \A y \in K : y <= x
    BY <2>1, GreatestElement
  <2>4. m + n - 1 <= x
    <3>1. x \in Int /\ K \subseteq m..x /\ m <= x
      BY <2>1, <2>3
    <3>2. IsFiniteSet(m..x) /\ Cardinality(m..x) = x - m + 1
      BY <2>1, <3>1, IntervalSize
    <3>3. n <= x - m + 1
      BY <2>1, <3>1, <3>2, FS_Subset
    <3>. QED BY <2>1, <3>1, <3>3
  <2>5. x \in InQueue /\ x \in Int
    BY <2>1, <2>2, <2>3
  <2>6. out_bq[k].ndx + n - 1 <= Base + x
    BY <1>1, <2>1, <2>4, <2>5
  <2>7. m \in InQueue
    BY <2>1, <2>2
  <2>. QED BY <1>3, <2>5, <2>6, <2>7 DEF m, n
<1>. QED BY <1>2, <1>8, <1>9

(* The rays the children work on are counted by kida. *)
LEMMA WorkSize ==
  ASSUME Given, Parallel
  PROVE  IsFiniteSet(AtWork) /\ Cardinality(AtWork) = AssignedRays
<1>. DEFINE work == [i \in Busy |-> Work(i)]  f == [i \in Busy |-> kida[i].nr]
<1>1. IsFiniteSet(Busy)
  <2>1. nchild - 1 \in Int
    BY DEF Given, TypeOK, Assumption
  <2>2. IsFiniteSet(0..(nchild - 1)) /\ Busy \subseteq 0..(nchild - 1)
    BY <2>1, FS_Interval DEF Busy
  <2>. QED BY <2>2, FS_Subset
<1>2. \A i \in Busy : IsFiniteSet(Work(i)) /\ Cardinality(Work(i)) = kida[i].nr
  <2>1. SUFFICES ASSUME NEW i \in Busy
                 PROVE  IsFiniteSet(Work(i)) /\ Cardinality(Work(i)) = kida[i].nr
    OBVIOUS
  <2>. DEFINE m == First(i)  n == kida[i].nr
  <2>2. m \in Int /\ n \in Nat /\ m + n - 1 \in Int /\ m <= (m + n - 1) + 1
        /\ (m + n - 1) - m + 1 = n
    BY BusyFacts
  <2>3. Work(i) = m..(m + n - 1)
    BY DEF Work
  <2>. HIDE DEF m, n
  <2>. QED BY <2>2, <2>3, IntervalSize DEF n
<1>3. \A i, j \in Busy : i # j => (Work(i) \cap Work(j)) = {}
  BY ParallelFacts DEF WorkInv
<1>4. Sizes(work, f, Busy)
  BY <1>2, <1>3 DEF Sizes
<1>5. AtWork = UNION {work[i] : i \in Busy}
  BY DEF AtWork
<1>6. AssignedRays = SumFunctionOnSet(f, Busy)
  BY DEF AssignedRays, SumFunction
<1>. HIDE DEF work, f
<1>7. SumIsSize(work, f, Busy)
  BY <1>1, <1>4, DisjointSizes
<1>. QED BY <1>5, <1>6, <1>7 DEF SumIsSize

LEMMA NumberedAccounts ==
  ASSUME Given
  PROVE  RaysAccountedFor
<1>1. CASE pc \in {"restart", "exit"}
  BY <1>1 DEF RaysAccountedFor
<1>2. CASE pc \in {"idle", "solo"}
  <2>1. out_bq = <<>> /\ lastdone = lastray
    BY <1>2 DEF Given, Numbered
  <2>2. Busy = {}
    BY <1>2 DEF Given, InStep, ForkInv, Busy
  <2>3. QueuedRays = 0 /\ AssignedRays = 0
    <3>1. DOMAIN out_bq = {}
      BY <2>1
    <3>. QED BY <2>2, <3>1, SumEmpty DEF QueuedRays, AssignedRays, SumFunction
  <2>4. lastray \in Nat
    BY CallFacts
  <2>. QED BY <2>1, <2>3, <2>4 DEF RaysAccountedFor
<1>3. CASE pc \notin {"idle", "solo", "restart", "exit"}
  <2>1. Parallel
    BY <1>3 DEF Given, TypeOK, ParentStates, Parallel
  <2>. DEFINE p == RowsDone * accumulate
  <2>2. /\ (InQueue \cup AtWork) = (p + 1)..Sent
        /\ (InQueue \cap AtWork) = {}
    BY <2>1, ParallelFacts DEF OutstandingInv
  <2>3. /\ p \in Nat /\ p <= Sent /\ Sent \in Nat /\ Base \in Int
        /\ lastdone = Base + p /\ lastray = Base + Sent
    BY <2>1, ParallelFacts
  <2>. HIDE DEF p
  <2>4. /\ IsFiniteSet(InQueue) /\ Cardinality(InQueue) = QueuedRays
        /\ IsFiniteSet(AtWork) /\ Cardinality(AtWork) = AssignedRays
    BY <2>1, QueueSize, WorkSize
  <2>5. QueuedRays \in Nat /\ AssignedRays \in Nat
    BY <2>4, FS_CardinalityType
  <2>6. Cardinality((p + 1)..Sent) = QueuedRays + AssignedRays
    <3>1. Cardinality(InQueue \cup AtWork)
            = Cardinality(InQueue) + Cardinality(AtWork) - Cardinality(InQueue \cap AtWork)
      BY <2>4, FS_Union
    <3>2. Cardinality(InQueue \cap AtWork) = 0
      BY <2>2, FS_EmptySet
    <3>3. Cardinality(InQueue \cup AtWork) = Cardinality((p + 1)..Sent)
      BY <2>2
    <3>4. Cardinality(InQueue \cup AtWork) = QueuedRays + AssignedRays - 0
      BY <2>4, <3>1, <3>2
    <3>. QED BY <2>5, <3>3, <3>4
  <2>7. Cardinality((p + 1)..Sent) = Sent - (p + 1) + 1
    <3>1. p + 1 \in Int /\ Sent \in Int /\ p + 1 <= Sent + 1
      BY <2>3
    <3>. QED BY <3>1, IntervalSize
  <2>8. lastray = lastdone + QueuedRays + AssignedRays
    BY <2>3, <2>5, <2>6, <2>7
  <2>9. ASSUME NEW k \in DOMAIN out_bq
        PROVE  /\ lastdone < out_bq[k].ndx
               /\ out_bq[k].ndx + out_bq[k].nadded - 1 <= lastray
    <3>1. /\ out_bq[k].ndx - Base \in InQueue
          /\ out_bq[k].ndx \in Nat /\ out_bq[k].nadded \in Nat \ {0}
      BY <2>1, QueueSize
    <3>2. PICK x \in InQueue : out_bq[k].ndx + out_bq[k].nadded - 1 <= Base + x
      BY <2>1, QueueSize
    <3>3. \A y \in InQueue : y \in Int /\ p < y /\ y <= Sent
      BY <2>2, <2>3
    <3>4. p < out_bq[k].ndx - Base
      BY <3>1, <3>3
    <3>5. lastdone < out_bq[k].ndx
      BY <2>3, <3>1, <3>4
    <3>6. x \in Int /\ x <= Sent
      BY <3>3
    <3>. QED BY <2>3, <3>1, <3>2, <3>5, <3>6
  <2>. QED BY <2>8, <2>9 DEF RaysAccountedFor
<1>. QED BY <1>1, <1>2, <1>3

(***************************************************************************)
(* Every ray numbered so far was output, waits in the queue, or is with a  *)
(* child, and is counted there once (lastray, lastdone, nadded and nr of   *)
(* rc3_mod.c agree).                                                       *)
(***************************************************************************)
THEOREM RaysAccountedForAlways ==
  ASSUME Assumption, DocumentedUse
  PROVE  Spec => []RaysAccountedFor
<1>1. "tiny" \notin Kinds
  BY DocumentedKinds
<1>2. TypeOK /\ InStep /\ Numbered => RaysAccountedFor
  BY NumberedAccounts DEF Given
<1>3. Spec => [](TypeOK /\ InStep) /\ []Numbered
  BY <1>1, InStepInvariant, NumberedAlways
<1>. QED BY <1>2, <1>3, PTL

-----------------------------------------------------------------------------
(***************************************************************************)
(* What is in the queue is a sequence of entries, whatever -c and whatever *)
(* the rows: enough to know what output_catchup leaves behind.             *)
(***************************************************************************)
LEMMA InsertType ==
  ASSUME NEW q \in Seq(Entries), NEW e \in Entries
  PROVE  Insert(q, e) \in Seq(Entries)
<1>. DEFINE smaller == {k \in DOMAIN q : \A j \in 1..k : q[j].ndx < e.ndx}
            p == Cardinality(smaller)
<1>1. DOMAIN q = 1..Len(q) /\ Len(q) \in Nat
  OBVIOUS
<1>2. p \in 0..Len(q)
  <2>1. smaller \in SUBSET (1..Len(q))
    BY <1>1
  <2>2. \A k \in smaller : \A j \in 1..k : j \in smaller
    <3>1. SUFFICES ASSUME NEW k \in smaller, NEW j \in 1..k  PROVE j \in smaller
      OBVIOUS
    <3>2. j \in 1..Len(q) /\ 1..j \subseteq 1..k
      BY <1>1, <3>1
    <3>. QED BY <1>1, <3>1, <3>2
  <2>. HIDE DEF smaller
  <2>. QED BY <1>1, <2>1, <2>2, InitialSegment
<1>3. Insert(q, e) = Inserted(q, p, e)
  BY DEF Insert, Inserted
<1>. HIDE DEF p
<1>. QED BY <1>2, <1>3, InsertAtOf

LEMMA QueueOutputType ==
  ASSUME NEW q \in Seq(Entries), NEW e \in Entries, NEW a
  PROVE  QueueOutput(q, e, a) \in Seq(Entries)
<1>. DEFINE s == Insert(q, e)
<1>1. s \in Seq(Entries) /\ Len(s) \in Nat
  BY InsertType
<1>2. Merge(s, a) \in Seq(Entries)
  <2>. HIDE DEF s
  <2>1. PICK g : MergesTo(s, a, g) /\ Merge(s, a) = g[Len(s)]
    BY <1>1, MergeIs
  <2>. DEFINE T == {k \in 0..Len(s) : g[k] \in Seq(Entries)}
  <2>2. \A k \in 0..Len(s) :
          g[k] = IF k = 0 THEN <<>> ELSE MergeNext(g[k - 1], s[k], a)
    BY <2>1 DEF MergesTo
  <2>3. 0 \in T
    <3>1. 0 \in 0..Len(s) /\ g[0] = <<>>
      BY <1>1, <2>2
    <3>. QED BY <3>1, EmptySeq
  <2>4. ASSUME NEW k \in 0..(Len(s) - 1), k \in T  PROVE k + 1 \in T
    <3>1. k + 1 \in 0..Len(s) /\ k + 1 # 0 /\ (k + 1) - 1 = k /\ k + 1 \in 1..Len(s)
      BY <1>1
    <3>2. g[k + 1] = MergeNext(g[k], s[k + 1], a)
      BY <2>2, <3>1
    <3>3. g[k] \in Seq(Entries) /\ s[k + 1] \in Entries
      BY <1>1, <2>4, <3>1
    <3>4. MergeNext(g[k], s[k + 1], a) \in Seq(Entries)
      BY <3>3, MergeNextType
    <3>. QED BY <3>1, <3>2, <3>4
  <2>. HIDE DEF T
  <2>5. 0..Len(s) \subseteq T
    BY <1>1, <2>3, <2>4, IntervalInduction
  <2>6. Len(s) \in T
    BY <1>1, <2>5
  <2>. QED BY <2>1, <2>6 DEF T
<1>. QED BY <1>1, <1>2 DEF QueueOutput

(* What is left once all that is ready was popped is not ready. *)
LEMMA NothingReady ==
  ASSUME NEW S, NEW q \in Seq(S), NEW done \in Int, NEW a \in Nat,
         NEW n, n = QueueReady(q, done, a)
  PROVE  /\ n \in 0..Len(q) /\ Rest(q, n) \in Seq(S)
         /\ QueueReady(Rest(q, n), done + n * a, a) = 0
<1>1. /\ n \in 0..Len(q) /\ n \in Nat /\ Len(q) \in Nat
      /\ n # Len(q) => ~IsReady(q, n + 1, done, a)
  <2>1. /\ n \in 0..Len(q)
        /\ n # Len(q) => ~IsReady(q, n + 1, done, a)
    BY ReadyPrefix
  <2>. QED BY <2>1
<1>2. /\ Rest(q, n) \in Seq(S) /\ Len(Rest(q, n)) = Len(q) - n
      /\ \A k \in 1..(Len(q) - n) : Rest(q, n)[k] = q[n + k]
  BY <1>1, RestOf
<1>. DEFINE s == Rest(q, n)  d == done + n * a
<1>3. d \in Int
  BY <1>1
<1>4. QueueReady(s, d, a) = 0
  <2>1. n # Len(q) => ~IsReady(s, 1, d, a)
    <3>1. SUFFICES ASSUME n # Len(q)  PROVE ~IsReady(s, 1, d, a)
      OBVIOUS
    <3>2. s[1] = q[n + 1]
      <4>1. 1 \in 1..(Len(q) - n)
        BY <1>1, <3>1
      <4>. QED BY <1>2, <4>1
    <3>3. d + (1 - 1) * a + 1 = done + ((n + 1) - 1) * a + 1
      BY <1>1
    <3>4. ~IsReady(q, n + 1, done, a)
      BY <1>1, <3>1
    <3>. HIDE DEF s, d
    <3>. QED BY <3>2, <3>3, <3>4 DEF IsReady
  <2>. HIDE DEF s, d
  <2>2. /\ QueueReady(s, d, a) \in 0..Len(s)
        /\ \A k \in 1..QueueReady(s, d, a) : IsReady(s, k, d, a)
    BY <1>2, ReadyPrefix DEF s
  <2>3. Len(s) = Len(q) - n
    BY <1>2 DEF s
  <2>. QED BY <1>1, <2>1, <2>2, <2>3
<1>. QED BY <1>1, <1>2, <1>4

(* The queue and its numbers, for any use. *)
QueueTypes == out_bq \in Seq(Entries) /\ lastdone \in Nat

(* output_catchup keeps the types, and leaves nothing that is ready. *)
LEMMA OutputTypes ==
  ASSUME accumulate \in Nat, NEW q \in Seq(Entries), NEW done \in Nat,
         NEW nmax \in Int, OutputCatchup(q, nmax, done)
  PROVE  /\ QueueTypes'
         /\ nmax = 0 => QueueReady(out_bq', lastdone', accumulate) = 0
<1>. DEFINE r == QueueReady(q, done, accumulate)
            n == Catchup(q, nmax, done, accumulate)
<1>1. out_bq' = Rest(q, n) /\ lastdone' = done + n * accumulate
  BY DEF OutputCatchup, Rest
<1>2. r \in 0..Len(q)
  BY ReadyPrefix
<1>3. n \in 0..Len(q) /\ (nmax = 0 => n = r)
  BY <1>2 DEF Catchup
<1>. HIDE DEF n
<1>4. Rest(q, n) \in Seq(Entries)
  BY <1>2, <1>3, RestOf
<1>5. nmax = 0 => QueueReady(out_bq', lastdone', accumulate) = 0
  <2>1. SUFFICES ASSUME nmax = 0
                 PROVE  QueueReady(Rest(q, n), done + n * accumulate, accumulate) = 0
    BY <1>1
  <2>2. n = QueueReady(q, done, accumulate)
    BY <1>3, <2>1
  <2>. QED BY <2>2, NothingReady
<1>6. QueueTypes'
  <2>1. n \in Nat /\ done + n * accumulate \in Nat
    BY <1>2, <1>3
  <2>. QED BY <1>1, <1>4, <2>1 DEF QueueTypes
<1>. QED BY <1>5, <1>6

Cleared == QueueTypes /\ ClearedBeforeBlocking

LEMMA ClearedWait ==
  ASSUME Assumption, TypeOK, Cleared, Wait \/ FlushEnd \/ Poll
  PROVE  Cleared'
<1>1. accumulate \in Nat /\ accumulate' = accumulate
  BY DEF Assumption, TypeOK, Wait, FlushEnd, Poll, options
<1>2. QueueTypes /\ lastdone \in Nat
  BY DEF Cleared, QueueTypes
<1>3. QueueReady(out_bq, lastdone, accumulate) - nchild \in Int
  <2>1. out_bq \in Seq(Entries) /\ nchild \in Int
    BY DEF Cleared, QueueTypes, TypeOK
  <2>2. QueueReady(out_bq, lastdone, accumulate) \in 0..Len(out_bq)
    BY <2>1, ReadyPrefix
  <2>. QED BY <2>1, <2>2
<1>4. \/ OutputCatchup(out_bq, 0, lastdone)
      \/ /\ pc' # "block"
         /\ \/ OutputCatchup(out_bq, QueueReady(out_bq, lastdone, accumulate) - nchild,
                             lastdone)
            \/ UNCHANGED <<out_bq, lastdone>>
  BY DEF Wait, FlushEnd, Poll, queue
<1>5. CASE OutputCatchup(out_bq, 0, lastdone)
  <2>1. /\ QueueTypes'
        /\ QueueReady(out_bq', lastdone', accumulate) = 0
    BY <1>1, <1>2, <1>5, OutputTypes DEF QueueTypes
  <2>. QED BY <1>1, <2>1 DEF Cleared, ClearedBeforeBlocking
<1>6. CASE OutputCatchup(out_bq, QueueReady(out_bq, lastdone, accumulate) - nchild,
                         lastdone) /\ pc' # "block"
  <2>1. QueueTypes'
    BY <1>1, <1>2, <1>3, <1>6, OutputTypes DEF QueueTypes
  <2>. QED BY <1>6, <2>1 DEF Cleared, ClearedBeforeBlocking
<1>7. CASE UNCHANGED <<out_bq, lastdone>> /\ pc' # "block"
  BY <1>2, <1>7 DEF Cleared, ClearedBeforeBlocking, QueueTypes
<1>. QED BY <1>4, <1>5, <1>6, <1>7

LEMMA ClearedZero ==
  ASSUME Assumption, TypeOK, Cleared, Zero \/ ZeroRestart
  PROVE  Cleared'
<1>1. accumulate \in Nat \ {0} /\ lastray \in Nat
  BY DEF Assumption, TypeOK
<1>2. QueueTypes /\ pc' # "block"
  BY DEF Cleared, Zero, ZeroRestart
<1>3. ASSUME NEW ndx \in Nat, NEW done \in Nat, PutZeroRecord(ndx, done)
      PROVE  QueueTypes'
  <2>1. NewEntry(ndx, 1, BlackSum) \in Entries
    BY SumTypes DEF NewEntry, Entries
  <2>2. QueueOutput(out_bq, NewEntry(ndx, 1, BlackSum), accumulate) \in Seq(Entries)
    BY <1>2, <2>1, QueueOutputType DEF QueueTypes
  <2>. QED BY <1>1, <1>3, <2>2, OutputTypes DEF PutZeroRecord
<1>4. CASE PutZeroRecord(lastray + 1, lastdone)
  <2>1. lastray + 1 \in Nat /\ lastdone \in Nat
    BY <1>1, <1>2 DEF QueueTypes
  <2>2. QueueTypes'
    BY <1>3, <1>4, <2>1
  <2>. QED BY <1>2, <2>2 DEF Cleared, ClearedBeforeBlocking
<1>5. CASE PutZeroRecord(accumulate, accumulate - 1)
  <2>1. accumulate \in Nat /\ accumulate - 1 \in Nat
    BY <1>1
  <2>2. QueueTypes'
    BY <1>3, <1>5, <2>1
  <2>. QED BY <1>2, <2>2 DEF Cleared, ClearedBeforeBlocking
<1>6. CASE UNCHANGED <<out_bq, lastdone>>
  BY <1>2, <1>6 DEF Cleared, ClearedBeforeBlocking, QueueTypes
<1>. QED BY <1>4, <1>5, <1>6 DEF Zero, ZeroRestart, numbers, queue

LEMMA ClearedQueueResults ==
  ASSUME Assumption, TypeOK, InStep, Cleared, QueueResults
  PROVE  Cleared'
<1>1. PICK i \in readset :
        /\ from[i] # <<>>
        /\ out_bq' = QueueOutput(out_bq,
                        NewEntry(kida[i].r1, kida[i].nr, Head(from[i])), accumulate)
  BY DEF QueueResults
<1>2. /\ pc' \in {"read", "next", "send"} /\ lastdone' = lastdone
  BY DEF QueueResults, numbers
<1>3. i \in Kids /\ from[i] \in Seq(Sums(RayIds)) /\ kida[i] \in [r1 : Nat, nr : Nat]
  BY DEF TypeOK
<1>4. NewEntry(kida[i].r1, kida[i].nr, Head(from[i])) \in Entries
  <2>1. Head(from[i]) \in Sums(RayIds)
    BY <1>1, <1>3
  <2>. QED BY <1>3, <2>1 DEF NewEntry, Entries
<1>5. out_bq' \in Seq(Entries)
  BY <1>1, <1>4, QueueOutputType DEF Cleared, QueueTypes
<1>. QED BY <1>2, <1>5 DEF Cleared, ClearedBeforeBlocking, QueueTypes

LEMMA ClearedNext ==
  ASSUME Assumption, TypeOK, InStep, Cleared, [Next]_vars
  PROVE  Cleared'
<1>1. CASE Wait \/ FlushEnd \/ Poll
  BY <1>1, ClearedWait
<1>2. CASE Zero \/ ZeroRestart
  BY <1>2, ClearedZero
<1>3. CASE QueueResults
  BY <1>3, ClearedQueueResults
<1>4. CASE SoloRay
  <2>1. lastdone' = lastdone + 1 /\ UNCHANGED <<pc, out_bq>> /\ pc = "solo"
    BY <1>4 DEF SoloRay
  <2>. QED BY <2>1 DEF Cleared, ClearedBeforeBlocking, QueueTypes
<1>5. CASE /\ UNCHANGED <<out_bq, lastdone>>
           /\ pc' = "block" => pc = "block" /\ UNCHANGED accumulate
  BY <1>5 DEF Cleared, ClearedBeforeBlocking, QueueTypes
<1>6. ASSUME Request \/ Fork \/ SoloEnd \/ Feed \/ FeedEnd \/ Send
      PROVE  UNCHANGED <<out_bq, lastdone>> /\ pc' # "block"
  <2>1. CASE Request
    BY <2>1 DEF Request, Reinitialize, Call, numbers, queue
  <2>2. CASE Fork \/ SoloEnd \/ Feed \/ FeedEnd \/ Send
    BY <2>2 DEF Fork, SoloEnd, Feed, FeedEnd, Send, numbers, queue
  <2>. QED BY <1>6, <2>1, <2>2
<1>7. ASSUME PickFree \/ Block \/ Close \/ Exit
      PROVE  UNCHANGED <<out_bq, lastdone>> /\ pc' # "block"
  BY <1>7 DEF PickFree, Block, Close, Exit, numbers, queue
<1>8. ASSUME UNCHANGED vars \/ \E i \in Kids : Kid(i) \/ KidDies(i)
      PROVE  UNCHANGED <<pc, out_bq, lastdone, accumulate>>
  BY <1>8 DEF vars, Kid, KidStarts, KidReads, KidWrites, KidBrokenPipe,
              KidEnds, KidDies, numbers, queue, options
<1>. QED BY <1>1, <1>2, <1>3, <1>4, <1>5, <1>6, <1>7, <1>8
         DEF Next, Parent, Failure, SendFails, ReadFails, ForkFails, Signalled, AtRest

LEMMA ClearedInvariant ==
  ASSUME Assumption, "tiny" \notin Kinds
  PROVE  Spec => []Cleared
<1>1. Init => Cleared
  BY EmptySeq DEF Init, Cleared, QueueTypes, ClearedBeforeBlocking
<1>2. (TypeOK /\ InStep) /\ Cleared /\ [Next]_vars => Cleared'
  BY ClearedNext
<1>3. Spec => [](TypeOK /\ InStep)
  BY InStepInvariant
<1>. QED BY <1>1, <1>2, <1>3, PTL DEF Spec

(***************************************************************************)
(* Whatever -c and whatever the rows, when the controller blocks for       *)
(* results everything that can be output has been ("clear output before    *)
(* blocking" in next_child_nq).                                            *)
(***************************************************************************)
THEOREM ClearedBeforeBlockingAlways ==
  ASSUME Assumption, "tiny" \notin Kinds
  PROVE  Spec => []ClearedBeforeBlocking
<1>1. Cleared => ClearedBeforeBlocking
  BY DEF Cleared
<1>. QED BY <1>1, ClearedInvariant, PTL

-----------------------------------------------------------------------------
(***************************************************************************)
(* The call implements RcontribPromise.  What the caller has been given of *)
(* a call is the answers of its first RowsDone rows.                       *)
(***************************************************************************)
Shown == [k \in DOMAIN output_values |-> AnswerOf(k)]

Status == IF pc = "idle" THEN "idle" ELSE IF pc = "exit" THEN "exited" ELSE "busy"

AnswersShown ==
  /\ Len(vecs) \in 0..MaxRows
  /\ pc # "exit" =>
       /\ RowsDone \in 0..Len(vecs)
       /\ Shown = Promise!Answers(RowsDone) /\ DOMAIN Shown = 1..RowsDone
       /\ pc = "idle" /\ calls > 0 => RowsDone = Len(vecs)

(* Before the first call there are no answers, and no call has more rows. *)
RowsFit ==
  /\ Len(vecs) <= MaxRows
  /\ pc = "idle" /\ calls = 0 => output_values = <<>>

LEMMA SoloRows ==
  ASSUME Given, pc = "solo"
  PROVE  RowsDone \in 0..Len(vecs)
<1>1. RowsDone = fed \div accumulate /\ fed <= RayCount
  BY DEF Given, Numbered, SoloInv
<1>2. fed \in Nat /\ accumulate \in Nat \ {0} /\ Len(vecs) \in Nat
  BY CallFacts
<1>. DEFINE l == Len(vecs)  d == fed \div accumulate
<1>3. RayCount = l * accumulate
  BY DEF RayCount
<1>. HIDE DEF l
<1>4. d \in Int /\ fed % accumulate \in 0..(accumulate - 1)
      /\ fed = d * accumulate + (fed % accumulate)
  BY <1>2, Division
<1>5. l \in Nat
  BY <1>2 DEF l
<1>. HIDE DEF d
<1>6. ~(l < d)
  BY <1>1, <1>2, <1>3, <1>4, <1>5, NextMultiple
<1>7. ~(d < 0)
  <2>1. 0 * accumulate = 0
    BY <1>2
  <2>. QED BY <1>2, <1>4, <2>1, NextMultiple
<1>8. d \in 0..l
  BY <1>4, <1>5, <1>6, <1>7
<1>. QED BY <1>1, <1>8 DEF l, d

LEMMA RowsOfCall ==
  ASSUME NEW rows \in Inputs, MaxRows \in Nat
  PROVE  Len(rows) \in 0..MaxRows
BY DEF Inputs

(* Only a call changes the rows, and the array is as it was between calls. *)
LEMMA RowsChange ==
  ASSUME [Next]_vars
  PROVE  \/ UNCHANGED <<vecs, calls>> /\ (pc' = "idle" => UNCHANGED output_values)
         \/ /\ pc = "idle" /\ pc' \in {"fork", "solo"} /\ vecs' \in Inputs
            /\ output_values' = <<>>
<1>1. CASE Request
  BY <1>1 DEF Request, Reinitialize, Call, call, queue
<1>2. CASE Fork \/ SoloRay \/ SoloEnd
  BY <1>2 DEF Fork, SoloRay, SoloEnd, call, queue
<1>3. CASE Feed \/ FeedEnd \/ Send \/ Zero \/ ZeroRestart
  BY <1>3 DEF Feed, FeedEnd, Send, Zero, ZeroRestart, call, queue
<1>4. CASE PickFree \/ Wait \/ FlushEnd \/ Poll
  BY <1>4 DEF PickFree, Wait, FlushEnd, Poll, call, queue
<1>5. CASE Block \/ QueueResults \/ Close \/ Exit
  BY <1>5 DEF Block, QueueResults, Close, Exit, call, queue
<1>6. CASE UNCHANGED vars \/ \E i \in Kids : Kid(i) \/ KidDies(i)
  BY <1>6 DEF vars, Kid, KidStarts, KidReads, KidWrites, KidBrokenPipe,
              KidEnds, KidDies, call, queue
<1>. QED BY <1>1, <1>2, <1>3, <1>4, <1>5, <1>6
         DEF Next, Parent, Failure, SendFails, ReadFails, ForkFails, Signalled, AtRest

LEMMA RowsFitNext ==
  ASSUME Assumption, InStep, RowsFit, [Next]_vars
  PROVE  RowsFit'
<1>1. pc # "idle" => calls # 0
  BY DEF InStep, ForkInv
<1>2. CASE UNCHANGED <<vecs, calls>> /\ (pc' = "idle" => UNCHANGED output_values)
  BY <1>1, <1>2 DEF RowsFit
<1>3. CASE pc' \in {"fork", "solo"} /\ vecs' \in Inputs
  BY <1>3, RowsOfCall DEF RowsFit, Assumption
<1>. QED BY <1>2, <1>3, RowsChange

LEMMA NumberedShows ==
  ASSUME Given, RowsFit
  PROVE  AnswersShown
<1>1. Len(vecs) \in 0..MaxRows
  BY CallFacts DEF Given, Assumption, RowsFit
<1>2. SUFFICES ASSUME pc # "exit"
               PROVE  /\ RowsDone \in 0..Len(vecs)
                      /\ Shown = Promise!Answers(RowsDone)
                      /\ DOMAIN Shown = 1..RowsDone
                      /\ pc = "idle" /\ calls > 0 => RowsDone = Len(vecs)
  BY <1>1 DEF AnswersShown
<1>3. AnswersInOrder /\ (pc = "idle" => IdleInv)
  BY <1>2 DEF Given, Numbered
<1>4. DOMAIN output_values = 1..RowsDone /\ RowsDone \in Nat
  BY <1>3 DEF AnswersInOrder, RowsDone
<1>5. RowsDone \in 0..Len(vecs)
  <2>1. CASE pc = "solo"
    BY <2>1, SoloRows
  <2>2. CASE pc = "idle" /\ calls > 0
    BY <1>1, <1>3, <2>2 DEF IdleInv
  <2>3. CASE pc = "idle" /\ calls = 0
    <3>1. RowsDone = 0
      BY <2>3 DEF RowsFit, RowsDone
    <3>. QED BY <1>1, <3>1
  <2>4. CASE Parallel
    BY <2>4, ParallelFacts
  <2>. QED BY <1>2, <2>1, <2>2, <2>3, <2>4, CallFacts DEF Given, TypeOK, ParentStates, Parallel
<1>6. \A k \in 1..RowsDone : AnswerOf(k) = k
  BY <1>1, <1>3, <1>5 DEF AnswersInOrder, AnswerOf
<1>7. Shown = Promise!Answers(RowsDone) /\ DOMAIN Shown = 1..RowsDone
  BY <1>4, <1>6 DEF Shown, Promise!Answers
<1>. QED BY <1>3, <1>5, <1>7 DEF IdleInv

-----------------------------------------------------------------------------
(* The result array only grows during a call. *)
LEMMA OutputGrows ==
  ASSUME NEW q \in Seq(Entries), NEW done, NEW nmax \in Int,
         OutputCatchup(q, nmax, done), AnswersInOrder
  PROVE  RowsDone <= RowsDone'
<1>. DEFINE n == Catchup(q, nmax, done, accumulate)
            new == SumsOf(q, n)
<1>1. QueueReady(q, done, accumulate) \in 0..Len(q) /\ Len(q) \in Nat
  BY ReadyPrefix
<1>2. n \in 0..Len(q)
  BY <1>1 DEF Catchup
<1>3. output_values' = output_values \o new
  BY DEF OutputCatchup, SumsOf
<1>. HIDE DEF n
<1>4. \A k \in 1..n : q[k].sum \in Sums(RayIds)
  <2>1. \A k \in 1..n : k \in 1..Len(q)
    BY <1>1, <1>2
  <2>2. \A k \in 1..Len(q) : q[k] \in Entries
    BY <1>1
  <2>. QED BY <2>1, <2>2 DEF Entries
<1>5. new \in Seq(Sums(RayIds)) /\ Len(new) = n /\ n \in Nat
  BY <1>1, <1>2, <1>4 DEF SumsOf
<1>. HIDE DEF new
<1>6. output_values \in Seq(Sums(RayIds)) /\ Len(output_values) \in Nat
  BY DEF AnswersInOrder
<1>7. Len(output_values \o new) = Len(output_values) + n
  BY <1>5, <1>6
<1>. QED BY <1>3, <1>5, <1>6, <1>7 DEF RowsDone

LEMMA ParallelGrows ==
  ASSUME Assumption, TypeOK, QueueTypes, AnswersInOrder,
         Zero \/ ZeroRestart \/ Wait \/ FlushEnd \/ Poll
  PROVE  RowsDone <= RowsDone'
<1>1. out_bq \in Seq(Entries) /\ lastray \in Nat /\ accumulate \in Nat
  BY DEF QueueTypes, TypeOK, Assumption
<1>2. RowsDone \in Nat
  BY DEF AnswersInOrder, RowsDone
<1>3. ASSUME NEW ndx \in Nat, NEW done, PutZeroRecord(ndx, done)
      PROVE  RowsDone <= RowsDone'
  <2>1. NewEntry(ndx, 1, BlackSum) \in Entries
    BY SumTypes DEF NewEntry, Entries
  <2>2. QueueOutput(out_bq, NewEntry(ndx, 1, BlackSum), accumulate) \in Seq(Entries)
    BY <1>1, <2>1, QueueOutputType
  <2>. QED BY <1>3, <2>2, OutputGrows DEF PutZeroRecord
<1>4. CASE PutZeroRecord(lastray + 1, lastdone)
  BY <1>1, <1>3, <1>4
<1>5. CASE PutZeroRecord(accumulate, accumulate - 1)
  BY <1>1, <1>3, <1>5
<1>6. CASE OutputCatchup(out_bq, 0, lastdone)
  BY <1>1, <1>6, OutputGrows
<1>7. CASE OutputCatchup(out_bq, QueueReady(out_bq, lastdone, accumulate) - nchild,
                         lastdone)
  <2>1. QueueReady(out_bq, lastdone, accumulate) \in Int /\ nchild \in Int
    BY <1>1, ReadyPrefix DEF TypeOK
  <2>. QED BY <1>1, <1>7, <2>1, OutputGrows
<1>8. CASE UNCHANGED output_values
  BY <1>2, <1>8 DEF RowsDone
<1>. QED BY <1>4, <1>5, <1>6, <1>7, <1>8
         DEF Zero, ZeroRestart, Wait, FlushEnd, Poll, queue

(* What a step of the call is for the caller who waits for it. *)
Begins == Status = "idle" /\ Status' = "busy" /\ vecs' \in Inputs /\ output_values' = <<>>
Goes == Status = "busy" /\ Status' = "busy" /\ vecs' = vecs /\ RowsDone <= RowsDone'
Ends == /\ Status = "busy" /\ Status' = "idle" /\ calls > 0
        /\ UNCHANGED <<vecs, calls, output_values>>
Leaves == Status = "busy" /\ Status' = "exited" /\ UNCHANGED <<vecs, Shown>>
Rests == /\ UNCHANGED <<Status, vecs>>
         /\ \/ Status = "idle" /\ UNCHANGED output_values
            \/ Status = "exited" /\ UNCHANGED Shown

LEMMA StepKinds ==
  ASSUME Assumption, TypeOK, InStep, QueueTypes, pc # "exit" => AnswersInOrder,
         [Next]_vars
  PROVE  Begins \/ Goes \/ Ends \/ Leaves \/ Rests
<1>1. pc # "idle" => calls > 0
  BY DEF InStep, ForkInv
<1>2. CASE pc' = "exit"
  <2>1. UNCHANGED <<accumulate, vecs, calls, output_values>>
    BY <1>2, ExitLeaves
  <2>2. Shown' = Shown
    BY <2>1 DEF Shown, AnswerOf, Answer, RowRays
  <2>3. pc # "idle"
    <3>1. CASE Request \/ Parent
      BY <1>2, <3>1
         DEF Request, Reinitialize, Call, Parent, Fork, SoloRay, SoloEnd, Feed,
             FeedEnd, Send, SendFails, Zero, ZeroRestart, PickFree, Wait, FlushEnd,
             Poll, Block, QueueResults, ReadFails, Close
    <3>2. CASE UNCHANGED vars \/ Failure \/ \E i \in Kids : Kid(i)
      BY <1>2, <3>2 DEF vars, Failure, ForkFails, Signalled, Kid, KidStarts,
                        KidReads, KidWrites, KidBrokenPipe, KidEnds, KidDies
    <3>. QED BY <3>1, <3>2 DEF Next, AtRest
  <2>. QED BY <1>2, <2>1, <2>2, <2>3 DEF Status, Leaves, Rests
<1>3. CASE Request
  BY <1>3 DEF Request, Reinitialize, Call, call, queue, Status, Begins, Rests
<1>4. CASE SoloEnd \/ Close
  BY <1>1, <1>4 DEF SoloEnd, Close, call, queue, Status, Ends
<1>5. CASE SoloRay
  <2>1. pc = "solo" /\ pc' = "solo" /\ vecs' = vecs
        /\ (\/ UNCHANGED output_values
            \/ \E s : output_values' = Append(output_values, s))
    BY <1>5 DEF SoloRay
  <2>2. output_values \in Seq(Sums(RayIds)) /\ RowsDone \in Nat
    BY <2>1 DEF AnswersInOrder, RowsDone
  <2>3. RowsDone <= RowsDone'
    BY <2>1, <2>2 DEF RowsDone
  <2>. QED BY <2>1, <2>3 DEF Status, Goes
<1>6. CASE Zero \/ ZeroRestart \/ Wait \/ FlushEnd \/ Poll
  <2>1. pc \notin {"idle", "exit"} /\ pc' \notin {"idle", "exit"} /\ vecs' = vecs
    BY <1>6 DEF Zero, ZeroRestart, Wait, FlushEnd, Poll, call
  <2>2. RowsDone <= RowsDone'
    BY <1>6, <2>1, ParallelGrows
  <2>. QED BY <2>1, <2>2 DEF Status, Goes
<1>7. CASE Fork \/ Feed \/ FeedEnd \/ Send \/ PickFree \/ Block \/ QueueResults
  <2>1. /\ pc \notin {"idle", "exit"} /\ pc' \notin {"idle", "exit"}
        /\ UNCHANGED <<vecs, output_values>>
    BY <1>7 DEF Fork, Feed, FeedEnd, Send, PickFree, Block, QueueResults, call, queue
  <2>2. RowsDone <= RowsDone'
    BY <2>1 DEF AnswersInOrder, RowsDone
  <2>. QED BY <2>1, <2>2 DEF Status, Goes
<1>8. CASE UNCHANGED vars \/ \E i \in Kids : Kid(i) \/ KidDies(i)
  <2>1. UNCHANGED <<pc, vecs, output_values>>
    BY <1>8 DEF vars, Kid, KidStarts, KidReads, KidWrites, KidBrokenPipe,
                KidEnds, KidDies, call, queue
  <2>2. pc # "exit" => RowsDone <= RowsDone'
    BY <2>1 DEF AnswersInOrder, RowsDone
  <2>. QED BY <1>2, <2>1, <2>2 DEF Status, Goes, Rests
<1>. QED BY <1>2, <1>3, <1>4, <1>5, <1>6, <1>7, <1>8
         DEF Next, Parent, Failure, SendFails, ReadFails, ForkFails, Signalled,
             AtRest, Exit

(* The answers of no row, and of more rows. *)
LEMMA PromisedAnswers ==
  ASSUME NEW m \in Nat
  PROVE  /\ Promise!Answers(m) \in Seq(Nat) /\ Len(Promise!Answers(m)) = m
         /\ m = 0 => Promise!Answers(m) = <<>>
<1>1. Promise!Answers(m) \in Seq(Nat) /\ Len(Promise!Answers(m)) = m
  BY DEF Promise!Answers
<1>2. ASSUME m = 0  PROVE Promise!Answers(m) = <<>>
  BY <1>1, <1>2, EmptySeq
<1>. QED BY <1>1, <1>2

(***************************************************************************)
(* Every step of the call is a step of the promise, or changes nothing of  *)
(* what the caller sees.                                                   *)
(***************************************************************************)
LEMMA StepImplements ==
  ASSUME Assumption, AnswersShown, AnswersShown',
         Begins \/ Goes \/ Ends \/ Leaves \/ Rests
  PROVE  [Promise!Next]_(Promise!vars)
<1>. DEFINE PNext ==
              \/ \E n \in 0..MaxRows :
                   \/ /\ Status = "idle" /\ Status' = "busy"
                      /\ Len(vecs)' = n /\ Shown' = <<>>
                   \/ /\ Status = "busy"
                      /\ Len(Shown) < n /\ n <= Len(vecs)
                      /\ Shown' = Promise!Answers(n)
                      /\ UNCHANGED <<Status, Len(vecs)>>
              \/ /\ Status = "busy" /\ Shown = Promise!Answers(Len(vecs))
                 /\ Status' = "idle" /\ UNCHANGED <<Len(vecs), Shown>>
              \/ /\ Status = "busy" /\ Status' = "exited"
                 /\ UNCHANGED <<Len(vecs), Shown>>
              \/ UNCHANGED <<Status, Len(vecs), Shown>>
<1>1. PNext => [Promise!Next]_(Promise!vars)
  BY DEF Status, Shown, Promise!Next, Promise!vars, Promise!Start, Promise!Emit,
         Promise!Return, Promise!Exit
<1>2. /\ Len(vecs) \in 0..MaxRows /\ Len(vecs)' \in 0..MaxRows
      /\ Status # "exited" => /\ RowsDone \in 0..Len(vecs)
                              /\ Shown = Promise!Answers(RowsDone)
      /\ Status' # "exited" => /\ RowsDone' \in 0..Len(vecs)'
                               /\ Shown' = Promise!Answers(RowsDone')
  BY DEF AnswersShown, Status
<1>3. MaxRows \in Nat
  BY DEF Assumption
<1>4. CASE Begins
  <2>1. RowsDone' = 0
    BY <1>4 DEF Begins, RowsDone
  <2>2. Shown' = <<>>
    BY <1>2, <1>4, <2>1, PromisedAnswers DEF Begins
  <2>3. PNext
    BY <1>2, <1>4, <2>2 DEF Begins
  <2>. QED BY <1>1, <2>3
<1>5. CASE Goes
  <2>1. Status = "busy" /\ Status' = "busy" /\ Len(vecs)' = Len(vecs)
        /\ RowsDone <= RowsDone'
    BY <1>5 DEF Goes
  <2>2. /\ RowsDone \in Nat /\ RowsDone' \in Nat /\ RowsDone' <= Len(vecs)
        /\ RowsDone' \in 0..MaxRows
        /\ Shown = Promise!Answers(RowsDone) /\ Shown' = Promise!Answers(RowsDone')
    BY <1>2, <1>3, <2>1
  <2>3. CASE RowsDone' = RowsDone
    <3>1. Shown' = Shown
      BY <2>2, <2>3
    <3>. QED BY <1>1, <2>1, <3>1
  <2>4. CASE RowsDone < RowsDone'
    <3>1. Len(Shown) < RowsDone'
      BY <2>2, <2>4, PromisedAnswers
    <3>2. PNext
      BY <2>1, <2>2, <3>1
    <3>. QED BY <1>1, <3>2
  <2>. QED BY <2>1, <2>2, <2>3, <2>4
<1>6. CASE Ends
  <2>1. /\ Status = "busy" /\ Status' = "idle" /\ vecs' = vecs
        /\ output_values' = output_values /\ calls' = calls /\ calls > 0
    BY <1>6 DEF Ends
  <2>2. RowsDone' = RowsDone /\ Len(vecs)' = Len(vecs)
    BY <2>1 DEF RowsDone
  <2>3. RowsDone' = Len(vecs)'
    BY <2>1 DEF AnswersShown, Status
  <2>4. Shown = Promise!Answers(Len(vecs)) /\ Shown' = Shown
    BY <1>2, <2>1, <2>2, <2>3
  <2>. QED BY <1>1, <2>1, <2>2, <2>4
<1>7. CASE Leaves
  <2>1. PNext
    BY <1>7 DEF Leaves
  <2>. QED BY <1>1, <2>1
<1>8. CASE Rests
  <2>1. Status' = Status /\ Len(vecs)' = Len(vecs)
    BY <1>8 DEF Rests
  <2>2. Shown' = Shown
    <3>1. CASE Status = "idle" /\ UNCHANGED output_values
      <4>1. RowsDone' = RowsDone
        BY <3>1 DEF RowsDone
      <4>. QED BY <1>2, <2>1, <3>1, <4>1
    <3>. QED BY <1>8, <3>1 DEF Rests
  <2>. QED BY <1>1, <2>1, <2>2
<1>. QED BY <1>4, <1>5, <1>6, <1>7, <1>8

(***************************************************************************)
(* A call of Rcontrib, with any number of children, behaves as what        *)
(* RcontribPromise promises its caller: answers become available in the    *)
(* order of the rows and are not taken back, and the call returns when it  *)
(* has all of them, or the process exits (the safety part of KeepsPromise).*)
(***************************************************************************)
THEOREM ImplementsPromise ==
  ASSUME Assumption, DocumentedUse
  PROVE  Spec => Promise!Safety
<1>. DEFINE Typed == TypeOK /\ InStep
<1>1. "tiny" \notin Kinds
  BY DocumentedKinds
<1>2. Init => Promise!Init
  BY PromisedAnswers DEF Init, Promise!Init
<1>3. Init => RowsFit
  BY DEF Init, RowsFit, Assumption
<1>4. Typed /\ RowsFit /\ [Next]_vars => RowsFit'
  BY RowsFitNext
<1>5. Typed /\ RowsFit /\ Numbered => AnswersShown
  BY NumberedShows DEF Given
<1>6. /\ Typed /\ Cleared /\ Numbered /\ [Next]_vars
      /\ AnswersShown /\ AnswersShown'
      => [Promise!Next]_(Promise!vars)
  <2>1. Cleared => QueueTypes
    BY DEF Cleared
  <2>2. Numbered /\ pc # "exit" => AnswersInOrder
    BY DEF Numbered
  <2>. QED BY <2>1, <2>2, StepKinds, StepImplements
<1>7. Spec => []Typed
  BY <1>1, InStepInvariant
<1>8. Spec => []Numbered
  BY NumberedAlways
<1>9. Spec => []Cleared
  BY <1>1, ClearedInvariant
<1>. HIDE DEF Typed
<1>. QED BY <1>2, <1>3, <1>4, <1>5, <1>6, <1>7, <1>8, <1>9, PTL DEF Spec, Promise!Safety
=============================================================================
