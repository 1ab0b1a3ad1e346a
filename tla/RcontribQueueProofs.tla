------------------------- MODULE RcontribQueueProofs -------------------------
(***************************************************************************)
(* Lemmas about the output queue: a record that is inserted and merged     *)
(* leaves the queue sorted by rows with one entry a row; what is ready to  *)
(* be output is the answers of the next rows; and a queue that covers all  *)
(* rays of the next rows is ready as a whole.                              *)
(***************************************************************************)
EXTENDS RcontribNumbers, FiniteInduction

(* A call with the numbering the queue is read by. *)
Numbering(b, a, c, vs) ==
  /\ a \in Nat \ {0} /\ b \in Int /\ b % a = 0
  /\ c \in 1..MaxCalls /\ vs \in Seq(Kinds)
  /\ a > 1 => Kinds \subseteq {"ray"}

(* The rays of a row are those divided to it. *)
LEMMA RowBounds ==
  ASSUME NEW a \in Nat \ {0}, NEW m \in Int
  PROVE  /\ RowOf(m, a) \in Int
         /\ (RowOf(m, a) - 1) * a < m /\ m <= RowOf(m, a) * a
<1>. DEFINE q == (m - 1) \div a
<1>1. q \in Int /\ q * a <= m - 1 /\ m - 1 < q * a + a
  BY Division
<1>. HIDE DEF q
<1>2. RowOf(m, a) = q + 1 /\ (q + 1) - 1 = q /\ (q + 1) * a = q * a + a
  BY <1>1 DEF RowOf, q
<1>. QED BY <1>1, <1>2

LEMMA RowIs ==
  ASSUME NEW a \in Nat \ {0}, NEW m \in Int, NEW r \in Int,
         (r - 1) * a < m, m <= r * a
  PROVE  RowOf(m, a) = r
<1>. DEFINE q == r - 1
            x == m - 1
<1>1. r * a = q * a + a /\ q \in Int /\ x \in Int
  OBVIOUS
<1>2. q * a <= x /\ x < q * a + a
  BY <1>1
<1>. HIDE DEF q, x
<1>3. x \div a = q
  BY <1>1, <1>2, QuotientIs
<1>. QED BY <1>3 DEF RowOf, q, x

LEMMA RowOrder ==
  ASSUME NEW a \in Nat \ {0}, NEW m \in Int, NEW n \in Int
  PROVE  /\ m <= n => RowOf(m, a) <= RowOf(n, a)
         /\ RowOf(m, a) < RowOf(n, a) => m < n
<1>1. ASSUME NEW x \in Int, NEW y \in Int, x <= y PROVE RowOf(x, a) <= RowOf(y, a)
  <2>. DEFINE u == x - 1
              v == y - 1
  <2>1. u \in Int /\ v \in Int /\ u <= v
    BY <1>1
  <2>. HIDE DEF u, v
  <2>2. u \div a \in Int /\ v \div a \in Int /\ u \div a <= v \div a
    BY <2>1, Division, QuotientGrows
  <2>. QED BY <2>2 DEF RowOf, u, v
<1>2. RowOf(m, a) \in Int /\ RowOf(n, a) \in Int
  BY RowBounds
<1>. QED BY <1>1, <1>2

(* Ray 1 has the number b + 1, and b is a multiple of the rays of a row. *)
LEMMA GroupIsRow ==
  ASSUME NEW a \in Nat \ {0}, NEW b \in Int, b % a = 0, NEW ndx \in Int
  PROVE  Group(ndx, a) = b \div a + RowOf(ndx - b, a) - 1
<1>. DEFINE x == ndx - b - 1
<1>1. x \in Int /\ b + x = ndx - 1
  OBVIOUS
<1>. HIDE DEF x
<1>2. (b + x) \div a = b \div a + x \div a /\ x \div a \in Int /\ b \div a \in Int
  BY <1>1, QuotientOfSum, Division
<1>3. RowOf(ndx - b, a) = x \div a + 1
  BY DEF RowOf, x
<1>. QED BY <1>1, <1>2, <1>3 DEF Group

-----------------------------------------------------------------------------
(* What an entry stands for. *)
LEMMA EntryTypes ==
  ASSUME NEW b, NEW a, NEW c, NEW vs, Numbering(b, a, c, vs),
         NEW e, EntryOK(e, b, a, c, vs)
  PROVE  /\ a \in Nat \ {0} /\ b \in Int /\ b % a = 0 /\ Len(vs) \in Nat
         /\ e.ndx \in Nat /\ e.nadded \in Nat /\ e \in Entries
         /\ EntryRow(e, b, a) \in 1..Len(vs)
         /\ EntryRow(e, b, a) = RowOf(e.ndx - b, a)
         /\ e.ndx - b \in Covered(e, b, a)
         /\ Covered(e, b, a) \subseteq (e.ndx - b)..(EntryRow(e, b, a) * a)
         /\ Cardinality(Covered(e, b, a)) = e.nadded
BY DEF Numbering, EntryOK, Entries, EntryRow

LEMMA EntryFacts ==
  ASSUME NEW b, NEW a, NEW c, NEW vs, Numbering(b, a, c, vs),
         NEW e, EntryOK(e, b, a, c, vs)
  PROVE  /\ e.ndx \in Nat /\ e.nadded \in Nat \ {0} /\ e.nadded <= a
         /\ EntryRow(e, b, a) \in Nat
         /\ Covered(e, b, a) \subseteq RowNumbers(EntryRow(e, b, a), a)
         /\ (EntryRow(e, b, a) - 1) * a < e.ndx - b
         /\ e.ndx - b <= EntryRow(e, b, a) * a
         /\ IsFiniteSet(Covered(e, b, a))
         /\ \A x \in Covered(e, b, a) : RowOf(x, a) = EntryRow(e, b, a)
         /\ Group(e.ndx, a) = b \div a + EntryRow(e, b, a) - 1
<1>. DEFINE m == e.ndx - b
            r == EntryRow(e, b, a)
            C == Covered(e, b, a)
            z == r * a
<1>1. /\ a \in Nat \ {0} /\ b \in Int /\ b % a = 0 /\ Len(vs) \in Nat
      /\ e.ndx \in Nat /\ e.nadded \in Nat /\ r \in 1..Len(vs)
      /\ m \in C /\ C \subseteq m..z /\ Cardinality(C) = e.nadded
      /\ r = RowOf(m, a)
  BY EntryTypes
<1>2. m \in Int /\ r \in Nat
  BY <1>1
<1>3. Group(e.ndx, a) = b \div a + r - 1
  <2>. DEFINE ndx == e.ndx
  <2>1. ndx \in Int /\ r = RowOf(ndx - b, a)
    BY <1>1
  <2>. HIDE DEF ndx, r
  <2>2. Group(ndx, a) = b \div a + RowOf(ndx - b, a) - 1
    BY <1>1, <2>1, GroupIsRow
  <2>. QED BY <2>1, <2>2 DEF ndx
<1>. HIDE DEF m, r, C
<1>4. (r - 1) * a < m /\ m <= r * a
  BY <1>1, <1>2, RowBounds
<1>5. z \in Int /\ (r - 1) * a = z - a
  BY <1>1, <1>2
<1>6. z - a < m /\ m <= z
  BY <1>4, <1>5
<1>. HIDE DEF z
<1>7. IsFiniteSet(m..z) /\ Cardinality(m..z) = z - m + 1
  BY <1>2, <1>5, <1>6, FS_Interval
<1>8. IsFiniteSet(C) /\ Cardinality(C) <= Cardinality(m..z)
  BY <1>1, <1>7, FS_Subset
<1>9. e.nadded # 0
  BY <1>1, <1>8, FS_EmptySet
<1>10. e.nadded <= z - m + 1
  BY <1>1, <1>7, <1>8
<1>11. e.nadded <= a
  BY <1>1, <1>2, <1>5, <1>6, <1>10
<1>12. C \subseteq (z - a + 1)..z
  BY <1>1, <1>2, <1>5, <1>6
<1>13. C \subseteq RowNumbers(r, a)
  BY <1>5, <1>12 DEF RowNumbers, z
<1>14. ASSUME NEW x \in C PROVE RowOf(x, a) = r
  <2>1. x \in Int /\ z - a < x /\ x <= z
    BY <1>1, <1>2, <1>5, <1>12
  <2>2. (r - 1) * a < x /\ x <= r * a
    BY <1>5, <2>1 DEF z
  <2>. QED BY <1>1, <1>2, <2>1, <2>2, RowIs
<1>. QED
  BY <1>1, <1>2, <1>3, <1>4, <1>8, <1>9, <1>11, <1>13, <1>14 DEF m, r, C

(* Entries of different rows have no ray in common. *)
LEMMA RowsApart ==
  ASSUME NEW b, NEW a, NEW c, NEW vs, Numbering(b, a, c, vs),
         NEW e, EntryOK(e, b, a, c, vs), NEW f, EntryOK(f, b, a, c, vs)
  PROVE  /\ EntryRow(e, b, a) < EntryRow(f, b, a) => e.ndx < f.ndx
         /\ e.ndx <= f.ndx => EntryRow(e, b, a) <= EntryRow(f, b, a)
         /\ EntryRow(e, b, a) # EntryRow(f, b, a) =>
              (Covered(e, b, a) \cap Covered(f, b, a)) = {}
         /\ Group(e.ndx, a) = Group(f.ndx, a)
              <=> EntryRow(e, b, a) = EntryRow(f, b, a)
<1>. DEFINE m == e.ndx - b
            n == f.ndx - b
            q == b \div a
            r == EntryRow(e, b, a)
            s == EntryRow(f, b, a)
<1>1. /\ a \in Nat \ {0} /\ b \in Int /\ e.ndx \in Nat
      /\ r \in Nat /\ r = RowOf(m, a) /\ Group(e.ndx, a) = q + r - 1
  BY EntryTypes, EntryFacts
<1>2. f.ndx \in Nat /\ s \in Nat /\ s = RowOf(n, a) /\ Group(f.ndx, a) = q + s - 1
  BY EntryTypes, EntryFacts
<1>3. m \in Int /\ n \in Int
  BY <1>1, <1>2
<1>4. q \in Int
  BY <1>1, Division
<1>5. /\ e.ndx <= f.ndx => m <= n
      /\ m < n => e.ndx < f.ndx
  BY <1>1, <1>2
<1>6. ASSUME NEW x \in Covered(e, b, a), x \in Covered(f, b, a)
      PROVE  r = s
  <2>1. RowOf(x, a) = r
    BY EntryFacts
  <2>2. RowOf(x, a) = s
    BY <1>6, EntryFacts
  <2>. QED BY <2>1, <2>2
<1>. HIDE DEF m, n, q, r, s
<1>7. /\ m <= n => r <= s
      /\ r < s => m < n
  BY <1>1, <1>2, <1>3, RowOrder
<1>8. Group(e.ndx, a) = Group(f.ndx, a) <=> r = s
  BY <1>1, <1>2, <1>4
<1>9. r # s => (Covered(e, b, a) \cap Covered(f, b, a)) = {}
  BY <1>6
<1>. QED BY <1>5, <1>7, <1>8, <1>9 DEF r, s

-----------------------------------------------------------------------------
(* The numbers of the rays of a sum. *)
RaysFrom(R, c) == {<<c, x>> : x \in R}
NumbersIn(rays) == {x[2] : x \in rays}

LEMMA RaysOfSum ==
  ASSUME NEW R, NEW c
  PROVE  NumbersIn(RaysFrom(R, c)) = R
<1>1. ASSUME NEW y \in R PROVE y \in NumbersIn(RaysFrom(R, c))
  <2>1. <<c, y>> \in RaysFrom(R, c) /\ <<c, y>>[2] = y
    BY DEF RaysFrom
  <2>. QED BY <2>1 DEF NumbersIn
<1>2. ASSUME NEW x \in RaysFrom(R, c) PROVE x[2] \in R
  <2>1. PICK y \in R : x = <<c, y>>
    BY DEF RaysFrom
  <2>. QED BY <2>1
<1>. QED BY <1>1, <1>2 DEF NumbersIn

(* The records that are put into the queue: what a child sums, *)
LEMMA RayEntry ==
  ASSUME NEW b, NEW a, NEW c, NEW vs, Numbering(b, a, c, vs),
         NEW m \in Int, NEW n \in Nat \ {0}, b + m \in Nat,
         RowOf(m, a) = RowOf(m + n - 1, a), RowOf(m, a) \in 1..Len(vs),
         vs[RowOf(m, a)] = "ray",
         NEW e, e = NewEntry(b + m, n, SumFrom(m, n, c))
  PROVE  /\ EntryOK(e, b, a, c, vs) /\ EntryRow(e, b, a) = RowOf(m, a)
         /\ Covered(e, b, a) = m..(m + n - 1)
<1>. DEFINE r == RowOf(m, a)
            z == r * a
            l == m + n - 1
<1>1. /\ a \in Nat \ {0} /\ b \in Int /\ c \in 1..MaxCalls /\ Len(vs) \in Nat
      /\ r \in Int /\ r >= 1 /\ l \in Int /\ r \in 1..Len(vs)
  BY DEF Numbering
<1>2. (r - 1) * a < m /\ l <= r * a
  <2>. HIDE DEF r, l
  <2>1. r = RowOf(l, a) /\ r = RowOf(m, a)
    BY DEF r, l
  <2>. QED BY <1>1, <2>1, RowBounds
<1>3. z \in Int /\ (r - 1) * a = z - a /\ z >= a
  <2>. HIDE DEF r
  <2>1. z \in Int /\ (r - 1) * a = z - a
    BY <1>1
  <2>2. CASE r = 1
    BY <1>1, <2>1, <2>2
  <2>3. CASE 1 < r
    <3>1. 1 * a + a <= r * a
      BY <1>1, <2>3, NextMultiple
    <3>. QED BY <1>1, <2>1, <3>1
  <2>. QED BY <1>1, <2>2, <2>3
<1>4. z - a < m /\ l <= z /\ m <= l /\ m >= 1
  <2>. HIDE DEF r, z
  <2>1. z - a < m /\ l <= z
    BY <1>2, <1>3 DEF z
  <2>. QED BY <1>1, <1>3, <2>1
<1>5. e.ndx = b + m /\ e.nadded = n /\ e.sum = SumFrom(m, n, c) /\ e.ndx - b = m
  BY <1>1 DEF NewEntry
<1>6. SumFrom(m, n, c) \in Sums(RayIds)
  <2>1. m..l \subseteq Nat \ {0}
    <3>. HIDE DEF l, z, r
    <3>. QED BY <1>1, <1>4
  <2>2. ASSUME NEW x \in m..l PROVE <<c, x>> \in RayIds
    <3>. HIDE DEF l
    <3>. QED BY <1>1, <2>1 DEF RayIds
  <2>. QED BY <2>2 DEF SumFrom, Sums
<1>7. e \in Entries
  BY <1>6 DEF NewEntry, Entries
<1>8. EntryRow(e, b, a) = r
  BY <1>5 DEF EntryRow
<1>9. Covered(e, b, a) = m..l
  <2>1. CASE a = 1
    <3>1. m = l
      <4>. HIDE DEF z, r
      <4>. QED BY <1>1, <1>3, <1>4, <2>1
    <3>2. Covered(e, b, a) = {m}
      BY <1>5, <2>1 DEF Covered
    <3>3. m..l = {m}
      <4>. HIDE DEF l
      <4>. QED BY <1>1, <3>1
    <3>. QED BY <3>2, <3>3
  <2>2. CASE a # 1
    <3>1. Covered(e, b, a) = NumbersIn(e.sum.rays)
      BY <2>2 DEF Covered, NumbersIn
    <3>2. e.sum.rays = RaysFrom(m..l, c)
      <4>1. SumFrom(m, n, c).rays = RaysFrom(m..l, c)
        BY DEF SumFrom, RaysFrom
      <4>. QED BY <1>5, <4>1
    <3>. QED BY <3>1, <3>2, RaysOfSum
  <2>. QED BY <2>1, <2>2
<1>. HIDE DEF z, l
<1>10. Cardinality(m..l) = n
  BY <1>1, <1>4, FS_Interval DEF l
<1>11. e.sum = RowSum(r, m..l, n, c, vs)
  BY <1>5 DEF RowSum, SumOver, SumFrom, l
<1>12. m \in m..l /\ m..l \subseteq m..z
  BY <1>1, <1>3, <1>4
<1>. QED BY <1>1, <1>5, <1>7, <1>8, <1>9, <1>10, <1>11, <1>12 DEF EntryOK, z, l

(* and the black record of a row that is no ray. *)
LEMMA BlackEntry ==
  ASSUME NEW b, NEW a, NEW c, NEW vs, Numbering(b, a, c, vs), a = 1,
         NEW r \in 1..Len(vs), vs[r] # "ray", b + r \in Nat,
         NEW e, e = NewEntry(b + r, 1, BlackSum)
  PROVE  /\ EntryOK(e, b, a, c, vs) /\ EntryRow(e, b, a) = r
         /\ Covered(e, b, a) = {r}
<1>1. b \in Int /\ r \in Int /\ e.ndx - b = r /\ e.nadded = 1 /\ e.sum = BlackSum
  BY DEF Numbering, NewEntry
<1>2. e \in Entries
  BY DEF NewEntry, Entries, BlackSum, Sums
<1>3. Covered(e, b, a) = {r}
  BY <1>1 DEF Covered
<1>4. EntryRow(e, b, a) = r
  BY <1>1, RowIs DEF EntryRow
<1>5. Cardinality({r}) = 1
  BY FS_Singleton
<1>6. r \in {r} /\ {r} \subseteq r..(r * a) /\ e.sum = RowSum(r, {r}, 1, c, vs)
  BY <1>1 DEF RowSum
<1>. QED BY <1>1, <1>2, <1>3, <1>4, <1>5, <1>6 DEF EntryOK

(* Two records of one row, with rays of their own, make one record. *)
LEMMA MergeEntries ==
  ASSUME NEW b, NEW a, NEW c, NEW vs, Numbering(b, a, c, vs), a > 1,
         NEW e, EntryOK(e, b, a, c, vs), NEW f, EntryOK(f, b, a, c, vs),
         EntryRow(e, b, a) = EntryRow(f, b, a), e.ndx <= f.ndx,
         (Covered(e, b, a) \cap Covered(f, b, a)) = {},
         NEW d, d = AddModbin(e, f)
  PROVE  /\ EntryOK(d, b, a, c, vs) /\ EntryRow(d, b, a) = EntryRow(e, b, a)
         /\ Covered(d, b, a) = Covered(e, b, a) \cup Covered(f, b, a)
         /\ d.ndx = e.ndx
<1>. DEFINE r == EntryRow(e, b, a)
            E == Covered(e, b, a)
            F == Covered(f, b, a)
            z == r * a
<1>1. /\ a \in Nat \ {0} /\ b \in Int /\ r \in 1..Len(vs) /\ Len(vs) \in Nat
      /\ e \in Entries /\ f \in Entries
      /\ e.ndx - b \in E /\ E \subseteq (e.ndx - b)..z /\ Cardinality(E) = e.nadded
      /\ F \subseteq (f.ndx - b)..z /\ Cardinality(F) = f.nadded
      /\ IsFiniteSet(E) /\ IsFiniteSet(F)
  BY EntryTypes, EntryFacts
<1>2. vs[r] = "ray"
  BY <1>1 DEF Numbering
<1>3. /\ e.sum = SumOver(E, e.nadded, c)
      /\ f.sum = SumOver(F, f.nadded, c)
  BY <1>2 DEF EntryOK, RowSum
<1>4. /\ d.ndx = e.ndx /\ d.nadded = e.nadded + f.nadded
      /\ d.sum = AddSum(e.sum, f.sum) /\ d \in Entries
  <2>1. /\ e \in [ndx : Nat, nadded : Nat, sum : Sums(RayIds)]
        /\ f.nadded \in Nat /\ f.sum \in Sums(RayIds)
    BY <1>1 DEF Entries
  <2>2. AddSum(e.sum, f.sum) \in Sums(RayIds) /\ e.nadded + f.nadded \in Nat
    <3>1. e.sum \in Sums(RayIds) /\ e.nadded \in Nat
      BY <2>1
    <3>. QED BY <2>1, <3>1 DEF AddSum, Sums
  <2>3. d = [ndx |-> e.ndx, nadded |-> e.nadded + f.nadded, sum |-> AddSum(e.sum, f.sum)]
    BY DEF AddModbin, NewEntry
  <2>. HIDE DEF Sums
  <2>. QED BY <2>1, <2>2, <2>3 DEF Entries
<1>5. /\ e.ndx \in Nat /\ f.ndx \in Nat /\ e.nadded \in Nat /\ f.nadded \in Nat
  BY <1>1 DEF Entries
<1>6. d.sum = SumOver(E \cup F, d.nadded, c)
  BY <1>3, <1>4 DEF AddSum, SumOver
<1>7. Covered(d, b, a) = E \cup F
  <2>1. Covered(d, b, a) = NumbersIn(d.sum.rays)
    BY DEF Covered, NumbersIn
  <2>. HIDE DEF E, F
  <2>2. d.sum.rays = RaysFrom(E \cup F, c)
    BY <1>6 DEF SumOver, RaysFrom
  <2>. QED BY <2>1, <2>2, RaysOfSum
<1>8. EntryRow(d, b, a) = r
  BY <1>4 DEF EntryRow
<1>9. Cardinality(E \cup F) = d.nadded
  <2>. HIDE DEF E, F
  <2>1. Cardinality(E \cup F) = Cardinality(E) + Cardinality(F)
    <3>1. E \cap F = {}
      BY DEF E, F
    <3>2. /\ Cardinality(E \cup F)
              = Cardinality(E) + Cardinality(F) - Cardinality(E \cap F)
      BY <1>1, FS_Union
    <3>3. Cardinality(E \cap F) = 0
      BY <3>1, FS_EmptySet
    <3>. QED BY <1>1, <1>5, <3>2, <3>3
  <2>. QED BY <1>1, <1>4, <2>1
<1>10. E \cup F \subseteq (e.ndx - b)..z
  <2>. HIDE DEF E, F
  <2>1. z \in Int
    BY <1>1
  <2>. HIDE DEF z
  <2>2. (f.ndx - b)..z \subseteq (e.ndx - b)..z
    BY <1>1, <1>5, <2>1
  <2>. QED BY <1>1, <2>2
<1>11. d.sum = RowSum(r, E \cup F, d.nadded, c, vs)
  BY <1>2, <1>6 DEF RowSum
<1>12. EntryOK(d, b, a, c, vs)
  <2>. HIDE DEF E, F, r
  <2>. QED BY <1>1, <1>4, <1>7, <1>8, <1>9, <1>10, <1>11 DEF EntryOK, z
<1>. QED BY <1>4, <1>7, <1>8, <1>12

-----------------------------------------------------------------------------
(* Records in the order of their indices, with rays of their own. *)
SortedOK(s, b, a, c, vs) ==
  /\ s \in Seq(Entries)
  /\ \A k \in 1..Len(s) : EntryOK(s[k], b, a, c, vs)
  /\ \A j, k \in 1..Len(s) :
       j < k => /\ s[j].ndx < s[k].ndx
                /\ (Covered(s[j], b, a) \cap Covered(s[k], b, a)) = {}

LEMMA InCovered ==
  ASSUME NEW s, NEW b, NEW a, NEW x
  PROVE  x \in CoveredBy(s, b, a)
           <=> \E k \in 1..Len(s) : x \in Covered(s[k], b, a)
BY DEF CoveredBy

LEMMA QueueIsSorted ==
  ASSUME NEW b, NEW a, NEW c, NEW vs, Numbering(b, a, c, vs),
         NEW s, QueueOK(s, b, a, c, vs)
  PROVE  SortedOK(s, b, a, c, vs)
<1>1. ASSUME NEW j \in 1..Len(s), NEW k \in 1..Len(s), j < k
      PROVE  /\ s[j].ndx < s[k].ndx
             /\ (Covered(s[j], b, a) \cap Covered(s[k], b, a)) = {}
  <2>1. EntryOK(s[j], b, a, c, vs) /\ EntryOK(s[k], b, a, c, vs)
    BY DEF QueueOK
  <2>2. EntryRow(s[j], b, a) < EntryRow(s[k], b, a)
    BY <1>1 DEF QueueOK
  <2>3. EntryRow(s[j], b, a) \in Nat
    BY <2>1, EntryFacts
  <2>4. EntryRow(s[j], b, a) # EntryRow(s[k], b, a)
    BY <2>2, <2>3
  <2>. QED BY <2>1, <2>2, <2>4, RowsApart
<1>. QED BY <1>1 DEF QueueOK, SortedOK

(* With one ray a row the order of the indices is that of the rows. *)
LEMMA SortedIsQueue ==
  ASSUME NEW b, NEW a, NEW c, NEW vs, Numbering(b, a, c, vs), a = 1,
         NEW s, SortedOK(s, b, a, c, vs)
  PROVE  QueueOK(s, b, a, c, vs)
<1>1. ASSUME NEW k \in 1..Len(s)
      PROVE  /\ EntryRow(s[k], b, a) = s[k].ndx - b
             /\ s[k].ndx \in Nat /\ b \in Int
  <2>1. EntryOK(s[k], b, a, c, vs)
    BY DEF SortedOK
  <2>2. s[k].ndx \in Nat /\ EntryRow(s[k], b, a) = RowOf(s[k].ndx - b, a) /\ b \in Int
    BY <2>1, EntryTypes
  <2>3. s[k].ndx - b \in Int
    BY <2>2
  <2>4. RowOf(s[k].ndx - b, 1) = s[k].ndx - b
    BY <2>3, RowIs
  <2>. QED BY <2>2, <2>4
<1>2. ASSUME NEW j \in 1..Len(s), NEW k \in 1..Len(s), j < k
      PROVE  EntryRow(s[j], b, a) < EntryRow(s[k], b, a)
  <2>1. s[j].ndx < s[k].ndx
    BY <1>2 DEF SortedOK
  <2>. QED BY <1>1, <2>1
<1>. QED BY <1>2 DEF QueueOK, SortedOK

(* Where a record is inserted, and what is where afterwards. *)
Inserted(s, p, e) == InsertAt(s, p + 1, e)

LEMMA InsertAtOf ==
  ASSUME NEW S, NEW s \in Seq(S), NEW e \in S, NEW p \in 0..Len(s)
  PROVE  /\ Inserted(s, p, e) \in Seq(S)
         /\ Len(Inserted(s, p, e)) = Len(s) + 1
         /\ Inserted(s, p, e)[p + 1] = e
         /\ \A k \in 1..p : Inserted(s, p, e)[k] = s[k]
         /\ \A k \in (p + 2)..(Len(s) + 1) : Inserted(s, p, e)[k] = s[k - 1]
<1>. DEFINE u == SubSeq(s, 1, p)
            w == SubSeq(s, p + 1, Len(s))
            v == u \o <<e>>
<1>1. u \in Seq(S) /\ Len(u) = p /\ \A k \in 1..p : u[k] = s[k]
  OBVIOUS
<1>2. /\ w \in Seq(S) /\ Len(w) = Len(s) - p
      /\ \A k \in 1..(Len(s) - p) : w[k] = s[p + k]
  OBVIOUS
<1>. HIDE DEF u, w
<1>3. /\ v \in Seq(S) /\ Len(v) = p + 1 /\ v[p + 1] = e
      /\ \A k \in 1..p : v[k] = s[k]
  BY <1>1
<1>4. Inserted(s, p, e) = v \o w
  <2>1. (p + 1) - 1 = p
    OBVIOUS
  <2>. QED BY <2>1 DEF Inserted, InsertAt, u, w
<1>. HIDE DEF v
<1>5. v \o w \in Seq(S) /\ Len(v \o w) = Len(s) + 1
  <2>1. v \o w \in Seq(S) /\ Len(v \o w) = Len(v) + Len(w)
    BY <1>2, <1>3, ConcatProperties
  <2>. QED BY <1>2, <1>3, <2>1
<1>6. (v \o w)[p + 1] = e /\ \A k \in 1..p : (v \o w)[k] = s[k]
  BY <1>2, <1>3
<1>7. ASSUME NEW k \in (p + 2)..(Len(s) + 1)
      PROVE  (v \o w)[k] = s[k - 1]
  <2>1. k - (p + 1) \in 1..(Len(s) - p) /\ p + (k - (p + 1)) = k - 1
    OBVIOUS
  <2>2. (v \o w)[k] = w[k - (p + 1)]
    BY <1>2, <1>3
  <2>3. w[k - (p + 1)] = s[p + (k - (p + 1))]
    BY <1>2, <2>1
  <2>. QED BY <2>1, <2>2, <2>3
<1>. QED BY <1>4, <1>5, <1>6, <1>7

LEMMA InsertPlace ==
  ASSUME NEW b, NEW a, NEW c, NEW vs, Numbering(b, a, c, vs),
         NEW s, SortedOK(s, b, a, c, vs),
         NEW e, EntryOK(e, b, a, c, vs),
         (Covered(e, b, a) \cap CoveredBy(s, b, a)) = {}
  PROVE  \E p \in 0..Len(s) :
           /\ Insert(s, e) = Inserted(s, p, e)
           /\ \A k \in 1..p : s[k].ndx < e.ndx
           /\ \A k \in (p + 1)..Len(s) : e.ndx < s[k].ndx
<1>. DEFINE K == {k \in DOMAIN s : \A j \in 1..k : s[j].ndx < e.ndx}
            p == Cardinality(K)
<1>1. s \in Seq(Entries) /\ Len(s) \in Nat /\ DOMAIN s = 1..Len(s)
  BY DEF SortedOK
<1>2. p \in 0..Len(s) /\ K = 1..p
  <2>1. K \in SUBSET (1..Len(s)) /\ \A k \in K : \A j \in 1..k : j \in K
    BY <1>1
  <2>. HIDE DEF K
  <2>. QED BY <1>1, <2>1, InitialSegment
<1>3. \A k \in 1..p : s[k].ndx < e.ndx
  BY <1>2
<1>4. Insert(s, e) = Inserted(s, p, e)
  BY DEF Insert, Inserted
<1>5. \A k \in 1..Len(s) : s[k].ndx \in Nat /\ s[k].ndx - b \in Covered(s[k], b, a)
  BY EntryTypes DEF SortedOK
<1>6. e.ndx \in Nat /\ e.ndx - b \in Covered(e, b, a)
  BY EntryTypes
<1>7. ASSUME NEW k \in (p + 1)..Len(s)
      PROVE  e.ndx < s[k].ndx
  <2>. HIDE DEF K
  <2>0. p \in Nat /\ p + 1 \in 1..Len(s) /\ p + 1 \notin K /\ k \in 1..Len(s)
    <3>. HIDE DEF p
    <3>. QED BY <1>1, <1>2, <1>7
  <2>1. ~(s[p + 1].ndx < e.ndx)
    <3>1. PICK j \in 1..(p + 1) : ~(s[j].ndx < e.ndx)
      BY <1>1, <2>0 DEF K
    <3>2. j \notin 1..p
      BY <1>3, <3>1
    <3>3. j = p + 1
      <4>. HIDE DEF p
      <4>. QED BY <2>0, <3>1, <3>2
    <3>. QED BY <3>1, <3>3
  <2>. HIDE DEF p
  <2>2. s[p + 1].ndx <= s[k].ndx
    <3>1. CASE k = p + 1
      BY <1>5, <2>0, <3>1
    <3>2. CASE p + 1 < k
      <4>1. s[p + 1].ndx < s[k].ndx
        BY <2>0, <3>2 DEF SortedOK
      <4>. QED BY <1>5, <2>0, <4>1
    <3>. QED BY <2>0, <3>1, <3>2, <1>7
  <2>3. e.ndx <= s[k].ndx
    BY <1>5, <1>6, <2>0, <2>1, <2>2
  <2>4. e.ndx # s[k].ndx
    <3>. SUFFICES ASSUME e.ndx = s[k].ndx PROVE FALSE
      OBVIOUS
    <3>1. e.ndx - b \in Covered(s[k], b, a)
      BY <1>5, <2>0
    <3>2. e.ndx - b \in CoveredBy(s, b, a)
      BY <2>0, <3>1, InCovered
    <3>. QED BY <1>6, <3>2
  <2>. QED BY <1>5, <1>6, <2>0, <2>3, <2>4
<1>. HIDE DEF K, p
<1>. QED BY <1>2, <1>3, <1>4, <1>7

LEMMA InsertOK ==
  ASSUME NEW b, NEW a, NEW c, NEW vs, Numbering(b, a, c, vs),
         NEW s, SortedOK(s, b, a, c, vs),
         NEW e, EntryOK(e, b, a, c, vs),
         (Covered(e, b, a) \cap CoveredBy(s, b, a)) = {}
  PROVE  /\ SortedOK(Insert(s, e), b, a, c, vs)
         /\ CoveredBy(Insert(s, e), b, a)
              = CoveredBy(s, b, a) \cup Covered(e, b, a)
<1>1. PICK p \in 0..Len(s) :
        /\ Insert(s, e) = Inserted(s, p, e)
        /\ \A k \in 1..p : s[k].ndx < e.ndx
        /\ \A k \in (p + 1)..Len(s) : e.ndx < s[k].ndx
  BY InsertPlace
<1>. DEFINE t == Insert(s, e)
<1>2. s \in Seq(Entries) /\ e \in Entries /\ Len(s) \in Nat
  BY EntryTypes DEF SortedOK
<1>3. /\ t \in Seq(Entries) /\ Len(t) = Len(s) + 1 /\ t[p + 1] = e
      /\ \A k \in 1..p : t[k] = s[k]
      /\ \A k \in (p + 2)..(Len(s) + 1) : t[k] = s[k - 1]
  <2>. DEFINE S == Entries
  <2>1. s \in Seq(S) /\ e \in S
    BY <1>2
  <2>. HIDE DEF S
  <2>3. t = Inserted(s, p, e)
    BY <1>1
  <2>. HIDE DEF t
  <2>4. Inserted(s, p, e) \in Seq(S)
    BY <2>1, InsertAtOf
  <2>5. Len(Inserted(s, p, e)) = Len(s) + 1
    BY <2>1, InsertAtOf
  <2>6. Inserted(s, p, e)[p + 1] = e
    BY <2>1, InsertAtOf
  <2>7. \A k \in 1..p : Inserted(s, p, e)[k] = s[k]
    BY <2>1, InsertAtOf
  <2>8. \A k \in (p + 2)..(Len(s) + 1) : Inserted(s, p, e)[k] = s[k - 1]
    BY <2>1, InsertAtOf
  <2>. QED BY <2>3, <2>4, <2>5, <2>6, <2>7, <2>8 DEF S
<1>. HIDE DEF t
(* The places of the records that were there. *)
<1>. DEFINE old(k) == IF k <= p THEN k ELSE k - 1
<1>4. ASSUME NEW k \in 1..Len(t), k # p + 1
      PROVE  /\ old(k) \in 1..Len(s) /\ t[k] = s[old(k)]
             /\ k < p + 1 => old(k) \in 1..p
             /\ p + 1 < k => old(k) \in (p + 1)..Len(s)
  <2>1. CASE k <= p
    BY <1>2, <1>3, <2>1
  <2>2. CASE k > p + 1
    BY <1>2, <1>3, <2>2
  <2>. QED BY <1>2, <1>3, <1>4, <2>1, <2>2
<1>5. ASSUME NEW j \in 1..Len(t), NEW k \in 1..Len(t), j < k, j # p + 1, k # p + 1
      PROVE  old(j) < old(k)
  BY <1>2, <1>3, <1>5
<1>6. \A k \in 1..Len(s) : (Covered(e, b, a) \cap Covered(s[k], b, a)) = {}
  BY InCovered
<1>. HIDE DEF old
<1>7. \A k \in 1..Len(t) : EntryOK(t[k], b, a, c, vs)
  BY <1>3, <1>4 DEF SortedOK
<1>8. ASSUME NEW j \in 1..Len(t), NEW k \in 1..Len(t), j < k
      PROVE  /\ t[j].ndx < t[k].ndx
             /\ (Covered(t[j], b, a) \cap Covered(t[k], b, a)) = {}
  <2>1. CASE j = p + 1
    <3>1. k # p + 1 /\ p + 1 < k
      BY <1>8, <2>1
    <3>2. old(k) \in (p + 1)..Len(s) /\ old(k) \in 1..Len(s) /\ t[k] = s[old(k)] /\ t[j] = e
      BY <1>3, <1>4, <2>1, <3>1
    <3>. QED BY <1>1, <1>6, <3>2
  <2>2. CASE k = p + 1
    <3>1. j # p + 1 /\ j < p + 1
      BY <1>8, <2>2
    <3>2. old(j) \in 1..p /\ old(j) \in 1..Len(s) /\ t[j] = s[old(j)] /\ t[k] = e
      BY <1>3, <1>4, <2>2, <3>1
    <3>. QED BY <1>1, <1>6, <3>2
  <2>3. CASE j # p + 1 /\ k # p + 1
    <3>1. /\ old(j) \in 1..Len(s) /\ old(k) \in 1..Len(s) /\ old(j) < old(k)
          /\ t[j] = s[old(j)] /\ t[k] = s[old(k)]
      BY <1>4, <1>5, <1>8, <2>3
    <3>. QED BY <3>1 DEF SortedOK
  <2>. QED BY <2>1, <2>2, <2>3
<1>9. SortedOK(t, b, a, c, vs)
  BY <1>3, <1>7, <1>8 DEF SortedOK
<1>10. ASSUME NEW x PROVE x \in CoveredBy(t, b, a)
          <=> x \in CoveredBy(s, b, a) \/ x \in Covered(e, b, a)
  <2>1. ASSUME x \in CoveredBy(t, b, a)
        PROVE  x \in CoveredBy(s, b, a) \/ x \in Covered(e, b, a)
    <3>1. PICK k \in 1..Len(t) : x \in Covered(t[k], b, a)
      BY <2>1, InCovered
    <3>2. CASE k = p + 1
      BY <1>3, <3>1, <3>2
    <3>3. CASE k # p + 1
      BY <1>4, <3>1, <3>3, InCovered
    <3>. QED BY <3>2, <3>3
  <2>2. ASSUME x \in Covered(e, b, a) PROVE x \in CoveredBy(t, b, a)
    <3>1. p + 1 \in 1..Len(t)
      BY <1>2, <1>3
    <3>. QED BY <1>3, <2>2, <3>1, InCovered
  <2>3. ASSUME x \in CoveredBy(s, b, a) PROVE x \in CoveredBy(t, b, a)
    <3>1. PICK k \in 1..Len(s) : x \in Covered(s[k], b, a)
      BY <2>3, InCovered
    <3>2. CASE k <= p
      <4>1. k \in 1..Len(t) /\ t[k] = s[k]
        BY <1>2, <1>3, <3>2
      <4>. QED BY <3>1, <4>1, InCovered
    <3>3. CASE k > p
      <4>1. k + 1 \in 1..Len(t) /\ k + 1 \in (p + 2)..(Len(s) + 1) /\ (k + 1) - 1 = k
        BY <1>2, <1>3, <3>3
      <4>2. t[k + 1] = s[k]
        BY <1>3, <4>1
      <4>. QED BY <3>1, <4>1, <4>2, InCovered
    <3>. QED BY <3>2, <3>3
  <2>. QED BY <2>1, <2>2, <2>3
<1>. QED BY <1>9, <1>10 DEF t

-----------------------------------------------------------------------------
(* A record of a later row, with rays of its own, is put at the end; *)
LEMMA AppendOK ==
  ASSUME NEW b, NEW a, NEW c, NEW vs, Numbering(b, a, c, vs),
         NEW q, QueueOK(q, b, a, c, vs), NEW e, EntryOK(e, b, a, c, vs),
         q # <<>> => EntryRow(Last(q), b, a) < EntryRow(e, b, a)
  PROVE  /\ QueueOK(Append(q, e), b, a, c, vs)
         /\ CoveredBy(Append(q, e), b, a)
              = CoveredBy(q, b, a) \cup Covered(e, b, a)
         /\ Append(q, e) # <<>> /\ Last(Append(q, e)) = e
<1>. DEFINE t == Append(q, e)
            n == Len(q)
<1>1. q \in Seq(Entries) /\ e \in Entries /\ n \in Nat
  BY EntryTypes DEF QueueOK
<1>2. /\ t \in Seq(Entries) /\ Len(t) = n + 1 /\ t[n + 1] = e
      /\ \A k \in 1..n : t[k] = q[k]
  BY <1>1, AppendProperties
<1>3. q = <<>> \/ n \in 1..n
  BY <1>1, EmptySeq
<1>. HIDE DEF t
<1>4. \A k \in 1..n : EntryOK(q[k], b, a, c, vs) /\ EntryRow(q[k], b, a) \in Nat
  BY EntryFacts DEF QueueOK
<1>5. EntryRow(e, b, a) \in Nat
  BY EntryFacts
<1>6. ASSUME NEW k \in 1..n PROVE EntryRow(q[k], b, a) < EntryRow(e, b, a)
  <2>1. n \in 1..n /\ q # <<>>
    BY <1>1, <1>3, EmptySeq
  <2>2. EntryRow(q[n], b, a) < EntryRow(e, b, a)
    BY <2>1 DEF Last
  <2>3. k = n \/ EntryRow(q[k], b, a) < EntryRow(q[n], b, a)
    BY <1>1, <2>1 DEF QueueOK
  <2>. QED BY <1>4, <1>5, <2>1, <2>2, <2>3
<1>7. \A k \in 1..Len(t) : EntryOK(t[k], b, a, c, vs)
  BY <1>1, <1>2, <1>4
<1>8. ASSUME NEW j \in 1..Len(t), NEW k \in 1..Len(t), j < k
      PROVE  EntryRow(t[j], b, a) < EntryRow(t[k], b, a)
  <2>1. j \in 1..n /\ t[j] = q[j]
    BY <1>1, <1>2, <1>8
  <2>2. CASE k = n + 1
    BY <1>2, <1>6, <2>1, <2>2
  <2>3. CASE k # n + 1
    <3>1. k \in 1..n /\ t[k] = q[k]
      BY <1>1, <1>2, <2>3
    <3>. QED BY <1>8, <2>1, <3>1 DEF QueueOK
  <2>. QED BY <2>2, <2>3
<1>9. QueueOK(t, b, a, c, vs)
  BY <1>2, <1>7, <1>8 DEF QueueOK
<1>10. ASSUME NEW x PROVE x \in CoveredBy(t, b, a)
          <=> x \in CoveredBy(q, b, a) \/ x \in Covered(e, b, a)
  <2>1. (\E k \in 1..(n + 1) : x \in Covered(t[k], b, a))
          <=> (\E k \in 1..n : x \in Covered(q[k], b, a)) \/ x \in Covered(e, b, a)
    <3>1. \A k \in 1..(n + 1) : k \in 1..n \/ k = n + 1
      BY <1>1
    <3>2. \A k \in 1..n : k \in 1..(n + 1)
      BY <1>1
    <3>3. n + 1 \in 1..(n + 1)
      BY <1>1
    <3>. QED BY <1>2, <3>1, <3>2, <3>3
  <2>. QED BY <1>2, <2>1, InCovered
<1>11. t # <<>> /\ Last(t) = e
  BY <1>1, <1>2, EmptySeq DEF Last
<1>. QED BY <1>9, <1>10, <1>11 DEF t

(* one of the last row replaces the last record. *)
ReplaceLast(q, e) == Front(q) \o <<e>>

LEMMA ReplaceLastOf ==
  ASSUME NEW S, NEW q \in Seq(S), q # <<>>, NEW e \in S
  PROVE  /\ ReplaceLast(q, e) \in Seq(S) /\ Len(ReplaceLast(q, e)) = Len(q)
         /\ ReplaceLast(q, e)[Len(q)] = e
         /\ \A k \in 1..(Len(q) - 1) : ReplaceLast(q, e)[k] = q[k]
         /\ Len(q) \in Nat \ {0}
<1>1. Len(q) \in Nat \ {0}
  BY EmptySeq
<1>. DEFINE f == SubSeq(q, 1, Len(q) - 1)
<1>2. f \in Seq(S) /\ Len(f) = Len(q) - 1 /\ \A k \in 1..(Len(q) - 1) : f[k] = q[k]
  <2>. DEFINE p == Len(q) - 1
  <2>1. p \in 0..Len(q)
    BY <1>1
  <2>. HIDE DEF p
  <2>2. LET g == SubSeq(q, 1, p)
        IN  g \in Seq(S) /\ Len(g) = p /\ \A k \in 1..p : g[k] = q[k]
    BY <2>1
  <2>. QED BY <2>2 DEF p
<1>3. ReplaceLast(q, e) = f \o <<e>>
  BY DEF ReplaceLast, Front
<1>. HIDE DEF f
<1>. QED BY <1>1, <1>2, <1>3

LEMMA ReplaceLastOK ==
  ASSUME NEW b, NEW a, NEW c, NEW vs, Numbering(b, a, c, vs),
         NEW q, QueueOK(q, b, a, c, vs), q # <<>>,
         NEW e, EntryOK(e, b, a, c, vs),
         EntryRow(e, b, a) = EntryRow(Last(q), b, a),
         NEW F, Covered(e, b, a) = Covered(Last(q), b, a) \cup F
  PROVE  /\ QueueOK(ReplaceLast(q, e), b, a, c, vs)
         /\ CoveredBy(ReplaceLast(q, e), b, a) = CoveredBy(q, b, a) \cup F
         /\ ReplaceLast(q, e) # <<>> /\ Last(ReplaceLast(q, e)) = e
<1>. DEFINE t == ReplaceLast(q, e)
            n == Len(q)
<1>1. q \in Seq(Entries) /\ e \in Entries
  BY EntryTypes DEF QueueOK
<1>2. /\ t \in Seq(Entries) /\ Len(t) = n /\ t[n] = e
      /\ \A k \in 1..(n - 1) : t[k] = q[k]
      /\ n \in Nat \ {0}
  <2>. DEFINE S == Entries
  <2>1. q \in Seq(S) /\ e \in S
    BY <1>1
  <2>. HIDE DEF S
  <2>2. t \in Seq(S)
    BY <2>1, ReplaceLastOf
  <2>3. Len(t) = n /\ n \in Nat \ {0}
    BY <2>1, ReplaceLastOf
  <2>4. t[n] = e
    BY <2>1, ReplaceLastOf
  <2>5. \A k \in 1..(n - 1) : t[k] = q[k]
    BY <2>1, ReplaceLastOf
  <2>. QED BY <2>2, <2>3, <2>4, <2>5 DEF S
<1>. HIDE DEF t
<1>3. \A k \in 1..n : k = n \/ k \in 1..(n - 1)
  BY <1>2
<1>4. n \in 1..n /\ Last(q) = q[n]
  BY <1>2 DEF Last
<1>5. \A k \in 1..n : EntryOK(t[k], b, a, c, vs)
  BY <1>2, <1>3 DEF QueueOK
<1>6. \A k \in 1..n : EntryRow(t[k], b, a) = EntryRow(q[k], b, a)
  BY <1>2, <1>3, <1>4
<1>7. QueueOK(t, b, a, c, vs)
  <2>1. \A j, k \in 1..n : j < k => EntryRow(q[j], b, a) < EntryRow(q[k], b, a)
    BY DEF QueueOK
  <2>. QED BY <1>2, <1>5, <1>6, <2>1 DEF QueueOK
<1>8. ASSUME NEW x PROVE x \in CoveredBy(t, b, a) <=> x \in CoveredBy(q, b, a) \/ x \in F
  <2>1. (\E k \in 1..n : x \in Covered(t[k], b, a))
          <=> (\E k \in 1..n : x \in Covered(q[k], b, a)) \/ x \in F
    <3>1. \A k \in 1..(n - 1) : k \in 1..n /\ t[k] = q[k]
      BY <1>2
    <3>2. x \in Covered(t[n], b, a) <=> x \in Covered(q[n], b, a) \/ x \in F
      BY <1>2, <1>4
    <3>. QED BY <1>3, <1>4, <3>1, <3>2
  <2>. QED BY <1>2, <2>1, InCovered
<1>9. t # <<>> /\ Last(t) = e
  BY <1>2, EmptySeq DEF Last
<1>. QED BY <1>7, <1>8, <1>9 DEF t

(* A record that is full stands for all rays of its row. *)
LEMMA FullRow ==
  ASSUME NEW b, NEW a, NEW c, NEW vs, Numbering(b, a, c, vs),
         NEW e, EntryOK(e, b, a, c, vs), ~(e.nadded < a)
  PROVE  /\ e.nadded = a
         /\ Covered(e, b, a) = RowNumbers(EntryRow(e, b, a), a)
<1>. DEFINE r == EntryRow(e, b, a)
            E == Covered(e, b, a)
            z == r * a
<1>1. /\ a \in Nat \ {0} /\ r \in Nat /\ e.nadded \in Nat /\ e.nadded <= a
      /\ Cardinality(E) = e.nadded /\ E \subseteq RowNumbers(r, a)
  BY EntryTypes, EntryFacts
<1>2. e.nadded = a
  BY <1>1
<1>3. z \in Int /\ (r - 1) * a = z - a
  BY <1>1
<1>4. RowNumbers(r, a) = (z - a + 1)..z
  BY <1>3 DEF RowNumbers
<1>. HIDE DEF r, E, z
<1>5. IsFiniteSet(RowNumbers(r, a)) /\ Cardinality(RowNumbers(r, a)) = a
  <2>1. z - a + 1 \in Int /\ z - a + 1 <= z /\ z - (z - a + 1) + 1 = a
    BY <1>1, <1>3
  <2>. QED BY <1>3, <1>4, <2>1, FS_Interval
<1>6. E = RowNumbers(r, a)
  BY <1>1, <1>2, <1>5, FS_Subset
<1>. QED BY <1>2, <1>6 DEF r, E

(* The merge pass, up to the k-th record. *)
Merged(m, s, k, b, a, c, vs) ==
  /\ QueueOK(m, b, a, c, vs)
  /\ CoveredBy(m, b, a) = UNION {Covered(s[j], b, a) : j \in 1..k}
  /\ m = <<>> <=> k = 0
  /\ k > 0 => /\ EntryRow(Last(m), b, a) = EntryRow(s[k], b, a)
              /\ Last(m).ndx <= s[k].ndx

LEMMA MergeNextOK ==
  ASSUME NEW b, NEW a, NEW c, NEW vs, Numbering(b, a, c, vs), a > 1,
         NEW s, SortedOK(s, b, a, c, vs), NEW k \in 0..(Len(s) - 1),
         NEW m, Merged(m, s, k, b, a, c, vs)
  PROVE  Merged(MergeNext(m, s[k + 1], a), s, k + 1, b, a, c, vs)
<1>. DEFINE e == s[k + 1]
            last == Last(m)
            before == UNION {Covered(s[j], b, a) : j \in 1..k}
            t == MergeNext(m, e, a)
<1>1. k \in Nat /\ k + 1 \in 1..Len(s) /\ Len(s) \in Nat
  BY DEF SortedOK
<1>2. EntryOK(e, b, a, c, vs)
  BY <1>1 DEF SortedOK
<1>3. (before \cap Covered(e, b, a)) = {}
  <2>1. \A j \in 1..k : j \in 1..Len(s) /\ j < k + 1
    BY <1>1
  <2>2. \A j \in 1..k : (Covered(s[j], b, a) \cap Covered(e, b, a)) = {}
    BY <1>1, <2>1 DEF SortedOK
  <2>. QED BY <2>2
<1>4. UNION {Covered(s[j], b, a) : j \in 1..(k + 1)} = before \cup Covered(e, b, a)
  <2>1. 1..(k + 1) = 1..k \cup {k + 1}
    BY <1>1
  <2>. QED BY <2>1
<1>5. QueueOK(m, b, a, c, vs) /\ CoveredBy(m, b, a) = before
  BY DEF Merged
<1>6. /\ k = 0 <=> m = <<>>
      /\ k > 0 => EntryRow(last, b, a) = EntryRow(s[k], b, a) /\ last.ndx <= s[k].ndx
  BY DEF Merged
<1>7. CASE k = 0
  <2>1. t = Append(m, e) /\ m = <<>>
    BY <1>6, <1>7 DEF MergeNext
  <2>3. e.ndx <= s[k + 1].ndx
    BY <1>2, EntryTypes
  <2>. HIDE DEF t, before, e
  <2>2. /\ QueueOK(t, b, a, c, vs) /\ t # <<>> /\ Last(t) = e
        /\ CoveredBy(t, b, a) = before \cup Covered(e, b, a)
    <3>1. m # <<>> => EntryRow(Last(m), b, a) < EntryRow(e, b, a)
      BY <2>1
    <3>2. QueueOK(Append(m, e), b, a, c, vs)
      BY <1>2, <1>5, <3>1, AppendOK
    <3>3. CoveredBy(Append(m, e), b, a) = CoveredBy(m, b, a) \cup Covered(e, b, a)
      BY <1>2, <1>5, <3>1, AppendOK
    <3>4. Append(m, e) # <<>> /\ Last(Append(m, e)) = e
      BY <1>2, <1>5, <3>1, AppendOK
    <3>. QED BY <1>5, <2>1, <3>2, <3>3, <3>4
  <2>. QED BY <1>1, <1>4, <2>2, <2>3 DEF Merged, t, e
<1>8. CASE k > 0
  <2>1. m # <<>> /\ k \in 1..Len(s)
    BY <1>1, <1>6, <1>8
  <2>2. Len(m) \in 1..Len(m) /\ last = m[Len(m)]
    <3>1. m \in Seq(Entries)
      BY <1>5 DEF QueueOK
    <3>. QED BY <2>1, <3>1, EmptySeq DEF Last
  <2>3. EntryOK(last, b, a, c, vs)
    BY <1>5, <2>2 DEF QueueOK
  <2>4. EntryOK(s[k], b, a, c, vs) /\ s[k].ndx < e.ndx
    BY <1>1, <2>1 DEF SortedOK
  <2>5. last.ndx < e.ndx /\ last.ndx <= e.ndx /\ e.ndx \in Nat /\ last.ndx \in Nat
    <3>1. last.ndx \in Nat /\ e.ndx \in Nat /\ s[k].ndx \in Nat
      BY <1>2, <2>3, <2>4, EntryTypes
    <3>2. last.ndx <= s[k].ndx
      BY <1>6, <1>8
    <3>. QED BY <2>4, <3>1, <3>2
  <2>6. Covered(last, b, a) \subseteq before
    BY <1>5, <2>2, InCovered
  <2>7. (Covered(last, b, a) \cap Covered(e, b, a)) = {}
    BY <1>3, <2>6
  <2>. HIDE DEF before
  <2>8. CASE Absorbs(last, e, a)
    <3>. DEFINE d == AddModbin(last, e)
    <3>1. EntryRow(last, b, a) = EntryRow(e, b, a)
      BY <1>2, <2>3, <2>8, RowsApart DEF Absorbs
    <3>2. t = ReplaceLast(m, d)
      BY <2>1, <2>8 DEF MergeNext, ReplaceLast
    <3>3. /\ EntryOK(d, b, a, c, vs) /\ EntryRow(d, b, a) = EntryRow(last, b, a)
          /\ Covered(d, b, a) = Covered(last, b, a) \cup Covered(e, b, a)
          /\ d.ndx = last.ndx
      BY <1>2, <2>3, <2>5, <2>7, <3>1, MergeEntries
    <3>. HIDE DEF d, last, t
    <3>4. /\ QueueOK(t, b, a, c, vs) /\ t # <<>> /\ Last(t) = d
          /\ CoveredBy(t, b, a) = before \cup Covered(e, b, a)
      BY <1>5, <2>1, <3>2, <3>3, ReplaceLastOK DEF last
    <3>5. EntryRow(Last(t), b, a) = EntryRow(e, b, a) /\ Last(t).ndx <= e.ndx
      BY <2>5, <3>1, <3>3, <3>4
    <3>. QED BY <1>1, <1>4, <3>4, <3>5 DEF Merged, t
  <2>9. CASE ~Absorbs(last, e, a)
    <3>1. EntryRow(last, b, a) # EntryRow(e, b, a)
      <4>. SUFFICES ASSUME EntryRow(last, b, a) = EntryRow(e, b, a) PROVE FALSE
        OBVIOUS
      <4>1. Group(last.ndx, a) = Group(e.ndx, a)
        BY <1>2, <2>3, RowsApart
      <4>2. ~(last.nadded < a)
        BY <2>9, <4>1 DEF Absorbs
      <4>3. Covered(last, b, a) = RowNumbers(EntryRow(last, b, a), a)
        BY <2>3, <4>2, FullRow
      <4>4. Covered(e, b, a) \subseteq RowNumbers(EntryRow(e, b, a), a)
        BY <1>2, EntryFacts
      <4>5. e.ndx - b \in Covered(e, b, a)
        BY <1>2, EntryTypes
      <4>. QED BY <2>7, <4>3, <4>4, <4>5
    <3>2. EntryRow(last, b, a) <= EntryRow(e, b, a)
      BY <1>2, <2>3, <2>5, RowsApart
    <3>3. EntryRow(last, b, a) < EntryRow(e, b, a)
      <4>1. EntryRow(last, b, a) \in Nat /\ EntryRow(e, b, a) \in Nat
        BY <1>2, <2>3, EntryFacts
      <4>. QED BY <3>1, <3>2, <4>1
    <3>4. t = Append(m, e)
      BY <2>9 DEF MergeNext
    <3>. HIDE DEF t
    <3>5. /\ QueueOK(t, b, a, c, vs) /\ t # <<>> /\ Last(t) = e
          /\ CoveredBy(t, b, a) = before \cup Covered(e, b, a)
      BY <1>2, <1>5, <3>3, <3>4, AppendOK
    <3>. QED BY <1>1, <1>4, <2>5, <3>5 DEF Merged, t
  <2>. QED BY <2>8, <2>9
<1>. QED BY <1>1, <1>7, <1>8

(* The merge pass is a recursive function on the positions of the queue. *)
MergesTo(s, a, g) ==
  g = [k \in 0..Len(s) |-> IF k = 0 THEN <<>> ELSE MergeNext(g[k - 1], s[k], a)]

LEMMA MergeNextType ==
  ASSUME NEW m \in Seq(Entries), NEW e \in Entries, NEW a
  PROVE  MergeNext(m, e, a) \in Seq(Entries)
<1>1. CASE m # <<>> /\ Absorbs(Last(m), e, a)
  <2>. DEFINE last == Last(m)
              d == AddModbin(last, e)
  <2>1. last \in Entries
    <3>1. Len(m) \in 1..Len(m)
      BY <1>1, EmptySeq
    <3>. QED BY <3>1 DEF Last
  <2>. HIDE DEF last
  <2>2. /\ last \in [ndx : Nat, nadded : Nat, sum : Sums(RayIds)]
        /\ e.nadded \in Nat /\ e.sum \in Sums(RayIds)
    BY <2>1 DEF Entries
  <2>3. AddSum(last.sum, e.sum) \in Sums(RayIds) /\ last.nadded + e.nadded \in Nat
    <3>1. last.sum \in Sums(RayIds) /\ last.nadded \in Nat
      BY <2>2
    <3>. QED BY <2>2, <3>1 DEF AddSum, Sums
  <2>4. d = [ndx |-> last.ndx, nadded |-> last.nadded + e.nadded,
             sum |-> AddSum(last.sum, e.sum)]
    BY DEF AddModbin, NewEntry
  <2>5. d \in Entries
    <3>. HIDE DEF Sums
    <3>. QED BY <2>2, <2>3, <2>4 DEF Entries
  <2>6. MergeNext(m, e, a) = ReplaceLast(m, d)
    BY <1>1 DEF MergeNext, ReplaceLast, last
  <2>. HIDE DEF d
  <2>. DEFINE S == Entries
  <2>7. m \in Seq(S) /\ d \in S /\ m # <<>>
    BY <1>1, <2>5
  <2>. HIDE DEF S
  <2>8. ReplaceLast(m, d) \in Seq(S)
    BY <2>7, ReplaceLastOf
  <2>. QED BY <2>6, <2>8 DEF S
<1>2. CASE ~(m # <<>> /\ Absorbs(Last(m), e, a))
  <2>1. MergeNext(m, e, a) = Append(m, e)
    BY <1>2 DEF MergeNext
  <2>. QED BY <2>1, AppendProperties
<1>. QED BY <1>1, <1>2

LEMMA MergeExists ==
  ASSUME NEW s \in Seq(Entries), NEW a
  PROVE  \E g : MergesTo(s, a, g)
<1>. DEFINE V == Seq(Entries)
            n == Len(s)
            step == [k \in 1..n |-> [m \in V |-> MergeNext(m, s[k], a)]]
            v == <<>>
<1>1. n \in Nat /\ v \in V
  BY EmptySeq
<1>2. \A k \in 1..n : \A m \in V : MergeNext(m, s[k], a) \in V
  BY MergeNextType
<1>3. step \in [1..n -> [V -> V]]
  BY <1>2
<1>4. \A k \in 1..n : \A m \in V : step[k][m] = MergeNext(m, s[k], a)
  OBVIOUS
<1>. HIDE DEF V, n, step, v
<1>5. PICK g \in [0..n -> V] : g[0] = v /\ \A k \in 1..n : g[k] = step[k][g[k - 1]]
  <2>1. \E g \in [0..n -> V] :
          g[0] = v /\ \A k \in 1..n : g[k] = step[k][g[k - 1]]
    <3>1. n \in Nat
      BY <1>1
    <3>2. v \in V
      BY <1>1
    <3>3. StepsIn(step, n, V)
      BY <1>3 DEF StepsIn
    <3>. QED BY <3>1, <3>2, <3>3, StepByStep, SMTT(60)
  <2>. QED BY <2>1
<1>6. \A k \in 1..n : g[k] = MergeNext(g[k - 1], s[k], a)
  <2>1. \A k \in 1..n : k - 1 \in 0..n
    BY <1>1
  <2>. QED BY <1>4, <1>5, <2>1
<1>7. g = [k \in 0..n |-> IF k = 0 THEN v ELSE MergeNext(g[k - 1], s[k], a)]
  <2>1. \A k \in 0..n : k # 0 => k \in 1..n
    BY <1>1
  <2>. QED BY <1>5, <1>6, <2>1
<1>. QED BY <1>7 DEF MergesTo, n, v

LEMMA MergeIs ==
  ASSUME NEW s \in Seq(Entries), NEW a
  PROVE  \E g : MergesTo(s, a, g) /\ Merge(s, a) = g[Len(s)]
<1>. DEFINE g == CHOOSE g : MergesTo(s, a, g)
<1>1. MergesTo(s, a, g)
  BY MergeExists
<1>2. Merge(s, a) = g[Len(s)]
  BY DEF Merge, MergesTo
<1>. HIDE DEF g
<1>. QED BY <1>1, <1>2

LEMMA MergeOK ==
  ASSUME NEW b, NEW a, NEW c, NEW vs, Numbering(b, a, c, vs), a > 1,
         NEW s, SortedOK(s, b, a, c, vs)
  PROVE  /\ QueueOK(Merge(s, a), b, a, c, vs)
         /\ CoveredBy(Merge(s, a), b, a) = CoveredBy(s, b, a)
<1>. DEFINE n == Len(s)
<1>1. s \in Seq(Entries) /\ n \in Nat
  BY DEF SortedOK
<1>2. PICK g : MergesTo(s, a, g) /\ Merge(s, a) = g[n]
  BY <1>1, MergeIs
<1>3. /\ g[0] = <<>>
      /\ \A k \in 0..(n - 1) : g[k + 1] = MergeNext(g[k], s[k + 1], a)
  <2>1. \A k \in 0..n : g[k] = IF k = 0 THEN <<>> ELSE MergeNext(g[k - 1], s[k], a)
    BY <1>2 DEF MergesTo
  <2>2. 0 \in 0..n
    BY <1>1
  <2>3. \A k \in 0..(n - 1) : k + 1 \in 0..n /\ k + 1 # 0 /\ (k + 1) - 1 = k
    BY <1>1
  <2>. QED BY <2>1, <2>2, <2>3
<1>. DEFINE T == {k \in 0..n : Merged(g[k], s, k, b, a, c, vs)}
<1>4. 0 \in T
  <2>1. CoveredBy(<<>>, b, a) = {} /\ QueueOK(<<>>, b, a, c, vs)
    BY EmptySeq DEF CoveredBy, QueueOK
  <2>2. UNION {Covered(s[j], b, a) : j \in 1..0} = {}
    OBVIOUS
  <2>. QED BY <1>1, <1>3, <2>1, <2>2 DEF Merged
<1>5. \A k \in 0..(n - 1) : k \in T => k + 1 \in T
  <2>. SUFFICES ASSUME NEW k \in 0..(n - 1), k \in T PROVE k + 1 \in T
    OBVIOUS
  <2>1. Merged(MergeNext(g[k], s[k + 1], a), s, k + 1, b, a, c, vs)
    BY MergeNextOK
  <2>2. k + 1 \in 0..n
    BY <1>1
  <2>. QED BY <1>3, <2>1, <2>2
<1>6. n \in T
  <2>. HIDE DEF T, n
  <2>1. 0..n \subseteq T
    BY <1>1, <1>4, <1>5, IntervalInduction
  <2>. QED BY <1>1, <2>1
<1>7. Merged(Merge(s, a), s, n, b, a, c, vs)
  BY <1>2, <1>6
<1>8. UNION {Covered(s[j], b, a) : j \in 1..n} = CoveredBy(s, b, a)
  BY DEF CoveredBy
<1>. QED BY <1>7, <1>8 DEF Merged

(***************************************************************************)
(* queue_output keeps the queue sorted by rows, one entry a row, and adds  *)
(* exactly the rays of the new record.                                     *)
(***************************************************************************)
LEMMA QueueOutputOK ==
  ASSUME NEW b, NEW a, NEW c, NEW vs, Numbering(b, a, c, vs),
         NEW q, QueueOK(q, b, a, c, vs), NEW e, EntryOK(e, b, a, c, vs),
         (Covered(e, b, a) \cap CoveredBy(q, b, a)) = {}
  PROVE  /\ QueueOK(QueueOutput(q, e, a), b, a, c, vs)
         /\ CoveredBy(QueueOutput(q, e, a), b, a)
              = CoveredBy(q, b, a) \cup Covered(e, b, a)
<1>. DEFINE s == Insert(q, e)
<1>1. SortedOK(q, b, a, c, vs)
  BY QueueIsSorted
<1>2. /\ SortedOK(s, b, a, c, vs)
      /\ CoveredBy(s, b, a) = CoveredBy(q, b, a) \cup Covered(e, b, a)
  BY <1>1, InsertOK
<1>3. CASE a = 1
  <2>1. QueueOutput(q, e, a) = s
    BY <1>3 DEF QueueOutput
  <2>2. QueueOK(s, b, a, c, vs)
    BY <1>2, <1>3, SortedIsQueue
  <2>. QED BY <1>2, <2>1, <2>2
<1>4. CASE a # 1
  <2>1. QueueOutput(q, e, a) = Merge(s, a) /\ a > 1
    BY <1>4 DEF QueueOutput, Numbering
  <2>. HIDE DEF s
  <2>2. /\ QueueOK(Merge(s, a), b, a, c, vs)
        /\ CoveredBy(Merge(s, a), b, a) = CoveredBy(s, b, a)
    BY <1>2, <2>1, MergeOK
  <2>. QED BY <1>2, <2>1, <2>2
<1>. QED BY <1>3, <1>4

-----------------------------------------------------------------------------
(***************************************************************************)
(* What is ready for output: the records of the next rows, complete, at    *)
(* the head of the queue.                                                  *)
(***************************************************************************)
LEMMA ReadyPrefix ==
  ASSUME NEW S, NEW q \in Seq(S), NEW done, NEW a
  PROVE  /\ QueueReady(q, done, a) \in 0..Len(q)
         /\ \A k \in 1..QueueReady(q, done, a) : IsReady(q, k, done, a)
         /\ QueueReady(q, done, a) # Len(q)
              => ~IsReady(q, QueueReady(q, done, a) + 1, done, a)
<1>. DEFINE K == {k \in DOMAIN q : \A j \in 1..k : IsReady(q, j, done, a)}
            n == Cardinality(K)
<1>1. Len(q) \in Nat /\ DOMAIN q = 1..Len(q)
  OBVIOUS
<1>2. n \in 0..Len(q) /\ K = 1..n
  <2>1. K \in SUBSET (1..Len(q)) /\ \A k \in K : \A j \in 1..k : j \in K
    BY <1>1
  <2>. HIDE DEF K
  <2>. QED BY <1>1, <2>1, InitialSegment
<1>3. QueueReady(q, done, a) = n
  BY DEF QueueReady
<1>4. \A k \in 1..n : IsReady(q, k, done, a)
  <2>1. \A k \in K : IsReady(q, k, done, a)
    BY <1>1
  <2>. QED BY <1>2, <2>1
<1>5. n # Len(q) => ~IsReady(q, n + 1, done, a)
  <2>. SUFFICES ASSUME n # Len(q), IsReady(q, n + 1, done, a) PROVE FALSE
    OBVIOUS
  <2>1. n + 1 \in 1..Len(q) /\ n + 1 \notin 1..n /\ n \in Nat
    <3>. DEFINE l == Len(q)
    <3>1. n \in Int /\ 0 <= n /\ n <= l /\ n # l /\ l \in Int
      BY <1>1, <1>2
    <3>. HIDE DEF n, K, l
    <3>2. n + 1 \in 1..l /\ n + 1 \notin 1..n /\ n \in Nat
      BY <3>1
    <3>. QED BY <3>2 DEF l
  <2>2. \A j \in 1..(n + 1) : IsReady(q, j, done, a)
    <3>1. \A j \in 1..(n + 1) : j \in 1..n \/ j = n + 1
      <4>. HIDE DEF n
      <4>. QED BY <2>1
    <3>. QED BY <1>4, <3>1
  <2>3. n + 1 \in K
    <3>. HIDE DEF n
    <3>. QED BY <1>1, <2>1, <2>2
  <2>. QED BY <1>2, <2>1, <2>3
<1>. HIDE DEF n
<1>. QED BY <1>2, <1>3, <1>4, <1>5

(* A multiple of the rays of a row before and after a row. *)
LEMMA RowNumbersIs ==
  ASSUME NEW a \in Nat \ {0}, NEW r \in Int
  PROVE  /\ RowNumbers(r, a) = (r * a - a + 1)..(r * a)
         /\ r * a \in Int /\ (r - 1) * a = r * a - a
         /\ IsFiniteSet(RowNumbers(r, a)) /\ Cardinality(RowNumbers(r, a)) = a
         /\ \A x \in RowNumbers(r, a) : x \in Int /\ RowOf(x, a) = r
<1>. DEFINE z == r * a
<1>1. z \in Int /\ (r - 1) * a = z - a
  OBVIOUS
<1>2. RowNumbers(r, a) = (z - a + 1)..z
  BY <1>1 DEF RowNumbers
<1>. HIDE DEF z
<1>3. IsFiniteSet(RowNumbers(r, a)) /\ Cardinality(RowNumbers(r, a)) = a
  <2>1. z - a + 1 \in Int /\ z - a + 1 <= z /\ z - (z - a + 1) + 1 = a
    BY <1>1
  <2>. QED BY <1>1, <1>2, <2>1, FS_Interval
<1>4. ASSUME NEW x \in RowNumbers(r, a)
      PROVE  x \in Int /\ RowOf(x, a) = r
  <2>1. x \in Int /\ z - a < x /\ x <= z
    BY <1>1, <1>2
  <2>2. (r - 1) * a < x /\ x <= r * a
    BY <1>1, <2>1 DEF z
  <2>. QED BY <2>1, <2>2, RowIs
<1>. QED BY <1>1, <1>2, <1>3, <1>4 DEF z

UpToRow(x, i, a) ==
  /\ i * a \in Int /\ RowOf(x, a) \in Int
  /\ RowOf(x, a) <= i <=> x <= i * a

LEMMA RowRange ==
  ASSUME NEW a \in Nat \ {0}, NEW i \in Int, NEW x \in Int
  PROVE  UpToRow(x, i, a)
<1>1. i * a \in Int /\ RowOf(x, a) \in Int
  BY RowBounds
<1>. DEFINE r == RowOf(x, a)
            z == r * a
            y == i * a
<1>2. (r - 1) * a < x /\ x <= z
  BY RowBounds
<1>3. z \in Int /\ r \in Int /\ (r - 1) * a = z - a
  <2>. HIDE DEF r
  <2>1. r \in Int
    BY <1>1 DEF r
  <2>. QED BY <2>1
<1>4. CASE r < i
  <2>1. r * a + a <= i * a
    <3>. HIDE DEF r
    <3>. QED BY <1>3, <1>4, NextMultiple
  <2>. HIDE DEF r, y
  <2>2. z + a <= y
    BY <2>1 DEF y
  <2>. HIDE DEF z
  <2>3. x <= y
    BY <1>1, <1>2, <1>3, <2>2 DEF y
  <2>. QED BY <1>1, <1>3, <1>4, <2>3 DEF UpToRow, y, r
<1>5. CASE i < r
  <2>1. i * a + a <= r * a
    <3>. HIDE DEF r
    <3>. QED BY <1>3, <1>5, NextMultiple
  <2>. HIDE DEF r, y
  <2>2. y + a <= z
    BY <2>1 DEF y
  <2>. HIDE DEF z
  <2>3. ~(x <= y)
    BY <1>1, <1>2, <1>3, <2>2 DEF y
  <2>. QED BY <1>1, <1>3, <1>5, <2>3 DEF UpToRow, y, r
<1>6. CASE i = r
  BY <1>1, <1>2, <1>6 DEF UpToRow
<1>. HIDE DEF r, z, y
<1>7. r < i \/ i < r \/ i = r
  BY <1>3
<1>. QED BY <1>1, <1>4, <1>5, <1>6, <1>7 DEF UpToRow, r

(* A ready record is the answer of its row. *)
RowAnswer(r, a, c, vs) == RowSum(r, RowNumbers(r, a), a, c, vs)

LEMMA ReadyEntry ==
  ASSUME NEW b, NEW a, NEW c, NEW vs, Numbering(b, a, c, vs),
         NEW q, QueueOK(q, b, a, c, vs), NEW d \in Nat, NEW k \in 1..Len(q),
         IsReady(q, k, b + d * a, a)
  PROVE  /\ EntryRow(q[k], b, a) = d + k /\ d + k \in 1..Len(vs)
         /\ Covered(q[k], b, a) = RowNumbers(d + k, a)
         /\ q[k].sum = RowAnswer(d + k, a, c, vs)
<1>. DEFINE e == q[k]
            z == (d + k) * a
<1>1. EntryOK(e, b, a, c, vs) /\ q \in Seq(Entries)
  BY DEF QueueOK
<1>2. k \in Nat
  BY <1>1
<1>3. e.nadded >= a /\ e.ndx = b + d * a + (k - 1) * a + 1
  BY DEF IsReady
<1>4. /\ a \in Nat \ {0} /\ b \in Int /\ e.ndx \in Nat /\ e.nadded \in Nat
      /\ EntryRow(e, b, a) = RowOf(e.ndx - b, a) /\ EntryRow(e, b, a) \in 1..Len(vs)
      /\ e.sum = RowSum(EntryRow(e, b, a), Covered(e, b, a), e.nadded, c, vs)
  BY <1>1, EntryTypes DEF EntryOK
<1>5. z \in Int /\ d * a + (k - 1) * a = z - a /\ (d + k - 1) * a = z - a
  BY <1>2, <1>4, SMTT(30)
<1>6. d * a \in Int /\ (k - 1) * a \in Int
  BY <1>2, <1>4
<1>7. e.ndx - b = z - a + 1
  <2>. DEFINE u == d * a
              v == (k - 1) * a
  <2>1. e.ndx = b + u + v + 1 /\ u + v = z - a /\ u \in Int /\ v \in Int
    BY <1>3, <1>5, <1>6
  <2>. HIDE DEF u, v, z, e
  <2>. QED BY <1>4, <1>5, <2>1
<1>8. EntryRow(e, b, a) = d + k
  <2>. DEFINE r == d + k
              x == e.ndx - b
  <2>1. r \in Int /\ x \in Int
    BY <1>2, <1>4, SMTT(30)
  <2>2. x = z - a + 1 /\ (r - 1) * a = z - a /\ r * a = z
    BY <1>5, <1>7
  <2>. HIDE DEF z, r, x
  <2>3. (r - 1) * a < x /\ x <= r * a
    BY <1>4, <1>5, <2>2
  <2>4. RowOf(x, a) = r
    BY <1>4, <2>1, <2>3, RowIs
  <2>. QED BY <1>4, <2>4 DEF r, x
<1>9. ~(e.nadded < a)
  <2>. HIDE DEF e, z
  <2>. QED BY <1>3, <1>4
<1>. HIDE DEF e, z
<1>10. e.nadded = a /\ Covered(e, b, a) = RowNumbers(d + k, a)
  BY <1>1, <1>8, <1>9, FullRow
<1>11. e.sum = RowAnswer(d + k, a, c, vs)
  BY <1>4, <1>8, <1>10 DEF RowAnswer
<1>. QED BY <1>4, <1>8, <1>10, <1>11 DEF e

(* A record that stands for all rays of the row it is to be output for. *)
LEMMA FullEntryReady ==
  ASSUME NEW b, NEW a, NEW c, NEW vs, Numbering(b, a, c, vs),
         NEW q, QueueOK(q, b, a, c, vs), NEW d \in Nat, NEW k \in 1..Len(q),
         Covered(q[k], b, a) = RowNumbers(d + k, a)
  PROVE  IsReady(q, k, b + d * a, a)
<1>. DEFINE e == q[k]
            r == d + k
            z == r * a
            x == e.ndx - b
            u == d * a
            v == (k - 1) * a
<1>1. EntryOK(e, b, a, c, vs) /\ q \in Seq(Entries)
  BY DEF QueueOK
<1>2. k \in Nat /\ r \in Int
  BY <1>1
<1>3. /\ a \in Nat \ {0} /\ b \in Int /\ e.ndx \in Nat
      /\ x \in Covered(e, b, a)
      /\ Covered(e, b, a) \subseteq x..(EntryRow(e, b, a) * a)
      /\ Cardinality(Covered(e, b, a)) = e.nadded
  BY <1>1, EntryTypes
<1>4. z \in Int /\ u \in Int /\ v \in Int /\ u + v = z - a
  <2>. HIDE DEF e, x
  <2>1. a \in Int /\ d \in Int /\ k \in Int
    BY <1>2, <1>3
  <2>2. d * a + (k - 1) * a = (d + k) * a - a
    BY <2>1
  <2>3. z \in Int /\ u \in Int /\ v \in Int
    BY <2>1
  <2>. QED BY <2>2, <2>3
<1>5. RowNumbers(r, a) = (z - a + 1)..z /\ Cardinality(RowNumbers(r, a)) = a
  <2>. HIDE DEF r
  <2>. QED BY <1>2, <1>3, RowNumbersIs
<1>6. Covered(e, b, a) = (z - a + 1)..z /\ e.nadded = a
  BY <1>3, <1>5
<1>7. x = z - a + 1
  <2>1. x \in Int
    BY <1>3
  <2>. HIDE DEF e, x, z
  <2>2. z - a + 1 \in Covered(e, b, a)
    BY <1>3, <1>4, <1>6
  <2>3. x <= z - a + 1
    BY <1>3, <2>2
  <2>4. z - a + 1 <= x
    BY <1>3, <1>6
  <2>5. a \in Int /\ z \in Int
    BY <1>3, <1>4
  <2>. QED BY <2>1, <2>3, <2>4, <2>5
<1>8. e.ndx = b + u + v + 1
  <2>1. e.ndx = b + x
    BY <1>3
  <2>. HIDE DEF e, x, z, u, v
  <2>. QED BY <1>3, <1>4, <1>7, <2>1
<1>. QED BY <1>3, <1>6, <1>8 DEF IsReady

(* The records after the first n. *)
Rest(q, n) == SubSeq(q, n + 1, Len(q))

LEMMA RestOf ==
  ASSUME NEW S, NEW q \in Seq(S), NEW n \in 0..Len(q)
  PROVE  /\ Rest(q, n) \in Seq(S) /\ Len(Rest(q, n)) = Len(q) - n
         /\ \A k \in 1..(Len(q) - n) : Rest(q, n)[k] = q[n + k]
BY DEF Rest

LEMMA RestOK ==
  ASSUME NEW b, NEW a, NEW c, NEW vs,
         NEW q, QueueOK(q, b, a, c, vs), NEW n \in 0..Len(q)
  PROVE  QueueOK(Rest(q, n), b, a, c, vs)
<1>. DEFINE t == Rest(q, n)
            S == Entries
<1>1. q \in Seq(S) /\ Len(q) \in Nat
  BY DEF QueueOK
<1>2. \A k \in 1..(Len(q) - n) : n + k \in 1..Len(q)
  BY <1>1
<1>. HIDE DEF t, S
<1>3. t \in Seq(S)
  BY <1>1, RestOf DEF t
<1>4. Len(t) = Len(q) - n
  BY <1>1, RestOf DEF t
<1>5. \A k \in 1..(Len(q) - n) : t[k] = q[n + k]
  BY <1>1, RestOf DEF t
<1>6. \A k \in 1..Len(t) : EntryOK(t[k], b, a, c, vs)
  BY <1>2, <1>4, <1>5 DEF QueueOK
<1>7. ASSUME NEW j \in 1..Len(t), NEW k \in 1..Len(t), j < k
      PROVE  EntryRow(t[j], b, a) < EntryRow(t[k], b, a)
  <2>1. n + j \in 1..Len(q) /\ n + k \in 1..Len(q) /\ n + j < n + k
    BY <1>1, <1>4, <1>7
  <2>2. t[j] = q[n + j] /\ t[k] = q[n + k]
    BY <1>4, <1>5
  <2>. QED BY <2>1, <2>2 DEF QueueOK
<1>. QED BY <1>3, <1>6, <1>7 DEF QueueOK, t, S

(* The rays left are those of the later rows. *)
LEMMA RestCovered ==
  ASSUME NEW b, NEW a, NEW c, NEW vs, Numbering(b, a, c, vs),
         NEW q, QueueOK(q, b, a, c, vs), NEW n \in 0..Len(q), NEW d \in Nat,
         \A x \in CoveredBy(q, b, a) : d * a < x,
         \A k \in 1..n : EntryRow(q[k], b, a) = d + k
  PROVE  CoveredBy(Rest(q, n), b, a) = {x \in CoveredBy(q, b, a) : (d + n) * a < x}
<1>. DEFINE t == Rest(q, n)
            S == Entries
            h == d + n
<1>1. q \in Seq(S) /\ Len(q) \in Nat
  BY DEF QueueOK
<1>2. a \in Nat \ {0} /\ n \in Nat /\ h \in Int
  BY <1>1 DEF Numbering
<1>. HIDE DEF S
<1>3. Len(t) = Len(q) - n
  BY <1>1, RestOf
<1>4. \A k \in 1..(Len(q) - n) : t[k] = q[n + k]
  BY <1>1, RestOf
<1>. HIDE DEF t
<1>5. ASSUME NEW k \in 1..Len(q), NEW x \in Covered(q[k], b, a)
      PROVE  /\ x \in Int /\ RowOf(x, a) = EntryRow(q[k], b, a)
             /\ EntryRow(q[k], b, a) \in Nat /\ x \in CoveredBy(q, b, a)
  <2>1. EntryOK(q[k], b, a, c, vs)
    BY DEF QueueOK
  <2>2. EntryRow(q[k], b, a) \in Nat /\ RowOf(x, a) = EntryRow(q[k], b, a)
        /\ x \in RowNumbers(EntryRow(q[k], b, a), a)
    BY <2>1, EntryFacts
  <2>3. x \in Int
    BY <1>2, <2>2, RowNumbersIs
  <2>. QED BY <2>2, <2>3, InCovered
<1>6. ASSUME NEW k \in 1..Len(q), NEW x \in Covered(q[k], b, a)
      PROVE  h * a < x <=> n < k
  <2>. DEFINE r == EntryRow(q[k], b, a)
  <2>1. /\ r \in Nat /\ x \in Int /\ RowOf(x, a) = r /\ d * a < x
        /\ x \in CoveredBy(q, b, a)
    BY <1>5
  <2>2. h * a \in Int /\ d * a \in Int
    BY <1>2
  <2>3. r <= h <=> x <= h * a
    <3>. HIDE DEF h, r
    <3>1. UpToRow(x, h, a)
      BY <1>2, <2>1, RowRange
    <3>. QED BY <2>1, <3>1 DEF UpToRow
  <2>4. r <= h <=> ~(h * a < x)
    <3>. HIDE DEF h, r
    <3>. QED BY <2>1, <2>2, <2>3
  <2>5. CASE k <= n
    <3>1. k \in 1..n /\ r = d + k
      BY <1>1, <1>2, <2>5
    <3>2. r <= h
      BY <1>2, <2>5, <3>1
    <3>. QED BY <1>1, <1>2, <2>4, <2>5, <3>2
  <2>6. CASE n < k
    <3>1. d < r
      <4>1. r <= d <=> x <= d * a
        <5>. HIDE DEF r
        <5>1. UpToRow(x, d, a)
          <6>1. d \in Int /\ x \in Int /\ a \in Nat \ {0}
            BY <1>2, <2>1
          <6>. QED BY <6>1, RowRange
        <5>. QED BY <2>1, <5>1 DEF UpToRow
      <4>. HIDE DEF r
      <4>. QED BY <2>1, <2>2, <4>1
    <3>2. h < r
      <4>1. CASE n = 0
        BY <1>2, <3>1, <4>1
      <4>2. CASE n # 0
        <5>1. n \in 1..n /\ n \in 1..Len(q)
          BY <1>1, <1>2, <4>2
        <5>2. EntryRow(q[n], b, a) = h
          BY <5>1
        <5>3. EntryRow(q[n], b, a) < r
          BY <2>6, <5>1 DEF QueueOK
        <5>. QED BY <5>2, <5>3
      <4>. QED BY <4>1, <4>2
    <3>3. ~(r <= h)
      <4>. HIDE DEF r, h
      <4>. QED BY <1>2, <2>1, <3>2
    <3>. QED BY <2>4, <2>6, <3>3
  <2>. QED BY <1>1, <1>2, <2>5, <2>6
<1>. HIDE DEF h
<1>7. ASSUME NEW x PROVE x \in CoveredBy(t, b, a)
         <=> x \in CoveredBy(q, b, a) /\ h * a < x
  <2>1. ASSUME x \in CoveredBy(t, b, a)
        PROVE  x \in CoveredBy(q, b, a) /\ h * a < x
    <3>1. PICK k \in 1..Len(t) : x \in Covered(t[k], b, a)
      BY <2>1, InCovered
    <3>2. n + k \in 1..Len(q) /\ n < n + k /\ t[k] = q[n + k]
      BY <1>1, <1>2, <1>3, <1>4
    <3>. QED BY <1>5, <1>6, <3>1, <3>2
  <2>2. ASSUME x \in CoveredBy(q, b, a), h * a < x
        PROVE  x \in CoveredBy(t, b, a)
    <3>1. PICK k \in 1..Len(q) : x \in Covered(q[k], b, a)
      BY <2>2, InCovered
    <3>2. n < k
      BY <1>6, <2>2, <3>1
    <3>3. k - n \in 1..Len(t) /\ k - n \in 1..(Len(q) - n) /\ n + (k - n) = k
      BY <1>1, <1>2, <1>3, <3>2
    <3>4. t[k - n] = q[k]
      BY <1>4, <3>3
    <3>. QED BY <3>1, <3>3, <3>4, InCovered
  <2>. QED BY <2>1, <2>2
<1>. QED BY <1>7 DEF t, h

(***************************************************************************)
(* output_catchup: what it pops are the answers of the next rows.          *)
(***************************************************************************)
LEMMA CatchupOK ==
  ASSUME NEW b, NEW a, NEW c, NEW vs, Numbering(b, a, c, vs),
         NEW q, QueueOK(q, b, a, c, vs), NEW d \in 0..Len(vs),
         \A x \in CoveredBy(q, b, a) : d * a < x,
         NEW nmax \in Int, NEW n, n = Catchup(q, nmax, b + d * a, a)
  PROVE  /\ n \in 0..Len(q) /\ d + n \in 0..Len(vs)
         /\ \A k \in 1..n : q[k].sum = RowAnswer(d + k, a, c, vs)
         /\ QueueOK(Rest(q, n), b, a, c, vs)
         /\ CoveredBy(Rest(q, n), b, a)
              = {x \in CoveredBy(q, b, a) : (d + n) * a < x}
         /\ \A k \in 1..n : RowNumbers(d + k, a) \subseteq CoveredBy(q, b, a)
<1>. DEFINE done == b + d * a
            m == QueueReady(q, done, a)
<1>1. q \in Seq(Entries) /\ Len(q) \in Nat /\ Len(vs) \in Nat /\ d \in Nat
  BY DEF QueueOK, Numbering
<1>2. m \in 0..Len(q) /\ \A k \in 1..m : IsReady(q, k, done, a)
  <2>. DEFINE S == Entries
  <2>1. q \in Seq(S)
    BY <1>1
  <2>. HIDE DEF S
  <2>. QED BY <2>1, ReadyPrefix
<1>3. n \in 0..m
  <2>1. n = IF nmax > 0 /\ nmax < m THEN nmax ELSE m
    BY DEF Catchup
  <2>. HIDE DEF m
  <2>. QED BY <1>1, <1>2, <2>1
<1>4. n \in 0..Len(q) /\ \A k \in 1..n : k \in 1..m /\ k \in 1..Len(q)
  <2>. HIDE DEF m
  <2>. QED BY <1>1, <1>2, <1>3
<1>5. ASSUME NEW k \in 1..n
      PROVE  /\ EntryRow(q[k], b, a) = d + k /\ d + k \in 1..Len(vs)
             /\ Covered(q[k], b, a) = RowNumbers(d + k, a)
             /\ q[k].sum = RowAnswer(d + k, a, c, vs)
  <2>1. k \in 1..Len(q) /\ IsReady(q, k, b + d * a, a)
    BY <1>2, <1>4
  <2>. QED BY <1>1, <2>1, ReadyEntry
<1>6. d + n \in 0..Len(vs)
  <2>1. CASE n = 0
    BY <1>1, <2>1
  <2>2. CASE n # 0
    <3>1. n \in 1..n
      BY <1>1, <1>4, <2>2
    <3>2. d + n \in 1..Len(vs)
      BY <1>5, <3>1
    <3>. QED BY <1>1, <3>2
  <2>. QED BY <2>1, <2>2
<1>7. QueueOK(Rest(q, n), b, a, c, vs)
  BY <1>4, RestOK
<1>8. CoveredBy(Rest(q, n), b, a) = {x \in CoveredBy(q, b, a) : (d + n) * a < x}
  BY <1>1, <1>4, <1>5, RestCovered
<1>9. \A k \in 1..n : RowNumbers(d + k, a) \subseteq CoveredBy(q, b, a)
  <2>. SUFFICES ASSUME NEW k \in 1..n, NEW x \in RowNumbers(d + k, a)
                PROVE  x \in CoveredBy(q, b, a)
    OBVIOUS
  <2>1. x \in Covered(q[k], b, a) /\ k \in 1..Len(q)
    BY <1>4, <1>5
  <2>. QED BY <2>1, InCovered
<1>. QED BY <1>4, <1>5, <1>6, <1>7, <1>8, <1>9

(* A queue of all rays of the next rows is ready as a whole. *)
LEMMA FlushOK ==
  ASSUME NEW b, NEW a, NEW c, NEW vs, Numbering(b, a, c, vs),
         NEW q, QueueOK(q, b, a, c, vs), NEW d \in 0..Len(vs),
         NEW h \in Nat, d <= h, CoveredBy(q, b, a) = (d * a + 1)..(h * a),
         NEW n, n = Catchup(q, 0, b + d * a, a)
  PROVE  d + n = h
<1>. DEFINE done == b + d * a
            u == d * a
            z == h * a
<1>1. /\ q \in Seq(Entries) /\ Len(q) \in Nat /\ Len(vs) \in Nat /\ d \in Nat
      /\ a \in Nat \ {0}
  BY DEF QueueOK, Numbering
<1>2. /\ n = QueueReady(q, done, a) /\ n \in 0..Len(q)
      /\ \A k \in 1..n : IsReady(q, k, done, a)
      /\ n # Len(q) => ~IsReady(q, n + 1, done, a)
  <2>. DEFINE S == Entries
  <2>1. q \in Seq(S)
    BY <1>1
  <2>2. n = QueueReady(q, done, a)
    BY DEF Catchup
  <2>. HIDE DEF S, done
  <2>. QED BY <2>1, <2>2, ReadyPrefix
<1>3. n \in Nat /\ \A k \in 1..n : k \in 1..Len(q)
  BY <1>1, <1>2
<1>4. ASSUME NEW k \in 1..n
      PROVE  EntryRow(q[k], b, a) = d + k /\ Covered(q[k], b, a) = RowNumbers(d + k, a)
  <2>1. k \in 1..Len(q) /\ IsReady(q, k, b + d * a, a)
    BY <1>2, <1>3
  <2>. QED BY <1>1, <2>1, ReadyEntry
(* Every record is of a row after d and up to h. *)
<1>5. ASSUME NEW k \in 1..Len(q)
      PROVE  /\ EntryOK(q[k], b, a, c, vs) /\ EntryRow(q[k], b, a) \in (d + 1)..h
  <2>. DEFINE e == q[k]
              x == e.ndx - b
  <2>1. EntryOK(e, b, a, c, vs)
    BY DEF QueueOK
  <2>2. x \in Covered(e, b, a) /\ RowOf(x, a) = EntryRow(e, b, a)
    BY <2>1, EntryTypes
  <2>3. x \in (u + 1)..z
    BY <2>2, InCovered
  <2>4. u \in Int /\ z \in Int
    BY <1>1
  <2>. HIDE DEF x, u, z, e
  <2>5. x \in Int /\ ~(x <= u) /\ x <= z
    BY <2>3, <2>4
  <2>6. RowOf(x, a) \in Int /\ ~(RowOf(x, a) <= d) /\ RowOf(x, a) <= h
    <3>1. UpToRow(x, d, a) /\ UpToRow(x, h, a)
      <4>1. d \in Int /\ h \in Int /\ x \in Int /\ a \in Nat \ {0}
        BY <1>1, <2>5
      <4>. QED BY <4>1, RowRange
    <3>. QED BY <2>5, <3>1 DEF UpToRow, u, z
  <2>7. EntryRow(e, b, a) \in (d + 1)..h
    BY <1>1, <2>2, <2>6
  <2>. QED BY <2>1, <2>7 DEF e
<1>6. d + n <= h
  <2>1. CASE n = 0
    BY <1>1, <2>1
  <2>2. CASE n # 0
    <3>1. n \in 1..n /\ n \in 1..Len(q)
      BY <1>3, <2>2
    <3>2. EntryRow(q[n], b, a) = d + n /\ EntryRow(q[n], b, a) \in (d + 1)..h
      BY <1>4, <1>5, <3>1
    <3>. QED BY <1>1, <3>2
  <2>. QED BY <2>1, <2>2
<1>7. ASSUME d + n < h PROVE FALSE
  <2>. DEFINE r == d + n + 1
              y == r * a
  <2>1. r \in Nat /\ r <= h /\ d + 1 <= r
    BY <1>1, <1>3, <1>7
  <2>2. \A x \in RowNumbers(r, a) : x \in CoveredBy(q, b, a)
    <3>. SUFFICES ASSUME NEW x \in RowNumbers(r, a) PROVE x \in CoveredBy(q, b, a)
      OBVIOUS
    <3>. HIDE DEF r
    <3>1. x \in Int /\ RowOf(x, a) = r
      BY <1>1, <2>1, RowNumbersIs
    <3>2. x <= h * a /\ ~(x <= d * a)
      <4>1. r <= h /\ ~(r <= d)
        BY <1>1, <2>1
      <4>2. UpToRow(x, d, a) /\ UpToRow(x, h, a)
        <5>1. d \in Int /\ h \in Int /\ x \in Int /\ a \in Nat \ {0}
          BY <1>1, <3>1
        <5>. QED BY <5>1, RowRange
      <4>. QED BY <3>1, <4>1, <4>2 DEF UpToRow
    <3>3. d * a \in Int /\ h * a \in Int
      BY <1>1
    <3>4. x \in (u + 1)..z
      <4>1. u \in Int /\ z \in Int /\ ~(x <= u) /\ x <= z
        BY <3>2, <3>3
      <4>. HIDE DEF u, z
      <4>. QED BY <3>1, <4>1
    <3>. QED BY <3>4
  <2>3. PICK k \in 1..Len(q) : y \in Covered(q[k], b, a)
    <3>1. y \in RowNumbers(r, a)
      <4>1. y \in Int /\ RowNumbers(r, a) = (y - a + 1)..y
        <5>. HIDE DEF r
        <5>. QED BY <1>1, <2>1, RowNumbersIs
      <4>. HIDE DEF y
      <4>. QED BY <1>1, <4>1
    <3>2. y \in CoveredBy(q, b, a)
      BY <2>2, <3>1
    <3>. QED BY <3>2, InCovered
  <2>. HIDE DEF y
  <2>4. EntryRow(q[k], b, a) = r
    <3>1. EntryOK(q[k], b, a, c, vs)
      BY <1>5
    <3>2. RowOf(y, a) = EntryRow(q[k], b, a)
      BY <2>3, <3>1, EntryFacts
    <3>3. RowOf(y, a) = r
      <4>. HIDE DEF r
      <4>1. r * a - a < r * a /\ (r - 1) * a = r * a - a /\ r * a \in Int
        BY <1>1, <2>1
      <4>. QED BY <1>1, <2>1, <4>1, RowIs DEF y
    <3>. QED BY <3>2, <3>3
  <2>5. k = n + 1
    <3>1. k \notin 1..n
      <4>. SUFFICES ASSUME k \in 1..n PROVE FALSE
        OBVIOUS
      <4>1. EntryRow(q[k], b, a) = d + k
        BY <1>4
      <4>. QED BY <1>1, <1>3, <2>4, <4>1
    <3>2. k > n
      BY <1>1, <1>3, <3>1
    <3>3. CASE k > n + 1
      <4>1. n + 1 \in 1..Len(q) /\ n + 1 < k
        BY <1>1, <1>3, <3>3
      <4>2. EntryRow(q[n + 1], b, a) < r
        BY <2>4, <4>1 DEF QueueOK
      <4>3. EntryRow(q[n + 1], b, a) > d + n
        <5>1. CASE n = 0
          <6>1. EntryRow(q[n + 1], b, a) \in (d + 1)..h
            BY <1>5, <4>1
          <6>. QED BY <1>1, <5>1, <6>1
        <5>2. CASE n # 0
          <6>1. n \in 1..n /\ n \in 1..Len(q) /\ n < n + 1
            BY <1>3, <5>2
          <6>2. EntryRow(q[n], b, a) < EntryRow(q[n + 1], b, a)
            BY <4>1, <6>1 DEF QueueOK
          <6>3. EntryRow(q[n], b, a) = d + n
            BY <1>4, <6>1
          <6>4. EntryRow(q[n + 1], b, a) \in (d + 1)..h
            BY <1>5, <4>1
          <6>. QED BY <1>1, <6>2, <6>3, <6>4
        <5>. QED BY <5>1, <5>2
      <4>4. EntryRow(q[n + 1], b, a) \in (d + 1)..h
        BY <1>5, <4>1
      <4>. QED BY <1>1, <1>3, <4>2, <4>3, <4>4, SMTT(30)
    <3>. QED BY <1>1, <1>3, <3>2, <3>3
  <2>6. Covered(q[k], b, a) = RowNumbers(d + k, a)
    <3>1. r = d + k
      BY <1>1, <1>3, <2>5
    <3>2. Covered(q[k], b, a) \subseteq RowNumbers(r, a)
      BY <1>5, <2>4, EntryFacts
    <3>3. ASSUME NEW x \in RowNumbers(r, a) PROVE x \in Covered(q[k], b, a)
      <4>1. PICK j \in 1..Len(q) : x \in Covered(q[j], b, a)
        BY <2>2, InCovered
      <4>2. EntryRow(q[j], b, a) = RowOf(x, a)
        BY <1>5, <4>1, EntryFacts
      <4>3. RowOf(x, a) = r
        <5>. HIDE DEF r
        <5>. QED BY <1>1, <2>1, RowNumbersIs
      <4>4. j = k
        <5>. HIDE DEF r
        <5>1. EntryRow(q[j], b, a) = EntryRow(q[k], b, a) /\ EntryRow(q[k], b, a) \in Nat
          BY <2>1, <2>4, <4>2, <4>3
        <5>2. ~(j < k) /\ ~(k < j)
          BY <5>1 DEF QueueOK
        <5>. QED BY <5>2
      <4>. QED BY <4>1, <4>4
    <3>. QED BY <3>1, <3>2, <3>3
  <2>7. IsReady(q, k, b + d * a, a)
    BY <1>1, <2>6, FullEntryReady
  <2>8. n # Len(q)
    BY <1>1, <1>3, <2>5
  <2>. QED BY <1>2, <2>5, <2>7, <2>8
<1>. QED BY <1>1, <1>3, <1>6, <1>7
=============================================================================
