--------------------------- MODULE FiniteInduction ---------------------------
(***************************************************************************)
(* Facts the proofs of the components share: induction on numbers and on   *)
(* finite sets, and what follows from it for sums and concatenations.      *)
(*                                                                         *)
(* An induction is stated for the set of the cases that hold, not for a    *)
(* predicate.  It rests on well-founded orders having minimal elements.    *)
(***************************************************************************)
EXTENDS Integers, Sequences, FiniteSets, SequencesExt, FiniteSetTheorems,
        SequenceTheorems, WellFoundedInduction, TLAPS

(* A set of natural numbers has a least element. *)
LEMMA LeastElement ==
  ASSUME NEW T \in SUBSET Nat, T # {}
  PROVE  \E n \in T : \A m \in T : n <= m
<1>1. PICK n \in T : \A m \in T : ~(<<m, n>> \in OpToRel(<, Nat))
  BY NatLessThanWellFounded, WFMin
<1>2. \A m \in T : ~(m < n)
  BY <1>1 DEF OpToRel
<1>. QED BY <1>2

(* Induction on the numbers from 0 to n. *)
LEMMA IntervalInduction ==
  ASSUME NEW n \in Nat, NEW T, 0 \in T,
         \A k \in 0..(n - 1) : k \in T => k + 1 \in T
  PROVE  0..n \subseteq T
<1>. SUFFICES ASSUME (0..n) \ T # {} PROVE FALSE
  OBVIOUS
<1>1. PICK k \in (0..n) \ T : \A m \in (0..n) \ T : k <= m
  <2>1. (0..n) \ T \in SUBSET Nat
    OBVIOUS
  <2>. QED BY <2>1, LeastElement
<1>2. k - 1 \in 0..(n - 1) /\ k = (k - 1) + 1 /\ ~(k <= k - 1)
  BY <1>1
<1>3. k - 1 \in T
  BY <1>1, <1>2
<1>. QED BY <1>1, <1>2, <1>3

LEMMA SubsetOrdering ==
  ASSUME NEW S, IsFiniteSet(S)
  PROVE  IsWellFoundedOn(StrictSubsetOrdering(S), SUBSET S)
BY FS_StrictSubsetOrderingWellFounded, FS_FiniteSubsetsOfFinite

(* Induction on the subsets of a finite set: what holds for a set when it *)
(* holds for all smaller ones holds for all.                              *)
LEMMA SubsetInduction ==
  ASSUME NEW S, IsFiniteSet(S), NEW T,
         \A U \in SUBSET S :
           (\A V \in SUBSET U : V # U => V \in T) => U \in T
  PROVE  SUBSET S \subseteq T
<1>. DEFINE Bad == (SUBSET S) \ T
<1>. SUFFICES ASSUME Bad # {} PROVE FALSE
  OBVIOUS
<1>1. IsWellFoundedOn(StrictSubsetOrdering(S), SUBSET S)
  BY SubsetOrdering
<1>2. PICK U \in Bad : \A V \in Bad : ~(<<V, U>> \in StrictSubsetOrdering(S))
  <2>1. Bad \subseteq SUBSET S
    OBVIOUS
  <2>. HIDE DEF Bad
  <2>. QED BY <1>1, <2>1, WFMin
<1>3. \A V \in SUBSET U : V # U => V \in T
  BY <1>2 DEF StrictSubsetOrdering
<1>. QED BY <1>2, <1>3

(* A finite set of integers has a greatest element. *)
LEMMA GreatestElement ==
  ASSUME NEW S \in SUBSET Int, IsFiniteSet(S), S # {}
  PROVE  \E n \in S : \A m \in S : m <= n
<1>. DEFINE T == {s \in SUBSET S : s # {} => \E n \in s : \A m \in s : m <= n}
<1>1. ASSUME NEW U \in SUBSET S, \A V \in SUBSET U : V # U => V \in T, U # {}
      PROVE  \E n \in U : \A m \in U : m <= n
  <2>1. PICK x : x \in U
    BY <1>1
  <2>2. CASE U \ {x} = {}
    BY <2>1, <2>2
  <2>3. CASE U \ {x} # {}
    <3>1. U \ {x} \in T
      BY <1>1, <2>1
    <3>2. PICK n \in U \ {x} : \A m \in U \ {x} : m <= n
      BY <2>3, <3>1
    <3>. QED BY <2>1, <3>2
  <2>. QED BY <2>2, <2>3
<1>2. SUBSET S \subseteq T
  <2>1. \A U \in SUBSET S : (\A V \in SUBSET U : V # U => V \in T) => U \in T
    BY <1>1
  <2>. HIDE DEF T
  <2>. QED BY <2>1, SubsetInduction
<1>. QED BY <1>2

LEMMA SegmentSize ==
  ASSUME NEW n \in Nat
  PROVE  IsFiniteSet(1..n) /\ Cardinality(1..n) = n
BY FS_Interval

(* A set of positions that has all positions before each of its own. *)
LEMMA InitialSegment ==
  ASSUME NEW n \in Nat, NEW K \in SUBSET (1..n),
         \A k \in K : \A j \in 1..k : j \in K
  PROVE  Cardinality(K) \in 0..n /\ K = 1..Cardinality(K)
<1>. DEFINE T == {m \in Nat : K \subseteq 1..m}
<1>1. PICK m \in T : \A k \in T : m <= k
  <2>1. n \in T
    OBVIOUS
  <2>2. T \in SUBSET Nat
    OBVIOUS
  <2>. HIDE DEF T
  <2>. QED BY <2>1, <2>2, LeastElement
<1>2. m \in Nat /\ K \subseteq 1..m /\ m <= n
  BY <1>1
<1>3. m \in K \/ m = 0
  <2>. SUFFICES ASSUME m \notin K, m # 0 PROVE FALSE
    OBVIOUS
  <2>1. m - 1 \in T
    BY <1>2
  <2>. QED BY <1>1, <1>2, <2>1
<1>4. K = 1..m
  <2>1. CASE m = 0
    BY <1>2, <2>1
  <2>2. CASE m \in K
    BY <1>2, <2>2
  <2>. QED BY <1>3, <2>1, <2>2
<1>5. Cardinality(1..m) = m
  BY <1>2, FS_Interval
<1>. QED BY <1>2, <1>4, <1>5

-----------------------------------------------------------------------------
(* Sums.  The sum of no values, the next value added, and the type. *)
Picked(s) == CHOOSE x \in s : TRUE

SumsTo(f, S, g) ==
  g = [s \in SUBSET S |->
         IF s = {} THEN 0 ELSE f[Picked(s)] + g[s \ {Picked(s)}]]

LEMMA SumIsChosen ==
  ASSUME NEW f, NEW S
  PROVE  SumFunctionOnSet(f, S) = (CHOOSE g : SumsTo(f, S, g))[S]
BY DEF SumFunctionOnSet, FoldFunctionOnSet, MapThenFoldSet, SumsTo, Picked

Integral(f, S) == \A x \in S : f[x] \in Int

LEMMA PickedIn ==
  ASSUME NEW s, s # {}
  PROVE  Picked(s) \in s
BY DEF Picked

(* The partial sums of all subsets with at most n elements. *)
Small(S, n) == {s \in SUBSET S : Cardinality(s) <= n}

SumsSmall(f, S, n, g) ==
  \A s \in Small(S, n) :
    g[s] = IF s = {} THEN 0 ELSE f[Picked(s)] + g[s \ {Picked(s)}]

LEMMA SmallerIsSmall ==
  ASSUME NEW S, IsFiniteSet(S), NEW n \in Nat, NEW s \in Small(S, n), s # {}
  PROVE  /\ Picked(s) \in s /\ Picked(s) \in S
         /\ s \ {Picked(s)} \in Small(S, n - 1)
         /\ s \ {Picked(s)} \in Small(S, n)
<1>1. Picked(s) \in s /\ s \in SUBSET S /\ IsFiniteSet(s) /\ Cardinality(s) <= n
  BY PickedIn, FS_Subset DEF Small
<1>2. Cardinality(s) \in Nat /\ Cardinality(s \ {Picked(s)}) = Cardinality(s) - 1
  BY <1>1, FS_CardinalityType, FS_RemoveElement
<1>. QED BY <1>1, <1>2 DEF Small

LEMMA SmallSumsExist ==
  ASSUME NEW S, IsFiniteSet(S), NEW f, Integral(f, S), NEW n \in Nat
  PROVE  \E g \in [Small(S, n) -> Int] : SumsSmall(f, S, n, g)
<1>. DEFINE Holds(k) == \E g \in [Small(S, k) -> Int] : SumsSmall(f, S, k, g)
            T == {k \in Nat : Holds(k)}
<1>1. 0 \in T
  <2>1. Small(S, 0) = {{}}
    <3>1. ASSUME NEW s \in Small(S, 0) PROVE s = {}
      <4>1. IsFiniteSet(s) /\ Cardinality(s) <= 0
        BY FS_Subset DEF Small
      <4>. QED BY <4>1, FS_EmptySet, FS_CardinalityType
    <3>2. {} \in Small(S, 0)
      BY FS_EmptySet DEF Small
    <3>. QED BY <3>1, <3>2
  <2>2. [s \in Small(S, 0) |-> 0] \in [Small(S, 0) -> Int]
    OBVIOUS
  <2>3. SumsSmall(f, S, 0, [s \in Small(S, 0) |-> 0])
    BY <2>1 DEF SumsSmall
  <2>. QED BY <2>2, <2>3
<1>2. ASSUME NEW k \in Nat, Holds(k)
      PROVE  Holds(k + 1)
  <2>1. PICK g \in [Small(S, k) -> Int] : SumsSmall(f, S, k, g)
    BY <1>2
  <2>. DEFINE h == [s \in Small(S, k + 1) |->
                      IF s = {} THEN 0 ELSE f[Picked(s)] + g[s \ {Picked(s)}]]
  <2>2. \A s \in Small(S, k) : s \in Small(S, k + 1)
    <3>1. \A s \in Small(S, k) : IsFiniteSet(s) /\ Cardinality(s) \in Nat
      BY FS_Subset, FS_CardinalityType DEF Small
    <3>. QED BY <3>1 DEF Small
  <2>3. \A s \in Small(S, k + 1) : s # {} =>
          Picked(s) \in S /\ s \ {Picked(s)} \in Small(S, k)
    BY SmallerIsSmall
  <2>4. h \in [Small(S, k + 1) -> Int]
    BY <2>3 DEF Integral
  <2>5. \A s \in Small(S, k) : h[s] = g[s]
    BY <2>1, <2>2 DEF SumsSmall
  <2>6. SumsSmall(f, S, k + 1, h)
    BY <2>3, <2>5 DEF SumsSmall
  <2>. QED BY <2>4, <2>6
<1>3. \A k \in 0..(n - 1) : k \in T => k + 1 \in T
  BY <1>2
<1>4. 0..n \subseteq T
  <2>. HIDE DEF T
  <2>. QED BY <1>1, <1>3, IntervalInduction
<1>. QED BY <1>4

LEMMA SumExists ==
  ASSUME NEW S, IsFiniteSet(S), NEW f, Integral(f, S)
  PROVE  \E g \in [SUBSET S -> Int] : SumsTo(f, S, g)
<1>. DEFINE n == Cardinality(S)
<1>1. n \in Nat /\ Small(S, n) = SUBSET S
  BY FS_CardinalityType, FS_Subset DEF Small
<1>2. PICK g \in [Small(S, n) -> Int] : SumsSmall(f, S, n, g)
  BY <1>1, SmallSumsExist
<1>. HIDE DEF n
<1>3. g \in [SUBSET S -> Int]
  BY <1>1, <1>2
<1>4. g = [s \in SUBSET S |->
             IF s = {} THEN 0 ELSE f[Picked(s)] + g[s \ {Picked(s)}]]
  BY <1>1, <1>2, <1>3 DEF SumsSmall
<1>. QED BY <1>3, <1>4 DEF SumsTo

LEMMA SumIsUnique ==
  ASSUME NEW S, IsFiniteSet(S), NEW f,
         NEW g, SumsTo(f, S, g), NEW h, SumsTo(f, S, h)
  PROVE  g[S] = h[S]
<1>. DEFINE T == {s \in SUBSET S : g[s] = h[s]}
<1>1. ASSUME NEW U \in SUBSET S, \A V \in SUBSET U : V # U => V \in T
      PROVE  U \in T
  <2>1. CASE U = {}
    BY <2>1 DEF SumsTo
  <2>2. CASE U # {}
    <3>1. Picked(U) \in U
      BY <2>2, PickedIn
    <3>2. U \ {Picked(U)} \in T
      BY <1>1, <3>1
    <3>3. /\ g[U] = f[Picked(U)] + g[U \ {Picked(U)}]
          /\ h[U] = f[Picked(U)] + h[U \ {Picked(U)}]
      BY <2>2 DEF SumsTo
    <3>. QED BY <3>2, <3>3
  <2>. QED BY <2>1, <2>2
<1>2. SUBSET S \subseteq T
  <2>. HIDE DEF T
  <2>. QED BY <1>1, SubsetInduction
<1>. QED BY <1>2

LEMMA SumChosen ==
  ASSUME NEW S, IsFiniteSet(S), NEW f, Integral(f, S)
  PROVE  /\ SumsTo(f, S, CHOOSE g : SumsTo(f, S, g))
         /\ \A g : SumsTo(f, S, g) => g[S] = SumFunctionOnSet(f, S)
<1>1. SumsTo(f, S, CHOOSE g : SumsTo(f, S, g))
  BY SumExists
<1>2. SumFunctionOnSet(f, S) = (CHOOSE g : SumsTo(f, S, g))[S]
  BY SumIsChosen
<1>. QED BY <1>1, <1>2, SumIsUnique

LEMMA SumInt ==
  ASSUME NEW S, IsFiniteSet(S), NEW f, Integral(f, S)
  PROVE  SumFunctionOnSet(f, S) \in Int
<1>1. PICK g \in [SUBSET S -> Int] : SumsTo(f, S, g)
  BY SumExists
<1>2. g[S] = SumFunctionOnSet(f, S)
  BY <1>1, SumChosen
<1>. QED BY <1>1, <1>2

LEMMA SumEmpty ==
  ASSUME NEW f
  PROVE  SumFunctionOnSet(f, {}) = 0
<1>1. IsFiniteSet({}) /\ Integral(f, {})
  BY FS_EmptySet DEF Integral
<1>2. SumsTo(f, {}, CHOOSE g : SumsTo(f, {}, g))
  BY <1>1, SumChosen
<1>. QED BY <1>2, SumIsChosen DEF SumsTo

(* A solution for a set is one for its subsets. *)
LEMMA SumOfSubset ==
  ASSUME NEW S, IsFiniteSet(S), NEW f, Integral(f, S),
         NEW g, SumsTo(f, S, g), NEW U \in SUBSET S
  PROVE  SumFunctionOnSet(f, U) = g[U]
<1>. DEFINE h == [s \in SUBSET U |-> g[s]]
<1>1. IsFiniteSet(U) /\ Integral(f, U)
  BY FS_Subset DEF Integral
<1>2. ASSUME NEW s \in SUBSET U, s # {}
      PROVE  g[s] = f[Picked(s)] + h[s \ {Picked(s)}]
  <2>1. g[s] = f[Picked(s)] + g[s \ {Picked(s)}]
    BY <1>2 DEF SumsTo
  <2>2. s \ {Picked(s)} \in SUBSET U
    BY <1>2
  <2>. QED BY <2>1, <2>2
<1>3. g[{}] = 0
  BY DEF SumsTo
<1>4. SumsTo(f, U, h)
  BY <1>2, <1>3 DEF SumsTo
<1>5. h[U] = SumFunctionOnSet(f, U)
  <2>. HIDE DEF h
  <2>. QED BY <1>1, <1>4, SumChosen
<1>. QED BY <1>5

LEMMA SumPicked ==
  ASSUME NEW S, IsFiniteSet(S), S # {}, NEW f, Integral(f, S)
  PROVE  SumFunctionOnSet(f, S)
           = f[Picked(S)] + SumFunctionOnSet(f, S \ {Picked(S)})
<1>1. PICK g \in [SUBSET S -> Int] : SumsTo(f, S, g)
  BY SumExists
<1>2. g[S] = f[Picked(S)] + g[S \ {Picked(S)}]
  BY <1>1 DEF SumsTo
<1>3. g[S] = SumFunctionOnSet(f, S)
  BY <1>1, SumOfSubset
<1>4. g[S \ {Picked(S)}] = SumFunctionOnSet(f, S \ {Picked(S)})
  BY <1>1, SumOfSubset
<1>. QED BY <1>2, <1>3, <1>4

(* The sum does not depend on the order of the values. *)
LEMMA SumRemove ==
  ASSUME NEW S, IsFiniteSet(S), NEW f, Integral(f, S), NEW x \in S
  PROVE  SumFunctionOnSet(f, S) = f[x] + SumFunctionOnSet(f, S \ {x})
<1>. DEFINE Total(s) == SumFunctionOnSet(f, s)
            T == {s \in SUBSET S : \A y \in s : Total(s) = f[y] + Total(s \ {y})}
<1>0. \A s \in SUBSET S :
        /\ IsFiniteSet(s) /\ Integral(f, s) /\ Total(s) \in Int
        /\ s # {} => Total(s) = f[Picked(s)] + Total(s \ {Picked(s)})
  BY FS_Subset, SumInt, SumPicked DEF Integral
<1>. HIDE DEF Total
<1>1. ASSUME NEW U \in SUBSET S, \A V \in SUBSET U : V # U => V \in T,
             NEW y \in U
      PROVE  Total(U) = f[y] + Total(U \ {y})
  <2>. DEFINE p == Picked(U)
              rest == (U \ {p}) \ {y}
  <2>1. p \in U /\ Total(U) = f[p] + Total(U \ {p})
    BY <1>0, PickedIn
  <2>2. CASE p = y
    BY <2>1, <2>2
  <2>3. CASE p # y
    <3>1. U \ {p} \in T /\ U \ {y} \in T
      BY <1>1, <2>1
    <3>2. y \in U \ {p} /\ p \in U \ {y} /\ rest = (U \ {y}) \ {p}
      BY <2>1, <2>3
    <3>3. Total(U \ {p}) = f[y] + Total(rest)
      BY <3>1, <3>2
    <3>4. Total(U \ {y}) = f[p] + Total(rest)
      BY <3>1, <3>2
    <3>5. f[y] \in Int /\ f[p] \in Int /\ Total(rest) \in Int
      BY <1>0, <2>1 DEF Integral
    <3>. QED BY <2>1, <3>3, <3>4, <3>5
  <2>. QED BY <2>2, <2>3
<1>2. SUBSET S \subseteq T
  <2>1. \A U \in SUBSET S : (\A V \in SUBSET U : V # U => V \in T) => U \in T
    BY <1>1
  <2>. HIDE DEF T
  <2>. QED BY <2>1, SubsetInduction
<1>3. S \in T
  BY <1>2
<1>. QED BY <1>3 DEF Total

(* It does depend on nothing but the values. *)
LEMMA SumEqual ==
  ASSUME NEW S, IsFiniteSet(S), NEW f, NEW g, Integral(f, S),
         \A x \in S : f[x] = g[x]
  PROVE  SumFunctionOnSet(f, S) = SumFunctionOnSet(g, S)
<1>1. PICK h \in [SUBSET S -> Int] : SumsTo(f, S, h)
  BY SumExists
<1>2. ASSUME NEW s \in SUBSET S, s # {} PROVE f[Picked(s)] = g[Picked(s)]
  <2>1. Picked(s) \in S
    BY <1>2, PickedIn
  <2>. QED BY <2>1
<1>3. SumsTo(g, S, h)
  BY <1>1, <1>2 DEF SumsTo
<1>4. Integral(g, S)
  BY DEF Integral
<1>. QED BY <1>1, <1>3, <1>4, SumOfSubset

LEMMA SumNat ==
  ASSUME NEW S, IsFiniteSet(S), NEW f, \A x \in S : f[x] \in Nat
  PROVE  SumFunctionOnSet(f, S) \in Nat
<1>. DEFINE T == {s \in SUBSET S : SumFunctionOnSet(f, s) \in Nat}
<1>1. ASSUME NEW U \in SUBSET S, \A V \in SUBSET U : V # U => V \in T
      PROVE  U \in T
  <2>1. CASE U = {}
    BY <2>1, SumEmpty
  <2>2. CASE U # {}
    <3>1. PICK x : x \in U
      BY <2>2
    <3>2. IsFiniteSet(U) /\ Integral(f, U)
      BY FS_Subset DEF Integral
    <3>3. SumFunctionOnSet(f, U) = f[x] + SumFunctionOnSet(f, U \ {x})
      BY <3>1, <3>2, SumRemove
    <3>4. U \ {x} \in T /\ f[x] \in Nat
      BY <1>1, <3>1
    <3>. QED BY <3>3, <3>4
  <2>. QED BY <2>1, <2>2
<1>2. SUBSET S \subseteq T
  <2>. HIDE DEF T
  <2>. QED BY <1>1, SubsetInduction
<1>. QED BY <1>2

(* Nothing adds up to nothing. *)
LEMMA SumZero ==
  ASSUME NEW S, IsFiniteSet(S), NEW f, \A x \in S : f[x] = 0
  PROVE  SumFunctionOnSet(f, S) = 0
<1>. DEFINE T == {s \in SUBSET S : SumFunctionOnSet(f, s) = 0}
<1>1. ASSUME NEW U \in SUBSET S, \A V \in SUBSET U : V # U => V \in T
      PROVE  U \in T
  <2>1. CASE U = {}
    BY <2>1, SumEmpty
  <2>2. CASE U # {}
    <3>1. PICK x : x \in U
      BY <2>2
    <3>2. IsFiniteSet(U) /\ Integral(f, U)
      BY FS_Subset DEF Integral
    <3>3. SumFunctionOnSet(f, U) = f[x] + SumFunctionOnSet(f, U \ {x})
      BY <3>1, <3>2, SumRemove
    <3>4. U \ {x} \in T /\ f[x] = 0
      BY <1>1, <3>1
    <3>. QED BY <3>3, <3>4
  <2>. QED BY <2>1, <2>2
<1>2. SUBSET S \subseteq T
  <2>. HIDE DEF T
  <2>. QED BY <1>1, SubsetInduction
<1>. QED BY <1>2

(* Taking in one more value. *)
LEMMA SumAdd ==
  ASSUME NEW S, IsFiniteSet(S), NEW x, x \notin S, NEW f, Integral(f, S \cup {x})
  PROVE  SumFunctionOnSet(f, S \cup {x}) = f[x] + SumFunctionOnSet(f, S)
<1>1. IsFiniteSet(S \cup {x}) /\ (S \cup {x}) \ {x} = S
  BY FS_AddElement
<1>. QED BY <1>1, SumRemove

(* The sums over two sets without a common element add up. *)
LEMMA SumUnion ==
  ASSUME NEW S, IsFiniteSet(S), NEW R, IsFiniteSet(R), (S \cap R) = {},
         NEW f, Integral(f, S \cup R)
  PROVE  SumFunctionOnSet(f, S \cup R) = SumFunctionOnSet(f, S) + SumFunctionOnSet(f, R)
<1>. DEFINE Total(s) == SumFunctionOnSet(f, s)
            T == {s \in SUBSET R : Total(S \cup s) = Total(S) + Total(s)}
<1>1. ASSUME NEW U \in SUBSET R, \A V \in SUBSET U : V # U => V \in T
      PROVE  U \in T
  <2>0. IsFiniteSet(U) /\ IsFiniteSet(S \cup U) /\ Integral(f, U) /\ Integral(f, S \cup U)
        /\ Integral(f, S)
    BY FS_Subset, FS_Union DEF Integral
  <2>1. CASE U = {}
    <3>1. Total(S) \in Int /\ Total({}) = 0
      BY <2>0, SumInt, SumEmpty
    <3>2. S \cup U = S
      BY <2>1
    <3>. HIDE DEF Total
    <3>. QED BY <2>1, <3>1, <3>2
  <2>2. CASE U # {}
    <3>1. PICK x : x \in U
      BY <2>2
    <3>2. U \ {x} \in SUBSET U /\ U \ {x} # U
      BY <3>1
    <3>3. U \ {x} \in T
      BY <1>1, <3>2
    <3>4. Total(S \cup (U \ {x})) = Total(S) + Total(U \ {x})
      BY <3>3
    <3>5. Total(U) = f[x] + Total(U \ {x})
      BY <2>0, <3>1, SumRemove
    <3>6. (S \cup U) \ {x} = S \cup (U \ {x})
      BY <3>1
    <3>7. x \in S \cup U
      BY <3>1
    <3>8. Total(S \cup U) = f[x] + Total((S \cup U) \ {x})
      BY <2>0, <3>7, SumRemove
    <3>9. Total(S) \in Int /\ f[x] \in Int
      BY <2>0, <3>1, SumInt DEF Integral
    <3>10. IsFiniteSet(U \ {x}) /\ Integral(f, U \ {x})
      BY <2>0, FS_Subset DEF Integral
    <3>11. Total(U \ {x}) \in Int
      BY <3>10, SumInt
    <3>12. Total(S \cup U) = f[x] + (Total(S) + Total(U \ {x}))
      BY <3>4, <3>6, <3>8
    <3>13. \A a, b, c \in Int : a + (b + c) = b + (a + c)
      OBVIOUS
    <3>14. Total(S \cup U) = Total(S) + (f[x] + Total(U \ {x}))
      <4>. HIDE DEF Total
      <4>. QED BY <3>9, <3>11, <3>12, <3>13
    <3>. QED BY <3>5, <3>14
  <2>. QED BY <2>1, <2>2
<1>2. SUBSET R \subseteq T
  <2>. HIDE DEF T
  <2>. QED BY <1>1, SubsetInduction
<1>3. R \in T
  BY <1>2
<1>. QED BY <1>3

(* One value grows by d. *)
LEMMA SumUpdate ==
  ASSUME NEW S, IsFiniteSet(S), NEW f, Integral(f, S), NEW x \in S, NEW d \in Int,
         NEW g, g[x] = f[x] + d, \A y \in S : y # x => g[y] = f[y]
  PROVE  SumFunctionOnSet(g, S) = SumFunctionOnSet(f, S) + d
<1>1. f[x] \in Int /\ g[x] \in Int /\ IsFiniteSet(S \ {x})
      /\ Integral(f, S \ {x}) /\ Integral(g, S)
  BY FS_Subset DEF Integral
<1>2. SumFunctionOnSet(f, S) = f[x] + SumFunctionOnSet(f, S \ {x})
  BY SumRemove
<1>3. SumFunctionOnSet(g, S) = g[x] + SumFunctionOnSet(g, S \ {x})
  BY <1>1, SumRemove
<1>4. SumFunctionOnSet(f, S \ {x}) = SumFunctionOnSet(g, S \ {x})
  <2>1. \A y \in S \ {x} : f[y] = g[y]
    OBVIOUS
  <2>. QED BY <1>1, <2>1, SumEqual
<1>5. SumFunctionOnSet(f, S \ {x}) \in Int
  BY <1>1, SumInt
<1>. QED BY <1>1, <1>2, <1>3, <1>4, <1>5

-----------------------------------------------------------------------------
(* A sequence of sequences is concatenated from the left. *)
FlattensTo(seqs, n, g) ==
  g = [i \in 1..n |-> IF i = 1 THEN seqs[i] ELSE g[i - 1] \o seqs[i]]

LEMMA FlattenExists ==
  ASSUME NEW S, NEW seqs \in Seq(Seq(S)), NEW n \in 0..Len(seqs)
  PROVE  \E g \in [1..n -> Seq(S)] : FlattensTo(seqs, n, g)
<1>. DEFINE T == {k \in 0..n : \E g \in [1..k -> Seq(S)] : FlattensTo(seqs, k, g)}
<1>1. \A k \in 1..n : seqs[k] \in Seq(S)
  OBVIOUS
<1>2. 0 \in T
  <2>1. [i \in 1..0 |-> <<>>] \in [1..0 -> Seq(S)]
    BY EmptySeq
  <2>2. FlattensTo(seqs, 0, [i \in 1..0 |-> <<>>])
    BY DEF FlattensTo
  <2>3. 0 \in 0..n
    OBVIOUS
  <2>. QED BY <2>1, <2>2, <2>3
<1>3. ASSUME NEW k \in 0..(n - 1), k \in T
      PROVE  k + 1 \in T
  <2>1. PICK g \in [1..k -> Seq(S)] : FlattensTo(seqs, k, g)
    BY <1>3
  <2>. DEFINE next == IF k = 0 THEN seqs[1] ELSE g[k] \o seqs[k + 1]
              h == [i \in 1..(k + 1) |-> IF i <= k THEN g[i] ELSE next]
  <2>2. next \in Seq(S)
    <3>1. CASE k = 0
      BY <1>1, <3>1
    <3>2. CASE k # 0
      <4>1. k \in 1..k /\ k + 1 \in 1..n
        BY <1>3, <3>2
      <4>2. g[k] \in Seq(S) /\ seqs[k + 1] \in Seq(S)
        BY <1>1, <2>1, <4>1
      <4>. QED BY <3>2, <4>2, ConcatProperties
    <3>. QED BY <3>1, <3>2
  <2>. HIDE DEF next
  <2>3. h \in [1..(k + 1) -> Seq(S)]
    BY <2>2
  <2>4. ASSUME NEW i \in 1..(k + 1)
        PROVE  h[i] = IF i = 1 THEN seqs[i] ELSE h[i - 1] \o seqs[i]
    <3>1. CASE i <= k
      <4>1. i \in 1..k /\ h[i] = g[i]
        BY <3>1
      <4>2. g[i] = IF i = 1 THEN seqs[i] ELSE g[i - 1] \o seqs[i]
        BY <2>1, <4>1 DEF FlattensTo
      <4>3. i # 1 => i - 1 \in 1..k /\ h[i - 1] = g[i - 1]
        BY <4>1
      <4>. QED BY <4>1, <4>2, <4>3
    <3>2. CASE i = k + 1
      <4>1. h[i] = next
        BY <3>2
      <4>2. k # 0 => h[i - 1] = g[k] /\ i # 1
        BY <3>2
      <4>. QED BY <3>2, <4>1, <4>2 DEF next
    <3>. QED BY <3>1, <3>2
  <2>5. FlattensTo(seqs, k + 1, h)
    <3>. HIDE DEF h
    <3>. QED BY <2>3, <2>4 DEF FlattensTo
  <2>. QED BY <2>3, <2>5
<1>4. 0..n \subseteq T
  <2>1. n \in Nat
    OBVIOUS
  <2>. HIDE DEF T
  <2>. QED BY <1>2, <1>3, <2>1, IntervalInduction
<1>. QED BY <1>4

LEMMA FlattenSeqType ==
  ASSUME NEW S, NEW seqs \in Seq(Seq(S))
  PROVE  FlattenSeq(seqs) \in Seq(S)
<1>. DEFINE n == Len(seqs)
            flatten == CHOOSE g : FlattensTo(seqs, n, g)
<1>1. n \in Nat
  OBVIOUS
<1>2. CASE n = 0
  BY <1>2, EmptySeq DEF FlattenSeq
<1>3. CASE n # 0
  <2>1. FlattenSeq(seqs) = flatten[n]
    BY <1>3 DEF FlattenSeq, FlattensTo
  <2>2. FlattensTo(seqs, n, flatten)
    BY <1>1, FlattenExists
  <2>. HIDE DEF flatten
  <2>. DEFINE T == {k \in 0..n : k > 0 => flatten[k] \in Seq(S)}
  <2>3. 0 \in T
    OBVIOUS
  <2>4. ASSUME NEW k \in 0..(n - 1), k \in T
        PROVE  k + 1 \in T
    <3>1. k + 1 \in 1..n /\ k + 1 - 1 = k /\ k \in Nat
      BY <1>1
    <3>4. seqs[k + 1] \in Seq(S)
      BY <3>1
    <3>5. flatten[k + 1] = IF k + 1 = 1 THEN seqs[k + 1]
                           ELSE flatten[k] \o seqs[k + 1]
      <4>1. \A i \in 1..n :
              flatten[i] = IF i = 1 THEN seqs[i] ELSE flatten[i - 1] \o seqs[i]
        <5>. HIDE DEF n
        <5>. QED BY <2>2 DEF FlattensTo
      <4>2. flatten[k + 1] = IF k + 1 = 1 THEN seqs[k + 1]
                             ELSE flatten[k + 1 - 1] \o seqs[k + 1]
        <5>. HIDE DEF n
        <5>. QED BY <3>1, <4>1
      <4>. QED BY <3>1, <4>2
    <3>2. CASE k = 0
      BY <3>1, <3>2, <3>4, <3>5
    <3>3. CASE k # 0
      <4>1. flatten[k] \in Seq(S)
        BY <2>4, <3>3
      <4>2. flatten[k] \o seqs[k + 1] \in Seq(S)
        BY <3>4, <4>1, ConcatProperties
      <4>3. flatten[k + 1] \in Seq(S)
        BY <3>1, <3>3, <3>5, <4>2
      <4>. QED BY <3>1, <4>3
    <3>. QED BY <3>2, <3>3
  <2>5. 0..n \subseteq T
    <3>. HIDE DEF T
    <3>. QED BY <1>1, <2>3, <2>4, IntervalInduction
  <2>. QED BY <1>1, <1>3, <2>1, <2>5
<1>. QED BY <1>2, <1>3

LEMMA FlattenSingle ==
  ASSUME NEW S, NEW s \in Seq(S)
  PROVE  FlattenSeq(<<s>>) = s
<1>1. <<s>> \in Seq(Seq(S)) /\ Len(<<s>>) = 1
  OBVIOUS
<1>2. FlattensTo(<<s>>, 1, CHOOSE g : FlattensTo(<<s>>, 1, g))
  <2>1. 1 \in 0..Len(<<s>>)
    BY <1>1
  <2>2. \E g \in [1..1 -> Seq(S)] : FlattensTo(<<s>>, 1, g)
    BY <1>1, <2>1, FlattenExists
  <2>. QED BY <2>2
<1>3. FlattenSeq(<<s>>) = (CHOOSE g : FlattensTo(<<s>>, 1, g))[1]
  BY <1>1 DEF FlattenSeq, FlattensTo
<1>. QED BY <1>2, <1>3 DEF FlattensTo

-----------------------------------------------------------------------------
(* A sequence of values, each made from the one before it. *)
StepsIn(step, n, V) == step \in [1..n -> [V -> V]]

LEMMA StepByStep ==
  ASSUME NEW V, NEW v \in V, NEW n \in Nat, NEW step, StepsIn(step, n, V)
  PROVE  \E g \in [0..n -> V] :
           g[0] = v /\ \A k \in 1..n : g[k] = step[k][g[k - 1]]
<1>. DEFINE Made(k, g) == g[0] = v /\ \A j \in 1..k : g[j] = step[j][g[j - 1]]
            T == {k \in 0..n : \E g \in [0..k -> V] : Made(k, g)}
<1>1. 0 \in T
  <2>1. [k \in 0..0 |-> v] \in [0..0 -> V] /\ Made(0, [k \in 0..0 |-> v])
    OBVIOUS
  <2>2. 0 \in 0..n
    OBVIOUS
  <2>. QED BY <2>1, <2>2
<1>2. ASSUME NEW k \in 0..(n - 1), k \in T
      PROVE  k + 1 \in T
  <2>1. PICK g \in [0..k -> V] : Made(k, g)
    BY <1>2
  <2>. DEFINE next == step[k + 1][g[k]]
              h == [j \in 0..(k + 1) |-> IF j <= k THEN g[j] ELSE next]
  <2>2. k + 1 \in 1..n /\ k \in 0..k /\ k + 1 \in 0..n /\ k \in Nat
    OBVIOUS
  <2>3. next \in V
    BY <2>1, <2>2 DEF StepsIn
  <2>. HIDE DEF next
  <2>4. h \in [0..(k + 1) -> V] /\ h[0] = g[0] /\ h[k + 1] = next
    BY <2>2, <2>3
  <2>5. \A j \in 1..k : h[j] = g[j] /\ h[j - 1] = g[j - 1]
    BY <2>2
  <2>6. h[k] = g[k] /\ (k + 1) - 1 = k
    BY <2>2
  <2>7. ASSUME NEW j \in 1..(k + 1)
        PROVE  h[j] = step[j][h[j - 1]]
    <3>. HIDE DEF h
    <3>1. CASE j \in 1..k
      BY <3>1, <2>1, <2>5
    <3>2. CASE j = k + 1
      BY <3>2, <2>4, <2>6 DEF next
    <3>. QED BY <2>2, <3>1, <3>2
  <2>8. Made(k + 1, h)
    <3>. HIDE DEF h
    <3>. QED BY <2>1, <2>4, <2>7
  <2>. QED BY <2>2, <2>4, <2>8
<1>3. 0..n \subseteq T
  <2>. HIDE DEF T
  <2>. QED BY <1>1, <1>2, IntervalInduction
<1>4. n \in T
  <2>. HIDE DEF T
  <2>. QED BY <1>3
<1>5. \E g \in [0..n -> V] : Made(n, g)
  <2>. HIDE DEF Made
  <2>. QED BY <1>4
<1>. QED BY <1>5

-----------------------------------------------------------------------------
(* Division by a positive number. *)
LEMMA Division ==
  ASSUME NEW a \in Nat \ {0}, NEW x \in Int
  PROVE  /\ x \div a \in Int /\ x % a \in 0..(a - 1)
         /\ x = (x \div a) * a + (x % a)
OBVIOUS

LEMMA NextMultiple ==
  ASSUME NEW a \in Nat \ {0}, NEW p \in Int, NEW q \in Int, p < q
  PROVE  p * a + a <= q * a
OBVIOUS

LEMMA QuotientIs ==
  ASSUME NEW a \in Nat \ {0}, NEW x \in Int, NEW q \in Int,
         q * a <= x, x < q * a + a
  PROVE  x \div a = q /\ x % a = x - q * a
<1>1. x \div a \in Int /\ x % a \in 0..(a - 1) /\ x = (x \div a) * a + (x % a)
  BY Division
<1>2. ~(x \div a < q)
  BY <1>1, NextMultiple
<1>3. ~(x \div a > q)
  BY <1>1, NextMultiple
<1>. QED BY <1>1, <1>2, <1>3

LEMMA QuotientGrows ==
  ASSUME NEW a \in Nat \ {0}, NEW x \in Int, NEW y \in Int, x <= y
  PROVE  x \div a <= y \div a
<1>1. x \div a \in Int /\ x % a \in 0..(a - 1) /\ x = (x \div a) * a + (x % a)
  BY Division
<1>2. y \div a \in Int /\ y % a \in 0..(a - 1) /\ y = (y \div a) * a + (y % a)
  BY Division
<1>3. ~(y \div a < x \div a)
  BY <1>1, <1>2, NextMultiple
<1>. QED BY <1>1, <1>2, <1>3

LEMMA QuotientOfSum ==
  ASSUME NEW a \in Nat \ {0}, NEW x \in Int, NEW b \in Int, b % a = 0
  PROVE  /\ (b + x) \div a = b \div a + x \div a
         /\ (b + x) % a = x % a
<1>1. x \div a \in Int /\ x % a \in 0..(a - 1) /\ x = (x \div a) * a + (x % a)
  BY Division
<1>2. b \div a \in Int /\ b = (b \div a) * a
  BY Division
<1>. DEFINE q == b \div a + x \div a
            y == b + x
<1>3. q * a <= y /\ y < q * a + a
  BY <1>1, <1>2
<1>4. q \in Int /\ y \in Int
  BY <1>1, <1>2
<1>5. y - q * a = x % a
  BY <1>1, <1>2
<1>. HIDE DEF q, y
<1>6. y \div a = q /\ y % a = y - q * a
  BY <1>3, <1>4, QuotientIs
<1>. QED BY <1>5, <1>6 DEF q, y
=============================================================================
