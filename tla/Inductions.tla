------------------------------ MODULE Inductions ------------------------------
(***************************************************************************)
(* Sums over finite sets and folds over sequences, for the proofs about     *)
(* counters, queues and streams.  Induction is used in the form of sets: the *)
(* strict subset ordering of a finite set is well founded, so what holds of  *)
(* a set when it holds of the smaller ones is true of every finite set.      *)
(***************************************************************************)
EXTENDS Naturals, Sequences, FiniteSets, FiniteSetsExt, SequencesExt,
        FiniteSetTheorems, SequenceTheorems, WellFoundedInduction, TLAPS

(* what holds of a subset of S when it holds of the smaller ones is true of S *)
LEMMA SubsetInduction ==
  ASSUME NEW S, IsFiniteSet(S), NEW F,
         \A T \in SUBSET S : (\A U \in SUBSET T : U # T => U \in F) => T \in F
  PROVE  SUBSET S \subseteq F
<1> SUFFICES ASSUME ~(SUBSET S \subseteq F) PROVE FALSE
  OBVIOUS
<1> DEFINE Bad == (SUBSET S) \ F
<1>1. IsWellFoundedOn(StrictSubsetOrdering(S), SUBSET S)
  <2>1. FiniteSubsetsOf(S) = SUBSET S
    BY FS_FiniteSubsetsOfFinite
  <2>2. IsWellFoundedOn(StrictSubsetOrdering(S), FiniteSubsetsOf(S))
    BY FS_StrictSubsetOrderingWellFounded
  <2> QED
    BY <2>1, <2>2
<1>2. Bad # {} /\ Bad \subseteq SUBSET S
  OBVIOUS
<1>3. PICK T \in Bad : \A U \in Bad : <<U, T>> \notin StrictSubsetOrdering(S)
  <2> HIDE DEF Bad
  <2> QED
    BY <1>1, <1>2, WFMin
<1>4. ASSUME NEW U \in SUBSET T, U # T PROVE U \in F
  <2>1. <<U, T>> \in StrictSubsetOrdering(S)
    BY <1>4 DEF StrictSubsetOrdering
  <2> QED
    BY <1>3, <2>1
<1> QED
  BY <1>4

(* the same for a property that is kept when an element is added *)
LEMMA SetInduction ==
  ASSUME NEW S, IsFiniteSet(S), NEW F,
         {} \in F,
         \A T \in SUBSET S : \A x \in S \ T : T \in F => T \union {x} \in F
  PROVE  S \in F
<1>1. ASSUME NEW T \in SUBSET S, \A U \in SUBSET T : U # T => U \in F
      PROVE  T \in F
  <2>1. CASE T = {}
    BY <2>1
  <2>2. ASSUME NEW x \in T PROVE T \in F
    <3>1. T \ {x} \in F /\ (T \ {x}) \union {x} = T /\ x \in S \ (T \ {x})
      BY <1>1
    <3> QED
      BY <3>1
  <2> QED
    BY <2>1, <2>2
<1>2. SUBSET S \subseteq F
  BY <1>1, SubsetInduction
<1> QED
  BY <1>2

LEMMA NatInductionOnSets ==
  ASSUME NEW F, 0 \in F, \A n \in Nat : n \in F => n + 1 \in F
  PROVE  Nat \subseteq F
<1> SUFFICES ASSUME NEW n \in Nat, n \notin F PROVE FALSE
  OBVIOUS
<1> DEFINE Up(k) == 0..(k-1)
           Bad  == {Up(k) : k \in (0..n) \ F}
<1>1. IsWellFoundedOn(StrictSubsetOrdering(0..n), SUBSET (0..n))
  <2>1. IsFiniteSet(0..n)
    BY FS_Interval
  <2> QED
    BY <2>1, FS_StrictSubsetOrderingWellFounded, FS_FiniteSubsetsOfFinite
<1>2. Bad # {} /\ Bad \subseteq SUBSET (0..n)
  OBVIOUS
<1>3. PICK T \in Bad : \A U \in Bad : <<U, T>> \notin StrictSubsetOrdering(0..n)
  <2> HIDE DEF Bad
  <2> QED
    BY <1>1, <1>2, WFMin
<1>4. PICK k \in (0..n) \ F : T = Up(k)
  OBVIOUS
<1>5. k # 0 /\ k - 1 \in 0..n /\ k - 1 \in Nat /\ (k - 1) + 1 = k
  BY <1>4
<1>6. k - 1 \notin F
  BY <1>4, <1>5
<1>7. Up(k - 1) \in Bad
  BY <1>5, <1>6
<1>8. Up(k - 1) \subseteq Up(k) /\ Up(k - 1) # Up(k)
  <2>1. k - 1 \in Up(k) /\ k - 1 \notin Up(k - 1)
    BY <1>5
  <2> QED
    BY <2>1, <1>5
<1>9. Up(k) \subseteq 0..n
  BY <1>4
<1> QED
  BY <1>3, <1>4, <1>7, <1>8, <1>9 DEF StrictSubsetOrdering

-----------------------------------------------------------------------------
(* The recursive function behind a sum exists, and its value at a set does   *)
(* not depend on the set it is defined for.                                 *)

First(s) == CHOOSE x \in s : TRUE

Summing(f, S, g) ==
  [s \in SUBSET S |-> IF s = {} THEN 0 ELSE f[First(s)] + g[s \ {First(s)}]]

Iterated(f, S) == CHOOSE g : g = Summing(f, S, g)

LEMMA SumIsIterated ==
  ASSUME NEW f, NEW S
  PROVE  SumFunctionOnSet(f, S) = Iterated(f, S)[S]
BY DEF SumFunctionOnSet, FoldFunctionOnSet, MapThenFoldSet, Iterated, Summing, First

LEMMA FirstIn ==
  ASSUME NEW s, s # {}
  PROVE  First(s) \in s
BY DEF First

LEMMA SummingUnique ==
  ASSUME NEW f, NEW S, IsFiniteSet(S), NEW T \in SUBSET S, NEW g, NEW h,
         g = Summing(f, S, g), h = Summing(f, T, h)
  PROVE  g[T] = h[T]
<1> DEFINE F == {U \in SUBSET T : g[U] = h[U]}
<1>1. ASSUME NEW U \in SUBSET T, \A V \in SUBSET U : V # U => V \in F
      PROVE  U \in F
  <2>1. /\ g[U] = IF U = {} THEN 0 ELSE f[First(U)] + g[U \ {First(U)}]
        /\ h[U] = IF U = {} THEN 0 ELSE f[First(U)] + h[U \ {First(U)}]
    BY DEF Summing
  <2>2. CASE U = {}
    BY <2>1, <2>2
  <2>3. CASE U # {}
    <3>1. First(U) \in U
      BY <2>3, FirstIn
    <3>2. U \ {First(U)} \in F
      BY <1>1, <3>1
    <3> QED
      BY <2>1, <2>3, <3>2
  <2> QED
    BY <2>2, <2>3
<1>2. IsFiniteSet(T)
  BY FS_Subset
<1>3. SUBSET T \subseteq F
  <2> HIDE DEF F
  <2> QED
    BY <1>1, <1>2, SubsetInduction
<1> QED
  BY <1>3

LEMMA IteratedSums ==
  ASSUME NEW f, NEW S, IsFiniteSet(S)
  PROVE  Iterated(f, S) = Summing(f, S, Iterated(f, S))
<1> DEFINE F == {T \in SUBSET S : Iterated(f, T) = Summing(f, T, Iterated(f, T))}
<1>1. ASSUME NEW T \in SUBSET S, \A U \in SUBSET T : U # T => U \in F
      PROVE  T \in F
  <2> DEFINE rest == T \ {First(T)}
             g    == [s \in SUBSET T |->
                        IF s # T THEN Iterated(f, s)[s]
                        ELSE IF T = {} THEN 0
                        ELSE f[First(T)] + Iterated(f, rest)[rest]]
  <2>1. IsFiniteSet(T)
    BY FS_Subset
  <2>2. ASSUME NEW s \in SUBSET T
        PROVE  g[s] = IF s = {} THEN 0 ELSE f[First(s)] + g[s \ {First(s)}]
    <3> DEFINE r == s \ {First(s)}
    <3>1. CASE s = {}
      <4>1. CASE T = {}
        BY <3>1, <4>1
      <4>2. CASE T # {}
        <5>1. Iterated(f, s) = Summing(f, s, Iterated(f, s))
          BY <1>1, <3>1, <4>2
        <5>2. Iterated(f, s)[s] = 0
          BY <3>1, <5>1 DEF Summing
        <5> QED
          BY <3>1, <4>2, <5>2
      <4> QED
        BY <4>1, <4>2
    <3>2. CASE s # {}
      <4>1. First(s) \in s /\ r \in SUBSET s /\ r # s /\ r \in SUBSET T /\ r # T
        BY <3>2, FirstIn
      <4>2. g[r] = Iterated(f, r)[r]
        BY <4>1
      <4>3. CASE s = T
        BY <3>2, <4>2, <4>3
      <4>4. CASE s # T
        <5>1. /\ Iterated(f, s) = Summing(f, s, Iterated(f, s))
              /\ Iterated(f, r) = Summing(f, r, Iterated(f, r))
          BY <1>1, <4>1, <4>4
        <5>2. IsFiniteSet(s)
          BY <2>1, FS_Subset
        <5>3. Iterated(f, s)[r] = Iterated(f, r)[r]
          BY <4>1, <5>1, <5>2, SummingUnique
        <5>4. Iterated(f, s)[s] = f[First(s)] + Iterated(f, s)[r]
          BY <3>2, <5>1 DEF Summing
        <5> QED
          BY <3>2, <4>2, <4>4, <5>3, <5>4
      <4> QED
        BY <4>3, <4>4
    <3> QED
      BY <3>1, <3>2
  <2>3. g = Summing(f, T, g)
    <3> HIDE DEF g
    <3>1. g = [s \in SUBSET T |-> g[s]]
      BY DEF g
    <3> QED
      BY <2>2, <3>1 DEF Summing
  <2> QED
    BY <2>3 DEF Iterated
<1>2. SUBSET S \subseteq F
  <2> HIDE DEF F
  <2> QED
    BY <1>1, SubsetInduction
<1> QED
  BY <1>2
(* what a sum is by its first element *)
LEMMA SumFirst ==
  ASSUME NEW f, NEW S, IsFiniteSet(S)
  PROVE  SumFunctionOnSet(f, S) =
           IF S = {} THEN 0 ELSE f[First(S)] + SumFunctionOnSet(f, S \ {First(S)})
<1> DEFINE R == S \ {First(S)}
<1>1. IsFiniteSet(R) /\ R \in SUBSET S
  BY FS_Subset
<1>2. /\ Iterated(f, S) = Summing(f, S, Iterated(f, S))
      /\ Iterated(f, R) = Summing(f, R, Iterated(f, R))
  BY <1>1, IteratedSums
<1>3. Iterated(f, S)[R] = Iterated(f, R)[R]
  BY <1>1, <1>2, SummingUnique
<1>4. Iterated(f, S)[S] = IF S = {} THEN 0 ELSE f[First(S)] + Iterated(f, S)[R]
  BY <1>2 DEF Summing
<1> QED
  BY <1>3, <1>4, SumIsIterated

LEMMA SumEmpty ==
  ASSUME NEW f
  PROVE  SumFunctionOnSet(f, {}) = 0
BY SumFirst, FS_EmptySet

LEMMA SumType ==
  ASSUME NEW S, IsFiniteSet(S), NEW f, \A x \in S : f[x] \in Nat
  PROVE  SumFunctionOnSet(f, S) \in Nat
<1> DEFINE F == {T \in SUBSET S : SumFunctionOnSet(f, T) \in Nat}
<1>1. ASSUME NEW T \in SUBSET S, \A U \in SUBSET T : U # T => U \in F
      PROVE  T \in F
  <2>1. IsFiniteSet(T)
    BY FS_Subset
  <2>2. CASE T = {}
    BY <2>2, SumEmpty
  <2>3. CASE T # {}
    <3>1. First(T) \in T
      BY <2>3, FirstIn
    <3>2. T \ {First(T)} \in F /\ f[First(T)] \in Nat
      BY <1>1, <3>1
    <3>3. SumFunctionOnSet(f, T) = f[First(T)] + SumFunctionOnSet(f, T \ {First(T)})
      BY <2>1, <2>3, SumFirst
    <3> QED
      BY <3>2, <3>3
  <2> QED
    BY <2>2, <2>3
<1>2. SUBSET S \subseteq F
  <2> HIDE DEF F
  <2> QED
    BY <1>1, SubsetInduction
<1> QED
  BY <1>2

(* the order of the summands does not matter *)
LEMMA SumRemove ==
  ASSUME NEW S, IsFiniteSet(S), NEW f, \A x \in S : f[x] \in Nat, NEW e \in S
  PROVE  SumFunctionOnSet(f, S) = f[e] + SumFunctionOnSet(f, S \ {e})
<1> DEFINE sum(T) == SumFunctionOnSet(f, T)
           F == {T \in SUBSET S : \A x \in T : sum(T) = f[x] + sum(T \ {x})}
<1>1. ASSUME NEW T \in SUBSET S, \A U \in SUBSET T : U # T => U \in F, NEW x \in T
      PROVE  sum(T) = f[x] + sum(T \ {x})
  <2> DEFINE a == First(T)
  <2>1. IsFiniteSet(T) /\ IsFiniteSet(T \ {x})
    BY FS_Subset
  <2>2. a \in T
    BY FirstIn
  <2>3. sum(T) = f[a] + sum(T \ {a})
    BY <2>1, SumFirst
  <2> HIDE DEF a
  <2>4. CASE x = a
    BY <2>3, <2>4
  <2>5. CASE x # a
    <3>1. T \ {a} \in F /\ T \ {x} \in F
      BY <1>1, <2>2
    <3>2. /\ sum(T \ {a}) = f[x] + sum((T \ {a}) \ {x})
          /\ sum(T \ {x}) = f[a] + sum((T \ {x}) \ {a})
      BY <2>2, <2>5, <3>1
    <3>3. (T \ {a}) \ {x} = (T \ {x}) \ {a}
      OBVIOUS
    <3>4. f[x] \in Nat /\ f[a] \in Nat /\ sum((T \ {x}) \ {a}) \in Nat
      <4>1. IsFiniteSet((T \ {x}) \ {a})
        BY <2>1, FS_Subset
      <4> QED
        BY <2>2, <4>1, SumType
    <3> HIDE DEF sum
    <3> QED
      BY <2>3, <3>2, <3>3, <3>4
  <2> QED
    BY <2>4, <2>5
<1>2. SUBSET S \subseteq F
  <2>1. ASSUME NEW T \in SUBSET S, \A U \in SUBSET T : U # T => U \in F
        PROVE  T \in F
    BY <1>1, <2>1
  <2> HIDE DEF F
  <2> QED
    BY <2>1, SubsetInduction
<1> QED
  BY <1>2

LEMMA SumAdd ==
  ASSUME NEW S, IsFiniteSet(S), NEW f, NEW e, e \notin S,
         \A x \in S \union {e} : f[x] \in Nat
  PROVE  SumFunctionOnSet(f, S \union {e}) = f[e] + SumFunctionOnSet(f, S)
<1>1. IsFiniteSet(S \union {e}) /\ (S \union {e}) \ {e} = S
  BY FS_AddElement
<1> QED
  BY <1>1, SumRemove

LEMMA SumSame ==
  ASSUME NEW S, IsFiniteSet(S), NEW f, NEW g, \A x \in S : f[x] = g[x]
  PROVE  SumFunctionOnSet(f, S) = SumFunctionOnSet(g, S)
<1> DEFINE F == {T \in SUBSET S : SumFunctionOnSet(f, T) = SumFunctionOnSet(g, T)}
<1>1. ASSUME NEW T \in SUBSET S, \A U \in SUBSET T : U # T => U \in F
      PROVE  T \in F
  <2>1. IsFiniteSet(T)
    BY FS_Subset
  <2>2. CASE T = {}
    BY <2>2, SumEmpty
  <2>3. CASE T # {}
    <3>1. First(T) \in T
      BY <2>3, FirstIn
    <3>2. T \ {First(T)} \in F /\ f[First(T)] = g[First(T)]
      BY <1>1, <3>1
    <3>3. /\ SumFunctionOnSet(f, T) = f[First(T)] + SumFunctionOnSet(f, T \ {First(T)})
          /\ SumFunctionOnSet(g, T) = g[First(T)] + SumFunctionOnSet(g, T \ {First(T)})
      BY <2>1, <2>3, SumFirst
    <3> QED
      BY <3>2, <3>3
  <2> QED
    BY <2>2, <2>3
<1>2. SUBSET S \subseteq F
  <2> HIDE DEF F
  <2> QED
    BY <1>1, SubsetInduction
<1> QED
  BY <1>2

(* the sum over a set is that over a part and over the rest *)
LEMMA SumSplit ==
  ASSUME NEW S, IsFiniteSet(S), NEW f, \A x \in S : f[x] \in Nat, NEW P \in SUBSET S
  PROVE  SumFunctionOnSet(f, S) = SumFunctionOnSet(f, P) + SumFunctionOnSet(f, S \ P)
<1> DEFINE sum(T) == SumFunctionOnSet(f, T)
           F == {T \in SUBSET P : sum(S) = sum(T) + sum(S \ T)}
<1>1. IsFiniteSet(P)
  BY FS_Subset
<1>2. {} \in F
  <2>1. sum({}) = 0 /\ S \ {} = S /\ sum(S) \in Nat
    BY SumEmpty, SumType
  <2> HIDE DEF sum
  <2> QED
    BY <2>1
<1>3. ASSUME NEW T \in SUBSET P, NEW x \in P \ T, T \in F
      PROVE  T \union {x} \in F
  <2>1. IsFiniteSet(T) /\ IsFiniteSet(S \ T) /\ IsFiniteSet(S \ (T \union {x}))
    BY FS_Subset
  <2>2. sum(T \union {x}) = f[x] + sum(T)
    BY <2>1, SumAdd
  <2>3. (S \ T) \ {x} = S \ (T \union {x}) /\ x \in S \ T
    OBVIOUS
  <2>4. sum(S \ T) = f[x] + sum(S \ (T \union {x}))
    BY <2>1, <2>3, SumRemove
  <2>5. sum(T) \in Nat /\ sum(S \ (T \union {x})) \in Nat /\ f[x] \in Nat
    BY <2>1, SumType
  <2> HIDE DEF sum
  <2> QED
    BY <1>3, <2>2, <2>4, <2>5
<1>4. P \in F
  <2> HIDE DEF F
  <2> QED
    BY <1>1, <1>2, <1>3, SetInduction
<1> QED
  BY <1>4

-----------------------------------------------------------------------------
(* Folds over sequences.                                                    *)

LEMMA LeastNat ==
  ASSUME NEW T \in SUBSET Nat, T # {}
  PROVE  \E m \in T : \A k \in T : m <= k
<1> SUFFICES ASSUME \A m \in T : \E k \in T : k < m PROVE FALSE
  OBVIOUS
<1> DEFINE F == {n \in Nat : \A k \in 0..n : k \notin T}
<1>1. 0 \in F
  BY DEF F
<1>2. ASSUME NEW n \in Nat, n \in F PROVE n + 1 \in F
  <2>1. \A k \in 0..(n + 1) : k \in 0..n \/ k = n + 1
    OBVIOUS
  <2>2. n + 1 \notin T
    <3>1. \A k \in T : k \in Nat /\ ~(k < n + 1)
      BY <1>2 DEF F
    <3> QED
      BY <3>1
  <2> QED
    BY <1>2, <2>1, <2>2 DEF F
<1>3. Nat \subseteq F
  <2> HIDE DEF F
  <2> QED
    BY <1>1, <1>2, NatInductionOnSets
<1>4. PICK m \in T : m \in Nat
  OBVIOUS
<1>5. m \in F /\ m \in 0..m
  BY <1>3, <1>4
<1> QED
  BY <1>5 DEF F

LEMMA MinIn ==
  ASSUME NEW T \in SUBSET Nat, T # {}
  PROVE  Min(T) \in T /\ \A k \in T : Min(T) <= k
<1>1. \E m \in T : \A k \in T : m <= k
  BY LeastNat
<1> QED
  BY <1>1 DEF Min

LEMMA MaxIn ==
  ASSUME NEW n \in Nat, NEW T \in SUBSET (1..n), T # {}
  PROVE  Max(T) \in T /\ \A k \in T : k <= Max(T)
<1> DEFINE D == {n - k : k \in T}
<1>1. D \in SUBSET Nat /\ D # {}
  <2>1. \A k \in T : k \in 1..n /\ n - k \in Nat
    OBVIOUS
  <2> QED
    BY <2>1
<1>2. PICK d \in D : \A k \in D : d <= k
  <2> HIDE DEF D
  <2> QED
    BY <1>1, LeastNat
<1>3. PICK m \in T : d = n - m
  OBVIOUS
<1>4. ASSUME NEW k \in T PROVE m >= k
  <2>1. n - k \in D /\ k \in 1..n /\ m \in 1..n
    BY <1>3
  <2>2. d <= n - k
    BY <1>2, <2>1
  <2> QED
    BY <1>3, <2>1, <2>2
<1> QED
  BY <1>4 DEF Max

(* Two functions on the subsets of S that go on from a set without its last   *)
(* element in the same way agree.                                          *)
LEMMA FoldsAgree ==
  ASSUME NEW n \in Nat, NEW g, NEW h, g[{}] = h[{}],
         \A T \in SUBSET (1..n) :
           T # {} /\ g[T \ {Max(T)}] = h[T \ {Max(T)}] => g[T] = h[T]
  PROVE  g[1..n] = h[1..n]
<1> DEFINE S == 1..n
           F == {T \in SUBSET S : g[T] = h[T]}
<1>1. ASSUME NEW T \in SUBSET S, \A U \in SUBSET T : U # T => U \in F
      PROVE  T \in F
  <2>1. CASE T # {}
    <3>1. Max(T) \in T
      BY <2>1, MaxIn
    <3>2. T \ {Max(T)} \in F
      BY <1>1, <3>1
    <3> QED
      BY <2>1, <3>2
  <2> QED
    BY <2>1
<1>2. IsFiniteSet(S)
  BY FS_Interval
<1>3. SUBSET S \subseteq F
  <2> HIDE DEF F, S
  <2> QED
    BY <1>1, <1>2, SubsetInduction
<1> QED
  BY <1>3

(* g goes on from a set without its last element by a step *)
GoesOn(g, n, base, step) ==
  \A T \in SUBSET (1..n) :
    g[T] = IF T = {} THEN base ELSE step[<<Max(T), g[T \ {Max(T)}]>>]

Values(n, V) == [SUBSET (1..n) -> V]

(* A function that goes on from a set without its last element by a step      *)
(* exists.                                                                 *)
LEMMA FoldExists ==
  ASSUME NEW n \in Nat, NEW V, NEW base \in V, NEW step \in [(1..n) \X V -> V]
  PROVE  \E g \in Values(n, V) : GoesOn(g, n, base, step)
<1> DEFINE Has(k) ==
             \E g \in [SUBSET (1..k) -> V] :
               \A T \in SUBSET (1..k) :
                 g[T] = IF T = {} THEN base ELSE step[<<Max(T), g[T \ {Max(T)}]>>]
           F == {k \in Nat : k <= n => Has(k)}
<1>1. 0 \in F
  <2> DEFINE g == [T \in SUBSET (1..0) |-> base]
  <2>1. \A T \in SUBSET (1..0) : T = {}
    OBVIOUS
  <2>2. g \in [SUBSET (1..0) -> V]
    OBVIOUS
  <2>3. \A T \in SUBSET (1..0) :
          g[T] = IF T = {} THEN base ELSE step[<<Max(T), g[T \ {Max(T)}]>>]
    BY <2>1
  <2> QED
    BY <2>2, <2>3
<1>2. ASSUME NEW k \in Nat, k \in F, k + 1 <= n PROVE Has(k + 1)
  <2>0. Has(k)
    <3>1. k <= n
      BY <1>2
    <3> HIDE DEF Has
    <3> QED
      BY <1>2, <3>1
  <2>1. PICK g \in [SUBSET (1..k) -> V] :
          \A T \in SUBSET (1..k) :
            g[T] = IF T = {} THEN base ELSE step[<<Max(T), g[T \ {Max(T)}]>>]
    BY <2>0
  <2> DEFINE h == [T \in SUBSET (1..(k + 1)) |->
                     IF k + 1 \in T THEN step[<<k + 1, g[T \ {k + 1}]>>] ELSE g[T]]
  <2>2. \A T \in SUBSET (1..(k + 1)) :
          /\ T \ {k + 1} \in SUBSET (1..k)
          /\ k + 1 \notin T => T \in SUBSET (1..k)
          /\ k + 1 \in 1..n
    <3>1. \A i \in 1..(k + 1) : i # k + 1 => i \in 1..k
      OBVIOUS
    <3>2. k + 1 \in 1..n
      BY <1>2
    <3> QED
      BY <3>1, <3>2
  <2>3. h \in [SUBSET (1..(k + 1)) -> V]
    BY <2>1, <2>2
  <2>4. ASSUME NEW T \in SUBSET (1..(k + 1))
        PROVE  h[T] = IF T = {} THEN base ELSE step[<<Max(T), h[T \ {Max(T)}]>>]
    <3>1. CASE k + 1 \in T
      <4>1. Max(T) = k + 1
        <5>1. k + 1 \in Nat /\ T \in SUBSET (1..(k + 1)) /\ T # {}
          BY <3>1
        <5>2. Max(T) \in T /\ \A i \in T : i <= Max(T)
          BY <5>1, MaxIn
        <5>3. Max(T) \in 1..(k + 1) /\ k + 1 <= Max(T)
          BY <3>1, <5>2
        <5> QED
          BY <5>3
      <4>2. h[T \ {k + 1}] = g[T \ {k + 1}]
        BY <2>2
      <4> QED
        BY <3>1, <4>1, <4>2
    <3>2. CASE k + 1 \notin T
      <4>1. T \in SUBSET (1..k) /\ h[T] = g[T]
        BY <2>2, <3>2
      <4>2. T # {} => h[T \ {Max(T)}] = g[T \ {Max(T)}]
        BY <4>1, <3>2
      <4> QED
        BY <2>1, <4>1, <4>2
    <3> QED
      BY <3>1, <3>2
  <2> HIDE DEF h
  <2> QED
    BY <2>3, <2>4
<1> HIDE DEF Has
<1>3. \A k \in Nat : k \in F => k + 1 \in F
  BY <1>2
<1>4. Nat \subseteq F
  <2> HIDE DEF F
  <2> QED
    BY <1>1, <1>3, NatInductionOnSets
<1>5. Has(n)
  BY <1>4
<1> QED
  BY <1>5 DEF Has, GoesOn, Values

(* A fold with a step that is a function *)
Stepwise(step, base, seq) == FoldLeft(LAMBDA acc, e : step[<<acc, e>>], base, seq)

(* g has the intermediate values of that fold, by sets of positions *)
FoldsTo(g, step, base, seq) ==
  /\ \A T \in SUBSET (1..Len(seq)) :
       g[T] = IF T = {} THEN base ELSE step[<<g[T \ {Max(T)}], seq[Max(T)]>>]
  /\ Stepwise(step, base, seq) = g[1..Len(seq)]

LEMMA StepwiseIs ==
  ASSUME NEW X, NEW V, NEW base \in V, NEW step \in [V \X X -> V], NEW seq \in Seq(X)
  PROVE  \E g \in Values(Len(seq), V) : FoldsTo(g, step, base, seq)
<1> DEFINE n == Len(seq)
           at == [p \in (1..n) \X V |-> step[<<p[2], seq[p[1]]>>]]
<1>1. n \in Nat /\ at \in [(1..n) \X V -> V]
  OBVIOUS
<1>2. PICK g \in [SUBSET (1..n) -> V] :
        \A T \in SUBSET (1..n) : g[T] = IF T = {} THEN base ELSE at[<<Max(T), g[T \ {Max(T)}]>>]
  <2> HIDE DEF at, n
  <2>1. \E g \in Values(n, V) : GoesOn(g, n, base, at)
    BY <1>1, FoldExists
  <2> QED
    BY <2>1 DEF GoesOn, Values
<1> DEFINE iter(h) == [T \in SUBSET (1..n) |->
                         IF T = {} THEN base ELSE step[<<h[T \ {Max(T)}], seq[Max(T)]>>]]
           it == CHOOSE h : h = iter(h)
<1>3. ASSUME NEW T \in SUBSET (1..n)
      PROVE  g[T] = IF T = {} THEN base ELSE step[<<g[T \ {Max(T)}], seq[Max(T)]>>]
  <2>1. CASE T # {}
    <3>1. Max(T) \in 1..n
      BY <1>1, <2>1, MaxIn
    <3>2. g[T \ {Max(T)}] \in V
      OBVIOUS
    <3>3. at[<<Max(T), g[T \ {Max(T)}]>>] = step[<<g[T \ {Max(T)}], seq[Max(T)]>>]
      BY <3>1, <3>2
    <3> QED
      BY <1>2, <2>1, <3>3
  <2> QED
    BY <1>2, <2>1
<1>4. g = iter(g)
  BY <1>3
<1>5. it = iter(it)
  <2> HIDE DEF iter
  <2> QED
    BY <1>4
<1>6. \A T \in SUBSET (1..n) :
        it[T] = IF T = {} THEN base ELSE step[<<it[T \ {Max(T)}], seq[Max(T)]>>]
  <2> HIDE DEF it
  <2> QED
    BY <1>5
<1>7. it[1..n] = g[1..n]
  <2> HIDE DEF it, n
  <2>1. {} \in SUBSET (1..n)
    OBVIOUS
  <2>2. it[{}] = g[{}]
    BY <1>3, <1>6, <2>1
  <2>3. \A T \in SUBSET (1..n) :
          T # {} /\ it[T \ {Max(T)}] = g[T \ {Max(T)}] => it[T] = g[T]
    BY <1>3, <1>6
  <2> QED
    BY <1>1, <2>2, <2>3, FoldsAgree
<1>8. DOMAIN seq = 1..n
  OBVIOUS
<1>9. Stepwise(step, base, seq) = it[1..n]
  BY <1>8 DEF Stepwise, FoldLeft, MapThenFoldSet
<1>10. FoldsTo(g, step, base, seq)
  BY <1>3, <1>7, <1>9 DEF FoldsTo
<1> QED
  BY <1>10 DEF Values

LEMMA StepwiseEmpty ==
  ASSUME NEW X, NEW V, NEW base \in V, NEW step \in [V \X X -> V]
  PROVE  Stepwise(step, base, <<>>) = base
<1>1. <<>> \in Seq(X) /\ 1..Len(<<>>) = {}
  OBVIOUS
<1>2. PICK g : FoldsTo(g, step, base, <<>>)
  BY <1>1, StepwiseIs
<1> QED
  BY <1>1, <1>2 DEF FoldsTo

(* the fold of a longer sequence is one step on from that of the sequence *)
GoesOnWith(step, base, V, seq, e) ==
  /\ Stepwise(step, base, seq) \in V
  /\ Stepwise(step, base, Append(seq, e)) = step[<<Stepwise(step, base, seq), e>>]

LEMMA StepwiseAppend ==
  ASSUME NEW X, NEW V, NEW base \in V, NEW step \in [V \X X -> V],
         NEW seq \in Seq(X), NEW e \in X
  PROVE  GoesOnWith(step, base, V, seq, e)
<1> DEFINE n == Len(seq)
           long == Append(seq, e)
<1>1. /\ long \in Seq(X) /\ n \in Nat /\ Len(long) = n + 1 /\ long[n + 1] = e
      /\ \A i \in 1..n : long[i] = seq[i]
  OBVIOUS
<1> HIDE DEF long
<1>8. PICK g \in Values(Len(seq), V) : FoldsTo(g, step, base, seq)
  BY StepwiseIs
<1>2. /\ g \in [SUBSET (1..n) -> V]
      /\ \A T \in SUBSET (1..n) :
           g[T] = IF T = {} THEN base ELSE step[<<g[T \ {Max(T)}], seq[Max(T)]>>]
      /\ Stepwise(step, base, seq) = g[1..n]
  BY <1>8 DEF FoldsTo, Values
<1>9. PICK h \in Values(Len(long), V) : FoldsTo(h, step, base, long)
  BY <1>1, StepwiseIs
<1>3. /\ \A T \in SUBSET (1..Len(long)) :
           h[T] = IF T = {} THEN base ELSE step[<<h[T \ {Max(T)}], long[Max(T)]>>]
      /\ Stepwise(step, base, long) = h[1..Len(long)]
  BY <1>9 DEF FoldsTo, Values
<1> HIDE DEF n
<1>4. \A T \in SUBSET (1..n) : T \in SUBSET (1..(n + 1)) /\ (T # {} => Max(T) \in 1..n)
  <2>1. 1..n \subseteq 1..(n + 1)
    BY <1>1
  <2> QED
    BY <1>1, <2>1, MaxIn
<1>5. g[1..n] = h[1..n]
  <2>1. g[{}] = h[{}]
    BY <1>1, <1>2, <1>3, <1>4
  <2>2. ASSUME NEW T \in SUBSET (1..n), T # {}, g[T \ {Max(T)}] = h[T \ {Max(T)}]
        PROVE  g[T] = h[T]
    <3>1. long[Max(T)] = seq[Max(T)]
      BY <1>1, <1>4, <2>2
    <3>2. T \in SUBSET (1..Len(long))
      BY <1>1, <1>4
    <3> QED
      BY <1>2, <1>3, <2>2, <3>1, <3>2
  <2> QED
    BY <1>1, <2>1, <2>2, FoldsAgree
<1>6. Max(1..(n + 1)) = n + 1 /\ 1..(n + 1) # {} /\ (1..(n + 1)) \ {n + 1} = 1..n
  <2>0. n \in Nat
    BY <1>1
  <2>4. n + 1 \in Nat /\ n + 1 \in 1..(n + 1)
    BY <2>0
  <2>1. n + 1 \in Nat /\ 1..(n + 1) # {} /\ n + 1 \in 1..(n + 1)
    BY <2>4
  <2>2. Max(1..(n + 1)) \in 1..(n + 1) /\ n + 1 <= Max(1..(n + 1))
    BY <2>1, MaxIn
  <2> QED
    BY <1>1, <2>1, <2>2
<1>7. h[1..(n + 1)] = step[<<h[1..n], long[n + 1]>>]
  <2>1. 1..(n + 1) \in SUBSET (1..Len(long))
    BY <1>1
  <2> QED
    BY <1>3, <1>6, <2>1
<1> QED
  BY <1>1, <1>2, <1>3, <1>5, <1>7 DEF long, GoesOnWith

LEMMA SeqInduction ==
  ASSUME NEW X, NEW F, <<>> \in F,
         \A s \in Seq(X), e \in X : s \in F => Append(s, e) \in F
  PROVE  Seq(X) \subseteq F
<1> DEFINE G == {n \in Nat : \A s \in Seq(X) : Len(s) = n => s \in F}
<1>1. 0 \in G
  OBVIOUS
<1>2. ASSUME NEW n \in Nat, n \in G, NEW s \in Seq(X), Len(s) = n + 1 PROVE s \in F
  <2>1. s # <<>>
    BY <1>2
  <2>2. PICK t \in Seq(X), e \in X : s = Append(t, e)
    BY <2>1, SequenceEmptyOrAppend
  <2>3. Len(t) = n
    BY <1>2, <2>2
  <2> QED
    BY <1>2, <2>2, <2>3
<1>3. \A n \in Nat : n \in G => n + 1 \in G
  BY <1>2
<1>4. Nat \subseteq G
  <2> HIDE DEF G
  <2> QED
    BY <1>1, <1>3, NatInductionOnSets
<1>5. \A s \in Seq(X) : Len(s) \in G
  BY <1>4
<1> QED
  BY <1>5

(* f goes on from n to n + 1 by a step *)
Recurs(f, n, base, step) ==
  f[0] = base /\ \A m \in 1..n : f[m] = step[<<m, f[m - 1]>>]

LEMMA RecExists ==
  ASSUME NEW n \in Nat, NEW V, NEW base \in V, NEW step \in [(1..n) \X V -> V]
  PROVE  \E f \in [0..n -> V] : Recurs(f, n, base, step)
<1>1. PICK g \in Values(n, V) : GoesOn(g, n, base, step)
  BY FoldExists
<1> DEFINE f == [m \in 0..n |-> g[1..m]]
<1>2. \A m \in 0..n : 1..m \in SUBSET (1..n)
  OBVIOUS
<1>3. f \in [0..n -> V]
  BY <1>1, <1>2 DEF Values
<1>4. f[0] = base
  <2>1. 1..0 = {} /\ 0 \in 0..n
    OBVIOUS
  <2>2. g[{}] = base
    BY <1>1 DEF GoesOn
  <2> QED
    BY <2>1, <2>2
<1>5. ASSUME NEW m \in 1..n PROVE f[m] = step[<<m, f[m - 1]>>]
  <2>1. m \in 1..m /\ m - 1 \in 0..n /\ m \in 0..n /\ m \in Nat
    OBVIOUS
  <2>2. (1..m) \ {m} = 1..(m - 1)
    <3>1. \A k : k \in (1..m) \ {m} <=> k \in 1..(m - 1)
      BY <2>1
    <3> QED
      BY <3>1
  <2>3. Max(1..m) = m
    <3>1. 1..m \in SUBSET (1..m) /\ 1..m # {}
      BY <2>1
    <3>2. Max(1..m) \in 1..m /\ \A k \in 1..m : k <= Max(1..m)
      BY <2>1, <3>1, MaxIn
    <3> QED
      BY <2>1, <3>2
  <2>4. g[1..m] = step[<<Max(1..m), g[(1..m) \ {Max(1..m)}]>>]
    BY <1>1, <1>2, <2>1 DEF GoesOn
  <2>5. f[m] = g[1..m] /\ f[m - 1] = g[1..(m - 1)]
    BY <2>1
  <2> HIDE DEF f
  <2> QED
    BY <2>2, <2>3, <2>4, <2>5
<1> QED
  BY <1>3, <1>4, <1>5 DEF Recurs
=============================================================================
