----------------------------- MODULE SumTheorems -----------------------------
(*****************************************************************************)
(* Facts about the sum of a function over a finite set of indices            *)
(* (SumFunctionOnSet of the community modules): the proofs of the pool's     *)
(* books and of the reputation accounts rest on them.  The library's         *)
(* induction theorems range over operators; here induction is over sets of   *)
(* numbers and of sets, from the theorem that a well-founded order has       *)
(* minimal elements.                                                         *)
(*****************************************************************************)
EXTENDS FiniteSetsExt, FiniteSetTheorems, TLAPS

-----------------------------------------------------------------------------
(* Induction *)

\* A set that holds 0 and the successor of each number it holds holds them all.
LEMMA NaturalInduction ==
  ASSUME NEW G, 0 \in G, \A n \in Nat : n \in G => n + 1 \in G
  PROVE  Nat \subseteq G
<1> DEFINE R == OpToRel(<, Nat)
           Bad == Nat \ G
<1>1. IsWellFoundedOn(R, Nat)
  BY NatLessThanWellFounded
<1>2. \A x, y \in Nat : <<x, y>> \in R <=> x < y
  BY DEF OpToRel
<1> SUFFICES ASSUME Bad # {} PROVE FALSE
  OBVIOUS
<1> HIDE DEF R
<1>3. PICK x \in Bad : \A y \in Bad : ~(<<y, x>> \in R)
  BY <1>1, WFMin
<1>4. x # 0 /\ x \in Nat
  OBVIOUS
<1>5. x - 1 \in Nat /\ x - 1 < x
  BY <1>4
<1>6. x - 1 \in G
  BY <1>2, <1>3, <1>5
<1>7. (x - 1) + 1 = x
  BY <1>4
<1> QED BY <1>5, <1>6, <1>7

\* A family of subsets of a finite set that holds the empty set, and with a set
\* the set with one element more, holds the whole set.
LEMMA SubsetInduction ==
  ASSUME NEW S, IsFiniteSet(S), NEW G, {} \in G,
         \A T \in SUBSET S : \A x \in S \ T : T \in G => T \cup {x} \in G
  PROVE  \A T \in SUBSET S : T \in G
<1> DEFINE R == StrictSubsetOrdering(S)
           Bad == {T \in SUBSET S : T \notin G}
<1>1. IsWellFoundedOn(R, FiniteSubsetsOf(S)) /\ FiniteSubsetsOf(S) = SUBSET S
  BY FS_StrictSubsetOrderingWellFounded, FS_FiniteSubsetsOfFinite
<1>2. \A T, U \in SUBSET S : T \subseteq U /\ T # U => <<T, U>> \in R
  BY DEF StrictSubsetOrdering
<1> SUFFICES ASSUME Bad # {} PROVE FALSE
  OBVIOUS
<1>3. Bad \subseteq SUBSET S
  OBVIOUS
<1> HIDE DEF R
<1>4. PICK U \in Bad : \A T \in Bad : ~(<<T, U>> \in R)
  <2> HIDE DEF Bad
  <2> QED BY <1>1, <1>3, WFMin
<1>5. PICK x : x \in U
  OBVIOUS
<1>6. U \ {x} \in SUBSET S /\ <<U \ {x}, U>> \in R
  BY <1>2, <1>5
<1>7. U \ {x} \in G
  BY <1>4, <1>6
<1>8. (U \ {x}) \cup {x} = U /\ x \in S \ (U \ {x})
  BY <1>5
<1> QED BY <1>4, <1>6, <1>7, <1>8

-----------------------------------------------------------------------------
(* The fold satisfies its recursion equation *)

\* The index a fold takes next from s, and what it makes of s with the sums g of
\* smaller sets.
Pick(s) == CHOOSE x \in s : TRUE
SumStep(f, g, s) == IF s = {} THEN 0 ELSE f[Pick(s)] + g[s \ {Pick(s)}]

IsSum(g, f, S) == g = [s \in SUBSET S |-> SumStep(f, g, s)]

LEMMA PickIn == \A s : s # {} => Pick(s) \in s
  BY DEF Pick

\* The function that SumFunctionOnSet chooses exists.
LEMMA SumExists ==
  ASSUME NEW S, IsFiniteSet(S), NEW f
  PROVE  \E g : IsSum(g, f, S)
<1> DEFINE Upto(n) == {s \in SUBSET S : Cardinality(s) <= n}
           Good == {n \in Nat : \E g : g = [s \in Upto(n) |-> SumStep(f, g, s)]}
<1>1. \A s \in SUBSET S : IsFiniteSet(s) /\ Cardinality(s) \in Nat
  BY FS_Subset, FS_CardinalityType
<1>2. 0 \in Good
  <2>1. \A s \in Upto(0) : s = {}
    BY <1>1, FS_EmptySet
  <2> DEFINE g == [s \in Upto(0) |-> 0]
  <2>2. g = [s \in Upto(0) |-> SumStep(f, g, s)]
    BY <2>1 DEF SumStep
  <2> QED BY <2>2
<1>3. \A n \in Nat : n \in Good => n + 1 \in Good
  <2> SUFFICES ASSUME NEW n \in Nat, n \in Good PROVE n + 1 \in Good
    OBVIOUS
  <2>1. PICK g : g = [s \in Upto(n) |-> SumStep(f, g, s)]
    OBVIOUS
  <2> DEFINE h == [s \in Upto(n + 1) |-> SumStep(f, g, s)]
  <2>2. ASSUME NEW s \in Upto(n + 1), s # {} PROVE s \ {Pick(s)} \in Upto(n)
    <3>1. Pick(s) \in s
      BY <2>2, PickIn
    <3>2. Cardinality(s \ {Pick(s)}) = Cardinality(s) - 1
      BY <1>1, <3>1, FS_RemoveElement
    <3> QED BY <1>1, <3>2
  <2>3. Upto(n) \subseteq Upto(n + 1)
    BY <1>1
  <2>4. \A s \in Upto(n) : h[s] = g[s]
    <3> HIDE DEF Upto
    <3> QED BY <2>1, <2>3
  <2>5. \A s \in Upto(n + 1) : SumStep(f, g, s) = SumStep(f, h, s)
    <3> HIDE DEF h, Upto
    <3> QED BY <2>2, <2>4 DEF SumStep
  <2>6. h = [s \in Upto(n + 1) |-> SumStep(f, h, s)]
    <3> HIDE DEF Upto
    <3> QED BY <2>5
  <2> HIDE DEF h, Upto
  <2> QED BY <2>6
<1> DEFINE N == Cardinality(S)
<1>4. N \in Good
  <2> HIDE DEF Good
  <2> QED BY <1>2, <1>3, NaturalInduction, FS_CardinalityType
<1>5. Upto(N) = SUBSET S
  BY FS_Subset, <1>1
<1> QED BY <1>4, <1>5 DEF IsSum

\* Two functions that satisfy the equation agree where both are defined.
LEMMA SumUnique ==
  ASSUME NEW S, NEW T, NEW U, IsFiniteSet(U), U \subseteq S, U \subseteq T, NEW f, NEW h,
         \A x \in U : f[x] = h[x],
         NEW g, IsSum(g, f, S), NEW k, IsSum(k, h, T)
  PROVE  g[U] = k[U]
<1> DEFINE Good == {n \in Nat : \A s \in SUBSET U : Cardinality(s) <= n => g[s] = k[s]}
<1>1. \A s \in SUBSET U : IsFiniteSet(s) /\ Cardinality(s) \in Nat
  BY FS_Subset, FS_CardinalityType
<1>2. \A s \in SUBSET U : g[s] = SumStep(f, g, s) /\ k[s] = SumStep(h, k, s)
  BY DEF IsSum
<1>3. 0 \in Good
  <2>1. \A s \in SUBSET U : Cardinality(s) <= 0 => s = {}
    BY <1>1, FS_EmptySet
  <2> QED BY <1>2, <2>1 DEF SumStep
<1>4. \A n \in Nat : n \in Good => n + 1 \in Good
  <2> SUFFICES ASSUME NEW n \in Nat, n \in Good,
                      NEW s \in SUBSET U, Cardinality(s) <= n + 1
               PROVE  g[s] = k[s]
    OBVIOUS
  <2> SUFFICES ASSUME s # {} PROVE g[s] = k[s]
    BY <1>2 DEF SumStep
  <2>1. Pick(s) \in s
    BY PickIn
  <2>2. Cardinality(s \ {Pick(s)}) = Cardinality(s) - 1
    BY <1>1, <2>1, FS_RemoveElement
  <2> DEFINE t == s \ {Pick(s)}
  <2>3. t \in SUBSET U /\ Cardinality(t) <= n
    BY <1>1, <2>2
  <2>4. g[t] = k[t]
    <3> HIDE DEF t
    <3> QED BY <2>3
  <2> QED BY <1>2, <2>1, <2>4 DEF SumStep
<1>5. Cardinality(U) \in Good
  <2> HIDE DEF Good
  <2> QED BY <1>1, <1>3, <1>4, NaturalInduction
<1>6. Cardinality(U) <= Cardinality(U) /\ U \in SUBSET U
  BY <1>1
<1> QED BY <1>5, <1>6

\* SumFunctionOnSet is that function at S.
LEMMA SumIs ==
  ASSUME NEW S, IsFiniteSet(S), NEW f
  PROVE  \E g : IsSum(g, f, S) /\ SumFunctionOnSet(f, S) = g[S]
<1> DEFINE g == CHOOSE g : g = [s \in SUBSET S |-> SumStep(f, g, s)]
<1>1. IsSum(g, f, S)
  BY SumExists DEF IsSum
<1>2. SumFunctionOnSet(f, S) = g[S]
  BY DEF SumFunctionOnSet, FoldFunctionOnSet, MapThenFoldSet, SumStep, Pick
<1> QED BY <1>1, <1>2

\* A sum depends on the function's values at the indices only.
LEMMA SumSame ==
  ASSUME NEW S, IsFiniteSet(S), NEW f, NEW h, \A x \in S : f[x] = h[x]
  PROVE  SumFunctionOnSet(f, S) = SumFunctionOnSet(h, S)
<1>1. PICK g : IsSum(g, f, S) /\ SumFunctionOnSet(f, S) = g[S]
  BY SumIs
<1>2. PICK k : IsSum(k, h, S) /\ SumFunctionOnSet(h, S) = k[S]
  BY SumIs
<1> DEFINE U == S
<1>3. IsFiniteSet(U) /\ U \subseteq S /\ \A x \in U : f[x] = h[x]
  OBVIOUS
<1>4. g[U] = k[U]
  <2> HIDE DEF U
  <2> QED BY <1>1, <1>2, <1>3, SumUnique
<1> QED BY <1>1, <1>2, <1>4

LEMMA SumEmpty == \A f : SumFunctionOnSet(f, {}) = 0
<1> SUFFICES ASSUME NEW f PROVE SumFunctionOnSet(f, {}) = 0
  OBVIOUS
<1>1. PICK g : IsSum(g, f, {}) /\ SumFunctionOnSet(f, {}) = g[{}]
  BY SumIs, FS_EmptySet
<1> QED BY <1>1 DEF SumStep, IsSum

\* A sum is the value at the index picked and the sum over the rest.
LEMMA SumUnfold ==
  ASSUME NEW S, IsFiniteSet(S), S # {}, NEW f
  PROVE  SumFunctionOnSet(f, S) = f[Pick(S)] + SumFunctionOnSet(f, S \ {Pick(S)})
<1> DEFINE T == S \ {Pick(S)}
<1>1. PICK g : IsSum(g, f, S) /\ SumFunctionOnSet(f, S) = g[S]
  BY SumIs
<1>2. IsFiniteSet(T)
  BY FS_RemoveElement
<1>3. PICK k : IsSum(k, f, T) /\ SumFunctionOnSet(f, T) = k[T]
  <2> HIDE DEF T
  <2> QED BY <1>2, SumIs
<1>4. g[T] = k[T]
  <2>1. T \subseteq S
    OBVIOUS
  <2> HIDE DEF T
  <2> QED BY <1>1, <1>2, <1>3, <2>1, SumUnique
<1>5. g[S] = SumStep(f, g, S)
  BY <1>1 DEF IsSum
<1> QED BY <1>1, <1>3, <1>4, <1>5 DEF SumStep

-----------------------------------------------------------------------------
(* Sums of integers *)

LEMMA SumInt ==
  ASSUME NEW S, IsFiniteSet(S), NEW f, \A x \in S : f[x] \in Int
  PROVE  \A T \in SUBSET S : SumFunctionOnSet(f, T) \in Int
<1> DEFINE Good == {n \in Nat : \A T \in SUBSET S :
                      Cardinality(T) <= n => SumFunctionOnSet(f, T) \in Int}
<1>1. \A T \in SUBSET S : IsFiniteSet(T) /\ Cardinality(T) \in Nat
  BY FS_Subset, FS_CardinalityType
<1>2. 0 \in Good
  <2>1. \A T \in SUBSET S : Cardinality(T) <= 0 => T = {}
    BY <1>1, FS_EmptySet
  <2> QED BY <2>1, SumEmpty
<1>3. \A n \in Nat : n \in Good => n + 1 \in Good
  <2> SUFFICES ASSUME NEW n \in Nat, n \in Good,
                      NEW T \in SUBSET S, Cardinality(T) <= n + 1
               PROVE  SumFunctionOnSet(f, T) \in Int
    OBVIOUS
  <2> SUFFICES ASSUME T # {} PROVE SumFunctionOnSet(f, T) \in Int
    BY SumEmpty
  <2> DEFINE U == T \ {Pick(T)}
  <2>1. Pick(T) \in T /\ IsFiniteSet(T)
    BY <1>1, PickIn
  <2>2. Cardinality(U) = Cardinality(T) - 1
    BY <2>1, FS_RemoveElement
  <2>3. U \in SUBSET S /\ Cardinality(U) <= n
    BY <1>1, <2>2
  <2>4. SumFunctionOnSet(f, T) = f[Pick(T)] + SumFunctionOnSet(f, U)
    BY <2>1, SumUnfold
  <2> HIDE DEF U
  <2> QED BY <2>1, <2>3, <2>4
<1>4. Nat \subseteq Good
  <2> HIDE DEF Good
  <2> QED BY <1>2, <1>3, NaturalInduction
<1> SUFFICES ASSUME NEW T \in SUBSET S PROVE SumFunctionOnSet(f, T) \in Int
  OBVIOUS
<1>5. Cardinality(T) \in Good /\ Cardinality(T) <= Cardinality(T)
  BY <1>1, <1>4
<1> QED BY <1>5

\* A sum is the value at any index and the sum over the others.
LEMMA SumRemove ==
  ASSUME NEW S, IsFiniteSet(S), NEW f, \A x \in S : f[x] \in Int
  PROVE  \A T \in SUBSET S : \A x \in T :
           SumFunctionOnSet(f, T) = f[x] + SumFunctionOnSet(f, T \ {x})
<1> DEFINE Sum(T) == SumFunctionOnSet(f, T)
           Good == {n \in Nat : \A T \in SUBSET S : \A x \in T :
                      Cardinality(T) <= n => Sum(T) = f[x] + Sum(T \ {x})}
<1>1. \A T \in SUBSET S : IsFiniteSet(T) /\ Cardinality(T) \in Nat
  BY FS_Subset, FS_CardinalityType
<1>2. \A T \in SUBSET S : Sum(T) \in Int
  BY SumInt
<1>3. 0 \in Good
  BY <1>1, FS_EmptySet
<1>4. \A T \in SUBSET S : T # {} => Pick(T) \in T /\ Sum(T) = f[Pick(T)] + Sum(T \ {Pick(T)})
  BY <1>1, PickIn, SumUnfold
<1> HIDE DEF Sum
<1>5. \A n \in Nat : n \in Good => n + 1 \in Good
  <2> SUFFICES ASSUME NEW n \in Nat, n \in Good,
                      NEW T \in SUBSET S, NEW x \in T, Cardinality(T) <= n + 1
               PROVE  Sum(T) = f[x] + Sum(T \ {x})
    OBVIOUS
  <2> DEFINE y == Pick(T)
  <2>1. y \in T /\ Sum(T) = f[y] + Sum(T \ {y})
    BY <1>4
  <2> HIDE DEF y
  <2> SUFFICES ASSUME x # y PROVE Sum(T) = f[x] + Sum(T \ {x})
    BY <2>1
  <2>2. Cardinality(T \ {y}) = Cardinality(T) - 1 /\ Cardinality(T \ {x}) = Cardinality(T) - 1
    BY <1>1, <2>1, FS_RemoveElement
  <2>3. Sum(T \ {y}) = f[x] + Sum((T \ {y}) \ {x})
    <3>1. T \ {y} \in SUBSET S /\ x \in T \ {y} /\ Cardinality(T \ {y}) <= n
      BY <1>1, <2>2
    <3> QED BY <3>1
  <2>4. Sum(T \ {x}) = f[y] + Sum((T \ {x}) \ {y})
    <3>1. T \ {x} \in SUBSET S /\ y \in T \ {x} /\ Cardinality(T \ {x}) <= n
      BY <1>1, <2>1, <2>2
    <3> QED BY <3>1
  <2>5. (T \ {x}) \ {y} = (T \ {y}) \ {x}
    OBVIOUS
  <2>6. Sum((T \ {x}) \ {y}) \in Int /\ f[x] \in Int /\ f[y] \in Int
    BY <1>2, <2>1
  <2> QED BY <2>1, <2>3, <2>4, <2>5, <2>6
<1>6. Nat \subseteq Good
  <2> HIDE DEF Good
  <2> QED BY <1>3, <1>5, NaturalInduction
<1> SUFFICES ASSUME NEW T \in SUBSET S, NEW x \in T PROVE Sum(T) = f[x] + Sum(T \ {x})
  BY DEF Sum
<1>7. Cardinality(T) \in Good /\ Cardinality(T) <= Cardinality(T)
  BY <1>1, <1>6
<1> QED BY <1>7

\* One index more adds its value.
LEMMA SumAdd ==
  ASSUME NEW S, IsFiniteSet(S), NEW x, x \notin S, NEW f, \A y \in S \cup {x} : f[y] \in Int
  PROVE  SumFunctionOnSet(f, S \cup {x}) = SumFunctionOnSet(f, S) + f[x]
<1>1. IsFiniteSet(S \cup {x})
  BY FS_AddElement
<1> DEFINE T == S \cup {x}
<1>2. \A y \in T : SumFunctionOnSet(f, T) = f[y] + SumFunctionOnSet(f, T \ {y})
  <2> HIDE DEF T
  <2> QED BY <1>1, SumRemove DEF T
<1>3. T \ {x} = S
  OBVIOUS
<1>4. SumFunctionOnSet(f, T) = f[x] + SumFunctionOnSet(f, S)
  BY <1>2, <1>3
<1>5. SumFunctionOnSet(f, S) \in Int /\ f[x] \in Int
  BY SumInt
<1> QED BY <1>4, <1>5

\* A property of the sums over all subsets that holds of 0 and is kept when an
\* index is added: sums of naturals are naturals, and sums compare as their terms.
LEMMA SumNat ==
  ASSUME NEW S, IsFiniteSet(S), NEW f, \A x \in S : f[x] \in Nat
  PROVE  SumFunctionOnSet(f, S) \in Nat
<1> DEFINE Good == {T \in SUBSET S : SumFunctionOnSet(f, T) \in Nat}
<1>1. {} \in Good
  BY SumEmpty
<1>2. \A T \in SUBSET S : \A x \in S \ T : T \in Good => T \cup {x} \in Good
  <2> SUFFICES ASSUME NEW T \in SUBSET S, NEW x \in S \ T, T \in Good
               PROVE  SumFunctionOnSet(f, T \cup {x}) \in Nat
    OBVIOUS
  <2>1. IsFiniteSet(T) /\ x \notin T /\ \A y \in T \cup {x} : f[y] \in Int
    BY FS_Subset
  <2>2. SumFunctionOnSet(f, T \cup {x}) = SumFunctionOnSet(f, T) + f[x]
    BY <2>1, SumAdd
  <2>3. f[x] \in Nat
    OBVIOUS
  <2> QED BY <2>2, <2>3
<1>3. S \in Good
  <2> HIDE DEF Good
  <2> QED BY <1>1, <1>2, SubsetInduction
<1> QED BY <1>3

\* Terms in proportion at least k to the terms of another sum give such a sum.
LEMMA SumScaled ==
  ASSUME NEW S, IsFiniteSet(S), NEW f, NEW h, NEW k \in Nat, NEW m \in Nat,
         \A x \in S : f[x] \in Int /\ h[x] \in Int /\ k * f[x] <= m * h[x]
  PROVE  k * SumFunctionOnSet(f, S) <= m * SumFunctionOnSet(h, S)
<1> DEFINE F(T) == SumFunctionOnSet(f, T)
           H(T) == SumFunctionOnSet(h, T)
           Good == {T \in SUBSET S : k * F(T) <= m * H(T)}
<1>1. {} \in Good
  BY SumEmpty
<1>2. \A T \in SUBSET S : F(T) \in Int /\ H(T) \in Int
  BY SumInt
<1>3. ASSUME NEW T \in SUBSET S, NEW x \in S \ T
      PROVE  F(T \cup {x}) = F(T) + f[x] /\ H(T \cup {x}) = H(T) + h[x]
  BY FS_Subset, SumAdd
<1> HIDE DEF F, H
<1>4. \A T \in SUBSET S : \A x \in S \ T : T \in Good => T \cup {x} \in Good
  <2> SUFFICES ASSUME NEW T \in SUBSET S, NEW x \in S \ T, k * F(T) <= m * H(T)
               PROVE  k * F(T \cup {x}) <= m * H(T \cup {x})
    OBVIOUS
  <2>1. \A a, b, c, d \in Int : k * a <= m * b /\ k * c <= m * d => k * (a + c) <= m * (b + d)
    OBVIOUS
  <2>2. k * f[x] <= m * h[x] /\ f[x] \in Int /\ h[x] \in Int
    OBVIOUS
  <2> QED BY <1>2, <1>3, <2>1, <2>2
<1>5. S \in Good
  <2> HIDE DEF Good
  <2> QED BY <1>1, <1>4, SubsetInduction
<1> QED BY <1>5 DEF F, H

\* The sum over two disjoint sets of indices is the sum of the sums.
LEMMA SumUnion ==
  ASSUME NEW S, IsFiniteSet(S), NEW T, IsFiniteSet(T), S \cap T = {},
         NEW f, \A x \in S \cup T : f[x] \in Int
  PROVE  SumFunctionOnSet(f, S \cup T) = SumFunctionOnSet(f, S) + SumFunctionOnSet(f, T)
<1> DEFINE F(U) == SumFunctionOnSet(f, U)
           Good == {U \in SUBSET T : F(S \cup U) = F(S) + F(U)}
<1>1. F(S) \in Int /\ \A U \in SUBSET T : F(U) \in Int
  BY SumInt
<1>2. {} \in Good
  <2>1. S \cup {} = S /\ F({}) = 0
    BY SumEmpty
  <2> HIDE DEF F
  <2> QED BY <1>1, <2>1
<1>3. \A U \in SUBSET T : \A x \in T \ U : U \in Good => U \cup {x} \in Good
  <2> SUFFICES ASSUME NEW U \in SUBSET T, NEW x \in T \ U, F(S \cup U) = F(S) + F(U)
               PROVE  F(S \cup (U \cup {x})) = F(S) + F(U \cup {x})
    OBVIOUS
  <2>1. IsFiniteSet(U) /\ IsFiniteSet(S \cup U)
    BY FS_Subset, FS_Union
  <2>2. F(U \cup {x}) = F(U) + f[x]
    BY <2>1, SumAdd
  <2>3. F((S \cup U) \cup {x}) = F(S \cup U) + f[x]
    <3> DEFINE V == S \cup U
    <3>1. x \notin V /\ \A y \in V \cup {x} : f[y] \in Int
      OBVIOUS
    <3> HIDE DEF V
    <3>2. IsFiniteSet(V)
      BY <2>1 DEF V
    <3>3. F(V \cup {x}) = F(V) + f[x]
      BY <3>1, <3>2, SumAdd
    <3> QED BY <3>3 DEF V
  <2>4. S \cup (U \cup {x}) = (S \cup U) \cup {x} /\ f[x] \in Int
    OBVIOUS
  <2>5. F(S) \in Int /\ F(U) \in Int
    BY <1>1
  <2>6. F(S \cup (U \cup {x})) = F(S \cup U) + f[x]
    BY <2>3, <2>4
  <2> HIDE DEF F
  <2> QED BY <2>2, <2>4, <2>5, <2>6
<1>4. T \in Good
  <2> HIDE DEF Good
  <2> QED BY <1>2, <1>3, SubsetInduction
<1> QED BY <1>4

\* The elements of S that h sends to p.
Fiber(h, S, p) == {s \in S : h[s] = p}

\* Sorting a set by a function counts each of its elements once.
LEMMA SumFibers ==
  ASSUME NEW S, IsFiniteSet(S), NEW P, IsFiniteSet(P), NEW h, \A s \in S : h[s] \in P,
         NEW f, \A p \in P : f[p] = Cardinality(Fiber(h, S, p))
  PROVE  SumFunctionOnSet(f, P) = Cardinality(S)
<1> DEFINE F(T) == SumFunctionOnSet(f, T)
           Over(T) == {s \in S : h[s] \in T}
           Good == {T \in SUBSET P : F(T) = Cardinality(Over(T))}
<1>1. ASSUME NEW p \in P
      PROVE  f[p] \in Int
  <2>1. IsFiniteSet(Fiber(h, S, p))
    BY FS_Subset DEF Fiber
  <2> QED BY <2>1, FS_CardinalityType
<1>2. {} \in Good
  <2>1. F({}) = 0 /\ Over({}) = {}
    BY SumEmpty
  <2> HIDE DEF F, Over
  <2> QED BY <2>1, FS_EmptySet
<1>3. \A T \in SUBSET P : \A x \in P \ T : T \in Good => T \cup {x} \in Good
  <2> SUFFICES ASSUME NEW T \in SUBSET P, NEW x \in P \ T, F(T) = Cardinality(Over(T))
               PROVE  F(T \cup {x}) = Cardinality(Over(T \cup {x}))
    OBVIOUS
  <2> DEFINE new == Fiber(h, S, x)
  <2>1. IsFiniteSet(T)
    BY FS_Subset
  <2>2. F(T \cup {x}) = F(T) + f[x]
    BY <1>1, <2>1, SumAdd
  <2>3. Over(T \cup {x}) = Over(T) \cup new /\ Over(T) \cap new = {}
    BY DEF Fiber
  <2>4. IsFiniteSet(Over(T)) /\ IsFiniteSet(new)
    BY FS_Subset DEF Fiber
  <2>5. f[x] = Cardinality(new)
    OBVIOUS
  <2> HIDE DEF Over, new, F
  <2>6. Cardinality(Over(T) \cup new) = Cardinality(Over(T)) + Cardinality(new) - Cardinality({})
    BY <2>3, <2>4, FS_Union
  <2>7. Cardinality(Over(T)) \in Nat /\ Cardinality(new) \in Nat /\ Cardinality({}) = 0
    BY <2>4, FS_CardinalityType, FS_EmptySet
  <2> DEFINE a == Cardinality(Over(T))
             b == Cardinality(new)
  <2>8. F(T \cup {x}) = a + b /\ Cardinality(Over(T) \cup new) = a + b - 0
    BY <2>2, <2>5, <2>6, <2>7
  <2> HIDE DEF a, b
  <2>9. a + b = a + b - 0
    BY <2>7 DEF a, b
  <2> QED BY <2>3, <2>8, <2>9
<1>4. P \in Good
  <2> HIDE DEF Good
  <2> QED BY <1>2, <1>3, SubsetInduction
<1>5. Over(P) = S
  OBVIOUS
<1> QED BY <1>4, <1>5

\* A sum over a list without repetitions is the sum over what it lists.
LEMMA SumReindexed ==
  ASSUME NEW D, IsFiniteSet(D), NEW S, NEW s \in [D -> S],
         \A i, j \in D : i # j => s[i] # s[j], NEW e, \A x \in S : e[x] \in Int
  PROVE  SumFunctionOnSet([i \in D |-> e[s[i]]], D) = SumFunctionOnSet(e, {s[i] : i \in D})
<1> DEFINE f == [i \in D |-> e[s[i]]]
           F(T) == SumFunctionOnSet(f, T)
           E(T) == SumFunctionOnSet(e, T)
           Image(T) == {s[i] : i \in T}
           Good == {T \in SUBSET D : IsFiniteSet(Image(T)) /\ F(T) = E(Image(T))}
<1>1. {} \in Good
  <2>1. Image({}) = {}
    OBVIOUS
  <2>2. F({}) = 0 /\ E({}) = 0
    BY SumEmpty
  <2> QED BY <2>1, <2>2, FS_EmptySet
<1>2. \A x \in D : f[x] = e[s[x]] /\ f[x] \in Int
  OBVIOUS
<1>3. ASSUME NEW T \in SUBSET D, NEW x \in D \ T
      PROVE  F(T \cup {x}) = F(T) + e[s[x]]
  <2> HIDE DEF f
  <2>1. IsFiniteSet(T) /\ x \notin T /\ \A y \in T \cup {x} : f[y] \in Int
    BY <1>2, FS_Subset
  <2>2. F(T \cup {x}) = F(T) + f[x]
    BY <2>1, SumAdd
  <2> QED BY <1>2, <2>2
<1>4. ASSUME NEW T \in SUBSET D, NEW x \in D \ T, IsFiniteSet(Image(T))
      PROVE  /\ IsFiniteSet(Image(T \cup {x}))
             /\ E(Image(T \cup {x})) = E(Image(T)) + e[s[x]]
  <2> DEFINE J == Image(T)
             y == s[x]
  <2>1. /\ Image(T \cup {x}) = J \cup {y} /\ y \notin J
        /\ \A z \in J \cup {y} : e[z] \in Int
    OBVIOUS
  <2>2. IsFiniteSet(J)
    BY <1>4
  <2> HIDE DEF J, y
  <2>3. IsFiniteSet(J \cup {y})
    BY <2>2, FS_AddElement
  <2>4. E(J \cup {y}) = E(J) + e[y]
    BY <2>1, <2>2, SumAdd
  <2> QED BY <2>1, <2>3, <2>4 DEF J, y
<1> HIDE DEF f, F, E, Image
<1>5. \A T \in SUBSET D : \A x \in D \ T : T \in Good => T \cup {x} \in Good
  BY <1>3, <1>4
<1>6. D \in Good
  <2> HIDE DEF Good
  <2> QED BY <1>1, <1>5, SubsetInduction
<1> QED BY <1>6 DEF f, F, E, Image

\* Elements that stay different are as many afterwards.
LEMMA ImageCount ==
  ASSUME NEW D, IsFiniteSet(D), NEW s, \A i, j \in D : s[i] = s[j] => i = j
  PROVE  LET T == {s[i] : i \in D} IN IsFiniteSet(T) /\ Cardinality(T) = Cardinality(D)
<1> DEFINE T == {s[i] : i \in D}
           f == [i \in D |-> s[i]]
<1>1. f \in Bijection(D, T)
  BY DEF Bijection, Injection, Surjection, IsInjective
<1>2. ExistsBijection(D, T)
  BY <1>1 DEF ExistsBijection
<1> HIDE DEF T
<1>3. IsFiniteSet(T) /\ Cardinality(T) = Cardinality(D)
  BY <1>2, FS_Bijection
<1> QED BY <1>3 DEF T
=============================================================================
