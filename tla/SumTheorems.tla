---------------------------- MODULE SumTheorems ----------------------------
(***************************************************************************)
(* Lemmas about SumFunctionOnSet(h, S), the sum of h[x] for x in S, for    *)
(* every finite set S.                                                     *)
(*                                                                         *)
(* The library defines the sum by recursion over the subsets of S. Each    *)
(* induction below is the argument from a least counterexample: the strict *)
(* subset relation is well founded on the subsets of a finite set.         *)
(***************************************************************************)
EXTENDS Integers, FiniteSets, Functions, FiniteSetTheorems, WellFoundedInduction, TLAPS

\* The element the library's fold takes first.
Pick(S) == CHOOSE x \in S : TRUE

\* g is the recursive function on the subsets of S that sums h.
Sums(g, h, S) ==
  g = [T \in SUBSET S |-> IF T = {} THEN 0 ELSE h[Pick(T)] + g[T \ {Pick(T)}]]

\* Among the subsets of a finite set that have some property there is a smallest.
LEMMA LeastSubset ==
  ASSUME NEW S, IsFiniteSet(S), NEW Bad \in SUBSET SUBSET S, Bad # {}
  PROVE  \E T \in Bad : \A U \in SUBSET T : U # T => U \notin Bad
<1>1. IsWellFoundedOn(StrictSubsetOrdering(S), SUBSET S)
  BY FS_StrictSubsetOrderingWellFounded, FS_FiniteSubsetsOfFinite
<1>2. PICK T \in Bad : \A U \in Bad : ~ (<<U, T>> \in StrictSubsetOrdering(S))
  BY <1>1, WFMin
<1>3. ASSUME NEW U \in SUBSET T, U # T, U \in Bad PROVE FALSE
  <2>1. <<U, T>> \in StrictSubsetOrdering(S)
    BY <1>3 DEF StrictSubsetOrdering
  <2> QED
    BY <1>2, <1>3, <2>1
<1> QED
  BY <1>3

\* The recursive function is unique.
LEMMA SumsUnique ==
  ASSUME NEW S, IsFiniteSet(S), NEW h, NEW f, NEW g, Sums(f, h, S), Sums(g, h, S)
  PROVE  f = g
<1> DEFINE Bad == {T \in SUBSET S : f[T] # g[T]}
<1>1. SUFFICES ASSUME Bad # {} PROVE FALSE
  BY DEF Sums
<1>b. Bad \in SUBSET SUBSET S
  OBVIOUS
<1>2. PICK T \in Bad : \A U \in SUBSET T : U # T => U \notin Bad
  <2> HIDE DEF Bad
  <2> QED
    BY <1>1, <1>b, LeastSubset
<1>3. T # {}
  BY <1>2 DEF Sums
<1>4. Pick(T) \in T
  BY <1>3 DEF Pick
<1>5. f[T \ {Pick(T)}] = g[T \ {Pick(T)}]
  BY <1>2, <1>4
<1>6. f[T] = h[Pick(T)] + f[T \ {Pick(T)}] /\ g[T] = h[Pick(T)] + g[T \ {Pick(T)}]
  BY <1>3 DEF Sums
<1> QED
  BY <1>2, <1>5, <1>6

\* Restricted to the subsets of a subset, it is that subset's.
LEMMA SumsRestrict ==
  ASSUME NEW S, NEW T \in SUBSET S, NEW h, NEW g, Sums(g, h, S)
  PROVE  Sums([U \in SUBSET T |-> g[U]], h, T)
<1>1. ASSUME NEW U \in SUBSET T
      PROVE  g[U] = IF U = {} THEN 0
                    ELSE h[Pick(U)] + [V \in SUBSET T |-> g[V]][U \ {Pick(U)}]
  <2>1. U \ {Pick(U)} \in SUBSET T /\ U \in SUBSET S
    BY <1>1
  <2>2. g[U] = IF U = {} THEN 0 ELSE h[Pick(U)] + g[U \ {Pick(U)}]
    BY <2>1 DEF Sums
  <2> QED
    BY <2>1, <2>2
<1> QED
  BY <1>1 DEF Sums

\* The library's definition, with the recursive function named.
LEMMA SumUnfolded ==
  ASSUME NEW h, NEW S
  PROVE  SumFunctionOnSet(h, S) = (CHOOSE g : Sums(g, h, S))[S]
BY DEF SumFunctionOnSet, FoldFunctionOnSet, MapThenFoldSet, Sums, Pick

\* Every finite set has one.
LEMMA SumsExists ==
  ASSUME NEW S, IsFiniteSet(S), NEW h
  PROVE  \E g : Sums(g, h, S)
<1> DEFINE Bad == {T \in SUBSET S : ~ \E g : Sums(g, h, T)}
           Val(T) == (CHOOSE g : Sums(g, h, T))[T]
<1>1. SUFFICES ASSUME Bad # {} PROVE FALSE
  OBVIOUS
<1>b. Bad \in SUBSET SUBSET S
  OBVIOUS
<1>2. PICK T \in Bad : \A U \in SUBSET T : U # T => U \notin Bad
  <2> HIDE DEF Bad
  <2> QED
    BY <1>1, <1>b, LeastSubset
<1>3. \A U \in SUBSET T : U # T => Sums(CHOOSE g : Sums(g, h, U), h, U)
  BY <1>2
\* What a proper subset's function says of a smaller set is that set's own value.
<1>4. ASSUME NEW U \in SUBSET T, U # T, NEW g, Sums(g, h, U), NEW V \in SUBSET U
      PROVE  g[V] = Val(V)
  <2>1. IsFiniteSet(V) /\ V # T
    BY <1>4, FS_Subset
  <2>2. Sums([W \in SUBSET V |-> g[W]], h, V)
    <3>1. V \in SUBSET U /\ Sums(g, h, U)
      BY <1>4
    <3> HIDE DEF Bad, Val
    <3> QED
      BY ONLY <3>1, SumsRestrict
  <2>3. Sums(CHOOSE f : Sums(f, h, V), h, V)
    BY <1>3, <1>4, <2>1
  <2>4. [W \in SUBSET V |-> g[W]] = (CHOOSE f : Sums(f, h, V))
    BY <2>1, <2>2, <2>3, SumsUnique
  <2> QED
    BY <2>4
<1> DEFINE next(U) == IF U = {} THEN 0 ELSE h[Pick(U)] + Val(U \ {Pick(U)})
           new == [U \in SUBSET T |-> next(U)]
<1>5. ASSUME NEW U \in SUBSET T, U # T PROVE Val(U) = next(U)
  <2> DEFINE g == CHOOSE f : Sums(f, h, U)
  <2>1. Sums(g, h, U)
    BY <1>3, <1>5
  <2>2. g[U] = IF U = {} THEN 0 ELSE h[Pick(U)] + g[U \ {Pick(U)}]
    BY <2>1 DEF Sums
  <2>3. g[U \ {Pick(U)}] = Val(U \ {Pick(U)})
    <3> HIDE DEF g
    <3> QED
      BY <1>4, <1>5, <2>1, ZenonT(30)
  <2> QED
    BY <2>2, <2>3
<1>6. ASSUME NEW U \in SUBSET T
      PROVE  new[U] = IF U = {} THEN 0 ELSE h[Pick(U)] + new[U \ {Pick(U)}]
  <2>1. CASE U = {}
    BY <2>1
  <2>2. CASE U # {}
    <3>1. Pick(U) \in U
      BY <2>2 DEF Pick
    <3>2. U \ {Pick(U)} \in SUBSET T /\ U \ {Pick(U)} # T
      BY <3>1
    <3>3. new[U \ {Pick(U)}] = Val(U \ {Pick(U)})
      BY <1>5, <3>2
    <3> QED
      BY <2>2, <3>3
  <2> QED
    BY <2>1, <2>2
<1>7. Sums(new, h, T)
  <2> HIDE DEF next
  <2>1. new = [U \in SUBSET T |-> new[U]]
    OBVIOUS
  <2> HIDE DEF new
  <2> QED
    BY <1>6, <2>1 DEF Sums
<1> QED
  BY <1>2, <1>7

-----------------------------------------------------------------------------
(* What the proofs about the models use *)

\* Nothing sums to zero.
LEMMA SumEmpty ==
  ASSUME NEW h
  PROVE  SumFunctionOnSet(h, {}) = 0
<1>1. IsFiniteSet({})
  BY FS_EmptySet
<1>2. Sums(CHOOSE g : Sums(g, h, {}), h, {})
  BY <1>1, SumsExists
<1> QED
  BY <1>2, SumUnfolded DEF Sums

\* The sum is that of the element picked and the rest.
LEMMA SumPick ==
  ASSUME NEW S, IsFiniteSet(S), S # {}, NEW h
  PROVE  /\ Pick(S) \in S
         /\ SumFunctionOnSet(h, S) = h[Pick(S)] + SumFunctionOnSet(h, S \ {Pick(S)})
<1> DEFINE x == Pick(S)
           R == S \ {x}
           g == CHOOSE f : Sums(f, h, S)
           k == CHOOSE f : Sums(f, h, R)
<1>1. x \in S
  BY DEF Pick
<1>2. IsFiniteSet(R) /\ R \in SUBSET S
  BY FS_Subset
<1>3. Sums(g, h, S) /\ Sums(k, h, R)
  <2> HIDE DEF R
  <2> QED
    BY <1>2, SumsExists
<1>4. Sums([U \in SUBSET R |-> g[U]], h, R)
  <2> HIDE DEF g, k, R
  <2> QED
    BY <1>2, <1>3, SumsRestrict
<1>5. [U \in SUBSET R |-> g[U]] = k
  <2> HIDE DEF g, k, R
  <2> QED
    BY <1>2, <1>3, <1>4, SumsUnique
<1>6. g[S] = h[x] + g[R]
  <2> HIDE DEF g
  <2> QED
    BY <1>3 DEF Sums
<1>7. g[R] = k[R]
  <2> HIDE DEF g, k, R
  <2> QED
    BY <1>5
<1>8. SumFunctionOnSet(h, S) = g[S] /\ SumFunctionOnSet(h, R) = k[R]
  <2> HIDE DEF R
  <2> QED
    BY SumUnfolded
<1> QED
  BY <1>1, <1>6, <1>7, <1>8

\* The sum of natural numbers is one.
LEMMA SumNat ==
  ASSUME NEW S, IsFiniteSet(S), NEW h, \A x \in S : h[x] \in Nat
  PROVE  SumFunctionOnSet(h, S) \in Nat
<1> DEFINE Bad == {T \in SUBSET S : SumFunctionOnSet(h, T) \notin Nat}
<1>1. SUFFICES ASSUME Bad # {} PROVE FALSE
  OBVIOUS
<1>2. Bad \in SUBSET SUBSET S
  OBVIOUS
<1>3. PICK T \in Bad : \A U \in SUBSET T : U # T => U \notin Bad
  <2> HIDE DEF Bad
  <2> QED
    BY <1>1, <1>2, LeastSubset
<1>4. T # {} /\ IsFiniteSet(T)
  <2>1. SumFunctionOnSet(h, {}) \in Nat
    BY SumEmpty
  <2>2. T # {}
    BY <2>1
  <2> QED
    BY <2>2, FS_Subset
<1>5. /\ Pick(T) \in T
      /\ SumFunctionOnSet(h, T) = h[Pick(T)] + SumFunctionOnSet(h, T \ {Pick(T)})
  BY <1>4, SumPick
<1>6. SumFunctionOnSet(h, T \ {Pick(T)}) \in Nat
  BY <1>3, <1>5
<1> QED
  BY <1>5, <1>6

\* The sum depends on the summands only.
LEMMA SumAgree ==
  ASSUME NEW S, IsFiniteSet(S), NEW f, NEW h, \A x \in S : f[x] = h[x]
  PROVE  SumFunctionOnSet(f, S) = SumFunctionOnSet(h, S)
<1> DEFINE Bad == {T \in SUBSET S : SumFunctionOnSet(f, T) # SumFunctionOnSet(h, T)}
<1>1. SUFFICES ASSUME Bad # {} PROVE FALSE
  OBVIOUS
<1>2. Bad \in SUBSET SUBSET S
  OBVIOUS
<1>3. PICK T \in Bad : \A U \in SUBSET T : U # T => U \notin Bad
  <2> HIDE DEF Bad
  <2> QED
    BY <1>1, <1>2, LeastSubset
<1>4. T # {} /\ IsFiniteSet(T)
  <2>1. SumFunctionOnSet(f, {}) = 0 /\ SumFunctionOnSet(h, {}) = 0
    BY SumEmpty
  <2>2. T # {}
    BY <2>1
  <2> QED
    BY <2>2, FS_Subset
<1>5. /\ Pick(T) \in T
      /\ SumFunctionOnSet(f, T) = f[Pick(T)] + SumFunctionOnSet(f, T \ {Pick(T)})
      /\ SumFunctionOnSet(h, T) = h[Pick(T)] + SumFunctionOnSet(h, T \ {Pick(T)})
  BY <1>4, SumPick
<1>6. SumFunctionOnSet(f, T \ {Pick(T)}) = SumFunctionOnSet(h, T \ {Pick(T)})
  BY <1>3, <1>5
<1> QED
  BY <1>3, <1>5, <1>6

\* Whichever element is taken first, the sum is the same.
LEMMA SumRemove ==
  ASSUME NEW S, IsFiniteSet(S), NEW h, \A x \in S : h[x] \in Nat, NEW y \in S
  PROVE  SumFunctionOnSet(h, S) = h[y] + SumFunctionOnSet(h, S \ {y})
<1> DEFINE Total(T) == SumFunctionOnSet(h, T)
           Bad == {T \in SUBSET S : \E x \in T : Total(T) # h[x] + Total(T \ {x})}
<1>1. SUFFICES ASSUME Bad # {} PROVE FALSE
  OBVIOUS
<1>2. Bad \in SUBSET SUBSET S
  OBVIOUS
<1>3. PICK T \in Bad : \A U \in SUBSET T : U # T => U \notin Bad
  <2> HIDE DEF Bad
  <2> QED
    BY <1>1, <1>2, LeastSubset
<1>4. PICK x \in T : Total(T) # h[x] + Total(T \ {x})
  OBVIOUS
<1> DEFINE p == Pick(T)
           R == T \ {x, p}
<1>5. IsFiniteSet(T) /\ \A U \in SUBSET T : IsFiniteSet(U)
  BY FS_Subset
<1>6. p \in T /\ Total(T) = h[p] + Total(T \ {p})
  BY <1>4, <1>5, SumPick
<1>7. p # x
  BY <1>4, <1>6
<1>8. Total(T \ {p}) = h[x] + Total(R)
  <2>1. x \in T \ {p} /\ (T \ {p}) \ {x} = R /\ T \ {p} \in SUBSET T /\ T \ {p} # T
    BY <1>4, <1>6, <1>7
  <2> QED
    BY <1>3, <2>1
<1>9. Total(T \ {x}) = h[p] + Total(R)
  <2>1. p \in T \ {x} /\ (T \ {x}) \ {p} = R /\ T \ {x} \in SUBSET T /\ T \ {x} # T
    BY <1>4, <1>6, <1>7
  <2> QED
    BY <1>3, <2>1
<1>10. Total(R) \in Nat /\ h[x] \in Nat /\ h[p] \in Nat
  <2>1. R \in SUBSET T /\ \A z \in R : h[z] \in Nat
    OBVIOUS
  <2>2. Total(R) \in Nat
    <3> HIDE DEF R
    <3> QED
      BY <1>5, <2>1, SumNat
  <2> QED
    BY <1>4, <1>6, <2>2
<1> QED
  <2> HIDE DEF Total, R, p
  <2> QED
    BY <1>4, <1>6, <1>8, <1>9, <1>10

\* An element more adds its summand.
LEMMA SumAdd ==
  ASSUME NEW S, IsFiniteSet(S), NEW h, NEW y, y \notin S, \A x \in S \cup {y} : h[x] \in Nat
  PROVE  SumFunctionOnSet(h, S \cup {y}) = h[y] + SumFunctionOnSet(h, S)
<1>1. (S \cup {y}) \ {y} = S
  OBVIOUS
<1>2. IsFiniteSet(S \cup {y})
  BY FS_AddElement
<1> QED
  BY <1>1, <1>2, SumRemove

\* Disjoint sets are summed one after the other.
LEMMA SumUnion ==
  ASSUME NEW S, NEW T, IsFiniteSet(S), IsFiniteSet(T), S \cap T = {},
         NEW h, \A x \in S \cup T : h[x] \in Nat
  PROVE  SumFunctionOnSet(h, S \cup T) = SumFunctionOnSet(h, S) + SumFunctionOnSet(h, T)
<1> DEFINE Total(U) == SumFunctionOnSet(h, U)
           Bad == {U \in SUBSET T : Total(S \cup U) # Total(S) + Total(U)}
<1>1. SUFFICES ASSUME Bad # {} PROVE FALSE
  OBVIOUS
<1>2. Bad \in SUBSET SUBSET T
  OBVIOUS
<1>3. PICK U \in Bad : \A V \in SUBSET U : V # U => V \notin Bad
  <2> HIDE DEF Bad
  <2> QED
    BY <1>1, <1>2, LeastSubset
<1>4. \A V \in SUBSET U : IsFiniteSet(V) /\ IsFiniteSet(S \cup V) /\ Total(V) \in Nat
  BY FS_Subset, FS_Union, SumNat
<1>5. Total(S) \in Nat
  BY SumNat
<1>6. U # {}
  BY <1>5, SumEmpty
<1>7. PICK x \in U : TRUE
  BY <1>6
<1> DEFINE V == U \ {x}
<1>8. V \in SUBSET U /\ V # U /\ x \notin S \cup V
  BY <1>7
<1>9. Total(S \cup V) = Total(S) + Total(V)
  BY <1>3, <1>8
<1>10. Total(U) = h[x] + Total(V)
  BY <1>4, SumRemove
<1>11. Total(S \cup U) = h[x] + Total(S \cup V)
  <2>1. (S \cup U) \ {x} = S \cup V
    BY <1>8
  <2>2. IsFiniteSet(S \cup U) /\ \A z \in S \cup U : h[z] \in Nat
    BY <1>4
  <2> QED
    BY <2>1, <2>2, SumRemove
<1>12. h[x] \in Nat /\ Total(V) \in Nat
  BY <1>4, <1>8
<1> QED
  <2> HIDE DEF Total, V
  <2> QED
    BY <1>3, <1>5, <1>9, <1>10, <1>11, <1>12
=============================================================================
