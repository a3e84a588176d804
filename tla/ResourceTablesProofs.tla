------------------------ MODULE ResourceTablesProofs ------------------------
(***************************************************************************)
(* What the aggregator's tables hold, for any machine: the facts about     *)
(* ResourceTables that the proofs about Aggregator cite, and before them   *)
(* those about the sums its amounts are.                                   *)
(*                                                                         *)
(* A sum is SumFunctionOnSet(f, S) of the community module Functions.  Its *)
(* lemmas are proved without an induction theorem: a family of subsets of  *)
(* a finite set has a minimal member, so a statement about all subsets     *)
(* that fails fails first for one.                                         *)
(***************************************************************************)
EXTENDS ResourceTables, FiniteSetTheorems, TLAPS

-----------------------------------------------------------------------------
(* Sums over finite sets.                                                  *)

\* The minimal member: the strict subsets of a finite set are well-founded.
LEMMA MinimalSubset ==
  ASSUME NEW S, IsFiniteSet(S), NEW F, F \subseteq SUBSET S, F # {}
  PROVE  \E T \in F : \A U \in F : ~(U \subseteq T /\ U # T)
<1>1. IsWellFoundedOn(StrictSubsetOrdering(S), SUBSET S)
  BY FS_FiniteSubsetsOfFinite, FS_StrictSubsetOrderingWellFounded, Zenon
<1>2. \E T \in F : \A U \in F : ~(<<U, T>> \in StrictSubsetOrdering(S))
  BY <1>1, WFMin, Zenon
<1> QED BY <1>2 DEF StrictSubsetOrdering

\* What the definition of the sum takes out of a set first.
Pick(T) == CHOOSE x \in T : TRUE

\* The function on the subsets of S that the definition reads the sum of S off.
IsSum(g, f, S) ==
  g = [T \in SUBSET S |-> IF T = {} THEN 0 ELSE f[Pick(T)] + g[T \ {Pick(T)}]]

\* There is something to take out of a set that is not empty.
LEMMA PickIsMember == ASSUME NEW T, T # {} PROVE Pick(T) \in T
BY Zenon DEF Pick

\* SumFunctionOnSet, its folds expanded.
LEMMA SumDef ==
  ASSUME NEW f, NEW S
  PROVE SumFunctionOnSet(f, S) = (CHOOSE g : IsSum(g, f, S))[S]
BY Zenon DEF SumFunctionOnSet, FoldFunctionOnSet, MapThenFoldSet, IsSum, Pick

\* The function for a subset agrees with the one for the set.
LEMMA SumUnique ==
  ASSUME NEW f, NEW S, IsFiniteSet(S), NEW g, IsSum(g, f, S), NEW U \in SUBSET S,
         NEW h, IsSum(h, f, U), NEW T \in SUBSET U
  PROVE  g[T] = h[T]
<1> DEFINE Differ == {V \in SUBSET U : g[V] # h[V]}
<1> SUFFICES ASSUME Differ # {} PROVE FALSE
  OBVIOUS
<1>1. IsFiniteSet(U)
  BY FS_Subset
<1>2. PICK V \in Differ : \A W \in Differ : ~(W \subseteq V /\ W # V)
  <2>1. Differ \subseteq SUBSET U
    OBVIOUS
  <2> HIDE DEF Differ
  <2> QED BY <1>1, <2>1, MinimalSubset
<1>3. CASE V = {}
  BY <1>3 DEF IsSum
<1>4. CASE V # {}
  <2> DEFINE x == Pick(V)
             W == V \ {x}
  <2>1. x \in V
    BY <1>4, PickIsMember
  <2>2. W \in SUBSET U /\ W # V
    BY <2>1
  <2>3. g[W] = h[W]
    BY <1>2, <2>2
  <2>4. g[V] = f[x] + g[W]
    BY <1>4 DEF IsSum
  <2>5. h[V] = f[x] + h[W]
    BY <1>4 DEF IsSum
  <2> QED BY <2>3, <2>4, <2>5
<1> QED BY <1>3, <1>4

\* There is such a function for every finite set.
LEMMA SumExists ==
  ASSUME NEW f, NEW S, IsFiniteSet(S)
  PROVE  \E g : IsSum(g, f, S)
<1> DEFINE Without == {U \in SUBSET S : ~ \E g : IsSum(g, f, U)}
<1> SUFFICES ASSUME Without # {} PROVE FALSE
  OBVIOUS
<1>1. PICK V \in Without : \A W \in Without : ~(W \subseteq V /\ W # V)
  <2>1. Without \subseteq SUBSET S
    OBVIOUS
  <2> HIDE DEF Without
  <2> QED BY <2>1, MinimalSubset
<1> DEFINE Val(W) == (CHOOSE g : IsSum(g, f, W))[W]
           g == [T \in SUBSET V |->
                   IF T = {} THEN 0 ELSE f[Pick(T)] + Val(T \ {Pick(T)})]
<1>2. IsFiniteSet(V)
  BY FS_Subset
<1>3. ASSUME NEW T \in SUBSET V, T # V PROVE g[T] = Val(T)
  <2>1. PICK h : IsSum(h, f, T)
    BY <1>1, <1>3
  <2>2. IsSum(CHOOSE k : IsSum(k, f, T), f, T)
    BY <2>1, Zenon
  <2> DEFINE k == CHOOSE k : IsSum(k, f, T)
  <2>3. Val(T) = k[T] /\ IsSum(k, f, T)
    BY <2>2
  <2> HIDE DEF k
  <2>4. CASE T = {}
    BY <2>3, <2>4 DEF IsSum
  <2>5. CASE T # {}
    <3> DEFINE x == Pick(T)
               W == T \ {x}
    <3>1. x \in T
      BY <2>5, PickIsMember
    <3>2. W \in SUBSET T /\ W # V /\ W \in SUBSET V
      BY <3>1
    <3>3. \E m : IsSum(m, f, W)
      BY <1>1, <3>1, <3>2
    <3>4. IsSum(CHOOSE m : IsSum(m, f, W), f, W)
      BY <3>3, Zenon
    <3>5. IsFiniteSet(T)
      BY <1>2, FS_Subset
    <3>6. k[W] = Val(W)
      BY <2>3, <3>2, <3>4, <3>5, SumUnique
    <3>7. k[T] = f[x] + k[W]
      BY <2>3, <2>5 DEF IsSum
    <3>8. g[T] = f[x] + Val(W)
      BY <2>5
    <3> QED BY <2>3, <3>6, <3>7, <3>8
  <2> QED BY <2>4, <2>5
<1>4. IsSum(g, f, V)
  <2>1. ASSUME NEW T \in SUBSET V, T # {}
        PROVE  g[T \ {Pick(T)}] = Val(T \ {Pick(T)})
    <3>1. T \ {Pick(T)} \in SUBSET V /\ T \ {Pick(T)} # V
      BY <2>1, PickIsMember
    <3> HIDE DEF g, Val
    <3> QED BY <1>3, <3>1
  <2> HIDE DEF Val
  <2>2. \A T \in SUBSET V :
          g[T] = IF T = {} THEN 0 ELSE f[Pick(T)] + g[T \ {Pick(T)}]
    BY <2>1
  <2>3. g = [T \in SUBSET V |-> g[T]]
    OBVIOUS
  <2> HIDE DEF g
  <2> QED BY <2>2, <2>3, Zenon DEF IsSum
<1> QED BY <1>1, <1>4

\* A sum is one over fewer, and what the one picked adds.
LEMMA SumPicked ==
  ASSUME NEW f, NEW S, IsFiniteSet(S)
  PROVE  SumFunctionOnSet(f, S)
           = IF S = {} THEN 0 ELSE f[Pick(S)] + SumFunctionOnSet(f, S \ {Pick(S)})
<1>1. PICK g : IsSum(g, f, S)
  BY SumExists
<1> DEFINE c == CHOOSE k : IsSum(k, f, S)
<1>2. IsSum(c, f, S) /\ SumFunctionOnSet(f, S) = c[S]
  BY <1>1, SumDef, Zenon
<1> HIDE DEF c
<1>3. CASE S = {}
  BY <1>2, <1>3 DEF IsSum
<1>4. CASE S # {}
  <2> DEFINE W == S \ {Pick(S)}
             d == CHOOSE k : IsSum(k, f, W)
  <2>1. IsFiniteSet(W) /\ W \in SUBSET S
    BY FS_Subset
  <2>2. IsSum(d, f, W) /\ SumFunctionOnSet(f, W) = d[W]
    <3> HIDE DEF W
    <3> QED BY <2>1, SumExists, SumDef, Zenon
  <2> HIDE DEF d
  <2>3. c[W] = d[W]
    BY <1>2, <2>1, <2>2, SumUnique
  <2>4. c[S] = f[Pick(S)] + c[W]
    BY <1>2, <1>4 DEF IsSum
  <2> QED BY <1>2, <1>4, <2>2, <2>3, <2>4
<1> QED BY <1>3, <1>4

\* The sum of nothing.
LEMMA SumEmpty == \A f : SumFunctionOnSet(f, {}) = 0
BY FS_EmptySet, SumPicked

\* An integer, if all that is summed up are.
LEMMA SumType ==
  ASSUME NEW f, NEW S, IsFiniteSet(S), \A x \in S : f[x] \in Int
  PROVE  SumFunctionOnSet(f, S) \in Int
<1> DEFINE Wrong == {T \in SUBSET S : SumFunctionOnSet(f, T) \notin Int}
<1> SUFFICES ASSUME Wrong # {} PROVE FALSE
  OBVIOUS
<1>1. PICK T \in Wrong : \A U \in Wrong : ~(U \subseteq T /\ U # T)
  <2>1. Wrong \subseteq SUBSET S
    OBVIOUS
  <2> HIDE DEF Wrong
  <2> QED BY <2>1, MinimalSubset
<1>2. IsFiniteSet(T)
  BY FS_Subset
<1>3. T # {}
  BY SumEmpty
<1>4. Pick(T) \in T
  BY <1>3, PickIsMember
<1>5. SumFunctionOnSet(f, T \ {Pick(T)}) \in Int
  BY <1>1, <1>4
<1> QED BY <1>2, <1>3, <1>4, <1>5, SumPicked

\* It depends on what is summed up only.
LEMMA SumSame ==
  ASSUME NEW f, NEW g, NEW S, IsFiniteSet(S), \A x \in S : f[x] = g[x]
  PROVE  SumFunctionOnSet(f, S) = SumFunctionOnSet(g, S)
<1> DEFINE Wrong == {T \in SUBSET S : SumFunctionOnSet(f, T) # SumFunctionOnSet(g, T)}
<1> SUFFICES ASSUME Wrong # {} PROVE FALSE
  OBVIOUS
<1>1. PICK T \in Wrong : \A U \in Wrong : ~(U \subseteq T /\ U # T)
  <2>1. Wrong \subseteq SUBSET S
    OBVIOUS
  <2> HIDE DEF Wrong
  <2> QED BY <2>1, MinimalSubset
<1>2. IsFiniteSet(T)
  BY FS_Subset
<1>3. T # {}
  BY SumEmpty
<1>4. Pick(T) \in T
  BY <1>3, PickIsMember
<1>5. SumFunctionOnSet(f, T \ {Pick(T)}) = SumFunctionOnSet(g, T \ {Pick(T)})
  BY <1>1, <1>4
<1> QED BY <1>2, <1>3, <1>4, <1>5, SumPicked

\* The order does not matter: any element may be taken out.
LEMMA SumElement ==
  ASSUME NEW f, NEW S, IsFiniteSet(S), \A y \in S : f[y] \in Int, NEW x \in S
  PROVE  SumFunctionOnSet(f, S) = f[x] + SumFunctionOnSet(f, S \ {x})
<1> DEFINE Sum(T) == SumFunctionOnSet(f, T)
           Wrong == {T \in SUBSET S : \E y \in T : Sum(T) # f[y] + Sum(T \ {y})}
<1> SUFFICES ASSUME Wrong # {} PROVE FALSE
  OBVIOUS
<1>1. PICK T \in Wrong : \A U \in Wrong : ~(U \subseteq T /\ U # T)
  <2>1. Wrong \subseteq SUBSET S
    OBVIOUS
  <2> HIDE DEF Wrong
  <2> QED BY <2>1, MinimalSubset
<1>2. PICK y \in T : Sum(T) # f[y] + Sum(T \ {y})
  OBVIOUS
<1> DEFINE p == Pick(T)
           Rest == T \ {y, p}
<1>3. p \in T /\ Sum(T) = f[p] + Sum(T \ {p})
  <2>1. IsFiniteSet(T) /\ T # {}
    BY FS_Subset
  <2> QED BY <2>1, PickIsMember, SumPicked
<1>4. p # y
  BY <1>2, <1>3
<1>5. Sum(T \ {p}) = f[y] + Sum(Rest)
  <2>1. T \ {p} \notin Wrong
    BY <1>1, <1>3
  <2>2. y \in T \ {p} /\ (T \ {p}) \ {y} = Rest
    BY <1>4
  <2> QED BY <2>1, <2>2
<1>6. Sum(T \ {y}) = f[p] + Sum(Rest)
  <2>1. T \ {y} \notin Wrong
    BY <1>1
  <2>2. p \in T \ {y} /\ (T \ {y}) \ {p} = Rest
    BY <1>3, <1>4
  <2> QED BY <2>1, <2>2
<1>7. Sum(Rest) \in Int /\ f[p] \in Int /\ f[y] \in Int
  <2>1. IsFiniteSet(Rest) /\ \A z \in Rest : f[z] \in Int
    BY FS_Subset
  <2> QED BY <2>1, <1>3, SumType
<1> HIDE DEF Sum, p, Rest
<1> QED BY <1>2, <1>3, <1>5, <1>6, <1>7

\* Amounts that are not negative sum up to one that is not, and no less than any.
LEMMA SumNat ==
  ASSUME NEW f, NEW S, IsFiniteSet(S), \A x \in S : f[x] \in Nat
  PROVE  /\ SumFunctionOnSet(f, S) \in Nat
         /\ \A x \in S : f[x] <= SumFunctionOnSet(f, S)
<1> DEFINE Sum(T) == SumFunctionOnSet(f, T)
           Wrong == {T \in SUBSET S : Sum(T) \notin Nat}
<1>1. Wrong = {}
  <2> SUFFICES ASSUME Wrong # {} PROVE FALSE
    OBVIOUS
  <2>1. PICK T \in Wrong : \A U \in Wrong : ~(U \subseteq T /\ U # T)
    <3>1. Wrong \subseteq SUBSET S
      OBVIOUS
    <3> HIDE DEF Wrong
    <3> QED BY <3>1, MinimalSubset
  <2>2. IsFiniteSet(T) /\ T # {}
    <3>1. IsFiniteSet(T)
      BY FS_Subset
    <3>2. Sum({}) = 0
      BY SumEmpty
    <3> HIDE DEF Sum
    <3> QED BY <3>1, <3>2
  <2>3. Pick(T) \in T
    BY <2>2, PickIsMember
  <2>4. Sum(T \ {Pick(T)}) \in Nat
    BY <2>1, <2>3
  <2> QED BY <2>2, <2>3, <2>4, SumPicked
<1>2. ASSUME NEW x \in S PROVE f[x] <= Sum(S)
  <2>1. Sum(S \ {x}) \in Nat
    BY <1>1
  <2>2. Sum(S) = f[x] + Sum(S \ {x})
    BY SumElement
  <2> HIDE DEF Sum
  <2> QED BY <2>1, <2>2
<1> QED BY <1>1, <1>2

\* One amount changes.
LEMMA SumChange ==
  ASSUME NEW f, NEW g, NEW S, IsFiniteSet(S), NEW x \in S,
         \A y \in S : f[y] \in Int, g[x] \in Int, \A y \in S \ {x} : g[y] = f[y]
  PROVE  SumFunctionOnSet(g, S) = SumFunctionOnSet(f, S) + g[x] - f[x]
<1> DEFINE SumF == SumFunctionOnSet(f, S \ {x})
<1>1. IsFiniteSet(S \ {x})
  BY FS_Subset
<1>2. SumF \in Int /\ SumFunctionOnSet(g, S \ {x}) = SumF
  BY <1>1, SumType, SumSame
<1>3. \A y \in S : g[y] \in Int
  OBVIOUS
<1>4. SumFunctionOnSet(f, S) = f[x] + SumF
  BY SumElement
<1>5. SumFunctionOnSet(g, S) = g[x] + SumF
  BY <1>2, <1>3, SumElement
<1> HIDE DEF SumF
<1> QED BY <1>2, <1>4, <1>5

\* What adds nothing may be left out.
LEMMA SumNonzero ==
  ASSUME NEW f, NEW S, IsFiniteSet(S), \A x \in S : f[x] \in Int,
         NEW U \in SUBSET S, \A x \in S \ U : f[x] = 0
  PROVE  SumFunctionOnSet(f, U) = SumFunctionOnSet(f, S)
<1> DEFINE Sum(T) == SumFunctionOnSet(f, T)
           Wrong == {T \in SUBSET S : U \subseteq T /\ Sum(T) # Sum(U)}
<1> SUFFICES ASSUME Wrong # {} PROVE FALSE
  OBVIOUS
<1>1. PICK T \in Wrong : \A V \in Wrong : ~(V \subseteq T /\ V # T)
  <2>1. Wrong \subseteq SUBSET S
    OBVIOUS
  <2> HIDE DEF Wrong
  <2> QED BY <2>1, MinimalSubset
<1>2. PICK x \in T : x \notin U
  OBVIOUS
<1>3. Sum(T \ {x}) = Sum(U)
  BY <1>1, <1>2
<1>4. Sum(T) = f[x] + Sum(T \ {x})
  <2>1. IsFiniteSet(T) /\ \A y \in T : f[y] \in Int
    BY FS_Subset
  <2> QED BY <2>1, SumElement
<1>5. Sum(T \ {x}) \in Int /\ f[x] = 0
  <2>1. IsFiniteSet(T \ {x}) /\ \A y \in T \ {x} : f[y] \in Int
    BY FS_Subset
  <2> QED BY <2>1, <1>2, SumType
<1> HIDE DEF Sum
<1> QED BY <1>1, <1>3, <1>4, <1>5

\* Amounts that are not negative, over fewer.
LEMMA SumSubset ==
  ASSUME NEW f, NEW S, IsFiniteSet(S), \A x \in S : f[x] \in Nat, NEW U \in SUBSET S
  PROVE  /\ SumFunctionOnSet(f, U) \in Nat
         /\ SumFunctionOnSet(f, S) \in Nat
         /\ SumFunctionOnSet(f, U) <= SumFunctionOnSet(f, S)
<1> DEFINE Sum(T) == SumFunctionOnSet(f, T)
           Wrong == {T \in SUBSET S : U \subseteq T /\ ~(Sum(U) <= Sum(T))}
<1>1. ASSUME NEW T \in SUBSET S PROVE IsFiniteSet(T) /\ Sum(T) \in Nat
  <2>1. IsFiniteSet(T) /\ \A x \in T : f[x] \in Nat
    BY FS_Subset
  <2> QED BY <2>1, SumNat
<1>2. Wrong = {}
  <2> SUFFICES ASSUME Wrong # {} PROVE FALSE
    OBVIOUS
  <2>1. PICK T \in Wrong : \A V \in Wrong : ~(V \subseteq T /\ V # T)
    <3>1. Wrong \subseteq SUBSET S
      OBVIOUS
    <3> HIDE DEF Wrong
    <3> QED BY <3>1, MinimalSubset
  <2>2. Sum(U) \in Nat /\ Sum(T) \in Nat /\ T # U
    BY <1>1, <2>1
  <2>3. PICK x \in T : x \notin U
    BY <2>1, <2>2
  <2>4. Sum(U) <= Sum(T \ {x}) /\ Sum(T \ {x}) \in Nat
    BY <1>1, <2>1, <2>3
  <2>5. Sum(T) = f[x] + Sum(T \ {x}) /\ f[x] \in Nat
    <3>1. IsFiniteSet(T) /\ \A y \in T : f[y] \in Int
      BY <1>1
    <3> QED BY <3>1, <2>3, SumElement
  <2>6. ~(Sum(U) <= Sum(T))
    BY <2>1
  <2> HIDE DEF Sum
  <2> QED BY <2>2, <2>4, <2>5, <2>6
<1>3. Sum(U) <= Sum(S)
  <2>1. U \subseteq S /\ S \in SUBSET S
    OBVIOUS
  <2> HIDE DEF Sum
  <2> QED BY <1>2, <2>1
<1> HIDE DEF Sum
<1>4. SumFunctionOnSet(f, U) = Sum(U) /\ SumFunctionOnSet(f, S) = Sum(S)
  BY DEF Sum
<1> QED BY <1>1, <1>3, <1>4

\* The amounts of a set may be numbered otherwise.
LEMMA SumRenumbered ==
  ASSUME NEW f, NEW g, NEW S, IsFiniteSet(S), \A x \in S : f[x] \in Int,
         NEW b, \A x, y \in S : b[x] = b[y] => x = y, \A x \in S : g[b[x]] = f[x]
  PROVE  SumFunctionOnSet(g, {b[x] : x \in S}) = SumFunctionOnSet(f, S)
<1> DEFINE Image(T) == {b[x] : x \in T}
           Wrong == {T \in SUBSET S :
                       SumFunctionOnSet(g, Image(T)) # SumFunctionOnSet(f, T)}
<1> SUFFICES ASSUME Wrong # {} PROVE FALSE
  OBVIOUS
<1>1. PICK T \in Wrong : \A U \in Wrong : ~(U \subseteq T /\ U # T)
  <2>1. Wrong \subseteq SUBSET S
    OBVIOUS
  <2> HIDE DEF Wrong
  <2> QED BY <2>1, MinimalSubset
<1>2. T # {}
  <2>1. Image({}) = {}
    OBVIOUS
  <2> HIDE DEF Image
  <2> QED BY <2>1, SumEmpty
<1>3. PICK x \in T : TRUE
  BY <1>2
<1>4. IsFiniteSet(T) /\ \A y \in T : f[y] \in Int
  BY FS_Subset
<1>5. SumFunctionOnSet(f, T) = f[x] + SumFunctionOnSet(f, T \ {x})
  BY <1>4, SumElement
<1>6. SumFunctionOnSet(g, Image(T)) = g[b[x]] + SumFunctionOnSet(g, Image(T) \ {b[x]})
  <2>1. IsFiniteSet(Image(T))
    <3>1. [y \in T |-> b[y]] \in Surjection(T, Image(T))
      BY DEF Surjection
    <3> HIDE DEF Image
    <3> QED BY <1>4, <3>1, FS_Surjection
  <2>2. b[x] \in Image(T) /\ \A z \in Image(T) : g[z] \in Int
    OBVIOUS
  <2> HIDE DEF Image
  <2> QED BY <2>1, <2>2, SumElement
<1>7. Image(T) \ {b[x]} = Image(T \ {x})
  OBVIOUS
<1>8. SumFunctionOnSet(g, Image(T \ {x})) = SumFunctionOnSet(f, T \ {x})
  BY <1>1
<1> HIDE DEF Image
<1> QED BY <1>5, <1>6, <1>7, <1>8

\* A union has no more elements than its members together.
LEMMA UnionBounded ==
  ASSUME NEW F, NEW S, IsFiniteSet(S), NEW c,
         \A i \in S : IsFiniteSet(F[i]) /\ c[i] \in Nat /\ Cardinality(F[i]) <= c[i]
  PROVE  /\ IsFiniteSet(UNION {F[i] : i \in S})
         /\ Cardinality(UNION {F[i] : i \in S}) <= SumFunctionOnSet(c, S)
<1> DEFINE U(T) == UNION {F[i] : i \in T}
           Sum(T) == SumFunctionOnSet(c, T)
           Wrong == {T \in SUBSET S :
                       ~(IsFiniteSet(U(T)) /\ Cardinality(U(T)) <= Sum(T))}
<1> SUFFICES ASSUME Wrong # {} PROVE FALSE
  OBVIOUS
<1>1. PICK T \in Wrong : \A V \in Wrong : ~(V \subseteq T /\ V # T)
  <2>1. Wrong \subseteq SUBSET S
    OBVIOUS
  <2> HIDE DEF Wrong
  <2> QED BY <2>1, MinimalSubset
<1>2. T # {}
  <2>1. U({}) = {}
    OBVIOUS
  <2> HIDE DEF U
  <2> QED BY <2>1, SumEmpty, FS_EmptySet
<1>3. PICK x \in T : TRUE
  BY <1>2
<1>4. IsFiniteSet(U(T \ {x})) /\ Cardinality(U(T \ {x})) <= Sum(T \ {x})
  BY <1>1
<1>5. U(T) = U(T \ {x}) \cup F[x]
  OBVIOUS
<1>6. IsFiniteSet(T \ {x}) /\ IsFiniteSet(T) /\ \A i \in T : c[i] \in Int
  BY FS_Subset
<1>7. Sum(T) = c[x] + Sum(T \ {x}) /\ Sum(T \ {x}) \in Int
  BY <1>6, SumElement, SumType
<1> HIDE DEF U, Sum
<1>8. /\ IsFiniteSet(U(T))
      /\ Cardinality(U(T))
           = Cardinality(U(T \ {x})) + Cardinality(F[x]) - Cardinality(U(T \ {x}) \cap F[x])
  BY <1>4, <1>5, FS_Union
<1>9. /\ Cardinality(U(T \ {x})) \in Nat /\ Cardinality(F[x]) \in Nat
      /\ Cardinality(U(T \ {x}) \cap F[x]) \in Nat
  BY <1>4, FS_Intersection, FS_CardinalityType
<1>10. Cardinality(F[x]) <= c[x] /\ c[x] \in Nat
  OBVIOUS
<1>11. Cardinality(U(T)) <= Sum(T)
  BY <1>4, <1>7, <1>8, <1>9, <1>10
<1> QED BY <1>8, <1>11

\* A finite set of numbers that is not empty has a greatest.
LEMMA GreatestExists ==
  ASSUME NEW S, IsFiniteSet(S), \A x \in S : x \in Int, S # {}
  PROVE  \E m \in S : \A x \in S : m >= x
<1> DEFINE Without == {T \in SUBSET S : T # {} /\ ~ \E m \in T : \A x \in T : m >= x}
<1> SUFFICES ASSUME Without # {} PROVE FALSE
  OBVIOUS
<1>1. PICK T \in Without : \A U \in Without : ~(U \subseteq T /\ U # T)
  <2>1. Without \subseteq SUBSET S
    OBVIOUS
  <2> HIDE DEF Without
  <2> QED BY <2>1, MinimalSubset
<1>2. PICK y \in T : TRUE
  OBVIOUS
<1>3. CASE T = {y}
  BY <1>1, <1>3
<1>4. CASE T # {y}
  <2>1. PICK m \in T \ {y} : \A x \in T \ {y} : m >= x
    <3>1. T \ {y} \in SUBSET S /\ T \ {y} # {} /\ T \ {y} # T
      BY <1>2, <1>4
    <3>2. T \ {y} \notin Without
      BY <1>1, <3>1
    <3> QED BY <3>1, <3>2
  <2>2. m >= y \/ y >= m
    BY <1>1, <1>2
  <2>3. (\A x \in T : m >= x) \/ (\A x \in T : y >= x)
    BY <1>1, <2>1, <2>2
  <2> QED BY <1>1, <1>2, <2>1, <2>3
<1> QED BY <1>3, <1>4

-----------------------------------------------------------------------------
(* The tables.                                                             *)

\* The provers do not know that a literal is a STRING.
Names == STRING \cup {"cpu"}
DeviceEntries == [name : Names, ids : SUBSET Nat, nodes : Seq(Nat)]
AmountEntries == [name : Names, amount : Nat, nodes : Seq(Nat)]

\* Sequences over a subset.
LEMMA SeqMonotone ==
  ASSUME NEW S, NEW T, S \subseteq T, NEW s \in Seq(S)
  PROVE  s \in Seq(T)
OBVIOUS

\* Devices and CPUs alike are entries with finitely many IDs.
LEMMA AllDevicesType ==
  ASSUME NEW machine, IsMachine(machine)
  PROVE  /\ AllDevices(machine) \in Seq(DeviceEntries)
         /\ \A i \in DOMAIN AllDevices(machine) : IsFiniteSet(AllDevices(machine)[i].ids)
<1> DEFINE cpus == CPUDevices(machine)
<1>1. /\ machine.nodes \in Seq(Nat) /\ machine.cpus \in SUBSET Nat
      /\ machine.processors \in [Range(machine.nodes) -> SUBSET Nat]
      /\ \A node \in Range(machine.nodes) : IsFiniteSet(machine.processors[node])
      /\ \A i \in DOMAIN machine.devices : IsFiniteSet(machine.devices[i].ids)
  BY DEF IsMachine
<1>1a. machine.devices \in Seq(DeviceEntries)
  <2>1. [name : STRING, ids : SUBSET Nat, nodes : Seq(Nat)] \subseteq DeviceEntries
    BY DEF DeviceEntries, Names
  <2>2. machine.devices \in Seq([name : STRING, ids : SUBSET Nat, nodes : Seq(Nat)])
    BY DEF IsMachine
  <2> QED BY <2>1, <2>2, SeqMonotone
<1>2. /\ DOMAIN cpus = 1..Len(machine.nodes)
      /\ \A i \in DOMAIN machine.nodes :
           LET node == machine.nodes[i]
               ids == machine.cpus \cap machine.processors[node]
           IN  cpus[i] = [name |-> "cpu", ids |-> ids,
                          nodes |-> IF ids = {} THEN <<>> ELSE <<node>>]
  BY <1>1 DEF CPUDevices
<1>3. \A i \in DOMAIN machine.nodes : cpus[i] \in DeviceEntries /\ IsFiniteSet(cpus[i].ids)
  <2> SUFFICES ASSUME NEW i \in DOMAIN machine.nodes
               PROVE  cpus[i] \in DeviceEntries /\ IsFiniteSet(cpus[i].ids)
    OBVIOUS
  <2> DEFINE node == machine.nodes[i]
             ids == machine.cpus \cap machine.processors[node]
  <2>1. node \in Nat /\ node \in Range(machine.nodes)
    BY <1>1 DEF Range
  <2>2. ids \in SUBSET Nat /\ IsFiniteSet(ids)
    BY <1>1, <2>1, FS_Subset
  <2>3. cpus[i] = [name |-> "cpu", ids |-> ids,
                   nodes |-> IF ids = {} THEN <<>> ELSE <<node>>]
    BY <1>2
  <2>4. (IF ids = {} THEN <<>> ELSE <<node>>) \in Seq(Nat)
    BY <2>1
  <2>5. "cpu" \in Names
    BY DEF Names
  <2> DEFINE listed == IF ids = {} THEN <<>> ELSE <<node>>
  <2> HIDE DEF node, ids, cpus, listed
  <2>6. [name |-> "cpu", ids |-> ids, nodes |-> listed] \in DeviceEntries
    BY <2>2, <2>4, <2>5 DEF DeviceEntries, listed
  <2> QED BY <2>2, <2>3, <2>6 DEF listed
<1>4. DOMAIN machine.nodes = 1..Len(machine.nodes)
  BY <1>1
<1> HIDE DEF cpus
<1>5. cpus \in Seq(DeviceEntries) /\ Len(cpus) = Len(machine.nodes)
  <2>1. Len(machine.nodes) \in Nat
    BY <1>1
  <2>2. cpus = [i \in 1..Len(machine.nodes) |-> cpus[i]]
    BY <1>1, <1>2 DEF cpus, CPUDevices
  <2> QED BY <1>3, <1>4, <2>1, <2>2
<1>6. AllDevices(machine) = machine.devices \o cpus
  BY DEF AllDevices, cpus
<1>7. AllDevices(machine) \in Seq(DeviceEntries)
  BY <1>5, <1>6, <1>1a
<1>8. \A i \in DOMAIN AllDevices(machine) : IsFiniteSet(AllDevices(machine)[i].ids)
  <2> SUFFICES ASSUME NEW i \in DOMAIN AllDevices(machine)
               PROVE  IsFiniteSet(AllDevices(machine)[i].ids)
    OBVIOUS
  <2>1. CASE i \in DOMAIN machine.devices
    BY <1>1, <1>5, <1>6, <1>1a, <2>1
  <2>2. CASE i \notin DOMAIN machine.devices
    <3>1. i - Len(machine.devices) \in DOMAIN machine.nodes
      BY <1>1, <1>4, <1>5, <1>6, <1>1a, <2>2
    <3>2. AllDevices(machine)[i] = cpus[i - Len(machine.devices)]
      BY <1>1, <1>5, <1>6, <1>1a, <2>2
    <3> QED BY <1>3, <3>1, <3>2
  <2> QED BY <2>1, <2>2
<1> QED BY <1>7, <1>8

\* Devices come first, memory after them.
LEMMA AmountsFacts ==
  ASSUME NEW machine, IsMachine(machine)
  PROVE  LET devices == AllDevices(machine)
             amounts == Amounts(machine)
         IN  /\ amounts \in Seq(AmountEntries)
             /\ Len(amounts) = Len(devices) + Len(machine.memory)
             /\ \A i \in DOMAIN devices :
                  /\ amounts[i].name = devices[i].name
                  /\ amounts[i].amount = Cardinality(devices[i].ids)
                  /\ amounts[i].nodes = devices[i].nodes
             /\ \A i \in DOMAIN machine.memory :
                  amounts[Len(devices) + i] = machine.memory[i]
<1> DEFINE devices == AllDevices(machine)
           numbers == [i \in DOMAIN devices |->
                         [name |-> devices[i].name, amount |-> Cardinality(devices[i].ids),
                          nodes |-> devices[i].nodes]]
<1>1. /\ devices \in Seq(DeviceEntries)
      /\ \A i \in DOMAIN devices : IsFiniteSet(devices[i].ids)
  BY AllDevicesType
<1>2. machine.memory \in Seq(AmountEntries)
  <2>1. [name : STRING, amount : Nat, nodes : Seq(Nat)] \subseteq AmountEntries
    BY DEF AmountEntries, Names
  <2>2. machine.memory \in Seq([name : STRING, amount : Nat, nodes : Seq(Nat)])
    BY DEF IsMachine
  <2> QED BY <2>1, <2>2, SeqMonotone
<1>3. Amounts(machine) = numbers \o machine.memory
  BY DEF Amounts
<1> HIDE DEF devices
<1>4. \A i \in DOMAIN devices : Cardinality(devices[i].ids) \in Nat
  BY <1>1, FS_CardinalityType
<1>5. numbers \in Seq(AmountEntries) /\ Len(numbers) = Len(devices)
  <2>1. ASSUME NEW i \in DOMAIN devices PROVE numbers[i] \in AmountEntries
    <3>1. devices[i] \in DeviceEntries
      BY <1>1
    <3>2. devices[i].name \in Names /\ devices[i].nodes \in Seq(Nat)
      BY <3>1 DEF DeviceEntries
    <3> QED BY <1>4, <3>2 DEF AmountEntries
  <2>2. DOMAIN devices = 1..Len(devices) /\ Len(devices) \in Nat
    BY <1>1
  <2> QED BY <2>1, <2>2
<1>6. \A i \in DOMAIN devices : /\ Amounts(machine)[i].name = devices[i].name
                                 /\ Amounts(machine)[i].amount = Cardinality(devices[i].ids)
                                 /\ Amounts(machine)[i].nodes = devices[i].nodes
  <2> SUFFICES ASSUME NEW i \in DOMAIN devices
               PROVE  /\ Amounts(machine)[i].name = devices[i].name
                      /\ Amounts(machine)[i].amount = Cardinality(devices[i].ids)
                      /\ Amounts(machine)[i].nodes = devices[i].nodes
    OBVIOUS
  <2>1. Amounts(machine)[i] = numbers[i]
    <3> HIDE DEF numbers
    <3> QED BY <1>1, <1>2, <1>3, <1>5
  <2>2. numbers[i] = [name |-> devices[i].name, amount |-> Cardinality(devices[i].ids),
                      nodes |-> devices[i].nodes]
    OBVIOUS
  <2> HIDE DEF numbers
  <2> QED BY <2>1, <2>2
<1>7. \A i \in DOMAIN machine.memory :
        Amounts(machine)[Len(devices) + i] = machine.memory[i]
  <2> HIDE DEF numbers
  <2> QED BY <1>1, <1>2, <1>3, <1>5
<1>8. /\ Amounts(machine) \in Seq(AmountEntries)
      /\ Len(Amounts(machine)) = Len(devices) + Len(machine.memory)
  <2> HIDE DEF numbers
  <2> QED BY <1>1, <1>2, <1>3, <1>5
<1> HIDE DEF numbers
<1> QED BY <1>6, <1>7, <1>8 DEF devices

\* An entry lists a node once or more often if the node is one of its nodes.
LEMMA TimesFacts ==
  ASSUME NEW entry, entry.nodes \in Seq(Nat), NEW node
  PROVE  Times(entry, node) \in Nat /\ (Times(entry, node) > 0 <=> node \in Range(entry.nodes))
<1> DEFINE places == {i \in DOMAIN entry.nodes : entry.nodes[i] = node}
<1>1. IsFiniteSet(places)
  <2>1. IsFiniteSet(1..Len(entry.nodes))
    BY FS_Interval
  <2>2. places \subseteq 1..Len(entry.nodes)
    OBVIOUS
  <2> QED BY <2>1, <2>2, FS_Subset
<1>2. places # {} <=> node \in Range(entry.nodes)
  BY DEF Range
<1>3. Cardinality(places) \in Nat /\ (Cardinality(places) = 0 <=> places = {})
  BY <1>1, FS_CardinalityType, FS_EmptySet
<1> QED BY <1>2, <1>3 DEF Times

-----------------------------------------------------------------------------
(* NodeAllocatable, entry by entry.                                        *)

\* The entries that list a node, and those of them with a name.
On(machine, node) == {i \in DOMAIN Amounts(machine) : Times(Amounts(machine)[i], node) > 0}
Named(machine, node, name) == {i \in On(machine, node) : Amounts(machine)[i].name = name}
Shares(machine, node) ==
  [i \in On(machine, node) |-> Amounts(machine)[i].amount * Times(Amounts(machine)[i], node)]

\* NodeAllocatable in these terms.
LEMMA NodeAllocatableDef ==
  ASSUME NEW machine
  PROVE  NodeAllocatable(machine)
           = [node \in UNION {Range(entry.nodes) : entry \in Range(Amounts(machine))} |->
                [name \in {Amounts(machine)[i].name : i \in On(machine, node)} |->
                   SumFunctionOnSet(Shares(machine, node), Named(machine, node, name))]]
BY DEF NodeAllocatable, On, Named, Shares

\* An entry adds its amount at least once to each of its nodes.
LEMMA SharesFacts ==
  ASSUME NEW machine, IsMachine(machine), NEW node
  PROVE  /\ IsFiniteSet(On(machine, node))
         /\ \A i \in DOMAIN Amounts(machine) :
              i \in On(machine, node) <=> node \in Range(Amounts(machine)[i].nodes)
         /\ \A i \in On(machine, node) :
              /\ Amounts(machine)[i].amount \in Nat
              /\ Shares(machine, node)[i] \in Nat
              /\ Amounts(machine)[i].amount <= Shares(machine, node)[i]
<1> DEFINE amounts == Amounts(machine)
<1>1. amounts \in Seq(AmountEntries)
  BY AmountsFacts
<1>2. IsFiniteSet(On(machine, node))
  <2>1. IsFiniteSet(1..Len(amounts))
    BY <1>1, FS_Interval
  <2>2. On(machine, node) \subseteq 1..Len(amounts)
    BY <1>1 DEF On
  <2> QED BY <2>1, <2>2, FS_Subset
<1> HIDE DEF amounts
<1>3. ASSUME NEW i \in DOMAIN amounts
      PROVE  /\ amounts[i].amount \in Nat
             /\ Times(amounts[i], node) \in Nat
             /\ Times(amounts[i], node) > 0 <=> node \in Range(amounts[i].nodes)
  <2>1. amounts[i] \in AmountEntries
    BY <1>1
  <2>2. amounts[i].amount \in Nat /\ amounts[i].nodes \in Seq(Nat)
    BY <2>1 DEF AmountEntries
  <2> QED BY <2>2, TimesFacts
<1>4. ASSUME NEW a \in Nat, NEW t \in Nat, t > 0 PROVE a * t \in Nat /\ a <= a * t
  <2>1. a * t = a + a * (t - 1) /\ t - 1 \in Nat
    BY <1>4
  <2>2. ASSUME NEW b \in Nat PROVE a * b \in Nat
    OBVIOUS
  <2> QED BY <2>1, <2>2
<1>5. ASSUME NEW i \in On(machine, node)
      PROVE  Shares(machine, node)[i] \in Nat /\ amounts[i].amount <= Shares(machine, node)[i]
  <2>1. Shares(machine, node)[i] = amounts[i].amount * Times(amounts[i], node)
    BY DEF Shares, amounts
  <2>2. i \in DOMAIN amounts /\ Times(amounts[i], node) > 0
    BY DEF On, amounts
  <2> QED BY <1>3, <1>4, <2>1, <2>2
<1>6. \A i \in DOMAIN amounts : i \in On(machine, node) <=> Times(amounts[i], node) > 0
  BY DEF On, amounts
<1>7. On(machine, node) \subseteq DOMAIN amounts
  BY DEF On, amounts
<1> QED BY <1>2, <1>3, <1>5, <1>6, <1>7 DEF amounts

\* What is allocatable is a number, and no entry that lists the node is left out.
LEMMA NodeAllocatableFacts ==
  ASSUME NEW machine, IsMachine(machine)
  PROVE  LET allocatable == NodeAllocatable(machine)
             amounts == Amounts(machine)
         IN  /\ \A node \in DOMAIN allocatable : \A name \in DOMAIN allocatable[node] :
                  allocatable[node][name] \in Nat
             /\ \A i \in DOMAIN amounts : \A node \in Range(amounts[i].nodes) :
                  /\ node \in DOMAIN allocatable
                  /\ amounts[i].name \in DOMAIN allocatable[node]
             /\ \A node, name :
                  /\ IsFiniteSet(Named(machine, node, name))
                  /\ node \in DOMAIN allocatable /\ name \in DOMAIN allocatable[node] =>
                       allocatable[node][name]
                         = SumFunctionOnSet(Shares(machine, node), Named(machine, node, name))
<1> DEFINE allocatable == NodeAllocatable(machine)
           amounts == Amounts(machine)
           listed == UNION {Range(entry.nodes) : entry \in Range(amounts)}
<1>1. /\ DOMAIN allocatable = listed
      /\ \A node \in listed :
           /\ DOMAIN allocatable[node] = {amounts[i].name : i \in On(machine, node)}
           /\ \A name \in DOMAIN allocatable[node] :
                allocatable[node][name]
                  = SumFunctionOnSet(Shares(machine, node), Named(machine, node, name))
  <2> DEFINE row(node) == [name \in {amounts[i].name : i \in On(machine, node)} |->
                   SumFunctionOnSet(Shares(machine, node), Named(machine, node, name))]
  <2>1. allocatable = [node \in listed |-> row(node)]
    BY NodeAllocatableDef
  <2>2. \A node \in listed : allocatable[node] = row(node)
    <3> HIDE DEF allocatable, listed, row
    <3> QED BY <2>1
  <2>3. DOMAIN allocatable = listed
    <3> HIDE DEF allocatable, listed, row
    <3> QED BY <2>1
  <2> HIDE DEF allocatable, listed, amounts
  <2> QED BY <2>2, <2>3
<1> HIDE DEF allocatable
<1>2. \A node, name : IsFiniteSet(Named(machine, node, name))
  BY SharesFacts, FS_Subset DEF Named
<1>3. ASSUME NEW node \in DOMAIN allocatable, NEW name \in DOMAIN allocatable[node]
      PROVE  allocatable[node][name] \in Nat
  <2>1. allocatable[node][name]
          = SumFunctionOnSet(Shares(machine, node), Named(machine, node, name))
    BY <1>1
  <2>2. \A i \in Named(machine, node, name) : Shares(machine, node)[i] \in Nat
    BY SharesFacts DEF Named
  <2> QED BY <1>2, <2>1, <2>2, SumNat
<1>4. ASSUME NEW i \in DOMAIN amounts, NEW node \in Range(amounts[i].nodes)
      PROVE  node \in DOMAIN allocatable /\ amounts[i].name \in DOMAIN allocatable[node]
  <2>1. i \in On(machine, node)
    BY SharesFacts
  <2>2. amounts[i] \in Range(amounts)
    BY DEF Range
  <2>3. node \in listed
    BY <2>2
  <2> HIDE DEF listed, amounts
  <2> QED BY <1>1, <2>1, <2>3
<1> HIDE DEF amounts, listed
<1> QED BY <1>1, <1>2, <1>3, <1>4 DEF allocatable, amounts

-----------------------------------------------------------------------------
(* Where an ID sits.                                                       *)

\* The IDs of a resource that the tables list with a node.
IDsOn(machine, name, node) ==
  UNION {AllDevices(machine)[i].ids :
           i \in {j \in DOMAIN AllDevices(machine) :
                    /\ AllDevices(machine)[j].name = name
                    /\ node \in Range(AllDevices(machine)[j].nodes)}}

\* The node that makeResourceMap keeps is one that the tables list with the ID.
LEMMA ResourceMapFacts ==
  ASSUME NEW machine, IsMachine(machine), NEW name, NEW id, IsKnown(machine, name, id)
  PROVE  id \in IDsOn(machine, name, ResourceMap(machine, name, id))
<1> DEFINE devices == AllDevices(machine)
           writers == Writers(devices, name, id)
           last == Max(writers)
<1>1. devices \in Seq(DeviceEntries)
  BY AllDevicesType
<1>2. writers # {} /\ writers \subseteq 1..Len(devices)
  BY <1>1 DEF IsKnown, Writers
<1>3. IsFiniteSet(writers) /\ \A i \in writers : i \in Int
  <2>1. IsFiniteSet(1..Len(devices))
    BY <1>1, FS_Interval
  <2> QED BY <1>1, <1>2, <2>1, FS_Subset
<1>4. last \in writers
  <2> HIDE DEF writers
  <2>1. \E m \in writers : \A x \in writers : m >= x
    BY <1>2, <1>3, GreatestExists
  <2> QED BY <2>1, Zenon DEF Max
<1>5. /\ last \in DOMAIN devices /\ devices[last].name = name /\ id \in devices[last].ids
      /\ devices[last].nodes # <<>>
  <2> HIDE DEF last, devices
  <2> QED BY <1>4 DEF Writers
<1>6. Last(devices[last].nodes) \in Range(devices[last].nodes)
  <2>1. devices[last] \in DeviceEntries
    BY <1>1, <1>5
  <2>2. devices[last].nodes \in Seq(Nat)
    BY <2>1 DEF DeviceEntries
  <2> DEFINE nodes == devices[last].nodes
  <2>3. Len(nodes) \in DOMAIN nodes
    BY <1>5, <2>2
  <2> HIDE DEF nodes
  <2> QED BY <2>3 DEF Last, Range, nodes
<1>7. ResourceMap(machine, name, id) = Last(devices[last].nodes)
  BY DEF ResourceMap
<1> HIDE DEF devices, last
<1> QED BY <1>5, <1>6, <1>7 DEF IDsOn, devices

\* With one node for each ID it is the only one.
LEMMA ResourceMapUnique ==
  ASSUME NEW machine, IsMachine(machine), OneNodeEach(machine),
         NEW name, NEW node, NEW id \in IDsOn(machine, name, node)
  PROVE  IsKnown(machine, name, id) /\ ResourceMap(machine, name, id) = node
<1> DEFINE devices == AllDevices(machine)
           kept == ResourceMap(machine, name, id)
<1>1. PICK i \in DOMAIN devices : /\ devices[i].name = name /\ id \in devices[i].ids
                                   /\ node \in Range(devices[i].nodes)
  BY DEF IDsOn
<1>2. devices[i].nodes # <<>>
  <2>1. Range(<<>>) = {}
    BY DEF Range
  <2> QED BY <1>1, <2>1
<1>3. IsKnown(machine, name, id)
  <2>1. i \in Writers(devices, name, id)
    BY <1>1, <1>2 DEF Writers
  <2> QED BY <2>1 DEF IsKnown
<1>4. PICK j \in DOMAIN devices : /\ devices[j].name = name /\ id \in devices[j].ids
                                   /\ kept \in Range(devices[j].nodes)
  <2>1. id \in IDsOn(machine, name, kept)
    BY <1>3, ResourceMapFacts
  <2> HIDE DEF kept
  <2> QED BY <2>1 DEF IDsOn
<1>5. devices[i].name = devices[j].name /\ devices[i].ids \cap devices[j].ids # {}
  BY <1>1, <1>4
<1> HIDE DEF devices, kept
<1> QED BY <1>1, <1>3, <1>4, <1>5 DEF OneNodeEach, devices, kept

\* A node has at least as much allocatable of a resource as it has IDs of it.
LEMMA IDsOnAllocatable ==
  ASSUME NEW machine, IsMachine(machine), NEW name, NEW node
  PROVE  /\ IsFiniteSet(IDsOn(machine, name, node))
         /\ IDsOn(machine, name, node) # {} =>
              /\ node \in DOMAIN NodeAllocatable(machine)
              /\ name \in DOMAIN NodeAllocatable(machine)[node]
         /\ node \in DOMAIN NodeAllocatable(machine)
              /\ name \in DOMAIN NodeAllocatable(machine)[node] =>
              Cardinality(IDsOn(machine, name, node)) <= NodeAllocatable(machine)[node][name]
<1> DEFINE devices == AllDevices(machine)
           amounts == Amounts(machine)
           places == {j \in DOMAIN devices : /\ devices[j].name = name
                                             /\ node \in Range(devices[j].nodes)}
           ids == [i \in DOMAIN devices |-> devices[i].ids]
           shares == Shares(machine, node)
           all == Named(machine, node, name)
<1>1. /\ devices \in Seq(DeviceEntries)
      /\ \A i \in DOMAIN devices : IsFiniteSet(devices[i].ids)
      /\ amounts \in Seq(AmountEntries)
      /\ Len(amounts) = Len(devices) + Len(machine.memory)
      /\ \A i \in DOMAIN devices :
           /\ amounts[i].name = devices[i].name
           /\ amounts[i].amount = Cardinality(devices[i].ids)
           /\ amounts[i].nodes = devices[i].nodes
  BY AllDevicesType, AmountsFacts
<1>2. DOMAIN devices \subseteq DOMAIN amounts
  <2>1. Len(machine.memory) \in Nat
    BY DEF IsMachine
  <2> HIDE DEF devices, amounts
  <2> QED BY <1>1, <2>1
<1>3. places \subseteq all
  <2> HIDE DEF devices
  <2>1. \A i \in places : i \in DOMAIN amounts /\ node \in Range(amounts[i].nodes)
                            /\ amounts[i].name = name
    BY <1>1, <1>2
  <2> HIDE DEF places
  <2> QED BY <2>1, SharesFacts DEF Named
<1>4. /\ IsFiniteSet(all)
      /\ \A i \in all : shares[i] \in Nat
      /\ \A i \in all : amounts[i].amount <= shares[i]
  <2>1. IsFiniteSet(all)
    <3> HIDE DEF amounts, devices, places, ids, shares
    <3> QED BY NodeAllocatableFacts
  <2>2. all \subseteq On(machine, node)
    BY DEF Named
  <2> HIDE DEF all
  <2> QED BY <2>1, <2>2, SharesFacts
<1>5. IsFiniteSet(places)
  <2> HIDE DEF places, all
  <2> QED BY <1>3, <1>4, FS_Subset
<1>6. \A i \in places : /\ IsFiniteSet(ids[i]) /\ shares[i] \in Nat
                         /\ Cardinality(ids[i]) <= shares[i]
  <2> SUFFICES ASSUME NEW i \in places
               PROVE  /\ IsFiniteSet(ids[i]) /\ shares[i] \in Nat
                      /\ Cardinality(ids[i]) <= shares[i]
    OBVIOUS
  <2>1. i \in DOMAIN devices /\ ids[i] = devices[i].ids
    OBVIOUS
  <2>2. i \in all
    BY <1>3
  <2>3. amounts[i].amount = Cardinality(devices[i].ids)
    BY <1>1, <2>1
  <2> HIDE DEF devices, ids, shares, all, amounts, places
  <2> QED BY <1>1, <1>4, <2>1, <2>2, <2>3
<1>7. IDsOn(machine, name, node) = UNION {ids[i] : i \in places}
  BY DEF IDsOn
<1>8. /\ IsFiniteSet(IDsOn(machine, name, node))
      /\ Cardinality(IDsOn(machine, name, node)) <= SumFunctionOnSet(shares, places)
  <2> DEFINE union == UNION {ids[i] : i \in places}
  <2> HIDE DEF ids, places, shares
  <2>1. IsFiniteSet(union) /\ Cardinality(union) <= SumFunctionOnSet(shares, places)
    BY <1>5, <1>6, UnionBounded
  <2> QED BY <1>7, <2>1
<1>9. /\ SumFunctionOnSet(shares, places) <= SumFunctionOnSet(shares, all)
      /\ SumFunctionOnSet(shares, places) \in Nat /\ SumFunctionOnSet(shares, all) \in Nat
  <2> HIDE DEF shares, places, all
  <2> QED BY <1>3, <1>4, SumSubset
<1>10. IDsOn(machine, name, node) # {} =>
         /\ node \in DOMAIN NodeAllocatable(machine)
         /\ name \in DOMAIN NodeAllocatable(machine)[node]
  <2> SUFFICES ASSUME IDsOn(machine, name, node) # {}
               PROVE  /\ node \in DOMAIN NodeAllocatable(machine)
                      /\ name \in DOMAIN NodeAllocatable(machine)[node]
    OBVIOUS
  <2>1. PICK i \in DOMAIN devices : devices[i].name = name /\ node \in Range(devices[i].nodes)
    BY DEF IDsOn
  <2>2. i \in DOMAIN amounts /\ amounts[i].name = name /\ node \in Range(amounts[i].nodes)
    BY <1>1, <1>2, <2>1
  <2> QED BY <2>2, NodeAllocatableFacts
<1>11. Cardinality(IDsOn(machine, name, node)) \in Nat
  BY <1>8, FS_CardinalityType
<1>12. node \in DOMAIN NodeAllocatable(machine)
         /\ name \in DOMAIN NodeAllocatable(machine)[node] =>
         NodeAllocatable(machine)[node][name] = SumFunctionOnSet(shares, all)
  BY NodeAllocatableFacts
<1> HIDE DEF shares, all, places, ids, devices, amounts
<1> QED BY <1>8, <1>9, <1>10, <1>11, <1>12

-----------------------------------------------------------------------------
(* The zones that an aggregation starts from.                              *)

Fields == {"available", "allocatable", "capacity"}

\* A zone for each listed node.
LEMMA InitialZonesDomain ==
  ASSUME NEW machine, NEW excluded
  PROVE  DOMAIN InitialZones(machine, excluded) = 0..(Len(machine.nodes) - 1)
BY DEF InitialZones

\* The zone of a node with something allocatable, and of one with nothing.
Listed(machine, excluded, node) ==
  [name \in DOMAIN NodeAllocatable(machine)[node] \ excluded |->
     ResourceData(NodeAllocatable(machine)[node][name],
                  Capacity(machine, node, name, NodeAllocatable(machine)[node][name]))]
Unlisted(machine, node) ==
  [name \in {"cpu"} |-> ResourceData(0, ReservedCPUs(machine, node))]

\* A zone has what is allocatable on its node and not excluded; where nothing is
\* allocatable it shows the CPUs.
LEMMA InitialZone ==
  ASSUME NEW machine, NEW excluded, NEW node \in DOMAIN InitialZones(machine, excluded)
  PROVE  /\ node \in DOMAIN NodeAllocatable(machine) =>
              InitialZones(machine, excluded)[node] = Listed(machine, excluded, node)
         /\ node \notin DOMAIN NodeAllocatable(machine) =>
              InitialZones(machine, excluded)[node] = Unlisted(machine, node)
<1>1. InitialZones(machine, excluded)
        = [n \in 0..(Len(machine.nodes) - 1) |->
             IF n \in DOMAIN NodeAllocatable(machine)
               THEN Listed(machine, excluded, n) ELSE Unlisted(machine, n)]
  BY DEF InitialZones, Listed, Unlisted
<1> QED BY <1>1

\* They start with all that is allocatable.
LEMMA InitialZonesData ==
  ASSUME NEW machine, IsMachine(machine), NEW excluded,
         NEW node \in DOMAIN InitialZones(machine, excluded),
         NEW name \in DOMAIN InitialZones(machine, excluded)[node]
  PROVE  LET data == InitialZones(machine, excluded)[node][name]
         IN  /\ DOMAIN data = Fields
             /\ data.allocatable \in Nat
             /\ data.available = data.allocatable
             /\ Cardinality(IDsOn(machine, name, node)) <= data.allocatable
<1> DEFINE allocatable == NodeAllocatable(machine)
           data == InitialZones(machine, excluded)[node][name]
<1>1. CASE node \in DOMAIN allocatable
  <2>1. /\ name \in DOMAIN allocatable[node]
        /\ data = ResourceData(allocatable[node][name],
                               Capacity(machine, node, name, allocatable[node][name]))
    <3>1. InitialZones(machine, excluded)[node] = Listed(machine, excluded, node)
      BY <1>1, InitialZone
    <3> QED BY <3>1 DEF Listed
  <2>2. allocatable[node][name] \in Nat
    BY <1>1, <2>1, NodeAllocatableFacts
  <2>3. Cardinality(IDsOn(machine, name, node)) <= allocatable[node][name]
    BY <1>1, <2>1, IDsOnAllocatable
  <2> HIDE DEF allocatable, data
  <2> QED BY <2>1, <2>2, <2>3 DEF ResourceData, Fields, data
<1>2. CASE node \notin DOMAIN allocatable
  <2>1. data = ResourceData(0, ReservedCPUs(machine, node))
    <3>1. InitialZones(machine, excluded)[node] = Unlisted(machine, node)
      BY <1>2, InitialZone
    <3> QED BY <3>1 DEF Unlisted
  <2>2. Cardinality(IDsOn(machine, name, node)) = 0
    BY <1>2, IDsOnAllocatable, FS_EmptySet
  <2> HIDE DEF allocatable, data
  <2> QED BY <2>1, <2>2 DEF ResourceData, Fields, data
<1> QED BY <1>1, <1>2

-----------------------------------------------------------------------------
(* The capacity of a node's CPUs.                                          *)

\* Two sequences put together.
LEMMA Concatenated ==
  ASSUME NEW S, NEW T, NEW s \in Seq(S), NEW t \in Seq(T)
  PROVE  /\ Len(s \o t) = Len(s) + Len(t) /\ DOMAIN (s \o t) = 1..(Len(s) + Len(t))
         /\ \A i \in DOMAIN s : (s \o t)[i] = s[i]
         /\ \A i \in DOMAIN t : (s \o t)[Len(s) + i] = t[i]
<1>1. /\ Len(s) \in Nat /\ Len(t) \in Nat /\ DOMAIN s = 1..Len(s) /\ DOMAIN t = 1..Len(t)
      /\ Len(s \o t) = Len(s) + Len(t) /\ DOMAIN (s \o t) = 1..(Len(s) + Len(t))
  OBVIOUS
<1>2. \A i \in DOMAIN s : (s \o t)[i] = s[i]
  BY <1>1
<1>3. \A i \in DOMAIN t : (s \o t)[Len(s) + i] = t[i]
  BY <1>1
<1> QED BY <1>1, <1>2, <1>3

\* The entries of the CPUs come after those of the devices.
LEMMA CPUEntries ==
  ASSUME NEW machine, IsMachine(machine)
  PROVE  /\ DOMAIN AllDevices(machine) = 1..(Len(machine.devices) + Len(machine.nodes))
         /\ \A i \in DOMAIN machine.devices : AllDevices(machine)[i] = machine.devices[i]
         /\ \A i \in DOMAIN machine.nodes :
              AllDevices(machine)[Len(machine.devices) + i] = CPUDevices(machine)[i]
<1> DEFINE cpus == CPUDevices(machine)
<1>1. /\ machine.nodes \in Seq(Nat)
      /\ machine.devices \in Seq([name : STRING, ids : SUBSET Nat, nodes : Seq(Nat)])
  BY DEF IsMachine
<1>2. DOMAIN cpus = 1..Len(machine.nodes) /\ cpus = [i \in 1..Len(machine.nodes) |-> cpus[i]]
  BY <1>1 DEF CPUDevices
<1> HIDE DEF cpus
<1>3. Len(machine.nodes) \in Nat /\ DOMAIN machine.nodes = 1..Len(machine.nodes)
  BY <1>1
<1>4. PICK T : cpus \in Seq(T)
  <2> WITNESS {cpus[i] : i \in 1..Len(machine.nodes)}
  <2> QED BY <1>2, <1>3
<1>4a. Len(cpus) = Len(machine.nodes)
  BY <1>2, <1>3, <1>4
<1>5. AllDevices(machine) = machine.devices \o cpus
  BY DEF AllDevices, cpus
<1> DEFINE devices == machine.devices
<1>6. devices \in Seq([name : STRING, ids : SUBSET Nat, nodes : Seq(Nat)])
  BY <1>1
<1> HIDE DEF devices
<1>7. /\ Len(devices \o cpus) = Len(devices) + Len(cpus)
      /\ DOMAIN (devices \o cpus) = 1..(Len(devices) + Len(cpus))
      /\ \A i \in DOMAIN devices : (devices \o cpus)[i] = devices[i]
      /\ \A i \in DOMAIN cpus : (devices \o cpus)[Len(devices) + i] = cpus[i]
  BY <1>4, <1>6, Concatenated
<1>8. AllDevices(machine) = devices \o cpus
  BY <1>5 DEF devices
<1> QED BY <1>2, <1>3, <1>4a, <1>7, <1>8 DEF cpus, devices

\* The CPUs a node can allocate are its processors that are allocatable; of a node
\* with none nothing is said.
LEMMA CPUsAllocatable ==
  ASSUME NEW machine, IsMachine(machine), OnlyProcessorsAreCPUs(machine),
         NEW node \in Range(machine.nodes)
  PROVE  LET onNode == machine.cpus \cap machine.processors[node]
             allocatable == NodeAllocatable(machine)
         IN  /\ onNode # {} =>
                  /\ node \in DOMAIN allocatable /\ "cpu" \in DOMAIN allocatable[node]
                  /\ allocatable[node]["cpu"] = Cardinality(onNode)
             /\ onNode = {} /\ node \in DOMAIN allocatable =>
                  "cpu" \notin DOMAIN allocatable[node]
<1> DEFINE devices == AllDevices(machine)
           amounts == Amounts(machine)
           onNode == machine.cpus \cap machine.processors[node]
           first == Len(machine.devices)
<1>1. /\ machine.nodes \in Seq(Nat)
      /\ machine.devices \in Seq([name : STRING, ids : SUBSET Nat, nodes : Seq(Nat)])
      /\ machine.memory \in Seq([name : STRING, amount : Nat, nodes : Seq(Nat)])
      /\ IsFiniteSet(machine.processors[node])
  BY DEF IsMachine
<1>2. PICK k \in DOMAIN machine.nodes : machine.nodes[k] = node
  BY DEF Range
<1>3. \A i \in DOMAIN machine.nodes :
        LET ids == machine.cpus \cap machine.processors[machine.nodes[i]]
            entry == CPUDevices(machine)[i]
        IN  /\ entry.name = "cpu" /\ entry.ids = ids
            /\ ids = {} => entry.nodes = <<>>
            /\ ids # {} => entry.nodes = <<machine.nodes[i]>>
  BY DEF CPUDevices
<1>3a. /\ DOMAIN devices = 1..(first + Len(machine.nodes))
       /\ \A i \in DOMAIN machine.devices : devices[i] = machine.devices[i]
       /\ \A i \in DOMAIN machine.nodes : devices[first + i] = CPUDevices(machine)[i]
  BY CPUEntries
<1>4. /\ devices \in Seq(DeviceEntries)
      /\ amounts \in Seq(AmountEntries)
      /\ Len(amounts) = Len(devices) + Len(machine.memory)
      /\ \A i \in DOMAIN devices :
           /\ amounts[i].name = devices[i].name
           /\ amounts[i].amount = Cardinality(devices[i].ids)
           /\ amounts[i].nodes = devices[i].nodes
      /\ \A i \in DOMAIN machine.memory : amounts[Len(devices) + i] = machine.memory[i]
  BY <1>1, AllDevicesType, AmountsFacts
<1>4a. /\ first \in Nat /\ Len(machine.nodes) \in Nat /\ Len(machine.memory) \in Nat
       /\ DOMAIN machine.devices = 1..first /\ DOMAIN machine.nodes = 1..Len(machine.nodes)
       /\ DOMAIN machine.memory = 1..Len(machine.memory)
  BY <1>1
<1>4b. Len(devices) = first + Len(machine.nodes) /\ DOMAIN amounts = 1..Len(amounts)
  <2> HIDE DEF devices, first, amounts
  <2> QED BY <1>3a, <1>4, <1>4a
<1>5. \A i \in DOMAIN amounts : i \in On(machine, node) <=> node \in Range(amounts[i].nodes)
  BY SharesFacts
<1> HIDE DEF devices, amounts, onNode, first
<1>6. \A x : Range(<<>>) = {} /\ Range(<<x>>) = {x}
  BY DEF Range
<1>7. ASSUME NEW i \in DOMAIN amounts, amounts[i].name = "cpu", node \in Range(amounts[i].nodes)
      PROVE  i = first + k /\ onNode # {}
  <2>1. i \in DOMAIN devices
    <3> SUFFICES ASSUME i \notin DOMAIN devices PROVE FALSE
      OBVIOUS
    <3>1. i - Len(devices) \in DOMAIN machine.memory /\ Len(devices) + (i - Len(devices)) = i
      BY <1>3a, <1>4, <1>4a, <1>4b
    <3>2. amounts[i] = machine.memory[i - Len(devices)]
      BY <1>4, <3>1
    <3> QED BY <1>7, <3>1, <3>2 DEF OnlyProcessorsAreCPUs
  <2>2. i \notin DOMAIN machine.devices
    BY <1>3a, <1>4, <1>7, <2>1 DEF OnlyProcessorsAreCPUs
  <2>3. i - first \in DOMAIN machine.nodes /\ first + (i - first) = i
    BY <1>3a, <1>4a, <2>1, <2>2
  <2> DEFINE j == i - first
  <2>4. j \in DOMAIN machine.nodes /\ i = first + j
    BY <2>3
  <2> HIDE DEF j
  <2>5. LET ids == machine.cpus \cap machine.processors[machine.nodes[j]]
        IN  /\ ids = {} => devices[i].nodes = <<>>
            /\ ids # {} => devices[i].nodes = <<machine.nodes[j]>>
    <3>1. devices[i] = CPUDevices(machine)[j]
      BY <1>3a, <2>4
    <3> QED BY <1>3, <2>4, <3>1
  <2>6. node \in Range(devices[i].nodes)
    BY <1>4, <1>7, <2>1
  <2>7. machine.nodes[j] = node /\ machine.cpus \cap machine.processors[machine.nodes[j]] # {}
    <3>1. machine.cpus \cap machine.processors[machine.nodes[j]] # {}
      BY <1>6, <2>5, <2>6
    <3>2. devices[i].nodes = <<machine.nodes[j]>>
      BY <2>5, <3>1
    <3>3. node \in {machine.nodes[j]}
      BY <1>6, <2>6, <3>2
    <3> QED BY <3>1, <3>3
  <2>8. j = k
    BY <1>2, <2>4, <2>7 DEF OnlyProcessorsAreCPUs, IsInjective
  <2> QED BY <2>4, <2>7, <2>8 DEF onNode
<1>8. CASE onNode # {}
  <2>1. first + k \in DOMAIN devices /\ first + k \in DOMAIN amounts
    BY <1>3a, <1>4, <1>4a, <1>4b
  <2>2. /\ amounts[first + k].name = "cpu" /\ amounts[first + k].amount = Cardinality(onNode)
        /\ amounts[first + k].nodes = <<node>>
    <3>1. devices[first + k] = CPUDevices(machine)[k]
      BY <1>2, <1>3a
    <3>2. /\ CPUDevices(machine)[k].name = "cpu"
          /\ CPUDevices(machine)[k].ids = onNode
          /\ CPUDevices(machine)[k].nodes = <<node>>
      BY <1>2, <1>3, <1>8 DEF onNode
    <3> QED BY <1>4, <2>1, <3>1, <3>2
  <2>3. node \in Range(amounts[first + k].nodes)
    BY <1>6, <2>2
  <2>4. node \in DOMAIN NodeAllocatable(machine) /\ "cpu" \in DOMAIN NodeAllocatable(machine)[node]
    BY <2>1, <2>2, <2>3, NodeAllocatableFacts DEF amounts
  <2>5. NodeAllocatable(machine)[node]["cpu"]
          = SumFunctionOnSet(Shares(machine, node), Named(machine, node, "cpu"))
    BY <2>4, NodeAllocatableFacts
  <2>6. Named(machine, node, "cpu") = {first + k}
    <3>1. \A i : i \in Named(machine, node, "cpu") <=> i = first + k
      BY <1>5, <1>7, <2>1, <2>2, <2>3 DEF Named, On, amounts
    <3> QED BY <3>1
  <2>7. IsFiniteSet(onNode) /\ Cardinality(onNode) \in Nat
    BY <1>1, FS_Subset, FS_CardinalityType DEF onNode
  <2>8. Shares(machine, node)[first + k] = Cardinality(onNode)
    <3>1. first + k \in On(machine, node)
      BY <1>5, <2>1, <2>3
    <3>2. Times(amounts[first + k], node) = 1
      <4>1. {i \in DOMAIN <<node>> : <<node>>[i] = node} = {1}
        OBVIOUS
      <4>2. {i \in DOMAIN amounts[first + k].nodes : amounts[first + k].nodes[i] = node} = {1}
        BY <2>2, <4>1
      <4>3. Cardinality({1}) = 1
        BY FS_Singleton
      <4> QED BY <4>2, <4>3 DEF Times
    <3>3. Shares(machine, node)[first + k] = Cardinality(onNode) * 1
      BY <2>2, <3>1, <3>2 DEF Shares, amounts
    <3> QED BY <2>7, <3>3
  <2> DEFINE shares == Shares(machine, node)
             place == first + k
  <2>9. shares[place] \in Int /\ shares[place] = Cardinality(onNode)
    BY <2>7, <2>8
  <2> HIDE DEF shares, place
  <2>10. SumFunctionOnSet(shares, {place})
           = shares[place] + SumFunctionOnSet(shares, {place} \ {place})
    <3>1. IsFiniteSet({place}) /\ place \in {place} /\ \A y \in {place} : shares[y] \in Int
      BY <2>9, FS_Singleton
    <3> QED BY <3>1, SumElement
  <2>11. SumFunctionOnSet(shares, {place} \ {place}) = 0
    <3>1. {place} \ {place} = {}
      OBVIOUS
    <3> QED BY <3>1, SumEmpty
  <2>12. SumFunctionOnSet(shares, {place}) = Cardinality(onNode)
    BY <2>9, <2>10, <2>11
  <2> QED BY <1>8, <2>4, <2>5, <2>6, <2>12 DEF shares, place, onNode
<1>9. CASE onNode = {}
  <2> SUFFICES ASSUME node \in DOMAIN NodeAllocatable(machine),
                      "cpu" \in DOMAIN NodeAllocatable(machine)[node]
               PROVE  FALSE
    BY <1>9 DEF onNode
  <2>1. DOMAIN NodeAllocatable(machine)[node] = {amounts[i].name : i \in On(machine, node)}
    BY NodeAllocatableDef DEF amounts
  <2>2. PICK i \in On(machine, node) : amounts[i].name = "cpu"
    BY <2>1
  <2>3. i \in DOMAIN amounts
    BY DEF On, amounts
  <2> QED BY <1>5, <1>7, <1>9, <2>2, <2>3
<1> QED BY <1>8, <1>9 DEF onNode

\* The processors are those that are allocatable and those that are reserved, wherever
\* a zone shows the CPUs.
LEMMA InitialCPUCapacity ==
  ASSUME NEW machine, IsMachine(machine), OnlyProcessorsAreCPUs(machine), NEW excluded,
         NEW node \in DOMAIN InitialZones(machine, excluded) \cap Range(machine.nodes),
         "cpu" \in DOMAIN InitialZones(machine, excluded)[node]
  PROVE  InitialZones(machine, excluded)[node]["cpu"].capacity
           = Cardinality(machine.processors[node])
<1> DEFINE processors == machine.processors[node]
           onNode == machine.cpus \cap processors
           allocatable == NodeAllocatable(machine)
<1>1. /\ IsFiniteSet(processors) /\ IsFiniteSet(onNode) /\ IsFiniteSet(processors \ machine.cpus)
      /\ ReservedCPUs(machine, node) = Cardinality(processors \ machine.cpus)
  <2>1. IsFiniteSet(machine.processors[node])
    BY DEF IsMachine
  <2> QED BY <2>1, FS_Subset DEF ReservedCPUs
<1>2. /\ Cardinality(processors) = Cardinality(onNode) + Cardinality(processors \ machine.cpus)
      /\ Cardinality(onNode) \in Nat /\ Cardinality(processors \ machine.cpus) \in Nat
  <2> HIDE DEF onNode, processors
  <2> DEFINE reserved == processors \ machine.cpus
  <2>1. onNode \cup reserved = processors /\ onNode \cap reserved = {}
    BY DEF onNode
  <2>2. /\ Cardinality(onNode) \in Nat /\ Cardinality(reserved) \in Nat
        /\ Cardinality({}) = 0
    BY <1>1, FS_CardinalityType, FS_EmptySet
  <2> HIDE DEF reserved
  <2>3. IsFiniteSet(onNode) /\ IsFiniteSet(reserved)
    BY <1>1 DEF reserved
  <2>4. Cardinality(onNode \cup reserved)
          = Cardinality(onNode) + Cardinality(reserved) - Cardinality(onNode \cap reserved)
    BY <2>3, FS_Union
  <2>5. Cardinality(onNode \cup reserved) = Cardinality(processors)
    BY <2>1
  <2>6. Cardinality(onNode \cap reserved) = 0
    BY <2>1, <2>2
  <2>7. Cardinality(processors) = Cardinality(onNode) + Cardinality(reserved)
    BY <2>2, <2>4, <2>5, <2>6
  <2> QED BY <2>2, <2>7 DEF reserved
<1>3. CASE node \in DOMAIN allocatable
  <2>1. /\ "cpu" \in DOMAIN allocatable[node]
        /\ InitialZones(machine, excluded)[node]["cpu"].capacity
             = allocatable[node]["cpu"] + ReservedCPUs(machine, node)
    <3>1. InitialZones(machine, excluded)[node] = Listed(machine, excluded, node)
      BY <1>3, InitialZone
    <3>2. \A amount : Capacity(machine, node, "cpu", amount)
                        = amount + ReservedCPUs(machine, node)
      BY DEF Capacity, MemoryNames, HugePageResourceName
    <3>3. DOMAIN Listed(machine, excluded, node) = DOMAIN allocatable[node] \ excluded
      BY DEF Listed
    <3>4. "cpu" \in DOMAIN allocatable[node] \ excluded
      BY <3>1, <3>3
    <3>5. Listed(machine, excluded, node)["cpu"]
            = ResourceData(allocatable[node]["cpu"],
                           Capacity(machine, node, "cpu", allocatable[node]["cpu"]))
      BY <3>4 DEF Listed
    <3> HIDE DEF allocatable
    <3> QED BY <3>1, <3>2, <3>4, <3>5 DEF ResourceData
  <2>2. allocatable[node]["cpu"] = Cardinality(onNode)
    BY <1>3, <2>1, CPUsAllocatable
  <2> HIDE DEF allocatable, onNode, processors
  <2>3. InitialZones(machine, excluded)[node]["cpu"].capacity = Cardinality(processors)
    BY <1>1, <1>2, <2>1, <2>2
  <2> QED BY <2>3 DEF processors
<1>4. CASE node \notin DOMAIN allocatable
  <2>1. InitialZones(machine, excluded)[node]["cpu"].capacity = ReservedCPUs(machine, node)
    <3>1. InitialZones(machine, excluded)[node] = Unlisted(machine, node)
      BY <1>4, InitialZone
    <3> QED BY <3>1 DEF Unlisted, ResourceData
  <2>2. onNode = {}
    BY <1>4, CPUsAllocatable
  <2>3. Cardinality(onNode) = 0
    BY <2>2, FS_EmptySet
  <2> HIDE DEF allocatable, onNode, processors
  <2>4. InitialZones(machine, excluded)[node]["cpu"].capacity = Cardinality(processors)
    BY <1>1, <1>2, <2>1, <2>3
  <2> QED BY <2>4 DEF processors
<1> QED BY <1>3, <1>4

=============================================================================
