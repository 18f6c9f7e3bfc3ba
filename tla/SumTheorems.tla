----------------------------- MODULE SumTheorems -----------------------------
(***************************************************************************)
(* Facts about SumFunctionOnSet of the community modules: the sum of a     *)
(* function's values over a finite set.  The modules sum credits, fills,   *)
(* fees and costs with it.                                                 *)
(*                                                                         *)
(* The sum is defined by a recursive function over the subsets of the set, *)
(* which takes the elements in some order.  That there is such a function  *)
(* and that the order does not matter are proved by looking at a smallest  *)
(* subset that would be an exception: the strict subsets of a finite set   *)
(* are well-founded.                                                       *)
(***************************************************************************)
EXTENDS Integers, Functions, FiniteSetsExt, SequencesExt, Ranking, FunctionTheorems,
        FiniteSetTheorems, SequenceTheorems, WellFoundedInduction, TLAPS

\* The element the fold takes first.
First(s) == CHOOSE x \in s : TRUE

Rest(s) == s \ {First(s)}

LEMMA FirstIsIn ==
  ASSUME NEW s, s # {}
  PROVE  First(s) \in s /\ Rest(s) \subseteq s /\ Rest(s) # s
BY DEF First, Rest

\* g is the recursive function that sums f over the subsets of S.
Sums(f, S, g) ==
  g = [s \in SUBSET S |-> IF s = {} THEN 0 ELSE f[First(s)] + g[Rest(s)]]

LEMMA SumIsFold ==
  ASSUME NEW f, NEW S
  PROVE  SumFunctionOnSet(f, S) = (CHOOSE g : Sums(f, S, g))[S]
BY DEF SumFunctionOnSet, FoldFunctionOnSet, MapThenFoldSet, Sums, First, Rest

\* A set of subsets of a finite set that is not empty has a least element.
LEMMA LeastSubset ==
  ASSUME NEW S, IsFiniteSet(S), NEW F \in SUBSET SUBSET S, F # {}
  PROVE  \E T \in F : \A U \in F : U \subseteq T => U = T
<1>1. IsWellFoundedOn(StrictSubsetOrdering(S), SUBSET S)
  BY FS_StrictSubsetOrderingWellFounded, FS_FiniteSubsetsOfFinite
<1>2. PICK T \in F : \A U \in F : ~(<<U, T>> \in StrictSubsetOrdering(S))
  BY <1>1, WFMin
<1>3. QED
  BY <1>2 DEF StrictSubsetOrdering

\* Such a function is determined by f on S.
LEMMA SumsUnique ==
  ASSUME NEW f, NEW e, NEW S, IsFiniteSet(S), \A x \in S : f[x] = e[x],
         NEW g, Sums(f, S, g), NEW h, Sums(e, S, h)
  PROVE  \A s \in SUBSET S : g[s] = h[s]
<1> DEFINE Differ == {s \in SUBSET S : g[s] # h[s]}
<1> SUFFICES ASSUME Differ # {} PROVE FALSE
  OBVIOUS
<1>0. Differ \in SUBSET SUBSET S
  OBVIOUS
<1> HIDE DEF Differ
<1>1. PICK T \in Differ : \A U \in Differ : U \subseteq T => U = T
  BY <1>0, LeastSubset
<1> USE DEF Differ
<1>2. T \in SUBSET S /\ g[T] # h[T]
  OBVIOUS
<1>3. /\ g[T] = IF T = {} THEN 0 ELSE f[First(T)] + g[Rest(T)]
      /\ h[T] = IF T = {} THEN 0 ELSE e[First(T)] + h[Rest(T)]
  BY <1>2 DEF Sums
<1>4. CASE T = {}
  BY <1>2, <1>3, <1>4
<1>5. CASE T # {}
  <2>1. First(T) \in S /\ Rest(T) \in SUBSET S /\ Rest(T) \subseteq T /\ Rest(T) # T
    BY <1>2, <1>5, FirstIsIn
  <2>2. Rest(T) \notin Differ
    BY <1>1, <2>1
  <2>3. g[Rest(T)] = h[Rest(T)]
    BY <2>1, <2>2
  <2>4. QED
    BY <1>2, <1>3, <1>5, <2>1, <2>3
<1>6. QED
  BY <1>4, <1>5

\* On the subsets of a subset it is the function of that subset.
LEMMA SumsRestrict ==
  ASSUME NEW f, NEW S, NEW g, Sums(f, S, g), NEW T \in SUBSET S
  PROVE  Sums(f, T, [s \in SUBSET T |-> g[s]])
<1> DEFINE h == [s \in SUBSET T |-> g[s]]
<1>1. \A s \in SUBSET T : g[s] = IF s = {} THEN 0 ELSE f[First(s)] + g[Rest(s)]
  BY DEF Sums
<1>2. \A s \in SUBSET T : s # {} => h[Rest(s)] = g[Rest(s)]
  BY FirstIsIn
<1>3. h = [s \in SUBSET T |-> IF s = {} THEN 0 ELSE f[First(s)] + h[Rest(s)]]
  BY <1>1, <1>2
<1>4. QED
  BY <1>3 DEF Sums

\* For a finite set there is such a function.
LEMMA SumsExist ==
  ASSUME NEW f, NEW S, IsFiniteSet(S)
  PROVE  \E g : Sums(f, S, g)
<1> DEFINE Bad == {T \in SUBSET S : ~\E g : Sums(f, T, g)}
<1> SUFFICES ASSUME Bad # {} PROVE FALSE
  OBVIOUS
<1>0. Bad \in SUBSET SUBSET S
  OBVIOUS
<1> HIDE DEF Bad
<1>1. PICK T \in Bad : \A U \in Bad : U \subseteq T => U = T
  BY <1>0, LeastSubset
<1> USE DEF Bad
<1>2. IsFiniteSet(T) /\ T \in SUBSET S
  BY FS_Subset
<1> DEFINE Of(U) == CHOOSE g : Sums(f, U, g)
           value(s) == IF s = {} THEN 0 ELSE f[First(s)] + Of(Rest(s))[Rest(s)]
           g == [s \in SUBSET T |-> value(s)]
<1>3. ASSUME NEW U \in SUBSET T, U # T
      PROVE  Sums(f, U, Of(U)) /\ IsFiniteSet(U)
  <2>1. U \in SUBSET S /\ U \notin Bad
    BY <1>1, <1>2, <1>3
  <2>2. \E h : Sums(f, U, h)
    BY <2>1
  <2>3. QED
    BY <1>2, <2>2, FS_Subset
<1> HIDE DEF Of
<1>4. ASSUME NEW U \in SUBSET T, U # T
      PROVE  Of(U)[U] = value(U)
  <2>1. Of(U)[U] = IF U = {} THEN 0 ELSE f[First(U)] + Of(U)[Rest(U)]
    BY <1>3, <1>4 DEF Sums
  <2>2. ASSUME U # {} PROVE Of(U)[Rest(U)] = Of(Rest(U))[Rest(U)]
    <3>1. Rest(U) \in SUBSET U /\ Rest(U) \in SUBSET T /\ Rest(U) # T
      BY <1>4, <2>2, FirstIsIn
    <3>2. Sums(f, U, Of(U)) /\ Sums(f, Rest(U), Of(Rest(U))) /\ IsFiniteSet(Rest(U))
      BY <1>3, <1>4, <3>1
    <3> DEFINE h == [s \in SUBSET Rest(U) |-> Of(U)[s]]
    <3>3. Sums(f, Rest(U), h)
      BY <3>1, <3>2, SumsRestrict
    <3>4. h[Rest(U)] = Of(U)[Rest(U)]
      OBVIOUS
    <3> HIDE DEF h
    <3>5. h[Rest(U)] = Of(Rest(U))[Rest(U)]
      BY <3>2, <3>3, SumsUnique
    <3>6. QED
      BY <3>4, <3>5
  <2>3. QED
    BY <2>1, <2>2
<1>5. ASSUME NEW s \in SUBSET T, s # {}
      PROVE  Of(Rest(s))[Rest(s)] = g[Rest(s)]
  <2>1. Rest(s) \in SUBSET T /\ Rest(s) # T
    BY <1>5, FirstIsIn
  <2> HIDE DEF value
  <2>2. QED
    BY <1>4, <2>1
<1>6. g = [s \in SUBSET T |-> IF s = {} THEN 0 ELSE f[First(s)] + g[Rest(s)]]
  BY <1>5
<1>7. Sums(f, T, g)
  BY <1>6 DEF Sums
<1>8. QED
  BY <1>1, <1>7

-----------------------------------------------------------------------------
(* The sum itself *)

\* The sum is the value at S of some such function.
LEMMA SumIsValue ==
  ASSUME NEW f, NEW S, IsFiniteSet(S)
  PROVE  \E g : Sums(f, S, g) /\ SumFunctionOnSet(f, S) = g[S]
<1> DEFINE h == CHOOSE g : Sums(f, S, g)
<1>1. Sums(f, S, h)
  BY SumsExist
<1>2. SumFunctionOnSet(f, S) = h[S]
  BY SumIsFold
<1>3. QED
  BY <1>1, <1>2

\* Whichever function sums f over S, its values are the sums of the subsets.
LEMMA ValueIsSum ==
  ASSUME NEW f, NEW S, IsFiniteSet(S), NEW g, Sums(f, S, g), NEW T \in SUBSET S
  PROVE  g[T] = SumFunctionOnSet(f, T)
<1> DEFINE r == [s \in SUBSET T |-> g[s]]
<1>1. IsFiniteSet(T)
  BY FS_Subset
<1>2. PICK h : Sums(f, T, h) /\ SumFunctionOnSet(f, T) = h[T]
  BY <1>1, SumIsValue
<1>3. Sums(f, T, r)
  BY SumsRestrict
<1>4. r[T] = g[T]
  OBVIOUS
<1> HIDE DEF r
<1>5. \A x \in T : f[x] = f[x]
  OBVIOUS
<1>6. r[T] = h[T]
  BY <1>1, <1>2, <1>3, <1>5, SumsUnique
<1>7. QED
  BY <1>2, <1>4, <1>6

\* Only the values on the set matter.
LEMMA SumOfEqual ==
  ASSUME NEW S, IsFiniteSet(S), NEW f, NEW e, \A x \in S : f[x] = e[x]
  PROVE  SumFunctionOnSet(f, S) = SumFunctionOnSet(e, S)
<1>1. PICK g : Sums(f, S, g) /\ SumFunctionOnSet(f, S) = g[S]
  BY SumIsValue
<1>2. PICK h : Sums(e, S, h) /\ SumFunctionOnSet(e, S) = h[S]
  BY SumIsValue
<1>3. g[S] = h[S]
  BY <1>1, <1>2, SumsUnique
<1>4. QED
  BY <1>1, <1>2, <1>3

\* The sum over the empty set.
LEMMA SumOfNone ==
  ASSUME NEW f
  PROVE  SumFunctionOnSet(f, {}) = 0
<1>1. PICK g : Sums(f, {}, g) /\ SumFunctionOnSet(f, {}) = g[{}]
  BY FS_EmptySet, SumIsValue
<1>2. g[{}] = 0
  BY <1>1 DEF Sums
<1>3. QED
  BY <1>1, <1>2

\* The fold takes its first element.
LEMMA SumOfFirst ==
  ASSUME NEW f, NEW S, IsFiniteSet(S), S # {}
  PROVE  SumFunctionOnSet(f, S) = f[First(S)] + SumFunctionOnSet(f, Rest(S))
<1>1. PICK g : Sums(f, S, g) /\ SumFunctionOnSet(f, S) = g[S]
  BY SumIsValue
<1> DEFINE R == Rest(S)
<1>2. R \in SUBSET S
  BY FirstIsIn
<1>3. g[S] = f[First(S)] + g[R]
  BY <1>1 DEF Sums
<1>4. g[R] = SumFunctionOnSet(f, R)
  <2> HIDE DEF R
  <2>1. Sums(f, S, g)
    BY <1>1
  <2>2. QED
    BY <1>2, <2>1, ValueIsSum
<1>5. QED
  BY <1>1, <1>3, <1>4

\* The order does not matter: any element can be taken first.
THEOREM SumOfAny ==
  ASSUME NEW S, IsFiniteSet(S), NEW f, \A x \in S : f[x] \in Int
  PROVE  /\ SumFunctionOnSet(f, S) \in Int
         /\ \A x \in S : SumFunctionOnSet(f, S) = f[x] + SumFunctionOnSet(f, S \ {x})
<1> DEFINE sum(T) == SumFunctionOnSet(f, T)
           Good(T) == /\ sum(T) \in Int
                      /\ \A x \in T : sum(T) = f[x] + sum(T \ {x})
           Bad == {T \in SUBSET S : ~Good(T)}
<1> SUFFICES Bad = {}
  OBVIOUS
<1> SUFFICES ASSUME Bad # {} PROVE FALSE
  OBVIOUS
<1>0. Bad \in SUBSET SUBSET S
  OBVIOUS
<1> HIDE DEF Bad
<1>1. PICK T \in Bad : \A U \in Bad : U \subseteq T => U = T
  BY <1>0, LeastSubset
<1>2. T \in SUBSET S /\ ~Good(T) /\ IsFiniteSet(T)
  BY <1>1, FS_Subset DEF Bad
<1>3. ASSUME NEW U \in SUBSET T, U # T PROVE Good(U)
  BY <1>1, <1>2, <1>3 DEF Bad
<1>4. CASE T = {}
  <2>1. sum(T) = 0
    BY <1>4, SumOfNone
  <2>2. QED
    BY <1>2, <1>4, <2>1
<1>5. CASE T # {}
  <2> DEFINE a == First(T)
             R == Rest(T)
  <2>1. a \in T /\ R \in SUBSET T /\ R # T /\ R = T \ {a}
    BY <1>5, FirstIsIn DEF Rest
  <2>2. sum(T) = f[a] + sum(R)
    BY <1>2, <1>5, SumOfFirst
  <2> HIDE DEF sum, a, R
  <2>3. f[a] \in Int /\ sum(R) \in Int
    BY <1>2, <1>3, <2>1
  <2>4. ASSUME NEW x \in T PROVE sum(T) = f[x] + sum(T \ {x})
    <3>1. CASE x = a
      BY <2>1, <2>2, <3>1
    <3>2. CASE x # a
      <4>1. x \in R /\ a \in T \ {x} /\ T \ {x} \in SUBSET T /\ T \ {x} # T
        BY <2>1, <3>2
      <4>2. R \ {x} \in SUBSET T /\ R \ {x} # T /\ (T \ {x}) \ {a} = R \ {x}
        BY <2>1, <3>2
      <4>3. sum(R) = f[x] + sum(R \ {x})
        BY <1>3, <2>1, <4>1
      <4>4. sum(T \ {x}) = f[a] + sum(R \ {x})
        BY <1>3, <4>1, <4>2
      <4>5. sum(R \ {x}) \in Int /\ f[x] \in Int
        BY <1>2, <1>3, <4>2
      <4>6. QED
        BY <2>2, <2>3, <4>3, <4>4, <4>5
    <3>3. QED
      BY <3>1, <3>2
  <2>5. sum(T) \in Int
    BY <2>2, <2>3
  <2>6. QED
    BY <1>2, <2>4, <2>5
<1>6. QED
  BY <1>4, <1>5

\* Adding an element adds its value.
THEOREM SumOfMore ==
  ASSUME NEW S, IsFiniteSet(S), NEW a, a \notin S, NEW f,
         \A x \in S \cup {a} : f[x] \in Int
  PROVE  SumFunctionOnSet(f, S \cup {a}) = f[a] + SumFunctionOnSet(f, S)
<1>1. IsFiniteSet(S \cup {a}) /\ (S \cup {a}) \ {a} = S
  BY FS_AddElement
<1>2. QED
  BY <1>1, SumOfAny

\* Changing one value changes the sum by the difference.
THEOREM SumOfChange ==
  ASSUME NEW S, IsFiniteSet(S), NEW a \in S, NEW f, NEW e,
         \A x \in S : f[x] \in Int /\ e[x] \in Int,
         \A x \in S \ {a} : e[x] = f[x]
  PROVE  SumFunctionOnSet(e, S) = SumFunctionOnSet(f, S) - f[a] + e[a]
<1> DEFINE R == S \ {a}
<1>1. IsFiniteSet(R)
  BY FS_Subset
<1>2. SumFunctionOnSet(e, S) = e[a] + SumFunctionOnSet(e, R)
  BY SumOfAny
<1>3. SumFunctionOnSet(f, S) = f[a] + SumFunctionOnSet(f, R)
  BY SumOfAny
<1>4. SumFunctionOnSet(e, R) = SumFunctionOnSet(f, R)
  BY <1>1, SumOfEqual
<1>5. SumFunctionOnSet(f, R) \in Int
  BY <1>1, SumOfAny
<1>6. QED
  BY <1>2, <1>3, <1>4, <1>5

-----------------------------------------------------------------------------
(* Consequences, by induction over the subsets of the set *)

\* A set of sets that has every finite set whose smaller parts it has.
LEMMA SubsetInduction ==
  ASSUME NEW S, IsFiniteSet(S), NEW P, {} \in P,
         \A T \in SUBSET S : \A x \in T : T \ {x} \in P => T \in P
  PROVE  S \in P
<1> DEFINE Bad == {T \in SUBSET S : T \notin P}
<1> SUFFICES ASSUME Bad # {} PROVE FALSE
  OBVIOUS
<1>1. Bad \in SUBSET SUBSET S
  OBVIOUS
<1> HIDE DEF Bad
<1>2. PICK T \in Bad : \A U \in Bad : U \subseteq T => U = T
  BY <1>1, LeastSubset
<1>3. T \in SUBSET S /\ T \notin P /\ T # {}
  BY <1>2 DEF Bad
<1>4. PICK x : x \in T
  BY <1>3
<1>5. T \ {x} \in SUBSET S /\ T \ {x} # T /\ T \ {x} \notin Bad
  BY <1>2, <1>3, <1>4
<1>6. T \ {x} \in P
  BY <1>5 DEF Bad
<1>7. QED
  BY <1>3, <1>4, <1>6

\* Natural numbers add up to a natural number.
THEOREM SumIsNat ==
  ASSUME NEW S, IsFiniteSet(S), NEW f, \A x \in S : f[x] \in Nat
  PROVE  SumFunctionOnSet(f, S) \in Nat
<1> DEFINE P == {T \in SUBSET S : SumFunctionOnSet(f, T) \in Nat}
<1>1. {} \in P
  BY SumOfNone
<1>2. ASSUME NEW T \in SUBSET S, NEW x \in T, T \ {x} \in P PROVE T \in P
  <2>1. IsFiniteSet(T) /\ \A y \in T : f[y] \in Int
    BY FS_Subset
  <2>2. SumFunctionOnSet(f, T) = f[x] + SumFunctionOnSet(f, T \ {x})
    BY <2>1, SumOfAny
  <2>3. QED
    BY <1>2, <2>2
<1> HIDE DEF P
<1>3. S \in P
  BY <1>1, <1>2, SubsetInduction
<1>4. QED
  BY <1>3 DEF P

\* Sums are added and compared value by value.
THEOREM SumOfSums ==
  ASSUME NEW S, IsFiniteSet(S), NEW f, NEW e, NEW h,
         \A x \in S : f[x] \in Int /\ e[x] \in Int /\ h[x] = f[x] + e[x]
  PROVE  SumFunctionOnSet(h, S) = SumFunctionOnSet(f, S) + SumFunctionOnSet(e, S)
<1> DEFINE P == {T \in SUBSET S :
                   SumFunctionOnSet(h, T) = SumFunctionOnSet(f, T) + SumFunctionOnSet(e, T)}
<1>1. {} \in P
  BY SumOfNone
<1>2. ASSUME NEW T \in SUBSET S, NEW x \in T, T \ {x} \in P PROVE T \in P
  <2>1. IsFiniteSet(T) /\ IsFiniteSet(T \ {x})
    BY FS_Subset
  <2>2. \A y \in T : f[y] \in Int /\ e[y] \in Int /\ h[y] \in Int /\ h[y] = f[y] + e[y]
    OBVIOUS
  <2>3. SumFunctionOnSet(f, T) = f[x] + SumFunctionOnSet(f, T \ {x})
    BY <2>1, <2>2, SumOfAny
  <2>4. SumFunctionOnSet(e, T) = e[x] + SumFunctionOnSet(e, T \ {x})
    BY <2>1, <2>2, SumOfAny
  <2>5. SumFunctionOnSet(h, T) = h[x] + SumFunctionOnSet(h, T \ {x})
    BY <2>1, <2>2, SumOfAny
  <2>6. SumFunctionOnSet(f, T \ {x}) \in Int /\ SumFunctionOnSet(e, T \ {x}) \in Int
    BY <2>1, <2>2, SumOfAny
  <2>7. QED
    BY <1>2, <2>2, <2>3, <2>4, <2>5, <2>6
<1> HIDE DEF P
<1>3. S \in P
  BY <1>1, <1>2, SubsetInduction
<1>4. QED
  BY <1>3 DEF P

\* What is at most as large everywhere has at most as large a sum.
THEOREM SumOfLess ==
  ASSUME NEW S, IsFiniteSet(S), NEW f, NEW e,
         \A x \in S : f[x] \in Int /\ e[x] \in Int /\ f[x] <= e[x]
  PROVE  SumFunctionOnSet(f, S) <= SumFunctionOnSet(e, S)
<1> DEFINE d == [x \in S |-> e[x] - f[x]]
<1>1. \A x \in S : d[x] \in Nat /\ e[x] = f[x] + d[x]
  OBVIOUS
<1> HIDE DEF d
<1>2. SumFunctionOnSet(e, S) = SumFunctionOnSet(f, S) + SumFunctionOnSet(d, S)
  BY <1>1, SumOfSums
<1>3. SumFunctionOnSet(d, S) \in Nat
  BY <1>1, SumIsNat
<1>4. SumFunctionOnSet(f, S) \in Int
  BY SumOfAny
<1>5. QED
  BY <1>2, <1>3, <1>4

\* Nothing adds up to nothing.
THEOREM SumOfZeros ==
  ASSUME NEW S, IsFiniteSet(S), NEW f, \A x \in S : f[x] = 0
  PROVE  SumFunctionOnSet(f, S) = 0
<1> DEFINE sum == SumFunctionOnSet(f, S)
<1>1. sum = sum + sum
  BY SumOfSums
<1>2. sum \in Int
  BY SumOfAny
<1> HIDE DEF sum
<1>3. sum = 0
  BY <1>1, <1>2
<1>4. QED
  BY <1>3 DEF sum

\* The sum over a part counts the values elsewhere as zero.
THEOREM SumOfPart ==
  ASSUME NEW S, IsFiniteSet(S), NEW T \in SUBSET S, NEW f,
         \A x \in S : f[x] \in Int
  PROVE  SumFunctionOnSet(f, T) =
           SumFunctionOnSet([x \in S |-> IF x \in T THEN f[x] ELSE 0], S)
<1> DEFINE e == [x \in S |-> IF x \in T THEN f[x] ELSE 0]
           P == {U \in SUBSET S : SumFunctionOnSet(f, U \cap T) = SumFunctionOnSet(e, U)}
<1>0. \A x \in S : e[x] = IF x \in T THEN f[x] ELSE 0
  OBVIOUS
<1> HIDE DEF e
<1>1. {} \in P
  <2>1. {} \cap T = {}
    OBVIOUS
  <2>2. QED
    BY <2>1, SumOfNone
<1>2. ASSUME NEW U \in SUBSET S, NEW x \in U, U \ {x} \in P PROVE U \in P
  <2>1. IsFiniteSet(U) /\ IsFiniteSet(U \cap T)
    BY FS_Subset
  <2>2. \A y \in U : e[y] \in Int /\ f[y] \in Int
    BY <1>0
  <2>3. SumFunctionOnSet(e, U) = e[x] + SumFunctionOnSet(e, U \ {x})
    BY <2>1, <2>2, SumOfAny
  <2>4. SumFunctionOnSet(e, U \ {x}) = SumFunctionOnSet(f, (U \ {x}) \cap T)
    BY <1>2
  <2>5. CASE x \in T
    <3>1. (U \cap T) \ {x} = (U \ {x}) \cap T /\ x \in U \cap T
      BY <2>5
    <3>2. SumFunctionOnSet(f, U \cap T) = f[x] + SumFunctionOnSet(f, (U \cap T) \ {x})
      BY <2>1, <2>2, <3>1, SumOfAny
    <3>3. QED
      BY <1>0, <2>3, <2>4, <2>5, <3>1, <3>2
  <2>6. CASE x \notin T
    <3>1. (U \ {x}) \cap T = U \cap T
      BY <2>6
    <3>2. SumFunctionOnSet(f, U \cap T) \in Int
      BY <2>1, <2>2, SumOfAny
    <3>3. e[x] = 0
      BY <1>0, <2>6
    <3> DEFINE sum == SumFunctionOnSet(f, U \cap T)
    <3>4. sum \in Int /\ SumFunctionOnSet(e, U \ {x}) = sum
      BY <2>4, <3>1, <3>2
    <3> HIDE DEF sum
    <3>5. SumFunctionOnSet(e, U) = sum
      BY <2>3, <3>3, <3>4
    <3>6. QED
      BY <3>5 DEF sum
  <2>7. QED
    BY <2>5, <2>6
<1> HIDE DEF P
<1>3. S \in P
  BY <1>1, <1>2, SubsetInduction
<1>4. S \cap T = T
  OBVIOUS
<1>5. QED
  BY <1>3, <1>4 DEF P, e

\* Renaming the elements one to one does not change the sum.
THEOREM SumOfRenamed ==
  ASSUME NEW S, IsFiniteSet(S), NEW R, NEW b \in Bijection(S, R), NEW f, NEW e,
         \A x \in S : f[x] \in Int /\ e[b[x]] = f[x]
  PROVE  SumFunctionOnSet(e, R) = SumFunctionOnSet(f, S)
<1> DEFINE Im(T) == {b[x] : x \in T}
           P == {T \in SUBSET S : SumFunctionOnSet(e, Im(T)) = SumFunctionOnSet(f, T)}
<1>0. R = Im(S) /\ \A x, y \in S : b[x] = b[y] => x = y
  BY DEF Bijection, Injection, IsInjective, Surjection
<1>1. {} \in P
  <2>1. Im({}) = {}
    OBVIOUS
  <2>2. QED
    BY <2>1, SumOfNone
<1>2. ASSUME NEW T \in SUBSET S, NEW x \in T, T \ {x} \in P PROVE T \in P
  <2>0. [y \in T |-> b[y]] \in Surjection(T, Im(T))
    BY DEF Surjection
  <2>1. IsFiniteSet(T) /\ IsFiniteSet(Im(T))
    BY <2>0, FS_Subset, FS_Surjection
  <2>2. (\A y \in T : f[y] \in Int) /\ (\A z \in Im(T) : e[z] \in Int) /\ b[x] \in Im(T)
    OBVIOUS
  <2>3. SumFunctionOnSet(f, T) = f[x] + SumFunctionOnSet(f, T \ {x})
    BY <2>1, <2>2, SumOfAny
  <2>4. SumFunctionOnSet(e, Im(T)) = e[b[x]] + SumFunctionOnSet(e, Im(T) \ {b[x]})
    <3> HIDE DEF Im
    <3>1. QED
      BY <2>1, <2>2, SumOfAny
  <2>5. Im(T) \ {b[x]} = Im(T \ {x})
    BY <1>0
  <2>6. QED
    BY <1>2, <2>3, <2>4, <2>5
<1> HIDE DEF P
<1>3. S \in P
  BY <1>1, <1>2, SubsetInduction
<1>4. QED
  BY <1>0, <1>3 DEF P

-----------------------------------------------------------------------------
(* Sums over the positions of a sequence *)

\* An element at the end adds its value.
THEOREM SumOfAppended ==
  ASSUME NEW n \in Nat, NEW f \in [1 .. n -> Int], NEW e \in [1 .. n + 1 -> Int],
         \A i \in 1 .. n : e[i] = f[i]
  PROVE  SumFunction(e) = SumFunction(f) + e[n + 1]
<1>1. IsFiniteSet(1 .. n) /\ IsFiniteSet(1 .. n + 1)
  BY FS_Interval
<1>2. (1 .. n + 1) \ {n + 1} = 1 .. n /\ n + 1 \in 1 .. n + 1
  OBVIOUS
<1>3. \A i \in 1 .. n + 1 : e[i] \in Int
  OBVIOUS
<1>4. SumFunctionOnSet(e, 1 .. n + 1) = e[n + 1] + SumFunctionOnSet(e, 1 .. n)
  BY <1>1, <1>2, <1>3, SumOfAny
<1>5. SumFunctionOnSet(e, 1 .. n) = SumFunctionOnSet(f, 1 .. n)
  BY <1>1, SumOfEqual
<1>6. SumFunctionOnSet(f, 1 .. n) \in Int
  BY <1>1, SumOfAny
<1>7. QED
  BY <1>4, <1>5, <1>6 DEF SumFunction

\* Taking the element at position k out, the later ones moving up.
THEOREM SumOfRemoved ==
  ASSUME NEW n \in Nat, NEW f \in [1 .. n -> Int], NEW k \in 1 .. n,
         NEW e \in [1 .. n - 1 -> Int],
         \A i \in 1 .. n - 1 : e[i] = IF i < k THEN f[i] ELSE f[i + 1]
  PROVE  SumFunction(f) = f[k] + SumFunction(e)
<1> DEFINE b == [i \in 1 .. n - 1 |-> IF i < k THEN i ELSE i + 1]
           I == 1 .. n - 1
<1>1. IsFiniteSet(1 .. n) /\ IsFiniteSet(I)
  BY FS_Interval
<1>2. SumFunctionOnSet(f, 1 .. n) = f[k] + SumFunctionOnSet(f, (1 .. n) \ {k})
  BY <1>1, SumOfAny
<1> DEFINE R == (1 .. n) \ {k}
<1>3. b \in Bijection(I, R)
  <2>1. ASSUME NEW j \in R PROVE \E i \in I : b[i] = j
    <3>1. CASE j < k
      <4>1. j \in I /\ b[j] = j
        BY <3>1
      <4>2. QED
        BY <4>1
    <3>2. CASE ~(j < k)
      <4>1. j - 1 \in I /\ b[j - 1] = j
        BY <3>2
      <4>2. QED
        BY <4>1
    <3>3. QED
      BY <3>1, <3>2
  <2>2. b \in [I -> R] /\ \A i, j \in I : b[i] = b[j] => i = j
    OBVIOUS
  <2> HIDE DEF b, I, R
  <2>3. QED
    BY <2>1, <2>2 DEF Bijection, Injection, IsInjective, Surjection
<1>4. \A i \in I : e[i] \in Int /\ f[b[i]] = e[i]
  OBVIOUS
<1>5. DOMAIN e = I
  OBVIOUS
<1> HIDE DEF b, I, R
<1>6. SumFunctionOnSet(f, R) = SumFunctionOnSet(e, I)
  BY <1>1, <1>3, <1>4, SumOfRenamed
<1>7. QED
  BY <1>2, <1>5, <1>6 DEF SumFunction, R

-----------------------------------------------------------------------------
(* Extrema of finite sets of integers, and induction over an interval *)

\* A finite set of integers has a greatest element.
LEMMA MaxIsGreatest ==
  ASSUME NEW S \in SUBSET Int, IsFiniteSet(S), S # {}
  PROVE  Max(S) \in S /\ \A x \in S : x <= Max(S)
<1> DEFINE Has(T) == \E m \in T : \A x \in T : m >= x
           P == {T \in SUBSET S : T # {} => Has(T)}
<1>1. {} \in P
  OBVIOUS
<1>2. ASSUME NEW T \in SUBSET S, NEW a \in T, T \ {a} \in P PROVE T \in P
  <2>1. CASE T \ {a} = {}
    <3>1. \A x \in T : a >= x
      BY <2>1
    <3>2. QED
      BY <3>1
  <2>2. CASE T \ {a} # {}
    <3>1. PICK m \in T \ {a} : \A x \in T \ {a} : m >= x
      BY <1>2, <2>2
    <3>2. CASE m >= a
      <4>1. \A x \in T : m >= x
        BY <3>1, <3>2
      <4>2. QED
        BY <4>1
    <3>3. CASE ~(m >= a)
      <4>1. \A x \in T : a >= x
        BY <3>1, <3>3
      <4>2. QED
        BY <4>1
    <3>4. QED
      BY <3>2, <3>3
  <2>3. QED
    BY <2>1, <2>2
<1> HIDE DEF P
<1>3. S \in P
  BY <1>1, <1>2, SubsetInduction
<1>4. \E m \in S : \A x \in S : m >= x
  BY <1>3 DEF P
<1>5. QED
  BY <1>4 DEF Max

LEMMA MaxOfTwo ==
  ASSUME NEW a \in Int, NEW b \in Int
  PROVE  /\ Max({a, b}) \in Int
         /\ Max({a, b}) = IF a >= b THEN a ELSE b
<1>1. {a, b} \in SUBSET Int /\ {a, b} # {}
  OBVIOUS
<1>2. IsFiniteSet({a, b})
  <2>1. IsFiniteSet({} \cup {a})
    BY FS_EmptySet, FS_AddElement
  <2>2. IsFiniteSet(({} \cup {a}) \cup {b})
    BY <2>1, FS_AddElement
  <2>3. ({} \cup {a}) \cup {b} = {a, b}
    OBVIOUS
  <2>4. QED
    BY <2>2, <2>3
<1>3. Max({a, b}) \in {a, b} /\ a <= Max({a, b}) /\ b <= Max({a, b})
  BY <1>1, <1>2, MaxIsGreatest
<1>4. QED
  BY <1>3

\* A finite set of integers has a least element.
LEMMA MinIsLeast ==
  ASSUME NEW S \in SUBSET Int, IsFiniteSet(S), S # {}
  PROVE  Min(S) \in S /\ \A x \in S : Min(S) <= x
<1> DEFINE Has(T) == \E m \in T : \A x \in T : m <= x
           P == {T \in SUBSET S : T # {} => Has(T)}
<1>1. {} \in P
  OBVIOUS
<1>2. ASSUME NEW T \in SUBSET S, NEW a \in T, T \ {a} \in P PROVE T \in P
  <2>1. CASE T \ {a} = {}
    <3>1. \A x \in T : a <= x
      BY <2>1
    <3>2. QED
      BY <3>1
  <2>2. CASE T \ {a} # {}
    <3>1. PICK m \in T \ {a} : \A x \in T \ {a} : m <= x
      BY <1>2, <2>2
    <3>2. CASE m <= a
      <4>1. \A x \in T : m <= x
        BY <3>1, <3>2
      <4>2. QED
        BY <4>1
    <3>3. CASE ~(m <= a)
      <4>1. \A x \in T : a <= x
        BY <3>1, <3>3
      <4>2. QED
        BY <4>1
    <3>4. QED
      BY <3>2, <3>3
  <2>3. QED
    BY <2>1, <2>2
<1> HIDE DEF P
<1>3. S \in P
  BY <1>1, <1>2, SubsetInduction
<1>4. \E m \in S : \A x \in S : m <= x
  BY <1>3 DEF P
<1>5. QED
  BY <1>4 DEF Min

LEMMA MinOfTwo ==
  ASSUME NEW a \in Int, NEW b \in Int
  PROVE  /\ Min({a, b}) \in Int
         /\ Min({a, b}) = IF a <= b THEN a ELSE b
<1>1. {a, b} \in SUBSET Int /\ {a, b} # {}
  OBVIOUS
<1>2. IsFiniteSet({a, b})
  <2>1. IsFiniteSet({} \cup {a})
    BY FS_EmptySet, FS_AddElement
  <2>2. IsFiniteSet(({} \cup {a}) \cup {b})
    BY <2>1, FS_AddElement
  <2>3. ({} \cup {a}) \cup {b} = {a, b}
    OBVIOUS
  <2>4. QED
    BY <2>2, <2>3
<1>3. Min({a, b}) \in {a, b} /\ Min({a, b}) <= a /\ Min({a, b}) <= b
  BY <1>1, <1>2, MinIsLeast
<1>4. QED
  BY <1>3

\* What holds of 0 and of the successor of what it holds of.
LEMMA IntervalInduction ==
  ASSUME NEW n \in Nat, NEW P, 0 \in P,
         \A k \in 0 .. n - 1 : k \in P => k + 1 \in P
  PROVE  \A k \in 0 .. n : k \in P
<1> DEFINE Bad == {k \in 0 .. n : k \notin P}
<1>1. SUFFICES ASSUME Bad # {} PROVE FALSE
  OBVIOUS
<1>2. IsFiniteSet(Bad) /\ Bad \in SUBSET Int
  <2>1. IsFiniteSet(0 .. n)
    BY FS_Interval
  <2>2. Bad \in SUBSET (0 .. n)
    OBVIOUS
  <2>3. IsFiniteSet(Bad)
    BY <2>1, <2>2, FS_Subset
  <2>4. Bad \in SUBSET Int
    BY <2>2
  <2>5. QED
    BY <2>3, <2>4
<1>3. Min(Bad) \in Bad /\ \A x \in Bad : Min(Bad) <= x
  BY <1>1, <1>2, MinIsLeast
<1> DEFINE m == Min(Bad)
<1> HIDE DEF m
<1>4. m \in 0 .. n /\ m \notin P /\ \A k \in 0 .. n : k \notin P => m <= k
  BY <1>3 DEF m
<1>5. m # 0
  BY <1>4
<1>6. m - 1 \in 0 .. n - 1 /\ m - 1 \in 0 .. n
  BY <1>4, <1>5
<1>7. m - 1 \in P
  BY <1>4, <1>6
<1>8. (m - 1) + 1 \in P
  BY <1>6, <1>7
<1>9. QED
  BY <1>4, <1>8
-----------------------------------------------------------------------------
(* Recursion along an interval, and sequences one after the other *)

\* The sequences of values of which each is what a step makes of the one before.
Recursions(n, C, c, step) ==
  {f \in [0 .. n -> C] : f[0] = c /\ \A k \in 1 .. n : f[k] = step[k][f[k - 1]]}

\* There is one.
LEMMA RecursionExists ==
  ASSUME NEW n \in Nat, NEW C, NEW c \in C, NEW step \in [1 .. n -> [C -> C]]
  PROVE  Recursions(n, C, c, step) # {}
<1> DEFINE Runs(m, f) == f[0] = c /\ \A k \in 1 .. m : f[k] = step[k][f[k - 1]]
           P == {m \in 0 .. n : \E f \in [0 .. m -> C] : Runs(m, f)}
<1>1. 0 \in P
  <2> DEFINE g == [k \in 0 .. 0 |-> c]
  <2>1. g \in [0 .. 0 -> C] /\ g[0] = c
    OBVIOUS
  <2>2. \A k \in 1 .. 0 : g[k] = step[k][g[k - 1]]
    OBVIOUS
  <2>3. 0 \in 0 .. n
    OBVIOUS
  <2> HIDE DEF g
  <2>4. \E f \in [0 .. 0 -> C] : Runs(0, f)
    BY <2>1, <2>2
  <2>5. QED
    BY <2>3, <2>4
<1>2. ASSUME NEW m \in 0 .. n - 1, m \in P PROVE m + 1 \in P
  <2>1. PICK f \in [0 .. m -> C] : Runs(m, f)
    BY <1>2
  <2> DEFINE x == step[m + 1][f[m]]
             g == [k \in 0 .. m + 1 |-> IF k = m + 1 THEN x ELSE f[k]]
  <2>2. m \in Nat /\ m + 1 \in 1 .. n /\ f[m] \in C /\ x \in C
    BY <2>1
  <2>3. g \in [0 .. m + 1 -> C]
    BY <2>1, <2>2
  <2>4. g[0] = c
    BY <2>1, <2>2
  <2>5. ASSUME NEW k \in 1 .. m + 1 PROVE g[k] = step[k][g[k - 1]]
    <3>1. CASE k = m + 1
      <4>1. g[k] = x /\ k - 1 = m /\ g[k - 1] = f[m]
        BY <2>2, <3>1
      <4>2. QED
        BY <3>1, <4>1
    <3>2. CASE k # m + 1
      <4>1. k \in 1 .. m /\ g[k] = f[k] /\ g[k - 1] = f[k - 1]
        BY <2>2, <3>2
      <4>2. QED
        BY <2>1, <4>1
    <3>3. QED
      BY <3>1, <3>2
  <2>6. m + 1 \in 0 .. n
    BY <2>2
  <2> HIDE DEF g
  <2>7. QED
    BY <2>3, <2>4, <2>5, <2>6
<1> HIDE DEF P
<1>3. \A k \in 0 .. n : k \in P
  BY <1>1, <1>2, IntervalInduction
<1>4. n \in 0 .. n
  OBVIOUS
<1>5. n \in P
  BY <1>3, <1>4
<1>6. QED
  BY <1>5 DEF P, Recursions

LEMMA ConcatIs ==
  ASSUME NEW X, NEW s \in Seq(X), NEW t \in Seq(X)
  PROVE  s \o t \in Seq(X) /\ ToSet(s \o t) = ToSet(s) \cup ToSet(t)
<1>1. /\ s \o t \in Seq(X) /\ Len(s \o t) = Len(s) + Len(t)
      /\ \A i \in 1 .. Len(s) + Len(t) : (s \o t)[i] = IF i <= Len(s) THEN s[i] ELSE t[i - Len(s)]
  BY ConcatProperties
<1>2. Len(s) \in Nat /\ Len(t) \in Nat /\ DOMAIN s = 1 .. Len(s) /\ DOMAIN t = 1 .. Len(t)
      /\ DOMAIN (s \o t) = 1 .. Len(s) + Len(t)
  BY <1>1, LenProperties
<1> DEFINE u == s \o t
<1>3. ASSUME NEW i \in DOMAIN s PROVE s[i] \in ToSet(u)
  <2>1. i \in 1 .. Len(s) + Len(t) /\ u[i] = s[i]
    BY <1>1, <1>2
  <2>2. QED
    BY <1>2, <2>1 DEF ToSet
<1>4. ASSUME NEW i \in DOMAIN t PROVE t[i] \in ToSet(u)
  <2>1. Len(s) + i \in 1 .. Len(s) + Len(t) /\ ~(Len(s) + i <= Len(s)) /\ Len(s) + i - Len(s) = i
    BY <1>2
  <2>2. u[Len(s) + i] = t[i]
    BY <1>1, <2>1
  <2>3. QED
    BY <1>2, <2>1, <2>2 DEF ToSet
<1>5. ASSUME NEW i \in DOMAIN u PROVE u[i] \in ToSet(s) \cup ToSet(t)
  <2>1. i \in 1 .. Len(s) + Len(t)
    BY <1>2
  <2>2. CASE i <= Len(s)
    BY <1>1, <1>2, <2>1, <2>2 DEF ToSet
  <2>3. CASE ~(i <= Len(s))
    <3>1. i - Len(s) \in DOMAIN t /\ u[i] = t[i - Len(s)]
      BY <1>1, <1>2, <2>1, <2>3
    <3>2. QED
      BY <3>1 DEF ToSet
  <2>4. QED
    BY <2>2, <2>3
<1> HIDE DEF u
<1>6. ToSet(u) \subseteq ToSet(s) \cup ToSet(t)
  BY <1>5 DEF ToSet
<1>7. ToSet(s) \subseteq ToSet(u) /\ ToSet(t) \subseteq ToSet(u)
  BY <1>3, <1>4 DEF ToSet
<1>8. QED
  BY <1>1, <1>6, <1>7 DEF u

LEMMA PrefixesConcat ==
  ASSUME NEW X, NEW s \in Seq(Seq(X))
  PROVE  \E f \in [0 .. Len(s) -> Seq(X)] :
           f[0] = << >> /\ \A k \in 1 .. Len(s) : f[k] = f[k - 1] \o s[k]
<1> DEFINE step == [k \in 1 .. Len(s) |-> [x \in Seq(X) |-> x \o s[k]]]
<1>1. Len(s) \in Nat /\ \A i \in 1 .. Len(s) : s[i] \in Seq(X)
  BY LenProperties, ElementOfSeq
<1>2. << >> \in Seq(X)
  BY EmptySeq
<1>3. ASSUME NEW k \in 1 .. Len(s), NEW x \in Seq(X) PROVE x \o s[k] \in Seq(X)
  BY <1>1, ConcatProperties
<1>4. step \in [1 .. Len(s) -> [Seq(X) -> Seq(X)]]
  BY <1>3
<1> HIDE DEF step
<1>5. PICK f \in [0 .. Len(s) -> Seq(X)] :
        f[0] = << >> /\ \A k \in 1 .. Len(s) : f[k] = step[k][f[k - 1]]
  <2>1. Recursions(Len(s), Seq(X), << >>, step) # {}
    BY <1>1, <1>2, <1>4, RecursionExists
  <2>2. QED
    BY <2>1 DEF Recursions
<1>6. ASSUME NEW k \in 1 .. Len(s) PROVE f[k] = f[k - 1] \o s[k]
  <2>1. k - 1 \in 0 .. Len(s)
    BY <1>1
  <2>2. f[k - 1] \in Seq(X) /\ f[k] = step[k][f[k - 1]]
    BY <1>5, <2>1
  <2>3. QED
    BY <2>2 DEF step
<1>7. QED
  BY <1>5, <1>6

LEMMA FlattenIs ==
  ASSUME NEW X, NEW s \in Seq(Seq(X))
  PROVE  /\ FlattenSeq(s) \in Seq(X)
         /\ ToSet(FlattenSeq(s)) = UNION {ToSet(s[i]) : i \in DOMAIN s}
<1> DEFINE n == Len(s)
           Flatten(g) == g = [i \in 1 .. Len(s) |-> IF i = 1 THEN s[i] ELSE g[i - 1] \o s[i]]
           F == CHOOSE g : Flatten(g)
           To(k) == UNION {ToSet(s[i]) : i \in 1 .. k}
<1>1. n \in Nat /\ DOMAIN s = 1 .. n /\ \A i \in 1 .. n : s[i] \in Seq(X)
  BY LenProperties, ElementOfSeq
<1>2. << >> \in Seq(X) /\ ToSet(<< >>) = {}
  BY EmptySeq DEF ToSet
<1>3. CASE n = 0
  <2>1. s = << >> /\ DOMAIN s = {}
    BY <1>1, <1>3, EmptySeq
  <2>2. FlattenSeq(s) = << >>
    BY <1>3, <2>1 DEF FlattenSeq
  <2>3. UNION {ToSet(s[i]) : i \in DOMAIN s} = {}
    BY <2>1
  <2>4. QED
    BY <1>2, <2>2, <2>3
<1>4. CASE n # 0
  <2>1. FlattenSeq(s) = F[n]
    BY <1>4 DEF FlattenSeq
  <2>2. \E g : Flatten(g)
    <3>3. PICK f \in [0 .. n -> Seq(X)] :
            f[0] = << >> /\ \A k \in 1 .. n : f[k] = f[k - 1] \o s[k]
      BY PrefixesConcat
    <3> DEFINE g == [i \in 1 .. n |-> f[i]]
    <3>4. ASSUME NEW i \in 1 .. n PROVE f[i] = IF i = 1 THEN s[i] ELSE g[i - 1] \o s[i]
      <4>0. i - 1 \in 0 .. n
        BY <1>1
      <4>1. f[i - 1] \in Seq(X)
        BY <3>3, <4>0
      <4>2. f[i] = f[i - 1] \o s[i]
        BY <3>3
      <4>3. CASE i = 1
        <5>1. f[i] = << >> \o s[i] /\ s[i] \in Seq(X)
          BY <1>1, <3>3, <4>2, <4>3
        <5>2. QED
          BY <4>3, <5>1, ConcatEmptySeq
      <4>4. CASE i # 1
        <5>1. i - 1 \in 1 .. n
          BY <1>1, <4>4
        <5>2. QED
          BY <4>2, <4>4, <5>1
      <4>5. QED
        BY <4>3, <4>4
    <3>5. Flatten(g)
      BY <3>4
    <3>6. QED
      BY <3>5
  <2>3. F = [i \in 1 .. n |-> IF i = 1 THEN s[i] ELSE F[i - 1] \o s[i]]
    <3> HIDE DEF Flatten
    <3>1. Flatten(F)
      BY <2>2
    <3>2. QED
      BY <3>1 DEF Flatten
  <2> HIDE DEF F
  <2> DEFINE P == {k \in 0 .. n : k > 0 => F[k] \in Seq(X) /\ ToSet(F[k]) = To(k)}
  <2>4. 0 \in P
    BY <1>1
  <2>5. ASSUME NEW k \in 0 .. n - 1, k \in P PROVE k + 1 \in P
    <3>1. k \in Nat /\ k + 1 \in 1 .. n /\ s[k + 1] \in Seq(X)
      BY <1>1
    <3>2. 1 .. k + 1 = (1 .. k) \cup {k + 1}
      BY <3>1
    <3>3. To(k + 1) = To(k) \cup ToSet(s[k + 1])
      BY <3>2
    <3> HIDE DEF To, n
    <3>4. CASE k = 0
      <4>1. F[k + 1] = s[k + 1]
        BY <2>3, <3>1, <3>4
      <4>2. To(k) = {}
        BY <3>4 DEF To
      <4>3. k + 1 \in 0 .. n /\ F[k + 1] \in Seq(X) /\ ToSet(F[k + 1]) = To(k + 1)
        BY <1>1, <3>1, <3>3, <4>1, <4>2
      <4>4. QED
        BY <4>3
    <3>5. CASE k > 0
      <4>1. F[k] \in Seq(X) /\ ToSet(F[k]) = To(k)
        BY <2>5, <3>5
      <4>2. F[k + 1] = F[k] \o s[k + 1]
        <5>1. k + 1 # 1 /\ (k + 1) - 1 = k
          BY <3>1, <3>5
        <5>2. F[k + 1] = F[(k + 1) - 1] \o s[k + 1]
          BY <2>3, <3>1, <5>1
        <5>3. QED
          BY <5>1, <5>2
      <4>3. F[k + 1] \in Seq(X) /\ ToSet(F[k + 1]) = ToSet(F[k]) \cup ToSet(s[k + 1])
        BY <3>1, <4>1, <4>2, ConcatIs
      <4>4. k + 1 \in 0 .. n /\ ToSet(F[k + 1]) = To(k + 1)
        BY <1>1, <3>1, <3>3, <4>1, <4>3
      <4>5. QED
        BY <4>3, <4>4
    <3>6. QED
      BY <3>1, <3>4, <3>5
  <2> HIDE DEF P
  <2>6. \A k \in 0 .. n : k \in P
    <3> HIDE DEF n
    <3>1. QED
      BY <1>1, <2>4, <2>5, IntervalInduction
  <2>7. F[n] \in Seq(X) /\ ToSet(F[n]) = To(n)
    <3> HIDE DEF To, n
    <3>1. n \in 0 .. n /\ n > 0
      BY <1>1, <1>4
    <3>2. n \in P
      BY <2>6, <3>1
    <3>3. QED
      BY <3>1, <3>2 DEF P
  <2>8. QED
    BY <1>1, <2>1, <2>7
<1>5. QED
  BY <1>3, <1>4

\* Flattening appends one part after the other.
LEMMA FlattenSteps ==
  ASSUME NEW X, NEW s \in Seq(Seq(X))
  PROVE  \E f \in [0 .. Len(s) -> Seq(X)] :
           /\ f[0] = << >> /\ \A k \in 1 .. Len(s) : f[k] = f[k - 1] \o s[k]
           /\ FlattenSeq(s) = f[Len(s)]
<1> DEFINE n == Len(s)
           Flatten(g) == g = [i \in 1 .. Len(s) |-> IF i = 1 THEN s[i] ELSE g[i - 1] \o s[i]]
           F == CHOOSE g : Flatten(g)
<1>1. n \in Nat /\ \A i \in 1 .. n : s[i] \in Seq(X)
  BY LenProperties, ElementOfSeq
<1>2. PICK f \in [0 .. n -> Seq(X)] :
        f[0] = << >> /\ \A k \in 1 .. n : f[k] = f[k - 1] \o s[k]
  BY PrefixesConcat
<1>3. CASE n = 0
  <2>1. s = << >>
    BY <1>3, EmptySeq
  <2>2. FlattenSeq(s) = << >>
    BY <1>3, <2>1 DEF FlattenSeq
  <2>3. QED
    BY <1>2, <1>3, <2>2
<1>4. CASE n # 0
  <2>1. FlattenSeq(s) = F[n]
    BY <1>4 DEF FlattenSeq
  <2> DEFINE g == [i \in 1 .. n |-> f[i]]
  <2>2. ASSUME NEW i \in 1 .. n PROVE f[i] = IF i = 1 THEN s[i] ELSE g[i - 1] \o s[i]
    <3>1. f[i] = f[i - 1] \o s[i]
      BY <1>2
    <3>2. CASE i = 1
      <4>1. f[i] = << >> \o s[i] /\ s[i] \in Seq(X)
        BY <1>1, <1>2, <3>1, <3>2
      <4>2. QED
        BY <3>2, <4>1, ConcatEmptySeq
    <3>3. CASE i # 1
      <4>1. i - 1 \in 1 .. n
        BY <1>1, <3>3
      <4>2. QED
        BY <3>1, <3>3, <4>1
    <3>4. QED
      BY <3>2, <3>3
  <2>3. Flatten(g)
    BY <2>2
  <2>4. F = [i \in 1 .. n |-> IF i = 1 THEN s[i] ELSE F[i - 1] \o s[i]]
    <3> HIDE DEF Flatten, g
    <3>1. Flatten(F)
      BY <2>3
    <3>2. QED
      BY <3>1 DEF Flatten
  <2> HIDE DEF F
  <2> DEFINE P == {k \in 0 .. n : k > 0 => F[k] = f[k]}
  <2>5. 0 \in P
    BY <1>1
  <2>6. ASSUME NEW k \in 0 .. n - 1, k \in P PROVE k + 1 \in P
    <3>1. k \in Nat /\ k + 1 \in 1 .. n /\ k + 1 \in 0 .. n /\ (k + 1) - 1 = k /\ s[k + 1] \in Seq(X)
      BY <1>1
    <3>2. f[k + 1] = f[k] \o s[k + 1]
      BY <1>2, <3>1
    <3>3. F[k + 1] = IF k + 1 = 1 THEN s[k + 1] ELSE F[(k + 1) - 1] \o s[k + 1]
      BY <2>4, <3>1
    <3>4. CASE k = 0
      <4>1. f[k + 1] = << >> \o s[k + 1]
        BY <1>2, <3>2, <3>4
      <4>2. f[k + 1] = s[k + 1]
        BY <3>1, <4>1, ConcatEmptySeq
      <4>3. QED
        BY <3>1, <3>3, <3>4, <4>2
    <3>5. CASE k > 0
      <4>1. F[k] = f[k]
        BY <2>6, <3>5
      <4>2. F[k + 1] = F[k] \o s[k + 1]
        <5>1. k + 1 # 1
          BY <3>1, <3>5
        <5>2. F[k + 1] = F[(k + 1) - 1] \o s[k + 1]
          BY <3>3, <5>1
        <5>3. QED
          BY <3>1, <5>2
      <4>3. QED
        BY <3>1, <3>2, <4>1, <4>2
    <3>6. QED
      BY <3>1, <3>4, <3>5
  <2> HIDE DEF P
  <2>7. \A k \in 0 .. n : k \in P
    <3> HIDE DEF n
    <3>1. QED
      BY <1>1, <2>5, <2>6, IntervalInduction
  <2>8. F[n] = f[n]
    <3>1. n \in P /\ n > 0
      BY <1>1, <1>4, <2>7
    <3>2. QED
      BY <3>1 DEF P
  <2>9. QED
    BY <1>2, <2>1, <2>8
<1>5. QED
  BY <1>3, <1>4

\* Sequences without repetition that share nothing, one after the other.
LEMMA ConcatDistinct ==
  ASSUME NEW X, NEW s \in Seq(X), NEW t \in Seq(X), IsInjective(s), IsInjective(t),
         ToSet(s) \cap ToSet(t) = {}
  PROVE  IsInjective(s \o t)
<1> DEFINE u == s \o t
<1>1. /\ Len(s \o t) = Len(s) + Len(t) /\ s \o t \in Seq(X)
      /\ \A i \in 1 .. Len(s) + Len(t) : (s \o t)[i] = IF i <= Len(s) THEN s[i] ELSE t[i - Len(s)]
  BY ConcatProperties
<1>2. Len(s) \in Nat /\ Len(t) \in Nat /\ DOMAIN s = 1 .. Len(s) /\ DOMAIN t = 1 .. Len(t)
      /\ DOMAIN u = 1 .. Len(s) + Len(t)
  BY <1>1, LenProperties
<1>3. \A i \in 1 .. Len(s) + Len(t) : u[i] = IF i <= Len(s) THEN s[i] ELSE t[i - Len(s)]
  BY <1>1
<1> HIDE DEF u
<1>4. ASSUME NEW i \in DOMAIN u, NEW j \in DOMAIN u, u[i] = u[j], i <= Len(s), ~(j <= Len(s))
      PROVE  FALSE
  <2>1. i \in DOMAIN s /\ j - Len(s) \in DOMAIN t
    BY <1>2, <1>4
  <2>2. u[i] = s[i] /\ u[j] = t[j - Len(s)]
    BY <1>2, <1>3, <1>4
  <2>3. u[i] \in ToSet(s) /\ u[j] \in ToSet(t)
    BY <2>1, <2>2 DEF ToSet
  <2>4. QED
    BY <1>4, <2>3
<1>5. ASSUME NEW i \in DOMAIN u, NEW j \in DOMAIN u, u[i] = u[j] PROVE i = j
  <2>1. CASE i <= Len(s) /\ j <= Len(s)
    <3>1. i \in DOMAIN s /\ j \in DOMAIN s /\ s[i] = s[j]
      BY <1>2, <1>3, <1>5, <2>1
    <3>2. QED
      BY <3>1 DEF IsInjective
  <2>2. CASE ~(i <= Len(s)) /\ ~(j <= Len(s))
    <3>1. i - Len(s) \in DOMAIN t /\ j - Len(s) \in DOMAIN t /\ t[i - Len(s)] = t[j - Len(s)]
      BY <1>2, <1>3, <1>5, <2>2
    <3>2. i - Len(s) = j - Len(s)
      BY <3>1 DEF IsInjective
    <3>3. QED
      BY <1>2, <3>2
  <2>3. QED
    BY <1>4, <1>5, <2>1, <2>2
<1>6. QED
  BY <1>5 DEF IsInjective, u

LEMMA FlattenDistinct ==
  ASSUME NEW X, NEW s \in Seq(Seq(X)), \A i \in DOMAIN s : IsInjective(s[i]),
         \A i, j \in DOMAIN s : i # j => ToSet(s[i]) \cap ToSet(s[j]) = {}
  PROVE  IsInjective(FlattenSeq(s))
<1> DEFINE n == Len(s)
           To(k) == UNION {ToSet(s[i]) : i \in 1 .. k}
<1>1. n \in Nat /\ DOMAIN s = 1 .. n /\ \A i \in 1 .. n : s[i] \in Seq(X)
  BY LenProperties, ElementOfSeq
<1>2. PICK f \in [0 .. n -> Seq(X)] :
        /\ f[0] = << >> /\ \A k \in 1 .. n : f[k] = f[k - 1] \o s[k]
        /\ FlattenSeq(s) = f[n]
  BY FlattenSteps
<1> DEFINE P == {k \in 0 .. n : IsInjective(f[k]) /\ ToSet(f[k]) = To(k)}
<1>3. 0 \in P
  <2>1. IsInjective(<< >>) /\ ToSet(<< >>) = {}
    BY DEF IsInjective, ToSet
  <2>2. To(0) = {}
    OBVIOUS
  <2>3. QED
    BY <1>1, <1>2, <2>1, <2>2
<1>4. ASSUME NEW k \in 0 .. n - 1, k \in P PROVE k + 1 \in P
  <2>1. k \in Nat /\ k + 1 \in 1 .. n /\ k + 1 \in 0 .. n /\ (k + 1) - 1 = k
        /\ k \in 0 .. n /\ s[k + 1] \in Seq(X)
    BY <1>1
  <2>2. f[k + 1] = f[k] \o s[k + 1] /\ f[k] \in Seq(X)
    BY <1>2, <2>1
  <2>3. 1 .. k + 1 = (1 .. k) \cup {k + 1}
    BY <2>1
  <2>4. To(k + 1) = To(k) \cup ToSet(s[k + 1])
    BY <2>3
  <2>5. \A i \in 1 .. k : i \in DOMAIN s /\ k + 1 \in DOMAIN s /\ i # k + 1
    BY <1>1, <2>1
  <2>6. \A i \in 1 .. k : ToSet(s[i]) \cap ToSet(s[k + 1]) = {}
    BY <2>5
  <2>7. ToSet(f[k]) \cap ToSet(s[k + 1]) = {}
    BY <1>4, <2>6
  <2>8. IsInjective(f[k]) /\ IsInjective(s[k + 1])
    BY <1>1, <1>4, <2>1
  <2>9. IsInjective(f[k] \o s[k + 1]) /\ ToSet(f[k] \o s[k + 1]) = ToSet(f[k]) \cup ToSet(s[k + 1])
    BY <2>1, <2>2, <2>7, <2>8, ConcatIs, ConcatDistinct
  <2> HIDE DEF To
  <2>10. QED
    BY <1>4, <2>1, <2>2, <2>4, <2>9
<1> HIDE DEF P
<1>5. \A k \in 0 .. n : k \in P
  <2> HIDE DEF n
  <2>1. QED
    BY <1>1, <1>3, <1>4, IntervalInduction
<1>6. n \in P
  BY <1>1, <1>5
<1>7. QED
  BY <1>2, <1>6 DEF P

-----------------------------------------------------------------------------
(* Ranks *)

\* before gives the elements of a finite set in a strict total order.
Orders(before, S) ==
  /\ before \in [S -> SUBSET S]
  /\ \A e \in S : e \notin before[e]
  /\ \A e, f \in S : e = f \/ e \in before[f] \/ f \in before[e]
  /\ \A e, f \in S : e \in before[f] => before[e] \subseteq before[f]

\* Ranked lists them all, each once and in that order.
LEMMA RankedInOrder ==
  ASSUME NEW S, IsFiniteSet(S), NEW before, Orders(before, S)
  PROVE  /\ Cardinality(S) \in Nat
         /\ Ranked(before) \in Bijection(1 .. Cardinality(S), S)
         /\ \A j, k \in 1 .. Cardinality(S) : j < k => Ranked(before)[j] \in before[Ranked(before)[k]]
         /\ \A k \in 1 .. Cardinality(S) : Cardinality(before[Ranked(before)[k]]) = k - 1
<1> DEFINE n == Cardinality(S)
           rank == [e \in S |-> Cardinality(before[e])]
           at == Ranked(before)
           from == 0 .. n - 1
<1>1. n \in Nat
  BY FS_CardinalityType
<1>2. ASSUME NEW e \in S
      PROVE  IsFiniteSet(before[e]) /\ Cardinality(before[e]) \in Nat /\ Cardinality(before[e]) < n
  <2>1. before[e] \in SUBSET S /\ before[e] # S
    BY DEF Orders
  <2>2. IsFiniteSet(before[e]) /\ Cardinality(before[e]) <= n /\ Cardinality(before[e]) # n
    BY <2>1, FS_Subset
  <2>3. Cardinality(before[e]) \in Nat
    BY <2>2, FS_CardinalityType
  <2>4. QED
    BY <1>1, <2>2, <2>3
<1>3. ASSUME NEW e \in S, NEW f \in S, e \in before[f]
      PROVE  rank[e] < rank[f]
  <2>1. before[e] \in SUBSET before[f] /\ e \in before[f] /\ e \notin before[e]
    BY <1>3 DEF Orders
  <2>2. IsFiniteSet(before[f]) /\ before[e] # before[f]
    BY <1>2, <2>1
  <2>3. Cardinality(before[e]) <= Cardinality(before[f]) /\ Cardinality(before[e]) # Cardinality(before[f])
    BY <2>1, <2>2, FS_Subset
  <2>4. QED
    BY <1>2, <2>3
<1>4. rank \in [S -> from] /\ \A e, f \in S : rank[e] = rank[f] => e = f
  <2>1. rank \in [S -> from]
    BY <1>1, <1>2
  <2>2. ASSUME NEW e \in S, NEW f \in S, rank[e] = rank[f] PROVE e = f
    <3>1. e = f \/ e \in before[f] \/ f \in before[e]
      BY DEF Orders
    <3>2. rank[e] \in Int /\ ~(rank[e] < rank[f]) /\ ~(rank[f] < rank[e])
      BY <2>1, <2>2
    <3>3. QED
      BY <1>3, <3>1, <3>2
  <2>3. QED
    BY <2>1, <2>2
<1>5. IsFiniteSet(from) /\ Cardinality(from) = n
  BY <1>1, FS_Interval
<1>6. \A k \in from : \E e \in S : rank[e] = k
  <2> HIDE DEF rank, from
  <2>1. rank \in Injection(S, from)
    BY <1>4, Fun_IsInj
  <2>2. rank \in Surjection(S, from)
    BY <1>5, <2>1, FS_Injection
  <2>3. QED
    BY <2>2, Fun_SurjectionProperties
<1>7. /\ DOMAIN at = 1 .. n
      /\ \A k \in 1 .. n : at[k] \in S /\ Cardinality(before[at[k]]) = k - 1
  <2>1. DOMAIN before = S
    BY DEF Orders
  <2>2. at = [k \in 1 .. n |-> CHOOSE e \in S : Cardinality(before[e]) = k - 1]
    BY <2>1 DEF Ranked
  <2>3. ASSUME NEW k \in 1 .. n PROVE \E e \in S : Cardinality(before[e]) = k - 1
    <3>1. k - 1 \in from
      BY <1>1
    <3>2. QED
      BY <1>6, <3>1
  <2> HIDE DEF at
  <2>4. QED
    BY <2>2, <2>3
<1>8. \A k \in 1 .. n : at[k] \in S /\ rank[at[k]] = k - 1
  BY <1>7
<1> HIDE DEF at, rank, n
<1>9. at \in [1 .. n -> S]
  <2>1. at = [k \in 1 .. n |-> at[k]]
    BY <1>7 DEF at, Ranked, n
  <2>2. QED
    BY <1>8, <2>1
<1>10. \A a, b \in 1 .. n : at[a] = at[b] => a = b
  BY <1>1, <1>8
<1>11. \A t \in S : \E s \in 1 .. n : at[s] = t
  <2>1. SUFFICES ASSUME NEW t \in S PROVE \E s \in 1 .. n : at[s] = t
    OBVIOUS
  <2>2. rank[t] \in 0 .. n - 1
    BY <1>4
  <2>3. rank[t] + 1 \in 1 .. n
    BY <1>1, <2>2
  <2>4. at[rank[t] + 1] \in S /\ rank[at[rank[t] + 1]] = (rank[t] + 1) - 1
    BY <1>8, <2>3
  <2>5. rank[at[rank[t] + 1]] = rank[t]
    BY <2>2, <2>4
  <2>6. at[rank[t] + 1] = t
    BY <1>4, <2>4, <2>5
  <2>7. QED
    BY <2>3, <2>6
<1>12. at \in Bijection(1 .. n, S)
  BY <1>9, <1>10, <1>11, Fun_IsBij
<1>13. ASSUME NEW j \in 1 .. n, NEW k \in 1 .. n, j < k PROVE at[j] \in before[at[k]]
  <2>1. at[j] = at[k] \/ at[j] \in before[at[k]] \/ at[k] \in before[at[j]]
    BY <1>8 DEF Orders
  <2>2. CASE at[k] \in before[at[j]]
    <3>1. rank[at[k]] < rank[at[j]]
      BY <1>3, <1>8, <2>2 DEF rank
    <3>2. k - 1 < j - 1
      BY <1>8, <3>1
    <3>3. QED
      BY <1>1, <1>13, <3>2
  <2>3. CASE at[j] = at[k]
    BY <1>1, <1>10, <1>13, <2>3
  <2>4. QED
    BY <2>1, <2>2, <2>3
<1>14. QED
  BY <1>1, <1>7, <1>12, <1>13 DEF n, at

=============================================================================
