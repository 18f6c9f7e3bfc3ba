------------------------- MODULE ThresholdHoldProofs -------------------------
(***************************************************************************)
(* Proofs about ThresholdHold, from the values it is built from upwards.   *)
(***************************************************************************)
EXTENDS ThresholdHold, SumTheorems, SequenceTheorems

-----------------------------------------------------------------------------
(* What is kept of a sequence *)

\* What is kept of a sequence are its elements at the positions kept, in order.
LEMMA KeptElements ==
  ASSUME NEW n \in Nat, NEW P \in SUBSET (1 .. n), NEW seq
  PROVE  /\ IsFiniteSet(P) /\ Cardinality(P) \in Nat
         /\ \E at \in Bijection(1 .. Cardinality(P), P) :
              /\ Kept(seq, P) = [k \in 1 .. Cardinality(P) |-> seq[at[k]]]
              /\ \A j, k \in 1 .. Cardinality(P) : j < k => at[j] < at[k]
<1> DEFINE before == [i \in P |-> {j \in P : j < i}]
           at == Ranked(before)
<1>1. IsFiniteSet(P)
  <2>1. IsFiniteSet(1 .. n)
    BY FS_Interval
  <2>2. QED
    BY <2>1, FS_Subset
<1>2. \A i \in P : i \in Int
  OBVIOUS
<1>3. Orders(before, P)
  <2>1. before \in [P -> SUBSET P]
    OBVIOUS
  <2>2. \A e \in P : e \notin before[e]
    BY <1>2
  <2>3. \A e, f \in P : e = f \/ e \in before[f] \/ f \in before[e]
    BY <1>2
  <2>4. ASSUME NEW e \in P, NEW f \in P, e \in before[f], NEW j \in before[e] PROVE j \in before[f]
    <3>1. j \in P /\ j < e /\ e < f /\ j \in Int /\ e \in Int /\ f \in Int
      BY <1>2, <2>4
    <3>2. QED
      BY <3>1
  <2> HIDE DEF before
  <2>5. QED
    BY <2>1, <2>2, <2>3, <2>4, Zenon DEF Orders
<1> HIDE DEF before
<1>4. /\ Cardinality(P) \in Nat
      /\ at \in Bijection(1 .. Cardinality(P), P)
      /\ \A j, k \in 1 .. Cardinality(P) : j < k => at[j] \in before[at[k]]
  BY <1>1, <1>3, RankedInOrder
<1>5. DOMAIN at = 1 .. Cardinality(P)
  BY <1>4, Fun_BijectionProperties
<1>6. Kept(seq, P) = [k \in 1 .. Cardinality(P) |-> seq[at[k]]]
  BY <1>5 DEF Kept, before
<1>7. \A j, k \in 1 .. Cardinality(P) : j < k => at[j] < at[k]
  <2> HIDE DEF at
  <2>1. \A k \in 1 .. Cardinality(P) : at[k] \in P
    BY <1>4, Fun_BijectionProperties
  <2>2. QED
    BY <1>4, <2>1 DEF before
<1>8. QED
  BY <1>1, <1>4, <1>6, <1>7

LEMMA KeptSequence ==
  ASSUME NEW T, NEW n \in Nat, NEW seq, NEW P \in SUBSET (1 .. n), \A i \in P : seq[i] \in T
  PROVE  Kept(seq, P) \in Seq(T)
<1>1. /\ Cardinality(P) \in Nat
      /\ \E at \in Bijection(1 .. Cardinality(P), P) :
           /\ Kept(seq, P) = [k \in 1 .. Cardinality(P) |-> seq[at[k]]]
           /\ \A j, k \in 1 .. Cardinality(P) : j < k => at[j] < at[k]
  BY KeptElements
<1>2. PICK at \in Bijection(1 .. Cardinality(P), P) :
        Kept(seq, P) = [k \in 1 .. Cardinality(P) |-> seq[at[k]]]
  BY <1>1
<1>3. \A k \in 1 .. Cardinality(P) : at[k] \in P
  <2>1. at \in [1 .. Cardinality(P) -> P]
    BY <1>2, Fun_BijectionProperties
  <2>2. QED
    BY <2>1
<1>4. Kept(seq, P) \in [1 .. Cardinality(P) -> T]
  BY <1>2, <1>3
<1>5. QED
  BY <1>1, <1>4, IsASeq

\* Summing over what is kept is summing over the positions kept.
LEMMA KeptSum ==
  ASSUME NEW n \in Nat, NEW P \in SUBSET (1 .. n), NEW value, \A i \in P : value[i] \in Int,
         NEW at \in Bijection(1 .. Cardinality(P), P)
  PROVE  SumFunction([k \in 1 .. Cardinality(P) |-> value[at[k]]]) = SumFunctionOnSet(value, P)
<1> DEFINE m == 1 .. Cardinality(P)
           f == [k \in m |-> value[at[k]]]
<1>1. IsFiniteSet(P) /\ Cardinality(P) \in Nat
  BY KeptElements
<1>2. IsFiniteSet(m)
  BY <1>1, FS_Interval
<1>3. at \in Bijection(m, P)
  OBVIOUS
<1>4. \A k \in m : at[k] \in P
  <2>1. at \in [m -> P]
    BY <1>3, Fun_BijectionProperties
  <2>2. QED
    BY <2>1
<1>5. DOMAIN f = m /\ \A k \in m : f[k] \in Int /\ value[at[k]] = f[k]
  BY <1>4
<1> HIDE DEF m, f
<1>6. SumFunctionOnSet(value, P) = SumFunctionOnSet(f, m)
  BY <1>2, <1>3, <1>5, SumOfRenamed
<1>7. SumFunction(f) = SumFunctionOnSet(value, P)
  BY <1>5, <1>6 DEF SumFunction
<1>8. QED
  BY <1>7 DEF f, m

-----------------------------------------------------------------------------
(* Amounts *)

Level == [price : Price, size : Nat \ {0}]

SliceTypes == [price : Price, size : Nat \ {0}, notional : Nat, fee : Nat]

LEMMA ProductIsNat ==
  ASSUME NEW a \in Nat, NEW b \in Nat
  PROVE  a * b \in Nat
OBVIOUS

LEMMA QuotientIsNat ==
  ASSUME NEW a \in Nat, NEW unit \in Nat, unit > 0
  PROVE  a \div unit \in Nat
OBVIOUS

\* A share of an amount that is not more than the whole is no more than the amount.
LEMMA PartIsLess ==
  ASSUME NEW a \in Nat, NEW rate \in Nat, NEW unit \in Nat, unit > 0, rate <= unit
  PROVE  (a * rate) \div unit \in Nat /\ (a * rate) \div unit <= a
<1>1. a * rate \in Nat /\ a * unit \in Nat /\ a * rate <= a * unit
  OBVIOUS
<1>2. (a * rate) \div unit \in Nat
  BY <1>1
<1>3. (a * unit) \div unit = a
  OBVIOUS
<1>4. (a * rate) \div unit <= (a * unit) \div unit
  <2> SUFFICES ASSUME NEW b \in Nat, NEW c \in Nat, b <= c
               PROVE  b \div unit <= c \div unit
    BY <1>1
  <2>1. QED
    OBVIOUS
<1>5. QED
  BY <1>2, <1>3, <1>4

LEMMA PriceIsNat ==
  ASSUME NEW p \in Price
  PROVE  /\ PriceScale \in Nat /\ PriceScale > 1
         /\ p \in Nat /\ p > 0 /\ p # None /\ PriceScale - p \in Nat
BY PriceScaleAssumption DEF Price, None

LEMMA HalfUpIsNat ==
  ASSUME NEW raw \in Nat, NEW unit \in Nat, unit > 0
  PROVE  HalfUp(raw, unit) \in Nat
BY DEF HalfUp

\* A whole number of shares at a price has whole amounts, none if there are none.
LEMMA AmountsAreNat ==
  ASSUME NEW p \in Price, NEW size \in Nat
  PROVE  /\ NotionalScaled(size, p) \in Nat /\ Fee(size, p) \in Nat
         /\ size = 0 => NotionalScaled(size, p) = 0 /\ Fee(size, p) = 0
<1>1. /\ p \in Nat /\ PriceScale \in Nat /\ PriceScale > 0 /\ PriceScale - p \in Nat
      /\ FeeRate \in Nat /\ FeeRateUnit \in Nat /\ FeeRateUnit > 0 /\ MinimumFee \in Nat
  BY PriceIsNat, RealismAssumption
<1>2. size * p \in Nat /\ HalfUp(size * p, PriceScale) \in Nat
  BY <1>1, HalfUpIsNat, ProductIsNat
<1>3. FeeRateUnit * PriceScale \in Nat /\ FeeRateUnit * PriceScale > 0
  BY <1>1
<1>4. /\ FeeRateUnit * PriceScale * PriceScale \in Nat
      /\ FeeRateUnit * PriceScale * PriceScale > 0
  BY <1>1, <1>3
<1>5. size * FeeRate * p * (PriceScale - p) \in Nat
  <2>1. size * FeeRate \in Nat
    BY <1>1, ProductIsNat
  <2>2. size * FeeRate * p \in Nat
    BY <1>1, <2>1, ProductIsNat
  <2>3. QED
    BY <1>1, <2>2, ProductIsNat
<1>6. Fee(size, p) \in Nat
  <2> DEFINE raw == size * FeeRate * p * (PriceScale - p)
             fee == HalfUp(raw, FeeRateUnit * PriceScale * PriceScale)
  <2>1. fee \in Nat
    BY <1>4, <1>5, HalfUpIsNat
  <2>2. Fee(size, p) = IF raw = 0 THEN 0 ELSE Max({fee, MinimumFee})
    BY DEF Fee
  <2> HIDE DEF raw, fee
  <2>3. Max({fee, MinimumFee}) \in Nat
    BY <1>1, <2>1, MaxOfTwo
  <2>4. QED
    BY <2>2, <2>3
<1>7. ASSUME size = 0 PROVE NotionalScaled(size, p) = 0 /\ Fee(size, p) = 0
  <2>1. size * p = 0 /\ size * FeeRate * p * (PriceScale - p) = 0
    BY <1>1, <1>7
  <2>2. HalfUp(0, PriceScale) = 0
    BY <1>1 DEF HalfUp
  <2>3. QED
    BY <2>1, <2>2 DEF Fee, NotionalScaled
<1>8. QED
  BY <1>2, <1>6, <1>7 DEF NotionalScaled

LEMMA SliceIsWhole ==
  ASSUME NEW p \in Price, NEW size \in Nat
  PROVE  /\ size # 0 => Slice(p, size) \in SliceTypes
         /\ Slice(p, size).price = p /\ Slice(p, size).size = size
         /\ Cost(Slice(p, size)) \in Nat
         /\ size = 0 => Cost(Slice(p, size)) = 0
<1>1. /\ NotionalScaled(size, p) \in Nat /\ Fee(size, p) \in Nat
      /\ size = 0 => NotionalScaled(size, p) = 0 /\ Fee(size, p) = 0
  BY AmountsAreNat
<1>2. QED
  BY <1>1 DEF Slice, SliceTypes, Cost

LEMMA SliceFields ==
  ASSUME NEW slices \in Seq(SliceTypes), NEW i \in DOMAIN slices
  PROVE  /\ DOMAIN slices = 1 .. Len(slices) /\ Len(slices) \in Nat
         /\ slices[i] \in SliceTypes
         /\ slices[i].price \in Price
         /\ slices[i].size \in Nat /\ slices[i].size > 0
         /\ slices[i].notional \in Nat /\ slices[i].fee \in Nat /\ Cost(slices[i]) \in Nat
<1>1. DOMAIN slices = 1 .. Len(slices) /\ Len(slices) \in Nat
  BY LenProperties
<1>2. slices[i] \in SliceTypes
  BY <1>1, ElementOfSeq
<1>3. QED
  BY <1>1, <1>2 DEF SliceTypes, Cost

\* The amounts of slices add up to natural numbers.
LEMMA TotalIsNat ==
  ASSUME NEW slices \in Seq(SliceTypes)
  PROVE  /\ Total(slices, "size") \in Nat /\ Total(slices, "notional") \in Nat
         /\ Total(slices, "fee") \in Nat /\ TotalCost(slices) \in Nat
         /\ slices # << >> => Total(slices, "size") > 0
<1> DEFINE S == DOMAIN slices
           value(field) == [i \in S |-> slices[i][field]]
<1>1. S = 1 .. Len(slices) /\ Len(slices) \in Nat
  BY LenProperties
<1>2. IsFiniteSet(S)
  BY <1>1, FS_Interval
<1>3. ASSUME NEW field \in {"size", "notional", "fee"}
      PROVE  Total(slices, field) = SumFunctionOnSet(value(field), S)
  BY DEF Total, SumFunction
<1>4. ASSUME NEW field \in {"size", "notional", "fee"}, NEW i \in S
      PROVE  value(field)[i] \in Nat
  BY SliceFields
<1>5. \A i \in S : value("size")[i] > 0
  BY SliceFields
<1>6. ASSUME slices # << >> PROVE S # {}
  <2>1. Len(slices) # 0
    BY <1>6, EmptySeq
  <2>2. 1 \in S
    BY <1>1, <2>1
  <2>3. QED
    BY <2>2
<1> HIDE DEF S, value
<1>7. ASSUME NEW field \in {"size", "notional", "fee"}
      PROVE  Total(slices, field) \in Nat
  <2>1. \A i \in S : value(field)[i] \in Nat
    BY <1>4
  <2>2. SumFunctionOnSet(value(field), S) \in Nat
    BY <1>2, <2>1, SumIsNat
  <2>3. QED
    BY <1>3, <2>2
<1>8. ASSUME slices # << >> PROVE Total(slices, "size") > 0
  <2> DEFINE f == value("size")
  <2>1. PICK i \in S : TRUE
    BY <1>6, <1>8
  <2>2. \A j \in S : f[j] \in Nat
    BY <1>4
  <2>3. f[i] > 0
    BY <1>5
  <2>4. \A j \in S : f[j] \in Int
    BY <2>2
  <2>5. S \ {i} \in SUBSET S
    OBVIOUS
  <2>6. IsFiniteSet(S \ {i})
    BY <1>2, <2>5, FS_Subset
  <2>7. \A j \in S \ {i} : f[j] \in Nat
    BY <2>2
  <2>8. Total(slices, "size") = SumFunctionOnSet(f, S)
    BY <1>3
  <2> HIDE DEF f
  <2>9. SumFunctionOnSet(f, S) = f[i] + SumFunctionOnSet(f, S \ {i})
    BY <1>2, <2>4, SumOfAny
  <2>10. SumFunctionOnSet(f, S \ {i}) \in Nat
    BY <2>6, <2>7, SumIsNat
  <2>11. QED
    BY <2>1, <2>2, <2>3, <2>8, <2>9, <2>10
<1>9. QED
  BY <1>7, <1>8 DEF TotalCost

\* What a child or an exit that met nothing adds up to.
LEMMA TotalOfNone == Total(<< >>, "size") = 0 /\ TotalCost(<< >>) = 0
<1>1. ASSUME NEW field PROVE Total(<< >>, field) = 0
  <2> DEFINE f == [i \in DOMAIN << >> |-> << >>[i][field]]
  <2>1. DOMAIN f = {}
    OBVIOUS
  <2>2. Total(<< >>, field) = SumFunctionOnSet(f, DOMAIN f)
    BY DEF Total, SumFunction
  <2> HIDE DEF f
  <2>3. QED
    BY <2>1, <2>2, SumOfNone
<1>2. QED
  BY <1>1 DEF TotalCost

-----------------------------------------------------------------------------
(* The walk down a ladder *)

LEMMA LadderFields ==
  ASSUME NEW ladder \in Seq(Level), NEW i \in DOMAIN ladder
  PROVE  /\ DOMAIN ladder = 1 .. Len(ladder) /\ Len(ladder) \in Nat
         /\ ladder[i].price \in Price
         /\ ladder[i].size \in Nat /\ ladder[i].size > 0
<1>1. DOMAIN ladder = 1 .. Len(ladder) /\ Len(ladder) \in Nat
  BY LenProperties
<1>2. ladder[i] \in Level
  BY <1>1, ElementOfSeq
<1>3. QED
  BY <1>1, <1>2 DEF Level

LEMMA ReachableIsPart ==
  ASSUME NEW displayed \in Nat
  PROVE  Reachable(displayed) \in Nat /\ Reachable(displayed) <= displayed
<1> DEFINE a == (displayed * (PPM - Realism.haircut)) \div PPM
           b == (displayed * Realism.participation) \div PPM
<1>1. /\ PPM \in Nat /\ PPM > 0
      /\ PPM - Realism.haircut \in Nat /\ PPM - Realism.haircut <= PPM
      /\ Realism.participation \in Nat /\ Realism.participation <= PPM
  BY RealismAssumption
<1>2. a \in Nat /\ a <= displayed
  BY <1>1, PartIsLess
<1>3. b \in Nat
  BY <1>1, PartIsLess
<1>4. Reachable(displayed) = Min({a, b})
  BY DEF Reachable
<1> HIDE DEF a, b
<1>5. QED
  BY <1>2, <1>3, <1>4, MinOfTwo

LEMMA VisibleIsPart ==
  ASSUME NEW ladder \in Seq(Level)
  PROVE  Visible(ladder) \in Nat /\ Visible(ladder) <= Len(ladder)
<1>1. Len(ladder) \in Nat
  BY LenProperties
<1>2. Realism.levels \in {None} \cup (Nat \ {0})
  BY RealismAssumption
<1>3. CASE Realism.levels = None
  BY <1>1, <1>3 DEF Visible
<1>4. CASE Realism.levels # None
  <2>1. Realism.levels \in Nat
    BY <1>2, <1>4
  <2>2. /\ Min({Realism.levels, Len(ladder)}) \in Nat
        /\ Min({Realism.levels, Len(ladder)}) <= Len(ladder)
    BY <1>1, <2>1, MinOfTwo
  <2>3. QED
    BY <1>4, <2>2 DEF Visible
<1>5. QED
  BY <1>3, <1>4

LEMMA AllowedIsPart ==
  ASSUME NEW ladder \in Seq(Level), NEW k \in DOMAIN ladder, NEW side, NEW limit
  PROVE  /\ Allowed(side, ladder, limit, k) \in Nat
         /\ Allowed(side, ladder, limit, k) <= ladder[k].size
<1>1. ladder[k].size \in Nat
  BY LadderFields
<1>2. Reachable(ladder[k].size) \in Nat /\ Reachable(ladder[k].size) <= ladder[k].size
  BY <1>1, ReachableIsPart
<1>3. QED
  BY <1>1, <1>2 DEF Allowed

\* Of A and then x that are there, what the asked amount still lets be taken.
LEMMA TakenNext ==
  ASSUME NEW asked \in Nat, NEW A \in Nat, NEW x \in Nat,
         NEW left, left = IF asked - A >= 0 THEN asked - A ELSE 0,
         NEW taken, taken = IF A <= asked THEN A ELSE asked,
         NEW y, y = IF x <= left THEN x ELSE left
  PROVE  x + A \in Nat /\ y + taken = IF x + A <= asked THEN x + A ELSE asked
<1>1. CASE A <= asked
  <2>1. taken = A /\ asked - A \in Nat /\ y = IF x <= asked - A THEN x ELSE asked - A
    BY <1>1
  <2>2. CASE x <= asked - A
    BY <2>1, <2>2
  <2>3. CASE ~(x <= asked - A)
    BY <2>1, <2>3
  <2>4. QED
    BY <2>2, <2>3
<1>2. CASE ~(A <= asked)
  <2>1. taken = asked /\ y = 0
    BY <1>2
  <2>2. QED
    BY <1>2, <2>1
<1>3. QED
  BY <1>1, <1>2

\* Whatever is taken of each of n amounts while less than what is asked for has
\* been gone past, all of it is no more than what is asked for.
LEMMA WalkStops ==
  ASSUME NEW n \in Nat, NEW asked \in Nat, NEW a \in [1 .. n -> Nat], NEW t \in [1 .. n -> Nat],
         \A k \in 1 .. n :
           t[k] = Min({a[k], Max({0, asked - SumFunction([i \in 1 .. k - 1 |-> a[i]])})})
  PROVE  SumFunctionOnSet(t, 1 .. n) <= asked
<1> DEFINE upTo(f, k) == SumFunctionOnSet(f, 1 .. k)
           Good == {k \in 0 .. n : /\ upTo(a, k) \in Nat
                                   /\ upTo(t, k) = IF upTo(a, k) <= asked THEN upTo(a, k) ELSE asked}
<1>1. ASSUME NEW f \in [1 .. n -> Nat], NEW k \in 0 .. n - 1
      PROVE  upTo(f, k + 1) = f[k + 1] + upTo(f, k)
  <2>1. IsFiniteSet(1 .. k) /\ k + 1 \notin 1 .. k /\ (1 .. k) \cup {k + 1} = 1 .. k + 1
    <3>1. k \in Nat
      OBVIOUS
    <3>2. IsFiniteSet(1 .. k)
      BY <3>1, FS_Interval
    <3>3. k + 1 \notin 1 .. k /\ (1 .. k) \cup {k + 1} = 1 .. k + 1
      BY <3>1
    <3>4. QED
      BY <3>2, <3>3
  <2>2. \A x \in (1 .. k) \cup {k + 1} : f[x] \in Int
    OBVIOUS
  <2>3. SumFunctionOnSet(f, (1 .. k) \cup {k + 1}) = f[k + 1] + SumFunctionOnSet(f, 1 .. k)
    BY <2>1, <2>2, SumOfMore
  <2>4. QED
    BY <2>1, <2>3
<1>2. 0 \in Good
  <2>1. 1 .. 0 = {}
    OBVIOUS
  <2>2. upTo(a, 0) = 0 /\ upTo(t, 0) = 0
    BY <2>1, SumOfNone
  <2> HIDE DEF upTo
  <2>3. QED
    BY <2>2
<1>3. ASSUME NEW k \in 0 .. n - 1
      PROVE  SumFunction([i \in 1 .. (k + 1) - 1 |-> a[i]]) = upTo(a, k)
  <2> DEFINE f == [i \in 1 .. (k + 1) - 1 |-> a[i]]
  <2>1. DOMAIN f = 1 .. k /\ \A i \in 1 .. k : f[i] = a[i]
    BY <1>3
  <2>2. IsFiniteSet(1 .. k)
    BY FS_Interval
  <2>3. SumFunction(f) = SumFunctionOnSet(f, DOMAIN f)
    BY DEF SumFunction
  <2> HIDE DEF f
  <2>4. SumFunctionOnSet(f, 1 .. k) = SumFunctionOnSet(a, 1 .. k)
    BY <2>1, <2>2, SumOfEqual
  <2>5. QED
    BY <2>1, <2>3, <2>4 DEF f
<1>4. ASSUME NEW k \in 0 .. n - 1, k \in Good PROVE k + 1 \in Good
  <2> DEFINE A == upTo(a, k)
             left == IF asked - A >= 0 THEN asked - A ELSE 0
  <2>1. k + 1 \in 1 .. n /\ k + 1 \in 0 .. n /\ a[k + 1] \in Nat /\ t[k + 1] \in Nat
    OBVIOUS
  <2>2. /\ upTo(a, k + 1) = a[k + 1] + A
        /\ upTo(t, k + 1) = t[k + 1] + upTo(t, k)
    BY <1>1
  <2>3. t[k + 1] = Min({a[k + 1], Max({0, asked - A})})
    BY <1>3, <2>1
  <2>4. A \in Nat /\ upTo(t, k) = IF A <= asked THEN A ELSE asked
    BY <1>4
  <2> HIDE DEF upTo, A
  <2>5. Max({0, asked - A}) = left
    <3> DEFINE z == asked - A
    <3>1. z \in Int /\ 0 \in Int /\ left = IF z >= 0 THEN z ELSE 0
      BY <2>4
    <3> HIDE DEF z, left
    <3>2. Max({0, z}) = IF 0 >= z THEN 0 ELSE z
      BY <3>1, MaxOfTwo
    <3>3. Max({0, z}) = left
      BY <3>1, <3>2
    <3>4. QED
      BY <3>3 DEF z
  <2>6. t[k + 1] = IF a[k + 1] <= left THEN a[k + 1] ELSE left
    <3>1. left \in Int /\ a[k + 1] \in Int
      BY <2>1, <2>4
    <3>2. t[k + 1] = Min({a[k + 1], left})
      BY <2>3, <2>5
    <3> HIDE DEF left
    <3>3. QED
      BY <3>1, <3>2, MinOfTwo
  <2>7. /\ upTo(a, k + 1) \in Nat
        /\ upTo(t, k + 1) = IF upTo(a, k + 1) <= asked THEN upTo(a, k + 1) ELSE asked
    <3> DEFINE x == a[k + 1]
               y == t[k + 1]
               taken == upTo(t, k)
    <3>1. x \in Nat /\ A \in Nat /\ asked \in Nat /\ left = IF asked - A >= 0 THEN asked - A ELSE 0
      BY <2>1, <2>4
    <3> HIDE DEF left
    <3>2. taken = (IF A <= asked THEN A ELSE asked) /\ y = IF x <= left THEN x ELSE left
      BY <2>4, <2>6
    <3>3. upTo(a, k + 1) = x + A /\ upTo(t, k + 1) = y + taken
      BY <2>2
    <3> HIDE DEF x, y, taken
    <3>4. x + A \in Nat /\ y + taken = IF x + A <= asked THEN x + A ELSE asked
      BY <3>1, <3>2, TakenNext
    <3>5. QED
      BY <3>3, <3>4
  <2>8. QED
    BY <2>1, <2>7
<1> HIDE DEF Good
<1>5. \A k \in 0 .. n : k \in Good
  BY <1>2, <1>4, IntervalInduction
<1>6. n \in Good
  BY <1>5
<1> HIDE DEF upTo
<1>7. upTo(t, n) <= asked
  BY <1>6 DEF Good
<1>8. QED
  BY <1>7 DEF upTo

\* The slices an order gets are of levels it meets, at most one of each and no
\* more than it shows, and all of them no more than is asked for.
LEMMA SweepFollowsLadder ==
  ASSUME NEW ladder \in Seq(Level), NEW side, NEW limit, NEW requested \in Nat
  PROVE  LET slices == Sweep(side, ladder, requested, limit)
         IN  /\ slices \in Seq(SliceTypes)
             /\ Total(slices, "size") <= requested
             /\ \E at \in Injection(DOMAIN slices, DOMAIN ladder) :
                  \A k \in DOMAIN slices : /\ slices[k].price = ladder[at[k]].price
                                           /\ slices[k].size <= ladder[at[k]].size
<1> DEFINE slices == Sweep(side, ladder, requested, limit)
           n == Visible(ladder)
           allowed(i) == Allowed(side, ladder, limit, i)
           above(k) == SumFunction([i \in 1 .. k - 1 |-> allowed(i)])
           take(k) == Min({allowed(k), Max({0, requested - above(k)})})
           a == [i \in 1 .. n |-> allowed(i)]
           t == [k \in 1 .. n |-> take(k)]
           P == {k \in 1 .. n : t[k] > 0}
           seq == [k \in 1 .. n |-> Slice(ladder[k].price, t[k])]
<1>1. slices = Kept(seq, P)
  <2>1. P = {k \in 1 .. n : take(k) > 0}
    OBVIOUS
  <2>2. seq = [k \in 1 .. n |-> Slice(ladder[k].price, take(k))]
    OBVIOUS
  <2>3. slices = Kept([k \in 1 .. n |-> Slice(ladder[k].price, take(k))], {k \in 1 .. n : take(k) > 0})
    BY DEF Sweep
  <2> HIDE DEF P, seq, slices, take, t, n
  <2>4. QED
    BY <2>1, <2>2, <2>3
<1>2. n \in Nat /\ \A k \in 1 .. n : k \in DOMAIN ladder
  <2>1. DOMAIN ladder = 1 .. Len(ladder) /\ Len(ladder) \in Nat
    BY LenProperties
  <2>2. n \in Nat /\ n <= Len(ladder)
    BY VisibleIsPart
  <2> HIDE DEF n
  <2>3. QED
    BY <2>1, <2>2
<1> HIDE DEF n, slices
<1>3. ASSUME NEW k \in 1 .. n
      PROVE  /\ allowed(k) \in Nat /\ allowed(k) <= ladder[k].size
             /\ ladder[k].price \in Price /\ ladder[k].size \in Nat
  BY <1>2, AllowedIsPart, LadderFields
<1> HIDE DEF allowed
<1>4. ASSUME NEW k \in 1 .. n PROVE above(k) \in Nat
  <2> DEFINE f == [i \in 1 .. k - 1 |-> allowed(i)]
             S == 1 .. k - 1
  <2>1. \A i \in S : f[i] \in Nat
    BY <1>2, <1>3
  <2>2. IsFiniteSet(S) /\ DOMAIN f = S
    BY FS_Interval
  <2>3. SumFunction(f) = SumFunctionOnSet(f, DOMAIN f)
    BY DEF SumFunction
  <2> HIDE DEF f, S
  <2>4. SumFunctionOnSet(f, S) \in Nat
    BY <2>1, <2>2, SumIsNat
  <2>5. QED
    BY <2>2, <2>3, <2>4 DEF f
<1>5. ASSUME NEW k \in 1 .. n PROVE take(k) \in Nat /\ take(k) <= allowed(k)
  <2> DEFINE room == Max({0, requested - above(k)})
  <2>1. above(k) \in Nat /\ allowed(k) \in Nat
    BY <1>3, <1>4
  <2> HIDE DEF above
  <2>2. requested - above(k) \in Int
    BY <2>1
  <2>3. room \in Nat
    BY <2>2, MaxOfTwo
  <2>4. take(k) = Min({allowed(k), room})
    OBVIOUS
  <2> HIDE DEF room, take
  <2>5. QED
    BY <2>1, <2>3, <2>4, MinOfTwo
<1>6. a \in [1 .. n -> Nat] /\ t \in [1 .. n -> Nat]
  <2> HIDE DEF take
  <2>1. QED
    BY <1>3, <1>5
<1>7. ASSUME NEW k \in 1 .. n
      PROVE  t[k] = Min({a[k], Max({0, requested - SumFunction([i \in 1 .. k - 1 |-> a[i]])})})
  <2>1. [i \in 1 .. k - 1 |-> a[i]] = [i \in 1 .. k - 1 |-> allowed(i)]
    BY <1>2
  <2>2. SumFunction([i \in 1 .. k - 1 |-> a[i]]) = above(k)
    BY <2>1
  <2>3. a[k] = allowed(k)
    OBVIOUS
  <2> HIDE DEF above, a
  <2>4. QED
    BY <2>2, <2>3
<1>8. ASSUME NEW k \in 1 .. n
      PROVE  /\ t[k] \in Nat /\ t[k] <= ladder[k].size
             /\ seq[k].price = ladder[k].price /\ seq[k].size = t[k]
             /\ t[k] > 0 => seq[k] \in SliceTypes
  <2>1. t[k] \in Nat /\ t[k] <= ladder[k].size
    <3>1. t[k] = take(k)
      OBVIOUS
    <3> HIDE DEF take, t
    <3>2. QED
      BY <1>3, <1>5, <3>1
  <2>2. seq[k] = Slice(ladder[k].price, t[k])
    OBVIOUS
  <2> HIDE DEF t, seq
  <2>3. QED
    BY <1>3, <2>1, <2>2, SliceIsWhole
<1> HIDE DEF a, t, seq, above, take
<1>9. SumFunctionOnSet(t, 1 .. n) <= requested
  BY <1>2, <1>6, <1>7, WalkStops
<1>10. P \in SUBSET (1 .. n) /\ \A i \in P : seq[i] \in SliceTypes
  BY <1>8
<1>11. slices \in Seq(SliceTypes)
  <2> HIDE DEF P
  <2>1. QED
    BY <1>1, <1>2, <1>10, KeptSequence
<1>12. IsFiniteSet(P) /\ Cardinality(P) \in Nat
  <2> HIDE DEF P
  <2>1. QED
    BY <1>2, <1>10, KeptElements
<1>13. PICK at \in Bijection(1 .. Cardinality(P), P) :
         slices = [k \in 1 .. Cardinality(P) |-> seq[at[k]]]
  <2> HIDE DEF P
  <2>1. \E at \in Bijection(1 .. Cardinality(P), P) :
              /\ Kept(seq, P) = [k \in 1 .. Cardinality(P) |-> seq[at[k]]]
              /\ \A j, k \in 1 .. Cardinality(P) : j < k => at[j] < at[k]
    BY <1>2, <1>10, KeptElements
  <2>2. QED
    BY <1>1, <2>1
<1> DEFINE m == 1 .. Cardinality(P)
<1>14. DOMAIN slices = m
  BY <1>13
<1>15. /\ at \in [m -> P] /\ at \in Injection(m, P)
       /\ \A j, k \in m : at[j] = at[k] => j = k
  <2> HIDE DEF P
  <2>1. at \in Bijection(m, P)
    BY <1>13
  <2> HIDE DEF m
  <2>2. at \in Injection(m, P)
    BY <2>1, Fun_BijectionProperties
  <2>3. at \in [m -> P]
    BY <2>2 DEF Injection
  <2>4. \A j, k \in m : at[j] = at[k] => j = k
    BY <2>2, Fun_InjectionProperties
  <2>5. QED
    BY <2>2, <2>3, <2>4
<1>16. \A k \in m : /\ at[k] \in P /\ at[k] \in DOMAIN ladder
                    /\ slices[k].price = ladder[at[k]].price
                    /\ slices[k].size = t[at[k]]
                    /\ slices[k].size <= ladder[at[k]].size
  <2>1. SUFFICES ASSUME NEW k \in m
                 PROVE  /\ at[k] \in P /\ at[k] \in DOMAIN ladder
                        /\ slices[k].price = ladder[at[k]].price
                        /\ slices[k].size = t[at[k]]
                        /\ slices[k].size <= ladder[at[k]].size
    OBVIOUS
  <2>2. at[k] \in P /\ at[k] \in 1 .. n
    BY <1>15
  <2>3. slices[k] = seq[at[k]]
    BY <1>13
  <2>4. QED
    BY <1>2, <1>8, <2>2, <2>3
<1>17. Total(slices, "size") <= requested
  <2> DEFINE f == [k \in m |-> t[at[k]]]
  <2>1. [k \in DOMAIN slices |-> slices[k]["size"]] = f
    BY <1>14, <1>16
  <2>2. Total(slices, "size") = SumFunction(f)
    BY <2>1 DEF Total
  <2>3. \A i \in P : t[i] \in Int
    BY <1>8
  <2>4. at \in Bijection(1 .. Cardinality(P), P)
    BY <1>13
  <2>5. SumFunction(f) = SumFunctionOnSet(t, P)
    <3> HIDE DEF P
    <3>1. SumFunction([k \in 1 .. Cardinality(P) |-> t[at[k]]]) = SumFunctionOnSet(t, P)
      BY <1>2, <1>10, <2>3, <2>4, KeptSum
    <3>2. QED
      BY <3>1
  <2>6. SumFunctionOnSet(t, P) <= SumFunctionOnSet(t, 1 .. n)
    <3> DEFINE e == [x \in 1 .. n |-> IF x \in P THEN t[x] ELSE 0]
    <3>1. IsFiniteSet(1 .. n)
      BY <1>2, FS_Interval
    <3>2. \A x \in 1 .. n : t[x] \in Int
      BY <1>8
    <3>3. \A x \in 1 .. n : e[x] \in Int /\ e[x] <= t[x]
      BY <1>8
    <3> HIDE DEF P
    <3>4. SumFunctionOnSet(t, P) = SumFunctionOnSet(e, 1 .. n)
      BY <1>10, <3>1, <3>2, SumOfPart
    <3> HIDE DEF e
    <3>5. SumFunctionOnSet(e, 1 .. n) <= SumFunctionOnSet(t, 1 .. n)
      BY <3>1, <3>2, <3>3, SumOfLess
    <3>6. QED
      BY <3>4, <3>5
  <2>7. SumFunctionOnSet(t, 1 .. n) \in Int /\ SumFunctionOnSet(t, P) \in Int
    <3>1. IsFiniteSet(1 .. n)
      BY <1>2, FS_Interval
    <3>2. \A x \in 1 .. n : t[x] \in Int
      BY <1>8
    <3>3. \A x \in P : t[x] \in Int
      BY <1>8
    <3> HIDE DEF P
    <3>4. QED
      BY <1>12, <3>1, <3>2, <3>3, SumOfAny
  <2> HIDE DEF f, P
  <2>8. QED
    BY <1>9, <2>2, <2>5, <2>6, <2>7
<1>18. at \in Injection(DOMAIN slices, DOMAIN ladder)
  <2>1. at \in [m -> DOMAIN ladder]
    BY <1>15, <1>16
  <2> HIDE DEF m, P
  <2>2. QED
    BY <1>14, <1>15, <2>1, Fun_IsInj
<1>19. QED
  BY <1>11, <1>14, <1>16, <1>17, <1>18 DEF slices

-----------------------------------------------------------------------------
(* The cap on what a BUY may spend *)

\* What is affordable is paid for by the amount to spend.
LEMMA AffordableIsPaid ==
  ASSUME NEW spend \in Nat, NEW price \in Price, NEW upper \in Nat
  PROVE  /\ MaxAffordable(spend, price, upper) \in 0 .. upper
         /\ Cost(Slice(price, MaxAffordable(spend, price, upper))) <= spend
<1> DEFINE S == {s \in 0 .. upper : Cost(Slice(price, s)) <= spend}
<1>1. CASE spend = 0
  <2>1. MaxAffordable(spend, price, upper) = 0
    BY <1>1 DEF MaxAffordable
  <2>2. Cost(Slice(price, 0)) = 0
    BY SliceIsWhole
  <2>3. QED
    BY <2>1, <2>2
<1>2. CASE spend > 0
  <2>1. Cost(Slice(price, 0)) = 0
    BY SliceIsWhole
  <2>2. 0 \in S
    BY <2>1
  <2>3. IsFiniteSet(S) /\ S \in SUBSET Int
    <3>1. IsFiniteSet(0 .. upper)
      BY FS_Interval
    <3>2. S \in SUBSET (0 .. upper)
      OBVIOUS
    <3>3. IsFiniteSet(S)
      BY <3>1, <3>2, FS_Subset
    <3>4. QED
      BY <3>2, <3>3
  <2>4. Max(S) \in S
    BY <2>2, <2>3, MaxIsGreatest
  <2>5. MaxAffordable(spend, price, upper) = Max(S)
    BY <1>2 DEF MaxAffordable
  <2>6. QED
    BY <2>4, <2>5
<1>3. QED
  BY <1>1, <1>2

LEMMA AffordableAtIsNat ==
  ASSUME NEW spend \in Nat, NEW price \in Price
  PROVE  AffordableAt(spend, price) \in Nat
<1>1. spend * PriceScale \in Nat /\ price \in Nat /\ price > 0
  BY PriceIsNat, ProductIsNat
<1>2. (spend * PriceScale) \div price \in Nat
  BY <1>1, QuotientIsNat
<1> DEFINE upper == ((spend * PriceScale) \div price) + 1
<1>3. upper \in Nat
  BY <1>2
<1>4. AffordableAt(spend, price) = MaxAffordable(spend, price, upper)
  BY DEF AffordableAt
<1> HIDE DEF upper
<1>5. MaxAffordable(spend, price, upper) \in 0 .. upper
  BY <1>3, AffordableIsPaid
<1>6. QED
  BY <1>4, <1>5

\* The whole cost is that of all slices.
LEMMA CostOfAll ==
  ASSUME NEW slices \in Seq(SliceTypes)
  PROVE  CostUpTo(slices, Len(slices)) = TotalCost(slices)
<1> DEFINE S == DOMAIN slices
           c == [i \in S |-> Cost(slices[i])]
           a == [i \in S |-> slices[i]["notional"]]
           b == [i \in S |-> slices[i]["fee"]]
<1>1. S = 1 .. Len(slices) /\ Len(slices) \in Nat
  BY LenProperties
<1>2. IsFiniteSet(S)
  BY <1>1, FS_Interval
<1>3. \A i \in S : a[i] \in Int /\ b[i] \in Int /\ c[i] = a[i] + b[i]
  BY SliceFields DEF Cost
<1>4. /\ CostUpTo(slices, Len(slices)) = SumFunctionOnSet(c, S)
      /\ TotalCost(slices) = SumFunctionOnSet(a, S) + SumFunctionOnSet(b, S)
  BY <1>1 DEF CostUpTo, TotalCost, Total, SumFunction
<1> HIDE DEF S, a, b, c
<1>5. SumFunctionOnSet(c, S) = SumFunctionOnSet(a, S) + SumFunctionOnSet(b, S)
  BY <1>2, <1>3, SumOfSums
<1>6. QED
  BY <1>4, <1>5

LEMMA CostIsNat ==
  ASSUME NEW slices \in Seq(SliceTypes), NEW k \in 0 .. Len(slices)
  PROVE  CostUpTo(slices, k) \in Nat /\ CostUpTo(slices, 0) = 0
<1> DEFINE c == [i \in 1 .. k |-> Cost(slices[i])]
<1>1. \A i \in 1 .. k : c[i] \in Nat
  <2>1. DOMAIN slices = 1 .. Len(slices) /\ Len(slices) \in Nat
    BY LenProperties
  <2>2. \A i \in 1 .. k : i \in DOMAIN slices
    BY <2>1
  <2>3. QED
    BY <2>2, SliceFields
<1>2. IsFiniteSet(1 .. k)
  <2>1. k \in Int
    BY LenProperties
  <2>2. QED
    BY <2>1, FS_Interval
<1>3. CostUpTo(slices, k) = SumFunctionOnSet(c, 1 .. k)
  BY DEF CostUpTo, SumFunction
<1> HIDE DEF c
<1>4. CostUpTo(slices, k) \in Nat
  BY <1>1, <1>2, <1>3, SumIsNat
<1>5. CostUpTo(slices, 0) = 0
  <2> DEFINE f == [i \in 1 .. 0 |-> Cost(slices[i])]
  <2>1. DOMAIN f = {}
    OBVIOUS
  <2>2. CostUpTo(slices, 0) = SumFunctionOnSet(f, DOMAIN f)
    BY DEF CostUpTo, SumFunction
  <2> HIDE DEF f
  <2>3. QED
    BY <2>1, <2>2, SumOfNone
<1>6. QED
  BY <1>4, <1>5

\* A shorter sequence of slices, none of them larger, holds no more shares.
LEMMA FewerShares ==
  ASSUME NEW slices \in Seq(SliceTypes), NEW kept \in Seq(SliceTypes),
         Len(kept) <= Len(slices),
         \A k \in 1 .. Len(kept) : kept[k].size <= slices[k].size
  PROVE  Total(kept, "size") <= Total(slices, "size")
<1> DEFINE n == Len(slices)
           m == Len(kept)
           f == [k \in 1 .. n |-> slices[k].size]
           e == [k \in 1 .. m |-> kept[k].size]
           g == [x \in 1 .. n |-> IF x \in 1 .. m THEN e[x] ELSE 0]
<1>1. /\ n \in Nat /\ DOMAIN slices = 1 .. n
      /\ m \in Nat /\ DOMAIN kept = 1 .. m
  BY LenProperties
<1>2. /\ \A k \in 1 .. n : f[k] \in Nat
      /\ \A k \in 1 .. m : e[k] \in Nat
  BY <1>1, SliceFields
<1>3. 1 .. m \in SUBSET (1 .. n) /\ \A k \in 1 .. m : e[k] <= f[k]
  BY <1>1
<1>4. IsFiniteSet(1 .. n) /\ IsFiniteSet(1 .. m)
  BY <1>1, FS_Interval
<1>5. DOMAIN f = 1 .. n /\ DOMAIN e = 1 .. m
  OBVIOUS
<1>6. /\ Total(slices, "size") = SumFunction(f)
      /\ Total(kept, "size") = SumFunction(e)
  BY <1>1 DEF Total
<1>7. \A x \in 1 .. n : g[x] \in Int /\ f[x] \in Int /\ g[x] <= f[x]
  BY <1>2, <1>3
<1>8. SumFunctionOnSet(e, 1 .. m) = SumFunctionOnSet(g, 1 .. n)
  <2> DEFINE e2 == [x \in 1 .. n |-> IF x \in 1 .. m THEN e[x] ELSE 0]
             g2 == [x \in 1 .. n |-> IF x \in 1 .. m THEN e2[x] ELSE 0]
  <2>1. /\ \A x \in 1 .. n : e2[x] \in Int
        /\ \A x \in 1 .. m : e[x] = e2[x]
        /\ g2 = g
    BY <1>2, <1>3
  <2> HIDE DEF e2, e, m, n, g
  <2>2. SumFunctionOnSet(e2, 1 .. m) = SumFunctionOnSet(g2, 1 .. n)
    BY <1>3, <1>4, <2>1, SumOfPart
  <2>3. SumFunctionOnSet(e, 1 .. m) = SumFunctionOnSet(e2, 1 .. m)
    BY <1>4, <2>1, SumOfEqual
  <2>4. QED
    BY <2>1, <2>2, <2>3
<1> HIDE DEF f, e, g, n, m
<1>9. SumFunctionOnSet(g, 1 .. n) <= SumFunctionOnSet(f, 1 .. n)
  BY <1>4, <1>7, SumOfLess
<1>10. QED
  BY <1>5, <1>6, <1>8, <1>9 DEF SumFunction

\* The cap keeps whole slices and at most a part of one more, for no more than
\* may be spent.
LEMMA CapIsWithin ==
  ASSUME NEW slices \in Seq(SliceTypes), NEW spend \in Nat
  PROVE  LET kept == CapBuyToSpend(slices, spend)
         IN  /\ kept \in Seq(SliceTypes)
             /\ TotalCost(kept) <= spend
             /\ Len(kept) <= Len(slices)
             /\ \A k \in DOMAIN kept : /\ kept[k].price = slices[k].price
                                       /\ kept[k].size <= slices[k].size
             /\ Total(kept, "size") <= Total(slices, "size")
<1> DEFINE kept == CapBuyToSpend(slices, spend)
           n == Len(slices)
           S == {k \in 0 .. n : CostUpTo(slices, k) <= spend}
           whole == Max(S)
           next == slices[whole + 1]
           left == spend - CostUpTo(slices, whole)
           part == MaxAffordable(left, next.price, next.size)
           m == IF part > 0 THEN whole + 1 ELSE whole
           cut == [k \in 1 .. m |-> IF k <= whole THEN slices[k] ELSE Slice(next.price, part)]
<1>1. kept = IF whole = n THEN slices ELSE cut
  BY DEF CapBuyToSpend
<1>2. n \in Nat /\ DOMAIN slices = 1 .. n
  BY LenProperties
<1>3. whole \in 0 .. n /\ CostUpTo(slices, whole) <= spend
  <2>1. 0 \in S
    <3>1. 0 \in 0 .. Len(slices)
      BY <1>2
    <3>2. CostUpTo(slices, 0) = 0
      BY <3>1, CostIsNat
    <3>3. QED
      BY <3>1, <3>2
  <2>2. IsFiniteSet(S) /\ S \in SUBSET Int
    <3>1. IsFiniteSet(0 .. n)
      BY <1>2, FS_Interval
    <3>2. S \in SUBSET (0 .. n)
      OBVIOUS
    <3>3. IsFiniteSet(S)
      BY <3>1, <3>2, FS_Subset
    <3>4. QED
      BY <3>2, <3>3
  <2>3. Max(S) \in S
    <3> HIDE DEF S
    <3>1. QED
      BY <2>1, <2>2, MaxIsGreatest
  <2>4. QED
    BY <2>3
<1> HIDE DEF whole, kept
<1>4. CostUpTo(slices, whole) \in Nat
  BY <1>3, CostIsNat
<1> HIDE DEF n
<1>5. left \in Nat
  BY <1>3, <1>4
<1>6. CASE whole = n
  <2>1. kept = slices
    BY <1>1, <1>6
  <2>2. TotalCost(kept) <= spend
    BY <1>3, <1>6, <2>1, CostOfAll DEF n
  <2>3. \A k \in DOMAIN slices : slices[k].size \in Nat
    BY SliceFields
  <2>4. Total(slices, "size") \in Nat
    BY TotalIsNat
  <2>5. QED
    BY <1>2, <2>1, <2>2, <2>3, <2>4 DEF kept, n
<1>7. CASE whole # n
  <2>1. whole + 1 \in DOMAIN slices /\ whole \in Nat
    BY <1>2, <1>3, <1>7
  <2>2. next.price \in Price /\ next.size \in Nat
    BY <2>1, SliceFields
  <2> HIDE DEF left, next
  <2>3. part \in 0 .. next.size /\ Cost(Slice(next.price, part)) <= left
    BY <1>5, <2>2, AffordableIsPaid
  <2> HIDE DEF part
  <2>4. part \in Nat /\ part <= next.size
    BY <2>2, <2>3
  <2>5. /\ part > 0 => Slice(next.price, part) \in SliceTypes
        /\ Slice(next.price, part).price = next.price
        /\ Slice(next.price, part).size = part
        /\ Cost(Slice(next.price, part)) \in Nat
    <3> DEFINE p == next.price
    <3>1. p \in Price
      BY <2>2
    <3> HIDE DEF p
    <3>2. /\ part # 0 => Slice(p, part) \in SliceTypes
          /\ Slice(p, part).price = p /\ Slice(p, part).size = part
          /\ Cost(Slice(p, part)) \in Nat
      BY <2>4, <3>1, SliceIsWhole
    <3>3. part > 0 => part # 0
      BY <2>4
    <3>4. QED
      BY <3>2, <3>3 DEF p
  <2>6. m \in 0 .. n /\ m \in Nat
    BY <1>2, <1>3, <1>7
  <2>7. \A k \in 1 .. m : /\ cut[k] \in SliceTypes
                          /\ cut[k].price = slices[k].price
                          /\ cut[k].size <= slices[k].size
    <3>1. SUFFICES ASSUME NEW k \in 1 .. m
                   PROVE  /\ cut[k] \in SliceTypes
                          /\ cut[k].price = slices[k].price
                          /\ cut[k].size <= slices[k].size
      OBVIOUS
    <3>2. k \in DOMAIN slices
      BY <1>2, <2>6
    <3>3. CASE k <= whole
      <4>1. cut[k] = slices[k]
        BY <3>3
      <4>2. slices[k] \in SliceTypes /\ slices[k].size \in Nat
        BY <3>2, SliceFields
      <4>3. QED
        BY <4>1, <4>2
    <3>4. CASE ~(k <= whole)
      <4>1. k = whole + 1 /\ part > 0
        BY <2>1, <3>4
      <4>2. cut[k] = Slice(next.price, part) /\ next = slices[k]
        BY <3>4, <4>1 DEF next
      <4>3. QED
        BY <2>4, <2>5, <4>1, <4>2
    <3>5. QED
      BY <3>3, <3>4
  <2>8. cut \in Seq(SliceTypes) /\ Len(cut) = m /\ DOMAIN cut = 1 .. m
    <3>1. cut \in [1 .. m -> SliceTypes]
      BY <2>7
    <3>2. DOMAIN cut = 1 .. m
      OBVIOUS
    <3> HIDE DEF cut, m
    <3>3. cut \in Seq(SliceTypes)
      BY <2>6, <3>1, IsASeq
    <3>4. QED
      BY <2>6, <3>2, <3>3, LenProperties
  <2>9. CostUpTo(cut, m) <= spend
    <3> DEFINE f == [i \in 1 .. whole |-> Cost(slices[i])]
               e == [i \in 1 .. m |-> Cost(cut[i])]
    <3>1. CostUpTo(slices, whole) = SumFunction(f) /\ CostUpTo(cut, m) = SumFunction(e)
      BY DEF CostUpTo
    <3>2. \A i \in 1 .. whole : e[i] = f[i] /\ cut[i] = slices[i]
      BY <2>1
    <3> HIDE DEF m
    <3>3. CASE m = whole
      <4>1. e = f
        BY <3>2, <3>3
      <4>2. QED
        BY <1>3, <3>1, <3>3, <4>1
    <3>4. CASE m = whole + 1
      <4>1. f \in [1 .. whole -> Int]
        <5>1. \A i \in 1 .. whole : i \in DOMAIN slices
          BY <1>2, <1>3
        <5>2. QED
          BY <5>1, SliceFields
      <4>2. e \in [1 .. whole + 1 -> Int]
        <5>1. \A i \in 1 .. m : i \in DOMAIN cut
          BY <2>8
        <5>2. \A i \in 1 .. m : Cost(cut[i]) \in Nat
          <6> HIDE DEF cut
          <6>1. QED
            BY <2>8, <5>1, SliceFields
        <5>3. QED
          BY <3>4, <5>2
      <4>3. e[whole + 1] = Cost(Slice(next.price, part))
        BY <2>1, <3>4
      <4> HIDE DEF e, f
      <4>4. SumFunction(e) = SumFunction(f) + e[whole + 1]
        BY <2>1, <3>2, <4>1, <4>2, SumOfAppended
      <4>5. QED
        BY <1>4, <2>3, <2>5, <3>1, <3>4, <4>3, <4>4 DEF left
    <3>5. QED
      BY <3>3, <3>4 DEF m
  <2>10. TotalCost(cut) <= spend
    <3> HIDE DEF cut, m
    <3>1. QED
      BY <2>8, <2>9, CostOfAll
  <2>11. Total(cut, "size") <= Total(slices, "size")
    <3> HIDE DEF cut, m
    <3>1. QED
      BY <2>6, <2>7, <2>8, FewerShares DEF n
  <2>12. kept = cut
    BY <1>1, <1>7
  <2> HIDE DEF cut, m
  <2>13. QED
    BY <1>2, <2>6, <2>7, <2>8, <2>10, <2>11, <2>12 DEF kept, n
<1>8. QED
  BY <1>6, <1>7

-----------------------------------------------------------------------------
(* The tape: what a ladder and a row hold *)

TapeRow ==
  [at : Nat, token : TapeTokens, kind : {"snapshot", "update", "tick"},
   side : {"BUY", "SELL", "none"}, price : Int, valid : BOOLEAN, taken : BOOLEAN,
   bids : Seq(Level), asks : Seq(Level)]

\* A ladder has the levels that are displayed, each once.
LEMMA LadderIsDisplayed ==
  ASSUME NEW book, book.displayed \in Levels, NEW side \in Side
  PROVE  /\ Ladder(book, side) \in Seq(Level)
         /\ \A k \in DOMAIN Ladder(book, side) :
              Ladder(book, side)[k].size = book.displayed[side][Ladder(book, side)[k].price]
         /\ \A j, k \in DOMAIN Ladder(book, side) :
              Ladder(book, side)[j].price = Ladder(book, side)[k].price => j = k
<1> DEFINE prices == {p \in Price : book.displayed[side][p] > 0}
           before == [p \in prices |-> {q \in prices : IF side = "BUY" THEN q > p ELSE q < p}]
           best == Ranked(before)
           n == Cardinality(prices)
           ladder == Ladder(book, side)
<1>1. \A p \in Price : p \in Int /\ book.displayed[side][p] \in Nat
  BY PriceScaleAssumption DEF Levels, Price
<1>2. IsFiniteSet(prices)
  <2>1. IsFiniteSet(Price)
    <3>1. 1 \in Int /\ PriceScale - 1 \in Int
      BY PriceScaleAssumption
    <3>2. QED
      BY <3>1, FS_Interval DEF Price
  <2>2. prices \in SUBSET Price
    OBVIOUS
  <2>3. QED
    BY <2>1, <2>2, FS_Subset
<1>3. Orders(before, prices)
  <2>1. \A p \in prices : p \in Int
    BY <1>1
  <2>2. before \in [prices -> SUBSET prices]
    OBVIOUS
  <2>3. \A e \in prices : e \notin before[e]
    BY <2>1
  <2>4. \A e, f \in prices : e = f \/ e \in before[f] \/ f \in before[e]
    BY <2>1
  <2>5. ASSUME NEW e \in prices, NEW f \in prices, e \in before[f], NEW j \in before[e]
        PROVE  j \in before[f]
    <3>1. j \in prices /\ j \in Int /\ e \in Int /\ f \in Int
      BY <2>1
    <3>2. CASE side = "BUY"
      BY <2>5, <3>1, <3>2
    <3>3. CASE side # "BUY"
      BY <2>5, <3>1, <3>3
    <3>4. QED
      BY <3>2, <3>3
  <2> HIDE DEF before, prices
  <2>6. QED
    BY <2>2, <2>3, <2>4, <2>5, Zenon DEF Orders
<1>4. ladder = [k \in DOMAIN best |-> [price |-> best[k], size |-> book.displayed[side][best[k]]]]
  BY DEF Ladder
<1>5. /\ n \in Nat /\ best \in [1 .. n -> prices]
      /\ \A j, k \in 1 .. n : best[j] = best[k] => j = k
  <2> HIDE DEF before, prices
  <2>1. n \in Nat /\ best \in Bijection(1 .. n, prices)
    BY <1>2, <1>3, RankedInOrder
  <2> HIDE DEF best, n
  <2>2. best \in [1 .. n -> prices] /\ best \in Injection(1 .. n, prices)
    BY <2>1, Fun_BijectionProperties
  <2>3. QED
    BY <2>1, <2>2, Fun_InjectionProperties
<1> HIDE DEF best, n, ladder, before
<1>6. /\ DOMAIN ladder = 1 .. n
      /\ \A k \in 1 .. n : /\ ladder[k].price = best[k] /\ best[k] \in Price
                           /\ ladder[k].size = book.displayed[side][best[k]]
                           /\ ladder[k] \in Level
  <2>1. DOMAIN best = 1 .. n /\ \A k \in 1 .. n : best[k] \in prices
    BY <1>5
  <2>2. \A k \in 1 .. n : ladder[k] = [price |-> best[k], size |-> book.displayed[side][best[k]]]
    BY <1>4, <2>1
  <2>3. \A k \in 1 .. n : /\ best[k] \in Price /\ book.displayed[side][best[k]] \in Nat
                          /\ book.displayed[side][best[k]] # 0
    BY <1>1, <2>1
  <2> HIDE DEF prices
  <2>4. ASSUME NEW k \in 1 .. n PROVE ladder[k] \in Level
    <3> DEFINE p == best[k]
               size == book.displayed[side][best[k]]
    <3>1. p \in Price /\ size \in Nat \ {0} /\ ladder[k] = [price |-> p, size |-> size]
      BY <2>2, <2>3
    <3> HIDE DEF p, size
    <3>2. QED
      BY <3>1 DEF Level
  <2>5. QED
    BY <1>4, <2>1, <2>2, <2>3, <2>4
<1>7. ladder \in Seq(Level)
  <2>1. ladder = [k \in 1 .. n |-> ladder[k]]
    BY <1>4, <1>6
  <2>2. ladder \in [1 .. n -> Level]
    BY <1>6, <2>1
  <2>3. QED
    BY <1>5, <2>2, IsASeq
<1>8. QED
  BY <1>5, <1>6, <1>7 DEF ladder

-----------------------------------------------------------------------------
(* Replaying a recording *)

\* st goes through the states of the replay of a recording.
Replays(recording, st) ==
  /\ st[0] = Blank
  /\ \A k \in 1 .. Cardinality(recording) : st[k] = Record(st[k - 1], Ordered(recording)[k])

\* g is the recursive function of Replayed up to the n-th event.
Steps(recording, n, g) ==
  g = [k \in 0 .. n |->
         IF k = 0 THEN Blank
         ELSE CHOOSE s \in {Record(b, Ordered(recording)[k]) : b \in {g[k - 1]}} : TRUE]

LEMMA ReplayedIsChosen ==
  ASSUME NEW recording
  PROVE  Replayed(recording) = (CHOOSE g : Steps(recording, Cardinality(recording), g))[Cardinality(recording)]
BY DEF Replayed, Steps

LEMMA StepsExist ==
  ASSUME NEW recording, NEW n \in Nat
  PROVE  \E g : Steps(recording, n, g)
<1> DEFINE step(b, k) == CHOOSE s \in {Record(c, Ordered(recording)[k]) : c \in {b}} : TRUE
           Good == {k \in 0 .. n : \E g : Steps(recording, k, g)}
<1>1. \A k, g : Steps(recording, k, g) <=>
        g = [j \in 0 .. k |-> IF j = 0 THEN Blank ELSE step(g[j - 1], j)]
  BY DEF Steps
<1> HIDE DEF step
<1>2. 0 \in Good
  <2> DEFINE g == [j \in 0 .. 0 |-> Blank]
  <2>1. g = [j \in 0 .. 0 |-> IF j = 0 THEN Blank ELSE step(g[j - 1], j)]
    OBVIOUS
  <2> HIDE DEF g
  <2>2. Steps(recording, 0, g)
    BY <1>1, <2>1
  <2>3. QED
    BY <2>2
<1>3. ASSUME NEW k \in 0 .. n - 1, k \in Good PROVE k + 1 \in Good
  <2>1. PICK g : g = [j \in 0 .. k |-> IF j = 0 THEN Blank ELSE step(g[j - 1], j)]
    BY <1>1, <1>3
  <2> DEFINE h == [j \in 0 .. k + 1 |-> IF j <= k THEN g[j] ELSE step(g[k], k + 1)]
  <2>2. \A j \in 0 .. k : g[j] = IF j = 0 THEN Blank ELSE step(g[j - 1], j)
    BY <2>1
  <2>3. ASSUME NEW j \in 0 .. k + 1
        PROVE  h[j] = IF j = 0 THEN Blank ELSE step(h[j - 1], j)
    <3>1. CASE j <= k
      <4>1. h[j] = g[j] /\ j \in 0 .. k
        BY <3>1
      <4>2. j # 0 => h[j - 1] = g[j - 1]
        BY <3>1
      <4>3. QED
        BY <2>2, <4>1, <4>2
    <3>2. CASE ~(j <= k)
      <4>1. j = k + 1 /\ j # 0 /\ j - 1 = k
        BY <3>2
      <4>2. h[j] = step(g[k], k + 1) /\ h[k] = g[k]
        BY <3>2, <4>1
      <4>3. QED
        BY <4>1, <4>2
    <3>3. QED
      BY <3>1, <3>2
  <2>4. h = [j \in 0 .. k + 1 |-> IF j = 0 THEN Blank ELSE step(h[j - 1], j)]
    <3>1. h = [j \in 0 .. k + 1 |-> h[j]]
      OBVIOUS
    <3> HIDE DEF h
    <3>2. QED
      BY <2>3, <3>1
  <2> HIDE DEF h
  <2>5. Steps(recording, k + 1, h)
    BY <1>1, <2>4
  <2>6. k + 1 \in 0 .. n
    OBVIOUS
  <2>7. QED
    BY <2>5, <2>6
<1> HIDE DEF Good
<1>4. \A k \in 0 .. n : k \in Good
  BY <1>2, <1>3, IntervalInduction
<1>5. n \in Good
  BY <1>4
<1>6. QED
  BY <1>5 DEF Good

\* Replayed is the last state of a replay.
LEMMA ReplayedIsLast ==
  ASSUME NEW recording, IsFiniteSet(recording)
  PROVE  \E st : Replays(recording, st) /\ Replayed(recording) = st[Cardinality(recording)]
<1> DEFINE n == Cardinality(recording)
           st == CHOOSE g : Steps(recording, n, g)
<1>1. n \in Nat
  BY FS_CardinalityType
<1>2. Steps(recording, n, st)
  BY <1>1, StepsExist
<1>3. Replayed(recording) = st[n]
  BY ReplayedIsChosen
<1> HIDE DEF st, n
<1>4. st[0] = Blank
  BY <1>1, <1>2 DEF Steps
<1>5. ASSUME NEW k \in 1 .. n PROVE st[k] = Record(st[k - 1], Ordered(recording)[k])
  <2> DEFINE s == Record(st[k - 1], Ordered(recording)[k])
  <2>1. st[k] = CHOOSE x \in {Record(b, Ordered(recording)[k]) : b \in {st[k - 1]}} : TRUE
    BY <1>1, <1>2 DEF Steps
  <2>2. {Record(b, Ordered(recording)[k]) : b \in {st[k - 1]}} = {s}
    OBVIOUS
  <2> HIDE DEF s
  <2>3. st[k] \in {s}
    BY <2>1, <2>2
  <2>4. QED
    BY <2>3 DEF s
<1>6. QED
  BY <1>3, <1>4, <1>5 DEF Replays, n

\* Replays that see the same events go through the same states.
LEMMA SameReplay ==
  ASSUME NEW r, NEW q, NEW a, NEW b, Replays(r, a), Replays(q, b), NEW n \in Nat,
         1 .. n \in SUBSET (1 .. Cardinality(r)), 1 .. n \in SUBSET (1 .. Cardinality(q)),
         \A k \in 1 .. n : Ordered(r)[k] = Ordered(q)[k]
  PROVE  \A k \in 0 .. n : a[k] = b[k]
<1> DEFINE P == {k \in 0 .. n : a[k] = b[k]}
<1>1. 0 \in P
  BY DEF Replays
<1>2. ASSUME NEW k \in 0 .. n - 1, k \in P PROVE k + 1 \in P
  <2>1. k + 1 \in 1 .. n /\ k + 1 \in 0 .. n /\ (k + 1) - 1 = k
    OBVIOUS
  <2>2. k + 1 \in 1 .. Cardinality(r) /\ k + 1 \in 1 .. Cardinality(q)
    BY <2>1
  <2>3. /\ a[k + 1] = Record(a[(k + 1) - 1], Ordered(r)[k + 1])
        /\ b[k + 1] = Record(b[(k + 1) - 1], Ordered(q)[k + 1])
    BY <2>2 DEF Replays
  <2>4. a[k] = b[k] /\ Ordered(r)[k + 1] = Ordered(q)[k + 1]
    BY <1>2, <2>1
  <2>5. a[k + 1] = b[k + 1]
    BY <2>1, <2>3, <2>4
  <2>6. QED
    BY <2>1, <2>5
<1> HIDE DEF P
<1>3. \A k \in 0 .. n : k \in P
  BY <1>1, <1>2, IntervalInduction
<1>4. QED
  BY <1>3 DEF P

-----------------------------------------------------------------------------
(* The order of a recording *)

Rank(e) == KindRank[e.kind]

LEMMA EventFields ==
  ASSUME NEW e \in Event
  PROVE  /\ e.at \in Nat /\ e.sequence \in Nat /\ e.token \in TapeTokens
         /\ \/ e.kind = "snapshot" /\ Rank(e) = 0
            \/ e.kind = "tick" /\ Rank(e) = 1
            \/ e.kind = "update" /\ Rank(e) = 2
BY DEF Event, Rank, KindRank

LEMMA PrecedesIsStrict ==
  /\ \A e \in Event : ~Precedes(e, e)
  /\ \A e, f, g \in Event : Precedes(e, f) /\ Precedes(f, g) => Precedes(e, g)
  /\ \A e, f \in Event : Precedes(e, f) => e.at <= f.at
<1>1. ASSUME NEW e \in Event PROVE ~Precedes(e, e)
  BY EventFields DEF Precedes, Rank
<1>2. ASSUME NEW e \in Event, NEW f \in Event, Precedes(e, f)
      PROVE  e.at <= f.at
  BY <1>2, EventFields DEF Precedes
<1>3. ASSUME NEW e \in Event, NEW f \in Event, NEW g \in Event, Precedes(e, f), Precedes(f, g)
      PROVE  Precedes(e, g)
  <2>1. /\ e.at \in Nat /\ f.at \in Nat /\ g.at \in Nat
        /\ e.sequence \in Nat /\ f.sequence \in Nat /\ g.sequence \in Nat
        /\ Rank(e) \in Nat /\ Rank(f) \in Nat /\ Rank(g) \in Nat
    BY EventFields
  <2>2. /\ \/ e.at < f.at
           \/ e.at = f.at /\ Rank(e) < Rank(f)
           \/ e.at = f.at /\ e.kind = f.kind /\ e.sequence < f.sequence
        /\ \/ f.at < g.at
           \/ f.at = g.at /\ Rank(f) < Rank(g)
           \/ f.at = g.at /\ f.kind = g.kind /\ f.sequence < g.sequence
    BY <1>3 DEF Precedes, Rank
  <2>3. /\ e.kind = f.kind => Rank(e) = Rank(f)
        /\ f.kind = g.kind => Rank(f) = Rank(g)
    BY DEF Rank
  <2>4. \/ e.at < g.at
        \/ e.at = g.at /\ Rank(e) < Rank(g)
        \/ e.at = g.at /\ e.kind = g.kind /\ e.sequence < g.sequence
    BY <2>1, <2>2, <2>3
  <2>5. QED
    BY <2>4 DEF Precedes, Rank
<1>4. QED
  BY <1>1, <1>2, <1>3

\* The events that come before one.
Earlier(recording) == [e \in recording |-> {f \in recording : Precedes(f, e)}]

LEMMA EarlierOrders ==
  ASSUME NEW recording, IsRecording(recording)
  PROVE  Orders(Earlier(recording), recording)
<1> DEFINE before == Earlier(recording)
<1>1. \A e \in recording : e \in Event
  BY DEF IsRecording
<1>2. /\ before \in [recording -> SUBSET recording]
      /\ \A e, f \in recording : e \in before[f] <=> Precedes(e, f)
  BY DEF Earlier
<1>3. \A e, f \in recording : e = f \/ Precedes(e, f) \/ Precedes(f, e)
  BY DEF IsRecording
<1> HIDE DEF before
<1>4. \A e \in recording : e \notin before[e]
  BY <1>1, <1>2, PrecedesIsStrict
<1>5. ASSUME NEW e \in recording, NEW f \in recording, e \in before[f], NEW g \in before[e]
      PROVE  g \in before[f]
  <2>1. g \in recording
    BY <1>2
  <2>2. Precedes(g, e) /\ Precedes(e, f)
    BY <1>2, <1>5, <2>1
  <2>3. Precedes(g, f)
    BY <1>1, <2>1, <2>2, PrecedesIsStrict
  <2>4. QED
    BY <1>2, <2>1, <2>3
<1>6. \A e, f \in recording : e = f \/ e \in before[f] \/ f \in before[e]
  BY <1>2, <1>3
<1>7. QED
  BY <1>2, <1>4, <1>5, <1>6, Zenon DEF Orders, before

\* Ordered gives every event once, the earlier ones first.
LEMMA OrderedIsInOrder ==
  ASSUME NEW recording, IsRecording(recording)
  PROVE  LET n == Cardinality(recording)
         IN  /\ n \in Nat
             /\ Ordered(recording) \in Bijection(1 .. n, recording)
             /\ \A k \in 1 .. n : /\ Ordered(recording)[k] \in recording
                                  /\ Ordered(recording)[k] \in Event
                                  /\ Cardinality(Earlier(recording)[Ordered(recording)[k]]) = k - 1
             /\ \A j, k \in 1 .. n : j <= k => Ordered(recording)[j].at <= Ordered(recording)[k].at
             /\ \A j, k \in 1 .. n : j < k => Precedes(Ordered(recording)[j], Ordered(recording)[k])
<1> DEFINE n == Cardinality(recording)
           before == Earlier(recording)
           at == Ordered(recording)
<1>1. IsFiniteSet(recording) /\ \A e \in recording : e \in Event
  BY DEF IsRecording
<1>2. at = Ranked(before)
  BY DEF Ordered, Earlier
<1>3. /\ n \in Nat /\ at \in Bijection(1 .. n, recording)
      /\ \A j, k \in 1 .. n : j < k => at[j] \in before[at[k]]
      /\ \A k \in 1 .. n : Cardinality(before[at[k]]) = k - 1
  BY <1>1, <1>2, EarlierOrders, RankedInOrder
<1> HIDE DEF at, n
<1>4. \A k \in 1 .. n : at[k] \in recording /\ at[k] \in Event
  <2>1. at \in [1 .. n -> recording]
    BY <1>3, Fun_BijectionProperties
  <2>2. QED
    BY <1>1, <2>1
<1>5. \A j, k \in 1 .. n : j < k => Precedes(at[j], at[k])
  BY <1>3, <1>4 DEF Earlier
<1>6. ASSUME NEW j \in 1 .. n, NEW k \in 1 .. n, j <= k PROVE at[j].at <= at[k].at
  <2>1. CASE j = k
    <3>1. at[j].at \in Nat
      BY <1>4, EventFields
    <3>2. QED
      BY <2>1, <3>1
  <2>2. CASE j # k
    <3>1. j < k
      BY <1>3, <1>6, <2>2
    <3>2. QED
      BY <1>4, <1>5, <3>1, PrecedesIsStrict
  <2>3. QED
    BY <2>1, <2>2
<1>7. QED
  BY <1>3, <1>4, <1>5, <1>6 DEF at, n

\* The events up to a time are the first ones of the recording.
LEMMA UpToIsPrefix ==
  ASSUME NEW recording, IsRecording(recording), NEW t \in Nat
  PROVE  LET part == {e \in recording : e.at <= t}
             n == Cardinality(recording)
             m == Cardinality(part)
         IN  /\ IsRecording(part)
             /\ n \in Nat /\ m \in Nat /\ m <= n
             /\ \A k \in 1 .. m : Ordered(part)[k] = Ordered(recording)[k]
             /\ \A k \in 1 .. n : Ordered(recording)[k].at <= t <=> k <= m
<1> DEFINE part == {e \in recording : e.at <= t}
           n == Cardinality(recording)
           m == Cardinality(part)
           a == Ordered(recording)
           b == Ordered(part)
<1>1. \A e \in recording : e \in Event /\ e.at \in Nat
  BY EventFields DEF IsRecording
<1>2. /\ IsFiniteSet(recording) /\ IsFiniteSet(part) /\ part \in SUBSET recording
      /\ m <= n
  <2>1. IsFiniteSet(recording) /\ part \in SUBSET recording
    BY DEF IsRecording
  <2> HIDE DEF part
  <2>2. QED
    BY <2>1, FS_Subset
<1>3. IsRecording(part)
  BY <1>2 DEF IsRecording
<1>4. /\ n \in Nat /\ a \in Bijection(1 .. n, recording)
      /\ \A k \in 1 .. n : a[k] \in recording /\ Cardinality(Earlier(recording)[a[k]]) = k - 1
  BY OrderedIsInOrder
<1>5. /\ m \in Nat
      /\ \A k \in 1 .. m : b[k] \in part /\ Cardinality(Earlier(part)[b[k]]) = k - 1
      /\ b \in Bijection(1 .. m, part)
  <2> HIDE DEF part
  <2>1. QED
    BY <1>3, OrderedIsInOrder
<1>6. ASSUME NEW e \in part PROVE Earlier(part)[e] = Earlier(recording)[e]
  <2>1. \A f \in recording : Precedes(f, e) => f.at <= e.at
    BY <1>1, PrecedesIsStrict
  <2>2. \A f \in recording : Precedes(f, e) => f \in part
    BY <1>1, <2>1
  <2>3. QED
    BY <2>2 DEF Earlier
<1> HIDE DEF a, b
<1>7. ASSUME NEW e \in recording PROVE \E k \in 1 .. n : a[k] = e
  <2>1. a \in Surjection(1 .. n, recording)
    BY <1>4, Fun_BijectionProperties
  <2> HIDE DEF n
  <2>2. \A e_1 \in recording : \E k \in 1 .. n : a[k] = e_1
    BY <2>1 DEF Surjection
  <2>3. QED
    BY <2>2
<1>8. ASSUME NEW k \in 1 .. m PROVE b[k] = a[k]
  <2>1. PICK j \in 1 .. n : a[j] = b[k]
    BY <1>5, <1>7
  <2>2. Cardinality(Earlier(recording)[b[k]]) = k - 1
    BY <1>5, <1>6
  <2>3. Cardinality(Earlier(recording)[b[k]]) = j - 1
    BY <1>4, <2>1
  <2> HIDE DEF n, m
  <2>4. j = k
    BY <1>4, <1>5, <2>2, <2>3
  <2>5. QED
    BY <2>1, <2>4
<1>9. ASSUME NEW k \in 1 .. n PROVE a[k].at <= t <=> k <= m
  <2>1. ASSUME k <= m PROVE a[k].at <= t
    <3>1. k \in 1 .. m
      BY <2>1, <1>4, <1>5
    <3>2. b[k] \in part /\ b[k] = a[k]
      BY <1>5, <1>8, <3>1
    <3>3. QED
      BY <3>2
  <2>2. ASSUME a[k].at <= t PROVE k <= m
    <3>1. a[k] \in part
      BY <1>4, <2>2
    <3>2. PICK j \in 1 .. m : b[j] = a[k]
      <4>1. b \in Surjection(1 .. m, part)
        BY <1>5, Fun_BijectionProperties
      <4> HIDE DEF part, m
      <4>2. \A e \in part : \E j \in 1 .. m : b[j] = e
        BY <4>1 DEF Surjection
      <4>3. QED
        BY <3>1, <4>2
    <3>3. Cardinality(Earlier(part)[b[j]]) = j - 1 /\ b[j] \in part
      BY <1>5
    <3>4. Cardinality(Earlier(recording)[a[k]]) = j - 1
      BY <1>6, <3>2, <3>3
    <3>5. k - 1 = j - 1
      BY <1>4, <3>4
    <3> HIDE DEF m, n
    <3>6. QED
      BY <1>4, <1>5, <3>5
  <2>3. QED
    BY <2>1, <2>2
<1>10. QED
  BY <1>2, <1>3, <1>4, <1>5, <1>8, <1>9 DEF a, b
-----------------------------------------------------------------------------
(* What an event does to a replay *)

Span == [token : TapeTokens, from : Nat, to : Nat]

ReplayState ==
  [books : [TapeTokens -> Book], ticks : [TapeTokens -> Int],
   pending : [TapeTokens -> {None} \cup Nat], spans : SUBSET Span, rows : Seq(TapeRow)]

LEMMA BookFields ==
  ASSUME NEW book \in Book
  PROVE  /\ book.condition \in Conditions \cup {NoCondition}
         /\ book.displayed \in Levels /\ book.consumed \in Levels
         /\ book.tick \in Int /\ book.lastSequence \in Nat /\ book.valid \in BOOLEAN
BY DEF Book

LEMMA NewBookIsBook ==
  /\ Condition \in Conditions
  /\ NewBook(Condition, DefaultTick) \in Book /\ NewBook(NoCondition, DefaultTick) \in Book
<1>1. Condition \in Conditions
  BY TapeAssumption DEF Condition
<1>2. NoLevels \in Levels
  BY DEF NoLevels, Levels
<1>3. DefaultTick \in Int
  BY TapeAssumption
<1>4. QED
  BY <1>1, <1>2, <1>3 DEF NewBook, Book

\* A snapshot that is valid, or that is stale or refused, leaves a book.
LEMMA SnapshotLeavesBook ==
  ASSUME NEW book \in Book, NEW e \in Event, e.kind = "snapshot", NEW tick \in Int
  PROVE  LET snapshot == WithTick(e, tick)
             after == AfterSnapshot(book, snapshot)
         IN  /\ after \in Book
             /\ after.condition = book.condition
             /\ after.lastSequence \in {book.lastSequence, e.sequence}
             /\ IsStale(book, snapshot) <=> e.sequence < book.lastSequence
             /\ snapshot.tick = tick
<1> DEFINE snapshot == WithTick(e, tick)
<1>1. /\ e.listed \in [Side -> Seq([price : Int, size : Int])] /\ e.sequence \in Nat
      /\ "tick" \in DOMAIN e
  BY DEF Event
<1>2. /\ snapshot.listed = e.listed /\ snapshot.sequence = e.sequence
      /\ snapshot.tick = tick
  BY <1>1 DEF WithTick
<1> HIDE DEF snapshot
<1>3. ASSUME SnapshotIsValid(snapshot) PROVE SnapshotLevels(snapshot) \in Levels
  <2>1. ASSUME NEW s \in Side, NEW p \in Price PROVE SizeAt(snapshot.listed[s], p) \in Nat
    <3> DEFINE listed == snapshot.listed[s]
               at == {i \in DOMAIN listed : listed[i].price = p /\ listed[i].size > 0}
    <3>1. listed \in Seq([price : Int, size : Int])
      BY <1>1, <1>2
    <3> HIDE DEF listed
    <3>2. DOMAIN listed = 1 .. Len(listed)
      BY <3>1, LenProperties
    <3>3. ASSUME at = {} PROVE SizeAt(listed, p) \in Nat
      BY <3>3 DEF SizeAt
    <3>4. ASSUME at # {} PROVE SizeAt(listed, p) \in Nat
      <4> DEFINE i == CHOOSE j \in at : TRUE
      <4>1. i \in at
        BY <3>4
      <4>2. SizeAt(listed, p) = listed[i].size
        BY <3>4 DEF SizeAt
      <4> HIDE DEF i
      <4>3. listed[i] \in [price : Int, size : Int]
        BY <3>1, <3>2, <4>1, ElementOfSeq
      <4>4. listed[i].size \in Int /\ listed[i].size > 0
        BY <4>1, <4>3
      <4>5. QED
        BY <4>2, <4>4
    <3>5. QED
      BY <3>3, <3>4 DEF listed
  <2>2. QED
    BY <2>1 DEF SnapshotLevels, Levels
<1>4. NoLevels \in Levels
  BY DEF NoLevels, Levels
<1>5. ASSUME SnapshotIsValid(snapshot)
      PROVE  /\ Replaced(book, snapshot) \in Book
             /\ Replaced(book, snapshot).condition = book.condition
             /\ Replaced(book, snapshot).lastSequence = e.sequence
  BY <1>1, <1>2, <1>3, <1>4, <1>5 DEF Replaced, Book
<1>6. /\ Invalidated(book) \in Book /\ Invalidated(book).condition = book.condition
      /\ Invalidated(book).lastSequence = book.lastSequence
  BY DEF Invalidated, Book
<1>7. /\ AfterSnapshot(book, snapshot) \in Book
      /\ AfterSnapshot(book, snapshot).condition = book.condition
      /\ AfterSnapshot(book, snapshot).lastSequence \in {book.lastSequence, e.sequence}
  BY <1>5, <1>6 DEF AfterSnapshot
<1>8. QED
  BY <1>2, <1>7 DEF IsStale, snapshot

\* So does a change.
LEMMA ChangeLeavesBook ==
  ASSUME NEW book \in Book, NEW e \in Event, e.kind = "update"
  PROVE  LET after == AfterChange(book, e)
         IN  /\ after \in Book
             /\ after.condition = book.condition
             /\ after.lastSequence \in {book.lastSequence, e.sequence}
             /\ book.condition = NoCondition => ChangeRaises(book, e)
<1>1. /\ e.side \in Side /\ e.price \in Int /\ e.size \in Int /\ e.sequence \in Nat
  BY DEF Event
<1>2. ASSUME e.price \in Price, e.size \in Nat
      PROVE  /\ Changed(book, e) \in Book
             /\ Changed(book, e).condition = book.condition
             /\ Changed(book, e).lastSequence = e.sequence
  <2>1. ChangedLevels(book.displayed, e) \in Levels
    BY <1>2, BookFields DEF ChangedLevels, Levels
  <2>2. ForgetConsumption(book.consumed, e) \in Levels
    BY <1>1, <1>2, BookFields DEF ForgetConsumption, Levels
  <2>3. /\ Mutated(book, e) \in Book
        /\ Mutated(book, e).condition = book.condition
    BY <2>1, <2>2 DEF Mutated, Book
  <2>4. QED
    BY <1>1, <2>3 DEF Changed, Book
<1>3. ASSUME book.valid, ~IsStale(book, e), ~ChangeRaises(book, e)
      PROVE  e.price \in Price /\ e.size \in Nat
  BY <1>1, <1>3 DEF ChangeRaises, LevelIsValid
<1>4. /\ Invalidated(book) \in Book /\ Invalidated(book).condition = book.condition
      /\ Invalidated(book).lastSequence = book.lastSequence
  BY DEF Invalidated, Book
<1>5. CASE ~book.valid \/ IsStale(book, e)
  BY <1>5 DEF AfterChange, ChangeRaises
<1>6. CASE book.valid /\ ~IsStale(book, e) /\ ChangeRaises(book, e)
  <2>1. AfterChange(book, e) = Invalidated(book)
    BY <1>6 DEF AfterChange
  <2>2. QED
    BY <1>4, <2>1 DEF ChangeRaises
<1>7. CASE book.valid /\ ~IsStale(book, e) /\ ~ChangeRaises(book, e)
  <2>1. AfterChange(book, e) = Changed(book, e)
    BY <1>7 DEF AfterChange
  <2>2. QED
    BY <1>2, <1>3, <1>7, <2>1 DEF ChangeRaises
<1>8. QED
  BY <1>5, <1>6, <1>7

\* What an event leaves behind is typed; only a tick change can meet a token
\* that has no book and not be refused.
LEMMA AppliedLeaves ==
  ASSUME NEW s \in ReplayState, NEW e \in Event
  PROVE  LET x    == Applied(s, e)
             book == s.books[e.token]
         IN  /\ x.tick \in Int /\ x.book \in Book /\ x.raised \in BOOLEAN /\ x.took \in BOOLEAN
             /\ book.condition # NoCondition => x.book.condition # NoCondition
             /\ x.book.condition = NoCondition /\ ~x.raised => book.condition = NoCondition
             /\ e.kind = "snapshot" => x.book.condition # NoCondition
             /\ x.book.lastSequence \in {0, book.lastSequence, e.sequence}
             /\ e.kind # "tick" /\ book.lastSequence <= e.sequence => x.took
<1> DEFINE x == Applied(s, e)
           book == s.books[e.token]
<1>1. /\ e.token \in TapeTokens /\ e.sequence \in Nat
      /\ e.kind \in {"snapshot", "tick", "update"}
  BY EventFields
<1>2. /\ book \in Book /\ s.ticks[e.token] \in Int
  BY <1>1 DEF ReplayState
<1>3. NoCondition \notin Conditions
  BY ConditionAssumption
<1> HIDE DEF book
<1>4. CASE e.kind = "snapshot"
  <2> DEFINE tick == TickFor(s.ticks, e)
             snapshot == WithTick(e, tick)
             mine == IF book.condition = NoCondition THEN NewBook(Condition, DefaultTick) ELSE book
  <2>1. tick \in Int
    BY <1>2, <1>4 DEF TickFor, Event, book
  <2>2. /\ mine \in Book /\ mine.condition # NoCondition
        /\ mine.lastSequence \in {0, book.lastSequence}
    BY <1>2, <1>3, NewBookIsBook DEF NewBook
  <2>3. x = [tick |-> snapshot.tick, book |-> AfterSnapshot(mine, snapshot),
             raised |-> SnapshotRaises(mine, snapshot), took |-> ~IsStale(mine, snapshot)]
    BY <1>4 DEF Applied, book
  <2>4. SnapshotRaises(mine, snapshot) \in BOOLEAN /\ IsStale(mine, snapshot) \in BOOLEAN
    BY DEF SnapshotRaises, IsStale
  <2> HIDE DEF tick, mine
  <2>5. /\ AfterSnapshot(mine, snapshot) \in Book
        /\ AfterSnapshot(mine, snapshot).condition = mine.condition
        /\ AfterSnapshot(mine, snapshot).lastSequence \in {mine.lastSequence, e.sequence}
        /\ IsStale(mine, snapshot) <=> e.sequence < mine.lastSequence
        /\ snapshot.tick = tick
    BY <1>4, <2>1, <2>2, SnapshotLeavesBook
  <2>6. book.lastSequence \in Nat
    BY <1>2, BookFields
  <2> HIDE DEF snapshot, x
  <2>7. /\ x.tick = tick /\ x.book = AfterSnapshot(mine, snapshot)
        /\ x.raised \in BOOLEAN /\ x.took = ~IsStale(mine, snapshot)
    BY <2>3, <2>4, <2>5
  <2>8. ASSUME book.lastSequence <= e.sequence PROVE x.took
    <3>1. ~(e.sequence < mine.lastSequence)
      BY <1>1, <2>2, <2>6, <2>8
    <3>2. ~IsStale(mine, snapshot)
      BY <2>5, <3>1
    <3>3. QED
      BY <2>7, <3>2
  <2>9. QED
    BY <2>1, <2>2, <2>4, <2>5, <2>7, <2>8 DEF x, book
<1>5. CASE e.kind = "tick"
  <2>1. x = [tick |-> e.tick, book |-> [book EXCEPT !.tick = e.tick],
             raised |-> FALSE, took |-> FALSE]
    BY <1>5 DEF Applied, book
  <2>2. e.tick \in Int
    BY <1>5 DEF Event
  <2>3. /\ [book EXCEPT !.tick = e.tick] \in Book
        /\ [book EXCEPT !.tick = e.tick].condition = book.condition
        /\ [book EXCEPT !.tick = e.tick].lastSequence = book.lastSequence
    BY <1>2, <2>2 DEF Book
  <2>4. /\ x.tick = e.tick /\ x.book = [book EXCEPT !.tick = e.tick]
        /\ x.raised = FALSE /\ x.took = FALSE
    BY <2>1
  <2> HIDE DEF x
  <2>5. QED
    BY <1>5, <2>2, <2>3, <2>4 DEF x, book
<1>6. CASE e.kind = "update"
  <2>1. x = [tick |-> s.ticks[e.token], book |-> AfterChange(book, e),
             raised |-> ChangeRaises(book, e), took |-> ~IsStale(book, e)]
    BY <1>6 DEF Applied, book
  <2>2. /\ AfterChange(book, e) \in Book
        /\ AfterChange(book, e).condition = book.condition
        /\ AfterChange(book, e).lastSequence \in {book.lastSequence, e.sequence}
        /\ book.condition = NoCondition => ChangeRaises(book, e)
    BY <1>2, <1>6, ChangeLeavesBook
  <2>3. ChangeRaises(book, e) \in BOOLEAN
    BY DEF ChangeRaises
  <2>4. book.lastSequence \in Nat
    BY <1>2, BookFields
  <2>5. book.lastSequence <= e.sequence => ~IsStale(book, e)
    BY <1>1, <2>4 DEF IsStale
  <2>6. IsStale(book, e) \in BOOLEAN
    BY DEF IsStale
  <2>7. /\ x.tick = s.ticks[e.token] /\ x.book = AfterChange(book, e)
        /\ x.raised = ChangeRaises(book, e) /\ x.took = ~IsStale(book, e)
    BY <2>1
  <2> HIDE DEF x
  <2>8. x.raised \in BOOLEAN /\ x.took \in BOOLEAN
    BY <2>3, <2>6, <2>7
  <2>9. book.lastSequence <= e.sequence => x.took
    BY <2>5, <2>7
  <2>10. x.book.condition = NoCondition /\ ~x.raised => book.condition = NoCondition
    BY <2>2, <2>7
  <2>11. QED
    BY <1>2, <1>6, <2>2, <2>7, <2>8, <2>9, <2>10 DEF x, book
<1>7. QED
  BY <1>1, <1>4, <1>5, <1>6

\* The row that an event leaves.
LEMMA RowIsTyped ==
  ASSUME NEW s \in ReplayState, NEW e \in Event
  PROVE  LET row == RowOf(e, Applied(s, e))
         IN  /\ row \in TapeRow /\ row.at = e.at /\ row.token = e.token /\ row.kind = e.kind
             /\ row.valid = Applied(s, e).book.valid /\ row.taken = Applied(s, e).took
             /\ row.bids = Ladder(Applied(s, e).book, "BUY")
             /\ row.asks = Ladder(Applied(s, e).book, "SELL")
<1> DEFINE x == Applied(s, e)
<1>1. x.book \in Book /\ x.took \in BOOLEAN
  BY AppliedLeaves
<1> HIDE DEF x
<1>2. x.book.displayed \in Levels /\ x.book.valid \in BOOLEAN
  BY <1>1, BookFields
<1>3. Ladder(x.book, "BUY") \in Seq(Level) /\ Ladder(x.book, "SELL") \in Seq(Level)
  BY <1>2, LadderIsDisplayed DEF Side
<1>4. e.at \in Nat /\ e.token \in TapeTokens /\ e.kind \in {"snapshot", "update", "tick"}
  BY EventFields
<1>5. e.kind = "update" => e.side \in {"BUY", "SELL"} /\ e.price \in Int
  BY DEF Event, Side
<1>6. RowOf(e, x) \in TapeRow
  BY <1>1, <1>2, <1>3, <1>4, <1>5 DEF RowOf, TapeRow, None
<1>7. QED
  BY <1>6 DEF RowOf, x

\* What Record changes, field by field.
LEMMA RecordFields ==
  ASSUME NEW s \in ReplayState, NEW e \in Event
  PROVE  LET r   == Record(s, e)
             x   == Applied(s, e)
             t   == e.token
             closes == e.kind = "snapshot" /\ ~x.raised /\ s.pending[t] # None
         IN  /\ r \in ReplayState
             /\ r.books[t] = x.book
             /\ \A u \in TapeTokens : u # t => r.books[u] = s.books[u] /\ r.pending[u] = s.pending[u]
             /\ x.raised => r.pending[t] = IF s.pending[t] = None THEN e.at ELSE s.pending[t]
             /\ ~x.raised /\ ~closes => r.pending[t] = s.pending[t]
             /\ closes => /\ r.pending[t] = None
                          /\ r.spans = s.spans \cup {[token |-> t, from |-> s.pending[t], to |-> e.at]}
             /\ ~closes => r.spans = s.spans
             /\ r.rows = IF x.raised \/ x.book.condition = NoCondition THEN s.rows
                         ELSE Append(s.rows, RowOf(e, x))
<1> DEFINE r == Record(s, e)
           x == Applied(s, e)
           t == e.token
           closes == e.kind = "snapshot" /\ ~x.raised /\ s.pending[t] # None
           pending == IF x.raised THEN OpenSpan(s.pending, e)
                      ELSE IF closes THEN [s.pending EXCEPT ![t] = None] ELSE s.pending
           spans == IF closes THEN s.spans \cup {[token |-> t, from |-> s.pending[t], to |-> e.at]}
                    ELSE s.spans
           rows == IF x.raised \/ x.book.condition = NoCondition THEN s.rows
                   ELSE Append(s.rows, RowOf(e, x))
<1>1. r = [books |-> [s.books EXCEPT ![t] = x.book], ticks |-> [s.ticks EXCEPT ![t] = x.tick],
           pending |-> pending, spans |-> spans, rows |-> rows]
  BY DEF Record
<1>2. t \in TapeTokens /\ e.at \in Nat
  BY EventFields
<1>3. x.book \in Book /\ x.tick \in Int
  BY AppliedLeaves
<1>4. RowOf(e, x) \in TapeRow
  BY RowIsTyped
<1>5. /\ s.books \in [TapeTokens -> Book] /\ s.ticks \in [TapeTokens -> Int]
      /\ s.pending \in [TapeTokens -> {None} \cup Nat] /\ s.spans \in SUBSET Span
      /\ s.rows \in Seq(TapeRow)
  BY DEF ReplayState
<1> HIDE DEF x
<1>6. pending \in [TapeTokens -> {None} \cup Nat]
  BY <1>2, <1>5 DEF OpenSpan
<1>7. spans \in SUBSET Span
  <2>1. CASE closes
    <3>1. s.pending[t] \in Nat
      BY <1>2, <1>5, <2>1
    <3>2. [token |-> t, from |-> s.pending[t], to |-> e.at] \in Span
      BY <1>2, <3>1 DEF Span
    <3>3. QED
      BY <1>5, <2>1, <3>2
  <2>2. CASE ~closes
    BY <1>5, <2>2
  <2>3. QED
    BY <2>1, <2>2
<1>8. rows \in Seq(TapeRow)
  <2>1. Append(s.rows, RowOf(e, x)) \in Seq(TapeRow)
    BY <1>4, <1>5, AppendProperties
  <2>2. QED
    BY <1>5, <2>1
<1>9. /\ \A u \in TapeTokens : u # t => pending[u] = s.pending[u]
      /\ x.raised => pending[t] = IF s.pending[t] = None THEN e.at ELSE s.pending[t]
      /\ ~x.raised /\ ~closes => pending[t] = s.pending[t]
      /\ closes => pending[t] = None
  BY <1>2, <1>5 DEF OpenSpan
<1>10. /\ closes => spans = s.spans \cup {[token |-> t, from |-> s.pending[t], to |-> e.at]}
       /\ ~closes => spans = s.spans
  OBVIOUS
<1>11. rows = IF x.raised \/ x.book.condition = NoCondition THEN s.rows
              ELSE Append(s.rows, RowOf(e, x))
  OBVIOUS
<1> HIDE DEF pending, spans, rows, closes, r
<1>12. /\ r.books = [s.books EXCEPT ![t] = x.book] /\ r.ticks = [s.ticks EXCEPT ![t] = x.tick]
       /\ r.pending = pending /\ r.spans = spans /\ r.rows = rows
  BY <1>1
<1>13. /\ r.books \in [TapeTokens -> Book] /\ r.ticks \in [TapeTokens -> Int]
       /\ r.books[t] = x.book /\ \A u \in TapeTokens : u # t => r.books[u] = s.books[u]
  BY <1>2, <1>3, <1>5, <1>12
<1>14. r \in ReplayState
  BY <1>1, <1>6, <1>7, <1>8, <1>12, <1>13 DEF ReplayState
<1>15. QED
  BY <1>9, <1>10, <1>11, <1>12, <1>13, <1>14, Zenon DEF r, x, closes

\* Up to a time: the last row of a token is its book, or the token is uncertain.
Tracks(s, T) ==
  /\ s \in ReplayState
  /\ \A i \in DOMAIN s.rows : /\ s.rows[i].at <= T
                              /\ s.books[s.rows[i].token].condition # NoCondition
  /\ \A t \in TapeTokens : s.pending[t] # None => s.pending[t] <= T
  /\ \A i \in DOMAIN s.rows :
       LET t == s.rows[i].token
       IN  (\A j \in DOMAIN s.rows : s.rows[j].token = t => j <= i) =>
             \/ s.pending[t] # None
             \/ /\ s.rows[i].valid = s.books[t].valid
                /\ s.rows[i].bids = Ladder(s.books[t], "BUY")
                /\ s.rows[i].asks = Ladder(s.books[t], "SELL")

LEMMA RowFields ==
  ASSUME NEW rows \in Seq(TapeRow)
  PROVE  /\ Len(rows) \in Nat /\ DOMAIN rows = 1 .. Len(rows)
         /\ \A i \in 1 .. Len(rows) :
              /\ rows[i] \in TapeRow /\ rows[i].at \in Nat /\ rows[i].token \in TapeTokens
              /\ rows[i].bids \in Seq(Level) /\ rows[i].asks \in Seq(Level)
<1>1. Len(rows) \in Nat /\ DOMAIN rows = 1 .. Len(rows)
  BY LenProperties
<1>2. \A i \in 1 .. Len(rows) : rows[i] \in TapeRow
  BY ElementOfSeq
<1>3. QED
  BY <1>1, <1>2 DEF TapeRow

LEMMA RecordTracks ==
  ASSUME NEW s, NEW T \in Nat, Tracks(s, T), NEW e \in Event, T <= e.at
  PROVE  Tracks(Record(s, e), e.at)
<1> DEFINE r == Record(s, e)
           x == Applied(s, e)
           row == RowOf(e, x)
           closes == e.kind = "snapshot" /\ ~x.raised /\ s.pending[e.token] # None
           none == x.raised \/ x.book.condition = NoCondition
           n == Len(s.rows)
<1>1. s \in ReplayState /\ e.at \in Nat /\ e.token \in TapeTokens
  BY EventFields DEF Tracks
<1>2. /\ r \in ReplayState
      /\ r.books[e.token] = x.book
      /\ \A u \in TapeTokens : u # e.token => r.books[u] = s.books[u] /\ r.pending[u] = s.pending[u]
      /\ x.raised => r.pending[e.token] = IF s.pending[e.token] = None THEN e.at ELSE s.pending[e.token]
      /\ ~x.raised /\ ~closes => r.pending[e.token] = s.pending[e.token]
      /\ closes => r.pending[e.token] = None
      /\ r.rows = IF none THEN s.rows ELSE Append(s.rows, row)
  BY <1>1, RecordFields
<1>3. /\ s.books[e.token].condition # NoCondition => x.book.condition # NoCondition
      /\ x.book.condition = NoCondition /\ ~x.raised => s.books[e.token].condition = NoCondition
      /\ e.kind = "snapshot" => x.book.condition # NoCondition
  BY <1>1, AppliedLeaves
<1>4. /\ row.at = e.at /\ row.token = e.token /\ row.valid = x.book.valid
      /\ row.bids = Ladder(x.book, "BUY") /\ row.asks = Ladder(x.book, "SELL") /\ row \in TapeRow
  BY <1>1, RowIsTyped
<1>5. /\ s.rows \in Seq(TapeRow) /\ r.rows \in Seq(TapeRow)
      /\ \A u \in TapeTokens : s.pending[u] \in {None} \cup Nat
  BY <1>1, <1>2 DEF ReplayState
<1>6. /\ n \in Nat /\ DOMAIN s.rows = 1 .. n
      /\ \A i \in 1 .. n : s.rows[i].at \in Nat /\ s.rows[i].token \in TapeTokens
  BY <1>5, RowFields
<1>7. /\ none => r.rows = s.rows
      /\ ~none => /\ DOMAIN r.rows = 1 .. n + 1 /\ r.rows[n + 1] = row
                  /\ \A i \in 1 .. n : r.rows[i] = s.rows[i]
  <2>1. ASSUME ~none
        PROVE  /\ DOMAIN r.rows = 1 .. n + 1 /\ r.rows[n + 1] = row
               /\ \A i \in 1 .. n : r.rows[i] = s.rows[i]
    <3>1. r.rows = Append(s.rows, row)
      BY <1>2, <2>1
    <3> HIDE DEF row, r, none
    <3>2. QED
      BY <1>4, <1>5, <3>1, AppendProperties
  <2>2. QED
    BY <1>2, <2>1
<1>8. /\ \A i \in 1 .. n : s.rows[i].at <= T /\ s.books[s.rows[i].token].condition # NoCondition
      /\ \A t \in TapeTokens : s.pending[t] # None => s.pending[t] <= T
  BY <1>6 DEF Tracks
<1> HIDE DEF r, x, row, n, none
<1>9. ASSUME NEW i \in DOMAIN r.rows
      PROVE  r.rows[i].at <= e.at /\ r.books[r.rows[i].token].condition # NoCondition
  <2>1. CASE i \in 1 .. n /\ r.rows[i] = s.rows[i]
    BY <1>1, <1>2, <1>3, <1>6, <1>8, <2>1
  <2>2. CASE ~none /\ i = n + 1
    BY <1>1, <1>2, <1>4, <1>7, <2>2 DEF none
  <2>3. QED
    BY <1>6, <1>7, <2>1, <2>2
<1>10. ASSUME NEW t \in TapeTokens, r.pending[t] # None PROVE r.pending[t] <= e.at
  <2>1. CASE t # e.token
    BY <1>1, <1>2, <1>5, <1>8, <1>10, <2>1
  <2>2. CASE t = e.token
    BY <1>1, <1>2, <1>5, <1>8, <1>10, <2>2
  <2>3. QED
    BY <2>1, <2>2
<1>11. ASSUME NEW i \in DOMAIN r.rows,
              \A j \in DOMAIN r.rows : r.rows[j].token = r.rows[i].token => j <= i,
              r.pending[r.rows[i].token] = None
       PROVE  /\ r.rows[i].valid = r.books[r.rows[i].token].valid
              /\ r.rows[i].bids = Ladder(r.books[r.rows[i].token], "BUY")
              /\ r.rows[i].asks = Ladder(r.books[r.rows[i].token], "SELL")
  <2>1. CASE ~none /\ i = n + 1
    BY <1>2, <1>4, <1>7, <2>1
  <2>2. CASE i \in 1 .. n /\ r.rows[i] = s.rows[i]
    <3> DEFINE t == s.rows[i].token
    <3>1. t \in TapeTokens /\ s.books[t].condition # NoCondition
      BY <1>6, <1>8, <2>2
    <3>2. t # e.token
      <4> SUFFICES ASSUME t = e.token PROVE FALSE
        OBVIOUS
      <4>1. ~x.raised
        <5>1. r.pending[e.token] = None
          BY <1>11, <2>2
        <5>2. s.pending[e.token] \in {None} \cup Nat /\ e.at # None
          BY <1>1, <1>5 DEF None
        <5>3. x.raised => r.pending[e.token] # None
          BY <1>2, <5>2
        <5>4. QED
          BY <5>1, <5>3
      <4>2. ~none
        BY <1>3, <3>1, <4>1 DEF none
      <4>3. n + 1 <= i
        BY <1>4, <1>6, <1>7, <1>11, <2>2, <4>2
      <4>4. QED
        BY <1>6, <2>2, <4>3
    <3>3. r.books[t] = s.books[t] /\ s.pending[t] = None
      BY <1>2, <1>11, <2>2, <3>1, <3>2
    <3>4. \A j \in DOMAIN s.rows : s.rows[j].token = t => j <= i
      <4>1. ASSUME NEW j \in 1 .. n, s.rows[j].token = t PROVE j <= i
        <5>1. j \in DOMAIN r.rows /\ r.rows[j] = s.rows[j]
          BY <1>6, <1>7
        <5>2. QED
          BY <1>11, <2>2, <4>1, <5>1
      <4>2. QED
        BY <1>6, <4>1
    <3>5. i \in DOMAIN s.rows
      BY <1>6, <2>2
    <3>6. /\ s.rows[i].valid = s.books[t].valid
          /\ s.rows[i].bids = Ladder(s.books[t], "BUY")
          /\ s.rows[i].asks = Ladder(s.books[t], "SELL")
      BY <3>3, <3>4, <3>5 DEF Tracks
    <3>7. QED
      BY <2>2, <3>3, <3>6
  <2>3. QED
    BY <1>6, <1>7, <2>1, <2>2
<1>12. Tracks(r, e.at)
  BY <1>2, <1>9, <1>10, <1>11 DEF Tracks
<1>13. QED
  BY <1>12 DEF r

\* The time of the last of the first k events.
LastAt(recording, k) == IF k = 0 THEN 0 ELSE Ordered(recording)[k].at

LEMMA BlankTracks == Tracks(Blank, 0)
<1>1. Blank.rows = << >> /\ DOMAIN Blank.rows = {}
  BY DEF Blank
<1>2. NewBook(NoCondition, DefaultTick) \in Book
  BY NewBookIsBook
<1>3. Blank \in ReplayState
  BY <1>2, EmptySeq DEF Blank, ReplayState, None
<1>4. \A t \in TapeTokens : Blank.pending[t] = None
  BY DEF Blank
<1>5. QED
  BY <1>1, <1>3, <1>4 DEF Tracks

LEMMA ReplayTracks ==
  ASSUME NEW recording, IsRecording(recording), NEW st, Replays(recording, st)
  PROVE  \A k \in 0 .. Cardinality(recording) :
           LastAt(recording, k) \in Nat /\ Tracks(st[k], LastAt(recording, k))
<1> DEFINE n == Cardinality(recording)
           P == {k \in 0 .. n : LastAt(recording, k) \in Nat /\ Tracks(st[k], LastAt(recording, k))}
<1>1. /\ n \in Nat
      /\ \A k \in 1 .. n : Ordered(recording)[k] \in Event
      /\ \A j, k \in 1 .. n : j <= k => Ordered(recording)[j].at <= Ordered(recording)[k].at
  BY OrderedIsInOrder
<1>2. /\ st[0] = Blank
      /\ \A k \in 1 .. n : st[k] = Record(st[k - 1], Ordered(recording)[k])
  BY DEF Replays
<1> HIDE DEF n
<1>3. 0 \in P
  BY <1>1, <1>2, BlankTracks DEF LastAt
<1>4. ASSUME NEW k \in 0 .. n - 1, k \in P PROVE k + 1 \in P
  <2> DEFINE e == Ordered(recording)[k + 1]
  <2>1. k + 1 \in 1 .. n /\ k + 1 \in 0 .. n /\ (k + 1) - 1 = k
    BY <1>1
  <2>2. e \in Event /\ e.at \in Nat
    BY <1>1, <2>1, EventFields
  <2>3. st[k + 1] = Record(st[k], e)
    BY <1>2, <2>1
  <2>4. LastAt(recording, k + 1) = e.at
    BY <2>1 DEF LastAt
  <2>5. LastAt(recording, k) <= e.at
    <3>1. CASE k = 0
      BY <2>2, <3>1 DEF LastAt
    <3>2. CASE k # 0
      <4>1. k \in 1 .. n /\ k <= k + 1
        BY <1>1, <3>2
      <4>2. QED
        BY <1>1, <2>1, <3>2, <4>1 DEF LastAt
    <3>3. QED
      BY <3>1, <3>2
  <2> HIDE DEF e
  <2>6. Tracks(Record(st[k], e), e.at)
    BY <1>4, <2>2, <2>5, RecordTracks
  <2>7. QED
    BY <2>1, <2>2, <2>3, <2>4, <2>6
<1> HIDE DEF P
<1>5. \A k \in 0 .. n : k \in P
  BY <1>1, <1>3, <1>4, IntervalInduction
<1>6. QED
  BY <1>5 DEF P, n

\* From s to r only events later than A have happened: rows are added, and a
\* token that was uncertain still is, or became certain again after A.
Extends(s, r, A) ==
  /\ Len(s.rows) <= Len(r.rows)
  /\ \A i \in 1 .. Len(s.rows) : r.rows[i] = s.rows[i]
  /\ \A i \in 1 .. Len(r.rows) : Len(s.rows) < i => A < r.rows[i].at
  /\ \A t \in TapeTokens : s.pending[t] # None =>
       \/ r.pending[t] = s.pending[t]
       \/ \E span \in r.spans : span.token = t /\ span.from = s.pending[t] /\ A < span.to

LEMMA RecordExtends ==
  ASSUME NEW s \in ReplayState, NEW r \in ReplayState, NEW A \in Nat, Extends(s, r, A),
         NEW e \in Event, A < e.at
  PROVE  Extends(s, Record(r, e), A)
<1> DEFINE q == Record(r, e)
           x == Applied(r, e)
           row == RowOf(e, x)
           closes == e.kind = "snapshot" /\ ~x.raised /\ r.pending[e.token] # None
           none == x.raised \/ x.book.condition = NoCondition
           n == Len(r.rows)
           new == [token |-> e.token, from |-> r.pending[e.token], to |-> e.at]
<1>1. /\ q \in ReplayState
      /\ \A u \in TapeTokens : u # e.token => q.pending[u] = r.pending[u]
      /\ x.raised => q.pending[e.token] = IF r.pending[e.token] = None THEN e.at ELSE r.pending[e.token]
      /\ ~x.raised /\ ~closes => q.pending[e.token] = r.pending[e.token]
      /\ closes => q.spans = r.spans \cup {new}
      /\ ~closes => q.spans = r.spans
      /\ q.rows = IF none THEN r.rows ELSE Append(r.rows, row)
  BY RecordFields
<1>2. row.at = e.at /\ row \in TapeRow
  BY RowIsTyped
<1>3. /\ r.rows \in Seq(TapeRow) /\ n \in Nat /\ Len(s.rows) \in Nat
      /\ e.token \in TapeTokens
  BY RowFields, EventFields DEF ReplayState
<1>4. \/ q.rows = r.rows
      \/ /\ Len(q.rows) = n + 1 /\ q.rows[n + 1] = row
         /\ \A i \in 1 .. n : q.rows[i] = r.rows[i]
  <2> HIDE DEF row, q, none
  <2>1. CASE q.rows = Append(r.rows, row)
    BY <1>2, <1>3, <2>1, AppendProperties
  <2>2. QED
    BY <1>1, <2>1
<1> HIDE DEF q, row, closes, none, n, x, new
<1>5. /\ Len(s.rows) <= Len(r.rows)
      /\ \A i \in 1 .. Len(s.rows) : r.rows[i] = s.rows[i]
      /\ \A i \in 1 .. Len(r.rows) : Len(s.rows) < i => A < r.rows[i].at
  BY DEF Extends
<1>6. /\ Len(s.rows) <= Len(q.rows)
      /\ \A i \in 1 .. Len(s.rows) : q.rows[i] = s.rows[i]
      /\ \A i \in 1 .. Len(q.rows) : Len(s.rows) < i => A < q.rows[i].at
  <2>1. CASE q.rows = r.rows
    BY <1>5, <2>1
  <2>2. CASE /\ Len(q.rows) = n + 1 /\ q.rows[n + 1] = row
             /\ \A i \in 1 .. n : q.rows[i] = r.rows[i]
    <3>1. \A i \in 1 .. Len(s.rows) : i \in 1 .. n
      BY <1>3, <1>5 DEF n
    <3>2. \A i \in 1 .. n + 1 : i = n + 1 \/ i \in 1 .. n
      BY <1>3
    <3>3. Len(s.rows) <= Len(q.rows)
      BY <1>3, <1>5, <2>2 DEF n
    <3>4. \A i \in 1 .. Len(s.rows) : q.rows[i] = s.rows[i]
      BY <1>5, <2>2, <3>1
    <3>5. ASSUME NEW i \in 1 .. n + 1, Len(s.rows) < i PROVE A < q.rows[i].at
      <4>1. CASE i = n + 1
        BY <1>2, <2>2, <4>1
      <4>2. CASE i \in 1 .. n
        <5>1. i \in 1 .. Len(r.rows) /\ A < r.rows[i].at
          BY <1>5, <3>5, <4>2 DEF n
        <5>2. QED
          BY <2>2, <4>2, <5>1
      <4>3. QED
        BY <3>2, <4>1, <4>2
    <3>6. QED
      BY <2>2, <3>3, <3>4, <3>5
  <2>3. QED
    BY <1>4, <2>1, <2>2
<1>7. ASSUME NEW t \in TapeTokens, s.pending[t] # None
      PROVE  \/ q.pending[t] = s.pending[t]
             \/ \E span \in q.spans : span.token = t /\ span.from = s.pending[t] /\ A < span.to
  <2>0. r.spans \subseteq q.spans
    BY <1>1
  <2>1. CASE \E span \in r.spans : span.token = t /\ span.from = s.pending[t] /\ A < span.to
    BY <2>0, <2>1
  <2>2. CASE r.pending[t] = s.pending[t] /\ ~(closes /\ t = e.token)
    BY <1>1, <1>7, <2>2
  <2>3. CASE r.pending[t] = s.pending[t] /\ closes /\ t = e.token
    <3>1. new \in q.spans
      BY <1>1, <2>3
    <3>2. new.token = t /\ new.from = s.pending[t] /\ A < new.to
      BY <2>3 DEF new
    <3>3. QED
      BY <3>1, <3>2
  <2>4. r.pending[t] = s.pending[t]
        \/ \E span \in r.spans : span.token = t /\ span.from = s.pending[t] /\ A < span.to
    BY <1>7 DEF Extends
  <2>5. QED
    BY <2>1, <2>2, <2>3, <2>4
<1>8. Extends(s, q, A)
  BY <1>6, <1>7 DEF Extends
<1>9. QED
  BY <1>8 DEF q

LEMMA ReplayExtends ==
  ASSUME NEW recording, IsRecording(recording), NEW st, Replays(recording, st), NEW A \in Nat,
         NEW m \in 0 .. Cardinality(recording),
         \A k \in 1 .. Cardinality(recording) : Ordered(recording)[k].at <= A <=> k <= m
  PROVE  Extends(st[m], st[Cardinality(recording)], A)
<1> DEFINE n == Cardinality(recording)
           P == {k \in 0 .. n - m : Extends(st[m], st[m + k], A)}
<1>1. /\ n \in Nat
      /\ \A k \in 1 .. n : Ordered(recording)[k] \in Event
  BY OrderedIsInOrder
<1>2. /\ \A k \in 1 .. n : st[k] = Record(st[k - 1], Ordered(recording)[k])
      /\ \A k \in 0 .. n : st[k] \in ReplayState
  BY ReplayTracks DEF Replays, Tracks
<1>3. \A k \in 1 .. n : Ordered(recording)[k].at <= A <=> k <= m
  OBVIOUS
<1>4. m \in 0 .. n
  OBVIOUS
<1> HIDE DEF n
<1>5. 0 \in P
  <2>1. Extends(st[m], st[m], A)
    <3>1. Len(st[m].rows) \in Nat
      BY <1>2, <1>4, RowFields DEF ReplayState
    <3>2. QED
      BY <3>1 DEF Extends
  <2>2. m + 0 = m /\ 0 \in 0 .. n - m
    BY <1>1, <1>4
  <2>3. QED
    BY <2>1, <2>2
<1>6. ASSUME NEW k \in 0 .. (n - m) - 1, k \in P PROVE k + 1 \in P
  <2> DEFINE e == Ordered(recording)[m + (k + 1)]
  <2>1. /\ m + (k + 1) \in 1 .. n /\ (m + (k + 1)) - 1 = m + k /\ m + k \in 0 .. n
        /\ ~(m + (k + 1) <= m) /\ k + 1 \in 0 .. n - m
    BY <1>1, <1>4
  <2>2. e \in Event /\ e.at \in Nat /\ ~(e.at <= A)
    BY <1>1, <1>3, <2>1, EventFields
  <2>3. st[m + (k + 1)] = Record(st[m + k], e)
    BY <1>2, <2>1
  <2>4. /\ st[m] \in ReplayState /\ st[m + k] \in ReplayState
        /\ Extends(st[m], st[m + k], A) /\ A < e.at
    BY <1>2, <1>4, <1>6, <2>1, <2>2
  <2> HIDE DEF e
  <2>5. Extends(st[m], Record(st[m + k], e), A)
    BY <2>2, <2>4, RecordExtends
  <2>6. QED
    BY <2>1, <2>3, <2>5
<1> HIDE DEF P
<1>7. n - m \in Nat
  BY <1>1, <1>4
<1>8. \A k \in 0 .. n - m : k \in P
  BY <1>5, <1>6, <1>7, IntervalInduction
<1>9. n - m \in P /\ m + (n - m) = n
  BY <1>1, <1>4, <1>7, <1>8
<1>10. QED
  BY <1>9 DEF P, n

-----------------------------------------------------------------------------
(* The tape of a recording *)

LEMMA BuildFields ==
  ASSUME NEW recording, IsRecording(recording)
  PROVE  LET built == Build(recording)
             last  == Replayed(recording)
         IN  /\ built.rows = last.rows /\ built.rows \in Seq(TapeRow)
             /\ last.spans \in SUBSET built.spans
             /\ \A t \in TapeTokens : last.pending[t] # None =>
                  [token |-> t, from |-> last.pending[t], to |-> TapeEnd] \in built.spans
<1> DEFINE last == Replayed(recording)
           open(s) == {t \in TapeTokens : s.pending[t] # None}
           spans(s) == s.spans \cup {[token |-> t, from |-> s.pending[t], to |-> TapeEnd] : t \in open(s)}
           tp == [rows |-> last.rows, spans |-> spans(last)]
<1>1. Build(recording) = CHOOSE x \in {[rows |-> s.rows, spans |-> spans(s)] : s \in {last}} : TRUE
  BY DEF Build
<1>2. {[rows |-> s.rows, spans |-> spans(s)] : s \in {last}} = {tp}
  OBVIOUS
<1>3. Build(recording) = tp
  <2> HIDE DEF tp, spans, last
  <2>1. QED
    BY <1>1, <1>2
<1>4. last \in ReplayState
  <2>1. IsFiniteSet(recording)
    BY DEF IsRecording
  <2>2. PICK st : Replays(recording, st) /\ last = st[Cardinality(recording)]
    BY <2>1, ReplayedIsLast
  <2>3. Cardinality(recording) \in Nat
    BY <2>1, FS_CardinalityType
  <2>4. Cardinality(recording) \in 0 .. Cardinality(recording)
    BY <2>3
  <2>5. Tracks(st[Cardinality(recording)], LastAt(recording, Cardinality(recording)))
    BY <2>2, <2>4, ReplayTracks
  <2> HIDE DEF last
  <2>6. QED
    BY <2>2, <2>5 DEF Tracks
<1> HIDE DEF last
<1>5. QED
  BY <1>3, <1>4 DEF ReplayState, last

LEMMA RowAtIsLast ==
  ASSUME NEW tp, tp.rows \in Seq(TapeRow), NEW token, NEW t \in Nat
  PROVE  LET row == RowAt(tp, token, t)
         IN  /\ row \in 0 .. Len(tp.rows)
             /\ row # 0 => /\ row \in 1 .. Len(tp.rows)
                           /\ tp.rows[row].token = token /\ tp.rows[row].at <= t
             /\ \A i \in 1 .. Len(tp.rows) :
                  tp.rows[i].token = token /\ tp.rows[i].at <= t => i <= row
<1> DEFINE n == Len(tp.rows)
           S == {0} \cup {i \in DOMAIN tp.rows : tp.rows[i].token = token /\ tp.rows[i].at <= t}
<1>1. n \in Nat /\ DOMAIN tp.rows = 1 .. n
  BY RowFields
<1>2. S \in SUBSET (0 .. n) /\ S # {}
  BY <1>1
<1>3. IsFiniteSet(S) /\ S \in SUBSET Int
  <2>1. IsFiniteSet(0 .. n)
    BY <1>1, FS_Interval
  <2> HIDE DEF S
  <2>2. IsFiniteSet(S)
    BY <1>2, <2>1, FS_Subset
  <2>3. QED
    BY <1>1, <1>2, <2>2
<1>4. Max(S) \in S /\ \A i \in S : i <= Max(S)
  <2> HIDE DEF S
  <2>1. QED
    BY <1>2, <1>3, MaxIsGreatest
<1>5. RowAt(tp, token, t) = Max(S)
  BY DEF RowAt
<1> DEFINE row == Max(S)
<1>6. row \in S /\ \A i \in S : i <= row
  BY <1>4
<1> HIDE DEF row
<1>7. row \in 0 .. n
  BY <1>2, <1>6
<1>8. row # 0 => row \in 1 .. n /\ tp.rows[row].token = token /\ tp.rows[row].at <= t
  BY <1>1, <1>6
<1>9. \A i \in 1 .. n : tp.rows[i].token = token /\ tp.rows[i].at <= t => i <= row
  BY <1>1, <1>6
<1>10. RowAt(tp, token, t) = row
  BY <1>5 DEF row
<1> HIDE DEF S
<1>11. QED
  BY <1>7, <1>8, <1>9, <1>10

LEMMA RowAtGrows ==
  ASSUME NEW tp, tp.rows \in Seq(TapeRow), NEW token, NEW t \in Nat, NEW u \in Nat, t <= u
  PROVE  RowAt(tp, token, t) <= RowAt(tp, token, u)
<1> DEFINE n == Len(tp.rows)
           a == RowAt(tp, token, t)
           b == RowAt(tp, token, u)
<1>1. n \in Nat /\ \A i \in 1 .. n : tp.rows[i].at \in Nat
  BY RowFields
<1>2. /\ a \in 0 .. n
      /\ a # 0 => a \in 1 .. n /\ tp.rows[a].token = token /\ tp.rows[a].at <= t
  BY RowAtIsLast
<1>3. /\ b \in 0 .. n
      /\ \A i \in 1 .. n : tp.rows[i].token = token /\ tp.rows[i].at <= u => i <= b
  BY RowAtIsLast
<1> HIDE DEF a, b, n
<1>4. CASE a = 0
  BY <1>1, <1>3, <1>4 DEF a, b
<1>5. CASE a # 0
  <2>1. tp.rows[a].at <= u
    BY <1>1, <1>2, <1>5
  <2>2. a <= b
    BY <1>2, <1>3, <1>5, <2>1
  <2>3. QED
    BY <2>2 DEF a, b
<1>6. QED
  BY <1>4, <1>5

\* The last row up to a time, where the tape is certain, is the book that the
\* events up to that time leave.
LEMMA RowIsBook ==
  ASSUME NEW recording, IsRecording(recording), NEW token \in TapeTokens,
         NEW A \in Nat, A < TapeEnd,
         RowAt(Build(recording), token, A) # 0,
         ~IsUncertain(Build(recording), token, A)
  PROVE  LET row  == Build(recording).rows[RowAt(Build(recording), token, A)]
             book == Replayed({e \in recording : e.at <= A}).books[token]
         IN  /\ book \in Book
             /\ row.valid = book.valid
             /\ row.bids = Ladder(book, "BUY") /\ row.asks = Ladder(book, "SELL")
<1> DEFINE part == {e \in recording : e.at <= A}
           n == Cardinality(recording)
           m == Cardinality(part)
           tp == Build(recording)
           i == RowAt(tp, token, A)
<1>1. /\ IsRecording(part) /\ n \in Nat /\ m \in Nat /\ m <= n
      /\ \A k \in 1 .. m : Ordered(part)[k] = Ordered(recording)[k]
      /\ \A k \in 1 .. n : Ordered(recording)[k].at <= A <=> k <= m
  BY UpToIsPrefix
<1>2. IsFiniteSet(recording) /\ IsFiniteSet(part)
  BY <1>1 DEF IsRecording
<1>3. PICK st : Replays(recording, st) /\ Replayed(recording) = st[n]
  BY <1>2, ReplayedIsLast
<1> HIDE DEF part
<1>4. PICK ps : Replays(part, ps) /\ Replayed(part) = ps[m]
  BY <1>2, ReplayedIsLast
<1> HIDE DEF n, m, tp
<1>5. Replayed(part) = st[m]
  <2>1. 1 .. m \in SUBSET (1 .. n) /\ m \in 0 .. m
    BY <1>1
  <2>2. \A k \in 0 .. m : st[k] = ps[k]
    BY <1>1, <1>3, <1>4, <2>1, SameReplay DEF n, m
  <2>3. QED
    BY <1>4, <2>1, <2>2
<1>6. m \in 0 .. n
  BY <1>1
<1>7. Tracks(st[m], LastAt(recording, m)) /\ LastAt(recording, m) \in Nat
  BY <1>3, <1>6, ReplayTracks DEF n
<1>8. LastAt(recording, m) <= A
  <2>1. CASE m = 0
    BY <2>1 DEF LastAt
  <2>2. CASE m # 0
    <3>1. m \in 1 .. n /\ m <= m
      BY <1>1, <2>2
    <3>2. Ordered(recording)[m].at <= A
      BY <1>1, <3>1
    <3>3. QED
      BY <2>2, <3>2 DEF LastAt
  <2>3. QED
    BY <2>1, <2>2
<1>9. Extends(st[m], st[n], A)
  <2>1. \A k \in 1 .. n : Ordered(recording)[k].at <= A <=> k <= m
    BY <1>1
  <2>2. QED
    BY <1>3, <1>6, <2>1, ReplayExtends DEF n
<1> DEFINE s == st[m]
           r == st[n]
           T == LastAt(recording, m)
<1>10. /\ tp.rows = r.rows /\ tp.rows \in Seq(TapeRow) /\ r.spans \in SUBSET tp.spans
       /\ \A t \in TapeTokens : r.pending[t] # None =>
            [token |-> t, from |-> r.pending[t], to |-> TapeEnd] \in tp.spans
  BY <1>3, BuildFields DEF tp
<1>11. s \in ReplayState /\ s.rows \in Seq(TapeRow) /\ s.books[token] \in Book
       /\ s.pending[token] \in {None} \cup Nat
  BY <1>7 DEF Tracks, ReplayState
<1> DEFINE len == Len(s.rows)
<1>12. /\ Len(tp.rows) \in Nat /\ \A k \in 1 .. Len(tp.rows) : tp.rows[k].at \in Nat
       /\ len \in Nat /\ DOMAIN s.rows = 1 .. len
       /\ \A k \in 1 .. len : s.rows[k].at \in Nat
  BY <1>10, <1>11, RowFields
<1>13. /\ i \in 1 .. Len(tp.rows) /\ tp.rows[i].token = token /\ tp.rows[i].at <= A
       /\ \A k \in 1 .. Len(tp.rows) : tp.rows[k].token = token /\ tp.rows[k].at <= A => k <= i
  BY <1>10, RowAtIsLast DEF tp
<1> HIDE DEF s, r, i, T
<1>14. /\ len <= Len(tp.rows)
       /\ \A k \in 1 .. len : tp.rows[k] = s.rows[k]
       /\ \A k \in 1 .. Len(tp.rows) : len < k => A < tp.rows[k].at
       /\ s.pending[token] # None =>
            \/ r.pending[token] = s.pending[token]
            \/ \E span \in r.spans : span.token = token /\ span.from = s.pending[token] /\ A < span.to
  BY <1>9, <1>10 DEF Extends, s, r
<1> HIDE DEF len
<1>15. i \in 1 .. len
  BY <1>12, <1>13, <1>14
<1>16. s.pending[token] = None
  <2> SUFFICES ASSUME s.pending[token] # None PROVE FALSE
    OBVIOUS
  <2>1. s.pending[token] \in Nat /\ s.pending[token] <= A
    <3>1. s.pending[token] \in Nat /\ s.pending[token] <= T
      BY <1>7, <1>11 DEF Tracks, s, T
    <3>2. QED
      BY <1>7, <1>8, <3>1 DEF T
  <2>2. \E span \in tp.spans : span.token = token /\ span.from = s.pending[token] /\ A <= span.to
    <3>1. CASE r.pending[token] = s.pending[token]
      <4> DEFINE span == [token |-> token, from |-> r.pending[token], to |-> TapeEnd]
      <4>1. span \in tp.spans
        BY <1>10, <3>1
      <4>2. span.token = token /\ span.from = s.pending[token] /\ A <= span.to
        BY <3>1, TapeAssumption
      <4>3. QED
        BY <4>1, <4>2
    <3>2. CASE \E span \in r.spans : span.token = token /\ span.from = s.pending[token] /\ A < span.to
      <4>1. PICK span \in r.spans : span.token = token /\ span.from = s.pending[token] /\ A < span.to
        BY <3>2
      <4>2. r.spans \in SUBSET Span
        BY <1>3, <1>1, ReplayTracks DEF Tracks, ReplayState, r, n
      <4>3. span.to \in Nat
        BY <4>1, <4>2 DEF Span
      <4>4. QED
        BY <1>10, <4>1, <4>3
    <3>3. QED
      BY <1>14, <3>1, <3>2
  <2>3. IsUncertain(tp, token, A)
    BY <2>1, <2>2 DEF IsUncertain
  <2>4. QED
    BY <2>3 DEF tp
<1>17. \A k \in DOMAIN s.rows : s.rows[k].token = s.rows[i].token => k <= i
  <2>1. ASSUME NEW k \in 1 .. len, s.rows[k].token = token PROVE k <= i
    <3>1. s.rows[k].at <= A
      <4>1. s.rows[k].at <= T
        BY <1>7, <1>12, <2>1 DEF Tracks, s, T
      <4>2. QED
        BY <1>7, <1>8, <1>12, <2>1, <4>1 DEF T
    <3>2. k \in 1 .. Len(tp.rows) /\ tp.rows[k] = s.rows[k]
      BY <1>12, <1>14, <2>1
    <3>3. QED
      BY <1>13, <2>1, <3>1, <3>2
  <2>2. s.rows[i].token = token
    BY <1>13, <1>14, <1>15
  <2>3. QED
    BY <1>12, <2>1, <2>2
<1>18. s.rows[i].token = token /\ tp.rows[i] = s.rows[i] /\ i \in DOMAIN s.rows
  BY <1>12, <1>13, <1>14, <1>15
<1>19. /\ s.rows[i].valid = s.books[token].valid
       /\ s.rows[i].bids = Ladder(s.books[token], "BUY")
       /\ s.rows[i].asks = Ladder(s.books[token], "SELL")
  BY <1>7, <1>16, <1>17, <1>18 DEF Tracks, s
<1>20. QED
  BY <1>5, <1>11, <1>18, <1>19 DEF i, tp, part, s

-----------------------------------------------------------------------------
(* Depth taken, and the slices of an order *)

Keys == [token : TapeTokens, side : Side, price : Price]

\* What consumed may be.
IsTaken(taken) ==
  /\ DOMAIN taken \in SUBSET Keys
  /\ taken = [key \in DOMAIN taken |-> taken[key]]
  /\ \A key \in DOMAIN taken : taken[key] \in Nat

LEMMA TakenFromIsNat ==
  ASSUME NEW taken, IsTaken(taken), NEW key
  PROVE  TakenFrom(taken, key) \in Nat
BY DEF TakenFrom, IsTaken

\* The slices are of levels of the ladder, at most one of each, no larger.
Follows(slices, ladder) ==
  \E at \in Injection(DOMAIN slices, DOMAIN ladder) :
    \A k \in DOMAIN slices : /\ slices[k].price = ladder[at[k]].price
                             /\ slices[k].size <= ladder[at[k]].size

LEMMA FollowsFields ==
  ASSUME NEW slices, NEW ladder, Follows(slices, ladder)
  PROVE  \E at \in [DOMAIN slices -> DOMAIN ladder] :
           /\ \A j, k \in DOMAIN slices : at[j] = at[k] => j = k
           /\ \A k \in DOMAIN slices : /\ at[k] \in DOMAIN ladder
                                       /\ slices[k].price = ladder[at[k]].price
                                       /\ slices[k].size <= ladder[at[k]].size
<1>1. PICK at \in Injection(DOMAIN slices, DOMAIN ladder) :
        \A k \in DOMAIN slices : /\ slices[k].price = ladder[at[k]].price
                                 /\ slices[k].size <= ladder[at[k]].size
  BY DEF Follows
<1> DEFINE S == DOMAIN slices
           T == DOMAIN ladder
<1>2. at \in Injection(S, T)
  OBVIOUS
<1> HIDE DEF S, T
<1>3. at \in [S -> T] /\ \A a, b \in S : at[a] = at[b] => a = b
  BY <1>2, Fun_InjectionProperties
<1>4. QED
  BY <1>1, <1>3 DEF S, T

LEMMA NoneFollows ==
  ASSUME NEW ladder
  PROVE  Follows(<< >>, ladder)
<1> DEFINE at == [k \in DOMAIN << >> |-> 1]
           T == DOMAIN ladder
<1>1. DOMAIN << >> = {}
  OBVIOUS
<1>2. at \in [{} -> T] /\ \A a, b \in {} : at[a] = at[b] => a = b
  BY <1>1
<1> HIDE DEF at, T
<1>3. at \in Injection({}, T)
  BY <1>2, Fun_IsInj
<1>4. QED
  BY <1>1, <1>3 DEF Follows, T

LEMMA FewerFollow ==
  ASSUME NEW slices \in Seq(SliceTypes), NEW ladder \in Seq(Level), Follows(slices, ladder),
         NEW kept \in Seq(SliceTypes), Len(kept) <= Len(slices),
         \A k \in DOMAIN kept : kept[k].price = slices[k].price /\ kept[k].size <= slices[k].size
  PROVE  Follows(kept, ladder)
<1>1. PICK at \in [DOMAIN slices -> DOMAIN ladder] :
        /\ \A j, k \in DOMAIN slices : at[j] = at[k] => j = k
        /\ \A k \in DOMAIN slices : /\ at[k] \in DOMAIN ladder
                                    /\ slices[k].price = ladder[at[k]].price
                                    /\ slices[k].size <= ladder[at[k]].size
  BY FollowsFields
<1>2. \A k \in DOMAIN kept : k \in DOMAIN slices
  <2>1. /\ DOMAIN kept = 1 .. Len(kept) /\ Len(kept) \in Nat
        /\ DOMAIN slices = 1 .. Len(slices) /\ Len(slices) \in Nat
    BY LenProperties
  <2>2. QED
    BY <2>1
<1> DEFINE S == DOMAIN kept
           T == DOMAIN ladder
           to == [k \in S |-> at[k]]
<1>3. to \in [S -> T] /\ \A a, b \in S : to[a] = to[b] => a = b
  BY <1>1, <1>2
<1>4. ASSUME NEW k \in S
      PROVE  kept[k].price = ladder[to[k]].price /\ kept[k].size <= ladder[to[k]].size
  <2>1. /\ k \in DOMAIN slices /\ to[k] = at[k] /\ at[k] \in DOMAIN ladder
        /\ slices[k].price = ladder[at[k]].price /\ slices[k].size <= ladder[at[k]].size
    BY <1>1, <1>2
  <2>2. kept[k].size \in Nat /\ slices[k].size \in Nat /\ ladder[at[k]].size \in Nat
    BY <2>1, SliceFields, LadderFields
  <2>3. kept[k].price = slices[k].price /\ kept[k].size <= slices[k].size
    OBVIOUS
  <2> HIDE DEF to
  <2>4. QED
    BY <2>1, <2>2, <2>3
<1> HIDE DEF to
<1>5. \E b \in Injection(S, T) :
        \A k \in S : kept[k].price = ladder[b[k]].price /\ kept[k].size <= ladder[b[k]].size
  <2> HIDE DEF S, T
  <2>1. to \in Injection(S, T)
    BY <1>3, Fun_IsInj
  <2>2. QED
    BY <1>4, <2>1
<1>6. QED
  BY <1>5 DEF Follows

\* What is left of a ladder.
LEMMA LeftOfIsPart ==
  ASSUME NEW ladder \in Seq(Level), NEW token, NEW side, NEW taken, IsTaken(taken)
  PROVE  LET left == LeftOf(ladder, token, side, taken)
         IN  /\ left \in Seq(Level)
             /\ \E at \in [DOMAIN left -> DOMAIN ladder] :
                  /\ \A j, k \in DOMAIN left : at[j] = at[k] => j = k
                  /\ \A k \in DOMAIN left :
                       /\ at[k] \in DOMAIN ladder
                       /\ left[k].price = ladder[at[k]].price
                       /\ left[k].size = ladder[at[k]].size
                            - TakenFrom(taken, LevelKey(token, side, left[k].price))
<1> DEFINE n == Len(ladder)
           rest(i) == ladder[i].size - TakenFrom(taken, LevelKey(token, side, ladder[i].price))
           seq == [i \in 1 .. n |-> [price |-> ladder[i].price, size |-> rest(i)]]
           P == {i \in 1 .. n : rest(i) > 0}
           left == LeftOf(ladder, token, side, taken)
           m == Cardinality(P)
<1>1. n \in Nat /\ DOMAIN ladder = 1 .. n
  BY LenProperties
<1>2. left = Kept(seq, P)
  BY <1>1 DEF LeftOf
<1>3. ASSUME NEW i \in 1 .. n
      PROVE  /\ ladder[i].price \in Price /\ ladder[i].size \in Nat
             /\ rest(i) \in Int
             /\ seq[i].price = ladder[i].price /\ seq[i].size = rest(i)
             /\ rest(i) > 0 => seq[i] \in Level
  <2>1. i \in DOMAIN ladder
    BY <1>1
  <2>2. ladder[i].price \in Price /\ ladder[i].size \in Nat
    BY <2>1, LadderFields
  <2>3. rest(i) \in Int
    BY <2>2, TakenFromIsNat
  <2> HIDE DEF rest
  <2>4. QED
    BY <2>2, <2>3 DEF Level
<1>4. P \in SUBSET (1 .. n) /\ \A i \in P : seq[i] \in Level
  BY <1>3
<1> HIDE DEF left, seq, P
<1>5. left \in Seq(Level)
  BY <1>1, <1>2, <1>4, KeptSequence
<1> HIDE DEF rest, m
<1>6. PICK at \in Bijection(1 .. m, P) : Kept(seq, P) = [k \in 1 .. m |-> seq[at[k]]]
  <2> HIDE DEF n
  <2>1. n \in Nat /\ P \in SUBSET (1 .. n)
    BY <1>1, <1>4
  <2>2. \E at \in Bijection(1 .. Cardinality(P), P) :
          /\ Kept(seq, P) = [k \in 1 .. Cardinality(P) |-> seq[at[k]]]
          /\ \A j, k \in 1 .. Cardinality(P) : j < k => at[j] < at[k]
    BY <2>1, KeptElements
  <2>3. QED
    BY <2>2 DEF m
<1>7. at \in [1 .. m -> P] /\ \A a, b \in 1 .. m : at[a] = at[b] => a = b
  <2> DEFINE S == 1 .. m
  <2>1. at \in Bijection(S, P)
    OBVIOUS
  <2> HIDE DEF S
  <2>2. at \in [S -> P] /\ \A a, b \in S : at[a] = at[b] => a = b
    BY <2>1, Fun_BijectionProperties
  <2>3. QED
    BY <2>2 DEF S
<1>8. DOMAIN left = 1 .. m /\ \A k \in 1 .. m : left[k] = seq[at[k]]
  BY <1>2, <1>6
<1>9. at \in [DOMAIN left -> DOMAIN ladder]
  BY <1>1, <1>4, <1>7, <1>8
<1>10. ASSUME NEW k \in DOMAIN left
       PROVE  /\ at[k] \in DOMAIN ladder
              /\ left[k].price = ladder[at[k]].price
              /\ left[k].size = ladder[at[k]].size
                            - TakenFrom(taken, LevelKey(token, side, left[k].price))
  <2>1. at[k] \in 1 .. n /\ left[k] = seq[at[k]]
    BY <1>4, <1>7, <1>8
  <2>2. left[k].price = ladder[at[k]].price /\ left[k].size = rest(at[k])
    BY <1>3, <2>1
  <2>3. QED
    BY <1>1, <2>1, <2>2 DEF rest
<1>11. \A j, k \in DOMAIN left : at[j] = at[k] => j = k
  BY <1>7, <1>8
<1>12. \E to \in [DOMAIN left -> DOMAIN ladder] :
         /\ \A j, k \in DOMAIN left : to[j] = to[k] => j = k
         /\ \A k \in DOMAIN left :
              /\ to[k] \in DOMAIN ladder
              /\ left[k].price = ladder[to[k]].price
              /\ left[k].size = ladder[to[k]].size
                            - TakenFrom(taken, LevelKey(token, side, left[k].price))
  BY <1>9, <1>10, <1>11
<1>13. QED
  BY <1>5, <1>12 DEF left

\* An order as it is sent: a SELL has no cash and no spending limit.
Request ==
  [kind : {"entry", "stop_loss", "take_profit", "flatten"}, side : Side, decision : Nat,
   arrival : Nat, token : TapeTokens, shares : Nat, spend : {None} \cup Nat,
   cash : {None} \cup Nat, full : BOOLEAN, limit : Int, deadline : {None} \cup Nat]

IsRequest(o) == o \in Request /\ (o.side = "BUY" => o.cash \in Nat)

LEMMA SlicesAreWithin ==
  ASSUME NEW o, IsRequest(o), NEW ladder \in Seq(Level), NEW age
  PROVE  LET met == SlicesOf(o, ladder, age)
         IN  /\ met.requested \in Nat
             /\ met.slices \in Seq(SliceTypes)
             /\ Total(met.slices, "size") <= met.requested
             /\ o.side # "BUY" \/ o.spend = None => met.requested = o.shares
             /\ o.side = "BUY" =>
                  TotalCost(met.slices) <= (IF o.spend # None THEN o.spend ELSE o.cash)
             /\ Follows(met.slices, ladder)
<1> DEFINE sized == o.side = "BUY" /\ o.spend # None
           requested == IF sized /\ ladder # << >> THEN AffordableAt(o.spend, ladder[1].price)
                        ELSE o.shares
           cap == IF sized THEN o.spend ELSE o.cash
           walked == IF Unexecutable(ladder, requested, age, MinimumOrder) THEN << >>
                     ELSE Sweep(o.side, ladder, requested, o.limit)
           kept == IF o.side = "BUY" THEN CapBuyToSpend(walked, cap) ELSE walked
           slices == IF o.full /\ ~(Total(kept, "size") = requested \/ (sized /\ kept # walked))
                     THEN << >> ELSE kept
           met == SlicesOf(o, ladder, age)
<1>1. met = [requested |-> requested, slices |-> slices]
  BY DEF SlicesOf
<1>2. /\ o.shares \in Nat /\ o.spend \in {None} \cup Nat /\ o.side \in Side
      /\ o.side = "BUY" => o.cash \in Nat /\ cap \in Nat
  BY DEF IsRequest, Request
<1>3. requested \in Nat
  <2>1. CASE sized /\ ladder # << >>
    <3>1. 1 \in DOMAIN ladder
      <4>1. Len(ladder) \in Nat /\ DOMAIN ladder = 1 .. Len(ladder) /\ Len(ladder) # 0
        BY <2>1, LenProperties, EmptySeq
      <4>2. QED
        BY <4>1
    <3>2. ladder[1].price \in Price
      BY <3>1, LadderFields
    <3>3. o.spend \in Nat
      BY <1>2, <2>1
    <3>4. QED
      BY <2>1, <3>2, <3>3, AffordableAtIsNat
  <2>2. CASE ~(sized /\ ladder # << >>)
    BY <1>2, <2>2
  <2>3. QED
    BY <2>1, <2>2
<1>4. << >> \in Seq(SliceTypes) /\ Total(<< >>, "size") = 0 /\ TotalCost(<< >>) = 0
      /\ Follows(<< >>, ladder)
  BY EmptySeq, TotalOfNone, NoneFollows
<1> HIDE DEF requested
<1>5. /\ walked \in Seq(SliceTypes) /\ Total(walked, "size") <= requested
      /\ Follows(walked, ladder)
  <2>1. CASE Unexecutable(ladder, requested, age, MinimumOrder)
    BY <1>3, <1>4, <2>1
  <2>2. CASE ~Unexecutable(ladder, requested, age, MinimumOrder)
    <3>1. /\ Sweep(o.side, ladder, requested, o.limit) \in Seq(SliceTypes)
          /\ Total(Sweep(o.side, ladder, requested, o.limit), "size") <= requested
          /\ Follows(Sweep(o.side, ladder, requested, o.limit), ladder)
      BY <1>3, SweepFollowsLadder DEF Follows
    <3>2. QED
      BY <2>2, <3>1
  <2>3. QED
    BY <2>1, <2>2
<1> HIDE DEF walked, cap
<1>6. /\ kept \in Seq(SliceTypes) /\ Total(kept, "size") <= requested
      /\ Follows(kept, ladder)
      /\ o.side = "BUY" => TotalCost(kept) <= cap
  <2>1. CASE o.side = "BUY"
    <3> DEFINE cut == CapBuyToSpend(walked, cap)
    <3>1. /\ cut \in Seq(SliceTypes) /\ TotalCost(cut) <= cap
          /\ Len(cut) <= Len(walked)
          /\ \A k \in DOMAIN cut : /\ cut[k].price = walked[k].price
                                   /\ cut[k].size <= walked[k].size
          /\ Total(cut, "size") <= Total(walked, "size")
      BY <1>2, <1>5, <2>1, CapIsWithin
    <3> HIDE DEF cut
    <3>2. Follows(cut, ladder)
      BY <1>5, <3>1, FewerFollow
    <3>3. Total(cut, "size") \in Nat /\ Total(walked, "size") \in Nat
      BY <1>5, <3>1, TotalIsNat
    <3>4. Total(cut, "size") <= requested
      BY <1>3, <1>5, <3>1, <3>3
    <3>5. QED
      BY <2>1, <3>1, <3>2, <3>4 DEF cut
  <2>2. CASE o.side # "BUY"
    BY <1>5, <2>2
  <2>3. QED
    BY <2>1, <2>2
<1> HIDE DEF kept
<1>7. slices = << >> \/ slices = kept
  OBVIOUS
<1> HIDE DEF slices
<1>8. /\ slices \in Seq(SliceTypes) /\ Total(slices, "size") <= requested
      /\ Follows(slices, ladder)
      /\ o.side = "BUY" => TotalCost(slices) <= cap
  <2>1. CASE slices = kept
    BY <1>6, <2>1
  <2>2. CASE slices = << >>
    <3>1. 0 <= requested /\ (o.side = "BUY" => 0 <= cap)
      BY <1>2, <1>3
    <3> DEFINE none == << >>
    <3>2. none \in Seq(SliceTypes) /\ Total(none, "size") = 0 /\ TotalCost(none) = 0
          /\ Follows(none, ladder)
      BY <1>4
    <3>3. slices = none
      BY <2>2
    <3> HIDE DEF none
    <3>4. QED
      BY <3>1, <3>2, <3>3
  <2>3. QED
    BY <1>7, <2>1, <2>2
<1>9. met.requested = requested /\ met.slices = slices
  BY <1>1
<1>10. o.side # "BUY" \/ o.spend = None => requested = o.shares
  BY DEF requested
<1>11. o.side = "BUY" => cap = IF o.spend # None THEN o.spend ELSE o.cash
  BY DEF cap
<1> HIDE DEF met
<1>12. QED
  BY <1>3, <1>8, <1>9, <1>10, <1>11 DEF met

\* Adding what was taken keeps the record of it.
SizeAtPrice(slices, price) ==
  SumFunction([i \in DOMAIN slices |-> IF slices[i].price = price THEN slices[i].size ELSE 0])

LEMMA SizeAtPriceIsNat ==
  ASSUME NEW slices \in Seq(SliceTypes), NEW price
  PROVE  SizeAtPrice(slices, price) \in Nat
<1> DEFINE f == [i \in DOMAIN slices |-> IF slices[i].price = price THEN slices[i].size ELSE 0]
<1>1. DOMAIN slices = 1 .. Len(slices) /\ Len(slices) \in Nat
  BY LenProperties
<1>2. IsFiniteSet(DOMAIN slices)
  BY <1>1, FS_Interval
<1>3. DOMAIN f = DOMAIN slices /\ \A i \in DOMAIN slices : f[i] \in Nat
  BY SliceFields
<1>4. SizeAtPrice(slices, price) = SumFunctionOnSet(f, DOMAIN f)
  BY DEF SizeAtPrice, SumFunction
<1> HIDE DEF f
<1>5. QED
  BY <1>2, <1>3, <1>4, SumIsNat

LEMMA TakenWithIsTaken ==
  ASSUME NEW taken, IsTaken(taken), NEW token \in TapeTokens, NEW side \in Side,
         NEW slices \in Seq(SliceTypes)
  PROVE  LET left == TakenWith(taken, token, side, slices)
         IN  /\ IsTaken(left)
             /\ \A key : TakenFrom(left, key) >= TakenFrom(taken, key)
             /\ \A price \in Price :
                  LET key == LevelKey(token, side, price)
                  IN  TakenFrom(left, key) = TakenFrom(taken, key) + SizeAtPrice(slices, price)
<1> DEFINE keys == {LevelKey(token, side, slices[i].price) : i \in DOMAIN slices}
           size(key) == SumFunction([i \in DOMAIN slices |->
                          IF slices[i].price = key.price THEN slices[i].size ELSE 0])
           left == [key \in keys \cup DOMAIN taken |->
                     TakenFrom(taken, key) + (IF key \in keys THEN size(key) ELSE 0)]
<1>1. TakenWith(taken, token, side, slices) = left
  BY DEF TakenWith
<1>2. keys \in SUBSET Keys
  BY SliceFields DEF LevelKey, Keys
<1>3. \A key : size(key) = SizeAtPrice(slices, key.price) /\ size(key) \in Nat
  BY SizeAtPriceIsNat DEF SizeAtPrice
<1>4. \A key : TakenFrom(taken, key) \in Nat
  BY TakenFromIsNat
<1>5. \A price : LevelKey(token, side, price) \notin keys => SizeAtPrice(slices, price) = 0
  <2>1. ASSUME NEW price, LevelKey(token, side, price) \notin keys
        PROVE  SizeAtPrice(slices, price) = 0
    <3> DEFINE f == [i \in DOMAIN slices |-> IF slices[i].price = price THEN slices[i].size ELSE 0]
    <3>1. \A i \in DOMAIN slices : slices[i].price # price
      BY <2>1
    <3>2. DOMAIN f = DOMAIN slices /\ \A i \in DOMAIN slices : f[i] = 0
      BY <3>1
    <3>3. DOMAIN slices = 1 .. Len(slices) /\ Len(slices) \in Nat
      BY LenProperties
    <3>4. IsFiniteSet(DOMAIN slices)
      BY <3>3, FS_Interval
    <3>5. SizeAtPrice(slices, price) = SumFunctionOnSet(f, DOMAIN f)
      BY DEF SizeAtPrice, SumFunction
    <3> HIDE DEF f
    <3>6. QED
      BY <3>2, <3>4, <3>5, SumOfZeros
  <2>2. QED
    BY <2>1
<1> HIDE DEF keys, size
<1>6. /\ DOMAIN left = keys \cup DOMAIN taken
      /\ \A key \in keys \cup DOMAIN taken :
           left[key] = TakenFrom(taken, key) + (IF key \in keys THEN size(key) ELSE 0)
      /\ left = [key \in DOMAIN left |-> left[key]]
  OBVIOUS
<1> HIDE DEF left
<1>7. IsTaken(left)
  BY <1>2, <1>3, <1>4, <1>6 DEF IsTaken
<1>8. \A key : key \notin DOMAIN left => TakenFrom(taken, key) = 0
  BY <1>6 DEF TakenFrom
<1>9. ASSUME NEW key
      PROVE  TakenFrom(left, key) = TakenFrom(taken, key) + (IF key \in keys THEN size(key) ELSE 0)
  <2>1. CASE key \in DOMAIN left
    BY <1>6, <2>1 DEF TakenFrom
  <2>2. CASE key \notin DOMAIN left
    <3>1. key \notin keys /\ TakenFrom(taken, key) = 0 /\ TakenFrom(left, key) = 0
      BY <1>6, <2>2 DEF TakenFrom
    <3>2. QED
      BY <3>1
  <2>3. QED
    BY <2>1, <2>2
<1>10. \A key : TakenFrom(left, key) >= TakenFrom(taken, key)
  BY <1>3, <1>4, <1>9
<1>11. ASSUME NEW price \in Price
       PROVE  TakenFrom(left, LevelKey(token, side, price))
                = TakenFrom(taken, LevelKey(token, side, price)) + SizeAtPrice(slices, price)
  <2>1. LevelKey(token, side, price).price = price
    BY DEF LevelKey
  <2> DEFINE key == LevelKey(token, side, price)
  <2>2. key.price = price
    BY <2>1
  <2> HIDE DEF key
  <2>3. CASE key \in keys
    BY <1>3, <1>9, <2>2, <2>3 DEF key
  <2>4. CASE key \notin keys
    BY <1>4, <1>5, <1>9, <2>4 DEF key
  <2>5. QED
    BY <2>3, <2>4
<1>12. QED
  BY <1>1, <1>7, <1>10, <1>11

-----------------------------------------------------------------------------
(* What a policy decides *)

Plans == [target : Nat, start : Nat, deadline : Nat, benchmark : Nat, limit : Nat]

Sessions ==
  [plan : Plans, cash : Int, filled : Nat, fills : Seq(SliceTypes), pending : Nat,
   pendingAt : {None} \cup Nat, lastAction : {None} \cup Nat, lastDecision : {None} \cup Nat,
   notBefore : Nat]

Views == [now : Nat, volume : Nat, minimum : Nat, reference : Int, asks : Seq(Level)]

LEMMA SessionFields ==
  ASSUME NEW s \in Sessions
  PROVE  /\ s.plan \in Plans
         /\ s.plan.target \in Nat /\ s.plan.start \in Nat /\ s.plan.deadline \in Nat
         /\ s.plan.benchmark \in Nat /\ s.plan.limit \in Nat
         /\ s.cash \in Int /\ s.filled \in Nat /\ s.fills \in Seq(SliceTypes) /\ s.pending \in Nat
         /\ s.pendingAt \in {None} \cup Nat /\ s.lastAction \in {None} \cup Nat
         /\ s.lastDecision \in {None} \cup Nat /\ s.notBefore \in Nat
         /\ Remaining(s) \in Int
BY DEF Sessions, Plans, Remaining

LEMMA IntDiv ==
  ASSUME NEW a \in Int, NEW b \in Nat, b > 0
  PROVE  a \div b \in Int
OBVIOUS

LEMMA IntProduct ==
  ASSUME NEW a \in Int, NEW b \in Int
  PROVE  a * b \in Int
OBVIOUS

LEMMA PpmIsInt ==
  ASSUME NEW a \in Int, NEW rate \in Int
  PROVE  Ppm(a, rate) \in Int
<1>1. PPM \in Nat /\ PPM > 0
  BY RealismAssumption
<1>2. a * rate \in Int
  BY IntProduct
<1>3. QED
  BY <1>1, <1>2, IntDiv DEF Ppm

LEMMA ChildIsWithin ==
  ASSUME NEW s \in Sessions, s.plan.limit > 0, NEW view \in Views, NEW due \in Int
  PROVE  /\ Child(s, view, due) \in Nat
         /\ Child(s, view, due) # 0 => Child(s, view, due) <= Remaining(s)
<1> DEFINE depth == SumFunction([i \in Executable(s, view) |-> view.asks[i].size])
           afford == CashAffordable(s, view)
           S == {due, Remaining(s), Ppm(depth, DepthShare), afford}
           size == Min(S)
<1>1. /\ Remaining(s) \in Int /\ s.cash \in Int /\ s.plan.limit \in Nat
      /\ view.asks \in Seq(Level) /\ view.minimum \in Nat
  BY SessionFields DEF Views
<1>2. PPM \in Nat /\ PPM > 0 /\ FeeReserve \in Nat /\ DepthShare \in Int /\ PriceScale \in Nat
  BY RealismAssumption, SessionAssumption, PriceScaleAssumption
<1>3. depth \in Int
  <2> DEFINE f == [i \in Executable(s, view) |-> view.asks[i].size]
  <2>1. DOMAIN f = Executable(s, view) /\ Executable(s, view) \in SUBSET DOMAIN view.asks
    BY DEF Executable
  <2>2. DOMAIN view.asks = 1 .. Len(view.asks) /\ Len(view.asks) \in Nat
    BY <1>1, LenProperties
  <2>3. IsFiniteSet(Executable(s, view))
    <3>1. IsFiniteSet(DOMAIN view.asks)
      BY <2>2, FS_Interval
    <3>2. QED
      BY <2>1, <3>1, FS_Subset
  <2>4. \A i \in Executable(s, view) : f[i] \in Nat
    BY <1>1, <2>1, LadderFields
  <2>5. depth = SumFunctionOnSet(f, Executable(s, view))
    BY <2>1 DEF SumFunction
  <2> HIDE DEF f, depth
  <2>6. depth \in Nat
    BY <2>3, <2>4, <2>5, SumIsNat
  <2>7. QED
    BY <2>6
<1>4. afford \in Int
  <2>1. s.plan.limit * (PPM + FeeReserve) \in Nat /\ s.plan.limit * (PPM + FeeReserve) > 0
    <3>1. PPM + FeeReserve \in Nat /\ PPM + FeeReserve > 0
      BY <1>2
    <3> DEFINE r == PPM + FeeReserve
    <3> HIDE DEF r
    <3>2. s.plan.limit * r \in Nat /\ s.plan.limit * r > 0
      BY <1>1, <3>1 DEF r
    <3>3. QED
      BY <3>2 DEF r
  <2>2. s.cash * PriceScale * PPM \in Int
    BY <1>1, <1>2, IntProduct
  <2> DEFINE a == s.cash * PriceScale * PPM
             b == s.plan.limit * (PPM + FeeReserve)
  <2>3. afford = IF Executable(s, view) = {} THEN 0 ELSE a \div b
    BY DEF CashAffordable
  <2>4. a \in Int /\ b \in Nat /\ b > 0
    BY <2>1, <2>2
  <2> HIDE DEF a, b, afford
  <2>5. a \div b \in Int
    BY <2>4, IntDiv
  <2>6. QED
    BY <2>3, <2>5
<1>5. Ppm(depth, DepthShare) \in Int
  BY <1>2, <1>3, PpmIsInt
<1> HIDE DEF afford, depth
<1>6. S \in SUBSET Int /\ S # {} /\ IsFiniteSet(S)
  <2>1. S \in SUBSET Int /\ S # {}
    BY <1>1, <1>4, <1>5
  <2>2. IsFiniteSet(((({} \cup {due}) \cup {Remaining(s)}) \cup {Ppm(depth, DepthShare)}) \cup {afford})
    BY FS_EmptySet, FS_AddElement
  <2>3. S = ((({} \cup {due}) \cup {Remaining(s)}) \cup {Ppm(depth, DepthShare)}) \cup {afford}
    OBVIOUS
  <2>4. QED
    BY <2>1, <2>2, <2>3
<1>7. size \in Int /\ size <= Remaining(s)
  <2>1. Remaining(s) \in S
    OBVIOUS
  <2> HIDE DEF S
  <2>2. QED
    BY <1>6, <2>1, MinIsLeast
<1>8. Child(s, view, due) = IF size <= 0 \/ size < view.minimum THEN 0 ELSE size
  BY DEF Child, depth, afford
<1> HIDE DEF size
<1>9. QED
  BY <1>7, <1>8

LEMMA PolicyIsWithin ==
  ASSUME NEW s \in Sessions, PlanIsLegal(s.plan), s.plan.limit > 0,
         NEW view \in Views, NEW p \in ParamSets
  PROVE  /\ PolicyDecides(s, view, p) \in Nat
         /\ PolicyDecides(s, view, p) # 0 => PolicyDecides(s, view, p) <= Remaining(s)
<1> DEFINE Within(x) == x \in Nat /\ (x # 0 => x <= Remaining(s))
<1>1. /\ s.plan.target \in Nat /\ s.plan.start \in Nat /\ s.plan.deadline \in Nat
      /\ s.plan.benchmark \in Nat /\ s.filled \in Nat /\ s.plan.deadline > s.plan.start
      /\ Remaining(s) \in Int /\ view.now \in Nat /\ view.volume \in Nat /\ view.reference \in Int
  BY SessionFields DEF Views, PlanIsLegal
<1>2. PPM \in Nat /\ PPM > 0 /\ FloorShare \in Int /\ Tolerance \in Nat /\ Tolerance > 0
      /\ MinimumMultiplier \in Int
  BY RealismAssumption, SessionAssumption
<1>3. p.slices \in Nat /\ p.slices > 0 /\ p.participation \in Nat /\ PPM - p.participation \in Nat
      /\ PPM - p.participation > 0
  BY <1>2, ParamsAssumption
<1>4. \A due \in Int : Within(Child(s, view, due))
  BY ChildIsWithin
<1>5. Within(0)
  OBVIOUS
<1>6. Within(Twap(s, view, p.slices))
  <2> DEFINE duration == s.plan.deadline - s.plan.start
             a == (view.now - s.plan.start) * p.slices
             slot == Min({p.slices, a \div duration + 1})
             b == -(s.plan.target * slot)
             due == CeilDiv(s.plan.target * slot, p.slices) - s.filled
  <2>1. duration \in Nat /\ duration > 0
    BY <1>1
  <2>2. a \in Int
    BY <1>1, <1>3, IntProduct
  <2>3. slot \in Int
    <3> HIDE DEF a, duration
    <3>1. a \div duration \in Int
      BY <2>1, <2>2, IntDiv
    <3>2. QED
      BY <1>3, <3>1, MinOfTwo
  <2>4. due \in Int
    <3> HIDE DEF slot
    <3>1. s.plan.target * slot \in Int
      <4> DEFINE target == s.plan.target
      <4>1. target \in Int
        BY <1>1
      <4> HIDE DEF target
      <4>2. target * slot \in Int
        BY <2>3, <4>1
      <4>3. QED
        BY <4>2 DEF target
    <3>2. b \in Int
      BY <3>1
    <3>3. CeilDiv(s.plan.target * slot, p.slices) = -(b \div p.slices)
      BY DEF CeilDiv
    <3> HIDE DEF b
    <3>4. b \div p.slices \in Int
      BY <1>3, <3>2, IntDiv
    <3>5. QED
      BY <1>1, <3>3, <3>4
  <2>5. Twap(s, view, p.slices) = IF due <= 0 THEN 0 ELSE Child(s, view, due)
    BY DEF Twap
  <2> HIDE DEF due, Within
  <2>6. QED
    BY <1>4, <1>5, <2>4, <2>5
<1>7. Progress(s.plan, view.now) \in Int
  <2> DEFINE a == (view.now - s.plan.start) * PPM
             b == s.plan.deadline - s.plan.start
  <2>1. a \in Int /\ b \in Nat /\ b > 0
    BY <1>1, <1>2, IntProduct
  <2>2. Progress(s.plan, view.now) = IF view.now >= s.plan.deadline THEN PPM ELSE a \div b
    BY DEF Progress
  <2> HIDE DEF a, b
  <2>3. QED
    BY <1>2, <2>1, <2>2, IntDiv
<1>8. AdverseMultiplier(s, view) \in Int
  <2> DEFINE move == view.reference - s.plan.benchmark
             a == (move * PPM) \div Tolerance
             pressure == Min({PPM, a})
             b == Ppm(pressure, PPM - Progress(s.plan, view.now))
  <2>1. move \in Int
    BY <1>1
  <2>2. a \in Int
    <3> HIDE DEF move
    <3>1. move * PPM \in Int
      BY <1>2, <2>1, IntProduct
    <3>2. QED
      BY <1>2, <3>1, IntDiv
  <2>3. pressure \in Int
    <3> HIDE DEF a
    <3>1. QED
      BY <1>2, <2>2, MinOfTwo
  <2>4. b \in Int
    <3> HIDE DEF pressure
    <3>1. PPM - Progress(s.plan, view.now) \in Int
      BY <1>2, <1>7
    <3>2. QED
      BY <2>3, <3>1, PpmIsInt
  <2>5. AdverseMultiplier(s, view) = IF move <= 0 THEN PPM ELSE Max({MinimumMultiplier, PPM - b})
    BY DEF AdverseMultiplier
  <2> HIDE DEF b, move
  <2>6. PPM - b \in Int
    BY <1>2, <2>4
  <2>7. Max({MinimumMultiplier, PPM - b}) \in Int
    BY <1>2, <2>6, MaxOfTwo
  <2>8. QED
    BY <1>2, <2>5, <2>7
<1>9. Within(AdaptivePov(s, view, p.participation))
  <2> DEFINE flow == (view.volume * p.participation) \div (PPM - p.participation)
             floor == Ppm(Ppm(s.plan.target, Progress(s.plan, view.now)), FloorShare)
             desired == Min({s.plan.target, Max({flow, floor})})
             due == Ppm(desired - s.filled, AdverseMultiplier(s, view))
  <2>1. flow \in Int
    <3> DEFINE a == view.volume * p.participation
               b == PPM - p.participation
    <3>1. a \in Int /\ b \in Nat /\ b > 0
      BY <1>1, <1>3, IntProduct
    <3> HIDE DEF a, b
    <3>2. a \div b \in Int
      BY <3>1, IntDiv
    <3>3. QED
      BY <3>2 DEF a, b
  <2>2. floor \in Int
    <3>1. s.plan.target \in Int
      BY <1>1
    <3>2. Ppm(s.plan.target, Progress(s.plan, view.now)) \in Int
      BY <1>7, <3>1, PpmIsInt
    <3>3. QED
      BY <1>2, <3>2, PpmIsInt
  <2>3. desired \in Int
    <3> HIDE DEF flow, floor
    <3> DEFINE most == Max({flow, floor})
    <3>1. most \in Int
      BY <2>1, <2>2, MaxOfTwo
    <3>2. s.plan.target \in Int
      BY <1>1
    <3> HIDE DEF most
    <3>3. Min({s.plan.target, most}) \in Int
      BY <3>1, <3>2, MinOfTwo
    <3>4. QED
      BY <3>3 DEF most
  <2>4. due \in Int
    <3> HIDE DEF desired
    <3>1. desired - s.filled \in Int
      BY <1>1, <2>3
    <3>2. QED
      BY <1>8, <3>1, PpmIsInt
  <2>5. \/ AdaptivePov(s, view, p.participation) = Child(s, view, Remaining(s))
        \/ AdaptivePov(s, view, p.participation) = 0
        \/ AdaptivePov(s, view, p.participation) = Child(s, view, due)
    BY DEF AdaptivePov
  <2> HIDE DEF due, Within
  <2>6. QED
    BY <1>1, <1>4, <1>5, <2>4, <2>5
<1>10. \/ PolicyDecides(s, view, p) = 0
       \/ PolicyDecides(s, view, p) = Twap(s, view, p.slices)
       \/ PolicyDecides(s, view, p) = AdaptivePov(s, view, p.participation)
  BY DEF PolicyDecides
<1> HIDE DEF Within
<1>11. Within(PolicyDecides(s, view, p))
  BY <1>5, <1>6, <1>9, <1>10
<1>12. QED
  BY <1>11 DEF Within

\* A decision leaves a session, with no more under way than is left to buy.
LEMMA DecideIsWithin ==
  ASSUME NEW s \in Sessions, PlanIsLegal(s.plan), s.plan.limit > 0,
         NEW view \in Views, NEW p \in ParamSets, s.pending = 0
  PROVE  LET d == Decide(s, view, p)
         IN  /\ d \in Sessions
             /\ d.plan = s.plan /\ d.cash = s.cash /\ d.filled = s.filled /\ d.fills = s.fills
             /\ d.notBefore = s.notBefore /\ d.lastDecision = view.now
             /\ d.pending # 0 => /\ d.pending <= Remaining(s) /\ d.pendingAt = view.now
                                 /\ s.notBefore <= view.now
<1> DEFINE shares == IF WaitsForChild(s, view.now) THEN 0 ELSE PolicyDecides(s, view, p)
           d == Decide(s, view, p)
<1>1. shares \in Nat /\ (shares # 0 => shares <= Remaining(s) /\ ~WaitsForChild(s, view.now))
  BY PolicyIsWithin
<1>2. view.now \in Nat /\ s.notBefore \in Nat
  BY SessionFields DEF Views
<1>3. shares # 0 => s.notBefore <= view.now
  BY <1>1, <1>2 DEF WaitsForChild
<1>4. d = IF shares = 0 THEN [s EXCEPT !.lastDecision = view.now]
          ELSE [s EXCEPT !.lastDecision = view.now, !.pending = shares,
                         !.pendingAt = view.now, !.lastAction = view.now]
  BY DEF Decide
<1> HIDE DEF shares, d
<1>5. CASE shares = 0
  <2>1. d = [s EXCEPT !.lastDecision = view.now]
    BY <1>4, <1>5
  <2>2. d \in Sessions
    BY <1>2, <2>1 DEF Sessions
  <2>3. /\ d.plan = s.plan /\ d.cash = s.cash /\ d.filled = s.filled /\ d.fills = s.fills
        /\ d.notBefore = s.notBefore /\ d.lastDecision = view.now /\ d.pending = 0
    BY <2>1 DEF Sessions
  <2>4. QED
    BY <2>2, <2>3 DEF d
<1>6. CASE shares # 0
  <2>1. d = [s EXCEPT !.lastDecision = view.now, !.pending = shares,
                      !.pendingAt = view.now, !.lastAction = view.now]
    BY <1>4, <1>6
  <2>2. d \in Sessions
    BY <1>1, <1>2, <2>1 DEF Sessions
  <2>3. /\ d.plan = s.plan /\ d.cash = s.cash /\ d.filled = s.filled /\ d.fills = s.fills
        /\ d.notBefore = s.notBefore /\ d.lastDecision = view.now /\ d.pending = shares
        /\ d.pendingAt = view.now
    BY <2>1 DEF Sessions
  <2>4. QED
    BY <1>1, <1>3, <1>6, <2>2, <2>3 DEF d
<1>7. QED
  BY <1>5, <1>6

\* h is f followed by g.
Joins(n, m, f, g, h) ==
  /\ n \in Nat /\ m \in Nat
  /\ f \in [1 .. n -> Int] /\ g \in [1 .. m -> Int] /\ h \in [1 .. n + m -> Int]
  /\ \A i \in 1 .. n : h[i] = f[i]
  /\ \A i \in 1 .. m : h[n + i] = g[i]

\* Amounts that follow on each other add up.
LEMMA SumOfFollowing ==
  ASSUME NEW n, NEW m, NEW f, NEW g, NEW h, Joins(n, m, f, g, h)
  PROVE  SumFunction(h) = SumFunction(f) + SumFunction(g)
<1> DEFINE first(q, j) == [i \in 1 .. j |-> q[i]]
           upTo(q, j) == SumFunction(first(q, j))
           P == {j \in 0 .. m : /\ upTo(g, j) \in Int
                                /\ upTo(h, n + j) = SumFunction(f) + upTo(g, j)}
<1> SUFFICES ASSUME n \in Nat, m \in Nat, f \in [1 .. n -> Int], g \in [1 .. m -> Int],
                    h \in [1 .. n + m -> Int],
                    \A i \in 1 .. n : h[i] = f[i], \A i \in 1 .. m : h[n + i] = g[i]
             PROVE  SumFunction(h) = SumFunction(f) + SumFunction(g)
  BY DEF Joins
<1>1. \A j \in 0 .. m : first(g, j) \in [1 .. j -> Int] /\ first(h, n + j) \in [1 .. n + j -> Int]
  OBVIOUS
<1>2. SumFunction(f) \in Int
  <2>1. IsFiniteSet(1 .. n) /\ DOMAIN f = 1 .. n /\ \A i \in 1 .. n : f[i] \in Int
    BY FS_Interval
  <2>2. QED
    BY <2>1, SumOfAny DEF SumFunction
<1>3. 0 \in P
  <2>1. first(h, n + 0) = f
    OBVIOUS
  <2>2. upTo(g, 0) = 0
    <3> DEFINE e == first(g, 0)
    <3>1. DOMAIN e = {}
      OBVIOUS
    <3> HIDE DEF e
    <3>2. SumFunction(e) = 0
      BY <3>1, SumOfNone DEF SumFunction
    <3>3. QED
      BY <3>2 DEF e
  <2> HIDE DEF first
  <2>3. upTo(h, n + 0) = SumFunction(f) + upTo(g, 0)
    BY <1>2, <2>1, <2>2
  <2> HIDE DEF upTo
  <2>4. QED
    BY <2>2, <2>3
<1>4. ASSUME NEW j \in 0 .. m - 1, j \in P PROVE j + 1 \in P
  <2>1. /\ j \in Nat /\ j \in 0 .. m /\ j + 1 \in 0 .. m /\ j + 1 \in 1 .. m
        /\ n + j \in Nat /\ n + (j + 1) = (n + j) + 1
    OBVIOUS
  <2> DEFINE a == first(g, j)
             b == first(g, j + 1)
             c == first(h, n + j)
             d == first(h, (n + j) + 1)
  <2>2. /\ a \in [1 .. j -> Int] /\ b \in [1 .. j + 1 -> Int]
        /\ c \in [1 .. n + j -> Int] /\ d \in [1 .. (n + j) + 1 -> Int]
    BY <1>1, <2>1
  <2>3. /\ \A i \in 1 .. j : b[i] = a[i]
        /\ \A i \in 1 .. n + j : d[i] = c[i]
    OBVIOUS
  <2>4. d[(n + j) + 1] = b[j + 1]
    <3>1. d[(n + j) + 1] = h[n + (j + 1)] /\ b[j + 1] = g[j + 1]
      BY <2>1
    <3> HIDE DEF b, d
    <3>2. QED
      BY <2>1, <3>1
  <2>5. b[j + 1] \in Int
    BY <2>2
  <2>6. n + (j + 1) = (n + j) + 1
    BY <2>1
  <2> HIDE DEF a, b, c, d, first
  <2>7. SumFunction(b) = SumFunction(a) + b[j + 1]
    BY <2>1, <2>2, <2>3, SumOfAppended
  <2>8. SumFunction(d) = SumFunction(c) + d[(n + j) + 1]
    BY <2>1, <2>2, <2>3, SumOfAppended
  <2>9. SumFunction(a) \in Int /\ SumFunction(c) = SumFunction(f) + SumFunction(a)
    BY <1>4 DEF a, c
  <2>10. SumFunction(b) \in Int /\ SumFunction(d) = SumFunction(f) + SumFunction(b)
    <3> DEFINE sa == SumFunction(a)
               sf == SumFunction(f)
               bj == b[j + 1]
    <3>1. sa \in Int /\ sf \in Int /\ bj \in Int
      BY <1>2, <2>5, <2>9
    <3>2. SumFunction(b) = sa + bj /\ SumFunction(d) = (sf + sa) + bj
      BY <2>4, <2>7, <2>8, <2>9
    <3> HIDE DEF sa, sf, bj
    <3>3. sa + bj \in Int /\ (sf + sa) + bj = sf + (sa + bj)
      BY <3>1
    <3>4. QED
      BY <3>2, <3>3 DEF sf
  <2>11. upTo(g, j + 1) \in Int /\ upTo(h, n + (j + 1)) = SumFunction(f) + upTo(g, j + 1)
    BY <2>6, <2>10 DEF b, d
  <2> HIDE DEF upTo
  <2>12. QED
    BY <2>1, <2>11
<1> HIDE DEF P
<1>5. \A j \in 0 .. m : j \in P
  BY <1>3, <1>4, IntervalInduction
<1>6. m \in 0 .. m /\ upTo(h, n + m) = SumFunction(f) + upTo(g, m)
  <2>1. m \in 0 .. m
    OBVIOUS
  <2>2. m \in P
    BY <1>5, <2>1
  <2>3. QED
    BY <2>1, <2>2 DEF P
<1>7. first(h, n + m) = h /\ first(g, m) = g
  OBVIOUS
<1>8. QED
  BY <1>6, <1>7

LEMMA TotalOfBoth ==
  ASSUME NEW a \in Seq(SliceTypes), NEW b \in Seq(SliceTypes)
  PROVE  /\ a \o b \in Seq(SliceTypes)
         /\ Total(a \o b, "size") = Total(a, "size") + Total(b, "size")
         /\ TotalCost(a \o b) = TotalCost(a) + TotalCost(b)
<1> DEFINE n == Len(a)
           m == Len(b)
           c == a \o b
<1>1. /\ n \in Nat /\ m \in Nat /\ DOMAIN a = 1 .. n /\ DOMAIN b = 1 .. m
      /\ c \in Seq(SliceTypes) /\ DOMAIN c = 1 .. n + m
      /\ \A i \in 1 .. n : c[i] = a[i]
      /\ \A i \in 1 .. m : c[n + i] = b[i]
  <2>1. n \in Nat /\ m \in Nat /\ DOMAIN a = 1 .. n /\ DOMAIN b = 1 .. m
    BY LenProperties
  <2>2. /\ c \in Seq(SliceTypes) /\ Len(c) = n + m
        /\ \A i \in 1 .. Len(c) : c[i] = IF i <= n THEN a[i] ELSE b[i - n]
    BY ConcatProperties
  <2>3. DOMAIN c = 1 .. n + m
    BY <2>2, LenProperties
  <2> HIDE DEF n, m, c
  <2>4. ASSUME NEW i \in 1 .. n PROVE c[i] = a[i]
    BY <2>1, <2>2
  <2>5. ASSUME NEW i \in 1 .. m PROVE c[n + i] = b[i]
    <3>1. n + i \in 1 .. Len(c) /\ ~(n + i <= n) /\ (n + i) - n = i
      BY <2>1, <2>2
    <3>2. QED
      BY <2>2, <3>1
  <2>6. QED
    BY <2>1, <2>2, <2>3, <2>4, <2>5 DEF c
<1> HIDE DEF n, m, c
<1>2. ASSUME NEW field \in {"size", "notional", "fee"}
      PROVE  Total(c, field) = Total(a, field) + Total(b, field)
  <2> DEFINE f == [i \in 1 .. n |-> a[i][field]]
             g == [i \in 1 .. m |-> b[i][field]]
             h == [i \in 1 .. n + m |-> c[i][field]]
  <2>1. /\ \A i \in 1 .. n : a[i][field] \in Int
        /\ \A i \in 1 .. m : b[i][field] \in Int
        /\ \A i \in 1 .. n + m : c[i][field] \in Int
    BY <1>1, SliceFields
  <2>2. f \in [1 .. n -> Int] /\ g \in [1 .. m -> Int] /\ h \in [1 .. n + m -> Int]
    BY <2>1
  <2>3. \A i \in 1 .. n : h[i] = f[i]
    <3>1. ASSUME NEW i \in 1 .. n PROVE i \in 1 .. n + m
      BY <1>1
    <3>2. QED
      BY <1>1, <3>1
  <2>4. \A i \in 1 .. m : h[n + i] = g[i]
    <3>1. ASSUME NEW i \in 1 .. m PROVE n + i \in 1 .. n + m
      BY <1>1
    <3>2. QED
      BY <1>1, <3>1
  <2>5. /\ Total(a, field) = SumFunction(f) /\ Total(b, field) = SumFunction(g)
        /\ Total(c, field) = SumFunction(h)
    BY <1>1 DEF Total
  <2> HIDE DEF f, g, h
  <2>6. Joins(n, m, f, g, h)
    BY <1>1, <2>2, <2>3, <2>4 DEF Joins
  <2>7. SumFunction(h) = SumFunction(f) + SumFunction(g)
    BY <2>6, SumOfFollowing
  <2>8. QED
    BY <2>5, <2>7
<1>3. /\ Total(a, "notional") \in Nat /\ Total(b, "notional") \in Nat
      /\ Total(a, "fee") \in Nat /\ Total(b, "fee") \in Nat
  BY TotalIsNat
<1>4. /\ Total(c, "notional") = Total(a, "notional") + Total(b, "notional")
      /\ Total(c, "fee") = Total(a, "fee") + Total(b, "fee")
      /\ Total(c, "size") = Total(a, "size") + Total(b, "size")
  BY <1>2
<1>5. TotalCost(c) = TotalCost(a) + TotalCost(b)
  BY <1>3, <1>4 DEF TotalCost
<1>6. QED
  BY <1>1, <1>4, <1>5 DEF c

Refusals == {"none", "parent_deadline_elapsed", "market_closed_at_arrival",
             "insufficient_available_cash", "no_book_at_arrival", "book_state_uncertain"}

SentOrder ==
  [kind : {"entry", "stop_loss", "take_profit", "flatten"}, side : Side, token : TapeTokens,
   decision : Nat, arrival : Nat, row : Nat, requested : Nat, refused : Refusals,
   slices : Seq(SliceTypes)]

\* What recording an outcome leaves of a session.
LEMMA RecordIsWithin ==
  ASSUME NEW s \in Sessions, NEW o \in SentOrder
  PROVE  LET r == RecordOutcome(s, o)
         IN  /\ r \in Sessions
             /\ r.plan = s.plan /\ r.lastDecision = s.lastDecision
             /\ r.cash = s.cash - TotalCost(o.slices)
             /\ r.filled = s.filled + Total(o.slices, "size")
             /\ r.fills = s.fills \o o.slices
             /\ r.pending = 0
             /\ s.notBefore <= r.notBefore /\ o.arrival <= r.notBefore
             /\ r.notBefore \in {s.notBefore, o.arrival}
<1> DEFINE r == RecordOutcome(s, o)
           later == Max({s.notBefore, o.arrival})
           cost == TotalCost(o.slices)
           size == Total(o.slices, "size")
           fills == s.fills \o o.slices
<1>1. o.slices \in Seq(SliceTypes) /\ o.arrival \in Nat
  BY DEF SentOrder
<1>2. /\ s.cash \in Int /\ s.filled \in Nat /\ s.fills \in Seq(SliceTypes) /\ s.notBefore \in Nat
  BY SessionFields
<1>3. cost \in Nat /\ size \in Nat /\ fills \in Seq(SliceTypes)
  BY <1>1, <1>2, TotalIsNat, TotalOfBoth
<1>4. later \in Int /\ later = IF s.notBefore >= o.arrival THEN s.notBefore ELSE o.arrival
  BY <1>1, <1>2, MaxOfTwo
<1>5. r = [s EXCEPT !.cash = s.cash - cost, !.filled = s.filled + size, !.fills = fills,
                    !.notBefore = later, !.pending = 0, !.pendingAt = None]
  BY DEF RecordOutcome, Sessions
<1> HIDE DEF r, later, cost, size, fills
<1>6. later \in Nat /\ s.notBefore <= later /\ o.arrival <= later
      /\ later \in {s.notBefore, o.arrival}
  BY <1>1, <1>2, <1>4
<1>7. s.cash - cost \in Int /\ s.filled + size \in Nat
  <2>1. s.cash \in Int /\ s.filled \in Nat
    BY SessionFields
  <2>2. cost \in Nat /\ size \in Nat
    BY <1>3
  <2>3. QED
    BY <2>1, <2>2
<1>8. r \in Sessions
  BY <1>3, <1>5, <1>6, <1>7 DEF Sessions
<1>9. /\ r.plan = s.plan /\ r.lastDecision = s.lastDecision
      /\ r.cash = s.cash - cost /\ r.filled = s.filled + size /\ r.fills = fills
      /\ r.pending = 0 /\ r.notBefore = later
  BY <1>5 DEF Sessions
<1>10. QED
  BY <1>6, <1>8, <1>9 DEF r, cost, size, fills

-----------------------------------------------------------------------------
(* The types of the variables *)

Phases == {"rows", "decisions", "child", "sold", "settled", "illegal", "raised"}

InParent == phase \in {"decisions", "child"}

EpisodeType ==
  /\ episode \in DOMAIN Recordings /\ tape = Build(Recordings[episode])
  /\ params \in ParamSets
  /\ wallet \in {NoWallet} \cup Wallets /\ (wallet # NoWallet => params.notional # None)

TradeType ==
  /\ position \in [shares : Nat, cost : Nat, token : TapeTokens, effective : Nat]
  /\ entries \in Nat /\ nextEntry \in Nat /\ debited \in Nat

ExitType ==
  /\ stop \in [active : BOOLEAN, deadline : {None} \cup Nat, attempts : Nat]
  /\ attempted \in SUBSET {"take_profit", "flatten"}
  /\ reason \in {"no_entry", "settlement", "stop_unfilled_held_to_settlement",
                 "stop_loss", "take_profit", "flatten"}

ResultType ==
  result \in [exitShares : Nat, exitNotional : Nat, fees : Nat, payout : Nat,
              net : Int, objective : Int]

ImpactType == IsTaken(consumed) /\ cursor \in [TapeTokens -> Nat]

\* A parent under way is that of the row the scan stands at.
ParentType ==
  InParent => /\ InEpisode
              /\ PlanIsLegal(session.plan) /\ session.plan.limit = params.limit
              /\ session.plan.start = Row.at /\ session.plan.deadline = Deadline
              /\ session.plan.start <= now

TypeOK ==
  /\ EpisodeType /\ TradeType /\ ExitType /\ ImpactType /\ ResultType
  /\ phase \in Phases /\ index \in Nat \ {0} /\ now \in Nat
  /\ session \in Sessions /\ orders \in Seq(SentOrder)
  /\ ParentType

LEMMA TapeIsTyped ==
  ASSUME EpisodeType
  PROVE  /\ IsRecording(Recordings[episode])
         /\ tape.rows \in Seq(TapeRow)
         /\ Len(tape.rows) \in Nat /\ DOMAIN tape.rows = 1 .. Len(tape.rows)
<1>1. IsRecording(Recordings[episode]) /\ tape = Build(Recordings[episode])
  BY EpisodeAssumption DEF EpisodeType
<1>2. tape.rows \in Seq(TapeRow)
  BY <1>1, BuildFields
<1>3. QED
  BY <1>1, <1>2, RowFields

LEMMA RowIsTape ==
  ASSUME EpisodeType, index \in Nat \ {0}, InEpisode
  PROVE  /\ index \in 1 .. Len(tape.rows)
         /\ Row \in TapeRow /\ Row.at \in Nat /\ Row.token \in TapeTokens
         /\ Row.at <= EpisodeEnd
         /\ Row.bids \in Seq(Level) /\ Row.asks \in Seq(Level)
<1>1. index \in 1 .. Len(tape.rows) /\ Row.at <= EpisodeEnd
  BY TapeIsTyped DEF InEpisode
<1>2. QED
  BY <1>1, TapeIsTyped, RowFields DEF Row

LEMMA BestIsPrice ==
  ASSUME NEW ladder \in Seq(Level)
  PROVE  /\ Best(ladder) \in {None} \cup Price
         /\ Best(ladder) = None <=> ladder = << >>
<1>1. CASE ladder = << >>
  BY <1>1 DEF Best
<1>2. CASE ladder # << >>
  <2>1. Len(ladder) \in Nat /\ DOMAIN ladder = 1 .. Len(ladder)
    BY LenProperties
  <2>2. Len(ladder) # 0
    BY <1>2, EmptySeq
  <2>3. 1 \in DOMAIN ladder
    BY <2>1, <2>2
  <2>4. ladder[1].price \in Price
    BY <2>3, LadderFields
  <2>5. ladder[1].price # None
    BY <2>4, PriceIsNat
  <2>6. QED
    BY <1>2, <2>4, <2>5 DEF Best
<1>3. QED
  BY <1>1, <1>2

\* What the scenario and the parameters are.
LEMMA ParamFields ==
  ASSUME EpisodeType
  PROVE  /\ EntryTo \in Nat /\ EpisodeEnd \in Nat /\ EpisodeEnd > 0 /\ TapeEnd \in Nat
         /\ EpisodeEnd < TapeEnd /\ Unbounded \in Nat /\ EntryFrom \in Nat
         /\ params.trigger \in Price /\ params.limit \in Nat /\ params.limit > 0
         /\ params.shares \in {None} \cup Nat /\ params.notional \in {None} \cup Nat
         /\ params.shares = None => params.notional \in Nat
         /\ params.notional = None => params.shares \in Nat
         /\ params.stopFraction \in Nat /\ params.stopFraction <= PPM
         /\ params.tpFraction \in Nat /\ params.tpFraction <= PPM
         /\ params.cooldown \in Nat /\ params.retries \in Nat /\ params.retryInterval \in Nat
         /\ params.horizon \in Nat
         /\ params.partial \in BOOLEAN
         /\ wallet.early \in Nat /\ wallet.late \in Nat
<1>1. /\ EntryTo \in Nat /\ EpisodeEnd \in Nat /\ EpisodeEnd > 0 /\ TapeEnd \in Nat
      /\ EpisodeEnd < TapeEnd /\ Unbounded \in Nat /\ EntryFrom \in Nat
  BY EpisodeAssumption, TapeAssumption
<1>2. params \in ParamSets
  BY DEF EpisodeType
<1>3. PPM \in Nat /\ PriceScale \in Nat
  BY RealismAssumption, PriceScaleAssumption
<1>4. /\ params.trigger \in Price /\ params.limit \in params.trigger .. PriceScale
      /\ params.shares \in {None} \cup (Nat \ {0}) /\ params.notional \in {None} \cup (Nat \ {0})
      /\ (params.shares = None) # (params.notional = None)
      /\ params.stopFraction \in 1 .. PPM /\ params.tpFraction \in 1 .. PPM
      /\ params.cooldown \in Nat /\ params.retries \in Nat /\ params.retryInterval \in Nat
      /\ params.horizon \in Nat /\ params.partial \in BOOLEAN
  BY <1>2, ParamsAssumption
<1>5. params.limit \in Nat /\ params.limit > 0
  BY <1>3, <1>4, PriceIsNat
<1>6. wallet.early \in Nat /\ wallet.late \in Nat
  BY EpisodeAssumption DEF EpisodeType, NoWallet
<1>7. /\ params.stopFraction \in Nat /\ params.stopFraction <= PPM
      /\ params.tpFraction \in Nat /\ params.tpFraction <= PPM
  BY <1>3, <1>4
<1>8. /\ params.shares \in {None} \cup Nat /\ params.notional \in {None} \cup Nat
      /\ params.shares = None => params.notional \in Nat
      /\ params.notional = None => params.shares \in Nat
  BY <1>4
<1>9. QED
  BY <1>1, <1>4, <1>5, <1>6, <1>7, <1>8

\* What is forgotten of the depth own fills have taken: only the levels that
\* a row of the token states between the cursor and the arrival.
LEMMA ReplenishedIs ==
  ASSUME ImpactType, NEW token \in TapeTokens, NEW row \in Nat
  PROVE  LET after == Replenished(token, row)
         IN  /\ IsTaken(after.consumed) /\ after.cursor \in [TapeTokens -> Nat]
             /\ \A t \in TapeTokens : t # token => after.cursor[t] = cursor[t]
             /\ row <= after.cursor[token] /\ cursor[token] <= after.cursor[token]
             /\ \A key : \/ TakenFrom(after.consumed, key) = TakenFrom(consumed, key)
                         \/ /\ key.token = token
                            /\ \E i \in cursor[token] + 1 .. row : Restates(tape.rows[i], key)
<1> DEFINE after == Replenished(token, row)
           gone == RestatedUpTo(token, row)
           kept == Restrict(consumed, DOMAIN consumed \ gone)
<1>1. IsTaken(consumed) /\ cursor \in [TapeTokens -> Nat] /\ cursor[token] \in Nat
  BY DEF ImpactType
<1>2. CASE row <= cursor[token]
  <2>1. after = [consumed |-> consumed, cursor |-> cursor]
    BY <1>2 DEF Replenished
  <2>2. QED
    BY <1>1, <1>2, <2>1
<1>3. CASE ~(row <= cursor[token])
  <2>1. after = [consumed |-> kept, cursor |-> [cursor EXCEPT ![token] = row]]
    BY <1>3 DEF Replenished
  <2>2. kept = [key \in DOMAIN consumed \ gone |-> consumed[key]]
    BY DEF Restrict
  <2>3. \A key \in gone :
          /\ key.token = token
          /\ \E i \in cursor[token] + 1 .. row : Restates(tape.rows[i], key)
    BY DEF RestatedUpTo
  <2> HIDE DEF after, gone, kept
  <2>4. IsTaken(kept)
    BY <1>1, <2>2 DEF IsTaken
  <2>5. ASSUME NEW key, key \notin gone
        PROVE  TakenFrom(kept, key) = TakenFrom(consumed, key)
    BY <2>2, <2>5 DEF TakenFrom
  <2>6. row <= after.cursor[token] /\ cursor[token] <= after.cursor[token]
    BY <1>1, <1>3, <2>1
  <2>7. /\ after.cursor \in [TapeTokens -> Nat]
        /\ \A t \in TapeTokens : t # token => after.cursor[t] = cursor[t]
    BY <1>1, <2>1
  <2>8. after.consumed = kept
    BY <2>1
  <2>9. QED
    BY <2>3, <2>4, <2>5, <2>6, <2>7, <2>8 DEF after
<1>4. QED
  BY <1>2, <1>3

-----------------------------------------------------------------------------
(* What becomes of an order *)

\* What an order that fills has met.
Meets(o, row) ==
  /\ o.deadline # None => o.arrival <= o.deadline
  /\ o.arrival < EpisodeEnd
  /\ o.side = "BUY" => o.cash > 0 /\ (o.spend # None => o.spend <= o.cash)
  /\ row # 0
  /\ Realism.requireValid => tape.rows[row].valid /\ ~IsUncertain(tape, o.token, o.arrival)

LEMMA NotRefusedMeets ==
  ASSUME EpisodeType, NEW o, IsRequest(o), NEW row, Refused(o, row) = "none"
  PROVE  Meets(o, row)
<1>1. /\ o.arrival \in Nat /\ o.side \in {"BUY", "SELL"} /\ o.deadline \in {None} \cup Nat
      /\ o.spend \in {None} \cup Nat /\ (o.side = "BUY" => o.cash \in Nat)
  BY DEF IsRequest, Request, Side
<1>2. EpisodeEnd \in Nat
  BY EpisodeAssumption
<1>3. /\ ~(o.deadline # None /\ o.arrival > o.deadline)
      /\ ~(o.arrival >= EpisodeEnd)
      /\ ~(o.side = "BUY" /\ (o.cash <= 0 \/ (o.spend # None /\ o.cash < o.spend)))
      /\ ~(row = 0)
      /\ ~(Realism.requireValid /\ (~tape.rows[row].valid \/ IsUncertain(tape, o.token, o.arrival)))
  BY DEF Refused
<1>4. o.deadline # None => o.arrival <= o.deadline
  BY <1>1, <1>3
<1>5. o.arrival < EpisodeEnd
  BY <1>1, <1>2, <1>3
<1>6. o.side = "BUY" => o.cash > 0 /\ (o.spend # None => o.spend <= o.cash)
  BY <1>1, <1>3
<1>7. QED
  BY <1>3, <1>4, <1>5, <1>6 DEF Meets

LEMMA RefusedIsKnown ==
  ASSUME NEW o, NEW row
  PROVE  Refused(o, row) \in Refusals
BY DEF Refused, Refusals

\* The depth that a fill met, and what it took of it.
Takes(o, x) ==
  LET row    == RowAt(tape, o.token, o.arrival)
      after  == Replenished(o.token, row)
      ladder == TakerLadder(tape.rows[row], o.side)
  IN  /\ Meets(o, row)
      /\ Follows(x.order.slices, LeftOf(ladder, o.token, BookSide(o.side), after.consumed))
      /\ x.consumed = TakenWith(after.consumed, o.token, BookSide(o.side), x.order.slices)
      /\ x.cursor = after.cursor

LEMMA OutcomeIs ==
  ASSUME EpisodeType, ImpactType, index \in Nat, NEW o, IsRequest(o)
  PROVE  LET x == Outcome(o)
         IN  /\ x.order \in SentOrder
             /\ x.order.kind = o.kind /\ x.order.side = o.side /\ x.order.token = o.token
             /\ x.order.decision = o.decision /\ x.order.arrival = o.arrival
             /\ x.order.row = index
             /\ o.side # "BUY" \/ o.spend = None => x.order.requested = o.shares
             /\ Total(x.order.slices, "size") <= x.order.requested
             /\ o.side = "BUY" =>
                  TotalCost(x.order.slices) <= (IF o.spend # None THEN o.spend ELSE o.cash)
             /\ IsTaken(x.consumed) /\ x.cursor \in [TapeTokens -> Nat]
             /\ \/ x.order.slices = << >> /\ x.consumed = consumed /\ x.cursor = cursor
                \/ Takes(o, x)
<1> DEFINE row     == RowAt(tape, o.token, o.arrival)
           refused == Refused(o, row)
           after   == Replenished(o.token, row)
           side    == BookSide(o.side)
           shown   == TakerLadder(tape.rows[row], o.side)
           ladder  == LeftOf(shown, o.token, side, after.consumed)
           met     == SlicesOf(o, ladder, o.arrival - tape.rows[row].at)
           x       == Outcome(o)
<1>1. /\ o.arrival \in Nat /\ o.decision \in Nat /\ o.token \in TapeTokens /\ o.side \in Side
      /\ o.kind \in {"entry", "stop_loss", "take_profit", "flatten"}
      /\ o.shares \in Nat /\ o.spend \in {None} \cup Nat /\ (o.side = "BUY" => o.cash \in Nat)
  BY DEF IsRequest, Request
<1>2. refused \in Refusals /\ "none" \in Refusals
  BY RefusedIsKnown DEF Refusals
<1>3. side \in Side
  BY DEF BookSide, Side
<1>4. CASE refused # "none"
  <2>1. x = [order |-> Sent(o, o.shares, refused, << >>), consumed |-> consumed, cursor |-> cursor]
    BY <1>4 DEF Outcome
  <2>2. << >> \in Seq(SliceTypes)
    BY EmptySeq
  <2>3. Sent(o, o.shares, refused, << >>) \in SentOrder
    BY <1>1, <1>2, <2>2 DEF Sent, SentOrder
  <2>4. Total(<< >>, "size") = 0 /\ TotalCost(<< >>) = 0
    BY TotalOfNone
  <2> DEFINE e == Sent(o, o.shares, refused, << >>)
  <2>5. /\ e.kind = o.kind /\ e.side = o.side /\ e.token = o.token /\ e.decision = o.decision
        /\ e.arrival = o.arrival /\ e.row = index /\ e.requested = o.shares /\ e.slices = << >>
    BY DEF Sent
  <2>6. x.order = e /\ x.consumed = consumed /\ x.cursor = cursor
    BY <2>1
  <2> HIDE DEF x, e, refused
  <2>7. /\ Total(x.order.slices, "size") <= x.order.requested
        /\ o.side = "BUY" =>
             TotalCost(x.order.slices) <= (IF o.spend # None THEN o.spend ELSE o.cash)
    BY <1>1, <2>4, <2>5, <2>6
  <2>8. QED
    BY <2>3, <2>5, <2>6, <2>7 DEF x, e, ImpactType
<1>5. CASE refused = "none"
  <2>1. Meets(o, row)
    BY <1>5, NotRefusedMeets
  <2>2. tape.rows \in Seq(TapeRow)
    BY TapeIsTyped
  <2>3. row \in 1 .. Len(tape.rows) /\ row \in Nat
    BY <1>1, <2>1, <2>2, RowAtIsLast, RowFields DEF Meets
  <2>4. shown \in Seq(Level)
    BY <2>2, <2>3, RowFields DEF TakerLadder
  <2>5. IsTaken(after.consumed) /\ after.cursor \in [TapeTokens -> Nat]
    BY <1>1, <2>3, ReplenishedIs
  <2>6. ladder \in Seq(Level)
    <3> HIDE DEF shown, after, side
    <3>1. QED
      BY <2>4, <2>5, LeftOfIsPart
  <2> DEFINE e == Sent(o, met.requested, "none", met.slices)
             taken == TakenWith(after.consumed, o.token, side, met.slices)
  <2>7. x = [order |-> e, consumed |-> taken, cursor |-> after.cursor]
    <3>1. x = CHOOSE y \in {[order |-> Sent(o, m.requested, "none", m.slices),
               consumed |-> TakenWith(after.consumed, o.token, side, m.slices),
               cursor |-> after.cursor] : m \in {met}} : TRUE
      BY <1>5 DEF Outcome
    <3> HIDE DEF x, met, after, side
    <3>2. QED
      BY <3>1
  <2>8. /\ met.requested \in Nat
        /\ met.slices \in Seq(SliceTypes)
        /\ Total(met.slices, "size") <= met.requested
        /\ o.side # "BUY" \/ o.spend = None => met.requested = o.shares
        /\ o.side = "BUY" => TotalCost(met.slices) <= (IF o.spend # None THEN o.spend ELSE o.cash)
        /\ Follows(met.slices, ladder)
    <3> HIDE DEF ladder, row
    <3>1. QED
      BY <2>6, SlicesAreWithin
  <2> HIDE DEF met
  <2>9. /\ e.kind = o.kind /\ e.side = o.side /\ e.token = o.token /\ e.decision = o.decision
        /\ e.arrival = o.arrival /\ e.row = index /\ e.requested = met.requested
        /\ e.slices = met.slices
    BY DEF Sent
  <2>10. e \in SentOrder
    BY <1>1, <1>2, <2>8 DEF Sent, SentOrder
  <2>11. IsTaken(taken)
    <3> HIDE DEF after, side
    <3>1. QED
      BY <1>1, <1>3, <2>5, <2>8, TakenWithIsTaken
  <2>12. x.order = e /\ x.consumed = taken /\ x.cursor = after.cursor
    BY <2>7
  <2> HIDE DEF x, e
  <2>13. Takes(o, x)
    BY <2>1, <2>8, <2>9, <2>12 DEF Takes
  <2> HIDE DEF taken, ladder, after
  <2>14. QED
    BY <2>5, <2>8, <2>9, <2>10, <2>11, <2>12, <2>13 DEF x
<1>6. QED
  BY <1>4, <1>5

-----------------------------------------------------------------------------
(* The orders that are sent *)

LEMMA LatencyIsNat ==
  ASSUME NEW latency \in Latencies
  PROVE  latency \in Nat
<1>1. \A l \in Realism.latencies : l \in Nat
  BY RealismAssumption
<1>2. TakerDelay \in Nat
  BY EpisodeAssumption
<1>3. QED
  BY <1>1, <1>2 DEF Latencies

\* What an exit asks for is part of what is held.
LEMMA ExitIsPart ==
  ASSUME EpisodeType, TradeType, index \in Nat \ {0}, InEpisode, ExitFor # NoExit
  PROVE  /\ ExitFor.kind \in {"stop_loss", "take_profit", "flatten"}
         /\ ExitFor.shares \in Nat /\ ExitFor.shares <= position.shares
<1> DEFINE exit(kind, shares) == IF shares > 0 THEN [kind |-> kind, shares |-> shares] ELSE NoExit
           all == position.shares
           stopped == Ppm(all, params.stopFraction)
           taken == Ppm(all, params.tpFraction)
<1>1. all \in Nat
  BY DEF TradeType
<1>2. PPM \in Nat /\ PPM > 0
  BY RealismAssumption
<1>3. stopped \in Nat /\ stopped <= all
  BY <1>1, <1>2, ParamFields, PartIsLess DEF Ppm
<1>4. taken \in Nat /\ taken <= all
  BY <1>1, <1>2, ParamFields, PartIsLess DEF Ppm
<1>5. ExitFor \in {exit("stop_loss", all), exit("flatten", all), NoExit,
                   exit("stop_loss", stopped), exit("take_profit", taken)}
  BY DEF ExitFor
<1> HIDE DEF stopped, taken, all
<1>6. ASSUME NEW kind \in {"stop_loss", "take_profit", "flatten"}, NEW shares \in Nat, shares <= all,
             ExitFor = exit(kind, shares)
      PROVE  ExitFor.kind = kind /\ ExitFor.shares = shares
  BY <1>6
<1>7. all <= all
  BY <1>1
<1>8. CASE ExitFor = exit("stop_loss", all)
  BY <1>1, <1>6, <1>7, <1>8 DEF all
<1>9. CASE ExitFor = exit("flatten", all)
  BY <1>1, <1>6, <1>7, <1>9 DEF all
<1>10. CASE ExitFor = exit("stop_loss", stopped)
  BY <1>3, <1>6, <1>10 DEF all
<1>11. CASE ExitFor = exit("take_profit", taken)
  BY <1>4, <1>6, <1>11 DEF all
<1>12. QED
  BY <1>5, <1>8, <1>9, <1>10, <1>11

LEMMA ExitIsRequest ==
  ASSUME EpisodeType, TradeType, index \in Nat \ {0}, InEpisode, ExitFor # NoExit,
         NEW latency \in Latencies
  PROVE  LET o == Exit(latency)
         IN  /\ IsRequest(o)
             /\ o.kind # "entry" /\ o.kind \in {"stop_loss", "take_profit", "flatten"}
             /\ o.side = "SELL" /\ o.token = Row.token
             /\ o.shares <= position.shares
             /\ o.decision = Row.at /\ o.arrival \in Nat /\ Row.at <= o.arrival
<1>1. latency \in Nat
  BY LatencyIsNat
<1>2. Row.at \in Nat /\ Row.token \in TapeTokens
  BY RowIsTape
<1>3. /\ ExitFor.kind \in {"stop_loss", "take_profit", "flatten"}
      /\ ExitFor.shares \in Nat /\ ExitFor.shares <= position.shares
  BY ExitIsPart
<1> DEFINE o == Exit(latency)
<1>4. /\ o.kind = ExitFor.kind /\ o.side = "SELL" /\ o.token = Row.token
      /\ o.shares = ExitFor.shares /\ o.decision = Row.at /\ o.arrival = Row.at + latency
  BY DEF Exit
<1>5. Row.at + latency \in Nat /\ Row.at <= Row.at + latency
  BY <1>1, <1>2
<1>6. None \in Int
  BY DEF None
<1>7. o \in Request
  BY <1>2, <1>3, <1>5, <1>6 DEF Exit, Request, Side
<1>8. QED
  BY <1>3, <1>4, <1>5, <1>7 DEF IsRequest

LEMMA CashIsNat ==
  ASSUME EpisodeType, TradeType, NEW t
  PROVE  /\ CashAt(t) \in Nat
         /\ wallet # NoWallet =>
              CashAt(t) <= (IF t < wallet.from THEN wallet.early ELSE wallet.late)
         /\ wallet # NoWallet /\ debited = 0 =>
              CashAt(t) = (IF t < wallet.from THEN wallet.early ELSE wallet.late)
<1> DEFINE external == IF wallet # NoWallet THEN (IF t < wallet.from THEN wallet.early ELSE wallet.late)
                       ELSE IF params.notional # None THEN params.notional ELSE Unbounded
<1>1. external \in Nat
  BY ParamFields
<1>2. debited \in Nat
  BY DEF TradeType
<1>3. CashAt(t) = Max({0, external - debited})
  BY DEF CashAt
<1>4. wallet # NoWallet => external = (IF t < wallet.from THEN wallet.early ELSE wallet.late)
  OBVIOUS
<1> HIDE DEF external
<1>5. external - debited \in Int
  BY <1>1, <1>2
<1>6. CashAt(t) = IF 0 >= external - debited THEN 0 ELSE external - debited
  BY <1>3, <1>5, MaxOfTwo
<1>7. CashAt(t) \in Nat /\ CashAt(t) <= external /\ (debited = 0 => CashAt(t) = external)
  BY <1>1, <1>2, <1>6
<1>8. QED
  BY <1>4, <1>7

\* The budget of an entry is never more than the notional asked for.
LEMMA SpendIsWithin ==
  ASSUME EpisodeType, TradeType
  PROVE  /\ EntrySpend \in {None} \cup Nat
         /\ params.notional = None => EntrySpend = None
         /\ params.notional # None => EntrySpend \in Nat /\ EntrySpend <= params.notional
<1>1. CashAt(Row.at) \in Nat
  BY CashIsNat
<1>2. params.notional \in {None} \cup Nat
  BY ParamFields
<1>3. QED
  BY <1>1, <1>2 DEF EntrySpend, CashLimited

LEMMA EntryIsRequest ==
  ASSUME EpisodeType, TradeType, index \in Nat \ {0}, InEpisode, Signal,
         NEW latency \in Latencies
  PROVE  LET o == Entry(latency)
         IN  /\ IsRequest(o)
             /\ o.kind = "entry" /\ o.side = "BUY" /\ o.token = Row.token
             /\ o.spend = EntrySpend /\ o.cash = CashAt(o.arrival)
             /\ o.decision = Row.at /\ o.arrival \in Nat /\ Row.at <= o.arrival
<1>1. latency \in Nat
  BY LatencyIsNat
<1>2. Row.at \in Nat /\ Row.token \in TapeTokens /\ Row.asks \in Seq(Level)
  BY RowIsTape
<1>3. EntrySpend \in {None} \cup Nat /\ CashAt(Row.at + latency) \in Nat
  BY SpendIsWithin, CashIsNat
<1>4. Best(Row.asks) \in Nat /\ Best(Row.asks) > 0
  BY <1>2, BestIsPrice, PriceIsNat DEF Signal
<1> DEFINE shares == IF params.shares # None THEN params.shares
                     ELSE (params.notional * PriceScale) \div Best(Row.asks)
           o == Entry(latency)
<1>5. shares \in Nat
  <2>1. PriceScale \in Nat
    BY PriceScaleAssumption
  <2>2. CASE params.shares # None
    BY <2>2, ParamFields
  <2>3. CASE params.shares = None
    <3>1. params.notional * PriceScale \in Nat
      BY <2>1, <2>3, ParamFields, ProductIsNat
    <3>2. QED
      BY <1>4, <2>3, <3>1, QuotientIsNat
  <2>4. QED
    BY <2>2, <2>3
<1>6. /\ o.kind = "entry" /\ o.side = "BUY" /\ o.token = Row.token /\ o.spend = EntrySpend
      /\ o.cash = CashAt(Row.at + latency) /\ o.decision = Row.at
      /\ o.arrival = Row.at + latency
  BY DEF Entry
<1>7. Row.at + latency \in Nat /\ Row.at <= Row.at + latency
  BY <1>1, <1>2
<1>8. params.limit \in Int /\ (~params.partial) \in BOOLEAN
  BY ParamFields
<1>9. o = [kind |-> "entry", side |-> "BUY", token |-> Row.token, decision |-> Row.at,
           arrival |-> Row.at + latency, shares |-> shares, spend |-> EntrySpend,
           cash |-> CashAt(Row.at + latency), full |-> ~params.partial, limit |-> params.limit,
           deadline |-> None]
  BY DEF Entry
<1> HIDE DEF shares, o
<1>10. o \in Request
  BY <1>2, <1>3, <1>5, <1>7, <1>8, <1>9 DEF Request, Side
<1>11. QED
  BY <1>3, <1>6, <1>7, <1>10 DEF IsRequest, o

\* What is left of the budget and of the wallet at a child's arrival.
LEMMA ChildCashIs ==
  ASSUME EpisodeType, TradeType, session \in Sessions, session.cash >= 0, NEW t
  PROVE  /\ ChildCash(t) \in Nat /\ ChildCash(t) <= session.cash
         /\ ChildCash(t) > 0 => ChildCash(t) + TotalCost(session.fills) <= CashAt(t)
<1> DEFINE cost == TotalCost(session.fills)
           rest == Max({0, CashAt(t) - cost})
<1>1. CashAt(t) \in Nat
  BY CashIsNat
<1>2. session.cash \in Int /\ session.fills \in Seq(SliceTypes)
  BY SessionFields
<1>3. cost \in Nat
  BY <1>2, TotalIsNat
<1>4. ChildCash(t) = Min({session.cash, rest})
  BY DEF ChildCash
<1> HIDE DEF cost
<1>5. CashAt(t) - cost \in Int
  BY <1>1, <1>3
<1>6. rest \in Int /\ rest = IF 0 >= CashAt(t) - cost THEN 0 ELSE CashAt(t) - cost
  BY <1>5, MaxOfTwo
<1> HIDE DEF rest
<1>7. ChildCash(t) = IF session.cash <= rest THEN session.cash ELSE rest
  BY <1>2, <1>4, <1>6, MinOfTwo
<1>8. ChildCash(t) \in Nat /\ ChildCash(t) <= session.cash
      /\ (ChildCash(t) > 0 => ChildCash(t) + cost <= CashAt(t))
  BY <1>1, <1>2, <1>3, <1>6, <1>7
<1>9. QED
  BY <1>8 DEF cost

LEMMA ChildIsRequest ==
  ASSUME EpisodeType, TradeType, index \in Nat \ {0}, InEpisode, now \in Nat,
         session \in Sessions, session.cash >= 0,
         NEW latency \in Latencies
  PROVE  LET o == ChildOrder(latency)
         IN  /\ IsRequest(o)
             /\ o.kind = "entry" /\ o.side = "BUY" /\ o.token = Row.token
             /\ o.spend = None /\ o.cash = ChildCash(o.arrival) /\ o.shares = session.pending
             /\ o.deadline = session.plan.deadline /\ o.deadline # None
             /\ o.decision = now /\ o.arrival \in Nat /\ now <= o.arrival
<1>1. latency \in Nat
  BY LatencyIsNat
<1>2. Row.token \in TapeTokens
  BY RowIsTape
<1>3. /\ session.plan.deadline \in Nat /\ session.pending \in Nat
      /\ ChildCash(now + latency) \in Nat
  BY SessionFields, ChildCashIs
<1>4. session.plan.deadline # None /\ None \in Int
  BY <1>3 DEF None
<1> DEFINE o == ChildOrder(latency)
<1>5. /\ o.kind = "entry" /\ o.side = "BUY" /\ o.token = Row.token /\ o.spend = None
      /\ o.cash = ChildCash(now + latency) /\ o.decision = now
      /\ o.arrival = now + latency /\ o.shares = session.pending
      /\ o.deadline = session.plan.deadline
  BY DEF ChildOrder
<1>6. now + latency \in Nat /\ now <= now + latency
  BY <1>1
<1>7. params.limit \in Int
  BY ParamFields
<1>8. o \in Request
  BY <1>2, <1>3, <1>4, <1>6, <1>7 DEF ChildOrder, Request, Side
<1>9. QED
  BY <1>3, <1>4, <1>5, <1>6, <1>8 DEF IsRequest

-----------------------------------------------------------------------------
(* What has been sent, and what it adds up to *)

SizeIn(sent, S) == SumFunction([i \in S |-> Total(sent[i].slices, "size")])

CostIn(sent, S) == SumFunction([i \in S |-> TotalCost(sent[i].slices)])

Sales == {i \in DOMAIN orders : orders[i].kind # "entry"}

Bought == {i \in Filled : orders[i].kind = "entry"}

LEMMA SentFields ==
  ASSUME NEW sent \in Seq(SentOrder)
  PROVE  /\ Len(sent) \in Nat /\ DOMAIN sent = 1 .. Len(sent) /\ IsFiniteSet(DOMAIN sent)
         /\ \A i \in 1 .. Len(sent) :
              /\ sent[i] \in SentOrder
              /\ sent[i].slices \in Seq(SliceTypes) /\ sent[i].arrival \in Nat
              /\ sent[i].decision \in Nat /\ sent[i].row \in Nat
              /\ sent[i].token \in TapeTokens /\ sent[i].side \in Side
<1>1. Len(sent) \in Nat /\ DOMAIN sent = 1 .. Len(sent)
  BY LenProperties
<1>2. \A i \in 1 .. Len(sent) : sent[i] \in SentOrder
  BY ElementOfSeq
<1>3. IsFiniteSet(DOMAIN sent)
  BY <1>1, FS_Interval
<1>4. QED
  BY <1>1, <1>2, <1>3 DEF SentOrder

LEMMA SumsInAreNat ==
  ASSUME NEW sent \in Seq(SentOrder), NEW S \in SUBSET DOMAIN sent
  PROVE  SizeIn(sent, S) \in Nat /\ CostIn(sent, S) \in Nat /\ IsFiniteSet(S)
<1> DEFINE size == [i \in S |-> Total(sent[i].slices, "size")]
           cost == [i \in S |-> TotalCost(sent[i].slices)]
<1>1. IsFiniteSet(S)
  BY SentFields, FS_Subset
<1>2. \A i \in S : size[i] \in Nat /\ cost[i] \in Nat
  <2>1. ASSUME NEW i \in S PROVE sent[i].slices \in Seq(SliceTypes)
    BY SentFields
  <2>2. ASSUME NEW i \in S
        PROVE  Total(sent[i].slices, "size") \in Nat /\ TotalCost(sent[i].slices) \in Nat
    BY <2>1, TotalIsNat
  <2>3. QED
    BY <2>2
<1>3. SizeIn(sent, S) = SumFunctionOnSet(size, S) /\ CostIn(sent, S) = SumFunctionOnSet(cost, S)
  BY DEF SizeIn, CostIn, SumFunction
<1> HIDE DEF size, cost
<1>4. SumFunctionOnSet(size, S) \in Nat /\ SumFunctionOnSet(cost, S) \in Nat
  BY <1>1, <1>2, SumIsNat
<1>5. QED
  BY <1>1, <1>3, <1>4

LEMMA NothingIn ==
  ASSUME NEW sent
  PROVE  SizeIn(sent, {}) = 0 /\ CostIn(sent, {}) = 0
<1> DEFINE size == [i \in {} |-> Total(sent[i].slices, "size")]
           cost == [i \in {} |-> TotalCost(sent[i].slices)]
<1>1. SizeIn(sent, {}) = SumFunctionOnSet(size, {}) /\ CostIn(sent, {}) = SumFunctionOnSet(cost, {})
  BY DEF SizeIn, CostIn, SumFunction
<1>2. QED
  BY <1>1, SumOfNone

\* One more order: the earlier ones and their sums stay.
LEMMA SentGrows ==
  ASSUME NEW sent \in Seq(SentOrder), NEW o \in SentOrder
  PROVE  LET more == Append(sent, o)
             n    == Len(sent)
         IN  /\ more \in Seq(SentOrder) /\ Len(more) = n + 1 /\ DOMAIN more = 1 .. n + 1
             /\ more[n + 1] = o /\ \A i \in 1 .. n : more[i] = sent[i]
             /\ \A S \in SUBSET (1 .. n) :
                  /\ SizeIn(more, S) = SizeIn(sent, S)
                  /\ CostIn(more, S) = CostIn(sent, S)
                  /\ SizeIn(more, S \cup {n + 1}) = SizeIn(sent, S) + Total(o.slices, "size")
                  /\ CostIn(more, S \cup {n + 1}) = CostIn(sent, S) + TotalCost(o.slices)
<1> DEFINE more == Append(sent, o)
           n == Len(sent)
<1>1. n \in Nat /\ DOMAIN sent = 1 .. n
  BY SentFields
<1>2. /\ more \in Seq(SentOrder) /\ Len(more) = n + 1 /\ more[n + 1] = o
      /\ \A i \in 1 .. n : more[i] = sent[i]
  BY AppendProperties
<1>3. DOMAIN more = 1 .. n + 1
  BY <1>2, LenProperties
<1> HIDE DEF more, n
<1>4. ASSUME NEW S \in SUBSET (1 .. n)
      PROVE  /\ SizeIn(more, S) = SizeIn(sent, S)
             /\ CostIn(more, S) = CostIn(sent, S)
             /\ SizeIn(more, S \cup {n + 1}) = SizeIn(sent, S) + Total(o.slices, "size")
             /\ CostIn(more, S \cup {n + 1}) = CostIn(sent, S) + TotalCost(o.slices)
  <2> DEFINE R == S \cup {n + 1}
             size(q, T) == [i \in T |-> Total(q[i].slices, "size")]
             cost(q, T) == [i \in T |-> TotalCost(q[i].slices)]
  <2>1. IsFiniteSet(S) /\ n + 1 \notin S
    <3>1. S \in SUBSET DOMAIN sent
      BY <1>1
    <3>2. IsFiniteSet(S)
      BY <3>1, SumsInAreNat
    <3>3. n + 1 \notin 1 .. n
      BY <1>1
    <3>4. QED
      BY <3>2, <3>3
  <2>2. IsFiniteSet(R)
    BY <2>1, FS_AddElement
  <2>3. ASSUME NEW i \in R
        PROVE  Total(more[i].slices, "size") \in Nat /\ TotalCost(more[i].slices) \in Nat
    <3>1. i \in 1 .. n + 1
      BY <1>1
    <3>2. more[i].slices \in Seq(SliceTypes)
      BY <1>2, <3>1, SentFields
    <3>3. QED
      BY <3>2, TotalIsNat
  <2>4. \A i \in S : /\ size(more, S)[i] = size(sent, S)[i] /\ cost(more, S)[i] = cost(sent, S)[i]
                     /\ size(more, R)[i] = size(sent, S)[i] /\ cost(more, R)[i] = cost(sent, S)[i]
    BY <1>2
  <2>5. /\ size(more, R)[n + 1] = Total(o.slices, "size")
        /\ cost(more, R)[n + 1] = TotalCost(o.slices)
    BY <1>2
  <2>6. \A i \in S \cup {n + 1} : size(more, R)[i] \in Int /\ cost(more, R)[i] \in Int
    BY <2>3
  <2>7. \A q, T : /\ SizeIn(q, T) = SumFunctionOnSet(size(q, T), T)
                  /\ CostIn(q, T) = SumFunctionOnSet(cost(q, T), T)
    BY DEF SizeIn, CostIn, SumFunction
  <2>8. /\ SizeIn(more, S) = SumFunctionOnSet(size(more, S), S)
        /\ CostIn(more, S) = SumFunctionOnSet(cost(more, S), S)
        /\ SizeIn(sent, S) = SumFunctionOnSet(size(sent, S), S)
        /\ CostIn(sent, S) = SumFunctionOnSet(cost(sent, S), S)
        /\ SizeIn(more, R) = SumFunctionOnSet(size(more, R), S \cup {n + 1})
        /\ CostIn(more, R) = SumFunctionOnSet(cost(more, R), S \cup {n + 1})
    BY <2>7
  <2> DEFINE sm == size(more, S)
             cm == cost(more, S)
             ss == size(sent, S)
             cs == cost(sent, S)
             sr == size(more, R)
             cr == cost(more, R)
  <2> HIDE DEF sm, cm, ss, cs, sr, cr
  <2>9. /\ \A i \in S : sm[i] = ss[i] /\ cm[i] = cs[i] /\ sr[i] = ss[i] /\ cr[i] = cs[i]
        /\ \A i \in S \cup {n + 1} : sr[i] \in Int /\ cr[i] \in Int
        /\ sr[n + 1] = Total(o.slices, "size") /\ cr[n + 1] = TotalCost(o.slices)
    BY <2>4, <2>5, <2>6 DEF sm, cm, ss, cs, sr, cr
  <2>10. /\ SumFunctionOnSet(sm, S) = SumFunctionOnSet(ss, S)
         /\ SumFunctionOnSet(cm, S) = SumFunctionOnSet(cs, S)
         /\ SumFunctionOnSet(sr, S) = SumFunctionOnSet(ss, S)
         /\ SumFunctionOnSet(cr, S) = SumFunctionOnSet(cs, S)
    BY <2>1, <2>9, SumOfEqual
  <2>11. /\ SumFunctionOnSet(sr, S \cup {n + 1}) = sr[n + 1] + SumFunctionOnSet(sr, S)
         /\ SumFunctionOnSet(cr, S \cup {n + 1}) = cr[n + 1] + SumFunctionOnSet(cr, S)
    BY <2>1, <2>9, SumOfMore
  <2>12. /\ SumFunctionOnSet(ss, S) \in Int /\ SumFunctionOnSet(cs, S) \in Int
         /\ sr[n + 1] \in Int /\ cr[n + 1] \in Int
    <3>1. \A i \in S : ss[i] \in Int /\ cs[i] \in Int
      BY <2>9
    <3>2. QED
      BY <2>1, <2>9, <3>1, SumOfAny
  <2>13. /\ SizeIn(more, S) = SumFunctionOnSet(sm, S) /\ CostIn(more, S) = SumFunctionOnSet(cm, S)
         /\ SizeIn(sent, S) = SumFunctionOnSet(ss, S) /\ CostIn(sent, S) = SumFunctionOnSet(cs, S)
         /\ SizeIn(more, R) = SumFunctionOnSet(sr, S \cup {n + 1})
         /\ CostIn(more, R) = SumFunctionOnSet(cr, S \cup {n + 1})
    BY <2>8 DEF sm, cm, ss, cs, sr, cr
  <2>14. QED
    BY <2>9, <2>10, <2>11, <2>12, <2>13
<1>5. QED
  BY <1>2, <1>3, <1>4 DEF more, n

\* What one more order does to what has been filled, sold and bought.
LEMMA LogIs ==
  ASSUME orders \in Seq(SentOrder), NEW o \in SentOrder, orders' = Append(orders, o)
  PROVE  LET n == Len(orders)
         IN  /\ orders' \in Seq(SentOrder)
             /\ n \in Nat /\ Len(orders') = n + 1
             /\ DOMAIN orders = 1 .. n /\ DOMAIN orders' = 1 .. n + 1
             /\ orders'[n + 1] = o /\ \A i \in 1 .. n : orders'[i] = orders[i]
             /\ Filled' = Filled \cup (IF o.slices # << >> THEN {n + 1} ELSE {})
             /\ Sales' = Sales \cup (IF o.kind # "entry" THEN {n + 1} ELSE {})
             /\ Bought' = Bought \cup (IF o.kind = "entry" /\ o.slices # << >> THEN {n + 1} ELSE {})
             /\ Filled \in SUBSET (1 .. n) /\ Sales \in SUBSET (1 .. n) /\ Bought \in SUBSET (1 .. n)
             /\ SizeIn(orders', Sales') = SizeIn(orders, Sales)
                  + (IF o.kind # "entry" THEN Total(o.slices, "size") ELSE 0)
             /\ SizeIn(orders', Bought') = SizeIn(orders, Bought)
                  + (IF o.kind = "entry" THEN Total(o.slices, "size") ELSE 0)
             /\ CostIn(orders', Bought') = CostIn(orders, Bought)
                  + (IF o.kind = "entry" THEN TotalCost(o.slices) ELSE 0)
             /\ Total(o.slices, "size") \in Nat /\ TotalCost(o.slices) \in Nat
             /\ o.slices = << >> => Total(o.slices, "size") = 0 /\ TotalCost(o.slices) = 0
             /\ o.slices # << >> => Total(o.slices, "size") > 0
             /\ SizeIn(orders, Sales) \in Nat /\ SizeIn(orders, Bought) \in Nat
             /\ CostIn(orders, Bought) \in Nat
<1> DEFINE n == Len(orders)
<1>1. n \in Nat /\ DOMAIN orders = 1 .. n
  BY SentFields
<1>2. /\ orders' \in Seq(SentOrder) /\ Len(orders') = n + 1 /\ DOMAIN orders' = 1 .. n + 1
      /\ orders'[n + 1] = o /\ \A i \in 1 .. n : orders'[i] = orders[i]
      /\ \A S \in SUBSET (1 .. n) :
           /\ SizeIn(orders', S) = SizeIn(orders, S)
           /\ CostIn(orders', S) = CostIn(orders, S)
           /\ SizeIn(orders', S \cup {n + 1}) = SizeIn(orders, S) + Total(o.slices, "size")
           /\ CostIn(orders', S \cup {n + 1}) = CostIn(orders, S) + TotalCost(o.slices)
  BY SentGrows
<1> HIDE DEF n
<1>3. 1 .. n + 1 = (1 .. n) \cup {n + 1} /\ n + 1 \notin 1 .. n
  BY <1>1
<1>4. /\ Filled' = Filled \cup (IF o.slices # << >> THEN {n + 1} ELSE {})
      /\ Filled \in SUBSET (1 .. n)
  BY <1>1, <1>2, <1>3 DEF Filled
<1>5. /\ Sales' = Sales \cup (IF o.kind # "entry" THEN {n + 1} ELSE {})
      /\ Sales \in SUBSET (1 .. n)
  BY <1>1, <1>2, <1>3 DEF Sales
<1>6. /\ Bought' = Bought \cup (IF o.kind = "entry" /\ o.slices # << >> THEN {n + 1} ELSE {})
      /\ Bought \in SUBSET (1 .. n)
  <2>1. Bought' = {i \in Filled' : orders'[i].kind = "entry"}
    BY DEF Bought
  <2>2. \A i \in Filled : orders'[i].kind = orders[i].kind
    BY <1>2, <1>4
  <2>3. orders'[n + 1].kind = o.kind
    BY <1>2
  <2>4. Bought = {i \in Filled : orders[i].kind = "entry"}
    BY DEF Bought
  <2>5. QED
    BY <1>4, <2>1, <2>2, <2>3, <2>4
<1>7. /\ Total(o.slices, "size") \in Nat /\ TotalCost(o.slices) \in Nat
      /\ o.slices = << >> => Total(o.slices, "size") = 0 /\ TotalCost(o.slices) = 0
      /\ o.slices # << >> => Total(o.slices, "size") > 0
  <2>1. o.slices \in Seq(SliceTypes)
    BY DEF SentOrder
  <2>2. QED
    BY <2>1, TotalIsNat, TotalOfNone
<1>8. /\ SizeIn(orders, Sales) \in Nat /\ SizeIn(orders, Bought) \in Nat
      /\ CostIn(orders, Bought) \in Nat
  BY <1>1, <1>5, <1>6, SumsInAreNat
<1>9. SizeIn(orders', Sales') = SizeIn(orders, Sales)
        + (IF o.kind # "entry" THEN Total(o.slices, "size") ELSE 0)
  <2>1. CASE o.kind # "entry"
    <3>1. Sales' = Sales \cup {n + 1}
      BY <1>5, <2>1
    <3>2. QED
      BY <1>2, <1>5, <2>1, <3>1
  <2>2. CASE o.kind = "entry"
    <3>1. Sales' = Sales
      BY <1>5, <2>2
    <3>2. SizeIn(orders', Sales') = SizeIn(orders, Sales)
      BY <1>2, <1>5, <3>1
    <3>3. QED
      BY <1>8, <2>2, <3>2
  <2>3. QED
    BY <2>1, <2>2
<1>10. /\ SizeIn(orders', Bought') = SizeIn(orders, Bought)
            + (IF o.kind = "entry" THEN Total(o.slices, "size") ELSE 0)
       /\ CostIn(orders', Bought') = CostIn(orders, Bought)
            + (IF o.kind = "entry" THEN TotalCost(o.slices) ELSE 0)
  <2>1. CASE o.kind = "entry" /\ o.slices # << >>
    <3>1. Bought' = Bought \cup {n + 1}
      BY <1>6, <2>1
    <3>2. QED
      BY <1>2, <1>6, <2>1, <3>1
  <2>2. CASE ~(o.kind = "entry" /\ o.slices # << >>)
    <3>1. Bought' = Bought
      BY <1>6, <2>2
    <3>2. /\ SizeIn(orders', Bought') = SizeIn(orders, Bought)
          /\ CostIn(orders', Bought') = CostIn(orders, Bought)
      BY <1>2, <1>6, <3>1
    <3>3. o.kind = "entry" => Total(o.slices, "size") = 0 /\ TotalCost(o.slices) = 0
      BY <1>7, <2>2
    <3>4. QED
      BY <1>8, <3>2, <3>3
  <2>3. QED
    BY <2>1, <2>2
<1>11. QED
  BY <1>1, <1>2, <1>4, <1>5, <1>6, <1>7, <1>8, <1>9, <1>10 DEF n

-----------------------------------------------------------------------------
(* The inductive invariant *)

\* The row under way has no orders but the children of its parent.
OrdersAreBehind ==
  \A i \in DOMAIN orders : orders[i].row <= index /\ (~InParent => orders[i].row < index)

\* Until an entry is held nothing has been sold or paid.
NothingBefore ==
  /\ InParent \/ (phase = "rows" /\ position.shares = 0) => Sales = {} /\ debited = 0
  /\ InParent => position.shares = 0 /\ \A i \in Filled : orders[i].row = index
  /\ phase = "rows" /\ position.shares = 0 => Filled = {}

\* What is held has arrived, and is what was bought and not sold.
PositionIsHeld ==
  phase = "rows" =>
    /\ \A i \in Filled \cup Sales : orders[i].arrival <= position.effective
    /\ SizeIn(orders, Bought) = SizeIn(orders, Sales) + position.shares

\* The session is what its children have made of the plan.
ParentIsSound ==
  InParent =>
    /\ session.cash >= 0 /\ session.filled <= session.plan.target
    /\ SizeIn(orders, Bought) = Total(session.fills, "size")
    /\ CostIn(orders, Bought) = TotalCost(session.fills)
    /\ session.fills = << >> => Filled = {}
    /\ params.notional # None => session.cash + TotalCost(session.fills) <= params.notional
    /\ session.lastDecision # None => session.lastDecision <= now
    /\ \A i \in DOMAIN orders : orders[i].row = index => orders[i].arrival <= session.notBefore
    /\ \A i \in Filled : orders[i].arrival <= session.plan.deadline

ChildIsSound ==
  /\ phase = "decisions" => session.pending = 0
  /\ phase = "child" => /\ session.pending > 0 /\ session.pending <= Remaining(session)
                        /\ session.pendingAt = now /\ session.notBefore <= now
                        /\ now <= session.plan.deadline

SentIsSound == EntriesAreFunded /\ NothingSoldBeforeItArrived

BInv ==
  /\ TypeOK
  /\ SessionNeverRaises /\ SentIsSound
  /\ OrdersAreBehind /\ NothingBefore /\ PositionIsHeld /\ ParentIsSound /\ ChildIsSound

LEMMA DeadlineIs ==
  ASSUME EpisodeType, index \in Nat \ {0}, InEpisode
  PROVE  Deadline \in Nat /\ Deadline < EpisodeEnd /\ Deadline < TapeEnd
<1> DEFINE S == {EntryTo, EpisodeEnd - 1, Row.at + params.horizon}
<1>1. /\ EntryTo \in Nat /\ EpisodeEnd \in Nat /\ EpisodeEnd > 0 /\ EpisodeEnd < TapeEnd
      /\ TapeEnd \in Nat /\ params.horizon \in Nat /\ Row.at \in Nat
  BY ParamFields, RowIsTape
<1>2. S \in SUBSET Nat /\ EpisodeEnd - 1 \in S /\ S # {}
  BY <1>1
<1>3. IsFiniteSet(S)
  <2>1. IsFiniteSet({EntryTo}) /\ IsFiniteSet({EpisodeEnd - 1})
        /\ IsFiniteSet({Row.at + params.horizon})
    BY FS_Singleton
  <2>2. S = ({EntryTo} \cup {EpisodeEnd - 1}) \cup {Row.at + params.horizon}
    OBVIOUS
  <2> HIDE DEF S
  <2>3. IsFiniteSet({EntryTo} \cup {EpisodeEnd - 1})
    BY <2>1, FS_Union
  <2>4. IsFiniteSet(({EntryTo} \cup {EpisodeEnd - 1}) \cup {Row.at + params.horizon})
    BY <2>1, <2>3, FS_Union
  <2>5. QED
    BY <2>2, <2>4
<1>4. Deadline = Min(S)
  BY DEF Deadline
<1> HIDE DEF S
<1>5. S \in SUBSET Int
  BY <1>2
<1>6. Min(S) \in S /\ \A x \in S : Min(S) <= x
  BY <1>2, <1>3, <1>5, MinIsLeast
<1>7. Min(S) \in Nat /\ Min(S) <= EpisodeEnd - 1
  BY <1>2, <1>6
<1>8. QED
  BY <1>1, <1>4, <1>7

\* The child clock never runs back.
LEMMA TickIsLater ==
  ASSUME EpisodeType, session \in Sessions, session.plan.deadline < TapeEnd,
         now \in Nat, now <= session.plan.deadline, Tick
  PROVE  now' \in Nat /\ now < now'
<1> DEFINE s == session.plan.start
           d == session.plan.deadline
           later == {t \in DecisionTimes : t > now}
           S == {TapeEnd} \cup later
<1>1. s \in Nat /\ d \in Nat /\ TapeEnd \in Nat
  BY SessionFields, ParamFields
<1>2. DecisionTimes \subseteq (s .. d) \cup {s, d}
  BY DEF DecisionTimes
<1> HIDE DEF s, d
<1>3. IsFiniteSet((s .. d) \cup {s, d})
  <2>1. IsFiniteSet(s .. d)
    BY <1>1, FS_Interval
  <2>2. IsFiniteSet({s, d})
    <3>1. IsFiniteSet({s}) /\ IsFiniteSet({d}) /\ {s, d} = {s} \cup {d}
      BY FS_Singleton
    <3>2. QED
      BY <3>1, FS_Union
  <2>3. QED
    BY <2>1, <2>2, FS_Union
<1>4. later \in SUBSET ((s .. d) \cup {s, d})
  BY <1>2
<1>5. IsFiniteSet(later)
  BY <1>3, <1>4, FS_Subset
<1>6. IsFiniteSet(S)
  <2>1. IsFiniteSet({TapeEnd})
    BY FS_EmptySet, FS_AddElement
  <2>2. QED
    BY <1>5, <2>1, FS_Union
<1>7. \A t \in S : t \in Nat /\ t > now
  <2>1. \A t \in later : t \in Nat /\ t > now
    BY <1>1, <1>4
  <2>2. TapeEnd > now
    BY <1>1 DEF d
  <2>3. QED
    BY <1>1, <2>1, <2>2
<1>8. now' = Min(S) /\ S # {}
  BY DEF Tick
<1> HIDE DEF S
<1>9. S \in SUBSET Int
  BY <1>7
<1>10. Min(S) \in S
  BY <1>6, <1>8, <1>9, MinIsLeast
<1>11. QED
  BY <1>7, <1>8, <1>10

LEMMA NothingSent ==
  ASSUME UNCHANGED orders
  PROVE  /\ Filled' = Filled /\ Sales' = Sales /\ Bought' = Bought
         /\ SizeIn(orders, Bought)' = SizeIn(orders, Bought)
         /\ SizeIn(orders, Sales)' = SizeIn(orders, Sales)
         /\ CostIn(orders, Bought)' = CostIn(orders, Bought)
<1>1. Filled' = Filled /\ Sales' = Sales
  BY DEF Filled, Sales
<1>2. Bought' = Bought
  BY <1>1 DEF Bought
<1>3. QED
  BY <1>1, <1>2

LEMMA SentStays ==
  ASSUME SentIsSound, UNCHANGED <<orders, params, wallet>>
  PROVE  SentIsSound'
<1>1. Filled' = Filled
  BY NothingSent
<1>2. EntriesAreFunded'
  BY <1>1 DEF SentIsSound, EntriesAreFunded
<1>3. NothingSoldBeforeItArrived'
  <2> DEFINE sound(j) ==
        /\ \A i \in 1 .. j - 1 :
             i \in Filled \cup Sales \/ orders[i].row = orders[j].row
               => orders[i].arrival <= orders[j].decision
        /\ j \in Sales =>
             SizeIn(orders, Sales)
               <= SizeIn(orders, {k \in Filled \ Sales : orders[k].arrival <= orders[j].decision})
  <2>1. \A j \in DOMAIN orders : j = Len(orders) => sound(j)
    BY DEF SentIsSound, NothingSoldBeforeItArrived, SizeIn, Sales
  <2>2. Sales' = Sales
    BY NothingSent
  <2>3. SUFFICES ASSUME NEW j \in DOMAIN orders', j = Len(orders')
                 PROVE  /\ \A i \in 1 .. j - 1 :
                             i \in Filled' \cup Sales' \/ orders'[i].row = orders'[j].row
                               => orders'[i].arrival <= orders'[j].decision
                        /\ j \in Sales' =>
                             SizeIn(orders', Sales')
                               <= SizeIn(orders', {k \in Filled' \ Sales' :
                                                     orders'[k].arrival <= orders'[j].decision})
    BY DEF NothingSoldBeforeItArrived, SizeIn, Sales
  <2>4. j \in DOMAIN orders /\ j = Len(orders)
    BY <2>3
  <2>5. sound(j)
    BY <2>1, <2>4
  <2>6. QED
    BY <1>1, <2>2, <2>5
<1>4. QED
  BY <1>2, <1>3 DEF SentIsSound

\* The sums that the properties speak of.
LEMMA FundedAgain ==
  ASSUME orders \in Seq(SentOrder), NEW o \in SentOrder, orders' = Append(orders, o),
         o.kind = "entry" /\ o.slices # << >> =>
           /\ params'.notional # None => CostIn(orders', Bought') <= params'.notional
           /\ wallet' # NoWallet =>
                CostIn(orders', Bought') <= (IF o.arrival < wallet'.from THEN wallet'.early
                                             ELSE wallet'.late)
  PROVE  EntriesAreFunded'
<1> DEFINE n == Len(orders)
<1>1. /\ Len(orders') = n + 1 /\ orders'[n + 1] = o
      /\ Filled' = Filled \cup (IF o.slices # << >> THEN {n + 1} ELSE {})
      /\ n \in Nat /\ Filled \in SUBSET (1 .. n)
  BY LogIs
<1>2. SUFFICES ASSUME NEW i \in Filled', i = Len(orders'), orders'[i].kind = "entry"
               PROVE  /\ params'.notional # None => CostIn(orders', Bought') <= params'.notional
                      /\ wallet' # NoWallet =>
                           CostIn(orders', Bought')
                             <= (IF orders'[i].arrival < wallet'.from THEN wallet'.early
                                 ELSE wallet'.late)
  BY DEF EntriesAreFunded, CostIn, Bought
<1> HIDE DEF n
<1>3. i = n + 1 /\ orders'[i] = o
  BY <1>1, <1>2
<1>4. o.slices # << >> /\ o.kind = "entry"
  BY <1>1, <1>2, <1>3
<1>5. QED
  BY <1>3, <1>4

LEMMA OrderedAgain ==
  ASSUME orders \in Seq(SentOrder), NEW o \in SentOrder, orders' = Append(orders, o),
         \A i \in DOMAIN orders :
           i \in Filled \cup Sales \/ orders[i].row = o.row => orders[i].arrival <= o.decision,
         o.kind # "entry" => SizeIn(orders', Sales') <= SizeIn(orders, Bought)
  PROVE  NothingSoldBeforeItArrived'
<1> DEFINE n == Len(orders)
           had == {k \in Filled' \ Sales' : orders'[k].arrival <= o.decision}
<1>1. /\ Len(orders') = n + 1 /\ orders'[n + 1] = o
      /\ DOMAIN orders = 1 .. n /\ DOMAIN orders' = 1 .. n + 1
      /\ \A i \in 1 .. n : orders'[i] = orders[i]
      /\ Filled' = Filled \cup (IF o.slices # << >> THEN {n + 1} ELSE {})
      /\ Sales' = Sales \cup (IF o.kind # "entry" THEN {n + 1} ELSE {})
      /\ n \in Nat /\ Filled \in SUBSET (1 .. n) /\ Bought \in SUBSET (1 .. n)
      /\ Sales \in SUBSET (1 .. n)
  BY LogIs
<1> HIDE DEF n
<1>2. \A i \in 1 .. n : /\ i # n + 1
                        /\ i \in Filled' \cup Sales' => i \in Filled \cup Sales
  BY <1>1
<1>3. ASSUME o.kind # "entry"
      PROVE  had = Bought
  <2>1. n + 1 \in Sales'
    BY <1>1, <1>3
  <2>2. \A i \in 1 .. n : (i \in Filled' \ Sales') = (i \in Bought)
    BY <1>1, <1>2 DEF Bought, Sales
  <2>3. \A i \in Bought : i \in Filled /\ orders'[i].arrival <= o.decision
    BY <1>1 DEF Bought
  <2>4. \A i \in had : i \in 1 .. n
    BY <1>1, <2>1
  <2>5. QED
    BY <1>1, <2>2, <2>3, <2>4
<1>4. SizeIn(orders', Bought) = SizeIn(orders, Bought)
  BY <1>1, SentGrows DEF n
<1>5. SUFFICES ASSUME NEW j \in DOMAIN orders', j = Len(orders')
               PROVE  /\ \A i \in 1 .. j - 1 :
                           i \in Filled' \cup Sales' \/ orders'[i].row = orders'[j].row
                             => orders'[i].arrival <= orders'[j].decision
                      /\ j \in Sales' =>
                           SizeIn(orders', Sales')
                             <= SizeIn(orders', {k \in Filled' \ Sales' :
                                                   orders'[k].arrival <= orders'[j].decision})
  BY DEF NothingSoldBeforeItArrived, SizeIn, Sales
<1>6. j = n + 1 /\ orders'[j] = o /\ 1 .. j - 1 = 1 .. n
  BY <1>1, <1>5
<1>7. \A i \in 1 .. j - 1 :
        i \in Filled' \cup Sales' \/ orders'[i].row = orders'[j].row
          => orders'[i].arrival <= orders'[j].decision
  BY <1>1, <1>2, <1>6
<1>8. ASSUME j \in Sales'
      PROVE  SizeIn(orders', Sales') <= SizeIn(orders', had)
  <2>1. o.kind # "entry"
    BY <1>1, <1>6, <1>8
  <2>2. QED
    BY <1>3, <1>4, <2>1
<1>9. QED
  BY <1>6, <1>7, <1>8

LEMMA InitInvariant ==
  ASSUME Init
  PROVE  BInv
<1>1. EpisodeType
  BY DEF Init, EpisodeType
<1>2. NoSession \in Sessions
  <2>1. << >> \in Seq(SliceTypes)
    BY EmptySeq
  <2>2. QED
    BY <2>1 DEF NoSession, NewSession, Sessions, Plans
<1>3. TypeOK
  <2>1. TradeType
    BY EpisodeAssumption DEF Init, TradeType
  <2>2. ExitType
    BY DEF Init, ExitType
  <2>3. ImpactType
    <3>1. DOMAIN consumed = {}
      BY DEF Init
    <3>2. consumed = [key \in DOMAIN consumed |-> consumed[key]]
      BY <3>1 DEF Init
    <3>3. QED
      BY <3>1, <3>2 DEF Init, ImpactType, IsTaken
  <2>4. ResultType
    BY DEF Init, ResultType
  <2>5. orders \in Seq(SentOrder)
    BY EmptySeq DEF Init
  <2>6. phase \in Phases /\ index \in Nat \ {0} /\ now \in Nat
    BY DEF Init, Phases
  <2>7. ParentType
    BY DEF Init, ParentType, InParent
  <2>8. QED
    BY <1>1, <1>2, <2>1, <2>2, <2>3, <2>4, <2>5, <2>6, <2>7 DEF TypeOK, Init
<1>4. DOMAIN orders = {} /\ Len(orders) = 0
  BY DEF Init
<1>5. Filled = {} /\ Sales = {} /\ Bought = {}
  BY <1>4 DEF Filled, Sales, Bought
<1>6. SentIsSound
  BY <1>4, <1>5 DEF SentIsSound, EntriesAreFunded, NothingSoldBeforeItArrived
<1>7. SizeIn(orders, Bought) = 0 /\ SizeIn(orders, Sales) = 0
  BY <1>5, NothingIn
<1>8. QED
  BY <1>3, <1>4, <1>5, <1>6, <1>7
  DEF Init, BInv, SessionNeverRaises, OrdersAreBehind, NothingBefore, PositionIsHeld,
      ParentIsSound, ChildIsSound, InParent

LEMMA SkipRowKeeps ==
  ASSUME BInv, SkipRow
  PROVE  BInv'
<1>1. /\ phase = "rows" /\ InEpisode /\ index' = index + 1
      /\ UNCHANGED <<outer, phase, now, trade, exits, impact, session, orders, result>>
  BY DEF SkipRow
<1>2. index \in Nat \ {0} /\ orders \in Seq(SentOrder)
  BY DEF BInv, TypeOK
<1>3. TypeOK'
  BY <1>1 DEF BInv, TypeOK, EpisodeType, TradeType, ExitType, ImpactType, ResultType, ParentType,
              InParent, outer, trade, exits, impact
<1>4. SentIsSound'
  BY <1>1, SentStays DEF BInv, outer
<1>5. OrdersAreBehind'
  <2>1. \A i \in DOMAIN orders : orders[i].row \in Nat
    BY <1>2, SentFields
  <2>2. QED
    BY <1>1, <1>2, <2>1 DEF BInv, OrdersAreBehind, InParent
<1>6. NothingBefore' /\ PositionIsHeld' /\ ParentIsSound' /\ ChildIsSound'
  BY <1>1, NothingSent DEF BInv, NothingBefore, PositionIsHeld, ParentIsSound, ChildIsSound,
                           InParent, trade
<1>7. QED
  BY <1>1, <1>3, <1>4, <1>5, <1>6 DEF BInv, SessionNeverRaises

LEMMA SendExitKeeps ==
  ASSUME BInv, SendExit
  PROVE  BInv'
<1>1. PICK latency \in Latencies : \E x \in {Outcome(Exit(latency))} :
         LET o    == x.order
             sold == Total(o.slices, "size")
             left == position.shares - sold
         IN  /\ Log(x)
             /\ position' = [position EXCEPT !.shares = left, !.effective = EffectiveAfter(o)]
             /\ stop' = StopAfter(o, left)
             /\ attempted' = attempted \cup ({o.kind} \cap {"take_profit", "flatten"})
             /\ reason' = o.kind
             /\ result' = [result EXCEPT !.exitShares = @ + sold,
                                         !.exitNotional = @ + Total(o.slices, "notional"),
                                         !.fees = @ + Total(o.slices, "fee")]
             /\ phase' = IF left <= 0 THEN "sold" ELSE "rows"
  BY Zenon DEF SendExit
<1> DEFINE x == Outcome(Exit(latency))
           o == x.order
           sold == Total(o.slices, "size")
           left == position.shares - sold
           later == EffectiveAfter(o)
           notional == Total(o.slices, "notional")
           fee == Total(o.slices, "fee")
           n == Len(orders)
<1>2. /\ orders' = Append(orders, o) /\ consumed' = x.consumed /\ cursor' = x.cursor
      /\ position' = [position EXCEPT !.shares = left, !.effective = later]
      /\ stop' = StopAfter(o, left)
      /\ attempted' = attempted \cup ({o.kind} \cap {"take_profit", "flatten"})
      /\ reason' = o.kind
      /\ result' = [result EXCEPT !.exitShares = @ + sold, !.exitNotional = @ + notional,
                                  !.fees = @ + fee]
      /\ phase' = IF left <= 0 THEN "sold" ELSE "rows"
  BY <1>1 DEF Log
<1>3. /\ phase = "rows" /\ InEpisode /\ Holding /\ ExitFor # NoExit
      /\ index' = index + 1
      /\ UNCHANGED <<outer, now, entries, nextEntry, session, debited>>
  BY DEF SendExit
<1>4. /\ EpisodeType /\ TradeType /\ ExitType /\ ImpactType /\ ResultType
      /\ index \in Nat \ {0} /\ now \in Nat
      /\ session \in Sessions /\ orders \in Seq(SentOrder)
      /\ ~InParent
  BY <1>3 DEF BInv, TypeOK, InParent
<1>5. Row.at \in Nat
  BY <1>3, <1>4, RowIsTape
<1>6. LET e == Exit(latency)
      IN  /\ IsRequest(e)
          /\ e.kind # "entry" /\ e.kind \in {"stop_loss", "take_profit", "flatten"}
          /\ e.side = "SELL" /\ e.shares <= position.shares /\ e.shares \in Nat
          /\ e.decision = Row.at /\ e.arrival \in Nat /\ Row.at <= e.arrival
  <2>1. IsRequest(Exit(latency)) => Exit(latency).shares \in Nat
    BY DEF IsRequest, Request
  <2>2. QED
    BY <1>3, <1>4, <2>1, ExitIsRequest
<1>7. /\ o \in SentOrder /\ o.kind # "entry" /\ o.kind \in {"stop_loss", "take_profit", "flatten"}
      /\ o.side = "SELL" /\ o.decision = Row.at /\ o.arrival \in Nat /\ o.row = index
      /\ sold <= position.shares
      /\ IsTaken(x.consumed) /\ x.cursor \in [TapeTokens -> Nat]
  <2> DEFINE e == Exit(latency)
  <2>1. /\ o \in SentOrder /\ o.kind = e.kind /\ o.side = e.side /\ o.decision = e.decision
        /\ o.arrival = e.arrival /\ o.row = index
        /\ e.side # "BUY" => o.requested = e.shares
        /\ sold <= o.requested
        /\ IsTaken(x.consumed) /\ x.cursor \in [TapeTokens -> Nat]
    <3> HIDE DEF e
    <3>1. IsRequest(e) /\ index \in Nat
      BY <1>4, <1>6 DEF e
    <3>2. QED
      BY <1>4, <3>1, OutcomeIs DEF e
  <2>2. sold \in Nat
    <3>1. o.slices \in Seq(SliceTypes)
      BY <2>1 DEF SentOrder
    <3>2. QED
      BY <3>1, TotalIsNat
  <2>3. position.shares \in Nat
    BY <1>4 DEF TradeType
  <2> HIDE DEF x, sold
  <2>4. QED
    BY <1>6, <2>1, <2>2, <2>3
<1> HIDE DEF x, o, sold, left, later, notional, fee, n
<1>8. o.slices \in Seq(SliceTypes)
  BY <1>7 DEF SentOrder
<1>9. notional \in Nat /\ fee \in Nat /\ sold \in Nat
  BY <1>8, TotalIsNat DEF notional, fee, sold
<1>10. position.shares \in Nat /\ position.effective \in Nat
  BY <1>4 DEF TradeType
<1>11. left \in Nat /\ sold + left = position.shares
  BY <1>7, <1>9, <1>10 DEF left
<1>12. later \in Nat /\ o.arrival <= later /\ position.effective <= later
  <2>1. later = Max({position.effective, o.arrival})
    BY DEF later, EffectiveAfter
  <2>2. QED
    BY <1>7, <1>10, <2>1, MaxOfTwo
<1>13. /\ orders' \in Seq(SentOrder)
       /\ n \in Nat /\ DOMAIN orders = 1 .. n /\ DOMAIN orders' = 1 .. n + 1
       /\ orders'[n + 1] = o /\ \A i \in 1 .. n : orders'[i] = orders[i]
       /\ Filled' = Filled \cup (IF o.slices # << >> THEN {n + 1} ELSE {})
       /\ Sales' = Sales \cup {n + 1}
       /\ Filled \in SUBSET (1 .. n) /\ Sales \in SUBSET (1 .. n)
       /\ SizeIn(orders', Sales') = SizeIn(orders, Sales) + sold
       /\ SizeIn(orders', Bought') = SizeIn(orders, Bought)
       /\ SizeIn(orders, Sales) \in Nat /\ SizeIn(orders, Bought) \in Nat
  <2>1. o.kind # "entry" /\ o \in SentOrder /\ orders \in Seq(SentOrder)
        /\ orders' = Append(orders, o)
    BY <1>2, <1>4, <1>7
  <2>2. SizeIn(orders', Bought') = SizeIn(orders, Bought) + 0 /\ SizeIn(orders, Bought) \in Nat
    BY <2>1, LogIs
  <2>3. SizeIn(orders', Sales') = SizeIn(orders, Sales) + sold
    BY <2>1, LogIs DEF sold
  <2>4. Sales' = Sales \cup {n + 1}
    BY <2>1, LogIs DEF n
  <2>5. QED
    BY <2>1, <2>2, <2>3, <2>4, LogIs DEF n
<1>14. position' \in [shares : Nat, cost : Nat, token : TapeTokens, effective : Nat]
       /\ position'.shares = left /\ position'.effective = later
  BY <1>2, <1>4, <1>11, <1>12 DEF TradeType
<1>15. SizeIn(orders, Bought) = SizeIn(orders, Sales) + position.shares
       /\ \A i \in Filled \cup Sales : orders[i].arrival <= position.effective
  BY <1>3 DEF BInv, PositionIsHeld
<1>16. TypeOK'
  <2>1. EpisodeType'
    BY <1>3, <1>4 DEF EpisodeType, outer
  <2>2. TradeType'
    BY <1>3, <1>4, <1>14 DEF TradeType
  <2>3. stop' \in [active : BOOLEAN, deadline : {None} \cup Nat, attempts : Nat]
    <3>1. stop \in [active : BOOLEAN, deadline : {None} \cup Nat, attempts : Nat]
      BY <1>4 DEF ExitType
    <3>2. stop.attempts + 1 \in Nat
      BY <3>1
    <3>3. Max({Row.at, o.arrival}) + params.retryInterval \in Nat
      <4>1. Max({Row.at, o.arrival}) \in Nat
        BY <1>5, <1>7, MaxOfTwo
      <4>2. params.retryInterval \in Nat
        BY <1>4, ParamFields
      <4>3. QED
        BY <4>1, <4>2
    <3>4. QED
      BY <1>2, <3>1, <3>2, <3>3 DEF StopAfter
  <2>4. ExitType'
    BY <1>2, <1>4, <1>7, <2>3 DEF ExitType
  <2>5. ImpactType'
    BY <1>2, <1>7 DEF ImpactType
  <2>6. ResultType'
    <3>1. result \in [exitShares : Nat, exitNotional : Nat, fees : Nat, payout : Nat,
                      net : Int, objective : Int]
      BY <1>4 DEF ResultType
    <3>2. /\ result.exitShares + sold \in Nat /\ result.exitNotional + notional \in Nat
          /\ result.fees + fee \in Nat
      BY <1>9, <3>1
    <3>3. QED
      BY <1>2, <3>1, <3>2 DEF ResultType
  <2>7. phase' \in Phases /\ index' \in Nat \ {0} /\ now' \in Nat /\ session' \in Sessions
    BY <1>2, <1>3, <1>4 DEF Phases
  <2>8. ParentType'
    BY <1>2 DEF ParentType, InParent
  <2>9. QED
    BY <1>13, <2>1, <2>2, <2>4, <2>5, <2>6, <2>7, <2>8 DEF TypeOK
<1>17. SentIsSound'
  <2>1. EntriesAreFunded'
    BY <1>2, <1>4, <1>7, FundedAgain
  <2>2. ASSUME NEW i \in DOMAIN orders, i \in Filled \cup Sales \/ orders[i].row = o.row
        PROVE  orders[i].arrival <= o.decision
    <3>1. orders[i].row < index /\ orders[i].row \in Nat
      BY <1>4, <2>2, SentFields DEF BInv, OrdersAreBehind
    <3>2. i \in Filled \cup Sales
      BY <1>4, <1>7, <2>2, <3>1
    <3>3. orders[i].arrival <= position.effective /\ position.effective <= Row.at
      BY <1>3, <1>15, <3>2 DEF Holding
    <3>4. orders[i].arrival \in Nat
      BY <1>4, <2>2, SentFields
    <3>5. QED
      BY <1>5, <1>7, <1>10, <3>3, <3>4
  <2>3. SizeIn(orders', Sales') <= SizeIn(orders, Bought)
    BY <1>7, <1>9, <1>10, <1>13, <1>15
  <2>4. NothingSoldBeforeItArrived'
    BY <1>2, <1>4, <1>7, <2>2, <2>3, OrderedAgain
  <2>5. QED
    BY <2>1, <2>4 DEF SentIsSound
<1>18. OrdersAreBehind'
  <2>1. ASSUME NEW i \in DOMAIN orders'
        PROVE  orders'[i].row \in Nat /\ orders'[i].row <= index
    <3>1. CASE i = n + 1
      BY <1>4, <1>7, <1>13, <3>1
    <3>2. CASE i \in 1 .. n
      BY <1>4, <1>13, <3>2, SentFields DEF BInv, OrdersAreBehind
    <3>3. QED
      BY <1>13, <3>1, <3>2
  <2>2. QED
    BY <1>3, <1>4, <2>1 DEF OrdersAreBehind
<1>19. NothingBefore'
  <2>1. ~InParent' /\ (phase' = "rows" => position'.shares > 0)
    BY <1>2, <1>11, <1>14 DEF InParent
  <2>2. QED
    BY <1>14, <2>1 DEF NothingBefore
<1>20. PositionIsHeld'
  <2>1. SizeIn(orders', Bought') = SizeIn(orders', Sales') + position'.shares
    BY <1>9, <1>11, <1>13, <1>14, <1>15
  <2>2. ASSUME NEW i \in Filled' \cup Sales' PROVE orders'[i].arrival <= position'.effective
    <3>1. CASE i = n + 1
      BY <1>12, <1>13, <1>14, <3>1
    <3>2. CASE i # n + 1
      <4>1. i \in Filled \cup Sales /\ i \in 1 .. n
        BY <1>13, <2>2, <3>2
      <4>2. orders'[i].arrival <= position.effective /\ orders'[i].arrival \in Nat
        BY <1>4, <1>13, <1>15, <4>1, SentFields
      <4>3. QED
        BY <1>10, <1>12, <1>14, <4>2
    <3>3. QED
      BY <3>1, <3>2
  <2>3. QED
    BY <2>1, <2>2 DEF PositionIsHeld
<1>21. ParentIsSound' /\ ChildIsSound' /\ SessionNeverRaises'
  BY <1>2 DEF ParentIsSound, ChildIsSound, InParent, SessionNeverRaises
<1>22. QED
  BY <1>16, <1>17, <1>18, <1>19, <1>20, <1>21 DEF BInv

\* What an entry that filled makes of the trade.
LEMMA EnteredIs ==
  ASSUME TradeType, ResultType, ExitType, NEW slices \in Seq(SliceTypes), NEW effective \in Nat,
         Row.token \in TapeTokens, NEW objective \in Int,
         Enter(slices, effective, [result EXCEPT !.objective = objective])
  PROVE  /\ ResultType'
         /\ position' \in [shares : Nat, cost : Nat, token : TapeTokens, effective : Nat]
         /\ debited' \in Nat
         /\ reason' \in {"no_entry", "settlement", "stop_unfilled_held_to_settlement",
                         "stop_loss", "take_profit", "flatten"}
         /\ slices = << >> => position' = position /\ debited' = debited
         /\ slices # << >> => /\ position'.shares = Total(slices, "size")
                              /\ position'.shares > 0
                              /\ position'.effective = effective
                              /\ position'.token = Row.token
<1> DEFINE size == Total(slices, "size")
           notional == Total(slices, "notional")
           fee == Total(slices, "fee")
           cost == TotalCost(slices)
           scored == [result EXCEPT !.objective = objective]
<1>1. /\ size \in Nat /\ notional \in Nat /\ fee \in Nat /\ cost \in Nat
      /\ slices # << >> => size > 0
  BY TotalIsNat
<1>2. /\ debited \in Nat /\ result.fees \in Nat
      /\ position \in [shares : Nat, cost : Nat, token : TapeTokens, effective : Nat]
  BY DEF TradeType, ResultType
<1>3. scored \in [exitShares : Nat, exitNotional : Nat, fees : Nat, payout : Nat,
                  net : Int, objective : Int] /\ scored.fees = result.fees
  BY DEF ResultType
<1>4. CASE slices = << >>
  <2>1. result' = scored /\ UNCHANGED <<position, debited, reason>>
    BY <1>4 DEF Enter
  <2>2. ResultType'
    BY <1>3, <2>1 DEF ResultType
  <2>3. QED
    BY <1>2, <1>4, <2>1, <2>2 DEF ExitType
<1>5. CASE slices # << >>
  <2>1. /\ position' = [shares |-> size, cost |-> notional, token |-> Row.token,
                        effective |-> effective]
        /\ debited' = debited + cost /\ reason' = "settlement"
        /\ result' = [scored EXCEPT !.fees = @ + fee]
    BY <1>5 DEF Enter
  <2> HIDE DEF size, notional, fee, cost, scored
  <2>2. debited' \in Nat /\ scored.fees + fee \in Nat
    <3>1. debited \in Nat /\ cost \in Nat /\ fee \in Nat /\ debited' = debited + cost
      BY <1>1, <1>2, <2>1
    <3>2. scored.fees \in Nat
      BY <1>2, <1>3
    <3>3. debited' \in Nat
      BY <3>1
    <3>4. scored.fees + fee \in Nat
      <4> DEFINE was == scored.fees
      <4>1. was \in Nat /\ fee \in Nat
        BY <3>1, <3>2
      <4> HIDE DEF was
      <4>2. was + fee \in Nat
        BY <4>1
      <4>3. QED
        BY <4>2 DEF was
    <3>5. QED
      BY <3>3, <3>4
  <2>3. ResultType'
    BY <1>3, <2>1, <2>2 DEF ResultType
  <2>4. QED
    BY <1>1, <1>5, <2>1, <2>2, <2>3 DEF size
<1>6. QED
  BY <1>4, <1>5

LEMMA EnterAtOnceKeeps ==
  ASSUME BInv, EnterAtOnce
  PROVE  BInv'
<1>1. PICK latency \in Latencies : \E x \in {Outcome(Entry(latency))} :
         LET pending == \/ x.order.refused = "insufficient_available_cash"
                        \/ CashLimited /\ x.order.slices = << >>
         IN  /\ Log(x)
             /\ entries' = IF pending THEN entries ELSE entries + 1
             /\ nextEntry' = IF pending THEN nextEntry ELSE Row.at + params.cooldown
             /\ Enter(x.order.slices, x.order.arrival, result)
  BY Zenon DEF EnterAtOnce
<1> DEFINE x == Outcome(Entry(latency))
           o == x.order
           n == Len(orders)
           size == Total(o.slices, "size")
           cost == TotalCost(o.slices)
<1>2. /\ orders' = Append(orders, o) /\ consumed' = x.consumed /\ cursor' = x.cursor
      /\ entries' \in {entries, entries + 1}
      /\ nextEntry' \in {nextEntry, Row.at + params.cooldown}
      /\ Enter(o.slices, o.arrival, result)
  BY <1>1 DEF Log
<1>3. /\ phase = "rows" /\ InEpisode /\ Signal
      /\ index' = index + 1
      /\ UNCHANGED <<outer, phase, now, stop, attempted, session>>
  BY DEF EnterAtOnce
<1>4. /\ EpisodeType /\ TradeType /\ ExitType /\ ImpactType /\ ResultType
      /\ index \in Nat \ {0} /\ now \in Nat
      /\ session \in Sessions /\ orders \in Seq(SentOrder)
      /\ ~InParent /\ ~InParent'
  BY <1>3 DEF BInv, TypeOK, InParent
<1>5. Row.at \in Nat /\ Row.token \in TapeTokens
  BY <1>3, <1>4, RowIsTape
<1>6. position.shares = 0 /\ Filled = {} /\ Sales = {} /\ Bought = {} /\ debited = 0
  BY <1>3 DEF BInv, NothingBefore, Signal, Bought
<1>7. /\ o \in SentOrder /\ o.kind = "entry" /\ o.decision = Row.at
      /\ o.arrival \in Nat /\ o.row = index
      /\ IsTaken(x.consumed) /\ x.cursor \in [TapeTokens -> Nat]
      /\ cost <= (IF EntrySpend # None THEN EntrySpend ELSE CashAt(o.arrival))
      /\ o.slices # << >> =>
           CashAt(o.arrival) > 0 /\ (EntrySpend # None => EntrySpend <= CashAt(o.arrival))
  <2> DEFINE e == Entry(latency)
  <2>1. /\ IsRequest(e) /\ e.kind = "entry" /\ e.side = "BUY" /\ e.spend = EntrySpend
        /\ e.cash = CashAt(e.arrival) /\ e.decision = Row.at /\ e.arrival \in Nat
    BY <1>3, <1>4, EntryIsRequest
  <2> HIDE DEF e
  <2>2. index \in Nat
    BY <1>4
  <2>3. /\ o \in SentOrder /\ o.kind = e.kind /\ o.side = e.side /\ o.decision = e.decision
        /\ o.arrival = e.arrival /\ o.row = index
        /\ e.side = "BUY" => cost <= (IF e.spend # None THEN e.spend ELSE e.cash)
        /\ IsTaken(x.consumed) /\ x.cursor \in [TapeTokens -> Nat]
        /\ o.slices = << >> \/ Takes(e, x)
    BY <1>4, <2>1, <2>2, OutcomeIs DEF e
  <2>4. Takes(e, x) => e.cash > 0 /\ (e.spend # None => e.spend <= e.cash)
    BY <2>1 DEF Takes, Meets
  <2> HIDE DEF x, cost
  <2>5. QED
    BY <2>1, <2>3, <2>4
<1> HIDE DEF x, o, n, size, cost
<1>8. o.slices \in Seq(SliceTypes)
  BY <1>7 DEF SentOrder
<1>9. /\ ResultType'
      /\ position' \in [shares : Nat, cost : Nat, token : TapeTokens, effective : Nat]
      /\ debited' \in Nat
      /\ reason' \in {"no_entry", "settlement", "stop_unfilled_held_to_settlement",
                      "stop_loss", "take_profit", "flatten"}
      /\ o.slices = << >> => position' = position /\ debited' = debited
      /\ o.slices # << >> => /\ position'.shares = size
                             /\ position'.shares > 0
                             /\ position'.effective = o.arrival
  <2>1. result = [result EXCEPT !.objective = result.objective] /\ result.objective \in Int
    BY <1>4 DEF ResultType
  <2>2. Enter(o.slices, o.arrival, [result EXCEPT !.objective = result.objective])
    BY <1>2, <2>1
  <2>3. QED
    BY <1>4, <1>5, <1>7, <1>8, <2>1, <2>2, EnteredIs DEF size
<1>10. /\ orders' \in Seq(SentOrder)
       /\ n \in Nat /\ DOMAIN orders = 1 .. n /\ DOMAIN orders' = 1 .. n + 1
       /\ orders'[n + 1] = o /\ \A i \in 1 .. n : orders'[i] = orders[i]
       /\ Filled' = (IF o.slices # << >> THEN {n + 1} ELSE {})
       /\ Sales' = {}
       /\ SizeIn(orders', Sales') = 0
       /\ SizeIn(orders', Bought') = size
       /\ CostIn(orders', Bought') = cost
       /\ size \in Nat /\ cost \in Nat
       /\ o.slices = << >> => size = 0
  <2>1. o.kind = "entry" /\ o \in SentOrder /\ orders \in Seq(SentOrder)
        /\ orders' = Append(orders, o)
    BY <1>2, <1>4, <1>7
  <2>2. /\ SizeIn(orders', Bought') = SizeIn(orders, Bought) + size
        /\ CostIn(orders', Bought') = CostIn(orders, Bought) + cost
        /\ SizeIn(orders', Sales') = SizeIn(orders, Sales) + 0
        /\ size \in Nat /\ cost \in Nat /\ (o.slices = << >> => size = 0)
    BY <2>1, LogIs DEF size, cost
  <2>3. SizeIn(orders, Bought) = 0 /\ CostIn(orders, Bought) = 0 /\ SizeIn(orders, Sales) = 0
    BY <1>6, NothingIn
  <2>4. /\ orders' \in Seq(SentOrder)
        /\ n \in Nat /\ DOMAIN orders = 1 .. n /\ DOMAIN orders' = 1 .. n + 1
        /\ orders'[n + 1] = o /\ \A i \in 1 .. n : orders'[i] = orders[i]
        /\ Filled' = Filled \cup (IF o.slices # << >> THEN {n + 1} ELSE {})
        /\ Sales' = Sales \cup {}
    BY <2>1, LogIs DEF n
  <2>5. QED
    BY <1>6, <2>2, <2>3, <2>4
<1>11. TypeOK'
  <2>1. EpisodeType'
    BY <1>3, <1>4 DEF EpisodeType, outer
  <2>2. TradeType'
    <3>1. entries \in Nat /\ nextEntry \in Nat /\ params.cooldown \in Nat
      BY <1>4, ParamFields DEF TradeType
    <3>2. entries' \in Nat /\ nextEntry' \in Nat
      BY <1>2, <1>5, <3>1
    <3>3. QED
      BY <1>9, <3>2 DEF TradeType
  <2>3. ExitType'
    BY <1>3, <1>4, <1>9 DEF ExitType
  <2>4. ImpactType'
    BY <1>2, <1>7 DEF ImpactType
  <2>5. phase' \in Phases /\ index' \in Nat \ {0} /\ now' \in Nat /\ session' \in Sessions
    BY <1>3, <1>4 DEF Phases
  <2>6. ParentType'
    BY <1>4 DEF ParentType
  <2>7. QED
    BY <1>9, <1>10, <2>1, <2>2, <2>3, <2>4, <2>5, <2>6 DEF TypeOK
<1>12. SentIsSound'
  <2>1. params' = params /\ wallet' = wallet
    BY <1>3 DEF outer
  <2>2. ASSUME o.slices # << >>, params.notional # None PROVE cost <= params.notional
    <3>1. EntrySpend \in Nat /\ EntrySpend <= params.notional /\ params.notional \in Nat
      BY <1>4, <2>2, SpendIsWithin, ParamFields
    <3>2. EntrySpend # None
      BY <3>1 DEF None
    <3>3. QED
      BY <1>7, <1>10, <3>1, <3>2
  <2>3. ASSUME o.slices # << >>, wallet # NoWallet
        PROVE  cost <= (IF o.arrival < wallet.from THEN wallet.early ELSE wallet.late)
    <3>1. CashAt(o.arrival) = (IF o.arrival < wallet.from THEN wallet.early ELSE wallet.late)
          /\ CashAt(o.arrival) \in Nat
      BY <1>4, <1>6, <2>3, CashIsNat
    <3>2. EntrySpend \in {None} \cup Nat
      BY <1>4, SpendIsWithin
    <3>3. cost <= CashAt(o.arrival)
      BY <1>7, <1>10, <2>3, <3>1, <3>2
    <3>4. QED
      BY <3>1, <3>3
  <2>4. EntriesAreFunded'
    BY <1>2, <1>4, <1>7, <1>10, <2>1, <2>2, <2>3, FundedAgain
  <2>5. ASSUME NEW i \in DOMAIN orders, i \in Filled \cup Sales \/ orders[i].row = o.row
        PROVE  orders[i].arrival <= o.decision
    <3>1. orders[i].row < index /\ orders[i].row \in Nat
      BY <1>4, <2>5, SentFields DEF BInv, OrdersAreBehind
    <3>2. QED
      BY <1>4, <1>6, <1>7, <2>5, <3>1
  <2>6. NothingSoldBeforeItArrived'
    BY <1>2, <1>4, <1>7, <2>5, OrderedAgain
  <2>7. QED
    BY <2>4, <2>6 DEF SentIsSound
<1>13. OrdersAreBehind'
  <2>1. ASSUME NEW i \in DOMAIN orders'
        PROVE  orders'[i].row \in Nat /\ orders'[i].row <= index
    <3>1. CASE i = n + 1
      BY <1>4, <1>7, <1>10, <3>1
    <3>2. CASE i \in 1 .. n
      BY <1>4, <1>10, <3>2, SentFields DEF BInv, OrdersAreBehind
    <3>3. QED
      BY <1>10, <3>1, <3>2
  <2>2. QED
    BY <1>3, <1>4, <2>1 DEF OrdersAreBehind
<1>14. NothingBefore'
  BY <1>4, <1>6, <1>9, <1>10 DEF NothingBefore
<1>15. PositionIsHeld'
  <2>1. CASE o.slices = << >>
    BY <1>6, <1>9, <1>10, <2>1 DEF PositionIsHeld
  <2>2. CASE o.slices # << >>
    BY <1>7, <1>9, <1>10, <2>2 DEF PositionIsHeld
  <2>3. QED
    BY <2>1, <2>2
<1>16. ParentIsSound' /\ ChildIsSound' /\ SessionNeverRaises'
  BY <1>3, <1>4 DEF ParentIsSound, ChildIsSound, SessionNeverRaises
<1>17. QED
  BY <1>11, <1>12, <1>13, <1>14, <1>15, <1>16 DEF BInv

LEMMA PlanIs ==
  ASSUME EpisodeType, TradeType, index \in Nat \ {0}, InEpisode, Signal
  PROVE  /\ Plan \in Plans /\ Plan.limit = params.limit /\ Plan.start = Row.at
         /\ Plan.deadline = Deadline
         /\ params.notional # None => EntrySpend \in Nat /\ EntrySpend <= params.notional
         /\ CashAt(Deadline) \in Nat
<1>1. Row.at \in Nat /\ Row.asks \in Seq(Level)
  BY RowIsTape
<1>2. Best(Row.asks) \in Price /\ Best(Row.asks) \in Nat
  BY <1>1, BestIsPrice, PriceIsNat DEF Signal
<1>3. Deadline \in Nat /\ CashAt(Deadline) \in Nat /\ params.limit \in Nat
  BY DeadlineIs, CashIsNat, ParamFields
<1>4. params.notional # None => EntrySpend \in Nat /\ EntrySpend <= params.notional
  BY SpendIsWithin
<1> DEFINE target == IF params.shares # None THEN params.shares
                     ELSE AffordableAt(EntrySpend, Best(Row.asks))
<1>5. target \in Nat
  <2>1. CASE params.shares # None
    BY <2>1, ParamFields
  <2>2. CASE params.shares = None
    <3>1. params.notional \in Nat
      BY <2>2, ParamFields
    <3>2. params.notional # None
      BY <3>1 DEF None
    <3>3. QED
      BY <1>2, <1>4, <2>2, <3>2, AffordableAtIsNat
  <2>3. QED
    BY <2>1, <2>2
<1>6. Plan = [target |-> target, start |-> Row.at, deadline |-> Deadline,
              benchmark |-> Best(Row.asks), limit |-> params.limit]
  BY DEF Plan
<1> HIDE DEF target
<1>7. Plan \in Plans
  BY <1>1, <1>2, <1>3, <1>5, <1>6 DEF Plans
<1>8. QED
  BY <1>3, <1>4, <1>6, <1>7

LEMMA StartParentKeeps ==
  ASSUME BInv, StartParent
  PROVE  BInv'
<1>1. /\ phase = "rows" /\ InEpisode /\ Signal /\ now' = Row.at
      /\ UNCHANGED <<outer, index, trade, exits, impact, orders, result>>
  BY DEF StartParent
<1>2. /\ EpisodeType /\ TradeType /\ ExitType /\ ImpactType /\ ResultType
      /\ index \in Nat \ {0} /\ session \in Sessions /\ orders \in Seq(SentOrder) /\ ~InParent
  BY <1>1 DEF BInv, TypeOK, InParent
<1>3. Row.at \in Nat
  BY <1>1, <1>2, RowIsTape
<1> DEFINE cash == IF params.notional # None THEN EntrySpend ELSE CashAt(Deadline)
<1>4. /\ Plan \in Plans /\ Plan.limit = params.limit /\ Plan.start = Row.at
      /\ Plan.deadline = Deadline
      /\ cash \in Nat /\ (params.notional # None => cash <= params.notional)
  BY <1>1, <1>2, PlanIs
<1>5. position.shares = 0 /\ Filled = {} /\ Sales = {} /\ Bought = {} /\ debited = 0
  BY <1>1 DEF BInv, NothingBefore, Signal, Bought
<1>6. \/ PlanIsLegal(Plan) /\ phase' = "decisions" /\ session' = NewSession(Plan, cash)
      \/ phase' = "illegal" /\ session' = session
  BY DEF StartParent
<1> HIDE DEF cash
<1>7. << >> \in Seq(SliceTypes) /\ Total(<< >>, "size") = 0 /\ TotalCost(<< >>) = 0
  BY EmptySeq, TotalOfNone
<1>8. Plan.target \in Nat /\ Plan.start \in Nat
  BY <1>4 DEF Plans
<1>9. /\ NewSession(Plan, cash) \in Sessions
      /\ NewSession(Plan, cash).plan = Plan /\ NewSession(Plan, cash).cash = cash
      /\ NewSession(Plan, cash).filled = 0 /\ NewSession(Plan, cash).fills = << >>
      /\ NewSession(Plan, cash).pending = 0 /\ NewSession(Plan, cash).lastDecision = None
  BY <1>4, <1>7, <1>8 DEF NewSession, Sessions
<1>10. /\ Filled' = {} /\ Sales' = {} /\ Bought' = {}
       /\ SizeIn(orders, Bought)' = 0 /\ CostIn(orders, Bought)' = 0
  <2>1. Filled' = {} /\ Sales' = {} /\ Bought' = {}
    BY <1>1, <1>5, NothingSent
  <2>2. QED
    BY <2>1, NothingIn
<1>11. /\ Row' = Row /\ Deadline' = Deadline /\ InEpisode'
       /\ params' = params /\ debited' = debited /\ position' = position
  BY <1>1 DEF outer, trade, Row, Deadline, InEpisode
<1>12. TypeOK'
  <2>1. EpisodeType' /\ TradeType' /\ ExitType' /\ ImpactType' /\ ResultType'
    BY <1>1, <1>2 DEF EpisodeType, TradeType, ExitType, ImpactType, ResultType, outer, trade,
                      exits, impact
  <2>2. /\ phase' \in Phases /\ index' \in Nat \ {0} /\ now' \in Nat /\ session' \in Sessions
        /\ orders' \in Seq(SentOrder)
    BY <1>1, <1>2, <1>3, <1>6, <1>9 DEF Phases
  <2>3. CASE PlanIsLegal(Plan) /\ phase' = "decisions" /\ session' = NewSession(Plan, cash)
    <3>1. session'.plan = Plan
      BY <1>9, <2>3
    <3>2. Plan.start <= Row.at
      BY <1>3, <1>4
    <3>3. QED
      BY <1>1, <1>4, <1>11, <2>1, <2>2, <2>3, <3>1, <3>2 DEF TypeOK, ParentType
  <2>4. CASE phase' = "illegal"
    BY <2>1, <2>2, <2>4 DEF TypeOK, ParentType, InParent
  <2>5. QED
    BY <1>6, <2>3, <2>4
<1>13. SentIsSound'
  BY <1>1, SentStays DEF BInv, outer
<1>14. \A i \in DOMAIN orders : orders[i].row < index /\ orders[i].row \in Nat
  BY <1>2, SentFields DEF BInv, OrdersAreBehind
<1>15. OrdersAreBehind'
  BY <1>1, <1>2, <1>14 DEF OrdersAreBehind
<1>16. NothingBefore'
  BY <1>5, <1>10, <1>11 DEF NothingBefore
<1>17. PositionIsHeld' /\ SessionNeverRaises'
  BY <1>6 DEF PositionIsHeld, SessionNeverRaises
<1>18. ParentIsSound' /\ ChildIsSound'
  <2>1. CASE PlanIsLegal(Plan) /\ phase' = "decisions" /\ session' = NewSession(Plan, cash)
    <3>1. /\ session'.plan = Plan /\ session'.cash = cash /\ session'.filled = 0
          /\ session'.fills = << >> /\ session'.pending = 0 /\ session'.lastDecision = None
      BY <1>9, <2>1
    <3>2. ASSUME NEW i \in DOMAIN orders' PROVE orders'[i].row # index'
      BY <1>1, <1>2, <1>14
    <3>3. params'.notional # None => cash + 0 <= params'.notional
      BY <1>4, <1>11
    <3>4. ParentIsSound'
      BY <1>4, <1>7, <1>8, <1>10, <3>1, <3>2, <3>3 DEF ParentIsSound
    <3>5. ChildIsSound'
      BY <2>1, <3>1 DEF ChildIsSound
    <3>6. QED
      BY <3>4, <3>5
  <2>2. CASE phase' = "illegal"
    BY <2>2 DEF ParentIsSound, ChildIsSound, InParent
  <2>3. QED
    BY <1>6, <2>1, <2>2
<1>19. QED
  BY <1>12, <1>13, <1>15, <1>16, <1>17, <1>18 DEF BInv

LEMMA VolumeIsNat ==
  ASSUME EpisodeType
  PROVE  ObservedVolume \in Nat
<1> DEFINE S == {trd \in Trades[episode] :
                   trd.token = Row.token /\ trd.at >= session.plan.start /\ trd.at <= now}
           f == [trd \in S |-> trd.size]
<1>1. /\ IsFiniteSet(Trades[episode])
      /\ Trades[episode] \subseteq [at : Nat, token : TapeTokens, size : Nat]
  BY EpisodeAssumption DEF EpisodeType
<1>2. S \in SUBSET Trades[episode]
  OBVIOUS
<1>3. IsFiniteSet(S)
  BY <1>1, <1>2, FS_Subset
<1>4. \A trd \in S : f[trd] \in Nat
  BY <1>1
<1>5. ObservedVolume = SumFunctionOnSet(f, S)
  BY DEF ObservedVolume, SumFunction
<1> HIDE DEF S, f
<1>6. QED
  BY <1>3, <1>4, <1>5, SumIsNat

LEMMA ViewIsTyped ==
  ASSUME EpisodeType, index \in Nat \ {0}, InEpisode, now \in Nat, Readable(now),
         NEW after, IsTaken(after)
  PROVE  View(after) \in Views /\ View(after).now = now
<1> DEFINE i == RowAt(tape, Row.token, now)
           row == tape.rows[i]
<1>1. tape.rows \in Seq(TapeRow)
  BY TapeIsTyped
<1>2. i \in 1 .. Len(tape.rows)
  BY <1>1, RowAtIsLast DEF Readable
<1> HIDE DEF i
<1>3. row.asks \in Seq(Level)
  BY <1>1, <1>2, RowFields
<1>4. Best(row.asks) \in Int
  BY <1>3, BestIsPrice, PriceIsNat DEF None
<1>5. LeftOf(row.asks, Row.token, "SELL", after) \in Seq(Level)
  <2> HIDE DEF row
  <2>1. QED
    BY <1>3, LeftOfIsPart
<1>6. ObservedVolume \in Nat
  BY VolumeIsNat
<1>7. MinimumOrder \in Nat
  BY EpisodeAssumption
<1>8. View(after) = [now |-> now, volume |-> ObservedVolume, minimum |-> MinimumOrder,
                     reference |-> Best(row.asks),
                     asks |-> LeftOf(row.asks, Row.token, "SELL", after)]
  BY DEF View, i
<1> HIDE DEF row
<1>9. QED
  BY <1>4, <1>5, <1>6, <1>7, <1>8 DEF Views

\* A decision that sends nothing leaves what was sent and bought alone.
LEMMA WaitKeeps ==
  ASSUME BInv, InParent, InParent', UNCHANGED <<outer, index, trade, exits, orders, result>>,
         session' \in Sessions, session'.plan = session.plan, session'.cash = session.cash,
         session'.filled = session.filled, session'.fills = session.fills,
         session'.notBefore = session.notBefore,
         session'.lastDecision # None => session'.lastDecision <= now',
         now' \in Nat, now <= now', ImpactType', ChildIsSound'
  PROVE  BInv'
<1>1. /\ EpisodeType /\ TradeType /\ ExitType /\ ResultType
      /\ index \in Nat \ {0} /\ now \in Nat
      /\ session \in Sessions /\ orders \in Seq(SentOrder) /\ ParentType
  BY DEF BInv, TypeOK
<1>2. /\ Filled' = Filled /\ Sales' = Sales
      /\ SizeIn(orders, Bought)' = SizeIn(orders, Bought)
      /\ CostIn(orders, Bought)' = CostIn(orders, Bought)
  BY NothingSent
<1>3. /\ Row' = Row /\ Deadline' = Deadline /\ InEpisode' = InEpisode
      /\ params' = params /\ debited' = debited /\ position' = position /\ orders' = orders
      /\ index' = index
  BY DEF outer, trade, Row, Deadline, InEpisode
<1>4. TypeOK'
  <2>1. EpisodeType' /\ TradeType' /\ ExitType' /\ ResultType'
    BY <1>1 DEF EpisodeType, TradeType, ExitType, ResultType, outer, trade, exits
  <2>2. phase' \in Phases
    BY DEF InParent, Phases
  <2>3. session.plan.start \in Nat
    BY <1>1, SessionFields
  <2>4. session.plan.start <= now'
    BY <1>1, <2>3 DEF ParentType
  <2>5. ParentType'
    BY <1>1, <1>3, <2>4 DEF ParentType
  <2>6. QED
    BY <1>1, <1>3, <2>1, <2>2, <2>5 DEF TypeOK
<1>5. SentIsSound'
  BY SentStays DEF BInv, outer
<1>6. OrdersAreBehind' /\ NothingBefore'
  <2>1. OrdersAreBehind'
    BY <1>3 DEF BInv, OrdersAreBehind
  <2>2. /\ Sales = {} /\ debited = 0 /\ position.shares = 0
        /\ \A i \in Filled : orders[i].row = index
    BY DEF BInv, NothingBefore
  <2>3. phase' # "rows"
    BY DEF InParent
  <2>4. QED
    BY <1>2, <1>3, <2>1, <2>2, <2>3 DEF NothingBefore
<1>7. PositionIsHeld' /\ SessionNeverRaises'
  BY DEF PositionIsHeld, SessionNeverRaises, InParent
<1>8. ParentIsSound'
  BY <1>2, <1>3 DEF BInv, ParentIsSound
<1>9. QED
  BY <1>4, <1>5, <1>6, <1>7, <1>8 DEF BInv

LEMMA DecideChildKeeps ==
  ASSUME BInv, DecideChild
  PROVE  BInv'
<1> DEFINE after == Replenished(Row.token, RowAt(tape, Row.token, now))
           d == Decide(session, View(after.consumed), params)
<1>1. /\ phase = "decisions" /\ now <= session.plan.deadline /\ Readable(now)
      /\ consumed' = after.consumed /\ cursor' = after.cursor
      /\ session' = IF DecideRaises(session, now) THEN session ELSE d
      /\ IF DecideRaises(session, now) THEN phase' = "raised" /\ UNCHANGED now
         ELSE IF session'.pending > 0 THEN phase' = "child" /\ UNCHANGED now
         ELSE phase' = phase /\ Tick
      /\ UNCHANGED <<outer, index, trade, exits, orders, result>>
  BY DEF DecideChild
<1>2. /\ EpisodeType /\ TradeType /\ ExitType /\ ImpactType /\ ResultType
      /\ index \in Nat \ {0} /\ now \in Nat /\ session \in Sessions /\ orders \in Seq(SentOrder)
      /\ ParentType /\ ParentIsSound /\ InParent
  BY <1>1 DEF BInv, TypeOK, InParent
<1>3. /\ InEpisode /\ PlanIsLegal(session.plan) /\ session.plan.limit > 0
      /\ session.plan.deadline = Deadline
  BY <1>2, ParamFields DEF ParentType
<1>4. ~DecideRaises(session, now)
  <2>1. session.cash \in Int /\ session.filled \in Nat /\ session.plan.target \in Nat
        /\ session.lastDecision \in {None} \cup Nat
    BY <1>2, SessionFields
  <2>2. /\ session.cash >= 0 /\ session.filled <= session.plan.target
        /\ session.lastDecision # None => session.lastDecision <= now
    BY <1>2 DEF ParentIsSound
  <2>3. QED
    BY <1>2, <2>1, <2>2 DEF DecideRaises
<1>5. session.pending = 0
  BY <1>1 DEF BInv, ChildIsSound
<1>6. IsTaken(after.consumed) /\ after.cursor \in [TapeTokens -> Nat]
  <2>1. Row.token \in TapeTokens
    BY <1>2, <1>3, RowIsTape
  <2>2. RowAt(tape, Row.token, now) \in Nat
    BY <1>2, TapeIsTyped, RowAtIsLast
  <2>3. QED
    BY <1>2, <2>1, <2>2, ReplenishedIs
<1>7. View(after.consumed) \in Views /\ View(after.consumed).now = now
  <2> HIDE DEF after
  <2>1. QED
    BY <1>1, <1>2, <1>3, <1>6, ViewIsTyped
<1>8. params \in ParamSets
  BY <1>2 DEF EpisodeType
<1>9. /\ d \in Sessions
      /\ d.plan = session.plan /\ d.cash = session.cash /\ d.filled = session.filled
      /\ d.fills = session.fills /\ d.notBefore = session.notBefore /\ d.lastDecision = now
      /\ d.pending # 0 => /\ d.pending <= Remaining(session) /\ d.pendingAt = now
                          /\ session.notBefore <= now
  <2> HIDE DEF after
  <2>1. QED
    BY <1>2, <1>3, <1>5, <1>7, <1>8, DecideIsWithin
<1> HIDE DEF d, after
<1>10. session' = d
  BY <1>1, <1>4
<1>11. d.pending \in Nat
  BY <1>9, SessionFields
<1>12. ImpactType'
  BY <1>1, <1>6 DEF ImpactType
<1>13. CASE d.pending > 0
  <2>1. phase' = "child" /\ now' = now
    BY <1>1, <1>4, <1>10, <1>13
  <2>2. ChildIsSound'
    BY <1>1, <1>9, <1>10, <1>13, <2>1 DEF ChildIsSound, Remaining
  <2>3. InParent' /\ now' \in Nat /\ now <= now' /\ now <= now
    BY <1>2, <2>1 DEF InParent
  <2>4. QED
    BY <1>1, <1>2, <1>9, <1>10, <1>12, <2>1, <2>2, <2>3, WaitKeeps
<1>14. CASE ~(d.pending > 0)
  <2>1. phase' = "decisions" /\ Tick
    BY <1>1, <1>4, <1>10, <1>14
  <2>2. session'.pending = 0
    BY <1>10, <1>11, <1>14
  <2>3. session.plan.deadline < TapeEnd
    BY <1>2, <1>3, DeadlineIs
  <2>4. now' \in Nat /\ now < now'
    BY <1>1, <1>2, <2>1, <2>3, TickIsLater
  <2>5. now <= now'
    BY <1>2, <2>4
  <2>6. ChildIsSound' /\ InParent'
    BY <2>1, <2>2 DEF ChildIsSound, InParent
  <2>7. QED
    BY <1>1, <1>2, <1>9, <1>10, <1>12, <2>4, <2>5, <2>6, WaitKeeps
<1>15. QED
  BY <1>13, <1>14

LEMMA SkipDecisionKeeps ==
  ASSUME BInv, SkipDecision
  PROVE  BInv'
<1>1. /\ phase = "decisions" /\ now <= session.plan.deadline /\ Tick
      /\ UNCHANGED <<outer, phase, index, trade, exits, impact, session, orders, result>>
  BY DEF SkipDecision
<1>2. /\ EpisodeType /\ ImpactType
      /\ index \in Nat \ {0} /\ now \in Nat /\ session \in Sessions
      /\ ParentType /\ ParentIsSound /\ InParent /\ InParent'
  BY <1>1 DEF BInv, TypeOK, InParent
<1>3. InEpisode /\ session.plan.deadline = Deadline
  BY <1>2 DEF ParentType
<1>4. session.plan.deadline < TapeEnd
  BY <1>2, <1>3, DeadlineIs
<1>5. now' \in Nat /\ now < now'
  BY <1>1, <1>2, <1>4, TickIsLater
<1>6. now <= now'
  BY <1>2, <1>5
<1>7. session'.lastDecision # None => session'.lastDecision <= now'
  <2>1. session.lastDecision \in {None} \cup Nat
    BY <1>2, SessionFields
  <2>2. session.lastDecision # None => session.lastDecision <= now
    BY <1>2 DEF ParentIsSound
  <2>3. QED
    BY <1>1, <1>2, <1>5, <1>6, <2>1, <2>2
<1>8. ChildIsSound'
  BY <1>1 DEF BInv, ChildIsSound
<1>9. ImpactType'
  BY <1>1, <1>2 DEF ImpactType, impact
<1>10. QED
  BY <1>1, <1>2, <1>5, <1>6, <1>7, <1>8, <1>9, WaitKeeps

LEMMA NoneOfBoth ==
  ASSUME NEW a \in Nat, NEW b \in Nat, a + b = 0
  PROVE  a = 0 /\ b = 0
OBVIOUS

LEMMA InTurn ==
  ASSUME NEW a \in Int, NEW b \in Int, NEW c \in Int, a <= b, b <= c
  PROVE  a <= c
OBVIOUS

LEMMA BudgetIsKept ==
  ASSUME NEW cash \in Int, NEW spent \in Nat, NEW cost \in Nat, cost <= cash
  PROVE  /\ (cash - cost) + (spent + cost) = cash + spent
         /\ \A budget \in Int : cash + spent <= budget => spent + cost <= budget
OBVIOUS

LEMMA TargetIsKept ==
  ASSUME NEW target \in Nat, NEW filled \in Nat, NEW pending \in Nat, NEW size \in Nat,
         size <= pending, pending <= target - filled
  PROVE  filled + size <= target
OBVIOUS

\* What becomes of a child is an outcome that the session takes.
LEMMA ChildIsTaken ==
  ASSUME BInv, phase = "child", NEW latency \in Latencies
  PROVE  LET o == Outcome(ChildOrder(latency)).order
         IN  /\ o \in SentOrder /\ o.kind = "entry" /\ o.row = index /\ o.decision = now
             /\ o.requested = session.pending /\ now <= o.arrival /\ o.arrival \in Nat
             /\ Total(o.slices, "size") \in Nat /\ Total(o.slices, "size") <= session.pending
             /\ TotalCost(o.slices) \in Nat /\ TotalCost(o.slices) <= ChildCash(o.arrival)
             /\ TotalCost(o.slices) <= session.cash
             /\ o.slices # << >> => ChildCash(o.arrival) > 0
             /\ o.slices # << >> => o.arrival <= session.plan.deadline
             /\ IsTaken(Outcome(ChildOrder(latency)).consumed)
             /\ Outcome(ChildOrder(latency)).cursor \in [TapeTokens -> Nat]
             /\ ~OutcomeRaises(session, o)
<1> DEFINE e == ChildOrder(latency)
           x == Outcome(e)
           o == x.order
           size == Total(o.slices, "size")
           cost == TotalCost(o.slices)
<1>1. /\ EpisodeType /\ TradeType /\ ImpactType /\ index \in Nat \ {0} /\ now \in Nat
      /\ session \in Sessions /\ ParentType /\ ParentIsSound /\ ChildIsSound /\ InParent
  BY DEF BInv, TypeOK, InParent
<1>2. InEpisode /\ session.cash >= 0
  BY <1>1 DEF ParentType, ParentIsSound
<1>3. /\ IsRequest(e) /\ e.kind = "entry" /\ e.side = "BUY" /\ e.spend = None
      /\ e.cash = ChildCash(e.arrival) /\ e.shares = session.pending
      /\ e.deadline = session.plan.deadline /\ e.deadline # None
      /\ e.decision = now /\ e.arrival \in Nat /\ now <= e.arrival
  BY <1>1, <1>2, ChildIsRequest
<1> HIDE DEF e
<1>4. index \in Nat
  BY <1>1
<1>5. /\ o \in SentOrder /\ o.kind = e.kind /\ o.side = e.side /\ o.decision = e.decision
      /\ o.arrival = e.arrival /\ o.row = index
      /\ e.spend = None => o.requested = e.shares
      /\ size <= o.requested
      /\ e.side = "BUY" => cost <= (IF e.spend # None THEN e.spend ELSE e.cash)
      /\ IsTaken(x.consumed) /\ x.cursor \in [TapeTokens -> Nat]
      /\ o.slices = << >> \/ Takes(e, x)
  BY <1>1, <1>3, <1>4, OutcomeIs
<1>6. Takes(e, x) => e.cash > 0 /\ e.arrival <= e.deadline
  BY <1>3 DEF Takes, Meets
<1>7. o.slices \in Seq(SliceTypes)
  BY <1>5 DEF SentOrder
<1>8. size \in Nat /\ cost \in Nat
  BY <1>7, TotalIsNat
<1> HIDE DEF x, size, cost
<1>9. /\ o.kind = "entry" /\ o.decision = now /\ o.requested = session.pending
      /\ o.arrival = e.arrival /\ now <= o.arrival /\ o.arrival \in Nat
      /\ size <= session.pending /\ cost <= ChildCash(o.arrival)
      /\ o.slices # << >> => ChildCash(o.arrival) > 0 /\ o.arrival <= session.plan.deadline
  BY <1>3, <1>5, <1>6
<1>10. cost <= session.cash
  <2>1. ChildCash(o.arrival) \in Nat /\ ChildCash(o.arrival) <= session.cash
    BY <1>1, <1>2, ChildCashIs
  <2>2. session.cash \in Int
    BY <1>1, SessionFields
  <2>3. QED
    BY <1>8, <1>9, <2>1, <2>2
<1>11. /\ session.pending <= Remaining(session) /\ session.pendingAt = now
       /\ Remaining(session) \in Int /\ session.pending \in Nat
       /\ session.plan.deadline \in Nat /\ session.cash \in Int
  BY <1>1, SessionFields DEF ChildIsSound
<1>12. ~OutcomeRaises(session, o)
  <2>1. ~(o.requested # session.pending \/ o.decision # session.pendingAt)
    BY <1>9, <1>11
  <2>2. ~(o.arrival < session.pendingAt)
    BY <1>1, <1>9, <1>11
  <2>3. ~(o.arrival > session.plan.deadline /\ o.slices # << >>)
    BY <1>9, <1>11
  <2>4. ~(size > session.pending) /\ ~(size > Remaining(session)) /\ ~(cost > session.cash)
    BY <1>8, <1>9, <1>10, <1>11
  <2>5. QED
    BY <2>1, <2>2, <2>3, <2>4 DEF OutcomeRaises, size, cost
<1>13. QED
  BY <1>5, <1>8, <1>9, <1>10, <1>12 DEF x, e, size, cost

LEMMA SendChildKeeps ==
  ASSUME BInv, SendChild
  PROVE  BInv'
<1>1. PICK latency \in Latencies : \E x \in {Outcome(ChildOrder(latency))} :
         /\ Log(x)
         /\ IF OutcomeRaises(session, x.order)
            THEN phase' = "raised" /\ UNCHANGED <<session, now>>
            ELSE /\ session' = RecordOutcome(session, x.order)
                 /\ phase' = "decisions"
                 /\ IF Remaining(session') <= 0 THEN now' = TapeEnd ELSE Tick
  BY Zenon DEF SendChild
<1> DEFINE x == Outcome(ChildOrder(latency))
           o == x.order
           n == Len(orders)
           size == Total(o.slices, "size")
           cost == TotalCost(o.slices)
           r == RecordOutcome(session, o)
<1>2. /\ phase = "child"
      /\ UNCHANGED <<outer, index, trade, exits, result>>
  BY DEF SendChild
<1>3. /\ EpisodeType /\ TradeType /\ ExitType /\ ResultType
      /\ index \in Nat \ {0} /\ now \in Nat
      /\ session \in Sessions /\ orders \in Seq(SentOrder) /\ InParent
      /\ ParentType /\ ParentIsSound /\ ChildIsSound
  BY <1>2 DEF BInv, TypeOK, InParent
<1>4. /\ o \in SentOrder /\ o.kind = "entry" /\ o.row = index /\ o.decision = now
      /\ o.arrival \in Nat
      /\ size \in Nat /\ size <= session.pending
      /\ cost \in Nat /\ cost <= ChildCash(o.arrival) /\ cost <= session.cash
      /\ o.slices # << >> => ChildCash(o.arrival) > 0 /\ o.arrival <= session.plan.deadline
      /\ IsTaken(x.consumed) /\ x.cursor \in [TapeTokens -> Nat]
      /\ ~OutcomeRaises(session, o)
  BY <1>2, ChildIsTaken
<1>5. /\ orders' = Append(orders, o) /\ consumed' = x.consumed /\ cursor' = x.cursor
      /\ session' = r /\ phase' = "decisions"
      /\ IF Remaining(session') <= 0 THEN now' = TapeEnd ELSE Tick
  BY <1>1, <1>4 DEF Log
<1>6. /\ r \in Sessions
      /\ r.plan = session.plan /\ r.lastDecision = session.lastDecision
      /\ r.cash = session.cash - cost /\ r.filled = session.filled + size
      /\ r.fills = session.fills \o o.slices /\ r.pending = 0
      /\ session.notBefore <= r.notBefore /\ o.arrival <= r.notBefore
  BY <1>3, <1>4, RecordIsWithin
<1> HIDE DEF x, o, n, size, cost, r
<1>7. /\ session.plan \in Plans /\ session.plan.target \in Nat /\ session.plan.deadline \in Nat
      /\ session.plan.start \in Nat
      /\ session.cash \in Int /\ session.filled \in Nat /\ session.fills \in Seq(SliceTypes)
      /\ session.notBefore \in Nat /\ session.lastDecision \in {None} \cup Nat
      /\ session.pending \in Nat /\ Remaining(session) = session.plan.target - session.filled
  BY <1>3, SessionFields DEF Remaining
<1>8. o.slices \in Seq(SliceTypes)
  BY <1>4 DEF SentOrder
<1>9. /\ Total(r.fills, "size") = Total(session.fills, "size") + size
      /\ TotalCost(r.fills) = TotalCost(session.fills) + cost
      /\ TotalCost(session.fills) \in Nat /\ Total(session.fills, "size") \in Nat
      /\ r.fills = << >> => session.fills = << >> /\ o.slices = << >>
  <2>1. /\ Total(r.fills, "size") = Total(session.fills, "size") + size
        /\ TotalCost(r.fills) = TotalCost(session.fills) + cost
    BY <1>6, <1>7, <1>8, TotalOfBoth DEF size, cost
  <2>2. TotalCost(session.fills) \in Nat /\ Total(session.fills, "size") \in Nat
    BY <1>7, TotalIsNat
  <2>3. ASSUME r.fills = << >> PROVE session.fills = << >> /\ o.slices = << >>
    <3>1. Len(session.fills \o o.slices) = Len(session.fills) + Len(o.slices)
      BY <1>7, <1>8, ConcatProperties
    <3>2. Len(session.fills \o o.slices) = 0
      BY <1>6, <2>3
    <3>3. Len(session.fills) \in Nat /\ Len(o.slices) \in Nat
      BY <1>7, <1>8, LenProperties
    <3>4. Len(session.fills) = 0 /\ Len(o.slices) = 0
      BY <3>1, <3>2, <3>3, NoneOfBoth
    <3>5. QED
      BY <1>7, <1>8, <3>4, EmptySeq
  <2>4. QED
    BY <2>1, <2>2, <2>3
<1>10. /\ session.cash >= 0 /\ session.filled <= session.plan.target
       /\ SizeIn(orders, Bought) = Total(session.fills, "size")
       /\ CostIn(orders, Bought) = TotalCost(session.fills)
       /\ session.fills = << >> => Filled = {}
       /\ params.notional # None => session.cash + TotalCost(session.fills) <= params.notional
       /\ session.lastDecision # None => session.lastDecision <= now
       /\ \A i \in DOMAIN orders : orders[i].row = index => orders[i].arrival <= session.notBefore
       /\ \A i \in Filled : orders[i].arrival <= session.plan.deadline
  BY <1>3 DEF ParentIsSound
<1>11. /\ session.pending <= Remaining(session) /\ session.notBefore <= now
       /\ now <= session.plan.deadline
  BY <1>2, <1>3 DEF ChildIsSound
<1>12. /\ Sales = {} /\ debited = 0 /\ position.shares = 0
       /\ \A i \in Filled : orders[i].row = index
  BY <1>3 DEF BInv, NothingBefore
<1>13. /\ orders' \in Seq(SentOrder)
       /\ n \in Nat /\ DOMAIN orders = 1 .. n /\ DOMAIN orders' = 1 .. n + 1
       /\ orders'[n + 1] = o /\ \A i \in 1 .. n : orders'[i] = orders[i]
       /\ Filled' = Filled \cup (IF o.slices # << >> THEN {n + 1} ELSE {})
       /\ Filled \in SUBSET (1 .. n)
       /\ Sales' = {}
       /\ SizeIn(orders', Bought') = SizeIn(orders, Bought) + size
       /\ CostIn(orders', Bought') = CostIn(orders, Bought) + cost
       /\ SizeIn(orders, Bought) \in Nat /\ CostIn(orders, Bought) \in Nat
  <2>1. o.kind = "entry" /\ o \in SentOrder /\ orders \in Seq(SentOrder)
        /\ orders' = Append(orders, o)
    BY <1>3, <1>4, <1>5
  <2>2. /\ SizeIn(orders', Bought') = SizeIn(orders, Bought) + size
        /\ CostIn(orders', Bought') = CostIn(orders, Bought) + cost
    BY <2>1, LogIs DEF size, cost
  <2>3. Sales' = Sales \cup {}
    BY <2>1, LogIs
  <2>4. QED
    BY <1>12, <2>1, <2>2, <2>3, LogIs DEF n
<1>14. /\ Row' = Row /\ Deadline' = Deadline /\ InEpisode' = InEpisode
       /\ params' = params /\ wallet' = wallet /\ debited' = debited /\ position' = position
       /\ index' = index
  BY <1>2 DEF outer, trade, Row, Deadline, InEpisode
<1>15. now' \in Nat /\ now <= now'
  <2>1. InEpisode /\ session.plan.deadline = Deadline
    BY <1>3 DEF ParentType
  <2>2. session.plan.deadline < TapeEnd /\ TapeEnd \in Nat
    BY <1>3, <2>1, DeadlineIs, ParamFields
  <2>3. CASE now' = TapeEnd
    <3>1. session.plan.deadline <= TapeEnd
      BY <1>7, <2>2
    <3>2. now <= TapeEnd
      BY <1>3, <1>7, <1>11, <2>2, <3>1, InTurn
    <3>3. QED
      BY <2>2, <2>3, <3>2
  <2>4. CASE Tick
    <3>1. now' \in Nat /\ now < now'
      BY <1>3, <1>11, <2>2, <2>4, TickIsLater
    <3>2. QED
      BY <1>3, <3>1
  <2>5. QED
    BY <1>5, <2>3, <2>4
<1>16. InParent' /\ phase' = "decisions"
  BY <1>5 DEF InParent
<1>17. TypeOK'
  <2>1. EpisodeType' /\ TradeType' /\ ExitType' /\ ResultType'
    BY <1>2, <1>3 DEF EpisodeType, TradeType, ExitType, ResultType, outer, trade, exits
  <2>2. ImpactType'
    BY <1>4, <1>5 DEF ImpactType
  <2>3. session.plan.start <= now'
    <3>1. session.plan.start <= now
      BY <1>3 DEF ParentType
    <3>2. session.plan.start \in Int /\ now \in Int /\ now' \in Int /\ now <= now'
      BY <1>3, <1>7, <1>15
    <3>3. QED
      BY <3>1, <3>2, InTurn
  <2>4. ParentType'
    BY <1>3, <1>5, <1>6, <1>14, <2>3 DEF ParentType
  <2>5. QED
    BY <1>3, <1>5, <1>6, <1>13, <1>14, <1>15, <2>1, <2>2, <2>4 DEF TypeOK, Phases
<1>18. SentIsSound'
  <2>1. ASSUME o.slices # << >>, params.notional # None
        PROVE  CostIn(orders', Bought') <= params.notional
    <3>1. CostIn(orders', Bought') = TotalCost(session.fills) + cost
      BY <1>10, <1>13
    <3>2. params.notional \in Nat
      BY <1>3, <2>1, ParamFields
    <3>3. QED
      BY <1>4, <1>7, <1>9, <1>10, <2>1, <3>1, <3>2, BudgetIsKept
  <2>2. ASSUME o.slices # << >>, wallet # NoWallet
        PROVE  CostIn(orders', Bought')
                 <= (IF o.arrival < wallet.from THEN wallet.early ELSE wallet.late)
    <3>1. CostIn(orders', Bought') = TotalCost(session.fills) + cost
      BY <1>10, <1>13
    <3>2. /\ ChildCash(o.arrival) \in Nat
          /\ ChildCash(o.arrival) > 0 =>
               ChildCash(o.arrival) + TotalCost(session.fills) <= CashAt(o.arrival)
      BY <1>3, <1>10, ChildCashIs
    <3>3. CashAt(o.arrival) \in Nat
          /\ CashAt(o.arrival) = (IF o.arrival < wallet.from THEN wallet.early ELSE wallet.late)
      BY <1>3, <1>12, <2>2, CashIsNat
    <3>4. TotalCost(session.fills) + cost <= CashAt(o.arrival)
      BY <1>4, <1>9, <2>2, <3>2, <3>3
    <3>5. QED
      BY <3>1, <3>3, <3>4
  <2>3. EntriesAreFunded'
    BY <1>3, <1>4, <1>5, <1>14, <2>1, <2>2, FundedAgain
  <2>4. ASSUME NEW i \in DOMAIN orders, i \in Filled \cup Sales \/ orders[i].row = o.row
        PROVE  orders[i].arrival <= o.decision
    <3>1. orders[i].arrival \in Nat
      BY <1>3, <2>4, SentFields
    <3>2. orders[i].row = index
      BY <1>4, <1>12, <2>4
    <3>3. orders[i].arrival <= session.notBefore
      BY <1>10, <3>2
    <3>4. QED
      BY <1>3, <1>4, <1>7, <1>11, <3>1, <3>3
  <2>5. NothingSoldBeforeItArrived'
    BY <1>3, <1>4, <1>5, <2>4, OrderedAgain
  <2>6. QED
    BY <2>3, <2>5 DEF SentIsSound
<1>19. OrdersAreBehind'
  <2>1. ASSUME NEW i \in DOMAIN orders'
        PROVE  orders'[i].row <= index
    <3>1. CASE i = n + 1
      BY <1>3, <1>4, <1>13, <3>1
    <3>2. CASE i \in 1 .. n
      BY <1>13, <3>2 DEF BInv, OrdersAreBehind
    <3>3. QED
      BY <1>13, <3>1, <3>2
  <2>2. QED
    BY <1>14, <1>16, <2>1 DEF OrdersAreBehind
<1>20. NothingBefore'
  <2>1. ASSUME NEW i \in Filled' PROVE orders'[i].row = index
    <3>1. CASE i = n + 1
      BY <1>4, <1>13, <3>1
    <3>2. CASE i # n + 1
      BY <1>12, <1>13, <2>1, <3>2
    <3>3. QED
      BY <3>1, <3>2
  <2>2. QED
    BY <1>12, <1>13, <1>14, <1>16, <2>1 DEF NothingBefore
<1>21. PositionIsHeld' /\ SessionNeverRaises' /\ ChildIsSound'
  BY <1>5, <1>6 DEF PositionIsHeld, SessionNeverRaises, ChildIsSound
<1>22. ParentIsSound'
  <2>1. r.cash >= 0 /\ r.filled <= r.plan.target
    <3>1. r.cash >= 0
      BY <1>4, <1>6, <1>7
    <3>2. r.filled <= r.plan.target
      <4>1. size \in Nat /\ size <= session.pending
            /\ session.plan.target \in Nat /\ session.filled \in Nat /\ session.pending \in Nat
        BY <1>4, <1>7
      <4>2. session.pending <= session.plan.target - session.filled
        BY <1>7, <1>11
      <4>3. session.filled + size <= session.plan.target
        BY <4>1, <4>2, TargetIsKept
      <4>4. QED
        BY <1>6, <4>3
    <3>3. QED
      BY <3>1, <3>2
  <2>2. /\ SizeIn(orders', Bought') = Total(r.fills, "size")
        /\ CostIn(orders', Bought') = TotalCost(r.fills)
    BY <1>9, <1>10, <1>13
  <2>3. r.fills = << >> => Filled' = {}
    BY <1>9, <1>10, <1>13
  <2>4. params.notional # None => r.cash + TotalCost(r.fills) <= params.notional
    <3>1. r.cash + TotalCost(r.fills) = session.cash + TotalCost(session.fills)
      BY <1>4, <1>6, <1>7, <1>9, BudgetIsKept
    <3>2. QED
      BY <1>10, <3>1
  <2>5. r.lastDecision # None => r.lastDecision <= now'
    BY <1>3, <1>6, <1>7, <1>10, <1>15
  <2>6. ASSUME NEW i \in DOMAIN orders', orders'[i].row = index
        PROVE  orders'[i].arrival <= r.notBefore
    <3>1. CASE i = n + 1
      BY <1>6, <1>13, <3>1
    <3>2. CASE i \in 1 .. n
      <4>1. orders[i].arrival <= session.notBefore /\ orders[i].arrival \in Nat
        BY <1>3, <1>10, <1>13, <2>6, <3>2, SentFields
      <4>2. r.notBefore \in Nat /\ session.notBefore \in Nat /\ session.notBefore <= r.notBefore
        BY <1>6, <1>7, SessionFields
      <4>3. orders[i].arrival <= r.notBefore
        BY <4>1, <4>2, InTurn
      <4>4. orders'[i] = orders[i]
        BY <1>13, <3>2
      <4>5. QED
        BY <4>3, <4>4
    <3>3. QED
      BY <1>13, <3>1, <3>2
  <2>7. ASSUME NEW i \in Filled' PROVE orders'[i].arrival <= r.plan.deadline
    <3>1. CASE i = n + 1
      <4>1. n + 1 \notin Filled
        BY <1>13
      <4>2. o.slices # << >>
        BY <1>13, <2>7, <3>1, <4>1
      <4>3. QED
        BY <1>4, <1>6, <1>13, <3>1, <4>2
    <3>2. CASE i # n + 1
      BY <1>6, <1>10, <1>13, <2>7, <3>2
    <3>3. QED
      BY <3>1, <3>2
  <2>8. QED
    BY <1>5, <1>14, <2>1, <2>2, <2>3, <2>4, <2>5, <2>6, <2>7 DEF ParentIsSound
<1>23. QED
  BY <1>17, <1>18, <1>19, <1>20, <1>21, <1>22 DEF BInv

LEMMA MarkIsPrice ==
  ASSUME EpisodeType, session \in Sessions, PlanIsLegal(session.plan)
  PROVE  DeadlineMark \in Nat /\ DeadlineMark > 0
<1> DEFINE i == RowAt(tape, Row.token, session.plan.deadline)
           best == Best(tape.rows[i].asks)
<1>1. session.plan.deadline \in Nat /\ session.plan.benchmark \in Nat /\ session.plan.benchmark > 0
  BY SessionFields DEF PlanIsLegal
<1>2. tape.rows \in Seq(TapeRow)
  BY TapeIsTyped
<1>3. CASE i # 0 /\ best # None
  <2>1. i \in 1 .. Len(tape.rows)
    BY <1>1, <1>2, <1>3, RowAtIsLast
  <2> HIDE DEF i
  <2>2. tape.rows[i].asks \in Seq(Level)
    BY <1>2, <2>1, RowFields
  <2>3. best \in Price
    BY <1>3, <2>2, BestIsPrice
  <2>4. best \in Nat /\ best > 0
    BY <2>3, PriceIsNat
  <2>5. DeadlineMark = best
    BY <1>3 DEF DeadlineMark, i
  <2>6. QED
    BY <2>4, <2>5
<1>4. CASE ~(i # 0 /\ best # None)
  BY <1>1, <1>4 DEF DeadlineMark
<1>5. QED
  BY <1>3, <1>4

LEMMA ObjectiveIsInt ==
  ASSUME NEW s \in Sessions, s.filled <= s.plan.target, NEW mark \in Nat
  PROVE  Objective(s, mark) \in Int
<1> DEFINE S == DOMAIN s.fills
           f == [i \in S |-> NotionalScaled(s.fills[i].size, Max({0, s.fills[i].price - mark}))]
           cost == TotalCost(s.fills)
           had == NotionalScaled(s.filled, s.plan.benchmark)
           missed == NotionalScaled(Remaining(s), s.plan.benchmark)
<1>1. /\ s.fills \in Seq(SliceTypes) /\ s.filled \in Nat /\ s.plan.target \in Nat
      /\ s.plan.benchmark \in Nat
  BY SessionFields
<1>2. Remaining(s) \in Nat
  BY <1>1 DEF Remaining
<1>3. PriceScale \in Nat /\ PriceScale > 0
  BY PriceScaleAssumption
<1>4. ASSUME NEW a \in Nat, NEW b \in Nat
      PROVE  NotionalScaled(a, b) \in Nat
  <2>1. a * b \in Nat
    BY ProductIsNat
  <2>2. QED
    BY <1>3, <2>1, HalfUpIsNat DEF NotionalScaled
<1>5. had \in Nat /\ missed \in Nat /\ cost \in Nat
  BY <1>1, <1>2, <1>4, TotalIsNat
<1>6. S = 1 .. Len(s.fills) /\ Len(s.fills) \in Nat
  BY <1>1, LenProperties
<1>7. IsFiniteSet(S)
  BY <1>6, FS_Interval
<1>8. ASSUME NEW i \in S PROVE f[i] \in Nat
  <2>1. s.fills[i].size \in Nat /\ s.fills[i].price \in Nat
    BY <1>1, <1>8, SliceFields, PriceIsNat
  <2>2. Max({0, s.fills[i].price - mark}) \in Nat
    <3>1. s.fills[i].price - mark \in Int
      BY <2>1
    <3>2. QED
      BY <3>1, MaxOfTwo
  <2>3. QED
    BY <1>4, <2>1, <2>2
<1>9. Objective(s, mark) = (cost - had) + missed + SumFunctionOnSet(f, S)
  BY DEF Objective, SumFunction
<1> HIDE DEF S, f, cost, had, missed
<1>10. SumFunctionOnSet(f, S) \in Nat
  BY <1>7, <1>8, SumIsNat
<1>11. QED
  BY <1>5, <1>9, <1>10

LEMMA FinishParentKeeps ==
  ASSUME BInv, FinishParent
  PROVE  BInv'
<1> DEFINE children == {i \in DOMAIN orders : orders[i].row = index}
           arrived == {orders[i].arrival : i \in {j \in children : orders[j].slices # << >>}}
           effective == Max({session.plan.deadline} \cup arrived)
           fills == session.fills
           objective == Objective(session, DeadlineMark)
<1>1. /\ phase = "decisions" /\ UNCHANGED <<outer, stop, attempted, impact, orders>>
      /\ \/ EvaluateRaises(session, arrived, DeadlineMark)
         \/ /\ entries' \in {entries, entries + 1}
            /\ nextEntry' = session.plan.deadline + params.cooldown
            /\ Enter(fills, effective, [result EXCEPT !.objective = objective])
            /\ phase' = "rows" /\ index' = index + 1 /\ now' = 0 /\ session' = NoSession
  BY DEF FinishParent
<1>2. /\ EpisodeType /\ TradeType /\ ExitType /\ ImpactType /\ ResultType
      /\ index \in Nat \ {0} /\ now \in Nat
      /\ session \in Sessions /\ orders \in Seq(SentOrder) /\ InParent
      /\ ParentType /\ ParentIsSound /\ ChildIsSound
  BY <1>1 DEF BInv, TypeOK, InParent
<1>3. InEpisode /\ PlanIsLegal(session.plan)
  BY <1>2 DEF ParentType
<1>4. /\ session.filled <= session.plan.target
      /\ SizeIn(orders, Bought) = Total(fills, "size")
      /\ fills = << >> => Filled = {}
      /\ \A i \in Filled : orders[i].arrival <= session.plan.deadline
  BY <1>2 DEF ParentIsSound
<1>5. /\ session.plan.deadline \in Nat /\ fills \in Seq(SliceTypes)
      /\ Row.at \in Nat /\ Row.token \in TapeTokens
  BY <1>2, <1>3, SessionFields, RowIsTape
<1>6. \A t \in arrived : t \in Nat /\ t <= session.plan.deadline
  <2>1. ASSUME NEW i \in children, orders[i].slices # << >>
        PROVE  orders[i].arrival \in Nat /\ orders[i].arrival <= session.plan.deadline
    <3>1. i \in Filled
      BY <2>1 DEF Filled
    <3>2. QED
      BY <1>2, <1>4, <3>1, SentFields
  <2>2. QED
    BY <2>1
<1>7. IsFiniteSet(arrived)
  <2> DEFINE those == {j \in children : orders[j].slices # << >>}
  <2>1. those \in SUBSET DOMAIN orders
    OBVIOUS
  <2>2. IsFiniteSet(those)
    BY <1>2, <2>1, SentFields, FS_Subset
  <2>3. arrived = {orders[i].arrival : i \in those}
    OBVIOUS
  <2> HIDE DEF those, arrived
  <2>4. IsFiniteSet({orders[i].arrival : i \in those})
    <3> DEFINE im == [i \in those |-> orders[i].arrival]
               R == {orders[i].arrival : i \in those}
    <3>1. im \in Surjection(those, R)
      BY DEF Surjection
    <3>2. QED
      BY <2>2, <3>1, FS_Surjection
  <2>5. QED
    BY <2>3, <2>4
<1> HIDE DEF arrived, children
<1>8. effective \in Nat /\ \A i \in Filled : orders[i].arrival <= effective
  <2> DEFINE S == {session.plan.deadline} \cup arrived
  <2>1. IsFiniteSet({session.plan.deadline})
    BY FS_Singleton
  <2>2. IsFiniteSet(S) /\ S \in SUBSET Int /\ S # {} /\ \A t \in S : t \in Nat
    <3>1. IsFiniteSet(S)
      BY <1>7, <2>1, FS_Union
    <3>2. \A t \in S : t \in Nat
      BY <1>5, <1>6
    <3>3. QED
      BY <3>1, <3>2
  <2> HIDE DEF S
  <2>3. Max(S) \in S /\ \A t \in S : t <= Max(S)
    BY <2>2, MaxIsGreatest
  <2>4. Max(S) \in Nat /\ session.plan.deadline <= Max(S)
    <3>1. session.plan.deadline \in S
      BY DEF S
    <3>2. QED
      BY <2>2, <2>3, <3>1
  <2>5. effective = Max(S)
    BY DEF S
  <2> HIDE DEF effective
  <2>6. ASSUME NEW i \in Filled PROVE orders[i].arrival <= effective
    <3>1. orders[i].arrival \in Nat
      BY <1>2, SentFields DEF Filled
    <3>2. orders[i].arrival <= session.plan.deadline
      BY <1>4
    <3>3. orders[i].arrival \in Int /\ session.plan.deadline \in Int /\ effective \in Int
          /\ session.plan.deadline <= effective
      BY <1>5, <2>4, <2>5, <3>1
    <3>4. QED
      BY <3>2, <3>3, InTurn
  <2>7. QED
    BY <2>4, <2>5, <2>6
<1>9. DeadlineMark \in Nat /\ DeadlineMark > 0
  BY <1>2, <1>3, MarkIsPrice
<1>10. ~EvaluateRaises(session, arrived, DeadlineMark)
  <2>1. session.pending = 0
    BY <1>1, <1>2 DEF ChildIsSound
  <2>2. ~(session.pending > 0) /\ ~(DeadlineMark <= 0)
    BY <1>9, <2>1
  <2>3. ~(\E t \in arrived : t > session.plan.deadline)
    BY <1>5, <1>6
  <2>4. ~(session.filled > session.plan.target)
    <3>1. session.filled \in Nat /\ session.plan.target \in Nat
      BY <1>2, SessionFields
    <3>2. QED
      BY <1>4, <3>1
  <2>5. QED
    BY <2>2, <2>3, <2>4 DEF EvaluateRaises
<1>11. objective \in Int
  BY <1>2, <1>4, <1>9, ObjectiveIsInt
<1> HIDE DEF effective, objective
<1>12. /\ entries' \in {entries, entries + 1}
       /\ nextEntry' = session.plan.deadline + params.cooldown
       /\ Enter(fills, effective, [result EXCEPT !.objective = objective])
       /\ phase' = "rows" /\ index' = index + 1 /\ now' = 0 /\ session' = NoSession
  BY <1>1, <1>10
<1>13. /\ ResultType'
       /\ position' \in [shares : Nat, cost : Nat, token : TapeTokens, effective : Nat]
       /\ debited' \in Nat
       /\ reason' \in {"no_entry", "settlement", "stop_unfilled_held_to_settlement",
                       "stop_loss", "take_profit", "flatten"}
       /\ fills = << >> => position' = position /\ debited' = debited
       /\ fills # << >> => /\ position'.shares = Total(fills, "size")
                           /\ position'.shares > 0
                           /\ position'.effective = effective
  BY <1>2, <1>5, <1>8, <1>11, <1>12, EnteredIs
<1>14. Sales = {} /\ debited = 0 /\ position.shares = 0
  BY <1>2 DEF BInv, NothingBefore
<1>15. /\ orders' = orders /\ Filled' = Filled /\ Sales' = Sales
       /\ SizeIn(orders, Bought)' = SizeIn(orders, Bought)
       /\ SizeIn(orders, Sales)' = 0
  <2>1. orders' = orders
    BY <1>1
  <2>2. Sales' = {}
    BY <1>14, <2>1, NothingSent
  <2>3. QED
    BY <1>14, <2>1, <2>2, NothingSent, NothingIn
<1>16. TypeOK'
  <2>1. EpisodeType' /\ ImpactType'
    BY <1>1, <1>2 DEF EpisodeType, ImpactType, outer, impact
  <2>2. entries' \in Nat /\ nextEntry' \in Nat
    <3>1. entries \in Nat /\ params.cooldown \in Nat
      BY <1>2, ParamFields DEF TradeType
    <3>2. QED
      BY <1>5, <1>12, <3>1
  <2>3. TradeType' /\ ExitType'
    BY <1>1, <1>2, <1>13, <2>2 DEF TradeType, ExitType
  <2>4. NoSession \in Sessions
    <3>1. << >> \in Seq(SliceTypes)
      BY EmptySeq
    <3>2. QED
      BY <3>1 DEF NoSession, NewSession, Sessions, Plans
  <2>5. phase' \in Phases /\ index' \in Nat \ {0} /\ now' \in Nat /\ session' \in Sessions
        /\ orders' \in Seq(SentOrder)
    BY <1>2, <1>12, <1>15, <2>4 DEF Phases
  <2>6. ParentType'
    BY <1>12 DEF ParentType, InParent
  <2>7. QED
    BY <1>13, <2>1, <2>3, <2>5, <2>6 DEF TypeOK
<1>17. SentIsSound'
  BY <1>1, SentStays DEF BInv, outer
<1>18. OrdersAreBehind'
  <2>1. \A i \in DOMAIN orders : orders[i].row <= index /\ orders[i].row \in Nat
    BY <1>2, SentFields DEF BInv, OrdersAreBehind
  <2>2. \A i \in DOMAIN orders : orders[i].row < index + 1 /\ orders[i].row <= index + 1
    BY <1>2, <2>1
  <2>3. QED
    BY <1>12, <1>15, <2>2 DEF OrdersAreBehind
<1>19. NothingBefore'
  <2>1. CASE fills = << >>
    BY <1>4, <1>12, <1>13, <1>14, <1>15, <2>1 DEF NothingBefore, InParent
  <2>2. CASE fills # << >>
    <3>1. position'.shares # 0 /\ ~InParent'
      BY <1>12, <1>13, <2>2 DEF InParent
    <3>2. QED
      BY <3>1 DEF NothingBefore
  <2>3. QED
    BY <2>1, <2>2
<1>20. PositionIsHeld'
  <2>1. CASE fills = << >>
    <3>1. Filled = {} /\ position'.shares = 0
      BY <1>4, <1>13, <1>14, <2>1
    <3>2. Bought = {}
      BY <3>1 DEF Bought
    <3>3. SizeIn(orders, Bought) = 0
      BY <3>2, NothingIn
    <3>4. QED
      BY <1>14, <1>15, <3>1, <3>3 DEF PositionIsHeld
  <2>2. CASE fills # << >>
    <3>1. position'.shares = Total(fills, "size") /\ position'.effective = effective
      BY <1>13, <2>2
    <3>2. Total(fills, "size") \in Nat
      BY <1>5, TotalIsNat
    <3>3. SizeIn(orders, Bought)' = SizeIn(orders, Sales)' + position'.shares
      BY <1>4, <1>15, <3>1, <3>2
    <3>4. \A i \in Filled' \cup Sales' : orders'[i].arrival <= position'.effective
      BY <1>8, <1>14, <1>15, <3>1
    <3>5. QED
      BY <3>3, <3>4 DEF PositionIsHeld
  <2>3. QED
    BY <2>1, <2>2
<1>21. ParentIsSound' /\ ChildIsSound' /\ SessionNeverRaises'
  BY <1>12 DEF ParentIsSound, ChildIsSound, SessionNeverRaises, InParent
<1>22. QED
  BY <1>16, <1>17, <1>18, <1>19, <1>20, <1>21 DEF BInv

LEMMA SettleKeeps ==
  ASSUME BInv, Settle
  PROVE  BInv'
<1> DEFINE payout == IF position.token = WinnerToken THEN position.shares ELSE 0
           net == result.exitNotional + payout - position.cost - result.fees
<1>1. /\ phase \in {"rows", "sold"} /\ phase' = "settled"
      /\ result' = [result EXCEPT !.payout = payout, !.net = net]
      /\ reason' \in {reason, "stop_unfilled_held_to_settlement"}
      /\ UNCHANGED <<outer, index, now, trade, stop, attempted, impact, session, orders>>
  BY DEF Settle
<1>2. /\ EpisodeType /\ TradeType /\ ExitType /\ ImpactType /\ ResultType
      /\ index \in Nat \ {0} /\ now \in Nat
      /\ session \in Sessions /\ orders \in Seq(SentOrder) /\ ~InParent
  BY <1>1 DEF BInv, TypeOK, InParent
<1>3. payout \in Nat /\ net \in Int
  <2>1. /\ position.shares \in Nat /\ position.cost \in Nat
        /\ result.exitNotional \in Nat /\ result.fees \in Nat
    BY <1>2 DEF TradeType, ResultType
  <2>2. payout \in Nat
    BY <2>1
  <2> DEFINE a == result.exitNotional
             b == position.cost
             c == result.fees
  <2>3. a \in Nat /\ b \in Nat /\ c \in Nat
    BY <2>1
  <2>4. net = a + payout - b - c
    OBVIOUS
  <2> HIDE DEF a, b, c, payout, net
  <2>5. QED
    BY <2>2, <2>3, <2>4
<1> HIDE DEF payout, net
<1>4. TypeOK'
  <2>1. EpisodeType' /\ TradeType' /\ ImpactType'
    BY <1>1, <1>2 DEF EpisodeType, TradeType, ImpactType, outer, trade, impact
  <2>2. ExitType'
    BY <1>1, <1>2 DEF ExitType
  <2>3. ResultType'
    BY <1>1, <1>2, <1>3 DEF ResultType
  <2>4. ParentType' /\ phase' \in Phases
    BY <1>1 DEF ParentType, InParent, Phases
  <2>5. QED
    BY <1>1, <1>2, <2>1, <2>2, <2>3, <2>4 DEF TypeOK
<1>5. SentIsSound'
  BY <1>1, SentStays DEF BInv, outer
<1>6. OrdersAreBehind'
  BY <1>1, <1>2 DEF BInv, OrdersAreBehind
<1>7. NothingBefore' /\ PositionIsHeld' /\ ParentIsSound' /\ ChildIsSound' /\ SessionNeverRaises'
  BY <1>1 DEF NothingBefore, PositionIsHeld, ParentIsSound, ChildIsSound, SessionNeverRaises,
              InParent
<1>8. QED
  BY <1>4, <1>5, <1>6, <1>7 DEF BInv

LEMMA StutterKeeps ==
  ASSUME BInv, UNCHANGED vars
  PROVE  BInv'
<1>1. /\ UNCHANGED <<outer, phase, index, now, trade, exits, impact, session, orders, result>>
  BY DEF vars
<1>2. TypeOK'
  BY <1>1 DEF BInv, TypeOK, EpisodeType, TradeType, ExitType, ImpactType, ResultType, ParentType,
              InParent, outer, trade, exits, impact, Row, Deadline, InEpisode
<1>3. SentIsSound'
  BY <1>1, SentStays DEF BInv, outer
<1>4. /\ Filled' = Filled /\ Sales' = Sales
      /\ SizeIn(orders, Bought)' = SizeIn(orders, Bought)
      /\ SizeIn(orders, Sales)' = SizeIn(orders, Sales)
      /\ CostIn(orders, Bought)' = CostIn(orders, Bought)
  BY <1>1, NothingSent
<1>5. OrdersAreBehind' /\ NothingBefore' /\ PositionIsHeld' /\ ParentIsSound' /\ ChildIsSound'
      /\ SessionNeverRaises'
  BY <1>1, <1>4 DEF BInv, OrdersAreBehind, NothingBefore, PositionIsHeld, ParentIsSound,
                    ChildIsSound, SessionNeverRaises, InParent, outer, trade, Remaining
<1>6. QED
  BY <1>2, <1>3, <1>5 DEF BInv

LEMMA StepInvariant ==
  ASSUME BInv, [Next]_vars
  PROVE  BInv'
<1>1. CASE SkipRow
  BY <1>1, SkipRowKeeps
<1>2. CASE SendExit
  BY <1>2, SendExitKeeps
<1>3. CASE EnterAtOnce
  BY <1>3, EnterAtOnceKeeps
<1>4. CASE StartParent
  BY <1>4, StartParentKeeps
<1>5. CASE DecideChild
  BY <1>5, DecideChildKeeps
<1>6. CASE SkipDecision
  BY <1>6, SkipDecisionKeeps
<1>7. CASE SendChild
  BY <1>7, SendChildKeeps
<1>8. CASE FinishParent
  BY <1>8, FinishParentKeeps
<1>9. CASE Settle
  BY <1>9, SettleKeeps
<1>10. CASE Over
  BY <1>10, StutterKeeps DEF Over
<1>11. CASE UNCHANGED vars
  BY <1>11, StutterKeeps
<1>12. QED
  BY <1>1, <1>2, <1>3, <1>4, <1>5, <1>6, <1>7, <1>8, <1>9, <1>10, <1>11 DEF Next

\* The inductive invariant (BInv) of a replay of one episode
\* (fastsim.py _simulate_episode): the other theorems are read off it.
THEOREM Invariant == Spec => []BInv
<1>1. Init => BInv
  BY InitInvariant
<1>2. BInv /\ [Next]_vars => BInv'
  BY StepInvariant
<1>3. QED
  BY <1>1, <1>2, PTL DEF Spec

\* Every variable keeps its type (TypeOK): shares, cash, fees and the depth
\* taken never become negative in the scan, the child clock and _send.
THEOREM TypeCorrect == Spec => []TypeOK
<1>1. BInv => TypeOK
  BY DEF BInv
<1>2. QED
  BY <1>1, Invariant, PTL

\* The errors of ExecutionSession.decide, record_outcome and evaluate never
\* end a replay (SessionNeverRaises): what _sequential_entry hands to the
\* session is what the session accepts.
THEOREM SessionCorrect == Spec => []SessionNeverRaises
<1>1. BInv => SessionNeverRaises
  BY DEF BInv
<1>2. QED
  BY <1>1, Invariant, PTL

\* What the entries have cost by the arrival of one of them is within the
\* wallet and the notional (EntriesAreFunded), whatever cash_at reports at
\* the decisions and the arrivals in between.
THEOREM FundedCorrect == Spec => []EntriesAreFunded
<1>1. BInv => EntriesAreFunded
  BY DEF BInv, SentIsSound
<1>2. QED
  BY <1>1, Invariant, PTL

\* Nothing is sold before it has been bought and has arrived
\* (NothingSoldBeforeItArrived): the exits of the scan wait for the arrival
\* of the entry, of the children and of the earlier exits.
THEOREM HeldCorrect == Spec => []NothingSoldBeforeItArrived
<1>1. BInv => NothingSoldBeforeItArrived
  BY DEF BInv, SentIsSound
<1>2. QED
  BY <1>1, Invariant, PTL

-----------------------------------------------------------------------------
(* Fills meet the book *)

\* A step sends nothing, or one order that becomes what Outcome says.
Sends(o) ==
  /\ IsRequest(o)
  /\ orders' = Append(orders, Outcome(o).order)
  /\ consumed' = Outcome(o).consumed /\ cursor' = Outcome(o).cursor

LEMMA SendExitSends ==
  ASSUME BInv, SendExit
  PROVE  \E latency \in Latencies : Sends(Exit(latency))
<1>1. PICK latency \in Latencies : Log(Outcome(Exit(latency)))
  BY Zenon DEF SendExit
<1>2. /\ EpisodeType /\ TradeType /\ index \in Nat \ {0} /\ InEpisode /\ ExitFor # NoExit
  BY DEF BInv, TypeOK, SendExit
<1>3. IsRequest(Exit(latency))
  BY <1>2, ExitIsRequest
<1>4. QED
  BY <1>1, <1>3 DEF Sends, Log

LEMMA EnterAtOnceSends ==
  ASSUME BInv, EnterAtOnce
  PROVE  \E latency \in Latencies : Sends(Entry(latency))
<1>1. PICK latency \in Latencies : Log(Outcome(Entry(latency)))
  BY Zenon DEF EnterAtOnce
<1>2. /\ EpisodeType /\ TradeType /\ index \in Nat \ {0} /\ InEpisode /\ Signal
  BY DEF BInv, TypeOK, EnterAtOnce
<1>3. IsRequest(Entry(latency))
  BY <1>2, EntryIsRequest
<1>4. QED
  BY <1>1, <1>3 DEF Sends, Log

LEMMA SendChildSends ==
  ASSUME BInv, SendChild
  PROVE  \E latency \in Latencies : Sends(ChildOrder(latency))
<1>1. PICK latency \in Latencies : Log(Outcome(ChildOrder(latency)))
  BY Zenon DEF SendChild
<1>2. /\ EpisodeType /\ TradeType /\ index \in Nat \ {0} /\ now \in Nat /\ session \in Sessions
      /\ InEpisode /\ session.cash >= 0
  BY DEF BInv, TypeOK, SendChild, ParentType, ParentIsSound, InParent
<1>3. IsRequest(ChildOrder(latency))
  BY <1>2, ChildIsRequest
<1>4. QED
  BY <1>1, <1>3 DEF Sends, Log

LEMMA StepSends ==
  ASSUME BInv, [Next]_vars
  PROVE  /\ UNCHANGED <<episode, tape, params, wallet>>
         /\ UNCHANGED orders \/ \E o : Sends(o)
<1>1. CASE SendExit
  <2>1. \E latency \in Latencies : Sends(Exit(latency))
    BY <1>1, SendExitSends
  <2>2. QED
    BY <1>1, <2>1 DEF SendExit, outer
<1>2. CASE EnterAtOnce
  <2>1. \E latency \in Latencies : Sends(Entry(latency))
    BY <1>2, EnterAtOnceSends
  <2>2. QED
    BY <1>2, <2>1 DEF EnterAtOnce, outer
<1>3. CASE SendChild
  <2>1. \E latency \in Latencies : Sends(ChildOrder(latency))
    BY <1>3, SendChildSends
  <2>2. QED
    BY <1>3, <2>1 DEF SendChild, outer
<1>4. CASE SkipRow
  BY <1>4 DEF SkipRow, outer
<1>5. CASE StartParent
  BY <1>5 DEF StartParent, outer
<1>6. CASE DecideChild
  BY <1>6 DEF DecideChild, outer
<1>7. CASE SkipDecision
  BY <1>7 DEF SkipDecision, outer
<1>8. CASE FinishParent
  BY <1>8 DEF FinishParent, outer
<1>9. CASE Settle
  BY <1>9 DEF Settle, outer
<1>10. CASE Over
  BY <1>10 DEF Over, vars, outer
<1>11. CASE UNCHANGED vars
  BY <1>11 DEF vars, outer
<1>12. QED
  BY <1>1, <1>2, <1>3, <1>4, <1>5, <1>6, <1>7, <1>8, <1>9, <1>10, <1>11 DEF Next

\* What an order takes is on the ladder it met, and no more of it.
LEMMA TakesOfLadder ==
  ASSUME EpisodeType, ImpactType, index \in Nat, NEW o, IsRequest(o),
         Takes(o, Outcome(o))
  PROVE  LET slices == Outcome(o).order.slices
             row    == tape.rows[RowAt(tape, o.token, o.arrival)]
             ladder == TakerLadder(row, o.side)
             after  == Replenished(o.token, RowAt(tape, o.token, o.arrival))
         IN  /\ RowAt(tape, o.token, o.arrival) \in 1 .. Len(tape.rows)
             /\ ladder \in Seq(Level)
             /\ IsTaken(after.consumed)
             /\ \E at \in [DOMAIN slices -> DOMAIN ladder] :
                  /\ \A j, k \in DOMAIN slices : at[j] = at[k] => j = k
                  /\ \A k \in DOMAIN slices :
                       /\ at[k] \in DOMAIN ladder
                       /\ slices[k].price = ladder[at[k]].price
                       /\ slices[k].size <= ladder[at[k]].size
                            - TakenFrom(after.consumed,
                                        LevelKey(o.token, BookSide(o.side), slices[k].price))
<1> DEFINE slices == Outcome(o).order.slices
           i == RowAt(tape, o.token, o.arrival)
           ladder == TakerLadder(tape.rows[i], o.side)
           after == Replenished(o.token, i)
           left == LeftOf(ladder, o.token, BookSide(o.side), after.consumed)
<1>1. o.arrival \in Nat /\ o.token \in TapeTokens /\ tape.rows \in Seq(TapeRow)
  BY TapeIsTyped DEF IsRequest, Request
<1>2. i \in 1 .. Len(tape.rows) /\ i \in Nat
  BY <1>1, RowAtIsLast, RowFields DEF Takes, Meets
<1>3. ladder \in Seq(Level)
  BY <1>1, <1>2, RowFields DEF TakerLadder
<1>4. IsTaken(after.consumed)
  BY <1>1, <1>2, ReplenishedIs
<1>5. Follows(slices, left)
  BY DEF Takes
<1> HIDE DEF slices, i, ladder, after
<1>6. \E at \in [DOMAIN left -> DOMAIN ladder] :
        /\ \A j, k \in DOMAIN left : at[j] = at[k] => j = k
        /\ \A k \in DOMAIN left :
             /\ at[k] \in DOMAIN ladder
             /\ left[k].price = ladder[at[k]].price
             /\ left[k].size = ladder[at[k]].size
                  - TakenFrom(after.consumed, LevelKey(o.token, BookSide(o.side), left[k].price))
  BY <1>3, <1>4, LeftOfIsPart
<1> HIDE DEF left
<1>7. PICK a \in [DOMAIN slices -> DOMAIN left] :
        /\ \A j, k \in DOMAIN slices : a[j] = a[k] => j = k
        /\ \A k \in DOMAIN slices : /\ a[k] \in DOMAIN left
                                    /\ slices[k].price = left[a[k]].price
                                    /\ slices[k].size <= left[a[k]].size
  BY <1>5, FollowsFields
<1>8. PICK b \in [DOMAIN left -> DOMAIN ladder] :
        /\ \A j, k \in DOMAIN left : b[j] = b[k] => j = k
        /\ \A k \in DOMAIN left :
             /\ b[k] \in DOMAIN ladder
             /\ left[k].price = ladder[b[k]].price
             /\ left[k].size = ladder[b[k]].size
                  - TakenFrom(after.consumed, LevelKey(o.token, BookSide(o.side), left[k].price))
  BY <1>6
<1> DEFINE at == [k \in DOMAIN slices |-> b[a[k]]]
<1>9. /\ at \in [DOMAIN slices -> DOMAIN ladder]
      /\ \A k \in DOMAIN slices : at[k] = b[a[k]]
  BY <1>7, <1>8
<1> HIDE DEF at
<1>10. \A j, k \in DOMAIN slices : at[j] = at[k] => j = k
  BY <1>7, <1>8, <1>9
<1>11. ASSUME NEW k \in DOMAIN slices
       PROVE  /\ at[k] \in DOMAIN ladder
              /\ slices[k].price = ladder[at[k]].price
              /\ slices[k].size <= ladder[at[k]].size
                   - TakenFrom(after.consumed, LevelKey(o.token, BookSide(o.side), slices[k].price))
  BY <1>7, <1>8, <1>9, <1>11
<1>12. QED
  BY <1>2, <1>3, <1>4, <1>9, <1>10, <1>11 DEF slices, i, ladder, after

\* The book that a fill of the order meets at its arrival.
Meeting(o, book) ==
  /\ book.valid
  /\ \A k \in DOMAIN o.slices :
       book.displayed[BookSide(o.side)][o.slices[k].price] >= o.slices[k].size

BookOf(o) == Replayed({e \in Recordings[episode] : e.at <= o.arrival}).books[o.token]

LEMMA FillMeetsTheBook ==
  ASSUME Realism.requireValid, EpisodeType, ImpactType, index \in Nat, NEW o, IsRequest(o),
         Outcome(o).order.slices # << >>
  PROVE  Meeting(Outcome(o).order, BookOf(Outcome(o).order))
<1> DEFINE x == Outcome(o).order
           slices == x.slices
           book == BookOf(x)
           i == RowAt(tape, o.token, o.arrival)
           row == tape.rows[i]
           ladder == TakerLadder(row, o.side)
           side == BookSide(o.side)
           taken == Replenished(o.token, i).consumed
<1>1. /\ x.token = o.token /\ x.side = o.side /\ x.arrival = o.arrival /\ x \in SentOrder
      /\ Takes(o, Outcome(o))
  BY OutcomeIs
<1>2. /\ o.arrival \in Nat /\ o.token \in TapeTokens /\ o.side \in {"BUY", "SELL"}
  BY DEF IsRequest, Request, Side
<1>3. /\ o.arrival < EpisodeEnd /\ i # 0 /\ row.valid /\ ~IsUncertain(tape, o.token, o.arrival)
  BY <1>1 DEF Takes, Meets
<1>4. o.arrival < TapeEnd
  <2>1. EpisodeEnd \in Nat /\ TapeEnd \in Nat /\ EpisodeEnd < TapeEnd
    BY ParamFields
  <2> DEFINE A == o.arrival
  <2>2. A \in Nat /\ A < EpisodeEnd
    BY <1>2, <1>3
  <2> HIDE DEF A
  <2>3. A < TapeEnd
    BY <2>1, <2>2
  <2>4. QED
    BY <2>3 DEF A
<1>5. IsRecording(Recordings[episode]) /\ tape = Build(Recordings[episode])
  BY TapeIsTyped DEF EpisodeType
<1>6. /\ book \in Book /\ row.valid = book.valid
      /\ row.bids = Ladder(book, "BUY") /\ row.asks = Ladder(book, "SELL")
  <2> DEFINE R == Recordings[episode]
             A == o.arrival
             t == o.token
  <2>1. book = Replayed({e \in R : e.at <= A}).books[t]
    BY <1>1 DEF BookOf
  <2>2. /\ IsRecording(R) /\ t \in TapeTokens /\ A \in Nat /\ A < TapeEnd
        /\ RowAt(Build(R), t, A) # 0 /\ ~IsUncertain(Build(R), t, A)
        /\ row = Build(R).rows[RowAt(Build(R), t, A)]
    BY <1>2, <1>3, <1>4, <1>5
  <2> HIDE DEF R, A, t, row, book
  <2>3. QED
    BY <2>1, <2>2, RowIsBook
<1>7. side \in Side /\ ladder = Ladder(book, side)
  BY <1>2, <1>6 DEF TakerLadder, BookSide, Side
<1>8. book.displayed \in Levels
  BY <1>6 DEF Book
<1>9. \A k \in DOMAIN ladder : ladder[k].size = book.displayed[side][ladder[k].price]
  BY <1>7, <1>8, LadderIsDisplayed
<1>10. /\ ladder \in Seq(Level) /\ IsTaken(taken)
       /\ \E at \in [DOMAIN slices -> DOMAIN ladder] :
            /\ \A j, k \in DOMAIN slices : at[j] = at[k] => j = k
            /\ \A k \in DOMAIN slices :
                 /\ at[k] \in DOMAIN ladder
                 /\ slices[k].price = ladder[at[k]].price
                 /\ slices[k].size <= ladder[at[k]].size
                      - TakenFrom(taken, LevelKey(o.token, side, slices[k].price))
  BY <1>1, TakesOfLadder
<1>11. slices \in Seq(SliceTypes)
  BY <1>1 DEF SentOrder
<1> HIDE DEF slices, book, row, ladder, side, taken
<1>12. ASSUME NEW k \in DOMAIN slices
       PROVE  book.displayed[side][slices[k].price] >= slices[k].size
  <2>1. PICK j \in DOMAIN ladder :
          /\ slices[k].price = ladder[j].price
          /\ slices[k].size <= ladder[j].size
               - TakenFrom(taken, LevelKey(o.token, side, slices[k].price))
    BY <1>10
  <2>2. TakenFrom(taken, LevelKey(o.token, side, slices[k].price)) \in Nat
    BY <1>10, TakenFromIsNat
  <2>3. ladder[j].size \in Nat
    BY <1>10, LadderFields
  <2>4. slices[k].size \in Nat
    BY <1>11, SliceFields
  <2>5. slices[k].size <= ladder[j].size
    BY <2>1, <2>2, <2>3, <2>4
  <2>6. ladder[j].size = book.displayed[side][slices[k].price]
    BY <1>9, <2>1
  <2>7. QED
    BY <2>3, <2>4, <2>5, <2>6
<1>13. book.valid
  BY <1>3, <1>6
<1>14. QED
  BY <1>1, <1>12, <1>13 DEF Meeting, slices, book, side

LEMMA MeetsAgain ==
  ASSUME Realism.requireValid, BInv, FillsMeetTheBook, [Next]_vars
  PROVE  FillsMeetTheBook'
<1>1. /\ EpisodeType /\ ImpactType /\ index \in Nat /\ orders \in Seq(SentOrder)
  BY DEF BInv, TypeOK
<1>2. episode' = episode
  BY StepSends
<1>3. \A i \in Filled : i = Len(orders) => Meeting(orders[i], BookOf(orders[i]))
  BY Zenon DEF FillsMeetTheBook, Meeting, BookOf
<1>4. SUFFICES ASSUME NEW i \in Filled', i = Len(orders')
               PROVE  Meeting(orders'[i], BookOf(orders'[i]))
  BY <1>2, Zenon DEF FillsMeetTheBook, Meeting, BookOf
<1>5. CASE UNCHANGED orders
  BY <1>3, <1>4, <1>5 DEF Filled
<1>6. CASE \E o : Sends(o)
  <2>1. PICK o : Sends(o)
    BY <1>6
  <2> DEFINE x == Outcome(o).order
  <2>2. IsRequest(o) /\ orders' = Append(orders, x) /\ x \in SentOrder
    BY <1>1, <2>1, OutcomeIs DEF Sends
  <2>3. orders'[Len(orders')] = x
    BY <1>1, <2>2, LogIs
  <2>4. orders'[i] = x /\ x.slices # << >>
    BY <1>4, <2>3 DEF Filled
  <2>5. QED
    BY <1>1, <2>2, <2>4, FillMeetsTheBook
<1>7. QED
  BY <1>5, <1>6, StepSends

\* With books required to be valid, as by default, no fill is of a level that
\* the book did not hold at the arrival (FillsMeetTheBook): the row that the
\* tape gives is the book that the recording gives.
THEOREM BookCorrect ==
  ASSUME Realism.requireValid
  PROVE  Spec => []FillsMeetTheBook
<1>1. Init => BInv /\ FillsMeetTheBook
  <2>1. Init => FillsMeetTheBook
    <3>1. Init => orders = << >>
      BY DEF Init
    <3>2. orders = << >> => Filled = {}
      BY DEF Filled
    <3>3. Filled = {} => FillsMeetTheBook
      BY DEF FillsMeetTheBook
    <3>4. QED
      BY <3>1, <3>2, <3>3
  <2>2. QED
    BY <2>1, InitInvariant
<1>2. BInv /\ FillsMeetTheBook /\ [Next]_vars => BInv' /\ FillsMeetTheBook'
  BY StepInvariant, MeetsAgain
<1>3. QED
  BY <1>1, <1>2, PTL DEF Spec

-----------------------------------------------------------------------------
(* Recordings in sequence *)

\* Receipt time, which orders a recording, and the collector's sequence agree
\* about the messages of one token.
InSequence(recording) ==
  \A e, f \in recording : e.token = f.token /\ Precedes(e, f) => e.sequence <= f.sequence

\* The levels of a ladder differ in price.
IsLadder(ladder) ==
  \A j, k \in DOMAIN ladder : ladder[j].price = ladder[k].price => j = k

\* The book took the row's message; the ladders are those of a book.
IsApplied(row) == /\ row.kind # "tick" => row.taken
                  /\ IsLadder(row.bids) /\ IsLadder(row.asks)

LEMMA RowIsApplied ==
  ASSUME NEW s \in ReplayState, NEW e \in Event, e.kind # "tick" => Applied(s, e).took
  PROVE  IsApplied(RowOf(e, Applied(s, e)))
<1> DEFINE x == Applied(s, e)
<1>1. x.book \in Book /\ (e.kind # "tick" => x.took)
  BY AppliedLeaves
<1> HIDE DEF x
<1>2. x.book.displayed \in Levels
  BY <1>1, BookFields
<1>3. IsLadder(Ladder(x.book, "BUY")) /\ IsLadder(Ladder(x.book, "SELL"))
  BY <1>2, LadderIsDisplayed DEF IsLadder, Side
<1> DEFINE row == RowOf(e, x)
<1>4. /\ row.kind = e.kind /\ row.taken = x.took
      /\ row.bids = Ladder(x.book, "BUY") /\ row.asks = Ladder(x.book, "SELL")
  BY DEF RowOf
<1> HIDE DEF row
<1>5. IsApplied(row)
  BY <1>1, <1>3, <1>4 DEF IsApplied
<1>6. QED
  BY <1>5 DEF row, x

\* A book's sequence is that of a message about its token, or nothing yet.
OwnSequence(recording, s, k) ==
  \A t \in TapeTokens :
    \/ s.books[t].lastSequence = 0
    \/ \E j \in 1 .. k : /\ Ordered(recording)[j].token = t
                         /\ Ordered(recording)[j].sequence = s.books[t].lastSequence

AllApplied(rows) == \A i \in DOMAIN rows : IsApplied(rows[i])

\* Of a recording in sequence no message is stale.
LEMMA RecordApplies ==
  ASSUME NEW recording, IsRecording(recording), InSequence(recording),
         NEW s \in ReplayState, NEW k \in 0 .. Cardinality(recording) - 1,
         OwnSequence(recording, s, k), AllApplied(s.rows)
  PROVE  LET r == Record(s, Ordered(recording)[k + 1])
         IN  OwnSequence(recording, r, k + 1) /\ AllApplied(r.rows)
<1> DEFINE n == Cardinality(recording)
           at == Ordered(recording)
           e == at[k + 1]
           x == Applied(s, e)
           r == Record(s, e)
           t == e.token
<1>1. /\ n \in Nat
      /\ \A j \in 1 .. n : at[j] \in recording /\ at[j] \in Event
      /\ \A i, j \in 1 .. n : i < j => Precedes(at[i], at[j])
  BY OrderedIsInOrder
<1>2. k \in Nat /\ k + 1 \in 1 .. n /\ \A j \in 1 .. k : j \in 1 .. n /\ j \in 1 .. k + 1 /\ j < k + 1
  BY <1>1
<1>3. e \in Event /\ e \in recording /\ t \in TapeTokens /\ e.sequence \in Nat
  BY <1>1, <1>2, EventFields
<1>4. s.books \in [TapeTokens -> Book] /\ s.rows \in Seq(TapeRow)
  BY DEF ReplayState
<1>5. s.books[t].lastSequence \in Nat
  BY <1>3, <1>4, BookFields
<1>6. s.books[t].lastSequence <= e.sequence
  <2>1. CASE s.books[t].lastSequence = 0
    BY <1>3, <2>1
  <2>2. ASSUME NEW j \in 1 .. k, at[j].token = t, at[j].sequence = s.books[t].lastSequence
        PROVE  s.books[t].lastSequence <= e.sequence
    <3>1. Precedes(at[j], e) /\ at[j] \in recording
      BY <1>1, <1>2
    <3> HIDE DEF e
    <3>2. at[j].sequence <= e.sequence
      BY <1>3, <2>2, <3>1 DEF InSequence
    <3>3. QED
      BY <2>2, <3>2
  <2>3. QED
    BY <1>3, <2>1, <2>2 DEF OwnSequence
<1>7. /\ e.kind # "tick" => x.took
      /\ x.book.lastSequence \in {0, s.books[t].lastSequence, e.sequence}
  BY <1>3, <1>6, AppliedLeaves
<1>8. /\ r.books[t] = x.book
      /\ \A u \in TapeTokens : u # t => r.books[u] = s.books[u]
      /\ r.rows = s.rows \/ r.rows = Append(s.rows, RowOf(e, x))
  BY <1>3, RecordFields
<1>9. IsApplied(RowOf(e, x))
  BY <1>3, <1>7, RowIsApplied
<1> HIDE DEF x, r
<1>10. OwnSequence(recording, r, k + 1)
  <2>1. ASSUME NEW u \in TapeTokens
        PROVE  \/ r.books[u].lastSequence = 0
               \/ \E j \in 1 .. k + 1 : at[j].token = u /\ at[j].sequence = r.books[u].lastSequence
    <3>1. CASE r.books[u].lastSequence = s.books[u].lastSequence
      BY <1>2, <3>1 DEF OwnSequence
    <3>2. CASE u = t /\ r.books[u].lastSequence = e.sequence
      BY <1>2, <3>2
    <3>3. QED
      BY <1>7, <1>8, <3>1, <3>2
  <2>2. QED
    BY <2>1 DEF OwnSequence
<1>11. AllApplied(r.rows)
  <2>1. CASE r.rows = s.rows
    BY <2>1
  <2>2. CASE r.rows = Append(s.rows, RowOf(e, x))
    <3> DEFINE row == RowOf(e, x)
               m == Len(s.rows)
    <3>1. m \in Nat /\ DOMAIN s.rows = 1 .. m
      BY <1>4, LenProperties
    <3> HIDE DEF row
    <3>2. /\ DOMAIN Append(s.rows, row) = 1 .. m + 1
          /\ Append(s.rows, row)[m + 1] = row
          /\ \A i \in 1 .. m : Append(s.rows, row)[i] = s.rows[i]
      BY <1>4, <3>1
    <3>3. IsApplied(row)
      BY <1>9 DEF row
    <3> HIDE DEF m
    <3>4. ASSUME NEW i \in 1 .. m + 1 PROVE IsApplied(Append(s.rows, row)[i])
      <4>1. i \in 1 .. m \/ i = m + 1
        BY <3>1
      <4>2. QED
        BY <3>1, <3>2, <3>3, <4>1 DEF AllApplied
    <3>5. QED
      BY <2>2, <3>2, <3>4 DEF AllApplied, row
  <2>3. QED
    BY <1>8, <2>1, <2>2
<1>12. QED
  BY <1>10, <1>11 DEF r

LEMMA TapeIsApplied ==
  ASSUME NEW recording, IsRecording(recording), InSequence(recording)
  PROVE  AllApplied(Build(recording).rows)
<1> DEFINE n == Cardinality(recording)
<1>1. IsFiniteSet(recording) /\ n \in Nat
  BY FS_CardinalityType DEF IsRecording
<1>2. PICK st : Replays(recording, st) /\ Replayed(recording) = st[n]
  BY <1>1, ReplayedIsLast
<1> DEFINE P == {k \in 0 .. n : OwnSequence(recording, st[k], k) /\ AllApplied(st[k].rows)}
<1>3. 0 \in P
  <2>1. \A t \in TapeTokens : st[0].books[t].lastSequence = 0
    BY <1>2 DEF Replays, Blank, NewBook
  <2>2. DOMAIN st[0].rows = {}
    BY <1>2 DEF Replays, Blank
  <2>3. 0 \in 0 .. n
    BY <1>1
  <2>4. QED
    BY <2>1, <2>2, <2>3 DEF OwnSequence, AllApplied
<1>4. ASSUME NEW k \in 0 .. n - 1, k \in P PROVE k + 1 \in P
  <2>1. k \in 0 .. n /\ k + 1 \in 0 .. n /\ k + 1 \in 1 .. n /\ (k + 1) - 1 = k
    BY <1>1
  <2>2. st[k] \in ReplayState
    BY <1>2, <2>1, ReplayTracks DEF Tracks
  <2>3. st[k + 1] = Record(st[k], Ordered(recording)[k + 1])
    BY <1>2, <2>1 DEF Replays
  <2>4. OwnSequence(recording, st[k], k) /\ AllApplied(st[k].rows)
    BY <1>4
  <2>5. OwnSequence(recording, st[k + 1], k + 1) /\ AllApplied(st[k + 1].rows)
    BY <2>2, <2>3, <2>4, RecordApplies
  <2>6. QED
    BY <2>1, <2>5
<1> HIDE DEF P
<1>5. n \in P
  <2>1. \A k \in 0 .. n : k \in P
    BY <1>1, <1>3, <1>4, IntervalInduction
  <2>2. QED
    BY <1>1, <2>1
<1>6. QED
  BY <1>2, <1>5, BuildFields DEF P

-----------------------------------------------------------------------------
(* What own orders still hold of a level *)

\* The size that a set of orders took at a price.
SizeOf(sent, S, price) ==
  SumFunction([i \in S |-> SizeAtPrice(sent[i].slices, price)])

LEMMA SizeOfIs ==
  ASSUME NEW sent \in Seq(SentOrder), NEW S \in SUBSET DOMAIN sent, NEW price
  PROVE  /\ SizeOf(sent, S, price) \in Nat
         /\ \A T \in SUBSET S : SizeOf(sent, T, price) <= SizeOf(sent, S, price)
         /\ SizeOf(sent, {}, price) = 0
<1> DEFINE f(T) == [i \in T |-> SizeAtPrice(sent[i].slices, price)]
<1>1. IsFiniteSet(S)
  BY SumsInAreNat
<1>2. \A i \in S : SizeAtPrice(sent[i].slices, price) \in Nat
  <2>1. ASSUME NEW i \in S PROVE sent[i].slices \in Seq(SliceTypes)
    BY SentFields
  <2>2. ASSUME NEW i \in S PROVE SizeAtPrice(sent[i].slices, price) \in Nat
    BY <2>1, SizeAtPriceIsNat
  <2>3. QED
    BY <2>2
<1>3. \A T : SizeOf(sent, T, price) = SumFunctionOnSet(f(T), T)
  BY DEF SizeOf, SumFunction
<1>4. SizeOf(sent, S, price) \in Nat
  <2> DEFINE g == f(S)
  <2>1. \A i \in S : g[i] \in Nat
    BY <1>2
  <2>2. SizeOf(sent, S, price) = SumFunctionOnSet(g, S)
    BY <1>3
  <2> HIDE DEF g
  <2>3. QED
    BY <1>1, <2>1, <2>2, SumIsNat
<1>5. ASSUME NEW T \in SUBSET S
      PROVE  SizeOf(sent, T, price) <= SizeOf(sent, S, price)
  <2> DEFINE g == f(S)
             h == f(T)
             part == [i \in S |-> IF i \in T THEN g[i] ELSE 0]
  <2>1. /\ \A i \in S : g[i] \in Int /\ part[i] \in Int /\ part[i] <= g[i]
        /\ \A i \in T : h[i] = g[i]
        /\ part = [i \in S |-> IF i \in T THEN g[i] ELSE 0]
    BY <1>2
  <2>2. SizeOf(sent, S, price) = SumFunctionOnSet(g, S) /\ SizeOf(sent, T, price) = SumFunctionOnSet(h, T)
    BY <1>3
  <2>3. IsFiniteSet(T)
    BY <1>1, FS_Subset
  <2> HIDE DEF g, h, part
  <2>4. SumFunctionOnSet(h, T) = SumFunctionOnSet(g, T)
    BY <2>1, <2>3, SumOfEqual
  <2>5. SumFunctionOnSet(g, T) = SumFunctionOnSet(part, S)
    BY <1>1, <2>1, SumOfPart
  <2>6. SumFunctionOnSet(part, S) <= SumFunctionOnSet(g, S)
    BY <1>1, <2>1, SumOfLess
  <2>7. QED
    BY <2>2, <2>4, <2>5, <2>6
<1>6. SizeOf(sent, {}, price) = 0
  BY <1>3, SumOfNone
<1>7. QED
  BY <1>4, <1>5, <1>6

LEMMA SizeOfGrows ==
  ASSUME NEW sent \in Seq(SentOrder), NEW o \in SentOrder, NEW S \in SUBSET DOMAIN sent, NEW price
  PROVE  LET more == Append(sent, o)
             n    == Len(sent)
         IN  /\ SizeOf(more, S, price) = SizeOf(sent, S, price)
             /\ SizeOf(more, S \cup {n + 1}, price)
                  = SizeOf(sent, S, price) + SizeAtPrice(o.slices, price)
<1> DEFINE more == Append(sent, o)
           n == Len(sent)
           R == S \cup {n + 1}
           f(q, T) == [i \in T |-> SizeAtPrice(q[i].slices, price)]
<1>1. n \in Nat /\ DOMAIN sent = 1 .. n /\ IsFiniteSet(S)
  BY SentFields, SumsInAreNat
<1>2. /\ more \in Seq(SentOrder) /\ DOMAIN more = 1 .. n + 1
      /\ more[n + 1] = o /\ \A i \in 1 .. n : more[i] = sent[i]
  BY SentGrows
<1> HIDE DEF more, n
<1>3. n + 1 \notin S
  BY <1>1
<1>4. \A i \in R : SizeAtPrice(more[i].slices, price) \in Int
  <2>1. ASSUME NEW i \in R PROVE more[i].slices \in Seq(SliceTypes)
    BY <1>1, <1>2, SentFields
  <2>2. ASSUME NEW i \in R PROVE SizeAtPrice(more[i].slices, price) \in Nat
    BY <2>1, SizeAtPriceIsNat
  <2>3. QED
    BY <2>2
<1>5. \A q, T : SizeOf(q, T, price) = SumFunctionOnSet(f(q, T), T)
  BY DEF SizeOf, SumFunction
<1> DEFINE ms == f(more, S)
           ss == f(sent, S)
           mr == f(more, R)
<1>6. /\ \A i \in S : ms[i] = ss[i] /\ mr[i] = ss[i] /\ ss[i] \in Int
      /\ \A i \in S \cup {n + 1} : mr[i] \in Int
      /\ mr[n + 1] = SizeAtPrice(o.slices, price)
  BY <1>1, <1>2, <1>4
<1>7. /\ SizeOf(more, S, price) = SumFunctionOnSet(ms, S)
      /\ SizeOf(sent, S, price) = SumFunctionOnSet(ss, S)
      /\ SizeOf(more, R, price) = SumFunctionOnSet(mr, S \cup {n + 1})
  BY <1>5
<1> HIDE DEF ms, ss, mr
<1>8. /\ SumFunctionOnSet(ms, S) = SumFunctionOnSet(ss, S)
      /\ SumFunctionOnSet(mr, S) = SumFunctionOnSet(ss, S)
  BY <1>1, <1>6, SumOfEqual
<1>9. SumFunctionOnSet(mr, S \cup {n + 1}) = mr[n + 1] + SumFunctionOnSet(mr, S)
  BY <1>1, <1>3, <1>6, SumOfMore
<1>10. SumFunctionOnSet(ss, S) \in Int /\ mr[n + 1] \in Int
  BY <1>1, <1>6, SumOfAny
<1>11. QED
  BY <1>6, <1>7, <1>8, <1>9, <1>10 DEF more, n

\* The row of the book that an order meets.
RowFor(tp, o) == RowAt(tp, o.token, o.arrival)

\* The fills of a level that no message has stated again by time t.
Live(tp, sent, key, t) ==
  {i \in DOMAIN sent :
     /\ sent[i].slices # << >>
     /\ sent[i].token = key.token /\ BookSide(sent[i].side) = key.side
     /\ ~\E r \in RowFor(tp, sent[i]) + 1 .. RowAt(tp, key.token, t) : Restates(tp.rows[r], key)}

\* Every fill is of the token; by time t, what is remembered as taken of its
\* levels is no less than the fills that are live by then.
Remembers(tp, sent, taken, cur, token, t) ==
  /\ \A i \in DOMAIN sent : sent[i].slices # << >> =>
       sent[i].token = token /\ RowFor(tp, sent[i]) <= cur[token]
  /\ \A key \in Keys : key.token = token =>
       SizeOf(sent, Live(tp, sent, key, t), key.price) <= TakenFrom(taken, key)

LEMMA RowIsNat ==
  ASSUME NEW tp, tp.rows \in Seq(TapeRow), NEW token, NEW t \in Nat
  PROVE  RowAt(tp, token, t) \in Nat /\ RowAt(tp, token, t) <= Len(tp.rows)
<1>1. RowAt(tp, token, t) \in 0 .. Len(tp.rows) /\ Len(tp.rows) \in Nat
  BY RowAtIsLast, RowFields
<1>2. QED
  BY <1>1

LEMMA SentRowIsNat ==
  ASSUME NEW tp, tp.rows \in Seq(TapeRow), NEW sent \in Seq(SentOrder), NEW i \in DOMAIN sent
  PROVE  RowFor(tp, sent[i]) \in Nat
BY SentFields, RowIsNat DEF RowFor

\* Before anything has been filled.
LEMMA NothingToRemember ==
  ASSUME NEW tp, NEW sent \in Seq(SentOrder), \A i \in DOMAIN sent : sent[i].slices = << >>,
         NEW taken, IsTaken(taken), NEW cur, NEW token, NEW t
  PROVE  Remembers(tp, sent, taken, cur, token, t)
<1>1. \A key : Live(tp, sent, key, t) = {}
  BY DEF Live
<1>2. \A price : SizeOf(sent, {}, price) = 0
  <2>1. {} \in SUBSET DOMAIN sent
    OBVIOUS
  <2>2. QED
    BY <2>1, SizeOfIs
<1>3. \A key : TakenFrom(taken, key) \in Nat
  BY TakenFromIsNat
<1>4. ASSUME NEW key
      PROVE  SizeOf(sent, Live(tp, sent, key, t), key.price) <= TakenFrom(taken, key)
  <2>1. SizeOf(sent, Live(tp, sent, key, t), key.price) = 0
    BY <1>1, <1>2, Zenon
  <2>2. TakenFrom(taken, key) \in Nat
    BY <1>3
  <2>3. QED
    BY <2>1, <2>2
<1>5. QED
  BY <1>4 DEF Remembers

\* Time makes fewer fills live.
LEMMA RemembersLater ==
  ASSUME NEW tp, tp.rows \in Seq(TapeRow), NEW sent \in Seq(SentOrder), NEW taken, IsTaken(taken),
         NEW cur, NEW token, NEW t \in Nat, NEW u \in Nat, t <= u,
         Remembers(tp, sent, taken, cur, token, t)
  PROVE  Remembers(tp, sent, taken, cur, token, u)
<1>1. ASSUME NEW key \in Keys, key.token = token
      PROVE  SizeOf(sent, Live(tp, sent, key, u), key.price) <= TakenFrom(taken, key)
  <2> DEFINE S == Live(tp, sent, key, t)
             T == Live(tp, sent, key, u)
             a == RowAt(tp, key.token, t)
             b == RowAt(tp, key.token, u)
  <2>1. a \in Nat /\ b \in Nat /\ a <= b
    BY RowIsNat, RowAtGrows
  <2>2. S \in SUBSET DOMAIN sent
    BY DEF Live
  <2>3. T \in SUBSET S
    <3>1. ASSUME NEW i \in T PROVE i \in S
      <4>1. /\ i \in DOMAIN sent /\ sent[i].slices # << >>
            /\ sent[i].token = key.token /\ BookSide(sent[i].side) = key.side
            /\ ~\E r \in RowFor(tp, sent[i]) + 1 .. b : Restates(tp.rows[r], key)
        BY DEF Live
      <4>2. RowFor(tp, sent[i]) \in Nat
        BY <4>1, SentRowIsNat
      <4>3. \A r \in RowFor(tp, sent[i]) + 1 .. a : r \in RowFor(tp, sent[i]) + 1 .. b
        BY <2>1, <4>2
      <4>4. QED
        BY <4>1, <4>3 DEF Live
    <3>2. QED
      BY <3>1
  <2> HIDE DEF S, T
  <2>4. /\ SizeOf(sent, S, key.price) \in Nat /\ SizeOf(sent, T, key.price) <= SizeOf(sent, S, key.price)
    BY <2>2, <2>3, SizeOfIs
  <2>5. SizeOf(sent, T, key.price) \in Nat
    <3>1. T \in SUBSET DOMAIN sent
      BY <2>2, <2>3
    <3>2. QED
      BY <3>1, SizeOfIs
  <2>6. SizeOf(sent, S, key.price) <= TakenFrom(taken, key)
    BY <1>1 DEF Remembers, S
  <2>7. TakenFrom(taken, key) \in Nat
    BY TakenFromIsNat
  <2>8. QED
    BY <2>4, <2>5, <2>6, <2>7 DEF T
<1>2. QED
  BY <1>1 DEF Remembers

\* Reconciling up to a row before t forgets no fill that is live at t.
LEMMA RemembersReplenished ==
  ASSUME tape.rows \in Seq(TapeRow), ImpactType, NEW sent \in Seq(SentOrder),
         NEW token \in TapeTokens, NEW t \in Nat, NEW u \in Nat, u <= t,
         Remembers(tape, sent, consumed, cursor, token, t)
  PROVE  LET after == Replenished(token, RowAt(tape, token, u))
         IN  Remembers(tape, sent, after.consumed, after.cursor, token, t)
<1> DEFINE row == RowAt(tape, token, u)
           after == Replenished(token, row)
<1>1. row \in Nat /\ RowAt(tape, token, t) \in Nat /\ row <= RowAt(tape, token, t)
  BY RowIsNat, RowAtGrows
<1> HIDE DEF row
<1>2. /\ IsTaken(after.consumed) /\ after.cursor \in [TapeTokens -> Nat]
      /\ cursor[token] <= after.cursor[token]
      /\ \A key : \/ TakenFrom(after.consumed, key) = TakenFrom(consumed, key)
                  \/ /\ key.token = token
                     /\ \E r \in cursor[token] + 1 .. row : Restates(tape.rows[r], key)
  BY <1>1, ReplenishedIs
<1>3. cursor[token] \in Nat /\ after.cursor[token] \in Nat
  BY <1>2 DEF ImpactType
<1> HIDE DEF after
<1>4. ASSUME NEW i \in DOMAIN sent, sent[i].slices # << >>
      PROVE  sent[i].token = token /\ RowFor(tape, sent[i]) <= after.cursor[token]
  <2>1. sent[i].token = token /\ RowFor(tape, sent[i]) <= cursor[token]
    BY <1>4 DEF Remembers
  <2>2. RowFor(tape, sent[i]) \in Nat
    BY SentRowIsNat
  <2>3. QED
    BY <1>2, <1>3, <2>1, <2>2
<1>5. ASSUME NEW key \in Keys, key.token = token
      PROVE  SizeOf(sent, Live(tape, sent, key, t), key.price) <= TakenFrom(after.consumed, key)
  <2>1. CASE TakenFrom(after.consumed, key) = TakenFrom(consumed, key)
    BY <1>5, <2>1 DEF Remembers
  <2>2. CASE \E r \in cursor[token] + 1 .. row : Restates(tape.rows[r], key)
    <3>1. PICK r \in cursor[token] + 1 .. row : Restates(tape.rows[r], key)
      BY <2>2
    <3>2. ASSUME NEW i \in Live(tape, sent, key, t) PROVE FALSE
      <4>1. /\ i \in DOMAIN sent /\ sent[i].slices # << >>
            /\ ~\E q \in RowFor(tape, sent[i]) + 1 .. RowAt(tape, token, t) : Restates(tape.rows[q], key)
        BY <1>5 DEF Live
      <4>2. RowFor(tape, sent[i]) \in Nat /\ RowFor(tape, sent[i]) <= cursor[token]
        BY <4>1, SentRowIsNat DEF Remembers
      <4> DEFINE a == RowFor(tape, sent[i])
                 b == RowAt(tape, token, t)
                 c == cursor[token]
      <4>3. r \in a + 1 .. b
        <5>1. a \in Nat /\ b \in Nat /\ c \in Nat /\ a <= c /\ row <= b /\ r \in c + 1 .. row
          BY <1>1, <1>3, <3>1, <4>2
        <5> HIDE DEF a, b, c
        <5>2. QED
          BY <1>1, <5>1
      <4>4. QED
        BY <3>1, <4>1, <4>3
    <3>3. Live(tape, sent, key, t) = {}
      BY <3>2
    <3>4. SizeOf(sent, {}, key.price) = 0
      <4>1. {} \in SUBSET DOMAIN sent
        OBVIOUS
      <4>2. QED
        BY <4>1, SizeOfIs
    <3>5. TakenFrom(after.consumed, key) \in Nat
      BY <1>2, TakenFromIsNat
    <3>6. SizeOf(sent, Live(tape, sent, key, t), key.price) = 0
      BY <3>3, <3>4, Zenon
    <3>7. QED
      BY <3>5, <3>6
  <2>3. QED
    BY <1>2, <2>1, <2>2
<1>6. Remembers(tape, sent, after.consumed, after.cursor, token, t)
  BY <1>4, <1>5 DEF Remembers
<1>7. QED
  BY <1>6 DEF after, row

\* A fill is remembered with what it took of each level.
LEMMA RemembersFill ==
  ASSUME NEW tp, tp.rows \in Seq(TapeRow), NEW sent \in Seq(SentOrder), NEW taken, IsTaken(taken),
         NEW cur \in [TapeTokens -> Nat], NEW token \in TapeTokens, NEW t \in Nat,
         Remembers(tp, sent, taken, cur, token, t),
         NEW o \in SentOrder, o.token = token, o.slices # << >> => RowFor(tp, o) <= cur[token],
         NEW then, \/ then = TakenWith(taken, token, BookSide(o.side), o.slices)
                   \/ o.slices = << >> /\ then = taken
  PROVE  Remembers(tp, Append(sent, o), then, cur, token, t)
<1> DEFINE more == Append(sent, o)
           n == Len(sent)
           side == BookSide(o.side)
<1>1. /\ n \in Nat /\ DOMAIN sent = 1 .. n /\ DOMAIN more = 1 .. n + 1
      /\ more[n + 1] = o /\ \A i \in 1 .. n : more[i] = sent[i]
  BY SentFields, SentGrows
<1>2. o.slices \in Seq(SliceTypes) /\ side \in Side
  BY DEF SentOrder, BookSide, Side
<1>3. ASSUME NEW key
      PROVE  TakenFrom(taken, key) \in Nat /\ TakenFrom(then, key) \in Nat
             /\ TakenFrom(taken, key) <= TakenFrom(then, key)
  <2>1. TakenFrom(taken, key) \in Nat
    BY TakenFromIsNat
  <2>2. CASE then = taken
    BY <2>1, <2>2
  <2>3. CASE then = TakenWith(taken, token, side, o.slices)
    <3>1. IsTaken(then) /\ TakenFrom(then, key) >= TakenFrom(taken, key)
      BY <1>2, <2>3, TakenWithIsTaken
    <3>2. TakenFrom(then, key) \in Nat
      BY <3>1, TakenFromIsNat
    <3>3. QED
      BY <2>1, <3>1, <3>2
  <2>4. QED
    BY <2>2, <2>3
<1> HIDE DEF more, n, side
<1>4. ASSUME NEW i \in DOMAIN more, more[i].slices # << >>
      PROVE  more[i].token = token /\ RowFor(tp, more[i]) <= cur[token]
  <2>1. CASE i = n + 1
    BY <1>1, <1>4, <2>1
  <2>2. CASE i \in 1 .. n
    BY <1>1, <1>4, <2>2 DEF Remembers
  <2>3. QED
    BY <1>1, <2>1, <2>2
<1>5. ASSUME NEW key \in Keys, key.token = token
      PROVE  SizeOf(more, Live(tp, more, key, t), key.price) <= TakenFrom(then, key)
  <2> DEFINE S == Live(tp, sent, key, t)
             T == Live(tp, more, key, t)
             p == key.price
  <2>1. S \in SUBSET DOMAIN sent /\ S \in SUBSET (1 .. n)
    BY <1>1 DEF Live
  <2>2. \A i \in 1 .. n : i \in T => i \in S
    BY <1>1 DEF Live
  <2>3. T \in SUBSET (1 .. n + 1)
    BY <1>1 DEF Live
  <2>4. n + 1 \in T => o.slices # << >> /\ side = key.side
    BY <1>1 DEF Live, side
  <2>5. SizeOf(sent, S, p) <= TakenFrom(taken, key)
    BY <1>5 DEF Remembers
  <2> HIDE DEF S, T
  <2>6. SizeOf(sent, S, p) \in Nat
    BY <2>1, SizeOfIs
  <2>7. /\ SizeOf(more, S, p) = SizeOf(sent, S, p)
        /\ SizeOf(more, S \cup {n + 1}, p) = SizeOf(sent, S, p) + SizeAtPrice(o.slices, p)
    BY <2>1, SizeOfGrows DEF more, n
  <2>8. more \in Seq(SentOrder)
    BY SentGrows DEF more
  <2>9. CASE n + 1 \notin T
    <3>1. T \in SUBSET S /\ S \in SUBSET DOMAIN more
      BY <1>1, <2>1, <2>2, <2>3, <2>9
    <3>2. SizeOf(more, T, p) <= SizeOf(more, S, p)
      BY <2>8, <3>1, SizeOfIs
    <3>3. SizeOf(more, T, p) \in Nat
      <4>1. T \in SUBSET DOMAIN more
        BY <3>1
      <4>2. QED
        BY <2>8, <4>1, SizeOfIs
    <3>4. SizeOf(more, T, p) <= TakenFrom(then, key)
      BY <1>3, <2>5, <2>6, <2>7, <3>2, <3>3
    <3>5. QED
      BY <3>4 DEF T
  <2>10. CASE n + 1 \in T
    <3>1. T \in SUBSET (S \cup {n + 1}) /\ (S \cup {n + 1}) \in SUBSET DOMAIN more
      BY <1>1, <2>1, <2>2, <2>3
    <3>2. SizeOf(more, T, p) <= SizeOf(more, S \cup {n + 1}, p)
      BY <2>8, <3>1, SizeOfIs
    <3>3. SizeOf(more, T, p) \in Nat
      <4>1. T \in SUBSET DOMAIN more
        BY <3>1
      <4>2. QED
        BY <2>8, <4>1, SizeOfIs
    <3>4. SizeAtPrice(o.slices, p) \in Nat
      BY <1>2, SizeAtPriceIsNat
    <3>5. p \in Price /\ key = LevelKey(token, side, p)
      BY <1>5, <2>4, <2>10 DEF Keys, LevelKey
    <3>6. then = TakenWith(taken, token, side, o.slices)
      BY <2>4, <2>10 DEF side
    <3>7. TakenFrom(then, key) = TakenFrom(taken, key) + SizeAtPrice(o.slices, p)
      BY <1>2, <3>5, <3>6, TakenWithIsTaken
    <3>8. SizeOf(more, T, p) <= TakenFrom(then, key)
      BY <1>3, <2>5, <2>6, <2>7, <3>2, <3>3, <3>4, <3>7
    <3>9. QED
      BY <3>8 DEF T
  <2>11. QED
    BY <2>9, <2>10
<1>6. QED
  BY <1>4, <1>5 DEF Remembers, more

\* Sending an order that fills no later than t.
LEMMA RemembersOrder ==
  ASSUME EpisodeType, ImpactType, index \in Nat, orders \in Seq(SentOrder),
         NEW o, Sends(o), NEW t \in Nat,
         Remembers(tape, orders, consumed, cursor, o.token, t),
         Takes(o, Outcome(o)) => o.arrival <= t
  PROVE  Remembers(tape, orders', consumed', cursor', o.token, t)
<1> DEFINE x == Outcome(o)
           e == x.order
           row == RowAt(tape, o.token, o.arrival)
           after == Replenished(o.token, row)
<1>1. /\ IsRequest(o) /\ orders' = Append(orders, e)
      /\ consumed' = x.consumed /\ cursor' = x.cursor
  BY DEF Sends
<1>2. /\ o.arrival \in Nat /\ o.token \in TapeTokens
      /\ tape.rows \in Seq(TapeRow)
  BY <1>1, TapeIsTyped DEF IsRequest, Request
<1>3. /\ e \in SentOrder /\ e.side = o.side /\ e.token = o.token /\ e.arrival = o.arrival
      /\ \/ e.slices = << >> /\ x.consumed = consumed /\ x.cursor = cursor
         \/ Takes(o, x)
  BY <1>1, OutcomeIs
<1>4. RowFor(tape, e) = row /\ row \in Nat
  BY <1>2, <1>3, RowIsNat DEF RowFor
<1> HIDE DEF x
<1>5. CASE e.slices = << >> /\ x.consumed = consumed /\ x.cursor = cursor
  <2>1. IsTaken(consumed) /\ cursor \in [TapeTokens -> Nat]
    BY DEF ImpactType
  <2>2. Remembers(tape, Append(orders, e), consumed, cursor, o.token, t)
    BY <1>2, <1>3, <1>5, <2>1, RemembersFill
  <2>3. QED
    BY <1>1, <1>5, <2>2
<1>6. CASE Takes(o, x)
  <2>1. /\ x.consumed = TakenWith(after.consumed, o.token, BookSide(e.side), e.slices)
        /\ x.cursor = after.cursor
    BY <1>3, <1>6 DEF Takes
  <2>2. o.arrival <= t
    BY <1>6 DEF x
  <2>3. /\ IsTaken(after.consumed) /\ after.cursor \in [TapeTokens -> Nat]
        /\ row <= after.cursor[o.token]
    BY <1>2, <1>4, ReplenishedIs
  <2>4. Remembers(tape, orders, after.consumed, after.cursor, o.token, t)
    BY <1>2, <2>2, RemembersReplenished
  <2> HIDE DEF after, row
  <2>5. RowFor(tape, e) <= after.cursor[o.token]
    BY <1>4, <2>3
  <2>6. Remembers(tape, Append(orders, e), x.consumed, after.cursor, o.token, t)
    BY <1>2, <1>3, <2>1, <2>3, <2>4, <2>5, RemembersFill
  <2>7. QED
    BY <1>1, <2>1, <2>6
<1>7. QED
  BY <1>3, <1>5, <1>6

-----------------------------------------------------------------------------
(* Levels are not oversold *)

\* A time at which the next order of the episode may arrive.
From(t) ==
  IF InParent THEN t >= session.plan.deadline \/ (t >= now /\ t >= session.notBefore)
  ELSE t >= position.effective

HeldToken == IF InParent THEN Row.token ELSE position.token

\* What is remembered as taken covers what is live from then on.
TakenIsKept ==
  phase \in {"rows", "decisions", "child"} =>
    \A t \in Nat : From(t) => Remembers(tape, orders, consumed, cursor, HeldToken, t)

LEMMA KeptEmpty ==
  ASSUME BInv', Filled' = {}
  PROVE  TakenIsKept'
<1>1. orders' \in Seq(SentOrder) /\ IsTaken(consumed')
  BY DEF BInv, TypeOK, ImpactType
<1>2. \A i \in DOMAIN orders' : orders'[i].slices = << >>
  BY DEF Filled
<1>3. \A t \in Nat : Remembers(tape', orders', consumed', cursor', HeldToken', t)
  BY <1>1, <1>2, NothingToRemember
<1>4. QED
  BY <1>3 DEF TakenIsKept

LEMMA KeptLater ==
  ASSUME TakenIsKept, phase \in {"rows", "decisions", "child"},
         UNCHANGED <<tape, orders, consumed, cursor>>, HeldToken' = HeldToken,
         \A t \in Nat : From(t)' => From(t)
  PROVE  TakenIsKept'
<1>1. ASSUME NEW t \in Nat, From(t)'
      PROVE  Remembers(tape', orders', consumed', cursor', HeldToken', t)
  <2>1. Remembers(tape, orders, consumed, cursor, HeldToken, t)
    BY <1>1 DEF TakenIsKept
  <2>2. QED
    BY <2>1
<1>2. QED
  BY <1>1 DEF TakenIsKept

LEMMA SkipRowRemembers ==
  ASSUME BInv, TakenIsKept, SkipRow
  PROVE  TakenIsKept'
<1>1. /\ phase = "rows" /\ phase' = phase
      /\ UNCHANGED <<tape, orders, consumed, cursor>> /\ position' = position
  BY DEF SkipRow, outer, trade, impact
<1>2. HeldToken' = HeldToken /\ \A t \in Nat : From(t)' => From(t)
  BY <1>1 DEF HeldToken, From, InParent
<1>3. QED
  BY <1>1, <1>2, KeptLater

LEMMA StartParentRemembers ==
  ASSUME BInv, BInv', StartParent
  PROVE  TakenIsKept'
<1>1. phase = "rows" /\ Signal /\ orders' = orders
  BY DEF StartParent
<1>2. Filled = {}
  BY <1>1 DEF BInv, NothingBefore, Signal
<1>3. Filled' = {}
  BY <1>1, <1>2, NothingSent
<1>4. QED
  BY <1>3, KeptEmpty

LEMMA SkipDecisionRemembers ==
  ASSUME BInv, TakenIsKept, SkipDecision
  PROVE  TakenIsKept'
<1>1. /\ phase = "decisions" /\ phase' = phase /\ now <= session.plan.deadline /\ Tick
      /\ UNCHANGED <<tape, orders, consumed, cursor>>
      /\ session' = session /\ Row' = Row
  BY DEF SkipDecision, outer, trade, impact, Row
<1>2. /\ EpisodeType /\ index \in Nat \ {0} /\ now \in Nat /\ session \in Sessions
      /\ InEpisode /\ session.plan.deadline = Deadline
  BY <1>1 DEF BInv, TypeOK, ParentType, InParent
<1>3. session.plan.deadline < TapeEnd
  BY <1>2, DeadlineIs
<1>4. now' \in Nat /\ now < now'
  BY <1>1, <1>2, <1>3, TickIsLater
<1>5. HeldToken' = HeldToken
  BY <1>1 DEF HeldToken, InParent
<1>6. ASSUME NEW t \in Nat, From(t)' PROVE From(t)
  <2>1. t >= session.plan.deadline \/ (t >= now' /\ t >= session.notBefore)
    BY <1>1, <1>6 DEF From, InParent
  <2>2. t >= now' => t >= now
    BY <1>2, <1>4
  <2>3. QED
    BY <1>1, <2>1, <2>2 DEF From, InParent
<1>7. QED
  BY <1>1, <1>5, <1>6, KeptLater

\* A step that sends an order remembers, at its arrival, what it must.
SendsKnown(o) == Sends(o) /\ Remembers(tape, orders, consumed, cursor, o.token, o.arrival)

LEMMA SendExitRemembers ==
  ASSUME BInv, TakenIsKept, SendExit
  PROVE  TakenIsKept' /\ \E o : SendsKnown(o)
<1>1. PICK latency \in Latencies : \E x \in {Outcome(Exit(latency))} :
         LET o    == x.order
             sold == Total(o.slices, "size")
             left == position.shares - sold
         IN  /\ Log(x)
             /\ position' = [position EXCEPT !.shares = left, !.effective = EffectiveAfter(o)]
             /\ phase' = IF left <= 0 THEN "sold" ELSE "rows"
  BY Zenon DEF SendExit
<1> DEFINE e == Exit(latency)
           o == Outcome(e).order
           left == position.shares - Total(o.slices, "size")
           later == EffectiveAfter(o)
<1>2. /\ orders' = Append(orders, o)
      /\ consumed' = Outcome(e).consumed /\ cursor' = Outcome(e).cursor
      /\ position' = [position EXCEPT !.shares = left, !.effective = later]
      /\ phase' \in {"sold", "rows"}
  BY <1>1 DEF Log
<1>3. /\ phase = "rows" /\ InEpisode /\ Holding /\ ExitFor # NoExit /\ tape' = tape
  BY DEF SendExit, outer
<1>4. /\ EpisodeType /\ TradeType /\ ImpactType
      /\ index \in Nat \ {0} /\ index \in Nat /\ orders \in Seq(SentOrder)
  BY DEF BInv, TypeOK
<1>5. IsRequest(e) /\ e.token = Row.token /\ e.arrival \in Nat /\ Row.at <= e.arrival
  BY <1>3, <1>4, ExitIsRequest
<1>6. o \in SentOrder /\ o.arrival = e.arrival
  BY <1>4, <1>5, OutcomeIs
<1>7. Sends(e)
  BY <1>2, <1>5 DEF Sends
<1>8. Row.at \in Nat /\ position.effective \in Nat /\ position.effective <= Row.at
      /\ position.token = Row.token
  BY <1>3, <1>4, RowIsTape DEF TradeType, Holding
<1>9. position'.effective = later /\ position'.token = Row.token
  BY <1>2, <1>4, <1>8 DEF TradeType
<1>10. later \in Int /\ later >= o.arrival /\ later >= position.effective
  <2>1. /\ later \in Int
        /\ later = IF position.effective >= o.arrival THEN position.effective ELSE o.arrival
    BY <1>5, <1>6, <1>8, MaxOfTwo DEF EffectiveAfter
  <2> HIDE DEF later, o, e
  <2>2. o.arrival \in Nat
    BY <1>5, <1>6
  <2>3. QED
    BY <1>8, <2>1, <2>2
<1> HIDE DEF e, o, later, left
<1>11. ~InParent
  BY <1>3 DEF InParent
<1>12. ASSUME NEW t \in Nat, t >= position.effective
       PROVE  Remembers(tape, orders, consumed, cursor, e.token, t)
  <2>1. From(t) /\ HeldToken = e.token
    BY <1>5, <1>8, <1>11, <1>12 DEF From, HeldToken
  <2>2. QED
    BY <1>3, <2>1 DEF TakenIsKept
<1>13. Remembers(tape, orders, consumed, cursor, e.token, e.arrival)
  <2>1. e.arrival >= position.effective
    BY <1>5, <1>8
  <2>2. QED
    BY <1>5, <1>12, <2>1
<1>14. TakenIsKept'
  <2>1. CASE phase' = "sold"
    BY <2>1 DEF TakenIsKept
  <2>2. CASE phase' = "rows"
    <3>1. HeldToken' = e.token /\ ~InParent'
      BY <1>5, <1>9, <2>2 DEF HeldToken, InParent
    <3>2. ASSUME NEW t \in Nat, From(t)'
          PROVE  Remembers(tape, orders', consumed', cursor', e.token, t)
      <4>1. t >= later
        BY <1>9, <3>1, <3>2 DEF From
      <4>2. t >= position.effective /\ e.arrival <= t
        BY <1>5, <1>6, <1>8, <1>10, <4>1
      <4>3. Remembers(tape, orders, consumed, cursor, e.token, t)
        BY <1>12, <4>2
      <4>4. QED
        BY <1>4, <1>7, <4>2, <4>3, RemembersOrder
    <3>3. QED
      BY <1>3, <3>1, <3>2 DEF TakenIsKept
  <2>3. QED
    BY <1>2, <2>1, <2>2
<1>15. QED
  BY <1>7, <1>13, <1>14 DEF SendsKnown

LEMMA EnterAtOnceRemembers ==
  ASSUME BInv, BInv', EnterAtOnce
  PROVE  TakenIsKept' /\ \E o : SendsKnown(o)
<1>1. PICK latency \in Latencies : \E x \in {Outcome(Entry(latency))} :
         Log(x) /\ Enter(x.order.slices, x.order.arrival, result)
  BY Zenon DEF EnterAtOnce
<1> DEFINE e == Entry(latency)
           o == Outcome(e).order
<1>2. /\ orders' = Append(orders, o)
      /\ consumed' = Outcome(e).consumed /\ cursor' = Outcome(e).cursor
      /\ Enter(o.slices, o.arrival, result)
  BY <1>1 DEF Log
<1>3. phase = "rows" /\ InEpisode /\ Signal /\ phase' = "rows" /\ tape' = tape
  BY DEF EnterAtOnce, outer
<1>4. /\ EpisodeType /\ TradeType /\ ExitType /\ ImpactType /\ ResultType
      /\ index \in Nat \ {0} /\ index \in Nat /\ orders \in Seq(SentOrder)
  BY DEF BInv, TypeOK
<1>5. IsRequest(e) /\ e.token = Row.token /\ e.arrival \in Nat
  BY <1>3, <1>4, EntryIsRequest DEF Entry
<1>6. o \in SentOrder /\ o.arrival = e.arrival /\ o.slices \in Seq(SliceTypes)
  <2>1. o \in SentOrder /\ o.arrival = e.arrival
    BY <1>4, <1>5, OutcomeIs
  <2>2. QED
    BY <2>1 DEF SentOrder
<1>7. Sends(e)
  BY <1>2, <1>5 DEF Sends
<1>8. Filled = {}
  BY <1>3 DEF BInv, NothingBefore, Signal
<1>9. \A t \in Nat : Remembers(tape, orders, consumed, cursor, e.token, t)
  <2>1. \A i \in DOMAIN orders : orders[i].slices = << >>
    BY <1>8 DEF Filled
  <2> HIDE DEF e
  <2>2. QED
    BY <1>4, <2>1, NothingToRemember DEF ImpactType
<1> HIDE DEF e, o
<1>10. TakenIsKept'
  <2>1. CASE o.slices = << >>
    <3>1. Filled' = {}
      <4>1. Filled' = Filled \cup (IF o.slices # << >> THEN {Len(orders) + 1} ELSE {})
        BY <1>2, <1>4, <1>6, LogIs
      <4>2. QED
        BY <1>8, <2>1, <4>1
    <3>2. QED
      BY <3>1, KeptEmpty
  <2>2. CASE o.slices # << >>
    <3>1. position'.effective = o.arrival /\ position'.token = Row.token
      <4>1. Row.token \in TapeTokens
        BY <1>3, <1>4, RowIsTape
      <4>2. result.objective \in Int /\ result = [result EXCEPT !.objective = result.objective]
        BY <1>4 DEF ResultType
      <4> DEFINE objective == result.objective
      <4>3. objective \in Int /\ Enter(o.slices, o.arrival, [result EXCEPT !.objective = objective])
        BY <1>2, <4>2
      <4> HIDE DEF objective
      <4>4. o.arrival \in Nat
        BY <1>5, <1>6
      <4>5. QED
        BY <1>4, <1>6, <2>2, <4>1, <4>3, <4>4, EnteredIs
    <3>2. ~InParent' /\ HeldToken' = e.token
      BY <1>3, <1>5, <3>1 DEF InParent, HeldToken
    <3>3. ASSUME NEW t \in Nat, From(t)'
          PROVE  Remembers(tape, orders', consumed', cursor', e.token, t)
      <4>1. e.arrival <= t
        BY <1>5, <1>6, <3>1, <3>2, <3>3 DEF From
      <4>2. QED
        BY <1>4, <1>7, <1>9, <4>1, RemembersOrder
    <3>4. QED
      BY <1>3, <3>2, <3>3 DEF TakenIsKept
  <2>3. QED
    BY <2>1, <2>2
<1>11. QED
  BY <1>5, <1>7, <1>9, <1>10 DEF SendsKnown

LEMMA DecideChildRemembers ==
  ASSUME BInv, BInv', TakenIsKept, DecideChild
  PROVE  TakenIsKept'
<1> DEFINE token == Row.token
           after == Replenished(token, RowAt(tape, token, now))
<1>1. /\ phase = "decisions" /\ now <= session.plan.deadline
      /\ consumed' = after.consumed /\ cursor' = after.cursor
      /\ UNCHANGED <<outer, index, orders>>
      /\ IF DecideRaises(session, now) THEN phase' = "raised" /\ UNCHANGED now
         ELSE IF session'.pending > 0 THEN phase' = "child" /\ UNCHANGED now
         ELSE phase' = phase /\ Tick
      /\ session' \in {session, Decide(session, View(after.consumed), params)}
  BY DEF DecideChild
<1>2. /\ EpisodeType /\ ImpactType /\ index \in Nat \ {0} /\ now \in Nat
      /\ session \in Sessions /\ orders \in Seq(SentOrder)
      /\ InEpisode /\ PlanIsLegal(session.plan) /\ session.plan.limit > 0
      /\ session.plan.deadline = Deadline
  BY <1>1, ParamFields DEF BInv, TypeOK, ParentType, InParent
<1>3. token \in TapeTokens /\ tape.rows \in Seq(TapeRow)
  BY <1>2, RowIsTape, TapeIsTyped
<1>4. IsTaken(after.consumed)
  <2>1. RowAt(tape, token, now) \in Nat
    BY <1>2, <1>3, RowIsNat
  <2>2. QED
    BY <1>2, <1>3, <2>1, ReplenishedIs
<1> HIDE DEF after
<1>5. session'.plan = session.plan /\ session'.notBefore = session.notBefore
  <2>1. View(after.consumed) \in Views
    <3>1. Readable(now)
      BY DEF DecideChild
    <3>2. QED
      BY <1>1, <1>2, <1>4, <3>1, ViewIsTyped
  <2>2. /\ Decide(session, View(after.consumed), params).plan = session.plan
        /\ Decide(session, View(after.consumed), params).notBefore = session.notBefore
    <3>1. params \in ParamSets
      BY <1>2 DEF EpisodeType
    <3>2. session.pending = 0
      BY <1>1 DEF BInv, ChildIsSound
    <3>3. ParentIsSound /\ InParent
      BY <1>1 DEF BInv, InParent
    <3>4. session.cash >= 0 /\ session.filled <= session.plan.target
      BY <3>3 DEF ParentIsSound
    <3>5. QED
      BY <1>2, <2>1, <3>1, <3>2, <3>4, DecideIsWithin
  <2>3. QED
    BY <1>1, <2>2
<1>6. CASE phase' = "raised"
  BY <1>6 DEF BInv, SessionNeverRaises
<1>7. CASE phase' \in {"decisions", "child"}
  <2>1. now' \in Nat /\ now <= now'
    <3>1. CASE now' = now
      BY <1>2, <3>1
    <3>2. CASE Tick
      <4>1. session.plan.deadline < TapeEnd
        BY <1>2, DeadlineIs
      <4>2. now' \in Nat /\ now < now'
        BY <1>1, <1>2, <3>2, <4>1, TickIsLater
      <4>3. QED
        BY <1>2, <4>2
    <3>3. QED
      BY <1>1, <1>7, <3>1, <3>2
  <2>2. Row' = Row /\ tape' = tape /\ InParent /\ InParent'
    BY <1>1, <1>7 DEF Row, outer, InParent
  <2>3. HeldToken = token /\ HeldToken' = token
    BY <2>2 DEF HeldToken
  <2>4. session.plan.deadline \in Nat /\ session.notBefore \in Nat
    BY <1>2, SessionFields
  <2>5. ASSUME NEW t \in Nat, From(t)'
        PROVE  Remembers(tape, orders, after.consumed, after.cursor, token, t)
    <3>1. t >= session.plan.deadline \/ (t >= now' /\ t >= session.notBefore)
      BY <1>5, <2>2, <2>5 DEF From
    <3>2. From(t) /\ now <= t
      BY <1>1, <1>2, <2>1, <2>2, <2>4, <3>1 DEF From
    <3>3. Remembers(tape, orders, consumed, cursor, token, t)
      BY <1>1, <2>3, <3>2 DEF TakenIsKept
    <3>4. QED
      BY <1>2, <1>3, <3>2, <3>3, RemembersReplenished DEF after
  <2>6. QED
    BY <1>1, <2>2, <2>3, <2>5 DEF TakenIsKept
<1>8. QED
  BY <1>1, <1>6, <1>7

LEMMA SendChildRemembers ==
  ASSUME BInv, TakenIsKept, SendChild
  PROVE  TakenIsKept' /\ \E o : SendsKnown(o)
<1>1. PICK latency \in Latencies : \E x \in {Outcome(ChildOrder(latency))} :
         /\ Log(x)
         /\ IF OutcomeRaises(session, x.order)
            THEN phase' = "raised" /\ UNCHANGED <<session, now>>
            ELSE /\ session' = RecordOutcome(session, x.order)
                 /\ phase' = "decisions"
                 /\ IF Remaining(session') <= 0 THEN now' = TapeEnd ELSE Tick
  BY Zenon DEF SendChild
<1> DEFINE e == ChildOrder(latency)
           o == Outcome(e).order
<1>2. phase = "child" /\ UNCHANGED <<outer, index>> /\ tape' = tape
  BY DEF SendChild, outer
<1>3. /\ EpisodeType /\ TradeType /\ ImpactType
      /\ index \in Nat \ {0} /\ index \in Nat /\ now \in Nat
      /\ session \in Sessions /\ orders \in Seq(SentOrder)
      /\ InEpisode /\ session.cash >= 0 /\ session.plan.deadline = Deadline
      /\ session.notBefore <= now /\ now <= session.plan.deadline
  BY <1>2 DEF BInv, TypeOK, ParentType, ParentIsSound, ChildIsSound, InParent
<1>4. /\ o \in SentOrder /\ o.arrival \in Nat /\ now <= o.arrival
      /\ ~OutcomeRaises(session, o)
  BY <1>2, <1>3, ChildIsTaken
<1>5. /\ orders' = Append(orders, o)
      /\ consumed' = Outcome(e).consumed /\ cursor' = Outcome(e).cursor
      /\ session' = RecordOutcome(session, o) /\ phase' = "decisions"
      /\ now' = TapeEnd \/ Tick
  BY <1>1, <1>4 DEF Log
<1>6. IsRequest(e) /\ e.token = Row.token /\ e.deadline = session.plan.deadline
      /\ e.deadline # None
  BY <1>3, ChildIsRequest
<1>7. o.arrival = e.arrival /\ (Takes(e, Outcome(e)) => e.arrival <= session.plan.deadline)
  BY <1>3, <1>6, OutcomeIs DEF Takes, Meets
<1>8. Sends(e)
  BY <1>5, <1>6 DEF Sends
<1> HIDE DEF e, o
<1>9. /\ session'.plan = session.plan /\ session.notBefore <= session'.notBefore
      /\ o.arrival <= session'.notBefore /\ session'.notBefore \in {session.notBefore, o.arrival}
  BY <1>3, <1>4, <1>5, RecordIsWithin
<1>10. session.plan.deadline \in Nat /\ session.notBefore \in Nat /\ session'.notBefore \in Nat
  BY <1>3, <1>4, <1>9, SessionFields
<1>11. InParent /\ InParent' /\ Row' = Row
  BY <1>2, <1>5 DEF InParent, Row, outer
<1>12. HeldToken = e.token /\ HeldToken' = e.token
  BY <1>6, <1>11 DEF HeldToken
<1>13. ASSUME NEW t \in Nat, t >= now
       PROVE  Remembers(tape, orders, consumed, cursor, e.token, t)
  <2>1. From(t)
    BY <1>3, <1>10, <1>11, <1>13 DEF From
  <2>2. QED
    BY <1>2, <1>12, <2>1 DEF TakenIsKept
<1>14. Remembers(tape, orders, consumed, cursor, e.token, e.arrival)
  BY <1>3, <1>4, <1>7, <1>13
<1>15. ASSUME NEW t \in Nat, From(t)'
       PROVE  Remembers(tape, orders', consumed', cursor', e.token, t)
  <2>1. t >= session.plan.deadline \/ t >= session'.notBefore
    BY <1>9, <1>11, <1>15 DEF From
  <2>2. t >= now /\ (e.arrival <= session.plan.deadline => e.arrival <= t)
    BY <1>3, <1>4, <1>7, <1>9, <1>10, <2>1
  <2>3. Remembers(tape, orders, consumed, cursor, e.token, t)
    BY <1>13, <2>2
  <2>4. QED
    BY <1>3, <1>7, <1>8, <2>2, <2>3, RemembersOrder
<1>16. TakenIsKept'
  BY <1>2, <1>12, <1>15 DEF TakenIsKept
<1>17. QED
  BY <1>8, <1>14, <1>16 DEF SendsKnown

LEMMA FinishParentRemembers ==
  ASSUME BInv, BInv', TakenIsKept, FinishParent
  PROVE  TakenIsKept'
<1> DEFINE children == {i \in DOMAIN orders : orders[i].row = index}
           arrived == {orders[i].arrival : i \in {j \in children : orders[j].slices # << >>}}
           effective == Max({session.plan.deadline} \cup arrived)
           fills == session.fills
<1>1. /\ phase = "decisions" /\ UNCHANGED <<outer, impact, orders>>
      /\ \/ phase' = "raised"
         \/ /\ Enter(fills, effective, [result EXCEPT !.objective = Objective(session, DeadlineMark)])
            /\ phase' = "rows"
  BY DEF FinishParent
<1>2. phase' # "raised"
  BY DEF BInv, SessionNeverRaises
<1>3. /\ session \in Sessions /\ orders \in Seq(SentOrder) /\ InParent /\ ParentIsSound
  BY <1>1 DEF BInv, TypeOK, InParent
<1>4. CASE fills = << >>
  <2>1. Filled = {}
    BY <1>3, <1>4 DEF ParentIsSound
  <2>2. Filled' = {}
    BY <1>1, <2>1, NothingSent
  <2>3. QED
    BY <2>2, KeptEmpty
<1>5. CASE fills # << >>
  <2>1. position'.effective = effective /\ position'.token = Row.token
    BY <1>1, <1>2, <1>5 DEF Enter
  <2>2. session.plan.deadline \in Nat
    BY <1>3, SessionFields
  <2>3. effective \in Nat /\ session.plan.deadline <= effective
    <3> DEFINE S == {session.plan.deadline} \cup arrived
    <3>1. IsFiniteSet(arrived)
      <4> DEFINE those == {j \in children : orders[j].slices # << >>}
      <4>1. those \in SUBSET DOMAIN orders
        OBVIOUS
      <4>2. IsFiniteSet(those)
        BY <1>3, <4>1, SentFields, FS_Subset
      <4>3. arrived = {orders[i].arrival : i \in those}
        OBVIOUS
      <4> HIDE DEF those, arrived
      <4>4. IsFiniteSet({orders[i].arrival : i \in those})
        <5> DEFINE im == [i \in those |-> orders[i].arrival]
                   R == {orders[i].arrival : i \in those}
        <5>1. im \in Surjection(those, R)
          BY DEF Surjection
        <5>2. QED
          BY <4>2, <5>1, FS_Surjection
      <4>5. QED
        BY <4>3, <4>4
    <3>2. \A t \in arrived : t \in Nat
      <4>1. \A i \in DOMAIN orders : orders[i].arrival \in Nat
        BY <1>3, SentFields
      <4>2. QED
        BY <4>1
    <3>3. IsFiniteSet(S)
      <4>1. IsFiniteSet({session.plan.deadline})
        BY FS_Singleton
      <4> HIDE DEF arrived
      <4>2. QED
        BY <3>1, <4>1, FS_Union
    <3>4. S \in SUBSET Nat /\ session.plan.deadline \in S
      BY <2>2, <3>2
    <3>5. effective = Max(S)
      OBVIOUS
    <3> HIDE DEF S, effective
    <3>6. S \in SUBSET Int /\ S # {}
      BY <3>4
    <3>7. Max(S) \in S /\ \A t \in S : t <= Max(S)
      BY <3>3, <3>6, MaxIsGreatest
    <3>8. QED
      BY <3>4, <3>5, <3>7
  <2> HIDE DEF effective
  <2>4. HeldToken = Row.token /\ HeldToken' = Row.token /\ ~InParent'
    BY <1>1, <1>2, <1>3, <2>1 DEF HeldToken, InParent
  <2>5. ASSUME NEW t \in Nat, From(t)' PROVE From(t)
    <3>1. t >= effective
      BY <2>1, <2>4, <2>5 DEF From
    <3>2. t >= session.plan.deadline
      BY <2>2, <2>3, <3>1
    <3>3. QED
      BY <1>3, <3>2 DEF From
  <2>6. UNCHANGED <<tape, orders, consumed, cursor>>
    BY <1>1 DEF outer, impact
  <2>7. QED
    BY <1>1, <2>4, <2>5, <2>6, KeptLater
<1>6. QED
  BY <1>4, <1>5

LEMMA StepRemembers ==
  ASSUME BInv, TakenIsKept, [Next]_vars
  PROVE  /\ TakenIsKept'
         /\ UNCHANGED orders \/ \E o : SendsKnown(o)
<1>1. BInv'
  BY StepInvariant
<1>2. CASE SkipRow
  BY <1>2, SkipRowRemembers DEF SkipRow
<1>3. CASE SendExit
  BY <1>3, SendExitRemembers
<1>4. CASE EnterAtOnce
  BY <1>1, <1>4, EnterAtOnceRemembers
<1>5. CASE StartParent
  BY <1>1, <1>5, StartParentRemembers DEF StartParent
<1>6. CASE DecideChild
  BY <1>1, <1>6, DecideChildRemembers DEF DecideChild
<1>7. CASE SkipDecision
  BY <1>7, SkipDecisionRemembers DEF SkipDecision
<1>8. CASE SendChild
  BY <1>8, SendChildRemembers
<1>9. CASE FinishParent
  BY <1>1, <1>9, FinishParentRemembers DEF FinishParent
<1>10. CASE Settle
  BY <1>10 DEF Settle, TakenIsKept
<1>11. CASE UNCHANGED vars
  <2>1. /\ phase' = phase
        /\ UNCHANGED <<tape, orders, consumed, cursor>>
        /\ HeldToken' = HeldToken
        /\ \A t \in Nat : From(t)' => From(t)
    BY <1>11 DEF vars, outer, trade, impact, HeldToken, From, InParent, Row
  <2>2. QED
    BY <2>1, KeptLater DEF TakenIsKept
<1>12. CASE Over
  BY <1>11, <1>12 DEF Over
<1>13. QED
  BY <1>2, <1>3, <1>4, <1>5, <1>6, <1>7, <1>8, <1>9, <1>10, <1>11, <1>12 DEF Next

\* A sum of numbers is no less than one of them, and is that one if the
\* others are zero.
LEMMA SumHolds ==
  ASSUME NEW S, IsFiniteSet(S), NEW a \in S, NEW f, \A x \in S : f[x] \in Nat
  PROVE  /\ f[a] <= SumFunctionOnSet(f, S)
         /\ (\A x \in S \ {a} : f[x] = 0) => SumFunctionOnSet(f, S) = f[a]
<1> DEFINE rest == S \ {a}
           sum == SumFunctionOnSet(f, rest)
<1>1. IsFiniteSet(rest)
  BY FS_Subset
<1>2. sum \in Nat
  <2>1. \A x \in rest : f[x] \in Nat
    OBVIOUS
  <2> HIDE DEF rest
  <2>2. QED
    BY <1>1, <2>1, SumIsNat
<1>3. SumFunctionOnSet(f, S) = f[a] + sum
  <2>1. \A x \in S : f[x] \in Int
    OBVIOUS
  <2>2. \A x \in S : SumFunctionOnSet(f, S) = f[x] + SumFunctionOnSet(f, S \ {x})
    BY <2>1, SumOfAny
  <2>3. QED
    BY <2>2
<1>4. (\A x \in S \ {a} : f[x] = 0) => sum = 0
  <2>1. ASSUME \A x \in rest : f[x] = 0 PROVE sum = 0
    <3> HIDE DEF rest
    <3>1. QED
      BY <1>1, <2>1, SumOfZeros
  <2>2. QED
    BY <2>1
<1> HIDE DEF sum
<1>5. f[a] \in Nat
  OBVIOUS
<1>6. QED
  BY <1>2, <1>3, <1>4, <1>5

\* What a ladder shows at a price: no less than any of its levels there.
LEMMA LadderShows ==
  ASSUME NEW ladder \in Seq(Level), NEW j \in DOMAIN ladder
  PROVE  /\ SizeAtPrice(ladder, ladder[j].price) \in Nat
         /\ ladder[j].size <= SizeAtPrice(ladder, ladder[j].price)
<1> DEFINE p == ladder[j].price
           f == [i \in DOMAIN ladder |-> IF ladder[i].price = p THEN ladder[i].size ELSE 0]
<1>1. DOMAIN ladder = 1 .. Len(ladder) /\ Len(ladder) \in Nat
  BY LenProperties
<1>2. IsFiniteSet(DOMAIN ladder)
  BY <1>1, FS_Interval
<1>3. DOMAIN f = DOMAIN ladder /\ f[j] = ladder[j].size /\ \A i \in DOMAIN ladder : f[i] \in Nat
  BY LadderFields
<1>4. SizeAtPrice(ladder, p) = SumFunctionOnSet(f, DOMAIN f)
  BY DEF SizeAtPrice, SumFunction
<1> HIDE DEF f
<1>5. QED
  BY <1>2, <1>3, <1>4, SumHolds, SumIsNat

\* Slices of different levels: one at each price.
LEMMA SliceAlone ==
  ASSUME NEW slices \in Seq(SliceTypes), NEW k \in DOMAIN slices,
         \A j \in DOMAIN slices : slices[j].price = slices[k].price => j = k
  PROVE  SizeAtPrice(slices, slices[k].price) = slices[k].size
<1> DEFINE p == slices[k].price
           f == [i \in DOMAIN slices |-> IF slices[i].price = p THEN slices[i].size ELSE 0]
<1>1. DOMAIN slices = 1 .. Len(slices) /\ Len(slices) \in Nat
  BY LenProperties
<1>2. IsFiniteSet(DOMAIN slices)
  BY <1>1, FS_Interval
<1>3. /\ DOMAIN f = DOMAIN slices /\ f[k] = slices[k].size
      /\ \A i \in DOMAIN slices : f[i] \in Nat
      /\ \A i \in DOMAIN slices \ {k} : f[i] = 0
  BY SliceFields
<1>4. SizeAtPrice(slices, p) = SumFunctionOnSet(f, DOMAIN f)
  BY DEF SizeAtPrice, SumFunction
<1> HIDE DEF f
<1>5. QED
  BY <1>2, <1>3, <1>4, SumHolds

\* Of the tape's rows up to the one that an order meets, the last that states
\* a level.
StatedFor(tp, sent, j, key) ==
  Max({0} \cup {r \in 1 .. RowFor(tp, sent[j]) :
                  tp.rows[r].taken /\ Restates(tp.rows[r], key)})

SameStatement(tp, sent, i, key) ==
  {j \in {m \in DOMAIN sent : sent[m].slices # << >>} :
     /\ sent[j].token = sent[i].token
     /\ sent[j].side = sent[i].side
     /\ StatedFor(tp, sent, j, key) = StatedFor(tp, sent, i, key)}

LEMMA StatedForIs ==
  ASSUME tape.rows \in Seq(TapeRow), NEW sent \in Seq(SentOrder), NEW j \in DOMAIN sent, NEW key
  PROVE  /\ StatedFor(tape, sent, j, key) \in Nat
         /\ StatedFor(tape, sent, j, key) <= RowFor(tape, sent[j])
         /\ \A r \in 1 .. RowFor(tape, sent[j]) :
              tape.rows[r].taken /\ Restates(tape.rows[r], key) => r <= StatedFor(tape, sent, j, key)
<1> DEFINE row == RowFor(tape, sent[j])
           T == {r \in 1 .. row : tape.rows[r].taken /\ Restates(tape.rows[r], key)}
           S == {0} \cup T
<1>1. row \in Nat
  BY SentRowIsNat
<1>2. StatedFor(tape, sent, j, key) = Max(S)
  BY DEF StatedFor
<1>3. T \in SUBSET (1 .. row)
  OBVIOUS
<1> HIDE DEF row
<1>4. IsFiniteSet(T) /\ IsFiniteSet({0})
  <2>1. IsFiniteSet(1 .. row)
    BY <1>1, FS_Interval
  <2> HIDE DEF T
  <2>2. IsFiniteSet(T)
    BY <1>3, <2>1, FS_Subset
  <2>3. QED
    BY <2>2, FS_Singleton
<1>5. \A r \in S : r \in Nat /\ r <= row
  BY <1>1, <1>3
<1>6. IsFiniteSet(S)
  <2> HIDE DEF T
  <2>1. QED
    BY <1>4, FS_Union
<1>7. 0 \in S /\ \A r \in T : r \in S
  OBVIOUS
<1> HIDE DEF S
<1>8. Max(S) \in S /\ \A r \in S : r <= Max(S)
  <2>1. S \in SUBSET Int /\ S # {}
    BY <1>5, <1>7
  <2>2. QED
    BY <1>6, <2>1, MaxIsGreatest
<1>9. QED
  BY <1>2, <1>5, <1>7, <1>8 DEF row

\* Fills that met the same statement of a level are live when the last of
\* them arrives.
LEMMA SameIsLive ==
  ASSUME tape.rows \in Seq(TapeRow), AllApplied(tape.rows),
         NEW sent \in Seq(SentOrder), NEW i \in DOMAIN sent, NEW key \in Keys,
         key.token = sent[i].token, key.side = BookSide(sent[i].side)
  PROVE  SameStatement(tape, sent, i, key) \subseteq Live(tape, sent, key, sent[i].arrival)
<1> DEFINE row(j) == RowFor(tape, sent[j])
           stated(j) == StatedFor(tape, sent, j, key)
<1>1. row(i) = RowAt(tape, key.token, sent[i].arrival)
  BY DEF RowFor
<1>2. ASSUME NEW j \in SameStatement(tape, sent, i, key),
             NEW r \in row(j) + 1 .. row(i), Restates(tape.rows[r], key)
      PROVE  FALSE
  <2>1. j \in DOMAIN sent /\ stated(j) = stated(i)
    BY <1>2 DEF SameStatement
  <2>2. row(i) \in Nat /\ row(j) \in Nat /\ row(i) <= Len(tape.rows)
        /\ Len(tape.rows) \in Nat /\ DOMAIN tape.rows = 1 .. Len(tape.rows)
    <3>1. sent[i].arrival \in Nat
      BY SentFields
    <3>2. QED
      BY <1>1, <2>1, <3>1, SentRowIsNat, RowIsNat, RowFields
  <2> HIDE DEF row
  <2>3. r \in Nat /\ r \in 1 .. row(i) /\ r \in DOMAIN tape.rows /\ row(j) < r
    BY <1>2, <2>2
  <2>4. tape.rows[r].taken
    <3>1. tape.rows[r].kind # "tick"
      BY <1>2 DEF Restates
    <3>2. QED
      BY <2>3, <3>1 DEF AllApplied, IsApplied
  <2>5. r <= stated(i) /\ stated(i) \in Nat
    BY <1>2, <2>3, <2>4, StatedForIs DEF row
  <2>6. stated(j) <= row(j)
    BY <2>1, StatedForIs DEF row
  <2> HIDE DEF stated
  <2>7. QED
    BY <2>1, <2>2, <2>3, <2>5, <2>6
<1>3. QED
  BY <1>1, <1>2 DEF Live, SameStatement

\* LevelsAreNotOversold of one order of a log.
WithinShown(tp, sent, i) ==
  \A k \in DOMAIN sent[i].slices :
    LET p   == sent[i].slices[k].price
        key == LevelKey(sent[i].token, BookSide(sent[i].side), p)
    IN  SizeOf(sent, SameStatement(tp, sent, i, key), p)
          <= SizeAtPrice(TakerLadder(tp.rows[RowFor(tp, sent[i])], sent[i].side), p)

\* What was taken before and what is taken now fit in the level.
LEMMA LevelHolds ==
  ASSUME NEW same \in Nat, NEW live \in Nat, NEW size \in Nat, NEW taken \in Nat,
         NEW level \in Nat, NEW shown \in Nat,
         same <= live + size, live <= taken, size <= level - taken, level <= shown
  PROVE  same <= shown
OBVIOUS

LEMMA FillIsWithin ==
  ASSUME EpisodeType, ImpactType, index \in Nat, orders \in Seq(SentOrder),
         AllApplied(tape.rows), NEW o, SendsKnown(o), Outcome(o).order.slices # << >>
  PROVE  WithinShown(tape, orders', Len(orders) + 1)
<1> DEFINE e == Outcome(o).order
           n == Len(orders)
           row == RowAt(tape, o.token, o.arrival)
           ladder == TakerLadder(tape.rows[row], o.side)
           after == Replenished(o.token, row)
           side == BookSide(o.side)
<1>1. /\ IsRequest(o) /\ orders' = Append(orders, e)
      /\ Remembers(tape, orders, consumed, cursor, o.token, o.arrival)
  BY DEF SendsKnown, Sends
<1>2. /\ o.arrival \in Nat /\ o.token \in TapeTokens /\ o.side \in {"BUY", "SELL"}
      /\ side \in Side /\ tape.rows \in Seq(TapeRow) /\ DOMAIN tape.rows = 1 .. Len(tape.rows)
  BY <1>1, TapeIsTyped DEF IsRequest, Request, Side, BookSide
<1>3. /\ e \in SentOrder /\ e.side = o.side /\ e.token = o.token /\ e.arrival = o.arrival
      /\ Takes(o, Outcome(o))
  BY <1>1, OutcomeIs
<1>4. /\ row \in 1 .. Len(tape.rows)
      /\ ladder \in Seq(Level)
      /\ IsTaken(after.consumed)
      /\ \E at \in [DOMAIN e.slices -> DOMAIN ladder] :
           /\ \A j, k \in DOMAIN e.slices : at[j] = at[k] => j = k
           /\ \A k \in DOMAIN e.slices :
                /\ at[k] \in DOMAIN ladder
                /\ e.slices[k].price = ladder[at[k]].price
                /\ e.slices[k].size <= ladder[at[k]].size
                     - TakenFrom(after.consumed, LevelKey(o.token, side, e.slices[k].price))
  BY <1>1, <1>3, TakesOfLadder
<1>5. IsLadder(ladder)
  BY <1>2, <1>4 DEF AllApplied, IsApplied, TakerLadder
<1>6. Remembers(tape, orders, after.consumed, after.cursor, o.token, o.arrival)
  <2>1. o.arrival <= o.arrival
    BY <1>2
  <2>2. QED
    BY <1>1, <1>2, <2>1, RemembersReplenished
<1>7. e.slices \in Seq(SliceTypes)
  BY <1>3 DEF SentOrder
<1>8. RowFor(tape, e) = row
  BY <1>3 DEF RowFor
<1> HIDE DEF e, row, ladder, after, side
<1>9. /\ n \in Nat /\ DOMAIN orders = 1 .. n
      /\ orders' \in Seq(SentOrder) /\ DOMAIN orders' = 1 .. n + 1
      /\ orders'[n + 1] = e /\ \A i \in 1 .. n : orders'[i] = orders[i]
  BY <1>1, <1>3, LogIs
<1> HIDE DEF n
<1>10. PICK at \in [DOMAIN e.slices -> DOMAIN ladder] :
         /\ \A j, k \in DOMAIN e.slices : at[j] = at[k] => j = k
         /\ \A k \in DOMAIN e.slices :
              /\ at[k] \in DOMAIN ladder
              /\ e.slices[k].price = ladder[at[k]].price
              /\ e.slices[k].size <= ladder[at[k]].size
                   - TakenFrom(after.consumed, LevelKey(o.token, side, e.slices[k].price))
  BY <1>4
<1>11. ASSUME NEW k \in DOMAIN e.slices
       PROVE  LET p   == e.slices[k].price
                  key == LevelKey(o.token, side, p)
              IN  SizeOf(orders', SameStatement(tape, orders', n + 1, key), p) <= SizeAtPrice(ladder, p)
  <2> DEFINE p == e.slices[k].price
             key == LevelKey(o.token, side, p)
             S == SameStatement(tape, orders', n + 1, key)
             L == Live(tape, orders, key, o.arrival)
  <2>1. p \in Price /\ e.slices[k].size \in Nat
    BY <1>7, SliceFields
  <2>2. key \in Keys /\ key.token = o.token /\ key.side = side /\ key.price = p
    BY <1>2, <2>1 DEF LevelKey, Keys
  <2>3. \A j \in DOMAIN e.slices : e.slices[j].price = p => j = k
    BY <1>5, <1>10 DEF IsLadder
  <2>4. SizeAtPrice(e.slices, p) = e.slices[k].size
    BY <1>7, <2>3, SliceAlone
  <2>5. /\ e.slices[k].size <= ladder[at[k]].size - TakenFrom(after.consumed, key)
        /\ ladder[at[k]].size <= SizeAtPrice(ladder, p)
        /\ ladder[at[k]].size \in Nat /\ SizeAtPrice(ladder, p) \in Nat
    <3>1. at[k] \in DOMAIN ladder /\ ladder[at[k]].price = p
      BY <1>10
    <3>2. ladder[at[k]].size \in Nat
      BY <1>4, <3>1, LadderFields
    <3>3. /\ SizeAtPrice(ladder, ladder[at[k]].price) \in Nat
          /\ ladder[at[k]].size <= SizeAtPrice(ladder, ladder[at[k]].price)
      BY <1>4, <3>1, LadderShows
    <3>4. QED
      BY <1>10, <3>1, <3>2, <3>3
  <2> HIDE DEF p, key
  <2>6. L \in SUBSET DOMAIN orders /\ n + 1 \notin L
    BY <1>9 DEF Live
  <2>7. S \subseteq L \cup {n + 1}
    <3>1. n + 1 \in DOMAIN orders'
      BY <1>9
    <3>2. key.token = orders'[n + 1].token /\ key.side = BookSide(orders'[n + 1].side)
          /\ orders'[n + 1].arrival = o.arrival
      BY <1>3, <1>9, <2>2 DEF side
    <3>3. S \subseteq Live(tape, orders', key, o.arrival)
      <4>1. SameStatement(tape, orders', n + 1, key) \subseteq Live(tape, orders', key, orders'[n + 1].arrival)
        BY <1>2, <1>9, <2>2, <3>1, <3>2, SameIsLive
      <4>2. QED
        BY <3>2, <4>1
    <3>4. ASSUME NEW j \in 1 .. n, j \in Live(tape, orders', key, o.arrival)
          PROVE  j \in L
      BY <1>9, <3>4 DEF Live
    <3> HIDE DEF S, L
    <3>5. \A j \in Live(tape, orders', key, o.arrival) : j \in 1 .. n + 1
      BY <1>9 DEF Live
    <3>6. \A j \in 1 .. n + 1 : j \in 1 .. n \/ j = n + 1
      BY <1>9
    <3>7. QED
      BY <3>3, <3>4, <3>5, <3>6
  <2>8. SizeOf(orders, L, p) <= TakenFrom(after.consumed, key)
    BY <1>6, <2>2 DEF Remembers
  <2>9. TakenFrom(after.consumed, key) \in Nat
    BY <1>4, TakenFromIsNat
  <2> HIDE DEF S, L
  <2>10. SizeOf(orders, L, p) \in Nat
    BY <2>6, SizeOfIs
  <2>11. SizeOf(orders', L \cup {n + 1}, p) = SizeOf(orders, L, p) + SizeAtPrice(e.slices, p)
    BY <1>1, <1>3, <2>6, SizeOfGrows DEF n
  <2>12. SizeOf(orders', S, p) <= SizeOf(orders', L \cup {n + 1}, p)
         /\ SizeOf(orders', S, p) \in Nat
    <3>1. (L \cup {n + 1}) \in SUBSET DOMAIN orders' /\ S \in SUBSET (L \cup {n + 1})
      BY <1>9, <2>6, <2>7
    <3>2. S \in SUBSET DOMAIN orders'
      BY <3>1
    <3>3. SizeOf(orders', S, p) <= SizeOf(orders', L \cup {n + 1}, p)
      BY <1>9, <3>1, SizeOfIs
    <3>4. SizeOf(orders', S, p) \in Nat
      BY <1>9, <3>2, SizeOfIs
    <3>5. QED
      BY <3>3, <3>4
  <2>13. SizeOf(orders', S, p) <= SizeAtPrice(ladder, p)
    <3> DEFINE same == SizeOf(orders', S, p)
               live == SizeOf(orders, L, p)
               size == e.slices[k].size
               taken == TakenFrom(after.consumed, key)
               level == ladder[at[k]].size
               shown == SizeAtPrice(ladder, p)
    <3>1. /\ same \in Nat /\ live \in Nat /\ size \in Nat /\ taken \in Nat
          /\ level \in Nat /\ shown \in Nat
      BY <2>1, <2>5, <2>9, <2>10, <2>12
    <3>2. same <= live + size
      BY <2>4, <2>11, <2>12
    <3>3. live <= taken /\ size <= level - taken /\ level <= shown
      BY <2>5, <2>8
    <3> HIDE DEF same, live, size, taken, level, shown
    <3>4. same <= shown
      BY <3>1, <3>2, <3>3, LevelHolds
    <3>5. QED
      BY <3>4 DEF same, shown
  <2>14. QED
    BY <2>13 DEF S, p, key
<1>12. QED
  BY <1>3, <1>8, <1>9, <1>11 DEF WithinShown, ladder, side, n

LEMMA LevelsOf ==
  /\ LevelsAreNotOversold
       <=> \A i \in Filled : i = Len(orders) => WithinShown(tape, orders, i)
  /\ LevelsAreNotOversold'
       <=> \A i \in Filled' : i = Len(orders') => WithinShown(tape', orders', i)
BY DEF LevelsAreNotOversold, WithinShown, SameStatement, StatedFor, RowFor, SizeOf,
       SizeAtPrice, Filled

LEMMA LevelsAgain ==
  ASSUME BInv, TakenIsKept, AllApplied(tape.rows), LevelsAreNotOversold, [Next]_vars
  PROVE  LevelsAreNotOversold'
<1>1. /\ EpisodeType /\ ImpactType /\ index \in Nat /\ orders \in Seq(SentOrder)
  BY DEF BInv, TypeOK
<1>2. tape' = tape
  BY StepSends
<1>3. CASE UNCHANGED orders
  <2>1. Filled' = Filled
    BY <1>3, NothingSent
  <2>2. \A i \in Filled : i = Len(orders) => WithinShown(tape, orders, i)
    BY LevelsOf
  <2>3. QED
    BY <1>2, <1>3, <2>1, <2>2, LevelsOf
<1>4. CASE \E o : SendsKnown(o)
  <2>1. PICK o : SendsKnown(o)
    BY <1>4
  <2> DEFINE e == Outcome(o).order
             n == Len(orders)
  <2>2. IsRequest(o) /\ orders' = Append(orders, e) /\ e \in SentOrder
    BY <1>1, <2>1, OutcomeIs DEF SendsKnown, Sends
  <2>3. /\ n \in Nat /\ Len(orders') = n + 1 /\ orders'[n + 1] = e
    BY <1>1, <2>2, LogIs
  <2>4. ASSUME NEW i \in Filled', i = Len(orders')
        PROVE  WithinShown(tape, orders', i)
    <3>1. i = n + 1 /\ e.slices # << >>
      BY <2>3, <2>4 DEF Filled
    <3>2. QED
      BY <1>1, <2>1, <3>1, FillIsWithin
  <2>5. QED
    BY <1>2, <2>4, LevelsOf
<1>5. QED
  BY <1>3, <1>4, StepRemembers

\* Of recordings that arrive in the collector's sequence no level is oversold
\* (LevelsAreNotOversold): what _reconcile_self_impact remembers as taken
\* covers every own fill whose level no message has stated since, at whatever
\* time an order looks, as long as the book takes every message it is given.
THEOREM LevelsCorrect ==
  ASSUME \A e \in DOMAIN Recordings : InSequence(Recordings[e])
  PROVE  Spec => []LevelsAreNotOversold
<1>1. BInv => AllApplied(tape.rows)
  <2>1. ASSUME BInv PROVE AllApplied(tape.rows)
    <3>1. episode \in DOMAIN Recordings /\ tape = Build(Recordings[episode])
      BY <2>1 DEF BInv, TypeOK, EpisodeType
    <3>2. IsRecording(Recordings[episode]) /\ InSequence(Recordings[episode])
      BY <3>1, EpisodeAssumption
    <3>3. QED
      BY <3>1, <3>2, TapeIsApplied
  <2>2. QED
    BY <2>1
<1>2. Init => BInv /\ TakenIsKept /\ LevelsAreNotOversold
  <2>1. ASSUME Init PROVE BInv /\ TakenIsKept /\ LevelsAreNotOversold
    <3>1. BInv
      BY <2>1, InitInvariant
    <3>2. DOMAIN orders = {}
      BY <2>1 DEF Init
    <3>3. LevelsAreNotOversold
      BY <3>2 DEF LevelsAreNotOversold, Filled
    <3>4. TakenIsKept
      <4>1. orders \in Seq(SentOrder) /\ IsTaken(consumed)
        BY <3>1 DEF BInv, TypeOK, ImpactType
      <4>2. \A i \in DOMAIN orders : orders[i].slices = << >>
        BY <3>2
      <4>3. \A t \in Nat : Remembers(tape, orders, consumed, cursor, HeldToken, t)
        BY <4>1, <4>2, NothingToRemember
      <4>4. QED
        BY <4>3 DEF TakenIsKept
    <3>5. QED
      BY <3>1, <3>3, <3>4
  <2>2. QED
    BY <2>1
<1>3. BInv /\ TakenIsKept /\ LevelsAreNotOversold /\ [Next]_vars
        => BInv' /\ TakenIsKept' /\ LevelsAreNotOversold'
  BY <1>1, StepInvariant, StepRemembers, LevelsAgain
<1>4. QED
  BY <1>2, <1>3, PTL DEF Spec
=============================================================================
