----------------------------- MODULE TakerRealism -----------------------------
(***************************************************************************)
(* What a simulated taker order gets from a ladder of price levels         *)
(* (backtest/realism.py, backtest/fees.py), and the simulator's cap on     *)
(* what a BUY may spend (backtest/fastsim.py).  Values only.               *)
(*                                                                         *)
(* A ladder is a sequence of levels [price, size], best first.  Amounts    *)
(* are the code's scaled integers; fractions are counted in PPM-ths.  The  *)
(* constraint that cut an order short is reported, not acted on, and is    *)
(* left out; so is the volume cap, which no caller asks for.               *)
(***************************************************************************)
EXTENDS EpisodeTape

CONSTANTS PPM,                    \* the whole, in the unit of fractions
          FeeRate, FeeRateUnit,   \* the fee rate is FeeRate / FeeRateUnit
          MinimumFee,
          Realism                 \* ExecutionRealism, a record

ASSUME RealismAssumption ==
  /\ PPM \in Nat \ {0}
  /\ FeeRate \in Nat /\ FeeRateUnit \in Nat \ {0} /\ MinimumFee \in Nat
  /\ Realism.haircut \in 0 .. PPM - 1
  /\ Realism.participation \in 1 .. PPM
  /\ Realism.levels \in {None} \cup (Nat \ {0})
  /\ Realism.maxAge \in {None} \cup Nat
  /\ Realism.through \in {None} \cup Nat
  /\ Realism.requireValid \in BOOLEAN
  /\ Realism.latencies \subseteq Nat

HalfUp(numerator, unit) == (2 * numerator + unit) \div (2 * unit)

NotionalScaled(size, price) == HalfUp(size * price, PriceScale)

\* shares * rate * p * (1 - p), rounded, and at least the minimum when there
\* is anything to charge.
Fee(size, price) ==
  LET raw == size * FeeRate * price * (PriceScale - price)
      fee == HalfUp(raw, FeeRateUnit * PriceScale * PriceScale)
  IN  IF raw = 0 THEN 0 ELSE Max({fee, MinimumFee})

Slice(price, size) ==
  [price |-> price, size |-> size, notional |-> NotionalScaled(size, price),
   fee |-> Fee(size, price)]

Cost(slice) == slice.notional + slice.fee

Total(slices, field) == SumFunction([i \in DOMAIN slices |-> slices[i][field]])

TotalCost(slices) == Total(slices, "notional") + Total(slices, "fee")

-----------------------------------------------------------------------------
(* TakerExecutor.execute *)

\* The order's own limit, and how far it may chase the touch; the tighter
\* of the ticks and the absolute bound is Realism.through.
EffectiveLimit(side, touch, limit) ==
  LET bound == IF side = "BUY" THEN touch + Realism.through ELSE touch - Realism.through
  IN  CASE Realism.through = None -> limit
        [] Realism.through # None /\ limit = None -> bound
        [] OTHER -> IF side = "BUY" THEN Min({limit, bound}) ELSE Max({limit, bound})

Acceptable(side, price, limit) ==
  limit = None \/ (IF side = "BUY" THEN price <= limit ELSE price >= limit)

Reachable(displayed) ==
  Min({(displayed * (PPM - Realism.haircut)) \div PPM,
       (displayed * Realism.participation) \div PPM})

\* How many levels one order may sweep.
Visible(ladder) ==
  IF Realism.levels = None THEN Len(ladder) ELSE Min({Realism.levels, Len(ladder)})

\* What the walk may take of the k-th level.
Allowed(side, ladder, limit, k) ==
  IF Acceptable(side, ladder[k].price, EffectiveLimit(side, ladder[1].price, limit))
  THEN Reachable(ladder[k].size) ELSE 0

\* It takes what it may of each level until the order is full.
Sweep(side, ladder, requested, limit) ==
  LET levels   == 1 .. Visible(ladder)
      above(k) == SumFunction([i \in 1 .. k - 1 |-> Allowed(side, ladder, limit, i)])
      take(k)  == Min({Allowed(side, ladder, limit, k), Max({0, requested - above(k)})})
  IN  Kept([k \in levels |-> Slice(ladder[k].price, take(k))], {k \in levels : take(k) > 0})

\* What execute refuses before it walks the ladder.
Unexecutable(ladder, requested, age, minimum) ==
  \/ requested <= 0
  \/ ladder = << >>
  \/ requested < minimum
  \/ Realism.maxAge # None /\ age > Realism.maxAge

-----------------------------------------------------------------------------
(* The spending cap of fastsim *)

\* The binary search of _max_affordable_shares: cost grows with size.
MaxAffordable(spend, price, upper) ==
  IF spend <= 0 THEN 0
  ELSE Max({s \in 0 .. upper : Cost(Slice(price, s)) <= spend})

AffordableAt(spend, price) == MaxAffordable(spend, price, ((spend * PriceScale) \div price) + 1)

\* Faulty variant: the cap counts what the shares cost and not their fee.
CapBuyToSpendNet(slices, spend) ==
  LET fits == {k \in 0 .. Len(slices) : Total(SubSeq(slices, 1, k), "notional") <= spend}
  IN  SubSeq(slices, 1, Max(fits))

\* What the first k slices cost.
CostUpTo(slices, k) == SumFunction([i \in 1 .. k |-> Cost(slices[i])])

\* Whole slices while they fit, then what is affordable of the next one.
CapBuyToSpend(slices, spend) ==
  LET whole == Max({k \in 0 .. Len(slices) : CostUpTo(slices, k) <= spend})
      next  == slices[whole + 1]
      part  == MaxAffordable(spend - CostUpTo(slices, whole), next.price, next.size)
  IN  IF whole = Len(slices) THEN slices
      ELSE [k \in 1 .. (IF part > 0 THEN whole + 1 ELSE whole) |->
              IF k <= whole THEN slices[k] ELSE Slice(next.price, part)]
=============================================================================
