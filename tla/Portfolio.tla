------------------------------ MODULE Portfolio ------------------------------
(***************************************************************************)
(* The shared wallet of the event-driven engine (backtest/portfolio.py,    *)
(* settlement.py) and the arithmetic of a fill (backtest/execution.py,     *)
(* fees.py), as values: the engine owns the one portfolio.                 *)
(*                                                                         *)
(* Amounts are the code's scaled integers.  Shares, prices and USDC all    *)
(* have the scale PriceScale (10^6 in the code).  A token without a        *)
(* position is one with no shares and no cost.                             *)
(***************************************************************************)
EXTENDS OrderBook, FiniteSets, Functions

CONSTANTS Tokens,
          MarketOf,       \* token -> condition id of its market
          StartingCash,
          FeeRate, FeeRateUnit,   \* the fee rate is FeeRate / FeeRateUnit
          MinimumFee

ASSUME PortfolioAssumption ==
  /\ IsFiniteSet(Tokens)
  /\ MarketOf \in [Tokens -> Conditions]
  /\ StartingCash \in Nat
  /\ FeeRate \in Nat
  /\ FeeRateUnit \in Nat \ {0}
  /\ MinimumFee \in Nat

HalfUp(numerator, unit) == (2 * numerator + unit) \div (2 * unit)

NotionalScaled(size, price) == HalfUp(size * price, PriceScale)

\* shares * rate * p * (1 - p), rounded, and at least the minimum when there
\* is anything to charge; a zero formula is a rate of zero.
Fee(size, price) ==
  LET raw == size * FeeRate * price * (PriceScale - price)
      fee == HalfUp(raw, FeeRateUnit * PriceScale * PriceScale)
  IN  IF raw = 0 THEN 0 ELSE IF fee > MinimumFee THEN fee ELSE MinimumFee

\* One level of a sweep.
Fill(price, size) ==
  [price |-> price, size |-> size, notional |-> NotionalScaled(size, price),
   fee |-> Fee(size, price)]

PortfolioType ==
  [cash : Int, shares : [Tokens -> Nat], cost : [Tokens -> Nat],
   realized : Int, feesPaid : Nat, buyFees : Nat]

\* buyFees is not kept by the code: it is the part of feesPaid that
\* realized_pnl does not contain, for AccountsBalance.
NewPortfolio ==
  [cash |-> StartingCash, shares |-> [t \in Tokens |-> 0], cost |-> [t \in Tokens |-> 0],
   realized |-> 0, feesPaid |-> 0, buyFees |-> 0]

-----------------------------------------------------------------------------
(* apply_fill *)

\* The two checks of apply_fill, with the default settings that forbid
\* negative cash and short positions.
FillRaises(portfolio, token, side, fill) ==
  IF side = "BUY" THEN fill.notional + fill.fee > portfolio.cash
  ELSE fill.size > portfolio.shares[token]

Bought(portfolio, token, fill) ==
  [portfolio EXCEPT !.cash = @ - (fill.notional + fill.fee),
                    !.shares[token] = @ + fill.size,
                    !.cost[token] = @ + fill.notional,
                    !.feesPaid = @ + fill.fee,
                    !.buyFees = @ + fill.fee]

\* Faulty variant: the cost basis is removed at the price of the sale.
CostAtSalePrice(portfolio, token, fill) ==
  IF fill.notional > portfolio.cost[token] THEN portfolio.cost[token] ELSE fill.notional

\* Weighted average cost: the share of the cost basis that is sold.
RemovedCost(portfolio, token, fill) ==
  IF portfolio.shares[token] = 0 THEN 0
  ELSE (portfolio.cost[token] * fill.size) \div portfolio.shares[token]

Sold(portfolio, token, fill) ==
  LET net == fill.notional - fill.fee
      removed == RemovedCost(portfolio, token, fill)
  IN  [portfolio EXCEPT !.cash = @ + net,
                        !.shares[token] = @ - fill.size,
                        !.cost[token] = @ - removed,
                        !.realized = @ + net - removed,
                        !.feesPaid = @ + fill.fee]

ApplyFill(portfolio, token, side, fill) ==
  IF side = "BUY" THEN Bought(portfolio, token, fill) ELSE Sold(portfolio, token, fill)

-----------------------------------------------------------------------------
(* settle_market *)

\* Positions without shares are skipped, whatever cost they carry.
Held(portfolio, condition) ==
  {t \in Tokens : MarketOf[t] = condition /\ portfolio.shares[t] # 0}

\* Each winning share pays 1 USDC, each losing share nothing.
Payout(portfolio, winner) == portfolio.shares[winner]

CostOf(portfolio, tokens) == SumFunctionOnSet(portfolio.cost, tokens)

Settled(portfolio, condition, winner) ==
  LET held == Held(portfolio, condition)
  IN  [portfolio EXCEPT
         !.cash = @ + Payout(portfolio, winner),
         !.realized = @ + Payout(portfolio, winner) - CostOf(portfolio, held),
         !.shares = [t \in Tokens |-> IF t \in held THEN 0 ELSE @[t]],
         !.cost = [t \in Tokens |-> IF t \in held THEN 0 ELSE @[t]]]
=============================================================================
