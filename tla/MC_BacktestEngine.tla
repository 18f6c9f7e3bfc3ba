-------------------------- MODULE MC_BacktestEngine --------------------------
(* A small instance of BacktestEngine: the two tokens of one market, books  *)
(* of up to two asks, prices 1..3 of a scale of 4, so that notionals round  *)
(* both ways and the minimum fee applies.                                   *)
EXTENDS BacktestEngine

CONSTANTS up, down, c1, c2, none

MCTokens == {up, down}

MCConditions == {c1, c2}

MCMarketOf == [t \in MCTokens |-> c1]

Level(p, n) == [price |-> p, size |-> n]

Snapshot(token, condition, sequence, bids, asks) ==
  [token |-> token, condition |-> condition, source |-> "clob_rest", tick |-> 1,
   sequence |-> sequence, listed |-> [s \in Side |-> IF s = "BUY" THEN bids ELSE asks]]

MCSnapshots ==
  {Snapshot(up, c1, 1, <<Level(1, 2)>>, <<Level(2, 2), Level(3, 2)>>),
   Snapshot(up, c1, 2, <<Level(2, 1), Level(1, 1)>>, <<Level(3, 1)>>),
   Snapshot(down, c1, 1, <<Level(1, 1)>>, <<Level(2, 2)>>),
   Snapshot(up, c1, 2, <<Level(2, 1)>>, <<Level(2, 1)>>)}

MCChanges ==
  {[token |-> up, condition |-> c1, sequence |-> 2, side |-> "SELL", price |-> 2,
    size |-> 1, bestBid |-> NoReport, bestAsk |-> NoReport]}

MCTickChanges == {[token |-> up, condition |-> c, tick |-> 1] : c \in MCConditions}

Ask(token, side, limit, shares, notional, maker) ==
  [token |-> token, side |-> side, limit |-> limit, shares |-> shares,
   notional |-> notional, maker |-> maker]

MCIntents ==
  {Ask(up, "BUY", Unstated, 3, Unstated, FALSE),
   Ask(up, "BUY", 2, 2, Unstated, FALSE),
   Ask(up, "SELL", Unstated, 1, Unstated, FALSE),
   Ask(down, "BUY", Unstated, Unstated, 1, FALSE),
   Ask(up, "BUY", Unstated, Unstated, Unstated, TRUE)}

MCGaps == {<<4, 4>>}
=============================================================================
