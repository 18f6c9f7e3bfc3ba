------------------------ MODULE MC_BookReconstructor ------------------------
(* A small instance of BookReconstructor: one token, prices 1..3 of a       *)
(* scale of 4, a handful of snapshots (valid, crossed, misaligned, with a   *)
(* duplicated level) and of changes, each with an old and a new sequence.   *)
EXTENDS BookReconstructor

CONSTANTS up, c1, c2, none

MCTokens == {up}

MCConditions == {c1, c2}

Level(p, n) == [price |-> p, size |-> n]

Listing(bids, asks) == [s \in Side |-> IF s = "BUY" THEN bids ELSE asks]

Listings ==
  {Listing(<<Level(1, 2)>>, <<Level(3, 2)>>),
   Listing(<<Level(2, 1)>>, <<>>),
   Listing(<<Level(2, 1)>>, <<Level(2, 1)>>),
   Listing(<<Level(1, 1), Level(1, 2)>>, <<>>)}

MCSnapshots ==
  [token : MCTokens, condition : {c1}, source : Sources,
   tick : {1, 2}, sequence : {1, 2}, listed : Listings]
  \cup {[token |-> up, condition |-> c2, source |-> "clob_rest", tick |-> 1,
         sequence |-> 2, listed |-> Listing(<<>>, <<>>)]}

Change(condition, sequence, side, p, n, bid, ask) ==
  [token |-> up, condition |-> condition, sequence |-> sequence, side |-> side,
   price |-> p, size |-> n, bestBid |-> bid, bestAsk |-> ask]

MCChanges ==
  UNION {{Change(c1, q, "BUY", 2, 1, NoReport, NoReport),
          Change(c1, q, "BUY", 2, 0, 1, NoReport),
          Change(c1, q, "BUY", 1, 1, 1, 3),
          Change(c1, q, "SELL", 2, 1, 0, 2),
          Change(c1, q, "SELL", 3, 1, 2, 3),
          Change(c1, q, "SELL", 2, 0, NoReport, PriceScale)} : q \in {1, 2}}
  \cup {Change(c1, 2, "BUY", PriceScale, 1, NoReport, NoReport)}

MCTickChanges == [token : MCTokens, condition : MCConditions, tick : {0, 1, 2}]
=============================================================================
