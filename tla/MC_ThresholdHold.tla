--------------------------- MODULE MC_ThresholdHold ---------------------------
(* Recordings of one market: every choice of what happens at times 2 to 8    *)
(* after the snapshot of time 0, a refused message among it.  The favoured   *)
(* token trades at 8 to 9, its stop is at 7.                                 *)
EXTENDS ThresholdHold

Listed(bids, asks) ==
  [BUY  |-> [i \in 1 .. Len(bids) |-> [price |-> bids[i][1], size |-> bids[i][2]]],
   SELL |-> [i \in 1 .. Len(asks) |-> [price |-> asks[i][1], size |-> asks[i][2]]]]

Snap(t, seq, tok, bids, asks) ==
  [kind |-> "snapshot", at |-> t, sequence |-> seq, token |-> tok, source |-> "clob_market_ws",
   tick |-> 1, listed |-> Listed(bids, asks)]

Upd(t, seq, side, price, size, bid, ask) ==
  [kind |-> "update", at |-> t, sequence |-> seq, token |-> "up", side |-> side,
   price |-> price, size |-> size, bestBid |-> bid, bestAsk |-> ask]

Start == {Snap(0, 1, "up", <<<<7, 4>>, <<6, 8>>>>, <<<<8, 4>>, <<9, 8>>>>),
          Snap(0, 2, "down", <<<<2, 4>>>>, <<<<3, 4>>>>)}

\* The ask is stated again, or the top moves down, or a report contradicts
\* the book and leaves it invalid.
First  == <<{}, {Upd(2, 3, "SELL", 8, 4, NoReport, 8)}, {Upd(2, 3, "BUY", 7, 2, 5, NoReport)}>>
Second == <<{Upd(3, 4, "SELL", 9, 4, NoReport, NoReport)}, {Upd(3, 4, "SELL", 8, 0, NoReport, 9)},
            {Snap(3, 4, "up", <<<<8, 2>>>>, <<<<9, 8>>>>)}>>
\* The bid falls to the stop, or disappears.
Third  == <<{Upd(5, 5, "BUY", 8, 0, 7, NoReport)},
            {Snap(5, 5, "up", <<<<6, 4>>>>, <<<<8, 4>>>>)}, {Snap(5, 5, "up", << >>, <<<<9, 4>>>>)}>>
Fourth == <<{Upd(8, 7, "BUY", 6, 4, NoReport, NoReport)},
            {Snap(8, 7, "up", <<<<7, 2>>, <<5, 4>>>>, << >>)}>>

Late == {[kind |-> "tick", at |-> 7, sequence |-> 6, token |-> "up", tick |-> 1]}

Episodes == (1 .. 3) \X (1 .. 3) \X (1 .. 3) \X (1 .. 2)

MCRecordings ==
  [c \in Episodes |-> Start \cup First[c[1]] \cup Second[c[2]] \cup Third[c[3]] \cup Fourth[c[4]] \cup Late]

MCTrades ==
  [c \in Episodes |-> {[at |-> 1, token |-> "up", size |-> 6], [at |-> 4, token |-> "down", size |-> 4]}]

Base == [policy |-> "immediate", shares |-> 8, notional |-> None, partial |-> TRUE,
         maxEntries |-> 2, cooldown |-> 1, trigger |-> 8, limit |-> 9, tokens |-> {"up", "down"},
         stop |-> 7, stopFraction |-> 2, armed |-> None, takeProfit |-> None, tpFraction |-> 4,
         retries |-> 1, retryInterval |-> 1, flatten |-> None,
         horizon |-> 4, slices |-> 2, participation |-> 2]

MCParamSets ==
  {[Base EXCEPT !.policy = p, !.shares = n[1], !.notional = n[2], !.stop = x[1], !.takeProfit = x[2],
                !.flatten = x[3], !.tpFraction = 2] :
     p \in {"immediate", "twap", "adaptive_pov"},
     n \in {<<8, None>>, <<None, 7>>},
     x \in {<<7, None, None>>, <<6, 9, 8>>}}
  \cup {[Base EXCEPT !.partial = FALSE, !.stopFraction = 4]}

MCWallets == {[early |-> 3, late |-> 7, from |-> 2], [early |-> 0, late |-> 7, from |-> 1]}

MCRealism == [haircut |-> 1, participation |-> 4, levels |-> 2, maxAge |-> None, through |-> None,
              requireValid |-> TRUE, latencies |-> {0, 2}]
=============================================================================
