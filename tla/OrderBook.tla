------------------------------ MODULE OrderBook ------------------------------
(***************************************************************************)
(* The in-memory book of one outcome token (orderbook/state.py) and the    *)
(* checks it runs on every input (orderbook/validator.py).  The module has *)
(* no variables: it defines the book as a value and what its methods make  *)
(* of it, for the modules that own books.                                  *)
(*                                                                         *)
(* A SortedDict price -> size is the total function of Price to size with  *)
(* 0 for an absent level: the code never stores a zero size.  The overlay  *)
(* of simulated fills is represented the same way (consumed.get(p, 0)).    *)
(* Prices are ticks of 1/PriceScale, so 0 and PriceScale are the two       *)
(* reported tops that mean "this side is empty".                           *)
(***************************************************************************)
EXTENDS Integers, Sequences

CONSTANTS PriceScale,     \* POLYMARKET_PRICE_SCALE: the price of certainty
          Conditions,     \* condition ids a message may name
          NoCondition     \* the token has no book yet

ASSUME PriceScaleAssumption == PriceScale \in Nat /\ PriceScale > 1
ASSUME ConditionAssumption == NoCondition \notin Conditions

Side == {"BUY", "SELL"}

Price == 1 .. (PriceScale - 1)

Levels == [Side -> [Price -> Nat]]

NoLevels == [s \in Side |-> [p \in Price |-> 0]]

\* reported_best_bid/ask is None: the source did not state that top.
NoReport == -1

Book == [condition : Conditions \cup {NoCondition},
         displayed : Levels,
         consumed  : Levels,
         tick      : Int,
         lastSequence : Nat,
         valid     : BOOLEAN]

\* OrderBook.__init__, with the default tick of the class.
NewBook(condition, defaultTick) ==
  [condition |-> condition, displayed |-> NoLevels, consumed |-> NoLevels,
   tick |-> defaultTick, lastSequence |-> 0, valid |-> FALSE]

-----------------------------------------------------------------------------
(* The invariant checks *)

LevelIsValid(price, size, tick) ==
  /\ price \in Price
  /\ size >= 0
  /\ tick > 0
  /\ price % tick = 0

\* best_bid >= best_ask, both sides being present.
Crossed(levels) ==
  \E bid, ask \in Price :
    /\ levels["BUY"][bid] > 0
    /\ levels["SELL"][ask] > 0
    /\ bid >= ask

BestBidIs(levels, reported) ==
  /\ \A p \in Price : p > reported => levels["BUY"][p] = 0
  /\ reported # 0 => reported \in Price /\ levels["BUY"][reported] > 0

BestAskIs(levels, reported) ==
  /\ \A p \in Price : p < reported => levels["SELL"][p] = 0
  /\ reported # PriceScale => reported \in Price /\ levels["SELL"][reported] > 0

AgreesWithReport(levels, change) ==
  /\ change.bestBid # NoReport => BestBidIs(levels, change.bestBid)
  /\ change.bestAsk # NoReport => BestAskIs(levels, change.bestAsk)

-----------------------------------------------------------------------------
(* replace: a full snapshot.  A snapshot lists, per side, records          *)
(* [price, size] in the order the source sent them.                        *)

DuplicateLevel(listed) ==
  \E i, j \in DOMAIN listed :
    i < j /\ listed[i].price = listed[j].price /\ listed[i].size > 0

SizeAt(listed, p) ==
  LET at == {i \in DOMAIN listed : listed[i].price = p /\ listed[i].size > 0}
  IN  IF at = {} THEN 0 ELSE listed[CHOOSE i \in at : TRUE].size

SnapshotLevels(snapshot) ==
  [s \in Side |-> [p \in Price |-> SizeAt(snapshot.listed[s], p)]]

SnapshotIsValid(snapshot) ==
  /\ \A s \in Side :
       /\ ~DuplicateLevel(snapshot.listed[s])
       /\ \A i \in DOMAIN snapshot.listed[s] :
            LevelIsValid(snapshot.listed[s][i].price,
                         snapshot.listed[s][i].size, snapshot.tick)
  /\ ~Crossed(SnapshotLevels(snapshot))

\* Faulty variant: every message is taken as new.
NeverStale(book, message) == FALSE

\* A response assigned an older collector sequence never overwrites the book.
IsStale(book, message) == message.sequence < book.lastSequence

Replaced(book, snapshot) ==
  [book EXCEPT !.displayed = SnapshotLevels(snapshot),
               !.consumed = NoLevels,
               !.tick = snapshot.tick,
               !.lastSequence = snapshot.sequence,
               !.valid = TRUE]

Invalidated(book) == [book EXCEPT !.valid = FALSE]

-----------------------------------------------------------------------------
(* apply: one absolute level change *)

\* The changed level is set (or, with size 0, removed), then the source's
\* reported tops remove every level they declare can no longer exist.
ChangedLevels(levels, change) ==
  [s \in Side |-> [p \in Price |->
     IF \/ s = "BUY"  /\ change.bestBid # NoReport /\ p > change.bestBid
        \/ s = "SELL" /\ change.bestAsk # NoReport /\ p < change.bestAsk
     THEN 0
     ELSE IF s = change.side /\ p = change.price
          THEN change.size ELSE levels[s][p]]]

\* Faulty variant: the overlay outlives the restated level.
KeepConsumption(consumed, change) == consumed

\* The source restated this level: simulated consumption of it is forgotten.
ForgetConsumption(consumed, change) ==
  [consumed EXCEPT ![change.side][change.price] = 0]

\* The book after the mutation, before the checks that may still reject it.
Mutated(book, change) ==
  [book EXCEPT !.displayed = ChangedLevels(book.displayed, change),
               !.consumed = ForgetConsumption(book.consumed, change)]

\* Faulty variant: only the reported tops are checked.
OnlyAgreesWithReport(book, change) ==
  AgreesWithReport(Mutated(book, change).displayed, change)

ChangeIsConsistent(book, change) ==
  /\ ~Crossed(Mutated(book, change).displayed)
  /\ AgreesWithReport(Mutated(book, change).displayed, change)

Changed(book, change) ==
  [Mutated(book, change) EXCEPT !.lastSequence = change.sequence, !.valid = TRUE]

-----------------------------------------------------------------------------
(* The overlay of simulated fills *)

Available(book, side, p) == book.displayed[side][p] - book.consumed[side][p]

Consumed(book, side, p, size) ==
  [book EXCEPT !.consumed[side][p] = @ + size]
=============================================================================
