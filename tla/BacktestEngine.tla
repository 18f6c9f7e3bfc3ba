---------------------------- MODULE BacktestEngine ----------------------------
(***************************************************************************)
(* BacktestEngine.run (backtest/engine.py) with the taker simulator        *)
(* (backtest/execution.py), the latency model, the replay clock, the       *)
(* integrity check, and the reconstructor's books.                         *)
(*                                                                         *)
(* run takes the merged events in groups of equal timestamps: orders that  *)
(* arrive before the group, the group, orders that arrive with it; when    *)
(* the events are over, all other orders.  The events and what a strategy  *)
(* makes of them are free.  A sweep is cut into its levels, first planned, *)
(* then filled, so that what apply_fill sees is a state of the model.      *)
(* An exception anywhere ends the run (phase "raised").                    *)
(***************************************************************************)
EXTENDS Portfolio

CONSTANTS Snapshots, Changes, TickChanges, DefaultTick,  \* of BookReconstructor
          Intents,        \* what a strategy may ask for
          Latencies,      \* what LatencyModel.sample_ns may return
          Gaps,           \* unreliable or excluded intervals <<start, end>>
          RejectOnGap,
          ExchangeClock,  \* replay_clock is exchange_time
          MaxTime, MaxEvents, MaxIntents   \* bounds of the run

\* A limit, a size or a notional that the intent does not state.
Unstated == -1

Intent == [token : Tokens, side : Side, limit : Int, shares : Int, notional : Int,
           maker : BOOLEAN]

ASSUME EngineAssumption ==
  /\ Intents \subseteq Intent
  /\ Latencies \subseteq Nat
  /\ Gaps \subseteq (Int \X Int)
  /\ RejectOnGap \in BOOLEAN /\ ExchangeClock \in BOOLEAN
  /\ MaxTime \in Nat /\ MaxEvents \in Nat /\ MaxIntents \in Nat

VARIABLES
  books, effectiveTick, uncertainty,  \* of the reconstructor
  phase,          \* "before", "group", "at", "drain", "done" or "raised"
  timestamp,      \* of the group in hand
  now,            \* clock.current_ns: of the last event applied
  eventsSeen,     \* index into the merged events
  counter,        \* _intent_counter
  pending,        \* heap of [arrival, id, intent]
  order,          \* the order being executed
  portfolio,
  resolved,       \* resolved_conditions
  orderResults,   \* sequence of [id, status]
  executed        \* the last order popped; only read by a property

bookVars == <<books, effectiveTick, uncertainty>>
clockVars == <<timestamp, now, eventsSeen>>
orderVars == <<counter, pending, order, orderResults, executed>>
walletVars == <<portfolio, resolved>>
vars == <<bookVars, phase, clockVars, orderVars, walletVars>>

\* The engine never marks a book uncertain.
Books == INSTANCE BookReconstructor WITH MaxIntervals <- 0

\* The messages a recording holds, as BookReconstructor takes them.
ASSUME RecordingAssumption ==
  /\ Snapshots \subseteq [token : Tokens, condition : Conditions, source : Books!Sources,
                          tick : Int, sequence : Nat, listed : [Side -> Books!Listed]]
  /\ Changes \subseteq [token : Tokens, condition : Conditions, sequence : Nat,
                        side : Side, price : Int, size : Int,
                        bestBid : Int, bestAsk : Int]
  /\ TickChanges \subseteq [token : Tokens, condition : Conditions, tick : Int]
  /\ DefaultTick \in Int

NoOrder == [stage |-> "none"]

Idle == order.stage = "none"

Init ==
  /\ Books!Init
  /\ phase = "at"
  /\ timestamp = 0 /\ now = 0 /\ eventsSeen = 0
  /\ counter = 0 /\ pending = {} /\ order = NoOrder
  /\ portfolio = NewPortfolio /\ resolved = {}
  /\ orderResults = <<>>
  /\ executed = [arrival |-> 0, id |-> -1]

-----------------------------------------------------------------------------
(* The pending orders: a heap by arrival, then by counter *)

Precedes(p, q) == p.arrival < q.arrival \/ (p.arrival = q.arrival /\ p.id < q.id)

\* Faulty variant: orders that arrive with the group run before it.
DueWithGroup(p) ==
  CASE phase = "before" -> p.arrival <= timestamp
    [] phase = "at"     -> p.arrival <= timestamp
    [] phase = "drain"  -> TRUE
    [] OTHER            -> FALSE

\* The cutoffs run gives to _execute_pending.
Due(p) ==
  CASE phase = "before" -> p.arrival < timestamp
    [] phase = "at"     -> p.arrival <= timestamp
    [] phase = "drain"  -> TRUE
    [] OTHER            -> FALSE

NothingDue == Idle /\ \A p \in pending : ~Due(p)

Answer(id, status) == orderResults' = Append(orderResults, [id |-> id, status |-> status])

-----------------------------------------------------------------------------
(* run: groups of events *)

\* merge_events has sorted the events by the timestamp of the replay clock.
BeginGroup(t) ==
  /\ phase = "at" /\ NothingDue
  /\ eventsSeen < MaxEvents
  /\ t > timestamp
  /\ timestamp' = t
  /\ phase' = "before"
  /\ UNCHANGED <<bookVars, now, eventsSeen, orderVars, walletVars>>

\* Under the exchange clock an event may have been received at any time.
ReceivedTimes == IF ExchangeClock THEN 0 .. MaxTime ELSE {timestamp}

InGap(received) == \E gap \in Gaps : gap[1] <= received /\ received <= gap[2]

\* The next event of the group: after the earlier orders, whatever the group
\* has brought so far.
EventComes ==
  /\ (phase = "before" /\ NothingDue) \/ phase = "group"
  /\ eventsSeen < MaxEvents

IntegrityRaises ==
  /\ EventComes
  /\ RejectOnGap /\ \E received \in ReceivedTimes : InGap(received)
  /\ phase' = "raised"
  /\ UNCHANGED <<bookVars, clockVars, orderVars, walletVars>>

\* integrity.check passes and clock.advance moves the clock.
EventPasses ==
  /\ EventComes
  /\ RejectOnGap => \E received \in ReceivedTimes : ~InGap(received)
  /\ now' = timestamp
  /\ eventsSeen' = eventsSeen + 1
  /\ UNCHANGED <<timestamp, orderVars>>

BookSnapshot(snapshot) ==
  /\ EventPasses
  /\ Books!SnapshotAccepted(snapshot) \/ Books!SnapshotStale(snapshot)
  /\ phase' = "group"
  /\ UNCHANGED walletVars

BookUpdate(change) ==
  /\ EventPasses
  /\ Books!ChangeApplied(change)
  /\ phase' = "group"
  /\ UNCHANGED walletVars

TickSizeChange(change) ==
  /\ EventPasses
  /\ ~Books!MappingChanged(change)
  /\ Books!ApplyTickSizeChange(change)
  /\ phase' = "group"
  /\ UNCHANGED walletVars

\* A Bitcoin price, a trade, or an update older than its book: no book changes,
\* but the strategy is called.
OtherEvent ==
  /\ EventPasses
  /\ phase' = "group"
  /\ UNCHANGED <<bookVars, walletVars>>

MarketResolution(condition, winner) ==
  /\ EventPasses
  /\ portfolio' = Settled(portfolio, condition, winner)
  /\ resolved' = resolved \cup {condition}
  /\ phase' = "group"
  /\ UNCHANGED bookVars

\* Nothing catches what the reconstructor raises: for a snapshot that is
\* refused, an update without a valid book or that fails its checks, a token
\* under another market.
UpdateHasNoBook(change) ==
  /\ \/ ~Books!Registered(change.token)
     \/ ~books[change.token].valid
     \/ Books!MappingChanged(change)
  /\ UNCHANGED bookVars

TickChangeRaises(change) ==
  \/ (change.tick <= 0 /\ UNCHANGED bookVars)
  \/ (Books!MappingChanged(change) /\ Books!ApplyTickSizeChange(change))

BookEventRaises ==
  /\ EventPasses
  /\ \/ \E snapshot \in Snapshots :
          Books!SnapshotMismapped(snapshot) \/ Books!SnapshotRejected(snapshot)
     \/ \E change \in Changes :
          \/ UpdateHasNoBook(change)
          \/ Books!ChangeRefusesLevel(change)
          \/ Books!ChangeFailsCheck(change)
     \/ \E change \in TickChanges : TickChangeRaises(change)
  /\ phase' = "raised"
  /\ UNCHANGED walletVars

\* _schedule: one intent of the list the strategy returned for the last event.
\* The decision is stamped with the event's time; maker orders are refused.
Schedule(intent, latency) ==
  /\ phase = "group"
  /\ counter < MaxIntents
  /\ counter' = counter + 1
  /\ IF intent.maker
     THEN Answer(counter, "rejected") /\ UNCHANGED pending
     ELSE /\ pending' = pending \cup
               {[arrival |-> now + latency, id |-> counter, intent |-> intent]}
          /\ UNCHANGED orderResults
  /\ UNCHANGED <<bookVars, phase, clockVars, order, executed, walletVars>>

EndGroup ==
  /\ phase = "group"
  /\ phase' = "at"
  /\ UNCHANGED <<bookVars, clockVars, orderVars, walletVars>>

EventsOver ==
  /\ phase = "at" /\ NothingDue
  /\ phase' = "drain"
  /\ UNCHANGED <<bookVars, clockVars, orderVars, walletVars>>

\* Faulty variant: the orders still under way at the last event are dropped.
FinishAtOnce ==
  /\ phase = "drain" /\ Idle
  /\ phase' = "done"
  /\ UNCHANGED <<bookVars, clockVars, orderVars, walletVars>>

Finish ==
  /\ phase = "drain" /\ Idle /\ pending = {}
  /\ phase' = "done"
  /\ UNCHANGED <<bookVars, clockVars, orderVars, walletVars>>

-----------------------------------------------------------------------------
(* _execute_pending and TakerExecutionSimulator.execute *)

\* Faulty variant: the resolution of the market is not looked up.
RefusedByBookOnly(intent) ==
  \/ ~Books!Registered(intent.token)
  \/ ~books[intent.token].valid
  \/ (intent.shares = Unstated /\ intent.notional = Unstated)

\* Rejected before the book's levels are looked at.
Refused(intent) ==
  \/ MarketOf[intent.token] \in resolved
  \/ ~Books!Registered(intent.token)
  \/ ~books[intent.token].valid
  \/ (intent.shares = Unstated /\ intent.notional = Unstated)

Pop(p) ==
  /\ Idle /\ Due(p) /\ \A q \in pending \ {p} : Precedes(p, q)
  /\ pending' = pending \ {p}
  /\ executed' = [arrival |-> p.arrival, id |-> p.id]
  /\ IF Refused(p.intent)
     THEN Answer(p.id, "rejected") /\ UNCHANGED order
     ELSE /\ order' = [stage |-> "plan", id |-> p.id, arrival |-> p.arrival,
                       intent |-> p.intent, plan |-> <<>>, filled |-> 0,
                       sharesLeft |-> p.intent.shares, notionalLeft |-> p.intent.notional]
          /\ UNCHANGED orderResults
  /\ UNCHANGED <<bookVars, phase, clockVars, counter, walletVars>>

Opposite(side) == IF side = "BUY" THEN "SELL" ELSE "BUY"

Better(side, p, q) == IF side = "BUY" THEN p < q ELSE p > q

\* Faulty variant: the depth of the feed, earlier fills forgotten.
DisplayedDepth(p) ==
  books[order.intent.token].displayed[Opposite(order.intent.side)][p]

\* available_levels: displayed minus what earlier simulated fills took.
Depth(p) == Available(books[order.intent.token], Opposite(order.intent.side), p)

IsPlanned(p) == \E i \in DOMAIN order.plan : order.plan[i].price = p

\* The best level that the walk has not reached.
IsNextLevel(p) ==
  /\ Depth(p) > 0 /\ ~IsPlanned(p)
  /\ \A q \in Price :
       Depth(q) > 0 /\ ~IsPlanned(q) /\ q # p => Better(order.intent.side, p, q)

WithinLimit(p) ==
  order.intent.limit = Unstated \/ ~Better(order.intent.side, order.intent.limit, p)

Least(a, b) == IF a < b THEN a ELSE b

Desired(p) ==
  IF order.intent.shares # Unstated THEN Least(order.sharesLeft, Depth(p))
  ELSE Least(Depth(p), (order.notionalLeft * PriceScale) \div p)

Satisfied ==
  /\ order.plan # <<>>
  /\ order.sharesLeft = 0 \/ order.notionalLeft = 0

CanPlan(p) == ~Satisfied /\ IsNextLevel(p) /\ WithinLimit(p) /\ Desired(p) > 0

\* Faulty variant: the requested shares are not counted down.
SharesStay(size) == order.sharesLeft

SharesAfter(size) ==
  IF order.intent.shares = Unstated THEN Unstated ELSE order.sharesLeft - size

NotionalAfter(notional) ==
  IF order.intent.notional = Unstated THEN Unstated
  ELSE IF notional > order.notionalLeft THEN 0 ELSE order.notionalLeft - notional

PlanLevel(p) ==
  /\ order.stage = "plan" /\ CanPlan(p)
  /\ LET fill == Fill(p, Desired(p))
     IN  order' = [order EXCEPT !.plan = Append(@, fill),
                                !.sharesLeft = SharesAfter(fill.size),
                                !.notionalLeft = NotionalAfter(fill.notional)]
  /\ UNCHANGED <<bookVars, phase, clockVars, counter, pending, orderResults, executed,
                 walletVars>>

PlanIsComplete == order.stage = "plan" /\ \A p \in Price : ~CanPlan(p)

\* The planned fills' sizes, notionals or fees, summed.
Total(field) == SumFunction([i \in DOMAIN order.plan |-> order.plan[i][field]])

\* Faulty variant: the fees are left out of the cash a purchase requires.
CoveredWithoutFees ==
  IF order.intent.side = "BUY" THEN Total("notional") <= portfolio.cash
  ELSE Total("size") <= portfolio.shares[order.intent.token]

\* The whole sweep is checked before the first fill.
Covered ==
  IF order.intent.side = "BUY" THEN Total("notional") + Total("fee") <= portfolio.cash
  ELSE Total("size") <= portfolio.shares[order.intent.token]

\* Not enough cash or inventory, or no level to take.
RejectPlan ==
  /\ PlanIsComplete
  /\ ~Covered \/ order.plan = <<>>
  /\ Answer(order.id, "rejected")
  /\ order' = NoOrder
  /\ UNCHANGED <<bookVars, phase, clockVars, counter, pending, executed, walletVars>>

AcceptPlan ==
  /\ PlanIsComplete
  /\ Covered /\ order.plan # <<>>
  /\ order' = [order EXCEPT !.stage = "fill"]
  /\ UNCHANGED <<bookVars, phase, clockVars, counter, pending, orderResults, executed,
                 walletVars>>

NextFill == order.plan[order.filled + 1]

Filling == order.stage = "fill" /\ order.filled < Len(order.plan)

NextFillRaises == FillRaises(portfolio, order.intent.token, order.intent.side, NextFill)

\* apply_fill, then consume.
FillLevel ==
  /\ Filling /\ ~NextFillRaises
  /\ portfolio' = ApplyFill(portfolio, order.intent.token, order.intent.side, NextFill)
  /\ books' = [books EXCEPT ![order.intent.token] =
                 Consumed(@, Opposite(order.intent.side), NextFill.price, NextFill.size)]
  /\ order' = [order EXCEPT !.filled = @ + 1]
  /\ UNCHANGED <<effectiveTick, uncertainty, phase, clockVars, counter, pending,
                 orderResults, executed, resolved>>

FullyFilled ==
  \/ (order.intent.shares # Unstated /\ Total("size") = order.intent.shares)
  \/ (order.intent.notional # Unstated /\ Total("notional") >= order.intent.notional)

ReturnResult ==
  /\ order.stage = "fill" /\ order.filled = Len(order.plan)
  /\ Answer(order.id, IF FullyFilled THEN "filled" ELSE "partial")
  /\ order' = NoOrder
  /\ UNCHANGED <<bookVars, phase, clockVars, counter, pending, executed, walletVars>>

-----------------------------------------------------------------------------

Over == phase \in {"done", "raised"} /\ UNCHANGED vars

ReplayStep ==
  \/ \E t \in 1 .. MaxTime : BeginGroup(t)
  \/ IntegrityRaises
  \/ \E snapshot \in Snapshots : BookSnapshot(snapshot)
  \/ \E change \in Changes : BookUpdate(change)
  \/ \E change \in TickChanges : TickSizeChange(change)
  \/ OtherEvent
  \/ \E winner \in Tokens : MarketResolution(MarketOf[winner], winner)
  \/ BookEventRaises
  \/ \E intent \in Intents, latency \in Latencies : Schedule(intent, latency)
  \/ EndGroup
  \/ EventsOver
  \/ Finish

ExecutionStep ==
  \/ \E p \in pending : Pop(p)
  \/ \E p \in Price : PlanLevel(p)
  \/ RejectPlan
  \/ AcceptPlan
  \/ FillLevel
  \/ ReturnResult

Next == ReplayStep \/ ExecutionStep \/ Over

Spec == Init /\ [][Next]_vars

-----------------------------------------------------------------------------
(* Properties *)

TypeOK ==
  /\ Books!TypeOK
  /\ phase \in {"before", "group", "at", "drain", "done", "raised"}
  /\ timestamp \in Nat /\ now \in Nat /\ eventsSeen \in Nat /\ counter \in Nat
  /\ pending \subseteq [arrival : Nat, id : Nat, intent : Intents]
  /\ portfolio \in PortfolioType
  /\ resolved \subseteq Conditions

\* A market that is resolved stays flat: an order that arrives later, in
\* the same group or after it, opens no position in it, so a second
\* resolution pays nothing again (engine.py, _execute_pending, _apply_event).
ResolvedIsFlat ==
  \A t \in Tokens :
    MarketOf[t] \in resolved => portfolio.shares[t] = 0 /\ portfolio.cost[t] = 0

\* Every order meets the book of its arrival: when it is popped no event later
\* than its arrival has been applied, and no event up to its arrival is
\* applied afterwards; orders are popped by arrival and then by the order in
\* which they were decided (engine.py, run; BACKTESTING_ASSUMPTIONS.md).
ExecutedAgainstItsPast ==
  [][/\ executed' # executed => now <= executed'.arrival /\ Precedes(executed, executed')
     /\ eventsSeen' # eventsSeen => timestamp > executed.arrival]_vars

\* The check made for the whole sweep covers each of its fills, fees and
\* rounding included: apply_fill never raises with a part of the order already
\* in the portfolio (execution.py, execute; portfolio.py, apply_fill).
FillsAreCovered == Filling => ~NextFillRaises

\* A sweep takes no more than was asked for, at no price beyond the limit, best
\* price first, and an order for shares leaves nothing behind at a better
\* price (execution.py, execute).
SweepIsWithinRequest ==
  order.stage = "plan" /\ order.plan # <<>> =>
    /\ order.intent.shares # Unstated => Total("size") <= order.intent.shares
    /\ order.intent.shares = Unstated => Total("notional") <= order.intent.notional
    /\ \A i \in DOMAIN order.plan :
         /\ WithinLimit(order.plan[i].price)
         /\ i > 1 => Better(order.intent.side, order.plan[i - 1].price, order.plan[i].price)
         /\ i < Len(order.plan) /\ order.intent.shares # Unstated =>
              order.plan[i].size = Depth(order.plan[i].price)

\* Every intent is answered exactly once when the run is over, the orders that
\* were under way at the last event included (engine.py, run, _schedule).
EveryIntentAnswered ==
  phase = "done" =>
    /\ Len(orderResults) = counter
    /\ \A i, j \in DOMAIN orderResults : i # j => orderResults[i].id # orderResults[j].id

\* Cash and the cost of what is held account for every fill and settlement:
\* through partial sales with their rounded share of the cost, losing tokens
\* and fees, and a position without shares carries no cost (portfolio.py).
AccountsBalance ==
  /\ portfolio.cash + CostOf(portfolio, Tokens)
       = StartingCash + portfolio.realized - portfolio.buyFees
  /\ \A t \in Tokens : portfolio.shares[t] = 0 => portfolio.cost[t] = 0

\* The engine uses the books as the reconstructor's specification allows: in
\* particular it never takes depth that earlier fills have taken, nor from an
\* invalid book, so what is proved of BookReconstructor holds here.
BooksFollowReconstructor == Books!Spec
=============================================================================
