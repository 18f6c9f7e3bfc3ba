------------------------- MODULE BacktestEngineProofs -------------------------
(***************************************************************************)
(* Proofs about BacktestEngine, for every recording, every strategy, every *)
(* latency and every bound.                                                *)
(***************************************************************************)
EXTENDS BacktestEngine, SumTheorems, SequenceTheorems

-----------------------------------------------------------------------------
(* Orders and events in time *)

Pending == [arrival : Nat, id : Nat, intent : Intents]

\* Where the clock, the pending orders and the last executed order stand to
\* each other.  During the group the clock is at the group's timestamp, and
\* every order executed so far arrived before it.
ClockInv ==
  /\ phase \in {"before", "group", "at", "drain", "done", "raised"}
  /\ timestamp \in Nat /\ now \in Nat /\ eventsSeen \in Nat /\ counter \in Nat
  /\ now <= timestamp
  /\ pending \subseteq Pending
  /\ executed \in [arrival : Nat, id : Int]
  /\ \A p \in pending : now <= p.arrival /\ Precedes(executed, p)
  /\ phase = "group" => now = timestamp
  /\ phase \in {"before", "group"} => executed.arrival < timestamp
  /\ phase = "at" => executed.arrival <= timestamp

\* What one step may do to the clock and to the last executed order: the action
\* of ExecutedAgainstItsPast.
TimeStep ==
  /\ executed' # executed => now <= executed'.arrival /\ Precedes(executed, executed')
  /\ eventsSeen' # eventsSeen => timestamp > executed.arrival

\* An event that passes the checks moves the clock to the group's timestamp
\* only when no earlier order is left.
LEMMA EventTime ==
  ASSUME ClockInv, EventPasses, phase' \in {"group", "raised"}
  PROVE  ClockInv' /\ TimeStep
<1>1. \A p \in pending : timestamp <= p.arrival
  <2> SUFFICES ASSUME NEW p \in pending PROVE timestamp <= p.arrival
    OBVIOUS
  <2>1. p.arrival \in Nat
    BY DEF ClockInv, Pending
  <2>2. CASE phase = "group"
    BY <2>1, <2>2 DEF ClockInv
  <2>3. CASE phase = "before" /\ NothingDue
    BY <2>1, <2>3 DEF ClockInv, NothingDue, Due
  <2>4. QED
    BY <2>2, <2>3 DEF EventPasses, EventComes
<1>2. executed.arrival < timestamp
  BY DEF ClockInv, EventPasses, EventComes
<1>3. QED
  BY <1>1, <1>2 DEF ClockInv, TimeStep, EventPasses, Pending, orderVars, Precedes

\* An order is popped at its time, and all others are behind it.
LEMMA PopTime ==
  ASSUME ClockInv, NEW p \in pending, Pop(p)
  PROVE  ClockInv' /\ TimeStep
<1>1. /\ p \in Pending /\ p.arrival \in Nat /\ p.id \in Nat
      /\ now <= p.arrival /\ Precedes(executed, p)
  BY DEF ClockInv, Pending
<1>2. /\ pending' = pending \ {p}
      /\ executed' = [arrival |-> p.arrival, id |-> p.id]
      /\ \A q \in pending' : Precedes(p, q)
      /\ UNCHANGED <<phase, timestamp, now, eventsSeen, counter>>
  BY DEF Pop, clockVars
<1>3. /\ phase = "before" => p.arrival < timestamp
      /\ phase = "at" => p.arrival <= timestamp
      /\ phase # "group"
  BY DEF Pop, Due
<1>4. QED
  BY <1>1, <1>2, <1>3 DEF ClockInv, TimeStep, Precedes

\* A new order arrives no earlier than the event it answers.
LEMMA ScheduleTime ==
  ASSUME ClockInv, NEW intent \in Intents, NEW latency \in Latencies,
         Schedule(intent, latency)
  PROVE  ClockInv' /\ TimeStep
<1> DEFINE new == [arrival |-> now + latency, id |-> counter, intent |-> intent]
<1>1. latency \in Nat
  BY EngineAssumption
<1>2. new \in Pending /\ now <= new.arrival /\ Precedes(executed, new)
  BY <1>1 DEF ClockInv, Pending, Precedes, Schedule
<1> HIDE DEF new
<1>3. pending' = pending \/ pending' = pending \cup {new}
  BY DEF Schedule, new
<1>4. /\ UNCHANGED <<phase, timestamp, now, eventsSeen, executed>>
      /\ counter' = counter + 1
  BY DEF Schedule, clockVars
<1>5. QED
  BY <1>2, <1>3, <1>4 DEF ClockInv, TimeStep, Precedes

\* The other steps of run move only the phase and the timestamp.
LEMMA PhaseTime ==
  ASSUME ClockInv,
         \/ \E t \in 1 .. MaxTime : BeginGroup(t)
         \/ IntegrityRaises \/ EndGroup \/ EventsOver \/ Finish
  PROVE  ClockInv' /\ TimeStep
<1>1. UNCHANGED <<now, eventsSeen, counter, pending, executed>>
  BY DEF BeginGroup, IntegrityRaises, EndGroup, EventsOver, Finish, clockVars, orderVars
<1>2. CASE \E t \in 1 .. MaxTime : BeginGroup(t)
  BY <1>1, <1>2, EngineAssumption DEF BeginGroup, ClockInv, TimeStep, Precedes
<1>3. CASE IntegrityRaises \/ EndGroup \/ EventsOver \/ Finish
  <2>1. timestamp' = timestamp
    BY <1>3 DEF IntegrityRaises, EndGroup, EventsOver, Finish, clockVars
  <2>2. \/ phase' \in {"raised", "drain", "done"}
        \/ phase' = "at" /\ phase = "group"
    BY <1>3 DEF IntegrityRaises, EndGroup, EventsOver, Finish
  <2>3. QED
    BY <1>1, <2>1, <2>2 DEF ClockInv, TimeStep, Precedes
<1>4. QED
  BY <1>2, <1>3

\* Planning and filling take no time.
LEMMA SweepTime ==
  ASSUME ClockInv,
         \/ \E p \in Price : PlanLevel(p)
         \/ RejectPlan \/ AcceptPlan \/ FillLevel \/ ReturnResult \/ UNCHANGED vars
  PROVE  ClockInv' /\ TimeStep
<1>1. UNCHANGED <<phase, timestamp, now, eventsSeen, counter, pending, executed>>
  BY DEF PlanLevel, RejectPlan, AcceptPlan, FillLevel, ReturnResult, vars,
         clockVars, orderVars
<1>2. QED
  BY <1>1 DEF ClockInv, TimeStep, Precedes

\* Every step keeps orders and events in time.
LEMMA StepTime ==
  ASSUME ClockInv, [Next]_vars
  PROVE  ClockInv' /\ TimeStep
<1>1. CASE \/ \E snapshot \in Snapshots : BookSnapshot(snapshot)
           \/ \E change \in Changes : BookUpdate(change)
           \/ \E change \in TickChanges : TickSizeChange(change)
           \/ OtherEvent
           \/ \E winner \in Tokens : MarketResolution(MarketOf[winner], winner)
           \/ BookEventRaises
  <2>1. EventPasses /\ phase' \in {"group", "raised"}
    BY <1>1 DEF BookSnapshot, BookUpdate, TickSizeChange, OtherEvent, MarketResolution,
                BookEventRaises
  <2>2. QED
    BY <2>1, EventTime
<1>2. CASE \E p \in pending : Pop(p)
  BY <1>2, PopTime
<1>3. CASE \E intent \in Intents, latency \in Latencies : Schedule(intent, latency)
  BY <1>3, ScheduleTime
<1>4. QED
  BY <1>1, <1>2, <1>3, PhaseTime, SweepTime DEF Next, ReplayStep, ExecutionStep, Over

\* In every state the clock and the orders stand as ClockInv says.
LEMMA ClockInvariant == Spec => []ClockInv
<1>1. Init => ClockInv
  BY DEF Init, ClockInv, Precedes
<1>2. ClockInv /\ [Next]_vars => ClockInv'
  BY StepTime
<1>3. QED
  BY <1>1, <1>2, PTL DEF Spec

\* Every order meets the book of its arrival, whatever the recording, the
\* strategy and the latencies (backtest/engine.py, run and _execute_pending).
THEOREM CausalityCorrect == Spec => ExecutedAgainstItsPast
<1>1. ClockInv /\ [Next]_vars => [TimeStep]_vars
  BY StepTime
<1>2. QED
  BY <1>1, ClockInvariant, PTL DEF Spec, ExecutedAgainstItsPast, TimeStep

-----------------------------------------------------------------------------
(* The order in hand and the books *)

\* The theorems about the reconstructor, for the engine's books.
Sound == INSTANCE BookReconstructorProofs WITH MaxIntervals <- 0

PlannedFill == [price : Price, size : Nat, notional : Nat, fee : Nat]

Order == [stage : {"plan", "fill"}, id : Nat, arrival : Nat, intent : Intents,
          plan : Seq(PlannedFill), filled : Nat, sharesLeft : Int, notionalLeft : Int]

\* The plan's levels that are still to be filled are distinct and on offer.
PlanIsOnOffer ==
  /\ order.filled <= Len(order.plan)
  /\ order.stage = "plan" => order.filled = 0
  /\ \A i \in 1 .. Len(order.plan) :
       /\ order.plan[i].size > 0
       /\ i > order.filled => order.plan[i].size <= Depth(order.plan[i].price)
  /\ \A i, j \in 1 .. Len(order.plan) :
       order.plan[i].price = order.plan[j].price => i = j

OrderIsLive ==
  /\ order \in Order
  /\ MarketOf[order.intent.token] \notin resolved
  /\ books[order.intent.token].valid
  /\ PlanIsOnOffer

\* No event comes while an order is being executed.
OrderInv ==
  /\ order = NoOrder \/ OrderIsLive
  /\ phase = "group" => order = NoOrder

\* The steps of the two instances of the reconstructor are the same.
LEMMA SameReconstructor == Books!Next <=> Sound!Next
BY DEF Books!Next, Sound!Next, Books!ApplySnapshot, Sound!ApplySnapshot,
      Books!SnapshotMismapped, Sound!SnapshotMismapped, Books!SnapshotStale,
      Sound!SnapshotStale, Books!SnapshotRejected, Sound!SnapshotRejected,
      Books!SnapshotAccepted, Sound!SnapshotAccepted, Books!ApplyChange,
      Sound!ApplyChange, Books!ChangeRefusesLevel, Sound!ChangeRefusesLevel,
      Books!ChangeFailsCheck, Sound!ChangeFailsCheck, Books!ChangeApplied,
      Sound!ChangeApplied, Books!ChangeReachesBook, Sound!ChangeReachesBook,
      Books!LevelIsAccepted, Sound!LevelIsAccepted, Books!ApplyTickSizeChange,
      Sound!ApplyTickSizeChange, Books!MarkUncertain, Sound!MarkUncertain,
      Books!Consume, Sound!Consume, Books!SetBook, Sound!SetBook,
      Books!CloseNewest, Sound!CloseNewest, Books!LearnTick, Sound!LearnTick,
      Books!Registration, Sound!Registration, Books!MappingChanged,
      Sound!MappingChanged, Books!WithTick, Sound!WithTick, Books!TickFor,
      Sound!TickFor, Books!Registered, Sound!Registered, Books!NoTick,
      Sound!NoTick, Books!NewBook, Sound!NewBook, Books!NoLevels, Sound!NoLevels,
      Books!IsStale, Sound!IsStale, Books!SnapshotIsValid, Sound!SnapshotIsValid,
      Books!DuplicateLevel, Sound!DuplicateLevel, Books!LevelIsValid,
      Sound!LevelIsValid, Books!Crossed, Sound!Crossed, Books!SnapshotLevels,
      Sound!SnapshotLevels, Books!SizeAt, Sound!SizeAt, Books!Replaced,
      Sound!Replaced, Books!Invalidated, Sound!Invalidated, Books!Mutated,
      Sound!Mutated, Books!ChangedLevels, Sound!ChangedLevels,
      Books!ForgetConsumption, Sound!ForgetConsumption, Books!NoReport,
      Sound!NoReport, Books!ChangeIsConsistent, Sound!ChangeIsConsistent,
      Books!AgreesWithReport, Sound!AgreesWithReport, Books!BestBidIs,
      Sound!BestBidIs, Books!BestAskIs, Sound!BestAskIs, Books!Changed,
      Sound!Changed, Books!Available, Sound!Available, Books!Consumed,
      Sound!Consumed, Books!Side, Sound!Side, Books!Price, Sound!Price

\* A recording satisfies what the theorems about the reconstructor assume.
LEMMA RecordingIsSound ==
  /\ Sound!PriceScaleAssumption /\ Sound!ConditionAssumption
  /\ Sound!MessageAssumption /\ Sound!BoundAssumption
BY PriceScaleAssumption, ConditionAssumption, RecordingAssumption
   DEF Books!Sources, Books!Listed, Sound!Sources, Sound!Listed, Sound!Side, Side

\* A step of the reconstructor keeps the engine's books sound.
LEMMA SoundStep ==
  ASSUME Sound!IInv, [Books!Next]_bookVars
  PROVE  Sound!IInv'
<1>1. [Sound!Next]_(Sound!vars)
  BY SameReconstructor DEF bookVars, Sound!vars
<1>2. QED
  BY <1>1, RecordingIsSound, Sound!IInvStep

\* The books are sound at the start.
LEMMA SoundInit ==
  ASSUME Books!Init
  PROVE  Sound!IInv
<1>1. Sound!Init
  BY DEF Books!Init, Sound!Init, Books!NewBook, Sound!NewBook, Books!NoLevels,
         Sound!NoLevels, Books!Side, Sound!Side, Books!Price, Sound!Price,
         Books!NoTick, Sound!NoTick
<1>2. QED
  BY <1>1, RecordingIsSound, Sound!IInvInit

\* What soundness says of the size on offer at one level.
LEMMA OfferType ==
  ASSUME Sound!IInv, NEW t \in Tokens, NEW side \in Side, NEW p \in Price
  PROVE  /\ books \in [Tokens -> Book]
         /\ books[t].displayed[side][p] \in Nat /\ books[t].consumed[side][p] \in Nat
         /\ Available(books[t], side, p) \in Int
<1>1. books \in [Tokens -> Book]
  BY DEF Sound!IInv, Sound!TypeOK, Sound!Book, Book, Sound!Levels, Levels,
         Sound!Side, Side, Sound!Price, Price
<1>2. books[t].displayed \in Levels /\ books[t].consumed \in Levels
  BY <1>1 DEF Book
<1>3. books[t].displayed[side][p] \in Nat /\ books[t].consumed[side][p] \in Nat
  BY <1>2 DEF Levels
<1>4. QED
  BY <1>1, <1>3 DEF Available

\* An order in hand is never idle.
LEMMA IdleMeansNone ==
  ASSUME OrderInv, Idle
  PROVE  order = NoOrder
BY DEF OrderInv, OrderIsLive, Order, Idle

\* No order is in hand when an event comes.
LEMMA NoneAtEvent ==
  ASSUME OrderInv, EventComes
  PROVE  order = NoOrder
BY IdleMeansNone DEF OrderInv, EventComes, NothingDue

\* Products and roundings of natural numbers are natural numbers.
LEMMA ProductIsNat ==
  ASSUME NEW a \in Nat, NEW b \in Nat
  PROVE  a * b \in Nat
OBVIOUS

LEMMA HalfUpIsNat ==
  ASSUME NEW raw \in Nat, NEW unit \in Nat, unit > 0
  PROVE  HalfUp(raw, unit) \in Nat
BY DEF HalfUp

\* A fill of a whole size at a price has whole amounts, and charges no less than
\* nothing.
LEMMA FillIsWhole ==
  ASSUME NEW p \in Price, NEW size \in Nat
  PROVE  Fill(p, size) \in PlannedFill
<1>1. /\ p \in Nat /\ PriceScale \in Nat /\ PriceScale > 0 /\ PriceScale - p \in Nat
      /\ FeeRate \in Nat /\ FeeRateUnit \in Nat /\ FeeRateUnit > 0 /\ MinimumFee \in Nat
  BY PriceScaleAssumption, PortfolioAssumption DEF Price
<1>2. HalfUp(size * p, PriceScale) \in Nat
  BY <1>1, HalfUpIsNat, ProductIsNat
<1>3. FeeRateUnit * PriceScale \in Nat /\ FeeRateUnit * PriceScale > 0
  BY <1>1
<1>4. /\ FeeRateUnit * PriceScale * PriceScale \in Nat
      /\ FeeRateUnit * PriceScale * PriceScale > 0
  BY <1>1, <1>3
<1>5. size * FeeRate * p * (PriceScale - p) \in Nat
  <2>1. size * FeeRate \in Nat
    BY <1>1, ProductIsNat
  <2>2. size * FeeRate * p \in Nat
    BY <1>1, <2>1, ProductIsNat
  <2>3. QED
    BY <1>1, <2>2, ProductIsNat
<1>6. Fee(size, p) \in Nat
  BY <1>1, <1>4, <1>5, HalfUpIsNat DEF Fee
<1>7. QED
  BY <1>2, <1>6 DEF Fill, PlannedFill, NotionalScaled

\* What a level takes is no more than it offers.
LEMMA DesiredIsOffered ==
  ASSUME Sound!IInv, OrderIsLive, NEW p \in Price, Desired(p) > 0
  PROVE  Desired(p) \in Nat /\ Desired(p) <= Depth(p)
<1>1. order.intent.token \in Tokens /\ Opposite(order.intent.side) \in Side
  BY EngineAssumption DEF OrderIsLive, Order, Intent, Opposite, Side
<1>2. Depth(p) \in Int
  BY <1>1, OfferType DEF Depth
<1>3. order.sharesLeft \in Int /\ order.notionalLeft \in Int
  BY DEF OrderIsLive, Order
<1>4. p \in Nat /\ p > 0 /\ PriceScale \in Nat
  BY PriceScaleAssumption DEF Price
<1>5. order.notionalLeft * PriceScale \in Int
  BY <1>3, <1>4
<1>6. (order.notionalLeft * PriceScale) \div p \in Int
  BY <1>4, <1>5
<1>7. QED
  BY <1>2, <1>3, <1>6 DEF Desired, Least

\* A popped order that is not refused is live, with nothing planned.
LEMMA PopOrder ==
  ASSUME ClockInv, OrderInv, NEW p \in pending, Pop(p)
  PROVE  OrderInv' /\ UNCHANGED bookVars
<1>1. order = NoOrder
  BY IdleMeansNone DEF Pop
<1>2. p \in Pending /\ p.intent \in Intents /\ p.intent \in Intent
  BY EngineAssumption DEF ClockInv, Pending
<1>3. UNCHANGED <<bookVars, books, phase, resolved>> /\ phase # "group"
  BY DEF Pop, Due, bookVars, walletVars
<1>4. CASE Refused(p.intent)
  BY <1>1, <1>3, <1>4 DEF Pop, OrderInv
<1>5. CASE ~Refused(p.intent)
  <2>1. order' = [stage |-> "plan", id |-> p.id, arrival |-> p.arrival,
                  intent |-> p.intent, plan |-> <<>>, filled |-> 0,
                  sharesLeft |-> p.intent.shares, notionalLeft |-> p.intent.notional]
    BY <1>5 DEF Pop
  <2>2. order' \in Order
    BY <1>2, <2>1 DEF Order, Pending, Intent
  <2>3. /\ MarketOf[p.intent.token] \notin resolved
        /\ books[p.intent.token].valid
    BY <1>5 DEF Refused
  <2>4. PlanIsOnOffer'
    BY <2>1 DEF PlanIsOnOffer
  <2>5. order'.intent = p.intent
    BY <2>1
  <2>6. OrderIsLive'
    BY <1>3, <2>2, <2>3, <2>4, <2>5 DEF OrderIsLive
  <2>7. QED
    BY <1>3, <2>6 DEF OrderInv
<1>6. QED
  BY <1>4, <1>5 DEF Pop

\* Planning adds a level that is on offer and not yet in the plan.
LEMMA PlanOrder ==
  ASSUME Sound!IInv, OrderInv, NEW p \in Price, PlanLevel(p)
  PROVE  OrderInv' /\ UNCHANGED bookVars
<1> DEFINE fill == Fill(p, Desired(p))
<1>1. OrderIsLive /\ order.stage = "plan"
  BY DEF OrderInv, PlanLevel, NoOrder
<1>2. Desired(p) > 0 /\ ~IsPlanned(p)
  BY DEF PlanLevel, CanPlan, IsNextLevel
<1>3. Desired(p) \in Nat /\ Desired(p) <= Depth(p)
  BY <1>1, <1>2, DesiredIsOffered
<1>4. fill \in PlannedFill /\ fill.price = p /\ fill.size = Desired(p)
  BY <1>3, FillIsWhole DEF Fill
<1>5. order' = [order EXCEPT !.plan = Append(@, fill),
                             !.sharesLeft = SharesAfter(fill.size),
                             !.notionalLeft = NotionalAfter(fill.notional)]
  BY DEF PlanLevel
<1>6. UNCHANGED <<bookVars, books, phase, resolved>>
  BY DEF PlanLevel, bookVars, walletVars
<1>7. SharesAfter(fill.size) \in Int /\ NotionalAfter(fill.notional) \in Int
  BY <1>1, <1>4 DEF SharesAfter, NotionalAfter, OrderIsLive, Order, Unstated, PlannedFill
<1>8. order.plan \in Seq(PlannedFill) /\ order.filled \in Nat /\ order \in Order
  BY <1>1 DEF OrderIsLive, Order
<1> HIDE DEF fill
<1>9. /\ order'.plan = Append(order.plan, fill)
      /\ order'.stage = "plan" /\ order'.intent = order.intent
      /\ order'.filled = order.filled
  BY <1>1, <1>5, <1>8 DEF Order
<1>10. order' \in Order
  <2>1. Append(order.plan, fill) \in Seq(PlannedFill)
    BY <1>4, <1>8
  <2>2. QED
    BY <1>5, <1>7, <1>8, <2>1 DEF Order
<1>11. \A q : Depth(q)' = Depth(q)
  BY <1>6, <1>9 DEF Depth
<1>12. PlanIsOnOffer'
  <2>1. Len(order'.plan) = Len(order.plan) + 1 /\ Len(order.plan) \in Nat
    BY <1>4, <1>8, <1>9
  <2>2. \A i \in 1 .. Len(order.plan) : order'.plan[i] = order.plan[i]
    BY <1>4, <1>8, <1>9
  <2>3. order'.plan[Len(order.plan) + 1] = fill
    BY <1>4, <1>8, <1>9
  <2>4. \A i \in 1 .. Len(order.plan) : order.plan[i].price # p
    BY <1>2, <1>8 DEF IsPlanned
  <2>5. PlanIsOnOffer
    BY <1>1 DEF OrderIsLive
  <2>6. \A i \in 1 .. Len(order'.plan) :
          /\ order'.plan[i].size > 0
          /\ i > order'.filled => order'.plan[i].size <= Depth(order'.plan[i].price)
    BY <1>2, <1>3, <1>4, <1>8, <1>9, <2>1, <2>2, <2>3, <2>5 DEF PlanIsOnOffer
  <2>7. \A i, j \in 1 .. Len(order'.plan) :
          order'.plan[i].price = order'.plan[j].price => i = j
    <3> SUFFICES ASSUME NEW i \in 1 .. Len(order'.plan), NEW j \in 1 .. Len(order'.plan),
                        order'.plan[i].price = order'.plan[j].price
                 PROVE  i = j
      OBVIOUS
    <3>1. CASE i <= Len(order.plan) /\ j <= Len(order.plan)
      BY <2>1, <2>2, <2>5, <3>1 DEF PlanIsOnOffer
    <3>2. CASE i <= Len(order.plan) /\ j = Len(order.plan) + 1
      BY <1>4, <2>1, <2>2, <2>3, <2>4, <3>2
    <3>3. CASE i = Len(order.plan) + 1 /\ j <= Len(order.plan)
      BY <1>4, <2>1, <2>2, <2>3, <2>4, <3>3
    <3>4. QED
      BY <2>1, <3>1, <3>2, <3>3
  <2>8. order'.filled <= Len(order'.plan) /\ order'.filled = 0
    BY <1>1, <1>8, <1>9, <2>1, <2>5 DEF PlanIsOnOffer
  <2>9. QED
    BY <1>9, <1>11, <2>6, <2>7, <2>8 DEF PlanIsOnOffer
<1>13. OrderIsLive'
  BY <1>1, <1>6, <1>9, <1>10, <1>12 DEF OrderIsLive
<1>14. QED
  BY <1>6, <1>13, <1>1 DEF OrderInv, OrderIsLive, Order, NoOrder

\* A fill is a Consume of the reconstructor, and leaves the rest of the plan on
\* offer: its levels are distinct.
LEMMA FillOrder ==
  ASSUME Sound!IInv, OrderInv, FillLevel
  PROVE  OrderInv' /\ Books!Next
<1> DEFINE t == order.intent.token
           side == Opposite(order.intent.side)
           p == NextFill.price
           n == NextFill.size
<1>1. /\ OrderIsLive /\ order.stage = "fill" /\ order \in Order
      /\ order.filled < Len(order.plan)
  BY DEF OrderInv, FillLevel, Filling, NoOrder, OrderIsLive
<1>2. /\ t \in Tokens /\ side \in Side
  BY <1>1, EngineAssumption DEF OrderIsLive, Order, Intent, Opposite, Side
<1>3. /\ order.filled \in Nat /\ order.plan \in Seq(PlannedFill)
      /\ order.filled + 1 \in 1 .. Len(order.plan)
  BY <1>1 DEF Order
<1>4. \A i \in 1 .. Len(order.plan) :
        order.plan[i] \in PlannedFill /\ order.plan[i].price \in Price
  <2>1. \A i \in 1 .. Len(order.plan) : order.plan[i] \in PlannedFill
    BY <1>3, ElementOfSeq
  <2>2. QED
    BY <2>1 DEF PlannedFill
<1>5. p \in Price /\ n \in Nat
  BY <1>3, <1>4 DEF NextFill, PlannedFill
<1>6. n > 0 /\ n <= Available(books[t], side, p)
  BY <1>1, <1>3 DEF OrderIsLive, PlanIsOnOffer, NextFill, Depth
<1>7. Available(books[t], side, p) \in Int /\ books \in [Tokens -> Book]
  BY <1>2, <1>5, OfferType
<1>8. books' = [books EXCEPT ![t] = Consumed(@, side, p, n)]
  BY DEF FillLevel
<1>9. UNCHANGED <<effectiveTick, uncertainty, phase, resolved>>
  BY DEF FillLevel
<1>10. books[t].valid
  BY <1>1 DEF OrderIsLive
<1>11. order' = [order EXCEPT !.filled = @ + 1]
  BY DEF FillLevel
<1> HIDE DEF t, side, p, n
<1>12. Books!Next
  <2>1. Books!SetBook(t, Consumed(books[t], side, p, n))
    BY <1>2, <1>7, <1>8 DEF Books!SetBook
  <2>2. Books!Consume(t, side, p, n)
    BY <1>6, <1>9, <1>10, <2>1 DEF Books!Consume, Books!Available, Available,
       Books!Consumed, Consumed
  <2>3. n \in 1 .. Books!Available(books[t], side, p)
    BY <1>5, <1>6, <1>7 DEF Books!Available, Available
  <2>4. side \in Books!Side /\ p \in Books!Price
    BY <1>2, <1>5 DEF Books!Side, Side, Books!Price, Price
  <2>5. QED
    BY <1>2, <2>2, <2>3, <2>4 DEF Books!Next
<1>13. /\ order' \in Order /\ order'.plan = order.plan /\ order'.intent = order.intent
       /\ order'.stage = "fill" /\ order'.filled = order.filled + 1
  BY <1>1, <1>3, <1>11 DEF Order
<1>14. /\ books'[t].valid
       /\ \A q \in Price : q # p =>
            Available(books'[t], side, q) = Available(books[t], side, q)
  <2>1. books'[t] = Consumed(books[t], side, p, n) /\ books[t] \in Book
    BY <1>2, <1>7, <1>8
  <2>2. /\ books'[t].valid = books[t].valid
        /\ books'[t].displayed = books[t].displayed
        /\ books'[t].consumed = [books[t].consumed EXCEPT ![side][p] = @ + n]
    BY <2>1 DEF Consumed, Book
  <2>3. books[t].consumed \in Levels
    BY <2>1 DEF Book
  <2>4. \A q \in Price : q # p => books'[t].consumed[side][q] = books[t].consumed[side][q]
    BY <1>2, <1>5, <2>2, <2>3 DEF Levels
  <2>5. QED
    BY <1>10, <2>2, <2>4 DEF Available
<1>15. PlanIsOnOffer'
  <2>1. PlanIsOnOffer
    BY <1>1 DEF OrderIsLive
  <2>2. \A i \in 1 .. Len(order.plan) : i > order.filled + 1 =>
           /\ order.plan[i].price \in Price
           /\ order.plan[i].price # p
           /\ order.plan[i].size <= Available(books[t], side, order.plan[i].price)
    <3> SUFFICES ASSUME NEW i \in 1 .. Len(order.plan), i > order.filled + 1
                 PROVE  /\ order.plan[i].price \in Price
                        /\ order.plan[i].price # p
                        /\ order.plan[i].size <=
                             Available(books[t], side, order.plan[i].price)
      OBVIOUS
    <3>1. order.plan[i].price \in Price
      BY <1>4
    <3>2. order.plan[i].price # p
      BY <1>3, <2>1 DEF PlanIsOnOffer, NextFill, p
    <3>3. order.plan[i].size <= Depth(order.plan[i].price)
      BY <1>3, <2>1 DEF PlanIsOnOffer
    <3>4. QED
      BY <3>1, <3>2, <3>3 DEF Depth, t, side
  <2>3. \A i \in 1 .. Len(order.plan) : i > order.filled + 1 =>
           order.plan[i].size <= Available(books'[t], side, order.plan[i].price)
    BY <1>14, <2>2
  <2>4. \A q : Depth(q)' = Available(books'[t], side, q)
    BY <1>13 DEF Depth, t, side, Available
  <2>5. QED
    BY <1>1, <1>3, <1>13, <2>1, <2>3, <2>4 DEF PlanIsOnOffer
<1>16. OrderIsLive'
  BY <1>1, <1>9, <1>13, <1>14, <1>15 DEF OrderIsLive, t
<1>17. phase' # "group"
  BY <1>1, <1>9 DEF OrderInv, NoOrder
<1>18. QED
  BY <1>12, <1>16, <1>17 DEF OrderInv

\* The end of a plan or of an order leaves the books alone.
LEMMA OrderEnds ==
  ASSUME OrderInv, RejectPlan \/ AcceptPlan \/ ReturnResult
  PROVE  OrderInv' /\ UNCHANGED bookVars
<1>1. UNCHANGED <<bookVars, books, phase, resolved>>
  BY DEF RejectPlan, AcceptPlan, ReturnResult, bookVars, walletVars
<1>2. CASE RejectPlan \/ ReturnResult
  BY <1>1, <1>2 DEF RejectPlan, ReturnResult, OrderInv
<1>3. CASE AcceptPlan
  <2>1. OrderIsLive /\ order \in Order /\ order' = [order EXCEPT !.stage = "fill"]
    BY <1>3 DEF OrderInv, AcceptPlan, PlanIsComplete, NoOrder, OrderIsLive
  <2>2. /\ order' \in Order /\ order'.stage = "fill" /\ order'.intent = order.intent
        /\ order'.plan = order.plan /\ order'.filled = order.filled
    BY <2>1 DEF Order
  <2>3. \A q : Depth(q)' = Depth(q)
    BY <1>1, <2>2 DEF Depth
  <2>4. PlanIsOnOffer'
    BY <2>1, <2>2, <2>3 DEF PlanIsOnOffer, OrderIsLive
  <2>5. OrderIsLive'
    BY <1>1, <2>1, <2>2, <2>4 DEF OrderIsLive
  <2>6. order # NoOrder
    BY <2>1 DEF Order, NoOrder
  <2>7. QED
    BY <1>1, <2>5, <2>6 DEF OrderInv
<1>4. QED
  BY <1>2, <1>3

\* An event is a step of the reconstructor or none, also when it ends the run.
LEMMA EventOrder ==
  ASSUME OrderInv,
         \/ \E snapshot \in Snapshots : BookSnapshot(snapshot)
         \/ \E change \in Changes : BookUpdate(change)
         \/ \E change \in TickChanges : TickSizeChange(change)
         \/ OtherEvent
         \/ \E winner \in Tokens : MarketResolution(MarketOf[winner], winner)
         \/ BookEventRaises
  PROVE  OrderInv' /\ [Books!Next]_bookVars
<1>1. EventPasses
  BY DEF BookSnapshot, BookUpdate, TickSizeChange, OtherEvent, MarketResolution,
         BookEventRaises
<1>2. order = NoOrder /\ order' = NoOrder
  BY <1>1, NoneAtEvent DEF EventPasses, orderVars
<1>3. OrderInv'
  BY <1>2 DEF OrderInv
<1>4. [Books!Next]_bookVars
  <2>1. CASE \E snapshot \in Snapshots : BookSnapshot(snapshot)
    BY <2>1 DEF BookSnapshot, Books!Next, Books!ApplySnapshot
  <2>2. CASE \E change \in Changes : BookUpdate(change)
    BY <2>2 DEF BookUpdate, Books!Next, Books!ApplyChange
  <2>3. CASE \E change \in TickChanges : TickSizeChange(change)
    BY <2>3 DEF TickSizeChange, Books!Next
  <2>4. CASE \/ OtherEvent
             \/ \E winner \in Tokens : MarketResolution(MarketOf[winner], winner)
    BY <2>4 DEF OtherEvent, MarketResolution
  <2>5. CASE BookEventRaises
    BY <2>5 DEF BookEventRaises, UpdateHasNoBook, TickChangeRaises, Books!Next,
       Books!ApplySnapshot, Books!ApplyChange
  <2>6. QED
    BY <2>1, <2>2, <2>3, <2>4, <2>5
<1>5. QED
  BY <1>3, <1>4

\* The steps of run between the events leave order and books alone.
LEMMA PhaseOrder ==
  ASSUME OrderInv,
         \/ \E t \in 1 .. MaxTime : BeginGroup(t)
         \/ \E intent \in Intents, latency \in Latencies : Schedule(intent, latency)
         \/ IntegrityRaises \/ EndGroup \/ EventsOver \/ Finish \/ UNCHANGED vars
  PROVE  OrderInv' /\ UNCHANGED bookVars
<1>1. UNCHANGED <<bookVars, books, order, resolved>>
  BY DEF BeginGroup, Schedule, IntegrityRaises, EndGroup, EventsOver, Finish, vars,
         bookVars, orderVars, walletVars
<1>2. phase' = "group" => phase = "group"
  BY DEF BeginGroup, Schedule, IntegrityRaises, EndGroup, EventsOver, Finish, vars
<1>3. OrderIsLive => OrderIsLive'
  BY <1>1 DEF OrderIsLive, PlanIsOnOffer, Depth
<1>4. QED
  BY <1>1, <1>2, <1>3 DEF OrderInv

\* The inductive invariant of the refinement: the clock's, the order's, and the
\* soundness of the books.
EngineInv == ClockInv /\ OrderInv /\ Sound!IInv

\* Every step of the engine is a step of the reconstructor or leaves it alone.
LEMMA EngineStep ==
  ASSUME EngineInv, [Next]_vars
  PROVE  EngineInv' /\ [Books!Next]_bookVars
<1>1. ClockInv'
  BY StepTime DEF EngineInv
<1>2. OrderInv' /\ [Books!Next]_bookVars
  <2> USE DEF EngineInv
  <2>1. CASE \E p \in pending : Pop(p)
    BY <2>1, PopOrder
  <2>2. CASE \E p \in Price : PlanLevel(p)
    BY <2>2, PlanOrder
  <2>3. CASE FillLevel
    BY <2>3, FillOrder
  <2>4. CASE RejectPlan \/ AcceptPlan \/ ReturnResult
    BY <2>4, OrderEnds
  <2>5. QED
    BY <2>1, <2>2, <2>3, <2>4, EventOrder, PhaseOrder
       DEF Next, ReplayStep, ExecutionStep, Over
<1>3. Sound!IInv'
  BY <1>2, SoundStep DEF EngineInv
<1>4. QED
  BY <1>1, <1>2, <1>3 DEF EngineInv

\* In every state the clock, the order in hand and the books are as they should.
LEMMA EngineInvariant == Spec => []EngineInv
<1>1. Init => EngineInv
  <2> SUFFICES ASSUME Init PROVE EngineInv
    OBVIOUS
  <2>1. ClockInv
    BY DEF Init, ClockInv, Precedes
  <2>2. OrderInv
    BY DEF Init, OrderInv
  <2>3. Sound!IInv
    BY SoundInit DEF Init
  <2>4. QED
    BY <2>1, <2>2, <2>3 DEF EngineInv
<1>2. EngineInv /\ [Next]_vars => EngineInv'
  BY EngineStep
<1>3. QED
  BY <1>1, <1>2, PTL DEF Spec

\* The engine implements the reconstructor's specification: its events are the
\* reconstructor's messages, and a fill takes only depth that a valid book
\* still offers (backtest/execution.py, execute; orderbook/state.py, consume).
THEOREM EngineFollowsReconstructor == Spec => BooksFollowReconstructor
<1>1. Init => Books!Init
  BY DEF Init
<1>2. EngineInv /\ [Next]_vars => [Books!Next]_(Books!vars)
  BY EngineStep DEF bookVars, Books!vars
<1>3. QED
  BY <1>1, <1>2, EngineInvariant, PTL DEF Spec, Books!Spec, BooksFollowReconstructor

-----------------------------------------------------------------------------
(* The portfolio *)

\* Every token has a position, and only a position with shares has a cost.
HasPositions(pf) ==
  /\ pf \in PortfolioType
  /\ \A t \in Tokens : pf.shares[t] = 0 => pf.cost[t] = 0

\* What remains of the starting cash when gains and fees are taken out.
Balance(pf) == pf.cash + CostOf(pf, Tokens) - pf.realized + pf.buyFees

FlatInv ==
  /\ HasPositions(portfolio) /\ resolved \subseteq Conditions
  /\ Balance(portfolio) = StartingCash
  /\ ResolvedIsFlat

\* The cost of any tokens is a natural number.
LEMMA CostIsNat ==
  ASSUME NEW pf, HasPositions(pf), NEW tokens \in SUBSET Tokens
  PROVE  CostOf(pf, tokens) \in Nat
<1>1. IsFiniteSet(tokens)
  BY PortfolioAssumption, FS_Subset
<1>2. \A t \in tokens : pf.cost[t] \in Nat
  BY DEF HasPositions, PortfolioType
<1>3. QED
  BY <1>1, <1>2, SumIsNat DEF CostOf

\* When the cost of one token changes, the whole changes by as much.
LEMMA CostChanges ==
  ASSUME NEW pf, HasPositions(pf), NEW after, HasPositions(after),
         NEW token \in Tokens, \A u \in Tokens \ {token} : after.cost[u] = pf.cost[u]
  PROVE  CostOf(after, Tokens) = CostOf(pf, Tokens) - pf.cost[token] + after.cost[token]
<1>1. IsFiniteSet(Tokens)
  BY PortfolioAssumption
<1>2. \A t \in Tokens : pf.cost[t] \in Int /\ after.cost[t] \in Int
  BY DEF HasPositions, PortfolioType
<1>3. QED
  BY <1>1, <1>2, SumOfChange DEF CostOf

Fields == {"cash", "shares", "cost", "realized", "feesPaid", "buyFees"}

\* A portfolio is given by its fields.
LEMMA FieldsMakePortfolio ==
  ASSUME NEW pf, pf = [x \in Fields |-> pf[x]],
         pf.cash \in Int, pf.shares \in [Tokens -> Nat], pf.cost \in [Tokens -> Nat],
         pf.realized \in Int, pf.feesPaid \in Nat, pf.buyFees \in Nat
  PROVE  pf \in PortfolioType
BY DEF PortfolioType, Fields

\* What a purchase does to the positions.
LEMMA BoughtPosition ==
  ASSUME NEW pf, HasPositions(pf), NEW token \in Tokens, NEW fill \in PlannedFill,
         fill.size > 0
  PROVE  LET after == Bought(pf, token, fill)
         IN  /\ HasPositions(after)
             /\ Balance(after) = Balance(pf)
             /\ \A u \in Tokens \ {token} :
                  after.shares[u] = pf.shares[u] /\ after.cost[u] = pf.cost[u]
             /\ after.cash = pf.cash - (fill.notional + fill.fee)
<1> DEFINE after == Bought(pf, token, fill)
<1>0. after = [x \in Fields |-> after[x]]
  BY DEF Bought, HasPositions, PortfolioType, Fields
<1>1. /\ after.cash = pf.cash - (fill.notional + fill.fee)
      /\ after.shares = [pf.shares EXCEPT ![token] = @ + fill.size]
      /\ after.cost = [pf.cost EXCEPT ![token] = @ + fill.notional]
      /\ after.realized = pf.realized
      /\ after.feesPaid = pf.feesPaid + fill.fee
      /\ after.buyFees = pf.buyFees + fill.fee
  BY DEF Bought, HasPositions, PortfolioType
<1> HIDE DEF after
<1>2. fill.size \in Nat /\ fill.notional \in Nat /\ fill.fee \in Nat
  BY DEF PlannedFill
<1>3. /\ pf.cash \in Int /\ pf.realized \in Int /\ pf.feesPaid \in Nat /\ pf.buyFees \in Nat
      /\ pf.shares \in [Tokens -> Nat] /\ pf.cost \in [Tokens -> Nat]
  BY DEF HasPositions, PortfolioType
<1>4. HasPositions(after)
  <2>1. after \in PortfolioType
    BY <1>0, <1>1, <1>2, <1>3, FieldsMakePortfolio
  <2>2. QED
    BY <1>1, <1>2, <1>3, <2>1 DEF HasPositions
<1>5. \A u \in Tokens \ {token} :
        after.shares[u] = pf.shares[u] /\ after.cost[u] = pf.cost[u]
  BY <1>1, <1>3
<1>6. CostOf(after, Tokens) = CostOf(pf, Tokens) + fill.notional
  <2>1. after.cost[token] = pf.cost[token] + fill.notional /\ pf.cost[token] \in Nat
    BY <1>1, <1>3
  <2>2. CostOf(pf, Tokens) \in Nat
    BY CostIsNat
  <2>3. QED
    BY <1>2, <1>4, <1>5, <2>1, <2>2, CostChanges
<1>7. Balance(after) = Balance(pf)
  <2>1. CostOf(pf, Tokens) \in Nat
    BY CostIsNat
  <2>2. /\ after.cash = pf.cash - (fill.notional + fill.fee)
        /\ after.realized = pf.realized /\ after.buyFees = pf.buyFees + fill.fee
    BY <1>1
  <2>3. QED
    BY <1>2, <1>3, <1>6, <2>1, <2>2 DEF Balance
<1>8. QED
  BY <1>1, <1>4, <1>5, <1>7 DEF after

\* The weighted cost of some of the shares is a part of the cost, and that of
\* all shares is all of it.
LEMMA PartOfCost ==
  ASSUME NEW cost \in Nat, NEW shares \in Nat, NEW size \in Nat, shares > 0,
         size <= shares
  PROVE  LET part == (cost * size) \div shares
         IN  /\ part \in Nat /\ part <= cost
             /\ size = shares => part = cost
<1>1. cost * size \in Nat /\ cost * shares \in Nat /\ cost * size <= cost * shares
  OBVIOUS
<1>2. (cost * size) \div shares \in Nat
  BY <1>1
<1>3. (cost * shares) \div shares = cost
  OBVIOUS
<1>4. (cost * size) \div shares <= (cost * shares) \div shares
  <2> SUFFICES ASSUME NEW a \in Nat, NEW b \in Nat, a <= b
               PROVE  a \div shares <= b \div shares
    BY <1>1
  <2>1. QED
    OBVIOUS
<1>5. QED
  BY <1>2, <1>3, <1>4

\* What a sale of at most the shares held does to the positions.
LEMMA SoldPosition ==
  ASSUME NEW pf, HasPositions(pf), NEW token \in Tokens, NEW fill \in PlannedFill,
         fill.size > 0, fill.size <= pf.shares[token]
  PROVE  LET after == Sold(pf, token, fill)
         IN  /\ HasPositions(after)
             /\ Balance(after) = Balance(pf)
             /\ \A u \in Tokens \ {token} :
                  after.shares[u] = pf.shares[u] /\ after.cost[u] = pf.cost[u]
             /\ after.shares[token] = pf.shares[token] - fill.size
<1> DEFINE after == Sold(pf, token, fill)
           removed == RemovedCost(pf, token, fill)
<1>0. after = [x \in Fields |-> after[x]]
  BY DEF Sold, HasPositions, PortfolioType, Fields
<1>1. /\ after.cash = pf.cash + (fill.notional - fill.fee)
      /\ after.shares = [pf.shares EXCEPT ![token] = @ - fill.size]
      /\ after.cost = [pf.cost EXCEPT ![token] = @ - removed]
      /\ after.realized = pf.realized + (fill.notional - fill.fee) - removed
      /\ after.feesPaid = pf.feesPaid + fill.fee
      /\ after.buyFees = pf.buyFees
  BY DEF Sold, HasPositions, PortfolioType
<1>2. fill.size \in Nat /\ fill.notional \in Nat /\ fill.fee \in Nat
  BY DEF PlannedFill
<1>3. /\ pf.cash \in Int /\ pf.realized \in Int /\ pf.feesPaid \in Nat /\ pf.buyFees \in Nat
      /\ pf.shares \in [Tokens -> Nat] /\ pf.cost \in [Tokens -> Nat]
  BY DEF HasPositions, PortfolioType
<1>4. pf.shares[token] \in Nat /\ pf.shares[token] > 0 /\ pf.cost[token] \in Nat
  BY <1>2, <1>3
<1>5. /\ removed \in Nat /\ removed <= pf.cost[token]
      /\ fill.size = pf.shares[token] => removed = pf.cost[token]
  <2>1. removed = (pf.cost[token] * fill.size) \div pf.shares[token]
    BY <1>4 DEF RemovedCost
  <2>2. QED
    BY <1>2, <1>4, <2>1, PartOfCost
<1> HIDE DEF after, removed
<1>6. HasPositions(after)
  <2>1. after.shares = [pf.shares EXCEPT ![token] = @ - fill.size]
    BY <1>1
  <2>2. after.cost = [pf.cost EXCEPT ![token] = @ - removed]
    BY <1>1
  <2>3. after.shares \in [Tokens -> Nat] /\ after.cost \in [Tokens -> Nat]
    BY <1>2, <1>3, <1>4, <1>5, <2>1, <2>2
  <2>4. after \in PortfolioType
    BY <1>0, <1>1, <1>2, <1>3, <1>5, <2>3, FieldsMakePortfolio
  <2>5. QED
    BY <1>2, <1>3, <1>4, <1>5, <2>1, <2>2, <2>4 DEF HasPositions
<1>7. \A u \in Tokens \ {token} :
        after.shares[u] = pf.shares[u] /\ after.cost[u] = pf.cost[u]
  BY <1>1, <1>3
<1>8. CostOf(after, Tokens) = CostOf(pf, Tokens) - removed
  <2>1. after.cost[token] = pf.cost[token] - removed
    BY <1>1, <1>3
  <2>2. CostOf(pf, Tokens) \in Nat
    BY CostIsNat
  <2>3. QED
    BY <1>4, <1>5, <1>6, <1>7, <2>1, <2>2, CostChanges
<1>9. Balance(after) = Balance(pf)
  <2>1. CostOf(pf, Tokens) \in Nat
    BY CostIsNat
  <2>2. /\ after.cash = pf.cash + (fill.notional - fill.fee)
        /\ after.realized = pf.realized + (fill.notional - fill.fee) - removed
        /\ after.buyFees = pf.buyFees
    BY <1>1
  <2>3. QED
    BY <1>2, <1>3, <1>5, <1>8, <2>1, <2>2 DEF Balance
<1>10. after.shares[token] = pf.shares[token] - fill.size
  BY <1>1, <1>3
<1>11. QED
  BY <1>6, <1>7, <1>9, <1>10 DEF after

\* A settlement empties the positions of its market, touches no other, and
\* turns their cost into gain or loss.
LEMMA SettlementTouchesMarket ==
  ASSUME NEW pf, HasPositions(pf), NEW condition, NEW winner \in Tokens
  PROVE  LET after == Settled(pf, condition, winner)
         IN  /\ HasPositions(after)
             /\ Balance(after) = Balance(pf)
             /\ \A u \in Tokens :
                  IF MarketOf[u] = condition
                  THEN after.shares[u] = 0 /\ after.cost[u] = 0
                  ELSE after.shares[u] = pf.shares[u] /\ after.cost[u] = pf.cost[u]
<1> DEFINE after == Settled(pf, condition, winner)
           held == Held(pf, condition)
           paid == Payout(pf, winner)
           gone == CostOf(pf, held)
<1>0. after = [x \in Fields |-> after[x]]
  BY DEF Settled, HasPositions, PortfolioType, Fields
<1>1. /\ after.cash = pf.cash + paid
      /\ after.shares = [t \in Tokens |-> IF t \in held THEN 0 ELSE pf.shares[t]]
      /\ after.cost = [t \in Tokens |-> IF t \in held THEN 0 ELSE pf.cost[t]]
      /\ after.realized = pf.realized + paid - gone
      /\ after.feesPaid = pf.feesPaid
      /\ after.buyFees = pf.buyFees
  BY DEF Settled, HasPositions, PortfolioType
<1>2. held \in SUBSET Tokens
  BY DEF Held
<1>3. /\ pf.cash \in Int /\ pf.realized \in Int /\ pf.feesPaid \in Nat /\ pf.buyFees \in Nat
      /\ pf.shares \in [Tokens -> Nat] /\ pf.cost \in [Tokens -> Nat]
  BY DEF HasPositions, PortfolioType
<1>4. paid \in Nat
  BY <1>3 DEF Payout
<1>5. gone \in Nat
  BY <1>2, CostIsNat
<1>6. \A u \in Tokens :
        IF MarketOf[u] = condition
        THEN after.shares[u] = 0 /\ after.cost[u] = 0
        ELSE after.shares[u] = pf.shares[u] /\ after.cost[u] = pf.cost[u]
  BY <1>1 DEF HasPositions, Held
<1> HIDE DEF after, held, paid, gone
<1>7. HasPositions(after)
  <2>1. after \in PortfolioType
    BY <1>0, <1>1, <1>3, <1>4, <1>5, FieldsMakePortfolio
  <2>2. QED
    BY <1>1, <2>1 DEF HasPositions
<1>8. CostOf(pf, Tokens) = CostOf(after, Tokens) + gone
  <2> DEFINE part == [t \in Tokens |-> IF t \in held THEN pf.cost[t] ELSE 0]
  <2>1. IsFiniteSet(Tokens)
    BY PortfolioAssumption
  <2>2. \A t \in Tokens : pf.cost[t] \in Int
    BY <1>3
  <2>3. gone = SumFunctionOnSet(part, Tokens)
    BY <1>2, <2>1, <2>2, SumOfPart DEF CostOf, gone
  <2>4. \A t \in Tokens : /\ after.cost[t] \in Int /\ part[t] \in Int
                          /\ pf.cost[t] = after.cost[t] + part[t]
    BY <1>1, <1>3
  <2> HIDE DEF part
  <2>5. SumFunctionOnSet(pf.cost, Tokens)
          = SumFunctionOnSet(after.cost, Tokens) + SumFunctionOnSet(part, Tokens)
    BY <2>1, <2>2, <2>4, SumOfSums
  <2>6. QED
    BY <2>3, <2>5 DEF CostOf
<1>9. Balance(after) = Balance(pf)
  <2>1. CostOf(after, Tokens) \in Nat
    BY <1>7, CostIsNat
  <2>2. /\ after.cash = pf.cash + paid /\ after.realized = pf.realized + paid - gone
        /\ after.buyFees = pf.buyFees
    BY <1>1
  <2>3. QED
    BY <1>3, <1>4, <1>5, <1>8, <2>1, <2>2 DEF Balance
<1>10. QED
  BY <1>6, <1>7, <1>9 DEF after

\* Every step leaves the resolved markets flat and the accounts in balance.
LEMMA FlatStep ==
  ASSUME EngineInv, FlatInv, [Next]_vars
  PROVE  FlatInv'
<1>1. CASE FillLevel
  <2>1. /\ order \in Order /\ PlanIsOnOffer /\ MarketOf[order.intent.token] \notin resolved
        /\ order.filled < Len(order.plan)
    BY <1>1 DEF EngineInv, OrderInv, FillLevel, Filling, NoOrder, OrderIsLive
  <2>2. /\ order.intent.token \in Tokens /\ order.plan \in Seq(PlannedFill)
        /\ order.filled + 1 \in 1 .. Len(order.plan)
    BY <2>1, EngineAssumption DEF Order, Intent
  <2>3. NextFill \in PlannedFill /\ NextFill.size > 0
    BY <2>1, <2>2, ElementOfSeq DEF NextFill, PlanIsOnOffer
  <2>4. /\ portfolio' = ApplyFill(portfolio, order.intent.token, order.intent.side, NextFill)
        /\ resolved' = resolved /\ ~NextFillRaises
    BY <1>1 DEF FillLevel
  <2>5. /\ HasPositions(portfolio') /\ Balance(portfolio') = Balance(portfolio)
        /\ \A u \in Tokens \ {order.intent.token} :
             /\ portfolio'.shares[u] = portfolio.shares[u]
             /\ portfolio'.cost[u] = portfolio.cost[u]
    <3>1. CASE order.intent.side = "BUY"
      BY <2>2, <2>3, <2>4, <3>1, BoughtPosition DEF ApplyFill, FlatInv
    <3>2. CASE order.intent.side # "BUY"
      <4>1. NextFill.size <= portfolio.shares[order.intent.token]
        BY <2>2, <2>3, <2>4, <3>2 DEF NextFillRaises, FillRaises, FlatInv, HasPositions,
           PlannedFill, PortfolioType
      <4>2. QED
        BY <2>2, <2>3, <2>4, <3>2, <4>1, SoldPosition DEF ApplyFill, FlatInv
    <3>3. QED
      BY <3>1, <3>2
  <2>6. (Balance(portfolio) = StartingCash)'
    BY <2>5 DEF FlatInv, Balance, CostOf
  <2>7. QED
    BY <2>1, <2>4, <2>5, <2>6 DEF FlatInv, ResolvedIsFlat, HasPositions
<1>2. CASE \E winner \in Tokens : MarketResolution(MarketOf[winner], winner)
  <2>1. PICK winner \in Tokens : MarketResolution(MarketOf[winner], winner)
    BY <1>2
  <2>2. /\ portfolio' = Settled(portfolio, MarketOf[winner], winner)
        /\ resolved' = resolved \cup {MarketOf[winner]}
    BY <2>1 DEF MarketResolution
  <2> DEFINE after == Settled(portfolio, MarketOf[winner], winner)
  <2>3. /\ HasPositions(after) /\ Balance(after) = Balance(portfolio)
        /\ \A u \in Tokens :
             IF MarketOf[u] = MarketOf[winner]
             THEN after.shares[u] = 0 /\ after.cost[u] = 0
             ELSE after.shares[u] = portfolio.shares[u] /\ after.cost[u] = portfolio.cost[u]
    BY SettlementTouchesMarket DEF FlatInv
  <2> HIDE DEF after
  <2>4. portfolio' = after
    BY <2>2 DEF after
  <2>5. (Balance(portfolio) = StartingCash)'
    BY <2>3, <2>4 DEF FlatInv, Balance, CostOf
  <2>6. ResolvedIsFlat'
    BY <2>2, <2>3, <2>4 DEF FlatInv, ResolvedIsFlat
  <2>7. (HasPositions(portfolio) /\ resolved \subseteq Conditions)'
    BY <2>2, <2>3, <2>4, PortfolioAssumption DEF FlatInv, HasPositions
  <2>8. QED
    BY <2>5, <2>6, <2>7 DEF FlatInv
<1>3. CASE UNCHANGED <<portfolio, resolved>>
  BY <1>3 DEF FlatInv, ResolvedIsFlat, HasPositions, Balance, CostOf
<1>4. QED
  BY <1>1, <1>2, <1>3
     DEF Next, ReplayStep, ExecutionStep, Over, BeginGroup, IntegrityRaises, BookSnapshot,
         BookUpdate, TickSizeChange, OtherEvent, BookEventRaises, Schedule, EndGroup,
         EventsOver, Finish, Pop, PlanLevel, RejectPlan, AcceptPlan, ReturnResult, vars,
         walletVars

\* At the start nothing is held and all cash is there.
LEMMA InitIsFlat ==
  ASSUME Init
  PROVE  FlatInv
<1>1. /\ HasPositions(portfolio) /\ portfolio.cash = StartingCash
      /\ portfolio.realized = 0 /\ portfolio.buyFees = 0
  BY PortfolioAssumption DEF Init, NewPortfolio, HasPositions, PortfolioType
<1>2. \A t \in Tokens : portfolio.cost[t] = 0
  BY DEF Init, NewPortfolio
<1>3. CostOf(portfolio, Tokens) = 0
  BY <1>2, PortfolioAssumption, SumOfZeros DEF CostOf
<1>4. Balance(portfolio) = StartingCash
  BY <1>1, <1>3, PortfolioAssumption DEF Balance
<1>5. QED
  BY <1>1, <1>4 DEF FlatInv, ResolvedIsFlat, Init

\* The inductive step and the start give the invariant.
LEMMA FlatInvariant == Spec => []FlatInv
<1>1. EngineInv /\ FlatInv /\ [Next]_vars => FlatInv'
  BY FlatStep
<1>2. QED
  BY <1>1, InitIsFlat, EngineInvariant, PTL DEF Spec

\* A resolved market stays flat, whatever orders are still under way to it
\* (backtest/engine.py, _execute_pending and _apply_event).
THEOREM ResolvedCorrect == Spec => []ResolvedIsFlat
<1>1. FlatInv => ResolvedIsFlat
  BY DEF FlatInv
<1>2. QED
  BY <1>1, FlatInvariant, PTL

\* The engine's state keeps its types: in particular no position and no cost
\* becomes negative, through all roundings (backtest/portfolio.py).
THEOREM EngineTypeCorrect == Spec => []TypeOK
<1>1. EngineInv /\ FlatInv => TypeOK
  <2> SUFFICES ASSUME EngineInv, FlatInv PROVE TypeOK
    OBVIOUS
  <2>1. Books!TypeOK
    BY DEF EngineInv, Sound!IInv, Sound!TypeOK, Books!TypeOK, Sound!Book, Books!Book,
       Sound!Levels, Books!Levels, Sound!Side, Books!Side, Sound!Price, Books!Price,
       Sound!Interval, Books!Interval
  <2>2. QED
    BY <2>1 DEF TypeOK, EngineInv, ClockInv, Pending, FlatInv, HasPositions
<1>2. QED
  BY <1>1, EngineInvariant, FlatInvariant, PTL

\* Cash and cost account for every fill and settlement, rounding included, and
\* no cost is left behind without shares (backtest/portfolio.py).
THEOREM AccountsCorrect == Spec => []AccountsBalance
<1>1. FlatInv => AccountsBalance
  <2> SUFFICES ASSUME FlatInv PROVE AccountsBalance
    OBVIOUS
  <2>1. CostOf(portfolio, Tokens) \in Nat
    BY CostIsNat DEF FlatInv
  <2>2. /\ portfolio.cash \in Int /\ portfolio.realized \in Int
        /\ portfolio.buyFees \in Nat /\ StartingCash \in Nat
    BY PortfolioAssumption DEF FlatInv, HasPositions, PortfolioType
  <2>3. /\ Balance(portfolio) = StartingCash
        /\ \A t \in Tokens : portfolio.shares[t] = 0 => portfolio.cost[t] = 0
    BY DEF FlatInv, HasPositions
  <2>4. QED
    BY <2>1, <2>2, <2>3 DEF AccountsBalance, Balance
<1>2. QED
  BY <1>1, FlatInvariant, PTL

-----------------------------------------------------------------------------
(* What a sweep costs *)

Amounts == {"size", "notional", "fee"}

\* The amounts of the fills of a plan from the k-th on, and of all of them.
LeftFrom(plan, k, field) ==
  SumFunctionOnSet([i \in DOMAIN plan |-> plan[i][field]], k .. Len(plan))

PlanTotal(plan, field) == SumFunction([i \in DOMAIN plan |-> plan[i][field]])

\* The fills that are still to come can be paid, or delivered.
SweepIsCovered ==
  LET left(field) == LeftFrom(order.plan, order.filled + 1, field)
  IN  IF order.intent.side = "BUY" THEN left("notional") + left("fee") <= portfolio.cash
      ELSE left("size") <= portfolio.shares[order.intent.token]

CoverInv == order.stage = "fill" => SweepIsCovered

\* The amounts of a plan are natural numbers.
LEMMA PlanAmounts ==
  ASSUME NEW plan \in Seq(PlannedFill), NEW field \in Amounts
  PROVE  /\ DOMAIN plan = 1 .. Len(plan) /\ Len(plan) \in Nat
         /\ \A i \in 1 .. Len(plan) : plan[i][field] \in Nat
<1>1. \A i \in 1 .. Len(plan) : plan[i] \in PlannedFill
  BY ElementOfSeq
<1>2. \A fill \in PlannedFill : fill[field] \in Nat
  BY DEF PlannedFill, Amounts
<1>3. QED
  BY <1>1, <1>2

\* The next fill and those behind it.
LEMMA NextOfPlan ==
  ASSUME NEW plan \in Seq(PlannedFill), NEW k \in 1 .. Len(plan), NEW field \in Amounts
  PROVE  /\ LeftFrom(plan, k, field) = plan[k][field] + LeftFrom(plan, k + 1, field)
         /\ plan[k][field] \in Nat /\ LeftFrom(plan, k + 1, field) \in Nat
<1> DEFINE f == [i \in DOMAIN plan |-> plan[i][field]]
           S == k .. Len(plan)
           R == k + 1 .. Len(plan)
<1>1. /\ DOMAIN plan = 1 .. Len(plan) /\ Len(plan) \in Nat
      /\ \A i \in 1 .. Len(plan) : plan[i][field] \in Nat
  BY PlanAmounts
<1>2. IsFiniteSet(S) /\ IsFiniteSet(R) /\ k \in S /\ S \ {k} = R
  <2>1. k \in Int /\ k + 1 \in Int /\ Len(plan) \in Int
    BY <1>1
  <2>2. IsFiniteSet(S) /\ IsFiniteSet(R)
    BY <2>1, FS_Interval
  <2>3. k \in S /\ S \ {k} = R
    BY <1>1
  <2>4. QED
    BY <2>2, <2>3
<1>3. (\A i \in S : f[i] \in Nat) /\ f[k] = plan[k][field]
  BY <1>1
<1> HIDE DEF f, S, R
<1>4. SumFunctionOnSet(f, S) = f[k] + SumFunctionOnSet(f, R)
  <2>1. \A i \in S : f[i] \in Int
    BY <1>3
  <2>2. QED
    BY <1>2, <2>1, SumOfAny
<1>5. SumFunctionOnSet(f, R) \in Nat
  BY <1>2, <1>3, SumIsNat
<1>6. QED
  BY <1>1, <1>3, <1>4, <1>5 DEF LeftFrom, f, S, R

\* From the first fill on, all of the plan is left.
LEMMA AllOfPlan ==
  ASSUME NEW plan \in Seq(PlannedFill), NEW field
  PROVE  LeftFrom(plan, 1, field) = PlanTotal(plan, field)
BY DEF LeftFrom, PlanTotal, SumFunction

\* The amounts of a plan add up to a natural number.
LEMMA TotalIsNat ==
  ASSUME NEW plan \in Seq(PlannedFill), NEW field \in Amounts
  PROVE  PlanTotal(plan, field) \in Nat
<1> DEFINE f == [i \in DOMAIN plan |-> plan[i][field]]
           S == DOMAIN plan
<1>1. /\ S = 1 .. Len(plan) /\ Len(plan) \in Nat
      /\ \A i \in S : f[i] \in Nat
  BY PlanAmounts
<1>2. IsFiniteSet(S) /\ DOMAIN f = S
  BY <1>1, FS_Interval
<1> HIDE DEF f, S
<1>3. SumFunctionOnSet(f, S) \in Nat
  BY <1>1, <1>2, SumIsNat
<1>4. QED
  BY <1>2, <1>3 DEF PlanTotal, SumFunction, f

\* A planned level adds its amounts.
LEMMA TotalOfAppended ==
  ASSUME NEW plan \in Seq(PlannedFill), NEW fill \in PlannedFill, NEW field \in Amounts
  PROVE  PlanTotal(Append(plan, fill), field) = PlanTotal(plan, field) + fill[field]
<1> DEFINE longer == Append(plan, fill)
           n == Len(plan)
           f == [i \in DOMAIN plan |-> plan[i][field]]
           e == [i \in DOMAIN longer |-> longer[i][field]]
<1>1. /\ longer \in Seq(PlannedFill) /\ Len(longer) = n + 1 /\ longer[n + 1] = fill
      /\ \A i \in 1 .. n : longer[i] = plan[i]
  OBVIOUS
<1> HIDE DEF longer
<1>2. /\ DOMAIN plan = 1 .. n /\ n \in Nat
      /\ \A i \in 1 .. n : plan[i][field] \in Nat
  BY PlanAmounts
<1>3. /\ DOMAIN longer = 1 .. n + 1
      /\ \A i \in 1 .. n + 1 : longer[i][field] \in Nat
  BY <1>1, PlanAmounts
<1> HIDE DEF n
<1>4. f \in [1 .. n -> Int] /\ e \in [1 .. n + 1 -> Int]
  BY <1>2, <1>3
<1>5. (\A i \in 1 .. n : e[i] = f[i]) /\ e[n + 1] = fill[field]
  BY <1>1, <1>2, <1>3
<1> HIDE DEF f, e
<1>6. SumFunction(e) = SumFunction(f) + fill[field]
  BY <1>2, <1>4, <1>5, SumOfAppended
<1>7. QED
  BY <1>6 DEF PlanTotal, f, e, longer

\* The check of the whole sweep covers the fills from the first on.
LEMMA AcceptIsCovered ==
  ASSUME EngineInv, AcceptPlan
  PROVE  CoverInv'
<1>1. /\ order \in Order /\ order.stage = "plan" /\ PlanIsOnOffer /\ Covered
      /\ order' = [order EXCEPT !.stage = "fill"] /\ portfolio' = portfolio
  BY DEF AcceptPlan, PlanIsComplete, EngineInv, OrderInv, NoOrder, OrderIsLive, walletVars
<1>2. /\ order'.plan = order.plan /\ order'.intent = order.intent
      /\ order'.filled = 0 /\ order.plan \in Seq(PlannedFill)
  BY <1>1 DEF Order, PlanIsOnOffer
<1>3. \A field \in Amounts : LeftFrom(order.plan, 1, field) = Total(field)
  BY <1>2, AllOfPlan DEF Total, PlanTotal
<1>4. /\ LeftFrom(order.plan, 1, "size") = Total("size")
      /\ LeftFrom(order.plan, 1, "notional") = Total("notional")
      /\ LeftFrom(order.plan, 1, "fee") = Total("fee")
  BY <1>3 DEF Amounts
<1>5. SweepIsCovered'
  BY <1>1, <1>2, <1>4 DEF SweepIsCovered, Covered
<1>6. QED
  BY <1>5 DEF CoverInv

\* The fill in hand.
LEMMA FillInHand ==
  ASSUME EngineInv, Filling
  PROVE  /\ order \in Order /\ order.plan \in Seq(PlannedFill)
         /\ order.intent.token \in Tokens /\ order.intent.side \in Side
         /\ order.filled \in Nat /\ order.filled + 1 \in 1 .. Len(order.plan)
         /\ NextFill \in PlannedFill /\ NextFill.size > 0
<1>1. order \in Order /\ order.filled < Len(order.plan) /\ PlanIsOnOffer
  BY DEF EngineInv, OrderInv, Filling, NoOrder, OrderIsLive
<1>2. /\ order.plan \in Seq(PlannedFill) /\ order.filled \in Nat
      /\ order.intent.token \in Tokens /\ order.intent.side \in Side
  BY <1>1, EngineAssumption DEF Order, Intent
<1>3. order.filled + 1 \in 1 .. Len(order.plan)
  BY <1>1, <1>2
<1>4. NextFill \in PlannedFill
  BY <1>2, <1>3, ElementOfSeq DEF NextFill
<1>5. NextFill.size > 0
  BY <1>1, <1>3 DEF PlanIsOnOffer, NextFill
<1>6. QED
  BY <1>1, <1>2, <1>3, <1>4, <1>5

\* What is covered is more than the next fill takes.
LEMMA CoveredFill ==
  ASSUME EngineInv, FlatInv, CoverInv, Filling
  PROVE  ~NextFillRaises
<1> DEFINE plan == order.plan
           k == order.filled + 1
<1>1. /\ plan \in Seq(PlannedFill) /\ k \in 1 .. Len(plan)
      /\ order.intent.token \in Tokens
  BY FillInHand
<1>2. /\ NextFill.size = plan[k]["size"] /\ NextFill.notional = plan[k]["notional"]
      /\ NextFill.fee = plan[k]["fee"]
  BY DEF NextFill
<1>3. SweepIsCovered
  BY DEF CoverInv, Filling
<1>4. portfolio.cash \in Int /\ portfolio.shares[order.intent.token] \in Nat
  BY <1>1 DEF FlatInv, HasPositions, PortfolioType
<1> DEFINE left(field) == LeftFrom(plan, k, field)
           later(field) == LeftFrom(plan, k + 1, field)
<1>5. IF order.intent.side = "BUY" THEN left("notional") + left("fee") <= portfolio.cash
      ELSE left("size") <= portfolio.shares[order.intent.token]
  BY <1>3 DEF SweepIsCovered
<1> HIDE DEF plan, k
<1>6. \A field \in Amounts :
        /\ left(field) = plan[k][field] + later(field)
        /\ plan[k][field] \in Nat /\ later(field) \in Nat
  BY <1>1, NextOfPlan
<1> HIDE DEF left, later
<1>7. /\ left("size") = NextFill.size + later("size")
      /\ left("notional") = NextFill.notional + later("notional")
      /\ left("fee") = NextFill.fee + later("fee")
      /\ NextFill.size \in Nat /\ NextFill.notional \in Nat /\ NextFill.fee \in Nat
      /\ later("size") \in Nat /\ later("notional") \in Nat /\ later("fee") \in Nat
  BY <1>2, <1>6 DEF Amounts
<1>8. QED
  BY <1>4, <1>5, <1>7 DEF NextFillRaises, FillRaises

\* A fill takes its own amounts and leaves the later ones covered.
LEMMA FillKeepsCover ==
  ASSUME EngineInv, FlatInv, CoverInv, FillLevel
  PROVE  CoverInv'
<1> DEFINE plan == order.plan
           k == order.filled + 1
           token == order.intent.token
           left(field) == LeftFrom(plan, k, field)
           later(field) == LeftFrom(plan, k + 1, field)
<1>0. Filling
  BY DEF FillLevel
<1>1. /\ plan \in Seq(PlannedFill) /\ k \in 1 .. Len(plan) /\ token \in Tokens
      /\ NextFill \in PlannedFill /\ NextFill.size > 0 /\ order \in Order
      /\ order.filled \in Nat
  BY <1>0, FillInHand
<1>2. /\ NextFill.size = plan[k]["size"] /\ NextFill.notional = plan[k]["notional"]
      /\ NextFill.fee = plan[k]["fee"]
  BY DEF NextFill
<1>3. IF order.intent.side = "BUY" THEN left("notional") + left("fee") <= portfolio.cash
      ELSE left("size") <= portfolio.shares[token]
  BY <1>0 DEF CoverInv, SweepIsCovered, Filling
<1>4. /\ order'.plan = plan /\ order'.filled + 1 = k + 1 /\ order'.intent = order.intent
  BY <1>1 DEF FillLevel, Order
<1>5. portfolio' = ApplyFill(portfolio, token, order.intent.side, NextFill)
  BY DEF FillLevel
<1>6. portfolio.cash \in Int /\ portfolio.shares[token] \in Nat /\ HasPositions(portfolio)
  BY <1>1 DEF FlatInv, HasPositions, PortfolioType
<1>7. SweepIsCovered' <=>
        (IF order.intent.side = "BUY" THEN later("notional") + later("fee") <= portfolio'.cash
         ELSE later("size") <= portfolio'.shares[token])
  BY <1>4 DEF SweepIsCovered
<1>8. ~NextFillRaises
  BY DEF FillLevel
<1> HIDE DEF plan, k, token
<1>9. \A field \in Amounts :
        /\ left(field) = plan[k][field] + later(field)
        /\ plan[k][field] \in Nat /\ later(field) \in Nat
  BY <1>1, NextOfPlan
<1> HIDE DEF left, later
<1>10. /\ left("size") = NextFill.size + later("size")
       /\ left("notional") = NextFill.notional + later("notional")
       /\ left("fee") = NextFill.fee + later("fee")
       /\ NextFill.size \in Nat /\ NextFill.notional \in Nat /\ NextFill.fee \in Nat
       /\ later("size") \in Nat /\ later("notional") \in Nat /\ later("fee") \in Nat
  BY <1>2, <1>9 DEF Amounts
<1>11. CASE order.intent.side = "BUY"
  <2>1. portfolio'.cash = portfolio.cash - (NextFill.notional + NextFill.fee)
    BY <1>1, <1>5, <1>6, <1>11, BoughtPosition DEF ApplyFill
  <2>2. QED
    BY <1>3, <1>6, <1>7, <1>10, <1>11, <2>1 DEF CoverInv
<1>12. CASE order.intent.side # "BUY"
  <2>1. NextFill.size <= portfolio.shares[token]
    BY <1>6, <1>8, <1>10, <1>12 DEF NextFillRaises, FillRaises, token
  <2>2. portfolio'.shares[token] = portfolio.shares[token] - NextFill.size
    BY <1>1, <1>5, <1>6, <1>12, <2>1, SoldPosition DEF ApplyFill
  <2>3. QED
    BY <1>3, <1>6, <1>7, <1>10, <1>12, <2>2 DEF CoverInv
<1>13. QED
  BY <1>11, <1>12

\* Every step keeps the fills to come covered.
LEMMA CoverStep ==
  ASSUME EngineInv, FlatInv, CoverInv, [Next]_vars
  PROVE  CoverInv'
<1>1. CASE AcceptPlan
  BY <1>1, AcceptIsCovered
<1>2. CASE FillLevel
  BY <1>2, FillKeepsCover
<1>3. CASE \E p \in Price : PlanLevel(p)
  <2>1. PICK p \in Price : PlanLevel(p)
    BY <1>3
  <2>2. order \in Order /\ order.stage = "plan"
    BY <2>1 DEF PlanLevel, EngineInv, OrderInv, NoOrder, OrderIsLive
  <2>3. order'.stage = "plan"
    BY <2>1, <2>2 DEF PlanLevel, Order
  <2>4. QED
    BY <2>3 DEF CoverInv
<1>4. CASE \E p \in pending : Pop(p)
  <2>1. order = NoOrder
    BY <1>4, IdleMeansNone DEF EngineInv, Pop
  <2>2. order'.stage \in {"none", "plan"}
    BY <1>4, <2>1 DEF Pop, NoOrder
  <2>3. QED
    BY <2>2 DEF CoverInv
<1>5. CASE \E winner \in Tokens : MarketResolution(MarketOf[winner], winner)
  <2>1. order' = NoOrder
    BY <1>5, NoneAtEvent DEF EngineInv, MarketResolution, EventPasses, orderVars
  <2>2. QED
    BY <2>1 DEF CoverInv, NoOrder
<1>6. CASE RejectPlan \/ ReturnResult
  BY <1>6 DEF RejectPlan, ReturnResult, CoverInv, NoOrder
<1>7. CASE UNCHANGED <<order, portfolio>>
  BY <1>7 DEF CoverInv, SweepIsCovered
<1>8. QED
  BY <1>1, <1>2, <1>3, <1>4, <1>5, <1>6, <1>7
     DEF Next, ReplayStep, ExecutionStep, Over, BeginGroup, IntegrityRaises, BookSnapshot,
         BookUpdate, TickSizeChange, OtherEvent, BookEventRaises, Schedule, EndGroup,
         EventsOver, Finish, EventPasses, vars, walletVars, orderVars

\* The check made for the whole sweep covers each of its fills: apply_fill never
\* raises with a part of the order in the portfolio (backtest/execution.py,
\* execute; portfolio.py, apply_fill).
THEOREM CoverCorrect == Spec => []FillsAreCovered
<1>1. Init => CoverInv
  BY DEF Init, CoverInv, NoOrder
<1>2. EngineInv /\ FlatInv /\ CoverInv /\ [Next]_vars => CoverInv'
  BY CoverStep
<1>3. EngineInv /\ FlatInv /\ CoverInv => FillsAreCovered
  BY CoveredFill DEF FillsAreCovered
<1>4. QED
  BY <1>1, <1>2, <1>3, EngineInvariant, FlatInvariant, PTL DEF Spec

-----------------------------------------------------------------------------
(* What a sweep plans *)

\* The level planned last, and what it may leave behind.
LastFill == order.plan[Len(order.plan)]

\* What was asked for and what is planned make what is left to plan.
RequestIsCounted ==
  /\ order.intent.shares # Unstated =>
       /\ order.sharesLeft = order.intent.shares - Total("size")
       /\ order.plan # <<>> => order.sharesLeft >= 0
  /\ order.intent.shares = Unstated =>
       /\ order.intent.notional # Unstated
       /\ order.notionalLeft = order.intent.notional - Total("notional")
       /\ order.plan # <<>> => order.notionalLeft >= 0

\* The levels are within the limit, best first, and all but the last are taken
\* whole when shares are asked for.
LevelsAreBest ==
  \A i \in 1 .. Len(order.plan) :
    /\ WithinLimit(order.plan[i].price)
    /\ i > 1 => Better(order.intent.side, order.plan[i - 1].price, order.plan[i].price)
    /\ i < Len(order.plan) /\ order.intent.shares # Unstated =>
         order.plan[i].size = Depth(order.plan[i].price)

\* What is not planned is worse than the last level, which is taken whole unless
\* the order needs no more.
RestIsWorse ==
  order.plan # <<>> =>
    /\ order.intent.shares # Unstated =>
         LastFill.size = Depth(LastFill.price) \/ order.sharesLeft = 0
    /\ \A q \in Price :
         Depth(q) > 0 /\ ~IsPlanned(q) => Better(order.intent.side, LastFill.price, q)

SweepInv ==
  order.stage = "plan" => RequestIsCounted /\ LevelsAreBest /\ RestIsWorse

\* A rounded amount is at most the whole number that it is a part of.
LEMMA HalfUpIsBounded ==
  ASSUME NEW raw \in Nat, NEW unit \in Nat, unit > 0, NEW n \in Int, raw <= n * unit
  PROVE  HalfUp(raw, unit) <= n
<1> DEFINE h == HalfUp(raw, unit)
           u == 2 * unit
<1>1. u \in Nat /\ u > 0 /\ 2 * raw + unit \in Nat
  OBVIOUS
<1>2. h = (2 * raw + unit) \div u
  BY DEF HalfUp
<1>3. h \in Int /\ h * u <= 2 * raw + unit
  BY <1>1, <1>2
<1>4. 2 * raw + unit < (n + 1) * u
  OBVIOUS
<1> HIDE DEF h, u
<1>5. h * u < (n + 1) * u
  BY <1>1, <1>3, <1>4
<1>6. h < n + 1
  BY <1>1, <1>3, <1>5
<1>7. QED
  BY <1>3, <1>6 DEF h

\* The shares that an amount buys cost no more than the amount.
LEMMA BoughtWithin ==
  ASSUME NEW p \in Price, NEW left \in Int, NEW size \in Nat,
         size <= (left * PriceScale) \div p
  PROVE  NotionalScaled(size, p) \in Nat /\ NotionalScaled(size, p) <= left
<1>1. p \in Nat /\ p > 0 /\ PriceScale \in Nat /\ PriceScale > 0
  BY PriceScaleAssumption DEF Price
<1> DEFINE a == left * PriceScale
<1>2. a \in Int
  BY <1>1
<1> HIDE DEF a
<1>3. (a \div p) \in Int /\ (a \div p) * p <= a
  BY <1>1, <1>2
<1>4. size * p <= (a \div p) * p
  BY <1>1, <1>3 DEF a
<1>5. size * p \in Nat /\ size * p <= left * PriceScale
  BY <1>1, <1>2, <1>3, <1>4 DEF a
<1>6. QED
  BY <1>1, <1>5, HalfUpIsBounded, HalfUpIsNat DEF NotionalScaled

\* A popped order has everything left to plan.
LEMMA PopSweep ==
  ASSUME EngineInv, NEW p \in pending, Pop(p)
  PROVE  SweepInv'
<1>1. order = NoOrder
  BY IdleMeansNone DEF EngineInv, Pop
<1>2. CASE Refused(p.intent)
  <2>1. order' = NoOrder
    BY <1>1, <1>2 DEF Pop
  <2>2. QED
    BY <2>1 DEF SweepInv, NoOrder
<1>3. CASE ~Refused(p.intent)
  <2>1. order' = [stage |-> "plan", id |-> p.id, arrival |-> p.arrival,
                  intent |-> p.intent, plan |-> <<>>, filled |-> 0,
                  sharesLeft |-> p.intent.shares, notionalLeft |-> p.intent.notional]
    BY <1>3 DEF Pop
  <2>2. p.intent \in Intent
    BY EngineAssumption DEF EngineInv, ClockInv, Pending
  <2>3. p.intent.shares \in Int /\ p.intent.notional \in Int
    BY <2>2 DEF Intent
  <2>4. /\ order'.plan = <<>> /\ order'.intent = p.intent
        /\ order'.sharesLeft = p.intent.shares /\ order'.notionalLeft = p.intent.notional
    BY <2>1
  <2>5. \A field \in Amounts : Total(field)' = 0
    <3> SUFFICES ASSUME NEW field \in Amounts PROVE Total(field)' = 0
      OBVIOUS
    <3> DEFINE f == [i \in DOMAIN order'.plan |-> order'.plan[i][field]]
    <3>1. DOMAIN f = {}
      BY <2>4
    <3> HIDE DEF f
    <3>2. SumFunction(f) = 0
      BY <3>1, SumOfNone DEF SumFunction
    <3>3. QED
      BY <3>2 DEF Total, f
  <2>6. Total("size")' = 0 /\ Total("notional")' = 0
    BY <2>5 DEF Amounts
  <2>7. p.intent.shares = Unstated => p.intent.notional # Unstated
    BY <1>3 DEF Refused
  <2>8. RequestIsCounted'
    BY <2>3, <2>4, <2>6, <2>7 DEF RequestIsCounted, Unstated
  <2>9. LevelsAreBest' /\ RestIsWorse'
    BY <2>4 DEF LevelsAreBest, RestIsWorse
  <2>10. QED
    BY <2>8, <2>9 DEF SweepInv
<1>4. QED
  BY <1>2, <1>3

\* Each planned level is counted.
LEMMA PlanIsCounted ==
  ASSUME EngineInv, SweepInv, NEW p \in Price, PlanLevel(p)
  PROVE  RequestIsCounted'
<1> DEFINE fill == Fill(p, Desired(p))
<1>1. OrderIsLive /\ order.stage = "plan" /\ order \in Order
  BY DEF EngineInv, OrderInv, PlanLevel, NoOrder, OrderIsLive
<1>2. Desired(p) > 0
  BY DEF PlanLevel, CanPlan
<1>3. Desired(p) \in Nat
  BY <1>1, <1>2, DesiredIsOffered DEF EngineInv
<1>4. /\ fill \in PlannedFill /\ fill.size = Desired(p)
      /\ fill.notional = NotionalScaled(Desired(p), p)
  BY <1>3, FillIsWhole DEF Fill
<1>5. order' = [order EXCEPT !.plan = Append(@, fill),
                             !.sharesLeft = SharesAfter(fill.size),
                             !.notionalLeft = NotionalAfter(fill.notional)]
  BY DEF PlanLevel
<1>6. /\ order.plan \in Seq(PlannedFill) /\ order.intent \in Intent
      /\ order.sharesLeft \in Int /\ order.notionalLeft \in Int
  BY <1>1, EngineAssumption DEF Order
<1>7. order.intent.shares \in Int /\ order.intent.notional \in Int
  BY <1>6 DEF Intent
<1> HIDE DEF fill
<1>8. /\ order'.plan = Append(order.plan, fill) /\ order'.intent = order.intent
      /\ order'.sharesLeft = SharesAfter(fill.size)
      /\ order'.notionalLeft = NotionalAfter(fill.notional)
  BY <1>1, <1>5 DEF Order
<1>9. \A field \in Amounts :
        Total(field)' = Total(field) + fill[field] /\ Total(field) \in Nat
  BY <1>4, <1>6, <1>8, TotalOfAppended, TotalIsNat DEF Total, PlanTotal
<1>10. /\ Total("size")' = Total("size") + fill.size /\ Total("size") \in Nat
       /\ Total("notional")' = Total("notional") + fill.notional
       /\ Total("notional") \in Nat
  BY <1>9 DEF Amounts
<1>11. fill.size \in Nat /\ fill.notional \in Nat
  BY <1>4 DEF PlannedFill
<1>12. RequestIsCounted
  BY <1>1 DEF SweepInv
<1> DEFINE size == Total("size")
           notional == Total("notional")
           sizeAfter == Total("size")'
           notionalAfter == Total("notional")'
<1>13. /\ sizeAfter = size + fill.size /\ size \in Nat
       /\ notionalAfter = notional + fill.notional /\ notional \in Nat
  BY <1>10
<1>14. /\ order.intent.shares # Unstated => order.sharesLeft = order.intent.shares - size
       /\ order.intent.shares = Unstated =>
            /\ order.intent.notional # Unstated
            /\ order.notionalLeft = order.intent.notional - notional
  BY <1>12 DEF RequestIsCounted
<1>15. RequestIsCounted' <=>
         /\ order.intent.shares # Unstated =>
              /\ order'.sharesLeft = order.intent.shares - sizeAfter
              /\ order'.plan # <<>> => order'.sharesLeft >= 0
         /\ order.intent.shares = Unstated =>
              /\ order.intent.notional # Unstated
              /\ order'.notionalLeft = order.intent.notional - notionalAfter
              /\ order'.plan # <<>> => order'.notionalLeft >= 0
  BY <1>8 DEF RequestIsCounted, Unstated
<1> HIDE DEF size, notional, sizeAfter, notionalAfter
<1>16. CASE order.intent.shares # Unstated
  <2>1. fill.size <= order.sharesLeft
    <3>1. Depth(p) \in Int
      <4>1. order.intent.token \in Tokens /\ Opposite(order.intent.side) \in Side
        BY <1>6 DEF Intent, Opposite, Side
      <4>2. QED
        BY <4>1, OfferType DEF Depth, EngineInv
    <3>2. QED
      BY <1>4, <1>6, <1>16, <3>1 DEF Desired, Least
  <2>2. order'.sharesLeft = order.sharesLeft - fill.size
    BY <1>8, <1>16 DEF SharesAfter
  <2>3. QED
    BY <1>6, <1>7, <1>11, <1>13, <1>14, <1>15, <1>16, <2>1, <2>2
<1>17. CASE order.intent.shares = Unstated
  <2>1. Desired(p) <= (order.notionalLeft * PriceScale) \div p
    <3>1. Depth(p) \in Int
      <4>1. order.intent.token \in Tokens /\ Opposite(order.intent.side) \in Side
        BY <1>6 DEF Intent, Opposite, Side
      <4>2. QED
        BY <4>1, OfferType DEF Depth, EngineInv
    <3>2. order.notionalLeft * PriceScale \in Int /\ p \in Nat /\ p > 0
      BY <1>6, PriceScaleAssumption DEF Price
    <3>3. (order.notionalLeft * PriceScale) \div p \in Int
      BY <3>2
    <3>4. QED
      BY <1>17, <3>1, <3>3 DEF Desired, Least
  <2>2. fill.notional <= order.notionalLeft
    BY <1>3, <1>4, <1>6, <2>1, BoughtWithin
  <2>3. order'.notionalLeft = order.notionalLeft - fill.notional
    BY <1>6, <1>8, <1>11, <1>14, <1>17, <2>2 DEF NotionalAfter
  <2>4. QED
    BY <1>6, <1>7, <1>11, <1>13, <1>14, <1>15, <1>17, <2>2, <2>3
<1>18. QED
  BY <1>16, <1>17

\* The planned level is the best of the rest, and the last before it was taken
\* whole, for the order needs more.
LEMMA PlanIsBest ==
  ASSUME EngineInv, SweepInv, NEW p \in Price, PlanLevel(p)
  PROVE  LevelsAreBest' /\ RestIsWorse'
<1> DEFINE fill == Fill(p, Desired(p))
           n == Len(order.plan)
<1>1. OrderIsLive /\ order.stage = "plan" /\ order \in Order
  BY DEF EngineInv, OrderInv, PlanLevel, NoOrder, OrderIsLive
<1>2. /\ ~Satisfied /\ IsNextLevel(p) /\ WithinLimit(p) /\ Desired(p) > 0
      /\ UNCHANGED books
  BY DEF PlanLevel, CanPlan, bookVars
<1>3. Desired(p) \in Nat /\ Desired(p) <= Depth(p)
  BY <1>1, <1>2, DesiredIsOffered DEF EngineInv
<1>4. fill \in PlannedFill /\ fill.size = Desired(p) /\ fill.price = p
  BY <1>3, FillIsWhole DEF Fill
<1>5. order' = [order EXCEPT !.plan = Append(@, fill),
                             !.sharesLeft = SharesAfter(fill.size),
                             !.notionalLeft = NotionalAfter(fill.notional)]
  BY DEF PlanLevel
<1>6. /\ order.plan \in Seq(PlannedFill) /\ order.sharesLeft \in Int
  BY <1>1 DEF Order
<1> HIDE DEF fill
<1>7. /\ order'.plan = Append(order.plan, fill) /\ order'.intent = order.intent
      /\ order'.sharesLeft = SharesAfter(fill.size)
  BY <1>1, <1>5 DEF Order
<1>8. /\ Len(order'.plan) = n + 1 /\ n \in Nat /\ order'.plan[n + 1] = fill
      /\ \A i \in 1 .. n : order'.plan[i] = order.plan[i]
      /\ DOMAIN order.plan = 1 .. n /\ DOMAIN order'.plan = 1 .. n + 1
      /\ order.plan # <<>> <=> n > 0
  BY <1>4, <1>6, <1>7
<1>9. \A q : Depth(q)' = Depth(q) /\ (WithinLimit(q)' <=> WithinLimit(q))
  BY <1>2, <1>7 DEF Depth, WithinLimit
<1>10. LevelsAreBest /\ RestIsWorse
  BY <1>1 DEF SweepInv
<1> HIDE DEF n
<1>11. n > 0 =>
         /\ Better(order.intent.side, order.plan[n].price, p)
         /\ order.intent.shares # Unstated => order.plan[n].size = Depth(order.plan[n].price)
  BY <1>2, <1>8, <1>10 DEF RestIsWorse, LastFill, Satisfied, IsNextLevel, n
<1>12. LevelsAreBest'
  <2>1. ASSUME NEW i \in 1 .. n + 1
        PROVE  /\ WithinLimit(order'.plan[i].price)
               /\ i > 1 => Better(order.intent.side, order'.plan[i - 1].price,
                                                     order'.plan[i].price)
               /\ i < n + 1 /\ order.intent.shares # Unstated =>
                    order'.plan[i].size = Depth(order'.plan[i].price)
    <3>1. CASE i \in 1 .. n
      <4>1. order'.plan[i] = order.plan[i]
        BY <1>8, <3>1
      <4>2. i > 1 => order'.plan[i - 1] = order.plan[i - 1]
        BY <1>8, <3>1
      <4>3. /\ WithinLimit(order.plan[i].price)
            /\ i > 1 => Better(order.intent.side, order.plan[i - 1].price,
                                                  order.plan[i].price)
            /\ i < n /\ order.intent.shares # Unstated =>
                 order.plan[i].size = Depth(order.plan[i].price)
        BY <1>10, <3>1 DEF LevelsAreBest, n
      <4>4. QED
        BY <1>8, <1>11, <3>1, <4>1, <4>2, <4>3
    <3>2. CASE i = n + 1
      <4>1. order'.plan[i] = fill /\ (i > 1 => order'.plan[i - 1] = order.plan[n] /\ n > 0)
        BY <1>8, <3>2
      <4>2. QED
        BY <1>2, <1>4, <1>8, <1>11, <3>2, <4>1
    <3>3. QED
      BY <1>8, <3>1, <3>2
  <2>2. QED
    BY <1>7, <1>8, <1>9, <2>1 DEF LevelsAreBest
<1>13. RestIsWorse'
  <2>1. LastFill' = fill
    BY <1>8 DEF LastFill
  <2>2. order.intent.shares # Unstated => fill.size = Depth(p) \/ order'.sharesLeft = 0
    <3>1. Desired(p) = Depth(p) \/ Desired(p) = order.sharesLeft
          \/ order.intent.shares = Unstated
      BY DEF Desired, Least
    <3>2. order.intent.shares # Unstated => order'.sharesLeft = order.sharesLeft - fill.size
      BY <1>7 DEF SharesAfter
    <3>3. QED
      BY <1>4, <1>6, <3>1, <3>2
  <2>3. \A q : IsPlanned(q) \/ q = p => IsPlanned(q)'
    <3> SUFFICES ASSUME NEW q, IsPlanned(q) \/ q = p
                 PROVE  \E i \in DOMAIN order'.plan : order'.plan[i].price = q
      BY DEF IsPlanned
    <3>1. CASE IsPlanned(q)
      <4>1. PICK i \in DOMAIN order.plan : order.plan[i].price = q
        BY <3>1 DEF IsPlanned
      <4>2. i \in DOMAIN order'.plan /\ order'.plan[i].price = q
        BY <1>8, <4>1
      <4>3. QED
        BY <4>2
    <3>2. CASE q = p
      <4>1. n + 1 \in DOMAIN order'.plan /\ order'.plan[n + 1].price = q
        BY <1>4, <1>8, <3>2
      <4>2. QED
        BY <4>1
    <3>3. QED
      BY <3>1, <3>2
  <2>4. \A q \in Price : Depth(q) > 0 /\ ~IsPlanned(q)' => Better(order.intent.side, p, q)
    BY <1>2, <2>3 DEF IsNextLevel
  <2>5. QED
    BY <1>4, <1>7, <1>9, <2>1, <2>2, <2>4 DEF RestIsWorse
<1>14. QED
  BY <1>12, <1>13

\* Every step keeps the plan within the request.
LEMMA SweepStep ==
  ASSUME EngineInv, SweepInv, [Next]_vars
  PROVE  SweepInv'
<1>1. CASE \E p \in pending : Pop(p)
  BY <1>1, PopSweep
<1>2. CASE \E p \in Price : PlanLevel(p)
  BY <1>2, PlanIsCounted, PlanIsBest DEF SweepInv
<1>3. CASE AcceptPlan
  <2>1. order \in Order
    BY <1>3 DEF AcceptPlan, PlanIsComplete, EngineInv, OrderInv, NoOrder, OrderIsLive
  <2>2. order'.stage = "fill"
    BY <1>3, <2>1 DEF AcceptPlan, Order
  <2>3. QED
    BY <2>2 DEF SweepInv
<1>4. CASE FillLevel
  <2>1. order \in Order /\ order.stage = "fill"
    BY <1>4 DEF FillLevel, Filling, EngineInv, OrderInv, NoOrder, OrderIsLive
  <2>2. order'.stage = "fill"
    BY <1>4, <2>1 DEF FillLevel, Order
  <2>3. QED
    BY <2>2 DEF SweepInv
<1>5. CASE RejectPlan \/ ReturnResult
  BY <1>5 DEF RejectPlan, ReturnResult, SweepInv, NoOrder
<1>6. CASE EventPasses
  <2>1. order' = NoOrder
    BY <1>6, NoneAtEvent DEF EngineInv, EventPasses, orderVars
  <2>2. QED
    BY <2>1 DEF SweepInv, NoOrder
<1>7. CASE UNCHANGED <<order, books>>
  BY <1>7 DEF SweepInv, RequestIsCounted, LevelsAreBest, RestIsWorse, LastFill, Total,
     WithinLimit, Depth, IsPlanned
<1>8. QED
  BY <1>1, <1>2, <1>3, <1>4, <1>5, <1>6, <1>7
     DEF Next, ReplayStep, ExecutionStep, Over, BeginGroup, IntegrityRaises, BookSnapshot,
         BookUpdate, TickSizeChange, OtherEvent, MarketResolution, BookEventRaises, Schedule,
         EndGroup, EventsOver, Finish, vars, bookVars, orderVars

\* A sweep takes no more than was asked for, within the limit, best price
\* first, and whole levels but for the last (backtest/execution.py, execute).
THEOREM SweepCorrect == Spec => []SweepIsWithinRequest
<1>1. Init => SweepInv
  BY DEF Init, SweepInv, NoOrder
<1>2. EngineInv /\ SweepInv /\ [Next]_vars => SweepInv'
  BY SweepStep
<1>3. EngineInv /\ SweepInv => SweepIsWithinRequest
  <2> SUFFICES ASSUME EngineInv, SweepInv, order.stage = "plan", order.plan # <<>>
               PROVE  /\ order.intent.shares # Unstated =>
                           Total("size") <= order.intent.shares
                      /\ order.intent.shares = Unstated =>
                           Total("notional") <= order.intent.notional
                      /\ \A i \in DOMAIN order.plan :
                           /\ WithinLimit(order.plan[i].price)
                           /\ i > 1 => Better(order.intent.side, order.plan[i - 1].price,
                                                                 order.plan[i].price)
                           /\ i < Len(order.plan) /\ order.intent.shares # Unstated =>
                                order.plan[i].size = Depth(order.plan[i].price)
    BY DEF SweepIsWithinRequest
  <2>1. order \in Order /\ order.plan \in Seq(PlannedFill) /\ order.intent \in Intent
    BY EngineAssumption DEF EngineInv, OrderInv, NoOrder, OrderIsLive, Order
  <2>2. DOMAIN order.plan = 1 .. Len(order.plan)
    BY <2>1
  <2>3. RequestIsCounted /\ LevelsAreBest
    BY DEF SweepInv
  <2>4. order.intent.shares \in Int /\ order.intent.notional \in Int
    BY <2>1 DEF Intent
  <2>5. Total("size") \in Nat /\ Total("notional") \in Nat
    <3>1. \A field \in Amounts : Total(field) \in Nat
      BY <2>1, TotalIsNat DEF Total, PlanTotal
    <3>2. QED
      BY <3>1 DEF Amounts
  <2>6. \A i \in DOMAIN order.plan :
          /\ WithinLimit(order.plan[i].price)
          /\ i > 1 => Better(order.intent.side, order.plan[i - 1].price,
                                                order.plan[i].price)
          /\ i < Len(order.plan) /\ order.intent.shares # Unstated =>
               order.plan[i].size = Depth(order.plan[i].price)
    BY <2>2, <2>3 DEF LevelsAreBest
  <2>7. QED
    BY <2>3, <2>4, <2>5, <2>6 DEF RequestIsCounted
<1>4. QED
  BY <1>1, <1>2, <1>3, EngineInvariant, PTL DEF Spec

-----------------------------------------------------------------------------
(* Answers *)

Status == {"rejected", "partial", "filled"}

Result == [id : Nat, status : Status]

InHand == IF order = NoOrder THEN 0 ELSE 1

\* No two of the orders pending, in hand and answered have the same id.
IdsAreDistinct ==
  /\ \A p \in pending : p.id < counter
  /\ \A p, q \in pending : p.id = q.id => p = q
  /\ \A i \in 1 .. Len(orderResults) :
       /\ orderResults[i].id < counter
       /\ \A p \in pending : p.id # orderResults[i].id
  /\ \A i, j \in 1 .. Len(orderResults) :
       orderResults[i].id = orderResults[j].id => i = j
  /\ order # NoOrder =>
       /\ order.id < counter
       /\ \A p \in pending : p.id # order.id
       /\ \A i \in 1 .. Len(orderResults) : orderResults[i].id # order.id

\* Every intent is pending, in hand or answered.
AnswerInv ==
  /\ IsFiniteSet(pending)
  /\ orderResults \in Seq(Result)
  /\ counter = Len(orderResults) + Cardinality(pending) + InHand
  /\ IdsAreDistinct
  /\ phase = "done" => pending = {} /\ order = NoOrder

\* Ids are natural numbers.
LEMMA IdTypes ==
  ASSUME EngineInv, AnswerInv
  PROVE  /\ counter \in Nat /\ Len(orderResults) \in Nat /\ Cardinality(pending) \in Nat
         /\ \A p \in pending : p.id \in Nat
         /\ \A i \in 1 .. Len(orderResults) : orderResults[i].id \in Nat
<1>1. orderResults \in Seq(Result)
  BY DEF AnswerInv
<1>2. \A i \in 1 .. Len(orderResults) : orderResults[i] \in Result
  BY <1>1, ElementOfSeq
<1>3. Cardinality(pending) \in Nat
  BY FS_CardinalityType DEF AnswerInv
<1>4. counter \in Nat /\ \A p \in pending : p.id \in Nat
  BY DEF EngineInv, ClockInv, Pending
<1>5. QED
  BY <1>1, <1>2, <1>3, <1>4 DEF Result

\* An answer with an id of its own keeps the ids distinct.
LEMMA AnswerKeepsIds ==
  ASSUME EngineInv, AnswerInv, NEW id \in Nat, NEW status \in Status, Answer(id, status),
         counter' \in Nat, counter <= counter', id < counter',
         pending' \subseteq pending, order' = NoOrder,
         \A p \in pending' : p.id # id,
         \A i \in 1 .. Len(orderResults) : orderResults[i].id # id
  PROVE  /\ orderResults' \in Seq(Result)
         /\ Len(orderResults') = Len(orderResults) + 1
         /\ IdsAreDistinct'
<1> DEFINE result == [id |-> id, status |-> status]
           n == Len(orderResults)
<1>1. result \in Result /\ result.id = id /\ orderResults \in Seq(Result)
  BY DEF Result, AnswerInv
<1>2. orderResults' = Append(orderResults, result)
  BY DEF Answer
<1> HIDE DEF result
<1>3. /\ orderResults' \in Seq(Result) /\ n \in Nat /\ Len(orderResults') = n + 1
      /\ \A i \in 1 .. n : orderResults'[i] = orderResults[i]
      /\ orderResults'[n + 1].id = id
  BY <1>1, <1>2
<1> HIDE DEF n
<1>4. /\ \A i \in 1 .. n : orderResults[i].id \in Nat /\ orderResults[i].id < counter
      /\ \A i \in 1 .. n : \A p \in pending : p.id # orderResults[i].id
      /\ \A i, j \in 1 .. n : orderResults[i].id = orderResults[j].id => i = j
      /\ \A i \in 1 .. n : orderResults[i].id # id
      /\ counter \in Nat
  BY IdTypes DEF AnswerInv, IdsAreDistinct, n
<1>5. \A i \in 1 .. n + 1 :
        /\ orderResults'[i].id < counter'
        /\ \A p \in pending' : p.id # orderResults'[i].id
  <2> SUFFICES ASSUME NEW i \in 1 .. n + 1
               PROVE  /\ orderResults'[i].id < counter'
                      /\ \A p \in pending' : p.id # orderResults'[i].id
    OBVIOUS
  <2>1. CASE i = n + 1
    BY <1>3, <2>1
  <2>2. CASE i \in 1 .. n
    BY <1>3, <1>4, <2>2
  <2>3. QED
    BY <1>3, <2>1, <2>2
<1>6. \A i, j \in 1 .. n + 1 : orderResults'[i].id = orderResults'[j].id => i = j
  <2> SUFFICES ASSUME NEW i \in 1 .. n + 1, NEW j \in 1 .. n + 1,
                      orderResults'[i].id = orderResults'[j].id
               PROVE  i = j
    OBVIOUS
  <2>1. CASE i \in 1 .. n /\ j \in 1 .. n
    BY <1>3, <1>4, <2>1
  <2>2. CASE i \in 1 .. n /\ j = n + 1
    BY <1>3, <1>4, <2>2
  <2>3. CASE i = n + 1 /\ j \in 1 .. n
    BY <1>3, <1>4, <2>3
  <2>4. QED
    BY <1>3, <2>1, <2>2, <2>3
<1>7. /\ \A p \in pending' : p.id < counter'
      /\ \A p, q \in pending' : p.id = q.id => p = q
  BY <1>4, IdTypes DEF AnswerInv, IdsAreDistinct
<1>8. QED
  BY <1>3, <1>5, <1>6, <1>7 DEF IdsAreDistinct, n

\* A new intent takes a fresh id, and is answered at once or pending.
LEMMA ScheduleAnswer ==
  ASSUME EngineInv, AnswerInv, NEW intent \in Intents, NEW latency \in Latencies,
         Schedule(intent, latency)
  PROVE  AnswerInv'
<1> DEFINE new == [arrival |-> now + latency, id |-> counter, intent |-> intent]
<1>1. /\ counter' = counter + 1 /\ phase' = "group"
      /\ order' = NoOrder /\ order = NoOrder
  BY DEF EngineInv, OrderInv, Schedule
<1>2. /\ \A p \in pending : p.id # counter
      /\ \A i \in 1 .. Len(orderResults) : orderResults[i].id # counter
  BY IdTypes DEF AnswerInv, IdsAreDistinct
<1>3. CASE intent.maker
  <2>1. Answer(counter, "rejected") /\ pending' = pending
    BY <1>3 DEF Schedule
  <2>2. /\ orderResults' \in Seq(Result) /\ IdsAreDistinct'
        /\ Len(orderResults') = Len(orderResults) + 1
    BY <1>1, <1>2, <2>1, IdTypes, AnswerKeepsIds DEF Status
  <2>3. counter' = Len(orderResults') + Cardinality(pending') + InHand'
    BY <1>1, <2>1, <2>2, IdTypes DEF AnswerInv, InHand
  <2>4. IsFiniteSet(pending')
    BY <2>1 DEF AnswerInv
  <2>5. QED
    BY <1>1, <2>2, <2>3, <2>4 DEF AnswerInv
<1>4. CASE ~intent.maker
  <2>1. pending' = pending \cup {new} /\ orderResults' = orderResults
    BY <1>4 DEF Schedule
  <2>2. new.id = counter
    OBVIOUS
  <2> HIDE DEF new
  <2>3. new \notin pending
    BY <1>2, <2>2
  <2>4. IsFiniteSet(pending') /\ Cardinality(pending') = Cardinality(pending) + 1
    BY <2>1, <2>3, FS_AddElement DEF AnswerInv
  <2>5. IdsAreDistinct'
    BY <1>1, <1>2, <2>1, <2>2, IdTypes DEF AnswerInv, IdsAreDistinct
  <2>6. counter' = Len(orderResults') + Cardinality(pending') + InHand'
    BY <1>1, <2>1, <2>4, IdTypes DEF AnswerInv, InHand
  <2>7. orderResults' \in Seq(Result)
    BY <2>1 DEF AnswerInv
  <2>8. QED
    BY <1>1, <2>4, <2>5, <2>6, <2>7 DEF AnswerInv
<1>5. QED
  BY <1>3, <1>4

\* A popped order is answered at once or in hand.
LEMMA PopAnswer ==
  ASSUME EngineInv, AnswerInv, NEW p \in pending, Pop(p)
  PROVE  AnswerInv'
<1>1. /\ order = NoOrder /\ pending' = pending \ {p} /\ counter' = counter
      /\ phase' = phase /\ phase # "done"
  BY IdleMeansNone DEF EngineInv, Pop, Due
<1>2. IsFiniteSet(pending') /\ Cardinality(pending') = Cardinality(pending) - 1
  BY <1>1, FS_RemoveElement DEF AnswerInv
<1>3. /\ p.id \in Nat /\ p.id < counter
      /\ \A q \in pending' : q.id # p.id
      /\ \A i \in 1 .. Len(orderResults) : orderResults[i].id # p.id
  BY <1>1, IdTypes DEF AnswerInv, IdsAreDistinct
<1>4. CASE Refused(p.intent)
  <2>1. Answer(p.id, "rejected") /\ order' = NoOrder
    BY <1>1, <1>4 DEF Pop
  <2>2. /\ orderResults' \in Seq(Result) /\ IdsAreDistinct'
        /\ Len(orderResults') = Len(orderResults) + 1
    BY <1>1, <1>3, <2>1, IdTypes, AnswerKeepsIds DEF Status
  <2>3. counter' = Len(orderResults') + Cardinality(pending') + InHand'
    BY <1>1, <1>2, <2>1, <2>2, IdTypes DEF AnswerInv, InHand
  <2>4. QED
    BY <1>1, <1>2, <2>2, <2>3 DEF AnswerInv
<1>5. CASE ~Refused(p.intent)
  <2>1. order'.id = p.id /\ order'.stage = "plan" /\ orderResults' = orderResults
    BY <1>5 DEF Pop
  <2>2. order' # NoOrder
    BY <2>1 DEF NoOrder
  <2>3. IdsAreDistinct'
    BY <1>1, <1>3, <2>1, <2>2 DEF AnswerInv, IdsAreDistinct
  <2>4. counter' = Len(orderResults') + Cardinality(pending') + InHand'
    BY <1>1, <1>2, <2>1, <2>2, IdTypes DEF AnswerInv, InHand
  <2>5. orderResults' \in Seq(Result)
    BY <2>1 DEF AnswerInv
  <2>6. QED
    BY <1>1, <1>2, <2>3, <2>4, <2>5 DEF AnswerInv
<1>6. QED
  BY <1>4, <1>5

\* The order in hand is answered once.
LEMMA EndAnswer ==
  ASSUME EngineInv, AnswerInv, RejectPlan \/ ReturnResult
  PROVE  AnswerInv'
<1>1. order # NoOrder /\ order.id \in Nat
  BY DEF RejectPlan, ReturnResult, PlanIsComplete, NoOrder, EngineInv, OrderInv,
         OrderIsLive, Order
<1>2. /\ order' = NoOrder /\ UNCHANGED <<pending, counter, phase>>
      /\ \E status \in Status : Answer(order.id, status)
  BY DEF RejectPlan, ReturnResult, Status
<1>3. /\ order.id < counter
      /\ \A p \in pending : p.id # order.id
      /\ \A i \in 1 .. Len(orderResults) : orderResults[i].id # order.id
  BY <1>1 DEF AnswerInv, IdsAreDistinct
<1>4. /\ orderResults' \in Seq(Result) /\ IdsAreDistinct'
      /\ Len(orderResults') = Len(orderResults) + 1
  BY <1>1, <1>2, <1>3, IdTypes, AnswerKeepsIds
<1>5. counter' = Len(orderResults') + Cardinality(pending') + InHand'
  BY <1>1, <1>2, <1>4, IdTypes DEF AnswerInv, InHand
<1>6. IsFiniteSet(pending') /\ phase' # "done"
  BY <1>1, <1>2 DEF AnswerInv
<1>7. QED
  BY <1>4, <1>5, <1>6 DEF AnswerInv

\* The other steps answer nothing; the run is done when nothing is pending.
LEMMA OtherAnswer ==
  ASSUME EngineInv, AnswerInv, UNCHANGED <<pending, counter, orderResults>>,
         order' = NoOrder <=> order = NoOrder,
         order # NoOrder => order'.id = order.id,
         phase' = "done" => phase = "done" \/ (pending = {} /\ order = NoOrder)
  PROVE  AnswerInv'
<1>1. IdsAreDistinct'
  BY DEF AnswerInv, IdsAreDistinct
<1>2. QED
  BY <1>1 DEF AnswerInv, InHand

\* Planning and filling keep the order in hand.
LEMMA SweepAnswer ==
  ASSUME EngineInv, AnswerInv,
         (\E p \in Price : PlanLevel(p)) \/ AcceptPlan \/ FillLevel
  PROVE  AnswerInv'
<1>1. order \in Order
  <2>1. order.stage \in {"plan", "fill"}
    BY DEF PlanLevel, AcceptPlan, FillLevel, Filling, PlanIsComplete
  <2>2. QED
    BY <2>1 DEF NoOrder, EngineInv, OrderInv, OrderIsLive
<1>2. UNCHANGED <<pending, counter, orderResults, phase>>
  BY DEF PlanLevel, AcceptPlan, FillLevel
<1>3. order'.id = order.id /\ order'.stage \in {"plan", "fill"}
  <2>1. CASE \E p \in Price : PlanLevel(p)
    <3>1. PICK p \in Price : PlanLevel(p)
      BY <2>1
    <3>2. QED
      BY <1>1, <3>1 DEF PlanLevel, Order
  <2>2. CASE AcceptPlan
    BY <1>1, <2>2 DEF AcceptPlan, Order
  <2>3. CASE FillLevel
    BY <1>1, <2>3 DEF FillLevel, Order
  <2>4. QED
    BY <2>1, <2>2, <2>3
<1>4. order # NoOrder /\ order' # NoOrder
  BY <1>1, <1>3 DEF NoOrder, Order
<1>5. QED
  BY <1>2, <1>3, <1>4, OtherAnswer

\* Every step keeps count of the intents.
LEMMA AnswerStep ==
  ASSUME EngineInv, AnswerInv, [Next]_vars
  PROVE  AnswerInv'
<1>1. CASE \E intent \in Intents, latency \in Latencies : Schedule(intent, latency)
  BY <1>1, ScheduleAnswer
<1>2. CASE \E p \in pending : Pop(p)
  BY <1>2, PopAnswer
<1>3. CASE RejectPlan \/ ReturnResult
  BY <1>3, EndAnswer
<1>4. CASE \/ \E t \in 1 .. MaxTime : BeginGroup(t)
           \/ IntegrityRaises \/ BookEventRaises \/ OtherEvent \/ EndGroup
           \/ EventsOver \/ Finish \/ UNCHANGED vars
           \/ \E snapshot \in Snapshots : BookSnapshot(snapshot)
           \/ \E change \in Changes : BookUpdate(change)
           \/ \E change \in TickChanges : TickSizeChange(change)
           \/ \E winner \in Tokens : MarketResolution(MarketOf[winner], winner)
  <2>1. UNCHANGED <<pending, counter, orderResults, order>>
    BY <1>4 DEF BeginGroup, IntegrityRaises, BookEventRaises, OtherEvent, EndGroup,
       EventsOver, Finish, BookSnapshot, BookUpdate, TickSizeChange, MarketResolution,
       EventPasses, orderVars, vars
  <2>2. phase' = "done" => phase = "done" \/ (pending = {} /\ order = NoOrder)
    <3>1. CASE Finish
      BY <3>1, IdleMeansNone DEF Finish, EngineInv
    <3>2. CASE ~Finish
      BY <1>4, <3>2 DEF BeginGroup, IntegrityRaises, BookEventRaises, OtherEvent, EndGroup,
         EventsOver, BookSnapshot, BookUpdate, TickSizeChange, MarketResolution, vars
    <3>3. QED
      BY <3>1, <3>2
  <2>3. QED
    BY <2>1, <2>2, OtherAnswer
<1>5. QED
  BY <1>1, <1>2, <1>3, <1>4, SweepAnswer DEF Next, ReplayStep, ExecutionStep, Over

\* Every intent is answered exactly once when the run is done, however many
\* were under way at the last event (backtest/engine.py, run and _schedule).
THEOREM AnswersCorrect == Spec => []EveryIntentAnswered
<1>1. Init => AnswerInv
  <2> SUFFICES ASSUME Init PROVE AnswerInv
    OBVIOUS
  <2>1. orderResults \in Seq(Result) /\ Len(orderResults) = 0
    BY DEF Init
  <2>2. IsFiniteSet(pending) /\ Cardinality(pending) = 0
    BY FS_EmptySet DEF Init
  <2>3. IdsAreDistinct /\ counter = 0 /\ InHand = 0 /\ phase # "done"
    BY <2>1 DEF Init, IdsAreDistinct, InHand
  <2>4. QED
    BY <2>1, <2>2, <2>3 DEF AnswerInv
<1>2. EngineInv /\ AnswerInv /\ [Next]_vars => AnswerInv'
  BY AnswerStep
<1>3. EngineInv /\ AnswerInv => EveryIntentAnswered
  <2> SUFFICES ASSUME EngineInv, AnswerInv, phase = "done"
               PROVE  /\ Len(orderResults) = counter
                      /\ \A i, j \in DOMAIN orderResults :
                           i # j => orderResults[i].id # orderResults[j].id
    BY DEF EveryIntentAnswered
  <2>1. Cardinality(pending) = 0 /\ InHand = 0
    BY FS_EmptySet DEF AnswerInv, InHand
  <2>2. Len(orderResults) = counter
    BY <2>1, IdTypes DEF AnswerInv
  <2>3. DOMAIN orderResults = 1 .. Len(orderResults)
    BY DEF AnswerInv
  <2>4. QED
    BY <2>2, <2>3 DEF AnswerInv, IdsAreDistinct
<1>4. QED
  BY <1>1, <1>2, <1>3, EngineInvariant, PTL DEF Spec
=============================================================================
