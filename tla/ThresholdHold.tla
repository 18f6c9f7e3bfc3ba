---------------------------- MODULE ThresholdHold ----------------------------
(***************************************************************************)
(* The replay of one episode by the threshold-and-hold simulator           *)
(* (backtest/fastsim.py): the scan of the tape's rows, the immediate entry *)
(* or the parent order with its children, the exits with their retries,    *)
(* the depth that its own fills have taken, and settlement.                *)
(*                                                                         *)
(* The simulator reads the tape at the arrival of every order, ahead of    *)
(* the row it stands at.  What is free is the episode, the parameters, the *)
(* wallet and, order by order, the latency.  A step is one row of the      *)
(* scan, one decision of the child clock, or one child sent.               *)
(***************************************************************************)
EXTENDS ExecutionSession

CONSTANTS Recordings,    \* episode -> its recording, a set of events,
          Trades,        \*   and its trades, a set of [at, token, size]
          ParamSets,     \* ThresholdHoldParams, records
          Wallets,       \* [early, late, from]: cash over time
          EntryFrom, EntryTo, EpisodeEnd,
          TakerDelay, MinimumOrder,
          WinnerToken,
          Interval,      \* decision_interval_ns of the child clock
          Unbounded      \* more cash than any order can cost

ASSUME EpisodeAssumption ==
  /\ \A e \in DOMAIN Recordings : IsRecording(Recordings[e])
  /\ DOMAIN Trades = DOMAIN Recordings
  /\ \A e \in DOMAIN Trades :
       IsFiniteSet(Trades[e]) /\ Trades[e] \subseteq [at : Nat, token : TapeTokens, size : Nat]
  /\ {EntryFrom, EntryTo, EpisodeEnd} \subseteq Nat
  /\ EntryFrom < EntryTo /\ EntryTo <= EpisodeEnd /\ EpisodeEnd < TapeEnd
  /\ TakerDelay \in Nat /\ MinimumOrder \in Nat
  /\ WinnerToken \in TapeTokens /\ Interval \in Nat \ {0}
  /\ Wallets \subseteq [early : Nat, late : Nat, from : Nat] /\ Unbounded \in Nat

\* What ThresholdHoldParams validates.
ASSUME ParamsAssumption ==
  \A p \in ParamSets :
    /\ p.policy \in {"immediate", "twap", "adaptive_pov"}
    /\ p.trigger \in Price /\ p.limit \in p.trigger .. PriceScale
    /\ {p.shares, p.notional} \subseteq {None} \cup (Nat \ {0})
    /\ (p.shares = None) # (p.notional = None)
    /\ p.stop \in {None} \cup 1 .. p.trigger - 1
    /\ p.takeProfit \in {None} \cup p.trigger + 1 .. PriceScale
    /\ {p.stopFraction, p.tpFraction} \subseteq 1 .. PPM
    /\ {p.armed, p.flatten} \subseteq {None} \cup Nat
    /\ {p.maxEntries, p.slices} \subseteq Nat \ {0}
    /\ {p.cooldown, p.retries, p.retryInterval, p.horizon} \subseteq Nat
    /\ p.participation \in 1 .. PPM - 1
    /\ p.partial \in BOOLEAN /\ (p.policy # "immediate" => p.partial)

VARIABLES episode,    \* which recording
          tape,       \* what load_tape gives of it
          params, wallet,
          phase,      \* rows, decisions, child, sold, settled; illegal, raised
          index,      \* row of the scan
          now,        \* the child clock
          position,   \* [shares, cost, token, effective]
          entries, nextEntry,
          stop,       \* [active, deadline, attempts]
          attempted,  \* exits that are tried only once
          reason,     \* exit_reason
          consumed,   \* [token, side, price] -> size taken by own fills
          cursor,     \* token -> row up to which replenishment is applied
          session,    \* of the parent order under way
          debited,    \* entry_cash_debited
          orders,     \* the outcomes, in the order they were sent
          result      \* [exitShares, exitNotional, fees, payout, net, objective]

outer == <<episode, tape, params, wallet>>
trade == <<position, entries, nextEntry, debited>>
exits == <<stop, attempted, reason>>
impact == <<consumed, cursor>>
vars == <<outer, phase, index, now, trade, exits, impact, session, orders, result>>

Row == tape.rows[index]

NoWallet == [early |-> 0, late |-> 0, from |-> None]

NoSession == NewSession([target |-> 0, start |-> 0, deadline |-> 0, benchmark |-> 0, limit |-> 0], 0)

Init ==
  /\ episode \in DOMAIN Recordings /\ tape = Build(Recordings[episode])
  /\ params \in ParamSets
  /\ wallet \in (IF params.notional = None THEN {NoWallet} ELSE {NoWallet} \cup Wallets)
  /\ phase = "rows" /\ index = 1 /\ now = 0
  /\ position = [shares |-> 0, cost |-> 0, token |-> WinnerToken, effective |-> 0]
  /\ entries = 0 /\ nextEntry = EntryFrom /\ debited = 0
  /\ stop = [active |-> FALSE, deadline |-> None, attempts |-> 0]
  /\ attempted = {} /\ reason = "no_entry"
  /\ consumed = << >> /\ cursor = [t \in TapeTokens |-> 0]
  /\ session = NoSession
  /\ orders = << >>
  /\ result = [exitShares |-> 0, exitNotional |-> 0, fees |-> 0, payout |-> 0, net |-> 0, objective |-> 0]

-----------------------------------------------------------------------------
(* Own fills take depth until a recorded event restates it. *)

LevelKey(token, side, price) == [token |-> token, side |-> side, price |-> price]

Restates(row, key) ==
  /\ row.token = key.token
  /\ \/ row.kind = "snapshot"
     \/ row.kind = "update" /\ row.side = key.side /\ row.price = key.price

\* What the token's rows after the cursor state again.
RestatedUpTo(token, row) ==
  {key \in DOMAIN consumed :
     key.token = token /\ \E i \in cursor[token] + 1 .. row : Restates(tape.rows[i], key)}

\* Faulty variant: the cursor follows the clock back.
ReplenishedRewinding(token, row) ==
  [consumed |-> Restrict(consumed, DOMAIN consumed \ RestatedUpTo(token, row)),
   cursor |-> [cursor EXCEPT ![token] = row]]

\* _reconcile_self_impact: never back to a row before the cursor.
Replenished(token, row) ==
  IF row <= cursor[token] THEN [consumed |-> consumed, cursor |-> cursor]
  ELSE [consumed |-> Restrict(consumed, DOMAIN consumed \ RestatedUpTo(token, row)),
        cursor |-> [cursor EXCEPT ![token] = row]]

TakenFrom(taken, key) == IF key \in DOMAIN taken THEN taken[key] ELSE 0

\* _apply_self_impact.
LeftOf(ladder, token, side, taken) ==
  LET left(i) == ladder[i].size - TakenFrom(taken, LevelKey(token, side, ladder[i].price))
  IN  Kept([i \in DOMAIN ladder |-> [price |-> ladder[i].price, size |-> left(i)]],
           {i \in DOMAIN ladder : left(i) > 0})

BookSide(side) == IF side = "BUY" THEN "SELL" ELSE "BUY"

TakenWith(taken, token, side, slices) ==
  LET keys == {LevelKey(token, side, slices[i].price) : i \in DOMAIN slices}
      size(key) == SumFunction([i \in DOMAIN slices |->
                     IF slices[i].price = key.price THEN slices[i].size ELSE 0])
  IN  [key \in keys \cup DOMAIN taken |->
         TakenFrom(taken, key) + (IF key \in keys THEN size(key) ELSE 0)]

-----------------------------------------------------------------------------
(* _send.  An order o is [kind, side, decision, arrival, token, shares,     *)
(* spend, cash, full, limit, deadline]; cash is what it finds at arrival.   *)

\* Faulty variant: a child may fill after its parent's deadline.
RefusedWithoutDeadline(o, row) ==
  IF o.arrival >= EpisodeEnd THEN "market_closed_at_arrival"
  ELSE IF o.side = "BUY" /\ (o.cash <= 0 \/ (o.spend # None /\ o.cash < o.spend))
  THEN "insufficient_available_cash"
  ELSE IF row = 0 THEN "no_book_at_arrival"
  ELSE IF Realism.requireValid
          /\ (~tape.rows[row].valid \/ IsUncertain(tape, o.token, o.arrival))
  THEN "book_state_uncertain" ELSE "none"

Refused(o, row) ==
  IF o.deadline # None /\ o.arrival > o.deadline THEN "parent_deadline_elapsed"
  ELSE IF o.arrival >= EpisodeEnd THEN "market_closed_at_arrival"
  ELSE IF o.side = "BUY" /\ (o.cash <= 0 \/ (o.spend # None /\ o.cash < o.spend))
  THEN "insufficient_available_cash"
  ELSE IF row = 0 THEN "no_book_at_arrival"
  ELSE IF Realism.requireValid
          /\ (~tape.rows[row].valid \/ IsUncertain(tape, o.token, o.arrival))
  THEN "book_state_uncertain" ELSE "none"

\* The slices of an order that meets a book: requested shares walked down
\* the ladder, cut to what may be spent, and dropped if they had to be all.
SlicesOf(o, ladder, age) ==
  LET sized     == o.side = "BUY" /\ o.spend # None
      requested == IF sized /\ ladder # << >> THEN AffordableAt(o.spend, ladder[1].price)
                   ELSE o.shares
      cap       == IF sized THEN o.spend ELSE o.cash
      walked    == IF Unexecutable(ladder, requested, age, MinimumOrder) THEN << >>
                   ELSE Sweep(o.side, ladder, requested, o.limit)
      kept      == IF o.side = "BUY" THEN CapBuyToSpend(walked, cap) ELSE walked
      complete  == Total(kept, "size") = requested \/ (sized /\ kept # walked)
  IN  [requested |-> requested,
       slices    |-> IF o.full /\ ~complete THEN << >> ELSE kept]

\* What is kept of an order.
Sent(o, requested, refused, slices) ==
  [kind |-> o.kind, side |-> o.side, token |-> o.token, decision |-> o.decision,
   arrival |-> o.arrival, row |-> index,
   requested |-> requested, refused |-> refused, slices |-> slices]

\* What becomes of an order, and of the depth it met.
Outcome(o) ==
  LET row     == RowAt(tape, o.token, o.arrival)
      refused == Refused(o, row)
      after   == Replenished(o.token, row)
      side    == BookSide(o.side)
      ladder  == LeftOf(TakerLadder(tape.rows[row], o.side), o.token, side, after.consumed)
      met     == SlicesOf(o, ladder, o.arrival - tape.rows[row].at)
  IN  IF refused # "none"
      THEN [order |-> Sent(o, o.shares, refused, << >>), consumed |-> consumed, cursor |-> cursor]
      ELSE CHOOSE x \in
             {[order |-> Sent(o, m.requested, "none", m.slices),
               consumed |-> TakenWith(after.consumed, o.token, side, m.slices),
               cursor |-> after.cursor] : m \in {met}} : TRUE

Log(x) == /\ orders' = Append(orders, x.order)
          /\ consumed' = x.consumed /\ cursor' = x.cursor

Latencies == {l + TakerDelay : l \in Realism.latencies}

-----------------------------------------------------------------------------
(* Cash *)

\* cash_at: the wallet, or the budget itself, less what entries have spent.
CashAt(t) ==
  LET external == IF wallet # NoWallet THEN (IF t < wallet.from THEN wallet.early ELSE wallet.late)
                  ELSE IF params.notional # None THEN params.notional ELSE Unbounded
  IN  Max({0, external - debited})

CashLimited == params.notional # None /\ wallet # NoWallet /\ CashAt(Row.at) < params.notional

\* The budget of an entry: what the wallet holds at the signal, or the whole
\* request if it holds nothing, to be refused at its arrival.
EntrySpend ==
  IF CashLimited /\ CashAt(Row.at) > 0 THEN CashAt(Row.at) ELSE params.notional

-----------------------------------------------------------------------------
(* The scan of the rows *)

InEpisode == index <= Len(tape.rows) /\ Row.at <= EpisodeEnd

Holding == /\ position.shares > 0
           /\ Row.token = position.token
           /\ Row.at >= position.effective

\* _maybe_exit: the order this row calls for, [kind, shares].
FlattenDue == "flatten" \notin attempted /\ params.flatten # None /\ Row.at >= params.flatten

StopHit ==
  /\ params.stop # None
  /\ params.armed = None \/ Row.at >= params.armed
  /\ Best(Row.bids) = None \/ Best(Row.bids) <= params.stop

ProfitHit ==
  /\ params.takeProfit # None
  /\ "take_profit" \notin attempted
  /\ Best(Row.bids) # None /\ Best(Row.bids) >= params.takeProfit

NoExit == [kind |-> "none", shares |-> 0]

ExitFor ==
  LET exit(kind, shares) == IF shares > 0 THEN [kind |-> kind, shares |-> shares] ELSE NoExit
      all == position.shares
  IN  CASE stop.active /\ stop.deadline # None /\ Row.at >= stop.deadline -> exit("stop_loss", all)
        [] stop.active /\ ~(stop.deadline # None /\ Row.at >= stop.deadline) ->
             IF FlattenDue THEN exit("flatten", all) ELSE NoExit
        [] ~stop.active /\ StopHit -> exit("stop_loss", Ppm(all, params.stopFraction))
        [] ~stop.active /\ ~StopHit /\ ProfitHit -> exit("take_profit", Ppm(all, params.tpFraction))
        [] ~stop.active /\ ~StopHit /\ ~ProfitHit /\ FlattenDue -> exit("flatten", all)
        [] OTHER -> NoExit

Exit(latency) ==
  [kind |-> ExitFor.kind, side |-> "SELL", token |-> Row.token, decision |-> Row.at,
   arrival |-> Row.at + latency, shares |-> ExitFor.shares, spend |-> None, cash |-> None,
   full |-> FALSE, limit |-> None, deadline |-> None]

\* Faulty variant: the next attempt does not wait for this one's arrival.
EffectiveAtOnce(o) == position.effective

\* A resend cannot precede the previous attempt's arrival.
EffectiveAfter(o) == Max({position.effective, o.arrival})

\* A stop that left shares is sent again a few times.
StopAfter(o, left) ==
  IF left > 0 /\ o.kind = "stop_loss"
  THEN [active |-> TRUE, attempts |-> stop.attempts + 1,
        deadline |-> IF stop.attempts < params.retries
                     THEN Max({Row.at, o.arrival}) + params.retryInterval ELSE None]
  ELSE [stop EXCEPT !.deadline = None]

SendExit ==
  /\ phase = "rows" /\ InEpisode /\ Holding /\ ExitFor # NoExit
  /\ \E latency \in Latencies :
       \E x \in {Outcome(Exit(latency))} :
         LET o    == x.order
             sold == Total(o.slices, "size")
             left == position.shares - sold
         IN  /\ Log(x)
             /\ position' = [position EXCEPT !.shares = left, !.effective = EffectiveAfter(o)]
             /\ stop' = StopAfter(o, left)
             /\ attempted' = attempted \cup ({o.kind} \cap {"take_profit", "flatten"})
             /\ reason' = o.kind
             /\ result' = [result EXCEPT !.exitShares = @ + sold,
                                         !.exitNotional = @ + Total(o.slices, "notional"),
                                         !.fees = @ + Total(o.slices, "fee")]
             /\ phase' = IF left <= 0 THEN "sold" ELSE "rows"
  /\ index' = index + 1
  /\ UNCHANGED <<outer, now, entries, nextEntry, session, debited>>

Signal ==
  /\ position.shares = 0 /\ entries < params.maxEntries
  /\ Row.at >= nextEntry /\ Row.at <= EntryTo
  /\ Row.token \in params.tokens
  /\ Best(Row.asks) # None
  /\ Best(Row.asks) >= params.trigger /\ Best(Row.asks) <= params.limit

Deadline == Min({EntryTo, EpisodeEnd - 1, Row.at + params.horizon})

\* At the window's last instant a parent order has no horizon.
Expired == params.policy # "immediate" /\ Deadline <= Row.at

SkipRow ==
  /\ phase = "rows" /\ InEpisode
  /\ IF Holding THEN ExitFor = NoExit ELSE ~Signal \/ Expired
  /\ index' = index + 1
  /\ UNCHANGED <<outer, phase, now, trade, exits, impact, session, orders, result>>

\* Inventory exists once the entry has arrived and matched.
Enter(slices, effective, scored) ==
  IF slices = << >> THEN result' = scored /\ UNCHANGED <<position, debited, reason>>
  ELSE /\ position' = [shares |-> Total(slices, "size"), cost |-> Total(slices, "notional"),
                       token |-> Row.token, effective |-> effective]
       /\ debited' = debited + TotalCost(slices)
       /\ reason' = "settlement"
       /\ result' = [scored EXCEPT !.fees = @ + Total(slices, "fee")]

Entry(latency) ==
  [kind |-> "entry", side |-> "BUY", token |-> Row.token, decision |-> Row.at,
   arrival |-> Row.at + latency,
   shares |-> IF params.shares # None THEN params.shares
              ELSE (params.notional * PriceScale) \div Best(Row.asks),
   spend |-> EntrySpend, cash |-> CashAt(Row.at + latency),
   full |-> ~params.partial, limit |-> params.limit, deadline |-> None]

\* An entry that only lacked cash does not count and may be tried again.
EnterAtOnce ==
  /\ phase = "rows" /\ InEpisode /\ ~Holding /\ Signal /\ params.policy = "immediate"
  /\ \E latency \in Latencies :
       \E x \in {Outcome(Entry(latency))} :
         LET pending == \/ x.order.refused = "insufficient_available_cash"
                        \/ CashLimited /\ x.order.slices = << >>
         IN  /\ Log(x)
             /\ entries' = IF pending THEN entries ELSE entries + 1
             /\ nextEntry' = IF pending THEN nextEntry ELSE Row.at + params.cooldown
             /\ Enter(x.order.slices, x.order.arrival, result)
  /\ index' = index + 1
  /\ UNCHANGED <<outer, phase, now, stop, attempted, session>>

-----------------------------------------------------------------------------
(* _sequential_entry *)

Plan ==
  [target |-> IF params.shares # None THEN params.shares
              ELSE AffordableAt(EntrySpend, Best(Row.asks)),
   start |-> Row.at, deadline |-> Deadline, benchmark |-> Best(Row.asks), limit |-> params.limit]

\* The plan is built first and refuses a target of nothing.
StartParent ==
  /\ phase = "rows" /\ InEpisode /\ ~Holding /\ Signal /\ params.policy # "immediate" /\ ~Expired
  /\ IF PlanIsLegal(Plan)
     THEN /\ phase' = "decisions"
          /\ session' = NewSession(Plan, IF params.notional # None THEN EntrySpend ELSE CashAt(Deadline))
     ELSE phase' = "illegal" /\ UNCHANGED session
  /\ now' = Row.at
  /\ UNCHANGED <<outer, index, trade, exits, impact, orders, result>>

\* The child clock: its own ticks, every book and trade of the token, and
\* the two ends.
DecisionTimes ==
  LET s == session.plan.start
      d == session.plan.deadline
  IN  {s, d} \cup {t \in s .. d :
        \/ (t - s) % Interval = 0
        \/ \E i \in DOMAIN tape.rows : tape.rows[i].token = Row.token /\ tape.rows[i].at = t
        \/ \E trd \in Trades[episode] : trd.token = Row.token /\ trd.at = t}

\* CausalVolumeCursor.advance: public volume from the start until now.
ObservedVolume ==
  SumFunction([trd \in {x \in Trades[episode] :
                           x.token = Row.token /\ x.at >= session.plan.start /\ x.at <= now} |->
                 trd.size])

Readable(t) ==
  LET row == RowAt(tape, Row.token, t)
  IN  /\ row # 0
      /\ Realism.requireValid => tape.rows[row].valid /\ ~IsUncertain(tape, Row.token, t)

View(after) ==
  LET row == tape.rows[RowAt(tape, Row.token, now)]
  IN  [now |-> now, volume |-> ObservedVolume, minimum |-> MinimumOrder,
       reference |-> Best(row.asks),
       asks |-> LeftOf(row.asks, Row.token, "SELL", after)]

\* The clock moves on to the next decision, or past the deadline.
Tick == now' = Min({TapeEnd} \cup {t \in DecisionTimes : t > now})

DecideChild ==
  /\ phase = "decisions" /\ now <= session.plan.deadline /\ Readable(now)
  /\ \E after \in {Replenished(Row.token, RowAt(tape, Row.token, now))} :
       /\ consumed' = after.consumed /\ cursor' = after.cursor
       /\ session' = IF DecideRaises(session, now) THEN session
                     ELSE Decide(session, View(after.consumed), params)
  /\ IF DecideRaises(session, now) THEN phase' = "raised" /\ UNCHANGED now
     ELSE IF session'.pending > 0 THEN phase' = "child" /\ UNCHANGED now
     ELSE phase' = phase /\ Tick
  /\ UNCHANGED <<outer, index, trade, exits, orders, result>>

SkipDecision ==
  /\ phase = "decisions" /\ now <= session.plan.deadline /\ ~Readable(now)
  /\ Tick
  /\ UNCHANGED <<outer, phase, index, trade, exits, impact, session, orders, result>>

\* child_cash: what is left of the budget and, at the arrival, of the wallet.
ChildCash(arrival) ==
  Min({session.cash, Max({0, CashAt(arrival) - TotalCost(session.fills)})})

ChildOrder(latency) ==
  [kind |-> "entry", side |-> "BUY", token |-> Row.token, decision |-> now,
   arrival |-> now + latency, shares |-> session.pending, spend |-> None,
   cash |-> ChildCash(now + latency), full |-> FALSE, limit |-> params.limit,
   deadline |-> session.plan.deadline]

SendChild ==
  /\ phase = "child"
  /\ \E latency \in Latencies :
       \E x \in {Outcome(ChildOrder(latency))} :
         /\ Log(x)
         /\ IF OutcomeRaises(session, x.order)
            THEN phase' = "raised" /\ UNCHANGED <<session, now>>
            ELSE /\ session' = RecordOutcome(session, x.order)
                 /\ phase' = "decisions"
                 /\ IF Remaining(session') <= 0 THEN now' = TapeEnd ELSE Tick
  /\ UNCHANGED <<outer, index, trade, exits, result>>

\* The best ask at the deadline, or the price of the signal.
DeadlineMark ==
  LET row == RowAt(tape, Row.token, session.plan.deadline)
  IN  IF row # 0 /\ Best(tape.rows[row].asks) # None THEN Best(tape.rows[row].asks)
      ELSE session.plan.benchmark

\* The children's outcomes as one entry; its inventory is handed over no
\* earlier than the deadline up to which the books have been replayed.
FinishParent ==
  /\ phase = "decisions" /\ now > session.plan.deadline
  /\ LET children == {i \in DOMAIN orders : orders[i].row = index}
         arrived  == {orders[i].arrival : i \in {j \in children : orders[j].slices # << >>}}
         pending  == \/ CashLimited /\ session.fills = << >>
                     \/ /\ children # {}
                        /\ \A i \in children : orders[i].refused = "insufficient_available_cash"
     IN  IF EvaluateRaises(session, arrived, DeadlineMark)
         THEN phase' = "raised" /\ UNCHANGED <<index, now, session, trade, reason, result>>
         ELSE /\ entries' = IF pending THEN entries ELSE entries + 1
              /\ nextEntry' = session.plan.deadline + params.cooldown
              /\ Enter(session.fills, Max({session.plan.deadline} \cup arrived),
                       [result EXCEPT !.objective = Objective(session, DeadlineMark)])
              /\ phase' = "rows" /\ index' = index + 1 /\ now' = 0 /\ session' = NoSession
  /\ UNCHANGED <<outer, stop, attempted, impact, orders>>

-----------------------------------------------------------------------------
(* The end of the scan *)

\* Shares left are paid out by the market.
Settle ==
  /\ phase = "sold" \/ (phase = "rows" /\ ~InEpisode)
  /\ phase' = "settled"
  /\ LET payout == IF position.token = WinnerToken THEN position.shares ELSE 0
     IN  result' = [result EXCEPT !.payout = payout,
                                  !.net = result.exitNotional + payout - position.cost - result.fees]
  /\ reason' = IF position.shares > 0 /\ reason = "stop_loss"
               THEN "stop_unfilled_held_to_settlement" ELSE reason
  /\ UNCHANGED <<outer, index, now, trade, stop, attempted, impact, session, orders>>

Over == phase \in {"settled", "illegal", "raised"} /\ UNCHANGED vars

Next ==
  \/ SkipRow
  \/ SendExit
  \/ EnterAtOnce
  \/ StartParent
  \/ DecideChild
  \/ SkipDecision
  \/ SendChild
  \/ FinishParent
  \/ Settle
  \/ Over

Spec == Init /\ [][Next]_vars

-----------------------------------------------------------------------------
(* Properties *)

Filled == {i \in DOMAIN orders : orders[i].slices # << >>}

\* Own fills never take more of a level than it showed since the book last
\* heard of it, whatever the clock reads in between: depth that an order took
\* comes back only with a message that replaces the book or states the level
\* (_reconcile_self_impact, fastsim.py:479-512).
LevelsAreNotOversold ==
  \A i \in Filled : i = Len(orders) =>
    \A k \in DOMAIN orders[i].slices :
      LET side  == BookSide(orders[i].side)
          price == orders[i].slices[k].price
          key   == LevelKey(orders[i].token, side, price)
          row(j) == RowAt(tape, orders[j].token, orders[j].arrival)
          stated(j) == Max({0} \cup {r \in 1 .. row(j) :
                              tape.rows[r].taken /\ Restates(tape.rows[r], key)})
          same  == {j \in Filled : /\ orders[j].token = orders[i].token
                                   /\ orders[j].side = orders[i].side
                                   /\ stated(j) = stated(i)}
          size(j) == SumFunction([n \in DOMAIN orders[j].slices |->
                       IF orders[j].slices[n].price = price THEN orders[j].slices[n].size ELSE 0])
          shown == SumFunction([n \in DOMAIN TakerLadder(tape.rows[row(i)], orders[i].side) |->
                     IF TakerLadder(tape.rows[row(i)], orders[i].side)[n].price = price
                     THEN TakerLadder(tape.rows[row(i)], orders[i].side)[n].size ELSE 0])
      IN  SumFunction([j \in same |-> size(j)]) <= shown

\* An order fills only from levels that the book held when it arrived, and
\* only while that book was valid: replaying the recording up to the arrival
\* gives a valid book with at least that size at each price paid.
FillsMeetTheBook ==
  \A i \in Filled : i = Len(orders) =>
    LET o    == orders[i]
        book == Replayed({e \in Recordings[episode] : e.at <= o.arrival}).books[o.token]
    IN  /\ book.valid
        /\ \A k \in DOMAIN o.slices :
             book.displayed[BookSide(o.side)][o.slices[k].price] >= o.slices[k].size

\* The outcomes the simulator hands to the session are ones it accepts: the
\* errors of decide, record_outcome and evaluate never end a replay.
SessionNeverRaises == phase # "raised"

\* What the entries have cost by the arrival of one of them, fees included,
\* is within what the wallet holds then and within the notional asked for.
EntriesAreFunded ==
  \A i \in Filled : i = Len(orders) /\ orders[i].kind = "entry" =>
    LET spent == SumFunction([j \in {k \in Filled : orders[k].kind = "entry"} |->
                                TotalCost(orders[j].slices)])
    IN  /\ params.notional # None => spent <= params.notional
        /\ wallet # NoWallet =>
             spent <= (IF orders[i].arrival < wallet.from THEN wallet.early ELSE wallet.late)

\* One order at a time, and nothing sold before it is held: an order is
\* decided after the arrival of every fill, of every earlier exit, filled or
\* not, and of every earlier child of its parent, and what has been sold never
\* exceeds what had been bought and had arrived when the sale was decided.
NothingSoldBeforeItArrived ==
  \A j \in DOMAIN orders : j = Len(orders) =>
    LET o       == orders[j]
        size(i) == Total(orders[i].slices, "size")
        sales   == {i \in DOMAIN orders : orders[i].kind # "entry"}
    IN  /\ \A i \in 1 .. j - 1 :
             i \in Filled \cup sales \/ orders[i].row = o.row => orders[i].arrival <= o.decision
        /\ j \in sales =>
             SumFunction([i \in sales |-> size(i)])
               <= SumFunction([i \in {k \in Filled \ sales : orders[k].arrival <= o.decision} |->
                                 size(i)])
=============================================================================
