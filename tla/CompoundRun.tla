---------------------------- MODULE CompoundRun ----------------------------
(***************************************************************************)
(* A compounded replay (dashboard/backtest_service.py, run_episodes): the  *)
(* episodes are simulated one after the other (backtest/fastsim.py), each  *)
(* sized and checked with what the wallet says it will hold at a time that *)
(* lies ahead, and only then are the episode's cash flows written to the   *)
(* wallet.  The module composes ReplayWallet with the simulator's rules    *)
(* about cash.                                                             *)
(*                                                                         *)
(* Data.  What the book decides is free: when a signal fires, how long an  *)
(* order travels, how much of its budget it spends, what a sale brings and *)
(* what the market pays out.  An order that fills nothing has no cash flow *)
(* and is no step.                                                         *)
(***************************************************************************)
EXTENDS ReplayWallet, Sequences, SequencesExt

CONSTANTS Episodes,     \* sequence of [start, entryTo, end, settles], times
          MaxLatency,   \* bounds: decision to arrival,
          MaxOrders,    \*   filled orders of one episode
          Proceeds      \* what one sale or settlement may bring

ASSUME EpisodesAssumption ==
  /\ Episodes \in Seq([start : Nat, entryTo : Nat, end : Nat, settles : Nat])
  /\ Episodes # <<>> /\ StartTime = Episodes[1].start
  /\ \A i \in DOMAIN Episodes :
       /\ Episodes[i].start <= Episodes[i].entryTo
       /\ Episodes[i].entryTo <= Episodes[i].end
       /\ Episodes[i].end <= Episodes[i].settles
       /\ \A j \in DOMAIN Episodes : i < j => Episodes[i].end <= Episodes[j].start
  /\ MaxLatency \in Nat /\ MaxOrders \in Nat /\ Proceeds \subseteq Nat

VARIABLES
  policy,   \* entry_execution_policy: "immediate", or a policy of child orders
  episode,  \* number of the current episode, 0 before the first
  phase,    \* next, flat, children, held; then the parts of _apply_result:
            \*   sells, payout, buys; finishing, done
  clock,    \* no later order is decided before this time
  deadline, \* of the parent order
  budget,   \* cash of the SequentialExecutionSession
  orders,   \* filled orders of the episode not yet written to the wallet
  payout,   \* settlement_payout_scaled
  before,   \* total equity when the episode began
  pnl,      \* net_pnl_scaled of the episode
  flow      \* time -> sum of the run's cash flows at that time

sim == <<clock, deadline, budget, orders, payout>>
books == <<before, pnl, flow>>
run == <<policy, episode, phase, sim, books>>
vars == <<wallet, run>>

Current == Episodes[episode]

Times == StartTime .. Max({Episodes[i].settles : i \in DOMAIN Episodes})

Init ==
  /\ WalletInit
  /\ policy \in {"immediate", "children"}
  /\ episode = 0 /\ phase = "next"
  /\ clock = StartTime /\ deadline = StartTime /\ budget = 0
  /\ orders = <<>> /\ payout = 0
  /\ before = StartCash /\ pnl = 0 /\ flow = [t \in Times |-> 0]

-----------------------------------------------------------------------------
(* run_episodes *)

BeginEpisode ==
  /\ phase = "next" /\ episode < Len(Episodes)
  /\ TotalEquity > 0
  /\ episode' = episode + 1
  /\ phase' = "flat"
  /\ clock' = Episodes[episode'].start
  /\ deadline' = clock' /\ budget' = 0
  /\ orders' = <<>> /\ payout' = 0
  /\ before' = TotalEquity /\ pnl' = 0
  /\ UNCHANGED <<wallet, policy, flow>>

\* Faulty variant: the run ends when everything is settled.
HorizonOfSettlements == IF episode = 0 THEN now ELSE Max({now, Current.settles})

\* The end of the last episode replayed.
Horizon == IF episode = 0 THEN now ELSE Max({now, Current.end})

\* No episode is left, or no cash: the wallet is read at the horizon.
Finish ==
  /\ phase = "next"
  /\ episode = Len(Episodes) \/ TotalEquity <= 0
  /\ Call("advance", Horizon, 0)
  /\ phase' = "finishing"
  /\ UNCHANGED <<policy, episode, sim, books>>

Report ==
  /\ phase = "finishing" /\ call = NoCall
  /\ phase' = "done"
  /\ UNCHANGED <<wallet, policy, episode, sim, books>>

-----------------------------------------------------------------------------
(* ThresholdHoldSimulator.run, with available_cash_scaled = the wallet's    *)
(* peek_available_at.  The wallet itself does not move.                     *)

\* cash_at: what the wallet will hold, less what this episode has spent.
Spent == SumFunction([i \in DOMAIN orders |->
                       IF orders[i].side = "BUY" THEN orders[i].amount ELSE 0])

CashAt(t) == Max({0, PeekAvailableAt(t) - Spent})

\* order_notional_scaled of the episode, cut to the cash at the signal; with
\* no cash the full request is kept, to be refused at its arrival.
MaxSpend == Max({1, before})

EntrySpend(t) == IF CashAt(t) > 0 THEN Min({MaxSpend, CashAt(t)}) ELSE MaxSpend

Record(side, t, amount) ==
  /\ orders' = Append(orders, [side |-> side, at |-> t, amount |-> amount])
  /\ pnl' = IF side = "BUY" THEN pnl - amount ELSE pnl + amount
  /\ flow' = [flow EXCEPT ![t] = @ + pnl' - pnl]
  /\ UNCHANGED before

\* A notional-sized BUY: the cash at arrival must cover its whole budget.
ImmediateEntry(t, arrival) ==
  /\ phase = "flat" /\ policy = "immediate"
  /\ t >= clock /\ t <= Current.entryTo
  /\ arrival < Current.end
  /\ CashAt(arrival) >= EntrySpend(t)
  /\ \E cost \in 1 .. EntrySpend(t) : Record("BUY", arrival, cost)
  /\ phase' = "held" /\ clock' = arrival
  /\ UNCHANGED <<wallet, policy, episode, deadline, budget, payout>>

\* The parent's deadline is capped by the entry window and the market's end.
ParentStarts(t, d) ==
  /\ phase = "flat" /\ policy = "children"
  /\ t >= clock /\ t < d
  /\ d <= Current.entryTo /\ d < Current.end
  /\ budget' = EntrySpend(t)
  /\ deadline' = d /\ clock' = t
  /\ phase' = "children"
  /\ UNCHANGED <<wallet, policy, episode, orders, payout, books>>

\* child_cash: the session's cash and the wallet's, each less what the
\* children before this one have spent.
ChildFills(t, arrival) ==
  /\ phase = "children" /\ Len(orders) < MaxOrders
  /\ t >= clock /\ arrival <= deadline
  /\ \E cost \in 1 .. Min({budget - Spent, CashAt(arrival)}) : Record("BUY", arrival, cost)
  /\ clock' = arrival
  /\ UNCHANGED <<wallet, policy, episode, phase, deadline, budget, payout>>

\* Inventory is handed to the exit rules at the deadline.
ParentEnds ==
  /\ phase = "children"
  /\ clock' = deadline
  /\ phase' = IF orders = <<>> THEN "flat" ELSE "held"
  /\ UNCHANGED <<wallet, policy, episode, deadline, budget, orders, payout, books>>

\* A stop, a profit taking or a flattening; the position may be gone with it.
Exit(t, arrival) ==
  /\ phase = "held" /\ Len(orders) < MaxOrders
  /\ t >= clock /\ arrival < Current.end
  /\ \E proceeds \in Proceeds : Record("SELL", arrival, proceeds)
  /\ clock' = arrival
  /\ phase' \in {"held", "sells"}
  /\ UNCHANGED <<wallet, policy, episode, deadline, budget, payout>>

\* Shares left at the end are settled.
Settle ==
  /\ phase = "held"
  /\ \E amount \in Proceeds :
       /\ payout' = amount
       /\ pnl' = pnl + amount
       /\ flow' = [flow EXCEPT ![Current.settles] = @ + amount]
  /\ phase' = "sells"
  /\ UNCHANGED <<wallet, policy, episode, clock, deadline, budget, orders, before>>

NoEntry ==
  /\ phase = "flat"
  /\ phase' = "sells"
  /\ UNCHANGED <<wallet, policy, episode, sim, books>>

-----------------------------------------------------------------------------
(* _apply_result_to_wallet: sells, then the settlement, then buys, the      *)
(* orders of a side by arrival time                                         *)

IsNext(i, side) ==
  /\ orders[i].side = side
  /\ \A j \in DOMAIN orders :
       orders[j].side = side =>
         orders[i].at < orders[j].at \/ (orders[i].at = orders[j].at /\ i <= j)

NoneLeft(side) == \A i \in DOMAIN orders : orders[i].side # side

\* schedule_credit, which returns at once for a zero amount.
Schedule(t, amount) ==
  \/ ScheduleCredit(t, amount)
  \/ amount = 0 /\ UNCHANGED wallet

ApplySell(i) ==
  /\ phase = "sells" /\ IsNext(i, "SELL")
  /\ Schedule(orders[i].at, orders[i].amount)
  /\ orders' = RemoveAt(orders, i)
  /\ UNCHANGED <<policy, episode, phase, clock, deadline, budget, payout, books>>

ApplyPayout ==
  /\ phase = "sells" /\ NoneLeft("SELL")
  /\ Schedule(Current.settles, payout)
  /\ phase' = "buys"
  /\ UNCHANGED <<policy, episode, sim, books>>

ApplyBuy(i) ==
  /\ phase = "buys" /\ IsNext(i, "BUY")
  /\ Call("debit", orders[i].at, orders[i].amount)
  /\ orders' = RemoveAt(orders, i)
  /\ UNCHANGED <<policy, episode, phase, clock, deadline, budget, payout, books>>

Reconciled ==
  /\ phase = "buys" /\ NoneLeft("BUY") /\ call = NoCall
  /\ phase' = "next"
  /\ UNCHANGED <<wallet, policy, episode, sim, books>>

\* The run is over: the outcome does not change any more.
Done == phase = "done" /\ UNCHANGED vars

Next ==
  \/ BeginEpisode \/ Finish \/ Report \/ Done
  \/ \E t \in Times, latency \in 0 .. MaxLatency :
       \/ ImmediateEntry(t, t + latency)
       \/ ParentStarts(t, t + latency)
       \/ ChildFills(t, t + latency)
       \/ Exit(t, t + latency)
  \/ ParentEnds \/ Settle \/ NoEntry
  \/ \E i \in DOMAIN orders : ApplySell(i) \/ ApplyBuy(i)
  \/ ApplyPayout \/ Reconciled
  \/ WalletStep /\ UNCHANGED run

Spec == Init /\ [][Next]_vars

-----------------------------------------------------------------------------
(* Properties *)

\* No replay is aborted: no query and no debit lies behind wallet time, each
\* debit is covered when its advance is through, though it was sized before
\* the episode's other flows were known and is written after them, and the
\* wallet's equity has moved by exactly the episode's net result
\* (backtest_service.py, _apply_result_to_wallet; wallet.py, debit).
ReplayNeverRaises ==
  /\ phase \in {"flat", "children", "held"} => now <= clock
  /\ phase = "buys" => \A i \in DOMAIN orders : orders[i].at >= now
  /\ LoopIsDone /\ call.op = "debit" => call.amount <= available
  /\ phase = "buys" /\ orders = <<>> /\ call = NoCall => TotalEquity - before = pnl

\* The cash the flows of the run leave at time t.
CashFromFlows(t) ==
  StartCash + SumFunctionOnSet(flow, {u \in Times : u <= t})

\* The cash flows of the whole run, put in the order of their times, never
\* take the account below zero: a settlement or a sale that lies ahead cannot
\* enlarge an earlier order (backtest_service.py, run_episodes: "a future
\* settlement cannot enlarge an earlier order").
CausalSolvency == \A t \in Times : CashFromFlows(t) >= 0

\* The report's split at the horizon: what is shown as spendable is what the
\* flows up to the horizon add up to, the rest is locked (run_episodes: the
\* available and locked balance "when the run ended").
ReportIsCausal ==
  phase = "done" /\ episode > 0 => available = CashFromFlows(Current.end)
=============================================================================
