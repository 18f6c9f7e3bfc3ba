--------------------------- MODULE ExecutionSession ---------------------------
(***************************************************************************)
(* The execution of one parent BUY in child orders                         *)
(* (backtest/optimal_execution.py): the policies that decide a child, and  *)
(* the session that keeps its cash, its fills and the child under way.     *)
(* Values only; the simulator owns the session.  A SELL parent, which the  *)
(* simulator never creates, is left out, and so are the objective's        *)
(* weights, which it leaves at one.                                        *)
(***************************************************************************)
EXTENDS TakerRealism

CONSTANTS MinimumInterval,   \* PolicyLimits, as the simulator sets them
          DepthShare,        \*   in PPM
          FeeReserve,        \*   in PPM
          Tolerance,         \* AdaptivePovPolicy's defaults
          FloorShare,        \*   twap_floor_ppm
          MinimumMultiplier

ASSUME SessionAssumption ==
  /\ MinimumInterval \in Nat
  /\ DepthShare \in 1 .. PPM /\ FeeReserve \in Nat
  /\ Tolerance \in Nat \ {0}
  /\ FloorShare \in 0 .. PPM /\ MinimumMultiplier \in 0 .. PPM

Ppm(value, rate) == (value * rate) \div PPM

CeilDiv(a, b) == -((-a) \div b)

\* ExecutionPlan refuses what is not a legal parent.
PlanIsLegal(plan) == plan.target > 0 /\ plan.deadline > plan.start /\ plan.benchmark > 0

Progress(plan, now) ==
  IF now >= plan.deadline THEN PPM
  ELSE ((now - plan.start) * PPM) \div (plan.deadline - plan.start)

NewSession(plan, cash) ==
  [plan |-> plan, cash |-> cash, filled |-> 0, fills |-> << >>,
   pending |-> 0, pendingAt |-> None, lastAction |-> None, lastDecision |-> None,
   notBefore |-> plan.start]

Remaining(s) == s.plan.target - s.filled

-----------------------------------------------------------------------------
(* The policies.  A view is what a decision may see: now, the asks left by *)
(* earlier fills, the volume seen so far, the best ask and the venue's     *)
(* minimum.  A decision of 0 shares is WAIT.                                *)

\* _preflight; the times are always inside the parent's.
Blocked(s, view) ==
  \/ Remaining(s) <= 0
  \/ view.asks = << >>
  \/ /\ view.now < s.plan.deadline
     /\ s.lastAction # None
     /\ view.now - s.lastAction < MinimumInterval

\* The levels within the limit.
Executable(s, view) == {i \in DOMAIN view.asks : view.asks[i].price <= s.plan.limit}

CashAffordable(s, view) ==
  IF Executable(s, view) = {} THEN 0
  ELSE (s.cash * PriceScale * PPM) \div (s.plan.limit * (PPM + FeeReserve))

\* _child_action: the due shares within what is left, present and payable.
Child(s, view, due) ==
  LET depth == SumFunction([i \in Executable(s, view) |-> view.asks[i].size])
      size  == Min({due, Remaining(s), Ppm(depth, DepthShare), CashAffordable(s, view)})
  IN  IF size <= 0 \/ size < view.minimum THEN 0 ELSE size

Twap(s, view, slices) ==
  LET duration == s.plan.deadline - s.plan.start
      slot     == Min({slices, ((view.now - s.plan.start) * slices) \div duration + 1})
      due      == CeilDiv(s.plan.target * slot, slices) - s.filled
  IN  IF due <= 0 THEN 0 ELSE Child(s, view, due)

AdverseMultiplier(s, view) ==
  LET move     == view.reference - s.plan.benchmark
      pressure == Min({PPM, (move * PPM) \div Tolerance})
  IN  IF move <= 0 THEN PPM
      ELSE Max({MinimumMultiplier,
                PPM - Ppm(pressure, PPM - Progress(s.plan, view.now))})

\* Before the deadline: the flow's share or the schedule's floor, throttled
\* while the price runs away.
AdaptivePov(s, view, participation) ==
  LET flow    == (view.volume * participation) \div (PPM - participation)
      floor   == Ppm(Ppm(s.plan.target, Progress(s.plan, view.now)), FloorShare)
      desired == Min({s.plan.target, Max({flow, floor})})
      due     == Ppm(desired - s.filled, AdverseMultiplier(s, view))
  IN  CASE view.now = s.plan.deadline -> Child(s, view, Remaining(s))
        [] view.now < s.plan.deadline /\ (desired <= s.filled \/ due <= 0) -> 0
        [] OTHER -> Child(s, view, due)

PolicyDecides(s, view, params) ==
  IF Blocked(s, view) THEN 0
  ELSE IF params.policy = "twap" THEN Twap(s, view, params.slices)
  ELSE AdaptivePov(s, view, params.participation)

-----------------------------------------------------------------------------
(* SequentialExecutionSession *)

\* A child is under way, or has been decided but has not arrived yet.
WaitsForChild(s, now) == s.pending > 0 \/ now < s.notBefore

\* The clock ran back, or what the policy would be shown is not a state.
DecideRaises(s, now) ==
  \/ s.lastDecision # None /\ now < s.lastDecision
  \/ ~WaitsForChild(s, now) /\ (s.filled > s.plan.target \/ s.cash < 0)

Decide(s, view, params) ==
  LET shares == IF WaitsForChild(s, view.now) THEN 0 ELSE PolicyDecides(s, view, params)
  IN  IF shares = 0 THEN [s EXCEPT !.lastDecision = view.now]
      ELSE [s EXCEPT !.lastDecision = view.now, !.pending = shares,
                     !.pendingAt = view.now, !.lastAction = view.now]

OutcomeRaises(s, outcome) ==
  \/ outcome.requested # s.pending \/ outcome.decision # s.pendingAt
  \/ outcome.arrival < s.pendingAt
  \/ outcome.arrival > s.plan.deadline /\ outcome.slices # << >>
  \/ Total(outcome.slices, "size") > s.pending
  \/ Total(outcome.slices, "size") > Remaining(s)
  \/ TotalCost(outcome.slices) > s.cash

\* record_outcome, _apply_fills and _complete_pending.
RecordOutcome(s, outcome) ==
  [s EXCEPT !.cash = @ - TotalCost(outcome.slices),
            !.filled = @ + Total(outcome.slices, "size"),
            !.fills = @ \o outcome.slices,
            !.notBefore = Max({@, outcome.arrival}),
            !.pending = 0, !.pendingAt = None]

\* evaluate refuses a child under way, fills after the deadline or beyond the
\* target, and a mark that is no price.
EvaluateRaises(s, arrivals, mark) ==
  \/ s.pending > 0
  \/ mark <= 0
  \/ \E t \in arrivals : t > s.plan.deadline
  \/ s.filled > s.plan.target

\* The objective: what was paid above the benchmark, the benchmark value of what
\* is missing, and what was overpaid in the light of the deadline's price.
Objective(s, mark) ==
  LET shortfall == TotalCost(s.fills) - NotionalScaled(s.filled, s.plan.benchmark)
      nonFill   == NotionalScaled(Remaining(s), s.plan.benchmark)
      overpaid  == SumFunction([i \in DOMAIN s.fills |->
                     NotionalScaled(s.fills[i].size, Max({0, s.fills[i].price - mark}))])
  IN  shortfall + nonFill + overpaid
=============================================================================
