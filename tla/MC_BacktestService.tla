------------------------- MODULE MC_BacktestService -------------------------
(* Instances of BacktestService: two episodes whose tapes do not fit in the  *)
(* cache together.                                                           *)
EXTENDS BacktestService

AllOrLast == {[from |-> 1, to |-> 2, max |-> 0], [from |-> 1, to |-> 2, max |-> 1]}

Both == {{1, 2}}

OneEach == [e \in Episodes |-> 1]
=============================================================================
