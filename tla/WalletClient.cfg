SPECIFICATION Spec
CONSTANTS
  StartCash = 2
  StartTime = 0
  Times = {0, 1, 2, 3}
  Amounts = {1, 2}
  MaxCredits = 3
  MaxCash = 5
INVARIANTS
  PendingLiesAhead
  CashIsConserved
PROPERTY EventsInOrder
