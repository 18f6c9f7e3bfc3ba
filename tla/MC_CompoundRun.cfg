SPECIFICATION Spec
CONSTANTS
  StartCash = 2
  StartTime = 0
  Episodes <- MCEpisodes
  MaxLatency = 1
  MaxOrders = 3
  Proceeds = {0, 2}
INVARIANTS
  
  CausalSolvency
  ReportIsCausal
