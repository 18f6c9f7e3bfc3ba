SPECIFICATION Spec
CONSTANTS
  up = up
  c1 = c1
  c2 = c2
  none = none
  PriceScale = 4
  Conditions <- MCConditions
  NoCondition = none
  Tokens <- MCTokens
  Snapshots <- MCSnapshots
  Changes <- MCChanges
  TickChanges <- MCTickChanges
  DefaultTick = 1
  MaxIntervals = 2
INVARIANTS
  ValidBookIsUncrossed
  OverlayWithinDisplay
PROPERTIES
  SequenceNeverRegresses
  RevalidatedOnlyBySnapshot
