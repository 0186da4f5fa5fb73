SPECIFICATION FairSpec
CONSTANTS
  w1 = w1
  w2 = w2
  Stages <- ChainStages
  Kind <- ChainKind
  Success <- ChainSuccess
  Error <- ChainError
  First = "create"
  Workers = {w1, w2}
  ExtraAttempts = 1
  MaxVisits = 1
  MaxFaults = 2
  Overrun = TRUE
INVARIANTS
  EffectsInBudget
  WaitsForReceipt
PROPERTIES
  ReceiptsEnd
CHECK_DEADLOCK FALSE
