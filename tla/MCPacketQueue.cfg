CONSTANTS
  Slots = 2
  Capacity = 4
  Sizes = {0, 1, 3, 5}
  MaxChunks = 4
SPECIFICATION FairSpec
INVARIANTS BudgetIsKept NoLostWakeup
PROPERTIES ImplementsChannel CloseEndsBoth
