CONSTANTS
  a1 = a1
  a2 = a2
  b1 = b1
  f = f
  g = g
  NoPrint = NoPrint
  Attempts <- ThreeAttempts
  PrintOf <- TwoPrints
  RefreshPrints <- OneRefresh
  MaxFaults = 3
SPECIFICATION FairSpec
CHECK_DEADLOCK FALSE
INVARIANTS SuccessIsOwn ExecutedOnce SuccessSticks
PROPERTIES RetriesEnd
