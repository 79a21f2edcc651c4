SPECIFICATION FundingFairSpec
CONSTANTS
  full = full
  readOnly = readOnly
  j1 = j1
  j2 = j2
  None = None
  Jobs = {j1, j2}
  Keys = {full, readOnly}
  FullKeys = {full}
  Strategies <- MCStrategies
  Patches <- MCPatches
  Books <- MCBooks
  InitialRate = 932575
  BookLength = 1
  WindowSize = 3
  Updates = 4
  Rules <- DefaultRules
  MaxOffers = 3
  ExchangeMin = 1
  Total = 3
  MaxFaults = 1
INVARIANTS
  FundingInv
PROPERTIES
  MoneyIsOffered
  HoldBrokenOnlyIfMoneyLeft
  ShortOnlyForCause
CHECK_DEADLOCK FALSE
