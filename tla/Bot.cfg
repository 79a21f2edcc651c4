SPECIFICATION FairSpec
CONSTANTS
  Pairs = {p1, p2}
  AccountCount = 2
  HoursPerDay = 2
  MaxHour = 3
  MaxFaults = 1
INVARIANTS
  IInv
PROPERTIES
  RankedByFreshRates
  EveryAccountHasItsTurn
  OwnerIsTold
