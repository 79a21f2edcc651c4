SPECIFICATION FairSpec
CONSTANTS
  Markets = {m1, m2}
  Main = main
  NoMarket = NoMarket
  MaxConns = 5
  MaxFaults = 2
INVARIANTS
  IInv
  DeafOnlyAfterReconnect
PROPERTIES
  ConnectReturns
  StaysConnected
CHECK_DEADLOCK FALSE
