SPECIFICATION Spec
CONSTANTS
  twd = twd
  syncPayment = syncPayment
  applyStrategy = applyStrategy
  bot = bot
  trial = trial
  signal = signal
  month = month
  price = price
  Entries <- MCEntries
  ModuleOf <- MCModuleOf
  TableOf <- MCTableOf
  ForeignOf <- MCForeignOf
  Cascades <- MCCascades
  Nullifies <- MCNullifies
  Referred <- MCReferred
  Files <- MCFiles
  Versions <- MCVersions
  MaxId = 8
  MaxRuns = 3
INVARIANTS
  IInv
PROPERTIES
  LostOnlyIfShared
  RaisesOnlyForCause
CHECK_DEADLOCK FALSE
