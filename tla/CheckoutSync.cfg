SPECIFICATION FairSpec
CONSTANTS
  Orders = {o1}
  Trades = {t1}
  Users = {u1}
  Plans <- MCPlans
  FreePlans <- MCFreePlans
  GrantingPlans <- MCPlans
  Quota <- MCQuota
  Web = web
  Workers = {w1, w2}
  NoOrder = NoOrder
  NoTrade = NoTrade
  NoUser = NoUser
  NoPlan = NoPlan
  MaxDeliveries = 2
  MaxJobs = 1
  MaxFailures = 1
  PricedPlan = PricedPlan
  FreePlan = FreePlan
INVARIANTS
  IInv
  MoneyBeforeGoods
PROPERTIES
  FinishedTradeIsSettled
  PaidIsUndoneOnlyByStaleSync
