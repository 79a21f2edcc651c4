SPECIFICATION Spec
CONSTANTS
  Orders = {o1, o2}
  Trades = {t1, t2}
  Users = {u1}
  Plans <- MCPlans
  FreePlans <- MCFreePlans
  GrantingPlans <- MCPlans
  Quota <- MCQuota
  Web = web
  Workers = {}
  NoOrder = NoOrder
  NoTrade = NoTrade
  NoUser = NoUser
  NoPlan = NoPlan
  MaxDeliveries = 3
  MaxJobs = 1
  MaxFailures = 1
  PricedPlan = PricedPlan
  FreePlan = FreePlan

CHECK_DEADLOCK FALSE
INVARIANTS
  ResultMatchesOrder
PROPERTIES
  ImplementsLifecycle
