----------------------------- MODULE MCCheckout -----------------------------
(* Instances of Checkout for TLC: one priced plan without a limit and one    *)
(* free plan of which a user may have one effective order (coin's plans).    *)
EXTENDS Checkout, TLC

CONSTANTS PricedPlan, FreePlan

MCPlans == {PricedPlan, FreePlan}
MCFreePlans == {FreePlan}
MCQuota == (PricedPlan :> {}) @@ (FreePlan :> {1})
=============================================================================
