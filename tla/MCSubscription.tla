--------------------------- MODULE MCSubscription ---------------------------
(* Orders of Subscription for TLC: one end user who buys two plans of        *)
(* different length, and another one.                                        *)
EXTENDS Subscription, TLC

CONSTANTS u1, u2, o1, o2, o3

MCOwner == (o1 :> u1) @@ (o2 :> u1) @@ (o3 :> u2)
MCDuration == (o1 :> 1) @@ (o2 :> 3) @@ (o3 :> 2)
=============================================================================
