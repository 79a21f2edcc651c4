---------------------------- MODULE OrderMachine ----------------------------
(***************************************************************************)
(* The state machine an order obeys (Order.machine), and the two questions *)
(* Machine.bind_action asks of it after it has run the action's body:      *)
(* may the action be applied, and which state follows.                     *)
(***************************************************************************)

OrderStates ==
  {"DRAFT", "PENDING_PAYMENT", "EFFECTIVE", "EXPIRED", "PAYMENT_FAILED"}

InitialState == "DRAFT"

\* Mutant: an effective order can still fail, as one that waits can.
ArrowsToFailure ==
  { <<"DRAFT",           "initiate_charge", "PENDING_PAYMENT">>,
    <<"PENDING_PAYMENT", "charge_success",  "EFFECTIVE">>,
    <<"PENDING_PAYMENT", "charge_fail",     "PAYMENT_FAILED">>,
    <<"EFFECTIVE",       "charge_fail",     "PAYMENT_FAILED">>,
    <<"EFFECTIVE",       "expire",          "EXPIRED">> }

Arrows ==
  { <<"DRAFT",           "initiate_charge", "PENDING_PAYMENT">>,
    <<"PENDING_PAYMENT", "charge_success",  "EFFECTIVE">>,
    <<"PENDING_PAYMENT", "charge_fail",     "PAYMENT_FAILED">>,
    <<"EFFECTIVE",       "expire",          "EXPIRED">> }

\* bind_action finds a target state; otherwise it raises.
CanApply(current, action) ==
  \E next \in OrderStates : <<current, action, next>> \in Arrows

\* The state bind_action leaves: a raise comes before the assignment.
Bind(current, action) ==
  IF CanApply(current, action)
  THEN CHOOSE next \in OrderStates : <<current, action, next>> \in Arrows
  ELSE current

\* The states a finished payment attempt leaves an order in.
Decided == {"EFFECTIVE", "EXPIRED", "PAYMENT_FAILED"}
=============================================================================
