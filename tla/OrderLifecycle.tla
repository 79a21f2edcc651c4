--------------------------- MODULE OrderLifecycle ---------------------------
(***************************************************************************)
(* What the order table promises an end user, whatever the requests,       *)
(* callbacks and repetitions behind it: an order is drafted, charged once, *)
(* and decided once, by what the payment gateway finally says.             *)
(***************************************************************************)
EXTENDS OrderMachine

CONSTANTS Orders

VARIABLES
  state,   \* order -> its state, "NONE" before it is created
  status,  \* order -> what the gateway says: "open", "paid" or "declined"
  free     \* the orders created on a free plan

vars == <<state, status, free>>

Init ==
  /\ state = [o \in Orders |-> "NONE"]
  /\ status = [o \in Orders |-> "open"]
  /\ free = {}

Draft(o) ==
  /\ state[o] = "NONE"
  /\ state' = [state EXCEPT ![o] = InitialState]
  /\ free' \in {free, free \cup {o}}
  /\ UNCHANGED status

\* A free order is charged and effective at once.
Activate(o) ==
  /\ state[o] = "DRAFT" /\ o \in free
  /\ state' = [state EXCEPT ![o] = "EFFECTIVE"]
  /\ UNCHANGED <<status, free>>

Charge(o) ==
  /\ state[o] = "DRAFT" /\ o \notin free
  /\ state' = [state EXCEPT ![o] = "PENDING_PAYMENT"]
  /\ UNCHANGED <<status, free>>

\* The end user pays, or the card is refused.
Finish(o) ==
  /\ state[o] = "PENDING_PAYMENT" /\ status[o] = "open"
  /\ \E s \in {"paid", "declined"} : status' = [status EXCEPT ![o] = s]
  /\ UNCHANGED <<state, free>>

Decide(o) ==
  /\ state[o] = "PENDING_PAYMENT" /\ status[o] # "open"
  /\ state' = [state EXCEPT ![o] =
                 IF status[o] = "paid" THEN "EFFECTIVE" ELSE "PAYMENT_FAILED"]
  /\ UNCHANGED <<status, free>>

Next == \E o \in Orders : Draft(o) \/ Activate(o) \/ Charge(o) \/ Finish(o) \/ Decide(o)

Spec == Init /\ [][Next]_vars
=============================================================================
